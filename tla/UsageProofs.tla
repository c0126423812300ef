---------------------------- MODULE UsageProofs ----------------------------
(***************************************************************************)
(* Theorems about the bookkeeping of API calls: what the tables of         *)
(* ApiTracker say of the calls, what the queries of UsageQueries see of    *)
(* them, what UsageDashboard caches, and the metrics of UsageMetrics.      *)
(***************************************************************************)
EXTENDS UsageDashboard, FiniteSetTheorems, TLAPS

-----------------------------------------------------------------------------
(* Induction, with sets in place of predicates *)

\* Of some sets within a finite one, one includes no other.
LEMMA SmallestSet ==
  ASSUME NEW S, IsFiniteSet(S), NEW C, C \subseteq SUBSET S, C # {}
  PROVE  \E T \in C : \A U \in C : U \subseteq T => U = T
<1>1. IsWellFoundedOn(StrictSubsetOrdering(S), SUBSET S)
  BY FS_StrictSubsetOrderingWellFounded, FS_FiniteSubsetsOfFinite
<1>2. PICK T \in C : \A U \in C : ~ (<<U, T>> \in StrictSubsetOrdering(S))
  BY <1>1, WFMin
<1>3. \A U \in C : U \subseteq T => U = T
  BY <1>2 DEF StrictSubsetOrdering
<1> QED BY <1>3

\* What is in G for the empty set, and for a set once it is for all but one of its
\* members, is in G for every finite set.
LEMMA InductionOnSets ==
  ASSUME NEW S, IsFiniteSet(S), NEW G, {} \in G,
         \A T \in SUBSET S : \A x \in T : T \ {x} \in G => T \in G
  PROVE  S \in G
<1> DEFINE Not == {T \in SUBSET S : T \notin G}
<1>1. Not \subseteq SUBSET S /\ \A T \in SUBSET S : T \in Not <=> T \notin G
  OBVIOUS
<1> HIDE DEF Not
<1> SUFFICES ASSUME Not # {}
             PROVE  FALSE
  BY <1>1
<1>2. PICK T \in Not : \A U \in Not : U \subseteq T => U = T
  BY <1>1, SmallestSet
<1>3. PICK x \in T : TRUE
  <2>1. {} \notin Not
    BY <1>1
  <2> QED BY <1>2, <2>1
<1>4. T \ {x} \in G
  BY <1>1, <1>2, <1>3
<1> QED BY <1>1, <1>2, <1>3, <1>4

\* The same for numbers.
LEMMA InductionOnNumbers ==
  ASSUME NEW G, 0 \in G, \A n \in Nat : n \in G => n + 1 \in G
  PROVE  Nat \subseteq G
<1> DEFINE Not == Nat \ G
<1> SUFFICES ASSUME Not # {}
             PROVE  FALSE
  OBVIOUS
<1>1. PICK n \in Not : \A m \in Not : ~ (<<m, n>> \in OpToRel(<, Nat))
  <2> HIDE DEF Not
  <2>1. Not \subseteq Nat
    BY DEF Not
  <2> QED BY <2>1, NatLessThanWellFounded, WFMin
<1>2. n \in Nat /\ n \notin G /\ n - 1 \in Nat
  <2>1. n \in Nat /\ n \notin G
    BY <1>1
  <2>2. n # 0
    BY <2>1
  <2> QED BY <2>1, <2>2
<1>3. <<n - 1, n>> \in OpToRel(<, Nat)
  BY <1>2 DEF OpToRel
<1>4. n - 1 \in G
  BY <1>1, <1>2, <1>3
<1>5. (n - 1) + 1 = n
  BY <1>2
<1> QED BY <1>2, <1>4, <1>5

-----------------------------------------------------------------------------
(* Folds *)

\* A fold over S, in the order that pick says.
Folds(g, S, base, op, pick) ==
  g = [s \in SUBSET S |-> IF s = {} THEN base ELSE op[<<pick[s], g[s \ {pick[s]}]>>]]

\* The recursive function by which the library defines a fold exists.
LEMMA FoldExists ==
  ASSUME NEW S, IsFiniteSet(S), NEW V, NEW base \in V, NEW op \in [S \X V -> V],
         NEW pick, \A s \in (SUBSET S) \ {{}} : pick[s] \in s
  PROVE  \E g \in [SUBSET S -> V] : Folds(g, S, base, op, pick)
<1> DEFINE Small(n) == {s \in SUBSET S : Cardinality(s) <= n}
           Next(g, s) == IF s = {} THEN base ELSE op[<<pick[s], g[s \ {pick[s]}]>>]
           Ok(g, n) == g \in [Small(n) -> V] /\ \A s \in Small(n) : g[s] = Next(g, s)
           G == {n \in Nat : \E g : Ok(g, n)}
<1>1. \A s \in SUBSET S : IsFiniteSet(s) /\ Cardinality(s) \in Nat
  BY FS_Subset, FS_CardinalityType
<1>2. \A s \in (SUBSET S) \ {{}} : s \ {pick[s]} \in SUBSET S /\ Cardinality(s \ {pick[s]}) = Cardinality(s) - 1
  BY <1>1, FS_RemoveElement
<1>3. 0 \in G
  <2>1. Small(0) = {{}}
    BY <1>1, FS_EmptySet
  <2>2. Ok([s \in Small(0) |-> base], 0)
    BY <2>1
  <2> QED BY <2>2
<1>4. ASSUME NEW n \in Nat, n \in G
      PROVE  n + 1 \in G
  <2>1. PICK g : Ok(g, n)
    BY <1>4
  <2> DEFINE h == [s \in Small(n + 1) |-> Next(g, s)]
  <2>2. ASSUME NEW s \in Small(n + 1), s # {}
        PROVE  s \ {pick[s]} \in Small(n)
    BY <1>1, <1>2, <2>2
  <2>3. h \in [Small(n + 1) -> V]
    BY <2>1, <2>2
  <2>4. ASSUME NEW s \in Small(n)
        PROVE  s \in Small(n + 1) /\ h[s] = g[s]
    <3>1. s \in Small(n + 1)
      BY <1>1
    <3> HIDE DEF Small, Next
    <3> QED BY <2>1, <3>1
  <2>5. ASSUME NEW s \in Small(n + 1)
        PROVE  h[s] = Next(h, s)
    BY <2>2, <2>4, <2>5
  <2>6. Ok(h, n + 1)
    BY <2>3, <2>5
  <2> HIDE DEF Ok
  <2> QED BY <2>6
<1>5. PICK g : Ok(g, Cardinality(S))
  <2> HIDE DEF Ok
  <2>1. Nat \subseteq G
    BY <1>3, <1>4, InductionOnNumbers
  <2> QED BY <1>1, <2>1
<1>6. Small(Cardinality(S)) = SUBSET S
  BY FS_Subset
<1>7. g \in [SUBSET S -> V] /\ \A s \in SUBSET S : g[s] = Next(g, s)
  <2> HIDE DEF Small, Next
  <2> QED BY <1>5, <1>6
<1>8. g = [s \in SUBSET S |-> Next(g, s)]
  <2> HIDE DEF Next
  <2> QED BY <1>7
<1>9. Folds(g, S, base, op, pick)
  BY <1>8 DEF Folds
<1> QED BY <1>7, <1>9

-----------------------------------------------------------------------------
(* Sums *)

Pick(s) == CHOOSE x \in s : TRUE

AddsUp(g, f, S) == g = [s \in SUBSET S |-> IF s = {} THEN 0 ELSE f[Pick(s)] + g[s \ {Pick(s)}]]

\* The library's sum is a fold that picks any member.
LEMMA SumIs ==
  ASSUME NEW S, NEW f
  PROVE  SumFunctionOnSet(f, S) = (CHOOSE g : AddsUp(g, f, S))[S]
BY DEF SumFunctionOnSet, FoldFunctionOnSet, MapThenFoldSet, AddsUp, Pick

\* The function it is chosen from exists.
LEMMA AddsUpExists ==
  ASSUME NEW S, IsFiniteSet(S), NEW f, \A x \in S : f[x] \in Nat
  PROVE  \E g \in [SUBSET S -> Nat] : AddsUp(g, f, S)
<1> DEFINE op == [x \in S \X Nat |-> f[x[1]] + x[2]]
           pick == [s \in SUBSET S |-> Pick(s)]
<1>1. op \in [S \X Nat -> Nat]
  OBVIOUS
<1>2. \A s \in (SUBSET S) \ {{}} : Pick(s) \in s /\ pick[s] = Pick(s)
  BY DEF Pick
<1> HIDE DEF pick
<1>3. PICK g \in [SUBSET S -> Nat] : Folds(g, S, 0, op, pick)
  <2>1. \A s \in (SUBSET S) \ {{}} : pick[s] \in s
    BY <1>2
  <2>2. 0 \in Nat
    OBVIOUS
  <2> HIDE DEF op
  <2> QED BY <1>1, <2>1, <2>2, FoldExists
<1>4. \A s \in (SUBSET S) \ {{}} : op[<<pick[s], g[s \ {pick[s]}]>>] = f[Pick(s)] + g[s \ {Pick(s)}]
  <2> SUFFICES ASSUME NEW s \in (SUBSET S) \ {{}}
               PROVE  op[<<pick[s], g[s \ {pick[s]}]>>] = f[Pick(s)] + g[s \ {Pick(s)}]
    OBVIOUS
  <2>1. Pick(s) \in S /\ pick[s] = Pick(s) /\ g[s \ {Pick(s)}] \in Nat
    BY <1>2
  <2> QED BY <2>1
<1> HIDE DEF op
<1> QED BY <1>3, <1>4 DEF Folds, AddsUp

\* The same function on the same set adds up to the same.
LEMMA AddsUpOnce ==
  ASSUME NEW S, NEW R, NEW f, NEW h, NEW g, NEW e, AddsUp(g, f, S), AddsUp(e, h, R),
         NEW T, IsFiniteSet(T), T \subseteq S, T \subseteq R, \A x \in T : f[x] = h[x]
  PROVE  g[T] = e[T]
<1> DEFINE Not == {U \in SUBSET T : g[U] # e[U]}
<1>1. Not \subseteq SUBSET T /\ \A U \in SUBSET T : U \in Not <=> g[U] # e[U]
  OBVIOUS
<1> HIDE DEF Not
<1> SUFFICES ASSUME Not # {}
             PROVE  FALSE
  BY <1>1
<1>2. PICK U \in Not : \A V \in Not : V \subseteq U => V = U
  BY <1>1, SmallestSet
<1>3. U \in SUBSET S /\ U \in SUBSET R /\ U \in SUBSET T
  BY <1>1
<1>4. U # {}
  BY <1>1, <1>3 DEF AddsUp
<1>5. Pick(U) \in U
  BY <1>4 DEF Pick
<1>6. g[U \ {Pick(U)}] = e[U \ {Pick(U)}]
  BY <1>1, <1>2, <1>3, <1>5
<1>7. g[U] = f[Pick(U)] + g[U \ {Pick(U)}] /\ e[U] = h[Pick(U)] + e[U \ {Pick(U)}]
  BY <1>3, <1>4 DEF AddsUp
<1> QED BY <1>1, <1>3, <1>5, <1>6, <1>7

PicksFirst(g, f, S, y) == g[S] = f[y] + g[S \ {y}]

\* Whichever is picked first, the sum is the same.
LEMMA AddsUpAnyhow ==
  ASSUME NEW S, IsFiniteSet(S), NEW f, \A x \in S : f[x] \in Nat,
         NEW g \in [SUBSET S -> Nat], AddsUp(g, f, S), NEW z \in S
  PROVE  PicksFirst(g, f, S, z)
<1> USE DEF PicksFirst
<1> DEFINE Not == {U \in SUBSET S : \E y \in U : g[U] # f[y] + g[U \ {y}]}
<1>1. Not \subseteq SUBSET S /\ \A U \in SUBSET S : U \in Not <=> \E y \in U : g[U] # f[y] + g[U \ {y}]
  OBVIOUS
<1> HIDE DEF Not
<1> SUFFICES ASSUME Not # {}
             PROVE  FALSE
  BY <1>1
<1>2. PICK U \in Not : \A V \in Not : V \subseteq U => V = U
  BY <1>1, SmallestSet
<1>3. PICK y \in U : U \in SUBSET S /\ g[U] # f[y] + g[U \ {y}]
  BY <1>1
<1> DEFINE p == Pick(U)
<1>4. p \in U
  BY <1>3 DEF Pick
<1> HIDE DEF p
<1>5. g[U] = f[p] + g[U \ {p}]
  BY <1>3 DEF AddsUp, p
<1>6. p # y
  BY <1>3, <1>5
<1>7. g[U \ {p}] = f[y] + g[(U \ {p}) \ {y}]
  <2>1. U \ {p} \in SUBSET S /\ y \in U \ {p} /\ U \ {p} # U
    BY <1>3, <1>4, <1>6
  <2> QED BY <1>1, <1>2, <2>1
<1>8. g[U \ {y}] = f[p] + g[(U \ {y}) \ {p}]
  <2>1. U \ {y} \in SUBSET S /\ p \in U \ {y} /\ U \ {y} # U
    BY <1>3, <1>4, <1>6
  <2> QED BY <1>1, <1>2, <2>1
<1>9. (U \ {p}) \ {y} = (U \ {y}) \ {p}
  OBVIOUS
<1>10. f[p] \in Nat /\ f[y] \in Nat /\ g[(U \ {p}) \ {y}] \in Nat
  BY <1>3, <1>4
<1>11. g[U] = f[p] + (f[y] + g[(U \ {p}) \ {y}])
  BY <1>5, <1>7
<1>12. f[y] + g[U \ {y}] = f[y] + (f[p] + g[(U \ {p}) \ {y}])
  BY <1>8, <1>9
<1>13. \A a, b, c \in Nat : a + (b + c) = b + (a + c)
  OBVIOUS
<1> QED BY <1>3, <1>10, <1>11, <1>12, <1>13

\* SumFunctionOnSet, step by step
LEMMA SumStep ==
  ASSUME NEW S, IsFiniteSet(S), NEW f, \A x \in S : f[x] \in Nat
  PROVE  /\ SumFunctionOnSet(f, S) \in Nat
         /\ S = {} => SumFunctionOnSet(f, S) = 0
         /\ \A y \in S : SumFunctionOnSet(f, S) = f[y] + SumFunctionOnSet(f, S \ {y})
<1> DEFINE total == CHOOSE g : AddsUp(g, f, S)
<1>1. PICK e \in [SUBSET S -> Nat] : AddsUp(e, f, S)
  BY AddsUpExists
<1>2. AddsUp(total, f, S)
  BY <1>1
<1>3. SumFunctionOnSet(f, S) = total[S]
  BY SumIs
<1> HIDE DEF total
<1>4. total[S] = e[S]
  BY <1>1, <1>2, AddsUpOnce
<1>5. S = {} => e[S] = 0
  BY <1>1 DEF AddsUp
<1>6. ASSUME NEW y \in S
      PROVE  e[S \ {y}] = SumFunctionOnSet(f, S \ {y})
  <2> DEFINE less == CHOOSE g : AddsUp(g, f, S \ {y})
  <2>1. IsFiniteSet(S \ {y}) /\ \A x \in S \ {y} : f[x] \in Nat
    BY FS_RemoveElement
  <2>2. PICK d \in [SUBSET (S \ {y}) -> Nat] : AddsUp(d, f, S \ {y})
    BY <2>1, AddsUpExists
  <2>3. AddsUp(less, f, S \ {y})
    BY <2>2
  <2>4. SumFunctionOnSet(f, S \ {y}) = less[S \ {y}]
    BY SumIs
  <2> HIDE DEF less
  <2> QED BY <1>1, <2>1, <2>3, <2>4, AddsUpOnce
<1>7. \A y \in S : PicksFirst(e, f, S, y)
  BY <1>1, AddsUpAnyhow
<1>8. e[S] \in Nat
  BY <1>1
<1> QED BY <1>3, <1>4, <1>5, <1>6, <1>7, <1>8 DEF PicksFirst

\* Only the values on the set count.
LEMMA SumSame ==
  ASSUME NEW S, IsFiniteSet(S), NEW f, NEW h, \A x \in S : f[x] \in Nat /\ h[x] = f[x]
  PROVE  SumFunctionOnSet(h, S) = SumFunctionOnSet(f, S)
<1> DEFINE G == {T \in SUBSET S : SumFunctionOnSet(h, T) = SumFunctionOnSet(f, T)}
<1>1. {} \in G
  BY SumStep, FS_EmptySet
<1>2. ASSUME NEW T \in SUBSET S, NEW x \in T, T \ {x} \in G
      PROVE  T \in G
  <2>1. IsFiniteSet(T)
    BY FS_Subset
  <2>2. SumFunctionOnSet(h, T) = h[x] + SumFunctionOnSet(h, T \ {x})
    BY <2>1, SumStep
  <2>3. SumFunctionOnSet(f, T) = f[x] + SumFunctionOnSet(f, T \ {x})
    BY <2>1, SumStep
  <2> QED BY <1>2, <2>2, <2>3
<1>3. S \in G
  <2> HIDE DEF G
  <2> QED BY <1>1, <1>2, InductionOnSets
<1> QED BY <1>3

\* A sum with one value changed
LEMMA SumChanged ==
  ASSUME NEW S, IsFiniteSet(S), NEW f \in [S -> Nat], NEW h \in [S -> Nat], NEW y \in S,
         \A x \in S \ {y} : h[x] = f[x]
  PROVE  SumFunction(h) = SumFunction(f) - f[y] + h[y]
<1>1. SumFunction(h) = SumFunctionOnSet(h, S) /\ SumFunction(f) = SumFunctionOnSet(f, S)
  BY DEF SumFunction
<1>2. IsFiniteSet(S \ {y})
  BY FS_RemoveElement
<1>3. SumFunctionOnSet(h, S) = h[y] + SumFunctionOnSet(h, S \ {y})
  BY SumStep
<1>4. SumFunctionOnSet(f, S) = f[y] + SumFunctionOnSet(f, S \ {y})
  BY SumStep
<1>5. SumFunctionOnSet(h, S \ {y}) = SumFunctionOnSet(f, S \ {y}) /\ SumFunctionOnSet(f, S \ {y}) \in Nat
  BY <1>2, SumSame, SumStep
<1> QED BY <1>1, <1>3, <1>4, <1>5

\* Nothing adds up to nothing.
LEMMA SumOfNothing ==
  ASSUME NEW S, IsFiniteSet(S), NEW f, \A x \in S : f[x] = 0
  PROVE  SumFunctionOnSet(f, S) = 0
<1> DEFINE G == {T \in SUBSET S : SumFunctionOnSet(f, T) = 0}
<1>1. {} \in G
  BY SumStep, FS_EmptySet
<1>2. ASSUME NEW T \in SUBSET S, NEW x \in T, T \ {x} \in G
      PROVE  T \in G
  <2>1. IsFiniteSet(T) /\ \A y \in T : f[y] \in Nat
    BY FS_Subset
  <2>2. SumFunctionOnSet(f, T) = f[x] + SumFunctionOnSet(f, T \ {x})
    BY <2>1, SumStep
  <2> QED BY <1>2, <2>2
<1>3. S \in G
  <2> HIDE DEF G
  <2> QED BY <1>1, <1>2, InductionOnSets
<1> QED BY <1>3

\* The members of K with a key in D, and how many there are of each key
HasKey(K, key, D) == {k \in K : key[k] \in D}
CountsByKey(count, K, key, D) == \A d \in D : count[d] = Cardinality({k \in K : key[k] = d})

\* Counting the members of a set by a key they have counts each once.
LEMMA SumCounts ==
  ASSUME NEW K, IsFiniteSet(K), NEW key, NEW D, IsFiniteSet(D), NEW count, CountsByKey(count, K, key, D)
  PROVE  SumFunctionOnSet(count, D) = Cardinality(HasKey(K, key, D))
<1>0. \A d \in D : count[d] = Cardinality({k \in K : key[k] = d})
  BY DEF CountsByKey
<1> DEFINE Having(T) == {k \in K : key[k] \in T}
           One(d) == {k \in K : key[k] = d}
           G == {T \in SUBSET D : SumFunctionOnSet(count, T) = Cardinality(Having(T))}
<1>1. {} \in G
  <2>1. Having({}) = {}
    OBVIOUS
  <2> QED BY <2>1, SumStep, FS_EmptySet
<1>2. ASSUME NEW T \in SUBSET D, NEW x \in T, T \ {x} \in G
      PROVE  T \in G
  <2>1. IsFiniteSet(T)
    BY FS_Subset
  <2>2. Having(T) = Having(T \ {x}) \cup One(x) /\ Having(T \ {x}) \cap One(x) = {}
    OBVIOUS
  <2>3. /\ Having(T \ {x}) \in SUBSET K
        /\ \A y \in T : One(y) \in SUBSET K /\ count[y] = Cardinality(One(y))
    BY <1>0
  <2>4. SumFunctionOnSet(count, T \ {x}) = Cardinality(Having(T \ {x}))
    BY <1>2
  <2> HIDE DEF Having, One
  <2>5. /\ IsFiniteSet(Having(T \ {x})) /\ Cardinality(Having(T \ {x})) \in Nat
        /\ \A y \in T : IsFiniteSet(One(y)) /\ Cardinality(One(y)) \in Nat
    BY <2>3, FS_Subset, FS_CardinalityType
  <2>6. SumFunctionOnSet(count, T) = count[x] + SumFunctionOnSet(count, T \ {x})
    BY <2>1, <2>3, <2>5, SumStep
  <2>7. Cardinality(Having(T)) = Cardinality(Having(T \ {x})) + Cardinality(One(x))
    <3>1. IsFiniteSet(Having(T \ {x})) /\ IsFiniteSet(One(x))
      BY <2>5
    <3>2. Cardinality(Having(T \ {x}) \cup One(x)) =
            Cardinality(Having(T \ {x})) + Cardinality(One(x)) - Cardinality(Having(T \ {x}) \cap One(x))
      BY <3>1, FS_Union
    <3>3. Cardinality(Having(T)) = Cardinality(Having(T \ {x})) + Cardinality(One(x)) - 0
      BY <2>2, <3>2, FS_EmptySet
    <3> QED BY <2>5, <3>3
  <2>8. SumFunctionOnSet(count, T) = Cardinality(Having(T))
    BY <2>3, <2>4, <2>5, <2>6, <2>7
  <2> QED BY <2>8
<1>3. D \in G
  <2> HIDE DEF G
  <2> QED BY <1>1, <1>2, InductionOnSets
<1> QED BY <1>3 DEF HasKey

-----------------------------------------------------------------------------
(* The hours of the metrics *)

HourCount == [start : Nat, requests : Nat]

CountIn(hours) == SumFunction([i \in DOMAIN hours |-> hours[i].requests])

Ordered(hours) == \A i, j \in 1..Len(hours) : i < j => hours[i].start < hours[j].start

\* A finite set of numbers has a greatest.
LEMMA GreatestIn ==
  ASSUME NEW S, IsFiniteSet(S), S \subseteq Int, S # {}
  PROVE  Max(S) \in S /\ \A y \in S : Max(S) >= y
<1> DEFINE G == {T \in SUBSET S : T # {} => \E x \in T : \A y \in T : x >= y}
<1>1. {} \in G
  OBVIOUS
<1>2. ASSUME NEW T \in SUBSET S, NEW x \in T, T \ {x} \in G
      PROVE  T \in G
  <2>1. CASE T = {x}
    BY <2>1
  <2>2. CASE T # {x}
    <3>1. PICK z \in T \ {x} : \A y \in T \ {x} : z >= y
      BY <1>2, <2>2
    <3>2. CASE z >= x
      BY <3>1, <3>2
    <3>3. CASE x > z
      <4>1. \A y \in T : x >= y
        BY <3>1, <3>3
      <4> QED BY <4>1
    <3> QED BY <3>1, <3>2, <3>3
  <2> QED BY <2>1, <2>2
<1>3. S \in G
  <2> HIDE DEF G
  <2> QED BY <1>1, <1>2, InductionOnSets
<1>4. \E x \in S : \A y \in S : x >= y
  BY <1>3
<1> QED BY <1>4 DEF Max

\* Sums over the indices of a sequence
LEMMA SumOfOneMore ==
  ASSUME NEW n \in Nat, NEW f, \A i \in 1..(n + 1) : f[i] \in Nat
  PROVE  /\ SumFunctionOnSet(f, 1..n) \in Nat
         /\ SumFunctionOnSet(f, 1..(n + 1)) = SumFunctionOnSet(f, 1..n) + f[n + 1]
<1> DEFINE last == n + 1
           all == 1..last
           first == 1..n
<1>1. last \in Nat /\ last \in all /\ all \ {last} = first /\ first \subseteq all
  OBVIOUS
<1>2. IsFiniteSet(all) /\ IsFiniteSet(first)
  <2> HIDE DEF last
  <2> QED BY <1>1, FS_Interval
<1>3. \A i \in all : f[i] \in Nat
  OBVIOUS
<1> HIDE DEF last, all, first
<1>4. SumFunctionOnSet(f, all) = f[last] + SumFunctionOnSet(f, all \ {last})
  BY <1>1, <1>2, <1>3, SumStep
<1>5. SumFunctionOnSet(f, first) \in Nat
  BY <1>1, <1>2, <1>3, SumStep
<1>6. f[last] \in Nat
  BY <1>1, <1>3
<1>7. SumFunctionOnSet(f, all) = SumFunctionOnSet(f, first) + f[last]
  BY <1>1, <1>4, <1>5, <1>6
<1> QED BY <1>5, <1>7 DEF last, all, first

\* The requests of all hours are a sum over their places, and a number.
LEMMA CountInIs ==
  ASSUME NEW hours \in Seq(HourCount)
  PROVE  /\ CountIn(hours) = SumFunctionOnSet([i \in 1..Len(hours) |-> hours[i].requests], 1..Len(hours))
         /\ CountIn(hours) \in Nat
         /\ \A i \in 1..Len(hours) : hours[i] \in HourCount /\ hours[i].requests \in Nat
<1> DEFINE f == [i \in 1..Len(hours) |-> hours[i].requests]
<1>1. DOMAIN hours = 1..Len(hours) /\ Len(hours) \in Nat
  OBVIOUS
<1>2. \A i \in 1..Len(hours) : hours[i] \in HourCount
  OBVIOUS
<1>3. \A i \in 1..Len(hours) : hours[i].requests \in Nat
  BY <1>2 DEF HourCount
<1>4. CountIn(hours) = SumFunctionOnSet(f, 1..Len(hours))
  BY <1>1 DEF CountIn, SumFunction
<1>5. \A i \in 1..Len(hours) : f[i] \in Nat
  BY <1>3
<1>6. IsFiniteSet(1..Len(hours))
  BY <1>1, FS_Interval
<1> HIDE DEF f
<1>7. SumFunctionOnSet(f, 1..Len(hours)) \in Nat
  BY <1>5, <1>6, SumStep
<1> QED BY <1>2, <1>3, <1>4, <1>7 DEF f

\* What Append adds to the count
LEMMA CountInAppended ==
  ASSUME NEW hours \in Seq(HourCount), NEW h \in HourCount
  PROVE  CountIn(Append(hours, h)) = CountIn(hours) + h.requests
<1> DEFINE n == Len(hours)
           f == [i \in 1..n |-> hours[i].requests]
           more == Append(hours, h)
           g == [i \in 1..(n + 1) |-> more[i].requests]
<1>1. n \in Nat /\ more \in Seq(HourCount) /\ Len(more) = n + 1
  OBVIOUS
<1>2. h.requests \in Nat /\ more[n + 1] = h /\ \A i \in 1..n : more[i] = hours[i]
  BY DEF HourCount
<1>3. CountIn(hours) = SumFunctionOnSet(f, 1..n) /\ \A i \in 1..n : hours[i].requests \in Nat
  BY CountInIs
<1>4. CountIn(more) = SumFunctionOnSet(g, 1..(n + 1))
  <2> HIDE DEF more
  <2> QED BY <1>1, CountInIs
<1> HIDE DEF n, more
<1>5. \A i \in 1..n : f[i] \in Nat /\ g[i] = f[i]
  BY <1>1, <1>2, <1>3
<1>6. g[n + 1] = h.requests /\ \A i \in 1..(n + 1) : g[i] \in Nat
  BY <1>1, <1>2, <1>3
<1>7. IsFiniteSet(1..n)
  BY <1>1, FS_Interval
<1> HIDE DEF f, g
<1>8. SumFunctionOnSet(g, 1..n) = SumFunctionOnSet(f, 1..n)
  BY <1>5, <1>7, SumSame
<1>9. SumFunctionOnSet(g, 1..(n + 1)) = SumFunctionOnSet(g, 1..n) + g[n + 1]
  BY <1>1, <1>6, SumOfOneMore
<1> QED BY <1>3, <1>4, <1>6, <1>8, <1>9 DEF more

\* No hours count no requests.
LEMMA CountInNone == CountIn(<<>>) = 0
<1> DEFINE f == [i \in DOMAIN <<>> |-> <<>>[i].requests]
<1>1. DOMAIN f = {}
  OBVIOUS
<1> HIDE DEF f
<1>2. SumFunctionOnSet(f, {}) = 0
  BY SumStep, FS_EmptySet
<1> QED BY <1>1, <1>2 DEF CountIn, SumFunction, f

\* What one request more in the last hour adds to the count
LEMMA CountInLast ==
  ASSUME NEW hours \in Seq(HourCount), hours # <<>>
  PROVE  CountIn([hours EXCEPT ![Len(hours)].requests = @ + 1]) = CountIn(hours) + 1
<1> DEFINE n == Len(hours)
           f == [i \in 1..n |-> hours[i].requests]
           more == [hours EXCEPT ![n].requests = @ + 1]
           g == [i \in 1..n |-> more[i].requests]
<1>1. n \in Nat \ {0} /\ n \in 1..n /\ hours[n] \in HourCount
  OBVIOUS
<1>2. /\ CountIn(hours) = SumFunctionOnSet(f, 1..n)
      /\ CountIn(hours) \in Nat
      /\ \A i \in 1..n : hours[i].requests \in Nat
  BY CountInIs
<1>3. [hours[n] EXCEPT !.requests = @ + 1] \in HourCount
  BY <1>1 DEF HourCount
<1>4. /\ more \in Seq(HourCount) /\ Len(more) = n
      /\ more[n].requests = hours[n].requests + 1
      /\ \A i \in (1..n) \ {n} : more[i] = hours[i]
  BY <1>1, <1>3 DEF HourCount
<1>5. CountIn(more) = SumFunctionOnSet(g, 1..n) /\ \A i \in 1..n : more[i].requests \in Nat
  <2> HIDE DEF more
  <2> QED BY <1>4, CountInIs
<1> HIDE DEF n, more
<1>6. f \in [1..n -> Nat] /\ g \in [1..n -> Nat]
  BY <1>2, <1>5
<1>7. g[n] = f[n] + 1 /\ f[n] \in Nat /\ \A i \in (1..n) \ {n} : g[i] = f[i]
  BY <1>1, <1>2, <1>4
<1>8. DOMAIN f = 1..n /\ DOMAIN g = 1..n
  OBVIOUS
<1> HIDE DEF f, g
<1>9. SumFunction(g) = SumFunction(f) - f[n] + g[n]
  <2>1. IsFiniteSet(1..n)
    BY <1>1, FS_Interval
  <2> QED BY <1>1, <1>6, <1>7, <2>1, SumChanged
<1>10. SumFunction(f) = CountIn(hours) /\ SumFunction(g) = CountIn(more)
  BY <1>2, <1>5, <1>8 DEF SumFunction
<1> QED BY <1>2, <1>7, <1>9, <1>10 DEF more, n

\* retain, one hour at a time (metrics.rs 136-139): g keeps what is to be kept of the
\* first i hours, for each i.
KeepsFrom(g, hours, cut) ==
  /\ g[0] = <<>>
  /\ \A i \in 0..(Len(hours) - 1) :
       g[i + 1] = IF hours[i + 1].start >= cut THEN Append(g[i], hours[i + 1]) ELSE g[i]

\* The loop of retain exists, and ends with the hours kept.
LEMMA KeptHoursIs ==
  ASSUME NEW hours \in Seq(HourCount), NEW at \in Int
  PROVE  \E g : KeepsFrom(g, hours, at - DayLength) /\ KeptHours(hours, at) = g[Len(hours)]
<1> DEFINE n == Len(hours)
           cut == at - DayLength
           pick == [s \in SUBSET (1..n) |-> Max(s)]
           op == [x \in (1..n) \X Seq(HourCount) |->
                    IF hours[x[1]].start >= cut THEN Append(x[2], hours[x[1]]) ELSE x[2]]
           Next(g, s) == IF hours[Max(s)].start >= cut
                           THEN Append(g[s \ {Max(s)}], hours[Max(s)])
                           ELSE g[s \ {Max(s)}]
           Fold(g) == g = [s \in SUBSET (1..n) |-> IF s = {} THEN <<>> ELSE Next(g, s)]
<1>1. n \in Nat /\ DOMAIN hours = 1..n /\ \A i \in 1..n : hours[i] \in HourCount
  OBVIOUS
<1>2. KeptHours(hours, at) = (CHOOSE g : Fold(g))[1..n]
  BY <1>1 DEF KeptHours, FoldLeft, MapThenFoldSet
<1> DEFINE all == 1..n
<1>3. IsFiniteSet(all) /\ all \subseteq Int
  BY <1>1, FS_Interval
<1>4. \A s \in (SUBSET all) \ {{}} : Max(s) \in s
  <2> HIDE DEF all
  <2> SUFFICES ASSUME NEW s \in SUBSET all, s # {}
               PROVE  Max(s) \in s
    OBVIOUS
  <2>1. IsFiniteSet(s) /\ s \subseteq Int
    BY <1>3, FS_Subset
  <2> QED BY <2>1, GreatestIn
<1>5. PICK h \in [SUBSET all -> Seq(HourCount)] : Folds(h, all, <<>>, op, pick)
  <2>1. op \in [all \X Seq(HourCount) -> Seq(HourCount)]
    BY <1>1
  <2>2. \A s \in (SUBSET all) \ {{}} : pick[s] \in s
    BY <1>4
  <2>3. <<>> \in Seq(HourCount)
    OBVIOUS
  <2> HIDE DEF op, pick, all
  <2> QED BY <1>3, <2>1, <2>2, <2>3, FoldExists
<1>6. \A s \in (SUBSET (1..n)) \ {{}} : op[<<pick[s], h[s \ {pick[s]}]>>] = Next(h, s)
  <2> SUFFICES ASSUME NEW s \in (SUBSET (1..n)) \ {{}}
               PROVE  op[<<pick[s], h[s \ {pick[s]}]>>] = Next(h, s)
    OBVIOUS
  <2>1. Max(s) \in 1..n /\ pick[s] = Max(s) /\ h[s \ {Max(s)}] \in Seq(HourCount)
    BY <1>4
  <2> HIDE DEF pick
  <2> QED BY <2>1
<1>7. Fold(h)
  <2> HIDE DEF op, pick, Next
  <2> QED BY <1>5, <1>6 DEF Folds
<1> DEFINE fold == CHOOSE g : Fold(g)
           g == [i \in 0..n |-> fold[1..i]]
<1>8. Fold(fold)
  BY <1>7
<1> HIDE DEF fold, op, pick
<1>9. fold[{}] = <<>>
  BY <1>8
<1>10. ASSUME NEW i \in 0..(n - 1)
       PROVE  g[i + 1] = IF hours[i + 1].start >= cut THEN Append(g[i], hours[i + 1]) ELSE g[i]
  <2> DEFINE s == 1..(i + 1)
  <2>1. s \in (SUBSET (1..n)) \ {{}} /\ s \ {i + 1} = 1..i /\ i + 1 \in s /\ \A j \in s : j <= i + 1
    BY <1>1
  <2>2. Max(s) = i + 1
    <3>1. Max(s) \in s /\ Max(s) >= i + 1
      <4>1. IsFiniteSet(s) /\ s \subseteq Int
        BY <1>1, FS_Interval
      <4> HIDE DEF s
      <4> QED BY <2>1, <4>1, GreatestIn
    <3> QED BY <2>1, <3>1
  <2> HIDE DEF s
  <2>3. fold[s] = Next(fold, s)
    BY <1>8, <2>1
  <2>4. g[i + 1] = fold[s] /\ g[i] = fold[s \ {i + 1}]
    BY <1>1, <2>1 DEF s
  <2> QED BY <2>2, <2>3, <2>4
<1>11. g[0] = <<>> /\ g[n] = fold[1..n]
  <2>1. 1..0 = {} /\ 0 \in 0..n /\ n \in 0..n
    BY <1>1
  <2> QED BY <1>9, <2>1
<1> QED BY <1>2, <1>10, <1>11 DEF KeepsFrom, fold

\* Hours that were kept are in order and no older than the cutoff.
Kept(kept, hours, cut) ==
  /\ kept \in Seq(HourCount) /\ Ordered(kept)
  /\ \A j \in 1..Len(kept) :
       kept[j].start >= cut /\ \E i \in 1..Len(hours) : kept[j].start = hours[i].start

\* Hours are kept in order and count no more than before; some are kept if the last of
\* them is new enough.
LEMMA KeptHoursKeep ==
  ASSUME NEW hours \in Seq(HourCount), Ordered(hours), hours # <<>>, NEW at \in Int, DayLength \in Int,
         hours[Len(hours)].start >= at - DayLength
  PROVE  /\ Kept(KeptHours(hours, at), hours, at - DayLength)
         /\ KeptHours(hours, at) # <<>>
         /\ CountIn(KeptHours(hours, at)) <= CountIn(hours)
<1> DEFINE n == Len(hours)
           cut == at - DayLength
           f == [i \in 1..n |-> hours[i].requests]
<1>1. PICK g : KeepsFrom(g, hours, cut) /\ KeptHours(hours, at) = g[n]
  BY KeptHoursIs
<1>2. n \in Nat \ {0} /\ cut \in Int
  OBVIOUS
<1>3. /\ \A i \in 1..n : hours[i] \in HourCount /\ hours[i].requests \in Nat /\ hours[i].start \in Nat
      /\ CountIn(hours) = SumFunctionOnSet(f, 1..n)
  BY CountInIs DEF HourCount
<1>4. \A i \in 1..n : f[i] \in Nat /\ f[i] = hours[i].requests
  BY <1>3
<1>5. hours[n].start >= cut
  OBVIOUS
<1> HIDE DEF n, cut, f
<1> DEFINE From(kept, i) == \A j \in 1..Len(kept) :
             kept[j].start >= cut /\ \E k \in 1..i : kept[j].start = hours[k].start
           Good(i) ==
             /\ g[i] \in Seq(HourCount) /\ Ordered(g[i]) /\ From(g[i], i)
             /\ CountIn(g[i]) <= SumFunctionOnSet(f, 1..i)
             /\ i > 0 /\ hours[i].start >= cut => g[i] # <<>>
           G == {i \in Nat : i <= n => Good(i)}
<1>6. 0 \in G
  <2>1. g[0] = <<>>
    BY <1>1 DEF KeepsFrom
  <2>2. Ordered(<<>>) /\ From(<<>>, 0) /\ <<>> \in Seq(HourCount)
    BY DEF Ordered
  <2>3. SumFunctionOnSet(f, 1..0) = 0
    <3>1. 1..0 = {}
      OBVIOUS
    <3> QED BY <3>1, SumStep, FS_EmptySet
  <2>4. Good(0)
    <3> HIDE DEF From
    <3> QED BY <2>1, <2>2, <2>3, CountInNone
  <2> HIDE DEF Good
  <2> QED BY <2>4
<1>7. ASSUME NEW i \in Nat, i \in G
      PROVE  i + 1 \in G
  <2> SUFFICES ASSUME i + 1 <= n
               PROVE  Good(i + 1)
    OBVIOUS
  <2>1. Good(i) /\ i + 1 \in 1..n /\ 1..i \subseteq 1..(i + 1)
    BY <1>2, <1>7
  <2> DEFINE h == hours[i + 1]
             kept == g[i]
  <2>2. h \in HourCount /\ h.start \in Nat /\ h.requests \in Nat
    BY <1>3, <2>1
  <2>3. /\ SumFunctionOnSet(f, 1..i) \in Nat
        /\ SumFunctionOnSet(f, 1..(i + 1)) = SumFunctionOnSet(f, 1..i) + h.requests
    <3>1. \A k \in 1..(i + 1) : f[k] \in Nat
      BY <1>2, <1>4
    <3>2. f[i + 1] = h.requests
      BY <1>4, <2>1
    <3> QED BY <3>1, <3>2, SumOfOneMore
  <2>4. kept \in Seq(HourCount) /\ CountIn(kept) \in Nat
    BY <2>1, CountInIs
  <2>5. g[i + 1] = IF h.start >= cut THEN Append(kept, h) ELSE kept
    BY <1>1, <1>2 DEF KeepsFrom, n
  <2>6. \A k \in 1..i : hours[k].start < h.start
    BY <1>2, <2>1 DEF Ordered, n
  <2> HIDE DEF h
  <2>7. CASE h.start < cut
    <3>1. g[i + 1] = kept
      BY <1>2, <2>2, <2>5, <2>7
    <3>2. From(kept, i + 1)
      BY <2>1
    <3>3. ~ (hours[i + 1].start >= cut)
      BY <1>2, <2>2, <2>7 DEF h
    <3>4. CountIn(kept) <= SumFunctionOnSet(f, 1..(i + 1))
      BY <2>1, <2>2, <2>3, <2>4
    <3> HIDE DEF From
    <3> QED BY <2>1, <3>1, <3>2, <3>3, <3>4
  <2>8. CASE h.start >= cut
    <3>1. g[i + 1] = Append(kept, h) /\ Append(kept, h) \in Seq(HourCount) /\ Append(kept, h) # <<>>
      BY <2>2, <2>4, <2>5, <2>8
    <3>2. From(Append(kept, h), i + 1)
      <4> SUFFICES ASSUME NEW j \in 1..Len(Append(kept, h))
                   PROVE  /\ Append(kept, h)[j].start >= cut
                          /\ \E k \in 1..(i + 1) : Append(kept, h)[j].start = hours[k].start
        OBVIOUS
      <4>1. CASE j = Len(kept) + 1
        BY <2>4, <2>8, <4>1 DEF h
      <4>2. CASE j \in 1..Len(kept)
        BY <2>1, <2>4, <4>2
      <4> QED BY <2>4, <4>1, <4>2
    <3>3. Ordered(Append(kept, h))
      <4>1. \A j \in 1..Len(kept) : kept[j].start < h.start
        BY <2>1, <2>6
      <4>2. \A j \in 1..Len(kept) : Append(kept, h)[j] = kept[j]
        BY <2>4
      <4>3. Append(kept, h)[Len(kept) + 1] = h /\ Len(Append(kept, h)) = Len(kept) + 1 /\ Len(kept) \in Nat
        BY <2>4
      <4>4. \A j, k \in 1..(Len(kept) + 1) : j < k => j \in 1..Len(kept) /\ (k \in 1..Len(kept) \/ k = Len(kept) + 1)
        BY <4>3
      <4> QED BY <2>1, <4>1, <4>2, <4>3, <4>4 DEF Ordered
    <3>4. CountIn(Append(kept, h)) <= SumFunctionOnSet(f, 1..(i + 1))
      BY <2>1, <2>2, <2>3, <2>4, CountInAppended
    <3> HIDE DEF From
    <3> QED BY <3>1, <3>2, <3>3, <3>4
  <2> QED BY <1>2, <2>2, <2>7, <2>8
<1>8. n \in G
  <2> HIDE DEF G
  <2> QED BY <1>2, <1>6, <1>7, InductionOnNumbers
<1>9. Good(n)
  BY <1>2, <1>8
<1>10. Kept(g[n], hours, cut)
  BY <1>9 DEF Kept, n
<1> QED BY <1>1, <1>2, <1>3, <1>5, <1>9, <1>10 DEF cut

-----------------------------------------------------------------------------
(* The metrics *)

\* Hours begin at multiples of an hour.
OnTheHour(start) == \E k \in Nat : start = k * HourLength

\* The inductive invariant behind MetricsAgree: the hours span a day at most, and none
\* begins after the clock.
MetricsSound(m, at) ==
  /\ {m.total, m.ok, m.failed, m.average} \subseteq Nat
  /\ m.endpoint = [e \in Endpoints |-> m.endpoint[e]]
  /\ \A e \in Endpoints : {m.endpoint[e].requests, m.endpoint[e].ok, m.endpoint[e].time} \subseteq Nat
  /\ m.hours \in Seq(HourCount) /\ Ordered(m.hours)
  /\ \A i \in 1..Len(m.hours) : OnTheHour(m.hours[i].start) /\ m.hours[i].start <= at
  /\ \A i, j \in 1..Len(m.hours) : m.hours[j].start - m.hours[i].start <= DayLength
  /\ m.total > 0 => m.hours # <<>>
  /\ CountIn(m.hours) <= m.total
  /\ TotalsAddUp(m)
  /\ AverageNearMean(m)

\* Multiples of an hour lie an hour apart.
LEMMA TimesHour ==
  ASSUME NEW a \in Nat, NEW b \in Nat
  PROVE  /\ a * HourLength \in Nat
         /\ a < b => a * HourLength + HourLength <= b * HourLength
<1>1. HourLength \in Nat
  BY MetricsAssumption
<1>2. CASE a < b
  <2>1. PICK d \in Nat : b = a + 1 + d
    BY <1>2
  <2>2. b * HourLength = a * HourLength + HourLength + d * HourLength
    BY <1>1, <2>1
  <2>3. d * HourLength \in Nat /\ a * HourLength \in Nat
    BY <1>1
  <2> QED BY <1>1, <2>2, <2>3
<1> QED BY <1>1, <1>2

\* The hour of a time is the last to begin by then, less than an hour before.
LEMMA HourOfTime ==
  ASSUME NEW t \in Nat
  PROVE  /\ HourOf(t) \in Nat /\ HourOf(t) <= t /\ t - HourLength < HourOf(t)
         /\ OnTheHour(HourOf(t))
         /\ \A s : OnTheHour(s) /\ s <= t => s <= HourOf(t)
<1> DEFINE k == t \div HourLength
<1>1. HourLength \in Nat \ {0}
  BY MetricsAssumption
<1>2. k \in Nat /\ k * HourLength <= t /\ t < k * HourLength + HourLength
  BY <1>1
<1>3. HourOf(t) = k * HourLength
  BY DEF HourOf
<1> HIDE DEF k
<1>4. k * HourLength \in Nat
  BY <1>2, TimesHour
<1>5. ASSUME NEW s, OnTheHour(s), s <= t
      PROVE  s <= k * HourLength
  <2>1. PICK j \in Nat : s = j * HourLength
    BY <1>5 DEF OnTheHour
  <2>2. j * HourLength \in Nat /\ (k < j => k * HourLength + HourLength <= j * HourLength)
    BY <1>2, TimesHour
  <2>3. ~ (k < j)
    BY <1>1, <1>2, <1>4, <1>5, <2>1, <2>2
  <2>4. j < k => j * HourLength + HourLength <= k * HourLength
    BY <1>2, TimesHour
  <2> QED BY <1>1, <1>2, <1>4, <2>1, <2>2, <2>3, <2>4
<1> QED BY <1>1, <1>2, <1>3, <1>4, <1>5 DEF OnTheHour

Counts(m, field) ==
  /\ m.endpoint = [e \in Endpoints |-> m.endpoint[e]]
  /\ \A e \in Endpoints : m.endpoint[e][field] \in Nat

Adds(m, r, field, more) ==
  more \in Nat /\ Updated(m.endpoint[r.endpoint], r)[field] = m.endpoint[r.endpoint][field] + more

\* record_request adds to one endpoint what it adds to the sum over all of them.
LEMMA OneMoreOver ==
  ASSUME NEW m, NEW r, NEW at, NEW field, NEW more,
         r.endpoint \in Endpoints, Counts(m, field), Adds(m, r, field, more)
  PROVE  /\ OverEndpoints(field, m) \in Nat
         /\ OverEndpoints(field, Recorded(m, r, at)) = OverEndpoints(field, m) + more
<1> DEFINE y == r.endpoint
           after == Recorded(m, r, at).endpoint
           f == [e \in Endpoints |-> m.endpoint[e][field]]
           g == [e \in Endpoints |-> after[e][field]]
<1> USE DEF Counts, Adds
<1>1. after = [m.endpoint EXCEPT ![y] = Updated(@, r)]
  BY DEF Recorded
<1>2. after[y] = Updated(m.endpoint[y], r) /\ \A e \in Endpoints \ {y} : after[e] = m.endpoint[e]
  BY <1>1
<1>3. OverEndpoints(field, m) = SumFunction(f) /\ OverEndpoints(field, Recorded(m, r, at)) = SumFunction(g)
  BY DEF OverEndpoints
<1> HIDE DEF after
<1>4. f \in [Endpoints -> Nat] /\ g \in [Endpoints -> Nat] /\ g[y] = f[y] + more
  BY <1>2
<1>5. \A e \in Endpoints \ {y} : g[e] = f[e]
  BY <1>2
<1>6. DOMAIN f = Endpoints
  OBVIOUS
<1> HIDE DEF f, g
<1>7. SumFunction(g) = SumFunction(f) - f[y] + g[y]
  BY <1>4, <1>5, MetricsAssumption, SumChanged
<1>8. SumFunction(f) \in Nat
  BY <1>4, <1>6, MetricsAssumption, SumStep DEF SumFunction
<1> QED BY <1>3, <1>4, <1>7, <1>8

\* Rounding down loses less than one for each of the n + 1 requests.
LEMMA RoundedDown ==
  ASSUME NEW n \in Nat, NEW average \in Nat, NEW t \in Nat, NEW next,
         next = (average * (n + 1) - average + t) \div (n + 1)
  PROVE  /\ next \in Nat
         /\ average * n \in Nat /\ next * (n + 1) \in Nat
         /\ next * (n + 1) <= average * n + t
         /\ average * n + t <= next * (n + 1) + n
<1>1. average * (n + 1) - average = average * n
  OBVIOUS
<1> DEFINE x == average * n + t
           d == n + 1
<1>2. x \in Nat /\ d \in Nat \ {0} /\ average * n \in Nat
  OBVIOUS
<1>3. next = x \div d
  BY <1>1
<1> HIDE DEF x, d
<1>4. next \in Nat /\ next * d <= x /\ x < next * d + d /\ next * d \in Nat
  BY <1>2, <1>3
<1> DEFINE p == average * n
           q == next * (n + 1)
<1>5. next \in Nat /\ p \in Nat /\ q \in Nat /\ q <= p + t /\ p + t < q + (n + 1)
  BY <1>2, <1>4 DEF x, d
<1> HIDE DEF p, q
<1>6. q <= p + t /\ p + t <= q + n
  BY <1>5
<1> QED BY <1>5, <1>6 DEF p, q

\* record_request keeps the totals the sums over the endpoints, and the average within
\* what rounding down each time can lose.
LEMMA RecordedAddsUp ==
  ASSUME NEW m, NEW r, NEW at \in Nat, MetricsSound(m, at),
         r.endpoint \in Endpoints, r.status \in Nat, r.time \in Nat
  PROVE  /\ TotalsAddUp(Recorded(m, r, at))
         /\ AverageNearMean(Recorded(m, r, at))
         /\ Recorded(m, r, at).average \in Nat
<1> DEFINE next == Recorded(m, r, at)
           e == m.endpoint[r.endpoint]
           ok == IF Succeeded(r) THEN 1 ELSE 0
           n == m.total
<1>1. /\ n \in Nat /\ m.ok \in Nat /\ m.failed \in Nat /\ m.average \in Nat
      /\ m.endpoint = [c \in Endpoints |-> m.endpoint[c]]
      /\ \A c \in Endpoints : /\ m.endpoint[c].requests \in Nat
                              /\ m.endpoint[c].ok \in Nat
                              /\ m.endpoint[c].time \in Nat
      /\ TotalsAddUp(m) /\ AverageNearMean(m)
  BY DEF MetricsSound
<1>2. /\ next.total = n + 1 /\ next.ok = m.ok + ok /\ next.average = NextAverage(m, r)
      /\ next.failed = m.failed + (IF Succeeded(r) THEN 0 ELSE 1)
  BY DEF Recorded
<1>3. ok \in Nat /\ next.ok + next.failed = m.ok + m.failed + 1
  BY <1>1, <1>2
<1>4. /\ Counts(m, "requests") /\ Adds(m, r, "requests", 1)
      /\ Counts(m, "ok") /\ Adds(m, r, "ok", ok)
      /\ Counts(m, "time") /\ Adds(m, r, "time", r.time)
  BY <1>1, <1>3 DEF Updated, Counts, Adds
<1> HIDE DEF next, ok
<1>5. OverEndpoints("requests", m) \in Nat /\ OverEndpoints("requests", next) = OverEndpoints("requests", m) + 1
  BY <1>1, <1>4, OneMoreOver DEF next
<1>6. OverEndpoints("ok", m) \in Nat /\ OverEndpoints("ok", next) = OverEndpoints("ok", m) + ok
  BY <1>1, <1>4, OneMoreOver DEF next
<1>7. OverEndpoints("time", m) \in Nat /\ OverEndpoints("time", next) = OverEndpoints("time", m) + r.time
  BY <1>1, <1>4, OneMoreOver DEF next
<1>8. TotalsAddUp(next)
  BY <1>1, <1>2, <1>3, <1>5, <1>6 DEF TotalsAddUp
<1>9. next.average \in Nat /\ AverageNearMean(next)
  <2> DEFINE a == m.average
             b == next.average
             sum == OverEndpoints("time", m)
             p == a * n
             q == b * (n + 1)
             s == n * (n - 1)
  <2>1. a \in Nat /\ b = (a * (n + 1) - a + r.time) \div (n + 1)
    BY <1>1, <1>2 DEF NextAverage
  <2>2. b \in Nat /\ p \in Nat /\ q \in Nat /\ q <= p + r.time /\ p + r.time <= q + n
    <3> HIDE DEF a, b, n
    <3> QED BY <1>1, <2>1, RoundedDown
  <2>3. p <= sum /\ 2 * (sum - p) <= s /\ sum \in Nat
    BY <1>1, <1>7 DEF AverageNearMean
  <2>4. s \in Int /\ (n + 1) * ((n + 1) - 1) = s + 2 * n
    BY <1>1
  <2> HIDE DEF a, p, s, sum, n
  <2>5. q <= sum + r.time /\ 2 * (sum + r.time - q) <= s + 2 * n
    <3> HIDE DEF q
    <3> QED BY <1>1, <2>2, <2>3, <2>4
  <2>6. OverEndpoints("time", next) = sum + r.time /\ next.average * next.total = q
        /\ next.total * (next.total - 1) = s + 2 * n
    BY <1>2, <1>7, <2>4 DEF sum, n
  <2> DEFINE left == next.average * next.total
             right == OverEndpoints("time", next)
             room == next.total * (next.total - 1)
  <2>7. left <= right /\ 2 * (right - left) <= room
    <3>1. left = q /\ right = sum + r.time /\ room = s + 2 * n
      BY <2>6
    <3> HIDE DEF b, q, left, right, room
    <3> QED BY <2>2, <2>3, <2>4, <2>5, <3>1
  <2>8. AverageNearMean(next)
    <3> HIDE DEF b, q
    <3> QED BY <2>7 DEF AverageNearMean
  <2> QED BY <2>2, <2>8
<1> QED BY <1>8, <1>9 DEF next

\* Hours begin on the hour, in order, and none after the clock.
HoursSound(hours, at) ==
  /\ hours \in Seq(HourCount) /\ Ordered(hours)
  /\ \A i \in 1..Len(hours) : OnTheHour(hours[i].start) /\ hours[i].start <= at

\* They stay sound when a request is counted in the last, or in one of its own.
LEMMA CountedStaySound ==
  ASSUME NEW hours, NEW at \in Nat, HoursSound(hours, at)
  PROVE  /\ HoursSound(CountedHour(hours, at), at)
         /\ CountIn(CountedHour(hours, at)) = CountIn(hours) + 1
         /\ CountedHour(hours, at) # <<>>
         /\ CountedHour(hours, at)[Len(CountedHour(hours, at))].start = HourOf(at)
<1> DEFINE n == Len(hours)
           counted == CountedHour(hours, at)
           h == [start |-> HourOf(at), requests |-> 1]
<1>1. hours \in Seq(HourCount) /\ Ordered(hours) /\ n \in Nat
  BY DEF HoursSound
<1>2. HourOf(at) \in Nat /\ HourOf(at) <= at /\ OnTheHour(HourOf(at)) /\ h \in HourCount
  BY HourOfTime DEF HourCount
<1>3. \A i \in 1..n : /\ hours[i] \in HourCount /\ hours[i].start \in Nat
                      /\ OnTheHour(hours[i].start) /\ hours[i].start <= HourOf(at)
  BY <1>1, HourOfTime, CountInIs DEF HoursSound, HourCount
<1>4. CASE hours # <<>> /\ Last(hours).start = HourOf(at)
  <2> DEFINE last == [hours[n] EXCEPT !.requests = @ + 1]
  <2>1. n \in 1..n /\ hours[n].start = HourOf(at) /\ hours[n] \in HourCount
    BY <1>1, <1>3, <1>4 DEF Last
  <2>2. last \in HourCount /\ last.start = hours[n].start
    BY <2>1 DEF HourCount
  <2>3. counted = [hours EXCEPT ![n] = last]
    BY <1>4 DEF CountedHour
  <2>4. CountIn(counted) = CountIn(hours) + 1
    <3>1. counted = [hours EXCEPT ![Len(hours)].requests = @ + 1]
      BY <1>4 DEF CountedHour
    <3> HIDE DEF counted
    <3> QED BY <1>1, <1>4, <3>1, CountInLast
  <2> HIDE DEF last, counted
  <2>5. counted \in Seq(HourCount) /\ Len(counted) = n /\ \A i \in 1..n : counted[i].start = hours[i].start
    BY <1>1, <2>1, <2>2, <2>3
  <2>6. Ordered(counted) /\ counted # <<>> /\ counted[n].start = HourOf(at)
    BY <1>1, <2>1, <2>5 DEF Ordered
  <2>7. HoursSound(counted, at)
    BY <1>2, <1>3, <2>5, <2>6 DEF HoursSound
  <2> QED BY <2>4, <2>5, <2>6, <2>7 DEF counted
<1>5. CASE ~ (hours # <<>> /\ Last(hours).start = HourOf(at))
  <2>1. counted = Append(hours, h)
    BY <1>5 DEF CountedHour
  <2>2. CountIn(counted) = CountIn(hours) + 1
    BY <1>1, <1>2, <2>1, CountInAppended
  <2>3. \A i \in 1..n : hours[i].start < HourOf(at)
    <3> SUFFICES ASSUME NEW i \in 1..n
                 PROVE  hours[i].start < HourOf(at)
      OBVIOUS
    <3>1. n \in 1..n /\ hours[n].start # HourOf(at) /\ hours[n].start <= HourOf(at)
      BY <1>1, <1>3, <1>5 DEF Last
    <3>2. i = n \/ hours[i].start < hours[n].start
      BY <1>1, <3>1 DEF Ordered
    <3> QED BY <1>2, <1>3, <3>1, <3>2
  <2>4. counted \in Seq(HourCount) /\ Len(counted) = n + 1 /\ counted # <<>>
    BY <1>1, <1>2, <2>1
  <2>5. /\ counted[n + 1].start = HourOf(at)
        /\ \A i \in 1..n : counted[i].start = hours[i].start
    BY <1>1, <2>1
  <2> HIDE DEF counted, h
  <2>6. \A i \in 1..(n + 1) : i \in 1..n \/ i = n + 1
    BY <1>1
  <2>7. Ordered(counted)
    <3> SUFFICES ASSUME NEW i \in 1..(n + 1), NEW j \in 1..(n + 1), i < j
                 PROVE  counted[i].start < counted[j].start
      BY <2>4 DEF Ordered
    <3>1. i \in 1..n
      BY <1>1
    <3> QED BY <1>1, <2>3, <2>5, <2>6, <3>1 DEF Ordered
  <2>8. HoursSound(counted, at)
    BY <1>2, <1>3, <2>4, <2>5, <2>6, <2>7 DEF HoursSound
  <2> QED BY <2>2, <2>4, <2>5, <2>8 DEF counted
<1> QED BY <1>4, <1>5

\* record_request keeps the metrics sound.
LEMMA RecordedStaysSound ==
  ASSUME NEW m, NEW r, NEW at \in Nat, MetricsSound(m, at),
         r.endpoint \in Endpoints, r.status \in Nat, r.time \in Nat
  PROVE  MetricsSound(Recorded(m, r, at), at)
<1> DEFINE next == Recorded(m, r, at)
           counted == CountedHour(m.hours, at)
           kept == KeptHours(counted, at)
           cut == at - DayLength
<1>1. /\ next.total = m.total + 1 /\ next.hours = kept
      /\ next.ok = m.ok + (IF Succeeded(r) THEN 1 ELSE 0)
      /\ next.failed = m.failed + (IF Succeeded(r) THEN 0 ELSE 1)
      /\ next.endpoint = [m.endpoint EXCEPT ![r.endpoint] = Updated(@, r)]
  BY DEF Recorded
<1>2. /\ m.total \in Nat /\ m.ok \in Nat /\ m.failed \in Nat
      /\ m.endpoint = [e \in Endpoints |-> m.endpoint[e]]
      /\ \A e \in Endpoints : {m.endpoint[e].requests, m.endpoint[e].ok, m.endpoint[e].time} \subseteq Nat
      /\ HoursSound(m.hours, at) /\ CountIn(m.hours) <= m.total
  BY DEF MetricsSound, HoursSound
<1>3. DayLength \in Nat /\ HourLength \in Nat /\ HourLength <= DayLength
  BY MetricsAssumption
<1>4. /\ HoursSound(counted, at) /\ counted # <<>>
      /\ counted[Len(counted)].start = HourOf(at)
      /\ CountIn(counted) = CountIn(m.hours) + 1
  BY <1>2, CountedStaySound
<1>5. /\ HourOf(at) \in Nat /\ at - HourLength < HourOf(at)
  BY HourOfTime
<1>6. TotalsAddUp(next) /\ AverageNearMean(next) /\ next.average \in Nat
  BY RecordedAddsUp
<1>7. \A e \in Endpoints : {next.endpoint[e].requests, next.endpoint[e].ok, next.endpoint[e].time} \subseteq Nat
  <2>1. LET e == m.endpoint[r.endpoint] IN
        {Updated(e, r).requests, Updated(e, r).ok, Updated(e, r).time} \subseteq Nat
    BY <1>2 DEF Updated
  <2> HIDE DEF next
  <2> QED BY <1>1, <1>2, <2>1
<1>8. next.endpoint = [e \in Endpoints |-> next.endpoint[e]]
  <2> HIDE DEF next
  <2> QED BY <1>1, <1>2
<1>9. Kept(kept, counted, cut) /\ kept # <<>> /\ CountIn(kept) <= CountIn(counted)
  <2>1. counted \in Seq(HourCount) /\ Ordered(counted) /\ counted[Len(counted)].start >= cut
    BY <1>3, <1>4, <1>5 DEF HoursSound
  <2> HIDE DEF counted
  <2> QED BY <1>3, <1>4, <2>1, KeptHoursKeep
<1> HIDE DEF next, counted, kept
<1>10. CountIn(m.hours) \in Nat /\ CountIn(kept) \in Nat
  BY <1>2, <1>9, CountInIs DEF HoursSound, Kept
<1>11. \A i \in 1..Len(kept) :
         OnTheHour(kept[i].start) /\ kept[i].start <= at /\ kept[i].start >= cut /\ kept[i].start \in Nat
  BY <1>4, <1>9, CountInIs DEF Kept, HoursSound, HourCount
<1>12. \A i, j \in 1..Len(kept) : kept[j].start - kept[i].start <= DayLength
  BY <1>3, <1>11
<1>13. CountIn(kept) <= m.total + 1
  BY <1>2, <1>4, <1>9, <1>10
<1>14. {next.total, next.ok, next.failed, next.average} \subseteq Nat
  BY <1>1, <1>2, <1>6
<1> QED BY <1>1, <1>6, <1>7, <1>8, <1>9, <1>11, <1>12, <1>13, <1>14 DEF MetricsSound, Kept, next

\* The clock may go on.
LEMMA SoundLater ==
  ASSUME NEW m, NEW at \in Nat, NEW later \in Nat, at <= later, MetricsSound(m, at)
  PROVE  MetricsSound(m, later)
<1>1. \A i \in 1..Len(m.hours) : m.hours[i].start \in Nat
  BY CountInIs DEF MetricsSound, HourCount
<1>2. \A i \in 1..Len(m.hours) : m.hours[i].start <= later
  BY <1>1 DEF MetricsSound
<1> QED BY <1>2 DEF MetricsSound

\* No metrics are sound: nothing adds up to nothing.
LEMMA NoMetricsSound ==
  ASSUME NEW at
  PROVE  MetricsSound(NoMetrics, at)
<1> DEFINE m == NoMetrics
<1>1. /\ m.total = 0 /\ m.ok = 0 /\ m.failed = 0 /\ m.average = 0 /\ m.hours = <<>>
      /\ m.endpoint = [e \in Endpoints |-> NoEndpoint]
  BY DEF NoMetrics
<1>2. NoEndpoint["requests"] = 0 /\ NoEndpoint["ok"] = 0 /\ NoEndpoint["time"] = 0
  BY DEF NoEndpoint
<1> HIDE DEF m
<1>3. ASSUME NEW field, NoEndpoint[field] = 0
      PROVE  OverEndpoints(field, m) = 0
  <2> DEFINE f == [e \in Endpoints |-> m.endpoint[e][field]]
  <2>1. DOMAIN f = Endpoints /\ \A e \in Endpoints : f[e] = 0
    BY <1>1, <1>3
  <2> HIDE DEF f
  <2>2. SumFunction(f) = 0
    BY <2>1, MetricsAssumption, SumOfNothing DEF SumFunction
  <2> QED BY <2>2 DEF OverEndpoints, f
<1>4. OverEndpoints("requests", m) = 0 /\ OverEndpoints("ok", m) = 0 /\ OverEndpoints("time", m) = 0
  BY <1>2, <1>3
<1>5. TotalsAddUp(m) /\ AverageNearMean(m)
  BY <1>1, <1>4 DEF TotalsAddUp, AverageNearMean
<1>6. Ordered(<<>>) /\ CountIn(<<>>) = 0 /\ <<>> \in Seq(HourCount) /\ Len(<<>>) = 0
  BY CountInNone DEF Ordered
<1>7. \A e \in Endpoints : {m.endpoint[e].requests, m.endpoint[e].ok, m.endpoint[e].time} \subseteq Nat
  BY <1>1 DEF NoEndpoint
<1> QED BY <1>1, <1>5, <1>6, <1>7 DEF MetricsSound, m

-----------------------------------------------------------------------------
(* The tracker *)

Active(c) == recorder[c].stage # "idle"

Told(c) == recorder[c].stage \in {"windowing", "rate_limit_hit", "slow_response", "counting"}

\* Every call was made before now, and has a number that was given out.
CallsKnown ==
  /\ IsFiniteSet(calls)
  /\ dropped \subseteq Call /\ reported \subseteq Call
  /\ \A k \in calls \cup dropped \cup reported : k.id <= spent.calls /\ k.at <= now
  /\ \A c \in Recorders :
       Active(c) => recorder[c].call.id <= spent.calls /\ recorder[c].call.at <= now

\* A call under way is nobody else's, and is not over; once saved it is in the
\* table, until a cleanup takes it.
CallsUnderWay ==
  /\ \A c, d \in Recorders : c # d /\ Active(c) /\ Active(d) => recorder[c].call # recorder[d].call
  /\ \A c \in Recorders :
       /\ Active(c) => recorder[c].call \notin dropped \cup reported
       /\ At(c, "saving") => recorder[c].call \notin calls
       /\ Told(c) /\ recorder[c].call.at >= cleaned => recorder[c].call \in calls

\* A cutoff lies the retention back, or further by now, and is known once used.
CutoffsAreOld ==
  /\ cleaned \in Int
  /\ cleaned = Never \/ cleaned <= now - Retention
  /\ cleaner = CleanerIdle \/ cleaner.cutoff <= now - Retention
  /\ cleaner.stage = "windows" => cleaned >= cleaner.cutoff

\* Alerts are raised in the past and resolved after that.
AlertsInOrder ==
  \A a \in alerts : a.at <= now /\ (a.resolved = Never \/ a.at <= a.resolved)

\* The inductive invariant behind RecordsAgree and CleanupIsInvisible.
TrackerInv ==
  /\ TrackerTypeOK
  /\ CallsKnown
  /\ CallsUnderWay
  /\ CutoffsAreOld
  /\ AlertsInOrder
  /\ WindowsCountCalls
  /\ ReportedIsRecorded

-----------------------------------------------------------------------------
(* Types *)

\* What the dashboard does to the tracker's state: nothing, but for the count of
\* failures when a query of it fails.
QueryFails == Spend("faults") /\ UNCHANGED <<tables, tasks, now, histories>>

TrackerMove == TrackerNext \/ QueryFails \/ UNCHANGED trackerVars

Stages == {"saving", "windowing", "rate_limit_hit", "slow_response", "counting"}

\* A recorder is idle, or at a stage of record_api_call with its record (157-228).
LEMMA RecorderIs ==
  ASSUME TrackerTypeOK, NEW c \in Recorders
  PROVE  /\ recorder[c] = Idle \/ recorder[c] \in [stage : Stages, call : Call]
         /\ recorder[c] = Idle <=> ~Active(c)
         /\ Active(c) => /\ recorder[c].stage \in Stages
                         /\ recorder[c].call \in Call
                         /\ recorder[c].call.id \in Nat /\ recorder[c].call.at \in Nat
                         /\ recorder[c].call.request \in Requests
                         /\ recorder[c] = [stage |-> recorder[c].stage, call |-> recorder[c].call]
<1>1. \A k \in Call : k.id \in Nat /\ k.at \in Nat /\ k.request \in Requests
  BY TrackerAssumption DEF Call
<1> QED BY <1>1 DEF TrackerTypeOK, Recording, Idle, Active, Stages

\* Only what is left of a bound is spent.
LEMMA Spending ==
  ASSUME TrackerTypeOK, NEW kind \in {"calls", "updates", "cleanups", "faults"}, Spend(kind)
  PROVE  /\ spent' \in [calls : 0..MaxCalls, updates : 0..MaxUpdates,
                        cleanups : 0..MaxCleanups, faults : 0..MaxFaults]
         /\ spent'.calls = IF kind = "calls" THEN spent.calls + 1 ELSE spent.calls
BY TrackerAssumption DEF TrackerTypeOK, Spend, Bounds

\* The stages go the way the code does.
LEMMA NextStages ==
  ASSUME NEW r \in Requests
  PROVE  AfterWindow(r) \in Stages \ {"saving", "windowing"} /\ SlowOrCounting(r) \in {"slow_response", "counting"}
BY DEF AfterWindow, SlowOrCounting, Stages

\* The start of a window is at its calls or before, by less than a window (263-266).
LEMMA StartOfWindow ==
  ASSUME NEW t \in Nat
  PROVE  WindowOf(t) \in 0..t /\ t - WindowLength < WindowOf(t)
BY TrackerAssumption DEF WindowOf

\* The type invariant is inductive: it needs no other.
LEMMA TypesKept ==
  ASSUME TrackerTypeOK, TrackerMove
  PROVE  TrackerTypeOK'
<1> USE TrackerAssumption DEF TrackerTypeOK, tables, tasks, histories, Goto, Leave, At
<1>1. ASSUME NEW c \in Recorders, NEW r \in Requests, Begin(c, r)
      PROVE  TrackerTypeOK'
  <2>1. spent.calls + 1 \in 1..MaxCalls
    BY <1>1 DEF Begin, Spend, Bounds
  <2>2. [stage |-> "saving", call |-> [id |-> spent.calls + 1, at |-> now, request |-> r]] \in Recording
    BY <2>1 DEF Recording, Call
  <2>3. spent' \in [calls : 0..MaxCalls, updates : 0..MaxUpdates,
                    cleanups : 0..MaxCleanups, faults : 0..MaxFaults]
    BY <1>1, Spending DEF Begin
  <2> QED BY <1>1, <2>2, <2>3 DEF Begin
<1>2. ASSUME NEW c \in Recorders, Save(c)
      PROVE  TrackerTypeOK'
  <2>1. Active(c)
    BY <1>2 DEF Save, Active
  <2>2. [recorder[c] EXCEPT !.stage = "windowing"] \in Recording
    BY <2>1, RecorderIs DEF Recording, Stages
  <2> QED BY <1>2, <2>1, <2>2, RecorderIs DEF Save
<1>3. ASSUME NEW c \in Recorders, UpdateWindow(c)
      PROVE  TrackerTypeOK'
  <2> DEFINE r == recorder[c].call.request
             start == WindowOf(recorder[c].call.at)
  <2>1. Active(c) /\ recorder[c].call \in Call
    BY <1>3, RecorderIs DEF UpdateWindow, Active
  <2>2. r \in Requests /\ recorder[c].call.at \in 0..MaxTime
    BY <2>1 DEF Call
  <2>3. start \in 0..MaxTime
    BY <2>2, StartOfWindow
  <2>4. Upserted(start, r) \in Window
    BY <2>3 DEF Upserted, Stored, NoWindow, Window
  <2>5. [recorder[c] EXCEPT !.stage = AfterWindow(r)] \in Recording
    BY <2>1, <2>2, RecorderIs, NextStages DEF Recording, Stages
  <2>6. /\ DOMAIN windows' \subseteq 0..MaxTime
        /\ \A s \in DOMAIN windows' : windows'[s] \in Window
    BY <1>3, <2>3, <2>4 DEF UpdateWindow
  <2> QED BY <1>3, <2>5, <2>6 DEF UpdateWindow
<1>4. ASSUME NEW c \in Recorders, NEW type \in {"rate_limit_hit", "slow_response"}, CreateAlert(c, type)
      PROVE  TrackerTypeOK'
  <2>1. Active(c) /\ recorder[c].call \in Call
    BY <1>4, RecorderIs DEF CreateAlert, Active
  <2>2. [call |-> recorder[c].call.id, type |-> type, at |-> now,
         acknowledged |-> FALSE, resolved |-> Never] \in Alert
    BY <2>1 DEF Call, Alert
  <2> DEFINE next == IF type = "rate_limit_hit" THEN SlowOrCounting(recorder[c].call.request) ELSE "counting"
  <2>3. next \in Stages
    BY <2>1, NextStages DEF Call, Stages
  <2>4. [recorder[c] EXCEPT !.stage = next] \in Recording
    BY <2>1, <2>3, RecorderIs DEF Recording, Stages
  <2> HIDE DEF next
  <2> QED BY <1>4, <2>2, <2>4 DEF CreateAlert, next
<1>5. ASSUME NEW c \in Recorders, Count(c)
      PROVE  TrackerTypeOK'
  BY <1>5 DEF Count, Recording
<1>6. ASSUME NEW c \in Recorders, FailStatement(c)
      PROVE  TrackerTypeOK'
  <2>1. spent' \in [calls : 0..MaxCalls, updates : 0..MaxUpdates,
                    cleanups : 0..MaxCleanups, faults : 0..MaxFaults]
    BY <1>6, Spending DEF FailStatement
  <2> QED BY <1>6, <2>1 DEF FailStatement, Recording
<1>7. ASSUME NEW a \in alerts, Acknowledge(a) \/ Resolve(a)
      PROVE  TrackerTypeOK'
  <2>1. spent' \in [calls : 0..MaxCalls, updates : 0..MaxUpdates,
                    cleanups : 0..MaxCleanups, faults : 0..MaxFaults]
    BY <1>7, Spending DEF Acknowledge, Resolve
  <2>2. [a EXCEPT !.acknowledged = TRUE] \in Alert /\ [a EXCEPT !.resolved = now] \in Alert
    BY DEF Alert
  <2> QED BY <1>7, <2>1, <2>2 DEF Acknowledge, Resolve
<1>8. ASSUME CleanupStep
      PROVE  TrackerTypeOK'
  <2>1. CASE StartCleanup
    <3>1. spent' \in [calls : 0..MaxCalls, updates : 0..MaxUpdates,
                      cleanups : 0..MaxCleanups, faults : 0..MaxFaults]
      BY <2>1, Spending DEF StartCleanup
    <3> QED BY <2>1, <3>1 DEF StartCleanup
  <2>2. CASE CleanCalls
    BY <2>2 DEF CleanCalls
  <2>3. CASE CleanWindows
    BY <2>3 DEF CleanWindows
  <2>4. CASE CleanAlerts
    BY <2>4 DEF CleanAlerts, CleanerIdle, Never
  <2>5. CASE FailCleanup
    <3>1. spent' \in [calls : 0..MaxCalls, updates : 0..MaxUpdates,
                      cleanups : 0..MaxCleanups, faults : 0..MaxFaults]
      BY <2>5, Spending DEF FailCleanup
    <3> QED BY <2>5, <3>1 DEF FailCleanup, CleanerIdle, Never
  <2> QED BY <1>8, <2>1, <2>2, <2>3, <2>4, <2>5 DEF CleanupStep
<1>9. CASE Crash
  <2>1. spent' \in [calls : 0..MaxCalls, updates : 0..MaxUpdates,
                    cleanups : 0..MaxCleanups, faults : 0..MaxFaults]
    BY <1>9, Spending DEF Crash
  <2> QED BY <1>9, <2>1 DEF Crash, Recording, CleanerIdle, Never
<1>10. CASE Tick
  BY <1>10 DEF Tick
<1>11. CASE QueryFails
  <2>1. spent' \in [calls : 0..MaxCalls, updates : 0..MaxUpdates,
                    cleanups : 0..MaxCleanups, faults : 0..MaxFaults]
    BY <1>11, Spending DEF QueryFails
  <2> QED BY <1>11, <2>1 DEF QueryFails
<1>12. CASE UNCHANGED trackerVars
  BY <1>12 DEF trackerVars
<1> QED
  BY <1>1, <1>2, <1>3, <1>4, <1>5, <1>6, <1>7, <1>8, <1>9, <1>10, <1>11, <1>12
  DEF TrackerMove, TrackerNext, TrackerStep, RecordStep

-----------------------------------------------------------------------------
(* The calls: who knows them *)

\* The calls of the table, the histories and the recorders were all begun.
LEMMA CallsStayKnown ==
  ASSUME TrackerTypeOK, CallsKnown, TrackerMove
  PROVE  CallsKnown'
<1>1. ASSUME NEW d \in Recorders, Active(d)
      PROVE  recorder[d].call.id \in Nat /\ recorder[d].call.at \in Nat
  BY <1>1, RecorderIs
<1> USE TrackerAssumption DEF CallsKnown, tables, tasks, histories, Goto, Leave, At, Active
<1>2. ASSUME NEW c \in Recorders, NEW r \in Requests, Begin(c, r)
      PROVE  CallsKnown'
  <2>1. spent'.calls = spent.calls + 1 /\ spent.calls \in Nat
    BY <1>2, Spending DEF Begin, TrackerTypeOK
  <2>2. \A k \in calls \cup dropped \cup reported : k.id \in Int
    BY DEF Call, TrackerTypeOK
  <2> QED BY <1>1, <1>2, <2>1, <2>2 DEF Begin, TrackerTypeOK
<1>3. ASSUME NEW c \in Recorders, Save(c)
      PROVE  CallsKnown'
  BY <1>3, FS_AddElement DEF Save, TrackerTypeOK
<1>4. ASSUME NEW c \in Recorders, UpdateWindow(c)
      PROVE  CallsKnown'
  BY <1>4 DEF UpdateWindow, TrackerTypeOK
<1>5. ASSUME NEW c \in Recorders, NEW type \in {"rate_limit_hit", "slow_response"}, CreateAlert(c, type)
      PROVE  CallsKnown'
  BY <1>5 DEF CreateAlert, TrackerTypeOK
<1>6. ASSUME NEW c \in Recorders, Count(c)
      PROVE  CallsKnown'
  <2>1. recorder[c].call \in Call
    BY <1>6, RecorderIs DEF Count
  <2> QED BY <1>6, <2>1 DEF Count, TrackerTypeOK, Idle
<1>7. ASSUME NEW c \in Recorders, FailStatement(c)
      PROVE  CallsKnown'
  <2>1. recorder[c].call \in Call /\ Active(c)
    BY <1>7, RecorderIs DEF FailStatement
  <2>2. spent'.calls = spent.calls
    BY <1>7, Spending DEF FailStatement
  <2> QED BY <1>7, <2>1, <2>2 DEF FailStatement, TrackerTypeOK, Idle
<1>8. ASSUME NEW a \in alerts, Acknowledge(a) \/ Resolve(a)
      PROVE  CallsKnown'
  <2>1. spent'.calls = spent.calls
    BY <1>8, Spending DEF Acknowledge, Resolve
  <2> QED BY <1>8, <2>1 DEF Acknowledge, Resolve
<1>9. ASSUME CleanupStep
      PROVE  CallsKnown'
  <2>1. CASE StartCleanup
    BY <2>1, Spending DEF StartCleanup
  <2>2. CASE CleanCalls
    <3>1. calls' \subseteq calls
      BY <2>2 DEF CleanCalls
    <3> QED BY <2>2, <3>1, FS_Subset DEF CleanCalls
  <2>3. CASE CleanWindows
    BY <2>3 DEF CleanWindows
  <2>4. CASE CleanAlerts
    BY <2>4 DEF CleanAlerts
  <2>5. CASE FailCleanup
    BY <2>5, Spending DEF FailCleanup
  <2> QED BY <1>9, <2>1, <2>2, <2>3, <2>4, <2>5 DEF CleanupStep
<1>10. CASE Crash
  <2>1. \A c \in Recorders : Active(c) => recorder[c].call \in Call
    BY RecorderIs
  <2>2. spent'.calls = spent.calls
    BY <1>10, Spending DEF Crash
  <2> QED BY <1>10, <2>1, <2>2 DEF Crash, Idle
<1>11. CASE Tick
  <2>1. \A k \in calls \cup dropped \cup reported : k.at \in Int
    BY DEF Call, TrackerTypeOK
  <2> QED BY <1>1, <1>11, <2>1 DEF Tick, TrackerTypeOK
<1>12. CASE QueryFails
  BY <1>12, Spending DEF QueryFails
<1>13. CASE UNCHANGED trackerVars
  BY <1>13 DEF trackerVars
<1> QED
  BY <1>2, <1>3, <1>4, <1>5, <1>6, <1>7, <1>8, <1>9, <1>10, <1>11, <1>12, <1>13
  DEF TrackerMove, TrackerNext, TrackerStep, RecordStep

\* Cutoffs grow old, they are never young.
LEMMA CutoffsStayOld ==
  ASSUME TrackerTypeOK, CutoffsAreOld, TrackerMove
  PROVE  CutoffsAreOld' /\ cleaned <= cleaned'
<1> USE TrackerAssumption DEF CutoffsAreOld, tables, tasks, histories, CleanerIdle, Never
<1>1. cleaned \in Int /\ cleaner.cutoff \in Int /\ now \in Int
  BY DEF TrackerTypeOK
<1>2. ASSUME NEW c \in Recorders, RecordStep(c)
      PROVE  UNCHANGED <<cleaned, cleaner, now>>
  BY <1>2 DEF RecordStep, Begin, Save, UpdateWindow, CreateAlert, Count, FailStatement
<1>3. CASE CleanupStep
  <2>1. CASE StartCleanup
    BY <1>1, <2>1 DEF StartCleanup
  <2>2. CASE CleanCalls
    <3>1. Max({cleaned, cleaner.cutoff}) = IF cleaned >= cleaner.cutoff THEN cleaned ELSE cleaner.cutoff
      BY <1>1 DEF Max
    <3>2. cleaner' = [stage |-> "windows", cutoff |-> cleaner.cutoff]
      BY <2>2 DEF CleanCalls, TrackerTypeOK
    <3> QED BY <1>1, <2>2, <3>1, <3>2 DEF CleanCalls
  <2>3. CASE CleanWindows
    <3>1. cleaner' = [stage |-> "alerts", cutoff |-> cleaner.cutoff]
      BY <2>3 DEF CleanWindows, TrackerTypeOK
    <3> QED BY <1>1, <2>3, <3>1 DEF CleanWindows
  <2>4. CASE CleanAlerts
    BY <1>1, <2>4 DEF CleanAlerts
  <2>5. CASE FailCleanup
    BY <1>1, <2>5 DEF FailCleanup
  <2> QED BY <1>3, <2>1, <2>2, <2>3, <2>4, <2>5 DEF CleanupStep
<1>4. CASE Crash
  BY <1>1, <1>4 DEF Crash
<1>5. CASE Tick
  BY <1>1, <1>5 DEF Tick
<1>6. ASSUME NEW a \in alerts, Acknowledge(a) \/ Resolve(a)
      PROVE  UNCHANGED <<cleaned, cleaner, now>>
  BY <1>6 DEF Acknowledge, Resolve
<1>7. CASE QueryFails \/ UNCHANGED trackerVars
  BY <1>1, <1>7 DEF QueryFails, trackerVars
<1> QED
  BY <1>1, <1>2, <1>3, <1>4, <1>5, <1>6, <1>7 DEF TrackerMove, TrackerNext, TrackerStep

\* A step of a recorder other than its first keeps its call.
LEMMA NewCall ==
  ASSUME TrackerTypeOK, CallsKnown, NEW c \in Recorders, NEW r \in Requests, Begin(c, r)
  PROVE  /\ recorder'[c].stage = "saving"
         /\ recorder'[c].call \notin calls \cup dropped \cup reported
         /\ \A d \in Recorders : d # c /\ Active(d) => recorder[d].call # recorder'[c].call
<1>1. recorder'[c].call.id = spent.calls + 1 /\ recorder'[c].stage = "saving" /\ spent.calls \in Nat
  BY DEF Begin, TrackerTypeOK
<1>2. \A k \in calls \cup dropped \cup reported : k.id <= spent.calls
  BY DEF CallsKnown
<1>3. \A d \in Recorders : Active(d) => recorder[d].call.id <= spent.calls
  BY DEF CallsKnown
<1> QED BY <1>1, <1>2, <1>3

\* Calls under way stay apart, from each other and from those that are over.
LEMMA CallsStayUnderWay ==
  ASSUME TrackerTypeOK, CallsKnown, CutoffsAreOld, CallsUnderWay, TrackerMove
  PROVE  CallsUnderWay'
<1>1. cleaned \in Int /\ cleaned' \in Int /\ cleaned <= cleaned'
  BY CutoffsStayOld DEF CutoffsAreOld
<1>2. ASSUME NEW d \in Recorders, Active(d)
      PROVE  recorder[d].call \in Call /\ recorder[d].call.at \in Nat /\ recorder[d].stage \in Stages
  BY <1>2, RecorderIs
<1> USE DEF CallsUnderWay, tables, tasks, histories, Goto, Leave, At, Active, Told, TrackerTypeOK, Idle
<1>3. ASSUME NEW c \in Recorders, NEW r \in Requests, Begin(c, r)
      PROVE  CallsUnderWay'
  BY <1>3, NewCall DEF Begin
<1>4. ASSUME NEW c \in Recorders, Save(c)
      PROVE  CallsUnderWay'
  <2>1. \A d \in Recorders : Active(d)' => Active(d) /\ recorder'[d].call = recorder[d].call
    BY <1>4 DEF Save
  <2>2. \A d \in Recorders : At(d, "saving")' => At(d, "saving") /\ d # c
    BY <1>4 DEF Save
  <2>3. \A d \in Recorders : Told(d)' => Told(d) \/ d = c
    BY <1>4 DEF Save
  <2>4. calls' = calls \cup {recorder[c].call} /\ UNCHANGED <<cleaned, dropped, reported>>
    BY <1>4 DEF Save
  <2>5. Active(c)
    BY <1>4 DEF Save
  <2> QED BY <2>1, <2>2, <2>3, <2>4, <2>5
<1>5. ASSUME NEW c \in Recorders, UpdateWindow(c)
      PROVE  CallsUnderWay'
  <2>1. recorder[c].call.request \in Requests
    BY <1>5, RecorderIs DEF UpdateWindow
  <2>2. AfterWindow(recorder[c].call.request) \in Stages \ {"saving", "windowing"}
    BY <2>1, NextStages
  <2> QED BY <1>5, <2>2 DEF UpdateWindow, Stages
<1>6. ASSUME NEW c \in Recorders, NEW type \in {"rate_limit_hit", "slow_response"}, CreateAlert(c, type)
      PROVE  CallsUnderWay'
  <2>1. recorder[c].call.request \in Requests
    BY <1>6, RecorderIs DEF CreateAlert
  <2>2. SlowOrCounting(recorder[c].call.request) \in {"slow_response", "counting"}
    BY <2>1, NextStages
  <2> QED BY <1>6, <2>2 DEF CreateAlert
<1>7. ASSUME NEW c \in Recorders, Count(c)
      PROVE  CallsUnderWay'
  BY <1>7 DEF Count
<1>8. ASSUME NEW c \in Recorders, FailStatement(c)
      PROVE  CallsUnderWay'
  BY <1>8 DEF FailStatement
<1>9. CASE CleanCalls
  <2>1. /\ cleaned' >= cleaner.cutoff /\ cleaner.cutoff \in Int
        /\ calls' = {k \in calls : ~(k.at < cleaner.cutoff)}
        /\ UNCHANGED <<recorder, dropped, reported>>
    BY <1>9, CutoffsStayOld DEF CleanCalls, CallTooOld, CutoffsAreOld, Max
  <2>2. \A c \in Recorders : Active(c) => recorder[c].call.at \in Nat
    BY <1>2
  <2> QED BY <1>1, <2>1, <2>2
<1>10. CASE CleanupStep /\ ~CleanCalls
  BY <1>10 DEF CleanupStep, StartCleanup, CleanWindows, CleanAlerts, FailCleanup
<1>11. ASSUME NEW a \in alerts, Acknowledge(a) \/ Resolve(a)
      PROVE  CallsUnderWay'
  BY <1>11 DEF Acknowledge, Resolve
<1>12. CASE Crash
  BY <1>12 DEF Crash
<1>13. CASE Tick \/ QueryFails \/ UNCHANGED trackerVars
  BY <1>13 DEF Tick, QueryFails, trackerVars
<1> QED
  BY <1>3, <1>4, <1>5, <1>6, <1>7, <1>8, <1>9, <1>10, <1>11, <1>12, <1>13
  DEF TrackerMove, TrackerNext, TrackerStep, RecordStep

\* An alert is raised now and resolved later, however often (361-386, 516-537).
LEMMA AlertsStayInOrder ==
  ASSUME TrackerTypeOK, AlertsInOrder, TrackerMove
  PROVE  AlertsInOrder'
<1>1. now \in Nat /\ \A a \in alerts : a.at \in Nat
  BY TrackerAssumption DEF TrackerTypeOK, Alert
<1> USE DEF AlertsInOrder, tables, tasks, histories, TrackerTypeOK
<1>2. ASSUME NEW c \in Recorders, NEW type \in {"rate_limit_hit", "slow_response"}, CreateAlert(c, type)
      PROVE  AlertsInOrder'
  BY <1>1, <1>2 DEF CreateAlert
<1>3. ASSUME NEW a \in alerts, Acknowledge(a)
      PROVE  AlertsInOrder'
  <2>1. [a EXCEPT !.acknowledged = TRUE].at = a.at /\ [a EXCEPT !.acknowledged = TRUE].resolved = a.resolved
    BY DEF Alert
  <2> QED BY <1>1, <1>3, <2>1 DEF Acknowledge
<1>4. ASSUME NEW a \in alerts, Resolve(a)
      PROVE  AlertsInOrder'
  <2>1. [a EXCEPT !.resolved = now].at = a.at /\ [a EXCEPT !.resolved = now].resolved = now
    BY DEF Alert
  <2> QED BY <1>1, <1>4, <2>1 DEF Resolve
<1>5. CASE CleanAlerts
  BY <1>1, <1>5 DEF CleanAlerts
<1>6. CASE Tick
  BY <1>1, <1>6 DEF Tick
<1>7. CASE CleanupStep /\ ~CleanAlerts
  BY <1>7 DEF CleanupStep, StartCleanup, CleanCalls, CleanWindows, FailCleanup
<1>8. ASSUME NEW c \in Recorders, RecordStep(c), alerts' = alerts
      PROVE  AlertsInOrder'
  BY <1>8 DEF RecordStep, Begin, Save, UpdateWindow, Count, FailStatement, CreateAlert
<1>9. CASE Crash \/ QueryFails \/ UNCHANGED trackerVars
  BY <1>9 DEF Crash, QueryFails, trackerVars
<1>10. ASSUME NEW c \in Recorders, RecordStep(c)
       PROVE  AlertsInOrder'
  BY <1>2, <1>8, <1>10 DEF RecordStep, Begin, Save, UpdateWindow, Count, FailStatement
<1> QED
  BY <1>3, <1>4, <1>5, <1>6, <1>7, <1>9, <1>10 DEF TrackerMove, TrackerNext, TrackerStep

-----------------------------------------------------------------------------
(* The windows count the calls *)

Counted(s) == InWindow(s) \ (BeingWindowed \cup dropped)

CountsOf(rows) ==
  [requests |-> Cardinality(rows),
   ok       |-> Cardinality({k \in rows : Succeeded(k.request)}),
   limited  |-> Cardinality({k \in rows : k.request.limited})]

WindowCounts(s) == Stored(s) = CountsOf(Counted(s))

\* What WindowsCountCalls says, window by window.
LEMMA WindowByWindow ==
  WindowsCountCalls <=> \A s \in {WindowOf(t) : t \in 0..MaxTime} : s >= cleaned => WindowCounts(s)
BY DEF WindowsCountCalls, WindowCounts, Counted, CountsOf

\* One call more is one more in each column it belongs to.
LEMMA OneMore ==
  ASSUME NEW rows, IsFiniteSet(rows), NEW k, k \notin rows
  PROVE  CountsOf(rows \cup {k}) =
           [requests |-> CountsOf(rows).requests + 1,
            ok       |-> CountsOf(rows).ok + (IF Succeeded(k.request) THEN 1 ELSE 0),
            limited  |-> CountsOf(rows).limited + (IF k.request.limited THEN 1 ELSE 0)]
<1> DEFINE more == rows \cup {k}
           okOf(set) == {x \in set : Succeeded(x.request)}
           limitedOf(set) == {x \in set : x.request.limited}
<1>1. Cardinality(more) = Cardinality(rows) + 1
  BY FS_AddElement
<1>2. IsFiniteSet(okOf(rows)) /\ IsFiniteSet(limitedOf(rows))
  BY FS_Subset
<1>3. Cardinality(okOf(rows)) \in Nat /\ Cardinality(limitedOf(rows)) \in Nat
  BY <1>2, FS_CardinalityType
<1>4. Cardinality(okOf(more)) = Cardinality(okOf(rows)) + (IF Succeeded(k.request) THEN 1 ELSE 0)
  <2>1. CASE Succeeded(k.request)
    <3>1. okOf(more) = okOf(rows) \cup {k} /\ k \notin okOf(rows)
      BY <2>1
    <3> QED BY <1>2, <2>1, <3>1, FS_AddElement
  <2>2. CASE ~Succeeded(k.request)
    <3>1. okOf(more) = okOf(rows)
      BY <2>2
    <3> HIDE DEF more, okOf
    <3> QED BY <1>3, <2>2, <3>1
  <2> QED BY <2>1, <2>2
<1>5. Cardinality(limitedOf(more)) = Cardinality(limitedOf(rows)) + (IF k.request.limited THEN 1 ELSE 0)
  <2>1. CASE k.request.limited
    <3>1. limitedOf(more) = limitedOf(rows) \cup {k} /\ k \notin limitedOf(rows)
      BY <2>1
    <3> QED BY <1>2, <2>1, <3>1, FS_AddElement
  <2>2. CASE ~k.request.limited
    <3>1. limitedOf(more) = limitedOf(rows)
      BY <2>2
    <3> HIDE DEF more, limitedOf
    <3> QED BY <1>3, <2>2, <3>1
  <2> QED BY <2>1, <2>2
<1> QED BY <1>1, <1>4, <1>5 DEF CountsOf

\* A row that stays as it is goes on counting the same calls.
LEMMA SameWindow ==
  ASSUME NEW s, WindowCounts(s), Counted(s)' = Counted(s), Stored(s)' = Stored(s)
  PROVE  WindowCounts(s)'
BY DEF WindowCounts, CountsOf

\* The windows go on counting the calls, whatever happens.
LEMMA WindowsStayRight ==
  ASSUME TrackerTypeOK, CallsKnown, CallsUnderWay, CutoffsAreOld, WindowsCountCalls, TrackerMove
  PROVE  WindowsCountCalls'
<1> DEFINE Starts == {WindowOf(t) : t \in 0..MaxTime}
<1>1. \A s \in Starts : s >= cleaned => WindowCounts(s)
  BY WindowByWindow
<1>2. SUFFICES ASSUME NEW s \in Starts, s >= cleaned'
               PROVE  WindowCounts(s)'
  BY DEF WindowsCountCalls, WindowCounts, Counted, CountsOf
<1>3. /\ s \in Nat /\ cleaned \in Int /\ cleaned' \in Int /\ cleaned <= cleaned'
      /\ WindowCounts(s)
  BY <1>1, <1>2, CutoffsStayOld, StartOfWindow, TrackerAssumption DEF CutoffsAreOld
<1> USE DEF tables, tasks, histories, Goto, Leave, At
<1>4. ASSUME UNCHANGED windows, Counted(s)' = Counted(s)
      PROVE  WindowCounts(s)'
  BY <1>3, <1>4, SameWindow DEF Stored
<1>5. ASSUME NEW c \in Recorders, UpdateWindow(c)
      PROVE  WindowCounts(s)'
  <2> DEFINE k == recorder[c].call
             start == WindowOf(k.at)
  <2>1. /\ At(c, "windowing") /\ Active(c) /\ Told(c) /\ k.request \in Requests
        /\ k.at \in Nat /\ k \in Call
    BY <1>5, RecorderIs DEF UpdateWindow, Active, Told
  <2>2. AfterWindow(k.request) # "windowing"
    BY <2>1, NextStages
  <2>3. /\ \A d \in Recorders \ {c} : recorder'[d] = recorder[d]
        /\ recorder'[c].stage # "windowing"
        /\ UNCHANGED <<calls, dropped, cleaned>>
    BY <1>5, <2>2 DEF UpdateWindow, TrackerTypeOK
  <2>4. BeingWindowed' = BeingWindowed \ {k} /\ k \in BeingWindowed
    BY <2>1, <2>3 DEF BeingWindowed, CallsUnderWay, Active
  <2>5. CASE s # start
    <3>1. Counted(s)' = Counted(s)
      BY <2>3, <2>4, <2>5 DEF Counted, InWindow
    <3>2. Stored(s)' = Stored(s)
      BY <1>5, <2>5 DEF UpdateWindow, Stored
    <3> QED BY <1>3, <3>1, <3>2, SameWindow
  <2>6. CASE s = start
    <3>1. k.at >= cleaned
      BY <1>2, <1>3, <2>1, <2>3, <2>6, StartOfWindow
    <3>2. k \in calls /\ k \notin dropped
      BY <2>1, <3>1 DEF CallsUnderWay
    <3>3. Counted(s)' = Counted(s) \cup {k} /\ k \notin Counted(s)
      BY <2>3, <2>4, <2>6, <3>2 DEF Counted, InWindow
    <3>4. IsFiniteSet(Counted(s))
      BY FS_Subset DEF Counted, InWindow, CallsKnown
    <3>5. Stored(s)' = Upserted(s, k.request)
      BY <1>5, <2>6 DEF UpdateWindow, Stored
    <3>6. Upserted(s, k.request) = CountsOf(Counted(s) \cup {k})
      BY <1>3, <3>3, <3>4, OneMore DEF Upserted, WindowCounts
    <3> QED BY <3>3, <3>5, <3>6 DEF WindowCounts, CountsOf
  <2> QED BY <2>5, <2>6
<1>6. ASSUME NEW c \in Recorders, RecordStep(c), ~UpdateWindow(c)
      PROVE  WindowCounts(s)'
  <2>1. CASE At(c, "saving") /\ Save(c)
    <3>1. recorder'[c].stage = "windowing" /\ recorder'[c].call = recorder[c].call
      BY <2>1 DEF Save, TrackerTypeOK, Recording, Idle
    <3>2. BeingWindowed' = BeingWindowed \cup {recorder[c].call}
      BY <2>1, <3>1 DEF Save, BeingWindowed, TrackerTypeOK
    <3>3. recorder[c].call \notin calls
      BY <2>1 DEF CallsUnderWay
    <3> QED BY <1>4, <2>1, <3>2, <3>3 DEF Save, Counted, InWindow
  <2>2. CASE FailStatement(c)
    <3>1. \A d \in Recorders : At(d, "windowing")' <=> At(d, "windowing") /\ d # c
      BY <2>2 DEF FailStatement, TrackerTypeOK, Idle
    <3>2. \A d \in Recorders \ {c} : recorder'[d] = recorder[d]
      BY <2>2 DEF FailStatement, TrackerTypeOK
    <3>3. BeingWindowed' \cup dropped' = BeingWindowed \cup dropped
      BY <2>2, <3>1, <3>2 DEF FailStatement, BeingWindowed
    <3> QED BY <1>4, <2>2, <3>3 DEF FailStatement, Counted, InWindow
  <2>3. CASE RecordStep(c) /\ ~Save(c) /\ ~FailStatement(c)
    <3>1. \A d \in Recorders : At(d, "windowing")' <=> At(d, "windowing")
      BY <1>6, <2>3, RecorderIs, NextStages
      DEF RecordStep, Begin, CreateAlert, Count, TrackerTypeOK, Idle, Active
    <3>2. \A d \in Recorders : At(d, "windowing") => recorder'[d] = recorder[d]
      BY <1>6, <2>3 DEF RecordStep, Begin, CreateAlert, Count, TrackerTypeOK
    <3>3. BeingWindowed' = BeingWindowed
      BY <3>1, <3>2 DEF BeingWindowed
    <3> QED BY <1>4, <1>6, <2>3, <3>3 DEF RecordStep, Begin, CreateAlert, Count, Counted, InWindow
  <2> QED BY <1>6, <2>1, <2>2, <2>3 DEF Save
<1>7. CASE CleanCalls
  <2>1. cleaned' >= cleaner.cutoff /\ cleaner.cutoff \in Int
    BY <1>7 DEF CleanCalls, CutoffsAreOld, TrackerTypeOK, Max
  <2>2. \A k \in InWindow(s) : k.at \in Nat /\ s <= k.at
    BY StartOfWindow, TrackerAssumption DEF InWindow, TrackerTypeOK, Call
  <2>3. InWindow(s)' = InWindow(s)
    BY <1>2, <1>3, <1>7, <2>1, <2>2 DEF CleanCalls, CallTooOld, InWindow
  <2>4. BeingWindowed' = BeingWindowed
    BY <1>7 DEF CleanCalls, BeingWindowed
  <2> QED BY <1>4, <1>7, <2>3, <2>4 DEF CleanCalls, Counted
<1>8. CASE CleanWindows
  <2>1. cleaned' = cleaned /\ cleaned >= cleaner.cutoff /\ cleaner.cutoff \in Int
    BY <1>8 DEF CleanWindows, CutoffsAreOld, TrackerTypeOK
  <2>2. Stored(s)' = Stored(s)
    BY <1>2, <1>3, <1>8, <2>1 DEF CleanWindows, WindowTooOld, Stored
  <2>3. Counted(s)' = Counted(s)
    BY <1>8 DEF CleanWindows, Counted, InWindow, BeingWindowed
  <2> QED BY <1>3, <2>2, <2>3, SameWindow
<1>9. CASE Crash
  <2>1. BeingWindowed' = {} /\ dropped' = dropped \cup BeingWindowed
    BY <1>9 DEF Crash, BeingWindowed, Idle
  <2> QED BY <1>4, <1>9, <2>1 DEF Crash, Counted, InWindow
<1>10. ASSUME UNCHANGED <<calls, windows, recorder, dropped>>
       PROVE  WindowCounts(s)'
  BY <1>4, <1>10 DEF Counted, InWindow, BeingWindowed
<1>11. CASE CleanupStep /\ ~CleanCalls /\ ~CleanWindows
  BY <1>10, <1>11 DEF CleanupStep, StartCleanup, CleanAlerts, FailCleanup
<1>12. ASSUME NEW a \in alerts, Acknowledge(a) \/ Resolve(a)
       PROVE  WindowCounts(s)'
  BY <1>10, <1>12 DEF Acknowledge, Resolve
<1> QED
  BY <1>5, <1>6, <1>7, <1>8, <1>9, <1>10, <1>11, <1>12
  DEF TrackerMove, TrackerNext, TrackerStep, Tick, QueryFails, trackerVars

\* A reported call stays recorded.
LEMMA ReportedStaysRecorded ==
  ASSUME TrackerTypeOK, CallsKnown, CallsUnderWay, CutoffsAreOld, ReportedIsRecorded, TrackerMove
  PROVE  ReportedIsRecorded'
<1>1. cleaned \in Int /\ cleaned' \in Int /\ cleaned <= cleaned' /\ cleaner.cutoff \in Int
  BY CutoffsStayOld DEF CutoffsAreOld, TrackerTypeOK
<1>2. \A k \in reported : k.at \in Nat
  BY TrackerAssumption DEF CallsKnown, Call
<1> USE DEF ReportedIsRecorded, tables, tasks, histories, Goto, Leave, At
<1>3. ASSUME NEW c \in Recorders, RecordStep(c)
      PROVE  ReportedIsRecorded'
  <2>1. CASE Count(c)
    <3>1. Told(c) /\ Active(c)
      BY <2>1 DEF Count, Told, Active
    <3>2. /\ recorder[c].call \notin dropped
          /\ recorder[c].call.at >= cleaned => recorder[c].call \in calls
      BY <3>1 DEF CallsUnderWay
    <3> QED BY <2>1, <3>2 DEF Count
  <2>2. CASE FailStatement(c)
    <3>1. recorder[c].call \notin reported
      BY <2>2 DEF FailStatement, CallsUnderWay, Active
    <3> QED BY <2>2, <3>1 DEF FailStatement
  <2>3. CASE RecordStep(c) /\ ~Count(c) /\ ~FailStatement(c)
    BY <2>3 DEF RecordStep, Begin, Save, UpdateWindow, CreateAlert
  <2> QED BY <1>3, <2>1, <2>2, <2>3
<1>4. CASE CleanCalls
  <2>1. cleaned' >= cleaner.cutoff
    BY <1>1, <1>4 DEF CleanCalls, Max
  <2> QED BY <1>1, <1>2, <1>4, <2>1 DEF CleanCalls, CallTooOld
<1>5. CASE Crash
  <2>1. \A c \in Recorders : At(c, "windowing") => recorder[c].call \notin reported
    BY DEF CallsUnderWay, Active
  <2> QED BY <1>5, <2>1 DEF Crash
<1>6. CASE CleanupStep /\ ~CleanCalls
  BY <1>6 DEF CleanupStep, StartCleanup, CleanWindows, CleanAlerts, FailCleanup
<1>7. ASSUME NEW a \in alerts, Acknowledge(a) \/ Resolve(a)
      PROVE  ReportedIsRecorded'
  BY <1>7 DEF Acknowledge, Resolve
<1>8. CASE Tick \/ QueryFails \/ UNCHANGED trackerVars
  BY <1>8 DEF Tick, QueryFails, trackerVars
<1> QED BY <1>3, <1>4, <1>5, <1>6, <1>7, <1>8 DEF TrackerMove, TrackerNext, TrackerStep

\* Empty tables agree with nobody having called.
LEMMA TrackerInvInitially ==
  ASSUME TrackerInit
  PROVE  TrackerInv
<1> USE TrackerAssumption DEF TrackerInit
<1>1. TrackerTypeOK
  BY DEF TrackerTypeOK, Recording, CleanerIdle, Never
<1>2. CallsKnown /\ CallsUnderWay /\ AlertsInOrder /\ ReportedIsRecorded
  BY FS_EmptySet DEF CallsKnown, CallsUnderWay, AlertsInOrder, ReportedIsRecorded, Active, Told, At, Idle
<1>3. CutoffsAreOld
  BY DEF CutoffsAreOld, CleanerIdle, Never
<1>4. \A s : Counted(s) = {} /\ Stored(s) = NoWindow
  BY DEF Counted, InWindow, Stored
<1>5. CountsOf({}) = NoWindow
  BY FS_EmptySet DEF CountsOf, NoWindow
<1>6. WindowsCountCalls
  BY <1>4, <1>5, WindowByWindow DEF WindowCounts
<1> QED BY <1>1, <1>2, <1>3, <1>6 DEF TrackerInv

\* TrackerInv is inductive, also under what the dashboard does.
LEMMA TrackerInvKept ==
  ASSUME TrackerInv, TrackerMove
  PROVE  TrackerInv'
BY TypesKept, CallsStayKnown, CallsStayUnderWay, CutoffsStayOld, AlertsStayInOrder,
   WindowsStayRight, ReportedStaysRecorded
DEF TrackerInv

\* The inductive invariant of the tracker: the calls in its table, its histories and
\* its tasks are told apart, cutoffs are at least the retention old, and alerts are
\* resolved after they are raised.
THEOREM TrackerInvariant == TrackerSpec => []TrackerInv
<1>1. TrackerInit => TrackerInv
  BY TrackerInvInitially
<1>2. TrackerInv /\ [TrackerNext]_trackerVars => TrackerInv'
  BY TrackerInvKept DEF TrackerMove
<1> QED BY <1>1, <1>2, PTL DEF TrackerSpec

\* The tables agree with each other and with what callers were told, for any number of
\* recorders, calls, cleanups, failed statements and crashes: every window that begins
\* after the latest cutoff counts the calls saved in it, but for those being counted
\* or cut off half way, and a call that returned Ok has left nothing out.
THEOREM TablesAgree == TrackerSpec => []RecordsAgree
<1>1. TrackerInv => RecordsAgree
  BY DEF TrackerInv, RecordsAgree
<1> QED BY <1>1, TrackerInvariant, PTL

-----------------------------------------------------------------------------
(* The metrics of the tracker *)

\* Only Count, a crash and the clock can change what MetricsSound says.
LEMMA MetricsStaySound ==
  ASSUME TrackerInv, MetricsSound(metrics, now), TrackerNext
  PROVE  MetricsSound(metrics, now)'
<1>1. now \in Nat
  BY TrackerAssumption DEF TrackerInv, TrackerTypeOK
<1>2. CASE metrics' = metrics /\ now' = now
  BY <1>2
<1>3. ASSUME NEW c \in Recorders, Count(c)
      PROVE  MetricsSound(metrics, now)'
  <2> DEFINE r == recorder[c].call.request
  <2>1. Active(c)
    BY <1>3 DEF Count, At, Active
  <2>2. r \in Requests
    BY <2>1, RecorderIs DEF TrackerInv
  <2>3. r.endpoint \in Endpoints /\ r.status \in Nat /\ r.time \in Nat
    BY <2>2, TrackerAssumption
  <2>4. metrics' = Recorded(metrics, r, now) /\ now' = now
    BY <1>3 DEF Count
  <2> HIDE DEF r
  <2>5. MetricsSound(Recorded(metrics, r, now), now)
    BY <1>1, <2>3, RecordedStaysSound
  <2> QED BY <2>4, <2>5
<1>4. CASE Crash
  <2>1. metrics' = NoMetrics
    BY <1>4 DEF Crash
  <2>2. MetricsSound(NoMetrics, now')
    BY NoMetricsSound
  <2> QED BY <2>1, <2>2
<1>5. CASE Tick
  <2>1. metrics' = metrics /\ now' = now + 1
    BY <1>5 DEF Tick, tasks
  <2>2. MetricsSound(metrics, now + 1)
    BY <1>1, SoundLater
  <2> QED BY <2>1, <2>2
<1>6. ASSUME NEW c \in Recorders, RecordStep(c), ~ Count(c)
      PROVE  metrics' = metrics /\ now' = now
  BY <1>6 DEF RecordStep, Begin, Save, UpdateWindow, CreateAlert, FailStatement, tasks, tables
<1>7. ASSUME NEW a \in alerts, Acknowledge(a) \/ Resolve(a)
      PROVE  metrics' = metrics /\ now' = now
  BY <1>7 DEF Acknowledge, Resolve, tasks
<1>8. ASSUME CleanupStep
      PROVE  metrics' = metrics /\ now' = now
  BY <1>8 DEF CleanupStep, StartCleanup, CleanCalls, CleanWindows, CleanAlerts, FailCleanup
<1> QED BY <1>2, <1>3, <1>4, <1>5, <1>6, <1>7, <1>8 DEF TrackerNext, TrackerStep

\* The metrics agree with themselves after any number of calls, over any time and number
\* of endpoints: the totals are the sums over the endpoints, the average is below the
\* mean by less than half a unit for every request, and the hours are in order, not after
\* the clock nor more than a day before the latest of them, and count no request twice.
THEOREM MetricsAddUp == TrackerSpec => []MetricsAgree
<1>1. TrackerInit => MetricsSound(metrics, now)
  BY NoMetricsSound DEF TrackerInit
<1>2. TrackerInv /\ MetricsSound(metrics, now) /\ [TrackerNext]_trackerVars => MetricsSound(metrics, now)'
  <2>1. UNCHANGED trackerVars => metrics' = metrics /\ now' = now
    BY DEF trackerVars, tasks
  <2> QED BY <2>1, MetricsStaySound
<1>3. MetricsSound(metrics, now) => MetricsAgree
  <2> SUFFICES ASSUME MetricsSound(metrics, now)
               PROVE  MetricsAgree
    OBVIOUS
  <2> DEFINE hours == metrics.hours
  <2>1. TotalsAddUp(metrics) /\ AverageNearMean(metrics)
    BY DEF MetricsSound
  <2>2. /\ hours \in Seq(HourCount) /\ Ordered(hours)
        /\ \A i \in 1..Len(hours) : OnTheHour(hours[i].start)
        /\ \A i, j \in 1..Len(hours) : hours[j].start - hours[i].start <= DayLength
        /\ metrics.total > 0 => hours # <<>>
        /\ CountIn(hours) <= metrics.total
    BY DEF MetricsSound
  <2>3. \A i \in DOMAIN hours : hours[i].start <= now /\ hours[i].start >= Last(hours).start - DayLength
    <3> SUFFICES ASSUME NEW i \in DOMAIN hours
                 PROVE  hours[i].start <= now /\ hours[i].start >= Last(hours).start - DayLength
      OBVIOUS
    <3>1. i \in 1..Len(hours) /\ Len(hours) \in 1..Len(hours)
      BY <2>2
    <3>2. hours[i].start \in Nat /\ hours[Len(hours)].start \in Nat /\ DayLength \in Nat
      <4>1. hours[i] \in HourCount /\ hours[Len(hours)] \in HourCount
        <5>1. \A j \in 1..Len(hours) : hours[j] \in HourCount
          BY <2>2
        <5> QED BY <3>1, <5>1
      <4> QED BY <4>1, MetricsAssumption DEF HourCount
    <3>3. hours[i].start <= now /\ hours[Len(hours)].start - hours[i].start <= DayLength
      BY <3>1 DEF MetricsSound
    <3> QED BY <3>2, <3>3 DEF Last
  <2>4. \A i \in 2..Len(hours) : hours[i - 1].start < hours[i].start
    <3>1. \A i \in 2..Len(hours) : i - 1 \in 1..Len(hours) /\ i \in 1..Len(hours) /\ i - 1 < i
      BY <2>2
    <3> QED BY <2>2, <3>1 DEF Ordered
  <2> QED BY <2>1, <2>2, <2>3, <2>4 DEF MetricsAgree, HoursAddUp, CountIn
<1> QED BY <1>1, <1>2, <1>3, TrackerInvariant, PTL DEF TrackerSpec

-----------------------------------------------------------------------------
(* What cleanups delete is no longer shown *)

Queries == UNION {Range(AllSections[s]) : s \in DOMAIN AllSections}

\* The queries are those that Answers knows.
LEMMA QueriesAre ==
  Queries \subseteq {"totals", "peak", "window", "endpoints", "alerts", "queue", "times", "speeds",
                     "errors", "throughput", "hourly", "daily", "success", "response"}
BY DEF Queries, AllSections, Range

\* The answers to every query are made of few sets: the calls of the day and of the
\* trend, the windows of the last hours and the current one, the alerts shown.
LEMMA AnswersAreOfRows ==
  ASSUME NEW query \in Queries,
         UNCHANGED InLastDay, UNCHANGED HourlyRows, UNCHANGED DailyRows, UNCHANGED AlertsShown,
         UNCHANGED CurrentWindow,
         UNCHANGED WindowsAfter(now - HourLength), UNCHANGED WindowsAfter(now - ThroughputTime)
  PROVE  Answers(query)' = Answers(query)
BY QueriesAre DEF Answers

\* A cutoff lies before everything that a query looks back to (580, 590; 193-213,
\* 259-266, 633-646, 683-730).
LEMMA CutoffBeforeQueries ==
  ASSUME TrackerTypeOK, CutoffsAreOld, cleaner # CleanerIdle
  PROVE  /\ {now, HourLength, DayLength, TrendTime, ThroughputTime, cleaner.cutoff} \subseteq Int
         /\ cleaner.cutoff <= now - DayLength /\ cleaner.cutoff <= now - TrendTime
         /\ cleaner.cutoff <= now - HourLength /\ cleaner.cutoff <= now - ThroughputTime
         /\ cleaner.cutoff < WindowOf(now)
<1>1. WindowOf(now) \in Int /\ now - WindowLength < WindowOf(now)
  BY StartOfWindow, TrackerAssumption DEF TrackerTypeOK
<1>2. cleaner.cutoff \in Int /\ cleaner.cutoff <= now - Retention /\ now \in Int
  BY DEF TrackerTypeOK, CutoffsAreOld
<1> QED BY <1>1, <1>2, TrackerAssumption, MetricsAssumption, QueriesAssumption

\* No step of a cleanup changes what a query answers.
LEMMA CleanupChangesNoAnswer ==
  ASSUME TrackerInv, CleanCalls \/ CleanWindows \/ CleanAlerts, NEW query \in Queries
  PROVE  Answers(query)' = Answers(query)
<1> USE DEF TrackerInv, tables, tasks, histories
<1>1. CASE CleanCalls
  <2>1. cleaner # CleanerIdle
    BY <1>1 DEF CleanCalls, CleanerIdle
  <2>2. \A k \in calls : k.at \in Nat
    BY TrackerAssumption DEF TrackerTypeOK, Call
  <2>3. UNCHANGED InLastDay /\ UNCHANGED HourlyRows /\ UNCHANGED DailyRows
    BY <1>1, <2>1, <2>2, CutoffBeforeQueries DEF CleanCalls, CallTooOld, InLastDay, HourlyRows, DailyRows
  <2> QED BY <1>1, <2>3, AnswersAreOfRows
          DEF CleanCalls, CurrentWindow, WindowsAfter, WindowRow, AlertsShown
<1>2. CASE CleanWindows
  <2>1. cleaner # CleanerIdle
    BY <1>2 DEF CleanWindows, CleanerIdle
  <2>2. \A s \in DOMAIN windows : s \in Nat
    BY TrackerAssumption DEF TrackerTypeOK
  <2>3. /\ DOMAIN windows' = {s \in DOMAIN windows : ~(s < cleaner.cutoff)}
        /\ \A s \in DOMAIN windows' : windows'[s] = windows[s]
    BY <1>2 DEF CleanWindows, WindowTooOld
  <2>4. UNCHANGED WindowsAfter(now - HourLength) /\ UNCHANGED WindowsAfter(now - ThroughputTime)
    BY <1>2, <2>1, <2>2, <2>3, CutoffBeforeQueries DEF CleanWindows, WindowsAfter, WindowRow
  <2>5. UNCHANGED CurrentWindow
    BY <1>2, <2>1, <2>2, <2>3, CutoffBeforeQueries DEF CleanWindows, CurrentWindow, WindowRow
  <2> QED BY <1>2, <2>4, <2>5, AnswersAreOfRows
          DEF CleanWindows, InLastDay, HourlyRows, DailyRows, AlertsShown
<1>3. CASE CleanAlerts
  <2>1. \A a \in alerts : ResolvedLongAgo(a) => ~(a.at > now - AlertRetention \/ a.resolved = Never)
    BY TrackerAssumption DEF ResolvedLongAgo, AlertsInOrder, TrackerTypeOK, Alert, Never
  <2>2. UNCHANGED AlertsShown
    BY <1>3, <2>1 DEF CleanAlerts, AlertsShown
  <2> QED BY <1>3, <2>2, AnswersAreOfRows
          DEF CleanAlerts, InLastDay, HourlyRows, DailyRows, CurrentWindow, WindowsAfter, WindowRow
<1> QED BY <1>1, <1>2, <1>3

\* Only these three steps change the cleaner and a table together.
LEMMA InvisibleStep ==
  ASSUME TrackerInv, TrackerMove, cleaner' # cleaner, tables' # tables, NEW query \in Queries
  PROVE  Answers(query)' = Answers(query)
<1> USE DEF tables, tasks
<1>1. CASE CleanCalls \/ CleanWindows \/ CleanAlerts
  BY <1>1, CleanupChangesNoAnswer
<1>2. CASE ~(CleanCalls \/ CleanWindows \/ CleanAlerts)
  BY <1>2
  DEF TrackerMove, QueryFails, TrackerNext, TrackerStep, RecordStep, CleanupStep, Begin, Save, UpdateWindow,
      CreateAlert, Count, FailStatement, Acknowledge, Resolve, StartCleanup, FailCleanup, Crash, Tick, trackerVars
<1> QED BY <1>1, <1>2

\* A cleanup deletes nothing that is still shown: whatever it does to the tables, every
\* query of the dashboard answers as before, for every retention that covers what the
\* queries look back to, and however late the cleanup's statements run.
THEOREM CleanupsAreInvisible == TrackerSpec => CleanupIsInvisible
<1> DEFINE Invisible ==
      cleaner' # cleaner /\ tables' # tables =>
        \A s \in DOMAIN AllSections : \A i \in DOMAIN AllSections[s] :
          Answers(AllSections[s][i])' = Answers(AllSections[s][i])
<1>1. TrackerInv /\ [TrackerNext]_trackerVars => [Invisible]_trackerVars
  <2> SUFFICES ASSUME TrackerInv, TrackerNext, cleaner' # cleaner, tables' # tables, NEW query \in Queries
               PROVE  Answers(query)' = Answers(query)
    BY DEF Queries, Range
  <2> QED BY InvisibleStep DEF TrackerMove
<1> QED BY <1>1, TrackerInvariant, PTL DEF TrackerSpec, CleanupIsInvisible

-----------------------------------------------------------------------------
(* What the dashboard caches *)

CallQueries == {"totals", "hourly", "daily"}

\* Unless a query failed, the record has the answers of the queries that each section
\* has behind it.
HasAnswers(q) ==
  ~q.failed =>
    \A s \in DOMAIN Sections : \A i \in 1..(q.next[s] - 1) : Sections[s][i] \in DOMAIN q.read

\* A call of get_dashboard_data that is generating knows calls that were reported, and
\* each of its answers counts those of them that are still of the day.
Generating(r) ==
  /\ reader[r] = [stage |-> "generating", started |-> reader[r].started, known |-> reader[r].known,
                  next |-> reader[r].next, failed |-> reader[r].failed, read |-> reader[r].read]
  /\ reader[r].started \in Nat /\ reader[r].started <= now
  /\ reader[r].next \in [DOMAIN Sections -> Nat]
  /\ \A s \in DOMAIN Sections : reader[r].next[s] \in 1..Len(Sections[s]) + 1
  /\ HasAnswers(reader[r])
  /\ reader[r].known \subseteq reported
  /\ \A k \in reader[r].known : k.at > now - DayLength =>
       \A query \in CallQueries \cap DOMAIN reader[r].read : k \in reader[r].read[query]

ReaderSound(r) == reader[r] \in {Waiting, Returned, Failed} \/ Generating(r)

CacheSound ==
  cache # NoData =>
    /\ cache.timestamp \in Nat /\ cache.stored \in Nat
    /\ cache.timestamp <= cache.stored /\ cache.stored <= now
    /\ Asked \subseteq DOMAIN cache.read
    /\ \A k \in cache.known : k.at > cache.stored - DayLength =>
         \A query \in CallQueries \cap DOMAIN cache.read : k \in cache.read[query]

\* The inductive invariant behind CacheIsSound.
DashboardInv ==
  /\ TrackerInv
  /\ reader = [r \in Readers |-> reader[r]]
  /\ \A r \in Readers : ReaderSound(r)
  /\ CacheSound

\* Every step of the whole is a move of the tracker.
LEMMA DashboardMovesTracker ==
  ASSUME [DashboardNext]_vars
  PROVE  TrackerMove
BY DEF DashboardNext, DashboardStep, ReadCache, Generate, RunQuery, FailQuery, Store, GiveUp, CrashAll,
       TrackerMove, TrackerNext, QueryFails, vars, trackerVars, dashboardVars, histories

\* What was reported stays so, and the clock does not go back.
LEMMA ReportsGrow ==
  ASSUME TrackerInv, TrackerMove
  PROVE  reported \subseteq reported' /\ now \in Nat /\ now' \in Nat /\ now <= now'
<1>1. now \in Nat
  BY TrackerAssumption DEF TrackerInv, TrackerTypeOK
<1>2. ASSUME NEW c \in Recorders, RecordStep(c)
      PROVE  reported \subseteq reported' /\ now' = now
  BY <1>2 DEF RecordStep, Begin, Save, UpdateWindow, CreateAlert, Count, FailStatement, histories
<1>3. ASSUME CleanupStep
      PROVE  reported \subseteq reported' /\ now' = now
  BY <1>3 DEF CleanupStep, StartCleanup, CleanCalls, CleanWindows, CleanAlerts, FailCleanup, histories
<1>4. ASSUME Crash \/ QueryFails \/ UNCHANGED trackerVars
      PROVE  reported \subseteq reported' /\ now' = now
  BY <1>4 DEF Crash, QueryFails, trackerVars, histories
<1>5. ASSUME NEW a \in alerts, Acknowledge(a) \/ Resolve(a)
      PROVE  reported \subseteq reported' /\ now' = now
  BY <1>5 DEF Acknowledge, Resolve, histories
<1>6. ASSUME Tick
      PROVE  reported \subseteq reported' /\ now' = now + 1
  BY <1>6 DEF Tick, histories
<1> QED BY <1>1, <1>2, <1>3, <1>4, <1>5, <1>6 DEF TrackerMove, TrackerNext, TrackerStep

\* A reported call of the last day is in the table: no cutoff has reached it.
LEMMA ReportedAreThere ==
  ASSUME TrackerInv, NEW k \in reported, k.at > now - DayLength
  PROVE  k \in calls
<1>1. k.at \in Nat /\ now \in Nat /\ cleaned \in Int /\ (cleaned = -1 \/ cleaned <= now - Retention)
  BY TrackerAssumption DEF TrackerInv, TrackerTypeOK, CallsKnown, CutoffsAreOld, Call, Never
<1>2. k.at >= cleaned
  BY <1>1, TrackerAssumption, MetricsAssumption, QueriesAssumption
<1> QED BY <1>2 DEF TrackerInv, ReportedIsRecorded

\* So each query that counts calls counts it.
LEMMA AnswersCountReported ==
  ASSUME TrackerInv, NEW k \in reported, k.at > now - DayLength,
         NEW query \in CallQueries, NEW rows \in Answers(query)
  PROVE  k \in rows
<1>1. k \in calls /\ k.at > now - TrendTime
  <2>1. k.at \in Nat /\ now \in Nat
    BY TrackerAssumption DEF TrackerInv, TrackerTypeOK, CallsKnown, Call
  <2> QED BY <2>1, ReportedAreThere, TrackerAssumption, MetricsAssumption, QueriesAssumption
<1> QED BY <1>1 DEF Answers, CallQueries, InLastDay, HourlyRows, DailyRows

\* A reader that does not move keeps what it has, whatever the tracker does.
LEMMA OthersStaySound ==
  ASSUME DashboardInv, TrackerMove, NEW r \in Readers, reader'[r] = reader[r]
  PROVE  ReaderSound(r)'
<1>1. CASE reader[r] \in {Waiting, Returned, Failed}
  BY <1>1 DEF ReaderSound, Waiting, Returned, Failed
<1>2. CASE Generating(r)
  <2>1. reported \subseteq reported' /\ now \in Nat /\ now' \in Nat /\ now <= now'
    BY ReportsGrow DEF DashboardInv
  <2>2. \A k \in reader[r].known : k.at \in Nat
    BY <1>2, TrackerAssumption DEF Generating, DashboardInv, TrackerInv, CallsKnown, Call
  <2> QED BY <1>2, <2>1, <2>2, MetricsAssumption DEF ReaderSound, Generating
<1> QED BY <1>1, <1>2 DEF DashboardInv, ReaderSound

\* What is in the cache stays sound until it is stored over or lost.
LEMMA CacheStaysSound ==
  ASSUME DashboardInv, TrackerMove, cache' = cache
  PROVE  CacheSound'
<1>1. now \in Nat /\ now' \in Nat /\ now <= now'
  BY ReportsGrow DEF DashboardInv
<1> QED BY <1>1 DEF DashboardInv, CacheSound, NoData

\* What one reader does leaves the others alone.
LEMMA OneReaderMoves ==
  ASSUME DashboardInv, TrackerMove, cache' = cache, NEW r \in Readers, NEW to,
         reader' = [reader EXCEPT ![r] = to], ReaderSound(r)'
  PROVE  DashboardInv'
<1>1. \A q \in Readers \ {r} : ReaderSound(q)'
  BY OthersStaySound DEF DashboardInv
<1>2. TrackerInv'
  BY TrackerInvKept DEF DashboardInv
<1>3. reader' = [q \in Readers |-> reader'[q]]
  BY DEF DashboardInv
<1> QED BY <1>1, <1>2, <1>3, CacheStaysSound DEF DashboardInv

\* What RunQuery and FailQuery make of the record of a call of get_dashboard_data
ReadOn(r, s, n, more) == [r EXCEPT !.next[s] = n, !.read = more]
EndedAt(r, s, n, end) == [r EXCEPT !.next[s] = n, !.failed = end]

\* RunQuery changes the rows read and the place of a section, and nothing else ...
LEMMA RecordReadOn ==
  ASSUME NEW r, NEW s, NEW n, NEW more,
         r = [stage |-> "generating", started |-> r.started, known |-> r.known,
              next |-> r.next, failed |-> r.failed, read |-> r.read]
  PROVE  ReadOn(r, s, n, more) =
           [stage |-> "generating", started |-> r.started, known |-> r.known,
            next |-> [r.next EXCEPT ![s] = n], failed |-> r.failed, read |-> more]
<1> DEFINE moved == [r EXCEPT !.next[s] = n]
<1>1. moved = [stage |-> "generating", started |-> r.started, known |-> r.known,
               next |-> [r.next EXCEPT ![s] = n], failed |-> r.failed, read |-> r.read]
  OBVIOUS
<1>2. ReadOn(r, s, n, more) = [moved EXCEPT !.read = more]
  BY DEF ReadOn
<1> HIDE DEF moved
<1> QED BY <1>1, <1>2

\* ... and FailQuery that place and the failure.
LEMMA RecordEnded ==
  ASSUME NEW r, NEW s, NEW n, NEW end,
         r = [stage |-> "generating", started |-> r.started, known |-> r.known,
              next |-> r.next, failed |-> r.failed, read |-> r.read]
  PROVE  EndedAt(r, s, n, end) =
           [stage |-> "generating", started |-> r.started, known |-> r.known,
            next |-> [r.next EXCEPT ![s] = n], failed |-> end, read |-> r.read]
<1> DEFINE moved == [r EXCEPT !.next[s] = n]
<1>1. moved = [stage |-> "generating", started |-> r.started, known |-> r.known,
               next |-> [r.next EXCEPT ![s] = n], failed |-> r.failed, read |-> r.read]
  OBVIOUS
<1>2. EndedAt(r, s, n, end) = [moved EXCEPT !.failed = end]
  BY DEF EndedAt
<1> HIDE DEF moved
<1> QED BY <1>1, <1>2

\* DashboardInv is inductive.
LEMMA DashboardInvKept ==
  ASSUME DashboardInv, [DashboardNext]_vars
  PROVE  DashboardInv'
<1>1. TrackerMove /\ TrackerInv /\ TrackerInv'
  BY DashboardMovesTracker, TrackerInvKept DEF DashboardInv
<1>2. now \in Nat /\ reader = [r \in Readers |-> reader[r]]
  BY <1>1, ReportsGrow DEF DashboardInv
<1>3. CASE UNCHANGED dashboardVars
  <2>1. \A r \in Readers : ReaderSound(r)'
    BY <1>1, <1>3, OthersStaySound DEF dashboardVars
  <2>2. CacheSound'
    BY <1>1, <1>3, CacheStaysSound DEF dashboardVars
  <2> QED BY <1>1, <1>2, <1>3, <2>1, <2>2 DEF DashboardInv, dashboardVars
<1>4. ASSUME NEW r \in Readers, ReadCache(r)
      PROVE  DashboardInv'
  <2>1. reader' = [reader EXCEPT ![r] = Returned] /\ cache' = cache
    BY <1>4 DEF ReadCache
  <2>2. ReaderSound(r)'
    BY <1>2, <2>1 DEF ReaderSound, Returned
  <2> QED BY <1>1, <2>1, <2>2, OneReaderMoves
<1>5. ASSUME NEW r \in Readers, GiveUp(r)
      PROVE  DashboardInv'
  <2>1. reader' = [reader EXCEPT ![r] = Failed] /\ cache' = cache
    BY <1>5 DEF GiveUp
  <2>2. ReaderSound(r)'
    BY <1>2, <2>1 DEF ReaderSound, Failed
  <2> QED BY <1>1, <2>1, <2>2, OneReaderMoves
<1>6. ASSUME NEW r \in Readers, NEW force \in BOOLEAN, Generate(r, force)
      PROVE  DashboardInv'
  <2> DEFINE to == [stage |-> "generating", started |-> now, known |-> reported,
                    next |-> [s \in DOMAIN Sections |-> 1], failed |-> FALSE, read |-> <<>>]
  <2>1. reader' = [reader EXCEPT ![r] = to] /\ UNCHANGED <<trackerVars, cache>>
    BY <1>6 DEF Generate
  <2>2. reader'[r] = to /\ now' = now /\ reported' = reported
    BY <1>2, <2>1 DEF trackerVars, histories
  <2>3. DOMAIN to.read = {}
    OBVIOUS
  <2>4. \A s \in DOMAIN Sections : Len(Sections[s]) \in Nat
    BY DashboardAssumption
  <2>5. HasAnswers(to)
    BY DEF HasAnswers
  <2>6. Generating(r)'
    BY <1>2, <2>2, <2>3, <2>4, <2>5 DEF Generating
  <2> HIDE DEF to
  <2> QED BY <1>1, <2>1, <2>6, OneReaderMoves DEF ReaderSound
<1>7. ASSUME NEW r \in Readers, Stage(r, "generating")
      PROVE  Generating(r)
  BY <1>7 DEF DashboardInv, ReaderSound, Stage, Waiting, Returned, Failed
<1>8. ASSUME NEW r \in Readers, NEW s \in DOMAIN Sections, RunQuery(r, s)
      PROVE  DashboardInv'
  <2> DEFINE query == Sections[s][reader[r].next[s]]
             next == [reader[r].next EXCEPT ![s] = @ + 1]
  <2>1. Generating(r) /\ reader[r].next[s] <= Len(Sections[s])
    BY <1>7, <1>8 DEF RunQuery, Pending
  <2>2. PICK rows \in Answers(query) :
          reader' = [reader EXCEPT ![r].next[s] = @ + 1, ![r].read = With(@, query, rows)]
    BY <1>8 DEF RunQuery
  <2> DEFINE read == With(reader[r].read, query, rows)
             to == [stage |-> "generating", started |-> reader[r].started, known |-> reader[r].known,
                    next |-> next, failed |-> reader[r].failed, read |-> read]
  <2>3. [reader[r] EXCEPT !.next[s] = @ + 1, !.read = With(@, query, rows)] = to
    <3>1. reader[r] = [stage |-> "generating", started |-> reader[r].started, known |-> reader[r].known,
                       next |-> reader[r].next, failed |-> reader[r].failed, read |-> reader[r].read]
      BY <2>1 DEF Generating
    <3> DEFINE n == reader[r].next[s] + 1
    <3>2. [reader[r] EXCEPT !.next[s] = @ + 1, !.read = With(@, query, rows)] = ReadOn(reader[r], s, n, read)
      BY DEF ReadOn
    <3> HIDE DEF n, read
    <3>3. ReadOn(reader[r], s, n, read) =
            [stage |-> "generating", started |-> reader[r].started, known |-> reader[r].known,
             next |-> [reader[r].next EXCEPT ![s] = n], failed |-> reader[r].failed, read |-> read]
      BY ONLY <3>1, RecordReadOn
    <3>4. next = [reader[r].next EXCEPT ![s] = n]
      BY DEF n
    <3> QED BY ONLY <3>2, <3>3, <3>4
  <2>4. reader' = [reader EXCEPT ![r] = to]
    BY <1>2, <2>2, <2>3
  <2>5. reader'[r] = to /\ UNCHANGED <<now, reported, cache>>
    BY <1>2, <1>8, <2>4 DEF RunQuery, trackerVars, histories
  <2>6. next \in [DOMAIN Sections -> Nat] /\ \A t \in DOMAIN Sections : next[t] \in 1..Len(Sections[t]) + 1
    BY <2>1, DashboardAssumption DEF Generating
  <2>7. ASSUME NEW k \in reader[r].known, k.at > now - DayLength, NEW q \in CallQueries \cap DOMAIN read
        PROVE  k \in read[q]
    <3>1. CASE q = query
      <4>1. k \in rows
        BY <1>1, <2>1, <2>7, <3>1, AnswersCountReported DEF Generating
      <4> QED BY <3>1, <4>1 DEF With
    <3>2. CASE q # query
      BY <2>1, <2>7, <3>2 DEF With, Generating
    <3> QED BY <3>1, <3>2
  <2>8. HasAnswers(to)
    <3>1. DOMAIN read = DOMAIN reader[r].read \cup {query}
      BY DEF With
    <3> SUFFICES ASSUME ~reader[r].failed, NEW t \in DOMAIN Sections, NEW i \in 1..(next[t] - 1)
                 PROVE  Sections[t][i] \in DOMAIN read
      BY DEF HasAnswers
    <3>2. CASE t = s /\ i = reader[r].next[s]
      BY <3>1, <3>2
    <3>3. CASE ~(t = s /\ i = reader[r].next[s])
      <4>1. i \in 1..(reader[r].next[t] - 1)
        BY <2>1, <3>3 DEF Generating
      <4>2. Sections[t][i] \in DOMAIN reader[r].read
        BY <2>1, <4>1 DEF Generating, HasAnswers
      <4> QED BY <3>1, <4>2
    <3> QED BY <3>2, <3>3
  <2> HIDE DEF next, read
  <2>9. Generating(r)'
    BY <2>1, <2>5, <2>6, <2>7, <2>8 DEF Generating
  <2> HIDE DEF to
  <2> QED BY <1>1, <2>4, <2>5, <2>9, OneReaderMoves DEF ReaderSound
<1>9. ASSUME NEW r \in Readers, NEW s \in DOMAIN Sections, FailQuery(r, s)
      PROVE  DashboardInv'
  <2> DEFINE next == [reader[r].next EXCEPT ![s] = Len(Sections[s]) + 1]
             to == [stage |-> "generating", started |-> reader[r].started, known |-> reader[r].known,
                    next |-> next, failed |-> TRUE, read |-> reader[r].read]
  <2>1. Generating(r)
    BY <1>7, <1>9 DEF FailQuery
  <2>2. [reader[r] EXCEPT !.next[s] = Len(Sections[s]) + 1, !.failed = TRUE] = to
    <3>1. reader[r] = [stage |-> "generating", started |-> reader[r].started, known |-> reader[r].known,
                       next |-> reader[r].next, failed |-> reader[r].failed, read |-> reader[r].read]
      BY <2>1 DEF Generating
    <3> DEFINE n == Len(Sections[s]) + 1
               end == TRUE
    <3>2. [reader[r] EXCEPT !.next[s] = Len(Sections[s]) + 1, !.failed = TRUE] = EndedAt(reader[r], s, n, end)
      BY DEF EndedAt
    <3> HIDE DEF n, end
    <3>3. EndedAt(reader[r], s, n, end) =
            [stage |-> "generating", started |-> reader[r].started, known |-> reader[r].known,
             next |-> [reader[r].next EXCEPT ![s] = n], failed |-> end, read |-> reader[r].read]
      BY ONLY <3>1, RecordEnded
    <3> QED BY ONLY <3>2, <3>3 DEF n, end
  <2>3. reader' = [reader EXCEPT ![r] = to]
    BY <1>2, <1>9, <2>2 DEF FailQuery
  <2>4. reader'[r] = to /\ UNCHANGED <<now, reported, cache>>
    BY <1>2, <1>9, <2>3 DEF FailQuery, histories
  <2>5. next \in [DOMAIN Sections -> Nat] /\ \A t \in DOMAIN Sections : next[t] \in 1..Len(Sections[t]) + 1
    BY <2>1, DashboardAssumption DEF Generating
  <2> HIDE DEF next
  <2>6. HasAnswers(to)
    BY DEF HasAnswers
  <2>7. Generating(r)'
    BY <2>1, <2>4, <2>5, <2>6 DEF Generating
  <2> HIDE DEF to
  <2> QED BY <1>1, <2>3, <2>4, <2>7, OneReaderMoves DEF ReaderSound
<1>10. ASSUME NEW r \in Readers, Store(r)
       PROVE  DashboardInv'
  <2>1. Generating(r)
    BY <1>7, <1>10 DEF Store, Complete
  <2>2. /\ cache' = DataOf(r)
        /\ reader' = [reader EXCEPT ![r] = Returned]
        /\ UNCHANGED <<now, reported>>
    BY <1>10 DEF Store, trackerVars, histories
  <2>3. Asked \subseteq DOMAIN reader[r].read
    <3> SUFFICES ASSUME NEW s \in DOMAIN Sections, NEW i \in DOMAIN Sections[s]
                 PROVE  Sections[s][i] \in DOMAIN reader[r].read
      BY DEF Asked, Range
    <3>1. ~reader[r].failed /\ ~(reader[r].next[s] <= Len(Sections[s]))
      BY <1>10 DEF Store, Complete, NoneFailed, Pending
    <3>2. i \in 1..Len(Sections[s]) /\ Len(Sections[s]) \in Nat
      BY DashboardAssumption
    <3>3. i \in 1..(reader[r].next[s] - 1)
      BY <2>1, <3>1, <3>2 DEF Generating
    <3> QED BY <2>1, <3>1, <3>3 DEF Generating, HasAnswers
  <2>4. CacheSound'
    BY <1>2, <2>1, <2>2, <2>3 DEF CacheSound, DataOf, Generating
  <2>5. \A q \in Readers : ReaderSound(q)'
    <3>1. ReaderSound(r)'
      BY <1>2, <2>2 DEF ReaderSound, Returned
    <3>2. \A q \in Readers \ {r} : ReaderSound(q)'
      BY <1>1, <1>2, <2>2, OthersStaySound
    <3> QED BY <3>1, <3>2
  <2> QED BY <1>1, <1>2, <2>2, <2>4, <2>5 DEF DashboardInv
<1>11. CASE CrashAll
  <2>1. /\ cache' = NoData
        /\ reader' = [r \in Readers |-> IF Stage(r, "waiting") THEN Waiting ELSE Failed]
    BY <1>11 DEF CrashAll
  <2>2. CacheSound' /\ \A r \in Readers : ReaderSound(r)'
    BY <2>1 DEF CacheSound, ReaderSound
  <2> QED BY <1>1, <2>1, <2>2 DEF DashboardInv
<1> QED
  BY <1>3, <1>4, <1>5, <1>6, <1>8, <1>9, <1>10, <1>11 DEF DashboardNext, DashboardStep, vars

\* The inductive invariant of the dashboard: what a reader has read counts every call of
\* the day that it knew to be reported when it began.
THEOREM DashboardInvariant == DashboardSpec => []DashboardInv
<1>1. DashboardInit => DashboardInv
  <2> SUFFICES ASSUME DashboardInit
               PROVE  DashboardInv
    OBVIOUS
  <2>1. TrackerInv
    BY TrackerInvInitially DEF DashboardInit
  <2> QED BY <2>1 DEF DashboardInit, DashboardInv, ReaderSound, CacheSound
<1>2. DashboardInv /\ [DashboardNext]_vars => DashboardInv'
  BY DashboardInvKept
<1> QED BY <1>1, <1>2, PTL DEF DashboardSpec

\* What is in the cache is sound, for any number of readers, sections and recorders, and
\* whatever fails or is cleaned up meanwhile: data are begun, stored and read in this
\* order, have an answer of every query, and count every call that had returned Ok before
\* they were begun and was still of the day when they were stored.
THEOREM CachedDataAreSound == DashboardSpec => []CacheIsSound
<1>1. DashboardInv => CacheIsSound
  <2> SUFFICES ASSUME DashboardInv
               PROVE  CacheIsSound
    OBVIOUS
  <2>1. \A r \in Readers : reader[r] \in {Waiting, Returned, Failed} \/ Generating(r)
    BY DEF DashboardInv, ReaderSound
  <2>2. DashboardTypeOK
    BY <2>1 DEF DashboardInv, DashboardTypeOK, CacheSound, Generating, Stage
  <2>3. CountsEveryReported
    <3> SUFFICES ASSUME cache # NoData
                 PROVE  CountsEveryReported
      BY DEF CountsEveryReported
    <3>1. Asked \subseteq DOMAIN cache.read
      BY DEF DashboardInv, CacheSound
    <3> QED BY <3>1 DEF DashboardInv, CacheSound, CountsEveryReported, CallQueries
  <2> QED BY <2>2, <2>3 DEF CacheIsSound
<1> QED BY <1>1, DashboardInvariant, PTL

-----------------------------------------------------------------------------
(* A call of get_dashboard_data comes to its end.                                *)

SectionLeft(next) == [s \in DOMAIN Sections |-> Len(Sections[s]) + 1 - next[s]]

\* More steps than a call still can take: its queries left, and the last step.
ReaderLeft(r) ==
  IF Stage(r, "generating") THEN SumFunction(SectionLeft(reader[r].next)) + 1 ELSE 0

ReadersRunOut ==
  [][\A r \in Readers :
       /\ DashboardStep(r) => ReaderLeft(r)' < ReaderLeft(r)
       /\ Stage(r, "generating") => reader'[r] = reader[r] \/ ReaderLeft(r)' < ReaderLeft(r)]_vars

\* Places of the sections
Places(next) ==
  /\ next \in [DOMAIN Sections -> Nat]
  /\ \A s \in DOMAIN Sections : next[s] \in 1..Len(Sections[s]) + 1

LEMMA SectionsFinite == IsFiniteSet(DOMAIN Sections) /\ \A s \in DOMAIN Sections : Len(Sections[s]) \in Nat
<1>1. IsFiniteSet(DOMAIN AllSections)
  <2>1. DOMAIN AllSections = {"overview", "rate_limits", "endpoints", "alerts", "queue", "performance", "usage_trends"}
    BY DEF AllSections
  <2>2. \A x : IsFiniteSet({x})
    BY FS_Singleton
  <2>3. \A S, T : IsFiniteSet(S) /\ IsFiniteSet(T) => IsFiniteSet(S \cup T)
    BY FS_Union
  <2>4. IsFiniteSet({"overview"} \cup ({"rate_limits"} \cup ({"endpoints"} \cup ({"alerts"} \cup
                    ({"queue"} \cup ({"performance"} \cup {"usage_trends"}))))))
    BY ONLY <2>2, <2>3, Zenon
  <2>5. DOMAIN AllSections =
          {"overview"} \cup ({"rate_limits"} \cup ({"endpoints"} \cup ({"alerts"} \cup
          ({"queue"} \cup ({"performance"} \cup {"usage_trends"})))))
    BY <2>1
  <2> QED BY <2>4, <2>5
<1>2. IsFiniteSet(DOMAIN Sections)
  BY <1>1, FS_Subset, DashboardAssumption
<1> QED BY <1>2, DashboardAssumption

\* A section that goes on, or ends, leaves less to do.
LEMMA LessLeft ==
  ASSUME NEW next, Places(next), NEW more, Places(more), NEW t \in DOMAIN Sections,
         next[t] < more[t], \A s \in DOMAIN Sections \ {t} : more[s] = next[s]
  PROVE  SumFunction(SectionLeft(more)) < SumFunction(SectionLeft(next))
<1>1. ASSUME NEW places, Places(places)
      PROVE  /\ SectionLeft(places) \in [DOMAIN Sections -> Nat]
             /\ SumFunction(SectionLeft(places)) \in Nat
  <2>1. SectionLeft(places) \in [DOMAIN Sections -> Nat]
    BY <1>1, SectionsFinite DEF SectionLeft, Places
  <2> QED BY <2>1, SectionsFinite, SumStep DEF SumFunction
<1> DEFINE before == SectionLeft(next)
           after == SectionLeft(more)
<1>2. before \in [DOMAIN Sections -> Nat] /\ after \in [DOMAIN Sections -> Nat]
  BY <1>1
<1>3. \A s \in DOMAIN Sections \ {t} : after[s] = before[s]
  BY DEF SectionLeft
<1>4. after[t] < before[t]
  BY SectionsFinite DEF SectionLeft, Places
<1>5. SumFunction(before) \in Nat /\ SumFunction(after) \in Nat
  BY <1>1
<1>6. before[t] \in Nat /\ after[t] \in Nat
  BY <1>2
<1> HIDE DEF before, after
<1>7. SumFunction(after) = SumFunction(before) - before[t] + after[t]
  <2> DEFINE D == DOMAIN Sections
  <2>1. /\ IsFiniteSet(D) /\ t \in D /\ before \in [D -> Nat] /\ after \in [D -> Nat]
        /\ \A x \in D \ {t} : after[x] = before[x]
    BY <1>2, <1>3, SectionsFinite
  <2> HIDE DEF D
  <2> QED BY ONLY <2>1, SumChanged
<1>8. SumFunction(after) < SumFunction(before)
  BY ONLY <1>4, <1>5, <1>6, <1>7
<1> QED BY <1>8 DEF before, after

LEMMA LeftIsNumber ==
  ASSUME NEW next, Places(next)
  PROVE  SumFunction(SectionLeft(next)) \in Nat
<1>1. SectionLeft(next) \in [DOMAIN Sections -> Nat]
  BY SectionsFinite DEF SectionLeft, Places
<1> QED BY <1>1, SectionsFinite, SumStep DEF SumFunction

LEMMA ReaderSteps ==
  ASSUME DashboardInv, NEW r \in Readers, DashboardStep(r)
  PROVE  /\ ReaderLeft(r)' < ReaderLeft(r)
         /\ \A q \in Readers \ {r} : reader'[q] = reader[q]
<1>1. Stage(r, "generating") /\ Generating(r) /\ reader = [q \in Readers |-> reader[q]]
  <2>1. Stage(r, "generating")
    BY DEF DashboardStep, RunQuery, FailQuery, Store, GiveUp, Complete
  <2> QED BY <2>1 DEF DashboardInv, ReaderSound, Stage, Waiting, Returned, Failed
<1> DEFINE next == reader[r].next
           left == SumFunction(SectionLeft(next))
<1>2. Places(next)
  BY <1>1 DEF Generating, Places
<1>3. left \in Nat /\ ReaderLeft(r) = left + 1
  BY <1>1, <1>2, LeftIsNumber DEF ReaderLeft
<1>4. ASSUME NEW s \in DOMAIN Sections, RunQuery(r, s) \/ FailQuery(r, s)
      PROVE  /\ ReaderLeft(r)' < ReaderLeft(r)
             /\ \A q \in Readers \ {r} : reader'[q] = reader[q]
  <2> DEFINE n == IF RunQuery(r, s) THEN next[s] + 1 ELSE Len(Sections[s]) + 1
             more == [next EXCEPT ![s] = n]
  <2>1. next[s] \in 1..Len(Sections[s]) + 1 /\ next[s] <= Len(Sections[s]) /\ Len(Sections[s]) \in Nat
    BY <1>2, <1>4, SectionsFinite DEF RunQuery, FailQuery, Pending, Places
  <2>2. n \in Nat /\ n \in 1..Len(Sections[s]) + 1 /\ next[s] < n
    BY <2>1
  <2>3. \E to : /\ reader' = [reader EXCEPT ![r] = to]
                /\ to.stage = "generating" /\ to.next = more
    <3>0. reader[r] = [stage |-> "generating", started |-> reader[r].started, known |-> reader[r].known,
                       next |-> reader[r].next, failed |-> reader[r].failed, read |-> reader[r].read]
      BY <1>1 DEF Generating
    <3>1. CASE RunQuery(r, s)
      <4> DEFINE query == Sections[s][next[s]]
                 m == next[s] + 1
      <4>1. PICK rows \in Answers(query) :
              reader' = [reader EXCEPT ![r].next[s] = @ + 1, ![r].read = With(@, query, rows)]
        BY <3>1 DEF RunQuery
      <4> DEFINE read == With(reader[r].read, query, rows)
                 to == ReadOn(reader[r], s, m, read)
      <4>2. reader' = [reader EXCEPT ![r] = to]
        BY <1>1, <4>1 DEF ReadOn
      <4> HIDE DEF m, read
      <4>3. to.stage = "generating" /\ to.next = [next EXCEPT ![s] = m]
        BY <3>0, RecordReadOn
      <4>4. m = n
        BY <3>1 DEF m
      <4> HIDE DEF to
      <4> QED BY <4>2, <4>3, <4>4
    <3>2. CASE ~RunQuery(r, s)
      <4> DEFINE m == Len(Sections[s]) + 1
                 end == TRUE
                 to == EndedAt(reader[r], s, m, end)
      <4>1. reader' = [reader EXCEPT ![r] = to]
        BY <1>1, <1>4, <3>2 DEF FailQuery, EndedAt
      <4> HIDE DEF m, end
      <4>2. to.stage = "generating" /\ to.next = [next EXCEPT ![s] = m]
        BY <3>0, RecordEnded
      <4>3. m = n
        BY <3>2 DEF m
      <4> HIDE DEF to
      <4> QED BY <4>1, <4>2, <4>3
    <3> QED BY <3>1, <3>2
  <2> HIDE DEF n
  <2>4. PICK to : reader' = [reader EXCEPT ![r] = to] /\ to.stage = "generating" /\ to.next = more
    BY <2>3
  <2>5. Places(more) /\ more[s] = n /\ \A t \in DOMAIN Sections \ {s} : more[t] = next[t]
    BY <1>2, <2>2 DEF Places
  <2> HIDE DEF more, next
  <2>6. SumFunction(SectionLeft(more)) < left
    BY <1>2, <2>2, <2>5, LessLeft
  <2>7. SumFunction(SectionLeft(more)) \in Nat
    BY <2>5, LeftIsNumber
  <2>8. reader'[r] = to /\ \A q \in Readers \ {r} : reader'[q] = reader[q]
    BY <1>1, <2>4
  <2>9. ReaderLeft(r)' = SumFunction(SectionLeft(more)) + 1
    BY <2>4, <2>8 DEF ReaderLeft, Stage
  <2> HIDE DEF left
  <2> QED BY <1>3, <2>6, <2>7, <2>8, <2>9
<1>5. CASE Store(r) \/ GiveUp(r)
  <2>1. reader' = [reader EXCEPT ![r] = Returned] \/ reader' = [reader EXCEPT ![r] = Failed]
    BY <1>5 DEF Store, GiveUp
  <2>2. /\ reader'[r] \in {Returned, Failed}
        /\ \A q \in Readers \ {r} : reader'[q] = reader[q]
    BY <1>1, <2>1
  <2>3. ReaderLeft(r)' = 0
    BY <2>2 DEF ReaderLeft, Stage, Returned, Failed
  <2> QED BY <1>3, <2>2, <2>3
<1> QED BY <1>4, <1>5 DEF DashboardStep

\* Every step of a call of get_dashboard_data brings it closer to its return, and nothing
\* that is recorded, cleaned up, read or lost meanwhile takes it further away: it has a
\* step for each query of its sections, and one more (usage_dashboard.rs 140-191).
THEOREM ReadersComeToAnEnd == DashboardSpec => ReadersRunOut
<1> DEFINE RunOut == \A r \in Readers :
              /\ DashboardStep(r) => ReaderLeft(r)' < ReaderLeft(r)
              /\ Stage(r, "generating") => reader'[r] = reader[r] \/ ReaderLeft(r)' < ReaderLeft(r)
<1>1. DashboardInv => [DashboardNext => RunOut]_vars
  <2> SUFFICES ASSUME DashboardInv, DashboardNext, NEW r \in Readers, Stage(r, "generating")
               PROVE  reader'[r] = reader[r] \/ ReaderLeft(r)' < ReaderLeft(r)
    BY ReaderSteps DEF DashboardStep, RunQuery, FailQuery, Store, GiveUp, Complete
  <2>1. CASE UNCHANGED dashboardVars
    BY <2>1 DEF dashboardVars
  <2>2. ASSUME NEW q \in Readers, NEW force, ReadCache(q) \/ Generate(q, force)
        PROVE  reader'[r] = reader[r]
    <3>1. q # r
      BY <2>2 DEF ReadCache, Generate, Stage
    <3>2. \E to : reader' = [reader EXCEPT ![q] = to]
      BY <2>2 DEF ReadCache, Generate
    <3> QED BY <3>1, <3>2 DEF DashboardInv
  <2>3. ASSUME NEW q \in Readers, DashboardStep(q)
        PROVE  reader'[r] = reader[r] \/ ReaderLeft(r)' < ReaderLeft(r)
    BY <2>3, ReaderSteps
  <2>4. CASE CrashAll
    <3>1. reader'[r] = Failed
      BY <2>4 DEF CrashAll, Stage, Waiting
    <3>2. ReaderLeft(r)' = 0
      BY <3>1 DEF ReaderLeft, Stage, Failed
    <3>3. Generating(r)
      BY DEF DashboardInv, ReaderSound, Stage, Waiting, Returned, Failed
    <3>4. Places(reader[r].next)
      BY <3>3 DEF Generating, Places
    <3>5. ReaderLeft(r) = SumFunction(SectionLeft(reader[r].next)) + 1
      BY DEF ReaderLeft
    <3> QED BY <3>2, <3>4, <3>5, LeftIsNumber
  <2> QED BY <2>1, <2>2, <2>3, <2>4 DEF DashboardNext
<1> QED BY <1>1, DashboardInvariant, PTL DEF DashboardSpec, ReadersRunOut

-----------------------------------------------------------------------------
(* What the sections of a dashboard show of the same tables *)

\* Finitely many members have finitely many values.
LEMMA FiniteImage ==
  ASSUME NEW S, IsFiniteSet(S), NEW f
  PROVE  IsFiniteSet({f[x] : x \in S})
<1> DEFINE g == [x \in S |-> f[x]]
           T == {f[x] : x \in S}
<1>1. g \in Surjection(S, T)
  BY DEF Surjection
<1> QED BY <1>1, FS_Surjection

\* Two parts of a set count what it counts.
LEMMA TwoDisjoint ==
  ASSUME NEW S, NEW A, NEW B, IsFiniteSet(S), S = A \cup B, A \cap B = {}
  PROVE  Cardinality(A) \in Nat /\ Cardinality(B) \in Nat /\ Cardinality(S) = Cardinality(A) + Cardinality(B)
<1>1. IsFiniteSet(A) /\ IsFiniteSet(B)
  BY FS_Subset
<1>2. Cardinality(A) \in Nat /\ Cardinality(B) \in Nat
  BY <1>1, FS_CardinalityType
<1>3. Cardinality(A \cup B) = Cardinality(A) + Cardinality(B) - Cardinality(A \cap B)
  BY <1>1, FS_Union
<1>4. Cardinality(S) = Cardinality(A) + Cardinality(B) - 0
  BY <1>3, FS_EmptySet
<1> QED BY <1>2, <1>4

\* The library's minimum, of two numbers.
LEMMA MinOfTwo ==
  ASSUME NEW a \in Int, NEW b \in Int
  PROVE  Min({a, b}) = IF a <= b THEN a ELSE b
BY DEF Min

\* An answered call succeeded or failed.
LEMMA AnsweredAreEither ==
  ASSUME NEW rows, IsFiniteSet(rows), \A k \in rows : k.request.status \in Nat
  PROVE  Totals(rows).ok + Totals(rows).failed = Cardinality(Answered(rows))
<1> DEFINE good == {k \in rows : Succeeded(k.request)}
           bad == FailedIn(rows)
           all == Answered(rows)
<1>1. all = good \cup bad /\ good \cap bad = {}
  BY DEF Succeeded, FailedIn, Answered, NoStatus
<1>2. IsFiniteSet(all)
  <2>1. all \in SUBSET rows
    BY DEF Answered
  <2> HIDE DEF all
  <2> QED BY <2>1, FS_Subset
<1>3. Totals(rows).ok = Cardinality(good) /\ Totals(rows).failed = Cardinality(bad)
  BY DEF Totals
<1> HIDE DEF good, bad, all
<1>4. Cardinality(all) = Cardinality(good) + Cardinality(bad)
  BY <1>1, <1>2, TwoDisjoint
<1> QED BY <1>3, <1>4 DEF all

\* The hours or days count each call once.
LEMMA PeriodsAddUp ==
  ASSUME NEW rows, IsFiniteSet(rows), NEW length
  PROVE  SumFunction(PerPeriod(rows, length)) = Cardinality(rows)
<1> DEFINE key == [k \in rows |-> PeriodOf(k, length)]
           starts == {key[k] : k \in rows}
           count == PerPeriod(rows, length)
<1>1. \A k \in rows : key[k] = PeriodOf(k, length)
  OBVIOUS
<1>2. starts = {PeriodOf(k, length) : k \in rows}
  BY <1>1
<1>3. DOMAIN count = starts
  BY <1>2 DEF PerPeriod
<1>4. \A d \in starts : count[d] = Cardinality({k \in rows : key[k] = d})
  <2> SUFFICES ASSUME NEW d \in starts
               PROVE  count[d] = Cardinality({k \in rows : key[k] = d})
    OBVIOUS
  <2>1. {k \in rows : key[k] = d} = {k \in rows : PeriodOf(k, length) = d}
    BY <1>1
  <2>2. count[d] = Cardinality({k \in rows : PeriodOf(k, length) = d})
    BY <1>2 DEF PerPeriod
  <2> QED BY <2>1, <2>2
<1>5. HasKey(rows, key, starts) = rows /\ CountsByKey(count, rows, key, starts)
  BY <1>4 DEF HasKey, CountsByKey
<1> HIDE DEF key, count
<1>6. IsFiniteSet(starts)
  BY FiniteImage
<1> HIDE DEF starts
<1>7. SumFunctionOnSet(count, starts) = Cardinality(rows)
  BY <1>5, <1>6, SumCounts
<1> QED BY <1>3, <1>7 DEF SumFunction, count

\* The endpoints shown count each call to them once.
LEMMA EndpointsAddUp ==
  ASSUME NEW rows, IsFiniteSet(rows)
  PROVE  LET stats == EndpointStats(rows)
         IN SumFunction([e \in DOMAIN stats |-> stats[e].total]) = Cardinality(rows)
<1> DEFINE key == [k \in rows |-> k.request.endpoint]
           ends == {key[k] : k \in rows}
           stats == EndpointStats(rows)
           count == [e \in DOMAIN stats |-> stats[e].total]
<1>1. \A k \in rows : key[k] = k.request.endpoint
  OBVIOUS
<1>2. ends = EndpointsIn(rows)
  BY <1>1 DEF EndpointsIn
<1>3. DOMAIN count = ends
  BY <1>2 DEF EndpointStats
<1>4. \A d \in ends : count[d] = Cardinality({k \in rows : key[k] = d})
  <2> SUFFICES ASSUME NEW d \in ends
               PROVE  count[d] = Cardinality({k \in rows : key[k] = d})
    OBVIOUS
  <2>1. {k \in rows : key[k] = d} = OfEndpoint(rows, d)
    BY <1>1 DEF OfEndpoint
  <2>2. stats[d] = Totals(OfEndpoint(rows, d)) /\ d \in DOMAIN stats
    BY <1>2 DEF EndpointStats
  <2>3. Totals(OfEndpoint(rows, d)).total = Cardinality(OfEndpoint(rows, d))
    BY DEF Totals
  <2> HIDE DEF stats
  <2> QED BY <2>1, <2>2, <2>3
<1>5. HasKey(rows, key, ends) = rows /\ CountsByKey(count, rows, key, ends)
  BY <1>4 DEF HasKey, CountsByKey
<1> HIDE DEF key, count
<1>6. IsFiniteSet(ends)
  BY FiniteImage
<1> HIDE DEF ends
<1>7. SumFunctionOnSet(count, ends) = Cardinality(rows)
  BY <1>5, <1>6, SumCounts
<1> QED BY <1>3, <1>7 DEF SumFunction, count

\* No endpoint is left out unless there are more than the limit, and then some call is.
LEMMA BusiestAre ==
  ASSUME NEW all, IsFiniteSet(all), NEW rows \in BusiestEndpoints(all)
  PROVE  /\ IsFiniteSet(rows) /\ Cardinality(rows) \in Nat
         /\ Cardinality(rows) <= Cardinality(all)
         /\ Cardinality(rows) = Cardinality(all) <=> Cardinality(EndpointsIn(all)) <= EndpointLimit
<1> DEFINE ends == EndpointsIn(all)
<1>1. PICK top \in SUBSET ends :
        /\ Cardinality(top) = Min({EndpointLimit, Cardinality(ends)})
        /\ rows = {k \in all : k.request.endpoint \in top}
  BY DEF BusiestEndpoints, TopOf
<1>2. IsFiniteSet(ends)
  <2> DEFINE key == [k \in all |-> k.request.endpoint]
  <2>1. ends = {key[k] : k \in all}
    BY DEF EndpointsIn
  <2> HIDE DEF key, ends
  <2> QED BY <2>1, FiniteImage
<1>3. \A e \in ends : \E k \in all : k.request.endpoint = e
  BY DEF EndpointsIn
<1>4. \A k \in all : k.request.endpoint \in ends
  BY DEF EndpointsIn
<1> HIDE DEF ends
<1>5. IsFiniteSet(top) /\ Cardinality(top) \in Nat /\ Cardinality(ends) \in Nat
      /\ (Cardinality(top) = Cardinality(ends) => top = ends)
  BY <1>2, FS_Subset, FS_CardinalityType
<1>6. EndpointLimit \in Nat
  BY QueriesAssumption
<1>7. top = ends <=> Cardinality(ends) <= EndpointLimit
  BY <1>1, <1>5, <1>6, MinOfTwo
<1>8. rows \in SUBSET all /\ (rows = all <=> top = ends)
  BY <1>1, <1>3, <1>4
<1>9. IsFiniteSet(rows) /\ Cardinality(rows) <= Cardinality(all) /\ (Cardinality(all) = Cardinality(rows) => all = rows)
  BY <1>8, FS_Subset
<1>10. Cardinality(rows) \in Nat
  BY <1>9, FS_CardinalityType
<1> QED BY <1>7, <1>8, <1>9, <1>10 DEF ends

\* Enough calls to have an error rate are enough to be ranked.
LEMMA RatedAreRanked ==
  ASSUME NEW rows, IsFiniteSet(rows)
  PROVE  DOMAIN ErrorRates(rows) \subseteq DOMAIN Speeds(rows)
<1> SUFFICES ASSUME NEW e \in DOMAIN ErrorRates(rows)
             PROVE  e \in DOMAIN Speeds(rows)
  OBVIOUS
<1>1. e \in EndpointsIn(rows) /\ Cardinality(OfEndpoint(rows, e)) >= RatedFrom
  BY DEF ErrorRates
<1>2. Cardinality(OfEndpoint(rows, e)) \in Nat
  <2>1. OfEndpoint(rows, e) \in SUBSET rows
    BY DEF OfEndpoint
  <2>2. IsFiniteSet(OfEndpoint(rows, e))
    BY <2>1, FS_Subset
  <2> QED BY <2>2, FS_CardinalityType
<1>3. Cardinality(OfEndpoint(rows, e)) >= RankedFrom
  BY <1>1, <1>2, QueriesAssumption
<1> QED BY <1>1, <1>3 DEF Speeds

\* More windows have no lower peak.
LEMMA PeakGrows ==
  ASSUME NEW few, NEW all, few \subseteq all, IsFiniteSet(all), \A w \in all : w.requests \in Nat
  PROVE  Peak(few) <= Peak(all)
<1> DEFINE Of(rows) == {w.requests : w \in rows} \cup {0}
<1>1. Of(few) \subseteq Of(all) /\ Of(all) \subseteq Nat /\ 0 \in Of(few)
  OBVIOUS
<1>2. IsFiniteSet(Of(all))
  <2> DEFINE f == [w \in all |-> w.requests]
             T == {f[w] : w \in all}
  <2>1. Of(all) = T \cup {0}
    OBVIOUS
  <2>2. IsFiniteSet(T)
    <3> HIDE DEF f
    <3> QED BY FiniteImage
  <2> HIDE DEF T, Of
  <2>3. IsFiniteSet(T \cup {0})
    BY <2>2, FS_Singleton, FS_Union
  <2> QED BY <2>1, <2>3
<1>3. Peak(few) = Max(Of(few)) /\ Peak(all) = Max(Of(all))
  BY DEF Peak
<1> HIDE DEF Of
<1>4. IsFiniteSet(Of(few)) /\ Of(few) \subseteq Int /\ Of(few) # {}
  BY <1>1, <1>2, FS_Subset
<1>5. Of(all) \subseteq Int /\ Of(all) # {}
  BY <1>1
<1>6. Max(Of(few)) \in Of(few)
  BY <1>4, GreatestIn
<1>7. \A y \in Of(all) : Max(Of(all)) >= y
  BY <1>2, <1>5, GreatestIn
<1> QED BY <1>1, <1>3, <1>6, <1>7

\* The current window began within the last hour, so it is one of those whose peak
\* is shown (259-279, 306-333).
LEMMA CurrentIsBelowPeak ==
  ASSUME TrackerInv
  PROVE  RateLimits(CurrentWindow).requests <= Peak(WindowsAfter(now - HourLength))
<1> DEFINE late == {s \in DOMAIN windows : s > now - HourLength}
<1>1. now \in Nat /\ MaxTime \in Nat /\ HourLength \in Nat
  BY TrackerAssumption, MetricsAssumption DEF TrackerInv, TrackerTypeOK
<1>2. WindowOf(now) > now - HourLength
  BY <1>1, StartOfWindow, TrackerAssumption, QueriesAssumption
<1>3. DOMAIN windows \subseteq 0..MaxTime /\ \A s \in DOMAIN windows : windows[s].requests \in Nat
  BY DEF TrackerInv, TrackerTypeOK, Window
<1>4. IsFiniteSet(late)
  <2>1. IsFiniteSet(0..MaxTime)
    BY <1>1, FS_Interval
  <2>2. late \in SUBSET (0..MaxTime)
    BY <1>3
  <2> HIDE DEF late
  <2> DEFINE interval == 0..MaxTime
  <2> HIDE DEF interval
  <2>3. IsFiniteSet(interval) /\ late \in SUBSET interval
    BY <2>1, <2>2 DEF interval
  <2> QED BY <2>3, FS_Subset
<1> DEFINE row == [s \in late |-> WindowRow(s)]
           all == {row[s] : s \in late}
<1>5. WindowsAfter(now - HourLength) = all
  BY DEF WindowsAfter
<1>6. IsFiniteSet(all)
  <2> HIDE DEF row, late
  <2> QED BY <1>4, FiniteImage
<1>7. CurrentWindow \subseteq all
  BY <1>2 DEF CurrentWindow
<1>8. \A w \in all : w.requests \in Nat
  BY <1>3 DEF WindowRow
<1>9. RateLimits(CurrentWindow).requests = Peak(CurrentWindow)
  BY DEF RateLimits
<1> HIDE DEF all
<1> QED BY <1>5, <1>6, <1>7, <1>8, <1>9, PeakGrows

\* t is a response time at place i of them in order: at most i are less than it, and
\* more than i are not greater.
Faster(rows, t) == {k \in rows : k.request.time < t}
UpTo(rows, t) == {k \in rows : k.request.time <= t}
TimesOf(rows) == {k.request.time : k \in rows}
IsPercentile(rows, i, t) ==
  t \in TimesOf(rows) /\ Cardinality(Faster(rows, t)) <= i /\ i < Cardinality(UpTo(rows, t))

\* Counts of rows by their response time are numbers, and grow with it.
LEMMA CountsByTime ==
  ASSUME NEW rows, IsFiniteSet(rows), \A k \in rows : k.request.time \in Nat
  PROVE  \A t, u \in Nat :
           /\ Cardinality(Faster(rows, t)) \in Nat /\ Cardinality(UpTo(rows, t)) \in Nat
           /\ t < u => Cardinality(UpTo(rows, t)) <= Cardinality(Faster(rows, u))
<1> SUFFICES ASSUME NEW t \in Nat, NEW u \in Nat
             PROVE  /\ Cardinality(Faster(rows, t)) \in Nat /\ Cardinality(UpTo(rows, t)) \in Nat
                    /\ t < u => Cardinality(UpTo(rows, t)) <= Cardinality(Faster(rows, u))
  OBVIOUS
<1>1. \A v \in Nat : Faster(rows, v) \in SUBSET rows /\ UpTo(rows, v) \in SUBSET rows
  BY DEF Faster, UpTo
<1>2. \A v \in Nat : IsFiniteSet(Faster(rows, v)) /\ IsFiniteSet(UpTo(rows, v))
  BY <1>1, FS_Subset
<1>3. t < u => UpTo(rows, t) \in SUBSET Faster(rows, u)
  BY DEF Faster, UpTo
<1>4. t < u => Cardinality(UpTo(rows, t)) <= Cardinality(Faster(rows, u))
  BY <1>2, <1>3, FS_Subset
<1> QED BY <1>2, <1>4, FS_CardinalityType

\* A finite set of numbers has a least.
LEMMA LeastIn ==
  ASSUME NEW S, IsFiniteSet(S), S \subseteq Nat, S # {}
  PROVE  \E x \in S : \A y \in S : x <= y
<1> DEFINE minus == [x \in S |-> 0 - x]
           T == {minus[x] : x \in S}
<1>1. IsFiniteSet(T)
  <2> HIDE DEF minus
  <2> QED BY FiniteImage
<1>2. T \subseteq Int /\ T # {}
  OBVIOUS
<1>3. Max(T) \in T /\ \A y \in T : Max(T) >= y
  <2> HIDE DEF T
  <2> QED BY <1>1, <1>2, GreatestIn
<1>4. PICK x \in S : Max(T) = 0 - x
  BY <1>3
<1>5. \A y \in S : 0 - x >= 0 - y
  BY <1>3, <1>4
<1>6. \A y \in S : x <= y
  BY <1>5
<1> QED BY <1>6

\* There is a response time at every place of them in order (838-853).
LEMMA PercentileExists ==
  ASSUME NEW rows, IsFiniteSet(rows), \A k \in rows : k.request.time \in Nat,
         NEW i \in Nat, i < Cardinality(rows)
  PROVE  \E t : IsPercentile(rows, i, t)
<1> DEFINE times == TimesOf(rows)
           enough == {t \in times : i < Cardinality(UpTo(rows, t))}
<1>1. times \subseteq Nat /\ IsFiniteSet(times)
  <2> DEFINE time == [k \in rows |-> k.request.time]
  <2>1. times = {time[k] : k \in rows}
    BY DEF TimesOf
  <2>2. IsFiniteSet({time[k] : k \in rows})
    <3> HIDE DEF time
    <3> QED BY FiniteImage
  <2>3. times \subseteq Nat
    BY DEF TimesOf
  <2> QED BY <2>1, <2>2, <2>3
<1>2. \A k \in rows : k.request.time \in times
  BY DEF TimesOf
<1>3. rows # {}
  BY FS_EmptySet
<1>4. \A t \in times : \E k \in rows : k.request.time = t
  BY DEF TimesOf
<1> HIDE DEF times
<1>5. times \subseteq Int /\ times # {}
  BY <1>1, <1>2, <1>3
<1>6. Max(times) \in enough
  <2>1. Max(times) \in times /\ \A t \in times : Max(times) >= t
    BY <1>1, <1>5, GreatestIn
  <2>2. UpTo(rows, Max(times)) = rows
    BY <1>2, <2>1 DEF UpTo
  <2> QED BY <2>1, <2>2
<1>7. enough \in SUBSET times
  OBVIOUS
<1>8. PICK t \in enough : \A u \in enough : t <= u
  <2> HIDE DEF enough
  <2>1. IsFiniteSet(enough) /\ enough \subseteq Nat /\ enough # {}
    BY <1>1, <1>6, <1>7, FS_Subset
  <2> QED BY <2>1, LeastIn
<1>9. t \in times /\ t \in Nat /\ i < Cardinality(UpTo(rows, t))
  BY <1>1, <1>8
<1>10. Cardinality(Faster(rows, t)) <= i
  <2> DEFINE less == {u \in times : u < t}
  <2>1. CASE less = {}
    <3>1. Faster(rows, t) = {}
      BY <1>2, <2>1 DEF Faster
    <3> QED BY <3>1, FS_EmptySet
  <2>2. CASE less # {}
    <3>0. times \subseteq Int
      BY <1>1
    <3>1. less \in SUBSET times /\ less \subseteq Int
      BY <3>0
    <3>2. Max(less) \in less /\ \A u \in less : Max(less) >= u
      <4> HIDE DEF less
      <4>1. IsFiniteSet(less)
        BY <1>1, <3>1, FS_Subset
      <4> QED BY <2>2, <3>1, <4>1, GreatestIn
    <3> DEFINE u == Max(less)
    <3> HIDE DEF u
    <3>3. u \in times /\ u < t /\ u \in Nat /\ \A v \in times : v < t => u >= v
      BY <1>1, <3>2 DEF u
    <3>4. Faster(rows, t) = UpTo(rows, u)
      BY <1>2, <1>9, <3>3 DEF Faster, UpTo
    <3>5. u \notin enough
      BY <1>8, <1>9, <3>3
    <3>6. ~(i < Cardinality(UpTo(rows, u)))
      BY <3>3, <3>5
    <3>7. Cardinality(UpTo(rows, u)) \in Nat
      BY <3>3, CountsByTime
    <3> QED BY <3>4, <3>6, <3>7
  <2> QED BY <2>1, <2>2
<1> QED BY <1>9, <1>10 DEF IsPercentile, times

\* The percentile shown is the response time at its place.
LEMMA PercentileIs ==
  ASSUME NEW rows, IsFiniteSet(rows), \A k \in rows : k.request.time \in Nat, rows # {},
         NEW percent \in 0..99
  PROVE  LET i == (Cardinality(rows) * percent) \div 100
         IN i \in Nat /\ IsPercentile(rows, i, Percentile(rows, percent))
<1> DEFINE n == Cardinality(rows)
           i == (n * percent) \div 100
<1>1. n \in Nat /\ n # 0
  BY FS_CardinalityType, FS_EmptySet
<1> HIDE DEF n
<1>2. i \in Nat /\ i < n
  BY <1>1
<1>3. \E t : IsPercentile(rows, i, t)
  <2> HIDE DEF i
  <2> QED BY <1>2, PercentileExists DEF n
<1>4. Percentile(rows, percent) = CHOOSE t \in TimesOf(rows) : IsPercentile(rows, i, t)
  <2>1. Percentile(rows, percent) =
          IF i >= n THEN 0
          ELSE CHOOSE t \in TimesOf(rows) :
                 /\ Cardinality({k \in rows : k.request.time < t}) <= i
                 /\ i < Cardinality({k \in rows : k.request.time <= t})
    BY DEF Percentile, n, TimesOf
  <2> HIDE DEF i
  <2>2. ~(i >= n)
    BY <1>1, <1>2
  <2> QED BY <2>1, <2>2 DEF IsPercentile, Faster, UpTo
<1> HIDE DEF i
<1>5. \E t \in TimesOf(rows) : IsPercentile(rows, i, t)
  BY <1>3 DEF IsPercentile
<1>6. IsPercentile(rows, i, Percentile(rows, percent))
  BY <1>4, <1>5
<1> QED BY <1>2, <1>6 DEF i, n

\* A higher percentile is no shorter a response time.
LEMMA PercentilesInOrder ==
  ASSUME NEW rows, IsFiniteSet(rows), \A k \in rows : k.request.time \in Nat,
         NEW low \in 0..99, NEW high \in 0..99, low <= high
  PROVE  /\ Percentile(rows, low) <= Percentile(rows, high)
         /\ rows # {} => Percentile(rows, low) \in TimesOf(rows)
<1>1. CASE rows = {}
  <2>1. \A percent \in {low, high} : (Cardinality(rows) * percent) \div 100 >= Cardinality(rows)
    <3>1. Cardinality(rows) = 0
      BY <1>1, FS_EmptySet
    <3> QED BY <3>1
  <2>2. Percentile(rows, low) = 0 /\ Percentile(rows, high) = 0
    BY <2>1 DEF Percentile
  <2> QED BY <1>1, <2>2
<1>2. CASE rows # {}
  <2> DEFINE n == Cardinality(rows)
             i == (n * low) \div 100
             j == (n * high) \div 100
             p == Percentile(rows, low)
             q == Percentile(rows, high)
  <2>1. i \in Nat /\ IsPercentile(rows, i, p)
    BY <1>2, PercentileIs
  <2>2. j \in Nat /\ IsPercentile(rows, j, q)
    BY <1>2, PercentileIs
  <2>3. i <= j
    <3>1. n \in Nat
      BY FS_CardinalityType
    <3> HIDE DEF n
    <3>2. \A d \in Nat : n * d \in Nat
      BY <3>1
    <3>3. high - low \in Nat /\ n * high = n * low + n * (high - low)
      BY <3>1
    <3> DEFINE a == n * low
               b == n * high
    <3>4. a \in Nat /\ b \in Nat /\ a <= b
      BY <3>2, <3>3
    <3> HIDE DEF a, b
    <3>5. a \div 100 <= b \div 100
      BY <3>4
    <3> QED BY <3>5 DEF a, b
  <2> HIDE DEF i, j, p, q
  <2>4. p \in TimesOf(rows) /\ q \in TimesOf(rows) /\ p \in Nat /\ q \in Nat
    BY <2>1, <2>2 DEF IsPercentile, TimesOf
  <2>5. ~(q < p)
    <3> SUFFICES ASSUME q < p
                 PROVE  FALSE
      OBVIOUS
    <3>1. Cardinality(UpTo(rows, q)) <= Cardinality(Faster(rows, p))
          /\ Cardinality(UpTo(rows, q)) \in Nat /\ Cardinality(Faster(rows, p)) \in Nat
      BY <2>4, CountsByTime
    <3> QED BY <2>1, <2>2, <2>3, <3>1 DEF IsPercentile
  <2> QED BY <2>4, <2>5 DEF p, q
<1> QED BY <1>1, <1>2

\* The tracker's invariant makes the sections agree.
LEMMA SectionsFromTables ==
  ASSUME TrackerInv
  PROVE  SectionsAgree
<1> DEFINE day == InLastDay
           answered == Answered(day)
           totals == Totals(day)
<1>1. IsFiniteSet(day) /\ \A k \in day : k.request.status \in Nat /\ k.request.time \in Nat
  <2>1. \A k \in Call : k.request \in Requests
    BY DEF Call
  <2>2. \A k \in Call : k.request.status \in Nat /\ k.request.time \in Nat
    BY <2>1, TrackerAssumption
  <2>3. calls \subseteq Call /\ IsFiniteSet(calls)
    BY DEF TrackerInv, TrackerTypeOK, CallsKnown
  <2>4. day \in SUBSET calls
    BY DEF InLastDay
  <2> QED BY <2>2, <2>3, <2>4, FS_Subset
<1>2. answered \in SUBSET day
  BY DEF Answered
<1>3. HourlyRows = day
  BY DEF HourlyRows, InLastDay
<1> HIDE DEF day
<1>4. IsFiniteSet(answered) /\ \A k \in answered : k.request.time \in Nat
  BY <1>1, <1>2, FS_Subset
<1>5. totals.ok + totals.failed = Cardinality(answered)
  BY <1>1, AnsweredAreEither
<1>6. totals.total = Cardinality(day)
  BY DEF Totals
<1>7. SumFunction(PerPeriod(HourlyRows, HourLength)) = totals.total
  BY <1>1, <1>3, <1>6, PeriodsAddUp
<1>8. ASSUME NEW rows \in Answers("endpoints")
      PROVE  LET stats == EndpointStats(rows)
                 shown == SumFunction([e \in DOMAIN stats |-> stats[e].total])
             IN /\ shown <= totals.total
                /\ shown = totals.total <=> Cardinality(EndpointsIn(day)) <= EndpointLimit
  <2>1. rows \in BusiestEndpoints(day)
    BY <1>8 DEF day, Answers
  <2>2. /\ IsFiniteSet(rows) /\ Cardinality(rows) <= Cardinality(day)
        /\ Cardinality(rows) = Cardinality(day) <=> Cardinality(EndpointsIn(day)) <= EndpointLimit
    BY <1>1, <2>1, BusiestAre
  <2> DEFINE stats == EndpointStats(rows)
             shown == SumFunction([e \in DOMAIN stats |-> stats[e].total])
  <2>3. shown = Cardinality(rows)
    BY <2>2, EndpointsAddUp
  <2> HIDE DEF shown, stats
  <2>4. shown <= totals.total /\ (shown = totals.total <=> Cardinality(EndpointsIn(day)) <= EndpointLimit)
    BY <1>6, <2>2, <2>3
  <2> QED BY <2>4 DEF shown, stats
<1>9. RateLimits(CurrentWindow).requests <= Peak(WindowsAfter(now - HourLength))
  BY CurrentIsBelowPeak
<1>10. DOMAIN ErrorRates(answered) \subseteq DOMAIN Speeds(answered)
  BY <1>4, RatedAreRanked
<1> DEFINE p50 == Percentile(answered, 50)
           p95 == Percentile(answered, 95)
           p99 == Percentile(answered, 99)
<1>11. /\ p50 <= p95 /\ p95 <= p99
       /\ answered # {} => {p50, p95, p99} \subseteq {k.request.time : k \in answered}
  <2> HIDE DEF answered
  <2>1. {50, 95, 99} \subseteq 0..99 /\ 50 <= 95 /\ 95 <= 99 /\ 99 <= 99
    OBVIOUS
  <2>2. p50 <= p95 /\ (answered # {} => p50 \in TimesOf(answered))
    BY <1>4, <2>1, PercentilesInOrder
  <2>3. p95 <= p99 /\ (answered # {} => p95 \in TimesOf(answered))
    BY <1>4, <2>1, PercentilesInOrder
  <2>4. answered # {} => p99 \in TimesOf(answered)
    BY <1>4, <2>1, PercentilesInOrder
  <2> QED BY <2>2, <2>3, <2>4 DEF TimesOf
<1> HIDE DEF answered, totals, p50, p95, p99
<1> QED BY <1>5, <1>7, <1>8, <1>9, <1>10, <1>11
    DEF SectionsAgree, answered, totals, p50, p95, p99, day

\* The sections that nothing disturbs agree in every state, for any tables the tracker
\* can come to, any sets of calls and endpoints and any limits of the queries.
THEOREM SectionsShowTheSame == TrackerSpec => []SectionsAgree
BY SectionsFromTables, TrackerInvariant, PTL

\* A dashboard takes none of this away: its steps are the tracker's, or leave the tables
\* alone, so they agree, and cleanups go unseen, while any number of readers is served.
THEOREM TablesAgreeInDashboard == DashboardSpec => [](RecordsAgree /\ SectionsAgree) /\ CleanupIsInvisible
<1>1. DashboardInv => RecordsAgree /\ SectionsAgree
  BY SectionsFromTables DEF DashboardInv, TrackerInv, RecordsAgree
<1> DEFINE Invisible ==
      cleaner' # cleaner /\ tables' # tables =>
        \A s \in DOMAIN AllSections : \A i \in DOMAIN AllSections[s] :
          Answers(AllSections[s][i])' = Answers(AllSections[s][i])
<1>2. DashboardInv /\ [DashboardNext]_vars => [Invisible]_trackerVars
  <2> SUFFICES ASSUME TrackerInv, TrackerMove, cleaner' # cleaner, tables' # tables, NEW query \in Queries
               PROVE  Answers(query)' = Answers(query)
    BY DashboardMovesTracker DEF DashboardInv, Queries, Range
  <2> QED BY InvisibleStep
<1> QED BY <1>1, <1>2, DashboardInvariant, PTL DEF DashboardSpec, CleanupIsInvisible
=============================================================================

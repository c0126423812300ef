------------------------- MODULE RateLimiterProofs -------------------------
(***************************************************************************)
(* Theorems about the rate limiter, for any number of tasks, any burst and *)
(* cost, and any delay between a task's steps.                             *)
(***************************************************************************)
EXTENDS RateLimiter, FiniteSetTheorems, SequenceTheorems, TLAPS

USE ConfigAssumption

LEMMA FullFacts == Full \in Nat /\ Window \in Nat /\ Enough \in Nat /\ Full >= Cost
<1>1. Full \in Nat /\ Window \in Nat
  BY DEF Full, Window
<1>2. Full >= Cost
  BY DEF Full
<1> QED
  BY <1>1, <1>2 DEF Enough

LEMMA LesserFacts ==
  ASSUME NEW m \in Int, NEW n \in Int
  PROVE  /\ Lesser(m, n) \in Int /\ Lesser(m, n) <= m /\ Lesser(m, n) <= n
         /\ Lesser(m, n) = m \/ Lesser(m, n) = n
BY DEF Lesser

\* What the status reads and what acquire refills is a bucket again.
LEMMA RefillFacts ==
  ASSUME TypeOK, NEW age \in Nat, age <= MaxDelay, RefillWith(age)
  PROVE  tokens' \in 0..Full /\ since' \in 0..Enough /\ overtaken' \in BOOLEAN
BY FullFacts DEF TypeOK, RefillWith, Refilled, Elapsed, Stamp, Lesser, Greater, Enough

\* One task goes to a stage: the function keeps its type.
LEMMA GotoFacts ==
  ASSUME task \in [Tasks -> Locals], NEW t \in Tasks, NEW stage \in Stages,
         NEW timer \in Nat, Goto(t, stage, timer)
  PROVE  task' \in [Tasks -> Locals]
BY DEF Goto, Locals

\* Dropping a permit touches the task that drops it and the one that gets it.
LEMMA DropFacts ==
  ASSUME TypeOK, NEW t \in Tasks, Drop(t)
  PROVE  \A u \in Tasks : task'[u] = task[u] \/ task'[u].stage \in {"idle", "ready"}
<1>1. task \in [Tasks -> Locals]
  BY DEF TypeOK
<1>2. CASE task' = [task EXCEPT ![t] = [stage |-> "idle", timer |-> 0]]
  BY <1>1, <1>2
<1>3. CASE task' = [task EXCEPT ![t] = [stage |-> "idle", timer |-> 0],
                                ![Head(line)] = [stage |-> "ready", timer |-> 0]]
  BY <1>1, <1>3
<1> QED
  BY <1>2, <1>3 DEF Drop, Goto

LEMMA InitIInv == Init => IInv
<1> SUFFICES ASSUME Init PROVE IInv
  OBVIOUS
<1> USE FullFacts
<1>1. TypeOK
  <2>1. task \in [Tasks -> Locals]
    BY DEF Init, Locals, Stages
  <2>2. tokens \in 0..Full /\ since \in 0..Enough /\ least \in 0..Full
    BY DEF Init
  <2>3. most \in -1..Full + MaxDelay
    BY DEF Init
  <2>4. window \in [age : 0..Window, count : Nat]
    BY DEF Init
  <2>5. free \in 0..Burst /\ line \in Seq(Tasks)
    BY DEF Init
  <2>6. overtaken \in BOOLEAN
    BY Zenon DEF Init
  <2> QED
    BY <2>1, <2>2, <2>3, <2>4, <2>5, <2>6 DEF TypeOK
<1>2. PermitsConserved
  <2>1. Owners = {}
    BY DEF Init, Owners
  <2> QED
    BY <2>1, FS_EmptySet DEF Init, PermitsConserved
<1>3. LineOfWaiting /\ ReadingsRecent /\ RateInv /\ NothingLost
  BY DEF Init, LineOfWaiting, ReadingsRecent, Readings, RateInv, NothingLost, At, Lesser
<1> QED
  BY <1>1, <1>2, <1>3 DEF IInv

-----------------------------------------------------------------------------
(* Types *)

\* Owners are finitely many, and an owner holds one of the permits.
LEMMA OwnerFacts ==
  /\ IsFiniteSet(Owners)
  /\ Cardinality(Owners) \in Nat
  /\ Owners # {} => Cardinality(Owners) > 0
<1>1. IsFiniteSet(Owners)
  BY FS_Subset DEF Owners
<1> QED
  BY <1>1, FS_EmptySet, FS_CardinalityType

LEMMA NextTypeOK ==
  ASSUME TypeOK, PermitsConserved, ReadingsRecent, [Next]_vars
  PROVE  TypeOK'
<1> USE FullFacts
<1>0. /\ \A t \in Tasks : task[t].timer \in Nat
      /\ \A t \in Tasks : task[t].stage \in Readings => task[t].timer <= MaxDelay
  BY DEF TypeOK, Locals, ReadingsRecent
<1>1. ASSUME NEW t \in Tasks, Enter(t) PROVE TypeOK'
  <2>1. task' \in [Tasks -> Locals]
    BY <1>1, GotoFacts DEF Enter, TypeOK, Stages
  <2>2. free' \in 0..Burst
    BY <1>1 DEF Enter, Remaining, TypeOK
  <2>3. line' \in Seq(Tasks)
    <3>1. line' = line \/ line' = Append(line, t)
      BY <1>1 DEF Enter
    <3>2. line \in Seq(Tasks)
      BY DEF TypeOK
    <3> QED
      BY ONLY <3>1, <3>2, t \in Tasks
  <2> QED
    BY <1>1, <2>1, <2>2, <2>3 DEF Enter, TypeOK, bucket, ideals
<1>2. ASSUME NEW t \in Tasks, ReadClock(t) \/ Wake(t) \/ AskStatus(t) PROVE TypeOK'
  <2>1. task' \in [Tasks -> Locals]
    BY <1>2, GotoFacts DEF ReadClock, Wake, AskStatus, TypeOK, Stages
  <2> QED
    BY <1>2, <2>1 DEF ReadClock, Wake, AskStatus, TypeOK, bucket, ideals
<1>3. ASSUME NEW t \in Tasks, Refill(t) \/ View(t) PROVE TypeOK'
  <2>1. task' \in [Tasks -> Locals]
    BY <1>0, <1>3, GotoFacts DEF Refill, View, TypeOK, Stages
  <2>2. tokens' \in 0..Full /\ since' \in 0..Enough /\ overtaken' \in BOOLEAN
    BY <1>0, <1>3, RefillFacts DEF Refill, View, Readings, At
  <2> QED
    BY <1>3, <2>1, <2>2 DEF Refill, View, TypeOK
<1>4. ASSUME NEW t \in Tasks, Take(t) PROVE TypeOK'
  <2>1. Greater(Cost - tokens, 0) \in Nat
    BY DEF TypeOK, Greater
  <2>2. task' \in [Tasks -> Locals]
    BY <1>4, <2>1, GotoFacts DEF Take, TypeOK, Stages
  <2>3. tokens' \in 0..Full
    BY <1>4 DEF Take, HasToken, Spent, TypeOK
  <2>4. most' \in -1..Full + MaxDelay /\ least' \in 0..Full
    BY <1>4 DEF Take, TypeOK, Greater
  <2> QED
    BY <1>4, <2>2, <2>3, <2>4 DEF Take, TypeOK
<1>5. ASSUME NEW t \in Tasks, Record(t) PROVE TypeOK'
  <2>1. task' \in [Tasks -> Locals]
    BY <1>5, GotoFacts DEF Record, TypeOK, Stages
  <2>2. CurrentWindow \in [age : 0..Window, count : Nat]
    BY DEF TypeOK, CurrentWindow
  <2>3. window' \in [age : 0..Window, count : Nat]
    BY <1>5, <2>2 DEF Record
  <2> QED
    BY <1>5, <2>1, <2>3 DEF Record, TypeOK, bucket, ideals
<1>6. ASSUME NEW t \in Tasks, Drop(t) PROVE TypeOK'
  <2>1. CASE line = << >>
    <3>1. task' \in [Tasks -> Locals]
      BY <1>6, <2>1, GotoFacts DEF Drop, TypeOK, Stages
    <3>2. free + 1 \in 0..Burst
      BY <1>6, OwnerFacts DEF Drop, At, Owners, PermitsConserved, TypeOK
    <3> QED
      BY <1>6, <2>1, <3>1, <3>2 DEF Drop, TypeOK, bucket, ideals
  <2>2. CASE line # << >>
    <3>1. Tail(line) \in Seq(Tasks)
      BY <2>2, HeadTailProperties DEF TypeOK
    <3>2. [stage |-> "idle", timer |-> 0] \in Locals /\ [stage |-> "ready", timer |-> 0] \in Locals
      BY DEF Locals, Stages
    <3>3. task' \in [Tasks -> Locals]
      BY <1>6, <2>2, <3>2 DEF Drop, TypeOK
    <3> QED
      BY <1>6, <2>2, <3>1, <3>3 DEF Drop, TypeOK, bucket, ideals
  <2> QED
    BY <2>1, <2>2
<1>7. CASE Tick
  <2>1. \A l \in Locals : Aged(l) \in Locals
    BY DEF Locals, Aged, Readings, Greater
  <2>2. task' \in [Tasks -> Locals]
    BY <1>7, <2>1 DEF Tick, TypeOK
  <2>3. window' \in [age : 0..Window, count : Nat]
    <3> DEFINE age == Lesser(window.age + 1, Window)
    <3>1. window.age + 1 \in Nat
      BY DEF TypeOK
    <3>2. age \in 0..Window
      BY <3>1 DEF Lesser
    <3>3. window' = [window EXCEPT !.age = age]
      BY <1>7 DEF Tick
    <3> HIDE DEF age
    <3> QED
      BY <3>2, <3>3 DEF TypeOK
  <2>4. since' \in 0..Enough /\ most' \in -1..Full + MaxDelay /\ least' \in 0..Full
    <3>1. since \in 0..Enough /\ most \in -1..Full + MaxDelay /\ least \in 0..Full
      BY DEF TypeOK
    <3>2. /\ since' = Lesser(since + 1, Enough)
          /\ most' = Lesser(most + 1, Full + MaxDelay)
          /\ least' = Lesser(least + 1, Full)
      BY <1>7 DEF Tick
    <3> QED
      BY <3>1, <3>2 DEF Lesser
  <2> QED
    BY <1>7, <2>2, <2>3, <2>4 DEF Tick, TypeOK
<1>8. CASE UNCHANGED vars
  BY <1>8 DEF vars, bucket, ideals, TypeOK
<1> QED
  BY <1>1, <1>2, <1>3, <1>4, <1>5, <1>6, <1>7, <1>8 DEF Next, TaskStep

-----------------------------------------------------------------------------
(* Permits *)

\* A step of one task that leaves the line and the free permits alone, and does
\* not enter or leave the stages of an owner.
LEMMA SamePermits ==
  ASSUME TypeOK, PermitsConserved, LineOfWaiting, UNCHANGED <<free, line>>,
         NEW t \in Tasks, NEW stage \in Stages, NEW timer \in Nat, Goto(t, stage, timer),
         ~At(t, "waiting"), t \in Owners <=> t \in Owners'
  PROVE  PermitsConserved' /\ LineOfWaiting'
<1>1. \A u \in Tasks : u # t => task'[u] = task[u]
  BY DEF Goto, TypeOK
<1>2. Owners' = Owners
  BY <1>1 DEF Owners
<1>3. \A i \in DOMAIN line : line[i] \in Tasks /\ line[i] # t
  BY ElementOfSeq DEF LineOfWaiting, TypeOK
<1>4. LineOfWaiting'
  BY <1>1, <1>3 DEF LineOfWaiting, At
<1> QED
  BY <1>2, <1>4 DEF PermitsConserved

LEMMA NextPermits ==
  ASSUME TypeOK, PermitsConserved, LineOfWaiting, ReadingsRecent, [Next]_vars
  PROVE  PermitsConserved' /\ LineOfWaiting'
<1>0. /\ IsFiniteSet(Owners) /\ Cardinality(Owners) \in Nat /\ free \in Nat
      /\ \A t \in Tasks : task[t].timer \in Nat
      /\ \A i \in DOMAIN line : line[i] \in Tasks
  BY OwnerFacts, ElementOfSeq DEF TypeOK, Locals
<1>1. ASSUME NEW t \in Tasks, Enter(t) PROVE PermitsConserved' /\ LineOfWaiting'
  <2>1. CASE free > 0
    <3>1. /\ \A u \in Tasks : u # t => task'[u] = task[u]
          /\ task'[t].stage = "ready"
      BY <1>1, <2>1 DEF Enter, Goto, TypeOK
    <3>2. Owners' = Owners \cup {t} /\ t \notin Owners
      BY <1>1, <3>1 DEF Enter, At, Owners
    <3>3. PermitsConserved'
      <4>1. Cardinality(Owners') = Cardinality(Owners) + 1
        BY <1>0, <3>2, FS_AddElement
      <4>2. free' = free - 1
        BY <1>1, <2>1 DEF Enter, Remaining
      <4> QED
        BY <1>0, <4>1, <4>2 DEF PermitsConserved
    <3>4. \A i \in DOMAIN line : line[i] # t
      BY <1>1 DEF Enter, At, LineOfWaiting
    <3>5. LineOfWaiting'
      BY <1>0, <1>1, <2>1, <3>1, <3>4 DEF Enter, LineOfWaiting, At
    <3> QED
      BY <3>3, <3>5
  <2>2. CASE free = 0
    <3>1. /\ \A u \in Tasks : u # t => task'[u] = task[u]
          /\ task'[t].stage = "waiting"
          /\ line' = Append(line, t) /\ free' = free
      BY <1>1, <2>2 DEF Enter, Goto, TypeOK
    <3>2. Owners' = Owners
      BY <1>1, <3>1 DEF Enter, At, Owners
    <3>3. /\ DOMAIN line = 1..Len(line) /\ DOMAIN line' = 1..Len(line) + 1
          /\ \A i \in 1..Len(line) : line'[i] = line[i]
          /\ line'[Len(line) + 1] = t /\ Len(line) \in Nat
      BY <3>1, AppendProperties, LenProperties DEF TypeOK
    <3>4. \A i \in DOMAIN line : line[i] # t
      BY <1>1 DEF Enter, At, LineOfWaiting
    <3>5. LineOfWaiting'
      BY <1>0, <3>1, <3>3, <3>4 DEF LineOfWaiting, At
    <3> QED
      BY <3>1, <3>2, <3>5 DEF PermitsConserved
  <2> QED
    BY <1>0, <2>1, <2>2
<1>2. ASSUME NEW t \in Tasks, ReadClock(t) \/ Refill(t) \/ Take(t) \/ Wake(t) \/ Record(t)
      PROVE  PermitsConserved' /\ LineOfWaiting'
  <2>1. PICK stage \in Stages, timer \in Nat : Goto(t, stage, timer) /\ stage \in
          {"ready", "refilling", "taking", "sleeping", "granted", "holding"}
    <3>1. Greater(Cost - tokens, 0) \in Nat
      BY FullFacts DEF TypeOK, Greater
    <3> QED
      BY <1>0, <1>2, <3>1 DEF ReadClock, Refill, Take, Wake, Record, Stages
  <2>2. /\ task'[t].stage = stage
        /\ task[t].stage \in {"ready", "refilling", "taking", "sleeping", "granted"}
    BY <1>2, <2>1 DEF ReadClock, Refill, Take, Wake, Record, At, Goto, TypeOK
  <2>3. t \in Owners /\ t \in Owners' /\ ~At(t, "waiting")
    BY <2>1, <2>2 DEF Owners, At
  <2>4. UNCHANGED <<free, line>>
    BY <1>2 DEF ReadClock, Refill, Take, Wake, Record
  <2> QED
    BY <2>1, <2>3, <2>4, SamePermits
<1>3. ASSUME NEW t \in Tasks, AskStatus(t) \/ View(t)
      PROVE  PermitsConserved' /\ LineOfWaiting'
  <2>1. PICK stage \in {"idle", "viewing"} : Goto(t, stage, 0)
    BY <1>3 DEF AskStatus, View
  <2>2. task'[t].stage = stage /\ task[t].stage \in {"idle", "viewing"}
    BY <1>3, <2>1 DEF AskStatus, View, At, Goto, TypeOK
  <2>3. t \notin Owners /\ t \notin Owners' /\ ~At(t, "waiting")
    BY <2>2 DEF Owners, At
  <2>4. UNCHANGED <<free, line>> /\ stage \in Stages
    BY <1>3, <2>1 DEF AskStatus, View, Stages
  <2> QED
    BY <2>1, <2>3, <2>4, SamePermits
<1>4. ASSUME NEW t \in Tasks, Drop(t) PROVE PermitsConserved' /\ LineOfWaiting'
  <2>1. CASE line = << >>
    <3>1. /\ \A u \in Tasks : u # t => task'[u] = task[u]
          /\ task'[t].stage = "idle" /\ free' = free + 1 /\ line' = << >>
      BY <1>4, <2>1 DEF Drop, Goto, TypeOK
    <3>2. Owners' = Owners \ {t} /\ t \in Owners
      BY <1>4, <3>1 DEF Drop, At, Owners
    <3>3. PermitsConserved'
      <4>1. Cardinality(Owners') = Cardinality(Owners) - 1
        BY <1>0, <3>2, FS_RemoveElement
      <4> QED
        BY <1>0, <3>1, <4>1 DEF PermitsConserved
    <3>4. LineOfWaiting'
      BY <3>1, EmptySeq DEF LineOfWaiting
    <3> QED
      BY <3>3, <3>4
  <2>2. CASE line # << >>
    <3> DEFINE h == Head(line)
    <3>1. /\ h \in Tasks /\ h = line[1] /\ 1 \in DOMAIN line
          /\ DOMAIN line = 1..Len(line) /\ DOMAIN line' = 1..Len(line) - 1
          /\ Len(line) \in Nat
          /\ \A i \in 1..Len(line) - 1 : line'[i] = line[i + 1]
      <4>1. line \in Seq(Tasks) /\ line' = Tail(line)
        BY <1>4, <2>2 DEF Drop, TypeOK
      <4>2. Len(line) \in Nat /\ Len(line) # 0 /\ DOMAIN line = 1..Len(line)
        BY <2>2, <4>1, EmptySeq, LenProperties
      <4>3. /\ Tail(line) \in Seq(Tasks) /\ Len(Tail(line)) = Len(line) - 1
            /\ \A i \in 1..Len(Tail(line)) : Tail(line)[i] = line[i + 1]
        BY <2>2, <4>1, HeadTailProperties
      <4>4. DOMAIN line' = 1..Len(line) - 1
        BY <4>1, <4>3, LenProperties
      <4>5. h = line[1] /\ h \in Tasks
        BY <2>2, <4>1, <4>2, HeadTailProperties
      <4> HIDE DEF h
      <4> QED
        BY <4>1, <4>2, <4>3, <4>4, <4>5
    <3>2. task[h].stage = "waiting" /\ task[t].stage = "holding"
      BY <1>4, <3>1 DEF Drop, At, LineOfWaiting
    <3> HIDE DEF h
    <3>3. /\ \A u \in Tasks \ {t, h} : task'[u] = task[u]
          /\ task'[t].stage = "idle" /\ task'[h].stage = "ready" /\ free' = free
      BY <1>4, <2>2, <3>1, <3>2 DEF Drop, TypeOK, h
    <3>4. Owners' = (Owners \ {t}) \cup {h} /\ t \in Owners /\ h \notin Owners
      BY <3>1, <3>2, <3>3 DEF Owners
    <3>5. PermitsConserved'
      <4>1. /\ IsFiniteSet(Owners \ {t})
            /\ Cardinality(Owners \ {t}) = Cardinality(Owners) - 1
        BY <1>0, <3>4, FS_RemoveElement
      <4>2. Cardinality((Owners \ {t}) \cup {h}) = Cardinality(Owners \ {t}) + 1
        BY <3>4, <4>1, FS_AddElement
      <4>3. Cardinality(Owners') = Cardinality(Owners)
        BY <1>0, <3>4, <4>1, <4>2
      <4> QED
        BY <3>3, <4>3 DEF PermitsConserved
    <3>6. \A i \in 1..Len(line) - 1 : line[i + 1] # h /\ line[i + 1] # t
      BY <3>1, <3>2 DEF LineOfWaiting, At
    <3>7. LineOfWaiting'
      <4>1. \A i \in DOMAIN line' : line'[i] = line[i + 1] /\ i + 1 \in DOMAIN line
        BY <3>1
      <4>2. \A i \in DOMAIN line' : task'[line'[i]].stage = "waiting"
        BY <1>0, <3>1, <3>3, <3>6, <4>1 DEF LineOfWaiting, At
      <4>3. \A i, j \in DOMAIN line' : line'[i] = line'[j] => i = j
        BY <3>1, <4>1 DEF LineOfWaiting
      <4> QED
        BY <4>2, <4>3 DEF LineOfWaiting, At
    <3> QED
      BY <3>5, <3>7
  <2> QED
    BY <2>1, <2>2
<1>5. CASE Tick
  <2>1. \A u \in Tasks : task'[u].stage = task[u].stage
    BY <1>5 DEF Tick, Aged, TypeOK, Locals
  <2>2. Owners' = Owners
    BY <2>1 DEF Owners
  <2>3. LineOfWaiting'
    BY <1>0, <1>5, <2>1 DEF Tick, LineOfWaiting, At
  <2> QED
    BY <1>5, <2>2, <2>3 DEF Tick, PermitsConserved
<1>6. CASE UNCHANGED vars
  BY <1>6 DEF vars, PermitsConserved, LineOfWaiting, Owners, At
<1> QED
  BY <1>1, <1>2, <1>3, <1>4, <1>5, <1>6 DEF Next, TaskStep

-----------------------------------------------------------------------------
(* The bucket against the ideal ones *)

LEMMA AgedFacts ==
  ASSUME NEW l \in Locals
  PROVE  /\ Aged(l).stage = l.stage
         /\ l.stage \in Readings => Aged(l).timer = l.timer + 1
<1>1. CASE l.stage \in Readings
  <2>1. Aged(l) = [l EXCEPT !.timer = l.timer + 1]
    BY <1>1 DEF Aged, Readings
  <2> QED
    BY <2>1 DEF Locals
<1>2. CASE l.stage = "sleeping"
  <2>1. Aged(l) = [l EXCEPT !.timer = Greater(l.timer - 1, 0)] /\ l.stage \notin Readings
    BY <1>2 DEF Aged, Readings
  <2> QED
    BY <2>1 DEF Locals
<1>3. CASE l.stage \notin Readings /\ l.stage # "sleeping"
  BY <1>3 DEF Aged
<1> QED
  BY <1>1, <1>2, <1>3

\* A clock reading is never older than MaxDelay.
LEMMA NextReadings ==
  ASSUME TypeOK, ReadingsRecent, [Next]_vars
  PROVE  ReadingsRecent'
<1>1. ASSUME NEW t \in Tasks, Enter(t) \/ ReadClock(t) \/ Wake(t) \/ AskStatus(t)
                \/ Refill(t) \/ Take(t) \/ Record(t) \/ View(t)
      PROVE  ReadingsRecent'
  <2>1. \A u \in Tasks : u # t => task'[u] = task[u]
    BY <1>1 DEF Enter, ReadClock, Wake, AskStatus, Refill, Take, Record, View, Goto, TypeOK
  <2>2. task'[t].stage \in Readings => task'[t].timer = 0 \/
          (task[t].stage \in Readings /\ task'[t].timer = task[t].timer)
    BY <1>1 DEF Enter, ReadClock, Wake, AskStatus, Refill, Take, Record, View, Goto, At,
                Readings, TypeOK
  <2> QED
    BY <2>1, <2>2 DEF ReadingsRecent
<1>2. ASSUME NEW t \in Tasks, Drop(t) PROVE ReadingsRecent'
  <2>1. \A u \in Tasks : task'[u] = task[u] \/ task'[u].stage \in {"idle", "ready"}
    BY <1>2, DropFacts
  <2> QED
    BY <2>1 DEF ReadingsRecent, Readings
<1>3. CASE Tick
  <2>1. \A l \in Locals : /\ Aged(l).stage = l.stage
                          /\ l.stage \in Readings => Aged(l).timer = l.timer + 1
    BY AgedFacts
  <2>2. \A t \in Tasks : task[t] \in Locals /\ task'[t] = Aged(task[t])
    BY <1>3 DEF Tick, TypeOK
  <2>3. \A t \in Tasks : task[t].stage \in Readings => task[t].timer < MaxDelay
    BY <1>3 DEF Tick
  <2> QED
    BY <2>1, <2>2, <2>3 DEF ReadingsRecent, Locals
<1>4. CASE UNCHANGED vars
  BY <1>4 DEF vars, ReadingsRecent
<1> QED
  BY <1>1, <1>2, <1>3, <1>4 DEF Next, TaskStep

\* What a refill does to tokens and since together: their sum stays, up to the
\* bucket's size, unless the reading is older than the last refill.
LEMMA RefillSum ==
  ASSUME TypeOK, NEW age \in Nat, age <= MaxDelay, RefillWith(age)
  PROVE  /\ tokens' + since' >= Lesser(tokens + since, Full)
         /\ age <= since =>
              Lesser(tokens' + since', Full + MaxDelay) <= Lesser(tokens + since, Full + MaxDelay)
         /\ age > since => overtaken'
         /\ overtaken => overtaken'
         /\ since' = age
<1>1. tokens \in Nat /\ since \in Nat /\ Full \in Nat /\ tokens <= Full
  BY FullFacts DEF TypeOK
<1>2. since' = age /\ tokens' = Refilled(age) /\ overtaken' = (overtaken \/ age > since)
  BY DEF RefillWith, Stamp
<1>3. /\ tokens' = Lesser(tokens + Greater(since - age, 0), Full)
      /\ since' = age
  BY <1>2 DEF Refilled, Elapsed
<1>4. tokens' + since' >= Lesser(tokens + since, Full)
  BY <1>1, <1>3 DEF Lesser, Greater
<1>5. ASSUME age <= since
      PROVE  Lesser(tokens' + since', Full + MaxDelay) <= Lesser(tokens + since, Full + MaxDelay)
  BY <1>1, <1>3, <1>5 DEF Lesser, Greater
<1>6. (age > since => overtaken') /\ (overtaken => overtaken')
  BY <1>2, Zenon
<1> QED
  BY <1>3, <1>4, <1>5, <1>6

LEMMA NextRate ==
  ASSUME TypeOK, TypeOK', ReadingsRecent, RateInv, NothingLost, [Next]_vars
  PROVE  RateInv' /\ NothingLost'
<1>0. /\ tokens \in Nat /\ tokens <= Full /\ since \in Nat /\ most \in Int /\ least \in Nat
      /\ least <= Full
      /\ tokens' \in Nat /\ since' \in Nat
      /\ \A t \in Tasks : task[t].timer \in Nat /\ task'[t].timer \in Nat
      /\ Full \in Nat /\ Full >= Cost /\ Enough = Full + MaxDelay
  <2>1. /\ tokens \in Nat /\ tokens <= Full /\ since \in Nat /\ most \in Int
        /\ least \in Nat /\ least <= Full
    BY FullFacts DEF TypeOK
  <2>2. tokens' \in Nat /\ since' \in Nat
    BY FullFacts DEF TypeOK
  <2>3. \A t \in Tasks : task[t].timer \in Nat /\ task'[t].timer \in Nat
    BY DEF TypeOK, Locals
  <2> QED
    BY FullFacts, <2>1, <2>2, <2>3 DEF Enough
<1>a. /\ Full + MaxDelay \in Int /\ tokens + since \in Int /\ tokens' + since' \in Int
       /\ most \in Int /\ Cost \in Int
  BY <1>0
<1>1. ASSUME NEW t \in Tasks,
             Enter(t) \/ ReadClock(t) \/ Wake(t) \/ AskStatus(t) \/ Record(t) \/ Drop(t)
      PROVE  RateInv' /\ NothingLost'
  <2>1. UNCHANGED <<tokens, since, most, least, overtaken>>
    BY <1>1 DEF Enter, ReadClock, Wake, AskStatus, Record, Drop, bucket, ideals
  <2>2. \A u \in Tasks : task'[u].stage = "taking" => task'[u] = task[u]
    <3>1. CASE Drop(t)
      <4>1. \A u \in Tasks : task'[u] = task[u] \/ task'[u].stage \in {"idle", "ready"}
        BY <3>1, DropFacts
      <4> QED
        BY <4>1
    <3>2. CASE ~Drop(t)
      <4>1. PICK stage \in Stages \ {"taking"} : Goto(t, stage, 0)
        BY <1>1, <3>2 DEF Enter, ReadClock, Wake, AskStatus, Record, Stages
      <4> QED
        BY <4>1 DEF Goto, TypeOK
    <3> QED
      BY <3>1, <3>2
  <2> QED
    BY <2>1, <2>2 DEF RateInv, NothingLost, At
<1>2. ASSUME NEW t \in Tasks, Refill(t) \/ View(t) PROVE RateInv' /\ NothingLost'
  <2> DEFINE age == task[t].timer
  <2>1. age \in Nat /\ age <= MaxDelay /\ RefillWith(age) /\ UNCHANGED <<most, least>>
    BY <1>0, <1>2 DEF Refill, View, ReadingsRecent, Readings, At
  <2>2. \A u \in Tasks : task'[u].stage = "taking" =>
          \/ task'[u] = task[u]
          \/ task'[u].timer = age
    <3>1. Goto(t, "taking", age) \/ Goto(t, "idle", 0)
      BY <1>2 DEF Refill, View
    <3>2. task \in [Tasks -> Locals]
      BY DEF TypeOK
    <3> HIDE DEF age
    <3>3. CASE Goto(t, "taking", age)
      BY ONLY <3>2, <3>3, t \in Tasks DEF Goto
    <3>4. CASE Goto(t, "idle", 0)
      BY ONLY <3>2, <3>4, t \in Tasks DEF Goto
    <3> QED
      BY <3>1, <3>3, <3>4
  <2> HIDE DEF age
  <2>3. NothingLost'
    <3>1. tokens' + since' >= Lesser(tokens + since, Full)
      BY <2>1, RefillSum
    <3>2. tokens + since >= least /\ least' = least
      BY <2>1 DEF NothingLost
    <3>3. tokens' + since' >= least
      BY ONLY <1>0, <3>1, <3>2 DEF Lesser
    <3> QED
      BY <3>2, <3>3 DEF NothingLost
  <2>4. ASSUME ~overtaken' PROVE RateInv'
    <3>1. ~overtaken /\ age <= since /\ since' = age
      BY <1>0, <2>1, <2>4, RefillSum
    <3>2. Lesser(tokens' + since', Full + MaxDelay) <= most'
      <4>1. Lesser(tokens' + since', Full + MaxDelay) <= Lesser(tokens + since, Full + MaxDelay)
        BY <2>1, <3>1, RefillSum
      <4>2. Lesser(tokens + since, Full + MaxDelay) <= most /\ most' = most
        BY <2>1, <3>1 DEF RateInv
      <4>3. /\ Lesser(tokens' + since', Full + MaxDelay) \in Int
            /\ Lesser(tokens + since, Full + MaxDelay) \in Int
        BY <1>a, LesserFacts
      <4> QED
        BY <1>a, <4>1, <4>2, <4>3
    <3>3. \A u \in Tasks : task'[u].stage = "taking" => since' <= task'[u].timer
      BY <1>0, <2>1, <2>2, <3>1 DEF RateInv, At
    <3> QED
      BY <3>2, <3>3 DEF RateInv, At
  <2> QED
    BY <2>3, <2>4 DEF RateInv
<1>3. ASSUME NEW t \in Tasks, Take(t) PROVE RateInv' /\ NothingLost'
  <2>1. UNCHANGED <<since, overtaken>>
    BY <1>3 DEF Take
  <2>2. \A u \in Tasks : task'[u].stage = "taking" => task'[u] = task[u]
    <3>1. PICK stage \in {"granted", "sleeping"}, timer \in Int : Goto(t, stage, timer)
      BY <1>0, <1>3 DEF Take, Greater
    <3> QED
      BY <3>1 DEF Goto, TypeOK
  <2>3. CASE ~HasToken
    BY <1>3, <2>1, <2>2, <2>3 DEF Take, RateInv, NothingLost, At
  <2>4. CASE HasToken
    <3>1. /\ tokens' = tokens - Cost /\ tokens >= Cost
          /\ most' = Greater(most - Cost, -1) /\ least' = Greater(least - Cost, 0)
      BY <1>3, <2>4 DEF Take, HasToken, Spent
    <3>2. NothingLost'
      BY <1>0, <2>1, <3>1 DEF NothingLost, Greater
    <3>3. ASSUME ~overtaken PROVE RateInv'
      <4>1. since <= MaxDelay
        BY <1>0, <1>3, <3>3 DEF Take, RateInv, ReadingsRecent, Readings, At
      <4>2. tokens + since <= most
        BY <1>0, <3>3, <4>1 DEF RateInv, Lesser
      <4>3. Lesser(tokens' + since', Full + MaxDelay) <= most'
        <5>1. tokens' + since' <= most - Cost /\ most - Cost \in Int
          BY <1>0, <2>1, <3>1, <4>2
        <5>2. most' >= most - Cost /\ most' \in Int
          BY <3>1, <5>1 DEF Greater
        <5>3. Lesser(tokens' + since', Full + MaxDelay) <= tokens' + since'
          BY <1>a, LesserFacts
        <5>4. Lesser(tokens' + since', Full + MaxDelay) \in Int
          BY <1>a, LesserFacts
        <5> QED
          BY <1>a, <5>1, <5>2, <5>3, <5>4
      <4> QED
        BY <2>1, <2>2, <3>3, <4>3 DEF RateInv, At
    <3> QED
      BY <2>1, <3>2, <3>3 DEF RateInv
  <2> QED
    BY <2>3, <2>4
<1>4. CASE Tick
  <2>1. /\ UNCHANGED <<tokens, overtaken>> /\ since' = Lesser(since + 1, Full + MaxDelay)
        /\ most' = Lesser(most + 1, Full + MaxDelay) /\ least' = Lesser(least + 1, Full)
    BY <1>0, <1>4 DEF Tick
  <2>2. \A u \in Tasks : task'[u].stage = "taking" =>
          task[u].stage = "taking" /\ task'[u].timer = task[u].timer + 1
    <3>1. \A l \in Locals : Aged(l).stage = "taking" =>
            l.stage = "taking" /\ Aged(l).timer = l.timer + 1
      BY AgedFacts DEF Readings
    <3> QED
      BY <1>4, <3>1 DEF Tick, TypeOK
  <2>3. NothingLost'
    BY <1>0, <2>1 DEF NothingLost, Lesser
  <2>4. ASSUME ~overtaken PROVE RateInv'
    <3>1. Lesser(tokens' + since', Full + MaxDelay) <= most'
      BY <1>0, <2>1, <2>4 DEF RateInv, Lesser
    <3>2. \A u \in Tasks : task'[u].stage = "taking" => since' <= task'[u].timer
      BY <1>0, <2>1, <2>2, <2>4 DEF RateInv, At, Lesser
    <3> QED
      BY <3>1, <3>2 DEF RateInv, At
  <2> QED
    BY <2>1, <2>3, <2>4 DEF RateInv
<1>5. CASE UNCHANGED vars
  BY <1>5 DEF vars, bucket, ideals, RateInv, NothingLost, At
<1> QED
  BY <1>1, <1>2, <1>3, <1>4, <1>5 DEF Next, TaskStep

-----------------------------------------------------------------------------
(* The theorems *)

\* The inductive invariant holds in every reachable state.
THEOREM Inductive == Spec => []IInv
<1>1. IInv /\ [Next]_vars => IInv'
  BY NextTypeOK, NextPermits, NextReadings, NextRate DEF IInv
<1> QED
  BY InitIInv, <1>1, PTL DEF Spec

\* Every variable keeps its type: the bucket never holds more than its capacity
\* (rate_limiter.rs 56, 82) and permits are between zero and the burst.
THEOREM TypeCorrect == Spec => []TypeOK
<1>1. IInv => TypeOK
  BY DEF IInv
<1> QED
  BY Inductive, <1>1, PTL

\* At most burst_allowance tasks are between acquiring and dropping a permit
\* (113-118), and no permit is lost.
THEOREM PermitsAreConserved == Spec => []PermitsConserved
<1>1. IInv => PermitsConserved
  BY DEF IInv
<1> QED
  BY Inductive, <1>1, PTL

\* The rate limit holds over every interval as long as no refill uses a clock
\* reading older than the last refill (46-57).
THEOREM RateIsKept == Spec => []RateKept
<1>1. IInv => RateKept
  BY FullFacts DEF IInv, TypeOK, RateInv, RateKept, Lesser
<1> QED
  BY Inductive, <1>1, PTL

\* The bucket never grants less than an ideal one of its size would (46-86).
THEOREM NoTokenIsLost == Spec => []NothingLost
<1>1. IInv => NothingLost
  BY DEF IInv
<1> QED
  BY Inductive, <1>1, PTL

-----------------------------------------------------------------------------
(* The pool of permits *)

Holders == {t \in Tasks : At(t, "holding")}

\* Who holds a permit owns one, so that a task about to hold one leaves room.
LEMMA HoldersFit ==
  ASSUME TypeOK, PermitsConserved, NEW t \in Owners, t \notin Holders
  PROVE  Cardinality(Holders) < Burst
<1>1. Holders \subseteq Owners \ {t}
  BY DEF Holders, Owners, At
<1>2. /\ IsFiniteSet(Owners \ {t})
      /\ Cardinality(Owners \ {t}) = Cardinality(Owners) - 1
  BY OwnerFacts, FS_RemoveElement
<1>3. /\ Cardinality(Holders) <= Cardinality(Owners \ {t})
      /\ Cardinality(Holders) \in Nat
  BY <1>1, <1>2, FS_Subset, FS_CardinalityType
<1> QED
  BY <1>2, <1>3, OwnerFacts DEF PermitsConserved, TypeOK

\* A step that takes no task into or out of "holding".
LEMMA SameHolders ==
  ASSUME \A t \in Tasks : At(t, "holding") <=> At(t, "holding")'
  PROVE  Holders' = Holders
BY DEF Holders, At

LEMMA NextPool ==
  ASSUME TypeOK, PermitsConserved, LineOfWaiting, [Next]_vars
  PROVE  [Pool!Next]_Holders
<1>1. ASSUME NEW t \in Tasks,
             Enter(t) \/ ReadClock(t) \/ Refill(t) \/ Take(t) \/ Wake(t) \/ AskStatus(t) \/ View(t)
      PROVE  Holders' = Holders
  <2>1. /\ \A u \in Tasks : u # t => task'[u] = task[u]
        /\ task[t].stage # "holding" /\ task'[t].stage # "holding"
    BY <1>1 DEF Enter, ReadClock, Refill, Take, Wake, AskStatus, View, Goto, At, TypeOK
  <2> QED
    BY <2>1, SameHolders DEF At
<1>2. ASSUME NEW t \in Tasks, Record(t) PROVE Pool!Grant(t)
  <2>1. /\ \A u \in Tasks : u # t => task'[u] = task[u]
        /\ task[t].stage = "granted" /\ task'[t].stage = "holding"
    BY <1>2 DEF Record, Goto, At, TypeOK
  <2>2. t \in Owners /\ t \notin Holders /\ Holders' = Holders \cup {t}
    BY <2>1 DEF Owners, Holders, At
  <2>3. Cardinality(Holders) < Burst
    BY <2>2, HoldersFit
  <2>4. Pool!Cardinality(Holders) = Cardinality(Holders)
    BY Zenon DEF Pool!Cardinality, Cardinality
  <2> QED
    BY <2>2, <2>3, <2>4 DEF Pool!Grant, Holders
<1>3. ASSUME NEW t \in Tasks, Drop(t) PROVE Pool!Release(t)
  <2>1. task[t].stage = "holding"
    BY <1>3 DEF Drop, At
  <2>2. /\ task'[t].stage = "idle"
        /\ \A u \in Tasks : u # t => (task[u].stage = "holding" <=> task'[u].stage = "holding")
    <3>1. CASE line = << >>
      BY <1>3, <3>1 DEF Drop, Goto, TypeOK
    <3>2. CASE line # << >>
      <4>1. Head(line) \in Tasks /\ task[Head(line)].stage = "waiting"
        <5>1. Head(line) = line[1] /\ 1 \in DOMAIN line /\ Head(line) \in Tasks
          BY <3>2, HeadTailProperties, LenProperties, EmptySeq DEF TypeOK
        <5> QED
          BY <5>1 DEF LineOfWaiting, At
      <4>2. task' = [task EXCEPT ![t] = [stage |-> "idle", timer |-> 0],
                                 ![Head(line)] = [stage |-> "ready", timer |-> 0]]
        BY <1>3, <3>2 DEF Drop
      <4> QED
        BY <2>1, <4>1, <4>2 DEF TypeOK
    <3> QED
      BY <3>1, <3>2
  <2>3. t \in Holders /\ Holders' = Holders \ {t}
    BY <2>1, <2>2 DEF Holders, At
  <2> QED
    BY <2>3 DEF Pool!Release, Holders
<1>4. CASE Tick
  <2>1. \A t \in Tasks : task[t] \in Locals /\ task'[t] = Aged(task[t])
    BY <1>4 DEF Tick, TypeOK
  <2>2. \A t \in Tasks : task'[t].stage = task[t].stage
    BY <2>1, AgedFacts
  <2> QED
    BY <2>2, SameHolders DEF At
<1>5. CASE UNCHANGED vars
  BY <1>5, SameHolders DEF vars, At
<1> QED
  BY <1>1, <1>2, <1>3, <1>4, <1>5 DEF Next, TaskStep, Pool!Next, Holders

\* For its users the limiter is a pool of burst_allowance permits, whatever the
\* bucket makes them wait for (111-142): each permit has one holder until it drops it.
THEOREM LimiterIsPool == Spec => ImplementsPermitPool
<1>1. Init => Pool!Init
  BY DEF Init, Pool!Init, At
<1>2. IInv /\ [Next]_vars => [Pool!Next]_Holders
  BY NextPool DEF IInv
<1> QED
  BY <1>1, <1>2, Inductive, PTL DEF Spec, Pool!Spec, ImplementsPermitPool, Holders
=============================================================================

--------------------------- MODULE DatabaseProofs ---------------------------
(***************************************************************************)
(* Theorems about the database, for any number of callers, posts, words,   *)
(* keys and configurations, any number of migrations, and any failed       *)
(* statements and crashes between the statements of a call.                *)
(***************************************************************************)
EXTENDS Database, FiniteSetTheorems, SequenceTheorems, TLAPS

\* The statements that write a setting
Writes(s, k) ==
  \/ s.kind = "setting" /\ s.key = k
  \/ s.kind = "migrate" /\ s.step = "seed settings"

Kinds == {"migrate", "setting", "key", "post", "keyword", "action", "fetched"}

\* A statement is of what there is, and writes what its call gives.
Proper(s, gives) ==
  /\ s.kind \in Kinds
  /\ s.kind = "migrate" =>
       s.step \in Range(Migration) /\ \A k \in DOMAIN gives : gives[k] = SeedValues[k]
  /\ s.kind = "setting" => s.key \in DOMAIN gives /\ s.value = gives[s.key]
  /\ s.kind = "key" => s.key \in Providers
  /\ s.kind = "post" => s.post \in Posts
  /\ s.kind = "keyword" => s.text \in Words

IsSequence(s) == s \in Seq(Range(s))

\* The statements a call has left
Statements(todo, gives) ==
  /\ IsSequence(todo)
  /\ DOMAIN gives \subseteq Keys
  /\ \A s \in Range(todo) : Proper(s, gives)

IsCall(r) ==
  r = [stage |-> r.stage, todo |-> r.todo, at |-> r.at, gives |-> r.gives, met |-> r.met]

CallerOK(r, n) ==
  /\ IsCall(r)
  /\ r.stage \in {"idle", "ready", "sent"}
  /\ r.at \in Nat /\ r.at <= n
  /\ r.stage = "idle" <=> r = Idle
  /\ Statements(r.todo, r.gives)
  /\ r.stage # "idle" => r.todo # <<>>

CallersInv ==
  /\ now \in Nat
  /\ DOMAIN caller = Callers
  /\ \A c \in Callers : CallerOK(caller[c], now)

Seeds(s) == s.kind = "migrate" /\ s.step = "seed settings"

\* A migration ends with the subreddits, and has its settings before it or behind it.
InOrder(todo, table) ==
  \A i \in DOMAIN todo : todo[i].kind = "migrate" =>
    /\ todo[Len(todo)].kind = "migrate" /\ todo[Len(todo)].step = "seed subreddits"
    /\ DOMAIN table = Keys \/ \E j \in DOMAIN todo : Seeds(todo[j])

MigrationInv == \A c \in Callers : InOrder(caller[c].todo, settings)

TablesInv ==
  /\ schema \subseteq Range(Migration)
  /\ posts \subseteq Posts
  /\ DOMAIN keywords \subseteq Words
  /\ DOMAIN settings \subseteq Keys /\ DOMAIN apiKeys \subseteq Providers
  /\ DOMAIN subreddits \subseteq Subreddits
  /\ lastId \in [keyword : Nat, action : Nat]
  /\ \A a \in userActions :
       a.post \in posts /\ a.id \in 1..lastId.action /\ a.created \in Nat /\ a.created <= now
  /\ \A a, b \in userActions : a.id = b.id => a = b
  /\ migrated => DOMAIN settings = Keys /\ DOMAIN subreddits = Subreddits

\* A call that is still to seed gives each setting that is not there.
SeedsUnset(todo, gives, table) ==
  (\E s \in Range(todo) : Seeds(s)) => Keys \subseteq DOMAIN gives \cup DOMAIN table

\* Calls that save the same setting have met each other's values; what a call gives is
\* expected, and what it has written is there, unless a call it met wrote after it.
SavingInv ==
  /\ \A c, d \in Callers : c # d =>
       Pairs(caller[d].gives, DOMAIN caller[c].gives) \subseteq caller[c].met
  /\ \A c \in Callers : Pairs(caller[c].gives, Keys) \subseteq expected
  /\ \A c \in Callers, k \in Keys : k \in DOMAIN caller[c].gives =>
       \/ \E s \in Range(caller[c].todo) : Writes(s, k)
       \/ ValueOf(k) = caller[c].gives[k]
       \/ <<k, ValueOf(k)>> \in caller[c].met
  /\ \A c \in Callers : SeedsUnset(caller[c].todo, caller[c].gives, settings)
  /\ \A k \in Keys : <<k, ValueOf(k)>> \in expected

IInv == CallersInv /\ MigrationInv /\ TablesInv /\ SavingInv

-----------------------------------------------------------------------------
(* Sequences of statements *)

LEMMA SequenceFacts ==
  ASSUME NEW s, IsSequence(s)
  PROVE  /\ Len(s) \in Nat /\ DOMAIN s = 1..Len(s)
         /\ \A i \in DOMAIN s : s[i] \in Range(s)
<1>1. s \in Seq(Range(s))
  BY DEF IsSequence
<1>2. Len(s) \in Nat /\ DOMAIN s = 1..Len(s)
  BY <1>1
<1> QED
  BY <1>2 DEF Range

LEMMA FunctionIsSequence ==
  ASSUME NEW n \in Nat, NEW s, s \in [1..n -> Range(s)]
  PROVE  IsSequence(s) /\ Len(s) = n
BY DEF IsSequence

LEMMA HeadFacts ==
  ASSUME NEW s, IsSequence(s), s # <<>>
  PROVE  /\ Len(s) \in Nat \ {0} /\ DOMAIN s = 1..Len(s)
         /\ Head(s) = s[1] /\ Head(s) \in Range(s)
<1>1. s \in Seq(Range(s))
  BY DEF IsSequence
<1>2. Len(s) \in Nat \ {0} /\ DOMAIN s = 1..Len(s) /\ Head(s) = s[1]
  BY <1>1
<1>3. 1 \in DOMAIN s
  BY <1>2
<1> QED
  BY <1>2, <1>3 DEF Range

LEMMA TailFacts ==
  ASSUME NEW s, IsSequence(s), s # <<>>
  PROVE  /\ IsSequence(Tail(s)) /\ Len(Tail(s)) = Len(s) - 1
         /\ DOMAIN Tail(s) = 1..(Len(s) - 1)
         /\ \A i \in 1..(Len(s) - 1) : Tail(s)[i] = s[i + 1]
         /\ Range(s) = {Head(s)} \cup Range(Tail(s))
<1> DEFINE t == Tail(s)  n == Len(s) - 1
<1>1. s \in Seq(Range(s)) /\ Len(s) \in Nat \ {0} /\ DOMAIN s = 1..Len(s)
  BY HeadFacts DEF IsSequence
<1>2. t \in Seq(Range(s)) /\ Len(t) = n /\ DOMAIN t = 1..n
  BY <1>1
<1>3. \A i \in 1..n : t[i] = s[i + 1]
  BY <1>1
<1>4. n \in Nat
  BY <1>1
<1> HIDE DEF t
<1>5. t \in Seq(Range(t))
  <2>1. \A i \in 1..n : t[i] \in Range(t)
    BY <1>2 DEF Range
  <2> QED
    BY <2>1, <1>2, <1>4
<1>6. Range(s) = {s[1]} \cup Range(t)
  <2>1. ASSUME NEW x \in Range(s) PROVE x \in {s[1]} \cup Range(t)
    <3>1. PICK i \in 1..Len(s) : x = s[i]
      BY <1>1 DEF Range
    <3>2. CASE i = 1
      BY <3>1, <3>2
    <3>3. CASE i # 1
      <4>1. i - 1 \in 1..n /\ (i - 1) + 1 = i
        BY <3>3, <1>1
      <4>2. t[i - 1] = x
        BY <4>1, <3>1, <1>3
      <4> QED
        BY <4>1, <4>2, <1>2 DEF Range
    <3> QED
      BY <3>2, <3>3
  <2>2. \A i \in 1..n : i + 1 \in 1..Len(s)
    BY <1>1
  <2>3. Range(t) \subseteq Range(s)
    BY <2>2, <1>1, <1>2, <1>3 DEF Range
  <2>4. s[1] \in Range(s)
    BY HeadFacts
  <2> QED
    BY <2>1, <2>3, <2>4
<1>7. Head(s) = s[1]
  BY HeadFacts
<1> QED
  BY <1>2, <1>3, <1>5, <1>6, <1>7 DEF t, n, IsSequence

LEMMA ConcatFacts ==
  ASSUME NEW s, NEW t, IsSequence(s), IsSequence(t)
  PROVE  /\ IsSequence(s \o t)
         /\ Range(s \o t) = Range(s) \cup Range(t)
         /\ Len(s \o t) = Len(s) + Len(t)
<1> DEFINE S == Range(s) \cup Range(t)  u == s \o t
<1>1. s \in Seq(Range(s)) /\ t \in Seq(Range(t))
  BY DEF IsSequence
<1>2. s \in Seq(S) /\ t \in Seq(S)
  BY <1>1
<1>3. u \in Seq(S) /\ Len(u) = Len(s) + Len(t)
  BY <1>2
<1>4. Len(s) \in Nat /\ Len(t) \in Nat /\ DOMAIN u = 1..(Len(s) + Len(t))
      /\ DOMAIN s = 1..Len(s) /\ DOMAIN t = 1..Len(t)
  BY <1>2, <1>3
<1>5. /\ \A i \in 1..Len(s) : u[i] = s[i] /\ i \in DOMAIN u
      /\ \A i \in 1..Len(t) : u[Len(s) + i] = t[i] /\ Len(s) + i \in DOMAIN u
  BY <1>2, <1>4
<1>6. Range(s) \subseteq Range(u) /\ Range(t) \subseteq Range(u)
  BY <1>4, <1>5 DEF Range
<1>7. Range(u) \subseteq S
  BY <1>3 DEF Range
<1>8. Range(u) = S
  BY <1>6, <1>7
<1> QED
  BY <1>3, <1>8 DEF IsSequence

LEMMA SingleFacts ==
  ASSUME NEW x
  PROVE  IsSequence(<<x>>) /\ Range(<<x>>) = {x} /\ Len(<<x>>) = 1 /\ <<x>> # <<>>
<1>1. Range(<<x>>) = {x}
  BY DEF Range
<1>2. <<x>> \in Seq({x})
  OBVIOUS
<1> QED
  BY <1>1, <1>2 DEF IsSequence

LEMMA EmptyFacts ==
  IsSequence(<<>>) /\ Range(<<>>) = {} /\ DOMAIN <<>> = {} /\ Len(<<>>) = 0
<1>1. Range(<<>>) = {}
  BY DEF Range
<1>2. <<>> \in Seq({})
  OBVIOUS
<1> QED
  BY <1>1, <1>2 DEF IsSequence

-----------------------------------------------------------------------------
(* The calls *)

\* What every call has before its first statement
LegalCall(todo, gives) ==
  /\ Statements(todo, gives)
  /\ todo # <<>>
  /\ \A table : InOrder(todo, table)
  /\ \A k \in DOMAIN gives : \E s \in Range(todo) : Writes(s, k)
  /\ SeedsUnset(todo, gives, settings)

\* A call without migration statements is in order.
LEMMA NoMigrationInOrder ==
  ASSUME NEW todo, IsSequence(todo), \A s \in Range(todo) : s.kind # "migrate", NEW table
  PROVE  InOrder(todo, table)
BY SequenceFacts DEF InOrder

LEMMA NoMigrationSeeds ==
  ASSUME NEW todo, \A s \in Range(todo) : s.kind # "migrate", NEW gives, NEW table
  PROVE  SeedsUnset(todo, gives, table)
BY DEF SeedsUnset, Seeds

LEMMA MigrateLegal ==
  ASSUME IInv
  PROVE  LegalCall(Migrate, [k \in Unset |-> SeedValues[k]])
<1> DEFINE gives == [k \in Unset |-> SeedValues[k]]
<1>1. DOMAIN Migration = 1..9 /\ Migration[8] = "seed settings" /\ Migration[9] = "seed subreddits"
  BY DEF Migration
<1>2. Migrate = [i \in 1..9 |-> [kind |-> "migrate", step |-> Migration[i]]]
  BY <1>1 DEF Migrate
<1>3. DOMAIN Migrate = 1..9 /\ \A i \in 1..9 : Migrate[i] \in Range(Migrate)
  BY <1>2 DEF Range
<1>4. \A i \in 1..9 : Migrate[i].kind = "migrate" /\ Migrate[i].step = Migration[i]
  BY <1>2
<1>5. Migrate[8].step = "seed settings" /\ Migrate[9].step = "seed subreddits"
  <2>1. 8 \in 1..9 /\ 9 \in 1..9
    OBVIOUS
  <2> QED
    BY <2>1, <1>1, <1>4
<1>6. IsSequence(Migrate) /\ Len(Migrate) = 9
  <2>1. Migrate = [i \in 1..9 |-> Migrate[i]]
    BY <1>2
  <2>2. Migrate \in [1..9 -> Range(Migrate)]
    BY <2>1, <1>3
  <2>3. 9 \in Nat
    OBVIOUS
  <2> QED
    BY <2>2, <2>3, FunctionIsSequence
<1>7. ASSUME NEW s \in Range(Migrate) PROVE Proper(s, gives)
  <2>1. PICK i \in 1..9 : s = Migrate[i]
    BY <1>3 DEF Range
  <2>2. s.kind = "migrate" /\ s.step \in Range(Migration)
    BY <2>1, <1>1, <1>4 DEF Range
  <2> QED
    BY <2>2 DEF Proper, Kinds
<1>8. DOMAIN gives \subseteq Keys
  BY DEF Unset
<1>9. \A table : InOrder(Migrate, table)
  <2>1. 8 \in 1..9 /\ 9 \in 1..9
    OBVIOUS
  <2>2. Seeds(Migrate[8]) /\ 8 \in DOMAIN Migrate
    BY <2>1, <1>5, <1>3, <1>4 DEF Seeds
  <2>3. Migrate[Len(Migrate)].kind = "migrate" /\ Migrate[Len(Migrate)].step = "seed subreddits"
    BY <2>1, <1>5, <1>6, <1>4
  <2> QED
    BY <2>2, <2>3 DEF InOrder
<1>10. \A k \in DOMAIN gives : \E s \in Range(Migrate) : Writes(s, k)
  <2>1. 8 \in 1..9
    OBVIOUS
  <2> QED
    BY <2>1, <1>5, <1>3, <1>4 DEF Writes
<1>11. Migrate # <<>>
  BY <1>6, EmptyFacts
<1>12. SeedsUnset(Migrate, gives, settings)
  <2>1. \A k \in Keys : <<k, ValueOf(k)>> \in expected
    BY DEF IInv, SavingInv
  <2>2. \A k \in Keys : k \notin DOMAIN settings => k \in Unset
    BY <2>1 DEF ValueOf, Unset
  <2> QED
    BY <2>2 DEF SeedsUnset
<1> QED
  BY <1>6, <1>7, <1>8, <1>9, <1>10, <1>11, <1>12 DEF LegalCall, Statements

\* A call of one statement that saves no setting
LEMMA SingleLegal ==
  ASSUME NEW s, Proper(s, <<>>), s.kind # "migrate"
  PROVE  LegalCall(<<s>>, <<>>)
<1>1. IsSequence(<<s>>) /\ Range(<<s>>) = {s} /\ <<s>> # <<>>
  BY SingleFacts
<1>2. \A table : InOrder(<<s>>, table)
  BY <1>1, NoMigrationInOrder
<1>3. DOMAIN <<>> = {}
  BY EmptyFacts
<1> QED
  BY <1>1, <1>2, <1>3, NoMigrationSeeds DEF LegalCall, Statements

\* A statement that saves a setting, alone
LEMMA SaveToFacts ==
  ASSUME NEW k, NEW v
  PROVE  /\ SaveTo(k, v).kind = "setting" /\ SaveTo(k, v).key = k /\ SaveTo(k, v).value = v
         /\ Writes(SaveTo(k, v), k)
         /\ \A gives : k \in DOMAIN gives /\ v = gives[k] => Proper(SaveTo(k, v), gives)
BY DEF SaveTo, Writes, Proper, Kinds

LEMMA SettingLegal ==
  ASSUME NEW k \in Keys, NEW v
  PROVE  LegalCall(<<SaveTo(k, v)>>, [x \in {k} |-> v])
<1> DEFINE s == SaveTo(k, v)  gives == [x \in {k} |-> v]
<1>1. IsSequence(<<s>>) /\ Range(<<s>>) = {s} /\ <<s>> # <<>>
  BY SingleFacts
<1>2. s.kind = "setting" /\ Writes(s, k) /\ Proper(s, gives)
  BY SaveToFacts
<1>3. \A table : InOrder(<<s>>, table)
  BY <1>1, <1>2, NoMigrationInOrder
<1> QED
  BY <1>1, <1>2, <1>3, NoMigrationSeeds DEF LegalCall, Statements

\* The statements for the keys of a configuration
LEMMA KeyStatementsFacts ==
  ASSUME NEW config \in Configs, NEW keys \in KeyStatements(config)
  PROVE  /\ IsSequence(keys)
         /\ \A s \in Range(keys) : s.kind = "key" /\ s.key \in Providers
<1>1. PICK order \in SetToSeqs(DOMAIN config.keys) :
        keys = [i \in DOMAIN order |-> [kind |-> "key", key |-> order[i],
                                        value |-> config.keys[order[i]]]]
  BY DEF KeyStatements
<1> DEFINE n == Cardinality(DOMAIN config.keys)
<1>2. IsFiniteSet(DOMAIN config.keys) /\ DOMAIN config.keys \subseteq Providers
  BY DatabaseAssumption, FS_Subset
<1>3. n \in Nat
  BY <1>2, FS_CardinalityType
<1>4. order \in [1..n -> DOMAIN config.keys]
  BY <1>1 DEF SetToSeqs
<1> HIDE DEF n
<1>5. DOMAIN keys = 1..n /\ \A i \in 1..n : keys[i] \in Range(keys)
  BY <1>1, <1>4 DEF Range
<1>6. keys \in [1..n -> Range(keys)]
  BY <1>1, <1>4, <1>5
<1>7. IsSequence(keys)
  BY <1>3, <1>6, FunctionIsSequence
<1>8. ASSUME NEW s \in Range(keys) PROVE s.kind = "key" /\ s.key \in Providers
  <2>1. PICK i \in 1..n : s = keys[i]
    BY <1>5 DEF Range
  <2>2. s.kind = "key" /\ s.key = order[i]
    BY <2>1, <1>1, <1>4
  <2> QED
    BY <2>2, <1>2, <1>4
<1> QED
  BY <1>7, <1>8

\* What a configuration gives, and the statements that save it
LEMMA GivenFacts ==
  ASSUME NEW config
  PROVE  /\ DOMAIN Given(config) \subseteq Keys
         /\ IdKey \in DOMAIN Given(config) <=> config.id # None
         /\ SecretKey \in DOMAIN Given(config) <=> config.secret # None
         /\ PollingKey \in DOMAIN Given(config)
         /\ config.id # None => Given(config)[IdKey] = config.id
         /\ config.secret # None => Given(config)[SecretKey] = config.secret
         /\ Given(config)[PollingKey] = config.polling
BY DEF Given, Keys, IdKey, SecretKey, PollingKey

LEMMA SettingStatementsFacts ==
  ASSUME NEW config
  PROVE  /\ IsSequence(SettingStatements(config)) /\ Len(SettingStatements(config)) > 0
         /\ Range(SettingStatements(config)) =
              (IF config.id = None THEN {} ELSE {SaveTo(IdKey, config.id)}) \cup
              (IF config.secret = None THEN {} ELSE {SaveTo(SecretKey, config.secret)}) \cup
              {SaveTo(PollingKey, config.polling)}
<1> DEFINE a == IF config.id = None THEN <<>> ELSE <<SaveTo(IdKey, config.id)>>
           A == IF config.id = None THEN {} ELSE {SaveTo(IdKey, config.id)}
           b == IF config.secret = None THEN <<>> ELSE <<SaveTo(SecretKey, config.secret)>>
           B == IF config.secret = None THEN {} ELSE {SaveTo(SecretKey, config.secret)}
           p == SaveTo(PollingKey, config.polling)
<1>1. SettingStatements(config) = (a \o b) \o <<p>>
  BY DEF SettingStatements
<1>2. IsSequence(a) /\ Range(a) = A /\ Len(a) \in Nat
  <2>1. CASE config.id = None
    BY <2>1, EmptyFacts
  <2>2. CASE config.id # None
    BY <2>2, SingleFacts
  <2> QED
    BY <2>1, <2>2
<1>3. IsSequence(b) /\ Range(b) = B /\ Len(b) \in Nat
  <2>1. CASE config.secret = None
    BY <2>1, EmptyFacts
  <2>2. CASE config.secret # None
    BY <2>2, SingleFacts
  <2> QED
    BY <2>1, <2>2
<1>4. IsSequence(<<p>>) /\ Range(<<p>>) = {p} /\ Len(<<p>>) = 1
  BY SingleFacts
<1> HIDE DEF a, A, b, B, p
<1>5. IsSequence(a \o b) /\ Range(a \o b) = A \cup B /\ Len(a \o b) \in Nat
  BY <1>2, <1>3, ConcatFacts
<1>6. /\ IsSequence((a \o b) \o <<p>>) /\ Range((a \o b) \o <<p>>) = (A \cup B) \cup {p}
      /\ Len((a \o b) \o <<p>>) = Len(a \o b) + 1
  BY <1>4, <1>5, ConcatFacts
<1>7. Len((a \o b) \o <<p>>) > 0
  BY <1>5, <1>6
<1> QED
  BY <1>1, <1>6, <1>7 DEF A, B, p

LEMMA ConfigLegal ==
  ASSUME NEW config \in Configs, NEW keys \in KeyStatements(config)
  PROVE  LegalCall(SettingStatements(config) \o keys, Given(config))
<1> DEFINE set == SettingStatements(config)  todo == set \o keys  gives == Given(config)
<1>1. /\ IsSequence(todo) /\ Range(todo) = Range(set) \cup Range(keys)
      /\ Len(todo) = Len(set) + Len(keys)
  BY SettingStatementsFacts, KeyStatementsFacts, ConcatFacts
<1>2. todo # <<>>
  BY <1>1, SettingStatementsFacts, KeyStatementsFacts, EmptyFacts, SequenceFacts
<1>3. ASSUME NEW s \in Range(set) PROVE Proper(s, gives) /\ s.kind = "setting"
  <2>1. CASE config.id # None /\ s = SaveTo(IdKey, config.id)
    BY <2>1, GivenFacts, SaveToFacts
  <2>2. CASE config.secret # None /\ s = SaveTo(SecretKey, config.secret)
    BY <2>2, GivenFacts, SaveToFacts
  <2>3. CASE s = SaveTo(PollingKey, config.polling)
    BY <2>3, GivenFacts, SaveToFacts
  <2> QED
    BY <2>1, <2>2, <2>3, SettingStatementsFacts
<1>4. ASSUME NEW s \in Range(keys) PROVE Proper(s, gives) /\ s.kind = "key"
  BY KeyStatementsFacts DEF Proper, Kinds
<1>5. (\A table : InOrder(todo, table)) /\ SeedsUnset(todo, gives, settings)
  <2>1. \A s \in Range(todo) : s.kind # "migrate"
    BY <1>1, <1>3, <1>4
  <2> QED
    BY <2>1, <1>1, NoMigrationInOrder, NoMigrationSeeds
<1>6. \A k \in DOMAIN gives : \E s \in Range(todo) : Writes(s, k)
  <2>1. ASSUME NEW k \in DOMAIN gives PROVE \E s \in Range(set) : Writes(s, k)
    <3>1. CASE k = IdKey
      <4>1. SaveTo(IdKey, config.id) \in Range(set)
        BY <3>1, <2>1, GivenFacts, SettingStatementsFacts
      <4> QED
        BY <4>1, <3>1, SaveToFacts
    <3>2. CASE k = SecretKey
      <4>1. SaveTo(SecretKey, config.secret) \in Range(set)
        BY <3>2, <2>1, GivenFacts, SettingStatementsFacts
      <4> QED
        BY <4>1, <3>2, SaveToFacts
    <3>3. CASE k = PollingKey
      <4>1. SaveTo(PollingKey, config.polling) \in Range(set)
        BY SettingStatementsFacts
      <4> QED
        BY <4>1, <3>3, SaveToFacts
    <3> QED
      BY <2>1, <3>1, <3>2, <3>3, GivenFacts DEF Keys
  <2> QED
    BY <2>1, <1>1
<1> QED
  BY <1>1, <1>2, <1>3, <1>4, <1>5, <1>6, GivenFacts DEF LegalCall, Statements

-----------------------------------------------------------------------------
(* The callers *)

LEMMA IdleOK == ASSUME NEW n \in Nat PROVE CallerOK(Idle, n)
<1>1. IsCall(Idle) /\ Idle.stage = "idle" /\ Idle.at = 0 /\ Idle.todo = <<>> /\ Idle.gives = <<>>
  BY DEF Idle, IsCall
<1>2. Statements(<<>>, <<>>)
  BY EmptyFacts DEF Statements
<1> QED
  BY <1>1, <1>2 DEF CallerOK

LEMMA CallersInit == Init => CallersInv
BY IdleOK DEF Init, CallersInv

\* One caller moves on.
LEMMA CallerMoves ==
  ASSUME CallersInv, NEW c \in Callers, NEW r, CallerOK(r, now),
         caller' = [caller EXCEPT ![c] = r], now' = now
  PROVE  CallersInv'
BY DEF CallersInv

\* A call begins; the calls it meets are told.
LEMMA CallFacts ==
  ASSUME CallersInv, NEW c \in Callers, NEW todo, NEW gives, LegalCall(todo, gives),
         Call(c, todo, gives)
  PROVE  /\ CallersInv'
         /\ caller[c] = Idle
         /\ caller'[c].todo = todo /\ caller'[c].gives = gives
         /\ caller'[c].met = UNION {Pairs(caller[e].gives, DOMAIN gives) : e \in Callers}
         /\ \A d \in Callers \ {c} :
              /\ caller'[d].todo = caller[d].todo /\ caller'[d].gives = caller[d].gives
              /\ caller'[d].met = caller[d].met \cup Pairs(gives, DOMAIN caller[d].gives)
<1> DEFINE m == UNION {Pairs(caller[e].gives, DOMAIN gives) : e \in Callers}
           r == [stage |-> "ready", todo |-> todo, at |-> 0, gives |-> gives, met |-> m]
           e(d) == [caller[d] EXCEPT !.met = @ \cup Pairs(gives, DOMAIN caller[d].gives)]
<1>1. now' = now /\ caller[c] = Idle
  BY DEF Call, CallersInv, CallerOK, At
<1>2. caller' = [d \in Callers |-> IF d = c THEN r ELSE e(d)]
  BY DEF Call
<1>3. CallerOK(r, now)
  <2>1. IsCall(r) /\ r.stage = "ready" /\ r.at = 0 /\ r.todo = todo /\ r.gives = gives /\ r # Idle
    BY DEF IsCall, Idle
  <2> QED
    BY <2>1 DEF CallerOK, LegalCall, CallersInv
<1>4. ASSUME NEW d \in Callers PROVE
        /\ e(d).todo = caller[d].todo /\ e(d).gives = caller[d].gives
        /\ e(d).met = caller[d].met \cup Pairs(gives, DOMAIN caller[d].gives)
        /\ CallerOK(e(d), now)
  <2> DEFINE q == caller[d]  x == q.met \cup Pairs(gives, DOMAIN q.gives)
             y == [stage |-> q.stage, todo |-> q.todo, at |-> q.at, gives |-> q.gives, met |-> x]
  <2>1. CallerOK(q, now)
    BY DEF CallersInv
  <2>2. q = [stage |-> q.stage, todo |-> q.todo, at |-> q.at, gives |-> q.gives, met |-> q.met]
    BY <2>1 DEF CallerOK, IsCall
  <2>3. e(d) = y
    <3>1. e(d) = [q EXCEPT !.met = x]
      OBVIOUS
    <3> HIDE DEF x, q
    <3>2. [q EXCEPT !.met = x] =
            [stage |-> q.stage, todo |-> q.todo, at |-> q.at, gives |-> q.gives, met |-> x]
      BY <2>2
    <3> QED
      BY <3>1, <3>2
  <2>4. q = Idle => x = {}
    BY EmptyFacts DEF Idle, Pairs
  <2> HIDE DEF x, q
  <2>6. IsCall(y) /\ y.stage = q.stage /\ y.todo = q.todo /\ y.at = q.at /\ y.gives = q.gives
        /\ y.met = x
    BY DEF IsCall
  <2>7. q = Idle => y = Idle
    <3>1. Idle = [stage |-> Idle.stage, todo |-> Idle.todo, at |-> Idle.at, gives |-> Idle.gives,
                  met |-> {}]
      BY DEF Idle
    <3> QED
      BY <3>1, <2>4
  <2>8. y = Idle => q = Idle
    BY <2>1, <2>6 DEF CallerOK, Idle
  <2> HIDE DEF y
  <2>9. CallerOK(y, now)
    BY <2>1, <2>6, <2>7, <2>8 DEF CallerOK
  <2> QED
    BY <2>3, <2>6, <2>9 DEF x, q
<1> HIDE DEF r, e
<1>5. DOMAIN caller' = Callers /\ caller'[c] = r /\ \A d \in Callers \ {c} : caller'[d] = e(d)
  BY <1>2
<1>6. CallersInv'
  BY <1>1, <1>3, <1>4, <1>5 DEF CallersInv
<1>7. r.todo = todo /\ r.gives = gives /\ r.met = m
  BY DEF r
<1> QED
  BY <1>1, <1>4, <1>5, <1>6, <1>7

\* A statement went through.
LEMMA ProceedFacts ==
  ASSUME CallersInv, NEW c \in Callers, At(c, "sent"), Proceed(c), now' = now
  PROVE  /\ CallersInv'
         /\ caller'[c] # caller[c]
         /\ IsSequence(caller[c].todo) /\ caller[c].todo # <<>>
         /\ Proper(Statement(c), caller[c].gives)
         /\ \A d \in Callers \ {c} : caller'[d] = caller[d]
         /\ caller'[c].todo = Tail(caller[c].todo)
         /\ AtLast(c) => caller'[c] = Idle /\ Tail(caller[c].todo) = <<>>
         /\ ~AtLast(c) => caller'[c].gives = caller[c].gives /\ caller'[c].met = caller[c].met
<1> DEFINE q == caller[c]  t == Tail(q.todo)
           y == [stage |-> "ready", todo |-> t, at |-> 0, gives |-> q.gives, met |-> q.met]
<1>1. CallerOK(q, now) /\ q.stage = "sent" /\ now \in Nat
  BY DEF CallersInv, At
<1>2. q = [stage |-> q.stage, todo |-> q.todo, at |-> q.at, gives |-> q.gives, met |-> q.met]
  BY <1>1 DEF CallerOK, IsCall
<1>3. IsSequence(q.todo) /\ q.todo # <<>> /\ \A s \in Range(q.todo) : Proper(s, q.gives)
  BY <1>1 DEF CallerOK, Statements
<1>4. /\ IsSequence(t) /\ Len(t) = Len(q.todo) - 1 /\ Len(q.todo) \in Nat
      /\ Head(q.todo) \in Range(q.todo) /\ Range(t) \subseteq Range(q.todo)
  BY <1>3, TailFacts, HeadFacts
<1>5. AtLast(c) => t = <<>>
  <2> HIDE DEF t
  <2>1. IsSequence(t) /\ Len(t) = 0 => t = <<>>
    BY EmptySeq DEF IsSequence
  <2> QED
    BY <2>1, <1>4 DEF AtLast
<1> HIDE DEF t
<1>6. ~AtLast(c) => t # <<>>
  <2>1. ~AtLast(c) => Len(t) # 0
    BY <1>4 DEF AtLast
  <2> QED
    BY <2>1, EmptyFacts
<1>7. [q EXCEPT !.stage = "ready", !.at = 0, !.todo = t] = y
  <2> HIDE DEF q, t
  <2>1. [q EXCEPT !.stage = "ready", !.at = 0, !.todo = t]
          = [[[q EXCEPT !.stage = "ready"] EXCEPT !.at = 0] EXCEPT !.todo = t]
    OBVIOUS
  <2> DEFINE p1 == [stage |-> "ready", todo |-> q.todo, at |-> q.at, gives |-> q.gives, met |-> q.met]
             p2 == [stage |-> "ready", todo |-> q.todo, at |-> 0, gives |-> q.gives, met |-> q.met]
  <2>2. [q EXCEPT !.stage = "ready"] = p1
    BY <1>2
  <2>3. [p1 EXCEPT !.at = 0] = p2 /\ [p2 EXCEPT !.todo = t] = y
    OBVIOUS
  <2> HIDE DEF p1, p2, y
  <2> QED
    BY <2>1, <2>2, <2>3
<1>8. IsCall(y) /\ y.stage = "ready" /\ y.todo = t /\ y.at = 0 /\ y.gives = q.gives
      /\ y.met = q.met /\ y # Idle
  BY DEF IsCall, Idle
<1>9. caller' = [caller EXCEPT ![c] = IF AtLast(c) THEN Idle ELSE y]
  <2>1. CASE AtLast(c)
    BY <2>1 DEF Proceed
  <2>2. CASE ~AtLast(c)
    <3>1. caller' = [caller EXCEPT ![c] = [q EXCEPT !.stage = "ready", !.at = 0, !.todo = t]]
      BY <2>2 DEF Proceed, t
    <3> HIDE DEF y, q
    <3> QED
      BY <1>7, <2>2, <3>1
  <2> QED
    BY <2>1, <2>2
<1>10. Idle.stage = "idle" /\ Idle.todo = <<>>
  BY DEF Idle
<1> HIDE DEF y, q
<1>11. ~AtLast(c) => CallerOK(y, now)
  BY <1>1, <1>3, <1>4, <1>6, <1>8 DEF CallerOK, Statements
<1> DEFINE r == IF AtLast(c) THEN Idle ELSE y
<1>12. CallerOK(r, now) /\ r.stage # "sent"
  BY <1>1, <1>8, <1>10, <1>11, IdleOK
<1>13. caller'[c] = r /\ \A d \in Callers \ {c} : caller'[d] = caller[d]
  BY <1>9 DEF CallersInv
<1>14. CallersInv'
  BY <1>9, <1>12, CallerMoves
<1>15. Proper(Statement(c), q.gives)
  BY <1>3, <1>4 DEF Statement, q
<1>16. r.todo = t
  BY <1>5, <1>8, <1>10
<1> HIDE DEF r
<1>17. AtLast(c) => r = Idle
  BY DEF r
<1>18. ~AtLast(c) => r = y
  BY DEF r
<1> QED
  BY <1>1, <1>3, <1>5, <1>8, <1>12, <1>13, <1>14, <1>15, <1>16, <1>17, <1>18 DEF q, t

\* Tail(todo) stays in order when its head did its work.
LEMMA InOrderTail ==
  ASSUME NEW todo, IsSequence(todo), todo # <<>>, NEW t1, NEW t2, InOrder(todo, t1),
         DOMAIN t1 = Keys => DOMAIN t2 = Keys,
         Seeds(Head(todo)) => DOMAIN t2 = Keys
  PROVE  InOrder(Tail(todo), t2)
<1> DEFINE n == Len(todo)
<1>1. n \in Nat \ {0} /\ DOMAIN todo = 1..n /\ Head(todo) = todo[1]
  BY HeadFacts
<1>2. Len(Tail(todo)) = n - 1 /\ DOMAIN Tail(todo) = 1..(n - 1)
      /\ \A i \in 1..(n - 1) : Tail(todo)[i] = todo[i + 1]
  BY TailFacts
<1> HIDE DEF n
<1> SUFFICES ASSUME NEW i \in 1..(n - 1), todo[i + 1].kind = "migrate"
             PROVE  /\ Tail(todo)[n - 1].kind = "migrate"
                    /\ Tail(todo)[n - 1].step = "seed subreddits"
                    /\ DOMAIN t2 = Keys \/ \E j \in 1..(n - 1) : Seeds(Tail(todo)[j])
  BY <1>2 DEF InOrder
<1>3. i + 1 \in 1..n /\ n - 1 \in 1..(n - 1) /\ (n - 1) + 1 = n
  BY <1>1
<1>4. todo[n].kind = "migrate" /\ todo[n].step = "seed subreddits"
      /\ (DOMAIN t1 = Keys \/ \E j \in 1..n : Seeds(todo[j]))
  BY <1>1, <1>3 DEF InOrder, n
<1>5. Tail(todo)[n - 1] = todo[n]
  BY <1>2, <1>3
<1>6. ASSUME NEW j \in 1..n, Seeds(todo[j]) PROVE
        DOMAIN t2 = Keys \/ \E k \in 1..(n - 1) : Seeds(Tail(todo)[k])
  <2>1. CASE j = 1
    BY <2>1, <1>1, <1>6
  <2>2. CASE j # 1
    <3>1. j - 1 \in 1..(n - 1) /\ (j - 1) + 1 = j
      BY <2>2, <1>1
    <3>2. Tail(todo)[j - 1] = todo[j]
      BY <3>1, <1>2
    <3> QED
      BY <3>1, <3>2, <1>6
  <2> QED
    BY <2>1, <2>2
<1> QED
  BY <1>4, <1>5, <1>6

-----------------------------------------------------------------------------
(* What a step leaves in the state *)

LEMMA InitInv == Init => IInv
<1> SUFFICES ASSUME Init PROVE IInv
  OBVIOUS
<1>1. CallersInv
  BY CallersInit
<1>2. \A c \in Callers : caller[c] = Idle /\ Idle.todo = <<>> /\ Idle.gives = <<>>
  BY DEF Init, Idle
<1>3. MigrationInv
  BY <1>2, EmptyFacts DEF MigrationInv, InOrder
<1>4. TablesInv
  BY EmptyFacts DEF Init, TablesInv
<1>5. \A k \in Keys : ValueOf(k) = None /\ <<k, None>> \in expected
  BY EmptyFacts DEF Init, ValueOf
<1>6. SavingInv
  <2>1. \A c \in Callers : \A keys : Pairs(caller[c].gives, keys) = {}
    BY <1>2, EmptyFacts DEF Pairs
  <2>2. \A c \in Callers : SeedsUnset(caller[c].todo, caller[c].gives, settings)
    BY <1>2, EmptyFacts DEF SeedsUnset
  <2> QED
    BY <1>2, <1>5, <2>1, <2>2, EmptyFacts DEF SavingInv
<1> QED
  BY <1>1, <1>3, <1>4, <1>6 DEF IInv

\* A call begins: the settings it gives are still to be written.
LEMMA CallInv ==
  ASSUME IInv, NEW c \in Callers, NEW todo, NEW gives, LegalCall(todo, gives),
         Call(c, todo, gives)
  PROVE  IInv'
<1>1. UNCHANGED <<tables, now, migrated>> /\ expected' = expected \cup Pairs(gives, Keys)
  BY DEF Call
<1>2. /\ CallersInv'
      /\ caller[c] = Idle
      /\ caller'[c].todo = todo /\ caller'[c].gives = gives
      /\ caller'[c].met = UNION {Pairs(caller[e].gives, DOMAIN gives) : e \in Callers}
      /\ \A d \in Callers \ {c} :
           /\ caller'[d].todo = caller[d].todo /\ caller'[d].gives = caller[d].gives
           /\ caller'[d].met = caller[d].met \cup Pairs(gives, DOMAIN caller[d].gives)
  BY CallFacts DEF IInv
<1>3. MigrationInv'
  BY <1>1, <1>2 DEF IInv, MigrationInv, LegalCall, tables
<1>4. TablesInv'
  BY <1>1 DEF IInv, TablesInv, tables
<1>5. SavingInv'
  <2>1. settings' = settings /\ \A k \in Keys : ValueOf(k)' = ValueOf(k)
    BY <1>1 DEF tables, ValueOf
  <2>2. ASSUME NEW d \in Callers, NEW e \in Callers, d # e
        PROVE  Pairs(caller'[e].gives, DOMAIN caller'[d].gives) \subseteq caller'[d].met
    <3>1. CASE d # c /\ e # c
      BY <2>2, <3>1, <1>2 DEF IInv, SavingInv
    <3>2. CASE d = c
      BY <2>2, <3>2, <1>2
    <3>3. CASE e = c
      BY <2>2, <3>3, <1>2
    <3> QED
      BY <3>1, <3>2, <3>3
  <2>3. \A d \in Callers : Pairs(caller'[d].gives, Keys) \subseteq expected'
    BY <1>1, <1>2 DEF IInv, SavingInv
  <2>4. ASSUME NEW d \in Callers, NEW k \in Keys, k \in DOMAIN caller'[d].gives
        PROVE  \/ \E s \in Range(caller'[d].todo) : Writes(s, k)
               \/ ValueOf(k)' = caller'[d].gives[k]
               \/ <<k, ValueOf(k)'>> \in caller'[d].met
    <3>1. CASE d = c
      BY <2>4, <3>1, <1>2 DEF LegalCall
    <3>2. CASE d # c
      BY <2>4, <3>2, <1>2, <2>1 DEF IInv, SavingInv
    <3> QED
      BY <3>1, <3>2
  <2>5. \A d \in Callers : SeedsUnset(caller'[d].todo, caller'[d].gives, settings')
    BY <1>2, <2>1 DEF IInv, SavingInv, LegalCall
  <2>6. \A k \in Keys : <<k, ValueOf(k)'>> \in expected'
    BY <1>1, <2>1 DEF IInv, SavingInv
  <2> QED
    BY <2>2, <2>3, <2>4, <2>5, <2>6 DEF SavingInv
<1> QED
  BY <1>2, <1>3, <1>4, <1>5 DEF IInv

LEMMA PairsFacts ==
  ASSUME NEW gives, NEW keys
  PROVE  /\ \A k \in keys : k \in DOMAIN gives => <<k, gives[k]>> \in Pairs(gives, keys)
         /\ \A p \in Pairs(gives, keys) :
              p[1] \in DOMAIN gives \cap keys /\ p = <<p[1], gives[p[1]]>>
BY DEF Pairs

\* A statement went through that wrote what it is for: what the caller has written is
\* there until one that the caller has met writes, and after its last is expected.
LEMMA ProceedSaving ==
  ASSUME IInv, NEW c \in Callers, At(c, "sent"), Proceed(c), now' = now,
         DOMAIN settings \subseteq DOMAIN settings',
         \A k \in Keys : Writes(Statement(c), k) =>
           k \in DOMAIN caller[c].gives /\ ValueOf(k)' = caller[c].gives[k],
         \A k \in Keys : ~Writes(Statement(c), k) => ValueOf(k)' = ValueOf(k)
  PROVE  SavingInv'
<1> DEFINE gives == caller[c].gives  todo == caller[c].todo  met == caller[c].met
<1>1. /\ CallersInv'
      /\ IsSequence(todo) /\ todo # <<>>
      /\ \A d \in Callers \ {c} : caller'[d] = caller[d]
      /\ caller'[c].todo = Tail(todo)
      /\ AtLast(c) => caller'[c] = Idle /\ Tail(todo) = <<>>
      /\ ~AtLast(c) => caller'[c].gives = gives /\ caller'[c].met = met
  BY ProceedFacts DEF IInv
<1>2. Range(todo) = {Statement(c)} \cup Range(Tail(todo))
  BY <1>1, TailFacts DEF Statement
<1>3. Idle.gives = <<>> /\ DOMAIN <<>> = {} /\ Range(<<>>) = {}
  BY EmptyFacts DEF Idle
<1>4. \A k \in Keys : k \notin DOMAIN gives => ValueOf(k)' = ValueOf(k)
  OBVIOUS
\* What the caller gives, and has nothing left to write of, is there.
<1>5. ASSUME NEW k \in Keys, k \in DOMAIN gives, \A s \in Range(Tail(todo)) : ~Writes(s, k)
      PROVE  ValueOf(k)' = gives[k] \/ <<k, ValueOf(k)'>> \in met
  <2>1. CASE Writes(Statement(c), k)
    BY <2>1
  <2>2. CASE ~Writes(Statement(c), k)
    <3>1. ValueOf(k) = gives[k] \/ <<k, ValueOf(k)>> \in met
      BY <1>2, <1>5, <2>2 DEF IInv, SavingInv
    <3> QED
      BY <3>1, <2>2
  <2> QED
    BY <2>1, <2>2
<1>6. AtLast(c) => expected' = {p \in expected : p[1] \notin DOMAIN gives} \cup Pairs(gives, Keys) \cup met
  BY DEF Proceed
<1>7. ~AtLast(c) => expected' = expected
  BY DEF Proceed
<1>8. \A k \in Keys : \A v : k \notin DOMAIN gives /\ <<k, v>> \in expected => <<k, v>> \in expected'
  <2>1. \A k, v : <<k, v>>[1] = k
    OBVIOUS
  <2> QED
    BY <2>1, <1>6, <1>7
<1> HIDE DEF gives, todo, met
<1>9. \A d \in Callers : DOMAIN caller'[d].gives \subseteq DOMAIN caller[d].gives
                         /\ (d # c \/ ~AtLast(c) => caller'[d].gives = caller[d].gives
                                                    /\ caller'[d].met = caller[d].met)
  BY <1>1, <1>3 DEF gives, met
<1>10. ASSUME NEW d \in Callers, NEW e \in Callers, d # e
       PROVE  Pairs(caller'[e].gives, DOMAIN caller'[d].gives) \subseteq caller'[d].met
  <2>1. CASE AtLast(c) /\ (d = c \/ e = c)
    <3>1. DOMAIN caller'[d].gives \cap DOMAIN caller'[e].gives = {}
      BY <2>1, <1>1, <1>3
    <3> QED
      BY <3>1 DEF Pairs
  <2>2. CASE ~(AtLast(c) /\ (d = c \/ e = c))
    BY <2>2, <1>9, <1>10 DEF IInv, SavingInv
  <2> QED
    BY <2>1, <2>2
<1>11. ASSUME NEW d \in Callers PROVE Pairs(caller'[d].gives, Keys) \subseteq expected'
  <2>1. CASE ~AtLast(c)
    BY <2>1, <1>7, <1>9 DEF IInv, SavingInv
  <2>2. CASE d = c /\ AtLast(c)
    BY <2>2, <1>1, <1>3 DEF Pairs
  <2>3. CASE d # c /\ AtLast(c)
    <3>1. caller'[d].gives = caller[d].gives
      BY <2>3, <1>9
    <3>2. Pairs(caller[d].gives, DOMAIN gives) \subseteq met
      BY <2>3 DEF IInv, SavingInv, gives, met
    <3>3. ASSUME NEW p \in Pairs(caller[d].gives, Keys) PROVE p \in expected'
      <4>1. p[1] \in DOMAIN caller[d].gives /\ p[1] \in Keys /\ p = <<p[1], caller[d].gives[p[1]]>>
            /\ p \in expected
        BY <3>3, PairsFacts DEF IInv, SavingInv
      <4>2. CASE p[1] \in DOMAIN gives
        BY <4>1, <4>2, <3>2, <2>3, <1>6, PairsFacts
      <4>3. CASE p[1] \notin DOMAIN gives
        BY <4>1, <4>3, <1>8
      <4> QED
        BY <4>2, <4>3
    <3> QED
      BY <3>1, <3>3
  <2> QED
    BY <2>1, <2>2, <2>3
<1>12. ASSUME NEW d \in Callers, NEW k \in Keys, k \in DOMAIN caller'[d].gives
       PROVE  \/ \E s \in Range(caller'[d].todo) : Writes(s, k)
              \/ ValueOf(k)' = caller'[d].gives[k]
              \/ <<k, ValueOf(k)'>> \in caller'[d].met
  <2>1. CASE d = c
    <3>1. ~AtLast(c)
      BY <2>1, <1>12, <1>1, <1>3
    <3> QED
      BY <2>1, <3>1, <1>12, <1>1, <1>5
  <2>2. CASE d # c
    <3>1. caller'[d] = caller[d]
      BY <2>2, <1>1
    <3>2. CASE Writes(Statement(c), k)
      <4>1. k \in DOMAIN gives /\ ValueOf(k)' = gives[k]
        BY <3>2 DEF gives
      <4>2. Pairs(gives, DOMAIN caller[d].gives) \subseteq caller[d].met
        BY <2>2 DEF IInv, SavingInv, gives
      <4>3. <<k, gives[k]>> \in caller[d].met
        BY <4>1, <4>2, <3>1, <1>12, PairsFacts
      <4> QED
        BY <4>1, <4>3, <3>1
    <3>3. CASE ~Writes(Statement(c), k)
      BY <3>1, <3>3, <1>12 DEF IInv, SavingInv
    <3> QED
      BY <3>2, <3>3
  <2> QED
    BY <2>1, <2>2
<1>13. ASSUME NEW d \in Callers PROVE SeedsUnset(caller'[d].todo, caller'[d].gives, settings')
  <2>1. CASE d = c /\ AtLast(c)
    BY <2>1, <1>1, <1>3 DEF SeedsUnset
  <2>2. CASE d # c \/ ~AtLast(c)
    <3>1. Range(caller'[d].todo) \subseteq Range(caller[d].todo) /\ caller'[d].gives = caller[d].gives
      BY <2>2, <1>1, <1>2, <1>9 DEF todo
    <3>2. SeedsUnset(caller[d].todo, caller[d].gives, settings)
      BY DEF IInv, SavingInv
    <3> QED
      BY <3>1, <3>2 DEF SeedsUnset
  <2> QED
    BY <2>1, <2>2
<1>14. ASSUME NEW k \in Keys PROVE <<k, ValueOf(k)'>> \in expected'
  <2>1. CASE k \notin DOMAIN gives
    BY <2>1, <1>4, <1>8 DEF IInv, SavingInv, gives
  <2>2. CASE k \in DOMAIN gives /\ AtLast(c)
    <3>1. ValueOf(k)' = gives[k] \/ <<k, ValueOf(k)'>> \in met
      BY <2>2, <1>1, <1>3, <1>5
    <3> QED
      BY <3>1, <2>2, <1>6, PairsFacts
  <2>3. CASE k \in DOMAIN gives /\ ~AtLast(c)
    <3>1. CASE Writes(Statement(c), k)
      <4>1. <<k, gives[k]>> \in expected
        BY <2>3, PairsFacts DEF IInv, SavingInv, gives
      <4> QED
        BY <3>1, <4>1, <2>3, <1>7 DEF gives
    <3>2. CASE ~Writes(Statement(c), k)
      BY <3>2, <2>3, <1>7 DEF IInv, SavingInv
    <3> QED
      BY <3>1, <3>2
  <2> QED
    BY <2>1, <2>2, <2>3
<1> QED
  BY <1>10, <1>11, <1>12, <1>13, <1>14 DEF SavingInv

\* Callers go back to idle, and what they gave stays expected.
LEMMA IdleSaving ==
  ASSUME SavingInv, UNCHANGED <<settings, expected>>,
         \A d \in Callers : caller'[d] = caller[d] \/ caller'[d] = Idle
  PROVE  SavingInv'
<1>1. Idle.gives = <<>> /\ Idle.todo = <<>> /\ DOMAIN <<>> = {} /\ Range(<<>>) = {}
  BY EmptyFacts DEF Idle
<1>2. \A d \in Callers : DOMAIN caller'[d].gives # {} => caller'[d] = caller[d]
  BY <1>1
<1>3. \A k \in Keys : ValueOf(k)' = ValueOf(k)
  BY DEF ValueOf
<1>4. \A gives, keys : DOMAIN gives = {} \/ keys = {} => Pairs(gives, keys) = {}
  BY DEF Pairs
<1>5. ASSUME NEW d \in Callers, NEW e \in Callers, d # e
      PROVE  Pairs(caller'[e].gives, DOMAIN caller'[d].gives) \subseteq caller'[d].met
  BY <1>2, <1>4, <1>5 DEF SavingInv
<1>6. \A d \in Callers : Pairs(caller'[d].gives, Keys) \subseteq expected'
  BY <1>2, <1>4 DEF SavingInv
<1>7. \A d \in Callers, k \in Keys : k \in DOMAIN caller'[d].gives =>
        \/ \E s \in Range(caller'[d].todo) : Writes(s, k)
        \/ ValueOf(k)' = caller'[d].gives[k]
        \/ <<k, ValueOf(k)'>> \in caller'[d].met
  BY <1>2, <1>3 DEF SavingInv
<1>8. \A d \in Callers : SeedsUnset(caller'[d].todo, caller'[d].gives, settings')
  BY <1>1 DEF SavingInv, SeedsUnset
<1> QED
  BY <1>3, <1>5, <1>6, <1>7, <1>8 DEF SavingInv

\* A caller goes back to idle, whatever of its statements is left.
LEMMA ReturnErrorInv ==
  ASSUME IInv, NEW c \in Callers, ReturnError(c)
  PROVE  IInv'
<1>1. caller' = [caller EXCEPT ![c] = Idle] /\ UNCHANGED <<tables, now, histories>>
  BY DEF ReturnError
<1>2. DOMAIN caller = Callers /\ now \in Nat
  BY DEF IInv, CallersInv
<1>3. caller'[c] = Idle /\ \A d \in Callers \ {c} : caller'[d] = caller[d]
  BY <1>1, <1>2
<1>4. CallersInv'
  <2>1. CallerOK(Idle, now)
    BY <1>2, IdleOK
  <2> QED
    BY <2>1, <1>1, CallerMoves DEF IInv
<1>5. Idle.todo = <<>> /\ Idle.gives = <<>> /\ DOMAIN <<>> = {}
  BY EmptyFacts DEF Idle
<1>6. MigrationInv'
  <2>1. InOrder(<<>>, settings')
    BY <1>5 DEF InOrder
  <2>2. settings' = settings
    BY <1>1 DEF tables
  <2> QED
    BY <2>1, <2>2, <1>3, <1>5 DEF IInv, MigrationInv
<1>7. TablesInv'
  BY <1>1 DEF IInv, TablesInv, tables, histories
<1>8. SavingInv'
  BY <1>1, <1>3, IdleSaving DEF IInv, tables, histories
<1> QED
  BY <1>4, <1>6, <1>7, <1>8 DEF IInv

LEMMA CrashInv == ASSUME IInv, Crash PROVE IInv'
<1>1. caller' = [c \in Callers |-> Idle] /\ UNCHANGED <<tables, now, histories>>
  BY DEF Crash
<1>2. \A c \in Callers : caller'[c] = Idle
  BY <1>1
<1>3. Idle.todo = <<>> /\ Idle.gives = <<>> /\ DOMAIN <<>> = {}
  BY EmptyFacts DEF Idle
<1>4. CallersInv'
  BY <1>1, IdleOK DEF IInv, CallersInv
<1>5. MigrationInv'
  BY <1>2, <1>3 DEF MigrationInv, InOrder
<1>6. TablesInv'
  BY <1>1 DEF IInv, TablesInv, tables, histories
<1>7. SavingInv'
  BY <1>1, <1>2, IdleSaving DEF IInv, tables, histories
<1> QED
  BY <1>4, <1>5, <1>6, <1>7 DEF IInv

LEMMA SendInv == ASSUME IInv, NEW c \in Callers, Send(c) PROVE IInv'
<1> DEFINE q == caller[c]
           a == IF Statement(c).kind = "migrate" THEN 0 ELSE now
           y == [stage |-> "sent", todo |-> q.todo, at |-> a, gives |-> q.gives, met |-> q.met]
<1>1. UNCHANGED <<tables, now, histories>> /\ q.stage = "ready"
  BY DEF Send, At
<1>2. CallerOK(q, now) /\ now \in Nat
  BY DEF IInv, CallersInv
<1>3. caller' = [caller EXCEPT ![c] = y]
  <2>1. q = [stage |-> q.stage, todo |-> q.todo, at |-> q.at, gives |-> q.gives, met |-> q.met]
    BY <1>2 DEF CallerOK, IsCall
  <2>2. caller' = [caller EXCEPT ![c] = [q EXCEPT !.stage = "sent", !.at = a]]
    BY DEF Send, IInv, CallersInv
  <2> DEFINE p == [stage |-> "sent", todo |-> q.todo, at |-> q.at, gives |-> q.gives,
                   met |-> q.met]
  <2> HIDE DEF q, a
  <2>3. [q EXCEPT !.stage = "sent"] = p
    BY <2>1
  <2>4. [p EXCEPT !.at = a] = y
    OBVIOUS
  <2>5. [q EXCEPT !.stage = "sent", !.at = a] = [[q EXCEPT !.stage = "sent"] EXCEPT !.at = a]
    OBVIOUS
  <2> HIDE DEF p, y
  <2> QED
    BY <2>2, <2>3, <2>4, <2>5
<1>4. IsCall(y) /\ y.stage = "sent" /\ y.todo = q.todo /\ y.at = a /\ y.gives = q.gives
      /\ y.met = q.met /\ y # Idle
  BY DEF IsCall, Idle
<1>13. a \in Nat /\ a <= now
  BY <1>2
<1> HIDE DEF y, q, a
<1>5. CallerOK(y, now)
  BY <1>1, <1>2, <1>4, <1>13 DEF CallerOK
<1>6. CallersInv'
  BY <1>1, <1>3, <1>5, CallerMoves DEF IInv
<1>7. \A d \in Callers :
        caller'[d].todo = caller[d].todo /\ caller'[d].gives = caller[d].gives
        /\ caller'[d].met = caller[d].met
  BY <1>3, <1>4 DEF IInv, CallersInv, q
<1>8. settings' = settings /\ expected' = expected
  BY <1>1 DEF tables, histories
<1>9. MigrationInv'
  BY <1>7, <1>8 DEF IInv, MigrationInv
<1>10. TablesInv'
  BY <1>1 DEF IInv, TablesInv, tables, histories
<1>11. SavingInv'
  <2>1. \A k \in Keys : ValueOf(k)' = ValueOf(k)
    BY <1>8 DEF ValueOf
  <2> QED
    BY <1>7, <1>8, <2>1 DEF IInv, SavingInv
<1> QED
  BY <1>6, <1>9, <1>10, <1>11 DEF IInv

\* The clock goes on; the tables stay.
LEMMA QuietInv ==
  ASSUME IInv, UNCHANGED <<tables, caller, histories>>, now' \in Nat, now <= now'
  PROVE  IInv'
<1>1. now \in Nat
  BY DEF IInv, CallersInv
<1>2. CallersInv'
  <2>1. ASSUME NEW r, CallerOK(r, now) PROVE CallerOK(r, now')
    <3>1. r.at <= now'
      BY <1>1, <2>1 DEF CallerOK
    <3> QED
      BY <2>1, <3>1 DEF CallerOK
  <2> QED
    BY <2>1 DEF IInv, CallersInv
<1>3. MigrationInv'
  BY DEF IInv, MigrationInv, tables
<1>4. SavingInv'
  BY DEF IInv, SavingInv, ValueOf, tables, histories
<1>5. TablesInv'
  <2>1. \A a \in userActions : a.created <= now'
    BY <1>1 DEF IInv, TablesInv
  <2> QED
    BY <2>1 DEF IInv, TablesInv, tables, histories
<1> QED
  BY <1>2, <1>3, <1>4, <1>5 DEF IInv

\* A statement went through: what is left of the proof is what it did to the tables.
LEMMA ProceedInv ==
  ASSUME IInv, NEW c \in Callers, At(c, "sent"), Proceed(c), now' = now,
         DOMAIN settings \subseteq DOMAIN settings',
         Seeds(Statement(c)) => DOMAIN settings' = Keys,
         \A k \in Keys : Writes(Statement(c), k) =>
           k \in DOMAIN caller[c].gives /\ ValueOf(k)' = caller[c].gives[k],
         \A k \in Keys : ~Writes(Statement(c), k) => ValueOf(k)' = ValueOf(k),
         TablesInv'
  PROVE  IInv'
<1>1. /\ CallersInv'
      /\ IsSequence(caller[c].todo) /\ caller[c].todo # <<>>
      /\ \A d \in Callers \ {c} : caller'[d] = caller[d]
      /\ caller'[c].todo = Tail(caller[c].todo)
  BY ProceedFacts DEF IInv
<1>2. MigrationInv'
  <2>1. InOrder(caller[c].todo, settings)
    BY DEF IInv, MigrationInv
  <2>4. DOMAIN settings = Keys => DOMAIN settings' = Keys
    BY DEF TablesInv
  <2>2. InOrder(caller'[c].todo, settings')
    BY <2>1, <2>4, <1>1, InOrderTail DEF Statement
  <2>3. ASSUME NEW d \in Callers \ {c} PROVE InOrder(caller'[d].todo, settings')
    BY <2>4, <1>1 DEF IInv, MigrationInv, InOrder
  <2> QED
    BY <2>2, <2>3 DEF MigrationInv
<1>3. SavingInv'
  BY ProceedSaving
<1> QED
  BY <1>1, <1>2, <1>3 DEF IInv

LEMMA ProceedElsewhere ==
  ASSUME IInv, NEW c \in Callers, At(c, "sent"), Proceed(c), now' = now, settings' = settings,
         Statement(c).kind \notin {"migrate", "setting"}, TablesInv'
  PROVE  IInv'
<1>1. \A k \in Keys : ~Writes(Statement(c), k) /\ ValueOf(k)' = ValueOf(k)
  BY DEF Writes, ValueOf
<1>2. ~Seeds(Statement(c))
  BY DEF Seeds
<1> QED
  BY <1>1, <1>2, ProceedInv

\* The statement of a caller in the middle of a call
LEMMA StatementFacts ==
  ASSUME IInv, NEW c \in Callers, At(c, "sent")
  PROVE  /\ Proper(Statement(c), caller[c].gives) /\ DOMAIN caller[c].gives \subseteq Keys
         /\ caller[c].at \in Nat /\ caller[c].at <= now
         /\ Len(caller[c].todo) \in Nat \ {0} /\ Statement(c) = caller[c].todo[1]
         /\ DOMAIN caller[c].todo = 1..Len(caller[c].todo)
<1>1. CallerOK(caller[c], now) /\ caller[c].stage = "sent"
  BY DEF IInv, CallersInv, At
<1>2. Statements(caller[c].todo, caller[c].gives) /\ caller[c].todo # <<>>
  BY <1>1 DEF CallerOK
<1> QED
  BY <1>1, <1>2, HeadFacts DEF CallerOK, Statements, Statement

LEMMA MigrateStepInv == ASSUME IInv, NEW c \in Callers, MigrateStep(c) PROVE IInv'
<1> DEFINE step == Statement(c).step  gives == caller[c].gives  todo == caller[c].todo
<1>1. /\ At(c, "sent") /\ Proceed(c) /\ now' = now /\ Statement(c).kind = "migrate"
      /\ CanMigrate(step)
      /\ UNCHANGED <<posts, keywords, apiKeys, userActions, lastId>>
      /\ schema' = schema \cup ({step} \ {"seed settings", "seed subreddits"})
      /\ migrated' = (migrated \/ AtLast(c))
  BY DEF MigrateStep, Sent
<1>2. step = "seed settings" =>
        settings' = [k \in Keys |-> [value |-> SeedValues[k], created |-> now]]
  BY DEF MigrateStep
<1>3. step # "seed settings" => settings' = settings
  BY DEF MigrateStep
<1>4. step = "seed subreddits" => subreddits' = [name \in Subreddits |-> None]
  BY DEF MigrateStep
<1>5. step # "seed subreddits" => subreddits' = subreddits
  BY DEF MigrateStep
<1>6. step \in Range(Migration) /\ \A k \in DOMAIN gives : gives[k] = SeedValues[k]
  BY <1>1, StatementFacts DEF Proper
<1>7. Seeds(Statement(c)) <=> step = "seed settings"
  BY <1>1 DEF Seeds
<1>8. \A k \in Keys : Writes(Statement(c), k) <=> step = "seed settings"
  BY <1>1 DEF Writes
<1>9. AtLast(c) => step = "seed subreddits" /\ DOMAIN settings = Keys
  <2> SUFFICES ASSUME AtLast(c) PROVE step = "seed subreddits" /\ DOMAIN settings = Keys
    OBVIOUS
  <2>1. Len(todo) = 1 /\ todo[1] = Statement(c) /\ DOMAIN todo = 1..1
    BY <1>1, StatementFacts DEF AtLast
  <2>2. InOrder(todo, settings)
    BY DEF IInv, MigrationInv
  <2>3. 1 \in DOMAIN todo /\ \A j \in DOMAIN todo : j = 1
    BY <2>1
  <2>4. step = "seed subreddits" /\ (DOMAIN settings = Keys \/ Seeds(todo[1]))
    BY <2>1, <2>2, <2>3, <1>1 DEF InOrder
  <2> QED
    BY <2>1, <2>4 DEF Seeds
<1>16. step = "seed settings" => Keys \subseteq DOMAIN gives /\ DOMAIN settings = {}
  <2> SUFFICES ASSUME step = "seed settings" PROVE Keys \subseteq DOMAIN gives /\ DOMAIN settings = {}
    OBVIOUS
  <2>1. DOMAIN settings = {}
    BY <1>1 DEF CanMigrate, MaySeed, IInv, TablesInv
  <2>2. Statement(c) \in Range(todo)
    <3>1. IsSequence(todo) /\ todo # <<>>
      BY <1>1, ProceedFacts DEF IInv
    <3> QED
      BY <3>1, HeadFacts DEF Statement
  <2>3. SeedsUnset(todo, gives, settings)
    BY DEF IInv, SavingInv
  <2> QED
    BY <2>1, <2>2, <2>3, <1>7 DEF SeedsUnset
<1> HIDE DEF step
<1>10. \A k \in Keys : Writes(Statement(c), k) => k \in DOMAIN gives /\ ValueOf(k)' = gives[k]
  <2> SUFFICES ASSUME NEW k \in Keys, step = "seed settings" PROVE ValueOf(k)' = SeedValues[k]
    BY <1>6, <1>8, <1>16
  <2> DEFINE row == [value |-> SeedValues[k], created |-> now]
  <2>1. row.value = SeedValues[k]
    OBVIOUS
  <2>2. k \in DOMAIN settings' /\ settings'[k] = row
    BY <1>2
  <2> HIDE DEF row
  <2> QED
    BY <2>1, <2>2 DEF ValueOf
<1>11. \A k \in Keys : ~Writes(Statement(c), k) => ValueOf(k)' = ValueOf(k)
  BY <1>3, <1>8 DEF ValueOf
<1>12. /\ DOMAIN settings' \subseteq Keys /\ DOMAIN settings \subseteq DOMAIN settings'
       /\ DOMAIN settings = Keys => DOMAIN settings' = Keys
  BY <1>2, <1>3, <1>16 DEF IInv, TablesInv
<1>13. /\ DOMAIN subreddits' \subseteq Subreddits
       /\ DOMAIN subreddits = Subreddits => DOMAIN subreddits' = Subreddits
  BY <1>4, <1>5 DEF IInv, TablesInv
<1>14. TablesInv'
  <2>1. schema' \subseteq Range(Migration)
    BY <1>1, <1>6 DEF IInv, TablesInv
  <2>2. migrated' => DOMAIN settings' = Keys /\ DOMAIN subreddits' = Subreddits
    BY <1>1, <1>4, <1>9, <1>12, <1>13 DEF IInv, TablesInv
  <2> QED
    BY <2>1, <2>2, <1>1, <1>12, <1>13 DEF IInv, TablesInv
<1>15. Seeds(Statement(c)) => DOMAIN settings' = Keys
  BY <1>2, <1>7
<1> HIDE DEF gives
<1> QED
  BY <1>1, <1>10, <1>11, <1>12, <1>14, <1>15, ProceedInv DEF gives

LEMMA ReplaceSettingInv == ASSUME IInv, NEW c \in Callers, ReplaceSetting(c) PROVE IInv'
<1> DEFINE key == Statement(c).key  gives == caller[c].gives
<1>1. /\ At(c, "sent") /\ Proceed(c) /\ now' = now /\ Statement(c).kind = "setting"
      /\ settings' = Replaced(settings, key, Statement(c).value, caller[c].at)
      /\ UNCHANGED <<schema, posts, keywords, apiKeys, userActions, subreddits, lastId, migrated>>
  BY DEF ReplaceSetting, Sent
<1>2. key \in Keys /\ key \in DOMAIN gives /\ Statement(c).value = gives[key]
  BY <1>1, StatementFacts DEF Proper
<1>3. \A k \in Keys : Writes(Statement(c), k) <=> k = key
  BY <1>1 DEF Writes
<1>4. ~Seeds(Statement(c))
  BY <1>1 DEF Seeds
<1> HIDE DEF key, gives
<1>5. DOMAIN settings' = DOMAIN settings \cup {key} /\ settings'[key].value = gives[key]
      /\ \A k \in DOMAIN settings : k # key => settings'[k] = settings[k]
  BY <1>1, <1>2 DEF Replaced
<1>6. DOMAIN settings \subseteq Keys
  BY DEF IInv, TablesInv
<1>7. \A k \in Keys : Writes(Statement(c), k) => k \in DOMAIN gives /\ ValueOf(k)' = gives[k]
  BY <1>2, <1>3, <1>5 DEF ValueOf
<1>8. \A k \in Keys : ~Writes(Statement(c), k) => ValueOf(k)' = ValueOf(k)
  BY <1>3, <1>5 DEF ValueOf
<1>9. /\ DOMAIN settings' \subseteq Keys /\ DOMAIN settings \subseteq DOMAIN settings'
      /\ DOMAIN settings = Keys => DOMAIN settings' = Keys
  BY <1>2, <1>5, <1>6
<1>10. TablesInv'
  BY <1>1, <1>9 DEF IInv, TablesInv
<1> QED
  BY <1>1, <1>4, <1>7, <1>8, <1>9, <1>10, ProceedInv DEF gives

LEMMA ReplaceKeyInv == ASSUME IInv, NEW c \in Callers, ReplaceKey(c) PROVE IInv'
<1>1. /\ At(c, "sent") /\ Proceed(c) /\ now' = now /\ Statement(c).kind = "key"
      /\ apiKeys' = Replaced(apiKeys, Statement(c).key, Statement(c).value, caller[c].at)
      /\ UNCHANGED <<schema, posts, keywords, settings, userActions, subreddits, lastId, migrated>>
  BY DEF ReplaceKey, Sent
<1>2. Statement(c).key \in Providers
  BY <1>1, StatementFacts DEF Proper
<1>3. DOMAIN apiKeys' = DOMAIN apiKeys \cup {Statement(c).key}
  BY <1>1 DEF Replaced
<1>4. TablesInv'
  BY <1>1, <1>2, <1>3 DEF IInv, TablesInv
<1> QED
  BY <1>1, <1>4, ProceedElsewhere

LEMMA ReplacePostInv == ASSUME IInv, NEW c \in Callers, ReplacePost(c) PROVE IInv'
<1>1. /\ At(c, "sent") /\ Proceed(c) /\ now' = now /\ Statement(c).kind = "post"
      /\ posts' = posts \cup {Statement(c).post}
      /\ userActions' = Cascade(Statement(c).post)
      /\ UNCHANGED <<schema, keywords, settings, apiKeys, subreddits, lastId, migrated>>
  BY DEF ReplacePost, Sent
<1>2. Statement(c).post \in Posts
  BY <1>1, StatementFacts DEF Proper
<1>3. userActions' \subseteq userActions /\ posts \subseteq posts'
  BY <1>1 DEF Cascade
<1>4. TablesInv'
  BY <1>1, <1>2, <1>3 DEF IInv, TablesInv
<1> QED
  BY <1>1, <1>4, ProceedElsewhere

LEMMA InsertKeywordInv == ASSUME IInv, NEW c \in Callers, InsertKeyword(c) PROVE IInv'
<1> DEFINE text == Statement(c).text  id == lastId.keyword + 1
<1>1. /\ At(c, "sent") /\ Proceed(c) /\ now' = now /\ Statement(c).kind = "keyword"
      /\ keywords' = [t \in DOMAIN keywords \cup {text} |-> IF t = text THEN id ELSE keywords[t]]
      /\ lastId' = [lastId EXCEPT !.keyword = id]
      /\ UNCHANGED <<schema, posts, settings, apiKeys, userActions, subreddits, migrated>>
  BY DEF InsertKeyword, Sent
<1>2. text \in Words
  BY <1>1, StatementFacts DEF Proper
<1>3. lastId \in [keyword : Nat, action : Nat] /\ id \in Nat
  BY DEF IInv, TablesInv
<1> HIDE DEF id, text
<1>4. lastId' \in [keyword : Nat, action : Nat] /\ lastId'.action = lastId.action
  BY <1>1, <1>3
<1>5. DOMAIN keywords' = DOMAIN keywords \cup {text}
  BY <1>1
<1>6. TablesInv'
  BY <1>1, <1>2, <1>4, <1>5 DEF IInv, TablesInv
<1> QED
  BY <1>1, <1>6, ProceedElsewhere

LEMMA InsertActionInv == ASSUME IInv, NEW c \in Callers, InsertAction(c) PROVE IInv'
<1> DEFINE n == lastId.action + 1
           new == [id |-> n, post |-> Statement(c).post, created |-> caller[c].at]
<1>1. /\ At(c, "sent") /\ Proceed(c) /\ now' = now /\ Statement(c).kind = "action"
      /\ Statement(c).post \in posts
      /\ userActions' = userActions \cup {new}
      /\ lastId' = [lastId EXCEPT !.action = n]
      /\ UNCHANGED <<schema, posts, keywords, settings, apiKeys, subreddits, migrated>>
  BY DEF InsertAction, Sent, CanAct
<1>2. lastId \in [keyword : Nat, action : Nat] /\ lastId.action \in Nat /\ n = lastId.action + 1
  BY DEF IInv, TablesInv
<1>3. caller[c].at \in Nat /\ caller[c].at <= now
  BY <1>1, StatementFacts
<1>4. new.id = n /\ new.post = Statement(c).post /\ new.created = caller[c].at
  OBVIOUS
<1> HIDE DEF n, new
<1>5. n \in Nat /\ n > lastId.action /\ n \in 1..n
  BY <1>2
<1>6. lastId' \in [keyword : Nat, action : Nat] /\ lastId'.action = n
  BY <1>1, <1>2, <1>5
<1>7. \A a \in userActions : a.post \in posts /\ a.id \in 1..lastId.action /\ a.created \in Nat
                             /\ a.created <= now
  BY DEF IInv, TablesInv
<1>8. \A a \in userActions : a.id \in 1..n /\ a.id # n
  BY <1>2, <1>5, <1>7
<1>9. \A a \in userActions' :
        a.post \in posts' /\ a.id \in 1..lastId'.action /\ a.created \in Nat /\ a.created <= now'
  BY <1>1, <1>3, <1>4, <1>5, <1>6, <1>7, <1>8
<1>10. \A a, b \in userActions' : a.id = b.id => a = b
  BY <1>1, <1>4, <1>8 DEF IInv, TablesInv
<1>11. TablesInv'
  BY <1>1, <1>6, <1>9, <1>10 DEF IInv, TablesInv
<1> QED
  BY <1>1, <1>11, ProceedElsewhere

LEMMA UpdateFetchTimeInv == ASSUME IInv, NEW c \in Callers, UpdateFetchTime(c) PROVE IInv'
<1>1. /\ At(c, "sent") /\ Proceed(c) /\ now' = now /\ Statement(c).kind = "fetched"
      /\ DOMAIN subreddits' = DOMAIN subreddits
      /\ UNCHANGED <<schema, posts, keywords, settings, apiKeys, userActions, lastId, migrated>>
  BY DEF UpdateFetchTime, Sent
<1>2. TablesInv'
  BY <1>1 DEF IInv, TablesInv
<1> QED
  BY <1>1, <1>2, ProceedElsewhere

LEMMA StepInv == ASSUME IInv, NEW c \in Callers, Step(c) PROVE IInv'
<1>1. CASE Refuse(c) \/ Fail(c)
  BY <1>1, ReturnErrorInv DEF Refuse, Fail
<1> QED
  BY <1>1, SendInv, MigrateStepInv, ReplaceSettingInv, ReplaceKeyInv, ReplacePostInv,
     InsertKeywordInv, InsertActionInv, UpdateFetchTimeInv DEF Step

LEMMA BeginInv == ASSUME IInv, NEW c \in Callers, Begin(c) PROVE IInv'
<1>1. CASE RunMigrations(c)
  BY <1>1, MigrateLegal, CallInv DEF RunMigrations
<1>2. ASSUME NEW s \in Settings, SaveSetting(c, s) PROVE IInv'
  <2>1. s.key \in Keys
    BY DatabaseAssumption
  <2> QED
    BY <2>1, <1>2, SettingLegal, CallInv DEF SaveSetting
<1>3. ASSUME NEW config \in Configs, SaveConfig(c, config) PROVE IInv'
  BY <1>3, ConfigLegal, CallInv DEF SaveConfig
<1>4. ASSUME NEW s, Proper(s, <<>>), s.kind # "migrate", Call(c, <<s>>, <<>>) PROVE IInv'
  BY <1>4, SingleLegal, CallInv
<1>5. ASSUME NEW post \in Posts, SavePost(c, post) PROVE IInv'
  <2>1. Proper([kind |-> "post", post |-> post], <<>>)
    BY DEF Proper, Kinds
  <2> QED
    BY <2>1, <1>4, <1>5 DEF SavePost
<1>6. ASSUME NEW post \in Posts, RecordUserAction(c, post) PROVE IInv'
  <2>1. Proper([kind |-> "action", post |-> post], <<>>)
    BY DEF Proper, Kinds
  <2> QED
    BY <2>1, <1>4, <1>6 DEF RecordUserAction
<1>7. ASSUME NEW text \in Words, SaveKeyword(c, text) PROVE IInv'
  <2>1. Proper([kind |-> "keyword", text |-> text], <<>>)
    BY DEF Proper, Kinds
  <2> QED
    BY <2>1, <1>4, <1>7 DEF SaveKeyword
<1>8. ASSUME NEW provider \in Providers, SaveApiKey(c, provider) PROVE IInv'
  <2>1. Proper([kind |-> "key", key |-> provider, value |-> Empty], <<>>)
    BY DEF Proper, Kinds
  <2> QED
    BY <2>1, <1>4, <1>8 DEF SaveApiKey
<1>9. ASSUME NEW name \in Subreddits, UpdateSubredditFetchTime(c, name) PROVE IInv'
  <2>1. Proper([kind |-> "fetched", name |-> name], <<>>)
    BY DEF Proper, Kinds
  <2> QED
    BY <2>1, <1>4, <1>9 DEF UpdateSubredditFetchTime
<1> QED
  BY <1>1, <1>2, <1>3, <1>5, <1>6, <1>7, <1>8, <1>9 DEF Begin

LEMMA NextInv == ASSUME IInv, [Next]_vars PROVE IInv'
<1>1. now \in Nat
  BY DEF IInv, CallersInv
<1>2. CASE Connect
  BY <1>1, <1>2, QuietInv DEF Connect
<1>3. CASE Tick
  BY <1>1, <1>3, QuietInv DEF Tick
<1>4. CASE UNCHANGED vars
  BY <1>1, <1>4, QuietInv DEF vars
<1> QED
  BY <1>2, <1>3, <1>4, StepInv, BeginInv, CrashInv DEF Next

\* The inductive invariant holds.
THEOREM Inductive == Spec => []IInv
<1>1. Init => IInv
  BY InitInv
<1>2. IInv /\ [Next]_vars => IInv'
  BY NextInv
<1> QED
  BY <1>1, <1>2, PTL DEF Spec

-----------------------------------------------------------------------------
(* Theorems *)

\* The tables hold what their constraints allow, and a file that run_migrations said
\* Ok of is whole, whoever else used it meanwhile.
THEOREM TablesHold == Spec => []TypeOK
<1>1. IInv => TypeOK
  BY DEF IInv, CallersInv, CallerOK, TablesInv, TypeOK, At
<1> QED
  BY <1>1, Inductive, PTL

\* get_config reads back of each setting the value of the last save that returned Ok, or
\* of one that ran at the same time or was begun since, whatever migrations, errors and
\* crashes come between.
THEOREM SavedIsRead == Spec => []ConfigReadsBack
<1>1. ASSUME IInv PROVE ConfigReadsBack
  <2>1. IdKey \in Keys /\ SecretKey \in Keys /\ PollingKey \in Keys
    BY DEF Keys
  <2>2. \A k \in Keys : <<k, ValueOf(k)>> \in expected
    BY <1>1 DEF IInv, SavingInv
  <2>3. \E p \in expected : p[1] = PollingKey /\ Parsed(ValueOf(PollingKey)) = Parsed(p[2])
    <3>1. <<PollingKey, ValueOf(PollingKey)>> \in expected
      BY <2>1, <2>2
    <3> QED
      BY <3>1
  <2> QED
    BY <2>1, <2>2, <2>3 DEF ConfigReadsBack, GetConfig
<1> QED
  BY <1>1, Inductive, PTL

\* What one step does to the rows
RowsStep ==
  /\ \A k \in DOMAIN settings :
       /\ k \in DOMAIN settings' /\ settings'[k].created = settings[k].created
       /\ settings'[k] # settings[k] =>
            \E c \in Callers : Wrote(c, "setting") /\ Statement(c).key = k
  /\ \A p \in DOMAIN apiKeys : p \in DOMAIN apiKeys' /\ apiKeys'[p].created = apiKeys[p].created
  /\ \A t \in DOMAIN keywords : t \in DOMAIN keywords' /\ keywords'[t] = keywords[t]
  /\ \A a \in userActions \ userActions' :
       \E c \in Callers : Wrote(c, "post") /\ Statement(c).post = a.post

\* A step of one caller's statement: the other tables stay.
LEMMA StepRows == ASSUME IInv, NEW c \in Callers, Step(c) PROVE RowsStep
<1>1. CASE Send(c) \/ Refuse(c) \/ Fail(c)
  BY <1>1 DEF Send, Refuse, Fail, ReturnError, tables, RowsStep
<1>2. CASE MigrateStep(c)
  <2>1. /\ UNCHANGED <<keywords, apiKeys, userActions>>
        /\ CanMigrate(Statement(c).step)
        /\ Statement(c).step # "seed settings" => settings' = settings
    BY <1>2 DEF MigrateStep
  <2>2. Statement(c).step = "seed settings" => DOMAIN settings = {}
    BY <2>1 DEF CanMigrate, MaySeed, IInv, TablesInv
  <2> QED
    BY <2>1, <2>2 DEF RowsStep
<1>3. CASE ReplaceSetting(c)
  <2>1. /\ At(c, "sent") /\ Proceed(c) /\ now' = now /\ Sent(c, "setting")
        /\ settings' = Replaced(settings, Statement(c).key, Statement(c).value, caller[c].at)
        /\ UNCHANGED <<keywords, apiKeys, userActions>>
    BY <1>3 DEF ReplaceSetting, Sent
  <2>2. Wrote(c, "setting")
    BY <2>1, ProceedFacts DEF IInv, Wrote
  <2>3. /\ DOMAIN settings' = DOMAIN settings \cup {Statement(c).key}
        /\ \A k \in DOMAIN settings : settings'[k].created = settings[k].created
        /\ \A k \in DOMAIN settings : k # Statement(c).key => settings'[k] = settings[k]
    BY <2>1 DEF Replaced
  <2> QED
    BY <2>1, <2>2, <2>3 DEF RowsStep
<1>4. CASE ReplaceKey(c)
  <2>1. /\ apiKeys' = Replaced(apiKeys, Statement(c).key, Statement(c).value, caller[c].at)
        /\ UNCHANGED <<settings, keywords, userActions>>
    BY <1>4 DEF ReplaceKey
  <2>2. /\ DOMAIN apiKeys' = DOMAIN apiKeys \cup {Statement(c).key}
        /\ \A k \in DOMAIN apiKeys : apiKeys'[k].created = apiKeys[k].created
    BY <2>1 DEF Replaced
  <2> QED
    BY <2>1, <2>2 DEF RowsStep
<1>5. CASE ReplacePost(c)
  <2>1. /\ At(c, "sent") /\ Proceed(c) /\ now' = now /\ Sent(c, "post")
        /\ userActions' = Cascade(Statement(c).post)
        /\ UNCHANGED <<settings, keywords, apiKeys>>
    BY <1>5 DEF ReplacePost, Sent
  <2>2. Wrote(c, "post")
    BY <2>1, ProceedFacts DEF IInv, Wrote
  <2>3. \A a \in userActions \ userActions' : a.post = Statement(c).post
    BY <2>1 DEF Cascade
  <2> QED
    BY <2>1, <2>2, <2>3 DEF RowsStep
<1>6. CASE InsertKeyword(c)
  <2>1. /\ Statement(c).text \notin DOMAIN keywords
        /\ keywords' = [t \in DOMAIN keywords \cup {Statement(c).text} |->
                          IF t = Statement(c).text THEN lastId.keyword + 1 ELSE keywords[t]]
        /\ UNCHANGED <<settings, apiKeys, userActions>>
    BY <1>6 DEF InsertKeyword, CanInsert
  <2>2. \A t \in DOMAIN keywords : t \in DOMAIN keywords' /\ keywords'[t] = keywords[t]
    BY <2>1
  <2> QED
    BY <2>1, <2>2 DEF RowsStep
<1>7. CASE InsertAction(c)
  <2>1. userActions \subseteq userActions' /\ UNCHANGED <<settings, keywords, apiKeys>>
    BY <1>7 DEF InsertAction
  <2> QED
    BY <2>1 DEF RowsStep
<1>8. CASE UpdateFetchTime(c)
  BY <1>8 DEF UpdateFetchTime, RowsStep
<1> QED
  BY <1>1, <1>2, <1>3, <1>4, <1>5, <1>6, <1>7, <1>8 DEF Step

\* Rows keep their ids and their times of creation, values change by a save of them
\* alone, and an action of the user goes only with its post.
THEOREM RowsKept == Spec => RowsStay
<1>1. ASSUME IInv, Next PROVE RowsStep
  <2>1. ASSUME UNCHANGED tables PROVE RowsStep
    BY <2>1 DEF tables, RowsStep
  <2>2. ASSUME NEW c \in Callers, Begin(c) PROVE UNCHANGED tables
    BY <2>2 DEF Begin, RunMigrations, SavePost, RecordUserAction, SaveKeyword, SaveSetting,
                SaveConfig, SaveApiKey, UpdateSubredditFetchTime, Call
  <2>3. CASE Connect \/ Crash \/ Tick
    BY <2>1, <2>3 DEF Connect, Crash, Tick
  <2> QED
    BY <1>1, <2>1, <2>2, <2>3, StepRows DEF Next
<1>2. IInv /\ [Next]_vars => [RowsStep]_vars
  BY <1>1
<1>3. Spec => [][RowsStep]_vars
  BY <1>2, Inductive, PTL DEF Spec
<1> QED
  BY <1>3 DEF RowsStay, RowsStep
=============================================================================

------------------------- MODULE RequestQueueProofs -------------------------
(***************************************************************************)
(* Theorems about the request queue, for any number of requests, tasks,    *)
(* retries and restarts, with and without SQL errors and panics.           *)
(***************************************************************************)
EXTENDS RequestQueue, FiniteSetTheorems, TLAPS

\* Removing a place from a sequence of waits leaves a sequence of waits, and
\* nothing when there was one place only.
LEMMA RemoveAtFacts ==
  ASSUME NEW s \in Seq(Nat), NEW i \in DOMAIN s
  PROVE  /\ RemoveAt(s, i) \in Seq(Nat)
         /\ Len(s) <= 1 => RemoveAt(s, i) = <<>>
<1>1. RemoveAt(s, i) \in Seq(Nat)
  BY DEF RemoveAt
<1>2. ASSUME Len(s) <= 1 PROVE RemoveAt(s, i) = <<>>
  BY <1>2 DEF RemoveAt
<1> QED
  BY <1>1, <1>2

\* A sequence of waits stays one when a minute passes.
LEMMA ElapsedFacts ==
  ASSUME NEW s \in Seq(Nat)
  PROVE  /\ [i \in DOMAIN s |-> Elapsed(s[i])] \in Seq(Nat)
         /\ Len([i \in DOMAIN s |-> Elapsed(s[i])]) = Len(s)
<1>1. DOMAIN s = 1..Len(s) /\ Len(s) \in Nat
  OBVIOUS
<1>2. \A i \in DOMAIN s : Elapsed(s[i]) \in Nat
  BY DEF Elapsed
<1> QED
  BY <1>1, <1>2

\* One task's locals are replaced by locals of the right type.
LEMMA TaskReplaced ==
  ASSUME TasksOK, NEW w \in Workers, NEW t \in Task,
         IF t.stage = "idle" THEN t.id = None ELSE t.id \in Requests,
         worker' = [worker EXCEPT ![w] = t]
  PROVE  TasksOK'
<1>1. worker' \in [Workers -> Task]
  BY DEF TasksOK
<1>2. ASSUME NEW v \in Workers
      PROVE  IF At(v, "idle")' THEN Job(v)' = None ELSE Job(v)' \in Requests
  <2>1. CASE v = w
    BY <2>1 DEF TasksOK, At, Job
  <2>2. CASE v # w
    BY <2>2 DEF TasksOK, At, Job
  <2> QED
    BY <2>1, <2>2
<1> QED
  BY <1>1, <1>2 DEF TasksOK

\* A task that is released is idle.
LEMMA ReleaseFacts ==
  ASSUME TasksOK, NEW w \in Workers, Release(w)
  PROVE  TasksOK'
<1>1. Idle \in Task /\ Idle.stage = "idle" /\ Idle.id = None
  BY ConstantsAssumption DEF Idle, Task, WorkerStages, Outcomes
<1> QED
  BY <1>1, TaskReplaced DEF Release

\* A task moves from one stage of a request to another.
LEMMA GotoFacts ==
  ASSUME TasksOK, NEW w \in Workers, ~At(w, "idle"),
         NEW stage \in WorkerStages \ {"idle"}, Goto(w, stage)
  PROVE  TasksOK'
<1> DEFINE t == [worker[w] EXCEPT !.stage = stage]
<1>1. t \in Task /\ t.stage = stage /\ t.id = Job(w)
  BY DEF TasksOK, Task, Job
<1>2. worker' = [worker EXCEPT ![w] = t]
  BY DEF Goto, TasksOK
<1> QED
  BY <1>1, <1>2, TaskReplaced DEF TasksOK, At

\* The statuses the table's CHECK allows and WithStatus writes.
LEMMA WithStatusFacts ==
  ASSUME TypeOK, NEW r \in Requests, NEW status \in RowStatuses
  PROVE  WithStatus(r, status) \in [Requests -> Row]
BY DEF WithStatus, TypeOK, Row

LEMMA UpdateFacts ==
  ASSUME TypeOK, NEW w \in Workers, ~At(w, "idle"),
         NEW table \in [Requests -> Row],
         NEW next \in WorkerStages \ {"idle"}, Update(w, table, next)
  PROVE  /\ TasksOK'
         /\ row' \in [Requests -> Row]
<1>1. CASE row' = table /\ Goto(w, next)
  BY <1>1, GotoFacts DEF TypeOK
<1>2. CASE Release(w) /\ UNCHANGED row
  BY <1>2, ReleaseFacts DEF TypeOK
<1> QED
  BY <1>1, <1>2 DEF Update

LEMMA InitTypeOK == Init => TypeOK
<1> SUFFICES ASSUME Init PROVE TypeOK
  OBVIOUS
<1>1. TasksOK
  BY ConstantsAssumption DEF Init, TasksOK, Task, Idle, WorkerStages, Outcomes, At, Job
<1> QED
  BY <1>1, ConstantsAssumption
     DEF Init, TypeOK, Row, CallerStages, RowStatuses, Outcomes, Absent

LEMMA NextTypeOK == TypeOK /\ [Next]_vars => TypeOK'
<1> SUFFICES ASSUME TypeOK, [Next]_vars PROVE TypeOK'
  OBVIOUS
<1> USE ConstantsAssumption DEF memory, database, history
<1>0. ASSUME UNCHANGED worker PROVE TasksOK'
  BY <1>0 DEF TypeOK, TasksOK, At, Job
<1>1. ASSUME NEW r \in Requests, CheckSize(r) PROVE TypeOK'
  BY <1>0, <1>1 DEF TypeOK, CheckSize, CallerStages
<1>2. ASSUME NEW r \in Requests, SaveRow(r) PROVE TypeOK'
  <2>1. row' \in [Requests -> Row]
    <3>1. [status |-> "queued", tries |-> 0] \in Row
      BY DEF Row, RowStatuses
    <3> QED
      BY <1>2, <3>1 DEF TypeOK, SaveRow
  <2> QED
    BY <1>0, <1>2, <2>1 DEF TypeOK, SaveRow, CallerStages
<1>3. ASSUME NEW r \in Requests, Publish(r) PROVE TypeOK'
  BY <1>0, <1>3 DEF TypeOK, Publish, Push, Store, CallerStages
<1>4. ASSUME NEW r \in Requests, Cancel(r) PROVE TypeOK'
  <2>1. row' = row
    BY <1>4 DEF Cancel, WithStatus
  <2> QED
    BY <1>0, <1>4, <2>1 DEF TypeOK, Cancel, Discard
<1>5. ASSUME NEW w \in Workers, WorkerStep(w) PROVE TypeOK'
  <2> USE DEF TypeOK
  <2>0. /\ worker[w] \in Task
        /\ ~At(w, "idle") => Job(w) \in Requests
    BY DEF TasksOK
  <2>1. CASE Pop(w)
    <3>1. PICK e \in Tops :
            /\ worker' = [worker EXCEPT ![w] = Popped(e)]
            /\ heap' = [heap EXCEPT ![e[1]] = Remaining(e)]
      BY <2>1 DEF Pop
    <3>2. e[1] \in Requests /\ e[2] \in DOMAIN heap[e[1]]
      BY DEF Tops, Entries
    <3>3. heap' \in [Requests -> Seq(Nat)]
      BY <3>1, <3>2, RemoveAtFacts DEF Remaining
    <3>4. Wait(e) \in Nat
      BY <3>2 DEF Wait
    <3>5. Popped(e) \in Task /\ Popped(e).stage = "popped" /\ Popped(e).id \in Requests
      BY <3>2, <3>4 DEF Popped, Task, WorkerStages, Outcomes
    <3>6. TasksOK'
      BY <3>1, <3>5, TaskReplaced
    <3> QED
      BY <2>1, <3>3, <3>6 DEF Pop
  <2>2. CASE PutBack(w)
    <3>1. worker[w].wait \in Nat /\ Job(w) \in Requests
      BY <2>0, <2>2 DEF PutBack, At, Task
    <3>2. heap' \in [Requests -> Seq(Nat)]
      BY <2>2, <3>1 DEF PutBack, Push
    <3> QED
      BY <2>2, <3>2, ReleaseFacts DEF PutBack
  <2>3. CASE Fetch(w)
    <3>1. CASE stored[Job(w)] = Absent
      BY <2>3, <3>1, ReleaseFacts DEF Fetch
    <3>2. CASE stored[Job(w)] # Absent
      <4> DEFINE t == [worker[w] EXCEPT !.stage = "fetched", !.tries = stored[Job(w)]]
      <4>1. stored[Job(w)] \in 0..MaxRetries
        BY <2>0, <2>3, <3>2 DEF Fetch, At
      <4>2. t \in Task /\ t.stage = "fetched" /\ t.id \in Requests
        BY <2>0, <2>3, <4>1 DEF Fetch, At, Job, Task, WorkerStages
      <4>3. worker' = [worker EXCEPT ![w] = t]
        BY <2>3, <3>2 DEF Fetch, TasksOK
      <4>4. TasksOK'
        BY <4>2, <4>3, TaskReplaced
      <4> QED
        BY <2>3, <4>4 DEF Fetch
    <3> QED
      BY <3>1, <3>2
  <2>4. CASE Start(w)
    <3>1. TasksOK' /\ row' \in [Requests -> Row]
      BY <2>0, <2>4, WithStatusFacts, UpdateFacts DEF Start, At, WorkerStages, RowStatuses
    <3> QED
      BY <2>0, <2>4, <3>1 DEF Start, At
  <2>5. CASE Call(w)
    <3>1. CASE Panics(Job(w))
      BY <2>5, <3>1, GotoFacts DEF Call, At, WorkerStages
    <3>2. CASE ~Panics(Job(w))
      <4>1. PICK answer \in Answers(Job(w), worker[w].tries) :
              worker' = [worker EXCEPT ![w].stage = "answered", ![w].outcome = answer]
        BY <2>5, <3>2 DEF Call
      <4> DEFINE t == [worker[w] EXCEPT !.stage = "answered", !.outcome = answer]
      <4>2. t \in Task /\ t.stage = "answered" /\ t.id \in Requests
        BY <2>0, <2>5 DEF Call, At, Job, Task, WorkerStages, Answers, Outcomes
      <4>3. worker' = [worker EXCEPT ![w] = t]
        BY <4>1 DEF TasksOK
      <4>4. TasksOK'
        BY <4>2, <4>3, TaskReplaced
      <4> QED
        BY <2>5, <4>4 DEF Call
    <3> QED
      BY <3>1, <3>2
  <2>6. CASE Complete(w)
    <3>1. TasksOK' /\ row' \in [Requests -> Row]
      BY <2>0, <2>6, WithStatusFacts, UpdateFacts DEF Complete, At, WorkerStages, RowStatuses
    <3> QED
      BY <2>6, <3>1 DEF Complete
  <2>7. CASE ScheduleRetry(w)
    <3> DEFINE t == [worker[w] EXCEPT !.stage = "scheduled", !.tries = NextTry(w)]
    <3>1. NextTry(w) \in 1..MaxRetries /\ Job(w) \in Requests
      <4>1. worker[w].tries \in 0..MaxRetries /\ Job(w) \in Requests
        BY <2>0, <2>7 DEF ScheduleRetry, Task, At
      <4>2. NextTry(w) <= MaxRetries /\ NextTry(w) = worker[w].tries + 1
        BY <2>7, Zenon DEF ScheduleRetry, RetriesLeft, NextTry
      <4> QED
        BY ONLY <4>1, <4>2, MaxRetries \in Nat
    <3>2. t \in Task /\ t.stage = "scheduled" /\ t.id \in Requests
      <4> HIDE DEF TypeOK
      <4>1. NextTry(w) \in 0..MaxRetries
        BY <3>1
      <4> DEFINE n == NextTry(w)
      <4>3. n \in 0..MaxRetries
        BY <4>1
      <4> HIDE DEF n
      <4>4. [worker[w] EXCEPT !.stage = "scheduled", !.tries = n] \in Task
        BY <2>0, <4>3 DEF Task, WorkerStages
      <4>5. /\ [worker[w] EXCEPT !.stage = "scheduled", !.tries = n].stage = "scheduled"
            /\ [worker[w] EXCEPT !.stage = "scheduled", !.tries = n].id = Job(w)
        BY <2>0 DEF Job, Task
      <4> QED
        BY <3>1, <4>4, <4>5 DEF n
    <3>3. worker' = [worker EXCEPT ![w] = t]
      BY <2>7 DEF ScheduleRetry, TasksOK
    <3>4. TasksOK'
      BY <3>2, <3>3, TaskReplaced
    <3>5. Backoff(NextTry(w)) \in Nat
      BY <3>1, BackoffAssumption
    <3>6. heap' \in [Requests -> Seq(Nat)]
      BY <2>7, <3>1, <3>5 DEF ScheduleRetry, Push
    <3>7. stored' \in [Requests -> {Absent} \cup 0..MaxRetries]
      BY <2>7, <3>1 DEF ScheduleRetry, Store
    <3> QED
      BY <2>7, <3>4, <3>6, <3>7 DEF ScheduleRetry
  <2>8. CASE SaveRetry(w)
    <3>1. WithTries(w) \in [Requests -> Row]
      <4>1. worker[w].tries \in 0..MaxRetries
        BY <2>0 DEF Task
      <4>2. \A r \in Requests : [row[r] EXCEPT !.tries = worker[w].tries] \in Row
        BY <4>1 DEF Row
      <4> QED
        BY <4>2 DEF WithTries
    <3>2. TasksOK' /\ row' \in [Requests -> Row]
      BY <2>8, <3>1, UpdateFacts DEF SaveRetry, At, WorkerStages
    <3> QED
      BY <2>8, <3>2 DEF SaveRetry
  <2>9. CASE GiveUp(w)
    <3>1. TasksOK' /\ row' \in [Requests -> Row]
      BY <2>0, <2>9, WithStatusFacts, UpdateFacts DEF GiveUp, At, WorkerStages, RowStatuses
    <3> QED
      BY <2>9, <3>1 DEF GiveUp
  <2>10. CASE Forget(w)
    <3>1. TasksOK'
      BY <2>10, GotoFacts DEF Forget, At, WorkerStages
    <3> QED
      BY <2>10, <3>1 DEF Forget, Discard
  <2>11. CASE Record(w)
    <3>1. TasksOK'
      BY <2>11, GotoFacts DEF Record, At, WorkerStages
    <3>2. tracked' \in [Requests -> Nat]
      <4>1. Job(w) \in Requests
        BY <2>0, <2>11 DEF Record, At
      <4>2. tracked \in [Requests -> Nat]
        OBVIOUS
      <4>3. tracked[Job(w)] + 1 \in Nat
        BY <4>1, <4>2
      <4>4. tracked' = [tracked EXCEPT ![Job(w)] = @ + 1] \/ tracked' = tracked
        BY <2>11 DEF Record
      <4> HIDE DEF TypeOK
      <4> QED
        BY <4>2, <4>3, <4>4
    <3> QED
      BY <2>11, <3>1, <3>2 DEF Record
  <2>12. CASE Reply(w)
    <3>1. worker[w].outcome \in Outcomes
      BY <2>0 DEF Task
    <3>2. received' \in [Requests -> Seq(Outcomes)]
      BY <2>12, <3>1 DEF Reply, Sent
    <3> QED
      BY <2>12, <3>2, ReleaseFacts DEF Reply
  <2> QED
    BY <1>5, <2>1, <2>2, <2>3, <2>4, <2>5, <2>6, <2>7, <2>8, <2>9, <2>10, <2>11, <2>12
       DEF WorkerStep
<1>6. CASE Tick
  <2>1. heap' \in [Requests -> Seq(Nat)]
    BY <1>6, ElapsedFacts DEF TypeOK, Tick
  <2>2. ASSUME NEW w \in Workers
        PROVE  /\ worker'[w] \in Task
               /\ worker'[w].stage = worker[w].stage /\ worker'[w].id = worker[w].id
    <3>1. worker[w] \in Task /\ worker'[w] = [worker[w] EXCEPT !.wait = Elapsed(worker[w].wait)]
      BY <1>6 DEF TypeOK, TasksOK, Tick
    <3>2. Elapsed(worker[w].wait) \in Nat
      BY <3>1 DEF Task, Elapsed
    <3> QED
      BY <3>1, <3>2 DEF Task
  <2>3. worker' \in [Workers -> Task]
    BY <1>6, <2>2 DEF Tick
  <2>4. TasksOK'
    BY <2>2, <2>3 DEF TypeOK, TasksOK, At, Job
  <2> QED
    BY <1>6, <2>1, <2>4 DEF TypeOK, Tick
<1>7. CASE Restart
  <2>1. TasksOK'
    BY <1>7 DEF Restart, TasksOK, Task, Idle, WorkerStages, Outcomes, At, Job
  <2> QED
    BY <1>7, <2>1 DEF TypeOK, Restart, InitialEntries, CallerStages, Absent
<1>8. CASE UNCHANGED vars
  BY <1>0, <1>8 DEF TypeOK, vars
<1> QED
  BY <1>1, <1>2, <1>3, <1>4, <1>5, <1>6, <1>7, <1>8 DEF Next

\* Every variable keeps its type, whatever calls, tasks, errors, panics and
\* restarts do (the types of request_queue.rs 14-74).
THEOREM TypeCorrect == Spec => []TypeOK
<1>1. TypeOK /\ [Next]_vars => TypeOK'
  BY NextTypeOK
<1> QED
  BY InitTypeOK, <1>1, PTL DEF Spec

-----------------------------------------------------------------------------
(* The inductive invariant *)

\* What is left of IInv once the types are known.
Inv == CallerInv /\ ExclusiveOwner /\ RowInv /\ AttemptInv

LEMMA InitInv == Init => Inv
<1> SUFFICES ASSUME Init PROVE Inv
  OBVIOUS
<1>1. \A w \in Workers : worker[w].stage = "idle" /\ Job(w) = None
  BY DEF Init, Idle, Job
<1>2. \A r \in Requests : heap[r] = <<>> /\ stored[r] = Absent /\ r \notin senders
  BY DEF Init
<1>3. \A r \in Requests : \A w \in Workers : Job(w) # r
  BY <1>1, ConstantsAssumption
<1>4. CallerInv
  BY <1>2, <1>3 DEF Init, CallerInv, Untouched
<1>5. ExclusiveOwner
  BY <1>2, <1>3 DEF ExclusiveOwner, Owns
<1>6. RowInv
  BY DEF Init, RowInv
<1>7. AttemptInv
  <2>1. \A r \in Requests : attempts[r] = 0
    BY DEF Init
  <2> QED
    BY <1>1, <1>2, <2>1, ConstantsAssumption DEF AttemptInv, AttemptsBounded, At
<1> QED
  BY <1>4, <1>5, <1>6, <1>7 DEF Inv

\* A step that gives nobody anything: entries, requests, channels and jobs may
\* go, nothing is sent, no status changes.
LEMMA ShrinkingStep ==
  ASSUME TypeOK, TypeOK', Inv,
         UNCHANGED <<caller, attempts>>,
         \A r \in Requests : row'[r].status = row[r].status,
         \A r \in Requests : heap'[r] = <<>> \/ (heap[r] # <<>> /\ Len(heap'[r]) = Len(heap[r])),
         \A r \in Requests : stored'[r] \in {Absent, stored[r]},
         senders' \subseteq senders,
         \A w \in Workers :
           /\ Job(w)' \in {None, Job(w)}
           /\ worker'[w].stage \in Holding => Owns(w, Job(w)')
           /\ worker'[w].stage \in Undecided => worker[w].stage \in Undecided
           /\ At(w, "popped")' => At(w, "popped")
           /\ At(w, "fetched")' => attempts[Job(w)'] <= worker'[w].tries
           /\ worker'[w].stage \in {"calling", "answered"} =>
                attempts[Job(w)'] <= worker'[w].tries + 1
  PROVE  Inv'
<1> USE ConstantsAssumption
<1>1. \A r \in Requests : Untouched(r) => Untouched(r)'
  BY DEF Untouched
<1>2. CallerInv'
  BY <1>1 DEF Inv, CallerInv
<1>3. ExclusiveOwner'
  <2>1. \A w \in Workers, r \in Requests : Owns(w, r)' => Owns(w, r)
    BY DEF Owns
  <2>2. \A r \in Requests : Len(heap'[r]) <= 1
    BY DEF Inv, ExclusiveOwner
  <2> QED
    BY <2>1, <2>2 DEF Inv, ExclusiveOwner
<1>4. RowInv'
  <2>1. \A w \in Workers, r \in Requests : Job(w)' = r => Job(w) = r
    OBVIOUS
  <2> QED
    BY <2>1 DEF Inv, RowInv
<1>5. AttemptInv'
  <2>1. AttemptsBounded'
    BY DEF Inv, AttemptInv, AttemptsBounded
  <2>2. \A r \in Requests :
          heap'[r] # <<>> /\ stored'[r] # Absent => attempts'[r] <= stored'[r]
    BY DEF Inv, AttemptInv
  <2>3. ASSUME NEW w \in Workers, At(w, "popped")', stored'[Job(w)'] # Absent
        PROVE  attempts'[Job(w)'] <= stored'[Job(w)']
    <3>1. Job(w)' = Job(w) /\ At(w, "popped") /\ Job(w) \in Requests
      BY <2>3 DEF TypeOK, TasksOK, Owns, At, Holding
    <3> QED
      BY <2>3, <3>1 DEF Inv, AttemptInv
  <2> QED
    BY <2>1, <2>2, <2>3 DEF AttemptInv, At
<1> QED
  BY <1>2, <1>3, <1>4, <1>5 DEF Inv

\* The tasks other than the one that takes a step keep their locals.
LEMMA OthersKept ==
  ASSUME TypeOK, NEW w \in Workers, NEW t, worker' = [worker EXCEPT ![w] = t]
  PROVE  worker'[w] = t /\ \A v \in Workers \ {w} : worker'[v] = worker[v]
BY DEF TypeOK, TasksOK

\* A task that lets go, or moves on with what it had, shrinks what is held.
LEMMA Releasing ==
  ASSUME TypeOK, TypeOK', Inv, NEW w \in Workers, Release(w),
         UNCHANGED <<caller, heap, stored, senders, attempts, row>>
  PROVE  Inv'
<1>1. worker'[w] = Idle /\ \A v \in Workers \ {w} : worker'[v] = worker[v]
  BY OthersKept DEF Release
<1>2. ASSUME NEW v \in Workers
      PROVE  /\ Job(v)' \in {None, Job(v)}
             /\ worker'[v].stage \in Holding => Owns(v, Job(v)')
             /\ worker'[v].stage \in Undecided => worker[v].stage \in Undecided
             /\ At(v, "popped")' => At(v, "popped")
             /\ At(v, "fetched")' => attempts[Job(v)'] <= worker'[v].tries
             /\ worker'[v].stage \in {"calling", "answered"} =>
                  attempts[Job(v)'] <= worker'[v].tries + 1
  <2>1. CASE v = w
    BY <1>1, <2>1 DEF Idle, Job, At, Holding, Undecided
  <2>2. CASE v # w
    BY <1>1, <2>2 DEF Job, At, Owns, Inv, AttemptInv
  <2> QED
    BY <2>1, <2>2
<1> QED
  BY <1>2, ShrinkingStep DEF TypeOK

LEMMA Advancing ==
  ASSUME TypeOK, TypeOK', Inv, NEW w \in Workers, Goto(w, worker'[w].stage),
         UNCHANGED <<caller, heap, attempts>>,
         \A r \in Requests : row'[r].status = row[r].status,
         \A r \in Requests : stored'[r] \in {Absent, stored[r]},
         senders' \subseteq senders,
         worker'[w].stage \notin Holding
  PROVE  Inv'
<1>1. /\ worker'[w].id = Job(w)
      /\ \A v \in Workers \ {w} : worker'[v] = worker[v]
  BY DEF Goto, TypeOK, TasksOK, Task, Job
<1>2. ASSUME NEW v \in Workers
      PROVE  /\ Job(v)' \in {None, Job(v)}
             /\ worker'[v].stage \in Holding => Owns(v, Job(v)')
             /\ worker'[v].stage \in Undecided => worker[v].stage \in Undecided
             /\ At(v, "popped")' => At(v, "popped")
             /\ At(v, "fetched")' => attempts[Job(v)'] <= worker'[v].tries
             /\ worker'[v].stage \in {"calling", "answered"} =>
                  attempts[Job(v)'] <= worker'[v].tries + 1
  <2>1. CASE v = w
    BY <1>1, <2>1 DEF Job, At, Holding, Undecided
  <2>2. CASE v # w
    BY <1>1, <2>2 DEF Job, At, Owns, Inv, AttemptInv
  <2> QED
    BY <2>1, <2>2
<1> QED
  BY <1>2, ShrinkingStep DEF TypeOK

LEMMA CallerStepsInv ==
  ASSUME TypeOK, TypeOK', Inv, NEW r \in Requests,
         CheckSize(r) \/ SaveRow(r) \/ Publish(r) \/ Cancel(r)
  PROVE  Inv'
<1> USE ConstantsAssumption DEF memory, database, history
<1>1. CASE CheckSize(r)
  <2>1. /\ caller[r] = "new" /\ caller'[r] \in {"checked", "refused"}
        /\ \A s \in Requests \ {r} : caller'[s] = caller[s]
        /\ UNCHANGED <<heap, stored, senders, row, worker, attempts>>
    BY <1>1 DEF CheckSize, TypeOK
  <2>2. CallerInv'
    BY <2>1 DEF Inv, CallerInv, Untouched, Job
  <2>3. ExclusiveOwner' /\ RowInv' /\ AttemptInv'
    BY <2>1 DEF Inv, ExclusiveOwner, RowInv, AttemptInv, AttemptsBounded, Owns, Job, At
  <2> QED
    BY <2>2, <2>3 DEF Inv
<1>2. CASE SaveRow(r)
  <2>1. /\ caller[r] = "checked"
        /\ \/ caller'[r] = "saved" /\ row'[r].status = "queued"
           \/ caller'[r] = "refused" /\ row'[r] = row[r]
        /\ \A s \in Requests \ {r} : caller'[s] = caller[s] /\ row'[s] = row[s]
        /\ UNCHANGED <<heap, stored, senders, worker, attempts>>
    BY <1>2 DEF SaveRow, TypeOK
  <2>2. CallerInv'
    BY <2>1 DEF Inv, CallerInv, Untouched, Job
  <2>3. RowInv'
    BY <2>1 DEF Inv, RowInv, Job
  <2>4. ExclusiveOwner' /\ AttemptInv'
    BY <2>1 DEF Inv, ExclusiveOwner, AttemptInv, AttemptsBounded, Owns, Job, At
  <2> QED
    BY <2>2, <2>3, <2>4 DEF Inv
<1>3. CASE Publish(r)
  <2>1. /\ caller[r] = "saved" /\ caller'[r] = "accepted"
        /\ heap'[r] = Append(heap[r], 0) /\ stored'[r] = 0
        /\ senders' = senders \cup {r}
        /\ \A s \in Requests \ {r} :
             caller'[s] = caller[s] /\ heap'[s] = heap[s] /\ stored'[s] = stored[s]
        /\ UNCHANGED <<row, worker, attempts>>
    BY <1>3 DEF Publish, Push, Store, TypeOK
  <2>2. /\ heap[r] = <<>> /\ row[r].status = "queued" /\ attempts[r] = 0
        /\ \A w \in Workers : Job(w) # r
    BY <2>1 DEF Inv, CallerInv, Untouched
  <2>3. Len(heap'[r]) <= 1 /\ heap'[r] # <<>>
    BY <2>1, <2>2
  <2>4. CallerInv'
    BY <2>1 DEF Inv, CallerInv, Untouched, Job
  <2>5. ExclusiveOwner'
    <3>1. \A w \in Workers, s \in Requests : Owns(w, s)' <=> Owns(w, s)
      BY <2>1 DEF Owns, Job
    <3>3. ASSUME NEW s \in Requests
          PROVE  /\ Len(heap'[s]) <= 1
                 /\ heap'[s] # <<>> => \A w \in Workers : ~Owns(w, s)'
                 /\ \A v, w \in Workers : Owns(v, s)' /\ Owns(w, s)' => v = w
      <4>1. CASE s = r
        <5>1. \A w \in Workers : Job(w)' # s
          BY <2>1, <2>2, <4>1 DEF Job
        <5>2. \A w \in Workers : ~Owns(w, s)'
          BY <5>1 DEF Owns
        <5>3. Len(heap'[s]) <= 1
          BY <2>3, <4>1
        <5> QED
          BY <5>2, <5>3
      <4>2. CASE s # r
        BY <2>1, <3>1, <4>2 DEF Inv, ExclusiveOwner
      <4> QED
        BY <4>1, <4>2
    <3> QED
      BY <3>3 DEF ExclusiveOwner
  <2>6. RowInv'
    BY <2>1, <2>2 DEF Inv, RowInv, Job
  <2>7. AttemptInv'
    <3>1. AttemptsBounded'
      BY <2>1 DEF Inv, AttemptInv, AttemptsBounded
    <3>2. \A s \in Requests :
            heap'[s] # <<>> /\ stored'[s] # Absent => attempts'[s] <= stored'[s]
      <4>1. attempts'[r] <= stored'[r]
        BY <2>1, <2>2
      <4> QED
        BY <2>1, <4>1 DEF Inv, AttemptInv
    <3>3. \A w \in Workers : At(w, "popped") => Job(w) \in Requests \ {r}
      BY <2>2 DEF TypeOK, TasksOK, At
    <3>4. \A w \in Workers : Job(w)' = Job(w)
      BY <2>1 DEF Job
    <3> QED
      BY <2>1, <3>1, <3>2, <3>3, <3>4 DEF Inv, AttemptInv, At
  <2> QED
    BY <2>4, <2>5, <2>6, <2>7 DEF Inv
<1>4. CASE Cancel(r)
  <2>1. /\ UNCHANGED <<caller, attempts, row, worker>>
        /\ heap' = [heap EXCEPT ![r] = <<>>]
        /\ stored' = [stored EXCEPT ![r] = Absent]
        /\ senders' \subseteq senders
    BY <1>4 DEF Cancel, Discard, WithStatus
  <2>2. \A s \in Requests :
          /\ heap'[s] = <<>> \/ (heap[s] # <<>> /\ Len(heap'[s]) = Len(heap[s]))
          /\ stored'[s] \in {Absent, stored[s]}
    BY <2>1 DEF TypeOK
  <2>3. \A w \in Workers :
          /\ Job(w)' \in {None, Job(w)}
          /\ worker'[w].stage \in Holding => Owns(w, Job(w)')
          /\ worker'[w].stage \in Undecided => worker[w].stage \in Undecided
          /\ At(w, "popped")' => At(w, "popped")
          /\ At(w, "fetched")' => attempts[Job(w)'] <= worker'[w].tries
          /\ worker'[w].stage \in {"calling", "answered"} =>
               attempts[Job(w)'] <= worker'[w].tries + 1
    BY <2>1 DEF Inv, AttemptInv, Owns, Job, At
  <2> QED
    BY <2>1, <2>2, <2>3, ShrinkingStep
<1> QED
  BY <1>1, <1>2, <1>3, <1>4

\* Taking the only entry of a request makes its task the only owner.
LEMMA PopInv ==
  ASSUME TypeOK, TypeOK', Inv, NEW w \in Workers, Pop(w)
  PROVE  Inv'
<1> USE ConstantsAssumption DEF memory, database, history
<1>1. PICK e \in Tops :
        /\ worker' = [worker EXCEPT ![w] = Popped(e)]
        /\ heap' = [heap EXCEPT ![e[1]] = Remaining(e)]
  BY DEF Pop
<1> DEFINE q == e[1]
<1>2. q \in Requests /\ e[2] \in DOMAIN heap[q]
  BY DEF Tops, Entries
<1> HIDE DEF q
<1>3. heap[q] # <<>> /\ \A v \in Workers : ~Owns(v, q)
  <2>1. heap[q] # <<>>
    BY <1>2
  <2> QED
    BY <1>2, <2>1 DEF Inv, ExclusiveOwner
<1>4. /\ At(w, "idle") /\ Job(w) = None
      /\ UNCHANGED <<caller, stored, senders, row, attempts>>
  BY DEF Pop, TypeOK, TasksOK
<1>5. /\ worker'[w].stage = "popped" /\ worker'[w].id = q
      /\ \A v \in Workers \ {w} : worker'[v] = worker[v]
  <2>1. worker'[w] = Popped(e) /\ \A v \in Workers \ {w} : worker'[v] = worker[v]
    BY <1>1, OthersKept
  <2>2. Popped(e).stage = "popped" /\ Popped(e).id = e[1]
    BY DEF Popped
  <2> QED
    BY <2>1, <2>2 DEF q
<1>6. heap'[q] = <<>> /\ \A r \in Requests \ {q} : heap'[r] = heap[r]
  <2>1. Len(heap[q]) <= 1
    BY <1>2 DEF Inv, ExclusiveOwner
  <2> QED
    BY <1>1, <1>2, <2>1, RemoveAtFacts DEF TypeOK, Remaining, q
<1>7. CallerInv'
  <2>1. caller[q] = "accepted"
    BY <1>2, <1>3 DEF Inv, CallerInv, Untouched
  <2>2. \A r \in Requests \ {q} : Untouched(r) => Untouched(r)'
    BY <1>4, <1>5, <1>6 DEF Untouched, Job
  <2> QED
    BY <1>4, <2>1, <2>2 DEF Inv, CallerInv
<1>8. ExclusiveOwner'
  <2>1. ASSUME NEW v \in Workers, NEW r \in Requests
        PROVE  Owns(v, r)' <=> IF r = q THEN v = w ELSE Owns(v, r)
    <3>1. CASE v = w
      BY <1>4, <1>5, <3>1 DEF Owns, Job, Holding
    <3>2. CASE v # w
      BY <1>3, <1>5, <3>2 DEF Owns, Job
    <3> QED
      BY <3>1, <3>2
  <2>2. \A r \in Requests : Len(heap'[r]) <= 1
    <3>1. Len(heap'[q]) <= 1
      BY <1>6
    <3> QED
      BY <1>6, <3>1 DEF Inv, ExclusiveOwner
  <2> QED
    BY <1>6, <2>1, <2>2 DEF Inv, ExclusiveOwner
<1>9. RowInv'
  <2>1. row[q].status \notin {"completed", "failed"}
    BY <1>2, <1>3 DEF Inv, RowInv
  <2> QED
    BY <1>4, <1>5, <1>6, <2>1 DEF Inv, RowInv, Job
<1>10. AttemptInv'
  <2>1. stored[q] # Absent => attempts[q] <= stored[q]
    BY <1>2, <1>3 DEF Inv, AttemptInv
  <2>2. AttemptsBounded'
    BY <1>4 DEF Inv, AttemptInv, AttemptsBounded
  <2>3. \A r \in Requests :
          heap'[r] # <<>> /\ stored'[r] # Absent => attempts'[r] <= stored'[r]
    BY <1>4, <1>6 DEF Inv, AttemptInv
  <2> QED
    BY <1>4, <1>5, <2>1, <2>2, <2>3 DEF Inv, AttemptInv, At, Job
<1> QED
  BY <1>7, <1>8, <1>9, <1>10 DEF Inv

\* A task hands its request back to the heap, knowing of every attempt made.
LEMMA HandBack ==
  ASSUME TypeOK, TypeOK', Inv, NEW w \in Workers, NEW q \in Requests,
         NEW wait \in Nat,
         Owns(w, q), worker[w].stage \in Undecided,
         Push(q, wait),
         UNCHANGED <<caller, senders, row, attempts>>,
         stored'[q] # Absent => attempts[q] <= stored'[q],
         \A r \in Requests \ {q} : stored'[r] = stored[r],
         \A v \in Workers \ {w} : worker'[v] = worker[v],
         worker'[w].stage \notin Holding, worker'[w].id \in {None, q}
  PROVE  Inv'
<1> USE ConstantsAssumption
<1>1. /\ heap[q] = <<>>
      /\ \A v \in Workers \ {w} : ~Owns(v, q)
  BY DEF Inv, ExclusiveOwner
<1>2. /\ Len(heap'[q]) <= 1 /\ heap'[q] # <<>>
      /\ \A r \in Requests \ {q} : heap'[r] = heap[r]
  BY <1>1 DEF Push, TypeOK
<1>3. CallerInv'
  <2>1. caller[q] = "accepted"
    BY DEF Inv, CallerInv, Untouched, Owns
  <2>2. \A v \in Workers, r \in Requests \ {q} : Job(v)' = r => Job(v) = r
    BY DEF Job
  <2>3. \A r \in Requests \ {q} : Untouched(r) => Untouched(r)'
    BY <1>2, <2>2 DEF Untouched
  <2> QED
    BY <2>1, <2>3 DEF Inv, CallerInv
<1>4. \A v \in Workers, r \in Requests : Owns(v, r)' <=> v # w /\ Owns(v, r)
  <2>1. ASSUME NEW v \in Workers, NEW r \in Requests
        PROVE  Owns(v, r)' <=> v # w /\ Owns(v, r)
    <3>1. CASE v = w
      BY <3>1 DEF Owns
    <3>2. CASE v # w
      BY <3>2 DEF Owns, Job
    <3> QED
      BY <3>1, <3>2
  <2> QED
    BY <2>1
<1>5. ExclusiveOwner'
  <2>1. \A r \in Requests : Len(heap'[r]) <= 1
    BY <1>2 DEF Inv, ExclusiveOwner
  <2> QED
    BY <1>1, <1>2, <1>4, <2>1 DEF Inv, ExclusiveOwner
<1>6. RowInv'
  <2>1. row[q].status \notin {"completed", "failed"}
    BY DEF Inv, RowInv, Owns
  <2> QED
    BY <1>2, <2>1 DEF Inv, RowInv, Job, Holding, Undecided
<1>7. AttemptInv'
  <2>1. AttemptsBounded'
    BY DEF Inv, AttemptInv, AttemptsBounded
  <2>2. \A r \in Requests :
          heap'[r] # <<>> /\ stored'[r] # Absent => attempts'[r] <= stored'[r]
    BY <1>2 DEF Inv, AttemptInv
  <2>3. ASSUME NEW v \in Workers, worker'[v].stage \in Holding
        PROVE  worker'[v] = worker[v] /\ Job(v) \in Requests \ {q}
    <3>1. worker'[v] = worker[v] /\ worker[v].stage \in Holding
      BY <2>3
    <3>2. Job(v) \in Requests
      BY <3>1 DEF TypeOK, TasksOK, At, Holding
    <3> QED
      BY <1>1, <3>1, <3>2 DEF Owns
  <2>4. ASSUME NEW v \in Workers, At(v, "popped")', stored'[Job(v)'] # Absent
        PROVE  attempts'[Job(v)'] <= stored'[Job(v)']
    <3>1. worker'[v] = worker[v] /\ Job(v) \in Requests \ {q}
      BY <2>3, <2>4 DEF At, Holding
    <3>2. At(v, "popped") /\ Job(v)' = Job(v) /\ stored'[Job(v)] = stored[Job(v)]
      BY <2>4, <3>1 DEF At, Job
    <3> QED
      BY <2>4, <3>2 DEF Inv, AttemptInv
  <2>5. ASSUME NEW v \in Workers, At(v, "fetched")'
        PROVE  attempts'[Job(v)'] <= worker'[v].tries
    <3>1. worker'[v] = worker[v]
      BY <2>3, <2>5 DEF At, Holding
    <3> QED
      BY <2>5, <3>1 DEF Inv, AttemptInv, At, Job
  <2>6. ASSUME NEW v \in Workers, worker'[v].stage \in {"calling", "answered"}
        PROVE  attempts'[Job(v)'] <= worker'[v].tries + 1
    <3>1. worker'[v] = worker[v]
      BY <2>3, <2>6 DEF Holding
    <3> QED
      BY <2>6, <3>1 DEF Inv, AttemptInv, Job
  <2> QED
    BY <2>1, <2>2, <2>4, <2>5, <2>6 DEF AttemptInv
<1> QED
  BY <1>3, <1>5, <1>6, <1>7 DEF Inv

\* A statement about one's own request: its status changes, or it is on its way.
LEMMA OwnerWrites ==
  ASSUME TypeOK, TypeOK', Inv, NEW w \in Workers, NEW q \in Requests,
         Owns(w, q), worker[w].stage \in Undecided,
         UNCHANGED <<caller, heap, stored, senders>>,
         \A r \in Requests \ {q} : row'[r] = row[r] /\ attempts'[r] = attempts[r],
         \A v \in Workers \ {w} : worker'[v] = worker[v],
         Owns(w, q)',
         \/ /\ At(w, "calling")'
            /\ row'[q].status = "executing"
            /\ attempts'[q] <= worker'[w].tries + 1
         \/ /\ At(w, "settled")'
            /\ attempts'[q] = attempts[q]
  PROVE  Inv'
<1> USE ConstantsAssumption
<1>1. heap[q] = <<>> /\ \A v \in Workers \ {w} : ~Owns(v, q)
  BY DEF Inv, ExclusiveOwner
<1>2. \A v \in Workers : Job(v)' = Job(v)
  BY DEF Owns, Job
<1>3. CallerInv'
  <2>1. caller[q] = "accepted"
    BY DEF Inv, CallerInv, Untouched, Owns
  <2>2. \A r \in Requests : Untouched(r) => Untouched(r)'
    BY <1>2 DEF Untouched
  <2> QED
    BY <2>1, <2>2 DEF Inv, CallerInv
<1>4. ExclusiveOwner'
  <2>1. \A v \in Workers, r \in Requests : Owns(v, r)' <=> Owns(v, r)
    BY DEF Owns, Job
  <2> QED
    BY <2>1 DEF Inv, ExclusiveOwner
<1>5. RowInv'
  <2>1. ASSUME NEW r \in Requests, row'[r].status \in {"completed", "failed"}
        PROVE  /\ heap'[r] = <<>>
               /\ \A v \in Workers : Job(v)' = r => worker'[v].stage \notin Undecided
    <3>1. CASE r = q
      <4>1. worker'[w].stage \notin Undecided
        BY <2>1, <3>1 DEF At, Undecided
      <4>2. \A v \in Workers \ {w} : Job(v)' = q => worker'[v].stage \notin Undecided
        BY <1>1 DEF Owns, Job, Undecided, Holding
      <4> QED
        BY <1>1, <3>1, <4>1, <4>2
    <3>2. CASE r # q
      <4>1. Job(w)' # r
        BY <3>2 DEF Owns
      <4> QED
        BY <2>1, <3>2, <4>1 DEF Inv, RowInv, Job
    <3> QED
      BY <3>1, <3>2
  <2> QED
    BY <2>1 DEF RowInv
<1>6. AttemptInv'
  <2>1. worker'[w].tries \in 0..MaxRetries /\ attempts[q] <= MaxRetries + 1
    BY DEF TypeOK, TasksOK, Task, Inv, AttemptInv, AttemptsBounded
  <2>2. attempts'[q] <= MaxRetries + 1
    <3>1. attempts'[q] \in Nat /\ worker'[w].tries \in Nat /\ MaxRetries \in Nat
      BY <2>1 DEF TypeOK
    <3>2. CASE attempts'[q] <= worker'[w].tries + 1
      BY ONLY <2>1, <3>1, <3>2
    <3>3. CASE attempts'[q] = attempts[q]
      BY ONLY <2>1, <3>3
    <3> QED
      BY <3>2, <3>3
  <2>3. AttemptsBounded'
    BY <2>2 DEF Inv, AttemptInv, AttemptsBounded
  <2>4. \A r \in Requests :
          heap'[r] # <<>> /\ stored'[r] # Absent => attempts'[r] <= stored'[r]
    BY <1>1 DEF Inv, AttemptInv
  <2>5. ASSUME NEW v \in Workers \ {w}
        PROVE  /\ At(v, "popped")' /\ stored'[Job(v)'] # Absent =>
                    attempts'[Job(v)'] <= stored'[Job(v)']
               /\ At(v, "fetched")' => attempts'[Job(v)'] <= worker'[v].tries
               /\ worker'[v].stage \in {"calling", "answered"} =>
                    attempts'[Job(v)'] <= worker'[v].tries + 1
    <3>1. worker'[v].stage \in Holding => Job(v) \in Requests \ {q}
      BY <1>1 DEF Owns, Job, TypeOK, TasksOK, At, Holding
    <3> QED
      BY <1>2, <3>1 DEF Inv, AttemptInv, At, Holding
  <2>6. Job(w)' = q
    BY DEF Owns
  <2> QED
    BY <2>3, <2>4, <2>5, <2>6 DEF AttemptInv, At
<1> QED
  BY <1>3, <1>4, <1>5, <1>6 DEF Inv

LEMMA WorkerStepInv ==
  ASSUME TypeOK, TypeOK', Inv, NEW w \in Workers, WorkerStep(w)
  PROVE  Inv'
<1> USE ConstantsAssumption DEF memory, database, history
<1>0. /\ worker[w] \in Task
      /\ ~At(w, "idle") => Job(w) \in Requests
  BY DEF TypeOK, TasksOK
<1>1. CASE Pop(w)
  BY <1>1, PopInv
<1>2. CASE PutBack(w)
  <2>1. /\ At(w, "popped") /\ Push(Job(w), worker[w].wait) /\ Release(w)
        /\ UNCHANGED <<caller, stored, senders, row, attempts>>
    BY <1>2 DEF PutBack
  <2>2. /\ worker'[w] = Idle
        /\ \A v \in Workers \ {w} : worker'[v] = worker[v]
    BY <2>1, OthersKept DEF Release
  <2>3. worker'[w].stage \notin Holding /\ worker'[w].id \in {None, Job(w)}
    BY <2>2 DEF Idle, Holding
  <2>4. Job(w) \in Requests /\ Owns(w, Job(w)) /\ worker[w].stage \in Undecided
    BY <1>0, <2>1 DEF Owns, At, Holding, Undecided
  <2>5. worker[w].wait \in Nat
    BY <1>0 DEF Task
  <2>6. stored'[Job(w)] # Absent => attempts[Job(w)] <= stored'[Job(w)]
    BY <2>1 DEF Inv, AttemptInv
  <2> QED
    BY <2>1, <2>2, <2>3, <2>4, <2>5, <2>6, HandBack
<1>3. CASE Fetch(w)
  <2>1. At(w, "popped") /\ UNCHANGED <<caller, heap, stored, senders, row, attempts>>
    BY <1>3 DEF Fetch
  <2>2. CASE Release(w)
    BY <2>1, <2>2, Releasing
  <2>3. CASE /\ stored[Job(w)] # Absent
             /\ worker' = [worker EXCEPT ![w].stage = "fetched", ![w].tries = stored[Job(w)]]
    <3>1. /\ worker'[w].stage = "fetched" /\ worker'[w].tries = stored[Job(w)]
          /\ worker'[w].id = Job(w)
          /\ \A v \in Workers \ {w} : worker'[v] = worker[v]
      BY <1>0, <2>3 DEF TypeOK, TasksOK, Task, Job
    <3>2. attempts[Job(w)] <= stored[Job(w)]
      BY <2>1, <2>3 DEF Inv, AttemptInv
    <3>3. ASSUME NEW v \in Workers
          PROVE  /\ Job(v)' \in {None, Job(v)}
                 /\ worker'[v].stage \in Holding => Owns(v, Job(v)')
                 /\ worker'[v].stage \in Undecided => worker[v].stage \in Undecided
                 /\ At(v, "popped")' => At(v, "popped")
                 /\ At(v, "fetched")' => attempts[Job(v)'] <= worker'[v].tries
                 /\ worker'[v].stage \in {"calling", "answered"} =>
                      attempts[Job(v)'] <= worker'[v].tries + 1
      <4>1. CASE v = w
        BY <2>1, <3>1, <3>2, <4>1 DEF Job, At, Owns, Holding, Undecided
      <4>2. CASE v # w
        BY <3>1, <4>2 DEF Job, At, Owns, Inv, AttemptInv
      <4> QED
        BY <4>1, <4>2
    <3> QED
      BY <2>1, <3>3, ShrinkingStep DEF TypeOK
  <2> QED
    BY <1>3, <2>2, <2>3 DEF Fetch
<1>4. CASE Start(w)
  <2>1. /\ At(w, "fetched") /\ UNCHANGED <<caller, heap, stored, senders>>
        /\ \/ row' = WithStatus(Job(w), "executing") /\ Goto(w, "calling")
           \/ Release(w) /\ UNCHANGED row
        /\ attempts' = IF worker'[w].stage = "calling"
                       THEN [attempts EXCEPT ![Job(w)] = @ + 1]
                       ELSE attempts
    BY <1>4 DEF Start, Update
  <2>2. CASE Release(w) /\ UNCHANGED row
    <3>1. worker'[w] = Idle
      BY <2>2, OthersKept DEF Release
    <3>2. UNCHANGED attempts
      BY <2>1, <3>1 DEF Idle
    <3> QED
      BY <2>1, <2>2, <3>2, Releasing
  <2>3. CASE row' = WithStatus(Job(w), "executing") /\ Goto(w, "calling")
    <3>1. Job(w) \in Requests /\ Owns(w, Job(w)) /\ worker[w].stage \in Undecided
      BY <1>0, <2>1 DEF Owns, At, Holding, Undecided
    <3>2. /\ worker'[w].stage = "calling" /\ worker'[w].id = Job(w)
          /\ worker'[w].tries = worker[w].tries
          /\ \A v \in Workers \ {w} : worker'[v] = worker[v]
      BY <2>3 DEF Goto, TypeOK, TasksOK, Task, Job
    <3>3. attempts[Job(w)] <= worker[w].tries
      BY <2>1 DEF Inv, AttemptInv
    <3>4. /\ attempts'[Job(w)] = attempts[Job(w)] + 1
          /\ \A r \in Requests \ {Job(w)} : attempts'[r] = attempts[r]
      BY <2>1, <3>1, <3>2 DEF TypeOK
    <3>5. attempts'[Job(w)] <= worker'[w].tries + 1
      BY <1>0, <3>1, <3>2, <3>3, <3>4 DEF Task, TypeOK
    <3>6. /\ row'[Job(w)].status = "executing"
          /\ \A r \in Requests \ {Job(w)} : row'[r] = row[r]
      BY <2>3, <3>1 DEF WithStatus, TypeOK, Row
    <3>7. Owns(w, Job(w))' /\ At(w, "calling")'
      BY <3>2 DEF Owns, Job, At, Holding
    <3>8. worker'[w].id = Job(w) /\ worker'[w].stage \in Holding
      BY <3>2 DEF Holding
    <3>9. PICK p \in Requests : p = Job(w)
      BY <3>1
    <3>10. Owns(w, p)'
      BY <3>8, <3>9 DEF Owns, Job
    <3> QED
      BY <2>1, <3>1, <3>2, <3>4, <3>5, <3>6, <3>7, <3>9, <3>10, OwnerWrites
  <2> QED
    BY <2>1, <2>2, <2>3
<1>5. CASE Call(w)
  <2>1. At(w, "calling") /\ UNCHANGED <<caller, heap, stored, senders, row, attempts>>
    BY <1>5 DEF Call
  <2>2. CASE Goto(w, "dead")
    <3>1. worker'[w].stage = "dead"
      BY <2>2 DEF Goto, TypeOK, TasksOK, Task
    <3> QED
      BY <2>1, <2>2, <3>1, Advancing DEF Holding
  <2>3. CASE \E answer \in Answers(Job(w), worker[w].tries) :
               worker' = [worker EXCEPT ![w].stage = "answered", ![w].outcome = answer]
    <3>1. /\ worker'[w].stage = "answered" /\ worker'[w].tries = worker[w].tries
          /\ worker'[w].id = Job(w)
          /\ \A v \in Workers \ {w} : worker'[v] = worker[v]
      BY <1>0, <2>3 DEF TypeOK, TasksOK, Task, Job
    <3>2. ASSUME NEW v \in Workers
          PROVE  /\ Job(v)' \in {None, Job(v)}
                 /\ worker'[v].stage \in Holding => Owns(v, Job(v)')
                 /\ worker'[v].stage \in Undecided => worker[v].stage \in Undecided
                 /\ At(v, "popped")' => At(v, "popped")
                 /\ At(v, "fetched")' => attempts[Job(v)'] <= worker'[v].tries
                 /\ worker'[v].stage \in {"calling", "answered"} =>
                      attempts[Job(v)'] <= worker'[v].tries + 1
      <4>1. CASE v = w
        BY <2>1, <3>1, <4>1 DEF Job, At, Owns, Holding, Undecided, Inv, AttemptInv
      <4>2. CASE v # w
        BY <3>1, <4>2 DEF Job, At, Owns, Inv, AttemptInv
      <4> QED
        BY <4>1, <4>2
    <3> QED
      BY <2>1, <3>2, ShrinkingStep DEF TypeOK
  <2> QED
    BY <1>5, <2>2, <2>3 DEF Call
<1>6. ASSUME Complete(w) \/ GiveUp(w) PROVE Inv'
  <2>1. /\ At(w, "answered") /\ UNCHANGED <<caller, heap, stored, senders, attempts>>
        /\ \/ /\ row' = WithStatus(Job(w), "completed") \/ row' = WithStatus(Job(w), "failed")
              /\ Goto(w, "settled")
           \/ Release(w) /\ UNCHANGED row
    BY <1>6 DEF Complete, GiveUp, Update
  <2>2. CASE Release(w) /\ UNCHANGED row
    BY <2>1, <2>2, Releasing
  <2>3. CASE /\ row' = WithStatus(Job(w), "completed") \/ row' = WithStatus(Job(w), "failed")
             /\ Goto(w, "settled")
    <3>1. PICK p \in Requests : p = Job(w)
      BY <1>0, <2>1 DEF At
    <3>2. Owns(w, p) /\ worker[w].stage \in Undecided
      BY <2>1, <3>1 DEF Owns, At, Holding, Undecided
    <3>3. /\ worker'[w].stage = "settled" /\ worker'[w].id = p
          /\ \A v \in Workers \ {w} : worker'[v] = worker[v]
      BY <2>3, <3>1 DEF Goto, TypeOK, TasksOK, Task, Job
    <3>4. \A r \in Requests \ {p} : row'[r] = row[r]
      BY <2>3, <3>1 DEF WithStatus, TypeOK
    <3>5. Owns(w, p)' /\ At(w, "settled")'
      BY <3>3 DEF Owns, Job, At, Holding
    <3> QED
      BY <2>1, <3>2, <3>3, <3>4, <3>5, OwnerWrites
  <2> QED
    BY <2>1, <2>2, <2>3
<1>7. CASE ScheduleRetry(w)
  <2>1. /\ At(w, "answered")
        /\ Push(Job(w), Backoff(NextTry(w)))
        /\ Store(Job(w), NextTry(w))
        /\ worker' = [worker EXCEPT ![w].stage = "scheduled", ![w].tries = NextTry(w)]
        /\ UNCHANGED <<caller, senders, row, attempts>>
    BY <1>7 DEF ScheduleRetry
  <2>2. PICK p \in Requests : p = Job(w)
    BY <1>0, <2>1 DEF At
  <2>3. worker[w].tries \in 0..MaxRetries
    BY <1>0 DEF Task
  <2>4. NextTry(w) \in 1..MaxRetries
    BY <1>7, <2>3 DEF ScheduleRetry, RetriesLeft, NextTry
  <2>5. Backoff(NextTry(w)) \in Nat
    BY <2>4, BackoffAssumption
  <2>6. Owns(w, p) /\ worker[w].stage \in Undecided
    BY <2>1, <2>2 DEF Owns, At, Holding, Undecided
  <2>7. /\ worker'[w].stage \notin Holding /\ worker'[w].id = p
        /\ \A v \in Workers \ {w} : worker'[v] = worker[v]
    BY <1>0, <2>1, <2>2 DEF TypeOK, TasksOK, Task, Job, Holding
  <2>8. /\ stored'[p] = NextTry(w)
        /\ \A r \in Requests \ {p} : stored'[r] = stored[r]
    BY <2>1, <2>2 DEF Store, TypeOK
  <2>9. attempts[p] <= NextTry(w)
    <3>1. attempts[Job(w)] <= worker[w].tries + 1
      BY <2>1 DEF Inv, AttemptInv, At
    <3> QED
      BY <2>2, <3>1 DEF NextTry
  <2> QED
    BY <2>1, <2>2, <2>5, <2>6, <2>7, <2>8, <2>9, HandBack
<1>8. CASE SaveRetry(w)
  <2>1. /\ At(w, "scheduled") /\ UNCHANGED <<caller, heap, stored, senders, attempts>>
        /\ \/ row' = WithTries(w) /\ Goto(w, "replying")
           \/ Release(w) /\ UNCHANGED row
    BY <1>8 DEF SaveRetry, Update
  <2>2. CASE Release(w) /\ UNCHANGED row
    BY <2>1, <2>2, Releasing
  <2>3. CASE row' = WithTries(w) /\ Goto(w, "replying")
    <3>1. worker'[w].stage = "replying"
      BY <2>3 DEF Goto, TypeOK, TasksOK, Task
    <3>2. \A r \in Requests : row'[r].status = row[r].status
      BY <2>3 DEF WithTries, TypeOK, Row
    <3> QED
      BY <2>1, <2>3, <3>1, <3>2, Advancing DEF Holding
  <2> QED
    BY <2>1, <2>2, <2>3
<1>9. CASE Forget(w)
  <2>1. /\ UNCHANGED <<caller, heap, row, attempts>>
        /\ stored' = [stored EXCEPT ![Job(w)] = Absent]
        /\ senders' \subseteq senders
        /\ Goto(w, IF Succeeded(w) THEN "recording" ELSE "replying")
    BY <1>9 DEF Forget, Discard
  <2>2. worker'[w].stage = IF Succeeded(w) THEN "recording" ELSE "replying"
    BY <2>1 DEF Goto, TypeOK, TasksOK, Task
  <2>3. \A r \in Requests : stored'[r] \in {Absent, stored[r]}
    BY <2>1 DEF TypeOK
  <2> QED
    BY <2>1, <2>2, <2>3, Advancing DEF Holding
<1>10. CASE Record(w)
  <2>1. UNCHANGED <<caller, heap, stored, senders, row, attempts>> /\ Goto(w, "replying")
    BY <1>10 DEF Record
  <2>2. worker'[w].stage = "replying"
    BY <2>1 DEF Goto, TypeOK, TasksOK, Task
  <2> QED
    BY <2>1, <2>2, Advancing DEF Holding
<1>11. CASE Reply(w)
  BY <1>11, Releasing DEF Reply
<1> QED
  BY <1>1, <1>2, <1>3, <1>4, <1>5, <1>6, <1>7, <1>8, <1>9, <1>10, <1>11 DEF WorkerStep

LEMMA ClockInv == ASSUME TypeOK, TypeOK', Inv, Tick PROVE Inv'
<1> USE ConstantsAssumption DEF memory, database, history
<1>1. /\ UNCHANGED <<caller, stored, senders, row, attempts>>
      /\ heap' = [r \in Requests |-> [i \in DOMAIN heap[r] |-> Elapsed(heap[r][i])]]
      /\ worker' = [w \in Workers |-> [worker[w] EXCEPT !.wait = Elapsed(worker[w].wait)]]
  BY DEF Tick
<1>2. ASSUME NEW r \in Requests
      PROVE  heap'[r] = <<>> \/ (heap[r] # <<>> /\ Len(heap'[r]) = Len(heap[r]))
  <2>1. heap[r] \in Seq(Nat) /\ heap'[r] \in Seq(Nat)
    BY DEF TypeOK
  <2>2. Len(heap'[r]) = Len(heap[r])
    BY <1>1, <2>1, ElapsedFacts
  <2>3. CASE heap[r] = <<>>
    BY <2>1, <2>2, <2>3
  <2> QED
    BY <2>2, <2>3
<1>3. ASSUME NEW w \in Workers
      PROVE  /\ worker'[w].stage = worker[w].stage /\ worker'[w].id = worker[w].id
             /\ worker'[w].tries = worker[w].tries
  BY <1>1 DEF TypeOK, TasksOK, Task
<1>4. ASSUME NEW w \in Workers
      PROVE  /\ Job(w)' \in {None, Job(w)}
             /\ worker'[w].stage \in Holding => Owns(w, Job(w)')
             /\ worker'[w].stage \in Undecided => worker[w].stage \in Undecided
             /\ At(w, "popped")' => At(w, "popped")
             /\ At(w, "fetched")' => attempts[Job(w)'] <= worker'[w].tries
             /\ worker'[w].stage \in {"calling", "answered"} =>
                  attempts[Job(w)'] <= worker'[w].tries + 1
  BY <1>3 DEF Job, At, Owns, Inv, AttemptInv
<1> QED
  BY <1>1, <1>2, <1>4, ShrinkingStep

\* A crash empties memory; what calls are left have done nothing.
LEMMA RestartInv == ASSUME TypeOK, TypeOK', Inv, Restart PROVE Inv'
<1> USE ConstantsAssumption DEF memory, database, history
<1>1. /\ UNCHANGED <<row, attempts>>
      /\ \A r \in Requests :
           /\ heap'[r] = <<>> /\ stored'[r] = Absent /\ r \notin senders'
           /\ caller'[r] = IF caller[r] = "new" THEN "new" ELSE "gone"
      /\ \A w \in Workers : worker'[w] = Idle
  BY DEF Restart, InitialEntries
<1>2. \A w \in Workers : worker'[w].stage = "idle" /\ worker'[w].id = None
  BY <1>1 DEF Idle
<1>3. CallerInv'
  BY <1>1, <1>2 DEF Inv, CallerInv, Untouched, Job
<1>4. ExclusiveOwner'
  <2>1. \A w \in Workers, r \in Requests : ~Owns(w, r)'
    BY <1>2 DEF Owns, Holding
  <2> QED
    BY <1>1, <2>1 DEF ExclusiveOwner
<1>5. RowInv'
  BY <1>1, <1>2 DEF RowInv, Job
<1>6. AttemptInv'
  BY <1>1, <1>2 DEF Inv, AttemptInv, AttemptsBounded, At
<1> QED
  BY <1>3, <1>4, <1>5, <1>6 DEF Inv

LEMMA NextInv == TypeOK /\ TypeOK' /\ Inv /\ [Next]_vars => Inv'
<1> SUFFICES ASSUME TypeOK, TypeOK', Inv, [Next]_vars PROVE Inv'
  OBVIOUS
<1>1. CASE UNCHANGED vars
  <2>1. UNCHANGED <<caller, heap, stored, senders, row, worker, attempts>>
    BY <1>1 DEF vars, memory, database, history
  <2> QED
    BY <2>1 DEF Inv, CallerInv, Untouched, ExclusiveOwner, Owns, RowInv,
                AttemptInv, AttemptsBounded, At, Job
<1> QED
  BY <1>1, CallerStepsInv, WorkerStepInv, ClockInv, RestartInv DEF Next

\* The inductive invariant: it holds at first and every step keeps it.
THEOREM Inductive == Spec => []IInv
<1>1. Init => IInv
  BY InitTypeOK, InitInv DEF IInv, Inv
<1>2. IInv /\ [Next]_vars => IInv'
  BY NextTypeOK, NextInv DEF IInv, Inv
<1> QED
  BY <1>1, <1>2, PTL DEF Spec

\* However pops, put-backs, retries, cancellations and restarts interleave, a
\* request has one heap entry or one task, and never two of them
\* (request_queue.rs 186-201, 376-386, 546-551).
THEOREM OneOwner == Spec => []ExclusiveOwner
<1>1. IInv => ExclusiveOwner
  BY DEF IInv
<1> QED
  BY <1>1, Inductive, PTL

\* No request is sent more than once and once more for each retry
\* (request_queue.rs 153, 366-367), for any max_retries.
THEOREM AttemptLimit == Spec => []AttemptsBounded
<1>1. IInv => AttemptsBounded
  BY DEF IInv, AttemptInv
<1> QED
  BY <1>1, Inductive, PTL

\* A step leaves the status of a row that is completed or failed.
LEMMA StatusStays ==
  ASSUME IInv, [Next]_vars, NEW r \in Requests, row[r].status \in {"completed", "failed"}
  PROVE  row'[r].status = row[r].status
<1> USE DEF memory, database, history
<1>1. \A w \in Workers : Job(w) = r => worker[w].stage \notin Undecided
  BY DEF IInv, RowInv
<1>2. CASE \E s \in Requests : CheckSize(s) \/ SaveRow(s) \/ Publish(s) \/ Cancel(s)
  <2>1. caller[r] # "checked"
    BY DEF IInv, CallerInv
  <2> QED
    BY <1>2, <2>1 DEF CheckSize, SaveRow, Publish, Cancel, WithStatus, IInv, TypeOK
<1>3. ASSUME NEW w \in Workers, WorkerStep(w)
      PROVE  row'[r].status = row[r].status
  <2>1. row \in [Requests -> Row]
    BY DEF IInv, TypeOK
  <2>2. CASE Start(w) \/ Complete(w) \/ GiveUp(w)
    <3>1. Job(w) # r
      BY <1>1, <2>2 DEF Start, Complete, GiveUp, At, Undecided
    <3>2. row' = row \/ \E status \in RowStatuses : row' = [row EXCEPT ![Job(w)].status = status]
      BY <2>2 DEF Start, Complete, GiveUp, Update, WithStatus, RowStatuses
    <3> QED
      BY <2>1, <3>1, <3>2
  <2>3. CASE SaveRetry(w)
    BY <2>1, <2>3 DEF SaveRetry, Update, WithTries, Row
  <2>4. CASE ~(Start(w) \/ Complete(w) \/ GiveUp(w) \/ SaveRetry(w))
    <3>1. UNCHANGED row
      BY <1>3, <2>4 DEF WorkerStep, Pop, PutBack, Fetch, Call, ScheduleRetry, Forget, Record, Reply
    <3> QED
      BY <3>1
  <2> QED
    BY <2>2, <2>3, <2>4
<1>4. CASE Tick \/ Restart \/ UNCHANGED vars
  BY <1>4 DEF Tick, Restart, vars
<1> QED
  BY <1>2, <1>3, <1>4 DEF Next

\* A row that is completed or failed is never written over, by a retry, a
\* second task, a cancellation or after a restart (request_queue.rs 440-504).
THEOREM RowsStayTerminal == Spec => TerminalRowsFinal
<1> DEFINE Final == \A r \in Requests :
                      row[r].status \in {"completed", "failed"} => row'[r].status = row[r].status
<1>1. IInv /\ [Next]_vars => Final
  BY StatusStays
<1> QED
  BY <1>1, Inductive, PTL DEF Spec, TerminalRowsFinal

-----------------------------------------------------------------------------
(* What the queue keeps in several places at once: its heap, its map and its   *)
(* channels; its rows and its tasks; the results sent and the calls made; and  *)
(* that all of it together implements the life cycle of a request.  This rests *)
(* on the ownership of a request, proved above.                                *)

\* The inductive invariant behind MemoryAgrees: whoever still has to decide a
\* request that the map has lost, lost it to a cancellation.
MemoryInv ==
  /\ MemoryAgrees
  /\ \A w \in Workers : worker[w].stage \in Undecided /\ stored[Job(w)] = Absent => Job(w) \in cancelled
  /\ \A r \in cancelled : caller[r] \in {"accepted", "gone"}

\* The inductive invariant behind RowsAgree.  A task knows no more retries than
\* calls were made, and one about to tell the tracker is the only one.
Recording(w) == At(w, "recording") \/ (At(w, "settled") /\ Succeeded(w))

TaskInv(w) ==
  /\ worker[w].stage \in {"fetched", "scheduled"} => worker[w].tries <= attempts[Job(w)]
  /\ worker[w].stage \in {"calling", "answered"} => worker[w].tries + 1 <= attempts[Job(w)]
  /\ At(w, "calling") => row[Job(w)].status = "executing"
  /\ Recording(w) => row[Job(w)].status = "completed" /\ tracked[Job(w)] = 0

OneRecords ==
  \A v, w \in Workers : Recording(v) /\ Recording(w) /\ Job(v) = Job(w) => v = w

RecordsInv ==
  /\ RowTracksRequest
  /\ \A r \in Requests : stored[r] # Absent => stored[r] <= attempts[r]
  /\ \A w \in Workers : TaskInv(w)
  /\ OneRecords
  /\ IsFiniteSet(RowsWith("executing"))

\* The inductive invariant behind OneReplyPerAttempt: a call made is one result
\* sent, or one task that may still send it, or lost.
Pending(r) ==
  {w \in Workers : Job(w) = r /\ worker[w].stage \in
                     {"calling", "answered", "settled", "recording", "scheduled", "replying"}}

RepliesInv ==
  \A r \in Requests :
    IsFiniteSet(Pending(r)) /\ Len(received[r]) + Cardinality(Pending(r)) <= attempts[r]

-----------------------------------------------------------------------------
(* What a task's step does to the tasks *)

Becomes(w, stage) == worker'[w].stage = stage /\ worker'[w].id = worker[w].id

\* The stages of a task follow each other as the code's calls do.
Move(w) ==
  \/ worker'[w].stage = "idle" /\ worker'[w].id = None
  \/ At(w, "idle") /\ worker'[w].stage = "popped"
  \/ At(w, "popped") /\ Becomes(w, "fetched") /\ worker'[w].tries = stored[Job(w)] /\ stored[Job(w)] # Absent
  \/ At(w, "fetched") /\ Becomes(w, "calling") /\ worker'[w].tries = worker[w].tries
  \/ At(w, "calling") /\ Becomes(w, "dead")
  \/ At(w, "calling") /\ Becomes(w, "answered") /\ worker'[w].tries = worker[w].tries
  \/ At(w, "answered") /\ Becomes(w, "settled") /\ worker'[w].outcome = worker[w].outcome
  \/ At(w, "answered") /\ Becomes(w, "scheduled") /\ worker'[w].tries = worker[w].tries + 1
  \/ At(w, "settled") /\ Succeeded(w) /\ Becomes(w, "recording")
  \/ At(w, "settled") /\ ~Succeeded(w) /\ Becomes(w, "replying")
  \/ worker[w].stage \in {"scheduled", "recording"} /\ Becomes(w, "replying")

LEMMA MoveFacts ==
  ASSUME TypeOK, NEW w \in Workers, WorkerStep(w)
  PROVE  /\ Move(w)
         /\ \A v \in Workers \ {w} : worker'[v] = worker[v]
         /\ ~At(w, "idle") => Job(w) \in Requests
<1> USE DEF TypeOK, TasksOK
<1>0. worker[w] \in Task /\ (~At(w, "idle") => Job(w) \in Requests)
  OBVIOUS
<1>1. ASSUME Release(w)
      PROVE  Move(w) /\ \A v \in Workers \ {w} : worker'[v] = worker[v]
  BY <1>1 DEF Release, Idle, Move
<1>2. ASSUME NEW stage, Goto(w, stage)
      PROVE  /\ Becomes(w, stage)
             /\ worker'[w].tries = worker[w].tries /\ worker'[w].outcome = worker[w].outcome
             /\ \A v \in Workers \ {w} : worker'[v] = worker[v]
  BY <1>0, <1>2 DEF Goto, Becomes, Task
<1>3. CASE Pop(w)
  <2>1. PICK e \in Tops : worker' = [worker EXCEPT ![w] = Popped(e)]
    BY <1>3 DEF Pop
  <2>2. Popped(e).stage = "popped"
    BY DEF Popped
  <2> QED
    BY <1>0, <1>3, <2>1, <2>2 DEF Pop, Move
<1>4. CASE PutBack(w) \/ Reply(w)
  BY <1>0, <1>1, <1>4 DEF PutBack, Reply
<1>5. CASE Fetch(w)
  <2>1. CASE stored[Job(w)] = Absent
    BY <1>0, <1>1, <1>5, <2>1 DEF Fetch
  <2>2. CASE stored[Job(w)] # Absent
    <3>1. worker' = [worker EXCEPT ![w].stage = "fetched", ![w].tries = stored[Job(w)]]
      BY <1>5, <2>2 DEF Fetch
    <3>2. /\ worker'[w].stage = "fetched" /\ worker'[w].id = worker[w].id
          /\ worker'[w].tries = stored[Job(w)]
          /\ \A v \in Workers \ {w} : worker'[v] = worker[v]
      BY <1>0, <3>1 DEF Task
    <3> QED
      BY <1>0, <1>5, <2>2, <3>2 DEF Fetch, Move, Becomes
  <2> QED
    BY <2>1, <2>2
<1>6. CASE Start(w)
  BY <1>0, <1>1, <1>2, <1>6 DEF Start, Update, Move
<1>7. CASE Call(w)
  <2>1. CASE Goto(w, "dead")
    BY <1>0, <1>2, <1>7, <2>1 DEF Call, Move
  <2>2. CASE \E answer \in Answers(Job(w), worker[w].tries) :
               worker' = [worker EXCEPT ![w].stage = "answered", ![w].outcome = answer]
    <3>1. /\ worker'[w].stage = "answered" /\ worker'[w].id = worker[w].id
          /\ worker'[w].tries = worker[w].tries
          /\ \A v \in Workers \ {w} : worker'[v] = worker[v]
      BY <1>0, <2>2 DEF Task
    <3> QED
      BY <1>0, <1>7, <3>1 DEF Call, Move, Becomes
  <2> QED
    BY <1>7, <2>1, <2>2 DEF Call
<1>8. CASE Complete(w) \/ GiveUp(w)
  BY <1>0, <1>1, <1>2, <1>8 DEF Complete, GiveUp, Update, Move
<1>9. CASE ScheduleRetry(w)
  <2>1. worker' = [worker EXCEPT ![w].stage = "scheduled", ![w].tries = NextTry(w)]
    BY <1>9 DEF ScheduleRetry
  <2>2. /\ worker'[w].stage = "scheduled" /\ worker'[w].id = worker[w].id
        /\ worker'[w].tries = NextTry(w)
        /\ \A v \in Workers \ {w} : worker'[v] = worker[v]
    BY <1>0, <2>1 DEF Task
  <2> QED
    BY <1>0, <1>9, <2>2 DEF ScheduleRetry, Move, Becomes, NextTry
<1>10. CASE SaveRetry(w)
  BY <1>0, <1>1, <1>2, <1>10 DEF SaveRetry, Update, Move, At
<1>11. CASE Forget(w)
  BY <1>0, <1>2, <1>11 DEF Forget, Move
<1>12. CASE Record(w)
  BY <1>0, <1>2, <1>12 DEF Record, Move, At
<1> QED
  BY <1>3, <1>4, <1>5, <1>6, <1>7, <1>8, <1>9, <1>10, <1>11, <1>12 DEF WorkerStep

\* A task keeps its request through a step, unless it had none or is done with it.
LEMMA JobFacts ==
  ASSUME TypeOK, NEW w \in Workers, WorkerStep(w),
         NEW v \in Workers, worker'[v].stage # "idle", ~(v = w /\ At(w, "idle"))
  PROVE  Job(v)' = Job(v) /\ Job(v) \in Requests
<1>1. CASE v = w
  BY <1>1, MoveFacts DEF Move, Becomes, Job, At
<1>2. CASE v # w
  BY <1>2, MoveFacts DEF TypeOK, TasksOK, Job, At
<1> QED
  BY <1>1, <1>2

-----------------------------------------------------------------------------
(* Heap, map and channels *)

LEMMA InitMemory == Init => MemoryInv
<1> SUFFICES ASSUME Init PROVE MemoryInv
  OBVIOUS
<1> QED
  BY DEF Init, MemoryInv, MemoryAgrees, OrphansWereCancelled, ChannelsAreLive, Idle, Undecided

\* A step that adds nothing to the heap, gives up nothing of the map, and gives no
\* task a request to decide.
LEMMA QuietMemory ==
  ASSUME TypeOK, MemoryInv,
         UNCHANGED <<stored, senders, cancelled>>,
         \A r \in Requests : heap'[r] # <<>> => heap[r] # <<>>,
         \A r \in Requests : caller[r] \in {"accepted", "gone"} => caller'[r] \in {"accepted", "gone"},
         \A w \in Workers : worker'[w].stage \in Undecided =>
                              worker[w].stage \in Undecided /\ Job(w)' = Job(w)
  PROVE  MemoryInv'
BY DEF TypeOK, MemoryInv, MemoryAgrees, OrphansWereCancelled, ChannelsAreLive

LEMMA MemoryCallers ==
  ASSUME TypeOK, Inv, MemoryInv, NEW r \in Requests,
         CheckSize(r) \/ SaveRow(r) \/ Publish(r) \/ Cancel(r)
  PROVE  MemoryInv'
<1> USE DEF memory, database, history
<1>1. CASE CheckSize(r) \/ SaveRow(r)
  BY <1>1, QuietMemory DEF CheckSize, SaveRow, TypeOK, Job
<1>2. CASE Publish(r)
  <2>1. /\ caller[r] = "saved" /\ caller'[r] = "accepted"
        /\ heap'[r] = Append(heap[r], 0) /\ stored'[r] = 0
        /\ senders' = senders \cup {r}
        /\ \A s \in Requests \ {r} :
             caller'[s] = caller[s] /\ heap'[s] = heap[s] /\ stored'[s] = stored[s]
        /\ UNCHANGED <<worker, cancelled>>
    BY <1>2 DEF Publish, Push, Store, TypeOK
  <2>2. r \notin cancelled /\ \A w \in Workers : Job(w) # r
    BY <2>1 DEF MemoryInv, Inv, CallerInv, Untouched
  <2>3. OrphansWereCancelled' /\ ChannelsAreLive'
    <3>1. stored'[r] # Absent
      BY <2>1 DEF Absent
    <3>2. \A s \in Requests \ {r} : heap'[s] = heap[s] /\ stored'[s] = stored[s]
      BY <2>1
    <3>3. OrphansWereCancelled'
      BY <2>1, <3>1, <3>2 DEF MemoryInv, MemoryAgrees, OrphansWereCancelled
    <3>4. ASSUME NEW s \in senders'
          PROVE  stored'[s] # Absent /\ s \notin cancelled'
      <4>1. s \in Requests /\ (s = r \/ s \in senders)
        BY <2>1, <3>4 DEF TypeOK
      <4>2. CASE s = r
        BY <2>1, <2>2, <3>1, <4>2
      <4>3. CASE s # r
        BY <2>1, <3>2, <4>1, <4>3 DEF MemoryInv, MemoryAgrees, ChannelsAreLive
      <4> QED
        BY <4>2, <4>3
    <3> QED
      BY <3>3, <3>4 DEF ChannelsAreLive
  <2>4. \A w \in Workers : worker[w].stage \in Undecided => Job(w) \in Requests
    BY DEF TypeOK, TasksOK, At, Undecided
  <2> QED
    BY <2>1, <2>2, <2>3, <2>4 DEF MemoryInv, MemoryAgrees, TypeOK, Job
<1>3. CASE Cancel(r)
  <2>1. /\ caller[r] = "accepted" /\ UNCHANGED <<caller, worker>>
        /\ heap' = [heap EXCEPT ![r] = <<>>]
        /\ stored' = [stored EXCEPT ![r] = Absent]
        /\ senders' = senders \ {r}
        /\ cancelled' = IF stored[r] = Absent THEN cancelled ELSE cancelled \cup {r}
    BY <1>3 DEF Cancel, Discard
  <2>2. \A w \in Workers : worker[w].stage \in Undecided => Job(w) \in Requests
    BY DEF TypeOK, TasksOK, At, Undecided
  <2> QED
    BY <2>1, <2>2 DEF MemoryInv, MemoryAgrees, OrphansWereCancelled, ChannelsAreLive, TypeOK, Job
<1> QED
  BY <1>1, <1>2, <1>3

LEMMA MemoryWorkers ==
  ASSUME TypeOK, Inv, MemoryInv, NEW w \in Workers, WorkerStep(w)
  PROVE  MemoryInv'
<1> USE DEF memory, database, history
<1>0. ASSUME NEW v \in Workers, worker'[v].stage \in Undecided, ~(v = w /\ At(w, "idle"))
      PROVE  worker[v].stage \in Undecided /\ Job(v)' = Job(v) /\ Job(v) \in Requests
  <2>1. Job(v)' = Job(v) /\ Job(v) \in Requests
    BY <1>0, JobFacts DEF Undecided
  <2>2. CASE v = w
    BY <1>0, <2>1, <2>2, MoveFacts DEF Move, Becomes, Undecided, At
  <2>3. CASE v # w
    BY <1>0, <2>1, <2>3, MoveFacts
  <2> QED
    BY <2>1, <2>2, <2>3
<1>1. CASE Pop(w)
  <2>1. PICK e \in Tops :
          /\ worker' = [worker EXCEPT ![w] = Popped(e)]
          /\ heap' = [heap EXCEPT ![e[1]] = Remaining(e)]
    BY <1>1 DEF Pop
  <2>2. /\ UNCHANGED <<caller, stored, senders, cancelled>> /\ At(w, "idle")
        /\ e[1] \in Requests /\ heap[e[1]] # <<>>
    BY <1>1 DEF Pop, Tops, Entries
  <2>3. \A r \in Requests : heap'[r] # <<>> => heap[r] # <<>>
    <3> DEFINE q == e[1]
    <3>1. q \in Requests /\ heap[q] # <<>> /\ heap' = [heap EXCEPT ![q] = Remaining(e)]
      BY <2>1, <2>2
    <3> HIDE DEF q
    <3>2. ASSUME NEW r \in Requests PROVE heap'[r] # <<>> => heap[r] # <<>>
      BY <3>1 DEF TypeOK
    <3> QED
      BY <3>2
  <2>4. worker'[w].stage = "popped" /\ Job(w)' = e[1]
    BY <2>1 DEF Popped, TypeOK, TasksOK, Job
  <2>5. stored[e[1]] = Absent => e[1] \in cancelled
    BY <2>2 DEF MemoryInv, MemoryAgrees, OrphansWereCancelled
  <2>6. \A v \in Workers : worker'[v].stage \in Undecided /\ stored'[Job(v)'] = Absent => Job(v)' \in cancelled'
    BY <1>0, <2>2, <2>4, <2>5 DEF MemoryInv
  <2> QED
    BY <2>2, <2>3, <2>6 DEF MemoryInv, MemoryAgrees, OrphansWereCancelled, ChannelsAreLive
<1>2. CASE PutBack(w)
  <2>1. /\ At(w, "popped") /\ Push(Job(w), worker[w].wait)
        /\ UNCHANGED <<caller, stored, senders, cancelled>>
    BY <1>2 DEF PutBack
  <2>2. stored[Job(w)] = Absent => Job(w) \in cancelled
    BY <2>1 DEF MemoryInv, At, Undecided
  <2>3. \A r \in Requests \ {Job(w)} : heap'[r] = heap[r]
    BY <2>1 DEF Push, TypeOK
  <2>4. OrphansWereCancelled'
    BY <2>1, <2>2, <2>3 DEF MemoryInv, MemoryAgrees, OrphansWereCancelled
  <2>5. \A v \in Workers : worker'[v].stage \in Undecided /\ stored'[Job(v)'] = Absent => Job(v)' \in cancelled'
    BY <1>0, <2>1 DEF MemoryInv, At
  <2> QED
    BY <2>1, <2>4, <2>5 DEF MemoryInv, MemoryAgrees, ChannelsAreLive
<1>3. CASE ScheduleRetry(w)
  <2>1. /\ At(w, "answered") /\ Push(Job(w), Backoff(NextTry(w)))
        /\ stored' = [stored EXCEPT ![Job(w)] = NextTry(w)]
        /\ UNCHANGED <<caller, senders, cancelled>>
    BY <1>3 DEF ScheduleRetry, Store
  <2>2. Job(w) \in Requests /\ NextTry(w) # Absent
    BY <2>1 DEF TypeOK, TasksOK, Task, At, NextTry, Absent
  <2>3. /\ stored'[Job(w)] # Absent
        /\ \A r \in Requests \ {Job(w)} : heap'[r] = heap[r] /\ stored'[r] = stored[r]
    BY <2>1, <2>2 DEF Push, TypeOK
  <2>4. OrphansWereCancelled' /\ ChannelsAreLive'
    BY <2>1, <2>3 DEF TypeOK, MemoryInv, MemoryAgrees, OrphansWereCancelled, ChannelsAreLive
  <2>5. \A v \in Workers : worker'[v].stage \in Undecided /\ stored'[Job(v)'] = Absent => Job(v)' \in cancelled'
    BY <1>0, <2>1, <2>3 DEF MemoryInv, At
  <2> QED
    BY <2>1, <2>4, <2>5 DEF MemoryInv, MemoryAgrees
<1>4. CASE Forget(w)
  <2>1. /\ At(w, "settled") /\ UNCHANGED <<caller, heap, cancelled>>
        /\ stored' = [stored EXCEPT ![Job(w)] = Absent]
        /\ senders' = senders \ {Job(w)}
    BY <1>4 DEF Forget, Discard
  <2>2. Job(w) \in Requests /\ Owns(w, Job(w))
    BY <2>1 DEF TypeOK, TasksOK, At, Owns, Holding
  <2>3. heap[Job(w)] = <<>> /\ \A v \in Workers \ {w} : ~Owns(v, Job(w))
    BY <2>2 DEF Inv, ExclusiveOwner
  <2>4. OrphansWereCancelled' /\ ChannelsAreLive'
    BY <2>1, <2>2, <2>3 DEF TypeOK, MemoryInv, MemoryAgrees, OrphansWereCancelled, ChannelsAreLive
  <2>5. ASSUME NEW v \in Workers, worker'[v].stage \in Undecided, stored'[Job(v)'] = Absent
        PROVE  Job(v)' \in cancelled'
    <3>1. worker[v].stage \in Undecided /\ Job(v)' = Job(v) /\ Job(v) \in Requests
      BY <1>0, <2>1, <2>5 DEF At
    <3>2. v # w
      BY <2>1, <3>1 DEF At, Undecided
    <3>3. Job(v) # Job(w)
      BY <2>3, <3>1, <3>2 DEF Owns, Holding, Undecided
    <3> QED
      BY <2>1, <2>5, <3>1, <3>3 DEF TypeOK, MemoryInv
  <2> QED
    BY <2>1, <2>4, <2>5 DEF MemoryInv, MemoryAgrees
<1>5. CASE ~(Pop(w) \/ PutBack(w) \/ ScheduleRetry(w) \/ Forget(w))
  <2>1. ~At(w, "idle") /\ UNCHANGED <<caller, heap, stored, senders, cancelled>>
    BY <1>5 DEF WorkerStep, Fetch, Start, Call, Complete, SaveRetry, GiveUp, Record, Reply, At
  <2> QED
    BY <1>0, <2>1, QuietMemory
<1> QED
  BY <1>1, <1>2, <1>3, <1>4, <1>5

LEMMA NextMemory == TypeOK /\ Inv /\ MemoryInv /\ [Next]_vars => MemoryInv'
<1> SUFFICES ASSUME TypeOK, Inv, MemoryInv, [Next]_vars PROVE MemoryInv'
  OBVIOUS
<1> USE DEF memory, database, history
<1>1. CASE Tick
  <2>1. \A r \in Requests : heap'[r] # <<>> => heap[r] # <<>>
    BY <1>1 DEF Tick
  <2>2. \A w \in Workers : worker'[w].stage = worker[w].stage /\ worker'[w].id = worker[w].id
    BY <1>1 DEF Tick, TypeOK, TasksOK, Task
  <2> QED
    BY <1>1, <2>1, <2>2, QuietMemory DEF Tick, Job
<1>2. CASE Restart
  BY <1>2, ConstantsAssumption
     DEF Restart, InitialEntries, Idle, TypeOK, MemoryInv, MemoryAgrees, OrphansWereCancelled, ChannelsAreLive, Undecided
<1>3. CASE UNCHANGED vars
  BY <1>3, QuietMemory DEF vars, Job
<1> QED
  BY <1>1, <1>2, <1>3, MemoryCallers, MemoryWorkers DEF Next

\* An entry of the heap that the map does not know was cancelled while a task had
\* it, and a channel has a request that was not cancelled, for any number of
\* requests, tasks, errors and restarts (request_queue.rs 162-201, 329-335, 376-407,
\* 541-556).
THEOREM MemoryStaysInStep == Spec => []MemoryAgrees
<1>1. Init => MemoryInv
  BY InitMemory
<1>2. IInv /\ MemoryInv /\ [Next]_vars => MemoryInv'
  BY NextMemory DEF IInv, Inv
<1>3. MemoryInv => MemoryAgrees
  BY DEF MemoryInv
<1> QED
  BY <1>1, <1>2, <1>3, Inductive, PTL DEF Spec

-----------------------------------------------------------------------------
(* Rows and tasks *)

LEMMA InitRecords == Init => RecordsInv
<1> SUFFICES ASSUME Init PROVE RecordsInv
  OBVIOUS
<1>1. \A w \in Workers : worker[w].stage = "idle"
  BY DEF Init, Idle
<1>2. \A r \in Requests : /\ row[r].status = "none" /\ row[r].tries = 0
                          /\ attempts[r] = 0 /\ tracked[r] = 0 /\ stored[r] = Absent
  BY DEF Init
<1>3. RowsWith("executing") = {}
  BY <1>2 DEF RowsWith
<1>4. RowTracksRequest
  BY <1>2 DEF RowTracksRequest
<1>5. \A w \in Workers : ~Recording(w) /\ TaskInv(w)
  BY <1>1 DEF Recording, TaskInv, At
<1>6. IsFiniteSet(RowsWith("executing"))
  BY <1>3, FS_EmptySet
<1> QED
  BY <1>2, <1>4, <1>5, <1>6 DEF RecordsInv, OneRecords

\* A step that writes no row and records no call.
LEMMA QuietRecords ==
  ASSUME TypeOK, RecordsInv, UNCHANGED <<row, tracked, attempts>>,
         \A r \in Requests : stored'[r] # Absent => stored'[r] <= attempts[r],
         \A w \in Workers :
           \/ worker'[w] = worker[w]
           \/ worker'[w].stage = "idle"
           \/ TaskInv(w)' /\ (Recording(w)' => Recording(w) /\ Job(w)' = Job(w))
  PROVE  RecordsInv'
<1>1. RowTracksRequest' /\ IsFiniteSet(RowsWith("executing"))'
  BY DEF RecordsInv, RowTracksRequest, RowsWith
<1>2. \A r \in Requests : stored'[r] # Absent => stored'[r] <= attempts'[r]
  OBVIOUS
<1>3. ASSUME NEW w \in Workers
      PROVE  TaskInv(w)' /\ (Recording(w)' => Recording(w) /\ Job(w)' = Job(w))
  <2>1. CASE worker'[w] = worker[w]
    BY <2>1 DEF RecordsInv, TaskInv, Recording, Succeeded, At, Job
  <2>2. CASE worker'[w].stage = "idle"
    BY <2>2 DEF TaskInv, Recording, Succeeded, At, Job
  <2> QED
    BY <2>1, <2>2
<1>4. OneRecords'
  BY <1>3 DEF RecordsInv, OneRecords
<1> QED
  BY <1>1, <1>2, <1>3, <1>4 DEF RecordsInv

\* The owner of a request that is not decided yet writes its status.
LEMMA StatusWritten ==
  ASSUME TypeOK, Inv, RecordsInv, NEW w \in Workers, NEW p \in Requests,
         Job(w) = p, worker[w].stage \in {"fetched", "answered"},
         NEW status \in {"executing", "completed", "failed"},
         row' = WithStatus(p, status), UNCHANGED <<stored, tracked>>,
         worker'[w].id = p, \A v \in Workers \ {w} : worker'[v] = worker[v],
         attempts'[p] \in Nat, attempts'[p] >= attempts[p], attempts'[p] >= 1,
         \A r \in Requests \ {p} : attempts'[r] = attempts[r],
         worker'[w].stage \in {"calling", "answered"} => worker'[w].tries + 1 <= attempts'[p],
         worker'[w].stage = "calling" => status = "executing",
         worker'[w].stage \notin {"fetched", "scheduled", "recording"},
         worker'[w].stage = "settled" /\ worker'[w].outcome = "ok" => status = "completed"
  PROVE  RecordsInv'
<1>1. Owns(w, p) /\ worker[w].stage \in Undecided
  BY DEF Owns, Holding, Undecided
<1>2. row[p].status \notin {"completed", "failed"}
  BY <1>1 DEF Inv, RowInv
<1>3. /\ row'[p].status = status /\ row'[p].tries = row[p].tries
      /\ \A r \in Requests \ {p} : row'[r] = row[r]
  BY DEF WithStatus, TypeOK, Row
<1>4. tracked[p] = 0
  BY <1>2 DEF RecordsInv, RowTracksRequest, TypeOK
<1>5. row[p].tries <= attempts[p] /\ row[p].tries \in Nat /\ attempts[p] \in Nat
  BY DEF RecordsInv, RowTracksRequest, TypeOK, Row
<1>6. RowTracksRequest'
  <2> SUFFICES ASSUME NEW r \in Requests
               PROVE  /\ row'[r].status # "none" => (row'[r].status = "queued" <=> attempts'[r] = 0)
                      /\ row'[r].tries <= attempts'[r]
                      /\ tracked'[r] <= (IF row'[r].status = "completed" THEN 1 ELSE 0)
    BY DEF RowTracksRequest
  <2>1. CASE r = p
    <3>1. row'[p].tries <= attempts'[p]
      BY <1>3, <1>5
    <3>2. tracked'[p] = 0
      BY <1>4
    <3> QED
      BY <2>1, <1>3, <3>1, <3>2
  <2>2. CASE r # p
    BY <2>2, <1>3 DEF RecordsInv, RowTracksRequest
  <2> QED
    BY <2>1, <2>2
<1>7. ASSUME NEW r \in Requests
      PROVE  attempts[r] \in Nat /\ attempts'[r] \in Nat /\ attempts[r] <= attempts'[r]
  <2>1. attempts[r] \in Nat
    BY DEF TypeOK
  <2> QED
    BY <2>1
<1>8. \A r \in Requests : stored'[r] # Absent => stored'[r] <= attempts'[r]
  <2> SUFFICES ASSUME NEW r \in Requests, stored[r] # Absent PROVE stored[r] <= attempts'[r]
    OBVIOUS
  <2>1. stored[r] <= attempts[r] /\ stored[r] \in 0..MaxRetries
    BY DEF RecordsInv, TypeOK
  <2> QED
    BY <2>1, <1>7
<1>9. ASSUME NEW v \in Workers \ {w}
      PROVE  TaskInv(v)' /\ (Recording(v)' => Recording(v) /\ Job(v)' = Job(v) /\ Job(v) # p)
  <2>1. worker'[v] = worker[v]
    OBVIOUS
  <2>2. CASE At(v, "idle")
    BY <2>1, <2>2 DEF TaskInv, Recording, At, Job
  <2>3. CASE ~At(v, "idle")
    <3>1. Job(v) \in Requests /\ worker[v].tries \in Nat
      BY <2>3 DEF TypeOK, TasksOK, Task
    <3>2. Job(v) = p => worker[v].stage \notin Holding
      BY <1>1, <3>1 DEF Inv, ExclusiveOwner, Owns
    <3>3. Job(v) = p => ~Recording(v)
      BY <1>2 DEF RecordsInv, TaskInv
    <3>4. attempts'[Job(v)] \in Nat /\ attempts[Job(v)] <= attempts'[Job(v)] /\ attempts[Job(v)] \in Nat
      BY <3>1, <1>7 DEF TypeOK
    <3>5. Recording(v)' = Recording(v) /\ Job(v)' = Job(v)
      BY <2>1 DEF Recording, Succeeded, At, Job
    <3>6. /\ worker[v].stage \in {"fetched", "scheduled"} => worker[v].tries <= attempts'[Job(v)]
          /\ worker[v].stage \in {"calling", "answered"} => worker[v].tries + 1 <= attempts'[Job(v)]
      BY <3>1, <3>4 DEF RecordsInv, TaskInv
    <3>7. /\ worker[v].stage = "calling" => row'[Job(v)].status = "executing"
          /\ Recording(v) => row'[Job(v)].status = "completed" /\ tracked'[Job(v)] = 0
      BY <3>1, <3>2, <3>3, <1>3 DEF RecordsInv, TaskInv, At, Holding
    <3> QED
      BY <2>1, <3>3, <3>5, <3>6, <3>7 DEF TaskInv, At, Job
  <2> QED
    BY <2>2, <2>3
<1>10. Job(w)' = p /\ TaskInv(w)'
  BY <1>3, <1>4 DEF TaskInv, Recording, Succeeded, At, Job
<1>11. OneRecords'
  <2> SUFFICES ASSUME NEW u \in Workers, NEW v \in Workers,
                      Recording(u)', Recording(v)', Job(u)' = Job(v)'
               PROVE  u = v
    BY DEF OneRecords
  <2>1. CASE u # w /\ v # w
    BY <2>1, <1>9 DEF RecordsInv, OneRecords
  <2>2. CASE u = w \/ v = w
    BY <2>2, <1>9, <1>10
  <2> QED
    BY <2>1, <2>2
<1>12. IsFiniteSet(RowsWith("executing")')
  <2>1. RowsWith("executing")' \in SUBSET (RowsWith("executing") \cup {p})
    BY <1>3 DEF RowsWith
  <2>2. IsFiniteSet(RowsWith("executing") \cup {p})
    BY FS_AddElement DEF RecordsInv
  <2> QED
    BY <2>1, <2>2, FS_Subset
<1> QED
  BY <1>6, <1>8, <1>9, <1>10, <1>11, <1>12 DEF RecordsInv

LEMMA RecordsCallers ==
  ASSUME TypeOK, Inv, RecordsInv, NEW r \in Requests,
         CheckSize(r) \/ SaveRow(r) \/ Publish(r) \/ Cancel(r)
  PROVE  RecordsInv'
<1> USE DEF memory, database, history
<1>0. UNCHANGED <<worker, tracked, attempts>>
  BY DEF CheckSize, SaveRow, Publish, Cancel
<1>1. CASE CheckSize(r) \/ Publish(r) \/ Cancel(r) \/ (SaveRow(r) /\ row' = row)
  <2>1. UNCHANGED row
    BY <1>1 DEF CheckSize, Publish, Cancel, WithStatus
  <2>2. \A s \in Requests : stored'[s] \in {Absent, stored[s]} \/ (s = r /\ stored'[s] = 0)
    BY <1>1 DEF CheckSize, SaveRow, Publish, Store, Cancel, Discard, TypeOK
  <2>3. ASSUME NEW s \in Requests, stored'[s] # Absent PROVE stored'[s] <= attempts[s]
    <3>1. CASE stored'[s] = stored[s]
      BY <2>3, <3>1 DEF RecordsInv
    <3>2. CASE stored'[s] = 0
      BY <3>2 DEF TypeOK
    <3> QED
      BY <2>2, <2>3, <3>1, <3>2
  <2> QED
    BY <1>0, <2>1, <2>3, QuietRecords
<1>2. CASE SaveRow(r) /\ row' # row
  <2>1. /\ caller[r] = "checked" /\ UNCHANGED stored
        /\ row' = [row EXCEPT ![r] = [status |-> "queued", tries |-> 0]]
    BY <1>2 DEF SaveRow
  <2>2. row[r].status = "none" /\ attempts[r] = 0 /\ \A w \in Workers : Job(w) # r
    BY <2>1 DEF Inv, CallerInv, Untouched
  <2>3. /\ row'[r].status = "queued" /\ row'[r].tries = 0
        /\ \A s \in Requests \ {r} : row'[s] = row[s]
    BY <2>1 DEF TypeOK
  <2>4. RowTracksRequest'
    <3>1. tracked'[r] <= 0 /\ attempts'[r] = 0
      BY <1>0, <2>2 DEF RecordsInv, RowTracksRequest
    <3>2. \A s \in Requests \ {r} : attempts'[s] = attempts[s] /\ tracked'[s] = tracked[s]
      BY <1>0
    <3> QED
      BY <2>3, <3>1, <3>2 DEF RecordsInv, RowTracksRequest
  <2>5. ASSUME NEW w \in Workers PROVE TaskInv(w)' /\ Recording(w)' = Recording(w) /\ Job(w)' = Job(w)
    <3>1. Job(w) \in Requests \ {r} \/ At(w, "idle")
      BY <2>2 DEF TypeOK, TasksOK
    <3> QED
      BY <1>0, <2>3, <3>1 DEF RecordsInv, TaskInv, Recording, Succeeded, At, Job
  <2>6. OneRecords'
    BY <2>5 DEF RecordsInv, OneRecords
  <2>7. RowsWith("executing")' = RowsWith("executing")
    BY <2>2, <2>3 DEF RowsWith
  <2> QED
    BY <1>0, <2>1, <2>4, <2>5, <2>6, <2>7 DEF RecordsInv
<1> QED
  BY <1>1, <1>2

\* A task is done with its request, or a statement failed.
LEMMA RecordsRelease ==
  ASSUME TypeOK, RecordsInv, NEW w \in Workers, Release(w),
         UNCHANGED <<stored, row, tracked, attempts>>
  PROVE  RecordsInv'
<1>1. worker'[w] = Idle /\ \A v \in Workers \ {w} : worker'[v] = worker[v]
  BY OthersKept DEF Release
<1>2. Idle.stage = "idle"
  BY DEF Idle
<1> QED
  BY <1>1, <1>2, QuietRecords DEF RecordsInv

LEMMA RecordsWorkers ==
  ASSUME TypeOK, Inv, RecordsInv, NEW w \in Workers, WorkerStep(w)
  PROVE  RecordsInv'
<1> USE DEF memory, database, history
<1>0. /\ worker[w] \in Task
      /\ \A v \in Workers \ {w} : worker'[v] = worker[v]
      /\ ~At(w, "idle") => Job(w) \in Requests
  BY MoveFacts DEF TypeOK, TasksOK
<1>1. CASE Pop(w)
  <2>1. PICK e \in Tops : worker' = [worker EXCEPT ![w] = Popped(e)]
    BY <1>1 DEF Pop
  <2>2. worker'[w] = Popped(e) /\ Popped(e).stage = "popped"
    BY <2>1 DEF Popped, TypeOK, TasksOK
  <2>3. TaskInv(w)' /\ ~Recording(w)'
    BY <2>2 DEF TaskInv, Recording, At
  <2> QED
    BY <1>0, <1>1, <2>3, QuietRecords DEF Pop, RecordsInv
<1>2. CASE PutBack(w)
  BY <1>2, RecordsRelease DEF PutBack
<1>3. CASE Fetch(w)
  <2>1. CASE Release(w)
    BY <1>3, <2>1, RecordsRelease DEF Fetch
  <2>2. CASE ~Release(w)
    <3>1. /\ At(w, "popped") /\ stored[Job(w)] # Absent
          /\ worker' = [worker EXCEPT ![w].stage = "fetched", ![w].tries = stored[Job(w)]]
      BY <1>3, <2>2 DEF Fetch
    <3>2. worker'[w].stage = "fetched" /\ worker'[w].tries = stored[Job(w)] /\ worker'[w].id = Job(w)
      BY <1>0, <3>1 DEF Task, TypeOK, TasksOK, Job
    <3>3. UNCHANGED <<stored, row, tracked, attempts>> /\ Job(w) \in Requests
      BY <1>0, <1>3, <3>1 DEF Fetch, At
    <3>4. stored[Job(w)] <= attempts[Job(w)]
      BY <3>1, <3>3 DEF RecordsInv
    <3>5. TaskInv(w)' /\ ~Recording(w)'
      BY <3>2, <3>3, <3>4 DEF TaskInv, Recording, At, Job
    <3> QED
      BY <1>0, <3>3, <3>5, QuietRecords DEF RecordsInv
  <2> QED
    BY <2>1, <2>2
<1>4. CASE Start(w)
  <2>1. CASE Release(w) /\ UNCHANGED row
    <3>1. worker'[w] = Idle /\ Idle.stage = "idle"
      BY <2>1 DEF Release, Idle, TypeOK, TasksOK
    <3>2. UNCHANGED <<stored, tracked>> /\ UNCHANGED attempts
      BY <1>4, <3>1 DEF Start
    <3> QED
      BY <2>1, <3>2, RecordsRelease
  <2>2. CASE row' = WithStatus(Job(w), "executing") /\ Goto(w, "calling")
    <3>1. At(w, "fetched") /\ UNCHANGED <<stored, tracked>> /\ Job(w) \in Requests
      BY <1>0, <1>4 DEF Start, At
    <3>2. worker'[w].stage = "calling" /\ worker'[w].id = Job(w) /\ worker'[w].tries = worker[w].tries
      BY <1>0, <2>2 DEF Goto, TypeOK, TasksOK, Task, Job
    <3>3. attempts' = [attempts EXCEPT ![Job(w)] = @ + 1]
      BY <1>4, <3>2 DEF Start
    <3>4. PICK p \in Requests : p = Job(w)
      BY <3>1
    <3>5. /\ attempts[p] \in Nat /\ attempts'[p] = attempts[p] + 1
          /\ \A r \in Requests \ {p} : attempts'[r] = attempts[r]
      BY <3>3, <3>4 DEF TypeOK
    <3>6. worker[w].tries <= attempts[p] /\ worker[w].tries \in Nat
      BY <1>0, <3>1, <3>4 DEF RecordsInv, TaskInv, At, Task
    <3>7. /\ attempts'[p] \in Nat /\ attempts'[p] >= attempts[p] /\ attempts'[p] >= 1
          /\ worker'[w].tries + 1 <= attempts'[p]
      BY <3>2, <3>5, <3>6
    <3> QED
      BY <1>0, <2>2, <3>1, <3>2, <3>4, <3>5, <3>7, StatusWritten DEF At
  <2> QED
    BY <1>4, <2>1, <2>2 DEF Start, Update
<1>5. CASE Call(w)
  <2>1. At(w, "calling") /\ UNCHANGED <<stored, row, tracked, attempts>> /\ Job(w) \in Requests
    BY <1>0, <1>5 DEF Call, At
  <2>2. /\ worker'[w].stage \in {"dead", "answered"}
        /\ worker'[w].id = Job(w) /\ worker'[w].tries = worker[w].tries
    <3>1. CASE Goto(w, "dead")
      BY <1>0, <3>1 DEF Goto, TypeOK, TasksOK, Task, Job
    <3>2. CASE \E answer \in Answers(Job(w), worker[w].tries) :
                 worker' = [worker EXCEPT ![w].stage = "answered", ![w].outcome = answer]
      BY <1>0, <3>2 DEF TypeOK, TasksOK, Task, Job
    <3> QED
      BY <1>5, <3>1, <3>2 DEF Call
  <2>3. TaskInv(w)' /\ ~Recording(w)'
    BY <2>1, <2>2 DEF RecordsInv, TaskInv, Recording, At, Job
  <2> QED
    BY <1>0, <2>1, <2>3, QuietRecords DEF RecordsInv
<1>6. CASE Complete(w) \/ GiveUp(w)
  <2>1. CASE Release(w) /\ UNCHANGED row
    BY <1>6, <2>1, RecordsRelease DEF Complete, GiveUp
  <2>2. CASE ~(Release(w) /\ UNCHANGED row)
    <3>1. PICK status \in {"completed", "failed"} :
            /\ row' = WithStatus(Job(w), status)
            /\ Succeeded(w) => status = "completed"
      BY <1>6, <2>2 DEF Complete, GiveUp, Update
    <3>2. /\ At(w, "answered") /\ Goto(w, "settled")
          /\ UNCHANGED <<stored, tracked, attempts>> /\ Job(w) \in Requests
      BY <1>0, <1>6, <2>2 DEF Complete, GiveUp, Update, At
    <3>3. worker'[w].stage = "settled" /\ worker'[w].id = Job(w) /\ worker'[w].outcome = worker[w].outcome
      BY <1>0, <3>2 DEF Goto, TypeOK, TasksOK, Task, Job
    <3>4. PICK p \in Requests : p = Job(w)
      BY <3>2
    <3>5. worker[w].tries + 1 <= attempts[p] /\ worker[w].tries \in Nat /\ attempts[p] \in Nat
      BY <1>0, <3>2, <3>4 DEF RecordsInv, TaskInv, At, Task, TypeOK
    <3>6. attempts'[p] \in Nat /\ attempts'[p] >= attempts[p] /\ attempts'[p] >= 1
      BY <3>2, <3>5
    <3> QED
      BY <1>0, <3>1, <3>2, <3>3, <3>4, <3>6, StatusWritten DEF At, Succeeded
  <2> QED
    BY <2>1, <2>2
<1>7. CASE ScheduleRetry(w)
  <2>1. /\ At(w, "answered") /\ UNCHANGED <<row, tracked, attempts>> /\ Job(w) \in Requests
        /\ stored' = [stored EXCEPT ![Job(w)] = NextTry(w)]
        /\ worker' = [worker EXCEPT ![w].stage = "scheduled", ![w].tries = NextTry(w)]
    BY <1>0, <1>7 DEF ScheduleRetry, Store, At
  <2>2. /\ worker'[w].stage = "scheduled" /\ worker'[w].id = Job(w)
        /\ worker'[w].tries = NextTry(w)
    BY <1>0, <2>1 DEF TypeOK, TasksOK, Task, Job
  <2>3. NextTry(w) <= attempts[Job(w)]
    BY <2>1 DEF RecordsInv, TaskInv, At, NextTry
  <2>4. TaskInv(w)' /\ ~Recording(w)'
    BY <2>1, <2>2, <2>3 DEF TaskInv, Recording, At, Job
  <2>5. ASSUME NEW r \in Requests, stored'[r] # Absent PROVE stored'[r] <= attempts[r]
    BY <2>1, <2>3, <2>5 DEF RecordsInv, TypeOK
  <2> QED
    BY <1>0, <2>1, <2>4, <2>5, QuietRecords
<1>8. CASE SaveRetry(w)
  <2>1. CASE Release(w) /\ UNCHANGED row
    BY <1>8, <2>1, RecordsRelease DEF SaveRetry
  <2>2. CASE row' = WithTries(w) /\ Goto(w, "replying")
    <3>1. At(w, "scheduled") /\ UNCHANGED <<stored, tracked, attempts>> /\ Job(w) \in Requests
      BY <1>0, <1>8 DEF SaveRetry, At
    <3>2. /\ row'[Job(w)].tries = worker[w].tries
          /\ \A r \in Requests \ {Job(w)} : row'[r] = row[r]
          /\ \A r \in Requests : row'[r].status = row[r].status
      BY <2>2, <3>1 DEF WithTries, TypeOK, Row
    <3>3. worker[w].tries <= attempts[Job(w)]
      BY <3>1 DEF RecordsInv, TaskInv, At
    <3>4. RowTracksRequest'
      BY <3>1, <3>2, <3>3 DEF RecordsInv, RowTracksRequest
    <3>5. worker'[w].stage = "replying"
      BY <1>0, <2>2 DEF Goto, TypeOK, TasksOK, Task
    <3>6. ASSUME NEW v \in Workers
          PROVE  TaskInv(v)' /\ (Recording(v)' => Recording(v) /\ Job(v)' = Job(v))
      <4>1. CASE v = w
        BY <3>5, <4>1 DEF TaskInv, Recording, At
      <4>2. CASE At(v, "idle") /\ v # w
        BY <1>0, <4>2 DEF TaskInv, Recording, At, Job
      <4>3. CASE ~At(v, "idle") /\ v # w
        <5>1. Job(v) \in Requests /\ worker'[v] = worker[v]
          BY <1>0, <4>3 DEF TypeOK, TasksOK
        <5> QED
          BY <3>1, <3>2, <5>1 DEF RecordsInv, TaskInv, Recording, Succeeded, At, Job
      <4> QED
        BY <4>1, <4>2, <4>3
    <3>7. OneRecords'
      BY <3>6 DEF RecordsInv, OneRecords
    <3>8. RowsWith("executing")' = RowsWith("executing")
      BY <3>2 DEF RowsWith
    <3> QED
      BY <3>1, <3>4, <3>6, <3>7, <3>8 DEF RecordsInv
  <2> QED
    BY <1>8, <2>1, <2>2 DEF SaveRetry, Update
<1>9. CASE Forget(w)
  <2>1. /\ At(w, "settled") /\ UNCHANGED <<row, tracked, attempts>> /\ Job(w) \in Requests
        /\ stored' = [stored EXCEPT ![Job(w)] = Absent]
        /\ Goto(w, IF Succeeded(w) THEN "recording" ELSE "replying")
    BY <1>0, <1>9 DEF Forget, Discard, At
  <2>2. /\ worker'[w].stage = IF Succeeded(w) THEN "recording" ELSE "replying"
        /\ worker'[w].id = worker[w].id
    BY <1>0, <2>1 DEF Goto, TypeOK, TasksOK, Task
  <2>3. TaskInv(w)' /\ (Recording(w)' => Recording(w) /\ Job(w)' = Job(w))
    BY <2>1, <2>2 DEF RecordsInv, TaskInv, Recording, At, Job
  <2>4. ASSUME NEW r \in Requests, stored'[r] # Absent PROVE stored'[r] <= attempts[r]
    BY <2>1, <2>4 DEF RecordsInv, TypeOK
  <2> QED
    BY <1>0, <2>1, <2>3, <2>4, QuietRecords
<1>10. CASE Record(w)
  <2>1. /\ At(w, "recording") /\ UNCHANGED <<stored, row, attempts>> /\ Job(w) \in Requests
        /\ worker'[w].stage = "replying"
        /\ tracked' = [tracked EXCEPT ![Job(w)] = @ + 1] \/ UNCHANGED tracked
    BY <1>0, <1>10 DEF Record, Goto, At, TypeOK, TasksOK, Task
  <2>2. PICK p \in Requests : p = Job(w)
    BY <2>1
  <2>3. Recording(w) /\ row[p].status = "completed" /\ tracked[p] = 0
    BY <2>1, <2>2 DEF RecordsInv, TaskInv, Recording
  <2>4. /\ tracked'[p] <= 1
        /\ \A r \in Requests \ {p} : tracked'[r] = tracked[r]
    BY <2>1, <2>2, <2>3 DEF TypeOK
  <2>5. RowTracksRequest'
    BY <2>1, <2>3, <2>4 DEF RecordsInv, RowTracksRequest
  <2>6. ASSUME NEW v \in Workers
        PROVE  TaskInv(v)' /\ (Recording(v)' => Recording(v) /\ Job(v)' = Job(v))
    <3>1. CASE v = w
      BY <2>1, <3>1 DEF TaskInv, Recording, At
    <3>2. CASE At(v, "idle") /\ v # w
      BY <1>0, <3>2 DEF TaskInv, Recording, At, Job
    <3>3. CASE ~At(v, "idle") /\ v # w
      <4>1. Job(v) \in Requests /\ worker'[v] = worker[v]
        BY <1>0, <3>3 DEF TypeOK, TasksOK
      <4>2. Recording(v) => Job(v) # p
        BY <2>2, <2>3, <3>3 DEF RecordsInv, OneRecords
      <4> QED
        BY <2>1, <2>4, <4>1, <4>2 DEF RecordsInv, TaskInv, Recording, Succeeded, At, Job
    <3> QED
      BY <3>1, <3>2, <3>3
  <2>7. OneRecords'
    BY <2>6 DEF RecordsInv, OneRecords
  <2>8. RowsWith("executing")' = RowsWith("executing")
    BY <2>1 DEF RowsWith
  <2> QED
    BY <2>1, <2>5, <2>6, <2>7, <2>8 DEF RecordsInv
<1>11. CASE Reply(w)
  BY <1>11, RecordsRelease DEF Reply
<1> QED
  BY <1>1, <1>2, <1>3, <1>4, <1>5, <1>6, <1>7, <1>8, <1>9, <1>10, <1>11 DEF WorkerStep

LEMMA NextRecords == TypeOK /\ Inv /\ RecordsInv /\ [Next]_vars => RecordsInv'
<1> SUFFICES ASSUME TypeOK, Inv, RecordsInv, [Next]_vars PROVE RecordsInv'
  OBVIOUS
<1> USE DEF memory, database, history
<1>1. CASE Tick
  <2>1. \A w \in Workers : /\ worker'[w].stage = worker[w].stage /\ worker'[w].id = worker[w].id
                           /\ worker'[w].tries = worker[w].tries /\ worker'[w].outcome = worker[w].outcome
    BY <1>1 DEF Tick, TypeOK, TasksOK, Task
  <2>2. UNCHANGED <<stored, row, tracked, attempts>>
    BY <1>1 DEF Tick
  <2>3. ASSUME NEW w \in Workers
        PROVE  TaskInv(w)' /\ (Recording(w)' => Recording(w) /\ Job(w)' = Job(w))
    BY <2>1, <2>2 DEF RecordsInv, TaskInv, Recording, Succeeded, At, Job
  <2> QED
    BY <2>2, <2>3, QuietRecords DEF RecordsInv
<1>2. CASE Restart
  <2>1. /\ UNCHANGED <<row, tracked, attempts>>
        /\ \A w \in Workers : worker'[w].stage = "idle"
        /\ \A r \in Requests : stored'[r] = Absent
    BY <1>2 DEF Restart, Idle
  <2> QED
    BY <2>1, QuietRecords
<1>3. CASE UNCHANGED vars
  BY <1>3, QuietRecords DEF vars, RecordsInv
<1> QED
  BY <1>1, <1>2, <1>3, RecordsCallers, RecordsWorkers DEF Next

\* Tasks that are in a call have rows of their own, all of them 'executing'.
LEMMA CallsAreExecuting == IInv /\ RecordsInv => StatsCountCalls
<1> SUFFICES ASSUME IInv, RecordsInv PROVE StatsCountCalls
  OBVIOUS
<1> DEFINE S == {w \in Workers : At(w, "calling")}
           T == RowsWith("executing")
           f == [w \in S |-> Job(w)]
<1>1. \A w \in S : Job(w) \in T /\ Owns(w, Job(w)) /\ Job(w) \in Requests
  BY DEF IInv, TypeOK, TasksOK, RecordsInv, TaskInv, RowsWith, At, Owns, Holding
<1>2. f \in Injection(S, T)
  BY <1>1 DEF Injection, IsInjective, IInv, ExclusiveOwner
<1>3. Cardinality(S) <= Cardinality(T)
  BY <1>2, FS_Injection DEF RecordsInv
<1> QED
  BY <1>3 DEF StatsCountCalls, QueueStats

\* Rows, tasks and the tracker never contradict each other, and the statistics
\* never miss a call in flight, for any number of requests, tasks, errors and
\* restarts (request_queue.rs 226, 325-346, 388-397, 507-537).
THEOREM RowsStayInStep == Spec => []RowsAgree
<1>1. Init => RecordsInv
  BY InitRecords
<1>2. IInv /\ RecordsInv /\ [Next]_vars => RecordsInv'
  BY NextRecords DEF IInv, Inv
<1>3. IInv /\ RecordsInv => RowsAgree
  BY CallsAreExecuting DEF RecordsInv, RowsAgree
<1> QED
  BY <1>1, <1>2, <1>3, Inductive, PTL DEF Spec

-----------------------------------------------------------------------------
(* Results *)

\* The stages between a call and its result.
Answering == {"calling", "answered", "settled", "recording", "scheduled", "replying"}

LEMMA InitReplies == Init => RepliesInv
<1> SUFFICES ASSUME Init, NEW r \in Requests
             PROVE  IsFiniteSet(Pending(r)) /\ Len(received[r]) + Cardinality(Pending(r)) <= attempts[r]
  BY DEF RepliesInv
<1>1. Pending(r) = {}
  BY DEF Init, Idle, Pending
<1>2. received[r] = <<>> /\ attempts[r] = 0
  BY DEF Init
<1> QED
  BY <1>1, <1>2, FS_EmptySet

\* A step that makes no call and sends nothing, after which no task owes a
\* result that it did not owe.
LEMMA QuietReplies ==
  ASSUME TypeOK, RepliesInv, UNCHANGED <<received, attempts>>,
         \A w \in Workers : worker'[w].stage \in Answering =>
                              worker[w].stage \in Answering /\ Job(w)' = Job(w)
  PROVE  RepliesInv'
<1> SUFFICES ASSUME NEW r \in Requests
             PROVE  IsFiniteSet(Pending(r)') /\ Len(received'[r]) + Cardinality(Pending(r)') <= attempts'[r]
  BY DEF RepliesInv
<1>1. Pending(r)' \in SUBSET Pending(r)
  BY DEF Pending, Answering
<1>2. /\ IsFiniteSet(Pending(r)) /\ IsFiniteSet(Pending(r)')
      /\ Cardinality(Pending(r)') <= Cardinality(Pending(r))
  BY <1>1, FS_Subset DEF RepliesInv
<1>3. Cardinality(Pending(r)) \in Nat /\ Cardinality(Pending(r)') \in Nat
  BY <1>2, FS_CardinalityType
<1>4. Len(received[r]) \in Nat /\ attempts[r] \in Nat
  BY DEF TypeOK
<1> QED
  BY <1>2, <1>3, <1>4 DEF RepliesInv

LEMMA RepliesWorkers ==
  ASSUME TypeOK, RepliesInv, NEW w \in Workers, WorkerStep(w)
  PROVE  RepliesInv'
<1> USE DEF memory, database, history
<1>0. /\ worker[w] \in Task
      /\ \A v \in Workers \ {w} : worker'[v] = worker[v]
      /\ ~At(w, "idle") => Job(w) \in Requests
  BY MoveFacts DEF TypeOK, TasksOK
<1>1. CASE Start(w) /\ worker'[w].stage = "calling"
  <2>1. /\ At(w, "fetched") /\ UNCHANGED received
        /\ attempts' = [attempts EXCEPT ![Job(w)] = @ + 1]
    BY <1>1 DEF Start
  <2>2. worker'[w].id = Job(w)
    BY <1>1, JobFacts DEF Job, Start, At
  <2>3. PICK p \in Requests : p = Job(w)
    BY <1>0, <2>1 DEF At
  <2>4. /\ attempts'[p] = attempts[p] + 1
        /\ \A r \in Requests \ {p} : attempts'[r] = attempts[r]
    BY <2>1, <2>3 DEF TypeOK
  <2> SUFFICES ASSUME NEW r \in Requests
               PROVE  IsFiniteSet(Pending(r)') /\ Len(received'[r]) + Cardinality(Pending(r)') <= attempts'[r]
    BY DEF RepliesInv
  <2>5. Len(received[r]) \in Nat /\ attempts[r] \in Nat
    BY DEF TypeOK
  <2>6. IsFiniteSet(Pending(r)) /\ Cardinality(Pending(r)) \in Nat
    BY FS_CardinalityType DEF RepliesInv
  <2>7. CASE r = p
    <3>1. Pending(r)' = Pending(r) \cup {w}
      BY <1>0, <1>1, <2>2, <2>3, <2>7 DEF Pending, Job
    <3>2. IsFiniteSet(Pending(r)') /\ Cardinality(Pending(r)') <= Cardinality(Pending(r)) + 1
      <4>1. w \notin Pending(r)
        BY <2>1 DEF Pending, At
      <4>2. IsFiniteSet(Pending(r) \cup {w}) /\ Cardinality(Pending(r) \cup {w}) = Cardinality(Pending(r)) + 1
        BY <2>6, <4>1, FS_AddElement
      <4> QED
        BY <2>6, <3>1, <4>2
    <3>3. Cardinality(Pending(r)') \in Nat
      BY <3>2, FS_CardinalityType
    <3> QED
      BY <2>1, <2>4, <2>5, <2>6, <2>7, <3>2, <3>3 DEF RepliesInv
  <2>8. CASE r # p
    <3>1. Pending(r)' = Pending(r)
      BY <1>0, <1>1, <2>1, <2>2, <2>3, <2>8 DEF Pending, Job, At
    <3> QED
      BY <2>1, <2>4, <2>8, <3>1 DEF RepliesInv
  <2> QED
    BY <2>7, <2>8
<1>2. CASE Reply(w)
  <2>1. At(w, "replying") /\ UNCHANGED attempts /\ received' = Sent(w)
    BY <1>2 DEF Reply
  <2>2. worker'[w] = Idle /\ Idle.stage = "idle"
    BY <1>2 DEF Reply, Release, Idle, TypeOK, TasksOK
  <2>3. PICK p \in Requests : p = Job(w)
    BY <1>0, <2>1 DEF At
  <2>4. /\ Len(received'[p]) <= Len(received[p]) + 1 /\ Len(received'[p]) \in Nat
        /\ \A r \in Requests \ {p} : received'[r] = received[r]
    BY <1>0, <2>1, <2>3 DEF Sent, TypeOK, Task
  <2> SUFFICES ASSUME NEW r \in Requests
               PROVE  IsFiniteSet(Pending(r)') /\ Len(received'[r]) + Cardinality(Pending(r)') <= attempts'[r]
    BY DEF RepliesInv
  <2>5. Len(received[r]) \in Nat /\ attempts[r] \in Nat
    BY DEF TypeOK
  <2>6. IsFiniteSet(Pending(r)) /\ Cardinality(Pending(r)) \in Nat
    BY FS_CardinalityType DEF RepliesInv
  <2>7. Pending(r)' = Pending(r) \ {w}
    BY <1>0, <2>2 DEF Pending, Job
  <2>8. CASE r = p
    <3>1. w \in Pending(r)
      BY <2>1, <2>3, <2>8 DEF Pending, At
    <3>2. IsFiniteSet(Pending(r)') /\ Cardinality(Pending(r)') = Cardinality(Pending(r)) - 1
      BY <2>6, <2>7, <3>1, FS_RemoveElement
    <3> QED
      BY <2>1, <2>4, <2>5, <2>6, <2>8, <3>2 DEF RepliesInv
  <2>9. CASE r # p
    <3>1. w \notin Pending(r)
      BY <2>3, <2>9 DEF Pending
    <3>2. Pending(r)' = Pending(r)
      BY <2>7, <3>1
    <3> QED
      BY <2>1, <2>4, <2>9, <3>2 DEF RepliesInv
  <2> QED
    BY <2>8, <2>9
<1>3. CASE ~Reply(w) /\ ~(Start(w) /\ worker'[w].stage = "calling")
  <2>1. UNCHANGED <<received, attempts>>
    BY <1>3 DEF WorkerStep, Pop, PutBack, Fetch, Start, Call, Complete, ScheduleRetry, SaveRetry,
                GiveUp, Forget, Record
  <2>2. ASSUME NEW v \in Workers, worker'[v].stage \in Answering
        PROVE  worker[v].stage \in Answering /\ Job(v)' = Job(v)
    <3>1. CASE v # w
      BY <1>0, <2>2, <3>1 DEF Job
    <3>2. CASE v = w
      <4>1. ~At(w, "fetched")
        BY <1>3, <2>2, <3>2, MoveFacts DEF Move, Becomes, Answering, At, WorkerStep, Pop, PutBack,
           Fetch, Call, Complete, ScheduleRetry, SaveRetry, GiveUp, Forget, Record
      <4>2. worker[w].stage \in Answering /\ worker'[w].id = worker[w].id
        BY <2>2, <3>2, <4>1, MoveFacts DEF Move, Becomes, Answering, At
      <4> QED
        BY <3>2, <4>2 DEF Job
    <3> QED
      BY <3>1, <3>2
  <2> QED
    BY <2>1, <2>2, QuietReplies
<1> QED
  BY <1>1, <1>2, <1>3

LEMMA NextReplies == TypeOK /\ RepliesInv /\ [Next]_vars => RepliesInv'
<1> SUFFICES ASSUME TypeOK, RepliesInv, [Next]_vars PROVE RepliesInv'
  OBVIOUS
<1> USE DEF memory, database, history
<1>1. CASE \E r \in Requests : CheckSize(r) \/ SaveRow(r) \/ Publish(r) \/ Cancel(r)
  <2>1. UNCHANGED <<received, attempts, worker>>
    BY <1>1 DEF CheckSize, SaveRow, Publish, Cancel
  <2> QED
    BY <2>1, QuietReplies DEF Job
<1>2. CASE Tick
  <2>1. \A w \in Workers : worker'[w].stage = worker[w].stage /\ worker'[w].id = worker[w].id
    BY <1>2 DEF Tick, TypeOK, TasksOK, Task
  <2> QED
    BY <1>2, <2>1, QuietReplies DEF Tick, Job
<1>3. CASE Restart
  <2>1. \A w \in Workers : worker'[w].stage = "idle"
    BY <1>3 DEF Restart, Idle
  <2> QED
    BY <1>3, <2>1, QuietReplies DEF Restart, Answering
<1>4. CASE UNCHANGED vars
  BY <1>4, QuietReplies DEF vars, Job
<1> QED
  BY <1>1, <1>2, <1>3, <1>4, RepliesWorkers DEF Next

\* Each call made is answered down the channel once at most, even when the next
\* attempt overtakes the delivery of the last, for any number of tasks
\* (request_queue.rs 215-218, 262-270).
THEOREM NoReplyTwice == Spec => []OneReplyPerAttempt
<1>1. Init => RepliesInv
  BY InitReplies
<1>2. IInv /\ RepliesInv /\ [Next]_vars => RepliesInv'
  BY NextReplies DEF IInv
<1>3. IInv /\ RepliesInv => OneReplyPerAttempt
  <2> SUFFICES ASSUME IInv, RepliesInv, NEW r \in Requests
               PROVE  Len(received[r]) <= attempts[r]
    BY DEF OneReplyPerAttempt
  <2>1. Cardinality(Pending(r)) \in Nat
    BY FS_CardinalityType DEF RepliesInv
  <2>2. Len(received[r]) \in Nat /\ attempts[r] \in Nat
    BY DEF IInv, TypeOK
  <2> QED
    BY <2>1, <2>2 DEF RepliesInv
<1> QED
  BY <1>1, <1>2, <1>3, Inductive, PTL DEF Spec

-----------------------------------------------------------------------------
(* The life of a request *)

InCall == {"calling", "answered"}
BeforeCall == {"popped", "fetched"}

LEMMA PhaseFacts ==
  ASSUME NEW r \in Requests
  PROVE  Phase(r) = IF \E w \in Workers : Job(w) = r /\ worker[w].stage \in InCall THEN "running"
                    ELSE IF heap[r] # <<>> \/ \E w \in Workers : Job(w) = r /\ worker[w].stage \in BeforeCall
                    THEN "waiting"
                    ELSE IF caller[r] \in {"new", "checked", "saved"} THEN "new" ELSE "closed"
BY DEF Phase, InCall, BeforeCall

\* Requests that are closed, and nothing else, are a step of the life cycle.
LEMMA Closing ==
  ASSUME UNCHANGED attempts, \A r \in Requests : Phase(r)' \in {Phase(r), "closed"}
  PROVE  Lifecycle!Next
<1> DEFINE S == {r \in Requests : Phase(r)' = "closed"}
<1>1. S \in SUBSET Requests
  OBVIOUS
<1>2. \A r \in Requests : Phase(r)' = IF r \in S THEN "closed" ELSE Phase(r)
  OBVIOUS
<1>3. Lifecycle!Close(S)
  BY <1>2 DEF Lifecycle!Close
<1> QED
  BY <1>1, <1>3 DEF Lifecycle!Next

\* One request moves, the others stay.
LEMMA Moving ==
  ASSUME NEW p \in Requests, NEW from, NEW to, Phase(p) = from, Phase(p)' = to,
         \A r \in Requests \ {p} : Phase(r)' = Phase(r)
  PROVE  Lifecycle!Move(p, from, to)
<1>1. \A r \in Requests : Phase(r)' = IF r = p THEN to ELSE Phase(r)
  OBVIOUS
<1> QED
  BY <1>1 DEF Lifecycle!Move

\* Before and after a step of the task that has a request and has not decided it.
LEMMA OwnerMoves ==
  ASSUME TypeOK, Inv, NEW w \in Workers, NEW p \in Requests,
         Job(w) = p, worker[w].stage \in Undecided, UNCHANGED caller,
         \A v \in Workers \ {w} : worker'[v] = worker[v],
         worker'[w].stage \in Undecided => worker'[w].id = p,
         \A r \in Requests \ {p} : heap'[r] = heap[r]
  PROVE  /\ \A r \in Requests \ {p} : Phase(r)' = Phase(r)
         /\ Phase(p) = IF worker[w].stage \in InCall THEN "running" ELSE "waiting"
         /\ Phase(p)' = IF worker'[w].stage \in InCall THEN "running"
                        ELSE IF heap'[p] # <<>> \/ worker'[w].stage \in BeforeCall THEN "waiting"
                        ELSE "closed"
<1> USE DEF Undecided, InCall, BeforeCall
<1>1. Owns(w, p)
  BY DEF Owns, Holding
<1>2. heap[p] = <<>> /\ \A v \in Workers \ {w} : Job(v) = p => worker[v].stage \notin Undecided
  BY <1>1 DEF Inv, ExclusiveOwner, Owns, Holding
<1>3. caller[p] = "accepted"
  BY DEF Inv, CallerInv, Untouched
<1>4. ASSUME NEW r \in Requests \ {p} PROVE Phase(r)' = Phase(r)
  <2>1. heap'[r] = heap[r] /\ caller'[r] = caller[r]
    OBVIOUS
  <2>2. ASSUME NEW v \in Workers
        PROVE  /\ (Job(v)' = r /\ worker'[v].stage \in InCall) <=> (Job(v) = r /\ worker[v].stage \in InCall)
               /\ (Job(v)' = r /\ worker'[v].stage \in BeforeCall) <=> (Job(v) = r /\ worker[v].stage \in BeforeCall)
    BY DEF Job
  <2> QED
    BY <2>1, <2>2 DEF Phase
<1>5. Phase(p) = IF worker[w].stage \in InCall THEN "running" ELSE "waiting"
  BY <1>2, PhaseFacts
<1>6. \A v \in Workers : Job(v)' = p /\ worker'[v].stage \in Undecided => v = w
  BY <1>2 DEF Job
<1>7. worker'[w].stage \in Undecided => Job(w)' = p
  BY DEF Job
<1>8. Phase(p)' = IF worker'[w].stage \in InCall THEN "running"
                  ELSE IF heap'[p] # <<>> \/ worker'[w].stage \in BeforeCall THEN "waiting"
                  ELSE "closed"
  BY <1>3, <1>6, <1>7 DEF Phase
<1> QED
  BY <1>4, <1>5, <1>8

LEMMA CallersLive ==
  ASSUME TypeOK, Inv, NEW r \in Requests,
         CheckSize(r) \/ SaveRow(r) \/ Publish(r) \/ Cancel(r)
  PROVE  Lifecycle!Next
<1> USE DEF memory, database, history
<1>0. UNCHANGED <<worker, attempts>>
  BY DEF CheckSize, SaveRow, Publish, Cancel
<1>1. ASSUME NEW s \in Requests, heap'[s] = heap[s] \/ heap'[s] = <<>>, caller'[s] = caller[s],
             heap[s] # <<>> => caller[s] = "accepted"
      PROVE  Phase(s)' \in {Phase(s), "closed"}
  BY <1>0, <1>1 DEF Phase, Job
<1>2. \A s \in Requests : heap[s] # <<>> => caller[s] = "accepted"
  BY DEF Inv, CallerInv, Untouched
<1>3. CASE CheckSize(r) \/ SaveRow(r)
  <2>1. /\ UNCHANGED heap /\ caller[r] \in {"new", "checked"} /\ caller'[r] \in {"checked", "saved", "refused"}
        /\ \A s \in Requests \ {r} : caller'[s] = caller[s]
    BY <1>3 DEF CheckSize, SaveRow, TypeOK
  <2>2. heap[r] = <<>> /\ \A w \in Workers : Job(w) # r
    BY <2>1 DEF Inv, CallerInv, Untouched
  <2>3. Phase(r) = "new" /\ Phase(r)' \in {"new", "closed"}
    BY <1>0, <2>1, <2>2 DEF Phase, Job
  <2> QED
    BY <1>0, <1>1, <1>2, <2>1, <2>3, Closing
<1>4. CASE Publish(r)
  <2>1. /\ caller[r] = "saved" /\ caller'[r] = "accepted" /\ heap'[r] = Append(heap[r], 0)
        /\ \A s \in Requests \ {r} : caller'[s] = caller[s] /\ heap'[s] = heap[s]
    BY <1>4 DEF Publish, Push, TypeOK
  <2>2. heap[r] = <<>> /\ \A w \in Workers : Job(w) # r
    BY <2>1 DEF Inv, CallerInv, Untouched
  <2>3. Phase(r) = "new"
    BY <2>1, <2>2 DEF Phase
  <2>4. heap'[r] # <<>>
    BY <2>1, <2>2
  <2>5. Phase(r)' = "waiting"
    BY <1>0, <2>2, <2>4 DEF Phase, Job
  <2>6. \A s \in Requests \ {r} : Phase(s)' = Phase(s)
    BY <1>0, <2>1 DEF Phase, Job
  <2> QED
    BY <1>0, <2>3, <2>5, <2>6, Moving DEF Lifecycle!Submit, Lifecycle!Next
<1>5. CASE Cancel(r)
  <2>1. UNCHANGED caller /\ \A s \in Requests : heap'[s] = heap[s] \/ heap'[s] = <<>>
    BY <1>5 DEF Cancel, TypeOK
  <2> QED
    BY <1>0, <1>1, <1>2, <2>1, Closing
<1> QED
  BY <1>3, <1>4, <1>5

LEMMA WorkersLive ==
  ASSUME TypeOK, Inv, NEW w \in Workers, WorkerStep(w)
  PROVE  Lifecycle!Next
<1> USE DEF memory, database, history
<1>0. /\ worker[w] \in Task /\ UNCHANGED caller
      /\ \A v \in Workers \ {w} : worker'[v] = worker[v]
      /\ ~At(w, "idle") => Job(w) \in Requests
  BY MoveFacts DEF TypeOK, TasksOK, WorkerStep, Pop, PutBack, Fetch, Start, Call, Complete,
     ScheduleRetry, SaveRetry, GiveUp, Forget, Record, Reply
<1>1. CASE Pop(w)
  <2>1. PICK e \in Tops :
          /\ worker' = [worker EXCEPT ![w] = Popped(e)]
          /\ heap' = [heap EXCEPT ![e[1]] = Remaining(e)]
    BY <1>1 DEF Pop
  <2>2. PICK p \in Requests : p = e[1] /\ heap[p] # <<>>
    BY DEF Tops, Entries
  <2>3. At(w, "idle") /\ UNCHANGED attempts
    BY <1>1 DEF Pop
  <2>4. worker'[w] = Popped(e) /\ Popped(e).stage = "popped" /\ Popped(e).id = p
    BY <2>1, <2>2 DEF Popped, TypeOK, TasksOK
  <2>5. \A v \in Workers : ~Owns(v, p)
    BY <2>2 DEF Inv, ExclusiveOwner
  <2>6. Phase(p) = "waiting"
    BY <2>2, <2>5 DEF Phase, Owns, Holding
  <2>7. Phase(p)' = "waiting"
    <3>1. ~\E v \in Workers : Job(v)' = p /\ worker'[v].stage \in {"calling", "answered"}
      BY <1>0, <2>4, <2>5 DEF Job, Owns, Holding
    <3>2. Job(w)' = p /\ worker'[w].stage \in {"popped", "fetched"}
      BY <2>4 DEF Job
    <3> QED
      BY <3>1, <3>2 DEF Phase
  <2>8. ASSUME NEW r \in Requests \ {p} PROVE Phase(r)' = Phase(r)
    <3>1. heap'[r] = heap[r] /\ caller'[r] = caller[r]
      BY <1>0, <2>1, <2>2 DEF TypeOK
    <3>2. ASSUME NEW v \in Workers
          PROVE  /\ (Job(v)' = r /\ worker'[v].stage \in InCall) <=> (Job(v) = r /\ worker[v].stage \in InCall)
                 /\ (Job(v)' = r /\ worker'[v].stage \in BeforeCall) <=> (Job(v) = r /\ worker[v].stage \in BeforeCall)
      BY <1>0, <2>3, <2>4 DEF Job, At, InCall, BeforeCall
    <3> QED
      BY <3>1, <3>2 DEF Phase, InCall, BeforeCall
  <2> QED
    BY <2>3, <2>6, <2>7, <2>8, Closing
<1>2. ASSUME worker[w].stage \in Undecided
      PROVE  \E p \in Requests :
               /\ p = Job(w) /\ \A r \in Requests \ {p} : Phase(r)' = Phase(r)
               /\ Phase(p) = IF worker[w].stage \in InCall THEN "running" ELSE "waiting"
               /\ Phase(p)' = IF worker'[w].stage \in InCall THEN "running"
                              ELSE IF heap'[p] # <<>> \/ worker'[w].stage \in BeforeCall THEN "waiting"
                              ELSE "closed"
  <2>1. PICK p \in Requests : p = Job(w)
    BY <1>0, <1>2 DEF Undecided, At
  <2>2. worker'[w].stage \in Undecided => worker'[w].id = p
    BY <1>2, <2>1, MoveFacts DEF Undecided, Move, Becomes, At, Job
  <2>3. \A r \in Requests \ {p} : heap'[r] = heap[r]
    BY <1>2, <2>1 DEF Undecided, At, TypeOK, WorkerStep, Pop, PutBack, Fetch, Start, Call, Complete,
       ScheduleRetry, SaveRetry, GiveUp, Forget, Record, Reply, Push
  <2> QED
    BY <1>0, <1>2, <2>1, <2>2, <2>3, OwnerMoves
<1>3. CASE PutBack(w)
  <2>1. At(w, "popped") /\ heap' = [heap EXCEPT ![Job(w)] = Append(@, worker[w].wait)] /\ UNCHANGED attempts
    BY <1>3 DEF PutBack, Push
  <2>2. worker'[w] = Idle /\ Idle.stage = "idle"
    BY <1>3 DEF PutBack, Release, Idle, TypeOK, TasksOK
  <2>3. PICK p \in Requests :
          /\ p = Job(w) /\ \A r \in Requests \ {p} : Phase(r)' = Phase(r)
          /\ Phase(p) = "waiting"
          /\ Phase(p)' = IF heap'[p] # <<>> THEN "waiting" ELSE "closed"
    BY <1>2, <2>1, <2>2 DEF At, Undecided, InCall, BeforeCall
  <2> QED
    BY <2>1, <2>3, Closing
<1>4. CASE Start(w)
  <2>1. At(w, "fetched") /\ UNCHANGED heap
    BY <1>4 DEF Start
  <2>2. PICK p \in Requests :
          /\ p = Job(w) /\ \A r \in Requests \ {p} : Phase(r)' = Phase(r)
          /\ Phase(p) = "waiting"
          /\ worker'[w].stage = "calling" => Phase(p)' = "running"
          /\ worker'[w].stage = "idle" => Phase(p)' \in {"waiting", "closed"}
    BY <1>2, <2>1 DEF At, Undecided, InCall, BeforeCall
  <2>3. CASE worker'[w].stage = "calling"
    <3>1. attempts' = [attempts EXCEPT ![p] = @ + 1]
      BY <1>4, <2>2, <2>3 DEF Start
    <3>2. attempts[p] <= worker[w].tries /\ worker[w].tries \in 0..MaxRetries /\ attempts[p] \in Nat
      BY <1>0, <2>1, <2>2 DEF Inv, AttemptInv, At, Task, TypeOK
    <3>3. attempts[p] < MaxRetries + 1
      BY <3>2, ConstantsAssumption
    <3>4. Lifecycle!Move(p, "waiting", "running")
      BY <2>2, <2>3, Moving
    <3>5. Lifecycle!Begin(p)
      BY <3>1, <3>3, <3>4 DEF Lifecycle!Begin
    <3> QED
      BY <3>5 DEF Lifecycle!Next
  <2>4. CASE worker'[w].stage # "calling"
    <3>1. UNCHANGED attempts
      BY <1>4, <2>4 DEF Start
    <3>2. worker'[w].stage = "idle"
      BY <2>1, <2>4, MoveFacts DEF Move, Becomes, At
    <3> QED
      BY <2>2, <3>1, <3>2, Closing
  <2> QED
    BY <2>3, <2>4
<1>5. CASE ScheduleRetry(w)
  <2>1. /\ At(w, "answered") /\ UNCHANGED attempts
        /\ heap' = [heap EXCEPT ![Job(w)] = Append(@, Backoff(NextTry(w)))]
    BY <1>5 DEF ScheduleRetry, Push
  <2>2. worker'[w].stage = "scheduled"
    BY <1>0, <1>5 DEF ScheduleRetry, TypeOK, TasksOK, Task
  <2>3. PICK p \in Requests :
          /\ p = Job(w) /\ \A r \in Requests \ {p} : Phase(r)' = Phase(r)
          /\ Phase(p) = "running"
          /\ Phase(p)' = IF heap'[p] # <<>> THEN "waiting" ELSE "closed"
    BY <1>2, <2>1, <2>2 DEF At, Undecided, InCall, BeforeCall
  <2>4. heap'[p] # <<>>
    <3> DEFINE wait == Backoff(NextTry(w))
    <3>1. Owns(w, p)
      BY <2>1, <2>3 DEF Owns, Holding, At
    <3>2. heap[p] = <<>>
      BY <3>1 DEF Inv, ExclusiveOwner
    <3>3. heap' = [heap EXCEPT ![p] = Append(@, wait)]
      BY <2>1, <2>3
    <3> HIDE DEF wait
    <3>4. heap'[p] = Append(<<>>, wait)
      BY <3>2, <3>3 DEF TypeOK
    <3> QED
      BY <3>4
  <2>5. attempts[p] < MaxRetries + 1
    <3>1. attempts[p] <= worker[w].tries + 1 /\ worker[w].tries \in 0..MaxRetries /\ attempts[p] \in Nat
      BY <1>0, <2>1, <2>3 DEF Inv, AttemptInv, At, Task, TypeOK
    <3>2. worker[w].tries + 1 <= MaxRetries
      BY <1>5 DEF ScheduleRetry, RetriesLeft, NextTry
    <3> QED
      BY <3>1, <3>2, ConstantsAssumption
  <2>6. Lifecycle!Move(p, "running", "waiting")
    BY <2>3, <2>4, Moving
  <2>7. Lifecycle!Again(p)
    BY <2>1, <2>5, <2>6 DEF Lifecycle!Again
  <2> QED
    BY <2>7 DEF Lifecycle!Next
<1>6. CASE Fetch(w) \/ Call(w) \/ Complete(w) \/ GiveUp(w)
  <2>1. worker[w].stage \in Undecided /\ UNCHANGED <<heap, attempts>>
    BY <1>6 DEF Fetch, Call, Complete, GiveUp, At, Undecided
  <2>2. PICK p \in Requests :
          /\ p = Job(w) /\ \A r \in Requests \ {p} : Phase(r)' = Phase(r)
          /\ Phase(p) = IF worker[w].stage \in InCall THEN "running" ELSE "waiting"
          /\ Phase(p)' = IF worker'[w].stage \in InCall THEN "running"
                         ELSE IF heap'[p] # <<>> \/ worker'[w].stage \in BeforeCall THEN "waiting"
                         ELSE "closed"
    BY <1>2, <2>1
  <2>3. heap[p] = <<>>
    <3>1. Owns(w, p)
      BY <2>1, <2>2 DEF Owns, Holding, Undecided
    <3> QED
      BY <3>1 DEF Inv, ExclusiveOwner
  <2>4. /\ worker'[w].stage \in InCall => worker[w].stage \in InCall
        /\ worker'[w].stage \in BeforeCall => worker[w].stage \in BeforeCall
    BY <1>6, MoveFacts DEF Move, Becomes, At, InCall, BeforeCall, Fetch, Call, Complete, GiveUp
  <2>5. Phase(p)' \in {Phase(p), "closed"}
    BY <2>1, <2>2, <2>3, <2>4 DEF InCall, BeforeCall
  <2> QED
    BY <2>1, <2>2, <2>5, Closing
<1>7. CASE SaveRetry(w) \/ Forget(w) \/ Record(w) \/ Reply(w)
  <2>1. worker[w].stage \notin Undecided /\ UNCHANGED <<heap, attempts>>
    BY <1>7 DEF SaveRetry, Forget, Record, Reply, At, Undecided
  <2>2. worker'[w].stage \notin Undecided
    BY <1>7, MoveFacts DEF Move, Becomes, At, Undecided, SaveRetry, Forget, Record, Reply
  <2>3. ASSUME NEW r \in Requests PROVE Phase(r)' = Phase(r)
    <3>1. ASSUME NEW v \in Workers
          PROVE  /\ (Job(v)' = r /\ worker'[v].stage \in InCall) <=> (Job(v) = r /\ worker[v].stage \in InCall)
                 /\ (Job(v)' = r /\ worker'[v].stage \in BeforeCall) <=> (Job(v) = r /\ worker[v].stage \in BeforeCall)
      BY <1>0, <2>1, <2>2 DEF Job, InCall, BeforeCall, Undecided
    <3> QED
      BY <1>0, <2>1, <3>1 DEF Phase, InCall, BeforeCall
  <2> QED
    BY <2>1, <2>3, Closing
<1> QED
  BY <1>1, <1>3, <1>4, <1>5, <1>6, <1>7 DEF WorkerStep

LEMMA NextLive == TypeOK /\ Inv /\ [Next]_vars => [Lifecycle!Next]_<<[r \in Requests |-> Phase(r)], attempts>>
<1> SUFFICES ASSUME TypeOK, Inv, [Next]_vars
             PROVE  Lifecycle!Next \/ UNCHANGED <<[r \in Requests |-> Phase(r)], attempts>>
  OBVIOUS
<1> USE DEF memory, database, history
<1>1. CASE Tick
  <2>1. \A w \in Workers : worker'[w].stage = worker[w].stage /\ worker'[w].id = worker[w].id
    BY <1>1 DEF Tick, TypeOK, TasksOK, Task
  <2>2. UNCHANGED <<caller, attempts>>
    BY <1>1 DEF Tick
  <2>3. ASSUME NEW r \in Requests PROVE heap'[r] = <<>> <=> heap[r] = <<>>
    <3>1. heap[r] \in Seq(Nat) /\ heap'[r] = [i \in DOMAIN heap[r] |-> Elapsed(heap[r][i])]
      BY <1>1 DEF Tick, TypeOK
    <3>2. Len(heap'[r]) = Len(heap[r]) /\ heap'[r] \in Seq(Nat)
      BY <3>1, ElapsedFacts
    <3> QED
      BY <3>1, <3>2
  <2>4. ASSUME NEW r \in Requests PROVE Phase(r)' = Phase(r)
    BY <2>1, <2>2, <2>3 DEF Phase, Job
  <2> QED
    BY <2>2, <2>4, Closing
<1>2. CASE Restart
  <2>1. /\ UNCHANGED attempts
        /\ \A w \in Workers : worker'[w].stage = "idle"
        /\ \A r \in Requests : heap'[r] = <<>> /\ caller'[r] = IF caller[r] = "new" THEN "new" ELSE "gone"
    BY <1>2 DEF Restart, InitialEntries, Idle
  <2>2. ASSUME NEW r \in Requests PROVE Phase(r)' \in {Phase(r), "closed"}
    <3>1. CASE caller[r] = "new"
      <4>1. heap[r] = <<>> /\ \A w \in Workers : Job(w) # r
        BY <3>1 DEF Inv, CallerInv, Untouched
      <4> QED
        BY <2>1, <3>1, <4>1 DEF Phase
    <3>2. CASE caller[r] # "new"
      BY <2>1, <3>2 DEF Phase
    <3> QED
      BY <3>1, <3>2
  <2> QED
    BY <2>1, <2>2, Closing
<1>3. CASE UNCHANGED vars
  BY <1>3 DEF vars, Phase, Job
<1> QED
  BY <1>1, <1>2, <1>3, CallersLive, WorkersLive DEF Next

\* The queue implements the life cycle of its requests: none runs twice at once,
\* none runs more often than max_retries allows, and nothing wakes a request
\* that was completed, failed, cancelled or lost (request_queue.rs 130-201,
\* 366-407, 541-560).
THEOREM QueueImplementsLifecycle == Spec => ImplementsLifecycle
<1>1. Init => Lifecycle!Init
  <2> SUFFICES ASSUME Init PROVE Lifecycle!Init
    OBVIOUS
  <2>1. \A r \in Requests : Phase(r) = "new"
    BY DEF Init, Phase, Idle
  <2>2. attempts = [r \in Requests |-> 0]
    BY DEF Init
  <2> QED
    BY <2>1, <2>2 DEF Lifecycle!Init
<1>2. IInv /\ [Next]_vars => [Lifecycle!Next]_<<[r \in Requests |-> Phase(r)], attempts>>
  BY NextLive DEF IInv, Inv
<1> QED
  BY <1>1, <1>2, Inductive, PTL DEF Spec, Lifecycle!Spec, ImplementsLifecycle

-----------------------------------------------------------------------------
(* What becomes of an accepted request: nothing loses it while every statement *)
(* succeeds, and a channel outlives the end of its request by one task's steps *)
(* only.  This is the safety half of EventuallySettled and WaiterReleased.     *)

\* No SQL statement returns an error and no call panics.
NothingFails == ~DbMayFail /\ ~OverflowChecks

\* The queue still has all it needs to go on with a request.
Kept(r) ==
  /\ stored[r] # Absent /\ r \in senders
  /\ heap[r] # <<>> \/ \E w \in Workers : Owns(w, r)

NoneIsLost ==
  NothingFails => \A r \in Requests : caller[r] = "accepted" /\ ~Settled(r) => Kept(r)

\* Whoever finds a channel of a settled request finds the task about to drop it.
Ending(r) == \E w \in Workers : At(w, "settled") /\ Job(w) = r

ChannelsEnd == \A r \in senders : Settled(r) => Ending(r)

Terminal(r) == row[r].status \in {"completed", "failed"}

SettledWritten == \A w \in Workers : At(w, "settled") => Terminal(Job(w))

FateInv == NoneIsLost /\ ChannelsEnd /\ SettledWritten

LEMMA InitFate == Init => FateInv
<1> SUFFICES ASSUME Init PROVE FateInv
  OBVIOUS
<1> QED
  BY DEF Init, FateInv, NoneIsLost, ChannelsEnd, SettledWritten, Idle, At

\* What is settled stays settled.
LEMMA SettledStays ==
  ASSUME IInv, [Next]_vars, NEW r \in Requests
  PROVE  /\ Terminal(r) => Terminal(r)'
         /\ Settled(r) => Settled(r)'
<1>1. Terminal(r) => Terminal(r)'
  BY StatusStays DEF Terminal
<1>2. cancelled \subseteq cancelled'
  BY DEF Next, WorkerStep, CheckSize, SaveRow, Publish, Cancel, Pop, PutBack, Fetch, Start, Call,
     Complete, ScheduleRetry, SaveRetry, GiveUp, Forget, Record, Reply, Tick, Restart, vars, history
<1> QED
  BY <1>1, <1>2 DEF Settled, Terminal

\* A step that leaves the tasks where they are, up to their waits, and no channel
\* where there was none.
LEMMA QuietFate ==
  ASSUME IInv, FateInv, [Next]_vars,
         \A w \in Workers : worker'[w].stage = worker[w].stage /\ Job(w)' = Job(w),
         \A r \in Requests : Terminal(r)' => Terminal(r),
         \A r \in senders' : r \in senders /\ (r \in cancelled' => r \in cancelled),
         \A r \in Requests : caller'[r] = "accepted" /\ ~Settled(r)' =>
           /\ caller[r] = "accepted"
           /\ stored'[r] = stored[r] /\ (r \in senders => r \in senders')
           /\ heap[r] # <<>> => heap'[r] # <<>>
  PROVE  FateInv'
<1>0. senders \subseteq Requests
  BY DEF IInv, TypeOK
<1>1. \A w \in Workers : At(w, "settled") => Job(w) \in Requests
  BY DEF IInv, TypeOK, TasksOK, At
<1>2. SettledWritten'
  BY <1>1, SettledStays DEF FateInv, SettledWritten, At
<1>3. ChannelsEnd'
  <2> SUFFICES ASSUME NEW r \in senders', Settled(r)' PROVE Ending(r)'
    BY DEF ChannelsEnd
  <2>1. r \in senders /\ r \in Requests /\ Settled(r)
    BY <1>0 DEF Settled, Terminal
  <2>2. Ending(r)
    BY <2>1 DEF FateInv, ChannelsEnd
  <2> QED
    BY <2>2 DEF Ending, At
<1>4. NoneIsLost'
  <2> SUFFICES ASSUME NothingFails, NEW r \in Requests, caller'[r] = "accepted", ~Settled(r)'
               PROVE  Kept(r)'
    BY DEF NoneIsLost, NothingFails
  <2>1. ~Settled(r)
    BY SettledStays
  <2>2. Kept(r)
    BY <2>1 DEF FateInv, NoneIsLost
  <2>3. \A w \in Workers : Owns(w, r) => Owns(w, r)'
    BY DEF Owns
  <2> QED
    BY <2>2, <2>3 DEF Kept
<1> QED
  BY <1>2, <1>3, <1>4 DEF FateInv

LEMMA FateCallers ==
  ASSUME IInv, MemoryInv, FateInv, [Next]_vars, NEW r \in Requests,
         CheckSize(r) \/ SaveRow(r) \/ Publish(r) \/ Cancel(r)
  PROVE  FateInv'
<1> USE DEF memory, database, history
<1>0. UNCHANGED worker
  BY DEF CheckSize, SaveRow, Publish, Cancel
<1>1. CASE CheckSize(r) \/ SaveRow(r)
  <2>1. /\ UNCHANGED <<heap, stored, senders, cancelled>>
        /\ \A s \in Requests : caller'[s] = "accepted" => caller[s] = "accepted"
    BY <1>1 DEF CheckSize, SaveRow, IInv, TypeOK
  <2>2. ASSUME NEW s \in Requests, Terminal(s)' PROVE Terminal(s)
    <3>1. row' = row \/ row' = [row EXCEPT ![r] = [status |-> "queued", tries |-> 0]]
      BY <1>1 DEF CheckSize, SaveRow
    <3>2. row \in [Requests -> Row]
      BY DEF IInv, TypeOK
    <3> QED
      BY <2>2, <3>1, <3>2 DEF Terminal
  <2> QED
    BY <1>0, <2>1, <2>2, QuietFate DEF Job
<1>2. CASE Publish(r)
  <2>1. /\ caller[r] = "saved" /\ UNCHANGED <<row, cancelled>>
        /\ heap'[r] = Append(heap[r], 0) /\ stored'[r] = 0
        /\ senders' = senders \cup {r}
        /\ \A s \in Requests \ {r} :
             caller'[s] = caller[s] /\ heap'[s] = heap[s] /\ stored'[s] = stored[s]
    BY <1>2 DEF Publish, Push, Store, IInv, TypeOK
  <2>2. ~Settled(r) /\ heap[r] = <<>>
    BY <2>1 DEF Settled, MemoryInv, IInv, CallerInv, Untouched
  <2>3. ~Settled(r)' /\ Kept(r)'
    BY <2>1, <2>2 DEF Settled, Kept, Absent
  <2>4. \A s \in Requests \ {r} : (Settled(s)' <=> Settled(s)) /\ (Kept(s) => Kept(s)')
    BY <1>0, <2>1 DEF Settled, Kept, Owns, Job
  <2>5. NoneIsLost'
    BY <2>1, <2>3, <2>4 DEF FateInv, NoneIsLost, NothingFails
  <2>6. ChannelsEnd'
    BY <1>0, <2>1, <2>3, <2>4 DEF FateInv, ChannelsEnd, Ending, At, Job, IInv, TypeOK
  <2>7. SettledWritten'
    BY <1>0, <2>1 DEF FateInv, SettledWritten, Terminal, At, Job
  <2> QED
    BY <2>5, <2>6, <2>7 DEF FateInv
<1>3. CASE Cancel(r)
  <2>1. /\ UNCHANGED <<caller, row>>
        /\ senders' = senders \ {r}
        /\ \A s \in Requests \ {r} : heap'[s] = heap[s] /\ stored'[s] = stored[s]
        /\ cancelled' = IF stored[r] = Absent THEN cancelled ELSE cancelled \cup {r}
    BY <1>3 DEF Cancel, Discard, WithStatus, IInv, TypeOK
  <2>2. \A s \in Requests : Terminal(s)' => Terminal(s)
    BY <2>1 DEF Terminal
  <2>3. SettledWritten'
    BY <1>0, <2>1 DEF FateInv, SettledWritten, Terminal, At, Job
  <2>4. ChannelsEnd'
    BY <1>0, <2>1 DEF FateInv, ChannelsEnd, Settled, Ending, At, Job
  <2>5. NoneIsLost'
    <3> SUFFICES ASSUME NothingFails, NEW s \in Requests, caller'[s] = "accepted", ~Settled(s)'
                 PROVE  Kept(s)'
      BY DEF NoneIsLost, NothingFails
    <3>1. caller[s] = "accepted" /\ ~Settled(s)
      BY <2>1, SettledStays
    <3>2. Kept(s)
      BY <3>1 DEF FateInv, NoneIsLost
    <3>3. s # r
      BY <2>1, <3>2 DEF Kept, Settled
    <3> QED
      BY <1>0, <2>1, <3>2, <3>3 DEF Kept, Owns, Job
  <2> QED
    BY <2>3, <2>4, <2>5 DEF FateInv
<1> QED
  BY <1>1, <1>2, <1>3

\* A task settles a request by writing its row, and leaves it when it drops the
\* request and its channel.
LEMMA SettlingSteps ==
  ASSUME IInv, NEW w \in Workers, WorkerStep(w)
  PROVE  /\ At(w, "settled")' => /\ Job(w)' = Job(w) /\ Job(w) \in Requests
                                 /\ Terminal(Job(w))'
         /\ At(w, "settled") => Forget(w)
         /\ \A r \in Requests : Terminal(r)' => Terminal(r) \/ (At(w, "settled")' /\ Job(w)' = r)
<1> USE DEF memory, database, history
<1>0. /\ row \in [Requests -> Row] /\ worker[w] \in Task /\ TypeOK
      /\ ~At(w, "idle") => Job(w) \in Requests
  BY DEF IInv, TypeOK, TasksOK
<1>1. At(w, "settled") => Forget(w)
  BY DEF WorkerStep, At, Pop, PutBack, Fetch, Start, Call, Complete, ScheduleRetry, SaveRetry,
         GiveUp, Forget, Record, Reply
<1>2. CASE Complete(w) \/ GiveUp(w)
  <2>1. PICK status \in {"completed", "failed"} : Update(w, WithStatus(Job(w), status), "settled")
    BY <1>2 DEF Complete, GiveUp
  <2>2. At(w, "answered") /\ Job(w) \in Requests
    BY <1>0, <1>2 DEF Complete, GiveUp, At
  <2>3. CASE row' = WithStatus(Job(w), status) /\ Goto(w, "settled")
    <3> DEFINE p == Job(w)
    <3>1. p \in Requests /\ row' = [row EXCEPT ![p].status = status]
      BY <2>2, <2>3 DEF WithStatus
    <3>2. At(w, "settled")' /\ Job(w)' = p
      BY <1>0, <2>3 DEF Goto, IInv, TypeOK, TasksOK, At, Job, Task
    <3> HIDE DEF p
    <3>3. row'[p].status = status /\ \A r \in Requests \ {p} : row'[r] = row[r]
      BY <1>0, <3>1 DEF Row
    <3>4. Terminal(Job(w))'
      BY <3>2, <3>3 DEF Terminal
    <3>5. \A r \in Requests : Terminal(r)' => Terminal(r) \/ r = p
      BY <3>3 DEF Terminal
    <3> QED
      BY <1>1, <2>2, <3>2, <3>4, <3>5 DEF p
  <2>4. CASE Release(w) /\ UNCHANGED row
    <3>1. worker'[w].stage = "idle"
      BY <2>4 DEF Release, Idle, IInv, TypeOK, TasksOK
    <3> QED
      BY <1>1, <2>4, <3>1 DEF At, Terminal
  <2> QED
    BY <2>1, <2>3, <2>4 DEF Update
<1>3. CASE ~(Complete(w) \/ GiveUp(w))
  <2>1. worker'[w].stage # "settled"
    <3>1. ~At(w, "answered") \/ ScheduleRetry(w)
      BY <1>3 DEF WorkerStep, At, Pop, PutBack, Fetch, Start, Call, Complete, ScheduleRetry, SaveRetry,
                  GiveUp, Forget, Record, Reply
    <3>2. CASE ScheduleRetry(w)
      BY <1>0, <3>2 DEF ScheduleRetry, IInv, TypeOK, TasksOK, Task
    <3>3. CASE ~At(w, "answered")
      BY <1>0, <3>3, MoveFacts DEF Move, Becomes, At
    <3> QED
      BY <3>1, <3>2, <3>3
  <2>2. ASSUME NEW r \in Requests, Terminal(r)' PROVE Terminal(r)
    <3>1. CASE Start(w)
      <4>1. row' = row \/ row' = [row EXCEPT ![Job(w)].status = "executing"]
        BY <3>1 DEF Start, Update, WithStatus
      <4> QED
        BY <1>0, <2>2, <4>1 DEF Terminal, Row
    <3>2. CASE SaveRetry(w)
      BY <1>0, <2>2, <3>2 DEF SaveRetry, Update, WithTries, Row, Terminal
    <3>3. CASE ~(Start(w) \/ SaveRetry(w))
      <4>1. UNCHANGED row
        BY <1>3, <3>3 DEF WorkerStep, Pop, PutBack, Fetch, Call, ScheduleRetry, Forget, Record, Reply
      <4> QED
        BY <2>2, <4>1 DEF Terminal
    <3> QED
      BY <3>1, <3>2, <3>3
  <2> QED
    BY <1>1, <2>1, <2>2 DEF At
<1> QED
  BY <1>2, <1>3

\* Without failures a task lets go of a request it decides about only into the
\* heap, or when the map has lost it.
LEMMA OwnersKeep ==
  ASSUME IInv, NEW w \in Workers, WorkerStep(w), NothingFails,
         NEW r \in Requests, Owns(w, r), stored[r] # Absent, ~At(w, "settled")
  PROVE  Owns(w, r)' \/ heap'[r] # <<>>
<1> USE DEF memory, database, history
<1>0. /\ worker[w] \in Task /\ TypeOK /\ Job(w) = r
      /\ heap \in [Requests -> Seq(Nat)] /\ heap[r] = <<>>
  BY DEF IInv, TypeOK, TasksOK, Owns, ExclusiveOwner
<1>1. CASE PutBack(w) \/ ScheduleRetry(w)
  <2>1. \E wait : heap' = [heap EXCEPT ![r] = Append(@, wait)]
    BY <1>0, <1>1 DEF PutBack, ScheduleRetry, Push
  <2>2. PICK wait : heap' = [heap EXCEPT ![r] = Append(@, wait)]
    BY <2>1
  <2>3. heap'[r] = Append(<<>>, wait)
    BY <1>0, <2>2
  <2> QED
    BY <2>3
<1>2. CASE Fetch(w)
  BY <1>0, <1>2 DEF Fetch, IInv, TypeOK, TasksOK, Task, Owns, Holding, Job
<1>3. ASSUME NEW stage \in Holding, Goto(w, stage)
      PROVE  Owns(w, r)'
  BY <1>0, <1>3 DEF Goto, IInv, TypeOK, TasksOK, Task, Owns, Job
<1>4. CASE Start(w) \/ Complete(w) \/ GiveUp(w)
  <2>1. Goto(w, "calling") \/ Goto(w, "settled")
    BY <1>4 DEF Start, Complete, GiveUp, Update, NothingFails
  <2> QED
    BY <1>3, <2>1 DEF Holding
<1>5. CASE Call(w)
  <2>1. PICK answer : worker' = [worker EXCEPT ![w].stage = "answered", ![w].outcome = answer]
    BY <1>5 DEF Call, Panics, NothingFails
  <2> QED
    BY <1>0, <2>1 DEF IInv, TypeOK, TasksOK, Task, Owns, Holding, Job
<1>6. CASE Pop(w) \/ Forget(w) \/ SaveRetry(w) \/ Record(w) \/ Reply(w)
  BY <1>6 DEF Pop, Forget, SaveRetry, Record, Reply, At, Owns, Holding
<1> QED
  BY <1>1, <1>2, <1>4, <1>5, <1>6 DEF WorkerStep

\* What leaves the heap by a task's step is in the hands of that task.
LEMMA EntriesKept ==
  ASSUME IInv, NEW w \in Workers, WorkerStep(w), NEW r \in Requests, heap[r] # <<>>
  PROVE  heap'[r] # <<>> \/ Owns(w, r)'
<1> USE DEF memory, database, history
<1>0. heap \in [Requests -> Seq(Nat)] /\ worker \in [Workers -> Task]
  BY DEF IInv, TypeOK, TasksOK
<1>1. CASE Pop(w)
  <2>1. PICK e \in Tops :
          /\ worker' = [worker EXCEPT ![w] = Popped(e)]
          /\ heap' = [heap EXCEPT ![e[1]] = Remaining(e)]
    BY <1>1 DEF Pop
  <2>2. CASE r = e[1]
    BY <1>0, <2>1, <2>2 DEF Owns, Popped, Job, Holding
  <2>3. CASE r # e[1]
    BY <1>0, <2>1, <2>3
  <2> QED
    BY <2>2, <2>3
<1>2. CASE PutBack(w) \/ ScheduleRetry(w)
  <2>1. PICK wait : heap' = [heap EXCEPT ![Job(w)] = Append(@, wait)]
    BY <1>2 DEF PutBack, ScheduleRetry, Push
  <2>2. CASE r = Job(w)
    <3>1. heap'[r] = Append(heap[r], wait)
      BY <1>0, <2>1, <2>2
    <3> QED
      BY <1>0, <3>1
  <2>3. CASE r # Job(w)
    BY <1>0, <2>1, <2>3
  <2> QED
    BY <2>2, <2>3
<1>3. CASE ~(Pop(w) \/ PutBack(w) \/ ScheduleRetry(w))
  BY <1>3 DEF WorkerStep, Fetch, Start, Call, Complete, SaveRetry, GiveUp, Forget, Record, Reply
<1> QED
  BY <1>1, <1>2, <1>3

LEMMA FateWorkers ==
  ASSUME IInv, MemoryInv, MemoryInv', FateInv, [Next]_vars, NEW w \in Workers, WorkerStep(w)
  PROVE  FateInv'
<1> USE DEF memory, database, history
<1>0. /\ TypeOK /\ UNCHANGED caller /\ senders' \subseteq senders
      /\ \A v \in Workers \ {w} : worker'[v] = worker[v]
      /\ \A v \in Workers : At(v, "settled") => Job(v) \in Requests
  BY MoveFacts DEF IInv, TypeOK, TasksOK, At, WorkerStep, Pop, PutBack, Fetch, Start, Call, Complete,
     ScheduleRetry, SaveRetry, GiveUp, Forget, Record, Reply, Discard
<1>1. SettledWritten'
  <2> SUFFICES ASSUME NEW v \in Workers, At(v, "settled")' PROVE Terminal(Job(v))'
    BY DEF SettledWritten
  <2>1. CASE v = w
    BY <2>1, SettlingSteps DEF Terminal, Job
  <2>2. CASE v # w
    <3>1. worker'[v] = worker[v] /\ At(v, "settled") /\ Job(v) \in Requests /\ Job(v)' = Job(v)
      BY <1>0, <2>2 DEF At, Job
    <3>2. Terminal(Job(v))
      BY <3>1 DEF FateInv, SettledWritten
    <3>3. \A r \in Requests : Terminal(r) => Terminal(r)'
      BY SettledStays
    <3> QED
      BY <3>1, <3>2, <3>3 DEF Terminal
  <2> QED
    BY <2>1, <2>2
<1>2. ChannelsEnd'
  <2> SUFFICES ASSUME NEW r \in senders', Settled(r)' PROVE Ending(r)'
    BY DEF ChannelsEnd
  <2>1. r \in senders /\ r \in Requests
    BY <1>0 DEF TypeOK
  <2>2. Terminal(r)'
    BY DEF MemoryInv, MemoryAgrees, ChannelsAreLive, Settled, Terminal
  <2>3. CASE Terminal(r)
    <3>1. PICK v \in Workers : At(v, "settled") /\ Job(v) = r
      BY <2>1, <2>3 DEF FateInv, ChannelsEnd, Settled, Terminal, Ending
    <3>2. v # w
      <4>1. ASSUME v = w PROVE r \notin senders'
        BY <3>1, <4>1, SettlingSteps DEF Forget, Discard
      <4> QED
        BY <4>1
    <3> QED
      BY <1>0, <3>1, <3>2 DEF Ending, At, Job
  <2>4. CASE ~Terminal(r)
    BY <2>1, <2>2, <2>4, SettlingSteps DEF Ending
  <2> QED
    BY <2>3, <2>4
<1>3. NoneIsLost'
  <2> SUFFICES ASSUME NothingFails, NEW r \in Requests, caller'[r] = "accepted", ~Settled(r)'
               PROVE  Kept(r)'
    BY DEF NoneIsLost, NothingFails
  <2>1. caller[r] = "accepted" /\ ~Settled(r)
    BY <1>0, SettledStays
  <2>2. Kept(r)
    BY <2>1 DEF FateInv, NoneIsLost
  <2>3. \A v \in Workers : At(v, "settled") => Job(v) # r
    BY <2>1 DEF FateInv, SettledWritten, Settled, Terminal
  <2>4. stored'[r] # Absent /\ r \in senders'
    <3>1. CASE Forget(w)
      BY <2>2, <2>3, <3>1 DEF Forget, Discard, Kept, TypeOK, IInv
    <3>2. CASE ScheduleRetry(w)
      <4>1. UNCHANGED senders /\ stored' = [stored EXCEPT ![Job(w)] = NextTry(w)]
        BY <3>2 DEF ScheduleRetry, Store
      <4>2. NextTry(w) # Absent
        BY <1>0 DEF TypeOK, TasksOK, Task, NextTry, Absent
      <4> QED
        BY <1>0, <2>2, <4>1, <4>2 DEF Kept, TypeOK
    <3>3. CASE ~(Forget(w) \/ ScheduleRetry(w))
      <4>1. UNCHANGED <<stored, senders>>
        BY <3>3 DEF WorkerStep, Pop, PutBack, Fetch, Start, Call, Complete, SaveRetry, GiveUp, Record, Reply
      <4> QED
        BY <2>2, <4>1 DEF Kept
    <3> QED
      BY <3>1, <3>2, <3>3
  <2>5. heap'[r] # <<>> \/ \E v \in Workers : Owns(v, r)'
    <3>1. CASE heap[r] # <<>>
      BY <3>1, EntriesKept
    <3>2. CASE heap[r] = <<>>
      <4>1. PICK v \in Workers : Owns(v, r)
        BY <2>2, <3>2 DEF Kept
      <4>2. CASE v = w
        <5>1. ~At(w, "settled") /\ stored[r] # Absent
          BY <2>2, <2>3, <4>1, <4>2 DEF Owns, Kept
        <5> QED
          BY <4>1, <4>2, <5>1, OwnersKeep
      <4>3. CASE v # w
        BY <1>0, <4>1, <4>3 DEF Owns, Job
      <4> QED
        BY <4>2, <4>3
    <3> QED
      BY <3>1, <3>2
  <2> QED
    BY <2>4, <2>5 DEF Kept
<1> QED
  BY <1>1, <1>2, <1>3 DEF FateInv

LEMMA NextFate == IInv /\ MemoryInv /\ MemoryInv' /\ FateInv /\ [Next]_vars => FateInv'
<1> SUFFICES ASSUME IInv, MemoryInv, MemoryInv', FateInv, [Next]_vars PROVE FateInv'
  OBVIOUS
<1> USE DEF memory, database, history
<1>1. CASE Tick
  <2>1. \A w \in Workers : worker'[w].stage = worker[w].stage /\ worker'[w].id = worker[w].id
    BY <1>1 DEF Tick, IInv, TypeOK, TasksOK, Task
  <2>2. ASSUME NEW r \in Requests, heap[r] # <<>> PROVE heap'[r] # <<>>
    <3>1. heap[r] \in Seq(Nat) /\ heap'[r] = [i \in DOMAIN heap[r] |-> Elapsed(heap[r][i])]
      BY <1>1 DEF Tick, IInv, TypeOK
    <3>2. Len(heap'[r]) = Len(heap[r]) /\ heap'[r] \in Seq(Nat)
      BY <3>1, ElapsedFacts
    <3> QED
      BY <2>2, <3>1, <3>2
  <2>3. UNCHANGED <<caller, stored, senders, row, cancelled>>
    BY <1>1 DEF Tick
  <2> QED
    BY <2>1, <2>2, <2>3, QuietFate DEF Job, Terminal
<1>2. CASE Restart
  <2>1. /\ senders' = {}
        /\ \A w \in Workers : worker'[w].stage = "idle"
        /\ \A r \in Requests : caller'[r] # "accepted"
    BY <1>2 DEF Restart, Idle
  <2> QED
    BY <2>1 DEF FateInv, NoneIsLost, ChannelsEnd, SettledWritten, At
<1>3. CASE UNCHANGED vars
  <2>1. UNCHANGED <<caller, heap, stored, senders, row, worker, cancelled>>
    BY <1>3 DEF vars
  <2> QED
    BY <2>1, QuietFate DEF Job, Terminal
<1> QED
  BY <1>1, <1>2, <1>3, FateCallers, FateWorkers DEF Next

LEMMA FateKept == Spec => []FateInv
<1>1. IInv /\ MemoryInv /\ [Next]_vars => MemoryInv'
  BY NextMemory DEF IInv, Inv
<1> QED
  BY InitMemory, InitFate, <1>1, NextFate, Inductive, PTL DEF Spec

\* While every statement succeeds and no call panics, no accepted request is lost:
\* until it is completed, failed, cancelled or the process dies, the map and its
\* channel have it, and the heap or one task is about to go on with it, however
\* pops, put-backs, retries and cancellations interleave (request_queue.rs 162-201,
\* 218-270, 366-407).
THEOREM NothingIsLost == Spec => []NoneIsLost
<1>1. FateInv => NoneIsLost
  BY DEF FateInv
<1> QED
  BY <1>1, FateKept, PTL

\* A caller that waits on the channel of a settled request waits for one task only,
\* the one that has just written the row and is about to drop the channel, whatever
\* fails (request_queue.rs 325-335, 397-407, 546-556).
THEOREM WaitersEnd == Spec => []ChannelsEnd
<1>1. FateInv => ChannelsEnd
  BY DEF FateInv
<1> QED
  BY <1>1, FateKept, PTL

=============================================================================

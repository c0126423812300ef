---------------------------- MODULE RequestQueue ----------------------------
(***************************************************************************)
(* The priority request queue of the Reddit client                         *)
(* (reddit-client/src/request_queue.rs): callers enqueue requests, one or  *)
(* more tasks run start_processing on the same queue, any caller cancels.  *)
(* Its memory is a binary heap of entries, a map from id to request and a  *)
(* map from id to result channel, each behind a lock of its own; its table *)
(* is request_queue.  A step is one lock-protected block or one SQL        *)
(* statement: between two of them every other task may run, as between two *)
(* awaits of the code.                                                     *)
(*                                                                         *)
(* A Requests element stands for one call of enqueue_request and for the   *)
(* fresh id it draws.  Times are relative: a wait is the number of minutes *)
(* until scheduled_for, zero once it has passed.  The order of entries     *)
(* that are both overdue is therefore any order, which contains the code's.*)
(***************************************************************************)
EXTENDS Integers, Sequences, FiniteSets, SequencesExt

CONSTANTS
  Requests,        \* ids; one per call of enqueue_request
  Workers,         \* tasks that run start_processing
  Priorities,      \* priorities the callers pass
  MaxQueueSize,    \* max_queue_size
  MaxRetries,      \* max_retries, 3 in the code
  MaxCalls,        \* bound: enqueue calls in progress at a time
  MaxRestarts,     \* bound: crashes of the process
  DbMayFail,       \* whether a SQL statement may return an error
  OverflowChecks,  \* whether the build panics on overflow (a debug build)
  None             \* no request

ASSUME ConstantsAssumption ==
  /\ Priorities \subseteq Int
  /\ MaxQueueSize \in Nat
  /\ MaxRetries \in Nat
  /\ MaxCalls \in Nat
  /\ MaxRestarts \in Nat
  /\ DbMayFail \in BOOLEAN
  /\ OverflowChecks \in BOOLEAN
  /\ None \notin Requests

VARIABLES
  input,      \* the arguments of each call: priority, endpoint that answers 404
  caller,     \* where each call of enqueue_request is
  heap,       \* the waits of the heap's entries for each id
  stored,     \* the requests map: retry_count of a stored request, or Absent
  senders,    \* ids with a result channel
  row,        \* the row of each id in the request_queue table
  tracked,    \* API calls the tracker has recorded for each id
  worker,     \* where each processing task is, and its locals
  received,   \* results sent down each channel, in order
  attempts,   \* history: simulated API calls made for each id
  cancelled,  \* history: ids for which cancel_request returned true
  restarts    \* crashes so far

memory   == <<heap, stored, senders>>
database == <<row, tracked>>
history  == <<received, attempts, cancelled>>
vars == <<input, caller, memory, database, worker, history, restarts>>

Absent == -1

Outcomes == {"ok", "not_found", "rate_limited"}

CallerStages == {"new", "checked", "saved", "accepted", "refused", "gone"}

WorkerStages ==
  {"idle", "popped", "fetched", "calling", "answered",
   "settled", "recording", "scheduled", "replying", "dead"}

RowStatuses == {"none", "queued", "executing", "completed", "failed"}

Idle == [stage |-> "idle", id |-> None, wait |-> 0, tries |-> 0, outcome |-> "ok"]

-----------------------------------------------------------------------------
(* Tasks and heap entries *)

At(w, stage) == worker[w].stage = stage
Job(w) == worker[w].id
Succeeded(w) == worker[w].outcome = "ok"

Goto(w, stage) == worker' = [worker EXCEPT ![w].stage = stage]

\* The task lets go of its request: it is done with it, or a `?` returned early.
Release(w) == worker' = [worker EXCEPT ![w] = Idle]

\* An entry is named by its id and its place among the entries of that id.
Entries == UNION {{<<r, i>> : i \in DOMAIN heap[r]} : r \in Requests}

HeapSize == Cardinality(Entries)

-----------------------------------------------------------------------------
(* Faulty variants of operators below.  Nothing uses them: each is a bug that *)
(* would be easy to write, and each makes a run report a violation.           *)

PeekedOnly(e) == heap[e[1]]

DiscardKeepingChannel(r) ==
  /\ stored' = [stored EXCEPT ![r] = Absent]
  /\ UNCHANGED senders

SameTry(w) == worker[w].tries

WithStatusUnlessFailed(r, status) ==
  IF status = "failed" THEN row ELSE [row EXCEPT ![r].status = status]

WithFailedTry(w) == [row EXCEPT ![Job(w)] = [status |-> "failed", tries |-> worker[w].tries]]

UpdateErrorIgnored(w, table, next) ==
  /\ row' = table \/ (DbMayFail /\ UNCHANGED row)
  /\ Goto(w, next)

SentTwice(w) == IF Job(w) \in senders
                THEN [received EXCEPT ![Job(w)] = @ \o <<worker[w].outcome, worker[w].outcome>>]
                ELSE received

ReloadedEntries(r) == IF row[r].status \in {"queued", "executing"} THEN <<0>> ELSE <<>>

-----------------------------------------------------------------------------
(* The heap *)

Priority(e) == input[e[1]].priority
Wait(e) == heap[e[1]][e[2]]

\* Ord for PriorityRequest compares other.priority with self.priority, so the
\* entry with the SMALLER priority is the greater one; then the later schedule.
Greater(e, f) ==
  \/ Priority(e) < Priority(f)
  \/ Priority(e) = Priority(f) /\ Wait(e) > Wait(f)

\* What BinaryHeap::pop may return: an entry no other is greater than.
Tops == {e \in Entries : \A f \in Entries : ~Greater(f, e)}

Push(r, wait) == heap' = [heap EXCEPT ![r] = Append(@, wait)]

\* 2^retry_count * 60 seconds, in minutes
Backoff(tries) == 2 ^ tries

\* The exponent is at most 3 in the code; no bound is needed here but that a
\* power of two is a number of minutes.
ASSUME BackoffAssumption == \A tries \in 1..MaxRetries : Backoff(tries) \in Nat

\* The heap's entries for an id once e is popped.
Remaining(e) == RemoveAt(heap[e[1]], e[2])

Full == HeapSize >= MaxQueueSize

-----------------------------------------------------------------------------
(* The map of requests and the map of channels *)

Store(r, tries) == stored' = [stored EXCEPT ![r] = tries]

Discard(r) ==
  /\ stored' = [stored EXCEPT ![r] = Absent]
  /\ senders' = senders \ {r}

-----------------------------------------------------------------------------
(* The tasks *)

\* retry_count += 1, then the test against max_retries
NextTry(w) == worker[w].tries + 1
RetriesLeft(w) == NextTry(w) <= MaxRetries

-----------------------------------------------------------------------------
(* The table *)

\* CHECK (priority BETWEEN -1 AND 1)
RowAllowed(r) == input[r].priority \in -1..1

\* The table after update_request_status; "cancelled" is not one of its cases.
WithStatus(r, status) ==
  IF status \in {"executing", "completed", "failed"}
  THEN [row EXCEPT ![r].status = status]
  ELSE row

\* The table after update_request_retry_info: the status is not touched.
WithTries(w) == [row EXCEPT ![Job(w)].tries = worker[w].tries]

\* A task's UPDATE followed by `?`: the task goes on, or an error leaves the
\* table as it was and makes the task return.
Update(w, table, next) ==
  \/ row' = table /\ Goto(w, next)
  \/ DbMayFail /\ Release(w) /\ UNCHANGED row

-----------------------------------------------------------------------------
Init ==
  /\ input \in [Requests -> [priority : Priorities, missing : BOOLEAN]]
  /\ caller = [r \in Requests |-> "new"]
  /\ heap = [r \in Requests |-> <<>>]
  /\ stored = [r \in Requests |-> Absent]
  /\ senders = {}
  /\ row = [r \in Requests |-> [status |-> "none", tries |-> 0]]
  /\ tracked = [r \in Requests |-> 0]
  /\ worker = [w \in Workers |-> Idle]
  /\ received = [r \in Requests |-> <<>>]
  /\ attempts = [r \in Requests |-> 0]
  /\ cancelled = {}
  /\ restarts = 0

-----------------------------------------------------------------------------
(* enqueue_request *)

InProgress == {r \in Requests : caller[r] \in {"checked", "saved"}}

\* The size check, under the read lock of the heap only.
CheckSize(r) ==
  /\ caller[r] = "new"
  /\ Cardinality(InProgress) < MaxCalls
  /\ caller' = [caller EXCEPT ![r] = IF Full THEN "refused" ELSE "checked"]
  /\ UNCHANGED <<input, memory, database, worker, history, restarts>>

\* save_queued_request: INSERT, refused by the table's CHECK or by an error.
SaveRow(r) ==
  /\ caller[r] = "checked"
  /\ \/ /\ RowAllowed(r)
        /\ row' = [row EXCEPT ![r] = [status |-> "queued", tries |-> 0]]
        /\ caller' = [caller EXCEPT ![r] = "saved"]
     \/ /\ ~RowAllowed(r) \/ DbMayFail
        /\ caller' = [caller EXCEPT ![r] = "refused"]
        /\ UNCHANGED row
  /\ UNCHANGED <<input, memory, tracked, worker, history, restarts>>

\* The block that holds all three write locks; then the call returns the id.
Publish(r) ==
  /\ caller[r] = "saved"
  /\ Push(r, 0)
  /\ Store(r, 0)
  /\ senders' = senders \cup {r}
  /\ caller' = [caller EXCEPT ![r] = "accepted"]
  /\ UNCHANGED <<input, database, worker, history, restarts>>

-----------------------------------------------------------------------------
(* cancel_request: one block under all three locks; then the status update,  *)
(* when the map had the request.                                             *)

Cancel(r) ==
  /\ caller[r] = "accepted"
  /\ heap' = [heap EXCEPT ![r] = <<>>]
  /\ Discard(r)
  /\ IF stored[r] = Absent
     THEN UNCHANGED <<row, cancelled>>
     ELSE row' = WithStatus(r, "cancelled") /\ cancelled' = cancelled \cup {r}
  /\ UNCHANGED <<input, caller, tracked, worker, received, attempts, restarts>>

-----------------------------------------------------------------------------
(* process_next_request and what it calls *)

Popped(e) ==
  [stage |-> "popped", id |-> e[1], wait |-> Wait(e), tries |-> 0, outcome |-> "ok"]

\* queue.pop() under the write lock, released before anything else is read.
Pop(w) ==
  /\ At(w, "idle")
  /\ \E e \in Tops :
       /\ worker' = [worker EXCEPT ![w] = Popped(e)]
       /\ heap' = [heap EXCEPT ![e[1]] = Remaining(e)]
  /\ UNCHANGED <<input, caller, stored, senders, database, history, restarts>>

\* The entry is scheduled for the future: it goes back, whatever it was.
PutBack(w) ==
  /\ At(w, "popped") /\ worker[w].wait > 0
  /\ Push(Job(w), worker[w].wait)
  /\ Release(w)
  /\ UNCHANGED <<input, caller, stored, senders, database, history, restarts>>

\* The request is cloned out of the map; an id the map has lost is dropped.
Fetch(w) ==
  /\ At(w, "popped") /\ worker[w].wait = 0
  /\ IF stored[Job(w)] = Absent
     THEN Release(w)
     ELSE worker' = [worker EXCEPT ![w].stage = "fetched", ![w].tries = stored[Job(w)]]
  /\ UNCHANGED <<input, caller, memory, database, history, restarts>>

\* execute_request: status 'executing', then the call is on its way.
Start(w) ==
  /\ At(w, "fetched")
  /\ Update(w, WithStatus(Job(w), "executing"), "calling")
  /\ attempts' = IF worker'[w].stage = "calling"
                 THEN [attempts EXCEPT ![Job(w)] = @ + 1]
                 ELSE attempts
  /\ UNCHANGED <<input, caller, memory, tracked, received, cancelled, restarts>>

\* simulate_api_request: the outcomes of a call for an endpoint, at a priority,
\* after some retries.
Answers(r, tries) ==
  IF input[r].missing THEN {"not_found"}
  ELSE IF tries = 0 /\ input[r].priority < 0 THEN {"ok", "rate_limited"}
  ELSE {"ok"}

\* 50 + (priority * 10) as u64: a negative priority overflows the addition.
Panics(r) == OverflowChecks /\ input[r].priority < 0

Call(w) ==
  /\ At(w, "calling")
  /\ IF Panics(Job(w))
     THEN Goto(w, "dead")
     ELSE \E answer \in Answers(Job(w), worker[w].tries) :
            worker' = [worker EXCEPT ![w].stage = "answered", ![w].outcome = answer]
  /\ UNCHANGED <<input, caller, memory, database, history, restarts>>

\* complete_request: the row first; an error leaves everything else in place.
Complete(w) ==
  /\ At(w, "answered") /\ Succeeded(w)
  /\ Update(w, WithStatus(Job(w), "completed"), "settled")
  /\ UNCHANGED <<input, caller, memory, tracked, history, restarts>>

\* handle_request_failure, retries left: the heap and the map in one block.
\* The insertion is unconditional, whether or not the map still has the id.
ScheduleRetry(w) ==
  /\ At(w, "answered") /\ ~Succeeded(w)
  /\ RetriesLeft(w)
  /\ Push(Job(w), Backoff(NextTry(w)))
  /\ Store(Job(w), NextTry(w))
  /\ worker' = [worker EXCEPT ![w].stage = "scheduled", ![w].tries = NextTry(w)]
  /\ UNCHANGED <<input, caller, senders, database, history, restarts>>

SaveRetry(w) ==
  /\ At(w, "scheduled")
  /\ Update(w, WithTries(w), "replying")
  /\ UNCHANGED <<input, caller, memory, tracked, history, restarts>>

\* handle_request_failure, no retry left: the row first.
GiveUp(w) ==
  /\ At(w, "answered") /\ ~Succeeded(w)
  /\ ~RetriesLeft(w)
  /\ Update(w, WithStatus(Job(w), "failed"), "settled")
  /\ UNCHANGED <<input, caller, memory, tracked, history, restarts>>

\* Both ways to settle end by removing the request and its channel.
Forget(w) ==
  /\ At(w, "settled")
  /\ Discard(Job(w))
  /\ Goto(w, IF Succeeded(w) THEN "recording" ELSE "replying")
  /\ UNCHANGED <<input, caller, heap, database, history, restarts>>

\* The tracker, if there is one; its error is ignored.
Record(w) ==
  /\ At(w, "recording")
  /\ \/ tracked' = [tracked EXCEPT ![Job(w)] = @ + 1]
     \/ UNCHANGED tracked
  /\ Goto(w, "replying")
  /\ UNCHANGED <<input, caller, memory, row, history, restarts>>

\* "Send result to waiting caller", if the channel is still in the map.
Sent(w) == IF Job(w) \in senders
           THEN [received EXCEPT ![Job(w)] = Append(@, worker[w].outcome)]
           ELSE received

Reply(w) ==
  /\ At(w, "replying")
  /\ received' = Sent(w)
  /\ Release(w)
  /\ UNCHANGED <<input, caller, memory, database, attempts, cancelled, restarts>>

WorkerStep(w) ==
  \/ Pop(w) \/ PutBack(w) \/ Fetch(w) \/ Start(w) \/ Call(w)
  \/ Complete(w) \/ ScheduleRetry(w) \/ SaveRetry(w) \/ GiveUp(w)
  \/ Forget(w) \/ Record(w) \/ Reply(w)

-----------------------------------------------------------------------------
(* The clock and crashes *)

\* A minute passes, for entries in the heap and for those a task has popped.
Elapsed(wait) == IF wait > 0 THEN wait - 1 ELSE 0

Tick ==
  /\ heap' = [r \in Requests |-> [i \in DOMAIN heap[r] |-> Elapsed(heap[r][i])]]
  /\ worker' = [w \in Workers |-> [worker[w] EXCEPT !.wait = Elapsed(worker[w].wait)]]
  /\ UNCHANGED <<input, caller, stored, senders, database, history, restarts>>

\* The heap's entries for an id in a new process.
InitialEntries(r) == <<>>

\* The process dies and comes up with RequestQueue::new on the same database:
\* memory is empty and nothing reads the rows that are left.
Restart ==
  /\ restarts < MaxRestarts
  /\ restarts' = restarts + 1
  /\ heap' = [r \in Requests |-> InitialEntries(r)]
  /\ stored' = [r \in Requests |-> Absent]
  /\ senders' = {}
  /\ worker' = [w \in Workers |-> Idle]
  /\ caller' = [r \in Requests |-> IF caller[r] = "new" THEN "new" ELSE "gone"]
  /\ UNCHANGED <<input, database, history>>

Next ==
  \/ \E r \in Requests : CheckSize(r) \/ SaveRow(r) \/ Publish(r) \/ Cancel(r)
  \/ \E w \in Workers : WorkerStep(w)
  \/ Tick
  \/ Restart

Spec == Init /\ [][Next]_vars

\* Tasks of the runtime are polled again, SQL statements end, time passes.  No
\* caller has to call, nobody has to cancel, nothing has to crash.
Fairness ==
  /\ \A r \in Requests : WF_vars(SaveRow(r)) /\ WF_vars(Publish(r))
  /\ \A w \in Workers : WF_vars(WorkerStep(w))
  /\ WF_vars(Tick)

FairSpec == Spec /\ Fairness

-----------------------------------------------------------------------------
(* Properties *)

\* A row's columns, and the locals of a task.
Row == [status : RowStatuses, tries : 0..MaxRetries]

Task == [stage : WorkerStages, id : Requests \cup {None},
         wait : Nat, tries : 0..MaxRetries, outcome : Outcomes]

TasksOK ==
  /\ worker \in [Workers -> Task]
  /\ \A w \in Workers : IF At(w, "idle") THEN Job(w) = None ELSE Job(w) \in Requests

\* Every variable has its type.
TypeOK ==
  /\ input \in [Requests -> [priority : Priorities, missing : BOOLEAN]]
  /\ caller \in [Requests -> CallerStages]
  /\ heap \in [Requests -> Seq(Nat)]
  /\ stored \in [Requests -> {Absent} \cup 0..MaxRetries]
  /\ senders \subseteq Requests
  /\ row \in [Requests -> Row]
  /\ tracked \in [Requests -> Nat]
  /\ TasksOK
  /\ received \in [Requests -> Seq(Outcomes)]
  /\ attempts \in [Requests -> Nat]
  /\ cancelled \subseteq Requests
  /\ restarts \in 0..MaxRestarts

\* Stages in which a task is the one that decides what becomes of its request.
Holding == {"popped", "fetched", "calling", "answered", "settled"}

Owns(w, r) == Job(w) = r /\ worker[w].stage \in Holding

\* A request is in one pair of hands: one heap entry, or one task that has
\* popped it and not yet disposed of it.  Pop, put-back, retry and cancel all
\* move entries without looking at each other (request_queue.rs 186-201,
\* 376-386, 546-551); two owners would send the same request twice.
ExclusiveOwner ==
  \A r \in Requests :
    /\ Len(heap[r]) <= 1
    /\ heap[r] # <<>> => \A w \in Workers : ~Owns(w, r)
    /\ \A v, w \in Workers : Owns(v, r) /\ Owns(w, r) => v = w

\* max_retries (153, 367): whatever is cancelled, lost or restarted meanwhile,
\* a request is sent at most once and then once per retry.
AttemptsBounded == \A r \in Requests : attempts[r] <= MaxRetries + 1

\* The heap and the map are written in one block everywhere but in pop and
\* put-back (186-198): an entry whose request the map no longer holds can only
\* be one that was cancelled while a task had it popped.
OrphansWereCancelled ==
  \A r \in Requests : heap[r] # <<>> /\ stored[r] = Absent => r \in cancelled

\* A channel is kept exactly as long as its request can still be answered
\* (162-175, 329-335, 401-407, 541-556): never without the request, and never
\* for a request that came back after its cancellation.
ChannelsAreLive ==
  \A r \in senders : stored[r] # Absent /\ r \notin cancelled

\* Heap, map and channels agree, whichever of them a step writes alone.
MemoryAgrees == OrphansWereCancelled /\ ChannelsAreLive

\* The table and memory agree on how far a request got: a row is 'queued' as
\* long as nothing was sent, it never counts more retries than failed sends,
\* and the tracker has seen only completed requests, each once.
RowTracksRequest ==
  \A r \in Requests :
    /\ row[r].status # "none" => (row[r].status = "queued" <=> attempts[r] = 0)
    /\ row[r].tries <= attempts[r]
    /\ tracked[r] <= (IF row[r].status = "completed" THEN 1 ELSE 0)

\* get_queue_stats, read at one instant: the heap's length and the rows whose
\* completed_at and failed_at are empty, counted by status.
RowsWith(status) == {r \in Requests : row[r].status = status}

QueueStats == [total_queued |-> HeapSize,
               queued |-> Cardinality(RowsWith("queued")),
               executing |-> Cardinality(RowsWith("executing"))]

\* The statistics never miss a call in flight (226, 507-537): as many rows are
\* 'executing' as there are tasks in a call, at least.
StatsCountCalls ==
  Cardinality({w \in Workers : At(w, "calling")}) <= QueueStats.executing

\* What the table says of a request, and of all of them together, is what happened.
RowsAgree == RowTracksRequest /\ StatsCountCalls

\* One result at most is delivered for each call made (262-270), even when the
\* next attempt overtakes the delivery.
OneReplyPerAttempt == \A r \in Requests : Len(received[r]) <= attempts[r]

\* A row that says completed or failed says so for ever: no retry, no straggling
\* task and no restart writes over it (updates at 226, 325, 388, 397).
TerminalRowsFinal ==
  [][\A r \in Requests :
       row[r].status \in {"completed", "failed"} => row'[r].status = row[r].status]_vars

Settled(r) == r \in cancelled \/ row[r].status \in {"completed", "failed"}

\* With statements that succeed, every accepted request is completed, failed or
\* cancelled in the end: the retries of one never starve another for ever.
EventuallySettled == \A r \in Requests : caller[r] = "accepted" ~> Settled(r)

\* With statements that succeed, whoever waits on a channel is released: its
\* sender is dropped in the end.
WaiterReleased == \A r \in Requests : r \in senders ~> r \notin senders

\* The inductive invariant behind ExclusiveOwner, AttemptsBounded and
\* TerminalRowsFinal, in parts.

\* A call that has not returned an id, or whose process died, has left nothing
\* in memory, and was never sent.
Untouched(r) ==
  /\ heap[r] = <<>> /\ stored[r] = Absent /\ r \notin senders
  /\ \A w \in Workers : Job(w) # r

CallerInv ==
  \A r \in Requests :
    /\ caller[r] # "accepted" => Untouched(r)
    /\ caller[r] \in {"new", "checked", "refused"} => row[r].status = "none"
    /\ caller[r] = "saved" => row[r].status = "queued"
    /\ caller[r] \in {"new", "checked", "refused", "saved"} => attempts[r] = 0

\* A request whose row is terminal has no entry, and no task still to decide.
Undecided == {"popped", "fetched", "calling", "answered"}

RowInv ==
  \A r \in Requests :
    row[r].status \in {"completed", "failed"} =>
      /\ heap[r] = <<>>
      /\ \A w \in Workers : Job(w) = r => worker[w].stage \notin Undecided

\* Whoever holds a request knows of every attempt made for it.
AttemptInv ==
  /\ AttemptsBounded
  /\ \A r \in Requests :
       heap[r] # <<>> /\ stored[r] # Absent => attempts[r] <= stored[r]
  /\ \A w \in Workers :
       /\ At(w, "popped") /\ stored[Job(w)] # Absent => attempts[Job(w)] <= stored[Job(w)]
       /\ At(w, "fetched") => attempts[Job(w)] <= worker[w].tries
       /\ worker[w].stage \in {"calling", "answered"} =>
            attempts[Job(w)] <= worker[w].tries + 1

IInv == TypeOK /\ CallerInv /\ ExclusiveOwner /\ RowInv /\ AttemptInv

\* The queue as the life of each request (RequestLifecycle).
Phase(r) ==
  IF \E w \in Workers : Job(w) = r /\ worker[w].stage \in {"calling", "answered"}
  THEN "running"
  ELSE IF heap[r] # <<>> \/ \E w \in Workers : Job(w) = r /\ worker[w].stage \in {"popped", "fetched"}
  THEN "waiting"
  ELSE IF caller[r] \in {"new", "checked", "saved"} THEN "new"
  ELSE "closed"

Lifecycle == INSTANCE RequestLifecycle
               WITH phase <- [r \in Requests |-> Phase(r)],
                    runs <- attempts, MaxRuns <- MaxRetries + 1

\* Each request lives the life RequestLifecycle allows: it never runs twice at
\* a time nor too often, and nothing wakes it once it is closed.
ImplementsLifecycle == Lifecycle!Spec

-----------------------------------------------------------------------------
(* What a comment of the code says, and the code does not do *)

\* "Send result to waiting caller" (262): a caller that did not cancel has the
\* success of its completed request once the task is through with it.
SuccessDelivered ==
  \A r \in Requests :
    row[r].status = "completed" /\ r \notin cancelled /\ (\A w \in Workers : Job(w) # r)
      => "ok" \in Range(received[r])

=============================================================================

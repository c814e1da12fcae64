---------------------------- MODULE RunDelivery ----------------------------
(***************************************************************************)
(* How a committed run reaches a worker: the outbox row written with it    *)
(* (correctness/outbox.py), the relay replicas that drain the outbox       *)
(* (apps/relay/main.py), the broker that may lose or repeat a pointer      *)
(* (Celery on Redis), the Celery task that leases the named run, and the   *)
(* sweep that reaps expired leases and re-publishes stranded runs          *)
(* (apps/worker/tasks.py).                                                 *)
(*                                                                         *)
(* The row is the authority and a pointer only a hint, so safety must hold *)
(* for any number of deliveries, and liveness for lost ones.  What a       *)
(* worker does with the run it leased is RunWorkers' subject: here it ends *)
(* in one step of any of its outcomes.                                     *)
(***************************************************************************)
EXTENDS RunStore

CONSTANTS NoRun,        \* the worker or sweep has no run in hand
          Relays,       \* relay replicas
          Sweepers,     \* maintenance workers: sweeps may overlap
          MaxPointers,  \* bound: pointers to one run in the broker
          MaxLosses     \* bound: pointers lost, and marks that come too late

ASSUME RunDeliveryAssumption ==
    /\ NoRun \notin Runs
    /\ MaxPointers \in Nat \ {0}
    /\ MaxLosses \in Nat

VARIABLES run,        \* table run
          outbox,     \* table outbox: one row per run
          relay,      \* each replica's open drain transaction
          pointers,   \* messages on the broker's queue, per run
          losses,     \* pointers lost, and marks overtaken, so far
          worker,     \* each Celery worker process
          sweep       \* each maintenance worker's sweep task

vars == <<run, outbox, relay, pointers, losses, worker, sweep>>

\* An open drain transaction, a Celery task, and a sweep.
Drain == [todo : SUBSET Runs, published : SUBSET Runs]
Task == [phase : {"idle", "delivered", "working"}, run : Runs \cup {NoRun},
         attempt : 0..MaxAttempts]
Sweep == [todo : SUBSET Runs, marking : Runs \cup {NoRun}]

(* Rows, drains, pointers and tasks keep to their shapes under any loss,
   duplication and crash; attempt never passes max_attempts. *)
TypeOK ==
    /\ run \in [Runs -> Row]
    /\ outbox \in [Runs -> {"none", "unpublished", "published"}]
    /\ relay \in [Relays -> Drain]
    /\ pointers \in [Runs -> 0..MaxPointers]
    /\ losses \in 0..MaxLosses
    /\ worker \in [Workers -> Task]
    /\ sweep \in [Sweepers -> Sweep]

Idle == [phase |-> "idle", run |-> NoRun, attempt |-> 0]
NoDrain == [todo |-> {}, published |-> {}]
NoSweep == [todo |-> {}, marking |-> NoRun]

Init ==
    /\ run = [r \in Runs |-> AbsentRow]
    /\ outbox = [r \in Runs |-> "none"]
    /\ relay = [x \in Relays |-> NoDrain]
    /\ pointers = [r \in Runs |-> 0]
    /\ losses = 0
    /\ worker = [w \in Workers |-> Idle]
    /\ sweep = [s \in Sweepers |-> NoSweep]

\* execute_run takes a fresh worker id for every message; the attempt it is
\* given tells its leases on one run apart just as well.
Wid(w) == <<w, worker[w].attempt>>

-----------------------------------------------------------------------------
(* The API: the run row and its outbox row commit together.                *)
EnqueueRun(r) ==
    /\ run[r].status = "absent"
    /\ run' = [run EXCEPT ![r] = AdmitRow]
    /\ outbox' = [outbox EXCEPT ![r] = "unpublished"]
    /\ UNCHANGED <<relay, pointers, losses, worker, sweep>>

CancelRun(r) ==
    /\ Cancellable(run[r])
    /\ run' = [run EXCEPT ![r] = CancelRow(run[r])]
    /\ UNCHANGED <<outbox, relay, pointers, losses, worker, sweep>>

-----------------------------------------------------------------------------
(* The relay: drain() is one transaction.  It locks the unpublished rows   *)
(* it selects (SKIP LOCKED passes over those another replica holds), sends *)
(* a pointer for each, and its marks become visible at the commit.         *)
Locked(x) == UNION {relay[y].todo \cup relay[y].published : y \in Relays \ {x}}

DrainSelect(x) ==
    LET rows == {r \in Runs : outbox[r] = "unpublished"} \ Locked(x) IN
    /\ relay[x] = NoDrain
    /\ rows # {}
    /\ relay' = [relay EXCEPT ![x].todo = rows]
    /\ UNCHANGED <<run, outbox, pointers, losses, worker, sweep>>

DrainPublish(x, r) ==
    /\ r \in relay[x].todo
    /\ pointers[r] < MaxPointers
    /\ pointers' = [pointers EXCEPT ![r] = @ + 1]
    /\ relay' = [relay EXCEPT ![x] = [todo |-> @.todo \ {r},
                                      published |-> @.published \cup {r}]]
    /\ UNCHANGED <<run, outbox, losses, worker, sweep>>

\* publish raised: the row is skipped and stays unpublished.
DrainSkip(t, r) == [todo |-> t.todo \ {r}, published |-> t.published]

DrainPublishFails(x, r) ==
    /\ r \in relay[x].todo
    /\ relay' = [relay EXCEPT ![x] = DrainSkip(relay[x], r)]
    /\ UNCHANGED <<run, outbox, pointers, losses, worker, sweep>>

\* last_enqueued_at = now() is the time the transaction began, which is
\* before the available_at of a run that has been retried since.  (One that was
\* already due again when the drain began gets a later mark: the sweep then does
\* not publish it once more, and the drain's pointer reaches it.)
DrainMark(row) ==
    [row EXCEPT !.enqueued = IF row.attempt = 0 THEN "fresh" ELSE "before"]

\* The row is locked from its UPDATE on: whoever would write it in between waits,
\* and comes after the commit.
DrainCommit(x) ==
    /\ relay[x].todo = {} /\ relay[x].published # {}
    /\ outbox' = [r \in Runs |->
                    IF r \in relay[x].published THEN "published" ELSE outbox[r]]
    /\ run' = [r \in Runs |->
                 IF r \in relay[x].published THEN DrainMark(run[r]) ELSE run[r]]
    /\ relay' = [relay EXCEPT ![x] = NoDrain]
    /\ UNCHANGED <<pointers, losses, worker, sweep>>

\* The process dies or the transaction fails: everything but the messages
\* already sent is rolled back.
DrainRollback(x) ==
    /\ relay[x] # NoDrain
    /\ relay' = [relay EXCEPT ![x] = NoDrain]
    /\ UNCHANGED <<run, outbox, pointers, losses, worker, sweep>>

-----------------------------------------------------------------------------
(* The broker (external): unordered, may lose a pointer or deliver one     *)
(* again while its first delivery is not acknowledged.                     *)
Lose(r) ==
    /\ pointers[r] > 0 /\ losses < MaxLosses
    /\ pointers' = [pointers EXCEPT ![r] = @ - 1]
    /\ losses' = losses + 1
    /\ UNCHANGED <<run, outbox, relay, worker, sweep>>

Redeliver(w) ==
    LET r == worker[w].run IN
    /\ worker[w].phase # "idle"
    /\ pointers[r] < MaxPointers
    /\ pointers' = [pointers EXCEPT ![r] = @ + 1]
    /\ UNCHANGED <<run, outbox, relay, losses, worker, sweep>>

-----------------------------------------------------------------------------
(* The Celery task execute_run.                                            *)
Deliver(w, r) ==
    /\ worker[w] = Idle
    /\ pointers[r] > 0
    /\ pointers' = [pointers EXCEPT ![r] = @ - 1]
    /\ worker' = [worker EXCEPT ![w].phase = "delivered", ![w].run = r]
    /\ UNCHANGED <<run, outbox, relay, losses, sweep>>

\* acquire_specific.
TaskLeases(w) ==
    LET r == worker[w].run
        row == LeaseRow(run[r], <<w, run[r].attempt + 1>>) IN
    /\ worker[w].phase = "delivered"
    /\ Available(run[r])
    /\ run' = [run EXCEPT ![r] = row]
    /\ worker' = [worker EXCEPT ![w].phase = "working", ![w].attempt = row.attempt]
    /\ UNCHANGED <<outbox, relay, pointers, losses, sweep>>

\* "not_available": a duplicate, a finished run or one not due yet.  The task
\* returns, so the pointer is acknowledged and gone.
TaskNotAvailable(w) ==
    /\ worker[w].phase = "delivered"
    /\ ~Available(run[worker[w].run])
    /\ worker' = [worker EXCEPT ![w] = Idle]
    /\ UNCHANGED <<run, outbox, relay, pointers, losses, sweep>>

\* Resolving the tenant or leasing raised: Celery acknowledges a task that
\* fails, so the pointer is lost.
TaskRaises(w) ==
    /\ worker[w].phase = "delivered"
    /\ losses < MaxLosses
    /\ losses' = losses + 1
    /\ worker' = [worker EXCEPT ![w] = Idle]
    /\ UNCHANGED <<run, outbox, relay, pointers, sweep>>

\* What the worker may leave behind in the row, if the fence lets it; an exception
\* on the way leaves the row as it is, leased, and the pointer acknowledged.
Outcomes(row, wid, attempt) ==
    {row}
    \cup (IF CompleteHolds(row, wid) THEN {CompleteRow(row, attempt)} ELSE {})
    \cup (IF HeldBy(row, wid)
          THEN {FailRow(row, FailTerminal(attempt, retryable)) : retryable \in BOOLEAN}
          ELSE {})

TaskReturns(w) ==
    LET r == worker[w].run IN
    /\ worker[w].phase = "working"
    /\ \E row \in Outcomes(run[r], Wid(w), worker[w].attempt) :
           run' = [run EXCEPT ![r] = row]
    /\ worker' = [worker EXCEPT ![w] = Idle]
    /\ UNCHANGED <<outbox, relay, pointers, losses, sweep>>

TaskHeartbeat(w) ==
    LET r == worker[w].run IN
    /\ worker[w].phase = "working"
    /\ HeartbeatHolds(run[r], Wid(w))
    /\ run' = [run EXCEPT ![r] = HeartbeatRow(run[r])]
    /\ UNCHANGED <<outbox, relay, pointers, losses, worker, sweep>>

\* The process dies: acks_late and reject_on_worker_lost put the message back.
TaskCrash(w) ==
    LET r == worker[w].run IN
    /\ worker[w].phase # "idle"
    /\ pointers[r] < MaxPointers
    /\ pointers' = [pointers EXCEPT ![r] = @ + 1]
    /\ worker' = [worker EXCEPT ![w] = Idle]
    /\ UNCHANGED <<run, outbox, relay, losses, sweep>>

-----------------------------------------------------------------------------
(* The sweep: reap_expired, then select the stranded runs, then for each   *)
(* publish a pointer and record that in a transaction of its own.          *)
StrandedIgnoringRetries(row) ==
    /\ Available(row)
    /\ row.enqueued = "null" \/ (row.attempt = 0 /\ row.enqueued = "aged")

StrandedIgnoringAge(row) ==
    /\ Available(row)
    /\ row.enqueued = "null" \/ (row.attempt > 0 /\ row.enqueued = "before")

Stranded(row) ==
    /\ Available(row)
    /\ \/ row.enqueued = "null"
       \/ row.attempt = 0 /\ row.enqueued = "aged"
       \/ row.attempt > 0 /\ row.enqueued = "before"

SweepReap(s) ==
    /\ sweep[s] = NoSweep
    /\ \E r \in Runs : Reapable(run[r])
    /\ run' = [r \in Runs |-> IF Reapable(run[r]) THEN ReapRow(run[r]) ELSE run[r]]
    /\ UNCHANGED <<outbox, relay, pointers, losses, worker, sweep>>

SweepSelect(s) ==
    LET rows == {r \in Runs : Stranded(run[r])} IN
    /\ sweep[s] = NoSweep
    /\ rows # {}
    /\ sweep' = [sweep EXCEPT ![s].todo = rows]
    /\ UNCHANGED <<run, outbox, relay, pointers, losses, worker>>

SweepPublish(s, r) ==
    /\ r \in sweep[s].todo /\ sweep[s].marking = NoRun
    /\ pointers[r] < MaxPointers
    /\ pointers' = [pointers EXCEPT ![r] = @ + 1]
    /\ sweep' = [sweep EXCEPT ![s] = [todo |-> @.todo \ {r}, marking |-> r]]
    /\ UNCHANGED <<run, outbox, relay, losses, worker>>

\* publish raised: logged, next run.
SweepPublishFails(s, r) ==
    /\ r \in sweep[s].todo /\ sweep[s].marking = NoRun
    /\ sweep' = [sweep EXCEPT ![s].todo = @ \ {r}]
    /\ UNCHANGED <<run, outbox, relay, pointers, losses, worker>>

\* last_enqueued_at = now(), whatever became of the run in the meantime.
SweepMarkRow(row) ==
    [row EXCEPT !.enqueued = IF row.due THEN "fresh" ELSE "before"]

SweepMark(s) ==
    /\ sweep[s].marking # NoRun
    /\ LET r == sweep[s].marking IN run' = [run EXCEPT ![r] = SweepMarkRow(run[r])]
    /\ sweep' = [sweep EXCEPT ![s].marking = NoRun]
    /\ UNCHANGED <<outbox, relay, pointers, losses, worker>>

\* The mark raised (logged, next run), or the whole task died.
SweepMarkFails(s) ==
    /\ sweep[s].marking # NoRun
    /\ sweep' = [sweep EXCEPT ![s].marking = NoRun]
    /\ UNCHANGED <<run, outbox, relay, pointers, losses, worker>>

SweepCrash(s) ==
    /\ sweep[s] # NoSweep
    /\ sweep' = [sweep EXCEPT ![s] = NoSweep]
    /\ UNCHANGED <<run, outbox, relay, pointers, losses, worker>>

-----------------------------------------------------------------------------
(* The clock.                                                              *)
Expire(r) ==
    /\ LeaseRunsOut(run[r])
    /\ run' = [run EXCEPT ![r] = LeaseRunsOutRow(run[r])]
    /\ UNCHANGED <<outbox, relay, pointers, losses, worker, sweep>>

\* The backoff ends.  A sweep that published this run and is still to mark it
\* has been overtaken: its mark will hide the retry from the sweeps that follow.
Due(r) ==
    /\ BecomesDue(run[r])
    /\ losses' = IF \E s \in Sweepers : sweep[s].marking = r THEN losses + 1 ELSE losses
    /\ losses' <= MaxLosses
    /\ run' = [run EXCEPT ![r] = BecomesDueRow(run[r])]
    /\ UNCHANGED <<outbox, relay, pointers, worker, sweep>>

\* LOST_POINTER_AFTER passes; the sweep looks at the age of a first pointer only.
Age(r) ==
    /\ run[r].enqueued = "fresh" /\ run[r].status = "pending" /\ run[r].attempt = 0
    /\ run' = [run EXCEPT ![r].enqueued = "aged"]
    /\ UNCHANGED <<outbox, relay, pointers, losses, worker, sweep>>

-----------------------------------------------------------------------------
Next ==
    \/ \E r \in Runs : \/ EnqueueRun(r) \/ CancelRun(r) \/ Lose(r)
                       \/ Expire(r) \/ Due(r) \/ Age(r)
    \/ \E x \in Relays : \/ DrainSelect(x) \/ DrainCommit(x) \/ DrainRollback(x)
                         \/ \E r \in Runs : DrainPublish(x, r) \/ DrainPublishFails(x, r)
    \/ \E w \in Workers : \/ \E r \in Runs : Deliver(w, r)
                          \/ TaskLeases(w) \/ TaskNotAvailable(w) \/ TaskRaises(w)
                          \/ TaskReturns(w) \/ TaskHeartbeat(w) \/ TaskCrash(w)
                          \/ Redeliver(w)
    \/ \E s \in Sweepers : \/ SweepReap(s) \/ SweepSelect(s)
                           \/ \E r \in Runs : SweepPublish(s, r) \/ SweepPublishFails(s, r)
                           \/ SweepMark(s) \/ SweepMarkFails(s) \/ SweepCrash(s)

Spec == Init /\ [][Next]_vars

\* Fairness: a queued pointer is delivered, and a task that keeps being
\* delivered does not die every time; beat schedules the sweep every 30
\* seconds, and some sweep gets through its reap, its select, a publish and a
\* mark again and again; time passes.  The relay is owed nothing: the sweep
\* alone must do.
Fairness ==
    /\ \A r \in Runs : /\ WF_vars(\E w \in Workers : Deliver(w, r))
                       /\ WF_vars(Expire(r)) /\ WF_vars(Due(r)) /\ WF_vars(Age(r))
    /\ \A w \in Workers : SF_vars(TaskLeases(w) \/ TaskNotAvailable(w) \/ TaskReturns(w))
    /\ WF_vars(\E s \in Sweepers : SweepReap(s))
    /\ SF_vars(\E s \in Sweepers : SweepSelect(s))
    /\ SF_vars(\E s \in Sweepers : SweepMark(s))
    /\ \A r \in Runs : SF_vars(\E s \in Sweepers : SweepPublish(s, r))

FairSpec == Spec /\ Fairness

\* The relay loop never exits and does not fail for ever either.
RelayFairness ==
    /\ WF_vars(\E x \in Relays : DrainSelect(x))
    /\ SF_vars(\E x \in Relays : DrainCommit(x))
    /\ \A r \in Runs : SF_vars(\E x \in Relays : DrainPublish(x, r))

-----------------------------------------------------------------------------
(* "Trusting the message would let a redelivery start a second execution of a run
   another worker currently holds" (acquire_specific).  A task at work under a
   live lease keeps its run, on the attempt it was given, until it is done with
   it or the lease runs out: no duplicate or late delivery, overlapping sweep or
   late commit of a drain takes it away. *)
HoldersKeepTheirRun ==
    [][\A w \in Workers :
         worker[w].phase = "working" /\ worker'[w] = worker[w]
         => LET r == worker[w].run IN
            HeldBy(run[r], Wid(w)) /\ run[r].lease_live
            => HeldBy(run'[r], Wid(w)) /\ run'[r].attempt = worker[w].attempt]_vars

(* Outbox, broker, task and sweep together implement the promised life of a
   run, for any number of deliveries. *)
Lifecycle == INSTANCE RunLifecycle WITH
    status <- [r \in Runs |-> run[r].status],
    attempt <- [r \in Runs |-> run[r].attempt],
    cancel <- [r \in Runs |-> run[r].cancel_requested],
    result <- [r \in Runs |-> run[r].result]

ImplementsLifecycle == Lifecycle!Spec

(* An admitted run is started (or cancelled) although the relay may never
   publish it and the broker may lose its pointers: the sweep looks for runs
   that were never started. *)
AdmittedRunsStart ==
    \A r \in Runs : run[r].status = "pending" /\ run[r].attempt = 0
                        ~> run[r].attempt > 0 \/ run[r].status \in Terminal

(* "A run that is `pending` in Postgres will be picked up", on every attempt
   (the docstring of sweep in apps/worker/tasks.py). *)
PendingIsPickedUp ==
    \A r \in Runs : run[r].status = "pending" ~> run[r].status # "pending"

(* The part of that promise the code keeps: when no pointer is lost and the relay
   works, every pending attempt is picked up, retries after failures, expired
   leases and crashes included. *)
AttemptsArePickedUp == RelayFairness /\ [](losses = 0) => PendingIsPickedUp
=============================================================================

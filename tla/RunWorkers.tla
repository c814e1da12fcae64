----------------------------- MODULE RunWorkers -----------------------------
(***************************************************************************)
(* Worker processes executing leased runs: apps/worker/runner.py over the  *)
(* lease statements of RunStore, with the heartbeat thread, the reaper and *)
(* the cancel endpoint running beside them.                                *)
(*                                                                         *)
(* A worker keeps the LeasedRun it was given (run, attempt) and works from *)
(* it while the row may be reaped, re-leased, cancelled or finished by     *)
(* others; every write it makes is fenced on leased_by.  A stalled worker  *)
(* is one that takes no step; a crashed one loses everything but the row.  *)
(***************************************************************************)
EXTENDS RunStore

CONSTANT NoRun    \* the worker holds no LeasedRun

ASSUME RunWorkersAssumption == NoRun \notin Runs

VARIABLES run,       \* the table: [Runs -> Row]
          worker,    \* each process: phase of _execute_leased_body, its LeasedRun
          gen,       \* incarnation of each process, part of its worker id
          beat       \* its Heartbeater thread

vars == <<run, worker, gen, beat>>

\* Where _execute_leased_body is.  "leased": after acquire; "started": first
\* cancellation_point; "handling": inside the handler; "returned": second
\* cancellation_point; "checked": raise_if_lost; "closing": an except branch,
\* before its lease write; "completing": after the Heartbeater's block.
Phases == {"idle", "leased", "started", "handling", "returned", "checked",
           "closing", "completing"}

\* The except branch taken; "none" outside "closing".
Closings == {"none", "cancelled", "needs_reconciliation", "transient", "failed"}

\* "dead": the thread died on an exception of heartbeat() without setting lost.
Beats == {"off", "on", "lost", "dead"}

Idle == [phase |-> "idle", run |-> NoRun, attempt |-> 0, closing |-> "none"]

(* Rows and workers keep to the shapes the table's columns and CHECK allow:
   no statement invents a status, and attempt never passes max_attempts. *)
TypeOK ==
    /\ run \in [Runs -> Row]
    /\ worker \in [Workers -> [phase : Phases, run : Runs \cup {NoRun},
                               attempt : 0..MaxAttempts, closing : Closings]]
    /\ gen \in [Workers -> Nat]
    /\ beat \in [Workers -> Beats]

Wid(w) == <<w, gen[w]>>

Init ==
    /\ run = [r \in Runs |-> AbsentRow]
    /\ worker = [w \in Workers |-> Idle]
    /\ gen = [w \in Workers |-> 0]
    /\ beat = [w \in Workers |-> "off"]

-----------------------------------------------------------------------------
(* The API.                                                                *)
Enqueue(r) ==
    /\ run[r].status = "absent"
    /\ run' = [run EXCEPT ![r] = AdmitRow]
    /\ UNCHANGED <<worker, gen, beat>>

Cancel(r) ==
    /\ Cancellable(run[r])
    /\ run' = [run EXCEPT ![r] = CancelRow(run[r])]
    /\ UNCHANGED <<worker, gen, beat>>

-----------------------------------------------------------------------------
(* The worker's main thread.                                               *)
Step(w, from, to) ==
    /\ worker[w].phase = from
    /\ worker' = [worker EXCEPT ![w].phase = to]

Close(w, from, how) ==
    /\ worker[w].phase = from
    /\ worker' = [worker EXCEPT ![w].phase = "closing", ![w].closing = how]

\* Back in the poll loop, or the Celery task returned.
Leave(w) ==
    /\ worker' = [worker EXCEPT ![w] = Idle]
    /\ beat' = [beat EXCEPT ![w] = "off"]

\* An exception leaves execute_leased.  The poll loop dies of it and restarts
\* with a new worker id; a Celery task takes a new id for its next message.
Escape(w) == Leave(w) /\ gen' = [gen EXCEPT ![w] = @ + 1]

\* leases.acquire and leases.acquire_specific.
Acquire(w, r) ==
    /\ worker[w].phase = "idle"
    /\ Available(run[r])
    /\ run' = [run EXCEPT ![r] = LeaseRow(run[r], Wid(w))]
    /\ worker' = [worker EXCEPT ![w] =
                    [phase |-> "leased", run |-> r,
                     attempt |-> run'[r].attempt, closing |-> "none"]]
    /\ UNCHANGED <<gen, beat>>

\* No handler is registered for the run's workload: failed, not retryable.
NoHandler(w) ==
    LET r == worker[w].run IN
    /\ worker[w].phase = "leased"
    /\ run' = IF HeldBy(run[r], Wid(w))
              THEN [run EXCEPT ![r] = FailRow(run[r], FailTerminal(worker[w].attempt, FALSE))]
              ELSE run
    /\ Leave(w)
    /\ UNCHANGED gen

\* service_principal, the run_started checkpoint, then the Heartbeater.
Begin(w) ==
    /\ Step(w, "leased", "started")
    /\ beat' = [beat EXCEPT ![w] = "on"]
    /\ UNCHANGED <<run, gen>>

\* Either of the two raised: nothing catches it, the lease stays.
BeginRaises(w) ==
    /\ worker[w].phase = "leased"
    /\ Escape(w)
    /\ UNCHANGED run

\* cancellation_point before and after the handler.
CancellationPoint(w, from, to) ==
    /\ worker[w].phase = from
    /\ IF CancelSeen(run[worker[w].run])
       THEN Close(w, from, "cancelled")
       ELSE Step(w, from, to)
    /\ UNCHANGED <<run, gen, beat>>

\* Its read of the row raised, which the last except branch takes for a
\* deterministic failure.
CancellationPointRaises(w, from) ==
    /\ Close(w, from, "failed")
    /\ UNCHANGED <<run, gen, beat>>

HandlerReturns(w) ==
    /\ Step(w, "handling", "returned")
    /\ UNCHANGED <<run, gen, beat>>

\* A cancellation_point inside the handler saw the request.
HandlerCancelled(w) ==
    /\ worker[w].phase = "handling"
    /\ CancelSeen(run[worker[w].run])
    /\ Close(w, "handling", "cancelled")
    /\ UNCHANGED <<run, gen, beat>>

HandlerRaises(w, how) ==
    /\ Close(w, "handling", how)
    /\ UNCHANGED <<run, gen, beat>>

\* raise_if_lost, then the end of the `with Heartbeater` block.
RaiseIfLost(w) ==
    /\ worker[w].phase = "checked"
    /\ IF beat[w] = "lost"
       THEN /\ Close(w, "checked", "transient")
            /\ UNCHANGED beat
       ELSE /\ Step(w, "checked", "completing")
            /\ beat' = [beat EXCEPT ![w] = "off"]
    /\ UNCHANGED <<run, gen>>

\* The lease write of the except branch; it runs even when the checkpoint
\* append before it raised (try/finally), and does nothing when the fence
\* rejects it.
CloseRow(row, wid, attempt, how) ==
    CASE how = "cancelled" ->
            IF AckCancelHolds(row, wid) THEN AckCancelRow(row) ELSE row
      [] how # "cancelled" ->
            IF HeldBy(row, wid)
            THEN FailRow(row, FailTerminal(attempt, how = "transient")) ELSE row

CloseRun(w) ==
    LET r == worker[w].run IN
    /\ worker[w].phase = "closing"
    /\ run' = [run EXCEPT ![r] = CloseRow(run[r], Wid(w), worker[w].attempt,
                                          worker[w].closing)]
    /\ Leave(w)
    /\ UNCHANGED gen

\* The append raised and the lease write was made, or the write itself raised.
CloseRaises(w) ==
    LET r == worker[w].run IN
    /\ worker[w].phase = "closing"
    /\ \/ UNCHANGED run
       \/ run' = [run EXCEPT ![r] = CloseRow(run[r], Wid(w), worker[w].attempt,
                                             worker[w].closing)]
    /\ Escape(w)

\* complete() after the handler_completed checkpoint.  A rejected write is the
\* outcome "lease_lost": the row is left as it is.
Complete(w) ==
    LET r == worker[w].run IN
    /\ worker[w].phase = "completing"
    /\ run' = IF CompleteHolds(run[r], Wid(w))
              THEN [run EXCEPT ![r] = CompleteRow(run[r], worker[w].attempt)]
              ELSE run
    /\ Leave(w)
    /\ UNCHANGED gen

\* The handler_completed checkpoint could not be appended.
CompleteRaises(w) ==
    /\ worker[w].phase = "completing"
    /\ Escape(w)
    /\ UNCHANGED run

\* SIGKILL, eviction, the hard task time limit.
Crash(w) ==
    /\ worker[w].phase # "idle"
    /\ Escape(w)
    /\ UNCHANGED run

-----------------------------------------------------------------------------
(* The heartbeat thread: one beat, or an exception out of leases.heartbeat *)
(* that ends the thread without setting `lost`.                            *)
Heartbeat(w) ==
    LET r == worker[w].run IN
    /\ beat[w] = "on"
    /\ IF HeartbeatHolds(run[r], Wid(w))
       THEN /\ run' = [run EXCEPT ![r] = HeartbeatRow(run[r])]
            /\ UNCHANGED beat
       ELSE /\ beat' = [beat EXCEPT ![w] = "lost"]
            /\ UNCHANGED run
    /\ UNCHANGED <<worker, gen>>

HeartbeatRaises(w) ==
    /\ beat[w] = "on"
    /\ beat' = [beat EXCEPT ![w] = "dead"]
    /\ UNCHANGED <<run, worker, gen>>

-----------------------------------------------------------------------------
(* The reaper and the clock.                                               *)
Reap(r) ==
    /\ Reapable(run[r])
    /\ run' = [run EXCEPT ![r] = ReapRow(run[r])]
    /\ UNCHANGED <<worker, gen, beat>>

Expire(r) ==
    /\ LeaseRunsOut(run[r])
    /\ run' = [run EXCEPT ![r] = LeaseRunsOutRow(run[r])]
    /\ UNCHANGED <<worker, gen, beat>>

Due(r) ==
    /\ BecomesDue(run[r])
    /\ run' = [run EXCEPT ![r] = BecomesDueRow(run[r])]
    /\ UNCHANGED <<worker, gen, beat>>

-----------------------------------------------------------------------------
\* The main thread of w makes progress on the run it holds.
Work(w) ==
    \/ NoHandler(w)
    \/ Begin(w)
    \/ CancellationPoint(w, "started", "handling")
    \/ HandlerReturns(w)
    \/ HandlerCancelled(w)
    \/ \E how \in {"needs_reconciliation", "transient", "failed"} : HandlerRaises(w, how)
    \/ CancellationPoint(w, "returned", "checked")
    \/ RaiseIfLost(w)
    \/ CloseRun(w)
    \/ Complete(w)

\* What goes wrong around it.
Trouble(w) ==
    \/ BeginRaises(w)
    \/ CancellationPointRaises(w, "started")
    \/ CancellationPointRaises(w, "returned")
    \/ CloseRaises(w)
    \/ CompleteRaises(w)
    \/ Crash(w)
    \/ HeartbeatRaises(w)

Next ==
    \/ \E r \in Runs : \/ Enqueue(r) \/ Cancel(r)
                       \/ Reap(r) \/ Expire(r) \/ Due(r)
    \/ \E w \in Workers : \/ \E r \in Runs : Acquire(w, r)
                          \/ Work(w)
                          \/ Heartbeat(w)
                          \/ Trouble(w)

Spec == Init /\ [][Next]_vars

\* Fairness: an idle worker keeps polling; a handler ends (Celery's hard time
\* limit sees to it) and the code after it runs; the sweep reaps on its beat;
\* time passes.  Heartbeats and cancel requests are owed nothing.
Fairness ==
    /\ \A w \in Workers : WF_vars(Work(w))
    /\ \A r \in Runs : /\ WF_vars(\E w \in Workers : Acquire(w, r))
                       /\ WF_vars(Reap(r)) /\ WF_vars(Expire(r)) /\ WF_vars(Due(r))

FairSpec == Spec /\ Fairness

-----------------------------------------------------------------------------
(* Two workers never work from the same attempt of a run: a lease that was
   reaped and taken over has a higher attempt than the stalled holder's
   LeasedRun (acquire, acquire_specific, reap_expired). *)
OneCurrentAttempt ==
    \A v, w \in Workers :
        v # w /\ worker[v].run # NoRun /\ worker[v].run = worker[w].run
            => worker[v].attempt # worker[w].attempt

GivenUpByItsHolder ==
    \A r \in Runs :
        /\ run[r].status = "leased" /\ run[r].lease_live
        /\ ~(run'[r].status = "leased" /\ run'[r].leased_by = run[r].leased_by)
        => \E w \in Workers : /\ Wid(w) = run[r].leased_by
                              /\ worker[w].run = r /\ worker'[w] = Idle

(* While a lease has not run out, only the holder's own step ends it or hands
   it on: neither the reaper, a second delivery nor the cancel endpoint takes a
   run from under a worker that is heartbeating. *)
LiveLeaseIsTheHolders == [][GivenUpByItsHolder]_vars

(* A success carries the result of the latest attempt: a stalled worker that
   wakes after its run was reaped and re-leased cannot record its own result
   (the fence in complete). *)
ResultOfLastAttempt ==
    \A r \in Runs : run[r].status = "succeeded" => run[r].result = run[r].attempt

(* Once cancel_run accepted a request the run is either still held or
   cancelled: no later complete, fail or reap turns it into a success, a
   failure or another attempt. *)
CancelIsHonoured ==
    \A r \in Runs : run[r].cancel_requested => run[r].status \in {"leased", "cancelled"}

(* A pending run has an attempt left, so that acquire can take it: fail and
   reap_expired never send an exhausted run back to the queue, where no
   statement would ever pick it up again. *)
PendingIsRunnable ==
    \A r \in Runs : run[r].status = "pending"
                       => run[r].attempt < MaxAttempts /\ ~run[r].cancel_requested

(* The worker loop, the reaper and the cancel endpoint together implement the
   promised life of a run. *)
Lifecycle == INSTANCE RunLifecycle WITH
    status <- [r \in Runs |-> run[r].status],
    attempt <- [r \in Runs |-> run[r].attempt],
    cancel <- [r \in Runs |-> run[r].cancel_requested],
    result <- [r \in Runs |-> run[r].result]

ImplementsLifecycle == Lifecycle!Spec

(* Every admitted run ends, whatever workers crash or stall on the way: the
   lease of a dead holder runs out, is reaped, and attempts are bounded. *)
RunsFinish == \A r \in Runs : run[r].status = "pending" ~> run[r].status \in Terminal

(* An accepted cancellation ends in "cancelled", also when it arrives between
   the last cancellation_point and complete (complete is rejected and the
   reaper closes the run). *)
CancelFinishes == \A r \in Runs : run[r].cancel_requested ~> run[r].status = "cancelled"
=============================================================================

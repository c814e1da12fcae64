------------------------------ MODULE RunStore ------------------------------
(***************************************************************************)
(* The durable run row: table `run` in Postgres and every statement that   *)
(* writes it (platform_core/correctness/leases.py, outbox.py,              *)
(* api/routes/runs.py, apps/worker/tasks.py).                              *)
(*                                                                         *)
(* Each write is one SQL statement, so it is one atomic step: a guard (the *)
(* WHERE clause) and a new row (the SET clause).  The modules that hold    *)
(* the table as a variable build their actions from these operators.       *)
(*                                                                         *)
(* Time is abstracted to the comparisons the statements make:              *)
(*   lease_live   lease_expires_at has not passed                          *)
(*   due          available_at <= now()                                    *)
(*   enqueued     last_enqueued_at: "null"; "before" available_at; at or   *)
(*                after available_at and younger ("fresh") or older        *)
(*                ("aged") than LOST_POINTER_AFTER.                        *)
(* `result` keeps only which attempt's result the row holds (0: none).     *)
(*                                                                         *)
(* Beside some operators stands a variant that no specification uses, with *)
(* a bug such a statement invites (...Unfenced, ...IgnoringCancel): it is  *)
(* there to be substituted, to see that the properties notice.             *)
(***************************************************************************)
EXTENDS Naturals

CONSTANTS Runs,         \* run ids
          Workers,      \* worker processes
          NoWorker,     \* leased_by IS NULL
          MaxAttempts   \* max_attempts, given to enqueue_run at admission

\* A worker id names a process incarnation: worker_id() puts a fresh uuid in it.
WorkerIds == Workers \X Nat

ASSUME RunStoreAssumption ==
    /\ MaxAttempts \in Nat \ {0}
    /\ NoWorker \notin WorkerIds

Terminal == {"succeeded", "failed", "cancelled"}

\* "absent": no row yet.
Statuses == {"absent", "pending", "leased"} \cup Terminal

Row == [status : Statuses,
        attempt : 0..MaxAttempts,
        leased_by : WorkerIds \cup {NoWorker},
        lease_live : BOOLEAN,
        cancel_requested : BOOLEAN,
        due : BOOLEAN,
        enqueued : {"null", "before", "fresh", "aged"},
        result : 0..MaxAttempts]

AbsentRow == [status |-> "absent", attempt |-> 0, leased_by |-> NoWorker,
              lease_live |-> FALSE, cancel_requested |-> FALSE, due |-> FALSE,
              enqueued |-> "null", result |-> 0]

-----------------------------------------------------------------------------
(* Admission: the INSERT of enqueue_run.  available_at defaults to now().  *)
AdmitRow == [AbsentRow EXCEPT !.status = "pending", !.due = TRUE]

(* acquire, acquire_specific: the run may be leased.                       *)
AvailableTrustingTheMessage(row) ==
    /\ row.status \in {"pending", "leased"}
    /\ row.due
    /\ ~row.cancel_requested
    /\ row.attempt < MaxAttempts

Available(row) ==
    /\ row.status = "pending"
    /\ row.due
    /\ ~row.cancel_requested
    /\ row.attempt < MaxAttempts

LeaseRowNotCounting(row, wid) ==
    [row EXCEPT !.status = "leased", !.leased_by = wid, !.lease_live = TRUE]

LeaseRow(row, wid) ==
    [row EXCEPT !.status = "leased", !.leased_by = wid, !.lease_live = TRUE,
                !.attempt = row.attempt + 1]

(* The fence every write of a lease holder carries.                        *)
HeldByUnfenced(row, wid) == row.status = "leased"

HeldBy(row, wid) == row.status = "leased" /\ row.leased_by = wid

(* heartbeat: TRUE means the lease was extended.  The statement does not   *)
(* look at lease_expires_at, so a lease that has run out but was not       *)
(* reaped yet is revived.                                                  *)
HeartbeatHolds(row, wid) == HeldBy(row, wid) /\ ~row.cancel_requested

HeartbeatRow(row) == [row EXCEPT !.lease_live = TRUE]

(* complete: succeeded, with the result of the attempt that reports it.    *)
CompleteHoldsIgnoringCancel(row, wid) == HeldBy(row, wid)

CompleteHolds(row, wid) == HeldBy(row, wid) /\ ~row.cancel_requested

CompleteRow(row, attempt) ==
    [row EXCEPT !.status = "succeeded", !.result = attempt,
                !.leased_by = NoWorker, !.lease_live = FALSE]

\* What a retry does to the times: available_at moves past now(), hence past
\* every earlier last_enqueued_at.
DelayedRow(row) ==
    [row EXCEPT !.status = "pending", !.due = FALSE,
                !.enqueued = IF row.enqueued = "null" THEN "null" ELSE "before",
                !.leased_by = NoWorker, !.lease_live = FALSE]

ClosedRow(row, status) ==
    [row EXCEPT !.status = status, !.leased_by = NoWorker, !.lease_live = FALSE]

(* fail: terminal is computed by the caller from its own LeasedRun.        *)
FailTerminalOffByOne(attempt, retryable) == ~retryable \/ attempt > MaxAttempts

FailTerminal(attempt, retryable) == ~retryable \/ attempt >= MaxAttempts

FailRowForgettingCancel(row, terminal) ==
    IF terminal THEN ClosedRow(row, "failed") ELSE DelayedRow(row)

FailRow(row, terminal) ==
    CASE row.cancel_requested -> ClosedRow(row, "cancelled")
      [] ~row.cancel_requested /\ terminal -> ClosedRow(row, "failed")
      [] OTHER -> DelayedRow(row)

(* acknowledge_cancellation.                                               *)
AckCancelHolds(row, wid) == HeldBy(row, wid) /\ row.cancel_requested

AckCancelRow(row) == ClosedRow(row, "cancelled")

(* reap_expired, per row: only a lease that has run out is touched.        *)
Reapable(row) == row.status = "leased" /\ ~row.lease_live

ReapRowForgettingCancel(row) ==
    IF row.attempt >= MaxAttempts THEN ClosedRow(row, "failed") ELSE DelayedRow(row)

ReapRow(row) ==
    CASE row.cancel_requested -> ClosedRow(row, "cancelled")
      [] ~row.cancel_requested /\ row.attempt >= MaxAttempts ->
            ClosedRow(row, "failed")
      [] OTHER -> DelayedRow(row)

(* cancel_run: pending work ends at once, leased work gets a request.      *)
Cancellable(row) == row.status \in {"pending", "leased", "cancelled"}

CancelRow(row) ==
    [row EXCEPT !.cancel_requested = TRUE,
                !.status = IF row.status = "pending" THEN "cancelled"
                                                     ELSE row.status]

(* cancellation_point: what a worker that reads the row raises on.         *)
CancelSeen(row) == row.status = "cancelled" \/ row.cancel_requested

-----------------------------------------------------------------------------
(* Time passing over one row.                                              *)
LeaseRunsOut(row) == row.status = "leased" /\ row.lease_live
LeaseRunsOutRow(row) == [row EXCEPT !.lease_live = FALSE]

BecomesDue(row) == row.status = "pending" /\ ~row.due
BecomesDueRow(row) == [row EXCEPT !.due = TRUE]
=============================================================================

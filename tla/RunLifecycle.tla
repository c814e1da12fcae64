---------------------------- MODULE RunLifecycle ----------------------------
(***************************************************************************)
(* What the platform promises about a run, whatever happens to workers,    *)
(* broker and clock: it is admitted once, started at most MaxAttempts      *)
(* times, goes back to pending only while an attempt is left, ends in      *)
(* exactly one outcome, never succeeds once its cancellation was accepted, *)
(* and a success carries the result of the attempt that was running.       *)
(* The detailed specifications are shown to implement this one.            *)
(***************************************************************************)
EXTENDS Naturals

CONSTANTS Runs, MaxAttempts

VARIABLES status,     \* status of each run; "absent" before admission
          attempt,    \* attempts started
          cancel,     \* a cancellation was accepted
          result      \* the attempt whose result is recorded, 0 for none

vars == <<status, attempt, cancel, result>>

Outcomes == {"succeeded", "failed", "cancelled"}

(* The abstract state is well-formed. *)
TypeOK ==
    /\ status \in [Runs -> {"absent", "pending", "leased"} \cup Outcomes]
    /\ attempt \in [Runs -> 0..MaxAttempts]
    /\ cancel \in [Runs -> BOOLEAN]
    /\ result \in [Runs -> 0..MaxAttempts]

Init ==
    /\ status = [r \in Runs |-> "absent"]
    /\ attempt = [r \in Runs |-> 0]
    /\ cancel = [r \in Runs |-> FALSE]
    /\ result = [r \in Runs |-> 0]

\* The steps of one run, and the run that a step leaves alone.
Admit(r) ==
    /\ status[r] = "absent" /\ status'[r] = "pending"
    /\ UNCHANGED <<attempt[r], cancel[r], result[r]>>

Start(r) ==
    /\ status[r] = "pending" /\ status'[r] = "leased"
    /\ attempt[r] < MaxAttempts /\ attempt'[r] = attempt[r] + 1
    /\ UNCHANGED <<cancel[r], result[r]>>

Retry(r) ==
    /\ status[r] = "leased" /\ status'[r] = "pending"
    /\ ~cancel[r]
    /\ attempt[r] < MaxAttempts
    /\ UNCHANGED <<attempt[r], cancel[r], result[r]>>

Succeed(r) ==
    /\ status[r] = "leased" /\ status'[r] = "succeeded"
    /\ ~cancel[r]
    /\ result'[r] = attempt[r]
    /\ UNCHANGED <<attempt[r], cancel[r]>>

Fail(r) ==
    /\ status[r] = "leased" /\ status'[r] = "failed"
    /\ ~cancel[r]
    /\ UNCHANGED <<attempt[r], cancel[r], result[r]>>

AcceptCancel(r) ==
    /\ status[r] \in {"pending", "leased"}
    /\ status'[r] = IF status[r] = "pending" THEN "cancelled" ELSE status[r]
    /\ cancel'[r] = TRUE
    /\ UNCHANGED <<attempt[r], result[r]>>

FinishCancel(r) ==
    /\ status[r] = "leased" /\ status'[r] = "cancelled"
    /\ cancel[r]
    /\ UNCHANGED <<attempt[r], cancel[r], result[r]>>

Rests(r) == UNCHANGED <<status[r], attempt[r], cancel[r], result[r]>>

\* Runs are independent of each other, and one statement may move several:
\* reap_expired takes back every lease that has run out.
Next ==
    /\ TypeOK'
    /\ \A r \in Runs : \/ Admit(r) \/ Start(r) \/ Retry(r) \/ Succeed(r)
                      \/ Fail(r) \/ AcceptCancel(r) \/ FinishCancel(r)
                      \/ Rests(r)

Spec == Init /\ [][Next]_vars
=============================================================================

---------------------------- MODULE EffectClaims ----------------------------
(***************************************************************************)
(* Side effects performed once per (run, step): perform_once               *)
(* (correctness/side_effects.py) called by a handler that executes its     *)
(* plan of steps (workloads/echo), under the run lease of RunStore.        *)
(*                                                                         *)
(* A run lease and a step claim are two grips of one process with separate *)
(* deadlines.  An attempt whose lease was reaped may still be alive: it    *)
(* goes on claiming, performing and recording steps beside the attempt     *)
(* that replaced it, because perform_once never looks at the lease.        *)
(* What surrounds the handler (heartbeat, checkpoints, the two outer       *)
(* cancellation points) is RunWorkers' subject and is one step here.       *)
(* claimed_by, attempt and result of a claim and the error of a run are    *)
(* only reported: left out.                                                *)
(***************************************************************************)
EXTENDS RunStore, Sequences

CONSTANTS NoRun,          \* the worker has no run in hand
          Plan,           \* the handler's steps, in order
          Reconciled      \* those declared NEEDS_RECONCILIATION; the others
                          \* are SAFE_TO_REPEAT

Steps == {Plan[i] : i \in DOMAIN Plan}

ASSUME EffectClaimsAssumption ==
    /\ NoRun \notin Runs
    /\ Plan \in Seq(Steps)
    /\ Reconciled \subseteq Steps

VARIABLES run,       \* table run
          claim,     \* table side_effect: [Runs -> [Steps -> ...]]
          worker,    \* each process: LeasedRun, place in the plan
          landed,    \* the far end: how often each effect has been applied
          unclear,   \* history: steps whose effect was applied although it raised
          outlived   \* history: runs reaped from a process that was still alive

vars == <<run, claim, worker, landed, unclear, outlived>>

\* Places inside perform_once; "next": before its first cancellation_point;
\* "inserting": the SELECT found no row.
\* "failing": the except branch, before its UPDATE.  "closing": back in
\* _execute_leased_body with an exception.
Phases == {"idle", "next", "claiming", "inserting", "claimed", "performing", "landed",
           "failing", "closing"}

Exceptions == {"RunCancelled", "NeedsReconciliation", "EffectAlreadyRunning",
               "TransientError", "Exception"}

\* A row of side_effect ("none": no row), and a process with its LeasedRun.
ClaimRow == [status : {"none", "started", "completed", "failed"}, live : BOOLEAN]

Process == [phase : Phases, run : Runs \cup {NoRun}, attempt : 0..MaxAttempts,
            pos : 1..Len(Plan) + 1, exc : Exceptions \cup {"none"}]

(* Rows, claims and workers keep to their shapes. *)
TypeOK ==
    /\ run \in [Runs -> Row]
    /\ claim \in [Runs -> [Steps -> ClaimRow]]
    /\ worker \in [Workers -> Process]
    /\ landed \in [Runs -> [Steps -> Nat]]
    /\ unclear \in [Runs -> SUBSET Steps]
    /\ outlived \subseteq Runs

Idle == [phase |-> "idle", run |-> NoRun, attempt |-> 0, pos |-> 1, exc |-> "none"]
NoClaim == [status |-> "none", live |-> FALSE]

Init ==
    /\ run = [r \in Runs |-> AbsentRow]
    /\ claim = [r \in Runs |-> [s \in Steps |-> NoClaim]]
    /\ worker = [w \in Workers |-> Idle]
    /\ landed = [r \in Runs |-> [s \in Steps |-> 0]]
    /\ unclear = [r \in Runs |-> {}]
    /\ outlived = {}

\* One incarnation takes a run at most once per attempt.
Wid(w) == <<w, worker[w].attempt>>

\* The step w is at, in a phase between "next" and "failing".
At(w) == Plan[worker[w].pos]

effects == <<claim, landed, unclear, outlived>>

-----------------------------------------------------------------------------
(* The API and the run lease.                                              *)
Enqueue(r) ==
    /\ run[r].status = "absent"
    /\ run' = [run EXCEPT ![r] = AdmitRow]
    /\ UNCHANGED <<worker, effects>>

Cancel(r) ==
    /\ Cancellable(run[r])
    /\ run' = [run EXCEPT ![r] = CancelRow(run[r])]
    /\ UNCHANGED <<worker, effects>>

Acquire(w, r) ==
    /\ worker[w].phase = "idle"
    /\ Available(run[r])
    /\ LET row == LeaseRow(run[r], <<w, run[r].attempt + 1>>) IN
       /\ run' = [run EXCEPT ![r] = row]
       /\ worker' = [worker EXCEPT ![w] = [Idle EXCEPT !.phase = "next", !.run = r,
                                                       !.attempt = row.attempt]]
    /\ UNCHANGED effects

Heartbeat(w) ==
    /\ worker[w].phase # "idle"
    /\ HeartbeatHolds(run[worker[w].run], Wid(w))
    /\ run' = [run EXCEPT ![worker[w].run] = HeartbeatRow(@)]
    /\ UNCHANGED <<worker, effects>>

Expire(r) ==
    /\ LeaseRunsOut(run[r])
    /\ run' = [run EXCEPT ![r] = LeaseRunsOutRow(run[r])]
    /\ UNCHANGED <<worker, effects>>

Due(r) ==
    /\ BecomesDue(run[r])
    /\ run' = [run EXCEPT ![r] = BecomesDueRow(run[r])]
    /\ UNCHANGED <<worker, effects>>

\* reap_expired releases the step claims of the runs it reaps, in the same
\* transaction.
ReleasedClaimsNone(c) == c

ReleasedClaims(c) ==
    [s \in Steps |-> IF c[s].status = "started" THEN [c[s] EXCEPT !.live = FALSE] ELSE c[s]]

Reap(r) ==
    /\ Reapable(run[r])
    /\ run' = [run EXCEPT ![r] = ReapRow(run[r])]
    /\ claim' = [claim EXCEPT ![r] = ReleasedClaims(claim[r])]
    /\ outlived' = IF \E w \in Workers : worker[w].run = r /\ HeldBy(run[r], Wid(w))
                   THEN outlived \cup {r} ELSE outlived
    /\ UNCHANGED <<worker, landed, unclear>>

-----------------------------------------------------------------------------
(* perform_once.                                                           *)
Raise(w, phase, exc) ==
    worker' = [worker EXCEPT ![w].phase = phase, ![w].exc = exc]

\* The cancellation_point before the claim.
BeforeClaim(w) ==
    /\ worker[w].phase = "next" /\ worker[w].pos <= Len(Plan)
    /\ IF CancelSeen(run[worker[w].run])
       THEN Raise(w, "closing", "RunCancelled")
       ELSE worker' = [worker EXCEPT ![w].phase = "claiming"]
    /\ UNCHANGED <<run, effects>>

\* What the claim transaction decides from the row it locked.
DecideIgnoringPolicy(c, s) ==
    CASE c.status = "none" -> "insert"
      [] c.status = "completed" -> "stored"
      [] c.status = "started" /\ c.live -> "EffectAlreadyRunning"
      [] OTHER -> "claim"

DecideTrustingFailure(c, s) ==
    CASE c.status = "none" -> "insert"
      [] c.status \in {"completed", "failed"} -> "stored"
      [] c.status = "started" /\ c.live -> "EffectAlreadyRunning"
      [] c.status = "started" /\ ~c.live /\ s \in Reconciled -> "NeedsReconciliation"
      [] OTHER -> "claim"

Decide(c, s) ==
    CASE c.status = "none" -> "insert"
      [] c.status = "completed" -> "stored"
      [] c.status = "started" /\ c.live -> "EffectAlreadyRunning"
      [] c.status = "started" /\ ~c.live /\ s \in Reconciled -> "NeedsReconciliation"
      [] OTHER -> "claim"

Started == [status |-> "started", live |-> TRUE]

\* Nothing is locked when there is no row: the INSERT is a step of its own.
FindNoRow(w) ==
    /\ worker[w].phase = "claiming"
    /\ Decide(claim[worker[w].run][At(w)], At(w)) = "insert"
    /\ worker' = [worker EXCEPT ![w].phase = "inserting"]
    /\ UNCHANGED <<run, effects>>

\* The step is this attempt's to perform: its INSERT succeeds, or it takes over
\* an abandoned claim that may be repeated, or a failed one.
Claim(w) ==
    LET r == worker[w].run  s == At(w) IN
    /\ \/ worker[w].phase = "inserting" /\ claim[r][s].status = "none"
       \/ worker[w].phase = "claiming" /\ Decide(claim[r][s], s) = "claim"
    /\ claim' = [claim EXCEPT ![r][s] = Started]
    /\ worker' = [worker EXCEPT ![w].phase = "claimed"]
    /\ UNCHANGED <<run, landed, unclear, outlived>>

\* Completed before: the stored result is returned.
Stored(w) ==
    /\ worker[w].phase = "claiming"
    /\ Decide(claim[worker[w].run][At(w)], At(w)) = "stored"
    /\ worker' = [worker EXCEPT ![w].phase = "next", ![w].pos = @ + 1]
    /\ UNCHANGED <<run, effects>>

ClaimRefused(w) ==
    LET decision == Decide(claim[worker[w].run][At(w)], At(w)) IN
    /\ worker[w].phase = "claiming"
    /\ decision \in {"EffectAlreadyRunning", "NeedsReconciliation"}
    /\ Raise(w, "closing", decision)
    /\ UNCHANGED <<run, effects>>

\* Another attempt's row came first: the unique constraint refuses the INSERT.
InsertConflict(w) ==
    /\ worker[w].phase = "inserting"
    /\ claim[worker[w].run][At(w)].status # "none"
    /\ Raise(w, "closing", "EffectAlreadyRunning")
    /\ UNCHANGED <<run, effects>>

\* The cancellation_point after the claim is inside the try.
AfterClaim(w) ==
    /\ worker[w].phase = "claimed"
    /\ IF CancelSeen(run[worker[w].run])
       THEN Raise(w, "failing", "RunCancelled")
       ELSE worker' = [worker EXCEPT ![w].phase = "performing"]
    /\ UNCHANGED <<run, effects>>

Land(w) == landed' = [landed EXCEPT ![worker[w].run][At(w)] = @ + 1]

EffectReturns(w) ==
    /\ worker[w].phase = "performing"
    /\ Land(w)
    /\ worker' = [worker EXCEPT ![w].phase = "landed"]
    /\ UNCHANGED <<run, claim, unclear, outlived>>

\* An error says nothing about the far end: a timeout may follow the effect.
EffectRaises(w, exc) ==
    /\ worker[w].phase = "performing"
    /\ \/ UNCHANGED <<landed, unclear>>
       \/ /\ Land(w)
          /\ unclear' = [unclear EXCEPT ![worker[w].run] = @ \cup {At(w)}]
    /\ Raise(w, "failing", exc)
    /\ UNCHANGED <<run, claim, outlived>>

\* The closing UPDATEs name only run and step: whoever comes last is right.
\* live |-> FALSE is claim_expires_at = NULL.
RecordCompleted(w) ==
    LET r == worker[w].run  s == At(w) IN
    /\ worker[w].phase = "landed"
    /\ claim' = [claim EXCEPT ![r][s] = [status |-> "completed", live |-> FALSE]]
    /\ worker' = [worker EXCEPT ![w].phase = "next", ![w].pos = @ + 1]
    /\ UNCHANGED <<run, landed, unclear, outlived>>

RecordFailed(w) ==
    LET r == worker[w].run  s == At(w) IN
    /\ worker[w].phase = "failing"
    /\ claim' = [claim EXCEPT ![r][s] = [status |-> "failed", live |-> FALSE]]
    /\ Raise(w, "closing", worker[w].exc)
    /\ UNCHANGED <<run, landed, unclear, outlived>>

\* Postgres refuses the UPDATE: the claim stays as it is, and its error is not
\* a TransientError.
RecordRaises(w) ==
    /\ worker[w].phase \in {"landed", "failing"}
    /\ Raise(w, "closing", "Exception")
    /\ UNCHANGED <<run, effects>>

ClaimRunsOut(r, s) ==
    /\ claim[r][s].live
    /\ claim' = [claim EXCEPT ![r][s].live = FALSE]
    /\ UNCHANGED <<run, worker, landed, unclear, outlived>>

-----------------------------------------------------------------------------
(* Around the handler: the except branches of _execute_leased_body, the    *)
(* return of the handler, and the end of the process.                      *)
Closed(row, wid, attempt, exc) ==
    CASE exc = "RunCancelled" ->
            IF AckCancelHolds(row, wid) THEN AckCancelRow(row) ELSE row
      [] exc # "RunCancelled" ->
            IF HeldBy(row, wid)
            THEN FailRow(row, FailTerminal(attempt, exc = "TransientError")) ELSE row

CloseRun(w) ==
    LET r == worker[w].run IN
    /\ worker[w].phase = "closing"
    /\ run' = [run EXCEPT ![r] = Closed(run[r], Wid(w), worker[w].attempt, worker[w].exc)]
    /\ worker' = [worker EXCEPT ![w] = Idle]
    /\ UNCHANGED effects

HandlerReturns(w) ==
    LET r == worker[w].run IN
    /\ worker[w].phase = "next" /\ worker[w].pos > Len(Plan)
    /\ run' = [run EXCEPT ![r] =
                 CASE AckCancelHolds(@, Wid(w)) -> AckCancelRow(@)
                   [] CompleteHolds(@, Wid(w)) -> CompleteRow(@, worker[w].attempt)
                   [] OTHER -> @]
    /\ worker' = [worker EXCEPT ![w] = Idle]
    /\ UNCHANGED effects

\* The effect in flight may or may not have landed.
Crash(w) ==
    /\ worker[w].phase # "idle"
    /\ \/ UNCHANGED landed
       \/ worker[w].phase = "performing" /\ Land(w)
    /\ worker' = [worker EXCEPT ![w] = Idle]
    /\ UNCHANGED <<run, claim, unclear, outlived>>

-----------------------------------------------------------------------------
PerformOnce(w) ==
    \/ BeforeClaim(w) \/ FindNoRow(w) \/ Claim(w) \/ InsertConflict(w)
    \/ Stored(w) \/ ClaimRefused(w)
    \/ AfterClaim(w) \/ EffectReturns(w)
    \/ RecordCompleted(w) \/ RecordFailed(w)

Next ==
    \/ \E r \in Runs : \/ Enqueue(r) \/ Cancel(r) \/ Expire(r) \/ Due(r) \/ Reap(r)
                       \/ \E s \in Steps : ClaimRunsOut(r, s)
    \/ \E w \in Workers : \/ \E r \in Runs : Acquire(w, r)
                          \/ Heartbeat(w) \/ PerformOnce(w)
                          \/ \E exc \in {"TransientError", "Exception"} : EffectRaises(w, exc)
                          \/ RecordRaises(w)
                          \/ CloseRun(w) \/ HandlerReturns(w) \/ Crash(w)

Spec == Init /\ [][Next]_vars

-----------------------------------------------------------------------------
\* Attempts that hold the claim and have not been seen to end the effect.
Executing(r, s) ==
    {w \in Workers : worker[w].run = r /\ worker[w].phase \in {"claimed", "performing"}
                       /\ At(w) = s}

(* An effect declared NEEDS_RECONCILIATION is applied at most once, and never
   while another attempt may still apply it: over crashes in the window between
   effect and record, reaped attempts that live on, lapsed claims and retries.
   Only an effect that raised after it was applied escapes the policy, for a
   failed step is claimed again whatever its policy (perform_once). *)
ReconciledOnce ==
    \A r \in Runs : \A s \in Reconciled \ unclear[r] :
        /\ landed[r][s] <= 1
        /\ landed[r][s] = 1 => Executing(r, s) = {}
        /\ \A v, w \in Executing(r, s) : v = w

(* A run that succeeded has had every effect of its plan applied, although
   some attempts only read what earlier ones had stored. *)
SuccessIsComplete ==
    \A r \in Runs, s \in Steps : run[r].status = "succeeded" => landed[r][s] >= 1

(* No attempt is turned away by the claim of a dead one: the reaper releases a
   run's step claims together with its lease, however long the claims had to go
   (reap_expired).  EffectAlreadyRunning, which fails the run, is met only
   beside an attempt that was alive when its lease was taken from it. *)
NoDeadClaimInTheWay ==
    \A w \in Workers : worker[w].exc = "EffectAlreadyRunning" => worker[w].run \in outlived
=============================================================================

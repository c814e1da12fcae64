------------------------------ MODULE EvalGate ------------------------------
(***************************************************************************)
(* Evaluation of one golden set and its promotion gate: runs are asked for *)
(* or fall due, are pinned to the version that was the latest, score it,   *)
(* and one of them is the baseline that the next are compared with         *)
(* (gates/runner.py, gates/judge.py, gates/promotion.py,                   *)
(* workloads/eval/workload.py, api/routes/eval.py,                         *)
(* governance/continuous_eval.py and migrations 0010 and 0023).            *)
(*                                                                         *)
(* promote loads the run, reads the baseline, and moves it in a later      *)
(* transaction; promotions overlap each other and the runs they promote.   *)
(* Of the golden set (GoldenSet) only the number of the latest version is  *)
(* kept here, and its labels are whatever they are when a run reads them;  *)
(* scores are small integers.                                              *)
(***************************************************************************)
EXTENDS Integers, FiniteSets, TLC

CONSTANTS Cited,        \* items with evidence, which score recall
          Uncited,      \* items without
          Runs,         \* deliveries of eval runs, each with its row in eval_run
          Promoters,    \* promotions in progress at once
          Scores,       \* recall and pass rate
          Tolerance,    \* how far either may fall
          Intervals,    \* interval_seconds of the policy, in ticks
          MaxVersion,   \* bound: versions of the golden set
          NoRun, NoScore

ASSUME EvalGateAssumption ==
    /\ IsFiniteSet(Cited) /\ Cited \cap Uncited = {} /\ NoRun \notin Runs
    /\ Scores \subseteq Nat /\ Tolerance \in Nat /\ NoScore \notin Nat
    /\ Intervals \subseteq Nat \ {0} /\ MaxVersion \in Nat

VARIABLES latest,     \* the newest version of the golden set, 0 when there is none
          evals,      \* table eval_run, and the runs that wait to begin one
          baseline,   \* table eval_baseline: the run, and whether it was forced
          promoting,  \* each promotion between its reads and its write
          interval,   \* table continuous_eval_policy: interval_seconds
          wait        \* ... and next_run_at, as the ticks that are left

vars == <<latest, evals, baseline, promoting, interval, wait>>
policy == <<interval, wait>>

Items == Cited \cup Uncited

NoRow == [status |-> "none", version |-> 0, recall |-> NoScore, pass |-> NoScore,
          scoreable |-> 0]
NoBaseline == [run |-> NoRun, forced |-> FALSE]
Idle == [run |-> NoRun, against |-> NoBaseline, force |-> FALSE]

EvalRow == [status : {"none", "queued", "running", "completed"},
            version : 0..MaxVersion,
            recall : Scores \cup {NoScore}, pass : Scores \cup {NoScore},
            scoreable : 0..Cardinality(Cited)]
Baseline == [run : Runs \cup {NoRun}, forced : BOOLEAN]

(* Rows, the baseline, promotions and the policy keep to their shapes. *)
TypeOK ==
    /\ latest \in 0..MaxVersion
    /\ evals \in [Runs -> EvalRow]
    /\ baseline \in Baseline
    /\ promoting \in [Promoters -> [run : Runs \cup {NoRun}, against : Baseline, force : BOOLEAN]]
    /\ interval \in Intervals /\ wait \in 0..interval

Init ==
    /\ latest = 0
    /\ evals = [r \in Runs |-> NoRow]
    /\ baseline = NoBaseline
    /\ promoting = [p \in Promoters |-> Idle]
    /\ interval \in Intervals /\ wait = 0

-----------------------------------------------------------------------------
(* Runs.                                                                   *)
\* The golden set gets a new version, as GoldenSet's editors save it.
NewVersion ==
    /\ latest < MaxVersion
    /\ latest' = latest + 1
    /\ UNCHANGED <<evals, baseline, promoting, policy>>

\* A new row, and a new promotion, take the next identifier: they are alike.
NextRun == LET free == {r \in Runs : evals[r].status = "none"}
           IN  IF free = {} THEN NoRun ELSE CHOOSE r \in free : TRUE
NextPromoter == CHOOSE p \in Promoters : promoting[p] = Idle

Queued(v) == [NoRow EXCEPT !.status = "queued", !.version = v]

\* start_run pins the version it resolved: the latest, or the one asked for.  A run
\* that is delivered again pins what it pinned before.  Version 0 is one of another
\* golden set: promote_run takes any run for any set.
StartRun(r, v) ==
    /\ r = NextRun /\ v \in 0..latest
    /\ evals' = [evals EXCEPT ![r] = Queued(v)]
    /\ UNCHANGED <<latest, baseline, promoting, policy>>

\* workload.run loads the pinned version and runner.run inserts its row.
RunBegins(r) ==
    /\ evals[r].status = "queued"
    /\ evals' = [evals EXCEPT ![r].status = "running"]
    /\ UNCHANGED <<latest, baseline, promoting, policy>>

\* No recall without a scoreable item: one that cites evidence, found or not.
RecallOf(usable, recall) == recall # NoScore <=> usable \cap Cited # {}

\* No pass rate when the judge graded none, be it for want of items or of
\* expected answers, or because it was unavailable for all of them.
PassRateOf(usable, pass) == pass # NoScore => usable # {}

\* The items that were labelled unusable when the run began are left out; each
\* aggregate has its own denominator.
RunCompletes(r, usable, recall, pass) ==
    /\ evals[r].status = "running"
    /\ RecallOf(usable, recall) /\ PassRateOf(usable, pass)
    /\ evals' = [evals EXCEPT ![r].status = "completed", ![r].recall = recall,
                              ![r].pass = pass, ![r].scoreable = Cardinality(usable \cap Cited)]
    /\ UNCHANGED <<latest, baseline, promoting, policy>>

-----------------------------------------------------------------------------
(* The gate.                                                               *)
NeverUnscored(row) == FALSE

\* No items, or none that could be scored; a row that is still running has no
\* aggregates yet.
Unscored(row) == row.recall = NoScore /\ row.pass = NoScore

\* A metric that is no longer measurable fell.
Fell(base, value) == base # NoScore /\ (value = NoScore \/ value - base < -Tolerance)

\* The reasons against a candidate, next to a baseline of the same version.
Worse(row, base) ==
    \/ row.scoreable < base.scoreable
    \/ Fell(base.recall, row.recall) \/ Fell(base.pass, row.pass)

WorseIfComparable(row, base) == row.version = base.version /\ Worse(row, base)

Incomparable(row, base) == row.version # base.version \/ Worse(row, base)

\* promotion.evaluate.
Clears(row, against) ==
    /\ ~Unscored(row)
    /\ against # NoRun => ~Incomparable(row, evals[against])

Running(v) == [Queued(v) EXCEPT !.status = "running"]

\* runner.load does not look at the status, and the run may have completed since.
Loaded(r) ==
    CASE evals[r].status = "running" -> {evals[r]}
      [] evals[r].status = "completed" -> {evals[r], Running(evals[r].version)}
      [] OTHER -> {}

\* promote_run: what was loaded is evaluated against the baseline that is read now.
\* A blocked promotion ends here.
PromoteReads(p, r, row, force) ==
    /\ promoting[p] = Idle /\ p = NextPromoter
    /\ Clears(row, baseline.run) \/ force
    /\ promoting' = [promoting EXCEPT ![p] =
                        [run |-> r, against |-> baseline,
                         force |-> ~Clears(row, baseline.run)]]
    /\ UNCHANGED <<latest, evals, baseline, policy>>

\* The upsert does not look at the baseline again.
PromoteWrites(p) ==
    /\ promoting[p] # Idle
    /\ baseline' = [run |-> promoting[p].run, forced |-> promoting[p].force]
    /\ promoting' = [promoting EXCEPT ![p] = Idle]
    /\ UNCHANGED <<latest, evals, policy>>

PromoteFails(p) ==
    /\ promoting[p] # Idle
    /\ promoting' = [promoting EXCEPT ![p] = Idle]
    /\ UNCHANGED <<latest, evals, baseline, policy>>

-----------------------------------------------------------------------------
(* Continuous evaluation.                                                  *)
Tick ==
    /\ wait > 0
    /\ wait' = wait - 1
    /\ UNCHANGED <<latest, evals, baseline, promoting, interval>>

\* platform_schedule_due_continuous_evals: one statement under the lock of the
\* policy row, keyed by the due time it read.  A policy without a set backs off.
\* Bound: runs beyond Runs are scheduled and not followed.
ScheduleDue ==
    /\ wait = 0
    /\ evals' = IF latest = 0 \/ NextRun = NoRun THEN evals
                ELSE [evals EXCEPT ![NextRun] = Queued(latest)]
    /\ wait' = interval
    /\ UNCHANGED <<latest, baseline, promoting, interval>>

NextDueRestarted(i) == i

\* LEAST(next_run_at, now() + interval).
NextDue(i) == IF wait < i THEN wait ELSE i

UpdatePolicy(i) ==
    /\ i # interval
    /\ interval' = i
    /\ wait' = NextDue(i)
    /\ UNCHANGED <<latest, evals, baseline, promoting>>

-----------------------------------------------------------------------------
Evaluates(r) ==
    \/ \E v \in 0..MaxVersion : StartRun(r, v)
    \/ RunBegins(r)
    \/ \E usable \in SUBSET Items, recall, pass \in Scores \cup {NoScore} :
            RunCompletes(r, usable, recall, pass)

Promotes(p) ==
    \/ \E r \in Runs, force \in BOOLEAN : \E row \in Loaded(r) : PromoteReads(p, r, row, force)
    \/ PromoteWrites(p) \/ PromoteFails(p)

Next ==
    \/ NewVersion
    \/ \E r \in Runs : Evaluates(r)
    \/ \E p \in Promoters : Promotes(p)
    \/ Tick \/ ScheduleDue \/ \E i \in Intervals : UpdatePolicy(i)

Spec == Init /\ [][Next]_vars

\* Fairness: time passes, and the beat runs the schedule (celery beat calls
\* schedule_due for ever).
FairSpec == Spec /\ WF_vars(Tick) /\ WF_vars(ScheduleDue)

-----------------------------------------------------------------------------
(* Nothing gets worse unnoticed: when an unforced promotion moves the baseline
   from the run it was compared with, which nobody forced either, the new one
   scored the same version, no fewer items, and no metric that was measured is
   lost or fell beyond the tolerance, whatever the runs and the other
   promotions did in between (promotion.evaluate and promote). *)
NoSilentRegression ==
    [][\A p \in Promoters :
         promoting[p] # Idle /\ baseline' # baseline /\ promoting'[p] = Idle
             /\ ~baseline'.forced /\ baseline'.run = promoting[p].run
             /\ promoting[p].against = baseline /\ baseline.run # NoRun
             /\ ~baseline.forced
         => LET new == evals[baseline'.run]
                old == evals[baseline.run]
            IN  /\ new.version = old.version /\ new.scoreable >= old.scoreable
                /\ old.recall # NoScore => new.recall \in Scores /\ new.recall + Tolerance >= old.recall
                /\ old.pass # NoScore => new.pass \in Scores /\ new.pass + Tolerance >= old.pass]_vars

(* What the next runs are compared with was measured: a baseline that nobody
   forced is a completed run with at least one score, whatever was still
   running when it was promoted (evaluate, runner.load and run). *)
BaselineIsScored ==
    baseline.run # NoRun /\ ~baseline.forced =>
        /\ evals[baseline.run].status = "completed"
        /\ evals[baseline.run].recall # NoScore \/ evals[baseline.run].pass # NoScore

(* Continuous evaluation is mandatory: however often its policy is changed, a
   golden set falls due again and again (schedule_due and update_policy). *)
EvaluationsRecur == []<>(wait = 0) /\ []<>(wait > 0)
=============================================================================

------------------------- MODULE EffectClaimsProofs -------------------------
(***************************************************************************)
(* Proofs about EffectClaims, for any runs, workers, plan and policies and *)
(* any number of attempts.                                                 *)
(*                                                                         *)
(* perform_once never looks at the lease, so each of its promises has an   *)
(* invariant of its own.  NEEDS_RECONCILIATION: while an attempt holds a   *)
(* step, its claim says "started" and nobody else holds it (OneHolder).    *)
(* Completeness: what a plan has passed has been applied (PassedIsApplied).*)
(* Liveness of the next attempt: a run that nobody was ever robbed of has  *)
(* one process at most, and a live claim is that process's own             *)
(* (AliveIsHolder, LiveClaimIsOwn).                                        *)
(***************************************************************************)
EXTENDS EffectClaims, RunStoreProofs

\* Phases in which a process is at a step of its plan, and those in which it
\* has the step's claim.
AtStep == {"claiming", "inserting", "claimed", "performing", "landed", "failing"}
Gripping == {"claimed", "performing", "landed", "failing"}

Holds(w, r, s) == worker[w].run = r /\ worker[w].phase \in Gripping /\ At(w) = s

\* A process works from a LeasedRun exactly when it is not idle, and is at a
\* step of the plan when it says so.
Engaged ==
    \A w \in Workers : /\ worker[w].phase = "idle" => worker[w].run = NoRun
                       /\ worker[w].run = NoRun => worker[w].phase = "idle"
                       /\ worker[w].phase \in AtStep => worker[w].pos \in 1..Len(Plan)

\* The attempt a process remembers was really started.
Remembered ==
    \A w \in Workers : worker[w].run # NoRun =>
        /\ run[worker[w].run].status # "absent"
        /\ worker[w].attempt \in 1..run[worker[w].run].attempt

\* The id in a lease names the attempt it was given for.
LeaseNamesAttempt ==
    \A r \in Runs : run[r].status = "leased" =>
        \E w \in Workers : run[r].leased_by = <<w, run[r].attempt>>

LeaseInv ==
    /\ \A r \in Runs : RowInv(run[r])
    /\ Engaged
    /\ Remembered
    /\ LeaseNamesAttempt

\* A step that must be reconciled has one holder, and its claim shows it.
OneHolder ==
    \A r \in Runs, s \in Reconciled :
        /\ \A v, w \in Workers : Holds(v, r, s) /\ Holds(w, r, s) => v = w
        /\ \A w \in Workers : Holds(w, r, s) => claim[r][s].status = "started"

\* Once its effect is known to be applied the claim never invites another
\* attempt, and only the one that applied it is still there.
AppliedIsClaimed ==
    \A r \in Runs : \A s \in Reconciled \ unclear[r] :
        /\ landed[r][s] <= 1
        /\ landed[r][s] = 1 =>
              /\ claim[r][s].status \in {"started", "completed"}
              /\ \A w \in Workers : Holds(w, r, s) => worker[w].phase = "landed"

ReconcileInv == OneHolder /\ AppliedIsClaimed

\* What is recorded as completed, returned, or passed, has been applied.
PassedIsApplied ==
    /\ \A r \in Runs, s \in Steps : claim[r][s].status = "completed" => landed[r][s] >= 1
    /\ \A w \in Workers : worker[w].phase = "landed" => landed[worker[w].run][At(w)] >= 1
    /\ \A w \in Workers : worker[w].run # NoRun =>
          \A i \in 1..Len(Plan) : i < worker[w].pos => landed[worker[w].run][Plan[i]] >= 1

\* While nobody was robbed of a run, whoever works on it holds its lease.
AliveIsHolder ==
    \A w \in Workers : worker[w].run # NoRun /\ worker[w].run \notin outlived
        => HeldBy(run[worker[w].run], Wid(w))

\* ... and a live claim belongs to the attempt that has the run or had it last.
LiveClaimIsOwn ==
    \A r \in Runs, s \in Steps :
        r \notin outlived /\ claim[r][s].status = "started" /\ claim[r][s].live =>
            /\ run[r].status \notin {"absent", "pending"}
            /\ \A w \in Workers : worker[w].run = r =>
                  \/ Holds(w, r, s)
                  \/ worker[w].phase = "closing" /\ worker[w].exc = "Exception"

\* ... and the row found missing is still missing at the INSERT.
MissingStaysMissing ==
    \A w \in Workers : worker[w].phase = "inserting" /\ worker[w].run \notin outlived
        => claim[worker[w].run][At(w)].status = "none"

AliveInv ==
    /\ AliveIsHolder
    /\ LiveClaimIsOwn
    /\ MissingStaysMissing

IInv ==
    /\ TypeOK
    /\ LeaseInv
    /\ ReconcileInv
    /\ PassedIsApplied
    /\ SuccessIsComplete
    /\ AliveInv
    /\ NoDeadClaimInTheWay

-----------------------------------------------------------------------------
(* The plan is a finite sequence of the steps. *)
LEMMA PlanFacts ==
    /\ Len(Plan) \in Nat
    /\ \A i \in 1..Len(Plan) : Plan[i] \in Steps
    /\ \A s \in Steps : \E i \in 1..Len(Plan) : s = Plan[i]
<1>1. Len(Plan) \in Nat /\ DOMAIN Plan = 1..Len(Plan)
  BY EffectClaimsAssumption
<1>. QED
  BY <1>1 DEF Steps

(* The process that has no run. *)
LEMMA IdleFacts ==
    /\ Idle \in Process
    /\ Idle.phase = "idle" /\ Idle.run = NoRun /\ Idle.attempt = 0 /\ Idle.pos = 1
    /\ Idle.exc = "none"
BY PlanFacts, RunStoreAssumption DEF Idle, Process, Phases

(* A process at a step of its plan is at a step of the module. *)
LEMMA AtFacts ==
    ASSUME TypeOK, Engaged, NEW w \in Workers
    PROVE  /\ worker[w] \in Process
           /\ worker[w].phase \in Phases
           /\ worker[w].pos \in 1..Len(Plan) + 1
           /\ worker[w].attempt \in 0..MaxAttempts
           /\ worker[w].exc \in Exceptions \cup {"none"}
           /\ worker[w].phase # "idle" => worker[w].run \in Runs /\ worker[w].run # NoRun
           /\ worker[w].run # NoRun => worker[w].run \in Runs
           /\ worker[w].phase \in AtStep => worker[w].pos \in 1..Len(Plan) /\ At(w) \in Steps
<1>1. worker[w] \in Process
  BY DEF TypeOK
<1>. QED
  BY <1>1, PlanFacts DEF Engaged, Process, At

-----------------------------------------------------------------------------
\* The process w moves: it keeps its LeasedRun and the others do nothing.
Moves(w, phase, pos, exc) ==
    /\ worker' \in [Workers -> Process]
    /\ \A v \in Workers : v # w => worker'[v] = worker[v]
    /\ worker'[w].run = worker[w].run
    /\ worker'[w].attempt = worker[w].attempt
    /\ worker'[w].phase = phase
    /\ worker'[w].pos = pos
    /\ worker'[w].exc = exc

\* The process w lets go of its run and the others do nothing.
Leaves(w) ==
    /\ worker' \in [Workers -> Process]
    /\ \A v \in Workers : v # w => worker'[v] = worker[v]
    /\ worker'[w] = Idle

(* What the assignments of the actions to a process amount to. *)
LEMMA MoveForms ==
    ASSUME TypeOK, NEW w \in Workers, NEW p \in Phases
    PROVE  /\ worker' = [worker EXCEPT ![w].phase = p]
                 => Moves(w, p, worker[w].pos, worker[w].exc)
           /\ \A e \in Exceptions \cup {"none"} :
                 Raise(w, p, e) => Moves(w, p, worker[w].pos, e)
           /\ worker[w].pos \in 1..Len(Plan) =>
                 (worker' = [worker EXCEPT ![w].phase = p, ![w].pos = @ + 1]
                    => Moves(w, p, worker[w].pos + 1, worker[w].exc))
           /\ worker' = [worker EXCEPT ![w] = Idle] => Leaves(w)
<1>1. worker \in [Workers -> Process] /\ worker[w] \in Process
  BY DEF TypeOK
<1>2. ASSUME worker' = [worker EXCEPT ![w].phase = p]
      PROVE  Moves(w, p, worker[w].pos, worker[w].exc)
  BY <1>1, <1>2 DEF Moves, Process
<1>3. ASSUME NEW e \in Exceptions \cup {"none"}, Raise(w, p, e)
      PROVE  Moves(w, p, worker[w].pos, e)
  BY <1>1, <1>3 DEF Moves, Raise, Process
<1>4. ASSUME worker' = [worker EXCEPT ![w].phase = p, ![w].pos = @ + 1],
             worker[w].pos \in 1..Len(Plan)
      PROVE  Moves(w, p, worker[w].pos + 1, worker[w].exc)
  <2>1. worker[w].pos + 1 \in 1..Len(Plan) + 1
    BY <1>4, PlanFacts
  <2>. QED
    BY <1>1, <1>4, <2>1 DEF Moves, Process
<1>5. ASSUME worker' = [worker EXCEPT ![w] = Idle] PROVE Leaves(w)
  BY <1>1, <1>5, IdleFacts DEF Leaves
<1>. QED
  BY <1>2, <1>3, <1>4, <1>5

-----------------------------------------------------------------------------
(* The lease.                                                              *)

\* A process keeps its LeasedRun or lets go of it.
KeepsOrLeaves(w) ==
    \/ worker'[w].run = worker[w].run /\ worker'[w].attempt = worker[w].attempt
    \/ worker'[w].run = NoRun

(* A step in which no run is leased keeps the lease invariant. *)
LEMMA QuietLease ==
    ASSUME TypeOK, LeaseInv, TypeOK', Engaged',
           \A r \in Runs : Settles(run[r], run'[r]),
           \A w \in Workers : KeepsOrLeaves(w)
    PROVE  LeaseInv'
<1>1. \A r \in Runs : RowInv(run[r])'
  BY DEF Settles, RowInv
<1>2. \A w \in Workers : worker'[w].run # NoRun =>
          /\ worker'[w].run = worker[w].run /\ worker'[w].run \in Runs
          /\ worker'[w].attempt = worker[w].attempt
  BY AtFacts DEF KeepsOrLeaves, LeaseInv
<1>3. Remembered'
  BY <1>2 DEF LeaseInv, Remembered, Settles
<1>4. LeaseNamesAttempt'
  BY DEF LeaseInv, LeaseNamesAttempt, Settles
<1>. QED
  BY <1>1, <1>3, <1>4 DEF LeaseInv

(* One row written, the others untouched: all of them settle. *)
LEMMA RowWrite ==
    ASSUME TypeOK, LeaseInv, NEW r \in Runs, NEW new, Settles(run[r], new),
           run' = [run EXCEPT ![r] = new]
    PROVE  /\ run' \in [Runs -> Row]
           /\ run'[r] = new /\ \A q \in Runs : q # r => run'[q] = run[q]
           /\ \A q \in Runs : Settles(run[q], run'[q])
<1>1. \A q \in Runs : Settles(run[q], run[q])
  BY BystandersSettle DEF LeaseInv, TypeOK
<1>2. new \in Row
  BY DEF Settles
<1>3. /\ run' \in [Runs -> Row]
      /\ run'[r] = new /\ \A q \in Runs : q # r => run'[q] = run[q]
  BY <1>2 DEF TypeOK
<1>. QED
  BY <1>1, <1>3

(* No row written: every row settles as it was. *)
LEMMA NoWrite ==
    ASSUME TypeOK, LeaseInv, run' = run
    PROVE  run' \in [Runs -> Row] /\ \A q \in Runs : Settles(run[q], run'[q])
BY BystandersSettle DEF LeaseInv, TypeOK

(* A process at work that moves on is still engaged, ... *)
LEMMA MovesEngaged ==
    ASSUME TypeOK, LeaseInv, NEW w \in Workers, NEW p, NEW q, NEW e, Moves(w, p, q, e),
           p # "idle", worker[w].phase # "idle",
           p \in AtStep => q \in 1..Len(Plan)
    PROVE  Engaged' /\ \A v \in Workers : KeepsOrLeaves(v)
<1>1. worker[w].run # NoRun
  BY AtFacts DEF LeaseInv
<1>2. \A v \in Workers : KeepsOrLeaves(v)
  BY DEF Moves, KeepsOrLeaves
<1>3. Engaged'
  BY <1>1 DEF LeaseInv, Engaged, Moves
<1>. QED
  BY <1>2, <1>3

(* ... and one that leaves is not. *)
LEMMA LeavesEngaged ==
    ASSUME TypeOK, LeaseInv, NEW w \in Workers, Leaves(w)
    PROVE  Engaged' /\ \A v \in Workers : KeepsOrLeaves(v)
<1>1. \A v \in Workers : KeepsOrLeaves(v)
  BY IdleFacts DEF Leaves, KeepsOrLeaves
<1>2. "idle" \notin AtStep
  BY DEF AtStep
<1>3. Engaged'
  BY <1>2, IdleFacts DEF LeaseInv, Engaged, Leaves
<1>. QED
  BY <1>1, <1>3

(* Whoever passes the fence holds the current attempt. *)
LEMMA FenceIsCurrent ==
    ASSUME TypeOK, LeaseInv, NEW w \in Workers, worker[w].phase # "idle"
    PROVE  /\ worker[w].run \in Runs
           /\ run[worker[w].run] \in Row /\ RowInv(run[worker[w].run])
           /\ worker[w].attempt \in 1..MaxAttempts
           /\ HeldBy(run[worker[w].run], Wid(w)) => worker[w].attempt = run[worker[w].run].attempt
<1>1. worker[w].run \in Runs /\ worker[w].run # NoRun
  BY AtFacts DEF LeaseInv
<1>2. run[worker[w].run].attempt \in 0..MaxAttempts /\ run[worker[w].run] \in Row
  BY <1>1 DEF TypeOK, Row
<1>3. worker[w].attempt \in 1..MaxAttempts
  BY <1>1, <1>2, RunStoreAssumption DEF LeaseInv, Remembered
<1>4. ASSUME HeldBy(run[worker[w].run], Wid(w))
      PROVE  worker[w].attempt = run[worker[w].run].attempt
  <2>1. PICK v \in Workers : run[worker[w].run].leased_by = <<v, run[worker[w].run].attempt>>
    BY <1>1, <1>4 DEF HeldBy, LeaseInv, LeaseNamesAttempt
  <2>. QED
    BY <1>4, <2>1 DEF HeldBy, Wid
<1>. QED
  BY <1>1, <1>2, <1>3, <1>4 DEF LeaseInv

-----------------------------------------------------------------------------
(* The steps that must be reconciled.                                      *)

\* Nobody takes hold of a step, nobody gets back before its effect, and no
\* claim changes its status.
QuietGrip ==
    /\ \A w \in Workers, r \in Runs, s \in Steps :
          Holds(w, r, s)' => /\ Holds(w, r, s)
                             /\ worker[w].phase = "landed" => worker'[w].phase = "landed"
    /\ \A r \in Runs, s \in Steps : claim'[r][s].status = claim[r][s].status
    /\ landed' = landed
    /\ \A r \in Runs : unclear[r] \subseteq unclear'[r]

(* Such a step keeps the promise of NEEDS_RECONCILIATION. *)
LEMMA QuietReconcile ==
    ASSUME ReconcileInv, QuietGrip
    PROVE  ReconcileInv'
<1>1. Reconciled \subseteq Steps
  BY EffectClaimsAssumption
<1>2. OneHolder'
  BY <1>1 DEF ReconcileInv, OneHolder, QuietGrip
<1>3. AppliedIsClaimed'
  BY <1>1 DEF ReconcileInv, AppliedIsClaimed, QuietGrip
<1>. QED
  BY <1>2, <1>3 DEF ReconcileInv

(* A process that moves is quiet when it comes out without a grip, or keeps the
   one it had and was not past its effect. *)
LEMMA MovesQuietly ==
    ASSUME NEW w \in Workers, NEW p, NEW q, NEW e, Moves(w, p, q, e),
           \/ p \notin Gripping
           \/ worker[w].phase \in Gripping \ {"landed"} /\ q = worker[w].pos,
           claim' = claim, landed' = landed, \A r \in Runs : unclear[r] \subseteq unclear'[r]
    PROVE  QuietGrip
<1>1. ASSUME NEW v \in Workers, NEW r \in Runs, NEW s \in Steps, Holds(v, r, s)'
      PROVE  Holds(v, r, s) /\ (worker[v].phase = "landed" => worker'[v].phase = "landed")
  <2>1. CASE v # w
    BY <1>1, <2>1 DEF Moves, Holds, At
  <2>2. CASE v = w
    BY <1>1, <2>2 DEF Moves, Holds, At
  <2>. QED
    BY <2>1, <2>2
<1>. QED
  BY <1>1 DEF QuietGrip

(* A process that leaves is quiet. *)
LEMMA LeavesQuietly ==
    ASSUME NEW w \in Workers, Leaves(w), claim' = claim, landed' = landed, unclear' = unclear
    PROVE  QuietGrip
<1>1. ASSUME NEW v \in Workers, NEW r \in Runs, NEW s \in Steps, Holds(v, r, s)'
      PROVE  Holds(v, r, s) /\ (worker[v].phase = "landed" => worker'[v].phase = "landed")
  <2>1. v # w
    BY <1>1, IdleFacts DEF Leaves, Holds, Gripping
  <2>. QED
    BY <1>1, <2>1 DEF Leaves, Holds, At
<1>. QED
  BY <1>1 DEF QuietGrip

-----------------------------------------------------------------------------
(* The effects of the plan.                                                *)

\* Effects are not taken back, and whatever claims that one was applied is
\* right: a claim, a process, its place in the plan, a run.
Justified ==
    /\ \A r \in Runs, s \in Steps : landed'[r][s] >= landed[r][s]
    /\ \A r \in Runs, s \in Steps : claim'[r][s].status = "completed" =>
          claim[r][s].status = "completed" \/ landed'[r][s] >= 1
    /\ \A w \in Workers : worker'[w].phase = "landed" =>
          \/ /\ worker[w].phase = "landed"
             /\ worker'[w].run = worker[w].run /\ worker'[w].pos = worker[w].pos
          \/ landed'[worker'[w].run][Plan[worker'[w].pos]] >= 1
    /\ \A w \in Workers : worker'[w].run # NoRun =>
          \/ worker'[w].pos = 1
          \/ worker'[w].run = worker[w].run /\ worker'[w].pos = worker[w].pos
          \/ /\ worker'[w].run = worker[w].run /\ worker'[w].pos = worker[w].pos + 1
             /\ landed'[worker[w].run][At(w)] >= 1
    /\ \A r \in Runs : run'[r].status = "succeeded" =>
          run[r].status = "succeeded" \/ \A s \in Steps : landed'[r][s] >= 1

(* A step that makes only justified claims keeps them justified. *)
LEMMA JustifiedStep ==
    ASSUME TypeOK, LeaseInv, TypeOK', PassedIsApplied, SuccessIsComplete, Justified
    PROVE  PassedIsApplied' /\ SuccessIsComplete'
<1>1. \A r \in Runs, s \in Steps : /\ landed[r][s] \in Nat /\ landed'[r][s] \in Nat
                                   /\ landed'[r][s] >= landed[r][s]
  BY DEF TypeOK, Justified
<1>2. SuccessIsComplete'
  BY <1>1 DEF SuccessIsComplete, Justified
<1>3. \A r \in Runs, s \in Steps : claim'[r][s].status = "completed" => landed'[r][s] >= 1
  BY <1>1 DEF PassedIsApplied, Justified
<1>4. ASSUME NEW w \in Workers, worker'[w].phase = "landed"
      PROVE  landed'[worker'[w].run][Plan[worker'[w].pos]] >= 1
  <2>1. CASE worker[w].phase = "landed" /\ worker'[w].run = worker[w].run
               /\ worker'[w].pos = worker[w].pos
    <3>1. worker[w].run \in Runs /\ At(w) \in Steps
      BY <2>1, AtFacts DEF LeaseInv, AtStep
    <3>. QED
      BY <1>1, <2>1, <3>1 DEF PassedIsApplied, At
  <2>. QED
    BY <1>4, <2>1 DEF Justified
<1>5. ASSUME NEW w \in Workers, worker'[w].run # NoRun,
             NEW i \in 1..Len(Plan), i < worker'[w].pos
      PROVE  landed'[worker'[w].run][Plan[i]] >= 1
  <2>1. worker[w].pos \in Nat /\ worker'[w].pos \in Nat /\ Plan[i] \in Steps
    BY PlanFacts DEF TypeOK, Process
  <2>2. worker'[w].pos # 1
    BY <1>5, <2>1
  <2>3. worker'[w].run = worker[w].run /\ worker[w].run \in Runs
    BY <1>5, <2>2, AtFacts DEF Justified, LeaseInv
  <2>4. CASE i < worker[w].pos
    BY <1>1, <1>5, <2>1, <2>3, <2>4 DEF PassedIsApplied
  <2>5. CASE ~(i < worker[w].pos)
    <3>1. worker'[w].pos = worker[w].pos + 1 /\ landed'[worker[w].run][At(w)] >= 1
      BY <1>5, <2>1, <2>2, <2>5 DEF Justified
    <3>2. i = worker[w].pos
      BY <1>5, <2>1, <2>5, <3>1
    <3>. QED
      BY <2>3, <3>1, <3>2 DEF At
  <2>. QED
    BY <2>4, <2>5
<1>. QED
  BY <1>2, <1>3, <1>4, <1>5 DEF PassedIsApplied, At

(* A process that moves makes no new claim when it is not past its effect and
   stays at its step; ... *)
LEMMA MovesJustified ==
    ASSUME TypeOK, NEW w \in Workers, NEW p, NEW q, NEW e, Moves(w, p, q, e),
           p # "landed", q = worker[w].pos, run' = run,
           \A r \in Runs, s \in Steps : claim'[r][s].status # "completed"
                                        \/ claim'[r][s].status = claim[r][s].status,
           \A r \in Runs, s \in Steps : landed'[r][s] >= landed[r][s]
    PROVE  Justified
BY DEF Moves, Justified

(* ... nor does one that leaves without a success. *)
LEMMA LeavesJustified ==
    ASSUME TypeOK, NEW w \in Workers, Leaves(w), claim' = claim,
           \A r \in Runs : run'[r].status = "succeeded" => run[r].status = "succeeded",
           \A r \in Runs, s \in Steps : landed'[r][s] >= landed[r][s]
    PROVE  Justified
BY IdleFacts DEF Leaves, Justified

-----------------------------------------------------------------------------
(* Live claims.                                                            *)

(* Two processes that both hold the lease of a run are one. *)
LEMMA OneHolderOfTheLease ==
    ASSUME AliveIsHolder, NEW v \in Workers, NEW w \in Workers,
           worker[v].run = worker[w].run, worker[w].run # NoRun,
           worker[w].run \notin outlived
    PROVE  v = w
BY DEF AliveIsHolder, HeldBy, Wid

(* A process that moves without touching a claim or a row keeps what is said of
   live claims, provided it lets go of its own only by recording it or by
   failing the run, and meets a foreign one only where a run was taken away. *)
LEMMA MovesAlive ==
    ASSUME TypeOK, LeaseInv, AliveInv, NoDeadClaimInTheWay,
           NEW w \in Workers, NEW p, NEW q, NEW e, Moves(w, p, q, e),
           worker[w].phase # "idle", run' = run, claim' = claim, outlived' = outlived,
           \/ worker[w].phase \in {"next", "claiming", "inserting"}
           \/ p \in Gripping /\ q = worker[w].pos
           \/ p = "closing" /\ e = "Exception",
           worker[w].phase # "closing",
           p = "inserting" => claim[worker[w].run][Plan[q]].status = "none",
           e = "EffectAlreadyRunning" => worker[w].run \in outlived
    PROVE  AliveInv' /\ NoDeadClaimInTheWay'
<1>1. AliveIsHolder'
  BY DEF AliveInv, AliveIsHolder, Moves, Wid, HeldBy
<1>2. LiveClaimIsOwn'
  <2> SUFFICES ASSUME NEW r \in Runs, NEW s \in Steps, r \notin outlived,
                      claim[r][s].status = "started", claim[r][s].live,
                      NEW v \in Workers, worker'[v].run = r
               PROVE  \/ Holds(v, r, s)'
                      \/ worker'[v].phase = "closing" /\ worker'[v].exc = "Exception"
    BY DEF LiveClaimIsOwn, AliveInv
  <2>1. worker[v].run = r
    BY DEF Moves
  <2>2. \/ Holds(v, r, s)
        \/ worker[v].phase = "closing" /\ worker[v].exc = "Exception"
    BY <2>1 DEF LiveClaimIsOwn, AliveInv
  <2>3. CASE v # w
    BY <2>1, <2>2, <2>3 DEF Moves, Holds, At
  <2>4. CASE v = w
    <3>1. worker[w].phase \in Gripping /\ At(w) = s
      BY <2>2, <2>4 DEF Holds
    <3>2. \/ p \in Gripping /\ q = worker[w].pos
          \/ p = "closing" /\ e = "Exception"
      BY <3>1 DEF Gripping
    <3>. QED
      BY <2>1, <2>4, <3>1, <3>2 DEF Moves, Holds, At
  <2>. QED
    BY <2>3, <2>4
<1>3. MissingStaysMissing'
  BY DEF AliveInv, MissingStaysMissing, Moves, At
<1>4. NoDeadClaimInTheWay'
  BY DEF NoDeadClaimInTheWay, Moves
<1>. QED
  BY <1>1, <1>2, <1>3, <1>4 DEF AliveInv

\* A write that ends no lease and returns no run to the queue.
KeepsLease(old, new) ==
    /\ old.status = "leased" => new.status = "leased" /\ new.leased_by = old.leased_by
    /\ new.status \in {"absent", "pending"} => old.status \in {"absent", "pending"}
    /\ new.status = "succeeded" => old.status = "succeeded"

(* Such writes leave live claims alone, ... *)
LEMMA RowsAlive ==
    ASSUME TypeOK, LeaseInv, AliveInv, NoDeadClaimInTheWay,
           worker' = worker, claim' = claim, outlived' = outlived,
           \A r \in Runs : KeepsLease(run[r], run'[r])
    PROVE  AliveInv' /\ NoDeadClaimInTheWay'
<1>1. AliveIsHolder'
  BY AtFacts DEF LeaseInv, AliveInv, AliveIsHolder, Wid, HeldBy, KeepsLease
<1>2. LiveClaimIsOwn'
  BY DEF AliveInv, LiveClaimIsOwn, Holds, At, KeepsLease
<1>3. MissingStaysMissing' /\ NoDeadClaimInTheWay'
  BY DEF AliveInv, MissingStaysMissing, NoDeadClaimInTheWay, At
<1>. QED
  BY <1>1, <1>2, <1>3 DEF AliveInv

(* ... and so does a process that leaves, unless it puts the run back into the
   queue with a live claim of its own behind it. *)
LEMMA LeavesAlive ==
    ASSUME TypeOK, LeaseInv, AliveInv, NoDeadClaimInTheWay,
           NEW w \in Workers, Leaves(w), worker[w].phase # "idle",
           claim' = claim, outlived' = outlived,
           \A r \in Runs : r # worker[w].run => run'[r] = run[r],
           \A s \in Steps :
               /\ worker[w].run \notin outlived
               /\ claim[worker[w].run][s].status = "started" /\ claim[worker[w].run][s].live
               => run'[worker[w].run].status \notin {"absent", "pending"}
    PROVE  AliveInv' /\ NoDeadClaimInTheWay'
<1> DEFINE q == worker[w].run
<1>1. q \in Runs /\ q # NoRun
  BY AtFacts DEF LeaseInv
<1>2. \A v \in Workers : worker'[v].run # NoRun =>
          /\ v # w /\ worker'[v] = worker[v] /\ worker[v].run \in Runs
          /\ worker[v].run \notin outlived => worker[v].run # q
  BY <1>1, AtFacts, OneHolderOfTheLease, IdleFacts DEF Leaves, AliveInv, LeaseInv
<1>3. AliveIsHolder'
  BY <1>2 DEF AliveInv, AliveIsHolder, Wid, HeldBy
<1>4. LiveClaimIsOwn'
  <2> SUFFICES ASSUME NEW r \in Runs, NEW s \in Steps, r \notin outlived,
                      claim[r][s].status = "started", claim[r][s].live
               PROVE  /\ run'[r].status \notin {"absent", "pending"}
                      /\ \A v \in Workers : worker'[v].run = r =>
                           \/ Holds(v, r, s)'
                           \/ worker'[v].phase = "closing" /\ worker'[v].exc = "Exception"
    BY DEF LiveClaimIsOwn
  <2>1. run'[r].status \notin {"absent", "pending"}
    BY DEF AliveInv, LiveClaimIsOwn
  <2>2. ASSUME NEW v \in Workers, worker'[v].run = r
        PROVE  \/ Holds(v, r, s)'
               \/ worker'[v].phase = "closing" /\ worker'[v].exc = "Exception"
    <3>1. worker'[v] = worker[v]
      BY <1>2, <2>2, EffectClaimsAssumption
    <3>. QED
      BY <2>2, <3>1 DEF AliveInv, LiveClaimIsOwn, Holds, At
  <2>. QED
    BY <2>1, <2>2
<1>5. MissingStaysMissing'
  BY IdleFacts DEF AliveInv, MissingStaysMissing, Leaves, At
<1>6. NoDeadClaimInTheWay'
  BY IdleFacts DEF NoDeadClaimInTheWay, Leaves
<1>. QED
  BY <1>3, <1>4, <1>5, <1>6 DEF AliveInv

-----------------------------------------------------------------------------
(* The parts put together, for a process that moves ... *)
LEMMA MoveStep ==
    ASSUME IInv, TypeOK', NEW w \in Workers, NEW p, NEW q, NEW e, Moves(w, p, q, e),
           p # "idle", worker[w].phase # "idle", p \in AtStep => q \in 1..Len(Plan), run' = run,
           ReconcileInv', Justified, AliveInv', NoDeadClaimInTheWay'
    PROVE  IInv'
<1>1. LeaseInv'
  BY NoWrite, MovesEngaged, QuietLease DEF IInv
<1>2. PassedIsApplied' /\ SuccessIsComplete'
  BY JustifiedStep DEF IInv
<1>. QED
  BY <1>1, <1>2 DEF IInv

(* ... and one that leaves. *)
LEMMA LeaveStep ==
    ASSUME IInv, TypeOK', NEW w \in Workers, Leaves(w),
           \A r \in Runs : Settles(run[r], run'[r]),
           ReconcileInv', Justified, AliveInv', NoDeadClaimInTheWay'
    PROVE  IInv'
<1>1. LeaseInv'
  BY LeavesEngaged, QuietLease DEF IInv
<1>2. PassedIsApplied' /\ SuccessIsComplete'
  BY JustifiedStep DEF IInv
<1>. QED
  BY <1>1, <1>2 DEF IInv

(* What a process at work has in hand. *)
LEMMA AtWork ==
    ASSUME IInv, NEW w \in Workers, worker[w].phase # "idle"
    PROVE  /\ worker[w].run \in Runs /\ worker[w].run # NoRun
           /\ worker[w].pos \in 1..Len(Plan) + 1
           /\ worker[w].exc \in Exceptions \cup {"none"}
           /\ worker[w].phase \in AtStep =>
                /\ worker[w].pos \in 1..Len(Plan) /\ At(w) \in Steps
                /\ claim[worker[w].run][At(w)] \in ClaimRow
                /\ landed[worker[w].run][At(w)] \in Nat
<1>1. TypeOK /\ Engaged
  BY DEF IInv, LeaseInv
<1>. QED
  BY <1>1, AtFacts DEF TypeOK

(* perform_once up to its claim, and where it returns or raises without one:
   the cancellation points, the claim that finds no row, a stored result, a
   refusal, a lost INSERT, a closing UPDATE that raises. *)
LEMMA UnclaimedSteps ==
    ASSUME IInv, NEW w \in Workers,
           \/ BeforeClaim(w) \/ FindNoRow(w) \/ ClaimRefused(w)
           \/ InsertConflict(w) \/ AfterClaim(w) \/ RecordRaises(w)
    PROVE  IInv'
<1>0. TypeOK /\ LeaseInv /\ ReconcileInv /\ AliveInv /\ NoDeadClaimInTheWay
  BY DEF IInv
<1>1. /\ worker[w].phase # "idle" /\ worker[w].phase # "closing"
      /\ run' = run /\ claim' = claim /\ landed' = landed /\ unclear' = unclear
      /\ outlived' = outlived
  BY DEF BeforeClaim, FindNoRow, ClaimRefused, InsertConflict, AfterClaim, RecordRaises, effects
<1> DEFINE r == worker[w].run
           c == claim[r][At(w)]
<1>2. PICK p \in Phases, e \in Exceptions \cup {"none"} :
          /\ Moves(w, p, worker[w].pos, e)
          /\ p \notin {"idle", "landed"}
          /\ p \in AtStep => worker[w].pos \in 1..Len(Plan)
          /\ p \notin Gripping \/ worker[w].phase \in Gripping \ {"landed"}
          /\ \/ worker[w].phase \in {"next", "claiming", "inserting"}
             \/ p \in Gripping
             \/ p = "closing" /\ e = "Exception"
          /\ p = "inserting" => c.status = "none"
          /\ e = "EffectAlreadyRunning" => r \in outlived
  <2>0. /\ worker[w].exc \in Exceptions \cup {"none"}
        /\ worker[w].pos \in 1..Len(Plan) + 1
        /\ worker[w].phase \in AtStep => worker[w].pos \in 1..Len(Plan) /\ At(w) \in Steps
        /\ r \in Runs
        /\ worker[w].exc = "EffectAlreadyRunning" => r \in outlived
    BY <1>0, <1>1, AtWork DEF NoDeadClaimInTheWay
  <2>1. CASE BeforeClaim(w)
    <3>1. \/ Moves(w, "closing", worker[w].pos, "RunCancelled")
          \/ Moves(w, "claiming", worker[w].pos, worker[w].exc)
      BY <1>0, <2>1, MoveForms DEF BeforeClaim, Phases, Exceptions
    <3>2. worker[w].phase = "next" /\ worker[w].pos \in 1..Len(Plan)
      BY <2>0, <2>1, PlanFacts DEF BeforeClaim
    <3>. QED
      BY <2>0, <3>1, <3>2 DEF Phases, Exceptions, AtStep, Gripping
  <2>2. CASE FindNoRow(w)
    <3>1. Moves(w, "inserting", worker[w].pos, worker[w].exc) /\ worker[w].phase = "claiming"
      BY <1>0, <2>2, MoveForms DEF FindNoRow, Phases
    <3>2. c.status = "none"
      BY <2>2 DEF FindNoRow, Decide
    <3>. QED
      BY <2>0, <3>1, <3>2 DEF Phases, Exceptions, AtStep, Gripping
  <2>3. CASE ClaimRefused(w)
    <3> DEFINE d == Decide(c, At(w))
    <3>1. Moves(w, "closing", worker[w].pos, d) /\ worker[w].phase = "claiming"
          /\ d \in {"EffectAlreadyRunning", "NeedsReconciliation"}
      BY <1>0, <2>3, MoveForms DEF ClaimRefused, Phases, Exceptions
    <3>2. d = "EffectAlreadyRunning" => r \in outlived
      <4> SUFFICES ASSUME d = "EffectAlreadyRunning", r \notin outlived PROVE FALSE
        OBVIOUS
      <4>1. c.status = "started" /\ c.live
        BY DEF Decide
      <4>2. At(w) \in Steps
        BY <2>0, <3>1 DEF AtStep
      <4>. QED
        BY <1>0, <2>0, <3>1, <4>1, <4>2 DEF AliveInv, LiveClaimIsOwn, Holds, Gripping
    <3>. QED
      BY <2>0, <3>1, <3>2 DEF Phases, Exceptions, AtStep, Gripping
  <2>4. CASE InsertConflict(w)
    <3>1. /\ Moves(w, "closing", worker[w].pos, "EffectAlreadyRunning")
          /\ worker[w].phase = "inserting" /\ c.status # "none"
      BY <1>0, <2>4, MoveForms DEF InsertConflict, Phases, Exceptions
    <3>2. r \in outlived
      BY <1>0, <3>1 DEF AliveInv, MissingStaysMissing
    <3>. QED
      BY <2>0, <3>1, <3>2 DEF Phases, Exceptions, AtStep, Gripping
  <2>5. CASE AfterClaim(w)
    <3>1. /\ worker[w].phase = "claimed"
          /\ \/ Moves(w, "failing", worker[w].pos, "RunCancelled")
             \/ Moves(w, "performing", worker[w].pos, worker[w].exc)
      BY <1>0, <2>5, MoveForms DEF AfterClaim, Phases, Exceptions
    <3>. QED
      BY <2>0, <3>1 DEF Phases, Exceptions, AtStep, Gripping
  <2>6. CASE RecordRaises(w)
    <3>1. /\ worker[w].phase \in {"landed", "failing"}
          /\ Moves(w, "closing", worker[w].pos, "Exception")
      BY <1>0, <2>6, MoveForms DEF RecordRaises, Phases, Exceptions
    <3>. QED
      BY <2>0, <3>1 DEF Phases, Exceptions, AtStep, Gripping
  <2>. QED
    BY <2>1, <2>2, <2>3, <2>4, <2>5, <2>6
<1>3. TypeOK'
  BY <1>0, <1>1, <1>2 DEF TypeOK, Moves
<1>4. ReconcileInv'
  BY <1>0, <1>1, <1>2, MovesQuietly, QuietReconcile
<1>5. Justified
  <2>1. \A q \in Runs, s \in Steps : landed'[q][s] >= landed[q][s]
    BY <1>0, <1>1 DEF TypeOK
  <2>. QED
    BY <1>0, <1>1, <1>2, <2>1, MovesJustified
<1>6. AliveInv' /\ NoDeadClaimInTheWay'
  <2>1. p = "inserting" => claim[worker[w].run][Plan[worker[w].pos]].status = "none"
    BY <1>2 DEF At
  <2>. QED
    BY <1>0, <1>1, <1>2, <2>1, MovesAlive
<1>. QED
  BY <1>1, <1>2, <1>3, <1>4, <1>5, <1>6, MoveStep

-----------------------------------------------------------------------------
(* One more application of one effect. *)
LEMMA LandFacts ==
    ASSUME TypeOK, NEW r \in Runs, NEW s \in Steps,
           landed' = [landed EXCEPT ![r][s] = @ + 1]
    PROVE  /\ landed' \in [Runs -> [Steps -> Nat]]
           /\ landed[r][s] \in Nat /\ landed'[r][s] = landed[r][s] + 1
           /\ \A q \in Runs, t \in Steps : q # r \/ t # s => landed'[q][t] = landed[q][t]
           /\ \A q \in Runs, t \in Steps : landed'[q][t] >= landed[q][t]
<1>1. /\ landed' \in [Runs -> [Steps -> Nat]]
      /\ landed[r][s] \in Nat /\ landed'[r][s] = landed[r][s] + 1
      /\ \A q \in Runs, t \in Steps : q # r \/ t # s => landed'[q][t] = landed[q][t]
  BY DEF TypeOK
<1>2. \A q \in Runs, t \in Steps : landed[q][t] \in Nat
  BY DEF TypeOK
<1>3. \A q \in Runs, t \in Steps : landed'[q][t] >= landed[q][t]
  BY <1>1, <1>2
<1>. QED
  BY <1>1, <1>3

(* One row of side_effect written. *)
LEMMA ClaimFacts ==
    ASSUME TypeOK, NEW r \in Runs, NEW s \in Steps, NEW new \in ClaimRow,
           claim' = [claim EXCEPT ![r][s] = new]
    PROVE  /\ claim' \in [Runs -> [Steps -> ClaimRow]]
           /\ claim'[r][s] = new
           /\ \A q \in Runs, t \in Steps : q # r \/ t # s => claim'[q][t] = claim[q][t]
BY DEF TypeOK

(* What is said of a live claim when a claim is written by the process w that
   gets it or lets go of it. *)
LEMMA ClaimAlive ==
    ASSUME TypeOK, LeaseInv, AliveInv, NoDeadClaimInTheWay,
           NEW w \in Workers, NEW p, NEW q, NEW e, Moves(w, p, q, e),
           worker[w].phase # "idle", run' = run, outlived' = outlived,
           NEW s \in Steps,
           \A r \in Runs, t \in Steps :
               r # worker[w].run \/ t # s => claim'[r][t] = claim[r][t],
           claim'[worker[w].run][s].status = "started" /\ claim'[worker[w].run][s].live
               => p \in Gripping /\ Plan[q] = s,
           Holds(w, worker[w].run, s) \/ worker[w].phase \in {"claiming", "inserting"},
           p # "inserting",
           e = "EffectAlreadyRunning" => worker[w].run \in outlived
    PROVE  AliveInv' /\ NoDeadClaimInTheWay'
<1> DEFINE u == worker[w].run
<1>1. u \in Runs /\ u # NoRun
  BY AtFacts DEF LeaseInv
<1>2. AliveIsHolder'
  BY DEF AliveInv, AliveIsHolder, Moves, Wid, HeldBy
<1>3. u \notin outlived => HeldBy(run[u], Wid(w)) /\ \A v \in Workers : worker[v].run = u => v = w
  BY <1>1, OneHolderOfTheLease DEF AliveInv, AliveIsHolder
<1>4. LiveClaimIsOwn'
  <2> SUFFICES ASSUME NEW r \in Runs, NEW t \in Steps, r \notin outlived,
                      claim'[r][t].status = "started", claim'[r][t].live
               PROVE  /\ run[r].status \notin {"absent", "pending"}
                      /\ \A v \in Workers : worker'[v].run = r =>
                           \/ Holds(v, r, t)'
                           \/ worker'[v].phase = "closing" /\ worker'[v].exc = "Exception"
    BY DEF LiveClaimIsOwn
  <2>1. CASE r = u /\ t = s
    <3>1. p \in Gripping /\ Plan[q] = s
      BY <2>1
    <3>2. run[r].status \notin {"absent", "pending"}
      BY <1>3, <2>1 DEF HeldBy
    <3>3. \A v \in Workers : worker'[v].run = r => v = w
      BY <1>3, <2>1 DEF Moves
    <3>4. Holds(w, r, t)'
      BY <2>1, <3>1 DEF Holds, Moves, At
    <3>. QED
      BY <3>2, <3>3, <3>4
  <2>2. CASE r = u /\ t # s
    <3>1. claim[r][t].status = "started" /\ claim[r][t].live
      BY <2>2
    <3>2. Holds(w, r, t) \/ worker[w].phase = "closing"
      BY <2>2, <3>1, Zenon DEF AliveInv, LiveClaimIsOwn
    <3>. QED
      BY <2>2, <3>2 DEF Holds, Gripping
  <2>3. CASE r # u
    <3>1. claim[r][t].status = "started" /\ claim[r][t].live
      BY <2>3
    <3>2. ASSUME NEW v \in Workers, worker'[v].run = r
          PROVE  worker'[v] = worker[v]
      BY <2>3, <3>2 DEF Moves
    <3>. QED
      BY <3>1, <3>2 DEF AliveInv, LiveClaimIsOwn, Holds, At
  <2>. QED
    BY <2>1, <2>2, <2>3
<1>5. MissingStaysMissing'
  <2> SUFFICES ASSUME NEW v \in Workers, worker'[v].phase = "inserting",
                      worker'[v].run \notin outlived
               PROVE  claim'[worker'[v].run][Plan[worker'[v].pos]].status = "none"
    BY DEF MissingStaysMissing, At
  <2>1. v # w /\ worker'[v] = worker[v]
    BY DEF Moves
  <2>2. worker[v].run # u
    BY <1>3, <2>1
  <2>3. worker[v].run \in Runs /\ At(v) \in Steps
    BY <2>1, AtFacts DEF LeaseInv, AtStep
  <2>. QED
    BY <2>1, <2>2, <2>3 DEF AliveInv, MissingStaysMissing, At
<1>6. NoDeadClaimInTheWay'
  BY DEF NoDeadClaimInTheWay, Moves
<1>. QED
  BY <1>2, <1>4, <1>5, <1>6 DEF AliveInv

(* Taking the step: an INSERT that succeeds, or the takeover of a claim that may
   be repeated.  A step that must be reconciled had no holder then. *)
LEMMA ClaimStep ==
    ASSUME IInv, NEW w \in Workers, Claim(w)
    PROVE  IInv'
<1>0. TypeOK /\ LeaseInv /\ ReconcileInv /\ AliveInv /\ NoDeadClaimInTheWay
  BY DEF IInv
<1> DEFINE r == worker[w].run
           s == At(w)
<1>1. /\ worker[w].phase \in {"inserting", "claiming"}
      /\ run' = run /\ landed' = landed /\ unclear' = unclear /\ outlived' = outlived
      /\ Moves(w, "claimed", worker[w].pos, worker[w].exc)
  BY <1>0, MoveForms DEF Claim, Phases
<1>2. worker[w].phase # "idle" /\ r \in Runs /\ s \in Steps /\ worker[w].pos \in 1..Len(Plan)
      /\ claim[r][s] \in ClaimRow
  BY <1>1, AtWork DEF AtStep
<1>3. Started \in ClaimRow /\ Started.status = "started"
  BY DEF Started, ClaimRow
<1>4. /\ claim' \in [Runs -> [Steps -> ClaimRow]] /\ claim'[r][s].status = "started"
      /\ \A q \in Runs, t \in Steps : q # r \/ t # s => claim'[q][t] = claim[q][t]
  <2>1. claim' = [claim EXCEPT ![r][s] = Started]
    BY DEF Claim
  <2>. QED
    <3>1. claim' \in [Runs -> [Steps -> ClaimRow]] /\ claim'[r][s] = Started
      BY <1>0, <1>2, <1>3, <2>1, ClaimFacts, Zenon
    <3>2. \A q \in Runs, t \in Steps : q # r \/ t # s => claim'[q][t] = claim[q][t]
      BY <1>0, <1>2, <1>3, <2>1, ClaimFacts, Zenon
    <3>. QED
      BY <1>3, <3>1, <3>2
<1>5. s \in Reconciled => claim[r][s].status \in {"none", "failed"}
  BY <1>1, <1>2 DEF Claim, Decide, ClaimRow
<1>6. TypeOK'
  BY <1>0, <1>1, <1>4 DEF TypeOK, Moves
<1>7. ASSUME NEW v \in Workers, NEW q \in Runs, NEW t \in Steps, Holds(v, q, t)'
      PROVE  (v = w /\ q = r /\ t = s) \/ (v # w /\ Holds(v, q, t) /\ worker'[v] = worker[v])
  BY <1>1, <1>7 DEF Holds, At, Moves
<1>8. Reconciled \subseteq Steps
  BY EffectClaimsAssumption
<1>9. OneHolder'
  BY <1>0, <1>4, <1>5, <1>7, <1>8 DEF ReconcileInv, OneHolder
<1>10. AppliedIsClaimed'
  BY <1>0, <1>1, <1>4, <1>5, <1>7, <1>8 DEF ReconcileInv, AppliedIsClaimed
<1>11. Justified
  <2>1. \A q \in Runs, t \in Steps : landed'[q][t] >= landed[q][t]
    BY <1>0, <1>1 DEF TypeOK
  <2>. QED
    BY <1>0, <1>1, <1>4, <2>1, MovesJustified
<1>12. AliveInv' /\ NoDeadClaimInTheWay'
  BY <1>0, <1>1, <1>2, <1>4, ClaimAlive DEF Gripping, At, NoDeadClaimInTheWay
<1>13. ReconcileInv'
  BY <1>9, <1>10 DEF ReconcileInv
<1>. QED
  BY <1>1, <1>2, <1>6, <1>11, <1>12, <1>13, MoveStep

(* The effect is applied and perform_once knows it: the holder is alone, and
   none was applied before. *)
LEMMA EffectReturnsStep ==
    ASSUME IInv, NEW w \in Workers, EffectReturns(w)
    PROVE  IInv'
<1>0. TypeOK /\ LeaseInv /\ ReconcileInv /\ AliveInv /\ NoDeadClaimInTheWay
  BY DEF IInv
<1> DEFINE r == worker[w].run
           s == At(w)
<1>1. /\ worker[w].phase = "performing"
      /\ run' = run /\ claim' = claim /\ unclear' = unclear /\ outlived' = outlived
      /\ Moves(w, "landed", worker[w].pos, worker[w].exc)
      /\ landed' = [landed EXCEPT ![r][s] = @ + 1]
  BY <1>0, MoveForms DEF EffectReturns, Land, Phases
<1>2. /\ worker[w].phase # "idle" /\ r \in Runs /\ s \in Steps /\ worker[w].pos \in 1..Len(Plan)
      /\ Holds(w, r, s)
  BY <1>1, AtWork DEF AtStep, Holds, Gripping
<1> HIDE DEF r, s
<1>3. /\ landed' \in [Runs -> [Steps -> Nat]]
      /\ landed[r][s] \in Nat /\ landed'[r][s] = landed[r][s] + 1
      /\ \A q \in Runs, t \in Steps : q # r \/ t # s => landed'[q][t] = landed[q][t]
      /\ \A q \in Runs, t \in Steps : landed'[q][t] >= landed[q][t]
  BY <1>0, <1>1, <1>2, LandFacts
<1>4. TypeOK'
  BY <1>0, <1>1, <1>3 DEF TypeOK, Moves
<1>5. ASSUME NEW v \in Workers, NEW q \in Runs, NEW t \in Steps, Holds(v, q, t)'
      PROVE  /\ Holds(v, q, t)
             /\ worker[v].phase = "landed" => worker'[v].phase = "landed"
  BY <1>1, <1>5 DEF Holds, At, Moves, Gripping
<1>6. Reconciled \subseteq Steps
  BY EffectClaimsAssumption
<1>7. OneHolder'
  BY <1>0, <1>1, <1>5, <1>6 DEF ReconcileInv, OneHolder
<1>8. AppliedIsClaimed'
  <2> SUFFICES ASSUME NEW q \in Runs, NEW t \in Reconciled \ unclear[q]
               PROVE  /\ landed'[q][t] <= 1
                      /\ landed'[q][t] = 1 =>
                           /\ claim[q][t].status \in {"started", "completed"}
                           /\ \A v \in Workers : Holds(v, q, t)' => worker'[v].phase = "landed"
    BY <1>1 DEF AppliedIsClaimed
  <2>1. CASE q = r /\ t = s
    <3>1. landed[r][s] = 0
      BY <1>0, <1>1, <1>2, <1>3, <2>1 DEF ReconcileInv, AppliedIsClaimed
    <3>2. claim[r][s].status = "started"
      BY <1>0, <1>2, <2>1 DEF ReconcileInv, OneHolder
    <3>3. \A v \in Workers : Holds(v, q, t)' => v = w
      BY <1>0, <1>2, <1>5, <1>6, <2>1 DEF ReconcileInv, OneHolder
    <3>. QED
      BY <1>1, <1>3, <2>1, <3>1, <3>2, <3>3 DEF Moves
  <2>2. CASE q # r \/ t # s
    BY <1>0, <1>3, <1>5, <1>6, <2>2 DEF ReconcileInv, AppliedIsClaimed
  <2>. QED
    BY <2>1, <2>2
<1>9. ReconcileInv'
  BY <1>7, <1>8 DEF ReconcileInv
<1>10. Justified
  <2>1. landed'[worker'[w].run][Plan[worker'[w].pos]] >= 1
    BY <1>1, <1>3 DEF Moves, At, r, s
  <2>. QED
    BY <1>1, <1>3, <2>1 DEF Justified, Moves
<1>11. AliveInv' /\ NoDeadClaimInTheWay'
  BY <1>0, <1>1, <1>2, MovesAlive DEF Gripping, NoDeadClaimInTheWay
<1>. QED
  BY <1>1, <1>2, <1>4, <1>9, <1>10, <1>11, MoveStep

(* The effect raises: applied or not, the step becomes unclear when it was. *)
LEMMA EffectRaisesStep ==
    ASSUME IInv, NEW w \in Workers, NEW exc \in {"TransientError", "Exception"},
           EffectRaises(w, exc)
    PROVE  IInv'
<1>0. TypeOK /\ LeaseInv /\ ReconcileInv /\ AliveInv /\ NoDeadClaimInTheWay
  BY DEF IInv
<1> DEFINE r == worker[w].run
           s == At(w)
<1>1. /\ worker[w].phase = "performing"
      /\ run' = run /\ claim' = claim /\ outlived' = outlived
      /\ Moves(w, "failing", worker[w].pos, exc)
      /\ \/ landed' = landed /\ unclear' = unclear
         \/ /\ landed' = [landed EXCEPT ![r][s] = @ + 1]
            /\ unclear' = [unclear EXCEPT ![r] = @ \cup {s}]
  BY <1>0, MoveForms DEF EffectRaises, Land, Phases, Exceptions
<1>2. /\ worker[w].phase # "idle" /\ r \in Runs /\ s \in Steps /\ worker[w].pos \in 1..Len(Plan)
  BY <1>1, AtWork DEF AtStep
<1> HIDE DEF r, s
<1>3. /\ landed' \in [Runs -> [Steps -> Nat]]
      /\ \A q \in Runs, t \in Steps : landed'[q][t] >= landed[q][t]
      /\ unclear' \in [Runs -> SUBSET Steps]
      /\ \A q \in Runs : unclear[q] \subseteq unclear'[q]
      /\ \A q \in Runs, t \in Steps : t \notin unclear'[q] => landed'[q][t] = landed[q][t]
  <2>1. CASE landed' = landed /\ unclear' = unclear
    BY <1>0, <2>1 DEF TypeOK
  <2>2. CASE /\ landed' = [landed EXCEPT ![r][s] = @ + 1]
             /\ unclear' = [unclear EXCEPT ![r] = @ \cup {s}]
    <3>1. /\ landed' \in [Runs -> [Steps -> Nat]]
          /\ \A q \in Runs, t \in Steps : landed'[q][t] >= landed[q][t]
          /\ \A q \in Runs, t \in Steps : q # r \/ t # s => landed'[q][t] = landed[q][t]
      BY <1>0, <1>2, <2>2, LandFacts
    <3>2. /\ unclear' \in [Runs -> SUBSET Steps]
          /\ \A q \in Runs : unclear[q] \subseteq unclear'[q]
          /\ s \in unclear'[r]
      BY <1>0, <1>2, <2>2 DEF TypeOK
    <3>. QED
      BY <3>1, <3>2
  <2>. QED
    BY <1>1, <2>1, <2>2
<1>4. TypeOK'
  BY <1>0, <1>1, <1>3 DEF TypeOK, Moves
<1>5. ASSUME NEW v \in Workers, NEW q \in Runs, NEW t \in Steps, Holds(v, q, t)'
      PROVE  /\ Holds(v, q, t)
             /\ worker[v].phase = "landed" => worker'[v].phase = "landed"
  BY <1>1, <1>5 DEF Holds, At, Moves, Gripping
<1>6. Reconciled \subseteq Steps
  BY EffectClaimsAssumption
<1>7. OneHolder'
  BY <1>0, <1>1, <1>5, <1>6 DEF ReconcileInv, OneHolder
<1>8. AppliedIsClaimed'
  BY <1>0, <1>1, <1>3, <1>5, <1>6 DEF ReconcileInv, AppliedIsClaimed
<1>9. ReconcileInv'
  BY <1>7, <1>8 DEF ReconcileInv
<1>10. Justified
  BY <1>0, <1>1, <1>3, MovesJustified
<1>11. AliveInv' /\ NoDeadClaimInTheWay'
  BY <1>0, <1>1, <1>2, MovesAlive DEF Gripping
<1>. QED
  BY <1>1, <1>2, <1>4, <1>9, <1>10, <1>11, MoveStep

(* A stored result is returned: the effect was applied by an earlier attempt. *)
LEMMA StoredStep ==
    ASSUME IInv, NEW w \in Workers, Stored(w)
    PROVE  IInv'
<1>0. TypeOK /\ LeaseInv /\ ReconcileInv /\ AliveInv /\ NoDeadClaimInTheWay
  BY DEF IInv
<1> DEFINE r == worker[w].run
           s == At(w)
<1>1. /\ worker[w].phase = "claiming" /\ claim[r][s].status = "completed"
      /\ run' = run /\ claim' = claim /\ landed' = landed /\ unclear' = unclear
      /\ outlived' = outlived
      /\ worker' = [worker EXCEPT ![w].phase = "next", ![w].pos = @ + 1]
  BY DEF Stored, Decide, effects
<1>2. /\ worker[w].phase # "idle" /\ r \in Runs /\ s \in Steps /\ worker[w].pos \in 1..Len(Plan)
  BY <1>1, AtWork DEF AtStep
<1>3. Moves(w, "next", worker[w].pos + 1, worker[w].exc)
  BY <1>0, <1>1, <1>2, MoveForms DEF Phases
<1>4. TypeOK'
  BY <1>0, <1>1, <1>3 DEF TypeOK, Moves
<1>5. ReconcileInv'
  BY <1>0, <1>1, <1>3, MovesQuietly, QuietReconcile DEF Gripping
<1>6. landed[r][s] >= 1
  BY <1>1, <1>2 DEF IInv, PassedIsApplied
<1>7. Justified
  <2>1. \A q \in Runs, t \in Steps : landed'[q][t] >= landed[q][t]
    BY <1>0, <1>1 DEF TypeOK
  <2>. QED
    BY <1>1, <1>3, <1>6, <2>1 DEF Justified, Moves
<1>8. AliveInv' /\ NoDeadClaimInTheWay'
  BY <1>0, <1>1, <1>2, <1>3, MovesAlive DEF NoDeadClaimInTheWay
<1>. QED
  BY <1>1, <1>2, <1>3, <1>4, <1>5, <1>7, <1>8, MoveStep DEF AtStep

(* The closing UPDATEs: completed after the effect, failed before it. *)
LEMMA RecordSteps ==
    ASSUME IInv, NEW w \in Workers, RecordCompleted(w) \/ RecordFailed(w)
    PROVE  IInv'
<1>0. TypeOK /\ LeaseInv /\ ReconcileInv /\ AliveInv /\ NoDeadClaimInTheWay
  BY DEF IInv
<1> DEFINE r == worker[w].run
           s == At(w)
           completed == [status |-> "completed", live |-> FALSE]
           failed == [status |-> "failed", live |-> FALSE]
<1>1. /\ worker[w].phase \in {"landed", "failing"}
      /\ run' = run /\ landed' = landed /\ unclear' = unclear /\ outlived' = outlived
  BY DEF RecordCompleted, RecordFailed
<1>2. /\ worker[w].phase # "idle" /\ r \in Runs /\ s \in Steps /\ worker[w].pos \in 1..Len(Plan)
      /\ Holds(w, r, s) /\ worker[w].exc \in Exceptions \cup {"none"}
  BY <1>1, AtWork DEF AtStep, Holds, Gripping
<1>3. PICK new \in ClaimRow, p \in Phases, q \in Nat :
          /\ claim' = [claim EXCEPT ![r][s] = new]
          /\ Moves(w, p, q, worker[w].exc)
          /\ new.status # "started" /\ new.live = FALSE
          /\ \/ /\ worker[w].phase = "landed" /\ new.status = "completed"
                /\ p = "next" /\ q = worker[w].pos + 1
             \/ /\ worker[w].phase = "failing" /\ new.status = "failed"
                /\ p = "closing" /\ q = worker[w].pos
  <2>0. worker[w].pos \in Nat /\ worker[w].pos + 1 \in Nat
    BY <1>2, PlanFacts
  <2>1. CASE RecordCompleted(w)
    <3>1. completed \in ClaimRow /\ completed.status = "completed" /\ completed.live = FALSE
      BY DEF ClaimRow
    <3>2. Moves(w, "next", worker[w].pos + 1, worker[w].exc)
      BY <1>0, <1>2, <2>1, MoveForms DEF RecordCompleted, Phases
    <3>3. claim' = [claim EXCEPT ![r][s] = completed] /\ worker[w].phase = "landed"
      BY <2>1 DEF RecordCompleted
    <3>. QED
      BY <2>0, <3>1, <3>2, <3>3 DEF Phases
  <2>2. CASE RecordFailed(w)
    <3>1. failed \in ClaimRow /\ failed.status = "failed" /\ failed.live = FALSE
      BY DEF ClaimRow
    <3>2. Moves(w, "closing", worker[w].pos, worker[w].exc)
      BY <1>0, <1>2, <2>2, MoveForms DEF RecordFailed, Phases
    <3>3. claim' = [claim EXCEPT ![r][s] = failed] /\ worker[w].phase = "failing"
      BY <2>2 DEF RecordFailed
    <3>. QED
      BY <2>0, <3>1, <3>2, <3>3 DEF Phases
  <2>. QED
    BY <2>1, <2>2
<1> HIDE DEF r, s, completed, failed
<1>4. /\ claim' \in [Runs -> [Steps -> ClaimRow]]
      /\ claim'[r][s] = new
      /\ \A x \in Runs, t \in Steps : x # r \/ t # s => claim'[x][t] = claim[x][t]
  BY <1>0, <1>2, <1>3, ClaimFacts
<1>5. TypeOK'
  BY <1>0, <1>1, <1>3, <1>4 DEF TypeOK, Moves
<1>6. ASSUME NEW v \in Workers, NEW x \in Runs, NEW t \in Steps, Holds(v, x, t)'
      PROVE  v # w /\ Holds(v, x, t) /\ worker'[v] = worker[v]
  BY <1>3, <1>6 DEF Holds, At, Moves, Gripping
<1>7. Reconciled \subseteq Steps
  BY EffectClaimsAssumption
<1>8. ASSUME NEW x \in Runs, NEW t \in Reconciled, x = r, t = s, NEW v \in Workers
      PROVE  ~Holds(v, x, t)'
  BY <1>0, <1>2, <1>6, <1>7, <1>8 DEF ReconcileInv, OneHolder
<1>9. OneHolder'
  <2> SUFFICES ASSUME NEW x \in Runs, NEW t \in Reconciled
               PROVE  /\ \A u, v \in Workers : Holds(u, x, t)' /\ Holds(v, x, t)' => u = v
                      /\ \A v \in Workers : Holds(v, x, t)' => claim'[x][t].status = "started"
    BY DEF OneHolder
  <2>1. CASE x = r /\ t = s
    BY <1>8, <2>1
  <2>2. CASE x # r \/ t # s
    BY <1>0, <1>4, <1>6, <1>7, <2>2 DEF ReconcileInv, OneHolder
  <2>. QED
    BY <2>1, <2>2
<1>10. AppliedIsClaimed'
  <2> SUFFICES ASSUME NEW x \in Runs, NEW t \in Reconciled \ unclear[x]
               PROVE  /\ landed[x][t] <= 1
                      /\ landed[x][t] = 1 =>
                           /\ claim'[x][t].status \in {"started", "completed"}
                           /\ \A v \in Workers : Holds(v, x, t)' => worker'[v].phase = "landed"
    BY <1>1 DEF AppliedIsClaimed
  <2>1. CASE x = r /\ t = s
    <3>1. landed[r][s] = 1 => worker[w].phase = "landed"
      BY <1>0, <1>2, <2>1 DEF ReconcileInv, AppliedIsClaimed
    <3>. QED
      BY <1>0, <1>3, <1>4, <1>8, <2>1, <3>1 DEF ReconcileInv, AppliedIsClaimed
  <2>2. CASE x # r \/ t # s
    BY <1>0, <1>4, <1>6, <1>7, <2>2 DEF ReconcileInv, AppliedIsClaimed
  <2>. QED
    BY <2>1, <2>2
<1>11. ReconcileInv'
  BY <1>9, <1>10 DEF ReconcileInv
<1>12. worker[w].phase = "landed" => landed[r][s] >= 1
  BY DEF IInv, PassedIsApplied, r, s
<1>13. Justified
  <2>1. \A x \in Runs, t \in Steps : landed'[x][t] >= landed[x][t]
    BY <1>0, <1>1 DEF TypeOK
  <2>2. \A x \in Runs, t \in Steps : claim'[x][t].status = "completed" =>
            claim[x][t].status = "completed" \/ landed'[x][t] >= 1
    BY <1>1, <1>3, <1>4, <1>12
  <2>3. \A v \in Workers : worker'[v].phase = "landed" => worker'[v] = worker[v]
    BY <1>3 DEF Moves
  <2>4. \A v \in Workers : v # w => worker'[v] = worker[v]
    BY <1>3 DEF Moves
  <2>5. /\ worker'[w].run = worker[w].run
        /\ \/ worker'[w].pos = worker[w].pos
           \/ worker'[w].pos = worker[w].pos + 1 /\ landed'[worker[w].run][At(w)] >= 1
    BY <1>1, <1>3, <1>12 DEF Moves, r, s
  <2>. QED
    BY <1>1, <2>1, <2>2, <2>3, <2>4, <2>5 DEF Justified
<1>14. AliveInv' /\ NoDeadClaimInTheWay'
  <2>1. worker[w].exc = "EffectAlreadyRunning" => worker[w].run \in outlived
    BY <1>0 DEF NoDeadClaimInTheWay
  <2>. QED
    BY <1>0, <1>1, <1>2, <1>3, <1>4, <2>1, ClaimAlive DEF r
<1>. QED
  BY <1>1, <1>2, <1>3, <1>5, <1>11, <1>13, <1>14, MoveStep DEF AtStep

-----------------------------------------------------------------------------
(* The rows written by the API, a heartbeat and the clock keep every lease. *)
LEMMA BystandersKeepLease ==
    ASSUME NEW row \in Row, RowInv(row)
    PROVE  /\ row.status = "absent" => Settles(row, AdmitRow) /\ KeepsLease(row, AdmitRow)
           /\ Cancellable(row) => KeepsLease(row, CancelRow(row))
           /\ row.status = "leased" => KeepsLease(row, HeartbeatRow(row))
           /\ LeaseRunsOut(row) => KeepsLease(row, LeaseRunsOutRow(row))
           /\ BecomesDue(row) => KeepsLease(row, BecomesDueRow(row))
           /\ KeepsLease(row, row)
<1>1. ASSUME row.status = "absent" PROVE Settles(row, AdmitRow) /\ KeepsLease(row, AdmitRow)
  BY <1>1, AdmitFacts, RunStoreAssumption DEF Settles, RowInv, KeepsLease
<1>2. ASSUME Cancellable(row) PROVE KeepsLease(row, CancelRow(row))
  BY <1>2 DEF Cancellable, CancelRow, KeepsLease, Row
<1>3. ASSUME row.status = "leased" PROVE KeepsLease(row, HeartbeatRow(row))
  BY <1>3 DEF HeartbeatRow, KeepsLease, Row
<1>4. ASSUME LeaseRunsOut(row) PROVE KeepsLease(row, LeaseRunsOutRow(row))
  BY <1>4 DEF LeaseRunsOut, LeaseRunsOutRow, KeepsLease, Row
<1>5. ASSUME BecomesDue(row) PROVE KeepsLease(row, BecomesDueRow(row))
  BY <1>5 DEF BecomesDue, BecomesDueRow, KeepsLease, Row
<1>. QED
  BY <1>1, <1>2, <1>3, <1>4, <1>5 DEF KeepsLease

(* Nothing moves: quiet and justified. *)
LEMMA StillFacts ==
    ASSUME TypeOK, worker' = worker, landed' = landed, unclear' = unclear,
           \A r \in Runs, s \in Steps : claim'[r][s].status = claim[r][s].status,
           \A r \in Runs : run'[r].status = "succeeded" => run[r].status = "succeeded"
    PROVE  QuietGrip /\ Justified
<1>1. \A r \in Runs, s \in Steps : landed'[r][s] >= landed[r][s]
  BY DEF TypeOK
<1>2. QuietGrip
  BY DEF QuietGrip, Holds, At
<1>3. Justified
  BY <1>1 DEF Justified
<1>. QED
  BY <1>2, <1>3

(* The API, the heartbeat and the clock. *)
LEMMA BystanderSteps ==
    ASSUME IInv,
           \/ \E r \in Runs : Enqueue(r) \/ Cancel(r) \/ Expire(r) \/ Due(r)
           \/ \E w \in Workers : Heartbeat(w)
    PROVE  IInv'
<1>0. TypeOK /\ LeaseInv /\ ReconcileInv /\ AliveInv /\ NoDeadClaimInTheWay
  BY DEF IInv
<1>1. /\ worker' = worker /\ claim' = claim /\ landed' = landed /\ unclear' = unclear
      /\ outlived' = outlived
  BY DEF Enqueue, Cancel, Expire, Due, Heartbeat, effects
<1>2. PICK r \in Runs : \E new : /\ run' = [run EXCEPT ![r] = new]
                                 /\ Settles(run[r], new) /\ KeepsLease(run[r], new)
  <2>1. \A r \in Runs : run[r] \in Row /\ RowInv(run[r])
    BY <1>0 DEF TypeOK, LeaseInv
  <2>2. ASSUME NEW r \in Runs, Enqueue(r) \/ Cancel(r) \/ Expire(r) \/ Due(r)
        PROVE  \E new : /\ run' = [run EXCEPT ![r] = new]
                        /\ Settles(run[r], new) /\ KeepsLease(run[r], new)
    BY <2>1, <2>2, BystandersSettle, BystandersKeepLease DEF Enqueue, Cancel, Expire, Due
  <2>3. ASSUME NEW w \in Workers, Heartbeat(w)
        PROVE  \E r \in Runs : \E new : /\ run' = [run EXCEPT ![r] = new]
                                        /\ Settles(run[r], new) /\ KeepsLease(run[r], new)
    <3> DEFINE r == worker[w].run
    <3>1. /\ run' = [run EXCEPT ![r] = HeartbeatRow(run[r])] /\ run[r].status = "leased"
          /\ worker[w].phase # "idle"
      BY <2>3 DEF Heartbeat, HeartbeatHolds, HeldBy
    <3>2. r \in Runs
      BY <3>1, AtWork
    <3>. QED
      BY <2>1, <3>1, <3>2, BystandersSettle, BystandersKeepLease
  <2>. QED
    BY <2>2, <2>3
<1>3. PICK new : /\ run' = [run EXCEPT ![r] = new]
                 /\ Settles(run[r], new) /\ KeepsLease(run[r], new)
  BY <1>2
<1>4. /\ run' \in [Runs -> Row]
      /\ run'[r] = new /\ \A q \in Runs : q # r => run'[q] = run[q]
      /\ \A q \in Runs : Settles(run[q], run'[q])
  BY <1>0, <1>3, RowWrite
<1>5. \A q \in Runs : KeepsLease(run[q], run'[q])
  BY <1>3, <1>4 DEF KeepsLease
<1>6. TypeOK' /\ Engaged' /\ \A w \in Workers : KeepsOrLeaves(w)
  BY <1>0, <1>1, <1>4 DEF TypeOK, LeaseInv, Engaged, KeepsOrLeaves
<1>7. LeaseInv'
  BY <1>0, <1>4, <1>6, QuietLease
<1>8. QuietGrip /\ Justified
  BY <1>0, <1>1, <1>5, StillFacts DEF KeepsLease
<1>9. AliveInv' /\ NoDeadClaimInTheWay'
  BY <1>0, <1>1, <1>5, RowsAlive
<1>10. ReconcileInv'
  BY <1>0, <1>8, QuietReconcile
<1>11. PassedIsApplied' /\ SuccessIsComplete'
  BY <1>6, <1>8, JustifiedStep DEF IInv
<1>. QED
  BY <1>6, <1>7, <1>9, <1>10, <1>11 DEF IInv

(* The deadline of a claim passes. *)
LEMMA ClaimRunsOutStep ==
    ASSUME IInv, NEW r \in Runs, NEW s \in Steps, ClaimRunsOut(r, s)
    PROVE  IInv'
<1>0. TypeOK /\ LeaseInv /\ ReconcileInv /\ AliveInv /\ NoDeadClaimInTheWay
  BY DEF IInv
<1>1. /\ run' = run /\ worker' = worker /\ landed' = landed /\ unclear' = unclear
      /\ outlived' = outlived
      /\ claim' = [claim EXCEPT ![r][s].live = FALSE]
  BY DEF ClaimRunsOut
<1>2. /\ claim' \in [Runs -> [Steps -> ClaimRow]]
      /\ \A q \in Runs, t \in Steps :
            /\ claim'[q][t].status = claim[q][t].status
            /\ claim'[q][t].live => claim[q][t].live
  <2>1. ASSUME NEW c \in ClaimRow
        PROVE  /\ [c EXCEPT !.live = FALSE] \in ClaimRow
               /\ [c EXCEPT !.live = FALSE].status = c.status
               /\ [c EXCEPT !.live = FALSE].live = FALSE
    BY DEF ClaimRow
  <2> DEFINE new == [claim[r][s] EXCEPT !.live = FALSE]
  <2>2. claim[r][s] \in ClaimRow /\ claim' = [claim EXCEPT ![r][s] = new]
    BY <1>0, <1>1 DEF TypeOK
  <2>3. new \in ClaimRow /\ new.status = claim[r][s].status /\ new.live = FALSE
    BY <2>1, <2>2
  <2> HIDE DEF new
  <2>4. /\ claim' \in [Runs -> [Steps -> ClaimRow]]
        /\ claim'[r][s] = new
        /\ \A q \in Runs, t \in Steps : q # r \/ t # s => claim'[q][t] = claim[q][t]
    BY <1>0, <2>2, <2>3, ClaimFacts
  <2>. QED
    BY <2>3, <2>4
<1>3. TypeOK' /\ LeaseInv'
  BY <1>0, <1>1, <1>2 DEF TypeOK, LeaseInv, Engaged, Remembered, LeaseNamesAttempt, RowInv
<1>4. QuietGrip /\ Justified
  BY <1>0, <1>1, <1>2, StillFacts
<1>5. AliveIsHolder' /\ MissingStaysMissing' /\ NoDeadClaimInTheWay'
  <2>1. AliveIsHolder' /\ NoDeadClaimInTheWay'
    BY <1>0, <1>1 DEF AliveInv, AliveIsHolder, NoDeadClaimInTheWay, Wid, HeldBy
  <2>2. MissingStaysMissing'
    BY <1>0, <1>1, <1>2, AtFacts DEF AliveInv, MissingStaysMissing, At, LeaseInv, AtStep
  <2>. QED
    BY <2>1, <2>2
<1>6. LiveClaimIsOwn'
  BY <1>0, <1>1, <1>2 DEF AliveInv, LiveClaimIsOwn, Holds, At
<1>7. ReconcileInv'
  BY <1>0, <1>4, QuietReconcile
<1>8. PassedIsApplied' /\ SuccessIsComplete'
  BY <1>3, <1>4, JustifiedStep DEF IInv
<1>. QED
  BY <1>3, <1>5, <1>6, <1>7, <1>8 DEF IInv, AliveInv

(* The reaper: it releases the claims with the lease, and a process that was
   alive is remembered as robbed. *)
LEMMA ReapStep ==
    ASSUME IInv, NEW r \in Runs, Reap(r)
    PROVE  IInv'
<1>0. TypeOK /\ LeaseInv /\ ReconcileInv /\ AliveInv /\ NoDeadClaimInTheWay
  BY DEF IInv
<1>1. /\ Reapable(run[r]) /\ run' = [run EXCEPT ![r] = ReapRow(run[r])]
      /\ worker' = worker /\ landed' = landed /\ unclear' = unclear
      /\ claim' = [claim EXCEPT ![r] = ReleasedClaims(claim[r])]
  BY DEF Reap
<1>2. /\ outlived \subseteq outlived' /\ outlived' \subseteq Runs
      /\ \A w \in Workers : worker[w].run = r /\ HeldBy(run[r], Wid(w)) => r \in outlived'
  BY <1>0 DEF Reap, TypeOK
<1>3. /\ claim' \in [Runs -> [Steps -> ClaimRow]]
      /\ \A q \in Runs, t \in Steps :
            /\ claim'[q][t].status = claim[q][t].status
            /\ q # r => claim'[q][t] = claim[q][t]
      /\ \A t \in Steps : ~(claim'[r][t].status = "started" /\ claim'[r][t].live)
  <2> DEFINE rel == ReleasedClaims(claim[r])
  <2>1. ASSUME NEW c \in ClaimRow
        PROVE  /\ [c EXCEPT !.live = FALSE] \in ClaimRow
               /\ [c EXCEPT !.live = FALSE].status = c.status
               /\ ~[c EXCEPT !.live = FALSE].live
    BY DEF ClaimRow
  <2>2. \A t \in Steps : claim[r][t] \in ClaimRow
    BY <1>0 DEF TypeOK
  <2>3. rel \in [Steps -> ClaimRow]
    BY <2>1, <2>2 DEF ReleasedClaims
  <2>4. \A t \in Steps : /\ rel[t].status = claim[r][t].status
                         /\ ~(rel[t].status = "started" /\ rel[t].live)
    BY <2>1, <2>2 DEF ReleasedClaims
  <2> HIDE DEF rel
  <2>5. /\ claim' \in [Runs -> [Steps -> ClaimRow]] /\ claim'[r] = rel
        /\ \A q \in Runs : q # r => claim'[q] = claim[q]
    BY <1>0, <1>1, <2>3 DEF TypeOK, rel
  <2>. QED
    BY <2>4, <2>5
<1>4. Settles(run[r], ReapRow(run[r])) /\ ReapRow(run[r]).status # "succeeded"
  <2>1. run[r] \in Row /\ RowInv(run[r])
    BY <1>0 DEF TypeOK, LeaseInv
  <2>2. Settles(run[r], ReapRow(run[r]))
    BY <1>1, <2>1, BystandersSettle
  <2>3. ReapRow(run[r]).status # "succeeded"
    BY <2>1 DEF ReapRow, ClosedRow, DelayedRow, Row
  <2>. QED
    BY <2>2, <2>3
<1>5. /\ run' \in [Runs -> Row]
      /\ run'[r] = ReapRow(run[r]) /\ \A q \in Runs : q # r => run'[q] = run[q]
      /\ \A q \in Runs : Settles(run[q], run'[q])
  BY <1>0, <1>1, <1>4, RowWrite
<1>6. TypeOK' /\ Engaged' /\ \A w \in Workers : KeepsOrLeaves(w)
  BY <1>0, <1>1, <1>2, <1>3, <1>5 DEF TypeOK, LeaseInv, Engaged, KeepsOrLeaves
<1>7. LeaseInv'
  BY <1>0, <1>5, <1>6, QuietLease
<1>8. QuietGrip /\ Justified
  BY <1>0, <1>1, <1>3, <1>4, <1>5, StillFacts
<1>9. AliveIsHolder'
  BY <1>0, <1>1, <1>2, <1>5, AtFacts DEF AliveInv, AliveIsHolder, Wid, HeldBy, LeaseInv
<1>10. LiveClaimIsOwn'
  <2> SUFFICES ASSUME NEW q \in Runs, NEW t \in Steps, q \notin outlived',
                      claim'[q][t].status = "started", claim'[q][t].live
               PROVE  /\ run'[q].status \notin {"absent", "pending"}
                      /\ \A w \in Workers : worker'[w].run = q =>
                            \/ Holds(w, q, t)'
                            \/ worker'[w].phase = "closing" /\ worker'[w].exc = "Exception"
    BY DEF LiveClaimIsOwn
  <2>1. q # r
    BY <1>3
  <2>. QED
    BY <1>0, <1>1, <1>2, <1>3, <1>5, <2>1 DEF AliveInv, LiveClaimIsOwn, Holds, At
<1>11. MissingStaysMissing' /\ NoDeadClaimInTheWay'
  <2>1. MissingStaysMissing'
    BY <1>0, <1>1, <1>2, <1>3, AtFacts DEF AliveInv, MissingStaysMissing, At, LeaseInv, AtStep
  <2>2. NoDeadClaimInTheWay'
    BY <1>0, <1>1, <1>2 DEF NoDeadClaimInTheWay
  <2>. QED
    BY <2>1, <2>2
<1>12. ReconcileInv'
  BY <1>0, <1>8, QuietReconcile
<1>13. PassedIsApplied' /\ SuccessIsComplete'
  BY <1>6, <1>8, JustifiedStep DEF IInv
<1>. QED
  BY <1>6, <1>7, <1>9, <1>10, <1>11, <1>12, <1>13 DEF IInv, AliveInv

(* Leasing a run: its new attempt starts at the first step, and nobody's live
   claim is in its way unless somebody was robbed of the run. *)
LEMMA AcquireStep ==
    ASSUME IInv, NEW w \in Workers, NEW r \in Runs, Acquire(w, r)
    PROVE  IInv'
<1>0. TypeOK /\ LeaseInv /\ ReconcileInv /\ AliveInv /\ NoDeadClaimInTheWay
  BY DEF IInv
<1> DEFINE a == run[r].attempt + 1
           row == LeaseRow(run[r], <<w, a>>)
           new == [Idle EXCEPT !.phase = "next", !.run = r, !.attempt = row.attempt]
<1>1. /\ worker[w].phase = "idle" /\ Available(run[r]) /\ run[r] \in Row
      /\ run' = [run EXCEPT ![r] = row] /\ worker' = [worker EXCEPT ![w] = new]
      /\ claim' = claim /\ landed' = landed /\ unclear' = unclear /\ outlived' = outlived
  BY <1>0 DEF Acquire, effects, TypeOK
<1>2. run[r].status = "pending" /\ run[r].attempt \in Nat /\ run[r].attempt < MaxAttempts
  BY <1>1, RunStoreAssumption DEF Available, Row
<1>3. <<w, a>> \in WorkerIds /\ a \in 1..MaxAttempts
  BY <1>2, RunStoreAssumption DEF WorkerIds
<1>4. /\ row \in Row /\ RowInv(row) /\ row.attempt = a /\ row.status = "leased"
      /\ row.leased_by = <<w, a>>
  BY <1>1, <1>3, LeaseFacts
<1>5. /\ new \in Process /\ new.phase = "next" /\ new.run = r /\ new.attempt = a
      /\ new.pos = 1 /\ new.exc = "none"
  <2>1. a \in 0..MaxAttempts
    BY <1>3
  <2>. QED
    BY <1>4, <2>1, IdleFacts DEF Process, Phases
<1> HIDE DEF row, new
<1>6. /\ run' \in [Runs -> Row] /\ run'[r] = row /\ \A q \in Runs : q # r => run'[q] = run[q]
  BY <1>0, <1>1, <1>4 DEF TypeOK
<1>7. /\ worker' \in [Workers -> Process] /\ worker'[w] = new
      /\ \A v \in Workers : v # w => worker'[v] = worker[v]
  BY <1>0, <1>1, <1>5 DEF TypeOK
<1>8. TypeOK'
  BY <1>0, <1>1, <1>6, <1>7 DEF TypeOK
<1>9. worker[w].run = NoRun /\ r # NoRun
  BY <1>0, <1>1, EffectClaimsAssumption DEF LeaseInv, Engaged
<1>10. Engaged'
  BY <1>0, <1>5, <1>7, <1>9 DEF LeaseInv, Engaged, AtStep
<1>11. \A q \in Runs : RowInv(run[q])'
  BY <1>0, <1>4, <1>6 DEF LeaseInv, RowInv
<1>12. Remembered'
  <2> SUFFICES ASSUME NEW v \in Workers, worker'[v].run # NoRun
               PROVE  /\ run'[worker'[v].run].status # "absent"
                      /\ worker'[v].attempt \in 1..run'[worker'[v].run].attempt
    BY DEF Remembered
  <2>1. CASE v = w
    BY <1>2, <1>4, <1>5, <1>6, <1>7, <2>1
  <2>2. CASE v # w /\ worker[v].run = r
    BY <1>0, <1>2, <1>4, <1>6, <1>7, <2>2 DEF LeaseInv, Remembered
  <2>3. CASE v # w /\ worker[v].run # r
    BY <1>0, <1>6, <1>7, <2>3, AtFacts DEF LeaseInv, Remembered
  <2>. QED
    BY <2>1, <2>2, <2>3
<1>13. LeaseNamesAttempt'
  BY <1>0, <1>4, <1>6 DEF LeaseInv, LeaseNamesAttempt
<1>14. LeaseInv'
  BY <1>10, <1>11, <1>12, <1>13 DEF LeaseInv
<1>15. QuietGrip
  <2>1. ASSUME NEW v \in Workers, NEW q \in Runs, NEW s \in Steps, Holds(v, q, s)'
        PROVE  v # w /\ worker'[v] = worker[v] /\ Holds(v, q, s)
    BY <1>5, <1>7, <2>1 DEF Holds, At, Gripping
  <2>. QED
    BY <1>1, <2>1 DEF QuietGrip
<1>16. Justified
  <2>1. \A q \in Runs, s \in Steps : landed'[q][s] >= landed[q][s]
    BY <1>0, <1>1 DEF TypeOK
  <2>2. \A q \in Runs : run'[q].status = "succeeded" => run[q].status = "succeeded"
    BY <1>4, <1>6
  <2>. QED
    BY <1>1, <1>5, <1>7, <2>1, <2>2 DEF Justified
<1>17. r \notin outlived => \A v \in Workers : worker[v].run # r
  BY <1>0, <1>2, <1>9 DEF AliveInv, AliveIsHolder, HeldBy
<1>18. AliveIsHolder'
  <2> SUFFICES ASSUME NEW v \in Workers, worker'[v].run # NoRun, worker'[v].run \notin outlived
               PROVE  HeldBy(run'[worker'[v].run], <<v, worker'[v].attempt>>)
    BY <1>1 DEF AliveIsHolder, Wid
  <2>1. CASE v = w
    BY <1>4, <1>5, <1>6, <1>7, <2>1 DEF HeldBy
  <2>2. CASE v # w
    <3>1. worker[v].run # r /\ worker[v].run \in Runs
      BY <1>0, <1>7, <1>17, <2>2, AtFacts DEF LeaseInv
    <3>. QED
      BY <1>0, <1>6, <1>7, <2>2, <3>1 DEF AliveInv, AliveIsHolder, Wid
  <2>. QED
    BY <2>1, <2>2
<1>19. LiveClaimIsOwn'
  <2> SUFFICES ASSUME NEW q \in Runs, NEW t \in Steps, q \notin outlived,
                      claim[q][t].status = "started", claim[q][t].live
               PROVE  /\ run'[q].status \notin {"absent", "pending"}
                      /\ \A v \in Workers : worker'[v].run = q =>
                            \/ Holds(v, q, t)'
                            \/ worker'[v].phase = "closing" /\ worker'[v].exc = "Exception"
    BY <1>1 DEF LiveClaimIsOwn
  <2>1. q # r
    BY <1>0, <1>2 DEF AliveInv, LiveClaimIsOwn
  <2>2. \A v \in Workers : worker'[v].run = q => worker'[v] = worker[v]
    BY <1>5, <1>7, <2>1
  <2>. QED
    BY <1>0, <1>6, <2>1, <2>2 DEF AliveInv, LiveClaimIsOwn, Holds, At
<1>20. MissingStaysMissing' /\ NoDeadClaimInTheWay'
  BY <1>0, <1>1, <1>5, <1>7 DEF AliveInv, MissingStaysMissing, NoDeadClaimInTheWay, At
<1>21. ReconcileInv'
  BY <1>0, <1>15, QuietReconcile
<1>22. PassedIsApplied' /\ SuccessIsComplete'
  BY <1>8, <1>16, JustifiedStep DEF IInv
<1>. QED
  BY <1>8, <1>14, <1>18, <1>19, <1>20, <1>21, <1>22 DEF IInv, AliveInv

(* What the except branches write: settled, no success, and back to the queue
   only after a TransientError. *)
LEMMA ClosedFacts ==
    ASSUME NEW row \in Row, RowInv(row), NEW wid, NEW a \in 1..MaxAttempts,
           HeldBy(row, wid) => a = row.attempt, NEW exc
    PROVE  /\ Settles(row, Closed(row, wid, a, exc))
           /\ Closed(row, wid, a, exc).status = "succeeded" => row.status = "succeeded"
           /\ exc = "Exception" /\ HeldBy(row, wid) =>
                Closed(row, wid, a, exc).status \notin {"absent", "pending"}
<1>1. Settles(row, row)
  BY BystandersSettle
<1>2. CASE exc = "RunCancelled"
  BY <1>1, <1>2, HolderSettles DEF Closed, AckCancelRow, ClosedRow, Row
<1>3. CASE exc # "RunCancelled" /\ ~HeldBy(row, wid)
  BY <1>1, <1>3 DEF Closed
<1>4. CASE exc # "RunCancelled" /\ HeldBy(row, wid)
  <2> DEFINE t == (exc = "TransientError")
  <2>1. t \in BOOLEAN
    OBVIOUS
  <2>2. Closed(row, wid, a, exc) = FailRow(row, FailTerminal(a, t))
    BY <1>4 DEF Closed
  <2>3. Settles(row, FailRow(row, FailTerminal(a, t)))
    BY <1>4, <2>1, HolderSettles
  <2>4. FailRow(row, FailTerminal(a, t)).status # "succeeded"
    BY DEF FailRow, ClosedRow, DelayedRow, Row
  <2>5. ASSUME exc = "Exception"
        PROVE  FailRow(row, FailTerminal(a, t)).status \notin {"absent", "pending"}
    <3>1. FailTerminal(a, t)
      BY <2>5 DEF FailTerminal
    <3>2. CASE row.cancel_requested
      BY <3>2 DEF FailRow, ClosedRow, Row
    <3>3. CASE ~row.cancel_requested
      BY <3>1, <3>3 DEF FailRow, ClosedRow, Row
    <3>. QED
      BY <3>2, <3>3
  <2>. QED
    BY <2>2, <2>3, <2>4, <2>5
<1>. QED
  BY <1>2, <1>3, <1>4

(* The process ends its attempt, by an exception or by the handler's return. *)
LEMMA ClosingSteps ==
    ASSUME IInv, NEW w \in Workers, CloseRun(w) \/ HandlerReturns(w)
    PROVE  IInv'
<1>0. TypeOK /\ LeaseInv /\ ReconcileInv /\ AliveInv /\ NoDeadClaimInTheWay
  BY DEF IInv
<1> DEFINE r == worker[w].run
           a == worker[w].attempt
<1>1. /\ worker[w].phase \in {"closing", "next"}
      /\ claim' = claim /\ landed' = landed /\ unclear' = unclear /\ outlived' = outlived
      /\ Leaves(w)
  BY <1>0, MoveForms DEF CloseRun, HandlerReturns, effects, Phases
<1>2. /\ r \in Runs /\ run[r] \in Row /\ RowInv(run[r]) /\ a \in 1..MaxAttempts
      /\ HeldBy(run[r], Wid(w)) => a = run[r].attempt
      /\ worker[w].phase # "idle" /\ r # NoRun
  BY <1>0, <1>1, FenceIsCurrent, AtWork
<1>3. \A s \in Steps : r \notin outlived /\ claim[r][s].status = "started" /\ claim[r][s].live
          => worker[w].phase = "closing" /\ worker[w].exc = "Exception" /\ HeldBy(run[r], Wid(w))
  BY <1>0, <1>1, <1>2 DEF AliveInv, AliveIsHolder, LiveClaimIsOwn, Holds, Gripping
<1>4. PICK new : /\ run' = [run EXCEPT ![r] = new] /\ Settles(run[r], new)
                 /\ new.status = "succeeded" =>
                      run[r].status = "succeeded" \/ \A s \in Steps : landed[r][s] >= 1
                 /\ \A s \in Steps :
                      r \notin outlived /\ claim[r][s].status = "started" /\ claim[r][s].live
                          => new.status \notin {"absent", "pending"}
  <2>1. CASE CloseRun(w)
    <3> DEFINE new == Closed(run[r], Wid(w), a, worker[w].exc)
    <3>1. run' = [run EXCEPT ![r] = new]
      BY <2>1 DEF CloseRun
    <3>2. /\ Settles(run[r], new)
          /\ new.status = "succeeded" => run[r].status = "succeeded"
          /\ worker[w].exc = "Exception" /\ HeldBy(run[r], Wid(w)) =>
               new.status \notin {"absent", "pending"}
      BY <1>2, ClosedFacts
    <3> HIDE DEF new
    <3>. QED
      BY <1>3, <3>1, <3>2
  <2>2. CASE HandlerReturns(w)
    <3>1. Settles(run[r], run[r])
      BY <1>2, BystandersSettle
    <3>2. PICK new : /\ run' = [run EXCEPT ![r] = new]
                     /\ \/ AckCancelHolds(run[r], Wid(w)) /\ new = AckCancelRow(run[r])
                        \/ CompleteHolds(run[r], Wid(w)) /\ new = CompleteRow(run[r], a)
                        \/ new = run[r]
      <4> DEFINE row == CASE AckCancelHolds(run[r], Wid(w)) -> AckCancelRow(run[r])
                          [] CompleteHolds(run[r], Wid(w)) -> CompleteRow(run[r], a)
                          [] OTHER -> run[r]
      <4>1. run' = [run EXCEPT ![r] = row]
        BY <2>2 DEF HandlerReturns
      <4>2. \/ AckCancelHolds(run[r], Wid(w)) /\ row = AckCancelRow(run[r])
            \/ CompleteHolds(run[r], Wid(w)) /\ row = CompleteRow(run[r], a)
            \/ row = run[r]
        OBVIOUS
      <4> HIDE DEF row
      <4>. QED
        BY <4>1, <4>2
    <3>3. Settles(run[r], new)
      BY <1>2, <3>1, <3>2, HolderSettles
    <3>4. ASSUME NEW s \in Steps PROVE landed[r][s] >= 1
      <4>1. PICK i \in 1..Len(Plan) : s = Plan[i]
        BY PlanFacts
      <4>2. i < worker[w].pos
        BY <1>0, <2>2, PlanFacts, AtFacts DEF HandlerReturns, LeaseInv
      <4>. QED
        BY <1>2, <4>1, <4>2 DEF IInv, PassedIsApplied
    <3>5. worker[w].phase = "next"
      BY <2>2 DEF HandlerReturns
    <3>. QED
      BY <1>3, <3>2, <3>3, <3>4, <3>5
  <2>. QED
    BY <2>1, <2>2
<1>5. /\ run' \in [Runs -> Row]
      /\ run'[r] = new /\ \A q \in Runs : q # r => run'[q] = run[q]
      /\ \A q \in Runs : Settles(run[q], run'[q])
  BY <1>0, <1>2, <1>4, RowWrite
<1>6. TypeOK'
  BY <1>0, <1>1, <1>5 DEF TypeOK, Leaves
<1>7. ReconcileInv'
  BY <1>0, <1>1, LeavesQuietly, QuietReconcile
<1>8. Justified
  <2>1. \A q \in Runs, s \in Steps : landed'[q][s] >= landed[q][s]
    BY <1>0, <1>1 DEF TypeOK
  <2>2. \A q \in Runs : run'[q].status = "succeeded" =>
            run[q].status = "succeeded" \/ \A s \in Steps : landed'[q][s] >= 1
    BY <1>1, <1>4, <1>5
  <2>. QED
    BY <1>1, <2>1, <2>2, IdleFacts DEF Leaves, Justified
<1>9. AliveInv' /\ NoDeadClaimInTheWay'
  BY <1>0, <1>1, <1>2, <1>4, <1>5, LeavesAlive
<1>. QED
  BY <1>1, <1>5, <1>6, <1>7, <1>8, <1>9, LeaveStep

(* The process dies, before its effect, after it, or anywhere else. *)
LEMMA CrashStep ==
    ASSUME IInv, NEW w \in Workers, Crash(w)
    PROVE  IInv'
<1>0. TypeOK /\ LeaseInv /\ ReconcileInv /\ AliveInv /\ NoDeadClaimInTheWay
  BY DEF IInv
<1> DEFINE r == worker[w].run
           s == At(w)
<1>1. /\ worker[w].phase # "idle"
      /\ run' = run /\ claim' = claim /\ unclear' = unclear /\ outlived' = outlived
      /\ Leaves(w)
      /\ \/ landed' = landed
         \/ worker[w].phase = "performing" /\ landed' = [landed EXCEPT ![r][s] = @ + 1]
  BY <1>0, MoveForms DEF Crash, Land, Phases
<1>2. r \in Runs /\ r # NoRun
  BY <1>1, AtWork
<1>3. worker[w].phase = "performing" => s \in Steps /\ Holds(w, r, s)
  BY <1>1, AtWork DEF AtStep, Holds, Gripping
<1> HIDE DEF r, s
<1>4. /\ landed' \in [Runs -> [Steps -> Nat]]
      /\ \A q \in Runs, t \in Steps : landed'[q][t] >= landed[q][t]
  BY <1>0, <1>1, <1>2, <1>3, LandFacts DEF TypeOK
<1>5. TypeOK'
  BY <1>0, <1>1, <1>4 DEF TypeOK, Leaves
<1>6. \A q \in Runs : Settles(run[q], run'[q])
  BY <1>0, <1>1, NoWrite
<1>7. ReconcileInv'
  <2>1. CASE landed' = landed
    BY <1>0, <1>1, <2>1, LeavesQuietly, QuietReconcile
  <2>2. CASE worker[w].phase = "performing" /\ landed' = [landed EXCEPT ![r][s] = @ + 1]
    <3>1. /\ landed[r][s] \in Nat /\ landed'[r][s] = landed[r][s] + 1
          /\ \A q \in Runs, t \in Steps : q # r \/ t # s => landed'[q][t] = landed[q][t]
      BY <1>0, <1>2, <1>3, <2>2, LandFacts
    <3>2. ASSUME NEW v \in Workers, NEW q \in Runs, NEW t \in Steps, Holds(v, q, t)'
          PROVE  v # w /\ Holds(v, q, t) /\ worker'[v] = worker[v]
      BY <1>1, <3>2, IdleFacts DEF Holds, At, Leaves, Gripping
    <3>3. Reconciled \subseteq Steps
      BY EffectClaimsAssumption
    <3>4. OneHolder'
      BY <1>0, <1>1, <3>2, <3>3 DEF ReconcileInv, OneHolder
    <3>5. AppliedIsClaimed'
      <4> SUFFICES ASSUME NEW q \in Runs, NEW t \in Reconciled \ unclear[q]
                   PROVE  /\ landed'[q][t] <= 1
                          /\ landed'[q][t] = 1 =>
                               /\ claim[q][t].status \in {"started", "completed"}
                               /\ \A v \in Workers : Holds(v, q, t)' => worker'[v].phase = "landed"
        BY <1>1 DEF AppliedIsClaimed
      <4>1. CASE q = r /\ t = s
        <5>1. landed[r][s] = 0
          BY <1>0, <1>3, <2>2, <3>1, <4>1 DEF ReconcileInv, AppliedIsClaimed
        <5>2. claim[r][s].status = "started"
          BY <1>0, <1>3, <2>2, <4>1 DEF ReconcileInv, OneHolder
        <5>3. \A v \in Workers : ~Holds(v, q, t)'
          BY <1>0, <1>3, <2>2, <3>2, <3>3, <4>1 DEF ReconcileInv, OneHolder
        <5>. QED
          BY <3>1, <4>1, <5>1, <5>2, <5>3
      <4>2. CASE q # r \/ t # s
        BY <1>0, <3>1, <3>2, <3>3, <4>2 DEF ReconcileInv, AppliedIsClaimed
      <4>. QED
        BY <4>1, <4>2
    <3>. QED
      BY <3>4, <3>5 DEF ReconcileInv
  <2>. QED
    BY <1>1, <2>1, <2>2
<1>8. Justified
  BY <1>0, <1>1, <1>4, LeavesJustified
<1>9. AliveInv' /\ NoDeadClaimInTheWay'
  BY <1>0, <1>1, <1>2, LeavesAlive DEF AliveInv, LiveClaimIsOwn, r
<1>. QED
  BY <1>1, <1>5, <1>6, <1>7, <1>8, <1>9, LeaveStep

-----------------------------------------------------------------------------
(* Initially nothing is admitted, claimed or applied. *)
LEMMA InitIInv == Init => IInv
<1> SUFFICES ASSUME Init PROVE IInv
  OBVIOUS
<1>1. AbsentRow \in Row /\ AbsentRow.status = "absent"
  BY RunStoreAssumption DEF AbsentRow, Row, Statuses
<1>2. NoClaim \in ClaimRow /\ NoClaim.status = "none"
  BY DEF NoClaim, ClaimRow
<1>3. TypeOK
  BY <1>1, <1>2, IdleFacts DEF Init, TypeOK
<1>4. \A w \in Workers : worker[w] = Idle
  BY DEF Init
<1>5. /\ \A r \in Runs : run[r] = AbsentRow
      /\ \A r \in Runs, s \in Steps : claim[r][s] = NoClaim /\ landed[r][s] = 0
  BY DEF Init
<1>6. \A r \in Runs : RowInv(run[r])
  BY DEF Init, RowInv, AbsentRow
<1>7. LeaseInv
  BY <1>1, <1>4, <1>5, <1>6, IdleFacts DEF LeaseInv, Engaged, Remembered, LeaseNamesAttempt, AtStep
<1>8. \A w \in Workers, r \in Runs, s \in Steps : ~Holds(w, r, s)
  BY <1>4, IdleFacts DEF Holds, Gripping
<1>9. Reconciled \subseteq Steps
  BY EffectClaimsAssumption
<1>10. ReconcileInv
  BY <1>5, <1>8, <1>9 DEF ReconcileInv, OneHolder, AppliedIsClaimed
<1>11. PassedIsApplied /\ SuccessIsComplete
  BY <1>1, <1>2, <1>4, <1>5, IdleFacts DEF PassedIsApplied, SuccessIsComplete
<1>12. AliveInv /\ NoDeadClaimInTheWay
  BY <1>1, <1>2, <1>4, <1>5, IdleFacts
  DEF AliveInv, AliveIsHolder, LiveClaimIsOwn, MissingStaysMissing, NoDeadClaimInTheWay
<1>. QED
  BY <1>3, <1>7, <1>10, <1>11, <1>12 DEF IInv

(* Every step keeps the invariant. *)
LEMMA NextIInv == IInv /\ [Next]_vars => IInv'
<1> SUFFICES ASSUME IInv, [Next]_vars PROVE IInv'
  OBVIOUS
<1>1. CASE UNCHANGED vars
  BY <1>1 DEF vars, IInv, TypeOK, LeaseInv, RowInv, Engaged, Remembered, LeaseNamesAttempt,
              ReconcileInv, OneHolder, AppliedIsClaimed, PassedIsApplied, SuccessIsComplete,
              AliveInv, AliveIsHolder, LiveClaimIsOwn, MissingStaysMissing,
              NoDeadClaimInTheWay, Holds, At, Wid, HeldBy
<1>2. ASSUME NEW r \in Runs, \/ Enqueue(r) \/ Cancel(r) \/ Expire(r) \/ Due(r) \/ Reap(r)
                             \/ \E s \in Steps : ClaimRunsOut(r, s)
      PROVE  IInv'
  BY <1>2, BystanderSteps, ReapStep, ClaimRunsOutStep
<1>3. ASSUME NEW w \in Workers, \/ \E r \in Runs : Acquire(w, r)
                                \/ Heartbeat(w) \/ RecordRaises(w)
                                \/ \E exc \in {"TransientError", "Exception"} : EffectRaises(w, exc)
                                \/ CloseRun(w) \/ HandlerReturns(w) \/ Crash(w)
      PROVE  IInv'
  BY <1>3, AcquireStep, BystanderSteps, UnclaimedSteps, EffectRaisesStep, ClosingSteps, CrashStep
<1>4. ASSUME NEW w \in Workers, PerformOnce(w) PROVE IInv'
  BY <1>4, UnclaimedSteps, ClaimStep, StoredStep, EffectReturnsStep, RecordSteps DEF PerformOnce
<1>. QED
  BY <1>1, <1>2, <1>3, <1>4 DEF Next

(* The invariant holds in every reachable state of perform_once and the lease. *)
THEOREM InvariantHolds == Spec => []IInv
BY InitIInv, NextIInv, PTL DEF Spec

(* The rows of run and side_effect and every process keep to their types. *)
THEOREM TypeCorrect == Spec => []TypeOK
<1>1. IInv => TypeOK
  BY DEF IInv
<1>. QED
  BY <1>1, InvariantHolds, PTL

(* An effect declared NEEDS_RECONCILIATION is applied at most once, and never
   with two attempts at it, over crashes, reaps, lapsed claims and retries
   (perform_once), unless it raised after it was applied. *)
THEOREM ReconciledAtMostOnce == Spec => []ReconciledOnce
<1>1. IInv => ReconciledOnce
  <2> SUFFICES ASSUME IInv, NEW r \in Runs, NEW s \in Reconciled \ unclear[r]
               PROVE  /\ landed[r][s] <= 1
                      /\ landed[r][s] = 1 => Executing(r, s) = {}
                      /\ \A v, w \in Executing(r, s) : v = w
    BY DEF ReconciledOnce
  <2>1. \A w \in Executing(r, s) : w \in Workers /\ Holds(w, r, s) /\ worker[w].phase # "landed"
    BY DEF Executing, Holds, Gripping
  <2>. QED
    BY <2>1 DEF IInv, ReconcileInv, OneHolder, AppliedIsClaimed
<1>. QED
  BY <1>1, InvariantHolds, PTL

(* A run that succeeded has had every effect of its plan applied, whichever
   attempt applied it (perform_once returning stored results). *)
THEOREM SuccessMeansDone == Spec => []SuccessIsComplete
<1>1. IInv => SuccessIsComplete
  BY DEF IInv
<1>. QED
  BY <1>1, InvariantHolds, PTL

(* EffectAlreadyRunning is met only beside an attempt that was alive when its
   lease was taken: a dead one's claims went with its lease (reap_expired). *)
THEOREM DeadClaimsAreReleased == Spec => []NoDeadClaimInTheWay
<1>1. IInv => NoDeadClaimInTheWay
  BY DEF IInv
<1>. QED
  BY <1>1, InvariantHolds, PTL
=============================================================================

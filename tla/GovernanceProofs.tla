-------------------------- MODULE GovernanceProofs --------------------------
(***************************************************************************)
(* Proofs about the parts of the platform that keep watch over it, one     *)
(* after the other: EvalGate, GoldenSet, Canary and AuditChain, for any    *)
(* number of runs, promotions, editors, versions, revisions, writers and   *)
(* events.                                                                 *)
(*                                                                         *)
(* EvalGate: promote writes what it decided from rows read earlier.  It    *)
(* may, because a row with a score is complete and never changes again     *)
(* (ScoredIsFinal), so that the verdict of a promotion that was not forced *)
(* is still true of the rows when it is written (VerdictsStand).           *)
(*                                                                         *)
(* GoldenSet: what a label or a mark is about to say has happened already, *)
(* and no saved edit is forgotten unless its review is cut off (EditorInv, *)
(* SayingsInv).                                                            *)
(*                                                                         *)
(* Canary, for any number of canaries, deploys and ticks: while an         *)
(* operation holds what it read, only operations that overlap it change    *)
(* the rows it is about (OperationInv), so the split stays whole in every  *)
(* step of an operation that was not overlapped.                           *)
(*                                                                         *)
(* AuditChain, for any number of retention passes: the predecessor a       *)
(* writer read under the lock stays the newest event though retention      *)
(* takes no lock, since what it deletes last becomes the anchor, unless    *)
(* the pass that sets it was overtaken (LinkInv, AnchorInv, PrefixInv).    *)
(***************************************************************************)
EXTENDS EvalGate, GoldenSet, Canary, AuditChain, FiniteSetTheorems, WellFoundedInduction, TLAPS

-----------------------------------------------------------------------------
(* The evaluation gate.                                                    *)
Scored(row) == row.recall # NoScore \/ row.pass # NoScore

\* Aggregates are written with the completion of the run.
ScoredIsComplete == \A r \in Runs : Scored(evals[r]) => evals[r].status = "completed"

\* What an unforced promotion found stands until it writes.
VerdictsStand ==
    \A p \in Promoters :
        LET promo == promoting[p] IN
        promo.run # NoRun /\ ~promo.force =>
            /\ Scored(evals[promo.run])
            /\ promo.against.run # NoRun /\ ~promo.against.forced =>
                  /\ Scored(evals[promo.against.run])
                  /\ ~Incomparable(evals[promo.run], evals[promo.against.run])

\* A promotion in progress has its run.
PromotesARun == \A p \in Promoters : promoting[p] # Idle => promoting[p].run \in Runs

BaselineScored == baseline.run # NoRun /\ ~baseline.forced => Scored(evals[baseline.run])

GateInv ==
    /\ TypeOK
    /\ ScoredIsComplete
    /\ VerdictsStand
    /\ PromotesARun
    /\ BaselineScored

\* Every step leaves the rows that have a score as they are.
ScoredIsFinal == \A r \in Runs : Scored(evals[r]) => evals'[r] = evals[r]

\* What an evaluation may do to the table: rows stay rows, a scored row stays as
\* it is, and a score comes with the completion.
EvalsMove ==
    /\ evals' \in [Runs -> EvalRow]
    /\ ScoredIsFinal
    /\ \A r \in Runs : Scored(evals'[r]) => evals'[r].status = "completed"

-----------------------------------------------------------------------------
(* A queued row is a row without a score (start_run). *)
LEMMA QueuedFacts ==
    ASSUME NEW v \in 0..MaxVersion
    PROVE  Queued(v) \in EvalRow /\ ~Scored(Queued(v))
<1>1. Cardinality(Cited) \in Nat
  BY EvalGateAssumption, FS_CardinalityType
<1>2. NoRow \in EvalRow /\ NoRow.recall = NoScore /\ NoRow.pass = NoScore
  BY <1>1, EvalGateAssumption DEF NoRow, EvalRow
<1>. QED
  BY <1>2 DEF Queued, EvalRow, Scored

(* The next row is one that is not in use. *)
LEMMA NextRunFacts ==
    ASSUME NextRun # NoRun
    PROVE  NextRun \in Runs /\ evals[NextRun].status = "none"
<1>. DEFINE free == {r \in Runs : evals[r].status = "none"}
<1>1. free # {}
  BY DEF NextRun
<1>2. NextRun = CHOOSE r \in free : TRUE
  BY <1>1 DEF NextRun
<1>3. NextRun \in free
  BY <1>1, <1>2
<1>. QED
  BY <1>3

(* Starting, beginning, completing and scheduling a run change only rows that
   have no score yet (start_run, runner.run, schedule_due). *)
LEMMA EvaluationsMove ==
    ASSUME TypeOK, ScoredIsComplete,
           (\E r \in Runs : Evaluates(r)) \/ ScheduleDue
    PROVE  EvalsMove
<1>. USE EvalGateAssumption
<1>0. evals \in [Runs -> EvalRow] /\ latest \in 0..MaxVersion
  BY DEF TypeOK
<1>1. ASSUME NEW r \in Runs, evals[r].status = "none", NEW v \in 0..MaxVersion,
             evals' = [evals EXCEPT ![r] = Queued(v)]
      PROVE  EvalsMove
  <2>1. evals'[r] = Queued(v) /\ \A x \in Runs \ {r} : evals'[x] = evals[x]
    BY <1>0, <1>1
  <2>2. ~Scored(evals[r])
    BY <1>1 DEF ScoredIsComplete
  <2>3. evals' \in [Runs -> EvalRow]
    BY <1>0, <1>1, QueuedFacts
  <2>4. ~Scored(evals'[r])
    BY <2>1, QueuedFacts
  <2>. QED
    BY <2>1, <2>2, <2>3, <2>4 DEF EvalsMove, ScoredIsFinal, ScoredIsComplete
<1>2. ASSUME NEW r \in Runs, NEW v \in 0..MaxVersion, StartRun(r, v) PROVE EvalsMove
  <2>1. evals[r].status = "none"
    BY <1>2, NextRunFacts DEF StartRun
  <2>2. v \in 0..MaxVersion /\ evals' = [evals EXCEPT ![r] = Queued(v)]
    BY <1>2 DEF StartRun
  <2>. QED
    BY <1>1, <2>1, <2>2
<1>3. ASSUME NEW r \in Runs, RunBegins(r) PROVE EvalsMove
  <2>1. /\ evals'[r] = [evals[r] EXCEPT !.status = "running"]
        /\ \A x \in Runs \ {r} : evals'[x] = evals[x]
    BY <1>0, <1>3 DEF RunBegins
  <2>2. [evals[r] EXCEPT !.status = "running"] \in EvalRow
    BY <1>0 DEF EvalRow
  <2>3. evals' \in [Runs -> EvalRow]
    BY <1>0, <1>3, <2>2 DEF RunBegins
  <2>4. ~Scored(evals[r])
    BY <1>3 DEF ScoredIsComplete, RunBegins
  <2>5. ~Scored(evals'[r])
    BY <1>0, <2>1, <2>4 DEF EvalRow, Scored
  <2>. QED
    BY <2>1, <2>3, <2>4, <2>5 DEF EvalsMove, ScoredIsFinal, ScoredIsComplete
<1>4. ASSUME NEW r \in Runs, NEW usable \in SUBSET Items, NEW recall \in Scores \cup {NoScore},
             NEW pass \in Scores \cup {NoScore}, RunCompletes(r, usable, recall, pass)
      PROVE  EvalsMove
  <2>. DEFINE row == [evals[r] EXCEPT !.status = "completed", !.recall = recall, !.pass = pass,
                                      !.scoreable = Cardinality(usable \cap Cited)]
  <2>1. Cardinality(usable \cap Cited) \in 0..Cardinality(Cited)
    BY FS_Subset, FS_CardinalityType
  <2>2. row \in EvalRow /\ row.status = "completed"
    BY <1>0, <2>1 DEF EvalRow
  <2>3. evals' = [evals EXCEPT ![r] = row]
    BY <1>0, <1>4 DEF RunCompletes
  <2>4. ~Scored(evals[r])
    BY <1>4 DEF ScoredIsComplete, RunCompletes
  <2>. HIDE DEF row
  <2>. QED
    BY <1>0, <2>2, <2>3, <2>4 DEF EvalsMove, ScoredIsFinal, ScoredIsComplete
<1>5. ASSUME ScheduleDue PROVE EvalsMove
  <2>1. CASE latest = 0 \/ NextRun = NoRun
    BY <1>0, <1>5, <2>1 DEF ScheduleDue, EvalsMove, ScoredIsFinal, ScoredIsComplete
  <2>2. CASE ~(latest = 0 \/ NextRun = NoRun)
    BY <1>0, <1>1, <1>5, <2>2, NextRunFacts DEF ScheduleDue
  <2>. QED
    BY <2>1, <2>2
<1>. QED
  BY <1>2, <1>3, <1>4, <1>5 DEF Evaluates

(* Every row, the baseline, the promotions and the due time keep to their
   shapes: the policy never leaves more to wait than its interval
   (update_policy, schedule_due). *)
LEMMA GateTypeStep ==
    ASSUME TypeOK, ScoredIsComplete, [Next]_vars
    PROVE  TypeOK'
<1>. USE EvalGateAssumption
<1>1. CASE NewVersion
  BY <1>1 DEF TypeOK, NewVersion, policy
<1>2. CASE \E r \in Runs : Evaluates(r)
  <2>1. evals' \in [Runs -> EvalRow]
    BY <1>2, EvaluationsMove DEF EvalsMove
  <2>2. UNCHANGED <<latest, baseline, promoting, interval, wait>>
    BY <1>2 DEF Evaluates, StartRun, RunBegins, RunCompletes, policy
  <2>. QED
    BY <2>1, <2>2 DEF TypeOK
<1>3. ASSUME NEW p \in Promoters, Promotes(p) PROVE TypeOK'
  <2>1. UNCHANGED <<latest, evals, interval, wait>>
    BY <1>3 DEF Promotes, PromoteReads, PromoteWrites, PromoteFails, policy
  <2>2. Idle \in [run : Runs \cup {NoRun}, against : Baseline, force : BOOLEAN]
    BY DEF Idle, NoBaseline, Baseline
  <2>3. baseline' \in Baseline
    BY <1>3 DEF TypeOK, Promotes, PromoteReads, PromoteWrites, PromoteFails, Baseline
  <2>4. promoting' \in [Promoters -> [run : Runs \cup {NoRun}, against : Baseline,
                                      force : BOOLEAN]]
    <3>1. ASSUME NEW r \in Runs, NEW force \in BOOLEAN, NEW row, PromoteReads(p, r, row, force)
          PROVE  promoting' \in [Promoters -> [run : Runs \cup {NoRun}, against : Baseline,
                                               force : BOOLEAN]]
      <4>1. Clears(row, baseline.run) \in BOOLEAN
        BY DEF Clears, Unscored
      <4>2. [run |-> r, against |-> baseline, force |-> ~Clears(row, baseline.run)]
               \in [run : Runs \cup {NoRun}, against : Baseline, force : BOOLEAN]
        BY <4>1 DEF TypeOK
      <4>. QED
        BY <3>1, <4>2 DEF TypeOK, PromoteReads
    <3>2. CASE PromoteWrites(p) \/ PromoteFails(p)
      BY <2>2, <3>2 DEF TypeOK, PromoteWrites, PromoteFails
    <3>. QED
      BY <1>3, <3>1, <3>2 DEF Promotes
  <2>. QED
    BY <2>1, <2>3, <2>4 DEF TypeOK
<1>4. CASE Tick
  BY <1>4 DEF TypeOK, Tick
<1>5. CASE ScheduleDue
  <2>1. evals' \in [Runs -> EvalRow]
    BY <1>5, EvaluationsMove DEF EvalsMove
  <2>. QED
    BY <1>5, <2>1 DEF TypeOK, ScheduleDue
<1>6. ASSUME NEW i \in Intervals, UpdatePolicy(i) PROVE TypeOK'
  BY <1>6 DEF TypeOK, UpdatePolicy, NextDue
<1>7. CASE UNCHANGED vars
  BY <1>7 DEF TypeOK, vars, policy
<1>. QED
  BY <1>1, <1>2, <1>3, <1>4, <1>5, <1>6, <1>7 DEF Next

(* The invariant is inductive. *)
LEMMA GateStep ==
    ASSUME GateInv, [Next]_vars
    PROVE  GateInv' /\ ScoredIsFinal
<1>. USE EvalGateAssumption
<1>0. TypeOK /\ ScoredIsComplete /\ TypeOK'
  BY GateTypeStep DEF GateInv
<1>1. CASE EvalsMove /\ UNCHANGED <<baseline, promoting>>
  <2>1. ScoredIsComplete' /\ ScoredIsFinal
    BY <1>1 DEF EvalsMove, ScoredIsComplete
  <2>2. \A r \in Runs : Scored(evals[r]) => evals'[r] = evals[r]
    BY <2>1 DEF ScoredIsFinal
  <2>3. BaselineScored'
    BY <1>0, <1>1, <2>2 DEF GateInv, BaselineScored, TypeOK, Baseline
  <2>4. VerdictsStand'
    BY <1>0, <1>1, <2>2 DEF GateInv, VerdictsStand, TypeOK, Baseline
  <2>5. PromotesARun'
    BY <1>1 DEF GateInv, PromotesARun
  <2>. QED
    BY <1>0, <2>1, <2>3, <2>4, <2>5 DEF GateInv
<1>2. CASE evals' = evals /\ UNCHANGED <<baseline, promoting>>
  BY <1>0, <1>1, <1>2 DEF EvalsMove, ScoredIsFinal, ScoredIsComplete, TypeOK
<1>3. ASSUME NEW p \in Promoters, Promotes(p) PROVE GateInv' /\ ScoredIsFinal
  <2>0. evals' = evals /\ ScoredIsFinal /\ ScoredIsComplete'
    BY <1>0, <1>3 DEF Promotes, PromoteReads, PromoteWrites, PromoteFails, ScoredIsFinal,
                      ScoredIsComplete
  <2>1. ASSUME NEW r \in Runs, NEW force \in BOOLEAN, NEW row \in Loaded(r), PromoteReads(p, r, row, force)
        PROVE  GateInv'
    <3>. DEFINE promo == [run |-> r, against |-> baseline,
                          force |-> ~Clears(row, baseline.run)]
    <3>0. row = evals[r] \/ Unscored(row)
      <4>1. \A v : Unscored(Running(v))
        BY DEF Running, Queued, NoRow, Unscored
      <4>. QED
        BY <4>1 DEF Loaded
    <3>1. /\ baseline' = baseline /\ promoting'[p] = promo
          /\ \A x \in Promoters \ {p} : promoting'[x] = promoting[x]
      BY <1>0, <2>1 DEF PromoteReads, TypeOK
    <3>2. ~promo.force => /\ Scored(evals[r])
                          /\ baseline.run # NoRun => ~Incomparable(evals[r], evals[baseline.run])
      BY <3>0 DEF Clears, Unscored, Scored
    <3>3. baseline.run # NoRun /\ ~baseline.forced => Scored(evals[baseline.run])
      BY DEF GateInv, BaselineScored
    <3>4. promo.run = r /\ promo.against = baseline
      OBVIOUS
    <3>. HIDE DEF promo
    <3>5. VerdictsStand'
      BY <2>0, <3>1, <3>2, <3>3, <3>4 DEF GateInv, VerdictsStand
    <3>6. BaselineScored'
      BY <2>0, <3>1 DEF GateInv, BaselineScored
    <3>7. PromotesARun'
      BY <3>1, <3>4 DEF GateInv, PromotesARun
    <3>. QED
      BY <1>0, <2>0, <3>5, <3>6, <3>7 DEF GateInv
  <2>2. ASSUME PromoteWrites(p) \/ PromoteFails(p) PROVE GateInv'
    <3>1. promoting'[p] = Idle /\ \A x \in Promoters \ {p} : promoting'[x] = promoting[x]
      BY <1>0, <2>2 DEF PromoteWrites, PromoteFails, TypeOK
    <3>2. VerdictsStand'
      BY <2>0, <3>1 DEF GateInv, VerdictsStand, Idle
    <3>3. BaselineScored'
      BY <2>0, <2>2 DEF GateInv, BaselineScored, VerdictsStand, PromoteWrites, PromoteFails
    <3>4. PromotesARun'
      BY <3>1 DEF GateInv, PromotesARun
    <3>. QED
      BY <1>0, <2>0, <3>2, <3>3, <3>4 DEF GateInv
  <2>. QED
    BY <1>3, <2>0, <2>1, <2>2 DEF Promotes
<1>4. CASE (\E r \in Runs : Evaluates(r)) \/ ScheduleDue
  <2>1. UNCHANGED <<baseline, promoting>>
    BY <1>4 DEF Evaluates, StartRun, RunBegins, RunCompletes, ScheduleDue
  <2>. QED
    BY <1>0, <1>1, <1>4, <2>1, EvaluationsMove
<1>5. CASE NewVersion \/ Tick \/ (\E i \in Intervals : UpdatePolicy(i)) \/ UNCHANGED vars
  BY <1>2, <1>5 DEF NewVersion, Tick, UpdatePolicy, vars
<1>. QED
  BY <1>3, <1>4, <1>5 DEF Next

-----------------------------------------------------------------------------
(* Every state of the evaluation gate satisfies the inductive invariant. *)
THEOREM GateHolds == Spec => []GateInv
<1>1. Init => GateInv
  <2>. SUFFICES ASSUME Init PROVE GateInv
    OBVIOUS
  <2>. USE EvalGateAssumption
  <2>1. NoRow \in EvalRow /\ ~Scored(NoRow)
    <3>1. Cardinality(Cited) \in Nat
      BY FS_CardinalityType
    <3>. QED
      BY <3>1 DEF NoRow, EvalRow, Scored
  <2>2. /\ NoBaseline \in Baseline /\ NoBaseline.run = NoRun /\ Idle.run = NoRun
        /\ Idle \in [run : Runs \cup {NoRun}, against : Baseline, force : BOOLEAN]
    BY DEF NoBaseline, Idle, Baseline
  <2>3. TypeOK
    BY <2>1, <2>2 DEF Init, TypeOK
  <2>4. ScoredIsComplete /\ VerdictsStand /\ PromotesARun /\ BaselineScored
    BY <2>1, <2>2 DEF Init, ScoredIsComplete, VerdictsStand, PromotesARun, BaselineScored
  <2>. QED
    BY <2>3, <2>4 DEF GateInv
<1>2. GateInv /\ [Next]_vars => GateInv'
  BY GateStep
<1>. QED
  BY <1>1, <1>2, PTL DEF Spec

(* Rows, the baseline, promotions and the policy keep to their shapes; the wait
   for the next evaluation never exceeds the interval. *)
THEOREM GateTypeCorrect == Spec => []TypeOK
<1>1. GateInv => TypeOK
  BY DEF GateInv
<1>. QED
  BY <1>1, GateHolds, PTL

(* A run that has a score is finished with: no step, of a run, a schedule or a
   promotion, changes its row (runner.run writes the aggregates once). *)
THEOREM ScoresAreFinal == Spec => [][ScoredIsFinal]_vars
<1>1. GateInv /\ [Next]_vars => [ScoredIsFinal]_vars
  BY GateStep
<1>. QED
  BY <1>1, GateHolds, PTL DEF Spec

(* A baseline that nobody forced is a completed run with at least one score,
   whatever was still running when it was promoted. *)
THEOREM BaselineMeasured == Spec => []BaselineIsScored
<1>1. GateInv => BaselineIsScored
  BY EvalGateAssumption DEF GateInv, TypeOK, Baseline, BaselineScored, ScoredIsComplete, Scored,
                            BaselineIsScored
<1>. QED
  BY <1>1, GateHolds, PTL

\* The step NoSilentRegression speaks of.
Regressionless(p) ==
    promoting[p] # Idle /\ baseline' # baseline /\ promoting'[p] = Idle
        /\ ~baseline'.forced /\ baseline'.run = promoting[p].run
        /\ promoting[p].against = baseline /\ baseline.run # NoRun
        /\ ~baseline.forced
    => LET new == evals[baseline'.run]
           old == evals[baseline.run]
       IN  /\ new.version = old.version /\ new.scoreable >= old.scoreable
           /\ old.recall # NoScore => new.recall \in Scores /\ new.recall + Tolerance >= old.recall
           /\ old.pass # NoScore => new.pass \in Scores /\ new.pass + Tolerance >= old.pass

(* A promotion that was compared with the baseline it replaces, neither of them
   forced, replaces it by a run of the same version that scored no fewer items and
   lost no metric beyond the tolerance (promotion.evaluate and promote). *)
THEOREM NothingRegresses == Spec => NoSilentRegression
<1>1. ASSUME GateInv, [Next]_vars, NEW p \in Promoters
      PROVE  Regressionless(p)
  <2>. SUFFICES ASSUME promoting[p] # Idle, baseline' # baseline, promoting'[p] = Idle,
                       ~baseline'.forced, baseline'.run = promoting[p].run,
                       promoting[p].against = baseline, baseline.run # NoRun, ~baseline.forced
                PROVE  LET new == evals[baseline'.run]
                           old == evals[baseline.run]
                       IN  /\ new.version = old.version /\ new.scoreable >= old.scoreable
                           /\ old.recall # NoScore =>
                                 new.recall \in Scores /\ new.recall + Tolerance >= old.recall
                           /\ old.pass # NoScore =>
                                 new.pass \in Scores /\ new.pass + Tolerance >= old.pass
    BY DEF Regressionless
  <2>. USE EvalGateAssumption
  <2>1. PICK x \in Promoters : PromoteWrites(x)
    BY <1>1 DEF Next, vars, NewVersion, Evaluates, StartRun, RunBegins, RunCompletes, Promotes,
                PromoteReads, PromoteFails, Tick, ScheduleDue, UpdatePolicy
  <2>2. x = p
    BY <1>1, <2>1 DEF PromoteWrites, GateInv, TypeOK
  <2>3. promoting[p].run \in Runs /\ ~promoting[p].force /\ baseline.run \in Runs
    BY <1>1, <2>1, <2>2 DEF PromoteWrites, GateInv, TypeOK, Baseline, PromotesARun
  <2>4. ~Incomparable(evals[promoting[p].run], evals[baseline.run])
    BY <1>1, <2>3 DEF GateInv, VerdictsStand
  <2>5. evals[promoting[p].run] \in EvalRow /\ evals[baseline.run] \in EvalRow
    BY <1>1, <2>3 DEF GateInv, TypeOK
  <2>6. Cardinality(Cited) \in Nat
    BY FS_CardinalityType
  <2>7. ASSUME NEW base \in Scores \cup {NoScore}, NEW value \in Scores \cup {NoScore},
               ~Fell(base, value), base # NoScore
        PROVE  value \in Scores /\ value + Tolerance >= base
    <3>1. value # NoScore /\ ~(value - base < -Tolerance)
      BY <2>7 DEF Fell
    <3>2. value \in Scores /\ value \in Nat /\ base \in Nat /\ Tolerance \in Nat
      BY <2>7, <3>1
    <3>. QED
      BY <3>1, <3>2
  <2>8. /\ evals[promoting[p].run].version = evals[baseline.run].version
        /\ ~(evals[promoting[p].run].scoreable < evals[baseline.run].scoreable)
        /\ ~Fell(evals[baseline.run].recall, evals[promoting[p].run].recall)
        /\ ~Fell(evals[baseline.run].pass, evals[promoting[p].run].pass)
    BY <2>4 DEF Incomparable, Worse
  <2>9. evals[promoting[p].run].scoreable >= evals[baseline.run].scoreable
    BY <2>5, <2>6, <2>8 DEF EvalRow
  <2>10. /\ evals[promoting[p].run].recall \in Scores \cup {NoScore}
         /\ evals[promoting[p].run].pass \in Scores \cup {NoScore}
         /\ evals[baseline.run].recall \in Scores \cup {NoScore}
         /\ evals[baseline.run].pass \in Scores \cup {NoScore}
    BY <2>5 DEF EvalRow
  <2>. QED
    BY <2>7, <2>8, <2>9, <2>10
<1>2. GateInv /\ [Next]_vars => [\A p \in Promoters : Regressionless(p)]_vars
  BY <1>1
<1>3. Spec => [][\A p \in Promoters : Regressionless(p)]_vars
  BY <1>2, GateHolds, PTL DEF Spec
<1>. QED
  BY <1>3 DEF NoSilentRegression, Regressionless

-----------------------------------------------------------------------------
(* The golden set.                                                         *)
\* What a label or a mark is about to say has happened already.
EditorInv(e) ==
    /\ editor[e].op = "reviewed" => \A i \in editor[e].items : edited[i] # "no"
    /\ editor[e].op = "mined" => editor[e].items \subseteq held
    /\ editor[e].op = "curate" => editor[e].items \subseteq Questions

\* What the labels and the marks say has happened, and no saved edit is forgotten.
SayingsInv ==
    /\ \A i \in SetItems : source[i] = "sme_edited" => edited[i] # "no"
    /\ \A i \in SetItems : edited[i] = "saved" => source[i] = "sme_edited" \/ Labelling(i)
    /\ \A g \in Gaps : gap[g] = "seeded" => g \in held

GoldenSetInv ==
    /\ GoldenSetTypeOK
    /\ \A e \in Editors : EditorInv(e)
    /\ SayingsInv

\* The types of the tables and of what is remembered of them.
TablesOK ==
    /\ versions \in Seq(Contents) /\ Len(versions) <= MaxVersions
    /\ source \in [SetItems -> {"none", "llm_drafted", "sme_edited"}]
    /\ unusable \subseteq Questions
    /\ gap \in [Gaps -> {"none", "open", "seeded", "purged"}]
    /\ approved \subseteq Questions
    /\ requests \in 0..MaxRequests
    /\ held \subseteq SetItems
    /\ edited \in [SetItems -> {"no", "saved", "cut"}]

\* What was once in a version, and what was once edited, stays so.
PastKept ==
    /\ held \subseteq held'
    /\ \A i \in SetItems : edited[i] # "no" => edited'[i] # "no"

(* datasets.save stores a version of the type, and its items are held from then on. *)
LEMMA SaveFacts ==
    ASSUME GoldenSetTypeOK, NEW content \in Contents, NEW base, Save(content, base)
    PROVE  /\ versions' \in Seq(Contents) /\ Len(versions') <= MaxVersions
           /\ held \subseteq held' /\ held' \subseteq SetItems
           /\ \A i \in SetItems : content[i] # "absent" => i \in held'
<1>0. versions \in Seq(Contents) /\ Len(versions) \in Nat /\ Len(versions) <= MaxVersions
  BY DEF GoldenSetTypeOK
<1>1. /\ held \subseteq held' /\ held' \subseteq SetItems
      /\ \A i \in SetItems : content[i] # "absent" => i \in held'
  BY DEF Save, GoldenSetTypeOK
<1>2. ASSUME NEW k \in 1..(Len(versions) + 1), Len(versions) < MaxVersions,
             versions' = InsertAt(versions, k, content)
      PROVE  versions' \in Seq(Contents) /\ Len(versions') <= MaxVersions
  <2>. DEFINE a == SubSeq(versions, 1, k - 1)
              z == SubSeq(versions, k, Len(versions))
  <2>1. a \in Seq(Contents) /\ Len(a) = k - 1
    BY <1>0
  <2>2. z \in Seq(Contents) /\ Len(z) = Len(versions) - k + 1
    BY <1>0
  <2>3. <<content>> \in Seq(Contents) /\ Len(<<content>>) = 1
    OBVIOUS
  <2>4. versions' = a \o <<content>> \o z
    BY <1>2 DEF InsertAt
  <2>. HIDE DEF a, z
  <2>5. a \o <<content>> \in Seq(Contents) /\ Len(a \o <<content>>) = k
    BY <2>1, <2>3
  <2>6. \A x, y \in Seq(Contents) : x \o y \in Seq(Contents) /\ Len(x \o y) = Len(x) + Len(y)
    OBVIOUS
  <2>7. versions' \in Seq(Contents) /\ Len(versions') = k + Len(z)
    BY <2>2, <2>4, <2>5, <2>6, Zenon
  <2>. QED
    BY <1>0, <1>2, <2>2, <2>7, GoldenSetAssumption
<1>. QED
  BY <1>0, <1>1, <1>2 DEF Save

(* Retention leaves versions of the type. *)
LEMMA PurgeFacts ==
    ASSUME GoldenSetTypeOK, NEW v \in 1..Len(versions), PurgeVersion(v)
    PROVE  versions' \in Seq(Contents) /\ Len(versions') <= MaxVersions
<1>0. versions \in Seq(Contents) /\ Len(versions) \in Nat /\ Len(versions) <= MaxVersions
  BY DEF GoldenSetTypeOK
<1>. DEFINE a == SubSeq(versions, 1, v - 1)
            z == SubSeq(versions, v + 1, Len(versions))
<1>1. a \in Seq(Contents) /\ Len(a) = v - 1
  BY <1>0
<1>2. z \in Seq(Contents) /\ Len(z) = Len(versions) - v
  BY <1>0
<1>3. versions' = a \o z
  BY DEF PurgeVersion, RemoveAt
<1>. HIDE DEF a, z
<1>4. \A x, y \in Seq(Contents) : x \o y \in Seq(Contents) /\ Len(x \o y) = Len(x) + Len(y)
  OBVIOUS
<1>5. versions' \in Seq(Contents) /\ Len(versions') = Len(a) + Len(z)
  BY <1>1, <1>2, <1>3, <1>4, Zenon
<1>. QED
  BY <1>0, <1>1, <1>2, <1>5, GoldenSetAssumption

(* What a request loads is a content. *)
LEMMA LatestIsContent ==
    ASSUME GoldenSetTypeOK
    PROVE  Empty \in Contents /\ Latest \in Contents
<1>1. Empty \in Contents
  BY DEF Empty, Contents
<1>2. ASSUME versions # <<>>
      PROVE  Last(versions) \in Contents
  BY <1>2 DEF GoldenSetTypeOK, Last
<1>. QED
  BY <1>1, <1>2 DEF Latest

(* A request that goes on keeps its items, one that ends keeps nothing. *)
LEMMA EditorMoves ==
    ASSUME GoldenSetTypeOK, NEW e \in Editors,
           NEW op \in {"drafted", "reviewed", "mined"}
    PROVE  /\ Becomes(e, op) => /\ editor' \in [Editors -> Edit]
                                /\ editor'[e].op = op
                                /\ editor'[e].items = editor[e].items
                                /\ \A f \in Editors \ {e} : editor'[f] = editor[f]
           /\ Done(e) => /\ editor' \in [Editors -> Edit]
                         /\ editor'[e].op = "none"
                         /\ \A f \in Editors \ {e} : editor'[f] = editor[f]
<1>1. editor \in [Editors -> Edit] /\ editor[e] \in Edit /\ editor[e].items \in SUBSET SetItems
  BY DEF GoldenSetTypeOK, Edit
<1>2. ASSUME NEW items \in SUBSET SetItems
      PROVE  LET y == [NoEdit EXCEPT !.op = op, !.items = items] IN
             y \in Edit /\ y.op = op /\ y.items = items
  BY LatestIsContent DEF Edit, NoEdit, Ops
<1>3. NoEdit \in Edit /\ NoEdit.op = "none"
  BY LatestIsContent DEF Edit, NoEdit, Ops
<1>4. ASSUME Becomes(e, op)
      PROVE  /\ editor' \in [Editors -> Edit]
             /\ editor'[e].op = op
             /\ editor'[e].items = editor[e].items
             /\ \A f \in Editors \ {e} : editor'[f] = editor[f]
  <2>. DEFINE y == [NoEdit EXCEPT !.op = op, !.items = editor[e].items]
  <2>1. y \in Edit /\ y.op = op /\ y.items = editor[e].items
    BY <1>1, <1>2
  <2>2. editor' = [editor EXCEPT ![e] = y]
    BY <1>4 DEF Becomes
  <2>. HIDE DEF y
  <2>. QED
    BY <1>1, <2>1, <2>2
<1>5. ASSUME Done(e)
      PROVE  /\ editor' \in [Editors -> Edit]
             /\ editor'[e].op = "none"
             /\ \A f \in Editors \ {e} : editor'[f] = editor[f]
  <2>1. editor' = [editor EXCEPT ![e] = NoEdit]
    BY <1>5 DEF Done
  <2>. QED
    BY <1>1, <1>3, <2>1
<1>. QED
  BY <1>4, <1>5

(* A step of one request, which leaves the past and the other requests alone,
   keeps what every request is about to say. *)
LEMMA OthersKept ==
    ASSUME GoldenSetInv, PastKept, NEW e \in Editors, editor' \in [Editors -> Edit],
           \A f \in Editors \ {e} : editor'[f] = editor[f],
           EditorInv(e)', TablesOK', SayingsInv'
    PROVE  GoldenSetInv'
<1>1. ASSUME NEW f \in Editors, f # e
      PROVE  EditorInv(f)'
  <2>1. EditorInv(f) /\ editor'[f] = editor[f] /\ editor[f].items \subseteq SetItems
    BY <1>1 DEF GoldenSetInv, GoldenSetTypeOK, Edit
  <2>. QED
    BY <2>1 DEF EditorInv, PastKept
<1>. QED
  BY <1>1 DEF GoldenSetInv, GoldenSetTypeOK, TablesOK

(* The same when no request moves. *)
LEMMA AllKept ==
    ASSUME GoldenSetInv, PastKept, editor' = editor, TablesOK', SayingsInv'
    PROVE  GoldenSetInv'
<1>1. ASSUME NEW f \in Editors
      PROVE  EditorInv(f)'
  <2>1. EditorInv(f) /\ editor'[f] = editor[f] /\ editor[f].items \subseteq SetItems
    BY DEF GoldenSetInv, GoldenSetTypeOK, Edit
  <2>. QED
    BY <2>1 DEF EditorInv, PastKept
<1>. QED
  BY <1>1 DEF GoldenSetInv, GoldenSetTypeOK, TablesOK

\* A step that says nothing new of the reviews and the gaps.
SaidBefore ==
    /\ UNCHANGED edited /\ held \subseteq held'
    /\ \A i \in SetItems : source'[i] = "sme_edited" <=> source[i] = "sme_edited"
    /\ \A g \in Gaps : gap'[g] = "seeded" => gap[g] = "seeded"

(* Such a step keeps what was said, if no review that was about to write its label
   moves. *)
LEMMA SayingsKept ==
    ASSUME GoldenSetInv, SaidBefore, NEW e,
           \A f \in Editors \ {e} : editor'[f] = editor[f],
           editor'[e] = editor[e] \/ editor[e].op # "reviewed"
    PROVE  SayingsInv' /\ PastKept
<1>1. \A i : Labelling(i) => Labelling(i)'
  BY DEF Labelling
<1>. QED
  BY <1>1 DEF GoldenSetInv, SayingsInv, SaidBefore, PastKept

(* Editors that begin, save, label, mark, fail and overlap, retention and the
   session's own routes keep the invariant. *)
LEMMA GoldenSetStep ==
    ASSUME GoldenSetInv, [GoldenSetNext]_goldenSetVars
    PROVE  GoldenSetInv'
<1>0. GoldenSetTypeOK /\ TablesOK /\ SayingsInv /\ \A e \in Editors : EditorInv(e) /\ editor[e] \in Edit
  BY DEF GoldenSetInv, GoldenSetTypeOK, TablesOK
<1>t. \A e \in Editors : /\ editor[e].base \in Contents /\ editor[e].items \subseteq SetItems
                         /\ editor[e].answer \in {"blank", "sme"}
  <2>1. \A x \in Edit : x.base \in Contents /\ x.items \subseteq SetItems /\ x.answer \in {"blank", "sme"}
    BY DEF Edit
  <2>. QED
    BY <1>0, <2>1
<1>1. ASSUME NEW e \in Editors, Fails(e)
      PROVE  GoldenSetInv'
  <2>1. editor' \in [Editors -> Edit] /\ editor'[e].op = "none" /\ \A f \in Editors \ {e} : editor'[f] = editor[f]
    BY <1>0, <1>1, EditorMoves DEF Fails
  <2>2. UNCHANGED <<versions, source, unusable, gap, approved, requests, held>>
    BY <1>1 DEF Fails
  <2>3. /\ edited' \in [SetItems -> {"no", "saved", "cut"}]
        /\ \A i \in SetItems : edited[i] # "no" => edited'[i] # "no"
        /\ \A i \in SetItems : edited'[i] = "saved" =>
              edited[i] = "saved" /\ ~(editor[e].op = "reviewed" /\ i \in editor[e].items)
    BY <1>0, <1>1 DEF Fails, TablesOK
  <2>4. \A i \in SetItems : edited'[i] = "saved" => source'[i] = "sme_edited" \/ Labelling(i)'
    BY <1>0, <2>1, <2>2, <2>3 DEF SayingsInv, Labelling
  <2>5. SayingsInv' /\ PastKept /\ TablesOK'
    BY <1>0, <2>2, <2>3, <2>4 DEF SayingsInv, PastKept, TablesOK
  <2>6. EditorInv(e)'
    BY <2>1 DEF EditorInv
  <2>. QED
    BY <2>1, <2>5, <2>6, OthersKept
<1>2. ASSUME NEW e \in Editors, NEW content \in Contents, NEW base, NEW op \in {"drafted", "mined"},
             Save(content, base), Becomes(e, op), UNCHANGED <<source, unusable, gap, approved, requests, edited>>,
             editor[e].op # "reviewed",
             op = "mined" => \A i \in editor[e].items : content[i] # "absent"
      PROVE  GoldenSetInv'
  <2>1. /\ versions' \in Seq(Contents) /\ Len(versions') <= MaxVersions
        /\ held \subseteq held' /\ held' \subseteq SetItems
        /\ \A i \in SetItems : content[i] # "absent" => i \in held'
    BY <1>0, <1>2, SaveFacts
  <2>2. /\ editor' \in [Editors -> Edit] /\ \A f \in Editors \ {e} : editor'[f] = editor[f]
        /\ editor'[e].op = op /\ editor'[e].items = editor[e].items
    BY <1>0, <1>2, EditorMoves
  <2>3. SaidBefore
    BY <1>2, <2>1 DEF SaidBefore
  <2>4. SayingsInv' /\ PastKept
    BY <1>2, <2>2, <2>3, SayingsKept
  <2>5. EditorInv(e)'
    BY <1>2, <1>t, <2>1, <2>2 DEF EditorInv
  <2>6. TablesOK'
    BY <1>0, <1>2, <2>1 DEF TablesOK
  <2>. QED
    BY <2>2, <2>4, <2>5, <2>6, OthersKept
<1>3. ASSUME NEW e \in Editors, DraftSaves(e)
      PROVE  GoldenSetInv'
  <2>1. Applied(editor[e].base, editor[e].items) \in Contents
    BY <1>t DEF Applied, Contents
  <2>. QED
    BY <1>2, <1>3, <2>1 DEF DraftSaves
<1>4. ASSUME NEW e \in Editors, ReviewSaves(e)
      PROVE  GoldenSetInv'
  <2>. DEFINE content == [i \in SetItems |-> IF i \in editor[e].items THEN editor[e].answer
                                             ELSE editor[e].base[i]]
  <2>1. content \in Contents
    BY <1>t DEF Contents
  <2>2. Save(content, editor[e].base) /\ Becomes(e, "reviewed") /\ editor[e].op = "review"
        /\ UNCHANGED <<source, unusable, gap, approved, requests>>
    BY <1>4 DEF ReviewSaves
  <2>. HIDE DEF content
  <2>3. /\ versions' \in Seq(Contents) /\ Len(versions') <= MaxVersions
        /\ held \subseteq held' /\ held' \subseteq SetItems
    BY <1>0, <2>1, <2>2, SaveFacts
  <2>4. /\ editor' \in [Editors -> Edit] /\ \A f \in Editors \ {e} : editor'[f] = editor[f]
        /\ editor'[e].op = "reviewed" /\ editor'[e].items = editor[e].items
    BY <1>0, <2>2, EditorMoves
  <2>5. /\ edited' \in [SetItems -> {"no", "saved", "cut"}]
        /\ \A i \in SetItems : edited[i] # "no" => edited'[i] # "no"
        /\ \A i \in SetItems : i \in editor[e].items => edited'[i] = "saved"
        /\ \A i \in SetItems : i \notin editor[e].items => edited'[i] = edited[i]
    BY <1>0, <1>4 DEF ReviewSaves, TablesOK
  <2>6. \A i \in SetItems : edited'[i] = "saved" => source'[i] = "sme_edited" \/ Labelling(i)'
    BY <1>0, <2>2, <2>4, <2>5 DEF SayingsInv, Labelling
  <2>7. SayingsInv' /\ PastKept /\ TablesOK'
    BY <1>0, <2>2, <2>3, <2>5, <2>6 DEF SayingsInv, PastKept, TablesOK
  <2>8. EditorInv(e)'
    BY <1>t, <2>4, <2>5 DEF EditorInv
  <2>. QED
    BY <2>4, <2>7, <2>8, OthersKept
<1>5. ASSUME NEW e \in Editors, MineSaves(e)
      PROVE  GoldenSetInv'
  <2>. DEFINE content == [i \in SetItems |-> IF i \in Added(e) THEN "blank" ELSE editor[e].base[i]]
  <2>1. content \in Contents
    BY <1>t DEF Contents
  <2>2. \A i \in editor[e].items : content[i] # "absent"
    BY <1>t DEF Added
  <2>3. Save(content, editor[e].base) /\ Becomes(e, "mined") /\ editor[e].op = "mine"
        /\ UNCHANGED <<source, unusable, gap, approved, requests, edited>>
    BY <1>5 DEF MineSaves
  <2>. HIDE DEF content
  <2>. QED
    BY <1>2, <2>1, <2>2, <2>3
<1>6. ASSUME NEW e \in Editors, editor' \in [Editors -> Edit], editor[e].op # "reviewed",
             \A f \in Editors \ {e} : editor'[f] = editor[f], EditorInv(e)', SaidBefore, TablesOK'
      PROVE  GoldenSetInv'
  <2>1. SayingsInv' /\ PastKept
    BY <1>6, SayingsKept
  <2>. QED
    BY <1>6, <2>1, OthersKept
<1>7. ASSUME NEW e \in Editors, Done(e), editor[e].op # "reviewed", SaidBefore, TablesOK'
      PROVE  GoldenSetInv'
  <2>1. editor' \in [Editors -> Edit] /\ editor'[e].op = "none" /\ \A f \in Editors \ {e} : editor'[f] = editor[f]
    BY <1>0, <1>7, EditorMoves
  <2>2. EditorInv(e)'
    BY <2>1 DEF EditorInv
  <2>. QED
    BY <1>6, <1>7, <2>1, <2>2
<1>8. ASSUME NEW e \in Editors, DraftRecords(e)
      PROVE  GoldenSetInv'
  <2>1. /\ source' \in [SetItems -> {"none", "llm_drafted", "sme_edited"}]
        /\ SaidBefore
    BY <1>0, <1>8 DEF DraftRecords, DraftedLabel, SaidBefore, TablesOK
  <2>. QED
    BY <1>0, <1>7, <1>8, <2>1 DEF DraftRecords, TablesOK
<1>9. ASSUME NEW e \in Editors, ReviewLabels(e)
      PROVE  GoldenSetInv'
  <2>1. editor' \in [Editors -> Edit] /\ editor'[e].op = "none" /\ \A f \in Editors \ {e} : editor'[f] = editor[f]
    BY <1>0, <1>9, EditorMoves DEF ReviewLabels
  <2>2. editor[e].op = "reviewed" /\ UNCHANGED <<versions, unusable, gap, approved, requests, held, edited>>
    BY <1>9 DEF ReviewLabels
  <2>3. /\ source' \in [SetItems -> {"none", "llm_drafted", "sme_edited"}]
        /\ \A i \in SetItems : i \in editor[e].items => source'[i] = "sme_edited"
        /\ \A i \in SetItems : i \notin editor[e].items => source'[i] = source[i]
    BY <1>0, <1>9 DEF ReviewLabels, TablesOK
  <2>4. \A i \in SetItems : source'[i] = "sme_edited" => edited'[i] # "no"
    BY <1>0, <2>2, <2>3 DEF EditorInv, SayingsInv
  <2>5. \A i \in SetItems : edited'[i] = "saved" => source'[i] = "sme_edited" \/ Labelling(i)'
    BY <1>0, <2>1, <2>2, <2>3 DEF SayingsInv, Labelling
  <2>6. SayingsInv' /\ PastKept /\ TablesOK'
    BY <1>0, <2>2, <2>3, <2>4, <2>5 DEF SayingsInv, PastKept, TablesOK
  <2>7. EditorInv(e)'
    BY <2>1 DEF EditorInv
  <2>. QED
    BY <2>1, <2>6, <2>7, OthersKept
<1>10. ASSUME NEW e \in Editors, MineFindsThemThere(e)
       PROVE  GoldenSetInv'
  BY <1>0, <1>7, <1>10 DEF MineFindsThemThere, SaidBefore, TablesOK
<1>11. ASSUME NEW e \in Editors, MineMarks(e)
       PROVE  GoldenSetInv'
  <2>1. editor' \in [Editors -> Edit] /\ editor'[e].op = "none" /\ \A f \in Editors \ {e} : editor'[f] = editor[f]
    BY <1>0, <1>11, EditorMoves DEF MineMarks
  <2>2. editor[e].op = "mined" /\ UNCHANGED <<versions, source, unusable, approved, requests, held, edited>>
    BY <1>11 DEF MineMarks, Markable
  <2>3. /\ gap' \in [Gaps -> {"none", "open", "seeded", "purged"}]
        /\ \A g \in Gaps : gap'[g] = "seeded" => gap[g] = "seeded" \/ g \in editor[e].items
    BY <1>0, <1>11 DEF MineMarks, TablesOK
  <2>4. \A g \in Gaps : gap'[g] = "seeded" => g \in held'
    BY <1>0, <2>2, <2>3 DEF EditorInv, SayingsInv
  <2>5. \A i \in SetItems : edited'[i] = "saved" => source'[i] = "sme_edited" \/ Labelling(i)'
    BY <1>0, <2>1, <2>2 DEF SayingsInv, Labelling
  <2>6. SayingsInv' /\ PastKept /\ TablesOK'
    BY <1>0, <2>2, <2>3, <2>4, <2>5 DEF SayingsInv, PastKept, TablesOK
  <2>7. EditorInv(e)'
    BY <2>1 DEF EditorInv
  <2>. QED
    BY <2>1, <2>6, <2>7, OthersKept
<1>12. ASSUME NEW e \in Editors, NEW op \in {"draft", "review", "mine", "curate", "seed"},
              NEW b \in Contents, NEW items \in SUBSET SetItems, NEW answer \in {"blank", "sme"},
              op = "curate" => items \subseteq Questions,
              Starts(e, [op |-> op, base |-> b, items |-> items, answer |-> answer])
       PROVE  GoldenSetInv'
  <2>. DEFINE x == [op |-> op, base |-> b, items |-> items, answer |-> answer]
  <2>1. x \in Edit /\ x.op = op /\ x.items = items
    BY DEF Edit, Ops
  <2>2. editor' = [editor EXCEPT ![e] = x] /\ editor[e] = NoEdit /\ requests < MaxRequests
        /\ requests' = requests + 1 /\ UNCHANGED <<versions, source, unusable, gap, approved, held, edited>>
    BY <1>12 DEF Starts
  <2>. HIDE DEF x
  <2>3. editor' \in [Editors -> Edit] /\ editor'[e] = x /\ \A f \in Editors \ {e} : editor'[f] = editor[f]
    BY <1>0, <2>1, <2>2 DEF GoldenSetTypeOK
  <2>4. EditorInv(e)'
    BY <1>12, <2>1, <2>3 DEF EditorInv
  <2>5. requests' \in 0..MaxRequests
    BY <1>0, <2>2, GoldenSetAssumption DEF TablesOK
  <2>6. TablesOK' /\ SaidBefore
    BY <1>0, <2>2, <2>5 DEF TablesOK, SaidBefore
  <2>7. editor[e].op # "reviewed"
    BY <2>2 DEF NoEdit
  <2>. QED
    BY <1>6, <2>3, <2>4, <2>6, <2>7
<1>13. Empty \in Contents /\ Latest \in Contents
  BY <1>0, LatestIsContent
<1>14. ASSUME NEW e \in Editors, NEW named \in SUBSET SetItems, DraftBegins(e, named)
       PROVE  GoldenSetInv'
  BY <1>12, <1>13, <1>14 DEF DraftBegins, Begins
<1>15. ASSUME NEW e \in Editors, NEW i \in SetItems, NEW answer \in {"blank", "sme"}, ReviewBegins(e, i, answer)
       PROVE  GoldenSetInv'
  <2>1. {i} \in SUBSET SetItems
    OBVIOUS
  <2>. QED
    BY <1>12, <1>13, <1>15, <2>1 DEF ReviewBegins, Begins
<1>16. ASSUME NEW e \in Editors, NEW chosen \in SUBSET Gaps, MineBegins(e, chosen)
       PROVE  GoldenSetInv'
  <2>1. chosen \in SUBSET SetItems
    BY DEF SetItems
  <2>. QED
    BY <1>12, <1>13, <1>16, <2>1 DEF MineBegins, Begins
<1>17. ASSUME NEW e \in Editors, CurateBegins(e) \/ SeedBegins(e)
       PROVE  GoldenSetInv'
  <2>1. approved \in SUBSET SetItems /\ approved \subseteq Questions
    BY <1>0 DEF GoldenSetTypeOK, SetItems
  <2>. QED
    BY <1>12, <1>13, <1>17, <2>1 DEF CurateBegins, SeedBegins
<1>18. ASSUME NEW e \in Editors, NEW i \in Questions, NEW keep \in BOOLEAN, CurateWrites(e, i, keep)
       PROVE  GoldenSetInv'
  <2>1. approved' \subseteq Questions
    BY <1>0, <1>18 DEF CurateWrites, EditorInv
  <2>. QED
    BY <1>0, <1>7, <1>18, <2>1 DEF CurateWrites, SaidBefore, TablesOK
<1>19. ASSUME NEW e \in Editors, SeedSaves(e)
       PROVE  GoldenSetInv'
  <2>. DEFINE content == [i \in SetItems |-> IF i \in editor[e].items THEN "blank" ELSE "absent"]
  <2>1. content \in Contents
    BY DEF Contents
  <2>2. Save(content, Empty) /\ Done(e) /\ editor[e].op = "seed"
        /\ UNCHANGED <<source, unusable, gap, approved, requests, edited>>
    BY <1>19 DEF SeedSaves
  <2>. HIDE DEF content
  <2>3. /\ versions' \in Seq(Contents) /\ Len(versions') <= MaxVersions
        /\ held \subseteq held' /\ held' \subseteq SetItems
    BY <1>0, <2>1, <2>2, SaveFacts
  <2>4. SaidBefore /\ TablesOK'
    BY <1>0, <2>2, <2>3 DEF SaidBefore, TablesOK
  <2>. QED
    BY <1>7, <2>2, <2>4
<1>20. ASSUME editor' = editor, SaidBefore, TablesOK'
       PROVE  GoldenSetInv'
  <2>1. SayingsInv' /\ PastKept
    <3>1. ASSUME NEW i \in SetItems, Labelling(i)
          PROVE  Labelling(i)'
      BY <1>20, <3>1 DEF Labelling
    <3>. QED
      BY <1>0, <1>20, <3>1 DEF SayingsInv, SaidBefore, PastKept
  <2>. QED
    BY <1>20, <2>1, AllKept
<1>21. ASSUME NEW asked \in SUBSET Questions, NEW answered \in SUBSET Questions, PutDataset(asked, answered)
       PROVE  GoldenSetInv'
  <2>. DEFINE content == [i \in SetItems |-> IF i \in answered THEN "sme"
                                             ELSE IF i \in asked THEN "blank" ELSE "absent"]
  <2>1. content \in Contents
    BY DEF Contents
  <2>2. Save(content, Empty) /\ UNCHANGED <<source, unusable, gap, approved, editor, requests, edited>>
    BY <1>21 DEF PutDataset
  <2>. HIDE DEF content
  <2>3. /\ versions' \in Seq(Contents) /\ Len(versions') <= MaxVersions
        /\ held \subseteq held' /\ held' \subseteq SetItems
    BY <1>0, <2>1, <2>2, SaveFacts
  <2>4. SaidBefore /\ TablesOK'
    BY <1>0, <2>2, <2>3 DEF SaidBefore, TablesOK
  <2>. QED
    BY <1>20, <2>2, <2>4
<1>22. ASSUME NEW v \in 1..Len(versions), PurgeVersion(v)
       PROVE  GoldenSetInv'
  <2>1. versions' \in Seq(Contents) /\ Len(versions') <= MaxVersions
    BY <1>0, <1>22, PurgeFacts
  <2>. QED
    BY <1>0, <1>20, <1>22, <2>1 DEF PurgeVersion, SaidBefore, TablesOK
<1>23. ASSUME NEW i \in Questions, NEW usable \in BOOLEAN, SetLabel(i, usable)
       PROVE  GoldenSetInv'
  BY <1>0, <1>20, <1>23 DEF SetLabel, SaidBefore, TablesOK
<1>24. ASSUME NEW g \in Gaps, AskUnanswered(g) \/ PurgeGap(g)
       PROVE  GoldenSetInv'
  <2>1. (\A h \in Gaps : gap'[h] = "seeded" => gap[h] = "seeded") /\ gap' \in [Gaps -> {"none", "open", "seeded", "purged"}]
    BY <1>0, <1>24 DEF AskUnanswered, PurgeGap, TablesOK
  <2>. QED
    BY <1>0, <1>20, <1>24, <2>1 DEF AskUnanswered, PurgeGap, SaidBefore, TablesOK
<1>25. CASE ProposeQueries
  BY <1>0, <1>20, <1>25 DEF ProposeQueries, SaidBefore, TablesOK
<1>26. CASE UNCHANGED goldenSetVars
  BY <1>0, <1>20, <1>26 DEF goldenSetVars, SaidBefore, TablesOK
<1>. QED
  BY <1>1, <1>3, <1>4, <1>5, <1>8, <1>9, <1>10, <1>11, <1>14, <1>15, <1>16, <1>17, <1>18, <1>19,
     <1>21, <1>22, <1>23, <1>24, <1>25, <1>26 DEF GoldenSetNext, Edits

\* No label of a review and no mark is taken back.
NothingTakenBack ==
    /\ \A i \in SetItems : source[i] = "sme_edited" => source'[i] = "sme_edited"
    /\ \A g \in Gaps : gap[g] = "seeded" => gap'[g] = "seeded"

(* record_drafted does not touch a reviewed label, and neither purge nor mark_seeded
   a seeded gap. *)
LEMMA TakesNothingBack ==
    ASSUME GoldenSetTypeOK, [GoldenSetNext]_goldenSetVars
    PROVE  NothingTakenBack
<1>. USE DEF NothingTakenBack
<1>1. ASSUME UNCHANGED <<source, gap>>
      PROVE  NothingTakenBack
  BY <1>1
<1>2. ASSUME NEW e \in Editors, DraftRecords(e) \/ ReviewLabels(e)
      PROVE  NothingTakenBack
  BY <1>2 DEF DraftRecords, ReviewLabels, DraftedLabel
<1>3. ASSUME NEW e \in Editors, MineMarks(e)
      PROVE  NothingTakenBack
  BY <1>3 DEF MineMarks
<1>4. ASSUME NEW g \in Gaps, AskUnanswered(g) \/ PurgeGap(g)
      PROVE  NothingTakenBack
  BY <1>4 DEF AskUnanswered, PurgeGap, GoldenSetTypeOK
<1>5. ASSUME NEW e \in Editors, Edits(e)
      PROVE  NothingTakenBack
  <2>. HIDE DEF NothingTakenBack
  <2>. QED
    BY <1>1, <1>2, <1>3, <1>5
       DEF Edits, Fails, DraftSaves, ReviewSaves, MineFindsThemThere, MineSaves, CurateBegins, SeedBegins,
           SeedSaves, DraftBegins, ReviewBegins, MineBegins, Begins, Starts, CurateWrites
<1>. QED
  <2>. HIDE DEF NothingTakenBack
  <2>. QED
    BY <1>1, <1>4, <1>5 DEF GoldenSetNext, PutDataset, SetLabel, ProposeQueries, PurgeVersion, goldenSetVars

(* The invariant of versions, labels, gaps and editors holds in every state, for
   any number of questions, gaps, editors and versions. *)
THEOREM GoldenSetHolds == GoldenSetSpec => []GoldenSetInv
<1>1. GoldenSetInit => GoldenSetInv
  <2>. SUFFICES ASSUME GoldenSetInit PROVE GoldenSetInv
    OBVIOUS
  <2>1. NoEdit \in Edit /\ NoEdit.op = "none"
    BY DEF Edit, NoEdit, Ops, Empty, Contents
  <2>2. versions \in Seq(Contents) /\ Len(versions) = 0
    BY DEF GoldenSetInit
  <2>3. 0 \in 0..MaxRequests
    BY GoldenSetAssumption
  <2>4. GoldenSetTypeOK
    BY <2>1, <2>2, <2>3, GoldenSetAssumption DEF GoldenSetInit, GoldenSetTypeOK
  <2>5. \A e \in Editors : EditorInv(e)
    BY <2>1 DEF GoldenSetInit, EditorInv
  <2>. QED
    BY <2>4, <2>5 DEF GoldenSetInit, GoldenSetInv, SayingsInv
<1>2. GoldenSetInv /\ [GoldenSetNext]_goldenSetVars => GoldenSetInv'
  BY GoldenSetStep
<1>. QED
  BY <1>1, <1>2, PTL DEF GoldenSetSpec

(* A label says sme_edited only of an item whose edit a review saved; a saved edit
   has its label, is about to get it or was cut off; and no such label is taken
   back (review_item, set_label, record_drafted). *)
THEOREM ReviewsStand == GoldenSetSpec => ReviewsAreRemembered
<1>1. GoldenSetInv => \A i \in SetItems :
            /\ source[i] = "sme_edited" => edited[i] # "no"
            /\ edited[i] = "saved" => source[i] = "sme_edited" \/ Labelling(i)
  BY DEF GoldenSetInv, SayingsInv
<1>2. GoldenSetInv /\ [GoldenSetNext]_goldenSetVars
      => [\A i \in SetItems : source[i] = "sme_edited" => source'[i] = "sme_edited"]_goldenSetVars
  BY TakesNothingBack DEF GoldenSetInv, NothingTakenBack
<1>. QED
  BY <1>1, <1>2, GoldenSetHolds, PTL DEF GoldenSetSpec, ReviewsAreRemembered

(* A gap marked seeded was put in a version, and stays marked (mine_gaps,
   mark_seeded, purge). *)
THEOREM SeededGapsStand == GoldenSetSpec => SeededGapsAreItems
<1>1. GoldenSetInv => \A g \in Gaps : gap[g] = "seeded" => g \in held
  BY DEF GoldenSetInv, SayingsInv
<1>2. GoldenSetInv /\ [GoldenSetNext]_goldenSetVars
      => [\A g \in Gaps : gap[g] = "seeded" => gap'[g] = "seeded"]_goldenSetVars
  BY TakesNothingBack DEF GoldenSetInv, NothingTakenBack
<1>. QED
  BY <1>1, <1>2, GoldenSetHolds, PTL DEF GoldenSetSpec, SeededGapsAreItems

-----------------------------------------------------------------------------
(* Releases.                                                               *)
\* An operation under way has its candidate, and a start what it slices.
OperationInv ==
    \A s \in Sessions :
        /\ session[s].phase # "idle" => session[s].candidate \in Revisions
        /\ session[s].phase = "judged" => session[s].does \in {"promote", "rollback"}
        /\ session[s].phase = "read" => session[s].does \in {"start", "promote", "rollback"}
        /\ session[s].phase = "read" /\ session[s].does = "start" =>
              session[s].active \in Revisions /\ session[s].weight \in 1..99

CanaryInv == CanaryTypeOK /\ OperationInv

(* The rows of the release table are releases, with another weight too. *)
LEMMA ReleaseFacts ==
    ASSUME NEW rel \in [Revisions -> Release], NEW r \in Revisions, NEW w \in 0..100
    PROVE  /\ [rel EXCEPT ![r].weight = w] \in [Revisions -> Release]
           /\ [rel EXCEPT ![r].weight = w][r].weight = w
           /\ [rel EXCEPT ![r].weight = w][r].status = rel[r].status
           /\ \A q \in Revisions \ {r} : [rel EXCEPT ![r].weight = w][q] = rel[q]
<1>1. rel[r] \in Release
  OBVIOUS
<1>2. \A x \in Release : LET row == [x EXCEPT !.weight = w] IN
                         row \in Release /\ row.status = x.status /\ row.weight = w
  BY DEF Release
<1>. QED
  BY <1>1, <1>2

(* Every row an operation writes is a release. *)
LEMMA RowsWritten ==
    /\ \A w \in 0..100 : [status |-> "canary", weight |-> w] \in Release
    /\ [status |-> "candidate", weight |-> 0] \in Release
    /\ [status |-> "rolled_back", weight |-> 0] \in Release
    /\ [status |-> "retired", weight |-> 0] \in Release
    /\ [status |-> "active", weight |-> 100] \in Release
  BY DEF Release

(* Every step of a deploy, a supervisor or the window keeps the shapes, and an
   operation's candidate and slice. *)
LEMMA CanaryStep ==
    ASSUME CanaryInv, [CanaryNext]_canaryVars
    PROVE  CanaryInv'
<1>. USE CanaryAssumption DEF CanaryInv
<1>0. CASE UNCHANGED canaryVars
  BY <1>0 DEF canaryVars, CanaryTypeOK, OperationInv
<1>1. CASE \E c \in Revisions : Register(c)
  <2>. PICK c \in Revisions : Register(c)
    BY <1>1
  <2>1. release' \in [Revisions -> Release]
    BY RowsWritten DEF CanaryTypeOK, Register
  <2>. QED
    BY <2>1 DEF CanaryTypeOK, OperationInv, Register
<1>2. CASE \E c \in Revisions, look \in Looks : Observe(c, look)
  BY <1>2 DEF CanaryTypeOK, OperationInv, Observe
<1>3. ASSUME NEW s \in Sessions, NEW op \in Operation, session' = [session EXCEPT ![s] = op],
             \/ op = NoOperation
             \/ /\ op.candidate \in Revisions /\ op.phase = "judged"
                /\ op.does \in {"promote", "rollback"}
             \/ /\ op.candidate \in Revisions /\ op.phase = "read"
                /\ op.does \in {"start", "promote", "rollback"}
                /\ op.does = "start" => op.active \in Revisions /\ op.weight \in 1..99
      PROVE  session' \in [Sessions -> Operation] /\ OperationInv'
  <2>1. session \in [Sessions -> Operation]
    BY DEF CanaryTypeOK
  <2>2. session'[s] = op /\ \A t \in Sessions \ {s} : session'[t] = session[t]
    BY <1>3, <2>1
  <2>3. NoOperation.phase = "idle"
    BY DEF NoOperation
  <2>. QED
    BY <1>3, <2>1, <2>2, <2>3 DEF OperationInv
<1>4. NoOperation \in Operation
  BY DEF NoOperation, Operation
<1>5. ASSUME NEW s \in Sessions, NEW c \in Revisions, NEW a \in Revisions, NEW w \in Weights,
             StartReads(s, c, w, a)
      PROVE  CanaryInv'
  <2>. DEFINE op == [phase |-> "read", does |-> "start", candidate |-> c, active |-> a, weight |-> w]
  <2>1. w \in 1..99 /\ w \in 0..100
    OBVIOUS
  <2>2. op \in Operation
    BY <2>1 DEF Operation
  <2>3. /\ op.candidate = c /\ op.phase = "read" /\ op.does = "start" /\ op.active = a
        /\ op.weight = w
    OBVIOUS
  <2>4. session' = [session EXCEPT ![s] = op]
    BY <1>5 DEF StartReads
  <2>. HIDE DEF op
  <2>5. session' \in [Sessions -> Operation] /\ OperationInv'
    BY <1>3, <2>1, <2>2, <2>3, <2>4
  <2>6. starts' \in 0..MaxStarts
    BY <1>5 DEF StartReads, CanaryTypeOK
  <2>. QED
    BY <1>5, <2>5, <2>6 DEF StartReads, CanaryTypeOK
<1>6. ASSUME NEW s \in Sessions, NEW c \in Revisions, NEW b \in Revisions, Evaluate(s, c, b)
      PROVE  CanaryInv'
  <2>. DEFINE op == [phase |-> "judged", does |-> Verdict(c, b), candidate |-> c,
                     active |-> NoRevision, weight |-> 0]
  <2>1. Verdict(c, b) \in {"promote", "rollback"}
    BY <1>6 DEF Evaluate, Verdict
  <2>2. op \in Operation
    BY <2>1 DEF Operation
  <2>3. op.candidate = c /\ op.phase = "judged" /\ op.does = Verdict(c, b)
    OBVIOUS
  <2>4. session' = [session EXCEPT ![s] = op]
    BY <1>6 DEF Evaluate
  <2>. HIDE DEF op
  <2>5. session' \in [Sessions -> Operation] /\ OperationInv'
    BY <1>3, <2>1, <2>2, <2>3, <2>4
  <2>. QED
    BY <1>6, <2>5 DEF Evaluate, CanaryTypeOK
<1>7. ASSUME NEW s \in Sessions, NEW a \in Revisions \cup {NoRevision}, ReadActive(s, a)
      PROVE  CanaryInv'
  <2>. DEFINE op == [session[s] EXCEPT !.phase = "read", !.active = a]
  <2>1. /\ session[s] \in Operation /\ session[s].phase = "judged"
        /\ session[s].candidate \in Revisions /\ session[s].does \in {"promote", "rollback"}
    BY <1>7 DEF ReadActive, CanaryTypeOK, OperationInv
  <2>2. \A x \in Operation : LET y == [x EXCEPT !.phase = "read", !.active = a] IN
            y \in Operation /\ y.candidate = x.candidate /\ y.phase = "read" /\ y.does = x.does
    BY DEF Operation
  <2>3. op \in Operation /\ op.candidate \in Revisions /\ op.phase = "read"
        /\ op.does \in {"promote", "rollback"}
    BY <2>1, <2>2
  <2>4. session' = [session EXCEPT ![s] = op]
    BY <1>7 DEF ReadActive
  <2>. HIDE DEF op
  <2>5. session' \in [Sessions -> Operation] /\ OperationInv'
    BY <1>3, <2>3, <2>4
  <2>. QED
    BY <1>7, <2>5 DEF ReadActive, CanaryTypeOK
<1>8. ASSUME NEW s \in Sessions, Raises(s) \/ Dies(s)
      PROVE  CanaryInv'
  <2>1. session' \in [Sessions -> Operation] /\ OperationInv'
    BY <1>8, <1>3, <1>4 DEF Raises, Dies
  <2>. QED
    BY <1>8, <2>1 DEF Raises, Dies, CanaryTypeOK
<1>9. ASSUME NEW s \in Sessions, Act(s)
      PROVE  CanaryInv'
  <2>. DEFINE c == session[s].candidate  a == session[s].active  w == session[s].weight
  <2>1. session' \in [Sessions -> Operation] /\ OperationInv'
    BY <1>9, <1>3, <1>4 DEF Act
  <2>2. /\ c \in Revisions /\ release \in [Revisions -> Release]
        /\ session[s].does \in {"start", "promote", "rollback"}
        /\ session[s].does = "start" => a \in Revisions /\ w \in 0..100 /\ 100 - w \in 0..100
        /\ a \in Revisions \cup {NoRevision}
    <3>1. session[s] \in Operation /\ session[s].phase = "read"
      BY <1>9 DEF CanaryTypeOK, Act
    <3>2. \A x \in Operation : x.active \in Revisions \cup {NoRevision}
      BY DEF Operation
    <3>. QED
      BY <3>1, <3>2 DEF CanaryTypeOK, OperationInv
  <2>. HIDE DEF c, a, w
  <2>3. release' \in [Revisions -> Release]
    <3>1. CASE session[s].does = "start"
      <4>. DEFINE rel == IF HasRow(c)
                         THEN [release EXCEPT ![c] = [status |-> "canary", weight |-> w]]
                         ELSE release
      <4>1. rel \in [Revisions -> Release]
        BY <2>2, <3>1, RowsWritten
      <4>2. release' = [rel EXCEPT ![a].weight = 100 - w]
        BY <1>9, <3>1 DEF Act, Sliced, c, a, w
      <4>. HIDE DEF rel
      <4>3. a \in Revisions /\ 100 - w \in 0..100
        BY <2>2, <3>1
      <4>4. \A v \in 0..100 : [rel EXCEPT ![a].weight = v] \in [Revisions -> Release]
        BY <4>1, <4>3, ReleaseFacts, Zenon
      <4>. QED
        BY <4>2, <4>3, <4>4, Zenon
    <3>2. CASE session[s].does = "rollback"
      <4>. DEFINE rel == [release EXCEPT ![c] = [status |-> "rolled_back", weight |-> 0]]
      <4>1. rel \in [Revisions -> Release]
        BY <2>2, RowsWritten
      <4>2. release' = IF a = NoRevision THEN rel ELSE [rel EXCEPT ![a].weight = 100]
        BY <1>9, <3>2 DEF Act, RolledBack, c, a
      <4>3. 100 \in 0..100
        OBVIOUS
      <4>. HIDE DEF rel
      <4>4. a # NoRevision => [rel EXCEPT ![a].weight = 100] \in [Revisions -> Release]
        <5>1. \A r \in Revisions, v \in 0..100 : [rel EXCEPT ![r].weight = v] \in [Revisions -> Release]
          BY <4>1, ReleaseFacts, Zenon
        <5>. QED
          BY <2>2, <4>3, <5>1, Zenon
      <4>. QED
        BY <4>1, <4>2, <4>4
    <3>3. CASE session[s].does = "promote"
      <4>. DEFINE rel == IF a = NoRevision THEN release
                         ELSE [release EXCEPT ![a] = [status |-> "retired", weight |-> 0]]
      <4>1. rel \in [Revisions -> Release]
        BY <2>2, RowsWritten
      <4>2. release' = [rel EXCEPT ![c] = [status |-> "active", weight |-> 100]]
        BY <1>9, <3>3 DEF Act, Promoted, c, a
      <4>. HIDE DEF rel
      <4>. QED
        BY <2>2, <4>1, <4>2, RowsWritten
    <3>. QED
      BY <2>2, <3>1, <3>2, <3>3
  <2>. QED
    BY <1>9, <2>1, <2>3 DEF Act, CanaryTypeOK
<1>. QED
  BY <1>0, <1>1, <1>2, <1>5, <1>6, <1>7, <1>8, <1>9 DEF CanaryNext

\* What SplitIsWhole says, by status.
Whole(rel, a) ==
    /\ rel[a].status = "active"
    /\ \A r \in Revisions : rel[r].status = "active" => r = a
    /\ \A r \in Revisions : rel[r].status # "canary"
    /\ rel[a].weight = 100

Beside(rel, a, c) ==
    /\ a # c /\ rel[a].status = "active" /\ rel[c].status = "canary"
    /\ \A r \in Revisions : rel[r].status = "active" => r = a
    /\ \A r \in Revisions : rel[r].status = "canary" => r = c
    /\ rel[a].weight + rel[c].weight = 100

(* Traffic is whole with one active revision that has all of it, or shares it with
   the one canary (traffic_split). *)
LEMMA WholeMeans ==
    /\ SplitIsWhole =>
          \E a \in Revisions : \/ Whole(release, a)
                               \/ \E c \in Revisions : Beside(release, a, c)
    /\ \A a \in Revisions : Whole(release', a) => SplitIsWhole'
    /\ \A a, c \in Revisions : Beside(release', a, c) => SplitIsWhole'
<1>1. SplitIsWhole => \E a \in Revisions : \/ Whole(release, a)
                                           \/ \E c \in Revisions : Beside(release, a, c)
  BY DEF SplitIsWhole, WithStatus, Split, Whole, Beside
<1>2. ASSUME NEW a \in Revisions, Whole(release', a)
      PROVE  SplitIsWhole'
  BY <1>2 DEF SplitIsWhole, WithStatus, Split, Whole
<1>3. ASSUME NEW a \in Revisions, NEW c \in Revisions, Beside(release', a, c)
      PROVE  SplitIsWhole'
  BY <1>3 DEF SplitIsWhole, WithStatus, Split, Beside
<1>. QED
  BY <1>1, <1>2, <1>3

(* A registration adds a row without traffic. *)
LEMMA RegisterKeepsTheSplit ==
    ASSUME CanaryTypeOK, SplitIsWhole, NEW d \in Revisions, Register(d)
    PROVE  SplitIsWhole'
<1>1. /\ release \in [Revisions -> Release] /\ release[d].status = "none"
      /\ release' = [release EXCEPT ![d] = [status |-> "candidate", weight |-> 0]]
  BY DEF CanaryTypeOK, Register
<1>2. /\ release'[d].status = "candidate"
      /\ \A r \in Revisions \ {d} : release'[r] = release[r]
  BY <1>1
<1>3. \A a \in Revisions : Whole(release, a) => Whole(release', a)
  BY <1>1, <1>2 DEF Whole
<1>4. \A a, c \in Revisions : Beside(release, a, c) => Beside(release', a, c)
  BY <1>1, <1>2 DEF Beside
<1>. QED
  BY <1>3, <1>4, WholeMeans

(* An operation in turn leaves the split whole. *)
LEMMA InTurnKeepsTheSplit ==
    ASSUME CanaryInv, SplitIsWhole, NEW s \in Sessions, Act(s), InTurn(s)
    PROVE  SplitIsWhole'
<1>. DEFINE c == session[s].candidate  a == session[s].active  w == session[s].weight
<1>1. /\ c \in Revisions /\ release \in [Revisions -> Release]
      /\ session[s].does \in {"start", "promote", "rollback"}
      /\ session[s].does = "start" => w \in 1..99
  BY DEF Act, CanaryInv, CanaryTypeOK, OperationInv
<1>2. /\ a \in Revisions /\ c # a /\ HasRow(c) /\ release[a].status = "active"
      /\ \A r \in Revisions : release[r].status = "active" => r = a
      /\ \A r \in Revisions : release[r].status = "canary" => r = c
      /\ session[s].does # "start" => release[c].status = "canary"
  BY DEF InTurn, WithStatus
<1>3. session[s].does = "start" => release' = Sliced(c, a, w)
  BY DEF Act
<1>4. session[s].does = "rollback" => release' = RolledBack(c, a)
  BY DEF Act
<1>5. session[s].does = "promote" => release' = Promoted(c, a)
  BY DEF Act
<1>. HIDE DEF c, a, w
<1>6. a # NoRevision
  BY <1>2, CanaryAssumption
<1>7. CASE session[s].does = "start"
  <2>. DEFINE rel == [release EXCEPT ![c] = [status |-> "canary", weight |-> w]]
  <2>1. w \in 1..99 /\ w \in 0..100 /\ 100 - w \in 0..100 /\ (100 - w) + w = 100
    BY <1>1, <1>7
  <2>2. rel \in [Revisions -> Release]
    BY <1>1, <2>1, RowsWritten
  <2>3. /\ rel[c].status = "canary" /\ rel[c].weight = w
        /\ \A r \in Revisions \ {c} : rel[r] = release[r]
    BY <1>1
  <2>4. release' = [rel EXCEPT ![a].weight = 100 - w]
    BY <1>2, <1>3, <1>7 DEF Sliced
  <2>. HIDE DEF rel
  <2>5. /\ release'[a].weight = 100 - w /\ release'[a].status = rel[a].status
        /\ \A r \in Revisions \ {a} : release'[r] = rel[r]
    BY <1>2, <2>1, <2>2, <2>4, ReleaseFacts
  <2>6. Beside(release', a, c)
    BY <1>1, <1>2, <2>1, <2>3, <2>5 DEF Beside
  <2>. QED
    BY <1>1, <1>2, <2>6, WholeMeans
<1>8. CASE session[s].does = "rollback"
  <2>. DEFINE rel == [release EXCEPT ![c] = [status |-> "rolled_back", weight |-> 0]]
  <2>1. rel \in [Revisions -> Release]
    BY <1>1, RowsWritten
  <2>2. rel[c].status = "rolled_back" /\ \A r \in Revisions \ {c} : rel[r] = release[r]
    BY <1>1
  <2>3. release' = [rel EXCEPT ![a].weight = 100]
    BY <1>4, <1>6, <1>8 DEF RolledBack
  <2>4. 100 \in 0..100
    OBVIOUS
  <2>. HIDE DEF rel
  <2>5. /\ release'[a].weight = 100 /\ release'[a].status = rel[a].status
        /\ \A r \in Revisions \ {a} : release'[r] = rel[r]
    BY <1>2, <2>1, <2>3, <2>4, ReleaseFacts
  <2>6. Whole(release', a)
    BY <1>1, <1>2, <2>2, <2>5 DEF Whole
  <2>. QED
    BY <1>2, <2>6, WholeMeans
<1>9. CASE session[s].does = "promote"
  <2>1. release' = [[release EXCEPT ![a] = [status |-> "retired", weight |-> 0]]
                       EXCEPT ![c] = [status |-> "active", weight |-> 100]]
    BY <1>5, <1>6, <1>9 DEF Promoted
  <2>2. /\ release'[c].status = "active" /\ release'[c].weight = 100
        /\ release'[a].status = "retired"
        /\ \A r \in Revisions \ {a, c} : release'[r] = release[r]
    BY <1>1, <1>2, <2>1
  <2>3. Whole(release', c)
    BY <1>1, <1>2, <2>2 DEF Whole
  <2>. QED
    BY <1>1, <2>3, WholeMeans
<1>. QED
  BY <1>1, <1>7, <1>8, <1>9

(* The first revision is active and has all the traffic. *)
LEMMA CanaryStarts ==
    ASSUME CanaryInit
    PROVE  CanaryInv
<1>1. \A r \in Revisions : release[r] \in Release
  <2>1. /\ [status |-> "active", weight |-> 100] \in Release
        /\ [status |-> "none", weight |-> 0] \in Release
    BY DEF Release
  <2>. QED
    BY <2>1 DEF CanaryInit
<1>2. NoOperation \in Operation /\ NoOperation.phase = "idle"
  BY DEF NoOperation, Operation
<1>3. \A s \in Sessions : session[s] = NoOperation
  BY DEF CanaryInit
<1>4. OperationInv
  BY <1>2, <1>3 DEF OperationInv
<1>5. release \in [Revisions -> Release] /\ session \in [Sessions -> Operation]
  BY <1>1, <1>2 DEF CanaryInit
<1>6. looks \in [Revisions -> Looks] /\ starts \in 0..MaxStarts
  BY CanaryAssumption DEF CanaryInit, Looks
<1>. QED
  BY <1>4, <1>5, <1>6 DEF CanaryInv, CanaryTypeOK

(* Releases, weights and operations keep their shapes, however many deploys and
   supervisors overlap. *)
THEOREM CanaryTypeCorrect == CanarySpec => []CanaryTypeOK
<1>1. CanaryInit => CanaryInv
  BY CanaryStarts
<1>2. CanaryInv => CanaryTypeOK
  BY DEF CanaryInv
<1>. QED
  BY <1>1, <1>2, CanaryStep, PTL DEF CanarySpec

(* "The two live revisions must sum to 100" is lost only in an operation that is out
   of turn: of any number of revisions, slices, deploys and supervisors that overlap
   and fail, every other step keeps one active revision and weights that add up. *)
THEOREM TrafficAddsUp == CanarySpec => TrafficIsWhole
<1>. DEFINE Broken == \E s \in Sessions : session[s].phase = "read" /\ session'[s] = NoOperation
                                         /\ ~InTurn(s)
<1>1. ASSUME CanaryInv, CanaryNext, SplitIsWhole, ~SplitIsWhole'
      PROVE  Broken
  <2>1. release' # release
    BY <1>1 DEF SplitIsWhole, WithStatus, Split
  <2>2. PICK s \in Sessions : Act(s)
    <3>1. \A c \in Revisions : ~Register(c)
      BY <1>1, RegisterKeepsTheSplit DEF CanaryInv
    <3>2. \A c \in Revisions, look \in Looks : ~Observe(c, look)
      BY <2>1 DEF Observe
    <3>3. \A t \in Sessions : /\ \A c, a \in Revisions, w \in Weights : ~StartReads(t, c, w, a)
                             /\ \A c, a \in Revisions : ~Evaluate(t, c, a)
      BY <2>1 DEF StartReads, Evaluate
    <3>4. \A c \in Revisions : ~\E look \in Looks : Observe(c, look)
      BY <3>2, Zenon
    <3>5. \A t \in Sessions : ~\E c, a \in Revisions : \/ \E w \in Weights : StartReads(t, c, w, a)
                                                       \/ Evaluate(t, c, a)
      BY <3>3, Zenon
    <3>6. \A t \in Sessions : ~\E a \in Revisions \cup {NoRevision} : ReadActive(t, a)
      BY <2>1 DEF ReadActive
    <3>7. \A t \in Sessions : ~Raises(t) /\ ~Dies(t)
      BY <2>1 DEF Raises, Dies
    <3>. QED
      BY <1>1, <3>1, <3>4, <3>5, <3>6, <3>7 DEF CanaryNext
  <2>3. ~InTurn(s)
    BY <1>1, <2>2, InTurnKeepsTheSplit
  <2>4. session[s].phase = "read" /\ session'[s] = NoOperation
    BY <1>1, <2>2 DEF Act, CanaryInv, CanaryTypeOK
  <2>. QED
    BY <2>2, <2>3, <2>4
<1>2. CanarySpec => []CanaryInv
  <2>1. CanaryInit => CanaryInv
    BY CanaryStarts
  <2>. QED
    BY <2>1, CanaryStep, PTL DEF CanarySpec
<1>3. CanaryInv /\ [CanaryNext]_canaryVars =>
        [SplitIsWhole /\ ~SplitIsWhole' => Broken]_canaryVars
  BY <1>1
<1>. HIDE DEF Broken
<1>4. CanarySpec => [][SplitIsWhole /\ ~SplitIsWhole' => Broken]_canaryVars
  BY <1>2, <1>3, PTL DEF CanarySpec
<1>. QED
  BY <1>4 DEF TrafficIsWhole, Broken

-----------------------------------------------------------------------------
(* The audit chain.                                                        *)
\* The advisory lock has one holder, and whoever is past it has it.
LockInv ==
    /\ \A v, w \in lock : v = w
    /\ \A w \in Writers : writer[w].phase \in {"locked", "linked"} => w \in lock

\* The predecessor a writer has read is still the newest event; or all are deleted,
\* and it is where the anchor is.
LinkInv ==
    \A w \in Writers : writer[w].phase = "linked" =>
        /\ Kept # {} => writer[w].prev = Max(Kept)
        /\ Kept = {} /\ ~late => writer[w].prev = anchor.hash

Gone == {0} \cup (Written \ Kept)

\* What is deleted is older than what is kept.
PrefixInv == \A j \in Gone, i \in Kept : j < i

\* A pass will delete up to an event that was written.
PassInv == \A s \in Sweeps : sweep[s] # NoPass => sweep[s] \in Written

\* The anchor is an event that has been deleted.
AnchorInv == anchor.id = anchor.hash /\ anchor.id \in Gone

\* A verification has an anchor of now or of before, and complains of one of before.
VerifierInv ==
    \A r \in Readers :
        /\ reader[r].phase # "idle" => /\ reader[r].anchor.id = reader[r].anchor.hash
                                       /\ reader[r].anchor.id \in Gone
        /\ reader[r].phase = "broken" => late \/ reader[r].anchor.id # anchor.id

\* The oldest event there is names the anchor, if the last pass was not overtaken.
FirstInv ==
    ~late => \A i \in Kept : {j \in Kept : j < i} = {} => event[i].prev = anchor.hash

ChainInv ==
    /\ ChainTypeOK
    /\ LockInv
    /\ LinkInv
    /\ PrefixInv
    /\ PassInv
    /\ AnchorInv
    /\ Unforked
    /\ FirstInv
    /\ VerifierInv

(* A set of numbers has a least one. *)
LEMMA LeastExists ==
    ASSUME NEW T, T \subseteq Nat, T # {}
    PROVE  \E x \in T : \A y \in T : x <= y
<1>. DEFINE R == OpToRel(<, Nat)
<1>1. IsWellFoundedOn(R, Nat)
  BY NatLessThanWellFounded
<1>2. PICK x \in T : \A y \in T : ~(<<y, x>> \in R)
  <2>. HIDE DEF R
  <2>. QED
    BY <1>1, WFMin
<1>3. \A y \in T : ~(y < x)
  BY <1>2 DEF OpToRel
<1>. QED
  BY <1>3

(* Max is the newest of the events it is asked for (ORDER BY id DESC LIMIT 1). *)
LEMMA Newest ==
    ASSUME NEW T, T \subseteq 0..MaxEvents, T # {}
    PROVE  /\ Max(T) \in T /\ \A y \in T : y <= Max(T)
           /\ \A x \in T : (\A y \in T : y <= x) => Max(T) = x
<1>. DEFINE U == {k \in 0..MaxEvents : MaxEvents - k \in T}
<1>0. MaxEvents \in Nat
  BY AuditChainAssumption
<1>1. PICK t \in T : t \in 0..MaxEvents
  OBVIOUS
<1>2. MaxEvents - t \in U
  BY <1>0, <1>1
<1>3. PICK u \in U : \A k \in U : u <= k
  <2>1. U \subseteq Nat /\ U # {}
    BY <1>2
  <2>. HIDE DEF U
  <2>. QED
    BY <2>1, LeastExists
<1>4. \A y \in T : MaxEvents - y \in U
  BY <1>0
<1>5. MaxEvents - u \in T /\ \A y \in T : MaxEvents - u >= y
  BY <1>0, <1>3, <1>4
<1>6. \E x \in T : \A y \in T : x >= y
  BY <1>5
<1>7. Max(T) \in T /\ \A y \in T : Max(T) >= y
  BY <1>6 DEF Max
<1>8. \A y \in T : y \in Nat
  BY <1>0
<1>9. ASSUME NEW x \in T, \A y \in T : y <= x
      PROVE  Max(T) = x
  <2>1. Max(T) \in Nat /\ x \in Nat /\ Max(T) <= x /\ x <= Max(T)
    BY <1>7, <1>8, <1>9
  <2>. QED
    BY <2>1
<1>10. \A y \in T : y <= Max(T)
  BY <1>7, <1>8
<1>. QED
  BY <1>7, <1>9, <1>10

(* The rows an INSERT and a DELETE leave. *)
LEMMA EventFacts ==
    ASSUME ChainTypeOK, NEW at \in Nat, NEW prev \in 0..MaxEvents
    PROVE  /\ \A i \in Ids : event[i] \in Event /\ event[i].prev \in 0..MaxEvents
           /\ LET row == [status |-> "kept", at |-> at, prev |-> prev] IN
              row \in Event /\ row.status = "kept" /\ row.prev = prev
           /\ \A i \in Ids :
                 LET row == [event[i] EXCEPT !.status = "deleted"] IN
                 row \in Event /\ row.status = "deleted" /\ row.prev = event[i].prev
<1>1. \A i \in Ids : event[i] \in Event
  BY DEF ChainTypeOK
<1>2. ASSUME NEW x \in Event
      PROVE  /\ x.prev \in 0..MaxEvents
             /\ LET row == [x EXCEPT !.status = "deleted"] IN
                row \in Event /\ row.status = "deleted" /\ row.prev = x.prev
  BY DEF Event
<1>3. LET row == [status |-> "kept", at |-> at, prev |-> prev] IN
      row \in Event /\ row.status = "kept" /\ row.prev = prev
  BY DEF Event
<1>. QED
  BY <1>1, <1>2, <1>3

(* The states of a transaction that appends. *)
LEMMA AppendingFacts ==
    ASSUME ChainTypeOK
    PROVE  /\ \A w \in Writers : /\ writer[w] \in Appending
                                 /\ writer[w].at \in Nat /\ writer[w].prev \in 0..MaxEvents
           /\ NoAppend \in Appending /\ NoAppend.phase = "idle"
           /\ \A t \in Nat : LET x == [phase |-> "begun", at |-> t, prev |-> 0] IN
                             x \in Appending /\ x.phase = "begun"
           /\ \A w \in Writers : LET x == [writer[w] EXCEPT !.phase = "locked"] IN
                                 x \in Appending /\ x.phase = "locked"
           /\ \A w \in Writers, p \in 0..MaxEvents :
                 LET x == [writer[w] EXCEPT !.phase = "linked", !.prev = p] IN
                 x \in Appending /\ x.phase = "linked" /\ x.prev = p
<1>0. 0 \in 0..MaxEvents
  BY AuditChainAssumption
<1>1. \A w \in Writers : writer[w] \in Appending
  BY DEF ChainTypeOK
<1>2. ASSUME NEW x \in Appending, NEW p \in 0..MaxEvents
      PROVE  /\ x.at \in Nat /\ x.prev \in 0..MaxEvents
             /\ LET y == [x EXCEPT !.phase = "locked"] IN y \in Appending /\ y.phase = "locked"
             /\ LET y == [x EXCEPT !.phase = "linked", !.prev = p] IN
                y \in Appending /\ y.phase = "linked" /\ y.prev = p
  BY DEF Appending
<1>3. /\ NoAppend \in Appending /\ NoAppend.phase = "idle"
      /\ \A t \in Nat : LET x == [phase |-> "begun", at |-> t, prev |-> 0] IN
                        x \in Appending /\ x.phase = "begun"
  BY <1>0 DEF NoAppend, Appending
<1>4. ASSUME NEW w \in Writers, NEW p \in 0..MaxEvents
      PROVE  /\ writer[w].at \in Nat /\ writer[w].prev \in 0..MaxEvents
             /\ LET y == [writer[w] EXCEPT !.phase = "locked"] IN y \in Appending /\ y.phase = "locked"
             /\ LET y == [writer[w] EXCEPT !.phase = "linked", !.prev = p] IN
                y \in Appending /\ y.phase = "linked" /\ y.prev = p
  BY <1>1, <1>2, Zenon
<1>. QED
  BY <1>0, <1>1, <1>3, <1>4

(* The states of a verification. *)
LEMMA VerifyingFacts ==
    ASSUME ChainTypeOK
    PROVE  /\ \A r \in Readers : reader[r] \in Verifying /\ reader[r].anchor.id \in Nat
           /\ anchor.id \in 0..MaxEvents /\ anchor.hash \in 0..MaxEvents
           /\ \A a \in Anchors, ph \in {"idle", "reading"} :
                 LET x == [phase |-> ph, anchor |-> a] IN
                 x \in Verifying /\ x.phase = ph /\ x.anchor = a
           /\ \A r \in Readers, ph \in {"intact", "broken"} :
                 LET x == [reader[r] EXCEPT !.phase = ph] IN
                 x \in Verifying /\ x.phase = ph /\ x.anchor = reader[r].anchor
           /\ NoAnchor \in Anchors
<1>0. 0 \in 0..MaxEvents
  BY AuditChainAssumption
<1>1. \A r \in Readers : reader[r] \in Verifying
  BY DEF ChainTypeOK
<1>2. \A a \in Anchors : a.id \in 0..MaxEvents /\ a.hash \in 0..MaxEvents
  BY DEF Anchors
<1>4. ASSUME NEW a \in Anchors, NEW ph \in {"idle", "reading"}
      PROVE  LET x == [phase |-> ph, anchor |-> a] IN
             x \in Verifying /\ x.phase = ph /\ x.anchor = a
  BY DEF Verifying
<1>5. NoAnchor \in Anchors
  BY <1>0 DEF NoAnchor, Anchors
<1>6. anchor \in Anchors
  BY DEF ChainTypeOK
<1>7. \A n \in 0..MaxEvents : n \in Nat
  OBVIOUS
<1>8. ASSUME NEW r \in Readers, NEW ph \in {"intact", "broken"}
      PROVE  /\ reader[r].anchor \in Anchors
             /\ LET y == [reader[r] EXCEPT !.phase = ph] IN
                y \in Verifying /\ y.phase = ph /\ y.anchor = reader[r].anchor
  BY <1>1 DEF Verifying
<1>9. \A r \in Readers : reader[r].anchor.id \in Nat
  BY <1>2, <1>7, <1>8
<1>. QED
  BY <1>1, <1>2, <1>4, <1>5, <1>6, <1>8, <1>9

(* The predecessor of the next event is an id, or 0. *)
LEMMA PrevFacts ==
    ASSUME ChainTypeOK
    PROVE  /\ Prev \in 0..MaxEvents
           /\ Kept # {} => Max(Kept) \in Kept /\ \A i \in Kept : i <= Max(Kept)
           /\ Max(Written \cup {0}) + 1 \in Nat
           /\ \A i \in Written \cup {0} : i < Max(Written \cup {0}) + 1
<1>0. MaxEvents \in Nat /\ 0 \in 0..MaxEvents
  BY AuditChainAssumption
<1>1. Kept \subseteq 0..MaxEvents /\ Written \cup {0} \subseteq 0..MaxEvents
  BY <1>0 DEF Kept, Written, Ids
<1>2. Kept # {} => Max(Kept) \in Kept /\ \A i \in Kept : i <= Max(Kept)
  BY <1>1, Newest
<1>3. Max(Written \cup {0}) \in Written \cup {0} /\ \A i \in Written \cup {0} : i <= Max(Written \cup {0})
  BY <1>1, Newest
<1>4. \A i \in Written \cup {0} : i \in Nat
  BY <1>0, <1>1
<1>5. Max(Written \cup {0}) \in Nat
  BY <1>3, <1>4
<1>6. \A i \in Written \cup {0} : i < Max(Written \cup {0}) + 1
  BY <1>3, <1>4, <1>5
<1>7. Prev \in 0..MaxEvents
  BY <1>1, <1>2, VerifyingFacts DEF Prev
<1>. QED
  BY <1>2, <1>5, <1>6, <1>7

(* A step that writes neither events nor anchor leaves what is said of them. *)
LEMMA ChainUntouched ==
    ASSUME UNCHANGED <<event, anchor, late>>
    PROVE  /\ Kept' = Kept /\ Written' = Written /\ Gone' = Gone /\ Prev' = Prev
           /\ PrefixInv => PrefixInv'
           /\ AnchorInv => AnchorInv'
           /\ Unforked => Unforked'
           /\ FirstInv => FirstInv'
<1>1. Kept' = Kept /\ Written' = Written
  BY DEF Kept, Written
<1>2. Prev' = Prev /\ Gone' = Gone
  BY <1>1 DEF Prev, Gone
<1>3. (PrefixInv => PrefixInv') /\ (AnchorInv => AnchorInv')
  BY <1>1, <1>2 DEF AnchorInv, PrefixInv
<1>4. Unforked => Unforked'
  BY <1>1 DEF Unforked
<1>5. FirstInv => FirstInv'
  BY <1>1 DEF FirstInv
<1>. QED
  BY <1>1, <1>2, <1>3, <1>4, <1>5

(* ChainVerifies, from its parts. *)
LEMMA Verifies ==
    ASSUME ChainInv
    PROVE  ChainVerifies
<1>1. ASSUME ~late, NEW i \in Kept
      PROVE  LET before == {j \in Kept : j < i} IN
             /\ i > anchor.id
             /\ event[i].prev = IF before = {} THEN anchor.hash ELSE Max(before)
  <2>1. i \in Nat /\ anchor.id \in Nat /\ anchor.id < i
    <3>1. \A j \in Gone : j \in Nat
      BY DEF Gone, Written, Ids
    <3>. QED
      BY <3>1 DEF ChainInv, AnchorInv, PrefixInv, Kept, Ids
  <2>. QED
    BY <1>1, <2>1 DEF ChainInv, Unforked, FirstInv
<1>. QED
  BY <1>1 DEF ChainVerifies, Intact, ChainInv

(* Every step keeps the types. *)
LEMMA ChainTypeStep ==
    ASSUME ChainTypeOK, [ChainNext]_chainVars
    PROVE  ChainTypeOK'
<1>1. ASSUME NEW w \in Writers, NEW x \in Appending, writer' = [writer EXCEPT ![w] = x],
             lock' \subseteq Writers, clock' \in Nat, cutoff' \in 0..clock', event' \in [Ids -> Event],
             UNCHANGED <<anchor, sweep, late, reader>>
      PROVE  ChainTypeOK'
  BY <1>1 DEF ChainTypeOK
<1>2. ASSUME NEW w \in Writers, Begin(w)
      PROVE  ChainTypeOK'
  <2>1. clock' \in Nat /\ cutoff' \in 0..clock'
    BY <1>2 DEF Begin, ChainTypeOK
  <2>. QED
    BY <1>1, <1>2, <2>1, AppendingFacts DEF Begin, ChainTypeOK
<1>3. ASSUME NEW w \in Writers, Lock(w)
      PROVE  ChainTypeOK'
  <2>1. writer' = [writer EXCEPT ![w] = [writer[w] EXCEPT !.phase = "locked"]]
    BY <1>3 DEF Lock
  <2>. QED
    BY <1>1, <1>3, <2>1, AppendingFacts DEF Lock, ChainTypeOK
<1>4. ASSUME NEW w \in Writers, Link(w)
      PROVE  ChainTypeOK'
  <2>1. writer' = [writer EXCEPT ![w] = [writer[w] EXCEPT !.phase = "linked", !.prev = Prev]]
    BY <1>4 DEF Link
  <2>2. [writer[w] EXCEPT !.phase = "linked", !.prev = Prev] \in Appending
    BY AppendingFacts, PrevFacts
  <2>. QED
    BY <1>1, <1>4, <2>1, <2>2 DEF Link, ChainTypeOK
<1>5. ASSUME NEW w \in Writers, AppendEvent(w)
      PROVE  ChainTypeOK'
  <2>1. event' \in [Ids -> Event]
    BY <1>5, AppendingFacts, EventFacts DEF AppendEvent, ChainTypeOK
  <2>. QED
    BY <1>1, <1>5, <2>1, AppendingFacts DEF AppendEvent, ChainTypeOK
<1>6. ASSUME NEW w \in Writers, Rollback(w)
      PROVE  ChainTypeOK'
  BY <1>1, <1>6, AppendingFacts DEF Rollback, ChainTypeOK
<1>7. CASE Ages
  BY <1>7 DEF Ages, ChainTypeOK
<1>8. ASSUME NEW s \in Sweeps, RetentionReads(s)
      PROVE  ChainTypeOK'
  <2>1. Oldest \subseteq 0..MaxEvents /\ Oldest # {}
    BY <1>8, AuditChainAssumption DEF RetentionReads, Oldest, Candidates, Kept, Ids
  <2>2. Max(Oldest) \in 0..MaxEvents
    BY <2>1, Newest
  <2>. QED
    BY <1>8, <2>2 DEF RetentionReads, ChainTypeOK
<1>9. ASSUME NEW s \in Sweeps, RetentionDeletes(s)
      PROVE  ChainTypeOK'
  <2>1. event' \in [Ids -> Event]
    <3>1. 0 \in Nat /\ 0 \in 0..MaxEvents
      BY AuditChainAssumption
    <3>. QED
      BY <1>9, <3>1, EventFacts DEF RetentionDeletes, Deleted
  <2>2. Anchored(sweep[s]) \in Anchors /\ NoPass \in 0..MaxEvents
    BY AuditChainAssumption DEF Anchored, Anchors, ChainTypeOK, NoPass
  <2>. QED
    BY <1>9, <2>1, <2>2 DEF RetentionDeletes, ChainTypeOK
<1>10. ASSUME NEW s \in Sweeps, RetentionFails(s)
       PROVE  ChainTypeOK'
  <2>1. NoPass \in 0..MaxEvents
    BY AuditChainAssumption DEF NoPass
  <2>. QED
    BY <1>10, <2>1 DEF RetentionFails, ChainTypeOK
<1>11. ASSUME NEW r \in Readers, NEW x \in Verifying, reader' = [reader EXCEPT ![r] = x],
              UNCHANGED <<event, anchor, writer, lock, clock, cutoff, sweep, late>>
       PROVE  ChainTypeOK'
  BY <1>11 DEF ChainTypeOK
<1>12. ASSUME NEW r \in Readers, VerifyReadsAnchor(r)
       PROVE  ChainTypeOK'
  BY <1>11, <1>12, VerifyingFacts DEF VerifyReadsAnchor, ChainTypeOK
<1>13. ASSUME NEW r \in Readers, VerifyReadsRows(r)
       PROVE  ChainTypeOK'
  <2>1. PICK ph \in {"intact", "broken"} : reader' = [reader EXCEPT ![r] = [reader[r] EXCEPT !.phase = ph]]
    BY <1>13 DEF VerifyReadsRows
  <2>. QED
    BY <1>11, <1>13, <2>1, VerifyingFacts DEF VerifyReadsRows
<1>14. ASSUME NEW r \in Readers, VerifyDone(r)
       PROVE  ChainTypeOK'
  BY <1>11, <1>14, VerifyingFacts DEF VerifyDone
<1>15. CASE UNCHANGED chainVars
  BY <1>15 DEF chainVars, ChainTypeOK
<1>. QED
  BY <1>2, <1>3, <1>4, <1>5, <1>6, <1>7, <1>8, <1>9, <1>10, <1>12, <1>13, <1>14, <1>15 DEF ChainNext

(* The INSERT adds an event above all others, and removes none. *)
LEMMA AppendKeeps ==
    ASSUME ChainInv, NEW w \in Writers, AppendEvent(w)
    PROVE  LET id == Max(Written \cup {0}) + 1 IN
           /\ \A i \in Ids \ {id} : event'[i] = event[i]
           /\ id \in Ids => event'[id].status = "kept" /\ event'[id].prev = writer[w].prev
           /\ \A i \in Written \cup {0} : i < id
           /\ id \in Nat
           /\ Kept' = Kept \cup ({id} \cap Ids) /\ Written' = Written \cup ({id} \cap Ids)
<1>. DEFINE id == Max(Written \cup {0}) + 1
            row == [status |-> "kept", at |-> writer[w].at, prev |-> writer[w].prev]
<1>0. ChainTypeOK
  BY DEF ChainInv
<1>1. row.status = "kept" /\ row.prev = writer[w].prev
  OBVIOUS
<1>2. event' = [event EXCEPT ![id] = row]
  BY DEF AppendEvent
<1>3. id \in Nat /\ \A i \in Written \cup {0} : i < id
  BY <1>0, PrevFacts
<1>. HIDE DEF id, row
<1>4. /\ \A i \in Ids \ {id} : event'[i] = event[i]
      /\ id \in Ids => event'[id] = row
  BY <1>0, <1>2 DEF ChainTypeOK
<1>5. Kept' = Kept \cup ({id} \cap Ids) /\ Written' = Written \cup ({id} \cap Ids)
  BY <1>1, <1>4 DEF Kept, Written
<1>6. /\ \A i \in Ids \ {id} : event'[i] = event[i]
      /\ id \in Ids => event'[id].status = "kept" /\ event'[id].prev = writer[w].prev
      /\ \A i \in Written \cup {0} : i < id
      /\ id \in Nat
      /\ Kept' = Kept \cup ({id} \cap Ids) /\ Written' = Written \cup ({id} \cap Ids)
  BY <1>1, <1>3, <1>4, <1>5
<1>. QED
  BY <1>6 DEF id

(* A pass that was not overtaken leaves the events above its boundary, which is the
   anchor from then on. *)
LEMMA DeleteKeeps ==
    ASSUME ChainInv, NEW s \in Sweeps, RetentionDeletes(s)
    PROVE  /\ sweep[s] \in Written /\ anchor'.id = sweep[s] /\ anchor'.hash = sweep[s]
           /\ \A i \in Ids : event'[i].prev = event[i].prev
           /\ Kept' = {i \in Kept : i > sweep[s]} /\ Written' = Written
<1>0. ChainTypeOK /\ MaxEvents \in Nat /\ 0 \in Nat /\ 0 \in 0..MaxEvents
  BY AuditChainAssumption DEF ChainInv
<1>. DEFINE b == sweep[s]
<1>1. b \in Written /\ b \in Nat
  BY <1>0 DEF ChainInv, PassInv, RetentionDeletes, Written, Ids
<1>2. anchor'.id = b /\ anchor'.hash = b
  BY DEF RetentionDeletes, Anchored
<1>3. \A i \in Ids : IF i \in Kept /\ i <= b
                     THEN event'[i].status = "deleted" /\ event'[i].prev = event[i].prev
                     ELSE event'[i] = event[i]
  BY <1>0, EventFacts DEF RetentionDeletes, Deleted
<1>. HIDE DEF b
<1>4. Kept' = {i \in Kept : i > b}
  <2>1. \A i \in Ids : i \in Nat
    BY DEF Ids
  <2>2. \A i \in Ids : i \in Kept <=> event[i].status = "kept"
    BY DEF Kept
  <2>3. ASSUME NEW i \in Ids
        PROVE  event'[i].status = "kept" <=> i \in Kept /\ i > b
    <3>1. i > b <=> ~(i <= b)
      BY <1>1, <2>1
    <3>2. CASE i \in Kept /\ i <= b
      BY <1>3, <3>1, <3>2
    <3>3. CASE ~(i \in Kept /\ i <= b)
      BY <1>3, <2>2, <3>1, <3>3
    <3>. QED
      BY <3>2, <3>3
  <2>. QED
    BY <2>3 DEF Kept
<1>5. Written' = Written
  BY <1>3 DEF Written, Kept
<1>7. \A i \in Ids : event'[i].prev = event[i].prev
  BY <1>3
<1>. QED
  BY <1>1, <1>2, <1>4, <1>5, <1>7 DEF b

(* Writers that overlap link one after the other: the lock, the predecessor read
   under it, and the chain they write. *)
LEMMA WriterStep ==
    ASSUME ChainInv, NEW w \in Writers, Begin(w) \/ Lock(w) \/ Link(w) \/ AppendEvent(w) \/ Rollback(w)
    PROVE  /\ LockInv' /\ LinkInv' /\ PrefixInv' /\ PassInv' /\ AnchorInv'
           /\ Unforked' /\ FirstInv' /\ VerifierInv'
<1>0. /\ ChainTypeOK /\ LockInv /\ LinkInv /\ PrefixInv /\ PassInv /\ AnchorInv
      /\ Unforked /\ FirstInv /\ VerifierInv /\ NoAppend.phase = "idle"
  BY AppendingFacts DEF ChainInv
<1>1. ASSUME NEW x, writer' = [writer EXCEPT ![w] = x],
             UNCHANGED <<event, anchor, sweep, late, reader>>,
             LockInv', x.phase = "linked" => x.prev = Prev
      PROVE  /\ LockInv' /\ LinkInv' /\ PrefixInv' /\ PassInv' /\ AnchorInv'
             /\ Unforked' /\ FirstInv' /\ VerifierInv'
  <2>1. \A v \in Writers : writer'[v] = IF v = w THEN x ELSE writer[v]
    BY <1>0, <1>1 DEF ChainTypeOK
  <2>2. /\ Kept' = Kept /\ Written' = Written /\ Gone' = Gone /\ Prev' = Prev
        /\ PrefixInv' /\ AnchorInv' /\ Unforked' /\ FirstInv'
    BY <1>0, <1>1, ChainUntouched
  <2>3. LinkInv'
    BY <1>0, <1>1, <2>1, <2>2 DEF LinkInv, Prev
  <2>4. PassInv' /\ VerifierInv'
    BY <1>0, <1>1, <2>2 DEF PassInv, VerifierInv
  <2>. QED
    BY <1>1, <2>2, <2>3, <2>4
<1>2. CASE Begin(w)
  <2>. DEFINE x == [phase |-> "begun", at |-> clock', prev |-> 0]
  <2>1. x.phase = "begun" /\ writer' = [writer EXCEPT ![w] = x]
    BY <1>2 DEF Begin
  <2>. HIDE DEF x
  <2>2. LockInv'
    BY <1>0, <1>2, <2>1 DEF Begin, LockInv, ChainTypeOK
  <2>. QED
    BY <1>1, <1>2, <2>1, <2>2 DEF Begin
<1>3. CASE Lock(w)
  <2>. DEFINE x == [writer[w] EXCEPT !.phase = "locked"]
  <2>1. x.phase = "locked"
    BY <1>0, AppendingFacts
  <2>2. writer' = [writer EXCEPT ![w] = x] /\ lock = {} /\ lock' = {w}
    BY <1>3 DEF Lock, LockFree
  <2>. HIDE DEF x
  <2>3. LockInv'
    BY <1>0, <2>1, <2>2 DEF LockInv, ChainTypeOK
  <2>. QED
    BY <1>1, <1>3, <2>1, <2>2, <2>3 DEF Lock
<1>4. CASE Link(w)
  <2>. DEFINE x == [writer[w] EXCEPT !.phase = "linked", !.prev = Prev]
  <2>1. x.phase = "linked" /\ x.prev = Prev
    BY <1>0, AppendingFacts, PrevFacts
  <2>2. writer' = [writer EXCEPT ![w] = x] /\ lock' = lock /\ w \in lock
    BY <1>0, <1>4 DEF Link, LockInv
  <2>. HIDE DEF x
  <2>3. LockInv'
    BY <1>0, <2>1, <2>2 DEF LockInv, ChainTypeOK
  <2>. QED
    BY <1>1, <1>4, <2>1, <2>2, <2>3 DEF Link
<1>u. ASSUME writer' = [writer EXCEPT ![w] = NoAppend], lock' = lock \ {w}
      PROVE  LockInv'
  BY <1>0, <1>u DEF LockInv, ChainTypeOK
<1>5. CASE Rollback(w)
  BY <1>0, <1>1, <1>5, <1>u DEF Rollback
<1>6. CASE AppendEvent(w)
  <2>. DEFINE id == Max(Written \cup {0}) + 1
  <2>1. /\ \A i \in Ids \ {id} : event'[i] = event[i]
        /\ id \in Ids => event'[id].status = "kept" /\ event'[id].prev = writer[w].prev
        /\ \A i \in Written \cup {0} : i < id
        /\ id \in Nat
        /\ Kept' = Kept \cup ({id} \cap Ids) /\ Written' = Written \cup ({id} \cap Ids)
    BY <1>6, AppendKeeps
  <2>2. UNCHANGED <<anchor, sweep, late, reader>> /\ writer[w].phase = "linked"
        /\ writer' = [writer EXCEPT ![w] = NoAppend] /\ lock' = lock \ {w}
    BY <1>6 DEF AppendEvent
  <2>. HIDE DEF id
  <2>3. LockInv'
    BY <1>u, <2>2
  <2>4. LinkInv'
    <3>1. \A v \in Writers : v # w => writer[v].phase # "linked"
      BY <1>0, <2>2 DEF LockInv
    <3>. QED
      BY <1>0, <2>2, <3>1 DEF LinkInv, ChainTypeOK
  <2>5. Gone' = Gone /\ Kept \subseteq Written /\ Kept \subseteq Ids /\ \A i \in Ids : i \in Nat
    <3>1. Kept \subseteq Written /\ Kept \subseteq Ids /\ \A i \in Ids : i \in Nat
      BY DEF Kept, Written, Ids
    <3>2. id \notin Written
      BY <2>1
    <3>. QED
      BY <2>1, <3>1, <3>2 DEF Gone
  <2>6. PassInv' /\ VerifierInv' /\ AnchorInv'
    BY <1>0, <2>1, <2>2, <2>5 DEF PassInv, VerifierInv, AnchorInv
  <2>7. PrefixInv'
    <3>1. \A j \in Gone : j \in Written \cup {0}
      BY DEF Gone
    <3>. QED
      BY <1>0, <2>1, <2>5, <3>1 DEF PrefixInv
  <2>8. ASSUME NEW i \in Kept, {j \in Kept' : j < i} # {j \in Kept : j < i} \/ event'[i] # event[i]
        PROVE  FALSE
    <3>1. i < id /\ i \in Nat /\ i \in Ids
      BY <2>1, <2>5
    <3>2. {j \in Kept' : j < i} = {j \in Kept : j < i}
      BY <2>1, <3>1
    <3>. QED
      BY <2>1, <2>8, <3>1, <3>2
  <2>9. ASSUME NEW i \in Kept', i \notin Kept
        PROVE  {j \in Kept' : j < i} = Kept /\ event'[i].prev = writer[w].prev
    <3>1. i = id /\ i \in Ids
      BY <2>1, <2>9
    <3>2. Kept' = Kept \cup {i} /\ ~(i < i) /\ \A j \in Kept : j < i
      BY <2>1, <2>5, <3>1
    <3>3. {j \in Kept' : j < i} = Kept
      BY <3>2
    <3>. QED
      BY <2>1, <3>1, <3>3
  <2>10. Unforked'
    <3>1. ASSUME NEW i \in Kept', {j \in Kept' : j < i} # {}
          PROVE  event'[i].prev = Max({j \in Kept' : j < i})
      <4>1. CASE i \in Kept
        BY <1>0, <2>8, <3>1, <4>1 DEF Unforked
      <4>2. CASE i \notin Kept
        BY <1>0, <2>2, <2>9, <3>1, <4>2 DEF LinkInv
      <4>. QED
        BY <4>1, <4>2
    <3>. QED
      BY <3>1 DEF Unforked
  <2>11. FirstInv'
    <3>1. ASSUME ~late', NEW i \in Kept', {j \in Kept' : j < i} = {}
          PROVE  event'[i].prev = anchor'.hash
      <4>1. CASE i \in Kept
        BY <1>0, <2>2, <2>8, <3>1, <4>1 DEF FirstInv
      <4>2. CASE i \notin Kept
        BY <1>0, <2>2, <2>9, <3>1, <4>2 DEF LinkInv
      <4>. QED
        BY <4>1, <4>2
    <3>. QED
      BY <3>1 DEF FirstInv
  <2>. QED
    BY <2>3, <2>4, <2>6, <2>7, <2>10, <2>11
<1>. QED
  BY <1>2, <1>3, <1>4, <1>5, <1>6

(* A retention pass moves the anchor up to what it deletes, unless another pass has
   deleted that already; then it deletes nothing. *)
LEMMA RetentionStep ==
    ASSUME ChainInv, NEW s \in Sweeps,
           RetentionReads(s) \/ RetentionDeletes(s) \/ RetentionFails(s)
    PROVE  /\ LockInv' /\ LinkInv' /\ PrefixInv' /\ PassInv' /\ AnchorInv'
           /\ Unforked' /\ FirstInv' /\ VerifierInv'
<1>0. /\ ChainTypeOK /\ LockInv /\ LinkInv /\ PrefixInv /\ PassInv /\ AnchorInv
      /\ Unforked /\ FirstInv /\ VerifierInv
      /\ MaxEvents \in Nat /\ UNCHANGED <<writer, lock, reader>>
  BY AuditChainAssumption DEF ChainInv, RetentionReads, RetentionDeletes, RetentionFails
<1>1. LockInv'
  BY <1>0 DEF LockInv
<1>2. ASSUME UNCHANGED <<event, anchor, late>>, PassInv'
      PROVE  /\ LinkInv' /\ PrefixInv' /\ AnchorInv' /\ Unforked' /\ FirstInv' /\ VerifierInv'
  BY <1>0, <1>2, ChainUntouched DEF LinkInv, VerifierInv
<1>3. CASE RetentionReads(s)
  <2>1. Oldest \subseteq 0..MaxEvents /\ Oldest # {} /\ Oldest \subseteq Written
    BY <1>0, <1>3 DEF RetentionReads, Oldest, Candidates, Kept, Written, Ids
  <2>2. Max(Oldest) \in Written
    BY <2>1, Newest
  <2>3. PassInv'
    BY <1>0, <1>3, <2>2, ChainUntouched DEF RetentionReads, PassInv, ChainTypeOK
  <2>. QED
    BY <1>1, <1>2, <1>3, <2>3 DEF RetentionReads
<1>4. CASE RetentionFails(s)
  <2>1. PassInv'
    BY <1>0, <1>4, ChainUntouched DEF RetentionFails, PassInv, ChainTypeOK
  <2>. QED
    BY <1>1, <1>2, <1>4, <2>1 DEF RetentionFails
<1>5. CASE RetentionDeletes(s)
  <2>. DEFINE b == sweep[s]
  <2>1. /\ b \in Written /\ anchor'.id = b /\ anchor'.hash = b
        /\ \A i \in Ids : event'[i].prev = event[i].prev
        /\ Kept' = {i \in Kept : i > b} /\ Written' = Written
    BY <1>5, DeleteKeeps
  <2>2. late' = (b \notin Kept)
    BY <1>5 DEF RetentionDeletes
  <2>3. /\ \A t \in Sweeps : sweep'[t] = NoPass \/ sweep'[t] = sweep[t]
        /\ 0 \notin Written
    BY <1>0, <1>5 DEF RetentionDeletes, ChainTypeOK, Written, Ids
  <2>. HIDE DEF b
  <2>4. b \in Nat /\ Kept \subseteq Ids /\ Kept \subseteq Written /\ \A i \in Ids : i \in Nat
    BY <1>0, <2>1 DEF Kept, Written, Ids
  <2>5. PassInv'
    BY <1>0, <2>1, <2>3 DEF PassInv
  <2>6. Gone' = Gone \cup {i \in Kept : i <= b}
    <3>1. \A i \in Kept : i > b <=> ~(i <= b)
      BY <2>4
    <3>. QED
      BY <2>1, <2>4, <3>1 DEF Gone
  <2>7. PrefixInv'
    <3>1. ASSUME NEW j \in Gone', NEW i \in Kept'
          PROVE  j < i
      <4>1. i \in Kept /\ i > b /\ i \in Nat
        BY <2>1, <2>4
      <4>2. CASE j \in Gone
        BY <1>0, <4>1, <4>2 DEF PrefixInv
      <4>3. CASE j \in Kept /\ j <= b
        BY <2>4, <4>1, <4>3
      <4>. QED
        BY <2>6, <4>2, <4>3
    <3>. QED
      BY <3>1 DEF PrefixInv
  <2>8. AnchorInv'
    BY <1>0, <2>1, <2>4, <2>6 DEF AnchorInv, Gone
  <2>9. VerifierInv'
    <3>1. b \in Kept => \A g \in Gone : g < b /\ g \in Nat
      BY <1>0, <2>4 DEF PrefixInv, Gone, Written
    <3>2. ASSUME NEW r \in Readers, reader[r].phase # "idle"
          PROVE  reader[r].anchor.id = reader[r].anchor.hash /\ reader[r].anchor.id \in Gone
      BY <1>0, <3>2 DEF VerifierInv
    <3>3. ASSUME NEW r \in Readers, reader[r].phase = "broken"
          PROVE  late' \/ reader[r].anchor.id # anchor'.id
      <4>1. CASE b \in Kept
        <5>1. reader[r].anchor.id < b /\ reader[r].anchor.id \in Nat
          BY <3>1, <3>2, <3>3, <4>1
        <5>. QED
          BY <2>1, <2>4, <5>1
      <4>2. CASE b \notin Kept
        BY <2>2, <4>2
      <4>. QED
        BY <4>1, <4>2
    <3>. QED
      BY <1>0, <2>6, <3>2, <3>3 DEF VerifierInv
  <2>10. CASE b \notin Kept
    <3>1. Kept' = Kept
      <4>1. b \in Gone
        BY <2>1, <2>10 DEF Gone
      <4>2. \A i \in Kept : i > b
        BY <1>0, <2>4, <4>1 DEF PrefixInv
      <4>. QED
        BY <2>1, <4>2
    <3>2. late'
      BY <2>2, <2>10
    <3>3. \A i \in Kept : event'[i].prev = event[i].prev
      BY <2>1, <2>4
    <3>4. LinkInv' /\ FirstInv'
      BY <1>0, <3>1, <3>2 DEF LinkInv, FirstInv
    <3>5. Unforked'
      BY <1>0, <3>1, <3>3 DEF Unforked
    <3>. QED
      BY <1>1, <2>5, <2>7, <2>8, <2>9, <3>4, <3>5
  <2>11. CASE b \in Kept
    <3>. DEFINE old(i) == {j \in Kept : j < i}
                new(i) == {j \in Kept' : j < i}
    <3>1. ASSUME NEW T, T \subseteq Kept, b \in T
          PROVE  LET U == {j \in T : j > b} IN
                 /\ U = {} => Max(T) = b
                 /\ U # {} => Max(U) = Max(T)
      <4>. DEFINE U == {j \in T : j > b}
      <4>1. T \subseteq 0..MaxEvents /\ U \subseteq 0..MaxEvents /\ T # {}
            /\ \A j \in T : j \in Nat
        <5>1. Ids \subseteq 0..MaxEvents
          BY <1>0 DEF Ids
        <5>2. T \subseteq Ids /\ U \subseteq T /\ T # {}
          BY <2>4, <3>1
        <5>. QED
          BY <2>4, <5>1, <5>2
      <4>2. Max(T) \in T /\ (\A j \in T : j <= Max(T)) /\ Max(T) \in Nat
        <5>1. Max(T) \in T /\ \A j \in T : j <= Max(T)
          BY <4>1, Newest
        <5>. QED
          BY <4>1, <5>1
      <4>3. ASSUME U = {}
            PROVE  Max(T) = b
        <5>1. ~(Max(T) > b) /\ b <= Max(T)
          BY <3>1, <4>2, <4>3
        <5>. QED
          BY <2>4, <4>2, <5>1
      <4>4. ASSUME U # {}
            PROVE  Max(U) = Max(T)
        <5>1. PICK k \in T : k > b
          BY <4>4
        <5>2. k \in Nat /\ k <= Max(T)
          BY <4>1, <4>2, <5>1
        <5>3. Max(T) > b
          BY <2>4, <4>2, <5>1, <5>2
        <5>4. Max(T) \in U /\ \A j \in U : j <= Max(T)
          BY <4>2, <5>3
        <5>. QED
          BY <4>1, <5>4, Newest
      <4>. QED
        BY <4>3, <4>4
    <3>2. LinkInv'
      BY <1>0, <2>1, <2>11, <3>1 DEF LinkInv
    <3>3. ASSUME NEW i \in Kept'
          PROVE  /\ old(i) \subseteq Kept /\ b \in old(i) /\ new(i) = {j \in old(i) : j > b}
                 /\ event'[i].prev = Max(old(i))
      <4>1. i \in Kept /\ i > b /\ i \in Ids /\ i \in Nat
        BY <2>1, <2>4
      <4>2. b \in old(i) /\ new(i) = {j \in old(i) : j > b}
        BY <2>1, <2>4, <2>11, <4>1
      <4>3. event[i].prev = Max(old(i))
        BY <1>0, <4>1, <4>2 DEF Unforked
      <4>. QED
        BY <2>1, <4>1, <4>2, <4>3
    <3>. HIDE DEF old, new
    <3>4. ASSUME NEW i \in Kept'
          PROVE  event'[i].prev = IF new(i) = {} THEN b ELSE Max(new(i))
      BY <3>1, <3>3
    <3>5. Unforked'
      BY <3>4 DEF Unforked, new
    <3>6. FirstInv'
      BY <2>1, <3>4 DEF FirstInv, new
    <3>. QED
      BY <1>1, <2>5, <2>7, <2>8, <2>9, <3>2, <3>5, <3>6
  <2>. QED
    BY <2>10, <2>11
<1>. QED
  BY <1>3, <1>4, <1>5

(* A verification that reads the anchor of now finds a sound chain sound. *)
LEMMA VerifierStep ==
    ASSUME ChainInv, NEW r \in Readers,
           VerifyReadsAnchor(r) \/ VerifyReadsRows(r) \/ VerifyDone(r)
    PROVE  /\ LockInv' /\ LinkInv' /\ PrefixInv' /\ PassInv' /\ AnchorInv'
           /\ Unforked' /\ FirstInv' /\ VerifierInv'
<1>0. /\ ChainTypeOK /\ LockInv /\ LinkInv /\ PrefixInv /\ PassInv /\ AnchorInv
      /\ Unforked /\ FirstInv /\ VerifierInv
      /\ UNCHANGED <<event, anchor, writer, lock, sweep, late>>
  BY DEF ChainInv, VerifyReadsAnchor, VerifyReadsRows, VerifyDone
<1>1. /\ LockInv' /\ LinkInv' /\ PrefixInv' /\ PassInv' /\ AnchorInv' /\ Unforked' /\ FirstInv'
      /\ Gone' = Gone
  BY <1>0, ChainUntouched DEF LockInv, LinkInv, PassInv
<1>2. anchor \in Anchors
  BY <1>0 DEF ChainTypeOK
<1>3. ASSUME NEW x \in Verifying, reader' = [reader EXCEPT ![r] = x],
             x.phase # "idle" => x.anchor.id = x.anchor.hash /\ x.anchor.id \in Gone,
             x.phase = "broken" => late \/ x.anchor.id # anchor.id
      PROVE  VerifierInv'
  BY <1>0, <1>1, <1>3 DEF VerifierInv, ChainTypeOK
<1>4. CASE VerifyReadsAnchor(r)
  <2>. DEFINE x == [phase |-> "reading", anchor |-> anchor]
  <2>1. x \in Verifying /\ x.phase = "reading" /\ x.anchor = anchor
    BY <1>0, <1>2, VerifyingFacts
  <2>2. reader' = [reader EXCEPT ![r] = x]
    BY <1>4 DEF VerifyReadsAnchor
  <2>. HIDE DEF x
  <2>3. x.anchor.id = x.anchor.hash /\ x.anchor.id \in Gone
    BY <1>0, <2>1 DEF AnchorInv
  <2>4. VerifierInv'
    BY <1>3, <2>1, <2>2, <2>3
  <2>. QED
    BY <1>1, <2>4
<1>5. CASE VerifyReadsRows(r)
  <2>1. PICK ph \in {"intact", "broken"} :
           /\ reader' = [reader EXCEPT ![r] = [reader[r] EXCEPT !.phase = ph]]
           /\ ph = "broken" => ~Intact(reader[r].anchor)
    BY <1>5 DEF VerifyReadsRows
  <2>. DEFINE x == [reader[r] EXCEPT !.phase = ph]
  <2>2. x \in Verifying /\ x.phase = ph /\ x.anchor = reader[r].anchor
    BY <1>0, VerifyingFacts
  <2>3. reader' = [reader EXCEPT ![r] = x]
    BY <2>1
  <2>. HIDE DEF x
  <2>4. reader[r].anchor.id = reader[r].anchor.hash /\ reader[r].anchor.id \in Gone
    BY <1>0, <1>5 DEF VerifierInv, VerifyReadsRows
  <2>5. ASSUME ~late, reader[r].anchor.id = anchor.id
        PROVE  Intact(reader[r].anchor)
    <3>1. Intact(anchor)
      BY <2>5, Verifies DEF ChainVerifies
    <3>2. reader[r].anchor.hash = anchor.hash
      BY <1>0, <2>4, <2>5 DEF AnchorInv
    <3>. QED
      BY <2>5, <3>1, <3>2 DEF Intact
  <2>6. ph = "broken" => late \/ reader[r].anchor.id # anchor.id
    BY <2>1, <2>5
  <2>7. VerifierInv'
    BY <1>3, <2>2, <2>3, <2>4, <2>6
  <2>. QED
    BY <1>1, <2>7
<1>6. CASE VerifyDone(r)
  <2>. DEFINE x == [phase |-> "idle", anchor |-> NoAnchor]
  <2>1. x \in Verifying /\ x.phase = "idle"
    BY <1>0, VerifyingFacts
  <2>2. reader' = [reader EXCEPT ![r] = x]
    BY <1>6 DEF VerifyDone
  <2>. HIDE DEF x
  <2>3. VerifierInv'
    BY <1>3, <2>1, <2>2
  <2>. QED
    BY <1>1, <2>3
<1>. QED
  BY <1>4, <1>5, <1>6

(* The invariant of the chain holds in every state, for any number of writers,
   retention passes that overlap, verifications and events. *)
THEOREM ChainHolds == ChainSpec => []ChainInv
<1>1. ChainInit => ChainInv
  <2>. SUFFICES ASSUME ChainInit PROVE ChainInv
    OBVIOUS
  <2>0. MaxEvents \in Nat /\ 0 \in 0..MaxEvents
    BY AuditChainAssumption
  <2>1. NoEvent \in Event /\ NoEvent.status = "none" /\ NoAppend \in Appending /\ NoAppend.phase = "idle"
    BY <2>0 DEF NoEvent, Event, NoAppend, Appending
  <2>2. NoAnchor \in Anchors /\ NoAnchor.id = 0 /\ NoAnchor.hash = 0
    BY <2>0 DEF NoAnchor, Anchors
  <2>3. [phase |-> "idle", anchor |-> NoAnchor] \in Verifying
    BY <2>2 DEF Verifying
  <2>4. ChainTypeOK
    <3>1. late \in BOOLEAN /\ sweep \in [Sweeps -> 0..MaxEvents]
      BY <2>0 DEF ChainInit, NoPass
    <3>2. event \in [Ids -> Event] /\ writer \in [Writers -> Appending] /\ reader \in [Readers -> Verifying]
      BY <2>1, <2>3 DEF ChainInit
    <3>3. anchor \in Anchors /\ lock \subseteq Writers /\ clock \in Nat /\ cutoff \in 0..clock
      BY <2>2 DEF ChainInit
    <3>. QED
      BY <3>1, <3>2, <3>3 DEF ChainTypeOK
  <2>5. Kept = {}
    BY <2>1 DEF ChainInit, Kept
  <2>6. LockInv /\ LinkInv /\ PassInv
    BY <2>1 DEF ChainInit, LockInv, LinkInv, PassInv
  <2>7. AnchorInv /\ PrefixInv /\ Unforked /\ FirstInv
    BY <2>2, <2>5 DEF ChainInit, AnchorInv, Gone, PrefixInv, Unforked, FirstInv
  <2>8. VerifierInv
    BY DEF ChainInit, VerifierInv
  <2>. QED
    BY <2>4, <2>6, <2>7, <2>8 DEF ChainInv
<1>2. ASSUME ChainInv, [ChainNext]_chainVars
      PROVE  ChainInv'
  <2>1. ChainTypeOK'
    BY <1>2, ChainTypeStep DEF ChainInv
  <2>2. CASE Ages \/ UNCHANGED chainVars
    <3>1. UNCHANGED <<event, anchor, writer, lock, sweep, late, reader>>
      BY <2>2 DEF Ages, chainVars
    <3>2. /\ AnchorInv' /\ Unforked' /\ FirstInv' /\ PrefixInv' /\ LinkInv' /\ PassInv' /\ VerifierInv'
      BY <1>2, <3>1, ChainUntouched DEF ChainInv, LinkInv, PassInv, VerifierInv
    <3>. QED
      BY <1>2, <2>1, <3>1, <3>2 DEF ChainInv, LockInv
  <2>3. CASE ChainNext
    BY <1>2, <2>1, <2>2, <2>3, WriterStep, RetentionStep, VerifierStep DEF ChainNext, ChainInv
  <2>. QED
    BY <1>2, <2>2, <2>3
<1>. QED
  BY <1>1, <1>2, PTL DEF ChainSpec

(* Events, anchor, transactions, passes and verifications keep to their types. *)
THEOREM ChainTypeCorrect == ChainSpec => []ChainTypeOK
<1>1. ChainInv => ChainTypeOK
  BY DEF ChainInv
<1>. QED
  BY <1>1, ChainHolds, PTL

(* For any number of writers, overlapping retention passes and events, the chain is
   never forked, and what is left of it verifies from the anchor unless the pass
   that set it was overtaken (record, platform_enforce_retention, verify_chain). *)
THEOREM ChainStaysSound == ChainSpec => []ChainVerifies
  BY Verifies, ChainHolds, PTL

(* For any number of overlapping passes, a verification complains only when the
   anchor it read has been replaced since, or was set by an overtaken pass
   (verify_chain). *)
THEOREM AlarmsAreStale == ChainSpec => []NoFalseAlarm
<1>1. ChainInv => NoFalseAlarm
  BY DEF ChainInv, VerifierInv, NoFalseAlarm
<1>. QED
  BY <1>1, ChainHolds, PTL
=============================================================================

------------------------------- MODULE Canary -------------------------------
(***************************************************************************)
(* Releases and their share of the traffic: release/canary.py over the     *)
(* tables release and release_observation.                                 *)
(*                                                                         *)
(* A deploy registers a revision and shifts a slice of traffic to it       *)
(* (start_canary); a supervisor started on a schedule judges a canary      *)
(* against the active revision and acts (evaluate_canary, then rollback or *)
(* promote).  Each of these operations reads the active revision and then  *)
(* writes rows by name, whatever has become of them: none locks, none      *)
(* looks at a status, and any two may overlap.  A caller of supervise      *)
(* names a canary and the active revision.  The window of observations     *)
(* slides, so what a revision looks like may change at any time; only the  *)
(* comparison is kept of rates and latencies.                              *)
(***************************************************************************)
EXTENDS Naturals, FiniteSets

CONSTANTS Revisions,
          First,        \* the revision that is active at the beginning
          Weights,      \* slices a deploy may ask for
          Sessions,     \* database sessions of operations that may overlap
          MaxStarts,    \* bound: calls of start_canary
          NoRevision

ASSUME CanaryAssumption ==
    /\ First \in Revisions /\ NoRevision \notin Revisions
    /\ Weights \subseteq 1..99
    /\ MaxStarts \in Nat

VARIABLES release,      \* table release: status and traffic_weight
          looks,        \* what the window shows of each revision
          session,      \* each operation under way and the active revision it read
          starts        \* calls of start_canary so far

canaryVars == <<release, looks, session, starts>>

\* "thin": fewer than min_observations.
Looks == {"thin", "healthy", "unhealthy"}

\* "none": no row.
Release == [status : {"none", "candidate", "canary", "active", "rolled_back", "retired"},
            weight : 0..100]
Operation == [phase : {"idle", "judged", "read"}, does : {"none", "start", "promote", "rollback"},
              candidate : Revisions \cup {NoRevision}, active : Revisions \cup {NoRevision},
              weight : 0..100]

(* Releases keep to the statuses of the release table's CHECK, weights are
   percentages. *)
CanaryTypeOK ==
    /\ release \in [Revisions -> Release]
    /\ looks \in [Revisions -> Looks]
    /\ session \in [Sessions -> Operation]
    /\ starts \in 0..MaxStarts

NoOperation == [phase |-> "idle", does |-> "none", candidate |-> NoRevision, active |-> NoRevision,
         weight |-> 0]

CanaryInit ==
    /\ release = [r \in Revisions |-> [status |-> IF r = First THEN "active" ELSE "none",
                                       weight |-> IF r = First THEN 100 ELSE 0]]
    /\ looks = [r \in Revisions |-> "thin"]
    /\ session = [s \in Sessions |-> NoOperation]
    /\ starts = 0

WithStatus(status) == {r \in Revisions : release[r].status = status}

\* SELECT ... WHERE status = 'active' gives no row or one; several raise.
ReadsAsActive(a) == WithStatus("active") = IF a = NoRevision THEN {} ELSE {a}

-----------------------------------------------------------------------------
(* The deploy.                                                             *)
Register(c) ==
    /\ release[c].status = "none"
    /\ release' = [release EXCEPT ![c] = [status |-> "candidate", weight |-> 0]]
    /\ UNCHANGED <<looks, session, starts>>

\* start_canary up to its UPDATEs: there is an active revision.
StartReads(s, c, w, a) ==
    /\ session[s].phase = "idle"
    /\ a # NoRevision /\ ReadsAsActive(a)
    /\ starts < MaxStarts
    /\ starts' = starts + 1
    /\ session' = [session EXCEPT ![s] = [phase |-> "read", does |-> "start", candidate |-> c,
                                         active |-> a, weight |-> w]]
    /\ UNCHANGED <<release, looks>>

\* observe, and the passing of the window; only traffic makes observations.
Observe(r, look) ==
    /\ look # "thin" => release[r].weight > 0
    /\ looks[r] # look
    /\ looks' = [looks EXCEPT ![r] = look]
    /\ UNCHANGED <<release, session, starts>>

-----------------------------------------------------------------------------
(* supervise.                                                              *)
VerdictPromotingOnBreach(c, b) ==
    IF looks[c] = "thin" THEN "hold" ELSE "promote"

\* evaluate_canary: the candidate's rates against the baseline's.
Verdict(c, b) ==
    CASE looks[c] = "thin" -> "hold"
      [] looks[c] = "unhealthy" /\ looks[b] # "unhealthy" -> "rollback"
      [] OTHER -> "promote"

Evaluate(s, c, b) ==
    /\ session[s].phase = "idle"
    /\ release[c].status = "canary" /\ release[b].status = "active"
    /\ Verdict(c, b) # "hold"
    /\ session' = [session EXCEPT ![s] = [phase |-> "judged", does |-> Verdict(c, b),
                                         candidate |-> c, active |-> NoRevision, weight |-> 0]]
    /\ UNCHANGED <<release, looks, starts>>

\* The SELECT of the active revision in rollback and promote.
ReadActive(s, a) ==
    /\ session[s].phase = "judged"
    /\ ReadsAsActive(a)
    /\ session' = [session EXCEPT ![s].phase = "read", ![s].active = a]
    /\ UNCHANGED <<release, looks, starts>>

-----------------------------------------------------------------------------
(* The UPDATEs, by name: a revision without a row is not updated.          *)
HasRow(r) == r # NoRevision /\ release[r].status # "none"

\* start_canary: the candidate, then what was active.
Sliced(c, a, w) ==
    LET rel == IF HasRow(c) THEN [release EXCEPT ![c] = [status |-> "canary", weight |-> w]]
               ELSE release IN
    [rel EXCEPT ![a].weight = 100 - w]

RolledBackForgettingTheActive(c, a) ==
    [release EXCEPT ![c] = [status |-> "rolled_back", weight |-> 0]]

\* rollback: the candidate, then what was active.
RolledBack(c, a) ==
    LET rel == [release EXCEPT ![c] = [status |-> "rolled_back", weight |-> 0]] IN
    IF a = NoRevision THEN rel ELSE [rel EXCEPT ![a].weight = 100]

\* promote: what was active, then the candidate.
Promoted(c, a) ==
    LET rel == IF a = NoRevision THEN release
               ELSE [release EXCEPT ![a] = [status |-> "retired", weight |-> 0]] IN
    [rel EXCEPT ![c] = [status |-> "active", weight |-> 100]]

Act(s) ==
    LET c == session[s].candidate  a == session[s].active IN
    /\ session[s].phase = "read"
    /\ release' = CASE session[s].does = "start" -> Sliced(c, a, session[s].weight)
                    [] session[s].does = "rollback" -> RolledBack(c, a)
                    [] session[s].does = "promote" -> Promoted(c, a)
    /\ session' = [session EXCEPT ![s] = NoOperation]
    /\ UNCHANGED <<looks, starts>>

\* one_or_none raises on several active revisions.
Raises(s) ==
    /\ session[s].phase = "judged"
    /\ Cardinality(WithStatus("active")) > 1
    /\ session' = [session EXCEPT ![s] = NoOperation]
    /\ UNCHANGED <<release, looks, starts>>

\* The transaction fails, or the process dies, for any other reason.
Dies(s) ==
    /\ session[s].phase # "idle"
    /\ session[s].phase = "judged" => Cardinality(WithStatus("active")) <= 1
    /\ session' = [session EXCEPT ![s] = NoOperation]
    /\ UNCHANGED <<release, looks, starts>>

CanaryNext ==
    \/ \E c \in Revisions : Register(c) \/ \E look \in Looks : Observe(c, look)
    \/ \E s \in Sessions :
          \/ \E c, a \in Revisions : \/ \E w \in Weights : StartReads(s, c, w, a)
                                    \/ Evaluate(s, c, a)
          \/ \E a \in Revisions \cup {NoRevision} : ReadActive(s, a)
          \/ Act(s) \/ Raises(s) \/ Dies(s)

CanarySpec == CanaryInit /\ [][CanaryNext]_canaryVars

\* Fairness: the pipeline of every canary runs supervise on its schedule, and an
\* operation that does not fail goes on to its end.
CanaryFairness ==
    /\ \A c \in Revisions :
          SF_canaryVars(\E s \in Sessions, b \in Revisions : Evaluate(s, c, b))
    /\ \A s \in Sessions :
          /\ WF_canaryVars(\E a \in Revisions \cup {NoRevision} : ReadActive(s, a))
          /\ WF_canaryVars(Act(s)) /\ WF_canaryVars(Raises(s))
          /\ <>[][~Dies(s)]_canaryVars

CanaryFairSpec == CanarySpec /\ CanaryFairness

-----------------------------------------------------------------------------
Split == {r \in Revisions : release[r].status \in {"active", "canary"}}

\* One active revision, at most one canary, and their weights.
SplitIsWhole ==
    \E a \in Revisions :
        /\ WithStatus("active") = {a}
        /\ \/ Split = {a} /\ release[a].weight = 100
           \/ \E c \in Revisions \ {a} : /\ Split = {a, c}
                                        /\ release[a].weight + release[c].weight = 100

\* The revisions are still what the operation takes them for, and no other canary is live.
InTurn(s) ==
    LET c == session[s].candidate IN
    /\ WithStatus("active") = {session[s].active}
    /\ HasRow(c) /\ c # session[s].active
    /\ WithStatus("canary") \subseteq {c}
    /\ session[s].does # "start" => release[c].status = "canary"

(* "The two live revisions must sum to 100" (migration 0011): what the router is
   told stops adding up, over one active revision, only in an operation that is out
   of turn, because another one has moved the revision it read as active or its
   candidate, or has another canary live.  Nothing in canary.py prevents those; every other
   start, rollback and promotion, however they overlap, keeps the split whole. *)
TrafficIsWhole ==
    [][SplitIsWhole /\ ~SplitIsWhole' =>
         \E s \in Sessions : session[s].phase = "read" /\ session'[s] = NoOperation /\ ~InTurn(s)]_canaryVars

Breaching(c, b) ==
    /\ release[c].status = "canary" /\ WithStatus("active") = {b}
    /\ looks[c] = "unhealthy" /\ looks[b] # "unhealthy"

\* A verdict reached before the breach showed.
OldVerdict(c) == \E s \in Sessions : session[s].candidate = c /\ session[s].does = "promote"

(* "recover automatically": a canary that breaches against a sound active revision
   loses its traffic, and is not promoted instead, however many operations run
   beside and whichever of them fail (supervise).  Only a change of the picture ends
   the obligation: its numbers recover, the baseline's break too, or the baseline is
   replaced while it is still a canary. *)
BreachEndsInRollback ==
    \A c \in Revisions, b \in Revisions :
        (Breaching(c, b) /\ ~OldVerdict(c)) ~>
            \/ release[c].status \notin {"canary", "active"}
            \/ looks[c] # "unhealthy" \/ looks[b] = "unhealthy"
            \/ release[c].status = "canary" /\ WithStatus("active") # {b}
=============================================================================

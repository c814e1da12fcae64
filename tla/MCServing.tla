----------------------------- MODULE MCServing ------------------------------
(***************************************************************************)
(* Two small instances of Serving in one run, told apart by `instance`.    *)
(* "rebuilds": two rebuilds at once and three versions, under a request    *)
(* that is followed through its two reads (while anything is due to it) in *)
(* dense mode.  "caches": one rebuild at a time and two versions, under    *)
(* whole requests in both modes, with both caches and a publish.  Two      *)
(* documents share a text, and one of them has another of its own.         *)
(***************************************************************************)
EXTENDS Serving, TLC

CONSTANTS d1, d2, t1, t2

MCSays == d1 :> {t1} @@ d2 :> {t1, t2}

Symmetry == Permutations(Jobs)

VARIABLE instance

Bounded ==
    \/ /\ instance = "rebuilds"
       /\ query'.phase = "idle" \/ (query'.phase = "retrieving" /\ query'.due # {})
       /\ taxonomy' = taxonomy
    \/ /\ instance = "caches"
       /\ Cardinality({j \in Jobs : job'[j].phase # "idle"}) < 2
       /\ build'[MaxVersion] = "none"

MCInit == ServingInit /\ instance \in {"rebuilds", "caches"}
MCNext == ServingNext /\ Bounded /\ UNCHANGED instance
MCSpec == MCInit /\ [][MCNext]_<<servingVars, instance>>
=============================================================================

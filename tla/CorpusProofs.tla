---------------------------- MODULE CorpusProofs ----------------------------
(***************************************************************************)
(* Proofs about the corpus of a collection, in two parts.                  *)
(*                                                                         *)
(* Serving and the CollectionBuilds under it, for any number of documents, *)
(* texts, versions, taxonomies and rebuilds at once.  What a request       *)
(* answers with, and which taxonomy a cached graph has, does not depend on *)
(* the rebuilds (ServingInv).  A rebuild that no other has crossed has its *)
(* version to itself, and what it copied, listed and wrote adds up         *)
(* (Uncrossed); the build a reader was told of is live or the last one     *)
(* before the live (Findable).                                             *)
(*                                                                         *)
(* Documents, for any number of files, contents, rows and requests in      *)
(* flight.  Its invariants are about what the routes leave behind, and     *)
(* depend on what the requests still in flight know.  An upload between    *)
(* its two writes counts on bytes a purge may remove (UploadHasBytes); a   *)
(* purge between its two counts on the object being gone, which another    *)
(* upload may bring back (LedTo); and a change counts on its idempotency   *)
(* key being fresh (KeysAreUsed).                                          *)
(***************************************************************************)
EXTENDS Serving, Documents, FiniteSetTheorems, WellFoundedInduction, TLAPS

-----------------------------------------------------------------------------
\* An answer in the cache was made from the sources it is stored under, a prompt
\* from the documents loaded first, and a graph under way is up to date or late.
ServingInv ==
    /\ ServingTypeOK
    /\ known <= taxonomy
    /\ response.stored => response.content = response.key
    /\ query.phase = "asking" => query.sources \subseteq query.docs
    /\ AnswersAreOfOneBuild
    /\ query.phase = "building" => query.late \/ query.taxonomy >= known
    /\ GraphFollowsPublish

\* The texts of documents purged since a rebuild's begin.
Lost(j) == UNION {Says[d] : d \in Purged \ job[j].before}

\* The document has a chunk in rebuild j's version, or others have its texts.
Has(j, d) ==
    LET v == job[j].version IN d \in Sources(v) \/ Says[d] \subseteq Held(v) \cup Lost(j)

\* What a rebuild that no other has crossed can rely on: its row, that its version
\* is its own, and what it has copied, listed and written so far.
Uncrossed(j) ==
    LET v == job[j].version IN
    /\ build[v] # "none"
    /\ \A i \in Jobs \ {j} : job[i].phase \in Begun => job[i].version # v
    /\ Sources(v) \cap job[j].before = {}
    /\ job[j].phase = "writing" => /\ job[j].prepared \cap job[j].before = {}
                                   /\ job[j].throughout \subseteq job[j].prepared \cup Sources(v)
    /\ job[j].phase \in {"promoting", "reaping"} => \A d \in job[j].throughout : Has(j, d)

RebuildInv(j) ==
    /\ job[j].phase \in Begun \cup {"numbered"} => job[j].version \in Versions
    /\ job[j].throughout \subseteq Current
    /\ job[j].before \subseteq Withdrawn
    /\ job[j].phase \in Begun /\ ~job[j].crossed => Uncrossed(j)

\* One build is live, and a chunk is of a document that has its text.
RowsInv ==
    /\ \A u, l \in Live : u = l
    /\ \A v \in Versions : \A t \in Held(v) : t \in Says[chunk[v][t]]

\* A build with rows that are due to a reader is live or the one before the live
\* one, and the newest but for that.
Findable(v, due) ==
    /\ v \in Versions
    /\ due \subseteq Held(v)
    /\ \A u \in Superseded : u <= v
    /\ v \in Live \/ (v \in Superseded /\ \A l \in Live : v < l)

ReaderInv ==
    query.phase \in Reading /\ query.due # {} => Findable(query.version, query.due)

BuildsInv == TypeOK /\ RowsInv /\ \A j \in Jobs : RebuildInv(j)
-----------------------------------------------------------------------------
(* A set of numbers has a least one. *)
LEMMA MinExists ==
    ASSUME NEW T, T \subseteq Nat, T # {}
    PROVE  \E x \in T : \A y \in T : x <= y
<1>. DEFINE R == OpToRel(<, Nat)
<1>1. IsWellFoundedOn(R, Nat)
  BY NatLessThanWellFounded
<1>2. PICK x \in T : \A y \in T : ~(<<y, x>> \in R)
  <2>. HIDE DEF R
  <2>. QED
    BY <1>1, WFMin
<1>3. \A y \in T : ~(y < x)
  BY <1>2 DEF OpToRel
<1>. QED
  BY <1>3

(* Max finds the greatest of a bounded set of numbers (begin's MAX(version)). *)
LEMMA MaxFacts ==
    ASSUME NEW n \in Nat, NEW T, T \subseteq 0..n, T # {}
    PROVE  Max(T) \in T /\ \A y \in T : Max(T) >= y
<1>. DEFINE U == {k \in 0..n : n - k \in T}
<1>1. PICK t \in T : t \in 0..n
  OBVIOUS
<1>2. n - t \in U
  BY <1>1
<1>3. PICK u \in U : \A k \in U : u <= k
  <2>1. U \subseteq Nat /\ U # {}
    BY <1>2
  <2>. HIDE DEF U
  <2>. QED
    BY <2>1, MinExists
<1>4. \A y \in T : n - y \in U
  OBVIOUS
<1>5. n - u \in T /\ \A y \in T : n - u >= y
  BY <1>3, <1>4
<1>6. \E x \in T : \A y \in T : x >= y
  BY <1>5
<1>. QED
  BY <1>6 DEF Max

(* The version begin takes is new, and within the bound. *)
LEMMA NextVersion ==
    ASSUME TypeOK
    PROVE  /\ Max(Built \cup {0}) \in 0..MaxVersion
           /\ \A u \in Built : u <= Max(Built \cup {0})
<1>1. Built \cup {0} \subseteq 0..MaxVersion /\ MaxVersion \in Nat
  BY CollectionBuildsAssumption DEF Built, Versions
<1>2. Max(Built \cup {0}) \in Built \cup {0} /\ \A y \in Built \cup {0} : Max(Built \cup {0}) >= y
  BY <1>1, MaxFacts
<1>. QED
  BY <1>1, <1>2

(* The live version a request or a rebuild reads is one, or none. *)
LEMMA LiveVersion ==
    /\ TheLive \in 0..MaxVersion
    /\ TheLive # 0 => TheLive \in Live
<1>1. Live \subseteq 0..MaxVersion /\ Live \subseteq Versions /\ MaxVersion \in Nat
  BY CollectionBuildsAssumption DEF Live, Versions
<1>2. CASE Live = {}
  BY <1>1, <1>2 DEF TheLive
<1>3. CASE Live # {}
  <2>1. Max(Live) \in Live
    BY <1>1, <1>3, MaxFacts
  <2>. QED
    BY <1>1, <1>3, <2>1 DEF TheLive
<1>. QED
  BY <1>2, <1>3

(* A rebuild's step changes its own record only, and to a record of the kind. *)
LEMMA JobFacts ==
    ASSUME TypeOK, NEW j \in Jobs
    PROVE  /\ job[j] \in Job /\ Idle \in Job
           /\ [job[j] EXCEPT !.phase = "reaping"] \in Job
           /\ [job[j] EXCEPT !.phase = "listing", !.previous = 0] \in Job
           /\ [job[j] EXCEPT !.phase = "promoting", !.prepared = {}] \in Job
           /\ [job[j] EXCEPT !.crossed = TRUE, !.throughout = {}, !.before = {}] \in Job
           /\ \A v \in 0..MaxVersion :
                 /\ [job[j] EXCEPT !.phase = "read", !.previous = v] \in Job
                 /\ [job[j] EXCEPT !.phase = "numbered", !.version = v] \in Job
           /\ \A D \in SUBSET Docs :
                 /\ [job[j] EXCEPT !.phase = "writing", !.prepared = D] \in Job
                 /\ [job[j] EXCEPT !.throughout = D] \in Job
           /\ \A c \in BOOLEAN, D \in SUBSET Docs, E \in SUBSET Docs :
                 [job[j] EXCEPT !.phase = "copying", !.crossed = c, !.throughout = D,
                                !.before = E] \in Job
<1>1. job[j] \in Job
  BY DEF TypeOK
<1>2. Idle \in Job /\ 0 \in 0..MaxVersion
  BY CollectionBuildsAssumption DEF Idle, Job, Phases
<1>. QED
  BY <1>1, <1>2 DEF Job, Phases

(* What INSERT ... ON CONFLICT DO NOTHING leaves of a build and of the others. *)
LEMMA InsertedFacts ==
    ASSUME TypeOK, NEW v \in Versions, NEW new \in Chunks
    PROVE  /\ Inserted(v, new) \in [Versions -> Chunks]
           /\ \A u \in Versions \ {v} : Inserted(v, new)[u] = chunk[u]
           /\ \A t \in Texts : Inserted(v, new)[v][t] = IF chunk[v][t] = NoDoc THEN new[t] ELSE chunk[v][t]
<1>1. chunk \in [Versions -> Chunks]
  BY DEF TypeOK
<1>2. [t \in Texts |-> IF chunk[v][t] = NoDoc THEN new[t] ELSE chunk[v][t]] \in Chunks
  BY <1>1 DEF Chunks
<1>3. Inserted(v, new) = [chunk EXCEPT ![v] = [t \in Texts |-> IF chunk[v][t] = NoDoc THEN new[t]
                                                               ELSE chunk[v][t]]]
  BY <1>1 DEF Inserted
<1>. QED
  BY <1>1, <1>2, <1>3

(* What copy_forward and _ingest_missing insert, into the rebuild's own version. *)
LEMMA WriteFacts ==
    ASSUME TypeOK, NEW j \in Jobs, RebuildInv(j)
    PROVE  /\ CopyForward(j) =>
                 \E new \in Chunks :
                    /\ chunk' = Inserted(job[j].version, new)
                    /\ \A t \in Texts : new[t] # NoDoc =>
                          /\ new[t] \in Current
                          /\ \E u \in Versions : chunk[u][t] = new[t]
           /\ WriteMissing(j) =>
                 \E new \in Chunks :
                    /\ chunk' = Inserted(job[j].version, new)
                    /\ \A t \in Texts : new[t] # NoDoc => new[t] \in job[j].prepared /\ t \in Says[new[t]]
                    /\ \A d \in job[j].prepared \cap Current : \A t \in Says[d] : new[t] # NoDoc
<1>0. /\ chunk \in [Versions -> Chunks] /\ job[j] \in Job /\ NoDoc \notin Docs
      /\ Says \in [Docs -> SUBSET Texts]
  BY CollectionBuildsAssumption DEF TypeOK
<1>1. ASSUME CopyForward(j)
      PROVE  \E new \in Chunks :
                /\ chunk' = Inserted(job[j].version, new)
                /\ \A t \in Texts : new[t] # NoDoc =>
                      /\ new[t] \in Current
                      /\ \E u \in Versions : chunk[u][t] = new[t]
  <2>. DEFINE old == IF job[j].previous = 0 THEN NoChunks ELSE chunk[job[j].previous]
              new == [t \in Texts |-> IF old[t] \in Current THEN old[t] ELSE NoDoc]
  <2>1. chunk' = Inserted(job[j].version, new)
    BY <1>1 DEF CopyForward
  <2>2. new \in Chunks
    BY DEF Chunks, Current
  <2>3. job[j].previous = 0 \/ job[j].previous \in Versions
    BY <1>0, CollectionBuildsAssumption DEF Job, Versions
  <2>4. ASSUME NEW t \in Texts, new[t] # NoDoc
        PROVE  new[t] \in Current /\ \E u \in Versions : chunk[u][t] = new[t]
    <3>1. old[t] \in Current /\ new[t] = old[t]
      BY <2>4
    <3>2. job[j].previous # 0
      BY <1>0, <3>1 DEF NoChunks, Current
    <3>. QED
      BY <2>3, <3>1, <3>2
  <2>. HIDE DEF new
  <2>. QED
    BY <2>1, <2>2, <2>4
<1>2. ASSUME WriteMissing(j)
      PROVE  \E new \in Chunks :
                /\ chunk' = Inserted(job[j].version, new)
                /\ \A t \in Texts : new[t] # NoDoc => new[t] \in job[j].prepared /\ t \in Says[new[t]]
                /\ \A d \in job[j].prepared \cap Current : \A t \in Says[d] : new[t] # NoDoc
  <2>1. PICK skipped \in SUBSET (job[j].prepared \cap Withdrawn) :
           \E new \in Brought(job[j].prepared \ skipped) : chunk' = Inserted(job[j].version, new)
    BY <1>2 DEF WriteMissing
  <2>2. PICK new \in Brought(job[j].prepared \ skipped) : chunk' = Inserted(job[j].version, new)
    BY <2>1
  <2>3. job[j].prepared \subseteq Docs /\ Current \cap Withdrawn = {}
    BY <1>0 DEF Job, Current, Withdrawn
  <2>. DEFINE having(t) == {d \in job[j].prepared \ skipped : t \in Says[d]}
  <2>4. /\ new \in Chunks
        /\ \A t \in Texts : IF having(t) = {} THEN new[t] = NoDoc ELSE new[t] \in having(t)
    BY <2>2 DEF Brought
  <2>5. \A t \in Texts : new[t] # NoDoc => new[t] \in job[j].prepared /\ t \in Says[new[t]]
    BY <2>4
  <2>6. ASSUME NEW d \in job[j].prepared \cap Current, NEW t \in Says[d]
        PROVE  new[t] # NoDoc
    <3>1. d \in having(t) /\ t \in Texts
      BY <1>0, <2>3
    <3>2. new[t] \in having(t)
      BY <2>4, <3>1
    <3>. QED
      BY <1>0, <2>3, <3>2
  <2>. QED
    BY <2>2, <2>4, <2>5, <2>6
<1>. QED
  BY <1>1, <1>2

(* Documents, builds, chunks and rebuilds keep to their types, however many
   rebuilds run at once. *)
LEMMA TypeStep ==
    ASSUME TypeOK, \A j \in Jobs : RebuildInv(j), [Next]_vars
    PROVE  TypeOK'
<1>. DEFINE Statuses == {"none", "building", "live", "superseded", "failed"}
<1>0. /\ doc \in [Docs -> {"absent", "current", "withdrawn", "purged"}]
      /\ build \in [Versions -> Statuses]
      /\ chunk \in [Versions -> Chunks]
      /\ job \in [Jobs -> Job]
      /\ Current \subseteq Docs /\ Withdrawn \subseteq Docs
      /\ NoChunks \in Chunks
  BY DEF TypeOK, Current, Withdrawn, NoChunks, Chunks
<1>1. ASSUME NEW d \in Docs, Upload(d) \/ Purge(d)
      PROVE  TypeOK'
  <2>1. \A v \in Versions : [t \in Texts |-> IF chunk[v][t] = d THEN NoDoc ELSE chunk[v][t]] \in Chunks
    BY <1>0 DEF Chunks
  <2>. QED
    BY <1>0, <1>1, <2>1 DEF Upload, Purge, TypeOK
<1>2. ASSUME NEW d \in Docs, Withdraw(d)
      PROVE  TypeOK'
  <2>1. \A j \in Jobs : [job[j] EXCEPT !.throughout = @ \ {d}] \in Job
    BY <1>0 DEF Job
  <2>. QED
    BY <1>0, <1>2, <2>1 DEF Withdraw, TypeOK
<1>4. ASSUME NEW j \in Jobs, ReadLive(j)
      PROVE  TypeOK'
  <2>1. TheLive \in 0..MaxVersion
    BY LiveVersion
  <2>2. job' = [job EXCEPT ![j] = [job[j] EXCEPT !.phase = "read", !.previous = TheLive]]
    BY <1>4 DEF ReadLive, TheLive
  <2>3. [job[j] EXCEPT !.phase = "read", !.previous = TheLive] \in Job
    BY <2>1, JobFacts
  <2>. QED
    BY <1>0, <1>4, <2>2, <2>3 DEF ReadLive, TypeOK
<1>5. ASSUME NEW j \in Jobs, BeginReads(j)
      PROVE  TypeOK'
  <2>. DEFINE v == Max(Built \cup {0}) + 1
  <2>1. v \in 0..MaxVersion
    BY <1>5, NextVersion, CollectionBuildsAssumption DEF BeginReads
  <2>2. job' = [job EXCEPT ![j] = [job[j] EXCEPT !.phase = "numbered", !.version = v]]
    BY <1>5 DEF BeginReads
  <2>3. [job[j] EXCEPT !.phase = "numbered", !.version = v] \in Job
    <3>. HIDE DEF v
    <3>. QED
      BY <2>1, JobFacts
  <2>. QED
    BY <1>0, <1>5, <2>2, <2>3 DEF BeginReads, TypeOK
<1>6. ASSUME NEW j \in Jobs, BeginInserts(j)
      PROVE  TypeOK'
  <2>1. build' \in [Versions -> Statuses]
    BY <1>0, <1>6 DEF BeginInserts
  <2>2. CASE build[job[j].version] = "none"
    <3>. DEFINE c == Taken(job[j].version)
                D == IF c THEN {} ELSE Current
                E == IF c THEN {} ELSE Withdrawn
    <3>1. job' = [job EXCEPT ![j] = [job[j] EXCEPT !.phase = "copying", !.crossed = c,
                                                   !.throughout = D, !.before = E]]
      BY <1>6, <2>2 DEF BeginInserts
    <3>2. c \in BOOLEAN /\ D \in SUBSET Docs /\ E \in SUBSET Docs
      BY <1>0 DEF Taken
    <3>. HIDE DEF c, D, E
    <3>3. [job[j] EXCEPT !.phase = "copying", !.crossed = c, !.throughout = D, !.before = E] \in Job
      BY <3>2, JobFacts
    <3>. QED
      BY <1>0, <1>6, <2>1, <3>1, <3>3 DEF BeginInserts, TypeOK
  <2>3. CASE build[job[j].version] # "none"
    BY <1>0, <1>6, <2>1, <2>3, JobFacts DEF BeginInserts, TypeOK
  <2>. QED
    BY <2>2, <2>3
<1>7. ASSUME NEW j \in Jobs, CopyForward(j) \/ WriteMissing(j)
      PROVE  TypeOK'
  <2>1. job' \in [Jobs -> Job]
    <3>1. \/ job' = [job EXCEPT ![j] = [job[j] EXCEPT !.phase = "listing", !.previous = 0]]
          \/ job' = [job EXCEPT ![j] = [job[j] EXCEPT !.phase = "promoting", !.prepared = {}]]
      BY <1>7 DEF CopyForward, WriteMissing
    <3>. QED
      BY <1>0, <3>1, JobFacts
  <2>2. job[j].version \in Versions
    BY <1>7 DEF CopyForward, WriteMissing, RebuildInv, Begun
  <2>3. PICK new \in Chunks : chunk' = Inserted(job[j].version, new)
    BY <1>7, WriteFacts
  <2>4. chunk' \in [Versions -> Chunks]
    BY <2>2, <2>3, InsertedFacts
  <2>. QED
    BY <1>0, <1>7, <2>1, <2>4 DEF CopyForward, WriteMissing, TypeOK
<1>8. ASSUME NEW j \in Jobs, ListMissing(j)
      PROVE  TypeOK'
  <2>. DEFINE D == Pending(job[j].version)
  <2>1. D \subseteq Docs
    BY <1>0 DEF Pending
  <2>2. job' = [job EXCEPT ![j] = [job[j] EXCEPT !.phase = "writing", !.prepared = D]]
    BY <1>8 DEF ListMissing
  <2>3. [job[j] EXCEPT !.phase = "writing", !.prepared = D] \in Job
    <3>. HIDE DEF D
    <3>. QED
      BY <2>1, JobFacts
  <2>. QED
    BY <1>0, <1>8, <2>2, <2>3 DEF ListMissing, TypeOK
<1>9. ASSUME NEW j \in Jobs, Promote(j)
      PROVE  TypeOK'
  <2>1. job' = [job EXCEPT ![j] = [job[j] EXCEPT !.phase = "reaping"]]
    BY <1>9 DEF Promote
  <2>2. build' \in [Versions -> Statuses]
    BY <1>0, <1>9 DEF Promote, Promoted
  <2>. QED
    BY <1>0, <1>9, <2>1, <2>2, JobFacts DEF Promote, TypeOK
<1>10. ASSUME NEW j \in Jobs, Reap(j)
       PROVE  TypeOK'
  <2>1. job' \in [Jobs -> Job]
    <3>1. \A i \in Jobs : /\ job[i] \in Job /\ Idle \in Job
                          /\ [job[i] EXCEPT !.crossed = TRUE, !.throughout = {}, !.before = {}] \in Job
      BY JobFacts
    <3>. QED
      BY <1>10, <3>1 DEF Reap
  <2>2. build' \in [Versions -> Statuses] /\ chunk' \in [Versions -> Chunks]
    BY <1>0, <1>10 DEF Reap
  <2>. QED
    BY <1>0, <1>10, <2>1, <2>2 DEF Reap, TypeOK
<1>11. ASSUME NEW j \in Jobs, Fail(j)
       PROVE  TypeOK'
  <2>1. job' \in [Jobs -> Job]
    BY <1>0, <1>11, JobFacts DEF Fail
  <2>2. build' \in [Versions -> Statuses] /\ chunk' \in [Versions -> Chunks]
    BY <1>0, <1>11 DEF Fail
  <2>. QED
    BY <1>0, <1>11, <2>1, <2>2 DEF Fail, TypeOK
<1>12. ASSUME NEW j \in Jobs, Crash(j)
       PROVE  TypeOK'
  BY <1>0, <1>12, JobFacts DEF Crash, TypeOK
<1>13. CASE UNCHANGED vars
  BY <1>13 DEF vars, TypeOK
<1>. QED
  BY <1>1, <1>2, <1>4, <1>5, <1>6, <1>7, <1>8, <1>9, <1>10, <1>11, <1>12, <1>13 DEF Next

-----------------------------------------------------------------------------
(* Rebuilds beside each other.                                             *)
Others(j) == \A i \in Jobs \ {j} : job'[i] = job[i]

\* Rebuild j is now at a phase, with the version and the histories it had.
At(j, phase) ==
    /\ Others(j)
    /\ job'[j].phase = phase /\ job'[j].version = job[j].version /\ job'[j].crossed = job[j].crossed
    /\ job'[j].throughout = job[j].throughout /\ job'[j].before = job[j].before

(* The phase each statement of reindex.run leads to; begin alone sets version and
   histories (run). *)
LEMMA JobMoves ==
    ASSUME TypeOK, NEW j \in Jobs
    PROVE  /\ ReadLive(j) => At(j, "read")
           /\ BeginReads(j) => /\ Others(j) /\ job'[j].phase = "numbered"
                               /\ job'[j].version = Max(Built \cup {0}) + 1
                               /\ job'[j].throughout = job[j].throughout
                               /\ job'[j].before = job[j].before
           /\ BeginInserts(j) =>
                 /\ Others(j)
                 /\ \/ job'[j] = Idle /\ build' = build
                    \/ /\ build[job[j].version] = "none"
                       /\ build' = [build EXCEPT ![job[j].version] = "building"]
                       /\ job'[j].phase = "copying" /\ job'[j].version = job[j].version
                       /\ job'[j].crossed = Taken(job[j].version)
                       /\ job'[j].throughout \subseteq Current /\ job'[j].before \subseteq Withdrawn
           /\ CopyForward(j) => At(j, "listing")
           /\ ListMissing(j) => At(j, "writing") /\ job'[j].prepared = Pending(job[j].version)
           /\ WriteMissing(j) => At(j, "promoting")
           /\ Promote(j) => At(j, "reaping")
           /\ Fail(j) \/ Crash(j) => Others(j) /\ job'[j] = Idle
<1>1. job[j] \in Job /\ job \in [Jobs -> Job]
  BY DEF TypeOK
<1>2. ReadLive(j) => At(j, "read")
  BY <1>1 DEF ReadLive, At, Others, Job
<1>3. BeginReads(j) => /\ Others(j) /\ job'[j].phase = "numbered"
                       /\ job'[j].version = Max(Built \cup {0}) + 1
                       /\ job'[j].throughout = job[j].throughout
                       /\ job'[j].before = job[j].before
  <2>. DEFINE v == Max(Built \cup {0}) + 1
  <2>1. BeginReads(j) => job' = [job EXCEPT ![j].phase = "numbered", ![j].version = v]
    BY DEF BeginReads
  <2>. HIDE DEF v
  <2>2. BeginReads(j) => /\ Others(j) /\ job'[j].phase = "numbered" /\ job'[j].version = v
                         /\ job'[j].throughout = job[j].throughout
                         /\ job'[j].before = job[j].before
    BY <1>1, <2>1 DEF Job, Others
  <2>. QED
    BY <2>2 DEF v
<1>4. BeginInserts(j) =>
         /\ Others(j)
         /\ \/ job'[j] = Idle /\ build' = build
            \/ /\ build[job[j].version] = "none"
               /\ build' = [build EXCEPT ![job[j].version] = "building"]
               /\ job'[j].phase = "copying" /\ job'[j].version = job[j].version
               /\ job'[j].crossed = Taken(job[j].version)
               /\ job'[j].throughout \subseteq Current /\ job'[j].before \subseteq Withdrawn
  BY <1>1 DEF BeginInserts, Others, Job
<1>5. CopyForward(j) => At(j, "listing")
  BY <1>1 DEF CopyForward, At, Others, Job
<1>6. ListMissing(j) => At(j, "writing") /\ job'[j].prepared = Pending(job[j].version)
  BY <1>1 DEF ListMissing, At, Others, Job
<1>7. WriteMissing(j) => At(j, "promoting")
  BY <1>1 DEF WriteMissing, At, Others, Job
<1>8. Promote(j) => At(j, "reaping")
  BY <1>1 DEF Promote, At, Others, Job
<1>9. Fail(j) \/ Crash(j) => Others(j) /\ job'[j] = Idle
  BY <1>1 DEF Fail, Crash, Others
<1>. QED
  BY <1>2, <1>3, <1>4, <1>5, <1>6, <1>7, <1>8, <1>9

(* A step that leaves a rebuild's record, row and chunks alone, and takes its
   version for no other, disturbs nothing it relies on. *)
LEMMA Undisturbed ==
    ASSUME NEW i \in Jobs, RebuildInv(i), job'[i] = job[i], doc' = doc,
           job[i].phase \in Begun /\ ~job[i].crossed =>
              /\ build'[job[i].version] # "none"
              /\ chunk'[job[i].version] = chunk[job[i].version]
              /\ \A k \in Jobs \ {i} : job'[k].phase \in Begun => job'[k].version # job[i].version
    PROVE  RebuildInv(i)'
<1>1. Current' = Current /\ Withdrawn' = Withdrawn /\ Purged' = Purged
  BY DEF Current, Withdrawn, Purged
<1>2. CASE job[i].phase \in Begun /\ ~job[i].crossed
  <2>. DEFINE v == job[i].version
  <2>1. Sources(v)' = Sources(v) /\ Held(v)' = Held(v) /\ Lost(i)' = Lost(i)
    BY <1>1, <1>2 DEF Sources, Held, Lost
  <2>2. \A d : Has(i, d)' <=> Has(i, d)
    BY <2>1 DEF Has
  <2>3. Uncrossed(i)
    BY <1>2 DEF RebuildInv
  <2>4. Uncrossed(i)'
    BY <1>2, <2>1, <2>2, <2>3 DEF Uncrossed
  <2>. QED
    BY <1>1, <2>4 DEF RebuildInv
<1>3. CASE ~(job[i].phase \in Begun /\ ~job[i].crossed)
  BY <1>1, <1>3 DEF RebuildInv
<1>. QED
  BY <1>2, <1>3

(* The step of one rebuild that deletes no row disturbs no other: it writes to its
   own version, and begins only one that has no row. *)
LEMMA Bystanders ==
    ASSUME TypeOK, \A i \in Jobs : RebuildInv(i), NEW j \in Jobs, doc' = doc, Others(j),
           \A u \in Versions : build[u] # "none" => build'[u] # "none",
           job'[j].phase \in Begun =>
              \/ job[j].phase \in Begun /\ job'[j].version = job[j].version
              \/ build[job'[j].version] = "none",
           \A u \in Versions : chunk'[u] = chunk[u] \/ (job[j].phase \in Begun /\ u = job[j].version),
           RebuildInv(j)'
    PROVE  \A i \in Jobs : RebuildInv(i)'
<1>1. ASSUME NEW i \in Jobs \ {j}
      PROVE  RebuildInv(i)'
  <2>1. job'[i] = job[i] /\ RebuildInv(i)
    BY DEF Others
  <2>2. ASSUME job[i].phase \in Begun, ~job[i].crossed
        PROVE  /\ build'[job[i].version] # "none"
               /\ chunk'[job[i].version] = chunk[job[i].version]
               /\ \A k \in Jobs \ {i} : job'[k].phase \in Begun => job'[k].version # job[i].version
    <3>1. /\ job[i].version \in Versions /\ build[job[i].version] # "none"
          /\ \A k \in Jobs \ {i} : job[k].phase \in Begun => job[k].version # job[i].version
      BY <2>1, <2>2 DEF RebuildInv, Uncrossed
    <3>2. ASSUME NEW k \in Jobs \ {i}, job'[k].phase \in Begun
          PROVE  job'[k].version # job[i].version
      BY <3>1, <3>2 DEF Others
    <3>. QED
      BY <3>1, <3>2
  <2>. QED
    BY <2>1, <2>2, Undisturbed
<1>. QED
  BY <1>1

(* What rebuilds rely on survives the documents: a rebuild owes only what stays
   current, and a purge takes texts it may lose (upload, delete and purge routes). *)
LEMMA RebuildUnderRoutes ==
    ASSUME TypeOK, RowsInv, NEW i \in Jobs, RebuildInv(i), NEW e \in Docs,
           Upload(e) \/ Withdraw(e) \/ Purge(e)
    PROVE  RebuildInv(i)'
<1>v. PICK v : v = job[i].version
  OBVIOUS
<1>0. /\ doc \in [Docs -> {"absent", "current", "withdrawn", "purged"}]
      /\ chunk \in [Versions -> Chunks] /\ job \in [Jobs -> Job] /\ job[i] \in Job
      /\ Current \cap Withdrawn = {} /\ NoDoc \notin Docs
      /\ Says \in [Docs -> SUBSET Texts]
  BY CollectionBuildsAssumption DEF TypeOK, Current, Withdrawn
<1>1. /\ job[i].throughout \subseteq Current /\ job[i].before \subseteq Withdrawn
      /\ job[i].phase \in Begun \cup {"numbered"} => v \in Versions
      /\ job[i].phase \in Begun /\ ~job[i].crossed => Uncrossed(i)
  BY <1>v DEF RebuildInv
<1>2. /\ build' = build
      /\ \A k \in Jobs : /\ job'[k].phase = job[k].phase /\ job'[k].version = job[k].version
                         /\ job'[k].crossed = job[k].crossed /\ job'[k].prepared = job[k].prepared
                         /\ job'[k].before = job[k].before
                         /\ job'[k].throughout \subseteq job[k].throughout
  BY <1>0 DEF Upload, Withdraw, Purge, Job
<1>3. /\ job'[i].throughout \subseteq Current' /\ Withdrawn \subseteq Withdrawn'
      /\ Purged \subseteq Purged' /\ Lost(i) \subseteq Lost(i)'
  <2>1. Withdrawn \subseteq Withdrawn' /\ Purged \subseteq Purged'
    BY <1>0 DEF Upload, Withdraw, Purge, Withdrawn, Purged
  <2>2. Lost(i) \subseteq Lost(i)'
    BY <1>2, <2>1 DEF Lost
  <2>3. CASE Upload(e)
    <3>1. Current \subseteq Current' /\ job' = job
      BY <1>0, <2>3 DEF Upload, Current
    <3>. QED
      BY <1>1, <2>1, <2>2, <3>1
  <2>4. CASE Withdraw(e)
    <3>1. job'[i] = [job[i] EXCEPT !.throughout = @ \ {e}]
      BY <2>4 DEF Withdraw
    <3>2. job'[i].throughout = job[i].throughout \ {e}
      BY <1>0, <3>1 DEF Job
    <3>3. Current \ {e} \subseteq Current'
      BY <1>0, <2>4 DEF Withdraw, Current
    <3>. QED
      BY <1>1, <2>1, <2>2, <3>2, <3>3
  <2>5. CASE Purge(e)
    <3>1. Current \subseteq Current' /\ job' = job
      BY <1>0, <2>5 DEF Purge, Current
    <3>. QED
      BY <1>1, <2>1, <2>2, <3>1
  <2>. QED
    BY <2>1, <2>2, <2>3, <2>4, <2>5
<1>4. ASSUME job[i].phase \in Begun, ~job[i].crossed
      PROVE  Uncrossed(i)'
  <2>0. v \in Versions /\ Uncrossed(i) /\ chunk[v] \in Chunks
    BY <1>0, <1>1, <1>4
  <2>1. /\ Sources(v)' \subseteq Sources(v)
        /\ \A d \in job'[i].throughout : d \in Sources(v) => d \in Sources(v)'
        /\ \A t \in Held(v) : t \in Held(v)' \/ t \in Lost(i)'
    <3>1. CASE Upload(e) \/ Withdraw(e)
      BY <3>1 DEF Upload, Withdraw, Sources, Held
    <3>2. CASE Purge(e)
      <4>1. \A t \in Texts : chunk'[v][t] = IF chunk[v][t] = e THEN NoDoc ELSE chunk[v][t]
        BY <2>0, <3>2 DEF Purge
      <4>2. e \in Withdrawn /\ e \in Purged' /\ e \notin job'[i].throughout
        BY <1>0, <1>1, <1>2, <3>2 DEF Purge, Withdrawn, Purged
      <4>3. Sources(v)' = {d \in Docs : \E t \in Texts : chunk'[v][t] = d}
        BY DEF Sources
      <4>4. Held(v)' = {t \in Texts : chunk'[v][t] # NoDoc}
        BY DEF Held
      <4>5. ASSUME NEW t \in Held(v), t \notin Held(v)'
            PROVE  t \in Lost(i)'
        <5>1. chunk[v][t] = e /\ t \in Texts
          BY <4>1, <4>4, <4>5 DEF Held
        <5>2. t \in Says[e] /\ e \in Sources(v)
          BY <2>0, <5>1 DEF RowsInv, Sources
        <5>3. e \notin job[i].before
          BY <1>v, <2>0, <5>2 DEF Uncrossed
        <5>. QED
          BY <1>2, <4>2, <5>2, <5>3 DEF Lost
      <4>. QED
        BY <1>0, <4>1, <4>2, <4>3, <4>5 DEF Sources
    <3>. QED
      BY <3>1, <3>2
  <2>2. ASSUME NEW d \in job'[i].throughout, Has(i, d)
        PROVE  Has(i, d)'
    <3>1. Has(i, d)' <=> d \in Sources(v)' \/ Says[d] \subseteq Held(v)' \cup Lost(i)'
      BY <1>v, <1>2 DEF Has
    <3>. QED
      BY <1>v, <1>3, <2>1, <2>2, <3>1 DEF Has
  <2>. QED
    BY <1>v, <1>2, <2>0, <2>1, <2>2 DEF Uncrossed
<1>. QED
  BY <1>v, <1>1, <1>2, <1>3, <1>4 DEF RebuildInv

(* What a rebuild relies on follows it from statement to statement, whatever the
   other rebuilds do (run). *)
LEMMA RebuildStep ==
    ASSUME TypeOK, RowsInv, \A i \in Jobs : RebuildInv(i), [Next]_vars
    PROVE  \A i \in Jobs : RebuildInv(i)'
<1>0. /\ doc \in [Docs -> {"absent", "current", "withdrawn", "purged"}]
      /\ build \in [Versions -> {"none", "building", "live", "superseded", "failed"}]
      /\ chunk \in [Versions -> Chunks]
      /\ Current \cap Withdrawn = {} /\ NoDoc \notin Docs
      /\ \A k \in Jobs : job[k] \in Job
      /\ \A d \in Docs : Says[d] \subseteq Texts
  BY CollectionBuildsAssumption DEF TypeOK, Current, Withdrawn
<1>i. Idle.phase = "idle" /\ Idle.throughout = {} /\ Idle.before = {} /\ "idle" \notin Begun
  BY DEF Idle, Begun
<1>d. ASSUME doc' = doc
      PROVE  Current' = Current /\ Withdrawn' = Withdrawn /\ Purged' = Purged
  BY <1>d DEF Current, Withdrawn, Purged
<1>1. ASSUME NEW e \in Docs, Upload(e) \/ Withdraw(e) \/ Purge(e)
      PROVE  \A i \in Jobs : RebuildInv(i)'
  BY <1>1, RebuildUnderRoutes
<1>2. ASSUME NEW j \in Jobs, doc' = doc, Others(j), job'[j] = Idle,
             \A u \in Versions : build[u] # "none" => build'[u] # "none",
             \A u \in Versions : chunk'[u] = chunk[u] \/ (job[j].phase \in Begun /\ u = job[j].version)
      PROVE  \A i \in Jobs : RebuildInv(i)'
  <2>1. RebuildInv(j)'
    BY <1>2, <1>i DEF RebuildInv, Begun
  <2>. QED
    BY <1>2, <1>i, <2>1, Bystanders
<1>3. ASSUME NEW j \in Jobs, ReadLive(j)
      PROVE  \A i \in Jobs : RebuildInv(i)'
  <2>1. At(j, "read") /\ UNCHANGED <<doc, build, chunk>>
    BY <1>3, JobMoves DEF ReadLive
  <2>2. RebuildInv(j)'
    BY <1>d, <2>1 DEF RebuildInv, At, Begun
  <2>. QED
    BY <2>1, <2>2, Bystanders DEF At, Begun
<1>4. ASSUME NEW j \in Jobs, BeginReads(j)
      PROVE  \A i \in Jobs : RebuildInv(i)'
  <2>. DEFINE m == Max(Built \cup {0})
  <2>1. /\ Others(j) /\ job'[j].phase = "numbered" /\ job'[j].version = m + 1
        /\ job'[j].throughout = job[j].throughout /\ job'[j].before = job[j].before
        /\ UNCHANGED <<doc, build, chunk>> /\ m < MaxVersion
    BY <1>4, JobMoves DEF BeginReads
  <2>2. m \in 0..MaxVersion
    BY NextVersion
  <2>. HIDE DEF m
  <2>3. m + 1 \in Versions
    BY <2>1, <2>2, CollectionBuildsAssumption DEF Versions
  <2>4. RebuildInv(j)'
    BY <1>d, <2>1, <2>3 DEF RebuildInv, Begun
  <2>. QED
    BY <2>1, <2>4, Bystanders DEF Begun
<1>5. ASSUME NEW j \in Jobs, BeginInserts(j)
      PROVE  \A i \in Jobs : RebuildInv(i)'
  <2>v. PICK v : v = job[j].version
    OBVIOUS
  <2>0. /\ Others(j) /\ doc' = doc /\ chunk' = chunk /\ v \in Versions /\ job[j].phase = "numbered"
    BY <2>v, <1>5, JobMoves DEF BeginInserts, RebuildInv
  <2>1. CASE job'[j] = Idle /\ build' = build
    BY <2>v, <1>2, <2>0, <2>1
  <2>2. CASE /\ build[v] = "none" /\ build' = [build EXCEPT ![v] = "building"]
             /\ job'[j].phase = "copying" /\ job'[j].version = v
             /\ job'[j].crossed = Taken(v)
             /\ job'[j].throughout \subseteq Current /\ job'[j].before \subseteq Withdrawn
    <3>1. ASSUME ~job'[j].crossed
          PROVE  Uncrossed(j)'
      <4>1. chunk[v] = NoChunks /\ \A k \in Jobs : job[k].phase \in Begun => job[k].version # v
        BY <2>v, <2>2, <3>1 DEF Taken
      <4>2. Sources(v)' = {}
        BY <2>v, <1>0, <2>0, <4>1 DEF Sources, NoChunks
      <4>. QED
        BY <2>v, <1>0, <2>0, <2>2, <4>1, <4>2 DEF Uncrossed, Others
    <3>2. RebuildInv(j)'
      BY <2>v, <1>d, <2>0, <2>2, <3>1 DEF RebuildInv
    <3>3. \A u \in Versions : build[u] # "none" => build'[u] # "none"
      BY <2>v, <1>0, <2>0, <2>2
    <3>. QED
      BY <2>v, <2>0, <2>2, <3>2, <3>3, Bystanders
  <2>. QED
    BY <2>v, <1>5, <2>1, <2>2, JobMoves
<1>6. ASSUME NEW j \in Jobs, job[j].phase \in Begun, doc' = doc, NEW phase \in Begun, At(j, phase),
             \A u \in Versions : build[u] # "none" => build'[u] # "none",
             \A u \in Versions : chunk'[u] = chunk[u] \/ u = job[j].version,
             NEW v, v = job[j].version,
             ~job[j].crossed /\ Uncrossed(j) =>
                /\ Sources(v)' \cap job[j].before = {}
                /\ phase = "writing" => /\ job'[j].prepared \cap job[j].before = {}
                                        /\ job[j].throughout \subseteq job'[j].prepared \cup Sources(v)'
                /\ phase \in {"promoting", "reaping"} => \A d \in job[j].throughout : Has(j, d)'
      PROVE  \A i \in Jobs : RebuildInv(i)'
  <2>1. /\ job'[j].phase = phase /\ job'[j].version = job[j].version /\ job'[j].crossed = job[j].crossed
        /\ job'[j].throughout = job[j].throughout /\ job'[j].before = job[j].before /\ Others(j)
    BY <1>6 DEF At
  <2>2. ASSUME ~job[j].crossed
        PROVE  Uncrossed(j)'
    <3>1. Uncrossed(j) /\ job[j].version \in Versions
      BY <1>6, <2>2 DEF RebuildInv
    <3>. QED
      BY <1>6, <2>1, <2>2, <3>1 DEF Uncrossed, Others
  <2>3. RebuildInv(j)'
    BY <1>6, <1>d, <2>1, <2>2 DEF RebuildInv
  <2>. QED
    BY <1>6, <2>1, <2>3, Bystanders
<1>7. ASSUME NEW j \in Jobs, CopyForward(j)
      PROVE  \A i \in Jobs : RebuildInv(i)'
  <2>v. PICK v : v = job[j].version
    OBVIOUS
  <2>0. /\ job[j].phase = "copying" /\ At(j, "listing") /\ doc' = doc /\ build' = build
        /\ v \in Versions /\ job[j].before \subseteq Withdrawn
    BY <2>v, <1>7, JobMoves DEF CopyForward, RebuildInv, Begun
  <2>1. PICK new \in Chunks : /\ chunk' = Inserted(v, new)
                              /\ \A t \in Texts : new[t] # NoDoc => new[t] \in Current
    BY <2>v, <1>7, WriteFacts
  <2>2. /\ \A u \in Versions \ {v} : chunk'[u] = chunk[u]
        /\ \A t \in Texts : chunk'[v][t] = IF chunk[v][t] = NoDoc THEN new[t] ELSE chunk[v][t]
    BY <2>v, <2>0, <2>1, InsertedFacts
  <2>3. ASSUME Uncrossed(j)
        PROVE  Sources(v)' \cap job[j].before = {}
    <3>1. Sources(v) \cap job[j].before = {}
      BY <2>v, <2>3 DEF Uncrossed
    <3>2. Sources(v)' \subseteq Sources(v) \cup Current
      BY <2>v, <1>0, <2>1, <2>2 DEF Sources
    <3>. QED
      BY <2>v, <1>0, <2>0, <3>1, <3>2
  <2>. QED
    BY <2>v, <1>6, <2>0, <2>2, <2>3 DEF Begun
<1>8. ASSUME NEW j \in Jobs, ListMissing(j)
      PROVE  \A i \in Jobs : RebuildInv(i)'
  <2>v. PICK v : v = job[j].version
    OBVIOUS
  <2>0. /\ job[j].phase = "listing" /\ At(j, "writing") /\ job'[j].prepared = Current \ Sources(v)
        /\ UNCHANGED <<doc, build, chunk>>
        /\ job[j].before \subseteq Withdrawn /\ job[j].throughout \subseteq Current
    BY <2>v, <1>8, JobMoves DEF ListMissing, RebuildInv, Pending
  <2>1. Sources(v)' = Sources(v)
    BY <2>v, <2>0 DEF Sources, At
  <2>2. ASSUME Uncrossed(j)
        PROVE  /\ Sources(v)' \cap job[j].before = {}
               /\ job'[j].prepared \cap job[j].before = {}
               /\ job[j].throughout \subseteq job'[j].prepared \cup Sources(v)'
    BY <2>v, <1>0, <2>0, <2>1, <2>2 DEF Uncrossed
  <2>. QED
    BY <2>v, <1>6, <2>0, <2>2 DEF Begun
<1>9. ASSUME NEW j \in Jobs, WriteMissing(j)
      PROVE  \A i \in Jobs : RebuildInv(i)'
  <2>v. PICK v : v = job[j].version
    OBVIOUS
  <2>0. /\ job[j].phase = "writing" /\ At(j, "promoting") /\ doc' = doc /\ build' = build
        /\ v \in Versions /\ job[j].throughout \subseteq Current
    BY <2>v, <1>9, JobMoves DEF WriteMissing, RebuildInv, Begun
  <2>1. PICK new \in Chunks :
           /\ chunk' = Inserted(v, new)
           /\ \A t \in Texts : new[t] # NoDoc => new[t] \in job[j].prepared /\ t \in Says[new[t]]
           /\ \A d \in job[j].prepared \cap Current : \A t \in Says[d] : new[t] # NoDoc
    BY <2>v, <1>9, WriteFacts
  <2>2. /\ \A u \in Versions \ {v} : chunk'[u] = chunk[u]
        /\ \A t \in Texts : chunk'[v][t] = IF chunk[v][t] = NoDoc THEN new[t] ELSE chunk[v][t]
    BY <2>v, <2>0, <2>1, InsertedFacts
  <2>3. /\ Sources(v)' = {d \in Docs : \E t \in Texts : chunk'[v][t] = d}
        /\ Held(v)' = {t \in Texts : chunk'[v][t] # NoDoc}
    BY <2>v, <2>0 DEF Sources, Held, At
  <2>4. Sources(v) \subseteq Sources(v)' /\ Held(v) \subseteq Held(v)'
        /\ Sources(v)' \subseteq Sources(v) \cup job[j].prepared
    BY <2>v, <1>0, <2>1, <2>2, <2>3 DEF Sources, Held
  <2>5. ASSUME Uncrossed(j)
        PROVE  /\ Sources(v)' \cap job[j].before = {}
               /\ \A d \in job[j].throughout : Has(j, d)'
    <3>1. /\ Sources(v) \cap job[j].before = {} /\ job[j].prepared \cap job[j].before = {}
          /\ job[j].throughout \subseteq job[j].prepared \cup Sources(v)
      BY <2>v, <2>0, <2>5 DEF Uncrossed
    <3>2. ASSUME NEW d \in job[j].throughout
          PROVE  Has(j, d)'
      <4>1. Has(j, d)' <=> d \in Sources(v)' \/ Says[d] \subseteq Held(v)' \cup Lost(j)'
        BY <2>v, <2>0 DEF Has, At
      <4>2. CASE d \in Sources(v)
        BY <2>v, <2>4, <4>1, <4>2
      <4>3. CASE d \in job[j].prepared
        <5>1. d \in Docs /\ d \in Current
          BY <2>v, <2>0 DEF Current
        <5>2. ASSUME NEW t \in Says[d] PROVE t \in Held(v)'
          BY <2>v, <1>0, <2>1, <2>2, <2>3, <4>3, <5>1, <5>2
        <5>. QED
          BY <2>v, <4>1, <5>2
      <4>. QED
        BY <2>v, <3>1, <4>2, <4>3
    <3>. QED
      BY <2>v, <2>4, <3>1, <3>2
  <2>. QED
    BY <2>v, <1>6, <2>0, <2>2, <2>5 DEF Begun
<1>10. ASSUME NEW j \in Jobs, Promote(j)
       PROVE  \A i \in Jobs : RebuildInv(i)'
  <2>v. PICK v : v = job[j].version
    OBVIOUS
  <2>0. /\ job[j].phase = "promoting" /\ At(j, "reaping") /\ doc' = doc /\ chunk' = chunk
        /\ build' = Promoted(v)
    BY <2>v, <1>10, JobMoves DEF Promote
  <2>1. \A u \in Versions : build[u] # "none" => build'[u] # "none"
    BY <2>v, <1>0, <2>0 DEF Promoted
  <2>2. Sources(v)' = Sources(v) /\ Held(v)' = Held(v) /\ Lost(j)' = Lost(j)
    BY <2>v, <1>d, <2>0 DEF Sources, Held, Lost, At
  <2>3. \A d : Has(j, d) => Has(j, d)'
    BY <2>v, <2>0, <2>2 DEF Has, At
  <2>4. ASSUME Uncrossed(j)
        PROVE  /\ Sources(v)' \cap job[j].before = {}
               /\ \A d \in job[j].throughout : Has(j, d)'
    BY <2>v, <2>0, <2>2, <2>3, <2>4 DEF Uncrossed
  <2>. QED
    BY <2>v, <1>6, <2>0, <2>1, <2>4 DEF Begun
<1>11. ASSUME NEW j \in Jobs, Reap(j)
       PROVE  \A i \in Jobs : RebuildInv(i)'
  <2>. DEFINE doomed == IF Live = {} THEN {} ELSE Built \ Kept
  <2>0. /\ doc' = doc /\ job'[j] = Idle
        /\ \A u \in Versions : /\ build'[u] = IF u \in doomed THEN "none" ELSE build[u]
                               /\ chunk'[u] = IF u \in doomed THEN NoChunks ELSE chunk[u]
        /\ \A k \in Jobs \ {j} :
              job'[k] = IF job[k].phase \in Begun /\ job[k].version \in doomed
                        THEN [job[k] EXCEPT !.crossed = TRUE, !.throughout = {}, !.before = {}]
                        ELSE job[k]
    BY <1>11 DEF Reap
  <2>. HIDE DEF doomed
  <2>1. \A k \in Jobs \ {j} : job'[k].phase = job[k].phase /\ job'[k].version = job[k].version
    BY <1>0, <2>0 DEF Job
  <2>2. RebuildInv(j)'
    BY <2>0, <1>i DEF RebuildInv, Begun
  <2>3. ASSUME NEW i \in Jobs \ {j}, job[i].phase \in Begun, job[i].version \in doomed
        PROVE  RebuildInv(i)'
    <3>1. /\ job'[i].phase = job[i].phase /\ job'[i].version = job[i].version /\ job'[i].crossed
          /\ job'[i].throughout = {} /\ job'[i].before = {}
      <4>1. job'[i] = [job[i] EXCEPT !.crossed = TRUE, !.throughout = {}, !.before = {}] /\ job[i] \in Job
        BY <1>0, <2>0, <2>3
      <4>. QED
        BY <4>1 DEF Job
    <3>2. job[i].version \in Versions
      BY <2>3 DEF RebuildInv
    <3>. QED
      BY <3>1, <3>2 DEF RebuildInv
  <2>4. ASSUME NEW i \in Jobs \ {j}, ~(job[i].phase \in Begun /\ job[i].version \in doomed)
        PROVE  RebuildInv(i)'
    <3>1. job'[i] = job[i] /\ RebuildInv(i)
      BY <2>0, <2>4
    <3>2. ASSUME job[i].phase \in Begun, ~job[i].crossed
          PROVE  /\ build'[job[i].version] # "none"
                 /\ chunk'[job[i].version] = chunk[job[i].version]
                 /\ \A k \in Jobs \ {i} : job'[k].phase \in Begun => job'[k].version # job[i].version
      <4>1. /\ job[i].version \in Versions /\ build[job[i].version] # "none"
            /\ \A k \in Jobs \ {i} : job[k].phase \in Begun => job[k].version # job[i].version
        BY <3>1, <3>2 DEF RebuildInv, Uncrossed
      <4>2. ASSUME NEW k \in Jobs \ {i}, job'[k].phase \in Begun
            PROVE  job'[k].version # job[i].version
        BY <1>i, <2>0, <2>1, <4>1, <4>2
      <4>. QED
        BY <2>0, <2>4, <3>2, <4>1, <4>2
    <3>. QED
      BY <2>0, <3>1, <3>2, Undisturbed
  <2>. QED
    BY <2>2, <2>3, <2>4
<1>12. ASSUME NEW j \in Jobs, Fail(j)
       PROVE  \A i \in Jobs : RebuildInv(i)'
  <2>1. Others(j) /\ job'[j] = Idle /\ doc' = doc /\ job[j].phase \in Begun
    BY <1>12, JobMoves DEF Fail
  <2>2. \A u \in Versions : build[u] # "none" => build'[u] # "none"
    BY <1>0, <1>12 DEF Fail
  <2>3. \A u \in Versions : chunk'[u] = chunk[u] \/ u = job[j].version
    BY <1>0, <1>12 DEF Fail
  <2>. QED
    BY <1>2, <2>1, <2>2, <2>3
<1>13. ASSUME NEW j \in Jobs, Crash(j)
       PROVE  \A i \in Jobs : RebuildInv(i)'
  BY <1>2, <1>13, JobMoves DEF Crash
<1>14. CASE UNCHANGED vars
  <2>1. ASSUME NEW i \in Jobs PROVE RebuildInv(i)'
    <3>1. job' = job /\ doc' = doc /\ build' = build /\ chunk' = chunk /\ RebuildInv(i)
      BY <1>14 DEF vars
    <3>. QED
      BY <3>1, Undisturbed DEF RebuildInv, Uncrossed
  <2>. QED
    BY <2>1
<1>. QED
  BY <1>1, <1>3, <1>4, <1>5, <1>7, <1>8, <1>9, <1>10, <1>11, <1>12, <1>13, <1>14 DEF Next

(* One build is live at most, and every chunk is of a document that has its text,
   whatever rebuilds copy and write (promote, copy_forward, _ingest_missing). *)
LEMMA RowsStep ==
    ASSUME TypeOK, RowsInv, \A i \in Jobs : RebuildInv(i), [Next]_vars
    PROVE  RowsInv'
<1>. DEFINE Owned == \A u \in Versions, t \in Texts : chunk[u][t] # NoDoc => t \in Says[chunk[u][t]]
            OneLive == \A u, l \in Live : u = l
<1>0. /\ build \in [Versions -> {"none", "building", "live", "superseded", "failed"}]
      /\ chunk \in [Versions -> Chunks] /\ NoDoc \notin Docs
  BY CollectionBuildsAssumption DEF TypeOK
<1>1. (RowsInv <=> OneLive /\ Owned) /\ (RowsInv <=> OneLive /\ Owned)'
  BY DEF RowsInv, Held
<1>2. \A u, l \in Versions : build[u] = "live" /\ build[l] = "live" => u = l
  BY DEF RowsInv, Live
<1>3. OneLive'
  <2>1. ASSUME NEW j \in Jobs, Promote(j)
        PROVE  OneLive'
    BY <1>0, <1>2, <2>1 DEF Promote, Promoted, Live
  <2>2. ASSUME \A u \in Versions : build'[u] = "live" => build[u] = "live"
        PROVE  OneLive'
    BY <1>2, <2>2 DEF Live
  <2>3. ASSUME NEW j \in Jobs, BeginInserts(j) \/ Reap(j) \/ Fail(j)
        PROVE  \A u \in Versions : build'[u] = "live" => build[u] = "live"
    BY <1>0, <2>3 DEF BeginInserts, Reap, Fail
  <2>4. ASSUME build' = build
        PROVE  OneLive'
    BY <2>2, <2>4
  <2>. QED
    BY <2>1, <2>2, <2>3, <2>4
       DEF Next, vars, Upload, Withdraw, Purge, ReadLive, BeginReads, CopyForward, ListMissing,
           WriteMissing, Crash
<1>4. Owned'
  <2>0. Owned
    BY <1>1
  <2>1. ASSUME NEW j \in Jobs, NEW v \in Versions, NEW new \in Chunks, chunk' = Inserted(v, new),
               \A t \in Texts : new[t] # NoDoc => t \in Says[new[t]]
        PROVE  Owned'
    <3>1. /\ \A u \in Versions \ {v} : chunk'[u] = chunk[u]
          /\ \A t \in Texts : chunk'[v][t] = IF chunk[v][t] = NoDoc THEN new[t] ELSE chunk[v][t]
      BY <2>1, InsertedFacts
    <3>. QED
      BY <2>0, <2>1, <3>1
  <2>2. ASSUME NEW j \in Jobs, CopyForward(j) \/ WriteMissing(j)
        PROVE  Owned'
    <3>1. job[j].version \in Versions
      BY <2>2 DEF CopyForward, WriteMissing, RebuildInv, Begun
    <3>2. PICK new \in Chunks : /\ chunk' = Inserted(job[j].version, new)
                                /\ \A t \in Texts : new[t] # NoDoc => t \in Says[new[t]]
      <4>1. CASE CopyForward(j)
        <5>1. PICK new \in Chunks :
                 /\ chunk' = Inserted(job[j].version, new)
                 /\ \A t \in Texts : new[t] # NoDoc => \E u \in Versions : chunk[u][t] = new[t]
          BY <4>1, WriteFacts
        <5>. QED
          BY <2>0, <5>1
      <4>2. CASE WriteMissing(j)
        BY <4>2, WriteFacts
      <4>. QED
        BY <2>2, <4>1, <4>2
    <3>. HIDE DEF Owned
    <3>. QED
      BY <2>1, <3>1, <3>2
  <2>3. ASSUME \A u \in Versions, t \in Texts : chunk'[u][t] = chunk[u][t] \/ chunk'[u][t] = NoDoc
        PROVE  Owned'
    BY <2>0, <2>3
  <2>4. ASSUME NEW d \in Docs, Purge(d)
        PROVE  \A u \in Versions, t \in Texts : chunk'[u][t] = chunk[u][t] \/ chunk'[u][t] = NoDoc
    BY <2>4 DEF Purge
  <2>5. ASSUME NEW j \in Jobs, Reap(j) \/ Fail(j)
        PROVE  \A u \in Versions, t \in Texts : chunk'[u][t] = chunk[u][t] \/ chunk'[u][t] = NoDoc
    <3>1. \A u \in Versions : chunk'[u] = chunk[u] \/ chunk'[u] = NoChunks
      BY <1>0, <2>5 DEF Reap, Fail
    <3>. QED
      BY <3>1 DEF NoChunks
  <2>6. ASSUME chunk' = chunk
        PROVE  Owned'
    BY <2>3, <2>6
  <2>. HIDE DEF Owned
  <2>. QED
    BY <2>2, <2>3, <2>4, <2>5, <2>6
       DEF Next, vars, Upload, Withdraw, ReadLive, BeginReads, BeginInserts, ListMissing, Promote, Crash
<1>. QED
  BY <1>1, <1>3, <1>4

(* No step takes the live build away but the promotion of a rebuild whose own row
   another has deleted (promote, fail, reap). *)
LEMMA ServedStep ==
    ASSUME TypeOK, \A i \in Jobs : RebuildInv(i), [Next]_vars
    PROVE  [SomethingStaysLive]_vars
<1>0. build \in [Versions -> {"none", "building", "live", "superseded", "failed"}]
  BY DEF TypeOK
<1>1. ASSUME NEW l \in Live, l \in Live'
      PROVE  SomethingStaysLive
  BY <1>1 DEF SomethingStaysLive
<1>2. ASSUME NEW l \in Live, NEW j \in Jobs, Promote(j)
      PROVE  SomethingStaysLive
  <2>1. job[j].phase = "promoting" /\ job'[j].phase = "reaping" /\ build' = Promoted(job[j].version)
    BY <1>2, JobMoves DEF Promote, At
  <2>2. CASE job[j].crossed
    BY <2>1, <2>2 DEF SomethingStaysLive
  <2>3. CASE ~job[j].crossed
    <3>1. job[j].version \in Versions /\ build[job[j].version] # "none"
      BY <2>1, <2>3 DEF RebuildInv, Uncrossed, Begun
    <3>2. build'[job[j].version] = "live"
      BY <2>1, <3>1 DEF Promoted
    <3>. QED
      BY <3>1, <3>2 DEF SomethingStaysLive, Live
  <2>. QED
    BY <2>2, <2>3
<1>3. ASSUME NEW l \in Live, NEW j \in Jobs, BeginInserts(j) \/ Reap(j) \/ Fail(j)
      PROVE  l \in Live'
  BY <1>0, <1>3 DEF BeginInserts, Reap, Fail, Kept, Live
<1>4. ASSUME NEW l \in Live, build' = build
      PROVE  l \in Live'
  BY <1>4 DEF Live
<1>5. CASE Live = {}
  BY <1>5 DEF SomethingStaysLive
<1>6. ASSUME NEW l \in Live
      PROVE  [SomethingStaysLive]_vars
  BY <1>1, <1>2, <1>3, <1>4
     DEF Next, vars, Upload, Withdraw, Purge, ReadLive, BeginReads, CopyForward, ListMissing,
         WriteMissing, Crash
<1>. QED
  BY <1>5, <1>6

-----------------------------------------------------------------------------
(* The corpus under a reader.                                              *)
(* What is due to a reader stays there while the corpus moves, unless StillDue
   gives it up (promote, reap, fail, purge). *)
LEMMA FindableStep ==
    ASSUME TypeOK, RowsInv, \A i \in Jobs : RebuildInv(i), Next,
           NEW v, NEW due, Findable(v, due), NEW still, still \subseteq due,
           Live' = Live \/ (v \in Live /\ \A l \in Live' : ~(l < v)),
           \A j \in Jobs : Fail(j) => job[j].version # v,
           \A t \in still : chunk[v][t] \notin Purged'
    PROVE  Findable(v, still)'
<1>0. /\ build \in [Versions -> {"none", "building", "live", "superseded", "failed"}]
      /\ chunk \in [Versions -> Chunks] /\ NoDoc \notin Docs
      /\ \A u, l \in Live : u = l
      /\ Versions \subseteq Nat
      /\ doc \in [Docs -> {"absent", "current", "withdrawn", "purged"}]
  BY CollectionBuildsAssumption DEF TypeOK, RowsInv, Versions
<1>1. /\ v \in Versions /\ v \in Nat /\ due \subseteq Held(v) /\ \A u \in Superseded : u <= v
      /\ v \in Live \/ (v \in Superseded /\ \A l \in Live : v < l)
  BY <1>0 DEF Findable
<1>k. ASSUME Live' = Live, Superseded' = Superseded, still \subseteq Held(v)'
      PROVE  Findable(v, still)'
  BY <1>1, <1>k DEF Findable
<1>u. ASSUME build' = build, still \subseteq Held(v)'
      PROVE  Findable(v, still)'
  BY <1>k, <1>u DEF Live, Superseded
<1>h. ASSUME chunk'[v] = chunk[v]
      PROVE  still \subseteq Held(v)'
  BY <1>1, <1>h DEF Held
<1>2. ASSUME NEW d \in Docs, Upload(d) \/ Withdraw(d)
      PROVE  Findable(v, still)'
  BY <1>2, <1>h, <1>u DEF Upload, Withdraw
<1>3. ASSUME NEW d \in Docs, Purge(d)
      PROVE  Findable(v, still)'
  <2>1. /\ \A t \in Texts : chunk'[v][t] = IF chunk[v][t] = d THEN NoDoc ELSE chunk[v][t]
        /\ d \in Purged' /\ build' = build
    BY <1>0, <1>1, <1>3 DEF Purge, Purged
  <2>2. ASSUME NEW t \in still PROVE t \in Held(v)'
    BY <1>1, <2>1, <2>2 DEF Held
  <2>. QED
    BY <1>u, <2>1, <2>2
<1>4. ASSUME NEW j \in Jobs, ReadLive(j) \/ BeginReads(j) \/ ListMissing(j) \/ Crash(j)
      PROVE  Findable(v, still)'
  BY <1>4, <1>h, <1>u DEF ReadLive, BeginReads, ListMissing, Crash
<1>5. ASSUME NEW j \in Jobs, CopyForward(j) \/ WriteMissing(j)
      PROVE  Findable(v, still)'
  <2>1. job[j].version \in Versions /\ build' = build
    BY <1>5 DEF CopyForward, WriteMissing, RebuildInv, Begun
  <2>2. PICK w : w = job[j].version
    OBVIOUS
  <2>3. PICK new \in Chunks : chunk' = Inserted(w, new)
    BY <1>5, <2>2, WriteFacts
  <2>4. /\ \A u \in Versions \ {w} : chunk'[u] = chunk[u]
        /\ \A t \in Texts : chunk'[w][t] = IF chunk[w][t] = NoDoc THEN new[t] ELSE chunk[w][t]
    BY <2>1, <2>2, <2>3, InsertedFacts
  <2>5. \A t \in Texts : chunk[v][t] # NoDoc => chunk'[v][t] # NoDoc
    BY <1>1, <2>4
  <2>6. still \subseteq Held(v)'
    BY <1>1, <2>5 DEF Held
  <2>. QED
    BY <1>u, <2>1, <2>6
<1>6. ASSUME NEW j \in Jobs, BeginInserts(j)
      PROVE  Findable(v, still)'
  <2>1. Live' = Live /\ Superseded' = Superseded /\ chunk' = chunk
    BY <1>0, <1>6 DEF BeginInserts, Live, Superseded
  <2>. QED
    BY <1>h, <1>k, <2>1
<1>7. ASSUME NEW j \in Jobs, Promote(j)
      PROVE  Findable(v, still)'
  <2>. DEFINE w == job[j].version
  <2>0. w \in Versions /\ chunk' = chunk /\ build' = Promoted(w)
    BY <1>7 DEF Promote, RebuildInv, Begun
  <2>. HIDE DEF w
  <2>1. \A u \in Versions : build'[u] = CASE u = w /\ build[w] # "none" -> "live"
                                          [] u # w /\ build[u] = "live" -> "superseded"
                                          [] OTHER -> build[u]
    BY <2>0 DEF Promoted
  <2>2. CASE Live' = Live
    <3>1. \A u \in Versions : build'[u] = "live" <=> build[u] = "live"
      BY <2>2 DEF Live
    <3>2. Superseded' = Superseded
      BY <1>0, <2>0, <2>1, <3>1 DEF Superseded
    <3>. QED
      BY <1>h, <1>k, <2>0, <2>2, <3>2
  <2>3. CASE Live' # Live
    <3>1. v \in Live /\ \A l \in Live' : ~(l < v)
      BY <2>3
    <3>2. Live' \subseteq {w}
      BY <1>0, <2>1 DEF Live
    <3>3. v # w
      <4>. SUFFICES ASSUME v = w PROVE FALSE
        OBVIOUS
      <4>1. w \in Live /\ Live = {w}
        BY <1>0, <3>1
      <4>2. build'[w] = "live"
        BY <2>0, <2>1, <4>1 DEF Live
      <4>. QED
        BY <2>0, <2>3, <3>2, <4>1, <4>2 DEF Live
    <3>4. v \in Superseded'
      BY <1>1, <2>1, <3>1, <3>3 DEF Live, Superseded
    <3>5. \A l \in Live' : v < l
      <4>1. w \in Nat
        BY <1>0, <2>0
      <4>. QED
        BY <1>1, <3>1, <3>2, <3>3, <4>1
    <3>6. ASSUME NEW u \in Superseded' PROVE u <= v
      <4>1. u \in Superseded \/ u \in Live
        BY <1>0, <2>1 DEF Live, Superseded
      <4>2. u \in Live => u = v
        BY <1>0, <3>1
      <4>. QED
        BY <1>1, <4>1, <4>2
    <3>. QED
      BY <1>1, <1>h, <2>0, <3>4, <3>5, <3>6 DEF Findable
  <2>. QED
    BY <2>2, <2>3
<1>8. ASSUME NEW j \in Jobs, Reap(j)
      PROVE  Findable(v, still)'
  <2>1. v \in Kept
    <3>1. CASE v \in Live
      BY <3>1 DEF Kept
    <3>2. CASE v \in Superseded /\ \A l \in Live : v < l
      <4>1. /\ v \in Predecessors /\ Predecessors \subseteq Superseded
            /\ Predecessors \subseteq 0..MaxVersion /\ MaxVersion \in Nat
        BY <1>0, <1>1, <3>2, CollectionBuildsAssumption DEF Predecessors, Superseded, Versions
      <4>. DEFINE m == Max(Predecessors)
      <4>2. m \in Predecessors /\ \A y \in Predecessors : m >= y
        BY <4>1, MaxFacts
      <4>. HIDE DEF m
      <4>3. m = v
        <5>1. m \in Nat /\ m >= v /\ m <= v
          BY <1>1, <4>1, <4>2
        <5>. QED
          BY <1>1, <5>1
      <4>. QED
        BY <4>1, <4>3 DEF Kept, m
    <3>. QED
      BY <1>1, <3>1, <3>2
  <2>2. CASE Live = {}
    BY <1>8, <1>h, <1>u, <2>2 DEF Reap, TypeOK
  <2>3. CASE Live # {}
    <3>1. \A u \in Versions : /\ build'[u] = IF u \in Built \ Kept THEN "none" ELSE build[u]
                              /\ chunk'[u] = IF u \in Built \ Kept THEN NoChunks ELSE chunk[u]
      BY <1>8, <2>3 DEF Reap
    <3>2. /\ build'[v] = build[v] /\ chunk'[v] = chunk[v]
          /\ Superseded' \subseteq Superseded /\ Live' \subseteq Live
      BY <1>1, <2>1, <3>1 DEF Superseded, Live
    <3>3. (v \in Live => v \in Live') /\ (v \in Superseded => v \in Superseded')
      BY <1>1, <3>2 DEF Superseded, Live
    <3>. QED
      BY <1>1, <1>h, <3>2, <3>3 DEF Findable
  <2>. QED
    BY <2>2, <2>3
<1>9. ASSUME NEW j \in Jobs, Fail(j)
      PROVE  Findable(v, still)'
  <2>1. Live' = Live /\ Superseded' = Superseded
    BY <1>0, <1>9 DEF Fail, Live, Superseded
  <2>2. chunk'[v] = chunk[v]
    BY <1>0, <1>1, <1>9 DEF Fail
  <2>. QED
    BY <1>h, <1>k, <2>1, <2>2
<1>. QED
  BY <1>2, <1>3, <1>4, <1>5, <1>6, <1>7, <1>8, <1>9 DEF Next

-----------------------------------------------------------------------------
(* The rows of a version are texts. *)
LEMMA RowsAreTexts ==
    ASSUME TypeOK
    PROVE  /\ \A v \in 0..MaxVersion : RowsOf(v) \subseteq Texts
           /\ SignalHits \subseteq Texts
<1>1. \A v \in 0..MaxVersion : v # 0 => v \in Versions
  BY CollectionBuildsAssumption DEF Versions
<1>. QED
  BY <1>1 DEF RowsOf, SignalHits, Held

(* A request, the caches and the taxonomies keep what ServingInv says of them,
   whatever the corpus does. *)
LEMMA ServingStep ==
    ASSUME TypeOK, ServingInv, [ServingNext]_servingVars
    PROVE  ServingInv'
<1>0. /\ taxonomy \in 0..MaxTaxonomy /\ known \in 0..MaxTaxonomy /\ known <= taxonomy
      /\ MaxTaxonomy \in Nat /\ MaxVersion \in Nat
      /\ graph \in Graph \cup {Nothing} /\ response \in Response \cup {Nothing} /\ query \in Query
      /\ query.version \in 0..MaxVersion /\ query.docs \subseteq Texts /\ query.sources \subseteq Texts
      /\ query.taxonomy \in 0..MaxTaxonomy /\ query.due \subseteq Texts
  BY ServingAssumption, CollectionBuildsAssumption DEF ServingInv, ServingTypeOK, Query
<1>n. NoQuery \in Query /\ NoQuery.phase = "idle"
  BY <1>0 DEF NoQuery, Query, Reading
<1>r. RowsOf(query.version) \subseteq Texts /\ TheLive \in 0..MaxVersion /\ RowsOf(TheLive) \subseteq Texts
  BY <1>0, LiveVersion, RowsAreTexts
<1>c. (graph.stored => graph \in Graph) /\ (response.stored => response \in Response)
  <2>1. ~Nothing.stored
    BY DEF Nothing
  <2>. QED
    BY <1>0, <2>1
<1>z. 0 \in 0..MaxTaxonomy /\ 0 \in 0..MaxVersion
  BY <1>0
<1>1. CASE Corpus
  <2>1. /\ query' \in Query /\ query'.phase = query.phase /\ query'.sources = query.sources
        /\ query'.docs = query.docs /\ query'.content = query.content
        /\ query'.late = query.late /\ query'.taxonomy = query.taxonomy
    <3>1. StillDue \subseteq Texts
      BY <1>0 DEF StillDue
    <3>. QED
      BY <1>0, <1>1, <3>1 DEF Corpus, Query
  <2>2. UNCHANGED <<taxonomy, known, graph, response>>
    BY <1>1 DEF Corpus
  <2>. QED
    BY <2>1, <2>2 DEF ServingInv, ServingTypeOK, AnswersAreOfOneBuild, GraphFollowsPublish
<1>2. CASE Publish
  BY <1>0, <1>2 DEF Publish, ServingInv, ServingTypeOK, AnswersAreOfOneBuild, GraphFollowsPublish
<1>3. CASE PublishInvalidates
  <2>1. /\ query' \in Query /\ query'.phase = query.phase /\ query'.sources = query.sources
        /\ query'.docs = query.docs /\ query'.content = query.content
        /\ query'.taxonomy = query.taxonomy
        /\ query.phase = "building" => query'.late \/ query.taxonomy >= taxonomy
    <3>1. PICK late \in BOOLEAN : /\ late = (query.phase = "building" /\ query.taxonomy < taxonomy)
                                  /\ query' = [query EXCEPT !.late = late]
      BY <1>3 DEF PublishInvalidates
    <3>2. /\ query' \in Query /\ query'.phase = query.phase /\ query'.sources = query.sources
          /\ query'.docs = query.docs /\ query'.content = query.content
          /\ query'.taxonomy = query.taxonomy /\ query'.late = late
      BY <1>0, <3>1 DEF Query
    <3>3. query.phase = "building" => late \/ query.taxonomy >= taxonomy
      <4>1. query.taxonomy < taxonomy \/ query.taxonomy >= taxonomy
        BY <1>0
      <4>. QED
        BY <3>1, <4>1, Zenon
    <3>. QED
      BY <3>2, <3>3
  <2>2. graph' = Nothing /\ known' = taxonomy /\ UNCHANGED <<taxonomy, response>>
    BY <1>3 DEF PublishInvalidates, GraphInvalidated
  <2>. QED
    BY <1>0, <2>1, <2>2
       DEF Nothing, ServingInv, ServingTypeOK, AnswersAreOfOneBuild, GraphFollowsPublish
<1>4. ASSUME NEW reading \in Reading, Ask(reading)
      PROVE  ServingInv'
  <2>1. PICK due \in {{}, RowsOf(TheLive)} :
           query' = [query EXCEPT !.phase = reading, !.version = TheLive, !.due = due]
    BY <1>4 DEF Ask, Step
  <2>2. query' \in Query /\ query'.phase \in Reading
    BY <1>0, <1>r, <2>1 DEF Query
  <2>3. UNCHANGED <<taxonomy, known, graph, response>>
    BY <1>4 DEF Ask, Step
  <2>. QED
    BY <2>2, <2>3 DEF Reading, ServingInv, ServingTypeOK, AnswersAreOfOneBuild, GraphFollowsPublish
<1>5. ASSUME query' = NoQuery, UNCHANGED <<taxonomy, known, graph, response>>
      PROVE  ServingInv'
  BY <1>5, <1>n DEF ServingInv, ServingTypeOK, AnswersAreOfOneBuild, GraphFollowsPublish
<1>6. CASE LoadDocuments
  <2>1. CASE RowsOf(query.version) = {}
    BY <1>5, <1>6, <2>1 DEF LoadDocuments, Refuse, Step
  <2>2. CASE RowsOf(query.version) # {}
    <3>1. PICK phase \in {"loaded", "uncached"} :
             query' = [query EXCEPT !.phase = phase, !.version = 0, !.due = {},
                                    !.docs = RowsOf(query.version)]
      BY <1>6, <2>2 DEF LoadDocuments, Step
    <3>2. query' \in Query /\ query'.phase \in {"loaded", "uncached"}
      BY <1>0, <1>r, <1>z, <3>1 DEF Query
    <3>3. UNCHANGED <<taxonomy, known, graph, response>>
      BY <1>6, <2>2 DEF LoadDocuments, Step
    <3>. QED
      BY <3>2, <3>3 DEF ServingInv, ServingTypeOK, AnswersAreOfOneBuild, GraphFollowsPublish
  <2>. QED
    BY <2>1, <2>2
<1>7. CASE ReadArtifacts
  <2>1. PICK t \in Artifacts :
           Step([query EXCEPT !.phase = "building", !.taxonomy = t, !.late = (t # taxonomy)])
    BY <1>7 DEF ReadArtifacts
  <2>2. t \in 0..MaxTaxonomy
    BY <1>0 DEF Artifacts
  <2>3. /\ query' \in Query /\ query'.phase = "building"
        /\ query'.taxonomy = t /\ query'.late = (t # taxonomy)
    BY <1>0, <2>1, <2>2 DEF Step, Query
  <2>4. UNCHANGED <<taxonomy, known, graph, response>>
    BY <1>7, <2>1 DEF ReadArtifacts, Step
  <2>. QED
    BY <1>0, <2>3, <2>4 DEF ServingInv, ServingTypeOK, AnswersAreOfOneBuild, GraphFollowsPublish
<1>8. CASE StoreGraph
  <2>1. query' = [query EXCEPT !.phase = "loaded", !.late = FALSE, !.taxonomy = 0]
    BY <1>8 DEF StoreGraph, Step
  <2>2. query' \in Query /\ query'.phase = "loaded"
    BY <1>0, <1>z, <2>1 DEF Query
  <2>3. UNCHANGED <<taxonomy, known, response>>
    BY <1>8 DEF StoreGraph, Step
  <2>4. graph' \in Graph /\ graph'.late = query.late /\ graph'.taxonomy = query.taxonomy
    BY <1>0, <1>8 DEF StoreGraph, Graph, Query
  <2>5. query.late \/ query.taxonomy >= known
    BY <1>8 DEF StoreGraph, ServingInv
  <2>. QED
    BY <2>2, <2>3, <2>4, <2>5 DEF ServingInv, ServingTypeOK, AnswersAreOfOneBuild, GraphFollowsPublish
<1>9. CASE HybridRetrieve
  <2>1. PICK hits \in SUBSET (query.docs \cup SignalHits) :
           IF Fused(hits) = {} THEN Refuse
           ELSE Step([query EXCEPT !.phase = "asking", !.sources = Fused(hits)])
    BY <1>9 DEF HybridRetrieve
  <2>2. CASE Fused(hits) = {}
    BY <1>5, <1>9, <2>1, <2>2 DEF HybridRetrieve, Refuse, Step
  <2>3. CASE Fused(hits) # {}
    <3>1. Fused(hits) \subseteq query.docs
      BY DEF Fused
    <3>2. /\ query' \in Query /\ query'.phase = "asking" /\ query'.sources = Fused(hits)
          /\ query'.docs = query.docs
      BY <1>0, <2>1, <2>3, <3>1 DEF Step, Query
    <3>3. UNCHANGED <<taxonomy, known, graph, response>>
      BY <1>9, <2>1, <2>3 DEF HybridRetrieve, Step
    <3>. QED
      BY <3>1, <3>2, <3>3 DEF ServingInv, ServingTypeOK, AnswersAreOfOneBuild, GraphFollowsPublish
  <2>. QED
    BY <2>2, <2>3
<1>10. CASE Retrieve
  <2>1. CASE RowsOf(query.version) = {}
    BY <1>5, <1>10, <2>1 DEF Retrieve, Refuse, Step
  <2>2. CASE RowsOf(query.version) # {}
    <3>1. query' = [query EXCEPT !.phase = "asking", !.version = 0, !.due = {},
                                 !.docs = RowsOf(query.version), !.sources = RowsOf(query.version)]
      BY <1>10, <2>2 DEF Retrieve, Step
    <3>2. query' \in Query /\ query'.phase = "asking" /\ query'.sources = query'.docs
      BY <1>0, <1>r, <1>z, <3>1 DEF Query
    <3>3. UNCHANGED <<taxonomy, known, graph, response>>
      BY <1>10, <2>2 DEF Retrieve, Step
    <3>. QED
      BY <3>2, <3>3 DEF ServingInv, ServingTypeOK, AnswersAreOfOneBuild, GraphFollowsPublish
  <2>. QED
    BY <2>1, <2>2
<1>11. CASE AnswerFromCache
  <2>1. response \in Response /\ response.content = query.sources /\ query.sources \subseteq query.docs
    BY <1>c, <1>11 DEF AnswerFromCache, Hit, CacheKey, ServingInv
  <2>2. query' = [query EXCEPT !.phase = "answered", !.sources = {}, !.content = response.content]
    BY <1>11 DEF AnswerFromCache, Step
  <2>3. /\ query' \in Query /\ query'.phase = "answered"
        /\ query'.content = query.sources /\ query'.docs = query.docs
    BY <1>0, <2>1, <2>2 DEF Query
  <2>4. UNCHANGED <<taxonomy, known, graph, response>>
    BY <1>11 DEF AnswerFromCache, Step
  <2>. QED
    BY <2>1, <2>3, <2>4 DEF ServingInv, ServingTypeOK, AnswersAreOfOneBuild, GraphFollowsPublish
<1>12. CASE AnswerFromModel
  <2>1. query' = [query EXCEPT !.phase = "answered", !.sources = {}, !.content = query.sources]
    BY <1>12 DEF AnswerFromModel, Step
  <2>2. /\ query' \in Query /\ query'.phase = "answered"
        /\ query'.content = query.sources /\ query'.docs = query.docs
    BY <1>0, <2>1 DEF Query
  <2>3. query.sources \subseteq query.docs /\ UNCHANGED <<taxonomy, known, graph>>
    BY <1>12 DEF AnswerFromModel, Step, ServingInv
  <2>4. \/ response' = response
        \/ response' \in Response /\ response'.content = response'.key
    <3>. DEFINE put == [stored |-> TRUE, key |-> query.sources, content |-> query.sources]
    <3>1. put \in Response /\ put.content = put.key
      BY <1>0 DEF Response
    <3>2. response' \in {response, put}
      BY <1>12 DEF AnswerFromModel, AfterPut, CacheKey
    <3>. QED
      BY <3>1, <3>2
  <2>. QED
    BY <1>0, <2>2, <2>3, <2>4 DEF ServingInv, ServingTypeOK, AnswersAreOfOneBuild, GraphFollowsPublish
<1>13. CASE Returns
  BY <1>5, <1>13 DEF Returns, Step
<1>14. CASE UNCHANGED servingVars
  BY <1>14 DEF servingVars, ServingInv, ServingTypeOK, AnswersAreOfOneBuild, GraphFollowsPublish
<1>. QED
  BY <1>1, <1>2, <1>3, <1>4, <1>6, <1>7, <1>8, <1>9, <1>10, <1>11, <1>12, <1>13, <1>14 DEF ServingNext

-----------------------------------------------------------------------------
(* A reader's build stays where it can be read, over every step of the request,
   of a publish and of the corpus. *)
LEMMA ReaderStep ==
    ASSUME BuildsInv, ServingInv, ReaderInv, [ServingNext]_servingVars
    PROVE  ReaderInv'
<1>0. query \in Query /\ TypeOK /\ RowsInv /\ \A i \in Jobs : RebuildInv(i)
  BY DEF ServingInv, ServingTypeOK, BuildsInv
<1>1. CASE Corpus
  <2>1. CASE query.phase \notin Reading
    BY <1>1, <2>1 DEF Corpus, ReaderInv
  <2>2. CASE query.phase \in Reading
    <3>1. query'.phase = query.phase /\ query'.version = query.version /\ query'.due = StillDue
      BY <1>0, <1>1, <2>2 DEF Corpus, Query
    <3>2. PICK v, due, still : v = query.version /\ due = query.due /\ still = StillDue
      OBVIOUS
    <3>. SUFFICES ASSUME still # {}
                  PROVE  Findable(v, still)'
      <4>1. Findable(query.version, query.due)' <=> Findable(v, still)'
        BY <3>1, <3>2 DEF Findable
      <4>. QED
        BY <3>1, <3>2, <4>1 DEF ReaderInv
    <3>3. /\ Live' = Live \/ (v \in Live /\ \A l \in Live' : ~(l < v))
          /\ \A j \in Jobs : Fail(j) => job[j].version # v
          /\ still = {t \in due : chunk[v][t] \notin Purged'}
      BY <3>2 DEF StillDue
    <3>4. Findable(v, due) /\ still \subseteq due /\ \A t \in still : chunk[v][t] \notin Purged'
      BY <2>2, <3>2, <3>3 DEF ReaderInv
    <3>. QED
      BY <1>0, <1>1, <3>3, <3>4, FindableStep DEF Corpus
  <2>. QED
    BY <2>1, <2>2
<1>2. ASSUME UNCHANGED vars, query'.phase = query.phase, query'.version = query.version,
             query'.due = query.due
      PROVE  ReaderInv'
  BY <1>2 DEF ReaderInv, Findable, vars, Live, Superseded, Held
<1>3. CASE Publish \/ PublishInvalidates
  <2>1. UNCHANGED vars
    BY <1>3 DEF Publish, PublishInvalidates
  <2>2. query'.phase = query.phase /\ query'.version = query.version /\ query'.due = query.due
    BY <1>0, <1>3 DEF Publish, PublishInvalidates, Query
  <2>. QED
    BY <1>2, <2>1, <2>2
<1>4. ASSUME NEW reading \in Reading, Ask(reading)
      PROVE  ReaderInv'
  <2>. DEFINE due == IF \E v \in Superseded : v > TheLive THEN {} ELSE RowsOf(TheLive)
  <2>1. query' = [query EXCEPT !.phase = reading, !.version = TheLive, !.due = due]
    BY <1>4 DEF Ask, Step
  <2>2. query'.version = TheLive /\ query'.due = due
    <3>. HIDE DEF due
    <3>. QED
      BY <1>0, <2>1 DEF Query
  <2>3. Live' = Live /\ Superseded' = Superseded /\ chunk' = chunk
    BY <1>4 DEF Ask, Step, vars, Live, Superseded
  <2>4. CASE due = {}
    BY <2>2, <2>4 DEF ReaderInv
  <2>5. CASE due # {}
    <3>1. TheLive \in Live /\ TheLive # 0 /\ due = Held(TheLive)
      BY <2>5, LiveVersion DEF RowsOf
    <3>2. TheLive \in Versions /\ \A u \in Superseded : u <= TheLive
      <4>1. TheLive \in Versions /\ Versions \subseteq Nat /\ Superseded \subseteq Versions
        BY <3>1, CollectionBuildsAssumption DEF Live, Versions, Superseded
      <4>2. \A u \in Superseded : ~(u > TheLive)
        BY <2>5
      <4>. QED
        BY <4>1, <4>2
    <3>3. PICK l : l = TheLive
      OBVIOUS
    <3>4. Findable(l, Held(l))'
      BY <2>3, <3>1, <3>2, <3>3 DEF Findable, Held
    <3>5. Findable(query.version, query.due)' <=> Findable(l, Held(l))'
      BY <2>2, <2>3, <3>1, <3>3 DEF Findable, Held
    <3>. QED
      BY <3>4, <3>5 DEF ReaderInv
  <2>. QED
    BY <2>4, <2>5
<1>5. CASE \/ LoadDocuments \/ ReadArtifacts \/ StoreGraph \/ HybridRetrieve
           \/ Retrieve \/ AnswerFromCache \/ AnswerFromModel \/ Returns
  <2>0. NoQuery.phase \notin Reading
    BY DEF NoQuery, Reading
  <2>1. LoadDocuments => query'.phase \notin Reading
    BY <1>0, <2>0 DEF LoadDocuments, Refuse, Step, Query, Reading
  <2>2. ReadArtifacts \/ StoreGraph => query'.phase \notin Reading
    BY <1>0 DEF ReadArtifacts, StoreGraph, Step, Query, Reading
  <2>3. HybridRetrieve \/ Retrieve => query'.phase \notin Reading
    BY <1>0, <2>0 DEF HybridRetrieve, Retrieve, Refuse, Step, Query, Reading
  <2>4. AnswerFromCache \/ AnswerFromModel \/ Returns => query'.phase \notin Reading
    BY <1>0, <2>0 DEF AnswerFromCache, AnswerFromModel, Returns, Step, Query, Reading
  <2>5. query'.phase \notin Reading
    BY <1>5, <2>1, <2>2, <2>3, <2>4
  <2>. QED
    BY <2>5 DEF ReaderInv
<1>6. CASE UNCHANGED servingVars
  BY <1>2, <1>6 DEF servingVars
<1>. QED
  BY <1>1, <1>3, <1>4, <1>5, <1>6 DEF ServingNext

-----------------------------------------------------------------------------
(* Every step of Serving is a step of the corpus, or leaves the corpus alone. *)
LEMMA CorpusSteps ==
    ASSUME [ServingNext]_servingVars
    PROVE  [Next]_vars
BY DEF ServingNext, servingVars, Corpus, Publish, PublishInvalidates, Ask, LoadDocuments, ReadArtifacts,
       StoreGraph, HybridRetrieve, Retrieve, AnswerFromCache, AnswerFromModel, Returns, Refuse, Step

(* The collection and a request start in their types, with empty caches. *)
LEMMA Start ==
    ASSUME ServingInit
    PROVE  BuildsInv /\ ServingInv /\ ReaderInv
<1>0. MaxVersion \in Nat /\ MaxTaxonomy \in Nat /\ NoChunks \in Chunks
  BY CollectionBuildsAssumption, ServingAssumption DEF NoChunks, Chunks
<1>1. /\ Idle \in Job /\ Idle.phase = "idle" /\ Idle.throughout = {} /\ Idle.before = {}
      /\ NoQuery \in Query /\ NoQuery.phase = "idle" /\ ~Nothing.stored
  BY <1>0 DEF Idle, Job, Phases, NoQuery, Query, Reading, Nothing
<1>2. TypeOK
  BY <1>0, <1>1 DEF ServingInit, Init, TypeOK
<1>3. ServingInv
  BY <1>0, <1>1
     DEF ServingInit, ServingInv, ServingTypeOK, AnswersAreOfOneBuild, GraphFollowsPublish
<1>4. /\ Live = {} /\ \A i \in Jobs : job[i] = Idle
      /\ \A v \in Versions : Held(v) = {}
  BY DEF ServingInit, Init, Live, Held, NoChunks
<1>5. RowsInv /\ \A i \in Jobs : RebuildInv(i)
  BY <1>1, <1>4 DEF RowsInv, RebuildInv, Begun
<1>6. ReaderInv
  BY <1>1 DEF ServingInit, ReaderInv, Reading
<1>. QED
  BY <1>2, <1>3, <1>5, <1>6 DEF BuildsInv

(* Every uncrossed rebuild's version is its own and has what the rebuild wrote so
   far, one build is live, a reader's build is kept, and requests and caches are
   what ServingInv says, with any number of rebuilds at once. *)
THEOREM ServingHolds == ServingSpec => [](BuildsInv /\ ServingInv /\ ReaderInv)
<1>1. ServingInit => BuildsInv /\ ServingInv /\ ReaderInv
  BY Start
<1>2. BuildsInv /\ ServingInv /\ ReaderInv /\ [ServingNext]_servingVars
         => (BuildsInv /\ ServingInv /\ ReaderInv)'
  <2>. SUFFICES ASSUME BuildsInv, ServingInv, ReaderInv, [ServingNext]_servingVars
                PROVE  (BuildsInv /\ ServingInv /\ ReaderInv)'
    OBVIOUS
  <2>0. TypeOK /\ RowsInv /\ \A i \in Jobs : RebuildInv(i)
    BY DEF BuildsInv
  <2>1. [Next]_vars
    BY CorpusSteps
  <2>2. TypeOK' /\ RowsInv' /\ \A i \in Jobs : RebuildInv(i)'
    BY <2>0, <2>1, TypeStep, RowsStep, RebuildStep
  <2>3. ServingInv' /\ ReaderInv'
    BY <2>0, ServingStep, ReaderStep
  <2>. QED
    BY <2>2, <2>3 DEF BuildsInv
<1>. QED
  BY <1>1, <1>2, PTL DEF ServingSpec

(* Documents, builds, chunks, rebuilds, the caches and the request keep to their
   types. *)
THEOREM ServingTypeCorrect == ServingSpec => [](TypeOK /\ ServingTypeOK)
<1>1. BuildsInv /\ ServingInv => TypeOK /\ ServingTypeOK
  BY DEF BuildsInv, ServingInv
<1>. QED
  BY <1>1, ServingHolds, PTL

(* An answer is made of the documents of the build the request loaded first,
   whichever builds later retrievals saw and whatever the response cache held,
   with any number of rebuilds (_hybrid_retrieve, _cache_key). *)
THEOREM AnswersKeepToTheirBuild == ServingSpec => []AnswersAreOfOneBuild
<1>1. ServingInv => AnswersAreOfOneBuild
  BY DEF ServingInv
<1>. QED
  BY <1>1, ServingHolds, PTL

(* After this process's invalidate no cached graph is of an older taxonomy,
   unless its build had read its artifacts before or failed to (invalidate,
   build_graph), with any number of rebuilds. *)
THEOREM PublishReachesTheGraph == ServingSpec => []GraphFollowsPublish
<1>1. ServingInv => GraphFollowsPublish
  BY DEF ServingInv
<1>. QED
  BY <1>1, ServingHolds, PTL

(* What a rebuild promoted has every document that was current from its begin on,
   under its own name or another's, and none that was withdrawn before, whatever
   other rebuilds do, unless one of them crossed it (run). *)
THEOREM PromotedHasAll == ServingSpec => []PromotedIsComplete
<1>1. BuildsInv => PromotedIsComplete
  <2>. SUFFICES ASSUME BuildsInv, NEW j \in Jobs, job[j].phase = "reaping", ~job[j].crossed
                PROVE  /\ \A d \in job[j].throughout : Has(j, d)
                       /\ Sources(job[j].version) \cap job[j].before = {}
    BY DEF PromotedIsComplete, Has, Lost
  <2>1. Uncrossed(j)
    BY DEF BuildsInv, RebuildInv, Begun
  <2>. QED
    BY <2>1 DEF Uncrossed
<1>. QED
  BY <1>1, ServingHolds, PTL

(* A collection that has a live build keeps one, wherever rebuilds fail, crash or
   are reaped and however many run at once, until one is promoted whose own row
   another has deleted (promote, fail, reap). *)
THEOREM CollectionStaysServed == ServingSpec => StaysServed
<1>1. BuildsInv /\ [ServingNext]_servingVars => [SomethingStaysLive]_vars
  BY CorpusSteps, ServedStep DEF BuildsInv
<1>. QED
  BY <1>1, ServingHolds, PTL DEF ServingSpec, StaysServed

(* A request finds all that is due to it of the build it was told of, although
   others are promoted, reaped and failed in between (reap keeps the
   predecessor). *)
THEOREM ReadersFindTheirBuild == ServingSpec => []ReadersKeepTheirBuild
<1>1. ReaderInv => ReadersKeepTheirBuild
  <2>. SUFFICES ASSUME ReaderInv, query.phase \in Reading, query.due # {}
                PROVE  query.due \subseteq RowsOf(query.version)
    BY DEF ReadersKeepTheirBuild
  <2>1. query.version \in Versions /\ query.due \subseteq Held(query.version)
    BY DEF ReaderInv, Findable
  <2>2. query.version # 0
    BY <2>1, CollectionBuildsAssumption DEF Versions
  <2>. QED
    BY <2>1, <2>2 DEF RowsOf
<1>. QED
  BY <1>1, ServingHolds, PTL

-----------------------------------------------------------------------------
(* The document routes.                                                    *)

Gone(i) == document[i].status \in {"withdrawn", "purged"}

\* A row has bytes from its INSERT on, an upload from its put on, and a purge
\* a row that was withdrawn.
Shaped ==
    /\ \A i \in Rows : IF document[i].status = "absent" THEN document[i].content = NoContent
                       ELSE document[i].content \in Contents
    /\ \A u \in Uploads : upload[u] # NoUpload => upload[u].file \in Files /\ upload[u].content \in Contents
    /\ \A p \in Purges : purge[p].phase # "idle" => purge[p].row \in Rows /\ Gone(purge[p].row)

\* The bytes an upload is about to name are there, unless a document with the
\* same bytes was withdrawn.
UploadHasBytes ==
    \A u \in Uploads : upload[u] # NoUpload =>
        \/ upload[u].content \in objects
        \/ \E e \in Rows : document[e].content = upload[u].content /\ Gone(e)

\* Row e leads to content c, and no purge has its removal behind it.
Leads(e, c) ==
    /\ document[e].content = c /\ document[e].status # "purged"
    /\ \A p \in Purges : purge[p].phase = "removed" => purge[p].row # e

LedTo == \A c \in objects : c \in litter \/ \E e \in Rows : Leads(e, c)

\* A key is there only because the change it stands for was made.
KeysAreUsed ==
    /\ \A c \in Contents : <<"put", c>> \in keys =>
          \E e \in Rows : document[e].status # "absent" /\ document[e].content = c
    /\ \A i \in Rows : <<"delete", i>> \in keys => Gone(i)
    /\ \A i \in Rows : <<"purge", i>> \in keys => document[i].status = "purged"

RoutesInv ==
    /\ DocumentsTypeOK
    /\ Shaped
    /\ UploadHasBytes
    /\ CurrentHasBytes
    /\ LedTo
    /\ KeysAreUsed
    /\ ChangesAreRebuilt

GoneNext(i) == document'[i].status \in {"withdrawn", "purged"}

\* What a request may do to a row: bytes come with the INSERT and stay.
RowMoves(i) ==
    \/ document'[i] = document[i]
    \/ /\ document[i].status = "absent"
       /\ document'[i].status = "current" /\ document'[i].content \in Contents
    \/ /\ document[i].status = "current" /\ document'[i].status = "withdrawn"
       /\ document'[i].content = document[i].content
    \/ /\ document[i].status = "withdrawn" /\ document'[i].status = "purged"
       /\ document'[i].content = document[i].content

-----------------------------------------------------------------------------
(* enqueue_run adds the key, and a queued run only with a key of its own. *)
LEMMA EnqueueFacts ==
    ASSUME DocumentsTypeOK, NEW k \in Keys, EnqueueRun(k)
    PROVE  /\ keys' \subseteq Keys /\ IsFiniteSet(keys') /\ queued' \in 0..Cardinality(keys')
           /\ queued' >= queued
           /\ k \notin keys => queued' > 0
<1>1. keys \subseteq Keys /\ IsFiniteSet(keys) /\ queued \in 0..Cardinality(keys)
  BY DEF DocumentsTypeOK
<1>2. Cardinality(keys) \in Nat
  BY <1>1, FS_CardinalityType
<1>3. /\ IsFiniteSet(keys')
      /\ Cardinality(keys') = IF k \in keys THEN Cardinality(keys) ELSE Cardinality(keys) + 1
  BY <1>1, FS_AddElement DEF EnqueueRun
<1>. QED
  BY <1>1, <1>2, <1>3 DEF EnqueueRun

(* The INSERT of a new version and the withdrawal of the one it supersedes
   leave every other row alone (create_document). *)
LEMMA InsertFacts ==
    ASSUME DocumentsTypeOK, Shaped, NEW u \in Uploads, NEW i \in Rows, InsertRow(u, i)
    PROVE  /\ document' \in [Rows -> Document]
           /\ document[i].status = "absent"
           /\ document'[i].status = "current" /\ document'[i].content = upload[u].content
           /\ upload[u].content \in Contents /\ upload[u].file \in Files
           /\ \A e \in Rows \ {i} :
                 \/ document'[e] = document[e]
                 \/ /\ document[e].status = "current" /\ document'[e].status = "withdrawn"
                    /\ document'[e].content = document[e].content
<1>1. upload[u].content \in Contents /\ upload[u].file \in Files /\ document \in [Rows -> Document]
  BY DEF InsertRow, Shaped, DocumentsTypeOK
<1>2. \A e \in Rows : document[e] \in Document
  BY <1>1
<1>3. \A e \in Rows : [document[e] EXCEPT !.status = "withdrawn"] \in Document
  BY <1>2 DEF Document
<1>4. [status |-> "current", file |-> upload[u].file, content |-> upload[u].content] \in Document
  BY <1>1 DEF Document
<1>5. \A e \in Rows : document'[e] =
          CASE e = i -> [status |-> "current", file |-> upload[u].file, content |-> upload[u].content]
            [] e \in Existing(upload[u].file) -> [document[e] EXCEPT !.status = "withdrawn"]
            [] OTHER -> document[e]
  BY DEF InsertRow
<1>6. document' \in [Rows -> Document]
  <2>1. \A e \in Rows : document'[e] \in Document
    BY <1>2, <1>3, <1>4, <1>5
  <2>2. document' = [e \in Rows |-> document'[e]]
    BY DEF InsertRow
  <2>. QED
    BY <2>1, <2>2
<1>7. ASSUME NEW e \in Rows \ {i}
      PROVE  \/ document'[e] = document[e]
             \/ /\ document[e].status = "current" /\ document'[e].status = "withdrawn"
                /\ document'[e].content = document[e].content
  <2>1. CASE e \in Existing(upload[u].file)
    <3>1. document'[e] = [document[e] EXCEPT !.status = "withdrawn"]
      BY <1>5, <2>1
    <3>2. document[e].status = "current"
      BY <2>1 DEF Existing, CurrentRows
    <3>. QED
      BY <1>2, <3>1, <3>2 DEF Document
  <2>2. CASE e \notin Existing(upload[u].file)
    BY <1>5, <2>2
  <2>. QED
    BY <2>1, <2>2
<1>8. document[i].status = "absent" /\ i \notin Existing(upload[u].file)
  BY DEF InsertRow, Existing, CurrentRows
<1>9. document'[i] = [status |-> "current", file |-> upload[u].file, content |-> upload[u].content]
  BY <1>5, <1>8
<1>. QED
  BY <1>1, <1>6, <1>7, <1>8, <1>9

(* A withdrawal touches the status of its row only (delete_document). *)
LEMMA WithdrawFacts ==
    ASSUME DocumentsTypeOK, NEW i \in Rows, DeleteDocument(i)
    PROVE  /\ document' \in [Rows -> Document]
           /\ document[i].status = "current" /\ document'[i].status = "withdrawn"
           /\ document'[i].content = document[i].content
           /\ \A e \in Rows \ {i} : document'[e] = document[e]
<1>1. document \in [Rows -> Document] /\ document[i] \in Document
  BY DEF DocumentsTypeOK
<1>2. document' = [document EXCEPT ![i] = [document[i] EXCEPT !.status = "withdrawn"]]
  BY DEF DeleteDocument
<1>3. [document[i] EXCEPT !.status = "withdrawn"] \in Document
  BY <1>1 DEF Document
<1>. QED
  BY <1>1, <1>2, <1>3 DEF DeleteDocument, Document

(* So does a purge that finds its row withdrawn (purge_document). *)
LEMMA PurgeFacts ==
    ASSUME DocumentsTypeOK, NEW i \in Rows, document[i].status = "withdrawn",
           document' = [document EXCEPT ![i].status = "purged"]
    PROVE  /\ document' \in [Rows -> Document]
           /\ document'[i].status = "purged" /\ document'[i].content = document[i].content
           /\ \A e \in Rows \ {i} : document'[e] = document[e]
<1>1. document \in [Rows -> Document] /\ document[i] \in Document
  BY DEF DocumentsTypeOK
<1>2. document' = [document EXCEPT ![i] = [document[i] EXCEPT !.status = "purged"]]
  OBVIOUS
<1>3. [document[i] EXCEPT !.status = "purged"] \in Document
  BY <1>1 DEF Document
<1>. QED
  BY <1>1, <1>2, <1>3 DEF Document

-----------------------------------------------------------------------------
(* Rows, requests and keys keep to their shapes in every step. *)
LEMMA DocumentTypes ==
    ASSUME DocumentsTypeOK, Shaped, [DocumentsNext]_documentsVars
    PROVE  DocumentsTypeOK'
<1>0. /\ document \in [Rows -> Document] /\ upload \in [Uploads -> UploadState] /\ purge \in [Purges -> PurgeState]
      /\ objects \subseteq Contents /\ unseen \subseteq Rows /\ litter \subseteq Contents
      /\ NoUpload \in UploadState /\ NoPurge \in PurgeState
  BY DEF DocumentsTypeOK, NoUpload, NoPurge, UploadState, PurgeState
<1>1. ASSUME NEW u \in Uploads, NEW f \in Files, NEW c \in Contents, StoreBytes(u, f, c)
      PROVE  DocumentsTypeOK'
  <2>1. [file |-> f, content |-> c] \in UploadState
    BY DEF UploadState
  <2>. QED
    BY <1>0, <1>1, <2>1 DEF StoreBytes, Put, DocumentsTypeOK
<1>2. ASSUME NEW u \in Uploads, Unchanged(u) \/ UploadFails(u)
      PROVE  DocumentsTypeOK'
  BY <1>0, <1>2 DEF Unchanged, UploadFails, DocumentsTypeOK
<1>3. ASSUME NEW u \in Uploads, NEW i \in Rows, InsertRow(u, i)
      PROVE  DocumentsTypeOK'
  <2>1. document' \in [Rows -> Document] /\ <<"put", upload[u].content>> \in Keys
    BY <1>3, InsertFacts DEF Keys
  <2>2. keys' \subseteq Keys /\ IsFiniteSet(keys') /\ queued' \in 0..Cardinality(keys')
    BY <1>3, <2>1, EnqueueFacts DEF InsertRow
  <2>. QED
    BY <1>0, <1>3, <2>1, <2>2 DEF InsertRow, Existing, CurrentRows, DocumentsTypeOK
<1>4. ASSUME NEW i \in Rows, DeleteDocument(i)
      PROVE  DocumentsTypeOK'
  <2>1. document' \in [Rows -> Document] /\ DeleteKey(i) \in Keys
    BY <1>4, WithdrawFacts DEF Keys, DeleteKey
  <2>2. keys' \subseteq Keys /\ IsFiniteSet(keys') /\ queued' \in 0..Cardinality(keys')
    BY <1>4, <2>1, EnqueueFacts DEF DeleteDocument
  <2>. QED
    BY <1>0, <1>4, <2>1, <2>2 DEF DeleteDocument, DocumentsTypeOK
<1>5. ASSUME NEW p \in Purges, NEW i \in Rows, PurgeChecks(p, i)
      PROVE  DocumentsTypeOK'
  <2>1. [phase |-> "checked", row |-> i] \in PurgeState
    BY DEF PurgeState
  <2>. QED
    BY <1>0, <1>5, <2>1 DEF PurgeChecks, DocumentsTypeOK
<1>6. ASSUME NEW p \in Purges, PurgeRemovesObject(p)
      PROVE  DocumentsTypeOK'
  <2>1. [purge[p] EXCEPT !.phase = "removed"] \in PurgeState
    BY <1>0 DEF PurgeState
  <2>2. purge' = [purge EXCEPT ![p] = [purge[p] EXCEPT !.phase = "removed"]]
    BY <1>6 DEF PurgeRemovesObject
  <2>. QED
    BY <1>0, <1>6, <2>1, <2>2 DEF PurgeRemovesObject, Removed, DocumentsTypeOK
<1>7. ASSUME NEW p \in Purges, PurgeDeletesRow(p)
      PROVE  DocumentsTypeOK'
  <2>1. purge[p].row \in Rows
    BY <1>7 DEF PurgeDeletesRow, Shaped
  <2>2. CASE document[purge[p].row].status = "withdrawn"
    <3>1. document' \in [Rows -> Document] /\ <<"purge", purge[p].row>> \in Keys
      BY <1>7, <2>1, <2>2, PurgeFacts DEF PurgeDeletesRow, Keys
    <3>2. keys' \subseteq Keys /\ IsFiniteSet(keys') /\ queued' \in 0..Cardinality(keys')
      BY <1>7, <2>2, <3>1, EnqueueFacts DEF PurgeDeletesRow
    <3>. QED
      BY <1>0, <1>7, <2>1, <2>2, <3>1, <3>2 DEF PurgeDeletesRow, DocumentsTypeOK
  <2>3. CASE document[purge[p].row].status # "withdrawn"
    BY <1>0, <1>7, <2>3 DEF PurgeDeletesRow, DocumentsTypeOK
  <2>. QED
    BY <2>2, <2>3
<1>8. ASSUME NEW p \in Purges, PurgeFails(p)
      PROVE  DocumentsTypeOK'
  BY <1>0, <1>8 DEF PurgeFails, DocumentsTypeOK
<1>9. CASE RebuildBegins \/ RebuildCancelled
  <2>1. Cardinality(keys) \in Nat
    BY FS_CardinalityType DEF DocumentsTypeOK
  <2>. QED
    BY <1>0, <1>9, <2>1 DEF RebuildBegins, RebuildCancelled, DocumentsTypeOK
<1>10. CASE UNCHANGED documentsVars
  BY <1>10 DEF documentsVars, DocumentsTypeOK
<1>. QED
  BY <1>1, <1>2, <1>3, <1>4, <1>5, <1>6, <1>7, <1>8, <1>9, <1>10 DEF DocumentsNext

(* Every row moves forward, or not at all. *)
LEMMA RowsMove ==
    ASSUME DocumentsTypeOK, Shaped, [DocumentsNext]_documentsVars
    PROVE  \A i \in Rows : RowMoves(i)
<1>1. ASSUME NEW u \in Uploads, NEW i \in Rows, InsertRow(u, i)
      PROVE  \A e \in Rows : RowMoves(e)
  <2>1. RowMoves(i)
    BY <1>1, InsertFacts DEF RowMoves
  <2>2. \A e \in Rows \ {i} : RowMoves(e)
    BY <1>1, InsertFacts DEF RowMoves
  <2>. QED
    BY <2>1, <2>2
<1>2. ASSUME NEW i \in Rows, DeleteDocument(i)
      PROVE  \A e \in Rows : RowMoves(e)
  BY <1>2, WithdrawFacts DEF RowMoves
<1>3. ASSUME NEW p \in Purges, PurgeDeletesRow(p)
      PROVE  \A e \in Rows : RowMoves(e)
  <2>1. purge[p].row \in Rows
    BY <1>3 DEF PurgeDeletesRow, Shaped
  <2>2. CASE document[purge[p].row].status = "withdrawn"
    BY <1>3, <2>1, <2>2, PurgeFacts DEF PurgeDeletesRow, RowMoves
  <2>3. CASE document[purge[p].row].status # "withdrawn"
    BY <1>3, <2>3 DEF PurgeDeletesRow, RowMoves
  <2>. QED
    BY <2>2, <2>3
<1>4. CASE UNCHANGED document
  BY <1>4 DEF RowMoves
<1>. QED
  BY <1>1, <1>2, <1>3, <1>4
     DEF DocumentsNext, documentsVars, StoreBytes, Unchanged, UploadFails, PurgeChecks, PurgeRemovesObject, PurgeFails,
         RebuildBegins, RebuildCancelled

-----------------------------------------------------------------------------
(* Requests and rows keep to what Shaped says of them in every step. *)
LEMMA ShapedStep ==
    ASSUME DocumentsTypeOK, Shaped, [DocumentsNext]_documentsVars
    PROVE  Shaped'
<1>0. \A i \in Rows : RowMoves(i) /\ document[i] \in Document
  BY RowsMove DEF DocumentsTypeOK
<1>1. ASSUME NEW i \in Rows
      PROVE  /\ IF document'[i].status = "absent" THEN document'[i].content = NoContent
                ELSE document'[i].content \in Contents
             /\ Gone(i) => GoneNext(i)
  BY <1>0 DEF Shaped, RowMoves, Gone, GoneNext
<1>2. ASSUME NEW u \in Uploads, upload'[u] # NoUpload
      PROVE  upload'[u].file \in Files /\ upload'[u].content \in Contents
  <2>1. CASE upload'[u] = upload[u]
    BY <1>2, <2>1 DEF Shaped
  <2>2. CASE \E f \in Files, c \in Contents : StoreBytes(u, f, c)
    BY <2>2 DEF StoreBytes, DocumentsTypeOK
  <2>3. upload'[u] \in {upload[u], NoUpload} \/ \E f \in Files, c \in Contents : StoreBytes(u, f, c)
    BY DEF DocumentsTypeOK, DocumentsNext, documentsVars, StoreBytes, Unchanged, UploadFails, InsertRow, DeleteDocument, PurgeChecks,
           PurgeRemovesObject, PurgeDeletesRow, PurgeFails,
         RebuildBegins, RebuildCancelled
  <2>. QED
    BY <1>2, <2>1, <2>2, <2>3
<1>3. ASSUME NEW p \in Purges, purge'[p].phase # "idle"
      PROVE  purge'[p].row \in Rows /\ GoneNext(purge'[p].row)
  <2>1. CASE purge'[p] = purge[p]
    BY <1>1, <1>3, <2>1 DEF Shaped, Gone
  <2>2. ASSUME NEW i \in Rows, PurgeChecks(p, i)
        PROVE  purge'[p].row \in Rows /\ GoneNext(purge'[p].row)
    BY <1>1, <2>2 DEF PurgeChecks, DocumentsTypeOK, Gone, GoneNext
  <2>3. CASE PurgeRemovesObject(p)
    <3>1. purge[p] \in PurgeState /\ purge \in [Purges -> PurgeState]
      BY DEF DocumentsTypeOK
    <3>2. purge'[p].row = purge[p].row
      BY <2>3, <3>1 DEF PurgeRemovesObject, PurgeState
    <3>. QED
      BY <1>1, <2>3, <3>2 DEF PurgeRemovesObject, Shaped, Gone
  <2>4. CASE purge'[p] = NoPurge
    BY <1>3, <2>4 DEF NoPurge
  <2>5. \/ purge'[p] \in {purge[p], NoPurge}
        \/ \E i \in Rows : PurgeChecks(p, i)
        \/ PurgeRemovesObject(p)
    BY DEF DocumentsTypeOK, DocumentsNext, documentsVars, StoreBytes, Unchanged, UploadFails, InsertRow, DeleteDocument, PurgeChecks,
           PurgeRemovesObject, PurgeDeletesRow, PurgeFails,
         RebuildBegins, RebuildCancelled
  <2>. QED
    BY <2>1, <2>2, <2>3, <2>4, <2>5
<1>. QED
  BY <1>1, <1>2, <1>3 DEF Shaped, Gone, GoneNext

(* The bytes of uploads and of current rows stay, or go with a purge that a row
   with the same bytes stands for. *)
LEMMA BytesStep ==
    ASSUME DocumentsTypeOK, Shaped, UploadHasBytes, CurrentHasBytes, [DocumentsNext]_documentsVars
    PROVE  UploadHasBytes' /\ CurrentHasBytes'
<1>. DEFINE Stored(c) == c \in objects \/ \E e \in Rows : document[e].content = c /\ Gone(e)
             StoredNext(c) == c \in objects' \/ \E e \in Rows : document'[e].content = c /\ GoneNext(e)
<1>0. \A i \in Rows : RowMoves(i) /\ document[i] \in Document
  BY RowsMove DEF DocumentsTypeOK
<1>1. \A i \in Rows : Gone(i) => GoneNext(i) /\ document'[i].content = document[i].content
  BY <1>0 DEF RowMoves, Gone, GoneNext
<1>2. ASSUME NEW c \in objects, c \notin objects'
      PROVE  \E e \in Rows : document[e].content = c /\ Gone(e)
  <2>1. \E p \in Purges : PurgeRemovesObject(p)
    BY <1>2 DEF DocumentsNext, documentsVars, StoreBytes, Put, Unchanged, UploadFails, InsertRow, DeleteDocument, PurgeChecks,
                PurgeDeletesRow, PurgeFails,
         RebuildBegins, RebuildCancelled
  <2>2. PICK p \in Purges : PurgeRemovesObject(p)
    BY <2>1
  <2>. QED
    BY <1>2, <2>2 DEF PurgeRemovesObject, Removed, Shaped
<1>3. \A c : Stored(c) => StoredNext(c)
  <2>. SUFFICES ASSUME NEW c, Stored(c) PROVE StoredNext(c)
    OBVIOUS
  <2>1. CASE c \in objects'
    BY <2>1
  <2>2. CASE c \notin objects'
    <3>1. PICK e \in Rows : document[e].content = c /\ Gone(e)
      BY <1>2, <2>2
    <3>. QED
      BY <1>1, <3>1
  <2>. QED
    BY <2>1, <2>2
<1>4. \A u \in Uploads : upload[u] # NoUpload => Stored(upload[u].content)
  BY DEF UploadHasBytes
<1>5. \A i \in Rows : document[i].status = "current" => Stored(document[i].content)
  BY DEF CurrentHasBytes, CurrentRows, SameBytes, Gone
<1>6. ASSUME NEW u \in Uploads, upload'[u] # NoUpload
      PROVE  StoredNext(upload'[u].content)
  <2>1. CASE upload'[u] = upload[u]
    BY <1>3, <1>4, <1>6, <2>1
  <2>2. CASE \E f \in Files, c \in Contents : StoreBytes(u, f, c)
    BY <2>2 DEF StoreBytes, Put, DocumentsTypeOK
  <2>3. upload'[u] \in {upload[u], NoUpload} \/ \E f \in Files, c \in Contents : StoreBytes(u, f, c)
    BY DEF DocumentsTypeOK, DocumentsNext, documentsVars, StoreBytes, Unchanged, UploadFails, InsertRow, DeleteDocument, PurgeChecks,
           PurgeRemovesObject, PurgeDeletesRow, PurgeFails,
         RebuildBegins, RebuildCancelled
  <2>. QED
    BY <1>6, <2>1, <2>2, <2>3
<1>7. ASSUME NEW i \in Rows, document'[i].status = "current"
      PROVE  StoredNext(document'[i].content)
  <2>1. CASE document[i].status = "current"
    BY <1>0, <1>3, <1>5, <1>7, <2>1 DEF RowMoves
  <2>2. CASE document[i].status # "current"
    <3>1. PICK u \in Uploads, k \in Rows : InsertRow(u, k)
      <4>1. document'[i] # document[i]
        BY <1>7, <2>2
      <4>2. ASSUME NEW e \in Rows, DeleteDocument(e) PROVE FALSE
        BY <1>7, <2>2, <4>2, WithdrawFacts
      <4>3. ASSUME NEW p \in Purges, PurgeDeletesRow(p) PROVE FALSE
        BY <1>7, <2>2, <4>1, <4>3, PurgeFacts DEF PurgeDeletesRow, Shaped
      <4>. QED
        BY <4>1, <4>2, <4>3 DEF DocumentsNext, documentsVars, StoreBytes, Unchanged, UploadFails, PurgeChecks,
                PurgeRemovesObject, PurgeFails,
         RebuildBegins, RebuildCancelled
    <3>2. k = i /\ document'[i].content = upload[u].content /\ upload[u] # NoUpload
      BY <1>7, <2>2, <3>1, InsertFacts DEF InsertRow
    <3>. QED
      BY <1>3, <1>4, <3>2
  <2>. QED
    BY <2>1, <2>2
<1>8. UploadHasBytes'
  BY <1>6 DEF UploadHasBytes, Gone, GoneNext
<1>9. CurrentHasBytes'
  BY <1>7 DEF CurrentHasBytes, CurrentRows, SameBytes, GoneNext
<1>. QED
  BY <1>8, <1>9

(* A key is new only with the change it stands for, and that stays made. *)
LEMMA KeysStep ==
    ASSUME DocumentsTypeOK, Shaped, KeysAreUsed, [DocumentsNext]_documentsVars
    PROVE  KeysAreUsed'
<1>. DEFINE UsedPut(c) == \E e \in Rows : document'[e].status # "absent" /\ document'[e].content = c
<1>0. \A i \in Rows : RowMoves(i) /\ document[i] \in Document
  BY RowsMove DEF DocumentsTypeOK
<1>1. \A c \in Contents : <<"put", c>> \in keys => UsedPut(c)
  <2>. SUFFICES ASSUME NEW c \in Contents, <<"put", c>> \in keys PROVE UsedPut(c)
    OBVIOUS
  <2>1. PICK e \in Rows : document[e].status # "absent" /\ document[e].content = c
    BY DEF KeysAreUsed
  <2>2. document'[e].status # "absent" /\ document'[e].content = c
    BY <1>0, <2>1 DEF RowMoves
  <2>. QED
    BY <2>2
<1>2. \A i \in Rows : <<"delete", i>> \in keys => GoneNext(i)
  BY <1>0 DEF KeysAreUsed, RowMoves, Gone, GoneNext
<1>p. \A i \in Rows : <<"purge", i>> \in keys => document'[i].status = "purged"
  BY <1>0 DEF KeysAreUsed, RowMoves
<1>3. ASSUME NEW u \in Uploads, NEW i \in Rows, InsertRow(u, i)
      PROVE  KeysAreUsed'
  <2>1. keys' = keys \cup {<<"put", upload[u].content>>}
    BY <1>3 DEF InsertRow, EnqueueRun
  <2>2. UsedPut(upload[u].content)
    BY <1>3, InsertFacts
  <2>. QED
    BY <1>1, <1>2, <1>p, <2>1, <2>2 DEF KeysAreUsed, Gone, GoneNext
<1>4. ASSUME NEW i \in Rows, DeleteDocument(i)
      PROVE  KeysAreUsed'
  <2>1. keys' = keys \cup {<<"delete", i>>}
    BY <1>4 DEF DeleteDocument, EnqueueRun, DeleteKey
  <2>2. GoneNext(i)
    BY <1>4, WithdrawFacts DEF GoneNext
  <2>. QED
    BY <1>1, <1>2, <1>p, <2>1, <2>2 DEF KeysAreUsed, Gone, GoneNext
<1>5. ASSUME NEW p \in Purges, PurgeDeletesRow(p)
      PROVE  KeysAreUsed'
  <2>1. CASE document[purge[p].row].status = "withdrawn"
    <3>1. keys' = keys \cup {<<"purge", purge[p].row>>}
      BY <1>5, <2>1 DEF PurgeDeletesRow, EnqueueRun
    <3>2. purge[p].row \in Rows => document'[purge[p].row].status = "purged"
      BY <1>5, <2>1, PurgeFacts DEF PurgeDeletesRow
    <3>. QED
      BY <1>1, <1>2, <1>p, <3>1, <3>2 DEF KeysAreUsed, Gone, GoneNext
  <2>2. CASE document[purge[p].row].status # "withdrawn"
    <3>1. keys' = keys
      BY <1>5, <2>2 DEF PurgeDeletesRow
    <3>. QED
      BY <1>1, <1>2, <1>p, <3>1 DEF KeysAreUsed, Gone, GoneNext
  <2>. QED
    BY <2>1, <2>2
<1>6. CASE UNCHANGED keys
  BY <1>1, <1>2, <1>p, <1>6 DEF KeysAreUsed, Gone, GoneNext
<1>. QED
  BY <1>3, <1>4, <1>5, <1>6
     DEF DocumentsNext, documentsVars, StoreBytes, Unchanged, UploadFails, PurgeChecks, PurgeRemovesObject, PurgeFails,
         RebuildBegins, RebuildCancelled

(* Every object is led to, or left by a failed upload, after each step: a purge
   deletes a row only once the object is gone or somebody else leads to it. *)
LEMMA LedStep ==
    ASSUME DocumentsTypeOK, Shaped, LedTo, [DocumentsNext]_documentsVars
    PROVE  LedTo'
<1>. DEFINE LeadsNext(e, c) ==
              /\ document'[e].content = c /\ document'[e].status # "purged"
              /\ \A p \in Purges : purge'[p].phase = "removed" => purge'[p].row # e
<1>0. /\ \A i \in Rows : RowMoves(i) /\ document[i] \in Document
      /\ \A p \in Purges : purge[p] \in PurgeState
      /\ purge \in [Purges -> PurgeState]
      /\ \A p \in Purges : purge[p].phase # "idle" => purge[p].row \in Rows /\ Gone(purge[p].row)
  BY RowsMove DEF DocumentsTypeOK, Shaped
<1>. SUFFICES ASSUME NEW c \in objects', c \notin litter'
              PROVE  \E e \in Rows : LeadsNext(e, c)
  BY DEF LedTo, Leads
<1>1. ASSUME NEW u \in Uploads, NEW f \in Files, NEW d \in Contents, StoreBytes(u, f, d)
      PROVE  \E e \in Rows : LeadsNext(e, c)
  <2>1. c \in objects /\ c \notin litter /\ UNCHANGED <<document, purge>>
    BY <1>1 DEF StoreBytes, Put
  <2>. QED
    BY <2>1 DEF LedTo, Leads
<1>2. ASSUME NEW u \in Uploads, Unchanged(u)
      PROVE  \E e \in Rows : LeadsNext(e, c)
  <2>0. c \in objects /\ UNCHANGED <<document, purge>>
    BY <1>2 DEF Unchanged
  <2>1. CASE c = upload[u].content
    <3>1. PICK e \in Rows : document[e].status = "current" /\ document[e].content = c
      BY <1>2, <2>1 DEF Unchanged, Existing, CurrentRows
    <3>. QED
      BY <1>0, <2>0, <3>1 DEF Gone
  <2>2. CASE c # upload[u].content
    <3>1. c \notin litter
      BY <1>2, <2>2 DEF Unchanged
    <3>. QED
      BY <2>0, <3>1 DEF LedTo, Leads
  <2>. QED
    BY <2>1, <2>2
<1>3. ASSUME NEW u \in Uploads, NEW i \in Rows, InsertRow(u, i)
      PROVE  \E e \in Rows : LeadsNext(e, c)
  <2>0. c \in objects /\ purge' = purge
    BY <1>3 DEF InsertRow
  <2>1. CASE c = upload[u].content
    <3>1. document[i].status = "absent" /\ document'[i].status = "current" /\ document'[i].content = c
      BY <1>3, <2>1, InsertFacts
    <3>2. LeadsNext(i, c)
      BY <1>0, <2>0, <3>1 DEF Gone
    <3>. QED
      BY <3>2
  <2>2. CASE c # upload[u].content
    <3>1. PICK e \in Rows : Leads(e, c)
      BY <1>3, <2>0, <2>2 DEF InsertRow, LedTo
    <3>2. e # i /\ document'[e].content = c /\ document'[e].status # "purged"
      <4>1. document[e].content = c /\ document[e].status # "purged" /\ c \in Contents
        BY <2>0, <3>1 DEF Leads, DocumentsTypeOK
      <4>2. e # i
        BY <1>3, <4>1, InsertFacts, DocumentsAssumption DEF Shaped
      <4>. QED
        BY <1>3, <4>1, <4>2, InsertFacts
    <3>. QED
      BY <2>0, <3>1, <3>2 DEF Leads
  <2>. QED
    BY <2>1, <2>2
<1>4. ASSUME NEW i \in Rows, DeleteDocument(i)
      PROVE  \E e \in Rows : LeadsNext(e, c)
  <2>1. c \in objects /\ c \notin litter /\ purge' = purge
    BY <1>4 DEF DeleteDocument
  <2>2. PICK e \in Rows : Leads(e, c)
    BY <2>1 DEF LedTo
  <2>3. document'[e].content = c /\ document'[e].status # "purged"
    BY <1>4, <2>2, WithdrawFacts DEF Leads
  <2>. QED
    BY <2>1, <2>2, <2>3 DEF Leads
<1>5. ASSUME NEW p \in Purges, NEW i \in Rows, PurgeChecks(p, i)
      PROVE  \E e \in Rows : LeadsNext(e, c)
  <2>1. c \in objects /\ c \notin litter /\ document' = document
    BY <1>5 DEF PurgeChecks
  <2>2. \A q \in Purges : purge'[q].phase = "removed" => purge'[q] = purge[q]
    BY <1>0, <1>5 DEF PurgeChecks
  <2>. QED
    BY <2>1, <2>2 DEF LedTo, Leads
<1>6. ASSUME NEW p \in Purges, PurgeRemovesObject(p)
      PROVE  \E e \in Rows : LeadsNext(e, c)
  <2>1. /\ c \in objects /\ c \notin litter /\ document' = document
        /\ c # document[purge[p].row].content
    BY <1>6 DEF PurgeRemovesObject, Removed
  <2>2. PICK e \in Rows : Leads(e, c)
    BY <2>1 DEF LedTo
  <2>3. purge'[p].row = purge[p].row /\ \A q \in Purges \ {p} : purge'[q] = purge[q]
    BY <1>0, <1>6 DEF PurgeRemovesObject, PurgeState
  <2>. QED
    BY <2>1, <2>2, <2>3 DEF Leads
<1>7. ASSUME NEW p \in Purges, PurgeDeletesRow(p)
      PROVE  \E e \in Rows : LeadsNext(e, c)
  <2>1. c \in objects /\ c \notin litter /\ purge[p].phase = "removed" /\ purge[p].row \in Rows
    BY <1>0, <1>7 DEF PurgeDeletesRow
  <2>2. PICK e \in Rows : Leads(e, c)
    BY <2>1 DEF LedTo
  <2>3. e # purge[p].row
    BY <2>1, <2>2 DEF Leads
  <2>4. document'[e] = document[e]
    BY <1>7, <2>1, <2>3, PurgeFacts DEF PurgeDeletesRow
  <2>5. \A q \in Purges : purge'[q].phase = "removed" => purge'[q] = purge[q]
    BY <1>0, <1>7 DEF PurgeDeletesRow, NoPurge
  <2>. QED
    BY <2>2, <2>4, <2>5 DEF Leads
<1>8. ASSUME NEW p \in Purges, PurgeFails(p)
      PROVE  \E e \in Rows : LeadsNext(e, c)
  <2>1. c \in objects /\ c \notin litter /\ document' = document
    BY <1>8 DEF PurgeFails
  <2>2. \A q \in Purges : purge'[q].phase = "removed" => purge'[q] = purge[q]
    BY <1>0, <1>8 DEF PurgeFails, NoPurge
  <2>. QED
    BY <2>1, <2>2 DEF LedTo, Leads
<1>9. CASE UNCHANGED <<document, objects, purge, litter>>
  BY <1>9 DEF LedTo, Leads
<1>. QED
  BY <1>1, <1>2, <1>3, <1>4, <1>5, <1>6, <1>7, <1>8, <1>9 DEF DocumentsNext, documentsVars, UploadFails, RebuildBegins, RebuildCancelled

(* A change finds its rebuild's key fresh, unless it brings bytes a row has had,
   and queues one; none leaves the queue and leaves changes behind that it would
   have seen. *)
LEMMA RebuiltStep ==
    ASSUME DocumentsTypeOK, Shaped, KeysAreUsed, ChangesAreRebuilt, [DocumentsNext]_documentsVars
    PROVE  ChangesAreRebuilt'
<1>q. queued \in Nat
  BY FS_CardinalityType DEF DocumentsTypeOK
<1>k. ASSUME NEW key \in Keys, EnqueueRun(key), key \notin keys \/ unseen' = unseen
      PROVE  ChangesAreRebuilt'
  <2>1. queued' >= queued /\ queued' \in Nat /\ (key \notin keys => queued' > 0)
    <3>1. queued' \in 0..Cardinality(keys') /\ IsFiniteSet(keys')
      BY <1>k, EnqueueFacts
    <3>. QED
      BY <1>k, <3>1, EnqueueFacts, FS_CardinalityType
  <2>. QED
    BY <1>k, <1>q, <2>1 DEF ChangesAreRebuilt
<1>1. ASSUME NEW u \in Uploads, NEW i \in Rows, InsertRow(u, i)
      PROVE  ChangesAreRebuilt'
  <2>1. <<"put", upload[u].content>> \in Keys /\ EnqueueRun(<<"put", upload[u].content>>)
    <3>1. upload[u].content \in Contents
      BY <1>1, InsertFacts
    <3>2. EnqueueRun(<<"put", upload[u].content>>)
      BY <1>1 DEF InsertRow
    <3>. QED
      BY <3>1, <3>2 DEF Keys
  <2>2. CASE Had(upload[u].content)
    <3>1. unseen' = unseen
      BY <1>1, <2>2 DEF InsertRow
    <3>. QED
      BY <1>k, <2>1, <3>1
  <2>3. CASE ~Had(upload[u].content)
    <3>1. <<"put", upload[u].content>> \notin keys
      BY <1>1, <2>3, InsertFacts DEF KeysAreUsed, Had
    <3>. QED
      BY <1>k, <2>1, <3>1
  <2>. QED
    BY <2>2, <2>3
<1>2. ASSUME NEW i \in Rows, DeleteDocument(i)
      PROVE  ChangesAreRebuilt'
  <2>1. DeleteKey(i) \in Keys /\ DeleteKey(i) \notin keys /\ EnqueueRun(DeleteKey(i))
    BY <1>2 DEF Keys, DeleteKey, KeysAreUsed, Gone, DeleteDocument
  <2>. QED
    BY <1>k, <2>1
<1>3. ASSUME NEW p \in Purges, PurgeDeletesRow(p)
      PROVE  ChangesAreRebuilt'
  <2>1. CASE document[purge[p].row].status = "withdrawn"
    <3>1. purge[p].row \in Rows
      BY <1>3 DEF PurgeDeletesRow, Shaped
    <3>2. /\ <<"purge", purge[p].row>> \in Keys /\ <<"purge", purge[p].row>> \notin keys
          /\ EnqueueRun(<<"purge", purge[p].row>>)
      BY <1>3, <2>1, <3>1 DEF Keys, KeysAreUsed, PurgeDeletesRow
    <3>. QED
      BY <1>k, <3>2
  <2>2. CASE document[purge[p].row].status # "withdrawn"
    BY <1>3, <2>2 DEF PurgeDeletesRow, ChangesAreRebuilt
  <2>. QED
    BY <2>1, <2>2
<1>4. CASE RebuildBegins \/ RebuildCancelled
  BY <1>q, <1>4 DEF RebuildBegins, RebuildCancelled, ChangesAreRebuilt
<1>5. CASE UNCHANGED <<queued, unseen>>
  BY <1>5 DEF ChangesAreRebuilt
<1>. QED
  BY <1>1, <1>2, <1>3, <1>4, <1>5
     DEF DocumentsNext, documentsVars, StoreBytes, Unchanged, UploadFails, PurgeChecks,
         PurgeRemovesObject, PurgeFails

-----------------------------------------------------------------------------
(* The inductive invariant holds of every behaviour of the document routes. *)
THEOREM RoutesHold == DocumentsSpec => []RoutesInv
<1>1. DocumentsInit => RoutesInv
  <2>. SUFFICES ASSUME DocumentsInit PROVE RoutesInv
    OBVIOUS
  <2>1. \A i \in Rows : document[i] = AbsentRow
    BY DEF DocumentsInit
  <2>2. /\ AbsentRow \in Document /\ AbsentRow.status = "absent" /\ AbsentRow.content = NoContent
        /\ NoUpload \in UploadState /\ NoPurge \in PurgeState /\ NoPurge.phase = "idle"
    BY DEF AbsentRow, Document, NoUpload, UploadState, NoPurge, PurgeState
  <2>3. DocumentsTypeOK
    BY <2>2, FS_EmptySet DEF DocumentsInit, DocumentsTypeOK
  <2>4. Shaped
    BY <2>1, <2>2 DEF DocumentsInit, Shaped
  <2>5. UploadHasBytes /\ LedTo /\ KeysAreUsed
    BY DEF DocumentsInit, UploadHasBytes, LedTo, KeysAreUsed
  <2>6. CurrentRows = {}
    BY <2>1, <2>2 DEF CurrentRows
  <2>7. CurrentHasBytes /\ ChangesAreRebuilt
    BY <2>6 DEF CurrentHasBytes, ChangesAreRebuilt, DocumentsInit
  <2>. QED
    BY <2>3, <2>4, <2>5, <2>7 DEF RoutesInv
<1>2. RoutesInv /\ [DocumentsNext]_documentsVars => RoutesInv'
  <2>. SUFFICES ASSUME RoutesInv, [DocumentsNext]_documentsVars PROVE RoutesInv'
    OBVIOUS
  <2>0. /\ DocumentsTypeOK /\ Shaped /\ UploadHasBytes /\ CurrentHasBytes /\ LedTo /\ KeysAreUsed
        /\ ChangesAreRebuilt
    BY DEF RoutesInv
  <2>1. DocumentsTypeOK' /\ Shaped'
    BY <2>0, DocumentTypes, ShapedStep
  <2>2. UploadHasBytes' /\ CurrentHasBytes'
    BY <2>0, BytesStep
  <2>3. LedTo' /\ KeysAreUsed' /\ ChangesAreRebuilt'
    BY <2>0, LedStep, KeysStep, RebuiltStep
  <2>. QED
    BY <2>1, <2>2, <2>3 DEF RoutesInv
<1>. QED
  BY <1>1, <1>2, PTL DEF DocumentsSpec

(* Rows, requests, objects and keys keep to their types, and every queued
   rebuild has an idempotency key of its own (enqueue_run). *)
THEOREM RoutesTypeCorrect == DocumentsSpec => []DocumentsTypeOK
<1>1. RoutesInv => DocumentsTypeOK
  BY DEF RoutesInv
<1>. QED
  BY <1>1, RoutesHold, PTL

(* A document listed as current has its bytes, unless it shares them with one
   that was withdrawn, however uploads and purges overlap and fail
   (create_document, purge_document). *)
THEOREM CurrentRowsHaveBytes == DocumentsSpec => []CurrentHasBytes
<1>1. RoutesInv => CurrentHasBytes
  BY DEF RoutesInv
<1>. QED
  BY <1>1, RoutesHold, PTL

(* While a change has not been seen by a rebuild, one is queued that will, unless
   the change is an upload of bytes the collection has had before (enqueue_run,
   create_document, delete_document, purge_document). *)
THEOREM ChangesReachARebuild == DocumentsSpec => []ChangesAreRebuilt
<1>1. RoutesInv => ChangesAreRebuilt
  BY DEF RoutesInv
<1>. QED
  BY <1>1, RoutesHold, PTL

(* A purge leaves no bytes that no row leads to, wherever it or an overlapping
   upload of the same bytes stops (purge_document). *)
THEOREM PurgedBytesAreGone == DocumentsSpec => []ErasedIsGone
<1>1. RoutesInv => ErasedIsGone
  BY DEF RoutesInv, LedTo, Leads, ErasedIsGone
<1>. QED
  BY <1>1, RoutesHold, PTL
=============================================================================

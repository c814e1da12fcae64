-------------------------- MODULE CollectionBuilds --------------------------
(***************************************************************************)
(* The builds of one collection: corpus/builds.py as the reindex workload  *)
(* (workloads/reindex/workload.py) drives it, while documents are          *)
(* uploaded, withdrawn and purged.                                         *)
(*                                                                         *)
(* A rebuild writes a new version beside the one being served: read the    *)
(* live version, begin, copy forward, ingest, promote, reap.  Each is a    *)
(* transaction of its own and a step; the work between them is not covered *)
(* by any lock, and several rebuilds of a collection may run at once (one  *)
(* run per upload, and an attempt that outlived its lease).                *)
(*                                                                         *)
(* A chunk is identified by its text (chunking.canonical_id), so a build   *)
(* holds each text once, as a chunk of one document, however many have it. *)
(***************************************************************************)
EXTENDS Naturals, FiniteSetsExt

CONSTANTS Docs,        \* document rows (a replacement is a row of its own)
          Texts,       \* chunk texts, i.e. canonical ids
          Says,        \* the texts chunk_document finds in each document; none:
                       \* ingest can only skip it (no bytes, format, no text)
          Jobs,        \* rebuilds that may run at once
          MaxVersion,  \* bound: build versions
          NoDoc

ASSUME CollectionBuildsAssumption ==
    /\ Says \in [Docs -> SUBSET Texts]
    /\ MaxVersion \in Nat \ {0}
    /\ NoDoc \notin Docs

Versions == 1..MaxVersion

VARIABLES doc,     \* table document: current until superseded_at, purged when deleted
          build,   \* table collection_build
          chunk,   \* table chunk: document_id by build_version and canonical_id
          job      \* each rebuild

vars == <<doc, build, chunk, job>>

\* "numbered": begin has read the highest version; "copying" to "reaping": the
\* statements inside the try.
Phases == {"idle", "read", "numbered", "copying", "listing", "writing", "promoting",
           "reaping"}

\* Phases in which a rebuild has a version.
Begun == {"copying", "listing", "writing", "promoting", "reaping"}

Job == [phase : Phases, previous : 0..MaxVersion, version : 0..MaxVersion,
        prepared : SUBSET Docs,      \* chunked and embedded, not written
        crossed : BOOLEAN,           \* history: another rebuild deleted its version, writes
                                     \* to it too, or has left chunks under it
        throughout : SUBSET Docs,    \* history, until crossed: current since begin
        before : SUBSET Docs]        \* history, until crossed: withdrawn before begin

Chunks == [Texts -> Docs \cup {NoDoc}]

(* Builds keep to the statuses of collection_build's CHECK, jobs to the phases
   of reindex.run. *)
TypeOK ==
    /\ doc \in [Docs -> {"absent", "current", "withdrawn", "purged"}]
    /\ build \in [Versions -> {"none", "building", "live", "superseded", "failed"}]
    /\ chunk \in [Versions -> Chunks]
    /\ job \in [Jobs -> Job]

NoChunks == [t \in Texts |-> NoDoc]

Idle == [phase |-> "idle", previous |-> 0, version |-> 0, prepared |-> {},
         crossed |-> FALSE, throughout |-> {}, before |-> {}]

Init ==
    /\ doc = [d \in Docs |-> "absent"]
    /\ build = [v \in Versions |-> "none"]
    /\ chunk = [v \in Versions |-> NoChunks]
    /\ job = [j \in Jobs |-> Idle]

Current == {d \in Docs : doc[d] = "current"}
Withdrawn == {d \in Docs : doc[d] \in {"withdrawn", "purged"}}
Purged == {d \in Docs : doc[d] = "purged"}
Live == {v \in Versions : build[v] = "live"}
Built == {v \in Versions : build[v] # "none"}

\* The texts of a build, and the documents that have a chunk in it.
Held(v) == {t \in Texts : chunk[v][t] # NoDoc}
Sources(v) == {d \in Docs : \E t \in Texts : chunk[v][t] = d}

-----------------------------------------------------------------------------
(* The document routes.                                                    *)
Upload(d) ==
    /\ doc[d] = "absent"
    /\ doc' = [doc EXCEPT ![d] = "current"]
    /\ UNCHANGED <<build, chunk, job>>

\* delete_document, or the replacement of a document by a newer one.
Withdraw(d) ==
    /\ doc[d] = "current"
    /\ doc' = [doc EXCEPT ![d] = "withdrawn"]
    /\ job' = [j \in Jobs |-> [job[j] EXCEPT !.throughout = @ \ {d}]]
    /\ UNCHANGED <<build, chunk>>

\* purge_document: the row's chunks go with it (ON DELETE CASCADE).
Purge(d) ==
    /\ doc[d] = "withdrawn"
    /\ doc' = [doc EXCEPT ![d] = "purged"]
    /\ chunk' = [v \in Versions |-> [t \in Texts |-> IF chunk[v][t] = d THEN NoDoc
                                                     ELSE chunk[v][t]]]
    /\ UNCHANGED <<build, job>>

-----------------------------------------------------------------------------
(* reindex.run.                                                            *)
\* live_version_or_none.
ReadLive(j) ==
    /\ job[j].phase = "idle"
    /\ \E d \in Docs : doc[d] # "absent"    \* some change queued this run
    /\ job' = [job EXCEPT ![j].phase = "read",
                          ![j].previous = IF Live = {} THEN 0 ELSE Max(Live)]
    /\ UNCHANGED <<doc, build, chunk>>

\* begin: the SELECT of the highest version, then the INSERT.
BeginReads(j) ==
    /\ job[j].phase = "read"
    /\ Max(Built \cup {0}) < MaxVersion
    /\ job' = [job EXCEPT ![j].phase = "numbered", ![j].version = Max(Built \cup {0}) + 1]
    /\ UNCHANGED <<doc, build, chunk>>

\* A version whose row was reaped is free again, though its rebuild may have gone
\* on writing to it, or be writing still.
Taken(v) == \/ chunk[v] # NoChunks
            \/ \E i \in Jobs : job[i].phase \in Begun /\ job[i].version = v

\* The unique constraint refuses a version that was inserted meanwhile; that error
\* is outside the try.
BeginInserts(j) ==
    LET v == job[j].version IN
    /\ job[j].phase = "numbered"
    /\ IF build[v] = "none"
       THEN /\ build' = [build EXCEPT ![v] = "building"]
            /\ job' = [job EXCEPT ![j].phase = "copying", ![j].crossed = Taken(v),
                                  ![j].throughout = IF Taken(v) THEN {} ELSE Current,
                                  ![j].before = IF Taken(v) THEN {} ELSE Withdrawn]
       ELSE /\ job' = [job EXCEPT ![j] = Idle]
            /\ UNCHANGED build
    /\ UNCHANGED <<doc, chunk>>

\* INSERT ... ON CONFLICT DO NOTHING: a text that is there stays its document's.
Inserted(v, new) == [chunk EXCEPT ![v] = [t \in Texts |-> IF @[t] = NoDoc THEN new[t] ELSE @[t]]]

\* Copy forward the chunks the live build has of documents that are still current.
CopyForward(j) ==
    LET old == IF job[j].previous = 0 THEN NoChunks ELSE chunk[job[j].previous] IN
    /\ job[j].phase = "copying"
    /\ chunk' = Inserted(job[j].version,
                         [t \in Texts |-> IF old[t] \in Current THEN old[t] ELSE NoDoc])
    /\ job' = [job EXCEPT ![j].phase = "listing", ![j].previous = 0]
    /\ UNCHANGED <<doc, build>>

\* _ingest_missing: list the documents without a chunk; then, after chunking and
\* embedding outside any transaction, write theirs.
PendingUnlessCopied(v) == IF chunk[v] = NoChunks THEN Current ELSE {}

Pending(v) == Current \ Sources(v)

ListMissing(j) ==
    /\ job[j].phase = "listing"
    /\ job' = [job EXCEPT ![j].phase = "writing", ![j].prepared = Pending(job[j].version)]
    /\ UNCHANGED <<doc, build, chunk>>

\* What the prepared documents bring: a text of several is inserted for the first.
Brought(docs) ==
    {new \in Chunks : \A t \in Texts :
        LET having == {d \in docs : t \in Says[d]} IN
        IF having = {} THEN new[t] = NoDoc ELSE new[t] \in having}

\* A document that is being purged may have had no bytes left when its turn came:
\* it was skipped.  One that was purged after they were read fails the foreign key.
WriteMissing(j) ==
    LET v == job[j].version IN
    /\ job[j].phase = "writing"
    /\ \E skipped \in SUBSET (job[j].prepared \cap Withdrawn) :
         \E new \in Brought(job[j].prepared \ skipped) :
            /\ \A t \in Texts \ Held(v) : new[t] \notin Purged
            /\ chunk' = Inserted(v, new)
    /\ job' = [job EXCEPT ![j].phase = "promoting", ![j].prepared = {}]
    /\ UNCHANGED <<doc, build>>

\* promote.  The second UPDATE is not checked to have found its row.
Promoted(v) ==
    [u \in Versions |-> CASE u = v /\ build[v] # "none" -> "live"
                          [] u # v /\ build[u] = "live" -> "superseded"
                          [] OTHER -> build[u]]

Promote(j) ==
    /\ job[j].phase = "promoting"
    /\ chunk[job[j].version] # NoChunks
    /\ build' = Promoted(job[j].version)
    /\ job' = [job EXCEPT ![j].phase = "reaping"]
    /\ UNCHANGED <<doc, chunk>>

\* What reap keeps: the live build and its predecessor.
Predecessors == {v \in Versions : build[v] = "superseded" /\ \A l \in Live : v < l}

KeptLiveOnly == Live

KeptPredecessorOnly == IF Predecessors = {} THEN {} ELSE {Max(Predecessors)}

Kept == Live \cup (IF Predecessors = {} THEN {} ELSE {Max(Predecessors)})

\* reap: builds of other rebuilds that are under way are among those it deletes.
\* Then graphrag.invalidate.
Reap(j) ==
    LET doomed == IF Live = {} THEN {} ELSE Built \ Kept IN
    /\ job[j].phase = "reaping"
    /\ build' = [v \in Versions |-> IF v \in doomed THEN "none" ELSE build[v]]
    /\ chunk' = [v \in Versions |-> IF v \in doomed THEN NoChunks ELSE chunk[v]]
    /\ job' = [i \in Jobs |->
                 IF i = j THEN Idle
                 ELSE IF job[i].phase \in Begun /\ job[i].version \in doomed
                 THEN [job[i] EXCEPT !.crossed = TRUE, !.throughout = {}, !.before = {}]
                 ELSE job[i]]
    /\ UNCHANGED doc

-----------------------------------------------------------------------------
\* An exception inside the try, which covers the reap after the promotion too: a
\* cancellation, a budget stop, an error of the provider or the database, a purged
\* document's foreign key, an empty build refused by promote.  Then builds.fail.
Fail(j) ==
    LET v == job[j].version IN
    /\ job[j].phase \in Begun
    /\ chunk' = [chunk EXCEPT ![v] = NoChunks]
    /\ build' = IF build[v] = "building" THEN [build EXCEPT ![v] = "failed"] ELSE build
    /\ job' = [job EXCEPT ![j] = Idle]
    /\ UNCHANGED doc

\* The process dies, or fail itself raises.
Crash(j) ==
    /\ job[j].phase # "idle"
    /\ job' = [job EXCEPT ![j] = Idle]
    /\ UNCHANGED <<doc, build, chunk>>

Next ==
    \/ \E d \in Docs : Upload(d) \/ Withdraw(d) \/ Purge(d)
    \/ \E j \in Jobs : \/ ReadLive(j) \/ BeginReads(j) \/ BeginInserts(j) \/ CopyForward(j)
                       \/ ListMissing(j) \/ WriteMissing(j) \/ Promote(j) \/ Reap(j)
                       \/ Fail(j) \/ Crash(j)

Spec == Init /\ [][Next]_vars

-----------------------------------------------------------------------------
SomethingStaysLive ==
    Live # {} => \/ Live' # {}
                 \/ \E j \in Jobs : /\ job[j].phase = "promoting" /\ job'[j].phase = "reaping"
                                    /\ job[j].crossed

(* Once a build has been promoted the collection keeps a live one: promotion
   replaces it in one transaction, and neither a failed, crashed or empty
   rebuild nor the reaper takes it away (promote, fail, reap).  It is lost to
   one thing only: the promotion of a rebuild whose own row the reap of another
   has deleted, which retires the live build and finds nothing to promote. *)
StaysServed == [][SomethingStaysLive]_vars

(* What a rebuild promotes has every document that was current from its begin
   on: each has a chunk in the build or, if none, all its texts are there as
   chunks of other documents.  And it has nothing of a document withdrawn before
   (run, _ingest_missing).  A text may be lost with a document purged meanwhile,
   and a rebuild crossed by another may promote less.  No more can be said: a
   document with one chunk in the build is not listed as missing, though a text
   it shares went with the document whose chunk it was. *)
PromotedIsComplete ==
    \A j \in Jobs : job[j].phase = "reaping" /\ ~job[j].crossed =>
        LET v == job[j].version
            lost == UNION {Says[d] : d \in Purged \ job[j].before} IN
        /\ \A d \in job[j].throughout : d \in Sources(v) \/ Says[d] \subseteq Held(v) \cup lost
        /\ Sources(v) \cap job[j].before = {}
=============================================================================

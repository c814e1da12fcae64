----------------------------- MODULE Documents -----------------------------
(***************************************************************************)
(* The documents of one collection: the upload, withdraw and purge routes  *)
(* (api/routes/documents.py) over the document table, the object store     *)
(* (adapters/local/object_store.py) and the rebuild each change queues     *)
(* through enqueue_run (correctness/outbox.py) under an idempotency key.   *)
(*                                                                         *)
(* Object and row are written in separate steps, by requests that overlap  *)
(* and may die in between.  The object's key is the hash of its bytes, so  *)
(* rows with the same bytes share one object.  Of a rebuild only its begin *)
(* is here, from which on it reads the documents: CollectionBuilds has its *)
(* steps, and what it makes of them.                                       *)
(***************************************************************************)
EXTENDS Naturals, FiniteSets

CONSTANTS Files,       \* filenames
          Contents,    \* contents, i.e. content_sha256
          Rows,        \* document ids; bounds the uploads that add a row
          Uploads,     \* upload requests in flight at once
          Purges,      \* purge requests in flight at once
          NoRow, NoFile, NoContent

ASSUME DocumentsAssumption ==
    NoRow \notin Rows /\ NoFile \notin Files /\ NoContent \notin Contents

VARIABLES document,  \* table document
          objects,   \* contents in the object store
          upload,    \* each create_document whose bytes are stored
          purge,     \* each purge_document: row checked, or object removed
          keys,      \* idempotency keys of the runs there are
          queued,    \* how many of those runs have not begun (all rebuild alike)
          unseen,    \* history: rows changed since a rebuild last began (see Had)
          litter     \* history: contents stored by uploads that wrote no row

documentsVars == <<document, objects, upload, purge, keys, queued, unseen, litter>>

Keys == {<<"put", c>> : c \in Contents} \cup {<<how, i>> : how \in {"delete", "purge"}, i \in Rows}

Document == [status : {"absent", "current", "withdrawn", "purged"},
             file : Files \cup {NoFile}, content : Contents \cup {NoContent}]
UploadState == [file : Files \cup {NoFile}, content : Contents \cup {NoContent}]
PurgeState == [phase : {"idle", "checked", "removed"}, row : Rows \cup {NoRow}]

(* Rows, requests and keys keep to their shapes; in particular every queued
   rebuild has an idempotency key of its own (enqueue_run). *)
DocumentsTypeOK ==
    /\ document \in [Rows -> Document]
    /\ objects \subseteq Contents
    /\ upload \in [Uploads -> UploadState]
    /\ purge \in [Purges -> PurgeState]
    /\ keys \subseteq Keys /\ IsFiniteSet(keys) /\ queued \in 0..Cardinality(keys)
    /\ unseen \subseteq Rows
    /\ litter \subseteq Contents

AbsentRow == [status |-> "absent", file |-> NoFile, content |-> NoContent]
NoUpload == [file |-> NoFile, content |-> NoContent]
NoPurge == [phase |-> "idle", row |-> NoRow]

DocumentsInit ==
    /\ document = [i \in Rows |-> AbsentRow]
    /\ objects = {}
    /\ upload = [u \in Uploads |-> NoUpload]
    /\ purge = [p \in Purges |-> NoPurge]
    /\ keys = {} /\ queued = 0 /\ unseen = {} /\ litter = {}

CurrentRows == {i \in Rows : document[i].status = "current"}

\* enqueue_run: a key that exists resolves to its run, whatever became of it.
EnqueueRun(key) ==
    /\ keys' = keys \cup {key}
    /\ queued' = IF key \in keys THEN queued ELSE queued + 1

-----------------------------------------------------------------------------
(* create_document.                                                        *)
\* put with if_absent: ConflictError means the bytes are there already.
NotPut(c) == objects

Put(c) == objects \cup {c}

\* A request that is refused or fails before this point leaves nothing.
StoreBytes(u, f, c) ==
    /\ upload[u] = NoUpload
    /\ objects' = Put(c)
    /\ upload' = [upload EXCEPT ![u] = [file |-> f, content |-> c]]
    /\ litter' = litter \cup {c}
    /\ UNCHANGED <<document, purge, keys, queued, unseen>>

Existing(f) == {i \in CurrentRows : document[i].file = f}

\* Same name, same bytes: the row that is there already.
Unchanged(u) ==
    /\ upload[u] # NoUpload
    /\ \E i \in Existing(upload[u].file) : document[i].content = upload[u].content
    /\ upload' = [upload EXCEPT ![u] = NoUpload]
    /\ litter' = litter \ {upload[u].content}
    /\ UNCHANGED <<document, objects, purge, keys, queued, unseen>>

\* History: some row has had these bytes, so that their rebuild's key is used.
Had(c) == \E e \in Rows : document[e].content = c

\* A new document, or a new version that supersedes the incumbent; the rebuild
\* is queued in the same transaction.
InsertRow(u, i) ==
    LET f == upload[u].file  c == upload[u].content IN
    /\ upload[u] # NoUpload
    /\ document[i].status = "absent"
    /\ \A e \in Existing(f) : document[e].content # c
    /\ document' = [e \in Rows |->
                      CASE e = i -> [status |-> "current", file |-> f, content |-> c]
                        [] e \in Existing(f) -> [document[e] EXCEPT !.status = "withdrawn"]
                        [] OTHER -> document[e]]
    /\ EnqueueRun(<<"put", c>>)
    /\ upload' = [upload EXCEPT ![u] = NoUpload]
    /\ litter' = litter \ {c}
    /\ unseen' = IF Had(c) THEN unseen ELSE unseen \cup {i} \cup Existing(f)
    /\ UNCHANGED <<objects, purge>>

\* The process dies, or the INSERT lost a race for the name.
UploadFails(u) ==
    /\ upload[u] # NoUpload
    /\ upload' = [upload EXCEPT ![u] = NoUpload]
    /\ UNCHANGED <<document, objects, purge, keys, queued, unseen, litter>>

-----------------------------------------------------------------------------
(* delete_document.                                                        *)
DeleteKeyOfItsBytes(i) == <<"put", document[i].content>>

DeleteKey(i) == <<"delete", i>>

DeleteDocument(i) ==
    /\ document[i].status = "current"
    /\ document' = [document EXCEPT ![i].status = "withdrawn"]
    /\ EnqueueRun(DeleteKey(i))
    /\ unseen' = unseen \cup {i}
    /\ UNCHANGED <<objects, upload, purge, litter>>

-----------------------------------------------------------------------------
(* purge_document: check, remove the object, delete the row.               *)
PurgeChecks(p, i) ==
    /\ purge[p].phase = "idle"
    /\ document[i].status = "withdrawn"
    /\ purge' = [purge EXCEPT ![p] = [phase |-> "checked", row |-> i]]
    /\ UNCHANGED <<document, objects, upload, keys, queued, unseen, litter>>

RemovesLater(c) == objects

Removed(c) == objects \ {c}

PurgeRemovesObject(p) ==
    /\ purge[p].phase = "checked"
    /\ objects' = Removed(document[purge[p].row].content)
    /\ purge' = [purge EXCEPT ![p].phase = "removed"]
    /\ UNCHANGED <<document, upload, keys, queued, unseen, litter>>

\* Deleting the row takes its chunks out of every build.  A row that another
\* purge has deleted is a conflict.
PurgeDeletesRow(p) ==
    LET i == purge[p].row IN
    /\ purge[p].phase = "removed"
    /\ IF document[i].status = "withdrawn"
       THEN /\ document' = [document EXCEPT ![i].status = "purged"]
            /\ EnqueueRun(<<"purge", i>>)
            /\ unseen' = unseen \cup {i}
       ELSE UNCHANGED <<document, keys, queued, unseen>>
    /\ purge' = [purge EXCEPT ![p] = NoPurge]
    /\ UNCHANGED <<objects, upload, litter>>

PurgeFails(p) ==
    /\ purge[p].phase # "idle"
    /\ purge' = [purge EXCEPT ![p] = NoPurge]
    /\ UNCHANGED <<document, objects, upload, keys, queued, unseen, litter>>

-----------------------------------------------------------------------------
\* reindex.run starts: it will look at the documents as they are from now on.
\* Whether it promotes what it finds, fails or is overtaken is not said here.
RebuildBegins ==
    /\ queued > 0
    /\ queued' = queued - 1
    /\ unseen' = {}
    /\ UNCHANGED <<document, objects, upload, purge, keys, litter>>

\* cancel_run, or attempts spent before the first statement: the last rebuild in the
\* queue takes what it would have seen with it.
RebuildCancelled ==
    /\ queued > 0
    /\ queued' = queued - 1
    /\ unseen' = IF queued = 1 THEN {} ELSE unseen
    /\ UNCHANGED <<document, objects, upload, purge, keys, litter>>

DocumentsNext ==
    \/ \E u \in Uploads : \/ \E f \in Files, c \in Contents : StoreBytes(u, f, c)
                          \/ Unchanged(u)
                          \/ \E i \in Rows : InsertRow(u, i)
                          \/ UploadFails(u)
    \/ \E i \in Rows : DeleteDocument(i)
    \/ \E p \in Purges : \/ \E i \in Rows : PurgeChecks(p, i)
                         \/ PurgeRemovesObject(p) \/ PurgeDeletesRow(p) \/ PurgeFails(p)
    \/ RebuildBegins \/ RebuildCancelled

DocumentsSpec == DocumentsInit /\ [][DocumentsNext]_documentsVars

-----------------------------------------------------------------------------
SameBytes(i) == {e \in Rows \ {i} : document[e].content = document[i].content}

(* A document the platform lists as current has its bytes, so that a rebuild
   can chunk it: "a row with no object is a document the platform lists as
   current ... and can never chunk" (create_document, purge_document).  The
   exception is a document that shares its object with one that was withdrawn:
   purging that one deletes the object of both. *)
CurrentHasBytes ==
    \A i \in CurrentRows : \/ document[i].content \in objects
                       \/ \E e \in SameBytes(i) : document[e].status \in {"withdrawn", "purged"}

(* No change to the documents goes unseen: while a row has been inserted,
   superseded, withdrawn or purged since a rebuild last began, "the rebuild that
   will index it" is still queued, whichever changes came before and whichever
   rebuilds their keys have used up (enqueue_run, the routes), unless a user
   cancelled it.  The exception is an upload of bytes the collection has had
   before: its rebuild's key is the hash of the bytes, was used then, and queues
   nothing. *)
ChangesAreRebuilt == unseen # {} => queued > 0

(* Purging leaves no bytes behind that no row leads to, though the request may
   die half way and be repeated: an object without a row stems from an upload
   that failed after storing it (purge_document, the object before the row). *)
ErasedIsGone ==
    \A c \in objects : c \in litter \/ \E i \in Rows : /\ document[i].content = c
                                                       /\ document[i].status # "purged"
=============================================================================

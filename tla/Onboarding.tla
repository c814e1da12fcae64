----------------------------- MODULE Onboarding -----------------------------
(***************************************************************************)
(* Onboarding of one domain: a principal starts a session, which queues a  *)
(* drafting run in the same transaction; a worker drafts the taxonomy and  *)
(* writes its artifacts; people edit, approve and publish it               *)
(* (workloads/onboarding/store.py, workloads/onboarding/workload.py,       *)
(* api/routes/onboarding.py, migrations 0013, 0017 and 0019).              *)
(*                                                                         *)
(* Every endpoint reads the session row and writes it in one READ          *)
(* COMMITTED transaction, so what it read may be stale when it writes: an  *)
(* endpoint is a step that reads and a step that writes and commits, and   *)
(* the constraints of the tables are evaluated by the writes.  A request   *)
(* may fail or be cut off between the two.  The run and its attempts are   *)
(* what RunStore says of them, reduced to what the session can see; a      *)
(* worker may outlive its lease and go on writing.                         *)
(***************************************************************************)
EXTENDS Naturals, Sequences, FiniteSets, TLC

CONSTANTS Sessions,     \* session ids; the run admitted with a session has its id
          Principals,
          Workers,
          Requests,     \* API requests that may be in progress at once
          Keys,         \* idempotency keys
          Sent,         \* what clients send as one, NoKey for none
          NoOne, NoKey,
          NoSession,
          MaxAttempts,  \* max_attempts of a run
          Busy,         \* bound: sessions whose run may use more than one attempt and
                        \* whose draft yields an instance table, and that people edit
          MaxEdits      \* bound: taxonomy edits

ASSUME OnboardingAssumption ==
    /\ NoOne \notin Principals /\ NoKey \notin Keys /\ NoSession \notin Sessions
    /\ Sent \subseteq Keys \cup {NoKey}
    /\ MaxAttempts \in Nat \ {0} /\ MaxEdits \in Nat

VARIABLES session,    \* table onboarding_session
          artifact,   \* table onboarding_artifact: the schema and the instance table
                      \* in force
          drafted,    \* ... and the drafter's, under the name drafted_name gives them
          run,        \* the run admitted with each session
          job,        \* what each worker is drafting
          req,        \* each API request between its read and its write
          edits       \* edits made so far

vars == <<session, artifact, drafted, run, job, req, edits>>

Statuses == {"absent", "drafting", "draft_ready", "approved", "published",
             "failed", "cancelled"}

\* The artifacts a person may write; predicate map, extraction cache and candidate
\* queries are left out.
Kinds == {"schema", "instance_table"}

\* A payload is known by who wrote it, the engine (NoOne) or a person, and by the
\* edit it came from; what the engine wrote, in whichever attempt, has number 1.
Payloads == [by : Principals \cup {NoOne}, n : 0..(MaxEdits + 1)]
NoPayload == [by |-> NoOne, n |-> 0]
Nothing == [k \in Kinds |-> NoPayload]

NoRow == [status |-> "absent", created_by |-> NoOne, schema_edited_by |-> NoOne,
          schema_edited_at |-> 0, approved_by |-> NoOne, run_id |-> NoSession]
NoRun == [status |-> "absent", attempt |-> 0, key |-> NoKey]
Idle == [phase |-> "idle", s |-> NoSession]
NoRequest == [op |-> "none", by |-> NoOne, s |-> NoSession, key |-> NoKey, seen |-> {}]

SessionRow == [status : Statuses, created_by : Principals \cup {NoOne},
               schema_edited_by : Principals \cup {NoOne}, schema_edited_at : 0..MaxEdits,
               approved_by : Principals \cup {NoOne},
               run_id : Sessions \cup {NoSession}]
RunRow == [status : {"absent", "pending", "running", "over"},
           attempt : 0..MaxAttempts, key : Keys \cup {NoKey}]
Jobs == [phase : {"idle", "draft"} \cup Kinds, s : Sessions \cup {NoSession}]
Ops == [op : {"none", "start", "edit", "approve", "publish"}, by : Principals \cup {NoOne},
        s : Sessions \cup {NoSession}, key : Keys \cup {NoKey}, seen : SUBSET Sessions]

(* Rows, artifacts, runs, jobs and requests keep to their shapes. *)
TypeOK ==
    /\ session \in [Sessions -> SessionRow]
    /\ artifact \in [Sessions -> [Kinds -> Payloads]]
    /\ drafted \in [Sessions -> [Kinds -> Payloads]]
    /\ run \in [Sessions -> RunRow]
    /\ job \in [Workers -> Jobs]
    /\ req \in [Requests -> Ops]
    /\ edits \in 0..MaxEdits

Init ==
    /\ session = [s \in Sessions |-> NoRow]
    /\ artifact = [s \in Sessions |-> Nothing]
    /\ drafted = [s \in Sessions |-> Nothing]
    /\ run = [s \in Sessions |-> NoRun]
    /\ job = [w \in Workers |-> Idle]
    /\ req = [q \in Requests |-> NoRequest]
    /\ edits = 0

-----------------------------------------------------------------------------
(* What the tables refuse.                                                 *)
RowAllowedToTheDrafter(row) ==
    row.approved_by # NoOne => row.approved_by # row.created_by

\* onboarding_session_no_self_approval and
\* onboarding_session_editor_is_not_approver.
RowAllowed(row) ==
    row.approved_by # NoOne => row.approved_by \notin {row.created_by, row.schema_edited_by}

Published == {s \in Sessions : session[s].status = "published"}

PublishAllowedUnindexed(s, demoted) == TRUE

\* onboarding_session_one_published_idx: a second published row is refused.
PublishAllowed(s, demoted) == Published \ demoted \subseteq {s}

\* The runs that carry a key: run_idempotency_key is unique.
Holders(key) == {r \in Sessions : key # NoKey /\ run[r].key = key}

-----------------------------------------------------------------------------
(* API requests.                                                           *)
Read(q, op, p, s, key, seen) ==
    /\ req[q] = NoRequest
    /\ req' = [req EXCEPT ![q] = [op |-> op, by |-> p, s |-> s, key |-> key, seen |-> seen]]
    /\ UNCHANGED <<session, artifact, drafted, run, job, edits>>

Done(q) == req' = [req EXCEPT ![q] = NoRequest]

\* The transaction is rolled back: a constraint or a unique index refused a
\* write, two edits inserted the same retained copy, or the process died.
Fails(q) ==
    /\ req[q] # NoRequest
    /\ Done(q)
    /\ UNCHANGED <<session, artifact, drafted, run, job, edits>>

\* start_session: no draft of the domain is running.  enqueue_run looks the
\* client's key up first.
StartRead(q, p, key) ==
    /\ \A s \in Sessions : session[s].status # "drafting"
    /\ \E s \in Sessions : session[s].status = "absent"    \* bound
    /\ Read(q, "start", p, NoSession, key, Holders(key))

AdmittedIfNotFound(s, key, found) == IF found # {} THEN CHOOSE r \in found : TRUE ELSE s

\* enqueue_run: the run that was found, else INSERT ... ON CONFLICT, which yields
\* the run that a concurrent request committed in the meantime, else a new one.
Admitted(s, key, found) ==
    IF found # {} THEN CHOOSE r \in found : TRUE
    ELSE IF Holders(key) # {} THEN CHOOSE r \in Holders(key) : TRUE
    ELSE s

StartWrite(q, s) ==
    /\ req[q].op = "start" /\ session[s].status = "absent"
    /\ LET r == Admitted(s, req[q].key, req[q].seen) IN
       /\ session' = [session EXCEPT ![s] = [NoRow EXCEPT !.status = "drafting",
                                                 !.created_by = req[q].by, !.run_id = r]]
       /\ run' = IF r = s THEN [run EXCEPT ![s] = [NoRun EXCEPT !.status = "pending",
                                                                !.key = req[q].key]]
                 ELSE run
    /\ Done(q)
    /\ UNCHANGED <<artifact, drafted, job, edits>>

\* edit_schema: only a draft_ready taxonomy that has a schema.
MayEdit(row) == row.status = "draft_ready"

EditRead(q, p, s) ==
    /\ s \in Busy
    /\ MayEdit(session[s]) /\ artifact[s]["schema"] # NoPayload /\ edits < MaxEdits
    /\ Read(q, "edit", p, s, NoKey, {})

\* _retain_original: the first overwrite keeps the drafter's payload.
RetainOriginal(s, k) == IF drafted[s][k] = NoPayload THEN artifact[s][k] ELSE drafted[s][k]

\* The schema, and with retype the instance table, which there has to be then, are
\* rewritten in one transaction with the editor's name.  Only the last editor's
\* name is kept.
EditWrite(q, retype) ==
    LET s == req[q].s
        written == IF retype THEN Kinds ELSE {"schema"}
        row == [session[s] EXCEPT !.schema_edited_by = req[q].by, !.schema_edited_at = edits + 1]
    IN
    /\ req[q].op = "edit" /\ edits < MaxEdits
    /\ retype => artifact[s]["instance_table"] # NoPayload
    /\ RowAllowed(row)
    /\ drafted' = [drafted EXCEPT ![s] =
           [k \in Kinds |-> IF k \in written THEN RetainOriginal(s, k) ELSE drafted[s][k]]]
    /\ artifact' = [artifact EXCEPT ![s] =
           [k \in Kinds |-> IF k \in written THEN [by |-> req[q].by, n |-> edits + 1]
                            ELSE artifact[s][k]]]
    /\ session' = [session EXCEPT ![s] = row]
    /\ edits' = edits + 1
    /\ Done(q)
    /\ UNCHANGED <<run, job>>

\* approve: draft_ready, and neither drafted nor last edited by the approver.
MayApprove(p, row) ==
    /\ row.status = "draft_ready"
    /\ row.created_by # p /\ row.schema_edited_by # p

ApproveRead(q, p, s) ==
    /\ MayApprove(p, session[s])
    /\ Read(q, "approve", p, s, NoKey, {})

ApproveWrite(q) ==
    LET s == req[q].s
        row == [session[s] EXCEPT !.status = "approved", !.approved_by = req[q].by]
    IN
    /\ req[q].op = "approve"
    /\ session[s].status = "draft_ready" /\ RowAllowed(row)
    /\ session' = [session EXCEPT ![s] = row]
    /\ Done(q)
    /\ UNCHANGED <<artifact, drafted, run, job, edits>>

PublishRead(q, s) ==
    /\ session[s].status = "approved"
    /\ Read(q, "publish", NoOne, s, NoKey, Published)

\* publish: the incumbent is demoted, then this row is published by its id.  The
\* demotion takes a snapshot of its own between the read and the commit, waits for
\* a concurrent publish and may then find its incumbent demoted already: it
\* reaches the row that was published when the request began, or the one that is now.
PublishWrite(q) ==
    LET s == req[q].s IN
    /\ req[q].op = "publish"
    /\ \E demoted \in {req[q].seen \cap Published, Published} :
       /\ PublishAllowed(s, demoted)
       /\ session' = [o \in Sessions |->
                         IF o = s THEN [session[o] EXCEPT !.status = "published"]
                         ELSE IF o \in demoted THEN [session[o] EXCEPT !.status = "approved"]
                         ELSE session[o]]
    /\ Done(q)
    /\ UNCHANGED <<artifact, drafted, run, job, edits>>

\* cancel: one conditional statement; the run is left alone.
CancelSession(s) ==
    /\ session[s].status \in {"drafting", "draft_ready"}
    /\ session' = [session EXCEPT ![s].status = "cancelled"]
    /\ UNCHANGED <<artifact, drafted, run, job, req, edits>>

-----------------------------------------------------------------------------
(* The drafting run.                                                       *)
\* set_status is unconditional: it overwrites whatever the row says.
SetStatus(s, status) == session' = [session EXCEPT ![s].status = status]

NothingToDraft(row) == row.status # "drafting"

\* A worker takes the run and reads the session: there is nothing to do for one
\* that is no longer drafting.
Deliver(w, s) ==
    /\ job[w] = Idle /\ run[s].status = "pending"
    /\ run' = [run EXCEPT ![s].status = "running", ![s].attempt = @ + 1]
    /\ job' = [job EXCEPT ![w] = IF NothingToDraft(session[s]) THEN Idle
                                 ELSE [phase |-> "draft", s |-> s]]
    /\ UNCHANGED <<session, artifact, drafted, req, edits>>

\* What the engine wrote, read back.
Captured == [by |-> NoOne, n |-> 1]

\* put_artifact: an upsert in a transaction of its own, for each that analyze
\* produced, the schema before the instance table.
PutArtifact(w, k) ==
    /\ \/ job[w].phase = "draft" /\ k = "schema"
       \/ job[w].phase \in {"draft", "schema"} /\ k = "instance_table" /\ job[w].s \in Busy
    /\ artifact' = [artifact EXCEPT ![job[w].s][k] = Captured]
    /\ job' = [job EXCEPT ![w].phase = k]
    /\ UNCHANGED <<session, drafted, run, req, edits>>

\* Not every analysis yields a taxonomy to put.
DraftReady(w) ==
    /\ job[w] # Idle
    /\ SetStatus(job[w].s, "draft_ready")
    /\ job' = [job EXCEPT ![w] = Idle]
    /\ UNCHANGED <<artifact, drafted, run, req, edits>>

\* An empty corpus, and whatever raises in the try, a cancellation seen by
\* on_progress included.
DraftFails(w) ==
    /\ job[w] # Idle
    /\ SetStatus(job[w].s, "failed")
    /\ job' = [job EXCEPT ![w] = Idle]
    /\ UNCHANGED <<artifact, drafted, run, req, edits>>

\* The worker dies, or is cancelled before the try: the session stays drafting.
Crash(w) ==
    /\ job[w] # Idle
    /\ job' = [job EXCEPT ![w] = Idle]
    /\ UNCHANGED <<session, artifact, drafted, run, req, edits>>

\* The runtime records the end of the attempt, or its lease runs out and is
\* reaped, its worker alive or not: the run is over or, if the attempt did not
\* succeed, delivered again while it has attempts left.
AttemptEnds(s, status) ==
    /\ run[s].status = "running"
    /\ status = "pending" => s \in Busy /\ run[s].attempt < MaxAttempts
    /\ run' = [run EXCEPT ![s].status = status]
    /\ UNCHANGED <<session, artifact, drafted, job, req, edits>>

-----------------------------------------------------------------------------
Request(q) ==
    \/ Fails(q) \/ ApproveWrite(q) \/ PublishWrite(q)
    \/ \E retype \in BOOLEAN : EditWrite(q, retype)
    \/ \E p \in Principals, k \in Sent : StartRead(q, p, k)
    \/ \E p \in Principals, s \in Sessions : EditRead(q, p, s) \/ ApproveRead(q, p, s)
    \/ \E s \in Sessions : PublishRead(q, s) \/ StartWrite(q, s)

Works(w) ==
    \/ \E s \in Sessions : Deliver(w, s)
    \/ \E k \in Kinds : PutArtifact(w, k)
    \/ DraftReady(w) \/ DraftFails(w) \/ Crash(w)

Next ==
    \/ \E q \in Requests : Request(q)
    \/ \E w \in Workers : Works(w)
    \/ \E s \in Sessions : CancelSession(s)
    \/ \E s \in Sessions, status \in {"pending", "over"} : AttemptEnds(s, status)

Spec == Init /\ [][Next]_vars

Symmetry == Permutations(Principals) \cup Permutations(Workers) \cup Permutations(Requests)
                \cup Permutations(Keys)

-----------------------------------------------------------------------------
(* Maker is never checker: whoever approved a session neither started it nor
   wrote the schema in force, whatever edits, drafts and approvals overlapped, and
   beside a person's payload the drafter's is kept, so that the reviewer can tell
   whose it is.  Of the instance table it is so only while its author's edit is the
   last one: the row names one editor, so that an approver's own table is in force
   behind another person's later edit, and only then (approve, edit_schema with
   retype and _retain_original, and the CHECK constraints of 0013 and 0017). *)
MakerIsNotChecker ==
    \A s \in Sessions :
        LET row == session[s]
            table == artifact[s]["instance_table"]
        IN
        /\ row.status \in {"approved", "published"} =>
              /\ row.approved_by \notin {row.created_by, NoOne}
              /\ artifact[s]["schema"].by # row.approved_by
              /\ table.by = row.approved_by =>
                    row.schema_edited_by # table.by /\ row.schema_edited_at > table.n
        /\ \A k \in Kinds : artifact[s][k].by # NoOne =>
              drafted[s][k] # NoPayload /\ drafted[s][k].by = NoOne

(* A domain has one live taxonomy at most, and once it has one it keeps one: only
   a draft that outlived its run can take it down (publish, set_status and
   the partial unique index of 0013). *)
OneLiveTaxonomy ==
    /\ [](Cardinality(Published) <= 1)
    /\ [][Published # {} => \/ Published' # {}
                            \/ \E w \in Workers : job[w].s \in Published]_vars

(* Requests that carry one idempotency key resolve to one run, however they
   overlap, and that run is there (enqueue_run, its fast path and its unique
   constraint). *)
KeyAdmitsOnce ==
    /\ \A key \in Keys : Cardinality(Holders(key)) <= 1
    /\ \A s \in Sessions : session[s].status # "absent" =>
           run[session[s].run_id].status # "absent"
=============================================================================

-------------------------- MODULE OnboardingProofs --------------------------
(***************************************************************************)
(* Proofs about Onboarding, for any sets of sessions, people, workers,     *)
(* overlapping requests and keys and any number of attempts and edits.     *)
(*                                                                         *)
(* An endpoint decides on a row it read earlier, so its decision has to be *)
(* backed by something that cannot change in between: the CHECK            *)
(* constraints and the order of the edits (SessionInv), what a request has *)
(* seen (RequestInv) and the unique key of a run (RunInv).                 *)
(***************************************************************************)
EXTENDS Onboarding, FiniteSetTheorems, TLAPS

Live == {"approved", "published"}

\* One session: its constraints, its approver and whose bytes are in force.
SessionInv(s) ==
    /\ RowAllowed(session[s])
    /\ session[s].status \in Live => session[s].approved_by # NoOne
    /\ session[s].approved_by # NoOne => session[s].status # "absent"
    /\ session[s].schema_edited_at <= edits
    /\ artifact[s]["schema"].by \in {NoOne, session[s].schema_edited_by}
    /\ \A k \in Kinds :
          /\ drafted[s][k].by = NoOne
          /\ artifact[s][k].by # NoOne =>
                /\ drafted[s][k] # NoPayload
                /\ artifact[s][k].n <= session[s].schema_edited_at
                /\ artifact[s][k].n = session[s].schema_edited_at =>
                      artifact[s][k].by = session[s].schema_edited_by
    /\ session[s].status = "absent" => artifact[s] = Nothing /\ run[s] = NoRun

\* The run of a session, and the key it was admitted with.
RunInv(s) ==
    /\ run[s].status = "pending" => run[s].attempt < MaxAttempts
    /\ run[s].key # NoKey => run[s].status # "absent"
    /\ session[s].status # "absent" =>
          session[s].run_id \in Sessions /\ run[session[s].run_id].status # "absent"

OneRunPerKey ==
    \A r1, r2 \in Sessions : run[r1].key # NoKey /\ run[r1].key = run[r2].key => r1 = r2

JobInv(w) ==
    job[w] # Idle => /\ job[w].phase # "idle"
                     /\ job[w].s \in Sessions /\ session[job[w].s].status # "absent"

\* What a request found is still there when it writes.
RequestInv(q) ==
    /\ req[q].op = "start" => \A r \in req[q].seen : req[q].key # NoKey /\ run[r].key = req[q].key
    /\ req[q].op \in {"edit", "approve", "publish"} =>
          req[q].s \in Sessions /\ session[req[q].s].status # "absent"
    /\ req[q].op = "edit" => artifact[req[q].s]["schema"] # NoPayload /\ req[q].by # NoOne
    /\ req[q].op = "approve" => req[q].by # NoOne
    /\ req[q].op = "publish" => session[req[q].s].approved_by # NoOne

OneLive == \A s1, s2 \in Published : s1 = s2

IInv ==
    /\ TypeOK
    /\ \A s \in Sessions : SessionInv(s) /\ RunInv(s)
    /\ OneRunPerKey
    /\ \A w \in Workers : JobInv(w)
    /\ \A q \in Requests : RequestInv(q)
    /\ OneLive

-----------------------------------------------------------------------------
(* The empty rows have the shape of rows. *)
LEMMA EmptyFacts ==
    /\ NoRow \in SessionRow /\ NoRow.status = "absent" /\ NoRow.approved_by = NoOne
    /\ NoRow.schema_edited_by = NoOne /\ NoRow.schema_edited_at = 0
    /\ Nothing \in [Kinds -> Payloads] /\ \A k \in Kinds : Nothing[k] = NoPayload
    /\ Kinds = {"schema", "instance_table"} /\ Captured \in Payloads
    /\ Captured.by = NoOne /\ Captured # NoPayload
    /\ NoPayload \in Payloads /\ NoPayload.by = NoOne /\ NoPayload.n = 0
    /\ NoRun \in RunRow /\ NoRun.status = "absent" /\ NoRun.key = NoKey /\ NoRun.attempt = 0
    /\ Idle \in Jobs /\ Idle.phase = "idle" /\ Idle.s = NoSession
    /\ NoRequest \in Ops /\ NoRequest.op = "none"
<1>. USE OnboardingAssumption
<1>1. NoRow \in SessionRow /\ NoRow.status = "absent" /\ NoRow.approved_by = NoOne
        /\ NoRow.schema_edited_by = NoOne /\ NoRow.schema_edited_at = 0
  <2>1. 0 \in 0..MaxEdits
    OBVIOUS
  <2>. QED
    BY <2>1 DEF NoRow, SessionRow, Statuses
<1>2. NoPayload \in Payloads /\ NoPayload.by = NoOne /\ NoPayload.n = 0
  <2>1. 0 \in 0..(MaxEdits + 1)
    OBVIOUS
  <2>. QED
    BY <2>1 DEF NoPayload, Payloads
<1>6. Captured \in Payloads /\ Captured.by = NoOne /\ Captured # NoPayload
  <2>1. 1 \in 0..(MaxEdits + 1)
    OBVIOUS
  <2>2. Captured.n = 1 /\ NoPayload.n = 0
    BY DEF Captured, NoPayload
  <2>. QED
    BY <2>1, <2>2 DEF Captured, Payloads
<1>7. /\ Nothing \in [Kinds -> Payloads] /\ \A k \in Kinds : Nothing[k] = NoPayload
      /\ Kinds = {"schema", "instance_table"}
  BY <1>2 DEF Nothing, Kinds
<1>3. NoRun \in RunRow /\ NoRun.status = "absent" /\ NoRun.key = NoKey /\ NoRun.attempt = 0
  BY DEF NoRun, RunRow
<1>4. Idle \in Jobs /\ Idle.phase = "idle" /\ Idle.s = NoSession
  BY DEF Idle, Jobs
<1>5. NoRequest \in Ops /\ NoRequest.op = "none"
  BY DEF NoRequest, Ops
<1>. QED
  BY <1>1, <1>2, <1>3, <1>4, <1>5, <1>6, <1>7

(* A change of one column of a session row, by set_status, cancel, publish,
   edit_schema or approve, leaves the others. *)
LEMMA RowWrites ==
    ASSUME NEW row \in SessionRow
    PROVE  /\ \A st \in Statuses :
                 LET new == [row EXCEPT !.status = st] IN
                 /\ new \in SessionRow /\ new.status = st /\ new.created_by = row.created_by
                 /\ new.schema_edited_by = row.schema_edited_by
                 /\ new.schema_edited_at = row.schema_edited_at
                 /\ new.approved_by = row.approved_by /\ new.run_id = row.run_id
           /\ \A p \in Principals \cup {NoOne}, n \in 0..MaxEdits :
                 LET new == [row EXCEPT !.schema_edited_by = p, !.schema_edited_at = n] IN
                 /\ new \in SessionRow /\ new.status = row.status
                 /\ new.created_by = row.created_by /\ new.schema_edited_by = p
                 /\ new.schema_edited_at = n
                 /\ new.approved_by = row.approved_by /\ new.run_id = row.run_id
           /\ \A p \in Principals \cup {NoOne} :
                 LET new == [row EXCEPT !.status = "approved", !.approved_by = p] IN
                 /\ new \in SessionRow /\ new.status = "approved"
                 /\ new.created_by = row.created_by
                 /\ new.schema_edited_by = row.schema_edited_by
                 /\ new.schema_edited_at = row.schema_edited_at
                 /\ new.approved_by = p /\ new.run_id = row.run_id
  BY DEF SessionRow, Statuses

\* A step of one request leaves the other requests alone.
OtherRequests(q) ==
    /\ req' \in [Requests -> Ops]
    /\ \A x \in Requests \ {q} : req'[x] = req[x]

\* A step of one worker leaves the other workers alone.
OtherWorkers(w) ==
    /\ job' \in [Workers -> Jobs]
    /\ \A x \in Workers \ {w} : job'[x] = job[x]

(* An endpoint that reads opens its request, and one that writes closes it. *)
LEMMA RequestMoves ==
    ASSUME req \in [Requests -> Ops], NEW q \in Requests
    PROVE  /\ Done(q) => OtherRequests(q) /\ req'[q] = NoRequest
           /\ \A op \in {"start", "edit", "approve", "publish"}, p \in Principals \cup {NoOne},
                 s \in Sessions \cup {NoSession}, key \in Keys \cup {NoKey}, seen \in SUBSET Sessions :
                 Read(q, op, p, s, key, seen) =>
                    /\ OtherRequests(q)
                    /\ UNCHANGED <<session, artifact, drafted, run, job, edits>>
                    /\ req'[q] = [op |-> op, by |-> p, s |-> s, key |-> key, seen |-> seen]
<1>1. Done(q) => OtherRequests(q) /\ req'[q] = NoRequest
  BY EmptyFacts DEF Done, OtherRequests
<1>2. ASSUME NEW op \in {"start", "edit", "approve", "publish"}, NEW p \in Principals \cup {NoOne},
             NEW s \in Sessions \cup {NoSession}, NEW key \in Keys \cup {NoKey},
             NEW seen \in SUBSET Sessions, Read(q, op, p, s, key, seen)
      PROVE  /\ OtherRequests(q)
             /\ UNCHANGED <<session, artifact, drafted, run, job, edits>>
             /\ req'[q] = [op |-> op, by |-> p, s |-> s, key |-> key, seen |-> seen]
  <2>1. [op |-> op, by |-> p, s |-> s, key |-> key, seen |-> seen] \in Ops
    BY DEF Ops
  <2>. QED
    BY <1>2, <2>1 DEF Read, OtherRequests
<1>. QED
  BY <1>1, <1>2

-----------------------------------------------------------------------------
(* A request that reads, or is cut off, changes no table; what it has seen is
   so. *)
LEMMA ReadsPreserve ==
    ASSUME IInv, NEW q \in Requests,
           \/ Fails(q)
           \/ \E p \in Principals, k \in Sent : StartRead(q, p, k)
           \/ \E p \in Principals, s \in Sessions : EditRead(q, p, s) \/ ApproveRead(q, p, s)
           \/ \E s \in Sessions : PublishRead(q, s)
    PROVE  IInv'
<1>. USE OnboardingAssumption
<1>0. TypeOK /\ req \in [Requests -> Ops]
  BY DEF IInv, TypeOK
<1>1. ASSUME OtherRequests(q), UNCHANGED <<session, artifact, drafted, run, job, edits>>,
             RequestInv(q)'
      PROVE  IInv'
  <2>1. TypeOK'
    BY <1>0, <1>1 DEF TypeOK, OtherRequests
  <2>2. ASSUME NEW s \in Sessions PROVE SessionInv(s)' /\ RunInv(s)'
    BY <1>1 DEF IInv, SessionInv, RunInv
  <2>3. OneRunPerKey' /\ OneLive' /\ \A w \in Workers : JobInv(w)'
    BY <1>1 DEF IInv, OneRunPerKey, OneLive, Published, JobInv
  <2>4. ASSUME NEW x \in Requests PROVE RequestInv(x)'
    BY <1>1 DEF IInv, RequestInv, OtherRequests
  <2>. QED
    BY <2>1, <2>2, <2>3, <2>4 DEF IInv
<1>2. CASE Fails(q)
  BY <1>0, <1>1, <1>2, RequestMoves, EmptyFacts DEF Fails, RequestInv
<1>3. ASSUME NEW p \in Principals, NEW k \in Sent, StartRead(q, p, k) PROVE IInv'
  <2>0. /\ Read(q, "start", p, NoSession, k, Holders(k)) /\ Holders(k) \in SUBSET Sessions
        /\ k \in Keys \cup {NoKey}
    BY <1>3 DEF StartRead, Holders
  <2>1. /\ OtherRequests(q) /\ UNCHANGED <<session, artifact, drafted, run, job, edits>>
        /\ req'[q] = [op |-> "start", by |-> p, s |-> NoSession, key |-> k, seen |-> Holders(k)]
    BY <1>0, <2>0, RequestMoves
  <2>2. RequestInv(q)'
    BY <2>1 DEF RequestInv, Holders
  <2>. QED
    BY <1>1, <2>1, <2>2
<1>4. ASSUME NEW p \in Principals, NEW s \in Sessions, EditRead(q, p, s) PROVE IInv'
  <2>0. Read(q, "edit", p, s, NoKey, {}) /\ {} \in SUBSET Sessions
    BY <1>4 DEF EditRead
  <2>1. /\ OtherRequests(q) /\ UNCHANGED <<session, artifact, drafted, run, job, edits>>
        /\ req'[q] = [op |-> "edit", by |-> p, s |-> s, key |-> NoKey, seen |-> {}]
    BY <1>0, <2>0, RequestMoves
  <2>2. session[s].status = "draft_ready" /\ artifact[s]["schema"] # NoPayload
    BY <1>4 DEF EditRead, MayEdit
  <2>3. RequestInv(q)'
    BY <2>1, <2>2 DEF RequestInv
  <2>. QED
    BY <1>1, <2>1, <2>2, <2>3
<1>5. ASSUME NEW p \in Principals, NEW s \in Sessions, ApproveRead(q, p, s) PROVE IInv'
  <2>0. Read(q, "approve", p, s, NoKey, {}) /\ {} \in SUBSET Sessions
    BY <1>5 DEF ApproveRead
  <2>1. /\ OtherRequests(q) /\ UNCHANGED <<session, artifact, drafted, run, job, edits>>
        /\ req'[q] = [op |-> "approve", by |-> p, s |-> s, key |-> NoKey, seen |-> {}]
    BY <1>0, <2>0, RequestMoves
  <2>2. session[s].status = "draft_ready"
    BY <1>5 DEF ApproveRead, MayApprove
  <2>3. RequestInv(q)'
    BY <2>1, <2>2 DEF RequestInv
  <2>. QED
    BY <1>1, <2>1, <2>3
<1>6. ASSUME NEW s \in Sessions, PublishRead(q, s) PROVE IInv'
  <2>0. Read(q, "publish", NoOne, s, NoKey, Published) /\ Published \in SUBSET Sessions
    BY <1>6 DEF PublishRead, Published
  <2>1. /\ OtherRequests(q) /\ UNCHANGED <<session, artifact, drafted, run, job, edits>>
        /\ req'[q] = [op |-> "publish", by |-> NoOne, s |-> s, key |-> NoKey, seen |-> Published]
    BY <1>0, <2>0, RequestMoves
  <2>2. session[s].status = "approved" /\ session[s].approved_by # NoOne
    BY <1>6 DEF PublishRead, IInv, SessionInv, Live
  <2>3. RequestInv(q)'
    BY <2>1, <2>2 DEF RequestInv
  <2>. QED
    BY <1>1, <2>1, <2>3
<1>. QED
  BY <1>2, <1>3, <1>4, <1>5, <1>6

\* Requests and jobs go on or end.
OthersEnd ==
    /\ req' \in [Requests -> Ops] /\ \A q \in Requests : req'[q] \in {req[q], NoRequest}
    /\ job' \in [Workers -> Jobs] /\ \A w \in Workers : job'[w] \in {job[w], Idle}

\* A write of nothing but statuses: of a session that exists, to a status other
\* than "absent", to a live one only where there is an approver.
StatusMoves ==
    /\ session' \in [Sessions -> SessionRow]
    /\ \A s \in Sessions :
          /\ session'[s].created_by = session[s].created_by
          /\ session'[s].schema_edited_by = session[s].schema_edited_by
          /\ session'[s].schema_edited_at = session[s].schema_edited_at
          /\ session'[s].approved_by = session[s].approved_by
          /\ session'[s].run_id = session[s].run_id
          /\ session'[s].status = "absent" <=> session[s].status = "absent"
          /\ session'[s].status \in Live => session[s].approved_by # NoOne
    /\ OneLive'
    /\ UNCHANGED <<artifact, drafted, run, edits>>

(* Whatever sets statuses in this way keeps the invariant. *)
LEMMA StatusPreserves ==
    ASSUME IInv, StatusMoves, OthersEnd
    PROVE  IInv'
<1>1. TypeOK'
  BY DEF IInv, TypeOK, StatusMoves, OthersEnd
<1>2. ASSUME NEW s \in Sessions PROVE SessionInv(s)' /\ RunInv(s)'
  <2>1. SessionInv(s)'
    BY DEF IInv, SessionInv, StatusMoves, RowAllowed
  <2>2. RunInv(s)'
    BY DEF IInv, RunInv, StatusMoves
  <2>. QED
    BY <2>1, <2>2
<1>3. OneRunPerKey' /\ OneLive'
  BY DEF IInv, OneRunPerKey, StatusMoves
<1>4. ASSUME NEW w \in Workers PROVE JobInv(w)'
  BY DEF IInv, JobInv, StatusMoves, OthersEnd
<1>5. ASSUME NEW q \in Requests PROVE RequestInv(q)'
  BY EmptyFacts DEF IInv, RequestInv, StatusMoves, OthersEnd
<1>. QED
  BY <1>1, <1>2, <1>3, <1>4, <1>5 DEF IInv

(* publish demotes what it has seen published and is refused where another row
   would stay published; an approved session stays live (publish,
   onboarding_session_one_published_idx). *)
LEMMA PublishPreserves ==
    ASSUME IInv, NEW q \in Requests, PublishWrite(q)
    PROVE  IInv' /\ Published' # {}
<1>. DEFINE s == req[q].s
<1>. USE OnboardingAssumption
<1>0. s \in Sessions /\ session[s].approved_by # NoOne /\ session[s].status # "absent"
  BY DEF IInv, RequestInv, PublishWrite
<1>1. /\ session \in [Sessions -> SessionRow] /\ req \in [Requests -> Ops]
      /\ job \in [Workers -> Jobs]
  BY DEF IInv, TypeOK
<1>2. PICK demoted \in {req[q].seen \cap Published, Published} :
         /\ session' = [o \in Sessions |->
             IF o = s THEN [session[o] EXCEPT !.status = "published"]
             ELSE IF o \in demoted THEN [session[o] EXCEPT !.status = "approved"]
             ELSE session[o]]
         /\ Published \ demoted \subseteq {s}
         /\ UNCHANGED <<artifact, drafted, run, job, edits>>
  BY DEF PublishWrite, PublishAllowed
<1>3. demoted \subseteq Published
  OBVIOUS
<1>. HIDE DEF s
<1>4. ASSUME NEW o \in Sessions
      PROVE  /\ session'[o] \in SessionRow
             /\ session'[o].created_by = session[o].created_by
             /\ session'[o].schema_edited_by = session[o].schema_edited_by
             /\ session'[o].schema_edited_at = session[o].schema_edited_at
             /\ session'[o].approved_by = session[o].approved_by
             /\ session'[o].run_id = session[o].run_id
             /\ session'[o].status = IF o = s THEN "published"
                                     ELSE IF o \in demoted THEN "approved"
                                     ELSE session[o].status
  <2>1. session[o] \in SessionRow /\ {"published", "approved"} \subseteq Statuses
    BY <1>1 DEF Statuses
  <2>2. session'[o] = IF o = s THEN [session[o] EXCEPT !.status = "published"]
                      ELSE IF o \in demoted THEN [session[o] EXCEPT !.status = "approved"]
                      ELSE session[o]
    BY <1>2
  <2>3. ASSUME NEW st \in Statuses
        PROVE  LET new == [session[o] EXCEPT !.status = st] IN
               /\ new \in SessionRow /\ new.status = st /\ new.created_by = session[o].created_by
               /\ new.schema_edited_by = session[o].schema_edited_by
               /\ new.schema_edited_at = session[o].schema_edited_at
               /\ new.approved_by = session[o].approved_by /\ new.run_id = session[o].run_id
    BY <2>1, RowWrites
  <2>. QED
    BY <2>1, <2>2, <2>3
<1>5. Published' = {s}
  BY <1>0, <1>2, <1>3, <1>4 DEF Published
<1>6. StatusMoves
  <2>1. session' \in [Sessions -> SessionRow]
    BY <1>2, <1>4
  <2>2. OneLive'
    BY <1>5 DEF OneLive
  <2>3. ASSUME NEW o \in Sessions
        PROVE  /\ session'[o].status = "absent" <=> session[o].status = "absent"
               /\ session'[o].status \in Live => session[o].approved_by # NoOne
    <3>1. SessionInv(o)
      BY DEF IInv
    <3>. QED
      BY <1>0, <1>3, <1>4, <3>1 DEF SessionInv, Live, Published
  <2>. QED
    BY <1>2, <1>4, <2>1, <2>2, <2>3 DEF StatusMoves
<1>7. OthersEnd
  BY <1>1, <1>2, RequestMoves DEF PublishWrite, OthersEnd, OtherRequests
<1>. QED
  BY <1>5, <1>6, <1>7, StatusPreserves

(* A drafter's verdict, a cancellation, and a drafter that dies (set_status,
   cancel). *)
LEMMA SetStatusPreserves ==
    ASSUME IInv,
           \/ \E w \in Workers : DraftReady(w) \/ DraftFails(w) \/ Crash(w)
           \/ \E s \in Sessions : CancelSession(s)
    PROVE  IInv'
<1>. USE OnboardingAssumption
<1>0. /\ session \in [Sessions -> SessionRow] /\ req \in [Requests -> Ops]
      /\ job \in [Workers -> Jobs]
  BY DEF IInv, TypeOK
<1>1. ASSUME NEW s \in Sessions, NEW st \in Statuses \ (Live \cup {"absent"}),
             session' = [session EXCEPT ![s].status = st],
             session[s].status # "absent",
             UNCHANGED <<artifact, drafted, run, edits>>
      PROVE  StatusMoves
  <2>1. /\ session'[s] = [session[s] EXCEPT !.status = st]
        /\ \A o \in Sessions \ {s} : session'[o] = session[o]
    BY <1>0, <1>1
  <2>2. /\ session'[s] \in SessionRow /\ session'[s].status = st
        /\ session'[s].created_by = session[s].created_by
        /\ session'[s].schema_edited_by = session[s].schema_edited_by
        /\ session'[s].schema_edited_at = session[s].schema_edited_at
        /\ session'[s].approved_by = session[s].approved_by
        /\ session'[s].run_id = session[s].run_id
    <3>1. session[s] \in SessionRow /\ st \in Statuses
      BY <1>0
    <3>2. LET new == [session[s] EXCEPT !.status = st] IN
          /\ new \in SessionRow /\ new.status = st /\ new.created_by = session[s].created_by
          /\ new.schema_edited_by = session[s].schema_edited_by
          /\ new.schema_edited_at = session[s].schema_edited_at
          /\ new.approved_by = session[s].approved_by /\ new.run_id = session[s].run_id
      BY <3>1, RowWrites
    <3>. QED
      BY <2>1, <3>2
  <2>3. session' \in [Sessions -> SessionRow]
    <3>1. session' = [session EXCEPT ![s] = [session[s] EXCEPT !.status = st]]
      BY <1>1
    <3>. QED
      BY <1>0, <2>1, <2>2, <3>1
  <2>4. OneLive'
    BY <1>1, <2>1, <2>2 DEF IInv, OneLive, Published, Live
  <2>5. ASSUME NEW o \in Sessions
        PROVE  session[o].status \in Live => session[o].approved_by # NoOne
    BY DEF IInv, SessionInv
  <2>. QED
    BY <1>1, <2>1, <2>2, <2>3, <2>4, <2>5 DEF StatusMoves
<1>2. ASSUME NEW w \in Workers, DraftReady(w) \/ DraftFails(w) \/ Crash(w) PROVE IInv'
  <2>1. /\ job[w].s \in Sessions /\ session[job[w].s].status # "absent"
        /\ job[w].phase # "idle"
    BY <1>2 DEF IInv, JobInv, DraftReady, DraftFails, Crash
  <2>3. OthersEnd
    BY <1>0, <1>2, EmptyFacts DEF OthersEnd, DraftReady, DraftFails, Crash
  <2>4. UNCHANGED <<artifact, drafted, run, edits>>
    BY <1>2 DEF DraftReady, DraftFails, Crash
  <2>5. CASE Crash(w)
    <3>1. session' = session
      BY <2>5 DEF Crash
    <3>2. StatusMoves
      BY <1>0, <2>4, <3>1 DEF IInv, StatusMoves, SessionInv, OneLive, Published
    <3>. QED
      BY <2>3, <3>2, StatusPreserves
  <2>6. CASE DraftReady(w) \/ DraftFails(w)
    <3>1. PICK st \in Statuses \ (Live \cup {"absent"}) :
             session' = [session EXCEPT ![job[w].s].status = st]
      BY <2>6 DEF DraftReady, DraftFails, SetStatus, Statuses, Live
    <3>2. StatusMoves
      BY <1>1, <2>1, <2>4, <3>1
    <3>. QED
      BY <2>3, <3>2, StatusPreserves
  <2>. QED
    BY <1>2, <2>5, <2>6
<1>3. ASSUME NEW s \in Sessions, CancelSession(s) PROVE IInv'
  <2>2. /\ session' = [session EXCEPT ![s].status = "cancelled"]
        /\ session[s].status # "absent" /\ "cancelled" \in Statuses \ (Live \cup {"absent"})
        /\ UNCHANGED <<artifact, drafted, run, edits>>
    BY <1>3 DEF CancelSession, Live, Statuses
  <2>3. StatusMoves
    BY <1>1, <2>2
  <2>4. OthersEnd
    BY <1>0, <1>3 DEF OthersEnd, CancelSession
  <2>. QED
    BY <2>3, <2>4, StatusPreserves
<1>. QED
  BY <1>2, <1>3

(* start_session: the run is the one that holds the key, found at once or by the
   conflict, else a new one, which is then the only one (enqueue_run). *)
LEMMA StartPreserves ==
    ASSUME IInv, NEW q \in Requests, NEW s \in Sessions, StartWrite(q, s)
    PROVE  IInv'
<1>. DEFINE key == req[q].key
            r == Admitted(s, key, req[q].seen)
            row == [NoRow EXCEPT !.status = "drafting", !.created_by = req[q].by, !.run_id = r]
            newRun == [NoRun EXCEPT !.status = "pending", !.key = key]
<1>. USE OnboardingAssumption
<1>0. /\ session \in [Sessions -> SessionRow] /\ run \in [Sessions -> RunRow]
      /\ req \in [Requests -> Ops] /\ job \in [Workers -> Jobs]
      /\ key \in Keys \cup {NoKey} /\ req[q].by \in Principals \cup {NoOne}
      /\ req[q].seen \subseteq Sessions
  BY DEF IInv, TypeOK, Ops
<1>1. /\ session[s].status = "absent" /\ artifact[s] = Nothing /\ run[s] = NoRun
      /\ \A x \in req[q].seen : key # NoKey /\ run[x].key = key
      /\ session[s].approved_by = NoOne
  BY DEF StartWrite, IInv, SessionInv, RequestInv, Live
<1>2. /\ session' = [session EXCEPT ![s] = row]
      /\ run' = IF r = s THEN [run EXCEPT ![s] = newRun] ELSE run
      /\ UNCHANGED <<artifact, drafted, job, edits>>
      /\ OtherRequests(q) /\ req'[q] = NoRequest
  BY <1>0, RequestMoves DEF StartWrite
<1>3. /\ newRun \in RunRow /\ newRun.status = "pending" /\ newRun.key = key /\ newRun.attempt = 0
  BY <1>0, EmptyFacts DEF RunRow
<1>4. \/ r \in Sessions \ {s} /\ run[r].status # "absent"
      \/ r = s /\ \A x \in Sessions : key = NoKey \/ run[x].key # key
  <2>1. CASE req[q].seen # {}
    <3>1. r \in req[q].seen
      BY <2>1 DEF Admitted
    <3>. QED
      BY <1>0, <1>1, <3>1, EmptyFacts DEF IInv, RunInv
  <2>2. CASE req[q].seen = {} /\ Holders(key) # {}
    <3>1. r \in Holders(key)
      BY <2>2 DEF Admitted
    <3>. QED
      BY <1>0, <1>1, <3>1, EmptyFacts DEF IInv, RunInv, Holders
  <2>3. CASE req[q].seen = {} /\ Holders(key) = {}
    BY <2>3 DEF Admitted, Holders
  <2>. QED
    BY <2>1, <2>2, <2>3
<1>5. /\ row \in SessionRow /\ row.status = "drafting" /\ row.run_id = r
      /\ row.approved_by = NoOne /\ row.schema_edited_by = NoOne /\ row.schema_edited_at = 0
  <2>1. r \in Sessions
    BY <1>4
  <2>. HIDE DEF r
  <2>. QED
    BY <1>0, <2>1, EmptyFacts DEF SessionRow, Statuses
<1>. HIDE DEF key, r, row, newRun
<1>6. /\ session'[s] = row /\ \A o \in Sessions \ {s} : session'[o] = session[o]
      /\ \A o \in Sessions \ {s} : run'[o] = run[o]
      /\ run'[s].status # "absent" => run'[s] = newRun
      /\ r = s => run'[s] = newRun
      /\ r # s => run'[s] = run[s]
  BY <1>0, <1>1, <1>2, EmptyFacts
<1>a. TypeOK'
  BY <1>0, <1>2, <1>3, <1>5 DEF IInv, TypeOK, OtherRequests
<1>b. ASSUME NEW o \in Sessions PROVE SessionInv(o)' /\ RunInv(o)'
  <2>1. SessionInv(o)'
    <3>1. CASE o = s
      <4>1. /\ artifact'[s] = Nothing /\ drafted'[s] = drafted[s] /\ edits' = edits
            /\ \A k \in Kinds : drafted[s][k].by = NoOne
            /\ 0 <= edits
        BY <1>1, <1>2 DEF IInv, SessionInv, TypeOK
      <4>. QED
        BY <3>1, <4>1, <1>5, <1>6, EmptyFacts DEF SessionInv, RowAllowed, Live
    <3>2. CASE o # s
      BY <3>2, <1>2, <1>6 DEF IInv, SessionInv, RowAllowed
    <3>. QED
      BY <3>1, <3>2
  <2>2. RunInv(o)'
    <3>0. \A x \in Sessions : run[x].status # "absent" => run'[x].status # "absent"
      BY <1>3, <1>6
    <3>1. CASE o = s
      <4>1. run'[r].status # "absent" /\ r \in Sessions
        BY <1>3, <1>4, <1>6
      <4>2. CASE r = s
        BY <3>1, <4>1, <4>2, <1>3, <1>5, <1>6 DEF RunInv
      <4>3. CASE r # s
        BY <3>1, <4>1, <4>3, <1>1, <1>5, <1>6 DEF IInv, RunInv
      <4>. QED
        BY <4>2, <4>3
    <3>2. CASE o # s
      BY <3>0, <3>2, <1>6 DEF IInv, RunInv
    <3>. QED
      BY <3>1, <3>2
  <2>. QED
    BY <2>1, <2>2
<1>c. OneRunPerKey'
  BY <1>3, <1>4, <1>6 DEF IInv, OneRunPerKey
<1>d. ASSUME NEW w \in Workers PROVE JobInv(w)'
  BY <1>2, <1>5, <1>6 DEF IInv, JobInv
<1>e. ASSUME NEW x \in Requests PROVE RequestInv(x)'
  <2>1. CASE x = q
    BY <1>2, <2>1, EmptyFacts DEF RequestInv
  <2>2. CASE x # q
    <3>1. req'[x] = req[x] /\ RequestInv(x) /\ req[x].seen \subseteq Sessions
      BY <1>0, <1>2, <2>2 DEF OtherRequests, IInv, Ops
    <3>. QED
      BY <1>1, <1>2, <1>6, <3>1, EmptyFacts DEF RequestInv
  <2>. QED
    BY <2>1, <2>2
<1>f. OneLive'
  BY <1>5, <1>6 DEF IInv, OneLive, Published
<1>. QED
  BY <1>a, <1>b, <1>c, <1>d, <1>e, <1>f DEF IInv

(* edit_schema writes payloads and editor together and keeps the drafter's
   payload before it first overwrites it; a table it leaves alone is older than
   the row's last edit. *)
LEMMA EditPreserves ==
    ASSUME IInv, NEW q \in Requests, NEW retype \in BOOLEAN, EditWrite(q, retype)
    PROVE  IInv'
<1>. DEFINE s == req[q].s
            p == req[q].by
            row == [session[s] EXCEPT !.schema_edited_by = p, !.schema_edited_at = edits + 1]
            bytes == [by |-> p, n |-> edits + 1]
            written == IF retype THEN Kinds ELSE {"schema"}
            kept == [k \in Kinds |-> IF k \in written THEN RetainOriginal(s, k) ELSE drafted[s][k]]
            new == [k \in Kinds |-> IF k \in written THEN bytes ELSE artifact[s][k]]
<1>. USE OnboardingAssumption
<1>0. /\ session \in [Sessions -> SessionRow] /\ artifact \in [Sessions -> [Kinds -> Payloads]]
      /\ drafted \in [Sessions -> [Kinds -> Payloads]] /\ req \in [Requests -> Ops]
      /\ edits \in 0..MaxEdits /\ p \in Principals \cup {NoOne}
  BY DEF IInv, TypeOK, Ops
<1>1. /\ s \in Sessions /\ session[s].status # "absent" /\ artifact[s]["schema"] # NoPayload
      /\ p # NoOne /\ SessionInv(s)
  BY DEF EditWrite, IInv, RequestInv
<1>2. /\ RowAllowed(row) /\ edits < MaxEdits
      /\ drafted' = [drafted EXCEPT ![s] = kept]
      /\ artifact' = [artifact EXCEPT ![s] = new]
      /\ session' = [session EXCEPT ![s] = row]
      /\ edits' = edits + 1
      /\ UNCHANGED <<run, job>>
      /\ OtherRequests(q) /\ req'[q] = NoRequest
      /\ \A k \in written : artifact[s][k] # NoPayload
      /\ "schema" \in written /\ written \subseteq Kinds
  <2>1. /\ RowAllowed(row) /\ edits < MaxEdits
        /\ drafted' = [drafted EXCEPT ![s] = kept]
        /\ artifact' = [artifact EXCEPT ![s] = new]
        /\ session' = [session EXCEPT ![s] = row]
        /\ edits' = edits + 1 /\ Done(q)
        /\ UNCHANGED <<run, job>>
        /\ retype => artifact[s]["instance_table"] # NoPayload
    BY DEF EditWrite
  <2>2. OtherRequests(q) /\ req'[q] = NoRequest
    BY <1>0, <2>1, RequestMoves
  <2>3. /\ \A k \in written : artifact[s][k] # NoPayload
        /\ "schema" \in written /\ written \subseteq Kinds
    BY <1>1, <2>1, EmptyFacts
  <2>. QED
    BY <2>1, <2>2, <2>3
<1>3. /\ row \in SessionRow /\ row.status = session[s].status
      /\ row.created_by = session[s].created_by /\ row.schema_edited_by = p
      /\ row.schema_edited_at = edits + 1
      /\ row.approved_by = session[s].approved_by /\ row.run_id = session[s].run_id
  <2>1. session[s] \in SessionRow /\ edits + 1 \in 0..MaxEdits
    BY <1>0, <1>1, <1>2
  <2>2. ASSUME NEW n \in 0..MaxEdits
        PROVE  LET w == [session[s] EXCEPT !.schema_edited_by = p, !.schema_edited_at = n] IN
               /\ w \in SessionRow /\ w.status = session[s].status
               /\ w.created_by = session[s].created_by /\ w.schema_edited_by = p
               /\ w.schema_edited_at = n
               /\ w.approved_by = session[s].approved_by /\ w.run_id = session[s].run_id
    <3>. HIDE DEF s, p
    <3>1. session[s] \in SessionRow /\ p \in Principals \cup {NoOne}
      BY <1>0, <2>1
    <3>. QED
      BY <3>1 DEF SessionRow
  <2>. QED
    BY <2>1, <2>2, Zenon
<1>4. bytes \in Payloads /\ bytes.by = p /\ bytes.n = edits + 1 /\ bytes # NoPayload
  <2>1. edits + 1 \in 0..(MaxEdits + 1)
    BY <1>0, <1>2
  <2>. QED
    BY <1>0, <1>1, <2>1 DEF Payloads, NoPayload
<1>5. /\ kept \in [Kinds -> Payloads]
      /\ \A k \in Kinds : kept[k].by = NoOne
      /\ \A k \in written : kept[k] # NoPayload
      /\ \A k \in Kinds \ written : kept[k] = drafted[s][k]
  <2>1. ASSUME NEW k \in Kinds
        PROVE  /\ artifact[s][k] \in Payloads /\ drafted[s][k] \in Payloads
               /\ drafted[s][k].by = NoOne
               /\ artifact[s][k].by # NoOne => drafted[s][k] # NoPayload
    BY <1>0, <1>1 DEF SessionInv
  <2>2. ASSUME NEW k \in written
        PROVE  /\ RetainOriginal(s, k) \in Payloads /\ RetainOriginal(s, k) # NoPayload
               /\ RetainOriginal(s, k).by = NoOne
    <3>1. k \in Kinds /\ artifact[s][k] # NoPayload
      BY <1>2
    <3>. QED
      BY <2>1, <3>1 DEF RetainOriginal
  <2>. HIDE DEF written, s
  <2>. QED
    BY <1>2, <2>1, <2>2
<1>6. /\ new \in [Kinds -> Payloads] /\ new["schema"] = bytes
      /\ \A k \in written : new[k] = bytes
      /\ \A k \in Kinds \ written : new[k] = artifact[s][k]
  BY <1>0, <1>1, <1>2, <1>4
<1>. HIDE DEF s, p, row, bytes, written, kept, new
<1>7. /\ session'[s] = row /\ artifact'[s] = new /\ drafted'[s] = kept
      /\ \A o \in Sessions \ {s} : /\ session'[o] = session[o] /\ artifact'[o] = artifact[o]
                                    /\ drafted'[o] = drafted[o]
  BY <1>0, <1>1, <1>2
<1>a. TypeOK'
  <2>1. edits' \in 0..MaxEdits
    BY <1>0, <1>2
  <2>. QED
    BY <1>0, <1>1, <1>2, <1>3, <1>5, <1>6, <2>1 DEF IInv, TypeOK, OtherRequests
<1>b. ASSUME NEW o \in Sessions PROVE SessionInv(o)' /\ RunInv(o)'
  <2>0. SessionInv(o) /\ RunInv(o)
    BY DEF IInv
  <2>1. SessionInv(o)'
    <3>1. CASE o = s
      <4>1. ASSUME NEW k \in Kinds
            PROVE  /\ kept[k].by = NoOne
                   /\ new[k].by # NoOne =>
                         /\ kept[k] # NoPayload
                         /\ new[k].n <= edits + 1
                         /\ new[k].n = edits + 1 => new[k].by = p
        <5>1. CASE k \in written
          BY <1>0, <1>4, <1>5, <1>6, <5>1
        <5>2. CASE k \notin written
          <6>1. new[k] = artifact[s][k] /\ kept[k] = drafted[s][k] /\ kept[k].by = NoOne
            BY <1>5, <1>6, <5>2
          <6>2. artifact[s][k].by # NoOne =>
                    drafted[s][k] # NoPayload /\ artifact[s][k].n <= session[s].schema_edited_at
            BY <1>1 DEF SessionInv
          <6>3. /\ session[s].schema_edited_at <= edits /\ session[s].schema_edited_at \in Nat
                /\ artifact[s][k].n \in Nat /\ edits \in Nat
            <7>1. session[s] \in SessionRow /\ artifact[s][k] \in Payloads
              BY <1>0, <1>1
            <7>. QED
              BY <1>0, <1>1, <7>1 DEF SessionInv, SessionRow, Payloads
          <6>. QED
            BY <6>1, <6>2, <6>3
        <5>. QED
          BY <5>1, <5>2
      <4>2. /\ RowAllowed(session'[s])
            /\ session'[s].status = session[s].status /\ session'[s].approved_by = session[s].approved_by
            /\ session'[s].schema_edited_at = edits' /\ edits' = edits + 1 /\ edits' <= edits'
            /\ session'[s].schema_edited_by = p /\ artifact'[s]["schema"].by = p
        BY <1>0, <1>2, <1>3, <1>4, <1>6, <1>7
      <4>3. ASSUME NEW k \in Kinds
            PROVE  /\ drafted'[s][k].by = NoOne
                   /\ artifact'[s][k].by # NoOne =>
                         /\ drafted'[s][k] # NoPayload
                         /\ artifact'[s][k].n <= session'[s].schema_edited_at
                         /\ artifact'[s][k].n = session'[s].schema_edited_at =>
                               artifact'[s][k].by = session'[s].schema_edited_by
        BY <1>7, <4>1, <4>2
      <4>. QED
        BY <3>1, <1>1, <1>2, <4>2, <4>3 DEF SessionInv
    <3>2. CASE o # s
      <4>1. edits \in Nat /\ edits' = edits + 1 /\ session[o].schema_edited_at \in Nat
        <5>1. session[o] \in SessionRow
          BY <1>0
        <5>. QED
          BY <1>0, <1>2, <5>1 DEF SessionRow
      <4>2. session[o].schema_edited_at <= edits'
        BY <2>0, <4>1 DEF SessionInv
      <4>. QED
        BY <3>2, <2>0, <1>2, <1>7, <4>2 DEF SessionInv
    <3>. QED
      BY <3>1, <3>2
  <2>2. RunInv(o)'
    BY <2>0, <1>2, <1>3, <1>7 DEF RunInv
  <2>. QED
    BY <2>1, <2>2
<1>c. OneRunPerKey' /\ OneLive'
  BY <1>2, <1>3, <1>7 DEF IInv, OneRunPerKey, OneLive, Published
<1>d. ASSUME NEW w \in Workers PROVE JobInv(w)'
  BY <1>2, <1>3, <1>7 DEF IInv, JobInv
<1>e. ASSUME NEW x \in Requests PROVE RequestInv(x)'
  BY <1>2, <1>3, <1>4, <1>6, <1>7, EmptyFacts DEF IInv, RequestInv, OtherRequests
<1>. QED
  BY <1>a, <1>b, <1>c, <1>d, <1>e DEF IInv

(* approve is refused by the CHECKs for a maker of the taxonomy. *)
LEMMA ApprovePreserves ==
    ASSUME IInv, NEW q \in Requests, ApproveWrite(q)
    PROVE  IInv'
<1>. DEFINE s == req[q].s
            p == req[q].by
            row == [session[s] EXCEPT !.status = "approved", !.approved_by = p]
<1>. USE OnboardingAssumption
<1>0. /\ session \in [Sessions -> SessionRow] /\ req \in [Requests -> Ops]
      /\ p \in Principals \cup {NoOne}
  BY DEF IInv, TypeOK, Ops
<1>1. s \in Sessions /\ session[s].status = "draft_ready" /\ p # NoOne
  BY DEF ApproveWrite, IInv, RequestInv
<1>2. /\ RowAllowed(row)
      /\ session' = [session EXCEPT ![s] = row]
      /\ UNCHANGED <<artifact, drafted, run, job, edits>>
      /\ OtherRequests(q) /\ req'[q] = NoRequest
  BY <1>0, RequestMoves DEF ApproveWrite
<1>3. /\ row \in SessionRow /\ row.status = "approved"
      /\ row.created_by = session[s].created_by
      /\ row.schema_edited_by = session[s].schema_edited_by
      /\ row.schema_edited_at = session[s].schema_edited_at
      /\ row.approved_by = p /\ row.run_id = session[s].run_id
  <2>1. session[s] \in SessionRow
    BY <1>0, <1>1
  <2>. QED
    BY <1>0, <2>1, RowWrites
<1>. HIDE DEF s, p, row
<1>5. /\ session'[s] = row
      /\ \A o \in Sessions \ {s} : session'[o] = session[o]
  BY <1>0, <1>1, <1>2
<1>a. TypeOK'
  BY <1>0, <1>1, <1>2, <1>3 DEF IInv, TypeOK, OtherRequests
<1>b. ASSUME NEW o \in Sessions PROVE SessionInv(o)' /\ RunInv(o)'
  <2>0. SessionInv(o) /\ RunInv(o)
    BY DEF IInv
  <2>1. SessionInv(o)'
    <3>1. CASE o = s
      BY <3>1, <2>0, <1>1, <1>2, <1>3, <1>5 DEF SessionInv
    <3>2. CASE o # s
      BY <3>2, <2>0, <1>2, <1>5 DEF SessionInv
    <3>. QED
      BY <3>1, <3>2
  <2>2. RunInv(o)'
    BY <2>0, <1>1, <1>2, <1>3, <1>5 DEF RunInv
  <2>. QED
    BY <2>1, <2>2
<1>c. OneRunPerKey' /\ OneLive'
  BY <1>1, <1>2, <1>3, <1>5 DEF IInv, OneRunPerKey, OneLive, Published
<1>d. ASSUME NEW w \in Workers PROVE JobInv(w)'
  BY <1>1, <1>2, <1>3, <1>5 DEF IInv, JobInv
<1>e. ASSUME NEW x \in Requests PROVE RequestInv(x)'
  BY <1>1, <1>2, <1>3, <1>5, EmptyFacts DEF IInv, RequestInv, OtherRequests
<1>. QED
  BY <1>a, <1>b, <1>c, <1>d, <1>e DEF IInv

(* A delivery and the end of an attempt leave the session alone; a put comes from
   the engine (workload.run, put_artifact). *)
LEMMA DraftPreserves ==
    ASSUME IInv,
           \/ \E w \in Workers : \/ \E k \in Kinds : PutArtifact(w, k)
                               \/ \E s \in Sessions : Deliver(w, s)
           \/ \E s \in Sessions, status \in {"pending", "over"} : AttemptEnds(s, status)
    PROVE  IInv'
<1>. USE OnboardingAssumption
<1>0. /\ artifact \in [Sessions -> [Kinds -> Payloads]] /\ run \in [Sessions -> RunRow]
      /\ job \in [Workers -> Jobs]
  BY DEF IInv, TypeOK
<1>1. ASSUME NEW w \in Workers, NEW k \in Kinds, PutArtifact(w, k) PROVE IInv'
  <2>. DEFINE s == job[w].s
  <2>1. /\ s \in Sessions /\ session[s].status # "absent" /\ job[w] # Idle
    BY <1>1, EmptyFacts DEF PutArtifact, IInv, JobInv
  <2>2. /\ artifact' = [artifact EXCEPT ![s][k] = Captured]
        /\ job' = [job EXCEPT ![w].phase = k]
        /\ UNCHANGED <<session, drafted, run, req, edits>>
    BY <1>1 DEF PutArtifact
  <2>3. /\ job' \in [Workers -> Jobs] /\ job'[w].phase = k /\ job'[w].s = s
        /\ \A x \in Workers \ {w} : job'[x] = job[x]
    <3>1. [job[w] EXCEPT !.phase = k] \in Jobs
      BY <1>0 DEF Jobs
    <3>. QED
      BY <1>0, <2>2, <3>1 DEF Jobs
  <2>. HIDE DEF s
  <2>4. /\ artifact' \in [Sessions -> [Kinds -> Payloads]]
        /\ artifact'[s][k] = Captured
        /\ \A j \in Kinds \ {k} : artifact'[s][j] = artifact[s][j]
        /\ \A o \in Sessions \ {s} : artifact'[o] = artifact[o]
    <3>. DEFINE row == [artifact[s] EXCEPT ![k] = Captured]
    <3>1. row \in [Kinds -> Payloads] /\ row[k] = Captured
          /\ \A j \in Kinds \ {k} : row[j] = artifact[s][j]
      BY <1>0, <2>1, EmptyFacts
    <3>2. artifact' = [artifact EXCEPT ![s] = row]
      BY <2>2
    <3>. HIDE DEF row
    <3>. QED
      BY <1>0, <2>1, <3>1, <3>2
  <2>a. TypeOK'
    BY <1>0, <2>2, <2>3, <2>4 DEF IInv, TypeOK
  <2>b. ASSUME NEW o \in Sessions PROVE SessionInv(o)' /\ RunInv(o)'
    <3>0. SessionInv(o) /\ RunInv(o)
      BY DEF IInv
    <3>1. CASE o = s
      <4>1. artifact'[s]["schema"].by \in {NoOne, session[s].schema_edited_by}
        BY <3>0, <3>1, <2>4, EmptyFacts DEF SessionInv
      <4>2. ASSUME NEW j \in Kinds, artifact'[s][j].by # NoOne
            PROVE  artifact'[s][j] = artifact[s][j]
        BY <2>4, <4>2, EmptyFacts
      <4>. QED
        BY <3>0, <3>1, <2>1, <2>2, <4>1, <4>2 DEF SessionInv, RunInv
    <3>2. CASE o # s
      BY <3>0, <3>2, <2>2, <2>4 DEF SessionInv, RunInv
    <3>. QED
      BY <3>1, <3>2
  <2>c. OneRunPerKey' /\ OneLive'
    BY <2>2 DEF IInv, OneRunPerKey, OneLive, Published
  <2>d. ASSUME NEW x \in Workers PROVE JobInv(x)'
    <3>1. k # "idle"
      BY EmptyFacts
    <3>. QED
      BY <2>1, <2>2, <2>3, <3>1 DEF IInv, JobInv
  <2>e. ASSUME NEW q \in Requests PROVE RequestInv(q)'
    <3>1. ASSUME NEW o \in Sessions, artifact[o]["schema"] # NoPayload
          PROVE  artifact'[o]["schema"] # NoPayload
      BY <2>4, <3>1, EmptyFacts
    <3>. QED
      BY <2>2, <3>1 DEF IInv, RequestInv
  <2>. QED
    BY <2>a, <2>b, <2>c, <2>d, <2>e DEF IInv
<1>2. ASSUME NEW s \in Sessions, NEW row \in RunRow, run' = [run EXCEPT ![s] = row],
             row.key = run[s].key, row.status # "absent", run[s].status # "absent",
             row.status = "pending" => row.attempt < MaxAttempts,
             UNCHANGED <<session, artifact, drafted, req, edits>>,
             job' \in [Workers -> Jobs],
             \A w \in Workers : job'[w] # job[w] =>
                 /\ job'[w].phase = "draft"
                 /\ job'[w].s \in Sessions /\ session[job'[w].s].status = "drafting"
      PROVE  IInv'
  <2>1. run'[s] = row /\ \A o \in Sessions \ {s} : run'[o] = run[o]
    BY <1>0, <1>2
  <2>a. TypeOK'
    BY <1>0, <1>2 DEF IInv, TypeOK
  <2>b. ASSUME NEW o \in Sessions PROVE SessionInv(o)' /\ RunInv(o)'
    <3>0. SessionInv(o) /\ RunInv(o)
      BY DEF IInv
    <3>1. SessionInv(o)'
      BY <3>0, <1>2, <2>1, EmptyFacts DEF SessionInv
    <3>2. RunInv(o)'
      BY <3>0, <1>2, <2>1 DEF RunInv
    <3>. QED
      BY <3>1, <3>2
  <2>c. OneRunPerKey'
    BY <1>2, <2>1 DEF IInv, OneRunPerKey
  <2>d. OneLive'
    BY <1>2 DEF IInv, OneLive, Published
  <2>e. ASSUME NEW w \in Workers PROVE JobInv(w)'
    BY <1>2 DEF IInv, JobInv
  <2>f. ASSUME NEW q \in Requests PROVE RequestInv(q)'
    <3>1. RequestInv(q) /\ req[q].seen \subseteq Sessions
      BY DEF IInv, TypeOK, Ops
    <3>. QED
      BY <3>1, <1>2, <2>1 DEF RequestInv
  <2>. QED
    BY <2>a, <2>b, <2>c, <2>d, <2>e, <2>f DEF IInv
<1>3. ASSUME NEW w \in Workers, NEW s \in Sessions, Deliver(w, s) PROVE IInv'
  <2>. DEFINE row == [run[s] EXCEPT !.status = "running", !.attempt = @ + 1]
              draft == [phase |-> "draft", s |-> s]
  <2>1. run[s] \in RunRow /\ run[s].status = "pending" /\ run[s].attempt < MaxAttempts
    BY <1>0, <1>3 DEF Deliver, IInv, RunInv
  <2>2. row \in RunRow /\ row.key = run[s].key /\ row.status = "running"
    <3>1. ASSUME NEW old \in RunRow, NEW n \in 0..MaxAttempts
          PROVE  LET new == [old EXCEPT !.status = "running", !.attempt = n]
                 IN  new \in RunRow /\ new.key = old.key /\ new.status = "running"
      BY DEF RunRow
    <3>2. run[s].attempt + 1 \in 0..MaxAttempts
      BY <2>1 DEF RunRow
    <3>. QED
      BY <2>1, <3>1, <3>2
  <2>3. draft \in Jobs
    BY DEF Jobs
  <2>4. /\ run' = [run EXCEPT ![s] = row]
        /\ job' = [job EXCEPT ![w] = IF NothingToDraft(session[s]) THEN Idle ELSE draft]
        /\ job[w] = Idle
        /\ UNCHANGED <<session, artifact, drafted, req, edits>>
    BY <1>3 DEF Deliver
  <2>5. draft.phase = "draft" /\ draft.s = s
    OBVIOUS
  <2>. HIDE DEF row, draft
  <2>6. job' \in [Workers -> Jobs]
    BY <1>0, <2>3, <2>4, EmptyFacts
  <2>7. ASSUME NEW x \in Workers, job'[x] # job[x]
        PROVE  /\ job'[x].phase = "draft"
               /\ job'[x].s \in Sessions /\ session[job'[x].s].status = "drafting"
    BY <1>0, <2>4, <2>5, <2>7 DEF NothingToDraft
  <2>. QED
    <3>1. /\ row.status # "absent" /\ run[s].status # "absent"
          /\ row.status = "pending" => row.attempt < MaxAttempts
      BY <2>1, <2>2
    <3>. QED
      BY <1>2, <2>2, <2>4, <2>6, <2>7, <3>1
<1>4. ASSUME NEW s \in Sessions, NEW status \in {"pending", "over"}, AttemptEnds(s, status)
      PROVE  IInv'
  <2>. DEFINE row == [run[s] EXCEPT !.status = status]
  <2>1. run[s] \in RunRow /\ run[s].status = "running"
    BY <1>0, <1>4 DEF AttemptEnds
  <2>2. /\ row \in RunRow /\ row.key = run[s].key /\ row.status = status
        /\ row.attempt = run[s].attempt
    BY <2>1 DEF RunRow
  <2>3. /\ run' = [run EXCEPT ![s] = row]
        /\ status = "pending" => run[s].attempt < MaxAttempts
        /\ UNCHANGED <<session, artifact, drafted, job, req, edits>>
    BY <1>4 DEF AttemptEnds
  <2>. HIDE DEF row
  <2>. QED
    BY <1>0, <1>2, <2>1, <2>2, <2>3
<1>. QED
  BY <1>1, <1>3, <1>4

-----------------------------------------------------------------------------
(* The invariant is inductive. *)
LEMMA Inductive ==
    ASSUME IInv, [Next]_vars
    PROVE  IInv'
<1>1. ASSUME NEW q \in Requests, Request(q) PROVE IInv'
  BY <1>1, ReadsPreserve, EditPreserves, ApprovePreserves, PublishPreserves, StartPreserves
     DEF Request
<1>2. ASSUME NEW w \in Workers, Works(w) PROVE IInv'
  BY <1>2, DraftPreserves, SetStatusPreserves DEF Works
<1>3. CASE \E s \in Sessions : CancelSession(s)
  BY <1>3, SetStatusPreserves
<1>4. CASE \E s \in Sessions, status \in {"pending", "over"} : AttemptEnds(s, status)
  BY <1>4, DraftPreserves
<1>5. CASE UNCHANGED vars
  BY <1>5 DEF vars, IInv, TypeOK, SessionInv, RunInv, OneRunPerKey, JobInv,
              RequestInv, OneLive, Published
<1>. QED
  BY <1>1, <1>2, <1>3, <1>4, <1>5 DEF Next

(* Every state of the onboarding of a domain satisfies the inductive invariant. *)
THEOREM InvariantHolds == Spec => []IInv
<1>1. Init => IInv
  <2>. SUFFICES ASSUME Init PROVE IInv
    OBVIOUS
  <2>. USE OnboardingAssumption, EmptyFacts
  <2>1. TypeOK
    BY DEF Init, TypeOK
  <2>2. ASSUME NEW s \in Sessions PROVE SessionInv(s) /\ RunInv(s)
    <3>1. 0 <= 0
      OBVIOUS
    <3>. QED
      BY <3>1 DEF Init, SessionInv, RunInv, RowAllowed, Live
  <2>3. OneRunPerKey /\ OneLive
    BY DEF Init, OneRunPerKey, OneLive, Published
  <2>4. /\ \A w \in Workers : JobInv(w)
        /\ \A q \in Requests : RequestInv(q)
    BY DEF Init, JobInv, RequestInv
  <2>. QED
    BY <2>1, <2>2, <2>3, <2>4 DEF IInv
<1>2. IInv /\ [Next]_vars => IInv'
  BY Inductive
<1>. QED
  BY <1>1, <1>2, PTL DEF Spec

(* Rows, artifacts, runs, jobs and requests keep to their shapes; no run uses
   more attempts than it has. *)
THEOREM TypeCorrect == Spec => []TypeOK
<1>1. IInv => TypeOK
  BY DEF IInv
<1>. QED
  BY <1>1, InvariantHolds, PTL

(* Whoever approved a session neither started it nor wrote the schema in force,
   has a table of their own in force only behind another's later edit, and beside
   a person's payload the drafter's is kept. *)
THEOREM MakerNeverChecks == Spec => []MakerIsNotChecker
<1>1. IInv => MakerIsNotChecker
  <2>1. SUFFICES ASSUME IInv, NEW s \in Sessions
        PROVE  /\ session[s].status \in {"approved", "published"} =>
                     /\ session[s].approved_by \notin {session[s].created_by, NoOne}
                     /\ artifact[s]["schema"].by # session[s].approved_by
                     /\ artifact[s]["instance_table"].by = session[s].approved_by =>
                           /\ session[s].schema_edited_by # artifact[s]["instance_table"].by
                           /\ session[s].schema_edited_at > artifact[s]["instance_table"].n
               /\ \A k \in Kinds : artifact[s][k].by # NoOne =>
                     drafted[s][k] # NoPayload /\ drafted[s][k].by = NoOne
    BY DEF MakerIsNotChecker
  <2>2. SessionInv(s)
    BY <2>1 DEF IInv
  <2>3. \A k \in Kinds : artifact[s][k].by # NoOne =>
            drafted[s][k] # NoPayload /\ drafted[s][k].by = NoOne
    BY <2>2 DEF SessionInv
  <2>4. ASSUME session[s].status \in Live
        PROVE  /\ session[s].approved_by \notin {session[s].created_by, NoOne}
               /\ session[s].schema_edited_by # session[s].approved_by
               /\ artifact[s]["schema"].by # session[s].approved_by
    BY <2>2, <2>4 DEF SessionInv, RowAllowed
  <2>5. ASSUME session[s].status \in Live,
               artifact[s]["instance_table"].by = session[s].approved_by
        PROVE  session[s].schema_edited_at > artifact[s]["instance_table"].n
    <3>1. session[s] \in SessionRow /\ artifact[s]["instance_table"] \in Payloads
      BY <2>1, EmptyFacts DEF IInv, TypeOK
    <3>2. session[s].schema_edited_at \in Nat /\ artifact[s]["instance_table"].n \in Nat
      BY <3>1 DEF SessionRow, Payloads
    <3>3. /\ artifact[s]["instance_table"].n <= session[s].schema_edited_at
          /\ artifact[s]["instance_table"].n # session[s].schema_edited_at
      BY <2>2, <2>4, <2>5, EmptyFacts DEF SessionInv
    <3>. QED
      BY <3>2, <3>3
  <2>. QED
    BY <2>3, <2>4, <2>5 DEF Live
<1>. QED
  BY <1>1, InvariantHolds, PTL

(* A set without two different members has at most one. *)
LEMMA AtMostOne ==
    ASSUME NEW S, \A x, y \in S : x = y
    PROVE  Cardinality(S) <= 1
<1>1. CASE S = {}
  BY <1>1, FS_EmptySet
<1>2. CASE S # {}
  <2>1. PICK x : x \in S
    BY <1>2
  <2>2. S = {x}
    BY <2>1
  <2>. QED
    BY <2>2, FS_Singleton
<1>. QED
  BY <1>1, <1>2

(* One idempotency key, one run, and every session has its run. *)
THEOREM OneRunForAKey == Spec => []KeyAdmitsOnce
<1>1. IInv => KeyAdmitsOnce
  <2>. SUFFICES ASSUME IInv PROVE KeyAdmitsOnce
    OBVIOUS
  <2>1. ASSUME NEW key \in Keys PROVE Cardinality(Holders(key)) <= 1
    <3>1. \A r1, r2 \in Holders(key) : r1 = r2
      BY OnboardingAssumption DEF IInv, OneRunPerKey, Holders
    <3>. QED
      BY <3>1, AtMostOne
  <2>2. ASSUME NEW s \in Sessions, session[s].status # "absent"
        PROVE  run[session[s].run_id].status # "absent"
    BY <2>2 DEF IInv, RunInv
  <2>. QED
    BY <2>1, <2>2 DEF KeyAdmitsOnce
<1>. QED
  BY <1>1, InvariantHolds, PTL

(* A step that takes the live taxonomy down is that of a drafter that was still
   at work on it. *)
LEMMA LiveStays ==
    ASSUME IInv, [Next]_vars, Published # {}
    PROVE  Published' # {} \/ \E w \in Workers : job[w].s \in Published
<1>. USE OnboardingAssumption
<1>0. session \in [Sessions -> SessionRow]
  BY DEF IInv, TypeOK
<1>1. PICK live \in Sessions : session[live].status = "published"
  BY DEF Published
<1>2. ASSUME NEW s \in Sessions, session[s].status # "published", NEW row,
             session' = [session EXCEPT ![s] = row]
      PROVE  Published' # {}
  <2>1. session'[live] = session[live]
    BY <1>0, <1>1, <1>2
  <2>. QED
    BY <1>1, <2>1 DEF Published
<1>3. ASSUME session' = session PROVE Published' # {}
  BY <1>3 DEF Published
<1>4. ASSUME NEW q \in Requests, Request(q) PROVE Published' # {}
  <2>1. CASE PublishWrite(q)
    BY <2>1, PublishPreserves
  <2>2. CASE ApproveWrite(q)
    <3>1. req[q].s \in Sessions /\ session[req[q].s].status = "draft_ready"
      BY <2>2 DEF ApproveWrite, IInv, RequestInv
    <3>. QED
      BY <1>2, <2>2, <3>1 DEF ApproveWrite
  <2>3. ASSUME NEW s \in Sessions, StartWrite(q, s) PROVE Published' # {}
    BY <1>2, <2>3 DEF StartWrite
  <2>4. ASSUME NEW retype \in BOOLEAN, EditWrite(q, retype) PROVE Published' # {}
    <3>. DEFINE s == req[q].s
                row == [session[s] EXCEPT !.schema_edited_by = req[q].by,
                                          !.schema_edited_at = edits + 1]
    <3>1. s \in Sessions /\ session' = [session EXCEPT ![s] = row]
      BY <2>4 DEF EditWrite, IInv, RequestInv
    <3>2. row.status = session[s].status
      BY <1>0, <3>1 DEF SessionRow
    <3>. HIDE DEF s, row
    <3>3. session'[live].status = "published"
      BY <1>0, <1>1, <3>1, <3>2
    <3>. QED
      BY <3>3 DEF Published
  <2>. QED
    BY <1>3, <1>4, <2>1, <2>2, <2>3, <2>4
       DEF Request, Fails, StartRead, EditRead, ApproveRead, PublishRead, Read
<1>5. ASSUME NEW w \in Workers, Works(w)
      PROVE  Published' # {} \/ job[w].s \in Published
  <2>1. CASE DraftReady(w) \/ DraftFails(w)
    <3>1. PICK st : session' = [session EXCEPT ![job[w].s].status = st]
      BY <2>1 DEF DraftReady, DraftFails, SetStatus
    <3>2. CASE job[w].s = live
      BY <1>1, <3>2 DEF Published
    <3>3. CASE job[w].s # live
      <4>1. session'[live] = session[live]
        BY <1>0, <1>1, <3>1, <3>3
      <4>. QED
        BY <1>1, <4>1 DEF Published
    <3>. QED
      BY <3>2, <3>3
  <2>. QED
    BY <1>3, <1>5, <2>1 DEF Works, Deliver, PutArtifact, Crash
<1>6. ASSUME NEW s \in Sessions, CancelSession(s) PROVE Published' # {}
  <2>1. session' = [session EXCEPT ![s].status = "cancelled"] /\ session[s].status # "published"
    BY <1>6 DEF CancelSession
  <2>2. session'[live] = session[live]
    BY <1>0, <1>1, <2>1
  <2>. QED
    BY <1>1, <2>2 DEF Published
<1>7. CASE \E s \in Sessions, status \in {"pending", "over"} : AttemptEnds(s, status)
  BY <1>3, <1>7 DEF AttemptEnds
<1>8. CASE UNCHANGED vars
  BY <1>3, <1>8 DEF vars
<1>. QED
  BY <1>4, <1>5, <1>6, <1>7, <1>8 DEF Next

(* At most one taxonomy of the domain is live, and only a draft that outlived its
   run can take it down. *)
THEOREM LiveTaxonomyIsOne == Spec => OneLiveTaxonomy
<1>1. IInv => Cardinality(Published) <= 1
  BY AtMostOne DEF IInv, OneLive
<1>2. IInv /\ [Next]_vars =>
         [Published # {} => \/ Published' # {}
                            \/ \E w \in Workers : job[w].s \in Published]_vars
  BY LiveStays
<1>3. Spec => [](Cardinality(Published) <= 1)
  BY <1>1, InvariantHolds, PTL
<1>4. Spec => [][Published # {} => \/ Published' # {}
                                   \/ \E w \in Workers : job[w].s \in Published]_vars
  BY <1>2, InvariantHolds, PTL DEF Spec
<1>. QED
  BY <1>3, <1>4, PTL DEF OneLiveTaxonomy
=============================================================================

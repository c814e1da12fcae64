----------------------------- MODULE AuditChain -----------------------------
(***************************************************************************)
(* One tenant's audit chain: appending (observability/audit.py), retention *)
(* that deletes the oldest events behind an anchor                         *)
(* (platform_enforce_retention, migration 0023, called by every sweep),    *)
(* and verification.                                                       *)
(*                                                                         *)
(* An event stands for its digest, which covers its content and prev_hash: *)
(* digests are taken to be collision-free, so the id can serve as the hash *)
(* and 0 as "no predecessor".  `at` is now(), the time the transaction     *)
(* began, which is before it has the advisory lock.  Retention does not    *)
(* take that lock, nor any other against a second pass; its anchor and its *)
(* DELETE commit together.                                                 *)
(***************************************************************************)
EXTENDS Naturals, FiniteSetsExt

CONSTANTS Writers,    \* transactions that append
          Sweeps,     \* sweeps that may overlap
          Readers,    \* requests that verify
          Batch,      \* p_audit_batch
          MaxEvents   \* bound: events

ASSUME AuditChainAssumption == Batch \in Nat \ {0} /\ MaxEvents \in Nat \ {0}

Ids == 1..MaxEvents

VARIABLES event,    \* table audit_event, and what has been deleted from it
          anchor,   \* audit_chain_anchor; id 0: no row
          writer,   \* each appending transaction
          lock,     \* writers that have the advisory lock
          clock,    \* transactions begun so far, to order their `at`
          cutoff,   \* `at` up to here is older than audit_retention_days
          sweep,    \* each retention pass: the boundary it has read, or 0
          late,     \* history: the pass that set the anchor was overtaken by another
          reader    \* each verification: the anchor it has read, its report

chainVars == <<event, anchor, writer, lock, clock, cutoff, sweep, late, reader>>

Anchors == [id : 0..MaxEvents, hash : 0..MaxEvents]
NoAnchor == [id |-> 0, hash |-> 0]

Event == [status : {"none", "kept", "deleted"}, at : Nat, prev : 0..MaxEvents]
Appending == [phase : {"idle", "begun", "locked", "linked"}, at : Nat, prev : 0..MaxEvents]
Verifying == [phase : {"idle", "reading", "intact", "broken"}, anchor : Anchors]

(* Events, transactions and passes keep to their shapes, and retention's cutoff
   never runs ahead of the clock. *)
ChainTypeOK ==
    /\ event \in [Ids -> Event]
    /\ anchor \in Anchors
    /\ writer \in [Writers -> Appending]
    /\ lock \subseteq Writers
    /\ clock \in Nat /\ cutoff \in 0..clock
    /\ sweep \in [Sweeps -> 0..MaxEvents] /\ late \in BOOLEAN
    /\ reader \in [Readers -> Verifying]

NoEvent == [status |-> "none", at |-> 0, prev |-> 0]
NoAppend == [phase |-> "idle", at |-> 0, prev |-> 0]
NoPass == 0

ChainInit ==
    /\ event = [i \in Ids |-> NoEvent]
    /\ anchor = NoAnchor
    /\ writer = [w \in Writers |-> NoAppend]
    /\ lock = {}
    /\ clock = 0 /\ cutoff = 0
    /\ sweep = [s \in Sweeps |-> NoPass] /\ late = FALSE
    /\ reader = [r \in Readers |-> [phase |-> "idle", anchor |-> NoAnchor]]

Kept == {i \in Ids : event[i].status = "kept"}
Written == {i \in Ids : event[i].status # "none"}

-----------------------------------------------------------------------------
(* append_in_session and record.                                           *)
Begin(w) ==
    /\ writer[w].phase = "idle"
    /\ clock < MaxEvents
    /\ clock' = clock + 1
    /\ writer' = [writer EXCEPT ![w] = [phase |-> "begun", at |-> clock', prev |-> 0]]
    /\ UNCHANGED <<event, anchor, lock, cutoff, sweep, late, reader>>

\* pg_advisory_xact_lock of the tenant.
LockFree == lock = {}

Lock(w) ==
    /\ writer[w].phase = "begun"
    /\ LockFree
    /\ lock' = lock \cup {w}
    /\ writer' = [writer EXCEPT ![w].phase = "locked"]
    /\ UNCHANGED <<event, anchor, clock, cutoff, sweep, late, reader>>

PrevWithoutAnchor == IF Kept = {} THEN 0 ELSE Max(Kept)

\* The newest event's hash, else the anchor's.
Prev == IF Kept = {} THEN anchor.hash ELSE Max(Kept)

Link(w) ==
    /\ writer[w].phase = "locked"
    /\ writer' = [writer EXCEPT ![w].phase = "linked", ![w].prev = Prev]
    /\ UNCHANGED <<event, anchor, lock, clock, cutoff, sweep, late, reader>>

\* The INSERT, and the commit that shows it and frees the lock.
AppendEvent(w) ==
    LET id == Max(Written \cup {0}) + 1 IN
    /\ writer[w].phase = "linked"
    /\ event' = [event EXCEPT ![id] = [status |-> "kept", at |-> writer[w].at,
                                       prev |-> writer[w].prev]]
    /\ lock' = lock \ {w}
    /\ writer' = [writer EXCEPT ![w] = NoAppend]
    /\ UNCHANGED <<anchor, clock, cutoff, sweep, late, reader>>

\* The caller's transaction is rolled back, or the INSERT fails.
Rollback(w) ==
    /\ writer[w].phase # "idle"
    /\ lock' = lock \ {w}
    /\ writer' = [writer EXCEPT ![w] = NoAppend]
    /\ UNCHANGED <<event, anchor, clock, cutoff, sweep, late, reader>>

-----------------------------------------------------------------------------
(* platform_enforce_retention.                                             *)
\* No transaction stays open for the retention period.
Ages ==
    /\ cutoff < clock
    /\ \A w \in Writers : writer[w].phase # "idle" => writer[w].at > cutoff + 1
    /\ cutoff' = cutoff + 1
    /\ UNCHANGED <<event, anchor, writer, lock, clock, sweep, late, reader>>

\* The oldest Batch events past retention, by id.
Candidates == {i \in Kept : event[i].at <= cutoff}

Oldest == {i \in Candidates : Cardinality({j \in Candidates : j <= i}) <= Batch}

RetentionReads(s) ==
    /\ sweep[s] = NoPass
    /\ Oldest # {}
    /\ sweep' = [sweep EXCEPT ![s] = Max(Oldest)]
    /\ UNCHANGED <<event, anchor, writer, lock, clock, cutoff, late, reader>>

\* INSERT ... ON CONFLICT DO UPDATE.
Anchored(i) == [id |-> i, hash |-> i]

\* DELETE ... WHERE id <= boundary.
Deleted(i) ==
    [j \in Ids |-> IF j \in Kept /\ j <= i THEN [event[j] EXCEPT !.status = "deleted"]
                                          ELSE event[j]]

RetentionDeletes(s) ==
    /\ sweep[s] # NoPass
    /\ anchor' = Anchored(sweep[s])
    /\ event' = Deleted(sweep[s])
    /\ late' = (sweep[s] \notin Kept)
    /\ sweep' = [sweep EXCEPT ![s] = NoPass]
    /\ UNCHANGED <<writer, lock, clock, cutoff, reader>>

RetentionFails(s) ==
    /\ sweep[s] # NoPass
    /\ sweep' = [sweep EXCEPT ![s] = NoPass]
    /\ UNCHANGED <<event, anchor, writer, lock, clock, cutoff, late, reader>>

-----------------------------------------------------------------------------
(* verify_chain: the anchor, then the rows, in two statements.             *)
IntactFromTheStart(a) ==
    \A i \in Kept :
        LET before == {j \in Kept : j < i} IN event[i].prev = Max(before \cup {0})

Intact(a) ==
    \A i \in Kept :
        LET before == {j \in Kept : j < i} IN
        /\ i > a.id
        /\ event[i].prev = IF before = {} THEN a.hash ELSE Max(before)

VerifyReadsAnchor(r) ==
    /\ reader[r].phase = "idle"
    /\ reader' = [reader EXCEPT ![r] = [phase |-> "reading", anchor |-> anchor]]
    /\ UNCHANGED <<event, anchor, writer, lock, clock, cutoff, sweep, late>>

VerifyReadsRows(r) ==
    /\ reader[r].phase = "reading"
    /\ reader' = [reader EXCEPT ![r].phase = IF Intact(reader[r].anchor) THEN "intact"
                                                                        ELSE "broken"]
    /\ UNCHANGED <<event, anchor, writer, lock, clock, cutoff, sweep, late>>

VerifyDone(r) ==
    /\ reader[r].phase \in {"intact", "broken"}
    /\ reader' = [reader EXCEPT ![r] = [phase |-> "idle", anchor |-> NoAnchor]]
    /\ UNCHANGED <<event, anchor, writer, lock, clock, cutoff, sweep, late>>

ChainNext ==
    \/ \E w \in Writers : Begin(w) \/ Lock(w) \/ Link(w) \/ AppendEvent(w) \/ Rollback(w)
    \/ Ages
    \/ \E s \in Sweeps : RetentionReads(s) \/ RetentionDeletes(s) \/ RetentionFails(s)
    \/ \E r \in Readers : VerifyReadsAnchor(r) \/ VerifyReadsRows(r) \/ VerifyDone(r)

ChainSpec == ChainInit /\ [][ChainNext]_chainVars

-----------------------------------------------------------------------------
Unforked ==
    \A i \in Kept : LET before == {j \in Kept : j < i} IN
                    before # {} => event[i].prev = Max(before)

(* The chain is never forked, whatever writers and retention do: every event names
   the newest one before it ("two events cannot claim the same predecessor and fork
   the chain", record).  And what is left verifies from the anchor ("retention does
   not turn tamper evidence off", platform_enforce_retention), until a pass commits
   whose boundary another pass had deleted already: that one moves the anchor off
   the end of what was deleted, and the next pass that deletes puts it right. *)
ChainVerifies == Unforked /\ (late \/ Intact(anchor))

(* verify_chain does not take what retention and writers do beside it for a row
   that "was inserted, removed or reordered": it reports a break of a sound chain
   only when a pass has moved the anchor between its two statements, or an overtaken
   pass set it. *)
NoFalseAlarm ==
    \A r \in Readers : reader[r].phase = "broken" => late \/ reader[r].anchor # anchor
=============================================================================

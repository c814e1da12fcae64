--------------------------- MODULE RunStoreProofs ---------------------------
(***************************************************************************)
(* What every statement of RunStore does to one row, once for all the      *)
(* modules that hold the table: it keeps the row's invariant, only acquire *)
(* starts an attempt, and seen on one row it is a step of RunLifecycle.    *)
(***************************************************************************)
EXTENDS RunStore, TLAPS

\* What holds of one row alone.
RowInv(row) ==
    /\ row.status = "absent" => row.attempt = 0 /\ row.result = 0
    /\ row.status = "succeeded" => row.result = row.attempt
    /\ row.cancel_requested => row.status \in {"leased", "cancelled"}
    /\ row.status = "cancelled" => row.cancel_requested
    /\ row.status = "pending" => row.attempt < MaxAttempts

-----------------------------------------------------------------------------
\* A write that starts no attempt: every lease statement but acquire.
Settles(old, new) ==
    /\ new \in Row
    /\ RowInv(new)
    /\ new.attempt = old.attempt
    /\ new.status = "leased" => old.status = "leased" /\ new.leased_by = old.leased_by
    /\ old.status # "absent" => new.status # "absent"

(* The row that enqueue_run inserts. *)
LEMMA AdmitFacts ==
    /\ AdmitRow \in Row /\ AdmitRow.status = "pending" /\ AdmitRow.attempt = 0
    /\ AdmitRow.cancel_requested = FALSE /\ AdmitRow.result = 0
<1>1. AbsentRow \in Row /\ AbsentRow.attempt = 0 /\ AbsentRow.cancel_requested = FALSE
        /\ AbsentRow.result = 0
  BY RunStoreAssumption DEF AbsentRow, Row, Statuses
<1>. QED
  BY <1>1 DEF AdmitRow, Row, Statuses

(* The rows written by the reaper, the cancel endpoint, a heartbeat and the
   clock are well formed, keep the attempt, and never hand the lease to
   somebody else (reap_expired, cancel_run, heartbeat). *)
LEMMA BystandersSettle ==
    ASSUME NEW row \in Row, RowInv(row)
    PROVE  /\ Settles(row, row)
           /\ Reapable(row) => Settles(row, ReapRow(row))
           /\ Cancellable(row) => Settles(row, CancelRow(row))
           /\ row.status = "leased" => Settles(row, HeartbeatRow(row))
           /\ LeaseRunsOut(row) => Settles(row, LeaseRunsOutRow(row))
           /\ BecomesDue(row) => Settles(row, BecomesDueRow(row))
<1>1. Settles(row, row)
  BY DEF Settles
<1>2. ASSUME Reapable(row) PROVE Settles(row, ReapRow(row))
  <2>1. CASE row.cancel_requested
    BY <1>2, <2>1 DEF Reapable, ReapRow, ClosedRow, Settles, RowInv, Row, Statuses, Terminal
  <2>2. CASE ~row.cancel_requested /\ row.attempt >= MaxAttempts
    BY <1>2, <2>2 DEF Reapable, ReapRow, ClosedRow, Settles, RowInv, Row, Statuses, Terminal
  <2>3. CASE ~row.cancel_requested /\ ~(row.attempt >= MaxAttempts)
    <3>1. ReapRow(row) = DelayedRow(row)
      BY <2>3 DEF ReapRow
    <3>2. row.attempt < MaxAttempts
      BY <2>3, RunStoreAssumption DEF Row
    <3>. QED
      BY <1>2, <2>3, <3>1, <3>2 DEF Reapable, DelayedRow, Settles, RowInv, Row, Statuses, Terminal
  <2>. QED
    BY <2>1, <2>2, <2>3
<1>3. ASSUME Cancellable(row) PROVE Settles(row, CancelRow(row))
  BY <1>3 DEF Cancellable, CancelRow, Settles, RowInv, Row, Statuses, Terminal
<1>4. ASSUME row.status = "leased" PROVE Settles(row, HeartbeatRow(row))
  BY <1>4 DEF HeartbeatRow, Settles, RowInv, Row, Statuses, Terminal
<1>5. ASSUME LeaseRunsOut(row) PROVE Settles(row, LeaseRunsOutRow(row))
  BY <1>5 DEF LeaseRunsOut, LeaseRunsOutRow, Settles, RowInv, Row, Statuses, Terminal
<1>6. ASSUME BecomesDue(row) PROVE Settles(row, BecomesDueRow(row))
  BY <1>6 DEF BecomesDue, BecomesDueRow, Settles, RowInv, Row, Statuses, Terminal
<1>. QED
  BY <1>1, <1>2, <1>3, <1>4, <1>5, <1>6

(* The same for what a lease holder writes (complete, fail,
   acknowledge_cancellation), provided that whoever passes the fence holds the
   current attempt. *)
LEMMA HolderSettles ==
    ASSUME NEW row \in Row, RowInv(row), NEW wid, NEW a \in 1..MaxAttempts,
           HeldBy(row, wid) => a = row.attempt
    PROVE  /\ CompleteHolds(row, wid) => Settles(row, CompleteRow(row, a))
           /\ \A t \in BOOLEAN : HeldBy(row, wid) => Settles(row, FailRow(row, FailTerminal(a, t)))
           /\ AckCancelHolds(row, wid) => Settles(row, AckCancelRow(row))
<1>1. ASSUME CompleteHolds(row, wid) PROVE Settles(row, CompleteRow(row, a))
  BY <1>1 DEF CompleteHolds, HeldBy, CompleteRow, Settles, RowInv, Row, Statuses, Terminal
<1>2. ASSUME NEW t \in BOOLEAN, HeldBy(row, wid)
      PROVE  Settles(row, FailRow(row, FailTerminal(a, t)))
  <2>1. CASE row.cancel_requested
    BY <1>2, <2>1 DEF HeldBy, FailRow, ClosedRow, Settles, RowInv, Row, Statuses, Terminal
  <2>2. CASE ~row.cancel_requested /\ FailTerminal(a, t)
    BY <1>2, <2>2 DEF HeldBy, FailRow, ClosedRow, Settles, RowInv, Row, Statuses, Terminal
  <2>3. CASE ~row.cancel_requested /\ ~FailTerminal(a, t)
    <3>1. FailRow(row, FailTerminal(a, t)) = DelayedRow(row)
      BY <2>3 DEF FailRow
    <3>2. row.attempt < MaxAttempts
      BY <1>2, <2>3, RunStoreAssumption DEF FailTerminal, Row
    <3>. QED
      BY <1>2, <2>3, <3>1, <3>2 DEF HeldBy, DelayedRow, Settles, RowInv, Row, Statuses, Terminal
  <2>. QED
    BY <2>1, <2>2, <2>3
<1>3. ASSUME AckCancelHolds(row, wid) PROVE Settles(row, AckCancelRow(row))
  BY <1>3 DEF AckCancelHolds, HeldBy, AckCancelRow, ClosedRow, Settles, RowInv, Row, Statuses, Terminal
<1>. QED
  BY <1>1, <1>2, <1>3

(* The row that acquire and acquire_specific write: leased, live, to the worker
   that asked, and one attempt further. *)
LEMMA LeaseFacts ==
    ASSUME NEW row \in Row, Available(row), NEW wid \in WorkerIds
    PROVE  /\ LeaseRow(row, wid) \in Row
           /\ RowInv(LeaseRow(row, wid))
           /\ row.attempt \in Nat
           /\ LeaseRow(row, wid).attempt = row.attempt + 1
           /\ LeaseRow(row, wid).status = "leased"
           /\ LeaseRow(row, wid).leased_by = wid
           /\ LeaseRow(row, wid).cancel_requested = FALSE
<1>1. row.attempt \in Nat /\ row.attempt < MaxAttempts /\ ~row.cancel_requested
  BY RunStoreAssumption DEF Available, Row
<1>2. row.attempt + 1 \in 0..MaxAttempts
  BY <1>1, RunStoreAssumption
<1>3. /\ LeaseRow(row, wid) \in Row
      /\ LeaseRow(row, wid).attempt = row.attempt + 1
      /\ LeaseRow(row, wid).status = "leased"
      /\ LeaseRow(row, wid).leased_by = wid
      /\ LeaseRow(row, wid).cancel_requested = FALSE
  BY <1>1, <1>2 DEF LeaseRow, Row, Statuses
<1>. QED
  BY <1>1, <1>3 DEF RowInv

-----------------------------------------------------------------------------
\* The steps of RunLifecycle seen on one row.
Same(old, new, fields) == \A f \in fields : new[f] = old[f]

Refines(old, new) ==
    \/ Same(old, new, {"status", "attempt", "cancel_requested", "result"})
    \/ /\ old.status = "absent" /\ new.status = "pending"
       /\ Same(old, new, {"attempt", "cancel_requested", "result"})
    \/ /\ old.status = "pending" /\ old.attempt < MaxAttempts
       /\ new.status = "leased" /\ new.attempt = old.attempt + 1
       /\ Same(old, new, {"cancel_requested", "result"})
    \/ /\ old.status = "leased" /\ ~old.cancel_requested /\ old.attempt < MaxAttempts
       /\ new.status = "pending"
       /\ Same(old, new, {"attempt", "cancel_requested", "result"})
    \/ /\ old.status = "leased" /\ ~old.cancel_requested
       /\ new.status = "succeeded" /\ new.result = old.attempt
       /\ Same(old, new, {"attempt", "cancel_requested"})
    \/ /\ old.status = "leased" /\ ~old.cancel_requested /\ new.status = "failed"
       /\ Same(old, new, {"attempt", "cancel_requested", "result"})
    \/ /\ old.status \in {"pending", "leased"} /\ new.cancel_requested = TRUE
       /\ new.status = (IF old.status = "pending" THEN "cancelled" ELSE old.status)
       /\ Same(old, new, {"attempt", "result"})
    \/ /\ old.status = "leased" /\ old.cancel_requested /\ new.status = "cancelled"
       /\ Same(old, new, {"attempt", "cancel_requested", "result"})

(* Every write of a row is a step of the lifecycle: of the reaper, the cancel
   endpoint, a heartbeat and the clock, ... *)
LEMMA BystandersRefine ==
    ASSUME NEW row \in Row, RowInv(row)
    PROVE  /\ Refines(row, row)
           /\ row.status = "absent" => Refines(row, AdmitRow)
           /\ Reapable(row) => Refines(row, ReapRow(row))
           /\ Cancellable(row) => Refines(row, CancelRow(row))
           /\ Refines(row, HeartbeatRow(row))
           /\ Refines(row, LeaseRunsOutRow(row))
           /\ Refines(row, BecomesDueRow(row))
<1>1. ASSUME row.status = "absent" PROVE Refines(row, AdmitRow)
  <2>1. /\ AdmitRow.status = "pending" /\ AdmitRow.attempt = 0
        /\ AdmitRow.cancel_requested = FALSE /\ AdmitRow.result = 0
    BY AdmitFacts
  <2>2. row.cancel_requested = FALSE /\ row.attempt = 0 /\ row.result = 0
    BY <1>1 DEF RowInv, Row
  <2>. QED
    BY <1>1, <2>1, <2>2 DEF Refines, Same
<1>2. ASSUME Reapable(row) PROVE Refines(row, ReapRow(row))
  <2>1. CASE row.cancel_requested
    BY <1>2, <2>1 DEF Reapable, ReapRow, ClosedRow, Refines, Same, Row
  <2>2. CASE ~row.cancel_requested /\ row.attempt >= MaxAttempts
    BY <1>2, <2>2 DEF Reapable, ReapRow, ClosedRow, Refines, Same, Row
  <2>3. CASE ~row.cancel_requested /\ ~(row.attempt >= MaxAttempts)
    <3>1. ReapRow(row) = DelayedRow(row)
      BY <2>3 DEF ReapRow
    <3>2. row.attempt < MaxAttempts
      BY <2>3, RunStoreAssumption DEF Row
    <3>. QED
      BY <1>2, <2>3, <3>1, <3>2 DEF Reapable, DelayedRow, Refines, Same, Row
  <2>. QED
    BY <2>1, <2>2, <2>3
<1>3. ASSUME Cancellable(row) PROVE Refines(row, CancelRow(row))
  <2>1. CASE row.status = "cancelled"
    BY <2>1 DEF CancelRow, Refines, Same, Row, RowInv
  <2>2. CASE row.status \in {"pending", "leased"}
    BY <2>2 DEF CancelRow, Refines, Same, Row
  <2>. QED
    BY <1>3, <2>1, <2>2 DEF Cancellable
<1>4. Refines(row, HeartbeatRow(row))
  BY DEF HeartbeatRow, Refines, Same, Row
<1>5. Refines(row, LeaseRunsOutRow(row))
  BY DEF LeaseRunsOutRow, Refines, Same, Row
<1>6. Refines(row, BecomesDueRow(row))
  BY DEF BecomesDueRow, Refines, Same, Row
<1>7. Refines(row, row)
  BY DEF Refines, Same
<1>. QED
  BY <1>7, <1>1, <1>2, <1>3, <1>4, <1>5, <1>6

(* ... and of the lease holder. *)
LEMMA HolderRefines ==
    ASSUME NEW row \in Row, RowInv(row), NEW wid, NEW a \in 1..MaxAttempts,
           HeldBy(row, wid) => a = row.attempt
    PROVE  /\ Available(row) => Refines(row, LeaseRow(row, wid))
           /\ CompleteHolds(row, wid) => Refines(row, CompleteRow(row, a))
           /\ \A t \in BOOLEAN : HeldBy(row, wid) => Refines(row, FailRow(row, FailTerminal(a, t)))
           /\ AckCancelHolds(row, wid) => Refines(row, AckCancelRow(row))
<1>1. ASSUME Available(row) PROVE Refines(row, LeaseRow(row, wid))
  BY <1>1 DEF Available, LeaseRow, Refines, Same, Row
<1>2. ASSUME CompleteHolds(row, wid) PROVE Refines(row, CompleteRow(row, a))
  BY <1>2 DEF CompleteHolds, HeldBy, CompleteRow, Refines, Same, Row
<1>3. ASSUME NEW t \in BOOLEAN, HeldBy(row, wid)
      PROVE  Refines(row, FailRow(row, FailTerminal(a, t)))
  <2>1. CASE row.cancel_requested
    BY <1>3, <2>1 DEF HeldBy, FailRow, ClosedRow, Refines, Same, Row
  <2>2. CASE ~row.cancel_requested /\ FailTerminal(a, t)
    BY <1>3, <2>2 DEF HeldBy, FailRow, ClosedRow, Refines, Same, Row
  <2>3. CASE ~row.cancel_requested /\ ~FailTerminal(a, t)
    <3>1. FailRow(row, FailTerminal(a, t)) = DelayedRow(row)
      BY <2>3 DEF FailRow
    <3>2. row.attempt < MaxAttempts
      BY <1>3, <2>3, RunStoreAssumption DEF FailTerminal, Row
    <3>. QED
      BY <1>3, <2>3, <3>1, <3>2 DEF HeldBy, DelayedRow, Refines, Same, Row
  <2>. QED
    BY <2>1, <2>2, <2>3
<1>4. ASSUME AckCancelHolds(row, wid) PROVE Refines(row, AckCancelRow(row))
  BY <1>4 DEF AckCancelHolds, HeldBy, AckCancelRow, ClosedRow, Refines, Same, Row
<1>. QED
  BY <1>1, <1>2, <1>3, <1>4
=============================================================================

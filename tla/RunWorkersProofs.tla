-------------------------- MODULE RunWorkersProofs --------------------------
(***************************************************************************)
(* Proofs about RunWorkers, for any sets of runs and workers and any       *)
(* number of attempts.                                                     *)
(*                                                                         *)
(* The safety properties are not inductive by themselves: that the fence   *)
(* lets only the latest attempt write follows from what a worker's         *)
(* LeasedRun has to do with the row, whatever became of the row since.     *)
(* IInv adds that (Remembered, FenceIsCurrent) and is inductive.           *)
(***************************************************************************)
EXTENDS RunWorkers, RunStoreProofs

\* A worker works from a LeasedRun exactly when it is not idle, and its
\* Heartbeater only runs then.
Engaged ==
    \A w \in Workers : /\ worker[w].phase = "idle" <=> worker[w].run = NoRun
                       /\ worker[w].phase = "idle" => beat[w] = "off"

\* The attempt a worker remembers was really started.
Remembered ==
    \A w \in Workers : worker[w].run # NoRun =>
        /\ run[worker[w].run].status # "absent"
        /\ worker[w].attempt \in 1..run[worker[w].run].attempt

\* A worker the fence lets through holds the row's current attempt.
FenceIsCurrent ==
    \A w \in Workers : worker[w].run # NoRun /\ HeldBy(run[worker[w].run], Wid(w))
        => worker[w].attempt = run[worker[w].run].attempt

IInv ==
    /\ TypeOK
    /\ \A r \in Runs : RowInv(run[r])
    /\ Engaged
    /\ Remembered
    /\ FenceIsCurrent
    /\ OneCurrentAttempt

-----------------------------------------------------------------------------
(* What the except branches of _execute_leased_body write is settled, and a step
   of the lifecycle, when whoever passes the fence holds the current attempt. *)
LEMMA CloseRowFacts ==
    ASSUME NEW row \in Row, RowInv(row), NEW wid, NEW a \in 1..MaxAttempts,
           HeldBy(row, wid) => a = row.attempt, NEW how \in Closings
    PROVE  /\ Settles(row, CloseRow(row, wid, a, how))
           /\ Refines(row, CloseRow(row, wid, a, how))
<1>1. Settles(row, row) /\ Refines(row, row)
  BY BystandersSettle, BystandersRefine
<1>2. CASE how = "cancelled"
  BY <1>1, <1>2, HolderSettles, HolderRefines DEF CloseRow
<1>3. CASE how # "cancelled"
  BY <1>1, <1>3, HolderSettles, HolderRefines DEF CloseRow
<1>. QED
  BY <1>2, <1>3

-----------------------------------------------------------------------------
\* A worker that lets go of its run, or keeps it under the same worker id.
KeepsOrLeaves(w) ==
    \/ /\ worker'[w].run = worker[w].run
       /\ worker'[w].attempt = worker[w].attempt
       /\ gen'[w] = gen[w]
    \/ worker'[w].run = NoRun

(* A step in which no run is leased keeps the invariant: rows only settle, and
   workers only keep or leave what they hold. *)
LEMMA QuietStep ==
    ASSUME IInv, TypeOK', Engaged',
           \A r \in Runs : Settles(run[r], run'[r]),
           \A w \in Workers : KeepsOrLeaves(w)
    PROVE  IInv'
<1>1. \A r \in Runs : RowInv(run[r])'
  BY DEF Settles, RowInv
<1>2. \A w \in Workers : worker'[w].run # NoRun =>
          /\ worker'[w].run = worker[w].run /\ worker'[w].run \in Runs
          /\ worker'[w].attempt = worker[w].attempt
          /\ Wid(w)' = Wid(w)
  BY DEF KeepsOrLeaves, TypeOK, Wid
<1>3. Remembered'
  BY <1>2 DEF IInv, Remembered, Settles
<1>4. FenceIsCurrent'
  <2> SUFFICES ASSUME NEW w \in Workers, worker'[w].run # NoRun,
                      HeldBy(run'[worker'[w].run], Wid(w)')
               PROVE  worker'[w].attempt = run'[worker'[w].run].attempt
    BY DEF FenceIsCurrent
  <2> DEFINE r == worker[w].run
  <2>1. r \in Runs /\ worker'[w].run = r /\ worker'[w].attempt = worker[w].attempt /\ r # NoRun
    BY <1>2
  <2>2. HeldBy(run[r], Wid(w)) /\ run'[r].attempt = run[r].attempt
    BY <1>2, <2>1 DEF HeldBy, Settles
  <2>. QED
    BY <2>1, <2>2 DEF IInv, FenceIsCurrent
<1>5. OneCurrentAttempt'
  BY <1>2 DEF IInv, OneCurrentAttempt
<1>. QED
  BY <1>1, <1>3, <1>4, <1>5 DEF IInv

(* Leasing a run keeps the invariant: the new attempt is higher than any that
   another worker remembers (acquire, acquire_specific). *)
LEMMA AcquireStep ==
    ASSUME IInv, NEW w \in Workers, NEW r \in Runs, Acquire(w, r)
    PROVE  IInv'
<1> DEFINE a == run[r].attempt + 1
<1>1. /\ run[r] \in Row /\ run[r].status = "pending" /\ ~run[r].cancel_requested
      /\ run[r].attempt \in Nat /\ run[r].attempt < MaxAttempts
  BY RunStoreAssumption DEF IInv, TypeOK, Acquire, Available, Row
<1>2. Wid(w) \in WorkerIds
  BY DEF IInv, TypeOK, Wid, WorkerIds
<1>3. /\ LeaseRow(run[r], Wid(w)) \in Row
      /\ LeaseRow(run[r], Wid(w)).attempt = a
      /\ LeaseRow(run[r], Wid(w)).status = "leased"
      /\ LeaseRow(run[r], Wid(w)).leased_by = Wid(w)
      /\ LeaseRow(run[r], Wid(w)).cancel_requested = FALSE
  BY <1>1, <1>2, LeaseFacts DEF Acquire
<1>4. run' = [run EXCEPT ![r] = LeaseRow(run[r], Wid(w))] /\ gen' = gen /\ beat' = beat
  BY DEF Acquire
<1>5. run'[r] = LeaseRow(run[r], Wid(w)) /\ \A q \in Runs : q # r => run'[q] = run[q]
  BY <1>4 DEF IInv, TypeOK
<1>6. worker' = [worker EXCEPT ![w] = [phase |-> "leased", run |-> r, attempt |-> a,
                                       closing |-> "none"]]
  BY <1>3, <1>5 DEF Acquire
<1>7. /\ worker'[w] = [phase |-> "leased", run |-> r, attempt |-> a, closing |-> "none"]
      /\ \A v \in Workers : v # w => worker'[v] = worker[v]
  BY <1>6 DEF IInv, TypeOK
<1>8. TypeOK'
  <2>1. run' \in [Runs -> Row]
    BY <1>3, <1>4 DEF IInv, TypeOK
  <2>2. a \in 0..MaxAttempts
    BY <1>1, RunStoreAssumption
  <2>3. worker' \in [Workers -> [phase : Phases, run : Runs \cup {NoRun},
                                 attempt : 0..MaxAttempts, closing : Closings]]
    BY <1>6, <2>2 DEF IInv, TypeOK, Phases, Closings
  <2>. QED
    BY <1>4, <2>1, <2>3 DEF IInv, TypeOK
<1>9. \A q \in Runs : RowInv(run[q])'
  BY <1>3, <1>5 DEF IInv, RowInv
<1>10. worker[w].phase = "idle" /\ beat[w] = "off"
  BY DEF IInv, Engaged, Acquire
<1>11. Engaged'
  BY <1>4, <1>7, RunWorkersAssumption DEF IInv, Engaged
<1>12. Remembered'
  <2> SUFFICES ASSUME NEW v \in Workers, worker'[v].run # NoRun
               PROVE  /\ run'[worker'[v].run].status # "absent"
                      /\ worker'[v].attempt \in 1..run'[worker'[v].run].attempt
    BY DEF Remembered
  <2>1. CASE v = w
    BY <1>1, <1>3, <1>5, <1>7, <2>1
  <2>2. CASE v # w /\ worker[v].run = r
    BY <1>1, <1>3, <1>5, <1>7, <2>2 DEF IInv, Remembered
  <2>3. CASE v # w /\ worker[v].run # r
    BY <1>5, <1>7, <2>3 DEF IInv, Remembered, TypeOK
  <2>. QED
    BY <2>1, <2>2, <2>3
<1>13. FenceIsCurrent'
  <2> SUFFICES ASSUME NEW v \in Workers, worker'[v].run # NoRun,
                      HeldBy(run'[worker'[v].run], Wid(v)')
               PROVE  worker'[v].attempt = run'[worker'[v].run].attempt
    BY DEF FenceIsCurrent
  <2>1. CASE v = w
    BY <1>3, <1>5, <1>7, <2>1
  <2>2. CASE v # w /\ worker[v].run = r
    <3>1. Wid(v)' # Wid(w)
      BY <2>2 DEF Wid
    <3>. QED
      BY <1>3, <1>5, <1>7, <2>2, <3>1 DEF HeldBy
  <2>3. CASE v # w /\ worker[v].run # r
    <3>1. Wid(v)' = Wid(v)
      BY <1>4 DEF Wid
    <3>. QED
      BY <1>5, <1>7, <2>3, <3>1 DEF IInv, FenceIsCurrent, TypeOK
  <2>. QED
    BY <2>1, <2>2, <2>3
<1>14. OneCurrentAttempt'
  <2>1. \A v \in Workers : v # w /\ worker[v].run = r => worker[v].attempt # a
    BY <1>1, RunWorkersAssumption DEF IInv, Remembered
  <2>. QED
    BY <1>7, <2>1 DEF IInv, OneCurrentAttempt
<1>. QED
  BY <1>8, <1>9, <1>11, <1>12, <1>13, <1>14 DEF IInv

-----------------------------------------------------------------------------
(* One row written, the others untouched: all of them settle. *)
LEMMA RowWrite ==
    ASSUME IInv, NEW r \in Runs, NEW new, Settles(run[r], new),
           run' = [run EXCEPT ![r] = new]
    PROVE  run' \in [Runs -> Row] /\ \A q \in Runs : Settles(run[q], run'[q])
<1>1. \A q \in Runs : Settles(run[q], run[q])
  BY BystandersSettle DEF IInv, TypeOK
<1>2. new \in Row
  BY DEF Settles
<1>3. run' \in [Runs -> Row]
  BY <1>2 DEF IInv, TypeOK
<1>. QED
  BY <1>1, <1>3 DEF IInv, TypeOK

(* No row written: every row settles as it was. *)
LEMMA NoWrite ==
    ASSUME IInv, run' = run
    PROVE  run' \in [Runs -> Row] /\ \A q \in Runs : Settles(run[q], run'[q])
BY BystandersSettle DEF IInv, TypeOK

(* A worker that is at work moves to another phase of the same run. *)
LEMMA PhaseStep ==
    ASSUME IInv, NEW w \in Workers, NEW p \in Phases \ {"idle"}, NEW c \in Closings,
           worker[w].phase # "idle",
           \/ worker' = [worker EXCEPT ![w].phase = p]
           \/ worker' = [worker EXCEPT ![w].phase = p, ![w].closing = c],
           gen' = gen, run' = run,
           beat' \in [Workers -> Beats],
           \A v \in Workers : v # w => beat'[v] = beat[v]
    PROVE  IInv'
<1>1. TypeOK'
  BY NoWrite DEF IInv, TypeOK
<1>2. \A v \in Workers : /\ worker'[v].run = worker[v].run
                         /\ worker'[v].attempt = worker[v].attempt
                         /\ v # w => worker'[v].phase = worker[v].phase
  BY DEF IInv, TypeOK
<1>3. worker'[w].phase # "idle" /\ worker[w].run # NoRun
  BY DEF IInv, TypeOK, Engaged
<1>4. Engaged'
  BY <1>2, <1>3 DEF IInv, Engaged
<1>5. \A v \in Workers : KeepsOrLeaves(v)
  BY <1>2 DEF KeepsOrLeaves
<1>. QED
  BY <1>1, <1>4, <1>5, NoWrite, QuietStep

(* A worker leaves its run, with or without a last write to a row. *)
LEMMA LeaveStep ==
    ASSUME IInv, NEW w \in Workers, Leave(w),
           gen' = gen \/ gen' = [gen EXCEPT ![w] = @ + 1],
           run' \in [Runs -> Row], \A q \in Runs : Settles(run[q], run'[q])
    PROVE  IInv'
<1>1. Idle \in [phase : Phases, run : Runs \cup {NoRun},
                attempt : 0..MaxAttempts, closing : Closings]
  BY RunStoreAssumption DEF Idle, Phases, Closings
<1>2. worker' \in [Workers -> [phase : Phases, run : Runs \cup {NoRun},
                               attempt : 0..MaxAttempts, closing : Closings]]
  BY <1>1 DEF IInv, TypeOK, Leave
<1>3. gen' \in [Workers -> Nat] /\ \A v \in Workers : v # w => gen'[v] = gen[v]
  BY DEF IInv, TypeOK
<1>4. beat' \in [Workers -> Beats] /\ beat'[w] = "off"
  BY DEF IInv, TypeOK, Leave, Beats
<1>5. \A v \in Workers : v # w => beat'[v] = beat[v] /\ worker'[v] = worker[v]
  BY DEF IInv, TypeOK, Leave
<1>6. worker'[w].phase = "idle" /\ worker'[w].run = NoRun
  BY DEF IInv, TypeOK, Leave, Idle
<1>7. TypeOK'
  BY <1>2, <1>3, <1>4 DEF TypeOK
<1>8. Engaged'
  BY <1>4, <1>5, <1>6 DEF IInv, Engaged
<1>9. \A v \in Workers : KeepsOrLeaves(v)
  BY <1>3, <1>5, <1>6 DEF KeepsOrLeaves
<1>. QED
  BY <1>7, <1>8, <1>9, QuietStep

(* A row is written while all workers stay where they are. *)
LEMMA RowStep ==
    ASSUME IInv, worker' = worker, gen' = gen,
           beat' \in [Workers -> Beats],
           \A w \in Workers : worker[w].phase = "idle" => beat'[w] = "off",
           run' \in [Runs -> Row], \A q \in Runs : Settles(run[q], run'[q])
    PROVE  IInv'
<1>1. TypeOK' /\ Engaged'
  BY DEF IInv, TypeOK, Engaged
<1>2. \A w \in Workers : KeepsOrLeaves(w)
  BY DEF KeepsOrLeaves
<1>. QED
  BY <1>1, <1>2, QuietStep

(* What a worker at work may rely on when it writes its row. *)
LEMMA AtWork ==
    ASSUME IInv, NEW w \in Workers, worker[w].phase # "idle"
    PROVE  /\ worker[w].run \in Runs
           /\ run[worker[w].run] \in Row /\ RowInv(run[worker[w].run])
           /\ worker[w].attempt \in 1..MaxAttempts
           /\ HeldBy(run[worker[w].run], Wid(w)) => worker[w].attempt = run[worker[w].run].attempt
<1>1. worker[w].run \in Runs /\ worker[w].run # NoRun
  BY DEF IInv, TypeOK, Engaged
<1>2. run[worker[w].run].attempt \in 0..MaxAttempts
  BY <1>1 DEF IInv, TypeOK, Row
<1>3. worker[w].attempt \in 1..MaxAttempts
  BY <1>1, <1>2, RunStoreAssumption DEF IInv, Remembered
<1>. QED
  BY <1>1, <1>3 DEF IInv, TypeOK, FenceIsCurrent

-----------------------------------------------------------------------------
(* Initially no run is admitted and every worker is idle. *)
LEMMA InitIInv == Init => IInv
<1> SUFFICES ASSUME Init PROVE IInv
  OBVIOUS
<1>1. AbsentRow \in Row
  BY RunStoreAssumption DEF AbsentRow, Row, Statuses
<1>2. Idle \in [phase : Phases, run : Runs \cup {NoRun},
                attempt : 0..MaxAttempts, closing : Closings]
  BY RunStoreAssumption DEF Idle, Phases, Closings
<1>3. TypeOK
  BY <1>1, <1>2 DEF Init, TypeOK, Beats
<1>4. \A r \in Runs : RowInv(run[r])
  BY DEF Init, RowInv, AbsentRow
<1>5. \A w \in Workers : worker[w].run = NoRun /\ worker[w].phase = "idle" /\ beat[w] = "off"
  BY DEF Init, Idle
<1>. QED
  BY <1>3, <1>4, <1>5 DEF IInv, Engaged, Remembered, FenceIsCurrent, OneCurrentAttempt

(* The API, the reaper and the clock. *)
LEMMA BystanderSteps ==
    ASSUME IInv, NEW r \in Runs,
           Enqueue(r) \/ Cancel(r) \/ Reap(r) \/ Expire(r) \/ Due(r)
    PROVE  IInv'
<1>1. run[r] \in Row /\ RowInv(run[r])
  BY DEF IInv, TypeOK
<1>2. worker' = worker /\ gen' = gen /\ beat' = beat
  BY DEF Enqueue, Cancel, Reap, Expire, Due
<1>3. beat' \in [Workers -> Beats] /\ \A w \in Workers : worker[w].phase = "idle" => beat'[w] = "off"
  BY <1>2 DEF IInv, TypeOK, Engaged
<1>4. PICK new : run' = [run EXCEPT ![r] = new] /\ (Settles(run[r], new) \/ Enqueue(r))
  BY <1>1, BystandersSettle DEF Enqueue, Cancel, Reap, Expire, Due
<1>5. CASE Settles(run[r], new)
  BY <1>2, <1>3, <1>4, <1>5, RowWrite, RowStep
<1>6. CASE Enqueue(r)
  <2>1. /\ AdmitRow \in Row /\ AdmitRow.attempt = 0 /\ AdmitRow.status = "pending"
        /\ AdmitRow.cancel_requested = FALSE
    BY AdmitFacts
  <2>2. /\ run'[r] = AdmitRow /\ run' \in [Runs -> Row]
        /\ \A q \in Runs : q # r => run'[q] = run[q]
    BY <1>6, <2>1 DEF Enqueue, IInv, TypeOK
  <2>3. \A w \in Workers : worker[w].run # r
    BY <1>6, RunWorkersAssumption DEF Enqueue, IInv, Remembered
  <2>4. \A q \in Runs : RowInv(run[q])'
    BY <2>1, <2>2, RunStoreAssumption DEF IInv, RowInv
  <2>5. TypeOK' /\ Engaged' /\ OneCurrentAttempt'
    BY <1>2, <2>2 DEF IInv, TypeOK, Engaged, OneCurrentAttempt
  <2>6. Remembered' /\ FenceIsCurrent'
    BY <1>2, <2>2, <2>3 DEF IInv, TypeOK, Remembered, FenceIsCurrent, Wid
  <2>. QED
    BY <2>4, <2>5, <2>6 DEF IInv
<1>. QED
  BY <1>4, <1>5, <1>6

(* The heartbeat thread. *)
LEMMA HeartbeatSteps ==
    ASSUME IInv, NEW w \in Workers, Heartbeat(w) \/ HeartbeatRaises(w)
    PROVE  IInv'
<1>1. worker[w].phase # "idle" /\ worker' = worker /\ gen' = gen
  BY DEF IInv, Engaged, Heartbeat, HeartbeatRaises
<1>2. beat' \in [Workers -> Beats] /\ \A v \in Workers : worker[v].phase = "idle" => beat'[v] = "off"
  BY <1>1 DEF IInv, TypeOK, Engaged, Beats, Heartbeat, HeartbeatRaises
<1>3. CASE run' = run
  BY <1>1, <1>2, <1>3, NoWrite, RowStep
<1>4. CASE run' # run
  <2> DEFINE r == worker[w].run
  <2>1. run' = [run EXCEPT ![r] = HeartbeatRow(run[r])] /\ HeartbeatHolds(run[r], Wid(w))
    BY <1>4 DEF Heartbeat, HeartbeatRaises
  <2>2. r \in Runs /\ Settles(run[r], HeartbeatRow(run[r]))
    BY <1>1, <2>1, AtWork, BystandersSettle DEF HeartbeatHolds, HeldBy
  <2>. QED
    BY <1>1, <1>2, <2>1, <2>2, RowWrite, RowStep
<1>. QED
  BY <1>3, <1>4

(* The main thread moving from phase to phase. *)
LEMMA PhaseSteps ==
    ASSUME IInv, NEW w \in Workers,
           \/ Begin(w)
           \/ CancellationPoint(w, "started", "handling")
           \/ HandlerReturns(w)
           \/ HandlerCancelled(w)
           \/ \E how \in {"needs_reconciliation", "transient", "failed"} : HandlerRaises(w, how)
           \/ CancellationPoint(w, "returned", "checked")
           \/ RaiseIfLost(w)
           \/ CancellationPointRaises(w, "started") \/ CancellationPointRaises(w, "returned")
    PROVE  IInv'
<1>1. worker[w].phase # "idle" /\ gen' = gen /\ run' = run
  BY DEF Begin, CancellationPoint, HandlerReturns, HandlerCancelled, HandlerRaises, RaiseIfLost,
         CancellationPointRaises, Step, Close
<1>2. beat' \in [Workers -> Beats] /\ \A v \in Workers : v # w => beat'[v] = beat[v]
  BY DEF IInv, TypeOK, Beats, Begin, CancellationPoint, HandlerReturns, HandlerCancelled,
         HandlerRaises, RaiseIfLost, CancellationPointRaises
<1>3. \E p \in Phases \ {"idle"}, c \in Closings :
          \/ worker' = [worker EXCEPT ![w].phase = p]
          \/ worker' = [worker EXCEPT ![w].phase = p, ![w].closing = c]
  BY DEF Begin, CancellationPoint, HandlerReturns, HandlerCancelled, HandlerRaises, RaiseIfLost,
         CancellationPointRaises, Step, Close, Phases, Closings
<1>. QED
  BY <1>1, <1>2, <1>3, PhaseStep

(* The main thread letting go of its run, after a write or without one. *)
LEMMA LeavingSteps ==
    ASSUME IInv, NEW w \in Workers,
           \/ NoHandler(w) \/ CloseRun(w) \/ Complete(w)
           \/ BeginRaises(w) \/ CloseRaises(w) \/ CompleteRaises(w) \/ Crash(w)
    PROVE  IInv'
<1> DEFINE r == worker[w].run
           a == worker[w].attempt
<1>1. worker[w].phase # "idle"
  BY DEF NoHandler, CloseRun, Complete, BeginRaises, CloseRaises, CompleteRaises, Crash
<1>2. Leave(w) /\ (gen' = gen \/ gen' = [gen EXCEPT ![w] = @ + 1])
  BY DEF NoHandler, CloseRun, Complete, BeginRaises, CloseRaises, CompleteRaises, Crash, Escape
<1>3. /\ r \in Runs /\ run[r] \in Row /\ RowInv(run[r]) /\ a \in 1..MaxAttempts
      /\ HeldBy(run[r], Wid(w)) => a = run[r].attempt
  BY <1>1, AtWork
<1>4. worker[w].closing \in Closings
  BY DEF IInv, TypeOK
<1>5. run' = run \/ \E new : run' = [run EXCEPT ![r] = new] /\ Settles(run[r], new)
  <2>1. ASSUME NoHandler(w) PROVE <1>5!1 \/ <1>5!2
    BY <1>3, <2>1, HolderSettles DEF NoHandler
  <2>2. ASSUME CloseRun(w) \/ CloseRaises(w) PROVE <1>5!1 \/ <1>5!2
    BY <1>3, <1>4, <2>2, CloseRowFacts DEF CloseRun, CloseRaises
  <2>3. ASSUME Complete(w) PROVE <1>5!1 \/ <1>5!2
    BY <1>3, <2>3, HolderSettles DEF Complete
  <2>4. ASSUME BeginRaises(w) \/ CompleteRaises(w) \/ Crash(w) PROVE <1>5!1 \/ <1>5!2
    BY <2>4 DEF BeginRaises, CompleteRaises, Crash
  <2>. QED
    BY <2>1, <2>2, <2>3, <2>4
<1>6. run' \in [Runs -> Row] /\ \A q \in Runs : Settles(run[q], run'[q])
  BY <1>3, <1>5, RowWrite, NoWrite
<1>. QED
  BY <1>2, <1>6, LeaveStep

(* Every step keeps the invariant. *)
LEMMA NextIInv == IInv /\ [Next]_vars => IInv'
<1> SUFFICES ASSUME IInv, [Next]_vars PROVE IInv'
  OBVIOUS
<1>1. CASE UNCHANGED vars
  BY <1>1 DEF vars, IInv, TypeOK, Engaged, Remembered, FenceIsCurrent, OneCurrentAttempt, Wid, RowInv
<1>2. ASSUME NEW r \in Runs, Enqueue(r) \/ Cancel(r) \/ Reap(r) \/ Expire(r) \/ Due(r) PROVE IInv'
  BY <1>2, BystanderSteps
<1>3. ASSUME NEW w \in Workers, NEW r \in Runs, Acquire(w, r) PROVE IInv'
  BY <1>3, AcquireStep
<1>4. ASSUME NEW w \in Workers, Work(w) PROVE IInv'
  BY <1>4, PhaseSteps, LeavingSteps DEF Work
<1>5. ASSUME NEW w \in Workers, Heartbeat(w) PROVE IInv'
  BY <1>5, HeartbeatSteps
<1>6. ASSUME NEW w \in Workers, Trouble(w) PROVE IInv'
  BY <1>6, HeartbeatSteps, PhaseSteps, LeavingSteps DEF Trouble
<1>. QED
  BY <1>1, <1>2, <1>3, <1>4, <1>5, <1>6 DEF Next

(* The invariant holds in every reachable state. *)
THEOREM Invariance == Spec => []IInv
BY InitIInv, NextIInv, PTL DEF Spec

-----------------------------------------------------------------------------
(* The row and every worker's LeasedRun always have their types: the attempt
   never passes max_attempts (acquire), and leased_by names a worker id or none. *)
THEOREM TypeCorrect == Spec => []TypeOK
<1>1. IInv => TypeOK
  BY DEF IInv
<1>. QED
  BY <1>1, Invariance, PTL

(* Two workers never work from the same attempt of a run, over any number of
   stalls, reaps and takeovers (acquire, reap_expired). *)
THEOREM AttemptsAreExclusive == Spec => []OneCurrentAttempt
<1>1. IInv => OneCurrentAttempt
  BY DEF IInv
<1>. QED
  BY <1>1, Invariance, PTL

(* A success always carries the result of the latest attempt: the fence in
   complete rejects every stalled worker. *)
THEOREM FenceIsSound == Spec => []ResultOfLastAttempt
<1>1. IInv => ResultOfLastAttempt
  BY DEF IInv, RowInv, ResultOfLastAttempt
<1>. QED
  BY <1>1, Invariance, PTL

(* An accepted cancellation is never overtaken by a success, a failure or
   another attempt (complete, fail, reap_expired against cancel_run). *)
THEOREM CancellationHolds == Spec => []CancelIsHonoured
<1>1. IInv => CancelIsHonoured
  BY DEF IInv, RowInv, CancelIsHonoured
<1>. QED
  BY <1>1, Invariance, PTL

(* No exhausted run is ever put back into the queue (fail, reap_expired). *)
THEOREM PendingCanBeLeased == Spec => []PendingIsRunnable
<1>1. IInv => PendingIsRunnable
  BY DEF IInv, RowInv, PendingIsRunnable
<1>. QED
  BY <1>1, Invariance, PTL

-----------------------------------------------------------------------------
(* A step that moves every row the way the lifecycle allows is a step of the
   lifecycle. *)
LEMMA RowsRefine ==
    ASSUME TypeOK, TypeOK', \A r \in Runs : Refines(run[r], run'[r])
    PROVE  [Lifecycle!Next]_(Lifecycle!vars)
<1>1. Lifecycle!TypeOK'
  BY DEF TypeOK, Lifecycle!TypeOK, Lifecycle!Outcomes, Row, Statuses, Terminal
<1>2. ASSUME NEW r \in Runs
      PROVE  \/ Lifecycle!Admit(r) \/ Lifecycle!Start(r) \/ Lifecycle!Retry(r)
             \/ Lifecycle!Succeed(r) \/ Lifecycle!Fail(r) \/ Lifecycle!AcceptCancel(r)
             \/ Lifecycle!FinishCancel(r) \/ Lifecycle!Rests(r)
  <2>1. Refines(run[r], run'[r])
    OBVIOUS
  <2>. QED
    BY <2>1 DEF Refines, Same, Lifecycle!Admit, Lifecycle!Start, Lifecycle!Retry,
                Lifecycle!Succeed, Lifecycle!Fail, Lifecycle!AcceptCancel,
                Lifecycle!FinishCancel, Lifecycle!Rests
<1>. QED
  BY <1>1, <1>2 DEF Lifecycle!Next

(* A step of the workers, the reaper or the API is a step of the lifecycle. *)
LEMMA StepRefines ==
    ASSUME IInv, IInv', [Next]_vars
    PROVE  [Lifecycle!Next]_(Lifecycle!vars)
<1>1. run' = run \/ \E r \in Runs : \E new : run' = [run EXCEPT ![r] = new] /\ Refines(run[r], new)
  <2>1. ASSUME NEW r \in Runs, Enqueue(r) \/ Cancel(r) \/ Reap(r) \/ Expire(r) \/ Due(r)
        PROVE  \E new : run' = [run EXCEPT ![r] = new] /\ Refines(run[r], new)
    <3>1. run[r] \in Row /\ RowInv(run[r])
      BY DEF IInv, TypeOK
    <3>. QED
      BY <2>1, <3>1, BystandersRefine DEF Enqueue, Cancel, Reap, Expire, Due
  <2>2. ASSUME NEW w \in Workers, NEW r \in Runs, Acquire(w, r)
        PROVE  \E new : run' = [run EXCEPT ![r] = new] /\ Refines(run[r], new)
    <3>1. run[r] \in Row /\ RowInv(run[r]) /\ Available(run[r])
      BY <2>2 DEF IInv, TypeOK, Acquire
    <3>2. Refines(run[r], LeaseRow(run[r], Wid(w)))
      BY <3>1 DEF Available, LeaseRow, Refines, Same, Row
    <3>. QED
      BY <2>2, <3>2 DEF Acquire
  <2>3. ASSUME NEW w \in Workers, worker[w].phase # "idle",
               NoHandler(w) \/ CloseRun(w) \/ CloseRaises(w) \/ Complete(w)
        PROVE  \/ run' = run
               \/ \E r \in Runs : \E new : run' = [run EXCEPT ![r] = new] /\ Refines(run[r], new)
    <3> DEFINE q == worker[w].run
    <3>1. worker[w].closing \in Closings
      BY DEF IInv, TypeOK
    <3>2. /\ q \in Runs /\ run[q] \in Row /\ RowInv(run[q]) /\ worker[w].attempt \in 1..MaxAttempts
          /\ HeldBy(run[q], Wid(w)) => worker[w].attempt = run[q].attempt
      BY <2>3, AtWork
    <3>3. CASE NoHandler(w)
      BY <3>2, <3>3, HolderRefines DEF NoHandler
    <3>4. CASE CloseRun(w) \/ CloseRaises(w)
      <4>1. Refines(run[q], CloseRow(run[q], Wid(w), worker[w].attempt, worker[w].closing))
        BY <3>1, <3>2, CloseRowFacts
      <4>. QED
        BY <3>2, <3>4, <4>1 DEF CloseRun, CloseRaises
    <3>5. CASE Complete(w)
      BY <3>2, <3>5, HolderRefines DEF Complete
    <3>. QED
      BY <2>3, <3>3, <3>4, <3>5
  <2>4. ASSUME NEW w \in Workers, Heartbeat(w)
        PROVE  \/ run' = run
               \/ \E r \in Runs : \E new : run' = [run EXCEPT ![r] = new] /\ Refines(run[r], new)
    <3>1. worker[w].phase # "idle"
      BY <2>4 DEF IInv, Engaged, Heartbeat
    <3>. QED
      BY <2>4, <3>1, AtWork, BystandersRefine DEF Heartbeat
  <2>5. ASSUME NEW w \in Workers, Work(w) \/ Trouble(w)
        PROVE  \/ run' = run
               \/ worker[w].phase # "idle" /\ (NoHandler(w) \/ CloseRun(w) \/ CloseRaises(w) \/ Complete(w))
    BY <2>5 DEF Work, Trouble, NoHandler, Begin, CancellationPoint, HandlerReturns,
                HandlerCancelled, HandlerRaises, RaiseIfLost, CloseRun, CloseRaises, Complete,
                BeginRaises, CompleteRaises, Crash, HeartbeatRaises,
                CancellationPointRaises
  <2>. QED
    BY <2>1, <2>2, <2>3, <2>4, <2>5 DEF Next, vars
<1>2. \A q \in Runs : Refines(run[q], run[q])
  BY BystandersRefine DEF IInv, TypeOK
<1>3. \A q \in Runs : Refines(run[q], run'[q])
  <2>1. CASE run' = run
    BY <1>2, <2>1
  <2>2. ASSUME NEW r \in Runs, NEW new, run' = [run EXCEPT ![r] = new], Refines(run[r], new)
        PROVE  \A q \in Runs : Refines(run[q], run'[q])
    BY <1>2, <2>2 DEF IInv, TypeOK
  <2>. QED
    BY <1>1, <2>1, <2>2
<1>. QED
  BY <1>3, RowsRefine DEF IInv

(* The worker loop, the reaper, the clock and the cancel endpoint implement the
   promised life of a run. *)
THEOREM Refinement == Spec => ImplementsLifecycle
<1>1. Init => Lifecycle!Init
  BY DEF Init, Lifecycle!Init, AbsentRow
<1>2. IInv /\ IInv' /\ [Next]_vars => [Lifecycle!Next]_(Lifecycle!vars)
  BY StepRefines
<1>. QED
  BY <1>1, <1>2, Invariance, PTL DEF Spec, ImplementsLifecycle, Lifecycle!Spec

-----------------------------------------------------------------------------
(* A live lease is only ever given up by its holder: no other worker, no reap
   and no cancellation ends it (acquire, reap_expired, cancel_run and the fence
   of complete and fail). *)
THEOREM LiveLeasesAreSafe == Spec => LiveLeaseIsTheHolders
<1> DEFINE Kept(r) == run'[r].status = "leased" /\ run'[r].leased_by = run[r].leased_by
           Live(r) == run[r].status = "leased" /\ run[r].lease_live
           LetGo(r) == \E w \in Workers : /\ Wid(w) = run[r].leased_by
                                          /\ worker[w].run = r /\ worker'[w] = Idle
<1>1. ASSUME IInv, [Next]_vars, NEW r \in Runs, Live(r), ~Kept(r)
      PROVE  LetGo(r)
  <2>1. run[r] \in Row
    BY <1>1 DEF IInv, TypeOK
  <2>2. run'[r] # run[r]
    BY <1>1
  <2>3. ASSUME NEW q \in Runs, Enqueue(q) \/ Cancel(q) \/ Reap(q) \/ Expire(q) \/ Due(q)
        PROVE  FALSE
    <3>1. q = r
      BY <1>1, <2>2, <2>3 DEF IInv, TypeOK, Enqueue, Cancel, Reap, Expire, Due
    <3>2. Cancel(r) \/ Expire(r)
      BY <1>1, <2>3, <3>1 DEF Enqueue, Reap, Due, Reapable, BecomesDue
    <3>3. \/ run'[r] = CancelRow(run[r])
          \/ run'[r] = LeaseRunsOutRow(run[r])
      BY <1>1, <3>2 DEF IInv, TypeOK, Cancel, Expire
    <3>4. CancelRow(run[r]).status = "leased" /\ CancelRow(run[r]).leased_by = run[r].leased_by
      BY <1>1, <2>1 DEF CancelRow, Row
    <3>5. /\ LeaseRunsOutRow(run[r]).status = "leased"
          /\ LeaseRunsOutRow(run[r]).leased_by = run[r].leased_by
      BY <1>1, <2>1 DEF LeaseRunsOutRow, Row
    <3>. QED
      BY <1>1, <3>3, <3>4, <3>5
  <2>4. ASSUME NEW w \in Workers, NEW q \in Runs, Acquire(w, q) PROVE FALSE
    BY <1>1, <2>2, <2>4 DEF IInv, TypeOK, Acquire, Available
  <2>5. ASSUME NEW w \in Workers, Heartbeat(w) PROVE FALSE
    <3>1. run'[r] = HeartbeatRow(run[r])
      BY <1>1, <2>2, <2>5 DEF IInv, TypeOK, Heartbeat
    <3>2. HeartbeatRow(run[r]).status = "leased" /\ HeartbeatRow(run[r]).leased_by = run[r].leased_by
      BY <1>1, <2>1 DEF HeartbeatRow, Row
    <3>. QED
      BY <1>1, <3>1, <3>2
  <2>6. ASSUME NEW w \in Workers, NoHandler(w) \/ CloseRun(w) \/ CloseRaises(w) \/ Complete(w)
        PROVE  LetGo(r)
    <3>1. worker[w].run = r
      BY <1>1, <2>2, <2>6 DEF IInv, TypeOK, NoHandler, CloseRun, CloseRaises, Complete
    <3>2. HeldBy(run[r], Wid(w))
      BY <1>1, <2>2, <2>6, <3>1 DEF IInv, TypeOK, NoHandler, CloseRun, CloseRaises, Complete,
                                    CloseRow, AckCancelHolds, CompleteHolds
    <3>3. worker'[w] = Idle
      BY <1>1, <2>6 DEF IInv, TypeOK, NoHandler, CloseRun, CloseRaises, Complete, Leave, Escape
    <3>. QED
      BY <3>1, <3>2, <3>3 DEF HeldBy
  <2>7. ASSUME NEW w \in Workers, Work(w) \/ Trouble(w)
        PROVE  run' = run \/ NoHandler(w) \/ CloseRun(w) \/ CloseRaises(w) \/ Complete(w)
    BY <2>7 DEF Work, Trouble, Begin, CancellationPoint, HandlerReturns, HandlerCancelled,
                HandlerRaises, RaiseIfLost, BeginRaises, CompleteRaises, Crash, HeartbeatRaises,
                CancellationPointRaises
  <2>. QED
    BY <1>1, <2>2, <2>3, <2>4, <2>5, <2>6, <2>7 DEF Next, vars
<1>2. IInv /\ [Next]_vars => GivenUpByItsHolder
  BY <1>1 DEF GivenUpByItsHolder
<1>. QED
  BY <1>2, Invariance, PTL DEF Spec, LiveLeaseIsTheHolders
=============================================================================

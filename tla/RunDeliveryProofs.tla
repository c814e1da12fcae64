-------------------------- MODULE RunDeliveryProofs --------------------------
(***************************************************************************)
(* Proofs about RunDelivery, for any runs, workers, relays, sweepers and   *)
(* bounds: whatever is delivered, lost or repeated, a task keeps the run   *)
(* whose live lease it holds, and the rows live the life of RunLifecycle,  *)
(* also where one statement writes many of them (the reap, the commit of a *)
(* drain).                                                                 *)
(*                                                                         *)
(* Only the row protects an attempt.  What makes that inductive is what a  *)
(* task remembers of the row it leased (Remembered) and that a lease names *)
(* the attempt it was given for (LeaseNamesAttempt).                       *)
(***************************************************************************)
EXTENDS RunDelivery, RunStoreProofs

\* A task has a run in hand exactly when it is not idle.
Engaged ==
    \A w \in Workers : /\ worker[w].phase # "idle" => worker[w].run \in Runs
                       /\ worker[w].phase = "idle" => worker[w].run = NoRun

\* The attempt a task works on was really started.
Remembered ==
    \A w \in Workers : worker[w].phase = "working" =>
        /\ run[worker[w].run].status # "absent"
        /\ worker[w].attempt \in 1..run[worker[w].run].attempt

\* The id in a lease names the attempt it was given for.
LeaseNamesAttempt ==
    \A r \in Runs : run[r].status = "leased" =>
        \E w \in Workers : run[r].leased_by = <<w, run[r].attempt>>

IInv ==
    /\ TypeOK
    /\ \A r \in Runs : RowInv(run[r])
    /\ Engaged
    /\ Remembered
    /\ LeaseNamesAttempt

-----------------------------------------------------------------------------
(* The task, drain and sweep that have nothing in hand. *)
LEMMA IdleFacts ==
    /\ Idle \in Task /\ Idle.phase = "idle" /\ Idle.run = NoRun
    /\ NoDrain \in Drain
    /\ NoSweep \in Sweep
BY RunStoreAssumption DEF Idle, Task, NoDrain, Drain, NoSweep, Sweep

(* What the marks of a drain and of a sweep, the reap, and the clock do to a
   row: they settle it, and are steps of its life.  The reap and the commit of
   a drain pass over every row. *)
LEMMA MarksSettle ==
    ASSUME NEW row \in Row, RowInv(row), NEW m \in {"null", "before", "fresh", "aged"}
    PROVE  /\ Settles(row, [row EXCEPT !.enqueued = m])
           /\ Refines(row, [row EXCEPT !.enqueued = m])
<1>1. [row EXCEPT !.enqueued = m] \in Row
  BY DEF Row
<1>2. Settles(row, [row EXCEPT !.enqueued = m])
  BY <1>1 DEF Settles, RowInv, Row
<1>3. Refines(row, [row EXCEPT !.enqueued = m])
  BY DEF Refines, Same, Row
<1>. QED
  BY <1>2, <1>3

(* Admission settles the row too: an absent row has no attempt. *)
LEMMA AdmitSettles ==
    ASSUME NEW row \in Row, RowInv(row), row.status = "absent"
    PROVE  Settles(row, AdmitRow) /\ Refines(row, AdmitRow)
<1>1. Settles(row, AdmitRow)
  BY AdmitFacts, RunStoreAssumption DEF Settles, RowInv
<1>. QED
  BY <1>1, BystandersRefine

\* A write of a row that is settled and a step of its life.
Proper(old, new) == Settles(old, new) /\ Refines(old, new)

(* A row that is left alone is proper, and so are the rows of the table when one
   of them is written properly. *)
LEMMA ProperWrite ==
    ASSUME IInv
    PROVE  /\ \A q \in Runs : Proper(run[q], run[q])
           /\ \A r \in Runs : \A new :
                Proper(run[r], new) /\ run' = [run EXCEPT ![r] = new]
                    => \A q \in Runs : Proper(run[q], run'[q])
<1>1. \A q \in Runs : Proper(run[q], run[q])
  BY BystandersSettle, BystandersRefine DEF IInv, TypeOK, Proper
<1>2. ASSUME NEW r \in Runs, NEW new, Proper(run[r], new), run' = [run EXCEPT ![r] = new]
      PROVE  \A q \in Runs : Proper(run[q], run'[q])
  BY <1>1, <1>2 DEF IInv, TypeOK
<1>. QED
  BY <1>1, <1>2

(* Whoever passes the fence holds the current attempt. *)
LEMMA FenceIsCurrent ==
    ASSUME IInv, NEW w \in Workers, worker[w].phase = "working"
    PROVE  /\ worker[w].run \in Runs
           /\ run[worker[w].run] \in Row /\ RowInv(run[worker[w].run])
           /\ worker[w].attempt \in 1..MaxAttempts
           /\ HeldBy(run[worker[w].run], Wid(w)) => worker[w].attempt = run[worker[w].run].attempt
<1>1. worker[w].run \in Runs
  BY DEF IInv, Engaged
<1>2. run[worker[w].run].attempt \in 0..MaxAttempts /\ run[worker[w].run] \in Row
  BY <1>1 DEF IInv, TypeOK, Row
<1>3. worker[w].attempt \in 1..MaxAttempts
  BY <1>1, <1>2, RunStoreAssumption DEF IInv, Remembered
<1>4. ASSUME HeldBy(run[worker[w].run], Wid(w))
      PROVE  worker[w].attempt = run[worker[w].run].attempt
  <2>1. PICK v \in Workers : run[worker[w].run].leased_by = <<v, run[worker[w].run].attempt>>
    BY <1>1, <1>4 DEF HeldBy, IInv, LeaseNamesAttempt
  <2>. QED
    BY <1>4, <2>1 DEF HeldBy, Wid
<1>. QED
  BY <1>1, <1>2, <1>3, <1>4 DEF IInv

-----------------------------------------------------------------------------
\* A task stays as it is, or is not working afterwards.
StaysOrRests(w) ==
    \/ worker'[w] = worker[w]
    \/ worker'[w] = Idle
    \/ worker'[w].phase = "delivered" /\ worker'[w].run \in Runs

(* A step that leases nothing keeps the invariant. *)
LEMMA QuietStep ==
    ASSUME IInv, TypeOK', \A r \in Runs : Proper(run[r], run'[r]),
           \A w \in Workers : StaysOrRests(w)
    PROVE  IInv'
<1>1. \A r \in Runs : Settles(run[r], run'[r])
  BY DEF Proper
<1>2. \A r \in Runs : RowInv(run[r])'
  BY <1>1 DEF Settles, RowInv
<1>3. \A w \in Workers : worker'[w].phase = "working" => worker'[w] = worker[w]
  BY IdleFacts DEF StaysOrRests
<1>4. Engaged'
  BY IdleFacts DEF IInv, Engaged, StaysOrRests
<1>5. Remembered'
  BY <1>1, <1>3 DEF IInv, Engaged, Remembered, Settles
<1>6. LeaseNamesAttempt'
  BY <1>1 DEF IInv, LeaseNamesAttempt, Settles
<1>. QED
  BY <1>2, <1>4, <1>5, <1>6 DEF IInv

(* A task that leases the run its pointer names starts its next attempt
   (acquire_specific). *)
LEMMA TaskLeasesStep ==
    ASSUME IInv, NEW w \in Workers, TaskLeases(w)
    PROVE  IInv' /\ \A r \in Runs : Refines(run[r], run'[r])
<1> DEFINE r == worker[w].run
           a == run[r].attempt + 1
           row == LeaseRow(run[r], <<w, a>>)
<1>1. /\ worker[w].phase = "delivered" /\ Available(run[r])
      /\ run' = [run EXCEPT ![r] = row]
      /\ worker' = [worker EXCEPT ![w].phase = "working", ![w].attempt = row.attempt]
      /\ outbox' = outbox /\ relay' = relay /\ pointers' = pointers /\ losses' = losses
      /\ sweep' = sweep
  BY DEF TaskLeases
<1>2. /\ r \in Runs /\ run[r] \in Row /\ worker[w] \in Task
  BY <1>1 DEF IInv, TypeOK, Engaged
<1>3. run[r].attempt \in Nat /\ run[r].attempt < MaxAttempts /\ a \in 1..MaxAttempts
  BY <1>1, <1>2, RunStoreAssumption DEF Available, Row
<1>4. <<w, a>> \in WorkerIds
  BY <1>3 DEF WorkerIds
<1>5. /\ row \in Row /\ RowInv(row) /\ row.attempt = a /\ row.status = "leased"
      /\ row.leased_by = <<w, a>>
  BY <1>1, <1>2, <1>4, LeaseFacts
<1>6. Refines(run[r], row)
  BY <1>1, <1>2 DEF Available, LeaseRow, Refines, Same, Row
<1> HIDE DEF row, r, a
<1>7. /\ worker' \in [Workers -> Task]
      /\ worker'[w].phase = "working" /\ worker'[w].run = r /\ worker'[w].attempt = a
      /\ \A v \in Workers : v # w => worker'[v] = worker[v]
  <2> DEFINE new == [worker[w] EXCEPT !.phase = "working", !.attempt = a]
  <2>0. a \in 0..MaxAttempts
    BY <1>3
  <2>1. new \in Task /\ new.phase = "working" /\ new.run = worker[w].run /\ new.attempt = a
    BY <1>2, <2>0 DEF Task
  <2>2. worker' = [worker EXCEPT ![w] = new]
    BY <1>1, <1>5 DEF IInv, TypeOK
  <2> HIDE DEF new
  <2>. QED
    BY <2>1, <2>2 DEF IInv, TypeOK, r
<1>8. run' \in [Runs -> Row] /\ run'[r] = row /\ \A q \in Runs : q # r => run'[q] = run[q]
  BY <1>1, <1>2, <1>5 DEF IInv, TypeOK
<1>9. TypeOK'
  BY <1>1, <1>7, <1>8 DEF IInv, TypeOK
<1>10. \A q \in Runs : RowInv(run[q])'
  BY <1>5, <1>8 DEF IInv, RowInv
<1>11. Engaged'
  BY <1>2, <1>7 DEF IInv, Engaged
<1>12. Remembered'
  <2> SUFFICES ASSUME NEW v \in Workers, worker'[v].phase = "working"
               PROVE  /\ run'[worker'[v].run].status # "absent"
                      /\ worker'[v].attempt \in 1..run'[worker'[v].run].attempt
    BY DEF Remembered
  <2>1. CASE v = w
    BY <1>3, <1>5, <1>7, <1>8, <2>1
  <2>2. CASE v # w /\ worker[v].run = r
    BY <1>3, <1>5, <1>7, <1>8, <2>2 DEF IInv, Remembered, a
  <2>3. CASE v # w /\ worker[v].run # r
    BY <1>7, <1>8, <2>3 DEF IInv, Remembered, Engaged
  <2>. QED
    BY <2>1, <2>2, <2>3
<1>13. LeaseNamesAttempt'
  BY <1>5, <1>8 DEF IInv, LeaseNamesAttempt
<1>15. \A q \in Runs : Refines(run[q], run'[q])
  BY <1>6, <1>8, ProperWrite DEF Proper
<1>. QED
  BY <1>9, <1>10, <1>11, <1>12, <1>13, <1>15 DEF IInv

-----------------------------------------------------------------------------
(* The steps that write no row and leave the tasks alone: a drain up to its
   commit, a lost or repeated pointer, a sweep that selects and publishes. *)
LEMMA MessageSteps ==
    ASSUME IInv,
           \/ \E r \in Runs : Lose(r)
           \/ \E x \in Relays : \/ DrainSelect(x) \/ DrainRollback(x)
                               \/ \E r \in Runs : DrainPublish(x, r) \/ DrainPublishFails(x, r)
           \/ \E w \in Workers : Redeliver(w)
           \/ \E s \in Sweepers : \/ SweepSelect(s) \/ SweepMarkFails(s) \/ SweepCrash(s)
                                 \/ \E r \in Runs : SweepPublish(s, r) \/ SweepPublishFails(s, r)
    PROVE  TypeOK' /\ run' = run /\ worker' = worker
<1>0. TypeOK /\ Engaged
  BY DEF IInv
<1>1. run' = run /\ worker' = worker /\ outbox' = outbox
  BY DEF Lose, DrainSelect, DrainRollback, DrainPublish, DrainPublishFails, Redeliver,
         SweepSelect, SweepMarkFails, SweepCrash, SweepPublish, SweepPublishFails
<1>2. pointers' \in [Runs -> 0..MaxPointers] /\ losses' \in 0..MaxLosses
  <2>1. ASSUME NEW r \in Runs, Lose(r)
        PROVE  <1>2
    BY <1>0, <2>1, RunDeliveryAssumption DEF Lose, TypeOK
  <2>2. ASSUME NEW r \in Runs, pointers[r] < MaxPointers,
               pointers' = [pointers EXCEPT ![r] = @ + 1], losses' = losses
        PROVE  <1>2
    BY <1>0, <2>2, RunDeliveryAssumption DEF TypeOK
  <2>3. ASSUME pointers' = pointers, losses' = losses
        PROVE  <1>2
    BY <1>0, <2>3 DEF TypeOK
  <2>4. ASSUME NEW w \in Workers, Redeliver(w)
        PROVE  \E r \in Runs : /\ pointers[r] < MaxPointers
                               /\ pointers' = [pointers EXCEPT ![r] = @ + 1] /\ losses' = losses
    BY <1>0, <2>4 DEF Redeliver, Engaged
  <2>. QED
    BY <2>1, <2>2, <2>3, <2>4
    DEF DrainSelect, DrainRollback, DrainPublish, DrainPublishFails,
        SweepSelect, SweepMarkFails, SweepCrash, SweepPublish, SweepPublishFails
<1>3. relay' \in [Relays -> Drain]
  <2>1. ASSUME NEW x \in Relays, DrainSelect(x) PROVE <1>3
    BY <1>0, <2>1 DEF DrainSelect, TypeOK, Drain
  <2>2. ASSUME NEW x \in Relays, DrainRollback(x) PROVE <1>3
    BY <1>0, <2>2, IdleFacts DEF DrainRollback, TypeOK
  <2>3. ASSUME NEW x \in Relays, NEW r \in Runs, DrainPublish(x, r) PROVE <1>3
    BY <1>0, <2>3 DEF DrainPublish, TypeOK, Drain
  <2>4. ASSUME NEW x \in Relays, NEW r \in Runs, DrainPublishFails(x, r) PROVE <1>3
    BY <1>0, <2>4 DEF DrainPublishFails, DrainSkip, TypeOK, Drain
  <2>5. ASSUME relay' = relay PROVE <1>3
    BY <1>0, <2>5 DEF TypeOK
  <2>. QED
    BY <2>1, <2>2, <2>3, <2>4, <2>5
    DEF Lose, Redeliver, SweepSelect, SweepMarkFails, SweepCrash, SweepPublish, SweepPublishFails
<1>4. sweep' \in [Sweepers -> Sweep]
  <2>1. ASSUME NEW s \in Sweepers, SweepSelect(s) PROVE <1>4
    BY <1>0, <2>1 DEF SweepSelect, TypeOK, Sweep
  <2>2. ASSUME NEW s \in Sweepers, SweepCrash(s) PROVE <1>4
    BY <1>0, <2>2, IdleFacts DEF SweepCrash, TypeOK
  <2>3. ASSUME NEW s \in Sweepers, SweepMarkFails(s) PROVE <1>4
    BY <1>0, <2>3 DEF SweepMarkFails, TypeOK, Sweep
  <2>4. ASSUME NEW s \in Sweepers, NEW r \in Runs, SweepPublish(s, r) PROVE <1>4
    BY <1>0, <2>4 DEF SweepPublish, TypeOK, Sweep
  <2>5. ASSUME NEW s \in Sweepers, NEW r \in Runs, SweepPublishFails(s, r) PROVE <1>4
    BY <1>0, <2>5 DEF SweepPublishFails, TypeOK, Sweep
  <2>6. ASSUME sweep' = sweep PROVE <1>4
    BY <1>0, <2>6 DEF TypeOK
  <2>. QED
    BY <2>1, <2>2, <2>3, <2>4, <2>5, <2>6
    DEF Lose, Redeliver, DrainSelect, DrainRollback, DrainPublish, DrainPublishFails
<1>. QED
  BY <1>0, <1>1, <1>2, <1>3, <1>4 DEF TypeOK

(* The steps that write rows and leave the tasks alone: the API, the marks of
   drains and sweeps, the reap, a heartbeat, the clock. *)
LEMMA RowSteps ==
    ASSUME IInv,
           \/ \E r \in Runs : EnqueueRun(r) \/ CancelRun(r) \/ Expire(r) \/ Due(r) \/ Age(r)
           \/ \E x \in Relays : DrainCommit(x)
           \/ \E w \in Workers : TaskHeartbeat(w)
           \/ \E s \in Sweepers : SweepReap(s) \/ SweepMark(s)
    PROVE  TypeOK' /\ worker' = worker /\ \A r \in Runs : Proper(run[r], run'[r])
<1>0. TypeOK /\ Engaged /\ \A r \in Runs : run[r] \in Row /\ RowInv(run[r])
  BY DEF IInv, TypeOK
<1>1. worker' = worker /\ pointers' = pointers
  BY DEF EnqueueRun, CancelRun, Expire, Due, Age, DrainCommit, TaskHeartbeat, SweepReap, SweepMark
<1>2. DOMAIN run' = Runs /\ run' = [r \in Runs |-> run'[r]]
  BY <1>0 DEF TypeOK, EnqueueRun, CancelRun, Expire, Due, Age, DrainCommit, TaskHeartbeat,
              SweepReap, SweepMark
<1>3. \A r \in Runs : Proper(run[r], run'[r])
  <2>1. ASSUME NEW r \in Runs, EnqueueRun(r) PROVE <1>3
    <3>1. Proper(run[r], AdmitRow) /\ run' = [run EXCEPT ![r] = AdmitRow]
      BY <1>0, <2>1, AdmitSettles DEF EnqueueRun, Proper
    <3>. QED
      BY <3>1, ProperWrite
  <2>2. ASSUME NEW r \in Runs, CancelRun(r) \/ Expire(r) \/ Due(r) PROVE <1>3
    <3>1. PICK new : Proper(run[r], new) /\ run' = [run EXCEPT ![r] = new]
      BY <1>0, <2>2, BystandersSettle, BystandersRefine DEF CancelRun, Expire, Due, Proper
    <3>. QED
      BY <3>1, ProperWrite
  <2>3. ASSUME NEW r \in Runs, Age(r) PROVE <1>3
    <3>1. run' = [run EXCEPT ![r] = [run[r] EXCEPT !.enqueued = "aged"]]
      BY <1>0, <2>3 DEF Age, TypeOK
    <3>2. Proper(run[r], [run[r] EXCEPT !.enqueued = "aged"])
      BY <1>0, MarksSettle DEF Proper
    <3>. QED
      BY <3>1, <3>2, ProperWrite
  <2>4. ASSUME NEW x \in Relays, DrainCommit(x) PROVE <1>3
    <3>1. \A r \in Runs : Proper(run[r], DrainMark(run[r]))
      BY <1>0, MarksSettle DEF Proper, DrainMark
    <3>2. \A r \in Runs : run'[r] = DrainMark(run[r]) \/ run'[r] = run[r]
      BY <2>4 DEF DrainCommit
    <3>. QED
      BY <3>1, <3>2, ProperWrite
  <2>5. ASSUME NEW w \in Workers, TaskHeartbeat(w) PROVE <1>3
    <3> DEFINE r == worker[w].run
    <3>1. r \in Runs /\ run[r].status = "leased" /\ run' = [run EXCEPT ![r] = HeartbeatRow(run[r])]
      BY <1>0, <2>5 DEF TaskHeartbeat, Engaged, HeartbeatHolds, HeldBy
    <3>2. Proper(run[r], HeartbeatRow(run[r]))
      BY <1>0, <3>1, BystandersSettle, BystandersRefine DEF Proper
    <3>. QED
      BY <3>1, <3>2, ProperWrite
  <2>6. ASSUME NEW s \in Sweepers, SweepReap(s) PROVE <1>3
    <3>1. \A r \in Runs : Reapable(run[r]) => Proper(run[r], ReapRow(run[r]))
      BY <1>0, BystandersSettle, BystandersRefine DEF Proper
    <3>2. \A r \in Runs : run'[r] = IF Reapable(run[r]) THEN ReapRow(run[r]) ELSE run[r]
      BY <2>6 DEF SweepReap
    <3>. QED
      BY <3>1, <3>2, ProperWrite
  <2>7. ASSUME NEW s \in Sweepers, SweepMark(s) PROVE <1>3
    <3> DEFINE r == sweep[s].marking
    <3>1. r \in Runs /\ run' = [run EXCEPT ![r] = SweepMarkRow(run[r])]
      BY <1>0, <2>7 DEF SweepMark, TypeOK, Sweep
    <3>2. Proper(run[r], SweepMarkRow(run[r]))
      BY <1>0, <3>1, MarksSettle DEF Proper, SweepMarkRow
    <3>. QED
      BY <3>1, <3>2, ProperWrite
  <2>. QED
    BY <2>1, <2>2, <2>3, <2>4, <2>5, <2>6, <2>7
<1>4. run' \in [Runs -> Row]
  BY <1>2, <1>3 DEF Proper, Settles
<1>5. outbox' \in [Runs -> {"none", "unpublished", "published"}]
  BY <1>0 DEF TypeOK, EnqueueRun, CancelRun, Expire, Due, Age, DrainCommit, TaskHeartbeat,
              SweepReap, SweepMark
<1>6. losses' \in 0..MaxLosses
  <2>1. ASSUME NEW r \in Runs, Due(r) PROVE <1>6
    BY <1>0, <2>1, RunDeliveryAssumption DEF Due, TypeOK
  <2>2. ASSUME losses' = losses PROVE <1>6
    BY <1>0, <2>2 DEF TypeOK
  <2>. QED
    BY <2>1, <2>2 DEF EnqueueRun, CancelRun, Expire, Age, DrainCommit, TaskHeartbeat,
                      SweepReap, SweepMark
<1>7. relay' \in [Relays -> Drain]
  BY <1>0, IdleFacts DEF TypeOK, EnqueueRun, CancelRun, Expire, Due, Age, DrainCommit,
                         TaskHeartbeat, SweepReap, SweepMark
<1>8. sweep' \in [Sweepers -> Sweep]
  <2>1. ASSUME NEW s \in Sweepers, SweepMark(s) PROVE <1>8
    BY <1>0, <2>1 DEF SweepMark, TypeOK, Sweep
  <2>2. ASSUME sweep' = sweep PROVE <1>8
    BY <1>0, <2>2 DEF TypeOK
  <2>. QED
    BY <2>1, <2>2 DEF EnqueueRun, CancelRun, Expire, Due, Age, DrainCommit, TaskHeartbeat, SweepReap
<1>. QED
  BY <1>0, <1>1, <1>3, <1>4, <1>5, <1>6, <1>7, <1>8 DEF TypeOK

(* The steps of a task but its lease: delivered, turned away, raising, ended by
   any outcome the fence lets through, crashed. *)
LEMMA TaskSteps ==
    ASSUME IInv, NEW w \in Workers,
           \/ \E r \in Runs : Deliver(w, r)
           \/ TaskNotAvailable(w) \/ TaskRaises(w) \/ TaskReturns(w) \/ TaskCrash(w)
    PROVE  /\ TypeOK'
           /\ \A v \in Workers : StaysOrRests(v)
           /\ \A r \in Runs : Proper(run[r], run'[r])
<1>0. TypeOK /\ Engaged /\ \A r \in Runs : run[r] \in Row /\ RowInv(run[r])
  BY DEF IInv, TypeOK
<1>1. outbox' = outbox /\ relay' = relay /\ sweep' = sweep
  BY DEF Deliver, TaskNotAvailable, TaskRaises, TaskReturns, TaskCrash
<1>2. worker' \in [Workers -> Task] /\ \A v \in Workers : StaysOrRests(v)
  <2>1. ASSUME worker' = [worker EXCEPT ![w] = Idle] PROVE <1>2
    BY <1>0, <2>1, IdleFacts DEF TypeOK, StaysOrRests
  <2>2. ASSUME NEW r \in Runs, Deliver(w, r) PROVE <1>2
    <3> DEFINE new == [worker[w] EXCEPT !.phase = "delivered", !.run = r]
    <3>1. new \in Task /\ new.phase = "delivered" /\ new.run = r
      BY <1>0 DEF TypeOK, Task
    <3>2. worker' = [worker EXCEPT ![w] = new]
      BY <1>0, <2>2 DEF Deliver, TypeOK
    <3> HIDE DEF new
    <3>. QED
      BY <1>0, <3>1, <3>2 DEF TypeOK, StaysOrRests
  <2>. QED
    BY <2>1, <2>2 DEF TaskNotAvailable, TaskRaises, TaskReturns, TaskCrash
<1>3. pointers' \in [Runs -> 0..MaxPointers] /\ losses' \in 0..MaxLosses
  <2>1. ASSUME NEW r \in Runs, Deliver(w, r) PROVE <1>3
    <3>1. pointers[r] - 1 \in 0..MaxPointers
      <4>1. pointers[r] > 0
        BY <2>1 DEF Deliver
      <4>2. pointers[r] \in 0..MaxPointers
        BY <1>0 DEF TypeOK
      <4>. QED
        BY <4>1, <4>2, RunDeliveryAssumption
    <3>2. pointers' = [pointers EXCEPT ![r] = pointers[r] - 1] /\ losses' = losses
      BY <2>1 DEF Deliver
    <3>. QED
      BY <1>0, <3>1, <3>2 DEF TypeOK
  <2>2. ASSUME TaskCrash(w) PROVE <1>3
    <3>1. worker[w].run \in Runs
      BY <1>0, <2>2 DEF TaskCrash, Engaged
    <3>. QED
      BY <1>0, <2>2, <3>1, RunDeliveryAssumption DEF TaskCrash, TypeOK
  <2>3. ASSUME TaskRaises(w) PROVE <1>3
    BY <1>0, <2>3, RunDeliveryAssumption DEF TaskRaises, TypeOK
  <2>4. ASSUME pointers' = pointers, losses' = losses PROVE <1>3
    BY <1>0, <2>4 DEF TypeOK
  <2>. QED
    BY <2>1, <2>2, <2>3, <2>4 DEF TaskNotAvailable, TaskReturns
<1>4. \A r \in Runs : Proper(run[r], run'[r])
  <2>1. ASSUME run' = run PROVE <1>4
    BY <2>1, ProperWrite
  <2>2. ASSUME TaskReturns(w) PROVE <1>4
    <3> DEFINE r == worker[w].run
               a == worker[w].attempt
    <3>1. /\ r \in Runs /\ run[r] \in Row /\ RowInv(run[r]) /\ a \in 1..MaxAttempts
          /\ HeldBy(run[r], Wid(w)) => a = run[r].attempt
      BY <2>2, FenceIsCurrent DEF TaskReturns
    <3>2. PICK new \in Outcomes(run[r], Wid(w), a) : run' = [run EXCEPT ![r] = new]
      BY <2>2 DEF TaskReturns
    <3>3. \/ new = run[r]
          \/ CompleteHolds(run[r], Wid(w)) /\ new = CompleteRow(run[r], a)
          \/ HeldBy(run[r], Wid(w)) /\ \E t \in BOOLEAN : new = FailRow(run[r], FailTerminal(a, t))
      BY <3>2 DEF Outcomes
    <3>4. Proper(run[r], new)
      BY <3>1, <3>3, HolderSettles, HolderRefines, ProperWrite DEF Proper
    <3>. QED
      BY <3>1, <3>2, <3>4, ProperWrite
  <2>. QED
    BY <2>1, <2>2 DEF Deliver, TaskNotAvailable, TaskRaises, TaskCrash
<1>5. run' \in [Runs -> Row]
  <2>1. run' = run \/ \E r \in Runs : \E new : run' = [run EXCEPT ![r] = new]
    BY <1>0 DEF Deliver, TaskNotAvailable, TaskRaises, TaskReturns, TaskCrash, Engaged
  <2>. QED
    BY <1>0, <1>4, <2>1 DEF TypeOK, Proper, Settles
<1>. QED
  BY <1>0, <1>1, <1>2, <1>3, <1>4, <1>5 DEF TypeOK

-----------------------------------------------------------------------------
(* Initially nothing is admitted, published or delivered. *)
LEMMA InitIInv == Init => IInv
<1> SUFFICES ASSUME Init PROVE IInv
  OBVIOUS
<1>1. AbsentRow \in Row
  BY RunStoreAssumption DEF AbsentRow, Row, Statuses
<1>2. TypeOK
  BY <1>1, IdleFacts, RunDeliveryAssumption DEF Init, TypeOK
<1>3. \A r \in Runs : RowInv(run[r]) /\ run[r].status = "absent"
  BY DEF Init, RowInv, AbsentRow
<1>4. \A w \in Workers : worker[w].run = NoRun /\ worker[w].phase = "idle"
  BY IdleFacts DEF Init
<1>. QED
  BY <1>2, <1>3, <1>4 DEF IInv, Engaged, Remembered, LeaseNamesAttempt

(* Every step keeps the invariant and moves every row along its life. *)
LEMMA NextIInv ==
    ASSUME IInv, [Next]_vars
    PROVE  IInv' /\ \A r \in Runs : Refines(run[r], run'[r])
<1>1. ASSUME TypeOK', \A r \in Runs : Proper(run[r], run'[r]), \A w \in Workers : StaysOrRests(w)
      PROVE  IInv' /\ \A r \in Runs : Refines(run[r], run'[r])
  BY <1>1, QuietStep DEF Proper
<1>2. \A r \in Runs : Proper(run[r], run[r])
  BY ProperWrite
<1>3. CASE UNCHANGED vars
  BY <1>1, <1>2, <1>3 DEF vars, IInv, TypeOK, StaysOrRests
<1>4. ASSUME TypeOK', run' = run, worker' = worker
      PROVE  IInv' /\ \A r \in Runs : Refines(run[r], run'[r])
  BY <1>1, <1>2, <1>4 DEF StaysOrRests
<1>5. ASSUME NEW r \in Runs, \/ EnqueueRun(r) \/ CancelRun(r) \/ Lose(r)
                             \/ Expire(r) \/ Due(r) \/ Age(r)
      PROVE  IInv' /\ \A q \in Runs : Refines(run[q], run'[q])
  BY <1>1, <1>4, <1>5, MessageSteps, RowSteps DEF StaysOrRests
<1>6. ASSUME NEW x \in Relays, \/ DrainSelect(x) \/ DrainCommit(x) \/ DrainRollback(x)
                               \/ \E r \in Runs : DrainPublish(x, r) \/ DrainPublishFails(x, r)
      PROVE  IInv' /\ \A q \in Runs : Refines(run[q], run'[q])
  BY <1>1, <1>4, <1>6, MessageSteps, RowSteps DEF StaysOrRests
<1>7. ASSUME NEW w \in Workers,
             \/ \E r \in Runs : Deliver(w, r)
             \/ TaskNotAvailable(w) \/ TaskRaises(w) \/ TaskReturns(w) \/ TaskCrash(w)
             \/ TaskLeases(w)
      PROVE  IInv' /\ \A q \in Runs : Refines(run[q], run'[q])
  BY <1>1, <1>7, TaskSteps, TaskLeasesStep
<1>8. ASSUME NEW w \in Workers, TaskHeartbeat(w) \/ Redeliver(w)
      PROVE  IInv' /\ \A q \in Runs : Refines(run[q], run'[q])
  BY <1>1, <1>4, <1>8, MessageSteps, RowSteps DEF StaysOrRests
<1>9. ASSUME NEW s \in Sweepers, \/ SweepReap(s) \/ SweepSelect(s)
                                 \/ \E r \in Runs : SweepPublish(s, r) \/ SweepPublishFails(s, r)
                                 \/ SweepMark(s) \/ SweepMarkFails(s) \/ SweepCrash(s)
      PROVE  IInv' /\ \A q \in Runs : Refines(run[q], run'[q])
  BY <1>1, <1>4, <1>9, MessageSteps, RowSteps DEF StaysOrRests
<1>. QED
  BY <1>3, <1>5, <1>6, <1>7, <1>8, <1>9 DEF Next

(* The invariant holds in every reachable state of outbox, broker, task and sweep. *)
THEOREM InvariantHolds == Spec => []IInv
<1>1. IInv /\ [Next]_vars => IInv'
  BY NextIInv
<1>. QED
  BY <1>1, InitIInv, PTL DEF Spec

(* Rows, drains, pointers, tasks and sweeps keep to their types. *)
THEOREM TypeCorrect == Spec => []TypeOK
<1>1. IInv => TypeOK
  BY DEF IInv
<1>. QED
  BY <1>1, InvariantHolds, PTL

\* A write that leaves a live lease to its holder.
LeavesLease(old, new) ==
    old.status = "leased" /\ old.lease_live
    => new.status = "leased" /\ new.leased_by = old.leased_by /\ new.attempt = old.attempt

(* The marks, a heartbeat, the clock, an accepted cancel, an admission, a lease
   and the reap leave a live lease to its holder, each by its own condition. *)
LEMMA StatementsLeaveLeases ==
    ASSUME NEW row \in Row
    PROVE  /\ LeavesLease(row, row)
           /\ \A m : LeavesLease(row, [row EXCEPT !.enqueued = m])
           /\ LeavesLease(row, CancelRow(row)) /\ LeavesLease(row, HeartbeatRow(row))
           /\ LeavesLease(row, LeaseRunsOutRow(row)) /\ LeavesLease(row, BecomesDueRow(row))
           /\ row.status = "absent" => LeavesLease(row, AdmitRow)
           /\ Available(row) => \A wid : LeavesLease(row, LeaseRow(row, wid))
           /\ Reapable(row) => LeavesLease(row, ReapRow(row))
<1>1. \A m : LeavesLease(row, [row EXCEPT !.enqueued = m])
  BY DEF LeavesLease, Row
<1>2. LeavesLease(row, CancelRow(row)) /\ LeavesLease(row, HeartbeatRow(row))
  BY DEF LeavesLease, Row, CancelRow, HeartbeatRow
<1>3. LeavesLease(row, LeaseRunsOutRow(row)) /\ LeavesLease(row, BecomesDueRow(row))
  BY DEF LeavesLease, Row, LeaseRunsOutRow, BecomesDueRow
<1>4. LeavesLease(row, row) /\ (row.status = "absent" => LeavesLease(row, AdmitRow))
  BY DEF LeavesLease
<1>5. Available(row) => \A wid : LeavesLease(row, LeaseRow(row, wid))
  BY DEF LeavesLease, Available
<1>6. Reapable(row) => LeavesLease(row, ReapRow(row))
  BY DEF LeavesLease, Reapable
<1>. QED
  BY <1>1, <1>2, <1>3, <1>4, <1>5, <1>6

(* No step but one of the holder itself takes a run whose lease is live. *)
LEMMA HolderKept ==
    ASSUME IInv, [Next]_vars, NEW w \in Workers, worker[w].phase = "working",
           worker'[w] = worker[w], HeldBy(run[worker[w].run], Wid(w))
    PROVE  LeavesLease(run[worker[w].run], run'[worker[w].run])
<1>. DEFINE r == worker[w].run
<1>0. /\ r \in Runs /\ run \in [Runs -> Row] /\ worker \in [Workers -> Task] /\ Engaged
      /\ run[r] \in Row /\ run[r].leased_by = <<w, worker[w].attempt>>
  BY DEF IInv, TypeOK, Engaged, HeldBy, Wid
<1>. HIDE DEF r
<1>1. ASSUME run' = run PROVE LeavesLease(run[r], run'[r])
  BY <1>0, <1>1, StatementsLeaveLeases
<1>2. ASSUME NEW q \in Runs, NEW new, run' = [run EXCEPT ![q] = new], q = r => LeavesLease(run[r], new)
      PROVE  LeavesLease(run[r], run'[r])
  BY <1>0, <1>2, StatementsLeaveLeases
<1>3. ASSUME NEW q \in Runs, EnqueueRun(q) \/ CancelRun(q) \/ Expire(q) \/ Due(q)
      PROVE  LeavesLease(run[r], run'[r])
  BY <1>0, <1>2, <1>3, StatementsLeaveLeases DEF EnqueueRun, CancelRun, Expire, Due
<1>4. ASSUME NEW q \in Runs, Age(q) PROVE LeavesLease(run[r], run'[r])
  <2>1. run' = [run EXCEPT ![q] = [run[q] EXCEPT !.enqueued = "aged"]]
    BY <1>0, <1>4 DEF Age
  <2>. QED
    BY <1>0, <1>2, <2>1, StatementsLeaveLeases
<1>5. ASSUME NEW x \in Relays, DrainCommit(x) PROVE LeavesLease(run[r], run'[r])
  <2>1. run'[r] = DrainMark(run[r]) \/ run'[r] = run[r]
    BY <1>0, <1>5 DEF DrainCommit
  <2>2. PICK m : DrainMark(run[r]) = [run[r] EXCEPT !.enqueued = m]
    BY DEF DrainMark
  <2>. QED
    BY <1>0, <2>1, <2>2, StatementsLeaveLeases
<1>6. ASSUME NEW s \in Sweepers, SweepReap(s) PROVE LeavesLease(run[r], run'[r])
  <2>1. run'[r] = IF Reapable(run[r]) THEN ReapRow(run[r]) ELSE run[r]
    BY <1>0, <1>6 DEF SweepReap
  <2>. QED
    BY <1>0, <2>1, StatementsLeaveLeases
<1>7. ASSUME NEW s \in Sweepers, SweepMark(s) PROVE LeavesLease(run[r], run'[r])
  <2>1. sweep[s].marking \in Runs
    BY <1>7 DEF SweepMark, IInv, TypeOK, Sweep
  <2>2. run' = [run EXCEPT ![sweep[s].marking] = SweepMarkRow(run[sweep[s].marking])]
    BY <1>7 DEF SweepMark
  <2>3. LeavesLease(run[r], SweepMarkRow(run[r]))
    BY <1>0, StatementsLeaveLeases DEF SweepMarkRow
  <2>. QED
    BY <1>2, <2>1, <2>2, <2>3
<1>8. ASSUME NEW v \in Workers, TaskHeartbeat(v) PROVE LeavesLease(run[r], run'[r])
  <2>1. worker[v].run \in Runs
    BY <1>0, <1>8 DEF TaskHeartbeat, Engaged
  <2>2. run' = [run EXCEPT ![worker[v].run] = HeartbeatRow(run[worker[v].run])]
    BY <1>8 DEF TaskHeartbeat
  <2>. QED
    BY <1>0, <1>2, <2>1, <2>2, StatementsLeaveLeases
<1>9. ASSUME NEW v \in Workers, TaskLeases(v) PROVE LeavesLease(run[r], run'[r])
  <2>1. worker[v].run \in Runs /\ Available(run[worker[v].run])
    BY <1>0, <1>9 DEF TaskLeases, Engaged
  <2>2. PICK wid : run' = [run EXCEPT ![worker[v].run] = LeaseRow(run[worker[v].run], wid)]
    BY <1>9 DEF TaskLeases
  <2>. QED
    BY <1>0, <1>2, <2>1, <2>2, StatementsLeaveLeases
<1>10. ASSUME NEW v \in Workers, TaskReturns(v) PROVE LeavesLease(run[r], run'[r])
  <2>1. v # w /\ worker[v].run \in Runs
    <3>1. worker'[v] = Idle /\ worker[v].run \in Runs
      BY <1>0, <1>10 DEF TaskReturns, Engaged
    <3>. QED
      BY <3>1, IdleFacts
  <2>2. PICK new \in Outcomes(run[worker[v].run], Wid(v), worker[v].attempt) :
            run' = [run EXCEPT ![worker[v].run] = new]
    BY <1>10 DEF TaskReturns
  <2>3. ~HeldBy(run[r], Wid(v))
    BY <1>0, <2>1 DEF HeldBy, Wid
  <2>4. ASSUME worker[v].run = r PROVE new = run[r]
    <3>1. new \in Outcomes(run[r], Wid(v), worker[v].attempt)
      BY <2>2, <2>4
    <3>. QED
      BY <2>3, <3>1, Zenon DEF Outcomes, CompleteHolds
  <2>. QED
    BY <1>0, <1>2, <2>1, <2>2, <2>4, StatementsLeaveLeases
<1>. QED
  BY <1>1, <1>3, <1>4, <1>5, <1>6, <1>7, <1>8, <1>9, <1>10
     DEF Next, vars, r, Lose, DrainSelect, DrainRollback, DrainPublish, DrainPublishFails, Deliver,
         TaskNotAvailable, TaskRaises, TaskCrash, Redeliver, SweepSelect, SweepPublish,
         SweepPublishFails, SweepMarkFails, SweepCrash

(* However often a pointer is delivered, late or twice, and however many sweeps and
   drains overlap, a task at work keeps the run whose live lease it holds
   (acquire_specific, reap_expired, drain). *)
THEOREM HoldersAreLeftAlone == Spec => HoldersKeepTheirRun
<1>1. ASSUME IInv, [Next]_vars, NEW w \in Workers, worker[w].phase = "working", worker'[w] = worker[w],
             HeldBy(run[worker[w].run], Wid(w)), run[worker[w].run].lease_live
      PROVE  /\ HeldBy(run'[worker[w].run], Wid(w))
             /\ run'[worker[w].run].attempt = worker[w].attempt
  <2>1. LeavesLease(run[worker[w].run], run'[worker[w].run])
    BY <1>1, HolderKept
  <2>2. worker[w].attempt = run[worker[w].run].attempt
    BY <1>1, FenceIsCurrent
  <2>. QED
    BY <1>1, <2>1, <2>2 DEF LeavesLease, HeldBy
<1>2. IInv /\ [Next]_vars
      => [\A w \in Workers :
            worker[w].phase = "working" /\ worker'[w] = worker[w]
            => LET r == worker[w].run IN
               HeldBy(run[r], Wid(w)) /\ run[r].lease_live
               => HeldBy(run'[r], Wid(w)) /\ run'[r].attempt = worker[w].attempt]_vars
  BY <1>1
<1>. QED
  BY <1>2, InvariantHolds, PTL DEF Spec, HoldersKeepTheirRun

(* A step that moves every row along its life is a step of the lifecycle. *)
LEMMA RowsRefine ==
    ASSUME TypeOK, TypeOK', \A r \in Runs : Refines(run[r], run'[r])
    PROVE  [Lifecycle!Next]_(Lifecycle!vars)
<1>1. Lifecycle!TypeOK'
  BY DEF TypeOK, Lifecycle!TypeOK, Lifecycle!Outcomes, Row, Statuses, Terminal
<1>2. ASSUME NEW r \in Runs
      PROVE  \/ Lifecycle!Admit(r) \/ Lifecycle!Start(r) \/ Lifecycle!Retry(r)
             \/ Lifecycle!Succeed(r) \/ Lifecycle!Fail(r) \/ Lifecycle!AcceptCancel(r)
             \/ Lifecycle!FinishCancel(r) \/ Lifecycle!Rests(r)
  <2>1. Refines(run[r], run'[r])
    OBVIOUS
  <2>. QED
    BY <2>1 DEF Refines, Same, Lifecycle!Admit, Lifecycle!Start, Lifecycle!Retry,
                Lifecycle!Succeed, Lifecycle!Fail, Lifecycle!AcceptCancel,
                Lifecycle!FinishCancel, Lifecycle!Rests
<1>. QED
  BY <1>1, <1>2 DEF Lifecycle!Next

(* Outbox, broker, task and sweep implement the promised life of a run, for any
   number of runs, also where one reap or one drain writes many of them. *)
THEOREM Refinement == Spec => ImplementsLifecycle
<1>1. Init => Lifecycle!Init
  BY DEF Init, Lifecycle!Init, AbsentRow
<1>2. IInv /\ IInv' /\ [Next]_vars => [Lifecycle!Next]_(Lifecycle!vars)
  BY NextIInv, RowsRefine DEF IInv
<1>. QED
  BY <1>1, <1>2, InvariantHolds, PTL DEF Spec, ImplementsLifecycle, Lifecycle!Spec
=============================================================================

---------------------------- MODULE AgentProofs -----------------------------
(***************************************************************************)
(* Proofs about what a run does and what it spends: ToolRuntime, for any   *)
(* sets of calls, keys, people, approvals and concurrent requests, and     *)
(* BudgetLedger, for any number of model calls, any estimates, charges and *)
(* ceilings.                                                               *)
(*                                                                         *)
(* What makes an effect happen once is the receipt: of all requests with a *)
(* key only the one whose INSERT went through executes, and nobody takes   *)
(* its place when it dies.  The inductive invariant says so (Executing,    *)
(* OneExecutor), follows the handler's thread, which outlives the request  *)
(* (ThreadInv), and the approval from its insertion to its consumption     *)
(* (ApprovalInv, ReviewInv, Signed).                                       *)
(*                                                                         *)
(* The ledger compares sums over reservations and calls.  That a sum may   *)
(* be taken in any order is shown first, from the recursive function       *)
(* behind it: a smallest set on which a claim fails leads to a smaller     *)
(* one.  Then every step moves one call, and a sum by what that call holds *)
(* or owes (LedgerInv).                                                    *)
(***************************************************************************)
EXTENDS ToolRuntime, BudgetLedger, FiniteSetTheorems, WellFoundedInduction, TLAPS

(* Tools.                                                                  *)
Executing == {"started", "waiting", "failing", "returned"}

\* A request knows its call and its key; one that executes is the owner of an
\* open receipt for that call, and where it stands agrees with the thread.
RequestInv ==
    \A q \in Requests :
        /\ request[q].phase # "idle" => request[q].call \in Calls /\ request[q].key \in Keys
        /\ request[q].phase \in Executing =>
              /\ receipt[request[q].key].status = "started"
              /\ receipt[request[q].key].call = request[q].call
        /\ request[q].phase = "started" => thread[request[q].key] = "off"
        /\ request[q].phase = "returned" => thread[request[q].key] = "returned"

OneExecutor ==
    \A q1, q2 \in Requests :
        /\ request[q1].phase \in Executing /\ request[q2].phase \in Executing
        /\ request[q1].key = request[q2].key
        => q1 = q2

\* A thread needs a receipt; the effect lands when it ends, and a receipt says
\* "succeeded" only of a handler that returned.
ThreadInv ==
    \A k \in Keys :
        /\ receipt[k].status = "none" => thread[k] = "off" /\ receipt[k].approval = NoApproval
        /\ thread[k] \in {"off", "running"} => landed[k] = 0
        /\ thread[k] = "returned" => landed[k] = 1
        /\ landed[k] \in {0, 1}
        /\ receipt[k].status = "succeeded" => thread[k] = "returned"

\* Only an approved row is consumed, and it was approved by another person.
ApprovalInv ==
    \A a \in Approvals :
        /\ approval[a].consumed => approval[a].status = "approved"
        /\ approval[a].status = "approved" =>
              approval[a].decided_by \in Reviewers \ {approval[a].requested_by}

\* What a reviewer has read stays true until the reviewer writes.
ReviewInv ==
    \A p \in Principals : review[p] # NoApproval =>
        /\ approval[review[p]].status # "none"
        /\ p \in Reviewers \ {approval[review[p]].requested_by}

\* An execution of a gated tool has consumed the approval it names.
Signed ==
    \A k \in Keys : receipt[k].status # "none" /\ receipt[k].call.tool \in Gated =>
        /\ receipt[k].approval \in Approvals
        /\ approval[receipt[k].approval].consumed
        /\ approval[receipt[k].approval].call = receipt[k].call

\* No two executions have one approval.
SignedOnce ==
    \A j, k \in Keys :
        /\ receipt[j].status # "none" /\ receipt[j].call.tool \in Gated
        /\ receipt[k].status # "none" /\ receipt[k].call.tool \in Gated
        /\ receipt[j].approval = receipt[k].approval
        => j = k

ToolInv ==
    /\ TypeOK
    /\ RequestInv
    /\ OneExecutor
    /\ ThreadInv
    /\ ApprovalInv
    /\ ReviewInv
    /\ Signed
    /\ SignedOnce
    /\ SuccessIsReal

-----------------------------------------------------------------------------
\* A step of request q leaves the other requests alone.
Others(q) ==
    /\ request' \in [Requests -> RequestState]
    /\ \A x \in Requests \ {q} : request'[x] = request[x]

\* The request keeps its arguments.
SameCall(q) ==
    /\ request'[q].call = request[q].call /\ request'[q].key = request[q].key
    
(* The records the handlers write are rows of their tables (ToolApproval,
   ToolExecution) or states of a request. *)
LEMMA RowFacts ==
    /\ Idle \in RequestState /\ Idle.phase = "idle"
    /\ \A c \in Calls \cup {NoCall}, k \in Keys \cup {NoKey} :
          LET s == [Idle EXCEPT !.phase = "succeeded", !.call = c, !.key = k] IN
          s \in RequestState /\ s.phase = "succeeded" /\ s.call = c /\ s.key = k
    /\ AbsentApproval \in ApprovalRow /\ AbsentApproval.status = "none"
    /\ AbsentApproval.consumed = FALSE
    /\ NoReceipt \in ReceiptRow /\ NoReceipt.status = "none" /\ NoReceipt.approval = NoApproval
<1>1. Idle \in RequestState /\ Idle.phase = "idle"
  BY DEF Idle, RequestState, Phases
<1>2. ASSUME NEW c \in Calls \cup {NoCall}, NEW k \in Keys \cup {NoKey}
      PROVE  LET s == [Idle EXCEPT !.phase = "succeeded", !.call = c, !.key = k] IN
             s \in RequestState /\ s.phase = "succeeded" /\ s.call = c /\ s.key = k
  BY <1>1 DEF RequestState, Phases
<1>3. AbsentApproval \in ApprovalRow /\ AbsentApproval.status = "none"
        /\ AbsentApproval.consumed = FALSE
  BY DEF AbsentApproval, ApprovalRow
<1>4. NoReceipt \in ReceiptRow /\ NoReceipt.status = "none" /\ NoReceipt.approval = NoApproval
  BY DEF NoReceipt, ReceiptRow
<1>. QED
  BY <1>1, <1>2, <1>3, <1>4

(* The row that _request_approval inserts. *)
LEMMA PendingFacts ==
    ASSUME NEW c \in Calls \cup {NoCall}, NEW p \in Principals \cup {Nobody}
    PROVE  LET s == [AbsentApproval EXCEPT !.status = "pending", !.call = c,
                                           !.requested_by = p, !.live = TRUE] IN
           s \in ApprovalRow /\ s.status = "pending" /\ s.consumed = FALSE
<1>1. AbsentApproval \in ApprovalRow /\ AbsentApproval.consumed = FALSE
  BY RowFacts
<1>. QED
  BY <1>1 DEF ApprovalRow

(* What becomes of the table of requests when one of them is refused, moves on
   or is answered from an existing receipt (_resolve_existing). *)
LEMMA RequestMoves ==
    ASSUME request \in [Requests -> RequestState], NEW q \in Requests
    PROVE  /\ Refuse(q) => Others(q) /\ request'[q].phase = "idle"
           /\ \A phase \in Phases : Goto(q, phase) =>
                 Others(q) /\ request'[q].phase = phase /\ SameCall(q)
           /\ \A c \in Calls \cup {NoCall}, k \in Keys \cup {NoKey} : Resolve(q, c, k) =>
                 /\ Others(q)
                 /\ \/ request'[q].phase = "idle"
                    \/ /\ Replays(receipt[k], c)
                       /\ request'[q].phase = "succeeded"
                       /\ request'[q].call = c /\ request'[q].key = k
<1>1. ASSUME Refuse(q) PROVE Others(q) /\ request'[q].phase = "idle"
  BY <1>1, RowFacts DEF Refuse, Others
<1>2. ASSUME NEW phase \in Phases, Goto(q, phase)
      PROVE  Others(q) /\ request'[q].phase = phase /\ SameCall(q)
  <2>1. [request[q] EXCEPT !.phase = phase] \in RequestState
    BY DEF RequestState
  <2>. QED
    BY <1>2, <2>1 DEF Goto, Others, SameCall, RequestState
<1>3. ASSUME NEW c \in Calls \cup {NoCall}, NEW k \in Keys \cup {NoKey}, Resolve(q, c, k)
      PROVE  /\ Others(q)
             /\ \/ request'[q].phase = "idle"
                \/ /\ Replays(receipt[k], c)
                   /\ request'[q].phase = "succeeded"
                   /\ request'[q].call = c /\ request'[q].key = k
  <2>. DEFINE s == [Idle EXCEPT !.phase = "succeeded", !.call = c, !.key = k]
  <2>1. Idle \in RequestState /\ Idle.phase = "idle"
    BY RowFacts
  <2>2. s \in RequestState /\ s.phase = "succeeded" /\ s.call = c /\ s.key = k
    BY RowFacts
  <2>3. request' = [request EXCEPT ![q] = IF Replays(receipt[k], c) THEN s ELSE Idle]
    BY <1>3 DEF Resolve
  <2>. HIDE DEF s
  <2>. QED
    BY <2>1, <2>2, <2>3 DEF Others
<1>. QED
  BY <1>1, <1>2, <1>3

(* A new request is answered from a receipt, asks for an approval or goes on to
   the execution (invoke). *)
LEMMA InvokeMoves ==
    ASSUME request \in [Requests -> RequestState], NEW q \in Requests, NEW c \in Calls,
           NEW k \in Keys, NEW a \in Approvals \cup {NoApproval}, NEW p \in Principals,
           Invoke(q, c, k, a, p)
    PROVE  /\ Others(q)
           /\ \/ request'[q].phase = "idle"
              \/ /\ request'[q].call = c /\ request'[q].key = k
                 /\ \/ request'[q].phase \in {"asking", "starting"}
                    \/ Replays(receipt[k], c) /\ request'[q].phase = "succeeded"
<1>. DEFINE open(phase, by) == [phase |-> phase, call |-> c, key |-> k, by |-> by, approval |-> a]
<1>1. CASE receipt[k].status # "none"
  <2>1. Resolve(q, c, k)
    BY <1>1 DEF Invoke
  <2>. QED
    BY <2>1, RequestMoves
<1>2. CASE \E phase \in {"asking", "starting"}, by \in Principals \cup {Nobody} :
              request' = [request EXCEPT ![q] = open(phase, by)]
  <2>1. PICK phase \in {"asking", "starting"}, by \in Principals \cup {Nobody} :
              request' = [request EXCEPT ![q] = open(phase, by)]
    BY <1>2
  <2>2. open(phase, by) \in RequestState
    BY DEF RequestState, Phases
  <2>. QED
    BY <2>1, <2>2 DEF Others
<1>. QED
  BY <1>1, <1>2 DEF Invoke

(* The loser of the race for a key is answered from the winner's receipt. *)
LEMMA RaceMoves ==
    ASSUME request \in [Requests -> RequestState], NEW q \in Requests, StartRaced(q)
    PROVE  /\ Others(q)
           /\ \/ request'[q].phase = "idle"
              \/ /\ Replays(receipt[request[q].key], request[q].call)
                 /\ request'[q].phase = "succeeded" /\ SameCall(q)
<1>1. request[q].call \in Calls \cup {NoCall} /\ request[q].key \in Keys \cup {NoKey}
  BY DEF RequestState
<1>. QED
  BY <1>1, RequestMoves DEF StartRaced, SameCall

(* The closing UPDATE changes the status of the receipt it finds open, and
   nothing else (_finish). *)
LEMMA FinishedFacts ==
    ASSUME receipt \in [Keys -> ReceiptRow], NEW k \in Keys \cup {NoKey},
           NEW status \in {"succeeded", "failed", "needs_reconciliation"},
           receipt' = Finished(k, status)
    PROVE  /\ receipt' \in [Keys -> ReceiptRow]
           /\ \A j \in Keys : /\ receipt'[j].call = receipt[j].call
                              /\ receipt'[j].approval = receipt[j].approval
                              /\ receipt'[j].status = IF j = k /\ receipt[j].status = "started"
                                                      THEN status ELSE receipt[j].status
<1>1. CASE k \in Keys /\ receipt[k].status = "started"
  <2>1. receipt' = [receipt EXCEPT ![k].status = status]
    BY <1>1 DEF Finished
  <2>. QED
    BY <1>1, <2>1 DEF ReceiptRow
<1>2. CASE ~(k \in Keys /\ receipt[k].status = "started")
  <2>1. receipt' = receipt
    BY <1>2 DEF Finished
  <2>. QED
    BY <1>2, <2>1
<1>. QED
  BY <1>1, <1>2

\* The execution of q consumes its approval if its tool is gated, and no other.
Consumed(q, a) ==
    /\ approval[a].consumed => approval'[a].consumed
    /\ request[q].call.tool \in Gated /\ a = request[q].approval => approval'[a].consumed
    /\ approval'[a].consumed /\ ~approval[a].consumed =>
          request[q].call.tool \in Gated /\ a = request[q].approval

(* The transaction that opens an execution writes the receipt and, for a gated
   tool, consumes the approval (_start_execution). *)
LEMMA StartFacts ==
    ASSUME TypeOK, NEW q \in Requests, StartExecution(q)
    PROVE  /\ receipt' = [receipt EXCEPT ![request[q].key] =
                 [status |-> "started", call |-> request[q].call, approval |-> request[q].approval]]
           /\ receipt' \in [Keys -> ReceiptRow]
           /\ approval' \in [Approvals -> ApprovalRow]
           /\ \A a \in Approvals :
                 /\ approval'[a].status = approval[a].status
                 /\ approval'[a].call = approval[a].call
                 /\ approval'[a].requested_by = approval[a].requested_by
                 /\ approval'[a].decided_by = approval[a].decided_by
                 /\ Consumed(q, a)
<1>1. receipt' = [receipt EXCEPT ![request[q].key] =
         [status |-> "started", call |-> request[q].call, approval |-> request[q].approval]]
  BY DEF StartExecution
<1>2. receipt' \in [Keys -> ReceiptRow]
  BY <1>1 DEF TypeOK, ReceiptRow, RequestState
<1>3. CASE request[q].call.tool \in Gated
  <2>1. request[q].approval \in Approvals
    BY <1>3 DEF StartExecution, ConsumeHolds, TypeOK, RequestState
  <2>2. approval' = [approval EXCEPT ![request[q].approval].consumed = TRUE]
    BY <1>3 DEF StartExecution
  <2>3. approval' \in [Approvals -> ApprovalRow]
    <3>0. ASSUME NEW row \in ApprovalRow PROVE [row EXCEPT !.consumed = TRUE] \in ApprovalRow
      BY DEF ApprovalRow
    <3>1. [approval[request[q].approval] EXCEPT !.consumed = TRUE] \in ApprovalRow
      BY <2>1, <3>0 DEF TypeOK
    <3>. QED
      BY <2>1, <2>2, <3>1 DEF TypeOK
  <2>4. ASSUME NEW a \in Approvals
        PROVE  /\ approval'[a].status = approval[a].status
               /\ approval'[a].call = approval[a].call
               /\ approval'[a].requested_by = approval[a].requested_by
               /\ approval'[a].decided_by = approval[a].decided_by
               /\ Consumed(q, a)
    BY <1>3, <2>1, <2>2 DEF TypeOK, ApprovalRow, Consumed
  <2>. QED
    BY <1>1, <1>2, <1>3, <2>3, <2>4 DEF TypeOK
<1>4. CASE request[q].call.tool \notin Gated
  <2>1. approval' = approval
    BY <1>4 DEF StartExecution
  <2>. QED
    BY <1>1, <1>2, <1>4, <2>1 DEF TypeOK, Consumed
<1>. QED
  BY <1>3, <1>4

(* Every row and request keeps to its type, whatever invoke, decide and the
   clock do (invoke, decide, grant, revoke). *)
LEMMA ToolTypeStep ==
    ASSUME TypeOK, [Next]_vars
    PROVE  TypeOK'
<1>. USE DEF TypeOK
<1>a. ASSUME NEW q \in Requests, NEW c \in Calls, NEW k \in Keys,
             NEW a \in Approvals \cup {NoApproval}, NEW p \in Principals, Invoke(q, c, k, a, p)
      PROVE  TypeOK'
  BY <1>a, InvokeMoves DEF Invoke, Others
<1>b. ASSUME NEW q \in Requests, NEW a \in Approvals, InsertApproval(q, a)
      PROVE  TypeOK'
  <2>. DEFINE s == [AbsentApproval EXCEPT !.status = "pending", !.call = request[q].call,
                                          !.requested_by = request[q].by, !.live = TRUE]
  <2>1. s \in ApprovalRow
    BY PendingFacts DEF RequestState
  <2>. HIDE DEF s
  <2>2. approval' = [approval EXCEPT ![a] = s]
    BY <1>b DEF InsertApproval, s
  <2>. QED
    BY <1>b, <2>1, <2>2, RequestMoves DEF InsertApproval, Others
<1>c. ASSUME NEW q \in Requests, StartExecution(q) PROVE TypeOK'
  BY <1>c, StartFacts, RequestMoves DEF StartExecution, Others, Phases
<1>d. ASSUME NEW q \in Requests, StartRaced(q) PROVE TypeOK'
  BY <1>d, RaceMoves DEF StartRaced, Others
<1>e. ASSUME NEW q \in Requests,
             FindApproval(q) \/ StartRefused(q) \/ FinishRaises(q) \/ Done(q) \/ Crash(q)
      PROVE  TypeOK'
  BY <1>e, RequestMoves DEF FindApproval, StartRefused, FinishRaises, Done, Crash, Refuse, Others,
                            Phases
<1>f. ASSUME NEW q \in Requests, Submit(q) \/ FutureResult(q) PROVE TypeOK'
  BY <1>f, RequestMoves DEF Submit, FutureResult, Others, Phases
<1>g. ASSUME NEW q \in Requests, FinishFailure(q) \/ FinishSuccess(q) \/ FinishOversized(q)
      PROVE  TypeOK'
  <2>1. receipt' \in [Keys -> ReceiptRow]
    <3>1. request[q].key \in Keys \cup {NoKey}
      BY DEF RequestState
    <3>. QED
      BY <1>g, <3>1, FinishedFacts DEF FinishFailure, FinishSuccess, FinishOversized, FailureStatus
  <2>. QED
    BY <1>g, <2>1, RequestMoves DEF FinishFailure, FinishSuccess, FinishOversized, Others, Phases
<1>h. ASSUME NEW k \in Keys, NEW how \in {"returned", "raised"}, HandlerEnds(k, how)
      PROVE  TypeOK'
  BY <1>h DEF HandlerEnds
<1>i. ASSUME NEW p \in Principals, NEW a \in Approvals, Review(p, a) PROVE TypeOK'
  BY <1>i DEF Review
<1>j. ASSUME NEW p \in Principals, NEW v \in {"approved", "rejected"}, Decide(p, v) PROVE TypeOK'
  <2>1. approval' \in [Approvals -> ApprovalRow]
    BY <1>j DEF Decide, ApprovalRow
  <2>. QED
    BY <1>j, <2>1 DEF Decide
<1>k. ASSUME NEW p \in Principals, NEW c \in Calls,
             (\E g \in Principals : Grant(g, p, c.tool)) \/ Revoke(p, c.tool)
      PROVE  TypeOK'
  BY <1>k DEF Grant, Revoke
<1>l. ASSUME NEW a \in Approvals, ApprovalLapses(a) PROVE TypeOK'
  <2>1. approval' \in [Approvals -> ApprovalRow]
    BY <1>l DEF ApprovalLapses, ApprovalRow
  <2>. QED
    BY <1>l, <2>1 DEF ApprovalLapses
<1>m. ASSUME NEW r \in Runs, CancelRun(r) PROVE TypeOK'
  BY <1>m DEF CancelRun
<1>n. CASE UNCHANGED vars
  BY <1>n DEF vars
<1>. QED
  BY <1>a, <1>b, <1>c, <1>d, <1>e, <1>f, <1>g, <1>h, <1>i, <1>j, <1>k, <1>l, <1>m, <1>n DEF Next

-----------------------------------------------------------------------------
\* A step of one request that writes no table: it ends, waits for an approval or
\* for its turn, is answered from a receipt, or goes on with its execution.
Quiet(q) ==
    /\ Others(q)
    /\ UNCHANGED <<approval, receipt, thread, landed, review>>
    /\ \/ request'[q].phase = "idle"
       \/ /\ request'[q].call \in Calls /\ request'[q].key \in Keys
          /\ \/ request'[q].phase \in {"asking", "inserting", "starting"}
             \/ /\ request'[q].phase = "succeeded"
                /\ Replays(receipt[request'[q].key], request'[q].call)
             \/ /\ request[q].phase \in Executing /\ SameCall(q)
                /\ \/ request'[q].phase = "failing"
                   \/ /\ request'[q].phase = "returned"
                      /\ thread[request[q].key] = "returned"

(* Such a step keeps the invariant: a replayed result has its effect behind it. *)
LEMMA QuietPreserves ==
    ASSUME ToolInv, NEW q \in Requests, Quiet(q), TypeOK'
    PROVE  ToolInv'
<1>. USE DEF ToolInv, Quiet, Others
<1>1. RequestInv'
  BY DEF RequestInv, Executing, SameCall
<1>2. OneExecutor'
  BY DEF OneExecutor, Executing, SameCall
<1>3. ThreadInv' /\ ApprovalInv' /\ ReviewInv' /\ Signed' /\ SignedOnce'
  BY DEF ThreadInv, ApprovalInv, ReviewInv, Signed, SignedOnce
<1>4. SuccessIsReal'
  BY DEF SuccessIsReal, Executing, SameCall, Replays, ThreadInv
<1>. QED
  BY <1>1, <1>2, <1>3, <1>4

(* The steps of invoke that write nothing but the request. *)
LEMMA QuietSteps ==
    ASSUME ToolInv, NEW q \in Requests
    PROVE  /\ \A c \in Calls, k \in Keys, a \in Approvals \cup {NoApproval}, p \in Principals :
                 Invoke(q, c, k, a, p) => Quiet(q)
           /\ FindApproval(q) => Quiet(q)
           /\ StartRaced(q) => Quiet(q)
           /\ StartRefused(q) => Quiet(q)
           /\ FutureResult(q) => Quiet(q)
           /\ FinishRaises(q) \/ Done(q) \/ Crash(q) => Quiet(q)
<1>0. request \in [Requests -> RequestState]
  BY DEF ToolInv, TypeOK
<1>1. ASSUME NEW c \in Calls, NEW k \in Keys, NEW a \in Approvals \cup {NoApproval},
             NEW p \in Principals, Invoke(q, c, k, a, p)
      PROVE  Quiet(q)
  BY <1>0, <1>1, InvokeMoves DEF Quiet, Invoke
<1>2. ASSUME FindApproval(q) PROVE Quiet(q)
  BY <1>0, <1>2, RequestMoves DEF Quiet, FindApproval, ToolInv, RequestInv, SameCall, Phases
<1>3. ASSUME StartRaced(q) PROVE Quiet(q)
  BY <1>0, <1>3, RaceMoves DEF Quiet, StartRaced, ToolInv, RequestInv, SameCall
<1>4. ASSUME StartRefused(q) PROVE Quiet(q)
  BY <1>0, <1>4, RequestMoves DEF Quiet, StartRefused
<1>5. ASSUME FutureResult(q) PROVE Quiet(q)
  BY <1>0, <1>5, RequestMoves DEF Quiet, FutureResult, ToolInv, RequestInv, SameCall, Phases, Executing
<1>6. ASSUME FinishRaises(q) \/ Done(q) \/ Crash(q) PROVE Quiet(q)
  BY <1>0, <1>6, RequestMoves DEF Quiet, FinishRaises, Done, Crash, Refuse
<1>. QED
  BY <1>1, <1>2, <1>3, <1>4, <1>5, <1>6

(* Opening an execution: the key had no receipt, so nobody else executes it and
   nothing has landed; a gated tool's approval was not consumed, so no other
   receipt names it (_start_execution). *)
LEMMA StartPreserves ==
    ASSUME ToolInv, TypeOK', NEW q \in Requests, StartExecution(q)
    PROVE  ToolInv'
<1>. DEFINE k == request[q].key
<1>1. /\ Others(q) /\ request'[q].phase = "started" /\ SameCall(q)
      /\ UNCHANGED <<thread, landed, review>>
  BY RequestMoves DEF ToolInv, TypeOK, StartExecution, Phases
<1>2. k \in Keys /\ request[q].call \in Calls /\ request[q].phase = "starting"
  BY DEF ToolInv, RequestInv, StartExecution
<1>3. receipt[k].status = "none" /\ thread[k] = "off" /\ landed[k] = 0
  BY <1>2 DEF StartExecution, Conflict, ToolInv, ThreadInv
<1>4. /\ receipt'[k].status = "started" /\ receipt'[k].call = request[q].call
      /\ receipt'[k].approval = request[q].approval
      /\ \A j \in Keys \ {k} : receipt'[j] = receipt[j]
  <2>1. TypeOK /\ receipt \in [Keys -> ReceiptRow]
    BY DEF ToolInv, TypeOK
  <2>2. receipt' = [receipt EXCEPT ![k] =
           [status |-> "started", call |-> request[q].call, approval |-> request[q].approval]]
    BY <2>1, StartFacts
  <2>. QED
    BY <1>2, <2>1, <2>2
<1>5. request[q].call.tool \in Gated =>
         /\ request[q].approval \in Approvals
         /\ ~approval[request[q].approval].consumed
         /\ approval[request[q].approval].status = "approved"
         /\ approval[request[q].approval].call = request[q].call
  BY DEF StartExecution, ConsumeHolds, ToolInv, TypeOK, RequestState
<1>6. \A a \in Approvals :
         /\ approval'[a].status = approval[a].status
         /\ approval'[a].call = approval[a].call
         /\ approval'[a].requested_by = approval[a].requested_by
         /\ approval'[a].decided_by = approval[a].decided_by
         /\ Consumed(q, a)
  <2>1. TypeOK
    BY DEF ToolInv
  <2>. QED
    BY <2>1, StartFacts
<1>. HIDE DEF k
<1>a. RequestInv'
  BY <1>1, <1>2, <1>3, <1>4 DEF ToolInv, RequestInv, Executing, Others, SameCall, k
<1>b. OneExecutor'
  BY <1>1, <1>2, <1>3 DEF ToolInv, RequestInv, OneExecutor, Executing, Others, SameCall, k
<1>c. ThreadInv'
  BY <1>1, <1>2, <1>3, <1>4 DEF ToolInv, ThreadInv
<1>d. ApprovalInv'
  BY <1>5, <1>6 DEF ToolInv, ApprovalInv, Consumed
<1>e. ReviewInv'
  BY <1>1, <1>6 DEF ToolInv, TypeOK, ReviewInv
<1>f. Signed'
  <2>. SUFFICES ASSUME NEW j \in Keys, receipt'[j].status # "none",
                       receipt'[j].call.tool \in Gated
                PROVE  /\ receipt'[j].approval \in Approvals
                       /\ approval'[receipt'[j].approval].consumed
                       /\ approval'[receipt'[j].approval].call = receipt'[j].call
    BY DEF Signed
  <2>1. CASE j = k
    BY <2>1, <1>4, <1>5, <1>6 DEF Consumed
  <2>2. CASE j # k
    BY <2>2, <1>4, <1>6 DEF ToolInv, Signed, Consumed
  <2>. QED
    BY <2>1, <2>2
<1>g. SignedOnce'
  BY <1>2, <1>4, <1>5 DEF ToolInv, Signed, SignedOnce
<1>h. SuccessIsReal'
  BY <1>1, <1>2, <1>3, <1>4 DEF ToolInv, SuccessIsReal, RequestInv, Others
<1>. QED
  BY <1>a, <1>b, <1>c, <1>d, <1>e, <1>f, <1>g, <1>h DEF ToolInv

(* The thread starts once, by the only executor of its key. *)
LEMMA SubmitPreserves ==
    ASSUME ToolInv, TypeOK', NEW q \in Requests, Submit(q)
    PROVE  ToolInv'
<1>1. /\ request[q].phase = "started" /\ Others(q) /\ SameCall(q)
      /\ UNCHANGED <<approval, receipt, landed, review>>
      /\ request[q].key \in Keys /\ request[q].call \in Calls
  BY RequestMoves DEF ToolInv, TypeOK, RequestInv, Submit, Phases
<1>2. CASE request'[q].phase = "failing" /\ thread' = thread
  <2>1. Quiet(q)
    BY <1>1, <1>2 DEF Quiet, Executing, SameCall
  <2>. QED
    BY <2>1, QuietPreserves
<1>3. CASE /\ request'[q].phase = "waiting"
           /\ thread' = [thread EXCEPT ![request[q].key] = "running"]
  <2>1. thread[request[q].key] = "off" /\ receipt[request[q].key].status = "started"
    BY <1>1 DEF ToolInv, RequestInv, Executing
  <2>2. /\ thread'[request[q].key] = "running"
        /\ \A j \in Keys \ {request[q].key} : thread'[j] = thread[j]
    BY <1>1, <1>3 DEF ToolInv, TypeOK
  <2>a. RequestInv'
    BY <1>1, <1>3, <2>1, <2>2 DEF ToolInv, RequestInv, OneExecutor, Executing, Others, SameCall
  <2>b. OneExecutor'
    BY <1>1, <1>3 DEF ToolInv, OneExecutor, Executing, Others, SameCall
  <2>c. ThreadInv'
    BY <1>1, <2>1, <2>2 DEF ToolInv, ThreadInv
  <2>d. ApprovalInv' /\ ReviewInv' /\ Signed' /\ SignedOnce'
    BY <1>1 DEF ToolInv, ApprovalInv, ReviewInv, Signed, SignedOnce
  <2>e. SuccessIsReal'
    BY <1>1, <1>3 DEF ToolInv, SuccessIsReal, Others
  <2>. QED
    BY <2>a, <2>b, <2>c, <2>d, <2>e DEF ToolInv
<1>. QED
  <2>1. request \in [Requests -> RequestState]
    BY DEF ToolInv, TypeOK
  <2>. QED
    BY <1>2, <1>3, <2>1, RequestMoves DEF Submit, Phases

(* The executor closes its receipt; "succeeded" is written of a handler that
   returned, and nobody else's answer depends on a receipt still open (_finish). *)
LEMMA FinishPreserves ==
    ASSUME ToolInv, TypeOK', NEW q \in Requests,
           FinishFailure(q) \/ FinishSuccess(q) \/ FinishOversized(q)
    PROVE  ToolInv'
<1>. DEFINE k == request[q].key
<1>1. /\ request[q].phase \in Executing /\ k \in Keys /\ request[q].call \in Calls
      /\ receipt[k].status = "started" /\ receipt[k].call = request[q].call
      /\ request[q].phase = "returned" => thread[k] = "returned"
  BY DEF ToolInv, RequestInv, FinishFailure, FinishSuccess, FinishOversized, Executing
<1>2. /\ Others(q) /\ UNCHANGED <<approval, thread, landed, review>>
      /\ \/ request'[q].phase = "idle"
         \/ FinishSuccess(q) /\ request'[q].phase = "succeeded" /\ SameCall(q)
  <2>1. request \in [Requests -> RequestState]
    BY DEF ToolInv, TypeOK
  <2>. QED
    BY <2>1, RequestMoves DEF FinishFailure, FinishSuccess, FinishOversized, Phases
<1>3. PICK status \in {"succeeded", "failed", "needs_reconciliation"} :
         /\ receipt' = Finished(k, status)
         /\ status = "succeeded" => request[q].phase = "returned"
         /\ FinishSuccess(q) => status = "succeeded"
  BY DEF FinishFailure, FinishSuccess, FinishOversized, FailureStatus
<1>4. \A j \in Keys : /\ receipt'[j].call = receipt[j].call
                      /\ receipt'[j].approval = receipt[j].approval
                      /\ receipt'[j].status = IF j = k THEN status ELSE receipt[j].status
  <2>1. receipt \in [Keys -> ReceiptRow]
    BY DEF ToolInv, TypeOK
  <2>. QED
    BY <2>1, <1>1, <1>3, FinishedFacts
<1>. HIDE DEF k
<1>a. RequestInv'
  BY <1>1, <1>2, <1>4 DEF ToolInv, RequestInv, OneExecutor, Executing, Others, SameCall, k
<1>b. OneExecutor'
  BY <1>2 DEF ToolInv, OneExecutor, Executing, Others
<1>c. ThreadInv'
  BY <1>1, <1>2, <1>3, <1>4 DEF ToolInv, TypeOK, ThreadInv
<1>d. ApprovalInv' /\ ReviewInv'
  BY <1>2 DEF ToolInv, ApprovalInv, ReviewInv
<1>e. Signed' /\ SignedOnce'
  BY <1>1, <1>2, <1>4 DEF ToolInv, Signed, SignedOnce
<1>f. SuccessIsReal'
  BY <1>1, <1>2, <1>3, <1>4 DEF ToolInv, SuccessIsReal, ThreadInv, RequestInv, Others, SameCall, k
<1>. QED
  BY <1>a, <1>b, <1>c, <1>d, <1>e, <1>f DEF ToolInv

(* The handler ends once, and only then does its effect land. *)
LEMMA HandlerPreserves ==
    ASSUME ToolInv, TypeOK', NEW k \in Keys, NEW how \in {"returned", "raised"}, HandlerEnds(k, how)
    PROVE  ToolInv'
<1>1. /\ thread[k] = "running" /\ landed[k] = 0 /\ receipt[k].status # "succeeded"
      /\ receipt[k].status # "none"
      /\ UNCHANGED <<approval, receipt, request, review>>
  BY DEF HandlerEnds, ToolInv, ThreadInv
<1>2. /\ thread'[k] = how /\ \A j \in Keys \ {k} : thread'[j] = thread[j] /\ landed'[j] = landed[j]
      /\ landed'[k] \in {0, 1}
      /\ how = "returned" => landed'[k] = 1
  BY <1>1 DEF HandlerEnds, ToolInv, TypeOK
<1>a. RequestInv'
  BY <1>1, <1>2 DEF ToolInv, RequestInv
<1>b. ThreadInv'
  BY <1>1, <1>2 DEF ToolInv, ThreadInv
<1>c. OneExecutor' /\ ApprovalInv' /\ ReviewInv' /\ Signed' /\ SignedOnce'
  BY <1>1 DEF ToolInv, OneExecutor, ApprovalInv, ReviewInv, Signed, SignedOnce
<1>d. SuccessIsReal'
  BY <1>1, <1>2 DEF ToolInv, SuccessIsReal, RequestInv
<1>. QED
  BY <1>a, <1>b, <1>c, <1>d DEF ToolInv

(* Everything that happens to an approval besides its consumption: a row is
   inserted pending, decided once by somebody who is not its requester, and
   lapses; none of it touches a row an execution has consumed
   (_request_approval, decide). *)
LEMMA ApprovalSteps ==
    ASSUME ToolInv, TypeOK',
           \/ \E q \in Requests, a \in Approvals : InsertApproval(q, a)
           \/ \E p \in Principals, v \in {"approved", "rejected"} : Decide(p, v)
           \/ \E a \in Approvals : ApprovalLapses(a)
    PROVE  /\ ApprovalInv' /\ ReviewInv'
           /\ \A a \in Approvals : approval[a].consumed =>
                 approval'[a].consumed /\ approval'[a].call = approval[a].call
<1>. USE ToolRuntimeAssumption
<1>1. ASSUME NEW q \in Requests, NEW a \in Approvals, InsertApproval(q, a)
      PROVE  /\ ApprovalInv' /\ ReviewInv'
             /\ \A b \in Approvals : approval[b].consumed => approval'[b] = approval[b]
  <2>. DEFINE s == [AbsentApproval EXCEPT !.status = "pending", !.call = request[q].call,
                                          !.requested_by = request[q].by, !.live = TRUE]
  <2>0. request[q].call \in Calls \cup {NoCall} /\ request[q].by \in Principals \cup {Nobody}
    BY DEF ToolInv, TypeOK, RequestState
  <2>1. s.status = "pending" /\ s.consumed = FALSE
    BY <2>0, PendingFacts
  <2>. HIDE DEF s
  <2>2. approval' = [approval EXCEPT ![a] = s] /\ approval[a].status = "none" /\ review' = review
    BY <1>1 DEF InsertApproval, s
  <2>3. approval'[a] = s /\ \A b \in Approvals \ {a} : approval'[b] = approval[b]
    BY <2>2 DEF ToolInv, TypeOK
  <2>. QED
    BY <2>1, <2>2, <2>3 DEF ToolInv, TypeOK, ApprovalInv, ReviewInv
<1>2. ASSUME NEW p \in Principals, NEW v \in {"approved", "rejected"}, Decide(p, v)
      PROVE  /\ ApprovalInv' /\ ReviewInv'
             /\ \A b \in Approvals : approval[b].consumed => approval'[b] = approval[b]
  <2>. DEFINE a == review[p]
  <2>1. /\ a \in Approvals /\ p \in Reviewers \ {approval[a].requested_by}
        /\ \A x \in Principals : review'[x] = IF x = p THEN NoApproval ELSE review[x]
    BY <1>2 DEF Decide, ToolInv, TypeOK, ReviewInv
  <2>2. CASE DecideHolds(a)
    <3>1. /\ approval'[a].status = v /\ approval'[a].decided_by = p
          /\ approval'[a].requested_by = approval[a].requested_by
          /\ approval'[a].consumed = approval[a].consumed
          /\ \A b \in Approvals \ {a} : approval'[b] = approval[b]
      BY <1>2, <2>1, <2>2 DEF Decide, ToolInv, TypeOK, ApprovalRow
    <3>2. approval[a].status = "pending" /\ ~approval[a].consumed
      BY <2>1, <2>2 DEF DecideHolds, ToolInv, ApprovalInv
    <3>. HIDE DEF a
    <3>. QED
      BY <2>1, <3>1, <3>2 DEF ToolInv, TypeOK, ApprovalInv, ReviewInv
  <2>3. CASE ~DecideHolds(a)
    BY <1>2, <2>1, <2>3 DEF Decide, ToolInv, TypeOK, ApprovalInv, ReviewInv
  <2>. QED
    BY <2>2, <2>3
<1>3. ASSUME NEW a \in Approvals, ApprovalLapses(a)
      PROVE  /\ ApprovalInv' /\ ReviewInv'
             /\ \A b \in Approvals : approval[b].consumed =>
                   approval'[b].consumed /\ approval'[b].call = approval[b].call
  <2>1. /\ \A b \in Approvals : /\ approval'[b].status = approval[b].status
                                /\ approval'[b].call = approval[b].call
                                /\ approval'[b].requested_by = approval[b].requested_by
                                /\ approval'[b].decided_by = approval[b].decided_by
                                /\ approval'[b].consumed = approval[b].consumed
        /\ review' = review
    BY <1>3 DEF ApprovalLapses, ToolInv, TypeOK, ApprovalRow
  <2>. QED
    BY <2>1 DEF ToolInv, TypeOK, ApprovalInv, ReviewInv
<1>. QED
  BY <1>1, <1>2, <1>3

-----------------------------------------------------------------------------
(* The invariant is inductive. *)
LEMMA ToolStep ==
    ASSUME ToolInv, [Next]_vars
    PROVE  ToolInv'
<1>0. TypeOK /\ TypeOK'
  BY ToolTypeStep DEF ToolInv
<1>1. ASSUME NEW q \in Requests, Quiet(q) PROVE ToolInv'
  BY <1>0, <1>1, QuietPreserves
<1>2. ASSUME NEW q \in Requests, StartExecution(q) \/ Submit(q) PROVE ToolInv'
  BY <1>0, <1>2, StartPreserves, SubmitPreserves
<1>3. ASSUME NEW q \in Requests, FinishFailure(q) \/ FinishSuccess(q) \/ FinishOversized(q)
      PROVE  ToolInv'
  BY <1>0, <1>3, FinishPreserves
<1>4. ASSUME NEW q \in Requests, NEW a \in Approvals, InsertApproval(q, a) PROVE ToolInv'
  <2>1. Others(q) /\ request'[q].phase = "idle" /\ UNCHANGED <<receipt, thread, landed>>
    BY <1>0, <1>4, RequestMoves DEF TypeOK, InsertApproval
  <2>2. /\ ApprovalInv' /\ ReviewInv'
        /\ \A b \in Approvals : approval[b].consumed =>
              approval'[b].consumed /\ approval'[b].call = approval[b].call
    BY <1>0, <1>4, ApprovalSteps
  <2>3. RequestInv' /\ OneExecutor' /\ ThreadInv' /\ SuccessIsReal'
    BY <2>1 DEF ToolInv, RequestInv, OneExecutor, ThreadInv, SuccessIsReal, Others, Executing
  <2>4. Signed' /\ SignedOnce'
    BY <2>1, <2>2 DEF ToolInv, Signed, SignedOnce
  <2>. QED
    BY <1>0, <2>2, <2>3, <2>4 DEF ToolInv
<1>5. ASSUME NEW k \in Keys, NEW how \in {"returned", "raised"}, HandlerEnds(k, how) PROVE ToolInv'
  BY <1>0, <1>5, HandlerPreserves
<1>6. ASSUME NEW p \in Principals, NEW a \in Approvals, Review(p, a) PROVE ToolInv'
  <2>1. UNCHANGED <<approval, receipt, thread, landed, request>>
    BY <1>6 DEF Review
  <2>2. ReviewInv'
    BY <1>0, <1>6 DEF Review, ToolInv, TypeOK, ReviewInv
  <2>. QED
    BY <1>0, <2>1, <2>2 DEF ToolInv, RequestInv, OneExecutor, ThreadInv, ApprovalInv, Signed,
                            SignedOnce, SuccessIsReal
<1>7. ASSUME \/ \E p \in Principals, v \in {"approved", "rejected"} : Decide(p, v)
             \/ \E a \in Approvals : ApprovalLapses(a)
      PROVE  ToolInv'
  <2>1. UNCHANGED <<receipt, thread, landed, request>>
    BY <1>7 DEF Decide, ApprovalLapses
  <2>2. /\ ApprovalInv' /\ ReviewInv'
        /\ \A b \in Approvals : approval[b].consumed =>
              approval'[b].consumed /\ approval'[b].call = approval[b].call
    BY <1>0, <1>7, ApprovalSteps
  <2>3. RequestInv' /\ OneExecutor' /\ ThreadInv' /\ SuccessIsReal'
    BY <2>1 DEF ToolInv, RequestInv, OneExecutor, ThreadInv, SuccessIsReal
  <2>4. Signed' /\ SignedOnce'
    BY <2>1, <2>2 DEF ToolInv, Signed, SignedOnce
  <2>. QED
    BY <1>0, <2>2, <2>3, <2>4 DEF ToolInv
<1>8. ASSUME UNCHANGED <<approval, receipt, thread, landed, request, review>> PROVE ToolInv'
  BY <1>0, <1>8 DEF ToolInv, RequestInv, OneExecutor, ThreadInv, ApprovalInv, ReviewInv, Signed,
                    SignedOnce, SuccessIsReal
<1>9. CASE UNCHANGED vars
  BY <1>8, <1>9 DEF vars
<1>10. CASE \E r \in Runs : CancelRun(r)
  BY <1>8, <1>10 DEF CancelRun
<1>11. CASE \E p \in Principals, c \in Calls : \/ \E g \in Principals : Grant(g, p, c.tool)
                                                \/ Revoke(p, c.tool)
  BY <1>8, <1>11 DEF Grant, Revoke
<1>. QED
  BY <1>1, <1>2, <1>3, <1>4, <1>5, <1>6, <1>7, <1>9, <1>10, <1>11, QuietSteps DEF Next

(* Every state of the tool runtime satisfies the inductive invariant. *)
THEOREM ToolsHold == Spec => []ToolInv
<1>1. Init => ToolInv
  <2>. SUFFICES ASSUME Init PROVE ToolInv
    OBVIOUS
  <2>1. TypeOK
    BY RowFacts DEF Init, TypeOK
  <2>2. RequestInv /\ OneExecutor /\ SuccessIsReal
    BY RowFacts DEF Init, RequestInv, OneExecutor, SuccessIsReal, Executing
  <2>3. ThreadInv /\ Signed /\ SignedOnce
    BY RowFacts DEF Init, ThreadInv, Signed, SignedOnce
  <2>4. ApprovalInv /\ ReviewInv
    BY RowFacts DEF Init, ApprovalInv, ReviewInv
  <2>. QED
    BY <2>1, <2>2, <2>3, <2>4 DEF ToolInv
<1>2. ToolInv /\ [Next]_vars => ToolInv'
  BY ToolStep
<1>. QED
  BY <1>1, <1>2, PTL DEF Spec

(* The tables keep to their CHECK constraints and every request to the phases
   of invoke. *)
THEOREM ToolTypeCorrect == Spec => []TypeOK
<1>1. ToolInv => TypeOK
  BY DEF ToolInv
<1>. QED
  BY <1>1, ToolsHold, PTL

(* An idempotency key performs its effect at most once, whatever the number of
   requests, timeouts whose thread lives on, crashes and unrecorded results. *)
THEOREM EffectIsOnce == Spec => []OneEffectPerKey
<1>1. ToolInv => OneEffectPerKey
  BY DEF ToolInv, ThreadInv, OneEffectPerKey
<1>. QED
  BY <1>1, ToolsHold, PTL

(* Behind every execution of a gated tool stands one approval of exactly that
   call, given by a reviewer who did not ask for it, and it is behind no other
   execution. *)
THEOREM GatedIsApproved == Spec => []ExecutionsAreApproved
<1>1. ToolInv => ExecutionsAreApproved
  <2>. SUFFICES ASSUME ToolInv, NEW k \in Keys, receipt[k].status # "none",
                       receipt[k].call.tool \in Gated
                PROVE  /\ receipt[k].approval # NoApproval
                       /\ approval[receipt[k].approval].status = "approved"
                       /\ approval[receipt[k].approval].call = receipt[k].call
                       /\ approval[receipt[k].approval].decided_by \in
                             Reviewers \ {approval[receipt[k].approval].requested_by}
                       /\ \A j \in Keys \ {k} : \/ receipt[j].approval # receipt[k].approval
                                                 \/ receipt[j].call.tool \notin Gated
    BY DEF ExecutionsAreApproved
  <2>. QED
    BY ToolRuntimeAssumption DEF ToolInv, Signed, SignedOnce, ApprovalInv, ThreadInv
<1>. QED
  BY <1>1, ToolsHold, PTL

(* A caller told "succeeded", at once or as a replay, has the receipt of one
   performed effect of the tool and the arguments it asked for. *)
THEOREM SuccessIsTrue == Spec => []SuccessIsReal
<1>1. ToolInv => SuccessIsReal
  BY DEF ToolInv
<1>. QED
  BY <1>1, ToolsHold, PTL

-----------------------------------------------------------------------------
(* Sums.                                                                   *)
(* A set of numbers has a smallest one. *)
LEMMA SmallestExists ==
    ASSUME NEW T, T \subseteq Nat, T # {}
    PROVE  \E x \in T : \A y \in T : x <= y
<1>. DEFINE R == OpToRel(<, Nat)
<1>1. IsWellFoundedOn(R, Nat)
  BY NatLessThanWellFounded
<1>2. PICK x \in T : \A y \in T : ~(<<y, x>> \in R)
  <2>. HIDE DEF R
  <2>. QED
    BY <1>1, WFMin
<1>3. \A y \in T : ~(y < x)
  BY <1>2 DEF OpToRel
<1>. QED
  BY <1>3

\* The order in which the library's folds take a set apart.
Pick(s) == CHOOSE x \in s : TRUE

\* f adds w up over each set of D.
FoldsOver(w, D, f) ==
    f = [s \in D |-> IF s = {} THEN 0 ELSE w[Pick(s)] + f[s \ {Pick(s)}]]

(* Without the element CHOOSE picks, a finite set is smaller by one. *)
LEMMA SmallerSet ==
    ASSUME NEW s, IsFiniteSet(s), s # {}
    PROVE  /\ Pick(s) \in s /\ IsFiniteSet(s \ {Pick(s)})
           /\ Cardinality(s) \in Nat /\ Cardinality(s \ {Pick(s)}) = Cardinality(s) - 1
<1>1. Pick(s) \in s
  BY DEF Pick
<1>. QED
  BY <1>1, FS_RemoveElement, FS_CardinalityType

(* The recursive function behind a sum over a finite set exists (the totals
   reserve adds up). *)
LEMMA FoldExists ==
    ASSUME NEW w, NEW S, IsFiniteSet(S)
    PROVE  \E f : FoldsOver(w, SUBSET S, f)
<1>. DEFINE Level(n) == {s \in SUBSET S : Cardinality(s) <= n}
            Bad == {n \in Nat : ~ \E f : FoldsOver(w, Level(n), f)}
<1>0. \A s \in SUBSET S : IsFiniteSet(s) /\ Cardinality(s) \in Nat
  BY FS_Subset, FS_CardinalityType
<1>1. Bad = {}
  <2>1. SUFFICES ASSUME NEW n \in Bad, \A m \in Bad : n <= m
                 PROVE  FALSE
    BY SmallestExists
  <2>2. CASE n = 0
    <3>1. \A s \in Level(0) : s = {}
      BY <1>0, FS_EmptySet
    <3>2. FoldsOver(w, Level(0), [s \in Level(0) |-> 0])
      BY <3>1 DEF FoldsOver
    <3>. QED
      BY <2>2, <3>2
  <2>3. CASE n # 0
    <3>1. PICK f : FoldsOver(w, Level(n - 1), f)
      <4>1. n \in Nat
        OBVIOUS
      <4>2. n - 1 \in Nat /\ n - 1 \notin Bad
        <5>. HIDE DEF Bad
        <5>. QED
          BY <2>1, <2>3, <4>1
      <4>. QED
        BY <4>2
    <3>. DEFINE g == [s \in Level(n) |-> IF s = {} THEN 0 ELSE w[Pick(s)] + f[s \ {Pick(s)}]]
    <3>2. \A s \in Level(n) : s # {} => s \ {Pick(s)} \in Level(n - 1)
      BY <1>0, SmallerSet
    <3>3. \A t \in Level(n - 1) : t \in Level(n)
      BY <1>0
    <3>4. \A t \in Level(n - 1) : g[t] = f[t]
      BY <3>1, <3>3 DEF FoldsOver
    <3>5. FoldsOver(w, Level(n), g)
      <4>. HIDE DEF Level
      <4>. QED
        BY <3>2, <3>4 DEF FoldsOver
    <3>. QED
      BY <3>5
  <2>. QED
    BY <2>2, <2>3
<1>2. Level(Cardinality(S)) = SUBSET S
  <2>1. \A s \in SUBSET S : Cardinality(s) <= Cardinality(S)
    BY FS_Subset
  <2>. QED
    BY <2>1
<1>3. Cardinality(S) \in Nat
  BY FS_CardinalityType
<1>. QED
  BY <1>1, <1>2, <1>3

(* The functions for two sets agree on what is in both. *)
LEMMA FoldsAgree ==
    ASSUME NEW w, NEW S, NEW T, NEW f, NEW g, IsFiniteSet(S), T \subseteq S,
           FoldsOver(w, SUBSET S, f), FoldsOver(w, SUBSET T, g)
    PROVE  f[T] = g[T]
<1>. DEFINE Bad == {n \in Nat : \E s \in SUBSET T : Cardinality(s) = n /\ f[s] # g[s]}
<1>0. \A s \in SUBSET T : s \in SUBSET S /\ IsFiniteSet(s) /\ Cardinality(s) \in Nat
  BY FS_Subset, FS_CardinalityType
<1>1. Bad = {}
  <2>1. SUFFICES ASSUME NEW n \in Bad, \A m \in Bad : n <= m
                 PROVE  FALSE
    BY SmallestExists
  <2>2. PICK s \in SUBSET T : Cardinality(s) = n /\ f[s] # g[s]
    OBVIOUS
  <2>3. s # {}
    BY <1>0, <2>2 DEF FoldsOver
  <2>4. /\ s \ {Pick(s)} \in SUBSET T
        /\ Cardinality(s \ {Pick(s)}) \in Nat /\ Cardinality(s \ {Pick(s)}) < n
    BY <1>0, <2>2, <2>3, SmallerSet
  <2>5. f[s \ {Pick(s)}] = g[s \ {Pick(s)}]
    BY <2>1, <2>4
  <2>6. f[s] = w[Pick(s)] + f[s \ {Pick(s)}] /\ g[s] = w[Pick(s)] + g[s \ {Pick(s)}]
    BY <1>0, <2>3 DEF FoldsOver
  <2>. QED
    BY <2>2, <2>5, <2>6
<1>. QED
  BY <1>0, <1>1

(* A sum is the element CHOOSE picks and the sum of the others. *)
LEMMA SumUnfolds ==
    ASSUME NEW w, NEW S, IsFiniteSet(S)
    PROVE  /\ S = {} => SumFunctionOnSet(w, S) = 0
           /\ S # {} => SumFunctionOnSet(w, S) = w[Pick(S)] + SumFunctionOnSet(w, S \ {Pick(S)})
<1>. DEFINE fold(T) == CHOOSE f : FoldsOver(w, SUBSET T, f)
<1>1. ASSUME NEW T PROVE SumFunctionOnSet(w, T) = fold(T)[T]
  BY DEF SumFunctionOnSet, FoldFunctionOnSet, MapThenFoldSet, FoldsOver, Pick
<1>2. ASSUME NEW T, IsFiniteSet(T) PROVE FoldsOver(w, SUBSET T, fold(T))
  BY <1>2, FoldExists
<1>. HIDE DEF fold
<1>3. CASE S = {}
  BY <1>1, <1>2, <1>3 DEF FoldsOver
<1>4. CASE S # {}
  <2>. DEFINE T == S \ {Pick(S)}
  <2>1. IsFiniteSet(T) /\ T \subseteq S
    BY <1>4, SmallerSet
  <2>2. fold(S)[T] = fold(T)[T]
    <3>1. FoldsOver(w, SUBSET S, fold(S)) /\ FoldsOver(w, SUBSET T, fold(T))
      BY <1>2, <2>1
    <3>2. ASSUME NEW U, U \subseteq S, NEW f, NEW g,
                 FoldsOver(w, SUBSET S, f), FoldsOver(w, SUBSET U, g)
          PROVE  f[U] = g[U]
      BY <3>2, FoldsAgree
    <3>. QED
      BY <2>1, <3>1, <3>2
  <2>3. fold(S)[S] = w[Pick(S)] + fold(S)[T]
    BY <1>2, <1>4 DEF FoldsOver
  <2>. QED
    BY <1>1, <1>4, <2>2, <2>3
<1>. QED
  BY <1>3, <1>4

(* A sum of natural numbers is one. *)
LEMMA SumIsNat ==
    ASSUME NEW w, NEW S, IsFiniteSet(S), \A x \in S : w[x] \in Nat
    PROVE  SumFunctionOnSet(w, S) \in Nat
<1>. DEFINE Bad == {n \in Nat : \E s \in SUBSET S :
                       Cardinality(s) = n /\ SumFunctionOnSet(w, s) \notin Nat}
<1>0. \A s \in SUBSET S : IsFiniteSet(s) /\ Cardinality(s) \in Nat
  BY FS_Subset, FS_CardinalityType
<1>1. Bad = {}
  <2>1. SUFFICES ASSUME NEW n \in Bad, \A m \in Bad : n <= m
                 PROVE  FALSE
    BY SmallestExists
  <2>2. PICK s \in SUBSET S : Cardinality(s) = n /\ SumFunctionOnSet(w, s) \notin Nat
    OBVIOUS
  <2>3. s # {}
    <3>1. s = {} => SumFunctionOnSet(w, s) = 0
      BY <1>0, SumUnfolds
    <3>. QED
      BY <2>2, <3>1
  <2>4. /\ Pick(s) \in S /\ s \ {Pick(s)} \in SUBSET S
        /\ Cardinality(s \ {Pick(s)}) \in Nat /\ Cardinality(s \ {Pick(s)}) < n
    BY <1>0, <2>2, <2>3, SmallerSet
  <2>5. SumFunctionOnSet(w, s \ {Pick(s)}) \in Nat
    BY <2>1, <2>4
  <2>6. SumFunctionOnSet(w, s) = w[Pick(s)] + SumFunctionOnSet(w, s \ {Pick(s)})
    BY <1>0, <2>3, SumUnfolds
  <2>. QED
    BY <2>2, <2>4, <2>5, <2>6
<1>. QED
  BY <1>0, <1>1

(* A sum is any of its elements and the sum of the others: the order in which
   rows are added up makes no difference. *)
LEMMA SumWithout ==
    ASSUME NEW w, NEW S, IsFiniteSet(S), \A x \in S : w[x] \in Nat, NEW x \in S
    PROVE  SumFunctionOnSet(w, S) = w[x] + SumFunctionOnSet(w, S \ {x})
<1>. DEFINE sum(s) == SumFunctionOnSet(w, s)
            Bad == {n \in Nat : \E s \in SUBSET S : \E y \in s :
                                   Cardinality(s) = n /\ sum(s) # w[y] + sum(s \ {y})}
<1>0. \A s \in SUBSET S : IsFiniteSet(s) /\ Cardinality(s) \in Nat /\ sum(s) \in Nat
  <2>1. \A s \in SUBSET S : IsFiniteSet(s) /\ Cardinality(s) \in Nat
    BY FS_Subset, FS_CardinalityType
  <2>. QED
    BY <2>1, SumIsNat
<1>. HIDE DEF sum
<1>1. Bad = {}
  <2>1. SUFFICES ASSUME NEW n \in Bad, \A m \in Bad : n <= m
                 PROVE  FALSE
    BY SmallestExists
  <2>2. PICK s \in SUBSET S, y \in S :
             y \in s /\ Cardinality(s) = n /\ sum(s) # w[y] + sum(s \ {y})
    OBVIOUS
  <2>. DEFINE p == Pick(s)
  <2>3. p \in s /\ sum(s) = w[p] + sum(s \ {p})
    BY <1>0, <2>2, SmallerSet, SumUnfolds DEF sum
  <2>. HIDE DEF p
  <2>4. p # y
    BY <2>2, <2>3
  <2>5. \A z \in s : Cardinality(s \ {z}) < n
    BY <1>0, <2>2, FS_RemoveElement
  <2>6. \A z \in s, u \in s : z # u => sum(s \ {z}) = w[u] + sum((s \ {z}) \ {u})
    <3>1. SUFFICES ASSUME NEW z \in s, NEW u \in s, z # u
                   PROVE  sum(s \ {z}) = w[u] + sum((s \ {z}) \ {u})
      OBVIOUS
    <3>2. s \ {z} \in SUBSET S /\ u \in s \ {z} /\ Cardinality(s \ {z}) \in Nat
      BY <1>0, <3>1
    <3>3. Cardinality(s \ {z}) < n /\ n \in Nat
      BY <2>5
    <3>4. Cardinality(s \ {z}) \notin Bad
      <4>. HIDE DEF Bad
      <4>. QED
        BY <2>1, <3>2, <3>3
    <3>. QED
      BY <3>2, <3>4
  <2>7. (s \ {p}) \ {y} = (s \ {y}) \ {p}
    OBVIOUS
  <2>8. /\ sum(s \ {p}) = w[y] + sum((s \ {p}) \ {y})
        /\ sum(s \ {y}) = w[p] + sum((s \ {p}) \ {y})
    BY <2>2, <2>3, <2>4, <2>6, <2>7
  <2>9. /\ w[y] \in Nat /\ w[p] \in Nat /\ sum((s \ {p}) \ {y}) \in Nat
    BY <1>0, <2>3
  <2>. QED
    BY <2>2, <2>3, <2>8, <2>9
<1>. QED
  BY <1>0, <1>1 DEF sum

(* Sums over rows with the same amounts are the same. *)
LEMMA SumOfSame ==
    ASSUME NEW v, NEW w, NEW S, IsFiniteSet(S), \A x \in S : v[x] = w[x]
    PROVE  SumFunctionOnSet(v, S) = SumFunctionOnSet(w, S)
<1>. DEFINE Bad == {n \in Nat : \E s \in SUBSET S :
                       Cardinality(s) = n /\ SumFunctionOnSet(v, s) # SumFunctionOnSet(w, s)}
<1>0. \A s \in SUBSET S : IsFiniteSet(s) /\ Cardinality(s) \in Nat
  BY FS_Subset, FS_CardinalityType
<1>1. Bad = {}
  <2>1. SUFFICES ASSUME NEW n \in Bad, \A m \in Bad : n <= m
                 PROVE  FALSE
    BY SmallestExists
  <2>2. PICK s \in SUBSET S : Cardinality(s) = n /\ SumFunctionOnSet(v, s) # SumFunctionOnSet(w, s)
    OBVIOUS
  <2>3. s # {}
    BY <1>0, <2>2, SumUnfolds
  <2>4. /\ Pick(s) \in S /\ s \ {Pick(s)} \in SUBSET S
        /\ Cardinality(s \ {Pick(s)}) \in Nat /\ Cardinality(s \ {Pick(s)}) < n
    BY <1>0, <2>2, <2>3, SmallerSet
  <2>5. SumFunctionOnSet(v, s \ {Pick(s)}) = SumFunctionOnSet(w, s \ {Pick(s)})
    BY <2>1, <2>4
  <2>6. /\ SumFunctionOnSet(v, s) = v[Pick(s)] + SumFunctionOnSet(v, s \ {Pick(s)})
        /\ SumFunctionOnSet(w, s) = w[Pick(s)] + SumFunctionOnSet(w, s \ {Pick(s)})
    BY <1>0, <2>3, SumUnfolds
  <2>. QED
    BY <2>2, <2>4, <2>5, <2>6
<1>. QED
  BY <1>0, <1>1

-----------------------------------------------------------------------------
(* The ledger.                                                             *)
\* A call that has not begun holds nothing.
NothingHeldYet == \A c \in ModelCalls \ Begun : resv[c].status = "none"

\* A call is charged for when its provider answers.
NothingChargedYet ==
    \A c \in ModelCalls : call[c].phase \in {"new", "admitted"} => call[c].charged = 0

\* Charges of begun calls that no row shows.
Unrecorded == SumFunctionOnSet([c \in ModelCalls |-> call[c].charged], Begun)

\* What was charged today is in a row, left out of one, or in none yet.
ChargesAreSomewhere == spent <= usage + unreported + Unrecorded

\* What is held was admitted under some ceiling.
HeldIsBelow == Reserved(resv) < peak \/ Reserved(resv) = 0

LedgerInv ==
    /\ LedgerTypeOK
    /\ cap <= peak
    /\ IsFiniteSet(Begun)
    /\ NothingHeldYet
    /\ NothingChargedYet
    /\ HeldIsBelow
    /\ WithinCeiling
    /\ ChargesAreSomewhere

(* The rows reserve, release, settle and the expiry UPDATE write are
   reservations. *)
LEMMA ReservationFacts ==
    /\ NoReservation \in Reservation
    /\ NoReservation.status = "none"
    /\ \A s \in {"released", "settled"} :
          LET row == [status |-> s, live |-> FALSE] IN
          row \in Reservation /\ row.status = s
    /\ LET row == [status |-> "reserved", live |-> TRUE] IN
       row \in Reservation /\ row.status = "reserved" /\ row.live
    /\ \A row \in Reservation : [row EXCEPT !.status = "expired"] \in Reservation
    /\ \A row \in Reservation : [row EXCEPT !.status = "expired"].status = "expired"
    /\ \A row \in Reservation : /\ [row EXCEPT !.live = FALSE] \in Reservation
                                /\ [row EXCEPT !.live = FALSE].status = row.status
                                /\ [row EXCEPT !.live = FALSE].live = FALSE
BY DEF Reservation, NoReservation

\* Where a call may be, and what it may owe.
CallPhases == {"new", "admitted", "returned", "done"}
Amounts == {0} \cup Charges \cup Range(Estimate)
Tokens == {0} \cup Charges

(* A call keeps what it owes and was charged when it moves; it owes an estimate, a
   charge or nothing. *)
LEMMA CallFacts ==
    /\ Amounts \subseteq Nat
    /\ 0 \in Amounts /\ 0 \in Tokens /\ Tokens \subseteq Nat /\ Charges \subseteq Tokens
    /\ \A c \in ModelCalls : Estimate[c] \in Amounts /\ Estimate[c] \in Nat
    /\ \A row \in CallState : row.phase \in CallPhases /\ row.owed \in Amounts /\ row.charged \in Tokens
    /\ \A p \in CallPhases, n \in Amounts, m \in Tokens :
          LET row == [phase |-> p, owed |-> n, charged |-> m] IN
          row \in CallState /\ row.phase = p /\ row.owed = n /\ row.charged = m
    /\ \A row \in CallState, p \in CallPhases :
          LET new == [row EXCEPT !.phase = p] IN
          new \in CallState /\ new.phase = p /\ new.owed = row.owed /\ new.charged = row.charged
<1>1. /\ Range(Estimate) \subseteq Nat
      /\ \A c \in ModelCalls : Estimate[c] \in Range(Estimate) /\ Estimate[c] \in Nat
  BY BudgetLedgerAssumption DEF Range
<1>2. Charges \subseteq Nat
  BY BudgetLedgerAssumption
<1>3. Amounts \subseteq Nat /\ 0 \in Amounts
  <2>1. ASSUME NEW n \in Amounts PROVE n \in Nat
    <3>1. n = 0 \/ n \in Charges \/ n \in Range(Estimate)
      BY DEF Amounts
    <3>2. CASE n = 0
      BY <3>2
    <3>3. CASE n \in Charges
      BY <1>2, <3>3, Zenon
    <3>4. CASE n \in Range(Estimate)
      BY <1>1, <3>4, Zenon
    <3>. QED
      BY <3>1, <3>2, <3>3, <3>4, Zenon
  <2>2. 0 \in Amounts
    BY DEF Amounts
  <2>. QED
    BY <2>1, <2>2
<1>4. \A c \in ModelCalls : Estimate[c] \in Amounts
  BY <1>1 DEF Amounts
<1>5. 0 \in Tokens /\ Tokens \subseteq Nat /\ Charges \subseteq Tokens
  BY <1>2 DEF Tokens
<1>6. CallState = [phase : CallPhases, owed : Amounts, charged : Tokens]
  BY DEF CallState, CallPhases, Amounts, Tokens
<1>. QED
  BY <1>1, <1>3, <1>4, <1>5, <1>6

(* The sums of a state are over calls that have begun, which are finitely many. *)
LEMMA SumsAreNumbers ==
    ASSUME LedgerTypeOK, IsFiniteSet(Begun), NothingHeldYet
    PROVE  /\ IsFiniteSet(HeldCalls(resv)) /\ HeldCalls(resv) \subseteq Begun
           /\ Reserved(resv) \in Nat /\ Unrecorded \in Nat
<1>1. \A c \in ModelCalls : call[c] \in CallState /\ call[c].charged \in Nat /\ Estimate[c] \in Nat
  BY CallFacts DEF LedgerTypeOK
<1>2. HeldCalls(resv) \subseteq Begun
  BY DEF HeldCalls, Begun, NothingHeldYet
<1>3. IsFiniteSet(HeldCalls(resv))
  BY <1>2, FS_Subset
<1>4. Reserved(resv) \in Nat
  <2>1. \A c \in HeldCalls(resv) : Estimate[c] \in Nat
    BY <1>1 DEF HeldCalls
  <2>. QED
    BY <1>3, <2>1, SumIsNat DEF Reserved
<1>5. Unrecorded \in Nat
  <2>. DEFINE charged == [c \in ModelCalls |-> call[c].charged]
  <2>1. \A c \in Begun : charged[c] \in Nat
    BY <1>1 DEF Begun
  <2>. HIDE DEF charged
  <2>2. SumFunctionOnSet(charged, Begun) \in Nat
    BY <2>1, SumIsNat
  <2>. QED
    BY <2>2 DEF charged, Unrecorded
<1>. QED
  BY <1>2, <1>3, <1>4, <1>5

(* One more call adds its estimate to what is held (reserve). *)
LEMMA HoldsMore ==
    ASSUME LedgerTypeOK, IsFiniteSet(HeldCalls(resv)), NEW c \in ModelCalls,
           c \notin HeldCalls(resv), HeldCalls(resv') = HeldCalls(resv) \cup {c}
    PROVE  Reserved(resv') = Reserved(resv) + Estimate[c]
<1>1. \A x \in ModelCalls : Estimate[x] \in Nat
  BY CallFacts
<1>2. IsFiniteSet(HeldCalls(resv'))
  BY FS_AddElement
<1>3. /\ c \in HeldCalls(resv') /\ HeldCalls(resv') \ {c} = HeldCalls(resv)
      /\ \A x \in HeldCalls(resv') : Estimate[x] \in Nat
      /\ \A x \in HeldCalls(resv) : Estimate[x] \in Nat
  BY <1>1 DEF HeldCalls
<1>4. Reserved(resv') = Estimate[c] + Reserved(resv)
  BY <1>2, <1>3, SumWithout DEF Reserved
<1>5. Reserved(resv) \in Nat /\ Estimate[c] \in Nat
  BY <1>1, <1>3, SumIsNat DEF Reserved
<1>. QED
  BY <1>4, <1>5

(* One call fewer takes its estimate from what is held, if it held it (settle,
   release, expiry). *)
LEMMA HoldsLess ==
    ASSUME LedgerTypeOK, IsFiniteSet(HeldCalls(resv)), NEW c \in ModelCalls,
           HeldCalls(resv') = HeldCalls(resv) \ {c}
    PROVE  /\ HeldFor(c) \in Nat /\ Reserved(resv') \in Nat
           /\ Reserved(resv) = Reserved(resv') + HeldFor(c)
<1>1. \A x \in ModelCalls : Estimate[x] \in Nat
  BY CallFacts
<1>2. IsFiniteSet(HeldCalls(resv'))
  BY FS_Subset
<1>3. /\ \A x \in HeldCalls(resv') : Estimate[x] \in Nat
      /\ \A x \in HeldCalls(resv) : Estimate[x] \in Nat
  BY <1>1 DEF HeldCalls
<1>4. Reserved(resv') \in Nat
  BY <1>2, <1>3, SumIsNat DEF Reserved
<1>5. CASE c \in HeldCalls(resv)
  <2>1. Reserved(resv) = Estimate[c] + Reserved(resv')
    BY <1>3, <1>5, SumWithout DEF Reserved
  <2>. QED
    BY <1>1, <1>4, <1>5, <2>1 DEF HeldFor
<1>6. CASE c \notin HeldCalls(resv)
  <2>1. HeldCalls(resv') = HeldCalls(resv)
    BY <1>6
  <2>2. Reserved(resv') = Reserved(resv)
    BY <2>1 DEF Reserved
  <2>. QED
    BY <1>4, <1>6, <2>2 DEF HeldFor
<1>. QED
  BY <1>5, <1>6

(* What one call does to the sum of the charges that no row shows. *)
LEMMA ChargesMove ==
    ASSUME LedgerTypeOK, LedgerTypeOK', IsFiniteSet(Begun), NothingHeldYet, NothingChargedYet,
           NEW c \in ModelCalls,
           \A d \in ModelCalls \ {c} : call'[d] = call[d], call'[c].phase # "new"
    PROVE  /\ Unrecorded \in Nat /\ Unrecorded' \in Nat
           /\ Unrecorded' + call[c].charged = Unrecorded + call'[c].charged
<1>. DEFINE v == [d \in ModelCalls |-> call[d].charged]
            w == [d \in ModelCalls |-> call'[d].charged]
            S == Begun \ {c}
<1>1. \A d \in ModelCalls : v[d] \in Nat /\ w[d] \in Nat
  <2>1. \A d \in ModelCalls : call[d] \in CallState /\ call'[d] \in CallState
    BY DEF LedgerTypeOK
  <2>. QED
    BY <2>1, CallFacts
<1>2. \A d \in S : v[d] = w[d]
  BY DEF Begun
<1>3. v[c] = call[c].charged /\ w[c] = call'[c].charged
  OBVIOUS
<1>4. Unrecorded = SumFunctionOnSet(v, Begun) /\ Unrecorded' = SumFunctionOnSet(w, Begun')
  BY DEF Unrecorded
<1>5. /\ c \notin S /\ S \subseteq ModelCalls
      /\ Begun' = S \cup {c}
      /\ Begun = S \cup {c} \/ (Begun = S /\ v[c] = 0)
  BY DEF Begun, NothingChargedYet
<1>6. IsFiniteSet(S)
  BY FS_Subset
<1>. HIDE DEF v, w, S
<1>7. SumFunctionOnSet(v, S) = SumFunctionOnSet(w, S)
  BY <1>2, <1>6, SumOfSame
<1>8. /\ SumFunctionOnSet(v, S) \in Nat
      /\ \A f \in {v, w} : SumFunctionOnSet(f, S \cup {c}) = f[c] + SumFunctionOnSet(f, S)
  <2>1. SumFunctionOnSet(v, S) \in Nat
    BY <1>1, <1>5, <1>6, SumIsNat
  <2>2. IsFiniteSet(S \cup {c}) /\ c \in S \cup {c} /\ (S \cup {c}) \ {c} = S
    BY <1>5, <1>6, FS_AddElement
  <2>3. ASSUME NEW f, \A d \in ModelCalls : f[d] \in Nat
        PROVE  SumFunctionOnSet(f, S \cup {c}) = f[c] + SumFunctionOnSet(f, S)
    <3>1. \A d \in S \cup {c} : f[d] \in Nat
      BY <1>5, <2>3
    <3>. QED
      BY <2>2, <3>1, SumWithout
  <2>. QED
    BY <1>1, <2>1, <2>3
<1>9. v[c] \in Nat /\ w[c] \in Nat
  BY <1>1
<1>10. Unrecorded = v[c] + SumFunctionOnSet(v, S) /\ Unrecorded' = w[c] + SumFunctionOnSet(v, S)
  BY <1>4, <1>5, <1>7, <1>8, <1>9
<1>. QED
  BY <1>3, <1>8, <1>9, <1>10

(* Charges that no row shows are covered by what is held, but for the blind
   spot. *)
LEMMA HoldsCoverCharges ==
    ASSUME LedgerTypeOK, IsFiniteSet(Begun), NothingHeldYet
    PROVE  BlindSpot \in Nat /\ Unrecorded <= Reserved(resv) + BlindSpot
<1>. DEFINE v == [d \in ModelCalls |-> call[d].charged]
            H == HeldCalls(resv)
            Bad == {n \in Nat : \E s \in SUBSET Begun :
                       /\ Cardinality(s) = n
                       /\ ~(SumFunctionOnSet(v, s) <= SumFunctionOnSet(Estimate, s \cap H)
                                                        + SumFunctionOnSet(Uncovered, s))}
<1>0. \A s \in SUBSET Begun :
          /\ IsFiniteSet(s) /\ IsFiniteSet(s \cap H) /\ Cardinality(s) \in Nat
  BY FS_Subset, FS_CardinalityType
<1>1. /\ Begun \subseteq ModelCalls /\ H \subseteq Begun
      /\ \A d \in ModelCalls : /\ v[d] \in Nat /\ Estimate[d] \in Nat /\ Uncovered[d] \in Nat
                               /\ d \in H => v[d] <= Estimate[d] + Uncovered[d]
                               /\ d \notin H => v[d] <= Uncovered[d]
  <2>1. \A d \in ModelCalls : call[d].charged \in Nat /\ Estimate[d] \in Nat
    <3>1. \A d \in ModelCalls : call[d] \in CallState
      BY DEF LedgerTypeOK
    <3>. QED
      BY <3>1, CallFacts
  <2>2. H \subseteq Begun
    BY SumsAreNumbers
  <2>. QED
    BY <2>1, <2>2 DEF Uncovered, Above, HeldFor, Begun
<1>2. v = [d \in ModelCalls |-> call[d].charged]
  OBVIOUS
<1>3. \A s \in SUBSET Begun : /\ SumFunctionOnSet(v, s) \in Nat
                               /\ SumFunctionOnSet(Estimate, s \cap H) \in Nat
                               /\ SumFunctionOnSet(Uncovered, s) \in Nat
  <2>1. SUFFICES ASSUME NEW s \in SUBSET Begun
                 PROVE  /\ SumFunctionOnSet(v, s) \in Nat
                        /\ SumFunctionOnSet(Estimate, s \cap H) \in Nat
                        /\ SumFunctionOnSet(Uncovered, s) \in Nat
    OBVIOUS
  <2>. HIDE DEF v, H
  <2>2. \A d \in s : d \in ModelCalls
    BY <1>1
  <2>3. \A d \in s : v[d] \in Nat /\ Uncovered[d] \in Nat
    BY <1>1, <2>2
  <2>4. \A d \in s \cap H : Estimate[d] \in Nat
    BY <1>1, <2>2
  <2>. QED
    BY <1>0, <2>3, <2>4, SumIsNat
<1>. HIDE DEF v, H
<1>4. Bad = {}
  <2>1. SUFFICES ASSUME NEW n \in Bad, \A m \in Bad : n <= m
                 PROVE  FALSE
    BY SmallestExists
  <2>2. PICK s \in SUBSET Begun :
             /\ Cardinality(s) = n
             /\ ~(SumFunctionOnSet(v, s) <= SumFunctionOnSet(Estimate, s \cap H)
                                              + SumFunctionOnSet(Uncovered, s))
    OBVIOUS
  <2>3. s # {}
    <3>1. SUFFICES ASSUME s = {} PROVE FALSE
      OBVIOUS
    <3>2. SumFunctionOnSet(v, s) = 0
      BY <1>0, <3>1, SumUnfolds
    <3>. QED
      BY <1>3, <2>2, <3>2
  <2>. DEFINE p == Pick(s)
              t == s \ {p}
  <2>4. /\ p \in s /\ p \in ModelCalls /\ t \in SUBSET Begun
        /\ Cardinality(t) \in Nat /\ Cardinality(t) < n
    <3>1. IsFiniteSet(s) /\ n \in Nat
      BY <1>0
    <3>2. p \in s /\ Cardinality(s) \in Nat /\ Cardinality(t) = Cardinality(s) - 1
      BY <2>3, <3>1, SmallerSet
    <3>3. t \in SUBSET Begun
      OBVIOUS
    <3>. HIDE DEF p, t
    <3>4. Cardinality(t) \in Nat
      BY <1>0, <3>3
    <3>. QED
      BY <1>1, <2>2, <3>2, <3>3, <3>4
  <2>5. SumFunctionOnSet(v, t) <= SumFunctionOnSet(Estimate, t \cap H) + SumFunctionOnSet(Uncovered, t)
    <3>1. Cardinality(t) \notin Bad
      <4>1. n \in Nat
        OBVIOUS
      <4>. HIDE DEF Bad, t
      <4>. QED
        BY <2>1, <2>4, <4>1
    <3>. HIDE DEF t
    <3>. QED
      BY <2>4, <3>1
  <2>6. /\ SumFunctionOnSet(v, s) = v[p] + SumFunctionOnSet(v, t)
        /\ SumFunctionOnSet(Uncovered, s) = Uncovered[p] + SumFunctionOnSet(Uncovered, t)
    BY <1>0, <2>3, SumUnfolds
  <2>7. p \in H => SumFunctionOnSet(Estimate, s \cap H)
                     = Estimate[p] + SumFunctionOnSet(Estimate, t \cap H)
    <3>1. SUFFICES ASSUME p \in H
                   PROVE  SumFunctionOnSet(Estimate, s \cap H)
                            = Estimate[p] + SumFunctionOnSet(Estimate, t \cap H)
      OBVIOUS
    <3>2. p \in s \cap H /\ (s \cap H) \ {p} = t \cap H
      BY <2>4, <3>1
    <3>3. \A d \in s \cap H : Estimate[d] \in Nat
      BY <1>1
    <3>. HIDE DEF p, t
    <3>. QED
      BY <1>0, <3>2, <3>3, SumWithout
  <2>8. p \notin H => SumFunctionOnSet(Estimate, s \cap H) = SumFunctionOnSet(Estimate, t \cap H)
    <3>1. p \notin H => s \cap H = t \cap H
      OBVIOUS
    <3>. QED
      BY <3>1
  <2>. HIDE DEF p, t
  <2>9. /\ v[p] \in Nat /\ Uncovered[p] \in Nat /\ Estimate[p] \in Nat
        /\ SumFunctionOnSet(v, t) \in Nat /\ SumFunctionOnSet(Uncovered, t) \in Nat
        /\ SumFunctionOnSet(Estimate, t \cap H) \in Nat
    BY <1>1, <1>3, <2>4
  <2>10. CASE p \in H
    <3>1. v[p] <= Estimate[p] + Uncovered[p]
      BY <1>1, <2>4, <2>10
    <3>. QED
      BY <2>2, <2>5, <2>6, <2>7, <2>9, <2>10, <3>1
  <2>11. CASE p \notin H
    <3>1. v[p] <= Uncovered[p]
      BY <1>1, <2>4, <2>11
    <3>. QED
      BY <2>2, <2>5, <2>6, <2>8, <2>9, <2>11, <3>1
  <2>. QED
    BY <2>10, <2>11
<1>5. Begun \cap H = H /\ Cardinality(Begun) \in Nat /\ Begun \in SUBSET Begun
  BY <1>0, <1>1
<1>6. SumFunctionOnSet(v, Begun) <= SumFunctionOnSet(Estimate, Begun \cap H)
                                      + SumFunctionOnSet(Uncovered, Begun)
  BY <1>4, <1>5
<1>. QED
  BY <1>2, <1>3, <1>5, <1>6 DEF Unrecorded, BlindSpot, Reserved, H

(* Every step of the ledger keeps the types. *)
LEMMA LedgerTypeStep ==
    ASSUME LedgerTypeOK, LedgerNext
    PROVE  LedgerTypeOK'
<1>0. /\ cap \in Ceilings /\ peak \in Ceilings /\ usage \in Nat /\ spent \in Nat /\ over \in Nat
      /\ unreported \in Nat /\ nights \in 0..MaxNights /\ MaxNights \in Nat
      /\ resv \in [ModelCalls -> Reservation] /\ call \in [ModelCalls -> CallState]
      /\ \A c \in ModelCalls : /\ call[c].owed \in Nat /\ HeldFor(c) \in Nat /\ Excess(c) \in Nat
                               /\ Above(call[c].charged, call[c].owed) \in Nat
      /\ Charges \subseteq Nat
  <2>1. \A c \in ModelCalls : call[c] \in CallState
    BY DEF LedgerTypeOK
  <2>2. \A c \in ModelCalls : call[c].owed \in Nat /\ call[c].charged \in Nat /\ HeldFor(c) \in Nat
    BY <2>1, CallFacts DEF HeldFor
  <2>3. \A n \in Nat, m \in Nat : Above(n, m) \in Nat
    BY DEF Above
  <2>. QED
    BY <2>2, <2>3, BudgetLedgerAssumption DEF LedgerTypeOK, Excess
<1>1. ASSUME NEW c \in ModelCalls, NEW p, CallMoves(c, p), p \in CallPhases
      PROVE  call' \in [ModelCalls -> CallState]
  BY <1>0, <1>1, CallFacts DEF CallMoves
<1>2. {"new", "admitted", "returned", "done"} = CallPhases
  BY DEF CallPhases
<1>3. ASSUME NEW c \in ModelCalls, Reserve(c)
      PROVE  LedgerTypeOK'
  <2>1. MarkExpired(resv) \in [ModelCalls -> Reservation]
    BY <1>0, ReservationFacts DEF MarkExpired
  <2>2. resv' \in [ModelCalls -> Reservation]
    BY <1>3, <2>1, ReservationFacts DEF Reserve
  <2>3. call' \in [ModelCalls -> CallState]
    BY <1>1, <1>2, <1>3 DEF Reserve
  <2>. QED
    BY <1>0, <1>3, <2>2, <2>3 DEF Reserve, LedgerTypeOK
<1>4. ASSUME NEW c \in ModelCalls, ReserveRefused(c) \/ DispatchFails(c) \/ AnswerIsDropped(c)
                                     \/ SettleFails(c)
      PROVE  LedgerTypeOK'
  <2>1. call' \in [ModelCalls -> CallState]
    BY <1>1, <1>2, <1>4 DEF ReserveRefused, DispatchFails, AnswerIsDropped, SettleFails
  <2>. QED
    BY <1>0, <1>4, <2>1
    DEF ReserveRefused, DispatchFails, AnswerIsDropped, SettleFails, LedgerTypeOK
<1>5. ASSUME NEW c \in ModelCalls, ReserveUnavailable(c)
      PROVE  LedgerTypeOK'
  <2>1. call' \in [ModelCalls -> CallState]
    BY <1>1, <1>2, <1>5 DEF ReserveUnavailable
  <2>. QED
    BY <1>0, <1>5, <2>1 DEF ReserveUnavailable, LedgerTypeOK
<1>6. ASSUME NEW c \in ModelCalls, CacheHit(c)
      PROVE  LedgerTypeOK'
  <2>1. call' \in [ModelCalls -> CallState]
    BY <1>1, <1>2, <1>6 DEF CacheHit
  <2>2. resv' \in [ModelCalls -> Reservation]
    BY <1>0, <1>6, ReservationFacts DEF CacheHit
  <2>. QED
    BY <1>0, <1>6, <2>1, <2>2 DEF CacheHit, LedgerTypeOK
<1>7. ASSUME NEW c \in ModelCalls, NEW n \in Charges, NEW reported \in BOOLEAN,
             DispatchReturns(c, n, reported)
      PROVE  LedgerTypeOK'
  <2>1. Metered(c, n, reported) \in Amounts /\ Metered(c, n, reported) \in Nat /\ n \in Nat
    <3>1. n \in Amounts
      BY DEF Amounts
    <3>. QED
      BY <1>0, <3>1, CallFacts DEF Metered
  <2>2. call' \in [ModelCalls -> CallState]
    BY <1>0, <1>2, <1>7, <2>1, CallFacts DEF DispatchReturns
  <2>3. spent' \in Nat
    BY <1>0, <1>7, <2>1 DEF DispatchReturns
  <2>. QED
    BY <1>0, <1>7, <2>2, <2>3 DEF DispatchReturns, LedgerTypeOK
<1>8. ASSUME NEW c \in ModelCalls, Settle(c)
      PROVE  LedgerTypeOK'
  <2>1. call' \in [ModelCalls -> CallState]
    <3>1. call[c].owed \in Amounts /\ "done" \in CallPhases
      BY <1>0, <1>2, CallFacts
    <3>2. [phase |-> "done", owed |-> call[c].owed, charged |-> 0] \in CallState
      BY <3>1, CallFacts
    <3>. QED
      BY <1>0, <1>8, <3>2 DEF Settle, Record, Recorded
  <2>2. resv' \in [ModelCalls -> Reservation]
    BY <1>0, <1>8, ReservationFacts DEF Settle
  <2>3. usage' \in Nat /\ over' \in Nat /\ unreported' \in Nat
    BY <1>0, <1>8 DEF Settle, Record
  <2>. QED
    BY <1>0, <1>8, <2>1, <2>2, <2>3 DEF Settle, LedgerTypeOK
<1>9. ASSUME NEW c \in ModelCalls, Lapse(c)
      PROVE  LedgerTypeOK'
  <2>1. resv' \in [ModelCalls -> Reservation]
    BY <1>0, <1>9, ReservationFacts DEF Lapse
  <2>. QED
    BY <1>0, <1>9, <2>1 DEF Lapse, LedgerTypeOK
<1>10. ASSUME NEW n \in Ceilings, SetCap(n)
       PROVE  LedgerTypeOK'
  BY <1>0, <1>10 DEF SetCap, LedgerTypeOK
<1>11. ASSUME Midnight
       PROVE  LedgerTypeOK'
  BY <1>0, <1>11 DEF Midnight, LedgerTypeOK
<1>. QED
  BY <1>3, <1>4, <1>5, <1>6, <1>7, <1>8, <1>9, <1>10, <1>11 DEF LedgerNext

(* A step of one call leaves finitely many begun, and nothing held for the others. *)
LEMMA CallStep ==
    ASSUME LedgerInv, LedgerTypeOK', NEW c \in ModelCalls,
           \A d \in ModelCalls \ {c} : call'[d] = call[d],
           call'[c].phase # "new" \/ call'[c] = call[c],
           \A d \in ModelCalls \ {c} : resv[d].status = "none" => resv'[d].status = "none",
           call'[c].phase = "new" /\ resv[c].status = "none" => resv'[c].status = "none",
           call'[c].phase \in {"new", "admitted"} => call'[c].charged = 0
    PROVE  IsFiniteSet(Begun') /\ NothingHeldYet' /\ NothingChargedYet'
<1>1. Begun' \subseteq Begun \cup {c}
  BY DEF Begun
<1>2. IsFiniteSet(Begun')
  BY <1>1, FS_AddElement, FS_Subset DEF LedgerInv
<1>3. NothingHeldYet'
  BY DEF NothingHeldYet, Begun, LedgerInv
<1>4. NothingChargedYet'
  BY DEF NothingChargedYet, LedgerInv
<1>. QED
  BY <1>2, <1>3, <1>4

(* Every step of the ledger keeps the invariant. *)
LEMMA LedgerStep ==
    ASSUME LedgerInv, LedgerNext
    PROVE  LedgerInv'
<1>0. LedgerTypeOK'
  BY LedgerTypeStep DEF LedgerInv
<1>1. /\ IsFiniteSet(HeldCalls(resv)) /\ IsFiniteSet(Begun)
      /\ Reserved(resv) \in Nat /\ Unrecorded \in Nat
  BY SumsAreNumbers DEF LedgerInv
<1>2. /\ cap \in Nat /\ peak \in Nat /\ cap <= peak
      /\ usage \in Nat /\ spent \in Nat /\ over \in Nat /\ unreported \in Nat
      /\ \A c \in ModelCalls : /\ call[c] \in CallState /\ call'[c] \in CallState
                               /\ resv[c] \in Reservation /\ resv'[c] \in Reservation
                               /\ call[c].owed \in Nat /\ Estimate[c] \in Nat
                               /\ call[c].charged \in Nat
  <2>1. \A c \in ModelCalls : call[c] \in CallState /\ call'[c] \in CallState
    BY <1>0 DEF LedgerTypeOK, LedgerInv
  <2>2. \A c \in ModelCalls : call[c].owed \in Nat /\ call[c].charged \in Nat /\ Estimate[c] \in Nat
    BY <2>1, CallFacts
  <2>3. cap \in Nat /\ peak \in Nat
    BY BudgetLedgerAssumption DEF LedgerTypeOK, LedgerInv
  <2>. QED
    BY <1>0, <2>1, <2>2, <2>3 DEF LedgerTypeOK, LedgerInv
<1>3. /\ Reserved(resv) < peak \/ Reserved(resv) = 0
      /\ usage + Reserved(resv) < peak + over \/ usage + Reserved(resv) <= over
      /\ spent <= usage + unreported + Unrecorded
  BY DEF LedgerInv, HeldIsBelow, WithinCeiling, ChargesAreSomewhere
<1>4. ASSUME NEW c \in ModelCalls, NEW p \in CallPhases, CallMoves(c, p)
      PROVE  /\ \A d \in ModelCalls \ {c} : call'[d] = call[d]
             /\ call'[c].phase = p /\ call'[c].charged = call[c].charged
  BY <1>2, <1>4, CallFacts DEF CallMoves, LedgerTypeOK, LedgerInv
<1>5. {"new", "admitted", "returned", "done"} = CallPhases
  BY DEF CallPhases
<1>6. ASSUME NEW c \in ModelCalls, Reserve(c)
      PROVE  LedgerInv'
  <2>1. /\ \A d \in ModelCalls \ {c} : call'[d] = call[d]
        /\ call'[c].phase = "admitted" /\ call[c].phase = "new"
        /\ call'[c].charged = call[c].charged /\ call[c].charged = 0
    BY <1>4, <1>5, <1>6 DEF Reserve, LedgerInv, NothingChargedYet
  <2>2. resv[c].status = "none"
    BY <2>1 DEF LedgerInv, NothingHeldYet, Begun
  <2>3. /\ resv'[c].status = "reserved" /\ resv'[c].live
        /\ \A d \in ModelCalls \ {c} :
              resv'[d] = IF resv[d].status = "reserved" /\ ~resv[d].live
                         THEN [resv[d] EXCEPT !.status = "expired"] ELSE resv[d]
    BY <1>6, ReservationFacts DEF Reserve, MarkExpired
  <2>4. \A d \in ModelCalls \ {c} :
            /\ resv[d].status = "none" => resv'[d].status = "none"
            /\ d \in HeldCalls(resv') <=> d \in HeldCalls(resv)
    BY <1>2, <2>3, ReservationFacts DEF HeldCalls
  <2>5. HeldCalls(resv') = HeldCalls(resv) \cup {c} /\ c \notin HeldCalls(resv)
    <3>1. c \in HeldCalls(resv') /\ c \notin HeldCalls(resv)
      BY <2>2, <2>3 DEF HeldCalls
    <3>2. HeldCalls(resv') \subseteq ModelCalls /\ HeldCalls(resv) \subseteq ModelCalls
      BY DEF HeldCalls
    <3>. QED
      BY <2>4, <3>1, <3>2
  <2>6. Reserved(resv') = Reserved(resv) + Estimate[c]
    BY <1>1, <2>5, HoldsMore DEF LedgerInv
  <2>7. IsFiniteSet(Begun') /\ NothingHeldYet' /\ NothingChargedYet'
    BY <1>0, <2>1, <2>4, CallStep
  <2>8. Unrecorded' = Unrecorded
    BY <1>0, <1>1, <1>2, <2>1, ChargesMove DEF LedgerInv
  <2>9. usage + Reserved(resv') < cap /\ UNCHANGED <<cap, peak, usage, spent, unreported, over>>
    BY <1>1, <1>2, <1>6, <2>6 DEF Reserve, Fits
  <2>10. HeldIsBelow' /\ WithinCeiling' /\ ChargesAreSomewhere'
    BY <1>1, <1>2, <1>3, <2>6, <2>8, <2>9 DEF HeldIsBelow, WithinCeiling, ChargesAreSomewhere
  <2>. QED
    BY <1>0, <1>2, <2>7, <2>9, <2>10 DEF LedgerInv
<1>7. ASSUME NEW c \in ModelCalls,
             \/ ReserveRefused(c) \/ DispatchFails(c) \/ ReserveUnavailable(c)
             \/ AnswerIsDropped(c) \/ SettleFails(c)
             \/ CacheHit(c) /\ UNCHANGED resv
      PROVE  LedgerInv'
  <2>1. /\ \A d \in ModelCalls \ {c} : call'[d] = call[d]
        /\ call'[c].phase # "new" /\ call'[c].charged = call[c].charged
        /\ call'[c].phase = "admitted" => call[c].charged = 0
        /\ UNCHANGED <<cap, peak, usage, resv, spent, unreported, over>>
    <3>1. PICK p \in {"admitted", "done"} :
               CallMoves(c, p) /\ (p = "admitted" => call[c].phase = "new")
      BY <1>7
      DEF ReserveRefused, DispatchFails, ReserveUnavailable, CacheHit, AnswerIsDropped, SettleFails
    <3>2. p \in CallPhases /\ p # "new"
      BY <1>5
    <3>3. p = "admitted" => call[c].charged = 0
      BY <3>1 DEF LedgerInv, NothingChargedYet
    <3>4. /\ \A d \in ModelCalls \ {c} : call'[d] = call[d]
          /\ call'[c].phase = p /\ call'[c].charged = call[c].charged
      BY <1>4, <3>1, <3>2
    <3>5. UNCHANGED <<cap, peak, usage, resv, spent, unreported, over>>
      BY <1>7
      DEF ReserveRefused, DispatchFails, ReserveUnavailable, CacheHit, AnswerIsDropped, SettleFails
    <3>. QED
      BY <3>2, <3>3, <3>4, <3>5
  <2>2. IsFiniteSet(Begun') /\ NothingHeldYet' /\ NothingChargedYet'
    BY <1>0, <2>1, CallStep
  <2>3. Unrecorded' = Unrecorded
    BY <1>0, <1>1, <1>2, <2>1, ChargesMove DEF LedgerInv
  <2>4. HeldIsBelow' /\ WithinCeiling' /\ ChargesAreSomewhere'
    BY <1>3, <2>1, <2>3 DEF HeldIsBelow, WithinCeiling, ChargesAreSomewhere
  <2>. QED
    BY <1>0, <1>2, <2>1, <2>2, <2>4 DEF LedgerInv
<1>8. ASSUME NEW c \in ModelCalls, NEW n \in Charges, NEW reported \in BOOLEAN,
             DispatchReturns(c, n, reported)
      PROVE  LedgerInv'
  <2>. DEFINE owed == Metered(c, n, reported)
  <2>1. owed \in Amounts /\ owed \in Nat /\ n \in Nat
    <3>1. n \in Amounts
      BY DEF Amounts
    <3>2. Charges \subseteq Nat
      BY BudgetLedgerAssumption
    <3>. QED
      BY <3>1, <3>2, CallFacts DEF Metered
  <2>. HIDE DEF owed
  <2>2. /\ \A d \in ModelCalls \ {c} : call'[d] = call[d]
        /\ call'[c].phase = "returned" /\ call'[c].charged = n
        /\ UNCHANGED <<cap, peak, usage, resv, unreported, over>>
        /\ spent' = spent + n
    BY <1>2, <1>8 DEF DispatchReturns, LedgerInv, LedgerTypeOK, owed
  <2>3. IsFiniteSet(Begun') /\ NothingHeldYet' /\ NothingChargedYet'
    BY <1>0, <2>2, CallStep
  <2>4. Unrecorded' = Unrecorded + n
    <3>1. call[c].charged = 0
      BY <1>8 DEF DispatchReturns, LedgerInv, NothingChargedYet
    <3>2. Unrecorded' + call[c].charged = Unrecorded + call'[c].charged /\ Unrecorded' \in Nat
      BY <1>0, <1>1, <2>2, ChargesMove DEF LedgerInv
    <3>3. Unrecorded' + 0 = Unrecorded + n /\ n \in Nat
      BY <2>1, <2>2, <3>1, <3>2
    <3>4. \A k \in Nat : k + 0 = k
      OBVIOUS
    <3>. QED
      BY <3>2, <3>3, <3>4, Zenon
  <2>5. ChargesAreSomewhere'
    BY <1>1, <1>2, <1>3, <2>1, <2>2, <2>4 DEF ChargesAreSomewhere
  <2>6. HeldIsBelow' /\ WithinCeiling'
    BY <1>3, <2>2 DEF HeldIsBelow, WithinCeiling
  <2>. QED
    BY <1>0, <1>2, <2>2, <2>3, <2>5, <2>6 DEF LedgerInv
<1>9. ASSUME NEW c \in ModelCalls, CacheHit(c), ~UNCHANGED resv
      PROVE  LedgerInv'
  <2>1. /\ \A d \in ModelCalls \ {c} : call'[d] = call[d]
        /\ call'[c].phase = "done" /\ call'[c].charged = call[c].charged
    BY <1>4, <1>5, <1>9 DEF CacheHit
  <2>2. /\ UNCHANGED <<cap, peak, usage, spent, unreported, over>>
        /\ \A d \in ModelCalls \ {c} : resv'[d] = resv[d]
        /\ resv'[c].status = "released"
    BY <1>9, ReservationFacts DEF CacheHit, LedgerInv, LedgerTypeOK
  <2>3. HeldCalls(resv') = HeldCalls(resv) \ {c}
    BY <2>2 DEF HeldCalls
  <2>4. /\ HeldFor(c) \in Nat /\ Reserved(resv') \in Nat
        /\ Reserved(resv) = Reserved(resv') + HeldFor(c)
    BY <1>1, <2>3, HoldsLess DEF LedgerInv
  <2>5. IsFiniteSet(Begun') /\ NothingHeldYet' /\ NothingChargedYet'
    BY <1>0, <2>1, <2>2, CallStep
  <2>6. Unrecorded' = Unrecorded
    BY <1>0, <1>1, <1>2, <2>1, ChargesMove DEF LedgerInv
  <2>7. HeldIsBelow' /\ WithinCeiling'
    BY <1>1, <1>2, <1>3, <2>2, <2>4 DEF HeldIsBelow, WithinCeiling
  <2>8. ChargesAreSomewhere'
    BY <1>3, <2>2, <2>6 DEF ChargesAreSomewhere
  <2>. QED
    BY <1>0, <1>2, <2>2, <2>5, <2>7, <2>8 DEF LedgerInv
<1>10. ASSUME NEW c \in ModelCalls, Settle(c)
       PROVE  LedgerInv'
  <2>1. /\ \A d \in ModelCalls \ {c} : call'[d] = call[d]
        /\ call'[c].phase = "done" /\ call'[c].charged = 0
    BY <1>2, <1>10 DEF Settle, Record, Recorded, LedgerInv, LedgerTypeOK
  <2>2. /\ UNCHANGED <<cap, peak, spent>>
        /\ unreported' = unreported + Above(call[c].charged, call[c].owed)
        /\ usage' = usage + call[c].owed /\ over' = over + Excess(c)
        /\ \A d \in ModelCalls \ {c} : resv'[d] = resv[d]
        /\ resv'[c].status \in {"none", "settled"}
    BY <1>10, ReservationFacts DEF Settle, Record, LedgerInv, LedgerTypeOK
  <2>3. HeldCalls(resv') = HeldCalls(resv) \ {c}
    BY <2>2 DEF HeldCalls
  <2>4. /\ HeldFor(c) \in Nat /\ Reserved(resv') \in Nat
        /\ Reserved(resv) = Reserved(resv') + HeldFor(c)
    BY <1>1, <2>3, HoldsLess DEF LedgerInv
  <2>5. IsFiniteSet(Begun') /\ NothingHeldYet' /\ NothingChargedYet'
    BY <1>0, <2>1, <2>2, CallStep
  <2>6. Unrecorded = Unrecorded' + call[c].charged /\ Unrecorded' \in Nat
    <3>1. Unrecorded' + call[c].charged = Unrecorded + 0 /\ Unrecorded' \in Nat
      BY <1>0, <1>1, <2>1, ChargesMove DEF LedgerInv
    <3>. QED
      BY <1>1, <1>2, <3>1
  <2>7. /\ Excess(c) \in Nat /\ call[c].owed \in Nat /\ call[c].charged \in Nat
        /\ call[c].owed <= HeldFor(c) + Excess(c)
        /\ Above(call[c].charged, call[c].owed) \in Nat
        /\ call[c].charged <= call[c].owed + Above(call[c].charged, call[c].owed)
    BY <1>2, <2>4 DEF Excess, Above
  <2>8. HeldIsBelow'
    BY <1>2, <1>3, <2>2, <2>4 DEF HeldIsBelow
  <2>9. usage' + Reserved(resv') <= usage + Reserved(resv) + Excess(c)
    BY <1>2, <2>2, <2>4, <2>7
  <2>10. WithinCeiling'
    BY <1>1, <1>2, <1>3, <2>2, <2>4, <2>7, <2>9 DEF WithinCeiling
  <2>11. ChargesAreSomewhere'
    BY <1>1, <1>2, <1>3, <2>2, <2>6, <2>7 DEF ChargesAreSomewhere
  <2>. QED
    BY <1>0, <1>2, <2>2, <2>5, <2>8, <2>10, <2>11 DEF LedgerInv
<1>11. ASSUME NEW c \in ModelCalls, Lapse(c)
       PROVE  LedgerInv'
  <2>1. /\ UNCHANGED <<cap, peak, usage, call, spent, unreported, over>>
        /\ \A d \in ModelCalls \ {c} : resv'[d] = resv[d]
        /\ resv'[c].status = resv[c].status /\ resv'[c].live = FALSE
    BY <1>11, ReservationFacts DEF Lapse, LedgerInv, LedgerTypeOK
  <2>2. HeldCalls(resv') = HeldCalls(resv) \ {c}
    BY <2>1 DEF HeldCalls
  <2>3. /\ HeldFor(c) \in Nat /\ Reserved(resv') \in Nat
        /\ Reserved(resv) = Reserved(resv') + HeldFor(c)
    BY <1>1, <2>2, HoldsLess DEF LedgerInv
  <2>4. IsFiniteSet(Begun') /\ NothingHeldYet' /\ NothingChargedYet'
    BY <1>0, <2>1, CallStep DEF LedgerInv, NothingChargedYet
  <2>5. Unrecorded' = Unrecorded
    BY <2>1 DEF Unrecorded, Begun
  <2>6. HeldIsBelow' /\ WithinCeiling'
    BY <1>1, <1>2, <1>3, <2>1, <2>3 DEF HeldIsBelow, WithinCeiling
  <2>7. ChargesAreSomewhere'
    BY <1>3, <2>1, <2>5 DEF ChargesAreSomewhere
  <2>. QED
    BY <1>0, <1>2, <2>1, <2>4, <2>6, <2>7 DEF LedgerInv
<1>12. ASSUME NEW n \in Ceilings, SetCap(n)
       PROVE  LedgerInv'
  <2>1. /\ UNCHANGED <<usage, resv, call, spent, unreported, over>>
        /\ n \in Nat /\ cap' <= peak' /\ peak <= peak' /\ peak' \in Nat
    BY <1>2, <1>12, BudgetLedgerAssumption DEF SetCap
  <2>2. IsFiniteSet(Begun') /\ NothingHeldYet' /\ NothingChargedYet'
    BY <2>1 DEF Begun, NothingHeldYet, NothingChargedYet, LedgerInv
  <2>3. Unrecorded' = Unrecorded
    BY <2>1 DEF Unrecorded, Begun
  <2>4. HeldIsBelow' /\ WithinCeiling' /\ ChargesAreSomewhere'
    BY <1>1, <1>2, <1>3, <2>1, <2>3 DEF HeldIsBelow, WithinCeiling, ChargesAreSomewhere
  <2>. QED
    BY <1>0, <2>1, <2>2, <2>4 DEF LedgerInv
<1>13. ASSUME Midnight
       PROVE  LedgerInv'
  <2>1. /\ UNCHANGED <<cap, peak, resv, call>>
        /\ usage' = 0 /\ unreported' = 0 /\ over' = 0 /\ spent' = 0
    BY <1>13 DEF Midnight
  <2>2. IsFiniteSet(Begun') /\ NothingHeldYet' /\ NothingChargedYet'
    BY <2>1 DEF Begun, NothingHeldYet, NothingChargedYet, LedgerInv
  <2>3. Unrecorded' = Unrecorded
    BY <2>1 DEF Unrecorded, Begun
  <2>4. HeldIsBelow' /\ WithinCeiling' /\ ChargesAreSomewhere'
    BY <1>1, <1>2, <1>3, <2>1, <2>3 DEF HeldIsBelow, WithinCeiling, ChargesAreSomewhere
  <2>. QED
    BY <1>0, <1>2, <2>1, <2>2, <2>4 DEF LedgerInv
<1>. QED
  BY <1>6, <1>7, <1>8, <1>9, <1>10, <1>11, <1>12, <1>13 DEF LedgerNext

(* The inductive invariant of the ledger holds. *)
THEOREM LedgerHolds == LedgerSpec => []LedgerInv
<1>1. LedgerInit => LedgerInv
  <2>1. SUFFICES ASSUME LedgerInit PROVE LedgerInv
    OBVIOUS
  <2>2. /\ \A c \in ModelCalls : resv[c] = NoReservation /\ call[c] = [phase |-> "new", owed |-> 0, charged |-> 0]
        /\ cap \in Ceilings /\ cap \in Nat /\ peak = cap
        /\ usage = 0 /\ spent = 0 /\ unreported = 0 /\ over = 0 /\ nights = 0
    BY <2>1, BudgetLedgerAssumption DEF LedgerInit
  <2>3. LedgerTypeOK
    <3>1. 0 \in 0..MaxNights
      BY BudgetLedgerAssumption
    <3>2. [phase |-> "new", owed |-> 0, charged |-> 0] \in CallState
      BY CallFacts DEF CallPhases
    <3>. QED
      BY <2>1, <2>2, <3>1, <3>2, ReservationFacts DEF LedgerInit, LedgerTypeOK
  <2>4. Begun = {} /\ HeldCalls(resv) = {} /\ NothingHeldYet /\ NothingChargedYet
    BY <2>2, ReservationFacts DEF Begun, HeldCalls, NothingHeldYet, NothingChargedYet
  <2>5. IsFiniteSet({})
    BY FS_EmptySet
  <2>6. Reserved(resv) = 0 /\ Unrecorded = 0
    BY <2>4, <2>5, SumUnfolds DEF Reserved, Unrecorded
  <2>. QED
    BY <2>2, <2>3, <2>4, <2>5, <2>6
    DEF LedgerInv, HeldIsBelow, WithinCeiling, ChargesAreSomewhere
<1>2. LedgerInv /\ UNCHANGED ledgerVars => LedgerInv'
  <2>1. SUFFICES ASSUME LedgerInv, UNCHANGED ledgerVars PROVE LedgerInv'
    OBVIOUS
  <2>2. /\ UNCHANGED <<cap, peak, usage, resv, call, spent, unreported, over, nights>>
    BY <2>1 DEF ledgerVars
  <2>3. Begun' = Begun /\ Unrecorded' = Unrecorded
    BY <2>2 DEF Begun, Unrecorded
  <2>. QED
    BY <2>1, <2>2, <2>3
    DEF LedgerInv, LedgerTypeOK, NothingHeldYet, NothingChargedYet, HeldIsBelow, WithinCeiling, ChargesAreSomewhere
<1>. QED
  BY <1>1, <1>2, LedgerStep, PTL DEF LedgerSpec

(* Reservations, calls and totals keep to their shapes. *)
THEOREM LedgerTypeCorrect == LedgerSpec => []LedgerTypeOK
<1>1. LedgerInv => LedgerTypeOK
  BY DEF LedgerInv
<1>. QED
  BY <1>1, LedgerHolds, PTL

(* Concurrent calls never commit a tenant to more than its ceiling, but for what
   was recorded beyond a reservation: for any number of calls, any estimates,
   charges and ceilings (reserve, settle). *)
THEOREM CeilingHolds == LedgerSpec => []WithinCeiling
<1>1. LedgerInv => WithinCeiling
  BY DEF LedgerInv
<1>. QED
  BY <1>1, LedgerHolds, PTL

(* What providers charged today stays below the ceiling, but for what was recorded
   beyond a reservation, what rows without a usage block leave out and the blind
   spot: for any number of calls, dropped and late ones included (reserve, settle,
   record). *)
THEOREM ChargesStayWithinCeiling == LedgerSpec => []ChargesWithinCeiling
<1>1. LedgerInv => ChargesWithinCeiling
  <2>1. SUFFICES ASSUME LedgerInv PROVE ChargesWithinCeiling
    OBVIOUS
  <2>2. BlindSpot \in Nat /\ Unrecorded <= Reserved(resv) + BlindSpot
    BY <2>1, HoldsCoverCharges DEF LedgerInv
  <2>3. Reserved(resv) \in Nat /\ Unrecorded \in Nat
    BY <2>1, SumsAreNumbers DEF LedgerInv
  <2>4. peak \in Nat /\ usage \in Nat /\ spent \in Nat /\ over \in Nat /\ unreported \in Nat
    BY <2>1, BudgetLedgerAssumption DEF LedgerInv, LedgerTypeOK
  <2>5. /\ usage + Reserved(resv) < peak + over \/ usage + Reserved(resv) <= over
        /\ spent <= usage + unreported + Unrecorded
    BY <2>1 DEF LedgerInv, WithinCeiling, ChargesAreSomewhere
  <2>. QED
    BY <2>2, <2>3, <2>4, <2>5 DEF ChargesWithinCeiling
<1>. QED
  BY <1>1, LedgerHolds, PTL
=============================================================================

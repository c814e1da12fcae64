---------------------------- MODULE ToolRuntime ----------------------------
(***************************************************************************)
(* Governed tool calls: invoke (agent/tools.py) with its execution receipt *)
(* per idempotency key, the approval gate it shares with the reviewers     *)
(* (api/routes/approvals.py), and the capabilities both ask for            *)
(* (identity/capabilities.py).                                             *)
(*                                                                         *)
(* Several requests are in flight in several processes; each transaction   *)
(* is a step.  The handler runs in a thread of its own which a timeout     *)
(* abandons but cannot stop, so its effect may land after the receipt was  *)
(* closed.  A call is a run, a tool and the hash of its arguments.         *)
(* Argument validation and the audit and checkpoint records that follow a  *)
(* transaction are left out; that those records may raise is kept (the     *)
(* caller gets an error, the receipt stands).                              *)
(***************************************************************************)
EXTENDS Naturals

CONSTANTS Calls,       \* [run, tool, sha] records
          Gated,       \* tools that require approval
          Writing,     \* tools whose side_effect is "write"
          Keys,        \* idempotency keys
          Principals,  \* people: they invoke and they review
          ByRole,      \* <<person, tool>>: a role that has the tool's capability
          Reviewers,   \* people whose role has TOOL_APPROVE
          Managers,    \* people whose role has MEMBER_MANAGE
          Grantable,   \* bound: <<person, tool>> pairs that may be granted
          Approvals,   \* ids of tool_approval rows
          Requests,    \* requests in flight at once
          Nobody, NoApproval, NoCall, NoKey

ASSUME ToolRuntimeAssumption ==
    /\ \A c \in Calls : {"run", "tool", "sha"} \subseteq DOMAIN c
    /\ Writing \subseteq Gated     \* ToolSpec.__post_init__
    /\ Reviewers \cup Managers \subseteq Principals
    /\ Nobody \notin Principals /\ NoApproval \notin Approvals
    /\ NoCall \notin Calls /\ NoKey \notin Keys

VARIABLES approval,   \* table tool_approval; live: expires_at > now()
          receipt,    \* table tool_execution, by its unique idempotency_key
          thread,     \* the handler's thread of each execution
          landed,     \* the far end: how often each execution's effect was applied
          request,    \* each request: its arguments and where invoke is
          review,     \* each reviewer: the approval read as pending
          cancelled,  \* runs with a cancellation request
          granted     \* table capability_grant: not revoked, not expired

vars == <<approval, receipt, thread, landed, request, review, cancelled, granted>>

Runs == {c.run : c \in Calls}

Phases == {"idle", "asking", "inserting", "starting", "started",
           "waiting", "failing", "returned", "succeeded"}

ApprovalRow == [status : {"none", "pending", "approved", "rejected"},
                call : Calls \cup {NoCall},
                requested_by : Principals \cup {Nobody},
                decided_by : Principals \cup {Nobody},
                live : BOOLEAN, consumed : BOOLEAN]
ReceiptRow == [status : {"none", "started", "succeeded", "failed", "needs_reconciliation"},
               call : Calls \cup {NoCall},
               approval : Approvals \cup {NoApproval}]
RequestState == [phase : Phases, call : Calls \cup {NoCall},
                 key : Keys \cup {NoKey}, by : Principals \cup {Nobody},
                 approval : Approvals \cup {NoApproval}]

(* Approvals and receipts keep to the statuses their tables' CHECKs allow
   (tool_approval, tool_execution). *)
TypeOK ==
    /\ approval \in [Approvals -> ApprovalRow]
    /\ receipt \in [Keys -> ReceiptRow]
    /\ thread \in [Keys -> {"off", "running", "returned", "raised"}]
    /\ landed \in [Keys -> Nat]
    /\ request \in [Requests -> RequestState]
    /\ review \in [Principals -> Approvals \cup {NoApproval}]
    /\ cancelled \subseteq Runs
    /\ granted \subseteq Grantable

AbsentApproval == [status |-> "none", call |-> NoCall, requested_by |-> Nobody,
                   decided_by |-> Nobody, live |-> FALSE, consumed |-> FALSE]
NoReceipt == [status |-> "none", call |-> NoCall, approval |-> NoApproval]
Idle == [phase |-> "idle", call |-> NoCall, key |-> NoKey, by |-> Nobody,
         approval |-> NoApproval]

Init ==
    /\ approval = [a \in Approvals |-> AbsentApproval]
    /\ receipt = [k \in Keys |-> NoReceipt]
    /\ thread = [k \in Keys |-> "off"]
    /\ landed = [k \in Keys |-> 0]
    /\ request = [q \in Requests |-> Idle]
    /\ review = [p \in Principals |-> NoApproval]
    /\ cancelled = {}
    /\ granted = {}

Goto(q, phase) == request' = [request EXCEPT ![q].phase = phase]

\* The caller gets an error, or 202 with the approval to wait for.
Refuse(q) == request' = [request EXCEPT ![q] = Idle]

-----------------------------------------------------------------------------
(* Capabilities: a role's, or one granted on the tool.                     *)
Allows(p, tool) == <<p, tool>> \in ByRole \cup granted

\* A granter needs MEMBER_MANAGE and the capability itself, by role; a grant that
\* was revoked is made anew.
Grant(g, p, tool) ==
    /\ g \in Managers /\ <<g, tool>> \in ByRole
    /\ <<p, tool>> \in Grantable \ granted
    /\ granted' = granted \cup {<<p, tool>>}
    /\ UNCHANGED <<approval, receipt, thread, landed, request, review, cancelled>>

\* revoke, or the grant expires.
Revoke(p, tool) ==
    /\ <<p, tool>> \in granted
    /\ granted' = granted \ {<<p, tool>>}
    /\ UNCHANGED <<approval, receipt, thread, landed, request, review, cancelled>>

-----------------------------------------------------------------------------
(* invoke, up to the execution.                                            *)
ReplaysForAnyTool(rec, c) == rec.call.sha = c.sha /\ rec.status = "succeeded"

\* _resolve_existing compares tool and arguments, not the run.
Replays(rec, c) == rec.call.tool = c.tool /\ rec.call.sha = c.sha /\ rec.status = "succeeded"

Resolve(q, c, k) ==
    request' = [request EXCEPT ![q] =
        IF Replays(receipt[k], c)
        THEN [Idle EXCEPT !.phase = "succeeded", !.call = c, !.key = k] ELSE Idle]

\* The first cancellation_point, require, _existing, and the decision to ask for approval
\* in the caller's name, which matters from there on only.
Invoke(q, c, k, a, p) ==
    LET open(phase, by) == [phase |-> phase, call |-> c, key |-> k, by |-> by, approval |-> a] IN
    /\ request[q].phase = "idle"
    /\ a # NoApproval => approval[a].status # "none"
    /\ c.run \notin cancelled
    /\ Allows(p, c.tool)
    /\ CASE receipt[k].status # "none" -> Resolve(q, c, k)
         [] receipt[k].status = "none" /\ c.tool \in Gated /\ a = NoApproval ->
                request' = [request EXCEPT ![q] = open("asking", p)]
         [] OTHER -> request' = [request EXCEPT ![q] = open("starting", Nobody)]
    /\ UNCHANGED <<approval, receipt, thread, landed, review, cancelled, granted>>

\* _request_approval finds an open request of the same person for the same call.
Reusable(a, q) ==
    /\ approval[a].status \in {"pending", "approved"}
    /\ approval[a].call = request[q].call
    /\ approval[a].requested_by = request[q].by
    /\ ~approval[a].consumed /\ approval[a].live

FindApproval(q) ==
    /\ request[q].phase = "asking"
    /\ IF \E a \in Approvals : Reusable(a, q) THEN Refuse(q) ELSE Goto(q, "inserting")
    /\ UNCHANGED <<approval, receipt, thread, landed, review, cancelled, granted>>

InsertApproval(q, a) ==
    /\ request[q].phase = "inserting"
    /\ approval[a].status = "none"
    /\ approval' = [approval EXCEPT ![a] = [AbsentApproval EXCEPT
            !.status = "pending", !.call = request[q].call,
            !.requested_by = request[q].by, !.live = TRUE]]
    /\ Refuse(q)
    /\ UNCHANGED <<receipt, thread, landed, review, cancelled, granted>>

-----------------------------------------------------------------------------
(* _start_execution: the receipt and the consumption of the approval are   *)
(* one transaction.                                                        *)
ConsumeHoldsAgain(a, c) ==
    /\ a # NoApproval
    /\ approval[a].status = "approved" /\ approval[a].call = c /\ approval[a].live

ConsumeHolds(a, c) ==
    /\ a # NoApproval
    /\ approval[a].status = "approved" /\ approval[a].call = c
    /\ ~approval[a].consumed /\ approval[a].live

ConflictIgnored(k) == FALSE

Conflict(k) == receipt[k].status # "none"

StartExecution(q) ==
    LET k == request[q].key  c == request[q].call  a == request[q].approval IN
    /\ request[q].phase = "starting"
    /\ ~Conflict(k)
    /\ c.tool \in Gated => ConsumeHolds(a, c)
    /\ receipt' = [receipt EXCEPT ![k] = [status |-> "started", call |-> c, approval |-> a]]
    /\ approval' = IF c.tool \in Gated THEN [approval EXCEPT ![a].consumed = TRUE] ELSE approval
    /\ Goto(q, "started")
    /\ UNCHANGED <<thread, landed, review, cancelled, granted>>

\* ON CONFLICT DO NOTHING: another request with this key came first.
StartRaced(q) ==
    /\ request[q].phase = "starting"
    /\ Conflict(request[q].key)
    /\ Resolve(q, request[q].call, request[q].key)
    /\ UNCHANGED <<approval, receipt, thread, landed, review, cancelled, granted>>

\* ApprovalInvalid; the transaction, receipt included, is rolled back.
StartRefused(q) ==
    LET c == request[q].call  a == request[q].approval IN
    /\ request[q].phase = "starting"
    /\ ~Conflict(request[q].key)
    /\ c.tool \in Gated /\ ~ConsumeHolds(a, c)
    /\ Refuse(q)
    /\ UNCHANGED <<approval, receipt, thread, landed, review, cancelled, granted>>

-----------------------------------------------------------------------------
(* The execution.                                                          *)
\* The second cancellation_point, then the thread.
Submit(q) ==
    /\ request[q].phase = "started"
    /\ IF request[q].call.run \in cancelled
       THEN Goto(q, "failing") /\ UNCHANGED thread
       ELSE Goto(q, "waiting") /\ thread' = [thread EXCEPT ![request[q].key] = "running"]
    /\ UNCHANGED <<approval, receipt, landed, review, cancelled, granted>>

\* The handler ends; an exception may come before or after the effect.
HandlerEnds(k, how) ==
    /\ thread[k] = "running"
    /\ thread' = [thread EXCEPT ![k] = how]
    /\ \/ landed' = [landed EXCEPT ![k] = @ + 1]
       \/ how = "raised" /\ UNCHANGED landed
    /\ UNCHANGED <<approval, receipt, request, review, cancelled, granted>>

\* future.result: the handler's outcome, or the timeout, which leaves the thread
\* running.
FutureResult(q) ==
    /\ request[q].phase = "waiting"
    /\ Goto(q, IF thread[request[q].key] = "returned" THEN "returned" ELSE "failing")
    /\ UNCHANGED <<approval, receipt, thread, landed, review, cancelled, granted>>

FailureStatus(c) == IF c.tool \in Writing THEN "needs_reconciliation" ELSE "failed"

\* An UPDATE ... WHERE status = 'started'.
Finished(k, status) ==
    IF receipt[k].status = "started"
    THEN [receipt EXCEPT ![k].status = status] ELSE receipt

FinishFailure(q) ==
    /\ request[q].phase = "failing"
    /\ receipt' = Finished(request[q].key, FailureStatus(request[q].call))
    /\ Refuse(q)
    /\ UNCHANGED <<approval, thread, landed, review, cancelled, granted>>

\* The handler returned.
FinishSuccess(q) ==
    /\ request[q].phase = "returned"
    /\ receipt' = Finished(request[q].key, "succeeded")
    /\ Goto(q, "succeeded")
    /\ UNCHANGED <<approval, thread, landed, review, cancelled, granted>>

\* The result is too large to keep.
FinishOversized(q) ==
    /\ request[q].phase = "returned"
    /\ receipt' = Finished(request[q].key, "failed")
    /\ Refuse(q)
    /\ UNCHANGED <<approval, thread, landed, review, cancelled, granted>>

\* The closing UPDATE could not be committed, or the result is not JSON: the
\* receipt stays "started".
FinishRaises(q) ==
    /\ request[q].phase \in {"failing", "returned"}
    /\ Refuse(q)
    /\ UNCHANGED <<approval, receipt, thread, landed, review, cancelled, granted>>

\* The caller has its result; the next request may come.
Done(q) ==
    /\ request[q].phase = "succeeded"
    /\ request' = [request EXCEPT ![q] = Idle]
    /\ UNCHANGED <<approval, receipt, thread, landed, review, cancelled, granted>>

\* The process dies with its request and, sooner or later, its thread.
Crash(q) ==
    /\ request[q].phase \notin {"idle", "succeeded"}
    /\ request' = [request EXCEPT ![q] = Idle]
    /\ UNCHANGED <<approval, receipt, thread, landed, review, cancelled, granted>>

-----------------------------------------------------------------------------
(* decide: the reviewer's row is read, then written by a conditional       *)
(* UPDATE under the CHECK that nobody decides their own request.           *)
Review(p, a) ==
    /\ review[p] = NoApproval
    /\ approval[a].status = "pending"
    /\ p \in Reviewers \ {approval[a].requested_by}
    /\ review' = [review EXCEPT ![p] = a]
    /\ UNCHANGED <<approval, receipt, thread, landed, request, cancelled, granted>>

DecideHolds(a) == approval[a].status = "pending" /\ approval[a].live

Decide(p, verdict) ==
    LET a == review[p] IN
    /\ a # NoApproval
    /\ approval' = IF DecideHolds(a)
                   THEN [approval EXCEPT ![a].status = verdict, ![a].decided_by = p]
                   ELSE approval
    /\ review' = [review EXCEPT ![p] = NoApproval]
    /\ UNCHANGED <<receipt, thread, landed, request, cancelled, granted>>

ApprovalLapses(a) ==
    /\ approval[a].live
    /\ approval' = [approval EXCEPT ![a].live = FALSE]
    /\ UNCHANGED <<receipt, thread, landed, request, review, cancelled, granted>>

CancelRun(r) ==
    /\ r \notin cancelled
    /\ cancelled' = cancelled \cup {r}
    /\ UNCHANGED <<approval, receipt, thread, landed, request, review, granted>>

-----------------------------------------------------------------------------
Next ==
    \/ \E q \in Requests :
          \/ \E c \in Calls, k \in Keys, a \in Approvals \cup {NoApproval}, p \in Principals :
                 Invoke(q, c, k, a, p)
          \/ FindApproval(q) \/ \E a \in Approvals : InsertApproval(q, a)
          \/ StartExecution(q) \/ StartRaced(q) \/ StartRefused(q)
          \/ Submit(q) \/ FutureResult(q)
          \/ FinishFailure(q) \/ FinishSuccess(q) \/ FinishOversized(q)
          \/ FinishRaises(q)
          \/ Done(q) \/ Crash(q)
    \/ \E k \in Keys, how \in {"returned", "raised"} : HandlerEnds(k, how)
    \/ \E p \in Principals : \/ \E a \in Approvals : Review(p, a)
                             \/ \E verdict \in {"approved", "rejected"} : Decide(p, verdict)
    \/ \E p \in Principals, c \in Calls : \/ \E g \in Principals : Grant(g, p, c.tool)
                                          \/ Revoke(p, c.tool)
    \/ \E a \in Approvals : ApprovalLapses(a)
    \/ \E r \in Runs : CancelRun(r)

Spec == Init /\ [][Next]_vars

-----------------------------------------------------------------------------
(* One idempotency key performs its effect at most once, over concurrent and
   repeated requests, timeouts whose thread lives on, crashes and unrecorded
   results (_start_execution, _resolve_existing). *)
OneEffectPerKey == \A k \in Keys : landed[k] <= 1

(* Behind every execution of a gated tool stands an approval of exactly that
   run, tool and arguments, given by a reviewer other than its requester, and no
   other execution has it: two keys racing with one signature get one write
   (_start_execution, decide). *)
ExecutionsAreApproved ==
    \A k \in Keys :
        LET rec == receipt[k]  a == approval[rec.approval] IN
        rec.status # "none" /\ rec.call.tool \in Gated =>
            /\ rec.approval # NoApproval
            /\ a.status = "approved" /\ a.call = rec.call
            /\ a.decided_by \in Reviewers \ {a.requested_by}
            /\ \A j \in Keys \ {k} : receipt[j].approval # rec.approval
                                       \/ receipt[j].call.tool \notin Gated

(* A caller told "succeeded", at once or as a replay, has the receipt of one
   performed effect of the tool and the arguments it asked for. *)
SuccessIsReal ==
    \A q \in Requests : request[q].phase = "succeeded" =>
        LET k == request[q].key IN
        /\ receipt[k].status = "succeeded" /\ landed[k] = 1
        /\ receipt[k].call.tool = request[q].call.tool
        /\ receipt[k].call.sha = request[q].call.sha
=============================================================================

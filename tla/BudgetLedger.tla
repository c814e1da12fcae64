---------------------------- MODULE BudgetLedger ----------------------------
(***************************************************************************)
(* One tenant's spend: observability/ledger.py (reservations and usage     *)
(* rows) as the model chain of observability/llm.py uses it, with several  *)
(* calls of the tenant in flight at once.  The cached window of            *)
(* status() is read by reports only and is left out.                       *)
(*                                                                         *)
(* reserve and settle are transactions under the tenant's advisory lock,   *)
(* so each is one step; the provider call lies between them.  Tokens stand *)
(* for both ceilings (cost is added up and compared in the same way, by    *)
(* the month instead of the day).  A call is made once: retries of the     *)
(* provider are inside it and authorised once.  What the provider charges  *)
(* is known from its answer alone (external), and the answer may be dropped*)
(* between the charge and the record: an exception while it is read, or    *)
(* the death of the process.  An embedding goes the same way but for the   *)
(* response cache, which it does not ask.                                  *)
(***************************************************************************)
EXTENDS Integers, FiniteSets, Functions

CONSTANTS ModelCalls,       \* model calls of the tenant
          Estimate,         \* estimated_tokens of each
          Charges,          \* what a provider may report for a call
          Ceilings,         \* values of daily_token_cap
          Interactive,      \* calls whose task is chat or query
          Embeddings,       \* calls of embed, the others are of chat
          FailClosed,       \* setting budget_fail_closed
          MaxNights         \* bound: midnights

ASSUME BudgetLedgerAssumption ==
    /\ Estimate \in [ModelCalls -> Nat]
    /\ Charges \subseteq Nat
    /\ Ceilings \subseteq Nat /\ Ceilings # {}
    /\ Interactive \subseteq ModelCalls
    /\ Embeddings \subseteq ModelCalls
    /\ FailClosed \in BOOLEAN
    /\ MaxNights \in Nat

VARIABLES cap,       \* tenant.daily_token_cap
          peak,      \* history: the highest ceiling there has been
          usage,     \* tokens in today's llm_usage rows
          resv,      \* budget_reservation: status, and whether expires_at > now()
          call,      \* each call: where it is, tokens it still has to record, and
                     \* history: tokens charged for it that no usage row shows
          spent,     \* history: tokens the providers charged today
          unreported, \* history: tokens charged beyond what a row recorded today
                     \* says, for want of a usage block
          over,      \* history: tokens recorded today beyond what was held for them
          nights     \* midnights so far

ledgerVars == <<cap, peak, usage, resv, call, spent, unreported, over, nights>>

Reservation == [status : {"none", "reserved", "expired", "released", "settled"}, live : BOOLEAN]
CallState == [phase : {"new", "admitted", "returned", "done"},
              owed : {0} \cup Charges \cup Range(Estimate),
              charged : {0} \cup Charges]

(* Reservations and calls keep to the statuses of budget_reservation's CHECK,
   and every call owes what its provider reported or its estimate. *)
LedgerTypeOK ==
    /\ cap \in Ceilings /\ peak \in Ceilings
    /\ {usage, spent, unreported, over} \subseteq Nat
    /\ resv \in [ModelCalls -> Reservation]
    /\ call \in [ModelCalls -> CallState]
    /\ nights \in 0..MaxNights

NoReservation == [status |-> "none", live |-> FALSE]

LedgerInit ==
    /\ cap \in Ceilings /\ peak = cap
    /\ usage = 0 /\ spent = 0 /\ unreported = 0 /\ over = 0
    /\ resv = [c \in ModelCalls |-> NoReservation]
    /\ call = [c \in ModelCalls |-> [phase |-> "new", owed |-> 0, charged |-> 0]]
    /\ nights = 0

-----------------------------------------------------------------------------
CallMoves(c, phase) == call' = [call EXCEPT ![c].phase = phase]

\* Tokens held, as reserve adds them up.
HeldCalls(rs) == {c \in ModelCalls : rs[c].status = "reserved" /\ rs[c].live}
Reserved(rs) == SumFunctionOnSet(Estimate, HeldCalls(rs))

FitsIgnoringReservations(c) == usage + Estimate[c] < cap

Fits(c) == usage + Reserved(resv) + Estimate[c] < cap

\* The UPDATE that marks lapsed reservations.
MarkExpired(rs) ==
    [c \in ModelCalls |-> IF rs[c].status = "reserved" /\ ~rs[c].live
                          THEN [rs[c] EXCEPT !.status = "expired"] ELSE rs[c]]

\* reserve.
Reserve(c) ==
    /\ call[c].phase = "new"
    /\ Fits(c)
    /\ resv' = [MarkExpired(resv) EXCEPT ![c] = [status |-> "reserved", live |-> TRUE]]
    /\ CallMoves(c, "admitted")
    /\ UNCHANGED <<cap, peak, usage, spent, unreported, over, nights>>

\* BudgetExceededError: the whole transaction is rolled back.
ReserveRefused(c) ==
    /\ call[c].phase = "new"
    /\ ~Fits(c)
    /\ CallMoves(c, "done")
    /\ UNCHANGED <<cap, peak, usage, resv, spent, unreported, over, nights>>

\* Postgres is unavailable: only an interactive task may go on, unmetered.
ReserveUnavailable(c) ==
    /\ call[c].phase = "new"
    /\ CallMoves(c, IF c \in Interactive /\ ~FailClosed THEN "admitted" ELSE "done")
    /\ UNCHANGED <<cap, peak, usage, resv, spent, unreported, over, nights>>

-----------------------------------------------------------------------------
(* Between reserve and settle.                                             *)

\* The answer is in the response cache: release (which may fail, and then the
\* reservation stays until its TTL), and a usage row of no tokens.
CacheHit(c) ==
    /\ call[c].phase = "admitted"
    /\ c \notin Embeddings
    /\ \/ UNCHANGED resv
       \/ /\ resv[c].status = "reserved"
          /\ resv' = [resv EXCEPT ![c] = [status |-> "released", live |-> FALSE]]
    /\ CallMoves(c, "done")
    /\ UNCHANGED <<cap, peak, usage, spent, unreported, over, nights>>

\* Cancelled before dispatch, the provider failed three times, or the process
\* died: nobody releases the reservation.
DispatchFails(c) ==
    /\ call[c].phase = "admitted"
    /\ CallMoves(c, "done")
    /\ UNCHANGED <<cap, peak, usage, resv, spent, unreported, over, nights>>

\* What a call is recorded with.  Without a usage block that is nothing for a
\* chat and the estimate for an embedding, marked usage_reported = false.
Metered(c, n, reported) ==
    IF reported THEN n ELSE IF c \in Embeddings THEN Estimate[c] ELSE 0

\* The provider answers, and has charged for it.
DispatchReturns(c, n, reported) ==
    /\ call[c].phase = "admitted"
    /\ call' = [call EXCEPT ![c] = [phase |-> "returned", owed |-> Metered(c, n, reported),
                                   charged |-> n]]
    /\ spent' = spent + n
    /\ UNCHANGED <<cap, peak, usage, resv, unreported, over, nights>>

\* Reading the answer raises, which is passed on with no record, or the process
\* dies with the answer in hand: the charge is in no row, and nothing says so.
\* The reservation stays until its TTL.
AnswerIsDropped(c) ==
    /\ call[c].phase = "returned"
    /\ CallMoves(c, "done")
    /\ UNCHANGED <<cap, peak, usage, resv, spent, unreported, over, nights>>

-----------------------------------------------------------------------------
(* settle, or record for an unmetered call: one transaction.               *)
Above(n, m) == IF n > m THEN n - m ELSE 0

\* What Reserved gives up when the call is settled.
HeldFor(c) == IF c \in HeldCalls(resv) THEN Estimate[c] ELSE 0

\* What the call is recorded with beyond that.
Excess(c) == Above(call[c].owed, HeldFor(c))

Recorded(c) ==
    call' = [call EXCEPT ![c] = [phase |-> "done", owed |-> @.owed, charged |-> 0]]

RecordHeld(c) ==
    /\ usage' = IF HeldFor(c) > 0 THEN usage + call[c].owed ELSE usage
    /\ over' = IF HeldFor(c) > 0 THEN over + Excess(c) ELSE over
    /\ unreported' = unreported + Above(call[c].charged, call[c].owed)
    /\ Recorded(c)

\* _insert_usage.
Record(c) ==
    /\ usage' = usage + call[c].owed
    /\ over' = over + Excess(c)
    /\ unreported' = unreported + Above(call[c].charged, call[c].owed)
    /\ Recorded(c)

\* A reservation settles from reserved and from expired alike.  The chain makes
\* one settle for a call and none after a release, so that settle's answers for a
\* reservation already settled or released do not arise.
Settle(c) ==
    /\ call[c].phase = "returned"
    /\ Record(c)
    /\ \/ resv[c].status = "none" /\ UNCHANGED resv
       \/ /\ resv[c].status \in {"reserved", "expired"}
          /\ resv' = [resv EXCEPT ![c] = [status |-> "settled", live |-> FALSE]]
    /\ UNCHANGED <<cap, peak, spent, nights>>

\* Logged and counted: "spend occurred and is NOT in the ledger".
SettleFails(c) ==
    /\ call[c].phase = "returned"
    /\ CallMoves(c, "done")
    /\ UNCHANGED <<cap, peak, usage, resv, spent, unreported, over, nights>>

-----------------------------------------------------------------------------
(* set_caps, and time.                                                     *)
SetCap(n) ==
    /\ n # cap
    /\ cap' = n
    /\ peak' = IF n > peak THEN n ELSE peak
    /\ UNCHANGED <<usage, resv, call, spent, unreported, over, nights>>

\* budget_reservation_ttl_seconds pass, whatever became of the call.
Lapse(c) ==
    /\ resv[c].status = "reserved" /\ resv[c].live
    /\ resv' = [resv EXCEPT ![c].live = FALSE]
    /\ UNCHANGED <<cap, peak, usage, call, spent, unreported, over, nights>>

\* A usage row belongs to the day it is inserted, a charge to the day it is made.
Midnight ==
    /\ nights < MaxNights
    /\ nights' = nights + 1
    /\ usage' = 0 /\ spent' = 0 /\ unreported' = 0 /\ over' = 0
    /\ UNCHANGED <<cap, peak, resv, call>>

-----------------------------------------------------------------------------
LedgerNext ==
    \/ \E c \in ModelCalls :
          \/ Reserve(c) \/ ReserveRefused(c) \/ ReserveUnavailable(c)
          \/ CacheHit(c) \/ DispatchFails(c)
          \/ \E n \in Charges, reported \in BOOLEAN : DispatchReturns(c, n, reported)
          \/ AnswerIsDropped(c) \/ Settle(c) \/ SettleFails(c) \/ Lapse(c)
    \/ \E n \in Ceilings : SetCap(n)
    \/ Midnight

LedgerSpec == LedgerInit /\ [][LedgerNext]_ledgerVars

-----------------------------------------------------------------------------
(* Concurrent calls never commit the tenant to more than its ceiling: tokens
   used today and tokens held for calls in flight stay below it, whatever calls
   overlap, fail, are abandoned or cross midnight.  The one excess there can be
   is what calls recorded beyond the tokens held for them: an answer longer than
   its estimate, a call that outlived its reservation, an unmetered interactive
   call.  A ceiling of 0 admits nothing, so that all there is is such an excess
   (reserve, settle). *)
WithinCeiling ==
    LET committed == usage + Reserved(resv) IN committed < peak + over \/ committed <= over

\* Calls that reserve has been asked for.
Begun == {c \in ModelCalls : call[c].phase # "new"}

\* Of the charges that no row shows, what no live reservation stands for either.
Uncovered == [c \in ModelCalls |-> Above(call[c].charged, HeldFor(c))]
BlindSpot == SumFunctionOnSet(Uncovered, Begun)

(* What the providers really charged today stays below the ceiling, not only what
   the rows say they did, whatever calls overlap, outlive their reservation, are
   settled late or never.  A charge whose answer was dropped or whose settle
   failed is in no row, but the reservation nobody released stands for it until
   its TTL.  Beyond the ceiling there can only be what was recorded above a
   reservation, what a row without a usage block leaves out, and the blind spot:
   charges in no row whose reservation has lapsed or was smaller
   (reserve, settle, record). *)
ChargesWithinCeiling ==
    LET excess == over + unreported + BlindSpot IN
    spent < peak + excess \/ spent <= excess
=============================================================================

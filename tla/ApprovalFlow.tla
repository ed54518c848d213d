---------------------------- MODULE ApprovalFlow ----------------------------
(***************************************************************************)
(* The approval flow of AFAL (backend/afal/service/runtime.ts) together    *)
(* with the authorization sessions of AMN (backend/amn/service.ts), the    *)
(* intents and pending executions of the AFAL state                        *)
(* (backend/afal/state/service.ts) and the ATS ledger (AtsLedger).         *)
(*                                                                         *)
(* An agent requests an action: capacity is reserved and an approval       *)
(* session opened.  The trusted surface applies a result to the session.   *)
(* Resuming the action executes it on the payment rail or at the resource  *)
(* provider, charges the reservation and notifies the receiver; a result   *)
(* other than "approved" releases the reservation instead.                 *)
(*                                                                         *)
(* Handlers run concurrently: a step is one call of a handler to a service *)
(* or to the rail, so handlers interleave between calls, and a crash stops *)
(* all of them between two calls.  Everything but the handlers is durable. *)
(***************************************************************************)
EXTENDS Integers, FiniteSets

CONSTANTS
  Actions,      \* action references (intent identifiers)
  Payments,     \* the actions that are payments; the others use a resource
  Offers,       \* Offers[a]: the terms that a request for action a may bring
  Budgets, Quotas, Limit, Holdings, MaxAmount,  \* see AtsLedger
  Handlers,     \* the request handlers that may be in progress at a time
  Results,      \* the results that the trusted surface may apply
  Consistent,   \* TRUE: it never applies two different results to a session
  RailOutcomes, \* "ok", "refused", or "lost": executed, but the answer was lost
  Calls,        \* Calls[op]: bound on the calls of op for each action
  MaxCrashes    \* bound on the crashes of the process

\* "direct": executePayment or settleResourceUsage, see DirectFlow.
Operations == {"request", "direct", "apply", "resumeSession", "resumeAction"}

ASSUME ActionsAssumption ==
  /\ Payments \subseteq Actions
  /\ \A a \in Actions : Offers[a] \subseteq [holding : Holdings, amount : 1..MaxAmount]

ASSUME LedgerAssumption ==
  /\ Budgets \cap Quotas = {}
  /\ Limit \in [Budgets \cup Quotas -> Nat \ {0}]
  /\ Holdings \subseteq SUBSET (Budgets \cup Quotas)
  /\ MaxAmount \in Nat
  /\ IsFiniteSet(Actions)

ASSUME EnvironmentAssumption ==
  /\ Results \subseteq {"approved", "rejected", "expired", "cancelled"}
  /\ Consistent \in BOOLEAN
  /\ RailOutcomes \subseteq {"ok", "refused", "lost"}
  /\ Calls \in [Operations -> Nat]
  /\ MaxCrashes \in Nat

VARIABLES
  intent,        \* status of the payment or resource intent
  session,       \* the approval session: its result and its final decision
  priorDecision, \* result of the decision record the session refers to
  pending,       \* status of the pending execution
  receipts,      \* the actions whose settlement has a stored receipt
  consumed, reserved, available, lineStatus, reservation, \* see AtsLedger
  handler,       \* the calls in progress
  executed,      \* how often the rail or the provider executed the action
  approvals,     \* the actions that have ever been approved
  notified,      \* the actions whose settlement was handed to the notifier
  asked,         \* the terms for which capacity was reserved
  callsLeft, crashesLeft

ledger == <<consumed, reserved, available, lineStatus, reservation>>
bounds == <<callsLeft, crashesLeft>>
records == <<intent, session, priorDecision, pending, receipts>>
ghosts == <<executed, approvals, notified, asked>>
vars == <<records, ledger, handler, ghosts, bounds>>

Ledger == INSTANCE AtsLedger WITH Reservations <- Actions

NoSession == [result |-> "none", final |-> "none", open |-> FALSE]
FreshSession == [NoSession EXCEPT !.open = TRUE]

Idle == [pc |-> "idle"]

Init ==
  /\ intent = [a \in Actions |-> "none"]
  /\ session = [a \in Actions |-> NoSession]
  /\ priorDecision = [a \in Actions |-> "none"]
  /\ pending = [a \in Actions |-> "none"]
  /\ receipts = {}
  /\ Ledger!Init
  /\ handler = [h \in Handlers |-> Idle]
  /\ executed = [a \in Actions |-> 0]
  /\ approvals = {}
  /\ notified = {}
  /\ asked = [a \in Actions |-> {}]
  /\ callsLeft = [a \in Actions |-> Calls]
  /\ crashesLeft = MaxCrashes

-----------------------------------------------------------------------------
(* Handlers: a call takes an idle handler and steps it until it returns.   *)

At(h, pc) == handler[h].pc = pc
Goto(h, pc) == handler' = [handler EXCEPT ![h].pc = pc]
Return(h) == handler' = [handler EXCEPT ![h] = Idle]

Call(a, op) ==
  /\ callsLeft[a][op] > 0
  /\ callsLeft' = [callsLeft EXCEPT ![a][op] = @ - 1]
  /\ UNCHANGED crashesLeft

Start(h, a, pc, decision) ==
  /\ handler[h] = Idle
  /\ handler' = [handler EXCEPT ![h] =
       [pc |-> pc, action |-> a, decision |-> decision]]

SetIntent(a, s) == intent' = [intent EXCEPT ![a] = s]
SetPending(a, s) == pending' = [pending EXCEPT ![a] = s]

-----------------------------------------------------------------------------
(* requestPaymentApproval, requestResourceApproval                         *)

\* A repeated request replaces the intent, whatever its status, with one of its
\* own terms.  They are chosen below, where they are first used; those that the
\* intent stores matter to the rail (PaymentTool), and not to the ledger.
CreateIntent(h, a) ==
  /\ Call(a, "request")
  /\ Start(h, a, "reserve", "none")
  /\ SetIntent(a, "created")
  /\ UNCHANGED <<session, priorDecision, pending, receipts, ledger, ghosts>>

\* The reservation has one identifier for all requests for the action: a repeated
\* request replaces it, too, perhaps by another amount or on another budget.
ReserveFor(a) ==
  \E terms \in Offers[a] :
    /\ Ledger!Reserve(a, terms.holding, terms.amount, terms.holding)
    /\ asked' = [asked EXCEPT ![a] = @ \cup {terms}]

\* The identity and credential checks and the account lookup precede the
\* reservation; one of them, or the reservation itself, may be refused.
ReserveCapacity(h) ==
  LET a == handler[h].action
  IN  /\ At(h, "reserve")
      /\ \/ /\ ReserveFor(a)
            /\ Goto(h, "evaluate")
         \/ /\ Return(h)
            /\ UNCHANGED <<ledger, asked>>
      /\ UNCHANGED <<records, executed, approvals, notified, bounds>>

\* An unknown mandate makes the request fail with the capacity reserved.
EvaluateAuthorization(h) ==
  LET a == handler[h].action
  IN  /\ At(h, "evaluate")
      /\ \/ /\ priorDecision' = [priorDecision EXCEPT ![a] = "challenge-required"]
            /\ Goto(h, "openSession")
         \/ /\ Return(h)
            /\ UNCHANGED priorDecision
      /\ UNCHANGED <<intent, session, pending, receipts, ledger, ghosts, bounds>>

CreateApprovalRequest(h) ==
  /\ At(h, "openSession")
  /\ session' = [session EXCEPT ![handler[h].action] = FreshSession]
  /\ Goto(h, "createPending")
  /\ UNCHANGED <<intent, priorDecision, pending, receipts, ledger, ghosts, bounds>>

CreatePendingExecution(h) ==
  /\ At(h, "createPending")
  /\ SetPending(handler[h].action, "pending")
  /\ Goto(h, "markChallenge")
  /\ UNCHANGED <<intent, session, priorDecision, receipts, ledger, ghosts, bounds>>

MarkChallenge(h) ==
  /\ At(h, "markChallenge")
  /\ SetIntent(handler[h].action, "pending-approval")
  /\ Return(h)
  /\ UNCHANGED <<session, priorDecision, pending, receipts, ledger, ghosts, bounds>>

-----------------------------------------------------------------------------
(* AMN sessions                                                            *)

\* Wrong: every result is a decision.
OutcomeVerbatim(result) == result

\* The result decides: "approved", "expired", or "rejected" for the others.
Outcome(result) ==
  IF result \in {"approved", "expired"} THEN result ELSE "rejected"

\* Wrong: a session that is final follows the latest result.
DecisionOfLatest(a) == Outcome(session[a].result)

\* A session that is final keeps its decision.  One closed without approval
\* refers to the record of its prior decision, which finalization overwrote.
DecisionOf(a) ==
  CASE session[a].final = "none"    -> Outcome(session[a].result)
    [] session[a].final = "granted" -> "approved"
    [] session[a].final = "prior"   -> priorDecision[a]

ResumeSession(a) ==
  /\ session[a].result # "none"
  /\ \/ /\ session[a].final # "none"
        /\ UNCHANGED <<session, priorDecision>>
     \/ /\ session[a].final = "none"
        /\ session[a].result = "approved"
        /\ session' = [session EXCEPT ![a].final = "granted"]
        /\ UNCHANGED priorDecision
     \/ /\ session[a].final = "none"
        /\ session[a].result # "approved"
        /\ session' = [session EXCEPT ![a].final = "prior"]
        /\ priorDecision' = [priorDecision EXCEPT ![a] = Outcome(session[a].result)]

\* resumeApprovalSession finalizes the session and nothing else.
ResumeApprovalSession(a) ==
  /\ Call(a, "resumeSession")
  /\ ResumeSession(a)
  /\ UNCHANGED <<intent, pending, receipts, ledger, handler, ghosts>>

-----------------------------------------------------------------------------
(* applyApprovalResult: an approval is only recorded; any other result      *)
(* closes the action.                                                      *)

ApplyApprovalResult(h, a, result) ==
  /\ Call(a, "apply")
  /\ session[a].open
  /\ Consistent => session[a].result \in {"none", result}
  /\ session' = [session EXCEPT ![a].result = result]
  /\ \/ /\ result = "approved"
        /\ handler[h] = Idle
        /\ approvals' = approvals \cup {a}
        /\ UNCHANGED handler
     \/ /\ result # "approved"
        /\ Start(h, a, "close", "none")
        /\ UNCHANGED approvals
  /\ UNCHANGED <<intent, priorDecision, pending, receipts, ledger,
                 executed, notified, asked>>

\* Wrong: the action is closed and its capacity stays reserved.
CloseSessionKeepingHold(h) ==
  LET a == handler[h].action
  IN  /\ At(h, "close")
      /\ \/ /\ pending[a] # "none"
            /\ ResumeSession(a)
            /\ handler' = [handler EXCEPT ![h].pc = "markClosed", ![h].decision = DecisionOf(a)]
         \/ /\ pending[a] = "none" \/ session[a].result = "none"
            /\ Return(h)
            /\ UNCHANGED <<session, priorDecision>>
      /\ UNCHANGED <<intent, pending, receipts, ledger, ghosts, bounds>>

\* The pending execution may be missing when the request died before it.  A
\* session reopened by a repeated request has no result to resume from.
CloseSession(h) ==
  LET a == handler[h].action
  IN  /\ At(h, "close")
      /\ \/ /\ pending[a] # "none"
            /\ ResumeSession(a)
            /\ handler' = [handler EXCEPT ![h].pc = "release", ![h].decision = DecisionOf(a)]
         \/ /\ pending[a] = "none" \/ session[a].result = "none"
            /\ Return(h)
            /\ UNCHANGED <<session, priorDecision>>
      /\ UNCHANGED <<intent, pending, receipts, ledger, ghosts, bounds>>

\* Releasing a reservation that is not active throws, and the call ends there.
ReleaseThen(h, pc) ==
  LET a == handler[h].action
  IN  \/ /\ Ledger!Release(a, reservation[a].holding)
         /\ Goto(h, pc)
      \/ /\ reservation[a].state # "reserved"
         /\ Return(h)
         /\ UNCHANGED ledger

ReleaseReservation(h) ==
  /\ At(h, "release")
  /\ ReleaseThen(h, "markClosed")
  /\ UNCHANGED <<records, ghosts, bounds>>

MarkClosed(h) ==
  /\ At(h, "markClosed")
  /\ SetIntent(handler[h].action,
       IF handler[h].decision = "expired" THEN "expired" ELSE "rejected")
  /\ Goto(h, "markReleased")
  /\ UNCHANGED <<session, priorDecision, pending, receipts, ledger, ghosts, bounds>>

MarkReleased(h) ==
  /\ At(h, "markReleased")
  /\ SetPending(handler[h].action, "released")
  /\ Return(h)
  /\ UNCHANGED <<intent, session, priorDecision, receipts, ledger, ghosts, bounds>>

-----------------------------------------------------------------------------
(* resumeApprovedAction                                                    *)

StartResume(h, a) ==
  /\ Call(a, "resumeAction")
  /\ pending[a] # "none"
  /\ ResumeSession(a)
  /\ Start(h, a, "readIntent", DecisionOf(a))
  /\ UNCHANGED <<intent, pending, receipts, ledger, ghosts>>

\* Wrong: only a rejection stops the action, an expiry does not.
ReadIntentUnlessRejected(h) ==
  LET replay == handler[h].action \in Payments /\ intent[handler[h].action] = "settled"
  IN  /\ At(h, "readIntent")
      /\ Goto(h, IF replay THEN "readBack"
                 ELSE IF handler[h].decision = "rejected" THEN "release"
                 ELSE "execute")
      /\ UNCHANGED <<records, ledger, ghosts, bounds>>

\* A payment that is already settled is answered from its receipt; a resource
\* action has no such check.  Everything that is not approved is closed as by
\* applyApprovalResult.
ReadIntent(h) ==
  LET replay == handler[h].action \in Payments /\ intent[handler[h].action] = "settled"
  IN  /\ At(h, "readIntent")
      /\ \/ /\ replay
            /\ Goto(h, "readBack")
         \/ /\ ~replay
            /\ handler[h].decision # "approved"
            /\ Goto(h, "release")
         \/ /\ ~replay
            /\ handler[h].decision = "approved"
            /\ Goto(h, "execute")
      /\ UNCHANGED <<records, ledger, ghosts, bounds>>

\* The replay needs the receipt of the settlement, and fails without it.
ReadBack(h) ==
  /\ At(h, "readBack")
  /\ IF handler[h].action \in receipts
     THEN SetPending(handler[h].action, "resumed")
     ELSE UNCHANGED pending
  /\ Return(h)
  /\ UNCHANGED <<intent, session, priorDecision, receipts, ledger, ghosts, bounds>>

\* Wrong: a refusal of the rail is taken for a settlement.
ExecuteIgnoringRefusal(h, outcome) ==
  /\ At(h, "execute")
  /\ executed' = [executed EXCEPT ![handler[h].action] =
       IF outcome = "refused" THEN @ ELSE @ + 1]
  /\ Goto(h, IF outcome # "lost" THEN "createReceipt" ELSE "undo")
  /\ UNCHANGED <<records, ledger, approvals, notified, asked, bounds>>

\* Wrong: the intent is marked settled before its receipt is stored.
ExecuteThenMark(h, outcome) ==
  /\ At(h, "execute")
  /\ executed' = [executed EXCEPT ![handler[h].action] =
       IF outcome = "refused" THEN @ ELSE @ + 1]
  /\ Goto(h, IF outcome = "ok" THEN "markSettled" ELSE "undo")
  /\ UNCHANGED <<records, ledger, approvals, notified, asked, bounds>>

\* executePayment, or confirmResourceUsage and settleResourceUsage.
Execute(h, outcome) ==
  /\ At(h, "execute")
  /\ executed' = [executed EXCEPT ![handler[h].action] =
       IF outcome = "refused" THEN @ ELSE @ + 1]
  /\ Goto(h, IF outcome = "ok" THEN "createReceipt" ELSE "undo")
  /\ UNCHANGED <<records, ledger, approvals, notified, asked, bounds>>

ReleaseFailed(h) ==
  /\ At(h, "undo")
  /\ ReleaseThen(h, "markFailed")
  /\ UNCHANGED <<records, ghosts, bounds>>

MarkFailed(h) ==
  /\ At(h, "markFailed")
  /\ SetPending(handler[h].action, "failed")
  /\ Return(h)
  /\ UNCHANGED <<intent, session, priorDecision, receipts, ledger, ghosts, bounds>>

CreateActionReceipt(h, from, to) ==
  /\ At(h, from)
  /\ receipts' = receipts \cup {handler[h].action}
  /\ Goto(h, to)
  /\ UNCHANGED <<intent, session, priorDecision, pending, ledger, ghosts, bounds>>

\* Wrong: the reservation is not charged.
MarkSettledUncharged(h) ==
  /\ At(h, "markSettled")
  /\ SetIntent(handler[h].action, "settled")
  /\ Goto(h, "markResumed")
  /\ UNCHANGED <<session, priorDecision, pending, receipts, ledger, ghosts, bounds>>

MarkSettled(h) ==
  /\ At(h, "markSettled")
  /\ SetIntent(handler[h].action, "settled")
  /\ Goto(h, "charge")
  /\ UNCHANGED <<session, priorDecision, pending, receipts, ledger, ghosts, bounds>>

\* Wrong: a payment, too, fails when its reservation is no longer active.
ChargeOrFail(h) ==
  LET a == handler[h].action
  IN  /\ At(h, "charge")
      /\ \/ /\ Ledger!Settle(a, reservation[a].holding)
            /\ Goto(h, "markResumed")
         \/ /\ reservation[a].state # "reserved"
            /\ Return(h)
            /\ UNCHANGED ledger
      /\ UNCHANGED <<records, ghosts, bounds>>

\* Only a payment goes on when its reservation is no longer active; a resource
\* action fails with the provider already settled.
ChargeReservation(h) ==
  LET a == handler[h].action
  IN  /\ At(h, "charge")
      /\ \/ /\ Ledger!Settle(a, reservation[a].holding)
            /\ Goto(h, "markResumed")
         \/ /\ reservation[a].state # "reserved"
            /\ IF a \in Payments THEN Goto(h, "markResumed") ELSE Return(h)
            /\ UNCHANGED ledger
      /\ UNCHANGED <<records, ghosts, bounds>>

MarkResumed(h) ==
  /\ At(h, "markResumed")
  /\ SetPending(handler[h].action, "resumed")
  /\ Goto(h, "notify")
  /\ UNCHANGED <<intent, session, priorDecision, receipts, ledger, ghosts, bounds>>

Notify(h) ==
  /\ At(h, "notify")
  /\ notified' = notified \cup {handler[h].action}
  /\ Return(h)
  /\ UNCHANGED <<records, ledger, executed, approvals, asked, bounds>>

-----------------------------------------------------------------------------

Crash ==
  /\ crashesLeft > 0
  /\ \E h \in Handlers : handler[h] # Idle
  /\ crashesLeft' = crashesLeft - 1
  /\ handler' = [h \in Handlers |-> Idle]
  /\ UNCHANGED <<records, ledger, ghosts, callsLeft>>

RequestStep(h) ==
  \/ ReserveCapacity(h) \/ EvaluateAuthorization(h) \/ CreateApprovalRequest(h)
  \/ CreatePendingExecution(h) \/ MarkChallenge(h)

CloseStep(h) ==
  \/ CloseSession(h) \/ ReleaseReservation(h) \/ MarkClosed(h) \/ MarkReleased(h)

ResumeStep(h) ==
  \/ ReadIntent(h) \/ ReadBack(h)
  \/ \E outcome \in RailOutcomes : Execute(h, outcome)
  \/ ReleaseFailed(h) \/ MarkFailed(h)
  \/ CreateActionReceipt(h, "createReceipt", "markSettled")
  \/ MarkSettled(h) \/ ChargeReservation(h) \/ MarkResumed(h) \/ Notify(h)

\* A call that is under way.
HandlerStep(h) == RequestStep(h) \/ CloseStep(h) \/ ResumeStep(h)

\* A call that arrives.
NewCall ==
  \E a \in Actions :
    \/ ResumeApprovalSession(a)
    \/ \E h \in Handlers :
         \/ CreateIntent(h, a)
         \/ \E result \in Results : ApplyApprovalResult(h, a, result)
         \/ StartResume(h, a)

Next == NewCall \/ (\E h \in Handlers : HandlerStep(h)) \/ Crash

Spec == Init /\ [][Next]_vars

\* A handler that is under way is run on by the event loop.
FairSpec == Spec /\ \A h \in Handlers : WF_vars(HandlerStep(h))

-----------------------------------------------------------------------------

DirectCounters ==
  {"directReserve", "directEvaluate", "directOpen", "directChallenge", "directApply",
   "directResume", "directDecide", "directExecute", "directRelease",
   "directReceipt", "directSettled", "directCharge"}

ProgramCounters == DirectCounters \cup
  {"reserve", "evaluate", "openSession", "createPending", "markChallenge",
   "close", "release", "markClosed", "markReleased",
   "readIntent", "readBack", "execute", "undo", "markFailed",
   "createReceipt", "markSettled", "charge", "markResumed", "notify"}

TypeOK ==
  /\ intent \in [Actions -> {"none", "created", "pending-approval", "settled",
                             "rejected", "expired"}]
  /\ session \in [Actions ->
       [result : Results \cup {"none"}, final : {"none", "granted", "prior"},
        open : BOOLEAN]]
  /\ priorDecision \in [Actions -> {"none", "challenge-required", "rejected", "expired"}]
  /\ pending \in [Actions -> {"none", "pending", "released", "failed", "resumed"}]
  /\ receipts \subseteq Actions
  /\ Ledger!TypeOK
  /\ handler \in [Handlers -> {Idle} \cup
       [pc : ProgramCounters, action : Actions,
        decision : {"none", "approved", "challenge-required", "rejected", "expired"}]]
  /\ executed \in [Actions -> Nat]
  /\ approvals \subseteq Actions
  /\ notified \subseteq Actions
  /\ asked \in [Actions -> SUBSET [holding : Holdings, amount : 1..MaxAmount]]
  /\ callsLeft \in [Actions -> [Operations -> Nat]]
  /\ crashesLeft \in Nat

\* Nothing is paid or used that was never approved, whatever results, retries,
\* failures and crashes follow one another (runtime.ts:955, 1119).
ExecutedWasApproved == \A a \in Actions : executed[a] > 0 => a \in approvals

\* The units of the largest reservation that was made for action a on line l.
AskedUnits(a, l) ==
  {n \in 1..MaxAmount : \E terms \in asked[a] : l \in terms.holding /\ n <= terms.amount}

\* These units for each execution of an action.
ExecutedUnits(l) == UNION {{a} \X ((1..executed[a]) \X AskedUnits(a, l)) : a \in Actions}

\* A line is charged at most once for each execution by the rail or the provider,
\* and then at most the largest amount that a request for the action reserved on
\* it: a failed, rejected or repeated attempt never costs the payer budget
\* (runtime.ts:989, 1047).
ChargedWasExecuted ==
  \A l \in Ledger!Lines : consumed[l] <= Cardinality(ExecutedUnits(l))

\* While an action is requested only once, by either flow, a session that became final without
\* approval never lets it execute, even if an approval is applied later, a call
\* is repeated or the process dies (amn/service.ts:318).
RequestedOnce(a) ==
  callsLeft[a]["request"] + callsLeft[a]["direct"] = Calls["request"] + Calls["direct"] - 1

FinalRejectionHolds ==
  \A a \in Actions :
    RequestedOnce(a) /\ session[a].final = "prior" => executed[a] = 0

InProgress(a) == \E h \in Handlers : handler[h] # Idle /\ handler[h].action = a

\* Once the calls on an action have returned, a pending execution that is marked
\* resumed has its reservation charged (README.md:781, backend/ats/README.md:38).
ResumedIsCharged ==
  \A a \in Actions : pending[a] = "resumed" /\ ~InProgress(a) =>
    reservation[a].state = "settled"

\* An action that AFAL shows as rejected, expired or released no longer holds
\* capacity (runtime.ts:566-596).
ClosedIsReleased ==
  \A a \in Actions :
    pending[a] = "released" \/ intent[a] \in {"rejected", "expired"} =>
      reservation[a].state = "released"

\* A payment that is shown as settled has its receipt, so that a repeated resume
\* can be answered from it, wherever a call failed or the process died
\* (runtime.ts:895-907).
SettledHasReceipt == \A a \in Actions : intent[a] = "settled" => a \in receipts

\* Replayed calls do not settle an action twice
\* (trusted-surface-callback-contract.md:435).
SettlesAtMostOnce == \A a \in Actions : executed[a] <= 1

\* The receiver of a settled payment is eventually notified, also when resumes
\* overlap or an earlier attempt failed and released the reservation: the
\* settlement is not lost behind the inactive reservation (runtime.ts:1060-1062).
SettledIsNotified ==
  \A a \in Actions : intent[a] = "settled" ~> a \in notified

=============================================================================

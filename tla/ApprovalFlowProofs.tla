------------------------- MODULE ApprovalFlowProofs -------------------------
(***************************************************************************)
(* What holds of the approval flow and the direct flows together           *)
(* (DirectSpec) for any set of actions, handlers, results and rail         *)
(* outcomes and any bounds: that they use the ledger as AtsLedger allows,  *)
(* so that its theorems carry over; the types; that nothing is executed    *)
(* that was never approved; that a rejection is final; that a settled      *)
(* action has its receipt; and that what is charged was executed.  With    *)
(* one request for each action, what is closed holds nothing; when nothing *)
(* fails either, what is resumed is charged; and when the calls on an      *)
(* action do not overlap, a payment is made once.                          *)
(*                                                                         *)
(* None of these is inductive: a handler decides in one step and acts in a *)
(* later one.  The invariant therefore also says what a handler that is    *)
(* under way has already seen, and, for FinalRejectionHolds, that before   *)
(* its only session is opened nothing else can touch an action.            *)
(***************************************************************************)
EXTENDS DirectFlow, FiniteSetTheorems, TLAPS

USE ActionsAssumption, EnvironmentAssumption

Decisions == {"none", "approved", "challenge-required", "rejected", "expired"}
HandlerRecord == [pc : ProgramCounters, action : Actions, decision : Decisions]

AskedTypes == [Actions -> SUBSET [holding : Holdings, amount : 1..MaxAmount]]

\* TypeOK without the ledger, whose types are its own theorem.
FlowTypes ==
  /\ intent \in [Actions -> {"none", "created", "pending-approval", "settled",
                             "rejected", "expired"}]
  /\ session \in [Actions ->
       [result : Results \cup {"none"}, final : {"none", "granted", "prior"},
        open : BOOLEAN]]
  /\ priorDecision \in [Actions -> {"none", "challenge-required", "rejected", "expired"}]
  /\ pending \in [Actions -> {"none", "pending", "released", "failed", "resumed"}]
  /\ receipts \subseteq Actions
  /\ handler \in [Handlers -> {Idle} \cup HandlerRecord]
  /\ executed \in [Actions -> Nat]
  /\ approvals \subseteq Actions
  /\ notified \subseteq Actions
  /\ asked \in AskedTypes
  /\ callsLeft \in [Actions -> [Operations -> Nat]]
  /\ crashesLeft \in Nat

\* A session that grants, or is about to, was approved.
GrantedWasApproved ==
  \A a \in Actions :
    session[a].result = "approved" \/ session[a].final = "granted" => a \in approvals

Executing == {"execute", "directExecute"}
Settling == {"markSettled", "directSettled"}

\* What a handler under way has already seen.
HandlersSaw ==
  \A h \in Handlers : handler[h] # Idle =>
    /\ handler[h].decision = "approved" => handler[h].action \in approvals
    /\ handler[h].pc \in Executing => handler[h].decision = "approved"
    /\ handler[h].pc \in Settling => handler[h].action \in receipts

Opening == {"reserve", "evaluate", "openSession",
            "directReserve", "directEvaluate", "directOpen"}

On(h, a) == handler[h] # Idle /\ handler[h].action = a

Untouched(a) == session[a] = NoSession /\ pending[a] = "none" /\ executed[a] = 0

RequestsLeft(a) == callsLeft[a]["request"] + callsLeft[a]["direct"]
AllRequests == Calls["request"] + Calls["direct"]

\* Before its first request, and until that request opens the session, nothing
\* else touches an action.
FirstOpens ==
  \A a \in Actions :
    /\ RequestsLeft(a) <= AllRequests
    /\ RequestsLeft(a) = AllRequests => Untouched(a) /\ \A h \in Handlers : ~On(h, a)
    /\ RequestedOnce(a) =>
         \A h \in Handlers : On(h, a) /\ handler[h].pc \in Opening =>
           /\ Untouched(a)
           /\ handler[h].decision = "none"
           /\ \A g \in Handlers : g # h => ~On(g, a)

\* What its only session executes, or is about to, the session has granted.
OnceGranted ==
  \A a \in Actions : RequestedOnce(a) =>
    /\ executed[a] > 0 => session[a].final = "granted"
    /\ \A h \in Handlers :
         On(h, a) /\ handler[h].decision = "approved" => session[a].final = "granted"

IInv ==
  /\ FlowTypes
  /\ ExecutedWasApproved
  /\ SettledHasReceipt
  /\ GrantedWasApproved
  /\ HandlersSaw
  /\ FirstOpens
  /\ OnceGranted

-----------------------------------------------------------------------------

\* Nothing has happened at the start.
LEMMA InitIInv == Init => IInv
<1>. SUFFICES ASSUME Init PROVE IInv
  OBVIOUS
<1>1. FlowTypes
  BY DEF Init, FlowTypes, AskedTypes, NoSession, Idle, Operations
<1>2. ExecutedWasApproved /\ SettledHasReceipt /\ GrantedWasApproved /\ HandlersSaw
  BY DEF Init, ExecutedWasApproved, SettledHasReceipt, GrantedWasApproved, HandlersSaw, NoSession
<1>3. AllRequests \in Nat
  BY DEF AllRequests, Operations
<1>4. \A a \in Actions : RequestsLeft(a) = AllRequests
  BY DEF Init, RequestsLeft, AllRequests
<1>5. FirstOpens /\ OnceGranted
  BY <1>3, <1>4 DEF Init, FirstOpens, OnceGranted, RequestedOnce, RequestsLeft, AllRequests,
     Untouched, On
<1>. QED
  BY <1>1, <1>2, <1>5 DEF IInv

\* What a quiet step may write.
QuietWrites(h) ==
  /\ UNCHANGED <<session, executed, approvals, bounds>>
  /\ receipts \subseteq receipts' /\ receipts' \subseteq Actions
  /\ notified' \subseteq Actions
  /\ asked' \in AskedTypes
  /\ \A a \in Actions : asked[a] \subseteq asked'[a]
  /\ priorDecision' \in [Actions -> {"none", "challenge-required", "rejected", "expired"}]
  /\ intent' \in [Actions -> {"none", "created", "pending-approval", "settled",
                              "rejected", "expired"}]
  /\ \A a \in Actions : intent'[a] = "settled" => intent[a] = "settled" \/ a \in receipts'
  /\ pending' \in [Actions -> {"none", "pending", "released", "failed", "resumed"}]
  /\ \A a \in Actions : pending'[a] # pending[a] =>
       a = handler[h].action /\ handler[h].pc \notin Opening

\* A handler h goes on as k, or returns, without touching what decides.
Quiet(h, k) ==
  /\ handler[h] # Idle
  /\ k \in {Idle} \cup HandlerRecord
  /\ handler' = [handler EXCEPT ![h] = k]
  /\ k # Idle =>
       /\ k.action = handler[h].action /\ k.decision = handler[h].decision
       /\ k.pc \in Opening => handler[h].pc \in Opening
       /\ k.pc \in Executing => k.decision = "approved"
       /\ k.pc \in Settling => k.action \in receipts'
  /\ QuietWrites(h)

LEMMA QuietKeeps ==
  ASSUME IInv, NEW h \in Handlers, NEW k, Quiet(h, k)
  PROVE  IInv'
<1>. USE DEF Quiet, QuietWrites, IInv
<1>1. /\ handler'[h] = k
      /\ \A g \in Handlers : g # h => handler'[g] = handler[g]
  BY DEF FlowTypes
<1>2. FlowTypes'
  BY DEF FlowTypes, bounds
<1>3. ExecutedWasApproved' /\ SettledHasReceipt' /\ GrantedWasApproved'
  BY DEF ExecutedWasApproved, SettledHasReceipt, GrantedWasApproved
<1>4. HandlersSaw'
  BY <1>1 DEF HandlersSaw
<1>5. /\ \A a \in Actions : RequestsLeft(a)' = RequestsLeft(a)
      /\ \A a \in Actions : RequestedOnce(a)' <=> RequestedOnce(a)
  BY DEF RequestsLeft, RequestedOnce, bounds
<1>6. \A g \in Handlers, a \in Actions : On(g, a)' => On(g, a)
  BY <1>1 DEF On
<1>7. \A g \in Handlers, a \in Actions :
        On(g, a)' => /\ handler'[g].decision = handler[g].decision
                     /\ handler'[g].pc \in Opening => handler[g].pc \in Opening
  BY <1>1 DEF On
<1>8. On(h, handler[h].action)
  BY DEF On
<1>9. ASSUME NEW a \in Actions, Untouched(a),
             \/ \A g \in Handlers : ~On(g, a)
             \/ \E g \in Handlers : /\ handler[g].pc \in Opening
                                    /\ \A f \in Handlers : f # g => ~On(f, a)
      PROVE  Untouched(a)'
  BY <1>8, <1>9 DEF Untouched
<1>10. FirstOpens'
  BY <1>5, <1>6, <1>7, <1>9 DEF FirstOpens, AllRequests
<1>11. OnceGranted'
  BY <1>5, <1>6, <1>7 DEF OnceGranted
<1>. QED
  BY <1>2, <1>3, <1>4, <1>10, <1>11

\* A handler that is at a step of the program is under way.
LEMMA AtStep ==
  ASSUME FlowTypes, NEW h \in Handlers, NEW pc, At(h, pc), pc # "idle"
  PROVE  /\ handler[h] # Idle
         /\ handler[h] \in HandlerRecord
         /\ handler[h].pc = pc
         /\ handler[h].action \in Actions
<1>1. handler[h] # Idle
  BY DEF At, Idle
<1>. QED
  BY <1>1 DEF FlowTypes, At, HandlerRecord

LEMMA GotoStep ==
  ASSUME FlowTypes, NEW h \in Handlers, handler[h] \in HandlerRecord,
         NEW pc \in ProgramCounters, Goto(h, pc)
  PROVE  /\ handler' = [handler EXCEPT ![h] = handler'[h]]
         /\ handler'[h] \in HandlerRecord
         /\ handler'[h].pc = pc
         /\ handler'[h].action = handler[h].action
         /\ handler'[h].decision = handler[h].decision
BY DEF FlowTypes, Goto, HandlerRecord

LEMMA ReturnStep ==
  ASSUME FlowTypes, NEW h \in Handlers, Return(h)
  PROVE  handler' = [handler EXCEPT ![h] = handler'[h]] /\ handler'[h] = Idle
BY DEF FlowTypes, Return

LEMMA QuietGoto ==
  ASSUME FlowTypes, NEW h \in Handlers, handler[h] \in HandlerRecord, handler[h] # Idle,
         NEW pc \in ProgramCounters, Goto(h, pc), QuietWrites(h),
         pc \in Opening => handler[h].pc \in Opening,
         pc \in Executing => handler[h].decision = "approved",
         pc \in Settling => handler[h].action \in receipts'
  PROVE  Quiet(h, handler'[h])
BY GotoStep DEF Quiet

LEMMA QuietReturn ==
  ASSUME FlowTypes, NEW h \in Handlers, handler[h] # Idle, Return(h), QuietWrites(h)
  PROVE  Quiet(h, handler'[h])
BY ReturnStep DEF Quiet

\* The steps that open, close and settle without deciding.
LEMMA RequestIsQuiet ==
  ASSUME IInv, NEW h \in Handlers,
         \/ ReserveCapacity(h) \/ EvaluateAuthorization(h)
         \/ CreatePendingExecution(h) \/ MarkChallenge(h)
         \/ DirectReserve(h) \/ DirectEvaluate(h) \/ DirectMarkChallenge(h)
  PROVE  Quiet(h, handler'[h])
<1>. USE DEF IInv, records, ghosts, ProgramCounters, DirectCounters, Opening, Executing, Settling
<1>1. CASE ReserveCapacity(h) \/ DirectReserve(h)
  <2>1. QuietWrites(h)
    <3>1. handler[h].action \in Actions
      BY <1>1, AtStep DEF ReserveCapacity, DirectReserve
    <3>2. ReserveFor(handler[h].action) \/ asked' = asked
      BY <1>1 DEF ReserveCapacity, DirectReserve
    <3>3. asked' \in AskedTypes /\ \A a \in Actions : asked[a] \subseteq asked'[a]
      <4>1. CASE asked' = asked
        BY <4>1 DEF FlowTypes
      <4>2. CASE ReserveFor(handler[h].action)
        <5>1. PICK terms \in Offers[handler[h].action] :
                asked' = [asked EXCEPT ![handler[h].action] = @ \cup {terms}]
          BY <4>2 DEF ReserveFor
        <5>2. terms \in [holding : Holdings, amount : 1..MaxAmount]
          BY <3>1
        <5>. QED
          BY <3>1, <5>1, <5>2 DEF FlowTypes, AskedTypes
      <4>. QED
        BY <3>2, <4>1, <4>2
    <3>. QED
      BY <1>1, <3>3 DEF ReserveCapacity, DirectReserve, QuietWrites, FlowTypes
  <2>2. CASE Return(h)
    BY <1>1, <2>1, <2>2, AtStep, QuietReturn DEF ReserveCapacity, DirectReserve
  <2>3. CASE Goto(h, "evaluate") /\ ReserveCapacity(h)
    BY <2>1, <2>3, AtStep, QuietGoto DEF ReserveCapacity
  <2>4. CASE Goto(h, "directEvaluate") /\ DirectReserve(h)
    BY <2>1, <2>4, AtStep, QuietGoto DEF DirectReserve
  <2>. QED
    BY <1>1, <2>2, <2>3, <2>4 DEF ReserveCapacity, DirectReserve
<1>2. CASE EvaluateAuthorization(h) \/ DirectEvaluate(h)
  <2>1. QuietWrites(h)
    BY <1>2 DEF EvaluateAuthorization, DirectEvaluate, QuietWrites, FlowTypes
  <2>2. CASE Return(h)
    BY <1>2, <2>1, <2>2, AtStep, QuietReturn DEF EvaluateAuthorization, DirectEvaluate
  <2>3. CASE Goto(h, "openSession") /\ EvaluateAuthorization(h)
    BY <2>1, <2>3, AtStep, QuietGoto DEF EvaluateAuthorization
  <2>4. CASE Goto(h, "directOpen") /\ DirectEvaluate(h)
    BY <2>1, <2>4, AtStep, QuietGoto DEF DirectEvaluate
  <2>. QED
    BY <1>2, <2>2, <2>3, <2>4 DEF EvaluateAuthorization, DirectEvaluate
<1>3. CASE CreatePendingExecution(h)
  <2>1. QuietWrites(h)
    BY <1>3, AtStep DEF CreatePendingExecution, SetPending, QuietWrites, FlowTypes
  <2>. QED
    BY <1>3, <2>1, AtStep, QuietGoto DEF CreatePendingExecution
<1>4. CASE MarkChallenge(h)
  <2>1. QuietWrites(h)
    BY <1>4, AtStep DEF MarkChallenge, SetIntent, QuietWrites, FlowTypes
  <2>. QED
    BY <1>4, <2>1, AtStep, QuietReturn DEF MarkChallenge
<1>5. CASE DirectMarkChallenge(h)
  <2>1. QuietWrites(h)
    BY <1>5, AtStep DEF DirectMarkChallenge, SetIntent, QuietWrites, FlowTypes
  <2>. QED
    BY <1>5, <2>1, AtStep, QuietGoto DEF DirectMarkChallenge
<1>. QED
  BY <1>1, <1>2, <1>3, <1>4, <1>5

LEMMA CloseIsQuiet ==
  ASSUME IInv, NEW h \in Handlers,
         \/ ReleaseReservation(h) \/ MarkClosed(h) \/ MarkReleased(h)
         \/ ReleaseFailed(h) \/ MarkFailed(h) \/ DirectRelease(h)
  PROVE  Quiet(h, handler'[h])
<1>. USE DEF IInv, records, ghosts, ProgramCounters, DirectCounters, Opening, Executing, Settling
<1>1. CASE ReleaseReservation(h)
  <2>1. QuietWrites(h)
    BY <1>1 DEF ReleaseReservation, QuietWrites, FlowTypes
  <2>. QED
    BY <1>1, <2>1, AtStep, QuietReturn, QuietGoto DEF ReleaseReservation, ReleaseThen
<1>2. CASE ReleaseFailed(h)
  <2>1. QuietWrites(h)
    BY <1>2 DEF ReleaseFailed, QuietWrites, FlowTypes
  <2>. QED
    BY <1>2, <2>1, AtStep, QuietReturn, QuietGoto DEF ReleaseFailed, ReleaseThen
<1>3. CASE DirectRelease(h)
  <2>1. QuietWrites(h)
    BY <1>3 DEF DirectRelease, QuietWrites, FlowTypes
  <2>. QED
    BY <1>3, <2>1, AtStep, QuietReturn DEF DirectRelease
<1>4. CASE MarkClosed(h)
  <2>1. QuietWrites(h)
    BY <1>4, AtStep DEF MarkClosed, SetIntent, QuietWrites, FlowTypes
  <2>. QED
    BY <1>4, <2>1, AtStep, QuietGoto DEF MarkClosed
<1>5. CASE MarkReleased(h)
  <2>1. QuietWrites(h)
    BY <1>5, AtStep DEF MarkReleased, SetPending, QuietWrites, FlowTypes
  <2>. QED
    BY <1>5, <2>1, AtStep, QuietReturn DEF MarkReleased
<1>6. CASE MarkFailed(h)
  <2>1. QuietWrites(h)
    BY <1>6, AtStep DEF MarkFailed, SetPending, QuietWrites, FlowTypes
  <2>. QED
    BY <1>6, <2>1, AtStep, QuietReturn DEF MarkFailed
<1>. QED
  BY <1>1, <1>2, <1>3, <1>4, <1>5, <1>6

LEMMA SettleIsQuiet ==
  ASSUME IInv, NEW h \in Handlers,
         \/ CreateActionReceipt(h, "createReceipt", "markSettled")
         \/ CreateActionReceipt(h, "directReceipt", "directSettled")
         \/ MarkSettled(h) \/ ChargeReservation(h) \/ MarkResumed(h) \/ Notify(h)
         \/ DirectMarkSettled(h) \/ DirectCharge(h)
  PROVE  Quiet(h, handler'[h])
<1>. USE DEF IInv, records, ghosts, ProgramCounters, DirectCounters, Opening, Executing, Settling
<1>1. ASSUME NEW from \in {"createReceipt", "directReceipt"},
             NEW to \in {"markSettled", "directSettled"}, CreateActionReceipt(h, from, to)
      PROVE  Quiet(h, handler'[h])
  <2>1. handler[h].action \in receipts' /\ QuietWrites(h)
    BY <1>1, AtStep DEF CreateActionReceipt, QuietWrites, FlowTypes
  <2>. QED
    BY <1>1, <2>1, AtStep, QuietGoto DEF CreateActionReceipt
<1>2. CASE MarkSettled(h)
  <2>1. handler[h].action \in receipts
    BY <1>2, AtStep DEF MarkSettled, HandlersSaw
  <2>2. QuietWrites(h)
    BY <1>2, <2>1, AtStep DEF MarkSettled, SetIntent, QuietWrites, FlowTypes
  <2>. QED
    BY <1>2, <2>2, AtStep, QuietGoto DEF MarkSettled
<1>3. CASE DirectMarkSettled(h)
  <2>1. handler[h].action \in receipts
    BY <1>3, AtStep DEF DirectMarkSettled, HandlersSaw
  <2>2. QuietWrites(h)
    BY <1>3, <2>1, AtStep DEF DirectMarkSettled, SetIntent, QuietWrites, FlowTypes
  <2>. QED
    BY <1>3, <2>2, AtStep, QuietGoto DEF DirectMarkSettled
<1>4. CASE ChargeReservation(h)
  <2>1. QuietWrites(h)
    BY <1>4 DEF ChargeReservation, QuietWrites, FlowTypes
  <2>. QED
    BY <1>4, <2>1, AtStep, QuietReturn, QuietGoto DEF ChargeReservation
<1>5. CASE DirectCharge(h)
  <2>1. QuietWrites(h)
    BY <1>5 DEF DirectCharge, QuietWrites, FlowTypes
  <2>. QED
    BY <1>5, <2>1, AtStep, QuietReturn DEF DirectCharge
<1>6. CASE MarkResumed(h)
  <2>1. QuietWrites(h)
    BY <1>6, AtStep DEF MarkResumed, SetPending, QuietWrites, FlowTypes
  <2>. QED
    BY <1>6, <2>1, AtStep, QuietGoto DEF MarkResumed
<1>7. CASE Notify(h)
  <2>1. QuietWrites(h)
    BY <1>7, AtStep DEF Notify, QuietWrites, FlowTypes
  <2>. QED
    BY <1>7, <2>1, AtStep, QuietReturn DEF Notify
<1>. QED
  BY <1>1, <1>2, <1>3, <1>4, <1>5, <1>6, <1>7

LEMMA ReadIsQuiet ==
  ASSUME IInv, NEW h \in Handlers, ReadIntent(h) \/ ReadBack(h) \/ DirectDecide(h)
  PROVE  Quiet(h, handler'[h])
<1>. USE DEF IInv, records, ghosts, ProgramCounters, DirectCounters, Opening, Executing, Settling
<1>1. CASE ReadIntent(h)
  <2>1. QuietWrites(h)
    BY <1>1 DEF ReadIntent, QuietWrites, FlowTypes
  <2>. QED
    BY <1>1, <2>1, AtStep, QuietGoto DEF ReadIntent
<1>2. CASE ReadBack(h)
  <2>1. handler[h].pc = "readBack" /\ handler[h].action \in Actions
    BY <1>2, AtStep DEF ReadBack
  <2>2. pending' = pending \/ pending' = [pending EXCEPT ![handler[h].action] = "resumed"]
    BY <1>2 DEF ReadBack, SetPending
  <2>3. /\ pending' \in [Actions -> {"none", "pending", "released", "failed", "resumed"}]
        /\ \A a \in Actions : pending'[a] # pending[a] => a = handler[h].action
    BY <2>1, <2>2 DEF FlowTypes
  <2>4. QuietWrites(h)
    BY <1>2, <2>1, <2>3 DEF ReadBack, QuietWrites, FlowTypes
  <2>. QED
    BY <1>2, <2>4, AtStep, QuietReturn DEF ReadBack
<1>3. CASE DirectDecide(h)
  <2>1. QuietWrites(h)
    BY <1>3 DEF DirectDecide, QuietWrites, FlowTypes
  <2>. QED
    BY <1>3, <2>1, AtStep, QuietGoto DEF DirectDecide
<1>. QED
  BY <1>1, <1>2, <1>3

\* A request opens a fresh session, once it has reached that step.
LEMMA OpenKeeps ==
  ASSUME IInv, NEW h \in Handlers, CreateApprovalRequest(h) \/ DirectOpenSession(h)
  PROVE  IInv'
<1>. USE DEF IInv, records, ghosts, bounds, ProgramCounters, DirectCounters, Opening,
     Executing, Settling
<1> DEFINE a == handler[h].action
           next == IF At(h, "openSession") THEN "createPending" ELSE "directChallenge"
<1>1. /\ handler[h] # Idle /\ handler[h] \in HandlerRecord /\ a \in Actions
      /\ handler[h].pc \in {"openSession", "directOpen"}
      /\ session' = [session EXCEPT ![a] = FreshSession]
      /\ Goto(h, next) /\ next \in {"createPending", "directChallenge"}
      /\ UNCHANGED <<intent, priorDecision, pending, receipts, ghosts, bounds>>
  BY AtStep DEF CreateApprovalRequest, DirectOpenSession, At
<1>. HIDE DEF next
<1>2. /\ handler'[h] \in HandlerRecord
      /\ handler'[h].pc = next
      /\ handler'[h].action = a /\ handler'[h].decision = handler[h].decision
      /\ \A g \in Handlers : g # h => handler'[g] = handler[g]
      /\ handler' \in [Handlers -> {Idle} \cup HandlerRecord]
  BY <1>1, GotoStep DEF FlowTypes
<1>3. /\ session'[a] = FreshSession
      /\ \A b \in Actions : b # a => session'[b] = session[b]
  BY <1>1 DEF FlowTypes
<1>4. FlowTypes'
  BY <1>1, <1>2 DEF FlowTypes, FreshSession, NoSession
<1>5. ExecutedWasApproved' /\ SettledHasReceipt' /\ GrantedWasApproved'
  BY <1>1, <1>3 DEF ExecutedWasApproved, SettledHasReceipt, GrantedWasApproved, FreshSession, NoSession
<1>6. HandlersSaw'
  BY <1>1, <1>2 DEF HandlersSaw
<1>7. /\ \A b \in Actions : RequestsLeft(b)' = RequestsLeft(b)
      /\ \A b \in Actions : RequestedOnce(b)' <=> RequestedOnce(b)
  BY <1>1 DEF RequestsLeft, RequestedOnce
<1>8. \A g \in Handlers, b \in Actions : On(g, b)' <=> On(g, b)
  BY <1>1, <1>2 DEF On, HandlerRecord, Idle
<1>9. On(h, a)
  BY <1>1 DEF On
<1>10. \A b \in Actions : b # a => (Untouched(b)' <=> Untouched(b))
  BY <1>1, <1>3 DEF Untouched
<1>11. \A g \in Handlers : handler'[g].pc \in Opening => g # h /\ handler[g].pc \in Opening
  BY <1>1, <1>2
<1>12. \A g \in Handlers : handler'[g].decision = handler[g].decision
  BY <1>2
<1>13. FirstOpens'
  <2> SUFFICES ASSUME NEW b \in Actions
      PROVE  /\ RequestsLeft(b)' <= AllRequests
             /\ RequestsLeft(b)' = AllRequests => Untouched(b)' /\ \A g \in Handlers : ~On(g, b)'
             /\ RequestedOnce(b)' =>
                  \A g \in Handlers : On(g, b)' /\ handler'[g].pc \in Opening =>
                    /\ Untouched(b)' /\ handler'[g].decision = "none"
                    /\ \A f \in Handlers : f # g => ~On(f, b)'
    BY DEF FirstOpens, AllRequests
  <2>1. CASE b # a
    BY <1>7, <1>8, <1>10, <1>11, <1>12, <2>1 DEF FirstOpens, AllRequests
  <2>2. CASE b = a
    <3>1. RequestsLeft(b) <= AllRequests /\ RequestsLeft(b) # AllRequests
      BY <1>9, <2>2 DEF FirstOpens, AllRequests
    <3>2. RequestedOnce(b) => \A g \in Handlers : g # h => ~On(g, b)
      BY <1>1, <1>9, <2>2 DEF FirstOpens
    <3>. QED
      BY <1>7, <1>8, <1>11, <1>12, <3>1, <3>2
  <2>. QED
    BY <2>1, <2>2
<1>14. OnceGranted'
  <2> SUFFICES ASSUME NEW b \in Actions, RequestedOnce(b)
      PROVE  /\ executed'[b] > 0 => session'[b].final = "granted"
             /\ \A g \in Handlers :
                  On(g, b)' /\ handler'[g].decision = "approved" => session'[b].final = "granted"
    BY <1>7 DEF OnceGranted
  <2>1. CASE b # a
    BY <1>1, <1>3, <1>8, <1>12, <2>1 DEF OnceGranted
  <2>2. CASE b = a
    <3>1. Untouched(b) /\ handler[h].decision = "none" /\ \A g \in Handlers : g # h => ~On(g, b)
      BY <1>1, <1>9, <2>2 DEF FirstOpens
    <3>. QED
      BY <1>1, <1>8, <1>12, <3>1 DEF Untouched
  <2>. QED
    BY <2>1, <2>2
<1>. QED
  BY <1>4, <1>5, <1>6, <1>13, <1>14

\* A call spends one of the calls of its operation.
LEMMA CallSpends ==
  ASSUME FlowTypes, NEW a \in Actions, NEW op \in Operations, Call(a, op)
  PROVE  /\ callsLeft' \in [Actions -> [Operations -> Nat]]
         /\ crashesLeft' = crashesLeft
         /\ \A b \in Actions : b # a \/ op \notin {"request", "direct"} =>
              RequestsLeft(b)' = RequestsLeft(b)
         /\ op \in {"request", "direct"} => RequestsLeft(a)' = RequestsLeft(a) - 1
         /\ RequestsLeft(a) \in Int
<1>1. /\ callsLeft[a][op] \in Nat /\ callsLeft[a][op] > 0
      /\ callsLeft' = [callsLeft EXCEPT ![a][op] = callsLeft[a][op] - 1]
      /\ crashesLeft' = crashesLeft
  BY DEF Call, FlowTypes
<1>2. callsLeft' \in [Actions -> [Operations -> Nat]]
  BY <1>1 DEF FlowTypes
<1>3. \A b \in Actions : b # a => callsLeft'[b] = callsLeft[b]
  BY <1>1 DEF FlowTypes
<1>4. /\ callsLeft'[a][op] = callsLeft[a][op] - 1
      /\ \A o \in Operations : o # op => callsLeft'[a][o] = callsLeft[a][o]
  BY <1>1 DEF FlowTypes
<1>5. callsLeft[a]["request"] \in Nat /\ callsLeft[a]["direct"] \in Nat
  BY DEF FlowTypes, Operations
<1>. QED
  BY <1>1, <1>2, <1>3, <1>4, <1>5 DEF RequestsLeft, Operations

\* Finalization grants what the result approved, and keeps what was final.
LEMMA ResumeDecides ==
  ASSUME FlowTypes, GrantedWasApproved, NEW a \in Actions, ResumeSession(a)
  PROVE  /\ session' \in [Actions ->
              [result : Results \cup {"none"}, final : {"none", "granted", "prior"},
               open : BOOLEAN]]
         /\ priorDecision' \in [Actions -> {"none", "challenge-required", "rejected", "expired"}]
         /\ session[a] # NoSession
         /\ \A b \in Actions : b # a => session'[b] = session[b]
         /\ session'[a].result = session[a].result
         /\ session[a].final # "none" => session'[a].final = session[a].final
         /\ session'[a].final = "granted" => a \in approvals
         /\ DecisionOf(a) \in Decisions
         /\ DecisionOf(a) = "approved" => session'[a].final = "granted"
<1>1. /\ session[a] \in [result : Results \cup {"none"}, final : {"none", "granted", "prior"},
                         open : BOOLEAN]
      /\ priorDecision[a] \in {"none", "challenge-required", "rejected", "expired"}
  BY DEF FlowTypes
<1>2. session[a].result # "none"
  BY DEF ResumeSession
<1>3. session[a] # NoSession
  BY <1>2 DEF NoSession
<1>4. DecisionOf(a) \in Decisions
  BY <1>1 DEF DecisionOf, Outcome, Decisions
<1>5. CASE session[a].final # "none"
  <2>1. UNCHANGED <<session, priorDecision>>
    BY <1>5 DEF ResumeSession
  <2>2. DecisionOf(a) = "approved" => session[a].final = "granted"
    BY <1>1, <1>5 DEF DecisionOf
  <2>. QED
    BY <1>3, <1>4, <2>1, <2>2 DEF FlowTypes, GrantedWasApproved
<1>6. CASE session[a].final = "none" /\ session[a].result = "approved"
  <2>1. session' = [session EXCEPT ![a].final = "granted"] /\ UNCHANGED priorDecision
    BY <1>6 DEF ResumeSession
  <2>2. /\ session'[a] = [session[a] EXCEPT !.final = "granted"]
        /\ \A b \in Actions : b # a => session'[b] = session[b]
    BY <2>1 DEF FlowTypes
  <2>3. /\ session'[a].final = "granted" /\ session'[a].result = session[a].result
        /\ session'[a] \in [result : Results \cup {"none"},
                            final : {"none", "granted", "prior"}, open : BOOLEAN]
    BY <1>1, <2>2
  <2>. QED
    BY <1>3, <1>4, <1>6, <2>1, <2>2, <2>3 DEF FlowTypes, GrantedWasApproved
<1>7. CASE session[a].final = "none" /\ session[a].result # "approved"
  <2>1. /\ session' = [session EXCEPT ![a].final = "prior"]
        /\ priorDecision' = [priorDecision EXCEPT ![a] = Outcome(session[a].result)]
    BY <1>7 DEF ResumeSession
  <2>2. /\ session'[a] = [session[a] EXCEPT !.final = "prior"]
        /\ \A b \in Actions : b # a => session'[b] = session[b]
    BY <2>1 DEF FlowTypes
  <2>3. /\ session'[a].final = "prior" /\ session'[a].result = session[a].result
        /\ session'[a] \in [result : Results \cup {"none"},
                            final : {"none", "granted", "prior"}, open : BOOLEAN]
    BY <1>1, <2>2
  <2>4. Outcome(session[a].result) \in {"rejected", "expired"}
    BY <1>7 DEF Outcome
  <2>5. DecisionOf(a) # "approved"
    BY <1>7, <2>4 DEF DecisionOf
  <2>. QED
    BY <1>3, <1>4, <1>7, <2>1, <2>2, <2>3, <2>4, <2>5 DEF FlowTypes
<1>. QED
  BY <1>5, <1>6, <1>7

\* Whoever finalizes the session of an action then goes on with its decision.
LEMMA ResumeKeeps ==
  ASSUME IInv, NEW a \in Actions, NEW h, ResumeSession(a),
         \/ handler' = handler
         \/ /\ h \in Handlers
            /\ handler[h] = Idle \/ handler[h].action = a
            /\ handler' = [handler EXCEPT ![h] = handler'[h]]
            /\ handler'[h] \in HandlerRecord
            /\ handler'[h].action = a /\ handler'[h].decision = DecisionOf(a)
            /\ handler'[h].pc \notin Opening \cup Executing \cup Settling,
         UNCHANGED <<intent, pending, receipts, ghosts, crashesLeft>>,
         callsLeft' \in [Actions -> [Operations -> Nat]],
         \A b \in Actions : RequestsLeft(b)' = RequestsLeft(b)
  PROVE  IInv'
<1>. USE DEF IInv, ghosts
<1>1. /\ session' \in [Actions ->
           [result : Results \cup {"none"}, final : {"none", "granted", "prior"},
            open : BOOLEAN]]
      /\ priorDecision' \in [Actions -> {"none", "challenge-required", "rejected", "expired"}]
      /\ session[a] # NoSession
      /\ \A b \in Actions : b # a => session'[b] = session[b]
      /\ session'[a].result = session[a].result
      /\ session[a].final # "none" => session'[a].final = session[a].final
      /\ session'[a].final = "granted" => a \in approvals
      /\ DecisionOf(a) \in Decisions
      /\ DecisionOf(a) = "approved" => session'[a].final = "granted"
  BY ResumeDecides
<1> DEFINE Moved(g) == handler'[g] # handler[g]
<1>2. /\ handler' \in [Handlers -> {Idle} \cup HandlerRecord]
      /\ \A g \in Handlers : Moved(g) =>
           /\ g = h
           /\ handler'[g].action = a /\ handler'[g].decision = DecisionOf(a)
           /\ handler'[g].pc \notin Opening \cup Executing \cup Settling
           /\ handler[g] = Idle \/ handler[g].action = a
  BY DEF FlowTypes
<1>3. FlowTypes'
  BY <1>1, <1>2 DEF FlowTypes
<1>4. ExecutedWasApproved' /\ SettledHasReceipt'
  BY DEF ExecutedWasApproved, SettledHasReceipt
<1>5. GrantedWasApproved'
  BY <1>1 DEF GrantedWasApproved
<1>6. HandlersSaw'
  <2> SUFFICES ASSUME NEW g \in Handlers, handler'[g] # Idle
      PROVE  /\ handler'[g].decision = "approved" => handler'[g].action \in approvals
             /\ handler'[g].pc \in Executing => handler'[g].decision = "approved"
             /\ handler'[g].pc \in Settling => handler'[g].action \in receipts
    BY DEF HandlersSaw
  <2>1. CASE Moved(g)
    BY <1>1, <1>2, <2>1
  <2>2. CASE ~Moved(g)
    BY <2>2 DEF HandlersSaw
  <2>. QED
    BY <2>1, <2>2
<1>7. \A b \in Actions : RequestedOnce(b)' <=> RequestedOnce(b)
  BY DEF RequestsLeft, RequestedOnce
<1>8. RequestsLeft(a) # AllRequests
  BY <1>1 DEF FirstOpens, Untouched, AllRequests
<1>9. RequestedOnce(a) => \A g \in Handlers : On(g, a) => handler[g].pc \notin Opening
  BY <1>1 DEF FirstOpens, Untouched
<1>10. \A b \in Actions : b # a => (Untouched(b)' <=> Untouched(b))
  BY <1>1 DEF Untouched
<1>11. \A g \in Handlers, b \in Actions : b # a => (On(g, b)' <=> On(g, b))
  BY <1>2 DEF On
<1>12. FirstOpens'
  <2> SUFFICES ASSUME NEW b \in Actions
      PROVE  /\ RequestsLeft(b)' <= AllRequests
             /\ RequestsLeft(b)' = AllRequests => Untouched(b)' /\ \A g \in Handlers : ~On(g, b)'
             /\ RequestedOnce(b)' =>
                  \A g \in Handlers : On(g, b)' /\ handler'[g].pc \in Opening =>
                    /\ Untouched(b)' /\ handler'[g].decision = "none"
                    /\ \A f \in Handlers : f # g => ~On(f, b)'
    BY DEF FirstOpens, AllRequests
  <2>1. CASE b # a
    <3>1. \A g \in Handlers : On(g, b) => ~Moved(g)
      BY <1>2, <2>1, <1>11 DEF On
    <3>. QED
      BY <1>7, <1>10, <1>11, <2>1, <3>1 DEF FirstOpens, AllRequests
  <2>2. CASE b = a
    <3>1. RequestedOnce(a) => \A g \in Handlers : ~(On(g, a)' /\ handler'[g].pc \in Opening)
      BY <1>2, <1>9 DEF On
    <3>. QED
      BY <1>7, <1>8, <2>2, <3>1 DEF FirstOpens, AllRequests
  <2>. QED
    BY <2>1, <2>2
<1>13. OnceGranted'
  <2> SUFFICES ASSUME NEW b \in Actions, RequestedOnce(b)
      PROVE  /\ executed[b] > 0 => session'[b].final = "granted"
             /\ \A g \in Handlers :
                  On(g, b)' /\ handler'[g].decision = "approved" => session'[b].final = "granted"
    BY <1>7 DEF OnceGranted
  <2>1. session[b].final = "granted" => session'[b].final = "granted"
    BY <1>1
  <2>2. ASSUME NEW g \in Handlers, On(g, b)', handler'[g].decision = "approved"
        PROVE  session'[b].final = "granted"
    <3>1. CASE Moved(g)
      BY <1>1, <1>2, <2>2, <3>1 DEF On
    <3>2. CASE ~Moved(g)
      BY <2>1, <2>2, <3>2 DEF OnceGranted, On
    <3>. QED
      BY <3>1, <3>2
  <2>. QED
    BY <2>1, <2>2 DEF OnceGranted
<1>. QED
  BY <1>3, <1>4, <1>5, <1>6, <1>12, <1>13

\* A step that neither opens nor finalizes a session, nor executes anything.
LEMMA ReturnKeeps ==
  ASSUME IInv, NEW h \in Handlers, Return(h), handler[h] # Idle,
         UNCHANGED <<records, ghosts, bounds>>
  PROVE  IInv'
<1>1. QuietWrites(h)
  BY DEF IInv, FlowTypes, QuietWrites, records, ghosts
<1>. QED
  BY <1>1, QuietReturn, QuietKeeps DEF IInv

LEMMA ResumeSessionKeeps == ASSUME IInv, NEW a \in Actions, ResumeApprovalSession(a) PROVE IInv'
BY CallSpends, ResumeKeeps DEF ResumeApprovalSession, Operations, ghosts, IInv

LEMMA FinalizeKeeps ==
  ASSUME IInv, NEW a \in Actions, NEW h \in Handlers,
         StartResume(h, a) \/ CloseSession(h) \/ DirectResume(h)
  PROVE  IInv'
<1>. USE DEF IInv, ProgramCounters, DirectCounters, Opening, Executing, Settling
<1>1. CASE StartResume(h, a)
  <2>1. DecisionOf(a) \in Decisions
    BY <1>1, ResumeDecides DEF StartResume
  <2>2. /\ handler[h] = Idle
        /\ handler' = [handler EXCEPT ![h] = handler'[h]]
        /\ handler'[h] = [pc |-> "readIntent", action |-> a, decision |-> DecisionOf(a)]
    BY <1>1 DEF StartResume, Start, FlowTypes
  <2>3. handler'[h] \in HandlerRecord
    BY <2>1, <2>2 DEF HandlerRecord
  <2>. QED
    BY <1>1, <2>2, <2>3, CallSpends, ResumeKeeps DEF StartResume, Operations, ghosts
<1>2. CASE CloseSession(h)
  <2>1. handler[h] # Idle /\ handler[h] \in HandlerRecord /\ handler[h].action \in Actions
    BY <1>2, AtStep DEF CloseSession
  <2>2. CASE Return(h)
    <3>1. UNCHANGED <<session, priorDecision>>
      BY <1>2, <2>1, <2>2 DEF CloseSession, Return, FlowTypes, Idle
    <3>. QED
      BY <1>2, <2>1, <2>2, <3>1, ReturnKeeps DEF CloseSession, records
  <2>3. CASE ~Return(h)
    <3>1. /\ ResumeSession(handler[h].action)
          /\ handler' = [handler EXCEPT ![h].pc = "release",
                                        ![h].decision = DecisionOf(handler[h].action)]
      BY <1>2, <2>3 DEF CloseSession
    <3>2. DecisionOf(handler[h].action) \in Decisions
      BY <2>1, <3>1, ResumeDecides
    <3>3. /\ handler' = [handler EXCEPT ![h] = handler'[h]]
          /\ handler'[h] = [handler[h] EXCEPT !.pc = "release",
                                              !.decision = DecisionOf(handler[h].action)]
      BY <3>1 DEF FlowTypes
    <3>4. /\ handler'[h] \in HandlerRecord
          /\ handler'[h].pc = "release"
          /\ handler'[h].action = handler[h].action
          /\ handler'[h].decision = DecisionOf(handler[h].action)
      BY <2>1, <3>2, <3>3 DEF HandlerRecord
    <3>5. /\ UNCHANGED <<intent, pending, receipts, ghosts, bounds>>
          /\ \A b \in Actions : RequestsLeft(b)' = RequestsLeft(b)
      BY <1>2 DEF CloseSession, bounds, RequestsLeft
    <3>. QED
      BY <2>1, <3>1, <3>3, <3>4, <3>5, ResumeKeeps DEF ghosts, bounds, FlowTypes
  <2>. QED
    BY <2>2, <2>3
<1>3. CASE DirectResume(h)
  <2>1. handler[h] # Idle /\ handler[h] \in HandlerRecord /\ handler[h].action \in Actions
    BY <1>3, AtStep DEF DirectResume
  <2>2. CASE Return(h)
    <3>1. UNCHANGED <<session, priorDecision>>
      BY <1>3, <2>1, <2>2 DEF DirectResume, Return, FlowTypes, Idle
    <3>. QED
      BY <1>3, <2>1, <2>2, <3>1, ReturnKeeps DEF DirectResume, records
  <2>3. CASE ~Return(h)
    <3>1. /\ ResumeSession(handler[h].action)
          /\ handler' = [handler EXCEPT ![h].pc = "directDecide",
                                        ![h].decision = DecisionOf(handler[h].action)]
      BY <1>3, <2>3 DEF DirectResume
    <3>2. DecisionOf(handler[h].action) \in Decisions
      BY <2>1, <3>1, ResumeDecides
    <3>3. /\ handler' = [handler EXCEPT ![h] = handler'[h]]
          /\ handler'[h] = [handler[h] EXCEPT !.pc = "directDecide",
                                              !.decision = DecisionOf(handler[h].action)]
      BY <3>1 DEF FlowTypes
    <3>4. /\ handler'[h] \in HandlerRecord
          /\ handler'[h].pc = "directDecide"
          /\ handler'[h].action = handler[h].action
          /\ handler'[h].decision = DecisionOf(handler[h].action)
      BY <2>1, <3>2, <3>3 DEF HandlerRecord
    <3>5. /\ UNCHANGED <<intent, pending, receipts, ghosts, bounds>>
          /\ \A b \in Actions : RequestsLeft(b)' = RequestsLeft(b)
      BY <1>3 DEF DirectResume, bounds, RequestsLeft
    <3>. QED
      BY <2>1, <3>1, <3>3, <3>4, <3>5, ResumeKeeps DEF ghosts, bounds, FlowTypes
  <2>. QED
    BY <2>2, <2>3
<1>. QED
  BY <1>1, <1>2, <1>3

\* A result is applied to an open session, or by the direct flow to its own.
LEMMA ApplyKeeps ==
  ASSUME IInv, NEW a \in Actions, NEW h \in Handlers, NEW result \in Results,
         \/ ApplyApprovalResult(h, a, result)
         \/ DirectApply(h, result) /\ handler[h].action = a
  PROVE  IInv'
<1>. USE DEF IInv, ProgramCounters, DirectCounters, Opening, Executing, Settling
<1>1. /\ session' = [session EXCEPT ![a].result = result]
      /\ approvals' = IF result = "approved" THEN approvals \cup {a} ELSE approvals
      /\ UNCHANGED <<intent, priorDecision, pending, receipts, executed, notified, asked,
                     crashesLeft>>
      /\ callsLeft' \in [Actions -> [Operations -> Nat]]
      /\ \A b \in Actions : RequestsLeft(b)' = RequestsLeft(b)
  <2>1. CASE ApplyApprovalResult(h, a, result)
    BY <2>1, CallSpends DEF ApplyApprovalResult, Operations
  <2>2. CASE DirectApply(h, result) /\ handler[h].action = a
    BY <2>2 DEF DirectApply, bounds, RequestsLeft, FlowTypes
  <2>. QED
    BY <2>1, <2>2
<1>2. /\ \A b \in Actions : b # a => session'[b] = session[b]
      /\ session'[a].final = session[a].final
      /\ session'[a].result = result
      /\ session'[a] \in [result : Results \cup {"none"}, final : {"none", "granted", "prior"},
                          open : BOOLEAN]
  <2>1. session[a] \in [result : Results \cup {"none"}, final : {"none", "granted", "prior"},
                        open : BOOLEAN]
    BY DEF FlowTypes
  <2>2. /\ session'[a] = [session[a] EXCEPT !.result = result]
        /\ \A b \in Actions : b # a => session'[b] = session[b]
    BY <1>1 DEF FlowTypes
  <2>. QED
    BY <2>1, <2>2
<1>3. session' \in [Actions ->
        [result : Results \cup {"none"}, final : {"none", "granted", "prior"}, open : BOOLEAN]]
  BY <1>1, <1>2 DEF FlowTypes
<1> DEFINE Moved(g) == handler'[g] # handler[g]
<1>4. /\ handler' \in [Handlers -> {Idle} \cup HandlerRecord]
      /\ \A g \in Handlers : Moved(g) =>
           /\ g = h
           /\ handler'[g] # Idle
           /\ handler'[g].action = a
           /\ handler'[g].pc \in {"close", "directResume"}
           /\ handler[g] = Idle \/ handler[g].action = a
           /\ handler'[g].decision = "approved" => On(g, a) /\ handler[g].decision = "approved"
  <2>1. CASE ApplyApprovalResult(h, a, result) /\ result = "approved"
    BY <2>1 DEF ApplyApprovalResult, FlowTypes
  <2>2. CASE ApplyApprovalResult(h, a, result) /\ result # "approved"
    <3>1. /\ handler[h] = Idle
          /\ handler' = [handler EXCEPT ![h] =
               [pc |-> "close", action |-> a, decision |-> "none"]]
      BY <2>2 DEF ApplyApprovalResult, Start
    <3>2. [pc |-> "close", action |-> a, decision |-> "none"] \in HandlerRecord
      BY DEF HandlerRecord, Decisions
    <3>. QED
      BY <3>1, <3>2 DEF FlowTypes, Idle
  <2>3. CASE DirectApply(h, result) /\ handler[h].action = a
    <3>1. handler[h] # Idle /\ handler[h] \in HandlerRecord
      BY <2>3, AtStep DEF DirectApply
    <3>2. /\ handler' = [handler EXCEPT ![h] = handler'[h]]
          /\ handler'[h] \in HandlerRecord
          /\ handler'[h].pc = "directResume"
          /\ handler'[h].action = handler[h].action
          /\ handler'[h].decision = handler[h].decision
      BY <2>3, <3>1, GotoStep DEF DirectApply
    <3>3. handler'[h] # Idle
      BY <3>2 DEF Idle
    <3>. QED
      BY <2>3, <3>1, <3>2, <3>3 DEF FlowTypes, On
  <2>. QED
    BY <2>1, <2>2, <2>3
<1>5. /\ RequestsLeft(a) # AllRequests
      /\ RequestedOnce(a) => \A g \in Handlers : On(g, a) => handler[g].pc \notin Opening
  <2>1. CASE ApplyApprovalResult(h, a, result)
    <3>1. session[a] # NoSession
      BY <2>1 DEF ApplyApprovalResult, NoSession
    <3>. QED
      BY <3>1 DEF FirstOpens, Untouched, AllRequests
  <2>2. CASE DirectApply(h, result) /\ handler[h].action = a
    <3>1. On(h, a) /\ handler[h].pc \notin Opening
      BY <2>2, AtStep DEF DirectApply, On
    <3>. QED
      BY <3>1 DEF FirstOpens, AllRequests
  <2>. QED
    BY <2>1, <2>2
<1>6. FlowTypes'
  BY <1>1, <1>3, <1>4 DEF FlowTypes
<1>7. ExecutedWasApproved' /\ SettledHasReceipt'
  BY <1>1 DEF ExecutedWasApproved, SettledHasReceipt
<1>8. GrantedWasApproved'
  BY <1>1, <1>2 DEF GrantedWasApproved
<1>9. HandlersSaw'
  <2> SUFFICES ASSUME NEW g \in Handlers, handler'[g] # Idle
      PROVE  /\ handler'[g].decision = "approved" => handler'[g].action \in approvals'
             /\ handler'[g].pc \in Executing => handler'[g].decision = "approved"
             /\ handler'[g].pc \in Settling => handler'[g].action \in receipts
    BY <1>1 DEF HandlersSaw
  <2>1. CASE Moved(g)
    BY <1>1, <1>4, <2>1 DEF HandlersSaw, On
  <2>2. CASE ~Moved(g)
    BY <1>1, <2>2 DEF HandlersSaw
  <2>. QED
    BY <2>1, <2>2
<1>10. \A b \in Actions : RequestedOnce(b)' <=> RequestedOnce(b)
  BY <1>1 DEF RequestsLeft, RequestedOnce
<1>11. \A b \in Actions : b # a => (Untouched(b)' <=> Untouched(b))
  BY <1>1, <1>2 DEF Untouched
<1>12. \A g \in Handlers, b \in Actions : b # a => (On(g, b)' <=> On(g, b))
  BY <1>4 DEF On
<1>13. FirstOpens'
  <2> SUFFICES ASSUME NEW b \in Actions
      PROVE  /\ RequestsLeft(b)' <= AllRequests
             /\ RequestsLeft(b)' = AllRequests => Untouched(b)' /\ \A g \in Handlers : ~On(g, b)'
             /\ RequestedOnce(b)' =>
                  \A g \in Handlers : On(g, b)' /\ handler'[g].pc \in Opening =>
                    /\ Untouched(b)' /\ handler'[g].decision = "none"
                    /\ \A f \in Handlers : f # g => ~On(f, b)'
    BY DEF FirstOpens, AllRequests
  <2>1. CASE b # a
    <3>1. \A g \in Handlers : On(g, b) => ~Moved(g)
      BY <1>4, <1>12, <2>1 DEF On
    <3>. QED
      BY <1>1, <1>10, <1>11, <1>12, <2>1, <3>1 DEF FirstOpens, AllRequests
  <2>2. CASE b = a
    <3>1. RequestedOnce(a) => \A g \in Handlers : ~(On(g, a)' /\ handler'[g].pc \in Opening)
      BY <1>4, <1>5 DEF On
    <3>. QED
      BY <1>1, <1>5, <1>10, <2>2, <3>1 DEF FirstOpens, AllRequests
  <2>. QED
    BY <2>1, <2>2
<1>14. OnceGranted'
  <2> SUFFICES ASSUME NEW b \in Actions, RequestedOnce(b)
      PROVE  /\ executed[b] > 0 => session[b].final = "granted"
             /\ \A g \in Handlers :
                  On(g, b)' /\ handler'[g].decision = "approved" => session[b].final = "granted"
    BY <1>1, <1>2, <1>10 DEF OnceGranted
  <2>1. ASSUME NEW g \in Handlers, On(g, b)', handler'[g].decision = "approved"
        PROVE  session[b].final = "granted"
    <3>1. CASE Moved(g)
      BY <1>4, <2>1, <3>1 DEF OnceGranted, On
    <3>2. CASE ~Moved(g)
      BY <2>1, <3>2 DEF OnceGranted, On
    <3>. QED
      BY <3>1, <3>2
  <2>. QED
    BY <2>1 DEF OnceGranted
<1>. QED
  BY <1>6, <1>7, <1>8, <1>9, <1>13, <1>14

\* The rail or the provider executes only what the handler saw approved.
LEMMA ExecuteKeeps ==
  ASSUME IInv, NEW h \in Handlers, NEW outcome \in RailOutcomes,
         Execute(h, outcome) \/ DirectExecute(h, outcome)
  PROVE  IInv'
<1>. USE DEF IInv, ProgramCounters, DirectCounters, Opening, Executing, Settling
<1> DEFINE a == handler[h].action
<1>1. /\ handler[h] # Idle /\ handler[h] \in HandlerRecord /\ a \in Actions
      /\ handler[h].pc \in Executing
      /\ executed' = [executed EXCEPT ![a] = IF outcome = "refused" THEN @ ELSE @ + 1]
      /\ UNCHANGED <<records, approvals, notified, asked, bounds>>
  BY AtStep DEF Execute, DirectExecute
<1>2. /\ handler' = [handler EXCEPT ![h] = handler'[h]]
      /\ handler'[h] \in HandlerRecord
      /\ handler'[h].pc \in {"createReceipt", "undo", "directReceipt", "directRelease"}
      /\ handler'[h].action = a /\ handler'[h].decision = handler[h].decision
  BY <1>1, GotoStep DEF Execute, DirectExecute
<1>3. a \in approvals /\ handler[h].decision = "approved" /\ On(h, a)
  BY <1>1 DEF HandlersSaw, On
<1>4. /\ executed' \in [Actions -> Nat]
      /\ \A b \in Actions : b # a => executed'[b] = executed[b]
  BY <1>1 DEF FlowTypes
<1>5. /\ handler' \in [Handlers -> {Idle} \cup HandlerRecord]
      /\ \A g \in Handlers : g # h => handler'[g] = handler[g]
  BY <1>2 DEF FlowTypes
<1>6. FlowTypes'
  BY <1>1, <1>4, <1>5 DEF FlowTypes, records, bounds
<1>7. ExecutedWasApproved' /\ SettledHasReceipt' /\ GrantedWasApproved'
  BY <1>1, <1>3, <1>4 DEF ExecutedWasApproved, SettledHasReceipt, GrantedWasApproved, records
<1>8. HandlersSaw'
  BY <1>1, <1>2, <1>5 DEF HandlersSaw, records
<1>9. /\ \A b \in Actions : RequestsLeft(b)' = RequestsLeft(b)
      /\ \A b \in Actions : RequestedOnce(b)' <=> RequestedOnce(b)
  BY <1>1 DEF RequestsLeft, RequestedOnce, bounds
<1>10. \A g \in Handlers, b \in Actions : On(g, b)' <=> On(g, b)
  BY <1>1, <1>2, <1>5 DEF On, HandlerRecord, Idle
<1>11. \A g \in Handlers : /\ handler'[g].pc \in Opening => handler[g].pc \in Opening
                           /\ handler'[g].decision = handler[g].decision
  BY <1>2, <1>5
<1>12. \A b \in Actions : b # a => (Untouched(b)' <=> Untouched(b))
  BY <1>1, <1>4 DEF Untouched, records
<1>13. /\ RequestsLeft(a) # AllRequests
       /\ RequestedOnce(a) => \A g \in Handlers : On(g, a) => handler[g].pc \notin Opening
  BY <1>1, <1>3 DEF FirstOpens, AllRequests
<1>14. FirstOpens'
  BY <1>9, <1>10, <1>11, <1>12, <1>13 DEF FirstOpens, AllRequests
<1>15. OnceGranted'
  BY <1>1, <1>3, <1>4, <1>9, <1>10, <1>11 DEF OnceGranted, records
<1>. QED
  BY <1>6, <1>7, <1>8, <1>14, <1>15

\* A request takes an idle handler; the first one finds the action untouched.
LEMMA CreateKeeps ==
  ASSUME IInv, NEW a \in Actions, NEW h \in Handlers,
         CreateIntent(h, a) \/ CreateDirectIntent(h, a)
  PROVE  IInv'
<1>. USE DEF IInv, ProgramCounters, DirectCounters, Opening, Executing, Settling
<1>1. /\ handler[h] = Idle
      /\ intent' = [intent EXCEPT ![a] = "created"]
      /\ UNCHANGED <<session, priorDecision, pending, receipts, ghosts>>
      /\ callsLeft' \in [Actions -> [Operations -> Nat]]
      /\ crashesLeft' = crashesLeft
      /\ \A b \in Actions : b # a => RequestsLeft(b)' = RequestsLeft(b)
      /\ RequestsLeft(a) \in Int /\ RequestsLeft(a)' = RequestsLeft(a) - 1
  BY CallSpends DEF CreateIntent, CreateDirectIntent, Start, SetIntent, Operations
<1>2. \E pc \in {"reserve", "directReserve"} :
        handler' = [handler EXCEPT ![h] = [pc |-> pc, action |-> a, decision |-> "none"]]
  BY DEF CreateIntent, CreateDirectIntent, Start
<1>3. /\ handler' = [handler EXCEPT ![h] = handler'[h]]
      /\ handler'[h] \in HandlerRecord
      /\ handler'[h].pc \in {"reserve", "directReserve"}
      /\ handler'[h].action = a /\ handler'[h].decision = "none"
  BY <1>2 DEF FlowTypes, HandlerRecord, Decisions
<1>4. /\ handler' \in [Handlers -> {Idle} \cup HandlerRecord]
      /\ \A g \in Handlers : g # h => handler'[g] = handler[g]
  BY <1>3 DEF FlowTypes
<1>5. FlowTypes'
  BY <1>1, <1>4 DEF FlowTypes, ghosts
<1>6. ExecutedWasApproved' /\ SettledHasReceipt' /\ GrantedWasApproved'
  BY <1>1 DEF ExecutedWasApproved, SettledHasReceipt, GrantedWasApproved, ghosts, FlowTypes
<1>7. HandlersSaw'
  BY <1>1, <1>3, <1>4 DEF HandlersSaw, ghosts
<1>8. AllRequests \in Nat
  BY DEF AllRequests, Operations
<1>9. Calls["request"] \in Nat /\ Calls["direct"] \in Nat
  BY DEF Operations
<1>10. /\ \A b \in Actions : RequestedOnce(b) <=> RequestsLeft(b) = AllRequests - 1
       /\ \A b \in Actions : RequestedOnce(b)' <=> RequestsLeft(b)' = AllRequests - 1
  <2>1. ASSUME NEW b \in Actions
        PROVE  RequestedOnce(b) <=> RequestsLeft(b) = AllRequests - 1
    BY <1>9 DEF RequestedOnce, RequestsLeft, AllRequests
  <2>2. ASSUME NEW b \in Actions
        PROVE  RequestedOnce(b)' <=> RequestsLeft(b)' = AllRequests - 1
    BY <1>9 DEF RequestedOnce, RequestsLeft, AllRequests
  <2>. QED
    BY <2>1, <2>2
<1>11. \A b \in Actions : Untouched(b)' <=> Untouched(b)
  BY <1>1 DEF Untouched, ghosts
<1>12. \A g \in Handlers, b \in Actions : b # a => (On(g, b)' <=> On(g, b))
  BY <1>1, <1>3, <1>4 DEF On
<1>13. \A g \in Handlers : g # h => (On(g, a)' <=> On(g, a))
  BY <1>4 DEF On
<1>14. RequestedOnce(a)' => Untouched(a) /\ \A g \in Handlers : ~On(g, a)
  <2>1. RequestedOnce(a)' => RequestsLeft(a) = AllRequests
    <3> DEFINE before == RequestsLeft(a)
               after == RequestsLeft(a)'
    <3>1. before \in Int /\ after = before - 1
      BY <1>1
    <3>2. RequestedOnce(a)' => after = AllRequests - 1
      BY <1>10
    <3>. HIDE DEF before, after
    <3>3. RequestedOnce(a)' => before = AllRequests
      BY <1>8, <3>1, <3>2
    <3>. QED
      BY <3>3 DEF before
  <2>. QED
    BY <2>1 DEF FirstOpens, AllRequests
<1>15. FirstOpens'
  <2> SUFFICES ASSUME NEW b \in Actions
      PROVE  /\ RequestsLeft(b)' <= AllRequests
             /\ RequestsLeft(b)' = AllRequests => Untouched(b)' /\ \A g \in Handlers : ~On(g, b)'
             /\ RequestedOnce(b)' =>
                  \A g \in Handlers : On(g, b)' /\ handler'[g].pc \in Opening =>
                    /\ Untouched(b)' /\ handler'[g].decision = "none"
                    /\ \A f \in Handlers : f # g => ~On(f, b)'
    BY DEF FirstOpens, AllRequests
  <2>1. CASE b # a
    <3>1. \A g \in Handlers : On(g, b) => handler'[g] = handler[g]
      BY <1>1, <1>4 DEF On
    <3>. QED
      BY <1>1, <1>10, <1>11, <1>12, <2>1, <3>1 DEF FirstOpens, AllRequests
  <2>2. CASE b = a
    <3>1. RequestsLeft(a) <= AllRequests
      BY DEF FirstOpens, AllRequests
    <3>2. RequestsLeft(a)' <= AllRequests /\ RequestsLeft(a)' # AllRequests
      BY <1>1, <1>8, <3>1
    <3>3. RequestedOnce(a)' => \A g \in Handlers : On(g, a)' => g = h
      BY <1>13, <1>14
    <3>. QED
      BY <1>3, <1>11, <1>14, <2>2, <3>2, <3>3
  <2>. QED
    BY <2>1, <2>2
<1>16. OnceGranted'
  <2> SUFFICES ASSUME NEW b \in Actions, RequestedOnce(b)'
      PROVE  /\ executed[b] > 0 => session[b].final = "granted"
             /\ \A g \in Handlers :
                  On(g, b)' /\ handler'[g].decision = "approved" => session[b].final = "granted"
    BY <1>1 DEF OnceGranted, ghosts
  <2>1. CASE b # a
    <3>1. \A g \in Handlers : On(g, b) => handler'[g] = handler[g]
      BY <1>1, <1>4 DEF On
    <3>. QED
      BY <1>1, <1>10, <1>12, <2>1, <3>1 DEF OnceGranted
  <2>2. CASE b = a
    BY <1>3, <1>13, <1>14, <2>2 DEF Untouched
  <2>. QED
    BY <2>1, <2>2
<1>. QED
  BY <1>5, <1>6, <1>7, <1>15, <1>16

\* A crash forgets the handlers, and nothing else.
LEMMA CrashKeeps == ASSUME IInv, Crash PROVE IInv'
<1>. USE DEF IInv
<1>1. /\ UNCHANGED <<records, ghosts, callsLeft>>
      /\ crashesLeft' \in Nat
      /\ \A h \in Handlers : handler'[h] = Idle
      /\ handler' \in [Handlers -> {Idle} \cup HandlerRecord]
  BY DEF Crash, FlowTypes
<1>2. FlowTypes'
  BY <1>1 DEF FlowTypes, records, ghosts
<1>3. ExecutedWasApproved' /\ SettledHasReceipt' /\ GrantedWasApproved' /\ HandlersSaw'
  BY <1>1 DEF ExecutedWasApproved, SettledHasReceipt, GrantedWasApproved, HandlersSaw,
     records, ghosts
<1>4. FirstOpens' /\ OnceGranted'
  BY <1>1 DEF FirstOpens, OnceGranted, RequestsLeft, RequestedOnce, AllRequests, Untouched, On,
     records, ghosts
<1>. QED
  BY <1>2, <1>3, <1>4

LEMMA StutterKeeps == ASSUME IInv, UNCHANGED vars PROVE IInv'
BY DEF vars, records, ghosts, bounds, IInv, FlowTypes, ExecutedWasApproved, SettledHasReceipt,
   GrantedWasApproved, HandlersSaw, FirstOpens, OnceGranted, RequestsLeft, RequestedOnce,
   AllRequests, Untouched, On

\* One lemma for each kind of step.
LEMMA NextKeeps == IInv /\ [DirectNext]_vars => IInv'
<1>. SUFFICES ASSUME IInv, [DirectNext]_vars PROVE IInv'
  OBVIOUS
<1>1. CASE NewCall
  BY <1>1, ResumeSessionKeeps, FinalizeKeeps, CreateKeeps, ApplyKeeps DEF NewCall
<1>2. ASSUME NEW h \in Handlers, HandlerStep(h) PROVE IInv'
  <2>1. CASE RequestStep(h)
    BY <2>1, RequestIsQuiet, QuietKeeps, OpenKeeps DEF RequestStep
  <2>2. CASE CloseStep(h)
    <3>1. CASE CloseSession(h)
      <4>1. handler[h].action \in Actions
        BY <3>1, AtStep DEF CloseSession, IInv
      <4>. QED
        BY <3>1, <4>1, FinalizeKeeps
    <3>. QED
      BY <2>2, <3>1, CloseIsQuiet, QuietKeeps DEF CloseStep
  <2>3. CASE ResumeStep(h)
    BY <2>3, ReadIsQuiet, CloseIsQuiet, SettleIsQuiet, QuietKeeps, ExecuteKeeps DEF ResumeStep
  <2>. QED
    BY <1>2, <2>1, <2>2, <2>3 DEF HandlerStep
<1>3. ASSUME NEW h \in Handlers, DirectStep(h) PROVE IInv'
  <2>1. ASSUME NEW result \in Results, DirectApply(h, result) PROVE IInv'
    <3>1. handler[h].action \in Actions
      BY <2>1, AtStep DEF DirectApply, IInv
    <3>. QED
      BY <2>1, <3>1, ApplyKeeps
  <2>2. CASE DirectResume(h)
    <3>1. handler[h].action \in Actions
      BY <2>2, AtStep DEF DirectResume, IInv
    <3>. QED
      BY <2>2, <3>1, FinalizeKeeps
  <2>. QED
    BY <1>3, <2>1, <2>2, RequestIsQuiet, ReadIsQuiet, CloseIsQuiet, SettleIsQuiet, QuietKeeps,
       OpenKeeps, ExecuteKeeps DEF DirectStep
<1>. QED
  BY <1>1, <1>2, <1>3, CreateKeeps, CrashKeeps, StutterKeeps DEF DirectNext, Next

\* The invariant: whatever calls, results, failures of the rail and crashes
\* follow one another (runtime.ts, orchestrator.ts).
THEOREM Invariant == DirectSpec => []IInv
BY InitIInv, NextKeeps, PTL DEF DirectSpec

\* Nothing is executed that was never approved (ExecutedWasApproved; runtime.ts:955, 1119).
THEOREM OnlyApprovedExecutes == DirectSpec => []ExecutedWasApproved
BY Invariant, PTL DEF IInv

\* An action that is shown as settled has its receipt, also after a crash
\* between any two writes (SettledHasReceipt; runtime.ts:895-907).
THEOREM SettledKeepsReceipt == DirectSpec => []SettledHasReceipt
BY Invariant, PTL DEF IInv

\* A session that is final without approval grants nothing, so an action with
\* that one session is never executed (FinalRejectionHolds; amn/service.ts:318).
THEOREM RejectionIsFinal == DirectSpec => []FinalRejectionHolds
<1>1. IInv => FinalRejectionHolds
  <2> SUFFICES ASSUME IInv, NEW a \in Actions, RequestedOnce(a), session[a].final = "prior"
      PROVE  executed[a] = 0
    BY DEF FinalRejectionHolds
  <2>1. ~(executed[a] > 0)
    BY DEF IInv, OnceGranted
  <2>2. executed[a] \in Nat
    BY DEF IInv, FlowTypes
  <2>. QED
    BY <2>1, <2>2
<1>. QED
  BY <1>1, Invariant, PTL

-----------------------------------------------------------------------------
(* The ledger of the flows.                                                *)

LP == INSTANCE AtsLedgerProofs WITH Reservations <- Actions

LEMMA ReserveIsLedgerStep ==
  ASSUME NEW a \in Actions, ReserveFor(a)
  PROVE  LP!Next
<1>1. PICK terms \in Offers[a] : Ledger!Reserve(a, terms.holding, terms.amount, terms.holding)
  BY DEF ReserveFor
<1>2. PICK L \in Holdings, n \in 1..MaxAmount : L = terms.holding /\ n = terms.amount
  OBVIOUS
<1>3. LP!Reserve(a, L, n, L)
  BY <1>1, <1>2 DEF Ledger!Reserve, LP!Reserve, Ledger!Left, LP!Left, Ledger!Shift, LP!Shift,
     Ledger!PutLines, LP!PutLines, Ledger!ExhaustLines, LP!ExhaustLines,
     Ledger!Floor0, LP!Floor0, Ledger!Lines, LP!Lines
<1>. QED
  BY <1>3 DEF LP!Next, LP!NextReserve, LP!Amounts

LEMMA CloseIsLedgerStep ==
  ASSUME NEW a \in Actions,
         \/ Ledger!Settle(a, reservation[a].holding)
         \/ Ledger!Release(a, reservation[a].holding)
  PROVE  LP!Next
<1>1. CASE Ledger!Settle(a, reservation[a].holding)
  <2>1. LP!Settle(a, reservation[a].holding)
    BY <1>1 DEF Ledger!Settle, LP!Settle, Ledger!Left, LP!Left, Ledger!Shift, LP!Shift,
       Ledger!PutLines, LP!PutLines, Ledger!ExhaustLines, LP!ExhaustLines,
       Ledger!PutState, LP!PutState, Ledger!Floor0, LP!Floor0, Ledger!Lines, LP!Lines
  <2>2. a \in LP!Active
    BY <1>1 DEF Ledger!Settle, LP!Active
  <2>. QED
    BY <2>1, <2>2 DEF LP!Next, LP!NextSettle
<1>2. CASE Ledger!Release(a, reservation[a].holding)
  <2>1. LP!Release(a, reservation[a].holding)
    BY <1>2 DEF Ledger!Release, LP!Release, Ledger!Left, LP!Left, Ledger!Shift, LP!Shift,
       Ledger!PutLines, LP!PutLines, Ledger!PutState, LP!PutState,
       Ledger!Floor0, LP!Floor0, Ledger!Lines, LP!Lines
  <2>2. a \in LP!Active
    BY <1>2 DEF Ledger!Release, LP!Active
  <2>. QED
    BY <2>1, <2>2 DEF LP!Next, LP!NextRelease
<1>. QED
  BY <1>1, <1>2

\* Every step leaves the ledger alone or is one of its operations.
LEMMA LedgerStep == ASSUME FlowTypes, DirectNext PROVE LP!Next \/ UNCHANGED ledger
<1>1. CASE NewCall
  BY <1>1 DEF NewCall, ResumeApprovalSession, CreateIntent, ApplyApprovalResult, StartResume
<1>2. CASE Crash
  BY <1>2 DEF Crash
<1>3. ASSUME NEW h \in Handlers, RequestStep(h) PROVE LP!Next \/ UNCHANGED ledger
  <2>1. CASE ReserveCapacity(h)
    BY <2>1, AtStep, ReserveIsLedgerStep DEF ReserveCapacity
  <2>. QED
    BY <1>3, <2>1 DEF RequestStep, EvaluateAuthorization, CreateApprovalRequest,
       CreatePendingExecution, MarkChallenge
<1>4. ASSUME NEW h \in Handlers, CloseStep(h) PROVE LP!Next \/ UNCHANGED ledger
  <2>1. CASE ReleaseReservation(h)
    BY <2>1, AtStep, CloseIsLedgerStep DEF ReleaseReservation, ReleaseThen
  <2>. QED
    BY <1>4, <2>1 DEF CloseStep, CloseSession, MarkClosed, MarkReleased
<1>5. ASSUME NEW h \in Handlers, ResumeStep(h) PROVE LP!Next \/ UNCHANGED ledger
  <2>1. CASE ReleaseFailed(h)
    BY <2>1, AtStep, CloseIsLedgerStep DEF ReleaseFailed, ReleaseThen
  <2>2. CASE ChargeReservation(h)
    BY <2>2, AtStep, CloseIsLedgerStep DEF ChargeReservation
  <2>. QED
    BY <1>5, <2>1, <2>2 DEF ResumeStep, ReadIntent, ReadBack, Execute, MarkFailed,
       CreateActionReceipt, MarkSettled, MarkResumed, Notify
<1>6. ASSUME NEW h \in Handlers, DirectStep(h) PROVE LP!Next \/ UNCHANGED ledger
  <2>1. CASE DirectReserve(h)
    BY <2>1, AtStep, ReserveIsLedgerStep DEF DirectReserve
  <2>2. CASE DirectRelease(h)
    BY <2>2, AtStep, CloseIsLedgerStep DEF DirectRelease
  <2>3. CASE DirectCharge(h)
    BY <2>3, AtStep, CloseIsLedgerStep DEF DirectCharge
  <2>. QED
    BY <1>6, <2>1, <2>2, <2>3 DEF DirectStep, DirectEvaluate, DirectOpenSession,
       DirectMarkChallenge, DirectApply, DirectResume, DirectDecide, DirectExecute,
       CreateActionReceipt, DirectMarkSettled
<1>. QED
  BY <1>1, <1>2, <1>3, <1>4, <1>5, <1>6
     DEF DirectNext, Next, HandlerStep, CreateDirectIntent

\* The flows use the ledger as its life cycle allows: what is proved of the
\* ledger holds of the ledger of the whole.
THEOREM FlowsImplementLedger == DirectSpec => LP!Spec
<1>1. Init => LP!Init
  BY DEF Init, Ledger!Init, LP!Init, Ledger!Lines, LP!Lines, Ledger!None, LP!None
<1>2. IInv /\ [DirectNext]_vars => [LP!Next]_(LP!vars)
  BY LedgerStep DEF IInv, vars, ledger, LP!vars
<1>. QED
  BY <1>1, <1>2, Invariant, PTL DEF DirectSpec, LP!Spec

\* Whatever the flows do with one another, no line is overspent (ats/service.ts:196-200).
THEOREM FlowsNeverOverspend == DirectSpec => []LP!NoOverspend
<1>1. LP!Spec => []LP!NoOverspend
  BY LP!WithinLimit, LedgerAssumption DEF LP!Lines, IsFiniteSet, LP!IsFiniteSet
<1>. QED
  BY <1>1, FlowsImplementLedger, PTL

\* Every state is well typed.
THEOREM TypeCorrect == DirectSpec => []TypeOK
<1>1. LP!TypeOK => Ledger!TypeOK
  BY DEF LP!TypeOK, Ledger!TypeOK, LP!Lines, Ledger!Lines, LP!ReservationRecord,
     Ledger!ReservationRecord, LP!Amounts, Ledger!Amounts, LP!None, Ledger!None
<1>2. IInv /\ LP!TypeOK => TypeOK
  BY <1>1 DEF IInv, FlowTypes, AskedTypes, TypeOK, HandlerRecord, Decisions
<1>3. LP!Spec => []LP!TypeOK
  BY LP!TypeCorrect, LedgerAssumption DEF LP!Lines, IsFiniteSet, LP!IsFiniteSet
<1>. QED
  BY <1>2, <1>3, FlowsImplementLedger, Invariant, PTL

-----------------------------------------------------------------------------
(* What is charged was executed.  A handler that has executed and has yet   *)
(* to charge owes the units of its action.  Which units these are, requests *)
(* may still change while it waits: the invariant therefore speaks of any   *)
(* units that cover what has been reserved so far.                         *)

Owing == {"createReceipt", "markSettled", "charge",
          "directReceipt", "directSettled", "directCharge"}

Units == [Actions -> SUBSET (1..MaxAmount)]
Covers(U, l) == \A a \in Actions : AskedUnits(a, l) \subseteq U[a]

\* One element for each unit that the handlers owe.
OwedUnits(U) ==
  {u \in Handlers \X (1..MaxAmount) :
     handler[u[1]].pc \in Owing /\ u[2] \in U[handler[u[1]].action]}

\* One element for each unit that was executed.
DoneUnits(U) == UNION {{a} \X ((1..executed[a]) \X U[a]) : a \in Actions}

\* A reservation is of an amount, and on lines, that a request has asked for.
ReservesAsAsked ==
  \A a \in Actions : reservation[a].state # "none" =>
    \A l \in Ledger!Lines : l \in reservation[a].holding =>
      reservation[a].amount \in Nat /\ 1..reservation[a].amount \subseteq AskedUnits(a, l)

OwedWasExecuted ==
  \A l \in Ledger!Lines, U \in Units : Covers(U, l) =>
    /\ IsFiniteSet(OwedUnits(U)) /\ IsFiniteSet(DoneUnits(U))
    /\ consumed[l] + Cardinality(OwedUnits(U)) <= Cardinality(DoneUnits(U))

ChargeInv == ReservesAsAsked /\ OwedWasExecuted

\* A set grows by what it did not have.
LEMMA AddBlock ==
  ASSUME NEW S, IsFiniteSet(S), NEW B, IsFiniteSet(B), S \cap B = {}
  PROVE  IsFiniteSet(S \cup B) /\ Cardinality(S \cup B) = Cardinality(S) + Cardinality(B)
<1>1. Cardinality(S) \in Nat /\ Cardinality(B) \in Nat
  BY FS_CardinalityType
<1>2. /\ IsFiniteSet(S \cup B)
      /\ Cardinality(S \cup B) = Cardinality(S) + Cardinality(B) - Cardinality(S \cap B)
  BY FS_Union
<1>3. Cardinality(S \cap B) = 0
  BY FS_EmptySet
<1>. QED
  BY <1>1, <1>2, <1>3

\* A block of the units in S has as many of them.
LEMMA BlockSize ==
  ASSUME NEW r, NEW S, IsFiniteSet(S)
  PROVE  IsFiniteSet({r} \X S) /\ Cardinality({r} \X S) = Cardinality(S)
<1>1. IsFiniteSet({r}) /\ Cardinality({r}) = 1
  BY FS_Singleton
<1>2. IsFiniteSet({r} \X S) /\ Cardinality({r} \X S) = Cardinality({r}) * Cardinality(S)
  BY <1>1, FS_Product
<1>3. Cardinality(S) \in Nat
  BY FS_CardinalityType
<1>. QED
  BY <1>1, <1>2, <1>3

LEMMA UnitsAreFinite ==
  ASSUME NEW U \in Units, NEW a \in Actions
  PROVE  IsFiniteSet(U[a]) /\ Cardinality(U[a]) \in Nat /\ U[a] \subseteq 1..MaxAmount
<1>1. U[a] \subseteq 1..MaxAmount
  BY DEF Units
<1>2. IsFiniteSet(1..MaxAmount)
  BY FS_Interval, LedgerAssumption
<1>. QED
  BY <1>1, <1>2, FS_Subset, FS_CardinalityType

\* One execution of an action adds its units to those executed.
LEMMA DoneGrows ==
  ASSUME FlowTypes, NEW a \in Actions, executed' = [executed EXCEPT ![a] = @ + 1],
         NEW U \in Units, IsFiniteSet(DoneUnits(U))
  PROVE  /\ IsFiniteSet(DoneUnits(U)')
         /\ Cardinality(DoneUnits(U)') = Cardinality(DoneUnits(U)) + Cardinality(U[a])
<1> DEFINE S == U[a]
           e == executed[a]
           Block == {a} \X ({e + 1} \X S)
<1>1. /\ e \in Nat
      /\ executed'[a] = e + 1
      /\ \A b \in Actions : b # a => executed'[b] = executed[b]
  BY DEF FlowTypes
<1>2. 1..(e + 1) = (1..e) \cup {e + 1}
  BY <1>1
<1>3. {a} \X ((1..executed'[a]) \X S) = ({a} \X ((1..e) \X S)) \cup Block
  BY <1>1, <1>2
<1>4. DoneUnits(U)' = DoneUnits(U) \cup Block
  BY <1>1, <1>3 DEF DoneUnits
<1>5. DoneUnits(U) \cap Block = {}
  BY <1>1 DEF DoneUnits
<1>6. IsFiniteSet({e + 1} \X S) /\ Cardinality({e + 1} \X S) = Cardinality(S)
  BY UnitsAreFinite, BlockSize
<1>7. IsFiniteSet(Block) /\ Cardinality(Block) = Cardinality(S)
  BY <1>6, BlockSize
<1>. HIDE DEF Block
<1>. QED
  BY <1>4, <1>5, <1>7, AddBlock

\* A handler that comes to owe, owes the units of its action.
LEMMA OwedGrows ==
  ASSUME FlowTypes, NEW h \in Handlers, handler' = [handler EXCEPT ![h] = handler'[h]],
         handler[h].pc \notin Owing, handler'[h].pc \in Owing,
         NEW a \in Actions, handler'[h].action = a,
         NEW U \in Units, IsFiniteSet(OwedUnits(U))
  PROVE  /\ IsFiniteSet(OwedUnits(U)')
         /\ Cardinality(OwedUnits(U)') = Cardinality(OwedUnits(U)) + Cardinality(U[a])
<1> DEFINE Block == {h} \X U[a]
<1>1. /\ U[a] \subseteq 1..MaxAmount
      /\ \A g \in Handlers : g # h => handler'[g] = handler[g]
  BY UnitsAreFinite DEF FlowTypes
<1>2. \A u \in Handlers \X (1..MaxAmount) :
        u \in OwedUnits(U)' <=> u \in OwedUnits(U) \/ u \in Block
  BY <1>1 DEF OwedUnits
<1>3. OwedUnits(U)' = OwedUnits(U) \cup Block
  BY <1>1, <1>2 DEF OwedUnits
<1>4. OwedUnits(U) \cap Block = {}
  BY DEF OwedUnits
<1>5. IsFiniteSet(Block) /\ Cardinality(Block) = Cardinality(U[a])
  BY UnitsAreFinite, BlockSize
<1>. HIDE DEF Block
<1>. QED
  BY <1>3, <1>4, <1>5, AddBlock

\* A handler that pays, or fails, owes its units no longer.
LEMMA OwedShrinks ==
  ASSUME FlowTypes, NEW h \in Handlers, handler' = [handler EXCEPT ![h] = handler'[h]],
         handler[h].pc \in Owing, handler'[h].pc \notin Owing,
         NEW a \in Actions, handler[h].action = a,
         NEW U \in Units, IsFiniteSet(OwedUnits(U))
  PROVE  /\ IsFiniteSet(OwedUnits(U)')
         /\ Cardinality(OwedUnits(U)) = Cardinality(OwedUnits(U)') + Cardinality(U[a])
<1> DEFINE Block == {h} \X U[a]
<1>1. /\ U[a] \subseteq 1..MaxAmount
      /\ \A g \in Handlers : g # h => handler'[g] = handler[g]
  BY UnitsAreFinite DEF FlowTypes
<1>2. \A u \in Handlers \X (1..MaxAmount) :
        u \in OwedUnits(U) <=> u \in OwedUnits(U)' \/ u \in Block
  BY <1>1 DEF OwedUnits
<1>3. OwedUnits(U) = OwedUnits(U)' \cup Block
  BY <1>1, <1>2 DEF OwedUnits
<1>4. OwedUnits(U)' \cap Block = {}
  BY DEF OwedUnits
<1>5. IsFiniteSet(Block) /\ Cardinality(Block) = Cardinality(U[a])
  BY UnitsAreFinite, BlockSize
<1>6. IsFiniteSet(OwedUnits(U)')
  BY <1>3, FS_Subset
<1>. HIDE DEF Block
<1>. QED
  BY <1>3, <1>4, <1>5, <1>6, AddBlock

\* What covers the reservations covers those that were made before.
AskedGrows == \A a \in Actions : asked[a] \subseteq asked'[a]

LEMMA CoveredBefore ==
  ASSUME AskedGrows, NEW U, NEW l, Covers(U, l)'
  PROVE  Covers(U, l)
<1>1. \A a \in Actions : AskedUnits(a, l) \subseteq AskedUnits(a, l)'
  BY DEF AskedGrows, AskedUnits
<1>. QED
  BY <1>1 DEF Covers

\* No other step makes a handler owe.
Steady ==
  \A g \in Handlers : handler'[g].pc \in Owing =>
    handler[g].pc \in Owing /\ handler'[g].action = handler[g].action

LEMMA OwedKept ==
  ASSUME Steady, NEW U, IsFiniteSet(OwedUnits(U))
  PROVE  /\ IsFiniteSet(OwedUnits(U)')
         /\ Cardinality(OwedUnits(U)') <= Cardinality(OwedUnits(U))
         /\ Cardinality(OwedUnits(U)') \in Nat
<1>1. \A u \in Handlers \X (1..MaxAmount) : u \in OwedUnits(U)' => u \in OwedUnits(U)
  BY DEF Steady, OwedUnits
<1>2. OwedUnits(U)' \in SUBSET OwedUnits(U)
  BY <1>1 DEF OwedUnits
<1>. QED
  BY <1>2, FS_Subset, FS_CardinalityType

\* A reservation and a release charge nothing.
LEMMA HoldCharges ==
  ASSUME FlowTypes, Ledger!TypeOK, ReservesAsAsked, NEW a \in Actions,
         ReserveFor(a) \/ (Ledger!Release(a, reservation[a].holding) /\ asked' = asked)
  PROVE  ReservesAsAsked' /\ consumed' = consumed
<1>1. /\ consumed \in [Ledger!Lines -> Nat]
      /\ DOMAIN reservation = Actions
  BY DEF Ledger!TypeOK
<1>2. CASE ReserveFor(a)
  <2>1. PICK terms \in Offers[a] :
          /\ Ledger!Reserve(a, terms.holding, terms.amount, terms.holding)
          /\ asked' = [asked EXCEPT ![a] = @ \cup {terms}]
    BY <1>2 DEF ReserveFor
  <2>2. PICK L \in Holdings, n \in 1..MaxAmount :
          terms = [holding |-> L, amount |-> n]
    OBVIOUS
  <2>3. reservation' = [reservation EXCEPT ![a] =
          [holding |-> L, amount |-> n, state |-> "reserved"]]
    BY <2>1, <2>2 DEF Ledger!Reserve
  <2>4. /\ asked'[a] = asked[a] \cup {terms}
        /\ \A b \in Actions : b # a => asked'[b] = asked[b]
    BY <2>1 DEF FlowTypes, AskedTypes
  <2>5. ASSUME NEW l \in Ledger!Lines, l \in L PROVE 1..n \subseteq AskedUnits(a, l)'
    <3>1. MaxAmount \in Nat
      BY LedgerAssumption
    <3>. QED
      BY <2>2, <2>4, <2>5, <3>1 DEF AskedUnits
  <2>6. ReservesAsAsked'
    <3> SUFFICES ASSUME NEW b \in Actions, reservation'[b].state # "none",
                        NEW l \in Ledger!Lines, l \in reservation'[b].holding
        PROVE  /\ reservation'[b].amount \in Nat
               /\ 1..reservation'[b].amount \subseteq AskedUnits(b, l)'
      BY DEF ReservesAsAsked, Ledger!Lines
    <3>1. CASE b = a
      BY <1>1, <2>3, <2>5, <3>1
    <3>2. CASE b # a
      <4>1. reservation'[b] = reservation[b]
        BY <1>1, <2>3, <3>2
      <4>2. AskedUnits(b, l)' = AskedUnits(b, l)
        BY <2>4, <3>2 DEF AskedUnits
      <4>. QED
        BY <4>1, <4>2 DEF ReservesAsAsked
    <3>. QED
      BY <3>1, <3>2
  <2>7. consumed' = [l \in Ledger!Lines |->
          IF l \in terms.holding THEN consumed[l] ELSE consumed[l]]
    BY <2>1 DEF Ledger!Reserve, Ledger!PutLines
  <2>. QED
    BY <1>1, <2>6, <2>7
<1>3. CASE Ledger!Release(a, reservation[a].holding) /\ asked' = asked
  <2>1. /\ reservation' = [reservation EXCEPT ![a].state = "released"]
        /\ reservation[a].state = "reserved"
    BY <1>3 DEF Ledger!Release, Ledger!PutState
  <2>2. ReservesAsAsked'
    BY <1>1, <1>3, <2>1 DEF ReservesAsAsked, AskedUnits, Ledger!Lines
  <2>3. consumed' = [l \in Ledger!Lines |->
          IF l \in reservation[a].holding THEN consumed[l] ELSE consumed[l]]
    BY <1>3 DEF Ledger!Release, Ledger!PutLines
  <2>. QED
    BY <1>1, <2>2, <2>3
<1>. QED
  BY <1>2, <1>3

\* A settlement charges no more than the units of its action.
LEMMA SettleCharges ==
  ASSUME Ledger!TypeOK, ReservesAsAsked, NEW a \in Actions,
         Ledger!Settle(a, reservation[a].holding), asked' = asked
  PROVE  /\ ReservesAsAsked'
         /\ \A l \in Ledger!Lines, U \in Units : Covers(U, l) =>
              consumed'[l] \in Nat /\ consumed'[l] <= consumed[l] + Cardinality(U[a])
<1>1. /\ consumed \in [Ledger!Lines -> Nat]
      /\ DOMAIN reservation = Actions
  BY DEF Ledger!TypeOK
<1>2. /\ reservation' = [reservation EXCEPT ![a].state = "settled"]
      /\ reservation[a].state = "reserved"
  BY DEF Ledger!Settle, Ledger!PutState
<1>3. ReservesAsAsked'
  BY <1>1, <1>2 DEF ReservesAsAsked, AskedUnits, Ledger!Lines
<1>4. ASSUME NEW l \in Ledger!Lines, NEW U \in Units, Covers(U, l)
      PROVE  consumed'[l] \in Nat /\ consumed'[l] <= consumed[l] + Cardinality(U[a])
  <2> DEFINE n == reservation[a].amount
  <2>1. /\ IsFiniteSet(U[a]) /\ Cardinality(U[a]) \in Nat /\ consumed[l] \in Nat
        /\ l \in Ledger!Lines
    BY <1>1, UnitsAreFinite
  <2>2. CASE l \in reservation[a].holding
    <3>1. n \in Nat /\ 1..n \subseteq U[a]
      BY <1>2, <1>4, <2>2 DEF ReservesAsAsked, Covers
    <3>2. n <= Cardinality(U[a])
      <4>1. Cardinality(1..n) = IF 1 > n THEN 0 ELSE n - 1 + 1
        BY <3>1, FS_Interval, SMT
      <4>2. Cardinality(1..n) <= Cardinality(U[a])
        BY <2>1, <3>1, FS_Subset
      <4>. QED
        BY <2>1, <3>1, <4>1, <4>2
    <3>3. consumed'[l] = consumed[l] + n
      BY <2>1, <2>2 DEF Ledger!Settle, Ledger!PutLines, Ledger!Shift
    <3>. QED
      BY <2>1, <3>1, <3>2, <3>3
  <2>3. CASE l \notin reservation[a].holding
    <3>1. consumed'[l] = consumed[l]
      BY <2>1, <2>3 DEF Ledger!Settle, Ledger!PutLines
    <3>. QED
      BY <2>1, <3>1
  <2>. QED
    BY <2>2, <2>3
<1>. QED
  BY <1>3, <1>4

LEMMA SameLedger ==
  ASSUME ReservesAsAsked, UNCHANGED <<ledger, asked>>
  PROVE  ReservesAsAsked' /\ consumed' = consumed
BY DEF ReservesAsAsked, ledger, AskedUnits, Ledger!Lines

\* What the invariant says of one line and the units that cover it.
Balanced(l, U) ==
  /\ IsFiniteSet(OwedUnits(U)) /\ IsFiniteSet(DoneUnits(U))
  /\ consumed[l] + Cardinality(OwedUnits(U)) <= Cardinality(DoneUnits(U))

LEMMA BalancedNow ==
  ASSUME Ledger!TypeOK, ChargeInv, AskedGrows, NEW l \in Ledger!Lines, NEW U \in Units,
         Covers(U, l)'
  PROVE  /\ Covers(U, l) /\ Balanced(l, U) /\ consumed[l] \in Nat
         /\ Cardinality(OwedUnits(U)) \in Nat /\ Cardinality(DoneUnits(U)) \in Nat
<1>1. Covers(U, l)
  BY CoveredBefore
<1>2. Balanced(l, U) /\ consumed[l] \in Nat
  BY <1>1 DEF ChargeInv, OwedWasExecuted, Balanced, Ledger!TypeOK
<1>. QED
  BY <1>1, <1>2, FS_CardinalityType DEF Balanced

LEMMA BalancedNext ==
  ASSUME ReservesAsAsked',
         \A l \in Ledger!Lines, U \in Units : Covers(U, l)' => Balanced(l, U)'
  PROVE  ChargeInv'
BY DEF ChargeInv, OwedWasExecuted, Balanced, Ledger!Lines

\* A step that charges nothing and lets no handler owe.
LEMMA SteadyCharges ==
  ASSUME FlowTypes, Ledger!TypeOK, ChargeInv, Steady, AskedGrows, ReservesAsAsked',
         consumed' = consumed,
         \/ executed' = executed
         \/ \E a \in Actions : executed' = [executed EXCEPT ![a] = @ + 1]
  PROVE  ChargeInv'
<1>. SUFFICES ASSUME NEW l \in Ledger!Lines, NEW U \in Units, Covers(U, l)'
     PROVE  Balanced(l, U)'
  BY BalancedNext
<1>1. /\ Balanced(l, U) /\ consumed[l] \in Nat /\ consumed'[l] = consumed[l]
      /\ Cardinality(OwedUnits(U)) \in Nat /\ Cardinality(DoneUnits(U)) \in Nat
  BY BalancedNow
<1>2. /\ IsFiniteSet(OwedUnits(U)') /\ Cardinality(OwedUnits(U)') \in Nat
      /\ Cardinality(OwedUnits(U)') <= Cardinality(OwedUnits(U))
  BY <1>1, OwedKept DEF Balanced
<1>3. IsFiniteSet(DoneUnits(U)') /\ Cardinality(DoneUnits(U)') >= Cardinality(DoneUnits(U))
      /\ Cardinality(DoneUnits(U)') \in Nat
  <2>1. CASE executed' = executed
    <3>1. DoneUnits(U)' = DoneUnits(U)
      BY <2>1 DEF DoneUnits
    <3>. QED
      BY <1>1, <3>1 DEF Balanced
  <2>2. ASSUME NEW a \in Actions, executed' = [executed EXCEPT ![a] = @ + 1]
        PROVE  /\ IsFiniteSet(DoneUnits(U)')
               /\ Cardinality(DoneUnits(U)') >= Cardinality(DoneUnits(U))
               /\ Cardinality(DoneUnits(U)') \in Nat
    <3>1. /\ IsFiniteSet(DoneUnits(U)')
          /\ Cardinality(DoneUnits(U)') = Cardinality(DoneUnits(U)) + Cardinality(U[a])
      BY <1>1, <2>2, DoneGrows DEF Balanced
    <3>2. Cardinality(U[a]) \in Nat
      BY UnitsAreFinite
    <3>. QED
      BY <1>1, <3>1, <3>2
  <2>. QED
    BY <2>1, <2>2
<1>. QED
  BY <1>1, <1>2, <1>3 DEF Balanced

\* An execution that succeeds lets its handler owe what it executed.
LEMMA ExecuteCharges ==
  ASSUME FlowTypes, Ledger!TypeOK, ChargeInv, NEW h \in Handlers, NEW a \in Actions,
         handler' = [handler EXCEPT ![h] = handler'[h]],
         handler[h].pc \notin Owing, handler'[h].pc \in Owing, handler'[h].action = a,
         executed' = [executed EXCEPT ![a] = @ + 1], UNCHANGED <<ledger, asked>>
  PROVE  ChargeInv'
<1>1. ReservesAsAsked' /\ consumed' = consumed /\ AskedGrows
  BY SameLedger DEF ChargeInv, AskedGrows
<1>2. ASSUME NEW l \in Ledger!Lines, NEW U \in Units, Covers(U, l)'
      PROVE  Balanced(l, U)'
  <2>1. /\ Balanced(l, U) /\ consumed[l] \in Nat /\ consumed'[l] = consumed[l]
        /\ Cardinality(OwedUnits(U)) \in Nat /\ Cardinality(DoneUnits(U)) \in Nat
    BY <1>1, <1>2, BalancedNow
  <2>2. Cardinality(U[a]) \in Nat
    BY UnitsAreFinite
  <2>3. /\ IsFiniteSet(OwedUnits(U)')
        /\ Cardinality(OwedUnits(U)') = Cardinality(OwedUnits(U)) + Cardinality(U[a])
    BY <2>1, OwedGrows DEF Balanced
  <2>4. /\ IsFiniteSet(DoneUnits(U)')
        /\ Cardinality(DoneUnits(U)') = Cardinality(DoneUnits(U)) + Cardinality(U[a])
    BY <2>1, DoneGrows DEF Balanced
  <2>. QED
    BY <2>1, <2>2, <2>3, <2>4 DEF Balanced
<1>. QED
  BY <1>1, <1>2, BalancedNext

\* A handler that charges its reservation pays what it owes.
LEMMA PayCharges ==
  ASSUME FlowTypes, Ledger!TypeOK, ChargeInv, NEW h \in Handlers, NEW a \in Actions,
         handler' = [handler EXCEPT ![h] = handler'[h]],
         handler[h].pc \in Owing, handler'[h].pc \notin Owing, handler[h].action = a,
         executed' = executed, asked' = asked, Ledger!Settle(a, reservation[a].holding)
  PROVE  ChargeInv'
<1>1. /\ ReservesAsAsked' /\ AskedGrows
      /\ \A l \in Ledger!Lines, U \in Units : Covers(U, l) =>
           consumed'[l] \in Nat /\ consumed'[l] <= consumed[l] + Cardinality(U[a])
  BY SettleCharges DEF ChargeInv, AskedGrows
<1>2. ASSUME NEW l \in Ledger!Lines, NEW U \in Units, Covers(U, l)'
      PROVE  Balanced(l, U)'
  <2>1. /\ Covers(U, l) /\ Balanced(l, U) /\ consumed[l] \in Nat
        /\ Cardinality(OwedUnits(U)) \in Nat /\ Cardinality(DoneUnits(U)) \in Nat
    BY <1>1, <1>2, BalancedNow
  <2>2. consumed'[l] \in Nat /\ consumed'[l] <= consumed[l] + Cardinality(U[a])
    BY <1>1, <2>1
  <2>3. Cardinality(U[a]) \in Nat
    BY UnitsAreFinite
  <2>4. /\ IsFiniteSet(OwedUnits(U)')
        /\ Cardinality(OwedUnits(U)) = Cardinality(OwedUnits(U)') + Cardinality(U[a])
    BY <2>1, OwedShrinks DEF Balanced
  <2>5. Cardinality(OwedUnits(U)') \in Nat
    BY <2>4, FS_CardinalityType
  <2>6. DoneUnits(U)' = DoneUnits(U)
    BY DEF DoneUnits
  <2>. QED
    BY <2>1, <2>2, <2>3, <2>4, <2>5, <2>6 DEF Balanced
<1>. QED
  BY <1>1, <1>2, BalancedNext

\* One handler moves, and does not come to owe.
LEMMA MoveCharges ==
  ASSUME FlowTypes, Ledger!TypeOK, ChargeInv, NEW h \in Handlers,
         handler' = [handler EXCEPT ![h] = handler'[h]],
         handler'[h].pc \in Owing =>
           handler[h].pc \in Owing /\ handler'[h].action = handler[h].action,
         AskedGrows, ReservesAsAsked', consumed' = consumed,
         \/ executed' = executed
         \/ \E a \in Actions : executed' = [executed EXCEPT ![a] = @ + 1]
  PROVE  ChargeInv'
<1>1. \A g \in Handlers : g # h => handler'[g] = handler[g]
  BY DEF FlowTypes
<1>2. Steady
  BY <1>1 DEF Steady
<1>. QED
  BY <1>2, SteadyCharges

\* A step that leaves both the ledger and the executions alone.
LEMMA QuietCharges ==
  ASSUME FlowTypes, Ledger!TypeOK, ChargeInv, NEW h \in Handlers, Quiet(h, handler'[h]),
         handler'[h].pc \in Owing => handler[h].pc \in Owing,
         ReservesAsAsked', consumed' = consumed
  PROVE  ChargeInv'
<1>1. handler'[h].pc \in Owing => handler'[h] # Idle
  BY DEF Owing, Idle
<1>. QED
  BY <1>1, MoveCharges DEF Quiet, QuietWrites, AskedGrows

\* The steps of the flows, as far as they settle nothing and execute nothing.
LEMMA RequestCharges ==
  ASSUME IInv, Ledger!TypeOK, ChargeInv, NEW h \in Handlers,
         \/ ReserveCapacity(h) \/ EvaluateAuthorization(h)
         \/ CreatePendingExecution(h) \/ MarkChallenge(h)
         \/ DirectReserve(h) \/ DirectEvaluate(h) \/ DirectMarkChallenge(h)
  PROVE  ChargeInv'
<1>. USE DEF IInv, ProgramCounters, DirectCounters, Owing
<1>1. Quiet(h, handler'[h])
  BY RequestIsQuiet
<1>2. handler'[h].pc \notin Owing
  BY AtStep, GotoStep, ReturnStep DEF ReserveCapacity, EvaluateAuthorization,
     CreatePendingExecution, MarkChallenge, DirectReserve, DirectEvaluate,
     DirectMarkChallenge, Idle
<1>3. ReservesAsAsked' /\ consumed' = consumed
  <2>1. CASE ReserveCapacity(h) \/ DirectReserve(h)
    BY <2>1, AtStep, HoldCharges, SameLedger DEF ReserveCapacity, DirectReserve, ChargeInv
  <2>. QED
    BY <2>1, SameLedger DEF EvaluateAuthorization, CreatePendingExecution, MarkChallenge,
       DirectEvaluate, DirectMarkChallenge, ChargeInv, ghosts
<1>. QED
  BY <1>1, <1>2, <1>3, QuietCharges

LEMMA CloseCharges ==
  ASSUME IInv, Ledger!TypeOK, ChargeInv, NEW h \in Handlers,
         \/ ReleaseReservation(h) \/ MarkClosed(h) \/ MarkReleased(h)
         \/ ReleaseFailed(h) \/ MarkFailed(h) \/ DirectRelease(h)
  PROVE  ChargeInv'
<1>. USE DEF IInv, ProgramCounters, DirectCounters, Owing
<1>1. Quiet(h, handler'[h])
  BY CloseIsQuiet
<1>2. handler'[h].pc \notin Owing
  BY AtStep, GotoStep, ReturnStep DEF ReleaseReservation, MarkClosed, MarkReleased,
     ReleaseFailed, MarkFailed, DirectRelease, ReleaseThen, Idle
<1>3. ReservesAsAsked' /\ consumed' = consumed
  <2>1. CASE ReleaseReservation(h) \/ ReleaseFailed(h) \/ DirectRelease(h)
    BY <2>1, AtStep, HoldCharges, SameLedger
       DEF ReleaseReservation, ReleaseFailed, DirectRelease, ReleaseThen, ChargeInv, ghosts
  <2>. QED
    BY <2>1, SameLedger DEF MarkClosed, MarkReleased, MarkFailed, ChargeInv, ghosts
<1>. QED
  BY <1>1, <1>2, <1>3, QuietCharges

LEMMA ReadCharges ==
  ASSUME IInv, Ledger!TypeOK, ChargeInv, NEW h \in Handlers,
         ReadIntent(h) \/ ReadBack(h) \/ DirectDecide(h)
  PROVE  ChargeInv'
<1>. USE DEF IInv, ProgramCounters, DirectCounters, Owing
<1>1. Quiet(h, handler'[h])
  BY ReadIsQuiet
<1>2. handler'[h].pc \notin Owing
  BY AtStep, GotoStep, ReturnStep DEF ReadIntent, ReadBack, DirectDecide, Idle
<1>3. ReservesAsAsked' /\ consumed' = consumed
  BY SameLedger DEF ReadIntent, ReadBack, DirectDecide, ChargeInv, ghosts
<1>. QED
  BY <1>1, <1>2, <1>3, QuietCharges

LEMMA SettlingCharges ==
  ASSUME IInv, Ledger!TypeOK, ChargeInv, NEW h \in Handlers,
         \/ CreateActionReceipt(h, "createReceipt", "markSettled")
         \/ CreateActionReceipt(h, "directReceipt", "directSettled")
         \/ MarkSettled(h) \/ DirectMarkSettled(h) \/ MarkResumed(h) \/ Notify(h)
  PROVE  ChargeInv'
<1>. USE DEF IInv, ProgramCounters, DirectCounters, Owing
<1>1. Quiet(h, handler'[h])
  BY SettleIsQuiet
<1>2. handler'[h].pc \in Owing => handler[h].pc \in Owing
  BY AtStep, GotoStep, ReturnStep DEF CreateActionReceipt, MarkSettled, DirectMarkSettled,
     MarkResumed, Notify, Idle
<1>3. ReservesAsAsked' /\ consumed' = consumed
  BY SameLedger DEF CreateActionReceipt, MarkSettled, DirectMarkSettled, MarkResumed, Notify,
     ChargeInv, ghosts
<1>. QED
  BY <1>1, <1>2, <1>3, QuietCharges

\* The charge itself, by either flow.
LEMMA ChargeCharges ==
  ASSUME IInv, Ledger!TypeOK, ChargeInv, NEW h \in Handlers,
         ChargeReservation(h) \/ DirectCharge(h)
  PROVE  ChargeInv'
<1>. USE DEF IInv, ProgramCounters, DirectCounters, Owing
<1> DEFINE a == handler[h].action
<1>1. Quiet(h, handler'[h])
  BY SettleIsQuiet
<1>2. handler[h].pc \in Owing /\ handler'[h].pc \notin Owing /\ a \in Actions
  BY AtStep, GotoStep, ReturnStep DEF ChargeReservation, DirectCharge, Idle
<1>3. /\ handler' = [handler EXCEPT ![h] = handler'[h]]
      /\ executed' = executed
      /\ asked' = asked
  BY <1>1 DEF Quiet, QuietWrites, ChargeReservation, DirectCharge, ghosts
<1>4. CASE Ledger!Settle(a, reservation[a].holding)
  BY <1>2, <1>3, <1>4, PayCharges
<1>5. CASE UNCHANGED ledger
  BY <1>1, <1>2, <1>3, <1>5, SameLedger, QuietCharges DEF ChargeInv
<1>. QED
  BY <1>4, <1>5 DEF ChargeReservation, DirectCharge

\* An execution that succeeds is owed; one whose answer is lost, or that is
\* refused, is not.
LEMMA ExecutionCharges ==
  ASSUME IInv, Ledger!TypeOK, ChargeInv, NEW h \in Handlers, NEW outcome \in RailOutcomes,
         Execute(h, outcome) \/ DirectExecute(h, outcome)
  PROVE  ChargeInv'
<1>. USE DEF IInv, ProgramCounters, DirectCounters, Owing
<1> DEFINE a == handler[h].action
<1>1. /\ handler[h].pc \in Executing /\ a \in Actions
      /\ executed' = [executed EXCEPT ![a] = IF outcome = "refused" THEN @ ELSE @ + 1]
      /\ UNCHANGED <<ledger, asked>>
  BY AtStep DEF Execute, DirectExecute, Executing
<1>2. /\ handler' = [handler EXCEPT ![h] = handler'[h]] /\ handler'[h].action = a
      /\ outcome = "ok" => handler'[h].pc \in {"createReceipt", "directReceipt"}
      /\ outcome # "ok" => handler'[h].pc \in {"undo", "directRelease"}
  BY AtStep, GotoStep DEF Execute, DirectExecute
<1>3. CASE outcome = "ok"
  <2>1. executed' = [executed EXCEPT ![a] = @ + 1]
    BY <1>1, <1>3
  <2>. QED
    BY <1>1, <1>2, <1>3, <2>1, ExecuteCharges DEF Executing
<1>4. CASE outcome # "ok"
  <2>1. executed' = executed \/ executed' = [executed EXCEPT ![a] = @ + 1]
    BY <1>1 DEF FlowTypes
  <2>. QED
    BY <1>1, <1>2, <1>4, <2>1, SameLedger, MoveCharges DEF ChargeInv, AskedGrows
<1>. QED
  BY <1>3, <1>4

\* Opening, applying and finalizing leave the ledger and the executions alone,
\* and the handler they start or move owes nothing.
LEMMA SessionCharges ==
  ASSUME IInv, Ledger!TypeOK, ChargeInv, NEW h \in Handlers,
         \/ CreateApprovalRequest(h) \/ DirectOpenSession(h)
         \/ CloseSession(h) \/ DirectResume(h)
         \/ \E result \in Results : DirectApply(h, result)
  PROVE  ChargeInv'
<1>. USE DEF IInv, ProgramCounters, DirectCounters, Owing
<1>1. UNCHANGED <<ledger, asked>> /\ executed' = executed
  BY DEF CreateApprovalRequest, DirectOpenSession, CloseSession, DirectResume, DirectApply, ghosts
<1>2. handler' = [handler EXCEPT ![h] = handler'[h]] /\ handler'[h].pc \notin Owing
  <2>1. CASE CreateApprovalRequest(h) \/ DirectOpenSession(h)
    BY <2>1, AtStep, GotoStep DEF CreateApprovalRequest, DirectOpenSession
  <2>2. ASSUME NEW result \in Results, DirectApply(h, result)
        PROVE  handler' = [handler EXCEPT ![h] = handler'[h]] /\ handler'[h].pc \notin Owing
    BY <2>2, AtStep, GotoStep DEF DirectApply
  <2>3. CASE CloseSession(h)
    BY <2>3, AtStep, ReturnStep DEF CloseSession, FlowTypes, HandlerRecord, Idle
  <2>4. CASE DirectResume(h)
    BY <2>4, AtStep, ReturnStep DEF DirectResume, FlowTypes, HandlerRecord, Idle
  <2>. QED
    BY <2>1, <2>2, <2>3, <2>4
<1>. QED
  BY <1>1, <1>2, SameLedger, MoveCharges DEF ChargeInv, AskedGrows

LEMMA CallCharges ==
  ASSUME IInv, Ledger!TypeOK, ChargeInv, NEW a \in Actions,
         \/ ResumeApprovalSession(a)
         \/ \E h \in Handlers :
              \/ CreateIntent(h, a) \/ CreateDirectIntent(h, a) \/ StartResume(h, a)
              \/ \E result \in Results : ApplyApprovalResult(h, a, result)
  PROVE  ChargeInv'
<1>. USE DEF IInv, Owing
<1>1. UNCHANGED <<ledger, asked>> /\ executed' = executed
  BY DEF ResumeApprovalSession, CreateIntent, CreateDirectIntent, StartResume,
     ApplyApprovalResult, ghosts
<1>2. \/ handler' = handler
      \/ \E h \in Handlers : /\ handler' = [handler EXCEPT ![h] = handler'[h]]
                              /\ handler'[h].pc \notin Owing
  <2>1. ASSUME NEW h \in Handlers, NEW pc \in {"reserve", "directReserve", "readIntent", "close"},
               NEW decision, Start(h, a, pc, decision)
        PROVE  handler' = [handler EXCEPT ![h] = handler'[h]] /\ handler'[h].pc \notin Owing
    BY <2>1 DEF Start, FlowTypes
  <2>. QED
    BY <2>1 DEF ResumeApprovalSession, CreateIntent, CreateDirectIntent, StartResume,
       ApplyApprovalResult
<1>3. handler' = handler => Steady
  BY DEF Steady
<1>. QED
  BY <1>1, <1>2, <1>3, SameLedger, MoveCharges, SteadyCharges DEF ChargeInv, AskedGrows

\* A crash, which forgets what handlers owe, and a stuttering step.
LEMMA CrashCharges ==
  ASSUME IInv, Ledger!TypeOK, ChargeInv, Crash \/ UNCHANGED vars
  PROVE  ChargeInv'
<1>1. UNCHANGED <<ledger, asked>> /\ executed' = executed
  BY DEF Crash, vars, ghosts
<1>2. Steady
  BY DEF Crash, vars, Steady, Owing, Idle
<1>. QED
  BY <1>1, <1>2, SameLedger, SteadyCharges DEF ChargeInv, AskedGrows, IInv

LEMMA NextCharges == IInv /\ Ledger!TypeOK /\ ChargeInv /\ [DirectNext]_vars => ChargeInv'
<1>. SUFFICES ASSUME IInv, Ledger!TypeOK, ChargeInv, [DirectNext]_vars PROVE ChargeInv'
  OBVIOUS
<1>1. CASE NewCall
  BY <1>1, CallCharges DEF NewCall
<1>2. ASSUME NEW h \in Handlers, HandlerStep(h) PROVE ChargeInv'
  <2>1. CASE RequestStep(h)
    BY <2>1, RequestCharges, SessionCharges DEF RequestStep
  <2>2. CASE CloseStep(h)
    BY <2>2, CloseCharges, SessionCharges DEF CloseStep
  <2>3. CASE ResumeStep(h)
    BY <2>3, ReadCharges, CloseCharges, SettlingCharges, ChargeCharges, ExecutionCharges
       DEF ResumeStep
  <2>. QED
    BY <1>2, <2>1, <2>2, <2>3 DEF HandlerStep
<1>3. ASSUME NEW h \in Handlers, DirectStep(h) PROVE ChargeInv'
  BY <1>3, RequestCharges, SessionCharges, ReadCharges, CloseCharges, SettlingCharges,
     ChargeCharges, ExecutionCharges DEF DirectStep
<1>. QED
  BY <1>1, <1>2, <1>3, CallCharges, CrashCharges DEF DirectNext, Next

LEMMA InitCharges == Init => ChargeInv
<1>. SUFFICES ASSUME Init PROVE ChargeInv
  OBVIOUS
<1>1. ReservesAsAsked
  BY DEF Init, Ledger!Init, Ledger!None, ReservesAsAsked
<1>2. ASSUME NEW l \in Ledger!Lines, NEW U \in Units
      PROVE  Balanced(l, U)
  <2>1. OwedUnits(U) = {}
    BY DEF Init, OwedUnits, Owing, Idle
  <2>2. \A a \in Actions : 1..executed[a] = {}
    BY DEF Init
  <2>3. DoneUnits(U) = {}
    BY <2>2 DEF DoneUnits
  <2>4. consumed[l] = 0
    BY DEF Init, Ledger!Init
  <2>. QED
    BY <2>1, <2>3, <2>4, FS_EmptySet DEF Balanced
<1>. QED
  BY <1>1, <1>2 DEF ChargeInv, OwedWasExecuted, Balanced

\* A line is charged at most once for each execution, and at most what was reserved
\* for it, whatever is rejected, refused, repeated, replaced by other terms or lost
\* in a crash: a handler charges once for what it has executed itself
\* (ChargedWasExecuted; runtime.ts:989, 1047).
THEOREM ChargesWereExecuted == DirectSpec => []ChargedWasExecuted
<1>1. TypeOK => Ledger!TypeOK
  BY DEF TypeOK
<1>2. Ledger!TypeOK /\ ChargeInv => ChargedWasExecuted
  <2> SUFFICES ASSUME Ledger!TypeOK, ChargeInv, NEW l \in Ledger!Lines
      PROVE  consumed[l] <= Cardinality(ExecutedUnits(l))
    BY DEF ChargedWasExecuted
  <2>1. PICK U \in Units : U = [a \in Actions |-> AskedUnits(a, l)]
    BY DEF Units, AskedUnits
  <2>2. Covers(U, l) /\ DoneUnits(U) = ExecutedUnits(l)
    BY <2>1 DEF Covers, DoneUnits, ExecutedUnits
  <2>3. Balanced(l, U) /\ consumed[l] \in Nat
    BY <2>2 DEF ChargeInv, OwedWasExecuted, Balanced, Ledger!TypeOK
  <2>4. Cardinality(OwedUnits(U)) \in Nat /\ Cardinality(DoneUnits(U)) \in Nat
    BY <2>3, FS_CardinalityType DEF Balanced
  <2>. QED
    BY <2>2, <2>3, <2>4 DEF Balanced
<1>. QED
  BY <1>1, <1>2, InitCharges, NextCharges, Invariant, TypeCorrect, PTL DEF DirectSpec

-----------------------------------------------------------------------------
(* What is shown as closed holds nothing, while no action is requested      *)
(* twice: then a reservation that was released is not made again.           *)

StateOf(a) == reservation[a].state

Reserving == {"reserve", "directReserve"}
Closing == {"markClosed", "markReleased"}

Closed(a) == pending[a] = "released" \/ intent[a] \in {"rejected", "expired"}

ClosedInv ==
  \A a \in Actions :
    /\ RequestsLeft(a) = AllRequests => StateOf(a) = "none"
    /\ \A h \in Handlers : On(h, a) =>
         /\ handler[h].pc \in Reserving => StateOf(a) = "none"
         /\ handler[h].pc \in Closing => StateOf(a) = "released"
    /\ Closed(a) => StateOf(a) = "released"

\* Reservations are settled and released, and none is made.
Onward ==
  \A a \in Actions :
    \/ StateOf(a)' = StateOf(a)
    \/ StateOf(a) = "reserved" /\ StateOf(a)' \in {"settled", "released"}

LEMMA SameStates == ASSUME UNCHANGED ledger PROVE Onward
BY DEF ledger, Onward, StateOf

LEMMA CloseStates ==
  ASSUME Ledger!TypeOK, NEW a \in Actions
  PROVE  /\ Ledger!Settle(a, reservation[a].holding) => Onward /\ StateOf(a)' = "settled"
         /\ Ledger!Release(a, reservation[a].holding) => Onward /\ StateOf(a)' = "released"
<1>1. DOMAIN reservation = Actions
  BY DEF Ledger!TypeOK
<1>2. ASSUME NEW s \in {"settled", "released"}, Ledger!PutState(a, s),
             reservation[a].state = "reserved"
      PROVE  Onward /\ StateOf(a)' = s
  BY <1>1, <1>2 DEF Ledger!PutState, Onward, StateOf
<1>. QED
  BY <1>2 DEF Ledger!Settle, Ledger!Release

LEMMA ReserveStates ==
  ASSUME Ledger!TypeOK, NEW a \in Actions,
         ReserveFor(a)
  PROVE  StateOf(a)' = "reserved" /\ \A b \in Actions : b # a => StateOf(b)' = StateOf(b)
<1>1. DOMAIN reservation = Actions
  BY DEF Ledger!TypeOK
<1>. QED
  BY <1>1 DEF ReserveFor, Ledger!Reserve, StateOf

\* A step that makes no reservation, and closes only what is released.
LEMMA ClosedKept ==
  ASSUME ClosedInv, Onward,
         \A a \in Actions : RequestsLeft(a)' = AllRequests => RequestsLeft(a) = AllRequests,
         \A g \in Handlers, a \in Actions :
           On(g, a)' /\ handler'[g].pc \in Reserving =>
             (On(g, a) /\ handler[g].pc \in Reserving) \/ StateOf(a)' = "none",
         \A g \in Handlers, a \in Actions :
           On(g, a)' /\ handler'[g].pc \in Closing =>
             (On(g, a) /\ handler[g].pc \in Closing) \/ StateOf(a)' = "released",
         \A a \in Actions : Closed(a)' => Closed(a) \/ StateOf(a)' = "released"
  PROVE  ClosedInv'
<1>. SUFFICES ASSUME NEW a \in Actions
     PROVE  /\ RequestsLeft(a)' = AllRequests => StateOf(a)' = "none"
            /\ \A h \in Handlers : On(h, a)' =>
                 /\ handler'[h].pc \in Reserving => StateOf(a)' = "none"
                 /\ handler'[h].pc \in Closing => StateOf(a)' = "released"
            /\ Closed(a)' => StateOf(a)' = "released"
  BY DEF ClosedInv, AllRequests
<1>1. /\ StateOf(a) = "none" => StateOf(a)' = "none"
      /\ StateOf(a) = "released" => StateOf(a)' = "released"
  BY DEF Onward
<1>. QED
  BY <1>1 DEF ClosedInv

\* One handler moves.
LEMMA ClosedMove ==
  ASSUME FlowTypes, ClosedInv, Onward, NEW h \in Handlers,
         handler' = [handler EXCEPT ![h] = handler'[h]],
         \A a \in Actions : RequestsLeft(a)' = RequestsLeft(a),
         handler'[h].pc \notin Reserving,
         handler'[h].pc \in Closing => reservation'[handler'[h].action].state = "released",
         \A a \in Actions : Closed(a)' => Closed(a) \/ StateOf(a)' = "released"
  PROVE  ClosedInv'
<1>1. \A g \in Handlers : g # h => handler'[g] = handler[g]
  BY DEF FlowTypes
<1>2. \A g \in Handlers, a \in Actions :
        On(g, a)' /\ handler'[g].pc \in Closing =>
          (On(g, a) /\ handler[g].pc \in Closing) \/ StateOf(a)' = "released"
  BY <1>1 DEF On, StateOf
<1>3. \A g \in Handlers, a \in Actions :
        On(g, a)' /\ handler'[g].pc \in Reserving => On(g, a) /\ handler[g].pc \in Reserving
  BY <1>1 DEF On
<1>. QED
  BY <1>2, <1>3, ClosedKept

\* Nothing more is shown as closed.
NothingCloses == \A a \in Actions : Closed(a)' => Closed(a)

LEMMA SameRecords ==
  ASSUME intent' = intent, pending' = pending
  PROVE  NothingCloses
BY DEF NothingCloses, Closed

\* A quiet step that makes no reservation.
LEMMA QuietCloses ==
  ASSUME FlowTypes, ClosedInv, Onward, NEW h \in Handlers, Quiet(h, handler'[h]),
         handler'[h].pc \notin Reserving,
         handler'[h].pc \in Closing => reservation'[handler'[h].action].state = "released",
         \A a \in Actions : Closed(a)' => Closed(a) \/ StateOf(a)' = "released"
  PROVE  ClosedInv'
<1>1. \A a \in Actions : RequestsLeft(a)' = RequestsLeft(a)
  BY DEF Quiet, QuietWrites, bounds, RequestsLeft
<1>. QED
  BY <1>1, ClosedMove DEF Quiet

LEMMA ReserveCloses ==
  ASSUME IInv, Ledger!TypeOK, ClosedInv, NEW h \in Handlers, NEW a \in Actions,
         handler[h].action = a, handler[h].pc \in Reserving, RequestedOnce(a),
         ReserveFor(a),
         handler' = [handler EXCEPT ![h] = handler'[h]],
         handler'[h].pc \in {"evaluate", "directEvaluate"},
         UNCHANGED <<records, bounds>>
  PROVE  ClosedInv'
<1>. USE DEF IInv
<1>1. /\ StateOf(a)' = "reserved"
      /\ \A b \in Actions : b # a => StateOf(b)' = StateOf(b)
  BY ReserveStates
<1>2. On(h, a) /\ \A g \in Handlers : g # h => ~On(g, a)
  BY DEF On, FirstOpens, Reserving, Opening, Idle
<1>3. StateOf(a) = "none"
  BY <1>2 DEF ClosedInv
<1>4. /\ \A b \in Actions : RequestsLeft(b)' = RequestsLeft(b)
      /\ \A b \in Actions : Closed(b)' <=> Closed(b)
  BY DEF records, bounds, RequestsLeft, Closed
<1>5. \A g \in Handlers : g # h => handler'[g] = handler[g]
  BY DEF FlowTypes
<1>6. RequestsLeft(a) # AllRequests
  BY <1>2 DEF FirstOpens, AllRequests
<1>7. SUFFICES ASSUME NEW b \in Actions
      PROVE  /\ RequestsLeft(b)' = AllRequests => StateOf(b)' = "none"
             /\ \A g \in Handlers : On(g, b)' =>
                  /\ handler'[g].pc \in Reserving => StateOf(b)' = "none"
                  /\ handler'[g].pc \in Closing => StateOf(b)' = "released"
             /\ Closed(b)' => StateOf(b)' = "released"
  BY DEF ClosedInv, AllRequests
<1>8. CASE b = a
  BY <1>2, <1>3, <1>4, <1>5, <1>6, <1>8 DEF ClosedInv, On, Reserving, Closing
<1>9. CASE b # a
  BY <1>1, <1>2, <1>4, <1>5, <1>9 DEF ClosedInv, On, Reserving, Closing
<1>. QED
  BY <1>8, <1>9

\* A handler that opens an action has been let in by its only request.
LEMMA OpenedOnce ==
  ASSUME IInv, AllRequests = 1, NEW a \in Actions, NEW h \in Handlers, On(h, a)
  PROVE  RequestedOnce(a)
<1>1. RequestsLeft(a) <= AllRequests /\ RequestsLeft(a) # AllRequests
  BY DEF IInv, FirstOpens, AllRequests
<1>2. RequestsLeft(a) \in Nat
  BY DEF IInv, FlowTypes, RequestsLeft, Operations
<1>3. RequestsLeft(a) = 0
  BY <1>1, <1>2
<1>. QED
  BY <1>3 DEF RequestedOnce, RequestsLeft, AllRequests, Operations

LEMMA RequestCloses ==
  ASSUME IInv, Ledger!TypeOK, ClosedInv, AllRequests = 1, NEW h \in Handlers,
         \/ ReserveCapacity(h) \/ EvaluateAuthorization(h)
         \/ CreatePendingExecution(h) \/ MarkChallenge(h)
         \/ DirectReserve(h) \/ DirectEvaluate(h) \/ DirectMarkChallenge(h)
  PROVE  ClosedInv'
<1>. USE DEF IInv, ProgramCounters, DirectCounters, Reserving, Closing
<1> DEFINE a == handler[h].action
<1>1. Quiet(h, handler'[h])
  BY RequestIsQuiet
<1>2. a \in Actions /\ handler[h] # Idle
  BY AtStep DEF ReserveCapacity, EvaluateAuthorization, CreatePendingExecution,
     MarkChallenge, DirectReserve, DirectEvaluate, DirectMarkChallenge
<1>3. handler'[h].pc \notin Reserving \cup Closing
  BY AtStep, GotoStep, ReturnStep DEF ReserveCapacity, EvaluateAuthorization,
     CreatePendingExecution, MarkChallenge, DirectReserve, DirectEvaluate,
     DirectMarkChallenge, Idle
<1>4. CASE UNCHANGED ledger
  <2>1. NothingCloses
    BY <1>2, SameRecords DEF ReserveCapacity, EvaluateAuthorization, CreatePendingExecution,
       MarkChallenge, DirectReserve, DirectEvaluate, DirectMarkChallenge, records,
       SetPending, SetIntent, NothingCloses, Closed, FlowTypes
  <2>. QED
    BY <1>1, <1>3, <1>4, <2>1, SameStates, QuietCloses DEF NothingCloses
<1>5. CASE ~UNCHANGED ledger
  <2>1. /\ ReserveFor(a)
        /\ At(h, "reserve") \/ At(h, "directReserve")
        /\ UNCHANGED <<records, bounds>>
    BY <1>5 DEF ReserveCapacity, EvaluateAuthorization, CreatePendingExecution,
       MarkChallenge, DirectReserve, DirectEvaluate, DirectMarkChallenge
  <2>2. handler'[h].pc \in {"evaluate", "directEvaluate"}
    BY <1>5, AtStep, GotoStep DEF ReserveCapacity, EvaluateAuthorization,
       CreatePendingExecution, MarkChallenge, DirectReserve, DirectEvaluate, DirectMarkChallenge
  <2>3. RequestedOnce(a)
    BY <1>2, OpenedOnce DEF On
  <2>. QED
    BY <1>1, <1>2, <2>1, <2>2, <2>3, ReserveCloses DEF Quiet, At
<1>. QED
  BY <1>4, <1>5

\* A handler marks an action closed only after releasing its reservation itself.
LEMMA CloseCloses ==
  ASSUME IInv, Ledger!TypeOK, ClosedInv, NEW h \in Handlers,
         \/ ReleaseReservation(h) \/ MarkClosed(h) \/ MarkReleased(h)
         \/ ReleaseFailed(h) \/ MarkFailed(h) \/ DirectRelease(h)
  PROVE  ClosedInv'
<1>. USE DEF IInv, ProgramCounters, DirectCounters, Reserving, Closing
<1>1. Quiet(h, handler'[h])
  BY CloseIsQuiet
<1>2. PICK a \in Actions : a = handler[h].action
  BY AtStep DEF ReleaseReservation, MarkClosed, MarkReleased, ReleaseFailed, MarkFailed,
     DirectRelease
<1>3. handler[h] # Idle
  BY AtStep DEF ReleaseReservation, MarkClosed, MarkReleased, ReleaseFailed, MarkFailed,
     DirectRelease
<1>4. ASSUME NothingCloses, Onward, handler'[h].pc \notin Reserving,
             handler'[h].pc \in Closing => handler'[h].action = a /\ StateOf(a)' = "released"
      PROVE  ClosedInv'
  BY <1>1, <1>4, QuietCloses DEF NothingCloses, StateOf
<1>5. CASE ReleaseReservation(h)
  <2>1. NothingCloses
    BY <1>5, SameRecords DEF ReleaseReservation, records
  <2>2. CASE Return(h) /\ UNCHANGED ledger
    BY <1>4, <2>1, <2>2, SameStates, ReturnStep DEF Idle
  <2>3. CASE Ledger!Release(a, reservation[a].holding) /\ Goto(h, "markClosed")
    <3>1. Onward /\ StateOf(a)' = "released"
      BY <2>3, CloseStates
    <3>2. handler'[h].pc = "markClosed" /\ handler'[h].action = a
      BY <1>2, <1>5, <2>3, AtStep, GotoStep DEF ReleaseReservation
    <3>. QED
      BY <1>4, <2>1, <3>1, <3>2
  <2>. QED
    BY <1>2, <1>5, <2>2, <2>3 DEF ReleaseReservation, ReleaseThen
<1>6. CASE ReleaseFailed(h) \/ DirectRelease(h)
  <2>1. NothingCloses
    BY <1>6, SameRecords DEF ReleaseFailed, DirectRelease, records
  <2>2. Onward
    BY <1>2, <1>6, CloseStates, SameStates DEF ReleaseFailed, DirectRelease, ReleaseThen
  <2>3. handler'[h].pc \notin Reserving \cup Closing
    <3>1. CASE Return(h)
      BY <3>1, ReturnStep DEF Idle
    <3>2. CASE ReleaseFailed(h) /\ Goto(h, "markFailed")
      BY <3>2, AtStep, GotoStep DEF ReleaseFailed
    <3>. QED
      BY <1>6, <3>1, <3>2 DEF ReleaseFailed, DirectRelease, ReleaseThen
  <2>. QED
    BY <1>4, <2>1, <2>2, <2>3
<1>7. CASE MarkClosed(h) \/ MarkReleased(h)
  <2>1. Onward
    BY <1>7, SameStates DEF MarkClosed, MarkReleased
  <2>2. handler[h].pc \in Closing
    BY <1>7 DEF MarkClosed, MarkReleased, At
  <2>3. StateOf(a) = "released"
    BY <1>2, <1>3, <2>2 DEF ClosedInv, On
  <2>4. StateOf(a)' = "released"
    BY <2>1, <2>3 DEF Onward
  <2>5. \A b \in Actions : b # a => (Closed(b)' => Closed(b))
    BY <1>2, <1>7 DEF MarkClosed, MarkReleased, SetIntent, SetPending, Closed, FlowTypes
  <2>6. /\ handler'[h].pc \notin Reserving
        /\ handler'[h].pc \in Closing => handler'[h].action = a
    <3>1. CASE MarkClosed(h)
      BY <1>2, <3>1, AtStep, GotoStep DEF MarkClosed
    <3>2. CASE MarkReleased(h)
      BY <3>2, ReturnStep DEF MarkReleased, Idle
    <3>. QED
      BY <1>7, <3>1, <3>2
  <2>7. \A b \in Actions : Closed(b)' => Closed(b) \/ StateOf(b)' = "released"
    BY <2>4, <2>5
  <2>. QED
    BY <1>1, <2>1, <2>4, <2>6, <2>7, QuietCloses DEF StateOf
<1>8. CASE MarkFailed(h)
  <2>1. Onward
    BY <1>8, SameStates DEF MarkFailed
  <2>2. NothingCloses
    BY <1>2, <1>8 DEF MarkFailed, SetPending, NothingCloses, Closed, FlowTypes
  <2>3. handler'[h].pc \notin Reserving \cup Closing
    BY <1>8, ReturnStep DEF MarkFailed, Idle
  <2>. QED
    BY <1>4, <2>1, <2>2, <2>3
<1>. QED
  BY <1>5, <1>6, <1>7, <1>8

\* The other steps of a handler neither reserve nor close.
LEMMA ReadCloses ==
  ASSUME IInv, Ledger!TypeOK, ClosedInv, NEW h \in Handlers,
         ReadIntent(h) \/ ReadBack(h) \/ DirectDecide(h)
  PROVE  ClosedInv'
<1>. USE DEF IInv, ProgramCounters, DirectCounters, Reserving, Closing
<1>1. Quiet(h, handler'[h])
  BY ReadIsQuiet
<1>2. Onward
  BY SameStates DEF ReadIntent, ReadBack, DirectDecide
<1>3. NothingCloses
  <2>1. CASE ReadIntent(h) \/ DirectDecide(h)
    BY <2>1, SameRecords DEF ReadIntent, DirectDecide, records
  <2>2. CASE ReadBack(h)
    BY <2>2, AtStep DEF ReadBack, SetPending, NothingCloses, Closed, FlowTypes
  <2>. QED
    BY <2>1, <2>2
<1>4. handler'[h].pc \notin Reserving \cup Closing
  BY AtStep, GotoStep, ReturnStep DEF ReadIntent, ReadBack, DirectDecide, Idle
<1>. QED
  BY <1>1, <1>2, <1>3, <1>4, QuietCloses DEF NothingCloses

LEMMA SettleCloses ==
  ASSUME IInv, Ledger!TypeOK, ClosedInv, NEW h \in Handlers,
         \/ CreateActionReceipt(h, "createReceipt", "markSettled")
         \/ CreateActionReceipt(h, "directReceipt", "directSettled")
         \/ MarkSettled(h) \/ ChargeReservation(h) \/ MarkResumed(h) \/ Notify(h)
         \/ DirectMarkSettled(h) \/ DirectCharge(h)
  PROVE  ClosedInv'
<1>. USE DEF IInv, ProgramCounters, DirectCounters, Reserving, Closing
<1>1. Quiet(h, handler'[h])
  BY SettleIsQuiet
<1>2. handler[h].action \in Actions
  BY AtStep DEF CreateActionReceipt, MarkSettled, ChargeReservation, MarkResumed, Notify,
     DirectMarkSettled, DirectCharge
<1>3. Onward
  BY <1>2, CloseStates, SameStates DEF CreateActionReceipt, MarkSettled, ChargeReservation,
     MarkResumed, Notify, DirectMarkSettled, DirectCharge
<1>4. NothingCloses
  <2>1. CASE MarkSettled(h) \/ MarkResumed(h) \/ DirectMarkSettled(h)
    BY <1>2, <2>1 DEF MarkSettled, MarkResumed, DirectMarkSettled, SetIntent, SetPending,
       NothingCloses, Closed, FlowTypes
  <2>. QED
    BY <2>1, SameRecords DEF CreateActionReceipt, ChargeReservation, Notify, DirectCharge, records
<1>5. handler'[h].pc \notin Reserving \cup Closing
  BY AtStep, GotoStep, ReturnStep DEF CreateActionReceipt, MarkSettled, ChargeReservation,
     MarkResumed, Notify, DirectMarkSettled, DirectCharge, Idle
<1>. QED
  BY <1>1, <1>3, <1>4, <1>5, QuietCloses DEF NothingCloses

LEMMA SessionCloses ==
  ASSUME IInv, ClosedInv, NEW h \in Handlers,
         \/ CreateApprovalRequest(h) \/ DirectOpenSession(h)
         \/ CloseSession(h) \/ DirectResume(h)
         \/ \E result \in Results : DirectApply(h, result)
         \/ \E outcome \in RailOutcomes : Execute(h, outcome) \/ DirectExecute(h, outcome)
  PROVE  ClosedInv'
<1>. USE DEF IInv, ProgramCounters, DirectCounters, Reserving, Closing
<1>1. UNCHANGED <<intent, pending, ledger, bounds>>
  BY DEF CreateApprovalRequest, DirectOpenSession, CloseSession, DirectResume, DirectApply,
     Execute, DirectExecute, records
<1>2. handler' = [handler EXCEPT ![h] = handler'[h]] /\ handler'[h].pc \notin Reserving \cup Closing
  <2>1. CASE CreateApprovalRequest(h) \/ DirectOpenSession(h)
    BY <2>1, AtStep, GotoStep DEF CreateApprovalRequest, DirectOpenSession
  <2>2. ASSUME NEW result \in Results, DirectApply(h, result)
        PROVE  handler' = [handler EXCEPT ![h] = handler'[h]] /\ handler'[h].pc \notin Reserving \cup Closing
    BY <2>2, AtStep, GotoStep DEF DirectApply
  <2>3. ASSUME NEW outcome \in RailOutcomes, Execute(h, outcome) \/ DirectExecute(h, outcome)
        PROVE  handler' = [handler EXCEPT ![h] = handler'[h]] /\ handler'[h].pc \notin Reserving \cup Closing
    BY <2>3, AtStep, GotoStep DEF Execute, DirectExecute
  <2>4. CASE CloseSession(h)
    BY <2>4, AtStep, ReturnStep DEF CloseSession, FlowTypes, HandlerRecord, Idle
  <2>5. CASE DirectResume(h)
    BY <2>5, AtStep, ReturnStep DEF DirectResume, FlowTypes, HandlerRecord, Idle
  <2>. QED
    BY <2>1, <2>2, <2>3, <2>4, <2>5
<1>3. Onward /\ NothingCloses /\ \A a \in Actions : RequestsLeft(a)' = RequestsLeft(a)
  BY <1>1, SameStates, SameRecords DEF bounds, RequestsLeft
<1>. QED
  BY <1>2, <1>3, ClosedMove DEF NothingCloses

\* The only request finds an action without a reservation.
LEMMA CreateCloses ==
  ASSUME IInv, ClosedInv, AllRequests = 1, NEW a \in Actions, NEW h \in Handlers,
         CreateIntent(h, a) \/ CreateDirectIntent(h, a)
  PROVE  ClosedInv'
<1>. USE DEF IInv
<1>1. /\ intent' = [intent EXCEPT ![a] = "created"] /\ pending' = pending /\ UNCHANGED ledger
      /\ \A b \in Actions : b # a => RequestsLeft(b)' = RequestsLeft(b)
      /\ RequestsLeft(a) \in Int /\ RequestsLeft(a)' = RequestsLeft(a) - 1
  BY CallSpends DEF CreateIntent, CreateDirectIntent, SetIntent, Operations
<1>2. RequestsLeft(a) = AllRequests
  <2>1. callsLeft[a]["request"] \in Nat /\ callsLeft[a]["direct"] \in Nat
    BY DEF FlowTypes, Operations
  <2>2. callsLeft[a]["request"] > 0 \/ callsLeft[a]["direct"] > 0
    BY DEF CreateIntent, CreateDirectIntent, Call
  <2>3. RequestsLeft(a) <= AllRequests
    BY DEF FirstOpens, AllRequests
  <2>4. RequestsLeft(a) >= 1
    BY <2>1, <2>2 DEF RequestsLeft
  <2>. QED
    BY <1>1, <2>3, <2>4
<1>3. StateOf(a) = "none"
  BY <1>2 DEF ClosedInv
<1>4. Onward
  BY <1>1, SameStates
<1>5. StateOf(a)' = "none"
  BY <1>3, <1>4 DEF Onward
<1>6. \A b \in Actions : RequestsLeft(b)' = AllRequests => RequestsLeft(b) = AllRequests
  BY <1>1, <1>2
<1>7. \A b \in Actions : Closed(b)' => Closed(b)
  BY <1>1 DEF Closed, FlowTypes
<1>8. \A g \in Handlers, b \in Actions :
        On(g, b)' => \/ g = h /\ b = a /\ handler'[g].pc \in Reserving
                     \/ On(g, b) /\ handler'[g].pc = handler[g].pc
  <2>1. ASSUME NEW pc \in Reserving, Start(h, a, pc, "none")
        PROVE  /\ handler'[h] = [pc |-> pc, action |-> a, decision |-> "none"]
               /\ \A g \in Handlers : g # h => handler'[g] = handler[g]
    BY <2>1 DEF Start, FlowTypes
  <2>2. /\ handler'[h].pc \in Reserving /\ handler'[h].action = a
        /\ \A g \in Handlers : g # h => handler'[g] = handler[g]
    BY <2>1 DEF CreateIntent, CreateDirectIntent, Reserving
  <2>. QED
    BY <2>2 DEF On
<1>. QED
  BY <1>4, <1>5, <1>6, <1>7, <1>8, ClosedKept DEF Reserving, Closing

LEMMA CallCloses ==
  ASSUME IInv, ClosedInv, NEW a \in Actions,
         \/ ResumeApprovalSession(a)
         \/ \E h \in Handlers :
              \/ StartResume(h, a)
              \/ \E result \in Results : ApplyApprovalResult(h, a, result)
  PROVE  ClosedInv'
<1>. USE DEF IInv, Reserving, Closing
<1>1. /\ UNCHANGED <<intent, pending, ledger>>
      /\ \A b \in Actions : RequestsLeft(b)' = RequestsLeft(b)
  BY CallSpends DEF ResumeApprovalSession, StartResume, ApplyApprovalResult, Operations
<1>2. \/ handler' = handler
      \/ \E h \in Handlers : /\ handler' = [handler EXCEPT ![h] = handler'[h]]
                              /\ handler'[h].pc \notin Reserving \cup Closing
  <2>1. ASSUME NEW h \in Handlers, NEW pc \in {"readIntent", "close"}, NEW decision,
               Start(h, a, pc, decision)
        PROVE  /\ handler' = [handler EXCEPT ![h] = handler'[h]]
               /\ handler'[h].pc \notin Reserving \cup Closing
    BY <2>1 DEF Start, FlowTypes
  <2>. QED
    BY <2>1 DEF ResumeApprovalSession, StartResume, ApplyApprovalResult
<1>3. Onward /\ NothingCloses
  BY <1>1, SameStates, SameRecords
<1>4. CASE handler' = handler
  BY <1>1, <1>3, <1>4, ClosedKept DEF NothingCloses, On
<1>. QED
  BY <1>1, <1>2, <1>3, <1>4, ClosedMove DEF NothingCloses

LEMMA CrashCloses ==
  ASSUME ClosedInv, Crash \/ UNCHANGED vars
  PROVE  ClosedInv'
<1>1. UNCHANGED <<intent, pending, ledger, callsLeft>>
  BY DEF Crash, vars, records, bounds
<1>2. Onward /\ NothingCloses /\ \A a \in Actions : RequestsLeft(a)' = RequestsLeft(a)
  BY <1>1, SameStates, SameRecords DEF RequestsLeft
<1>3. \A g \in Handlers, a \in Actions : On(g, a)' => On(g, a) /\ handler'[g] = handler[g]
  BY DEF Crash, vars, On
<1>. QED
  BY <1>2, <1>3, ClosedKept DEF NothingCloses

LEMMA NextCloses ==
  IInv /\ Ledger!TypeOK /\ AllRequests = 1 /\ ClosedInv /\ [DirectNext]_vars => ClosedInv'
<1>. SUFFICES ASSUME IInv, Ledger!TypeOK, AllRequests = 1, ClosedInv, [DirectNext]_vars
     PROVE  ClosedInv'
  OBVIOUS
<1>1. CASE NewCall
  BY <1>1, CallCloses, CreateCloses DEF NewCall
<1>2. ASSUME NEW h \in Handlers, HandlerStep(h) PROVE ClosedInv'
  <2>1. CASE RequestStep(h)
    BY <2>1, RequestCloses, SessionCloses DEF RequestStep
  <2>2. CASE CloseStep(h)
    BY <2>2, CloseCloses, SessionCloses DEF CloseStep
  <2>3. CASE ResumeStep(h)
    BY <2>3, ReadCloses, CloseCloses, SettleCloses, SessionCloses DEF ResumeStep
  <2>. QED
    BY <1>2, <2>1, <2>2, <2>3 DEF HandlerStep
<1>3. ASSUME NEW h \in Handlers, DirectStep(h) PROVE ClosedInv'
  BY <1>3, RequestCloses, SessionCloses, ReadCloses, CloseCloses, SettleCloses DEF DirectStep
<1>. QED
  BY <1>1, <1>2, <1>3, CreateCloses, CrashCloses DEF DirectNext, Next

\* While each action is requested once, by either flow, an action that is shown
\* as rejected, expired or released holds no capacity any more, also when results
\* contradict one another, the rail fails or the process dies (ClosedIsReleased;
\* runtime.ts:566-596).  A second request makes a new reservation beside the old
\* records, hence the assumption.
THEOREM ClosedHoldsNothing ==
  ASSUME Calls["request"] + Calls["direct"] = 1
  PROVE  DirectSpec => []ClosedIsReleased
<1>1. AllRequests = 1
  BY DEF AllRequests
<1>2. Init => ClosedInv
  BY DEF Init, Ledger!Init, Ledger!None, ClosedInv, Closed, On, StateOf
<1>3. TypeOK => Ledger!TypeOK
  BY DEF TypeOK
<1>4. ClosedInv => ClosedIsReleased
  BY DEF ClosedInv, ClosedIsReleased, Closed, StateOf
<1>. QED
  BY <1>1, <1>2, <1>3, <1>4, NextCloses, Invariant, TypeCorrect, PTL DEF DirectSpec

-----------------------------------------------------------------------------
(* What is shown as resumed is charged, while every action is requested     *)
(* once, gets one result, and nothing fails.  Then a session that granted   *)
(* or refused an action says so for good, only refused actions are          *)
(* released, and whoever shows an action as settled goes on to charge it.   *)

Calm ==
  /\ Calls["request"] = 1 /\ Calls["direct"] = 0
  /\ Consistent
  /\ RailOutcomes \subseteq {"ok"}
  /\ MaxCrashes = 0

\* What a handler does only after a failure, or in a direct call.
Faulty == DirectCounters \cup {"undo", "markFailed"}

\* What a handler does on an approval.
Granting == {"execute", "createReceipt", "markSettled", "charge", "markResumed", "notify"}

\* What a handler does once it has its decision.
Decided == Granting \cup {"readIntent", "readBack", "release", "markClosed", "markReleased"}

SessionCalm(a) ==
  /\ session[a].final = "granted" => session[a].result = "approved"
  /\ session[a].final = "prior" => session[a].result \notin {"none", "approved"}
  /\ session[a] # NoSession => StateOf(a) # "none"
  /\ StateOf(a) = "released" => session[a].final = "prior"

\* What holds of handler h on action a.
HandlerCalm(h, a) ==
  /\ handler[h].pc \notin Faulty
  /\ handler[h].pc = "close" => session[a].result \notin {"none", "approved"}
  /\ handler[h].pc = "release" => handler[h].decision # "approved"
  /\ handler[h].pc \in Granting => handler[h].decision = "approved"
  /\ handler[h].pc \in Decided =>
       session[a].final = (IF handler[h].decision = "approved" THEN "granted" ELSE "prior")
  /\ handler[h].pc \in {"evaluate", "openSession"} => StateOf(a) # "none"
  /\ handler[h].pc \in {"markResumed", "notify"} => StateOf(a) = "settled"

Reading(a) == \E h \in Handlers : On(h, a) /\ handler[h].pc = "readBack"
Charging(a) == \E h \in Handlers : On(h, a) /\ handler[h].pc = "charge"

ShownIn(a) == intent[a] = "settled" \/ pending[a] = "resumed"

CalmInv ==
  /\ crashesLeft = 0
  /\ \A a \in Actions :
       /\ SessionCalm(a)
       /\ ShownIn(a) \/ Reading(a) => StateOf(a) = "settled" \/ Charging(a)
       /\ \A h \in Handlers : On(h, a) => HandlerCalm(h, a)

\* A reservation that is made stays made, one that is settled stays settled.
Forward(a) ==
  /\ StateOf(a) # "none" => StateOf(a)' # "none"
  /\ StateOf(a) = "settled" => StateOf(a)' = "settled"

LEMMA OnwardIsForward == ASSUME Onward, NEW a \in Actions PROVE Forward(a)
BY DEF Onward, Forward

\* A session keeps its result and its decision.
SessionForward(a) ==
  /\ session[a].final # "none" => session'[a].final = session[a].final
  /\ session[a].result # "none" => session'[a].result = session[a].result

LEMMA HandlerKept ==
  ASSUME NEW g \in Handlers, NEW a \in Actions, HandlerCalm(g, a), SessionCalm(a),
         handler'[g] = handler[g], Forward(a), SessionForward(a)
  PROVE  HandlerCalm(g, a)'
BY DEF HandlerCalm, SessionCalm, Forward, SessionForward, Granting, Decided

\* One handler moves, and whatever it shows is charged or is being charged.
LEMMA CalmKept ==
  ASSUME CalmInv, NEW h \in Handlers, crashesLeft' = crashesLeft,
         \A g \in Handlers : g # h => handler'[g] = handler[g],
         \A a \in Actions : Forward(a),
         \A a \in Actions : SessionCalm(a)',
         \A a \in Actions, g \in Handlers : g # h /\ On(g, a) => SessionForward(a),
         \A a \in Actions : On(h, a)' =>
           HandlerCalm(h, a)' /\ (handler'[h].pc = "readBack" => ShownIn(a) \/ Reading(a)),
         \A a \in Actions : On(h, a) /\ handler[h].pc = "charge" => StateOf(a)' = "settled",
         \A a \in Actions : ShownIn(a)' =>
           ShownIn(a) \/ Reading(a) \/ StateOf(a)' = "settled" \/ Charging(a)'
  PROVE  CalmInv'
<1>. SUFFICES ASSUME NEW a \in Actions
     PROVE  /\ ShownIn(a)' \/ Reading(a)' => StateOf(a)' = "settled" \/ Charging(a)'
            /\ \A g \in Handlers : On(g, a)' => HandlerCalm(g, a)'
  BY DEF CalmInv
<1>1. \A g \in Handlers : g # h => (On(g, a)' <=> On(g, a))
  BY DEF On
<1>2. Charging(a) => Charging(a)' \/ StateOf(a)' = "settled"
  BY <1>1 DEF Charging
<1>3. StateOf(a) = "settled" => StateOf(a)' = "settled"
  BY DEF Forward
<1>4. Reading(a)' => ShownIn(a) \/ Reading(a)
  BY <1>1 DEF Reading
<1>5. ShownIn(a) \/ Reading(a) => StateOf(a) = "settled" \/ Charging(a)
  BY DEF CalmInv
<1>6. ASSUME NEW g \in Handlers, On(g, a)'
      PROVE  HandlerCalm(g, a)'
  <2>1. CASE g = h
    BY <1>6, <2>1
  <2>2. CASE g # h
    BY <1>1, <1>6, <2>2, HandlerKept DEF CalmInv
  <2>. QED
    BY <2>1, <2>2
<1>. QED
  BY <1>2, <1>3, <1>4, <1>5, <1>6

\* A handler that leaves the sessions alone.
LEMMA CalmMove ==
  ASSUME FlowTypes, CalmInv, NEW h \in Handlers, NEW a \in Actions, On(h, a),
         handler' = [handler EXCEPT ![h] = handler'[h]],
         handler'[h] # Idle => handler'[h].action = a /\ handler'[h].decision = handler[h].decision,
         UNCHANGED <<session, crashesLeft>>,
         \A b \in Actions : Forward(b),
         \A b \in Actions : StateOf(b)' = "released" =>
           StateOf(b) = "released" \/ session[b].final = "prior",
         handler'[h].pc \notin Faulty \cup {"close"},
         handler'[h].pc \in Decided => handler[h].pc \in Decided,
         handler'[h].pc \in Granting => handler[h].decision = "approved",
         handler'[h].pc = "release" => handler[h].decision # "approved",
         handler'[h].pc \in {"evaluate", "openSession"} => StateOf(a)' # "none",
         handler'[h].pc \in {"markResumed", "notify"} => StateOf(a)' = "settled",
         handler'[h].pc = "readBack" => ShownIn(a),
         handler[h].pc = "charge" => StateOf(a)' = "settled",
         \A b \in Actions : ShownIn(b)' =>
           ShownIn(b) \/ Reading(b) \/ StateOf(b)' = "settled" \/ Charging(b)'
  PROVE  CalmInv'
<1>1. /\ \A g \in Handlers : g # h => handler'[g] = handler[g]
      /\ crashesLeft' = crashesLeft
  BY DEF FlowTypes
<1>2. \A b \in Actions : SessionForward(b)
  BY DEF SessionForward
<1>3. \A b \in Actions : SessionCalm(b)'
  BY DEF CalmInv, SessionCalm, Forward, NoSession
<1>4. \A b \in Actions : On(h, b) \/ On(h, b)' => b = a
  BY DEF On
<1>5. HandlerCalm(h, a)
  BY DEF CalmInv
<1>6. On(h, a)' => HandlerCalm(h, a)'
  BY <1>5 DEF HandlerCalm, On
<1>. QED
  BY <1>1, <1>2, <1>3, <1>4, <1>6, CalmKept

\* As a handler is at a step.
LEMMA CalmAt ==
  ASSUME FlowTypes, CalmInv, NEW h \in Handlers, NEW pc \in ProgramCounters, At(h, pc)
  PROVE  /\ handler[h] # Idle /\ handler[h].pc = pc
         /\ \E a \in Actions : handler[h].action = a /\ On(h, a) /\ HandlerCalm(h, a)
<1>1. pc # "idle"
  BY DEF ProgramCounters, DirectCounters
<1>2. /\ handler[h] # Idle /\ handler[h].pc = pc
      /\ handler[h].action \in Actions /\ On(h, handler[h].action)
  BY <1>1, AtStep DEF On
<1>. QED
  BY <1>2 DEF CalmInv

\* Nothing is said to be settled that was not.
NothingShows == \A b \in Actions : ShownIn(b)' => ShownIn(b)

LEMMA RequestCalm ==
  ASSUME IInv, Ledger!TypeOK, ClosedInv, CalmInv, NEW h \in Handlers,
         \/ ReserveCapacity(h) \/ EvaluateAuthorization(h)
         \/ CreatePendingExecution(h) \/ MarkChallenge(h)
  PROVE  CalmInv'
<1>. USE DEF IInv, ProgramCounters, DirectCounters, Faulty, Decided, Granting
<1>1. Quiet(h, handler'[h])
  BY RequestIsQuiet
<1>2. PICK a \in Actions : handler[h].action = a /\ On(h, a) /\ HandlerCalm(h, a)
  BY CalmAt DEF ReserveCapacity, EvaluateAuthorization, CreatePendingExecution, MarkChallenge
<1>3. /\ handler' = [handler EXCEPT ![h] = handler'[h]]
      /\ handler'[h] # Idle => handler'[h].action = a /\ handler'[h].decision = handler[h].decision
      /\ UNCHANGED <<session, crashesLeft>>
  BY <1>1, <1>2 DEF Quiet, QuietWrites, bounds
<1>4. NothingShows
  BY <1>2 DEF ReserveCapacity, EvaluateAuthorization, CreatePendingExecution, MarkChallenge,
     NothingShows, ShownIn, SetIntent, SetPending, records, FlowTypes
<1>5. CASE UNCHANGED ledger
  <2>1. /\ \A b \in Actions : Forward(b)
        /\ \A b \in Actions : StateOf(b)' = StateOf(b)
    BY <1>5, SameStates, OnwardIsForward DEF StateOf, ledger
  <2>2. /\ handler[h].pc \in {"reserve", "evaluate", "createPending", "markChallenge"}
        /\ handler'[h].pc \in {"idle", "evaluate", "openSession", "markChallenge"}
        /\ handler'[h].pc = "evaluate" => ~UNCHANGED ledger
        /\ handler'[h].pc = "openSession" => handler[h].pc = "evaluate"
    <3>1. CASE ReserveCapacity(h) /\ Goto(h, "evaluate")
                 /\ ReserveFor(a)
      BY <1>5, <2>1, <3>1, ReserveStates, <1>2, AtStep DEF ReserveCapacity, ClosedInv, Reserving
    <3>2. CASE Return(h)
      BY <3>2, ReturnStep, AtStep DEF ReserveCapacity, EvaluateAuthorization,
         CreatePendingExecution, MarkChallenge, Idle
    <3>3. CASE EvaluateAuthorization(h) /\ ~Return(h)
      BY <3>3, GotoStep, AtStep DEF EvaluateAuthorization
    <3>4. CASE CreatePendingExecution(h)
      BY <3>4, GotoStep, AtStep DEF CreatePendingExecution
    <3>. QED
      BY <1>2, <3>1, <3>2, <3>3, <3>4 DEF ReserveCapacity, MarkChallenge
  <2>3. handler'[h].pc = "openSession" => StateOf(a) # "none"
    BY <1>2, <2>2 DEF HandlerCalm
  <2>. QED
    BY <1>2, <1>3, <1>4, <1>5, <2>1, <2>2, <2>3, CalmMove DEF NothingShows
<1>6. CASE ~UNCHANGED ledger
  <2>1. /\ ReserveFor(a)
        /\ handler[h].pc = "reserve" /\ handler'[h].pc = "evaluate"
    BY <1>2, <1>6, AtStep, GotoStep DEF ReserveCapacity, EvaluateAuthorization,
       CreatePendingExecution, MarkChallenge
  <2>2. StateOf(a)' = "reserved" /\ \A b \in Actions : b # a => StateOf(b)' = StateOf(b)
    BY <2>1, ReserveStates
  <2>3. StateOf(a) = "none"
    BY <1>2, <2>1 DEF ClosedInv, Reserving
  <2>4. \A b \in Actions : Forward(b) /\ (StateOf(b)' = "released" => StateOf(b) = "released")
    BY <2>2, <2>3 DEF Forward
  <2>. QED
    BY <1>2, <1>3, <1>4, <2>1, <2>2, <2>4, CalmMove DEF NothingShows
<1>. QED
  BY <1>5, <1>6

\* Only a refused action is released.
LEMMA CloseCalm ==
  ASSUME IInv, Ledger!TypeOK, CalmInv, NEW h \in Handlers,
         ReleaseReservation(h) \/ MarkClosed(h) \/ MarkReleased(h)
  PROVE  CalmInv'
<1>. USE DEF IInv, ProgramCounters, DirectCounters, Faulty, Decided, Granting
<1>1. Quiet(h, handler'[h])
  BY CloseIsQuiet
<1>2. PICK a \in Actions : handler[h].action = a /\ On(h, a) /\ HandlerCalm(h, a)
  BY CalmAt DEF ReleaseReservation, MarkClosed, MarkReleased
<1>3. /\ handler' = [handler EXCEPT ![h] = handler'[h]]
      /\ handler'[h] # Idle => handler'[h].action = a /\ handler'[h].decision = handler[h].decision
      /\ UNCHANGED <<session, crashesLeft>>
  BY <1>1, <1>2 DEF Quiet, QuietWrites, bounds
<1>4. NothingShows
  BY <1>2 DEF ReleaseReservation, MarkClosed, MarkReleased,
     NothingShows, ShownIn, SetIntent, SetPending, records, FlowTypes
<1>5. /\ handler[h].pc \in {"release", "markClosed", "markReleased"}
      /\ handler'[h].pc \in {"idle", "markClosed", "markReleased"}
  BY AtStep, GotoStep, ReturnStep DEF ReleaseReservation, MarkClosed, MarkReleased,
     ReleaseThen, Idle
<1>6. Onward
  BY <1>2, CloseStates, SameStates DEF ReleaseReservation, ReleaseThen, MarkClosed, MarkReleased
<1>7. \A b \in Actions : StateOf(b)' = "released" =>
        StateOf(b) = "released" \/ session[b].final = "prior"
  <2>1. CASE UNCHANGED ledger
    BY <2>1 DEF StateOf, ledger
  <2>2. CASE Ledger!Release(a, reservation[a].holding) /\ ReleaseReservation(h)
    <3>1. handler[h].pc = "release" /\ session[a].final = "prior"
      BY <1>2, <2>2, AtStep DEF ReleaseReservation, HandlerCalm
    <3>2. \A b \in Actions : b # a => StateOf(b)' = StateOf(b)
      BY <2>2 DEF Ledger!Release, Ledger!PutState, Ledger!TypeOK, StateOf
    <3>. QED
      BY <3>1, <3>2
  <2>. QED
    BY <1>2, <2>1, <2>2 DEF ReleaseReservation, ReleaseThen, MarkClosed, MarkReleased
<1>. QED
  BY <1>2, <1>3, <1>4, <1>5, <1>6, <1>7, OnwardIsForward, CalmMove DEF NothingShows

LEMMA ReadCalm ==
  ASSUME IInv, CalmInv, NEW h \in Handlers, ReadIntent(h) \/ ReadBack(h)
  PROVE  CalmInv'
<1>. USE DEF IInv, ProgramCounters, DirectCounters, Faulty, Decided, Granting
<1>1. Quiet(h, handler'[h])
  BY ReadIsQuiet
<1>2. PICK a \in Actions : handler[h].action = a /\ On(h, a) /\ HandlerCalm(h, a)
  BY CalmAt DEF ReadIntent, ReadBack
<1>3. /\ handler' = [handler EXCEPT ![h] = handler'[h]]
      /\ handler'[h] # Idle => handler'[h].action = a /\ handler'[h].decision = handler[h].decision
      /\ UNCHANGED <<session, crashesLeft>>
  BY <1>1, <1>2 DEF Quiet, QuietWrites, bounds
<1>4. /\ \A b \in Actions : Forward(b)
      /\ \A b \in Actions : StateOf(b)' = StateOf(b)
  BY SameStates, OnwardIsForward DEF ReadIntent, ReadBack, StateOf, ledger
<1>5. \A b \in Actions : ShownIn(b)' => ShownIn(b) \/ Reading(b)
  <2>1. CASE ReadIntent(h)
    BY <2>1 DEF ReadIntent, ShownIn, records
  <2>2. CASE ReadBack(h)
    <3>1. Reading(a)
      BY <1>2, <2>2, AtStep DEF ReadBack, Reading
    <3>2. intent' = intent /\ \A b \in Actions : b # a => pending'[b] = pending[b]
      BY <1>2, <2>2 DEF ReadBack, SetPending, FlowTypes
    <3>. QED
      BY <3>1, <3>2 DEF ShownIn
  <2>. QED
    BY <2>1, <2>2
<1>6. /\ handler[h].pc \in {"readIntent", "readBack"}
      /\ handler'[h].pc \in {"idle", "readBack", "release", "execute"}
      /\ handler'[h].pc = "readBack" => ShownIn(a)
      /\ handler'[h].pc = "release" => handler[h].decision # "approved"
      /\ handler'[h].pc = "execute" => handler[h].decision = "approved"
  BY <1>2, AtStep, GotoStep, ReturnStep DEF ReadIntent, ReadBack, ShownIn, Idle
<1>. QED
  BY <1>2, <1>3, <1>4, <1>5, <1>6, CalmMove

LEMMA ExecuteCalm ==
  ASSUME IInv, CalmInv, NEW h \in Handlers, Execute(h, "ok")
  PROVE  CalmInv'
<1>. USE DEF IInv, ProgramCounters, DirectCounters, Faulty, Decided, Granting
<1>1. PICK a \in Actions : handler[h].action = a /\ On(h, a) /\ HandlerCalm(h, a)
  BY CalmAt DEF Execute
<1>2. /\ handler' = [handler EXCEPT ![h] = handler'[h]]
      /\ handler[h].pc = "execute" /\ handler'[h].pc = "createReceipt"
      /\ handler'[h].action = a /\ handler'[h].decision = handler[h].decision
  BY <1>1, AtStep, GotoStep DEF Execute
<1>3. /\ \A b \in Actions : Forward(b)
      /\ \A b \in Actions : StateOf(b)' = StateOf(b)
      /\ UNCHANGED <<session, crashesLeft>>
      /\ NothingShows
  BY SameStates, OnwardIsForward DEF Execute, StateOf, ledger, records, bounds, NothingShows, ShownIn
<1>4. handler[h].decision = "approved"
  BY <1>1, <1>2 DEF HandlerCalm
<1>. QED
  BY <1>1, <1>2, <1>3, <1>4, CalmMove DEF NothingShows

\* Whoever marks an action settled goes on to charge it, and the reservation of
\* an approved action that is not active has been charged.
LEMMA SettleCalm ==
  ASSUME IInv, Ledger!TypeOK, CalmInv, NEW h \in Handlers,
         \/ CreateActionReceipt(h, "createReceipt", "markSettled")
         \/ MarkSettled(h) \/ ChargeReservation(h) \/ MarkResumed(h) \/ Notify(h)
  PROVE  CalmInv'
<1>. USE DEF IInv, ProgramCounters, DirectCounters, Faulty, Decided, Granting
<1>1. Quiet(h, handler'[h])
  BY SettleIsQuiet
<1>2. PICK a \in Actions : handler[h].action = a /\ On(h, a) /\ HandlerCalm(h, a)
  BY CalmAt DEF CreateActionReceipt, MarkSettled, ChargeReservation, MarkResumed, Notify
<1>3. /\ handler' = [handler EXCEPT ![h] = handler'[h]]
      /\ handler'[h] # Idle => handler'[h].action = a /\ handler'[h].decision = handler[h].decision
      /\ UNCHANGED <<session, crashesLeft>>
  BY <1>1, <1>2 DEF Quiet, QuietWrites, bounds
<1>4. handler[h].pc \in {"createReceipt", "markSettled", "charge", "markResumed", "notify"}
  BY AtStep DEF CreateActionReceipt, MarkSettled, ChargeReservation, MarkResumed, Notify
<1>5. /\ handler'[h].pc \in {"idle", "markSettled", "charge", "markResumed", "notify"}
      /\ handler'[h].pc = "notify" => handler[h].pc = "markResumed"
      /\ handler'[h].pc = "markResumed" => handler[h].pc = "charge"
  BY AtStep, GotoStep, ReturnStep DEF CreateActionReceipt, MarkSettled, ChargeReservation,
     MarkResumed, Notify, Idle
<1>6. Onward
  BY <1>2, CloseStates, SameStates DEF CreateActionReceipt, MarkSettled, ChargeReservation,
     MarkResumed, Notify
<1>7. handler[h].decision = "approved" /\ session[a].final = "granted"
  BY <1>2, <1>4 DEF HandlerCalm
<1>8. handler[h].pc = "charge" => StateOf(a)' = "settled"
  <2>1. CASE ChargeReservation(h) /\ Ledger!Settle(a, reservation[a].holding)
    BY <2>1, CloseStates
  <2>2. CASE ChargeReservation(h) /\ StateOf(a) # "reserved" /\ UNCHANGED ledger
    <3>1. StateOf(a) # "released" /\ StateOf(a) # "none"
      BY <1>7 DEF CalmInv, SessionCalm, NoSession
    <3>2. StateOf(a) \in {"none", "reserved", "settled", "released"}
      BY DEF StateOf, Ledger!TypeOK, Ledger!ReservationRecord, Ledger!None
    <3>. QED
      BY <2>2, <3>1, <3>2 DEF StateOf, ledger
  <2>. QED
    BY <1>2, <2>1, <2>2, AtStep DEF CreateActionReceipt, MarkSettled, ChargeReservation,
       MarkResumed, Notify, StateOf
<1>9. handler'[h].pc \in {"markResumed", "notify"} => StateOf(a)' = "settled"
  BY <1>2, <1>5, <1>6, <1>8 DEF HandlerCalm, Onward
<1>10. \A b \in Actions : StateOf(b)' = "released" => StateOf(b) = "released"
  <2>1. CASE UNCHANGED ledger
    BY <2>1 DEF StateOf, ledger
  <2>2. CASE Ledger!Settle(a, reservation[a].holding)
    BY <2>2 DEF Ledger!Settle, Ledger!PutState, Ledger!TypeOK, StateOf
  <2>. QED
    BY <1>2, <2>1, <2>2 DEF CreateActionReceipt, MarkSettled, ChargeReservation, MarkResumed, Notify
<1>11. \A b \in Actions : ShownIn(b)' => ShownIn(b) \/ StateOf(b)' = "settled" \/ Charging(b)'
  <2>1. CASE MarkSettled(h)
    <3>1. Charging(a)'
      BY <1>2, <2>1, AtStep, GotoStep DEF MarkSettled, Charging, On, Idle
    <3>2. \A b \in Actions : b # a => (ShownIn(b)' => ShownIn(b))
      BY <1>2, <2>1 DEF MarkSettled, SetIntent, ShownIn, FlowTypes
    <3>. QED
      BY <3>1, <3>2
  <2>2. CASE MarkResumed(h)
    <3>1. StateOf(a)' = "settled"
      BY <1>2, <1>6, <2>2, AtStep DEF MarkResumed, HandlerCalm, Onward
    <3>2. \A b \in Actions : b # a => (ShownIn(b)' => ShownIn(b))
      BY <1>2, <2>2 DEF MarkResumed, SetPending, ShownIn, FlowTypes
    <3>. QED
      BY <3>1, <3>2
  <2>. QED
    BY <2>1, <2>2 DEF CreateActionReceipt, ChargeReservation, Notify, ShownIn, records
<1>. QED
  BY <1>2, <1>3, <1>4, <1>5, <1>6, <1>7, <1>8, <1>9, <1>10, <1>11, OnwardIsForward, CalmMove

\* The only request opens the session, while nothing else is under way.
LEMMA OpenCalm ==
  ASSUME IInv, CalmInv, AllRequests = 1, NEW h \in Handlers, CreateApprovalRequest(h)
  PROVE  CalmInv'
<1>. USE DEF IInv, ProgramCounters, DirectCounters, Faulty, Decided, Granting
<1>1. PICK a \in Actions : handler[h].action = a /\ On(h, a) /\ HandlerCalm(h, a)
  BY CalmAt DEF CreateApprovalRequest
<1>2. /\ handler[h].pc = "openSession" /\ handler'[h].pc = "createPending"
      /\ handler'[h].action = a
      /\ \A g \in Handlers : g # h => handler'[g] = handler[g]
      /\ session' = [session EXCEPT ![a] = FreshSession]
      /\ UNCHANGED <<intent, pending, ledger, crashesLeft>>
  BY <1>1, AtStep, GotoStep DEF CreateApprovalRequest, bounds, FlowTypes
<1>3. /\ session[a] = NoSession
      /\ \A g \in Handlers : g # h => ~On(g, a)
  BY <1>1, <1>2, OpenedOnce DEF FirstOpens, Opening, Untouched
<1>4. /\ session'[a] = FreshSession
      /\ \A b \in Actions : b # a => session'[b] = session[b]
  BY <1>2 DEF FlowTypes
<1>5. /\ \A b \in Actions : Forward(b)
      /\ \A b \in Actions : StateOf(b)' = StateOf(b)
      /\ NothingShows
  BY <1>2, SameStates, OnwardIsForward DEF StateOf, ledger, NothingShows, ShownIn
<1>6. \A b \in Actions : SessionCalm(b)'
  <2>1. SessionCalm(a)'
    <3>1. StateOf(a) # "none" /\ StateOf(a) # "released"
      BY <1>1, <1>2, <1>3 DEF HandlerCalm, CalmInv, SessionCalm, NoSession
    <3>. QED
      BY <1>4, <1>5, <3>1 DEF SessionCalm, FreshSession, NoSession
  <2>2. ASSUME NEW b \in Actions, b # a PROVE SessionCalm(b)'
    BY <1>4, <1>5, <2>2 DEF CalmInv, SessionCalm, NoSession
  <2>. QED
    BY <2>1, <2>2
<1>7. \A b \in Actions, g \in Handlers : g # h /\ On(g, b) => SessionForward(b)
  BY <1>3, <1>4 DEF SessionForward
<1>8. \A b \in Actions : On(h, b) \/ On(h, b)' => b = a
  BY <1>1, <1>2 DEF On
<1>9. HandlerCalm(h, a)'
  BY <1>2 DEF HandlerCalm
<1>. QED
  BY <1>2, <1>5, <1>6, <1>7, <1>8, <1>9, CalmKept DEF NothingShows

\* A handler that starts, or moves, on action a while its session changes.
LEMMA CalmSession ==
  ASSUME IInv, CalmInv, NEW h \in Handlers, NEW a \in Actions,
         \A g \in Handlers : g # h => handler'[g] = handler[g],
         \/ handler'[h] = handler[h]
         \/ /\ handler[h].pc # "charge"
            /\ On(h, a)' => HandlerCalm(h, a)' /\ handler'[h].pc # "readBack"
            /\ \A b \in Actions : On(h, b)' => b = a,
         \A b \in Actions : b # a => session'[b] = session[b],
         SessionForward(a),
         session'[a].final = "granted" => session'[a].result = "approved",
         session'[a].final = "prior" => session'[a].result \notin {"none", "approved"},
         session[a] # NoSession,
         UNCHANGED <<intent, pending, ledger, crashesLeft>>
  PROVE  CalmInv'
<1>1. /\ \A b \in Actions : Forward(b)
      /\ \A b \in Actions : StateOf(b)' = StateOf(b)
      /\ NothingShows
  BY SameStates, OnwardIsForward DEF StateOf, ledger, NothingShows, ShownIn
<1>2. SessionCalm(a)'
  <2>1. StateOf(a) # "none"
    BY DEF CalmInv, SessionCalm
  <2>2. StateOf(a) = "released" => session'[a].final = "prior"
    BY DEF CalmInv, SessionCalm, SessionForward
  <2>. QED
    BY <1>1, <2>1, <2>2 DEF SessionCalm
<1>3. ASSUME NEW b \in Actions, b # a PROVE SessionCalm(b)' /\ SessionForward(b)
  BY <1>1, <1>3 DEF CalmInv, SessionCalm, SessionForward, NoSession
<1>4. \A b \in Actions : SessionCalm(b)' /\ SessionForward(b)
  BY <1>2, <1>3
<1>5. CASE handler'[h] = handler[h]
  <2>1. ASSUME NEW b \in Actions, On(h, b)'
        PROVE  HandlerCalm(h, b)' /\ (handler'[h].pc = "readBack" => Reading(b))
    <3>1. On(h, b)
      BY <1>5, <2>1 DEF On
    <3>2. HandlerCalm(h, b) /\ SessionCalm(b)
      BY <3>1 DEF CalmInv
    <3>3. HandlerCalm(h, b)'
      BY <1>1, <1>4, <1>5, <3>2, HandlerKept
    <3>. QED
      BY <1>5, <3>1, <3>3 DEF Reading
  <2>2. \A b \in Actions : Charging(b) => Charging(b)'
    BY <1>5 DEF Charging, On
  <2>3. \A b \in Actions : Reading(b)' => Reading(b)
    BY <1>5 DEF Reading, On
  <2>4. \A b \in Actions, g \in Handlers : On(g, b)' => On(g, b)
    BY <1>5 DEF On
  <2>5. \A b \in Actions, g \in Handlers : On(g, b) => HandlerCalm(g, b) /\ SessionCalm(b)
    BY DEF CalmInv
  <2>6. \A b \in Actions, g \in Handlers : On(g, b)' => HandlerCalm(g, b)'
    BY <1>1, <1>4, <1>5, <2>4, <2>5, HandlerKept
  <2>7. ASSUME NEW b \in Actions
        PROVE  ShownIn(b)' \/ Reading(b)' => StateOf(b)' = "settled" \/ Charging(b)'
    BY <1>1, <2>2, <2>3 DEF CalmInv, NothingShows
  <2>. QED
    BY <1>4, <2>6, <2>7 DEF CalmInv
<1>6. CASE handler'[h] # handler[h]
  BY <1>1, <1>4, <1>6, CalmKept DEF NothingShows
<1>. QED
  BY <1>5, <1>6

\* The decision is what the session says from then on.
LEMMA DecidesCalm ==
  ASSUME FlowTypes, GrantedWasApproved, CalmInv, NEW a \in Actions, ResumeSession(a)
  PROVE  /\ \A b \in Actions : b # a => session'[b] = session[b]
         /\ SessionForward(a)
         /\ session[a] # NoSession
         /\ session'[a].result = session[a].result
         /\ session'[a].final = (IF DecisionOf(a) = "approved" THEN "granted" ELSE "prior")
         /\ session'[a].final = "granted" => session'[a].result = "approved"
         /\ session'[a].final = "prior" => session'[a].result \notin {"none", "approved"}
         /\ DecisionOf(a) \in Decisions
<1>1. /\ session[a] # NoSession
      /\ \A b \in Actions : b # a => session'[b] = session[b]
      /\ session'[a].result = session[a].result
      /\ session[a].final # "none" => session'[a].final = session[a].final
      /\ DecisionOf(a) \in Decisions
      /\ DecisionOf(a) = "approved" => session'[a].final = "granted"
  BY ResumeDecides
<1>2. SessionCalm(a) /\ session[a].result # "none"
  BY DEF CalmInv, ResumeSession
<1>3. /\ session[a] \in [result : Results \cup {"none"}, final : {"none", "granted", "prior"},
                         open : BOOLEAN]
      /\ priorDecision[a] # "approved"
  BY DEF FlowTypes
<1>4. CASE session[a].final # "none"
  BY <1>1, <1>2, <1>3, <1>4 DEF SessionCalm, SessionForward, DecisionOf
<1>5. CASE session[a].final = "none" /\ session[a].result = "approved"
  <2>1. DecisionOf(a) = "approved"
    BY <1>5 DEF DecisionOf, Outcome
  <2>. QED
    BY <1>1, <1>5, <2>1 DEF SessionForward
<1>6. CASE session[a].final = "none" /\ session[a].result # "approved"
  <2>1. DecisionOf(a) # "approved"
    BY <1>6 DEF DecisionOf, Outcome
  <2>2. session' = [session EXCEPT ![a].final = "prior"]
    BY <1>6 DEF ResumeSession
  <2>3. session'[a].final = "prior"
    BY <1>3, <2>2 DEF FlowTypes
  <2>. QED
    BY <1>1, <1>2, <1>6, <2>1, <2>3 DEF SessionForward
<1>. QED
  BY <1>4, <1>5, <1>6

\* Finalization decides for good: a refusal is closed, an approval is not.
LEMMA FinalizeCalm ==
  ASSUME IInv, CalmInv, NEW a \in Actions, NEW h \in Handlers,
         StartResume(h, a) \/ (CloseSession(h) /\ handler[h].action = a)
  PROVE  CalmInv'
<1>. USE DEF IInv, ProgramCounters, DirectCounters, Faulty, Decided, Granting
<1>1. CASE StartResume(h, a)
  <2>1. /\ handler'[h] = [pc |-> "readIntent", action |-> a, decision |-> DecisionOf(a)]
        /\ \A g \in Handlers : g # h => handler'[g] = handler[g]
        /\ handler[h] = Idle
    BY <1>1 DEF StartResume, Start, FlowTypes
  <2>2. UNCHANGED <<intent, pending, ledger, crashesLeft>> /\ ResumeSession(a)
    BY <1>1 DEF StartResume, Call
  <2>3. HandlerCalm(h, a)'
    BY <2>1, <2>2, DecidesCalm DEF HandlerCalm
  <2>4. \A b \in Actions : On(h, b)' => b = a
    BY <2>1 DEF On
  <2>. QED
    BY <2>1, <2>2, <2>3, <2>4, DecidesCalm, CalmSession DEF Idle
<1>2. CASE CloseSession(h) /\ handler[h].action = a
  <2>1. /\ handler[h] # Idle /\ handler[h].pc = "close" /\ handler[h] \in HandlerRecord
        /\ On(h, a) /\ UNCHANGED <<intent, pending, ledger, crashesLeft>>
    BY <1>2, AtStep DEF CloseSession, On, bounds
  <2>2. session[a].result \notin {"none", "approved"} /\ SessionCalm(a)
    BY <2>1 DEF CalmInv, HandlerCalm
  <2>3. CASE Return(h) /\ UNCHANGED session
    <3>1. /\ handler'[h] = Idle
          /\ \A g \in Handlers : g # h => handler'[g] = handler[g]
      BY <2>3 DEF Return, FlowTypes
    <3>2. SessionForward(a) /\ session[a] # NoSession
      BY <2>2, <2>3 DEF SessionForward, NoSession
    <3>. QED
      BY <2>1, <2>2, <2>3, <3>1, <3>2, CalmSession DEF SessionCalm, On
  <2>4. CASE ResumeSession(a) /\ handler' = [handler EXCEPT ![h].pc = "release",
                                                          ![h].decision = DecisionOf(a)]
    <3>1. /\ handler'[h] = [handler[h] EXCEPT !.pc = "release", !.decision = DecisionOf(a)]
          /\ \A g \in Handlers : g # h => handler'[g] = handler[g]
      BY <2>4 DEF FlowTypes
    <3>2. /\ handler'[h].pc = "release" /\ handler'[h].action = a
          /\ handler'[h].decision = DecisionOf(a)
      BY <1>2, <2>1, <3>1 DEF HandlerRecord
    <3>3. DecisionOf(a) # "approved"
      BY <2>2, <2>4, DecidesCalm
    <3>4. HandlerCalm(h, a)'
      BY <2>4, <3>2, <3>3, DecidesCalm DEF HandlerCalm
    <3>5. \A b \in Actions : On(h, b)' => b = a
      BY <3>2 DEF On
    <3>. QED
      BY <2>1, <2>4, <3>1, <3>2, <3>4, <3>5, DecidesCalm, CalmSession
  <2>. QED
    BY <1>2, <2>2, <2>3, <2>4 DEF CloseSession
<1>. QED
  BY <1>1, <1>2

\* A result, once applied, is the only one.
LEMMA ApplyCalm ==
  ASSUME IInv, CalmInv, Consistent, NEW a \in Actions, NEW h \in Handlers,
         NEW result \in Results, ApplyApprovalResult(h, a, result)
  PROVE  CalmInv'
<1>. USE DEF IInv, ProgramCounters, DirectCounters, Faulty, Decided, Granting
<1>1. /\ session' = [session EXCEPT ![a].result = result]
      /\ session[a].open /\ session[a].result \in {"none", result}
      /\ UNCHANGED <<intent, pending, ledger, crashesLeft>>
  BY DEF ApplyApprovalResult, Call
<1>2. session[a] \in [result : Results \cup {"none"}, final : {"none", "granted", "prior"},
                      open : BOOLEAN]
  BY DEF FlowTypes
<1>3. /\ \A b \in Actions : b # a => session'[b] = session[b]
      /\ session'[a].result = result /\ session'[a].final = session[a].final
  BY <1>1, <1>2 DEF FlowTypes
<1>4. result # "none" /\ session[a] # NoSession
  BY <1>1 DEF NoSession
<1>5. SessionForward(a)
  BY <1>1, <1>3 DEF SessionForward
<1>6. /\ session'[a].final = "granted" => session'[a].result = "approved"
      /\ session'[a].final = "prior" => session'[a].result \notin {"none", "approved"}
  BY <1>1, <1>3, <1>4 DEF CalmInv, SessionCalm
<1>7. CASE handler' = handler
  BY <1>1, <1>3, <1>4, <1>5, <1>6, <1>7, CalmSession
<1>8. CASE result # "approved" /\ Start(h, a, "close", "none")
  <2>1. /\ handler'[h] = [pc |-> "close", action |-> a, decision |-> "none"]
        /\ \A g \in Handlers : g # h => handler'[g] = handler[g]
        /\ handler[h] = Idle
    BY <1>8 DEF Start, FlowTypes
  <2>2. HandlerCalm(h, a)'
    BY <1>3, <1>4, <1>8, <2>1 DEF HandlerCalm
  <2>3. \A b \in Actions : On(h, b)' => b = a
    BY <2>1 DEF On
  <2>. QED
    BY <1>1, <1>3, <1>4, <1>5, <1>6, <2>1, <2>2, <2>3, CalmSession DEF Idle
<1>. QED
  BY <1>7, <1>8 DEF ApplyApprovalResult

\* A request starts from an action that nothing has touched.
LEMMA CreateCalm ==
  ASSUME IInv, CalmInv, NEW a \in Actions, NEW h \in Handlers, CreateIntent(h, a)
  PROVE  CalmInv'
<1>. USE DEF IInv, ProgramCounters, DirectCounters, Faulty, Decided, Granting
<1>1. /\ handler'[h] = [pc |-> "reserve", action |-> a, decision |-> "none"]
      /\ \A g \in Handlers : g # h => handler'[g] = handler[g]
      /\ handler[h] = Idle
  BY DEF CreateIntent, Start, FlowTypes
<1>2. UNCHANGED <<session, pending, ledger, crashesLeft>>
  BY DEF CreateIntent, Call
<1>3. NothingShows
  BY <1>2 DEF CreateIntent, SetIntent, NothingShows, ShownIn, FlowTypes
<1>4. /\ \A b \in Actions : Forward(b) /\ SessionForward(b)
      /\ \A b \in Actions : StateOf(b)' = StateOf(b)
  BY <1>2, SameStates, OnwardIsForward DEF StateOf, ledger, SessionForward
<1>5. \A b \in Actions : SessionCalm(b)'
  BY <1>2, <1>4 DEF CalmInv, SessionCalm, NoSession
<1>6. \A b \in Actions : On(h, b)' => HandlerCalm(h, b)'
  BY <1>1 DEF HandlerCalm
<1>7. handler[h].pc # "charge" /\ handler'[h].pc # "readBack"
  BY <1>1 DEF Idle
<1>. QED
  BY <1>1, <1>2, <1>3, <1>4, <1>5, <1>6, <1>7, CalmKept DEF NothingShows

LEMMA NextCalm ==
  IInv /\ Ledger!TypeOK /\ ClosedInv /\ Calm /\ CalmInv /\ [Next]_vars => CalmInv'
<1>. SUFFICES ASSUME IInv, Ledger!TypeOK, ClosedInv, Calm, CalmInv, [Next]_vars PROVE CalmInv'
  OBVIOUS
<1>1. AllRequests = 1
  BY DEF Calm, AllRequests
<1>2. CASE NewCall
  <2>1. ASSUME NEW a \in Actions, ResumeApprovalSession(a) PROVE CalmInv'
    <3>1. /\ ResumeSession(a) /\ handler' = handler
          /\ UNCHANGED <<intent, pending, ledger, crashesLeft>>
      BY <2>1 DEF ResumeApprovalSession, Call
    <3>2. CASE Handlers = {}
      BY <3>1, <3>2, DecidesCalm, SameStates, OnwardIsForward
         DEF CalmInv, SessionCalm, ShownIn, Reading, Charging, StateOf, ledger, IInv, NoSession,
             SessionForward
    <3>3. CASE Handlers # {}
      <4>1. PICK h \in Handlers : TRUE
        BY <3>3
      <4>. QED
        BY <3>1, <4>1, DecidesCalm, CalmSession DEF IInv
    <3>. QED
      BY <3>2, <3>3
  <2>. QED
    BY <1>2, <2>1, FinalizeCalm, CreateCalm, ApplyCalm DEF NewCall, Calm
<1>3. ASSUME NEW h \in Handlers, HandlerStep(h) PROVE CalmInv'
  <2>1. CASE RequestStep(h)
    BY <1>1, <2>1, RequestCalm, OpenCalm DEF RequestStep
  <2>2. CASE CloseStep(h)
    <3>1. CASE CloseSession(h)
      <4>1. handler[h].action \in Actions
        BY <3>1, AtStep DEF CloseSession, IInv
      <4>. QED
        BY <3>1, <4>1, FinalizeCalm
    <3>. QED
      BY <2>2, <3>1, CloseCalm DEF CloseStep
  <2>3. CASE ResumeStep(h)
    <3>1. ~ReleaseFailed(h) /\ ~MarkFailed(h)
      BY CalmAt DEF ReleaseFailed, MarkFailed, HandlerCalm, Faulty, ProgramCounters, IInv
    <3>2. ASSUME NEW outcome \in RailOutcomes, Execute(h, outcome) PROVE CalmInv'
      BY <3>2, ExecuteCalm DEF Calm
    <3>. QED
      BY <2>3, <3>1, <3>2, ReadCalm, SettleCalm DEF ResumeStep
  <2>. QED
    BY <1>3, <2>1, <2>2, <2>3 DEF HandlerStep
<1>4. ~Crash
  BY DEF Crash, CalmInv
<1>5. CASE UNCHANGED vars
  BY <1>5 DEF vars, records, ledger, bounds, CalmInv, SessionCalm, HandlerCalm, ShownIn, Reading,
     Charging, StateOf, On
<1>. QED
  BY <1>2, <1>3, <1>4, <1>5 DEF Next

\* While every action is requested once and gets one result, and neither the rail
\* nor the process fails, a pending execution that is marked resumed has its
\* reservation charged once the calls on it have returned, whatever resumes
\* overlap (ResumedIsCharged; README.md:781, backend/ats/README.md:38).  A crash
\* between the settled mark and the charge would break it.
THEOREM ResumedWasCharged ==
  ASSUME Calm
  PROVE  Spec => []ResumedIsCharged
<1>1. AllRequests = 1
  BY DEF Calm, AllRequests
<1>2. Init => ClosedInv
  BY DEF Init, Ledger!Init, Ledger!None, ClosedInv, Closed, On, StateOf
<1>3. Init => CalmInv
  BY DEF Calm, Init, Ledger!Init, Ledger!None, CalmInv, SessionCalm, ShownIn, Reading, On, StateOf,
     NoSession
<1>4. TypeOK => Ledger!TypeOK
  BY DEF TypeOK
<1>5. [Next]_vars => [DirectNext]_vars
  BY DEF DirectNext
<1>6. CalmInv => ResumedIsCharged
  BY DEF CalmInv, ResumedIsCharged, ShownIn, Charging, InProgress, On, StateOf
<1>. QED
  BY <1>1, <1>2, <1>3, <1>4, <1>5, <1>6, NextCloses, NextCalm, Invariant, TypeCorrect, PTL
     DEF Spec, DirectSpec

-----------------------------------------------------------------------------
(* A payment is settled once, while it is requested once, by either flow,   *)
(* the calls on it do not overlap, and neither an answer of the rail nor    *)
(* the process is lost.  What keeps a later resume from paying again is the *)
(* settled mark of the intent, and what keeps that mark is that a           *)
(* reservation which is no longer active cannot be released.                *)

InTurn ==
  /\ Calls["request"] + Calls["direct"] = 1
  /\ "lost" \notin RailOutcomes
  /\ MaxCrashes = 0

\* No two calls on the same action are under way.
CallsTakeTurns ==
  \A g, h \in Handlers, a \in Actions : On(g, a) /\ On(h, a) => g = h

\* What a handler does before the payment, or only if there was none.
Unpaid == Opening \cup Executing \cup
  {"createPending", "markChallenge", "markClosed",
   "directChallenge", "directApply", "directResume", "directDecide"}

\* What it does between the payment and the end of the charge.
Recording ==
  {"createReceipt", "markSettled", "charge", "directReceipt", "directSettled", "directCharge"}

Shut(a) == intent[a] = "settled" /\ StateOf(a) # "reserved"

HandlerPays(h, a) ==
  /\ handler[h].pc \in Unpaid => executed[a] = 0
  /\ handler[h].pc \in {"charge", "directCharge"} => intent[a] = "settled"

PayInv ==
  /\ crashesLeft = 0
  /\ \A a \in Payments :
       /\ executed[a] <= 1
       /\ executed[a] = 1 =>
            Shut(a) \/ \E h \in Handlers : On(h, a) /\ handler[h].pc \in Recording
       /\ \A h \in Handlers : On(h, a) => HandlerPays(h, a)

\* Handler h, on action a before or after the step, is alone on it.
LEMMA PayMove ==
  ASSUME FlowTypes, PayInv, CallsTakeTurns, CallsTakeTurns',
         NEW h \in Handlers, NEW a \in Actions,
         On(h, a) \/ On(h, a)',
         handler[h] # Idle => handler[h].action = a,
         handler'[h] # Idle => handler'[h].action = a,
         \A g \in Handlers : g # h => handler'[g] = handler[g],
         crashesLeft' = crashesLeft,
         \A b \in Actions : b # a =>
           executed'[b] = executed[b] /\ intent'[b] = intent[b] /\ (Shut(b) => Shut(b)'),
         a \in Payments =>
           /\ executed'[a] <= 1
           /\ executed'[a] = 1 =>
                Shut(a)' \/ (handler'[h] # Idle /\ handler'[h].pc \in Recording)
           /\ handler'[h] # Idle => HandlerPays(h, a)'
  PROVE  PayInv'
<1>1. \A g \in Handlers, b \in Actions : g # h => (On(g, b)' <=> On(g, b))
  BY DEF On
<1>2. \A g \in Handlers : g # h => ~On(g, a)'
  BY <1>1 DEF CallsTakeTurns
<1>3. \A b \in Actions : b # a => ~On(h, b) /\ ~On(h, b)'
  BY DEF On
<1>4. SUFFICES ASSUME NEW b \in Payments
      PROVE  /\ executed'[b] <= 1
             /\ executed'[b] = 1 =>
                  Shut(b)' \/ \E g \in Handlers : On(g, b)' /\ handler'[g].pc \in Recording
             /\ \A g \in Handlers : On(g, b)' => HandlerPays(g, b)'
  BY DEF PayInv
<1>5. b \in Actions
  OBVIOUS
<1>6. CASE b = a
  BY <1>2, <1>6 DEF On
<1>7. CASE b # a
  BY <1>1, <1>3, <1>5, <1>7 DEF PayInv, HandlerPays, Shut
<1>. QED
  BY <1>6, <1>7

\* A handler goes on or returns, and this neither pays nor marks anything; it has
\* paid nothing if it goes on to something that it only does then.
LEMMA PayGoesOn ==
  ASSUME FlowTypes, PayInv, CallsTakeTurns, CallsTakeTurns', Onward,
         NEW h \in Handlers, NEW a \in Actions, On(h, a),
         handler' = [handler EXCEPT ![h] = handler'[h]],
         handler'[h] # Idle => handler'[h].action = a,
         UNCHANGED <<executed, crashesLeft, intent>>,
         a \in Payments /\ executed[a] = 1 /\ handler[h].pc \in Recording =>
           \/ handler'[h] # Idle /\ handler'[h].pc \in Recording
           \/ Shut(a)',
         handler'[h].pc \in Unpaid => handler[h].pc \in Unpaid \/ a \notin Payments \/ executed[a] = 0,
         handler'[h].pc \in {"charge", "directCharge"} => a \notin Payments \/ intent[a] = "settled"
  PROVE  PayInv'
<1>1. \A g \in Handlers : g # h => handler'[g] = handler[g]
  BY DEF FlowTypes
<1>2. \A b \in Actions : Shut(b) => Shut(b)'
  BY DEF Shut, Onward
<1>3. handler[h] # Idle => handler[h].action = a
  BY DEF On
<1>4. ASSUME a \in Payments
      PROVE  /\ executed'[a] <= 1
             /\ executed'[a] = 1 =>
                  Shut(a)' \/ (handler'[h] # Idle /\ handler'[h].pc \in Recording)
             /\ handler'[h] # Idle => HandlerPays(h, a)'
  <2>1. executed[a] = 1 => Shut(a) \/ handler[h].pc \in Recording
    BY <1>4 DEF PayInv, CallsTakeTurns
  <2>. QED
    BY <1>2, <1>4, <2>1 DEF PayInv, HandlerPays
<1>. QED
  BY <1>1, <1>2, <1>3, <1>4, PayMove

\* A handler that has not paid goes on, whatever it marks.
LEMMA PayBefore ==
  ASSUME FlowTypes, PayInv, CallsTakeTurns, CallsTakeTurns',
         NEW h \in Handlers, NEW a \in Actions, On(h, a), handler[h].pc \in Unpaid,
         handler' = [handler EXCEPT ![h] = handler'[h]],
         handler'[h] # Idle => handler'[h].action = a,
         handler'[h].pc \notin {"charge", "directCharge"},
         UNCHANGED <<executed, crashesLeft>>,
         \A b \in Actions : b # a => intent'[b] = intent[b] /\ (Shut(b) => Shut(b)')
  PROVE  PayInv'
<1>1. \A g \in Handlers : g # h => handler'[g] = handler[g]
  BY DEF FlowTypes
<1>2. handler[h] # Idle => handler[h].action = a
  BY DEF On
<1>3. a \in Payments => executed[a] = 0
  BY DEF PayInv, HandlerPays
<1>4. a \in Payments => executed'[a] = 0 /\ HandlerPays(h, a)'
  BY <1>3 DEF HandlerPays
<1>. QED
  BY <1>1, <1>2, <1>4, PayMove

\* A handler takes a call that has no need to know whether the payment was made.
LEMMA PayStart ==
  ASSUME FlowTypes, PayInv, CallsTakeTurns, CallsTakeTurns',
         NEW h \in Handlers, NEW a \in Actions, NEW pc \in {"readIntent", "close"}, NEW decision,
         Start(h, a, pc, decision), UNCHANGED <<intent, executed, crashesLeft, ledger>>
  PROVE  PayInv'
<1>1. /\ handler[h] = Idle
      /\ handler'[h] = [pc |-> pc, action |-> a, decision |-> decision]
      /\ \A g \in Handlers : g # h => handler'[g] = handler[g]
  BY DEF Start, FlowTypes
<1>2. handler'[h] # Idle /\ handler'[h].action = a /\ handler'[h].pc = pc
  <2>1. handler'[h].action = a /\ handler'[h].pc = pc
    BY <1>1
  <2>. QED
    BY <2>1 DEF Idle
<1>3. \A g \in Handlers : ~On(g, a)
  BY <1>1, <1>2 DEF CallsTakeTurns, On
<1>4. \A b \in Actions : Shut(b)' <=> Shut(b)
  BY DEF Shut, StateOf, ledger
<1>5. a \in Payments => executed[a] <= 1 /\ (executed[a] = 1 => Shut(a))
  BY <1>3 DEF PayInv
<1>6. HandlerPays(h, a)'
  BY <1>2 DEF HandlerPays, Unpaid, Opening, Executing
<1>7. On(h, a)'
  BY <1>2 DEF On
<1>. QED
  BY <1>1, <1>2, <1>4, <1>5, <1>6, <1>7, PayMove

\* Where a handler stands.
LEMMA PayAt ==
  ASSUME FlowTypes, NEW h \in Handlers, NEW pc \in ProgramCounters, At(h, pc)
  PROVE  /\ handler[h].pc = pc /\ handler[h] # Idle /\ handler[h] \in HandlerRecord
         /\ handler[h].action \in Actions /\ On(h, handler[h].action)
BY AtStep DEF On, ProgramCounters, DirectCounters

\* A handler that is not recording a payment has made none, unless it is shut.
LEMMA UnpaidUnlessShut ==
  ASSUME FlowTypes, PayInv, CallsTakeTurns, NEW h \in Handlers, NEW a \in Payments,
         On(h, a), handler[h].pc \notin Recording, ~Shut(a)
  PROVE  executed[a] = 0
<1>1. executed[a] # 1 /\ executed[a] <= 1
  BY DEF PayInv, CallsTakeTurns
<1>2. executed[a] \in Nat
  BY DEF FlowTypes
<1>. QED
  BY <1>1, <1>2

\* Before the payment, whatever a handler writes.
LEMMA RequestPays ==
  ASSUME IInv, Ledger!TypeOK, PayInv, CallsTakeTurns, CallsTakeTurns', NEW h \in Handlers,
         \/ ReserveCapacity(h) \/ EvaluateAuthorization(h) \/ CreateApprovalRequest(h)
         \/ CreatePendingExecution(h) \/ MarkChallenge(h)
         \/ DirectReserve(h) \/ DirectEvaluate(h) \/ DirectOpenSession(h)
         \/ DirectMarkChallenge(h) \/ DirectResume(h) \/ DirectDecide(h) \/ MarkClosed(h)
         \/ \E result \in Results : DirectApply(h, result)
  PROVE  PayInv'
<1>. USE DEF IInv, ProgramCounters, DirectCounters
<1> DEFINE a == handler[h].action
<1>1. /\ handler[h].pc \in Unpaid /\ handler[h] # Idle /\ handler[h] \in HandlerRecord
      /\ a \in Actions /\ On(h, a)
  BY PayAt DEF ReserveCapacity, EvaluateAuthorization, CreateApprovalRequest,
     CreatePendingExecution, MarkChallenge, DirectReserve, DirectEvaluate, DirectOpenSession,
     DirectMarkChallenge, DirectResume, DirectDecide, MarkClosed, DirectApply,
     Unpaid, Opening, Executing
<1>2. /\ handler' = [handler EXCEPT ![h] = handler'[h]]
      /\ handler'[h] # Idle => handler'[h].action = a
      /\ handler'[h].pc \notin {"charge", "directCharge"}
  <2>1. ASSUME NEW pc \in ProgramCounters \ {"charge", "directCharge"}, Goto(h, pc)
        PROVE  <1>2
    BY <1>1, <2>1, GotoStep
  <2>2. CASE Return(h)
    BY <2>2, ReturnStep DEF Idle
  <2>3. CASE DirectResume(h) /\ ~Return(h)
    BY <1>1, <2>3 DEF DirectResume, FlowTypes, HandlerRecord
  <2>. QED
    BY <2>1, <2>2, <2>3 DEF ReserveCapacity, EvaluateAuthorization, CreateApprovalRequest,
       CreatePendingExecution, MarkChallenge, DirectReserve, DirectEvaluate, DirectOpenSession,
       DirectMarkChallenge, DirectDecide, MarkClosed, DirectApply
<1>3. UNCHANGED <<executed, crashesLeft>>
  BY DEF ReserveCapacity, EvaluateAuthorization, CreateApprovalRequest,
     CreatePendingExecution, MarkChallenge, DirectReserve, DirectEvaluate, DirectOpenSession,
     DirectMarkChallenge, DirectResume, DirectDecide, MarkClosed, DirectApply, ghosts, bounds
<1>4. \A b \in Actions : b # a => intent'[b] = intent[b]
  BY <1>1 DEF ReserveCapacity, EvaluateAuthorization, CreateApprovalRequest,
     CreatePendingExecution, MarkChallenge, DirectReserve, DirectEvaluate, DirectOpenSession,
     DirectMarkChallenge, DirectResume, DirectDecide, MarkClosed, DirectApply, records, SetIntent,
     FlowTypes
<1>5. \A b \in Actions : b # a => StateOf(b)' = StateOf(b)
  <2>1. CASE UNCHANGED ledger
    BY <2>1 DEF ledger, StateOf
  <2>2. CASE ReserveFor(a)
    BY <1>1, <2>2, ReserveStates
  <2>. QED
    BY <2>1, <2>2 DEF ReserveCapacity, EvaluateAuthorization, CreateApprovalRequest,
       CreatePendingExecution, MarkChallenge, DirectReserve, DirectEvaluate, DirectOpenSession,
       DirectMarkChallenge, DirectResume, DirectDecide, MarkClosed, DirectApply
<1>6. \A b \in Actions : b # a => (Shut(b) => Shut(b)')
  BY <1>4, <1>5 DEF Shut
<1>. QED
  BY <1>1, <1>2, <1>3, <1>4, <1>6, PayBefore

\* A handler marks an action closed, and so no longer settled, only after it has
\* released a reservation that was still active: then nothing was paid.
LEMMA ReleasePays ==
  ASSUME IInv, Ledger!TypeOK, PayInv, CallsTakeTurns, CallsTakeTurns', NEW h \in Handlers,
         \/ CloseSession(h) \/ ReleaseReservation(h) \/ MarkReleased(h)
         \/ ReleaseFailed(h) \/ MarkFailed(h) \/ DirectRelease(h)
  PROVE  PayInv'
<1>. USE DEF IInv, ProgramCounters, DirectCounters
<1> DEFINE a == handler[h].action
<1>1. /\ handler[h].pc \in {"close", "release", "markReleased", "undo", "markFailed", "directRelease"}
      /\ handler[h] # Idle /\ handler[h] \in HandlerRecord
      /\ a \in Actions /\ On(h, a)
  BY PayAt DEF CloseSession, ReleaseReservation, MarkReleased, ReleaseFailed, MarkFailed,
     DirectRelease
<1>2. UNCHANGED <<executed, crashesLeft, intent>>
  BY DEF CloseSession, ReleaseReservation, MarkReleased, ReleaseFailed, MarkFailed,
     DirectRelease, records, ghosts, bounds
<1>3. Onward
  BY <1>1, CloseStates, SameStates DEF CloseSession, ReleaseReservation, MarkReleased,
     ReleaseFailed, MarkFailed, DirectRelease, ReleaseThen
<1>4. /\ handler' = [handler EXCEPT ![h] = handler'[h]]
      /\ handler'[h] # Idle => handler'[h].action = a
      /\ handler'[h].pc \in Unpaid => ReleaseReservation(h) /\ StateOf(a) = "reserved"
      /\ handler'[h].pc \notin {"charge", "directCharge"}
  <2>. USE DEF Unpaid, Opening, Executing
  <2>1. CASE Return(h)
    BY <2>1, ReturnStep DEF Idle
  <2>2. CASE ReleaseReservation(h) /\ Ledger!Release(a, reservation[a].holding) /\ Goto(h, "markClosed")
    <3>1. StateOf(a) = "reserved"
      BY <2>2 DEF Ledger!Release, StateOf
    <3>. QED
      BY <1>1, <2>2, <3>1, GotoStep
  <2>3. CASE ReleaseFailed(h) /\ Goto(h, "markFailed")
    BY <1>1, <2>3, GotoStep
  <2>4. CASE CloseSession(h) /\ ~Return(h)
    BY <1>1, <2>4 DEF CloseSession, FlowTypes, HandlerRecord
  <2>. QED
    BY <2>1, <2>2, <2>3, <2>4 DEF CloseSession, ReleaseReservation, MarkReleased,
       ReleaseFailed, MarkFailed, DirectRelease, ReleaseThen
<1>5. a \in Payments /\ StateOf(a) = "reserved" => executed[a] = 0
  BY <1>1, UnpaidUnlessShut DEF Shut, Recording
<1>. QED
  BY <1>1, <1>2, <1>3, <1>4, <1>5, PayGoesOn DEF Recording

\* A payment that was made is answered from its receipt.
LEMMA ReadPays ==
  ASSUME IInv, PayInv, CallsTakeTurns, CallsTakeTurns', NEW h \in Handlers,
         ReadIntent(h) \/ ReadBack(h)
  PROVE  PayInv'
<1>. USE DEF IInv, ProgramCounters, DirectCounters
<1> DEFINE a == handler[h].action
<1>1. /\ handler[h].pc \in {"readIntent", "readBack"}
      /\ handler[h] # Idle /\ handler[h] \in HandlerRecord /\ a \in Actions /\ On(h, a)
  BY PayAt DEF ReadIntent, ReadBack
<1>2. UNCHANGED <<executed, crashesLeft, intent>> /\ Onward
  BY SameStates DEF ReadIntent, ReadBack, records, ghosts, bounds
<1>3. /\ handler' = [handler EXCEPT ![h] = handler'[h]]
      /\ handler'[h] # Idle => handler'[h].action = a
      /\ handler'[h].pc \in Unpaid => ~(a \in Payments /\ intent[a] = "settled")
      /\ handler'[h].pc \notin {"charge", "directCharge"}
  <2>. USE DEF Unpaid, Opening, Executing
  <2>1. CASE Return(h)
    BY <2>1, ReturnStep DEF Idle
  <2>2. CASE ReadIntent(h)
    BY <1>1, <2>2, GotoStep DEF ReadIntent
  <2>. QED
    BY <2>1, <2>2 DEF ReadBack
<1>4. a \in Payments /\ intent[a] # "settled" => executed[a] = 0
  BY <1>1, UnpaidUnlessShut DEF Shut, Recording
<1>. QED
  BY <1>1, <1>2, <1>3, <1>4, PayGoesOn DEF Recording

\* The payment itself: it is recorded by the handler that made it.
LEMMA ExecutePays ==
  ASSUME IInv, PayInv, CallsTakeTurns, CallsTakeTurns', NEW h \in Handlers,
         NEW outcome \in RailOutcomes \ {"lost"},
         Execute(h, outcome) \/ DirectExecute(h, outcome)
  PROVE  PayInv'
<1>. USE DEF IInv, ProgramCounters, DirectCounters
<1> DEFINE a == handler[h].action
<1>1. /\ handler[h].pc \in {"execute", "directExecute"}
      /\ handler[h] # Idle /\ handler[h] \in HandlerRecord /\ a \in Actions /\ On(h, a)
  BY PayAt DEF Execute, DirectExecute
<1>2. /\ executed' = [executed EXCEPT ![a] = IF outcome = "refused" THEN @ ELSE @ + 1]
      /\ UNCHANGED <<intent, ledger, crashesLeft>>
  BY DEF Execute, DirectExecute, records, bounds
<1>3. \A b \in Actions : Shut(b)' <=> Shut(b)
  BY <1>2 DEF Shut, StateOf, ledger
<1>4. /\ \A g \in Handlers : g # h => handler'[g] = handler[g]
      /\ handler'[h].action = a
      /\ handler'[h].pc \in
           IF outcome = "ok" THEN {"createReceipt", "directReceipt"} ELSE {"undo", "directRelease"}
      /\ handler'[h] # Idle
  <2>1. ASSUME NEW pc \in ProgramCounters, Goto(h, pc)
        PROVE  /\ \A g \in Handlers : g # h => handler'[g] = handler[g]
               /\ handler'[h].action = a /\ handler'[h].pc = pc /\ handler'[h] # Idle
    <3>1. handler'[h].action = a /\ handler'[h].pc = pc /\ handler' = [handler EXCEPT ![h] = handler'[h]]
      BY <1>1, <2>1, GotoStep
    <3>. QED
      BY <3>1 DEF Idle, FlowTypes
  <2>. QED
    BY <2>1 DEF Execute, DirectExecute
<1>5. outcome \in {"ok", "refused"}
  OBVIOUS
<1>6. a \in Payments => executed[a] = 0
  BY <1>1 DEF PayInv, HandlerPays, Unpaid, Executing
<1>7. /\ executed'[a] = IF outcome = "refused" THEN executed[a] ELSE executed[a] + 1
      /\ \A b \in Actions : b # a => executed'[b] = executed[b]
  BY <1>1, <1>2 DEF FlowTypes
<1>8. a \in Payments =>
        /\ executed'[a] <= 1
        /\ executed'[a] = 1 => handler'[h].pc \in Recording
  BY <1>4, <1>5, <1>6, <1>7 DEF Recording
<1>9. HandlerPays(h, a)'
  BY <1>4, <1>5 DEF HandlerPays, Unpaid, Opening, Executing
<1>. QED
  BY <1>1, <1>2, <1>3, <1>4, <1>7, <1>8, <1>9, PayMove

\* The receipt, the settled mark and the charge.
LEMMA SettlePays ==
  ASSUME IInv, Ledger!TypeOK, PayInv, CallsTakeTurns, CallsTakeTurns', NEW h \in Handlers,
         \/ CreateActionReceipt(h, "createReceipt", "markSettled")
         \/ CreateActionReceipt(h, "directReceipt", "directSettled")
         \/ MarkSettled(h) \/ ChargeReservation(h) \/ MarkResumed(h) \/ Notify(h)
         \/ DirectMarkSettled(h) \/ DirectCharge(h)
  PROVE  PayInv'
<1>. USE DEF IInv, ProgramCounters, DirectCounters
<1>1. PICK a \in Actions :
        handler[h].action = a /\ handler[h] # Idle /\ handler[h] \in HandlerRecord /\ On(h, a)
  BY PayAt DEF CreateActionReceipt, MarkSettled, ChargeReservation, MarkResumed, Notify,
     DirectMarkSettled, DirectCharge
<1>2. UNCHANGED <<executed, crashesLeft>>
  BY DEF CreateActionReceipt, MarkSettled, ChargeReservation, MarkResumed, Notify,
     DirectMarkSettled, DirectCharge, records, ghosts, bounds
<1>3. CASE MarkSettled(h) \/ DirectMarkSettled(h)
  <2>1. /\ \A g \in Handlers : g # h => handler'[g] = handler[g]
        /\ handler'[h].action = a /\ handler'[h].pc \in {"charge", "directCharge"}
        /\ handler'[h] # Idle
    <3>1. /\ handler'[h].action = a /\ handler'[h].pc \in {"charge", "directCharge"}
          /\ handler' = [handler EXCEPT ![h] = handler'[h]]
      BY <1>1, <1>3, GotoStep DEF MarkSettled, DirectMarkSettled
    <3>. QED
      BY <3>1 DEF Idle, FlowTypes
  <2>2. /\ intent'[a] = "settled" /\ \A b \in Actions : b # a => intent'[b] = intent[b]
        /\ UNCHANGED ledger
    BY <1>1, <1>3 DEF MarkSettled, DirectMarkSettled, SetIntent, FlowTypes
  <2>3. \A b \in Actions : b # a => (Shut(b) => Shut(b)')
    BY <2>2 DEF Shut, StateOf, ledger
  <2>4. HandlerPays(h, a)' /\ handler'[h].pc \in Recording
    BY <2>1, <2>2 DEF HandlerPays, Unpaid, Opening, Executing, Recording
  <2>5. a \in Payments => executed'[a] <= 1
    BY <1>2 DEF PayInv
  <2>. QED
    BY <1>1, <1>2, <2>1, <2>2, <2>3, <2>4, <2>5, PayMove
<1>4. CASE ~MarkSettled(h) /\ ~DirectMarkSettled(h)
  <2>1. intent' = intent
    BY <1>4 DEF CreateActionReceipt, ChargeReservation, MarkResumed, Notify, DirectCharge, records
  <2>2. Onward
    BY <1>1, <1>4, CloseStates, SameStates DEF CreateActionReceipt, ChargeReservation,
       MarkResumed, Notify, DirectCharge
  <2>3. /\ handler' = [handler EXCEPT ![h] = handler'[h]]
        /\ handler'[h] # Idle => handler'[h].action = a
        /\ handler'[h].pc \notin Unpaid \cup {"charge", "directCharge"}
    BY <1>1, <1>4, GotoStep, ReturnStep DEF CreateActionReceipt, ChargeReservation, MarkResumed,
       Notify, DirectCharge, Unpaid, Opening, Executing, Idle
  <2>4. CASE ChargeReservation(h) \/ DirectCharge(h)
    <3>1. handler[h].pc \in {"charge", "directCharge"}
      BY <2>4 DEF ChargeReservation, DirectCharge, At
    <3>2. a \in Payments => intent[a] = "settled"
      BY <1>1, <3>1 DEF PayInv, HandlerPays
    <3>3. StateOf(a)' # "reserved"
      <4>1. CASE Ledger!Settle(a, reservation[a].holding)
        BY <1>1, <4>1, CloseStates
      <4>2. CASE reservation[a].state # "reserved" /\ UNCHANGED ledger
        BY <4>2 DEF StateOf, ledger
      <4>. QED
        BY <1>1, <2>4, <4>1, <4>2 DEF ChargeReservation, DirectCharge
    <3>4. a \in Payments => Shut(a)'
      BY <2>1, <3>2, <3>3 DEF Shut
    <3>. QED
      BY <1>1, <1>2, <2>1, <2>2, <2>3, <3>4, PayGoesOn
  <2>5. CASE ~ChargeReservation(h) /\ ~DirectCharge(h)
    <3>1. \/ handler[h].pc \notin Recording
          \/ handler'[h] # Idle /\ handler'[h].pc \in Recording
      <4>1. ASSUME NEW from \in {"createReceipt", "directReceipt"},
                   NEW to \in {"markSettled", "directSettled"}, CreateActionReceipt(h, from, to)
            PROVE  handler'[h].pc \in {"markSettled", "directSettled"}
        BY <1>1, <4>1, GotoStep DEF CreateActionReceipt
      <4>2. CASE MarkResumed(h) \/ Notify(h)
        BY <4>2, PayAt DEF MarkResumed, Notify, Recording
      <4>. QED
        BY <1>4, <2>5, <4>1, <4>2 DEF Recording, Idle
    <3>. QED
      BY <1>1, <1>2, <2>1, <2>2, <2>3, <3>1, PayGoesOn
  <2>. QED
    BY <2>4, <2>5
<1>. QED
  BY <1>3, <1>4

\* The only request of an action finds it unpaid.
LEMMA CreatePays ==
  ASSUME IInv, PayInv, AllRequests = 1, CallsTakeTurns, CallsTakeTurns',
         NEW h \in Handlers, NEW a \in Actions, CreateIntent(h, a) \/ CreateDirectIntent(h, a)
  PROVE  PayInv'
<1>. USE DEF IInv
<1>1. /\ intent' = [intent EXCEPT ![a] = "created"]
      /\ UNCHANGED <<executed, ledger, crashesLeft>>
      /\ callsLeft[a]["request"] > 0 \/ callsLeft[a]["direct"] > 0
  BY DEF CreateIntent, CreateDirectIntent, SetIntent, Call, ghosts
<1>2. executed[a] = 0
  <2>1. callsLeft[a]["request"] \in Nat /\ callsLeft[a]["direct"] \in Nat
    BY DEF FlowTypes, Operations
  <2>2. RequestsLeft(a) >= 1 /\ RequestsLeft(a) \in Nat
    BY <1>1, <2>1 DEF RequestsLeft
  <2>3. RequestsLeft(a) <= AllRequests
    BY DEF FirstOpens, AllRequests
  <2>4. RequestsLeft(a) = AllRequests
    BY <2>2, <2>3
  <2>. QED
    BY <2>4 DEF FirstOpens, Untouched, AllRequests
<1>3. ASSUME NEW pc \in {"reserve", "directReserve"}, Start(h, a, pc, "none")
      PROVE  /\ handler[h] = Idle
             /\ handler'[h].action = a /\ handler'[h].pc = pc /\ handler'[h] # Idle
             /\ \A g \in Handlers : g # h => handler'[g] = handler[g]
  <2>1. /\ handler[h] = Idle
        /\ handler'[h] = [pc |-> pc, action |-> a, decision |-> "none"]
        /\ \A g \in Handlers : g # h => handler'[g] = handler[g]
    BY <1>3 DEF Start, FlowTypes
  <2>2. handler'[h].pc # "idle"
    BY <2>1
  <2>. QED
    BY <2>1, <2>2 DEF Idle
<1>4. /\ handler[h] = Idle
      /\ handler'[h].action = a /\ handler'[h].pc \in {"reserve", "directReserve"}
      /\ handler'[h] # Idle
      /\ \A g \in Handlers : g # h => handler'[g] = handler[g]
  BY <1>3 DEF CreateIntent, CreateDirectIntent
<1>5. \A b \in Actions : b # a => intent'[b] = intent[b] /\ (Shut(b) => Shut(b)')
  BY <1>1 DEF Shut, StateOf, ledger, FlowTypes
<1>6. On(h, a)' /\ HandlerPays(h, a)'
  BY <1>1, <1>2, <1>4 DEF On, HandlerPays
<1>. QED
  BY <1>1, <1>2, <1>4, <1>5, <1>6, PayMove

\* A step of no handler leaves the payments alone.
LEMMA PaySame ==
  ASSUME PayInv, UNCHANGED <<handler, intent, executed, ledger, crashesLeft>>
  PROVE  PayInv'
BY DEF PayInv, HandlerPays, Shut, StateOf, On, ledger

LEMMA CallPays ==
  ASSUME IInv, PayInv, CallsTakeTurns, CallsTakeTurns', NEW a \in Actions,
         \/ ResumeApprovalSession(a)
         \/ \E h \in Handlers :
              \/ StartResume(h, a)
              \/ \E result \in Results : ApplyApprovalResult(h, a, result)
  PROVE  PayInv'
<1>. USE DEF IInv
<1>1. UNCHANGED <<intent, executed, ledger, crashesLeft>>
  BY DEF ResumeApprovalSession, StartResume, ApplyApprovalResult, Call, ghosts
<1>2. \/ handler' = handler
      \/ \E h \in Handlers, pc \in {"readIntent", "close"} :
           \E decision : Start(h, a, pc, decision)
  BY DEF ResumeApprovalSession, StartResume, ApplyApprovalResult
<1>. QED
  BY <1>1, <1>2, PaySame, PayStart

LEMMA NextPays ==
  /\ IInv /\ Ledger!TypeOK /\ InTurn /\ PayInv
  /\ CallsTakeTurns /\ CallsTakeTurns' /\ [DirectNext]_vars
  => PayInv'
<1>. SUFFICES ASSUME IInv, Ledger!TypeOK, InTurn, PayInv, CallsTakeTurns, CallsTakeTurns',
                     [DirectNext]_vars
     PROVE  PayInv'
  OBVIOUS
<1>1. AllRequests = 1 /\ \A outcome \in RailOutcomes : outcome \in RailOutcomes \ {"lost"}
  BY DEF InTurn, AllRequests
<1>2. CASE NewCall
  BY <1>1, <1>2, CallPays, CreatePays DEF NewCall
<1>3. ASSUME NEW h \in Handlers, HandlerStep(h) PROVE PayInv'
  <2>1. CASE RequestStep(h)
    BY <2>1, RequestPays DEF RequestStep
  <2>2. CASE CloseStep(h)
    BY <2>2, RequestPays, ReleasePays DEF CloseStep
  <2>3. CASE ResumeStep(h)
    BY <1>1, <2>3, ReadPays, ExecutePays, ReleasePays, SettlePays DEF ResumeStep
  <2>. QED
    BY <1>3, <2>1, <2>2, <2>3 DEF HandlerStep
<1>4. ASSUME NEW h \in Handlers, DirectStep(h) PROVE PayInv'
  BY <1>1, <1>4, RequestPays, ExecutePays, ReleasePays, SettlePays DEF DirectStep
<1>5. ~Crash
  BY DEF Crash, PayInv
<1>6. CASE UNCHANGED vars
  BY <1>6, PaySame DEF vars, records, ghosts, bounds
<1>. QED
  BY <1>1, <1>2, <1>3, <1>4, <1>5, <1>6, CreatePays DEF DirectNext, Next

\* As long as no two calls on the same action are under way at a time, a payment
\* that is requested once is made once, however often it is resumed, whatever
\* results are applied and whatever the rail refuses: a replayed call then does not
\* settle it twice (trusted-surface-callback-contract.md:435).  Without any one of
\* the conditions a second payment is possible, and a resource action, which
\* has no such check, may execute again even so.
THEOREM PaymentsInTurnSettleOnce ==
  ASSUME InTurn
  PROVE  DirectSpec /\ []CallsTakeTurns => [](\A a \in Payments : executed[a] <= 1)
<1>1. Init => PayInv
  BY DEF InTurn, Init, PayInv, On
<1>2. TypeOK => Ledger!TypeOK
  BY DEF TypeOK
<1>3. PayInv => \A a \in Payments : executed[a] <= 1
  BY DEF PayInv
<1>. QED
  BY <1>1, <1>2, <1>3, NextPays, Invariant, TypeCorrect, PTL DEF DirectSpec

=============================================================================

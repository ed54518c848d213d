----------------------------- MODULE DirectFlow -----------------------------
(***************************************************************************)
(* The direct flows of AFAL, executePayment and settleResourceUsage        *)
(* (backend/afal/mock/orchestrator.ts), beside the approval flow on the    *)
(* same records: one call that reserves, asks the trusted surface of the   *)
(* process itself, executes, and only as its very last write charges the   *)
(* reservation.  It has no pending execution, so nothing can resume it,    *)
(* and it notifies nobody.                                                 *)
(***************************************************************************)
EXTENDS ApprovalFlow

\* A direct call on an action that awaits its approval replaces the intent, and
\* below the session, of the approval flow: both have the same identifiers.
CreateDirectIntent(h, a) ==
  /\ Call(a, "direct")
  /\ Start(h, a, "directReserve", "none")
  /\ SetIntent(a, "created")
  /\ UNCHANGED <<session, priorDecision, pending, receipts, ledger, ghosts>>

DirectReserve(h) ==
  LET a == handler[h].action
  IN  /\ At(h, "directReserve")
      /\ \/ /\ ReserveFor(a)
            /\ Goto(h, "directEvaluate")
         \/ /\ Return(h)
            /\ UNCHANGED <<ledger, asked>>
      /\ UNCHANGED <<records, executed, approvals, notified, bounds>>

DirectEvaluate(h) ==
  LET a == handler[h].action
  IN  /\ At(h, "directEvaluate")
      /\ \/ /\ priorDecision' = [priorDecision EXCEPT ![a] = "challenge-required"]
            /\ Goto(h, "directOpen")
         \/ /\ Return(h)
            /\ UNCHANGED priorDecision
      /\ UNCHANGED <<intent, session, pending, receipts, ledger, ghosts, bounds>>

DirectOpenSession(h) ==
  /\ At(h, "directOpen")
  /\ session' = [session EXCEPT ![handler[h].action] = FreshSession]
  /\ Goto(h, "directChallenge")
  /\ UNCHANGED <<intent, priorDecision, pending, receipts, ledger, ghosts, bounds>>

DirectMarkChallenge(h) ==
  /\ At(h, "directChallenge")
  /\ SetIntent(handler[h].action, "pending-approval")
  /\ Goto(h, "directApply")
  /\ UNCHANGED <<session, priorDecision, pending, receipts, ledger, ghosts, bounds>>

\* The surface is a port of the orchestrator; those of the program approve.
DirectApply(h, result) ==
  LET a == handler[h].action
  IN  /\ At(h, "directApply")
      /\ session' = [session EXCEPT ![a].result = result]
      /\ approvals' = IF result = "approved" THEN approvals \cup {a} ELSE approvals
      /\ Goto(h, "directResume")
      /\ UNCHANGED <<intent, priorDecision, pending, receipts, ledger,
                     executed, notified, asked, bounds>>

\* A request may have reopened the session meanwhile: it has no result then.
DirectResume(h) ==
  LET a == handler[h].action
  IN  /\ At(h, "directResume")
      /\ \/ /\ ResumeSession(a)
            /\ handler' = [handler EXCEPT ![h].pc = "directDecide", ![h].decision = DecisionOf(a)]
         \/ /\ session[a].result = "none"
            /\ Return(h)
            /\ UNCHANGED <<session, priorDecision>>
      /\ UNCHANGED <<intent, pending, receipts, ledger, ghosts, bounds>>

DirectDecide(h) ==
  /\ At(h, "directDecide")
  /\ Goto(h, IF handler[h].decision = "approved" THEN "directExecute" ELSE "directRelease")
  /\ UNCHANGED <<records, ledger, ghosts, bounds>>

DirectExecute(h, outcome) ==
  /\ At(h, "directExecute")
  /\ executed' = [executed EXCEPT ![handler[h].action] =
       IF outcome = "refused" THEN @ ELSE @ + 1]
  /\ Goto(h, IF outcome = "ok" THEN "directReceipt" ELSE "directRelease")
  /\ UNCHANGED <<records, ledger, approvals, notified, asked, bounds>>

\* After a decision against it or a failure of the rail the call throws, once it
\* has released what it can; the intent stays as it is.
DirectRelease(h) ==
  LET a == handler[h].action
  IN  /\ At(h, "directRelease")
      /\ \/ Ledger!Release(a, reservation[a].holding)
         \/ /\ reservation[a].state # "reserved"
            /\ UNCHANGED ledger
      /\ Return(h)
      /\ UNCHANGED <<records, ghosts, bounds>>

DirectMarkSettled(h) ==
  /\ At(h, "directSettled")
  /\ SetIntent(handler[h].action, "settled")
  /\ Goto(h, "directCharge")
  /\ UNCHANGED <<session, priorDecision, pending, receipts, ledger, ghosts, bounds>>

\* A reservation that is no longer active makes the settled call throw.
DirectCharge(h) ==
  LET a == handler[h].action
  IN  /\ At(h, "directCharge")
      /\ \/ Ledger!Settle(a, reservation[a].holding)
         \/ /\ reservation[a].state # "reserved"
            /\ UNCHANGED ledger
      /\ Return(h)
      /\ UNCHANGED <<records, ghosts, bounds>>

DirectStep(h) ==
  \/ DirectReserve(h) \/ DirectEvaluate(h) \/ DirectOpenSession(h) \/ DirectMarkChallenge(h)
  \/ \E result \in Results : DirectApply(h, result)
  \/ DirectResume(h) \/ DirectDecide(h)
  \/ \E outcome \in RailOutcomes : DirectExecute(h, outcome)
  \/ CreateActionReceipt(h, "directReceipt", "directSettled")
  \/ DirectRelease(h) \/ DirectMarkSettled(h) \/ DirectCharge(h)

DirectNext ==
  \/ Next
  \/ \E h \in Handlers : DirectStep(h) \/ \E a \in Actions : CreateDirectIntent(h, a)

DirectSpec == Init /\ [][DirectNext]_vars

=============================================================================

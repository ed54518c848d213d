----------------------------- MODULE PaymentTool -----------------------------
(***************************************************************************)
(* The payment tools that agents are given, and what they rely on: the MCP *)
(* server (packages/payment-mcp, samples/afal-mcp-server), the runtime tool *)
(* and the agent with a language model (samples/agent-payment-tool), the    *)
(* wallet demo (agents/test-harness), the client of the SDK (sdk/client)    *)
(* and the trusted surface stub (app/trusted-surface), over AFAL and the    *)
(* rail.                                                                   *)
(*                                                                         *)
(* A run of a tool is a sequence of requests to AFAL: it asks for an       *)
(* approval, may wait for a browser wallet, approves and resumes, and reads *)
(* the status of the action to decide whether the service is delivered.    *)
(* The tools build every intent with the same identifier, so all runs are  *)
(* about one action, and the MCP server handles the calls it receives       *)
(* concurrently: what one run stored, another replaces.                    *)
(*                                                                         *)
(* These clients need the SQLite server. Intents and sessions are in its    *)
(* database, which answers at once; the identities, the settlements and the *)
(* outputs (receipts and capability responses) are JSON files, and while a  *)
(* request waits for a file, or for the rail, others proceed. A file is     *)
(* read, and later written, as a whole. ApprovalFlow has the capacity, the  *)
(* crashes and the results other than "approved", WalletRail the steps of   *)
(* the verification, the retries, and what a claim leaves open: the token,  *)
(* which is not told apart here.                                           *)
(***************************************************************************)
EXTENDS Naturals, Sequences

CONSTANTS
    Runs,       \* the calls of the tools that can be in progress, numbered
    Terms,      \* payee and amount, as named in an agent's message
    SeedTerms,  \* those of the settlement the rail is seeded with
    Rails,      \* the ways the rail may be started
    MaxTxs,     \* bound on transfers
    MaxCalls,   \* bound on the calls of the tools
    NoTerms

Tools == {"pay_and_gate", "request_payment", "request_and_wait",
          "approve_resume", "provider_gate", "model_agent", "wallet_demo"}
Modes == {"wallet", "agent-wallet", "approving"}

\* What a gate may be told to compare, each option by itself.
Checks == {"payee", "amount", "chain"}

ASSUME ToolAssumption ==
    /\ Terms \subseteq [payee : STRING, amount : Nat]
    /\ Rails \subseteq [verify : BOOLEAN, agent : BOOLEAN, require : BOOLEAN]
    /\ MaxCalls \in Nat
    /\ Runs \subseteq Nat /\ MaxTxs \in Nat
    /\ SeedTerms \in Terms /\ NoTerms \notin Terms

\* Transfers are numbered as they are made.
Txs == 1..MaxTxs
NoTx == 0
SeedTx == MaxTxs + 1  \* the hash in the settlement the rail is seeded with
Hashes == Txs \cup {SeedTx}

VARIABLES
    rail,          \* how the rail was started
    intent,        \* the action's payment intent
    session,       \* its approval session: the terms shown, and the result
    confirmation,  \* what the rail has registered for the action
    settlement,    \* which settlements of the action there are, in AFAL's file
    receipt,       \* the action's payment receipt, in AFAL's file of outputs
    chain,         \* the terms of the transfers made
    links,         \* the terms of the wallet addresses given out
    run,           \* the calls of the tools
    torn,          \* the session was not opened by the request whose intent is stored (history)
    mixed,         \* a request replaced what another was using (history)
    calls          \* what has been used of the bound

vars == <<rail, intent, session, confirmation, settlement, receipt, chain,
          links, run, torn, mixed, calls>>
afal == <<intent, session, settlement, receipt, torn, mixed>>
outside == <<rail, confirmation, chain, links, calls>>

\* settlementRef: that of the seeded settlement, or of any transfer's.
Refs == {"none", "seed", "wallet"}
RefOf(payment) == IF payment.tx = SeedTx THEN "seed" ELSE "wallet"

NoIntent == [terms |-> NoTerms, status |-> "none", ref |-> "none"]
NoSession == [terms |-> NoTerms, approved |-> FALSE]
NoPayment == [terms |-> NoTerms, tx |-> NoTx]
Payment == [terms : Terms, tx : Hashes]
Seed == [terms |-> SeedTerms, tx |-> SeedTx]

\* read: the terms a resume or a gate has read, and shown: those of the session.
\* paid: what the rail answered.  tx: the transfer the gate must find, and expects:
\* what else it compared; ref: the settlement of the intent it read.
\* put: where the request goes on when its record is in the file of outputs, and
\* saved: the receipt it read there.
Pcs == {"idle", "deciding", "request", "checking", "requested", "prompted", "confirming",
        "polling", "approve", "resume", "settledBefore", "outputs", "writing", "atRail",
        "signing", "mining", "answered", "paymentReceipt", "gate", "status",
        "reading", "delivered"}
Puts == {"none", "requested", "atRail", "paymentReceipt", "resumed"}
SomeTerms == Terms \cup {NoTerms}
SomePayment == Payment \cup {NoPayment}
RunRecord ==
    [pc : Pcs, put : Puts, saved : SomePayment,
     tool : Tools \cup {"none"}, mode : Modes \cup {"none"},
     terms : SomeTerms, read : SomeTerms, shown : SomeTerms, torn : BOOLEAN,
     paid : SomePayment, tx : Hashes \cup {NoTx}, expects : SUBSET Checks, ref : Refs]
IdleRun == [pc |-> "idle", tool |-> "none", mode |-> "none", terms |-> NoTerms,
            read |-> NoTerms, shown |-> NoTerms, torn |-> FALSE,
            paid |-> NoPayment, tx |-> NoTx, put |-> "none", saved |-> NoPayment,
            expects |-> {}, ref |-> "none"]

At(r, pc) == run[r].pc = pc
Goto(r, pc) == run' = [run EXCEPT ![r].pc = pc]
End(r) == run' = [run EXCEPT ![r] = IdleRun]

-----------------------------------------------------------------------------
(* The calls. handleMcpRequest and runAgentRuntimeTool run the tool; any    *)
(* error it throws ends it. Of the results only a delivery is kept.         *)

Free == {r \in Runs : run[r].pc \in {"idle", "delivered"}}
FirstFree(r) == r \in Free /\ \A q \in Free : r <= q

Call(r, start) ==
    /\ calls < MaxCalls
    /\ FirstFree(r)
    /\ run' = [run EXCEPT ![r] = start]
    /\ calls' = calls + 1
    /\ UNCHANGED <<afal, rail, confirmation, chain, links>>

ToRequest(tool, terms, mode) ==
    [IdleRun EXCEPT !.pc = "request", !.tool = tool, !.terms = terms, !.mode = mode]
ToGate(tool, terms, tx) ==
    [IdleRun EXCEPT !.pc = "gate", !.tool = tool, !.terms = terms, !.tx = tx]
ToApprove(tool) == [IdleRun EXCEPT !.pc = "approve", !.tool = tool]

(* The terms are named in the agent's message.                              *)
CallPayAndGate(r, terms, mode) ==
    /\ mode \in {"wallet", "agent-wallet"}
    /\ Call(r, ToRequest("pay_and_gate", terms, mode))

CallRequestPayment(r, terms, tool) ==
    /\ tool \in {"request_payment", "request_and_wait"}
    /\ Call(r, ToRequest(tool, terms, "wallet"))

CallApproveResume(r) == Call(r, ToApprove("approve_resume"))

(* What it is told to compare is chosen below, where it is looked at.       *)
CallProviderGate(r) == Call(r, ToGate("provider_gate", NoTerms, NoTx))

(* The demo approves of itself, or leaves that to others.                   *)
CallWalletDemo(r, terms, approves) ==
    Call(r, ToRequest("wallet_demo", terms, IF approves THEN "approving" ELSE "wallet"))

CallModelAgent(r) == Call(r, [IdleRun EXCEPT !.pc = "deciding", !.tool = "model_agent"])

(* A request of the client fails, before AFAL has done anything, or where   *)
(* the step before is done, with its answer; or AFAL reads a file while it  *)
(* is being written.                                                        *)
RequestFails(r) ==
    /\ run[r].pc \in {"request", "polling", "prompted", "confirming", "approve", "resume",
                      "gate", "reading", "outputs", "settledBefore", "status"}
    /\ End(r)
    /\ UNCHANGED <<afal, outside>>

(* The model answers with a payment, whose terms are those of its own       *)
(* message and not of the one it was given: the agent requests it, ...      *)
ModelDecides(r, terms) ==
    /\ At(r, "deciding")
    /\ run' = [run EXCEPT ![r] = ToRequest("request_payment", terms, "wallet")]
    /\ UNCHANGED <<afal, outside>>

(* ... or aborts, fails or answers something else.                          *)
ModelAborts(r) ==
    /\ At(r, "deciding")
    /\ End(r)
    /\ UNCHANGED <<afal, outside>>

-----------------------------------------------------------------------------
(* What a tool does next.                                                  *)

(* The tool answers, or waits for the receipt first.                        *)
AfterPaymentTool(r) ==
    IF run[r].tool = "request_and_wait" THEN [IdleRun EXCEPT !.pc = "polling"] ELSE IdleRun

AfterRequest(r) ==
    CASE run[r].tool = "wallet_demo"  -> [run[r] EXCEPT !.pc = "prompted", !.terms = NoTerms]
      [] run[r].tool # "pay_and_gate" -> AfterPaymentTool(r)
      [] run[r].mode = "wallet"       -> [run[r] EXCEPT !.pc = "confirming"]
      [] OTHER                        -> [run[r] EXCEPT !.pc = "approve"]

(* The transfer the settled payment names is all a tool takes of it.        *)
AfterApproveResume(r, tx) == ToGate(run[r].tool, run[r].terms, tx)

(* With the payment settled, the tool goes on to the gate, the status, or   *)
(* ends. The gate expects the transfer that was waited for, else the one    *)
(* the payment names.                                                      *)
AfterResume(r, tx) ==
    CASE run[r].tool = "approve_resume" -> IdleRun
      [] run[r].tool = "wallet_demo"    -> [IdleRun EXCEPT !.pc = "reading"]
      [] OTHER -> AfterApproveResume(r, IF run[r].tx = NoTx THEN tx ELSE run[r].tx)

-----------------------------------------------------------------------------
(* The file of outputs: a request that puts a record reads the file, and    *)
(* then writes it.                                                          *)

Put(r, start, then) ==
    run' = [run EXCEPT ![r] = [start EXCEPT !.pc = "outputs", !.put = then]]

ReadSnapshot(r) ==
    /\ At(r, "outputs")
    /\ run' = [run EXCEPT ![r].pc = "writing",
           ![r].saved = IF run[r].put = "paymentReceipt" THEN NoPayment ELSE receipt]
    /\ UNCHANGED <<afal, outside>>

(* Of the records only the payment receipt is told apart: another record    *)
(* leaves the one that was read, in place of one written since.             *)
WriteSnapshot(r) ==
    /\ At(r, "writing")
    /\ receipt' = IF run[r].put = "paymentReceipt" THEN run[r].paid ELSE run[r].saved
    /\ mixed' = (mixed \/ (run[r].put # "paymentReceipt" /\ run[r].saved # receipt))
    /\ run' = [run EXCEPT ![r] =
           IF run[r].put = "resumed" THEN AfterResume(r, run[r].paid.tx)
           ELSE [@ EXCEPT !.pc = run[r].put, !.put = "none", !.saved = NoPayment]]
    /\ UNCHANGED <<intent, session, settlement, torn, outside>>

-----------------------------------------------------------------------------
(* Asking for an approval.                                                 *)

(* Whatever the message says, the intent has the one identifier: its terms  *)
(* are all that tells it from another.                                     *)
PaymentIntent(terms, status) == [terms |-> terms, status |-> status, ref |-> "none"]

ApprovalRequest(terms) == [terms |-> terms, approved |-> FALSE]

\* Runs that have read the intent and will mark it, or decide by it.
Using(r) == run[r].read # NoTerms

(* The intent is replaced, whatever it was, and the identity and the        *)
(* credentials are read next.                                               *)
CreatePaymentIntent(r) ==
    /\ At(r, "request")
    /\ intent' = PaymentIntent(run[r].terms, "created")
    /\ torn' = TRUE
    /\ mixed' = (mixed \/ \E q \in Runs \ {r} : Using(q))
    /\ run' = [q \in Runs |-> IF q = r THEN [run[q] EXCEPT !.pc = "checking"]
                              ELSE IF At(q, "checking") THEN [run[q] EXCEPT !.torn = TRUE]
                              ELSE run[q]]
    /\ UNCHANGED <<session, settlement, receipt, outside>>

(* The identity, a credential or the budget refuses: the intent has been    *)
(* replaced, and the session has not.                                      *)
RequestRefused(r) ==
    /\ At(r, "checking")
    /\ End(r)
    /\ UNCHANGED <<afal, outside>>

(* Wrong: a session that exists is used again. *)
OpenSessionOnce(r) ==
    /\ At(r, "checking")
    /\ session' = IF session = NoSession THEN ApprovalRequest(run[r].terms) ELSE session
    /\ intent' = [intent EXCEPT !.status = "pending-approval"]
    /\ torn' = run[r].torn
    /\ Put(r, [run[r] EXCEPT !.torn = FALSE], "requested")
    /\ UNCHANGED <<settlement, receipt, mixed, outside>>

(* The session is opened anew, for the terms of the request; the intent     *)
(* marked is the stored one.                                                *)
OpenSession(r) ==
    /\ At(r, "checking")
    /\ session' = ApprovalRequest(run[r].terms)
    /\ intent' = [intent EXCEPT !.status = "pending-approval"]
    /\ torn' = run[r].torn
    /\ Put(r, [run[r] EXCEPT !.torn = FALSE], "requested")
    /\ UNCHANGED <<settlement, receipt, mixed, outside>>

(* The answer has the action and the session; the tool adds the address of  *)
(* the wallet page, which names the terms.                                  *)
RequestPayment(r) ==
    /\ At(r, "requested")
    /\ links' = links \cup {run[r].terms}
    /\ run' = [run EXCEPT ![r] = AfterRequest(r)]
    /\ UNCHANGED <<afal, rail, confirmation, chain, calls>>

-----------------------------------------------------------------------------
(* The browser wallet. A person who follows the wallet address of a run     *)
(* transfers what it names, once, more often, or when the run is over; and  *)
(* whoever can reach the rail registers a transfer for the action.          *)

Transfer(terms) == Len(chain) < MaxTxs /\ chain' = Append(chain, terms)
NextTransfer(terms) == [terms |-> terms, tx |-> Len(chain) + 1]

PersonPays(terms) ==
    /\ terms \in links
    /\ Transfer(terms)
    /\ UNCHANGED <<afal, rail, confirmation, links, run, calls>>

(* The rail compares what is said of the transfer with the chain if it has  *)
(* a verifier, and believes it if not.                                     *)
Confirm(t, terms) ==
    /\ rail.verify => t \in DOMAIN chain /\ chain[t] = terms
    /\ confirmation' = [terms |-> terms, tx |-> t]
    /\ UNCHANGED <<afal, rail, chain, links, run, calls>>

(* Any confirmation of the action will do, an earlier run's too.            *)
WalletConfirmed(r) ==
    /\ At(r, "confirming")
    /\ confirmation # NoPayment
    /\ run' = [run EXCEPT ![r].pc = "approve", ![r].tx = confirmation.tx]
    /\ UNCHANGED <<afal, outside>>

(* The deadline passes, perhaps as the transfer is being confirmed.         *)
WalletTimesOut(r) ==
    /\ At(r, "confirming")
    /\ End(r)
    /\ UNCHANGED <<afal, outside>>

(* The demo goes on when its user says so, or at once, and whatever the     *)
(* rail knows of a transfer.                                               *)
DemoGoesOn(r) ==
    /\ At(r, "prompted")
    /\ run' = [run EXCEPT ![r] =
           IF run[r].mode = "approving" THEN ToApprove("wallet_demo")
           ELSE [IdleRun EXCEPT !.pc = "reading"]]
    /\ UNCHANGED <<afal, outside>>

-----------------------------------------------------------------------------
(* Approving and resuming.                                                 *)

(* Wrong: a result is applied to a session that does not exist. *)
ApproveUnopened(r) ==
    /\ At(r, "approve")
    /\ session' = [session EXCEPT !.approved = TRUE]
    /\ Goto(r, "resume")
    /\ UNCHANGED <<intent, settlement, receipt, torn, mixed, outside>>

(* The session is read and the result applied, for whatever it shows now.   *)
(* What the tool reads of a session is the same for all requests.          *)
Approve(r) ==
    /\ At(r, "approve")
    /\ IF session = NoSession
       THEN End(r) /\ UNCHANGED session
       ELSE /\ session' = [session EXCEPT !.approved = TRUE]
            /\ Goto(r, "resume")
    /\ UNCHANGED <<intent, settlement, receipt, torn, mixed, outside>>

(* A session opened anew has no result; a payment that is settled is        *)
(* answered from its receipt; else the approval receipt is put, and the     *)
(* rail called.                                                             *)
Resume(r) ==
    /\ At(r, "resume")
    /\ IF ~session.approved THEN End(r)
       ELSE IF intent.status = "settled" THEN Goto(r, "settledBefore")
       ELSE Put(r, [run[r] EXCEPT !.read = intent.terms, !.shown = session.terms,
                                  !.torn = torn], "atRail")
    /\ UNCHANGED <<afal, outside>>

ReadReceipt(r) ==
    /\ At(r, "settledBefore")
    /\ IF receipt = NoPayment THEN End(r)
       ELSE run' = [run EXCEPT ![r] = AfterResume(r, receipt.tx)]
    /\ UNCHANGED <<afal, outside>>

(* executePayment at the rail: a confirmation of the action must be of the  *)
(* intent's terms.                                                         *)
RailFindsConfirmation(r) ==
    /\ At(r, "atRail")
    /\ confirmation # NoPayment
    /\ IF confirmation.terms = run[r].read
       THEN run' = [run EXCEPT ![r].pc = "answered", ![r].paid = confirmation]
       ELSE End(r)
    /\ UNCHANGED <<afal, outside>>

(* Without one, the agent wallet pays, if the rail has one; ...              *)
RailFindsNone(r) ==
    /\ At(r, "atRail")
    /\ confirmation = NoPayment /\ rail.agent
    /\ Goto(r, "signing")
    /\ UNCHANGED <<afal, outside>>

(* ... or the rail settles from its seed, if it asks for no wallet.          *)
RailSettlesFromSeed(r) ==
    /\ At(r, "atRail")
    /\ confirmation = NoPayment /\ ~rail.agent /\ ~rail.require
    /\ run' = [run EXCEPT ![r].pc = "answered", ![r].paid = Seed]
    /\ UNCHANGED <<afal, outside>>

AgentPays(r) ==
    /\ At(r, "signing")
    /\ Transfer(run[r].read)
    /\ run' = [run EXCEPT ![r].pc = "mining", ![r].paid = NextTransfer(run[r].read)]
    /\ UNCHANGED <<afal, rail, confirmation, links, calls>>

RailRegisters(r) ==
    /\ At(r, "mining")
    /\ confirmation' = run[r].paid
    /\ Goto(r, "answered")
    /\ UNCHANGED <<afal, rail, chain, links, calls>>

(* Nothing is confirmed, the signer refuses, the command times out, the      *)
(* rail is unavailable.                                                     *)
RailFails(r) ==
    /\ run[r].pc \in {"atRail", "signing", "mining"}
    /\ End(r)
    /\ UNCHANGED <<afal, outside>>

(* AFAL has the answer. The settlement replaces an earlier one of the same   *)
(* identifier, the receipt the earlier receipt of the action.               *)
PutSettlement(r) ==
    /\ At(r, "answered")
    /\ settlement' = settlement \cup {RefOf(run[r].paid)}
    /\ Put(r, [run[r] EXCEPT !.shown = NoTerms, !.torn = FALSE], "paymentReceipt")
    /\ UNCHANGED <<intent, session, receipt, torn, mixed, outside>>

(* The intent marked settled is the stored one, which may no longer be the  *)
(* one that was executed.                                                   *)
MarkSettled(r) ==
    /\ At(r, "paymentReceipt")
    /\ intent' = [intent EXCEPT !.status = "settled", !.ref = RefOf(run[r].paid)]
    /\ Put(r, [run[r] EXCEPT !.read = NoTerms], "resumed")
    /\ UNCHANGED <<session, settlement, receipt, torn, mixed, outside>>

-----------------------------------------------------------------------------
(* Reading the status: getActionStatus reads the intent, and then the files. *)

ReadIntent(r) ==
    /\ At(r, "gate")
    /\ IF intent.status = "settled"
       THEN run' = [run EXCEPT ![r].pc = "status", ![r].read = intent.terms,
                               ![r].ref = intent.ref]
       ELSE End(r)
    /\ UNCHANGED <<afal, outside>>

(* The settlement the intent names is there, and the receipt is of it.      *)
Settled(r) == /\ run[r].ref \in settlement
              /\ receipt # NoPayment /\ RefOf(receipt) = run[r].ref

(* Wrong: the amount is not compared. *)
GateOpenForAnyAmount(r, terms, tx, expects) ==
    /\ Settled(r)
    /\ "payee" \in expects => run[r].read.payee = terms.payee
    /\ "chain" \in expects => receipt.tx # SeedTx
    /\ tx \in {NoTx, receipt.tx}

(* evaluateProviderGate, evaluateProviderReceiptGate, as far as they are    *)
(* told: the payee is that of the intent, the amount, the chain (the seeded *)
(* settlement's is another) and the transfer those of the receipt.         *)
GateOpen(r, terms, tx, expects) ==
    /\ Settled(r)
    /\ "payee" \in expects => run[r].read.payee = terms.payee
    /\ "amount" \in expects => receipt.terms.amount = terms.amount
    /\ "chain" \in expects => receipt.tx # SeedTx
    /\ tx \in {NoTx, receipt.tx}

ProviderGate(r, terms, tx, expects) ==
    /\ At(r, "status")
    /\ run' = [run EXCEPT ![r] =
           IF GateOpen(r, terms, tx, expects)
           THEN [IdleRun EXCEPT !.pc = "delivered", !.terms = terms, !.paid = receipt,
                                !.expects = expects]
           ELSE IdleRun]
    /\ UNCHANGED <<afal, outside>>

(* pay_and_gate has everything compared, ...                                *)
GateOfTool(r) ==
    run[r].tool # "provider_gate" /\ ProviderGate(r, run[r].terms, run[r].tx, Checks)

(* ... a caller of the gate itself what it likes.                           *)
GateOfCaller(r, terms, tx, expects) ==
    run[r].tool = "provider_gate" /\ ProviderGate(r, terms, tx, expects)

(* The demo shows the status, whatever it is.                               *)
PayeeReads(r) ==
    /\ At(r, "reading")
    /\ End(r)
    /\ UNCHANGED <<afal, outside>>

(* waitForPaymentReceipt: until the payment is settled, when its receipt is  *)
(* the answer, or the time is over.                                        *)
WaitForPaymentReceipt(r) ==
    /\ At(r, "polling")
    /\ End(r)
    /\ UNCHANGED <<afal, outside>>

-----------------------------------------------------------------------------
Init ==
    /\ rail \in Rails
    /\ intent = NoIntent /\ session = NoSession
    /\ confirmation = NoPayment /\ settlement = {} /\ receipt = NoPayment
    /\ chain = <<>>
    /\ links = {}
    /\ run = [r \in Runs |-> IdleRun]
    /\ torn = FALSE
    /\ mixed = FALSE
    /\ calls = 0

(* What a run does of itself, and what is done for it.                      *)
Proceed(r) ==
    \/ ModelAborts(r) \/ RequestFails(r)
    \/ ReadSnapshot(r) \/ WriteSnapshot(r)
    \/ CreatePaymentIntent(r) \/ RequestRefused(r) \/ OpenSession(r) \/ RequestPayment(r)
    \/ WalletConfirmed(r) \/ WalletTimesOut(r) \/ DemoGoesOn(r)
    \/ Approve(r) \/ Resume(r) \/ ReadReceipt(r)
    \/ RailFindsConfirmation(r) \/ RailFindsNone(r) \/ RailSettlesFromSeed(r)
    \/ AgentPays(r) \/ RailRegisters(r) \/ RailFails(r)
    \/ PutSettlement(r) \/ MarkSettled(r)
    \/ ReadIntent(r) \/ GateOfTool(r) \/ PayeeReads(r) \/ WaitForPaymentReceipt(r)

Next ==
    \/ \E r \in Runs, terms \in Terms :
         \/ \E mode \in Modes : CallPayAndGate(r, terms, mode)
         \/ \E tool \in Tools : CallRequestPayment(r, terms, tool)
         \/ \E tx \in Hashes \cup {NoTx}, expects \in SUBSET Checks :
                GateOfCaller(r, terms, tx, expects)
         \/ \E approves \in BOOLEAN : CallWalletDemo(r, terms, approves)
         \/ ModelDecides(r, terms)
    \/ \E r \in Runs : CallApproveResume(r) \/ CallProviderGate(r) \/ CallModelAgent(r) \/ Proceed(r)
    \/ \E terms \in Terms : PersonPays(terms) \/ \E t \in Txs : Confirm(t, terms)

Spec == Init /\ [][Next]_vars

-----------------------------------------------------------------------------
TypeOK ==
    /\ rail \in Rails /\ links \subseteq Terms
    /\ intent \in [terms : Terms, status : {"created", "pending-approval", "settled"},
                   ref : Refs] \cup {NoIntent}
    /\ session \in [terms : Terms, approved : BOOLEAN] \cup {NoSession}
    /\ {confirmation, receipt} \subseteq SomePayment /\ settlement \subseteq Refs
    /\ chain \in Seq(Terms) /\ Len(chain) <= MaxTxs
    /\ run \in [Runs -> RunRecord]
    /\ torn \in BOOLEAN
    /\ mixed \in BOOLEAN
    /\ calls \in 0..MaxCalls

(* With a verifier at the rail, the service is only delivered on a transfer  *)
(* that was made, of the amount the gate was told to compare, and to the    *)
(* payee it was told unless requests have overlapped at AFAL so that one    *)
(* replaced the intent or the file another was using. Without a verifier the *)
(* same is true of what the rail was told. Or else it is delivered on the    *)
(* seed, which takes a rail that asks for no wallet and a gate that does not *)
(* compare the chain. (the checks of evaluateProviderGate, each against      *)
(* another record; executePayment and confirmWalletPayment at the rail)      *)
DeliveredWasPaid ==
    \A r \in Runs : run[r].pc = "delivered" =>
        LET t == run[r].paid.tx
            told == run[r].expects
            paid == IF rail.verify THEN chain[t] ELSE run[r].paid.terms
        IN \/ /\ t = SeedTx
              /\ ~rail.agent /\ ~rail.require /\ "chain" \notin told
           \/ /\ rail.verify => t \in DOMAIN chain
              /\ "amount" \in told => paid.amount = run[r].terms.amount
              /\ "payee" \in told => mixed \/ paid.payee = run[r].terms.payee

(* A resume has the rail pay what its approval session showed, unless the    *)
(* stored intent is of another request than the one that opened the session: *)
(* one that was refused, or overtaken in its checks. (requestPaymentApproval *)
(* stores the intent before its checks; resumeApprovedPaymentAction reads    *)
(* it again)                                                                *)
PaidAsShown ==
    \A r \in Runs : run[r].shown # NoTerms /\ ~run[r].torn => run[r].read = run[r].shown
=============================================================================

------------------------------ MODULE WalletRail ------------------------------
(***************************************************************************)
(* The payment rail service (app/payment-rail) together with the HTTP      *)
(* adapter through which AFAL calls it (backend/afal/settlement).          *)
(*                                                                         *)
(* An action is paid by a token transfer on a chain. Either a person pays  *)
(* from a browser wallet and registers the transfer at the rail, or the    *)
(* rail runs a command that signs and broadcasts it. The rail keeps one    *)
(* confirmation per action and, for each transfer, the action it was       *)
(* registered for. A handler waits, and others run, while the chain is     *)
(* asked and while the command runs.                                       *)
(*                                                                         *)
(* The chain is external. A transfer moves an amount of a token to an       *)
(* address; `token' stands for the contract, its chain id and the sender,  *)
(* which are compared with the receipt and with nothing else. A claim says *)
(* what a transfer moved and names an asset (the strings `asset' and        *)
(* `chain'); nothing ties the token to that name. Malformed bodies and      *)
(* failed service authentication change nothing.                           *)
(***************************************************************************)
EXTENDS Naturals, FiniteSets

CONSTANTS
    Actions,      \* action references (intent ids)
    Txs,          \* transaction hashes
    Moves,        \* what a transfer can move: [token, to, amount]
    Claims,       \* what can be claimed of a transfer: [asset, moved]
    IntentOf,     \* the intent of each action: [asset, amount, payee]
    SignerToken,  \* the token of the agent wallet (AGENT_WALLET_TOKEN_ADDRESS)
    InPolicy,     \* actions within the signer's cap, asset, chain and payee list
    Handlers,     \* requests the rail can have in progress
    Callers,      \* calls AFAL can have in progress
    MaxAttempts,  \* attempts of one call (retry.maxAttempts)
    MaxOutage,    \* bound on executePaymentFailuresBeforeSuccess
    MaxClaims,    \* bound on registrations of a browser wallet
    MaxCalls,     \* bound on calls of AFAL
    MaxFaults,    \* bound on lost connections, crashes and failed commands
    NoTx, NoAction, NoCaller, NoClaim, NoMove,
    NoPayee       \* of an intent whose payee has no settlement address

(* What the signer pays for an action and reports: its own token, in the   *)
(* words of the intent.                                                    *)
SignerClaim(a) ==
    [asset |-> IntentOf[a].asset,
     moved |-> [token |-> SignerToken, to |-> IntentOf[a].payee,
                amount |-> IntentOf[a].amount]]

(* The signer's policy, which requires a settlement address.               *)
SignerAccepts(a) == a \in InPolicy /\ IntentOf[a].payee # NoPayee

ASSUME RailAssumption ==
    /\ \A claim \in Claims : claim.moved \in Moves
    /\ \A a \in Actions : SignerAccepts(a) => SignerClaim(a) \in Claims
    /\ MaxAttempts \in Nat \ {0}
    /\ MaxOutage \in Nat /\ MaxClaims \in Nat /\ MaxCalls \in Nat /\ MaxFaults \in Nat
    /\ NoTx \notin Txs /\ NoAction \notin Actions
    /\ NoCaller \notin Callers /\ NoClaim \notin Claims

VARIABLES
    config,         \* how the service was started
    confirmations,  \* walletConfirmations, by action
    txHashes,       \* walletTxHashes: the action a transfer is registered for
    file,           \* the confirmations in walletConfirmationsPath
    outage,         \* executePaymentFailuresRemaining
    handler,        \* requests the rail is working on
    call,           \* executePayment calls of the adapter
    chain,          \* the transfers on the chain
    settlements,    \* the settlements AFAL was given (history)
    mishap,         \* actions a transfer of which went unregistered, or
                    \* that were executed twice at once (history)
    claims, calls, faults  \* what has been used of the bounds

vars == <<config, confirmations, txHashes, file, outage, handler, call, chain,
          settlements, mishap, claims, calls, faults>>

\* requireWalletConfirmation is only looked at without an agent wallet.
Config == {c \in [verify : BOOLEAN, require : BOOLEAN, agent : BOOLEAN,
                  persist : BOOLEAN, outage : 0..MaxOutage] : c.agent => ~c.require}
Confirmation == [tx : Txs, claim : Claims]
NoConfirmation == [tx |-> NoTx, claim |-> NoClaim]
HandlerRecord ==
    [pc : {"idle", "confirming", "signing", "mining", "verifying", "orphaned"},
     action : Actions \cup {NoAction}, tx : Txs \cup {NoTx},
     claim : Claims \cup {NoClaim}, caller : Callers \cup {NoCaller}]
CallRecord ==
    [pc : {"idle", "sent", "waiting", "settled", "failed"},
     action : Actions \cup {NoAction}, attempt : 0..MaxAttempts, refused : BOOLEAN]
Transfer ==
    [status : {"unused", "pending", "mined", "reverted"},
     moved : Moves \cup {NoMove}, payer : Actions \cup {NoAction}]
Idle == [pc |-> "idle", action |-> NoAction, tx |-> NoTx, claim |-> NoClaim,
         caller |-> NoCaller]
NoCall == [pc |-> "idle", action |-> NoAction, attempt |-> 0, refused |-> FALSE]
Unused == [status |-> "unused", moved |-> NoMove, payer |-> NoAction]

Confirmed(a) == confirmations[a] # NoConfirmation

(* The receipt shows a mined, successful transfer of the claimed amount of *)
(* the claimed token to the claimed address.                               *)
Verifies(t, claim) == chain[t].status = "mined" /\ chain[t].moved = claim.moved

(* The replay check: the transfer is not registered for another action. *)
Unclaimed(t, a) == txHashes[t] \in {NoAction, a}

(* Wrong: the recipient is not looked at. *)
MatchesAnyRecipient(claim, a) ==
    claim.asset = IntentOf[a].asset /\ claim.moved.amount = IntentOf[a].amount

(* assertWalletConfirmationMatchesIntent: the token is not looked at, and  *)
(* the recipient only if the intent has a settlement address.              *)
Matches(claim, a) ==
    /\ claim.asset = IntentOf[a].asset
    /\ claim.moved.amount = IntentOf[a].amount
    /\ IntentOf[a].payee # NoPayee => claim.moved.to = IntentOf[a].payee

-----------------------------------------------------------------------------
(* The wallets and the chain.                                              *)

Broadcast(t, moved, payer) ==
    /\ chain[t].status = "unused"
    /\ chain' = [chain EXCEPT ![t] = [status |-> "pending", moved |-> moved,
                                      payer |-> payer]]

(* A person sends a transfer from the wallet page. *)
PersonPays(t, moved) ==
    /\ Broadcast(t, moved, NoAction)
    /\ UNCHANGED <<config, confirmations, txHashes, file, outage, handler, call,
                   settlements, mishap, claims, calls, faults>>

Mine(t, status) ==
    /\ chain[t].status = "pending"
    /\ chain' = [chain EXCEPT ![t].status = status]
    /\ UNCHANGED <<config, confirmations, txHashes, file, outage, handler, call,
                   settlements, mishap, claims, calls, faults>>

-----------------------------------------------------------------------------
(* Registering a transfer.                                                 *)

(* Wrong: the file is written before the confirmation is in the map. *)
RegisterSavedTooEarly(a, t, claim) ==
    /\ confirmations' = [confirmations EXCEPT ![a] = [tx |-> t, claim |-> claim]]
    /\ txHashes' = [txHashes EXCEPT ![t] = a]
    /\ file' = IF config.persist THEN confirmations ELSE file

Register(a, t, claim) ==
    /\ confirmations' = [confirmations EXCEPT ![a] = [tx |-> t, claim |-> claim]]
    /\ txHashes' = [txHashes EXCEPT ![t] = a]
    /\ file' = IF config.persist THEN confirmations' ELSE file

Claim(a, t, claim) == [pc |-> "confirming", action |-> a, tx |-> t, claim |-> claim,
                       caller |-> NoCaller]

(* A browser wallet registers transfer t, said to move this, for a;         *)
(* refused, with no effect, if t is registered for another action. Without  *)
(* a verifier nothing is awaited and the claim is taken as it is.           *)
Confirm(h, a, t, claim) ==
    /\ claims < MaxClaims
    /\ handler[h] = Idle
    /\ Unclaimed(t, a)
    /\ claims' = claims + 1
    /\ IF config.verify
       THEN /\ handler' = [handler EXCEPT ![h] = Claim(a, t, claim)]
            /\ UNCHANGED <<confirmations, txHashes, file>>
       ELSE /\ Register(a, t, claim)
            /\ UNCHANGED handler
    /\ UNCHANGED <<config, outage, call, chain, settlements, mishap, calls, faults>>

ConfirmVerified(h) ==
    /\ handler[h].pc = "confirming"
    /\ Verifies(handler[h].tx, handler[h].claim)
    /\ Register(handler[h].action, handler[h].tx, handler[h].claim)
    /\ handler' = [handler EXCEPT ![h] = Idle]
    /\ UNCHANGED <<config, outage, call, chain, settlements, mishap, claims, calls, faults>>

(* The receipt is missing or does not match, or the chain cannot be asked. *)
ConfirmRejected(h) ==
    /\ handler[h].pc = "confirming"
    /\ handler' = [handler EXCEPT ![h] = Idle]
    /\ UNCHANGED <<config, confirmations, txHashes, file, outage, call, chain,
                   settlements, mishap, claims, calls, faults>>

-----------------------------------------------------------------------------
(* The adapter.                                                            *)

NewCall(a) == [pc |-> "sent", action |-> a, attempt |-> 1, refused |-> FALSE]

(* AFAL calls executePayment. *)
Call(c, a) ==
    /\ calls < MaxCalls
    /\ call[c].pc \in {"idle", "settled", "failed"}
    /\ call' = [call EXCEPT ![c] = NewCall(a)]
    /\ calls' = calls + 1
    /\ UNCHANGED <<config, confirmations, txHashes, file, outage, handler, chain,
                   settlements, mishap, claims, faults>>

(* Wrong: the last attempt is given away. *)
AfterFailureOneEarly(k) ==
    IF k.attempt + 1 < MaxAttempts
    THEN [k EXCEPT !.pc = "sent", !.attempt = k.attempt + 1]
    ELSE [k EXCEPT !.pc = "failed"]

(* Wrong: one attempt too many. *)
AfterFailureOneMore(k) ==
    IF k.attempt <= MaxAttempts
    THEN [k EXCEPT !.pc = "sent", !.attempt = k.attempt + 1]
    ELSE [k EXCEPT !.pc = "failed"]

(* What becomes of a call after a 502, 503 or 504 or a broken connection. *)
AfterFailure(k) ==
    IF k.attempt < MaxAttempts
    THEN [k EXCEPT !.pc = "sent", !.attempt = k.attempt + 1]
    ELSE [k EXCEPT !.pc = "failed"]

(* The rail answered with another error: no retry. *)
Refused(k) == [k EXCEPT !.pc = "failed", !.refused = TRUE]

Settled(k) == [k EXCEPT !.pc = "settled"]

Settlement(a, t, claim) == [action |-> a, tx |-> t, claim |-> claim]

(* The connection breaks before the answer is there; the rail goes on with *)
(* a request it has begun to work on.                                      *)
ConnectionLost(c) ==
    /\ faults < MaxFaults
    /\ call[c].pc \in {"sent", "waiting"}
    /\ call' = [call EXCEPT ![c] = AfterFailure(call[c])]
    /\ handler' = [h \in Handlers |-> IF handler[h].caller = c
                                      THEN [handler[h] EXCEPT !.caller = NoCaller]
                                      ELSE handler[h]]
    /\ faults' = faults + 1
    /\ UNCHANGED <<config, confirmations, txHashes, file, outage, chain,
                   settlements, mishap, claims, calls>>

-----------------------------------------------------------------------------
(* executePayment at the rail. The first four answer at once.              *)

Executable(c) == call[c].pc = "sent" /\ outage = 0

Unavailable(c) ==
    /\ call[c].pc = "sent"
    /\ outage > 0
    /\ outage' = outage - 1
    /\ call' = [call EXCEPT ![c] = AfterFailure(call[c])]
    /\ UNCHANGED <<config, confirmations, txHashes, file, handler, chain,
                   settlements, mishap, claims, calls, faults>>

(* There is a confirmation, and it must match the intent. *)
SettleConfirmed(c) ==
    LET a == call[c].action
    IN /\ Executable(c)
       /\ Confirmed(a)
       /\ IF Matches(confirmations[a].claim, a)
          THEN /\ call' = [call EXCEPT ![c] = Settled(call[c])]
               /\ settlements' = settlements \cup
                      {Settlement(a, confirmations[a].tx, confirmations[a].claim)}
          ELSE /\ call' = [call EXCEPT ![c] = Refused(call[c])]
               /\ UNCHANGED settlements
       /\ UNCHANGED <<config, confirmations, txHashes, file, outage, handler, chain,
                      mishap, claims, calls, faults>>

(* No wallet at all: the seeded rail settles without a transfer. *)
SettleSeeded(c) ==
    LET a == call[c].action
    IN /\ Executable(c)
       /\ ~Confirmed(a) /\ ~config.agent /\ ~config.require
       /\ call' = [call EXCEPT ![c] = Settled(call[c])]
       /\ settlements' = settlements \cup {Settlement(a, NoTx, NoClaim)}
       /\ UNCHANGED <<config, confirmations, txHashes, file, outage, handler, chain,
                      mishap, claims, calls, faults>>

(* A browser wallet should have paid and has not. *)
NotConfirmed(c) ==
    /\ Executable(c)
    /\ ~Confirmed(call[c].action) /\ ~config.agent /\ config.require
    /\ call' = [call EXCEPT ![c] = Refused(call[c])]
    /\ UNCHANGED <<config, confirmations, txHashes, file, outage, handler, chain,
                   settlements, mishap, claims, calls, faults>>

(* The requests at work on an action's transfer. *)
Paying == {"signing", "mining", "verifying"}
BeingPaid(a) == \E h \in Handlers : handler[h].action = a /\ handler[h].pc \in Paying

Execution(a, c) == [pc |-> "signing", action |-> a, tx |-> NoTx, claim |-> NoClaim,
                    caller |-> c]

(* Wrong: the rail does not look for a confirmation first. *)
StartCommandAlways(h, c) ==
    LET a == call[c].action
    IN /\ Executable(c)
       /\ handler[h] = Idle
       /\ config.agent
       /\ call' = [call EXCEPT ![c].pc = "waiting"]
       /\ handler' = [handler EXCEPT ![h] = Execution(a, c)]
       /\ mishap' = IF BeingPaid(a) THEN mishap \cup {a} ELSE mishap
       /\ UNCHANGED <<config, confirmations, txHashes, file, outage, chain,
                      settlements, claims, calls, faults>>

(* The command of the agent wallet is started, and awaited. *)
StartCommand(h, c) ==
    LET a == call[c].action
    IN /\ Executable(c)
       /\ handler[h] = Idle
       /\ ~Confirmed(a) /\ config.agent
       /\ call' = [call EXCEPT ![c].pc = "waiting"]
       /\ handler' = [handler EXCEPT ![h] = Execution(a, c)]
       /\ mishap' = IF BeingPaid(a) THEN mishap \cup {a} ELSE mishap
       /\ UNCHANGED <<config, confirmations, txHashes, file, outage, chain,
                      settlements, claims, calls, faults>>

PaidBy(k, t) == [k EXCEPT !.pc = "mining", !.tx = t, !.claim = SignerClaim(k.action)]

(* The signer checks its policy and broadcasts. A signer whose rail died   *)
(* meanwhile does too, and nobody hears of it.                             *)
SignerPays(h, t) ==
    /\ handler[h].pc \in {"signing", "orphaned"}
    /\ SignerAccepts(handler[h].action)
    /\ Broadcast(t, SignerClaim(handler[h].action).moved, handler[h].action)
    /\ handler' = [handler EXCEPT ![h] =
           IF handler[h].pc = "orphaned" THEN Idle
           ELSE PaidBy(handler[h], t)]
    /\ UNCHANGED <<config, confirmations, txHashes, file, outage, call,
                   settlements, mishap, claims, calls, faults>>

(* The answer reaches the call that waits for handler h, if one still does. *)
AnswerTo(h, answered) ==
    call' = [c \in Callers |-> IF handler[h].caller = c THEN answered[c] ELSE call[c]]

RegisterAndSettle(h) ==
    LET a == handler[h].action
    IN /\ Register(a, handler[h].tx, handler[h].claim)
       /\ AnswerTo(h, [c \in Callers |-> Settled(call[c])])
       /\ settlements' = IF handler[h].caller = NoCaller THEN settlements
                         ELSE settlements \cup {Settlement(a, handler[h].tx, handler[h].claim)}
       /\ handler' = [handler EXCEPT ![h] = Idle]

(* The replay check and the comparison with the intent.                    *)
Acceptable(k) == Unclaimed(k.tx, k.action) /\ Matches(k.claim, k.action)

(* The command returns a mined transfer, which is checked, then verified.   *)
CommandReturns(h) ==
    /\ handler[h].pc = "mining"
    /\ chain[handler[h].tx].status = "mined"
    /\ Acceptable(handler[h])
    /\ IF config.verify
       THEN /\ handler' = [handler EXCEPT ![h].pc = "verifying"]
            /\ UNCHANGED <<confirmations, txHashes, file, call, settlements>>
       ELSE RegisterAndSettle(h)
    /\ UNCHANGED <<config, outage, chain, mishap, claims, calls, faults>>

ExecutionVerified(h) ==
    /\ handler[h].pc = "verifying"
    /\ Verifies(handler[h].tx, handler[h].claim)
    /\ RegisterAndSettle(h)
    /\ UNCHANGED <<config, outage, chain, mishap, claims, calls, faults>>

(* The execution fails for good: the signer's policy, a reverted transfer, *)
(* a transfer claimed for another action (or, a bound, no hash is left).   *)
Doomed(h) ==
    \/ handler[h].pc = "signing" /\ ~SignerAccepts(handler[h].action)
    \/ handler[h].pc = "signing" /\ \A t \in Txs : chain[t].status # "unused"
    \/ handler[h].pc = "mining" /\ chain[handler[h].tx].status = "reverted"
    \/ /\ handler[h].pc = "mining" /\ chain[handler[h].tx].status = "mined"
       /\ ~Acceptable(handler[h])

(* Or the command times out or the RPC endpoint fails, which counts as a   *)
(* fault. A transfer that was broadcast is then known to nobody.           *)
ExecutionFails(h) ==
    /\ handler[h].pc \in Paying
    /\ \/ Doomed(h) /\ UNCHANGED faults
       \/ ~Doomed(h) /\ faults < MaxFaults /\ faults' = faults + 1
    /\ AnswerTo(h, [c \in Callers |-> Refused(call[c])])
    /\ mishap' = IF handler[h].pc = "signing" THEN mishap
                 ELSE mishap \cup {handler[h].action}
    /\ handler' = [handler EXCEPT ![h] = Idle]
    /\ UNCHANGED <<config, confirmations, txHashes, file, outage, chain,
                   settlements, claims, calls>>

(* The command that outlived its rail fails. *)
OrphanEnds(h) ==
    /\ handler[h].pc = "orphaned"
    /\ handler' = [handler EXCEPT ![h] = Idle]
    /\ UNCHANGED <<config, confirmations, txHashes, file, outage, call, chain,
                   settlements, mishap, claims, calls, faults>>

-----------------------------------------------------------------------------
(* Crash and restart of the rail.                                          *)

(* createPaymentRailServiceState: the hashes are those of the confirmations *)
(* read back; a transfer whose confirmation was replaced is forgotten.      *)
HashesOf(confs) ==
    [t \in Txs |-> IF \E a \in Actions : confs[a].tx = t
                   THEN CHOOSE a \in Actions : confs[a].tx = t
                   ELSE NoAction]

Reloaded == IF config.persist THEN file ELSE [a \in Actions |-> NoConfirmation]

Orphan(k) == [k EXCEPT !.pc = "orphaned", !.caller = NoCaller]

(* Wrong: the confirmations are read back, and not their hashes. *)
RestartWithoutHashes ==
    /\ faults < MaxFaults
    /\ faults' = faults + 1
    /\ confirmations' = Reloaded
    /\ txHashes' = [t \in Txs |-> NoAction]
    /\ outage' = config.outage
    /\ call' = [c \in Callers |-> IF call[c].pc = "waiting" THEN AfterFailure(call[c]) ELSE call[c]]
    /\ handler' = [h \in Handlers |-> IF handler[h].pc = "signing"
                                      THEN Orphan(handler[h])
                                      ELSE IF handler[h].pc = "orphaned" THEN handler[h] ELSE Idle]
    /\ mishap' = mishap \cup {a \in Actions : BeingPaid(a)}
                        \cup {a \in Actions : Confirmed(a) /\ Reloaded[a] = NoConfirmation}
    /\ UNCHANGED <<config, file, chain, settlements, claims, calls>>

(* A command that was running goes on by itself. *)
Restart ==
    /\ faults < MaxFaults
    /\ faults' = faults + 1
    /\ confirmations' = Reloaded
    /\ txHashes' = HashesOf(Reloaded)
    /\ outage' = config.outage
    /\ call' = [c \in Callers |-> IF call[c].pc = "waiting" THEN AfterFailure(call[c]) ELSE call[c]]
    /\ handler' = [h \in Handlers |-> IF handler[h].pc = "signing"
                                      THEN Orphan(handler[h])
                                      ELSE IF handler[h].pc = "orphaned" THEN handler[h] ELSE Idle]
    /\ mishap' = mishap \cup {a \in Actions : BeingPaid(a)}
                        \cup {a \in Actions : Confirmed(a) /\ Reloaded[a] = NoConfirmation}
    /\ UNCHANGED <<config, file, chain, settlements, claims, calls>>

-----------------------------------------------------------------------------
Init ==
    /\ config \in Config
    /\ confirmations = [a \in Actions |-> NoConfirmation]
    /\ txHashes = [t \in Txs |-> NoAction]
    /\ file = [a \in Actions |-> NoConfirmation]
    /\ outage = config.outage
    /\ handler = [h \in Handlers |-> Idle]
    /\ call = [c \in Callers |-> NoCall]
    /\ chain = [t \in Txs |-> Unused]
    /\ settlements = {}
    /\ mishap = {}
    /\ claims = 0 /\ calls = 0 /\ faults = 0

Next ==
    \/ \E t \in Txs, moved \in Moves : PersonPays(t, moved)
    \/ \E t \in Txs, s \in {"mined", "reverted"} : Mine(t, s)
    \/ \E h \in Handlers, a \in Actions, t \in Txs, claim \in Claims : Confirm(h, a, t, claim)
    \/ \E h \in Handlers : ConfirmVerified(h) \/ ConfirmRejected(h)
    \/ \E c \in Callers, a \in Actions : Call(c, a)
    \/ \E c \in Callers : ConnectionLost(c) \/ Unavailable(c)
    \/ \E c \in Callers : SettleConfirmed(c) \/ SettleSeeded(c) \/ NotConfirmed(c)
    \/ \E h \in Handlers, c \in Callers : StartCommand(h, c)
    \/ \E h \in Handlers, t \in Txs : SignerPays(h, t)
    \/ \E h \in Handlers : CommandReturns(h) \/ ExecutionVerified(h) \/ ExecutionFails(h)
    \/ \E h \in Handlers : OrphanEnds(h)
    \/ Restart

Spec == Init /\ [][Next]_vars

-----------------------------------------------------------------------------
TypeOK ==
    /\ config \in Config
    /\ confirmations \in [Actions -> Confirmation \cup {NoConfirmation}]
    /\ txHashes \in [Txs -> Actions \cup {NoAction}]
    /\ file \in [Actions -> Confirmation \cup {NoConfirmation}]
    /\ outage \in 0..MaxOutage
    /\ handler \in [Handlers -> HandlerRecord]
    /\ call \in [Callers -> CallRecord]
    /\ chain \in [Txs -> Transfer]
    /\ settlements \subseteq [action : Actions, tx : Txs \cup {NoTx}, claim : Claims \cup {NoClaim}]
    /\ mishap \subseteq Actions
    /\ claims \in 0..MaxClaims /\ calls \in 0..MaxCalls /\ faults \in 0..MaxFaults

(* With a verifier, the transfer a settlement names has been mined and       *)
(* moved the intent's amount, to its payee if the intent gives an address,  *)
(* though the claim was checked against the chain at one time and against   *)
(* the intent at another; without one the claim says so. What is not tied   *)
(* to the intent is the token. A settlement without a transfer is only made *)
(* when no wallet was asked for. (executePayment, verify and                *)
(* assertWalletConfirmationMatchesIntent)                                   *)
SettlementIsBacked ==
    \A s \in settlements :
        LET intent == IntentOf[s.action]
            moved == IF config.verify THEN chain[s.tx].moved ELSE s.claim.moved
        IN IF s.tx = NoTx
           THEN ~config.agent /\ ~config.require
           ELSE /\ s.claim.asset = intent.asset
                /\ config.verify => chain[s.tx].status = "mined"
                /\ moved.amount = intent.amount
                /\ intent.payee # NoPayee => moved.to = intent.payee

(* As long as nothing is awaited between the replay check and the           *)
(* registration, no two actions are confirmed by one transfer, whatever is  *)
(* registered again, replaced or read back after a restart.                 *)
OneActionPerTransfer ==
    ~config.verify =>
        \A a, b \in Actions : Confirmed(a) /\ confirmations[a].tx = confirmations[b].tx => a = b

(* The transfers the rail has made for an action. *)
TransfersFor(a) == {t \in Txs : chain[t].payer = a}

(* The agent wallet pays an action once, however often the execution is     *)
(* repeated after a lost answer or a restart, unless an execution began     *)
(* while another was running, or ended with an unregistered transfer.       *)
RetryPaysNothingAgain ==
    \A a \in Actions \ mishap : \A t, u \in TransfersFor(a) : t = u

(* A call only fails for want of attempts if the outage and the faults      *)
(* together used them all up. (executeWithRetry)                            *)
ShortOutageIsSurvived ==
    \A c \in Callers : call[c].pc = "failed" /\ ~call[c].refused =>
        (faults + 1) * config.outage + faults >= MaxAttempts

(* With a confirmations file, an action stays confirmed, also across a      *)
(* crash at any point. (persistWalletConfirmations)                         *)
ConfirmedStays ==
    [][\A a \in Actions : config.persist /\ Confirmed(a) => Confirmed(a)']_vars
=============================================================================

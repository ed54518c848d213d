--------------------------- MODULE WalletRailProofs ---------------------------
(***************************************************************************)
(* What holds of the payment rail for every number of actions, transfers,  *)
(* requests, calls and faults, and for every way it is started: the types, *)
(* that settlements are backed by what they claim, that no transfer        *)
(* confirms two actions where nothing is awaited, that the agent wallet    *)
(* pays an action once, that short outages are survived, and that a        *)
(* confirmation is not lost.                                               *)
(***************************************************************************)
EXTENDS WalletRail, Integers, TLAPS

LEMMA Distributes == ASSUME NEW f \in Nat, NEW n \in Nat PROVE (f + 1) * n = f * n + n
OBVIOUS

USE RailAssumption

\* What a handler in progress has, and that a rail without a verifier has
\* nothing to wait for.
HandlerShape ==
    \A h \in Handlers :
        /\ handler[h].pc # "idle" => handler[h].action \in Actions
        /\ handler[h].pc \in {"confirming", "mining", "verifying"} =>
               handler[h].tx \in Txs /\ handler[h].claim \in Claims
        /\ handler[h].pc = "verifying" => Matches(handler[h].claim, handler[h].action)
        /\ handler[h].pc \in {"confirming", "verifying"} => config.verify
        /\ handler[h].pc = "orphaned" => handler[h].caller = NoCaller

CallShape == \A c \in Callers : call[c].pc # "idle" => call[c].action \in Actions

\* A handler answers a call that waits, and waits for nobody else.
CallerWaits ==
    \A c \in Callers, h \in Handlers : handler[h].caller = c =>
        /\ call[c].pc = "waiting"
        /\ \A g \in Handlers : handler[g].caller = c => g = h

FileIsCurrent == config.persist => file = confirmations

\* With a verifier, what is confirmed is on the chain; without one, each
\* confirmed transfer is registered for its action.
ConfirmedIsMined ==
    config.verify => \A a \in Actions :
        Confirmed(a) => Verifies(confirmations[a].tx, confirmations[a].claim)
ConfirmedIsRegistered ==
    ~config.verify => \A a \in Actions : Confirmed(a) => txHashes[confirmations[a].tx] = a

\* Of an action without a mishap one execution at most is under way; it has
\* made the action's only transfer, or there is none yet, or it is confirmed.
AtWork(h, a) == handler[h].action = a /\ handler[h].pc \in Paying \cup {"orphaned"}
OneAtWork ==
    \A a \in Actions \ mishap : \A g, h \in Handlers : AtWork(g, a) /\ AtWork(h, a) => g = h
OrphanIsMishap ==
    \A h \in Handlers : handler[h].pc = "orphaned" => handler[h].action \in mishap
SignerIsFirst ==
    \A h \in Handlers : handler[h].pc = "signing" /\ handler[h].action \notin mishap =>
        \A t \in Txs : chain[t].payer # handler[h].action
PaidIsKnown ==
    \A a \in Actions \ mishap : \A t \in Txs : chain[t].payer = a =>
        Confirmed(a) \/ \E h \in Handlers : AtWork(h, a) /\ handler[h].pc # "signing"

\* The failures so far: what an outage and the faults can have answered.
Failures == faults * config.outage + (config.outage - outage) + faults
AttemptsHadCause ==
    /\ outage <= config.outage
    /\ \A c \in Callers :
         /\ call[c].pc \in {"sent", "waiting"} => call[c].attempt <= Failures + 1
         /\ call[c].pc = "failed" /\ ~call[c].refused => MaxAttempts <= Failures

ConfirmPart == FileIsCurrent /\ ConfirmedIsMined /\ ConfirmedIsRegistered
\* A settlement has been compared with its intent and, with a verifier, with
\* the chain, on which what is mined stays.
SettlePart ==
    \A s \in settlements :
        IF s.tx = NoTx THEN ~config.agent /\ ~config.require
        ELSE Matches(s.claim, s.action) /\ (config.verify => Verifies(s.tx, s.claim))

PayPart == OneAtWork /\ OrphanIsMishap /\ SignerIsFirst /\ PaidIsKnown /\ RetryPaysNothingAgain

IInv == TypeOK /\ HandlerShape /\ CallShape /\ CallerWaits /\ ConfirmPart /\ SettlePart /\ PayPart /\ AttemptsHadCause

-----------------------------------------------------------------------------
(* The records.                                                            *)

LEMMA FreshRecords ==
    /\ Idle \in HandlerRecord /\ Idle.pc = "idle" /\ Idle.action = NoAction /\ Idle.caller = NoCaller
    /\ NoCall \in CallRecord /\ NoCall.pc = "idle"
    /\ Unused \in Transfer /\ Unused.status = "unused" /\ Unused.payer = NoAction
    /\ NoConfirmation \in [tx : {NoTx}, claim : {NoClaim}] /\ NoConfirmation.tx = NoTx
    /\ NoConfirmation \notin Confirmation
    /\ \A a \in Actions : /\ NewCall(a) \in CallRecord /\ NewCall(a).pc = "sent"
                          /\ NewCall(a).action = a /\ NewCall(a).attempt = 1
    /\ \A a \in Actions, c \in Callers :
           /\ Execution(a, c) \in HandlerRecord /\ Execution(a, c).pc = "signing"
           /\ Execution(a, c).action = a /\ Execution(a, c).caller = c
    /\ \A a \in Actions, t \in Txs, claim \in Claims :
           /\ Claim(a, t, claim) \in HandlerRecord /\ Claim(a, t, claim).pc = "confirming"
           /\ Claim(a, t, claim).action = a /\ Claim(a, t, claim).tx = t
           /\ Claim(a, t, claim).claim = claim /\ Claim(a, t, claim).caller = NoCaller
<1>1. Idle \in HandlerRecord /\ Idle.pc = "idle" /\ Idle.action = NoAction /\ Idle.caller = NoCaller
    BY DEF Idle, HandlerRecord
<1>2. NoCall \in CallRecord /\ NoCall.pc = "idle"
    BY DEF NoCall, CallRecord
<1>3. Unused \in Transfer /\ Unused.status = "unused" /\ Unused.payer = NoAction
    BY DEF Unused, Transfer
<1>4. /\ NoConfirmation \in [tx : {NoTx}, claim : {NoClaim}] /\ NoConfirmation.tx = NoTx
      /\ NoConfirmation \notin Confirmation
    BY DEF NoConfirmation, Confirmation
<1>5. ASSUME NEW a \in Actions
      PROVE  /\ NewCall(a) \in CallRecord /\ NewCall(a).pc = "sent"
             /\ NewCall(a).action = a /\ NewCall(a).attempt = 1
    BY DEF NewCall, CallRecord
<1>6. ASSUME NEW a \in Actions, NEW c \in Callers
      PROVE  /\ Execution(a, c) \in HandlerRecord /\ Execution(a, c).pc = "signing"
             /\ Execution(a, c).action = a /\ Execution(a, c).caller = c
    BY DEF Execution, HandlerRecord
<1>7. ASSUME NEW a \in Actions, NEW t \in Txs, NEW claim \in Claims
      PROVE  /\ Claim(a, t, claim) \in HandlerRecord /\ Claim(a, t, claim).pc = "confirming"
             /\ Claim(a, t, claim).action = a /\ Claim(a, t, claim).tx = t
             /\ Claim(a, t, claim).claim = claim /\ Claim(a, t, claim).caller = NoCaller
    BY DEF Claim, HandlerRecord
<1> QED
    BY <1>1, <1>2, <1>3, <1>4, <1>5, <1>6, <1>7

LEMMA CallAnswers ==
    ASSUME NEW k \in CallRecord
    PROVE  /\ Settled(k) \in CallRecord /\ Settled(k).pc = "settled" /\ Settled(k).action = k.action
           /\ Refused(k) \in CallRecord /\ Refused(k).pc = "failed" /\ Refused(k).refused
           /\ Refused(k).action = k.action
           /\ AfterFailure(k) \in CallRecord /\ AfterFailure(k).action = k.action
           /\ \/ AfterFailure(k).pc = "sent" /\ AfterFailure(k).attempt = k.attempt + 1
              \/ AfterFailure(k).pc = "failed" /\ MaxAttempts <= k.attempt
<1>1. Settled(k) \in CallRecord /\ Settled(k).pc = "settled" /\ Settled(k).action = k.action
    BY DEF Settled, CallRecord
<1>2. /\ Refused(k) \in CallRecord /\ Refused(k).pc = "failed" /\ Refused(k).refused
      /\ Refused(k).action = k.action
    <2> DEFINE k1 == [k EXCEPT !.pc = "failed"]
    <2> DEFINE k2 == [k1 EXCEPT !.refused = TRUE]
    <2>1. k1 \in CallRecord /\ k1.pc = "failed" /\ k1.action = k.action
        BY DEF CallRecord
    <2> HIDE DEF k1
    <2>2. k2 \in CallRecord /\ k2.pc = "failed" /\ k2.action = k.action /\ k2.refused
        BY <2>1 DEF CallRecord
    <2>3. Refused(k) = k2
        BY DEF Refused, k1
    <2> HIDE DEF k2
    <2> QED
        BY <2>2, <2>3
<1>3. /\ AfterFailure(k) \in CallRecord /\ AfterFailure(k).action = k.action
      /\ \/ AfterFailure(k).pc = "sent" /\ AfterFailure(k).attempt = k.attempt + 1
         \/ AfterFailure(k).pc = "failed" /\ MaxAttempts <= k.attempt
    <2>0. k.attempt \in 0..MaxAttempts
        BY DEF CallRecord
    <2>1. CASE k.attempt < MaxAttempts
        <3> DEFINE k1 == [k EXCEPT !.pc = "sent"]
        <3> DEFINE k2 == [k1 EXCEPT !.attempt = k.attempt + 1]
        <3>1. k1 \in CallRecord /\ k1.pc = "sent" /\ k1.action = k.action
            BY DEF CallRecord
        <3> HIDE DEF k1
        <3>2. k2 \in CallRecord /\ k2.pc = "sent" /\ k2.action = k.action /\ k2.attempt = k.attempt + 1
            BY <2>0, <2>1, <3>1 DEF CallRecord
        <3>3. AfterFailure(k) = k2
            BY <2>1 DEF AfterFailure, k1
        <3> HIDE DEF k2
        <3> QED
            BY <3>2, <3>3
    <2>2. CASE MaxAttempts <= k.attempt
        <3>1. AfterFailure(k) = [k EXCEPT !.pc = "failed"]
            BY <2>0, <2>2 DEF AfterFailure
        <3> QED
            BY <2>2, <3>1 DEF CallRecord
    <2> QED
        BY <2>0, <2>1, <2>2
<1> QED
    BY <1>1, <1>2, <1>3

LEMMA PaidByIs ==
    ASSUME NEW k \in HandlerRecord, NEW t \in Txs, SignerClaim(k.action) \in Claims
    PROVE  /\ PaidBy(k, t) \in HandlerRecord /\ PaidBy(k, t).pc = "mining" /\ PaidBy(k, t).tx = t
           /\ PaidBy(k, t).action = k.action /\ PaidBy(k, t).claim \in Claims
           /\ PaidBy(k, t).caller = k.caller
<1> DEFINE m == SignerClaim(k.action)
<1> DEFINE k1 == [k EXCEPT !.pc = "mining"]
<1> DEFINE k2 == [k1 EXCEPT !.tx = t]
<1> DEFINE k3 == [k2 EXCEPT !.claim = m]
<1>1. PaidBy(k, t) = k3 /\ m \in Claims
    BY DEF PaidBy
<1> HIDE DEF m
<1>2. /\ k1 \in HandlerRecord /\ k1.pc = "mining" /\ k1.action = k.action /\ k1.caller = k.caller
    BY DEF HandlerRecord
<1> HIDE DEF k1
<1>3. /\ k2 \in HandlerRecord /\ k2.pc = "mining" /\ k2.tx = t /\ k2.action = k.action
      /\ k2.caller = k.caller
    BY <1>2 DEF HandlerRecord
<1> HIDE DEF k2
<1>4. /\ k3 \in HandlerRecord /\ k3.pc = "mining" /\ k3.tx = t /\ k3.action = k.action
      /\ k3.caller = k.caller /\ k3.claim \in Claims
    BY <1>1, <1>3 DEF HandlerRecord
<1> HIDE DEF k3
<1> QED
    BY <1>1, <1>4

LEMMA OrphanIs ==
    ASSUME NEW k \in HandlerRecord
    PROVE  /\ Orphan(k) \in HandlerRecord /\ Orphan(k).pc = "orphaned"
           /\ Orphan(k).action = k.action /\ Orphan(k).caller = NoCaller
<1> DEFINE k1 == [k EXCEPT !.pc = "orphaned"]
<1> DEFINE k2 == [k1 EXCEPT !.caller = NoCaller]
<1>1. Orphan(k) = k2
    BY DEF Orphan
<1>2. k1 \in HandlerRecord /\ k1.pc = "orphaned" /\ k1.action = k.action
    BY DEF HandlerRecord
<1> HIDE DEF k1
<1>3. k2 \in HandlerRecord /\ k2.pc = "orphaned" /\ k2.action = k.action /\ k2.caller = NoCaller
    BY <1>2 DEF HandlerRecord
<1> HIDE DEF k2
<1> QED
    BY <1>1, <1>3

-----------------------------------------------------------------------------
(* Each step keeps the invariant.                                          *)

LEMMA InitHolds == Init => IInv
<1> SUFFICES ASSUME Init PROVE IInv
    OBVIOUS
<1> USE FreshRecords DEF Init
<1>1. config \in Config /\ config.outage \in 0..MaxOutage
    BY DEF Config
<1>2. TypeOK
    BY <1>1 DEF TypeOK
<1>3. HandlerShape /\ CallShape /\ CallerWaits
    BY DEF HandlerShape, CallShape, CallerWaits, Paying
<1>4. ConfirmPart /\ SettlePart
    BY DEF ConfirmPart, FileIsCurrent, ConfirmedIsMined, ConfirmedIsRegistered, Confirmed,
        SettlePart
<1>5. PayPart
    BY DEF PayPart, OneAtWork, OrphanIsMishap, SignerIsFirst, PaidIsKnown, RetryPaysNothingAgain,
        AtWork, Paying, TransfersFor
<1>6. AttemptsHadCause
    BY <1>1 DEF AttemptsHadCause
<1> QED
    BY <1>2, <1>3, <1>4, <1>5, <1>6 DEF IInv

\* The wallets and the chain.
LEMMA BroadcastIs ==
    ASSUME TypeOK, NEW t \in Txs, NEW moved \in Moves, NEW payer \in Actions \cup {NoAction},
           Broadcast(t, moved, payer)
    PROVE  /\ chain' \in [Txs -> Transfer] /\ chain'[t].payer = payer
           /\ \A u \in Txs \ {t} : chain'[u] = chain[u]
           /\ chain[t].status = "unused"
           /\ \A u \in Txs : chain[u].status = "mined" => chain'[u] = chain[u]
<1>1. [status |-> "pending", moved |-> moved, payer |-> payer] \in Transfer
    BY DEF Transfer
<1> QED
    BY <1>1 DEF TypeOK, Broadcast

\* What has been mined stays as it is.
MinedStays == \A t \in Txs : chain[t].status = "mined" => chain'[t] = chain[t]

LEMMA SettlementStays ==
    ASSUME SettlePart, MinedStays, settlements \subseteq [action : Actions, tx : Txs \cup {NoTx}, claim : Claims \cup {NoClaim}],
           UNCHANGED <<config, settlements>>
    PROVE  SettlePart'
BY DEF SettlePart, MinedStays, Verifies

LEMMA ConfirmationsStay ==
    ASSUME TypeOK, ConfirmPart, MinedStays, UNCHANGED <<config, confirmations, txHashes, file>>
    PROVE  ConfirmPart'
<1>1. \A a \in Actions : Confirmed(a) => confirmations[a].tx \in Txs
    BY DEF TypeOK, Confirmed, Confirmation
<1> QED
    BY <1>1 DEF ConfirmPart, FileIsCurrent, ConfirmedIsMined, ConfirmedIsRegistered, Confirmed,
        MinedStays, Verifies

LEMMA PersonPaysKeeps ==
    ASSUME IInv, NEW t \in Txs, NEW moved \in Moves, PersonPays(t, moved)
    PROVE  IInv'
<1> USE DEF IInv
<1>1. UNCHANGED <<config, confirmations, txHashes, file, outage, handler, call,
                   settlements, mishap, claims, calls, faults>>
    BY DEF PersonPays
<1>2. /\ chain' \in [Txs -> Transfer] /\ chain'[t].payer = NoAction
      /\ \A u \in Txs \ {t} : chain'[u] = chain[u]
      /\ MinedStays
    BY BroadcastIs DEF PersonPays, MinedStays
<1> USE <1>1, <1>2
<1>3. TypeOK' /\ HandlerShape' /\ CallShape' /\ CallerWaits' /\ AttemptsHadCause'
    BY DEF TypeOK, HandlerShape, CallShape, CallerWaits, AttemptsHadCause, Failures
<1>4. ConfirmPart' /\ SettlePart'
    BY ConfirmationsStay, SettlementStays DEF TypeOK
<1>5. PayPart'
    BY DEF PayPart, OneAtWork, OrphanIsMishap, SignerIsFirst, PaidIsKnown, RetryPaysNothingAgain,
        AtWork, TransfersFor, Confirmed, HandlerShape, Paying
<1> QED
    BY <1>3, <1>4, <1>5

LEMMA MineKeeps ==
    ASSUME IInv, NEW t \in Txs, NEW s \in {"mined", "reverted"}, Mine(t, s)
    PROVE  IInv'
<1> USE DEF IInv
<1>1. UNCHANGED <<config, confirmations, txHashes, file, outage, handler, call,
                   settlements, mishap, claims, calls, faults>>
    BY DEF Mine
<1>2. /\ chain' \in [Txs -> Transfer] /\ chain'[t].payer = chain[t].payer
      /\ \A u \in Txs \ {t} : chain'[u] = chain[u]
      /\ MinedStays
    BY DEF Mine, TypeOK, Transfer, MinedStays
<1> USE <1>1, <1>2
<1>3. TypeOK' /\ HandlerShape' /\ CallShape' /\ CallerWaits' /\ AttemptsHadCause'
    BY DEF TypeOK, HandlerShape, CallShape, CallerWaits, AttemptsHadCause, Failures
<1>4. ConfirmPart' /\ SettlePart'
    BY ConfirmationsStay, SettlementStays DEF TypeOK
<1>5. PayPart'
    BY DEF PayPart, OneAtWork, OrphanIsMishap, SignerIsFirst, PaidIsKnown, RetryPaysNothingAgain,
        AtWork, TransfersFor, Confirmed, HandlerShape, Paying
<1> QED
    BY <1>3, <1>4, <1>5

\* A transfer is registered.
LEMMA RegisterIs ==
    ASSUME TypeOK, ConfirmPart, NEW a \in Actions, NEW t \in Txs, NEW claim \in Claims,
           Register(a, t, claim), UNCHANGED <<config, chain>>,
           ~config.verify => Unclaimed(t, a),
           config.verify => Verifies(t, claim)
    PROVE  /\ ConfirmPart'
           /\ confirmations' \in [Actions -> Confirmation \cup {NoConfirmation}]
           /\ txHashes' \in [Txs -> Actions \cup {NoAction}]
           /\ file' \in [Actions -> Confirmation \cup {NoConfirmation}]
           /\ Confirmed(a)' /\ \A b \in Actions : Confirmed(b) => Confirmed(b)'
<1> DEFINE new == [tx |-> t, claim |-> claim]
<1>1. new \in Confirmation /\ new.tx = t /\ new.claim = claim /\ new # NoConfirmation
    BY FreshRecords DEF Confirmation
<1>2. /\ confirmations' = [confirmations EXCEPT ![a] = new]
      /\ txHashes' = [txHashes EXCEPT ![t] = a]
      /\ file' = IF config.persist THEN confirmations' ELSE file
    BY DEF Register
<1> HIDE DEF new
<1>3. /\ confirmations' \in [Actions -> Confirmation \cup {NoConfirmation}]
      /\ txHashes' \in [Txs -> Actions \cup {NoAction}]
      /\ file' \in [Actions -> Confirmation \cup {NoConfirmation}]
      /\ confirmations'[a] = new /\ txHashes'[t] = a
      /\ \A b \in Actions \ {a} : confirmations'[b] = confirmations[b]
      /\ \A u \in Txs \ {t} : txHashes'[u] = txHashes[u]
    BY <1>1, <1>2 DEF TypeOK
<1>4. \A b \in Actions : Confirmed(b) => confirmations[b].tx \in Txs
    BY DEF TypeOK, Confirmed, Confirmation
<1>5. FileIsCurrent'
    BY <1>2 DEF FileIsCurrent, ConfirmPart
<1>6. ConfirmedIsMined'
    BY <1>1, <1>3 DEF ConfirmedIsMined, ConfirmPart, Confirmed, Verifies
<1>7. ConfirmedIsRegistered'
    BY <1>1, <1>3, <1>4 DEF ConfirmedIsRegistered, ConfirmPart, Confirmed, Unclaimed
<1> QED
    BY <1>1, <1>3, <1>5, <1>6, <1>7 DEF ConfirmPart, Confirmed

\* A handler that is not at work on an execution begins or ends, and actions
\* may be confirmed meanwhile.
LEMMA PayPartStays ==
    ASSUME TypeOK, PayPart, NEW h \in Handlers, NEW k \in HandlerRecord,
           handler[h].pc \notin Paying \cup {"orphaned"}, k.pc \notin Paying \cup {"orphaned"},
           handler' = [handler EXCEPT ![h] = k],
           \A b \in Actions : Confirmed(b) => Confirmed(b)',
           UNCHANGED <<chain, mishap>>
    PROVE  PayPart'
<1>1. handler'[h] = k /\ \A g \in Handlers \ {h} : handler'[g] = handler[g]
    BY DEF TypeOK
<1>2. \A g \in Handlers, a \in Actions : AtWork(g, a)' <=> AtWork(g, a)
    BY <1>1 DEF AtWork
<1>3. OneAtWork'
    BY <1>2 DEF PayPart, OneAtWork
<1>4. OrphanIsMishap' /\ SignerIsFirst'
    BY <1>1 DEF PayPart, OrphanIsMishap, SignerIsFirst, Paying
<1>5. PaidIsKnown'
    <2>1. SUFFICES ASSUME NEW a \in Actions \ mishap, NEW t \in Txs, chain[t].payer = a, ~Confirmed(a)'
                   PROVE  \E g \in Handlers : AtWork(g, a)' /\ handler'[g].pc # "signing"
        BY DEF PaidIsKnown
    <2>2. PICK g \in Handlers : AtWork(g, a) /\ handler[g].pc # "signing"
        BY <2>1 DEF PayPart, PaidIsKnown
    <2>3. handler'[g] = handler[g]
        BY <1>1, <2>2 DEF AtWork
    <2> QED
        BY <1>2, <2>2, <2>3
<1>6. RetryPaysNothingAgain'
    BY DEF PayPart, RetryPaysNothingAgain, TransfersFor
<1> QED
    BY <1>3, <1>4, <1>5, <1>6 DEF PayPart

LEMMA ConfirmKeeps ==
    ASSUME IInv, NEW h \in Handlers, NEW a \in Actions, NEW t \in Txs, NEW claim \in Claims,
           Confirm(h, a, t, claim)
    PROVE  IInv'
<1> USE FreshRecords DEF IInv
<1>1. /\ claims' = claims + 1 /\ claims < MaxClaims /\ handler[h] = Idle /\ Unclaimed(t, a)
      /\ UNCHANGED <<config, outage, call, chain, settlements, mishap, calls, faults>>
    BY DEF Confirm
<1>2. MinedStays /\ SettlePart' /\ CallShape' /\ AttemptsHadCause'
    BY <1>1, SettlementStays DEF MinedStays, TypeOK, CallShape, AttemptsHadCause, Failures
<1>3. CASE config.verify
    <2> DEFINE k == Claim(a, t, claim)
    <2>1. /\ handler' = [handler EXCEPT ![h] = k] /\ UNCHANGED <<confirmations, txHashes, file>>
          /\ k \in HandlerRecord /\ k.pc = "confirming" /\ k.action = a /\ k.tx = t /\ k.claim = claim
          /\ k.caller = NoCaller
        BY <1>3 DEF Confirm
    <2> HIDE DEF k
    <2>2. handler'[h] = k /\ \A g \in Handlers \ {h} : handler'[g] = handler[g]
        BY <2>1 DEF TypeOK
    <2>3. TypeOK'
        BY <1>1, <2>1 DEF TypeOK
    <2>4. HandlerShape' /\ CallerWaits'
        BY <1>1, <1>3, <2>1, <2>2 DEF HandlerShape, CallerWaits, Paying
    <2>5. ConfirmPart'
        BY <1>1, <1>2, <2>1, ConfirmationsStay
    <2>6. PayPart'
        BY <1>1, <2>1, PayPartStays DEF Confirmed, Paying
    <2> QED
        BY <1>2, <2>3, <2>4, <2>5, <2>6
<1>4. CASE ~config.verify
    <2>1. Register(a, t, claim) /\ UNCHANGED handler
        BY <1>4 DEF Confirm
    <2>2. /\ ConfirmPart'
          /\ confirmations' \in [Actions -> Confirmation \cup {NoConfirmation}]
          /\ txHashes' \in [Txs -> Actions \cup {NoAction}]
          /\ file' \in [Actions -> Confirmation \cup {NoConfirmation}]
          /\ \A b \in Actions : Confirmed(b) => Confirmed(b)'
        BY <1>1, <1>4, <2>1, RegisterIs
    <2>3. TypeOK' /\ HandlerShape' /\ CallerWaits'
        BY <1>1, <2>1, <2>2 DEF TypeOK, HandlerShape, CallerWaits
    <2>4. PayPart'
        BY <1>1, <2>1, <2>2 DEF PayPart, OneAtWork, OrphanIsMishap, SignerIsFirst, PaidIsKnown,
            RetryPaysNothingAgain, AtWork, TransfersFor
    <2> QED
        BY <1>2, <2>2, <2>3, <2>4
<1> QED
    BY <1>3, <1>4

LEMMA ConfirmEndsKeeps ==
    ASSUME IInv, NEW h \in Handlers, ConfirmVerified(h) \/ ConfirmRejected(h)
    PROVE  IInv'
<1> USE FreshRecords DEF IInv
<1>1. /\ handler[h].pc = "confirming" /\ handler' = [handler EXCEPT ![h] = Idle]
      /\ UNCHANGED <<config, outage, call, chain, settlements, mishap, claims, calls, faults>>
    BY DEF ConfirmVerified, ConfirmRejected
<1>2. MinedStays /\ SettlePart' /\ CallShape' /\ AttemptsHadCause'
    BY <1>1, SettlementStays DEF MinedStays, TypeOK, CallShape, AttemptsHadCause, Failures
<1>3. /\ ConfirmPart'
      /\ confirmations' \in [Actions -> Confirmation \cup {NoConfirmation}]
      /\ txHashes' \in [Txs -> Actions \cup {NoAction}]
      /\ file' \in [Actions -> Confirmation \cup {NoConfirmation}]
      /\ \A b \in Actions : Confirmed(b) => Confirmed(b)'
    <2>1. CASE ConfirmVerified(h)
        BY <1>1, <2>1, RegisterIs DEF ConfirmVerified, HandlerShape
    <2>2. CASE ConfirmRejected(h)
        <3>1. UNCHANGED <<confirmations, txHashes, file>>
            BY <2>2 DEF ConfirmRejected
        <3> QED
            BY <1>1, <1>2, <3>1, ConfirmationsStay DEF TypeOK, Confirmed
    <2> QED
        BY <2>1, <2>2
<1>4. TypeOK'
    BY <1>1, <1>3 DEF TypeOK
<1>5. HandlerShape' /\ CallerWaits'
    BY <1>1 DEF HandlerShape, CallerWaits, TypeOK, Paying
<1>6. PayPart'
    BY <1>1, <1>3, PayPartStays DEF Paying
<1> QED
    BY <1>2, <1>3, <1>4, <1>5, <1>6

\* The adapter, and what the rail answers at once.
LEMMA FailuresIsNat ==
    ASSUME TypeOK
    PROVE  /\ faults * config.outage \in Nat /\ config.outage \in Nat
           /\ outage \in Nat /\ faults \in Nat
<1>1. faults \in Nat /\ config.outage \in Nat /\ outage \in Nat
    BY DEF TypeOK, Config
<1> QED
    BY <1>1

\* One call changes, and of the rest at most what it was answered with.
LEMMA CallChanges ==
    ASSUME IInv, NEW c \in Callers, NEW k \in CallRecord,
           call' = [call EXCEPT ![c] = k],
           call[c].pc # "waiting",
           k.pc # "idle" => k.action \in Actions,
           outage' \in 0..MaxOutage, outage' <= outage, calls' \in 0..MaxCalls,
           settlements' \subseteq [action : Actions, tx : Txs \cup {NoTx}, claim : Claims \cup {NoClaim}],
           SettlePart',
           Failures <= Failures',
           k.pc \in {"sent", "waiting"} => k.attempt <= Failures' + 1,
           k.pc = "failed" /\ ~k.refused => MaxAttempts <= Failures',
           Failures \in Int, Failures' \in Int,
           UNCHANGED <<config, confirmations, txHashes, file, handler, chain, mishap, claims, faults>>
    PROVE  IInv'
<1> USE DEF IInv
<1>1. call'[c] = k /\ \A d \in Callers \ {c} : call'[d] = call[d]
    BY DEF TypeOK
<1>2. TypeOK'
    BY DEF TypeOK
<1>3. HandlerShape' /\ CallShape' /\ CallerWaits'
    BY <1>1 DEF HandlerShape, CallShape, CallerWaits
<1>4. ConfirmPart' /\ MinedStays
    BY ConfirmationsStay DEF MinedStays
<1>5. PayPart'
    BY DEF PayPart, OneAtWork, OrphanIsMishap, SignerIsFirst, PaidIsKnown,
        RetryPaysNothingAgain, AtWork, TransfersFor, Confirmed
<1>6. AttemptsHadCause'
    <2>1. \A d \in Callers : call[d].attempt \in Int
        BY DEF TypeOK, CallRecord
    <2>2. k.attempt \in Int
        BY DEF CallRecord
    <2>4. outage' <= config.outage'
        BY FailuresIsNat DEF AttemptsHadCause
    <2> HIDE DEF IInv
    <2>3. AttemptsHadCause
        BY DEF IInv
    <2> QED
        BY <1>1, <2>1, <2>2, <2>3, <2>4 DEF AttemptsHadCause
<1> QED
    BY <1>2, <1>3, <1>4, <1>5, <1>6

LEMMA CallKeeps ==
    ASSUME IInv, NEW c \in Callers, NEW a \in Actions, Call(c, a)
    PROVE  IInv'
<1> USE DEF IInv
<1>1. /\ call' = [call EXCEPT ![c] = NewCall(a)] /\ calls < MaxCalls /\ calls' = calls + 1
      /\ call[c].pc # "waiting"
      /\ UNCHANGED <<config, confirmations, txHashes, file, outage, handler, chain,
                     settlements, mishap, claims, faults>>
    BY DEF Call
<1>2. calls' \in 0..MaxCalls /\ outage' \in 0..MaxOutage /\ outage' <= outage
    BY <1>1 DEF TypeOK
<1>3. Failures' = Failures /\ Failures \in Int /\ 1 <= Failures + 1
    <2>1. /\ outage <= config.outage
        BY DEF TypeOK, AttemptsHadCause
    <2> QED
        BY <1>1, <2>1, FailuresIsNat DEF Failures
<1>4. SettlePart' /\ settlements' \subseteq [action : Actions, tx : Txs \cup {NoTx}, claim : Claims \cup {NoClaim}]
    BY <1>1, SettlementStays DEF MinedStays, TypeOK
<1> DEFINE k == NewCall(a)
<1>5. k \in CallRecord /\ k.pc = "sent" /\ k.action = a /\ k.attempt = 1
    BY FreshRecords
<1>6. call' = [call EXCEPT ![c] = k]
    BY <1>1
<1> HIDE DEF k
<1>7. /\ Failures <= Failures'
      /\ k.pc \in {"sent", "waiting"} => k.attempt <= Failures' + 1
      /\ k.pc # "failed" /\ Failures' \in Int
    BY <1>3, <1>5
<1> QED
    BY <1>1, <1>2, <1>3, <1>4, <1>5, <1>6, <1>7, CallChanges

LEMMA UnavailableKeeps ==
    ASSUME IInv, NEW c \in Callers, Unavailable(c)
    PROVE  IInv'
<1> USE DEF IInv
<1>1. /\ call' = [call EXCEPT ![c] = AfterFailure(call[c])] /\ call[c].pc = "sent"
      /\ outage > 0 /\ outage' = outage - 1
      /\ UNCHANGED <<config, confirmations, txHashes, file, handler, chain,
                     settlements, mishap, claims, calls, faults>>
    BY DEF Unavailable
<1>2. call[c] \in CallRecord /\ call[c].action \in Actions /\ call[c].attempt \in Nat
    BY <1>1 DEF TypeOK, CallShape, CallRecord
<1>3. calls' \in 0..MaxCalls /\ outage' \in 0..MaxOutage /\ outage' <= outage
    BY <1>1 DEF TypeOK
<1>4. Failures' = Failures + 1 /\ Failures \in Int /\ Failures' \in Int
    BY <1>1, FailuresIsNat DEF Failures
<1>5. call[c].attempt <= Failures + 1
    BY <1>1 DEF AttemptsHadCause
<1>6. SettlePart' /\ settlements' \subseteq [action : Actions, tx : Txs \cup {NoTx}, claim : Claims \cup {NoClaim}]
    BY <1>1, SettlementStays DEF MinedStays, TypeOK
<1> DEFINE k == AfterFailure(call[c])
<1>7. /\ k \in CallRecord /\ k.action \in Actions
      /\ \/ k.pc = "sent" /\ k.attempt = call[c].attempt + 1
         \/ k.pc = "failed" /\ MaxAttempts <= call[c].attempt
    BY <1>2, CallAnswers
<1>8. call' = [call EXCEPT ![c] = k]
    BY <1>1
<1> HIDE DEF k
<1>9. /\ k.pc \in {"sent", "waiting"} => k.attempt <= Failures' + 1
      /\ k.pc = "failed" /\ ~k.refused => MaxAttempts <= Failures'
    BY <1>2, <1>4, <1>5, <1>7
<1>10. Failures <= Failures'
    BY <1>4
<1> QED
    BY <1>1, <1>3, <1>4, <1>6, <1>7, <1>8, <1>9, <1>10, CallChanges

LEMMA AnsweredAtOnceKeeps ==
    ASSUME IInv, NEW c \in Callers, SettleConfirmed(c) \/ SettleSeeded(c) \/ NotConfirmed(c)
    PROVE  IInv'
<1> USE DEF IInv
<1> DEFINE a == call[c].action
<1>1. /\ call[c].pc = "sent"
      /\ UNCHANGED <<config, confirmations, txHashes, file, outage, handler, chain,
                     mishap, claims, calls, faults>>
    BY DEF SettleConfirmed, SettleSeeded, NotConfirmed, Executable
<1>2. call[c] \in CallRecord /\ a \in Actions
    BY <1>1 DEF TypeOK, CallShape
<1>3. calls' \in 0..MaxCalls /\ outage' \in 0..MaxOutage /\ outage' <= outage /\ MinedStays
    BY <1>1 DEF TypeOK, MinedStays
<1>4. Failures' = Failures /\ Failures \in Int
    BY <1>1, FailuresIsNat DEF Failures
<1>5. PICK k \in {Settled(call[c]), Refused(call[c])} :
          /\ call' = [call EXCEPT ![c] = k]
          /\ \/ UNCHANGED settlements
             \/ /\ Confirmed(a) /\ Matches(confirmations[a].claim, a)
                /\ settlements' = settlements \cup
                       {Settlement(a, confirmations[a].tx, confirmations[a].claim)}
             \/ /\ ~config.agent /\ ~config.require
                /\ settlements' = settlements \cup {Settlement(a, NoTx, NoClaim)}
    BY DEF SettleConfirmed, SettleSeeded, NotConfirmed
<1>6. /\ k \in CallRecord /\ k.action = a /\ k.pc \notin {"sent", "waiting"}
      /\ ~(k.pc = "failed" /\ ~k.refused)
    BY <1>2, CallAnswers
<1>7. SettlePart' /\ settlements' \subseteq [action : Actions, tx : Txs \cup {NoTx}, claim : Claims \cup {NoClaim}]
    <2>1. CASE UNCHANGED settlements
        BY <1>1, <1>3, <2>1, SettlementStays DEF TypeOK
    <2>2. CASE /\ Confirmed(a) /\ Matches(confirmations[a].claim, a)
               /\ settlements' = settlements \cup
                      {Settlement(a, confirmations[a].tx, confirmations[a].claim)}
        <3> DEFINE s == Settlement(a, confirmations[a].tx, confirmations[a].claim)
        <3>1. confirmations[a] \in Confirmation
            BY <1>2, <2>2 DEF TypeOK, Confirmed
        <3>2. /\ s \in [action : Actions, tx : Txs \cup {NoTx}, claim : Claims \cup {NoClaim}]
              /\ Matches(s.claim, s.action) /\ s.tx # NoTx
              /\ config.verify => Verifies(s.tx, s.claim)
            BY <1>2, <2>2, <3>1 DEF Settlement, Confirmation, ConfirmPart, ConfirmedIsMined
        <3>3. settlements' = settlements \cup {s}
            BY <2>2
        <3> HIDE DEF s
        <3> QED
            BY <1>1, <3>2, <3>3 DEF SettlePart, TypeOK, Verifies
    <2>3. CASE /\ ~config.agent /\ ~config.require
               /\ settlements' = settlements \cup {Settlement(a, NoTx, NoClaim)}
        <3> DEFINE s == Settlement(a, NoTx, NoClaim)
        <3>1. /\ s \in [action : Actions, tx : Txs \cup {NoTx}, claim : Claims \cup {NoClaim}]
              /\ s.tx = NoTx
            BY <1>2 DEF Settlement
        <3>2. settlements' = settlements \cup {s}
            BY <2>3
        <3> HIDE DEF s
        <3> QED
            BY <1>1, <2>3, <3>1, <3>2 DEF SettlePart, TypeOK, Verifies
    <2> QED
        BY <1>5, <2>1, <2>2, <2>3
<1>8. Failures <= Failures' /\ Failures' \in Int /\ call' = [call EXCEPT ![c] = k]
    BY <1>4, <1>5
<1>9. /\ UNCHANGED <<config, confirmations, txHashes, file, handler, chain, mishap, claims, faults>>
      /\ call[c].pc # "waiting"
    BY <1>1
<1> QED
    BY <1>2, <1>3, <1>4, <1>6, <1>7, <1>8, <1>9, CallChanges

\* A fault is used up.
LEMMA FaultCounts ==
    ASSUME TypeOK, outage <= config.outage, faults' = faults + 1, UNCHANGED config,
           outage' = outage \/ outage' = config.outage
    PROVE  /\ Failures \in Int /\ Failures' \in Int /\ Failures + 1 <= Failures'
           /\ outage' <= config.outage'
<1>1. faults \in Nat /\ config.outage \in Nat /\ outage \in Nat
    BY FailuresIsNat
<1>2. faults' * config.outage = faults * config.outage + config.outage
    BY <1>1, Distributes
<1> QED
    BY <1>1, <1>2, FailuresIsNat DEF Failures

LEMMA ConnectionLostKeeps ==
    ASSUME IInv, NEW c \in Callers, ConnectionLost(c)
    PROVE  IInv'
<1> USE DEF IInv
<1> DEFINE k == AfterFailure(call[c])
<1>1. /\ call' = [call EXCEPT ![c] = k] /\ call[c].pc \in {"sent", "waiting"}
      /\ faults < MaxFaults /\ faults' = faults + 1
      /\ UNCHANGED <<config, confirmations, txHashes, file, outage, chain,
                     settlements, mishap, claims, calls>>
      /\ handler' = [h \in Handlers |-> IF handler[h].caller = c
                                        THEN [handler[h] EXCEPT !.caller = NoCaller]
                                        ELSE handler[h]]
    BY DEF ConnectionLost
<1>2. /\ call[c] \in CallRecord /\ call[c].action \in Actions /\ call[c].attempt \in Nat
      /\ call[c].attempt <= Failures + 1
    BY <1>1 DEF TypeOK, CallShape, CallRecord, AttemptsHadCause
<1>3. /\ k \in CallRecord /\ k.action \in Actions
      /\ \/ k.pc = "sent" /\ k.attempt = call[c].attempt + 1
         \/ k.pc = "failed" /\ MaxAttempts <= call[c].attempt
    BY <1>2, CallAnswers
<1> HIDE DEF k
<1>4. call' \in [Callers -> CallRecord] /\ call'[c] = k /\ \A d \in Callers \ {c} : call'[d] = call[d]
    BY <1>1, <1>3 DEF TypeOK
<1>5. /\ handler' \in [Handlers -> HandlerRecord]
      /\ \A h \in Handlers :
           /\ handler'[h].pc = handler[h].pc /\ handler'[h].action = handler[h].action
           /\ handler'[h].tx = handler[h].tx /\ handler'[h].claim = handler[h].claim
           /\ handler'[h].caller = IF handler[h].caller = c THEN NoCaller ELSE handler[h].caller
    <2>1. \A h \in Handlers : handler[h] \in HandlerRecord
        BY DEF TypeOK
    <2>2. \A r \in HandlerRecord :
            LET s == [r EXCEPT !.caller = NoCaller]
            IN s \in HandlerRecord /\ s.pc = r.pc /\ s.action = r.action /\ s.tx = r.tx
               /\ s.claim = r.claim /\ s.caller = NoCaller
        BY DEF HandlerRecord
    <2> QED
        BY <1>1, <2>1, <2>2
<1>6. TypeOK'
    BY <1>1, <1>4, <1>5 DEF TypeOK
<1>7. HandlerShape' /\ CallShape' /\ CallerWaits'
    <2>1. HandlerShape'
        BY <1>1, <1>5 DEF HandlerShape
    <2>2. CallShape'
        BY <1>3, <1>4 DEF CallShape
    <2>3. CallerWaits'
        BY <1>4, <1>5 DEF CallerWaits
    <2> QED
        BY <2>1, <2>2, <2>3
<1>8. ConfirmPart' /\ SettlePart'
    BY <1>1, ConfirmationsStay, SettlementStays DEF TypeOK, MinedStays
<1>9. PayPart'
    BY <1>1, <1>5 DEF PayPart, OneAtWork, OrphanIsMishap, SignerIsFirst, PaidIsKnown,
        RetryPaysNothingAgain, AtWork, TransfersFor, Confirmed
<1>10. AttemptsHadCause'
    <2>1. Failures \in Int /\ Failures' \in Int /\ Failures + 1 <= Failures' /\ outage' <= config.outage'
        BY <1>1, FaultCounts DEF AttemptsHadCause
    <2>2. \A d \in Callers : call[d].attempt \in Int
        BY DEF TypeOK, CallRecord
    <2>3. AttemptsHadCause
        OBVIOUS
    <2> HIDE DEF IInv
    <2> QED
        BY <1>2, <1>3, <1>4, <2>1, <2>2, <2>3 DEF AttemptsHadCause
<1> QED
    BY <1>6, <1>7, <1>8, <1>9, <1>10

\* Executions.
LEMMA StartCommandKeeps ==
    ASSUME IInv, NEW h \in Handlers, NEW c \in Callers, StartCommand(h, c)
    PROVE  IInv'
<1> USE DEF IInv
<1> DEFINE a == call[c].action
<1> DEFINE k == Execution(a, c)
<1>1. /\ call[c].pc = "sent" /\ handler[h] = Idle /\ ~Confirmed(a)
      /\ call' = [call EXCEPT ![c].pc = "waiting"]
      /\ handler' = [handler EXCEPT ![h] = k]
      /\ mishap' = IF BeingPaid(a) THEN mishap \cup {a} ELSE mishap
      /\ UNCHANGED <<config, confirmations, txHashes, file, outage, chain,
                     settlements, claims, calls, faults>>
    BY DEF StartCommand, Executable
<1>2. a \in Actions /\ call[c] \in CallRecord
    BY <1>1 DEF TypeOK, CallShape
<1>3. /\ k \in HandlerRecord /\ k.pc = "signing" /\ k.action = a /\ k.caller = c
    BY <1>2, FreshRecords
<1> HIDE DEF k
<1>4. /\ call' \in [Callers -> CallRecord]
      /\ call'[c].pc = "waiting" /\ call'[c].action = a /\ call'[c].attempt = call[c].attempt
      /\ \A d \in Callers \ {c} : call'[d] = call[d]
    BY <1>1, <1>2 DEF TypeOK, CallRecord
<1>5. /\ handler' \in [Handlers -> HandlerRecord] /\ handler'[h] = k
      /\ \A g \in Handlers \ {h} : handler'[g] = handler[g]
    BY <1>1, <1>3 DEF TypeOK
<1>6. TypeOK'
    BY <1>1, <1>2, <1>4, <1>5 DEF TypeOK
<1>7. HandlerShape' /\ CallShape' /\ CallerWaits'
    <2>1. HandlerShape'
        BY <1>1, <1>2, <1>3, <1>5 DEF HandlerShape, Paying
    <2>2. CallShape'
        BY <1>2, <1>4 DEF CallShape
    <2>3. CallerWaits'
        BY <1>1, <1>3, <1>4, <1>5 DEF CallerWaits
    <2> QED
        BY <2>1, <2>2, <2>3
<1>8. ConfirmPart' /\ SettlePart'
    BY <1>1, ConfirmationsStay, SettlementStays DEF TypeOK, MinedStays
<1>9. PayPart'
    <2>1. mishap \subseteq mishap' /\ (a \notin mishap' => ~BeingPaid(a))
        BY <1>1
    <2>2. a \notin mishap' => \A g \in Handlers : ~AtWork(g, a)
        BY <2>1 DEF PayPart, OrphanIsMishap, BeingPaid, AtWork
    <2>3. a \notin mishap' => \A t \in Txs : chain[t].payer # a
        BY <1>1, <1>2, <2>1, <2>2 DEF PayPart, PaidIsKnown
    <2>4. OneAtWork'
        BY <1>3, <1>5, <2>1, <2>2 DEF PayPart, OneAtWork, AtWork
    <2>5. OrphanIsMishap' /\ SignerIsFirst'
        BY <1>1, <1>3, <1>5, <2>1, <2>3 DEF PayPart, OrphanIsMishap, SignerIsFirst
    <2>6. PaidIsKnown' /\ RetryPaysNothingAgain'
        BY <1>1, <1>3, <1>5, <2>1, <2>3, FreshRecords DEF PayPart, PaidIsKnown, RetryPaysNothingAgain,
            AtWork, TransfersFor, Confirmed, Paying
    <2> QED
        BY <2>4, <2>5, <2>6 DEF PayPart
<1>10. AttemptsHadCause'
    BY <1>1, <1>4 DEF AttemptsHadCause, Failures
<1> QED
    BY <1>6, <1>7, <1>8, <1>9, <1>10

LEMMA SignerPaysKeeps ==
    ASSUME IInv, NEW h \in Handlers, NEW t \in Txs, SignerPays(h, t)
    PROVE  IInv'
<1> USE DEF IInv
<1> DEFINE a == handler[h].action
<1>1. /\ handler[h].pc \in {"signing", "orphaned"} /\ SignerAccepts(a)
      /\ Broadcast(t, SignerClaim(a).moved, a)
      /\ UNCHANGED <<config, confirmations, txHashes, file, outage, call,
                     settlements, mishap, claims, calls, faults>>
    BY DEF SignerPays
<1>2. handler[h] \in HandlerRecord /\ a \in Actions
    BY <1>1 DEF TypeOK, HandlerShape
<1>x. SignerClaim(a) \in Claims /\ SignerClaim(a).moved \in Moves
    BY <1>1, <1>2
<1>3. /\ chain' \in [Txs -> Transfer] /\ chain'[t].payer = a
      /\ \A u \in Txs \ {t} : chain'[u] = chain[u]
      /\ MinedStays
    BY <1>1, <1>2, <1>x, BroadcastIs DEF MinedStays
<1>4. PICK k \in {Idle, PaidBy(handler[h], t)} :
        /\ handler' = [handler EXCEPT ![h] = k]
        /\ handler[h].pc = "orphaned" => k = Idle
        /\ handler[h].pc = "signing" => k = PaidBy(handler[h], t)
    BY <1>1 DEF SignerPays
<1>5. /\ k \in HandlerRecord /\ k.caller \in {NoCaller, handler[h].caller}
      /\ handler[h].pc = "orphaned" => k.pc = "idle"
      /\ handler[h].pc = "signing" =>
            k.pc = "mining" /\ k.action = a /\ k.tx = t /\ k.claim \in Claims
      /\ k.pc \in {"idle", "mining"}
    BY <1>1, <1>2, <1>x, <1>4, PaidByIs, FreshRecords
<1>6. /\ handler' \in [Handlers -> HandlerRecord] /\ handler'[h] = k
      /\ \A g \in Handlers \ {h} : handler'[g] = handler[g]
    BY <1>4, <1>5 DEF TypeOK
<1>7. TypeOK'
    BY <1>1, <1>3, <1>6 DEF TypeOK
<1>8. HandlerShape' /\ CallShape' /\ CallerWaits'
    <2>1. HandlerShape'
        BY <1>1, <1>2, <1>5, <1>6 DEF HandlerShape, Paying
    <2>2. CallShape' /\ CallerWaits'
        BY <1>1, <1>5, <1>6 DEF CallShape, CallerWaits
    <2> QED
        BY <2>1, <2>2
<1>9. ConfirmPart' /\ SettlePart'
    BY <1>1, <1>3, ConfirmationsStay, SettlementStays DEF TypeOK
<1>10. PayPart'
    <2>1. handler[h].pc = "orphaned" => a \in mishap
        BY DEF PayPart, OrphanIsMishap
    <2>2. a \notin mishap => /\ handler[h].pc = "signing" /\ AtWork(h, a)
                             /\ \A u \in Txs : chain[u].payer # a
        BY <1>1, <2>1 DEF PayPart, SignerIsFirst, AtWork, Paying
    <2>3. OneAtWork'
        BY <1>1, <1>5, <1>6, <2>2 DEF PayPart, OneAtWork, AtWork, Paying
    <2>4. OrphanIsMishap'
        BY <1>1, <1>5, <1>6 DEF PayPart, OrphanIsMishap
    <2>5. SignerIsFirst'
        <3>1. SUFFICES ASSUME NEW g \in Handlers, handler'[g].pc = "signing", handler'[g].action \notin mishap,
                              NEW u \in Txs
                       PROVE  chain'[u].payer # handler'[g].action
            BY <1>1 DEF SignerIsFirst
        <3>2. g # h /\ handler'[g] = handler[g]
            BY <1>5, <1>6, <3>1
        <3>3. handler[g].action # a
            BY <1>2, <2>2, <3>1, <3>2 DEF PayPart, OneAtWork, AtWork, Paying
        <3> QED
            BY <1>3, <3>1, <3>2, <3>3 DEF PayPart, SignerIsFirst
    <2>6. PaidIsKnown'
        <3>1. SUFFICES ASSUME NEW b \in Actions \ mishap, NEW u \in Txs, chain'[u].payer = b, ~Confirmed(b)
                       PROVE  \E g \in Handlers : AtWork(g, b)' /\ handler'[g].pc # "signing"
            BY <1>1 DEF PaidIsKnown, Confirmed
        <3>2. CASE b = a
            BY <1>5, <1>6, <2>2, <3>2 DEF AtWork, Paying
        <3>3. CASE b # a
            <4>1. PICK g \in Handlers : AtWork(g, b) /\ handler[g].pc # "signing"
                BY <1>3, <3>1, <3>3 DEF PayPart, PaidIsKnown
            <4> QED
                BY <1>6, <3>3, <4>1 DEF AtWork
        <3> QED
            BY <3>2, <3>3
    <2>7. RetryPaysNothingAgain'
        BY <1>1, <1>3, <2>2 DEF PayPart, RetryPaysNothingAgain, TransfersFor
    <2> QED
        BY <2>3, <2>4, <2>5, <2>6, <2>7 DEF PayPart
<1>11. AttemptsHadCause'
    BY <1>1 DEF AttemptsHadCause, Failures
<1> QED
    BY <1>7, <1>8, <1>9, <1>10, <1>11

\* The waiting call of a handler is answered.
LEMMA AnswerIs ==
    ASSUME TypeOK, CallShape, CallerWaits, AttemptsHadCause, NEW h \in Handlers, NEW answer,
           answer \in [Callers -> CallRecord], AnswerTo(h, answer),
           \A c \in Callers : /\ answer[c].action = call[c].action
                              /\ answer[c].pc \notin {"sent", "waiting"}
                              /\ ~(answer[c].pc = "failed" /\ ~answer[c].refused),
           handler' = [handler EXCEPT ![h] = Idle]
    PROVE  /\ call' \in [Callers -> CallRecord] /\ CallShape' /\ CallerWaits'
           /\ \A c \in Callers : /\ call'[c].pc \in {"sent", "waiting"} => call'[c] = call[c]
                                 /\ call'[c].pc = "failed" /\ ~call'[c].refused => call'[c] = call[c]
<1>1. /\ call' \in [Callers -> CallRecord]
      /\ \A c \in Callers : /\ handler[h].caller = c => call'[c] = answer[c]
                            /\ handler[h].caller # c => call'[c] = call[c]
    BY DEF AnswerTo, TypeOK
<1>2. handler'[h] = Idle /\ \A g \in Handlers \ {h} : handler'[g] = handler[g]
    BY DEF TypeOK
<1>3. CallShape'
    BY <1>1 DEF CallShape, CallerWaits
<1>4. CallerWaits'
    BY <1>1, <1>2, FreshRecords DEF CallerWaits
<1> QED
    BY <1>1, <1>3, <1>4

LEMMA SettlesKeeps ==
    ASSUME IInv, NEW h \in Handlers, handler[h].pc \in {"mining", "verifying"},
           RegisterAndSettle(h),
           ~config.verify => Unclaimed(handler[h].tx, handler[h].action),
           Matches(handler[h].claim, handler[h].action),
           config.verify => Verifies(handler[h].tx, handler[h].claim),
           UNCHANGED <<config, outage, chain, mishap, claims, calls, faults>>
    PROVE  IInv'
<1> USE DEF IInv
<1>0. PICK a \in Actions, t \in Txs, claim \in Claims :
          a = handler[h].action /\ t = handler[h].tx /\ claim = handler[h].claim
    BY DEF HandlerShape
<1>a. Idle.pc = "idle" /\ Idle.action = NoAction /\ Idle \in HandlerRecord
    BY FreshRecords
<1> DEFINE s == Settlement(a, t, claim)
<1> DEFINE answer == [c \in Callers |-> Settled(call[c])]
<1>1. /\ Register(a, t, claim) /\ AnswerTo(h, answer)
      /\ handler' = [handler EXCEPT ![h] = Idle]
      /\ settlements' = IF handler[h].caller = NoCaller THEN settlements ELSE settlements \cup {s}
    BY <1>0 DEF RegisterAndSettle
<1>2. /\ ~config.verify => Unclaimed(t, a)
      /\ Matches(claim, a)
      /\ config.verify => Verifies(t, claim)
    BY <1>0
<1>3. /\ ConfirmPart'
      /\ confirmations' \in [Actions -> Confirmation \cup {NoConfirmation}]
      /\ txHashes' \in [Txs -> Actions \cup {NoAction}]
      /\ file' \in [Actions -> Confirmation \cup {NoConfirmation}]
      /\ Confirmed(a)' /\ \A b \in Actions : Confirmed(b) => Confirmed(b)'
    BY <1>1, <1>2, RegisterIs
<1>4. /\ handler' \in [Handlers -> HandlerRecord] /\ handler'[h] = Idle
      /\ \A g \in Handlers \ {h} : handler'[g] = handler[g]
    BY <1>a, <1>1 DEF TypeOK
<1>5. /\ call' \in [Callers -> CallRecord] /\ CallShape' /\ CallerWaits'
      /\ \A c \in Callers : /\ call'[c].pc \in {"sent", "waiting"} => call'[c] = call[c]
                            /\ call'[c].pc = "failed" /\ ~call'[c].refused => call'[c] = call[c]
    <2>1. /\ answer \in [Callers -> CallRecord]
          /\ \A c \in Callers : answer[c].action = call[c].action /\ answer[c].pc = "settled"
        BY CallAnswers DEF TypeOK
    <2> HIDE DEF answer
    <2> QED
        BY <1>1, <2>1, AnswerIs
<1>6. /\ s \in [action : Actions, tx : Txs \cup {NoTx}, claim : Claims \cup {NoClaim}]
      /\ Matches(s.claim, s.action) /\ s.tx # NoTx
      /\ config.verify => Verifies(s.tx, s.claim)
    BY <1>0, <1>2 DEF Settlement
<1> HIDE DEF s
<1>7. SettlePart' /\ settlements' \subseteq [action : Actions, tx : Txs \cup {NoTx}, claim : Claims \cup {NoClaim}]
    BY <1>1, <1>6 DEF SettlePart, TypeOK, Verifies
<1>8. TypeOK'
    BY <1>3, <1>4, <1>5, <1>7 DEF TypeOK
<1>9. HandlerShape'
    BY <1>4, <1>a DEF HandlerShape, Paying
<1>10. PayPart'
    <2>1. \A g \in Handlers, b \in Actions : AtWork(g, b)' => g # h /\ AtWork(g, b)
        BY <1>4, <1>a DEF AtWork, Paying
    <2>2. OneAtWork'
        BY <2>1 DEF PayPart, OneAtWork
    <2>3. OrphanIsMishap' /\ SignerIsFirst'
        BY <1>4, <1>a DEF PayPart, OrphanIsMishap, SignerIsFirst
    <2>4. PaidIsKnown'
        <3>1. SUFFICES ASSUME NEW b \in Actions \ mishap, NEW u \in Txs, chain[u].payer = b, ~Confirmed(b)'
                       PROVE  \E g \in Handlers : AtWork(g, b)' /\ handler'[g].pc # "signing"
            BY DEF PaidIsKnown
        <3>2. PICK g \in Handlers : AtWork(g, b) /\ handler[g].pc # "signing"
            BY <1>3, <3>1 DEF PayPart, PaidIsKnown
        <3>3. g # h
            BY <1>0, <1>3, <3>1, <3>2 DEF AtWork
        <3> QED
            BY <1>4, <3>2, <3>3 DEF AtWork
    <2>5. RetryPaysNothingAgain'
        BY DEF PayPart, RetryPaysNothingAgain, TransfersFor
    <2> QED
        BY <2>2, <2>3, <2>4, <2>5 DEF PayPart
<1>11. AttemptsHadCause'
    BY <1>5 DEF AttemptsHadCause, Failures
<1> QED
    BY <1>3, <1>5, <1>7, <1>8, <1>9, <1>10, <1>11

LEMMA VerifyingKeeps ==
    ASSUME IInv, NEW h \in Handlers, CommandReturns(h), config.verify
    PROVE  IInv'
<1> USE DEF IInv
<1>1. /\ handler[h].pc = "mining" /\ handler' = [handler EXCEPT ![h].pc = "verifying"]
      /\ Matches(handler[h].claim, handler[h].action)
      /\ UNCHANGED <<config, confirmations, txHashes, file, outage, call, chain,
                     settlements, mishap, claims, calls, faults>>
    BY DEF CommandReturns, Acceptable
<1>2. /\ handler' \in [Handlers -> HandlerRecord] /\ handler'[h].pc = "verifying"
      /\ handler'[h].action = handler[h].action /\ handler'[h].tx = handler[h].tx
      /\ handler'[h].claim = handler[h].claim /\ handler'[h].caller = handler[h].caller
      /\ \A g \in Handlers \ {h} : handler'[g] = handler[g]
    <2>1. handler[h] \in HandlerRecord
        BY DEF TypeOK
    <2>2. LET r == [handler[h] EXCEPT !.pc = "verifying"]
          IN r \in HandlerRecord /\ r.pc = "verifying" /\ r.action = handler[h].action
             /\ r.tx = handler[h].tx /\ r.claim = handler[h].claim /\ r.caller = handler[h].caller
        BY <2>1 DEF HandlerRecord
    <2> QED
        BY <1>1, <2>2 DEF TypeOK
<1>3. TypeOK' /\ CallShape' /\ AttemptsHadCause'
    BY <1>1, <1>2 DEF TypeOK, CallShape, AttemptsHadCause, Failures
<1>4. HandlerShape' /\ CallerWaits'
    BY <1>1, <1>2 DEF HandlerShape, CallerWaits, Paying, Matches
<1>5. ConfirmPart' /\ SettlePart'
    BY <1>1, ConfirmationsStay, SettlementStays DEF TypeOK, MinedStays
<1>6. PayPart'
    BY <1>1, <1>2 DEF PayPart, OneAtWork, OrphanIsMishap, SignerIsFirst, PaidIsKnown,
        RetryPaysNothingAgain, AtWork, TransfersFor, Confirmed, Paying
<1> QED
    BY <1>3, <1>4, <1>5, <1>6

LEMMA CommandReturnsKeeps ==
    ASSUME IInv, NEW h \in Handlers, CommandReturns(h) \/ ExecutionVerified(h)
    PROVE  IInv'
<1>1. UNCHANGED <<config, outage, chain, mishap, claims, calls, faults>>
    BY DEF CommandReturns, ExecutionVerified
<1>2. CASE CommandReturns(h) /\ ~config.verify
    BY <1>1, <1>2, SettlesKeeps DEF CommandReturns, Acceptable
<1>3. CASE CommandReturns(h) /\ config.verify
    BY <1>3, VerifyingKeeps
<1>4. CASE ExecutionVerified(h)
    BY <1>1, <1>4, SettlesKeeps DEF ExecutionVerified, IInv, HandlerShape
<1> QED
    BY <1>2, <1>3, <1>4

LEMMA ExecutionFailsKeeps ==
    ASSUME IInv, NEW h \in Handlers, ExecutionFails(h)
    PROVE  IInv'
<1> USE DEF IInv
<1>0. Idle.pc = "idle" /\ Idle.action = NoAction /\ Idle \in HandlerRecord
    BY FreshRecords
<1> DEFINE answer == [c \in Callers |-> Refused(call[c])]
<1>1. /\ handler[h].pc \in Paying /\ AnswerTo(h, answer)
      /\ handler' = [handler EXCEPT ![h] = Idle]
      /\ mishap' = IF handler[h].pc = "signing" THEN mishap ELSE mishap \cup {handler[h].action}
      /\ \/ UNCHANGED faults
         \/ faults < MaxFaults /\ faults' = faults + 1
      /\ UNCHANGED <<config, confirmations, txHashes, file, outage, chain,
                     settlements, claims, calls>>
    BY DEF ExecutionFails
<1>2. handler[h].action \in Actions /\ mishap \subseteq mishap'
    BY <1>1 DEF HandlerShape, Paying
<1>3. /\ handler' \in [Handlers -> HandlerRecord] /\ handler'[h] = Idle
      /\ \A g \in Handlers \ {h} : handler'[g] = handler[g]
    BY <1>0, <1>1 DEF TypeOK
<1>4. /\ call' \in [Callers -> CallRecord] /\ CallShape' /\ CallerWaits'
      /\ \A c \in Callers : /\ call'[c].pc \in {"sent", "waiting"} => call'[c] = call[c]
                            /\ call'[c].pc = "failed" /\ ~call'[c].refused => call'[c] = call[c]
    <2>1. /\ answer \in [Callers -> CallRecord]
          /\ \A c \in Callers : answer[c].action = call[c].action /\ answer[c].pc = "failed"
                                /\ answer[c].refused
        BY CallAnswers DEF TypeOK
    <2> HIDE DEF answer
    <2> QED
        BY <1>1, <2>1, AnswerIs
<1>5. TypeOK'
    BY <1>1, <1>2, <1>3, <1>4 DEF TypeOK
<1>6. HandlerShape'
    BY <1>0, <1>1, <1>3 DEF HandlerShape, Paying
<1>7. ConfirmPart' /\ SettlePart'
    BY <1>1, ConfirmationsStay, SettlementStays DEF TypeOK, MinedStays
<1>8. PayPart'
    <2>1. \A g \in Handlers, b \in Actions : AtWork(g, b)' => g # h /\ AtWork(g, b)
        BY <1>0, <1>3 DEF AtWork, Paying
    <2>2. OneAtWork'
        BY <1>2, <2>1 DEF PayPart, OneAtWork
    <2>3. OrphanIsMishap' /\ SignerIsFirst'
        BY <1>0, <1>1, <1>2, <1>3 DEF PayPart, OrphanIsMishap, SignerIsFirst
    <2>4. PaidIsKnown'
        <3>1. SUFFICES ASSUME NEW b \in Actions \ mishap', NEW u \in Txs, chain[u].payer = b, ~Confirmed(b)
                       PROVE  \E g \in Handlers : AtWork(g, b)' /\ handler'[g].pc # "signing"
            BY <1>1 DEF PaidIsKnown, Confirmed
        <3>2. PICK g \in Handlers : AtWork(g, b) /\ handler[g].pc # "signing"
            BY <1>2, <3>1 DEF PayPart, PaidIsKnown
        <3>3. g # h
            BY <1>1, <3>1, <3>2 DEF AtWork
        <3> QED
            BY <1>3, <3>2, <3>3 DEF AtWork
    <2>5. RetryPaysNothingAgain'
        BY <1>1, <1>2 DEF PayPart, RetryPaysNothingAgain, TransfersFor
    <2> QED
        BY <2>2, <2>3, <2>4, <2>5 DEF PayPart
<1>9. AttemptsHadCause'
    <2>1. Failures \in Int /\ Failures' \in Int /\ Failures <= Failures' /\ outage' <= config.outage'
        <3>1. CASE UNCHANGED faults
            BY <1>1, <3>1, FailuresIsNat DEF AttemptsHadCause, Failures
        <3>2. CASE faults' = faults + 1
            BY <1>1, <3>2, FaultCounts DEF AttemptsHadCause
        <3> QED
            BY <1>1, <3>1, <3>2
    <2>2. \A c \in Callers : call[c].attempt \in Int
        BY DEF TypeOK, CallRecord
    <2>3. AttemptsHadCause
        OBVIOUS
    <2> HIDE DEF IInv
    <2> QED
        BY <1>4, <2>1, <2>2, <2>3 DEF AttemptsHadCause
<1> QED
    BY <1>4, <1>5, <1>6, <1>7, <1>8, <1>9

LEMMA OrphanEndsKeeps ==
    ASSUME IInv, NEW h \in Handlers, OrphanEnds(h)
    PROVE  IInv'
<1> USE DEF IInv
<1>0. Idle.pc = "idle" /\ Idle.action = NoAction /\ Idle.caller = NoCaller /\ Idle \in HandlerRecord
    BY FreshRecords
<1>1. /\ handler[h].pc = "orphaned" /\ handler' = [handler EXCEPT ![h] = Idle]
      /\ UNCHANGED <<config, confirmations, txHashes, file, outage, call, chain,
                     settlements, mishap, claims, calls, faults>>
    BY DEF OrphanEnds
<1>2. /\ handler' \in [Handlers -> HandlerRecord] /\ handler'[h] = Idle
      /\ \A g \in Handlers \ {h} : handler'[g] = handler[g]
    BY <1>0, <1>1 DEF TypeOK
<1>3. TypeOK' /\ CallShape' /\ AttemptsHadCause'
    BY <1>1, <1>2 DEF TypeOK, CallShape, AttemptsHadCause, Failures
<1>4. HandlerShape' /\ CallerWaits'
    BY <1>0, <1>1, <1>2 DEF HandlerShape, CallerWaits, Paying
<1>5. ConfirmPart' /\ SettlePart'
    BY <1>1, ConfirmationsStay, SettlementStays DEF TypeOK, MinedStays
<1>6. PayPart'
    <2>1. \A g \in Handlers, b \in Actions : AtWork(g, b)' => g # h /\ AtWork(g, b)
        BY <1>0, <1>2 DEF AtWork, Paying
    <2>2. OneAtWork' /\ RetryPaysNothingAgain'
        BY <1>1, <2>1 DEF PayPart, OneAtWork, RetryPaysNothingAgain, TransfersFor
    <2>3. OrphanIsMishap' /\ SignerIsFirst'
        BY <1>0, <1>1, <1>2 DEF PayPart, OrphanIsMishap, SignerIsFirst
    <2>4. PaidIsKnown'
        <3>1. SUFFICES ASSUME NEW b \in Actions \ mishap, NEW u \in Txs, chain[u].payer = b, ~Confirmed(b)
                       PROVE  \E g \in Handlers : AtWork(g, b)' /\ handler'[g].pc # "signing"
            BY <1>1 DEF PaidIsKnown, Confirmed
        <3>2. PICK g \in Handlers : AtWork(g, b) /\ handler[g].pc # "signing"
            BY <3>1 DEF PayPart, PaidIsKnown
        <3>3. g # h
            BY <1>1, <3>1, <3>2 DEF AtWork, PayPart, OrphanIsMishap
        <3> QED
            BY <1>2, <3>2, <3>3 DEF AtWork
    <2> QED
        BY <2>2, <2>3, <2>4 DEF PayPart
<1> QED
    BY <1>3, <1>4, <1>5, <1>6

\* Crash and restart of the rail.
LEMMA ReloadedIs ==
    ASSUME IInv
    PROVE  /\ Reloaded \in [Actions -> Confirmation \cup {NoConfirmation}]
           /\ config.persist => Reloaded = confirmations
           /\ \A a \in Actions : Reloaded[a] # NoConfirmation => Reloaded[a] = confirmations[a]
<1>1. CASE config.persist
    BY <1>1 DEF Reloaded, IInv, TypeOK, ConfirmPart, FileIsCurrent
<1>2. CASE ~config.persist
    BY <1>2 DEF Reloaded
<1> QED
    BY <1>1, <1>2

LEMMA RestartKeeps == IInv /\ Restart => IInv'
<1> SUFFICES ASSUME IInv, Restart PROVE IInv'
    OBVIOUS
<1>0. Idle.pc = "idle" /\ Idle.action = NoAction /\ Idle.caller = NoCaller /\ Idle \in HandlerRecord
    BY FreshRecords
<1> DEFINE lost == {a \in Actions : Confirmed(a) /\ Reloaded[a] = NoConfirmation}
<1>1. /\ faults < MaxFaults /\ faults' = faults + 1
      /\ confirmations' = Reloaded /\ txHashes' = HashesOf(Reloaded) /\ outage' = config.outage
      /\ mishap' = mishap \cup {a \in Actions : BeingPaid(a)} \cup lost
      /\ UNCHANGED <<config, file, chain, settlements, claims, calls>>
    BY DEF Restart
<1>2. /\ Reloaded \in [Actions -> Confirmation \cup {NoConfirmation}]
      /\ config.persist => Reloaded = confirmations
      /\ \A a \in Actions : Reloaded[a] # NoConfirmation => Reloaded[a] = confirmations[a]
    BY ReloadedIs
<1> USE DEF IInv
<1>3. /\ handler' \in [Handlers -> HandlerRecord]
      /\ \A h \in Handlers :
           /\ handler'[h].pc \in {"idle", "orphaned"} /\ handler'[h].caller = NoCaller
           /\ handler'[h].pc = "orphaned" => /\ handler[h].pc \in {"signing", "orphaned"}
                                             /\ handler'[h].action = handler[h].action
           /\ handler'[h].pc = "idle" => handler'[h].action = NoAction
    <2>1. \A h \in Handlers : handler[h] \in HandlerRecord
        BY DEF TypeOK
    <2>2. \A k \in HandlerRecord : /\ Orphan(k) \in HandlerRecord /\ Orphan(k).pc = "orphaned"
                                   /\ Orphan(k).action = k.action /\ Orphan(k).caller = NoCaller
        BY OrphanIs
    <2>3. handler' = [h \in Handlers |-> IF handler[h].pc = "signing" THEN Orphan(handler[h])
                                         ELSE IF handler[h].pc = "orphaned" THEN handler[h] ELSE Idle]
        BY DEF Restart
    <2>4. \A h \in Handlers : handler[h].pc = "orphaned" => handler[h].caller = NoCaller
        BY DEF HandlerShape
    <2> QED
        BY <1>0, <2>1, <2>2, <2>3, <2>4
<1>4. /\ call' \in [Callers -> CallRecord] /\ CallShape'
      /\ \A c \in Callers : \/ call'[c] = call[c] /\ call[c].pc # "waiting"
                            \/ call'[c] = AfterFailure(call[c]) /\ call[c].pc = "waiting"
    <2>1. call' = [c \in Callers |-> IF call[c].pc = "waiting" THEN AfterFailure(call[c]) ELSE call[c]]
        BY DEF Restart
    <2>2. \A c \in Callers : call[c] \in CallRecord
        BY DEF TypeOK
    <2> QED
        BY <2>1, <2>2, CallAnswers DEF CallShape
<1> HIDE DEF lost
<1>5. /\ \A a \in Actions : Confirmed(a)' => Confirmed(a) /\ confirmations'[a] = confirmations[a]
      /\ \A a \in Actions \ mishap' : Confirmed(a) => Confirmed(a)'
      /\ mishap \subseteq mishap' /\ mishap' \subseteq Actions
      /\ \A a \in Actions \ mishap' : ~BeingPaid(a)
    BY <1>1, <1>2 DEF Confirmed, TypeOK, lost
<1>6. /\ txHashes' \in [Txs -> Actions \cup {NoAction}]
      /\ ConfirmedIsRegistered'
    <2>1. ASSUME NEW t \in Txs, NEW a \in Actions, Reloaded[a].tx = t
          PROVE  HashesOf(Reloaded)[t] \in Actions /\ Reloaded[HashesOf(Reloaded)[t]].tx = t
        BY <2>1 DEF HashesOf
    <2>2. HashesOf(Reloaded) \in [Txs -> Actions \cup {NoAction}]
        BY DEF HashesOf
    <2>3. ASSUME NEW a \in Actions, ~config.verify, Confirmed(a)'
          PROVE  txHashes'[confirmations'[a].tx] = a
        <3>1. Confirmed(a) /\ confirmations'[a] = confirmations[a] /\ confirmations[a].tx \in Txs
            BY <1>2, <1>5, <2>3 DEF Confirmed, Confirmation, TypeOK
        <3>2. PICK b \in Actions : b = HashesOf(Reloaded)[confirmations[a].tx]
                                   /\ Reloaded[b].tx = confirmations[a].tx
            BY <1>1, <2>1, <3>1
        <3>3. Reloaded[b] # NoConfirmation
            BY <3>1, <3>2, FreshRecords
        <3>4. Confirmed(b) /\ confirmations[b].tx = confirmations[a].tx
            BY <1>1, <1>2, <3>2, <3>3 DEF Confirmed
        <3>5. a = b
            BY <2>3, <3>1, <3>4 DEF ConfirmPart, ConfirmedIsRegistered
        <3> QED
            BY <1>1, <3>1, <3>2, <3>5
    <2> QED
        BY <1>1, <2>2, <2>3 DEF ConfirmedIsRegistered
<1>7. TypeOK'
    <2>1. config.outage \in 0..MaxOutage
        BY DEF TypeOK, Config
    <2> QED
        BY <1>1, <1>2, <1>3, <1>4, <1>5, <1>6, <2>1 DEF TypeOK
<1>8. HandlerShape' /\ CallerWaits'
    BY <1>3 DEF HandlerShape, CallerWaits, Paying
<1>9. ConfirmPart' /\ SettlePart'
    <2>1. FileIsCurrent'
        BY <1>1, <1>2 DEF FileIsCurrent, ConfirmPart
    <2>2. ConfirmedIsMined'
        BY <1>1, <1>5 DEF ConfirmedIsMined, ConfirmPart, Verifies
    <2>3. SettlePart'
        BY <1>1, SettlementStays DEF TypeOK, MinedStays
    <2> QED
        BY <1>6, <2>1, <2>2, <2>3 DEF ConfirmPart
<1>10. PayPart'
    <2>1. \A h \in Handlers : handler'[h].pc = "orphaned" => handler'[h].action \in mishap'
        BY <1>1, <1>3, <1>5 DEF PayPart, OrphanIsMishap, BeingPaid, Paying, HandlerShape
    <2>2. \A a \in Actions \ mishap', h \in Handlers : ~AtWork(h, a)'
        BY <1>3, <2>1 DEF AtWork
    <2>3. OneAtWork' /\ OrphanIsMishap' /\ SignerIsFirst'
        BY <1>3, <2>1, <2>2 DEF OneAtWork, OrphanIsMishap, SignerIsFirst
    <2>4. PaidIsKnown'
        <3>1. SUFFICES ASSUME NEW a \in Actions \ mishap', NEW t \in Txs, chain[t].payer = a
                       PROVE  Confirmed(a)
            BY <1>1, <1>5 DEF PaidIsKnown
        <3>2. \A h \in Handlers : ~AtWork(h, a)
            BY <1>5 DEF PayPart, OrphanIsMishap, BeingPaid, AtWork
        <3> QED
            BY <1>5, <3>1, <3>2 DEF PayPart, PaidIsKnown
    <2>5. RetryPaysNothingAgain'
        BY <1>1, <1>5 DEF PayPart, RetryPaysNothingAgain, TransfersFor
    <2> QED
        BY <2>3, <2>4, <2>5 DEF PayPart
<1>11. AttemptsHadCause'
    <2>1. Failures \in Int /\ Failures' \in Int /\ Failures + 1 <= Failures' /\ outage' <= config.outage'
        BY <1>1, FaultCounts DEF AttemptsHadCause
    <2>2. \A c \in Callers : call[c] \in CallRecord /\ call[c].attempt \in Int
        BY DEF TypeOK, CallRecord
    <2>3. AttemptsHadCause
        OBVIOUS
    <2> HIDE DEF IInv
    <2>4. ASSUME NEW c \in Callers
          PROVE  /\ call'[c].pc \in {"sent", "waiting"} => call'[c].attempt <= Failures' + 1
                 /\ call'[c].pc = "failed" /\ ~call'[c].refused => MaxAttempts <= Failures'
        <3>1. CASE call'[c] = call[c]
            BY <2>1, <2>2, <2>3, <3>1 DEF AttemptsHadCause
        <3>2. CASE call'[c] = AfterFailure(call[c]) /\ call[c].pc = "waiting"
            <4>1. \/ call'[c].pc = "sent" /\ call'[c].attempt = call[c].attempt + 1
                  \/ call'[c].pc = "failed" /\ MaxAttempts <= call[c].attempt
                BY <2>2, <3>2, CallAnswers
            <4>2. call[c].attempt <= Failures + 1
                BY <2>3, <3>2 DEF AttemptsHadCause
            <4> QED
                BY <2>1, <2>2, <4>1, <4>2
        <3> QED
            BY <1>4, <3>1, <3>2
    <2> QED
        BY <2>1, <2>4 DEF AttemptsHadCause
<1> QED
    BY <1>4, <1>6, <1>7, <1>8, <1>9, <1>10, <1>11

-----------------------------------------------------------------------------
(* The invariant.                                                          *)

LEMMA NextKeeps == IInv /\ [Next]_vars => IInv'
<1> SUFFICES ASSUME IInv, [Next]_vars PROVE IInv'
    OBVIOUS
<1>1. CASE \E t \in Txs, moved \in Moves : PersonPays(t, moved)
    BY <1>1, PersonPaysKeeps
<1>2. CASE \E t \in Txs, s \in {"mined", "reverted"} : Mine(t, s)
    BY <1>2, MineKeeps
<1>3. CASE \E h \in Handlers, a \in Actions, t \in Txs, claim \in Claims : Confirm(h, a, t, claim)
    BY <1>3, ConfirmKeeps
<1>4. CASE \E h \in Handlers : ConfirmVerified(h) \/ ConfirmRejected(h)
    BY <1>4, ConfirmEndsKeeps
<1>5. CASE \E c \in Callers, a \in Actions : Call(c, a)
    BY <1>5, CallKeeps
<1>6. CASE \E c \in Callers : ConnectionLost(c) \/ Unavailable(c)
    BY <1>6, ConnectionLostKeeps, UnavailableKeeps
<1>7. CASE \E c \in Callers : SettleConfirmed(c) \/ SettleSeeded(c) \/ NotConfirmed(c)
    BY <1>7, AnsweredAtOnceKeeps
<1>8. CASE \E h \in Handlers, c \in Callers : StartCommand(h, c)
    BY <1>8, StartCommandKeeps
<1>9. CASE \E h \in Handlers, t \in Txs : SignerPays(h, t)
    BY <1>9, SignerPaysKeeps
<1>10. CASE \E h \in Handlers : CommandReturns(h) \/ ExecutionVerified(h) \/ ExecutionFails(h)
    BY <1>10, CommandReturnsKeeps, ExecutionFailsKeeps
<1>11. CASE \E h \in Handlers : OrphanEnds(h)
    BY <1>11, OrphanEndsKeeps
<1>12. CASE Restart
    BY <1>12, RestartKeeps
<1>13. CASE UNCHANGED vars
    BY <1>13 DEF vars, IInv, TypeOK, HandlerShape, CallShape, CallerWaits, ConfirmPart, FileIsCurrent,
        ConfirmedIsMined, ConfirmedIsRegistered, Confirmed, Verifies, SettlePart,
        PayPart, OneAtWork, OrphanIsMishap, SignerIsFirst, PaidIsKnown, RetryPaysNothingAgain, AtWork,
        TransfersFor, AttemptsHadCause, Failures
<1> QED
    BY <1>1, <1>2, <1>3, <1>4, <1>5, <1>6, <1>7, <1>8, <1>9, <1>10, <1>11, <1>12, <1>13 DEF Next

LEMMA Invariant == Spec => []IInv
BY InitHolds, NextKeeps, PTL DEF Spec

\* The variables hold what the code keeps in them.
THEOREM RailTypeCorrect == Spec => []TypeOK
<1>1. IInv => TypeOK
    BY DEF IInv
<1> QED
    BY <1>1, Invariant, PTL

\* A settlement of executePayment is of the intent's asset and amount and to its
\* payee, if the intent gives an address; if there is a verifier that is what
\* its transfer, which is mined, moved on the chain, of whatever token, however
\* requests, commands, faults and restarts fell between.
THEOREM SettlementsAreBacked == Spec => []SettlementIsBacked
<1>1. IInv => SettlementIsBacked
    BY DEF IInv, SettlePart, SettlementIsBacked, Matches, Verifies
<1> QED
    BY <1>1, Invariant, PTL

\* Without a verifier nothing is awaited between the replay check and the
\* registration, and no transfer ever confirms two actions, also not after
\* confirmations were replaced and the hashes rebuilt from the file.
THEOREM TransferConfirmsOne == Spec => []OneActionPerTransfer
<1>1. ASSUME IInv, ~config.verify, NEW a \in Actions, NEW b \in Actions,
             Confirmed(a), confirmations[a].tx = confirmations[b].tx
      PROVE  a = b
    <2>1. confirmations[a] \in Confirmation /\ confirmations[a].tx \in Txs
        BY <1>1 DEF IInv, TypeOK, Confirmed, Confirmation
    <2>2. Confirmed(b)
        BY <1>1, <2>1, FreshRecords DEF Confirmed
    <2> QED
        BY <1>1, <2>2 DEF IInv, ConfirmPart, ConfirmedIsRegistered
<1>2. IInv => OneActionPerTransfer
    BY <1>1 DEF OneActionPerTransfer
<1> QED
    BY <1>2, Invariant, PTL

\* The agent wallet pays an action once, unless executions of it overlapped or
\* one ended with a transfer nobody registered.
THEOREM AgentPaysOnce == Spec => []RetryPaysNothingAgain
<1>1. IInv => RetryPaysNothingAgain
    BY DEF IInv, PayPart
<1> QED
    BY <1>1, Invariant, PTL

\* A call whose attempts are exhausted met an outage and faults that account
\* for each of them (executeWithRetry).
THEOREM OutageIsSurvived == Spec => []ShortOutageIsSurvived
<1>1. ASSUME IInv PROVE ShortOutageIsSurvived
    <2>1. Failures <= (faults + 1) * config.outage + faults
        <3>1. faults \in Nat /\ config.outage \in Nat /\ outage \in Nat
            BY <1>1, FailuresIsNat DEF IInv
        <3>2. (faults + 1) * config.outage = faults * config.outage + config.outage
            BY <3>1, Distributes
        <3> QED
            BY <1>1, <3>1, <3>2, FailuresIsNat DEF Failures, IInv
    <2>2. Failures \in Int /\ (faults + 1) * config.outage + faults \in Int
        BY <1>1, FailuresIsNat DEF Failures, IInv
    <2> QED
        BY <1>1, <2>1, <2>2 DEF IInv, AttemptsHadCause, ShortOutageIsSurvived
<1> QED
    BY <1>1, Invariant, PTL

\* With a confirmations file, a confirmed action stays confirmed, also through
\* a crash between any two steps (persistWalletConfirmations).
THEOREM ConfirmationIsNotLost == Spec => ConfirmedStays
<1> DEFINE Stays == \A a \in Actions : config.persist /\ Confirmed(a) => Confirmed(a)'
<1>1. ASSUME IInv, [Next]_vars PROVE [Stays]_vars
    <2>1. ASSUME NEW a \in Actions, NEW t \in Txs, NEW claim, Register(a, t, claim)
          PROVE  Stays
        BY <1>1, <2>1 DEF Register, Confirmed, NoConfirmation, IInv, TypeOK
    <2>2. CASE \E h \in Handlers, a \in Actions, t \in Txs, claim \in Claims : Confirm(h, a, t, claim)
        BY <2>1, <2>2 DEF Confirm, Confirmed
    <2>3. CASE \E h \in Handlers : ConfirmVerified(h) \/ ConfirmRejected(h)
        BY <1>1, <2>1, <2>3 DEF ConfirmVerified, ConfirmRejected, Confirmed, IInv, HandlerShape
    <2>4. CASE \E h \in Handlers : CommandReturns(h) \/ ExecutionVerified(h)
        BY <1>1, <2>1, <2>4 DEF CommandReturns, ExecutionVerified, RegisterAndSettle, Confirmed,
            IInv, HandlerShape
    <2>5. CASE Restart
        BY <1>1, <2>5, ReloadedIs DEF Restart, Confirmed
    <2>6. CASE UNCHANGED confirmations
        BY <2>6 DEF Confirmed
    <2>7. CASE UNCHANGED vars
        BY <2>7 DEF vars, Confirmed
    <2>8. ASSUME Next, ~(\E h \in Handlers, a \in Actions, t \in Txs, claim \in Claims : Confirm(h, a, t, claim)),
                 ~(\E h \in Handlers : ConfirmVerified(h) \/ ConfirmRejected(h)),
                 ~(\E h \in Handlers : CommandReturns(h) \/ ExecutionVerified(h)), ~Restart
          PROVE  UNCHANGED confirmations
        BY <2>8 DEF Next, PersonPays, Mine, Call, ConnectionLost, Unavailable, SettleConfirmed, SettleSeeded,
            NotConfirmed, StartCommand, SignerPays, ExecutionFails, OrphanEnds
    <2> HIDE DEF Stays
    <2> QED
        BY <1>1, <2>2, <2>3, <2>4, <2>5, <2>6, <2>7, <2>8
<1> QED
    BY <1>1, Invariant, PTL DEF Spec, ConfirmedStays

=============================================================================

-------------------------- MODULE PaymentToolProofs --------------------------
(***************************************************************************)
(* What holds of the payment tools for every number of calls, payees,      *)
(* amounts and transfers, and every way the rail may be started: the types, *)
(* that a service is only delivered on a transfer of what the gate was told *)
(* to compare or on the seed, and that a resume pays what its approval      *)
(* session showed.                                                         *)
(***************************************************************************)
EXTENDS PaymentTool, TLAPS

USE ToolAssumption

\* A call that is about to write, or writes, a record of the given kind.
Putting(k, put) == k.pc \in {"outputs", "writing"} /\ k.put = put

Asks(k) == k.pc \in {"request", "checking", "requested"} \/ Putting(k, "requested")
AtRail(k) == k.pc \in {"atRail", "signing", "mining", "answered"} \/ Putting(k, "atRail")
Pays(k) == AtRail(k) \/ k.pc = "paymentReceipt" \/ Putting(k, "paymentReceipt")
HasPaid(k) == k.pc \in {"mining", "answered", "paymentReceipt"} \/ Putting(k, "paymentReceipt")

\* What a call in progress has by itself.
Shape(k) ==
    /\ Asks(k) => k.terms \in Terms
    /\ Pays(k) \/ k.pc = "status" => k.read \in Terms
    /\ HasPaid(k) => k.paid \in Payment /\ (k.paid.tx = SeedTx \/ k.paid.terms = k.read)
    /\ k.pc \in {"outputs", "writing"} => k.put # "none"
    /\ k.read # NoTerms => Pays(k) \/ k.pc = "status"
    /\ k.shown # NoTerms => AtRail(k)
    /\ k.shown # NoTerms /\ ~k.torn => k.read = k.shown

\* A payment that the rail settled from its seed.
Seeded(p) == p.tx = SeedTx /\ ~rail.agent /\ ~rail.require

\* What is known of a payment, p: it was made, of its terms, on the chain c, if
\* there is a verifier, or it is the seed.
Made(p, c) ==
    \/ p = NoPayment
    \/ Seeded(p)
    \/ p.tx # SeedTx /\ (rail.verify => p.tx \in DOMAIN c /\ c[p.tx] = p.terms)

Delivered(k, c, m) ==
    LET t == k.paid.tx
        paid == IF rail.verify THEN c[t] ELSE k.paid.terms
    IN \/ Seeded(k.paid) /\ "chain" \notin k.expects
       \/ /\ rail.verify => t \in DOMAIN c
          /\ "amount" \in k.expects => paid.amount = k.terms.amount
          /\ "payee" \in k.expects => m \/ paid.payee = k.terms.payee

\* What it has of the records that all share, the intent i, the receipt p, the
\* chain c and the mark m: the stored intent is its own unless another request has
\* replaced it, and the receipt is that of the intent, or the seed.
Place(k, i, p, c, m) ==
    /\ Made(k.paid, c) /\ Made(k.saved, c)
    /\ k.pc = "delivered" => Delivered(k, c, m)
    /\ k.pc = "checking" \/ k.read # NoTerms => i.terms \in Terms
    /\ k.pc = "checking" /\ ~k.torn => i.terms = k.terms
    /\ ~m /\ k.read # NoTerms => k.read = i.terms
    /\ ~m /\ k.pc \in {"status", "paymentReceipt"} => p.tx = SeedTx \/ p.terms = i.terms

Fit(k) == Shape(k) /\ Place(k, intent, receipt, chain, mixed)
RunsFit == \A r \in Runs : Fit(run[r])

Records ==
    /\ Made(confirmation, chain) /\ Made(receipt, chain)
    /\ session # NoSession => intent.terms \in Terms
    /\ ~torn => session.terms = intent.terms
    /\ ~mixed /\ intent.status = "settled" => receipt.tx = SeedTx \/ receipt.terms = intent.terms

IInv == TypeOK /\ RunsFit /\ Records

-----------------------------------------------------------------------------
(* The records.                                                            *)

\* The fields of a call that the invariant speaks of.
Has(k, pc, put, saved, terms, read, shown, isTorn, paid) ==
    /\ k \in RunRecord
    /\ k.pc = pc /\ k.put = put /\ k.saved = saved /\ k.terms = terms
    /\ k.read = read /\ k.shown = shown /\ k.torn = isTorn /\ k.paid = paid

LEMMA Fields ==
    ASSUME NEW k \in RunRecord
    PROVE  /\ k.pc \in Pcs /\ k.put \in Puts /\ k.saved \in SomePayment
           /\ k.tool \in Tools \cup {"none"} /\ k.mode \in Modes \cup {"none"}
           /\ k.terms \in SomeTerms /\ k.read \in SomeTerms /\ k.shown \in SomeTerms
           /\ k.torn \in BOOLEAN /\ k.paid \in SomePayment /\ k.tx \in Hashes \cup {NoTx}
BY DEF RunRecord

LEMMA Moved ==
    ASSUME NEW k \in RunRecord, NEW p \in Pcs
    PROVE  Has([k EXCEPT !.pc = p], p, k.put, k.saved, k.terms, k.read, k.shown, k.torn, k.paid)
BY DEF Has, RunRecord

LEMMA Torn ==
    ASSUME NEW k \in RunRecord
    PROVE  Has([k EXCEPT !.torn = TRUE], k.pc, k.put, k.saved, k.terms, k.read, k.shown, TRUE, k.paid)
BY DEF Has, RunRecord

LEMMA Snapshot ==
    ASSUME NEW k \in RunRecord, NEW p \in Pcs, NEW s \in SomePayment
    PROVE  Has([k EXCEPT !.pc = p, !.saved = s], p, k.put, s, k.terms, k.read, k.shown, k.torn, k.paid)
BY DEF Has, RunRecord

LEMMA Written ==
    ASSUME NEW k \in RunRecord, NEW p \in Pcs, NEW u \in Puts, NEW s \in SomePayment
    PROVE  Has([k EXCEPT !.pc = p, !.put = u, !.saved = s],
               p, u, s, k.terms, k.read, k.shown, k.torn, k.paid)
BY DEF Has, RunRecord

LEMMA PutIs ==
    ASSUME NEW k \in RunRecord, NEW u \in Puts
    PROVE  Has([k EXCEPT !.pc = "outputs", !.put = u],
               "outputs", u, k.saved, k.terms, k.read, k.shown, k.torn, k.paid)
<1>1. "outputs" \in Pcs
    BY DEF Pcs
<1> QED
    BY <1>1 DEF Has, RunRecord

LEMMA Read ==
    ASSUME NEW k \in RunRecord, NEW a \in SomeTerms, NEW b \in SomeTerms, NEW t \in BOOLEAN
    PROVE  /\ Has([k EXCEPT !.read = a, !.shown = b, !.torn = t],
                  k.pc, k.put, k.saved, k.terms, a, b, t, k.paid)
           /\ Has([k EXCEPT !.shown = b, !.torn = t],
                  k.pc, k.put, k.saved, k.terms, k.read, b, t, k.paid)
           /\ Has([k EXCEPT !.torn = t], k.pc, k.put, k.saved, k.terms, k.read, k.shown, t, k.paid)
           /\ Has([k EXCEPT !.read = a], k.pc, k.put, k.saved, k.terms, a, k.shown, k.torn, k.paid)
BY DEF Has, RunRecord

LEMMA Changed ==
    ASSUME NEW k \in RunRecord, NEW p \in Pcs, NEW a \in SomeTerms, NEW s \in SomePayment,
           NEW t \in Hashes \cup {NoTx}, NEW f \in Refs
    PROVE  /\ Has([k EXCEPT !.pc = p, !.terms = a], p, k.put, k.saved, a, k.read, k.shown, k.torn, k.paid)
           /\ Has([k EXCEPT !.pc = p, !.read = a, !.ref = f], p, k.put, k.saved, k.terms, a, k.shown, k.torn, k.paid)
           /\ Has([k EXCEPT !.pc = p, !.paid = s], p, k.put, k.saved, k.terms, k.read, k.shown, k.torn, s)
           /\ Has([k EXCEPT !.pc = p, !.tx = t], p, k.put, k.saved, k.terms, k.read, k.shown, k.torn, k.paid)
BY DEF Has, RunRecord

\* Calls that have nothing of a payment.
Quiet(k) ==
    /\ k \in RunRecord
    /\ k.pc \in {"idle", "deciding", "request", "confirming", "polling", "approve", "gate", "reading"}
    /\ k.pc = "request" => k.terms \in Terms
    /\ k.read = NoTerms /\ k.shown = NoTerms /\ k.saved = NoPayment /\ k.paid = NoPayment

LEMMA QuietFits ==
    ASSUME NEW k, Quiet(k)
    PROVE  k \in RunRecord /\ Shape(k) /\ \A i, p, c, m : Place(k, i, p, c, m)
<1>1. k \in RunRecord /\ k.read = NoTerms /\ k.shown = NoTerms /\ k.saved = NoPayment /\ k.paid = NoPayment
    BY DEF Quiet
<1>2. ~Pays(k) /\ ~HasPaid(k) /\ (Asks(k) => k.terms \in Terms)
      /\ k.pc \notin {"outputs", "writing", "delivered", "checking", "status", "paymentReceipt"}
    BY DEF Quiet, Pays, HasPaid, Asks, AtRail, Putting
<1>3. Shape(k)
    BY <1>1, <1>2 DEF Shape
<1>4. ASSUME NEW i, NEW p, NEW c, NEW m PROVE Place(k, i, p, c, m)
    BY <1>1, <1>2 DEF Place, Made
<1> QED
    BY <1>1, <1>3, <1>4

LEMMA Members ==
    /\ NoTerms \in SomeTerms /\ Terms \subseteq SomeTerms
    /\ NoPayment \in SomePayment /\ Payment \subseteq SomePayment
    /\ "none" \in Puts /\ NoTx \in Hashes \cup {NoTx} /\ Txs \subseteq Hashes
    /\ "none" \in Refs /\ Seed \in Payment /\ {} \in SUBSET Checks
    /\ {"idle", "deciding", "request", "polling", "approve", "gate", "reading"} \subseteq Pcs
BY DEF SomeTerms, SomePayment, Puts, Pcs, Hashes, Refs, Seed, Payment

LEMMA IdleIsQuiet ==
    /\ Quiet(IdleRun)
    /\ Quiet([IdleRun EXCEPT !.pc = "polling"])
    /\ Quiet([IdleRun EXCEPT !.pc = "reading"])
BY Members DEF Quiet, IdleRun, RunRecord

LEMMA ApproveIsQuiet ==
    ASSUME NEW tool \in Tools
    PROVE  Quiet(ToApprove(tool)) /\ Quiet([IdleRun EXCEPT !.pc = "deciding", !.tool = tool])
BY Members DEF Quiet, IdleRun, RunRecord, ToApprove

LEMMA RequestIsQuiet ==
    ASSUME NEW tool \in Tools, NEW terms \in Terms, NEW mode \in Modes
    PROVE  Quiet(ToRequest(tool, terms, mode))
BY Members DEF Quiet, IdleRun, RunRecord, ToRequest

LEMMA GateIsQuiet ==
    ASSUME NEW tool \in Tools \cup {"none"}, NEW terms \in SomeTerms, NEW tx \in Hashes \cup {NoTx}
    PROVE  Quiet(ToGate(tool, terms, tx))
BY Members DEF Quiet, IdleRun, RunRecord, ToGate

-----------------------------------------------------------------------------
(* A call moves, and what it shares with the others stays.                  *)

LEMMA OneMoves ==
    ASSUME run \in [Runs -> RunRecord], RunsFit, NEW r \in Runs, NEW k \in RunRecord,
           run' = [run EXCEPT ![r] = k], Fit(k)', \A j \in RunRecord : Fit(j) => Fit(j)'
    PROVE  run' \in [Runs -> RunRecord] /\ RunsFit'
<1>1. run' \in [Runs -> RunRecord] /\ run'[r] = k /\ \A q \in Runs \ {r} : run'[q] = run[q]
    OBVIOUS
<1> QED
    BY <1>1 DEF RunsFit, Fit

LEMMA OthersStay ==
    ASSUME UNCHANGED <<rail, intent, receipt, chain, mixed>>
    PROVE  \A j \in RunRecord : Fit(j) => Fit(j)'
BY DEF Fit, Place, Made, Seeded, Delivered

LEMMA LocalStep ==
    ASSUME IInv, NEW r \in Runs, NEW k \in RunRecord, Fit(k), run' = [run EXCEPT ![r] = k],
           UNCHANGED <<rail, intent, session, settlement, receipt, torn, mixed, confirmation, chain>>,
           links' \subseteq Terms, calls' \in 0..MaxCalls
    PROVE  IInv'
<1>1. Fit(k)' /\ \A j \in RunRecord : Fit(j) => Fit(j)'
    BY OthersStay
<1>2. run' \in [Runs -> RunRecord] /\ RunsFit'
    BY <1>1, OneMoves DEF IInv, TypeOK
<1>3. TypeOK' /\ Records'
    BY <1>2 DEF IInv, TypeOK, Records, Made, Seeded
<1> QED
    BY <1>2, <1>3 DEF IInv

LEMMA QuietStep ==
    ASSUME IInv, NEW r \in Runs, NEW k, Quiet(k), run' = [run EXCEPT ![r] = k],
           UNCHANGED <<rail, intent, session, settlement, receipt, torn, mixed, confirmation, chain>>,
           links' \subseteq Terms, calls' \in 0..MaxCalls
    PROVE  IInv'
<1>1. k \in RunRecord /\ Fit(k)
    BY QuietFits DEF Fit
<1> QED
    BY <1>1, LocalStep

-----------------------------------------------------------------------------
(* The start of a call, and its end.                                        *)

LEMMA InitHolds == Init => IInv
<1> SUFFICES ASSUME Init PROVE IInv
    OBVIOUS
<1>1. PICK k \in RunRecord : Quiet(k) /\ run = [r \in Runs |-> k]
    BY IdleIsQuiet DEF Quiet, Init
<1>2. RunsFit
    BY <1>1, QuietFits DEF RunsFit, Fit
<1>3. TypeOK
    <2>1. run \in [Runs -> RunRecord]
        BY <1>1
    <2>2. chain \in Seq(Terms) /\ Len(chain) <= MaxTxs
        BY DEF Init
    <2>3. /\ links \subseteq Terms /\ intent = NoIntent /\ session = NoSession
          /\ confirmation = NoPayment /\ receipt = NoPayment
          /\ settlement = {} /\ rail \in Rails /\ torn = FALSE /\ mixed = FALSE
        BY DEF Init
    <2>4. calls \in 0..MaxCalls
        BY DEF Init
    <2> QED
        BY <2>1, <2>2, <2>3, <2>4, Members DEF TypeOK
<1>4. Records
    BY DEF Init, Records, Made, NoSession, NoIntent
<1> QED
    BY <1>2, <1>3, <1>4 DEF IInv

LEMMA CallsKeep ==
    ASSUME IInv, NEW r \in Runs, NEW k, Quiet(k), calls < MaxCalls, calls' = calls + 1,
           run' = [run EXCEPT ![r] = k], UNCHANGED <<afal, rail, confirmation, chain, links>>
    PROVE  IInv'
<1>1. calls' \in 0..MaxCalls /\ links' \subseteq Terms
    BY DEF IInv, TypeOK
<1> QED
    BY <1>1, QuietStep DEF afal

\* The call is over, or goes on with nothing of a payment.
LEMMA QuietsKeep ==
    ASSUME IInv, NEW r \in Runs, NEW k, Quiet(k),
           run' = [run EXCEPT ![r] = k], UNCHANGED <<afal, outside>>
    PROVE  IInv'
<1>1. calls' \in 0..MaxCalls /\ links' \subseteq Terms
    BY DEF IInv, TypeOK, outside
<1> QED
    BY <1>1, QuietStep DEF afal, outside

LEMMA RunStepKeeps ==
    ASSUME IInv, NEW r \in Runs, NEW k \in RunRecord, Fit(k),
           run' = [run EXCEPT ![r] = k], UNCHANGED <<afal, outside>>
    PROVE  IInv'
<1>1. calls' \in 0..MaxCalls /\ links' \subseteq Terms
    BY DEF IInv, TypeOK, outside
<1> QED
    BY <1>1, LocalStep DEF afal, outside

LEMMA StartKeeps ==
    ASSUME IInv, NEW r \in Runs, NEW terms \in Terms,
           \/ \E mode \in Modes : CallPayAndGate(r, terms, mode)
           \/ \E tool \in Tools : CallRequestPayment(r, terms, tool)
           \/ \E approves \in BOOLEAN : CallWalletDemo(r, terms, approves)
           \/ ModelDecides(r, terms)
    PROVE  IInv'
<1>1. ASSUME NEW mode \in Modes, NEW tool \in Tools, Call(r, ToRequest(tool, terms, mode))
      PROVE  IInv'
    BY <1>1, RequestIsQuiet, CallsKeep DEF Call
<1>2. {"pay_and_gate", "request_payment", "request_and_wait", "provider_gate", "wallet_demo"}
          \subseteq Tools /\ {"wallet", "agent-wallet", "approving"} \subseteq Modes
    BY DEF Tools, Modes
<1>3. CASE \E mode \in Modes : CallPayAndGate(r, terms, mode)
    BY <1>1, <1>2, <1>3 DEF CallPayAndGate
<1>4. CASE \E tool \in Tools : CallRequestPayment(r, terms, tool)
    BY <1>1, <1>2, <1>4 DEF CallRequestPayment
<1>5. CASE \E approves \in BOOLEAN : CallWalletDemo(r, terms, approves)
    BY <1>1, <1>2, <1>5 DEF CallWalletDemo
<1>6. CASE ModelDecides(r, terms)
    BY <1>2, <1>6, RequestIsQuiet, QuietsKeep DEF ModelDecides
<1> QED
    BY <1>3, <1>4, <1>5, <1>6

LEMMA CallApproveResumeKeeps ==
    ASSUME IInv, NEW r \in Runs, CallApproveResume(r) \/ CallProviderGate(r) \/ CallModelAgent(r)
    PROVE  IInv'
<1>1. "approve_resume" \in Tools /\ "model_agent" \in Tools /\ "provider_gate" \in Tools
    BY DEF Tools
<1>2. CASE CallApproveResume(r)
    <2>1. PICK k : Quiet(k) /\ Call(r, k)
        BY <1>1, <1>2, ApproveIsQuiet DEF CallApproveResume
    <2> QED
        BY <2>1, CallsKeep DEF Call
<1>3. CASE CallModelAgent(r)
    <2>1. PICK k : Quiet(k) /\ Call(r, k)
        BY <1>1, <1>3, ApproveIsQuiet DEF CallModelAgent
    <2> QED
        BY <2>1, CallsKeep DEF Call
<1>4. CASE CallProviderGate(r)
    <2>1. PICK k : Quiet(k) /\ Call(r, k)
        BY <1>1, <1>4, GateIsQuiet, Members DEF CallProviderGate
    <2> QED
        BY <2>1, CallsKeep DEF Call
<1> QED
    BY <1>2, <1>3, <1>4

LEMMA EndKeeps ==
    ASSUME IInv, NEW r \in Runs, End(r), UNCHANGED <<afal, outside>>
    PROVE  IInv'
BY IdleIsQuiet, QuietsKeep DEF End

LEMMA EndingsKeep ==
    ASSUME IInv, NEW r \in Runs,
           \/ ModelAborts(r) \/ RequestFails(r) \/ RequestRefused(r) \/ WalletTimesOut(r)
           \/ RailFails(r) \/ PayeeReads(r) \/ WaitForPaymentReceipt(r)
    PROVE  IInv'
BY EndKeeps DEF ModelAborts, RequestFails, RequestRefused, WalletTimesOut, RailFails, PayeeReads,
    WaitForPaymentReceipt

-----------------------------------------------------------------------------
(* What a call does of itself.                                              *)

LEMMA Here ==
    ASSUME IInv, NEW r \in Runs
    PROVE  \E j \in RunRecord : j = run[r] /\ Shape(j) /\ Place(j, intent, receipt, chain, mixed)
BY DEF IInv, TypeOK, RunsFit, Fit

LEMMA AfterResumeIsQuiet ==
    ASSUME IInv, NEW r \in Runs, NEW tx \in Hashes \cup {NoTx}
    PROVE  Quiet(AfterResume(r, tx))
<1>1. PICK j \in RunRecord : j = run[r]
    BY Here
<1>2. /\ j.tool \in Tools \cup {"none"} /\ j.terms \in SomeTerms /\ j.tx \in Hashes \cup {NoTx}
    BY Fields
<1> QED
    BY <1>1, <1>2, IdleIsQuiet, GateIsQuiet DEF AfterResume, AfterApproveResume

LEMMA ReadSnapshotKeeps ==
    ASSUME IInv, NEW r \in Runs, ReadSnapshot(r)
    PROVE  IInv'
<1>1. PICK j \in RunRecord : j = run[r] /\ Shape(j) /\ Place(j, intent, receipt, chain, mixed)
    BY Here
<1>2. PICK s \in SomePayment :
          /\ s = IF j.put = "paymentReceipt" THEN NoPayment ELSE receipt
          /\ Made(s, chain)
    BY Members DEF IInv, TypeOK, Records, Made, Seeded
<1>3. PICK k : k = [j EXCEPT !.pc = "writing", !.saved = s]
    OBVIOUS
<1>4. Has(k, "writing", j.put, s, j.terms, j.read, j.shown, j.torn, j.paid)
    BY <1>3, Snapshot DEF Pcs
<1>5. j.pc = "outputs" /\ run' = [run EXCEPT ![r] = k] /\ UNCHANGED <<afal, outside>>
    BY <1>1, <1>2, <1>3 DEF ReadSnapshot, At
<1>6. k \in RunRecord /\ Shape(k)
    BY <1>1, <1>4, <1>5 DEF Has, Shape, Asks, AtRail, Pays, HasPaid, Putting
<1>7. Place(k, intent, receipt, chain, mixed)
    BY <1>1, <1>2, <1>4, <1>5 DEF Has, Place
<1> QED
    BY <1>5, <1>6, <1>7, RunStepKeeps DEF Fit

LEMMA WalletConfirmedKeeps ==
    ASSUME IInv, NEW r \in Runs, WalletConfirmed(r)
    PROVE  IInv'
<1>1. PICK j \in RunRecord : j = run[r] /\ Shape(j) /\ Place(j, intent, receipt, chain, mixed)
    BY Here
<1>2. PICK t \in Hashes \cup {NoTx} : t = confirmation.tx
    BY DEF IInv, TypeOK, SomePayment, Payment, NoPayment
<1>3. PICK k : k = [j EXCEPT !.pc = "approve", !.tx = t]
    OBVIOUS
<1>4. Has(k, "approve", j.put, j.saved, j.terms, j.read, j.shown, j.torn, j.paid)
    BY <1>3, Changed, Members DEF Pcs
<1>5. j.pc = "confirming" /\ run' = [run EXCEPT ![r] = k] /\ UNCHANGED <<afal, outside>>
    BY <1>1, <1>2, <1>3 DEF WalletConfirmed, At
<1>6. k \in RunRecord /\ Shape(k)
    BY <1>1, <1>4, <1>5 DEF Has, Shape, Asks, AtRail, Pays, HasPaid, Putting
<1>7. Place(k, intent, receipt, chain, mixed)
    BY <1>1, <1>4, <1>5 DEF Has, Place
<1> QED
    BY <1>5, <1>6, <1>7, RunStepKeeps DEF Fit

LEMMA DemoGoesOnKeeps ==
    ASSUME IInv, NEW r \in Runs, DemoGoesOn(r)
    PROVE  IInv'
<1>1. "wallet_demo" \in Tools
    BY DEF Tools
<1> QED
    BY <1>1, IdleIsQuiet, ApproveIsQuiet, QuietsKeep DEF DemoGoesOn

LEMMA ReadReceiptKeeps ==
    ASSUME IInv, NEW r \in Runs, ReadReceipt(r)
    PROVE  IInv'
<1>1. receipt.tx \in Hashes \cup {NoTx}
    BY DEF IInv, TypeOK, SomePayment, Payment, NoPayment
<1> QED
    BY <1>1, AfterResumeIsQuiet, QuietsKeep, EndKeeps DEF ReadReceipt

LEMMA ResumeKeeps ==
    ASSUME IInv, NEW r \in Runs, Resume(r)
    PROVE  IInv'
<1>1. PICK j \in RunRecord : j = run[r] /\ Shape(j) /\ Place(j, intent, receipt, chain, mixed)
    BY Here
<1>2. j.pc = "resume" /\ UNCHANGED <<afal, outside>>
    BY <1>1 DEF Resume, At
<1>3. CASE ~session.approved
    BY <1>2, <1>3, EndKeeps DEF Resume
<1>4. CASE session.approved /\ intent.status = "settled"
    <2>1. PICK k : k = [j EXCEPT !.pc = "settledBefore"]
        OBVIOUS
    <2>2. Has(k, "settledBefore", j.put, j.saved, j.terms, j.read, j.shown, j.torn, j.paid)
        BY <2>1, Moved DEF Pcs
    <2>3. run' = [run EXCEPT ![r] = k]
        BY <1>1, <1>4, <2>1 DEF Resume, Goto
    <2>4. k \in RunRecord /\ Shape(k)
        BY <1>1, <1>2, <2>2 DEF Has, Shape, Asks, AtRail, Pays, HasPaid, Putting
    <2>5. Place(k, intent, receipt, chain, mixed)
        BY <1>1, <1>2, <2>2 DEF Has, Place
    <2> QED
        BY <1>2, <2>3, <2>4, <2>5, RunStepKeeps DEF Fit
<1>5. CASE session.approved /\ intent.status # "settled"
    <2>1. session # NoSession /\ intent.terms \in Terms /\ session.terms \in SomeTerms
          /\ torn \in BOOLEAN /\ (~torn => session.terms = intent.terms)
        BY <1>5, Members DEF IInv, Records, TypeOK, NoSession
    <2>2. PICK a \in Terms, b \in SomeTerms, t \in BOOLEAN :
              a = intent.terms /\ b = session.terms /\ t = torn /\ (~t => b = a)
        BY <2>1
    <2>3. PICK l : l = [j EXCEPT !.read = a, !.shown = b, !.torn = t]
        OBVIOUS
    <2>4. Has(l, j.pc, j.put, j.saved, j.terms, a, b, t, j.paid)
        <3>1. a \in SomeTerms
            BY Members
        <3> QED
            BY <2>3, <3>1, Read
    <2>5. PICK k : k = [l EXCEPT !.pc = "outputs", !.put = "atRail"]
        OBVIOUS
    <2>6. Has(k, "outputs", "atRail", l.saved, l.terms, l.read, l.shown, l.torn, l.paid)
        <3>1. l \in RunRecord /\ "atRail" \in Puts
            BY <2>4 DEF Has, Puts
        <3> QED
            BY <2>5, <3>1, PutIs
    <2>7. Has(k, "outputs", "atRail", j.saved, j.terms, a, b, t, j.paid)
        BY <2>4, <2>6 DEF Has
    <2>8. run' = [run EXCEPT ![r] = k]
        BY <1>1, <1>5, <2>2, <2>3, <2>5 DEF Resume, Put
    <2>9. k \in RunRecord /\ Shape(k)
        BY <2>2, <2>7 DEF Has, Shape, Asks, AtRail, Pays, HasPaid, Putting
    <2>10. Place(k, intent, receipt, chain, mixed)
        BY <1>1, <2>2, <2>7 DEF Has, Place
    <2> QED
        BY <1>2, <2>8, <2>9, <2>10, RunStepKeeps DEF Fit
<1> QED
    BY <1>3, <1>4, <1>5

LEMMA RailFindsConfirmationKeeps ==
    ASSUME IInv, NEW r \in Runs, RailFindsConfirmation(r)
    PROVE  IInv'
<1>1. PICK j \in RunRecord : j = run[r] /\ Shape(j) /\ Place(j, intent, receipt, chain, mixed)
    BY Here
<1>2. j.pc = "atRail" /\ confirmation # NoPayment /\ UNCHANGED <<afal, outside>>
    BY <1>1 DEF RailFindsConfirmation, At
<1>3. CASE confirmation.terms # j.read
    BY <1>1, <1>2, <1>3, EndKeeps DEF RailFindsConfirmation
<1>4. CASE confirmation.terms = j.read
    <2>1. PICK s \in SomePayment : s = confirmation /\ s \in Payment /\ s.terms = j.read /\ Made(s, chain)
        BY <1>2, <1>4 DEF IInv, TypeOK, Records, SomePayment
    <2>2. PICK k : k = [j EXCEPT !.pc = "answered", !.paid = s]
        OBVIOUS
    <2>3. Has(k, "answered", j.put, j.saved, j.terms, j.read, j.shown, j.torn, s)
        BY <2>2, Changed, Members DEF Pcs
    <2>4. run' = [run EXCEPT ![r] = k]
        BY <1>1, <1>4, <2>1, <2>2 DEF RailFindsConfirmation
    <2>5. k \in RunRecord /\ Shape(k)
        BY <1>1, <1>2, <2>1, <2>3 DEF Has, Shape, Asks, AtRail, Pays, HasPaid, Putting
    <2>6. Place(k, intent, receipt, chain, mixed)
        BY <1>1, <1>2, <2>1, <2>3 DEF Has, Place
    <2> QED
        BY <1>2, <2>4, <2>5, <2>6, RunStepKeeps DEF Fit
<1> QED
    BY <1>3, <1>4

LEMMA RailFindsNoneKeeps ==
    ASSUME IInv, NEW r \in Runs, RailFindsNone(r)
    PROVE  IInv'
<1>1. PICK j \in RunRecord : j = run[r] /\ Shape(j) /\ Place(j, intent, receipt, chain, mixed)
    BY Here
<1>2. PICK k : k = [j EXCEPT !.pc = "signing"]
    OBVIOUS
<1>3. Has(k, "signing", j.put, j.saved, j.terms, j.read, j.shown, j.torn, j.paid)
    BY <1>2, Moved DEF Pcs
<1>4. j.pc = "atRail" /\ run' = [run EXCEPT ![r] = k] /\ UNCHANGED <<afal, outside>>
    BY <1>1, <1>2 DEF RailFindsNone, At, Goto
<1>5. k \in RunRecord /\ Shape(k)
    BY <1>1, <1>3, <1>4 DEF Has, Shape, Asks, AtRail, Pays, HasPaid, Putting
<1>6. Place(k, intent, receipt, chain, mixed)
    BY <1>1, <1>3, <1>4 DEF Has, Place
<1> QED
    BY <1>4, <1>5, <1>6, RunStepKeeps DEF Fit

LEMMA RailSettlesFromSeedKeeps ==
    ASSUME IInv, NEW r \in Runs, RailSettlesFromSeed(r)
    PROVE  IInv'
<1>1. PICK j \in RunRecord : j = run[r] /\ Shape(j) /\ Place(j, intent, receipt, chain, mixed)
    BY Here
<1>2. j.pc = "atRail" /\ ~rail.agent /\ ~rail.require /\ UNCHANGED <<afal, outside>>
    BY <1>1 DEF RailSettlesFromSeed, At
<1>3. PICK s \in Payment : s = Seed /\ s.tx = SeedTx /\ Made(s, chain)
    BY <1>2, Members DEF Seed, Made, Seeded
<1>4. PICK k : k = [j EXCEPT !.pc = "answered", !.paid = s]
    OBVIOUS
<1>5. Has(k, "answered", j.put, j.saved, j.terms, j.read, j.shown, j.torn, s)
    BY <1>4, Changed, Members DEF Pcs
<1>6. run' = [run EXCEPT ![r] = k]
    BY <1>1, <1>3, <1>4 DEF RailSettlesFromSeed
<1>7. k \in RunRecord /\ Shape(k)
    BY <1>1, <1>2, <1>3, <1>5 DEF Has, Shape, Asks, AtRail, Pays, HasPaid, Putting
<1>8. Place(k, intent, receipt, chain, mixed)
    BY <1>1, <1>2, <1>3, <1>5 DEF Has, Place
<1> QED
    BY <1>2, <1>6, <1>7, <1>8, RunStepKeeps DEF Fit

LEMMA ReadIntentKeeps ==
    ASSUME IInv, NEW r \in Runs, ReadIntent(r)
    PROVE  IInv'
<1>1. PICK j \in RunRecord : j = run[r] /\ Shape(j) /\ Place(j, intent, receipt, chain, mixed)
    BY Here
<1>2. j.pc = "gate" /\ UNCHANGED <<afal, outside>>
    BY <1>1 DEF ReadIntent, At
<1>3. CASE intent.status # "settled"
    BY <1>2, <1>3, EndKeeps DEF ReadIntent
<1>4. CASE intent.status = "settled"
    <2>1. PICK a \in Terms, f \in Refs : a = intent.terms /\ f = intent.ref
        BY <1>4 DEF IInv, TypeOK, NoIntent
    <2>2. PICK k : k = [j EXCEPT !.pc = "status", !.read = a, !.ref = f]
        OBVIOUS
    <2>3. Has(k, "status", j.put, j.saved, j.terms, a, j.shown, j.torn, j.paid)
        BY <2>1, <2>2, Changed, Members DEF Pcs
    <2>4. run' = [run EXCEPT ![r] = k]
        BY <1>1, <1>4, <2>1, <2>2 DEF ReadIntent
    <2>5. k \in RunRecord /\ Shape(k)
        BY <1>1, <1>2, <2>3 DEF Has, Shape, Asks, AtRail, Pays, HasPaid, Putting
    <2>6. Place(k, intent, receipt, chain, mixed)
        BY <1>1, <1>2, <1>4, <2>1, <2>3 DEF Has, Place, IInv, Records
    <2> QED
        BY <1>2, <2>4, <2>5, <2>6, RunStepKeeps DEF Fit
<1> QED
    BY <1>3, <1>4

LEMMA ProviderGateKeeps ==
    ASSUME IInv, NEW r \in Runs, NEW terms \in SomeTerms, NEW tx, NEW expects \in SUBSET Checks,
           ProviderGate(r, terms, tx, expects)
    PROVE  IInv'
<1>1. PICK j \in RunRecord : j = run[r] /\ Shape(j) /\ Place(j, intent, receipt, chain, mixed)
    BY Here
<1>2. j.pc = "status" /\ UNCHANGED <<afal, outside>>
    BY <1>1 DEF ProviderGate, At
<1>3. CASE ~GateOpen(r, terms, tx, expects)
    BY <1>2, <1>3, EndKeeps DEF ProviderGate, End
<1>4. CASE GateOpen(r, terms, tx, expects)
    <2>1. PICK s \in Payment : /\ s = receipt /\ Made(s, chain) /\ s # NoPayment
                               /\ "payee" \in expects => j.read.payee = terms.payee
                               /\ "amount" \in expects => s.terms.amount = terms.amount
                               /\ "chain" \in expects => s.tx # SeedTx
        BY <1>1, <1>4 DEF GateOpen, Settled, IInv, TypeOK, Records, SomePayment
    <2>2. mixed \/ s.tx = SeedTx \/ s.terms = j.read
        <3>1. j.read # NoTerms
            BY <1>1, <1>2 DEF Shape
        <3> QED
            BY <1>1, <1>2, <2>1, <3>1 DEF Place
    <2>3. PICK k : k = [IdleRun EXCEPT !.pc = "delivered", !.terms = terms, !.paid = s,
                                       !.expects = expects]
        OBVIOUS
    <2>4. /\ Has(k, "delivered", "none", NoPayment, terms, NoTerms, NoTerms, FALSE, s)
          /\ k.expects = expects
        <3>1. "delivered" \in Pcs /\ s \in SomePayment
            BY DEF Pcs, SomePayment
        <3> QED
            BY <2>3, <3>1, Members DEF Has, IdleRun, RunRecord
    <2>5. run' = [run EXCEPT ![r] = k]
        BY <1>1, <1>4, <2>1, <2>3 DEF ProviderGate
    <2>6. k \in RunRecord /\ Shape(k)
        BY <2>4 DEF Has, Shape, Asks, AtRail, Pays, HasPaid, Putting
    <2>7. Delivered(k, chain, mixed)
        <3>1. CASE Seeded(s)
            BY <2>1, <2>4, <3>1 DEF Has, Delivered, Seeded
        <3>2. CASE ~Seeded(s)
            <4>1. rail.verify => s.tx \in DOMAIN chain /\ chain[s.tx] = s.terms
                BY <2>1, <3>2 DEF Made
            <4>2. mixed \/ s.terms = j.read
                BY <2>1, <2>2, <3>2 DEF Made
            <4> QED
                BY <2>1, <2>2, <2>4, <4>1, <4>2 DEF Has, Delivered
        <3> QED
            BY <3>1, <3>2
    <2>8. Place(k, intent, receipt, chain, mixed)
        BY <2>1, <2>4, <2>7 DEF Has, Place, Made
    <2> QED
        BY <1>2, <2>5, <2>6, <2>8, RunStepKeeps DEF Fit
<1> QED
    BY <1>3, <1>4

LEMMA GatesKeep ==
    ASSUME IInv, NEW r \in Runs,
           \/ GateOfTool(r)
           \/ \E terms \in Terms, tx \in Hashes \cup {NoTx}, expects \in SUBSET Checks :
                  GateOfCaller(r, terms, tx, expects)
    PROVE  IInv'
<1>1. CASE GateOfTool(r)
    <2>1. run[r].terms \in SomeTerms
        BY DEF IInv, TypeOK, RunRecord
    <2> QED
        BY <1>1, <2>1, ProviderGateKeeps DEF GateOfTool
<1>2. CASE \E terms \in Terms, tx \in Hashes \cup {NoTx}, expects \in SUBSET Checks :
               GateOfCaller(r, terms, tx, expects)
    BY <1>2, ProviderGateKeeps, Members DEF GateOfCaller
<1> QED
    BY <1>1, <1>2

LEMMA RequestPaymentKeeps ==
    ASSUME IInv, NEW r \in Runs, RequestPayment(r)
    PROVE  IInv'
<1>1. PICK j \in RunRecord : j = run[r] /\ Shape(j) /\ Place(j, intent, receipt, chain, mixed)
    BY Here
<1>2. /\ j.pc = "requested" /\ links' \subseteq Terms /\ calls' \in 0..MaxCalls
      /\ UNCHANGED <<rail, intent, session, settlement, receipt, torn, mixed, confirmation, chain>>
    BY <1>1 DEF RequestPayment, At, Shape, Asks, IInv, TypeOK, afal
<1>3. CASE Quiet(AfterRequest(r))
    BY <1>2, <1>3, QuietStep DEF RequestPayment
<1>4. CASE AfterRequest(r) = [j EXCEPT !.pc = "prompted", !.terms = NoTerms]
    <2>1. PICK k : k = [j EXCEPT !.pc = "prompted", !.terms = NoTerms]
        OBVIOUS
    <2>2. Has(k, "prompted", j.put, j.saved, NoTerms, j.read, j.shown, j.torn, j.paid)
        BY <2>1, Changed, Members DEF Pcs
    <2>3. run' = [run EXCEPT ![r] = k]
        BY <1>4, <2>1 DEF RequestPayment
    <2>4. k \in RunRecord /\ Shape(k)
        BY <1>1, <1>2, <2>2 DEF Has, Shape, Asks, AtRail, Pays, HasPaid, Putting
    <2>5. Place(k, intent, receipt, chain, mixed)
        BY <1>1, <1>2, <2>2 DEF Has, Place
    <2> QED
        BY <1>2, <2>3, <2>4, <2>5, LocalStep DEF Fit
<1>5. ASSUME NEW pc \in {"confirming", "approve"}, AfterRequest(r) = [j EXCEPT !.pc = pc]
      PROVE  IInv'
    <2>1. PICK k : k = [j EXCEPT !.pc = pc]
        OBVIOUS
    <2>2. Has(k, pc, j.put, j.saved, j.terms, j.read, j.shown, j.torn, j.paid)
        BY <2>1, Moved DEF Pcs
    <2>3. run' = [run EXCEPT ![r] = k]
        BY <1>5, <2>1 DEF RequestPayment
    <2>4. k \in RunRecord /\ Shape(k)
        BY <1>1, <1>2, <2>2 DEF Has, Shape, Asks, AtRail, Pays, HasPaid, Putting
    <2>5. Place(k, intent, receipt, chain, mixed)
        BY <1>1, <1>2, <2>2 DEF Has, Place
    <2> QED
        BY <1>2, <2>3, <2>4, <2>5, LocalStep DEF Fit
<1> QED
    BY <1>1, <1>3, <1>4, <1>5, IdleIsQuiet DEF AfterRequest, AfterPaymentTool

-----------------------------------------------------------------------------
(* What changes the records that calls share.                               *)

LEMMA RailStays ==
    ASSUME rail' = rail
    PROVE  /\ \A j \in RunRecord :
                  Place(j, intent', receipt', chain', mixed') /\ Shape(j) => Fit(j)'
           /\ \A p : Made(p, chain)' <=> Made(p, chain')
BY DEF Fit, Place, Made, Seeded, Delivered

LEMMA SharedStep ==
    ASSUME IInv, rail' = rail, NEW r \in Runs, NEW k \in RunRecord, Shape(k),
           run' = [run EXCEPT ![r] = k], Place(k, intent', receipt', chain', mixed'),
           \A j \in RunRecord : Shape(j) /\ Place(j, intent, receipt, chain, mixed)
                                   => Place(j, intent', receipt', chain', mixed')
    PROVE  run' \in [Runs -> RunRecord] /\ RunsFit'
<1>1. \A j \in RunRecord : Place(j, intent', receipt', chain', mixed') /\ Shape(j) => Fit(j)'
    BY RailStays
<1> QED
    BY <1>1, OneMoves DEF Fit, IInv, TypeOK

LEMMA ApproveKeeps ==
    ASSUME IInv, NEW r \in Runs, Approve(r)
    PROVE  IInv'
<1>1. PICK j \in RunRecord : j = run[r] /\ Shape(j) /\ Place(j, intent, receipt, chain, mixed)
    BY Here
<1>2. j.pc = "approve" /\ UNCHANGED <<intent, settlement, receipt, torn, mixed, outside>>
    BY <1>1 DEF Approve, At
<1>3. CASE session = NoSession
    BY <1>2, <1>3, EndKeeps DEF Approve, afal
<1>4. CASE session # NoSession
    <2>1. PICK k : k = [j EXCEPT !.pc = "resume"]
        OBVIOUS
    <2>2. Has(k, "resume", j.put, j.saved, j.terms, j.read, j.shown, j.torn, j.paid)
        BY <2>1, Moved DEF Pcs
    <2>3. run' = [run EXCEPT ![r] = k] /\ session' = [session EXCEPT !.approved = TRUE]
        BY <1>1, <1>4, <2>1 DEF Approve, Goto
    <2>4. k \in RunRecord /\ Shape(k)
        BY <1>1, <1>2, <2>2 DEF Has, Shape, Asks, AtRail, Pays, HasPaid, Putting
    <2>5. Place(k, intent, receipt, chain, mixed)
        BY <1>1, <1>2, <2>2 DEF Has, Place
    <2>6. UNCHANGED <<rail, intent, receipt, chain, mixed, confirmation, links, calls, settlement, torn>>
        BY <1>2 DEF outside
    <2>7. run' \in [Runs -> RunRecord] /\ RunsFit'
        BY <2>3, <2>4, <2>5, <2>6, SharedStep
    <2>8. session' \in [terms : Terms, approved : BOOLEAN] /\ session'.terms = session.terms
        BY <1>4, <2>3 DEF IInv, TypeOK
    <2>9. TypeOK'
        BY <2>6, <2>7, <2>8 DEF IInv, TypeOK
    <2>10. Records'
        BY <1>4, <2>6, <2>8 DEF IInv, Records, Made, Seeded
    <2> QED
        BY <2>7, <2>9, <2>10 DEF IInv
<1> QED
    BY <1>3, <1>4

LEMMA PutSettlementKeeps ==
    ASSUME IInv, NEW r \in Runs, PutSettlement(r)
    PROVE  IInv'
<1>1. PICK j \in RunRecord : j = run[r] /\ Shape(j) /\ Place(j, intent, receipt, chain, mixed)
    BY Here
<1>2. j.pc = "answered" /\ settlement' = settlement \cup {RefOf(j.paid)}
      /\ UNCHANGED <<rail, intent, session, receipt, torn, mixed, confirmation, chain, links, calls>>
    BY <1>1 DEF PutSettlement, At, outside
<1>3. PICK l : l = [j EXCEPT !.shown = NoTerms, !.torn = FALSE]
    OBVIOUS
<1>4. Has(l, j.pc, j.put, j.saved, j.terms, j.read, NoTerms, FALSE, j.paid)
    BY <1>3, Read, Members
<1>5. PICK k : k = [l EXCEPT !.pc = "outputs", !.put = "paymentReceipt"]
    OBVIOUS
<1>6. Has(k, "outputs", "paymentReceipt", j.saved, j.terms, j.read, NoTerms, FALSE, j.paid)
    <2>1. l \in RunRecord /\ "paymentReceipt" \in Puts
        BY <1>4 DEF Has, Puts
    <2>2. Has(k, "outputs", "paymentReceipt", l.saved, l.terms, l.read, l.shown, l.torn, l.paid)
        BY <1>5, <2>1, PutIs
    <2> QED
        BY <1>4, <2>2 DEF Has
<1>7. run' = [run EXCEPT ![r] = k]
    BY <1>1, <1>3, <1>5 DEF PutSettlement, Put
<1>8. k \in RunRecord /\ Shape(k)
    BY <1>1, <1>2, <1>6 DEF Has, Shape, Asks, AtRail, Pays, HasPaid, Putting
<1>9. Place(k, intent, receipt, chain, mixed)
    BY <1>1, <1>2, <1>6 DEF Has, Place
<1>10. run' \in [Runs -> RunRecord] /\ RunsFit'
    BY <1>2, <1>7, <1>8, <1>9, SharedStep
<1>11. TypeOK' /\ Records'
    BY <1>2, <1>10 DEF IInv, TypeOK, Records, Made, Seeded, RefOf, Refs
<1> QED
    BY <1>10, <1>11 DEF IInv

LEMMA MarkSettledKeeps ==
    ASSUME IInv, NEW r \in Runs, MarkSettled(r)
    PROVE  IInv'
<1>1. PICK j \in RunRecord : j = run[r] /\ Shape(j) /\ Place(j, intent, receipt, chain, mixed)
    BY Here
<1>2. j.pc = "paymentReceipt" /\ intent' = [intent EXCEPT !.status = "settled", !.ref = RefOf(j.paid)]
      /\ UNCHANGED <<rail, session, settlement, receipt, torn, mixed, confirmation, chain, links, calls>>
    BY <1>1 DEF MarkSettled, At, outside
<1>3. PICK l : l = [j EXCEPT !.read = NoTerms]
    OBVIOUS
<1>4. Has(l, j.pc, j.put, j.saved, j.terms, NoTerms, j.shown, j.torn, j.paid)
    BY <1>3, Read, Members
<1>5. PICK k : k = [l EXCEPT !.pc = "outputs", !.put = "resumed"]
    OBVIOUS
<1>6. Has(k, "outputs", "resumed", j.saved, j.terms, NoTerms, j.shown, j.torn, j.paid)
    <2>1. l \in RunRecord /\ "resumed" \in Puts
        BY <1>4 DEF Has, Puts
    <2>2. Has(k, "outputs", "resumed", l.saved, l.terms, l.read, l.shown, l.torn, l.paid)
        BY <1>5, <2>1, PutIs
    <2> QED
        BY <1>4, <2>2 DEF Has
<1>7. run' = [run EXCEPT ![r] = k]
    BY <1>1, <1>3, <1>5 DEF MarkSettled, Put
<1>8. k \in RunRecord /\ Shape(k)
    BY <1>1, <1>2, <1>6 DEF Has, Shape, Asks, AtRail, Pays, HasPaid, Putting
<1>9. intent.terms \in Terms /\ (~mixed => receipt.tx = SeedTx \/ receipt.terms = intent.terms)
    <2>1. j.read # NoTerms
        BY <1>1, <1>2 DEF Shape, Pays
    <2> QED
        BY <1>1, <1>2, <2>1 DEF Place
<1>10. intent' \in [terms : Terms, status : {"created", "pending-approval", "settled"}, ref : Refs]
       /\ intent'.terms = intent.terms
    BY <1>2, <1>9 DEF IInv, TypeOK, NoIntent, RefOf, Refs
<1>11. \A q \in RunRecord : Place(q, intent, receipt, chain, mixed) => Place(q, intent', receipt', chain', mixed')
    BY <1>2, <1>10 DEF Place
<1>12. Place(k, intent', receipt', chain', mixed')
    BY <1>1, <1>2, <1>6, <1>10 DEF Has, Place
<1>13. run' \in [Runs -> RunRecord] /\ RunsFit'
    BY <1>2, <1>7, <1>8, <1>11, <1>12, SharedStep
<1>14. TypeOK' /\ Records'
    BY <1>2, <1>9, <1>10, <1>13 DEF IInv, TypeOK, Records, Made, Seeded
<1> QED
    BY <1>13, <1>14 DEF IInv

LEMMA OpenSessionKeeps ==
    ASSUME IInv, NEW r \in Runs, OpenSession(r)
    PROVE  IInv'
<1>1. PICK j \in RunRecord : j = run[r] /\ Shape(j) /\ Place(j, intent, receipt, chain, mixed)
    BY Here
<1>2. /\ j.pc = "checking" /\ j.terms \in Terms /\ j.read = NoTerms /\ j.shown = NoTerms
      /\ j.torn \in BOOLEAN /\ intent.terms \in Terms /\ (~j.torn => intent.terms = j.terms)
    BY <1>1, Fields DEF OpenSession, At, Shape, Place, Asks, Pays, AtRail, Putting
<1>3. /\ session' = [terms |-> j.terms, approved |-> FALSE]
      /\ intent' = [intent EXCEPT !.status = "pending-approval"] /\ torn' = j.torn
      /\ UNCHANGED <<rail, settlement, receipt, mixed, confirmation, chain, links, calls>>
    BY <1>1 DEF OpenSession, ApprovalRequest, outside
<1>4. PICK l : l = [j EXCEPT !.torn = FALSE]
    OBVIOUS
<1>5. Has(l, j.pc, j.put, j.saved, j.terms, j.read, j.shown, FALSE, j.paid)
    BY <1>4, Read, Members
<1>6. PICK k : k = [l EXCEPT !.pc = "outputs", !.put = "requested"]
    OBVIOUS
<1>7. Has(k, "outputs", "requested", j.saved, j.terms, j.read, j.shown, FALSE, j.paid)
    <2>1. l \in RunRecord /\ "requested" \in Puts
        BY <1>5 DEF Has, Puts
    <2>2. Has(k, "outputs", "requested", l.saved, l.terms, l.read, l.shown, l.torn, l.paid)
        BY <1>6, <2>1, PutIs
    <2> QED
        BY <1>5, <2>2 DEF Has
<1>8. run' = [run EXCEPT ![r] = k]
    BY <1>1, <1>4, <1>6 DEF OpenSession, Put
<1>9. k \in RunRecord /\ Shape(k)
    BY <1>2, <1>7 DEF Has, Shape, Asks, AtRail, Pays, HasPaid, Putting
<1>10. /\ intent' \in [terms : Terms, status : {"created", "pending-approval", "settled"}, ref : Refs]
       /\ intent'.terms = intent.terms /\ intent'.status = "pending-approval"
    <2>1. intent \in [terms : Terms, status : {"created", "pending-approval", "settled"}, ref : Refs]
        BY <1>2 DEF IInv, TypeOK, NoIntent
    <2> QED
        BY <1>3, <2>1
<1>11. \A q \in RunRecord : Place(q, intent, receipt, chain, mixed) => Place(q, intent', receipt', chain', mixed')
    BY <1>3, <1>10 DEF Place
<1>12. Place(k, intent', receipt', chain', mixed')
    BY <1>1, <1>2, <1>3, <1>7, <1>10 DEF Has, Place
<1>13. run' \in [Runs -> RunRecord] /\ RunsFit'
    BY <1>3, <1>8, <1>9, <1>11, <1>12, SharedStep
<1>14. TypeOK'
    <2>1. session' \in [terms : Terms, approved : BOOLEAN]
        BY <1>2, <1>3
    <2> QED
        BY <1>2, <1>3, <1>10, <1>13, <2>1 DEF IInv, TypeOK
<1>15. Records'
    <2>1. session'.terms = j.terms
        BY <1>3
    <2> QED
        BY <1>2, <1>3, <1>10, <2>1 DEF IInv, Records, Made, Seeded
<1> QED
    BY <1>13, <1>14, <1>15 DEF IInv

LEMMA WriteSnapshotKeeps ==
    ASSUME IInv, NEW r \in Runs, WriteSnapshot(r)
    PROVE  IInv'
<1>1. PICK j \in RunRecord : j = run[r] /\ Shape(j) /\ Place(j, intent, receipt, chain, mixed)
    BY Here
<1>2. /\ j.pc = "writing" /\ j.put \in Puts /\ j.put # "none"
      /\ j.paid \in SomePayment /\ j.saved \in SomePayment
    BY <1>1, Fields DEF WriteSnapshot, At, Shape
<1>3. /\ receipt' = (IF j.put = "paymentReceipt" THEN j.paid ELSE j.saved)
      /\ mixed' = (mixed \/ (j.put # "paymentReceipt" /\ j.saved # receipt))
      /\ UNCHANGED <<rail, intent, session, settlement, torn, confirmation, chain, links, calls>>
    BY <1>1 DEF WriteSnapshot, outside
<1>4. receipt' \in SomePayment /\ mixed' \in BOOLEAN /\ Made(receipt', chain)
    BY <1>1, <1>2, <1>3 DEF Place, IInv, TypeOK
<1>5. ~mixed' => /\ ~mixed
                 /\ receipt' = receipt \/ receipt'.tx = SeedTx \/ receipt'.terms = intent.terms
    <2>1. CASE j.put = "paymentReceipt"
        <3>1. j.read \in Terms /\ (j.paid.tx = SeedTx \/ j.paid.terms = j.read)
            BY <1>1, <1>2, <2>1 DEF Shape, HasPaid, Pays, Putting
        <3>2. ~mixed => j.read = intent.terms
            BY <1>1, <3>1 DEF Place
        <3> QED
            BY <1>3, <2>1, <3>1, <3>2
    <2>2. CASE j.put # "paymentReceipt"
        BY <1>3, <2>2
    <2> QED
        BY <2>1, <2>2
<1>6. \A q \in RunRecord : Place(q, intent, receipt, chain, mixed) => Place(q, intent', receipt', chain', mixed')
    BY <1>3, <1>5 DEF Place, Delivered
<1>7. PICK k \in RunRecord : /\ run' = [run EXCEPT ![r] = k] /\ Shape(k)
                             /\ Place(k, intent', receipt', chain', mixed')
    <2>1. CASE j.put = "resumed"
        <3>1. j.paid.tx \in Hashes \cup {NoTx}
            BY <1>2 DEF SomePayment, Payment, NoPayment
        <3>2. Quiet(AfterResume(r, j.paid.tx))
            BY <3>1, AfterResumeIsQuiet
        <3>3. run' = [run EXCEPT ![r] = AfterResume(r, j.paid.tx)]
            BY <1>1, <2>1 DEF WriteSnapshot
        <3> QED
            BY <3>2, <3>3, QuietFits
    <2>2. CASE j.put # "resumed"
        <3>1. j.put \in {"requested", "atRail", "paymentReceipt"}
            BY <1>2, <2>2 DEF Puts
        <3>2. PICK k : k = [j EXCEPT !.pc = j.put, !.put = "none", !.saved = NoPayment]
            OBVIOUS
        <3>3. Has(k, j.put, "none", NoPayment, j.terms, j.read, j.shown, j.torn, j.paid)
            <4>1. j.put \in Pcs
                BY <3>1 DEF Pcs
            <4> QED
                BY <3>2, <4>1, Written, Members
        <3>4. run' = [run EXCEPT ![r] = k]
            BY <1>1, <2>2, <3>2 DEF WriteSnapshot
        <3>5. k \in RunRecord /\ Shape(k)
            BY <1>1, <1>2, <3>1, <3>3 DEF Has, Shape, Asks, AtRail, Pays, HasPaid, Putting
        <3>6. Place(k, intent', receipt', chain', mixed')
            <4>1. ~mixed' /\ j.put = "paymentReceipt" => receipt'.tx = SeedTx \/ receipt'.terms = intent.terms
                <5>1. ASSUME ~mixed', j.put = "paymentReceipt" PROVE receipt'.tx = SeedTx \/ receipt'.terms = intent.terms
                    <6>1. j.read \in Terms /\ (j.paid.tx = SeedTx \/ j.paid.terms = j.read)
                        BY <1>1, <1>2, <5>1 DEF Shape, HasPaid, Pays, Putting
                    <6> QED
                        BY <1>1, <1>3, <1>5, <5>1, <6>1 DEF Place
                <5> QED
                    BY <5>1
            <4> QED
                BY <1>1, <1>2, <1>3, <1>5, <3>1, <3>3, <4>1 DEF Has, Place, Made
        <3> QED
            BY <3>4, <3>5, <3>6
    <2> QED
        BY <2>1, <2>2
<1>8. run' \in [Runs -> RunRecord] /\ RunsFit'
    BY <1>3, <1>6, <1>7, SharedStep
<1>9. TypeOK' /\ Records'
    BY <1>3, <1>4, <1>5, <1>8 DEF IInv, TypeOK, Records, Made, Seeded
<1> QED
    BY <1>8, <1>9 DEF IInv

LEMMA RailRegistersKeeps ==
    ASSUME IInv, NEW r \in Runs, RailRegisters(r)
    PROVE  IInv'
<1>1. PICK j \in RunRecord : j = run[r] /\ Shape(j) /\ Place(j, intent, receipt, chain, mixed)
    BY Here
<1>2. j.pc = "mining" /\ confirmation' = j.paid
      /\ UNCHANGED <<rail, intent, session, settlement, receipt, torn, mixed, chain, links, calls>>
    BY <1>1 DEF RailRegisters, At, afal
<1>3. PICK k : k = [j EXCEPT !.pc = "answered"]
    OBVIOUS
<1>4. Has(k, "answered", j.put, j.saved, j.terms, j.read, j.shown, j.torn, j.paid)
    BY <1>3, Moved DEF Pcs
<1>5. run' = [run EXCEPT ![r] = k]
    BY <1>1, <1>3 DEF RailRegisters, Goto
<1>6. k \in RunRecord /\ Shape(k)
    BY <1>1, <1>2, <1>4 DEF Has, Shape, Asks, AtRail, Pays, HasPaid, Putting
<1>7. Place(k, intent, receipt, chain, mixed)
    BY <1>1, <1>2, <1>4 DEF Has, Place
<1>8. run' \in [Runs -> RunRecord] /\ RunsFit'
    BY <1>2, <1>5, <1>6, <1>7, SharedStep
<1>9. TypeOK' /\ Records'
    BY <1>1, <1>2, <1>8, Fields, RailStays DEF IInv, TypeOK, Records, Place
<1> QED
    BY <1>8, <1>9 DEF IInv

LEMMA CreatePaymentIntentKeeps ==
    ASSUME IInv, NEW r \in Runs, CreatePaymentIntent(r)
    PROVE  IInv'
<1>1. PICK j \in RunRecord : j = run[r] /\ Shape(j) /\ Place(j, intent, receipt, chain, mixed)
    BY Here
<1>2. j.pc = "request" /\ j.terms \in Terms /\ j.read = NoTerms /\ j.shown = NoTerms
    BY <1>1 DEF CreatePaymentIntent, At, Shape, Asks, Pays, AtRail, Putting
<1>3. /\ intent' = [terms |-> j.terms, status |-> "created", ref |-> "none"] /\ torn' = TRUE
      /\ mixed' = (mixed \/ \E q \in Runs \ {r} : Using(q))
      /\ UNCHANGED <<rail, session, settlement, receipt, confirmation, chain, links, calls>>
    BY <1>1 DEF CreatePaymentIntent, PaymentIntent, outside
<1>4. /\ run' \in [Runs -> RunRecord]
      /\ \A q \in Runs \ {r} : \E l \in RunRecord : \E k \in RunRecord :
             /\ l = run[q] /\ k = run'[q] /\ Shape(l) /\ Place(l, intent, receipt, chain, mixed)
             /\ Has(k, l.pc, l.put, l.saved, l.terms, l.read, l.shown, k.torn, l.paid)
             /\ k.torn = l.torn \/ k.torn = TRUE
             /\ k.pc = "checking" => k.torn
             /\ k.pc = "delivered" => k = l
      /\ \E k \in RunRecord :
             /\ k = run'[r]
             /\ Has(k, "checking", j.put, j.saved, j.terms, j.read, j.shown, j.torn, j.paid)
    <2>1. run' = [q \in Runs |-> IF q = r THEN [run[q] EXCEPT !.pc = "checking"]
                                 ELSE IF At(q, "checking") THEN [run[q] EXCEPT !.torn = TRUE]
                                 ELSE run[q]]
        BY DEF CreatePaymentIntent
    <2>2. \E k \in RunRecord :
             /\ k = run'[r]
             /\ Has(k, "checking", j.put, j.saved, j.terms, j.read, j.shown, j.torn, j.paid)
        <3>1. PICK k : k = [j EXCEPT !.pc = "checking"]
            OBVIOUS
        <3>2. Has(k, "checking", j.put, j.saved, j.terms, j.read, j.shown, j.torn, j.paid)
            BY <3>1, Moved DEF Pcs
        <3>3. k = run'[r]
            BY <1>1, <2>1, <3>1
        <3> QED
            BY <3>2, <3>3 DEF Has
    <2>3. ASSUME NEW q \in Runs \ {r}
          PROVE  \E l \in RunRecord : \E k \in RunRecord :
                     /\ l = run[q] /\ k = run'[q] /\ Shape(l) /\ Place(l, intent, receipt, chain, mixed)
                     /\ Has(k, l.pc, l.put, l.saved, l.terms, l.read, l.shown, k.torn, l.paid)
                     /\ k.torn = l.torn \/ k.torn = TRUE
                     /\ k.pc = "checking" => k.torn
                     /\ k.pc = "delivered" => k = l
        <3>1. PICK l \in RunRecord : l = run[q] /\ Shape(l) /\ Place(l, intent, receipt, chain, mixed)
            BY Here
        <3>2. CASE l.pc = "checking"
            <4>1. PICK k : k = [l EXCEPT !.torn = TRUE]
                OBVIOUS
            <4>2. Has(k, l.pc, l.put, l.saved, l.terms, l.read, l.shown, TRUE, l.paid)
                BY <4>1, Torn
            <4>3. k = run'[q]
                BY <2>1, <3>1, <3>2, <4>1 DEF At
            <4> QED
                BY <3>1, <3>2, <4>2, <4>3 DEF Has
        <3>3. CASE l.pc # "checking"
            <4>1. l = run'[q]
                BY <2>1, <3>1, <3>3 DEF At
            <4> QED
                BY <3>1, <3>3, <4>1 DEF Has
        <3> QED
            BY <3>2, <3>3
    <2>4. run' \in [Runs -> RunRecord]
        <3>1. DOMAIN run' = Runs /\ \A q \in Runs : run'[q] \in RunRecord
            BY <2>1, <2>2, <2>3
        <3> QED
            BY <2>1, <3>1
    <2> QED
        BY <2>2, <2>3, <2>4
<1>5. intent'.terms = j.terms /\ intent'.status = "created"
      /\ intent' \in [terms : Terms, status : {"created", "pending-approval", "settled"}, ref : Refs]
    BY <1>2, <1>3, Members
<1>6. ASSUME NEW q \in Runs PROVE Fit(run[q])'
    <2>1. CASE q = r
        <3>1. PICK k \in RunRecord :
                  /\ k = run'[q]
                  /\ Has(k, "checking", j.put, j.saved, j.terms, j.read, j.shown, j.torn, j.paid)
            BY <1>4, <2>1
        <3>2. Shape(k)
            BY <1>2, <3>1 DEF Has, Shape, Asks, AtRail, Pays, HasPaid, Putting
        <3>3. Place(k, intent', receipt', chain', mixed')
            BY <1>1, <1>2, <1>3, <1>5, <3>1 DEF Has, Place
        <3> QED
            BY <1>3, <3>1, <3>2, <3>3, RailStays DEF Fit
    <2>2. CASE q # r
        <3>1. PICK l \in RunRecord, k \in RunRecord :
                  /\ l = run[q] /\ k = run'[q] /\ Shape(l) /\ Place(l, intent, receipt, chain, mixed)
                  /\ Has(k, l.pc, l.put, l.saved, l.terms, l.read, l.shown, k.torn, l.paid)
                  /\ k.torn = l.torn \/ k.torn = TRUE
                  /\ k.pc = "checking" => k.torn
                  /\ k.pc = "delivered" => k = l
            BY <1>4, <2>2
        <3>2. Shape(k)
            BY <3>1 DEF Has, Shape, Asks, AtRail, Pays, HasPaid, Putting
        <3>3. ~mixed' => l.read = NoTerms /\ ~mixed
            BY <1>3, <2>2, <3>1 DEF Using
        <3>4. ~mixed' => k.read = NoTerms /\ k.pc \notin {"status", "paymentReceipt"}
            BY <3>1, <3>3 DEF Has, Shape, Pays
        <3>5. k.pc = "delivered" => Delivered(k, chain', mixed')
            BY <1>3, <3>1 DEF Has, Place, Delivered
        <3>6. Made(k.paid, chain') /\ Made(k.saved, chain')
            BY <1>3, <3>1 DEF Has, Place
        <3>7. Place(k, intent', receipt', chain', mixed')
            BY <1>2, <1>5, <3>1, <3>4, <3>5, <3>6 DEF Place
        <3> QED
            BY <1>3, <3>1, <3>2, <3>7, RailStays DEF Fit
    <2> QED
        BY <2>1, <2>2
<1>7. RunsFit'
    BY <1>6 DEF RunsFit
<1>8. mixed' \in BOOLEAN
    BY <1>3 DEF IInv, TypeOK
<1>9. TypeOK' /\ Records'
    BY <1>2, <1>3, <1>4, <1>5, <1>8 DEF IInv, TypeOK, Records, Made, Seeded
<1> QED
    BY <1>7, <1>9 DEF IInv

-----------------------------------------------------------------------------
(* The chain.                                                              *)

LEMMA ChainGrows ==
    ASSUME IInv, NEW terms \in Terms, Transfer(terms)
    PROVE  /\ chain' \in Seq(Terms) /\ Len(chain') <= MaxTxs
           /\ NextTransfer(terms) \in Payment /\ NextTransfer(terms).terms = terms
           /\ Made(NextTransfer(terms), chain')
           /\ \A p \in SomePayment : Made(p, chain) => Made(p, chain')
           /\ \A j \in RunRecord : Delivered(j, chain, mixed) => Delivered(j, chain', mixed)
<1>1. /\ chain \in Seq(Terms) /\ Len(chain) \in Nat /\ Len(chain) < MaxTxs
      /\ chain' = Append(chain, terms)
    BY DEF IInv, TypeOK, Transfer
<1>2. /\ chain' \in Seq(Terms) /\ Len(chain') = Len(chain) + 1 /\ chain'[Len(chain) + 1] = terms
      /\ \A t \in DOMAIN chain : t \in DOMAIN chain' /\ chain'[t] = chain[t]
      /\ Len(chain) + 1 \in DOMAIN chain'
    BY <1>1
<1>3. Len(chain) + 1 \in Txs
    BY <1>1 DEF Txs
<1>4. /\ NextTransfer(terms) \in Payment /\ NextTransfer(terms).terms = terms
      /\ NextTransfer(terms).tx = Len(chain) + 1
    BY <1>3, Members DEF NextTransfer, Payment
<1>5. Made(NextTransfer(terms), chain')
    BY <1>1, <1>2, <1>4 DEF Made, SeedTx
<1>6. Len(chain') <= MaxTxs
    BY <1>1, <1>2
<1>7. \A p \in SomePayment : Made(p, chain) => Made(p, chain')
    BY <1>2 DEF Made
<1>8. \A j \in RunRecord : Delivered(j, chain, mixed) => Delivered(j, chain', mixed)
    BY <1>2 DEF Delivered
<1> QED
    BY <1>2, <1>4, <1>5, <1>6, <1>7, <1>8

LEMMA PlacesGrow ==
    ASSUME IInv, NEW terms \in Terms, Transfer(terms), UNCHANGED <<intent, receipt, mixed>>
    PROVE  \A j \in RunRecord : Place(j, intent, receipt, chain, mixed)
                                => Place(j, intent', receipt', chain', mixed')
<1> SUFFICES ASSUME NEW j \in RunRecord, Place(j, intent, receipt, chain, mixed)
             PROVE  Place(j, intent', receipt', chain', mixed')
    OBVIOUS
<1>1. Made(j.paid, chain') /\ Made(j.saved, chain')
    BY Fields, ChainGrows DEF Place
<1>2. j.pc = "delivered" => Delivered(j, chain', mixed)
    BY ChainGrows DEF Place
<1> QED
    BY <1>1, <1>2 DEF Place

LEMMA AgentPaysKeeps ==
    ASSUME IInv, NEW r \in Runs, AgentPays(r)
    PROVE  IInv'
<1>1. PICK j \in RunRecord : j = run[r] /\ Shape(j) /\ Place(j, intent, receipt, chain, mixed)
    BY Here
<1>2. /\ j.pc = "signing" /\ j.read \in Terms /\ Transfer(j.read)
      /\ UNCHANGED <<rail, intent, session, settlement, receipt, torn, mixed, confirmation, links, calls>>
    BY <1>1 DEF AgentPays, At, afal, Shape, Pays, AtRail
<1>3. PICK s \in Payment : s = NextTransfer(j.read) /\ s.terms = j.read /\ Made(s, chain')
    BY <1>2, ChainGrows
<1>4. PICK k : k = [j EXCEPT !.pc = "mining", !.paid = s]
    OBVIOUS
<1>5. Has(k, "mining", j.put, j.saved, j.terms, j.read, j.shown, j.torn, s)
    BY <1>4, Changed, Members DEF Pcs
<1>6. run' = [run EXCEPT ![r] = k]
    BY <1>1, <1>3, <1>4 DEF AgentPays
<1>7. k \in RunRecord /\ Shape(k)
    BY <1>1, <1>2, <1>3, <1>5 DEF Has, Shape, Asks, AtRail, Pays, HasPaid, Putting
<1>8. \A q \in RunRecord : Place(q, intent, receipt, chain, mixed)
                            => Place(q, intent', receipt', chain', mixed')
    BY <1>2, PlacesGrow
<1>9. Place(k, intent', receipt', chain', mixed')
    <2>1. Place(j, intent', receipt', chain', mixed')
        BY <1>1, <1>8
    <2> QED
        BY <1>2, <1>3, <1>5, <2>1 DEF Has, Place
<1>10. run' \in [Runs -> RunRecord] /\ RunsFit'
    BY <1>2, <1>6, <1>7, <1>8, <1>9, SharedStep
<1>11. Made(confirmation, chain') /\ Made(receipt, chain') /\ chain' \in Seq(Terms) /\ Len(chain') <= MaxTxs
    BY <1>2, ChainGrows DEF IInv, TypeOK, Records
<1>12. TypeOK' /\ Records'
    BY <1>2, <1>10, <1>11, RailStays DEF IInv, TypeOK, Records
<1> QED
    BY <1>10, <1>12 DEF IInv

LEMMA PersonPaysKeeps ==
    ASSUME IInv, NEW terms \in Terms, PersonPays(terms)
    PROVE  IInv'
<1>1. /\ Transfer(terms)
      /\ UNCHANGED <<rail, intent, session, settlement, receipt, torn, mixed, confirmation,
                      links, calls, run>>
    BY DEF PersonPays, afal
<1>2. /\ Made(confirmation, chain') /\ Made(receipt, chain')
      /\ chain' \in Seq(Terms) /\ Len(chain') <= MaxTxs
    BY <1>1, ChainGrows DEF IInv, TypeOK, Records
<1>3. RunsFit'
    <2>1. \A q \in RunRecord : Place(q, intent, receipt, chain, mixed)
                                => Place(q, intent', receipt', chain', mixed')
        BY <1>1, PlacesGrow
    <2> QED
        BY <1>1, <2>1, RailStays DEF IInv, TypeOK, RunsFit, Fit
<1>4. TypeOK' /\ Records'
    BY <1>1, <1>2, RailStays DEF IInv, TypeOK, Records
<1> QED
    BY <1>3, <1>4 DEF IInv

LEMMA ConfirmKeeps ==
    ASSUME IInv, NEW t \in Txs, NEW terms \in Terms, Confirm(t, terms)
    PROVE  IInv'
<1>1. /\ confirmation' = [terms |-> terms, tx |-> t]
      /\ rail.verify => t \in DOMAIN chain /\ chain[t] = terms
      /\ UNCHANGED <<rail, intent, session, settlement, receipt, torn, mixed, chain,
                      links, calls, run>>
    BY DEF Confirm, afal
<1>2. confirmation' \in SomePayment /\ Made(confirmation', chain)
    BY <1>1, Members DEF Payment, Made, Txs, SeedTx
<1>3. RunsFit'
    BY <1>1, OthersStay DEF IInv, TypeOK, RunsFit
<1>4. TypeOK' /\ Records'
    BY <1>1, <1>2 DEF IInv, TypeOK, Records, Made, Seeded
<1> QED
    BY <1>3, <1>4 DEF IInv

-----------------------------------------------------------------------------
LEMMA NextKeeps == IInv /\ [Next]_vars => IInv'
<1> SUFFICES ASSUME IInv, [Next]_vars PROVE IInv'
    OBVIOUS
<1>1. ASSUME NEW r \in Runs, NEW terms \in Terms,
             \/ \E mode \in Modes : CallPayAndGate(r, terms, mode)
             \/ \E tool \in Tools : CallRequestPayment(r, terms, tool)
             \/ \E approves \in BOOLEAN : CallWalletDemo(r, terms, approves)
             \/ ModelDecides(r, terms)
      PROVE  IInv'
    BY <1>1, StartKeeps
<1>2. ASSUME NEW r \in Runs, CallApproveResume(r) \/ CallProviderGate(r) \/ CallModelAgent(r)
      PROVE  IInv'
    BY <1>2, CallApproveResumeKeeps
<1>3. ASSUME NEW r \in Runs, Proceed(r)
      PROVE  IInv'
    BY <1>3, EndingsKeep, ReadSnapshotKeeps, WriteSnapshotKeeps, CreatePaymentIntentKeeps,
        OpenSessionKeeps, RequestPaymentKeeps, WalletConfirmedKeeps, DemoGoesOnKeeps, ApproveKeeps,
        ResumeKeeps, ReadReceiptKeeps, RailFindsConfirmationKeeps, RailFindsNoneKeeps,
        RailSettlesFromSeedKeeps,
        RailRegistersKeeps, AgentPaysKeeps, PutSettlementKeeps, MarkSettledKeeps, ReadIntentKeeps,
        GatesKeep DEF Proceed
<1>4. ASSUME NEW terms \in Terms, PersonPays(terms)
      PROVE  IInv'
    BY <1>4, PersonPaysKeeps
<1>5. ASSUME NEW t \in Txs, NEW terms \in Terms, Confirm(t, terms)
      PROVE  IInv'
    BY <1>5, ConfirmKeeps
<1>6. ASSUME NEW r \in Runs, NEW terms \in Terms, NEW tx \in Hashes \cup {NoTx},
             NEW expects \in SUBSET Checks, GateOfCaller(r, terms, tx, expects)
      PROVE  IInv'
    BY <1>6, GatesKeep
<1>7. CASE UNCHANGED vars
    <2>1. RunsFit'
        BY <1>7, OthersStay DEF vars, IInv, TypeOK, RunsFit
    <2> QED
        BY <1>7, <2>1 DEF vars, IInv, TypeOK, Records, Made, Seeded
<1> QED
    BY <1>1, <1>2, <1>3, <1>4, <1>5, <1>6, <1>7 DEF Next

\* The invariant says what each property says.
LEMMA DeliveredFits == IInv => DeliveredWasPaid
BY DEF IInv, RunsFit, Fit, Place, Delivered, Seeded, DeliveredWasPaid

LEMMA ShownFits == IInv => PaidAsShown
BY DEF IInv, RunsFit, Fit, Shape, PaidAsShown

LEMMA Invariant == Spec => []IInv
BY InitHolds, NextKeeps, PTL DEF Spec

(* The intents, sessions, outputs and calls of the tools keep their types,   *)
(* for any number of calls, payees and amounts: no status is written into a *)
(* record that does not exist.                                             *)
THEOREM TypeCorrect == Spec => []TypeOK
<1>1. IInv => TypeOK
    BY DEF IInv
<1> QED
    BY <1>1, Invariant, PTL

(* With a verifier at the rail, a service is only delivered on a transfer    *)
(* that was made, else on one the rail was told of, of the amount the gate   *)
(* was told and, unless requests have overlapped at AFAL, to the payee it    *)
(* was told, or on the seed of a rail that asks for no wallet by a gate that *)
(* does not compare the chain                                               *)
(* (evaluateProviderGate), however many calls run, whatever terms their     *)
(* messages name and whatever is registered for the action.                *)
THEOREM DeliveriesArePaid == Spec => []DeliveredWasPaid
BY DeliveredFits, Invariant, PTL

(* A resume pays what its approval session showed, unless the stored intent  *)
(* is of another request than the session (resumeApprovedPaymentAction).    *)
THEOREM ResumesPayAsShown == Spec => []PaidAsShown
BY ShownFits, Invariant, PTL
=============================================================================

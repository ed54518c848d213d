------------------------- MODULE IdentityStoreProofs -------------------------
(***************************************************************************)
(* What holds of the identities and credentials for every number of them,  *)
(* of calls in progress and of crashes: the types, that an undisturbed     *)
(* withdrawal is never lost, that verifications are sound, and that the    *)
(* file is only damaged for a reason.                                      *)
(***************************************************************************)
EXTENDS IdentityStore, TLAPS

Seeds(p) == call[p].pc \in {"seedOpen", "seedWrite"}
HasCopy(p) == call[p].pc \in {"open", "write"}

\* Which calls are where.
CallShape ==
  \A p \in Processes :
    /\ HasCopy(p) => call[p].op = "withdraw"
    /\ At(p, "idle") => call[p].stage = 0 /\ call[p].op = "none"
    /\ ~At(p, "idle") => call[p].record \in Records
    /\ call[p].op = "verify" /\ call[p].stage = 1 => call[p].record \in Credentials

\* A call that is alone is the only one that writes.
AloneIsSingle == \A p \in Processes : Writes(p) /\ call[p].alone => ~OthersWrite(p)

UndisturbedIsSingle ==
  ~disturbed => \A p, q \in Processes : Writes(p) /\ Writes(q) => p = q

\* What a call is about to write has all that must be kept; the seed is only
\* written when that is nothing.
CopyHasKept == \A p \in Processes : HasCopy(p) => kept \subseteq call[p].copy
SeedIsFirst ==
  /\ file.state = "absent" => kept = {} /\ \A p \in Processes : call[p].stage # 2
  /\ \A p \in Processes : Seeds(p) => kept = {}

\* A verification that must fail has not yet got past what it must fail on.
BarredIsAhead ==
  \A p \in Processes : call[p].op = "verify" /\ call[p].barred =>
    LET k == call[p].record
    IN /\ call[p].stage = 1 => k \in kept \/ SubjectOf[k] \in kept
       /\ call[p].stage # 1 => k \in kept

\* Without a disturbance, the one call that writes holds the file as it is.
WriterIsCurrent ==
  ~disturbed => \A p \in Processes :
    /\ At(p, "seedOpen") => file.state = "absent"
    /\ At(p, "seedWrite") => file.state = "empty"
    /\ Seeds(p) => \A q \in Processes : call[q].stage # 2
    /\ At(p, "open") => file = Snapshot(call[p].copy)
    /\ At(p, "write") => file.state = "empty"

\* And what a verification has found withdrawn remains so.
BadRemains ==
  ~disturbed => \A q \in Processes :
    call[q].op = "verify" /\ call[q].stage = 2 /\ ~call[q].good =>
      /\ file.state = "valid" => call[q].record \in file.withdrawn
      /\ \A p \in Processes : HasCopy(p) => call[q].record \in call[p].copy

\* Without a clash, one call at most has the file open, and it is empty.
OpenIsEmpty ==
  ~clashed => \A p \in Processes : HasOpen(p) =>
    /\ file.state = "empty"
    /\ \A q \in Processes : HasOpen(q) => q = p

WritePart == AloneIsSingle /\ UndisturbedIsSingle /\ WriterIsCurrent
KeptPart == CopyHasKept /\ SeedIsFirst /\ WithdrawalIsKept
VerifyPart == BarredIsAhead /\ BadRemains /\ VerdictIsSound
FilePart == OpenIsEmpty /\ DamageHasCause

IInv == TypeOK /\ CallShape /\ WritePart /\ KeptPart /\ VerifyPart /\ FilePart

-----------------------------------------------------------------------------
(* Each step keeps the invariant.                                          *)

LEMMA IdleIsCall ==
    /\ Idle \in CallRecord
    /\ Idle.pc = "idle" /\ Idle.op = "none" /\ Idle.stage = 0 /\ Idle.barred = FALSE
BY DEF Idle, CallRecord

LEMMA InitHolds == Init => IInv
<1> SUFFICES ASSUME Init PROVE IInv
    OBVIOUS
<1> USE IdleIsCall, StoreAssumption DEF Init, NoVerdict, Unreadable
<1>a. file \in [state : {"absent", "empty", "garbled", "valid"}, withdrawn : SUBSET Records]
    OBVIOUS
<1>b. call \in [Processes -> CallRecord] /\ verdict \in [Processes ->
       [result : {"none", "valid", "invalid", "done", "failed"},
        barred : BOOLEAN, good : BOOLEAN]]
    OBVIOUS
<1>c. callsLeft \in 0..MaxCalls /\ crashesLeft \in 0..MaxCrashes
    OBVIOUS
<1>d. kept \in SUBSET Records
    OBVIOUS
<1>1. TypeOK
    BY <1>a, <1>b, <1>c, <1>d DEF TypeOK
<1>e. CallShape
    BY DEF CallShape, HasCopy, At
<1>2. WritePart
    BY DEF WritePart, AloneIsSingle, UndisturbedIsSingle, WriterIsCurrent, Writes, Seeds, At
<1>3. KeptPart
    BY DEF KeptPart, CopyHasKept, SeedIsFirst, WithdrawalIsKept, HasCopy, Seeds
<1>4. VerifyPart
    BY DEF VerifyPart, BarredIsAhead, BadRemains, VerdictIsSound, WithdrawnNeverPasses,
        VerdictIsOfOneMoment
<1>5. FilePart
    BY DEF FilePart, OpenIsEmpty, DamageHasCause, HasOpen
<1> QED
    BY <1>1, <1>e, <1>2, <1>3, <1>4, <1>5 DEF IInv

\* A call of p begins to write: everyone else's is no longer alone.
SameCall(q, r) ==
  /\ q.pc = r.pc /\ q.op = r.op /\ q.record = r.record /\ q.stage = r.stage
  /\ q.copy = r.copy /\ q.barred = r.barred /\ q.good = r.good

LEMMA AloneIsField ==
    ASSUME NEW r \in CallRecord, NEW b \in BOOLEAN
    PROVE  /\ [r EXCEPT !.alone = b] \in CallRecord
           /\ SameCall([r EXCEPT !.alone = b], r)
           /\ [r EXCEPT !.alone = b].alone = b
BY DEF CallRecord, SameCall

LEMMA BeginsIsOne ==
    ASSUME TypeOK, NEW p \in Processes, NEW c \in CallRecord, BeginsToWrite(p, c)
    PROVE  /\ call' \in [Processes -> CallRecord] /\ disturbed' \in BOOLEAN
           /\ SameCall(call'[p], c) /\ (call'[p].alone => ~OthersWrite(p))
           /\ \A q \in Processes \ {p} : SameCall(call'[q], call[q]) /\ ~call'[q].alone
           /\ (disturbed \/ OthersWrite(p) => disturbed')
<1>1. OthersWrite(p) \in BOOLEAN /\ (~OthersWrite(p)) \in BOOLEAN /\ FALSE \in BOOLEAN
    BY DEF OthersWrite
<1>2. \A q \in Processes : call[q] \in CallRecord
    BY DEF TypeOK
<1> QED
    BY <1>1, <1>2, AloneIsField DEF TypeOK, BeginsToWrite

LEMMA WithdrawKeeps ==
    ASSUME IInv, NEW p \in Processes, NEW k \in Records, StartWithdraw(p, k)
    PROVE  IInv'
<1> USE DEF IInv
<1> DEFINE c == Begun("withdraw", k, FALSE)
<1>1. /\ c \in CallRecord /\ c.pc = "exists" /\ c.op = "withdraw" /\ c.record = k /\ c.stage = 1
    BY DEF Begun, CallRecord
<1>2. /\ BeginsToWrite(p, c) /\ call[p] = Idle
      /\ callsLeft' = callsLeft - 1 /\ callsLeft > 0
      /\ UNCHANGED <<file, verdict, kept, clashed, crashesLeft>>
    BY DEF StartWithdraw, StartCall
<1> HIDE DEF c
<1>3. /\ call' \in [Processes -> CallRecord] /\ disturbed' \in BOOLEAN
      /\ call'[p].pc = "exists" /\ call'[p].op = "withdraw" /\ call'[p].record = k
      /\ call'[p].stage = 1 /\ (call'[p].alone => ~OthersWrite(p))
      /\ \A q \in Processes \ {p} : SameCall(call'[q], call[q]) /\ ~call'[q].alone
      /\ (disturbed \/ OthersWrite(p) => disturbed')
    <2>1. /\ call' \in [Processes -> CallRecord] /\ disturbed' \in BOOLEAN
          /\ SameCall(call'[p], c) /\ (call'[p].alone => ~OthersWrite(p))
          /\ \A q \in Processes \ {p} : SameCall(call'[q], call[q]) /\ ~call'[q].alone
          /\ (disturbed \/ OthersWrite(p) => disturbed')
        BY <1>1, <1>2, BeginsIsOne
    <2> QED
        BY <1>1, <2>1 DEF SameCall
<1> USE <1>2, <1>3
<1>4. TypeOK' /\ CallShape'
    BY StoreAssumption DEF TypeOK, CallShape, HasCopy, At, SameCall
<1>5. WritePart'
    <2>1. AloneIsSingle' /\ UndisturbedIsSingle'
        BY DEF WritePart, AloneIsSingle, UndisturbedIsSingle, Writes, OthersWrite, SameCall
    <2>2. WriterIsCurrent'
        BY DEF WritePart, WriterIsCurrent, Seeds, At, SameCall
    <2> QED
        BY <2>1, <2>2 DEF WritePart
<1>6. KeptPart'
    BY DEF KeptPart, CopyHasKept, SeedIsFirst, WithdrawalIsKept, HasCopy, Seeds, SameCall
<1>7. VerifyPart'
    BY DEF VerifyPart, BarredIsAhead, BadRemains, VerdictIsSound, WithdrawnNeverPasses,
        VerdictIsOfOneMoment, HasCopy, SameCall
<1>8. FilePart'
    BY IdleIsCall DEF FilePart, OpenIsEmpty, DamageHasCause, HasOpen, SameCall
<1> QED
    BY <1>4, <1>5, <1>6, <1>7, <1>8

LEMMA VerifyKeeps ==
    ASSUME IInv, NEW p \in Processes, NEW c \in Credentials, StartVerify(p, c)
    PROVE  IInv'
<1> USE DEF IInv
<1>0. c \in Records
    BY DEF Records
<1> DEFINE new == Begun("verify", c, c \in kept \/ SubjectOf[c] \in kept)
<1>1. /\ new \in CallRecord /\ new.pc = "exists" /\ new.op = "verify" /\ new.record = c
      /\ new.stage = 1 /\ (new.barred => c \in kept \/ SubjectOf[c] \in kept)
    <2>1. PICK b \in BOOLEAN : b = (c \in kept \/ SubjectOf[c] \in kept)
        OBVIOUS
    <2>2. new = [pc |-> "exists", op |-> "verify", record |-> c, stage |-> 1, copy |-> {},
                 alone |-> FALSE, barred |-> b, good |-> FALSE]
        BY <2>1 DEF Begun
    <2> QED
        <3>1. [pc |-> "exists", op |-> "verify", record |-> c, stage |-> 1, copy |-> {},
               alone |-> FALSE, barred |-> b, good |-> FALSE] \in CallRecord
            BY <1>0 DEF CallRecord
        <3>2. new.pc = "exists" /\ new.op = "verify" /\ new.record = c /\ new.stage = 1
            BY <2>2
        <3>3. new.barred = b
            BY <2>2
        <3> HIDE DEF new
        <3> QED
            BY <2>1, <2>2, <3>1, <3>2, <3>3
<1>2. /\ call' = [call EXCEPT ![p] = new] /\ call[p] = Idle
      /\ callsLeft' = callsLeft - 1 /\ callsLeft > 0
      /\ UNCHANGED <<file, verdict, kept, disturbed, clashed, crashesLeft>>
    BY DEF StartVerify, StartCall
<1> HIDE DEF new
<1>3. /\ call' \in [Processes -> CallRecord] /\ call'[p] = new /\ c \in Records
      /\ \A q \in Processes \ {p} : call'[q] = call[q]
    BY <1>1, <1>2 DEF TypeOK, Records
<1> USE <1>1, <1>2, <1>3
<1>4. TypeOK' /\ CallShape'
    BY StoreAssumption DEF TypeOK, CallShape, HasCopy, At
<1>5. WritePart'
    <2>1. AloneIsSingle' /\ UndisturbedIsSingle'
        BY DEF WritePart, AloneIsSingle, UndisturbedIsSingle, Writes, OthersWrite
    <2>2. WriterIsCurrent'
        BY DEF WritePart, WriterIsCurrent, Seeds, At
    <2> QED
        BY <2>1, <2>2 DEF WritePart
<1>6. KeptPart'
    BY DEF KeptPart, CopyHasKept, SeedIsFirst, WithdrawalIsKept, HasCopy, Seeds
<1>7. VerifyPart'
    BY DEF VerifyPart, BarredIsAhead, BadRemains, VerdictIsSound, WithdrawnNeverPasses,
        VerdictIsOfOneMoment, HasCopy
<1>8. FilePart'
    BY IdleIsCall DEF FilePart, OpenIsEmpty, DamageHasCause, HasOpen
<1> QED
    BY <1>4, <1>5, <1>6, <1>7, <1>8

\* The other steps of a call change nobody else's.
Alone(p) == \A q \in Processes \ {p} : call'[q] = call[q]

LEMMA GotoIs ==
    ASSUME TypeOK, NEW p \in Processes,
           NEW pc \in {"idle", "exists", "seedOpen", "seedWrite", "read", "open", "write"},
           Goto(p, pc)
    PROVE  /\ call' \in [Processes -> CallRecord] /\ Alone(p) /\ call'[p].pc = pc
           /\ call'[p].op = call[p].op /\ call'[p].record = call[p].record
           /\ call'[p].stage = call[p].stage /\ call'[p].copy = call[p].copy
           /\ call'[p].alone = call[p].alone /\ call'[p].barred = call[p].barred
           /\ call'[p].good = call[p].good
<1>1. call[p] \in CallRecord
    BY DEF TypeOK
<1>2. call'[p] = [call[p] EXCEPT !.pc = pc] /\ [call[p] EXCEPT !.pc = pc] \in CallRecord
    BY <1>1 DEF TypeOK, Goto, CallRecord
<1> QED
    BY <1>1, <1>2 DEF TypeOK, Goto, Alone, CallRecord

LEMMA ReturnIs ==
    ASSUME TypeOK, NEW p \in Processes,
           NEW result \in {"valid", "invalid", "done", "failed"}, Return(p, result)
    PROVE  /\ call' \in [Processes -> CallRecord] /\ Alone(p) /\ call'[p] = Idle
           /\ verdict' \in [Processes -> [result : {"none", "valid", "invalid", "done", "failed"},
                                          barred : BOOLEAN, good : BOOLEAN]]
           /\ verdict'[p] = [result |-> result, barred |-> call[p].barred, good |-> call[p].good]
           /\ \A q \in Processes \ {p} : verdict'[q] = verdict[q]
<1>1. call[p] \in CallRecord
    BY DEF TypeOK
<1>2. [result |-> result, barred |-> call[p].barred, good |-> call[p].good]
          \in [result : {"none", "valid", "invalid", "done", "failed"},
               barred : BOOLEAN, good : BOOLEAN]
    BY <1>1 DEF CallRecord
<1> QED
    BY <1>1, <1>2, IdleIsCall DEF TypeOK, Return, Alone

\* The first access of a call finds no file, or one.
LEMMA FileExistsKeeps ==
    ASSUME IInv, NEW p \in Processes, FileExists(p)
    PROVE  IInv'
<1> USE DEF IInv
<1>1. CASE file.state # "absent" \/ call[p].op = "withdraw"
    <2>1. PICK pc \in {"read", "seedOpen"} :
              /\ Goto(p, pc)
              /\ pc = "seedOpen" => file.state = "absent" /\ call[p].op = "withdraw"
        BY <1>1 DEF FileExists
    <2>2. /\ At(p, "exists")
          /\ UNCHANGED <<file, verdict, kept, disturbed, clashed, callsLeft, crashesLeft>>
        BY <1>1 DEF FileExists, bounds
    <2> USE <2>1, <2>2, GotoIs DEF Alone
    <2>3. /\ call' \in [Processes -> CallRecord] /\ Alone(p) /\ call'[p].pc = pc
          /\ call'[p].op = call[p].op /\ call'[p].record = call[p].record
          /\ call'[p].stage = call[p].stage /\ call'[p].copy = call[p].copy
          /\ call'[p].alone = call[p].alone /\ call'[p].barred = call[p].barred
          /\ call'[p].good = call[p].good
        OBVIOUS
    <2>4. TypeOK' /\ CallShape'
        BY <2>3 DEF TypeOK, CallShape, HasCopy, At
    <2>5. WritePart'
        <3>1. AloneIsSingle' /\ UndisturbedIsSingle'
            BY <2>3 DEF WritePart, AloneIsSingle, UndisturbedIsSingle, Writes, OthersWrite, At
        <3>2. WriterIsCurrent'
            BY <2>3 DEF WritePart, WriterIsCurrent, Seeds, At, KeptPart, SeedIsFirst
        <3> QED
            BY <3>1, <3>2 DEF WritePart
    <2>6. KeptPart'
        BY <2>3 DEF KeptPart, CopyHasKept, SeedIsFirst, WithdrawalIsKept, HasCopy, Seeds, At
    <2>7. VerifyPart'
        BY <2>3 DEF VerifyPart, BarredIsAhead, BadRemains, VerdictIsSound, WithdrawnNeverPasses,
            VerdictIsOfOneMoment, HasCopy, At
    <2>8. FilePart'
        BY <2>3 DEF FilePart, OpenIsEmpty, DamageHasCause, HasOpen, At
    <2> QED
        BY <2>4, <2>5, <2>6, <2>7, <2>8
<1>2. CASE file.state = "absent" /\ call[p].op # "withdraw"
    <2> DEFINE c == [call[p] EXCEPT !.pc = "seedOpen"]
    <2>1. /\ BeginsToWrite(p, c) /\ At(p, "exists")
          /\ UNCHANGED <<file, verdict, kept, clashed, callsLeft, crashesLeft>>
        BY <1>2 DEF FileExists, bounds
    <2>2. /\ c \in CallRecord /\ c.pc = "seedOpen" /\ c.op = call[p].op
          /\ c.record = call[p].record /\ c.stage = call[p].stage
          /\ c.barred = call[p].barred /\ c.good = call[p].good
        BY DEF TypeOK, CallRecord
    <2> HIDE DEF c
    <2>3. /\ call' \in [Processes -> CallRecord] /\ disturbed' \in BOOLEAN
          /\ SameCall(call'[p], c) /\ (call'[p].alone => ~OthersWrite(p))
          /\ \A q \in Processes \ {p} : SameCall(call'[q], call[q]) /\ ~call'[q].alone
          /\ (disturbed \/ OthersWrite(p) => disturbed')
        BY <2>1, <2>2, BeginsIsOne
    <2>4. /\ call'[p].pc = "seedOpen" /\ call'[p].op = call[p].op
          /\ call'[p].record = call[p].record /\ call'[p].stage = call[p].stage
          /\ call'[p].barred = call[p].barred /\ call'[p].good = call[p].good
        BY <2>2, <2>3 DEF SameCall
    <2> USE <1>2, <2>1, <2>3, <2>4
    <2>5. TypeOK' /\ CallShape'
        BY DEF TypeOK, CallShape, HasCopy, At, SameCall
    <2>6. WritePart'
        <3>1. AloneIsSingle' /\ UndisturbedIsSingle'
            BY DEF WritePart, AloneIsSingle, UndisturbedIsSingle, Writes, OthersWrite, SameCall, At
        <3>2. WriterIsCurrent'
            BY DEF WritePart, WriterIsCurrent, Seeds, At, KeptPart, SeedIsFirst, SameCall
        <3> QED
            BY <3>1, <3>2 DEF WritePart
    <2>7. KeptPart'
        BY DEF KeptPart, CopyHasKept, SeedIsFirst, WithdrawalIsKept, HasCopy, Seeds, At, SameCall
    <2>8. VerifyPart'
        BY DEF VerifyPart, BarredIsAhead, BadRemains, VerdictIsSound, WithdrawnNeverPasses,
            VerdictIsOfOneMoment, HasCopy, At, SameCall
    <2>9. FilePart'
        BY DEF FilePart, OpenIsEmpty, DamageHasCause, HasOpen, At, SameCall
    <2> QED
        BY <2>5, <2>6, <2>7, <2>8, <2>9
<1> QED
    BY <1>1, <1>2

\* The file is opened to be written.
LEMMA OpenKeeps ==
    ASSUME IInv, NEW p \in Processes, NEW from, NEW to,
           \/ from = "seedOpen" /\ to = "seedWrite"
           \/ from = "open" /\ to = "write",
           Open(p, from, to)
    PROVE  IInv'
<1> USE DEF IInv
<1>1. /\ At(p, from) /\ Goto(p, to) /\ file' = Unreadable("empty")
      /\ clashed' = (clashed \/ \E q \in Processes : HasOpen(q))
      /\ UNCHANGED <<verdict, kept, disturbed, callsLeft, crashesLeft>>
    BY DEF Open, bounds
<1>2. /\ call' \in [Processes -> CallRecord] /\ Alone(p) /\ call'[p].pc = to
      /\ call'[p].op = call[p].op /\ call'[p].record = call[p].record
      /\ call'[p].stage = call[p].stage /\ call'[p].copy = call[p].copy
      /\ call'[p].alone = call[p].alone /\ call'[p].barred = call[p].barred
      /\ call'[p].good = call[p].good
    BY <1>1, GotoIs
<1>3. /\ file' \in [state : {"absent", "empty", "garbled", "valid"}, withdrawn : SUBSET Records]
      /\ file'.state = "empty" /\ clashed' \in BOOLEAN
      /\ ~clashed' => ~clashed /\ \A q \in Processes : ~HasOpen(q)
      /\ Seeds(p) => kept = {}
    BY <1>1 DEF Unreadable, TypeOK, KeptPart, SeedIsFirst
<1> USE <1>2, <1>3 DEF Alone
<1>4. TypeOK' /\ CallShape'
    BY <1>1 DEF TypeOK, CallShape, HasCopy, At
<1>5. WritePart'
    <2>1. AloneIsSingle' /\ UndisturbedIsSingle'
        BY <1>1 DEF WritePart, AloneIsSingle, UndisturbedIsSingle, Writes, OthersWrite, At
    <2>2. WriterIsCurrent'
        BY <1>1 DEF WritePart, WriterIsCurrent, UndisturbedIsSingle, CallShape, HasCopy, Seeds, Writes, At
    <2> QED
        BY <2>1, <2>2 DEF WritePart
<1>6. KeptPart'
    BY <1>1 DEF KeptPart, CopyHasKept, SeedIsFirst, WithdrawalIsKept, HasCopy, Seeds, At
<1>7. VerifyPart'
    BY <1>1 DEF VerifyPart, BarredIsAhead, BadRemains, VerdictIsSound, WithdrawnNeverPasses,
        VerdictIsOfOneMoment, HasCopy, At
<1>8. FilePart'
    BY <1>1 DEF FilePart, OpenIsEmpty, DamageHasCause, HasOpen, At
<1> QED
    BY <1>4, <1>5, <1>6, <1>7, <1>8

\* The seed is written.
LEMMA WriteSeedKeeps ==
    ASSUME IInv, NEW p \in Processes, WriteSeed(p)
    PROVE  IInv'
<1> USE DEF IInv
<1>1. /\ At(p, "seedWrite") /\ Goto(p, "read") /\ Write({})
      /\ UNCHANGED <<verdict, kept, disturbed, clashed, callsLeft, crashesLeft>>
    BY DEF WriteSeed, ghosts, bounds
<1>2. /\ call' \in [Processes -> CallRecord] /\ Alone(p) /\ call'[p].pc = "read"
      /\ call'[p].op = call[p].op /\ call'[p].record = call[p].record
      /\ call'[p].stage = call[p].stage /\ call'[p].copy = call[p].copy
      /\ call'[p].alone = call[p].alone /\ call'[p].barred = call[p].barred
      /\ call'[p].good = call[p].good
    BY <1>1, GotoIs
<1>3. /\ file' \in [state : {"absent", "empty", "garbled", "valid"}, withdrawn : SUBSET Records]
      /\ file'.state \in {"valid", "garbled"}
      /\ file'.state = "garbled" => file.state \in {"valid", "garbled"}
      /\ kept = {}
    BY <1>1 DEF Write, Snapshot, Unreadable, KeptPart, SeedIsFirst, Seeds, At
<1> USE <1>1, <1>2, <1>3 DEF Alone
<1>4. TypeOK' /\ CallShape'
    BY DEF TypeOK, CallShape, HasCopy, At
<1>5. WritePart'
    <2>1. AloneIsSingle' /\ UndisturbedIsSingle'
        BY DEF WritePart, AloneIsSingle, UndisturbedIsSingle, Writes, OthersWrite, At
    <2>2. WriterIsCurrent'
        BY DEF WritePart, WriterIsCurrent, UndisturbedIsSingle, CallShape, HasCopy, Seeds, Writes, At
    <2> QED
        BY <2>1, <2>2 DEF WritePart
<1>6. KeptPart'
    BY DEF KeptPart, CopyHasKept, SeedIsFirst, WithdrawalIsKept, HasCopy, Seeds, At
<1>7. VerifyPart'
    BY DEF VerifyPart, BarredIsAhead, BadRemains, VerdictIsSound, WithdrawnNeverPasses,
        VerdictIsOfOneMoment, HasCopy, At, WritePart, WriterIsCurrent, Seeds
<1>8. FilePart'
    BY DEF FilePart, OpenIsEmpty, DamageHasCause, HasOpen, At
<1> QED
    BY <1>4, <1>5, <1>6, <1>7, <1>8

\* A call returns, and the file stays as it is.
LEMMA ReturnKeeps ==
    ASSUME IInv, NEW p \in Processes, At(p, "read"),
           NEW result \in {"valid", "invalid", "done", "failed"}, Return(p, result),
           result = "valid" =>
               /\ ~call[p].barred
               /\ ~disturbed => call[p].good,
           UNCHANGED <<file, ghosts, bounds>>
    PROVE  IInv'
<1> USE DEF IInv
<1>1. UNCHANGED <<file, kept, disturbed, clashed, callsLeft, crashesLeft>>
    BY DEF ghosts, bounds
<1>2. /\ call' \in [Processes -> CallRecord] /\ Alone(p) /\ call'[p] = Idle
      /\ verdict' \in [Processes -> [result : {"none", "valid", "invalid", "done", "failed"},
                                     barred : BOOLEAN, good : BOOLEAN]]
      /\ verdict'[p] = [result |-> result, barred |-> call[p].barred, good |-> call[p].good]
      /\ \A q \in Processes \ {p} : verdict'[q] = verdict[q]
    BY ReturnIs
<1>3. /\ verdict'[p].result = result /\ verdict'[p].barred = call[p].barred
      /\ verdict'[p].good = call[p].good
    BY <1>2
<1> USE <1>1, <1>2, <1>3, IdleIsCall DEF Alone
<1>4. TypeOK' /\ CallShape'
    <2>1. TypeOK'
        BY DEF TypeOK
    <2>2. CallShape'
        BY DEF CallShape, HasCopy, At
    <2> QED
        BY <2>1, <2>2
<1>5. WritePart'
    <2>1. AloneIsSingle' /\ UndisturbedIsSingle'
        BY DEF WritePart, AloneIsSingle, UndisturbedIsSingle, Writes, OthersWrite, At
    <2>2. WriterIsCurrent'
        BY DEF WritePart, WriterIsCurrent, Seeds, At
    <2> QED
        BY <2>1, <2>2 DEF WritePart
<1>6. KeptPart'
    BY DEF KeptPart, CopyHasKept, SeedIsFirst, WithdrawalIsKept, HasCopy, Seeds, At
<1>7. VerifyPart'
    <2>1. BarredIsAhead' /\ BadRemains'
        BY DEF VerifyPart, BarredIsAhead, BadRemains, HasCopy, At
    <2>2. VerdictIsSound'
        BY DEF VerifyPart, VerdictIsSound, WithdrawnNeverPasses, VerdictIsOfOneMoment
    <2> QED
        BY <2>1, <2>2 DEF VerifyPart
<1>8. FilePart'
    BY DEF FilePart, OpenIsEmpty, DamageHasCause, HasOpen, At
<1> QED
    BY <1>4, <1>5, <1>6, <1>7, <1>8

\* A call that has read its first record goes on to the second, or to write.
AtSecond(c, k) == [c EXCEPT !.pc = "exists", !.record = k, !.stage = 2]
GoneOn(c, k, b) == [c EXCEPT !.pc = "exists", !.record = k, !.stage = 2, !.good = b]

LEMMA GoesOnIs ==
    ASSUME TypeOK, NEW p \in Processes, NEW k \in Records, NEW b \in BOOLEAN,
           call' = [call EXCEPT ![p] = GoneOn(call[p], k, b)]
    PROVE  /\ call' \in [Processes -> CallRecord] /\ Alone(p)
           /\ call'[p].pc = "exists" /\ call'[p].op = call[p].op /\ call'[p].record = k
           /\ call'[p].stage = 2 /\ call'[p].alone = call[p].alone
           /\ call'[p].barred = call[p].barred /\ call'[p].good = b
<1> DEFINE c0 == call[p]
<1> DEFINE c1 == [c0 EXCEPT !.pc = "exists"]
<1> DEFINE c2 == [c1 EXCEPT !.record = k]
<1> DEFINE c3 == [c2 EXCEPT !.stage = 2]
<1> DEFINE c4 == [c3 EXCEPT !.good = b]
<1>0. c0 \in CallRecord
    BY DEF TypeOK
<1>5. call' = [call EXCEPT ![p] = c4]
    BY DEF GoneOn
<1> HIDE DEF c0
<1>1. /\ c1 \in CallRecord /\ c1.pc = "exists" /\ c1.op = c0.op
      /\ c1.alone = c0.alone /\ c1.barred = c0.barred
    BY <1>0 DEF CallRecord
<1> HIDE DEF c1
<1>2. /\ c2 \in CallRecord /\ c2.pc = "exists" /\ c2.op = c0.op /\ c2.record = k
      /\ c2.alone = c0.alone /\ c2.barred = c0.barred
    BY <1>1 DEF CallRecord
<1> HIDE DEF c2
<1>3. /\ c3 \in CallRecord /\ c3.pc = "exists" /\ c3.op = c0.op /\ c3.record = k /\ c3.stage = 2
      /\ c3.alone = c0.alone /\ c3.barred = c0.barred
    BY <1>2 DEF CallRecord
<1> HIDE DEF c3
<1>4. /\ c4 \in CallRecord /\ c4.pc = "exists" /\ c4.op = c0.op /\ c4.record = k /\ c4.stage = 2
      /\ c4.alone = c0.alone /\ c4.barred = c0.barred /\ c4.good = b
    BY <1>3 DEF CallRecord
<1> HIDE DEF c4
<1> QED
    BY <1>4, <1>5 DEF TypeOK, Alone, c0

LEMMA GoesOnWithoutVerdict ==
    ASSUME NEW c \in CallRecord, NEW k \in Records
    PROVE  AtSecond(c, k) = GoneOn(c, k, c.good)
<1> DEFINE c1 == [c EXCEPT !.pc = "exists"]
<1> DEFINE c2 == [c1 EXCEPT !.record = k]
<1> DEFINE c3 == [c2 EXCEPT !.stage = 2]
<1> DEFINE c4 == [c3 EXCEPT !.good = c.good]
<1>5. GoneOn(c, k, c.good) = c4 /\ AtSecond(c, k) = c3
    BY DEF GoneOn, AtSecond
<1>1. c1 \in CallRecord /\ c1.good = c.good
    BY DEF CallRecord
<1> HIDE DEF c1
<1>2. c2 \in CallRecord /\ c2.good = c.good
    BY <1>1 DEF CallRecord
<1> HIDE DEF c2
<1>3. c3 \in CallRecord /\ c3.good = c.good
    BY <1>2 DEF CallRecord
<1> HIDE DEF c3
<1>4. c4 = c3
    BY <1>3 DEF CallRecord
<1> HIDE DEF c4
<1> QED
    BY <1>4, <1>5

LEMMA GoesOnKeeps ==
    ASSUME IInv, NEW p \in Processes, At(p, "read"), file.state = "valid",
           NEW k \in Records, NEW b \in BOOLEAN,
           call' = [call EXCEPT ![p] = GoneOn(call[p], k, b)],
           call[p].op = "verify" /\ call[p].barred => k \in kept,
           call[p].op = "verify" /\ ~b => k \in file.withdrawn,
           UNCHANGED <<file, verdict, ghosts, bounds>>
    PROVE  IInv'
<1> USE DEF IInv
<1>1. UNCHANGED <<file, verdict, kept, disturbed, clashed, callsLeft, crashesLeft>>
    BY DEF ghosts, bounds
<1>2. /\ call' \in [Processes -> CallRecord] /\ Alone(p)
      /\ call'[p].pc = "exists" /\ call'[p].op = call[p].op /\ call'[p].record = k
      /\ call'[p].stage = 2 /\ call'[p].alone = call[p].alone
      /\ call'[p].barred = call[p].barred /\ call'[p].good = b
    BY GoesOnIs
<1> USE <1>1, <1>2 DEF Alone
<1>3. TypeOK'
    BY DEF TypeOK
<1>4. CallShape'
    BY DEF CallShape, HasCopy, At
<1>5. WritePart'
    <2>1. AloneIsSingle' /\ UndisturbedIsSingle'
        BY DEF WritePart, AloneIsSingle, UndisturbedIsSingle, Writes, OthersWrite, At
    <2>2. WriterIsCurrent'
        BY DEF WritePart, WriterIsCurrent, Seeds, At
    <2> QED
        BY <2>1, <2>2 DEF WritePart
<1>6. KeptPart'
    BY DEF KeptPart, CopyHasKept, SeedIsFirst, WithdrawalIsKept, HasCopy, Seeds, At
<1>7. VerifyPart'
    <2>1. BarredIsAhead' /\ VerdictIsSound'
        BY DEF VerifyPart, BarredIsAhead, VerdictIsSound, WithdrawnNeverPasses, VerdictIsOfOneMoment
    <2>2. BadRemains'
        <3>1. ~disturbed => \A q \in Processes : HasCopy(q) => call[q].copy = file.withdrawn
            BY DEF WritePart, WriterIsCurrent, HasCopy, Snapshot, At
        <3> QED
            BY <3>1 DEF VerifyPart, BadRemains, HasCopy, At
    <2> QED
        BY <2>1, <2>2 DEF VerifyPart
<1>8. FilePart'
    BY DEF FilePart, OpenIsEmpty, DamageHasCause, HasOpen, At
<1> QED
    BY <1>3, <1>4, <1>5, <1>6, <1>7, <1>8

\* What a call does with what it has read.
LEMMA ReadKeeps ==
    ASSUME IInv, NEW p \in Processes,
           \/ ReadFails(p) \/ ReadCredential(p) \/ ReadSubject(p) \/ ReadRecord(p)
    PROVE  IInv'
<1> DEFINE k == call[p].record
<1>1. CASE ReadFails(p)
    BY <1>1, ReturnKeeps DEF ReadFails
<1>2. CASE ReadCredential(p)
    <2>1. /\ k \in Credentials /\ SubjectOf[k] \in Records
          /\ call[p].barred => k \in kept \/ SubjectOf[k] \in kept
          /\ kept \subseteq file.withdrawn
        BY <1>2, StoreAssumption DEF ReadCredential, IInv, CallShape, VerifyPart, BarredIsAhead,
            KeptPart, WithdrawalIsKept, Records
    <2>2. CASE k \in file.withdrawn
        BY <1>2, <2>2, ReturnKeeps DEF ReadCredential
    <2>3. CASE k \notin file.withdrawn
        <3> DEFINE b == SubjectOf[k] \notin file.withdrawn
        <3>1. /\ call' = [call EXCEPT ![p] = GoneOn(call[p], SubjectOf[k], b)]
              /\ At(p, "read") /\ file.state = "valid" /\ UNCHANGED verdict
              /\ UNCHANGED <<file, ghosts, bounds>>
            BY <1>2, <2>3 DEF ReadCredential, GoneOn
        <3>2. /\ b \in BOOLEAN /\ (~b => SubjectOf[k] \in file.withdrawn)
              /\ call[p].barred => SubjectOf[k] \in kept
            BY <2>1, <2>3
        <3> HIDE DEF b
        <3> QED
            BY <2>1, <3>1, <3>2, GoesOnKeeps
    <2> QED
        BY <2>2, <2>3
<1>3. CASE ReadSubject(p)
    <2>1. /\ call[p].barred => k \in file.withdrawn
          /\ ~disturbed /\ ~call[p].good => k \in file.withdrawn
        BY <1>3 DEF ReadSubject, IInv, VerifyPart, BarredIsAhead, BadRemains, KeptPart, WithdrawalIsKept
    <2>2. At(p, "read") /\ UNCHANGED <<file, ghosts, bounds>>
        BY <1>3 DEF ReadSubject
    <2>3. CASE k \in file.withdrawn
        <3>1. Return(p, "invalid")
            BY <1>3, <2>3 DEF ReadSubject
        <3> QED
            BY <2>2, <3>1, ReturnKeeps
    <2>4. CASE k \notin file.withdrawn
        <3>1. Return(p, "valid")
            BY <1>3, <2>4 DEF ReadSubject
        <3> QED
            BY <2>1, <2>2, <2>4, <3>1, ReturnKeeps
    <2> QED
        BY <2>3, <2>4
<1>4. CASE ReadRecord(p)
    <2>1. call' = [call EXCEPT ![p] = GoneOn(call[p], k, call[p].good)]
        <3>1. call[p] \in CallRecord /\ k \in Records
            BY <1>4 DEF ReadRecord, IInv, TypeOK, CallShape, At
        <3> QED
            <4>1. call' = [call EXCEPT ![p] = AtSecond(call[p], k)]
                BY <1>4 DEF ReadRecord, NextAccess, AtSecond
            <4>2. AtSecond(call[p], k) = GoneOn(call[p], k, call[p].good)
                BY <3>1, GoesOnWithoutVerdict
            <4> QED
                BY <4>1, <4>2
    <2>2. /\ At(p, "read") /\ file.state = "valid" /\ call[p].op = "withdraw"
          /\ UNCHANGED <<file, verdict, ghosts, bounds>>
        BY <1>4 DEF ReadRecord, NextAccess, ghosts, bounds
    <2>3. k \in Records /\ call[p].good \in BOOLEAN
        BY <2>2 DEF IInv, TypeOK, CallShape, CallRecord, At
    <2> QED
        BY <2>1, <2>2, <2>3, GoesOnKeeps
<1> QED
    BY <1>1, <1>2, <1>3, <1>4

LEMMA ReadForPutKeeps ==
    ASSUME IInv, NEW p \in Processes, ReadForPut(p)
    PROVE  IInv'
<1> USE DEF IInv
<1> DEFINE c == call[p]
<1> DEFINE c1 == [c EXCEPT !.pc = "open"]
<1> DEFINE c2 == [c1 EXCEPT !.copy = file.withdrawn]
<1>1. /\ At(p, "read") /\ c.op = "withdraw" /\ c.stage = 2 /\ file.state = "valid"
      /\ UNCHANGED <<file, verdict, kept, disturbed, clashed, callsLeft, crashesLeft>>
      /\ call' = [call EXCEPT ![p] = c2]
      /\ c \in CallRecord /\ file.withdrawn \in SUBSET Records
    BY DEF ReadForPut, ghosts, bounds, TypeOK
<1>2. /\ c1 \in CallRecord /\ c1.pc = "open" /\ c1.op = c.op /\ c1.record = c.record
      /\ c1.stage = c.stage /\ c1.alone = c.alone
    BY <1>1 DEF CallRecord
<1> HIDE DEF c1
<1>3. /\ c2 \in CallRecord /\ c2.pc = "open" /\ c2.op = c.op /\ c2.record = c.record
      /\ c2.stage = c.stage /\ c2.alone = c.alone /\ c2.copy = file.withdrawn
    BY <1>1, <1>2 DEF CallRecord
<1> HIDE DEF c2
<1>4. /\ call' \in [Processes -> CallRecord] /\ call'[p] = c2
      /\ \A q \in Processes \ {p} : call'[q] = call[q]
    BY <1>1, <1>3 DEF TypeOK
<1> USE <1>1, <1>3, <1>4
<1>5. TypeOK'
    BY DEF TypeOK
<1>6. CallShape'
    BY DEF CallShape, HasCopy, At
<1>7. WritePart'
    <2>1. AloneIsSingle' /\ UndisturbedIsSingle'
        BY DEF WritePart, AloneIsSingle, UndisturbedIsSingle, Writes, OthersWrite, At
    <2>2. WriterIsCurrent'
        <3>1. file = Snapshot(file.withdrawn)
            BY DEF TypeOK, Snapshot
        <3> QED
            BY <3>1 DEF WritePart, WriterIsCurrent, Seeds, At
    <2> QED
        BY <2>1, <2>2 DEF WritePart
<1>8. KeptPart'
    BY DEF KeptPart, CopyHasKept, SeedIsFirst, WithdrawalIsKept, HasCopy, Seeds, At
<1>9. VerifyPart'
    <2>1. BarredIsAhead' /\ VerdictIsSound'
        BY DEF VerifyPart, BarredIsAhead, VerdictIsSound, WithdrawnNeverPasses, VerdictIsOfOneMoment
    <2>2. BadRemains'
        BY DEF VerifyPart, BadRemains, HasCopy, At
    <2> QED
        BY <2>1, <2>2 DEF VerifyPart
<1>10. FilePart'
    BY DEF FilePart, OpenIsEmpty, DamageHasCause, HasOpen, At
<1> QED
    BY <1>5, <1>6, <1>7, <1>8, <1>9, <1>10

\* The record is put, and the withdrawal returns.
LEMMA WriteRecordKeeps ==
    ASSUME IInv, NEW p \in Processes, WriteRecord(p)
    PROVE  IInv'
<1> USE DEF IInv
<1> DEFINE new == call[p].copy \cup {call[p].record}
<1>1. /\ At(p, "write") /\ Write(new) /\ Return(p, "done")
      /\ kept' = IF call[p].alone THEN kept \cup {call[p].record} ELSE kept
      /\ UNCHANGED <<disturbed, clashed, callsLeft, crashesLeft>>
    BY DEF WriteRecord, bounds
<1>2. /\ call[p] \in CallRecord /\ call[p].record \in Records /\ call[p].op = "withdraw"
      /\ kept \subseteq call[p].copy /\ Writes(p)
      /\ call[p].alone => \A q \in Processes \ {p} : ~Writes(q)
    BY <1>1 DEF TypeOK, CallShape, KeptPart, CopyHasKept, HasCopy, At, WritePart, AloneIsSingle,
        OthersWrite, Writes
<1>3. new \in SUBSET Records /\ kept' \subseteq new /\ kept \subseteq kept'
    BY <1>1, <1>2 DEF CallRecord
<1> HIDE DEF new
<1>4. /\ file' \in [state : {"absent", "empty", "garbled", "valid"}, withdrawn : SUBSET Records]
      /\ \/ file'.state = "valid" /\ file'.withdrawn = new
         \/ file'.state = "garbled" /\ file.state \in {"valid", "garbled"}
    BY <1>1, <1>3 DEF Write, Snapshot, Unreadable
<1>5. /\ call' \in [Processes -> CallRecord] /\ Alone(p) /\ call'[p] = Idle
      /\ verdict' \in [Processes -> [result : {"none", "valid", "invalid", "done", "failed"},
                                     barred : BOOLEAN, good : BOOLEAN]]
      /\ verdict'[p] = [result |-> "done", barred |-> call[p].barred, good |-> call[p].good]
      /\ \A q \in Processes \ {p} : verdict'[q] = verdict[q]
    BY <1>1, ReturnIs
<1>6. verdict'[p].result = "done"
    BY <1>5
<1>7. \A q \in Processes : Seeds(q) \/ HasCopy(q) => Writes(q)
    BY DEF CallShape, Seeds, HasCopy, Writes
<1> USE <1>2, <1>3, <1>4, <1>5, <1>6, <1>7, IdleIsCall DEF Alone
<1>8. TypeOK' /\ CallShape'
    <2>1. TypeOK'
        BY <1>1 DEF TypeOK
    <2>2. CallShape'
        BY DEF CallShape, HasCopy, At
    <2> QED
        BY <2>1, <2>2
<1>9. WritePart'
    <2>1. AloneIsSingle' /\ UndisturbedIsSingle'
        BY <1>1 DEF WritePart, AloneIsSingle, UndisturbedIsSingle, Writes, OthersWrite, At
    <2>2. WriterIsCurrent'
        BY <1>1 DEF WritePart, WriterIsCurrent, UndisturbedIsSingle, Seeds, HasCopy, At
    <2> QED
        BY <2>1, <2>2 DEF WritePart
<1>10. KeptPart'
    <2>1. \A q \in Processes \ {p} : Seeds(q) \/ HasCopy(q) => kept' = kept
        BY <1>1
    <2> QED
        BY <2>1 DEF KeptPart, CopyHasKept, SeedIsFirst, WithdrawalIsKept, HasCopy, Seeds, At
<1>11. VerifyPart'
    <2>1. BarredIsAhead' /\ VerdictIsSound'
        BY <1>1 DEF VerifyPart, BarredIsAhead, VerdictIsSound, WithdrawnNeverPasses, VerdictIsOfOneMoment
    <2>2. BadRemains'
        BY <1>1 DEF VerifyPart, BadRemains, HasCopy, At, new
    <2> QED
        BY <2>1, <2>2 DEF VerifyPart
<1>12. FilePart'
    BY <1>1 DEF FilePart, OpenIsEmpty, DamageHasCause, HasOpen, At
<1> QED
    BY <1>8, <1>9, <1>10, <1>11, <1>12

LEMMA CrashKeeps == IInv /\ Crash => IInv'
<1> SUFFICES ASSUME IInv, Crash PROVE IInv'
    OBVIOUS
<1> USE DEF IInv, Crash
<1>1. /\ UNCHANGED <<file, kept, disturbed, clashed, callsLeft>>
      /\ crashesLeft > 0 /\ crashesLeft' = crashesLeft - 1
      /\ \A p \in Processes : call'[p] = Idle
      /\ \A p \in Processes : verdict'[p].result = "none"
    BY DEF ghosts, NoVerdict
<1> USE <1>1, IdleIsCall
<1>2. TypeOK'
    BY StoreAssumption DEF TypeOK, NoVerdict
<1>3. CallShape' /\ WritePart'
    BY DEF CallShape, WritePart, AloneIsSingle, UndisturbedIsSingle, WriterIsCurrent, HasCopy,
        Writes, Seeds, At
<1>4. KeptPart'
    BY DEF KeptPart, CopyHasKept, SeedIsFirst, WithdrawalIsKept, HasCopy, Seeds
<1>5. VerifyPart'
    BY DEF VerifyPart, BarredIsAhead, BadRemains, VerdictIsSound, WithdrawnNeverPasses,
        VerdictIsOfOneMoment
<1>6. FilePart'
    <2>1. crashesLeft' < MaxCrashes
        BY StoreAssumption DEF TypeOK
    <2>2. \A p \in Processes : ~HasOpen(p)'
        BY DEF HasOpen
    <2> QED
        BY <2>1, <2>2 DEF FilePart, OpenIsEmpty, DamageHasCause
<1> QED
    BY <1>2, <1>3, <1>4, <1>5, <1>6

-----------------------------------------------------------------------------
(* The theorems.                                                           *)

LEMMA NextKeeps == IInv /\ [Next]_vars => IInv'
<1> SUFFICES ASSUME IInv, [Next]_vars PROVE IInv'
    OBVIOUS
<1>1. CASE \E p \in Processes, k \in Records : StartWithdraw(p, k)
    BY <1>1, WithdrawKeeps
<1>2. CASE \E p \in Processes, c \in Credentials : StartVerify(p, c)
    BY <1>2, VerifyKeeps
<1>3. CASE \E p \in Processes : Access(p)
    <2>1. PICK p \in Processes : Access(p)
        BY <1>3
    <2>2. CASE FileExists(p)
        BY <2>2, FileExistsKeeps
    <2>3. CASE Open(p, "seedOpen", "seedWrite") \/ Open(p, "open", "write")
        BY <2>3, OpenKeeps
    <2>4. CASE WriteSeed(p)
        BY <2>4, WriteSeedKeeps
    <2>5. CASE ReadFails(p) \/ ReadCredential(p) \/ ReadSubject(p) \/ ReadRecord(p)
        BY <2>5, ReadKeeps
    <2>6. CASE ReadForPut(p)
        BY <2>6, ReadForPutKeeps
    <2>7. CASE WriteRecord(p)
        BY <2>7, WriteRecordKeeps
    <2> QED
        BY <2>1, <2>2, <2>3, <2>4, <2>5, <2>6, <2>7 DEF Access
<1>4. CASE Crash
    BY <1>4, CrashKeeps
<1>5. CASE UNCHANGED vars
    BY <1>5 DEF IInv, vars, TypeOK, CallShape, WritePart, AloneIsSingle, UndisturbedIsSingle,
        WriterIsCurrent, KeptPart, CopyHasKept, SeedIsFirst, WithdrawalIsKept, VerifyPart,
        BarredIsAhead, BadRemains, VerdictIsSound, WithdrawnNeverPasses, VerdictIsOfOneMoment,
        FilePart, OpenIsEmpty, DamageHasCause, HasCopy, Writes, OthersWrite, Seeds, HasOpen, At
<1> QED
    BY <1>1, <1>2, <1>3, <1>4, <1>5 DEF Next

LEMMA Invariant == Spec => []IInv
BY InitHolds, NextKeeps, PTL DEF Spec

\* The store is always well typed.
THEOREM StoreTypeCorrect == Spec => []TypeOK
<1>1. IInv => TypeOK
    BY DEF IInv
<1> QED
    BY <1>1, Invariant, PTL

\* A freeze or a revocation that no other write overlapped is in the file
\* whenever the file can be read: no call that overlaps another later, and no
\* crash, loses it (putIdentity, putCredential of aip/file-store.ts).
THEOREM UndisturbedWithdrawalIsKept == Spec => []WithdrawalIsKept
<1>1. IInv => WithdrawalIsKept
    BY DEF IInv, KeptPart
<1> QED
    BY <1>1, Invariant, PTL

\* verifyCredential does not accept what was withdrawn before it began, and
\* without overlapping writes what it accepts was good at one moment, though it
\* reads the credential and its subject at two.
THEOREM VerificationIsSound == Spec => []VerdictIsSound
<1>1. IInv => VerdictIsSound
    BY DEF IInv, VerifyPart
<1> QED
    BY <1>1, Invariant, PTL

\* The file is only empty during a write or after a crash, and only garbled if
\* two writes had it open together.
THEOREM DamageAlwaysHasCause == Spec => []DamageHasCause
<1>1. IInv => DamageHasCause
    BY DEF IInv, FilePart
<1> QED
    BY <1>1, Invariant, PTL

=============================================================================

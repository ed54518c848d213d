---------------------------- MODULE IdentityStore ----------------------------
(***************************************************************************)
(* The identities and credentials of AIP (backend/aip/service.ts) in the   *)
(* snapshot file of their JSON store (backend/aip/file-store.ts).          *)
(*                                                                         *)
(* Every access of the store reads the whole file and parses it; a put     *)
(* writes the whole file back.  The first access of a store that has no    *)
(* file writes the seed, even if it only wants to read.  Each of these is  *)
(* a call of node:fs/promises that is awaited, so that calls interleave    *)
(* between any two of them, and nothing takes a lock.  The JSON stores of  *)
(* the other services (settlements, outputs, and everything else in the    *)
(* "durable" mode) are written in the same way.                            *)
(***************************************************************************)
EXTENDS Integers, FiniteSets

CONSTANTS
  Dids,         \* the identities
  Credentials,  \* the credentials
  SubjectOf,    \* SubjectOf[c]: the identity that credential c is about
  Processes,    \* the calls that may be in progress at a time
  MaxCalls,     \* bound on the calls
  MaxCrashes    \* bound on the crashes of the process

Records == Dids \cup Credentials

ASSUME StoreAssumption ==
  /\ Dids \cap Credentials = {}
  /\ SubjectOf \in [Credentials -> Dids]
  /\ MaxCalls \in Nat
  /\ MaxCrashes \in Nat

VARIABLES
  file,         \* the snapshot file: its state and the withdrawn records in it
  call,         \* the calls in progress
  verdict,      \* what the last call of each process returned
  kept,         \* the records whose withdrawal returned, undisturbed
  disturbed,    \* whether two calls that write were ever under way together
  clashed,      \* whether two of them ever had the file open together
  callsLeft, crashesLeft

vars == <<file, call, verdict, kept, disturbed, clashed, callsLeft, crashesLeft>>
ghosts == <<kept, disturbed, clashed>>
bounds == <<callsLeft, crashesLeft>>

\* A record is withdrawn when its identity is frozen or its credential revoked.
Snapshot(withdrawn) == [state |-> "valid", withdrawn |-> withdrawn]
Unreadable(state) == [state |-> state, withdrawn |-> {}]

Idle ==
  [pc |-> "idle", op |-> "none", record |-> "none", stage |-> 0, copy |-> {},
   alone |-> FALSE, barred |-> FALSE, good |-> FALSE]

\* A call that has begun: its first access is that of record k.
Begun(op, k, barred) ==
  [pc |-> "exists", op |-> op, record |-> k, stage |-> 1, copy |-> {},
   alone |-> FALSE, barred |-> barred, good |-> FALSE]

CallRecord ==
  [pc : {"idle", "exists", "seedOpen", "seedWrite", "read", "open", "write"},
   op : {"none", "withdraw", "verify"}, record : Records \cup {"none"}, stage : 0..2,
   copy : SUBSET Records, alone : BOOLEAN, barred : BOOLEAN, good : BOOLEAN]

NoVerdict == [result |-> "none", barred |-> FALSE, good |-> FALSE]

Init ==
  /\ file = Unreadable("absent")
  /\ call = [p \in Processes |-> Idle]
  /\ verdict = [p \in Processes |-> NoVerdict]
  /\ kept = {}
  /\ disturbed = FALSE
  /\ clashed = FALSE
  /\ callsLeft = MaxCalls
  /\ crashesLeft = MaxCrashes

-----------------------------------------------------------------------------

At(p, pc) == call[p].pc = pc
Goto(p, pc) == call' = [call EXCEPT ![p].pc = pc]

Return(p, result) ==
  /\ call' = [call EXCEPT ![p] = Idle]
  /\ verdict' = [verdict EXCEPT ![p] =
       [result |-> result, barred |-> call[p].barred, good |-> call[p].good]]

\* The calls that write the file, or are about to: a withdrawal for as long as
\* it lasts, and every call that seeds.
Writes(p) == call[p].op = "withdraw" \/ call[p].pc \in {"seedOpen", "seedWrite"}
HasOpen(p) == call[p].pc \in {"seedWrite", "write"}

OthersWrite(p) == \E q \in Processes \ {p} : Writes(q)

\* p begins to write, with its call continuing as c: it disturbs the others.
BeginsToWrite(p, c) ==
  /\ call' = [q \in Processes |->
       IF q = p THEN [c EXCEPT !.alone = ~OthersWrite(p)]
       ELSE [call[q] EXCEPT !.alone = FALSE]]
  /\ disturbed' = (disturbed \/ OthersWrite(p))

StartCall(p) ==
  /\ call[p] = Idle
  /\ callsLeft > 0
  /\ callsLeft' = callsLeft - 1
  /\ UNCHANGED <<file, verdict, kept, clashed, crashesLeft>>

\* freezeIdentity, revokeCredential: a get of the record and a put of it.
StartWithdraw(p, k) ==
  /\ StartCall(p)
  /\ BeginsToWrite(p, Begun("withdraw", k, FALSE))

\* verifyCredential: a get of the credential and a get of its subject.
StartVerify(p, c) ==
  /\ StartCall(p)
  /\ call' = [call EXCEPT ![p] = Begun("verify", c, c \in kept \/ SubjectOf[c] \in kept)]
  /\ UNCHANGED disturbed

-----------------------------------------------------------------------------
(* The store: ensureSnapshotFile, readSnapshot, writeSnapshot.             *)

\* Wrong: the file is seeded whenever the process starts to use it.
ExistsOrSeed(p) ==
  /\ At(p, "exists")
  /\ \/ /\ file.state = "absent" \/ call[p].stage = 2
        /\ BeginsToWrite(p, [call[p] EXCEPT !.pc = "seedOpen"])
     \/ /\ file.state # "absent"
        /\ Goto(p, "read")
        /\ UNCHANGED disturbed
  /\ UNCHANGED <<file, verdict, kept, clashed, bounds>>

\* fileExists reads the file without parsing it.
FileExists(p) ==
  /\ At(p, "exists")
  /\ \/ /\ file.state = "absent"
        /\ IF call[p].op = "withdraw"
           THEN Goto(p, "seedOpen") /\ UNCHANGED disturbed
           ELSE BeginsToWrite(p, [call[p] EXCEPT !.pc = "seedOpen"])
     \/ /\ file.state # "absent"
        /\ Goto(p, "read")
        /\ UNCHANGED disturbed
  /\ UNCHANGED <<file, verdict, kept, clashed, bounds>>

\* Wrong: the file is opened without being truncated.
OpenInPlace(p, from, to) ==
  /\ At(p, from)
  /\ file' = IF file.state = "absent" THEN Unreadable("empty") ELSE file
  /\ Goto(p, to)
  /\ clashed' = (clashed \/ \E q \in Processes : HasOpen(q))
  /\ UNCHANGED <<verdict, kept, disturbed, bounds>>

\* writeFile opens the file, which truncates it, and then writes.
Open(p, from, to) ==
  /\ At(p, from)
  /\ file' = Unreadable("empty")
  /\ Goto(p, to)
  /\ clashed' = (clashed \/ \E q \in Processes : HasOpen(q))
  /\ UNCHANGED <<verdict, kept, disturbed, bounds>>

\* A write starts at the beginning.  What another call wrote since the file was
\* opened shows behind it where it was longer.
Write(withdrawn) ==
  \/ file' = Snapshot(withdrawn)
  \/ /\ file.state \in {"valid", "garbled"}
     /\ file' = Unreadable("garbled")

WriteSeed(p) ==
  /\ At(p, "seedWrite")
  /\ Write({})
  /\ Goto(p, "read")
  /\ UNCHANGED <<verdict, ghosts, bounds>>

\* A file that cannot be parsed makes the call throw.
ReadFails(p) ==
  /\ At(p, "read")
  /\ file.state # "valid"
  /\ Return(p, "failed")
  /\ UNCHANGED <<file, ghosts, bounds>>

-----------------------------------------------------------------------------
(* The services of AIP between the accesses                                *)

NextAccess(p, k) ==
  /\ call' = [call EXCEPT ![p] = [@ EXCEPT !.pc = "exists", !.record = k, !.stage = 2]]
  /\ UNCHANGED verdict

\* Wrong: the identity behind the credential is not looked up.
ReadCredentialOnly(p) ==
  LET c == call[p].record
  IN  /\ At(p, "read") /\ call[p].op = "verify" /\ call[p].stage = 1
      /\ file.state = "valid"
      /\ Return(p, IF c \in file.withdrawn THEN "invalid" ELSE "valid")
      /\ UNCHANGED <<file, ghosts, bounds>>

ReadCredential(p) ==
  LET c == call[p].record
      s == SubjectOf[c]
  IN  /\ At(p, "read") /\ call[p].op = "verify" /\ call[p].stage = 1
      /\ file.state = "valid"
      /\ \/ /\ c \in file.withdrawn
            /\ Return(p, "invalid")
         \/ /\ c \notin file.withdrawn
            /\ call' = [call EXCEPT ![p] = [@ EXCEPT !.pc = "exists", !.record = s, !.stage = 2,
                                                     !.good = s \notin file.withdrawn]]
            /\ UNCHANGED verdict
      /\ UNCHANGED <<file, ghosts, bounds>>

\* Wrong: a verification that fails on its subject returns nothing.
ReadSubjectUndefined(p) ==
  /\ At(p, "read") /\ call[p].op = "verify" /\ call[p].stage = 2
  /\ file.state = "valid"
  /\ Return(p, IF call[p].record \in file.withdrawn THEN "undefined" ELSE "valid")
  /\ UNCHANGED <<file, ghosts, bounds>>

\* isIdentityUsable
ReadSubject(p) ==
  /\ At(p, "read") /\ call[p].op = "verify" /\ call[p].stage = 2
  /\ file.state = "valid"
  /\ Return(p, IF call[p].record \in file.withdrawn THEN "invalid" ELSE "valid")
  /\ UNCHANGED <<file, ghosts, bounds>>

ReadRecord(p) ==
  /\ At(p, "read") /\ call[p].op = "withdraw" /\ call[p].stage = 1
  /\ file.state = "valid"
  /\ NextAccess(p, call[p].record)
  /\ UNCHANGED <<file, ghosts, bounds>>

\* putIdentity, putCredential: the snapshot is read again, and written back
\* with the record in it.
ReadForPut(p) ==
  /\ At(p, "read") /\ call[p].op = "withdraw" /\ call[p].stage = 2
  /\ file.state = "valid"
  /\ call' = [call EXCEPT ![p] = [@ EXCEPT !.pc = "open", !.copy = file.withdrawn]]
  /\ UNCHANGED <<file, verdict, ghosts, bounds>>

WriteRecord(p) ==
  /\ At(p, "write")
  /\ Write(call[p].copy \cup {call[p].record})
  /\ kept' = IF call[p].alone THEN kept \cup {call[p].record} ELSE kept
  /\ Return(p, "done")
  /\ UNCHANGED <<disturbed, clashed, bounds>>

Crash ==
  /\ crashesLeft > 0
  /\ \E p \in Processes : call[p] # Idle
  /\ crashesLeft' = crashesLeft - 1
  /\ call' = [p \in Processes |-> Idle]
  /\ verdict' = [p \in Processes |-> NoVerdict]
  /\ UNCHANGED <<file, ghosts, callsLeft>>

-----------------------------------------------------------------------------

Access(p) ==
  \/ FileExists(p) \/ Open(p, "seedOpen", "seedWrite") \/ WriteSeed(p) \/ ReadFails(p)
  \/ ReadCredential(p) \/ ReadSubject(p) \/ ReadRecord(p) \/ ReadForPut(p)
  \/ Open(p, "open", "write") \/ WriteRecord(p)

Next ==
  \/ \E p \in Processes :
       \/ \E k \in Records : StartWithdraw(p, k)
       \/ \E c \in Credentials : StartVerify(p, c)
       \/ Access(p)
  \/ Crash

Spec == Init /\ [][Next]_vars

-----------------------------------------------------------------------------

TypeOK ==
  /\ file \in [state : {"absent", "empty", "garbled", "valid"}, withdrawn : SUBSET Records]
  /\ call \in [Processes -> CallRecord]
  /\ verdict \in [Processes ->
       [result : {"none", "valid", "invalid", "done", "failed"},
        barred : BOOLEAN, good : BOOLEAN]]
  /\ kept \subseteq Records
  /\ disturbed \in BOOLEAN
  /\ clashed \in BOOLEAN
  /\ callsLeft \in 0..MaxCalls
  /\ crashesLeft \in 0..MaxCrashes

\* A freeze or a revocation that no other write overlapped is never lost again:
\* whatever calls overlap later, and wherever the process dies, the file holds
\* it or cannot be read at all (aip/file-store.ts:45, 66).
WithdrawalIsKept == file.state = "valid" => kept \subseteq file.withdrawn

\* A credential that was revoked, or whose subject was frozen, undisturbed and
\* before a verification began, does not pass it (aip/service.ts:56).
WithdrawnNeverPasses ==
  \A p \in Processes : verdict[p].result = "valid" => ~verdict[p].barred

\* A verification reads the credential and its subject one after the other.
\* Unless writes have overlapped, what it accepts was good as a whole at the
\* moment of its first read (aip/service.ts:57, 77).
VerdictIsOfOneMoment ==
  \A p \in Processes : verdict[p].result = "valid" /\ ~disturbed => verdict[p].good

\* What a verification accepts was not withdrawn before it began, and without
\* overlapping writes there was a moment at which it was good as a whole.
VerdictIsSound == WithdrawnNeverPasses /\ VerdictIsOfOneMoment

\* The file is only unreadable while a call is writing it, after a crash inside
\* a write, or after two writes had it open together (aip/file-store.ts:104).
DamageHasCause ==
  /\ file.state = "empty" => (\E p \in Processes : HasOpen(p)) \/ crashesLeft < MaxCrashes
  /\ file.state = "garbled" => clashed

=============================================================================

----------------------- MODULE OperatorConsoleProofs -----------------------
(***************************************************************************)
(* What holds of the server with its operators for every number of         *)
(* operators, notifications, attempts and cycles: the types and the audit, *)
(* that the newest entry about the worker is current, that a closed server *)
(* is quiet, what the outbox promises, and that a recovery pilot is not    *)
(* made to fail.                                                           *)
(*                                                                         *)
(* The invariant adds to the properties who waits under which reference    *)
(* and for what, and what the close has brought to rest at each phase.  A  *)
(* second one, beside it, says where the pilot is in its script and what   *)
(* has become of its notification by then.                                 *)
(***************************************************************************)
EXTENDS OperatorConsole, NotificationOutboxProofs

PilotRecords ==
  [script : Scripts, at : Nat, call : Nat, tries : Nat, read : Statuses,
   end : {"none", "undecided", "failed"}]

\* The references of two people who wait are not the same.
ReferencesAreOwn ==
  /\ \A o \in Operators : doing[o] # Free => doing[o].ref = o
  /\ doing[Pilot].ref \in Nat

\* The post of an operator is a redelivery it waits for.
RedeliveryIsWaitedFor ==
  \A o \in Operators : call[o] # Idle => doing[o].what = "redeliver"

\* What is at rest when the server closes.
AtRest ==
  /\ phase # "open" /\ ~startedLate => ~running
  /\ phase \in {"draining", "closed"} /\ ~startedLate => ~InFlight
  /\ phase = "closed" => \A c \in Posters : call[c] = Idle

\* The variables have their types.
ConsoleTypes ==
  /\ phase \in {"open", "stopping", "draining", "closed"}
  /\ doing \in [People -> Waiting \cup {Free}]
  /\ newest \in Operators \cup Nat
  /\ startedLate \in BOOLEAN
  /\ heard \in [Callers -> {"nothing", "2xx", "error"}]
  /\ hits \in [Notifications -> 0 .. FailFirst]
  /\ seen \subseteq Notifications
  /\ pilot \in PilotRecords

\* The audit has one entry per reference.
AuditTypes ==
  /\ \A e \in audit : e.ref \in Operators \cup Nat /\ e.action \in Actions
  /\ \A d, e \in audit : d.ref = e.ref => d = e

\* A person waits for a batch only while there is one.
WaitsForBatch ==
  /\ up /\ (\E p \in People : doing[p].what \in {"run", "stop"}) => InFlight
  /\ up /\ phase = "stopping" => InFlight

CIInv ==
  /\ ConsoleTypes
  /\ AuditTypes
  /\ WaitsForBatch
  /\ ReferencesAreOwn
  /\ RedeliveryIsWaitedFor
  /\ AtRest
  /\ WorkerAuditIsCurrent

-----------------------------------------------------------------------------

\* Who is who, and what is not the same.
LEMMA PeopleFacts ==
  /\ Pilot \in People /\ Pilot \notin Operators
  /\ \A o \in Operators : o \in People /\ o \in Posters /\ o \in Callers
  /\ Service \in Posters /\ Service \notin Operators
  /\ Posters \subseteq Callers /\ Worker \in Callers /\ Worker \notin Posters
  /\ Mine \in Notifications
BY ConsoleAssumption, OutboxAssumption DEF People, Callers

\* A cycle in progress is not the absence of one.
LEMMA CycleIsNotIdle ==
  ASSUME NEW k \in Cycles, k.upTo # 0
  PROVE  k # Idle
BY DEF Idle, Cycles

\* A person that waits is not free.
LEMMA WaitingFacts ==
  ASSUME NEW d \in Waiting \cup {Free}
  PROVE  /\ d.what = "nothing" => d = Free
         /\ d.what \in {"nothing", "redeliver", "run", "stop", "settle"}
BY DEF Waiting, Free

\* The initial state.
LEMMA ConsoleInitCIInv == ConsoleInit => CIInv
<1>. SUFFICES ASSUME ConsoleInit PROVE CIInv
  OBVIOUS
<1>1. PICK script \in Scripts :
        /\ pilot = [script |-> script, at |-> 1, call |-> 1, tries |-> 0, read |-> "none",
                    end |-> "none"]
        /\ running = script.worker
  BY DEF ConsoleInit
<1>2. pilot \in PilotRecords
  BY <1>1 DEF PilotRecords, Statuses
<1>3. ConsoleTypes
  <2>1. doing \in [People -> Waiting \cup {Free}]
    BY DEF ConsoleInit
  <2>2. 0 \in 0 .. FailFirst
    BY ConsoleAssumption
  <2>3. hits \in [Notifications -> 0 .. FailFirst]
    BY <2>2 DEF ConsoleInit
  <2>4. heard \in [Callers -> {"nothing", "2xx", "error"}]
    BY DEF ConsoleInit
  <2>. QED
    BY <1>2, <2>1, <2>3, <2>4 DEF ConsoleInit, ConsoleTypes
<1>4. AuditTypes /\ ReferencesAreOwn
  BY PeopleFacts DEF ConsoleInit, AuditTypes, ReferencesAreOwn, Free
<1>5. WaitsForBatch
  BY DEF ConsoleInit, WaitsForBatch, Free
<1>6. RedeliveryIsWaitedFor
  BY PeopleFacts DEF ConsoleInit, RedeliveryIsWaitedFor
<1>7. AtRest /\ WorkerAuditIsCurrent
  BY DEF ConsoleInit, AtRest, WorkerAuditIsCurrent
<1>. QED
  BY <1>3, <1>4, <1>5, <1>6, <1>7 DEF CIInv

-----------------------------------------------------------------------------
(* Steps that leave the server, its requests and its audit alone           *)

\* The receivers and the script may move.
LEMMA QuietKeeps ==
  ASSUME CIInv, UNCHANGED <<call, batch, running, up, console>>,
         heard' \in [Callers -> {"nothing", "2xx", "error"}],
         hits' \in [Notifications -> 0 .. FailFirst],
         seen' \subseteq Notifications,
         pilot' \in PilotRecords
  PROVE  CIInv'
<1>1. UNCHANGED <<call, batch, running, up, phase, doing, audit, newest, startedLate>>
  BY DEF console
<1>2. ConsoleTypes'
  BY <1>1 DEF CIInv, ConsoleTypes
<1>3. AuditTypes' /\ ReferencesAreOwn' /\ RedeliveryIsWaitedFor'
  BY <1>1 DEF CIInv, AuditTypes, ReferencesAreOwn, RedeliveryIsWaitedFor
<1>4. WaitsForBatch' /\ AtRest'
  BY <1>1 DEF CIInv, WaitsForBatch, AtRest, InFlight
<1>5. WorkerAuditIsCurrent'
  BY <1>1 DEF CIInv, WorkerAuditIsCurrent, Shown
<1>. QED
  BY <1>2, <1>3, <1>4, <1>5 DEF CIInv

\* The script goes on, by itself or after reading.
LEMMA ScriptKeeps ==
  ASSUME CIInv, UNCHANGED <<vars, console, receivers>>, pilot' \in PilotRecords
  PROVE  CIInv'
BY QuietKeeps DEF vars, worker, receivers, CIInv, ConsoleTypes

LEMMA PilotGoesOn ==
  ASSUME CIInv, NEW ok \in BOOLEAN
  PROVE  Proceed(ok) \in PilotRecords /\ Advanced \in PilotRecords /\ FailedPilot \in PilotRecords
BY DEF CIInv, ConsoleTypes, PilotRecords, Proceed, Advanced, FailedPilot

LEMMA DecideKeeps == ASSUME CIInv, Decide PROVE CIInv'
<1>1. pilot' \in PilotRecords
  BY DEF CIInv, ConsoleTypes, PilotRecords, Decide, Advanced
<1>. QED
  BY <1>1, ScriptKeeps DEF Decide

LEMMA CallServiceKeeps == ASSUME CIInv, CallService PROVE CIInv'
<1>1. pilot' \in {[pilot EXCEPT !.tries = @ + 1], [pilot EXCEPT !.call = @ + 1, !.tries = 0],
                FailedPilot}
  BY DEF CallService
<1>2. pilot' \in PilotRecords
  <2>1. pilot \in PilotRecords
    BY DEF CIInv, ConsoleTypes
  <2>2. [pilot EXCEPT !.tries = @ + 1] \in PilotRecords
    BY <2>1 DEF PilotRecords
  <2>3. [pilot EXCEPT !.call = @ + 1, !.tries = 0] \in PilotRecords
    <3>1. [pilot EXCEPT !.call = @ + 1] \in PilotRecords
      BY <2>1 DEF PilotRecords
    <3>2. [[pilot EXCEPT !.call = @ + 1] EXCEPT !.tries = 0] \in PilotRecords
      BY <3>1 DEF PilotRecords
    <3>. QED
      BY <3>2
  <2>4. FailedPilot \in PilotRecords
    BY <2>1 DEF PilotRecords, FailedPilot
  <2>. QED
    BY <1>1, <2>2, <2>3, <2>4
<1>. QED
  BY <1>2, ScriptKeeps DEF CallService

LEMMA ReadingKeeps ==
  ASSUME CIInv, WaitForNotification \/ GetActionStatus \/ ListAudit \/ GetEntry
  PROVE  CIInv'
<1>1. pilot' \in {Advanced, FailedPilot}
  BY DEF WaitForNotification, GetActionStatus, ListAudit, GetEntry, Proceed
<1>2. pilot' \in PilotRecords
  BY <1>1, PilotGoesOn
<1>3. UNCHANGED <<vars, console, receivers>>
  BY DEF WaitForNotification, GetActionStatus, ListAudit, GetEntry, ReadOnly
<1>. QED
  BY <1>2, <1>3, ScriptKeeps

\* A receiver takes a post or refuses it, or the answer is lost.
LEMMA ReceiveKeeps ==
  ASSUME CIInv, IInv, NEW c \in Callers, Receive(c) \/ Lose(c)
  PROVE  CIInv'
<1>1. UNCHANGED <<call, batch, running, up, console, pilot>>
  BY DEF Receive, Lose, vars, worker, client
<1>2. /\ heard' \in [Callers -> {"nothing", "2xx", "error"}]
      /\ hits' \in [Notifications -> 0 .. FailFirst]
      /\ seen' \subseteq Notifications
  <2>1. CASE Receive(c)
    <3>1. call[c].id \in Notifications
      BY <2>1, CallFacts DEF Receive, Cycles
    <3>2. hits' = [hits EXCEPT ![call[c].id] = IF @ < FailFirst THEN @ + 1 ELSE @]
      BY <2>1 DEF Receive
    <3>3. hits' \in [Notifications -> 0 .. FailFirst]
      BY <3>1, <3>2, ConsoleAssumption DEF CIInv, ConsoleTypes
    <3>4. seen' \subseteq Notifications
      BY <2>1, <3>1 DEF Receive, CIInv, ConsoleTypes
    <3>5. heard' \in [Callers -> {"nothing", "2xx", "error"}]
      BY <2>1 DEF Receive, CIInv, ConsoleTypes
    <3>. QED
      BY <3>3, <3>4, <3>5
  <2>2. CASE Lose(c)
    BY <2>2 DEF Lose, CIInv, ConsoleTypes
  <2>. QED
    BY <2>1, <2>2
<1>3. pilot' \in PilotRecords
  BY <1>1 DEF CIInv, ConsoleTypes
<1>. QED
  BY <1>1, <1>2, <1>3, QuietKeeps

\* Time passes for a failed entry.
LEMMA BackoffIsQuiet ==
  ASSUME CIInv, NEW n \in Notifications, BackoffPasses(n),
         UNCHANGED <<console, receivers, client>>
  PROVE  CIInv'
BY QuietKeeps DEF BackoffPasses, worker, receivers, client, CIInv, ConsoleTypes

-----------------------------------------------------------------------------
(* The requests of the operators and the pilot                             *)

\* The reference of a person's request.
Own(p, ref) == IF p \in Operators THEN ref = p ELSE ref \in Nat

\* An entry is recorded in the place of the one with its reference.
LEMMA RecordKeeps ==
  ASSUME CIInv, NEW ref \in Operators \cup Nat, NEW action \in Actions, NEW shows,
         action \in WorkerActions => shows \in {"running", "stopped"},
         RecordAdminAudit(ref, action, shows)
  PROVE  /\ AuditTypes'
         /\ newest' \in Operators \cup Nat
<1>. DEFINE e == Entry(ref, action, shows)
<1>1. e.ref = ref /\ e.action = action
  BY DEF Entry
<1>2. audit' = {d \in audit : d.ref # ref} \cup {e}
  <2>1. audit' = {d \in audit : \A new \in {e} : d.ref # new.ref} \cup {e}
    BY DEF RecordAdminAudit, Put
  <2>. QED
    BY <2>1, <1>1
<1>3. AuditTypes'
  <2>. HIDE DEF e
  <2>. QED
    BY <1>1, <1>2 DEF AuditTypes, CIInv
<1>4. newest' \in {ref, newest}
  BY DEF RecordAdminAudit
<1>. QED
  BY <1>3, <1>4 DEF CIInv, ConsoleTypes

\* An entry about the worker that shows what it does is the last one then; any
\* other leaves the last one, or stands in its place.
LEMMA RecordTells ==
  ASSUME CIInv, NEW ref \in Operators \cup Nat, NEW action \in Actions, NEW shows,
         RecordAdminAudit(ref, action, shows), phase' = phase, up' = up,
         IF action \in WorkerActions
         THEN shows = Shown(running')
         ELSE running' = running /\ \A p \in People : doing[p].what = "stop" => doing'[p].what = "stop"
  PROVE  WorkerAuditIsCurrent'
<1>. DEFINE e == Entry(ref, action, shows)
<1>1. e.ref = ref /\ e.action = action /\ e.shows = shows
  BY DEF Entry
<1>2. audit' = {d \in audit : d.ref # ref} \cup {e}
  <2>1. audit' = {d \in audit : \A new \in {e} : d.ref # new.ref} \cup {e}
    BY DEF RecordAdminAudit, Put
  <2>. QED
    BY <2>1, <1>1
<1>3. newest' = IF action \in WorkerActions THEN ref ELSE newest
  BY DEF RecordAdminAudit
<1>. HIDE DEF e
<1>4. CASE action \in WorkerActions
  BY <1>1, <1>2, <1>3, <1>4 DEF WorkerAuditIsCurrent, Shown
<1>5. CASE action \notin WorkerActions /\ newest = ref
  BY <1>1, <1>2, <1>3, <1>5 DEF WorkerAuditIsCurrent
<1>6. CASE action \notin WorkerActions /\ newest # ref
  BY <1>2, <1>3, <1>6 DEF CIInv, WorkerAuditIsCurrent, Shown
<1>. QED
  BY <1>4, <1>5, <1>6

LEMMA ShownFacts == \A on \in BOOLEAN : Shown(on) \in {"running", "stopped"}
BY DEF Shown

\* A request that is answered at once and only reads.
LEMMA QueryKeeps ==
  ASSUME CIInv, IInv, NEW p \in People, NEW ref, Own(p, ref), Admits(p),
         NEW n \in Notifications,
         \/ GetNotificationDelivery(ref, n)
         \/ ListNotificationDeliveries(ref)
         \/ GetNotificationWorkerStatus(ref),
         UNCHANGED receivers, pilot' \in PilotRecords
  PROVE  CIInv'
<1>1. ref \in Operators \cup Nat
  BY DEF Own
<1>2. UNCHANGED <<call, batch, watched, running, up, phase, doing, startedLate, heard, hits, seen>>
  BY DEF GetNotificationDelivery, ListNotificationDeliveries, GetNotificationWorkerStatus,
         worker, receivers
<1>3. running \in BOOLEAN
  BY DEF IInv, TypeOK
<1>4. AuditTypes' /\ newest' \in Operators \cup Nat /\ WorkerAuditIsCurrent'
  <2>1. CASE GetNotificationDelivery(ref, n)
    BY <2>1, <1>1, <1>2, RecordKeeps, RecordTells DEF GetNotificationDelivery, Actions, WorkerActions
  <2>2. CASE ListNotificationDeliveries(ref)
    BY <2>2, <1>1, <1>2, RecordKeeps, RecordTells
       DEF ListNotificationDeliveries, Actions, WorkerActions
  <2>3. CASE GetNotificationWorkerStatus(ref)
    BY <2>3, <1>1, <1>2, <1>3, ShownFacts, RecordKeeps, RecordTells
       DEF GetNotificationWorkerStatus, Actions, WorkerActions
  <2>. QED
    BY <2>1, <2>2, <2>3
<1>5. ConsoleTypes'
  BY <1>2, <1>4 DEF CIInv, ConsoleTypes
<1>6. ReferencesAreOwn' /\ RedeliveryIsWaitedFor'
  BY <1>2 DEF CIInv, ReferencesAreOwn, RedeliveryIsWaitedFor
<1>7. WaitsForBatch' /\ AtRest'
  BY <1>2 DEF CIInv, WaitsForBatch, AtRest, InFlight
<1>. QED
  BY <1>4, <1>5, <1>6, <1>7 DEF CIInv

LEMMA StartKeeps ==
  ASSUME CIInv, IInv, NEW o \in Operators, Admits(o), StartNotificationWorker(o),
         UNCHANGED receivers, pilot' \in PilotRecords
  PROVE  CIInv'
<1>1. UNCHANGED <<call, batch, up, phase, doing, heard, hits, seen>>
  BY DEF StartNotificationWorker, receivers
<1>2. running' = TRUE /\ startedLate' = (startedLate \/ phase # "open")
  BY DEF StartNotificationWorker
<1>3. AuditTypes' /\ newest' \in Operators \cup Nat
  BY RecordKeeps DEF StartNotificationWorker, Actions, WorkerActions
<1>4. ConsoleTypes'
  BY <1>1, <1>2, <1>3 DEF CIInv, ConsoleTypes
<1>5. ReferencesAreOwn' /\ RedeliveryIsWaitedFor'
  BY <1>1 DEF CIInv, ReferencesAreOwn, RedeliveryIsWaitedFor
<1>6. WaitsForBatch'
  BY <1>1 DEF CIInv, WaitsForBatch, InFlight
<1>7. AtRest'
  BY <1>1, <1>2 DEF CIInv, AtRest, InFlight
<1>8. WorkerAuditIsCurrent'
  BY <1>1, <1>2, RecordTells DEF StartNotificationWorker, Actions, WorkerActions, Shown
<1>. QED
  BY <1>3, <1>4, <1>5, <1>6, <1>7, <1>8 DEF CIInv

\* A person begins to wait under its reference.
LEMMA WaitKeeps ==
  ASSUME CIInv, NEW p \in People, NEW ref, Own(p, ref), Admits(p),
         NEW what \in {"redeliver", "run", "stop", "settle"}, Wait(p, what, ref)
  PROVE  /\ doing' \in [People -> Waiting \cup {Free}]
         /\ doing'[p].what = what
         /\ \A q \in People \ {p} : doing'[q] = doing[q]
         /\ \A q \in People : doing[q].what = "stop" => doing'[q].what = "stop"
         /\ ReferencesAreOwn'
<1>. DEFINE w == [what |-> what, ref |-> ref]
<1>1. w \in Waiting /\ w.what = what /\ w.ref = ref
  BY DEF Waiting, Own
<1>2. doing \in [People -> Waiting \cup {Free}]
  BY DEF CIInv, ConsoleTypes
<1>3. doing' = [doing EXCEPT ![p] = w]
  BY DEF Wait
<1>. HIDE DEF w
<1>4. doing' \in [People -> Waiting \cup {Free}] /\ doing'[p] = w
      /\ \A q \in People \ {p} : doing'[q] = doing[q]
  BY <1>1, <1>2, <1>3
<1>5. \A q \in People : doing[q].what = "stop" => doing'[q].what = "stop"
  <2>1. doing[p].what # "stop"
    BY DEF Admits, Free
  <2>. QED
    BY <2>1, <1>4
<1>6. ReferencesAreOwn'
  BY <1>1, <1>4, PeopleFacts DEF CIInv, ReferencesAreOwn, Own
<1>. QED
  BY <1>1, <1>4, <1>5, <1>6

LEMMA StopKeeps ==
  ASSUME CIInv, IInv, NEW o \in Operators, Admits(o), StopNotificationWorker(o, o),
         UNCHANGED receivers, pilot' \in PilotRecords
  PROVE  CIInv'
<1>1. UNCHANGED <<call, batch, up, phase, startedLate, heard, hits, seen>>
  BY DEF StopNotificationWorker, receivers
<1>2. running' = FALSE
  BY DEF StopNotificationWorker
<1>3. o \in People /\ Own(o, o)
  BY PeopleFacts DEF Own
<1>4. AtRest'
  BY <1>1, <1>2 DEF CIInv, AtRest, InFlight
<1>5. CASE InFlight
  <2>1. Wait(o, "stop", o) /\ NoAudit
    BY <1>5 DEF StopNotificationWorker
  <2>2. /\ doing' \in [People -> Waiting \cup {Free}]
        /\ doing'[o].what = "stop"
        /\ \A q \in People \ {o} : doing'[q] = doing[q]
        /\ ReferencesAreOwn'
    BY <1>3, <2>1, WaitKeeps
  <2>3. UNCHANGED <<audit, newest>>
    BY <2>1 DEF NoAudit
  <2>4. ConsoleTypes' /\ AuditTypes'
    BY <1>1, <2>2, <2>3 DEF CIInv, ConsoleTypes, AuditTypes
  <2>5. WaitsForBatch'
    BY <1>1, <1>5 DEF WaitsForBatch, InFlight
  <2>6. RedeliveryIsWaitedFor'
    BY <1>1, <2>2, PeopleFacts DEF CIInv, RedeliveryIsWaitedFor, Admits, Free
  <2>7. WorkerAuditIsCurrent'
    BY <1>3, <2>2 DEF WorkerAuditIsCurrent
  <2>. QED
    BY <1>4, <2>2, <2>4, <2>5, <2>6, <2>7 DEF CIInv
<1>6. CASE ~InFlight
  <2>1. RecordAdminAudit(o, "stopNotificationWorker", "stopped") /\ doing' = doing
    BY <1>6 DEF StopNotificationWorker
  <2>2. AuditTypes' /\ newest' \in Operators \cup Nat
    BY <2>1, RecordKeeps DEF Actions, WorkerActions
  <2>3. ConsoleTypes'
    BY <1>1, <2>1, <2>2 DEF CIInv, ConsoleTypes
  <2>4. ReferencesAreOwn' /\ RedeliveryIsWaitedFor' /\ WaitsForBatch'
    BY <1>1, <2>1 DEF CIInv, ReferencesAreOwn, RedeliveryIsWaitedFor, WaitsForBatch, InFlight
  <2>5. WorkerAuditIsCurrent'
    BY <1>1, <1>2, <2>1, RecordTells DEF Actions, WorkerActions, Shown
  <2>. QED
    BY <1>4, <2>2, <2>3, <2>4, <2>5 DEF CIInv
<1>. QED
  BY <1>5, <1>6

LEMMA RunKeeps ==
  ASSUME CIInv, IInv, NEW p \in People, NEW ref, Own(p, ref), Admits(p),
         RunNotificationWorker(p, ref), UNCHANGED receivers, pilot' \in PilotRecords
  PROVE  CIInv'
<1>1. UNCHANGED <<call, running, up, phase, startedLate, heard, hits, seen>>
  BY DEF RunNotificationWorker, receivers
<1>2. running \in BOOLEAN
  BY DEF IInv, TypeOK
<1>3. ref \in Operators \cup Nat
  BY DEF Own
<1>4. AtRest'
  <2>1. phase \in {"open", "stopping"}
    BY DEF Admits
  <2>. QED
    BY <1>1, <2>1 DEF CIInv, AtRest, InFlight
<1>5. CASE Wait(p, "run", ref) /\ NoAudit /\ InFlight'
  <2>1. /\ doing' \in [People -> Waiting \cup {Free}]
        /\ doing'[p].what = "run"
        /\ \A q \in People \ {p} : doing'[q] = doing[q]
        /\ \A q \in People : doing[q].what = "stop" => doing'[q].what = "stop"
        /\ ReferencesAreOwn'
    BY <1>5, WaitKeeps
  <2>2. UNCHANGED <<audit, newest>>
    BY <1>5 DEF NoAudit
  <2>3. ConsoleTypes' /\ AuditTypes'
    BY <1>1, <2>1, <2>2 DEF CIInv, ConsoleTypes, AuditTypes
  <2>4. WaitsForBatch'
    BY <1>5 DEF WaitsForBatch
  <2>5. RedeliveryIsWaitedFor'
    <3>. SUFFICES ASSUME NEW o \in Operators, call'[o] # Idle
                 PROVE  doing'[o].what = "redeliver"
      BY DEF RedeliveryIsWaitedFor
    <3>1. doing[o].what = "redeliver"
      BY <1>1 DEF CIInv, RedeliveryIsWaitedFor
    <3>2. o # p
      BY <3>1 DEF Admits, Free
    <3>. QED
      BY <2>1, <3>1, <3>2, PeopleFacts
  <2>6. WorkerAuditIsCurrent'
    BY <1>1, <2>1, <2>2 DEF CIInv, WorkerAuditIsCurrent, Shown
  <2>. QED
    BY <1>4, <2>1, <2>3, <2>4, <2>5, <2>6 DEF CIInv
<1>6. CASE /\ ~InFlight
           /\ RecordAdminAudit(ref, "runNotificationWorker", Shown(running))
           /\ UNCHANGED <<batch, doing>>
  <2>1. AuditTypes' /\ newest' \in Operators \cup Nat
    BY <1>2, <1>3, <1>6, ShownFacts, RecordKeeps DEF Actions, WorkerActions
  <2>2. ConsoleTypes'
    BY <1>1, <1>6, <2>1 DEF CIInv, ConsoleTypes
  <2>3. ReferencesAreOwn' /\ RedeliveryIsWaitedFor' /\ WaitsForBatch'
    BY <1>1, <1>6 DEF CIInv, ReferencesAreOwn, RedeliveryIsWaitedFor, WaitsForBatch, InFlight
  <2>4. WorkerAuditIsCurrent'
    BY <1>1, <1>3, <1>6, RecordTells DEF Actions, WorkerActions
  <2>. QED
    BY <1>4, <2>1, <2>2, <2>3, <2>4 DEF CIInv
<1>7. \/ Wait(p, "run", ref) /\ NoAudit /\ InFlight'
      \/ /\ ~InFlight
         /\ RecordAdminAudit(ref, "runNotificationWorker", Shown(running))
         /\ UNCHANGED <<batch, doing>>
  <2>1. CASE InFlight /\ Wait(p, "run", ref) /\ NoAudit /\ UNCHANGED <<batch, watched>>
    BY <1>1, <2>1 DEF InFlight
  <2>2. CASE Eligible # {} /\ batch' = {Read(n) : n \in Eligible}
             /\ Wait(p, "run", ref) /\ NoAudit
    <3>1. batch' # {}
      BY <2>2
    <3>. QED
      BY <2>2, <3>1 DEF InFlight
  <2>. QED
    BY <2>1, <2>2 DEF RunNotificationWorker
<1>. QED
  BY <1>5, <1>6, <1>7

\* A post begins for a person, a request of another client or the worker.
LEMMA BegunFacts ==
  ASSUME IInv, NEW c \in Callers, NEW r \in Reads, Begin(c, r)
  PROVE  /\ call'[c] # Idle
         /\ \A d \in Callers \ {c} : call'[d] = call[d]
<1>1. CycleFrom(r) \in Cycles /\ CycleFrom(r).upTo # 0
  BY OutboxAssumption DEF CycleFrom, Cycles, Reads
<1>2. CycleFrom(r) # Idle
  BY <1>1, CycleIsNotIdle
<1>. QED
  BY <1>2 DEF Begin, IInv, TypeOK

LEMMA UnreadFacts == ASSUME NEW n \in Notifications PROVE Unread(n) \in Reads
BY DEF Unread, Reads

\* The operator's redelivery.
LEMMA OperatorRedeliverKeeps ==
  ASSUME CIInv, IInv, NEW o \in Operators, NEW n \in Notifications, RedeliverNotification(o, n)
  PROVE  CIInv'
<1>1. UNCHANGED <<batch, watched, running, up, phase, startedLate, audit, newest, heard, hits,
                  seen, pilot>>
  BY DEF RedeliverNotification, Redeliver, NoAudit, OperatorOnly, receivers, client, worker
<1>2. o \in People /\ o \in Posters /\ o \in Callers /\ Own(o, o)
  BY PeopleFacts DEF Own
<1>3. Read(n) \in Reads
  BY ReadEarned
<1>4. call'[o] # Idle /\ \A d \in Callers \ {o} : call'[d] = call[d]
  BY <1>2, <1>3, BegunFacts DEF RedeliverNotification, Redeliver
<1>5. /\ doing' \in [People -> Waiting \cup {Free}]
      /\ doing'[o].what = "redeliver"
      /\ \A q \in People \ {o} : doing'[q] = doing[q]
      /\ \A q \in People : doing[q].what = "stop" => doing'[q].what = "stop"
      /\ ReferencesAreOwn'
  BY <1>2, WaitKeeps DEF RedeliverNotification
<1>6. call'[Worker] = call[Worker]
  BY <1>2, <1>4, PeopleFacts
<1>7. ConsoleTypes' /\ AuditTypes'
  BY <1>1, <1>5 DEF CIInv, ConsoleTypes, AuditTypes
<1>8. WaitsForBatch'
  <2>1. ASSUME NEW q \in People, doing'[q].what \in {"run", "stop"}
        PROVE  doing[q].what \in {"run", "stop"}
    BY <1>5, <2>1
  <2>. QED
    BY <1>1, <1>6, <2>1 DEF CIInv, WaitsForBatch, InFlight
<1>9. RedeliveryIsWaitedFor'
  BY <1>4, <1>5, PeopleFacts DEF CIInv, RedeliveryIsWaitedFor
<1>10. AtRest'
  <2>1. phase \in {"open", "stopping"}
    BY DEF RedeliverNotification, Admits
  <2>. QED
    BY <1>1, <1>6, <2>1 DEF CIInv, AtRest, InFlight
<1>11. WorkerAuditIsCurrent'
  BY <1>1, <1>5 DEF CIInv, WorkerAuditIsCurrent, Shown
<1>. QED
  BY <1>5, <1>7, <1>8, <1>9, <1>10, <1>11 DEF CIInv

\* A settlement is notified: that of the pilot, which waits, or of another client.
LEMMA ServicePosts ==
  ASSUME CIInv, IInv, NEW n \in Notifications,
         Begin(Service, Unread(n)) \/ UNCHANGED call
  PROVE  /\ call'[Worker] = call[Worker]
         /\ \A o \in Operators : call'[o] = call[o]
<1>1. CASE Begin(Service, Unread(n))
  <2>1. Service \in Callers
    BY PeopleFacts
  <2>2. \A d \in Callers \ {Service} : call'[d] = call[d]
    BY <1>1, <2>1, UnreadFacts, BegunFacts
  <2>. QED
    BY <2>2, PeopleFacts
<1>. QED
  BY <1>1

LEMMA OtherSettlementKeeps ==
  ASSUME CIInv, IInv, NEW n \in Notifications, OtherSettlement(n)
  PROVE  CIInv'
<1>1. UNCHANGED <<batch, running, up, phase, doing, audit, newest, startedLate, heard, hits, seen,
                  pilot>>
  BY DEF OtherSettlement, Notify, worker, console, receivers, client
<1>2. call'[Worker] = call[Worker] /\ \A o \in Operators : call'[o] = call[o]
  BY ServicePosts DEF OtherSettlement, Notify
<1>3. phase \in {"open", "stopping"}
  BY DEF OtherSettlement
<1>4. ConsoleTypes' /\ AuditTypes'
  BY <1>1 DEF CIInv, ConsoleTypes, AuditTypes
<1>5. WaitsForBatch' /\ ReferencesAreOwn' /\ RedeliveryIsWaitedFor'
  BY <1>1, <1>2 DEF CIInv, WaitsForBatch, ReferencesAreOwn, RedeliveryIsWaitedFor, InFlight
<1>6. AtRest' /\ WorkerAuditIsCurrent'
  BY <1>1, <1>2, <1>3 DEF CIInv, AtRest, WorkerAuditIsCurrent, InFlight, Shown
<1>. QED
  BY <1>4, <1>5, <1>6 DEF CIInv

LEMMA SettleKeeps == ASSUME CIInv, IInv, Settle PROVE CIInv'
<1>1. UNCHANGED <<batch, running, up, phase, audit, newest, startedLate, heard, hits, seen>>
  BY DEF Settle, worker, receivers
<1>2. phase = "open" /\ Admits(Pilot)
  BY DEF Settle, At
<1>3. pilot' \in PilotRecords
  BY PilotGoesOn DEF Settle, CIInv, ConsoleTypes
<1>4. call'[Worker] = call[Worker] /\ \A o \in Operators : call'[o] = call[o]
  BY ServicePosts, PeopleFacts DEF Settle
<1>5. /\ doing' \in [People -> Waiting \cup {Free}]
      /\ \A q \in People : doing'[q].what \in {doing[q].what, "settle"}
      /\ \A o \in Operators : doing'[o] = doing[o]
      /\ \A q \in People : doing[q].what = "stop" => doing'[q].what = "stop"
      /\ ReferencesAreOwn'
  <2>1. CASE Wait(Pilot, "settle", pilot.at)
    <3>1. Own(Pilot, pilot.at) /\ Pilot \in People
      BY PeopleFacts DEF Own, CIInv, ConsoleTypes, PilotRecords
    <3>2. /\ doing' \in [People -> Waiting \cup {Free}]
          /\ doing'[Pilot].what = "settle"
          /\ \A q \in People \ {Pilot} : doing'[q] = doing[q]
          /\ \A q \in People : doing[q].what = "stop" => doing'[q].what = "stop"
          /\ ReferencesAreOwn'
      BY <1>2, <2>1, <3>1, WaitKeeps
    <3>. QED
      BY <3>2, PeopleFacts
  <2>2. CASE UNCHANGED doing
    BY <2>2 DEF CIInv, ConsoleTypes, ReferencesAreOwn
  <2>. QED
    BY <2>1, <2>2 DEF Settle
<1>6. ConsoleTypes' /\ AuditTypes'
  BY <1>1, <1>3, <1>5 DEF CIInv, ConsoleTypes, AuditTypes
<1>7. WaitsForBatch'
  <2>1. ASSUME NEW q \in People, doing'[q].what \in {"run", "stop"}
        PROVE  doing[q].what \in {"run", "stop"}
    BY <1>5, <2>1
  <2>. QED
    BY <1>1, <1>4, <2>1 DEF CIInv, WaitsForBatch, InFlight
<1>8. RedeliveryIsWaitedFor'
  BY <1>4, <1>5 DEF CIInv, RedeliveryIsWaitedFor
<1>9. AtRest' /\ WorkerAuditIsCurrent'
  BY <1>1, <1>2, <1>5 DEF CIInv, AtRest, WorkerAuditIsCurrent, Shown
<1>. QED
  BY <1>5, <1>6, <1>7, <1>8, <1>9 DEF CIInv

-----------------------------------------------------------------------------
(* The worker                                                              *)

LEMMA TickKeeps ==
  ASSUME CIInv, Tick, UNCHANGED <<console, receivers, client>>
  PROVE  CIInv'
<1>1. UNCHANGED <<call, running, up, phase, doing, audit, newest, startedLate, heard, hits, seen,
                  pilot>>
  BY DEF Tick, console, receivers, client
<1>2. running
  BY DEF Tick
<1>3. InFlight => InFlight'
  BY <1>1 DEF Tick, InFlight
<1>4. ConsoleTypes' /\ AuditTypes'
  BY <1>1 DEF CIInv, ConsoleTypes, AuditTypes
<1>5. WaitsForBatch'
  BY <1>1, <1>3 DEF CIInv, WaitsForBatch
<1>6. ReferencesAreOwn' /\ RedeliveryIsWaitedFor'
  BY <1>1 DEF CIInv, ReferencesAreOwn, RedeliveryIsWaitedFor
<1>7. AtRest'
  BY <1>1, <1>2 DEF CIInv, AtRest
<1>8. WorkerAuditIsCurrent'
  BY <1>1 DEF CIInv, WorkerAuditIsCurrent, Shown
<1>. QED
  BY <1>4, <1>5, <1>6, <1>7, <1>8 DEF CIInv

LEMMA WorkerTakesKeeps ==
  ASSUME CIInv, IInv, TakeNext, UNCHANGED <<console, receivers, client>>
  PROVE  CIInv'
<1>1. UNCHANGED <<running, up, phase, doing, audit, newest, startedLate, heard, hits, seen, pilot>>
  BY DEF TakeNext, console, receivers, client
<1>2. PICK r \in batch : Begin(Worker, r)
  BY DEF TakeNext
<1>3. r \in Reads /\ InFlight
  BY DEF IInv, TypeOK, InFlight
<1>4. call'[Worker] # Idle /\ \A c \in Posters : call'[c] = call[c]
  BY <1>2, <1>3, BegunFacts, PeopleFacts
<1>5. ConsoleTypes' /\ AuditTypes'
  BY <1>1 DEF CIInv, ConsoleTypes, AuditTypes
<1>6. WaitsForBatch'
  BY <1>4 DEF WaitsForBatch, InFlight
<1>7. ReferencesAreOwn' /\ RedeliveryIsWaitedFor'
  BY <1>1, <1>4, PeopleFacts DEF CIInv, ReferencesAreOwn, RedeliveryIsWaitedFor
<1>8. AtRest'
  BY <1>1, <1>3, <1>4 DEF CIInv, AtRest
<1>9. WorkerAuditIsCurrent'
  BY <1>1 DEF CIInv, WorkerAuditIsCurrent, Shown
<1>. QED
  BY <1>5, <1>6, <1>7, <1>8, <1>9 DEF CIInv

-----------------------------------------------------------------------------
(* The answers                                                             *)

\* What an answer may change of the worker and the calls.
Answered(c) ==
  /\ call[c] # Idle
  /\ \A d \in Callers \ {c} : call'[d] \in {call[d], Idle}
  /\ c # Worker => UNCHANGED <<batch, running, up>> /\ call'[Worker] = call[Worker]
  /\ (running' = running /\ up' = up) \/ (running' = FALSE /\ up' = FALSE)

LEMMA AnsweredFacts ==
  ASSUME IInv, NEW c \in Callers, NEW ok \in BOOLEAN, Answer(c, ok)
  PROVE  Answered(c)
<1>1. call[c] # Idle /\ call \in [Callers -> Cycles \cup {Idle}]
  BY DEF Answer, IInv, TypeOK
<1>2. CASE Accept(c)
  BY <1>1, <1>2, PeopleFacts DEF Accept, Answered
<1>3. CASE Retry(c)
  BY <1>1, <1>3, PeopleFacts DEF Retry, Answered, worker
<1>4. CASE GiveUp(c)
  <2>1. CASE c = Worker /\ watched
    BY <1>1, <1>4, <2>1, PeopleFacts DEF GiveUp, Throw, Dead, Answered
  <2>2. CASE ~(c = Worker /\ watched)
    BY <1>1, <1>4, <2>2, PeopleFacts DEF GiveUp, Throw, Answered
  <2>. QED
    BY <2>1, <2>2
<1>. QED
  BY <1>2, <1>3, <1>4 DEF Answer

\* What all the answers have in common.
Heard(c) ==
  /\ Answered(c)
  /\ UNCHANGED <<startedLate, hits, seen>>
  /\ heard' \in [Callers -> {"nothing", "2xx", "error"}]

\* No call but that of c begins.
LEMMA HeardFacts ==
  ASSUME CIInv, NEW c \in Callers, Heard(c)
  PROVE  /\ \A d \in Callers : call'[d] # Idle => call[d] # Idle
         /\ running' => running
         /\ up' => up /\ running' = running
BY DEF Heard, Answered

\* What a batch's end records for those who wait.
LEMMA OutcomeFacts ==
  ASSUME CIInv, IInv, NEW p \in People, doing[p].what \in {"run", "stop"}
  PROVE  /\ Outcome(p).ref = doing[p].ref
         /\ Outcome(p).action \in WorkerActions
         /\ Outcome(p).shows = Shown(running)
         /\ Outcome(p).ref \in Operators \cup Nat
<1>1. doing[p].ref \in Operators \cup Nat
  BY DEF CIInv, ConsoleTypes, Waiting, Free
<1>. QED
  BY <1>1 DEF Outcome, Entry, WorkerActions

LEMMA OutcomesAreOwn ==
  ASSUME CIInv, IInv, NEW p \in People, doing[p].what \in {"run", "stop"},
         NEW q \in People, doing[q].what \in {"run", "stop"},
         doing[p].ref = doing[q].ref
  PROVE  p = q
<1>1. doing[p] # Free /\ doing[q] # Free
  BY DEF Free
<1>. QED
  BY <1>1, ConsoleAssumption DEF CIInv, ReferencesAreOwn, People

LEMMA OutcomesKeepAudit ==
  ASSUME CIInv, IInv, NEW logged \in SUBSET People,
         \A p \in logged : doing[p].what \in {"run", "stop"},
         audit' = Put({Outcome(p) : p \in logged})
  PROVE  AuditTypes'
<1>. DEFINE new == {Outcome(p) : p \in logged}
<1>1. \A e \in new : e.ref \in Operators \cup Nat /\ e.action \in Actions
  BY OutcomeFacts DEF Actions
<1>2. \A d, e \in new : d.ref = e.ref => d = e
  <2>. SUFFICES ASSUME NEW p \in logged, NEW q \in logged, Outcome(p).ref = Outcome(q).ref
               PROVE  Outcome(p) = Outcome(q)
    OBVIOUS
  <2>1. doing[p].ref = doing[q].ref
    BY OutcomeFacts
  <2>. QED
    BY <2>1, OutcomesAreOwn
<1>3. audit' = {e \in audit : \A d \in new : e.ref # d.ref} \cup new
  BY DEF Put
<1>. HIDE DEF new
<1>. QED
  BY <1>1, <1>2, <1>3 DEF CIInv, AuditTypes

LEMMA BatchEndsKeeps ==
  ASSUME CIInv, IInv, Heard(Worker), call'[Worker] = Idle, batch' = {},
         NEW ok \in BOOLEAN, BatchEnds(ok)
  PROVE  CIInv'
<1>. DEFINE waiting == {p \in People : doing[p].what \in {"run", "stop"}}
            logged == {p \in waiting : ok \/ doing[p].what = "stop"}
<1>1. /\ doing' = [p \in People |-> IF p \in waiting THEN Free ELSE doing[p]]
      /\ audit' = Put({Outcome(p) : p \in logged})
      /\ newest' \in IF logged = {} THEN {newest} ELSE {doing[p].ref : p \in logged}
      /\ pilot' = IF Pilot \in waiting THEN Proceed(ok) ELSE pilot
      /\ phase' = IF phase = "stopping" THEN "draining" ELSE phase
  BY DEF BatchEnds
<1>2. running \in BOOLEAN
  BY DEF IInv, TypeOK
<1>3. \A p \in People : doing'[p].what \notin {"run", "stop"}
  BY <1>1 DEF Free
<1>4. doing' \in [People -> Waiting \cup {Free}]
  BY <1>1 DEF CIInv, ConsoleTypes
<1>5. \/ newest' = newest /\ logged = {}
      \/ \E p \in logged : newest' = doing[p].ref
  BY <1>1
<1>6. pilot' \in PilotRecords
  BY <1>1, PilotGoesOn DEF CIInv, ConsoleTypes
<1>7. ConsoleTypes'
  <2>1. newest' \in Operators \cup Nat
    BY <1>5, OutcomeFacts DEF CIInv, ConsoleTypes
  <2>. QED
    BY <1>1, <1>4, <1>6, <2>1 DEF CIInv, ConsoleTypes, Heard
<1>8. AuditTypes'
  <2>1. logged \in SUBSET People /\ \A p \in logged : doing[p].what \in {"run", "stop"}
    OBVIOUS
  <2>. HIDE DEF logged
  <2>. QED
    BY <1>1, <2>1, OutcomesKeepAudit
<1>9. WaitsForBatch'
  BY <1>1, <1>3 DEF WaitsForBatch, CIInv, ConsoleTypes
<1>10. ReferencesAreOwn'
  BY <1>1, PeopleFacts DEF ReferencesAreOwn, CIInv, Free
<1>11. RedeliveryIsWaitedFor'
  <2>. SUFFICES ASSUME NEW o \in Operators, call'[o] # Idle
               PROVE  doing'[o].what = "redeliver"
    BY DEF RedeliveryIsWaitedFor
  <2>1. doing[o].what = "redeliver"
    BY HeardFacts, PeopleFacts DEF CIInv, RedeliveryIsWaitedFor
  <2>. QED
    BY <1>1, <2>1, PeopleFacts
<1>12. AtRest'
  <2>1. ~InFlight'
    BY DEF InFlight
  <2>2. running' => running
    BY HeardFacts, PeopleFacts
  <2>3. phase = "closed" => \A d \in Posters : call'[d] = Idle
    BY HeardFacts, PeopleFacts DEF CIInv, AtRest
  <2>. QED
    BY <1>1, <2>1, <2>2, <2>3 DEF AtRest, CIInv, ConsoleTypes, Heard
<1>13. WorkerAuditIsCurrent'
  <2>. SUFFICES ASSUME up', phase' = "open", newest' # 0
               PROVE  \E e \in audit' :
                        e.ref = newest' /\ (e.action \in WorkerActions => e.shows = Shown(running'))
    BY DEF WorkerAuditIsCurrent
  <2>1. up /\ running' = running /\ phase = "open"
    BY <1>1, HeardFacts, PeopleFacts
  <2>2. ASSUME NEW p \in logged, newest' = doing[p].ref
        PROVE  Outcome(p) \in audit' /\ Outcome(p).ref = newest' /\ Outcome(p).shows = Shown(running')
    BY <1>1, <2>1, <2>2, OutcomeFacts DEF Put
  <2>3. CASE newest' = newest /\ logged = {}
    <3>1. \A p \in People : doing[p].what # "stop"
      BY <2>3
    <3>2. audit' = audit
      BY <1>1, <2>3 DEF Put
    <3>. QED
      BY <2>1, <2>3, <3>1, <3>2 DEF CIInv, WorkerAuditIsCurrent
  <2>. QED
    BY <1>5, <2>2, <2>3
<1>. QED
  BY <1>7, <1>8, <1>9, <1>10, <1>11, <1>12, <1>13 DEF CIInv

\* The end of a post by hand or of a settlement: who waited for it is free.
LEMMA PosterEndsKeeps ==
  ASSUME CIInv, IInv, NEW c \in Posters, Heard(c), call'[c] = Idle,
         \A p \in People :
           doing'[p] \in {doing[p], Free} /\ (doing'[p] # doing[p] =>
             (p = c /\ p \in Operators) \/ (p = Pilot /\ doing[p].what = "settle")),
         doing' \in [People -> Waiting \cup {Free}],
         AuditTypes', phase' = phase, pilot' \in PilotRecords,
         newest' \in Operators \cup Nat, WorkerAuditIsCurrent'
  PROVE  CIInv'
<1>1. c \in Callers /\ c # Worker
  BY PeopleFacts
<1>2. UNCHANGED <<batch, running, up, startedLate, hits, seen>> /\ call'[Worker] = call[Worker]
  BY <1>1 DEF Heard, Answered
<1>3. \A p \in People : doing'[p].what \in {"run", "stop"} => doing[p].what \in {"run", "stop"}
  BY DEF Free
<1>5. ConsoleTypes'
  BY <1>2 DEF CIInv, ConsoleTypes, Heard
<1>6. WaitsForBatch'
  BY <1>2, <1>3 DEF CIInv, WaitsForBatch, InFlight
<1>7. ReferencesAreOwn'
  BY PeopleFacts DEF CIInv, ReferencesAreOwn, Free
<1>8. RedeliveryIsWaitedFor'
  <2>. SUFFICES ASSUME NEW o \in Operators, call'[o] # Idle
               PROVE  doing'[o].what = "redeliver"
    BY DEF RedeliveryIsWaitedFor
  <2>1. doing[o].what = "redeliver"
    BY <1>1, HeardFacts, PeopleFacts DEF CIInv, RedeliveryIsWaitedFor
  <2>. QED
    BY <2>1, PeopleFacts
<1>9. AtRest'
  <2>1. phase = "closed" => \A d \in Posters : call'[d] = Idle
    BY <1>1, HeardFacts, PeopleFacts DEF CIInv, AtRest
  <2>. QED
    BY <1>2, <2>1 DEF CIInv, AtRest, InFlight
<1>. QED
  BY <1>5, <1>6, <1>7, <1>8, <1>9 DEF CIInv

LEMMA RedeliveryEndsKeeps ==
  ASSUME CIInv, IInv, NEW o \in Operators, Heard(o), call'[o] = Idle,
         NEW ok \in BOOLEAN, RedeliveryEnds(o, ok)
  PROVE  CIInv'
<1>1. o \in Posters /\ o \in People
  BY PeopleFacts
<1>2. doing' = [doing EXCEPT ![o] = Free] /\ doing \in [People -> Waiting \cup {Free}]
  BY DEF RedeliveryEnds, CIInv, ConsoleTypes
<1>3. doing[o].ref \in Operators \cup Nat
  BY <1>1, <1>2 DEF Waiting, Free
<1>4. UNCHANGED <<running, up, phase>>
  BY <1>1, PeopleFacts DEF Heard, Answered, RedeliveryEnds
<1>8. \A p \in People : doing[p].what = "stop" => doing'[p].what = "stop"
  <2>1. call[o] # Idle
    BY DEF Heard, Answered
  <2>2. doing[o].what = "redeliver"
    BY <2>1 DEF CIInv, RedeliveryIsWaitedFor
  <2>. QED
    BY <1>2, <2>2
<1>9. AuditTypes' /\ newest' \in Operators \cup Nat /\ WorkerAuditIsCurrent'
  <2>1. CASE ok
    <3>1. RecordAdminAudit(doing[o].ref, "redeliverNotification", "delivered")
      BY <2>1 DEF RedeliveryEnds
    <3>2. "redeliverNotification" \in Actions /\ "redeliverNotification" \notin WorkerActions
      BY DEF Actions, WorkerActions
    <3>. QED
      BY <1>3, <1>4, <1>8, <3>1, <3>2, RecordKeeps, RecordTells
  <2>2. CASE ~ok
    <3>1. UNCHANGED <<audit, newest>>
      BY <2>2 DEF RedeliveryEnds, NoAudit
    <3>. QED
      BY <1>4, <1>8, <3>1 DEF CIInv, ConsoleTypes, AuditTypes, WorkerAuditIsCurrent, Shown
  <2>. QED
    BY <2>1, <2>2
<1>5. doing' \in [People -> Waiting \cup {Free}]
  BY <1>2
<1>6. \A p \in People : doing'[p] \in {doing[p], Free} /\ (doing'[p] # doing[p] => p = o)
  BY <1>2
<1>7. phase' = phase /\ pilot' \in PilotRecords
  BY DEF RedeliveryEnds, CIInv, ConsoleTypes
<1>. QED
  BY <1>1, <1>5, <1>6, <1>7, <1>9, PosterEndsKeeps

LEMMA SettlementEndsKeeps ==
  ASSUME CIInv, IInv, Heard(Service), call'[Service] = Idle, SettlementEnds
  PROVE  CIInv'
<1>1. Service \in Posters /\ Pilot \in People
  BY PeopleFacts
<1>2. UNCHANGED <<audit, newest, phase, running, up>>
  BY <1>1, PeopleFacts DEF SettlementEnds, NoAudit, Heard, Answered
<1>3. pilot' \in PilotRecords
  BY PilotGoesOn DEF SettlementEnds, CIInv, ConsoleTypes
<1>4. doing \in [People -> Waiting \cup {Free}]
  BY DEF CIInv, ConsoleTypes
<1>5. /\ doing' \in [People -> Waiting \cup {Free}]
      /\ \A p \in People : doing'[p] \in {doing[p], Free} /\ (doing'[p] # doing[p] =>
           (p = Pilot /\ doing[p].what = "settle"))
  BY <1>1, <1>4 DEF SettlementEnds
<1>6. AuditTypes' /\ newest' \in Operators \cup Nat /\ WorkerAuditIsCurrent'
  <2>1. \A p \in People : doing[p].what = "stop" => doing'[p].what = "stop"
    BY <1>5
  <2>. QED
    BY <1>2, <2>1 DEF CIInv, ConsoleTypes, AuditTypes, WorkerAuditIsCurrent, Shown
<1>. QED
  BY <1>1, <1>2, <1>3, <1>5, <1>6, PosterEndsKeeps

\* The cycle or the batch goes on.
LEMMA GoesOnKeeps ==
  ASSUME CIInv, IInv, NEW c \in Callers, Heard(c),
         call'[c] # Idle \/ (c = Worker /\ batch' # {}),
         UNCHANGED <<doing, audit, newest, pilot, phase>>
  PROVE  CIInv'
<1>1. /\ \A d \in Callers : call'[d] # Idle => call[d] # Idle
      /\ running' => running
      /\ up' => up /\ running' = running
  BY HeardFacts
<1>2. UNCHANGED <<startedLate, hits, seen>>
  BY DEF Heard
<1>3. ConsoleTypes' /\ AuditTypes'
  BY <1>2 DEF CIInv, ConsoleTypes, AuditTypes, Heard
<1>4. c # Worker => InFlight' = InFlight
  BY DEF Heard, Answered, InFlight
<1>5. c = Worker => InFlight /\ InFlight'
  BY DEF Heard, Answered, InFlight
<1>6. WaitsForBatch'
  BY <1>1, <1>4, <1>5 DEF CIInv, WaitsForBatch
<1>7. ReferencesAreOwn' /\ RedeliveryIsWaitedFor'
  BY <1>1, PeopleFacts DEF CIInv, ReferencesAreOwn, RedeliveryIsWaitedFor
<1>8. AtRest'
  BY <1>1, <1>2, <1>4, <1>5, PeopleFacts DEF CIInv, AtRest
<1>9. WorkerAuditIsCurrent'
  BY <1>1 DEF CIInv, WorkerAuditIsCurrent, Shown
<1>. QED
  BY <1>3, <1>6, <1>7, <1>8, <1>9 DEF CIInv

LEMMA HearKeeps ==
  ASSUME CIInv, IInv, NEW c \in Callers, Hear(c)
  PROVE  CIInv'
<1>. DEFINE ok == heard[c] = "2xx"
<1>1. Answer(c, ok) /\ ok \in BOOLEAN
  BY DEF Hear
<1>2. heard' \in [Callers -> {"nothing", "2xx", "error"}]
  BY DEF Hear, CIInv, ConsoleTypes
<1>3. Heard(c)
  BY <1>1, <1>2, AnsweredFacts DEF Hear, Heard
<1>4. CASE call'[c] = Idle /\ c = Worker /\ batch' = {} /\ BatchEnds(ok)
  BY <1>1, <1>3, <1>4, BatchEndsKeeps
<1>5. CASE call'[c] = Idle /\ c \in Operators /\ RedeliveryEnds(c, ok)
  BY <1>1, <1>3, <1>5, RedeliveryEndsKeeps
<1>6. CASE call'[c] = Idle /\ c = Service /\ SettlementEnds
  BY <1>3, <1>6, SettlementEndsKeeps
<1>7. CASE /\ call'[c] # Idle \/ (c = Worker /\ batch' # {})
           /\ UNCHANGED <<doing, audit, newest, pilot, phase>>
  BY <1>3, <1>7, GoesOnKeeps
<1>. QED
  BY <1>4, <1>5, <1>6, <1>7 DEF Hear

-----------------------------------------------------------------------------
(* The close                                                               *)

LEMMA CloseKeeps == ASSUME CIInv, Close PROVE CIInv'
<1>1. UNCHANGED <<call, batch, up, doing, audit, newest, startedLate, heard, hits, seen, pilot>>
  BY DEF Close, receivers, client
<1>2. /\ running' = FALSE
      /\ phase' = IF InFlight THEN "stopping" ELSE "draining"
  BY DEF Close
<1>3. ConsoleTypes' /\ AuditTypes'
  BY <1>1, <1>2 DEF CIInv, ConsoleTypes, AuditTypes
<1>4. ReferencesAreOwn' /\ RedeliveryIsWaitedFor'
  BY <1>1 DEF CIInv, ReferencesAreOwn, RedeliveryIsWaitedFor
<1>5. WaitsForBatch' /\ AtRest'
  BY <1>1, <1>2 DEF CIInv, WaitsForBatch, AtRest, InFlight
<1>6. WorkerAuditIsCurrent'
  BY <1>2 DEF WorkerAuditIsCurrent
<1>. QED
  BY <1>3, <1>4, <1>5, <1>6 DEF CIInv

LEMMA DrainedKeeps == ASSUME CIInv, Drained PROVE CIInv'
<1>1. UNCHANGED <<call, batch, running, up, doing, audit, newest, startedLate, heard, hits, seen,
                  pilot>>
  BY DEF Drained, vars, worker, receivers, client
<1>2. phase = "draining" /\ phase' = "closed" /\ \A c \in Posters : call[c] = Idle
  BY DEF Drained
<1>3. ConsoleTypes' /\ AuditTypes'
  BY <1>1, <1>2 DEF CIInv, ConsoleTypes, AuditTypes
<1>4. ReferencesAreOwn' /\ RedeliveryIsWaitedFor'
  BY <1>1 DEF CIInv, ReferencesAreOwn, RedeliveryIsWaitedFor
<1>5. WaitsForBatch' /\ AtRest'
  BY <1>1, <1>2 DEF CIInv, WaitsForBatch, AtRest, InFlight
<1>6. WorkerAuditIsCurrent'
  BY <1>2 DEF WorkerAuditIsCurrent
<1>. QED
  BY <1>3, <1>4, <1>5, <1>6 DEF CIInv

-----------------------------------------------------------------------------
(* The outbox under the console                                            *)

\* No script says anything of the worker but whether it runs.
LEMMA ScriptsAreTyped == \A script \in Scripts : script.worker \in BOOLEAN
<1>1. \A steps, calls : Script(steps, calls).worker \in BOOLEAN
  BY DEF Script
<1>2. \A script \in {PaymentRecoveryPilot, ResourceRecoveryPilot, NotificationAdminDemo,
                     PaymentHarness, ResourceHarness} : script.worker \in BOOLEAN
  BY <1>1 DEF PaymentRecoveryPilot, ResourceRecoveryPilot, NotificationAdminDemo,
              PaymentHarness, ResourceHarness
<1>3. PaymentBilateralHarness.worker \in BOOLEAN /\ ResourceBilateralHarness.worker \in BOOLEAN
  BY DEF PaymentBilateralHarness, ResourceBilateralHarness, Script
<1>4. PaymentPilot.worker \in BOOLEAN /\ ResourcePilot.worker \in BOOLEAN
  BY DEF PaymentPilot, ResourcePilot, Script
<1>5. Unapproved(PaymentPilot).worker \in BOOLEAN /\ Unapproved(ResourcePilot).worker \in BOOLEAN
  BY DEF Unapproved, PaymentPilot, ResourcePilot, Script
<1>. QED
  BY <1>2, <1>3, <1>4, <1>5 DEF Scripts

LEMMA ConsoleInitIInv == ConsoleInit => IInv
<1>. SUFFICES ASSUME ConsoleInit PROVE IInv
  OBVIOUS
<1>1. running \in BOOLEAN
  BY ScriptsAreTyped DEF ConsoleInit
<1>2. TypeOK
  BY <1>1, OutboxAssumption
     DEF ConsoleInit, TypeOK, NoEntry, Idle, Entries, Reads, Cycles, Statuses, Callers
<1>3. DeliveredWasAccepted /\ DeadLettersCounted
  BY DEF ConsoleInit, NoEntry, DeliveredWasAccepted, DeadLettersCounted
<1>4. EntriesEarned
  BY WorthFacts DEF ConsoleInit, NoEntry, EntriesEarned
<1>5. BatchEarned /\ CallsEarned
  BY DEF ConsoleInit, BatchEarned, CallsEarned
<1>. QED
  BY <1>2, <1>3, <1>4, <1>5 DEF IInv

\* What the outbox keeps is kept while nothing of it moves.
LEMMA OutboxRests == ASSUME IInv, UNCHANGED vars PROVE IInv'
BY NextKeeps

\* The console's own steps on the worker: the timer is set or cleared, a batch
\* is read from the entries.
LEMMA WorkerRequestKeeps ==
  ASSUME IInv, UNCHANGED <<outbox, call, up, ghosts>>,
         batch' \subseteq batch \cup {Read(n) : n \in Notifications},
         running' \in BOOLEAN, watched' \in BOOLEAN,
         Command \/ UNCHANGED bounds
  PROVE  IInv'
<1>1. notifiesLeft' = notifiesLeft /\ {commandsLeft', crashesLeft'} \subseteq Nat
  BY DEF Command, bounds, IInv, TypeOK
<1>2. {watched', running', up'} \subseteq BOOLEAN
  BY DEF IInv, TypeOK
<1>. QED
  BY <1>1, <1>2, BatchKeeps

LEMMA QueryKeepsOutbox ==
  ASSUME IInv, NEW ref, NEW n \in Notifications, Command \/ UNCHANGED bounds,
         \/ GetNotificationDelivery(ref, n)
         \/ ListNotificationDeliveries(ref)
         \/ GetNotificationWorkerStatus(ref)
  PROVE  IInv'
<1>1. UNCHANGED <<outbox, call, batch, watched, running, up, ghosts>>
  BY DEF GetNotificationDelivery, ListNotificationDeliveries, GetNotificationWorkerStatus, worker
<1>. QED
  BY <1>1, WorkerRequestKeeps DEF IInv, TypeOK

LEMMA RunKeepsOutbox ==
  ASSUME IInv, NEW p, NEW ref, Command \/ UNCHANGED bounds, RunNotificationWorker(p, ref)
  PROVE  IInv'
<1>1. UNCHANGED <<outbox, call, running, up, ghosts>>
  BY DEF RunNotificationWorker
<1>2. watched' \in BOOLEAN /\ running' \in BOOLEAN
  BY <1>1 DEF RunNotificationWorker, IInv, TypeOK
<1>3. batch' \subseteq batch \cup {Read(n) : n \in Notifications}
  BY DEF RunNotificationWorker, Eligible, Failed
<1>. QED
  BY <1>1, <1>2, <1>3, WorkerRequestKeeps

\* The pilot's settlement is notified outside the bound on the others'.
LEMMA SettleKeepsOutbox == ASSUME IInv, Settle PROVE IInv'
<1>1. Service \in Callers /\ Mine \in Notifications
  BY PeopleFacts
<1>2. UNCHANGED <<outbox, batch, watched, running, up, posts, accepted, notifiesLeft,
                  commandsLeft, crashesLeft>>
  BY DEF Settle, worker, ghosts, bounds
<1>3. CASE Begin(Service, Unread(Mine))
  <2>1. Unread(Mine) \in Reads /\ posts[Unread(Mine).id] >= Worth(Unread(Mine).cycles)
    BY <1>1, WorthFacts DEF Unread, Reads, IInv, TypeOK
  <2>2. /\ call' \in [Callers -> Cycles \cup {Idle}]
        /\ \A d \in Callers :
             call'[d] # Idle => call'[d].upTo - call'[d].attempts \in 1..MaxAttempts
        /\ CallsEarned'
    BY <1>1, <1>2, <1>3, <2>1, BeginKeeps
  <2>3. TypeOK'
    BY <1>2, <2>2 DEF IInv, TypeOK
  <2>4. DeliveredWasAccepted' /\ EntriesEarned' /\ BatchEarned' /\ DeadLettersCounted'
    BY <1>2 DEF IInv, DeliveredWasAccepted, EntriesEarned, BatchEarned, DeadLettersCounted, Worth
  <2>. QED
    BY <2>2, <2>3, <2>4 DEF IInv
<1>4. CASE UNCHANGED call
  BY <1>2, <1>4, OutboxRests DEF vars, worker, ghosts, bounds
<1>. QED
  BY <1>3, <1>4 DEF Settle

-----------------------------------------------------------------------------
(* Every step                                                              *)

Joint == IInv /\ CIInv

LEMMA JointInit == ConsoleInit => Joint
BY ConsoleInitIInv, ConsoleInitCIInv DEF Joint

LEMMA OperatorStep ==
  ASSUME Joint, NEW o \in Operators,
         \/ ListDeliveries(o) \/ GetStatus(o) \/ Start(o) \/ Stop(o) \/ Run(o)
         \/ \E n \in Notifications : GetDelivery(o, n) \/ RedeliverNotification(o, n)
  PROVE  Joint'
<1>. USE DEF Joint
<1>1. o \in People /\ Own(o, o) /\ o \in Posters /\ Mine \in Notifications
  BY PeopleFacts DEF Own
<1>2. pilot \in PilotRecords
  BY DEF CIInv, ConsoleTypes
<1>3. CASE ListDeliveries(o)
  BY <1>1, <1>2, <1>3, QueryKeeps, QueryKeepsOutbox DEF ListDeliveries, Asks, OperatorOnly, client
<1>4. CASE GetStatus(o)
  BY <1>1, <1>2, <1>4, QueryKeeps, QueryKeepsOutbox DEF GetStatus, Asks, OperatorOnly, client
<1>5. ASSUME NEW n \in Notifications, GetDelivery(o, n) PROVE Joint'
  BY <1>1, <1>2, <1>5, QueryKeeps, QueryKeepsOutbox DEF GetDelivery, Asks, OperatorOnly, client
<1>6. CASE Start(o)
  <2>1. IInv'
    BY <1>6, WorkerRequestKeeps DEF Start, Asks, StartNotificationWorker, IInv, TypeOK
  <2>2. CIInv'
    BY <1>2, <1>6, StartKeeps DEF Start, Asks, OperatorOnly, client
  <2>. QED
    BY <2>1, <2>2
<1>7. CASE Stop(o)
  <2>1. IInv'
    BY <1>7, WorkerRequestKeeps DEF Stop, Asks, StopNotificationWorker, IInv, TypeOK
  <2>2. CIInv'
    BY <1>2, <1>7, StopKeeps DEF Stop, Asks, OperatorOnly, client
  <2>. QED
    BY <2>1, <2>2
<1>8. CASE Run(o)
  BY <1>1, <1>2, <1>8, RunKeeps, RunKeepsOutbox DEF Run, Asks, OperatorOnly, client
<1>9. ASSUME NEW n \in Notifications, RedeliverNotification(o, n) PROVE Joint'
  BY <1>1, <1>9, OperatorRedeliverKeeps, RedeliverKeeps DEF RedeliverNotification
<1>. QED
  BY <1>3, <1>4, <1>5, <1>6, <1>7, <1>8, <1>9

LEMMA PilotStep == ASSUME Joint, PilotNext PROVE Joint'
<1>. USE DEF Joint
<1>1. Pilot \in People /\ Own(Pilot, pilot.at) /\ Mine \in Notifications
  BY PeopleFacts DEF Own, CIInv, ConsoleTypes, PilotRecords
<1>2. Advanced \in PilotRecords /\ pilot \in PilotRecords
  BY PilotGoesOn DEF CIInv, ConsoleTypes
<1>3. CASE Decide
  BY <1>3, DecideKeeps, OutboxRests DEF Decide
<1>4. CASE CallService
  BY <1>4, CallServiceKeeps, OutboxRests DEF CallService
<1>5. CASE Settle
  BY <1>5, SettleKeeps, SettleKeepsOutbox
<1>6. CASE ReadDelivery
  <2>1. outbox[Mine].status \in Statuses
    BY <1>1 DEF IInv, TypeOK, Entries
  <2>2. pilot' \in PilotRecords
    BY <1>2, <1>6, <2>1 DEF ReadDelivery, PilotRecords
  <2>. QED
    BY <1>1, <1>6, <2>2, QueryKeeps, QueryKeepsOutbox DEF ReadDelivery, At, PilotOnly
<1>7. CASE ReadStatus
  BY <1>1, <1>2, <1>7, QueryKeeps, QueryKeepsOutbox DEF ReadStatus, At, PilotOnly
<1>8. CASE RunOnce
  BY <1>1, <1>2, <1>8, RunKeeps, RunKeepsOutbox DEF RunOnce, At, PilotOnly
<1>9. CASE WaitForNotification \/ GetActionStatus \/ ListAudit \/ GetEntry
  BY <1>9, ReadingKeeps, OutboxRests
     DEF WaitForNotification, GetActionStatus, ListAudit, GetEntry, ReadOnly
<1>. QED
  BY <1>3, <1>4, <1>5, <1>6, <1>7, <1>8, <1>9 DEF PilotNext

LEMMA PostStep == ASSUME Joint, PostNext PROVE Joint'
<1>. USE DEF Joint
<1>1. PICK c \in Callers : Receive(c) \/ Lose(c) \/ Hear(c)
  BY DEF PostNext
<1>2. CASE Receive(c) \/ Lose(c)
  BY <1>2, ReceiveKeeps, OutboxRests DEF Receive, Lose
<1>3. CASE Hear(c)
  <2>1. [Next]_vars
    BY <1>3 DEF Hear, Next, AnswerNext
  <2>. QED
    BY <1>3, <2>1, HearKeeps, NextKeeps
<1>. QED
  BY <1>1, <1>2, <1>3

LEMMA OutboxStep == ASSUME Joint, OutboxNext PROVE Joint'
<1>. USE DEF Joint
<1>1. UNCHANGED <<console, receivers, client>>
  BY DEF OutboxNext
<1>2. [Next]_vars
  BY DEF OutboxNext, Next, WorkerNext, EnvironmentNext
<1>3. IInv'
  BY <1>2, NextKeeps
<1>4. CASE Tick
  BY <1>1, <1>3, <1>4, TickKeeps
<1>5. CASE TakeNext
  BY <1>1, <1>3, <1>5, WorkerTakesKeeps
<1>6. ASSUME NEW n \in Notifications, BackoffPasses(n) PROVE Joint'
  BY <1>1, <1>3, <1>6, BackoffIsQuiet
<1>. QED
  BY <1>4, <1>5, <1>6 DEF OutboxNext

LEMMA CloseStep == ASSUME Joint, Close \/ Drained PROVE Joint'
<1>. USE DEF Joint
<1>1. CASE Close
  <2>1. IInv'
    BY <1>1, WorkerRequestKeeps DEF Close, IInv, TypeOK
  <2>. QED
    BY <1>1, <2>1, CloseKeeps
<1>2. CASE Drained
  BY <1>2, DrainedKeeps, OutboxRests DEF Drained
<1>. QED
  BY <1>1, <1>2

LEMMA JointStep == Joint /\ [ConsoleNext]_consoleVars => Joint'
<1>. SUFFICES ASSUME Joint, [ConsoleNext]_consoleVars PROVE Joint'
  OBVIOUS
<1>1. CASE OperatorNext
  BY <1>1, OperatorStep DEF OperatorNext
<1>2. ASSUME NEW n \in Notifications, OtherSettlement(n) PROVE Joint'
  BY <1>2, OtherSettlementKeeps, NotifyKeeps, PeopleFacts DEF OtherSettlement, Joint
<1>3. CASE PilotNext \/ PostNext \/ OutboxNext \/ Close \/ Drained
  BY <1>3, PilotStep, PostStep, OutboxStep, CloseStep
<1>4. CASE UNCHANGED consoleVars
  BY <1>4, OutboxRests, ScriptKeeps
     DEF consoleVars, client, Joint, CIInv, ConsoleTypes
<1>. QED
  BY <1>1, <1>2, <1>3, <1>4 DEF ConsoleNext

LEMMA JointHolds == ConsoleSpec => []Joint
BY JointInit, JointStep, PTL DEF ConsoleSpec

\* The server, its requests, its audit and the script are always well typed;
\* the log has one entry per request reference (the upsert of admin-audit.ts),
\* and whoever waits for a batch waits for one in flight.
THEOREM ConsoleTypeCorrect == ConsoleSpec => []ConsoleTypeOK
<1>1. Joint => ConsoleTypeOK
  BY DEF Joint, CIInv, ConsoleTypes, AuditTypes, WaitsForBatch, PilotRecords, ConsoleTypeOK
<1>. QED
  BY <1>1, JointHolds, PTL

\* The newest entry about the worker tells what it does, for any number of
\* operators whose commands wait for one batch and overtake each other (the
\* entries are written after the waits, in runtime.ts).
THEOREM AuditTellsTheWorker == ConsoleSpec => []WorkerAuditIsCurrent
<1>1. Joint => WorkerAuditIsCurrent
  BY DEF Joint, CIInv
<1>. QED
  BY <1>1, JointHolds, PTL

\* A closed server posts nothing any more, unless its worker was started while
\* it closed (the close of sqlite-server.ts waits for the worker first).
THEOREM ClosedServerIsQuiet == ConsoleSpec => []ClosedIsQuiet
<1>1. Joint => ClosedIsQuiet
  <2>. SUFFICES ASSUME Joint, phase = "closed", ~startedLate
               PROVE  ~running /\ batch = {} /\ \A c \in Callers : call[c] = Idle
    BY DEF ClosedIsQuiet
  <2>1. ~running /\ batch = {} /\ call[Worker] = Idle /\ \A c \in Posters : call[c] = Idle
    BY DEF Joint, CIInv, AtRest, InFlight
  <2>. QED
    BY <2>1 DEF Callers
<1>. QED
  BY <1>1, JointHolds, PTL

\* Under the operators and the scripts the outbox keeps what it promises: what
\* is delivered was accepted, and what is given up had all its posts.
THEOREM ConsoleKeepsOutbox == ConsoleSpec => [](DeliveredWasAccepted /\ DeadLetterIsEarned)
<1>1. IInv => DeadLetterIsEarned
  <2>. SUFFICES ASSUME IInv, NEW n \in Notifications, outbox[n].status = "dead-lettered"
               PROVE  posts[n] >= MaxCycles * MaxAttempts
    BY DEF DeadLetterIsEarned
  <2>1. outbox[n].cycles \in Nat /\ posts[n] \in Nat
    BY DEF IInv, TypeOK, Entries
  <2>2. Worth(outbox[n].cycles) >= Worth(MaxCycles)
    BY <2>1, WorthFacts, OutboxAssumption DEF IInv, DeadLettersCounted
  <2>3. /\ posts[n] >= Worth(outbox[n].cycles)
        /\ Worth(outbox[n].cycles) \in Nat /\ Worth(MaxCycles) \in Nat
    BY <2>1, WorthFacts, OutboxAssumption DEF IInv, EntriesEarned
  <2>4. posts[n] >= Worth(MaxCycles)
    BY <2>1, <2>2, <2>3
  <2>. QED
    BY <2>4 DEF Worth
<1>2. Joint => DeliveredWasAccepted /\ DeadLetterIsEarned
  BY <1>1 DEF Joint, IInv
<1>. QED
  BY <1>2, JointHolds, PTL

-----------------------------------------------------------------------------
(* The recovery pilot reaches its end                                      *)
(*                                                                         *)
(* Its script is followed step by step.  Until the settlement nobody posts *)
(* the notification, and its first cycle is posted by the service alone.   *)
(* From then on operators and the worker may post it at the same time, and *)
(* each of them has more attempts than the receiver still refuses: no      *)
(* cycle fails, so that no batch does, the entry goes from "failed" to     *)
(* "delivered" once, and the run the pilot waits for ends with it.         *)

\* The first failed cycle does not give the entry up, and the receiver refuses
\* fewer posts than two cycles make (the pilots' constants: one post, one
\* attempt, three cycles).
SecondCycleDelivers == FailFirst < 2 * MaxAttempts /\ MaxCycles >= 2

\* The position at which a recovery script settles the action.
SettleAt == IF pilot.script.steps[1] = "settle" THEN 1 ELSE 2

\* The receiver of the pilot's notification has lost no answer, and no other
\* notification was posted or skipped.
Undisturbed ==
  /\ up
  /\ Recovers
  /\ lossesLeft = MaxLosses
  /\ \A n \in Notifications \ {Mine} : outbox[n] = NoEntry /\ posts[n] = 0

\* Only a call in progress hears an answer, and losses are counted down.
AnswersHaveCalls ==
  /\ \A c \in Callers : heard[c] # "nothing" => call[c] # Idle
  /\ lossesLeft \in 0 .. MaxLosses

\* A call posts the pilot's notification.
Posts(c) == call[c] # Idle /\ call[c].id = Mine

\* Everyone but the service posts the pilot's notification only.
OnlyMine ==
  /\ \A r \in batch : r.id = Mine
  /\ \A c \in Callers \ {Service} : call[c] # Idle => call[c].id = Mine

\* Nobody but the service posts.
Alone == batch = {} /\ \A c \in Callers \ {Service} : call[c] = Idle

\* The receiver has refused what it refuses, or that many posts.
Refused(posted) == hits[Mine] = FailFirst \/ hits[Mine] >= posted

\* Where the pilot is: what it waits for is what its step does.
InStep ==
  /\ pilot.end = "none"
  /\ pilot.at >= 1
  /\ doing[Pilot].what \in {"nothing", "settle", "run"}
  /\ doing[Pilot].what = "settle" => pilot.at = SettleAt
  /\ doing[Pilot].what = "run" => pilot.at = SettleAt + 3 /\ doing[Pilot].ref = pilot.at

\* No external service is planned to fail.
ServicesWork ==
  \A i \in DOMAIN pilot.script.calls : outage[pilot.script.calls[i]] = 0

\* Before the settlement.
Unposted ==
  /\ outbox[Mine] = NoEntry
  /\ Alone
  /\ ~Posts(Service)

\* The first cycle, that of the settlement.
FirstCycle ==
  /\ outbox[Mine] = NoEntry
  /\ Alone
  /\ Posts(Service)
  /\ call[Service].cycles = 0
  /\ call[Service].upTo = MaxAttempts
  /\ Refused(call[Service].attempts)
  /\ heard[Service] = "error" => Refused(call[Service].attempts + 1)
  /\ heard[Service] = "2xx" => Mine \in seen

\* After it: whoever posts has one post more than the receiver refuses.
Recoverable ==
  /\ outbox[Mine].status \in {"failed", "delivered"}
  /\ outbox[Mine].status = "delivered" => Mine \in seen
  /\ Refused(MaxAttempts)
  /\ OnlyMine
  /\ ~Posts(Service)
  /\ \A c \in Callers :
       Posts(c) =>
         LET left == call[c].upTo - call[c].attempts
         IN  /\ hits[Mine] + left > FailFirst
             /\ heard[c] = "error" => hits[Mine] + left > FailFirst + 1
             /\ heard[c] = "2xx" => Mine \in seen

\* After the run.
Recovered ==
  /\ outbox[Mine].status = "delivered"
  /\ \E e \in audit : e.ref = SettleAt + 3 /\ e.action = "runNotificationWorker"

Underway ==
  /\ InStep
  /\ ServicesWork
  /\ Mine \in seen => hits[Mine] = FailFirst
  /\ pilot.at <= SettleAt /\ doing[Pilot].what # "settle" => Unposted
  /\ doing[Pilot].what = "settle" => FirstCycle
  /\ pilot.at > SettleAt => Recoverable
  /\ pilot.at > SettleAt + 3 => Recovered
  /\ pilot.at > SettleAt + 5 => pilot.read = "delivered"

Finished ==
  /\ doing[Pilot] = Free
  /\ pilot.end # "failed"
  /\ pilot.end = "none" => pilot.read = "delivered"

Course == Undisturbed => IF Over THEN Finished ELSE Underway

-----------------------------------------------------------------------------

\* What the steps of the recovery scripts are.
StepNames ==
  {"decide", "settle", "get", "status", "run", "wait", "list", "entry", "read"}

LEMMA RecoverySteps ==
  /\ Recovery \in Seq(StepNames) /\ Len(Recovery) = 6
  /\ Recovery[1] = "settle" /\ Recovery[2] = "get" /\ Recovery[3] = "status"
  /\ Recovery[4] = "run" /\ Recovery[5] = "wait" /\ Recovery[6] = "get"
BY DEF Recovery, StepNames

LEMMA Concatenated ==
  ASSUME NEW s \in Seq(StepNames), NEW t \in Seq(StepNames)
  PROVE  /\ s \o t \in Seq(StepNames)
         /\ Len(s \o t) = Len(s) + Len(t)
         /\ Len(s) \in Nat /\ Len(t) \in Nat
         /\ \A i \in 1 .. Len(s) : (s \o t)[i] = s[i]
         /\ \A i \in 1 .. Len(t) : (s \o t)[Len(s) + i] = t[i]
OBVIOUS

LEMMA PilotSteps ==
  ASSUME NEW steps, steps = <<"decide">> \o Recovery
  PROVE  /\ Len(steps) = 7 /\ DOMAIN steps = 1 .. 7
         /\ steps[1] = "decide" /\ steps[2] = "settle" /\ steps[3] = "get"
         /\ steps[4] = "status" /\ steps[5] = "run" /\ steps[6] = "wait" /\ steps[7] = "get"
<1>. DEFINE first == <<"decide">>
<1>1. first \in Seq(StepNames) /\ Len(first) = 1 /\ first[1] = "decide"
  BY DEF StepNames
<1>. HIDE DEF first
<1>2. steps = first \o Recovery
  BY DEF first
<1>3. /\ steps \in Seq(StepNames) /\ Len(steps) = 7
      /\ steps[1] = first[1]
      /\ \A i \in 1 .. 6 : steps[1 + i] = Recovery[i]
  <2>1. Recovery \in Seq(StepNames) /\ Len(Recovery) = 6
    BY RecoverySteps
  <2>2. /\ first \o Recovery \in Seq(StepNames)
        /\ Len(first \o Recovery) = Len(first) + Len(Recovery)
        /\ \A i \in 1 .. Len(first) : (first \o Recovery)[i] = first[i]
        /\ \A i \in 1 .. Len(Recovery) : (first \o Recovery)[Len(first) + i] = Recovery[i]
    BY <1>1, <2>1, Concatenated
  <2>. QED
    BY <1>1, <1>2, <2>1, <2>2
<1>4. /\ steps[1 + 1] = Recovery[1] /\ steps[1 + 2] = Recovery[2] /\ steps[1 + 3] = Recovery[3]
      /\ steps[1 + 4] = Recovery[4] /\ steps[1 + 5] = Recovery[5] /\ steps[1 + 6] = Recovery[6]
  BY <1>3
<1>5. DOMAIN steps = 1 .. 7
  BY <1>3
<1>. QED
  BY <1>1, <1>3, <1>4, <1>5, RecoverySteps

LEMMA DemoSteps ==
  ASSUME NEW steps, steps = AdminDemo
  PROVE  /\ Len(steps) = 8 /\ DOMAIN steps = 1 .. 8
         /\ steps[1] = "settle" /\ steps[2] = "get" /\ steps[3] = "status"
         /\ steps[4] = "run" /\ steps[5] = "wait" /\ steps[6] = "get"
         /\ steps[7] = "list" /\ steps[8] = "entry"
<1>. DEFINE more == <<"list", "entry">>
<1>1. more \in Seq(StepNames) /\ Len(more) = 2 /\ more[1] = "list" /\ more[2] = "entry"
  BY DEF StepNames
<1>2. steps = Recovery \o more
  BY DEF AdminDemo
<1>. HIDE DEF more
<1>3. /\ steps \in Seq(StepNames) /\ Len(steps) = 8
      /\ \A i \in 1 .. 6 : steps[i] = Recovery[i]
      /\ \A i \in 1 .. 2 : steps[6 + i] = more[i]
  <2>1. Recovery \in Seq(StepNames) /\ Len(Recovery) = 6
    BY RecoverySteps
  <2>2. /\ Recovery \o more \in Seq(StepNames)
        /\ Len(Recovery \o more) = Len(Recovery) + Len(more)
        /\ \A i \in 1 .. Len(Recovery) : (Recovery \o more)[i] = Recovery[i]
        /\ \A i \in 1 .. Len(more) : (Recovery \o more)[Len(Recovery) + i] = more[i]
    BY <1>1, <2>1, Concatenated
  <2>. QED
    BY <1>1, <1>2, <2>1, <2>2
<1>4. steps[6 + 1] = more[1] /\ steps[6 + 2] = more[2]
  BY <1>3
<1>5. DOMAIN steps = 1 .. 8
  BY <1>3
<1>. QED
  BY <1>1, <1>3, <1>4, <1>5, RecoverySteps

LEMMA ScriptsOfRecovery ==
  ASSUME NEW script \in Scripts, NEW i \in DOMAIN script.steps, script.steps[i] = "run"
  PROVE  /\ script.steps \in {<<"decide">> \o Recovery, AdminDemo}
         /\ script.outage = 0
<1>1. script \in {PaymentRecoveryPilot, ResourceRecoveryPilot, NotificationAdminDemo}
  <2>1. CASE script \in {PaymentHarness, ResourceHarness}
    BY <2>1 DEF PaymentHarness, ResourceHarness, Script
  <2>2. CASE script \in {PaymentBilateralHarness, ResourceBilateralHarness}
    BY <2>2 DEF PaymentBilateralHarness, ResourceBilateralHarness, Script
  <2>3. CASE script \in {PaymentPilot, ResourcePilot}
    BY <2>3 DEF PaymentPilot, ResourcePilot, Script
  <2>4. CASE script \in {Unapproved(PaymentPilot), Unapproved(ResourcePilot)}
    <3>1. PaymentPilot.steps = <<"decide", "settle", "read">>
      BY DEF PaymentPilot, Script
    <3>2. ResourcePilot.steps = <<"decide", "settle", "read">>
      BY DEF ResourcePilot, Script
    <3>3. /\ Unapproved(PaymentPilot).steps = PaymentPilot.steps
          /\ Unapproved(ResourcePilot).steps = ResourcePilot.steps
      BY DEF Unapproved, PaymentPilot, ResourcePilot, Script
    <3>. QED
      BY <2>4, <3>1, <3>2, <3>3
  <2>. QED
    BY <2>1, <2>2, <2>3, <2>4 DEF Scripts
<1>. QED
  BY <1>1 DEF PaymentRecoveryPilot, ResourceRecoveryPilot, NotificationAdminDemo, Script

\* Where the steps of a recovery script are.
LEMMA ScriptFacts ==
  ASSUME CIInv, Recovers
  PROVE  /\ SettleAt \in {1, 2}
         /\ Len(pilot.script.steps) \in Nat
         /\ Len(pilot.script.steps) >= SettleAt + 5
         /\ DOMAIN pilot.script.steps = 1 .. Len(pilot.script.steps)
         /\ Notifying
         /\ \A i \in 1 .. Len(pilot.script.steps) :
              LET step == pilot.script.steps[i]
              IN  /\ step = "decide" => i < SettleAt
                  /\ step = "settle" => i = SettleAt
                  /\ step = "get" => i \in {SettleAt + 1, SettleAt + 5}
                  /\ step = "status" => i = SettleAt + 2
                  /\ step = "run" => i = SettleAt + 3
                  /\ step = "wait" => i = SettleAt + 4
                  /\ step \in {"list", "entry"} => i > SettleAt + 5
                  /\ step # "read"
<1>1. pilot.script \in Scripts
  BY DEF CIInv, ConsoleTypes, PilotRecords
<1>2. pilot.script.steps \in {<<"decide">> \o Recovery, AdminDemo}
  BY <1>1, ScriptsOfRecovery DEF Recovers, Has
<1>. DEFINE steps == pilot.script.steps
<1>3. CASE steps = <<"decide">> \o Recovery
  <2>1. /\ Len(steps) = 7 /\ DOMAIN steps = 1 .. 7
        /\ steps[1] = "decide" /\ steps[2] = "settle" /\ steps[3] = "get" /\ steps[4] = "status"
        /\ steps[5] = "run" /\ steps[6] = "wait" /\ steps[7] = "get"
    BY <1>3, PilotSteps
  <2>2. SettleAt = 2
    BY <2>1 DEF SettleAt
  <2>3. Notifying
    <3>1. 6 \in DOMAIN steps /\ steps[6] = "wait"
      BY <2>1
    <3>. QED
      BY <3>1 DEF Notifying, Has
  <2>. HIDE DEF steps
  <2>4. ASSUME NEW i \in 1 .. 7
        PROVE  /\ steps[i] = "decide" => i < 2
               /\ steps[i] = "settle" => i = 2
               /\ steps[i] = "get" => i \in {3, 7}
               /\ steps[i] = "status" => i = 4
               /\ steps[i] = "run" => i = 5
               /\ steps[i] = "wait" => i = 6
               /\ steps[i] \notin {"list", "entry", "read"}
    <3>1. i \in {1, 2, 3, 4, 5, 6, 7}
      BY <2>4
    <3>. QED
      BY <2>1, <3>1
  <2>. QED
    BY <2>1, <2>2, <2>3, <2>4 DEF steps
<1>4. CASE steps = AdminDemo
  <2>1. /\ Len(steps) = 8 /\ DOMAIN steps = 1 .. 8
        /\ steps[1] = "settle" /\ steps[2] = "get" /\ steps[3] = "status" /\ steps[4] = "run"
        /\ steps[5] = "wait" /\ steps[6] = "get" /\ steps[7] = "list" /\ steps[8] = "entry"
    BY <1>4, DemoSteps
  <2>2. SettleAt = 1
    BY <2>1 DEF SettleAt
  <2>3. Notifying
    <3>1. 5 \in DOMAIN steps /\ steps[5] = "wait"
      BY <2>1
    <3>. QED
      BY <3>1 DEF Notifying, Has
  <2>. HIDE DEF steps
  <2>4. ASSUME NEW i \in 1 .. 8
        PROVE  /\ steps[i] = "settle" => i = 1
               /\ steps[i] = "get" => i \in {2, 6}
               /\ steps[i] = "status" => i = 3
               /\ steps[i] = "run" => i = 4
               /\ steps[i] = "wait" => i = 5
               /\ steps[i] \in {"list", "entry"} => i > 6
               /\ steps[i] \notin {"decide", "read"}
    <3>1. i \in {1, 2, 3, 4, 5, 6, 7, 8}
      BY <2>4
    <3>. QED
      BY <2>1, <3>1
  <2>. QED
    BY <2>1, <2>2, <2>3, <2>4 DEF steps
<1>. QED
  BY <1>2, <1>3, <1>4

\* Nothing has happened at the start.
LEMMA CourseInit == ConsoleInit => AnswersHaveCalls /\ Course
<1>. SUFFICES ASSUME ConsoleInit PROVE AnswersHaveCalls /\ Course
  OBVIOUS
<1>1. PICK script \in Scripts :
        /\ pilot = [script |-> script, at |-> 1, call |-> 1, tries |-> 0, read |-> "none",
                    end |-> "none"]
        /\ outage \in [{script.calls[i] : i \in DOMAIN script.calls} -> 0 .. script.outage]
  BY DEF ConsoleInit
<1>2. AnswersHaveCalls
  BY ConsoleAssumption DEF ConsoleInit, AnswersHaveCalls
<1>3. ASSUME Recovers
      PROVE  ~Over /\ Underway
  <2>1. CIInv
    BY ConsoleInitCIInv
  <2>2. SettleAt \in {1, 2} /\ Len(pilot.script.steps) \in Nat
        /\ Len(pilot.script.steps) >= SettleAt + 5
    BY <1>3, <2>1, ScriptFacts
  <2>3. pilot.at = 1 /\ pilot.end = "none" /\ pilot.script = script
    BY <1>1
  <2>4. ~Over
    BY <2>2, <2>3 DEF Over
  <2>5. script.outage = 0
    BY <1>3, <2>3, ScriptsOfRecovery DEF Recovers, Has
  <2>6. ServicesWork
    BY <1>1, <2>3, <2>5 DEF ServicesWork
  <2>7. doing[Pilot] = Free
    BY PeopleFacts DEF ConsoleInit
  <2>8. InStep
    BY <2>3, <2>7 DEF InStep, Free
  <2>9. Unposted /\ Mine \notin seen
    BY PeopleFacts DEF ConsoleInit, Unposted, Alone, Posts
  <2>. QED
    BY <2>2, <2>3, <2>4, <2>6, <2>7, <2>8, <2>9 DEF Underway, Free
<1>. QED
  BY <1>2, <1>3 DEF Course, Undisturbed

-----------------------------------------------------------------------------
(* What a step cannot undo                                                 *)

\* What an answer writes, and what becomes of the calls and the batch.
LEMMA AnswerWrites ==
  ASSUME IInv, NEW c \in Callers, NEW ok \in BOOLEAN, Answer(c, ok)
  PROVE  /\ call[c] # Idle /\ call[c].id \in Notifications
         /\ posts'[call[c].id] = posts[call[c].id] + 1
         /\ \A n \in Notifications :
              n # call[c].id => posts'[n] = posts[n] /\ outbox'[n] = outbox[n]
         /\ batch' \subseteq batch
         /\ \A d \in Callers : d # c => call'[d] \in {call[d], Idle}
         /\ c # Worker => /\ UNCHANGED batch
                          /\ \A d \in Callers : d # c => call'[d] = call[d]
         /\ \/ /\ ok
               /\ call'[c] = Idle
               /\ outbox'[call[c].id].status = "delivered"
            \/ /\ ~ok
               /\ UNCHANGED <<outbox, batch>>
               /\ call'[c] # Idle
               /\ call'[c].id = call[c].id
               /\ call'[c].cycles = call[c].cycles
               /\ call'[c].upTo = call[c].upTo
               /\ call'[c].attempts = call[c].attempts + 1
               /\ \A d \in Callers : d # c => call'[d] = call[d]
            \/ /\ ~ok
               /\ call'[c] = Idle
               /\ call[c].attempts + 1 >= call[c].upTo
               /\ outbox'[call[c].id].status =
                    IF call[c].cycles + 1 >= MaxCycles THEN "dead-lettered" ELSE "failed"
<1>1. /\ call[c] # Idle
      /\ posts' = [posts EXCEPT ![call[c].id] = @ + 1]
  BY DEF Answer, Count
<1>2. /\ call[c] \in Cycles
      /\ call[c].id \in Notifications
      /\ posts \in [Notifications -> Nat]
      /\ outbox \in [Notifications -> Entries]
      /\ call \in [Callers -> Cycles \cup {Idle}]
  BY <1>1, CallFacts DEF Cycles, IInv, TypeOK
<1>3. /\ posts'[call[c].id] = posts[call[c].id] + 1
      /\ \A n \in Notifications : n # call[c].id => posts'[n] = posts[n]
  BY <1>1, <1>2
<1>4. CASE ok /\ Accept(c)
  <2>1. outbox'[call[c].id].status = "delivered"
    BY <1>2, <1>4 DEF Accept, Write
  <2>. QED
    BY <1>1, <1>2, <1>3, <1>4, <2>1, AcceptLeaves
<1>5. CASE ~ok /\ Retry(c)
  <2>1. call' = [call EXCEPT ![c] = [call[c] EXCEPT !.attempts = call[c].attempts + 1]]
    BY <1>5 DEF Retry
  <2>2. /\ call'[c].cycles = call[c].cycles
        /\ call'[c].upTo = call[c].upTo
        /\ call'[c].attempts = call[c].attempts + 1
    BY <1>2, <2>1 DEF Cycles
  <2>. QED
    BY <1>1, <1>2, <1>3, <1>5, <2>2, RetryLeaves
<1>6. CASE ~ok /\ GiveUp(c)
  <2>1. /\ call[c].attempts + 1 >= call[c].upTo
        /\ outbox'[call[c].id].status =
             IF call[c].cycles + 1 >= MaxCycles THEN "dead-lettered" ELSE "failed"
    BY <1>2, <1>6 DEF GiveUp, Write
  <2>. QED
    BY <1>1, <1>2, <1>3, <1>6, <2>1, GiveUpLeaves
<1>. QED
  BY <1>4, <1>5, <1>6 DEF Answer

\* The script is chosen once.
LEMMA ScriptStays ==
  ASSUME CIInv, ConsoleNext
  PROVE  pilot'.script = pilot.script
<1>1. pilot \in PilotRecords
  BY DEF CIInv, ConsoleTypes
<1>2. /\ Advanced.script = pilot.script
      /\ FailedPilot.script = pilot.script
      /\ [pilot EXCEPT !.end = "undecided"].script = pilot.script
      /\ [pilot EXCEPT !.tries = @ + 1].script = pilot.script
      /\ [pilot EXCEPT !.call = @ + 1, !.tries = 0].script = pilot.script
      /\ [Advanced EXCEPT !.read = outbox[Mine].status].script = pilot.script
  BY <1>1 DEF PilotRecords, Advanced, FailedPilot
<1>3. \A ok \in BOOLEAN : Proceed(ok).script = pilot.script
  BY <1>2 DEF Proceed
<1>4. CASE OperatorNext
  BY <1>4 DEF OperatorNext, ListDeliveries, GetStatus, Start, Stop, Run, GetDelivery,
              RedeliverNotification, OperatorOnly, client
<1>5. CASE \E n \in Notifications : OtherSettlement(n)
  BY <1>5 DEF OtherSettlement, client
<1>6. CASE PilotNext
  <2>1. CASE Decide
    BY <2>1, <1>2 DEF Decide
  <2>2. CASE CallService
    <3>1. pilot' \in {[pilot EXCEPT !.tries = @ + 1], [pilot EXCEPT !.call = @ + 1, !.tries = 0],
                      FailedPilot}
      BY <2>2 DEF CallService
    <3>. QED
      BY <3>1, <1>2
  <2>3. CASE Settle
    BY <2>3, <1>2 DEF Settle
  <2>4. CASE ReadDelivery
    BY <2>4, <1>2 DEF ReadDelivery
  <2>5. CASE ReadStatus \/ RunOnce \/ GetActionStatus \/ ListAudit
    BY <2>5, <1>2 DEF ReadStatus, RunOnce, GetActionStatus, ListAudit
  <2>6. CASE WaitForNotification
    <3>1. pilot' \in {Advanced, FailedPilot}
      BY <2>6 DEF WaitForNotification, Proceed
    <3>. QED
      BY <3>1, <1>2
  <2>7. CASE GetEntry
    <3>1. pilot' \in {Advanced, FailedPilot}
      BY <2>7 DEF GetEntry, Proceed
    <3>. QED
      BY <3>1, <1>2
  <2>. QED
    BY <1>6, <2>1, <2>2, <2>3, <2>4, <2>5, <2>6, <2>7 DEF PilotNext
<1>7. CASE PostNext
  <2>1. PICK c \in Callers : Receive(c) \/ Lose(c) \/ Hear(c)
    BY <1>7 DEF PostNext
  <2>2. CASE Receive(c) \/ Lose(c)
    BY <2>2 DEF Receive, Lose, client
  <2>3. CASE Hear(c)
    <3>1. pilot' \in {pilot, Advanced, Proceed(TRUE), Proceed(FALSE)}
      BY <2>3 DEF Hear, BatchEnds, RedeliveryEnds, SettlementEnds
    <3>. QED
      BY <3>1, <1>2, <1>3
  <2>. QED
    BY <2>1, <2>2, <2>3
<1>8. CASE OutboxNext \/ Close \/ Drained
  BY <1>8 DEF OutboxNext, Close, Drained, client
<1>. QED
  BY <1>4, <1>5, <1>6, <1>7, <1>8 DEF ConsoleNext

\* A process that has ended stays ended, an answer that was lost stays lost, and
\* a notification that was posted or has an entry keeps that.
LEMMA StepIsForward ==
  ASSUME Joint, AnswersHaveCalls, ConsoleNext
  PROVE  /\ up' => up
         /\ lossesLeft' <= lossesLeft /\ lossesLeft' \in 0 .. MaxLosses
         /\ \A n \in Notifications :
              /\ posts'[n] >= posts[n]
              /\ outbox'[n] = NoEntry => outbox[n] = NoEntry
<1>1. /\ \A n \in Notifications : posts[n] \in Nat
      /\ outbox \in [Notifications -> Entries]
      /\ lossesLeft \in 0 .. MaxLosses
      /\ MaxLosses \in Nat
  BY ConsoleAssumption DEF Joint, IInv, TypeOK, AnswersHaveCalls
<1>2. ASSUME UNCHANGED <<up, lossesLeft, posts, outbox>>
      PROVE  /\ up' => up
             /\ lossesLeft' <= lossesLeft /\ lossesLeft' \in 0 .. MaxLosses
             /\ \A n \in Notifications :
                  /\ posts'[n] >= posts[n]
                  /\ outbox'[n] = NoEntry => outbox[n] = NoEntry
  BY <1>1, <1>2
<1>3. CASE OperatorNext
  <2>1. PICK o \in Operators :
          \/ ListDeliveries(o) \/ GetStatus(o) \/ Start(o) \/ Stop(o) \/ Run(o)
          \/ \E n \in Notifications : GetDelivery(o, n) \/ RedeliverNotification(o, n)
    BY <1>3 DEF OperatorNext
  <2>2. UNCHANGED lossesLeft
    BY <2>1 DEF ListDeliveries, GetStatus, Start, Stop, Run, GetDelivery,
                RedeliverNotification, OperatorOnly
  <2>3. UNCHANGED <<up, posts, outbox>>
    BY <2>1 DEF ListDeliveries, GetStatus, Start, Stop, Run, GetDelivery,
                RedeliverNotification, Redeliver, ListNotificationDeliveries,
                GetNotificationWorkerStatus, StartNotificationWorker,
                StopNotificationWorker, RunNotificationWorker,
                GetNotificationDelivery, ghosts
  <2>. QED
    BY <1>2, <2>2, <2>3
<1>4. ASSUME NEW m \in Notifications, OtherSettlement(m)
      PROVE  /\ up' => up
             /\ lossesLeft' <= lossesLeft /\ lossesLeft' \in 0 .. MaxLosses
             /\ \A n \in Notifications :
                  /\ posts'[n] >= posts[n]
                  /\ outbox'[n] = NoEntry => outbox[n] = NoEntry
  <2>1. UNCHANGED <<up, lossesLeft, posts>>
    BY <1>4 DEF OtherSettlement, Notify, ghosts
  <2>2. outbox' = outbox \/ outbox' = [outbox EXCEPT ![m] = SkippedEntry]
    BY <1>4 DEF OtherSettlement, Notify
  <2>3. SkippedEntry # NoEntry
    BY DEF SkippedEntry, NoEntry
  <2>. QED
    BY <1>1, <2>1, <2>2, <2>3
<1>5. CASE PilotNext
  <2>1. UNCHANGED <<up, posts, outbox, lossesLeft>>
    BY <1>5 DEF PilotNext, Decide, CallService, Settle, ReadDelivery, ReadStatus, RunOnce,
                WaitForNotification, GetActionStatus, ListAudit, GetEntry, ReadOnly, PilotOnly,
                GetNotificationDelivery, GetNotificationWorkerStatus, RunNotificationWorker,
                vars, ghosts
  <2>. QED
    BY <1>2, <2>1
<1>6. CASE PostNext
  <2>1. PICK c \in Callers : Receive(c) \/ Lose(c) \/ Hear(c)
    BY <1>6 DEF PostNext
  <2>2. CASE Receive(c)
    BY <1>2, <2>2 DEF Receive, vars, ghosts
  <2>3. CASE Lose(c)
    <3>1. UNCHANGED <<up, posts, outbox>>
      BY <2>3 DEF Lose, vars, ghosts
    <3>2. lossesLeft' = lossesLeft \/ (lossesLeft > 0 /\ lossesLeft' = lossesLeft - 1)
      BY <1>1, <2>3 DEF Lose
    <3>. QED
      BY <1>1, <3>1, <3>2
  <2>4. CASE Hear(c)
    <3>. DEFINE ok == heard[c] = "2xx"
    <3>1. Answer(c, ok) /\ ok \in BOOLEAN /\ UNCHANGED lossesLeft
      BY <2>4 DEF Hear
    <3>2. /\ call[c] # Idle /\ call[c].id \in Notifications
          /\ posts'[call[c].id] = posts[call[c].id] + 1
          /\ \A n \in Notifications :
               n # call[c].id => posts'[n] = posts[n] /\ outbox'[n] = outbox[n]
          /\ \/ outbox'[call[c].id].status = "delivered"
             \/ outbox' = outbox
             \/ outbox'[call[c].id].status =
                  IF call[c].cycles + 1 >= MaxCycles THEN "dead-lettered" ELSE "failed"
      BY <3>1, AnswerWrites DEF Joint
    <3>3. NoEntry.status = "none"
      BY DEF NoEntry
    <3>4. outbox'[call[c].id] = NoEntry => outbox[call[c].id] = NoEntry
      BY <3>2, <3>3
    <3>5. up' => up
      BY <3>1, AnsweredFacts DEF Joint, Answered
    <3>. QED
      BY <1>1, <3>1, <3>2, <3>4, <3>5
  <2>. QED
    BY <2>1, <2>2, <2>3, <2>4
<1>7. CASE OutboxNext
  <2>1. UNCHANGED lossesLeft
    BY <1>7 DEF OutboxNext
  <2>2. CASE Tick \/ TakeNext
    BY <1>2, <2>1, <2>2 DEF Tick, TakeNext, ghosts
  <2>3. ASSUME NEW m \in Notifications, BackoffPasses(m)
        PROVE  /\ UNCHANGED <<up, posts>>
               /\ \A n \in Notifications : outbox'[n] = NoEntry => outbox[n] = NoEntry
    <3>1. outbox[m].status = "failed" /\ UNCHANGED <<up, posts>>
      BY <2>3 DEF BackoffPasses, Failed, ghosts
    <3>2. /\ outbox'[m].status = "failed"
          /\ \A n \in Notifications : n # m => outbox'[n] = outbox[n]
      BY <1>1, <2>3, <3>1 DEF BackoffPasses, Entries
    <3>3. NoEntry.status = "none"
      BY DEF NoEntry
    <3>. QED
      BY <3>1, <3>2, <3>3
  <2>. QED
    BY <1>1, <1>7, <2>1, <2>2, <2>3 DEF OutboxNext
<1>8. CASE Close \/ Drained
  BY <1>2, <1>8 DEF Close, Drained, vars, ghosts
<1>. QED
  BY <1>3, <1>4, <1>5, <1>6, <1>7, <1>8 DEF ConsoleNext

\* What is undisturbed after a step was undisturbed before it.
LEMMA UndisturbedBefore ==
  ASSUME Joint, AnswersHaveCalls, ConsoleNext, Undisturbed'
  PROVE  Undisturbed
<1>1. pilot'.script = pilot.script
  BY ScriptStays DEF Joint
<1>2. Recovers
  BY <1>1 DEF Undisturbed, Recovers, Has
<1>3. up /\ lossesLeft = MaxLosses
  BY StepIsForward, ConsoleAssumption DEF Undisturbed, AnswersHaveCalls
<1>4. ASSUME NEW n \in Notifications \ {Mine}
      PROVE  outbox[n] = NoEntry /\ posts[n] = 0
  <2>1. outbox'[n] = NoEntry /\ posts'[n] = 0
    BY <1>4 DEF Undisturbed
  <2>2. outbox[n] = NoEntry /\ posts'[n] >= posts[n]
    BY <2>1, StepIsForward
  <2>3. posts[n] \in Nat
    BY DEF Joint, IInv, TypeOK
  <2>. QED
    BY <2>1, <2>2, <2>3
<1>. QED
  BY <1>2, <1>3, <1>4 DEF Undisturbed

\* While the process runs on, an answer changes its own call only.
LEMMA AnswerKeepsOthers ==
  ASSUME IInv, NEW c \in Callers, NEW ok \in BOOLEAN, Answer(c, ok), up'
  PROVE  \A d \in Callers : d # c => call'[d] = call[d]
<1>1. call[c] # Idle /\ call \in [Callers -> Cycles \cup {Idle}]
  BY DEF Answer, IInv, TypeOK
<1>2. CASE Accept(c) \/ Retry(c)
  BY <1>1, <1>2 DEF Accept, Retry
<1>3. CASE GiveUp(c)
  BY <1>1, <1>3 DEF GiveUp, Throw, Dead
<1>. QED
  BY <1>2, <1>3 DEF Answer

\* Losses are counted down, and a call that ends forgets what it heard.
LEMMA AnswersHaveCallsStep ==
  ASSUME Joint, AnswersHaveCalls, ConsoleNext
  PROVE  AnswersHaveCalls'
<1>1. lossesLeft' \in 0 .. MaxLosses
  BY StepIsForward
<1>2. ASSUME \A c \in Callers : call[c] # Idle => call'[c] # Idle, heard' = heard
      PROVE  AnswersHaveCalls'
  BY <1>1, <1>2 DEF AnswersHaveCalls
<1>3. call \in [Callers -> Cycles \cup {Idle}] /\ heard \in [Callers -> {"nothing", "2xx", "error"}]
  BY DEF Joint, IInv, TypeOK, CIInv, ConsoleTypes
<1>4. ASSUME NEW c \in Callers, NEW r \in Reads, Begin(c, r)
      PROVE  \A d \in Callers : call[d] # Idle => call'[d] # Idle
  BY <1>4, BegunFacts DEF Joint
<1>5. CASE OperatorNext
  <2>1. PICK o \in Operators :
          \/ ListDeliveries(o) \/ GetStatus(o) \/ Start(o) \/ Stop(o) \/ Run(o)
          \/ \E n \in Notifications : GetDelivery(o, n) \/ RedeliverNotification(o, n)
    BY <1>5 DEF OperatorNext
  <2>2. heard' = heard
    BY <2>1 DEF ListDeliveries, GetStatus, Start, Stop, Run, GetDelivery,
                RedeliverNotification, OperatorOnly, receivers
  <2>3. CASE call' = call
    BY <1>2, <2>2, <2>3
  <2>4. ASSUME NEW n \in Notifications, RedeliverNotification(o, n)
        PROVE  AnswersHaveCalls'
    <3>1. Begin(o, Read(n)) /\ Read(n) \in Reads /\ o \in Callers
      BY <2>4, ReadEarned, PeopleFacts DEF Joint, RedeliverNotification, Redeliver
    <3>. QED
      BY <1>2, <1>4, <2>2, <3>1
  <2>. QED
    BY <2>1, <2>3, <2>4
       DEF ListDeliveries, GetStatus, Start, Stop, Run, GetDelivery,
           ListNotificationDeliveries, GetNotificationWorkerStatus, StartNotificationWorker,
           StopNotificationWorker, RunNotificationWorker, GetNotificationDelivery
<1>6. ASSUME NEW n \in Notifications, OtherSettlement(n)
      PROVE  AnswersHaveCalls'
  <2>1. heard' = heard /\ (Begin(Service, Unread(n)) \/ call' = call)
    BY <1>6 DEF OtherSettlement, Notify, receivers
  <2>. QED
    BY <1>2, <1>4, <2>1, UnreadFacts, PeopleFacts
<1>7. CASE PilotNext
  <2>1. heard' = heard
    BY <1>7 DEF PilotNext, Decide, CallService, Settle, ReadDelivery, ReadStatus, RunOnce,
                WaitForNotification, GetActionStatus, ListAudit, GetEntry, ReadOnly, PilotOnly,
                receivers
  <2>2. Begin(Service, Unread(Mine)) \/ call' = call
    BY <1>7 DEF PilotNext, Decide, CallService, Settle, ReadDelivery, ReadStatus, RunOnce,
                WaitForNotification, GetActionStatus, ListAudit, GetEntry, ReadOnly, PilotOnly,
                GetNotificationDelivery, GetNotificationWorkerStatus, RunNotificationWorker, vars
  <2>. QED
    BY <1>2, <1>4, <2>1, <2>2, UnreadFacts, PeopleFacts
<1>8. CASE PostNext
  <2>1. PICK c \in Callers : Receive(c) \/ Lose(c) \/ Hear(c)
    BY <1>8 DEF PostNext
  <2>2. CASE Receive(c) \/ Lose(c)
    <3>1. /\ call' = call /\ call[c] # Idle
          /\ \A d \in Callers : d # c => heard'[d] = heard[d]
      BY <1>3, <2>2 DEF Receive, Lose, vars
    <3>. QED
      BY <1>1, <3>1 DEF AnswersHaveCalls
  <2>3. CASE Hear(c)
    <3>. DEFINE ok == heard[c] = "2xx"
    <3>1. Answer(c, ok) /\ ok \in BOOLEAN
      BY <2>3 DEF Hear
    <3>2. CASE ~up'
      <4>1. \A d \in Callers : heard'[d] = "nothing"
        BY <2>3, <3>2 DEF Hear
      <4>. QED
        BY <1>1, <4>1 DEF AnswersHaveCalls
    <3>3. CASE up'
      <4>1. heard' = [heard EXCEPT ![c] = "nothing"]
        BY <2>3, <3>3 DEF Hear
      <4>2. \A d \in Callers : d # c => call'[d] = call[d]
        BY <3>1, <3>3, AnswerKeepsOthers DEF Joint
      <4>. QED
        BY <1>1, <1>3, <4>1, <4>2 DEF AnswersHaveCalls
    <3>. QED
      BY <3>2, <3>3
  <2>. QED
    BY <2>1, <2>2, <2>3
<1>9. CASE OutboxNext
  <2>1. heard' = heard
    BY <1>9 DEF OutboxNext, receivers
  <2>2. CASE TakeNext
    <3>1. PICK r \in batch : Begin(Worker, r)
      BY <2>2 DEF TakeNext
    <3>2. r \in Reads /\ Worker \in Callers
      BY PeopleFacts DEF Joint, IInv, TypeOK
    <3>. QED
      BY <1>2, <1>4, <2>1, <3>1, <3>2
  <2>3. CASE Tick \/ \E n \in Notifications : BackoffPasses(n)
    BY <1>2, <2>1, <2>3 DEF Tick, BackoffPasses
  <2>. QED
    BY <1>9, <2>2, <2>3 DEF OutboxNext
<1>10. CASE Close \/ Drained
  BY <1>2, <1>10 DEF Close, Drained, receivers, vars
<1>. QED
  BY <1>5, <1>6, <1>7, <1>8, <1>9, <1>10 DEF ConsoleNext

-----------------------------------------------------------------------------
(* What a step keeps of the course                                         *)

\* The script does not move, so nothing is where it was not.
LEMMA UnderwayIsCourse ==
  ASSUME Joint, Joint', Recovers, pilot'.script = pilot.script, Underway'
  PROVE  Course'
<1>1. SettleAt' = SettleAt
  BY DEF SettleAt
<1>2. SettleAt \in {1, 2} /\ Len(pilot.script.steps) \in Nat
      /\ Len(pilot.script.steps) >= SettleAt + 5
  BY ScriptFacts DEF Joint
<1>3. ASSUME Over' PROVE Finished'
  <2>1. InStep' /\ pilot'.end = "none"
    BY DEF Underway, InStep
  <2>2. pilot'.at \in Nat /\ doing'[Pilot] \in Waiting \cup {Free}
    BY PeopleFacts DEF Joint, CIInv, ConsoleTypes, PilotRecords
  <2>3. pilot'.at > SettleAt + 5
    BY <1>2, <1>3, <2>1, <2>2 DEF Over
  <2>4. pilot'.read = "delivered"
    BY <1>1, <2>3 DEF Underway
  <2>5. doing'[Pilot].what = "nothing"
    BY <1>1, <1>2, <2>1, <2>2, <2>3 DEF InStep
  <2>6. doing'[Pilot] = Free
    BY <2>2, <2>5, WaitingFacts
  <2>. QED
    BY <2>1, <2>4, <2>6 DEF Finished
<1>. QED
  BY <1>3 DEF Course

\* A step leaves each stage of the notification as it is.
StageKept ==
  /\ Unposted => Unposted'
  /\ FirstCycle => FirstCycle'
  /\ Recoverable => Recoverable'
  /\ outbox[Mine].status = "delivered" => outbox'[Mine].status = "delivered"
  /\ Mine \in seen' => hits'[Mine] = FailFirst

\* The entries under the pilot's numbers stay in the audit.
EntriesStay == \A e \in audit : e.ref \in Nat => e \in audit'

\* A step that is none of the pilot's.
LEMMA PilotRests ==
  ASSUME Joint, Joint', Recovers, Underway, UNCHANGED <<pilot, outage>>,
         doing'[Pilot] = doing[Pilot], StageKept, EntriesStay
  PROVE  Course'
<1>1. SettleAt' = SettleAt /\ SettleAt \in {1, 2}
  BY ScriptFacts DEF Joint, SettleAt
<1>2. InStep' /\ ServicesWork'
  BY <1>1 DEF Underway, InStep, ServicesWork
<1>3. Recovered => Recovered'
  <2>1. SettleAt + 3 \in Nat
    BY <1>1
  <2>. QED
    BY <1>1, <2>1 DEF Recovered, StageKept, EntriesStay
<1>4. Underway'
  BY <1>1, <1>2, <1>3 DEF Underway, StageKept
<1>. QED
  BY <1>4, UnderwayIsCourse

\* Nothing is done to the notification.
LEMMA StageRests ==
  ASSUME Underway, UNCHANGED <<call, batch, heard, hits, seen>>,
         outbox[Mine] = NoEntry => outbox'[Mine] = NoEntry,
         outbox'[Mine].status = outbox[Mine].status
  PROVE  StageKept
<1>1. /\ Alone => Alone'
      /\ OnlyMine => OnlyMine'
      /\ \A c \in Callers : Posts(c)' <=> Posts(c)
      /\ Posts(Service)' <=> Posts(Service)
      /\ \A k : Refused(k)' <=> Refused(k)
  BY DEF Alone, OnlyMine, Posts, Refused
<1>2. Unposted => Unposted'
  BY <1>1 DEF Unposted
<1>3. FirstCycle => FirstCycle'
  BY DEF FirstCycle, Alone, Posts, Refused
<1>4. Recoverable => Recoverable'
  BY <1>1 DEF Recoverable, Posts, Refused
<1>. QED
  BY <1>2, <1>3, <1>4 DEF StageKept, Underway

\* The notification is in one of three stages.
LEMMA Stages ==
  ASSUME Joint, Recovers, Underway
  PROVE  /\ \/ Unposted /\ pilot.at <= SettleAt
            \/ FirstCycle /\ doing[Pilot].what = "settle"
            \/ Recoverable /\ pilot.at > SettleAt
         /\ Unposted \/ FirstCycle => outbox[Mine].status = "none"
         /\ Recoverable => outbox[Mine].status \in {"failed", "delivered"}
<1>1. pilot.at \in Nat /\ SettleAt \in {1, 2}
  BY ScriptFacts DEF Joint, CIInv, ConsoleTypes, PilotRecords
<1>2. NoEntry.status = "none"
  BY DEF NoEntry
<1>. QED
  BY <1>1, <1>2 DEF Underway, Unposted, FirstCycle, Recoverable

\* Only the pilot's notification has an entry to read.
LEMMA OnlyMineHasEntry ==
  ASSUME Joint, Undisturbed
  PROVE  /\ \A n \in Notifications \ {Mine} : outbox[n].status = "none"
         /\ Failed \subseteq {Mine}
         /\ Eligible \subseteq Failed
         /\ Mine \in Failed => outbox[Mine].status = "failed"
BY DEF Undisturbed, NoEntry, Failed, Eligible

\* What is recorded under a reference leaves the other entries.
LEMMA RecordLeaves ==
  ASSUME NEW ref, NEW action, NEW shows, RecordAdminAudit(ref, action, shows)
  PROVE  /\ \A e \in audit : e.ref # ref => e \in audit'
         /\ Entry(ref, action, shows) \in audit'
BY DEF RecordAdminAudit, Put, Entry

\* A person who is not the pilot waits: the pilot does what it did.
LEMMA WaitLeaves ==
  ASSUME Joint, NEW o \in Operators, NEW what, NEW ref, Wait(o, what, ref)
  PROVE  doing'[Pilot] = doing[Pilot]
BY PeopleFacts DEF Joint, CIInv, ConsoleTypes, Wait

\* No operator moves the script or takes the place of its entries.
LEMMA OperatorLeaves ==
  ASSUME Joint, NEW o \in Operators,
         \/ ListDeliveries(o) \/ GetStatus(o) \/ Start(o) \/ Stop(o) \/ Run(o)
         \/ \E n \in Notifications : GetDelivery(o, n) \/ RedeliverNotification(o, n)
  PROVE  /\ UNCHANGED <<pilot, outage, heard, hits, seen, outbox>>
         /\ doing'[Pilot] = doing[Pilot]
         /\ EntriesStay
<1>1. UNCHANGED <<pilot, outage, heard, hits, seen, outbox>>
  BY DEF ListDeliveries, GetStatus, Start, Stop, Run, GetDelivery, RedeliverNotification,
         Redeliver, ListNotificationDeliveries, GetNotificationWorkerStatus,
         StartNotificationWorker, StopNotificationWorker, RunNotificationWorker,
         GetNotificationDelivery, OperatorOnly, receivers, client
<1>2. \A e \in audit : e.ref \in Nat => e.ref # o
  BY ConsoleAssumption
<1>3. ASSUME NEW action, NEW shows, RecordAdminAudit(o, action, shows)
      PROVE  EntriesStay
  BY <1>2, <1>3, RecordLeaves DEF EntriesStay
<1>4. ASSUME NoAudit
      PROVE  EntriesStay
  BY <1>4 DEF NoAudit, EntriesStay
<1>5. CASE ListDeliveries(o)
  BY <1>1, <1>3, <1>5 DEF ListDeliveries, ListNotificationDeliveries
<1>6. CASE GetStatus(o)
  BY <1>1, <1>3, <1>6 DEF GetStatus, GetNotificationWorkerStatus
<1>7. CASE Start(o)
  BY <1>1, <1>3, <1>7 DEF Start, StartNotificationWorker
<1>8. CASE Stop(o)
  BY <1>1, <1>3, <1>4, <1>8, WaitLeaves DEF Stop, StopNotificationWorker
<1>9. CASE Run(o)
  BY <1>1, <1>3, <1>4, <1>9, WaitLeaves DEF Run, RunNotificationWorker
<1>10. ASSUME NEW n \in Notifications, GetDelivery(o, n)
       PROVE  doing'[Pilot] = doing[Pilot] /\ EntriesStay
  BY <1>3, <1>10 DEF GetDelivery, GetNotificationDelivery
<1>11. ASSUME NEW n \in Notifications, RedeliverNotification(o, n)
       PROVE  doing'[Pilot] = doing[Pilot] /\ EntriesStay
  BY <1>4, <1>11, WaitLeaves DEF RedeliverNotification
<1>. QED
  BY <1>1, <1>5, <1>6, <1>7, <1>8, <1>9, <1>10, <1>11

\* Nor does anything else that is not an answer.
LEMMA OthersLeave ==
  ASSUME \/ \E n \in Notifications : OtherSettlement(n)
         \/ \E c \in Callers : Receive(c) \/ Lose(c)
         \/ OutboxNext \/ Close \/ Drained
  PROVE  UNCHANGED <<pilot, outage, doing, audit>> /\ EntriesStay
<1>1. UNCHANGED <<pilot, outage, doing, audit>>
  BY DEF OtherSettlement, Receive, Lose, OutboxNext, Close, Drained, console, client
<1>. QED
  BY <1>1 DEF EntriesStay

\* A cycle of the notification begins after the first one: it has more attempts
\* than the receiver still refuses.
LEMMA CycleBegins ==
  ASSUME Joint, AnswersHaveCalls, SecondCycleDelivers, Recovers, Underway, Recoverable,
         NEW c \in Callers \ {Service}, NEW r \in Reads, r.id = Mine, Begin(c, r),
         batch' \subseteq batch, UNCHANGED <<outbox, heard, hits, seen>>
  PROVE  StageKept
<1>1. /\ call[c] = Idle
      /\ call'[c] = CycleFrom(r)
      /\ \A d \in Callers \ {c} : call'[d] = call[d]
  BY BegunFacts DEF Begin, Joint, IInv, TypeOK
<1>2. /\ call'[c].id = Mine
      /\ call'[c].upTo - call'[c].attempts = MaxAttempts
  BY <1>1, OutboxAssumption DEF CycleFrom, Reads
<1>3. heard[c] = "nothing"
  BY <1>1 DEF AnswersHaveCalls, Joint, CIInv, ConsoleTypes
<1>4. hits[Mine] \in 0 .. FailFirst /\ FailFirst \in Nat /\ MaxAttempts \in Nat \ {0}
  BY PeopleFacts, ConsoleAssumption, OutboxAssumption DEF Joint, CIInv, ConsoleTypes
<1>5. hits[Mine] + MaxAttempts > FailFirst
  BY <1>4 DEF SecondCycleDelivers, Recoverable, Refused
<1>6. ASSUME NEW d \in Callers, Posts(d)'
      PROVE  LET left == call'[d].upTo - call'[d].attempts
             IN  /\ hits'[Mine] + left > FailFirst
                 /\ heard'[d] = "error" => hits'[Mine] + left > FailFirst + 1
                 /\ heard'[d] = "2xx" => Mine \in seen'
  <2>1. CASE d = c
    BY <1>2, <1>3, <1>5, <2>1
  <2>2. CASE d # c
    <3>1. call'[d] = call[d] /\ Posts(d)
      BY <1>1, <1>6, <2>2 DEF Posts
    <3>. QED
      BY <3>1 DEF Recoverable
  <2>. QED
    BY <2>1, <2>2
<1>7. OnlyMine'
  BY <1>1, <1>2 DEF Recoverable, OnlyMine
<1>8. ~Posts(Service)' /\ Refused(MaxAttempts)'
  BY <1>1, PeopleFacts DEF Recoverable, Posts, Refused
<1>9. Recoverable'
  BY <1>6, <1>7, <1>8 DEF Recoverable
<1>. QED
  BY <1>9, Stages DEF StageKept, Underway, Unposted, FirstCycle, Recoverable

\* The worker reads what it will post.
LEMMA BatchBegins ==
  ASSUME Joint, Recovers, Undisturbed, Underway, batch' = {Read(n) : n \in Eligible}, Eligible # {},
         UNCHANGED <<outbox, call, heard, hits, seen>>
  PROVE  StageKept
<1>1. Eligible = {Mine} /\ outbox[Mine].status = "failed"
  BY OnlyMineHasEntry
<1>2. Recoverable /\ ~Unposted /\ ~FirstCycle
  BY <1>1, Stages
<1>3. \A r \in batch' : r.id = Mine
  BY <1>1 DEF Read
<1>4. OnlyMine'
  BY <1>2, <1>3 DEF Recoverable, OnlyMine
<1>5. Recoverable'
  BY <1>2, <1>4 DEF Recoverable, Posts, Refused
<1>. QED
  BY <1>2, <1>5 DEF StageKept, Underway

-----------------------------------------------------------------------------
(* Each step, while the script runs                                        *)

\* What is known before a step that leaves the pilot undisturbed.
OnCourse ==
  Joint /\ AnswersHaveCalls /\ SecondCycleDelivers /\ Undisturbed /\ ~Over /\ Underway

LEMMA OperatorKeepsStage ==
  ASSUME OnCourse, NEW o \in Operators,
         \/ ListDeliveries(o) \/ GetStatus(o) \/ Start(o) \/ Stop(o) \/ Run(o)
         \/ \E n \in Notifications : GetDelivery(o, n) \/ RedeliverNotification(o, n)
  PROVE  StageKept
<1>. USE DEF OnCourse
<1>1. Recovers /\ UNCHANGED <<heard, hits, seen, outbox>>
  BY OperatorLeaves DEF Undisturbed
<1>2. CASE UNCHANGED <<call, batch>>
  BY <1>1, <1>2, StageRests
<1>3. CASE ListDeliveries(o) \/ GetStatus(o) \/ Start(o) \/ Stop(o)
            \/ \E n \in Notifications : GetDelivery(o, n)
  BY <1>2, <1>3 DEF ListDeliveries, GetStatus, Start, Stop, GetDelivery,
         ListNotificationDeliveries, GetNotificationWorkerStatus, StartNotificationWorker,
         StopNotificationWorker, GetNotificationDelivery, worker
<1>4. CASE Run(o)
  <2>1. UNCHANGED call /\ (UNCHANGED batch \/ (Eligible # {} /\ batch' = {Read(n) : n \in Eligible}))
    BY <1>4 DEF Run, RunNotificationWorker
  <2>. QED
    BY <1>1, <1>2, <2>1, BatchBegins
<1>5. ASSUME NEW n \in Notifications, RedeliverNotification(o, n)
      PROVE  StageKept
  <2>1. HasTarget(n) /\ Begin(o, Read(n)) /\ UNCHANGED batch
    BY <1>5 DEF RedeliverNotification, Redeliver, worker
  <2>2. n = Mine
    BY <2>1, OnlyMineHasEntry DEF HasTarget
  <2>3. Recoverable
    BY <1>1, <2>1, <2>2, Stages DEF HasTarget
  <2>4. o \in Callers \ {Service} /\ Read(n) \in Reads /\ Read(n).id = Mine
    BY <2>2, PeopleFacts, ReadEarned DEF Joint, Read
  <2>. QED
    BY <1>1, <2>1, <2>3, <2>4, CycleBegins
<1>. QED
  BY <1>3, <1>4, <1>5

LEMMA OtherSettlementKeepsStage ==
  ASSUME OnCourse, Undisturbed', NEW n \in Notifications, OtherSettlement(n)
  PROVE  StageKept
<1>. USE DEF OnCourse
<1>1. Recovers /\ n # Mine /\ UNCHANGED <<batch, heard, hits, seen>>
  BY DEF Undisturbed, OtherSettlement, Notify, worker, receivers
<1>2. Begin(Service, Unread(n)) /\ UNCHANGED outbox
  <2>1. outbox'[n] = NoEntry
    BY <1>1 DEF Undisturbed
  <2>2. SkippedEntry # NoEntry /\ outbox \in [Notifications -> Entries]
    BY DEF SkippedEntry, NoEntry, Joint, IInv, TypeOK
  <2>. QED
    BY <2>1, <2>2 DEF OtherSettlement, Notify
<1>3. Service \in Callers /\ Unread(n) \in Reads /\ Unread(n).id = n
  BY PeopleFacts, UnreadFacts DEF Unread
<1>4. /\ call[Service] = Idle
      /\ call'[Service] = CycleFrom(Unread(n))
      /\ \A d \in Callers \ {Service} : call'[d] = call[d]
  BY <1>2, <1>3, BegunFacts DEF Begin, Joint, IInv, TypeOK
<1>5. ~Posts(Service)' /\ ~Posts(Service)
  BY <1>1, <1>3, <1>4 DEF Posts, CycleFrom
<1>6. ~FirstCycle
  BY <1>5 DEF FirstCycle
<1>7. Unposted => Unposted'
  BY <1>1, <1>2, <1>4, <1>5 DEF Unposted, Alone
<1>8. Recoverable => Recoverable'
  <2>. SUFFICES ASSUME Recoverable PROVE Recoverable'
    OBVIOUS
  <2>1. OnlyMine'
    BY <1>1, <1>4 DEF Recoverable, OnlyMine
  <2>2. ASSUME NEW d \in Callers, Posts(d)'
        PROVE  Posts(d) /\ call'[d] = call[d]
    BY <1>4, <1>5, <2>2 DEF Posts
  <2>3. Refused(MaxAttempts)'
    BY <1>1 DEF Recoverable, Refused
  <2>. QED
    BY <1>1, <1>2, <1>5, <2>1, <2>2, <2>3 DEF Recoverable
<1>. QED
  BY <1>1, <1>2, <1>6, <1>7, <1>8 DEF StageKept, Underway

\* The receiver takes the post of c, or refuses one more than before.
LEMMA ReceiveKeepsStage ==
  ASSUME OnCourse, NEW c \in Callers, Receive(c)
  PROVE  StageKept
<1>. USE DEF OnCourse
<1>1. /\ Recovers
      /\ UNCHANGED <<call, batch, outbox>>
      /\ call[c] # Idle
      /\ heard[c] = "nothing"
  BY DEF Undisturbed, Receive, vars, worker
<1>2. call[c].id \in Notifications /\ Mine \in Notifications /\ Service \in Callers
  BY <1>1, CallFacts, PeopleFacts DEF Joint, Cycles
<1>3. /\ hits \in [Notifications -> 0 .. FailFirst]
      /\ heard \in [Callers -> {"nothing", "2xx", "error"}]
      /\ FailFirst \in Nat /\ hits[Mine] \in 0 .. FailFirst
  BY <1>2, ConsoleAssumption DEF Joint, CIInv, ConsoleTypes
<1>4. \A d \in Callers : d # c => heard'[d] = heard[d]
  BY <1>3 DEF Receive
<1>5. CASE call[c].id # Mine
  <2>1. hits'[Mine] = hits[Mine] /\ (Mine \in seen' <=> Mine \in seen)
    BY <1>2, <1>3, <1>5 DEF Receive
  <2>2. \A d \in Callers : Posts(d)' <=> Posts(d)
    BY <1>1 DEF Posts
  <2>3. \A d \in Callers : Posts(d) => heard'[d] = heard[d]
    BY <1>4, <1>5 DEF Posts
  <2>4. Unposted => Unposted'
    BY <1>1, <1>2, <2>2 DEF Unposted, Alone
  <2>5. FirstCycle => FirstCycle'
    BY <1>1, <1>2, <2>1, <2>2, <2>3 DEF FirstCycle, Alone, Refused
  <2>6. Recoverable => Recoverable'
    BY <1>1, <1>2, <2>1, <2>2, <2>3 DEF Recoverable, OnlyMine, Refused
  <2>. QED
    BY <1>1, <2>1, <2>4, <2>5, <2>6 DEF StageKept, Underway
<1>6. CASE call[c].id = Mine
  <2>1. Posts(c) /\ ~Unposted
    BY <1>1, <1>6 DEF Posts, Unposted, Alone
  <2>2. CASE Mine \in seen \/ hits[Mine] = FailFirst
    <3>1. hits[Mine] = FailFirst
      BY <2>2 DEF Underway
    <3>2. hits'[Mine] = FailFirst /\ Mine \in seen' /\ heard'[c] = "2xx"
      BY <1>2, <1>3, <1>6, <3>1 DEF Receive
    <3>3. FirstCycle => FirstCycle'
      <4>1. FirstCycle => c = Service
        BY <1>1 DEF FirstCycle, Alone
      <4>. QED
        BY <1>1, <1>2, <3>2, <4>1 DEF FirstCycle, Alone, Posts, Refused
    <3>4. Recoverable => Recoverable'
      <4>1. ASSUME NEW d \in Callers, Posts(d)', Recoverable
            PROVE  LET left == call'[d].upTo - call'[d].attempts
                   IN  /\ hits'[Mine] + left > FailFirst
                       /\ heard'[d] = "error" => hits'[Mine] + left > FailFirst + 1
                       /\ heard'[d] = "2xx" => Mine \in seen'
        <5>1. Posts(d) /\ call'[d] = call[d]
          BY <1>1, <4>1 DEF Posts
        <5>. QED
          BY <1>4, <3>1, <3>2, <4>1, <5>1 DEF Recoverable
      <4>. QED
        BY <1>1, <3>2, <4>1 DEF Recoverable, OnlyMine, Posts, Refused
    <3>. QED
      BY <1>1, <2>1, <3>2, <3>3, <3>4 DEF StageKept
  <2>3. CASE ~(Mine \in seen \/ hits[Mine] = FailFirst)
    <3>1. ~(Mine \in seen) /\ hits[Mine] < FailFirst
      BY <1>3, <2>3
    <3>2. hits'[Mine] = hits[Mine] + 1 /\ Mine \notin seen' /\ heard'[c] = "error"
      BY <1>2, <1>3, <1>6, <3>1 DEF Receive
    <3>3. FirstCycle => FirstCycle'
      <4>. SUFFICES ASSUME FirstCycle PROVE FirstCycle'
        OBVIOUS
      <4>1. c = Service
        BY <1>1 DEF FirstCycle, Alone
      <4>2. call[c].attempts \in Nat
        BY <1>1, CallFacts DEF Joint, Cycles
      <4>3. hits[Mine] >= call[c].attempts
        BY <2>3, <4>1 DEF FirstCycle, Refused
      <4>4. Refused(call[Service].attempts)' /\ Refused(call[Service].attempts + 1)'
        BY <1>1, <1>3, <3>2, <4>1, <4>2, <4>3 DEF Refused
      <4>. QED
        BY <1>1, <1>2, <3>2, <4>1, <4>4 DEF FirstCycle, Alone, Posts
    <3>4. Recoverable => Recoverable'
      <4>. SUFFICES ASSUME Recoverable PROVE Recoverable'
        OBVIOUS
      <4>1. ASSUME NEW d \in Callers, Posts(d)'
            PROVE  LET left == call'[d].upTo - call'[d].attempts
                   IN  /\ hits'[Mine] + left > FailFirst
                       /\ heard'[d] = "error" => hits'[Mine] + left > FailFirst + 1
                       /\ heard'[d] = "2xx" => Mine \in seen'
        <5>. DEFINE left == call[d].upTo - call[d].attempts
        <5>1. Posts(d) /\ call'[d] = call[d]
          BY <1>1, <4>1 DEF Posts
        <5>2. left \in 1 .. MaxAttempts /\ MaxAttempts \in Nat
          BY <5>1, CallFacts, OutboxAssumption DEF Joint, Posts
        <5>3. /\ hits[Mine] + left > FailFirst
              /\ heard[d] = "error" => hits[Mine] + left > FailFirst + 1
              /\ heard[d] # "2xx"
          BY <3>1, <5>1 DEF Recoverable
        <5>4. d = c \/ heard'[d] = heard[d]
          BY <1>4
        <5>. HIDE DEF left
        <5>5. hits'[Mine] + left > FailFirst + 1
          BY <1>3, <3>2, <5>2, <5>3
        <5>6. hits'[Mine] + left > FailFirst
          BY <1>3, <3>2, <5>2, <5>5
        <5>7. heard'[d] # "2xx"
          BY <3>2, <5>3, <5>4
        <5>. QED
          BY <5>1, <5>5, <5>6, <5>7 DEF left
      <4>2. Refused(MaxAttempts)'
        <5>1. hits[Mine] >= MaxAttempts
          BY <2>3 DEF Recoverable, Refused
        <5>. QED
          BY <1>3, <3>2, <5>1, OutboxAssumption DEF Refused
      <4>3. Mine \in seen <=> Mine \in seen'
        BY <3>1, <3>2
      <4>. QED
        BY <1>1, <4>1, <4>2, <4>3 DEF Recoverable, OnlyMine, Posts
    <3>. QED
      BY <1>1, <2>1, <3>2, <3>3, <3>4 DEF StageKept
  <2>. QED
    BY <2>2, <2>3
<1>. QED
  BY <1>5, <1>6

LEMMA OutboxKeepsStage ==
  ASSUME OnCourse, OutboxNext
  PROVE  StageKept
<1>. USE DEF OnCourse
<1>1. Recovers /\ UNCHANGED <<heard, hits, seen>>
  BY DEF Undisturbed, OutboxNext, receivers
<1>2. CASE Tick
  <2>1. /\ UNCHANGED <<outbox, call>>
        /\ UNCHANGED batch \/ (Eligible # {} /\ batch' = {Read(n) : n \in Eligible})
    BY <1>2 DEF Tick
  <2>. QED
    BY <1>1, <2>1, StageRests, BatchBegins
<1>3. CASE TakeNext
  <2>1. PICK r \in batch :
          /\ Begin(Worker, r) /\ batch' = batch \ {r} /\ UNCHANGED outbox
    BY <1>3 DEF TakeNext
  <2>2. Recoverable
    BY <1>1, <2>1, Stages DEF Unposted, FirstCycle, Alone
  <2>3. r \in Reads /\ r.id = Mine
    BY <2>1, <2>2 DEF Joint, IInv, TypeOK, Recoverable, OnlyMine
  <2>4. Worker \in Callers \ {Service} /\ batch' \subseteq batch
    BY <2>1, PeopleFacts
  <2>. QED
    BY <1>1, <2>1, <2>2, <2>3, <2>4, CycleBegins
<1>4. ASSUME NEW n \in Notifications, BackoffPasses(n)
      PROVE  StageKept
  <2>1. n \in Failed /\ UNCHANGED <<call, batch>>
        /\ outbox' = [outbox EXCEPT ![n].due = TRUE]
    BY <1>4 DEF BackoffPasses, worker
  <2>2. n = Mine /\ outbox[Mine].status = "failed"
    BY <2>1, OnlyMineHasEntry
  <2>3. outbox'[Mine].status = "failed"
    BY <2>1, <2>2 DEF Joint, IInv, TypeOK, Entries
  <2>4. NoEntry.status # "failed"
    BY DEF NoEntry
  <2>. QED
    BY <1>1, <2>1, <2>2, <2>3, <2>4, StageRests
<1>. QED
  BY <1>2, <1>3, <1>4 DEF OutboxNext

\* Every step that is neither the pilot's nor an answer.
LEMMA BystandersKeepCourse ==
  ASSUME OnCourse, Joint', Undisturbed',
         \/ OperatorNext
         \/ \E n \in Notifications : OtherSettlement(n)
         \/ \E c \in Callers : Receive(c) \/ Lose(c)
         \/ OutboxNext \/ Close \/ Drained
  PROVE  Course'
<1>. USE DEF OnCourse
<1>1. Recovers
  BY DEF Undisturbed
<1>2. CASE OperatorNext
  <2>1. PICK o \in Operators :
          \/ ListDeliveries(o) \/ GetStatus(o) \/ Start(o) \/ Stop(o) \/ Run(o)
          \/ \E n \in Notifications : GetDelivery(o, n) \/ RedeliverNotification(o, n)
    BY <1>2 DEF OperatorNext
  <2>2. StageKept
    BY <2>1, OperatorKeepsStage
  <2>3. UNCHANGED <<pilot, outage>> /\ doing'[Pilot] = doing[Pilot] /\ EntriesStay
    BY <2>1, OperatorLeaves
  <2>. QED
    BY <1>1, <2>2, <2>3, PilotRests
<1>3. ASSUME UNCHANGED <<pilot, outage, doing, audit>> /\ EntriesStay, StageKept
      PROVE  Course'
  BY <1>1, <1>3, PilotRests
<1>4. ASSUME NEW n \in Notifications, OtherSettlement(n)
      PROVE  Course'
  BY <1>3, <1>4, OthersLeave, OtherSettlementKeepsStage
<1>5. ASSUME NEW c \in Callers, Receive(c)
      PROVE  Course'
  BY <1>3, <1>5, OthersLeave, ReceiveKeepsStage
<1>6. ASSUME NEW c \in Callers, Lose(c)
      PROVE  FALSE
  <2>1. lossesLeft' = lossesLeft - 1
    BY <1>6 DEF Lose
  <2>. QED
    BY <2>1, ConsoleAssumption DEF Undisturbed
<1>7. CASE OutboxNext
  BY <1>3, <1>7, OthersLeave, OutboxKeepsStage
<1>8. CASE Close \/ Drained
  <2>1. UNCHANGED <<outbox, call, batch, heard, hits, seen>>
    BY <1>8 DEF Close, Drained, vars, worker, receivers
  <2>2. StageKept
    BY <2>1, StageRests
  <2>. QED
    BY <1>3, <1>8, <2>2, OthersLeave
<1>. QED
  BY <1>2, <1>4, <1>5, <1>6, <1>7, <1>8

-----------------------------------------------------------------------------
(* The answers, while the script runs                                      *)

\* A person's references are its own: no operator's outcome has a number.
LEMMA BatchEndsLeaves ==
  ASSUME Joint, NEW ok \in BOOLEAN, BatchEnds(ok)
  PROVE  /\ doing[Pilot].what \notin {"run", "stop"} =>
              doing'[Pilot] = doing[Pilot] /\ EntriesStay /\ UNCHANGED pilot
         /\ doing[Pilot].what = "run" =>
              /\ doing'[Pilot] = Free
              /\ pilot' = Proceed(ok)
              /\ ok => Entry(doing[Pilot].ref, "runNotificationWorker", Shown(running)) \in audit'
<1>. DEFINE waiting == {p \in People : doing[p].what \in {"run", "stop"}}
            logged == {p \in waiting : ok \/ doing[p].what = "stop"}
<1>1. /\ doing' = [p \in People |-> IF p \in waiting THEN Free ELSE doing[p]]
      /\ audit' = Put({Outcome(p) : p \in logged})
      /\ pilot' = IF Pilot \in waiting THEN Proceed(ok) ELSE pilot
  BY DEF BatchEnds
<1>2. Pilot \in People
  BY PeopleFacts
<1>3. ASSUME doing[Pilot].what \notin {"run", "stop"}
      PROVE  doing'[Pilot] = doing[Pilot] /\ EntriesStay /\ UNCHANGED pilot
  <2>1. Pilot \notin waiting
    BY <1>3
  <2>2. ASSUME NEW p \in logged
        PROVE  Outcome(p).ref \notin Nat
    <3>1. p \in Operators /\ doing[p] # Free /\ doing[p].what \in {"run", "stop"}
      BY <1>3 DEF People, Free
    <3>2. doing[p].ref = p
      BY <3>1 DEF Joint, CIInv, ReferencesAreOwn
    <3>3. Outcome(p).ref = p
      BY <3>1, <3>2, OutcomeFacts, PeopleFacts DEF Joint
    <3>. QED
      BY <3>1, <3>3, ConsoleAssumption
  <2>. HIDE DEF logged
  <2>3. ASSUME NEW e \in audit, e.ref \in Nat
        PROVE  e \in audit'
    BY <1>1, <2>2, <2>3 DEF Put
  <2>. QED
    BY <1>1, <1>2, <2>1, <2>3 DEF EntriesStay
<1>4. ASSUME doing[Pilot].what = "run"
      PROVE  /\ doing'[Pilot] = Free
             /\ pilot' = Proceed(ok)
             /\ ok => Entry(doing[Pilot].ref, "runNotificationWorker", Shown(running)) \in audit'
  <2>1. Pilot \in waiting
    BY <1>2, <1>4
  <2>2. ok => Outcome(Pilot) \in audit'
    BY <1>1, <2>1 DEF Put
  <2>3. Outcome(Pilot) = Entry(doing[Pilot].ref, "runNotificationWorker", Shown(running))
    BY <1>4 DEF Outcome
  <2>. QED
    BY <1>1, <1>2, <2>1, <2>2, <2>3
<1>. QED
  BY <1>3, <1>4

\* The first cycle is answered: it goes on, or the settlement is.
LEMMA FirstCycleHears ==
  ASSUME OnCourse, Joint', FirstCycle, doing[Pilot].what = "settle",
         up', NEW c \in Callers, Hear(c), call[c].id = Mine
  PROVE  Course'
<1>. USE DEF OnCourse
<1>1. Recovers /\ Service \in Callers /\ Mine \in Notifications /\ Pilot \in People
  BY PeopleFacts DEF Undisturbed
<1>. DEFINE ok == heard[c] = "2xx"
<1>2. /\ Answer(c, ok) /\ ok \in BOOLEAN /\ call[c] # Idle
      /\ heard[c] # "nothing"
      /\ heard' = [heard EXCEPT ![c] = "nothing"]
      /\ UNCHANGED <<hits, seen, outage>>
  BY DEF Hear, Answer
<1>3. c = Service
  BY <1>2 DEF FirstCycle, Alone
<1>4. heard \in [Callers -> {"nothing", "2xx", "error"}] /\ pilot \in PilotRecords
  BY DEF Joint, CIInv, ConsoleTypes
<1>5. heard'[c] = "nothing" /\ (ok \/ heard[c] = "error")
  BY <1>2, <1>4
<1>6. Alone'
  <2>1. batch' = {}
    BY <1>1, <1>2, AnswerWrites DEF Joint, FirstCycle, Alone
  <2>2. \A d \in Callers \ {Service} : call'[d] = Idle
    BY <1>2, <1>3, AnswerKeepsOthers DEF Joint, FirstCycle, Alone
  <2>. QED
    BY <2>1, <2>2 DEF Alone
<1>7. /\ call[c] \in Cycles
      /\ call[c].attempts \in Nat /\ call[c].upTo = MaxAttempts /\ call[c].cycles = 0
      /\ hits[Mine] \in 0 .. FailFirst /\ FailFirst \in Nat /\ MaxAttempts \in Nat \ {0}
  BY <1>1, <1>2, <1>3, CallFacts, ConsoleAssumption, OutboxAssumption
     DEF Joint, FirstCycle, Cycles, CIInv, ConsoleTypes
<1>8. ~ok => Refused(call[c].attempts + 1)
  BY <1>3, <1>5 DEF FirstCycle
<1>9. CASE call'[c] # Idle
  <2>1. /\ ~ok /\ UNCHANGED outbox
        /\ call'[c].id = call[c].id
        /\ call'[c].cycles = call[c].cycles
        /\ call'[c].upTo = call[c].upTo
        /\ call'[c].attempts = call[c].attempts + 1
    BY <1>2, <1>9, AnswerWrites DEF Joint
  <2>2. UNCHANGED <<doing, audit, pilot>>
    BY <1>3, <1>9, PeopleFacts DEF Hear
  <2>3. Refused(call[Service].attempts)'
    BY <1>2, <1>3, <1>8, <2>1 DEF Refused
  <2>4. FirstCycle'
    BY <1>1, <1>3, <1>5, <1>6, <1>7, <1>9, <2>1, <2>3 DEF FirstCycle, Posts
  <2>5. StageKept
    BY <1>1, <1>2, <2>1, <2>4, Stages DEF StageKept, FirstCycle, Unposted, Recoverable, Underway
  <2>. QED
    BY <1>1, <1>2, <2>2, <2>5, PilotRests DEF EntriesStay
<1>10. CASE call'[c] = Idle
  <2>1. SettlementEnds
    BY <1>3, <1>10, PeopleFacts DEF Hear
  <2>2. doing'[Pilot] = Free /\ pilot' = Advanced
    BY <1>1, <2>1 DEF SettlementEnds, Joint, CIInv, ConsoleTypes
  <2>3. /\ SettleAt' = SettleAt /\ SettleAt \in {1, 2}
        /\ pilot'.script = pilot.script /\ pilot'.end = "none"
        /\ pilot'.at = SettleAt + 1
    BY <1>1, <1>4, <2>2, ScriptFacts
       DEF Joint, SettleAt, Advanced, PilotRecords, Underway, InStep
  <2>4. /\ outbox'[Mine].status \in {"failed", "delivered"}
        /\ outbox'[Mine].status = "delivered" => ok
        /\ ~ok => call[c].attempts + 1 >= MaxAttempts
    <3>1. \/ ok /\ outbox'[Mine].status = "delivered"
          \/ /\ ~ok
             /\ call[c].attempts + 1 >= call[c].upTo
             /\ outbox'[Mine].status =
                  IF call[c].cycles + 1 >= MaxCycles THEN "dead-lettered" ELSE "failed"
      BY <1>2, <1>10, AnswerWrites DEF Joint
    <3>2. ~(0 + 1 >= MaxCycles)
      BY OutboxAssumption DEF SecondCycleDelivers
    <3>. QED
      BY <1>7, <3>1, <3>2
  <2>5. ok => Mine \in seen' /\ hits'[Mine] = FailFirst
    BY <1>2, <1>3 DEF FirstCycle, Underway
  <2>6. Refused(MaxAttempts)'
    <3>1. CASE ok
      BY <2>5, <3>1 DEF Refused
    <3>2. CASE ~ok
      BY <1>2, <1>7, <1>8, <2>4, <3>2 DEF Refused
    <3>. QED
      BY <3>1, <3>2
  <2>7. OnlyMine' /\ \A d \in Callers : ~Posts(d)'
    BY <1>3, <1>6, <1>10 DEF Alone, OnlyMine, Posts
  <2>8. Recoverable'
    BY <1>1, <2>4, <2>5, <2>6, <2>7 DEF Recoverable
  <2>9. InStep'
    BY <2>2, <2>3 DEF InStep, Free
  <2>10. ServicesWork'
    BY <1>2, <2>3 DEF ServicesWork, Underway
  <2>11. Underway'
    BY <1>2, <2>2, <2>3, <2>8, <2>9, <2>10 DEF Underway, Free
  <2>. QED
    BY <1>1, <2>3, <2>11, UnderwayIsCourse
<1>. QED
  BY <1>9, <1>10

\* A later cycle is answered: it goes on or delivers, and the run that waits for
\* the batch ends with it.
LEMMA LaterCycleHears ==
  ASSUME OnCourse, Joint', Recoverable, pilot.at > SettleAt, doing[Pilot].what # "settle",
         up', NEW c \in Callers, Hear(c), call[c].id = Mine
  PROVE  Course'
<1>. USE DEF OnCourse
<1>1. Recovers /\ Mine \in Notifications /\ Pilot \in People /\ Service \in Callers
  BY PeopleFacts DEF Undisturbed
<1>. DEFINE ok == heard[c] = "2xx"
            left == call[c].upTo - call[c].attempts
<1>2. /\ Answer(c, ok) /\ ok \in BOOLEAN /\ call[c] # Idle /\ Posts(c)
      /\ heard[c] # "nothing"
      /\ heard' = [heard EXCEPT ![c] = "nothing"]
      /\ UNCHANGED <<hits, seen, outage>>
  BY DEF Hear, Answer, Posts
<1>3. c # Service
  BY <1>2 DEF Recoverable
<1>4. heard \in [Callers -> {"nothing", "2xx", "error"}] /\ pilot \in PilotRecords
  BY DEF Joint, CIInv, ConsoleTypes
<1>5. /\ heard'[c] = "nothing" /\ (ok \/ heard[c] = "error")
      /\ \A d \in Callers : d # c => heard'[d] = heard[d]
  BY <1>2, <1>4
<1>6. /\ batch' \subseteq batch
      /\ \A d \in Callers : d # c => call'[d] = call[d]
  BY <1>2, AnswerWrites, AnswerKeepsOthers DEF Joint
<1>7. /\ call[c].attempts \in Nat /\ call[c].upTo \in Nat
      /\ left \in 1 .. MaxAttempts /\ MaxAttempts \in Nat
      /\ hits[Mine] \in 0 .. FailFirst /\ FailFirst \in Nat
  BY <1>1, <1>2, CallFacts, ConsoleAssumption, OutboxAssumption
     DEF Joint, Cycles, CIInv, ConsoleTypes
<1>8. ~ok => hits[Mine] + left > FailFirst + 1 /\ left > 1 /\ call[c].attempts + 1 < call[c].upTo
  <2>1. ~ok => hits[Mine] + left > FailFirst + 1
    BY <1>2, <1>5 DEF Recoverable
  <2>. QED
    BY <1>7, <2>1
<1>9. \/ /\ ok /\ call'[c] = Idle /\ outbox'[Mine].status = "delivered"
      \/ /\ ~ok /\ UNCHANGED <<outbox, batch>> /\ call'[c] # Idle
         /\ call'[c].id = Mine
         /\ call'[c].upTo = call[c].upTo
         /\ call'[c].attempts = call[c].attempts + 1
  <2>1. ~(~ok /\ call[c].attempts + 1 >= call[c].upTo)
    BY <1>7, <1>8
  <2>. HIDE DEF ok
  <2>. QED
    BY <1>2, <2>1, AnswerWrites DEF Joint
<1>10. OnlyMine' /\ ~Posts(Service)' /\ Refused(MaxAttempts)'
  <2>1. ASSUME NEW d \in Callers \ {Service}, call'[d] # Idle
        PROVE  call'[d].id = Mine
    BY <1>6, <1>9, <2>1 DEF Recoverable, OnlyMine
  <2>2. ~Posts(Service)'
    BY <1>1, <1>3, <1>6 DEF Recoverable, Posts
  <2>. QED
    BY <1>2, <1>6, <2>1, <2>2 DEF Recoverable, OnlyMine, Refused
<1>11. outbox'[Mine].status \in {"failed", "delivered"}
       /\ (outbox'[Mine].status = "delivered" => Mine \in seen')
       /\ (outbox[Mine].status = "delivered" => outbox'[Mine].status = "delivered")
  BY <1>2, <1>9 DEF Recoverable
<1>12. Recoverable'
  <2>1. ASSUME NEW d \in Callers, Posts(d)'
        PROVE  LET rest == call'[d].upTo - call'[d].attempts
               IN  /\ hits'[Mine] + rest > FailFirst
                   /\ heard'[d] = "error" => hits'[Mine] + rest > FailFirst + 1
                   /\ heard'[d] = "2xx" => Mine \in seen'
    <3>1. CASE d = c
      <4>1. ~ok /\ call'[c].upTo = call[c].upTo /\ call'[c].attempts = call[c].attempts + 1
        BY <1>9, <2>1, <3>1 DEF Posts
      <4>2. call'[c].upTo - call'[c].attempts = left - 1
        BY <1>7, <4>1
      <4>3. hits'[Mine] + (left - 1) > FailFirst
        BY <1>2, <1>7, <1>8, <4>1
      <4>. QED
        BY <1>5, <3>1, <4>2, <4>3
    <3>2. CASE d # c
      <4>1. call'[d] = call[d] /\ heard'[d] = heard[d] /\ Posts(d)
        BY <1>5, <1>6, <2>1, <3>2 DEF Posts
      <4>. QED
        BY <1>2, <4>1 DEF Recoverable
    <3>. QED
      BY <3>1, <3>2
  <2>. QED
    BY <1>10, <1>11, <2>1 DEF Recoverable
<1>13. StageKept
  BY <1>1, <1>2, <1>11, <1>12, Stages DEF StageKept, Underway
<1>14. ASSUME UNCHANGED <<pilot, outage>>, doing'[Pilot] = doing[Pilot], EntriesStay
       PROVE  Course'
  BY <1>1, <1>13, <1>14, PilotRests
<1>15. CASE UNCHANGED <<doing, audit, pilot>>
  BY <1>2, <1>14, <1>15 DEF EntriesStay
<1>16. CASE c \in Operators /\ RedeliveryEnds(c, ok)
  <2>1. doing[c].what = "redeliver"
    BY <1>2, <1>16 DEF Joint, CIInv, RedeliveryIsWaitedFor
  <2>2. doing[c].ref = c
    BY <1>16, <2>1 DEF Joint, CIInv, ReferencesAreOwn, Free
  <2>3. \A e \in audit : e.ref \in Nat => e.ref # c
    BY <1>16, ConsoleAssumption
  <2>4. EntriesStay
    <3>1. CASE ok
      <4>1. RecordAdminAudit(c, "redeliverNotification", "delivered")
        BY <1>16, <2>2, <3>1 DEF RedeliveryEnds
      <4>. QED
        BY <2>3, <4>1, RecordLeaves DEF EntriesStay
    <3>2. CASE ~ok
      BY <1>16, <3>2 DEF RedeliveryEnds, NoAudit, EntriesStay
    <3>. QED
      BY <3>1, <3>2
  <2>5. doing'[Pilot] = doing[Pilot] /\ UNCHANGED pilot
    BY <1>1, <1>16, PeopleFacts DEF RedeliveryEnds, Joint, CIInv, ConsoleTypes
  <2>. QED
    BY <1>2, <1>14, <2>4, <2>5
<1>17. CASE call'[c] = Idle /\ BatchEnds(ok)
  <2>1. ok
    BY <1>9, <1>17
  <2>2. CASE doing[Pilot].what # "run"
    <3>1. doing[Pilot].what \notin {"run", "stop"}
      BY <2>2 DEF Underway, InStep
    <3>. QED
      BY <1>2, <1>14, <1>17, <3>1, BatchEndsLeaves
  <2>3. CASE doing[Pilot].what = "run"
    <3>1. /\ SettleAt' = SettleAt /\ SettleAt \in {1, 2}
          /\ pilot.at = SettleAt + 3 /\ doing[Pilot].ref = pilot.at
      BY <1>1, <1>4, <1>17, <2>1, <2>3, ScriptFacts, BatchEndsLeaves
         DEF Joint, SettleAt, Advanced, Proceed, PilotRecords, Underway, InStep
    <3>2. /\ doing'[Pilot] = Free /\ pilot' = Advanced
          /\ Entry(SettleAt + 3, "runNotificationWorker", Shown(running)) \in audit'
      BY <1>2, <1>17, <2>1, <2>3, <3>1, BatchEndsLeaves DEF Proceed
    <3>3. pilot'.script = pilot.script /\ pilot'.end = "none" /\ pilot'.at = SettleAt + 4
      BY <1>4, <3>1, <3>2 DEF Advanced, PilotRecords, Underway, InStep
    <3>4. Recovered'
      BY <1>9, <2>1, <3>1, <3>2 DEF Recovered, Entry
    <3>5. InStep'
      BY <3>1, <3>2, <3>3 DEF InStep, Free
    <3>6. ServicesWork'
      BY <1>2, <3>3 DEF ServicesWork, Underway
    <3>7. Underway'
      BY <1>12, <1>13, <3>1, <3>2, <3>3, <3>4, <3>5, <3>6 DEF Underway, StageKept, Free
    <3>. QED
      BY <1>1, <3>3, <3>7, UnderwayIsCourse
  <2>. QED
    BY <2>2, <2>3
<1>. QED
  BY <1>3, <1>15, <1>16, <1>17 DEF Hear

LEMMA AnswersKeepCourse ==
  ASSUME OnCourse, Joint', Undisturbed', NEW c \in Callers, Hear(c)
  PROVE  Course'
<1>. USE DEF OnCourse
<1>1. Recovers /\ up'
  BY DEF Undisturbed
<1>. DEFINE ok == heard[c] = "2xx"
<1>2. Answer(c, ok) /\ ok \in BOOLEAN
  BY DEF Hear
<1>3. /\ call[c] # Idle /\ call[c].id \in Notifications
      /\ posts'[call[c].id] = posts[call[c].id] + 1
      /\ posts[call[c].id] \in Nat
  BY <1>2, AnswerWrites DEF Joint, IInv, TypeOK
<1>4. call[c].id = Mine
  BY <1>3 DEF Undisturbed
<1>5. Posts(c) /\ ~Unposted
  BY <1>3, <1>4 DEF Posts, Unposted, Alone
<1>6. CASE FirstCycle /\ doing[Pilot].what = "settle"
  BY <1>1, <1>4, <1>6, FirstCycleHears
<1>7. CASE Recoverable /\ pilot.at > SettleAt
  <2>1. doing[Pilot].what # "settle"
    BY <1>7, ScriptFacts, <1>1 DEF Joint, CIInv, ConsoleTypes, PilotRecords, Underway, InStep
  <2>. QED
    BY <1>1, <1>4, <1>7, <2>1, LaterCycleHears
<1>. QED
  BY <1>1, <1>5, <1>6, <1>7, Stages

-----------------------------------------------------------------------------
(* The steps of the script                                                 *)

\* Which step the pilot takes, and that it waits for nothing.
LEMMA PilotIsAt ==
  ASSUME OnCourse, NEW step, At(step)
  PROVE  /\ doing[Pilot] = Free
         /\ SettleAt \in {1, 2}
         /\ pilot \in PilotRecords /\ pilot.at \in Nat /\ pilot.end = "none"
         /\ pilot.at \in DOMAIN pilot.script.steps
         /\ DOMAIN pilot.script.steps = 1 .. Len(pilot.script.steps)
         /\ Len(pilot.script.steps) \in Nat /\ Len(pilot.script.steps) >= SettleAt + 5
         /\ step = "decide" => pilot.at < SettleAt
         /\ step = "settle" => pilot.at = SettleAt
         /\ step = "get" => pilot.at \in {SettleAt + 1, SettleAt + 5}
         /\ step = "status" => pilot.at = SettleAt + 2
         /\ step = "run" => pilot.at = SettleAt + 3
         /\ step = "wait" => pilot.at = SettleAt + 4
         /\ step \in {"list", "entry"} => pilot.at > SettleAt + 5
         /\ step # "read"
<1>. USE DEF OnCourse
<1>1. doing[Pilot] = Free /\ pilot.script.steps[pilot.at] = step
  BY DEF At, Admits
<1>2. pilot \in PilotRecords /\ pilot.at \in Nat /\ pilot.end = "none" /\ pilot.at >= 1
  BY DEF Joint, CIInv, ConsoleTypes, PilotRecords, Underway, InStep
<1>3. /\ SettleAt \in {1, 2}
      /\ Len(pilot.script.steps) \in Nat
      /\ Len(pilot.script.steps) >= SettleAt + 5
      /\ DOMAIN pilot.script.steps = 1 .. Len(pilot.script.steps)
  BY ScriptFacts DEF Joint, Undisturbed
<1>4. pilot.at \in 1 .. Len(pilot.script.steps)
  BY <1>2, <1>3 DEF Over
<1>. QED
  BY <1>1, <1>2, <1>3, <1>4, ScriptFacts DEF Joint, Undisturbed

\* A step of the script that leaves the notification alone and whose successor
\* is in the same part of the script.
LEMMA PilotAdvances ==
  ASSUME OnCourse, Joint', UNCHANGED <<call, batch, heard, hits, seen, outbox, outage, doing>>,
         doing[Pilot] = Free, EntriesStay,
         pilot'.script = pilot.script, pilot'.end = "none", pilot'.at \in Nat,
         pilot'.at >= 1,
         pilot'.at > SettleAt <=> pilot.at > SettleAt,
         pilot'.at > SettleAt + 3 <=> pilot.at > SettleAt + 3,
         pilot'.at > SettleAt + 5 => pilot'.read = "delivered"
  PROVE  Course'
<1>. USE DEF OnCourse
<1>1. Recovers /\ SettleAt' = SettleAt /\ SettleAt \in {1, 2} /\ pilot.at \in Nat
  BY ScriptFacts DEF Undisturbed, SettleAt, Joint, CIInv, ConsoleTypes, PilotRecords
<1>2. StageKept
  BY StageRests
<1>3. InStep' /\ ServicesWork'
  BY <1>1 DEF InStep, Free, ServicesWork, Underway
<1>4. Recovered => Recovered'
  BY <1>1, <1>2 DEF Recovered, StageKept, EntriesStay
<1>5. pilot'.at <= SettleAt => pilot.at <= SettleAt
  BY <1>1
<1>6. Underway'
  BY <1>1, <1>2, <1>3, <1>4, <1>5 DEF Underway, StageKept, Free
<1>. QED
  BY <1>1, <1>6, UnderwayIsCourse

\* Its settlement begins the first cycle.
LEMMA SettleKeepsCourse == ASSUME OnCourse, Joint', Settle PROVE Course'
<1>. USE DEF OnCourse
<1>1. /\ Recovers /\ Notifying
      /\ Service \in Callers /\ Mine \in Notifications /\ Pilot \in People
  BY ScriptFacts, PeopleFacts DEF Undisturbed, Joint
<1>2. /\ doing[Pilot] = Free /\ pilot.at = SettleAt /\ SettleAt \in {1, 2}
      /\ pilot.end = "none"
  BY PilotIsAt DEF Settle
<1>3. /\ Begin(Service, Unread(Mine))
      /\ doing' = [doing EXCEPT ![Pilot] = [what |-> "settle", ref |-> pilot.at]]
      /\ UNCHANGED <<pilot, outbox, batch, audit, heard, hits, seen, outage>>
  BY <1>1 DEF Settle, Wait, worker, receivers
<1>4. doing'[Pilot] = [what |-> "settle", ref |-> pilot.at]
  BY <1>1, <1>3 DEF Joint, CIInv, ConsoleTypes
<1>5. /\ call[Service] = Idle
      /\ call'[Service] = CycleFrom(Unread(Mine))
      /\ call'[Service] # Idle
      /\ \A d \in Callers \ {Service} : call'[d] = call[d]
  BY <1>1, <1>3, UnreadFacts, BegunFacts DEF Begin, Joint, IInv, TypeOK
<1>6. /\ call'[Service].id = Mine /\ call'[Service].attempts = 0
      /\ call'[Service].upTo = MaxAttempts /\ call'[Service].cycles = 0
  BY <1>5, OutboxAssumption DEF CycleFrom, Unread
<1>7. heard'[Service] = "nothing"
  BY <1>1, <1>3, <1>5 DEF AnswersHaveCalls, Joint, CIInv, ConsoleTypes
<1>8. Unposted
  BY <1>2 DEF Underway, Free
<1>9. Alone'
  BY <1>3, <1>5, <1>8 DEF Unposted, Alone
<1>10. hits'[Mine] >= 0
  BY <1>1, <1>3, ConsoleAssumption DEF Joint, CIInv, ConsoleTypes
<1>11. FirstCycle'
  BY <1>3, <1>5, <1>6, <1>7, <1>8, <1>9, <1>10 DEF FirstCycle, Unposted, Posts, Refused
<1>12. SettleAt' = SettleAt /\ InStep' /\ ServicesWork'
  BY <1>2, <1>3, <1>4 DEF SettleAt, InStep, ServicesWork, Underway
<1>13. Underway'
  BY <1>2, <1>3, <1>4, <1>11, <1>12 DEF Underway
<1>. QED
  BY <1>1, <1>3, <1>13, UnderwayIsCourse

\* The run begins a batch, joins the one in flight, or finds the notification
\* delivered by then.
LEMMA RunKeepsCourse == ASSUME OnCourse, Joint', RunOnce PROVE Course'
<1>. USE DEF OnCourse
<1>1. Recovers /\ Pilot \in People
  BY PeopleFacts DEF Undisturbed
<1>2. /\ doing[Pilot] = Free /\ pilot.at = SettleAt + 3 /\ SettleAt \in {1, 2}
      /\ pilot.end = "none" /\ pilot \in PilotRecords
  BY PilotIsAt DEF RunOnce
<1>3. /\ NothingIsDueSoon
      /\ RunNotificationWorker(Pilot, pilot.at)
      /\ pilot' = IF doing'[Pilot] = Free THEN Advanced ELSE pilot
      /\ UNCHANGED <<outbox, call, heard, hits, seen, outage>>
  BY DEF RunOnce, RunNotificationWorker, PilotOnly, receivers
<1>4. Recoverable
  BY <1>1, <1>2, Stages DEF Underway
<1>5. CASE Wait(Pilot, "run", pilot.at) /\ NoAudit
           /\ (UNCHANGED batch \/ (Eligible # {} /\ batch' = {Read(n) : n \in Eligible}))
  <2>1. doing'[Pilot] = [what |-> "run", ref |-> pilot.at]
    BY <1>1, <1>5 DEF Wait, Joint, CIInv, ConsoleTypes
  <2>2. doing'[Pilot] # Free
    BY <2>1 DEF Free
  <2>3. UNCHANGED <<pilot, audit>>
    BY <1>3, <1>5, <2>2 DEF NoAudit
  <2>4. StageKept
    BY <1>1, <1>3, <1>5, StageRests, BatchBegins
  <2>5. SettleAt' = SettleAt /\ InStep' /\ ServicesWork'
    BY <1>2, <1>3, <2>1, <2>3 DEF SettleAt, InStep, ServicesWork, Underway
  <2>6. Underway'
    BY <1>2, <1>4, <2>1, <2>3, <2>4, <2>5 DEF Underway, StageKept
  <2>. QED
    BY <1>1, <2>3, <2>6, UnderwayIsCourse
<1>6. CASE /\ Eligible = {}
           /\ RecordAdminAudit(pilot.at, "runNotificationWorker", Shown(running))
           /\ UNCHANGED <<batch, doing>>
  <2>1. pilot' = Advanced
    BY <1>2, <1>3, <1>6
  <2>2. pilot'.script = pilot.script /\ pilot'.end = "none" /\ pilot'.at = SettleAt + 4
    BY <1>2, <2>1 DEF Advanced, PilotRecords
  <2>3. outbox[Mine].status = "delivered"
    <3>1. Failed = {}
      BY <1>1, <1>3, <1>6 DEF NothingIsDueSoon
    <3>2. outbox[Mine].status # "failed"
      BY <3>1, PeopleFacts DEF Failed
    <3>. QED
      BY <1>4, <3>2 DEF Recoverable
  <2>4. StageKept
    BY <1>3, <1>6, StageRests
  <2>5. Entry(SettleAt + 3, "runNotificationWorker", Shown(running)) \in audit'
    BY <1>2, <1>6, RecordLeaves
  <2>6. SettleAt' = SettleAt /\ ServicesWork'
    BY <1>3, <2>2 DEF SettleAt, ServicesWork, Underway
  <2>7. Recovered'
    BY <1>3, <2>3, <2>5, <2>6 DEF Recovered, Entry
  <2>8. InStep'
    BY <1>2, <1>6, <2>2 DEF InStep, Free
  <2>9. Underway'
    BY <1>2, <1>4, <1>6, <2>2, <2>4, <2>6, <2>7, <2>8 DEF Underway, StageKept, Free
  <2>. QED
    BY <1>1, <2>2, <2>9, UnderwayIsCourse
<1>. QED
  BY <1>3, <1>5, <1>6 DEF RunNotificationWorker

LEMMA PilotKeepsCourse == ASSUME OnCourse, Joint', PilotNext PROVE Course'
<1>. USE DEF OnCourse
<1>1. Recovers /\ pilot \in PilotRecords
  BY DEF Undisturbed, Joint, CIInv, ConsoleTypes
<1>2. /\ Advanced.script = pilot.script /\ Advanced.end = pilot.end
      /\ Advanced.at = pilot.at + 1 /\ Advanced.read = pilot.read
  BY <1>1 DEF Advanced, PilotRecords
<1>3. ASSUME UNCHANGED <<vars, console, receivers>>
      PROVE  UNCHANGED <<call, batch, heard, hits, seen, outbox, doing>> /\ EntriesStay
  BY <1>3 DEF vars, worker, console, receivers, EntriesStay
<1>4. CASE Decide
  <2>1. /\ pilot.at < SettleAt /\ SettleAt \in {1, 2} /\ pilot.at \in Nat
        /\ pilot.end = "none" /\ doing[Pilot] = Free
    BY <1>4, PilotIsAt DEF Decide
  <2>2. UNCHANGED <<vars, console, receivers, outage>>
    BY <1>4 DEF Decide
  <2>3. CASE pilot' = Advanced
    BY <1>2, <1>3, <2>1, <2>2, <2>3, PilotAdvances
  <2>4. CASE pilot' = [pilot EXCEPT !.end = "undecided"]
    <3>1. pilot'.end = "undecided" /\ doing'[Pilot] = Free
      BY <1>1, <1>3, <2>1, <2>2, <2>4 DEF PilotRecords
    <3>. QED
      BY <3>1 DEF Course, Over, Finished
  <2>. QED
    BY <1>4, <2>3, <2>4 DEF Decide
<1>5. CASE CallService
  <2>1. /\ pilot.at = SettleAt /\ SettleAt \in {1, 2} /\ pilot.at \in Nat
        /\ pilot.end = "none" /\ doing[Pilot] = Free
    BY <1>5, PilotIsAt DEF CallService
  <2>2. outage[pilot.script.calls[pilot.call]] = 0
    BY <1>5 DEF CallService, Underway, ServicesWork
  <2>3. /\ pilot' = [pilot EXCEPT !.call = @ + 1, !.tries = 0]
        /\ UNCHANGED <<vars, console, receivers, outage>>
    BY <1>5, <2>2 DEF CallService
  <2>4. /\ pilot'.script = pilot.script /\ pilot'.end = pilot.end
        /\ pilot'.at = pilot.at /\ pilot'.read = pilot.read
    BY <1>1, <2>3 DEF PilotRecords
  <2>. QED
    BY <1>3, <2>1, <2>3, <2>4, PilotAdvances
<1>6. CASE Settle
  BY <1>6, SettleKeepsCourse
<1>7. CASE ReadDelivery
  <2>1. /\ pilot.at \in {SettleAt + 1, SettleAt + 5} /\ SettleAt \in {1, 2} /\ pilot.at \in Nat
        /\ pilot.end = "none" /\ doing[Pilot] = Free
    BY <1>7, PilotIsAt DEF ReadDelivery
  <2>2. /\ pilot' = [Advanced EXCEPT !.read = outbox[Mine].status]
        /\ RecordAdminAudit(pilot.at, "getNotificationDelivery", outbox[Mine].status)
        /\ UNCHANGED <<call, batch, heard, hits, seen, outbox, outage, doing>>
    BY <1>7 DEF ReadDelivery, GetNotificationDelivery, PilotOnly, worker, receivers
  <2>3. /\ pilot'.script = pilot.script /\ pilot'.end = pilot.end
        /\ pilot'.at = pilot.at + 1 /\ pilot'.read = outbox[Mine].status
    BY <1>1, <2>2 DEF Advanced, PilotRecords
  <2>4. pilot.at = SettleAt + 5 => outbox[Mine].status = "delivered"
    BY <2>1 DEF Underway, Recovered
  <2>5. pilot.at > SettleAt + 3 => Recovered
    BY DEF Underway
  <2>6. StageKept
    BY <2>2, StageRests
  <2>7. Recovered => Recovered'
    <3>1. SettleAt' = SettleAt /\ SettleAt + 3 # pilot.at
      BY <2>1, <2>3 DEF SettleAt
    <3>. QED
      BY <2>2, <3>1, RecordLeaves DEF Recovered
  <2>8. SettleAt' = SettleAt /\ InStep' /\ ServicesWork'
    BY <2>1, <2>2, <2>3 DEF SettleAt, InStep, Free, ServicesWork, Underway
  <2>9. Underway'
    BY <2>1, <2>2, <2>3, <2>4, <2>5, <2>6, <2>7, <2>8 DEF Underway, StageKept, Free
  <2>. QED
    BY <1>1, <2>3, <2>9, UnderwayIsCourse
<1>8. CASE ReadStatus
  <2>1. /\ pilot.at = SettleAt + 2 /\ SettleAt \in {1, 2} /\ pilot.at \in Nat
        /\ pilot.end = "none" /\ doing[Pilot] = Free
    BY <1>8, PilotIsAt DEF ReadStatus
  <2>2. /\ pilot' = Advanced
        /\ UNCHANGED <<call, batch, heard, hits, seen, outbox, outage, doing>>
    BY <1>8 DEF ReadStatus, GetNotificationWorkerStatus, PilotOnly, worker, receivers
  <2>3. StageKept
    BY <2>2, StageRests
  <2>4. /\ SettleAt' = SettleAt /\ pilot'.script = pilot.script
        /\ pilot'.end = "none" /\ pilot'.at = SettleAt + 3
    BY <1>2, <2>1, <2>2 DEF SettleAt
  <2>5. InStep' /\ ServicesWork'
    BY <2>1, <2>2, <2>4 DEF InStep, Free, ServicesWork, Underway
  <2>6. Underway'
    BY <2>1, <2>2, <2>3, <2>4, <2>5 DEF Underway, StageKept, Free
  <2>. QED
    BY <1>1, <2>4, <2>6, UnderwayIsCourse
<1>9. CASE RunOnce
  BY <1>9, RunKeepsCourse
<1>10. CASE WaitForNotification
  <2>1. /\ pilot.at = SettleAt + 4 /\ SettleAt \in {1, 2} /\ pilot.at \in Nat
        /\ pilot.end = "none" /\ doing[Pilot] = Free
    BY <1>10, PilotIsAt DEF WaitForNotification
  <2>2. Mine \in seen
    BY <2>1 DEF Underway, Recovered, Recoverable
  <2>3. pilot' = Advanced /\ UNCHANGED <<vars, console, receivers, outage>>
    BY <1>10, <2>2 DEF WaitForNotification, Proceed
  <2>. QED
    BY <1>2, <1>3, <2>1, <2>3, PilotAdvances
<1>11. CASE ListAudit \/ GetEntry
  <2>1. /\ pilot.at > SettleAt + 5 /\ SettleAt \in {1, 2} /\ pilot.at \in Nat
        /\ pilot.end = "none" /\ doing[Pilot] = Free
        /\ SettleAt + 3 \in DOMAIN pilot.script.steps
    BY <1>11, PilotIsAt DEF ListAudit, GetEntry
  <2>2. RunEntry /\ pilot.read = "delivered"
    BY <2>1 DEF Underway, Recovered, RunEntry
  <2>3. pilot' = Advanced /\ UNCHANGED <<vars, console, receivers, outage>>
    BY <1>11, <2>2 DEF ListAudit, GetEntry, ReadOnly, Proceed
  <2>. QED
    BY <1>2, <1>3, <2>1, <2>2, <2>3, PilotAdvances
<1>12. CASE GetActionStatus
  BY <1>12, PilotIsAt DEF GetActionStatus
<1>. QED
  BY <1>4, <1>5, <1>6, <1>7, <1>8, <1>9, <1>10, <1>11, <1>12 DEF PilotNext

-----------------------------------------------------------------------------
(* The script is over                                                      *)

\* A script that is over, and whose pilot waits for nothing, stays that.
LEMMA OverRests ==
  ASSUME Joint, ConsoleNext, Over, doing[Pilot] = Free
  PROVE  UNCHANGED pilot /\ doing'[Pilot] = Free
<1>1. CASE OperatorNext
  <2>1. PICK o \in Operators :
          \/ ListDeliveries(o) \/ GetStatus(o) \/ Start(o) \/ Stop(o) \/ Run(o)
          \/ \E n \in Notifications : GetDelivery(o, n) \/ RedeliverNotification(o, n)
    BY <1>1 DEF OperatorNext
  <2>. QED
    BY <2>1, OperatorLeaves
<1>2. CASE PilotNext
  BY <1>2 DEF PilotNext, Decide, CallService, Settle, ReadDelivery, ReadStatus, RunOnce,
              WaitForNotification, GetActionStatus, ListAudit, GetEntry, At
<1>3. ASSUME NEW c \in Callers, Hear(c)
      PROVE  UNCHANGED pilot /\ doing'[Pilot] = Free
  <2>. DEFINE ok == heard[c] = "2xx"
  <2>1. doing[Pilot].what = "nothing" /\ ok \in BOOLEAN
    BY DEF Free
  <2>2. CASE BatchEnds(ok)
    BY <2>1, <2>2, BatchEndsLeaves
  <2>3. CASE c \in Operators /\ RedeliveryEnds(c, ok)
    BY <2>3, PeopleFacts DEF RedeliveryEnds, Joint, CIInv, ConsoleTypes
  <2>4. CASE SettlementEnds
    BY <2>1, <2>4 DEF SettlementEnds
  <2>. QED
    BY <1>3, <2>2, <2>3, <2>4 DEF Hear
<1>4. CASE \/ \E n \in Notifications : OtherSettlement(n)
           \/ \E c \in Callers : Receive(c) \/ Lose(c)
           \/ OutboxNext \/ Close \/ Drained
  BY <1>4, OthersLeave
<1>. QED
  BY <1>1, <1>2, <1>3, <1>4 DEF ConsoleNext, PostNext

\* The course is kept by every step.
LEMMA CourseStep ==
  ASSUME SecondCycleDelivers, Joint, AnswersHaveCalls, Course, ConsoleNext
  PROVE  Course'
<1>. SUFFICES ASSUME Undisturbed' PROVE Course'
  BY DEF Course
<1>1. Undisturbed
  BY UndisturbedBefore
<1>2. Joint'
  BY JointStep
<1>3. CASE Over
  <2>1. UNCHANGED pilot /\ doing'[Pilot] = Free
    BY <1>1, <1>3, OverRests DEF Course, Finished
  <2>. QED
    BY <1>1, <1>3, <2>1 DEF Course, Over, Finished
<1>4. CASE ~Over
  <2>1. OnCourse
    BY <1>1, <1>4 DEF OnCourse, Course
  <2>2. ASSUME NEW c \in Callers, Hear(c)
        PROVE  Course'
    BY <1>2, <2>1, <2>2, AnswersKeepCourse
  <2>. QED
    BY <1>2, <2>1, <2>2, BystandersKeepCourse, PilotKeepsCourse DEF ConsoleNext, PostNext
<1>. QED
  BY <1>3, <1>4

\* A recovery pilot is never failed by what the operators do to the worker and
\* to the entry, and reads its notification as delivered at its end: for any
\* number of operators and commands, and any receiver that refuses fewer posts
\* than two cycles make (the steps of the scripts under agents/test-harness; the
\* run joins a batch in flight, in notifications.ts).
THEOREM PilotReachesItsEnd ==
  ASSUME SecondCycleDelivers
  PROVE  ConsoleSpec => []PilotRecovers
<1>1. ConsoleInit => Joint /\ AnswersHaveCalls /\ Course
  BY JointInit, CourseInit
<1>2. Joint /\ AnswersHaveCalls /\ Course /\ [ConsoleNext]_consoleVars
        => (Joint /\ AnswersHaveCalls /\ Course)'
  <2>. SUFFICES ASSUME Joint, AnswersHaveCalls, Course, [ConsoleNext]_consoleVars
               PROVE  (Joint /\ AnswersHaveCalls /\ Course)'
    OBVIOUS
  <2>1. Joint'
    BY JointStep
  <2>2. CASE ConsoleNext
    BY <2>1, <2>2, AnswersHaveCallsStep, CourseStep
  <2>3. CASE UNCHANGED consoleVars
    <3>1. UNCHANGED <<outbox, call, batch, up, posts, lossesLeft, heard, hits, seen, pilot,
                      outage, doing, audit>>
      BY <2>3 DEF consoleVars, vars, worker, ghosts, console, receivers, client
    <3>2. AnswersHaveCalls'
      BY <3>1 DEF AnswersHaveCalls
    <3>3. Undisturbed' <=> Undisturbed
      BY <3>1 DEF Undisturbed, Recovers, Has
    <3>4. (Over' <=> Over) /\ (Finished' <=> Finished)
      BY <3>1 DEF Over, Finished
    <3>5. Underway' <=> Underway
      BY <3>1 DEF Underway, InStep, ServicesWork, Unposted, FirstCycle, Recoverable, Recovered,
                  OnlyMine, Alone, Posts, Refused, SettleAt
    <3>. QED
      BY <2>1, <3>2, <3>3, <3>4, <3>5 DEF Course
  <2>. QED
    BY <2>2, <2>3
<1>3. Joint /\ Course => PilotRecovers
  BY DEF Course, Undisturbed, Finished, Underway, InStep, PilotRecovers
<1>. QED
  BY <1>1, <1>2, <1>3, PTL DEF ConsoleSpec

=============================================================================

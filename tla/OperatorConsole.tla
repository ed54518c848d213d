-------------------------- MODULE OperatorConsole ---------------------------
(***************************************************************************)
(* The AFAL server over SQLite (backend/afal/http/sqlite-server.ts) with   *)
(* its operators, the log of their commands (backend/afal/admin-audit.ts), *)
(* the receivers of notifications and the scripted pilots                  *)
(* (agents/test-harness) that start a server, settle an action through the *)
(* trusted surface, recover its failed notification and close the server.  *)
(*                                                                         *)
(* NotificationOutbox gives the outbox and the worker.  A command of this  *)
(* module is a request over HTTP: the router's checks, the handler, the    *)
(* runtime and the audit.  It is one step, unless it waits: a redelivery   *)
(* for its post, a run and a stop for the batch in flight.  Likewise the   *)
(* receiver takes a post in one step, and AFAL handles the answer in a     *)
(* later one.  The pilot, the server and the receivers are one process     *)
(* that nothing restarts.                                                  *)
(***************************************************************************)
EXTENDS NotificationOutbox, Sequences

CONSTANTS
  Pilot,        \* the client of the script
  Operators,    \* the other clients that send the operator's token, each with
                \* one request reference that it uses again and again;
                \* the pilot numbers its own
  Service,      \* the request that resumes the approved action of a client
  Mine,         \* the notification of the pilot's action
  FailFirst,    \* posts a receiver refuses before it takes one
  MaxTries,     \* attempts of an adapter at an external service
  MaxOutage,    \* bound on the failures an external service is planned to have
  MaxLosses     \* bound on the posts whose answer is lost

People == Operators \cup {Pilot}

ASSUME ConsoleAssumption ==
  /\ Pilot \notin Operators
  /\ Operators \cap Nat = {}
  /\ Posters = Operators \cup {Service}
  /\ Service \notin Operators
  /\ Mine \in Notifications
  /\ {FailFirst, MaxOutage, MaxLosses} \subseteq Nat
  /\ MaxTries \in Nat \ {0}
  /\ ~Supervised

VARIABLES
  phase,     \* of the server: open, stopping (its worker), draining, closed
  doing,     \* what the request of each person waits for
  audit,     \* the entries of the admin audit
  newest,    \* the reference of the last entry stored about the worker (0: none)
  heard,     \* what each caller will hear of its post
  hits,      \* the posts each receiver has counted
  seen,      \* the notifications the receivers have taken
  pilot,     \* the script, where the pilot is in it and what it has read
  outage,    \* the failures the external service still has planned
  startedLate, \* the worker was started while the server closed
  lossesLeft

console == <<phase, doing, audit, newest, startedLate>>
receivers == <<heard, hits, seen>>
client == <<pilot, outage>>
consoleVars == <<vars, console, receivers, client, lossesLeft>>

-----------------------------------------------------------------------------
(* The scripts                                                             *)

\* The action is settled, its notification fails, and the operator's routes
\* recover it; the demo reads the audit as well.
Recovery == <<"settle", "get", "status", "run", "wait", "get">>
AdminDemo == Recovery \o <<"list", "entry">>

Script(steps, calls) == [steps |-> steps, calls |-> calls, worker |-> FALSE, outage |-> 0]
Payment == <<"pay">>
Resource == <<"confirm", "deliver">>

\* In the pilots a language model decides first.
PaymentRecoveryPilot == Script(<<"decide">> \o Recovery, Payment)
ResourceRecoveryPilot == Script(<<"decide">> \o Recovery, Resource)
NotificationAdminDemo == Script(AdminDemo, Payment)

\* The agents are processes of their own; nobody is notified.
PaymentHarness == Script(<<"settle">>, Payment)
ResourceHarness == Script(<<"settle">>, Resource)

\* The worker runs, and the receiving agent waits for its notification.
PaymentBilateralHarness ==
  [Script(<<"settle", "wait">>, Payment) EXCEPT !.worker = TRUE]
ResourceBilateralHarness ==
  [Script(<<"settle", "wait">>, Resource) EXCEPT !.worker = TRUE]

\* No notification is configured; the external service may fail a few times,
\* and the approval may be refused, so that no service is called.
PaymentPilot ==
  [Script(<<"decide", "settle", "read">>, Payment) EXCEPT !.outage = MaxOutage]
ResourcePilot ==
  [Script(<<"decide", "settle", "read">>, Resource) EXCEPT !.outage = MaxOutage]

Unapproved(script) == [script EXCEPT !.calls = <<>>]

Scripts == {PaymentRecoveryPilot, ResourceRecoveryPilot, NotificationAdminDemo,
            PaymentHarness, ResourceHarness,
            PaymentBilateralHarness, ResourceBilateralHarness,
            PaymentPilot, ResourcePilot, Unapproved(PaymentPilot), Unapproved(ResourcePilot)}

Has(step) == \E i \in DOMAIN pilot.script.steps : pilot.script.steps[i] = step
Notifying == Has("wait")
Recovers == Has("run")

-----------------------------------------------------------------------------
(* State                                                                   *)

WorkerActions == {"getNotificationWorkerStatus", "startNotificationWorker",
                  "stopNotificationWorker", "runNotificationWorker"}
Actions == WorkerActions \cup
  {"getNotificationDelivery", "listNotificationDeliveries", "redeliverNotification"}

Free == [what |-> "nothing", ref |-> 0]
Waiting == [what : {"redeliver", "run", "stop", "settle"}, ref : Operators \cup Nat]

Shown(on) == IF on THEN "running" ELSE "stopped"

ConsoleInit ==
  /\ \E script \in Scripts :
       /\ pilot = [script |-> script, at |-> 1, call |-> 1, tries |-> 0, read |-> "none",
                   end |-> "none"]
       /\ outage \in [{script.calls[i] : i \in DOMAIN script.calls} -> 0 .. script.outage]
       /\ running = script.worker
  /\ outbox = [n \in Notifications |-> NoEntry]
  /\ call = [c \in Callers |-> Idle]
  /\ batch = {}
  /\ watched = FALSE
  /\ up = TRUE
  /\ posts = [n \in Notifications |-> 0]
  /\ accepted = {}
  /\ notifiesLeft = [n \in Notifications |-> MaxNotifies]
  /\ commandsLeft = MaxCommands
  /\ crashesLeft = MaxCrashes
  /\ phase = "open"
  /\ doing = [p \in People |-> Free]
  /\ audit = {}
  /\ newest = 0
  /\ startedLate = FALSE
  /\ heard = [c \in Callers |-> "nothing"]
  /\ hits = [n \in Notifications |-> 0]
  /\ seen = {}
  /\ lossesLeft = MaxLosses

-----------------------------------------------------------------------------
(* The runtime's operations and their audit.  An entry is stored under its *)
(* request's reference: a later command with the same one replaces it.     *)

Entry(ref, action, shows) == [ref |-> ref, action |-> action, shows |-> shows]

\* Wrong: an entry is added beside the one with its reference.
PutBeside(entries) == audit \cup entries

Put(entries) ==
  {e \in audit : \A new \in entries : e.ref # new.ref} \cup entries

RecordAdminAudit(ref, action, shows) ==
  /\ audit' = Put({Entry(ref, action, shows)})
  /\ newest' = IF action \in WorkerActions THEN ref ELSE newest

NoAudit == UNCHANGED <<audit, newest>>

Wait(p, what, ref) == doing' = [doing EXCEPT ![p] = [what |-> what, ref |-> ref]]

GetNotificationDelivery(ref, n) ==
  /\ outbox[n] # NoEntry
  /\ RecordAdminAudit(ref, "getNotificationDelivery", outbox[n].status)
  /\ UNCHANGED <<outbox, call, worker, up, ghosts, phase, doing, startedLate>>

ListNotificationDeliveries(ref) ==
  /\ RecordAdminAudit(ref, "listNotificationDeliveries", "deliveries")
  /\ UNCHANGED <<outbox, call, worker, up, ghosts, phase, doing, startedLate>>

GetNotificationWorkerStatus(ref) ==
  /\ RecordAdminAudit(ref, "getNotificationWorkerStatus", Shown(running))
  /\ UNCHANGED <<outbox, call, worker, up, ghosts, phase, doing, startedLate>>

StartNotificationWorker(ref) ==
  /\ running' = TRUE
  /\ RecordAdminAudit(ref, "startNotificationWorker", "running")
  /\ startedLate' = (startedLate \/ phase # "open")
  /\ UNCHANGED <<outbox, call, batch, watched, up, ghosts, phase, doing>>

\* The timer is cleared at once; the answer waits for the batch in flight.
StopNotificationWorker(p, ref) ==
  /\ running' = FALSE
  /\ IF InFlight
     THEN Wait(p, "stop", ref) /\ NoAudit
     ELSE RecordAdminAudit(ref, "stopNotificationWorker", "stopped") /\ UNCHANGED doing
  /\ UNCHANGED <<outbox, call, batch, watched, up, ghosts, phase, startedLate>>

\* Wrong: the answer does not wait for a batch in flight.
RunWithoutWaiting(p, ref) ==
  /\ batch' = IF InFlight THEN batch ELSE {Read(n) : n \in Eligible}
  /\ RecordAdminAudit(ref, "runNotificationWorker", Shown(running))
  /\ UNCHANGED <<outbox, call, watched, running, up, ghosts, phase, doing, startedLate>>

\* A batch is begun, or the one in flight joined; with nothing to redeliver the
\* answer comes at once.
RunNotificationWorker(p, ref) ==
  /\ \/ /\ InFlight
        /\ Wait(p, "run", ref) /\ NoAudit
        /\ UNCHANGED <<batch, watched>>
     \/ /\ ~InFlight
        /\ Eligible # {}
        /\ batch' = {Read(n) : n \in Eligible}
        /\ watched' = FALSE
        /\ Wait(p, "run", ref) /\ NoAudit
     \/ /\ ~InFlight
        /\ Eligible = {}
        /\ RecordAdminAudit(ref, "runNotificationWorker", Shown(running))
        /\ UNCHANGED <<batch, watched, doing>>
  /\ UNCHANGED <<outbox, call, running, up, ghosts, phase, startedLate>>

\* Without a delay before a redelivery a failed entry is due at once.
NothingIsDueSoon == Recovers => Failed = Eligible

-----------------------------------------------------------------------------
(* The operators' requests                                                 *)

\* The server takes the request and finds the token of an operator in it.
Admits(p) ==
  /\ up
  /\ phase \in {"open", "stopping"}
  /\ doing[p] = Free

\* The bound on the operators' commands; a pilot's script is finite.
Asks(o) == Notifying /\ Admits(o) /\ Command

OperatorOnly == UNCHANGED <<receivers, client, lossesLeft>>

GetDelivery(o, n) == Asks(o) /\ GetNotificationDelivery(o, n) /\ OperatorOnly

ListDeliveries(o) == Asks(o) /\ ListNotificationDeliveries(o) /\ OperatorOnly

GetStatus(o) == Asks(o) /\ GetNotificationWorkerStatus(o) /\ OperatorOnly

Start(o) == Asks(o) /\ StartNotificationWorker(o) /\ OperatorOnly

Stop(o) == Asks(o) /\ StopNotificationWorker(o, o) /\ OperatorOnly

Run(o) ==
  Asks(o) /\ NothingIsDueSoon /\ RunNotificationWorker(o, o) /\ OperatorOnly

\* The post begins; it is audited when it has been accepted.
RedeliverNotification(o, n) ==
  /\ Notifying /\ Admits(o)
  /\ Redeliver(o, n)
  /\ Wait(o, "redeliver", o) /\ NoAudit
  /\ UNCHANGED <<phase, startedLate>>
  /\ OperatorOnly

\* The action of another client is settled and its notification posted.
OtherSettlement(n) ==
  /\ Notifying
  /\ n # Mine
  /\ phase \in {"open", "stopping"}
  /\ Notify(Service, n)
  /\ UNCHANGED <<console, receivers, client, lossesLeft>>

-----------------------------------------------------------------------------
(* The pilot                                                               *)

Advanced == [pilot EXCEPT !.at = @ + 1]
FailedPilot == [pilot EXCEPT !.end = "failed"]

\* The client throws on an answer that is a failure, which ends the script.
Proceed(ok) == IF ok THEN Advanced ELSE FailedPilot

Over == pilot.end # "none" \/ pilot.at > Len(pilot.script.steps)

At(step) ==
  /\ ~Over
  /\ Admits(Pilot)
  /\ phase = "open"
  /\ pilot.script.steps[pilot.at] = step

\* The model decides for the request; or it declines, or gives no decision, and
\* the script is over.
Decide ==
  /\ At("decide")
  /\ pilot' \in {Advanced, [pilot EXCEPT !.end = "undecided"]}
  /\ UNCHANGED <<vars, console, receivers, outage, lossesLeft>>

\* The approved action calls its external service: the adapter tries again
\* after a failure of the service until its attempts are spent.
CallService ==
  /\ At("settle")
  /\ pilot.call \in DOMAIN pilot.script.calls
  /\ LET service == pilot.script.calls[pilot.call]
     IN  IF outage[service] > 0
         THEN /\ outage' = [outage EXCEPT ![service] = @ - 1]
              /\ pilot' = IF pilot.tries + 1 < MaxTries
                          THEN [pilot EXCEPT !.tries = @ + 1]
                          ELSE FailedPilot
         ELSE /\ pilot' = [pilot EXCEPT !.call = @ + 1, !.tries = 0]
              /\ UNCHANGED outage
  /\ UNCHANGED <<vars, console, receivers, lossesLeft>>

\* It is settled: the answer to the pilot waits for the first notification.
Settle ==
  /\ At("settle")
  /\ pilot.call \notin DOMAIN pilot.script.calls
  /\ IF Notifying
     THEN /\ Begin(Service, Unread(Mine))
          /\ Wait(Pilot, "settle", pilot.at)
          /\ UNCHANGED pilot
     ELSE /\ pilot' = Advanced
          /\ UNCHANGED <<call, doing>>
  /\ UNCHANGED <<outbox, worker, up, ghosts, bounds, phase, audit, newest, startedLate,
                 receivers, outage, lossesLeft>>

PilotOnly == UNCHANGED <<bounds, receivers, outage, lossesLeft>>

ReadDelivery ==
  /\ At("get")
  /\ GetNotificationDelivery(pilot.at, Mine)
  /\ pilot' = [Advanced EXCEPT !.read = outbox[Mine].status]
  /\ PilotOnly

ReadStatus ==
  At("status") /\ GetNotificationWorkerStatus(pilot.at) /\ pilot' = Advanced /\ PilotOnly

RunOnce ==
  /\ At("run")
  /\ NothingIsDueSoon
  /\ RunNotificationWorker(Pilot, pilot.at)
  /\ pilot' = IF doing'[Pilot] = Free THEN Advanced ELSE pilot
  /\ PilotOnly

\* The receiving agent has its notification, or stops waiting for it.
WaitForNotification ==
  /\ At("wait")
  /\ pilot' = Proceed(Mine \in seen)
  /\ UNCHANGED <<vars, console, receivers, outage, lossesLeft>>

RunEntry ==
  \E e \in audit : e.ref \in DOMAIN pilot.script.steps /\ e.action = "runNotificationWorker"

ReadOnly == UNCHANGED <<vars, console, receivers, outage, lossesLeft>>

GetActionStatus == At("read") /\ pilot' = Advanced /\ ReadOnly

ListAudit == At("list") /\ pilot' = Advanced /\ ReadOnly

\* The entry of the run is fetched.
GetEntry == At("entry") /\ pilot' = Proceed(RunEntry) /\ ReadOnly

-----------------------------------------------------------------------------
(* The posts and their answers                                             *)

\* The receiver refuses its first posts, and takes what it has taken before.
Receive(c) ==
  LET n == call[c].id
      taken == n \in seen \/ hits[n] >= FailFirst
  IN  /\ call[c] # Idle
      /\ heard[c] = "nothing"
      /\ hits' = [hits EXCEPT ![n] = IF @ < FailFirst THEN @ + 1 ELSE @]
      /\ seen' = IF taken THEN seen \cup {n} ELSE seen
      /\ heard' = [heard EXCEPT ![c] = IF taken THEN "2xx" ELSE "error"]
      /\ UNCHANGED <<vars, console, client, lossesLeft>>

\* The post does not arrive, or its answer does not; after the script its receiver
\* is closed, mostly before the server.
Lose(c) ==
  /\ call[c] # Idle
  /\ heard[c] # "error"
  /\ Over \/ lossesLeft > 0
  /\ lossesLeft' = IF Over THEN lossesLeft ELSE lossesLeft - 1
  /\ heard' = [heard EXCEPT ![c] = "error"]
  /\ UNCHANGED <<vars, console, hits, seen, client>>

\* Wrong: a stop tells what it meant to do, not what it finds after its wait.
OutcomeAsMeant(p) ==
  IF doing[p].what = "stop"
  THEN Entry(doing[p].ref, "stopNotificationWorker", "stopped")
  ELSE Entry(doing[p].ref, "runNotificationWorker", Shown(running))

\* What is audited of a command that has waited for a batch.
Outcome(p) ==
  IF doing[p].what = "stop"
  THEN Entry(doing[p].ref, "stopNotificationWorker", Shown(running))
  ELSE Entry(doing[p].ref, "runNotificationWorker", Shown(running))

\* The end of a batch answers those who wait for it: a stop always, a run with
\* an error and without an entry if the batch failed.
BatchEnds(ok) ==
  LET waiting == {p \in People : doing[p].what \in {"run", "stop"}}
      logged == {p \in waiting : ok \/ doing[p].what = "stop"}
  IN  /\ doing' = [p \in People |-> IF p \in waiting THEN Free ELSE doing[p]]
      /\ audit' = Put({Outcome(p) : p \in logged})
      /\ newest' \in IF logged = {} THEN {newest} ELSE {doing[p].ref : p \in logged}
      /\ pilot' = IF Pilot \in waiting THEN Proceed(ok) ELSE pilot
      /\ phase' = IF phase = "stopping" THEN "draining" ELSE phase

\* The end of a redelivery by hand.
RedeliveryEnds(o, ok) ==
  /\ doing' = [doing EXCEPT ![o] = Free]
  /\ IF ok
     THEN RecordAdminAudit(doing[o].ref, "redeliverNotification", "delivered")
     ELSE NoAudit
  /\ UNCHANGED <<phase, pilot>>

\* The end of the post of a settlement: its failure is swallowed.
SettlementEnds ==
  /\ IF doing[Pilot].what = "settle"
     THEN doing' = [doing EXCEPT ![Pilot] = Free] /\ pilot' = Advanced
     ELSE UNCHANGED <<doing, pilot>>
  /\ NoAudit
  /\ UNCHANGED phase

\* The caller hears of its post.
Hear(c) ==
  LET ok == heard[c] = "2xx"
      ended == call'[c] = Idle
  IN  /\ heard[c] # "nothing"
      /\ Answer(c, ok)
      /\ heard' = IF up' THEN [heard EXCEPT ![c] = "nothing"]
                  ELSE [d \in Callers |-> "nothing"]
      /\ \/ ended /\ c = Worker /\ batch' = {} /\ BatchEnds(ok)
         \/ ended /\ c \in Operators /\ RedeliveryEnds(c, ok)
         \/ ended /\ c = Service /\ SettlementEnds
         \/ (~ended \/ (c = Worker /\ batch' # {})) /\ UNCHANGED <<doing, audit, newest, pilot, phase>>
      /\ UNCHANGED <<startedLate, hits, seen, outage, lossesLeft>>

-----------------------------------------------------------------------------
(* The server closes when the script is over                               *)

\* Wrong: the server does not wait for its worker.
CloseAtOnce ==
  /\ up
  /\ phase = "open"
  /\ Over
  /\ running' = FALSE
  /\ phase' = "draining"
  /\ UNCHANGED <<outbox, call, batch, watched, up, ghosts, bounds, doing, audit, newest,
                 startedLate, receivers, client, lossesLeft>>

\* The worker is stopped; requests are taken until its batch has ended.
Close ==
  /\ up
  /\ phase = "open"
  /\ Over
  /\ running' = FALSE
  /\ phase' = IF InFlight THEN "stopping" ELSE "draining"
  /\ UNCHANGED <<outbox, call, batch, watched, up, ghosts, bounds, doing, audit, newest,
                 startedLate, receivers, client, lossesLeft>>

\* The requests in progress are answered first.
Drained ==
  /\ up
  /\ phase = "draining"
  /\ \A c \in Posters : call[c] = Idle
  /\ \A p \in People : doing[p] = Free
  /\ phase' = "closed"
  /\ UNCHANGED <<vars, doing, audit, newest, startedLate, receivers, client, lossesLeft>>

-----------------------------------------------------------------------------

OperatorNext ==
  \E o \in Operators :
    \/ ListDeliveries(o) \/ GetStatus(o) \/ Start(o) \/ Stop(o) \/ Run(o)
    \/ \E n \in Notifications : GetDelivery(o, n) \/ RedeliverNotification(o, n)

PilotNext ==
  \/ Decide \/ CallService \/ Settle \/ ReadDelivery \/ ReadStatus \/ RunOnce
  \/ WaitForNotification \/ GetActionStatus \/ ListAudit \/ GetEntry

PostNext == \E c \in Callers : Receive(c) \/ Lose(c) \/ Hear(c)

OutboxNext ==
  /\ Tick \/ TakeNext \/ \E n \in Notifications : BackoffPasses(n)
  /\ UNCHANGED <<console, receivers, client, lossesLeft>>

ConsoleNext ==
  \/ OperatorNext
  \/ \E n \in Notifications : OtherSettlement(n)
  \/ PilotNext
  \/ PostNext
  \/ OutboxNext
  \/ Close \/ Drained

ConsoleSpec == ConsoleInit /\ [][ConsoleNext]_consoleVars

-----------------------------------------------------------------------------
(* Properties                                                              *)

\* Every variable has its type, no two entries of the audit share a reference,
\* and a person waits for a batch only while there is one.
ConsoleTypeOK ==
  /\ phase \in {"open", "stopping", "draining", "closed"}
  /\ doing \in [People -> Waiting \cup {Free}]
  /\ \A e \in audit : e.ref \in Operators \cup Nat /\ e.action \in Actions
  /\ \A d, e \in audit : d.ref = e.ref => d = e
  /\ newest \in Operators \cup Nat
  /\ heard \in [Callers -> {"nothing", "2xx", "error"}]
  /\ hits \in [Notifications -> 0 .. FailFirst]
  /\ seen \subseteq Notifications
  /\ pilot.end \in {"none", "undecided", "failed"}
  /\ up /\ (\E p \in People : doing[p].what \in {"run", "stop"}) => InFlight
  /\ up /\ phase = "stopping" => InFlight

\* Where the last entry about the worker was stored, the audit still shows what
\* the worker does, with commands of several clients waiting for one batch and
\* overtaking each other.  Only a stop that still waits has changed what no entry
\* shows yet, and only a command that is not about the worker and comes with the
\* same request reference can hide it: it replaces the entry, and what is left
\* about the worker may be older.
WorkerAuditIsCurrent ==
  up /\ phase = "open" /\ newest # 0 =>
    \/ \E p \in People : doing[p].what = "stop"
    \/ \E e \in audit :
         e.ref = newest /\ (e.action \in WorkerActions => e.shows = Shown(running))

\* A closed server posts nothing any more, whatever was in flight and whatever
\* was asked of it while it closed, except that its worker was started again.
ClosedIsQuiet ==
  phase = "closed" /\ ~startedLate =>
    /\ ~running
    /\ batch = {}
    /\ \A c \in Callers : call[c] = Idle

\* A recovery pilot that has decided reaches its end and reads its notification as delivered,
\* whatever the operators do to the worker and the entry meanwhile: neither a
\* batch it joins nor a redelivery by hand makes it fail.  Only answers that are
\* lost, or a batch that fails for the notification of another client, may.
PilotRecovers ==
  /\ up
  /\ Recovers
  /\ lossesLeft = MaxLosses
  /\ \A n \in Notifications \ {Mine} : outbox[n] = NoEntry /\ posts[n] = 0
  => /\ pilot.end # "failed"
     /\ Over /\ pilot.end = "none" => pilot.read = "delivered"

=============================================================================

------------------------- MODULE NotificationOutbox -------------------------
(***************************************************************************)
(* The outbox of settlement notifications and the worker that redelivers   *)
(* its failed entries (backend/afal/notifications.ts), with the operator's *)
(* routes to them (backend/afal/service/runtime.ts).                       *)
(*                                                                         *)
(* A notification is posted to the receiver's callback, up to MaxAttempts  *)
(* times in a row: one redelivery cycle.  Its entry is written when an     *)
(* attempt is accepted or the cycle fails, with the counts the posting     *)
(* call has read when it began.  A timer takes the failed entries whose    *)
(* backoff has passed and posts them one after the other; the first cycle  *)
(* that fails ends the batch, and the timer's promise is rejected without  *)
(* a handler, which ends the process.                                      *)
(*                                                                         *)
(* A step is the answer to one post: between two answers other calls run.  *)
(* The entries are durable (the SQLite store); everything else is lost in  *)
(* a crash.                                                                *)
(***************************************************************************)
EXTENDS Integers, FiniteSets

CONSTANTS
  Notifications, \* notification identifiers, one per settled action
  Posters,       \* the calls of the service that may post at the same time
  Worker,        \* the redelivery worker, which posts one entry at a time
  MaxAttempts,   \* posts of a cycle (maxAttempts)
  MaxCycles,     \* failed cycles until an entry is given up (maxRedeliveryCycles)
  Supervised,    \* TRUE: something restarts a process that has ended
  MaxNotifies,   \* bound on the settlements that are notified, per notification
  MaxCommands,   \* bound on the operator's commands
  MaxCrashes     \* bound on the crashes that have a cause outside this module

Callers == Posters \cup {Worker}

ASSUME OutboxAssumption ==
  /\ Worker \notin Posters
  /\ MaxAttempts \in Nat \ {0}
  /\ MaxCycles \in Nat \ {0}
  /\ Supervised \in BOOLEAN
  /\ MaxNotifies \in Nat
  /\ MaxCommands \in Nat
  /\ MaxCrashes \in Nat

VARIABLES
  outbox,   \* the entry of each notification
  call,     \* the cycle each caller is in
  batch,    \* the entries the worker has read and not yet posted
  watched,  \* the timer waits for the batch: its failure ends the process
  running,  \* the worker's timer is set
  up,       \* the process runs
  posts,    \* how many posts were answered, per notification
  accepted, \* the notifications for which a post was answered with a 2xx
  notifiesLeft, commandsLeft, crashesLeft

worker == <<batch, watched, running>>
ghosts == <<posts, accepted>>
bounds == <<notifiesLeft, commandsLeft, crashesLeft>>
vars == <<outbox, call, worker, up, ghosts, bounds>>

Statuses == {"none", "delivered", "failed", "skipped", "dead-lettered"}
Entries == [status : Statuses, attempts : Nat, cycles : Nat, due : BOOLEAN]
Reads == [id : Notifications, attempts : Nat, cycles : Nat]
Cycles == [id : Notifications, attempts : Nat, upTo : Nat, cycles : Nat]

NoEntry == [status |-> "none", attempts |-> 0, cycles |-> 0, due |-> FALSE]
SkippedEntry == [NoEntry EXCEPT !.status = "skipped"]
Idle == [upTo |-> 0]

Init ==
  /\ outbox = [n \in Notifications |-> NoEntry]
  /\ call = [c \in Callers |-> Idle]
  /\ batch = {}
  /\ watched = FALSE
  /\ running = TRUE
  /\ up = TRUE
  /\ posts = [n \in Notifications |-> 0]
  /\ accepted = {}
  /\ notifiesLeft = [n \in Notifications |-> MaxNotifies]
  /\ commandsLeft = MaxCommands
  /\ crashesLeft = MaxCrashes

-----------------------------------------------------------------------------
(* What the calls are made of                                              *)

Read(n) == [id |-> n, attempts |-> outbox[n].attempts, cycles |-> outbox[n].cycles]

Unread(n) == [id |-> n, attempts |-> 0, cycles |-> 0]

\* Wrong: the limit does not count the attempts of the earlier cycles.
CycleFromStart(r) ==
  [id |-> r.id, attempts |-> r.attempts, upTo |-> MaxAttempts, cycles |-> r.cycles]

\* The cycle that goes on from the counts of r.
CycleFrom(r) ==
  [id |-> r.id, attempts |-> r.attempts,
   upTo |-> r.attempts + MaxAttempts, cycles |-> r.cycles]

Begin(c, r) ==
  /\ call[c] = Idle
  /\ call' = [call EXCEPT ![c] = CycleFrom(r)]

\* Only these have a callback target: an entry without one is "skipped".
HasTarget(n) == outbox[n].status \in {"delivered", "failed", "dead-lettered"}

Failed == {n \in Notifications : outbox[n].status = "failed"}

\* Wrong: an entry is not taken again for its last cycle.
EligibleBeforeLast ==
  {n \in Failed : outbox[n].due /\ outbox[n].cycles + 1 < MaxCycles}

Eligible == {n \in Failed : outbox[n].due}

InFlight == call[Worker] # Idle \/ batch # {}

Command ==
  /\ commandsLeft > 0
  /\ commandsLeft' = commandsLeft - 1
  /\ UNCHANGED <<notifiesLeft, crashesLeft>>

Dead ==
  /\ up' = FALSE
  /\ running' = FALSE
  /\ watched' = FALSE
  /\ batch' = {}
  /\ call' = [c \in Callers |-> Idle]

-----------------------------------------------------------------------------
(* The service and the operator                                            *)

\* A settlement is notified: anew, whatever the entry says.
Notify(c, n) ==
  /\ up
  /\ notifiesLeft[n] > 0
  /\ notifiesLeft' = [notifiesLeft EXCEPT ![n] = @ - 1]
  /\ \/ /\ Begin(c, Unread(n))
        /\ UNCHANGED outbox
     \/ /\ outbox' = [outbox EXCEPT ![n] = SkippedEntry]
        /\ UNCHANGED call
  /\ UNCHANGED <<worker, up, ghosts, commandsLeft, crashesLeft>>

\* The operator has an entry posted again, whatever its status.
Redeliver(c, n) ==
  /\ up
  /\ Command
  /\ HasTarget(n)
  /\ Begin(c, Read(n))
  /\ UNCHANGED <<outbox, worker, up, ghosts>>

\* The operator runs the worker once, or waits for the batch in flight.
RunWorker ==
  /\ up
  /\ Command
  /\ ~InFlight
  /\ Eligible # {}
  /\ batch' = {Read(n) : n \in Eligible}
  /\ watched' = FALSE
  /\ UNCHANGED <<outbox, call, running, up, ghosts>>

StartWorker ==
  /\ up
  /\ Command
  /\ ~running
  /\ running' = TRUE
  /\ UNCHANGED <<outbox, call, batch, watched, up, ghosts>>

\* A batch in flight goes on.
StopWorker ==
  /\ up
  /\ Command
  /\ running
  /\ running' = FALSE
  /\ UNCHANGED <<outbox, call, batch, watched, up, ghosts>>

-----------------------------------------------------------------------------
(* The worker                                                              *)

\* The timer fires: it starts a batch, or waits for the one in flight.
Tick ==
  /\ up
  /\ running
  /\ \/ /\ ~InFlight
        /\ Eligible # {}
        /\ batch' = {Read(n) : n \in Eligible}
     \/ /\ InFlight
        /\ ~watched
        /\ UNCHANGED batch
  /\ watched' = TRUE
  /\ UNCHANGED <<outbox, call, running, up, ghosts, bounds>>

\* The worker posts the next entry with the counts it read at the start.
TakeNext ==
  \E r \in batch :
    /\ Begin(Worker, r)
    /\ batch' = batch \ {r}
    /\ UNCHANGED <<outbox, watched, running, up, ghosts, bounds>>

-----------------------------------------------------------------------------
(* An answer to a post: 2xx if ok, and another answer or an error if not   *)

Count(n, ok) ==
  /\ posts' = [posts EXCEPT ![n] = @ + 1]
  /\ accepted' = IF ok THEN accepted \cup {n} ELSE accepted

Write(n, status, attempts, cycles) ==
  outbox' = [outbox EXCEPT ![n] =
    [status |-> status, attempts |-> attempts, cycles |-> cycles, due |-> FALSE]]

Accept(c) ==
  LET k == call[c]
  IN  /\ Write(k.id, "delivered", k.attempts + 1, k.cycles)
      /\ call' = [call EXCEPT ![c] = Idle]
      /\ watched' = (watched /\ (c # Worker \/ batch # {}))
      /\ UNCHANGED <<batch, running, up>>

\* Wrong: one attempt more than the limit.
RetryUpToLimit(c) ==
  /\ call[c].attempts + 1 <= call[c].upTo
  /\ call' = [call EXCEPT ![c].attempts = @ + 1]
  /\ UNCHANGED <<outbox, worker, up>>

Retry(c) ==
  /\ call[c].attempts + 1 < call[c].upTo
  /\ call' = [call EXCEPT ![c].attempts = @ + 1]
  /\ UNCHANGED <<outbox, worker, up>>

\* What becomes of the call whose cycle has failed, and of what waits for it.
Throw(c) ==
  IF c = Worker /\ watched
  THEN Dead
  ELSE /\ call' = [call EXCEPT ![c] = Idle]
       /\ batch' = IF c = Worker THEN {} ELSE batch
       /\ UNCHANGED <<watched, running, up>>

\* Wrong: the failed cycle is not counted.
GiveUpUncounted(c) ==
  LET k == call[c]
  IN  /\ k.attempts + 1 >= k.upTo
      /\ Write(k.id, IF k.cycles >= MaxCycles THEN "dead-lettered" ELSE "failed",
               k.attempts + 1, k.cycles)
      /\ Throw(c)

\* The cycle has failed.  The call throws: the service logs it, the operator
\* is told, the worker drops its batch and rejects what waits for it.
GiveUp(c) ==
  LET k == call[c]
      cycles == k.cycles + 1
  IN  /\ k.attempts + 1 >= k.upTo
      /\ Write(k.id, IF cycles >= MaxCycles THEN "dead-lettered" ELSE "failed",
               k.attempts + 1, cycles)
      /\ Throw(c)

\* Wrong: an answer is taken for a success, whatever its status.
AnswerWithoutStatus(c, ok) ==
  /\ call[c] # Idle
  /\ Count(call[c].id, ok)
  /\ Accept(c)
  /\ UNCHANGED bounds

Answer(c, ok) ==
  /\ call[c] # Idle
  /\ Count(call[c].id, ok)
  /\ IF ok THEN Accept(c) ELSE Retry(c) \/ GiveUp(c)
  /\ UNCHANGED bounds

BackoffPasses(n) ==
  /\ n \in Failed \ Eligible
  /\ outbox' = [outbox EXCEPT ![n].due = TRUE]
  /\ UNCHANGED <<call, worker, up, ghosts, bounds>>

-----------------------------------------------------------------------------
(* The process                                                             *)

Crash ==
  /\ up
  /\ crashesLeft > 0
  /\ crashesLeft' = crashesLeft - 1
  /\ Dead
  /\ UNCHANGED <<outbox, ghosts, notifiesLeft, commandsLeft>>

\* A new process starts its worker.
Restart ==
  /\ ~up
  /\ Supervised
  /\ up' = TRUE
  /\ running' = TRUE
  /\ UNCHANGED <<outbox, call, batch, watched, ghosts, bounds>>

ServiceNext ==
  \/ \E c \in Posters, n \in Notifications : Notify(c, n) \/ Redeliver(c, n)
  \/ RunWorker \/ StartWorker \/ StopWorker

WorkerNext == Tick \/ TakeNext

AnswerNext == \E c \in Callers, ok \in BOOLEAN : Answer(c, ok)

EnvironmentNext ==
  \/ \E n \in Notifications : BackoffPasses(n)
  \/ Crash
  \/ Restart

Next == ServiceNext \/ WorkerNext \/ AnswerNext \/ EnvironmentNext

Spec == Init /\ [][Next]_vars

\* The timer fires again and again and the event loop runs the worker on; a
\* post is answered or fails, since fetch bounds the time it waits; time
\* passes; and what supervises the process restarts it.
Fairness ==
  /\ WF_vars(Tick)
  /\ WF_vars(TakeNext)
  /\ \A c \in Callers : WF_vars(\E ok \in BOOLEAN : Answer(c, ok))
  /\ \A n \in Notifications : WF_vars(BackoffPasses(n))
  /\ WF_vars(Restart)

FairSpec == Spec /\ Fairness

-----------------------------------------------------------------------------
(* Properties                                                              *)

\* Every variable has its type, and a call in progress has an attempt left: it
\* never posts more often than its cycle allows.
TypeOK ==
  /\ outbox \in [Notifications -> Entries]
  /\ call \in [Callers -> Cycles \cup {Idle}]
  /\ \A c \in Callers :
       call[c] # Idle => call[c].upTo - call[c].attempts \in 1..MaxAttempts
  /\ batch \in SUBSET Reads
  /\ {watched, running, up} \subseteq BOOLEAN
  /\ posts \in [Notifications -> Nat]
  /\ accepted \subseteq Notifications
  /\ notifiesLeft \in [Notifications -> Nat]
  /\ {commandsLeft, crashesLeft} \subseteq Nat

\* "delivered" means that AFAL received a 2xx answer, whichever calls and
\* batches have posted the notification with whichever stale counts.
DeliveredWasAccepted ==
  \A n \in Notifications : outbox[n].status = "delivered" => n \in accepted

\* An entry is given up only when the retries of every cycle were spent on
\* it: however calls with stale counts overwrite each other's entries, and
\* however often the process dies, no entry is dead-lettered early.
DeadLetterIsEarned ==
  \A n \in Notifications :
    outbox[n].status = "dead-lettered" => posts[n] >= MaxCycles * MaxAttempts

\* A receiver is not called without end: a notified settlement and a command
\* of the operator are each worth MaxCycles cycles at most, a crash one.  A
\* command is worth more than its own cycle when it, or the worker, writes
\* stale counts back and so revives an entry.
PostsAreBounded ==
  \A n \in Notifications :
    LET causes == (MaxNotifies - notifiesLeft[n]) + (MaxCommands - commandsLeft)
    IN  posts[n] <= MaxAttempts * (MaxCycles * causes + (MaxCrashes - crashesLeft))

\* A failed entry does not stay failed: unless the operator leaves the worker
\* stopped, redelivery delivers it or gives it up.
FailedIsResolved ==
  <>[](up => running) =>
    \A n \in Notifications : [](outbox[n].status = "failed" => <>(outbox[n].status # "failed"))

=============================================================================

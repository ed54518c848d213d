---------------------------- MODULE ClientGateway ----------------------------
(***************************************************************************)
(* The external clients of AFAL: their records and request replay records  *)
(* (backend/afal/clients, in SQLite), the routes that authenticate them    *)
(* (backend/afal/http/router.ts) and the callback addresses their          *)
(* registrations give the settlement notifications                         *)
(* (backend/afal/notifications.ts).                                        *)
(*                                                                         *)
(* The server works on one authenticated request at a time: between two    *)
(* SQLite calls of a request no other request runs. The provisioning       *)
(* script (scripts/provision-external-agent-sandbox.ts) is another process *)
(* on the same database, so it does run there, and the server may die      *)
(* there.                                                                  *)
(*                                                                         *)
(* A request is signed by a key; a signature is valid for the client, the  *)
(* requestRef and the timestamp it was made for. Stored records are always *)
(* active: only provisioning writes that field.                            *)
(***************************************************************************)
EXTENDS Naturals, FiniteSets

CONSTANTS
    Clients,        \* client ids
    RankOf,         \* their order, in which listClients returns them
    Bundles,        \* the records the script may provision
    Keys, Subjects, Receivers, Urls, Refs,
    Notifications,
    Static,         \* the callback addresses the server is configured with
    MaxTime,        \* bound on the clock
    MaxAge,         \* maxRequestAgeMs
    MaxRequests,    \* bound on authenticated requests
    MaxProvisions,  \* bound on runs of the script
    MaxCrashes,     \* bound on crashes of the server
    MaxCycles,      \* maxRedeliveryCycles
    NoClient, NoReceiver, NoUrl

Directions == {"payment", "resource"}
Record == [key : Keys, subject : Subjects,
           role : [Directions -> Receivers \cup {NoReceiver}],
           url : [Directions -> Urls \cup {NoUrl}]]
Request == [client : Clients, ref : Refs, time : 0..MaxTime, key : Keys]
Tuple == Clients \X Refs \X (0..MaxTime)

ASSUME GatewayAssumption ==
    /\ IsFiniteSet(Clients)
    /\ RankOf \in [Clients -> 1..Cardinality(Clients)]
    /\ \A c, d \in Clients : RankOf[c] = RankOf[d] => c = d
    /\ Bundles \subseteq Record
    /\ Static \in [Directions -> [Receivers -> Urls \cup {NoUrl}]]
    /\ MaxTime \in Nat /\ MaxAge \in Nat /\ MaxRequests \in Nat /\ MaxProvisions \in Nat
    /\ MaxCrashes \in Nat /\ MaxCycles \in Nat \ {0}
    /\ NoClient \notin Record /\ NoReceiver \notin Receivers /\ NoUrl \notin Urls

VARIABLES
    now,
    client,      \* the stored records
    replays,     \* the stored (client, requestRef, timestamp)
    server,      \* the request the server works on
    entry,       \* the outbox entries of the notifications
    served,      \* how often each tuple was let through (history)
    current,     \* what was last provisioned and registered (history)
    overlapped,  \* clients provisioned while registering (history)
    offered,     \* addresses ever stored for a receiver (history)
    requests, provisions, crashes  \* what has been used of the bounds

vars == <<now, client, replays, server, entry, served, current, overlapped,
          offered, requests, provisions, crashes>>
store == <<client, replays>>
ghosts == <<served, current, overlapped, offered>>
bounds == <<requests, provisions, crashes>>

NoUrls == [d \in Directions |-> NoUrl]
Idle == [pc |-> "idle"]

\* What the outbox stores of a settlement: where it goes to is decided once.
Entry(status, d, did, url, cycles) ==
    [status |-> status, direction |-> d, receiver |-> did, target |-> url, cycles |-> cycles]
NoEntry == Entry("none", "none", NoReceiver, NoUrl, 0)

Tick ==
    /\ now < MaxTime
    /\ now' = now + 1
    /\ UNCHANGED <<store, server, entry, ghosts, bounds>>

-----------------------------------------------------------------------------
(* The callback addresses.                                                 *)

Offers(record, d, did) == record # NoClient /\ record.role[d] = did /\ record.url[d] # NoUrl

LastOf(who) == CHOOSE c \in who : \A d \in who : RankOf[d] <= RankOf[c]

(* getPaymentCallbackUrls, getResourceCallbackUrls: of several clients that *)
(* receive for the same identity, the last one with an address counts.     *)
Resolve(d, did) ==
    LET who == {c \in Clients : Offers(client[c], d, did)}
    IN IF who = {} THEN NoUrl
       ELSE client[LastOf(who)].url[d]

(* Wrong: a registration goes before the configuration.                     *)
RegisteredFirst(d, did) ==
    IF Resolve(d, did) # NoUrl THEN Resolve(d, did) ELSE Static[d][did]

(* resolvePaymentCallbackUrl, resolveResourceCallbackUrl: an address the     *)
(* server is configured with goes before a registered one.                  *)
TargetOf(d, did) ==
    IF Static[d][did] # NoUrl THEN Static[d][did] ELSE Resolve(d, did)

(* normalizeCallbackRegistration: there is an address, and each is for a    *)
(* direction the client was provisioned for.                               *)
Registrable(record, urls) ==
    /\ urls # NoUrls
    /\ \A d \in Directions : urls[d] # NoUrl => record.role[d] # NoReceiver

PutClient(c, record) ==
    /\ client' = [client EXCEPT ![c] = record]
    /\ offered' = offered \cup
           {<<d, record.role[d], record.url[d]>> : d \in {e \in Directions : record.url[e] # NoUrl}}

-----------------------------------------------------------------------------
(* The script: the whole record is replaced, its callbacks too.             *)

Registering(c) == server.pc = "registering" /\ server.request.client = c

ProvisionClient(c, bundle) ==
    /\ provisions < MaxProvisions
    /\ PutClient(c, bundle)
    /\ current' = [current EXCEPT ![c] = bundle]
    /\ overlapped' = IF Registering(c) THEN overlapped \cup {c} ELSE overlapped \ {c}
    /\ provisions' = provisions + 1
    /\ UNCHANGED <<now, replays, server, entry, served, requests, crashes>>

-----------------------------------------------------------------------------
(* The routes.                                                             *)

SignedAs(q) == <<q.client, q.ref, q.time>>

(* The client is known, the timestamp within the window, the signature made *)
(* with the client's key.                                                  *)
Authentic(q) ==
    /\ client[q.client] # NoClient
    /\ q.time <= now + MaxAge /\ now <= q.time + MaxAge
    /\ q.key = client[q.client].key

(* The record is read and the signature checked with it. *)
Authenticate(q, route) ==
    /\ requests < MaxRequests
    /\ server = Idle
    /\ Authentic(q)
    /\ server' = [pc |-> "verified", route |-> route, request |-> q]
    /\ UNCHANGED <<now, store, entry, ghosts, bounds>>

(* Then the replay record is looked for and written: a request that failed a *)
(* check before leaves none, and the record may have been replaced since.    *)
RecordReplay ==
    /\ server.pc = "verified"
    /\ LET q == server.request
       IN \/ /\ SignedAs(q) \in replays
             /\ server' = Idle
             /\ UNCHANGED <<replays, requests>>
          \/ /\ SignedAs(q) \notin replays
             /\ replays' = replays \cup {SignedAs(q)}
             /\ server' = [server EXCEPT !.pc = "authenticated"]
             /\ requests' = requests + 1
    /\ UNCHANGED <<now, client, entry, ghosts, provisions, crashes>>

(* A request for an action may only be made for the client's own subject.   *)
ActFor(subject, q, route) ==
    /\ Authenticate(q, route)
    /\ subject = client[q.client].subject

ExecutePayment(q, payer) == ActFor(payer, q, "executePayment")

RequestPaymentApproval(q, payer) == ActFor(payer, q, "requestPaymentApproval")

SettleResourceUsage(q, requester) == ActFor(requester, q, "settleResourceUsage")

RequestResourceApproval(q, requester) == ActFor(requester, q, "requestResourceApproval")

GetActionStatus(q) == Authenticate(q, "getActionStatus")

RegisterExternalCallback(q) == Authenticate(q, "registerExternalCallback")

GetExternalCallbackRegistration(q) == Authenticate(q, "getExternalCallbackRegistration")

ListExternalCallbackRegistrations(q) == Authenticate(q, "listExternalCallbackRegistrations")

Serve(q) == served' = [served EXCEPT ![SignedAs(q)] = @ + 1]

RuntimeRoutes == {"executePayment", "requestPaymentApproval", "settleResourceUsage",
                  "requestResourceApproval", "getActionStatus"}
ReadRoutes == {"getExternalCallbackRegistration", "listExternalCallbackRegistrations"}
Routes == RuntimeRoutes \cup ReadRoutes \cup {"registerExternalCallback"}

Leave ==
    /\ Serve(server.request)
    /\ server' = Idle
    /\ UNCHANGED <<now, store, entry, current, overlapped, offered, bounds>>

(* The handler calls the runtime, once, and whatever it throws becomes an   *)
(* answer.                                                                  *)
Handle ==
    /\ server.pc = "authenticated"
    /\ server.route \in RuntimeRoutes
    /\ Leave

(* The registration of the client that asks, in the list too.               *)
ReadRegistration ==
    /\ server.pc = "authenticated"
    /\ server.route \in ReadRoutes
    /\ Leave

(* registerCallback reads the record and checks the registration; one that  *)
(* is refused changes nothing.                                             *)
ReadForRegistration(urls) ==
    /\ server.pc = "authenticated"
    /\ server.route = "registerExternalCallback"
    /\ Serve(server.request)
    /\ LET record == client[server.request.client]
       IN server' = IF Registrable(record, urls)
                    THEN [pc |-> "registering", request |-> server.request,
                          record |-> [record EXCEPT !.url = urls]]
                    ELSE Idle
    /\ UNCHANGED <<now, store, entry, current, overlapped, offered, bounds>>

(* Wrong: an address that was not given keeps its old value. *)
RegisterCallbackMerged ==
    LET c == server.request.client
        old == server.record.url
    IN /\ server.pc = "registering"
       /\ PutClient(c, [server.record EXCEPT !.url =
              [d \in Directions |-> IF old[d] = NoUrl THEN client[c].url[d] ELSE old[d]]])
       /\ current' = [current EXCEPT ![c].url = server.record.url]
       /\ server' = Idle
       /\ UNCHANGED <<now, replays, entry, served, overlapped, bounds>>

(* Wrong: what is stored is the answer, which leaves out the key. *)
RegisterCallbackAnswer ==
    LET c == server.request.client
    IN /\ server.pc = "registering"
       /\ PutClient(c, [subject |-> server.record.subject, role |-> server.record.role,
                        url |-> server.record.url])
       /\ current' = [current EXCEPT ![c].url = server.record.url]
       /\ server' = Idle
       /\ UNCHANGED <<now, replays, entry, served, overlapped, bounds>>

(* The whole record is written back, with the registration as it was given: *)
(* an address that was not given is dropped.                               *)
RegisterCallback ==
    LET c == server.request.client
    IN /\ server.pc = "registering"
       /\ PutClient(c, server.record)
       /\ current' = [current EXCEPT ![c].url = server.record.url]
       /\ server' = Idle
       /\ UNCHANGED <<now, replays, entry, served, overlapped, bounds>>

(* Wrong: the replay records are lost with the process. *)
RestartForgetful ==
    /\ crashes < MaxCrashes
    /\ server' = Idle
    /\ replays' = {}
    /\ crashes' = crashes + 1
    /\ UNCHANGED <<now, client, entry, ghosts, requests, provisions>>

(* The server dies and starts again.                                        *)
Restart ==
    /\ crashes < MaxCrashes
    /\ server' = Idle
    /\ crashes' = crashes + 1
    /\ UNCHANGED <<now, store, entry, ghosts, requests, provisions>>

-----------------------------------------------------------------------------
(* Notifications, one post per call (NotificationOutbox has the attempts,   *)
(* the crashes and the timing).                                             *)

PutEntry(n, e) ==
    /\ entry' = [entry EXCEPT ![n] = e]
    /\ UNCHANGED <<now, store, server, ghosts, bounds>>

Post(n, d, did, url, cycles) ==
    \/ PutEntry(n, Entry("delivered", d, did, url, cycles))
    \/ PutEntry(n, Entry(IF cycles + 1 >= MaxCycles THEN "dead-lettered" ELSE "failed",
                         d, did, url, cycles + 1))

(* The action is settled for the receiver its intent names, which may be     *)
(* another one when the action was requested again. The entry of an earlier  *)
(* settlement of the action is replaced, whatever became of it.              *)
NotifySettlement(n, d, did) ==
    LET url == TargetOf(d, did)
    IN \/ /\ url = NoUrl
          /\ PutEntry(n, Entry("skipped", d, did, NoUrl, 0))
       \/ /\ url # NoUrl
          /\ Post(n, d, did, url, 0)

PostAgain(n) ==
    Post(n, entry[n].direction, entry[n].receiver, entry[n].target, entry[n].cycles)

(* The worker: an entry goes to the address it was first posted to.         *)
RedeliverFailed(n) ==
    /\ entry[n].status = "failed"
    /\ PostAgain(n)

(* The operator: likewise, whatever the entry's status; a dead letter may be *)
(* posted again. An entry that was skipped has no address and is refused,   *)
(* also when one has been registered since.                                 *)
RedeliverNotification(n) ==
    /\ entry[n].target # NoUrl
    /\ entry[n].cycles <= MaxCycles
    /\ PostAgain(n)

-----------------------------------------------------------------------------
Init ==
    /\ now = 0
    /\ client = [c \in Clients |-> NoClient]
    /\ replays = {}
    /\ server = Idle
    /\ entry = [n \in Notifications |-> NoEntry]
    /\ served = [x \in Tuple |-> 0]
    /\ current = [c \in Clients |-> NoClient]
    /\ overlapped = {}
    /\ offered = {}
    /\ requests = 0 /\ provisions = 0 /\ crashes = 0

Next ==
    \/ Tick
    \/ \E c \in Clients, bundle \in Bundles : ProvisionClient(c, bundle)
    \/ \E q \in Request :
         \/ \E s \in Subjects :
              \/ ExecutePayment(q, s)
              \/ RequestPaymentApproval(q, s)
              \/ SettleResourceUsage(q, s)
              \/ RequestResourceApproval(q, s)
         \/ GetActionStatus(q)
         \/ RegisterExternalCallback(q)
         \/ GetExternalCallbackRegistration(q)
         \/ ListExternalCallbackRegistrations(q)
    \/ RecordReplay
    \/ Handle
    \/ ReadRegistration
    \/ \E urls \in [Directions -> Urls \cup {NoUrl}] : ReadForRegistration(urls)
    \/ RegisterCallback
    \/ Restart
    \/ \E n \in Notifications :
         \/ \E d \in Directions, did \in Receivers : NotifySettlement(n, d, did)
         \/ RedeliverFailed(n)
         \/ RedeliverNotification(n)

Spec == Init /\ [][Next]_vars

-----------------------------------------------------------------------------
TypeOK ==
    /\ now \in 0..MaxTime
    /\ client \in [Clients -> Record \cup {NoClient}]
    /\ replays \subseteq Tuple
    /\ server \in {Idle}
         \cup [pc : {"verified", "authenticated"}, request : Request, route : Routes]
         \cup [pc : {"registering"}, request : Request, record : Record]
    /\ entry \in [Notifications ->
           [status : {"none", "skipped", "delivered", "failed", "dead-lettered"},
            direction : Directions \cup {"none"}, receiver : Receivers \cup {NoReceiver},
            target : Urls \cup {NoUrl}, cycles : 0..(MaxCycles + 1)]]
    /\ served \in [Tuple -> Nat]
    /\ current \in [Clients -> Record \cup {NoClient}]
    /\ overlapped \subseteq Clients
    /\ offered \subseteq Directions \X (Receivers \cup {NoReceiver}) \X Urls
    /\ requests \in 0..MaxRequests /\ provisions \in 0..MaxProvisions
    /\ crashes \in 0..MaxCrashes

(* A signed request is let through once, on whatever route and however late  *)
(* it comes again, also when the server died after it was recorded or the   *)
(* client was provisioned anew. (authenticateRequest and its replay record) *)
ServedOnce == \A x \in Tuple : served[x] <= 1

(* The stored record is what was last provisioned, with the callbacks that   *)
(* were last registered: a rotated key or a registration is never undone,   *)
(* unless the script wrote while a registration was on its way.             *)
(* (registerCallback writes back the record it read)                        *)
RecordIsCurrent ==
    \A c \in Clients \ overlapped : client[c] = current[c]

(* A notification is posted to the address the server is configured with for *)
(* the receiver of that settlement, and without one only to an address that  *)
(* a client receiving for it had stored, in that direction.                  *)
(* (resolve...CallbackUrl, get...CallbackUrls and the entry's targetUrl)     *)
PostedToReceiver ==
    \A n \in Notifications : entry[n].target # NoUrl =>
        LET e == entry[n]
        IN IF Static[e.direction][e.receiver] # NoUrl
           THEN e.target = Static[e.direction][e.receiver]
           ELSE <<e.direction, e.receiver, e.target>> \in offered

(* A settlement is skipped only if no address is configured for its receiver *)
(* and nobody has one registered.                                           *)
SkippedHadNoAddress ==
    \A n \in Notifications :
        LET e == entry'[n]
        IN e.status = "skipped" /\ entry[n] # e =>
             /\ Static[e.direction][e.receiver] = NoUrl
             /\ \A c \in Clients \ overlapped : ~Offers(current[c], e.direction, e.receiver)

(* Notifications follow the configuration and the registrations: whatever is *)
(* registered, rotated or provisioned between a settlement and its posts, and *)
(* though the action may be settled again for another receiver, they go to an *)
(* address of their receiver, and to none only where the receiver has none.  *)
NotifiedAsRegistered == [][PostedToReceiver' /\ SkippedHadNoAddress]_vars

=============================================================================

------------------------- MODULE ClientGatewayProofs -------------------------
(***************************************************************************)
(* What holds of the external clients for every number of clients, keys,   *)
(* requests, provisionings, notifications and crashes: the types, that a   *)
(* signed request is served once, that no registration or rotated key is   *)
(* undone, and that notifications go where their receiver is registered.   *)
(***************************************************************************)
EXTENDS ClientGateway, TLAPS, FiniteSetTheorems, WellFoundedInduction

\* Nothing was served that left no replay record, and what the server works on
\* has left one and has not been served.
ReplaysCoverServed == \A x \in Tuple : x \notin replays => served[x] = 0

AuthenticatedIsUnserved ==
    server.pc = "authenticated" =>
        SignedAs(server.request) \in replays /\ served[SignedAs(server.request)] = 0

\* A request that will be counted is within the bound.
VerifiedIsWithinBound == server.pc = "verified" => requests < MaxRequests

ClientIsKnown ==
    /\ server.pc # "idle" => client[server.request.client] # NoClient
    /\ \A c \in Clients : client[c] # NoClient => current[c] # NoClient

\* A registration in progress holds the record as it is, but for the addresses.
RegistrationIsCurrent ==
    server.pc = "registering" =>
        LET c == server.request.client
        IN c \notin overlapped =>
               server.record = [current[c] EXCEPT !.url = server.record.url]

OfferedIsKept ==
    \A c \in Clients, d \in Directions :
        client[c] # NoClient /\ client[c].url[d] # NoUrl =>
            <<d, client[c].role[d], client[c].url[d]>> \in offered

FailedMayRetry ==
    \A n \in Notifications : entry[n].status = "failed" =>
        entry[n].cycles < MaxCycles /\ entry[n].target # NoUrl

\* What has an address has a receiver.
PostedIsMeant ==
    \A n \in Notifications : entry[n].target # NoUrl =>
        entry[n].direction \in Directions /\ entry[n].receiver \in Receivers

IInv ==
    /\ TypeOK
    /\ ServedOnce
    /\ ReplaysCoverServed
    /\ AuthenticatedIsUnserved
    /\ VerifiedIsWithinBound
    /\ ClientIsKnown
    /\ RecordIsCurrent
    /\ RegistrationIsCurrent
    /\ OfferedIsKept
    /\ PostedToReceiver
    /\ FailedMayRetry
    /\ PostedIsMeant

-----------------------------------------------------------------------------
(* The last of several clients.                                            *)

\* A set of clients that is not empty has a last one.
LEMMA LastOfIsIn ==
    ASSUME NEW who \in SUBSET Clients, who # {}
    PROVE  LastOf(who) \in who
<1> DEFINE B == Cardinality(Clients)
<1> DEFINE T == {B - RankOf[c] : c \in who}
<1>1. B \in Nat /\ \A c \in Clients : RankOf[c] \in Nat /\ RankOf[c] <= B
    BY GatewayAssumption, FS_CardinalityType
<1>2. T \subseteq Nat /\ T # {}
    BY <1>1, SMT
<1>3. PICK x \in T : \A y \in T : ~(<<y, x>> \in OpToRel(<, Nat))
    BY <1>2, NatLessThanWellFounded, WFMin
<1>4. PICK c \in who : x = B - RankOf[c]
    BY <1>3
<1>5. \A d \in who : RankOf[d] <= RankOf[c]
    <2>1. SUFFICES ASSUME NEW d \in who, RankOf[c] < RankOf[d] PROVE FALSE
        BY <1>1, SMT
    <2>2. B - RankOf[d] \in T /\ B - RankOf[d] < x
        BY <1>1, <1>4, <2>1, SMT
    <2>3. <<B - RankOf[d], x>> \in OpToRel(<, Nat)
        BY <1>2, <1>3, <2>2, SMT DEF OpToRel
    <2> QED
        BY <1>3, <2>2, <2>3
<1> QED
    BY <1>5 DEF LastOf

\* The address a notification is posted to is one stored for its receiver, and
\* there is none only where no client offers one.
LEMMA ResolveIsOffered ==
    ASSUME TypeOK, OfferedIsKept, NEW d \in Directions, NEW did \in Receivers
    PROVE  /\ Resolve(d, did) \in Urls \cup {NoUrl}
           /\ Resolve(d, did) # NoUrl => <<d, did, Resolve(d, did)>> \in offered
           /\ Resolve(d, did) = NoUrl => \A c \in Clients : ~Offers(client[c], d, did)
<1> DEFINE who == {c \in Clients : Offers(client[c], d, did)}
<1>1. CASE who = {}
    BY <1>1 DEF Resolve
<1>2. CASE who # {}
    <2>1. LastOf(who) \in who
        BY <1>2, LastOfIsIn
    <2>2. Resolve(d, did) = client[LastOf(who)].url[d]
        BY <1>2 DEF Resolve
    <2>3. client[LastOf(who)] \in Record
        BY <2>1 DEF Offers, TypeOK
    <2> QED
        BY <2>1, <2>2, <2>3 DEF Offers, OfferedIsKept, Record
<1> QED
    BY <1>1, <1>2

\* A notification for did may go to url, as far as PostedToReceiver says.
MayPost(d, did, url) ==
    IF Static[d][did] # NoUrl THEN url = Static[d][did] ELSE <<d, did, url>> \in offered

\* The same with the configuration before it.
LEMMA TargetIsAllowed ==
    ASSUME TypeOK, OfferedIsKept, NEW d \in Directions, NEW did \in Receivers
    PROVE  /\ TargetOf(d, did) \in Urls \cup {NoUrl}
           /\ TargetOf(d, did) # NoUrl => MayPost(d, did, TargetOf(d, did))
           /\ TargetOf(d, did) = NoUrl =>
                /\ Static[d][did] = NoUrl
                /\ \A c \in Clients : ~Offers(client[c], d, did)
<1>1. Static[d][did] \in Urls \cup {NoUrl}
    BY GatewayAssumption
<1> QED
    BY <1>1, ResolveIsOffered DEF TargetOf, MayPost

-----------------------------------------------------------------------------
(* Each step keeps the invariant.                                          *)

\* The parts of the invariant about requests, records and notifications.
RequestPart ==
    ServedOnce /\ ReplaysCoverServed /\ AuthenticatedIsUnserved /\ VerifiedIsWithinBound
RecordPart == ClientIsKnown /\ RecordIsCurrent /\ RegistrationIsCurrent /\ OfferedIsKept
NotePart == PostedToReceiver /\ FailedMayRetry /\ PostedIsMeant

LEMMA InitHolds == Init => IInv
<1> SUFFICES ASSUME Init PROVE IInv
    OBVIOUS
<1> USE GatewayAssumption
<1>1. TypeOK
    BY DEF Init, TypeOK, NoEntry, Entry
<1>2. RequestPart
    BY DEF Init, RequestPart, ServedOnce, ReplaysCoverServed, AuthenticatedIsUnserved,
        VerifiedIsWithinBound, Idle
<1>3. RecordPart
    BY DEF Init, RecordPart, ClientIsKnown, RecordIsCurrent, RegistrationIsCurrent, OfferedIsKept, Idle
<1>4. NotePart
    BY DEF Init, NotePart, PostedToReceiver, FailedMayRetry, PostedIsMeant, NoEntry, Entry
<1> QED
    BY <1>1, <1>2, <1>3, <1>4 DEF IInv, RequestPart, RecordPart, NotePart

\* The clock and the script.
LEMMA TickKeeps == IInv /\ Tick => IInv'
<1> SUFFICES ASSUME IInv, Tick PROVE IInv'
    OBVIOUS
<1>1. TypeOK'
    BY GatewayAssumption DEF IInv, TypeOK, Tick, store, ghosts, bounds
<1> QED
    BY <1>1 DEF IInv, Tick, store, ghosts, bounds, ServedOnce, ReplaysCoverServed,
        AuthenticatedIsUnserved,
        VerifiedIsWithinBound, ClientIsKnown, RecordIsCurrent, RegistrationIsCurrent,
        OfferedIsKept, PostedToReceiver, FailedMayRetry, PostedIsMeant

LEMMA ProvisionKeeps ==
    ASSUME IInv, NEW c \in Clients, NEW bundle \in Bundles, ProvisionClient(c, bundle)
    PROVE  IInv'
<1> USE DEF IInv
<1>1. bundle \in Record /\ bundle # NoClient
    BY GatewayAssumption
<1>2. client' = [client EXCEPT ![c] = bundle] /\ current' = [current EXCEPT ![c] = bundle]
    BY DEF ProvisionClient, PutClient
<1>3. TypeOK'
    <2>1. offered' \subseteq Directions \X (Receivers \cup {NoReceiver}) \X Urls
        BY <1>1 DEF TypeOK, ProvisionClient, PutClient, Record
    <2> QED
        BY <1>1, <1>2, <2>1, GatewayAssumption DEF TypeOK, ProvisionClient
<1>4. RequestPart'
    BY DEF RequestPart, ServedOnce, ReplaysCoverServed, AuthenticatedIsUnserved,
        VerifiedIsWithinBound, ProvisionClient
<1>5. RecordPart'
    <2>1. ClientIsKnown'
        BY <1>1, <1>2 DEF ClientIsKnown, ProvisionClient, TypeOK
    <2>2. RecordIsCurrent'
        BY <1>2 DEF RecordIsCurrent, ProvisionClient, TypeOK
    <2>3. RegistrationIsCurrent'
        BY <1>2 DEF RegistrationIsCurrent, ProvisionClient, Registering, TypeOK
    <2>4. OfferedIsKept'
        BY <1>2 DEF OfferedIsKept, ProvisionClient, PutClient, TypeOK
    <2> QED
        BY <2>1, <2>2, <2>3, <2>4 DEF RecordPart
<1>6. NotePart'
    BY DEF NotePart, PostedToReceiver, FailedMayRetry, PostedIsMeant, ProvisionClient, PutClient
<1> QED
    BY <1>3, <1>4, <1>5, <1>6 DEF RequestPart, RecordPart, NotePart

\* The routes.
LEMMA AuthenticateKeeps ==
    ASSUME IInv, NEW q \in Request, NEW route \in Routes, Authenticate(q, route)
    PROVE  IInv'
<1> USE DEF IInv
<1>1. TypeOK'
    BY GatewayAssumption DEF TypeOK, Authenticate, store, ghosts, bounds
<1>2. RequestPart'
    BY DEF RequestPart, ServedOnce, ReplaysCoverServed, AuthenticatedIsUnserved,
        VerifiedIsWithinBound, Authenticate, store, ghosts, bounds
<1>3. RecordPart'
    BY DEF RecordPart, ClientIsKnown, RecordIsCurrent, RegistrationIsCurrent, OfferedIsKept,
        Authenticate, Authentic, store, ghosts
<1>4. NotePart'
    BY DEF NotePart, PostedToReceiver, FailedMayRetry, PostedIsMeant, Authenticate, ghosts
<1> QED
    BY <1>1, <1>2, <1>3, <1>4 DEF RequestPart, RecordPart, NotePart

LEMMA RecordReplayKeeps == IInv /\ RecordReplay => IInv'
<1> SUFFICES ASSUME IInv, RecordReplay PROVE IInv'
    OBVIOUS
<1> USE DEF IInv
<1> DEFINE q == server.request
<1>1. q \in Request /\ SignedAs(q) \in Tuple /\ server.route \in Routes
    BY DEF TypeOK, RecordReplay, Idle, Request, SignedAs, Tuple
<1>2. CASE SignedAs(q) \in replays
    <2>1. server' = Idle /\ UNCHANGED <<now, client, replays, entry, ghosts, bounds>>
        BY <1>2 DEF RecordReplay, bounds
    <2>2. TypeOK'
        BY <2>1, GatewayAssumption DEF TypeOK, ghosts, bounds
    <2> QED
        BY <2>1, <2>2 DEF ghosts, Idle, ServedOnce, ReplaysCoverServed,
            AuthenticatedIsUnserved,
        VerifiedIsWithinBound, ClientIsKnown, RecordIsCurrent, RegistrationIsCurrent,
            OfferedIsKept, PostedToReceiver, FailedMayRetry, PostedIsMeant
<1>3. CASE SignedAs(q) \notin replays
    <2>1. /\ server.pc = "verified"
          /\ server' = [server EXCEPT !.pc = "authenticated"]
          /\ replays' = replays \cup {SignedAs(q)} /\ requests' = requests + 1
          /\ UNCHANGED <<now, client, entry, ghosts, provisions, crashes>>
        BY <1>3 DEF RecordReplay
    <2>2. /\ server' \in [pc : {"verified", "authenticated"}, request : Request, route : Routes]
          /\ server'.pc = "authenticated" /\ server'.request = q
        BY <2>1 DEF TypeOK, Idle
    <2>3. requests' \in 0..MaxRequests
        BY <2>1, GatewayAssumption DEF TypeOK, VerifiedIsWithinBound
    <2>4. TypeOK'
        BY <1>1, <2>1, <2>2, <2>3, GatewayAssumption DEF TypeOK, ghosts
    <2>5. RequestPart'
        BY <1>1, <1>3, <2>1, <2>2 DEF RequestPart, ServedOnce, ReplaysCoverServed,
            AuthenticatedIsUnserved,
        VerifiedIsWithinBound, ghosts
    <2>6. RecordPart'
        BY <2>1, <2>2 DEF RecordPart, ClientIsKnown, RecordIsCurrent, RegistrationIsCurrent,
            OfferedIsKept, ghosts
    <2>7. NotePart'
        BY <2>1 DEF NotePart, PostedToReceiver, FailedMayRetry, PostedIsMeant, ghosts
    <2> QED
        BY <2>4, <2>5, <2>6, <2>7 DEF RequestPart, RecordPart, NotePart
<1> QED
    BY <1>2, <1>3

\* What serves a request: the handlers of the runtime, the readers of a
\* registration, and the first half of registering.
LEMMA ServeOnce ==
    ASSUME IInv, server.pc = "authenticated", Serve(server.request),
           UNCHANGED replays, server'.pc \notin {"verified", "authenticated"}
    PROVE  RequestPart' /\ served' \in [Tuple -> Nat]
<1> USE DEF IInv
<1>1. SignedAs(server.request) \in Tuple
    BY DEF TypeOK, Idle, Request, SignedAs, Tuple
<1> QED
    BY <1>1 DEF RequestPart, ServedOnce, ReplaysCoverServed, AuthenticatedIsUnserved,
        VerifiedIsWithinBound, Serve, TypeOK

LEMMA LeaveKeeps ==
    ASSUME IInv, server.pc = "authenticated", Leave
    PROVE  IInv'
<1> USE DEF IInv
<1>1. RequestPart' /\ served' \in [Tuple -> Nat]
    BY ServeOnce DEF Leave, Idle, store
<1>2. TypeOK'
    BY <1>1, GatewayAssumption DEF TypeOK, Leave, store, bounds
<1>3. RecordPart'
    BY DEF RecordPart, ClientIsKnown, RecordIsCurrent, RegistrationIsCurrent, OfferedIsKept,
        Leave, Idle, store
<1>4. NotePart'
    BY DEF NotePart, PostedToReceiver, FailedMayRetry, PostedIsMeant, Leave
<1> QED
    BY <1>1, <1>2, <1>3, <1>4 DEF RequestPart, RecordPart, NotePart

LEMMA ReadForRegistrationKeeps ==
    ASSUME IInv, NEW urls \in [Directions -> Urls \cup {NoUrl}], ReadForRegistration(urls)
    PROVE  IInv'
<1> USE DEF IInv
<1> DEFINE c == server.request.client
<1>1. /\ server.request \in Request /\ c \in Clients
      /\ client[c] \in Record
    BY DEF TypeOK, Idle, Request, ClientIsKnown, ReadForRegistration
<1>2. [client[c] EXCEPT !.url = urls] \in Record
    BY <1>1 DEF Record
<1>3. RequestPart' /\ served' \in [Tuple -> Nat]
    BY ServeOnce DEF ReadForRegistration, Idle, store
<1>4. TypeOK'
    BY <1>1, <1>2, <1>3, GatewayAssumption DEF TypeOK, ReadForRegistration, store, bounds
<1>5. RecordPart'
    <2>1. ClientIsKnown' /\ RecordIsCurrent' /\ OfferedIsKept'
        BY DEF ClientIsKnown, RecordIsCurrent, OfferedIsKept, ReadForRegistration, Idle, store
    <2>2. RegistrationIsCurrent'
        <3>1. SUFFICES ASSUME server'.pc = "registering", c \notin overlapped
                       PROVE  server'.record = [current[c] EXCEPT !.url = server'.record.url]
            BY DEF RegistrationIsCurrent, ReadForRegistration, Idle
        <3>2. server'.record = [client[c] EXCEPT !.url = urls]
            BY <3>1 DEF ReadForRegistration, Idle
        <3>3. client[c] = current[c]
            BY <1>1, <3>1 DEF RecordIsCurrent
        <3> QED
            BY <1>1, <3>2, <3>3 DEF Record
    <2> QED
        BY <2>1, <2>2 DEF RecordPart
<1>6. NotePart'
    BY DEF NotePart, PostedToReceiver, FailedMayRetry, PostedIsMeant, ReadForRegistration
<1> QED
    BY <1>3, <1>4, <1>5, <1>6 DEF RequestPart, RecordPart, NotePart

LEMMA RegisterKeeps == IInv /\ RegisterCallback => IInv'
<1> SUFFICES ASSUME IInv, RegisterCallback PROVE IInv'
    OBVIOUS
<1> USE DEF IInv
<1> DEFINE c == server.request.client
<1> DEFINE record == server.record
<1>1. /\ server.pc = "registering" /\ c \in Clients /\ record \in Record
      /\ client' = [client EXCEPT ![c] = record]
      /\ current' = [current EXCEPT ![c].url = record.url]
      /\ server' = Idle
    BY DEF RegisterCallback, PutClient, TypeOK, Idle, Request
<1>2. record # NoClient /\ current[c] \in Record
    BY <1>1, GatewayAssumption DEF ClientIsKnown, TypeOK
<1>3. TypeOK'
    <2>1. offered' \subseteq Directions \X (Receivers \cup {NoReceiver}) \X Urls
        BY <1>1 DEF TypeOK, RegisterCallback, PutClient, Record
    <2>2. [current[c] EXCEPT !.url = record.url] \in Record
        BY <1>1, <1>2 DEF Record
    <2> QED
        BY <1>1, <2>1, <2>2, GatewayAssumption DEF TypeOK, RegisterCallback, bounds
<1>4. RequestPart'
    BY <1>1 DEF RequestPart, ServedOnce, ReplaysCoverServed, AuthenticatedIsUnserved,
        VerifiedIsWithinBound, RegisterCallback, Idle
<1>5. RecordPart'
    <2>1. ClientIsKnown'
        <3>1. [current[c] EXCEPT !.url = record.url] # NoClient
            BY <1>1, <1>2, GatewayAssumption DEF Record
        <3> QED
            BY <1>1, <1>2, <3>1 DEF ClientIsKnown, Idle, TypeOK
    <2>2. RecordIsCurrent'
        BY <1>1 DEF RecordIsCurrent, RegistrationIsCurrent, RegisterCallback, TypeOK
    <2>3. RegistrationIsCurrent'
        BY <1>1 DEF RegistrationIsCurrent, Idle
    <2>4. OfferedIsKept'
        BY <1>1 DEF OfferedIsKept, RegisterCallback, PutClient, TypeOK
    <2> QED
        BY <2>1, <2>2, <2>3, <2>4 DEF RecordPart
<1>6. NotePart'
    BY DEF NotePart, PostedToReceiver, FailedMayRetry, PostedIsMeant, RegisterCallback, PutClient
<1> QED
    BY <1>3, <1>4, <1>5, <1>6 DEF RequestPart, RecordPart, NotePart

LEMMA RestartKeeps == IInv /\ Restart => IInv'
<1> SUFFICES ASSUME IInv, Restart PROVE IInv'
    OBVIOUS
<1>1. TypeOK'
    BY GatewayAssumption DEF IInv, TypeOK, Restart, store, ghosts
<1> QED
    BY <1>1 DEF IInv, Restart, store, ghosts, Idle, ServedOnce, ReplaysCoverServed,
        AuthenticatedIsUnserved,
        VerifiedIsWithinBound, ClientIsKnown, RecordIsCurrent, RegistrationIsCurrent,
        OfferedIsKept, PostedToReceiver, FailedMayRetry, PostedIsMeant

\* The notifications.
EntryType ==
    [status : {"none", "skipped", "delivered", "failed", "dead-lettered"},
     direction : Directions \cup {"none"}, receiver : Receivers \cup {NoReceiver},
     target : Urls \cup {NoUrl}, cycles : 0..(MaxCycles + 1)]

LEMMA PutEntryKeeps ==
    ASSUME IInv, NEW n \in Notifications, NEW e \in EntryType, PutEntry(n, e),
           e.target # NoUrl =>
               /\ e.direction \in Directions /\ e.receiver \in Receivers
               /\ MayPost(e.direction, e.receiver, e.target),
           e.status = "failed" => e.cycles < MaxCycles /\ e.target # NoUrl
    PROVE  IInv'
<1> USE DEF IInv
<1>0. entry' = [entry EXCEPT ![n] = e] /\ entry \in [Notifications -> EntryType]
    BY DEF PutEntry, TypeOK, EntryType
<1>1. TypeOK'
    BY <1>0 DEF TypeOK, EntryType, PutEntry, store, ghosts, bounds
<1>2. RequestPart' /\ RecordPart'
    BY DEF RequestPart, RecordPart, ServedOnce, ReplaysCoverServed, AuthenticatedIsUnserved,
        VerifiedIsWithinBound, ClientIsKnown, RecordIsCurrent, RegistrationIsCurrent,
        OfferedIsKept, PutEntry, store, ghosts, bounds
<1>3. NotePart'
    <2>1. offered' = offered
        BY DEF PutEntry, ghosts
    <2>2. FailedMayRetry' /\ PostedIsMeant'
        BY <1>0 DEF FailedMayRetry, PostedIsMeant
    <2>3. PostedToReceiver'
        BY <1>0, <2>1 DEF PostedToReceiver, MayPost
    <2> QED
        BY <2>2, <2>3 DEF NotePart
<1> QED
    BY <1>1, <1>2, <1>3 DEF RequestPart, RecordPart, NotePart

LEMMA PostKeeps ==
    ASSUME IInv, NEW n \in Notifications, NEW url \in Urls, NEW k \in 0..MaxCycles,
           NEW d \in Directions, NEW did \in Receivers,
           MayPost(d, did, url), Post(n, d, did, url, k)
    PROVE  IInv'
<1> DEFINE done == Entry("delivered", d, did, url, k)
<1> DEFINE failed == Entry(IF k + 1 >= MaxCycles THEN "dead-lettered" ELSE "failed",
                          d, did, url, k + 1)
<1>1. k + 1 \in 0..(MaxCycles + 1) /\ k \in 0..(MaxCycles + 1)
    BY GatewayAssumption
<1>2. CASE PutEntry(n, done)
    <2>1. /\ done \in EntryType /\ done.status # "failed"
          /\ done.direction = d /\ done.receiver = did /\ done.target = url
        BY <1>1 DEF Entry, EntryType
    <2> HIDE DEF done
    <2> QED
        BY <1>2, <2>1, PutEntryKeeps
<1>3. CASE PutEntry(n, failed)
    <2>1. failed.status = "failed" => failed.cycles < MaxCycles /\ failed.target # NoUrl
        BY <1>1, GatewayAssumption, SMT DEF Entry
    <2>2. /\ failed \in EntryType
          /\ failed.direction = d /\ failed.receiver = did /\ failed.target = url
        BY <1>1 DEF Entry, EntryType
    <2> HIDE DEF failed
    <2> QED
        BY <1>3, <2>1, <2>2, PutEntryKeeps
<1> QED
    BY <1>2, <1>3 DEF Post

LEMMA SkippedKeeps ==
    ASSUME IInv, NEW n \in Notifications, NEW d \in Directions, NEW did \in Receivers,
           PutEntry(n, Entry("skipped", d, did, NoUrl, 0))
    PROVE  IInv'
<1> DEFINE e == Entry("skipped", d, did, NoUrl, 0)
<1>1. e \in EntryType /\ e.target = NoUrl /\ e.status # "failed"
    BY GatewayAssumption DEF Entry, EntryType
<1> HIDE DEF e
<1> QED
    BY <1>1, PutEntryKeeps DEF e

LEMMA PostAgainKeeps ==
    ASSUME IInv, NEW n \in Notifications, entry[n].target # NoUrl,
           entry[n].cycles <= MaxCycles, PostAgain(n)
    PROVE  IInv'
<1>1. /\ entry[n].target \in Urls /\ entry[n].cycles \in 0..MaxCycles
      /\ entry[n].direction \in Directions /\ entry[n].receiver \in Receivers
    BY GatewayAssumption DEF IInv, TypeOK, PostedIsMeant
<1>2. MayPost(entry[n].direction, entry[n].receiver, entry[n].target)
    BY DEF IInv, PostedToReceiver, MayPost
<1> QED
    BY <1>1, <1>2, PostKeeps DEF PostAgain

LEMMA NotificationsKeep ==
    ASSUME IInv, NEW n \in Notifications,
           \/ \E d \in Directions, did \in Receivers : NotifySettlement(n, d, did)
           \/ RedeliverFailed(n)
           \/ RedeliverNotification(n)
    PROVE  IInv'
<1>1. 0 \in 0..MaxCycles /\ MaxCycles \in Nat
    BY GatewayAssumption
<1>2. ASSUME NEW d \in Directions, NEW did \in Receivers, NotifySettlement(n, d, did)
      PROVE  IInv'
    <2>1. CASE TargetOf(d, did) = NoUrl
        BY <1>2, <2>1, SkippedKeeps DEF NotifySettlement
    <2>2. CASE TargetOf(d, did) # NoUrl
        <3>1. Post(n, d, did, TargetOf(d, did), 0)
            BY <1>2, <2>2 DEF NotifySettlement
        <3>2. TargetOf(d, did) \in Urls /\ MayPost(d, did, TargetOf(d, did))
            BY <2>2, TargetIsAllowed DEF IInv
        <3> QED
            BY <1>1, <3>1, <3>2, PostKeeps
    <2> QED
        BY <2>1, <2>2
<1>3. CASE RedeliverFailed(n)
    <2>1. entry[n].target # NoUrl /\ entry[n].cycles <= MaxCycles
        BY <1>1, <1>3 DEF RedeliverFailed, FailedMayRetry, IInv, TypeOK
    <2> QED
        BY <1>3, <2>1, PostAgainKeeps DEF RedeliverFailed
<1>4. CASE RedeliverNotification(n)
    BY <1>4, PostAgainKeeps DEF RedeliverNotification
<1> QED
    BY <1>2, <1>3, <1>4

-----------------------------------------------------------------------------
(* The theorems.                                                           *)

LEMMA NextKeeps == IInv /\ [Next]_vars => IInv'
<1> SUFFICES ASSUME IInv, [Next]_vars PROVE IInv'
    OBVIOUS
<1>1. CASE Tick
    BY <1>1, TickKeeps
<1>2. CASE \E c \in Clients, bundle \in Bundles : ProvisionClient(c, bundle)
    BY <1>2, ProvisionKeeps
<1>3. CASE \E q \in Request :
             \/ \E s \in Subjects :
                  \/ ExecutePayment(q, s)
                  \/ RequestPaymentApproval(q, s)
                  \/ SettleResourceUsage(q, s)
                  \/ RequestResourceApproval(q, s)
             \/ GetActionStatus(q)
             \/ RegisterExternalCallback(q)
             \/ GetExternalCallbackRegistration(q)
             \/ ListExternalCallbackRegistrations(q)
    <2>1. PICK q \in Request, route \in Routes : Authenticate(q, route)
        BY <1>3 DEF ExecutePayment, RequestPaymentApproval, SettleResourceUsage,
            RequestResourceApproval, ActFor, GetActionStatus, RegisterExternalCallback,
            GetExternalCallbackRegistration, ListExternalCallbackRegistrations,
            Routes, RuntimeRoutes, ReadRoutes
    <2> QED
        BY <2>1, AuthenticateKeeps
<1>4. CASE Handle
    BY <1>4, LeaveKeeps DEF Handle
<1>5. CASE ReadRegistration
    BY <1>5, LeaveKeeps DEF ReadRegistration
<1>6. CASE \E urls \in [Directions -> Urls \cup {NoUrl}] : ReadForRegistration(urls)
    BY <1>6, ReadForRegistrationKeeps
<1>7. CASE RegisterCallback
    BY <1>7, RegisterKeeps
<1>8. CASE Restart
    BY <1>8, RestartKeeps
<1>11. CASE RecordReplay
    BY <1>11, RecordReplayKeeps
<1>9. CASE \E n \in Notifications :
             \/ \E d \in Directions, did \in Receivers : NotifySettlement(n, d, did)
             \/ RedeliverFailed(n)
             \/ RedeliverNotification(n)
    BY <1>9, NotificationsKeep
<1>10. CASE UNCHANGED vars
    BY <1>10 DEF vars, IInv, TypeOK, ServedOnce, ReplaysCoverServed, AuthenticatedIsUnserved,
        VerifiedIsWithinBound, ClientIsKnown, RecordIsCurrent, RegistrationIsCurrent, OfferedIsKept, PostedToReceiver,
        FailedMayRetry, PostedIsMeant
<1> QED
    BY <1>1, <1>2, <1>3, <1>4, <1>5, <1>6, <1>7, <1>8, <1>9, <1>10,
        <1>11 DEF Next

LEMMA Invariant == Spec => []IInv
<1> QED
    BY InitHolds, NextKeeps, PTL DEF Spec

\* Every state of the gateway is well typed.
THEOREM GatewayTypeCorrect == Spec => []TypeOK
<1>1. IInv => TypeOK
    BY DEF IInv
<1> QED
    BY <1>1, Invariant, PTL

\* A signed request is let through once, whatever is provisioned, replayed,
\* tried on another route or begun again after a crash (authenticateRequest).
THEOREM SignedRequestIsServedOnce == Spec => []ServedOnce
<1>1. IInv => ServedOnce
    BY DEF IInv
<1> QED
    BY <1>1, Invariant, PTL

\* No rotated key and no registration is undone by a registration that was not
\* overlapped by the script (registerCallback, provisionClient).
THEOREM RegistrationKeepsRecord == Spec => []RecordIsCurrent
<1>1. IInv => RecordIsCurrent
    BY DEF IInv
<1> QED
    BY <1>1, Invariant, PTL

\* An entry is skipped only by a step that found no address for its receiver.
LEMMA SkippedStep ==
    ASSUME IInv, [Next]_vars, NEW n \in Notifications, NEW e, e = entry'[n],
           e.status = "skipped", entry[n] # e
    PROVE  /\ Static[e.direction][e.receiver] = NoUrl
           /\ \A c \in Clients \ overlapped : ~Offers(current[c], e.direction, e.receiver)
<1> USE DEF IInv
<1>1. entry' # entry
    OBVIOUS
<1>2. PICK m \in Notifications :
          \/ \E d \in Directions, did \in Receivers : NotifySettlement(m, d, did)
          \/ RedeliverFailed(m)
          \/ RedeliverNotification(m)
    BY <1>1 DEF Next, vars, Tick, ProvisionClient, ExecutePayment, RequestPaymentApproval,
        SettleResourceUsage, RequestResourceApproval, ActFor, GetActionStatus,
        RegisterExternalCallback, GetExternalCallbackRegistration,
        ListExternalCallbackRegistrations, Authenticate, RecordReplay, Handle,
        ReadRegistration, Leave, ReadForRegistration, RegisterCallback, Restart
<1>3. ASSUME NEW d, NEW did, NEW url, NEW k, Post(m, d, did, url, k) PROVE FALSE
    BY <1>3 DEF Post, PutEntry, TypeOK, Entry
<1>4. PICK d \in Directions, did \in Receivers :
          NotifySettlement(m, d, did) /\ TargetOf(d, did) = NoUrl
    BY <1>2, <1>3 DEF NotifySettlement, RedeliverFailed, RedeliverNotification, PostAgain
<1>5. m = n /\ e = Entry("skipped", d, did, NoUrl, 0)
    BY <1>4 DEF NotifySettlement, PutEntry, TypeOK, Post
<1>6. e.direction = d /\ e.receiver = did
    BY <1>5 DEF Entry
<1>7. Static[d][did] = NoUrl /\ \A c \in Clients : ~Offers(client[c], d, did)
    BY <1>4, TargetIsAllowed
<1> QED
    BY <1>6, <1>7 DEF RecordIsCurrent

\* Notifications go to the configured address of their receiver or to one that was
\* registered for it, and to none only where it has neither (resolvePaymentCallbackUrl,
\* getPaymentCallbackUrls, getResourceCallbackUrls).
THEOREM NotificationsFollow == Spec => NotifiedAsRegistered
<1>1. IInv => PostedToReceiver
    BY DEF IInv
<1>2. IInv /\ [Next]_vars => [SkippedHadNoAddress]_vars
    BY SkippedStep DEF SkippedHadNoAddress
<1> QED
    BY <1>1, <1>2, Invariant, PTL DEF Spec, NotifiedAsRegistered

=============================================================================

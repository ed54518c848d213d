SPECIFICATION Spec
CONSTANTS
    c1 = c1  c2 = c2  k1 = k1  k2 = k2  did = did  did2 = did2  u1 = u1  u2 = u2
    paid = paid
    Clients = {c1, c2}
    RankOf <- MCRankOf
    Bundles <- MCBundles
    Keys = {k1, k2}
    Subjects = {did}
    Receivers = {did, did2}
    Urls = {u1, u2}
    Refs = {r1}
    Notifications = {paid}
    Static <- MCStatic
    MaxTime = 1
    MaxAge = 1
    MaxRequests = 2
    MaxProvisions = 2
    MaxCrashes = 1
    MaxCycles = 2
    NoClient = NoClient  NoReceiver = NoReceiver  NoUrl = NoUrl
INVARIANTS
    TypeOK
    ServedOnce
    RecordIsCurrent
PROPERTIES
    NotifiedAsRegistered
CHECK_DEADLOCK FALSE

--------------------------- MODULE MCClientGateway ---------------------------
(* Two clients that may receive payments for the same identity, provisioned  *)
(* with one of two keys and with or without callbacks. One of them receives  *)
(* the resource settlements of a second identity, for which the server is    *)
(* configured with an address. The action may be settled again, for the one  *)
(* or the other.                                                            *)
EXTENDS ClientGateway, TLC

CONSTANTS c1, c2, k1, k2, did, did2, u1, u2, paid

MCRankOf == [c \in Clients |-> IF c = c1 THEN 1 ELSE 2]

Bundle(k, payee, provider, url) ==
    [key |-> k, subject |-> did,
     role |-> [d \in Directions |-> IF d = "payment" THEN payee ELSE provider],
     url |-> [d \in Directions |-> IF d = "payment" THEN url ELSE NoUrl]]

MCBundles == {Bundle(k1, did, NoReceiver, NoUrl), Bundle(k2, did, did2, u1)}

MCStatic == [d \in Directions |-> [r \in Receivers |->
                 IF d = "resource" /\ r = did2 THEN u2 ELSE NoUrl]]
=============================================================================

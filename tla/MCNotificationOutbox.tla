----------------------- MODULE MCNotificationOutbox -----------------------
(* Two settled actions with two attempts in each of two cycles, so that a    *)
(* batch holds two entries, a cycle can fail half-way, and both the first    *)
(* and the last cycle are met.                                               *)
EXTENDS NotificationOutbox

=============================================================================

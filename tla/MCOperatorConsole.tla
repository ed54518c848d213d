------------------------- MODULE MCOperatorConsole -------------------------
(* Two operators beside the pilot, so that one starts the worker while the   *)
(* stop of the other waits, and the action of one other client.  A receiver  *)
(* refuses one post, as in the pilots; the third failed cycle gives an entry *)
(* up.                                                                       *)
EXTENDS OperatorConsole, TLC

Symmetry == Permutations(Operators)

=============================================================================

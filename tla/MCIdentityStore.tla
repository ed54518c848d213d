--------------------------- MODULE MCIdentityStore ---------------------------
(* One agent with two credentials.                                            *)
EXTENDS IdentityStore, TLC

CONSTANTS agent, ownership, authority

MCSubjectOf == [c \in Credentials |-> agent]
Symmetry == Permutations(Processes) \cup Permutations(Credentials)

=============================================================================

----------------------------- MODULE MCWalletRail -----------------------------
(* Model values for WalletRail: two actions that ask for the same amount of *)
(* the same asset, one of which has a settlement address, so that the same  *)
(* claim may match both, or only one, or neither; and a transfer of the     *)
(* token meant, one of a token that is not, to somebody else.               *)
EXTENDS WalletRail, TLC

CONSTANTS a1, a2, t1, t2, h1, h2, c1, c2, usdc, usdcToken, otherToken, payee, other

MCPaid == [token |-> usdcToken, to |-> payee, amount |-> 1]
MCOther == [token |-> otherToken, to |-> other, amount |-> 1]
MCMoves == {MCPaid, MCOther}
MCClaims == {[asset |-> usdc, moved |-> m] : m \in MCMoves}
MCIntentOf == [a \in Actions |-> [asset |-> usdc, amount |-> 1,
                                  payee |-> IF a = a1 THEN payee ELSE NoPayee]]

Symmetry == Permutations(Txs) \cup Permutations(Handlers) \cup Permutations(Callers)
=============================================================================

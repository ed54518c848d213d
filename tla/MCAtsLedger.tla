----------------------------- MODULE MCAtsLedger -----------------------------
(* A monetary budget, and a resource budget with its quota. *)
EXTENDS AtsLedger, TLC

CONSTANTS usdc, tokens, quota

MCBudgets == {usdc, tokens}
MCQuotas == {quota}
MCHoldings == {{usdc}, {tokens, quota}}
MCLimit == (usdc :> 3) @@ (tokens :> 3) @@ (quota :> 3)
Symmetry == Permutations(Reservations)

=============================================================================

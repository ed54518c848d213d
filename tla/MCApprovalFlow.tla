--------------------------- MODULE MCApprovalFlow ---------------------------
(* A payment from a monetary budget, and a resource action on a resource      *)
(* budget with its quota.                                                     *)
EXTENDS DirectFlow, TLC

CONSTANTS pay, use, usdc, tokens, quota

MCHoldings == {{usdc}, {tokens, quota}}
PaymentHoldings == {{usdc}}  \* where all actions are payments
HoldingOf(a) == IF a \in Payments THEN {usdc} ELSE {tokens, quota}
OneOffer == [a \in Actions |-> {[holding |-> HoldingOf(a), amount |-> MaxAmount]}]

\* A repeated request may bring another amount.
AnyAmount == [a \in Actions |-> [holding : {HoldingOf(a)}, amount : 1..MaxAmount]]
MCLimit == [l \in Budgets \cup Quotas |-> 3]

\* One request, one applied result, and a resume with one repetition.
Orderly ==
  [op \in Operations |-> IF op = "resumeAction" THEN 2 ELSE IF op \in {"resumeSession", "direct"} THEN 0 ELSE 1]

\* Requests, results and resumes of actions are repeated, beside one direct call.
Repeated ==
  [op \in Operations |->
     IF op = "resumeSession" THEN 0 ELSE IF op = "direct" THEN 1 ELSE 2]

\* One request and one result, and a resume that is repeated twice.
Retried ==
  [op \in Operations |-> IF op = "resumeAction" THEN 3 ELSE IF op = "direct" THEN 0 ELSE 1]

Symmetry == Permutations(Handlers)

=============================================================================

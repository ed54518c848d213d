SPECIFICATION Spec
CONSTANTS
  pay = pay
  use = use
  usdc = usdc
  tokens = tokens
  quota = quota
  Actions = {pay}
  Payments = {pay}
  Budgets = {usdc, tokens}
  Quotas = {quota}
  Holdings <- MCHoldings
  Offers <- OneOffer
  Limit <- MCLimit
  MaxAmount = 2
  Handlers = {h1, h2}
  Results = {"approved", "rejected", "expired", "cancelled"}
  Consistent = TRUE
  RailOutcomes = {"ok"}
  Calls <- Orderly
  MaxCrashes = 0
SYMMETRY Symmetry
INVARIANTS
  SettlesAtMostOnce
CHECK_DEADLOCK FALSE

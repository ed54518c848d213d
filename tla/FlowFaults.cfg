SPECIFICATION DirectSpec
CONSTANTS
  pay = pay
  use = use
  usdc = usdc
  tokens = tokens
  quota = quota
  Actions = {pay}
  Payments = {pay}
  Budgets = {usdc}
  Quotas = {}
  Holdings <- PaymentHoldings
  Offers <- AnyAmount
  Limit <- MCLimit
  MaxAmount = 2
  Handlers = {h1, h2}
  Results = {"approved", "expired"}
  Consistent = FALSE
  RailOutcomes = {"ok", "refused", "lost"}
  Calls <- Repeated
  MaxCrashes = 1
SYMMETRY Symmetry
INVARIANTS
  ExecutedWasApproved
  ChargedWasExecuted
  FinalRejectionHolds
  SettledHasReceipt
CHECK_DEADLOCK FALSE

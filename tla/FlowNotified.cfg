SPECIFICATION FairSpec
CONSTANTS
  pay = pay
  use = use
  usdc = usdc
  tokens = tokens
  quota = quota
  Actions = {pay}
  Payments = {pay}
  Budgets = {usdc, tokens}
  Quotas = {quota}
  Holdings <- MCHoldings
  Offers <- OneOffer
  Limit <- MCLimit
  MaxAmount = 2
  Handlers = {h1, h2}
  Results = {"approved", "rejected"}
  Consistent = TRUE
  RailOutcomes = {"ok", "refused", "lost"}
  Calls <- Retried
  MaxCrashes = 0
PROPERTIES
  SettledIsNotified
CHECK_DEADLOCK FALSE

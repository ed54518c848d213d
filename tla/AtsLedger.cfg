SPECIFICATION Spec
CONSTANTS
  usdc = usdc
  tokens = tokens
  quota = quota
  Budgets <- MCBudgets
  Quotas <- MCQuotas
  Holdings <- MCHoldings
  Limit <- MCLimit
  MaxAmount = 2
  Reservations = {r1, r2, r3}
SYMMETRY Symmetry
INVARIANTS
  NoOverspend
  HoldsCovered
  FiguresAgree
PROPERTY KeepsPromise
CHECK_DEADLOCK FALSE

SPECIFICATION Spec
CONSTANTS
    a1 = a1  a2 = a2  t1 = t1  t2 = t2  h1 = h1  h2 = h2  c1 = c1  c2 = c2
    usdc = usdc  usdcToken = usdcToken  otherToken = otherToken  payee = payee  other = other
    Actions = {a1, a2}
    Txs = {t1, t2}
    Moves <- MCMoves
    Claims <- MCClaims
    IntentOf <- MCIntentOf
    SignerToken = usdcToken
    InPolicy = {a1, a2}
    Handlers = {h1, h2}
    Callers = {c1}
    MaxAttempts = 2
    MaxOutage = 1
    MaxClaims = 2
    MaxCalls = 2
    MaxFaults = 1
    NoTx = NoTx  NoAction = NoAction  NoCaller = NoCaller  NoClaim = NoClaim  NoMove = NoMove  NoPayee = NoPayee
SYMMETRY Symmetry
INVARIANTS
    TypeOK
    SettlementIsBacked
    OneActionPerTransfer
    RetryPaysNothingAgain
    ShortOutageIsSurvived
PROPERTIES
    ConfirmedStays
CHECK_DEADLOCK FALSE

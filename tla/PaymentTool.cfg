SPECIFICATION Spec
CONSTANTS
    Runs = {1, 2}
    Terms <- MCTerms
    SeedTerms <- MCSeed
    Rails <- MCRails
    MaxTxs = 1
    MaxCalls = 2
    NoTerms = NoTerms
INVARIANTS
    TypeOK
    DeliveredWasPaid
    PaidAsShown
CHECK_DEADLOCK FALSE

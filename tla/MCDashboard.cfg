SPECIFICATION FairSpec
CONSTANTS
    payment = payment
    Downstream = {payment}
    Other = {}
    HISTORY_LEN = 1
    STALE = 0
    MaxTs = 1
    MaxWire = 1
    MaxFaults = 2
INVARIANTS TypeOK LiveMeansRecent
PROPERTIES OnlyFetchGoesBack ToastKeepsItsTime CanBeRestored
CHECK_DEADLOCK FALSE

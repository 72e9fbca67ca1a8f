SPECIFICATION FairSpec
CONSTANTS
    Caller = {c1, c2, c3, c4}
    FailThreshold = 2
    Attempts = 2
INVARIANTS IndInv HalfOpenHasProbe ClosedBelowThreshold
PROPERTIES NoSecondProbe RecoversAfterOutage

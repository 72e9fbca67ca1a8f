SPECIFICATION FairSpec
CONSTANTS
    o1 = o1  o2 = o2
    Order <- TwoOrders
    Stage <- Stages
    Tick = {1, 2}
    MaxFaults = 1
PROPERTY ClosesWhenLeft
CHECK_DEADLOCK FALSE

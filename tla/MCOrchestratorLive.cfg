SPECIFICATION FairSpec
CONSTANTS
    Order = {o1}
    None = none
    Slot = {s1, s2}
    Reserve = 1
    MaxAttempts = 1
    MaxDisruptions = 1
    CancelEnabled = FALSE
    BoundAtStart = TRUE
    DbFaults = FALSE
    PublishFaults = FALSE
PROPERTY AcceptedOrderFinishes
CHECK_DEADLOCK FALSE

SPECIFICATION Spec
CONSTANTS
    Order = {o1}
    None = none
    Slot = {s1, s2}
    Reserve = 0
    MaxAttempts = 2
    MaxDisruptions = 0
    CancelEnabled = FALSE
    BoundAtStart = FALSE
    DbFaults = TRUE
    PublishFaults = TRUE
SYMMETRY Symmetry
INVARIANTS LossOnlyThroughGaps IndInv
CHECK_DEADLOCK FALSE

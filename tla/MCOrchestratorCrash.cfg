SPECIFICATION Spec
CONSTANTS
    Order = {o1}
    None = none
    Slot = {s1, s2}
    Reserve = 0
    MaxAttempts = 2
    MaxDisruptions = 1
    CancelEnabled = TRUE
    BoundAtStart = TRUE
    DbFaults = FALSE
    PublishFaults = FALSE
SYMMETRY Symmetry
INVARIANTS NoOrderLost OneClaimPerState TransitionLogIsPath RedisNeverAhead EndTells
PROPERTY Implements
CHECK_DEADLOCK FALSE

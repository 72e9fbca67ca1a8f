SPECIFICATION FairSpec
CONSTANTS
    Restaurant = {r1}
    Checkout <- TwoCheckouts
    Call <- LeaveCall
    Key <- MCKey
    Request <- LeavePosts
    OrderId <- LeavePosts
    LastStep = 0
    MaxQty = 1
    None = none
PROPERTIES ClearsOnlyOrdered PlacingEnds

CHECK_DEADLOCK FALSE

SPECIFICATION StoreSpec
CONSTANTS
    Restaurant = {r1, r2}
    Checkout <- OneCheckout
    Call <- RetryCall
    Key <- MCKey
    Request <- RetryPosts
    OrderId <- RetryPosts
    LastStep = 3
    MaxQty = 1
    None = none
INVARIANTS StoreTypeOK AnnouncedIsOrdered TokenNamesOrders ConfirmedAsSubmitted
PROPERTY Implements
SYMMETRY Symmetry
CHECK_DEADLOCK FALSE

SPECIFICATION ServicesSpec
CONSTANTS
    Request = {r1, r2}
    Key = {k1, k2}
    Ticket = {t1, t2}
    Intent = {p1}
    Detail = {d1}
    None = none
SYMMETRY Symmetry
INVARIANTS ChargedAtMostOnce PaidBeforeDispatched DispatchedOnce
PROPERTY Implements

------------------------------ MODULE MCTracker -----------------------------
(***************************************************************************)
(* A cart of two orders, of which one may fail and one may be cancelled.       *)
(***************************************************************************)
EXTENDS Tracker

CONSTANTS o1, o2

TwoOrders == {o1, o2}
Stages == [o \in TwoOrders |-> IF o = o1 THEN {"placed", "ready", "delivered", "failed"}
                               ELSE {"placed", "delivered", "cancelled"}]
=============================================================================

----------------------------- MODULE OrderStates -----------------------------
(***************************************************************************)
(* The order lifecycle of libs/drcommon/drcommon/states.py: the states, the *)
(* happy path, the moves the table allows and the external service each    *)
(* stage depends on.                                                       *)
(***************************************************************************)
EXTENDS Naturals

State == {"placed", "confirmed", "preparing", "ready", "out_for_delivery",
          "delivered", "cancelled", "failed"}

\* HAPPY_PATH with next_happy_state: a state outside this domain has no next.
NextHappyState ==
    [placed |-> "confirmed", confirmed |-> "preparing", preparing |-> "ready",
     ready |-> "out_for_delivery", out_for_delivery |-> "delivered"]

Terminal == {"delivered", "cancelled", "failed"}
Active   == State \ Terminal

Allowed ==
    [placed           |-> {"confirmed", "cancelled", "failed"},
     confirmed        |-> {"preparing", "cancelled", "failed"},
     preparing        |-> {"ready", "cancelled", "failed"},
     ready            |-> {"out_for_delivery", "failed"},
     out_for_delivery |-> {"delivered", "failed"},
     delivered        |-> {},
     cancelled        |-> {},
     failed           |-> {}]

\* The services of STAGE_DOWNSTREAM, and the state from which each is called:
\* entering "confirmed" needs payment, "preparing" the restaurant,
\* "out_for_delivery" the courier.
Downstream == {"payment", "restaurant", "courier"}

StageDownstream ==
    [placed |-> "payment", confirmed |-> "restaurant", ready |-> "courier"]

Calls(from)   == from \in {"placed", "confirmed", "ready"}
StageOf(d)    == CHOOSE from \in {"placed", "confirmed", "ready"} :
                     StageDownstream[from] = d

\* How far along the lifecycle a state is. Every allowed move goes up.
Rank == [absent |-> 0, placed |-> 1, confirmed |-> 2, preparing |-> 3,
         ready |-> 4, out_for_delivery |-> 5, delivered |-> 6,
         cancelled |-> 7, failed |-> 7]

\* The states from which the simulated customer may still cancel.
Cancellable == {"placed", "confirmed", "preparing"}
=============================================================================

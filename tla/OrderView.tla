------------------------------ MODULE OrderView -----------------------------
(***************************************************************************)
(* What the storefront makes of the states of a cart's orders: the aggregate   *)
(* view of customer-web/src/lib/dr.ts and what the tracking page               *)
(* (app/order/[id]/order-tracker.tsx) shows of it. A view gives the state read  *)
(* of every order; "pending" is the placeholder of one that could not be read.  *)
(* Names, prices and the timeline of a view are left out.                      *)
(***************************************************************************)
EXTENDS OrderStates

\* pending(): an order as it is before the orchestrator knows it.
StateIn(s) == IF s = "pending" THEN "placed" ELSE s

\* FLOW.indexOf; Rank numbers the states of FLOW from 1.
FLOW       == {"placed", "confirmed", "preparing", "ready", "out_for_delivery", "delivered"}
flowIdx(s) == IF s \in FLOW THEN Rank[s] - 1 ELSE 0

\* Mutant: Math.max for Math.min.
StatusOfFirst(view) ==
    LET states == {StateIn(view[o]) : o \in DOMAIN view}
        active == states \ {"cancelled"}
    IN  IF "failed" \in states THEN "failed"
        ELSE IF active = {} THEN "cancelled"
        ELSE CHOOSE s \in active : \A r \in active : flowIdx(r) <= flowIdx(s)

aggregateStatus(view) ==
    LET states == {StateIn(view[o]) : o \in DOMAIN view}
        active == states \ {"cancelled"}
    IN  IF "failed" \in states THEN "failed"
        ELSE IF active = {} THEN "cancelled"
        ELSE CHOOSE s \in active : \A r \in active : flowIdx(s) <= flowIdx(r)

KITCHEN_FROM_STATE ==
    [placed |-> "pending", confirmed |-> "placed", preparing |-> "preparing",
     ready |-> "ready", out_for_delivery |-> "ready", delivered |-> "ready",
     failed |-> "failed", cancelled |-> "cancelled"]

DELIVERY_FROM_STATE ==
    [placed |-> "pending", confirmed |-> "pending", preparing |-> "pending",
     ready |-> "created", out_for_delivery |-> "picked_up", delivered |-> "delivered",
     failed |-> "failed", cancelled |-> "cancelled"]

\* The rows of a view: a kitchen and a courier for each order.
composeCartView(view) ==
    [status       |-> aggregateStatus(view),
     fulfillments |-> [o \in DOMAIN view |-> KITCHEN_FROM_STATE[StateIn(view[o])]],
     deliveries   |-> [o \in DOMAIN view |-> DELIVERY_FROM_STATE[StateIn(view[o])]]]

\* The stepper: the states its steps stand for, those it marks as reached, and
\* the one it marks as "Now".
STEPS == {"placed", "preparing", "ready", "out_for_delivery", "delivered"}

failedView(status) == status \in {"failed", "cancelled"}
activeStep(status) ==
    CHOOSE s \in STEPS : /\ flowIdx(s) <= flowIdx(status)
                         /\ \A r \in STEPS : flowIdx(r) <= flowIdx(status) => flowIdx(r) <= flowIdx(s)
active(status)  == IF failedView(status) \/ status = "delivered" THEN {} ELSE {activeStep(status)}
done(status)    == {s \in STEPS : flowIdx(s) < flowIdx(activeStep(status)) \/ status = "delivered"}
reached(status) == done(status) \cup active(status)

\* The page's words: its headline, the pill of a kitchen, and the orders whose kitchen
\* it calls ready and whose courier it says has delivered.
headline(status) ==
    IF failedView(status) THEN "We hit a snag"
    ELSE IF status = "delivered" THEN "Delivered" ELSE "Your bundle is in motion"

KITCHEN_PILL ==
    [pending |-> "Queued", placed |-> "Order placed", preparing |-> "Preparing",
     ready |-> "Ready", failed |-> "Failed", cancelled |-> "Cancelled"]

saysReady(page) ==
    {o \in DOMAIN page.fulfillments : KITCHEN_PILL[page.fulfillments[o]] = "Ready"}
saysDelivered(page) ==
    {o \in DOMAIN page.deliveries : page.deliveries[o] = "delivered"}
=============================================================================

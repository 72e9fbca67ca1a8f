------------------------------- MODULE Tracker ------------------------------
(***************************************************************************)
(* A customer's tracking page and the stream that feeds it: the page           *)
(* (app/order/[id]/page.tsx, order-tracker.tsx) is rendered with a first view   *)
(* and opens an event stream, which the browser opens anew whenever it ends;    *)
(* the stream (app/api/orders/[id]/stream/route.ts) awaits a first tick, then   *)
(* a timer fires one every second, however long the earlier ones take, and a    *)
(* tick reads every order of the cart on its own (lib/dr.ts). close() names the *)
(* timer before the first tick has let it come into being, and then throws.    *)
(***************************************************************************)
EXTENDS OrderView, FiniteSets

CONSTANTS
    Order,       \* of the cart
    Stage,       \* Stage[o]: the states a read may find o in (bound); what o does
                 \* between two of them goes unseen
    Tick,        \* ticks that may be in flight at once (bound)
    MaxFaults    \* reads and connections that may fail (bound)

ASSUME TrackerAssumption ==
    /\ Stage \in [Order -> SUBSET State]
    /\ \A o \in Order : "placed" \in Stage[o]
    /\ MaxFaults \in Nat

VARIABLES
    states,      \* of the orders, in the orchestrator
    readable,    \* the cart token decodes
    shown,       \* the view the page shows
    left,        \* the customer has left the page
    timer,       \* "unset": const timer is not initialised yet
    closed,      \* the variable closed
    ended,       \* controller.close() has been called
    gone,        \* the request's abort event has come
    seen,        \* terminalSeenAt: "no", set, or set more than 2500 ms ago
    busy,        \* the ticks in flight
    view,        \* what each of them has read
    late,        \* history: ticks in flight overtaken by another's view
    faults       \* history: how many reads and connections have failed

orderVars  == <<states, readable>>
clientVars == <<shown, left>>
closeVars  == <<timer, closed, ended>>
tickVars   == <<seen, busy, view, late>>
vars == <<states, readable, shown, left, timer, closed, ended, gone, seen, busy, view,
          late, faults>>

Unread == [o \in Order |-> "unread"]

TypeOK ==
    /\ \A o \in Order : states[o] \in Stage[o] /\ shown[o] \in Stage[o] \cup {"pending"}
    /\ timer \in {"unset", "running", "cleared"}
    /\ {readable, left, closed, ended, gone} \subseteq BOOLEAN
    /\ seen \in {"no", "set", "due"}
    /\ late \subseteq busy /\ busy \subseteq Tick
    /\ view \in [Tick -> [Order -> State \cup {"pending", "unread"}]]
    /\ faults \in 0..MaxFaults

\* A new stream: start() runs its first tick.
FirstTick(t) ==
    /\ timer' = "unset" /\ closed' = FALSE /\ ended' = FALSE
    /\ gone' = FALSE
    /\ seen' = "no"
    /\ busy' = {t} /\ view' = [u \in Tick |-> Unread] /\ late' = {}

\* The page is rendered with what the server can read, and opens its stream.
\* A token that does not decode has no page, but may have a stream.
Init ==
    /\ readable \in BOOLEAN
    /\ states \in {f \in [Order -> State] : \A o \in Order : f[o] \in Stage[o]}
    /\ \E lost \in SUBSET Order :
           /\ faults = Cardinality(lost) /\ faults \in 0..MaxFaults
           /\ shown = [o \in Order |-> IF o \in lost THEN "pending" ELSE states[o]]
    /\ left = FALSE
    /\ timer = "unset" /\ closed = FALSE /\ ended = FALSE
    /\ gone = FALSE
    /\ seen = "no"
    /\ \E t \in Tick : busy = {t}
    /\ view = [u \in Tick |-> Unread] /\ late = {}

-----------------------------------------------------------------------------
(* The orders                                                                *)

\* One or more moves of the lifecycle.
Move(o) ==
    /\ states[o] \in Active
    /\ \E to \in Stage[o] :
           /\ Rank[to] > Rank[states[o]]
           /\ to = "cancelled" => states[o] \in Cancellable
           /\ states' = [states EXCEPT ![o] = to]
    /\ UNCHANGED <<readable, clientVars, closeVars, gone, tickVars, faults>>

-----------------------------------------------------------------------------
(* The stream                                                                *)

\* clearInterval(timer) throws before timer is initialised; the callers swallow
\* the exception (tick's catch) or report it (the abort listener).
Close ==
    IF closed
    THEN UNCHANGED closeVars
    ELSE /\ closed' = TRUE
         /\ IF timer = "unset"
            THEN UNCHANGED <<timer, ended>>
            ELSE timer' = "cleared" /\ ended' = TRUE

\* start() goes on after its first tick: the timer comes into being.
StartTimer ==
    /\ timer = "unset" /\ busy = {}
    /\ timer' = "running"
    /\ UNCHANGED <<orderVars, clientVars, closed, ended, gone, tickVars, faults>>

\* The timer fires.
Fire(t) ==
    /\ timer = "running" /\ t \notin busy
    /\ busy' = busy \cup {t}
    /\ UNCHANGED <<orderVars, clientVars, closeVars, gone, seen, view, late, faults>>

\* fetchOrder returns; not found, not ok or not reachable is a placeholder.
fetchOrder(t, o) ==
    /\ t \in busy /\ readable /\ view[t][o] = "unread"
    /\ \/ view' = [view EXCEPT ![t][o] = states[o]] /\ UNCHANGED faults
       \/ /\ faults < MaxFaults /\ faults' = faults + 1
          /\ view' = [view EXCEPT ![t][o] = "pending"]
    /\ UNCHANGED <<orderVars, clientVars, closeVars, gone, seen, busy, late>>

\* The browser shows what is sent; a closed stream sends nothing.
Send(v) == shown' = IF closed \/ gone THEN shown ELSE v

\* Mutant: the first terminal view is not remembered.
DeliverForgets(v) ==
    /\ Send(v)
    /\ UNCHANGED seen
    /\ IF aggregateStatus(v) \in Terminal /\ seen = "due" THEN Close ELSE UNCHANGED closeVars

Deliver(v) ==
    /\ Send(v)
    /\ seen' = IF aggregateStatus(v) \in Terminal /\ seen = "no" THEN "set" ELSE seen
    /\ IF aggregateStatus(v) \in Terminal /\ seen = "due" THEN Close ELSE UNCHANGED closeVars

\* Mutant: Promise.race in place of Promise.all.
FinishEarly(t) ==
    /\ t \in busy /\ readable
    /\ \E o \in Order : view[t][o] # "unread"
    /\ Deliver(view[t])
    /\ busy' = busy \ {t}
    /\ late' = IF closed \/ gone THEN late \ {t} ELSE busy \ {t}
    /\ view' = [view EXCEPT ![t] = Unread]
    /\ UNCHANGED <<orderVars, left, gone, faults>>

\* The tick's body after the await, for a token that decodes or not.
Finish(t) ==
    /\ t \in busy
    /\ IF readable
       THEN (\A o \in Order : view[t][o] # "unread") /\ Deliver(view[t])
       ELSE Close /\ UNCHANGED <<shown, seen>>
    /\ busy' = busy \ {t}
    /\ late' = IF closed \/ gone THEN late \ {t} ELSE busy \ {t}
    /\ view' = [view EXCEPT ![t] = Unread]
    /\ UNCHANGED <<orderVars, left, gone, faults>>

\* 2500 ms pass after the first terminal view.
Age ==
    /\ seen = "set"
    /\ seen' = "due"
    /\ UNCHANGED <<orderVars, clientVars, closeVars, gone, busy, view, late, faults>>

\* The request's abort event.
Abort ==
    /\ ~gone
    /\ gone' = TRUE
    /\ Close
    /\ UNCHANGED <<orderVars, shown, tickVars>>

-----------------------------------------------------------------------------
(* The browser                                                               *)

\* The page is left: es.close().
Leave ==
    /\ ~left /\ left' = TRUE
    /\ Abort
    /\ UNCHANGED faults

Disconnect ==
    /\ ~left /\ faults < MaxFaults /\ faults' = faults + 1
    /\ Abort
    /\ UNCHANGED left

\* Mutant: es.close() in an onerror handler.
ReconnectNever ==
    /\ FALSE
    /\ UNCHANGED vars

\* Mutant: the page starts over from the placeholders.
ReconnectBlank ==
    /\ ~left /\ (ended \/ gone)
    /\ \E t \in Tick : FirstTick(t)
    /\ shown' = [o \in Order |-> "pending"]
    /\ UNCHANGED <<orderVars, left, faults>>

\* The event stream has ended or broken off: the browser opens it again.
Reconnect ==
    /\ ~left /\ (ended \/ gone)
    /\ \E t \in Tick : FirstTick(t)
    /\ UNCHANGED <<orderVars, clientVars, faults>>

Next ==
    \/ \E o \in Order : Move(o)
    \/ \E t \in Tick : Fire(t) \/ Finish(t) \/ \E o \in Order : fetchOrder(t, o)
    \/ StartTimer \/ Age
    \/ Leave \/ Disconnect \/ Reconnect

Spec == Init /\ [][Next]_vars

\* Timers fire, reads return and the browser reconnects; only so many of them fail.
Fairness ==
    /\ \A t \in Tick : /\ WF_vars(Fire(t)) /\ WF_vars(Finish(t))
                       /\ \A o \in Order : WF_vars(fetchOrder(t, o))
    /\ WF_vars(StartTimer) /\ WF_vars(Age) /\ WF_vars(Reconnect)

FairSpec == Spec /\ Fairness

-----------------------------------------------------------------------------
(* Properties                                                                *)

\* The page is never ahead of a kitchen: no step is marked, and no row shown, that
\* an order still on its way has not come to, with every order read at a moment of
\* its own, ticks that overlap and reads that fail. A page that says a snag was hit
\* has a failed order, or none that was not cancelled, and one that says the bundle is
\* delivered has none that was neither delivered nor cancelled.
NeverAhead ==
    LET page == composeCartView(shown) IN
    /\ \A o \in Order :
           /\ states[o] \in FLOW /\ ~failedView(page.status)
              => \A s \in reached(page.status) : flowIdx(s) <= flowIdx(states[o])
           /\ o \in saysReady(page) => Rank[states[o]] >= Rank["ready"]
           /\ o \in saysDelivered(page) => states[o] = "delivered"
    /\ headline(page.status) = "We hit a snag" =>
           (\E o \in Order : states[o] = "failed") \/ \A o \in Order : states[o] = "cancelled"
    /\ headline(page.status) = "Delivered" =>
           \A o \in Order : states[o] \in {"delivered", "cancelled"}

\* The status shown falls back only to a view with an order that could not be read
\* (which is shown as placed), or to one overtaken by a later tick's.
FallsBackOnlyIf ==
    [][Rank[aggregateStatus(shown')] < Rank[aggregateStatus(shown)] =>
           \E t \in busy : /\ shown' = view[t]
                           /\ t \in late \/ \E o \in Order : view[t][o] = "pending"]_vars

\* "Closes itself shortly after the order reaches a terminal state" (the header
\* of route.ts): it does, unless the client is gone before.
ClosesWhenFinished ==
    readable /\ (\A o \in Order : states[o] \in Terminal) ~> ended \/ gone

\* "Closes itself ... when the client disconnects" (the same header). Refuted: a
\* client that leaves during the first tick meets a close() that throws before it
\* ends anything, and the timer that then starts polls for a stream that every
\* later close() takes for closed.
ClosesWhenLeft == readable /\ left ~> ended

\* In the end the page shows how every order of the cart has ended, although the
\* stream closes as soon as one has failed while others are on their way.
EndIsShown ==
    readable /\ (\A o \in Order : states[o] \in Terminal) ~> left \/ shown = states
=============================================================================

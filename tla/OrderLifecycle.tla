---------------------------- MODULE OrderLifecycle ---------------------------
(***************************************************************************)
(* What the pipeline promises about an order, with no message, handler or  *)
(* crash in sight: an order moves only along the table of states.py, the   *)
(* log of its moves is that path, a service acts for an order only once    *)
(* the order has come to the stage that calls it, a stage is passed only    *)
(* with its service's success on record, and only a declined payment fails  *)
(* an order. Orchestrator implements this.                                 *)
(***************************************************************************)
EXTENDS OrderStates, Sequences

CONSTANT Order

VARIABLES orders, transitions, ledger
vars == <<orders, transitions, ledger>>

Init ==
    /\ orders = [o \in Order |-> "absent"]
    /\ transitions = [o \in Order |-> << >>]
    /\ ledger = [o \in Order |-> [d \in Downstream |-> "none"]]

Create(o) ==
    /\ orders[o] = "absent"
    /\ orders' = [orders EXCEPT ![o] = "placed"]
    /\ UNCHANGED <<transitions, ledger>>

\* The order is in this state or has been.
Reached(o, state) ==
    orders[o] = state \/ \E i \in DOMAIN transitions[o] : transitions[o][i].from = state

\* A service records its outcome for the order, once.
Record(o, d, outcome) ==
    /\ ledger[o][d] = "none"
    /\ Reached(o, StageOf(d))
    /\ outcome = "declined" => d = "payment"
    /\ ledger' = [ledger EXCEPT ![o][d] = outcome]
    /\ UNCHANGED <<orders, transitions>>

Move(o, to) ==
    LET from == orders[o]
        outcome == ledger[o][StageDownstream[from]]
    IN  /\ from \in Active
        /\ to \in Allowed[from]
        /\ to \in Active \cup {"delivered"} => (Calls(from) => outcome = "ok")
        /\ to = "cancelled" => from \in Cancellable
        /\ to = "failed" => from = "placed" /\ outcome = "declined"
        /\ orders' = [orders EXCEPT ![o] = to]
        /\ transitions' = [transitions EXCEPT ![o] = Append(@, [from |-> from, to |-> to])]
        /\ UNCHANGED ledger

Next ==
    \E o \in Order :
        \/ Create(o)
        \/ \E d \in Downstream, outcome \in {"ok", "declined"} : Record(o, d, outcome)
        \/ \E to \in State : Move(o, to)

Spec == Init /\ [][Next]_vars
=============================================================================

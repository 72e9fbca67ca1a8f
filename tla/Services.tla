------------------------------ MODULE Services ------------------------------
(***************************************************************************)
(* payment-svc and one of the two dispatching services, as the orchestrator *)
(* uses them (services/orchestrator/app/main.py, drcommon/states.py): an     *)
(* order's restaurant ticket or courier is asked for in a stage it reaches   *)
(* only when its payment was answered with a 2xx. The op_id of a step is      *)
(* fixed by the order, so one key stands for the order's charge in the one    *)
(* service and for its dispatch in the other.                                 *)
(***************************************************************************)
EXTENDS Payment

CONSTANTS
    Ticket,   \* requests the dispatching service may serve at the same time
    Detail    \* the results it may produce

VARIABLES         \* of the dispatching service, see Fulfillment
    dispatches, serving, opId, detail, results, dispatched

dispatchVars == <<dispatches, serving, opId, detail, results, dispatched>>

F == INSTANCE Fulfillment WITH
    Request <- Ticket, OpId <- Key, phase <- serving, answers <- results

ServicesInit == Init /\ F!Init

-----------------------------------------------------------------------------
\* payment-svc has answered 2xx for the order. A 402 fails the order instead.
PaymentAnswered(k) == \E a \in answers : a[1] = k /\ a[2].status = "succeeded"

\* The orchestrator calls the service of a later stage, once or again.
Dispatch(r, k) ==
    /\ PaymentAnswered(k)
    /\ F!Arrive(r, k)

PaymentStep == Next /\ UNCHANGED dispatchVars

DispatchStep ==
    /\ \E r \in Ticket :
           \/ \E k \in Key : Dispatch(r, k)
           \/ F!Lookup(r) \/ F!Work(r) \/ F!Claim(r) \/ F!Reply(r) \/ F!Fail(r)
    /\ UNCHANGED vars

ServicesNext == PaymentStep \/ DispatchStep

servicesVars == <<vars, dispatchVars>>
ServicesSpec == ServicesInit /\ [][ServicesNext]_servicesVars

-----------------------------------------------------------------------------
(* Properties                                                                *)

\* A ticket or a courier is recorded only for an order whose recorded charge
\* succeeded: however requests for the charge overlapped, failed and came again,
\* none of them told the orchestrator of a success that is not on record.
Paid(k) == charges[k] # None /\ charges[k].status = "succeeded"
PaidBeforeDispatched == \A k \in DOMAIN dispatches : Paid(k)

\* One dispatch per op_id, under the calls the orchestrator makes.
DispatchedOnce == F!DispatchedOnce

\* What makes PaidBeforeDispatched inductive: what payment-svc answered is what
\* it has recorded, so whatever is being dispatched is paid.
ServicesIndInv ==
    /\ IndInv
    /\ Service!AnswersStand
    /\ opId \in [Ticket -> Key] /\ serving \in [Ticket -> F!Phase]
    /\ DOMAIN dispatches \subseteq Key
    /\ \A t \in Ticket : serving[t] # "idle" => Paid(opId[t])
    /\ PaidBeforeDispatched
=============================================================================

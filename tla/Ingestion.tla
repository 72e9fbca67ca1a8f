------------------------------ MODULE Ingestion -----------------------------
(***************************************************************************)
(* ingestion-svc (services/ingestion/app/main.py): place_order. One          *)
(* transaction inserts the order under its idempotency key and enqueues its  *)
(* order.placed event. Posts under one key overlap: load-gen and the          *)
(* storefront give up after a timeout and send the key again.                  *)
(***************************************************************************)
EXTENDS FiniteSets

CONSTANTS
    Request,   \* posts that may be served at the same time
    Key,       \* idempotency keys
    OrderId,   \* the uuids new_uuid may produce
    None

ASSUME IngestionAssumption == None \notin OrderId /\ None \notin Request

VARIABLES
    orders,    \* the orders table: the order_id committed under each key
    holder,    \* the transaction with an uncommitted insert of the key
    outbox,    \* order.placed events committed to the outbox
    phase,     \* where each post's handler is; "idle": no post
    key,       \* its idempotency key
    orderId,   \* the order_id it has made up
    answers    \* history: the 202 and 200 responses sent, <<key, order_id>>

vars == <<orders, holder, outbox, phase, key, orderId, answers>>

Phase == {"idle", "begin", "inserted", "conflict", "committed"}

TypeOK ==
    /\ orders \in [Key -> OrderId \cup {None}]
    /\ holder \in [Key -> Request \cup {None}]
    /\ outbox \subseteq OrderId
    /\ phase \in [Request -> Phase]
    /\ key \in [Request -> Key]
    /\ orderId \in [Request -> OrderId \cup {None}]
    /\ answers \subseteq Key \X OrderId

Init ==
    /\ orders = [k \in Key |-> None]
    /\ holder = [k \in Key |-> None]
    /\ outbox = {}
    /\ phase = [r \in Request |-> "idle"]
    /\ key \in [Request -> Key]
    /\ orderId = [r \in Request |-> None]
    /\ answers = {}

-----------------------------------------------------------------------------
Go(r, p) == phase' = [phase EXCEPT ![r] = p]

\* The order_ids nobody has made up yet.
Fresh == {i \in OrderId : (\A r \in Request : orderId[r] # i) /\ (\A k \in Key : orders[k] # i)}

\* A post comes in: a fresh order_id, a new transaction.
Arrive(r, k) ==
    /\ phase[r] = "idle"
    /\ \E i \in Fresh : orderId' = [orderId EXCEPT ![r] = i]
    /\ key' = [key EXCEPT ![r] = k]
    /\ Go(r, "begin")
    /\ UNCHANGED <<orders, holder, outbox, answers>>

\* Mutant: no unique constraint decides the race.
InsertUnchecked(r) ==
    /\ phase[r] = "begin"
    /\ IF orders[key[r]] = None
       THEN holder' = [holder EXCEPT ![key[r]] = r] /\ Go(r, "inserted")
       ELSE Go(r, "conflict") /\ UNCHANGED holder
    /\ UNCHANGED <<orders, outbox, key, orderId, answers>>

\* INSERT ... ON CONFLICT (idempotency_key) DO NOTHING: it waits for another
\* transaction that has inserted the key, and does nothing if that one commits.
Insert(r) ==
    /\ phase[r] = "begin"
    /\ holder[key[r]] = None
    /\ IF orders[key[r]] = None
       THEN holder' = [holder EXCEPT ![key[r]] = r] /\ Go(r, "inserted")
       ELSE Go(r, "conflict") /\ UNCHANGED holder
    /\ UNCHANGED <<orders, outbox, key, orderId, answers>>

Answer(r, id) ==
    /\ answers' = answers \cup {<<key[r], id>>}
    /\ orderId' = [orderId EXCEPT ![r] = None]
    /\ Go(r, "idle")

\* Mutant: a duplicate is answered, and announced, with an order_id of its own.
DuplicateOwnId(r) ==
    /\ phase[r] = "conflict"
    /\ Answer(r, orderId[r])
    /\ outbox' = outbox \cup {orderId[r]}
    /\ UNCHANGED <<orders, holder, key>>

\* Duplicate accept: the original order_id, nothing published.
Duplicate(r) ==
    /\ phase[r] = "conflict"
    /\ Answer(r, orders[key[r]])
    /\ UNCHANGED <<orders, holder, outbox, key>>

\* enqueue, and the transaction commits with order and event.
Commit(r) ==
    /\ phase[r] = "inserted"
    /\ orders' = [orders EXCEPT ![key[r]] = orderId[r]]
    /\ outbox' = outbox \cup {orderId[r]}
    /\ holder' = [holder EXCEPT ![key[r]] = None]
    /\ Go(r, "committed")
    /\ UNCHANGED <<key, orderId, answers>>

\* 202
Reply(r) ==
    /\ phase[r] = "committed"
    /\ Answer(r, orderId[r])
    /\ UNCHANGED <<orders, holder, outbox, key>>

\* A database call fails or the service dies: an open transaction rolls back,
\* and the client hears nothing, of a commit either.
Fail(r) ==
    /\ phase[r] # "idle"
    /\ holder' = [k \in Key |-> IF holder[k] = r THEN None ELSE holder[k]]
    /\ orderId' = [orderId EXCEPT ![r] = None]
    /\ Go(r, "idle")
    /\ UNCHANGED <<orders, outbox, key, answers>>

Next ==
    \E r \in Request :
        \/ \E k \in Key : Arrive(r, k)
        \/ Insert(r) \/ Duplicate(r) \/ Commit(r) \/ Reply(r) \/ Fail(r)

Spec == Init /\ [][Next]_vars

-----------------------------------------------------------------------------
(* Properties                                                                *)

\* Exactly the orders under a key are announced, each key's one: an order whose
\* post was answered, or lost its answer, enters the pipeline, and a second post
\* under its key never puts a second order there.
AnnouncedIsOrdered == outbox = {orders[k] : k \in Key} \ {None}

\* Every post under a key is answered with the one order_id recorded for it.
Service    == INSTANCE IdempotentService WITH record <- orders, Outcome <- OrderId
Implements == Service!Spec

\* What makes it inductive: an insert that is not committed yet is its holder's,
\* of a key nothing is recorded under.
TransactionOK(r) ==
    /\ phase[r] = "inserted" => holder[key[r]] = r /\ orders[key[r]] = None
    /\ phase[r] = "conflict" => orders[key[r]] # None
    /\ phase[r] = "committed" => orders[key[r]] = orderId[r]
    /\ phase[r] # "idle" => orderId[r] # None
IndInv ==
    /\ TypeOK
    /\ \A r \in Request : TransactionOK(r)
    /\ AnnouncedIsOrdered
=============================================================================

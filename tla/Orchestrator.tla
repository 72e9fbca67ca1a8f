----------------------------- MODULE Orchestrator ----------------------------
(***************************************************************************)
(* The order pipeline: the orchestrator's handlers on_placed and on_advance *)
(* (services/orchestrator/app/main.py) over the broker's queues             *)
(* (broker.py), the outbox relays of ingestion and of the orchestrator      *)
(* (outbox.py), the orchestrator's database and the services it calls.      *)
(*                                                                         *)
(* Every await is a step of its own: a handler is the value of pc for the   *)
(* message it serves, handlers of different messages interleave, and a      *)
(* crash returns every unacknowledged message to its queue.                 *)
(***************************************************************************)
EXTENDS OrderStates, FiniteSets, Sequences

CONSTANTS
    Order,          \* the orders customers may place
    None,           \* not an order
    Slot,           \* room for messages in the broker (bounds its queues)
    Reserve,        \* slots the relays leave free for republished messages, and
                    \* that are free when a crash is explored (bound)
    MaxAttempts,    \* BROKER_MAX_ATTEMPTS
    MaxDisruptions, \* crashes, rolled back drains, forced outages (bound)
    CancelEnabled,  \* CANCEL_RATE > 0
    BoundAtStart,   \* q.orch.placed exists before the first order is placed
    DbFaults,       \* a database call of the orchestrator may fail
    PublishFaults   \* a publish of the orchestrator may fail

ASSUME OrchestratorAssumption ==
    /\ None \notin Order
    /\ MaxAttempts \in Nat \ {0}
    /\ {Reserve, MaxDisruptions} \subseteq Nat
    /\ {CancelEnabled, BoundAtStart, DbFaults, PublishFaults} \subseteq BOOLEAN

VARIABLES
    accepted,     \* orders ingestion has answered 202 for
    orders,       \* orders.state in the orchestrator's database
    transitions,  \* its transitions table, per order
    operations,   \* its operations table: the claimed op_ids
    outbox,       \* rows with published_at IS NULL, of both services
    sent,         \* the rows of outbox their relay has published but not stamped
    queue,        \* the queue each message slot belongs to
    env,          \* the envelope each slot holds
    pc,           \* the step its handler is at; "ready": not delivered
    redelivered,  \* the messages of q.orch.placed whose redelivered flag is set
    redis,        \* op_ids the Redis first line has marked done
    ledger,       \* what each service has recorded under each op_id
    inflight,     \* requests a service has admitted and not yet recorded
    down,         \* services forced down
    bound,        \* q.orch.placed is declared and bound
    mislaid,      \* history: orders with a message no queue can serve any more
    disruptions   \* crashes, rolled back drains and outages so far

dbVars   == <<orders, transitions, operations>>
rowVars  == <<outbox, sent>>
msgVars  == <<queue, env>>
svcVars  == <<ledger, inflight, down>>
restVars == <<accepted, bound, mislaid, disruptions>>
vars     == <<dbVars, rowVars, msgVars, pc, redelivered, redis, svcVars, restVars>>

\* An order.placed event has no "from"; an order.advance command names the
\* state it leads away from.
Row      == [order : Order, from : {"none"} \cup Active]
Envelope == [order : Order, from : {"none"} \cup Active, attempt : 1 .. MaxAttempts]
NoEnvelope == [order |-> None, from |-> "none", attempt |-> 1]

Queue == {"placed", "advance", "retry", "dlq"}
Step  == {"ready", "dedup", "call", "wait", "commit", "mark", "cancel", "fail",
          "ack", "retry", "fault", "refault", "park", "abandoned"}

Op(o, from, to) == <<o, from, to>>
RowOf(o, from)  == [order |-> o, from |-> from]
Mail(o, from, attempt) == [order |-> o, from |-> from, attempt |-> attempt]

Free == {s \in Slot : queue[s] = "free"}

TypeOK ==
    /\ accepted \subseteq Order
    /\ orders \in [Order -> State \cup {"absent"}]
    /\ transitions \in [Order -> Seq([from : State, to : State])]
    /\ operations \subseteq Order \X Active \X State
    /\ outbox \subseteq Row
    /\ sent \subseteq outbox
    /\ queue \in [Slot -> Queue \cup {"free"}]
    /\ env \in [Slot -> Envelope \cup {NoEnvelope}]
    /\ \A s \in Slot : queue[s] # "free" => env[s] \in Envelope
    /\ pc \in [Slot -> Step]
    /\ redelivered \subseteq Slot
    /\ redis \subseteq Order \X Active \X State
    /\ ledger \in [Order -> [Downstream -> {"none", "ok", "declined"}]]
    /\ inflight \subseteq Order \X Downstream
    /\ down \subseteq Downstream
    /\ bound \in BOOLEAN
    /\ mislaid \subseteq Order
    /\ disruptions \in 0 .. MaxDisruptions

Init ==
    /\ accepted = {}
    /\ orders = [o \in Order |-> "absent"]
    /\ transitions = [o \in Order |-> << >>]
    /\ operations = {}
    /\ outbox = {} /\ sent = {}
    /\ queue = [s \in Slot |-> "free"]
    /\ env = [s \in Slot |-> NoEnvelope]
    /\ pc = [s \in Slot |-> "ready"]
    /\ redelivered = {}
    /\ redis = {}
    /\ ledger = [o \in Order |-> [d \in Downstream |-> "none"]]
    /\ inflight = {} /\ down = {}
    /\ bound = BoundAtStart
    /\ mislaid = {}
    /\ disruptions = 0

-----------------------------------------------------------------------------
(* Ingestion and the outbox relays.                                          *)

\* place_order: the order and its order.placed row commit together.
Accept(o) ==
    /\ o \notin accepted
    /\ accepted' = accepted \cup {o}
    /\ outbox' = outbox \cup {RowOf(o, "none")}
    /\ UNCHANGED <<dbVars, sent, msgVars, pc, redelivered, redis, svcVars,
                   bound, mislaid, disruptions>>

\* A message appears in a free slot.
Put(t, q, m) ==
    /\ t \in Free
    /\ queue' = [queue EXCEPT ![t] = q]
    /\ env' = [env EXCEPT ![t] = m]

\* One publish of _drain_once. An event no queue is bound for is confirmed and
\* thrown away by the broker (publish is not told of it).
RelayPublish(r) ==
    /\ r \in outbox \ sent
    /\ sent' = sent \cup {r}
    /\ IF r.from = "none" /\ ~bound
       THEN mislaid' = mislaid \cup {r.order} /\ UNCHANGED msgVars
       ELSE /\ Cardinality(Free) > Reserve
            /\ \E t \in Slot :
                   Put(t, IF r.from = "none" THEN "placed" ELSE "advance",
                       Mail(r.order, r.from, 1))
            /\ UNCHANGED mislaid
    /\ UNCHANGED <<accepted, dbVars, outbox, pc, redelivered, redis, svcVars,
                   bound, disruptions>>

\* The rows of one service: ingestion's carry the placed events.
RowsOf(svc) == {r \in sent : (r.from = "none") = (svc = "ingestion")}

\* The drain's transaction commits with every row of the batch stamped ...
RelayCommit(svc) ==
    /\ RowsOf(svc) # {}
    /\ outbox' = outbox \ RowsOf(svc)
    /\ sent' = sent \ RowsOf(svc)
    /\ UNCHANGED <<dbVars, msgVars, pc, redelivered, redis, svcVars, restVars>>

\* ... or rolls back (a publish failed, the database did, the service died):
\* rows already published will be published again.
RelayAbort(svc) ==
    /\ RowsOf(svc) # {}
    /\ disruptions < MaxDisruptions
    /\ disruptions' = disruptions + 1
    /\ sent' = sent \ RowsOf(svc)
    /\ UNCHANGED <<dbVars, outbox, msgVars, pc, redelivered, redis, svcVars,
                   accepted, bound, mislaid>>

-----------------------------------------------------------------------------
(* Handlers: what they share.                                                *)

At(s, q, step) == queue[s] = q /\ pc[s] = step
Go(s, step)    == pc' = [pc EXCEPT ![s] = step]

HandlerOnly == UNCHANGED <<dbVars, rowVars, msgVars, redelivered, redis, svcVars, restVars>>

\* message.ack(): the message is gone.
Ack(s) ==
    /\ queue[s] # "free" /\ pc[s] = "ack"
    /\ queue' = [queue EXCEPT ![s] = "free"]
    /\ env' = [env EXCEPT ![s] = NoEnvelope]
    /\ redelivered' = redelivered \ {s}
    /\ Go(s, "ready")
    /\ UNCHANGED <<dbVars, rowVars, redis, svcVars, restVars>>

\* Publish a successor of the message in s, then acknowledge s.
Republish(s, q, attempt) ==
    /\ \E t \in Slot : Put(t, q, Mail(env[s].order, env[s].from, attempt))
    /\ Go(s, "ack")
    /\ UNCHANGED <<dbVars, rowVars, redelivered, redis, svcVars, restVars>>

-----------------------------------------------------------------------------
(* on_placed                                                                 *)

\* Mutant: the order is inserted without its first command.
SeedTxInsertOnly(o) ==
    /\ orders' = IF orders[o] = "absent" THEN [orders EXCEPT ![o] = "placed"] ELSE orders
    /\ UNCHANGED outbox

SeedTx(o) ==
    IF orders[o] = "absent"
    THEN /\ orders' = [orders EXCEPT ![o] = "placed"]
         /\ outbox' = outbox \cup {RowOf(o, "placed")}
    ELSE UNCHANGED <<orders, outbox>>

\* Insert the order and its first command, or find it there already.
Seed(s) ==
    /\ At(s, "placed", "ready")
    /\ SeedTx(env[s].order)
    /\ Go(s, "ack")
    /\ UNCHANGED <<transitions, operations, sent, msgVars, redelivered, redis,
                   svcVars, restVars>>

\* Mutant: acknowledge before the transaction, so a failure loses the event.
SeedFailsAcked(s) ==
    /\ DbFaults
    /\ At(s, "placed", "ready")
    /\ Go(s, "ack")
    /\ HandlerOnly

\* The database call raises, with or without having committed: requeue the
\* first time, park the event in the DLQ the second.
SeedFails(s) ==
    /\ DbFaults
    /\ At(s, "placed", "ready")
    /\ SeedTx(env[s].order) \/ UNCHANGED <<orders, outbox>>
    /\ IF s \in redelivered
       THEN Go(s, "park") /\ UNCHANGED redelivered
       ELSE redelivered' = redelivered \cup {s} /\ UNCHANGED pc
    /\ UNCHANGED <<transitions, operations, sent, msgVars, redis, svcVars, restVars>>

Park(s) ==
    /\ At(s, "placed", "park")
    /\ \E t \in Slot : Put(t, "dlq", env[s])
    /\ Go(s, "ack")
    /\ mislaid' = mislaid \cup {env[s].order}
    /\ UNCHANGED <<accepted, dbVars, rowVars, redelivered, redis, svcVars, bound, disruptions>>

\* The exception leaves the callback: the message stays unacknowledged.
ParkFails(s) ==
    /\ PublishFaults
    /\ At(s, "placed", "park")
    /\ Go(s, "abandoned")
    /\ HandlerOnly

-----------------------------------------------------------------------------
(* on_advance: _advance up to the downstream call                            *)

\* Mutant: a customer may cancel at any time.
ReadCancelAny(s) ==
    LET o == env[s].order
    IN  /\ At(s, "advance", "ready")
        /\ orders[o] = env[s].from
        /\ Go(s, "dedup") \/ (CancelEnabled /\ Go(s, "cancel"))
        /\ HandlerOnly

Read(s) ==
    LET o == env[s].order
        from == env[s].from
    IN  /\ At(s, "advance", "ready")
        /\ \/ from = "none" /\ Go(s, "fault")              \* KeyError
           \/ from # "none" /\ orders[o] = "absent" /\ Go(s, "retry")
           \/ from # "none" /\ orders[o] \notin {"absent", from} /\ Go(s, "ack")
           \/ /\ orders[o] = from
              /\ \/ Go(s, "dedup")
                 \/ CancelEnabled /\ from \in Cancellable /\ Go(s, "cancel")
           \/ DbFaults /\ from # "none" /\ Go(s, "fault")
        /\ HandlerOnly

\* The op_id of entering the next state on the happy path.
StepOp(s) == Op(env[s].order, env[s].from, NextHappyState[env[s].from])

\* Mutant: check-and-set on the way in (RedisFirstLine.seen) instead of is_done.
DedupSeen(s) ==
    /\ At(s, "advance", "dedup")
    /\ redis' = redis \cup {StepOp(s)}
    /\ Go(s, IF StepOp(s) \in redis THEN "ack"
             ELSE IF Calls(env[s].from) THEN "call" ELSE "commit")
    /\ UNCHANGED <<dbVars, rowVars, msgVars, redelivered, svcVars, restVars>>

\* Redis says done and Postgres confirms: skip. Redis is wiped or down, or it
\* says no: go on (so a mark never has to be honoured).
Dedup(s) ==
    /\ At(s, "advance", "dedup")
    /\ \/ StepOp(s) \in redis /\ StepOp(s) \in operations /\ Go(s, "ack")
       \/ Go(s, IF Calls(env[s].from) THEN "call" ELSE "commit")
       \/ DbFaults /\ StepOp(s) \in redis /\ Go(s, "fault")
    /\ HandlerOnly

-----------------------------------------------------------------------------
(* _call_downstream, and the services it calls                               *)

Callee(s) == StageDownstream[env[s].from]

\* One attempt of post_json that reaches a service which is up: the request is
\* admitted, and may take effect long after its sender has stopped waiting, or
\* died. Under an op_id with a recorded outcome it has no further effect. (An
\* attempt a service refuses, being down, changes nothing: GiveUp.)
Send(s) ==
    /\ At(s, "advance", "call")
    /\ Callee(s) \notin down
    /\ inflight' = IF ledger[env[s].order][Callee(s)] = "none"
                   THEN inflight \cup {<<env[s].order, Callee(s)>>} ELSE inflight
    /\ Go(s, "wait")
    /\ UNCHANGED <<dbVars, rowVars, msgVars, redelivered, redis, ledger, down,
                   restVars>>

\* The service records one outcome per op_id and keeps it, even if it has been
\* forced down since it admitted the request. Only payment declines.
Serve(o, d) ==
    /\ <<o, d>> \in inflight
    /\ inflight' = inflight \ {<<o, d>>}
    /\ \E outcome \in IF d = "payment" THEN {"ok", "declined"} ELSE {"ok"} :
           ledger' = [ledger EXCEPT ![o][d] = outcome]
    /\ UNCHANGED <<dbVars, rowVars, msgVars, pc, redelivered, redis, down,
                   restVars>>

\* Mutant: a call that ends without a reply counts as a success.
ReplyOrTimeout(s) ==
    /\ At(s, "advance", "wait")
    /\ Go(s, IF ledger[env[s].order][Callee(s)] = "declined" THEN "fail" ELSE "commit")
    /\ HandlerOnly

\* A 2xx for the recorded outcome, or the 402 of a recorded decline.
Reply(s) ==
    LET outcome == ledger[env[s].order][Callee(s)]
    IN  /\ At(s, "advance", "wait")
        /\ outcome # "none"
        /\ Go(s, IF outcome = "ok" THEN "commit" ELSE "fail")
        /\ HandlerOnly

\* A timeout, a 5xx, a 429: the request came to nothing or is still being served.
AttemptFails(s) ==
    /\ At(s, "advance", "wait")
    /\ inflight' \in {inflight, inflight \ {<<env[s].order, Callee(s)>>}}
    /\ Go(s, "call")
    /\ UNCHANGED <<dbVars, rowVars, msgVars, redelivered, redis, ledger, down,
                   restVars>>

\* Mutant: the command is acknowledged and not retried.
GiveUpAcked(s) ==
    /\ At(s, "advance", "call")
    /\ Go(s, "ack")
    /\ HandlerOnly

\* BreakerOpen or TransientExhausted.
GiveUp(s) ==
    /\ At(s, "advance", "call")
    /\ Go(s, "retry")
    /\ HandlerOnly

\* The operator's failure switch.
ForceDown(d) ==
    /\ d \notin down /\ disruptions < MaxDisruptions
    /\ down' = down \cup {d}
    /\ disruptions' = disruptions + 1
    /\ UNCHANGED <<accepted, dbVars, rowVars, msgVars, pc, redelivered, redis,
                   ledger, inflight, bound, mislaid>>

ForceUp(d) ==
    /\ d \in down
    /\ down' = down \ {d}
    /\ UNCHANGED <<dbVars, rowVars, msgVars, pc, redelivered, redis, ledger,
                   inflight, restVars>>

-----------------------------------------------------------------------------
(* _commit_transition, _cancel, _fail_order: one transaction each            *)

\* Mutant: the update does not compare the state it sets.
MoveWithoutCas(o, from, to) ==
    /\ Op(o, from, to) \notin operations
    /\ operations' = operations \cup {Op(o, from, to)}
    /\ orders' = [orders EXCEPT ![o] = to]
    /\ transitions' = [transitions EXCEPT ![o] = Append(@, [from |-> from, to |-> to])]
    /\ outbox' = IF to \in Terminal THEN outbox ELSE outbox \cup {RowOf(o, to)}

\* Claim the op, compare-and-set the state, log the move, enqueue what follows.
Move(o, from, to) ==
    /\ Op(o, from, to) \notin operations
    /\ orders[o] = from
    /\ operations' = operations \cup {Op(o, from, to)}
    /\ orders' = [orders EXCEPT ![o] = to]
    /\ transitions' = [transitions EXCEPT ![o] = Append(@, [from |-> from, to |-> to])]
    /\ outbox' = IF to \in Terminal THEN outbox ELSE outbox \cup {RowOf(o, to)}

\* Claimed already: a dedup no-op. The state moved on: RuntimeError, so the
\* claim rolls back. A failed call may or may not have committed.
Transact(s, to, done) ==
    LET o == env[s].order
        from == env[s].from
        unchanged == UNCHANGED <<dbVars, outbox>>
    IN  /\ \/ Move(o, from, to) /\ Go(s, done)
           \/ Op(o, from, to) \in operations /\ Go(s, "ack") /\ unchanged
           \/ /\ Op(o, from, to) \notin operations /\ orders[o] # from
              /\ Go(s, "fault") /\ unchanged
           \/ DbFaults /\ Go(s, "fault") /\ (Move(o, from, to) \/ unchanged)
        /\ UNCHANGED <<sent, msgVars, redelivered, redis, svcVars, restVars>>

Commit(s) ==
    /\ At(s, "advance", "commit")
    /\ Transact(s, NextHappyState[env[s].from], "mark")

Cancel(s) == At(s, "advance", "cancel") /\ Transact(s, "cancelled", "ack")

FailOrder(s) == At(s, "advance", "fail") /\ Transact(s, "failed", "ack")

\* mark_done, after the commit.
MarkDone(s) ==
    /\ At(s, "advance", "mark")
    /\ redis' = redis \cup {StepOp(s)}
    /\ Go(s, "ack")
    /\ UNCHANGED <<dbVars, rowVars, msgVars, redelivered, svcVars, restVars>>

-----------------------------------------------------------------------------
(* _retry_or_dlq, _fault and the broker's retry and dead-letter queues       *)

\* schedule_retry counts the attempt before it publishes, so the fault path
\* that follows a failed publish sees the higher count.
AttemptOf(s) == env[s].attempt + (IF pc[s] = "refault" THEN 1 ELSE 0)

\* Mutant: an uncapped retry.
RetryUncapped(s) ==
    /\ queue[s] = "advance" /\ pc[s] \in {"retry", "fault", "refault"}
    /\ Republish(s, "retry", AttemptOf(s) + 1)

RetryOrDlq(s) ==
    /\ queue[s] = "advance" /\ pc[s] \in {"retry", "fault", "refault"}
    /\ IF AttemptOf(s) >= MaxAttempts
       THEN Republish(s, "dlq", AttemptOf(s))
       ELSE Republish(s, "retry", AttemptOf(s) + 1)

\* A failed publish of _retry_or_dlq raises into _fault, which tries once more ...
RetryFails(s) ==
    /\ PublishFaults
    /\ At(s, "advance", "retry")
    /\ Go(s, IF env[s].attempt < MaxAttempts THEN "refault" ELSE "fault")
    /\ HandlerOnly

\* ... and then rejects the message without requeueing it. The queue has no
\* dead-letter exchange, so it is gone, unless the reject fails as well.
FaultFails(s) ==
    /\ PublishFaults
    /\ queue[s] = "advance" /\ pc[s] \in {"fault", "refault"}
    /\ \/ /\ queue' = [queue EXCEPT ![s] = "free"]
          /\ env' = [env EXCEPT ![s] = NoEnvelope]
          /\ Go(s, "ready")
          /\ mislaid' = mislaid \cup {env[s].order}
       \/ Go(s, "abandoned") /\ UNCHANGED <<msgVars, mislaid>>
    /\ UNCHANGED <<accepted, dbVars, rowVars, redelivered, redis, svcVars, bound, disruptions>>

\* The retry queue's TTL dead-letters the command back to the work queue.
RetryTtl(s) ==
    /\ queue[s] = "retry"
    /\ queue' = [queue EXCEPT ![s] = "advance"]
    /\ UNCHANGED <<dbVars, rowVars, env, pc, redelivered, redis, svcVars, restVars>>

\* One turn of replay_dlq's loop, from the drain loop or the admin endpoint:
\* publish as an advance command with a fresh attempt count, then acknowledge.
ReplayDlq(s) ==
    /\ At(s, "dlq", "ready")
    /\ Republish(s, "advance", 1)

\* A failed publish leaves the loop, and the message with it unacknowledged.
ReplayFails(s) ==
    /\ PublishFaults
    /\ At(s, "dlq", "ready")
    /\ Go(s, "abandoned")
    /\ HandlerOnly

-----------------------------------------------------------------------------
(* Start, crash and restart                                                  *)

\* A durable queue bound to the order.placed events: declared again, as every
\* later start does, it is as it was.
DeclareEventQueue == bound' = TRUE

\* The orchestrator's first start declares q.orch.placed.
FirstStart ==
    /\ ~bound
    /\ DeclareEventQueue
    /\ UNCHANGED <<accepted, dbVars, rowVars, msgVars, pc, redelivered, redis,
                   svcVars, mislaid, disruptions>>

\* Mutant: automatic acknowledgement, a crash drops what was being handled.
CrashAutoAck ==
    /\ disruptions < MaxDisruptions
    /\ disruptions' = disruptions + 1
    /\ pc' = [s \in Slot |-> "ready"]
    /\ queue' = [s \in Slot |-> IF pc[s] = "ready" THEN queue[s] ELSE "free"]
    /\ env' = [s \in Slot |-> IF pc[s] = "ready" THEN env[s] ELSE NoEnvelope]
    /\ sent' = RowsOf("ingestion")
    /\ UNCHANGED <<accepted, dbVars, outbox, redelivered, redis, svcVars, bound, mislaid>>

\* Every delivery not acknowledged returns to its queue, flagged redelivered;
\* the relay's open transaction rolls back. Requests on the wire remain.
Crash ==
    /\ disruptions < MaxDisruptions
    /\ Cardinality(Free) >= Reserve
    /\ disruptions' = disruptions + 1
    /\ pc' = [s \in Slot |-> "ready"]
    /\ redelivered' = redelivered \cup {s \in Slot : queue[s] = "placed"}
    /\ sent' = RowsOf("ingestion")
    /\ UNCHANGED <<accepted, dbVars, outbox, msgVars, redis, svcVars, bound, mislaid>>

\* A connection reset returns a message its handler left unacknowledged.
Reconnect(s) ==
    /\ queue[s] # "free" /\ pc[s] = "abandoned"
    /\ Go(s, "ready")
    /\ redelivered' = IF queue[s] = "placed" THEN redelivered \cup {s} ELSE redelivered
    /\ UNCHANGED <<dbVars, rowVars, msgVars, redis, svcVars, restVars>>

-----------------------------------------------------------------------------
OnPlaced(s)  == Seed(s) \/ SeedFails(s) \/ Park(s) \/ ParkFails(s)
OnAdvance(s) ==
    \/ Read(s) \/ Dedup(s)
    \/ Send(s) \/ Reply(s) \/ AttemptFails(s) \/ GiveUp(s)
    \/ Commit(s) \/ Cancel(s) \/ FailOrder(s) \/ MarkDone(s)
    \/ RetryOrDlq(s) \/ RetryFails(s) \/ FaultFails(s)
Broker(s) == Ack(s) \/ RetryTtl(s) \/ ReplayDlq(s) \/ ReplayFails(s) \/ Reconnect(s)

Next ==
    \/ \E o \in Order : Accept(o)
    \/ \E r \in outbox : RelayPublish(r)
    \/ \E svc \in {"ingestion", "orchestrator"} : RelayCommit(svc) \/ RelayAbort(svc)
    \/ \E s \in Slot : OnPlaced(s) \/ OnAdvance(s) \/ Broker(s)
    \/ \E o \in Order, d \in Downstream : Serve(o, d)
    \/ \E d \in Downstream : ForceDown(d) \/ ForceUp(d)
    \/ FirstStart
    \/ Crash

Spec == Init /\ [][Next]_vars

\* What the code's tasks justify: handlers, relay, timers and the drain loop keep
\* running, a publish blocked by a full broker goes through in the end, a forced
\* outage ends, and a service that is up and is called again and again answers
\* some time (its injected error rates are below one).
Fairness ==
    /\ \A s \in Slot : /\ WF_vars(OnPlaced(s)) /\ WF_vars(OnAdvance(s)) /\ WF_vars(Broker(s))
                       /\ SF_vars(RetryOrDlq(s))
    /\ SF_vars(\E r \in outbox : RelayPublish(r))
    /\ \A svc \in {"ingestion", "orchestrator"} : WF_vars(RelayCommit(svc))
    /\ SF_vars(\E s \in Slot : down = {} /\ ReplayDlq(s))
    /\ \A d \in Downstream : WF_vars(ForceUp(d))
    /\ SF_vars(\E s \in Slot : Send(s))
    /\ SF_vars(\E o \in Order, d \in Downstream : Serve(o, d))
    /\ SF_vars(\E s \in Slot : Reply(s))
    /\ WF_vars(FirstStart)

FairSpec == Spec /\ Fairness

-----------------------------------------------------------------------------
(* Properties                                                                *)

\* The row whose publication moves order o on: its placed event until it is
\* inserted, then the command that leads away from its state.
PendingRow(o) ==
    RowOf(o, IF orders[o] = "absent" THEN "none" ELSE orders[o]) \in outbox \ sent

\* The message in s moves order o on, and its handler is not finished with it.
Serves(s, o) ==
    /\ env[s].order = o
    /\ IF orders[o] = "absent"
       THEN queue[s] = "placed" /\ pc[s] # "ack"
       ELSE /\ queue[s] \in {"advance", "retry", "dlq"}
            /\ env[s].from = orders[o]
            /\ pc[s] \notin {"ack", "mark"}

HasWork(o) == PendingRow(o) \/ \E s \in Slot : Serves(s, o)

Unfinished(o) == o \in accepted /\ orders[o] \notin Terminal

\* No order is ever stranded: while an accepted order is not finished, some row
\* or message that will move it on exists, whatever handlers, relays and crashes
\* do between a publish, a commit and an acknowledgement.
NoOrderLost == \A o \in Order : Unfinished(o) => HasWork(o)

\* With every fault of the model possible, an order can be stranded only after
\* one of its messages went where nothing serves it: rejected without requeue by
\* _fault, published to no queue before the first start, or a placed event
\* parked in the DLQ.
CanFinish(o) == Unfinished(o) /\ o \notin mislaid => HasWork(o)
LossOnlyThroughGaps == \A o \in Order : CanFinish(o)

\* No state is left twice: an advance, a cancellation and a failure out of one
\* state have different op_ids, so only the compare-and-set on orders.state
\* keeps concurrent handlers from applying two of them.
OneClaimPerState ==
    \A p, q \in operations : p[1] = q[1] /\ p[2] = q[2] => p = q

\* The transitions table of an order is a path of allowed moves from placed to
\* the order's state, and its moves are exactly the claimed operations.
TransitionLogIsPath ==
    \A o \in Order :
        LET log == transitions[o]
        IN  /\ \A i \in DOMAIN log :
                   /\ log[i].from = IF i = 1 THEN "placed" ELSE log[i - 1].to
                   /\ log[i].to \in Allowed[log[i].from]
                   /\ Op(o, log[i].from, log[i].to) \in operations
            /\ log # << >> => orders[o] = log[Len(log)].to
            /\ Len(log) = Cardinality({op \in operations : op[1] = o})

\* Redis never says done of a step the database does not have: a mark is set
\* only after the commit, so skipping on it never skips work.
RedisNeverAhead == redis \subseteq operations

\* The end of an order is true of what was done for it, although the services act
\* before the transition that says so, and a command that comes again may find the
\* customer cancelling: a delivered order has been paid, prepared and fetched, no
\* courier was sent for a cancelled one, and for a failed one nothing was done.
EndTells ==
    \A o \in Order :
        /\ orders[o] = "delivered" => \A d \in Downstream : ledger[o][d] = "ok"
        /\ orders[o] = "cancelled" => ledger[o]["courier"] = "none"
        /\ orders[o] = "failed" => /\ ledger[o]["payment"] = "declined"
                                   /\ ledger[o]["restaurant"] = "none"
                                   /\ ledger[o]["courier"] = "none"

\* The pipeline does what OrderLifecycle promises, and nothing else, to orders,
\* their logs and the services' ledgers.
Lifecycle  == INSTANCE OrderLifecycle
Implements == Lifecycle!Spec

\* An accepted order is delivered, cancelled or failed in the end.
AcceptedOrderFinishes ==
    \A o \in Order : o \in accepted ~> orders[o] \in Terminal

-----------------------------------------------------------------------------
(* The inductive invariant behind the safety properties                      *)

\* Which steps a message can be at in each queue, and what its handler has
\* established by then: the state it leaves, the service it calls, that the
\* attempt was counted below the cap, that its step is claimed before it is
\* marked done.
SlotOK(s) ==
    /\ queue[s] \in {"free", "retry"} => pc[s] = "ready"
    /\ queue[s] = "dlq" => pc[s] \in {"ready", "ack", "abandoned"}
    /\ queue[s] = "placed" => pc[s] \in {"ready", "park", "ack", "abandoned"}
    /\ pc[s] \in {"dedup", "cancel", "commit", "mark"} => env[s].from \in Active
    /\ pc[s] \in {"call", "wait", "fail"} => Calls(env[s].from)
    /\ pc[s] = "refault" => env[s].attempt < MaxAttempts
    /\ pc[s] = "mark" => StepOp(s) \in operations
HandlerOK == \A s \in Slot : SlotOK(s)

\* Nothing is known of an order ingestion has not accepted.
KnownWasAccepted ==
    /\ \A r \in outbox : r.order \in accepted
    /\ \A s \in Slot : queue[s] # "free" => env[s].order \in accepted
    /\ \A o \in Order : orders[o] # "absent" => o \in accepted

\* An advance command waiting in the outbox, and every claimed step, lies behind
\* or at the order's state: so a row is never enqueued twice, and a step that is
\* claimed leads out of a state the order has left for good.
RowsBehind ==
    \A r \in outbox : r.from # "none" => Rank[r.from] <= Rank[orders[r.order]]
ClaimsBehind ==
    \A o \in Order, from \in Active, to \in State :
        Op(o, from, to) \in operations => Rank[from] < Rank[orders[o]]

IndInv ==
    /\ TypeOK /\ HandlerOK /\ KnownWasAccepted /\ RowsBehind /\ ClaimsBehind
    /\ LossOnlyThroughGaps
=============================================================================

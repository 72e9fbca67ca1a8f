# dinner-rush: a TLA+ model of the order pipeline and of the pages in front of it

dinner-rush takes an order with a POST and promises that it is never lost, never charged twice and
never dispatched twice, whatever crashes, times out or is redelivered on the way (`README.md:200-230`
of the repository). In front of that pipeline stand a storefront, whose checkout turns one cart into
several posts and whose tracking page puts several orders together again, and an operations dashboard.
This directory holds TLA+ modules for the parts that keep the promise and for the parts that talk about
it, TLC configurations that check them on small instances, and TLAPS proofs of their main safety
properties for every value of the constants.

All paths below are relative to the repository. `drcommon/` is `libs/drcommon/drcommon/`,
`orchestrator` is `services/orchestrator/app/main.py`, `web/` the dashboard's page, and the
storefront's paths start at `customer-web/src/`.

## 1. The system

```
 cart, checkout ── POST /api/orders ─▶ storefront ──┐            ┌──────────── payment-svc
                                                    ▼            │            restaurant-svc
                                    load-gen ─▶ ingestion        │            courier-svc
                                                    │ outbox     │ HTTP, one breaker each
 tracking page ◀─ server-sent events ─ storefront   ▼            │
                           │ GET /orders/{id}    RabbitMQ: placed ─▶ advance ⇄ retry (TTL) / dlq
                           └───────────────▶ orchestrator ◀──────────┘      ▲
                                                 └── outbox ────────────────┘
 dashboard page ◀─ fetch, server-sent events, control posts ─▶ dashboard-api ─▶ every service
```

| component | state | operations | what is hard about it | what makes it correct |
|---|---|---|---|---|
| ingestion (`services/ingestion/app/main.py`) | `orders`, `outbox` tables | `place_order` | posts of one key overlap; the client times out after the commit | one order and one event per key; every post learns that order |
| outbox relay (`drcommon/outbox.py`) | unpublished rows | `_drain_once`: lock, publish each, stamp all, commit | publish and stamp are not atomic | a committed row is published at least once |
| broker (`drcommon/broker.py`) | q.orch.placed, q.order.advance, its retry queue (TTL), the DLQ | publish, ack, nack, redelivery, `replay_dlq` | redelivery after a crash, duplicates, unroutable messages | a message leaves only once its successor exists |
| orchestrator | `orders`, `transitions`, `operations` tables, Redis marks, handlers in progress | `on_placed`, `on_advance`, `_fault`, the DLQ drain loop | two deliveries of one command, a state read before an await and used after it, a crash between any two steps | no order is stranded, no state left twice, the log is a path, every order finishes |
| HTTP client (`drcommon/http_client.py`) | the breaker: state, failures, probe flag | `allow`, `record_success`, `record_failure`, `post_json` | calls admitted in one state report in another | half open it always has one probe; it closes again |
| payment-svc (`drcommon/payment.py`) | `charges` table | `create_payment_intent` | look-up and insert with a wait between | one charge per key, one answer |
| restaurant-svc, courier-svc (`drcommon/downstream.py`) | `dispatches` table | `fulfill` | as above | one dispatch per op_id |
| checkout (`app/checkout/checkout-flow.tsx`, `app/api/orders/route.ts`, `lib/dr.ts`) | step, the key of a mount, the cart, posts under way | `goNext`, `submitOrder`, its `.then` and `catch`, `placeCart` | one cart becomes several posts of which some fail; the customer edits or leaves while an answer is awaited | the token names what was ordered; a cart is cleared only of what it ordered |
| cart and pages (`lib/cart-context.tsx`, every page with a button for it) | items, headcount, localStorage | `add`, `addBundle`, `setQty`, `setHeadcount`, `clear`; load and persist effects | two effects of one mount over one entry, several tabs, rounding at a threshold | the cart survives a visit; a dish more is never cheaper; a package covers its guests |
| tracking page and stream (`app/order/[id]/`, `app/api/orders/[id]/stream/route.ts`) | timer, `closed`, `terminalSeenAt`, the view shown | `tick`, `send`, `close`, reads of each order, EventSource | ticks overlap and overtake each other; reads fail one by one; the client leaves at any await | never ahead of the kitchen; it ends when the orders do, and shows how |
| dashboard (`services/dashboard_api/app/main.py`, `web/src/App.tsx`) | the snapshot, chart history, connection, toast, buttons | refresh loop, first fetch, stream, watchdog, control proxy | the first fetch races the stream; a stuck connection; a source that cannot be read is shown as up | "live" means recent; what was broken can be restored |
| load-gen, mock order page, helpers, deployment | counters, markup | | | section 7 |

`PROJECT.json` lists under "hazards" the places, by line, where this code can go wrong in a way a test
would hardly reach, with the properties that would notice.

## 2. Modules

| module | stands for | main state |
|---|---|---|
| `OrderStates` | `drcommon/states.py`: states, allowed moves, the happy path, which stage calls which service | constants only |
| `Orchestrator` | the pipeline from ingestion's answer to the order's last state | below |
| `OrderLifecycle` | what the pipeline promises of an order, with no message in sight | `orders`, `transitions`, `ledger` |
| `HttpClient` | one `ResilientClient` and its breaker, shared by overlapping calls | `state`, `failures`, `probeInflight`, `attempt` per call |
| `Payment` | `create_payment_intent` | `charges`, a phase per request |
| `Fulfillment` | `fulfill` of both other services | `dispatches`, a phase per request |
| `Services` | `Payment` and one `Fulfillment` as the orchestrator calls them, the one after the other | both, side by side |
| `Ingestion` | `place_order` and its transaction | `orders`, `holder` (the uncommitted insert), `outbox` |
| `IdempotentService` | what a service with an idempotency key promises | `record`, `answers` |
| `Storefront` | the checkout over `Ingestion`, which it extends | `page`, `step`, `cart`, `waiting`, `submitted`, `call`, `post`, `got`, `ordered` |
| `Pricing` | what is derived from the items of a cart: bill and servings | constants only |
| `Cart` | the cart provider in several tabs and every button that changes a cart | `phase`, `cart`, `loaded` per tab; `storage` |
| `Shop` | the package configurator and the restaurant browser, over `Cart` | `page`, `guests`, `sel`, `query`, `cuisine`, `diets` |
| `OrderView` | how the states of a cart's orders become one view, and what the page marks of it | operators only |
| `Tracker` | the tracking page, EventSource and the stream that polls the orders | `states`, `shown`, `timer`, `closed`, `seen`, `view` per tick |
| `Dashboard` | the page, the backend's refresh loop, fetch, stream and control posts | `down`, `server`, `snap`, `conn`, `since`, `toast`, `es`, `wire`, `call` |
| `*Proofs` | theorems about the module of that name; `ServicesProofs` covers `Payment` too, `ShopProofs` `Pricing` and `Cart`, `StorefrontProofs` `Ingestion` | |
| `MC*` | symmetry sets and the constants of an instance | |

`Orchestrator` implements `OrderLifecycle`; `Payment` and `Ingestion` implement `IdempotentService`.
Orchestrator's services are reduced to what these modules promise: `Send` admits a request, `Serve`
records one outcome per op_id, possibly after its sender has stopped waiting, and `Reply` returns the
recorded outcome. Likewise `Tracker` sees of the pipeline what `OrderStates` allows: orders move on.
`Storefront` in contrast runs with all of `Ingestion` below it, and every step of it is a step
of `Ingestion` or leaves ingestion alone, so what is proved of the one holds under the other.
`Services` runs `Payment`, which it extends, beside an instance of `Fulfillment` in the same way: what joins them is
that a dispatch is asked for only in a stage behind a payment that was answered with success.

### Orchestrator: state and actions against the code

A message occupies a *slot*: `queue[s]` is its queue, `env[s]` its envelope (order, the state the
command leads away from, the attempt), `pc[s]` the await its handler stands at. Every await is a step of its own. Messages of different
slots interleave freely, as prefetch and asyncio allow.

| actions | code |
|---|---|
| `Accept` | `place_order` commits order and `order.placed` row |
| `RelayPublish`, `RelayCommit`, `RelayAbort` | `_drain_once`: publish a row; stamp the batch and commit; roll back |
| `Seed`, `SeedFails`, `Park`, `ParkFails` | `on_placed`, its requeue, and its parking of the event after a second failure |
| `Read` | `_advance` up to line 298: not found, stale, cancel or go on |
| `Dedup` | the Redis first line, confirmed in Postgres |
| `Send`, `Reply`, `AttemptFails`, `GiveUp` | `_call_downstream` over `post_json` |
| `Commit`, `Cancel`, `FailOrder` | one transaction each: claim the op_id, compare-and-set the state, log, enqueue |
| `MarkDone`, `Ack` | after the commit; acknowledge |
| `RetryOrDlq`, `RetryFails`, `FaultFails` | `_retry_or_dlq` and `_fault`, with one or both publishes failing |
| `RetryTtl`, `ReplayDlq`, `ReplayFails` | the retry queue's TTL; one turn of `replay_dlq` |
| `Crash`, `Reconnect` | unacknowledged messages return to their queues, open transactions roll back |
| `Serve`, `ForceDown`, `ForceUp` | the services |
| `FirstStart` | the orchestrator's first start declares q.orch.placed (`DeclareEventQueue`) |

With `DbFaults` a database call may raise at every place the code makes one, and a transaction that
raises may or may not have committed. With `PublishFaults` every publish of the orchestrator may raise.

Abstracted: amounts, items and payloads; the `cause` and `attempt` columns; the `order.transition`
events (nothing in the pipeline consumes them); thinking and back-off times; cancellation and failure
rates, which become choices. The `operations` table is a set of op_ids `<<order, from, to>>`, which is
what `op_id_for` spells out. `mislaid` is a history variable: orders one of whose messages has gone
where nothing serves it. What RabbitMQ does (redelivery, TTL, dropping what no queue is bound for) is
not code of the repository and is marked external.

### The services

* **HttpClient**: a call is an `attempt` number per handler. `Admit` is `allow()`; `Definitive`,
  `RateLimited` and `Transient` are the ways an attempt ends. Between them anything may happen to the
  breaker, so calls admitted while it was closed report while it is open or half open. `cooled` says
  that `open_seconds` have passed; `failures` saturates at the threshold, as it is only compared with it.
* **Payment, Fulfillment**: a request goes through look-up, work, claim (INSERT ... ON CONFLICT DO
  NOTHING RETURNING) and reply, and may `Fail` at every phase, after the insert too. `charged` and
  `dispatched` count the increments of the services' own counters.
* **Services**: `Dispatch` sends a ticket for an order one of whose payment requests was answered with a 2xx
  (`PaymentAnswered`), as `_call_downstream` and `STAGE_DOWNSTREAM` do; the op_ids of an order's steps are
  fixed, so one key stands for its charge in the one service and its dispatch in the other. A ticket comes as often as
  the orchestrator repeats its command, and payment requests may come late, beside it.
* **Ingestion**: `holder` is the uncommitted row of a key: a second insert waits for it, as Postgres
  makes it. A post may fail before or after the commit.

### Storefront: state and actions against the code

The n-th submit of checkout k posts `<<k, r, n>>` for every restaurant r of the cart, under the key
`${cartKey}:${restaurantId}`, which is `<<k, r>>`: a key lives as long as the checkout page is mounted.

| actions | code |
|---|---|
| `Edit`, `Browse`, `OpenCheckout`, `Reload` | the customer; a new `CheckoutFlow` has a new key; a reload forgets what it awaits |
| `goNext`, `goBack`, `goTo`, `Stepper` | the steps of `checkout-flow.tsx` |
| `submitOrder` | the button of the last step, up to its `await` |
| `Confirmed`, `Disappointed` | what follows the `await`: `clear()` and the order's page, or the `catch` |
| `Refuse`, `placeCart`, `Placed`, `Rejected` | `POST /api/orders`: 400 or 422, the posts at once, 202 when all have answered, 502 at the first failure |
| `Receive`, `Serve`, `Accept`, `Answered`, `PostFails` | one post in ingestion: `Arrive`, `Insert`, `Commit`, `Duplicate` or `Reply`, `Fail` |

A continuation runs wherever the customer has gone meanwhile: React keeps the closure of a page that
was left, and so does the model. `Disappointed` may come while the server is still at work: that is
an answer that breaks off. `edited` is a history variable.
The contact, address and payment fields are left out: the steps do not look at them.

### Cart and Shop

A cart is the quantity of every dish and a headcount; an operation of the provider is an operator that
returns the cart it leaves behind (`add`, `addBundle`, `setQty`, `increment`, ...). A page is the set of
the carts its buttons lead to, computed from the cart as the page's own code does (`suggestions`,
`pairings`, which lines have a stepper). `Open` is the mount: render with the demonstration cart, read
localStorage, store the demonstration cart; `Rerender` is the render with what was read. `Click` and
`Clear` change a cart and store it over whatever another tab has stored.
Money is in dollars and exact; servings are in halves. `TieLost` names the subtotals whose tax falls
short of a half in floating point. `Shop` adds `guests` and `sel` (configurator) and the browser's
filters; the order of results is left out.

### Tracker and OrderView

`OrderView` is `composeCartView` and its helpers, what the page marks of a status, and what it says in its
headline, its kitchens' pills and its couriers' rows. In `Tracker` a
tick reads each order of the cart on its own (`fetchOrder`), finishes when all are read (`Finish`), and
may be in flight together with others, because the timer does not wait (`Fire`). A read that fails is a
placeholder, shown as placed. `timer = "unset"` until the first tick is over, and `Close` throws before
that, as `clearInterval(timer)` does: the stream then counts as closed, and its timer still starts. `Leave` and `Disconnect` raise the
request's abort event, `Reconnect` is the browser opening the event stream anew.

### Dashboard

A snapshot is told apart by the run of the backend, its `ts` and the downstreams it says are down.
`Read` and `Refresh` are the loop: every source is read on its own, and the snapshot published says what was
read, which may have changed meanwhile; `Answer` and `fetchSnapshot` the first fetch; `onopen`,
`Push`, `onmessage`, `Break`, `Wedge` the stream, which may break off, be refused, or be held up by a proxy with no
error; `Restart` the backend starting anew, with an empty snapshot; `Watchdog` and `ToastTimer` the page's timers; `handle`, `control`, `Answered` a control
button from click to answer; `Elsewhere` another page, or a request whose caller has given up.

## 3. Runs

| run | instance | question | states |
|---|---|---|---|
| `orchestrator_crash` | 1 order, 2 slots, 2 attempts, cancellation, 1 disruption | `NoOrderLost`, `OneClaimPerState`, `TransitionLogIsPath`, `EndTells`, `RedisNeverAhead`, `Implements` (OrderLifecycle) | 1.2 M, by symmetry |
| `orchestrator_faults` | the same without cancellation and disruption; database and publish faults, a late first start | `LossOnlyThroughGaps`; `IndInv`, the invariant the proofs use | 0.6 M, by symmetry |
| `orchestrator_live` | 1 attempt, 1 disruption, FairSpec | `AcceptedOrderFinishes` | 53 k |
| `http_client` | 4 overlapping calls, threshold 2, 2 attempts, FairSpec | `HalfOpenHasProbe`, `ClosedBelowThreshold`, `NoSecondProbe`, `RecoversAfterOutage`, `IndInv` | 48 k |
| `http_client_rate_limit` | 2 calls | violates `RateLimitNeverTrips` | |
| `services` | 2 payment and 2 dispatch requests, 2 orders, one result of a dispatch | `ChargedAtMostOnce`, `PaidBeforeDispatched`, `DispatchedOnce`, `Implements` (IdempotentService) | 248 k, by symmetry |
| `checkout_retry` | 1 checkout with 4 steps and 2 submits, 2 restaurants | `StoreTypeOK`, `AnnouncedIsOrdered`, `TokenNamesOrders`, `ConfirmedAsSubmitted`, `Implements` (IdempotentService) | 349 k, by symmetry |
| `checkout_leave` | 2 checkouts in turn, the first with 2 submits, 1 restaurant, FairSpec | `ClearsOnlyOrdered`, `PlacingEnds` | 183 k |
| `cart` | 2 tabs, 5 dishes of which one is no longer sold, 2 bundles, 3 restaurants, a package | `ShopTypeOK`, `CartKept`, `MoreNeverCheaper`, `BundleCovers`, `EachDishSized` | 243 k |
| `tracker` | 2 orders, 2 ticks in flight, 1 fault, FairSpec | `TypeOK`, `NeverAhead`, `FallsBackOnlyIf`, `ClosesWhenFinished`, `EndIsShown` | 192 k |
| `tracker_leave` | the same | violates `ClosesWhenLeft` | |
| `dashboard` | 1 downstream, 2 buttons, 2 faults, a chart of 1 point, STALE of 0 passes, FairSpec | `TypeOK`, `LiveMeansRecent`, `OnlyFetchGoesBack`, `ToastKeepsItsTime`, `CanBeRestored` | 0.8 M |

A *disruption* is a crash of the orchestrator, a rolled back drain of either relay, or a forced outage
of a service.

**What each says.**
*Pipeline.* `NoOrderLost`: while an accepted order is unfinished, some row or message exists
that will move it on; it relates the tables, the outbox, the queues and the handlers at every moment
between a publish, a commit and an acknowledgement. `LossOnlyThroughGaps`: with all faults possible,
only three places strand an order (section 6). `OneClaimPerState`: advance, cancel and fail have
different op_ids, so the ledger alone does not exclude two of them, the compare-and-set does.
`TransitionLogIsPath`: the log is a path of allowed moves that ends in the order's state and agrees
with the claimed operations. `EndTells`: the services act before the transition that says so, and a command
that comes again may meet a cancellation instead; still no courier is sent for a cancelled order, a failed
one was declined, and a delivered one has been paid, prepared and fetched. `RedisNeverAhead`: skipping on Redis never skips work. `Implements`: a
service acts for an order only at its stage, a stage is passed only with a recorded success, only a
declined payment fails an order.

*Services.* `ChargedAtMostOnce`, `DispatchedOnce` and `Implements`: look-up and insert are two statements with
work between them, and still requests that overlap, fail and come again leave one charge or dispatch, whose outcome
every payer is told. `PaidBeforeDispatched` relates the two tables: nothing is dispatched for an order whose
recorded charge was declined, although two requests for one charge may draw different outcomes and
the loser of the insert could tell its own.

*Checkout.* `TokenNamesOrders` and `ConfirmedAsSubmitted` relate what the customer is told to what
ingestion has committed, with posts of an earlier submit still being served under the same keys.
`ConfirmedAsSubmitted` allows for a cart edited between two submits of one mount, where the kept key is
answered with the earlier order (section 6): what is ordered of a restaurant is always what one of the submits asked of it,
and each restaurant of the submit confirmed has an order. `ClearsOnlyOrdered`: the late `clear()` of a submit
empties only what that submit has ordered, unless the cart was edited meanwhile. `PlacingEnds`: "Placing order..."
comes to an end.

*Cart.* `CartKept`: the mount's two effects store the demonstration cart over the customer's for a
moment; it survives unless the visit was cut short or met another tab. `MoreNeverCheaper`: one tray
more, free delivery and two roundings considered, never lowers the bill. `BundleCovers`, `EachDishSized`: adding a
bundle keeps a full coverage meter full, and a package has enough of every dish for its guests.

*Tracking.* `NeverAhead`: what the page marks as reached, every order on its way has come to, and its headline,
pills and rows say nothing that the orders have not come to.
`FallsBackOnlyIf`: the status shown falls back only to a view with an unreadable order, or one overtaken by a
later tick. `ClosesWhenFinished` and `EndIsShown`: the stream ends with the orders, and in the
end the page shows how each of them has ended, though the stream may close while one is on its way. `ClosesWhenLeft`, the
header's other claim, is refuted (section 6).

*Dashboard.* `LiveMeansRecent`: "live" is at most STALE old or freshly opened, except on a page that
has never had a frame. `OnlyFetchGoesBack`: only the first fetch can put an older
snapshot over a newer one. `ToastKeepsItsTime`: no earlier timer removes a later toast. `CanBeRestored`:
a downstream that stays down gets an enabled Restore button, though it may for a while be shown as up.

**Bounds.**
*Orchestrator.* One order: orders share no row, no op_id and no message, only room in the broker, and the theorems hold for any number of them. Two
slots: a message and its duplicate, or a message and its successor, which is what a publish-then-ack or a
rolled back drain makes of one command. Two attempts: one retry and the DLQ; `orchestrator_live` parks
at once to leave room for a disruption. One disruption at any point: a second one finds the state the
first could have found. `Reserve`, the slots the relays leave free and a crash finds free, keeps the
bounded broker of the liveness runs from filling up: the real one has no such bound, and a
republish that waits for room nobody can make would be an artefact.
*HttpClient.* A probe, two calls that trip the breaker and one to spare. *Services.* A winner and a loser in each service, either of which may then be the
late repeat; what a dispatch answers with is told apart by no property. *Checkout.* Two restaurants: one post fails while the other is accepted. Two submits:
a retry while the first one's posts go on. Two checkouts: an answer for the one that was left. A
quantity of 0 or 1: edited or not. *Cart.* Prices around the free-delivery threshold of 250 and the
rounding of the tax; a headcount of at most 2 (`MaxHeadcount` is 500 in the code) and one or two trays. *Tracker.* Two orders: one
failed or cancelled and one on its way; two ticks: one overtakes the other. `Stage` names the states a read may meet: what
lies between two reads goes unseen. *Dashboard.* `MaxTs` 1: null or not, and a later run; `STALE` 0: the page is stale at
the first pass that finds no frame since the pass before; two faults: a broken stream and one thing more.

**Deadlock** is checked except where the system may stop: an order that is delivered leaves nothing to do
in `Orchestrator`, a customer may leave, and a page may stay as it is.

## 4. Fairness

* `Orchestrator!FairSpec`: handlers, the relays and the broker's timers go on (weak fairness: asyncio
  and the broker do not drop a task). Strong fairness where a step is enabled again and again but not
  continuously: a publish that needs room; the drain loop, which finds all services up only at times;
  a service called again and again, which answers some time, its injected rates being below one.
  `ForceUp` is weakly fair: an outage an operator starts is ended. Nothing is assumed of crashes,
  faults, cancellation or outcomes.
* `HttpClient!FairSpec`: an attempt ends (it has a timeout), cooling passes, and some call is made
  again and again (strong: the breaker refuses calls in between). `RecoversAfterOutage` assumes
  in its own premise that the downstream is healthy from some point on, not that it becomes so.
* `Storefront!FairSpec`: the route's handlers and ingestion do not stop while something is left to do,
  and an answer reaches the browser or breaks off. Nothing is assumed of the customer, nor that a post succeeds.
* `Tracker!FairSpec`: the timer fires, reads return, 2500 ms pass, the browser reconnects (EventSource
  does by itself). Only `MaxFaults` reads and connections fail: a page no read of which ever succeeds shows nothing.
* `Dashboard!FairSpec`: the refresh loop and the generator run (`_safe` and a timeout of 2 s bound every read), the browser
  connects, frames are taken in turn. Nobody has to click, no control request has to be answered, and a stuck
  proxy may stay stuck.

## 5. Proofs

Every theorem is checked by TLAPS for all values of the constants, from the named assumptions of its
module. They say that caps are naturals, that `None` is no value, that the bounds of `Storefront` fit
together (`StorefrontAssumption`), and of the catalogue what its data says (`CartAssumption`,
`PricingAssumption`: finitely many dishes are listed, none cheaper than 32 dollars (`PriceList`), and the delivery
fee is at most 35; `BundleAssumption`: a bundle's trays cover the guests it is made for (`Bundles`);
`ShopAssumption`: the package has a section (`Package`)).

**OrchestratorProofs.** `NoOrderLost` alone is not inductive. `IndInv` adds

* `TypeOK` and `HandlerOK`: what a handler has established by the step it is at (the state it leaves
  is active, the attempt is below the cap where it may still be counted, a step is claimed before it is
  marked done);
* `KnownWasAccepted`: nothing refers to an order that was not accepted;
* `RowsBehind`, `ClaimsBehind`: an outbox row and a claimed operation lie behind the order's state in
  the order of the lifecycle. Without them a command could be enqueued while an earlier copy of the row is marked sent,
  or a step be refused as already claimed in a state that still needs it;
* `LossOnlyThroughGaps`.

`TypeStep`, `HandlerStep`, `KnownStep`, `BehindStep` and `WorkStep` show that each is preserved; the last goes
through the actions by what they do to the row or message that serves the order: keep it, hand it to a
successor, or move the order so that a new row serves it. From `Invariance` follow `TypeCorrect`,
`OrdersKeepTheirWork` (all faults), `StatesAreLeftOnce`, `RedisFollowsPostgres` and `NoOrderIsLost`,
which assumes `BoundAtStart`, no database faults and no publish faults: with these the three gaps are
closed and `mislaid` stays empty.

That the pipeline implements `OrderLifecycle` (`PipelineImplements`) needs two more facts, `LifeInv`: a
handler that is at its call or its commit serves an order that has come to the state its command leads
away from and, if it commits, has a success on record (`KnowsOrder`), and a service that works for an
order has been asked at its stage and has recorded nothing yet (`Admitted`). `OrderStep` sorts the
actions by what they do to the order (nothing, seed it, move it lawfully, record an outcome), and
`StepMaps` maps each kind to a step or a stutter of the lifecycle. `LogIsPath` rests on the same
`LawfulMove`: a move appends one entry that starts where the log ended, and claims one operation that
was not claimed.

`EndsAreTrue` needs to know where an order has been. `StagesOK(o)` says that the services which lead to a
state have succeeded for every order that has been in it, that restaurant and courier have acted only for orders that
have come to their stage, that an order in an early state, a cancelled or a failed one has not been in the later
ones, and that a failed one was declined. `StagesStep` shows it of a move (which adds one state, with the success its
handler holds by `KnowsOrder`) and of a recorded outcome (whose service was asked at its stage, by
`Admitted`). `ServicesInTurn` follows too: no courier is sent for a meal that was not paid for and made.

**HttpClientProofs.** `IndInv` is `TypeOK`, that calls admitted as probes are under way,
`HalfOpenHasProbe` and `ClosedBelowThreshold`. `NoSecondProbe` is an action property and follows in every step from
the flag being set.

**ServicesProofs, FulfillmentProofs, and Ingestion in StorefrontProofs.** The invariants say which request may have
claimed a key and what it knows of the record; `Payment` and `Ingestion` are proved to implement
`IdempotentService` step by step, the claim (or commit) mapping to `Record`, a reply to `Answer` and
everything else to a stutter. What that buys their callers is `CallersAgree` of the abstract module, proved
of its steps and so of both services (`PayersAgree`, `SubmitsAgree`): no two callers of a key, and no two submits of
a checkout, are told different outcomes. `AnswersStand`, that an answer stays what is recorded, makes it inductive.
`ServicesCompose` shows that the services together are a behaviour of each; `OneDispatchPerOrder` takes
the dispatching service's invariant over from an instance of `FulfillmentProofs`. `NothingUnpaidDispatched` then rests on
`ServicesIndInv`: a success that was answered is the success on record (`AnswersStand`), and a record is never
replaced, so whatever is being dispatched is paid and stays so.

**StorefrontProofs.** `StorefrontUsesIngestion` shows that every behaviour of the checkout is one of
`Ingestion`, so its theorems carry over. `StoreInv` adds what the posts carry (`PostInv`: the key and the
cart of their submit; a key is recorded with a post that was sent, and the quantity is that post's; an
answer names what is recorded; an answered call has heard of all its posts) and what the browser holds
(`ClientInv`: submits are counted, a confirmed checkout is not submitted again, and who awaits an answer
has submitted the cart as it is unless it was edited). `TokensName`, `ConfirmedIsSubmitted` (an order is recorded
with the post of a submit no later than the one confirmed) and `ClearsOnly` follow.

**ShopProofs.** `Kept` strengthens `CartKept` (without a race at most one tab is loading and it
holds the only copy), `PageInv` bounds the pages' own state.
Bill and servings are sums over the dishes of a cart, and the library defines a sum by choosing its elements
in some order. The lemma `SumAny` shows that any element may be taken first: where it may not, a least subset with
that defect exists (`LeastSet`, by the size of the subset), and taking away one element of it gives a
smaller one. No induction theorem with an operator parameter is needed. From it follow that sums
add (`SumAdds`) and grow with their terms. `TotalMonotone` is the arithmetic of one dish more, for every subtotal and every
price from 32 dollars on: the delivery fee that falls away at the threshold and two roundings. `BillMonotone` goes from there
to carts, and `MoreCosts` to every button. For `BundlesCover`, a bundle's trays add at least
the guests it is for to both sides of the coverage (`BundleServings`); for `PackagesCover`, `RoundedUp` says
that the trays `qtyFor` counts hold no fewer servings than there are guests.

**TrackerProofs.** `Past(v, s)` says that a read v lies in the past of the state s. What is shown and
what any tick has read is in the past (`PastOnly`), and a tick that none has overtaken has
read nothing older than what is shown (`InOrder`). `PageNeverAhead` and `FallsBackOnly` follow.

**DashboardProofs.** `LiveMeansRecent` and `OnlyFetchGoesBack` are about what the page makes of messages
that are still under way, so neither is inductive. `FaultsNumber` counts what has gone wrong;
`FramesInOrder` says that the frames between backend and page are in the order in which they were
made, none newer than the backend's snapshot and none older than the page's, unless that came with the first fetch. A
refresh under way (`poll`) adds nothing to it: what it publishes is newer than all of them whatever it has read.
With both in `IndInv`,
`LiveIsRecent`, `StreamGoesForward` and `ToastsKeepTheirTime` follow for any number of downstreams, any `STALE`, any
length of the chart and any number of faults.

**Only model-checked**: the liveness properties `AcceptedOrderFinishes`, `RecoversAfterOutage`, `PlacingEnds`,
`ClosesWhenFinished`, `EndIsShown` and `CanBeRestored` (fairness and ENABLED are beyond the prover).
Every safety property of the passing runs is proved.

## 6. Findings and known gaps

`PROJECT.json` lists two findings. **429s open the breaker** (`http_client_rate_limit`), which three documents say they
do not. **A client that leaves early leaves its stream polling** (`tracker_leave`): the header of
`route.ts` says that the stream closes itself when the client disconnects, but before the first tick is over `close()`
throws on its uninitialised timer after setting `closed`; the timer that then starts polls for ever, and every later
`close()` takes the stream for closed.

The properties name the following as exceptions, or leave them open; each is what the code does.

*Pipeline.* `LossOnlyThroughGaps` allows three ways to strand an order, which `NoOrderIsLost` excludes by
its assumptions:

1. `_fault` ends in `nack(requeue=False)` on a queue without a dead-letter exchange: two failed
   publishes drop the command, although `on_advance` says it will "never drop or hot-loop a message".
2. A parked placed event cannot come back: `replay_dlq` publishes whatever it finds as an
   advance command; an `order.placed` event has no `from`, fails and parks again for ever.
3. An order relayed before the orchestrator has ever started: the event matches no queue, and the row is
   stamped as published.

A cancelled order may already have been charged (a redelivered `placed -> confirmed` command can roll a
cancellation); the loser of `fulfill`'s insert answers with a detail of its own (`DispatchedOnce` says nothing of a duplicate's); two probes can be outstanding across two
half-openings, and a late failure of a call admitted long ago restarts the cooling.

*Checkout and cart.* A cart edited after a failed submit and submitted again under the kept key is
answered with the earlier order. The total shown adds fees that `placeCart` never posts. The bundle page
shows an estimated bundle total while the cart charges its dishes one by one. `addBundle` changes lines of the
previous state in an updater, which counts twice where React calls updaters twice (StrictMode in
development); the model has the production build. The late `clear()` of a
submit empties a cart that was edited since (`ClearsOnlyOrdered` excepts it). Two tabs write one cart (`raced`). Free delivery starts
at 250 dollars, where the text says "over".

*Tracking.* The page
reconnects to the stream of a finished order again and again. An order that cannot be read is shown as placed.

*Dashboard.* The answer to the first fetch may put an older snapshot over a frame's (`OnlyFetchGoesBack` excepts it), until
the next frame. A page that never gets a frame stays "live"; an event stream refused with a 502 is closed for
good; a control request the proxy has given up on may still be carried out (`Elsewhere`); "Broker retries
(cumulative)" shows the depth of the retry queue.

## 7. Not modelled

* Undecodable message bodies (`send_raw_to_dlq`): no component publishes one.
* Several relays over one outbox, batches larger than what is there, SKIP LOCKED: `Orchestrator` has one
  relay per service, whose rolled back drains publish a row twice.
* A connection reset with the handler still running: what it adds, a second delivery while the first
  is served, is what the relay's duplicates already do.
* FlakyCore's rate window and the probabilities of its rolls: they are choices.
* The orchestrator's read endpoints and counters, the dashboard's counts, rates and labels, and the event
  consumer behind the rates.
* The form fields of the checkout, the order of lines and results, the wording and the markup of all pages; the mock
  order page, which follows a script and is linked to no order.
* The load generator, a source of orders for demonstrations: what its posts can do, resent keys
  included, is the environment of `Ingestion`.
* Database, configuration, logging, metrics and application helpers: set-up and formatting, with no
  protocol of their own. Deployment: only its order of first starts matters, `FirstStart`.

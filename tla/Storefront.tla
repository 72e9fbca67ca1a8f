----------------------------- MODULE Storefront -----------------------------
(***************************************************************************)
(* The storefront's checkout over ingestion-svc: the checkout page             *)
(* (app/checkout/checkout-flow.tsx) submits the cart under the idempotency     *)
(* key of its mount, POST /api/orders (app/api/orders/route.ts) hands it to    *)
(* placeCart (lib/dr.ts), which posts one order per restaurant at once and      *)
(* answers with a token of their ids, or with 502 at the first failure while    *)
(* the other posts go on unheard.                                               *)
(*                                                                            *)
(* The n-th submit of checkout k posts <<k, r, n>> for restaurant r. The uuid  *)
(* ingestion makes up for a post is the post itself.                            *)
(***************************************************************************)
EXTENDS Ingestion, Naturals

CONSTANTS
    Restaurant,
    Checkout,     \* checkouts mounted in turn, numbered from 1 (bound)
    Call,         \* <<k, n>>: the n-th submit of checkout k may be made (bound)
    LastStep,     \* STEPS.length - 1
    MaxQty        \* quantity of a restaurant's food in the cart (bound)

ASSUME StorefrontAssumption ==
    /\ Checkout \subseteq Nat \ {0}
    /\ LastStep \in Nat /\ MaxQty \in Nat
    /\ Call \subseteq Checkout \X (Nat \ {0})
    /\ \A c \in Call : \A m \in 1..c[2] : <<c[1], m>> \in Call
    /\ Key = Checkout \X Restaurant
    /\ Request = {<<c[1], r, c[2]>> : c \in Call, r \in Restaurant}
    /\ Request \subseteq OrderId

VARIABLES
    page,        \* where the tab is; "shop": the pages that offer dishes to add
    step,        \* of the checkout page
    cart,        \* quantity per restaurant
    checkout,    \* the last checkout mounted; 0: none yet
    tries,       \* submits of each checkout
    waiting,     \* checkouts whose submitOrder awaits its answer
    submitted,   \* the cart posted by each submit
    call,        \* what becomes of a submit in the server
    post,        \* what becomes of the posts to ingestion
    got,         \* the order_id a post was answered with
    ordered,     \* the quantity of the order committed under each key
    confirmed,   \* the submit whose token the customer was sent to; 0: none
    edited       \* history: checkouts awaiting an answer whose cart has changed

pageVars   == <<page, step, cart, checkout>>
clientVars == <<tries, waiting, submitted, confirmed, edited>>
serverVars == <<call, post, got, ordered>>
storeVars  == <<page, step, cart, checkout, tries, waiting, submitted, call, post,
                got, ordered, confirmed, edited>>

Cart      == [Restaurant -> 0..MaxQty]
EmptyCart == [r \in Restaurant |-> 0]

StoreTypeOK ==
    /\ page \in {"shop", "checkout", "order"}
    /\ step \in 0..LastStep
    /\ cart \in Cart
    /\ checkout \in Checkout \cup {0}
    /\ tries \in [Checkout -> Nat]
    /\ waiting \subseteq Checkout
    /\ submitted \in [Call -> Cart]
    /\ call \in [Call -> {"none", "requested", "posting", "answered", "rejected"}]
    /\ post \in [Request -> {"unsent", "sent", "serving", "answered", "failed"}]
    /\ got \in [Request -> OrderId \cup {None}]
    /\ ordered \in [Key -> 0..MaxQty]
    /\ confirmed \in [Checkout -> Nat]
    /\ edited \subseteq Checkout

\* The idempotency key of a post: `${cartKey}:${restaurantId}`.
KeyOf(q)  == <<q[1], q[2]>>
CallOf(q) == <<q[1], q[3]>>
\* What a post orders.
Lines(q)  == submitted[CallOf(q)][q[2]]
\* One post per restaurant of the cart.
Posts(c)  == {q \in Request : CallOf(q) = c /\ Lines(q) > 0}
\* The cart token: each restaurant's order_id.
Token(c)  == [r \in {q[2] : q \in Posts(c)} |-> got[<<c[1], r, c[2]>>]]

StoreInit ==
    /\ Init
    /\ key = [q \in Request |-> KeyOf(q)]
    /\ page = "shop" /\ step = 0
    /\ cart \in Cart
    /\ checkout = 0
    /\ tries = [k \in Checkout |-> 0]
    /\ waiting = {}
    /\ submitted = [c \in Call |-> EmptyCart]
    /\ call = [c \in Call |-> "none"]
    /\ post = [q \in Request |-> "unsent"]
    /\ got = [q \in Request |-> None]
    /\ ordered = [k \in Key |-> 0]
    /\ confirmed = [k \in Checkout |-> 0]
    /\ edited = {}

-----------------------------------------------------------------------------
(* The browser                                                               *)

\* A quantity changes: where dishes are offered (the cart page does too), or in
\* the drawer, which opens over every page and holds the lines of the cart.
Edit(r) ==
    /\ cart[r] > 0 \/ page = "shop"
    /\ \E q \in {0, cart[r] + 1, cart[r] - 1} \cap (0..MaxQty) :
           q # cart[r] /\ cart' = [cart EXCEPT ![r] = q]
    /\ edited' = edited \cup waiting
    /\ UNCHANGED <<page, step, checkout, tries, waiting, submitted, confirmed, serverVars, vars>>

\* The links of the site, open while an order is being placed too. A checkout
\* that is left is unmounted.
Browse(p) ==
    /\ page # p
    /\ page' = p
    /\ step' = 0
    /\ UNCHANGED <<cart, checkout, clientVars, serverVars, vars>>

\* A new CheckoutFlow: a fresh key, the first step.
Mount ==
    /\ checkout + 1 \in Checkout
    /\ checkout' = checkout + 1
    /\ step' = 0

OpenCheckout ==
    /\ page # "checkout"
    /\ page' = "checkout"
    /\ Mount
    /\ UNCHANGED <<cart, clientVars, serverVars, vars>>

\* The tab is loaded anew: whatever awaited an answer is gone, the cart is not.
Reload ==
    /\ waiting' = {}
    /\ IF page = "checkout" THEN Mount ELSE UNCHANGED <<step, checkout>>
    /\ UNCHANGED <<page, cart, tries, submitted, confirmed, edited, serverVars, vars>>

StepTo(i) ==
    /\ page = "checkout"
    /\ step' = i
    /\ UNCHANGED <<page, cart, checkout, clientVars, serverVars, vars>>

\* Mutant: without Math.min.
goNextUnbounded == StepTo(step + 1)

goNext  == step < LastStep /\ StepTo(step + 1)
goBack  == step > 0 /\ StepTo(step - 1)
goTo(i) == step # i /\ StepTo(i)

\* Every step has a button, the later ones too; the review's Edit links add none.
Stepper == \E i \in 0..LastStep : goTo(i)

\* The button of the last step, disabled while placing and when the cart is empty.
CanPlace ==
    /\ page = "checkout" /\ step = LastStep
    /\ checkout \notin waiting
    /\ cart # EmptyCart

submitOrder ==
    /\ CanPlace
    /\ <<checkout, tries[checkout] + 1>> \in Call
    /\ LET c == <<checkout, tries[checkout] + 1>> IN
           /\ submitted' = [submitted EXCEPT ![c] = cart]
           /\ call' = [call EXCEPT ![c] = "requested"]
    /\ tries' = [tries EXCEPT ![checkout] = @ + 1]
    /\ waiting' = waiting \cup {checkout}
    /\ edited' = edited \ {checkout}
    /\ UNCHANGED <<pageVars, confirmed, post, got, ordered, vars>>

\* The answer arrives: the cart is cleared and the tab goes to the order's page,
\* wherever the customer has gone in the meantime.
Confirmed(k) ==
    /\ k \in waiting
    /\ call[<<k, tries[k]>>] = "answered"
    /\ confirmed' = [confirmed EXCEPT ![k] = tries[k]]
    /\ cart' = EmptyCart
    /\ page' = "order" /\ step' = 0
    /\ waiting' = waiting \ {k}
    /\ edited' = edited \cup (waiting \ {k})
    /\ UNCHANGED <<checkout, tries, submitted, serverVars, vars>>

\* Mutant: the cart is cleared in a finally block.
DisappointedClears(k) ==
    /\ k \in waiting
    /\ call[<<k, tries[k]>>] # "none"
    /\ waiting' = waiting \ {k}
    /\ cart' = EmptyCart
    /\ UNCHANGED <<page, step, checkout, tries, submitted, confirmed, edited, serverVars, vars>>

\* Mutant: the catch forgets setPlacing(false).
DisappointedStays(k) ==
    /\ k \in waiting
    /\ UNCHANGED <<storeVars, vars>>

\* submitOrder's catch: the server refuses or rejects, or the answer is lost
\* however far the server has come. The button is back, the key is kept.
Disappointed(k) ==
    /\ k \in waiting
    /\ waiting' = waiting \ {k}
    /\ UNCHANGED <<pageVars, tries, submitted, confirmed, edited, serverVars, vars>>

-----------------------------------------------------------------------------
(* POST /api/orders and placeCart                                            *)

\* 400 or 422: the body does not fit OrderSchema (an e-mail without an @).
Refuse(c) ==
    /\ call[c] = "requested"
    /\ call' = [call EXCEPT ![c] = "rejected"]
    /\ UNCHANGED <<pageVars, clientVars, post, got, ordered, vars>>

placeCart(c) ==
    /\ call[c] = "requested"
    /\ call' = [call EXCEPT ![c] = "posting"]
    /\ post' = [q \in Request |-> IF q \in Posts(c) THEN "sent" ELSE post[q]]
    /\ UNCHANGED <<pageVars, clientVars, got, ordered, vars>>

\* Mutant: Promise.allSettled in place of Promise.all.
PlacedSome(c) ==
    /\ call[c] = "posting"
    /\ \A q \in Posts(c) : post[q] \in {"answered", "failed"}
    /\ call' = [call EXCEPT ![c] = "answered"]
    /\ UNCHANGED <<pageVars, clientVars, post, got, ordered, vars>>

\* 202: every post was answered.
Placed(c) ==
    /\ call[c] = "posting"
    /\ \A q \in Posts(c) : post[q] = "answered"
    /\ call' = [call EXCEPT ![c] = "answered"]
    /\ UNCHANGED <<pageVars, clientVars, post, got, ordered, vars>>

\* 502: one post has failed, the others go on.
Rejected(c) ==
    /\ call[c] = "posting"
    /\ \E q \in Posts(c) : post[q] = "failed"
    /\ call' = [call EXCEPT ![c] = "rejected"]
    /\ UNCHANGED <<pageVars, clientVars, post, got, ordered, vars>>

-----------------------------------------------------------------------------
(* The posts, in ingestion                                                   *)

Receive(q) ==
    /\ post[q] = "sent"
    /\ Arrive(q, KeyOf(q))
    /\ orderId' = [orderId EXCEPT ![q] = q]
    /\ post' = [post EXCEPT ![q] = "serving"]
    /\ UNCHANGED <<pageVars, clientVars, call, got, ordered>>

Serve(q) == Insert(q) /\ UNCHANGED storeVars

\* Mutant: the cart is read again when the order is written.
AcceptEdited(q) ==
    /\ Commit(q)
    /\ ordered' = [ordered EXCEPT ![KeyOf(q)] = cart[q[2]]]
    /\ UNCHANGED <<pageVars, clientVars, call, post, got>>

Accept(q) ==
    /\ Commit(q)
    /\ ordered' = [ordered EXCEPT ![KeyOf(q)] = Lines(q)]
    /\ UNCHANGED <<pageVars, clientVars, call, post, got>>

\* 200 or 202 with the order_id, which may get lost on the way.
Answered(q) ==
    /\ \/ Duplicate(q) /\ got' = [got EXCEPT ![q] = orders[KeyOf(q)]]
       \/ Reply(q) /\ got' = [got EXCEPT ![q] = orderId[q]]
       \/ (Duplicate(q) \/ Reply(q)) /\ UNCHANGED got
    /\ post' = [post EXCEPT ![q] = IF got'[q] = None THEN "failed" ELSE "answered"]
    /\ UNCHANGED <<pageVars, clientVars, call, ordered>>

\* The post is lost, or its handler fails.
PostFails(q) ==
    /\ \/ post[q] = "sent" /\ UNCHANGED vars
       \/ Fail(q)
    /\ post' = [post EXCEPT ![q] = "failed"]
    /\ UNCHANGED <<pageVars, clientVars, call, got, ordered>>

-----------------------------------------------------------------------------
Customer ==
    \/ \E r \in Restaurant : Edit(r)
    \/ \E p \in {"shop", "order"} : Browse(p)
    \/ OpenCheckout \/ Reload
    \/ goNext \/ goBack \/ Stepper \/ submitOrder

Continuation(k) == Confirmed(k) \/ Disappointed(k)
Handler(c)      == Refuse(c) \/ placeCart(c) \/ Placed(c) \/ Rejected(c)
Delivery(q)     == Receive(q) \/ Serve(q) \/ Accept(q) \/ Answered(q) \/ PostFails(q)

StoreNext ==
    \/ Customer
    \/ \E k \in Checkout : Continuation(k)
    \/ \E c \in Call : Handler(c)
    \/ \E q \in Request : Delivery(q)

StoreSpec == StoreInit /\ [][StoreNext]_<<vars, storeVars>>

\* The servers do not stop while something is left to do, and what they answer
\* reaches the browser or breaks off: no submit makes endless steps.
Fairness ==
    /\ WF_<<vars, storeVars>>((\E c \in Call : Handler(c)) \/ (\E q \in Request : Delivery(q)))
    /\ WF_<<vars, storeVars>>(\E c \in Call : /\ c = <<c[1], tries[c[1]]>>
                                              /\ call[c] \in {"answered", "rejected"}
                                              /\ Continuation(c[1]))

FairSpec == StoreSpec /\ Fairness

-----------------------------------------------------------------------------
(* Properties                                                                *)

\* Where the customer is sent, every order the token names is the one recorded
\* under this checkout's key of its restaurant, also when posts were repeated or
\* an earlier submit's are still on their way.
TokenNamesOrders ==
    \A k \in Checkout : confirmed[k] # 0 =>
        \A r \in Restaurant : submitted[<<k, confirmed[k]>>][r] > 0 =>
            /\ Token(<<k, confirmed[k]>>)[r] = orders[<<k, r>>]
            /\ orders[<<k, r>>] # None

\* Every order behind a confirmation is what some submit of this checkout asked of
\* that restaurant, none with a quantity nobody asked for and none doubled, and each
\* restaurant of the submit confirmed has one. The cart may have been edited between
\* the submits: the kept key then answers with what the earlier of them ordered.
ConfirmedAsSubmitted ==
    \A k \in Checkout :
        LET n == confirmed[k] IN
        n # 0 => \A r \in Restaurant :
            \/ ordered[<<k, r>>] = 0 /\ submitted[<<k, n>>][r] = 0
            \/ \E m \in 1..n : /\ submitted[<<k, m>>][r] > 0
                               /\ ordered[<<k, r>>] = submitted[<<k, m>>][r]

\* The end of a submit empties the cart only if the submit is confirmed, and then
\* only of what it has ordered, unless the cart has changed while it was placed.
ClearsOnlyOrdered ==
    [][cart # cart' /\ waiting # waiting' =>
           \E k \in waiting \ waiting' :
               /\ confirmed'[k] # 0
               /\ k \in edited \/ cart = submitted[<<k, confirmed'[k]>>]]_<<vars, storeVars>>

\* "Placing order..." comes to an end: with an answer lost, a post failing, and
\* the retry's insert waiting for the transaction of a post nobody hears any more.
PlacingEnds == \A k \in Checkout : k \in waiting ~> k \notin waiting
=============================================================================

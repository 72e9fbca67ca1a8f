-------------------------------- MODULE Cart --------------------------------
(***************************************************************************)
(* The cart provider (customer-web/src/lib/cart-context.tsx) in the tabs of    *)
(* one browser, which share one localStorage entry, and the buttons that       *)
(* change a cart. Every page can be reached from every other, so a click is     *)
(* one of any page's buttons. A cart is a record of its items and headcount;    *)
(* an operation returns the cart it leaves behind.                             *)
(***************************************************************************)
EXTENDS Pricing

CONSTANTS
    Tab,
    SEED,           \* the demonstration cart
    Bundle,
    dishIds,        \* the dishes of a bundle
    bundleServes,   \* the headcount a bundle is made for
    Popular,        \* the dishes the catalogue calls popular
    rank,           \* place of a dish in [...popularDishes, ...dishes]
    Restaurant, cuisineOf,   \* a dish has the cuisine of its restaurant
    MaxHeadcount,   \* 500
    HeadcountStep,  \* of the stepper: 5
    MaxQty          \* the trays of a dish (bound)

ASSUME CartAssumption ==
    /\ MaxQty \in [Dish -> Nat] /\ HeadcountStep \in Nat \ {0}
    /\ MaxHeadcount \in Nat \ {0}
    /\ SEED \in [items : [Dish -> Nat], headcount : 1..MaxHeadcount]
    /\ \A d \in Dish : SEED.items[d] <= MaxQty[d]
    /\ rank \in [Listed -> Nat] /\ Popular \subseteq Listed
    /\ restaurantOf \in [Listed -> Restaurant]

bundleServings(b) == SumFunctionOnSet(serves, dishIds[b])

\* What the page of a bundle promises: its trays cover the guests it is made for.
Bundles ==
    /\ dishIds \in [Bundle -> SUBSET Listed]
    /\ bundleServes \in [Bundle -> 1..MaxHeadcount]
    /\ \A b \in Bundle : bundleServings(b) >= 2 * bundleServes[b]

ASSUME BundleAssumption == Bundles

CartRecord == [items : [Dish -> Nat], headcount : 1..MaxHeadcount]
NoCart     == [items |-> [d \in Dish |-> 0], headcount |-> 0]

\* The bound of the model.
Bounded(c) == \A d \in Dish : c.items[d] <= MaxQty[d]
OldCart ==
    {c \in [items : [Dish -> UNION {0..MaxQty[d] : d \in Dish}], headcount : 1..MaxHeadcount] :
        Bounded(c)}

-----------------------------------------------------------------------------
(* The operations                                                            *)

\* Mutant: the least headcount is not kept.
clampAbove(n) == IF n > MaxHeadcount THEN MaxHeadcount ELSE n

clamp(n) == IF n < 1 THEN 1 ELSE IF n > MaxHeadcount THEN MaxHeadcount ELSE n

setHeadcount(c, n)      == [c EXCEPT !.headcount = clamp(n)]
bumpHeadcount(c, delta) == [c EXCEPT !.headcount = clamp(@ + delta)]

add(c, d, qty) == IF d \in Listed THEN [c EXCEPT !.items[d] = @ + qty] ELSE c

\* Mutant: a dish the cart has already is set to one tray.
addBundleOver(c, b) ==
    [items     |-> [d \in Dish |-> IF d \in dishIds[b] THEN 1 ELSE c.items[d]],
     headcount |-> IF bundleServes[b] > c.headcount THEN bundleServes[b] ELSE c.headcount]

addBundle(c, b) ==
    [items     |-> [d \in Dish |-> c.items[d] + (IF d \in dishIds[b] THEN 1 ELSE 0)],
     headcount |-> IF bundleServes[b] > c.headcount THEN bundleServes[b] ELSE c.headcount]

setQty(c, d, qty) == [c EXCEPT !.items[d] = IF qty < 0 THEN 0 ELSE qty]
remove(c, d)      == setQty(c, d, 0)
increment(c, d)   == add(c, d, 1)
decrement(c, d)   == setQty(c, d, c.items[d] - 1)

-----------------------------------------------------------------------------
(* The buttons, each as the cart it leads to                                 *)

\* A dish: "Add to bundle", or a stepper once the cart has it.
AddToBundle(c, d) ==
    {add(c, d, 1)} \cup (IF c.items[d] = 0 THEN {} ELSE {decrement(c, d)})

AddBundleButton(c, b) == {addBundle(c, b)}

HeadcountStepper(c) == {bumpHeadcount(c, HeadcountStep), bumpHeadcount(c, -HeadcountStep)}

DishCards(c, S)   == UNION {AddToBundle(c, d) : d \in S}
BundleCards(c, S) == UNION {AddBundleButton(c, b) : b \in S}

\* The first dish of each group in S, and the first n of S.
firstOfEach(S, group) == {d \in S : \A e \in S : group[e] = group[d] => rank[d] <= rank[e]}
firstFew(S, n)        == {d \in S : Cardinality({e \in S : rank[e] < rank[d]}) < n}

\* A line of the cart page.
CartLine(c, d) == {increment(c, d), decrement(c, d), remove(c, d)}

\* One dish of each restaurant the cart has nothing of, at most three of them.
suggestions(c) ==
    firstFew(firstOfEach({d \in Listed : restaurantOf[d] \notin Restaurants(c.items)},
                         restaurantOf), 3)

EmptyBundle(c)  == BundleCards(c, Bundle)
FilledBundle(c) ==
    HeadcountStepper(c)
        \cup (UNION {CartLine(c, d) : d \in Lines(c.items)})
        \cup DishCards(c, suggestions(c))

CartView(c) == IF itemCount(c.items) = 0 THEN EmptyBundle(c) ELSE FilledBundle(c)

\* The drawer.
FloatingCart(c) ==
    IF itemCount(c.items) = 0 THEN {}
    ELSE HeadcountStepper(c) \cup (UNION {{increment(c, d), decrement(c, d)} : d \in Lines(c.items)})

\* A restaurant's page: its menu, and the first popular dish of each other cuisine,
\* at most four of them.
menu(r) == {d \in Listed : restaurantOf[d] = r}

pairings(r) ==
    firstFew(firstOfEach({d \in Popular : cuisineOf[restaurantOf[d]] # cuisineOf[r]},
                         [d \in Listed |-> cuisineOf[restaurantOf[d]]]), 4)

RestaurantPage(c, r) == DishCards(c, menu(r) \cup pairings(r))

\* A bundle's page: its buttons, its dishes one by one, and the other bundles.
BundleDetailPage(c, b) ==
    AddBundleButton(c, b) \cup DishCards(c, dishIds[b]) \cup BundleCards(c, Bundle \ {b})

\* Every theme of the grid can be picked; the featured bundle is one of them.
BundleGrid(c)      == BundleCards(c, Bundle)
BundlesPage(c)     == BundleGrid(c)
HomePage(c)        == HeadcountStepper(c) \cup BundleCards(c, Bundle)
RestaurantsPage(c) == HeadcountStepper(c) \cup DishCards(c, Popular)

\* The pages that offer dishes and bundles, under the navigation bar.
Menus(c) ==
    HeadcountStepper(c) \cup HomePage(c) \cup RestaurantsPage(c) \cup BundlesPage(c)
        \cup (UNION {BundleDetailPage(c, b) : b \in Bundle})
        \cup (UNION {RestaurantPage(c, r) : r \in Restaurant})

Buttons(c) == {n \in CartView(c) \cup FloatingCart(c) \cup Menus(c) : Bounded(n)}

-----------------------------------------------------------------------------
VARIABLES
    phase,     \* of a tab: "closed", "loading": between the effects of the mount and
               \* the render with what they have read, "live"
    cart,      \* what a tab's provider holds
    loaded,    \* what a loading tab has read; NoCart: nothing
    storage,   \* localStorage[STORAGE_KEY]; NoCart: nothing
    last,      \* history: the cart the customer left last; NoCart: none yet
    raced      \* history: a mount was cut short, or met another tab at work

cartVars == <<phase, cart, loaded, storage, last, raced>>

TypeOK ==
    /\ phase \in [Tab -> {"closed", "loading", "live"}]
    /\ cart \in [Tab -> CartRecord]
    /\ loaded \in [Tab -> CartRecord \cup {NoCart}]
    /\ storage \in CartRecord \cup {NoCart}
    /\ last \in CartRecord \cup {NoCart}
    /\ raced \in BOOLEAN

\* The browser comes with no cart, or with one of an earlier day.
Init ==
    /\ phase = [t \in Tab |-> "closed"]
    /\ cart = [t \in Tab |-> SEED]
    /\ loaded = [t \in Tab |-> NoCart]
    /\ storage \in OldCart \cup {NoCart}
    /\ last = storage
    /\ raced = FALSE

loading(t) == phase[t] = "loading"

\* A page is loaded: it is rendered with the demonstration cart, then the mount's
\* two effects read the stored cart and store the one rendered.
Open(t) ==
    /\ phase[t] = "closed"
    /\ phase' = [phase EXCEPT ![t] = "loading"]
    /\ loaded' = [loaded EXCEPT ![t] = storage]
    /\ storage' = SEED
    /\ last' = IF storage = NoCart THEN SEED ELSE last
    /\ raced' = (raced \/ \E u \in Tab : loading(u))
    /\ UNCHANGED cart

\* Mutant: the persist effect has an empty dependency list.
RerenderUnsaved(t) ==
    /\ loading(t)
    /\ phase' = [phase EXCEPT ![t] = "live"]
    /\ loaded' = [loaded EXCEPT ![t] = NoCart]
    /\ cart' = IF loaded[t] = NoCart THEN cart ELSE [cart EXCEPT ![t] = loaded[t]]
    /\ UNCHANGED <<storage, last, raced>>

\* The render with what was read, which is stored again.
Rerender(t) ==
    /\ loading(t)
    /\ phase' = [phase EXCEPT ![t] = "live"]
    /\ loaded' = [loaded EXCEPT ![t] = NoCart]
    /\ IF loaded[t] = NoCart
       THEN UNCHANGED <<cart, storage>>
       ELSE /\ cart' = [cart EXCEPT ![t] = loaded[t]]
            /\ storage' = loaded[t]
    /\ UNCHANGED <<last, raced>>

Close(t) ==
    /\ phase[t] # "closed"
    /\ phase' = [phase EXCEPT ![t] = "closed"]
    /\ loaded' = [loaded EXCEPT ![t] = NoCart]
    /\ cart' = [cart EXCEPT ![t] = SEED]
    /\ raced' = (raced \/ loading(t))
    /\ UNCHANGED <<storage, last>>

\* A changed cart is stored over whatever another tab has left there.
Persist(t, c) ==
    /\ cart' = [cart EXCEPT ![t] = c]
    /\ storage' = c
    /\ last' = c
    /\ raced' = \E u \in Tab : loading(u)

Click(t) ==
    /\ phase[t] = "live"
    /\ \E c \in Buttons(cart[t]) : c # cart[t] /\ Persist(t, c)
    /\ UNCHANGED <<phase, loaded>>

\* clear(), when an order is confirmed.
Clear(t) ==
    /\ phase[t] = "live"
    /\ Persist(t, [cart[t] EXCEPT !.items = [d \in Dish |-> 0]])
    /\ UNCHANGED <<phase, loaded>>

CartNext ==
    \E t \in Tab : Open(t) \/ Rerender(t) \/ Close(t) \/ Click(t) \/ Clear(t)

CartSpec == Init /\ [][CartNext]_cartVars

-----------------------------------------------------------------------------
(* Properties                                                                *)

\* What the customer left last survives every visit, although a mount stores the
\* demonstration cart over it: it is stored or about to be, as long as no mount
\* was cut short or met another tab that writes.
CartKept ==
    ~raced => IF \E t \in Tab : loading(t)
              THEN \E t \in Tab : loading(t) /\ last = IF loaded[t] = NoCart THEN SEED
                                                      ELSE loaded[t]
              ELSE storage = last

\* One tray more never makes the order cheaper, not even the one that takes the
\* subtotal over FREE_DELIVERY_OVER.
MoreNeverCheaper ==
    [][\A t \in Tab : LET before == cart[t].items  after == cart'[t].items IN
           /\ phase[t] = "live"
           /\ \A d \in Dish : after[d] >= before[d]
           => total(subtotal(after)) >= total(subtotal(before))]_cartVars

\* A bundle raises the headcount, but brings the trays for it: a full coverage
\* meter is still full when one is added.
BundleCovers ==
    [][\A t \in Tab, b \in Bundle : LET before == cart[t]  after == cart'[t] IN
           phase[t] = "live" /\ after = addBundle(before, b) /\ covered(before.items, before.headcount)
               => covered(after.items, after.headcount)]_cartVars
=============================================================================

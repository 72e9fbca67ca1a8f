-------------------------------- MODULE Shop --------------------------------
(***************************************************************************)
(* Two pages of the store with a state of their own, over the cart:            *)
(* the package configurator (app/packages/[slug]/configurator.tsx) and the     *)
(* restaurant browser (app/restaurants/restaurants-browser.tsx). The order of   *)
(* the browser's results is left out, and with it the choice of a sort.         *)
(***************************************************************************)
EXTENDS Cart

CONSTANTS
    Explorer,        \* the tab whose pages are modelled, while its cart is the one stored
                     \* and the other tabs are closed (bound)
    Section,         \* of the package
    options,         \* the dishes of a section
    maxSelections,   \* of a section
    minGuests,       \* of the package
    FirstGuests,     \* Math.max(pkg.minGuests, 20)
    Word,            \* searches that are not blank, one per outcome
    matches,         \* the restaurants whose text has the word
    Diet,
    offers           \* the diets a restaurant has a dish for

\* A package of the catalogue: sections of dishes to pick some of.
Package ==
    /\ Section # {} /\ options \in [Section -> SUBSET Listed]
    /\ maxSelections \in [Section -> Nat \ {0}]
    /\ minGuests \in 1..MaxHeadcount

ASSUME ShopAssumption ==
    /\ Explorer \in Tab
    /\ Package /\ FirstGuests \in minGuests..MaxHeadcount
    /\ matches \in [Word -> SUBSET Restaurant]
    /\ offers \in [Restaurant -> SUBSET Diet]

VARIABLES
    page,                    \* "package", "restaurants", or "other"
    guests, sel,             \* of the configurator
    query, cuisine, diets    \* of the browser

shopVars == <<page, guests, sel, query, cuisine, diets>>

Cuisines == {cuisineOf[r] : r \in Restaurant}

ShopTypeOK ==
    /\ TypeOK
    /\ page \in {"package", "restaurants", "other"}
    /\ guests \in minGuests..MaxHeadcount
    /\ sel \in [Section -> SUBSET Listed]
    /\ \A s \in Section : Cardinality(sel[s]) <= maxSelections[s]
    /\ query \in Word \cup {"blank"}
    /\ cuisine \in Cuisines \cup {"all"}
    /\ diets \subseteq Diet

ShopInit ==
    /\ Init
    /\ page = "other"
    /\ guests = FirstGuests /\ sel = [s \in Section |-> {}]
    /\ query = "blank" /\ cuisine = "all" /\ diets = {}

\* A page is opened with a state of its own; a link may name a cuisine.
GoTo(p) ==
    /\ page' = p
    /\ guests' = FirstGuests /\ sel' = [s \in Section |-> {}]
    /\ query' = "blank" /\ diets' = {}
    /\ cuisine' \in IF p = "restaurants" THEN Cuisines \cup {"all"} ELSE {"all"}

Alone ==
    /\ phase[Explorer] = "live" /\ storage = cart[Explorer]
    /\ \A t \in Tab \ {Explorer} : phase[t] = "closed"

Visit(p) == Alone /\ page # p /\ GoTo(p) /\ UNCHANGED cartVars

-----------------------------------------------------------------------------
(* The configurator                                                          *)

Configuring == page = "package" /\ UNCHANGED <<page, query, cuisine, diets>>

setGuestCount(n) ==
    /\ Configuring
    /\ guests' = IF n < minGuests THEN minGuests ELSE IF n > MaxHeadcount THEN MaxHeadcount ELSE n
    /\ UNCHANGED <<sel, cartVars>>

toggle(s, d) ==
    /\ Configuring
    /\ sel' = [sel EXCEPT ![s] = IF d \in @ THEN @ \ {d}
                                 ELSE IF maxSelections[s] = 1 THEN {d}
                                 ELSE IF Cardinality(@) < maxSelections[s] THEN @ \cup {d} ELSE @]
    /\ UNCHANGED <<guests, cartVars>>

chosen == UNION {sel[s] : s \in Section}
valid  == \A s \in Section : sel[s] # {}

\* Mutant: Math.round in place of Math.ceil.
QtyRounded(d) == (4 * guests + serves[d]) \div (2 * serves[d])

\* Math.max(1, Math.ceil(guests / servesAvg(dish.serves)))
qtyFor(d) == (2 * guests + serves[d] - 1) \div serves[d]

addToBundle ==
    /\ page = "package" /\ valid
    /\ LET sized == [d \in Dish |-> IF d \in chosen THEN qtyFor(d) ELSE 0]
           c     == [setHeadcount(cart[Explorer], guests) EXCEPT
                         !.items = [d \in Dish |-> @[d] + sized[d]]]
       IN  Bounded(c) /\ Persist(Explorer, c)
    /\ GoTo("other")
    /\ UNCHANGED <<phase, loaded>>

-----------------------------------------------------------------------------
(* The browser                                                               *)

hasFilters == query # "blank" \/ cuisine # "all" \/ diets # {}

results ==
    {r \in Restaurant : /\ cuisine \in {"all", cuisineOf[r]}
                        /\ query # "blank" => r \in matches[query]
                        /\ diets \subseteq offers[r]}

Browsing == page = "restaurants" /\ UNCHANGED <<page, guests, sel, cartVars>>

setQuery(w)   == Browsing /\ query' = w /\ UNCHANGED <<cuisine, diets>>
setCuisine(c) == Browsing /\ cuisine' = (IF cuisine = c THEN "all" ELSE c) /\ UNCHANGED <<query, diets>>
toggleDiet(d) ==
    /\ Browsing
    /\ diets' = (IF d \in diets THEN diets \ {d} ELSE diets \cup {d})
    /\ UNCHANGED <<query, cuisine>>

\* "Clear all", and "Reset filters" of the page without a match.
reset ==
    /\ Browsing /\ (hasFilters \/ results = {})
    /\ query' = "blank" /\ cuisine' = "all" /\ diets' = {}

-----------------------------------------------------------------------------
\* On other pages every button may be there. The configurator offers no dish but its
\* own, the browser the popular ones, under the drawer and the stepper of all pages.
Offered(c) ==
    IF page = "package" THEN FloatingCart(c) \cup HeadcountStepper(c)
    ELSE FloatingCart(c) \cup RestaurantsPage(c)

Elsewhere(t) == page = "other" /\ (Open(t) \/ Rerender(t) \/ Close(t) \/ Click(t) \/ Clear(t))
Here ==
    \/ /\ Open(Explorer) \/ Rerender(Explorer) \/ Click(Explorer)
       /\ page # "other" =>
              cart'[Explorer] \in {cart[Explorer], loaded[Explorer]} \cup Offered(cart[Explorer])
       /\ UNCHANGED shopVars
    \/ (Close(Explorer) \/ Clear(Explorer)) /\ GoTo("other")

ShopNext ==
    \/ Here
    \/ \E t \in Tab \ {Explorer} : Elsewhere(t) /\ UNCHANGED shopVars
    \/ \E p \in {"package", "restaurants", "other"} : Visit(p)
    \/ \E n \in {guests + HeadcountStep, guests - HeadcountStep} : setGuestCount(n)
    \/ \E s \in Section : \E d \in options[s] : toggle(s, d)
    \/ addToBundle
    \/ \E w \in Word \cup {"blank"} : setQuery(w)
    \/ \E c \in Cuisines \cup {"all"} : setCuisine(c)
    \/ \E d \in Diet : toggleDiet(d)
    \/ reset

ShopSpec == ShopInit /\ [][ShopNext]_<<cartVars, shopVars>>

-----------------------------------------------------------------------------
(* Properties                                                                *)

\* The page's promise (configurator.tsx:100), "We size each dish to cover your
\* headcount": the cart that a package leads to has enough of every dish chosen
\* for its headcount, and its coverage meter is full.
EachDishSized ==
    [][addToBundle => LET c == cart'[Explorer] IN
           /\ \A d \in chosen : serves[d] * c.items[d] >= 2 * c.headcount
           /\ covered(c.items, c.headcount)]_<<cartVars, shopVars>>
=============================================================================

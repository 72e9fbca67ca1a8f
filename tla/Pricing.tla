------------------------------- MODULE Pricing ------------------------------
(***************************************************************************)
(* What the cart provider derives from its items                              *)
(* (customer-web/src/lib/cart-context.tsx): the bill, in dollars, and the      *)
(* servings, in halves (a dish serves the middle of a range). A cart is the    *)
(* quantity of every dish; the order of its lines is left out.                 *)
(***************************************************************************)
EXTENDS Integers, FiniteSetsExt

CONSTANTS
    Dish,           \* every dish a stored cart may name
    Listed,         \* the dishes of the catalogue (dishMap)
    restaurantOf,   \* of a listed dish
    price,          \* in dollars
    serves,         \* of a dish, in halves: the two ends of its range added up
    FREE_DELIVERY_OVER, DELIVERY_FEE,
    TieLost         \* subtotals whose tax ends in .5 and whose floating-point product
                    \* falls short of it (360, 680, 1320, ...)

\* The price list (dishes). Its cheapest dish is at 34; from 32 on, the delivery fee
\* saved by one dish more is less than that dish with its own fee and tax.
PriceList ==
    /\ price \in [Listed -> Nat] /\ serves \in [Listed -> Nat \ {0}]
    /\ \A d \in Listed : price[d] >= 32

ASSUME PricingAssumption ==
    /\ Listed \subseteq Dish /\ IsFiniteSet(Listed)
    /\ PriceList
    /\ FREE_DELIVERY_OVER \in Nat /\ DELIVERY_FEE \in 0..35

\* The lines of the cart; what the catalogue does not list is not among them.
Lines(items)       == {d \in Listed : items[d] > 0}
Restaurants(items) == {restaurantOf[d] : d \in Lines(items)}

\* The sums go over the lines, each with its price and its servings times its trays.
Priced(items)  == [d \in Listed |-> price[d] * items[d]]
Serving(items) == [d \in Listed |-> serves[d] * items[d]]

itemCount(items)     == SumFunctionOnSet(items, Lines(items))
subtotal(items)      == SumFunctionOnSet(Priced(items), Lines(items))
totalServings(items) == SumFunctionOnSet(Serving(items), Lines(items))

\* Mutant: a fee that a dish over the threshold does not make up for.
SteepDeliveryFee(s) == IF s = 0 \/ s >= FREE_DELIVERY_OVER THEN 0 ELSE 2 * DELIVERY_FEE

deliveryFee(s) == IF s = 0 \/ s >= FREE_DELIVERY_OVER THEN 0 ELSE DELIVERY_FEE

\* Math.round(s * 0.07), Math.round(s * 0.0875)
serviceFee(s) == (14 * s + 100) \div 200
tax(s)        == ((14 * s + 80) \div 160) - (IF s \in TieLost /\ s % 80 = 40 THEN 1 ELSE 0)

total(s) == s + deliveryFee(s) + serviceFee(s) + tax(s)

\* The coverage meter is full.
covered(items, headcount) == totalServings(items) >= 2 * headcount
=============================================================================

----------------------------- MODULE ShopProofs -----------------------------
(***************************************************************************)
(* Proofs about Pricing, Cart and Shop: sums over the lines of a cart, the     *)
(* bill that never falls as a cart grows, the servings that bundles and         *)
(* packages bring, the customer's cart that survives every visit that meets no  *)
(* other, and the sections of a package that are never overfull.                *)
(***************************************************************************)
EXTENDS Shop, FiniteSetTheorems, TLAPS

-----------------------------------------------------------------------------
(* Sums over a finite set                                                    *)
(*                                                                           *)
(* A sum takes its elements in an order nobody knows. What follows shows     *)
(* that it may be taken in any: the bill and the servings of a cart are      *)
(* reasoned about one dish at a time.                                        *)

\* Of some subsets of a finite set, one has no other of them within it.
LEMMA LeastSet ==
    ASSUME NEW S, IsFiniteSet(S), NEW C \in SUBSET SUBSET S, C # {}
    PROVE  \E T \in C : \A U \in C : U \subseteq T => U = T
<1>1. IsWellFoundedOn(StrictSubsetOrdering(S), SUBSET S)
  BY FS_FiniteSubsetsOfFinite, FS_StrictSubsetOrderingWellFounded
<1>2. PICK T \in C : \A U \in C : <<U, T>> \notin StrictSubsetOrdering(S)
  BY <1>1, WFMin
<1>3. QED
  BY <1>2 DEF StrictSubsetOrdering

\* The element a sum takes next, and the sums of all subsets of S.
NextTaken(T) == CHOOSE x \in T : TRUE
Sums(sum, w, S) ==
    sum = [T \in SUBSET S |-> IF T = {} THEN 0 ELSE w[NextTaken(T)] + sum[T \ {NextTaken(T)}]]

LEMMA Taken == ASSUME NEW T, T # {} PROVE NextTaken(T) \in T
BY DEF NextTaken

\* There is one such function at most.
LEMMA SumsAgree ==
    ASSUME NEW S, IsFiniteSet(S), NEW w, NEW f, NEW g, Sums(f, w, S), Sums(g, w, S)
    PROVE  f = g
<1> DEFINE Differ == {T \in SUBSET S : f[T] # g[T]}
<1>1. ASSUME Differ # {} PROVE FALSE
  <2>1. PICK T \in Differ : \A U \in Differ : U \subseteq T => U = T
    <3> HIDE DEF Differ
    <3>1. Differ \in SUBSET SUBSET S
      BY DEF Differ
    <3>2. QED
      BY <1>1, <3>1, LeastSet
  <2>2. T # {}
    BY <2>1 DEF Sums
  <2>3. T \ {NextTaken(T)} \notin Differ /\ T \ {NextTaken(T)} \in SUBSET S
    BY <2>1, <2>2, Taken
  <2>4. f[T] = w[NextTaken(T)] + f[T \ {NextTaken(T)}] /\ g[T] = w[NextTaken(T)] + g[T \ {NextTaken(T)}]
    BY <2>1, <2>2 DEF Sums
  <2>5. QED
    BY <2>1, <2>3, <2>4
<1>2. \A T \in SUBSET S : f[T] = g[T]
  BY <1>1
<1>3. QED
  BY <1>2 DEF Sums

\* Within a smaller set the sums are the same.
LEMMA SumsWithin ==
    ASSUME NEW S, NEW w, NEW f, Sums(f, w, S), NEW V \in SUBSET S
    PROVE  Sums([T \in SUBSET V |-> f[T]], w, V)
<1> DEFINE g == [T \in SUBSET V |-> f[T]]
<1>1. ASSUME NEW T \in SUBSET V
      PROVE  g[T] = IF T = {} THEN 0 ELSE w[NextTaken(T)] + g[T \ {NextTaken(T)}]
  <2>1. f[T] = IF T = {} THEN 0 ELSE w[NextTaken(T)] + f[T \ {NextTaken(T)}]
    BY DEF Sums
  <2>2. T \ {NextTaken(T)} \in SUBSET V
    OBVIOUS
  <2>3. QED
    BY <2>1, <2>2
<1>2. QED
  BY <1>1 DEF Sums

\* There is one: a least subset without would have its sums made from those of the
\* subsets below it.
LEMMA SumsExist ==
    ASSUME NEW S, IsFiniteSet(S), NEW w
    PROVE  \E f : Sums(f, w, S)
<1> DEFINE Without == {T \in SUBSET S : \A f : ~Sums(f, w, T)}
           below(T) == CHOOSE f : Sums(f, w, T)
<1>1. ASSUME Without # {} PROVE FALSE
  <2>1. PICK T \in Without : \A U \in Without : U \subseteq T => U = T
    <3> HIDE DEF Without
    <3>1. Without \in SUBSET SUBSET S
      BY DEF Without
    <3>2. QED
      BY <1>1, <3>1, LeastSet
  <2>2. ASSUME NEW V \in SUBSET T, V # T PROVE Sums(below(V), w, V)
    <3>1. V \notin Without /\ V \in SUBSET S
      BY <2>1, <2>2
    <3>2. \E f : Sums(f, w, V)
      BY <3>1
    <3>3. QED
      BY <3>2
  <2> DEFINE rest(V) == V \ {NextTaken(V)}
             made == [V \in SUBSET T |-> IF V = {} THEN 0 ELSE w[NextTaken(V)] + below(rest(V))[rest(V)]]
  <2> HIDE DEF below
  <2>3. ASSUME NEW V \in SUBSET T, V # T PROVE made[V] = below(V)[V]
    <3>1. Sums(below(V), w, V)
      BY <2>2, <2>3
    <3>2. below(V)[V] = IF V = {} THEN 0 ELSE w[NextTaken(V)] + below(V)[rest(V)]
      BY <3>1 DEF Sums
    <3>3. CASE V = {}
      BY <3>2, <3>3
    <3>4. CASE V # {}
      <4>1. rest(V) \in SUBSET V /\ rest(V) \in SUBSET T /\ rest(V) # T
        BY <2>3, <3>4, Taken
      <4>2. Sums([U \in SUBSET rest(V) |-> below(V)[U]], w, rest(V))
        BY <3>1, <4>1, SumsWithin
      <4>3. Sums(below(rest(V)), w, rest(V))
        BY <2>2, <4>1
      <4>4. IsFiniteSet(rest(V))
        BY <2>1, <4>1, FS_Subset
      <4>5. [U \in SUBSET rest(V) |-> below(V)[U]] = below(rest(V))
        BY <4>2, <4>3, <4>4, SumsAgree
      <4>6. below(V)[rest(V)] = below(rest(V))[rest(V)]
        <5>1. [U \in SUBSET rest(V) |-> below(V)[U]][rest(V)] = below(V)[rest(V)]
          OBVIOUS
        <5>2. QED
          BY <4>5, <5>1
      <4>7. QED
        BY <3>2, <3>4, <4>6
    <3>5. QED
      BY <3>3, <3>4
  <2>4. ASSUME NEW V \in SUBSET T
        PROVE  made[V] = IF V = {} THEN 0 ELSE w[NextTaken(V)] + made[rest(V)]
    <3>1. CASE V = {}
      BY <3>1
    <3>2. CASE V # {}
      <4>1. rest(V) \in SUBSET T /\ rest(V) # T
        BY <3>2, Taken
      <4>2. made[rest(V)] = below(rest(V))[rest(V)]
        BY <2>3, <4>1
      <4>3. made[V] = w[NextTaken(V)] + below(rest(V))[rest(V)]
        BY <3>2
      <4>4. QED
        BY <3>2, <4>2, <4>3
    <3>3. QED
      BY <3>1, <3>2
  <2>5. Sums(made, w, T)
    <3>1. made = [V \in SUBSET T |-> IF V = {} THEN 0 ELSE w[NextTaken(V)] + made[rest(V)]]
      BY <2>4
    <3>2. QED
      BY <3>1 DEF Sums
  <2>6. QED
    BY <2>1, <2>5
<1>2. S \in SUBSET S /\ S \notin Without
  BY <1>1
<1>3. QED
  BY <1>2

LEMMA SumIsSums ==
    ASSUME NEW w, NEW S
    PROVE  SumFunctionOnSet(w, S) = (CHOOSE sum : Sums(sum, w, S))[S]
BY DEF SumFunctionOnSet, FoldFunctionOnSet, MapThenFoldSet, Sums, NextTaken

\* A sum is its next element and the sum of the rest.
LEMMA SumNext ==
    ASSUME NEW S, IsFiniteSet(S), NEW w
    PROVE  SumFunctionOnSet(w, S) =
               IF S = {} THEN 0 ELSE w[NextTaken(S)] + SumFunctionOnSet(w, S \ {NextTaken(S)})
<1> DEFINE sums(V) == CHOOSE f : Sums(f, w, V)
           rest == S \ {NextTaken(S)}
<1>1. IsFiniteSet(rest) /\ rest \in SUBSET S
  BY FS_Subset
<1>2. Sums(sums(S), w, S) /\ Sums(sums(rest), w, rest)
  <2>1. (\E f : Sums(f, w, S)) /\ \E f : Sums(f, w, rest)
    <3> HIDE DEF rest
    <3>1. QED
      BY <1>1, SumsExist
  <2>2. QED
    BY <2>1
<1>3. SumFunctionOnSet(w, S) = sums(S)[S] /\ SumFunctionOnSet(w, rest) = sums(rest)[rest]
  BY SumIsSums
<1> HIDE DEF sums, rest
<1>4. [V \in SUBSET rest |-> sums(S)[V]] = sums(rest)
  <2>1. Sums([V \in SUBSET rest |-> sums(S)[V]], w, rest)
    BY <1>1, <1>2, SumsWithin
  <2>2. QED
    BY <1>1, <1>2, <2>1, SumsAgree
<1>5. sums(S)[rest] = sums(rest)[rest]
  <2>1. [V \in SUBSET rest |-> sums(S)[V]][rest] = sums(S)[rest]
    OBVIOUS
  <2>2. QED
    BY <1>4, <2>1
<1>6. sums(S)[S] = IF S = {} THEN 0 ELSE w[NextTaken(S)] + sums(S)[rest]
  BY <1>2 DEF Sums, rest
<1>7. QED
  BY <1>3, <1>5, <1>6 DEF rest

\* It is a number if its elements are.
LEMMA SumType ==
    ASSUME NEW S, IsFiniteSet(S), NEW w, \A x \in S : w[x] \in Nat
    PROVE  SumFunctionOnSet(w, S) \in Nat
<1> DEFINE Odd == {T \in SUBSET S : SumFunctionOnSet(w, T) \notin Nat}
<1>1. ASSUME Odd # {} PROVE FALSE
  <2>1. PICK T \in Odd : \A U \in Odd : U \subseteq T => U = T
    <3> HIDE DEF Odd
    <3>1. Odd \in SUBSET SUBSET S
      BY DEF Odd
    <3>2. QED
      BY <1>1, <3>1, LeastSet
  <2>2. IsFiniteSet(T)
    BY <2>1, FS_Subset
  <2>3. T # {}
    <3>1. ASSUME T = {} PROVE SumFunctionOnSet(w, T) = 0
      BY <2>2, <3>1, SumNext
    <3>2. QED
      BY <2>1, <3>1
  <2>4. NextTaken(T) \in T /\ w[NextTaken(T)] \in Nat
    BY <2>1, <2>3, Taken
  <2>5. SumFunctionOnSet(w, T \ {NextTaken(T)}) \in Nat
    BY <2>1, <2>4
  <2>6. SumFunctionOnSet(w, T) = w[NextTaken(T)] + SumFunctionOnSet(w, T \ {NextTaken(T)})
    BY <2>2, <2>3, SumNext
  <2>7. QED
    BY <2>1, <2>4, <2>5, <2>6
<1>2. S \in SUBSET S /\ S \notin Odd
  BY <1>1
<1>3. QED
  BY <1>2

\* Any element may be taken first.
LEMMA SumAny ==
    ASSUME NEW S, IsFiniteSet(S), NEW w, \A x \in S : w[x] \in Nat, NEW y \in S
    PROVE  SumFunctionOnSet(w, S) = w[y] + SumFunctionOnSet(w, S \ {y})
<1> DEFINE sum(T) == SumFunctionOnSet(w, T)
           Odd == {T \in SUBSET S : \E z \in T : sum(T) # w[z] + sum(T \ {z})}
<1>0. ASSUME NEW T \in SUBSET S PROVE IsFiniteSet(T) /\ sum(T) \in Nat
  <2>1. IsFiniteSet(T) /\ \A x \in T : w[x] \in Nat
    BY FS_Subset
  <2>2. QED
    BY <2>1, SumType
<1>1. ASSUME Odd # {} PROVE FALSE
  <2>1. PICK T \in Odd : \A U \in Odd : U \subseteq T => U = T
    <3> HIDE DEF Odd
    <3>1. Odd \in SUBSET SUBSET S
      BY DEF Odd
    <3>2. QED
      BY <1>1, <3>1, LeastSet
  <2>2. PICK z \in T : sum(T) # w[z] + sum(T \ {z})
    BY <2>1
  <2> DEFINE p == NextTaken(T)
  <2>3. p \in T /\ sum(T) = w[p] + sum(T \ {p})
    BY <1>0, <2>1, <2>2, Taken, SumNext
  <2> HIDE DEF p, sum
  <2>4. p # z
    BY <2>2, <2>3
  <2>5. sum(T \ {p}) = w[z] + sum((T \ {p}) \ {z})
    <3>1. T \ {p} \in SUBSET S /\ T \ {p} \notin Odd /\ z \in T \ {p}
      BY <2>1, <2>2, <2>3, <2>4
    <3>2. QED
      BY <3>1
  <2>6. sum(T \ {z}) = w[p] + sum((T \ {z}) \ {p})
    <3>1. T \ {z} \in SUBSET S /\ T \ {z} \notin Odd /\ p \in T \ {z}
      BY <2>1, <2>2, <2>3, <2>4
    <3>2. QED
      BY <3>1
  <2>7. (T \ {z}) \ {p} = (T \ {p}) \ {z} /\ (T \ {p}) \ {z} \in SUBSET S
    BY <2>1
  <2>8. sum((T \ {p}) \ {z}) \in Nat /\ w[p] \in Nat /\ w[z] \in Nat
    BY <1>0, <2>1, <2>2, <2>3, <2>7
  <2>9. sum(T) = w[p] + (w[z] + sum((T \ {p}) \ {z})) /\ sum(T \ {z}) = w[p] + sum((T \ {p}) \ {z})
    BY <2>3, <2>5, <2>6, <2>7
  <2>10. QED
    BY <2>2, <2>8, <2>9
<1>2. S \in SUBSET S /\ S \notin Odd
  BY <1>1
<1>3. QED
  BY <1>2

\* Two sums at once: elements that differ by those of a third.
LEMMA SumAdds ==
    ASSUME NEW S, IsFiniteSet(S), NEW u, NEW v, NEW w,
           \A x \in S : u[x] \in Nat /\ v[x] \in Nat /\ w[x] = u[x] + v[x]
    PROVE  /\ SumFunctionOnSet(w, S) = SumFunctionOnSet(u, S) + SumFunctionOnSet(v, S)
           /\ SumFunctionOnSet(u, S) \in Nat /\ SumFunctionOnSet(v, S) \in Nat
<1> DEFINE sum(f, T) == SumFunctionOnSet(f, T)
           Odd == {T \in SUBSET S : sum(w, T) # sum(u, T) + sum(v, T)}
<1>0. ASSUME NEW T \in SUBSET S
      PROVE  IsFiniteSet(T) /\ sum(u, T) \in Nat /\ sum(v, T) \in Nat
  <2>1. IsFiniteSet(T) /\ \A x \in T : u[x] \in Nat /\ v[x] \in Nat
    BY FS_Subset
  <2>2. QED
    BY <2>1, SumType
<1>1. ASSUME Odd # {} PROVE FALSE
  <2>1. PICK T \in Odd : \A U \in Odd : U \subseteq T => U = T
    <3> HIDE DEF Odd
    <3>1. Odd \in SUBSET SUBSET S
      BY DEF Odd
    <3>2. QED
      BY <1>1, <3>1, LeastSet
  <2> DEFINE p == NextTaken(T)
             rest == T \ {p}
  <2>2. T # {}
    <3>1. ASSUME T = {} PROVE sum(w, T) = 0 /\ sum(u, T) = 0 /\ sum(v, T) = 0
      BY <1>0, <3>1, SumNext
    <3>2. QED
      BY <2>1, <3>1
  <2>3. /\ sum(w, T) = w[p] + sum(w, rest) /\ sum(u, T) = u[p] + sum(u, rest)
        /\ sum(v, T) = v[p] + sum(v, rest)
    BY <1>0, <2>1, <2>2, SumNext
  <2>4. p \in S /\ rest \in SUBSET S /\ rest \notin Odd
    BY <2>1, <2>2, Taken
  <2>5. sum(w, rest) = sum(u, rest) + sum(v, rest)
    BY <2>4
  <2>6. /\ u[p] \in Nat /\ v[p] \in Nat /\ w[p] = u[p] + v[p]
        /\ sum(u, rest) \in Nat /\ sum(v, rest) \in Nat
    BY <1>0, <2>4
  <2> HIDE DEF p, rest, sum
  <2>7. sum(w, T) = sum(u, T) + sum(v, T)
    BY <2>3, <2>5, <2>6
  <2>8. QED
    BY <2>1, <2>7
<1>2. S \in SUBSET S /\ S \notin Odd
  BY <1>1
<1>3. QED
  BY <1>0, <1>2

\* Elements that are not 0 make a sum as large as each of them.
LEMMA SumAtLeast ==
    ASSUME NEW S, IsFiniteSet(S), NEW w, \A x \in S : w[x] \in Nat, NEW y \in S
    PROVE  SumFunctionOnSet(w, S) \in Nat /\ SumFunctionOnSet(w, S) >= w[y]
<1>1. IsFiniteSet(S \ {y})
  BY FS_Subset
<1>2. SumFunctionOnSet(w, S \ {y}) \in Nat /\ SumFunctionOnSet(w, S) \in Nat
  BY <1>1, SumType
<1>3. QED
  BY <1>2, SumAny

\* What is 0 may be left out.
LEMMA SumWithoutZeros ==
    ASSUME NEW S, IsFiniteSet(S), NEW w, \A x \in S : w[x] \in Nat,
           NEW L \in SUBSET S, \A x \in S \ L : w[x] = 0
    PROVE  SumFunctionOnSet(w, S) = SumFunctionOnSet(w, L)
<1> DEFINE sum(T) == SumFunctionOnSet(w, T)
           Odd == {T \in SUBSET S : L \subseteq T /\ sum(T) # sum(L)}
<1>1. ASSUME Odd # {} PROVE FALSE
  <2>1. PICK T \in Odd : \A U \in Odd : U \subseteq T => U = T
    <3> HIDE DEF Odd
    <3>1. Odd \in SUBSET SUBSET S
      BY DEF Odd
    <3>2. QED
      BY <1>1, <3>1, LeastSet
  <2>2. PICK z \in T : z \notin L
    <3>1. T # L /\ L \subseteq T
      BY <2>1
    <3>2. QED
      BY <3>1
  <2>3. sum(T) = w[z] + sum(T \ {z}) /\ w[z] = 0
    <3>1. IsFiniteSet(T) /\ \A x \in T : w[x] \in Nat
      BY <2>1, FS_Subset
    <3>2. QED
      BY <2>1, <2>2, <3>1, SumAny
  <2>4. sum(T \ {z}) = sum(L) /\ sum(L) \in Nat
    <3>1. IsFiniteSet(L) /\ \A x \in L : w[x] \in Nat
      BY FS_Subset
    <3>2. QED
      BY <2>1, <2>2, <3>1, SumType
  <2>5. QED
    BY <2>1, <2>3, <2>4
<1>2. S \in SUBSET S /\ S \notin Odd
  BY <1>1
<1>3. QED
  BY <1>2

\* Sums of the same elements are the same.
LEMMA SumSame ==
    ASSUME NEW S, IsFiniteSet(S), NEW u, NEW w, \A x \in S : u[x] \in Nat /\ w[x] = u[x]
    PROVE  SumFunctionOnSet(w, S) = SumFunctionOnSet(u, S)
<1> DEFINE zero == [x \in S |-> 0]
<1>1. SumFunctionOnSet(zero, S) = 0
  <2>1. IsFiniteSet({}) /\ SumFunctionOnSet(zero, {}) = 0
    BY FS_EmptySet, SumNext
  <2>2. SumFunctionOnSet(zero, S) = SumFunctionOnSet(zero, {})
    BY SumWithoutZeros
  <2>3. QED
    BY <2>1, <2>2
<1>2. \A x \in S : u[x] \in Nat /\ zero[x] \in Nat /\ w[x] = u[x] + zero[x]
  OBVIOUS
<1> HIDE DEF zero
<1>3. QED
  BY <1>1, <1>2, SumAdds

-----------------------------------------------------------------------------
(* The bill                                                                  *)

LEMMA ServiceFeeBounds ==
    ASSUME NEW s \in Int
    PROVE  /\ serviceFee(s) \in Int
           /\ 200 * serviceFee(s) =< 14 * s + 100
           /\ 14 * s - 99 =< 200 * serviceFee(s)
BY DEF serviceFee

LEMMA TaxBounds ==
    ASSUME NEW s \in Nat
    PROVE  /\ tax(s) \in Int
           /\ 160 * tax(s) =< 14 * s + 80
           /\ 14 * s - 80 =< 160 * tax(s)
BY DEF tax

\* The bill of a subtotal is not more than that of the subtotal with one more dish
\* of any price on the list, free delivery and every rounding considered.
THEOREM TotalMonotone ==
    ASSUME NEW s \in Nat, NEW p \in Nat, p >= 32
    PROVE  total(s + p) >= total(s)
<1>1. /\ s + p \in Nat
      /\ deliveryFee(s) \in 0..35 /\ deliveryFee(s + p) \in 0..35
  BY PricingAssumption DEF deliveryFee
<1>2. /\ serviceFee(s) \in Int /\ serviceFee(s + p) \in Int
      /\ 200 * (serviceFee(s + p) - serviceFee(s)) >= 14 * p - 199
  <2>1. /\ serviceFee(s) \in Int
        /\ 200 * serviceFee(s) =< 14 * s + 100
    BY ServiceFeeBounds
  <2>2. /\ serviceFee(s + p) \in Int
        /\ 14 * (s + p) - 99 =< 200 * serviceFee(s + p)
    BY <1>1, ServiceFeeBounds
  <2>3. QED
    BY <2>1, <2>2
<1>3. /\ tax(s) \in Int /\ tax(s + p) \in Int
      /\ 160 * (tax(s + p) - tax(s)) >= 14 * p - 160
  <2>1. /\ tax(s) \in Int
        /\ 160 * tax(s) =< 14 * s + 80
    BY TaxBounds
  <2>2. /\ tax(s + p) \in Int
        /\ 14 * (s + p) - 80 =< 160 * tax(s + p)
    BY <1>1, TaxBounds
  <2>3. QED
    BY <2>1, <2>2
<1>4. serviceFee(s + p) - serviceFee(s) >= 2 /\ tax(s + p) - tax(s) >= 2
  BY <1>2, <1>3
<1>5. QED
  BY <1>1, <1>2, <1>3, <1>4 DEF total

\* Of what is not on a line a cart has nothing: its sums go over the catalogue as well.
LEMMA CartSums ==
    ASSUME NEW items \in [Dish -> Nat]
    PROVE  /\ subtotal(items) = SumFunctionOnSet(Priced(items), Listed)
           /\ totalServings(items) = SumFunctionOnSet(Serving(items), Listed)
           /\ \A d \in Listed : Priced(items)[d] \in Nat /\ Serving(items)[d] \in Nat
<1>1. ASSUME NEW d \in Listed
      PROVE  /\ items[d] \in Nat /\ Priced(items)[d] = price[d] * items[d]
             /\ Serving(items)[d] = serves[d] * items[d]
             /\ price[d] \in Nat /\ serves[d] \in Nat
  BY PricingAssumption DEF PriceList, Priced, Serving
<1>2. ASSUME NEW d \in Listed PROVE Priced(items)[d] \in Nat /\ Serving(items)[d] \in Nat
  BY <1>1
<1>3. ASSUME NEW d \in Listed \ Lines(items)
      PROVE  Priced(items)[d] = 0 /\ Serving(items)[d] = 0
  <2>1. items[d] = 0
    BY <1>1 DEF Lines
  <2>2. QED
    BY <1>1, <2>1
<1>4. Lines(items) \in SUBSET Listed /\ IsFiniteSet(Listed)
  BY PricingAssumption DEF Lines
<1>5. SumFunctionOnSet(Priced(items), Listed) = SumFunctionOnSet(Priced(items), Lines(items))
  BY <1>2, <1>3, <1>4, SumWithoutZeros
<1>6. SumFunctionOnSet(Serving(items), Listed) = SumFunctionOnSet(Serving(items), Lines(items))
  BY <1>2, <1>3, <1>4, SumWithoutZeros
<1>7. QED
  BY <1>2, <1>5, <1>6 DEF subtotal, totalServings

\* A cart with more of some dishes and less of none costs at least as much.
THEOREM BillMonotone ==
    ASSUME NEW before \in [Dish -> Nat], NEW after \in [Dish -> Nat],
           \A d \in Dish : after[d] >= before[d]
    PROVE  total(subtotal(after)) >= total(subtotal(before))
<1> DEFINE u == Priced(before)
           v == [d \in Listed |-> price[d] * (after[d] - before[d])]
           w == Priced(after)
<1>1. ASSUME NEW d \in Listed
      PROVE  u[d] \in Nat /\ v[d] \in Nat /\ w[d] = u[d] + v[d]
  <2>1. /\ price[d] \in Nat /\ before[d] \in Nat /\ after[d] \in Nat
        /\ after[d] - before[d] \in Nat
    BY PricingAssumption DEF PriceList
  <2>2. u[d] = price[d] * before[d] /\ w[d] = price[d] * after[d]
        /\ v[d] = price[d] * (after[d] - before[d])
    BY DEF Priced
  <2>3. QED
    BY <2>1, <2>2
<1>2. /\ subtotal(before) = SumFunctionOnSet(u, Listed)
      /\ subtotal(after) = SumFunctionOnSet(w, Listed)
  BY CartSums
<1>3. IsFiniteSet(Listed)
  BY PricingAssumption
<1> HIDE DEF u, w
<1>4. /\ SumFunctionOnSet(u, Listed) \in Nat /\ SumFunctionOnSet(v, Listed) \in Nat
      /\ SumFunctionOnSet(w, Listed) = SumFunctionOnSet(u, Listed) + SumFunctionOnSet(v, Listed)
  <2> HIDE DEF v
  <2>1. QED
    BY <1>1, <1>3, SumAdds
<1>5. CASE \E d \in Listed : after[d] # before[d]
  <2>1. PICK d \in Listed : after[d] # before[d]
    BY <1>5
  <2>2. v[d] >= 32
    <3>1. /\ price[d] \in Nat /\ price[d] >= 32
          /\ after[d] - before[d] \in Nat /\ after[d] - before[d] >= 1
      BY <2>1, PricingAssumption DEF PriceList
    <3>2. price[d] * (after[d] - before[d]) >= 32
      BY <3>1
    <3>3. QED
      BY <3>2
  <2> HIDE DEF v
  <2>3. SumFunctionOnSet(v, Listed) >= v[d] /\ v[d] \in Nat
    BY <1>1, <1>3, SumAtLeast
  <2>4. SumFunctionOnSet(v, Listed) >= 32
    BY <1>4, <2>2, <2>3
  <2>5. QED
    BY <1>2, <1>4, <2>4, TotalMonotone
<1>6. CASE \A d \in Listed : after[d] = before[d]
  <2>1. \A d \in Listed : w[d] = u[d]
    BY <1>6 DEF u, w, Priced
  <2>2. SumFunctionOnSet(w, Listed) = SumFunctionOnSet(u, Listed)
    BY <1>1, <1>3, <2>1, SumSame
  <2>3. total(subtotal(after)) = total(subtotal(before)) /\ subtotal(before) \in Nat
    BY <1>2, <1>4, <2>2
  <2>4. total(subtotal(before)) \in Int
    <3>1. deliveryFee(subtotal(before)) \in 0..35
      BY <2>3, PricingAssumption DEF deliveryFee
    <3>2. serviceFee(subtotal(before)) \in Int /\ tax(subtotal(before)) \in Int
      BY <2>3, ServiceFeeBounds, TaxBounds
    <3>3. QED
      BY <2>3, <3>1, <3>2 DEF total
  <2>5. QED
    BY <2>3, <2>4
<1>7. QED
  BY <1>5, <1>6

-----------------------------------------------------------------------------
(* The cart                                                                  *)

LEMMA ClampType == ASSUME NEW n \in Int PROVE clamp(n) \in 1..MaxHeadcount
BY CartAssumption DEF clamp

LEMMA NoCartIsNone == NoCart \notin CartRecord
BY DEF NoCart, CartRecord

LEMMA SeedType == SEED \in CartRecord
BY CartAssumption DEF CartRecord

\* What the operations return is a cart.
LEMMA HeadcountType ==
    ASSUME NEW c \in CartRecord, NEW n \in Int
    PROVE  setHeadcount(c, n) \in CartRecord /\ bumpHeadcount(c, n) \in CartRecord
<1>1. c.headcount \in Int /\ c.items \in [Dish -> Nat] /\ c.headcount + n \in Int
  BY CartAssumption DEF CartRecord
<1>2. clamp(n) \in 1..MaxHeadcount /\ clamp(c.headcount + n) \in 1..MaxHeadcount
  BY <1>1, ClampType
<1>3. QED
  BY <1>1, <1>2 DEF CartRecord, setHeadcount, bumpHeadcount

LEMMA ItemsType ==
    ASSUME NEW c \in CartRecord, NEW d \in Listed
    PROVE  /\ add(c, d, 1) \in CartRecord /\ increment(c, d) \in CartRecord
           /\ decrement(c, d) \in CartRecord /\ remove(c, d) \in CartRecord
<1>1. d \in Dish /\ c.items[d] \in Nat /\ c.items \in [Dish -> Nat]
      /\ c.headcount \in 1..MaxHeadcount
  BY PricingAssumption DEF CartRecord
<1>2. ASSUME NEW q \in Int PROVE setQty(c, d, q) \in CartRecord
  BY <1>1 DEF setQty, CartRecord
<1>3. add(c, d, 1) \in CartRecord
  BY <1>1 DEF add, CartRecord
<1>4. QED
  BY <1>1, <1>2, <1>3 DEF increment, decrement, remove

LEMMA BundleType ==
    ASSUME NEW c \in CartRecord, NEW b \in Bundle
    PROVE  addBundle(c, b) \in CartRecord
BY CartAssumption, BundleAssumption DEF Bundles, addBundle, CartRecord

\* Whatever button is clicked.
LEMMA ButtonsType == ASSUME NEW c \in CartRecord PROVE Buttons(c) \subseteq CartRecord
<1>1. HeadcountStepper(c) \subseteq CartRecord
  <2>1. HeadcountStep \in Int /\ -HeadcountStep \in Int
    BY CartAssumption
  <2>2. QED
    BY <2>1, HeadcountType DEF HeadcountStepper
<1>2. ASSUME NEW d \in Listed PROVE AddToBundle(c, d) \subseteq CartRecord
  BY ItemsType DEF AddToBundle
<1>3. ASSUME NEW b \in Bundle PROVE AddBundleButton(c, b) \subseteq CartRecord
  BY BundleType DEF AddBundleButton
<1>4. ASSUME NEW d \in Lines(c.items) PROVE CartLine(c, d) \subseteq CartRecord
  BY ItemsType DEF CartLine, Lines
<1>5. ASSUME NEW S \in SUBSET Listed PROVE DishCards(c, S) \subseteq CartRecord
  BY <1>2 DEF DishCards
<1>6. ASSUME NEW S \in SUBSET Bundle PROVE BundleCards(c, S) \subseteq CartRecord
  BY <1>3 DEF BundleCards
<1>7. suggestions(c) \subseteq Listed
  BY DEF suggestions, firstFew, firstOfEach
<1>8. CartView(c) \subseteq CartRecord
  BY <1>1, <1>4, <1>5, <1>6, <1>7 DEF CartView, EmptyBundle, FilledBundle
<1>9. FloatingCart(c) \subseteq CartRecord
  BY <1>1, ItemsType DEF FloatingCart, Lines
<1>10. HomePage(c) \cup RestaurantsPage(c) \cup BundlesPage(c) \subseteq CartRecord
  BY <1>1, <1>5, <1>6, CartAssumption DEF HomePage, RestaurantsPage, BundlesPage, BundleGrid
<1>11. ASSUME NEW b \in Bundle PROVE BundleDetailPage(c, b) \subseteq CartRecord
  <2>1. dishIds[b] \in SUBSET Listed /\ Bundle \ {b} \in SUBSET Bundle
    BY CartAssumption, BundleAssumption DEF Bundles
  <2>2. QED
    BY <2>1, <1>3, <1>5, <1>6 DEF BundleDetailPage
<1>12. ASSUME NEW r \in Restaurant PROVE RestaurantPage(c, r) \subseteq CartRecord
  <2>1. menu(r) \cup pairings(r) \in SUBSET Listed
    BY CartAssumption DEF menu, pairings, firstFew, firstOfEach
  <2>2. QED
    BY <2>1, <1>5 DEF RestaurantPage
<1>13. Menus(c) \subseteq CartRecord
  BY <1>1, <1>10, <1>11, <1>12 DEF Menus
<1>14. QED
  BY <1>8, <1>9, <1>13 DEF Buttons

\* Where nothing has raced, at most one tab is loading, and it holds the only copy
\* of the cart the customer left last; else that cart is the one stored.
Kept ==
    ~raced =>
        /\ \A t, u \in Tab : loading(t) /\ loading(u) => t = u
        /\ \A t \in Tab : loading(t) =>
               /\ last = IF loaded[t] = NoCart THEN SEED ELSE loaded[t]
               /\ loaded[t] = NoCart => storage = SEED
        /\ (\A t \in Tab : ~loading(t)) => storage = last

CartInv == TypeOK /\ Kept

LEMMA CartInit == ASSUME Init PROVE CartInv
<1>1. OldCart \subseteq CartRecord
  <2>1. ASSUME NEW c \in OldCart PROVE c \in CartRecord
    <3>1. /\ c \in [items : [Dish -> UNION {0..MaxQty[d] : d \in Dish}], headcount : 1..MaxHeadcount]
          /\ UNION {0..MaxQty[d] : d \in Dish} \subseteq Nat
      BY CartAssumption DEF OldCart
    <3>2. QED
      BY <3>1 DEF CartRecord
  <2>2. QED
    BY <2>1
<1>2. TypeOK
  BY <1>1, SeedType DEF Init, TypeOK
<1>3. Kept
  BY DEF Init, Kept, loading
<1>4. QED
  BY <1>2, <1>3 DEF CartInv

LEMMA OpenInv == ASSUME CartInv, NEW t \in Tab, Open(t) PROVE CartInv'
<1>1. TypeOK'
  BY SeedType DEF CartInv, TypeOK, Open
<1>2. Kept'
  BY NoCartIsNone DEF CartInv, TypeOK, Kept, Open, loading
<1>3. QED
  BY <1>1, <1>2 DEF CartInv

LEMMA RerenderInv == ASSUME CartInv, NEW t \in Tab, Rerender(t) PROVE CartInv'
<1>1. TypeOK'
  BY DEF CartInv, TypeOK, Rerender, loading
<1>2. Kept'
  BY DEF CartInv, TypeOK, Kept, Rerender, loading
<1>3. QED
  BY <1>1, <1>2 DEF CartInv

LEMMA CloseInv == ASSUME CartInv, NEW t \in Tab, Close(t) PROVE CartInv'
<1>1. TypeOK'
  BY SeedType DEF CartInv, TypeOK, Close, loading
<1>2. Kept'
  BY DEF CartInv, TypeOK, Kept, Close, loading
<1>3. QED
  BY <1>1, <1>2 DEF CartInv

LEMMA PersistInv ==
    ASSUME CartInv, NEW t \in Tab, NEW c \in CartRecord, Persist(t, c), UNCHANGED <<phase, loaded>>
    PROVE  CartInv'
<1>1. TypeOK'
  BY DEF CartInv, TypeOK, Persist, loading
<1>2. Kept'
  BY DEF CartInv, TypeOK, Kept, Persist, loading
<1>3. QED
  BY <1>1, <1>2 DEF CartInv

LEMMA ClickInv == ASSUME CartInv, NEW t \in Tab, Click(t) PROVE CartInv'
<1>1. PICK c \in Buttons(cart[t]) : Persist(t, c)
  BY DEF Click
<1>2. c \in CartRecord
  BY ButtonsType DEF CartInv, TypeOK
<1>3. QED
  BY <1>1, <1>2, PersistInv DEF Click

LEMMA ClearInv == ASSUME CartInv, NEW t \in Tab, Clear(t) PROVE CartInv'
<1>1. [cart[t] EXCEPT !.items = [d \in Dish |-> 0]] \in CartRecord
  BY DEF CartInv, TypeOK, CartRecord
<1>2. QED
  BY <1>1, PersistInv DEF Clear

\* Without a race the cart of the last visit is stored, or about to be.
LEMMA KeptMeansCartKept == ASSUME Kept PROVE CartKept
BY DEF Kept, CartKept

-----------------------------------------------------------------------------
(* The pages over it                                                         *)

PageType ==
    /\ page \in {"package", "restaurants", "other"}
    /\ guests \in minGuests..MaxHeadcount
    /\ sel \in [Section -> SUBSET Listed]
    /\ query \in Word \cup {"blank"}
    /\ cuisine \in Cuisines \cup {"all"}
    /\ diets \subseteq Diet

\* Cardinality bounds a finite set only.
Fits(s) == IsFiniteSet(sel[s]) /\ Cardinality(sel[s]) \in 0..maxSelections[s]

PageInv == PageType /\ \A s \in Section : Fits(s)

ShopInv == CartInv /\ PageInv

LEMMA GuestTypes == /\ minGuests \in Nat /\ MaxHeadcount \in Nat
                    /\ minGuests <= MaxHeadcount
                    /\ FirstGuests \in minGuests..MaxHeadcount
BY ShopAssumption, CartAssumption, BundleAssumption DEF Package, Bundles

\* A section with nothing selected.
LEMMA EmptyFits == IsFiniteSet({}) /\ \A s \in Section : Cardinality({}) \in 0..maxSelections[s]
BY FS_EmptySet, ShopAssumption DEF Package

LEMMA GoToInv == ASSUME NEW p \in {"package", "restaurants", "other"}, GoTo(p) PROVE PageInv'
<1>1. PageType'
  BY GuestTypes DEF GoTo, PageType
<1>2. ASSUME NEW s \in Section PROVE Fits(s)'
  BY EmptyFits DEF GoTo, Fits
<1>3. QED
  BY <1>1, <1>2 DEF PageInv

LEMMA SameInv == ASSUME PageInv, UNCHANGED shopVars PROVE PageInv'
BY DEF PageInv, PageType, Fits, shopVars

LEMMA SameCartInv == ASSUME CartInv, UNCHANGED cartVars PROVE CartInv'
BY DEF CartInv, TypeOK, Kept, loading, cartVars

LEMMA ShopInitInv == ASSUME ShopInit PROVE ShopInv
<1>1. CartInv
  BY CartInit DEF ShopInit
<1>2. PageType
  BY GuestTypes DEF ShopInit, PageType
<1>3. ASSUME NEW s \in Section PROVE Fits(s)
  BY EmptyFits DEF ShopInit, Fits
<1>4. QED
  BY <1>1, <1>2, <1>3 DEF ShopInv, PageInv

\* A click in the configurator selects no more than the section has room for.
LEMMA ToggleInv ==
    ASSUME ShopInv, NEW s \in Section, NEW d \in options[s], toggle(s, d)
    PROVE  PageInv'
<1>1. d \in Listed /\ maxSelections[s] \in Nat \ {0}
  BY ShopAssumption DEF Package
<1>2. /\ IsFiniteSet(sel[s]) /\ Cardinality(sel[s]) \in 0..maxSelections[s]
      /\ sel[s] \subseteq Listed
  BY DEF ShopInv, PageInv, PageType, Fits
<1>3. /\ IsFiniteSet(sel[s] \ {d}) /\ Cardinality(sel[s] \ {d}) \in 0..maxSelections[s]
  <2>1. Cardinality(sel[s]) \in Nat
    BY <1>2, FS_CardinalityType
  <2>2. IsFiniteSet(sel[s] \ {d})
    BY <1>2, FS_RemoveElement
  <2>3. Cardinality(sel[s] \ {d}) = IF d \in sel[s] THEN Cardinality(sel[s]) - 1 ELSE Cardinality(sel[s])
    BY <1>2, FS_RemoveElement
  <2>4. Cardinality(sel[s] \ {d}) \in Nat
    BY <2>2, FS_CardinalityType
  <2>5. QED
    BY <1>1, <1>2, <2>1, <2>2, <2>3, <2>4
<1>4. /\ IsFiniteSet({d}) /\ Cardinality({d}) = 1
  BY FS_Singleton
<1>5. ASSUME d \notin sel[s], Cardinality(sel[s]) < maxSelections[s]
      PROVE  /\ IsFiniteSet(sel[s] \cup {d})
             /\ Cardinality(sel[s] \cup {d}) \in 0..maxSelections[s]
  <2>1. IsFiniteSet(sel[s] \cup {d}) /\ Cardinality(sel[s] \cup {d}) = Cardinality(sel[s]) + 1
    BY <1>2, <1>5, FS_AddElement
  <2>2. QED
    BY <1>1, <1>2, <1>5, <2>1
<1>6. PICK new \in SUBSET Listed :
          /\ sel' = [sel EXCEPT ![s] = new]
          /\ IsFiniteSet(new) /\ Cardinality(new) \in 0..maxSelections[s]
  <2>1. CASE d \in sel[s]
    <3>1. sel' = [sel EXCEPT ![s] = sel[s] \ {d}]
      BY <2>1 DEF toggle
    <3>2. QED
      BY <1>2, <1>3, <3>1
  <2>2. CASE d \notin sel[s] /\ maxSelections[s] = 1
    <3>1. sel' = [sel EXCEPT ![s] = {d}]
      BY <2>2 DEF toggle
    <3>2. {d} \in SUBSET Listed /\ Cardinality({d}) \in 0..maxSelections[s]
      BY <1>1, <1>4
    <3>3. QED
      BY <1>4, <3>1, <3>2
  <2>3. CASE d \notin sel[s] /\ maxSelections[s] # 1 /\ Cardinality(sel[s]) < maxSelections[s]
    <3>1. sel' = [sel EXCEPT ![s] = sel[s] \cup {d}]
      BY <2>3 DEF toggle
    <3>2. QED
      BY <1>1, <1>2, <1>5, <2>3, <3>1
  <2>4. CASE d \notin sel[s] /\ maxSelections[s] # 1 /\ ~(Cardinality(sel[s]) < maxSelections[s])
    <3>1. sel' = [sel EXCEPT ![s] = sel[s]]
      BY <2>4 DEF toggle
    <3>2. QED
      BY <1>2, <3>1
  <2>5. QED
    BY <2>1, <2>2, <2>3, <2>4
<1>7. PageType'
  BY <1>6 DEF ShopInv, PageInv, PageType, toggle, Configuring
<1>8. ASSUME NEW r \in Section PROVE Fits(r)'
  <2>1. CASE r = s
    BY <1>6, <2>1 DEF ShopInv, PageInv, PageType, Fits
  <2>2. CASE r # s
    BY <1>6, <2>2 DEF ShopInv, PageInv, PageType, Fits
  <2>3. QED
    BY <2>1, <2>2
<1>9. QED
  BY <1>7, <1>8 DEF PageInv

\* A package becomes lines of the cart.
LEMMA AddToBundleInv == ASSUME ShopInv, addToBundle PROVE ShopInv'
<1>1. guests \in Int /\ guests \in Nat
  BY GuestTypes DEF ShopInv, PageInv, PageType
<1>2. ASSUME NEW d \in chosen PROVE qtyFor(d) \in Nat
  <2>1. d \in Listed
    BY <1>2 DEF chosen, ShopInv, PageInv, PageType
  <2>2. serves[d] \in Nat \ {0}
    BY <2>1, PricingAssumption DEF PriceList
  <2>3. 2 * guests + serves[d] - 1 \in Nat
    BY <1>1, <2>2
  <2>4. QED
    BY <2>2, <2>3 DEF qtyFor
<1> DEFINE sized == [d \in Dish |-> IF d \in chosen THEN qtyFor(d) ELSE 0]
           base  == setHeadcount(cart[Explorer], guests)
           c     == [base EXCEPT !.items = [d \in Dish |-> @[d] + sized[d]]]
<1>3. base \in CartRecord /\ cart[Explorer] \in CartRecord
  BY <1>1, ShopAssumption, HeadcountType DEF ShopInv, CartInv, TypeOK
<1>4. \A d \in Dish : sized[d] \in Nat
  BY <1>2
<1>5. c \in CartRecord
  <2> HIDE DEF base, sized
  <2>1. base.items \in [Dish -> Nat] /\ base.headcount \in 1..MaxHeadcount
    BY <1>3 DEF CartRecord
  <2>2. [d \in Dish |-> base.items[d] + sized[d]] \in [Dish -> Nat]
    BY <1>4, <2>1
  <2>3. c = [items |-> [d \in Dish |-> base.items[d] + sized[d]], headcount |-> base.headcount]
    BY <1>3 DEF CartRecord
  <2>4. QED
    BY <2>1, <2>2, <2>3 DEF CartRecord
<1>6. Persist(Explorer, c) /\ GoTo("other") /\ UNCHANGED <<phase, loaded>>
  BY DEF addToBundle
<1>7. CartInv'
  <2> HIDE DEF c
  <2>1. QED
    BY <1>5, <1>6, ShopAssumption, PersistInv DEF ShopInv
<1>8. PageInv'
  BY <1>6, GoToInv
<1>9. QED
  BY <1>7, <1>8 DEF ShopInv

\* The filters.
LEMMA FilterInv ==
    ASSUME ShopInv,
           \/ \E w \in Word \cup {"blank"} : setQuery(w)
           \/ \E c \in Cuisines \cup {"all"} : setCuisine(c)
           \/ \E d \in Diet : toggleDiet(d)
           \/ reset
    PROVE  ShopInv'
<1>1. UNCHANGED <<cartVars, page, guests, sel>>
  BY DEF setQuery, setCuisine, toggleDiet, reset, Browsing
<1>2. CartInv'
  BY <1>1, SameCartInv DEF ShopInv
<1>3. query' \in Word \cup {"blank"} /\ cuisine' \in Cuisines \cup {"all"} /\ diets' \subseteq Diet
  BY DEF setQuery, setCuisine, toggleDiet, reset, Browsing, ShopInv, PageInv, PageType
<1>4. PageInv'
  BY <1>1, <1>3 DEF ShopInv, PageInv, PageType, Fits
<1>5. QED
  BY <1>2, <1>4 DEF ShopInv

\* A step of one tab's cart.
LEMMA TabInv ==
    ASSUME CartInv, NEW t \in Tab, Open(t) \/ Rerender(t) \/ Close(t) \/ Click(t) \/ Clear(t)
    PROVE  CartInv'
BY OpenInv, RerenderInv, CloseInv, ClickInv, ClearInv

LEMMA ShopStepInv == ASSUME ShopInv, [ShopNext]_<<cartVars, shopVars>> PROVE ShopInv'
<1>1. CASE UNCHANGED <<cartVars, shopVars>>
  BY <1>1, SameInv, SameCartInv DEF ShopInv
<1>2. CASE Here
  <2>1. CartInv'
    BY <1>2, ShopAssumption, TabInv DEF Here, ShopInv
  <2>2. PageInv'
    BY <1>2, SameInv, GoToInv DEF Here, ShopInv
  <2>3. QED
    BY <2>1, <2>2 DEF ShopInv
<1>3. ASSUME NEW t \in Tab, Elsewhere(t), UNCHANGED shopVars PROVE ShopInv'
  BY <1>3, TabInv, SameInv DEF Elsewhere, ShopInv
<1>4. ASSUME NEW p \in {"package", "restaurants", "other"}, Visit(p) PROVE ShopInv'
  BY <1>4, SameCartInv, GoToInv DEF Visit, ShopInv
<1>5. ASSUME NEW n \in {guests + HeadcountStep, guests - HeadcountStep}, setGuestCount(n)
      PROVE  ShopInv'
  <2>1. CartInv'
    BY <1>5, SameCartInv DEF setGuestCount, ShopInv
  <2>2. n \in Int
    BY GuestTypes, CartAssumption DEF ShopInv, PageInv, PageType
  <2>3. guests' \in minGuests..MaxHeadcount
    BY <1>5, <2>2, GuestTypes DEF setGuestCount
  <2>4. PageInv'
    BY <1>5, <2>3 DEF setGuestCount, Configuring, ShopInv, PageInv, PageType, Fits
  <2>5. QED
    BY <2>1, <2>4 DEF ShopInv
<1>6. ASSUME NEW s \in Section, NEW d \in options[s], toggle(s, d) PROVE ShopInv'
  <2>1. CartInv'
    BY <1>6, SameCartInv DEF toggle, ShopInv
  <2>2. QED
    BY <1>6, <2>1, ToggleInv DEF ShopInv
<1>7. QED
  BY <1>1, <1>2, <1>3, <1>4, <1>5, <1>6, AddToBundleInv, FilterInv DEF ShopNext

\* The cart survives and the pages keep their bounds through every visit, click and
\* race of tabs (cart-context.tsx, configurator.tsx, restaurants-browser.tsx).
THEOREM ShopInvariance == ShopSpec => []ShopInv
BY ShopInitInv, ShopStepInv, PTL DEF ShopSpec

\* Carts, headcounts, guests and filters keep their ranges and no section of a package
\* is ever overfull, for any price list, any number of tabs and any package.
THEOREM ShopTypes == ShopSpec => []ShopTypeOK
<1>1. ASSUME ShopInv, NEW s \in Section PROVE Cardinality(sel[s]) <= maxSelections[s]
  <2>1. maxSelections[s] \in Nat /\ Cardinality(sel[s]) \in 0..maxSelections[s]
    BY <1>1, ShopAssumption DEF Package, ShopInv, PageInv, Fits
  <2>2. QED
    BY <2>1
<1>2. ShopInv => ShopTypeOK
  BY <1>1 DEF ShopInv, CartInv, PageInv, PageType, ShopTypeOK
<1>3. QED
  BY <1>2, ShopInvariance, PTL

\* No visit loses the cart the customer left last, unless a mount was cut short or
\* met another tab that writes, for any number of tabs.
THEOREM VisitsKeepCart == ShopSpec => []CartKept
<1>1. ShopInv => CartKept
  BY KeptMeansCartKept DEF ShopInv, CartInv
<1>2. QED
  BY <1>1, ShopInvariance, PTL

-----------------------------------------------------------------------------
(* What a customer may rely on                                               *)

\* What a tab holds.
LEMMA CartTypes == ASSUME ShopInv, NEW t \in Tab
    PROVE  /\ cart[t].items \in [Dish -> Nat] /\ cart[t].headcount \in 1..MaxHeadcount
BY DEF ShopInv, CartInv, TypeOK, CartRecord

\* Whatever is added to a live cart, by a button, a bundle or a package, the order
\* does not become cheaper (cart-context.tsx:154-181).
THEOREM MoreCosts == ShopSpec => MoreNeverCheaper
<1> DEFINE Step == \A t \in Tab :
               LET before == cart[t].items  after == cart'[t].items IN
               /\ phase[t] = "live"
               /\ \A d \in Dish : after[d] >= before[d]
               => total(subtotal(after)) >= total(subtotal(before))
<1>1. ASSUME ShopInv, ShopInv' PROVE Step
  <2> SUFFICES ASSUME NEW t \in Tab, \A d \in Dish : cart'[t].items[d] >= cart[t].items[d]
               PROVE  total(subtotal(cart'[t].items)) >= total(subtotal(cart[t].items))
    OBVIOUS
  <2>1. cart[t].items \in [Dish -> Nat]
    BY <1>1, CartTypes
  <2>2. cart'[t].items \in [Dish -> Nat]
    BY <1>1 DEF ShopInv, CartInv, TypeOK, CartRecord
  <2>3. QED
    BY <2>1, <2>2, BillMonotone
<1>2. ShopInv /\ ShopInv' => [Step]_cartVars
  BY <1>1
<1>3. QED
  BY <1>2, ShopInvariance, PTL DEF MoreNeverCheaper

\* A bundle's trays are added to the servings of the cart.
LEMMA BundleServings ==
    ASSUME NEW c \in CartRecord, NEW b \in Bundle
    PROVE  /\ totalServings(addBundle(c, b).items) = totalServings(c.items) + bundleServings(b)
           /\ totalServings(c.items) \in Nat /\ bundleServings(b) \in Nat
<1> DEFINE D == dishIds[b]
           after == addBundle(c, b).items
           u == Serving(c.items)
           v == [d \in Listed |-> IF d \in D THEN serves[d] ELSE 0]
           w == Serving(after)
<1>1. /\ c.items \in [Dish -> Nat] /\ after \in [Dish -> Nat]
      /\ \A d \in Dish : after[d] = c.items[d] + (IF d \in D THEN 1 ELSE 0)
  BY DEF CartRecord, addBundle
<1>2. D \in SUBSET Listed /\ IsFiniteSet(Listed) /\ IsFiniteSet(D)
  BY PricingAssumption, BundleAssumption, FS_Subset DEF PriceList, Bundles
<1> HIDE DEF after, D
<1>3. ASSUME NEW d \in Listed PROVE u[d] \in Nat /\ v[d] \in Nat /\ w[d] = u[d] + v[d]
  <2>1. /\ serves[d] \in Nat /\ c.items[d] \in Nat /\ d \in Dish
    BY <1>1, PricingAssumption DEF PriceList
  <2>2. u[d] = serves[d] * c.items[d] /\ w[d] = serves[d] * after[d]
    BY DEF Serving
  <2>3. CASE d \in D
    <3>1. after[d] = c.items[d] + 1 /\ v[d] = serves[d]
      BY <1>1, <2>1, <2>3
    <3>2. QED
      BY <2>1, <2>2, <3>1
  <2>4. CASE d \notin D
    <3>1. after[d] = c.items[d] /\ v[d] = 0
      BY <1>1, <2>1, <2>4
    <3>2. QED
      BY <2>1, <2>2, <3>1
  <2>5. QED
    BY <2>3, <2>4
<1>4. SumFunctionOnSet(v, Listed) = SumFunctionOnSet(v, D)
  <2>1. \A d \in Listed \ D : v[d] = 0
    OBVIOUS
  <2>2. \A d \in Listed : v[d] \in Nat
    BY <1>3
  <2> HIDE DEF v
  <2>3. QED
    BY <1>2, <2>1, <2>2, SumWithoutZeros
<1>5. SumFunctionOnSet(v, D) = bundleServings(b)
  <2>1. \A d \in D : serves[d] \in Nat /\ v[d] = serves[d]
    BY <1>2, PricingAssumption DEF PriceList
  <2> HIDE DEF v
  <2>2. SumFunctionOnSet(v, D) = SumFunctionOnSet(serves, D)
    BY <1>2, <2>1, SumSame
  <2>3. QED
    BY <2>2 DEF bundleServings, D
<1>6. totalServings(c.items) = SumFunctionOnSet(u, Listed)
      /\ totalServings(after) = SumFunctionOnSet(w, Listed)
  BY <1>1, CartSums
<1> HIDE DEF u, v, w
<1>7. /\ SumFunctionOnSet(w, Listed) = SumFunctionOnSet(u, Listed) + SumFunctionOnSet(v, Listed)
      /\ SumFunctionOnSet(u, Listed) \in Nat /\ SumFunctionOnSet(v, Listed) \in Nat
  BY <1>2, <1>3, SumAdds
<1>8. QED
  BY <1>4, <1>5, <1>6, <1>7 DEF after

\* A cart that covers its guests covers those of a bundle that is added to it, for any
\* bundles that cover their own (bundles/[slug]/page.tsx:81).
THEOREM BundlesCover == ShopSpec => BundleCovers
<1> DEFINE Step == \A t \in Tab, b \in Bundle :
               LET before == cart[t]  after == cart'[t] IN
               phase[t] = "live" /\ after = addBundle(before, b) /\ covered(before.items, before.headcount)
                   => covered(after.items, after.headcount)
<1>1. ASSUME ShopInv PROVE Step
  <2> SUFFICES ASSUME NEW t \in Tab, NEW b \in Bundle, cart'[t] = addBundle(cart[t], b),
                      covered(cart[t].items, cart[t].headcount)
               PROVE  covered(cart'[t].items, cart'[t].headcount)
    OBVIOUS
  <2> DEFINE c == cart[t]
             n == addBundle(c, b)
  <2>1. c \in CartRecord /\ c.headcount \in Nat
    BY <1>1, CartAssumption DEF ShopInv, CartInv, TypeOK, CartRecord
  <2>2. /\ bundleServes[b] \in Nat /\ bundleServings(b) >= 2 * bundleServes[b]
    BY CartAssumption, BundleAssumption DEF Bundles
  <2>3. n.headcount = IF bundleServes[b] > c.headcount THEN bundleServes[b] ELSE c.headcount
    BY DEF addBundle
  <2>4. totalServings(c.items) >= 2 * c.headcount
    BY DEF covered
  <2> HIDE DEF c, n
  <2>5. /\ totalServings(n.items) = totalServings(c.items) + bundleServings(b)
        /\ totalServings(c.items) \in Nat /\ bundleServings(b) \in Nat
    BY <2>1, BundleServings DEF n
  <2>6. totalServings(n.items) >= 2 * n.headcount
    BY <2>1, <2>2, <2>3, <2>4, <2>5
  <2>7. QED
    BY <2>6 DEF covered, n, c
<1>2. ShopInv => [Step]_cartVars
  BY <1>1
<1>3. QED
  BY <1>2, ShopInvariance, PTL DEF BundleCovers

\* Rounding the trays up covers the guests.
LEMMA RoundedUp ==
    ASSUME NEW m \in Nat \ {0}, NEW n \in Nat
    PROVE  (n + m - 1) \div m \in Nat /\ m * ((n + m - 1) \div m) >= n
<1> DEFINE q == (n + m - 1) \div m
           r == (n + m - 1) % m
<1>1. n + m - 1 = m * q + r /\ r \in 0..(m - 1) /\ q \in Int
  OBVIOUS
<1>2. q \in Nat
  OBVIOUS
<1> HIDE DEF q, r
<1>3. m * q \in Int
  BY <1>1
<1>4. m * q >= n
  BY <1>1, <1>3
<1>5. QED
  BY <1>2, <1>4 DEF q

\* A package is sized: each dish chosen for it, and with it the cart, covers the guests
\* (configurator.tsx:42), for any package whose dishes are on the list.
THEOREM PackagesCover == ShopSpec => EachDishSized
<1> DEFINE Step == addToBundle => LET c == cart'[Explorer] IN
           /\ \A d \in chosen : serves[d] * c.items[d] >= 2 * c.headcount
           /\ covered(c.items, c.headcount)
<1>1. ASSUME ShopInv, ShopInv', addToBundle
      PROVE  LET c == cart'[Explorer] IN
           /\ \A d \in chosen : serves[d] * c.items[d] >= 2 * c.headcount
           /\ covered(c.items, c.headcount)
  <2> DEFINE base == cart[Explorer]
             c == cart'[Explorer]
  <2>1. /\ base \in CartRecord /\ c \in CartRecord /\ guests \in 1..MaxHeadcount
        /\ chosen \subseteq Listed /\ Explorer \in Tab
    BY <1>1, GuestTypes, ShopAssumption DEF Package, ShopInv, CartInv, TypeOK, PageInv, PageType, chosen
  <2>2. clamp(guests) = guests
    BY <2>1, CartAssumption DEF clamp
  <2>3. c = [setHeadcount(base, guests) EXCEPT
                !.items = [d \in Dish |-> @[d] + (IF d \in chosen THEN qtyFor(d) ELSE 0)]]
    <3>1. cart' = [cart EXCEPT ![Explorer] = [setHeadcount(base, guests) EXCEPT
                !.items = [d \in Dish |-> @[d] + [e \in Dish |-> IF e \in chosen THEN qtyFor(e) ELSE 0][d]]]]
      BY <1>1 DEF addToBundle, Persist
    <3>2. cart \in [Tab -> CartRecord]
      BY <1>1 DEF ShopInv, CartInv, TypeOK
    <3>3. QED
      BY <2>1, <3>1, <3>2
  <2>4. c.headcount = guests
    BY <2>1, <2>2, <2>3 DEF setHeadcount, CartRecord
  <2>5. ASSUME NEW d \in chosen PROVE serves[d] * c.items[d] >= 2 * guests
    <3>1. /\ d \in Listed /\ d \in Dish /\ serves[d] \in Nat \ {0} /\ 2 * guests \in Nat
          /\ base.items[d] \in Nat
      BY <2>1, PricingAssumption DEF PriceList, CartRecord
    <3>2. c.items[d] = base.items[d] + qtyFor(d)
      BY <2>1, <2>3, <3>1 DEF setHeadcount, CartRecord
    <3>3. qtyFor(d) \in Nat /\ serves[d] * qtyFor(d) >= 2 * guests
      BY <3>1, RoundedUp DEF qtyFor
    <3>4. serves[d] * base.items[d] \in Nat
          /\ serves[d] * c.items[d] = serves[d] * base.items[d] + serves[d] * qtyFor(d)
      BY <3>1, <3>2, <3>3
    <3>5. QED
      BY <3>1, <3>3, <3>4
  <2>6. totalServings(c.items) >= 2 * guests
    <3>1. PICK d \in chosen : TRUE
      BY <1>1, ShopAssumption DEF Package, addToBundle, valid, chosen
    <3>2. c.items \in [Dish -> Nat] /\ d \in Listed /\ IsFiniteSet(Listed)
      BY <2>1, PricingAssumption DEF CartRecord
    <3> HIDE DEF c
    <3>3. Serving(c.items)[d] >= 2 * guests
      BY <2>5, <3>2 DEF Serving
    <3>4. /\ totalServings(c.items) = SumFunctionOnSet(Serving(c.items), Listed)
          /\ \A e \in Listed : Serving(c.items)[e] \in Nat
      BY <3>2, CartSums
    <3>5. /\ SumFunctionOnSet(Serving(c.items), Listed) \in Nat
          /\ SumFunctionOnSet(Serving(c.items), Listed) >= Serving(c.items)[d]
      BY <3>2, <3>4, SumAtLeast
    <3>6. Serving(c.items)[d] \in Nat /\ 2 * guests \in Nat
      BY <2>1, <3>2, <3>4
    <3>7. QED
      BY <3>3, <3>4, <3>5, <3>6
  <2>7. QED
    BY <2>4, <2>5, <2>6 DEF covered
<1>2. ShopInv /\ ShopInv' => [Step]_<<cartVars, shopVars>>
  BY <1>1
<1>3. QED
  BY <1>2, ShopInvariance, PTL DEF EachDishSized
=============================================================================

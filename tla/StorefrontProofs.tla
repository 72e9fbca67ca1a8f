-------------------------- MODULE StorefrontProofs --------------------------
(***************************************************************************)
(* Proofs about Ingestion and the Storefront over it, for every set of          *)
(* restaurants, any number of checkouts and of submits of each, and every way    *)
(* their posts may overlap and fail. The storefront's steps are steps of         *)
(* Ingestion, whose invariant then holds; the rest of the argument is that an    *)
(* idempotency key is recorded with the post that committed it, which is one of  *)
(* this checkout and restaurant.                                               *)
(***************************************************************************)
EXTENDS Storefront, TLAPS

-----------------------------------------------------------------------------
(* Ingestion: its inductive invariant, that exactly the recorded orders are    *)
(* announced, and that it implements IdempotentService                       *)

LEMMA InitInd == ASSUME Init PROVE IndInv
<1> USE IngestionAssumption
<1>1. TypeOK
  BY DEF Init, TypeOK, Phase
<1>2. (\A r \in Request : TransactionOK(r)) /\ AnnouncedIsOrdered
  BY DEF Init, TransactionOK, AnnouncedIsOrdered
<1>3. QED
  BY <1>1, <1>2 DEF IndInv

\* Steps that commit nothing: only the handler of r moves, and it is fine.
LEMMA QuietStep ==
    ASSUME IndInv, TypeOK', NEW r \in Request, TransactionOK(r)',
           UNCHANGED <<orders, outbox>>,
           \A q \in Request \ {r} :
               /\ phase'[q] = phase[q] /\ key'[q] = key[q] /\ orderId'[q] = orderId[q]
               /\ holder[key[q]] = q => holder'[key[q]] = q
    PROVE  IndInv'
<1>1. ASSUME NEW q \in Request PROVE TransactionOK(q)'
  <2>1. CASE q = r
    BY <2>1
  <2>2. CASE q # r
    BY <2>2 DEF IndInv, TransactionOK
  <2>3. QED
    BY <2>1, <2>2
<1>2. AnnouncedIsOrdered'
  BY DEF IndInv, AnnouncedIsOrdered
<1>3. QED
  BY <1>1, <1>2 DEF IndInv

LEMMA StepInd == ASSUME IndInv, [Next]_vars PROVE IndInv'
<1> USE IngestionAssumption
<1>1. CASE UNCHANGED vars
  BY <1>1 DEF vars, IndInv, TypeOK, TransactionOK, AnnouncedIsOrdered
<1>2. ASSUME NEW r \in Request, NEW k \in Key, Arrive(r, k) PROVE IndInv'
  <2>1. TypeOK' /\ TransactionOK(r)'
    BY <1>2 DEF Arrive, Go, Fresh, IndInv, TypeOK, Phase, TransactionOK
  <2>2. QED
    BY <1>2, <2>1, QuietStep DEF Arrive, Go, IndInv, TypeOK
<1>3. ASSUME NEW r \in Request, Insert(r) PROVE IndInv'
  <2>1. TypeOK' /\ TransactionOK(r)'
    BY <1>3 DEF Insert, Go, IndInv, TypeOK, Phase, TransactionOK
  <2>2. QED
    BY <1>3, <2>1, QuietStep DEF Insert, Go, IndInv, TypeOK
<1>4. ASSUME NEW r \in Request, NEW id \in OrderId, phase[r] # "idle",
             Answer(r, id), UNCHANGED <<orders, holder, outbox, key>>
      PROVE  IndInv'
  <2>1. TypeOK' /\ TransactionOK(r)'
    BY <1>4 DEF Answer, Go, IndInv, TypeOK, Phase, TransactionOK
  <2>2. QED
    BY <1>4, <2>1, QuietStep DEF Answer, Go, IndInv, TypeOK
<1>5. ASSUME NEW r \in Request, Duplicate(r) PROVE IndInv'
  <2>1. orders[key[r]] \in OrderId
    BY <1>5 DEF Duplicate, IndInv, TypeOK, TransactionOK
  <2>2. QED
    BY <1>5, <1>4, <2>1 DEF Duplicate
<1>6. ASSUME NEW r \in Request, Reply(r) PROVE IndInv'
  <2>1. orderId[r] \in OrderId
    BY <1>6 DEF Reply, IndInv, TypeOK, TransactionOK
  <2>2. QED
    BY <1>6, <1>4, <2>1 DEF Reply
<1>7. ASSUME NEW r \in Request, Commit(r) PROVE IndInv'
  <2>1. orderId[r] \in OrderId
    BY <1>7 DEF Commit, IndInv, TypeOK, TransactionOK
  <2>2. holder[key[r]] = r /\ orders[key[r]] = None
    BY <1>7 DEF Commit, IndInv, TransactionOK
  <2>3. TypeOK'
    BY <1>7, <2>1 DEF Commit, Go, IndInv, TypeOK, Phase
  <2>4. ASSUME NEW q \in Request PROVE TransactionOK(q)'
    <3>1. CASE q = r
      BY <1>7, <2>1, <3>1 DEF Commit, Go, IndInv, TypeOK, TransactionOK
    <3>2. CASE q # r /\ key[q] = key[r]
      \* q holds no insert of the key (r does), and found nothing under it.
      <4>1. phase[q] \notin {"inserted", "conflict", "committed"}
        BY <2>2, <3>2 DEF IndInv, TypeOK, TransactionOK
      <4>2. QED
        BY <1>7, <3>2, <4>1 DEF Commit, Go, IndInv, TypeOK, TransactionOK
    <3>3. CASE q # r /\ key[q] # key[r]
      BY <1>7, <3>3 DEF Commit, Go, IndInv, TypeOK, TransactionOK
    <3>4. QED
      BY <3>1, <3>2, <3>3
  <2>5. AnnouncedIsOrdered'
    <3>1. /\ key[r] \in Key /\ orders \in [Key -> OrderId \cup {None}]
          /\ orders' = [orders EXCEPT ![key[r]] = orderId[r]]
          /\ outbox' = outbox \cup {orderId[r]}
      BY <1>7 DEF Commit, IndInv, TypeOK
    <3>2. {orders'[k] : k \in Key} \ {None} = ({orders[k] : k \in Key} \ {None}) \cup {orderId[r]}
      BY <2>1, <2>2, <3>1
    <3>3. QED
      BY <3>1, <3>2 DEF IndInv, AnnouncedIsOrdered
  <2>6. QED
    BY <2>3, <2>4, <2>5 DEF IndInv
<1>8. ASSUME NEW r \in Request, Fail(r) PROVE IndInv'
  <2>1. TypeOK' /\ TransactionOK(r)'
    BY <1>8 DEF Fail, Go, IndInv, TypeOK, Phase, TransactionOK
  <2>2. QED
    BY <1>8, <2>1, QuietStep DEF Fail, Go, IndInv, TypeOK
<1>9. QED
  BY <1>1, <1>2, <1>3, <1>5, <1>6, <1>7, <1>8 DEF Next

\* The inductive invariant holds of every behaviour, for every number of
\* overlapping posts.
THEOREM IngestionInvariance == Spec => []IndInv
BY InitInd, StepInd, PTL DEF Spec

\* Exactly one order per key is announced to the pipeline.
THEOREM OneAnnouncementPerKey == Spec => []AnnouncedIsOrdered
<1>1. IndInv => AnnouncedIsOrdered
  BY DEF IndInv
<1>2. QED
  BY <1>1, IngestionInvariance, PTL

-----------------------------------------------------------------------------
\* A step commits the first order of its key, answers with the recorded one, or
\* leaves table and answers alone.
LEMMA StepMaps == ASSUME IndInv, [Next]_vars PROVE [Service!Next]_(Service!vars)
<1> USE IngestionAssumption DEF Service!vars, Service!Next, Service!Record, Service!Answer
<1>1. ASSUME NEW r \in Request, Commit(r) PROVE Service!Next
  <2>1. key[r] \in Key /\ orderId[r] \in OrderId /\ orders[key[r]] = None
    BY <1>1 DEF Commit, IndInv, TypeOK, TransactionOK
  <2>2. QED
    BY <1>1, <2>1 DEF Commit
<1>2. ASSUME NEW r \in Request, orders[key[r]] # None,
             Answer(r, orders[key[r]]), UNCHANGED orders
      PROVE  Service!Next
  BY <1>2 DEF Answer, IndInv, TypeOK
<1>3. ASSUME NEW r \in Request, Duplicate(r) PROVE Service!Next
  <2>1. orders[key[r]] # None
    BY <1>3 DEF Duplicate, IndInv, TransactionOK
  <2>2. QED
    BY <1>2, <1>3, <2>1 DEF Duplicate
<1>4. ASSUME NEW r \in Request, Reply(r) PROVE Service!Next
  <2>1. orders[key[r]] = orderId[r] /\ orderId[r] # None
    BY <1>4 DEF Reply, IndInv, TransactionOK
  <2>2. QED
    BY <1>2, <1>4, <2>1 DEF Reply
<1>5. ASSUME NEW r \in Request,
             (\E k \in Key : Arrive(r, k)) \/ Insert(r) \/ Fail(r)
      PROVE  UNCHANGED Service!vars
  BY <1>5 DEF Arrive, Insert, Fail
<1>6. ASSUME UNCHANGED vars PROVE UNCHANGED Service!vars
  BY <1>6 DEF vars
<1>7. QED
  BY <1>1, <1>3, <1>4, <1>5, <1>6 DEF Next

\* ingestion-svc implements IdempotentService: every client of a key learns the
\* one order recorded for it.
THEOREM IngestionIsIdempotent == Spec => Implements
<1>1. Init => Service!Init
  BY DEF Init, Service!Init
<1>2. IndInv /\ [Next]_vars => [Service!Next]_(Service!vars)
  BY StepMaps
<1>3. QED
  BY <1>1, <1>2, IngestionInvariance, PTL DEF Spec, Implements, Service!Spec

\* What a caller was told stays what is recorded: a step records only where nothing is,
\* and answers only with what is recorded.
LEMMA AnswersStay ==
    ASSUME TypeOK, Service!AnswersStand, [Service!Next]_(Service!vars)
    PROVE  Service!AnswersStand'
<1> USE IngestionAssumption DEF Service!AnswersStand, TypeOK
<1>1. CASE UNCHANGED Service!vars
  BY <1>1 DEF Service!vars
<1>2. ASSUME NEW k \in Key, Service!Answer(k) PROVE Service!AnswersStand'
  BY <1>2 DEF Service!Answer
<1>3. ASSUME NEW k \in Key, NEW v \in OrderId, Service!Record(k, v)
      PROVE  Service!AnswersStand'
  <2>1. \A a \in answers : a[1] \in Key /\ a[2] # None
    OBVIOUS
  <2>2. QED
    BY <1>3, <2>1 DEF Service!Record
<1>4. QED
  BY <1>1, <1>2, <1>3 DEF Service!Next

\* No two posts under one key are told different orders by place_order, whichever of
\* them committed and whichever lost its answer.
THEOREM PostersAgree == Spec => []Service!CallersAgree
<1>1. Service!Init => Service!AnswersStand
  BY DEF Service!Init, Service!AnswersStand
<1>2. TypeOK /\ Service!AnswersStand /\ [Service!Next]_(Service!vars) => Service!AnswersStand'
  BY AnswersStay
<1>3. Service!AnswersStand => Service!CallersAgree
  BY DEF Service!AnswersStand, Service!CallersAgree
<1>4. IndInv => TypeOK
  BY DEF IndInv
<1>5. QED
  BY <1>1, <1>2, <1>3, <1>4, IngestionInvariance, IngestionIsIdempotent, PTL DEF Implements, Service!Spec

-----------------------------------------------------------------------------
(* Posts, calls and keys                                                     *)

LEMMA CallShape ==
    ASSUME NEW c \in Call
    PROVE  /\ c = <<c[1], c[2]>> /\ c[1] \in Checkout /\ c[2] \in Nat \ {0}
           /\ Checkout \subseteq Nat \ {0}
BY StorefrontAssumption

LEMMA PostShape ==
    ASSUME NEW q \in Request
    PROVE  /\ q = <<q[1], q[2], q[3]>>
           /\ q[1] \in Checkout /\ q[2] \in Restaurant /\ q[3] \in Nat \ {0}
           /\ KeyOf(q) \in Key /\ CallOf(q) \in Call /\ q \in OrderId /\ q # None
<1>1. PICK c \in Call, r \in Restaurant : q = <<c[1], r, c[2]>>
  BY StorefrontAssumption
<1>2. c = <<c[1], c[2]>> /\ c[1] \in Checkout /\ c[2] \in Nat \ {0}
  BY CallShape
<1>3. q[1] = c[1] /\ q[2] = r /\ q[3] = c[2]
  BY <1>1
<1>4. CallOf(q) \in Call /\ KeyOf(q) \in Key
  BY <1>2, <1>3, StorefrontAssumption DEF CallOf, KeyOf
<1>5. q \in OrderId /\ q # None
  BY StorefrontAssumption, IngestionAssumption
<1>6. QED
  BY <1>1, <1>2, <1>3, <1>4, <1>5

LEMMA PostOfCall ==
    ASSUME NEW c \in Call, NEW r \in Restaurant
    PROVE  /\ <<c[1], r, c[2]>> \in Request
           /\ CallOf(<<c[1], r, c[2]>>) = c /\ KeyOf(<<c[1], r, c[2]>>) = <<c[1], r>>
<1>1. <<c[1], r, c[2]>> \in Request
  BY StorefrontAssumption
<1>2. c = <<c[1], c[2]>>
  BY CallShape
<1>3. QED
  BY <1>1, <1>2 DEF CallOf, KeyOf

-----------------------------------------------------------------------------
(* The storefront is a client of ingestion                                   *)

LEMMA StepIsIngestion == ASSUME [StoreNext]_<<vars, storeVars>> PROVE [Next]_vars
<1>1. ASSUME Customer \/ (\E k \in Checkout : Continuation(k)) \/ (\E c \in Call : Handler(c))
      PROVE  UNCHANGED vars
  BY <1>1 DEF Customer, Edit, Browse, OpenCheckout, Reload, goNext, goBack, goTo, Stepper, StepTo, submitOrder,
              Continuation, Confirmed, Disappointed, Handler, Refuse, placeCart, Placed, Rejected
<1>2. ASSUME NEW q \in Request, Delivery(q) PROVE [Next]_vars
  <2>1. CASE Receive(q)
    <3>1. Arrive(q, KeyOf(q)) /\ KeyOf(q) \in Key
      BY <2>1, PostShape DEF Receive
    <3>2. QED
      BY <3>1 DEF Next
  <2>2. CASE Serve(q)
    BY <2>2 DEF Serve, Next
  <2>3. CASE Accept(q)
    BY <2>3 DEF Accept, Next
  <2>4. CASE Answered(q)
    BY <2>4 DEF Answered, Next
  <2>5. CASE PostFails(q)
    BY <2>5 DEF PostFails, Next
  <2>6. QED
    BY <1>2, <2>1, <2>2, <2>3, <2>4, <2>5 DEF Delivery
<1>3. CASE UNCHANGED <<vars, storeVars>>
  BY <1>3
<1>4. QED
  BY <1>1, <1>2, <1>3 DEF StoreNext

\* Whatever customers and their checkouts do, ingestion does what it does for any
\* clients: its theorems hold of the storefront.
THEOREM StorefrontUsesIngestion == StoreSpec => Spec
<1>1. StoreInit => Init
  BY DEF StoreInit
<1>2. QED
  BY <1>1, StepIsIngestion, PTL DEF StoreSpec, Spec

\* In particular each of the storefront's posts knows of its key what its transaction has
\* done, and exactly the recorded orders are announced (place_order).
THEOREM StoreIngestionInvariance == StoreSpec => []IndInv
BY StorefrontUsesIngestion, IngestionInvariance

\* Exactly one order per checkout and restaurant is announced to the pipeline.
THEOREM StoreAnnouncesOnce == StoreSpec => []AnnouncedIsOrdered
BY StorefrontUsesIngestion, OneAnnouncementPerKey

\* Every submit of a checkout learns the one order recorded for its restaurant.
THEOREM StoreIsIdempotent == StoreSpec => Implements
BY StorefrontUsesIngestion, IngestionIsIdempotent

\* However often a checkout is submitted, each of its restaurants is told one order.
THEOREM SubmitsAgree == StoreSpec => []Service!CallersAgree
BY StorefrontUsesIngestion, PostersAgree

-----------------------------------------------------------------------------
(* The invariant                                                             *)

\* A post is served under its own key and order_id; what is posted was submitted.
KeyFixed == \A q \in Request : key[q] = KeyOf(q)
Serving  == \A q \in Request : phase[q] # "idle" => post[q] = "serving" /\ orderId[q] = q
Posted   == \A q \in Request : post[q] # "unsent" =>
                Lines(q) > 0 /\ call[CallOf(q)] \notin {"none", "requested"}

\* A key is recorded with a post of its own, and the quantity that post carries.
RecordedAs(k) ==
    IF orders[k] = None THEN ordered[k] = 0
    ELSE /\ orders[k] \in Request /\ KeyOf(orders[k]) = k
         /\ post[orders[k]] # "unsent" /\ ordered[k] = Lines(orders[k])
Recorded == \A k \in Key : RecordedAs(k)

\* An answer names what is recorded, and a token is made of answers.
Heard ==
    \A q \in Request : /\ got[q] # None => got[q] = orders[KeyOf(q)]
                       /\ post[q] = "answered" => got[q] # None
AllAnswered ==
    \A q \in Request : call[CallOf(q)] = "answered" /\ Lines(q) > 0 => post[q] = "answered"

PostInv == KeyFixed /\ Serving /\ Posted /\ Recorded /\ Heard /\ AllAnswered

\* Submits are counted; a checkout is mounted before it is submitted.
Counted ==
    /\ \A c \in Call : call[c] # "none" => c[2] <= tries[c[1]]
    /\ \A k \in Checkout : tries[k] # 0 => k <= checkout /\ <<k, tries[k]>> \in Call

\* A confirmed checkout is not submitted again.
Settled ==
    \A k \in Checkout : confirmed[k] # 0 =>
        /\ confirmed[k] = tries[k] /\ call[<<k, tries[k]>>] = "answered"
        /\ ~(page = "checkout" /\ checkout = k)

\* Who awaits an answer has submitted the cart as it is, unless it was edited since.
Unedited ==
    \A k \in waiting : /\ tries[k] # 0
                       /\ k \notin edited => cart = submitted[<<k, tries[k]>>]

ClientInv == Counted /\ Settled /\ Unedited

StoreInv == StoreTypeOK /\ IndInv /\ PostInv /\ ClientInv

-----------------------------------------------------------------------------
(* Types                                                                     *)

LEMMA Empty == EmptyCart \in Cart
BY StorefrontAssumption DEF EmptyCart, Cart

LEMMA StoreInitInv == ASSUME StoreInit PROVE StoreInv
<1>1. StoreTypeOK
  BY Empty, StorefrontAssumption DEF StoreInit, StoreTypeOK
<1>2. IndInv
  BY InitInd DEF StoreInit
<1>3. PostInv
  <2>1. \A q \in Request : KeyOf(q) \in Key /\ CallOf(q) \in Call
    BY PostShape
  <2>2. QED
    BY <2>1 DEF StoreInit, Init, PostInv, KeyFixed, Serving, Posted, Recorded, RecordedAs, Heard, AllAnswered
<1>4. ClientInv
  BY DEF StoreInit, ClientInv, Counted, Settled, Unedited
<1>5. QED
  BY <1>1, <1>2, <1>3, <1>4 DEF StoreInv

LEMMA CustomerTypes == ASSUME StoreInv, Customer PROVE StoreTypeOK'
<1> USE DEF StoreInv, StoreTypeOK
<1>1. ASSUME NEW r \in Restaurant, Edit(r) PROVE StoreTypeOK'
  BY <1>1 DEF Edit, Cart, serverVars
<1>2. ASSUME NEW p \in {"shop", "order"}, Browse(p) PROVE StoreTypeOK'
  BY <1>2, StorefrontAssumption DEF Browse, clientVars, serverVars
<1>3. ASSUME OpenCheckout PROVE StoreTypeOK'
  BY <1>3, StorefrontAssumption DEF OpenCheckout, Mount, clientVars, serverVars
<1>4. ASSUME Reload PROVE StoreTypeOK'
  BY <1>4, StorefrontAssumption DEF Reload, Mount, serverVars
<1>5. ASSUME NEW i \in 0..LastStep, StepTo(i) PROVE StoreTypeOK'
  BY <1>5 DEF StepTo, clientVars, serverVars
<1>6. ASSUME goNext \/ goBack PROVE StoreTypeOK'
  <2>1. step + 1 \in 0..LastStep \/ ~goNext
    BY StorefrontAssumption DEF goNext
  <2>2. step - 1 \in 0..LastStep \/ ~goBack
    BY StorefrontAssumption DEF goBack
  <2>3. QED
    BY <1>5, <1>6, <2>1, <2>2 DEF goNext, goBack
<1>7. ASSUME submitOrder PROVE StoreTypeOK'
  <2>1. checkout \in Checkout /\ tries[checkout] + 1 \in Nat
    BY <1>7, StorefrontAssumption, CallShape DEF submitOrder
  <2>2. QED
    BY <1>7, <2>1 DEF submitOrder, pageVars
<1>8. QED
  BY <1>1, <1>2, <1>3, <1>4, <1>5, <1>6, <1>7 DEF Customer, goTo, Stepper

LEMMA ContinuationTypes ==
    ASSUME StoreInv, NEW k \in Checkout, Continuation(k)
    PROVE  StoreTypeOK'
<1> USE DEF StoreInv, StoreTypeOK
<1>1. CASE Confirmed(k)
  BY <1>1, Empty, StorefrontAssumption DEF Confirmed, serverVars
<1>2. CASE Disappointed(k)
  BY <1>2 DEF Disappointed, serverVars, pageVars
<1>3. QED
  BY <1>1, <1>2 DEF Continuation

LEMMA ServerTypes ==
    ASSUME StoreInv, (\E c \in Call : Handler(c)) \/ (\E q \in Request : Delivery(q))
    PROVE  StoreTypeOK'
<1> USE DEF StoreInv, StoreTypeOK, pageVars, clientVars
<1>1. ASSUME NEW c \in Call, Handler(c) PROVE StoreTypeOK'
  BY <1>1 DEF Handler, Refuse, placeCart, Placed, Rejected
<1>2. ASSUME NEW q \in Request, Delivery(q) PROVE StoreTypeOK'
  <2>1. CASE Receive(q)
    BY <2>1 DEF Receive
  <2>2. CASE Serve(q)
    BY <2>2 DEF Serve, storeVars
  <2>3. CASE Accept(q)
    <3>1. KeyOf(q) \in Key /\ Lines(q) \in 0..MaxQty
      BY PostShape DEF Lines, Cart
    <3>2. QED
      BY <2>3, <3>1 DEF Accept
  <2>4. CASE Answered(q)
    <3>1. got' \in [Request -> OrderId \cup {None}]
      BY <2>4, PostShape DEF Answered, IndInv, TypeOK
    <3>2. QED
      BY <2>4, <3>1 DEF Answered
  <2>5. CASE PostFails(q)
    BY <2>5 DEF PostFails
  <2>6. QED
    BY <1>2, <2>1, <2>2, <2>3, <2>4, <2>5 DEF Delivery
<1>3. QED
  BY <1>1, <1>2

-----------------------------------------------------------------------------
(* The browser                                                               *)

\* What happens in the browser short of a submit leaves the posts alone.
LEMMA BrowserPosts ==
    ASSUME StoreInv, UNCHANGED <<vars, serverVars, submitted>>
    PROVE  PostInv'
BY DEF StoreInv, PostInv, KeyFixed, Serving, Posted, Recorded, RecordedAs, Heard, AllAnswered,
       vars, serverVars, Lines

\* What happens in the servers leaves the browser alone; they end no submit twice.
LEMMA ServerClients ==
    ASSUME StoreInv, UNCHANGED <<pageVars, clientVars>>,
           \A c \in Call : call'[c] = call[c] \/ (call[c] \notin {"none", "answered"})
    PROVE  ClientInv'
<1>1. Counted'
  BY DEF StoreInv, ClientInv, Counted, pageVars, clientVars
<1>2. Settled'
  BY DEF StoreInv, ClientInv, Counted, Settled, pageVars, clientVars
<1>3. Unedited'
  BY DEF StoreInv, ClientInv, Unedited, pageVars, clientVars
<1>4. QED
  BY <1>1, <1>2, <1>3 DEF ClientInv

LEMMA CustomerClients == ASSUME StoreInv, Customer, ~submitOrder PROVE ClientInv'
<1>1. checkout \in Nat /\ \A k \in Checkout : k \in Nat /\ tries[k] \in Nat
  BY StorefrontAssumption DEF StoreInv, StoreTypeOK
<1>2. ASSUME NEW r \in Restaurant, Edit(r) PROVE ClientInv'
  BY <1>2 DEF Edit, serverVars, StoreInv, ClientInv, Counted, Settled, Unedited
<1>3. ASSUME NEW p \in {"shop", "order"}, Browse(p) PROVE ClientInv'
  BY <1>3 DEF Browse, clientVars, serverVars, StoreInv, ClientInv, Counted, Settled, Unedited
<1>4. ASSUME OpenCheckout PROVE ClientInv'
  BY <1>1, <1>4 DEF OpenCheckout, Mount, clientVars, serverVars, StoreInv, ClientInv, Counted, Settled, Unedited
<1>5. ASSUME Reload PROVE ClientInv'
  BY <1>1, <1>5 DEF Reload, Mount, serverVars, StoreInv, ClientInv, Counted, Settled, Unedited
<1>6. ASSUME NEW i, StepTo(i) PROVE ClientInv'
  BY <1>6 DEF StepTo, clientVars, serverVars, StoreInv, ClientInv, Counted, Settled, Unedited
<1>7. QED
  BY <1>2, <1>3, <1>4, <1>5, <1>6 DEF Customer, goNext, goBack, goTo, Stepper

LEMMA CustomerPosts == ASSUME StoreInv, Customer, ~submitOrder PROVE PostInv'
<1>1. UNCHANGED <<vars, serverVars, submitted>>
  BY DEF Customer, Edit, Browse, OpenCheckout, Reload, goNext, goBack, goTo, Stepper, StepTo, clientVars
<1>2. QED
  BY <1>1, BrowserPosts

LEMMA ContinuationInv ==
    ASSUME StoreInv, NEW k \in Checkout, Continuation(k)
    PROVE  PostInv' /\ ClientInv'
<1>1. UNCHANGED <<vars, serverVars, submitted, tries, checkout>>
  BY DEF Continuation, Confirmed, Disappointed, pageVars
<1>2. PostInv'
  BY <1>1, BrowserPosts
<1>3. CASE Confirmed(k)
  <2>1. Counted'
    BY <1>1 DEF StoreInv, ClientInv, Counted, serverVars
  <2>2. Settled'
    BY <1>1, <1>3 DEF Confirmed, StoreInv, StoreTypeOK, ClientInv, Settled, serverVars
  <2>3. Unedited'
    BY <1>1, <1>3 DEF Confirmed, StoreInv, ClientInv, Unedited
  <2>4. QED
    BY <1>2, <2>1, <2>2, <2>3 DEF ClientInv
<1>4. CASE Disappointed(k)
  BY <1>2, <1>4 DEF Disappointed, pageVars, serverVars, StoreInv, ClientInv, Counted, Settled, Unedited
<1>5. QED
  BY <1>2, <1>3, <1>4 DEF Continuation

\* A submit is a call that had not begun, with none of its posts sent.
LEMMA SubmitInv == ASSUME StoreInv, submitOrder PROVE PostInv' /\ ClientInv'
<1> DEFINE c == <<checkout, tries[checkout] + 1>>
<1>1. /\ c \in Call /\ checkout \in Checkout /\ c[1] = checkout /\ c[2] = tries[checkout] + 1
      /\ tries[checkout] \in Nat /\ checkout \in Nat
  BY CallShape DEF submitOrder, StoreInv, StoreTypeOK
<1>2. call[c] = "none"
  <2>1. c[2] <= tries[c[1]] \/ call[c] = "none"
    BY <1>1 DEF StoreInv, ClientInv, Counted
  <2> HIDE DEF c
  <2>2. QED
    BY <1>1, <2>1
<1>3. /\ submitted' = [submitted EXCEPT ![c] = cart]
      /\ call' = [call EXCEPT ![c] = "requested"]
      /\ tries' = [tries EXCEPT ![checkout] = @ + 1]
      /\ waiting' = waiting \cup {checkout}
      /\ edited' = edited \ {checkout}
      /\ UNCHANGED <<pageVars, confirmed, post, got, ordered, vars>>
  BY DEF submitOrder
<1>4. tries'[checkout] = tries[checkout] + 1 /\ \A k \in Checkout : k # checkout => tries'[k] = tries[k]
  BY <1>1, <1>3 DEF StoreInv, StoreTypeOK
<1>5. call'[c] = "requested" /\ \A d \in Call : d # c => call'[d] = call[d]
  BY <1>1, <1>3 DEF StoreInv, StoreTypeOK
<1>6. submitted'[c] = cart /\ \A d \in Call : d # c => submitted'[d] = submitted[d]
  BY <1>1, <1>3 DEF StoreInv, StoreTypeOK
<1>7. confirmed[checkout] = 0
  BY <1>1 DEF submitOrder, CanPlace, StoreInv, StoreTypeOK, ClientInv, Settled
<1>8. ASSUME NEW d \in Call PROVE d[1] \in Checkout /\ d[2] \in Nat /\ d = <<d[1], d[2]>>
  BY CallShape
<1>9. ASSUME NEW q \in Request
      PROVE  /\ CallOf(q) \in Call
             /\ CallOf(q) = c => post[q] = "unsent"
             /\ CallOf(q) # c => Lines(q)' = Lines(q) /\ call'[CallOf(q)] = call[CallOf(q)]
  <2>1. CallOf(q) \in Call
    BY PostShape
  <2>2. CallOf(q) = c => post[q] = "unsent"
    BY <1>2 DEF StoreInv, PostInv, Posted
  <2> HIDE DEF c
  <2>3. CallOf(q) # c => Lines(q)' = Lines(q) /\ call'[CallOf(q)] = call[CallOf(q)]
    BY <1>5, <1>6, <2>1 DEF Lines, CallOf
  <2>4. QED
    BY <2>1, <2>2, <2>3
<1> HIDE DEF c
<1>10. PostInv'
  <2>1. KeyFixed' /\ Serving' /\ Heard'
    BY <1>3 DEF StoreInv, PostInv, KeyFixed, Serving, Heard, vars
  <2>2. Posted'
    BY <1>3, <1>9 DEF StoreInv, PostInv, Posted
  <2>3. Recorded'
    BY <1>3, <1>9 DEF StoreInv, PostInv, Recorded, RecordedAs, vars
  <2>4. AllAnswered'
    <3>1. ASSUME NEW q \in Request, call'[CallOf(q)] = "answered", Lines(q)' > 0
          PROVE  post'[q] = "answered"
      <4>1. CallOf(q) # c
        BY <1>5, <3>1
      <4>2. QED
        BY <1>3, <1>9, <3>1, <4>1 DEF StoreInv, PostInv, AllAnswered
    <3>2. QED
      BY <3>1 DEF AllAnswered
  <2>5. QED
    BY <2>1, <2>2, <2>3, <2>4 DEF PostInv
<1>11. ClientInv'
  <2>1. Counted'
    <3>1. ASSUME NEW d \in Call, call'[d] # "none" PROVE d[2] <= tries'[d[1]]
      <4>1. CASE d = c
        BY <1>1, <1>4, <4>1
      <4>2. CASE d # c
        <5>1. d[2] <= tries[d[1]] /\ d[1] \in Checkout /\ d[2] \in Nat
          BY <1>5, <1>8, <3>1, <4>2 DEF StoreInv, ClientInv, Counted
        <5>2. tries[d[1]] \in Nat
          BY <5>1 DEF StoreInv, StoreTypeOK
        <5>3. CASE d[1] = checkout
          BY <1>4, <5>1, <5>2, <5>3
        <5>4. CASE d[1] # checkout
          BY <1>4, <5>1, <5>4
        <5>5. QED
          BY <5>3, <5>4
      <4>3. QED
        BY <4>1, <4>2
    <3>2. ASSUME NEW k \in Checkout, tries'[k] # 0
          PROVE  k <= checkout' /\ <<k, tries'[k]>> \in Call
      <4>1. checkout' = checkout
        BY <1>3 DEF pageVars
      <4>2. CASE k = checkout
        BY <1>1, <1>4, <4>1, <4>2 DEF c
      <4>3. CASE k # checkout
        BY <1>4, <3>2, <4>1, <4>3 DEF StoreInv, ClientInv, Counted
      <4>4. QED
        BY <4>2, <4>3
    <3>3. QED
      BY <3>1, <3>2 DEF Counted
  <2>2. Settled'
    <3>1. ASSUME NEW k \in Checkout, confirmed'[k] # 0
          PROVE  /\ confirmed'[k] = tries'[k] /\ call'[<<k, tries'[k]>>] = "answered"
                 /\ ~(page' = "checkout" /\ checkout' = k)
      <4>1. k # checkout /\ confirmed[k] # 0
        BY <1>3, <1>7, <3>1
      <4>2. /\ confirmed[k] = tries[k] /\ call[<<k, tries[k]>>] = "answered"
            /\ ~(page = "checkout" /\ checkout = k) /\ <<k, tries[k]>> \in Call
        BY <4>1 DEF StoreInv, ClientInv, Settled, Counted
      <4>3. <<k, tries[k]>> # c
        BY <1>1, <4>1
      <4>4. QED
        BY <1>3, <1>4, <1>5, <4>1, <4>2, <4>3 DEF pageVars
    <3>2. QED
      BY <3>1 DEF Settled
  <2>3. Unedited'
    <3>1. ASSUME NEW k \in waiting'
          PROVE  tries'[k] # 0 /\ (k \notin edited' => cart' = submitted'[<<k, tries'[k]>>])
      <4>1. cart' = cart
        BY <1>3 DEF pageVars
      <4>2. CASE k = checkout
        <5>1. <<k, tries'[k]>> = c
          BY <1>4, <4>2 DEF c
        <5>2. QED
          BY <1>1, <1>4, <1>6, <4>1, <4>2, <5>1
      <4>3. CASE k # checkout
        <5>1. k \in waiting /\ k \in Checkout
          BY <1>3, <3>1, <4>3 DEF StoreInv, StoreTypeOK
        <5>2. tries[k] # 0 /\ (k \notin edited => cart = submitted[<<k, tries[k]>>])
          BY <5>1 DEF StoreInv, ClientInv, Unedited
        <5>3. <<k, tries[k]>> \in Call /\ <<k, tries[k]>> # c
          BY <1>1, <4>3, <5>1, <5>2 DEF StoreInv, ClientInv, Counted
        <5>4. QED
          BY <1>3, <1>4, <1>6, <4>1, <4>3, <5>1, <5>2, <5>3
      <4>4. QED
        BY <4>2, <4>3
    <3>2. QED
      BY <3>1 DEF Unedited
  <2>4. QED
    BY <2>1, <2>2, <2>3 DEF ClientInv
<1>12. QED
  BY <1>10, <1>11

-----------------------------------------------------------------------------
(* The servers                                                               *)

LEMMA HandlerInv ==
    ASSUME StoreInv, NEW c \in Call, Handler(c)
    PROVE  PostInv' /\ ClientInv'
<1> USE DEF StoreInv
<1>1. \A q \in Request : CallOf(q) \in Call
  BY PostShape
<1>2. UNCHANGED <<vars, pageVars, clientVars, got, ordered>>
  BY DEF Handler, Refuse, placeCart, Placed, Rejected
<1>3. /\ call[c] \in {"requested", "posting"} /\ call'[c] \notin {"none", "requested"}
      /\ \A d \in Call \ {c} : call'[d] = call[d]
  BY DEF Handler, Refuse, placeCart, Placed, Rejected, StoreTypeOK
<1>4. ClientInv'
  <2>1. \A d \in Call : call'[d] = call[d] \/ call[d] \notin {"none", "answered"}
    BY <1>3
  <2>2. QED
    BY <1>2, <2>1, ServerClients
<1>5. \A q \in Request : Lines(q)' = Lines(q)
  BY <1>2 DEF Lines, clientVars
<1>6. KeyFixed' /\ Heard' /\ Serving' /\ Posted' /\ AllAnswered' /\ Recorded'
  <2>1. CASE placeCart(c)
    \* None of its posts was sent before.
    <3>1. \A q \in Request : /\ q \in Posts(c) => CallOf(q) = c /\ Lines(q) > 0 /\ post[q] = "unsent"
                             /\ post'[q] = IF q \in Posts(c) THEN "sent" ELSE post[q]
      BY <2>1 DEF placeCart, Posts, PostInv, Posted
    <3>2. KeyFixed' /\ Heard' /\ Serving'
      BY <1>2, <3>1 DEF PostInv, KeyFixed, Heard, Serving, vars
    <3>3. Posted'
      BY <1>1, <1>3, <1>5, <3>1 DEF PostInv, Posted
    <3>4. call'[c] = "posting"
      BY <2>1 DEF placeCart, StoreTypeOK
    <3>5. AllAnswered'
      BY <1>1, <1>3, <1>5, <3>1, <3>4 DEF PostInv, AllAnswered
    <3>6. Recorded'
      BY <1>2, <1>5, <3>1 DEF PostInv, Recorded, RecordedAs, vars
    <3>7. QED
      BY <3>2, <3>3, <3>5, <3>6
  <2>2. CASE UNCHANGED post /\ (call'[c] = "answered" => \A q \in Posts(c) : post[q] = "answered")
    <3>1. KeyFixed' /\ Heard' /\ Serving'
      BY <1>2, <2>2 DEF PostInv, KeyFixed, Heard, Serving, vars
    <3>2. Posted'
      BY <1>1, <1>3, <1>5, <2>2 DEF PostInv, Posted
    <3>3. AllAnswered'
      BY <1>1, <1>3, <1>5, <2>2 DEF PostInv, AllAnswered, Posts
    <3>4. Recorded'
      BY <1>2, <1>5, <2>2 DEF PostInv, Recorded, RecordedAs, vars
    <3>5. QED
      BY <3>1, <3>2, <3>3, <3>4
  <2>3. CASE Refuse(c) \/ Placed(c) \/ Rejected(c)
    BY <2>2, <2>3 DEF Refuse, Placed, Rejected, StoreTypeOK
  <2>4. QED
    BY <2>1, <2>3 DEF Handler
<1>7. QED
  BY <1>4, <1>6 DEF PostInv

\* A step of q's post that records nothing: q is not unsent before or after.
LEMMA PostStep ==
    ASSUME StoreInv, NEW q \in Request,
           UNCHANGED <<pageVars, clientVars, call, ordered, orders>>,
           post[q] # "unsent", post'[q] # "unsent", key'[q] = KeyOf(q),
           phase'[q] # "idle" => post'[q] = "serving" /\ orderId'[q] = q,
           got'[q] # None => got'[q] = orders[KeyOf(q)],
           post'[q] = "answered" => got'[q] # None,
           post[q] = "answered" => post'[q] = "answered",
           \A p \in Request \ {q} : /\ phase'[p] = phase[p] /\ key'[p] = key[p]
                                    /\ orderId'[p] = orderId[p]
                                    /\ post'[p] = post[p] /\ got'[p] = got[p]
    PROVE  PostInv' /\ ClientInv'
<1> USE DEF StoreInv
<1>1. ClientInv'
  BY ServerClients
<1>2. \A p \in Request : Lines(p)' = Lines(p)
  BY DEF Lines, clientVars
<1>3. KeyFixed' /\ Serving' /\ Heard'
  BY DEF PostInv, KeyFixed, Serving, Heard
<1>4. Posted' /\ AllAnswered'
  BY <1>2 DEF PostInv, Posted, AllAnswered
<1>5. Recorded'
  BY <1>2 DEF PostInv, Recorded, RecordedAs
<1>6. QED
  BY <1>1, <1>3, <1>4, <1>5 DEF PostInv

LEMMA DeliveryInv ==
    ASSUME StoreInv, NEW q \in Request, Delivery(q)
    PROVE  PostInv' /\ ClientInv'
<1> USE DEF StoreInv, Go
<1>1. /\ KeyOf(q) \in Key /\ q # None /\ key[q] = KeyOf(q)
      /\ phase[q] # "idle" => post[q] = "serving" /\ orderId[q] = q
  BY PostShape DEF PostInv, KeyFixed, Serving
<1> USE DEF IndInv, TypeOK, StoreTypeOK
<1>2. CASE Receive(q)
  BY <1>1, <1>2, PostStep DEF Receive, Arrive, PostInv, Heard
<1>3. CASE Serve(q)
  BY <1>1, <1>3, PostStep DEF Serve, Insert, storeVars, pageVars, clientVars, PostInv, Heard
<1>4. CASE Accept(q)
  \* What is recorded of other keys stays; this key is recorded with its own post.
  <2>1. /\ phase[q] = "inserted" /\ orders' = [orders EXCEPT ![KeyOf(q)] = q]
        /\ ordered' = [ordered EXCEPT ![KeyOf(q)] = Lines(q)]
        /\ phase' = [phase EXCEPT ![q] = "committed"]
        /\ UNCHANGED <<pageVars, clientVars, call, post, got, key, orderId>>
    BY <1>1, <1>4 DEF Accept, Commit
  <2>2. orders[KeyOf(q)] = None
    BY <1>1, <2>1 DEF TransactionOK
  <2>3. ClientInv'
    BY <2>1, ServerClients
  <2>4. \A p \in Request : Lines(p)' = Lines(p) /\ KeyOf(p) \in Key
    BY <2>1, PostShape DEF Lines, clientVars
  <2>5. KeyFixed' /\ Serving' /\ Posted' /\ AllAnswered'
    BY <1>1, <2>1, <2>4 DEF PostInv, KeyFixed, Serving, Posted, AllAnswered
  <2>6. Recorded'
    <3>1. ASSUME NEW k \in Key PROVE RecordedAs(k)'
      <4>1. CASE k = KeyOf(q)
        <5>1. orders'[k] = q /\ ordered'[k] = Lines(q)
          BY <2>1, <4>1
        <5>2. post'[q] # "unsent"
          BY <1>1, <2>1
        <5>3. QED
          BY <1>1, <2>4, <4>1, <5>1, <5>2 DEF RecordedAs
      <4>2. CASE k # KeyOf(q)
        <5>1. orders'[k] = orders[k] /\ ordered'[k] = ordered[k]
          BY <2>1, <4>2
        <5>2. QED
          BY <2>1, <2>4, <5>1 DEF PostInv, Recorded, RecordedAs
      <4>3. QED
        BY <4>1, <4>2
    <3>2. QED
      BY <3>1 DEF Recorded
  <2>7. Heard'
    <3>1. ASSUME NEW p \in Request
          PROVE  /\ got'[p] # None => got'[p] = orders'[KeyOf(p)]
                 /\ post'[p] = "answered" => got'[p] # None
      <4>1. /\ got[p] # None => got[p] = orders[KeyOf(p)]
            /\ post[p] = "answered" => got[p] # None
        BY DEF PostInv, Heard
      <4>2. got[p] # None => KeyOf(p) # KeyOf(q)
        BY <2>2, <4>1
      <4>3. QED
        BY <2>1, <2>4, <4>1, <4>2
    <3>2. QED
      BY <3>1 DEF Heard
  <2>8. QED
    BY <2>3, <2>5, <2>6, <2>7 DEF PostInv
<1>5. CASE Answered(q)
  <2>1. /\ phase[q] # "idle" /\ phase' = [phase EXCEPT ![q] = "idle"]
        /\ orderId' = [orderId EXCEPT ![q] = None]
        /\ UNCHANGED <<pageVars, clientVars, call, ordered, orders, key>>
        /\ post' = [post EXCEPT ![q] = IF got'[q] = None THEN "failed" ELSE "answered"]
    BY <1>5 DEF Answered, Duplicate, Reply, Answer
  <2>2. \/ got' = [got EXCEPT ![q] = orders[KeyOf(q)]]
        \/ UNCHANGED got
    BY <1>1, <1>5 DEF Answered, Duplicate, Reply, Answer, TransactionOK
  <2>3. got'[q] # None => got'[q] = orders[KeyOf(q)]
    BY <2>2 DEF PostInv, Heard
  <2>4. QED
    BY <1>1, <2>1, <2>2, <2>3, PostStep
<1>6. CASE PostFails(q)
  <2>1. CASE post[q] = "sent" /\ UNCHANGED vars
    BY <1>1, <1>6, <2>1, PostStep DEF PostFails, vars, PostInv, Heard
  <2>2. CASE Fail(q)
    BY <1>1, <1>6, <2>2, PostStep DEF PostFails, Fail, PostInv, Heard
  <2>3. QED
    BY <1>6, <2>1, <2>2 DEF PostFails
<1>7. QED
  BY <1>2, <1>3, <1>4, <1>5, <1>6 DEF Delivery

-----------------------------------------------------------------------------
(* The theorems                                                              *)

LEMMA StoreStepInv == ASSUME StoreInv, [StoreNext]_<<vars, storeVars>> PROVE StoreInv'
<1>1. IndInv'
  BY StepIsIngestion, StepInd DEF StoreInv
<1>2. CASE Customer
  <2>1. PostInv' /\ ClientInv'
    BY <1>2, SubmitInv, CustomerPosts, CustomerClients
  <2>2. QED
    BY <1>1, <1>2, <2>1, CustomerTypes DEF StoreInv
<1>3. ASSUME NEW k \in Checkout, Continuation(k) PROVE StoreInv'
  BY <1>1, <1>3, ContinuationTypes, ContinuationInv DEF StoreInv
<1>4. ASSUME NEW c \in Call, Handler(c) PROVE StoreInv'
  BY <1>1, <1>4, ServerTypes, HandlerInv DEF StoreInv
<1>5. ASSUME NEW q \in Request, Delivery(q) PROVE StoreInv'
  BY <1>1, <1>5, ServerTypes, DeliveryInv DEF StoreInv
<1>6. CASE UNCHANGED <<vars, storeVars>>
  <2>1. StoreTypeOK'
    BY <1>6 DEF StoreInv, StoreTypeOK, storeVars
  <2>2. PostInv'
    BY <1>6, BrowserPosts DEF storeVars, serverVars
  <2>3. ClientInv'
    BY <1>6 DEF StoreInv, ClientInv, Counted, Settled, Unedited, storeVars
  <2>4. QED
    BY <1>1, <2>1, <2>2, <2>3 DEF StoreInv
<1>7. QED
  BY <1>2, <1>3, <1>4, <1>5, <1>6 DEF StoreNext

\* The inductive invariant holds of every behaviour, for every number of
\* restaurants, checkouts and submits.
THEOREM StoreInvariance == StoreSpec => []StoreInv
BY StoreInitInv, StoreStepInv, PTL DEF StoreSpec

\* The storefront's state stays within its types.
THEOREM StoreTypes == StoreSpec => []StoreTypeOK
<1>1. StoreInv => StoreTypeOK
  BY DEF StoreInv
<1>2. QED
  BY <1>1, StoreInvariance, PTL

\* The submit a customer was confirmed for: a call whose posts are all answered.
LEMMA ConfirmedCall ==
    ASSUME StoreInv, NEW k \in Checkout, confirmed[k] # 0
    PROVE  /\ <<k, confirmed[k]>> \in Call
           /\ \A r \in Restaurant : /\ <<k, r, confirmed[k]>> \in Request
                                    /\ <<k, r>> \in Key
                                    /\ Lines(<<k, r, confirmed[k]>>) = submitted[<<k, confirmed[k]>>][r]
                                    /\ Lines(<<k, r, confirmed[k]>>) > 0 =>
                                           /\ got[<<k, r, confirmed[k]>>] # None
                                           /\ got[<<k, r, confirmed[k]>>] = orders[<<k, r>>]
<1> DEFINE c == <<k, confirmed[k]>>
<1>1. c \in Call /\ call[c] = "answered"
  BY DEF StoreInv, ClientInv, Settled, Counted
<1>2. ASSUME NEW r \in Restaurant
      PROVE  LET q == <<k, r, confirmed[k]>> IN
             /\ q \in Request /\ <<k, r>> \in Key
             /\ CallOf(q) = c /\ KeyOf(q) = <<k, r>> /\ Lines(q) = submitted[c][r]
  <2>1. <<c[1], r, c[2]>> = <<k, r, confirmed[k]>>
    OBVIOUS
  <2>2. <<k, r, confirmed[k]>> \in Request
    BY <1>1, <2>1, PostOfCall
  <2>3. QED
    BY <2>2, StorefrontAssumption DEF CallOf, KeyOf, Lines
<1>3. ASSUME NEW r \in Restaurant, Lines(<<k, r, confirmed[k]>>) > 0
      PROVE  /\ got[<<k, r, confirmed[k]>>] # None
             /\ got[<<k, r, confirmed[k]>>] = orders[<<k, r>>]
  BY <1>1, <1>2, <1>3 DEF StoreInv, PostInv, AllAnswered, Heard
<1>4. QED
  BY <1>1, <1>2, <1>3

\* Where the customer is sent, every order the token names is the one recorded
\* under this checkout's key of its restaurant.
THEOREM TokensName == StoreSpec => []TokenNamesOrders
<1>1. StoreInv => TokenNamesOrders
  <2> SUFFICES ASSUME StoreInv, NEW k \in Checkout, confirmed[k] # 0, NEW r \in Restaurant,
                      submitted[<<k, confirmed[k]>>][r] > 0
               PROVE  /\ Token(<<k, confirmed[k]>>)[r] = orders[<<k, r>>]
                      /\ orders[<<k, r>>] # None
    BY DEF TokenNamesOrders
  <2> DEFINE q == <<k, r, confirmed[k]>>
  <2>1. q \in Request /\ Lines(q) > 0 /\ got[q] # None /\ got[q] = orders[<<k, r>>]
    BY ConfirmedCall
  <2>2. q \in Posts(<<k, confirmed[k]>>) /\ q[2] = r
    BY <2>1 DEF Posts, CallOf
  <2>3. Token(<<k, confirmed[k]>>)[r] = got[q]
    BY <2>2 DEF Token
  <2>4. QED
    BY <2>1, <2>3
<1>2. QED
  BY <1>1, StoreInvariance, PTL

\* Every order behind a confirmation is what some submit of the checkout asked of
\* that restaurant, and each restaurant of the submit confirmed has one.
THEOREM ConfirmedIsSubmitted == StoreSpec => []ConfirmedAsSubmitted
<1>1. StoreInv => ConfirmedAsSubmitted
  <2> SUFFICES ASSUME StoreInv, NEW k \in Checkout, confirmed[k] # 0, NEW r \in Restaurant
               PROVE  \/ /\ ordered[<<k, r>>] = 0
                         /\ submitted[<<k, confirmed[k]>>][r] = 0
                      \/ \E m \in 1..confirmed[k] :
                             /\ submitted[<<k, m>>][r] > 0
                             /\ ordered[<<k, r>>] = submitted[<<k, m>>][r]
    BY DEF ConfirmedAsSubmitted
  <2>1. <<k, r>> \in Key /\ Lines(<<k, r, confirmed[k]>>) = submitted[<<k, confirmed[k]>>][r]
        /\ <<k, confirmed[k]>> \in Call
    BY ConfirmedCall
  <2>2. submitted[<<k, confirmed[k]>>][r] \in Nat
    BY <2>1, StorefrontAssumption DEF StoreInv, StoreTypeOK, Cart
  <2>3. CASE orders[<<k, r>>] = None
    \* Nothing recorded: the submit posted nothing there, for it would have been answered.
    <3>1. ~(Lines(<<k, r, confirmed[k]>>) > 0)
      BY <2>3, ConfirmedCall
    <3>2. ordered[<<k, r>>] = 0
      BY <2>1, <2>3 DEF StoreInv, PostInv, Recorded, RecordedAs
    <3>3. QED
      BY <2>1, <2>2, <3>1, <3>2
  <2>4. CASE orders[<<k, r>>] # None
    \* Recorded with the post of a submit of this checkout no later than this one.
    <3> DEFINE q == orders[<<k, r>>]
    <3>1. q \in Request /\ KeyOf(q) = <<k, r>> /\ post[q] # "unsent" /\ ordered[<<k, r>>] = Lines(q)
      BY <2>1, <2>4 DEF StoreInv, PostInv, Recorded, RecordedAs
    <3>2. q[1] = k /\ q[2] = r /\ q[3] \in Nat \ {0} /\ CallOf(q) = <<k, q[3]>> /\ CallOf(q) \in Call
      BY <3>1, PostShape DEF KeyOf, CallOf
    <3>3. call[CallOf(q)] # "none" /\ Lines(q) > 0
      BY <3>1 DEF StoreInv, PostInv, Posted
    <3>4. q[3] <= tries[k]
      BY <3>2, <3>3 DEF StoreInv, ClientInv, Counted
    <3>5. confirmed[k] = tries[k] /\ tries[k] \in Nat
      BY DEF StoreInv, ClientInv, Settled, StoreTypeOK
    <3>6. q[3] \in 1..confirmed[k]
      BY <3>2, <3>4, <3>5
    <3>7. Lines(q) = submitted[<<k, q[3]>>][r]
      BY <3>2 DEF Lines
    <3>8. QED
      BY <3>1, <3>3, <3>6, <3>7
  <2>5. QED
    BY <2>3, <2>4
<1>2. QED
  BY <1>1, StoreInvariance, PTL

\* The end of a submit empties the cart only if it is confirmed, and then only of
\* what it has ordered, unless the cart has changed meanwhile.
THEOREM ClearsOnly == StoreSpec => ClearsOnlyOrdered
<1> DEFINE A == cart # cart' /\ waiting # waiting' =>
                    \E k \in waiting \ waiting' :
                        /\ confirmed'[k] # 0
                        /\ k \in edited \/ cart = submitted[<<k, confirmed'[k]>>]
<1>1. ASSUME StoreInv, [StoreNext]_<<vars, storeVars>> PROVE [A]_<<vars, storeVars>>
  <2>1. CASE Customer
    BY <2>1 DEF Customer, Edit, Browse, OpenCheckout, Mount, Reload, goNext, goBack, goTo, Stepper, StepTo,
                submitOrder, pageVars, clientVars
  <2>2. ASSUME NEW j \in Checkout, Continuation(j) PROVE A
    <3>1. CASE Disappointed(j)
      BY <3>1 DEF Disappointed, pageVars
    <3>2. CASE Confirmed(j)
      <4>1. j \in waiting /\ j \notin waiting' /\ confirmed'[j] = tries[j]
        BY <1>1, <3>2 DEF Confirmed, StoreInv, StoreTypeOK
      <4>2. tries[j] # 0 /\ (j \in edited \/ cart = submitted[<<j, tries[j]>>])
        BY <1>1, <4>1 DEF StoreInv, ClientInv, Unedited
      <4>3. QED
        BY <4>1, <4>2
    <3>3. QED
      BY <2>2, <3>1, <3>2 DEF Continuation
  <2>3. ASSUME NEW c \in Call, Handler(c) PROVE A
    BY <2>3 DEF Handler, Refuse, placeCart, Placed, Rejected, pageVars
  <2>4. ASSUME NEW q \in Request, Delivery(q) PROVE A
    BY <2>4 DEF Delivery, Receive, Serve, Accept, Answered, PostFails, storeVars, pageVars
  <2> HIDE DEF A
  <2>5. QED
    BY <1>1, <2>1, <2>2, <2>3, <2>4 DEF StoreNext
<1>2. StoreSpec => [][A]_<<vars, storeVars>>
  <2> HIDE DEF A
  <2>1. QED
    BY <1>1, StoreInvariance, PTL DEF StoreSpec
<1>3. QED
  BY <1>2 DEF ClearsOnlyOrdered
=============================================================================

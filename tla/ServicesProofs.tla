--------------------------- MODULE ServicesProofs ---------------------------
(***************************************************************************)
(* Proofs about Payment: its inductive invariant, at most one charge per key, *)
(* and that it implements IdempotentService; and about Services: that it       *)
(* behaves as its two components do, and that nothing unpaid is dispatched.    *)
(***************************************************************************)
EXTENDS Services, TLAPS

LEMMA InitInd == ASSUME Init PROVE IndInv
<1> USE PaymentAssumption
<1>1. TypeOK
  BY DEF Init, TypeOK, Phase
<1>2. QED
  BY <1>1 DEF Init, IndInv, ClaimOK, OneClaimer, ChargedAtMostOnce

\* Steps that touch neither the table nor the counter, and bring
\* no handler to "claimed" or "lost".
LEMMA QuietStep ==
    ASSUME IndInv, TypeOK',
           UNCHANGED <<charges, charged>>,
           \A q \in Request : phase'[q] \in {"claimed", "lost"} =>
               phase'[q] = phase[q] /\ key'[q] = key[q] /\ own'[q] = own[q]
    PROVE  IndInv'
BY DEF IndInv, ClaimOK, OneClaimer, ChargedAtMostOnce

LEMMA StepInd == ASSUME IndInv, [Next]_vars PROVE IndInv'
<1> USE PaymentAssumption
<1>1. CASE UNCHANGED vars
  BY <1>1 DEF vars, IndInv, TypeOK, ClaimOK, OneClaimer, ChargedAtMostOnce
<1>2. ASSUME NEW r \in Request, NEW k \in Key, Arrive(r, k) PROVE IndInv'
  <2>1. TypeOK'
    BY <1>2 DEF Arrive, Go, IndInv, TypeOK, Phase
  <2>2. QED
    BY <1>2, <2>1, QuietStep DEF Arrive, Go, IndInv, TypeOK
<1>3. ASSUME NEW r \in Request, Lookup(r) PROVE IndInv'
  <2>1. TypeOK'
    BY <1>3 DEF Lookup, Respond, Go, IndInv, TypeOK, Phase
  <2>2. QED
    BY <1>3, <2>1, QuietStep DEF Lookup, Respond, Go, IndInv, TypeOK
<1>4. ASSUME NEW r \in Request, Work(r) PROVE IndInv'
  <2>1. TypeOK'
    BY <1>4 DEF Work, Go, IndInv, TypeOK, Phase
  <2>2. QED
    BY <1>4, <2>1, QuietStep DEF Work, Go, IndInv, TypeOK
<1>5. ASSUME NEW r \in Request, Claim(r) PROVE IndInv'
  <2>1. TypeOK'
    BY <1>5 DEF Claim, Go, IndInv, TypeOK, Phase
  <2>2. CASE charges[key[r]] = None
    \* Nobody else can have claimed the key, and nothing was counted for it.
    <3>1. charged[key[r]] = 0
      BY <2>2 DEF IndInv, TypeOK, ChargedAtMostOnce
    <3>2. \A q \in Request : phase[q] \in {"claimed", "lost"} => key[q] # key[r]
      BY <2>2 DEF IndInv, TypeOK, ClaimOK
    <3>3. \A q \in Request : ClaimOK(q)'
      BY <1>5, <2>2, <3>1, <3>2 DEF Claim, Go, IndInv, TypeOK, ClaimOK
    <3>4. OneClaimer'
      BY <1>5, <2>2, <3>2 DEF Claim, Go, IndInv, TypeOK, OneClaimer
    <3>5. ChargedAtMostOnce'
      BY <1>5, <2>2, <3>1 DEF Claim, IndInv, TypeOK, ChargedAtMostOnce
    <3>6. QED
      BY <2>1, <3>3, <3>4, <3>5 DEF IndInv
  <2>3. CASE charges[key[r]] # None
    BY <1>5, <2>1, <2>3
       DEF Claim, Go, IndInv, TypeOK, ClaimOK, OneClaimer, ChargedAtMostOnce
  <2>4. QED
    BY <2>2, <2>3
<1>6. ASSUME NEW r \in Request, Reply(r) PROVE IndInv'
  <2>1. TypeOK'
    BY <1>6 DEF Reply, Respond, Go, IndInv, TypeOK, Phase
  <2>2. \A q \in Request : phase'[q] \in {"claimed", "lost"} =>
            q # r /\ phase'[q] = phase[q]
    BY <1>6 DEF Reply, Respond, Go, IndInv, TypeOK
  <2>3. charges[key[r]] = own[r] /\ charged[key[r]] = 0
    BY <1>6 DEF Reply, IndInv, ClaimOK
  <2>4. \A q \in Request : ClaimOK(q)'
    BY <1>6, <2>2 DEF Reply, IndInv, TypeOK, ClaimOK, OneClaimer
  <2>5. OneClaimer'
    BY <1>6, <2>2 DEF Reply, IndInv, OneClaimer
  <2>6. ChargedAtMostOnce'
    BY <1>6, <2>3 DEF Reply, IndInv, TypeOK, ChargedAtMostOnce, Charge
  <2>7. QED
    BY <2>1, <2>4, <2>5, <2>6 DEF IndInv
<1>7. ASSUME NEW r \in Request, ReplyLost(r) PROVE IndInv'
  <2>1. charges[key[r]] \in Charge
    BY <1>7 DEF ReplyLost, IndInv, ClaimOK, TypeOK
  <2>2. TypeOK'
    BY <1>7, <2>1 DEF ReplyLost, Respond, Go, IndInv, TypeOK, Phase
  <2>3. QED
    BY <1>7, <2>2, QuietStep DEF ReplyLost, Respond, Go, IndInv, TypeOK
<1>8. ASSUME NEW r \in Request, Fail(r) PROVE IndInv'
  <2>1. TypeOK'
    BY <1>8 DEF Fail, Go, IndInv, TypeOK, Phase
  <2>2. QED
    BY <1>8, <2>1, QuietStep DEF Fail, Go, IndInv, TypeOK
<1>9. QED
  BY <1>1, <1>2, <1>3, <1>4, <1>5, <1>6, <1>7, <1>8 DEF Next

\* The inductive invariant holds of every behaviour, for every number of
\* overlapping requests.
THEOREM Invariance == Spec => []IndInv
BY InitInd, StepInd, PTL DEF Spec

\* A card is charged at most once under an idempotency key.
THEOREM ChargedOnce == Spec => []ChargedAtMostOnce
<1>1. IndInv => ChargedAtMostOnce
  BY DEF IndInv
<1>2. QED
  BY <1>1, Invariance, PTL

-----------------------------------------------------------------------------
\* A step of a handler records the first outcome of its key, answers with the
\* recorded one, or leaves table and answers alone.
LEMMA StepMaps == ASSUME IndInv, [Next]_vars PROVE [Service!Next]_(Service!vars)
<1> USE PaymentAssumption DEF Service!vars, Service!Next, Service!Record, Service!Answer
<1>1. ASSUME NEW r \in Request, Claim(r) PROVE [Service!Next]_(Service!vars)
  BY <1>1 DEF Claim, IndInv, TypeOK
<1>2. ASSUME NEW r \in Request, charges[key[r]] # None,
             Respond(r, charges[key[r]]), UNCHANGED charges
      PROVE  Service!Next
  BY <1>2 DEF Respond, IndInv, TypeOK
<1>3. ASSUME NEW r \in Request, Lookup(r) PROVE [Service!Next]_(Service!vars)
  BY <1>3, <1>2 DEF Lookup
<1>4. ASSUME NEW r \in Request, Reply(r) PROVE Service!Next
  <2>1. charges[key[r]] = own[r] /\ own[r] # None
    BY <1>4 DEF Reply, IndInv, TypeOK, ClaimOK
  <2>2. QED
    BY <1>4, <1>2, <2>1 DEF Reply
<1>5. ASSUME NEW r \in Request, ReplyLost(r) PROVE Service!Next
  <2>1. charges[key[r]] # None
    BY <1>5 DEF ReplyLost, IndInv, ClaimOK
  <2>2. QED
    BY <1>5, <1>2, <2>1 DEF ReplyLost
<1>6. ASSUME NEW r \in Request,
             (\E k \in Key : Arrive(r, k)) \/ Work(r) \/ Fail(r)
      PROVE  UNCHANGED Service!vars
  BY <1>6 DEF Arrive, Work, Fail
<1>7. ASSUME UNCHANGED vars PROVE UNCHANGED Service!vars
  BY <1>7 DEF vars
<1>8. QED
  BY <1>1, <1>3, <1>4, <1>5, <1>6, <1>7 DEF Next

\* payment-svc implements IdempotentService: every caller of a key learns the
\* one outcome recorded for it.
THEOREM PaymentIsIdempotent == Spec => Implements
<1>1. Init => Service!Init
  BY DEF Init, Service!Init
<1>2. IndInv /\ [Next]_vars => [Service!Next]_(Service!vars)
  BY StepMaps
<1>3. QED
  BY <1>1, <1>2, Invariance, PTL DEF Spec, Implements, Service!Spec

\* What a caller was told stays what is recorded: a step records only where nothing is,
\* and answers only with what is recorded.
LEMMA AnswersStay ==
    ASSUME TypeOK, Service!AnswersStand, [Service!Next]_(Service!vars)
    PROVE  Service!AnswersStand'
<1> USE PaymentAssumption DEF Service!AnswersStand, TypeOK
<1>1. CASE UNCHANGED Service!vars
  BY <1>1 DEF Service!vars
<1>2. ASSUME NEW k \in Key, Service!Answer(k) PROVE Service!AnswersStand'
  BY <1>2 DEF Service!Answer
<1>3. ASSUME NEW k \in Key, NEW v \in Charge, Service!Record(k, v)
      PROVE  Service!AnswersStand'
  <2>1. \A a \in answers : a[1] \in Key /\ a[2] # None
    OBVIOUS
  <2>2. QED
    BY <1>3, <2>1 DEF Service!Record
<1>4. QED
  BY <1>1, <1>2, <1>3 DEF Service!Next

\* No two callers of a key are told different outcomes by create_payment_intent: a
\* client that lost the answer to a charge learns of that charge when it asks again.
THEOREM PayersAgree == Spec => []Service!CallersAgree
<1>1. Service!Init => Service!AnswersStand
  BY DEF Service!Init, Service!AnswersStand
<1>2. TypeOK /\ Service!AnswersStand /\ [Service!Next]_(Service!vars) => Service!AnswersStand'
  BY AnswersStay
<1>3. Service!AnswersStand => Service!CallersAgree
  BY DEF Service!AnswersStand, Service!CallersAgree
<1>4. IndInv => TypeOK
  BY DEF IndInv
<1>5. QED
  BY <1>1, <1>2, <1>3, <1>4, Invariance, PaymentIsIdempotent, PTL DEF Implements, Service!Spec

-----------------------------------------------------------------------------
\* The composed services take the steps of the one and of the other.
LEMMA StepsOfBoth ==
    ASSUME [ServicesNext]_servicesVars
    PROVE  [Next]_vars /\ [F!Next]_(F!vars)
<1>1. CASE PaymentStep
  BY <1>1 DEF PaymentStep, dispatchVars, F!vars
<1>2. CASE DispatchStep
  BY <1>2 DEF DispatchStep, Dispatch, F!Next
<1>3. CASE UNCHANGED servicesVars
  BY <1>3 DEF servicesVars, dispatchVars, F!vars
<1>4. QED
  BY <1>1, <1>2, <1>3 DEF ServicesNext

\* Payment in the composition is Payment, and the dispatching service is
\* Fulfillment: what is proved of Spec and of Fulfillment's Spec holds here.
THEOREM ServicesCompose == ServicesSpec => Spec /\ F!Spec
<1>1. ServicesInit => Init /\ F!Init
  BY DEF ServicesInit
<1>2. [ServicesNext]_servicesVars => [Next]_vars /\ [F!Next]_(F!vars)
  BY StepsOfBoth
<1>3. QED
  BY <1>1, <1>2, PTL DEF ServicesSpec, Spec, F!Spec

\* One dispatch per op_id in the service, whatever goes on in the other: its own
\* inductive invariant, under the steps of both.
FP == INSTANCE FulfillmentProofs WITH
    Request <- Ticket, OpId <- Key, phase <- serving, answers <- results

THEOREM OneDispatchPerOrder == ServicesSpec => []DispatchedOnce
<1>1. ServicesInit => FP!IndInv
  <2>1. ServicesInit => FP!Init
    BY DEF ServicesInit, F!Init, FP!Init
  <2>2. QED
    BY <2>1, FP!InitInd
<1>2. FP!IndInv /\ [ServicesNext]_servicesVars => FP!IndInv'
  <2>1. [ServicesNext]_servicesVars => [F!Next]_(F!vars)
    BY StepsOfBoth
  <2>2. [F!Next]_(F!vars) => [FP!Next]_(FP!vars)
    BY DEF F!Next, FP!Next, F!vars, FP!vars, F!Arrive, FP!Arrive, F!Lookup, FP!Lookup,
           F!Work, FP!Work, F!Claim, FP!Claim, F!Reply, FP!Reply, F!Fail, FP!Fail,
           F!Go, FP!Go, F!Respond, FP!Respond, F!Record, FP!Record
  <2>3. QED
    BY <2>1, <2>2, FP!StepInd
<1>3. FP!IndInv => DispatchedOnce
  BY DEF FP!IndInv, FP!DispatchedOnce, DispatchedOnce, F!DispatchedOnce
<1>4. QED
  BY <1>1, <1>2, <1>3, PTL DEF ServicesSpec

\* What is paid stays paid: a recorded charge is never written over.
LEMMA PaidStays ==
    ASSUME IndInv, [Next]_vars, NEW k \in Key, Paid(k)
    PROVE  Paid(k)'
<1> USE DEF Paid
<1>1. ASSUME NEW r \in Request, Claim(r) PROVE charges'[k] = charges[k]
  BY <1>1 DEF Claim, IndInv, TypeOK
<1>2. charges'[k] = charges[k]
  BY <1>1 DEF Next, vars, Arrive, Lookup, Work, Reply, ReplyLost, Fail
<1>3. QED
  BY <1>2

\* A dispatch is asked for only once it is paid, so every request that is being
\* served is for a paid order, and so is every row.
LEMMA ServicesStepInd ==
    ASSUME ServicesIndInv, [ServicesNext]_servicesVars
    PROVE  ServicesIndInv'
<1>0. IndInv' /\ Service!AnswersStand' /\ [Next]_vars
  <2>1. [Next]_vars /\ IndInv /\ TypeOK /\ Service!AnswersStand
    BY StepsOfBoth DEF ServicesIndInv, IndInv
  <2>2. [Service!Next]_(Service!vars)
    BY <2>1, StepMaps
  <2>3. QED
    BY <2>1, <2>2, StepInd, AnswersStay
<1> USE <1>0
<1>1. \A k \in Key : Paid(k) => Paid(k)'
  BY PaidStays DEF ServicesIndInv
<1>2. DOMAIN dispatches \subseteq Key /\ opId \in [Ticket -> Key] /\ serving \in [Ticket -> F!Phase]
  BY DEF ServicesIndInv
<1>3. CASE UNCHANGED dispatchVars
  BY <1>1, <1>2, <1>3 DEF dispatchVars, ServicesIndInv, PaidBeforeDispatched
<1>4. ASSUME NEW t \in Ticket, NEW k \in Key, Dispatch(t, k), UNCHANGED vars
      PROVE  ServicesIndInv'
  <2>1. Paid(k)
    <3>1. PICK a \in answers : a[1] = k /\ a[2].status = "succeeded"
      BY <1>4 DEF Dispatch, PaymentAnswered
    <3>2. a[2] = charges[k] /\ a[2] \in Charge
      BY <3>1 DEF ServicesIndInv, Service!AnswersStand, IndInv, TypeOK
    <3>3. QED
      BY <3>1, <3>2, PaymentAssumption DEF Paid
  <2>2. QED
    BY <1>1, <1>2, <1>4, <2>1
       DEF Dispatch, F!Arrive, F!Go, F!Phase, ServicesIndInv, PaidBeforeDispatched
<1>5. ASSUME NEW t \in Ticket, F!Claim(t), UNCHANGED vars PROVE ServicesIndInv'
  <2>1. Paid(opId[t])
    BY <1>5 DEF F!Claim, ServicesIndInv
  <2>2. DOMAIN dispatches' \subseteq DOMAIN dispatches \cup {opId[t]}
    BY <1>5 DEF F!Claim, F!Record
  <2>3. \A q \in Ticket : serving'[q] # "idle" => serving[q] # "idle"
    BY <1>2, <1>5 DEF F!Claim, F!Go
  <2>4. serving' \in [Ticket -> F!Phase] /\ opId' = opId
    BY <1>2, <1>5 DEF F!Claim, F!Go, F!Phase
  <2>5. QED
    BY <1>1, <1>2, <1>5, <2>1, <2>2, <2>3, <2>4 DEF ServicesIndInv, PaidBeforeDispatched
<1>6. ASSUME NEW t \in Ticket, F!Lookup(t) \/ F!Work(t) \/ F!Reply(t) \/ F!Fail(t)
      PROVE  ServicesIndInv'
  <2>1. UNCHANGED <<dispatches, opId>>
    BY <1>6 DEF F!Lookup, F!Work, F!Reply, F!Fail
  <2>2. \A q \in Ticket : serving'[q] # "idle" => serving[q] # "idle"
    BY <1>2, <1>6 DEF F!Lookup, F!Work, F!Reply, F!Fail, F!Respond, F!Go
  <2>3. serving' \in [Ticket -> F!Phase]
    BY <1>2, <1>6 DEF F!Lookup, F!Work, F!Reply, F!Fail, F!Respond, F!Go, F!Phase
  <2>4. QED
    BY <1>1, <1>2, <2>1, <2>2, <2>3 DEF ServicesIndInv, PaidBeforeDispatched
<1>7. QED
  BY <1>3, <1>4, <1>5, <1>6
     DEF ServicesNext, servicesVars, PaymentStep, DispatchStep

\* No ticket and no courier is recorded for an order whose charge is not on
\* record as succeeded.
THEOREM NothingUnpaidDispatched == ServicesSpec => []PaidBeforeDispatched
<1>1. ServicesInit => ServicesIndInv
  BY InitInd DEF ServicesInit, ServicesIndInv, F!Init, F!Phase, Init, Service!AnswersStand,
     PaidBeforeDispatched
<1>2. ServicesIndInv /\ [ServicesNext]_servicesVars => ServicesIndInv'
  BY ServicesStepInd
<1>3. ServicesIndInv => PaidBeforeDispatched
  BY DEF ServicesIndInv
<1>4. QED
  BY <1>1, <1>2, <1>3, PTL DEF ServicesSpec
=============================================================================

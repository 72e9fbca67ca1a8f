-------------------------- MODULE FulfillmentProofs -------------------------
(***************************************************************************)
(* Proofs about Fulfillment: its inductive invariant, and that a dispatch    *)
(* happens at most once under an op_id.                                        *)
(***************************************************************************)
EXTENDS Fulfillment, TLAPS

LEMMA InitInd == ASSUME Init PROVE IndInv
<1>1. TypeOK
  BY DEF Init, TypeOK, Phase, Answer
<1>2. QED
  BY <1>1 DEF Init, IndInv, ClaimOK, OneClaimer, CountedIsRecorded, DispatchedOnce

\* Steps that touch neither the table nor the counter, bring no handler to
\* "claimed" or "lost", and give at most an answer from the table.
LEMMA QuietStep ==
    ASSUME IndInv, TypeOK',
           UNCHANGED <<dispatches, dispatched>>,
           \A q \in Request : phase'[q] \in {"claimed", "lost"} =>
               phase'[q] = phase[q] /\ opId'[q] = opId[q] /\ detail'[q] = detail[q],
           \A a \in answers' \ answers : a.duplicate /\ a.opId \in DOMAIN dispatches
    PROVE  IndInv'
BY DEF IndInv, ClaimOK, OneClaimer, CountedIsRecorded, DispatchedOnce

\* What a response leaves behind has its type.
LEMMA RespondTyped ==
    ASSUME TypeOK, NEW r \in Request, NEW result \in Detail, NEW duplicate \in BOOLEAN,
           Respond(r, result, duplicate)
    PROVE  answers' \subseteq Answer /\ phase' \in [Request -> Phase]
<1>1. [opId |-> opId[r], detail |-> result, duplicate |-> duplicate] \in Answer
  <2>1. opId[r] \in OpId
    BY DEF TypeOK
  <2>2. QED
    BY <2>1, Zenon DEF Answer
<1>2. answers' \subseteq Answer
  BY <1>1, Zenon DEF Respond, TypeOK
<1>3. phase' \in [Request -> Phase]
  BY DEF Respond, Go, TypeOK, Phase
<1>4. QED
  BY <1>2, <1>3

\* What an insert leaves in the table.
LEMMA Recorded ==
    ASSUME TypeOK, NEW k \in OpId, NEW d \in Detail, Record(k, d)
    PROVE  /\ DOMAIN dispatches' = DOMAIN dispatches \cup {k}
           /\ dispatches'[k] = d
           /\ \A x \in DOMAIN dispatches \ {k} : dispatches'[x] = dispatches[x]
           /\ DOMAIN dispatches' \subseteq OpId
           /\ dispatches' \in [DOMAIN dispatches' -> Detail]
BY DEF Record, TypeOK

LEMMA StepInd == ASSUME IndInv, [Next]_vars PROVE IndInv'
<1>1. CASE UNCHANGED vars
  BY <1>1 DEF vars, IndInv, TypeOK, ClaimOK, OneClaimer, CountedIsRecorded, DispatchedOnce
<1>2. ASSUME NEW r \in Request, NEW k \in OpId, Arrive(r, k) PROVE IndInv'
  <2>1. TypeOK'
    BY <1>2 DEF Arrive, Go, IndInv, TypeOK, Phase
  <2>2. QED
    BY <1>2, <2>1, QuietStep DEF Arrive, Go, IndInv, TypeOK
<1>3. ASSUME NEW r \in Request, Lookup(r) PROVE IndInv'
  <2>1. TypeOK'
    <3>1. CASE opId[r] \in DOMAIN dispatches
      <4>1. dispatches[opId[r]] \in Detail /\ TRUE \in BOOLEAN
        BY <3>1 DEF IndInv, TypeOK
      <4>2. answers' \subseteq Answer /\ phase' \in [Request -> Phase]
        BY <1>3, <3>1, <4>1, RespondTyped DEF Lookup, IndInv
      <4>3. QED
        BY <1>3, <4>2 DEF Lookup, IndInv, TypeOK
    <3>2. CASE opId[r] \notin DOMAIN dispatches
      BY <1>3, <3>2 DEF Lookup, Go, IndInv, TypeOK, Phase
    <3>3. QED
      BY <3>1, <3>2
  <2>2. QED
    <3>1. \A a \in answers' \ answers : a.duplicate /\ a.opId \in DOMAIN dispatches
      BY <1>3 DEF Lookup, Respond
    <3>2. QED
      BY <1>3, <2>1, <3>1, QuietStep DEF Lookup, Respond, Go, IndInv, TypeOK
<1>4. ASSUME NEW r \in Request, Work(r) PROVE IndInv'
  <2>1. TypeOK'
    BY <1>4 DEF Work, Go, IndInv, TypeOK, Phase
  <2>2. QED
    BY <1>4, <2>1, QuietStep DEF Work, Go, IndInv, TypeOK
<1>5. ASSUME NEW r \in Request, Claim(r) PROVE IndInv'
  <2>1. CASE opId[r] \notin DOMAIN dispatches
    \* Nobody else can have claimed the op_id, nothing was counted for it, and
    \* no answer was given under it.
    <3>1. /\ Record(opId[r], detail[r]) /\ Go(r, "claimed")
          /\ UNCHANGED <<opId, detail, answers, dispatched>>
          /\ opId[r] \in OpId /\ detail[r] \in Detail
      BY <1>5, <2>1 DEF Claim, IndInv, TypeOK
    <3>2. /\ DOMAIN dispatches' = DOMAIN dispatches \cup {opId[r]}
          /\ dispatches'[opId[r]] = detail[r]
          /\ \A x \in DOMAIN dispatches \ {opId[r]} : dispatches'[x] = dispatches[x]
          /\ DOMAIN dispatches' \subseteq OpId
          /\ dispatches' \in [DOMAIN dispatches' -> Detail]
      BY <3>1, Recorded DEF IndInv
    <3>3. dispatched[opId[r]] = 0
      BY <2>1 DEF IndInv, TypeOK, CountedIsRecorded
    <3>4. \A q \in Request : phase[q] \in {"claimed", "lost"} => opId[q] # opId[r]
      BY <2>1 DEF IndInv, TypeOK, ClaimOK
    <3>5. TypeOK'
      BY <3>1, <3>2 DEF Go, IndInv, TypeOK, Phase
    <3>6. \A q \in Request : ClaimOK(q)'
      BY <2>1, <3>1, <3>2, <3>3 DEF Go, IndInv, TypeOK, ClaimOK
    <3>7. OneClaimer'
      BY <3>1, <3>4 DEF Go, IndInv, TypeOK, OneClaimer
    <3>8. CountedIsRecorded'
      BY <3>1, <3>2 DEF IndInv, CountedIsRecorded
    <3>9. \A a \in answers : a.opId # opId[r]
      BY <2>1 DEF IndInv, DispatchedOnce
    <3>10. DispatchedOnce'
      BY <3>1, <3>2, <3>9 DEF IndInv, DispatchedOnce
    <3>11. QED
      BY <3>5, <3>6, <3>7, <3>8, <3>10 DEF IndInv
  <2>2. CASE opId[r] \in DOMAIN dispatches
    <3>1. TypeOK'
      BY <1>5, <2>2 DEF Claim, Go, IndInv, TypeOK, Phase
    <3>2. QED
      BY <1>5, <2>2, <3>1
         DEF Claim, Go, IndInv, TypeOK, ClaimOK, OneClaimer, CountedIsRecorded, DispatchedOnce
  <2>3. QED
    BY <2>1, <2>2
<1>6. ASSUME NEW r \in Request, Reply(r), phase[r] = "lost" PROVE IndInv'
  <2>1. Respond(r, detail[r], TRUE)
    BY <1>6, Zenon DEF Reply
  <2>2. UNCHANGED <<dispatches, opId, detail, dispatched>>
    BY <1>6 DEF Reply
  <2>3. TypeOK'
    <3>1. detail[r] \in Detail /\ TRUE \in BOOLEAN
      BY DEF IndInv, TypeOK
    <3>2. answers' \subseteq Answer /\ phase' \in [Request -> Phase]
      BY <2>1, <3>1, RespondTyped DEF IndInv
    <3>3. QED
      BY <2>2, <3>2 DEF IndInv, TypeOK
  <2>4. opId[r] \in DOMAIN dispatches
    BY <1>6 DEF IndInv, ClaimOK
  <2>5. \A a \in answers' \ answers : a.duplicate /\ a.opId \in DOMAIN dispatches
    BY <2>1, <2>4 DEF Respond
  <2>6. QED
    BY <2>1, <2>2, <2>3, <2>5, QuietStep DEF Respond, Go, IndInv, TypeOK
<1>7. ASSUME NEW r \in Request, Reply(r), phase[r] = "claimed" PROVE IndInv'
  <2>1. Respond(r, detail[r], FALSE)
    BY <1>7, Zenon DEF Reply
  <2>2. /\ dispatches[opId[r]] = detail[r] /\ opId[r] \in DOMAIN dispatches
        /\ dispatched[opId[r]] = 0
        /\ dispatched' = [dispatched EXCEPT ![opId[r]] = 1]
    <3>1. /\ dispatches[opId[r]] = detail[r] /\ opId[r] \in DOMAIN dispatches
          /\ dispatched[opId[r]] = 0
      BY <1>7 DEF IndInv, TypeOK, ClaimOK
    <3>2. dispatched' = [dispatched EXCEPT ![opId[r]] = dispatched[opId[r]] + 1]
      BY <1>7 DEF Reply
    <3>3. QED
      BY <3>1, <3>2
  <2>3. UNCHANGED <<dispatches, opId, detail>>
    BY <1>7 DEF Reply
  <2>4. TypeOK'
    <3>1. detail[r] \in Detail /\ FALSE \in BOOLEAN
      BY DEF IndInv, TypeOK
    <3>2. answers' \subseteq Answer /\ phase' \in [Request -> Phase]
      BY <2>1, <3>1, RespondTyped DEF IndInv
    <3>3. QED
      BY <2>2, <2>3, <3>2 DEF IndInv, TypeOK
  <2>5. \A q \in Request : phase'[q] \in {"claimed", "lost"} =>
            q # r /\ phase'[q] = phase[q]
    BY <2>1 DEF Respond, Go, IndInv, TypeOK
  <2>6. \A q \in Request : ClaimOK(q)'
    BY <1>7, <2>2, <2>3, <2>5 DEF IndInv, TypeOK, ClaimOK, OneClaimer
  <2>7. OneClaimer'
    BY <2>3, <2>5 DEF IndInv, OneClaimer
  <2>8. CountedIsRecorded'
    BY <2>2, <2>3 DEF IndInv, TypeOK, CountedIsRecorded
  <2>9. DispatchedOnce'
    <3>1. \A k \in OpId : dispatched'[k] <= 1 /\ (dispatched[k] = 1 => dispatched'[k] = 1)
      BY <2>2 DEF IndInv, TypeOK, DispatchedOnce
    <3>2. ASSUME NEW a \in answers'
          PROVE  /\ a.opId \in DOMAIN dispatches
                 /\ ~a.duplicate => a.detail = dispatches[a.opId] /\ dispatched'[a.opId] = 1
      <4>1. CASE a \in answers
        BY <4>1, <3>1 DEF IndInv, TypeOK, DispatchedOnce, Answer
      <4>2. CASE a \notin answers
        <5>1. a.opId = opId[r] /\ a.detail = detail[r]
          BY <2>1, <4>2 DEF Respond
        <5>2. QED
          BY <2>2, <5>1 DEF IndInv, TypeOK
      <4>3. QED
        BY <4>1, <4>2
    <3>3. QED
      BY <2>3, <3>1, <3>2 DEF DispatchedOnce
  <2>10. QED
    BY <2>4, <2>6, <2>7, <2>8, <2>9 DEF IndInv
<1>8. ASSUME NEW r \in Request, Fail(r) PROVE IndInv'
  <2>1. TypeOK'
    BY <1>8 DEF Fail, Go, IndInv, TypeOK, Phase
  <2>2. QED
    BY <1>8, <2>1, QuietStep DEF Fail, Go, IndInv, TypeOK
<1>9. QED
  BY <1>1, <1>2, <1>3, <1>4, <1>5, <1>6, <1>7, <1>8 DEF Next, Reply

\* The inductive invariant holds of every behaviour, for every number of
\* overlapping requests.
THEOREM Invariance == Spec => []IndInv
BY InitInd, StepInd, PTL DEF Spec

\* A dispatch happens, and is reported as the first, at most once per op_id.
THEOREM OneDispatchPerOp == Spec => []DispatchedOnce
<1>1. IndInv => DispatchedOnce
  BY DEF IndInv
<1>2. QED
  BY <1>1, Invariance, PTL
=============================================================================

--------------------------- MODULE HttpClientProofs -------------------------
(***************************************************************************)
(* Proofs about HttpClient: the breaker never waits, half open, for a probe   *)
(* that is not under way, it is closed exactly below the threshold, and half  *)
(* open it admits no second probe.                                             *)
(***************************************************************************)
EXTENDS HttpClient, TLAPS

LEMMA InitInd == ASSUME Init PROVE IndInv
<1>1. FlagsOK
  BY Zenon DEF Init, FlagsOK
<1>2. TypeOK
  BY <1>1, HttpClientAssumption DEF Init, TypeOK, BreakerState
<1>3. ProbesUnderWay /\ HalfOpenHasProbe
  BY DEF Init, ProbesUnderWay, HalfOpenHasProbe
<1>4. ClosedBelowThreshold
  BY HttpClientAssumption DEF Init, ClosedBelowThreshold
<1>5. QED
  BY <1>2, <1>3, <1>4 DEF IndInv

\* Whatever a call that gives up reports, the breaker is closed or open
\* afterwards, and closed only below the threshold.
LEMMA FailureReported ==
    ASSUME TypeOK, ClosedBelowThreshold, RecordFailure
    PROVE  /\ state' \in {"closed", "open"}
           /\ failures' \in 0 .. FailThreshold
           /\ cooled' \in BOOLEAN /\ probeInflight' \in BOOLEAN
           /\ ClosedBelowThreshold'
<1> USE HttpClientAssumption
<1>1. CASE state = "half_open"
  <2>1. Trip /\ failures' = failures
    BY <1>1 DEF RecordFailure
  <2>2. QED
    BY <1>1, <2>1 DEF Trip, TypeOK, ClosedBelowThreshold
<1>2. CASE state # "half_open" /\ failures + 1 >= FailThreshold
  <2>1. Trip
    BY <1>2 DEF RecordFailure
  <2>2. failures' = FailThreshold
    BY <1>2 DEF RecordFailure, CountFailure, TypeOK
  <2>3. cooled' \in BOOLEAN /\ probeInflight' \in BOOLEAN
    BY <2>1, Zenon DEF Trip
  <2>4. QED
    BY <2>1, <2>2, <2>3 DEF Trip, TypeOK, ClosedBelowThreshold
<1>3. CASE state # "half_open" /\ ~(failures + 1 >= FailThreshold)
  <2>1. UNCHANGED <<state, cooled, probeInflight>> /\ CountFailure
    BY <1>3 DEF RecordFailure
  <2>2. failures' = failures + 1 /\ failures' < FailThreshold
    BY <1>3, <2>1 DEF CountFailure, TypeOK
  <2>3. cooled' \in BOOLEAN /\ probeInflight' \in BOOLEAN
    BY <2>1, Zenon DEF TypeOK, FlagsOK
  <2>4. state = "closed" /\ state' = "closed"
    BY <1>3, <2>1 DEF TypeOK, ClosedBelowThreshold
  <2>5. QED
    BY <2>2, <2>3, <2>4 DEF TypeOK, ClosedBelowThreshold
<1>4. QED
  BY <1>1, <1>2, <1>3

\* An attempt that came to nothing, of a call that goes on or gives up.
LEMMA AttemptEnds ==
    ASSUME IndInv, NEW c \in Caller, attempt[c] > 0, RetryOrExhaust(c),
           outage' \in [Caller -> BOOLEAN], healthy' = healthy
    PROVE  IndInv'
<1>1. CASE attempt[c] < Attempts
  <2>1. UNCHANGED breakerVars /\ UNCHANGED probing
    BY <1>1 DEF RetryOrExhaust
  <2>2. FlagsOK'
    BY <2>1, Zenon DEF IndInv, TypeOK, FlagsOK, breakerVars
  <2>3. attempt' \in [Caller -> 0 .. Attempts]
    BY <1>1, HttpClientAssumption DEF RetryOrExhaust, IndInv, TypeOK
  <2>4. TypeOK'
    BY <2>1, <2>2, <2>3 DEF IndInv, TypeOK, breakerVars
  <2>5. ProbesUnderWay' /\ HalfOpenHasProbe'
    BY <1>1 DEF RetryOrExhaust, IndInv, TypeOK, breakerVars, ProbesUnderWay, HalfOpenHasProbe
  <2>6. ClosedBelowThreshold'
    BY <2>1 DEF IndInv, breakerVars, ClosedBelowThreshold
  <2>7. QED
    BY <2>4, <2>5, <2>6 DEF IndInv
<1>2. CASE ~(attempt[c] < Attempts)
  <2>1. Leave(c) /\ RecordFailure
    BY <1>2 DEF RetryOrExhaust
  <2>2. FlagsOK'
    BY <2>1, FailureReported, Zenon DEF IndInv, TypeOK, FlagsOK
  <2>3. TypeOK'
    BY <2>1, <2>2, FailureReported, HttpClientAssumption
       DEF Leave, IndInv, TypeOK, BreakerState
  <2>4. ProbesUnderWay'
    BY <2>1 DEF Leave, IndInv, TypeOK, ProbesUnderWay
  <2>5. HalfOpenHasProbe' /\ ClosedBelowThreshold'
    BY <2>1, FailureReported DEF IndInv, HalfOpenHasProbe
  <2>6. QED
    BY <2>3, <2>4, <2>5 DEF IndInv
<1>3. QED
  BY <1>1, <1>2

LEMMA StepInd == ASSUME IndInv, [Next]_vars PROVE IndInv'
<1> USE HttpClientAssumption
<1>1. CASE UNCHANGED vars
  BY <1>1 DEF vars, breakerVars, callVars, IndInv, TypeOK, FlagsOK, ProbesUnderWay,
              HalfOpenHasProbe, ClosedBelowThreshold
<1>2. ASSUME NEW c \in Caller, Admit(c) PROVE IndInv'
  <2>1. outage' \in [Caller -> BOOLEAN]
    BY <1>2, Zenon DEF Admit, Enter, IndInv, TypeOK, FlagsOK
  <2>2. FlagsOK'
    BY <1>2, <2>1, Zenon DEF Admit, IndInv, TypeOK, FlagsOK
  <2>3. TypeOK'
    BY <1>2, <2>2 DEF Admit, Enter, IndInv, TypeOK, BreakerState
  <2>4. attempt'[c] = 1 /\ \A d \in Caller \ {c} : attempt'[d] = attempt[d]
    BY <1>2 DEF Admit, Enter, IndInv, TypeOK
  <2>5. ProbesUnderWay'
    BY <1>2, <2>4 DEF Admit, IndInv, TypeOK, ProbesUnderWay
  <2>6. HalfOpenHasProbe'
    BY <1>2, <2>4 DEF Admit, IndInv, TypeOK, HalfOpenHasProbe
  <2>7. ClosedBelowThreshold'
    BY <1>2 DEF Admit, IndInv, ClosedBelowThreshold
  <2>8. QED
    BY <2>3, <2>5, <2>6, <2>7 DEF IndInv
<1>3. ASSUME NEW c \in Caller, Definitive(c) PROVE IndInv'
  <2>1. FlagsOK'
    BY <1>3, Zenon DEF Definitive, RecordSuccess, IndInv, TypeOK, FlagsOK
  <2>2. TypeOK'
    BY <1>3, <2>1 DEF Definitive, Leave, RecordSuccess, IndInv, TypeOK, BreakerState
  <2>3. ProbesUnderWay'
    BY <1>3 DEF Definitive, Leave, IndInv, TypeOK, ProbesUnderWay
  <2>4. HalfOpenHasProbe' /\ ClosedBelowThreshold'
    BY <1>3 DEF Definitive, RecordSuccess, HalfOpenHasProbe, ClosedBelowThreshold
  <2>5. QED
    BY <2>2, <2>3, <2>4 DEF IndInv
<1>4. ASSUME NEW c \in Caller, RateLimited(c) PROVE IndInv'
  <2>1. outage' \in [Caller -> BOOLEAN]
    BY <1>4, Zenon DEF RateLimited, IndInv, TypeOK, FlagsOK
  <2>2. QED
    BY <1>4, <2>1, AttemptEnds DEF RateLimited
<1>5. ASSUME NEW c \in Caller, Transient(c) PROVE IndInv'
  <2>1. outage' \in [Caller -> BOOLEAN]
    BY <1>5, Zenon DEF Transient, IndInv, TypeOK, FlagsOK
  <2>2. QED
    BY <1>5, <2>1, AttemptEnds DEF Transient
<1>6. CASE Cool
  <2>1. FlagsOK'
    BY <1>6, Zenon DEF Cool, callVars, IndInv, TypeOK, FlagsOK
  <2>2. QED
    BY <1>6, <2>1 DEF Cool, callVars, IndInv, TypeOK, ProbesUnderWay,
                      HalfOpenHasProbe, ClosedBelowThreshold
<1>7. CASE HealthChange
  <2>1. FlagsOK'
    BY <1>7, Zenon DEF HealthChange, breakerVars, callVars, IndInv, TypeOK, FlagsOK
  <2>2. QED
    BY <1>7, <2>1 DEF HealthChange, breakerVars, callVars, IndInv, TypeOK,
                      ProbesUnderWay, HalfOpenHasProbe, ClosedBelowThreshold
<1>8. QED
  BY <1>1, <1>2, <1>3, <1>4, <1>5, <1>6, <1>7 DEF Next

\* The inductive invariant holds of every behaviour, for every number of
\* callers, every threshold and every number of attempts.
THEOREM Invariance == Spec => []IndInv
BY InitInd, StepInd, PTL DEF Spec

\* A half-open breaker is never without a call that will report to it.
THEOREM HalfOpenNeverStuck == Spec => []HalfOpenHasProbe
<1>1. IndInv => HalfOpenHasProbe
  BY DEF IndInv
<1>2. QED
  BY <1>1, Invariance, PTL

\* The breaker is closed exactly below the threshold.
THEOREM ClosedMeansBelowThreshold == Spec => []ClosedBelowThreshold
<1>1. IndInv => ClosedBelowThreshold
  BY DEF IndInv
<1>2. QED
  BY <1>1, Invariance, PTL

\* Half open, the breaker admits no call besides the probe that half-opened it.
THEOREM OneProbePerHalfOpening == Spec => NoSecondProbe
<1> DEFINE Refuses == \A c \in Caller : attempt[c] = 0 => attempt'[c] = 0
<1>1. ASSUME IndInv, [Next]_vars, state = "half_open" PROVE Refuses
  <2>1. probeInflight
    BY <1>1 DEF IndInv, HalfOpenHasProbe
  <2>2. ASSUME NEW c \in Caller PROVE ~Admit(c)
    BY <1>1, <2>1 DEF Admit
  <2>3. ASSUME NEW c \in Caller, Definitive(c) PROVE Refuses
    BY <1>1, <2>3 DEF Definitive, Leave, IndInv, TypeOK
  <2>4. ASSUME NEW c \in Caller, attempt[c] > 0, RetryOrExhaust(c) PROVE Refuses
    BY <1>1, <2>4 DEF RetryOrExhaust, Leave, IndInv, TypeOK
  <2>5. CASE Cool \/ HealthChange \/ UNCHANGED vars
    BY <2>5 DEF Cool, HealthChange, vars, callVars
  <2>6. QED
    BY <1>1, <2>2, <2>3, <2>4, <2>5 DEF Next, RateLimited, Transient
<1>2. IndInv /\ [Next]_vars => [state = "half_open" => Refuses]_vars
  BY <1>1
<1>3. QED
  BY <1>2, Invariance, PTL DEF Spec, NoSecondProbe
=============================================================================

----------------------------- MODULE HttpClient -----------------------------
(***************************************************************************)
(* One ResilientClient with its CircuitBreaker (drcommon/http_client.py),    *)
(* shared by every handler of the orchestrator that calls this downstream.   *)
(* A call checks the breaker once, on the way in, and reports to it once, on  *)
(* the way out; the attempts in between are awaited, so any number of calls    *)
(* admitted in different states of the breaker overlap.                        *)
(***************************************************************************)
EXTENDS Naturals

CONSTANTS
    Caller,         \* handlers that may call at the same time
    FailThreshold,  \* fail_threshold
    Attempts        \* max_retries + 1

ASSUME HttpClientAssumption ==
    /\ FailThreshold \in Nat \ {0}
    /\ Attempts \in Nat \ {0}

VARIABLES
    state,          \* CircuitBreaker.state
    failures,       \* _failures, counted up to FailThreshold
    cooled,         \* open_seconds have passed since _opened_at
    probeInflight,  \* _probe_inflight
    attempt,        \* the attempt each call is at; 0: the handler is not calling
    probing,        \* history: calls admitted as a probe and not ended
    outage,         \* history: the handler's last call met a 5xx or a timeout
    healthy         \* the downstream gives definitive answers only

breakerVars == <<state, failures, cooled, probeInflight>>
callVars    == <<attempt, probing, outage>>
vars        == <<breakerVars, callVars, healthy>>

BreakerState == {"closed", "open", "half_open"}

FlagsOK ==
    /\ cooled \in BOOLEAN
    /\ probeInflight \in BOOLEAN
    /\ outage \in [Caller -> BOOLEAN]
    /\ healthy \in BOOLEAN

TypeOK ==
    /\ state \in BreakerState
    /\ failures \in 0 .. FailThreshold
    /\ attempt \in [Caller -> 0 .. Attempts]
    /\ probing \subseteq Caller
    /\ FlagsOK

Init ==
    /\ state = "closed" /\ failures = 0
    /\ cooled = FALSE /\ probeInflight = FALSE
    /\ attempt = [c \in Caller |-> 0]
    /\ probing = {}
    /\ outage = [c \in Caller |-> FALSE]
    /\ healthy \in BOOLEAN

-----------------------------------------------------------------------------
(* CircuitBreaker                                                            *)

Trip ==
    /\ state' = "open"
    /\ cooled' = FALSE
    /\ probeInflight' = FALSE

\* Mutant: the counter keeps the failures of before the last success.
RecordSuccessKeepsCount ==
    /\ state' = "closed"
    /\ probeInflight' = FALSE
    /\ UNCHANGED <<failures, cooled>>

RecordSuccess ==
    /\ state' = "closed"
    /\ failures' = 0
    /\ probeInflight' = FALSE
    /\ UNCHANGED cooled

\* The count saturates: it is only ever compared with the threshold.
CountFailure ==
    failures' = IF failures < FailThreshold THEN failures + 1 ELSE failures

\* Whoever reports a failure in HALF_OPEN trips the breaker, the probe or a call
\* that was admitted before; reported in OPEN, a failure past the threshold
\* starts the cooling again.
RecordFailure ==
    IF state = "half_open"
    THEN Trip /\ UNCHANGED failures
    ELSE /\ CountFailure
         /\ IF failures + 1 >= FailThreshold
            THEN Trip
            ELSE UNCHANGED <<state, cooled, probeInflight>>

-----------------------------------------------------------------------------
(* post_json                                                                 *)

Enter(c) ==
    /\ attempt' = [attempt EXCEPT ![c] = 1]
    /\ outage' = [outage EXCEPT ![c] = FALSE]

\* Mutant: the probe that half-opens the breaker does not set the flag.
AdmitUnflagged(c) ==
    /\ attempt[c] = 0
    /\ Enter(c)
    /\ \/ state = "closed" /\ UNCHANGED <<state, probeInflight, probing>>
       \/ /\ state = "open" /\ cooled
          /\ state' = "half_open"
          /\ probeInflight' = FALSE
          /\ probing' = probing \cup {c}
       \/ /\ state = "half_open" /\ ~probeInflight
          /\ probeInflight' = TRUE
          /\ probing' = probing \cup {c}
          /\ UNCHANGED state
    /\ UNCHANGED <<failures, cooled, healthy>>

\* allow() returns True; a call it refuses raises BreakerOpen and changes
\* nothing.
Admit(c) ==
    /\ attempt[c] = 0
    /\ Enter(c)
    /\ \/ state = "closed" /\ UNCHANGED <<state, probeInflight, probing>>
       \/ /\ \/ state = "open" /\ cooled
             \/ state = "half_open" /\ ~probeInflight
          /\ state' = "half_open"
          /\ probeInflight' = TRUE
          /\ probing' = probing \cup {c}
    /\ UNCHANGED <<failures, cooled, healthy>>

Leave(c) ==
    /\ attempt' = [attempt EXCEPT ![c] = 0]
    /\ probing' = probing \ {c}

\* A 2xx, or a 4xx other than 429, which raises PermanentError: the downstream
\* is up either way.
Definitive(c) ==
    /\ attempt[c] > 0
    /\ Leave(c)
    /\ RecordSuccess
    /\ UNCHANGED <<outage, healthy>>

\* The attempt came to nothing: the next one, or TransientExhausted.
RetryOrExhaust(c) ==
    IF attempt[c] < Attempts
    THEN /\ attempt' = [attempt EXCEPT ![c] = @ + 1]
         /\ UNCHANGED <<breakerVars, probing>>
    ELSE Leave(c) /\ RecordFailure

\* Mutant: exhausted by 429s, the call does not report to the breaker at all.
RateLimitedUnreported(c) ==
    /\ attempt[c] > 0 /\ ~healthy
    /\ IF attempt[c] < Attempts
       THEN attempt' = [attempt EXCEPT ![c] = @ + 1] /\ UNCHANGED probing
       ELSE Leave(c)
    /\ UNCHANGED <<breakerVars, outage, healthy>>

\* 429. The break out of the loop leads to record_failure like any other.
RateLimited(c) ==
    /\ attempt[c] > 0 /\ ~healthy
    /\ RetryOrExhaust(c)
    /\ UNCHANGED <<outage, healthy>>

\* A 5xx, a timeout or a transport error.
Transient(c) ==
    /\ attempt[c] > 0 /\ ~healthy
    /\ RetryOrExhaust(c)
    /\ outage' = [outage EXCEPT ![c] = TRUE]
    /\ UNCHANGED healthy

\* open_seconds pass.
Cool ==
    /\ state = "open" /\ ~cooled
    /\ cooled' = TRUE
    /\ UNCHANGED <<state, failures, probeInflight, callVars, healthy>>

\* The downstream breaks, is rate limiting, or recovers.
HealthChange ==
    /\ healthy' = ~healthy
    /\ UNCHANGED <<breakerVars, callVars>>

Next ==
    \/ \E c \in Caller : Admit(c) \/ Definitive(c) \/ RateLimited(c) \/ Transient(c)
    \/ Cool
    \/ HealthChange

Spec == Init /\ [][Next]_vars

\* Attempts end (each has a timeout), time passes, and there is always a next
\* order that wants the downstream, so its calls keep coming.
Fairness ==
    /\ \A c \in Caller : WF_vars(Definitive(c) \/ RateLimited(c) \/ Transient(c))
    /\ WF_vars(Cool)
    /\ SF_vars(\E c \in Caller : Admit(c))

FairSpec == Spec /\ Fairness

-----------------------------------------------------------------------------
(* Properties                                                                *)

\* A half-open breaker waits for a call that will report: the flag that makes
\* it refuse all others is set, and a probe is still under way. (Otherwise it
\* would refuse every call for ever.)
HalfOpenHasProbe ==
    state = "half_open" => probeInflight /\ \E c \in probing : attempt[c] > 0

\* The breaker is closed exactly while fewer than FailThreshold calls have
\* failed since the last success, whichever overlapping calls reported, in
\* whichever state they were admitted.
ClosedBelowThreshold == state = "closed" <=> failures < FailThreshold

\* A half-open breaker admits nobody: the call that half-opened it is the only
\* probe until somebody reports.
NoSecondProbe ==
    [][state = "half_open" =>
           \A c \in Caller : attempt[c] = 0 => attempt'[c] = 0]_vars

\* Once the downstream answers for good, the breaker closes and stays closed,
\* whatever calls were in flight and however often they had tripped it.
RecoversAfterOutage == <>[]healthy => <>[](state = "closed")

\* "429 -> rate limited; retry with backoff, does NOT trip the breaker" (the
\* docstring of http_client.py): the breaker opens only on a report of a call
\* that met a 5xx or a timeout.
RateLimitNeverTrips ==
    [][state # "open" /\ state' = "open" =>
           \E c \in Caller : attempt[c] > 0 /\ attempt'[c] = 0 /\ outage'[c]]_vars

\* The inductive invariant: the two above, and that calls admitted as probes
\* are under way.
ProbesUnderWay == \A c \in probing : attempt[c] > 0
IndInv == TypeOK /\ ProbesUnderWay /\ HalfOpenHasProbe /\ ClosedBelowThreshold
=============================================================================

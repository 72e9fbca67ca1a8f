------------------------- MODULE IdempotentService --------------------------
(***************************************************************************)
(* What a service with an idempotency key promises its callers: under one    *)
(* key it records one outcome, never changes it, and every definitive answer *)
(* it gives for the key is that outcome.                                       *)
(***************************************************************************)
CONSTANTS Key, Outcome, None

VARIABLES
    record,   \* the recorded outcome of each key, or None
    answers   \* the definitive answers given so far: <<key, outcome>>

vars == <<record, answers>>

Init ==
    /\ record = [k \in Key |-> None]
    /\ answers = {}

Record(k, outcome) ==
    /\ record[k] = None
    /\ record' = [record EXCEPT ![k] = outcome]
    /\ UNCHANGED answers

Answer(k) ==
    /\ record[k] # None
    /\ answers' = answers \cup {<<k, record[k]>>}
    /\ UNCHANGED record

Next == \E k \in Key : Answer(k) \/ \E outcome \in Outcome : Record(k, outcome)

Spec == Init /\ [][Next]_vars

\* What callers can rely on: however often a key is sent, and whatever becomes of the
\* requests, no two callers are told different outcomes.
CallersAgree == \A a, b \in answers : a[1] = b[1] => a[2] = b[2]

\* What makes it inductive: what a caller has been told stays what is recorded.
AnswersStand == \A a \in answers : a[2] = record[a[1]]
=============================================================================

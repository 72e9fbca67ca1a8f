------------------------------- MODULE Payment ------------------------------
(***************************************************************************)
(* payment-svc (drcommon/payment.py): create_payment_intent over the charges *)
(* table. Requests under one idempotency key overlap: a client that times     *)
(* out, or dies, sends the key again while the first request is still served. *)
(***************************************************************************)
EXTENDS Naturals

CONSTANTS
    Request,   \* requests that may be served at the same time
    Key,       \* idempotency keys
    Intent,    \* payment intent ids
    None       \* no charge

Charge == [status : {"succeeded", "declined"}, intent : Intent]

ASSUME PaymentAssumption == None \notin Charge

VARIABLES
    charges,   \* the charges table
    phase,     \* where each request's handler is; "idle": no request
    key,       \* its idempotency key
    own,       \* the charge it has rolled
    answers,   \* history: the 200 and 402 responses sent, <<key, charge>>
    charged    \* history: increments of payment_charged_total, per key

vars == <<charges, phase, key, own, answers, charged>>

Phase == {"idle", "lookup", "work", "claim", "claimed", "lost"}

TypeOK ==
    /\ charges \in [Key -> Charge \cup {None}]
    /\ phase \in [Request -> Phase]
    /\ key \in [Request -> Key]
    /\ own \in [Request -> Charge]
    /\ answers \subseteq Key \X Charge
    /\ charged \in [Key -> Nat]

Init ==
    /\ charges = [k \in Key |-> None]
    /\ phase = [r \in Request |-> "idle"]
    /\ key \in [Request -> Key]
    /\ own \in [Request -> Charge]
    /\ answers = {}
    /\ charged = [k \in Key |-> 0]

-----------------------------------------------------------------------------
Go(r, p) == phase' = [phase EXCEPT ![r] = p]

\* _intent_response
Respond(r, charge) ==
    /\ answers' = answers \cup {<<key[r], charge>>}
    /\ Go(r, "idle")

\* A request comes in while the service is up. (Refused with a 503 it changes
\* nothing.)
Arrive(r, k) ==
    /\ phase[r] = "idle"
    /\ key' = [key EXCEPT ![r] = k]
    /\ Go(r, "lookup")
    /\ UNCHANGED <<charges, own, answers, charged>>

\* Replay the recorded outcome, or pass the rate limit.
Lookup(r) ==
    /\ phase[r] = "lookup"
    /\ IF charges[key[r]] # None
       THEN Respond(r, charges[key[r]])
       ELSE Go(r, "work") /\ UNCHANGED answers
    /\ UNCHANGED <<charges, key, own, charged>>

\* latency, then roll: succeeded or declined, under an id of its own.
Work(r) ==
    /\ phase[r] = "work"
    /\ \E charge \in Charge : own' = [own EXCEPT ![r] = charge]
    /\ Go(r, "claim")
    /\ UNCHANGED <<charges, key, answers, charged>>

\* Mutant: the handler trusts its lookup and writes over what is there.
ClaimUpsert(r) ==
    /\ phase[r] = "claim"
    /\ charges' = [charges EXCEPT ![key[r]] = own[r]]
    /\ Go(r, "claimed")
    /\ UNCHANGED <<key, own, answers, charged>>

\* INSERT ... ON CONFLICT DO NOTHING RETURNING.
Claim(r) ==
    /\ phase[r] = "claim"
    /\ IF charges[key[r]] = None
       THEN charges' = [charges EXCEPT ![key[r]] = own[r]] /\ Go(r, "claimed")
       ELSE Go(r, "lost") /\ UNCHANGED charges
    /\ UNCHANGED <<key, own, answers, charged>>

\* Mutant: the loser of the race counts and returns the outcome it rolled.
ReplyLostOwn(r) ==
    /\ phase[r] \in {"claimed", "lost"}
    /\ Respond(r, own[r])
    /\ charged' = IF own[r].status = "succeeded"
                  THEN [charged EXCEPT ![key[r]] = @ + 1] ELSE charged
    /\ UNCHANGED <<charges, key, own>>

\* The winner counts its charge and returns it.
Reply(r) ==
    /\ phase[r] = "claimed"
    /\ Respond(r, own[r])
    /\ charged' = IF own[r].status = "succeeded"
                  THEN [charged EXCEPT ![key[r]] = @ + 1] ELSE charged
    /\ UNCHANGED <<charges, key, own>>

\* The loser reads and returns the winner's.
ReplyLost(r) ==
    /\ phase[r] = "lost"
    /\ Respond(r, charges[key[r]])
    /\ UNCHANGED <<charges, key, own, charged>>

\* No definitive answer: a 429, an injected 502 or 504, a failing database call,
\* or the death of the service, before the insert or after it.
Fail(r) ==
    /\ phase[r] # "idle"
    /\ Go(r, "idle")
    /\ UNCHANGED <<charges, key, own, answers, charged>>

Next ==
    \E r \in Request :
        \/ \E k \in Key : Arrive(r, k)
        \/ Lookup(r) \/ Work(r) \/ Claim(r) \/ Reply(r) \/ ReplyLost(r) \/ Fail(r)

Spec == Init /\ [][Next]_vars

-----------------------------------------------------------------------------
(* Properties                                                                *)

\* A card is charged at most once under a key, and counted only for a charge
\* that is recorded, however requests with the key overlap, fail and come again.
ChargedAtMostOnce ==
    \A k \in Key :
        /\ charged[k] <= 1
        /\ charged[k] = 1 => charges[k] # None /\ charges[k].status = "succeeded"

\* Every caller learns the one recorded outcome of its key.
Service    == INSTANCE IdempotentService WITH record <- charges, Outcome <- Charge
Implements == Service!Spec

\* What makes it inductive: the handler that claimed a key is the only one, the
\* charge it is about to report is the recorded one, and until it reports
\* nothing was counted for the key.
ClaimOK(r) ==
    /\ phase[r] = "claimed" => charges[key[r]] = own[r] /\ charged[key[r]] = 0
    /\ phase[r] = "lost" => charges[key[r]] # None
OneClaimer ==
    \A r, q \in Request :
        phase[r] = "claimed" /\ phase[q] = "claimed" /\ key[r] = key[q] => r = q
IndInv ==
    /\ TypeOK
    /\ \A r \in Request : ClaimOK(r)
    /\ OneClaimer /\ ChargedAtMostOnce
=============================================================================

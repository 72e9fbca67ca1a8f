----------------------------- MODULE Fulfillment ----------------------------
(***************************************************************************)
(* restaurant-svc and courier-svc (drcommon/downstream.py): fulfill over the *)
(* dispatches table. As in Payment, requests with one op_id overlap; unlike  *)
(* there, the loser of the insert does not read what the winner recorded.     *)
(***************************************************************************)
EXTENDS Naturals

CONSTANTS
    Request,   \* requests that may be served at the same time
    OpId,      \* op_ids
    Detail     \* the result payloads a run of the handler may produce

VARIABLES
    dispatches,  \* the dispatches table: the op_ids it has a row for -> result
    phase,       \* where each request's handler is; "idle": no request
    opId,        \* its op_id
    detail,      \* the result it has produced
    answers,     \* history: the 200 responses sent
    dispatched   \* history: increments of downstream_dispatched_total

vars == <<dispatches, phase, opId, detail, answers, dispatched>>

Phase  == {"idle", "lookup", "work", "claim", "claimed", "lost"}
Answer == [opId : OpId, detail : Detail, duplicate : BOOLEAN]

TypeOK ==
    /\ DOMAIN dispatches \subseteq OpId
    /\ dispatches \in [DOMAIN dispatches -> Detail]
    /\ phase \in [Request -> Phase]
    /\ opId \in [Request -> OpId]
    /\ detail \in [Request -> Detail]
    /\ answers \subseteq Answer
    /\ dispatched \in [OpId -> Nat]

Init ==
    /\ dispatches = [k \in {} |-> {}]
    /\ phase = [r \in Request |-> "idle"]
    /\ opId \in [Request -> OpId]
    /\ detail \in [Request -> Detail]
    /\ answers = {}
    /\ dispatched = [k \in OpId |-> 0]

-----------------------------------------------------------------------------
Go(r, p) == phase' = [phase EXCEPT ![r] = p]

Respond(r, result, duplicate) ==
    /\ answers' = answers \cup
           {[opId |-> opId[r], detail |-> result, duplicate |-> duplicate]}
    /\ Go(r, "idle")

\* A request comes in while the service is up.
Arrive(r, k) ==
    /\ phase[r] = "idle"
    /\ opId' = [opId EXCEPT ![r] = k]
    /\ Go(r, "lookup")
    /\ UNCHANGED <<dispatches, detail, answers, dispatched>>

\* The fast path: a known duplicate; or pass the rate limit.
Lookup(r) ==
    /\ phase[r] = "lookup"
    /\ IF opId[r] \in DOMAIN dispatches
       THEN Respond(r, dispatches[opId[r]], TRUE)
       ELSE Go(r, "work") /\ UNCHANGED answers
    /\ UNCHANGED <<dispatches, opId, detail, dispatched>>

Work(r) ==
    /\ phase[r] = "work"
    /\ \E d \in Detail : detail' = [detail EXCEPT ![r] = d]
    /\ Go(r, "claim")
    /\ UNCHANGED <<dispatches, opId, answers, dispatched>>

Record(k, d) ==
    dispatches' = [x \in DOMAIN dispatches \cup {k} |-> IF x = k THEN d ELSE dispatches[x]]

\* Mutant: the insert overwrites, and counts as a first dispatch.
ClaimUpsert(r) ==
    /\ phase[r] = "claim"
    /\ Record(opId[r], detail[r])
    /\ Go(r, "claimed")
    /\ UNCHANGED <<opId, detail, answers, dispatched>>

\* INSERT ... ON CONFLICT DO NOTHING RETURNING.
Claim(r) ==
    /\ phase[r] = "claim"
    /\ IF opId[r] \notin DOMAIN dispatches
       THEN Record(opId[r], detail[r]) /\ Go(r, "claimed")
       ELSE Go(r, "lost") /\ UNCHANGED dispatches
    /\ UNCHANGED <<opId, detail, answers, dispatched>>

\* Winner and loser alike return the result they produced themselves; only the
\* winner counts it.
Reply(r) ==
    /\ phase[r] \in {"claimed", "lost"}
    /\ Respond(r, detail[r], phase[r] = "lost")
    /\ dispatched' = IF phase[r] = "claimed"
                     THEN [dispatched EXCEPT ![opId[r]] = @ + 1] ELSE dispatched
    /\ UNCHANGED <<dispatches, opId, detail>>

\* No definitive answer: a 429, an injected 500 or 504, a failing database call,
\* or the death of the service, before the insert or after it.
Fail(r) ==
    /\ phase[r] # "idle"
    /\ Go(r, "idle")
    /\ UNCHANGED <<dispatches, opId, detail, answers, dispatched>>

Next ==
    \E r \in Request :
        \/ \E k \in OpId : Arrive(r, k)
        \/ Lookup(r) \/ Work(r) \/ Claim(r) \/ Reply(r) \/ Fail(r)

Spec == Init /\ [][Next]_vars

-----------------------------------------------------------------------------
(* Properties                                                                *)

\* A courier is dispatched at most once under an op_id: at most one response
\* says it was the first, it carries the recorded result, and a response that
\* says it is a duplicate has a dispatch to be a duplicate of.
DispatchedOnce ==
    /\ \A k \in OpId : dispatched[k] <= 1
    /\ \A a \in answers :
           /\ a.opId \in DOMAIN dispatches
           /\ ~a.duplicate => a.detail = dispatches[a.opId] /\ dispatched[a.opId] = 1

\* What makes DispatchedOnce inductive.
ClaimOK(r) ==
    /\ phase[r] \in {"claimed", "lost"} => opId[r] \in DOMAIN dispatches
    /\ phase[r] = "claimed" => dispatches[opId[r]] = detail[r] /\ dispatched[opId[r]] = 0
OneClaimer ==
    \A r, q \in Request :
        phase[r] = "claimed" /\ phase[q] = "claimed" /\ opId[r] = opId[q] => r = q
CountedIsRecorded == \A k \in OpId : dispatched[k] > 0 => k \in DOMAIN dispatches
IndInv ==
    /\ TypeOK
    /\ \A r \in Request : ClaimOK(r)
    /\ OneClaimer /\ CountedIsRecorded /\ DispatchedOnce
=============================================================================

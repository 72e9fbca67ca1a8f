-------------------------- MODULE OrchestratorProofs -------------------------
(***************************************************************************)
(* Proofs about Orchestrator, for every set of orders and slots, every cap  *)
(* on attempts and every combination of faults. The argument is an         *)
(* induction on IndInv; each lemma below takes one of its conjuncts through *)
(* a step, with one proof step per action. What a handler knows of its      *)
(* order is then carried along (LifeInv) to show that the pipeline          *)
(* implements OrderLifecycle, that the end of an order is true of what was   *)
(* done for it (StagesOK), and the log is a path (LogInv).                  *)
(***************************************************************************)
EXTENDS Orchestrator, FiniteSetTheorems, TLAPS

-----------------------------------------------------------------------------
(* The lifecycle table                                                       *)

\* The happy path leads from every active state to another state.
LEMMA NextIsState ==
    ASSUME NEW from \in Active
    PROVE  NextHappyState[from] \in State
  BY DEF Active, State, Terminal, NextHappyState

\* Each state that calls a service is active and calls one of the three.
LEMMA CallsIsActive ==
    ASSUME NEW from, Calls(from)
    PROVE  from \in Active /\ StageDownstream[from] \in Downstream
  BY DEF Calls, Active, State, Terminal, StageDownstream, Downstream

\* Ranks are numbers, and every move the handlers make goes up.
LEMMA RankGrows ==
    /\ \A x \in State \cup {"absent"} : Rank[x] \in Nat
    /\ \A x \in State : Rank["absent"] < Rank[x]
    /\ \A from \in Active : /\ Rank[from] < Rank[NextHappyState[from]]
                            /\ Rank[from] < Rank["cancelled"]
                            /\ Rank[from] < Rank["failed"]
  BY DEF Rank, Active, State, Terminal, NextHappyState

-----------------------------------------------------------------------------
(* Type correctness                                                          *)

LEMMA InitType == Init => TypeOK
  BY OrchestratorAssumption
  DEF Init, TypeOK, NoEnvelope, Envelope, Queue, Step, Downstream

\* A publish puts a well-formed envelope in a slot.
LEMMA PutType ==
    ASSUME TypeOK, NEW t \in Slot, NEW q \in Queue, NEW mail \in Envelope, Put(t, q, mail)
    PROVE  /\ queue' \in [Slot -> Queue \cup {"free"}]
           /\ env' \in [Slot -> Envelope \cup {NoEnvelope}]
           /\ \A s \in Slot : queue'[s] # "free" => env'[s] \in Envelope
  BY DEF TypeOK, Put, Free, Queue

\* The attempt a republished envelope carries stays within the cap.
LEMMA AttemptType ==
    ASSUME TypeOK, HandlerOK, NEW s \in Slot, queue[s] = "advance"
    PROVE  /\ AttemptOf(s) \in 1 .. MaxAttempts
           /\ AttemptOf(s) < MaxAttempts => AttemptOf(s) + 1 \in 1 .. MaxAttempts
           /\ env[s].order \in Order
           /\ env[s].from \in {"none"} \cup Active
  <1>1. env[s] \in Envelope
    BY DEF TypeOK
  <1>2. env[s].attempt \in 1 .. MaxAttempts /\ env[s].order \in Order
        /\ env[s].from \in {"none"} \cup Active
    BY <1>1 DEF Envelope
  <1>3. pc[s] = "refault" => env[s].attempt < MaxAttempts
    BY DEF HandlerOK, SlotOK
  <1> QED BY <1>2, <1>3, OrchestratorAssumption DEF AttemptOf

\* The bounded counter stays in range.
LEMMA CounterType ==
    ASSUME TypeOK
    PROVE  disruptions < MaxDisruptions => disruptions + 1 \in 0 .. MaxDisruptions
  <1>1. MaxDisruptions \in Nat
    BY OrchestratorAssumption
  <1>2. disruptions \in 0 .. MaxDisruptions
    BY DEF TypeOK
  <1> QED BY <1>1, <1>2

LEMMA TypeStep == TypeOK /\ HandlerOK /\ [Next]_vars => TypeOK'
  <1> SUFFICES ASSUME TypeOK, HandlerOK, [Next]_vars PROVE TypeOK'
    OBVIOUS
  <1>1. ASSUME NEW o \in Order, Accept(o) PROVE TypeOK'
    <2>1. RowOf(o, "none") \in Row
      BY DEF RowOf, Row
    <2> QED BY <1>1, <2>1 DEF Accept, TypeOK, dbVars, msgVars, svcVars
  <1>2. ASSUME NEW r \in outbox, RelayPublish(r) PROVE TypeOK'
    <2>1. r \in Row /\ r.order \in Order /\ r.from \in {"none"} \cup Active
      BY DEF TypeOK, Row
    <2>2. Mail(r.order, r.from, 1) \in Envelope
      BY <2>1, OrchestratorAssumption DEF Mail, Envelope
    <2>3. (IF r.from = "none" THEN "placed" ELSE "advance") \in Queue
      BY DEF Queue
    <2>4. CASE r.from = "none" /\ ~bound
      BY <1>2, <2>1, <2>4 DEF RelayPublish, TypeOK, dbVars, msgVars, svcVars
    <2>5. CASE ~ (r.from = "none" /\ ~bound)
      <3>1. PICK t \in Slot : Put(t, IF r.from = "none" THEN "placed" ELSE "advance",
                                  Mail(r.order, r.from, 1))
        BY <1>2, <2>5 DEF RelayPublish
      <3> QED
        BY <1>2, <2>1, <2>2, <2>3, <2>5, <3>1, PutType DEF RelayPublish, TypeOK, dbVars, svcVars
    <2> QED BY <2>4, <2>5
  <1>3. ASSUME NEW svc, RelayCommit(svc) \/ RelayAbort(svc) PROVE TypeOK'
    <2>1. CASE RelayCommit(svc)
      BY <2>1 DEF RelayCommit, RowsOf, TypeOK, dbVars, msgVars, svcVars, restVars
    <2>2. CASE RelayAbort(svc)
      BY <2>2, CounterType DEF RelayAbort, RowsOf, TypeOK, dbVars, msgVars, svcVars
    <2> QED BY <1>3, <2>1, <2>2
  <1>4. ASSUME NEW s \in Slot, Ack(s) PROVE TypeOK'
    BY <1>4 DEF Ack, Go, TypeOK, Step, dbVars, rowVars, svcVars, restVars
  <1>5. ASSUME NEW s \in Slot, Seed(s) \/ SeedFails(s) PROVE TypeOK'
    <2>1. env[s].order \in Order
      BY <1>5 DEF Seed, SeedFails, At, TypeOK, Envelope
    <2>2. RowOf(env[s].order, "placed") \in Row
      BY <2>1 DEF RowOf, Row, Active, State, Terminal
    <2>3. orders' \in [Order -> State \cup {"absent"}] /\ outbox' \subseteq Row
          /\ outbox \subseteq outbox'
      <3>1. "placed" \in State
        BY DEF State
      <3>2. SeedTx(env[s].order) \/ UNCHANGED <<orders, outbox>>
        BY <1>5 DEF Seed, SeedFails
      <3>3. CASE orders' = [orders EXCEPT ![env[s].order] = "placed"]
                 /\ outbox' = outbox \cup {RowOf(env[s].order, "placed")}
        BY <2>1, <2>2, <3>1, <3>3 DEF TypeOK
      <3>4. CASE UNCHANGED <<orders, outbox>>
        BY <3>4 DEF TypeOK
      <3> QED BY <3>2, <3>3, <3>4 DEF SeedTx
    <2> QED
      BY <1>5, <2>3
      DEF Seed, SeedFails, Go, TypeOK, Step, msgVars, svcVars, restVars
  <1>6. ASSUME NEW s \in Slot, Park(s) PROVE TypeOK'
    <2>1. env[s] \in Envelope /\ env[s].order \in Order
      BY <1>6 DEF Park, At, TypeOK, Envelope
    <2>2. PICK t \in Slot : Put(t, "dlq", env[s])
      BY <1>6 DEF Park
    <2> QED
      BY <1>6, <2>1, <2>2, PutType
      DEF Park, Go, TypeOK, Step, Queue, dbVars, rowVars, svcVars
  <1>7. ASSUME NEW s \in Slot,
               ParkFails(s) \/ ReplayFails(s) \/
               Read(s) \/ Dedup(s) \/ Reply(s) \/ GiveUp(s) \/ RetryFails(s)
        PROVE  TypeOK'
    <2>1. HandlerOnly
      BY <1>7 DEF ParkFails, ReplayFails, Read, Dedup, Reply, GiveUp, RetryFails
    <2>2. pc' \in [Slot -> Step]
      BY <1>7 DEF ParkFails, ReplayFails,
                  Read, Dedup, Reply, GiveUp, RetryFails, Go, TypeOK, Step
    <2> QED
      BY <2>1, <2>2 DEF HandlerOnly, TypeOK, dbVars, rowVars, msgVars, svcVars, restVars
  <1>8. ASSUME NEW s \in Slot, Send(s) \/ AttemptFails(s) PROVE TypeOK'
    <2>1. env[s].order \in Order
      BY <1>8 DEF Send, AttemptFails, At, TypeOK, Envelope
    <2>2. Callee(s) \in Downstream
      BY <1>8, CallsIsActive DEF Send, AttemptFails, At, HandlerOK, SlotOK, Callee
    <2>3. inflight' \subseteq Order \X Downstream
      BY <1>8, <2>1, <2>2 DEF Send, AttemptFails, TypeOK
    <2> QED
      BY <1>8, <2>3
      DEF Send, AttemptFails, Go, TypeOK, Step, dbVars, rowVars, msgVars, restVars
  <1>9. ASSUME NEW s \in Slot, Commit(s) \/ Cancel(s) \/ FailOrder(s) PROVE TypeOK'
    <2>1. env[s].order \in Order /\ env[s].from \in Active
      BY <1>9, CallsIsActive DEF Commit, Cancel, FailOrder, At, TypeOK, HandlerOK, SlotOK, Envelope
    <2>2. PICK to \in State, done \in Step : Transact(s, to, done)
      BY <1>9, <2>1, NextIsState DEF Commit, Cancel, FailOrder, State, Step
    <2>3. ASSUME Move(env[s].order, env[s].from, to)
          PROVE  /\ orders' \in [Order -> State \cup {"absent"}]
                 /\ transitions' \in [Order -> Seq([from : State, to : State])]
                 /\ operations' \subseteq Order \X Active \X State
                 /\ outbox' \subseteq Row /\ outbox \subseteq outbox'
      <3>1. to \notin Terminal => RowOf(env[s].order, to) \in Row
        BY <2>1 DEF RowOf, Row, Active
      <3>2. [from |-> env[s].from, to |-> to] \in [from : State, to : State]
        BY <2>1 DEF Active
      <3>3. transitions' \in [Order -> Seq([from : State, to : State])]
        <4>1. transitions[env[s].order] \in Seq([from : State, to : State])
          BY <2>1 DEF TypeOK
        <4>2. Append(transitions[env[s].order], [from |-> env[s].from, to |-> to])
                  \in Seq([from : State, to : State])
          BY <3>2, <4>1
        <4> QED BY <2>3, <4>2 DEF Move, TypeOK
      <3>4. orders' \in [Order -> State \cup {"absent"}]
        BY <2>3 DEF Move, TypeOK
      <3>5. Op(env[s].order, env[s].from, to) \in Order \X Active \X State
        BY <2>1 DEF Op
      <3>6. operations' \subseteq Order \X Active \X State
        BY <2>3, <3>5 DEF Move, TypeOK
      <3> QED
        BY <2>3, <3>1, <3>3, <3>4, <3>6 DEF Move, TypeOK
    <2>4. /\ orders' \in [Order -> State \cup {"absent"}]
          /\ transitions' \in [Order -> Seq([from : State, to : State])]
          /\ operations' \subseteq Order \X Active \X State
          /\ outbox' \subseteq Row /\ outbox \subseteq outbox'
      BY <2>2, <2>3 DEF Transact, TypeOK, dbVars
    <2>5. pc' \in [Slot -> Step]
      BY <2>2 DEF Transact, Go, TypeOK, Step
    <2> QED
      BY <2>2, <2>4, <2>5 DEF Transact, TypeOK, msgVars, svcVars, restVars
  <1>10. ASSUME NEW s \in Slot, MarkDone(s) PROVE TypeOK'
    <2>1. StepOp(s) \in operations
      BY <1>10 DEF MarkDone, At, HandlerOK, SlotOK
    <2> QED
      BY <1>10, <2>1 DEF MarkDone, Go, TypeOK, Step, dbVars, rowVars, msgVars, svcVars, restVars
  <1>11. ASSUME NEW s \in Slot, RetryOrDlq(s) \/ ReplayDlq(s) PROVE TypeOK'
    <2>1. PICK q \in Queue, attempt \in 1 .. MaxAttempts : Republish(s, q, attempt)
      BY <1>11, AttemptType, OrchestratorAssumption DEF RetryOrDlq, ReplayDlq, Queue
    <2>2. Mail(env[s].order, env[s].from, attempt) \in Envelope
      BY <1>11 DEF RetryOrDlq, ReplayDlq, At, TypeOK, Mail, Envelope
    <2>3. PICK t \in Slot : Put(t, q, Mail(env[s].order, env[s].from, attempt))
      BY <2>1 DEF Republish
    <2> QED
      BY <2>1, <2>2, <2>3, PutType
      DEF Republish, Go, TypeOK, Step, dbVars, rowVars, svcVars, restVars
  <1>12. ASSUME NEW s \in Slot, FaultFails(s) PROVE TypeOK'
    <2>1. env[s].order \in Order
      BY <1>12 DEF FaultFails, TypeOK, Envelope
    <2> QED
      BY <1>12, <2>1 DEF FaultFails, Go, TypeOK, Step, dbVars, rowVars, msgVars, svcVars
  <1>13. ASSUME NEW s \in Slot, RetryTtl(s) \/ Reconnect(s) PROVE TypeOK'
    BY <1>13
    DEF RetryTtl, Reconnect, Go, TypeOK, Step, Queue, dbVars, rowVars, msgVars, svcVars, restVars
  <1>14. ASSUME NEW o \in Order, NEW d \in Downstream, Serve(o, d) PROVE TypeOK'
    <2>1. PICK outcome \in {"ok", "declined"} : ledger' = [ledger EXCEPT ![o][d] = outcome]
      BY <1>14 DEF Serve
    <2>2. ledger' \in [Order -> [Downstream -> {"none", "ok", "declined"}]]
      BY <2>1 DEF TypeOK
    <2> QED BY <1>14, <2>2 DEF Serve, TypeOK, dbVars, rowVars, msgVars, restVars
  <1>15. ASSUME NEW d \in Downstream, ForceDown(d) \/ ForceUp(d) PROVE TypeOK'
    BY <1>15, CounterType
    DEF ForceDown, ForceUp, TypeOK, dbVars, rowVars, msgVars, restVars
  <1>16. CASE FirstStart
    BY <1>16 DEF FirstStart, DeclareEventQueue, TypeOK, dbVars, rowVars, msgVars, svcVars
  <1>17. CASE Crash
    <2>1. pc' \in [Slot -> Step] /\ sent' \subseteq outbox /\ redelivered' \subseteq Slot
      BY <1>17 DEF Crash, RowsOf, TypeOK, Step
    <2>2. disruptions' \in 0 .. MaxDisruptions
      BY <1>17, CounterType DEF Crash
    <2> QED BY <1>17, <2>1, <2>2 DEF Crash, TypeOK, dbVars, msgVars, svcVars
  <1>18. CASE UNCHANGED vars
    BY <1>18 DEF vars, TypeOK, dbVars, rowVars, msgVars, svcVars, restVars
  <1> QED
    BY <1>1, <1>2, <1>3, <1>4, <1>5, <1>6, <1>7, <1>8, <1>9, <1>10, <1>11, <1>12,
       <1>13, <1>14, <1>15, <1>16, <1>17, <1>18
    DEF Next, OnPlaced, OnAdvance, Broker

-----------------------------------------------------------------------------
(* What a handler has established at each of its steps                       *)

LEMMA InitHandler == Init => HandlerOK
  BY DEF Init, HandlerOK, SlotOK

\* A slot no step touches stays in order: claims are never withdrawn.
LEMMA SlotFrame ==
    ASSUME NEW x \in Slot, SlotOK(x), queue'[x] = queue[x], env'[x] = env[x],
           pc'[x] = pc[x], operations \subseteq operations'
    PROVE  SlotOK(x)'
  BY DEF SlotOK, StepOp, Op

\* A published message starts at "ready", which asks for nothing.
LEMMA SlotPut ==
    ASSUME TypeOK, HandlerOK, NEW t \in Slot, NEW q \in Queue, NEW mail, Put(t, q, mail),
           pc'[t] = pc[t]
    PROVE  SlotOK(t)'
  <1>1. pc[t] = "ready" /\ queue'[t] = q
    BY DEF Put, Free, HandlerOK, SlotOK, TypeOK
  <1> QED BY <1>1 DEF SlotOK, Queue

LEMMA HandlerStep == TypeOK /\ HandlerOK /\ [Next]_vars => HandlerOK'
  <1> SUFFICES ASSUME TypeOK, HandlerOK, [Next]_vars, NEW x \in Slot PROVE SlotOK(x)'
    BY DEF HandlerOK
  <1>0. SlotOK(x)
    BY DEF HandlerOK
  <1>1. ASSUME NEW o \in Order, Accept(o) PROVE SlotOK(x)'
    BY <1>0, <1>1, SlotFrame DEF Accept, dbVars, msgVars
  <1>2. ASSUME NEW r \in outbox, RelayPublish(r) PROVE SlotOK(x)'
    <2>1. pc' = pc /\ operations' = operations
      BY <1>2 DEF RelayPublish, dbVars
    <2>2. CASE UNCHANGED msgVars
      BY <1>0, <2>1, <2>2, SlotFrame DEF msgVars
    <2>3. ASSUME NEW t \in Slot, NEW q \in Queue, NEW mail, Put(t, q, mail) PROVE SlotOK(x)'
      <3>1. CASE x = t
        BY <2>1, <2>3, <3>1, SlotPut
      <3>2. CASE x # t
        BY <1>0, <2>1, <2>3, <3>2, SlotFrame DEF Put, TypeOK
      <3> QED BY <3>1, <3>2
    <2>4. (IF r.from = "none" THEN "placed" ELSE "advance") \in Queue
      BY DEF Queue
    <2> QED BY <1>2, <2>2, <2>3, <2>4 DEF RelayPublish
  <1>3. ASSUME NEW svc, RelayCommit(svc) \/ RelayAbort(svc) PROVE SlotOK(x)'
    BY <1>0, <1>3, SlotFrame DEF RelayCommit, RelayAbort, dbVars, msgVars
  <1>4. ASSUME NEW s \in Slot, Ack(s) PROVE SlotOK(x)'
    <2>1. CASE x = s
      BY <1>4, <2>1 DEF Ack, Go, TypeOK, SlotOK
    <2>2. CASE x # s
      BY <1>0, <1>4, <2>2, SlotFrame DEF Ack, Go, TypeOK, dbVars
    <2> QED BY <2>1, <2>2
  <1>5. ASSUME NEW s \in Slot, Seed(s) \/ SeedFails(s) PROVE SlotOK(x)'
    <2>1. CASE x = s
      BY <1>0, <1>5, <2>1 DEF Seed, SeedFails, At, Go, TypeOK, SlotOK, msgVars
    <2>2. CASE x # s
      BY <1>0, <1>5, <2>2, SlotFrame DEF Seed, SeedFails, Go, TypeOK, msgVars
    <2> QED BY <2>1, <2>2
  <1>6. ASSUME NEW s \in Slot, NEW q \in Queue \ {"placed"}, NEW mail, NEW t \in Slot,
               Put(t, q, mail), Go(s, "ack"), operations' = operations,
               queue[s] \in {"placed", "advance", "dlq"}
        PROVE  SlotOK(x)'
    <2>1. s # t
      BY <1>6 DEF Put, Free
    <2>2. CASE x = t
      BY <1>6, <2>1, <2>2, SlotPut DEF Go, TypeOK
    <2>3. CASE x = s
      BY <1>6, <2>1, <2>3 DEF Put, Go, TypeOK, SlotOK
    <2>4. CASE x # s /\ x # t
      BY <1>0, <1>6, <2>4, SlotFrame DEF Put, Go, TypeOK
    <2> QED BY <2>2, <2>3, <2>4
  <1>7. ASSUME NEW s \in Slot, Park(s) \/ RetryOrDlq(s) \/ ReplayDlq(s) PROVE SlotOK(x)'
    <2>1. queue[s] \in {"placed", "advance", "dlq"} /\ operations' = operations /\ Go(s, "ack")
      BY <1>7 DEF Park, RetryOrDlq, ReplayDlq, Republish, At, dbVars
    <2>2. \E t \in Slot, q \in Queue \ {"placed"} : \E mail : Put(t, q, mail)
      BY <1>7 DEF Park, RetryOrDlq, ReplayDlq, Republish, Queue
    <2> QED BY <1>6, <2>1, <2>2
  <1>8. ASSUME NEW s \in Slot,
               ParkFails(s) \/ ReplayFails(s) \/
               Read(s) \/ Dedup(s) \/ Reply(s) \/ GiveUp(s) \/ RetryFails(s)
               \/ Send(s) \/ AttemptFails(s)
        PROVE  SlotOK(x)'
    <2>1. queue' = queue /\ env' = env /\ operations' = operations
      BY <1>8
      DEF ParkFails, ReplayFails, Read, Dedup, Reply, GiveUp, RetryFails, Send, AttemptFails,
          HandlerOnly, dbVars, msgVars
    <2>2. CASE x # s
      BY <1>0, <1>8, <2>1, <2>2, SlotFrame
      DEF ParkFails, ReplayFails,
          Read, Dedup, Reply, GiveUp, RetryFails, Send, AttemptFails, Go, TypeOK
    <2>3. CASE x = s /\ (ParkFails(s) \/ ReplayFails(s))
      BY <1>0, <2>1, <2>3 DEF ParkFails, ReplayFails, At, Go, TypeOK, SlotOK
    <2>4. CASE x = s /\ Read(s)
      <3>1. queue[s] = "advance" /\ env[s].from \in {"none"} \cup Active
        BY <2>4 DEF Read, At, TypeOK, Envelope
      <3>2. orders[env[s].order] # "none"
        BY <2>4, <3>1 DEF TypeOK, Envelope, State
      <3>3. \/ Go(s, "fault") \/ Go(s, "retry") \/ Go(s, "ack")
            \/ (Go(s, "dedup") \/ Go(s, "cancel")) /\ env[s].from = orders[env[s].order]
        BY <2>4 DEF Read
      <3>4. \/ pc'[s] \in {"fault", "retry", "ack"}
            \/ pc'[s] \in {"dedup", "cancel"} /\ env[s].from = orders[env[s].order]
        BY <3>3 DEF Go, TypeOK
      <3> QED BY <2>1, <2>4, <3>1, <3>2, <3>4 DEF SlotOK
    <2>5. CASE x = s /\ Dedup(s)
      BY <1>0, <2>1, <2>5 DEF Dedup, At, Go, TypeOK, SlotOK
    <2>6. CASE x = s /\ (Send(s) \/ AttemptFails(s))
      BY <1>0, <2>1, <2>6 DEF Send, AttemptFails, At, Go, TypeOK, SlotOK
    <2>7. CASE x = s /\ (Reply(s) \/ GiveUp(s))
      BY <1>0, <2>1, <2>7, CallsIsActive DEF Reply, GiveUp, At, Go, TypeOK, SlotOK
    <2>8. CASE x = s /\ RetryFails(s)
      BY <1>0, <2>1, <2>8 DEF RetryFails, At, Go, TypeOK, SlotOK
    <2> QED BY <1>8, <2>2, <2>3, <2>4, <2>5, <2>6, <2>7, <2>8
  <1>9. ASSUME NEW s \in Slot, Commit(s) \/ Cancel(s) \/ FailOrder(s) PROVE SlotOK(x)'
    <2>1. queue' = queue /\ env' = env /\ operations \subseteq operations'
      BY <1>9 DEF Commit, Cancel, FailOrder, Transact, Move, dbVars, msgVars
    <2>2. CASE x # s
      BY <1>0, <1>9, <2>1, <2>2, SlotFrame DEF Commit, Cancel, FailOrder, Transact, Go, TypeOK
    <2>3. CASE x = s /\ Commit(s)
      <3>1. queue[s] = "advance" /\ env[s].from \in Active
        BY <1>0, <2>3 DEF Commit, At, SlotOK
      <3>2. \/ Go(s, "ack") \/ Go(s, "fault")
            \/ Go(s, "mark") /\ StepOp(s) \in operations'
        BY <2>3 DEF Commit, Transact, Move, StepOp
      <3>3. pc'[s] \in {"ack", "fault"} \/ (pc'[s] = "mark" /\ StepOp(s) \in operations')
        BY <3>2 DEF Go, TypeOK
      <3> QED BY <2>1, <2>3, <3>1, <3>3 DEF SlotOK, StepOp, Op
    <2>4. CASE x = s /\ (Cancel(s) \/ FailOrder(s))
      BY <1>0, <2>1, <2>4 DEF Cancel, FailOrder, At, Transact, Go, TypeOK, SlotOK
    <2> QED BY <1>9, <2>2, <2>3, <2>4
  <1>10. ASSUME NEW s \in Slot, MarkDone(s) \/ RetryTtl(s) \/ Reconnect(s) PROVE SlotOK(x)'
    <2>1. CASE x = s
      BY <1>0, <1>10, <2>1
      DEF MarkDone, RetryTtl, Reconnect, At, Go, TypeOK, SlotOK, msgVars
    <2>2. CASE x # s
      BY <1>0, <1>10, <2>2, SlotFrame
      DEF MarkDone, RetryTtl, Reconnect, Go, TypeOK, dbVars, msgVars
    <2> QED BY <2>1, <2>2
  <1>11. ASSUME NEW s \in Slot, FaultFails(s) PROVE SlotOK(x)'
    <2>1. CASE x = s
      BY <1>0, <1>11, <2>1 DEF FaultFails, Go, TypeOK, SlotOK, msgVars
    <2>2. CASE x # s
      BY <1>0, <1>11, <2>2, SlotFrame DEF FaultFails, Go, TypeOK, dbVars, msgVars
    <2> QED BY <2>1, <2>2
  <1>12. ASSUME NEW o \in Order, NEW d \in Downstream, Serve(o, d) PROVE SlotOK(x)'
    BY <1>0, <1>12, SlotFrame DEF Serve, dbVars, msgVars
  <1>13. CASE Crash
    BY <1>13 DEF Crash, TypeOK, SlotOK, msgVars
  <1>14. CASE UNCHANGED vars
    BY <1>0, <1>14, SlotFrame DEF vars, dbVars, msgVars
  <1>15. ASSUME NEW d \in Downstream, ForceDown(d) \/ ForceUp(d) \/ FirstStart
         PROVE SlotOK(x)'
    BY <1>0, <1>15, SlotFrame DEF ForceDown, ForceUp, FirstStart, DeclareEventQueue, dbVars, msgVars
  <1> QED
    BY <1>1, <1>2, <1>3, <1>4, <1>5, <1>7, <1>8, <1>9, <1>10, <1>11, <1>12,
       <1>13, <1>14, <1>15
    DEF Next, OnPlaced, OnAdvance, Broker, Downstream

-----------------------------------------------------------------------------
(* Rows and claims stay behind the order's state                             *)

Seeds(o) ==
    /\ orders[o] = "absent"
    /\ orders' = [orders EXCEPT ![o] = "placed"]
    /\ outbox' = outbox \cup {RowOf(o, "placed")}
    /\ operations' = operations

\* What a step can do to the orders, the claims and the outbox.
LEMMA DbStep ==
    ASSUME TypeOK, HandlerOK, [Next]_vars
    PROVE  \/ UNCHANGED <<orders, operations>> /\ outbox' \subseteq outbox
           \/ \E o \in Order : Accept(o)
           \/ \E o \in Order : Seeds(o)
           \/ \E o \in Order, from \in Active, to \in State :
                  Move(o, from, to) /\ Rank[from] < Rank[to]
  <1> DEFINE Quiet == UNCHANGED <<orders, operations>> /\ outbox' \subseteq outbox
             Moves == \E o \in Order, from \in Active, to \in State :
                          Move(o, from, to) /\ Rank[from] < Rank[to]
             Seeding == \E o \in Order : Seeds(o)
  <1>1. ASSUME NEW r \in outbox, RelayPublish(r) PROVE Quiet
    BY <1>1 DEF RelayPublish, dbVars
  <1>2. ASSUME NEW svc, RelayCommit(svc) \/ RelayAbort(svc) PROVE Quiet
    BY <1>2 DEF RelayCommit, RelayAbort, dbVars
  <1>3. ASSUME NEW s \in Slot, Seed(s) \/ SeedFails(s) PROVE Quiet \/ Seeding
    <2>1. env[s].order \in Order
      BY <1>3 DEF Seed, SeedFails, At, TypeOK, Envelope
    <2> QED BY <1>3, <2>1 DEF Seed, SeedFails, SeedTx, Seeds
  <1>4. ASSUME NEW s \in Slot, Commit(s) \/ Cancel(s) \/ FailOrder(s) PROVE Quiet \/ Moves
    <2>1. env[s].order \in Order /\ env[s].from \in Active
      BY <1>4, CallsIsActive
      DEF Commit, Cancel, FailOrder, At, TypeOK, HandlerOK, SlotOK, Envelope
    <2>2. PICK to \in State, done \in Step :
              Transact(s, to, done) /\ Rank[env[s].from] < Rank[to]
      BY <1>4, <2>1, NextIsState, RankGrows DEF Commit, Cancel, FailOrder, State, Step
    <2>3. Move(env[s].order, env[s].from, to) \/ UNCHANGED <<dbVars, outbox>>
      BY <2>2 DEF Transact
    <2> QED BY <2>1, <2>2, <2>3 DEF dbVars
  <1>5. ASSUME NEW s \in Slot,
               ParkFails(s) \/ ReplayFails(s) \/
               Read(s) \/ Dedup(s) \/ Reply(s) \/ GiveUp(s) \/ RetryFails(s)
               \/ Send(s) \/ AttemptFails(s) \/ MarkDone(s)
        PROVE  Quiet
    BY <1>5
    DEF ParkFails, ReplayFails,
        Read, Dedup, Reply, GiveUp, RetryFails, Send, AttemptFails, MarkDone,
        HandlerOnly, dbVars, rowVars
  <1>6. ASSUME NEW s \in Slot,
               Park(s) \/ RetryOrDlq(s) \/ FaultFails(s) \/ Ack(s) \/ RetryTtl(s)
               \/ ReplayDlq(s) \/ Reconnect(s)
        PROVE  Quiet
    BY <1>6
    DEF Park, RetryOrDlq, FaultFails, Ack, RetryTtl, ReplayDlq, Reconnect, Republish,
        dbVars, rowVars
  <1>7. ASSUME NEW o \in Order, NEW d \in Downstream, Serve(o, d) PROVE Quiet
    BY <1>7 DEF Serve, dbVars, rowVars
  <1>8. ASSUME NEW d \in Downstream, ForceDown(d) \/ ForceUp(d) PROVE Quiet
    BY <1>8 DEF ForceDown, ForceUp, dbVars, rowVars
  <1>9. FirstStart \/ Crash \/ UNCHANGED vars => Quiet
    BY DEF FirstStart, DeclareEventQueue, Crash, vars, dbVars, rowVars
  <1> QED
    BY <1>1, <1>2, <1>3, <1>4, <1>5, <1>6, <1>7, <1>8, <1>9
    DEF Next, OnPlaced, OnAdvance, Broker

LEMMA BehindStep ==
    ASSUME TypeOK, HandlerOK, RowsBehind, ClaimsBehind, [Next]_vars
    PROVE  RowsBehind' /\ ClaimsBehind'
  <1>0. \A o \in Order : orders[o] \in State \cup {"absent"} /\ Rank[orders[o]] \in Nat
    BY RankGrows DEF TypeOK
  <1>1. \A f \in Active : Rank[f] \in Nat
    BY RankGrows DEF Active
  <1>6. \A r \in outbox : r.order \in Order /\ r.from \in {"none"} \cup Active
    BY DEF TypeOK, Row
  <1>2. CASE UNCHANGED <<orders, operations>> /\ outbox' \subseteq outbox
    BY <1>2 DEF RowsBehind, ClaimsBehind
  <1>3. ASSUME NEW o \in Order, Accept(o) PROVE RowsBehind' /\ ClaimsBehind'
    BY <1>3 DEF Accept, RowsBehind, ClaimsBehind, RowOf, dbVars
  <1>4. ASSUME NEW o \in Order, Seeds(o) PROVE RowsBehind' /\ ClaimsBehind'
    <2>1. Rank["absent"] < Rank["placed"] /\ Rank["placed"] \in Nat /\ Rank["absent"] \in Nat
      BY RankGrows DEF State
    <2>2. \A x \in Order : Rank[orders[x]] <= Rank[orders'[x]] /\ Rank[orders'[x]] \in Nat
      BY <1>0, <1>4, <2>1 DEF Seeds, TypeOK
    <2>3. \A r \in outbox' : r \in outbox \/ (r.order = o /\ r.from = "placed")
      BY <1>4 DEF Seeds, RowOf
    <2>4. orders'[o] = "placed"
      BY <1>4 DEF Seeds, TypeOK
    <2>5. RowsBehind'
      <3> SUFFICES ASSUME NEW r \in outbox', r.from # "none"
                   PROVE  Rank[r.from] <= Rank[orders'[r.order]]
        BY DEF RowsBehind
      <3>1. CASE r \in outbox
        BY <1>0, <1>1, <1>6, <3>1, <2>1, <2>2, <2>3, <2>4 DEF RowsBehind
      <3>2. CASE r \notin outbox
        BY <1>0, <1>1, <3>2, <2>1, <2>2, <2>3, <2>4
      <3> QED BY <3>1, <3>2
    <2>6. ClaimsBehind'
      BY <1>0, <1>1, <1>4, <2>2 DEF Seeds, ClaimsBehind
    <2> QED BY <2>5, <2>6
  <1>5. ASSUME NEW o \in Order, NEW from \in Active, NEW to \in State,
               Move(o, from, to), Rank[from] < Rank[to]
        PROVE  RowsBehind' /\ ClaimsBehind'
    <2>1. orders[o] = from /\ orders'[o] = to /\ Rank[to] \in Nat /\ Rank[from] \in Nat
      BY <1>1, <1>5, RankGrows DEF Move, TypeOK
    <2>2. \A x \in Order : Rank[orders[x]] <= Rank[orders'[x]] /\ Rank[orders'[x]] \in Nat
      BY <1>0, <1>5, <2>1 DEF Move, TypeOK
    <2>3. \A r \in outbox' : r \in outbox \/ (r.order = o /\ r.from = to)
      BY <1>5 DEF Move, RowOf
    <2>4. RowsBehind'
      <3> SUFFICES ASSUME NEW r \in outbox', r.from # "none"
                   PROVE  Rank[r.from] <= Rank[orders'[r.order]]
        BY DEF RowsBehind
      <3>1. CASE r \in outbox
        BY <1>0, <1>1, <1>6, <3>1, <2>1, <2>2, <2>3 DEF RowsBehind
      <3>2. CASE r \notin outbox
        BY <1>0, <1>1, <3>2, <2>1, <2>2, <2>3
      <3> QED BY <3>1, <3>2
    <2>5. ASSUME NEW x \in Order, NEW f \in Active, NEW t \in State, Op(x, f, t) \in operations'
          PROVE  Rank[f] < Rank[orders'[x]]
      <3>1. CASE Op(x, f, t) \in operations
        BY <1>0, <1>1, <2>2, <3>1 DEF ClaimsBehind
      <3>2. CASE Op(x, f, t) = Op(o, from, to)
        BY <1>5, <2>1, <3>2 DEF Op
      <3> QED BY <1>5, <2>5, <3>1, <3>2 DEF Move
    <2> QED BY <2>4, <2>5 DEF ClaimsBehind
  <1> QED BY <1>2, <1>3, <1>4, <1>5, DbStep

-----------------------------------------------------------------------------
(* Everything known stems from an accepted order                             *)

LEMMA KnownStep ==
    ASSUME TypeOK, HandlerOK, KnownWasAccepted, [Next]_vars
    PROVE  KnownWasAccepted'
  <1> DEFINE Rows     == \A r \in outbox' : r \in outbox \/ r.order \in accepted
             Slots    == \A x \in Slot : \/ queue'[x] = "free"
                                         \/ queue[x] # "free" /\ env'[x] = env[x]
                                         \/ env'[x].order \in accepted
             Orders   == \A o \in Order : orders'[o] # "absent" =>
                                              orders[o] # "absent" \/ o \in accepted
             Follows  == Rows /\ Slots /\ Orders /\ accepted \subseteq accepted'
  <1>0. Follows => KnownWasAccepted'
    BY DEF KnownWasAccepted
  <1>1. ASSUME NEW o \in Order, Accept(o) PROVE KnownWasAccepted'
    BY <1>1 DEF Accept, KnownWasAccepted, RowOf, dbVars, msgVars
  <1>2. ASSUME NEW r \in outbox, RelayPublish(r) PROVE Follows
    <2>1. r.order \in accepted
      BY DEF KnownWasAccepted
    <2>2. UNCHANGED msgVars \/ \E t \in Slot, q \in Queue : Put(t, q, Mail(r.order, r.from, 1))
      BY <1>2 DEF RelayPublish, Queue
    <2>3. Slots
      BY <2>1, <2>2 DEF Put, Mail, msgVars, TypeOK
    <2> QED BY <1>2, <2>3 DEF RelayPublish, dbVars
  <1>3. ASSUME NEW svc, RelayCommit(svc) \/ RelayAbort(svc) PROVE Follows
    BY <1>3 DEF RelayCommit, RelayAbort, dbVars, msgVars, restVars
  <1>4. ASSUME NEW s \in Slot, Seed(s) \/ SeedFails(s) PROVE Follows
    <2>1. env[s].order \in accepted
      BY <1>4 DEF Seed, SeedFails, At, KnownWasAccepted
    <2>2. SeedTx(env[s].order) \/ UNCHANGED <<orders, outbox>>
      BY <1>4 DEF Seed, SeedFails
    <2>3. Rows /\ Orders
      BY <2>1, <2>2 DEF SeedTx, RowOf, TypeOK
    <2> QED BY <1>4, <2>3 DEF Seed, SeedFails, msgVars, restVars
  <1>5. ASSUME NEW s \in Slot, Commit(s) \/ Cancel(s) \/ FailOrder(s) PROVE Follows
    <2>1. env[s].order \in accepted
      BY <1>5 DEF Commit, Cancel, FailOrder, At, KnownWasAccepted
    <2>2. \/ UNCHANGED <<dbVars, outbox>>
          \/ \E to : Move(env[s].order, env[s].from, to)
      BY <1>5 DEF Commit, Cancel, FailOrder, Transact
    <2>3. Rows /\ Orders
      <3>1. CASE UNCHANGED <<dbVars, outbox>>
        BY <3>1 DEF dbVars
      <3>2. ASSUME NEW to, Move(env[s].order, env[s].from, to) PROVE Rows /\ Orders
        <4>1. Rows
          BY <2>1, <3>2 DEF Move, RowOf
        <4>2. Orders
          BY <2>1, <3>2 DEF Move, TypeOK
        <4> QED BY <4>1, <4>2
      <3> QED BY <2>2, <3>1, <3>2
    <2>4. UNCHANGED msgVars /\ accepted' = accepted
      BY <1>5 DEF Commit, Cancel, FailOrder, Transact, restVars
    <2> QED BY <2>3, <2>4 DEF msgVars
  <1>6. ASSUME NEW s \in Slot,
               ParkFails(s) \/ ReplayFails(s) \/
               Read(s) \/ Dedup(s) \/ Reply(s) \/ GiveUp(s) \/ RetryFails(s)
               \/ Send(s) \/ AttemptFails(s) \/ MarkDone(s) \/ Reconnect(s)
        PROVE  Follows
    BY <1>6
    DEF ParkFails, ReplayFails,
        Read, Dedup, Reply, GiveUp, RetryFails, Send, AttemptFails, MarkDone,
        Reconnect, HandlerOnly, dbVars, rowVars, msgVars, restVars
  <1>7. ASSUME NEW s \in Slot, Ack(s) \/ FaultFails(s) \/ RetryTtl(s) PROVE Follows
    <2>1. Slots
      BY <1>7 DEF Ack, FaultFails, RetryTtl, TypeOK, msgVars
    <2> QED BY <1>7, <2>1 DEF Ack, FaultFails, RetryTtl, dbVars, rowVars, restVars
  <1>8. ASSUME NEW s \in Slot, Park(s) \/ RetryOrDlq(s) \/ ReplayDlq(s) PROVE Follows
    <2>1. env[s].order \in accepted
      BY <1>8 DEF Park, RetryOrDlq, ReplayDlq, At, KnownWasAccepted
    <2>2. \E t \in Slot, q \in Queue : \E mail :
              mail.order = env[s].order /\ Put(t, q, mail)
      BY <1>8 DEF Park, RetryOrDlq, ReplayDlq, Republish, Mail, Queue
    <2>3. Slots
      BY <2>1, <2>2 DEF Put, TypeOK
    <2> QED
      BY <1>8, <2>3 DEF Park, RetryOrDlq, ReplayDlq, Republish, dbVars, rowVars, restVars
  <1>9. ASSUME NEW o \in Order, NEW d \in Downstream, Serve(o, d) PROVE Follows
    BY <1>9 DEF Serve, dbVars, rowVars, msgVars, restVars
  <1>10. ASSUME NEW d \in Downstream, ForceDown(d) \/ ForceUp(d) PROVE Follows
    BY <1>10 DEF ForceDown, ForceUp, dbVars, rowVars, msgVars, restVars
  <1>11. FirstStart \/ Crash \/ UNCHANGED vars => Follows
    BY DEF FirstStart, DeclareEventQueue, Crash, vars, dbVars, rowVars, msgVars, restVars
  <1> QED
    BY <1>0, <1>1, <1>2, <1>3, <1>4, <1>5, <1>6, <1>7, <1>8, <1>9, <1>10, <1>11
    DEF Next, OnPlaced, OnAdvance, Broker

-----------------------------------------------------------------------------
(* An order that is not finished keeps its row or its message                *)

\* The steps that leave an order's state alone keep its work, if its row stays
\* pending and the message that serves it hands over to one that does.
LEMMA WorkFrame ==
    ASSUME NEW x \in Order, CanFinish(x), accepted' = accepted, mislaid \subseteq mislaid',
           orders'[x] = orders[x],
           PendingRow(x) => HasWork(x)',
           \A y \in Slot : Serves(y, x) => HasWork(x)'
    PROVE  CanFinish(x)'
  BY DEF CanFinish, Unfinished, HasWork

\* A handler moves on without touching anything else an order lives by: it may
\* do so unless it drops the message while the message still serves.
LEMMA GoKeepsWork ==
    ASSUME TypeOK, NEW s \in Slot, NEW step \in Step, Go(s, step),
           UNCHANGED <<accepted, mislaid, orders, rowVars, msgVars>>,
           NEW x \in Order, CanFinish(x),
           step \in {"ack", "mark"} => ~ Serves(s, x)
    PROVE  CanFinish(x)'
  <1>1. PendingRow(x) => HasWork(x)'
    BY DEF PendingRow, HasWork, rowVars
  <1>2. ASSUME NEW y \in Slot, Serves(y, x) PROVE Serves(y, x)'
    <2>1. CASE y = s
      BY <1>2, <2>1 DEF Serves, Go, TypeOK, msgVars
    <2>2. CASE y # s
      BY <1>2, <2>2 DEF Serves, Go, TypeOK, msgVars
    <2> QED BY <2>1, <2>2
  <1> QED BY <1>1, <1>2, WorkFrame DEF HasWork

\* A publish leaves the work of every order in place ...
LEMMA PutKeepsServers ==
    ASSUME TypeOK, NEW t \in Slot, NEW q \in Queue, NEW mail, Put(t, q, mail),
           NEW x \in Order, orders' = orders, NEW y \in Slot, Serves(y, x), pc'[y] = pc[y]
    PROVE  Serves(y, x)'
  BY DEF Put, Free, Serves, TypeOK, Queue

\* ... and a republished command serves in the place of the one acknowledged.
LEMMA RepublishKeepsWork ==
    ASSUME TypeOK, HandlerOK, NEW s \in Slot, queue[s] \in {"advance", "dlq"},
           NEW q \in {"advance", "retry", "dlq"}, NEW attempt, Republish(s, q, attempt),
           NEW x \in Order, CanFinish(x)
    PROVE  CanFinish(x)'
  <1>1. PICK t \in Slot : Put(t, q, Mail(env[s].order, env[s].from, attempt))
    BY DEF Republish
  <1>2. orders' = orders /\ accepted' = accepted /\ mislaid' = mislaid /\ UNCHANGED rowVars
    BY DEF Republish, dbVars, restVars
  <1>3. PendingRow(x) => HasWork(x)'
    BY <1>2 DEF PendingRow, HasWork, rowVars
  <1>4. s # t /\ pc'[t] = "ready"
    BY <1>1 DEF Put, Free, Republish, Go, TypeOK, HandlerOK, SlotOK
  <1>5. ASSUME Serves(s, x) PROVE Serves(t, x)'
    <2>1. orders[x] # "absent" /\ env[s].order = x /\ env[s].from = orders[x]
      BY <1>5 DEF Serves
    <2>2. queue'[t] = q /\ env'[t].order = x /\ env'[t].from = orders[x]
      BY <1>1, <2>1 DEF Put, Mail, TypeOK
    <2> QED BY <1>2, <1>4, <2>1, <2>2 DEF Serves
  <1>6. ASSUME NEW y \in Slot, y # s, Serves(y, x) PROVE Serves(y, x)'
    <2>1. pc'[y] = pc[y]
      BY <1>6 DEF Republish, Go, TypeOK
    <2> QED BY <1>1, <1>2, <1>6, <2>1, PutKeepsServers DEF Queue
  <1> QED BY <1>2, <1>3, <1>5, <1>6, WorkFrame DEF HasWork

\* A state ahead of the order's has no row yet, so the one a transaction
\* enqueues is pending.
LEMMA RowAheadIsNew ==
    ASSUME TypeOK, RowsBehind, NEW x \in Order, NEW f \in Active, Rank[orders[x]] < Rank[f]
    PROVE  RowOf(x, f) \notin sent
  <1>1. Rank[orders[x]] \in Nat /\ Rank[f] \in Nat
    BY RankGrows DEF TypeOK, Active
  <1>2. f # "none" /\ RowOf(x, f).from = f /\ RowOf(x, f).order = x
    BY DEF RowOf, Active, State
  <1> QED BY <1>1, <1>2 DEF TypeOK, RowsBehind

\* The transactions that move an order on.
LEMMA TransactKeepsWork ==
    ASSUME TypeOK, RowsBehind, ClaimsBehind,
           NEW s \in Slot, queue[s] = "advance", env[s].order \in Order,
           env[s].from \in Active, pc[s] \notin {"ack", "mark"},
           NEW to \in State, NEW done \in {"ack", "mark"}, Rank[env[s].from] < Rank[to],
           Transact(s, to, done), NEW x \in Order, CanFinish(x)
    PROVE  CanFinish(x)'
  <1> DEFINE o == env[s].order
             from == env[s].from
  <1>1. accepted' = accepted /\ mislaid' = mislaid /\ sent' = sent /\ UNCHANGED msgVars
    BY DEF Transact, restVars
  <1>2. PICK step \in Step : Go(s, step)
    BY DEF Transact, Step
  <1>3. CASE Move(o, from, to)
    <2>1. CASE x = o
      <3>1. orders'[x] = to
        BY <1>3, <2>1 DEF Move, TypeOK
      <3>2. CASE to \in Terminal
        BY <3>1, <3>2 DEF CanFinish, Unfinished
      <3>3. CASE to \notin Terminal
        <4>1. to \in Active /\ to # "absent"
          BY <3>3 DEF Active, State
        <4>2. RowOf(x, to) \notin sent
          BY <1>3, <2>1, <4>1, RowAheadIsNew DEF Move
        <4>3. RowOf(x, to) \in outbox'
          BY <1>3, <2>1, <3>3 DEF Move
        <4> QED BY <1>1, <3>1, <4>1, <4>2, <4>3 DEF CanFinish, HasWork, PendingRow
      <3> QED BY <3>2, <3>3
    <2>2. CASE x # o
      <3>1. orders'[x] = orders[x] /\ outbox \subseteq outbox'
        BY <1>3, <2>2 DEF Move, TypeOK
      <3>2. PendingRow(x) => HasWork(x)'
        BY <1>1, <3>1 DEF PendingRow, HasWork
      <3>3. ASSUME NEW y \in Slot, Serves(y, x) PROVE Serves(y, x)'
        <4>1. y # s
          BY <2>2, <3>3 DEF Serves
        <4>2. pc'[y] = pc[y]
          BY <1>2, <4>1 DEF Go, TypeOK
        <4> QED BY <1>1, <3>1, <3>3, <4>2 DEF Serves, msgVars
      <3> QED BY <1>1, <3>1, <3>2, <3>3, WorkFrame DEF HasWork
    <2> QED BY <2>1, <2>2
  <1>4. CASE ~ Move(o, from, to)
    <2>1. UNCHANGED <<dbVars, outbox>>
      BY <1>4 DEF Transact
    <2>2. \/ Go(s, "fault")
          \/ Go(s, "ack") /\ Op(o, from, to) \in operations
      BY <1>4 DEF Transact
    <2>3. Op(o, from, to) \in operations => ~ Serves(s, x)
      <3>1. SUFFICES ASSUME Op(o, from, to) \in operations, o = x PROVE orders[x] # from
        BY DEF Serves
      <3>2. Rank[from] < Rank[orders[x]] /\ Rank[from] \in Nat
        BY <3>1, RankGrows DEF ClaimsBehind, Active
      <3> QED BY <3>2
    <2> QED
      BY <1>1, <2>1, <2>2, <2>3, GoKeepsWork DEF dbVars, rowVars, Step
  <1> QED BY <1>3, <1>4

LEMMA WorkStep ==
    ASSUME TypeOK, HandlerOK, KnownWasAccepted, RowsBehind, ClaimsBehind, [Next]_vars,
           NEW x \in Order, CanFinish(x)
    PROVE  CanFinish(x)'
  <1>1. ASSUME NEW o \in Order, Accept(o) PROVE CanFinish(x)'
    <2>1. CASE x = o
      <3>1. orders[x] = "absent" /\ RowOf(x, "none") \notin sent
        BY <1>1, <2>1 DEF Accept, KnownWasAccepted, RowOf, TypeOK
      <3> QED BY <1>1, <2>1, <3>1 DEF Accept, CanFinish, HasWork, PendingRow, dbVars
    <2>2. CASE x # o
      BY <1>1, <2>2
      DEF Accept, CanFinish, Unfinished, HasWork, PendingRow, Serves, dbVars, msgVars
    <2> QED BY <2>1, <2>2
  <1>2. ASSUME NEW r \in outbox, RelayPublish(r) PROVE CanFinish(x)'
    <2>1. UNCHANGED <<accepted, dbVars, outbox, pc>> /\ sent' = sent \cup {r}
          /\ mislaid \subseteq mislaid'
      BY <1>2 DEF RelayPublish
    <2>2. CASE r.from = "none" /\ ~bound
      <3>1. mislaid' = mislaid \cup {r.order} /\ UNCHANGED msgVars
        BY <1>2, <2>2 DEF RelayPublish
      <3>2. r # RowOf(x, IF orders[x] = "absent" THEN "none" ELSE orders[x]) \/ x = r.order
        BY DEF RowOf
      <3> QED
        BY <2>1, <3>1, <3>2
        DEF CanFinish, Unfinished, HasWork, PendingRow, Serves, dbVars, msgVars
    <2>3. CASE ~ (r.from = "none" /\ ~bound)
      <3>1. PICK t \in Slot : Put(t, IF r.from = "none" THEN "placed" ELSE "advance",
                                  Mail(r.order, r.from, 1))
        BY <1>2, <2>3 DEF RelayPublish
      <3>2. pc'[t] = "ready"
        BY <2>1, <3>1 DEF Put, Free, HandlerOK, SlotOK
      <3>3. queue'[t] = (IF r.from = "none" THEN "placed" ELSE "advance")
            /\ env'[t].order = r.order /\ env'[t].from = r.from
        BY <3>1 DEF Put, Mail, TypeOK
      <3>4. PendingRow(x) => HasWork(x)'
        <4>1. CASE r = RowOf(x, IF orders[x] = "absent" THEN "none" ELSE orders[x])
          <5>1. r.order = x /\ r.from = (IF orders[x] = "absent" THEN "none" ELSE orders[x])
            BY <4>1 DEF RowOf
          <5>2. orders[x] # "none"
            BY DEF TypeOK, State
          <5>3. Serves(t, x)'
            BY <2>1, <3>2, <3>3, <5>1, <5>2 DEF Serves, dbVars
          <5> QED BY <5>3 DEF HasWork
        <4>2. CASE r # RowOf(x, IF orders[x] = "absent" THEN "none" ELSE orders[x])
          BY <2>1, <4>2 DEF PendingRow, HasWork, dbVars
        <4> QED BY <4>1, <4>2
      <3>5. (IF r.from = "none" THEN "placed" ELSE "advance") \in Queue
        BY DEF Queue
      <3>6. \A y \in Slot : Serves(y, x) => Serves(y, x)'
        BY <2>1, <3>1, <3>5, PutKeepsServers DEF dbVars
      <3> QED BY <2>1, <3>4, <3>6, WorkFrame DEF HasWork, dbVars
    <2> QED BY <2>2, <2>3
  <1>3. ASSUME NEW svc, RelayCommit(svc) \/ RelayAbort(svc) PROVE CanFinish(x)'
    <2>1. (outbox \ sent) \subseteq (outbox' \ sent') /\ UNCHANGED <<dbVars, msgVars, pc>>
          /\ accepted' = accepted /\ mislaid' = mislaid
      BY <1>3 DEF RelayCommit, RelayAbort, RowsOf, restVars
    <2> QED
      BY <2>1 DEF CanFinish, Unfinished, HasWork, PendingRow, Serves, dbVars, msgVars
  <1>4. ASSUME NEW s \in Slot, Ack(s) PROVE CanFinish(x)'
    <2>1. UNCHANGED <<dbVars, rowVars, accepted, mislaid>>
      BY <1>4 DEF Ack, restVars
    <2>2. PendingRow(x) => HasWork(x)'
      BY <2>1 DEF PendingRow, HasWork, dbVars, rowVars
    <2>3. ASSUME NEW y \in Slot, Serves(y, x) PROVE Serves(y, x)'
      <3>1. y # s
        BY <1>4, <2>3 DEF Ack, Serves
      <3> QED BY <1>4, <2>1, <2>3, <3>1 DEF Ack, Go, Serves, TypeOK, dbVars
    <2> QED BY <2>1, <2>2, <2>3, WorkFrame DEF HasWork, dbVars
  <1>5. ASSUME NEW s \in Slot, Seed(s) \/ SeedFails(s) PROVE CanFinish(x)'
    <2>1. env[s].order \in Order /\ queue[s] = "placed"
      BY <1>5 DEF Seed, SeedFails, At, TypeOK, Envelope
    <2>2. UNCHANGED <<sent, msgVars, accepted, mislaid>>
      BY <1>5 DEF Seed, SeedFails, restVars
    <2>3. CASE orders[env[s].order] = "absent" /\ SeedTx(env[s].order)
      <3>1. orders' = [orders EXCEPT ![env[s].order] = "placed"]
            /\ outbox' = outbox \cup {RowOf(env[s].order, "placed")}
        BY <2>3 DEF SeedTx
      <3>2. CASE x = env[s].order
        <4>1. "placed" \in Active /\ orders'[x] = "placed"
          BY <3>1, <3>2 DEF TypeOK, Active, State, Terminal
        <4>2. RowOf(x, "placed") \notin sent
          BY <2>3, <3>2, <4>1, RowAheadIsNew, RankGrows DEF Active
        <4> QED BY <2>2, <3>1, <3>2, <4>1, <4>2 DEF CanFinish, HasWork, PendingRow
      <3>3. CASE x # env[s].order
        <4>1. orders'[x] = orders[x] /\ outbox \subseteq outbox'
          BY <3>1, <3>3 DEF TypeOK
        <4>2. PendingRow(x) => HasWork(x)'
          BY <2>2, <4>1 DEF PendingRow, HasWork
        <4>3. ASSUME NEW y \in Slot, Serves(y, x) PROVE Serves(y, x)'
          <5>1. y # s
            BY <3>3, <4>3 DEF Serves
          <5>2. pc'[y] = pc[y]
            BY <1>5, <5>1 DEF Seed, SeedFails, Go, TypeOK
          <5> QED BY <2>2, <4>1, <4>3, <5>2 DEF Serves, msgVars
        <4> QED BY <2>2, <4>1, <4>2, <4>3, WorkFrame DEF HasWork
      <3> QED BY <3>2, <3>3
    <2>4. CASE ~ (orders[env[s].order] = "absent" /\ SeedTx(env[s].order))
      <3>1. UNCHANGED <<orders, outbox>>
        BY <1>5, <2>4 DEF Seed, SeedFails, SeedTx
      <3>2. \/ pc' = pc \/ Go(s, "park")
            \/ Go(s, "ack") /\ orders[env[s].order] # "absent"
        BY <1>5, <2>4 DEF Seed, SeedFails
      <3>3. orders[env[s].order] # "absent" => ~ Serves(s, x)
        BY <2>1 DEF Serves
      <3>4. CASE pc' = pc
        BY <2>2, <3>1, <3>4
        DEF CanFinish, Unfinished, HasWork, PendingRow, Serves, msgVars
      <3> QED BY <2>2, <3>1, <3>2, <3>3, <3>4, GoKeepsWork DEF rowVars, Step
    <2> QED BY <2>3, <2>4
  <1>6. ASSUME NEW s \in Slot, Park(s) PROVE CanFinish(x)'
    <2>1. PICK t \in Slot : Put(t, "dlq", env[s])
      BY <1>6 DEF Park
    <2>2. UNCHANGED <<dbVars, rowVars, accepted>> /\ mislaid' = mislaid \cup {env[s].order}
          /\ Go(s, "ack")
      BY <1>6 DEF Park
    <2>3. CASE x = env[s].order
      BY <2>2, <2>3 DEF CanFinish
    <2>4. CASE x # env[s].order
      <3>1. PendingRow(x) => HasWork(x)'
        BY <2>2 DEF PendingRow, HasWork, dbVars, rowVars
      <3>2. ASSUME NEW y \in Slot, Serves(y, x) PROVE Serves(y, x)'
        <4>1. pc'[y] = pc[y]
          BY <2>2, <2>4, <3>2 DEF Serves, Go, TypeOK
        <4> QED BY <2>1, <2>2, <3>2, <4>1, PutKeepsServers DEF Queue, dbVars
      <3> QED BY <2>2, <3>1, <3>2, WorkFrame DEF HasWork, dbVars
    <2> QED BY <2>3, <2>4
  <1>7. ASSUME NEW s \in Slot, ParkFails(s) \/ ReplayFails(s) \/
                               RetryFails(s) \/ GiveUp(s) \/ Reply(s)
        PROVE  CanFinish(x)'
    <2>1. PICK step \in Step \ {"ack", "mark"} : Go(s, step)
      BY <1>7 DEF ParkFails, ReplayFails, RetryFails, GiveUp, Reply, Step
    <2>2. HandlerOnly
      BY <1>7 DEF ParkFails, ReplayFails, RetryFails, GiveUp, Reply
    <2> QED BY <2>1, <2>2, GoKeepsWork DEF HandlerOnly, dbVars, restVars
  <1>8. ASSUME NEW s \in Slot, Read(s) PROVE CanFinish(x)'
    <2>1. PICK step \in Step : /\ Go(s, step) /\ step # "mark"
                               /\ step = "ack" => orders[env[s].order] # env[s].from
      BY <1>8 DEF Read, Step
    <2>2. HandlerOnly /\ queue[s] = "advance"
      BY <1>8 DEF Read, At
    <2>3. step \in {"ack", "mark"} => ~ Serves(s, x)
      BY <2>1, <2>2 DEF Serves
    <2> QED BY <2>1, <2>2, <2>3, GoKeepsWork DEF HandlerOnly, dbVars, restVars
  <1>9. ASSUME NEW s \in Slot, Dedup(s) PROVE CanFinish(x)'
    <2>1. PICK step \in Step : /\ Go(s, step) /\ step # "mark"
                               /\ step = "ack" => StepOp(s) \in operations
      BY <1>9 DEF Dedup, Step
    <2>2. HandlerOnly /\ queue[s] = "advance" /\ env[s].from \in Active
      BY <1>9 DEF Dedup, At, HandlerOK, SlotOK
    <2>3. ASSUME StepOp(s) \in operations PROVE ~ Serves(s, x)
      <3>1. SUFFICES ASSUME env[s].order = x PROVE orders[x] # env[s].from
        BY <2>2 DEF Serves
      <3>2. Rank[env[s].from] < Rank[orders[x]] /\ Rank[env[s].from] \in Nat
        BY <2>2, <2>3, <3>1, NextIsState, RankGrows DEF ClaimsBehind, StepOp, Active
      <3> QED BY <3>2
    <2> QED BY <2>1, <2>2, <2>3, GoKeepsWork DEF HandlerOnly, dbVars, restVars
  <1>10. ASSUME NEW s \in Slot, Send(s) \/ AttemptFails(s) \/ MarkDone(s) \/ Reconnect(s)
         PROVE  CanFinish(x)'
    <2>1. PICK step \in Step \ {"mark"} : Go(s, step) /\ (step = "ack" => At(s, "advance", "mark"))
      BY <1>10 DEF Send, AttemptFails, MarkDone, Reconnect, Step
    <2>2. step = "ack" => ~ Serves(s, x)
      BY <2>1 DEF At, Serves
    <2>3. UNCHANGED <<accepted, mislaid, orders, rowVars, msgVars>>
      BY <1>10 DEF Send, AttemptFails, MarkDone, Reconnect, dbVars, restVars
    <2> QED BY <2>1, <2>2, <2>3, GoKeepsWork
  <1>11. ASSUME NEW s \in Slot, Commit(s) \/ Cancel(s) \/ FailOrder(s) PROVE CanFinish(x)'
    <2>1. /\ queue[s] = "advance" /\ pc[s] \notin {"ack", "mark"}
          /\ env[s].order \in Order /\ env[s].from \in Active
      BY <1>11, CallsIsActive
      DEF Commit, Cancel, FailOrder, At, TypeOK, HandlerOK, SlotOK, Envelope
    <2>2. PICK to \in State, done \in {"ack", "mark"} :
              Transact(s, to, done) /\ Rank[env[s].from] < Rank[to]
      BY <1>11, <2>1, NextIsState, RankGrows DEF Commit, Cancel, FailOrder, State
    <2> QED BY <2>1, <2>2, TransactKeepsWork
  <1>12. ASSUME NEW s \in Slot, RetryOrDlq(s) \/ ReplayDlq(s) PROVE CanFinish(x)'
    <2>1. queue[s] \in {"advance", "dlq"}
      BY <1>12 DEF RetryOrDlq, ReplayDlq, At
    <2>2. \E q \in {"advance", "retry", "dlq"} : \E attempt : Republish(s, q, attempt)
      BY <1>12 DEF RetryOrDlq, ReplayDlq
    <2> QED BY <2>1, <2>2, RepublishKeepsWork
  <1>13. ASSUME NEW s \in Slot, FaultFails(s) PROVE CanFinish(x)'
    <2>1. UNCHANGED <<dbVars, rowVars, accepted>> /\ mislaid \subseteq mislaid'
      BY <1>13 DEF FaultFails
    <2>2. CASE mislaid' = mislaid \cup {env[s].order} /\ x = env[s].order
      BY <2>2 DEF CanFinish
    <2>3. CASE Go(s, "abandoned") /\ UNCHANGED <<msgVars, mislaid>>
      BY <2>1, <2>3, GoKeepsWork DEF dbVars, Step
    <2>4. CASE /\ queue' = [queue EXCEPT ![s] = "free"]
               /\ env' = [env EXCEPT ![s] = NoEnvelope]
               /\ Go(s, "ready") /\ x # env[s].order
      <3>1. PendingRow(x) => HasWork(x)'
        BY <2>1 DEF PendingRow, HasWork, dbVars, rowVars
      <3>2. ASSUME NEW y \in Slot, Serves(y, x) PROVE Serves(y, x)'
        <4>1. y # s
          BY <2>4, <3>2 DEF Serves
        <4> QED BY <2>1, <2>4, <3>2, <4>1 DEF Serves, Go, TypeOK, dbVars
      <3> QED BY <2>1, <3>1, <3>2, WorkFrame DEF HasWork, dbVars
    <2> QED BY <1>13, <2>2, <2>3, <2>4 DEF FaultFails
  <1>14. ASSUME NEW s \in Slot, RetryTtl(s) PROVE CanFinish(x)'
    <2>1. UNCHANGED <<dbVars, rowVars, env, pc, accepted, mislaid>>
      BY <1>14 DEF RetryTtl, restVars
    <2>2. PendingRow(x) => HasWork(x)'
      BY <2>1 DEF PendingRow, HasWork, dbVars, rowVars
    <2>3. \A y \in Slot : Serves(y, x) => Serves(y, x)'
      BY <1>14, <2>1 DEF RetryTtl, Serves, TypeOK, dbVars
    <2> QED BY <2>1, <2>2, <2>3, WorkFrame DEF HasWork, dbVars
  <1>15. CASE Crash
    <2>1. (outbox \ sent) \subseteq (outbox' \ sent') /\ UNCHANGED <<dbVars, msgVars>>
          /\ accepted' = accepted /\ mislaid' = mislaid /\ \A y \in Slot : pc'[y] = "ready"
      BY <1>15 DEF Crash, RowsOf
    <2>2. \A y \in Slot : Serves(y, x) => Serves(y, x)'
      BY <2>1 DEF Serves, dbVars, msgVars
    <2>3. PendingRow(x) => PendingRow(x)'
      BY <2>1 DEF PendingRow, dbVars
    <2> QED BY <2>1, <2>2, <2>3, WorkFrame DEF HasWork, dbVars
  <1>16. ASSUME UNCHANGED <<accepted, mislaid, dbVars, rowVars, msgVars, pc>>
         PROVE  CanFinish(x)'
    BY <1>16 DEF CanFinish, Unfinished, HasWork, PendingRow, Serves, dbVars, rowVars, msgVars
  <1>17. ASSUME NEW o \in Order, NEW d \in Downstream, Serve(o, d) PROVE CanFinish(x)'
    BY <1>16, <1>17 DEF Serve, restVars
  <1>18. ASSUME NEW d \in Downstream, ForceDown(d) \/ ForceUp(d) PROVE CanFinish(x)'
    BY <1>16, <1>18 DEF ForceDown, ForceUp, restVars
  <1>19. FirstStart \/ UNCHANGED vars => CanFinish(x)'
    BY <1>16 DEF FirstStart, DeclareEventQueue, vars, restVars
  <1> QED
    BY <1>1, <1>2, <1>3, <1>4, <1>5, <1>6, <1>7, <1>8, <1>9, <1>10, <1>11, <1>12,
       <1>13, <1>14, <1>15, <1>17, <1>18, <1>19
    DEF Next, OnPlaced, OnAdvance, Broker

-----------------------------------------------------------------------------
(* The theorems                                                              *)

LEMMA InitInd == Init => IndInv
  <1> SUFFICES ASSUME Init PROVE IndInv
    OBVIOUS
  <1>1. KnownWasAccepted /\ RowsBehind /\ ClaimsBehind
    BY DEF Init, KnownWasAccepted, RowsBehind, ClaimsBehind
  <1>2. LossOnlyThroughGaps
    BY DEF Init, LossOnlyThroughGaps, CanFinish, Unfinished
  <1> QED BY <1>1, <1>2, InitType, InitHandler DEF IndInv

LEMMA StepInd == IndInv /\ [Next]_vars => IndInv'
  <1> SUFFICES ASSUME IndInv, [Next]_vars PROVE IndInv'
    OBVIOUS
  <1>1. TypeOK' /\ HandlerOK'
    BY TypeStep, HandlerStep DEF IndInv
  <1>2. KnownWasAccepted' /\ RowsBehind' /\ ClaimsBehind'
    BY KnownStep, BehindStep DEF IndInv
  <1>3. LossOnlyThroughGaps'
    BY WorkStep DEF IndInv, LossOnlyThroughGaps
  <1> QED BY <1>1, <1>2, <1>3 DEF IndInv

\* The inductive invariant holds in every reachable state.
THEOREM Invariance == Spec => []IndInv
  <1> QED BY InitInd, StepInd, PTL DEF Spec

\* Every variable keeps its type; in particular no envelope's attempt count
\* passes BROKER_MAX_ATTEMPTS (_retry_or_dlq).
THEOREM TypeCorrect == Spec => []TypeOK
  <1>1. IndInv => TypeOK
    BY DEF IndInv
  <1> QED BY <1>1, Invariance, PTL

\* With database failures, failed publishes, crashes and rolled back drains, an
\* order is stranded only through one of the three gaps (_fault's reject, the
\* first start, a parked placed event).
THEOREM OrdersKeepTheirWork == Spec => []LossOnlyThroughGaps
  <1>1. IndInv => LossOnlyThroughGaps
    BY DEF IndInv
  <1> QED BY <1>1, Invariance, PTL

\* Without those faults the gaps are never entered.
GapsClosed == mislaid = {} /\ bound = TRUE /\ \A s \in Slot : pc[s] # "park"

LEMMA GapsStayClosed ==
    ASSUME BoundAtStart, ~ DbFaults, ~ PublishFaults
    PROVE  Spec => []GapsClosed
  <1>1. Init => GapsClosed
    BY DEF Init, GapsClosed
  <1>2. ASSUME TypeOK, GapsClosed, [Next]_vars PROVE GapsClosed'
    <2>1. ASSUME NEW s \in Slot,
                 Seed(s) \/ Read(s) \/ Dedup(s) \/ Send(s) \/ Reply(s) \/ AttemptFails(s)
                 \/ GiveUp(s) \/ MarkDone(s) \/ Ack(s) \/ Reconnect(s)
          PROVE  GapsClosed'
      <3>1. PICK step \in Step \ {"park"} : Go(s, step)
        BY <2>1
        DEF Seed, Read, Dedup, Send, Reply, AttemptFails, GiveUp, MarkDone, Ack, Reconnect, Step
      <3>2. mislaid' = mislaid /\ bound' = bound
        BY <2>1
        DEF Seed, Read, Dedup, Send, Reply, AttemptFails, GiveUp, MarkDone, Ack, Reconnect,
            HandlerOnly, restVars
      <3> QED BY <1>2, <3>1, <3>2 DEF GapsClosed, Go, TypeOK
    <2>2. ASSUME NEW s \in Slot, Commit(s) \/ Cancel(s) \/ FailOrder(s) PROVE GapsClosed'
      <3>1. PICK step \in Step \ {"park"} : Go(s, step)
        BY <2>2 DEF Commit, Cancel, FailOrder, Transact, Step
      <3>2. mislaid' = mislaid /\ bound' = bound
        BY <2>2 DEF Commit, Cancel, FailOrder, Transact, restVars
      <3> QED BY <1>2, <3>1, <3>2 DEF GapsClosed, Go, TypeOK
    <2>3. ASSUME NEW s \in Slot, RetryOrDlq(s) \/ ReplayDlq(s) \/ RetryTtl(s) PROVE GapsClosed'
      BY <1>2, <2>3
      DEF RetryOrDlq, ReplayDlq, RetryTtl, Republish, Go, GapsClosed, TypeOK, restVars
    <2>4. ASSUME NEW s \in Slot, SeedFails(s) \/ Park(s) \/ ParkFails(s) \/ ReplayFails(s) \/
                                 RetryFails(s)
                                 \/ FaultFails(s)
          PROVE  FALSE
      BY <1>2, <2>4 DEF SeedFails, Park, ParkFails, ReplayFails,
                                         RetryFails, FaultFails, At, GapsClosed
    <2>5. ASSUME NEW o \in Order, Accept(o) PROVE GapsClosed'
      BY <1>2, <2>5 DEF Accept, GapsClosed
    <2>6. ASSUME NEW r \in outbox, RelayPublish(r) PROVE GapsClosed'
      BY <1>2, <2>6 DEF RelayPublish, GapsClosed
    <2>7. ASSUME NEW svc, RelayCommit(svc) \/ RelayAbort(svc) PROVE GapsClosed'
      BY <1>2, <2>7 DEF RelayCommit, RelayAbort, GapsClosed, restVars
    <2>8. ASSUME NEW o \in Order, NEW d \in Downstream, Serve(o, d) PROVE GapsClosed'
      BY <1>2, <2>8 DEF Serve, GapsClosed, restVars
    <2>9. ASSUME NEW d \in Downstream, ForceDown(d) \/ ForceUp(d) PROVE GapsClosed'
      BY <1>2, <2>9 DEF ForceDown, ForceUp, GapsClosed, restVars
    <2>10. FirstStart \/ Crash \/ UNCHANGED vars => GapsClosed'
      BY <1>2 DEF FirstStart, DeclareEventQueue, Crash, vars, GapsClosed, restVars
    <2> QED
      BY <1>2, <2>1, <2>2, <2>3, <2>4, <2>5, <2>6, <2>7, <2>8, <2>9, <2>10
      DEF Next, OnPlaced, OnAdvance, Broker
  <1> QED BY <1>1, <1>2, TypeCorrect, PTL DEF Spec

\* Whatever crashes, lost acknowledgements, rolled back drains, outages and
\* retries do, no accepted order is ever without a row or message that moves it
\* on, when no publish and no database call of the orchestrator fails and
\* q.orch.placed is bound before the first order.
THEOREM NoOrderIsLost ==
    ASSUME BoundAtStart, ~ DbFaults, ~ PublishFaults
    PROVE  Spec => []NoOrderLost
  <1>1. LossOnlyThroughGaps /\ GapsClosed => NoOrderLost
    BY DEF LossOnlyThroughGaps, CanFinish, GapsClosed, NoOrderLost
  <1> QED BY <1>1, OrdersKeepTheirWork, GapsStayClosed, PTL

-----------------------------------------------------------------------------

LEMMA ClaimStep == IndInv /\ OneClaimPerState /\ [Next]_vars => OneClaimPerState'
  <1> SUFFICES ASSUME IndInv, OneClaimPerState, [Next]_vars PROVE OneClaimPerState'
    OBVIOUS
  <1>1. CASE operations' = operations
    BY <1>1 DEF OneClaimPerState
  <1>2. ASSUME NEW o \in Order, NEW from \in Active, NEW to \in State, Move(o, from, to)
        PROVE  OneClaimPerState'
    <2>1. \A t \in State : Op(o, from, t) \notin operations
      <3>1. Rank[orders[o]] \in Nat /\ orders[o] = from
        BY <1>2, RankGrows DEF Move, Active
      <3> QED BY <3>1 DEF IndInv, ClaimsBehind
    <2>2. \A p \in operations : ~ (p[1] = o /\ p[2] = from)
      BY <2>1 DEF IndInv, TypeOK, Op
    <2>3. operations' = operations \cup {<<o, from, to>>}
      BY <1>2 DEF Move, Op
    <2> QED BY <2>2, <2>3 DEF OneClaimPerState
  <1> QED BY <1>1, <1>2, DbStep DEF IndInv, Seeds, Accept, dbVars

\* No two of the claims an order's handlers win lead out of the same state: a
\* step, a cancellation and a failure exclude one another (_commit_transition,
\* _cancel and _fail_order).
THEOREM StatesAreLeftOnce == Spec => []OneClaimPerState
  <1>1. Init => OneClaimPerState
    BY DEF Init, OneClaimPerState
  <1> QED BY <1>1, ClaimStep, Invariance, PTL DEF Spec

\* The Redis first line never runs ahead of Postgres (mark_done after commit).
THEOREM RedisFollowsPostgres == Spec => []RedisNeverAhead
  <1>1. Init => RedisNeverAhead
    BY DEF Init, RedisNeverAhead
  <1>2. IndInv /\ RedisNeverAhead /\ [Next]_vars => RedisNeverAhead'
    <2> SUFFICES ASSUME IndInv, RedisNeverAhead, [Next]_vars PROVE RedisNeverAhead'
      OBVIOUS
    <2>1. operations \subseteq operations'
      BY DbStep DEF IndInv, Seeds, Accept, Move, dbVars
    <2>2. ASSUME NEW s \in Slot, MarkDone(s) PROVE redis' \subseteq operations
      BY <2>2 DEF MarkDone, At, IndInv, HandlerOK, SlotOK, RedisNeverAhead
    <2>3. redis' = redis \/ \E s \in Slot : MarkDone(s)
      BY DEF Next, OnPlaced, OnAdvance, Broker, Accept, RelayPublish, RelayCommit, RelayAbort,
             Seed, SeedFails, Park, ParkFails, ReplayFails,
                                    Read, Dedup, Send, Reply, AttemptFails, GiveUp,
             Commit, Cancel, FailOrder, Transact, RetryOrDlq, RetryFails, FaultFails, Republish,
             Ack, RetryTtl, ReplayDlq, Reconnect, HandlerOnly, Serve, ForceDown, ForceUp,
             FirstStart, DeclareEventQueue, Crash, vars
    <2> QED BY <2>1, <2>2, <2>3 DEF RedisNeverAhead
  <1> QED BY <1>1, <1>2, Invariance, PTL DEF Spec

-----------------------------------------------------------------------------
(* The pipeline implements OrderLifecycle                                    *)

\* A state an order has come to stays behind it.
Reached(o, state) ==
    orders[o] = state \/ \E i \in DOMAIN transitions[o] : transitions[o][i].from = state

\* What a handler has established of its order by the step it is at.
KnowsOrder(s) ==
    LET o == env[s].order
        outcome == ledger[o][Callee(s)]
    IN  /\ pc[s] \in {"dedup", "call", "wait"} => Reached(o, env[s].from)
        /\ pc[s] = "cancel" => env[s].from \in Cancellable
        /\ pc[s] = "commit" /\ Calls(env[s].from) => outcome = "ok"
        /\ pc[s] = "fail" => outcome = "declined"

\* A service works for an order that has come to its stage, under an op_id that
\* has no outcome yet; only payment declines.
Admitted ==
    /\ \A o \in Order, d \in Downstream :
           <<o, d>> \in inflight =>
               /\ ledger[o][d] = "none"
               /\ \E from \in Active : Calls(from) /\ StageDownstream[from] = d /\ Reached(o, from)
    /\ \A o \in Order, d \in Downstream : ledger[o][d] = "declined" => d = "payment"

LifeInv == IndInv /\ (\A s \in Slot : KnowsOrder(s)) /\ Admitted

\* What makes TransitionLogIsPath inductive: an order with no move on its log has
\* not left placed.
LogInv ==
    /\ TransitionLogIsPath
    /\ \A o \in Order : /\ transitions[o] = << >> => orders[o] \in {"absent", "placed"}
                        /\ IsFiniteSet({op \in operations : op[1] = o})

-----------------------------------------------------------------------------
(* Logs and ledgers only grow                                                *)

LEMMA LogAppend ==
    ASSUME NEW log \in Seq([from : State, to : State]), NEW move \in [from : State, to : State]
    PROVE  /\ Len(log) \in Nat /\ DOMAIN log = 1 .. Len(log)
           /\ DOMAIN Append(log, move) = 1 .. Len(log) + 1
           /\ Len(Append(log, move)) = Len(log) + 1
           /\ \A i \in 1 .. Len(log) : Append(log, move)[i] = log[i]
           /\ Append(log, move)[Len(log) + 1] = move
           /\ log = << >> <=> Len(log) = 0
  OBVIOUS

\* A log that is not empty has a last move.
LEMMA LogLast ==
    ASSUME NEW S, NEW log \in Seq(S), log # << >>
    PROVE  log[Len(log)] \in S
  <1>1. Len(log) \in Nat /\ (log = << >> <=> Len(log) = 0)
    OBVIOUS
  <1>2. Len(log) \in 1 .. Len(log)
    BY <1>1
  <1>3. \A i \in 1 .. Len(log) : log[i] \in S
    OBVIOUS
  <1> QED BY <1>2, <1>3

\* A handler at one of these steps serves an advance command of some order.
LEMMA HandledOrder ==
    ASSUME TypeOK, HandlerOK, NEW s \in Slot,
           pc[s] \in {"dedup", "call", "wait", "cancel", "commit", "fail"}
    PROVE  /\ queue[s] = "advance" /\ env[s].order \in Order /\ env[s].from \in Active
           /\ pc[s] \in {"call", "wait", "fail"} => Calls(env[s].from)
           /\ Calls(env[s].from) => Callee(s) \in Downstream
  <1>1. queue[s] = "advance"
    BY DEF TypeOK, HandlerOK, SlotOK, Queue
  <1>2. env[s].order \in Order /\ env[s].from \in {"none"} \cup Active
    BY <1>1 DEF TypeOK, Envelope
  <1> QED BY <1>1, <1>2, CallsIsActive DEF HandlerOK, SlotOK, Callee

\* A move is one of the table, out of the state the order is in.
LawfulMove(o, from, to) ==
    /\ Move(o, from, to)
    /\ to \in Allowed[from]
    /\ to \in Active \cup {"delivered"} => (Calls(from) => ledger[o][StageDownstream[from]] = "ok")
    /\ to = "cancelled" => from \in Cancellable
    /\ to = "failed" => from = "placed" /\ ledger[o][StageDownstream[from]] = "declined"

\* What a step can do to an order, its log and its ledger.
LEMMA OrderStep ==
    ASSUME LifeInv, [Next]_vars
    PROVE  \/ UNCHANGED <<dbVars, ledger>>
           \/ UNCHANGED <<transitions, operations, ledger>> /\ \E o \in Order : Seeds(o)
           \/ UNCHANGED ledger /\ \E o \in Order, from \in Active, to \in State : LawfulMove(o, from, to)
           \/ UNCHANGED dbVars /\ \E o \in Order, d \in Downstream : Serve(o, d)
  <1> USE DEF LifeInv, IndInv
  <1>1. ASSUME NEW s \in Slot, Seed(s) \/ SeedFails(s)
        PROVE  \/ UNCHANGED <<dbVars, ledger>>
               \/ UNCHANGED <<transitions, operations, ledger>> /\ \E o \in Order : Seeds(o)
    <2>1. env[s].order \in Order
      BY <1>1 DEF Seed, SeedFails, At, TypeOK, Envelope
    <2> QED BY <1>1, <2>1 DEF Seed, SeedFails, SeedTx, Seeds, dbVars, svcVars
  <1>2. ASSUME NEW s \in Slot, Commit(s) \/ Cancel(s) \/ FailOrder(s)
        PROVE  \/ UNCHANGED <<dbVars, ledger>>
               \/ UNCHANGED ledger /\ \E o \in Order, from \in Active, to \in State : LawfulMove(o, from, to)
    <2> DEFINE o == env[s].order
               from == env[s].from
    <2>1. o \in Order /\ from \in Active /\ (Calls(from) => Callee(s) \in Downstream)
          /\ (pc[s] = "fail" => Calls(from)) /\ KnowsOrder(s)
      BY <1>2, HandledOrder DEF Commit, Cancel, FailOrder, At
    <2>2. UNCHANGED ledger
      BY <1>2 DEF Commit, Cancel, FailOrder, Transact, svcVars
    <2>3. CASE Commit(s)
      <3>1. /\ NextHappyState[from] \in Allowed[from]
            /\ NextHappyState[from] \in State \ {"cancelled", "failed"}
        BY <2>1 DEF Allowed, NextHappyState, Active, Terminal, State
      <3>2. Calls(from) => ledger[o][StageDownstream[from]] = "ok"
        BY <2>1, <2>3 DEF Commit, At, KnowsOrder, Callee
      <3>3. Move(o, from, NextHappyState[from]) \/ UNCHANGED dbVars
        BY <2>3 DEF Commit, Transact, dbVars
      <3> QED BY <2>1, <2>2, <3>1, <3>2, <3>3 DEF LawfulMove
    <2>4. CASE Cancel(s)
      <3>1. from \in Cancellable /\ "cancelled" \in Allowed[from] /\ "cancelled" \in State
        BY <2>1, <2>4 DEF Cancel, At, KnowsOrder, Cancellable, Allowed, State
      <3>2. Move(o, from, "cancelled") \/ UNCHANGED dbVars
        BY <2>4 DEF Cancel, Transact, dbVars
      <3> QED BY <2>1, <2>2, <3>1, <3>2 DEF LawfulMove, Active, Terminal
    <2>5. CASE FailOrder(s)
      <3>1. ledger[o][Callee(s)] = "declined" /\ Calls(from) /\ Callee(s) \in Downstream
        BY <2>1, <2>5 DEF FailOrder, At, KnowsOrder
      <3>2. Callee(s) = "payment"
        BY <2>1, <3>1 DEF Admitted
      <3>3. from = "placed" /\ "failed" \in Allowed[from] /\ "failed" \in State
        BY <3>1, <3>2 DEF Callee, Calls, StageDownstream, Allowed, State
      <3>4. Move(o, from, "failed") \/ UNCHANGED dbVars
        BY <2>5 DEF FailOrder, Transact, dbVars
      <3> QED BY <2>1, <2>2, <3>1, <3>3, <3>4 DEF LawfulMove, Callee, Active, Terminal
    <2> QED BY <1>2, <2>3, <2>4, <2>5
  <1>3. ASSUME NEW o \in Order, NEW d \in Downstream, Serve(o, d) PROVE UNCHANGED dbVars
    BY <1>3 DEF Serve
  <1>4. ASSUME NEW s \in Slot,
               ParkFails(s) \/ ReplayFails(s) \/ Read(s) \/ Dedup(s) \/ Reply(s) \/ GiveUp(s)
               \/ RetryFails(s) \/ Send(s) \/ AttemptFails(s) \/ MarkDone(s)
        PROVE  UNCHANGED <<dbVars, ledger>>
    BY <1>4 DEF ParkFails, ReplayFails, Read, Dedup, Reply, GiveUp, RetryFails, Send, AttemptFails,
                MarkDone, HandlerOnly, svcVars
  <1>5. ASSUME NEW s \in Slot,
               Park(s) \/ RetryOrDlq(s) \/ FaultFails(s) \/ Ack(s) \/ RetryTtl(s)
               \/ ReplayDlq(s) \/ Reconnect(s)
        PROVE  UNCHANGED <<dbVars, ledger>>
    BY <1>5 DEF Park, RetryOrDlq, FaultFails, Ack, RetryTtl, ReplayDlq, Reconnect, Republish, svcVars
  <1>6. ASSUME NEW o \in Order, Accept(o) PROVE UNCHANGED <<dbVars, ledger>>
    BY <1>6 DEF Accept, svcVars
  <1>7. ASSUME NEW r \in outbox, RelayPublish(r) PROVE UNCHANGED <<dbVars, ledger>>
    BY <1>7 DEF RelayPublish, svcVars
  <1>8. ASSUME NEW svc, RelayCommit(svc) \/ RelayAbort(svc) PROVE UNCHANGED <<dbVars, ledger>>
    BY <1>8 DEF RelayCommit, RelayAbort, svcVars
  <1>9. ASSUME NEW d \in Downstream, ForceDown(d) \/ ForceUp(d) PROVE UNCHANGED <<dbVars, ledger>>
    BY <1>9 DEF ForceDown, ForceUp
  <1>10. FirstStart \/ Crash \/ UNCHANGED vars => UNCHANGED <<dbVars, ledger>>
    BY DEF FirstStart, DeclareEventQueue, Crash, vars, svcVars
  <1> HIDE DEF LifeInv, IndInv
  <1> QED
    BY <1>1, <1>2, <1>3, <1>4, <1>5, <1>6, <1>7, <1>8, <1>9, <1>10
    DEF Next, OnPlaced, OnAdvance, Broker

\* A move appends itself to its order's log and leaves the others alone.
LEMMA MoveLog ==
    ASSUME TypeOK, NEW o \in Order, NEW from \in Active, NEW to \in State, Move(o, from, to)
    PROVE  LET log == transitions[o]
           IN  /\ Len(log) \in Nat /\ DOMAIN log = 1 .. Len(log)
               /\ log = << >> <=> Len(log) = 0
               /\ DOMAIN transitions'[o] = 1 .. Len(log) + 1
               /\ Len(transitions'[o]) = Len(log) + 1
               /\ transitions'[o] # << >>
               /\ \A i \in 1 .. Len(log) : transitions'[o][i] = log[i]
               /\ transitions'[o][Len(log) + 1] = [from |-> from, to |-> to]
               /\ \A x \in Order \ {o} : transitions'[x] = transitions[x] /\ orders'[x] = orders[x]
               /\ orders[o] = from /\ orders'[o] = to
  <1>1. transitions[o] \in Seq([from : State, to : State])
        /\ [from |-> from, to |-> to] \in [from : State, to : State]
    BY DEF TypeOK, Active
  <1>2. transitions'[o] = Append(transitions[o], [from |-> from, to |-> to])
        /\ \A x \in Order \ {o} : transitions'[x] = transitions[x] /\ orders'[x] = orders[x]
    BY DEF Move, TypeOK
  <1>3. orders[o] = from /\ orders'[o] = to
    BY DEF Move, TypeOK
  <1>4. transitions'[o] # << >>
    BY <1>1, <1>2
  <1> QED BY <1>1, <1>2, <1>3, <1>4, LogAppend

LEMMA MoveFrame ==
    ASSUME TypeOK, NEW o \in Order, NEW from \in Active, NEW to \in State, Move(o, from, to),
           NEW x \in Order, x # o
    PROVE  transitions'[x] = transitions[x] /\ orders'[x] = orders[x]
  BY DEF Move, TypeOK

LEMMA ReachedGrows ==
    ASSUME LifeInv, [Next]_vars, NEW o \in Order, NEW state \in State, Reached(o, state)
    PROVE  Reached(o, state)'
  <1>1. CASE UNCHANGED <<orders, transitions>>
    BY <1>1 DEF Reached
  <1>2. ASSUME UNCHANGED transitions, NEW x \in Order, Seeds(x) PROVE Reached(o, state)'
    BY <1>2 DEF Seeds, Reached, State, LifeInv, IndInv, TypeOK
  <1>3. ASSUME NEW x \in Order, NEW from \in Active, NEW to \in State, Move(x, from, to)
        PROVE  Reached(o, state)'
    <2>1. CASE o # x
      <3>1. transitions'[o] = transitions[o] /\ orders'[o] = orders[o]
        BY <1>3, <2>1, MoveFrame DEF LifeInv, IndInv
      <3> QED BY <3>1 DEF Reached
    <2>2. CASE o = x
      <3>1. /\ Len(transitions[o]) \in Nat /\ DOMAIN transitions[o] = 1 .. Len(transitions[o])
            /\ DOMAIN transitions'[o] = 1 .. Len(transitions[o]) + 1
            /\ \A i \in 1 .. Len(transitions[o]) : transitions'[o][i] = transitions[o][i]
            /\ transitions'[o][Len(transitions[o]) + 1] = [from |-> from, to |-> to]
            /\ orders[o] = from
        BY <1>3, <2>2, MoveLog DEF LifeInv, IndInv
      <3>2. CASE state = from
        BY <3>1, <3>2 DEF Reached
      <3>3. CASE state # from
        BY <3>1, <3>3 DEF Reached
      <3> QED BY <3>2, <3>3
    <2> QED BY <2>1, <2>2
  <1> QED BY <1>1, <1>2, <1>3, OrderStep DEF LawfulMove, dbVars

\* An outcome recorded stays.
LEMMA LedgerGrows ==
    ASSUME LifeInv, [Next]_vars, NEW o \in Order, NEW d \in Downstream
    PROVE  ledger[o][d] # "none" => ledger'[o][d] = ledger[o][d]
  <1>1. ASSUME NEW x \in Order, NEW e \in Downstream, Serve(x, e)
        PROVE  ledger[o][d] # "none" => ledger'[o][d] = ledger[o][d]
    BY <1>1 DEF Serve, LifeInv, IndInv, TypeOK, Admitted
  <1> QED BY <1>1, OrderStep

-----------------------------------------------------------------------------
(* What handlers and services know                                           *)

\* A slot no step touches knows what it knew.
LEMMA KnowsFrame ==
    ASSUME LifeInv, [Next]_vars, NEW x \in Slot, env'[x] = env[x], pc'[x] = pc[x]
    PROVE  KnowsOrder(x)'
  <1> USE DEF LifeInv
  <1>1. CASE pc[x] \notin {"dedup", "call", "wait", "cancel", "commit", "fail"}
    BY <1>1 DEF KnowsOrder
  <1>2. CASE pc[x] \in {"dedup", "call", "wait", "cancel", "commit", "fail"}
    <2>1. /\ env[x].order \in Order /\ env[x].from \in Active /\ env[x].from \in State
          /\ pc[x] \in {"call", "wait", "fail"} => Calls(env[x].from)
          /\ Calls(env[x].from) => Callee(x) \in Downstream
      BY <1>2, HandledOrder DEF IndInv, Active
    <2>2. Callee(x)' = Callee(x)
      BY DEF Callee
    <2>3. pc[x] \in {"dedup", "call", "wait"} => Reached(env[x].order, env[x].from)'
      BY <2>1, ReachedGrows DEF KnowsOrder
    <2>4. Calls(env[x].from) /\ ledger[env[x].order][Callee(x)] # "none"
              => ledger'[env[x].order][Callee(x)] = ledger[env[x].order][Callee(x)]
      BY <2>1, LedgerGrows
    <2> QED BY <2>1, <2>2, <2>3, <2>4 DEF KnowsOrder, Reached
  <1> QED BY <1>1, <1>2

LEMMA KnowsStep == ASSUME LifeInv, [Next]_vars, NEW x \in Slot PROVE KnowsOrder(x)'
  <1> DEFINE Idle == {"ready", "mark", "ack", "retry", "fault", "refault", "park", "abandoned"}
  <1>0. TypeOK /\ HandlerOK /\ KnowsOrder(x)
    BY DEF LifeInv, IndInv
  <1>1. ASSUME pc'[x] \in Idle PROVE KnowsOrder(x)'
    BY <1>1 DEF KnowsOrder
  <1>2. ASSUME NEW s \in Slot, Read(s) PROVE KnowsOrder(x)'
    <2>1. CASE x # s
      BY <1>0, <1>2, <2>1, KnowsFrame DEF Read, Go, HandlerOnly, msgVars, TypeOK
    <2>2. CASE x = s
      <3>1. \/ pc'[s] \in Idle
            \/ pc'[s] = "dedup" /\ orders[env[s].order] = env[s].from
            \/ pc'[s] = "cancel" /\ env[s].from \in Cancellable
        BY <1>0, <1>2 DEF Read, Go, TypeOK
      <3>2. env' = env /\ orders' = orders
        BY <1>2 DEF Read, HandlerOnly, msgVars, dbVars
      <3> QED BY <1>1, <2>2, <3>1, <3>2 DEF KnowsOrder, Reached
    <2> QED BY <2>1, <2>2
  <1>3. ASSUME NEW s \in Slot, Dedup(s) \/ Send(s) \/ AttemptFails(s) \/ GiveUp(s) \/ Reply(s)
        PROVE  KnowsOrder(x)'
    <2>1. UNCHANGED <<env, dbVars, ledger>>
      BY <1>3 DEF Dedup, Send, AttemptFails, GiveUp, Reply, HandlerOnly, msgVars, svcVars
    <2>2. CASE x # s
      BY <1>0, <1>3, <2>1, <2>2, KnowsFrame DEF Dedup, Send, AttemptFails, GiveUp, Reply, Go, TypeOK
    <2>3. CASE x = s
      <3>1. \/ pc'[s] \in Idle
            \/ pc[s] \in {"dedup", "call", "wait"} /\ pc'[s] \in {"call", "wait"}
            \/ pc'[s] = "commit" /\ ~ Calls(env[s].from)
            \/ pc'[s] = "commit" /\ ledger[env[s].order][Callee(s)] = "ok"
            \/ /\ pc'[s] = "fail" /\ ledger[env[s].order][Callee(s)] \notin {"none", "ok"}
               /\ pc[s] = "wait"
        BY <1>0, <1>3 DEF Dedup, Send, AttemptFails, GiveUp, Reply, At, Go, TypeOK
      <3>2. Callee(s)' = Callee(s) /\ UNCHANGED <<env, orders, transitions, ledger>>
        BY <2>1 DEF Callee, dbVars
      <3>3. pc[s] = "wait" => ledger[env[s].order][Callee(s)] \in {"none", "ok", "declined"}
        BY <1>0, HandledOrder DEF TypeOK
      <3> QED BY <1>0, <1>1, <2>3, <3>1, <3>2, <3>3 DEF KnowsOrder, Reached
    <2> QED BY <2>2, <2>3
  <1>4. ASSUME NEW s \in Slot, NEW step \in Idle, Go(s, step), \A y \in Slot \ {s} : env'[y] = env[y] \/ pc[y] \in Idle
        PROVE  KnowsOrder(x)'
    <2>1. CASE x = s
      BY <1>0, <1>1, <1>4, <2>1 DEF Go, TypeOK
    <2>2. CASE x # s /\ pc[x] \in Idle
      BY <1>0, <1>1, <1>4, <2>2 DEF Go, TypeOK
    <2>3. CASE x # s /\ pc[x] \notin Idle
      BY <1>0, <1>4, <2>3, KnowsFrame DEF Go, TypeOK
    <2> QED BY <2>1, <2>2, <2>3
  \* A message is published into a free slot, where no handler is.
  <1>5. ASSUME NEW t \in Slot, NEW q, NEW mail, Put(t, q, mail), NEW y \in Slot
        PROVE  env'[y] = env[y] \/ pc[y] = "ready"
    BY <1>0, <1>5 DEF Put, Free, TypeOK, HandlerOK, SlotOK
  <1>6. ASSUME NEW s \in Slot,
               ParkFails(s) \/ ReplayFails(s) \/ RetryFails(s) \/ MarkDone(s) \/ Reconnect(s)
               \/ Seed(s) \/ Commit(s) \/ Cancel(s) \/ FailOrder(s)
        PROVE  KnowsOrder(x)'
    <2>1. PICK step \in Idle : Go(s, step)
      BY <1>6 DEF ParkFails, ReplayFails, RetryFails, MarkDone, Reconnect, Seed, Commit, Cancel,
                  FailOrder, Transact
    <2>2. env' = env
      BY <1>6 DEF ParkFails, ReplayFails, RetryFails, MarkDone, Reconnect, Seed, Commit, Cancel,
                  FailOrder, Transact, HandlerOnly, msgVars
    <2> QED BY <1>4, <2>1, <2>2
  <1>7. ASSUME NEW s \in Slot, Ack(s) \/ FaultFails(s) PROVE KnowsOrder(x)'
    <2>1. PICK step \in Idle : Go(s, step)
      BY <1>7 DEF Ack, FaultFails
    <2>2. \A y \in Slot \ {s} : env'[y] = env[y]
      BY <1>0, <1>7 DEF Ack, FaultFails, msgVars, TypeOK
    <2> QED BY <1>4, <2>1, <2>2
  <1>8. ASSUME NEW s \in Slot, Park(s) \/ RetryOrDlq(s) \/ ReplayDlq(s) PROVE KnowsOrder(x)'
    <2>1. Go(s, "ack") /\ \E t \in Slot : \E q, mail : Put(t, q, mail)
      BY <1>8 DEF Park, RetryOrDlq, ReplayDlq, Republish
    <2> QED BY <1>4, <1>5, <2>1
  <1>9. ASSUME pc' = pc, env' = env PROVE KnowsOrder(x)'
    BY <1>9, KnowsFrame
  <1>10. ASSUME NEW s \in Slot, SeedFails(s) \/ RetryTtl(s) PROVE KnowsOrder(x)'
    <2>1. env' = env /\ (pc' = pc \/ Go(s, "park"))
      BY <1>10 DEF SeedFails, RetryTtl, msgVars
    <2> QED BY <1>4, <1>9, <2>1
  <1>11. ASSUME NEW r \in outbox, RelayPublish(r) PROVE KnowsOrder(x)'
    <2>1. pc' = pc /\ (env' = env \/ \E t \in Slot : \E q, mail : Put(t, q, mail))
      BY <1>11 DEF RelayPublish, msgVars
    <2>2. env'[x] = env[x] \/ pc[x] = "ready"
      BY <1>5, <2>1
    <2> QED BY <1>1, <2>1, <2>2, KnowsFrame
  <1>12. CASE Crash
    BY <1>0, <1>1, <1>12 DEF Crash
  <1>13. ASSUME \/ \E o \in Order : Accept(o)
                \/ \E svc \in {"ingestion", "orchestrator"} : RelayCommit(svc) \/ RelayAbort(svc)
                \/ \E o \in Order, d \in Downstream : Serve(o, d)
                \/ \E d \in Downstream : ForceDown(d) \/ ForceUp(d)
                \/ FirstStart \/ UNCHANGED vars
         PROVE  KnowsOrder(x)'
    BY <1>9, <1>13 DEF Accept, RelayCommit, RelayAbort, Serve, ForceDown, ForceUp, FirstStart, DeclareEventQueue, vars, msgVars
  <1> HIDE DEF Idle
  <1> QED
    BY <1>2, <1>3, <1>6, <1>7, <1>8, <1>10, <1>11, <1>12, <1>13
    DEF Next, OnPlaced, OnAdvance, Broker

LEMMA AdmittedStep == ASSUME LifeInv, [Next]_vars PROVE Admitted'
  <1>0. TypeOK /\ HandlerOK /\ Admitted
    BY DEF LifeInv, IndInv
  \* Requests that were admitted stay in order while the ledger does.
  <1>1. ASSUME UNCHANGED ledger,
               \A o \in Order, d \in Downstream :
                   <<o, d>> \in inflight' => \/ <<o, d>> \in inflight
                                             \/ /\ ledger[o][d] = "none"
                                                /\ \E from \in Active : /\ Calls(from) /\ Reached(o, from)
                                                                        /\ StageDownstream[from] = d
        PROVE  Admitted'
    <2>1. ASSUME NEW o \in Order, NEW d \in Downstream, <<o, d>> \in inflight'
          PROVE  /\ ledger'[o][d] = "none"
                 /\ \E from \in Active : Calls(from) /\ StageDownstream[from] = d /\ Reached(o, from)'
      <3>1. PICK from \in Active : Calls(from) /\ StageDownstream[from] = d /\ Reached(o, from)
        BY <1>0, <1>1, <2>1 DEF Admitted
      <3>2. Reached(o, from)'
        BY <3>1, ReachedGrows DEF Active
      <3> QED BY <1>0, <1>1, <2>1, <3>1, <3>2 DEF Admitted
    <2>2. \A o \in Order, d \in Downstream : ledger'[o][d] = "declined" => d = "payment"
      BY <1>0, <1>1 DEF Admitted
    <2> QED BY <2>1, <2>2 DEF Admitted, Reached
  <1>2. ASSUME NEW s \in Slot, Send(s) PROVE Admitted'
    <2>1. /\ env[s].order \in Order /\ env[s].from \in Active /\ Calls(env[s].from)
          /\ Callee(s) = StageDownstream[env[s].from] /\ Reached(env[s].order, env[s].from)
      BY <1>0, <1>2, HandledOrder DEF Send, At, LifeInv, KnowsOrder, Callee
    <2>2. UNCHANGED ledger
      BY <1>2 DEF Send
    <2>3. ASSUME NEW o \in Order, NEW d \in Downstream, <<o, d>> \in inflight', <<o, d>> \notin inflight
          PROVE  ledger[o][d] = "none" /\ o = env[s].order /\ d = Callee(s)
      BY <1>2, <2>3 DEF Send
    <2> QED BY <1>1, <2>1, <2>2, <2>3
  <1>3. ASSUME NEW o \in Order, NEW d \in Downstream, Serve(o, d) PROVE Admitted'
    <2>1. PICK outcome \in {"ok", "declined"} : /\ ledger' = [ledger EXCEPT ![o][d] = outcome]
                                                /\ outcome = "declined" => d = "payment"
      BY <1>3 DEF Serve
    <2>2. inflight' = inflight \ {<<o, d>>} /\ UNCHANGED <<orders, transitions>>
      BY <1>3 DEF Serve, dbVars
    <2>3. \A x \in Order, e \in Downstream :
              ledger'[x][e] = IF x = o /\ e = d THEN outcome ELSE ledger[x][e]
      BY <1>0, <2>1 DEF TypeOK
    <2> QED BY <1>0, <2>1, <2>2, <2>3 DEF Admitted, Reached
  <1>4. ASSUME NEW s \in Slot, AttemptFails(s) PROVE Admitted'
    BY <1>1, <1>4 DEF AttemptFails
  <1>5. ASSUME UNCHANGED <<ledger, inflight>> PROVE Admitted'
    BY <1>1, <1>5
  <1>6. \/ \E s \in Slot : Send(s) \/ AttemptFails(s)
        \/ \E o \in Order, d \in Downstream : Serve(o, d)
        \/ UNCHANGED <<ledger, inflight>>
    BY DEF Next, OnPlaced, OnAdvance, Broker, Accept, RelayPublish, RelayCommit, RelayAbort,
           Seed, SeedFails, Park, ParkFails, ReplayFails, Read, Dedup, Reply, GiveUp,
           Commit, Cancel, FailOrder, Transact, MarkDone, RetryOrDlq, RetryFails, FaultFails, Republish,
           Ack, RetryTtl, ReplayDlq, Reconnect, HandlerOnly, ForceDown, ForceUp,
           FirstStart, DeclareEventQueue, Crash, vars, svcVars
  <1> QED BY <1>2, <1>3, <1>4, <1>5, <1>6

\* What a handler knows of its order stays true while it works: the order has come to the
\* state the command leads away from, and a success or refusal it acts on is on record
\* (the steps of _advance, _call_downstream before _commit_transition).
THEOREM LifeInvariance == Spec => []LifeInv
  <1>1. Init => LifeInv
    <2> SUFFICES ASSUME Init PROVE (\A s \in Slot : KnowsOrder(s)) /\ Admitted
      BY InitInd DEF LifeInv
    <2> QED BY DEF Init, KnowsOrder, Admitted
  <1>2. LifeInv /\ [Next]_vars => LifeInv'
    BY StepInd, KnowsStep, AdmittedStep DEF LifeInv
  <1> QED BY <1>1, <1>2, PTL DEF Spec

LEMMA StepMaps == ASSUME LifeInv, [Next]_vars PROVE [Lifecycle!Next]_(Lifecycle!vars)
  <1> USE DEF Lifecycle!vars
  <1>1. CASE UNCHANGED <<dbVars, ledger>>
    BY <1>1 DEF dbVars
  <1>2. ASSUME UNCHANGED <<transitions, operations, ledger>>, NEW o \in Order, Seeds(o)
        PROVE  Lifecycle!Next
    BY <1>2 DEF Seeds, Lifecycle!Next, Lifecycle!Create
  <1>3. ASSUME UNCHANGED ledger, NEW o \in Order, NEW from \in Active, NEW to \in State,
               LawfulMove(o, from, to)
        PROVE  Lifecycle!Next
    <2>1. Lifecycle!Move(o, to)
      BY <1>3 DEF LawfulMove, Move, Lifecycle!Move, Lifecycle!Active, Lifecycle!State, Lifecycle!Terminal,
                  Lifecycle!Allowed, Lifecycle!Calls, Lifecycle!StageDownstream, Lifecycle!Cancellable,
                  Active, State, Terminal, Allowed, Calls, StageDownstream, Cancellable
    <2> QED BY <2>1 DEF Lifecycle!Next, Lifecycle!State, State
  <1>4. ASSUME UNCHANGED dbVars, NEW o \in Order, NEW d \in Downstream, Serve(o, d)
        PROVE  Lifecycle!Next
    <2>1. PICK outcome \in {"ok", "declined"} : /\ ledger' = [ledger EXCEPT ![o][d] = outcome]
                                                /\ outcome = "declined" => d = "payment"
      BY <1>4 DEF Serve
    <2>2. ledger[o][d] = "none"
      BY <1>4 DEF Serve, LifeInv, Admitted
    <2>3. PICK from \in Active : Calls(from) /\ StageDownstream[from] = d /\ Reached(o, from)
      BY <1>4 DEF Serve, LifeInv, Admitted
    <2>4. Lifecycle!StageOf(d) = from
      BY <2>3 DEF Lifecycle!StageOf, Lifecycle!StageDownstream, StageDownstream, Calls
    <2>5. Lifecycle!Reached(o, Lifecycle!StageOf(d))
      BY <2>3, <2>4 DEF Reached, Lifecycle!Reached
    <2>6. Lifecycle!Record(o, d, outcome)
      BY <1>4, <2>1, <2>2, <2>5 DEF Lifecycle!Record, dbVars
    <2> QED BY <2>6 DEF Lifecycle!Next, Lifecycle!Downstream, Downstream
  <1> QED BY <1>1, <1>2, <1>3, <1>4, OrderStep

\* The pipeline implements OrderLifecycle: whatever is redelivered, retried, lost or
\* crashes, an order moves only along the table of states.py, a service acts for it
\* only at its stage and once, a stage is passed only with a success on record, and
\* only a declined payment fails an order.
THEOREM PipelineImplements == Spec => Implements
  <1>1. Init => Lifecycle!Init
    BY DEF Init, Lifecycle!Init, Downstream, Lifecycle!Downstream
  <1>2. LifeInv /\ [Next]_vars => [Lifecycle!Next]_(Lifecycle!vars)
    BY StepMaps
  <1> QED BY <1>1, <1>2, LifeInvariance, PTL DEF Spec, Implements, Lifecycle!Spec

-----------------------------------------------------------------------------
(* What the end of an order says of it                                       *)

\* The states past the payment, past the restaurant and past the courier.
Paid     == {"confirmed", "preparing", "ready", "out_for_delivery", "delivered"}
Prepared == {"preparing", "ready", "out_for_delivery", "delivered"}
Fetched  == {"out_for_delivery", "delivered"}

\* A service has acted for an order only after the one before it has succeeded.
ServedInTurn ==
    \A o \in Order :
        /\ ledger[o]["restaurant"] # "none" => ledger[o]["payment"] = "ok"
        /\ ledger[o]["courier"] # "none" => ledger[o]["restaurant"] = "ok"

\* What makes this and EndTells inductive: where an order has been, its services have succeeded; where
\* it has not, they have not acted; and it ends from where it may.
StagesOK(o) ==
    /\ \A x \in Paid : Reached(o, x) => ledger[o]["payment"] = "ok"
    /\ \A x \in Prepared : Reached(o, x) => ledger[o]["restaurant"] = "ok"
    /\ \A x \in Fetched : Reached(o, x) => ledger[o]["courier"] = "ok"
    /\ ledger[o]["restaurant"] # "none" => Reached(o, "confirmed")
    /\ ledger[o]["courier"] # "none" => Reached(o, "ready")
    /\ orders[o] \in {"absent", "placed", "failed"} => \A x \in Paid : ~Reached(o, x)
    /\ orders[o] \in {"confirmed", "preparing", "cancelled"} =>
           \A x \in {"ready"} \cup Fetched : ~Reached(o, x)
    /\ orders[o] = "failed" => ledger[o]["payment"] = "declined"

\* After a move an order has been where it was and where it is.
LEMMA MoveReaches ==
    ASSUME TypeOK, NEW o \in Order, NEW from \in Active, NEW to \in State, Move(o, from, to),
           NEW x \in State
    PROVE  Reached(o, x)' <=> x = to \/ Reached(o, x)
  <1>1. /\ Len(transitions[o]) \in Nat /\ DOMAIN transitions[o] = 1 .. Len(transitions[o])
        /\ DOMAIN transitions'[o] = 1 .. Len(transitions[o]) + 1
        /\ \A i \in 1 .. Len(transitions[o]) : transitions'[o][i] = transitions[o][i]
        /\ transitions'[o][Len(transitions[o]) + 1] = [from |-> from, to |-> to]
        /\ orders[o] = from /\ orders'[o] = to
    BY MoveLog
  <1>2. ASSUME x = to \/ Reached(o, x) PROVE Reached(o, x)'
    <2>1. CASE x = to
      BY <1>1, <2>1 DEF Reached
    <2>2. CASE x = from
      BY <1>1, <2>2 DEF Reached
    <2>3. CASE x # from /\ x # to
      BY <1>1, <1>2, <2>3 DEF Reached
    <2> QED BY <2>1, <2>2, <2>3
  <1>3. ASSUME Reached(o, x)' PROVE x = to \/ Reached(o, x)
    <2>1. CASE orders'[o] = x
      BY <1>1, <2>1
    <2>2. ASSUME NEW i \in DOMAIN transitions'[o], transitions'[o][i].from = x PROVE Reached(o, x)
      <3>1. CASE i = Len(transitions[o]) + 1
        BY <1>1, <2>2, <3>1 DEF Reached
      <3>2. CASE i # Len(transitions[o]) + 1
        <4>1. i \in 1 .. Len(transitions[o])
          BY <1>1, <3>2
        <4> QED BY <1>1, <2>2, <4>1 DEF Reached
      <3> QED BY <3>1, <3>2
    <2> QED BY <1>3, <2>1, <2>2 DEF Reached
  <1> QED BY <1>2, <1>3

LEMMA StagesFrame ==
    ASSUME NEW o \in Order, StagesOK(o), orders'[o] = orders[o], transitions'[o] = transitions[o],
           ledger'[o] = ledger[o]
    PROVE  StagesOK(o)'
  BY DEF StagesOK, Reached

LEMMA StagesStep ==
    ASSUME LifeInv, \A o \in Order : StagesOK(o), [Next]_vars, NEW o \in Order
    PROVE  StagesOK(o)'
  <1> DEFINE Same(x) == orders'[x] = orders[x] /\ transitions'[x] = transitions[x]
                        /\ ledger'[x] = ledger[x]
  <1>1. CASE UNCHANGED <<dbVars, ledger>>
    BY <1>1, StagesFrame DEF dbVars
  <1>2. ASSUME UNCHANGED <<transitions, ledger>>, NEW x \in Order, Seeds(x) PROVE StagesOK(o)'
    <2>1. CASE o # x
      <3>1. Same(o)
        BY <1>2, <2>1 DEF Seeds, LifeInv, IndInv, TypeOK
      <3> QED BY <3>1, StagesFrame
    <2>2. CASE o = x
      <3>1. orders[o] = "absent" /\ orders'[o] = "placed"
        BY <1>2, <2>2 DEF Seeds, LifeInv, IndInv, TypeOK
      <3>2. \A y \in Paid : Reached(o, y)' <=> Reached(o, y)
        BY <1>2, <3>1 DEF Reached, Paid
      <3> QED BY <1>2, <3>1, <3>2 DEF StagesOK, Paid, Prepared, Fetched
    <2> QED BY <2>1, <2>2
  <1>3. ASSUME UNCHANGED ledger, NEW x \in Order, NEW from \in Active, NEW to \in State,
               LawfulMove(x, from, to)
        PROVE  StagesOK(o)'
    <2>1. CASE o # x
      <3>1. Same(o)
        BY <1>3, <2>1, MoveFrame DEF LifeInv, IndInv, LawfulMove
      <3> QED BY <3>1, StagesFrame
    <2>2. CASE o = x
      <3>1. orders[o] = from /\ orders'[o] = to
        BY <1>3, <2>2 DEF LifeInv, IndInv, TypeOK, LawfulMove, Move
      <3>2. \A y \in State : Reached(o, y)' <=> y = to \/ Reached(o, y)
        BY <1>3, <2>2, MoveReaches DEF LifeInv, IndInv, LawfulMove
      <3>3. Reached(o, from) /\ StagesOK(o)
        BY <3>1 DEF Reached
      <3>4. /\ to \in Allowed[from]
            /\ to \in Active \cup {"delivered"} => (Calls(from) => ledger[o][StageDownstream[from]] = "ok")
            /\ to = "cancelled" => from \in Cancellable
            /\ to = "failed" => from = "placed" /\ ledger[o]["payment"] = "declined"
        BY <1>3, <2>2 DEF LawfulMove, StageDownstream
      <3>5. CASE to = "cancelled"
        BY <1>3, <3>1, <3>2, <3>3, <3>4, <3>5
        DEF StagesOK, Paid, Prepared, Fetched, State, Cancellable
      <3>6. CASE to = "failed"
        BY <1>3, <3>1, <3>2, <3>3, <3>4, <3>6 DEF StagesOK, Paid, Prepared, Fetched, State
      <3>7. CASE to \notin {"cancelled", "failed"}
        <4>1. \/ from = "placed" /\ to = "confirmed" /\ ledger[o]["payment"] = "ok"
              \/ from = "confirmed" /\ to = "preparing" /\ ledger[o]["restaurant"] = "ok"
              \/ from = "preparing" /\ to = "ready"
              \/ from = "ready" /\ to = "out_for_delivery" /\ ledger[o]["courier"] = "ok"
              \/ from = "out_for_delivery" /\ to = "delivered"
          BY <3>4, <3>7 DEF Allowed, Active, State, Terminal, Calls, StageDownstream
        <4> QED BY <1>3, <3>1, <3>2, <3>3, <4>1 DEF StagesOK, Paid, Prepared, Fetched, State
      <3> QED BY <3>5, <3>6, <3>7
    <2> QED BY <2>1, <2>2
  <1>4. ASSUME UNCHANGED dbVars, NEW x \in Order, NEW d \in Downstream, Serve(x, d)
        PROVE  StagesOK(o)'
    <2>1. PICK outcome \in {"ok", "declined"} :
              /\ ledger' = [ledger EXCEPT ![x][d] = outcome] /\ (outcome = "declined" => d = "payment")
      BY <1>4 DEF Serve
    <2>2. ledger[x][d] = "none" /\ \E from \in Active : /\ Calls(from) /\ StageDownstream[from] = d
                                                        /\ Reached(x, from)
      BY <1>4 DEF Serve, LifeInv, Admitted
    <2>3. CASE o # x
      <3>1. Same(o)
        BY <1>4, <2>1, <2>3 DEF LifeInv, IndInv, TypeOK, dbVars
      <3> QED BY <3>1, StagesFrame
    <2>4. CASE o = x
      <3>1. /\ ledger'[o][d] = outcome /\ \A e \in Downstream \ {d} : ledger'[o][e] = ledger[o][e]
        BY <2>1, <2>4 DEF LifeInv, IndInv, TypeOK
      <3>2. /\ d = "restaurant" => Reached(o, "confirmed")
            /\ d = "courier" => Reached(o, "ready")
        BY <2>2, <2>4 DEF Calls, StageDownstream
      <3>3. /\ \A y \in State : Reached(o, y)' <=> Reached(o, y)
            /\ orders'[o] = orders[o]
        BY <1>4 DEF dbVars, Reached
      <3>4. StagesOK(o)
        OBVIOUS
      <3>5. ledger[o][d] = "none"
        BY <2>2, <2>4
      <3> USE DEF StagesOK, Paid, Prepared, Fetched, State, Downstream
      <3>6. CASE d = "payment"
        BY <3>1, <3>3, <3>4, <3>5, <3>6
      <3>7. CASE d = "restaurant"
        <4>1. outcome = "ok"
          BY <2>1, <3>7
        <4> QED BY <3>1, <3>2, <3>3, <3>4, <3>5, <3>7, <4>1
      <3>8. CASE d = "courier"
        <4>1. outcome = "ok"
          BY <2>1, <3>8
        <4> QED BY <3>1, <3>2, <3>3, <3>4, <3>5, <3>8, <4>1
      <3> QED BY <3>6, <3>7, <3>8
    <2> QED BY <2>3, <2>4
  <1> QED BY <1>1, <1>2, <1>3, <1>4, OrderStep DEF dbVars

\* Under every crash, redelivery, retry and race of handlers, what the services have on
\* record agrees with where their orders have been.
THEOREM StagesInvariance == Spec => []\A o \in Order : StagesOK(o)
  <1>1. Init => \A o \in Order : StagesOK(o)
    <2> SUFFICES ASSUME Init, NEW o \in Order PROVE StagesOK(o)
      OBVIOUS
    <2>1. /\ orders[o] = "absent" /\ transitions[o] = << >>
          /\ \A d \in Downstream : ledger[o][d] = "none"
      BY DEF Init
    <2>2. \A x \in State : ~Reached(o, x)
      BY <2>1 DEF Reached, State
    <2> QED BY <2>1, <2>2 DEF StagesOK, Paid, Prepared, Fetched, State, Downstream
  <1>2. LifeInv /\ (\A o \in Order : StagesOK(o)) /\ [Next]_vars => (\A o \in Order : StagesOK(o))'
    BY StagesStep
  <1> QED BY <1>1, <1>2, LifeInvariance, PTL DEF Spec

\* Nothing is prepared that is not paid, and no courier is sent for what is not prepared.
THEOREM ServicesInTurn == Spec => []ServedInTurn
  <1>1. (\A o \in Order : StagesOK(o)) => ServedInTurn
    BY DEF StagesOK, ServedInTurn, Paid, Prepared
  <1> QED BY <1>1, StagesInvariance, PTL

\* No courier is sent for a cancelled order and nothing done for a failed one, and a
\* delivered order has been paid, prepared and fetched.
THEOREM EndsAreTrue == Spec => []EndTells
  <1>1. (\A o \in Order : StagesOK(o)) => EndTells
    <2> SUFFICES ASSUME NEW o \in Order, StagesOK(o)
                 PROVE  /\ orders[o] = "delivered" => \A d \in Downstream : ledger[o][d] = "ok"
                        /\ orders[o] = "cancelled" => ledger[o]["courier"] = "none"
                        /\ orders[o] = "failed" => /\ ledger[o]["payment"] = "declined"
                                                   /\ ledger[o]["restaurant"] = "none"
                                                   /\ ledger[o]["courier"] = "none"
      BY DEF EndTells
    <2>1. orders[o] = "delivered" => Reached(o, "delivered")
      BY DEF Reached
    <2> QED BY <2>1 DEF StagesOK, Paid, Prepared, Fetched, Downstream
  <1> QED BY <1>1, StagesInvariance, PTL

-----------------------------------------------------------------------------
(* The log                                                                   *)

LEMMA LogStep == ASSUME LifeInv, LogInv, [Next]_vars PROVE LogInv'
  <1> DEFINE Claims(o) == {op \in operations : op[1] = o}
             PathOK(o) ==
                 LET log == transitions[o]
                 IN  /\ \A i \in DOMAIN log :
                            /\ log[i].from = IF i = 1 THEN "placed" ELSE log[i - 1].to
                            /\ log[i].to \in Allowed[log[i].from]
                            /\ Op(o, log[i].from, log[i].to) \in operations
                     /\ log # << >> => orders[o] = log[Len(log)].to
                     /\ Len(log) = Cardinality(Claims(o))
                     /\ log = << >> => orders[o] \in {"absent", "placed"}
                     /\ IsFiniteSet(Claims(o))
  <1>0. TypeOK /\ \A o \in Order : PathOK(o)
    BY DEF LifeInv, IndInv, LogInv, TransitionLogIsPath
  <1>1. SUFFICES ASSUME NEW x \in Order PROVE PathOK(x)'
    BY DEF LogInv, TransitionLogIsPath
  <1>2. CASE UNCHANGED dbVars
    BY <1>0, <1>2 DEF dbVars
  <1>3. ASSUME UNCHANGED <<transitions, operations>>, NEW o \in Order, Seeds(o)
        PROVE  PathOK(x)'
    <2>1. CASE x # o
      <3>1. orders'[x] = orders[x]
        BY <1>0, <1>3, <2>1 DEF Seeds, TypeOK
      <3> QED BY <1>0, <1>3, <3>1
    <2>2. CASE x = o
      <3>1. transitions[o] = << >>
        <4>1. transitions[o] # << >> => transitions[o][Len(transitions[o])].to \in State
          <5>1. transitions[o] \in Seq([from : State, to : State])
            BY <1>0 DEF TypeOK
          <5>2. transitions[o] # << >> => transitions[o][Len(transitions[o])] \in [from : State, to : State]
            BY <5>1, LogLast
          <5> QED BY <5>2
        <4> QED BY <1>0, <1>3, <4>1 DEF Seeds, State
      <3>2. orders'[o] = "placed"
        BY <1>0, <1>3 DEF Seeds, TypeOK
      <3> QED BY <1>0, <1>3, <2>2, <3>1, <3>2
    <2> QED BY <2>1, <2>2
  <1>4. ASSUME NEW o \in Order, NEW from \in Active, NEW to \in State, LawfulMove(o, from, to)
        PROVE  PathOK(x)'
    <2>0. Move(o, from, to) /\ to \in Allowed[from]
      BY <1>4 DEF LawfulMove
    <2>1. operations' = operations \cup {<<o, from, to>>} /\ <<o, from, to>> \notin operations
      BY <2>0 DEF Move, Op
    <2>2. CASE x # o
      <3>1. transitions'[x] = transitions[x] /\ orders'[x] = orders[x]
        BY <1>0, <2>0, <2>2, MoveFrame
      <3>2. Claims(x)' = Claims(x)
        BY <2>1, <2>2
      <3>3. PathOK(x)
        BY <1>0
      <3>4. operations \subseteq operations'
        BY <2>1
      <3> HIDE DEF Claims
      <3> QED BY <3>1, <3>2, <3>3, <3>4
    <2>3. CASE x = o
      <3> DEFINE log == transitions[o]
                 n   == Len(log)
      <3>1. /\ n \in Nat /\ DOMAIN log = 1 .. n /\ (log = << >> <=> n = 0)
            /\ DOMAIN transitions'[o] = 1 .. n + 1 /\ Len(transitions'[o]) = n + 1
            /\ transitions'[o] # << >>
            /\ \A i \in 1 .. n : transitions'[o][i] = log[i]
            /\ transitions'[o][n + 1] = [from |-> from, to |-> to]
            /\ orders[o] = from /\ orders'[o] = to
        BY <1>0, <2>0, MoveLog
      <3>2. PathOK(o)
        BY <1>0
      <3> HIDE DEF n, log
      <3>3. from = IF n + 1 = 1 THEN "placed" ELSE log[n].to
        BY <3>1, <3>2 DEF Active, Terminal, State, log, n
      <3>4. ASSUME NEW i \in 1 .. n + 1
            PROVE  LET after == transitions'[o] IN
                   /\ after[i].from = IF i = 1 THEN "placed" ELSE after[i - 1].to
                   /\ after[i].to \in Allowed[after[i].from]
                   /\ Op(o, after[i].from, after[i].to) \in operations'
        <4>1. CASE i = n + 1
          <5>1. i # 1 => transitions'[o][i - 1] = log[n]
            BY <3>1, <4>1
          <5> QED BY <2>0, <2>1, <3>1, <3>3, <4>1, <5>1 DEF Op
        <4>2. CASE i \in 1 .. n
          <5>1. /\ log[i].from = IF i = 1 THEN "placed" ELSE log[i - 1].to
                /\ log[i].to \in Allowed[log[i].from]
                /\ Op(o, log[i].from, log[i].to) \in operations
            BY <3>1, <3>2, <4>2 DEF log
          <5>2. transitions'[o][i] = log[i] /\ (i # 1 => transitions'[o][i - 1] = log[i - 1])
            BY <3>1, <4>2
          <5> QED BY <2>1, <5>1, <5>2
        <4> QED BY <3>1, <4>1, <4>2
      <3>5. /\ Len(transitions'[o]) = Cardinality(Claims(o)') /\ IsFiniteSet(Claims(o)')
        <4>1. Claims(o)' = Claims(o) \cup {<<o, from, to>>} /\ <<o, from, to>> \notin Claims(o)
          BY <2>1
        <4>2. IsFiniteSet(Claims(o)) /\ Cardinality(Claims(o)) = n
          BY <3>2 DEF log, n
        <4>3. IsFiniteSet(Claims(o)') /\ Cardinality(Claims(o)') = n + 1
          <5> HIDE DEF Claims
          <5> QED BY <4>1, <4>2, FS_AddElement
        <4> QED BY <3>1, <4>3
      <3> QED BY <2>3, <3>1, <3>4, <3>5
    <2> QED BY <2>2, <2>3
  <1> QED BY <1>2, <1>3, <1>4, OrderStep DEF Serve

\* The transitions table of every order is a path of allowed moves from placed to the
\* order's state, and its moves are the claimed operations, one for one.
THEOREM LogIsPath == Spec => []TransitionLogIsPath
  <1>1. Init => LogInv
    BY FS_EmptySet DEF Init, LogInv, TransitionLogIsPath
  <1>2. LifeInv /\ LogInv /\ [Next]_vars => LogInv'
    BY LogStep
  <1>3. LogInv => TransitionLogIsPath
    BY DEF LogInv
  <1> QED BY <1>1, <1>2, <1>3, LifeInvariance, PTL DEF Spec
=============================================================================

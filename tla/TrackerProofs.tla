---------------------------- MODULE TrackerProofs ---------------------------
(***************************************************************************)
(* Proofs about OrderView and Tracker, for every set of orders, every path     *)
(* they may take and any number of ticks in flight: the page is never ahead of  *)
(* the orders, and falls back only where the code cannot tell better. The       *)
(* argument: whatever is read of an order is a state it has been in, and a tick  *)
(* not overtaken has read nothing older than what is shown.                    *)
(***************************************************************************)
EXTENDS Tracker, TLAPS

-----------------------------------------------------------------------------
(* The aggregate status                                                      *)

Read == State \cup {"pending"}

\* What was read of an order that is in state s: s, or a state before it.
Past(v, s) ==
    \/ StateIn(v) = s
    \/ /\ StateIn(v) \in Active
       /\ Rank[StateIn(v)] < Rank[s]

LEMMA StateInType == \A v \in Read : StateIn(v) \in State
BY DEF Read, State, StateIn

LEMMA FlowIsRank ==
    /\ \A s \in FLOW : s \in State /\ flowIdx(s) \in 0..5 /\ Rank[s] = flowIdx(s) + 1
    /\ \A s \in State : Rank[s] \in 1..7
    /\ \A s \in State : s \in FLOW \/ s = "cancelled" \/ s = "failed"
    /\ "failed" \notin FLOW /\ "cancelled" \notin FLOW
    /\ \A s \in State \ FLOW : Rank[s] = 7
BY DEF FLOW, State, Rank, flowIdx

\* A set of states on the way has a least one.
LEMMA LeastState ==
    ASSUME NEW S, S \subseteq FLOW, S # {}
    PROVE  \E s \in S : \A r \in S : flowIdx(s) <= flowIdx(r)
<1>1. \A s \in S : flowIdx(s) \in 0..5
  BY FlowIsRank
<1>2. CASE \E s \in S : flowIdx(s) = 0
  BY <1>1, <1>2
<1>3. CASE (\A s \in S : flowIdx(s) > 0) /\ \E s \in S : flowIdx(s) = 1
  BY <1>1, <1>3
<1>4. CASE (\A s \in S : flowIdx(s) > 1) /\ \E s \in S : flowIdx(s) = 2
  BY <1>1, <1>4
<1>5. CASE (\A s \in S : flowIdx(s) > 2) /\ \E s \in S : flowIdx(s) = 3
  BY <1>1, <1>5
<1>6. CASE (\A s \in S : flowIdx(s) > 3) /\ \E s \in S : flowIdx(s) = 4
  BY <1>1, <1>6
<1>7. CASE (\A s \in S : flowIdx(s) > 4)
  BY <1>1, <1>7
<1>8. QED
  BY <1>1, <1>2, <1>3, <1>4, <1>5, <1>6, <1>7

\* What aggregateStatus makes of a view.
LEMMA Aggregate ==
    ASSUME NEW v \in [Order -> Read]
    PROVE  LET status == aggregateStatus(v) IN
           /\ status \in State
           /\ status = "failed" <=> \E o \in Order : StateIn(v[o]) = "failed"
           /\ status = "cancelled" => \A o \in Order : StateIn(v[o]) = "cancelled"
           /\ status \in FLOW =>
                  /\ \E o \in Order : StateIn(v[o]) = status
                  /\ \A o \in Order : StateIn(v[o]) # "cancelled" =>
                         /\ StateIn(v[o]) \in FLOW
                         /\ flowIdx(status) <= flowIdx(StateIn(v[o]))
<1> DEFINE states_ == {StateIn(v[o]) : o \in DOMAIN v}
           active_ == states_ \ {"cancelled"}
           least   == CHOOSE s \in active_ : \A r \in active_ : flowIdx(s) <= flowIdx(r)
<1>1. DOMAIN v = Order /\ states_ \subseteq State
  BY StateInType
<1>2. aggregateStatus(v) = IF "failed" \in states_ THEN "failed"
                           ELSE IF active_ = {} THEN "cancelled" ELSE least
  BY DEF aggregateStatus
<1>3. CASE "failed" \in states_
  BY <1>1, <1>2, <1>3, FlowIsRank DEF State
<1>4. CASE "failed" \notin states_ /\ active_ = {}
  BY <1>1, <1>2, <1>4, FlowIsRank DEF State
<1>5. CASE "failed" \notin states_ /\ active_ # {}
  <2>1. active_ \subseteq FLOW
    BY <1>1, <1>5, FlowIsRank
  <2>2. least \in active_ /\ \A r \in active_ : flowIdx(least) <= flowIdx(r)
    <3> HIDE DEF active_
    <3>1. QED
      BY <1>5, <2>1, LeastState
  <2>3. aggregateStatus(v) = least
    BY <1>2, <1>5
  <2>4. least \in FLOW
    BY <2>1, <2>2
  <2> HIDE DEF least
  <2>5. QED
    BY <1>1, <1>5, <2>1, <2>2, <2>3, <2>4, FlowIsRank
<1>6. QED
  BY <1>3, <1>4, <1>5

\* The aggregate status of a later view is no earlier.
LEMMA AggregateGrows ==
    ASSUME NEW u \in [Order -> Read], NEW v \in [Order -> State],
           \A o \in Order : Past(u[o], v[o])
    PROVE  Rank[aggregateStatus(u)] <= Rank[aggregateStatus(v)]
<1> DEFINE a == aggregateStatus(u)
           b == aggregateStatus(v)
<1>1. v \in [Order -> Read] /\ \A o \in Order : StateIn(v[o]) = v[o]
  BY DEF Read, StateIn, State
<1>2. \A o \in Order : StateIn(u[o]) \in State /\ v[o] \in State
  BY StateInType
<1>3. /\ a \in State
      /\ a = "failed" <=> \E o \in Order : StateIn(u[o]) = "failed"
      /\ a = "cancelled" => \A o \in Order : StateIn(u[o]) = "cancelled"
      /\ a \in FLOW => \A o \in Order : StateIn(u[o]) # "cancelled" =>
                           /\ StateIn(u[o]) \in FLOW
                           /\ flowIdx(a) <= flowIdx(StateIn(u[o]))
  BY Aggregate
<1>4. /\ b \in State
      /\ b = "failed" <=> \E o \in Order : v[o] = "failed"
      /\ b \in FLOW => \E o \in Order : v[o] = b
  BY <1>1, Aggregate
<1> HIDE DEF a, b
<1>5. CASE b \notin FLOW
  <2>1. Rank[b] = 7 /\ Rank[a] \in 1..7
    BY <1>3, <1>4, <1>5, FlowIsRank
  <2>2. QED
    BY <2>1 DEF a, b
<1>6. CASE b \in FLOW
  <2>1. PICK o \in Order : v[o] = b
    BY <1>4, <1>6
  <2>2. Past(u[o], b)
    BY <2>1
  <2>3. StateIn(u[o]) \in FLOW
    BY <1>6, <2>2, FlowIsRank DEF Past, Active, Terminal, State, FLOW
  <2>4. Rank[StateIn(u[o])] <= Rank[b]
    BY <1>2, <1>4, <2>2, FlowIsRank DEF Past
  <2>5. a \in FLOW
    <3>1. a # "cancelled"
      BY <1>3, <2>3, FlowIsRank
    <3>2. a # "failed"
      <4>1. SUFFICES ASSUME NEW p \in Order, StateIn(u[p]) = "failed" PROVE FALSE
        BY <1>3
      <4>2. v[p] = "failed"
        BY <4>1 DEF Past, Active, Terminal
      <4>3. QED
        BY <1>4, <1>6, <4>2, FlowIsRank
    <3>3. QED
      BY <1>3, <3>1, <3>2, FlowIsRank
  <2>6. flowIdx(a) <= flowIdx(StateIn(u[o]))
    BY <1>3, <2>3, <2>5, FlowIsRank
  <2>7. Rank[a] <= Rank[b]
    BY <1>4, <2>3, <2>4, <2>5, <2>6, FlowIsRank
  <2>8. QED
    BY <2>7 DEF a, b
<1>7. QED
  BY <1>5, <1>6

-----------------------------------------------------------------------------
(* What the stepper makes of a status                                        *)

\* No step is marked that the status has not come to.
LEMMA ReachedIsBehind ==
    ASSUME NEW status \in FLOW
    PROVE  \A s \in reached(status) : s \in FLOW /\ flowIdx(s) <= flowIdx(status)
<1>1. STEPS \subseteq FLOW
  BY DEF STEPS, FLOW
<1>2. \E s \in STEPS : /\ flowIdx(s) <= flowIdx(status)
                       /\ \A r \in STEPS : flowIdx(r) <= flowIdx(status) => flowIdx(r) <= flowIdx(s)
  <2>1. CASE status = "confirmed"
    <3>1. "placed" \in STEPS /\ \A r \in STEPS : flowIdx(r) <= 1 => flowIdx(r) <= flowIdx("placed")
      BY DEF STEPS, FLOW, flowIdx, Rank
    <3>2. flowIdx("confirmed") = 1 /\ flowIdx("placed") = 0
      BY DEF FLOW, flowIdx, Rank
    <3>3. QED
      BY <2>1, <3>1, <3>2
  <2>2. CASE status # "confirmed"
    <3>1. status \in STEPS
      BY <2>2 DEF STEPS, FLOW
    <3>2. flowIdx(status) <= flowIdx(status)
      BY FlowIsRank
    <3>3. QED
      BY <3>1, <3>2
  <2>3. QED
    BY <2>1, <2>2
<1>3. activeStep(status) \in STEPS /\ flowIdx(activeStep(status)) <= flowIdx(status)
  BY <1>2 DEF activeStep
<1>4. \A s \in active(status) : s \in FLOW /\ flowIdx(s) <= flowIdx(status)
  BY <1>1, <1>3 DEF active
<1>5. CASE status = "delivered"
  <2>1. flowIdx(status) = 5
    BY <1>5 DEF FLOW, flowIdx, Rank
  <2>2. ASSUME NEW s \in STEPS PROVE s \in FLOW /\ flowIdx(s) <= 5
    <3>1. s \in FLOW /\ flowIdx(s) \in 0..5
      BY <1>1, FlowIsRank
    <3>2. QED
      BY <3>1
  <2>3. QED
    BY <1>4, <2>1, <2>2 DEF reached, done
<1>6. CASE status # "delivered"
  <2>1. ASSUME NEW s \in done(status) PROVE s \in FLOW /\ flowIdx(s) <= flowIdx(status)
    <3>1. s \in STEPS /\ flowIdx(s) < flowIdx(activeStep(status))
      BY <1>6 DEF done
    <3>2. /\ flowIdx(s) \in 0..5 /\ flowIdx(activeStep(status)) \in 0..5
          /\ flowIdx(status) \in 0..5
      BY <1>1, <1>3, <3>1, FlowIsRank
    <3>3. QED
      BY <1>1, <1>3, <3>1, <3>2
  <2>2. QED
    BY <1>4, <2>1 DEF reached
<1>7. QED
  BY <1>5, <1>6

-----------------------------------------------------------------------------
(* The inductive invariant                                                   *)

Types ==
    /\ states \in [Order -> State] /\ shown \in [Order -> Read]
    /\ view \in [Tick -> [Order -> Read \cup {"unread"}]]
    /\ busy \subseteq Tick /\ late \subseteq busy
    /\ {readable, left, closed, ended, gone} \subseteq BOOLEAN
    /\ timer \in {"unset", "running", "cleared"}
    /\ seen \in {"no", "set", "due"}
    /\ faults \in 0..MaxFaults

\* The reads stay within what an order may be found in.
Staged ==
    \A o \in Order : /\ states[o] \in Stage[o] /\ shown[o] \in Stage[o] \cup {"pending"}
                     /\ \A t \in Tick : view[t][o] \in Stage[o] \cup {"pending", "unread"}

\* What is shown and what is read of an order is in its past.
PastOnly ==
    \A o \in Order : /\ Past(shown[o], states[o])
                     /\ \A t \in Tick : view[t][o] # "unread" => Past(view[t][o], states[o])

\* A tick that no other has overtaken reads nothing older than what is shown.
InOrder ==
    \A t \in busy \ late : \A o \in Order :
        view[t][o] \notin {"unread", "pending"} => Past(shown[o], view[t][o])

\* A tick that is not in flight has read nothing.
IdleUnread == \A t \in Tick \ busy : view[t] = Unread

TrackInv == Types /\ IdleUnread /\ Staged /\ PastOnly /\ InOrder

\* States move on, and what was read of them stays in their past.
LEMMA PastGrows ==
    ASSUME NEW v \in Read, NEW s \in State, NEW t \in State,
           Past(v, s), s \in Active, Rank[s] < Rank[t]
    PROVE  Past(v, t)
<1>1. StateIn(v) \in State
  BY StateInType
<1>2. Rank[StateIn(v)] \in Nat /\ Rank[s] \in Nat /\ Rank[t] \in Nat
  BY <1>1, FlowIsRank
<1>3. QED
  BY <1>2 DEF Past

LEMMA PastSelf == ASSUME NEW s \in State PROVE Past(s, s)
BY DEF Past, StateIn, State

LEMMA PendingPast == ASSUME NEW s \in State PROVE Past("pending", s)
BY DEF Past, StateIn, State, Active, Terminal, Rank

LEMMA InitInv == ASSUME Init PROVE TrackInv
<1>1. PICK lost \in SUBSET Order :
          /\ faults = Cardinality(lost) /\ faults \in 0..MaxFaults
          /\ shown = [o \in Order |-> IF o \in lost THEN "pending" ELSE states[o]]
  BY DEF Init
<1>2. states \in [Order -> State] /\ \A o \in Order : states[o] \in Stage[o]
  BY DEF Init
<1>3. Types
  BY <1>1, <1>2 DEF Init, Types, Read, Unread
<1>4. Staged
  BY <1>1, <1>2 DEF Init, Staged, Unread
<1>5. PastOnly
  BY <1>1, <1>2, PastSelf, PendingPast DEF Init, PastOnly, Unread
<1>6. IdleUnread /\ InOrder
  BY DEF Init, IdleUnread, InOrder, Unread
<1>7. QED
  BY <1>3, <1>4, <1>5, <1>6 DEF TrackInv

-----------------------------------------------------------------------------
(* Each action keeps it                                                      *)

LEMMA MoveInv == ASSUME TrackInv, NEW o \in Order, Move(o) PROVE TrackInv'
<1> USE DEF orderVars, clientVars, closeVars, tickVars
<1>1. PICK to \in Stage[o] : /\ Rank[to] > Rank[states[o]]
                             /\ states' = [states EXCEPT ![o] = to]
  BY DEF Move
<1>2. /\ states[o] \in Active /\ states[o] \in State /\ to \in State
      /\ Rank[states[o]] < Rank[to]
  <2>1. states[o] \in Active /\ states[o] \in State /\ to \in State
    BY TrackerAssumption DEF Move, TrackInv, Types
  <2>2. QED
    BY <1>1, <2>1, FlowIsRank
<1>3. Types' /\ Staged'
  BY <1>1, <1>2 DEF Move, TrackInv, Types, Staged
<1>4. PastOnly'
  <2>1. ASSUME NEW p \in Order PROVE Past(shown[p], states'[p])
    <3>1. Past(shown[p], states[p]) /\ shown[p] \in Read
      BY DEF TrackInv, PastOnly, Types
    <3>2. QED
      BY <1>1, <1>2, <3>1, PastGrows DEF TrackInv, Types
  <2>2. ASSUME NEW p \in Order, NEW t \in Tick, view[t][p] # "unread"
        PROVE  Past(view[t][p], states'[p])
    <3>1. Past(view[t][p], states[p]) /\ view[t][p] \in Read
      BY <2>2 DEF TrackInv, PastOnly, Types
    <3>2. QED
      BY <1>1, <1>2, <3>1, PastGrows DEF TrackInv, Types
  <2>3. QED
    BY <2>1, <2>2 DEF Move, PastOnly
<1>5. IdleUnread' /\ InOrder'
  BY DEF Move, TrackInv, IdleUnread, InOrder, Unread
<1>6. QED
  BY <1>3, <1>4, <1>5 DEF TrackInv

\* Steps that leave the orders, the page and what was read alone.
LEMMA QuietInv ==
    ASSUME TrackInv, Types',
           UNCHANGED <<states, shown, view, late>>, busy \subseteq busy'
    PROVE  TrackInv'
<1>1. Staged' /\ PastOnly'
  BY DEF TrackInv, Staged, PastOnly
<1>2. IdleUnread'
  BY DEF TrackInv, Types, IdleUnread, Unread
<1>3. InOrder'
  <2>1. ASSUME NEW t \in busy' \ late', NEW o \in Order, view'[t][o] \notin {"unread", "pending"}
        PROVE  Past(shown'[o], view'[t][o])
    <3>1. t \in busy \ late
      BY <2>1 DEF TrackInv, Types, IdleUnread, Unread
    <3>2. QED
      BY <2>1, <3>1 DEF TrackInv, InOrder
  <2>2. QED
    BY <2>1 DEF InOrder
<1>4. QED
  BY <1>1, <1>2, <1>3 DEF TrackInv

\* What close() leaves behind.
LEMMA CloseInv ==
    ASSUME TrackInv, Close \/ UNCHANGED closeVars
    PROVE  /\ closed' \in BOOLEAN /\ ended' \in BOOLEAN
           /\ timer' \in {"unset", "running", "cleared"}
<1>1. CASE UNCHANGED closeVars \/ closed
  <2>1. UNCHANGED <<timer, closed, ended>>
    BY <1>1 DEF Close, closeVars
  <2>2. QED
    BY <2>1 DEF TrackInv, Types
<1>2. CASE Close /\ ~closed /\ timer = "unset"
  <2>1. closed' = TRUE /\ UNCHANGED <<timer, ended>>
    BY <1>2 DEF Close
  <2>2. QED
    BY <2>1 DEF TrackInv, Types
<1>3. CASE Close /\ ~closed /\ timer # "unset"
  <2>1. closed' = TRUE /\ timer' = "cleared" /\ ended' = TRUE
    BY <1>3 DEF Close
  <2>2. QED
    BY <2>1 DEF TrackInv, Types
<1>4. QED
  BY <1>1, <1>2, <1>3

LEMMA FetchInv == ASSUME TrackInv, NEW t \in Tick, NEW o \in Order, fetchOrder(t, o) PROVE TrackInv'
<1> USE DEF orderVars, clientVars, closeVars
<1>1. PICK v \in {states[o], "pending"} : view' = [view EXCEPT ![t][o] = v]
  BY DEF fetchOrder
<1>2. states[o] \in State /\ v \in Read /\ Past(v, states[o]) /\ v \in Stage[o] \cup {"pending"}
  BY <1>1, PastSelf, PendingPast DEF TrackInv, Types, Staged, Read
<1>3. /\ \A u \in Tick, p \in Order : view'[u][p] = IF u = t /\ p = o THEN v ELSE view[u][p]
      /\ view' \in [Tick -> [Order -> Read \cup {"unread"}]]
  <2>1. view \in [Tick -> [Order -> Read \cup {"unread"}]]
    BY DEF TrackInv, Types
  <2>2. ASSUME NEW u \in Tick, NEW p \in Order
        PROVE  view'[u][p] = IF u = t /\ p = o THEN v ELSE view[u][p]
    <3>1. CASE u = t
      BY <1>1, <2>1, <3>1
    <3>2. CASE u # t
      BY <1>1, <2>1, <3>2
    <3>3. QED
      BY <3>1, <3>2
  <2>3. view' \in [Tick -> [Order -> Read \cup {"unread"}]]
    BY <1>1, <1>2, <2>1
  <2>4. QED
    BY <2>2, <2>3
<1>4. Types'
  <2>1. faults' \in 0..MaxFaults
    BY TrackerAssumption DEF fetchOrder, TrackInv, Types
  <2>2. QED
    BY <1>3, <2>1 DEF fetchOrder, TrackInv, Types
<1>5. Staged' /\ PastOnly'
  BY <1>2, <1>3 DEF fetchOrder, TrackInv, Staged, PastOnly
<1>6. InOrder'
  <2>1. Past(shown[o], states[o])
    BY DEF TrackInv, PastOnly
  <2>2. QED
    BY <1>1, <1>3, <2>1 DEF fetchOrder, TrackInv, InOrder
<1>7. IdleUnread'
  BY DEF fetchOrder, TrackInv, Types, IdleUnread, Unread
<1>8. QED
  BY <1>4, <1>5, <1>6, <1>7 DEF TrackInv

\* The end of a tick: its view is shown, or nothing more is sent.
LEMMA FinishShows ==
    ASSUME TrackInv, NEW t \in Tick, Finish(t)
    PROVE  /\ \/ shown' = shown
              \/ /\ shown' = view[t] /\ shown' \in [Order -> Read]
                 /\ late' = busy \ {t}
           /\ Close \/ UNCHANGED closeVars
           /\ seen' \in {"no", "set", "due"}
<1>1. CASE readable
  <2>1. (\A o \in Order : view[t][o] # "unread") /\ Deliver(view[t])
    BY <1>1 DEF Finish
  <2>2. view[t] \in [Order -> Read]
    BY <2>1 DEF TrackInv, Types
  <2>3. shown' = shown \/ (shown' = view[t] /\ ~(closed \/ gone))
    BY <2>1 DEF Deliver, Send
  <2>4. (Close \/ UNCHANGED closeVars) /\ seen' \in {"no", "set", "due"}
    BY <2>1 DEF Deliver, TrackInv, Types
  <2>5. QED
    BY <2>2, <2>3, <2>4 DEF Finish
<1>2. CASE ~readable
  BY <1>2 DEF Finish, TrackInv, Types
<1>3. QED
  BY <1>1, <1>2

LEMMA FinishInv == ASSUME TrackInv, NEW t \in Tick, Finish(t) PROVE TrackInv'
<1>1. /\ \/ shown' = shown
         \/ shown' = view[t] /\ shown' \in [Order -> Read] /\ late' = busy \ {t}
      /\ Close \/ UNCHANGED closeVars
      /\ seen' \in {"no", "set", "due"}
  BY FinishShows
<1>2. /\ UNCHANGED <<states, readable, left, gone, faults>>
      /\ busy' = busy \ {t} /\ late' \subseteq busy'
      /\ busy' \ late' \subseteq busy \ late
  BY DEF Finish, orderVars, TrackInv, Types
<1>3. view' \in [Tick -> [Order -> Read \cup {"unread"}]]
      /\ \A u \in Tick : view'[u] = IF u = t THEN Unread ELSE view[u]
  BY DEF Finish, TrackInv, Types, Unread
<1>4. Types'
  BY <1>1, <1>2, <1>3, CloseInv DEF TrackInv, Types
<1>5. Staged' /\ PastOnly'
  <2>1. ASSUME NEW o \in Order
        PROVE  shown'[o] \in Stage[o] \cup {"pending"} /\ Past(shown'[o], states[o])
    <3>1. CASE shown' = shown
      BY <3>1 DEF TrackInv, Staged, PastOnly
    <3>2. CASE shown' = view[t] /\ shown' \in [Order -> Read]
      <4>1. view[t][o] # "unread"
        BY <3>2 DEF Read, State
      <4>2. QED
        BY <3>2, <4>1 DEF TrackInv, Staged, PastOnly
    <3>3. QED
      BY <1>1, <3>1, <3>2
  <2>2. QED
    BY <1>2, <1>3, <2>1 DEF TrackInv, Staged, PastOnly, Unread
<1>6. InOrder'
  <2>1. CASE shown' = shown
    BY <1>2, <1>3, <2>1 DEF TrackInv, Types, InOrder, Unread
  <2>2. CASE late' = busy \ {t}
    BY <1>2, <2>2 DEF InOrder
  <2>3. QED
    BY <1>1, <2>1, <2>2
<1>7. IdleUnread'
  BY <1>2, <1>3 DEF TrackInv, IdleUnread, Unread
<1>8. QED
  BY <1>4, <1>5, <1>6, <1>7 DEF TrackInv

\* The other steps of the stream and of the browser.
LEMMA FireInv == ASSUME TrackInv, NEW t \in Tick, Fire(t) PROVE TrackInv'
<1> USE DEF orderVars, clientVars, closeVars
<1>1. Types'
  BY DEF Fire, TrackInv, Types
<1>2. QED
  BY <1>1, QuietInv DEF Fire

LEMMA StartTimerInv == ASSUME TrackInv, StartTimer PROVE TrackInv'
<1> USE DEF orderVars, clientVars, tickVars
<1>1. Types'
  BY DEF StartTimer, TrackInv, Types
<1>2. QED
  BY <1>1, QuietInv DEF StartTimer

LEMMA AgeInv == ASSUME TrackInv, Age PROVE TrackInv'
<1> USE DEF orderVars, clientVars, closeVars
<1>1. Types'
  BY DEF Age, TrackInv, Types
<1>2. QED
  BY <1>1, QuietInv DEF Age

LEMMA AbortInv ==
    ASSUME TrackInv, Abort, left' \in BOOLEAN, faults' \in 0..MaxFaults
    PROVE  TrackInv'
<1> USE DEF orderVars, tickVars
<1>1. /\ closed' \in BOOLEAN /\ ended' \in BOOLEAN
      /\ timer' \in {"unset", "running", "cleared"}
  BY CloseInv DEF Abort
<1>2. Types'
  BY <1>1 DEF Abort, TrackInv, Types
<1>3. QED
  BY <1>1, <1>2, QuietInv DEF Abort

LEMMA ReconnectInv == ASSUME TrackInv, Reconnect PROVE TrackInv'
<1> USE DEF orderVars, clientVars
<1>1. PICK t \in Tick : FirstTick(t)
  BY DEF Reconnect
<1>2. Types'
  BY <1>1 DEF Reconnect, FirstTick, TrackInv, Types, Unread
<1>3. \A u \in Tick : view'[u] = Unread
  BY <1>1 DEF FirstTick
<1>4. \A u \in Tick : \A o \in Order : view'[u][o] = "unread"
  BY <1>3 DEF Unread
<1>5. IdleUnread' /\ InOrder'
  <2>1. busy' \subseteq Tick
    BY <1>1 DEF FirstTick
  <2>2. QED
    BY <1>3, <1>4, <2>1 DEF IdleUnread, InOrder, Unread
<1>6. Staged' /\ PastOnly'
  BY <1>4 DEF Reconnect, TrackInv, Staged, PastOnly
<1>7. QED
  BY <1>2, <1>3, <1>5, <1>6 DEF TrackInv

LEMMA StepInv == ASSUME TrackInv, [Next]_vars PROVE TrackInv'
<1>1. CASE UNCHANGED vars
  BY <1>1 DEF vars, TrackInv, Types, IdleUnread, Staged, PastOnly, InOrder, Unread
<1>2. CASE Leave
  <2>1. left' \in BOOLEAN /\ faults' \in 0..MaxFaults
    BY <1>2 DEF Leave, TrackInv, Types
  <2>2. QED
    BY <1>2, <2>1, AbortInv DEF Leave
<1>3. CASE Disconnect
  <2>1. left' \in BOOLEAN /\ faults' \in 0..MaxFaults
    BY <1>3, TrackerAssumption DEF Disconnect, TrackInv, Types
  <2>2. QED
    BY <1>3, <2>1, AbortInv DEF Disconnect
<1>4. QED
  BY <1>1, <1>2, <1>3, MoveInv, FireInv, FinishInv, FetchInv, StartTimerInv, AgeInv,
     ReconnectInv DEF Next

-----------------------------------------------------------------------------
(* The theorems                                                              *)

\* Whatever ticks overlap, fail or reconnect, what is read and shown of an order lies in
\* its past, and a tick that was not overtaken reads nothing older than what is shown
\* (tick and fetchOrder).
THEOREM TrackInvariance == Spec => []TrackInv
BY InitInv, StepInv, PTL DEF Spec

\* The page and the ticks hold states their orders may be found in.
THEOREM TrackerTypes == Spec => []TypeOK
<1>1. TrackInv => TypeOK
  BY DEF TrackInv, Types, Staged, TypeOK, Read
<1>2. QED
  BY <1>1, TrackInvariance, PTL

\* The page is never ahead of an order of the cart, for any number of orders.
LEMMA PastIsNeverAhead == ASSUME TrackInv PROVE NeverAhead
<1> DEFINE page == composeCartView(shown)
<1>1. /\ shown \in [Order -> Read] /\ states \in [Order -> State]
      /\ \A o \in Order : Past(shown[o], states[o]) /\ StateIn(shown[o]) \in State
  BY StateInType DEF TrackInv, Types, PastOnly
<1>2. /\ page.status = aggregateStatus(shown)
      /\ \A o \in Order : /\ page.fulfillments[o] = KITCHEN_FROM_STATE[StateIn(shown[o])]
                          /\ page.deliveries[o] = DELIVERY_FROM_STATE[StateIn(shown[o])]
  BY <1>1 DEF composeCartView
<1> DEFINE status == page.status
<1>3. /\ status \in State
      /\ status = "failed" <=> \E o \in Order : StateIn(shown[o]) = "failed"
      /\ status = "cancelled" => \A o \in Order : StateIn(shown[o]) = "cancelled"
      /\ status \in FLOW => \A o \in Order : StateIn(shown[o]) # "cancelled" =>
                                /\ StateIn(shown[o]) \in FLOW
                                /\ flowIdx(status) <= flowIdx(StateIn(shown[o]))
  BY <1>1, <1>2, Aggregate
<1> HIDE DEF page, status
<1>4. ASSUME NEW o \in Order, states[o] \in FLOW, ~failedView(status), NEW s \in reached(status)
      PROVE  flowIdx(s) <= flowIdx(states[o])
  <2>1. status \in FLOW
    BY <1>3, <1>4, FlowIsRank DEF failedView
  <2>2. StateIn(shown[o]) # "cancelled"
    BY <1>1, <1>4, FlowIsRank DEF Past, Active, Terminal
  <2>3. StateIn(shown[o]) \in FLOW /\ flowIdx(status) <= flowIdx(StateIn(shown[o]))
    BY <1>3, <2>1, <2>2
  <2>4. Rank[StateIn(shown[o])] <= Rank[states[o]]
    BY <1>1, FlowIsRank DEF Past
  <2>5. s \in FLOW /\ flowIdx(s) <= flowIdx(status)
    BY <1>4, <2>1, ReachedIsBehind
  <2>6. /\ flowIdx(s) \in Nat /\ flowIdx(status) \in Nat /\ flowIdx(states[o]) \in Nat
        /\ flowIdx(StateIn(shown[o])) \in Nat
        /\ flowIdx(StateIn(shown[o])) <= flowIdx(states[o])
    BY <1>4, <2>1, <2>3, <2>4, <2>5, FlowIsRank
  <2>7. QED
    BY <2>3, <2>5, <2>6
<1>5. ASSUME NEW o \in Order, o \in saysReady(page)
      PROVE  Rank[states[o]] >= Rank["ready"]
  <2>1. StateIn(shown[o]) \in {"ready", "out_for_delivery", "delivered"}
    <3>1. KITCHEN_PILL[KITCHEN_FROM_STATE[StateIn(shown[o])]] = "Ready"
      BY <1>2, <1>5 DEF saysReady
    <3>2. ASSUME NEW s \in State, KITCHEN_PILL[KITCHEN_FROM_STATE[s]] = "Ready"
          PROVE  s \in {"ready", "out_for_delivery", "delivered"}
      <4>1. KITCHEN_FROM_STATE[s] \in {"pending", "placed", "preparing", "ready", "failed", "cancelled"}
        BY DEF KITCHEN_FROM_STATE, State
      <4>2. /\ KITCHEN_PILL["pending"] = "Queued" /\ KITCHEN_PILL["placed"] = "Order placed"
            /\ KITCHEN_PILL["preparing"] = "Preparing" /\ KITCHEN_PILL["failed"] = "Failed"
            /\ KITCHEN_PILL["cancelled"] = "Cancelled"
        BY DEF KITCHEN_PILL
      <4>3. KITCHEN_FROM_STATE[s] = "ready"
        BY <3>2, <4>1, <4>2
      <4>4. QED
        BY <4>3 DEF KITCHEN_FROM_STATE, State
    <3>3. QED
      BY <1>1, <3>1, <3>2
  <2>2. Rank[StateIn(shown[o])] >= Rank["ready"] /\ Rank["ready"] \in Nat
    BY <2>1 DEF Rank
  <2>3. Rank[StateIn(shown[o])] <= Rank[states[o]] /\ Rank[StateIn(shown[o])] \in Nat
        /\ Rank[states[o]] \in Nat
    BY <1>1, FlowIsRank DEF Past
  <2>4. QED
    BY <2>2, <2>3
<1>6. ASSUME NEW o \in Order, o \in saysDelivered(page)
      PROVE  states[o] = "delivered"
  <2>1. StateIn(shown[o]) = "delivered"
    BY <1>1, <1>2, <1>6 DEF saysDelivered, DELIVERY_FROM_STATE, State
  <2>2. QED
    BY <1>1, <2>1 DEF Past, Active, Terminal
<1>7. status = "failed" => \E o \in Order : states[o] = "failed"
  BY <1>1, <1>3 DEF Past, Active, Terminal
<1>8. status = "cancelled" => \A o \in Order : states[o] = "cancelled"
  BY <1>1, <1>3 DEF Past, Active, Terminal
<1>9. ASSUME headline(status) = "We hit a snag"
      PROVE  (\E o \in Order : states[o] = "failed") \/ \A o \in Order : states[o] = "cancelled"
  BY <1>7, <1>8, <1>9 DEF headline, failedView
<1>10. ASSUME headline(status) = "Delivered", NEW o \in Order
       PROVE  states[o] \in {"delivered", "cancelled"}
  <2>1. status = "delivered" /\ status \in FLOW
    BY <1>10 DEF headline, FLOW
  <2>2. CASE StateIn(shown[o]) = "cancelled"
    BY <1>1, <2>2 DEF Past, Active, Terminal
  <2>3. CASE StateIn(shown[o]) # "cancelled"
    <3>1. StateIn(shown[o]) \in FLOW /\ flowIdx("delivered") <= flowIdx(StateIn(shown[o]))
      BY <1>3, <2>1, <2>3
    <3>2. StateIn(shown[o]) = "delivered"
      BY <3>1 DEF flowIdx, FLOW, Rank
    <3>3. QED
      BY <1>1, <3>2 DEF Past, Active, Terminal
  <2>4. QED
    BY <2>2, <2>3
<1>11. QED
  BY <1>4, <1>5, <1>6, <1>9, <1>10 DEF NeverAhead, page, status

\* No step is marked, and no row shown, that an order has not come to.
THEOREM PageNeverAhead == Spec => []NeverAhead
BY PastIsNeverAhead, TrackInvariance, PTL

\* A view that falls back was overtaken or lacks an order.
LEMMA StepFallsBackOnlyIf ==
    ASSUME TrackInv, [Next]_vars, Rank[aggregateStatus(shown')] < Rank[aggregateStatus(shown)]
    PROVE  \E t \in busy : /\ shown' = view[t]
                           /\ t \in late \/ \E o \in Order : view[t][o] = "pending"
<1>1. Rank[aggregateStatus(shown)] \in Nat
  BY Aggregate, FlowIsRank DEF TrackInv, Types
<1>2. shown' # shown
  BY <1>1
<1>3. PICK t \in Tick : Finish(t)
  BY <1>2 DEF Next, vars, Move, Fire, fetchOrder, StartTimer, Age, Leave, Disconnect, Abort,
              Reconnect, clientVars
<1>4. /\ t \in busy /\ shown' = view[t] /\ shown' \in [Order -> Read]
  BY <1>2, <1>3, FinishShows DEF Finish
<1>5. ASSUME t \notin late, \A o \in Order : view[t][o] # "pending" PROVE FALSE
  <2>1. view[t] \in [Order -> State]
    BY <1>4, <1>5 DEF Read
  <2>2. \A o \in Order : Past(shown[o], view[t][o])
    <3>1. \A o \in Order : view[t][o] \notin {"unread", "pending"}
      BY <1>5, <2>1 DEF State
    <3>2. QED
      BY <1>4, <1>5, <3>1 DEF TrackInv, InOrder
  <2>3. Rank[aggregateStatus(shown)] <= Rank[aggregateStatus(shown')]
    BY <1>4, <2>1, <2>2, AggregateGrows DEF TrackInv, Types
  <2>4. Rank[aggregateStatus(shown')] \in Nat
    BY <1>4, Aggregate, FlowIsRank
  <2>5. QED
    BY <1>1, <2>3, <2>4
<1>6. QED
  BY <1>4, <1>5

\* The status shown falls back only to a view that was overtaken or could not be
\* read in full.
THEOREM FallsBackOnly == Spec => FallsBackOnlyIf
<1>1. TrackInv /\ [Next]_vars =>
          [Rank[aggregateStatus(shown')] < Rank[aggregateStatus(shown)] =>
               \E t \in busy : /\ shown' = view[t]
                               /\ t \in late \/ \E o \in Order : view[t][o] = "pending"]_vars
  BY StepFallsBackOnlyIf
<1>2. QED
  BY <1>1, TrackInvariance, PTL DEF Spec, FallsBackOnlyIf
=============================================================================

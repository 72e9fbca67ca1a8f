--------------------------- MODULE DashboardProofs --------------------------
(***************************************************************************)
(* Proofs about Dashboard, for any number of downstreams and buttons, any       *)
(* length of the chart and any number of frames on their way and of faults:      *)
(* the page that says "live" has had a snapshot of late, its snapshots come in   *)
(* order but for the first fetch, and its toasts are not cut short.             *)
(***************************************************************************)
EXTENDS Dashboard, SequenceTheorems, TLAPS

-----------------------------------------------------------------------------
(* The inductive invariant                                                   *)

\* The runs of the backend and the messages of the toasts are told apart by the faults
\* that brought them; no timer but that of the toast on show is running.
FaultsNumber ==
    /\ server.run <= faults
    /\ toast <= faults
    /\ timers \subseteq {toast}

\* The frames on their way are in the order they were made in, none of them newer than
\* the backend's snapshot, and, except when the page's came with the first fetch,
\* none older than it.
Ordered(s, t) == ~Before(t, s)

FramesInOrder ==
    /\ \A i \in 1..Len(wire) : Ordered(wire[i], server)
    /\ \A i, j \in 1..Len(wire) : i < j => Ordered(wire[i], wire[j])
    /\ fetch # "shown" => /\ Ordered(snap, server)
                          /\ \A i \in 1..Len(wire) : Ordered(snap, wire[i])

IndInv == TypeOK /\ LiveMeansRecent /\ FaultsNumber /\ FramesInOrder

LEMMA Numbers ==
    /\ HISTORY_LEN \in Nat /\ HISTORY_LEN >= 1 /\ MaxTs \in Nat /\ MaxTs >= 1
    /\ MaxWire \in Nat /\ MaxWire >= 1 /\ STALE \in Nat /\ MaxFaults \in Nat
BY DashboardAssumption

\* Snapshots are in order of their run and, within one, of their ts.
LEMMA OrderedTransitive ==
    ASSUME NEW r \in Snapshot, NEW s \in Snapshot, NEW t \in Snapshot,
           Ordered(r, s), Ordered(s, t)
    PROVE  Ordered(r, t)
BY DEF Snapshot, Ordered, Before

LEMMA OrderedReflexive == ASSUME NEW s \in Snapshot PROVE Ordered(s, s)
BY DEF Snapshot, Ordered, Before

LEMMA EmptySnapshotType ==
    ASSUME NEW run \in 0..MaxFaults PROVE EmptySnapshot(run) \in Snapshot
BY Numbers DEF EmptySnapshot, Snapshot

\* What the page makes of a snapshot: the chart's last point is the one shown, and the
\* chart does not grow beyond its room.
LEMMA ChartShift ==
    ASSUME TypeOK, NEW s \in Snapshot, pushSnapshot(s)
    PROVE  /\ history' \in Seq(Snapshot) /\ Len(history') <= HISTORY_LEN
           /\ history' # <<>> => history'[Len(history')] = s
<1> DEFINE next == Append(history, s)
           first == IF Len(next) > HISTORY_LEN THEN 2 ELSE 1
<1>1. /\ history \in Seq(Snapshot) /\ Len(history) \in Nat /\ Len(history) <= HISTORY_LEN
  BY DEF TypeOK
<1>2. /\ next \in Seq(Snapshot) /\ Len(next) = Len(history) + 1 /\ next[Len(next)] = s
  BY <1>1
<1>3. history' = SubSeq(next, first, Len(next))
  BY DEF pushSnapshot
<1> HIDE DEF next
<1>4. first \in 1..2 /\ first <= Len(next) /\ Len(next) - first + 1 <= HISTORY_LEN
  BY <1>1, <1>2, Numbers
<1> HIDE DEF first
<1>5. /\ history' \in Seq(Snapshot) /\ Len(history') = Len(next) - first + 1
      /\ \A i \in 1..Len(history') : history'[i] = next[first + i - 1]
  BY <1>1, <1>2, <1>3, <1>4, SubSeqProperties
<1>6. Len(history') \in 1..HISTORY_LEN /\ first + Len(history') - 1 = Len(next)
  BY <1>1, <1>2, <1>4, <1>5, Numbers
<1>7. history'[Len(history')] = s
  BY <1>2, <1>5, <1>6
<1>8. QED
  BY <1>5, <1>6, <1>7

LEMMA DashboardInit == ASSUME Init PROVE IndInv
<1>1. EmptySnapshot(0) \in Snapshot
  BY Numbers, EmptySnapshotType
<1>2. server \in Snapshot
  <2>1. CASE server = EmptySnapshot(0)
    BY <1>1, <2>1
  <2>2. CASE server = [run |-> 0, ts |-> 1, down |-> down]
    <3>1. down \in SUBSET Downstream /\ 1 \in 0..MaxTs /\ 0 \in 0..MaxFaults
      BY Numbers DEF Init, EMPTY_SNAPSHOT
    <3>2. QED
      BY <2>2, <3>1 DEF Snapshot
  <2>3. QED
    BY <2>1, <2>2 DEF Init, EMPTY_SNAPSHOT, EmptySnapshot
<1>3. server.run = 0 /\ server.ts \in Nat
  <2>1. server \in {[run |-> 0, ts |-> 0, down |-> {}], [run |-> 0, ts |-> 1, down |-> down]}
    BY DEF Init, EMPTY_SNAPSHOT, EmptySnapshot
  <2>2. QED
    BY <1>2, <2>1 DEF Snapshot
<1>4. TypeOK
  <2>1. history \in Seq(Snapshot) /\ Len(history) = 0 /\ wire \in Seq(Snapshot) /\ Len(wire) = 0
    BY DEF Init, EMPTY_SNAPSHOT
  <2>2. /\ toast \in 0..MaxFaults /\ timers \subseteq 1..MaxFaults /\ since \in 0..Never
        /\ faults \in 0..MaxFaults
    BY Numbers DEF Init, EMPTY_SNAPSHOT, NoToast, Never
  <2>3. /\ conn \in {"connecting", "live", "down"} /\ es \in {"connecting", "open", "closed"}
        /\ fetch \in {"sent", "answered", "shown", "over"} /\ {opened, wedged} \subseteq BOOLEAN
        /\ call \in [Button -> {"idle", "sent", "served"}]
        /\ down \subseteq Downstream /\ {server, snap, reply} \subseteq Snapshot
        /\ poll \in [Downstream -> {"unread", "up", "down"}]
    BY <1>1, <1>2 DEF Init, EMPTY_SNAPSHOT, Unread
  <2>4. QED
    BY <2>1, <2>2, <2>3, Numbers DEF Init, EMPTY_SNAPSHOT, TypeOK
<1>5. LiveMeansRecent
  BY DEF Init, EMPTY_SNAPSHOT, LiveMeansRecent
<1>6. FaultsNumber
  BY <1>3 DEF Init, EMPTY_SNAPSHOT, FaultsNumber, NoToast
<1>7. FramesInOrder
  BY <1>3 DEF Init, EMPTY_SNAPSHOT, FramesInOrder, Ordered, Before, EmptySnapshot
<1>8. QED
  BY <1>4, <1>5, <1>6, <1>7 DEF IndInv

-----------------------------------------------------------------------------
(* The steps                                                                 *)

\* A fault has a number no fault had before.
LEMMA FaultType == ASSUME TypeOK, Fault PROVE faults' \in 1..MaxFaults /\ faults' = faults + 1
BY Numbers DEF TypeOK, Fault

\* What leaves the page, the backend and the stream alone.
LEMMA QuietInv ==
    ASSUME IndInv, TypeOK', faults' >= faults,
           UNCHANGED <<server, snap, conn, since, opened, wire, fetch>>,
           toast' <= faults', timers' \subseteq {toast'}
    PROVE  IndInv'
<1>1. LiveMeansRecent'
  BY DEF IndInv, LiveMeansRecent
<1>2. FaultsNumber'
  BY DEF IndInv, FaultsNumber, TypeOK, Snapshot
<1>3. FramesInOrder'
  BY DEF IndInv, FramesInOrder
<1>4. QED
  BY <1>1, <1>2, <1>3 DEF IndInv

LEMMA ReadInv == ASSUME IndInv, NEW d \in Downstream, Read(d) PROVE IndInv'
<1> USE DEF pageVars, toastVars, fetchVars, streamVars
<1>1. poll' \in [Downstream -> {"unread", "up", "down"}]
  BY DEF Read, IndInv, TypeOK
<1>2. faults' \in faults..MaxFaults
  BY Numbers DEF Read, Fault, IndInv, TypeOK
<1>3. TypeOK'
  BY <1>1, <1>2, Numbers DEF Read, IndInv, TypeOK
<1>4. QED
  BY <1>2, <1>3, QuietInv DEF Read, IndInv, FaultsNumber, TypeOK

LEMMA RefreshInv == ASSUME IndInv, Refresh PROVE IndInv'
<1> DEFINE read == {d \in Downstream : poll[d] = "down"}
<1>1. /\ server' = [server EXCEPT !.ts = IF @ < MaxTs THEN @ + 1 ELSE @, !.down = read]
      /\ read \in SUBSET Downstream
      /\ poll' \in [Downstream -> {"unread", "up", "down"}]
      /\ UNCHANGED <<down, pageVars, toastVars, fetchVars, streamVars, call, faults>>
  BY DEF Refresh, Unread
<1> HIDE DEF read
<1>2. /\ server \in Snapshot /\ snap \in Snapshot
      /\ wire \in Seq(Snapshot)
  BY DEF IndInv, TypeOK
<1>3. /\ server' \in Snapshot /\ server'.run = server.run /\ Ordered(server, server')
  <2> DEFINE ts == IF server.ts < MaxTs THEN server.ts + 1 ELSE server.ts
  <2>1. server.run \in Nat /\ server.ts \in 0..MaxTs /\ server \in Snapshot
    BY <1>2 DEF Snapshot
  <2>2. ts \in 0..MaxTs /\ ts >= server.ts
    BY <2>1, Numbers
  <2>3. server' = [server EXCEPT !.ts = ts, !.down = read]
    BY <1>1
  <2> HIDE DEF ts
  <2>4. server' \in Snapshot /\ server'.run = server.run /\ server'.ts = ts
    BY <1>1, <2>1, <2>2, <2>3 DEF Snapshot
  <2>5. QED
    BY <2>1, <2>2, <2>4, Numbers DEF Ordered, Before
<1>4. TypeOK'
  BY <1>1, <1>3 DEF IndInv, TypeOK, pageVars, toastVars, fetchVars, streamVars
<1>5. LiveMeansRecent' /\ FaultsNumber'
  BY <1>1, <1>3 DEF IndInv, TypeOK, LiveMeansRecent, FaultsNumber, Snapshot, pageVars, toastVars
<1>6. ASSUME NEW t \in Snapshot, Ordered(t, server) PROVE Ordered(t, server')
  BY <1>2, <1>3, <1>6, OrderedTransitive
<1>7. FramesInOrder'
  BY <1>1, <1>2, <1>6 DEF IndInv, FramesInOrder, pageVars, fetchVars, streamVars
<1>8. QED
  BY <1>4, <1>5, <1>7 DEF IndInv

LEMMA WatchdogInv == ASSUME IndInv, Watchdog PROVE IndInv'
<1>1. since' \in 0..Never /\ conn' \in {"connecting", "live", "down"}
  BY Numbers DEF IndInv, TypeOK, Watchdog, Never
<1>2. TypeOK'
  BY <1>1 DEF IndInv, TypeOK, Watchdog, backVars, toastVars, fetchVars, streamVars
<1>3. LiveMeansRecent'
  BY Numbers DEF IndInv, TypeOK, LiveMeansRecent, Watchdog, Never
<1>4. FaultsNumber' /\ FramesInOrder'
  BY DEF IndInv, FaultsNumber, FramesInOrder, Watchdog, backVars, toastVars, fetchVars, streamVars
<1>5. QED
  BY <1>2, <1>3, <1>4 DEF IndInv

LEMMA FetchInv == ASSUME IndInv, fetchSnapshot PROVE IndInv'
<1>1. EmptySnapshot(0) \in Snapshot /\ reply \in Snapshot
  BY Numbers, EmptySnapshotType DEF IndInv, TypeOK
<1>2. reply' = EmptySnapshot(0) /\ UNCHANGED <<backVars, toastVars, streamVars, call>>
  BY DEF fetchSnapshot
<1>3. CASE pushSnapshot(reply) /\ fetch' = "shown" /\ UNCHANGED faults
  <2>1. /\ history' \in Seq(Snapshot) /\ Len(history') <= HISTORY_LEN
        /\ history' # <<>> => history'[Len(history')] = reply
    BY <1>1, <1>3, ChartShift DEF IndInv
  <2>2. snap' = reply /\ since' = 0 /\ conn' = "live" /\ opened' = opened
    BY <1>3 DEF pushSnapshot
  <2>3. TypeOK'
    BY <1>1, <1>2, <1>3, <2>1, <2>2, Numbers
    DEF IndInv, TypeOK, Never, backVars, toastVars, streamVars
  <2>4. LiveMeansRecent' /\ FaultsNumber'
    BY <1>2, <1>3, <2>2, Numbers DEF IndInv, LiveMeansRecent, FaultsNumber, backVars, toastVars
  <2>5. FramesInOrder'
    BY <1>2, <1>3 DEF IndInv, FramesInOrder, backVars, streamVars
  <2>6. QED
    BY <2>3, <2>4, <2>5 DEF IndInv
<1>4. CASE Fault /\ fetch' = "over" /\ fetch = "sent" /\ UNCHANGED pageVars
  <2>1. faults' \in 1..MaxFaults /\ faults' = faults + 1
    BY <1>4, FaultType DEF IndInv
  <2>2. TypeOK'
    BY <1>1, <1>2, <1>4, <2>1 DEF IndInv, TypeOK, pageVars, backVars, toastVars, streamVars
  <2>3. LiveMeansRecent' /\ FaultsNumber'
    BY <1>2, <1>4, <2>1 DEF IndInv, TypeOK, LiveMeansRecent, FaultsNumber, Snapshot,
                            backVars, pageVars, toastVars
  <2>4. FramesInOrder'
    BY <1>2, <1>4 DEF IndInv, FramesInOrder, pageVars, backVars, streamVars
  <2>5. QED
    BY <2>2, <2>3, <2>4 DEF IndInv
<1>5. QED
  BY <1>3, <1>4 DEF fetchSnapshot

LEMMA AnswerInv == ASSUME IndInv, Answer PROVE IndInv'
<1>1. TypeOK'
  BY DEF IndInv, TypeOK, Answer, backVars, pageVars, toastVars, streamVars
<1>2. LiveMeansRecent' /\ FaultsNumber' /\ FramesInOrder'
  BY DEF IndInv, LiveMeansRecent, FaultsNumber, FramesInOrder, Answer,
         backVars, pageVars, toastVars, streamVars
<1>3. QED
  BY <1>1, <1>2 DEF IndInv

LEMMA OpenInv == ASSUME IndInv, onopen PROVE IndInv'
<1>1. /\ server \in Snapshot /\ wire' = <<server>> /\ wire' \in Seq(Snapshot)
      /\ Len(wire') = 1 /\ wire'[1] = server
  BY DEF IndInv, TypeOK, onopen
<1>2. TypeOK'
  BY <1>1, Numbers DEF IndInv, TypeOK, onopen, backVars, toastVars, fetchVars
<1>3. LiveMeansRecent' /\ FaultsNumber'
  BY DEF IndInv, LiveMeansRecent, FaultsNumber, onopen, backVars, toastVars
<1>4. FramesInOrder'
  <2>1. server' = server /\ snap' = snap /\ fetch' = fetch
    BY DEF onopen, backVars, fetchVars
  <2>2. \A i \in 1..Len(wire') : i = 1
    BY <1>1
  <2>3. QED
    BY <1>1, <2>1, <2>2, OrderedReflexive DEF IndInv, FramesInOrder
<1>5. QED
  BY <1>2, <1>3, <1>4 DEF IndInv

LEMMA PushInv == ASSUME IndInv, Push PROVE IndInv'
<1>1. /\ server \in Snapshot /\ snap \in Snapshot /\ wire \in Seq(Snapshot)
      /\ wire' = Append(wire, server) /\ Len(wire) < MaxWire
  BY DEF IndInv, TypeOK, Push
<1>2. /\ wire' \in Seq(Snapshot) /\ Len(wire') = Len(wire) + 1 /\ Len(wire) \in Nat
      /\ wire'[Len(wire')] = server
      /\ \A i \in 1..Len(wire) : wire'[i] = wire[i]
  BY <1>1
<1>3. TypeOK'
  BY <1>1, <1>2, Numbers DEF IndInv, TypeOK, Push, backVars, pageVars, toastVars, fetchVars
<1>4. LiveMeansRecent' /\ FaultsNumber'
  BY DEF IndInv, LiveMeansRecent, FaultsNumber, Push, backVars, pageVars, toastVars
<1>5. FramesInOrder'
  <2>1. server' = server /\ snap' = snap /\ fetch' = fetch
    BY DEF Push, backVars, pageVars, fetchVars
  <2>2. ASSUME NEW i \in 1..Len(wire')
        PROVE  /\ wire'[i] = server \/ (i \in 1..Len(wire) /\ wire'[i] = wire[i])
               /\ Ordered(wire'[i], server)
    BY <1>1, <1>2, OrderedReflexive DEF IndInv, FramesInOrder
  <2>3. ASSUME NEW i \in 1..Len(wire'), NEW j \in 1..Len(wire'), i < j
        PROVE  Ordered(wire'[i], wire'[j])
    <3>1. i \in 1..Len(wire) /\ wire'[i] = wire[i]
      BY <1>2, <2>3
    <3>2. CASE j \in 1..Len(wire)
      BY <1>2, <2>3, <3>1, <3>2 DEF IndInv, FramesInOrder
    <3>3. CASE wire'[j] = server
      BY <2>2, <3>3
    <3>4. QED
      BY <2>2, <3>2, <3>3
  <2>4. fetch # "shown" =>
            /\ Ordered(snap, server)
            /\ \A i \in 1..Len(wire') : Ordered(snap, wire'[i])
    BY <2>2 DEF IndInv, FramesInOrder
  <2>5. QED
    BY <2>1, <2>2, <2>3, <2>4 DEF FramesInOrder
<1>6. QED
  BY <1>3, <1>4, <1>5 DEF IndInv

LEMMA MessageInv == ASSUME IndInv, onmessage PROVE IndInv'
<1>1. /\ server \in Snapshot /\ wire \in Seq(Snapshot) /\ wire # <<>>
      /\ wire' = Tail(wire) /\ pushSnapshot(Head(wire))
  BY DEF IndInv, TypeOK, onmessage
<1>2. /\ Head(wire) = wire[1] /\ Head(wire) \in Snapshot /\ Len(wire) \in Nat /\ Len(wire) >= 1
      /\ wire' \in Seq(Snapshot) /\ Len(wire') = Len(wire) - 1
      /\ \A i \in 1..Len(wire') : wire'[i] = wire[i + 1] /\ i + 1 \in 1..Len(wire)
  BY <1>1
<1>3. /\ history' \in Seq(Snapshot) /\ Len(history') <= HISTORY_LEN
      /\ history' # <<>> => history'[Len(history')] = Head(wire)
  BY <1>1, <1>2, ChartShift DEF IndInv
<1>4. snap' = Head(wire) /\ since' = 0 /\ conn' = "live" /\ opened' = opened
  BY <1>1 DEF pushSnapshot
<1>5. /\ fetch' \in {"sent", "answered", "shown", "over"}
      /\ UNCHANGED <<backVars, toastVars, reply, es, wedged, call, faults>>
  BY DEF onmessage, IndInv, TypeOK
<1>6. TypeOK'
  BY <1>2, <1>3, <1>4, <1>5, Numbers DEF IndInv, TypeOK, Never, backVars, toastVars
<1>7. LiveMeansRecent' /\ FaultsNumber'
  BY <1>4, <1>5, Numbers DEF IndInv, LiveMeansRecent, FaultsNumber, backVars, toastVars
<1>8. FramesInOrder'
  <2>1. server' = server /\ 1 \in 1..Len(wire)
    BY <1>2, <1>5 DEF backVars
  <2>2. \A i \in 1..Len(wire') : Ordered(wire'[i], server')
    BY <1>2, <2>1 DEF IndInv, FramesInOrder
  <2>3. \A i, j \in 1..Len(wire') : i < j => Ordered(wire'[i], wire'[j])
    <3>1. ASSUME NEW i \in 1..Len(wire'), NEW j \in 1..Len(wire'), i < j
          PROVE  Ordered(wire'[i], wire'[j])
      <4>1. i + 1 < j + 1
        BY <3>1
      <4>2. QED
        BY <1>2, <4>1 DEF IndInv, FramesInOrder
    <3>2. QED
      BY <3>1
  <2>4. Ordered(snap', server')
    BY <1>2, <1>4, <2>1 DEF IndInv, FramesInOrder
  <2>5. \A i \in 1..Len(wire') : Ordered(snap', wire'[i])
    <3>1. ASSUME NEW i \in 1..Len(wire') PROVE Ordered(wire[1], wire[i + 1])
      <4>1. 1 < i + 1
        OBVIOUS
      <4>2. QED
        BY <1>2, <2>1, <4>1 DEF IndInv, FramesInOrder
    <3>2. QED
      BY <1>2, <1>4, <3>1
  <2>6. QED
    BY <2>2, <2>3, <2>4, <2>5 DEF FramesInOrder
<1>9. QED
  BY <1>6, <1>7, <1>8 DEF IndInv

LEMMA BreakInv == ASSUME IndInv, Break PROVE IndInv'
<1>1. /\ conn' = "down" /\ es' \in {"connecting", "closed"} /\ wedged' = FALSE /\ wire' = <<>>
      /\ UNCHANGED <<snap, history, since, opened, fetchVars, down, toastVars, call>>
  BY DEF Break, Restart, onerror
<1>2. faults' \in 1..MaxFaults /\ faults' = faults + 1
  BY FaultType DEF Break, Restart, IndInv
<1>3. server \in Snapshot /\ snap \in Snapshot /\ server.run \in Nat /\ server.run <= faults
      /\ faults \in Nat
  BY DEF IndInv, TypeOK, FaultsNumber, Snapshot
<1>4. server' \in Snapshot /\ server'.run <= faults' /\ Ordered(server, server')
  <2>1. CASE server' = server
    BY <1>2, <1>3, <2>1, OrderedReflexive
  <2>2. CASE server' = EmptySnapshot(server.run + 1)
    <3>1. server.run + 1 \in 0..MaxFaults
      BY <1>2, <1>3, Numbers
    <3>2. server' \in Snapshot /\ server'.run = server.run + 1
      BY <2>2, <3>1, EmptySnapshotType DEF EmptySnapshot
    <3>3. server.run < server'.run /\ server'.run <= faults'
      BY <1>2, <1>3, <3>2
    <3>4. QED
      BY <1>3, <3>2, <3>3 DEF Ordered, Before
  <2>3. QED
    BY <2>1, <2>2 DEF Break, Restart
<1>5. poll' \in [Downstream -> {"unread", "up", "down"}]
  BY DEF Break, Restart, Unread, IndInv, TypeOK
<1>6. wire' \in Seq(Snapshot) /\ Len(wire') = 0 /\ Len(wire') <= MaxWire
  BY <1>1, Numbers
<1>7. TypeOK'
  <2>1. faults' \in 0..MaxFaults
    BY <1>2
  <2>2. QED
    BY <1>1, <1>4, <1>5, <1>6, <2>1 DEF IndInv, TypeOK, fetchVars, toastVars
<1>8. LiveMeansRecent' /\ FaultsNumber'
  BY <1>1, <1>2, <1>4 DEF IndInv, TypeOK, LiveMeansRecent, FaultsNumber, toastVars
<1>9. FramesInOrder'
  BY <1>1, <1>3, <1>4, <1>6, OrderedTransitive DEF IndInv, FramesInOrder, fetchVars
<1>10. QED
  BY <1>7, <1>8, <1>9 DEF IndInv

\* The steps that touch neither snapshots nor frames.
LEMMA OtherInv ==
    ASSUME IndInv,
           \/ \E d \in Downstream : Elsewhere(d)
           \/ \E msg \in 1..MaxFaults : ToastTimer(msg)
           \/ Wedge
           \/ \E b \in Button : handle(b) \/ control(b) \/ Answered(b)
    PROVE  IndInv'
<1> USE DEF backVars, pageVars, toastVars, fetchVars, streamVars
<1>1. ASSUME NEW d \in Downstream, Elsewhere(d) PROVE IndInv'
  <2>1. TypeOK'
    BY <1>1 DEF Elsewhere, IndInv, TypeOK
  <2>2. QED
    BY <1>1, <2>1, QuietInv DEF Elsewhere, IndInv, FaultsNumber, TypeOK
<1>2. ASSUME NEW msg \in 1..MaxFaults, ToastTimer(msg) PROVE IndInv'
  <2>1. TypeOK' /\ toast' = 0 /\ timers' = {}
    BY <1>2, Numbers DEF ToastTimer, NoToast, IndInv, TypeOK, FaultsNumber
  <2>2. QED
    BY <1>2, <2>1, QuietInv DEF ToastTimer, IndInv, TypeOK
<1>3. ASSUME Wedge PROVE IndInv'
  <2>1. faults' \in faults..MaxFaults
    BY <1>3, Numbers DEF Wedge, Fault, IndInv, TypeOK
  <2>2. TypeOK'
    BY <1>3, <2>1, Numbers DEF Wedge, IndInv, TypeOK
  <2>3. QED
    BY <1>3, <2>1, <2>2, QuietInv DEF Wedge, IndInv, FaultsNumber, TypeOK
<1>4. ASSUME NEW b \in Button, handle(b) PROVE IndInv'
  <2>1. TypeOK'
    BY <1>4 DEF handle, IndInv, TypeOK
  <2>2. QED
    BY <1>4, <2>1, QuietInv DEF handle, IndInv, FaultsNumber, TypeOK
<1>5. ASSUME NEW b \in Button, control(b) PROVE IndInv'
  <2>1. down' \subseteq Downstream
    BY <1>5 DEF control, Button, IndInv, TypeOK
  <2>2. TypeOK'
    BY <1>5, <2>1 DEF control, IndInv, TypeOK
  <2>3. QED
    BY <1>5, <2>2, QuietInv DEF control, IndInv, FaultsNumber, TypeOK
<1>6. ASSUME NEW b \in Button, Answered(b) PROVE IndInv'
  <2>1. /\ call' \in [Button -> {"idle", "sent", "served"}]
        /\ UNCHANGED <<backVars, pageVars, fetchVars, streamVars>>
    BY <1>6 DEF Answered, IndInv, TypeOK
  <2>2. CASE UNCHANGED <<toastVars, faults>>
    <3>1. TypeOK'
      BY <2>1, <2>2 DEF IndInv, TypeOK
    <3>2. QED
      BY <2>1, <2>2, <3>1, QuietInv DEF IndInv, FaultsNumber, TypeOK
  <2>3. CASE Fault /\ showError(faults')
    <3>1. /\ faults' \in 1..MaxFaults /\ faults' = faults + 1
          /\ toast' = faults' /\ timers' = {faults'}
      BY <2>3, FaultType DEF showError, IndInv, FaultsNumber
    <3>2. TypeOK'
      BY <2>1, <3>1 DEF IndInv, TypeOK
    <3>3. QED
      BY <2>1, <3>1, <3>2, QuietInv DEF IndInv, TypeOK
  <2>4. QED
    BY <1>6, <2>2, <2>3 DEF Answered
<1>7. QED
  BY <1>1, <1>2, <1>3, <1>4, <1>5, <1>6

LEMMA DashboardStep == ASSUME IndInv, [Next]_vars PROVE IndInv'
<1>1. CASE UNCHANGED vars
  BY <1>1 DEF vars, backVars, pageVars, toastVars, fetchVars, streamVars,
              IndInv, TypeOK, LiveMeansRecent, FaultsNumber, FramesInOrder
<1>2. CASE Next
  BY <1>2, ReadInv, RefreshInv, WatchdogInv, FetchInv, AnswerInv, OpenInv, PushInv, MessageInv, BreakInv,
     OtherInv DEF Next
<1>3. QED
  BY <1>1, <1>2

\* What holds of the page, its stream and its backend at every moment.
THEOREM DashboardInvariance == Spec => []IndInv
BY DashboardInit, DashboardStep, PTL DEF Spec

-----------------------------------------------------------------------------
(* What the operator may rely on                                             *)

\* The page's state keeps its ranges, and the chart its length, ending with the
\* snapshot on show, whatever the number of frames, buttons and faults.
THEOREM DashboardTypes == Spec => []TypeOK
<1>1. IndInv => TypeOK
  BY DEF IndInv
<1>2. QED
  BY <1>1, DashboardInvariance, PTL

\* "Live" means a snapshot within STALE_MS, or a stream just opened, or no snapshot yet.
THEOREM LiveIsRecent == Spec => []LiveMeansRecent
<1>1. IndInv => LiveMeansRecent
  BY DEF IndInv
<1>2. QED
  BY <1>1, DashboardInvariance, PTL

\* No message of the stream is older than what the page shows, unless that is of the
\* first fetch: only such a step goes back.
THEOREM StreamGoesForward == Spec => OnlyFetchGoesBack
<1> DEFINE Step == Before(snap', snap) => fetch = "shown" \/ fetch' = "shown"
<1>1. ASSUME IndInv, [Next]_vars, fetch # "shown", fetch' # "shown" PROVE ~Before(snap', snap)
  <2> USE DEF backVars, pageVars, toastVars, fetchVars, streamVars
  <2>1. snap \in Snapshot
    BY <1>1 DEF IndInv, TypeOK
  <2>2. CASE onmessage
    <3>1. wire \in Seq(Snapshot) /\ wire # <<>> /\ snap' = Head(wire)
      BY <1>1, <2>2 DEF IndInv, TypeOK, onmessage, pushSnapshot
    <3>2. Head(wire) = wire[1] /\ 1 \in 1..Len(wire)
      BY <3>1
    <3>3. QED
      BY <1>1, <3>1, <3>2 DEF IndInv, FramesInOrder, Ordered
  <2>3. CASE UNCHANGED snap
    BY <2>1, <2>3, OrderedReflexive DEF Ordered
  <2>4. CASE UNCHANGED vars
    BY <2>3, <2>4 DEF vars
  <2>5. CASE Refresh \/ Watchdog \/ Answer \/ onopen \/ Push \/ Wedge \/ Break
    BY <2>3, <2>5 DEF Refresh, Watchdog, Answer, onopen, Push, Wedge, Break, Restart, onerror
  <2>6. CASE fetchSnapshot
    BY <1>1, <2>3, <2>6 DEF fetchSnapshot
  <2>7. CASE \/ \E d \in Downstream : Read(d) \/ Elsewhere(d)
             \/ \E msg \in 1..MaxFaults : ToastTimer(msg)
             \/ \E b \in Button : handle(b) \/ control(b) \/ Answered(b)
    BY <2>3, <2>7 DEF Read, Elsewhere, ToastTimer, handle, control, Answered
  <2>8. QED
    BY <1>1, <2>2, <2>4, <2>5, <2>6, <2>7 DEF Next
<1>2. IndInv /\ [Next]_vars => [Step]_vars
  BY <1>1
<1>3. QED
  BY <1>2, DashboardInvariance, PTL DEF Spec, OnlyFetchGoesBack

\* No toast is taken down by the timer of an earlier one, however many requests fail
\* one after the other.
THEOREM ToastsKeepTheirTime == Spec => ToastKeepsItsTime
<1> DEFINE Step == toast # NoToast /\ toast' # toast => toast' > toast \/ toast \in timers \ timers'
<1>1. ASSUME IndInv, [Next]_vars, toast # NoToast, toast' # toast
      PROVE  toast' > toast \/ toast \in timers \ timers'
  <2> USE DEF backVars, pageVars, toastVars, fetchVars, streamVars
  <2>1. ASSUME NEW msg \in 1..MaxFaults, ToastTimer(msg) PROVE toast \in timers \ timers'
    BY <1>1, <2>1 DEF ToastTimer, IndInv, FaultsNumber
  <2>2. ASSUME NEW b \in Button, Answered(b) PROVE toast' > toast
    <3>1. Fault /\ showError(faults')
      BY <1>1, <2>2 DEF Answered
    <3>2. toast' = faults + 1 /\ toast <= faults /\ faults \in Nat /\ toast \in Nat
      BY <1>1, <3>1 DEF Fault, showError, IndInv, FaultsNumber, TypeOK
    <3>3. QED
      BY <3>2
  <2>3. CASE \/ Refresh \/ Watchdog \/ Answer \/ fetchSnapshot \/ onopen \/ Push \/ onmessage
             \/ Wedge \/ Break \/ UNCHANGED vars
    BY <1>1, <2>3 DEF Refresh, Watchdog, Answer, fetchSnapshot, onopen, Push, onmessage, Wedge,
                      Break, Restart, vars
  <2>4. CASE \/ \E d \in Downstream : Read(d) \/ Elsewhere(d)
             \/ \E b \in Button : handle(b) \/ control(b)
    BY <1>1, <2>4 DEF Read, Elsewhere, handle, control
  <2>5. QED
    BY <1>1, <2>1, <2>2, <2>3, <2>4 DEF Next
<1>2. IndInv /\ [Next]_vars => [Step]_vars
  BY <1>1
<1>3. QED
  BY <1>2, DashboardInvariance, PTL DEF Spec, ToastKeepsItsTime
=============================================================================

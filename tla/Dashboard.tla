------------------------------ MODULE Dashboard -----------------------------
(***************************************************************************)
(* The operations dashboard: one page of the web app (src/web), its first fetch, *)
(* its event stream and its control buttons, and the backend it talks to         *)
(* (services/dashboard_api), which makes a snapshot of every source each second.  *)
(* A snapshot is told apart by the run of the backend that made it, its ts (0:    *)
(* null) and the downstreams it says are down; its counts are left out.          *)
(***************************************************************************)
EXTENDS Naturals, Sequences, FiniteSets

CONSTANTS
    Downstream,    \* payment, restaurant, courier
    Other,         \* the buttons that no snapshot disables: load modes, DLQ replay
    HISTORY_LEN,   \* points of the chart
    STALE,         \* STALE_MS, in passes of the watchdog
    MaxTs,         \* snapshots of one run that are told apart (bound)
    MaxWire,       \* frames on their way at once (bound)
    MaxFaults      \* what may fail, in all (bound)

ASSUME DashboardAssumption ==
    /\ {HISTORY_LEN, MaxTs, MaxWire} \subseteq Nat \ {0}
    /\ {STALE, MaxFaults} \subseteq Nat

VARIABLES
    down,                         \* the downstreams that are down
    server,                       \* dash.snapshot
    poll,                         \* what the refresh under way has read of each downstream
    snap, history, conn, toast,   \* the page's state; a toast is the fault it tells of
    since,                        \* watchdog passes since lastMsgAt
    opened,                       \* history: the stream has opened since the last pass
    timers,                       \* the toasts whose timer runs
    fetch, reply,                 \* the first fetch ("shown": by the page, as yet), its answer
    es,                           \* readyState of the event stream
    wedged,                       \* its frames are held up, with no error
    wire,                         \* frames on their way
    call,                         \* of each button: its request
    faults                        \* history: how much has failed

backVars   == <<down, server, poll>>
pageVars   == <<snap, history, conn, since, opened>>
toastVars  == <<toast, timers>>
fetchVars  == <<fetch, reply>>
streamVars == <<es, wedged, wire>>
vars == <<backVars, pageVars, toastVars, fetchVars, streamVars, call, faults>>

Unread == [d \in Downstream |-> "unread"]

Snapshot == [run : 0..MaxFaults, ts : 0..MaxTs, down : SUBSET Downstream]
EmptySnapshot(run) == [run |-> run, ts |-> 0, down |-> {}]
EMPTY_SNAPSHOT == EmptySnapshot(0)    \* the page's own, before any has come
Before(s, t) == s.run < t.run \/ (s.run = t.run /\ s.ts < t.ts)

Never   == STALE + 2     \* lastMsgAt = 0
NoToast == 0
Button  == (Downstream \X {"down", "up"}) \cup Other

TypeOK ==
    /\ down \subseteq Downstream
    /\ {server, snap, reply} \subseteq Snapshot
    /\ poll \in [Downstream -> {"unread", "up", "down"}]
    /\ history \in Seq(Snapshot) /\ Len(history) <= HISTORY_LEN
    /\ history # <<>> => history[Len(history)] = snap
    /\ conn \in {"connecting", "live", "down"}
    /\ toast \in 0..MaxFaults /\ timers \subseteq 1..MaxFaults
    /\ since \in 0..Never
    /\ fetch \in {"sent", "answered", "shown", "over"}
    /\ es \in {"connecting", "open", "closed"}
    /\ {opened, wedged} \subseteq BOOLEAN
    /\ wire \in Seq(Snapshot) /\ Len(wire) <= MaxWire
    /\ call \in [Button -> {"idle", "sent", "served"}]
    /\ faults \in 0..MaxFaults

\* The page is opened, with the backend up for some time or not.
Init ==
    /\ down \in SUBSET Downstream
    /\ server \in {EmptySnapshot(0), [EmptySnapshot(0) EXCEPT !.ts = 1, !.down = down]}
    /\ poll = Unread
    /\ snap = EMPTY_SNAPSHOT /\ history = <<>> /\ conn = "connecting"
    /\ toast = NoToast /\ timers = {}
    /\ since = Never /\ opened = FALSE
    /\ fetch = "sent" /\ reply = EmptySnapshot(0)
    /\ es = "connecting" /\ wedged = FALSE /\ wire = <<>>
    /\ call = [b \in Button |-> "idle"]
    /\ faults = 0

Fault == faults < MaxFaults /\ faults' = faults + 1

-----------------------------------------------------------------------------
(* The backend                                                               *)

\* A refresh reads every source on its own. One that cannot be read has the value
\* of an empty snapshot: not down.
Read(d) ==
    /\ poll[d] = "unread"
    /\ \/ UNCHANGED faults /\ poll' = [poll EXCEPT ![d] = IF d \in down THEN "down" ELSE "up"]
       \/ d \in down /\ Fault /\ poll' = [poll EXCEPT ![d] = "up"]
    /\ UNCHANGED <<down, server, pageVars, toastVars, fetchVars, streamVars, call>>

\* It ends with a snapshot of what was read, which may have changed since.
Refresh ==
    /\ \A d \in Downstream : poll[d] # "unread"
    /\ server' = [server EXCEPT !.ts = IF @ < MaxTs THEN @ + 1 ELSE @,
                               !.down = {d \in Downstream : poll[d] = "down"}]
    /\ poll' = Unread
    /\ UNCHANGED <<down, pageVars, toastVars, fetchVars, streamVars, call, faults>>

\* Another page, or a request whose caller has given up on it.
Elsewhere(d) ==
    /\ down' = IF d \in down THEN down \ {d} ELSE down \cup {d}
    /\ UNCHANGED <<server, poll, pageVars, toastVars, fetchVars, streamVars, call, faults>>

\* The backend stops and starts: its snapshot and the refresh under way are gone.
Restart ==
    /\ server' = EmptySnapshot(server.run + 1)
    /\ poll' = Unread

-----------------------------------------------------------------------------
(* The page                                                                  *)

\* Mutant: the chart keeps one point more than there is room for.
pushAll(s) ==
    /\ since' = 0
    /\ conn' = "live"
    /\ snap' = s
    /\ history' = LET next == Append(history, s)
                  IN  SubSeq(next, IF Len(next) > HISTORY_LEN + 1 THEN 2 ELSE 1, Len(next))
    /\ UNCHANGED opened

pushSnapshot(s) ==
    /\ since' = 0
    /\ conn' = "live"
    /\ snap' = s
    /\ history' = LET next == Append(history, s)
                  IN  SubSeq(next, IF Len(next) > HISTORY_LEN THEN 2 ELSE 1, Len(next))
    /\ UNCHANGED opened

\* Mutant: the timer of the toast before is left running.
showErrorOver(msg) ==
    /\ toast' = msg
    /\ timers' = timers \cup {msg}

\* clearTimeout, and a timer for the new toast.
showError(msg) ==
    /\ toast' = msg
    /\ timers' = (timers \ {toast}) \cup {msg}

\* A toast's 4500 ms are over: setToast(null), whichever toast is shown.
ToastTimer(msg) ==
    /\ msg \in timers
    /\ timers' = timers \ {msg}
    /\ toast' = NoToast
    /\ UNCHANGED <<backVars, pageVars, fetchVars, streamVars, call, faults>>

\* Mutant: the watchdog looks at a connection that is still being made.
WatchdogConnecting ==
    /\ since' = IF since <= STALE THEN since + 1 ELSE since
    /\ conn' = IF since' = STALE + 1 /\ conn = "connecting" THEN "down" ELSE conn
    /\ opened' = FALSE
    /\ UNCHANGED <<backVars, snap, history, toastVars, fetchVars, streamVars, call, faults>>

\* A pass of the watchdog, one a second: the last snapshot is more than STALE
\* seconds old at the pass after the STALE-th since it came.
Watchdog ==
    /\ since' = IF since <= STALE THEN since + 1 ELSE since
    /\ conn' = IF since' = STALE + 1 /\ conn = "live" THEN "down" ELSE conn
    /\ opened' = FALSE
    /\ UNCHANGED <<backVars, snap, history, toastVars, fetchVars, streamVars, call, faults>>

-----------------------------------------------------------------------------
(* The first fetch                                                           *)

Answer ==
    /\ fetch = "sent"
    /\ fetch' = "answered" /\ reply' = server
    /\ UNCHANGED <<backVars, pageVars, toastVars, streamVars, call, faults>>

\* An error is swallowed: the stream will fill it in.
fetchSnapshot ==
    /\ \/ /\ fetch = "answered"
          /\ pushSnapshot(reply) /\ fetch' = "shown"
          /\ UNCHANGED faults
       \/ /\ fetch = "sent"
          /\ Fault /\ fetch' = "over"
          /\ UNCHANGED pageVars
    /\ reply' = EmptySnapshot(0)
    /\ UNCHANGED <<backVars, toastVars, streamVars, call>>

-----------------------------------------------------------------------------
(* The event stream                                                          *)

\* Mutant: the stream is primed with an empty snapshot.
onopenEmpty ==
    /\ es = "connecting"
    /\ es' = "open" /\ wire' = <<EmptySnapshot(server.run)>> /\ wedged' = FALSE
    /\ conn' = "live" /\ opened' = TRUE
    /\ UNCHANGED <<backVars, snap, history, since, toastVars, fetchVars, call, faults>>

\* Opened: the backend primes it with its snapshot.
onopen ==
    /\ es = "connecting"
    /\ es' = "open" /\ wire' = <<server>> /\ wedged' = FALSE
    /\ conn' = "live" /\ opened' = TRUE
    /\ UNCHANGED <<backVars, snap, history, since, toastVars, fetchVars, call, faults>>

\* gen(): the snapshot of the moment, each second.
Push ==
    /\ es = "open" /\ Len(wire) < MaxWire
    /\ wire' = Append(wire, server)
    /\ UNCHANGED <<backVars, pageVars, toastVars, fetchVars, es, wedged, call, faults>>

onmessage ==
    /\ es = "open" /\ ~wedged /\ wire # <<>>
    /\ pushSnapshot(Head(wire))
    /\ wire' = Tail(wire)
    /\ fetch' = IF fetch = "shown" THEN "over" ELSE fetch
    /\ UNCHANGED <<backVars, toastVars, reply, es, wedged, call, faults>>

\* A proxy that holds frames up, and lets them go.
Wedge ==
    /\ es = "open"
    /\ IF wedged THEN UNCHANGED faults ELSE Fault
    /\ wedged' = ~wedged
    /\ UNCHANGED <<backVars, pageVars, toastVars, fetchVars, es, wire, call>>

\* The browser connects anew when the network fails or the stream ends, and never
\* again once it is answered with an error status.
onerror(state) ==
    /\ conn' = "down"
    /\ es' = state /\ wedged' = FALSE /\ wire' = <<>>
    /\ UNCHANGED <<snap, history, since, opened, fetchVars>>

\* The stream breaks off, cannot be had, or is refused (a 502 of the proxy); the
\* backend may have been started anew.
Break ==
    /\ es # "closed"
    /\ Fault
    /\ \/ onerror("connecting")
       \/ es = "connecting" /\ onerror("closed")
    /\ \/ UNCHANGED <<server, poll>>
       \/ Restart
    /\ UNCHANGED <<down, toastVars, call>>

-----------------------------------------------------------------------------
(* The control buttons                                                       *)

\* Mutant: Restore is disabled like Break.
disabledAlike(b) == \E d \in Downstream : b \in {<<d, "down">>, <<d, "up">>} /\ d \in snap.down

\* A Break button is disabled by a downstream shown as down, Restore by one that is not.
disabled(b) ==
    \E d \in Downstream : \/ b = <<d, "down">> /\ d \in snap.down
                          \/ b = <<d, "up">> /\ d \notin snap.down

\* A click sends the request, unless one of the button is on its way (busy).
handle(b) ==
    /\ call[b] = "idle" /\ ~disabled(b)
    /\ call' = [call EXCEPT ![b] = "sent"]
    /\ UNCHANGED <<backVars, pageVars, toastVars, fetchVars, streamVars, faults>>

\* _proxy_post: the service does as it is told.
control(b) ==
    /\ call[b] = "sent"
    /\ call' = [call EXCEPT ![b] = "served"]
    /\ down' = IF b \in Other THEN down
               ELSE IF b[2] = "down" THEN down \cup {b[1]} ELSE down \ {b[1]}
    /\ UNCHANGED <<server, poll, pageVars, toastVars, fetchVars, streamVars, faults>>

\* The request is answered, or it fails whether served or not. (The 350 ms of rest
\* that follow are left out: the user may click again at once.)
Answered(b) ==
    /\ \/ call[b] = "served" /\ UNCHANGED <<toastVars, faults>>
       \/ call[b] \in {"sent", "served"} /\ Fault /\ showError(faults')
    /\ call' = [call EXCEPT ![b] = "idle"]
    /\ UNCHANGED <<backVars, pageVars, fetchVars, streamVars>>

Next ==
    \/ Refresh \/ \E d \in Downstream : Read(d) \/ Elsewhere(d)
    \/ Watchdog \/ \E msg \in 1..MaxFaults : ToastTimer(msg)
    \/ Answer \/ fetchSnapshot
    \/ onopen \/ Push \/ onmessage \/ Wedge \/ Break
    \/ \E b \in Button : handle(b) \/ control(b) \/ Answered(b)

Spec == Init /\ [][Next]_vars

\* The refresh loop and the generator run, the browser connects and frames arrive;
\* nobody has to click, no request has to be answered, and a stuck proxy may stay stuck.
Fairness ==
    /\ WF_vars(Refresh \/ \E d \in Downstream : Read(d))
    /\ WF_vars(Push) /\ WF_vars(onopen \/ onmessage)

FairSpec == Spec /\ Fairness

-----------------------------------------------------------------------------
(* Properties                                                                *)

\* A page that says "live" has had a snapshot in the last STALE seconds, or has
\* just opened its stream, whatever answers and errors have come in between:
\* except that a page that has never had a snapshot stays "live".
LiveMeansRecent == conn = "live" => since <= STALE \/ opened \/ since = Never

\* The page goes back to an older snapshot only where the first fetch overtakes
\* frames of the stream or is overtaken by them: reconnections and restarts of the
\* backend, with frames still on their way, bring none.
OnlyFetchGoesBack ==
    [][Before(snap', snap) => fetch = "shown" \/ fetch' = "shown"]_vars

\* A toast stays until its own timer removes it or a later one takes its place,
\* with requests failing while an earlier one's toast is still up.
ToastKeepsItsTime ==
    [][toast # NoToast /\ toast' # toast => toast' > toast \/ toast \in timers \ timers']_vars

\* A downstream that stays down can be restored from the page, although a snapshot
\* may miss that it is down, unless its stream is stuck or was refused.
CanBeRestored ==
    \A d \in Downstream :
        d \in down ~> ~disabled(<<d, "up">>) \/ d \notin down \/ wedged \/ es = "closed"
=============================================================================

-------------------------------- MODULE Startup --------------------------------
(***************************************************************************)
(* The p2p lifecycle (p2p.cpp): start and its sequence (handle_manual_     *)
(* started, handle_hosts_loaded, handle_started), session_seed's seeding   *)
(* join and each seed's connect / blacklist test / registration /          *)
(* handshake / protocol_seed, the run sequence (inbound then outbound      *)
(* session), connect with a handler, and stop in its steps: stopped_ and   *)
(* manual_, the stop subscriber, the pending collections.  Every session   *)
(* starts through session::start, which subscribes handle_stop to p2p      *)
(* stop.  The user may call start, run, connect and stop at any time; a    *)
(* restart (start after stop) is bounded by MaxStarts and MaxStops.        *)
(***************************************************************************)
EXTENDS Naturals, FiniteSets

CONSTANTS
    Seeds,               \* settings_.seeds
    BlockedSeeds,        \* seeds whose resolved authority is blacklisted
    HostPoolCapacity,    \* settings_.host_pool_capacity
    LoadedCounts,        \* host counts hosts_.start() may load from file
    SeedYields,          \* addresses one seed channel may add to the store
    MinimumHostIncrease, \* minimum_host_increase (100)
    MaxStarts,           \* bound on the user's calls of p2p::start
    MaxStops             \* bound on the user's calls of p2p::stop

ASSUME BlockedSeeds \subseteq Seeds /\ HostPoolCapacity \in Nat
ASSUME LoadedCounts \subseteq Nat /\ SeedYields \subseteq Nat
ASSUME MaxStarts \in Nat \ {0} /\ MaxStops \in Nat

None == "none"

\* The sessions p2p attaches; each attach makes a new (stopped) session.
Sessions == {"manual", "seed", "inbound", "outbound"}

VARIABLES
    stopped,      \* p2p::stopped_
    manual,       \* manual_ holds a session (not the null pointer)
    stopSub,      \* stop_subscriber_: "open" or "stopped"
    subs,         \* sessions whose handle_stop is subscribed, not yet invoked
    open,         \* the three pending collections accept stores
    stopPc,       \* where the thread in p2p::stop is, or "idle"
    stops,        \* calls of p2p::stop so far
    starts,       \* calls of p2p::start so far
    cur,          \* the call whose start sequence runs (0: none yet)
    seq,          \* where the start sequence's thread is
    result,       \* result[k]: code passed to start call k's handler, or None
    sessStopped,  \* each current session's session::stopped_
    hosts,        \* hosts_.count() (address_count)
    seedPh,       \* each seed's place in its attempt
    count,        \* invocations of the seeding join handler
    runPc,        \* where the run sequence is: "none", "inbound", "outbound", "done"
    conn          \* the connect(host, port, handler) call:
                  \* "idle", "tested", "answered", "lost"

vars == <<stopped, manual, stopSub, subs, open, stopPc, stops, starts, cur,
          seq, result, sessStopped, hosts, seedPh, count, runPc, conn>>

lifeVars == <<manual, stopSub, subs, open, stopPc, stops, starts, runPc, conn>>

SeedPhases == {"idle", "connecting", "handshaking", "seeding", "counted"}

\* session::start of a new session s (stopped_ is true, so the
\* operation_failed branch is not taken): stopped_ is cleared and
\* handle_stop subscribed to p2p stop; a stopped subscriber invokes it at
\* once with service_stopped, which sets stopped_ again.
SessionStart(s) ==
    IF stopSub = "open"
    THEN /\ sessStopped' = [sessStopped EXCEPT ![s] = FALSE]
         /\ subs' = subs \cup {s}
    ELSE /\ sessStopped' = [sessStopped EXCEPT ![s] = TRUE]
         /\ UNCHANGED subs

\* The store holds at most host_pool_capacity addresses.
Stored(n) == IF hosts + n > HostPoolCapacity THEN HostPoolCapacity
             ELSE hosts + n

\* p2p::handle_started: a stopped p2p answers service_stopped, otherwise
\* the session's code is passed on; the start sequence ends.
Complete(ec) ==
    /\ result' = [result EXCEPT ![cur] = IF stopped THEN "service_stopped" ELSE ec]
    /\ seq' = "done"

\* Mutant: handle_complete succeeds only on a strict increase.
HandleCompleteStrict(h) ==
    Complete(IF h > MinimumHostIncrease THEN "success" ELSE "peer_throttling")

\* session_seed::handle_complete (start_size is 0 whenever seeding runs, so
\* ceiling_add(start_size, minimum_host_increase) is the increase itself).
HandleComplete(h) ==
    Complete(IF h >= MinimumHostIncrease THEN "success" ELSE "peer_throttling")

\* One invocation of the seeding join (synchronizer on_count, created in
\* start_seeding with seeds.size()): the last one calls handle_complete,
\* which reads address_count h.
JoinSeed(s, h) ==
    /\ seedPh' = [seedPh EXCEPT ![s] = "counted"]
    /\ count' = count + 1
    /\ IF count + 1 = Cardinality(Seeds) THEN HandleComplete(h)
       ELSE UNCHANGED <<seq, result>>

\* The p2p constructor: stopped_ true, no manual session, the pending
\* collections open, the subscribers not yet started; nothing called.
Init ==
    /\ stopped = TRUE
    /\ manual = FALSE
    /\ stopSub = "stopped"
    /\ subs = {}
    /\ open = TRUE
    /\ stopPc = "idle"
    /\ stops = 0
    /\ starts = 0
    /\ cur = 0
    /\ seq = "idle"
    /\ result = [k \in 1..MaxStarts |-> None]
    /\ sessStopped = [s \in Sessions |-> TRUE]
    /\ hosts = 0
    /\ seedPh = [s \in Seeds |-> "idle"]
    /\ count = 0
    /\ runPc = "none"
    /\ conn = "idle"

\* p2p::start, up to the start of the manual session.  A running p2p
\* answers operation_failed.  Otherwise threadpool_.join() returns only
\* once the threads of the last stop's shutdown have drained all work (the
\* previous start and run sequences and stop itself have ended); the pool
\* is respawned, stopped_ cleared and both subscribers restarted.  The
\* pending collections are not reopened.
StartCall ==
    /\ starts < MaxStarts
    /\ starts' = starts + 1
    /\ IF ~stopped
       THEN /\ result' = [result EXCEPT ![starts + 1] = "operation_failed"]
            /\ UNCHANGED <<stopped, stopSub, cur, seq>>
       ELSE /\ stopPc = "idle" /\ seq \in {"idle", "done"}
            /\ runPc \in {"none", "done"}
            /\ stopped' = FALSE
            /\ stopSub' = "open"
            /\ cur' = starts + 1
            /\ seq' = "attach"
            /\ UNCHANGED result
    /\ UNCHANGED <<manual, subs, open, stopPc, stops, sessStopped, hosts,
                   seedPh, count, runPc, conn>>

\* p2p::start, continued: manual_ stores a new manual session, which is
\* started (session::start); handle_manual_started runs on a new thread.
StartAttach ==
    /\ seq = "attach"
    /\ manual' = TRUE
    /\ SessionStart("manual")
    /\ seq' = "manual"
    /\ UNCHANGED <<stopped, stopSub, open, stopPc, stops, starts, cur, result,
                   hosts, seedPh, count, runPc, conn>>

\* handle_manual_started, then hosts_.start() and handle_hosts_loaded, each
\* testing stopped_ first; success attaches a new seed session and a new
\* seeding join.
HostsLoaded(ok, h) ==
    /\ seq = "manual"
    /\ IF stopped \/ ~ok THEN
          /\ Complete(IF stopped THEN "service_stopped" ELSE "file_system")
          /\ UNCHANGED <<hosts, sessStopped, seedPh, count>>
       ELSE /\ hosts' = h
            /\ seq' = "seed"
            /\ sessStopped' = [sessStopped EXCEPT !["seed"] = TRUE]
            /\ seedPh' = [s \in Seeds |-> "idle"]
            /\ count' = 0
            /\ UNCHANGED result
    /\ UNCHANGED <<stopped, lifeVars, cur>>

\* session_seed::start: a zero capacity needs no seeding; otherwise
\* session::start, and handle_started runs on a new thread.
SeedSessionStart ==
    /\ seq = "seed"
    /\ IF HostPoolCapacity = 0 THEN
          /\ Complete("success")
          /\ UNCHANGED <<sessStopped, subs>>
       ELSE /\ SessionStart("seed")
            /\ seq' = "seedStarted"
            /\ UNCHANGED result
    /\ UNCHANGED <<stopped, manual, stopSub, open, stopPc, stops, starts, cur,
                   hosts, seedPh, count, runPc, conn>>

\* session_seed::handle_started: seeding is not needed when addresses are
\* cached, fails with no seeds, and otherwise start_seeding begins.
SeedSessionStarted ==
    /\ seq = "seedStarted"
    /\ CASE hosts # 0     -> Complete("success")
         [] Seeds = {}    -> Complete("operation_failed")
         [] OTHER         -> seq' = "seeding" /\ UNCHANGED result
    /\ UNCHANGED <<stopped, lifeVars, cur, sessStopped, hosts, seedPh, count>>

\* start_seed, one loop iteration of start_seeding: a stopped session
\* counts the seed at once (channel_stopped), otherwise a connector is
\* pended (its result ignored) and dials the seed.
StartSeed(s) ==
    /\ seq = "seeding"
    /\ seedPh[s] = "idle"
    /\ IF sessStopped["seed"] THEN JoinSeed(s, hosts)
       ELSE /\ seedPh' = [seedPh EXCEPT ![s] = "connecting"]
            /\ UNCHANGED <<count, seq, result>>
    /\ UNCHANGED <<stopped, lifeVars, cur, sessStopped, hosts>>

\* Mutant: the blacklisted branch returns without calling the handler.
HandleConnectNoBlocked(s, ok) ==
    IF ok /\ s \in BlockedSeeds
    THEN /\ seedPh' = [seedPh EXCEPT ![s] = "counted"]
         /\ UNCHANGED <<count, seq, result>>
    ELSE IF ~ok \/ sessStopped["seed"] THEN JoinSeed(s, hosts)
    ELSE /\ seedPh' = [seedPh EXCEPT ![s] = "handshaking"]
         /\ UNCHANGED <<count, seq, result>>

\* session_seed::handle_connect: unpend; a failed dial, a blacklisted
\* authority (address_blocked) and register_channel on a stopped session
\* (service_stopped) each call the join handler; otherwise the channel is
\* started with the version protocol.
HandleConnect(s, ok) ==
    IF ~ok \/ s \in BlockedSeeds \/ sessStopped["seed"] THEN JoinSeed(s, hosts)
    ELSE /\ seedPh' = [seedPh EXCEPT ![s] = "handshaking"]
         /\ UNCHANGED <<count, seq, result>>

\* The connector completes (or is stopped by p2p stop, or times out).
SeedConnect(s, ok) ==
    /\ seedPh[s] = "connecting"
    /\ HandleConnect(s, ok)
    /\ UNCHANGED <<stopped, lifeVars, cur, sessStopped, hosts>>

\* session::handle_start via handle_channel_start: a failed handshake, or a
\* store refused (p2p::store into a stopped pending_close_), counts the
\* seed; success attaches protocol_seed (attach_protocols).
SeedHandshake(s, ok) ==
    /\ seedPh[s] = "handshaking"
    /\ IF ok /\ open THEN
          /\ seedPh' = [seedPh EXCEPT ![s] = "seeding"]
          /\ UNCHANGED <<count, seq, result>>
       ELSE JoinSeed(s, hosts)
    /\ UNCHANGED <<stopped, lifeVars, cur, sessStopped, hosts>>

\* protocol_seed completes (addresses stored, or its timer expired, or the
\* channel stopped) and calls the join handler.
SeedDone(s, n) ==
    /\ seedPh[s] = "seeding"
    /\ hosts' = Stored(n)
    /\ JoinSeed(s, Stored(n))
    /\ UNCHANGED <<stopped, lifeVars, cur, sessStopped>>

\* p2p::run: the configured peers are handed to the manual session (when
\* running and attached), then a new inbound session is started;
\* handle_inbound_started runs on a new thread.  Nothing tests stopped_.
RunCall ==
    /\ runPc = "none"
    /\ SessionStart("inbound")
    /\ runPc' = "inbound"
    /\ UNCHANGED <<stopped, manual, stopSub, open, stopPc, stops, starts, cur,
                   seq, result, hosts, seedPh, count, conn>>

\* handle_inbound_started: an inbound start error (the acceptor could not
\* listen) ends the run; otherwise a new outbound session is started.
HandleInboundStarted(ok) ==
    /\ runPc = "inbound"
    /\ IF ok THEN SessionStart("outbound") /\ runPc' = "outbound"
       ELSE runPc' = "done" /\ UNCHANGED <<sessStopped, subs>>
    /\ UNCHANGED <<stopped, manual, stopSub, open, stopPc, stops, starts, cur,
                   seq, result, hosts, seedPh, count, conn>>

\* handle_running: the outbound session's code ends the run sequence.
HandleRunning ==
    /\ runPc = "outbound"
    /\ runPc' = "done"
    /\ UNCHANGED <<stopped, manual, stopSub, subs, open, stopPc, stops, starts,
                   cur, seq, result, sessStopped, hosts, seedPh, count, conn>>

\* p2p::connect(hostname, port, handler), its test: a stopped p2p answers
\* service_stopped at once.
ConnectTest ==
    /\ conn = "idle"
    /\ conn' = IF stopped THEN "answered" ELSE "tested"
    /\ UNCHANGED <<stopped, manual, stopSub, subs, open, stopPc, stops, starts,
                   cur, seq, result, sessStopped, hosts, seedPh, count, runPc>>

\* p2p::connect, continued: manual_ is loaded; a manual session takes the
\* handler (and answers it), a null one drops the call.
ConnectLoad ==
    /\ conn = "tested"
    /\ conn' = IF manual THEN "answered" ELSE "lost"
    /\ UNCHANGED <<stopped, manual, stopSub, subs, open, stopPc, stops, starts,
                   cur, seq, result, sessStopped, hosts, seedPh, count, runPc>>

\* p2p::stop (unguarded and idempotent; one caller here): hosts_.stop(),
\* then stopped_ is set and manual_ cleared.
StopCall ==
    /\ stopPc = "idle" /\ stops < MaxStops
    /\ stops' = stops + 1
    /\ stopped' = TRUE
    /\ manual' = FALSE
    /\ stopPc' = "subscriber"
    /\ UNCHANGED <<stopSub, subs, open, starts, cur, seq, result, sessStopped,
                   hosts, seedPh, count, runPc, conn>>

\* Mutant: stop never stops the stop subscriber.
StopSubscriberSkipped ==
    /\ stopPc = "subscriber"
    /\ stopPc' = "invoke"
    /\ UNCHANGED <<stopped, manual, stopSub, subs, open, stops, starts, cur,
                   seq, result, sessStopped, hosts, seedPh, count, runPc, conn>>

\* stop_subscriber_->stop(): later subscriptions are invoked at once.
StopSubscriber ==
    /\ stopPc = "subscriber"
    /\ stopSub' = "stopped"
    /\ stopPc' = "invoke"
    /\ UNCHANGED <<stopped, manual, subs, open, stops, starts, cur, seq,
                   result, sessStopped, hosts, seedPh, count, runPc, conn>>

\* stop_subscriber_->invoke(service_stopped): every subscribed handle_stop
\* runs and the subscriptions are cleared; the channel subscriber follows.
StopInvoke ==
    /\ stopPc = "invoke"
    /\ sessStopped' = [s \in Sessions |-> s \in subs \/ sessStopped[s]]
    /\ subs' = {}
    /\ stopPc' = "collections"
    /\ UNCHANGED <<stopped, manual, stopSub, open, stops, starts, cur, seq,
                   result, hosts, seedPh, count, runPc, conn>>

\* The pending collections are stopped (pending connectors and channels
\* stop, their handlers run later) and the pool told to drain.
StopCollections ==
    /\ stopPc = "collections"
    /\ open' = FALSE
    /\ stopPc' = "idle"
    /\ UNCHANGED <<stopped, manual, stopSub, subs, stops, starts, cur, seq,
                   result, sessStopped, hosts, seedPh, count, runPc, conn>>

Next ==
    \/ StartCall \/ StartAttach
    \/ \E ok \in BOOLEAN, h \in LoadedCounts : HostsLoaded(ok, h)
    \/ SeedSessionStart \/ SeedSessionStarted
    \/ \E s \in Seeds :
          \/ StartSeed(s)
          \/ \E ok \in BOOLEAN : SeedConnect(s, ok) \/ SeedHandshake(s, ok)
          \/ \E n \in SeedYields : SeedDone(s, n)
    \/ RunCall \/ \E ok \in BOOLEAN : HandleInboundStarted(ok)
    \/ HandleRunning
    \/ ConnectTest \/ ConnectLoad
    \/ StopCall \/ StopSubscriber \/ StopInvoke \/ StopCollections

\* Every step that continues a call runs: the pool runs handlers, connects
\* end by connect_timeout, handshakes by channel_handshake, protocol_seed
\* by its timer, and a caller's thread goes on through start, connect and
\* stop.  The user's calls (start, run, connect, stop) are never forced.
Fairness ==
    /\ WF_vars(StartAttach)
    /\ WF_vars(\E ok \in BOOLEAN, h \in LoadedCounts : HostsLoaded(ok, h))
    /\ WF_vars(SeedSessionStart) /\ WF_vars(SeedSessionStarted)
    /\ \A s \in Seeds :
          /\ WF_vars(StartSeed(s))
          /\ WF_vars(\E ok \in BOOLEAN : SeedConnect(s, ok))
          /\ WF_vars(\E ok \in BOOLEAN : SeedHandshake(s, ok))
          /\ WF_vars(\E n \in SeedYields : SeedDone(s, n))
    /\ WF_vars(\E ok \in BOOLEAN : HandleInboundStarted(ok))
    /\ WF_vars(HandleRunning) /\ WF_vars(ConnectLoad)
    /\ WF_vars(StopSubscriber) /\ WF_vars(StopInvoke)
    /\ WF_vars(StopCollections)

Spec == Init /\ [][Next]_vars /\ Fairness

-----------------------------------------------------------------------------
\* Spec 4.M: every start's handler is eventually called.  Every seed's
\* attempt, on every path of start_seed / handle_connect / register_channel
\* / handle_start / protocol_seed, must reach the on_count join exactly
\* once for handle_complete to run, also across stop and restart.
StartAnswered == \A k \in 1..MaxStarts : (starts >= k) ~> (result[k] # None)

\* Spec 4.L / 5: seeding fails with peer_throttling only when it did not
\* fill the host pool (handle_complete's threshold against the capacity).
FullPoolNotThrottled ==
    cur > 0 /\ result[cur] = "peer_throttling" => hosts < HostPoolCapacity

\* Spec 4.M (stop broadcasts to the stop subscriber): once p2p::stop has
\* finished and p2p is stopped, every session is stopped, including one
\* started after stop (its subscribe finds the subscriber stopped), so no
\* session goes on creating connections.
StopReachesSessions ==
    stopped /\ stopPc = "idle" => \A s \in Sessions : sessStopped[s]

\* Spec 4.M: connect's handler is always called (session.cpp: "All
\* closures must eventually be invoked as otherwise it is a leak").
ConnectAnswered == conn # "lost"

\* Spec 4.M (start: stopped -> running): a running p2p's pending
\* collections accept connectors and channels, also after a restart.
RunningAccepts == ~stopped => open

=============================================================================

-------------------------------- MODULE Channel --------------------------------
(***************************************************************************)
(* One adopted channel (channel.cpp) with the protocols a session attaches *)
(* after the handshake, chosen by the negotiated version: protocol_ping_   *)
(* 60001 or 31402 (module Ping, composed by INSTANCE over the same         *)
(* variables), protocol_reject_70002 from bip61 on, and                    *)
(* protocol_address_31402.  The channel owns the expiration and inactivity  *)
(* deadlines; a frame read from the peer (address, get_address, reject)    *)
(* restarts inactivity (signal_activity) and is relayed to its subscriber. *)
(* A stop, from a timer, a protocol, a store failure or elsewhere, runs    *)
(* handle_stopping (stopping both deadlines) as a later step and notifies  *)
(* every protocol's protocol_events::handle_stopped.                      *)
(***************************************************************************)
EXTENDS Naturals

CONSTANTS
    MaxPings,             \* as in Ping
    StartWithinHeartbeat, \* as in Ping
    MaxPeerPings,         \* as in Ping
    Versions,             \* as in Ping
    HostPoolCapacity,     \* settings.host_pool_capacity
    SelfConfigured,       \* settings.self.port() is not zero (self_ not empty)
    MaxFrames             \* bound on the frames the peer sends

ASSUME HostPoolCapacity \in Nat /\ SelfConfigured \in BOOLEAN
ASSUME MaxFrames \in Nat

VARIABLES
    handler, timer, pc, pending, awaiting, wire, sent, stopCode,
    stopPending, peerLied, pings, pongs, pingSub, \* the ping protocol
    version,    \* channel::negotiated_version()
    expTimer,   \* expiration_ deadline: "armed" or "idle"
    inaTimer,   \* inactivity_ deadline: "armed" or "idle"
    stopping,   \* handle_stopping has run
    actPc,      \* the frame whose read is between its stopped test and
                \* the inactivity restart, or "idle"
    frames,     \* frames read so far
    evHandler,  \* each protocol's protocol_events::handler_ is non-null
    subscribed, \* message types with a subscribed handler
    stores      \* network_.store calls whose handler has not yet run

P == INSTANCE Ping

pingVars == <<handler, timer, pc, pending, awaiting, wire, sent, stopCode,
              stopPending, peerLied, pings, pongs, pingSub, version>>
chanVars == <<expTimer, inaTimer, stopping, actPc, frames, evHandler,
              subscribed, stores>>
vars == <<pingVars, chanVars>>

\* The protocols with a protocol_events handler besides ping.
Protocols == {"address", "reject"}
Messages == {"address", "get_address", "reject"}

\* protocol::stop(ec) -> channel stop: the first code wins (proxy, as in
\* Ping's StopWith).
Stop(ec) == P!StopWith(ec)

\* protocol_address_31402::start: protocol_events::start(handle_stop); self
\* is sent when configured; with no host pool nothing more, else address
\* and get_address are subscribed and get_address sent.
AddressStart ==
    IF HostPoolCapacity = 0 THEN {} ELSE {"address", "get_address"}

\* message::version::level::bip61, the version that introduced reject.
Bip61 == 70002

\* session_outbound::attach_protocols: reject from bip61 on; address always
\* (ping is chosen in Ping's Nonced).
Attached == IF version >= Bip61 THEN Protocols ELSE Protocols \ {"reject"}

\* protocol_events::start(handler) of each attached protocol: handler_ is
\* stored (non-null) and handle_stopped subscribed to the channel's stop.
EventsStart == [p \in Protocols |-> p \in Attached]

\* protocol_reject_70002::start: protocol_events::start() with a nop
\* handler, then reject is subscribed.
RejectStart == {"reject"}

\* channel::do_start has armed both deadlines on the running channel, and
\* attach_protocols has started ping, reject (from bip61) and address.
Init ==
    /\ P!Init
    /\ expTimer = "armed"
    /\ inaTimer = "armed"
    /\ stopping = FALSE
    /\ actPc = "idle"
    /\ frames = 0
    /\ evHandler = EventsStart
    /\ subscribed = AddressStart \cup
                    (IF "reject" \in Attached THEN RejectStart ELSE {})
    /\ stores = 0

\* channel::handle_expiration: the deadline fires with success; a stopped
\* channel returns, otherwise it stops with channel_timeout.
HandleExpiration ==
    /\ expTimer = "armed"
    /\ expTimer' = "idle"
    /\ IF P!ChStopped THEN UNCHANGED <<stopCode, stopPending, awaiting>>
       ELSE Stop("channel_timeout")
    /\ UNCHANGED <<handler, timer, pc, pending, wire, sent, peerLied, pings,
                   pongs, pingSub, version,
                   inaTimer, stopping, actPc, frames, evHandler, subscribed,
                   stores>>

\* channel::handle_inactivity, as handle_expiration for the inactivity
\* deadline.
HandleInactivity ==
    /\ inaTimer = "armed"
    /\ inaTimer' = "idle"
    /\ IF P!ChStopped THEN UNCHANGED <<stopCode, stopPending, awaiting>>
       ELSE Stop("channel_timeout")
    /\ UNCHANGED <<handler, timer, pc, pending, wire, sent, peerLied, pings,
                   pongs, pingSub, version,
                   expTimer, stopping, actPc, frames, evHandler, subscribed,
                   stores>>

\* channel::handle_stopping, run by the proxy's stop after it set stopped:
\* both deadlines are stopped (cancelled: their handlers are not called).
HandleStopping ==
    /\ P!ChStopped /\ ~stopping
    /\ stopping' = TRUE
    /\ expTimer' = "idle"
    /\ inaTimer' = "idle"
    /\ UNCHANGED <<pingVars, actPc, frames, evHandler, subscribed, stores>>

\* The proxy reads frame m from a running channel and calls
\* signal_activity; start_inactivity finds the channel not stopped.
ReadFrame(m) ==
    /\ ~P!ChStopped /\ actPc = "idle" /\ frames < MaxFrames
    /\ actPc' = m
    /\ frames' = frames + 1
    /\ UNCHANGED <<pingVars, expTimer, inaTimer, stopping, evHandler,
                   subscribed, stores>>

\* protocol_address_31402::handle_receive_address: a stopped protocol
\* returns false (unsubscribed); otherwise network_.store runs its handler
\* on a new thread, and the handler resubscribes.
HandleReceiveAddress ==
    IF evHandler["address"]
    THEN stores' = stores + 1 /\ UNCHANGED subscribed
    ELSE subscribed' = subscribed \ {"address"} /\ UNCHANGED stores

\* protocol_address_31402::handle_receive_get_address: a stopped protocol,
\* or an empty self_, returns false; otherwise self_ is sent (handle_send
\* does nothing) and the handler resubscribes, to any number of queries.
HandleReceiveGetAddress ==
    /\ subscribed' = IF evHandler["address"] /\ SelfConfigured THEN subscribed
                     ELSE subscribed \ {"get_address"}
    /\ UNCHANGED stores

\* protocol_reject_70002::handle_receive_reject: a stopped protocol returns
\* false; a version reject is left to the version protocol and any other
\* is logged, both resubscribing.  (A non-stop error code reaches the
\* handler only with the channel's stop, when stopped(ec) already holds.)
HandleReceiveReject ==
    /\ subscribed' = IF evHandler["reject"] THEN subscribed
                     ELSE subscribed \ {"reject"}
    /\ UNCHANGED stores

\* The message subscriber relays frame m to its subscribed handler.
Relay(m) ==
    CASE m = "address"     -> HandleReceiveAddress
      [] m = "get_address" -> HandleReceiveGetAddress
      [] m = "reject"      -> HandleReceiveReject

\* The rest of the read: start_inactivity restarts the inactivity deadline
\* (also when the channel stopped since its test: handle_stopping may have
\* run in between), then the frame is relayed; a stopped channel's
\* subscribers are cleared and relay nothing.
Deliver ==
    /\ actPc # "idle"
    /\ actPc' = "idle"
    /\ inaTimer' = "armed"
    /\ IF ~P!ChStopped /\ actPc \in subscribed THEN Relay(actPc)
       ELSE UNCHANGED <<subscribed, stores>>
    /\ UNCHANGED <<pingVars, expTimer, stopping, frames, evHandler>>

StoreCodes == {"success", "service_stopped", "store_failed"}

\* protocol_address_31402::handle_store_addresses: a stopped protocol (or
\* a stop code) returns; another error stops the channel with it.
HandleStoreAddresses(ec) ==
    /\ stores > 0
    /\ stores' = stores - 1
    /\ IF ~evHandler["address"] \/ ec \in {"success", "service_stopped"}
       THEN UNCHANGED <<stopCode, stopPending, awaiting>>
       ELSE Stop(ec)
    /\ UNCHANGED <<handler, timer, pc, pending, wire, sent, peerLied, pings,
                   pongs, pingSub, version,
                   expTimer, inaTimer, stopping, actPc, frames, evHandler,
                   subscribed>>

\* Mutant: handle_stopped passes the channel's stop code to set_event,
\* which clears the handler only for a stop code.
ProtocolStopOwnCode(p) ==
    /\ P!ChStopped /\ evHandler[p]
    /\ evHandler' = IF stopCode \in {"channel_stopped", "service_stopped"}
                    THEN [evHandler EXCEPT ![p] = FALSE] ELSE evHandler
    /\ UNCHANGED <<pingVars, expTimer, inaTimer, stopping, actPc, frames,
                   subscribed, stores>>

\* protocol_events::handle_stopped of protocol p (its stop subscription):
\* set_event(channel_stopped) clears handler_ and invokes it (address's
\* handle_stop and reject's nop do nothing more).
ProtocolStop(p) ==
    /\ P!ChStopped /\ evHandler[p]
    /\ evHandler' = [evHandler EXCEPT ![p] = FALSE]
    /\ UNCHANGED <<pingVars, expTimer, inaTimer, stopping, actPc, frames,
                   subscribed, stores>>

Next ==
    \/ P!Next /\ UNCHANGED chanVars
    \/ HandleExpiration \/ HandleInactivity \/ HandleStopping
    \/ \E m \in Messages : ReadFrame(m)
    \/ Deliver
    \/ \E ec \in StoreCodes : HandleStoreAddresses(ec)
    \/ \E p \in Protocols : ProtocolStop(p)

\* Ping's fairness; a read goes on to its relay, the host store answers,
\* stop notifications run, and a deadline armed on a stopped channel
\* fires.  The deadlines of a running channel are never forced (the
\* configured durations may be long), nor is the peer.
Fairness ==
    /\ P!Fairness
    /\ WF_vars(Deliver) /\ WF_vars(HandleStopping)
    /\ WF_vars(\E ec \in StoreCodes : HandleStoreAddresses(ec))
    /\ \A p \in Protocols : WF_vars(ProtocolStop(p))
    /\ WF_vars(P!ChStopped /\ HandleInactivity)

Spec == Init /\ [][Next]_vars /\ Fairness

-----------------------------------------------------------------------------
\* Ping's safety property over the composed channel: only a pong with a
\* mismatched nonce stops the channel with bad_stream, whatever other
\* protocol or deadline stops it.
BadStreamOnlyOnMismatch == P!BadStreamOnlyOnMismatch

\* Ping's liveness property over the composed channel: no pong is awaited
\* forever.
PingResolved == P!PingResolved

\* Ping's answer to the peer's pings over the composed channel.
PingsAnswered == P!PingsAnswered

\* Spec 4.E ("once stopped, all three timers cease and no further
\* protocol handlers fire useful work"), in its eventual form: after a
\* stop every protocol's handler_ is cleared (handle_stopped ->
\* set_event(channel_stopped)) and no deadline stays armed, although
\* start_inactivity may restart inactivity after handle_stopping.
StopReachesProtocols ==
    P!ChStopped ~> (/\ ~handler
                    /\ \A p \in Protocols : ~evHandler[p]
                    /\ expTimer = "idle" /\ inaTimer = "idle")

=============================================================================

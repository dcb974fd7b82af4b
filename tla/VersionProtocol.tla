--------------------------- MODULE VersionProtocol ---------------------------
(***************************************************************************)
(* The version handshake of one channel, as attached by                    *)
(* session::attach_handshake_protocols: protocol_version_31402 or          *)
(* protocol_version_70002 on top of protocol_timer (non-perpetual,         *)
(* channel_handshake) and protocol_events, with its result handler wrapped *)
(* in synchronize(handler, 2, on_error).  The session's reaction to a      *)
(* failed handshake (session::handle_start stops the channel) is part of   *)
(* the step that delivers the failure.                                     *)
(*                                                                         *)
(* Message handlers run in two steps: the subscriber hands a message to    *)
(* its handler (Deliver), and the handler body runs later on a pool thread *)
(* (Exec); the channel may be stopped in between.  The stop notification   *)
(* of the protocol (handle_stopped) is relayed asynchronously (StopNotify).*)
(***************************************************************************)
EXTENDS Naturals, Sequences, Bitwise

CONSTANTS
    ProtocolMinimum,  \* settings.protocol_minimum (= minimum_version)
    ProtocolMaximums, \* the settings.protocol_maximum values checked
    OwnServices,      \* settings.services (= own_services)
    LevelMinimum,     \* version::level::minimum
    LevelMaximum,     \* version::level::maximum
    InvalidServices,  \* settings.invalid_services
    PeerValues,       \* protocol versions a peer may announce
    PeerServices      \* service bitmaps a peer may announce

ASSUME ProtocolMaximums \subseteq Nat /\ OwnServices \in Nat
ASSUME PeerValues \subseteq Nat /\ PeerServices \subseteq Nat

None == "none"

\* peer_version before it is set (a record, comparable with versions).
NoPeerVersion == [kind |-> "none"]

\* The messages the peer may send during the handshake.
VersionMsgs == [kind : {"version"}, value : PeerValues, services : PeerServices]
VerackMsgs  == {[kind |-> "verack"]}
RejectMsgs  == [kind : {"reject"}, message : {"version", "other"},
                code : {"obsolete", "duplicate", "other"}]
PeerMessages == VersionMsgs \cup VerackMsgs \cup RejectMsgs

\* Codes that stop protocol_events (protocol_events::stopped(ec)).
StopCodes == {"channel_stopped", "service_stopped"}

VARIABLES
    handler,     \* protocol_events::handler_ is non-null
    count,       \* synchronizer counter of the join (0..2)
    result,      \* code delivered to session::handle_handshake, or None
    timer,       \* handshake deadline: "armed" or "off"
    subs,        \* message kinds with a subscribed handler
    executing,   \* messages handed to a handler whose body has not yet run
    chStopped,   \* proxy stopped flag of the channel
    stopPending, \* handle_stopped not yet invoked after the channel stop
    peerVersion, \* channel peer_version, or NoPeerVersion
    negotiated,  \* channel negotiated_version
    sent,        \* messages sent to the peer, in order
    raised,      \* history: message kinds whose handler raised success
    ProtocolMaximum, \* settings.protocol_maximum (= own_version), fixed
    outbound         \* attached by session_outbound (else by session_seed
                     \* or session's default: inbound, manual), fixed

vars == <<handler, count, result, timer, subs, executing, chStopped,
          stopPending, peerVersion, negotiated, sent, raised, ProtocolMaximum,
          outbound>>

\* message::version::level::bip61 and the service bits the session uses.
Bip61 == 70002
NodeNetwork == 1
NodeWitness == 8

\* session_seed::attach_handshake_protocols (and the default constructors
\* that session::attach_handshake_protocols uses): minimum_services none.
DefaultMinimumServices == 0

\* session_outbound::attach_handshake_protocols: the peer must serve the
\* network, and witness if we do ...
MinimumServices ==
    IF outbound THEN (OwnServices & NodeWitness) | NodeNetwork
    ELSE DefaultMinimumServices

\* ... and protocol_version_70002 is attached when negotiated_version, which
\* starts at the configured maximum, reaches bip61, else _31402.
Variant == IF ProtocolMaximum >= Bip61 THEN 70002 ELSE 31402

MinOf(a, b) == IF a < b THEN a ELSE b

\* The three configuration checks of handle_receive_version.
ConfigValid ==
    /\ ProtocolMinimum >= LevelMinimum
    /\ ProtocolMaximum <= LevelMaximum
    /\ ProtocolMinimum <= ProtocolMaximum

\* protocol_version_31402::sufficient_peer
SufficientPeer(m) ==
    /\ (m.services & InvalidServices) = 0
    /\ (m.services & MinimumServices) = MinimumServices
    /\ m.value >= ProtocolMinimum

\* The reject that protocol_version_70002::sufficient_peer sends first.
RejectFor(m) ==
    IF Variant # 70002 THEN <<>>
    ELSE IF m.value < ProtocolMinimum THEN <<"reject_insufficient_version">>
    ELSE IF (m.services & MinimumServices) # MinimumServices
         THEN <<"reject_insufficient_services">>
    ELSE <<>>

(***************************************************************************)
(* protocol_events::set_event(ec), with the handler it invokes:            *)
(* protocol_timer::handle_notify (stops the timer on channel_stopped) and  *)
(* the synchronizer (2, on_error), whose cleared invocation is             *)
(* session::handle_handshake.  The record says what changes.              *)
(***************************************************************************)
\* Mutant: the result handler is wrapped in a join of one, not two.
SetEventOneShot(ec) ==
    LET joinOpen == handler /\ count < 2
        newCount == IF ~joinOpen THEN count ELSE 2
        cleared  == joinOpen
    IN [handler  |-> handler /\ ec \notin StopCodes,
        count    |-> newCount,
        result   |-> IF cleared THEN ec ELSE result,
        timerOff |-> handler /\ ec = "channel_stopped",
        halt     |-> cleared /\ ec # "success"]

SetEvent(ec) ==
    LET live     == handler
        joinOpen == live /\ count < 2
        newCount == IF ~joinOpen THEN count
                    ELSE IF ec = "success" THEN count + 1 ELSE 2
        cleared  == joinOpen /\ newCount = 2
    IN [handler  |-> live /\ ec \notin StopCodes,
        count    |-> newCount,
        result   |-> IF cleared THEN ec ELSE result,
        timerOff |-> live /\ ec = "channel_stopped",
        halt     |-> cleared /\ ec # "success"]

\* The effect of an event E together with what the step itself leaves in
\* subs, timer and stopPending.  A failed handshake stops the channel
\* (session::handle_start), which clears the subscriptions (proxy stop).
\* Mutant: session::handle_start does not stop the channel on failure.
SettleNoStop(E, subsAfter, timerAfter) ==
    /\ handler' = E.handler
    /\ count' = E.count
    /\ result' = E.result
    /\ timer' = IF E.timerOff THEN "off" ELSE timerAfter
    /\ UNCHANGED <<chStopped, stopPending, ProtocolMaximum, outbound>>
    /\ subs' = IF chStopped THEN {} ELSE subsAfter

Settle(E, subsAfter, timerAfter) ==
    LET halt == E.halt /\ ~chStopped IN
    /\ handler' = E.handler
    /\ count' = E.count
    /\ result' = E.result
    /\ timer' = IF E.timerOff THEN "off" ELSE timerAfter
    /\ chStopped' = (chStopped \/ halt)
    /\ stopPending' = (stopPending \/ halt)
    /\ subs' = IF chStopped \/ halt THEN {} ELSE subsAfter
    /\ UNCHANGED <<ProtocolMaximum, outbound>>

\* No event: only the subscriptions may change.
NoEvent == [handler |-> handler, count |-> count, result |-> result,
            timerOff |-> FALSE, halt |-> FALSE]

(***************************************************************************)
(* State right after protocol_version_31402::start (and _70002::start):    *)
(* the join is armed, the timer is started, version and verack (and reject *)
(* in 70002) are subscribed and our version is sent.                       *)
(***************************************************************************)
\* protocol_version_70002::start: _31402's start, then reject is subscribed.
StartSubscriptions ==
    IF Variant = 70002 THEN {"version", "verack", "reject"}
    ELSE {"version", "verack"}

Init ==
    /\ ProtocolMaximum \in ProtocolMaximums
    /\ outbound \in BOOLEAN
    /\ handler = TRUE
    /\ count = 0
    /\ result = None
    /\ timer = "armed"
    /\ subs = StartSubscriptions
    /\ executing = {}
    /\ chStopped = FALSE
    /\ stopPending = FALSE
    /\ peerVersion = NoPeerVersion
    /\ negotiated = ProtocolMaximum
    /\ sent = <<"version">>
    /\ raised = {}

\* The proxy reads a message and hands it to the subscribed handler.
Deliver(m) ==
    /\ ~chStopped
    /\ m.kind \in subs
    /\ subs' = subs \ {m.kind}
    /\ executing' = executing \cup {m}
    /\ UNCHANGED <<handler, count, result, timer, chStopped, stopPending,
                   peerVersion, negotiated, sent, raised, ProtocolMaximum, outbound>>

\* Mutant: the negotiated version is taken from the peer without the min.
ReceiveVersionNoMin(m) ==
    /\ m \in executing
    /\ m.kind = "version"
    /\ executing' = executing \ {m}
    /\ IF ~handler THEN
          /\ Settle(NoEvent, subs, timer)
          /\ UNCHANGED <<peerVersion, negotiated, sent, raised>>
       ELSE IF ~ConfigValid \/ ~SufficientPeer(m) THEN
          /\ Settle(SetEvent("channel_stopped"), subs, timer)
          /\ sent' = sent \o (IF ConfigValid THEN RejectFor(m) ELSE <<>>)
          /\ UNCHANGED <<peerVersion, negotiated, raised>>
       ELSE
          /\ negotiated' = m.value
          /\ peerVersion' = m
          /\ sent' = sent \o RejectFor(m) \o <<"verack">>
          /\ raised' = raised \cup {"version"}
          /\ Settle(SetEvent("success"), subs, timer)

\* protocol_version_31402::handle_receive_version (not resubscribed).
ReceiveVersion(m) ==
    /\ m \in executing
    /\ m.kind = "version"
    /\ executing' = executing \ {m}
    /\ IF ~handler THEN
          /\ Settle(NoEvent, subs, timer)
          /\ UNCHANGED <<peerVersion, negotiated, sent, raised>>
       ELSE IF ~ConfigValid \/ ~SufficientPeer(m) THEN
          /\ Settle(SetEvent("channel_stopped"), subs, timer)
          /\ sent' = sent \o (IF ConfigValid THEN RejectFor(m) ELSE <<>>)
          /\ UNCHANGED <<peerVersion, negotiated, raised>>
       ELSE
          /\ negotiated' = MinOf(m.value, ProtocolMaximum)
          /\ peerVersion' = m
          /\ sent' = sent \o RejectFor(m) \o <<"verack">>
          /\ raised' = raised \cup {"version"}
          /\ Settle(SetEvent("success"), subs, timer)

\* protocol_version_31402::handle_receive_verack (not resubscribed).
ReceiveVerack(m) ==
    /\ m \in executing
    /\ m.kind = "verack"
    /\ executing' = executing \ {m}
    /\ IF ~handler THEN Settle(NoEvent, subs, timer)
       ELSE Settle(SetEvent("success"), subs, timer)
    /\ raised' = IF handler THEN raised \cup {"verack"} ELSE raised
    /\ UNCHANGED <<peerVersion, negotiated, sent>>

\* protocol_version_70002::handle_receive_reject: a version reject with code
\* obsolete or duplicate fails the handshake; anything else resubscribes.
ReceiveReject(m) ==
    /\ m \in executing
    /\ m.kind = "reject"
    /\ executing' = executing \ {m}
    /\ LET fatal == m.message = "version" /\ m.code \in {"obsolete", "duplicate"}
       IN IF ~handler THEN Settle(NoEvent, subs, timer)
          ELSE IF fatal THEN Settle(SetEvent("channel_stopped"), subs, timer)
          ELSE Settle(NoEvent, subs \cup {"reject"}, timer)
    /\ UNCHANGED <<peerVersion, negotiated, sent, raised>>

\* protocol_timer::handle_timer of the non-perpetual handshake timer.
TimerFire ==
    /\ timer = "armed"
    /\ IF ~handler THEN Settle(NoEvent, subs, "off")
       ELSE Settle(SetEvent("channel_timeout"), subs, "off")
    /\ UNCHANGED <<executing, peerVersion, negotiated, sent, raised>>

\* The channel is stopped from elsewhere (expiration, inactivity, a read
\* failure, p2p stop): proxy stop clears the message subscriptions and
\* relays the stop to the protocol's stop handler.
ChannelStop ==
    /\ ~chStopped
    /\ chStopped' = TRUE
    /\ stopPending' = TRUE
    /\ subs' = {}
    /\ UNCHANGED <<handler, count, result, timer, executing, peerVersion,
                   negotiated, sent, raised, ProtocolMaximum, outbound>>

\* protocol_events::handle_stopped: set_event(channel_stopped).
StopNotify ==
    /\ stopPending
    /\ stopPending' = FALSE
    /\ LET E == SetEvent("channel_stopped") IN
       /\ handler' = E.handler
       /\ count' = E.count
       /\ result' = E.result
       /\ timer' = IF E.timerOff THEN "off" ELSE timer
    /\ UNCHANGED <<subs, executing, chStopped, peerVersion, negotiated, sent,
                   raised, ProtocolMaximum, outbound>>

Exec(m) == ReceiveVersion(m) \/ ReceiveVerack(m) \/ ReceiveReject(m)

Next ==
    \/ \E m \in PeerMessages : Deliver(m) \/ Exec(m)
    \/ TimerFire
    \/ ChannelStop
    \/ StopNotify

\* Timers fire, relayed stop notifications run and dispatched handlers run;
\* the peer is free never to send anything and nothing forces a stop.
Fairness ==
    /\ WF_vars(TimerFire)
    /\ WF_vars(StopNotify)
    /\ \A m \in PeerMessages : WF_vars(Exec(m))

Spec == Init /\ [][Next]_vars /\ Fairness

-----------------------------------------------------------------------------
(* Properties *)

TypeOK ==
    /\ handler \in BOOLEAN
    /\ count \in 0..2
    /\ result \in {None, "success", "channel_stopped", "channel_timeout"}
    /\ timer \in {"armed", "off"}
    /\ subs \subseteq {"version", "verack", "reject"}
    /\ executing \subseteq PeerMessages
    /\ chStopped \in BOOLEAN /\ stopPending \in BOOLEAN
    /\ peerVersion \in VersionMsgs \cup {NoPeerVersion}
    \* the negotiated version never exceeds our own maximum
    /\ negotiated \in LevelMinimum..ProtocolMaximum
    /\ raised \subseteq {"version", "verack"}
    /\ ProtocolMaximum \in ProtocolMaximums /\ outbound \in BOOLEAN

\* The session is told "success" only after both halves of the handshake:
\* an acceptable peer version (stored, negotiated down to min(peer, own)
\* and answered with verack) and the peer's verack.  Exercises the
\* synchronizer count of 2 against version, verack, reject and timer events.
HandshakeSound ==
    result = "success" =>
        /\ raised = {"version", "verack"}
        /\ peerVersion # NoPeerVersion
        /\ SufficientPeer(peerVersion)
        /\ negotiated = MinOf(peerVersion.value, ProtocolMaximum)
        /\ \E i \in 1..Len(sent) : sent[i] = "verack"

\* A handshake outcome reaches the session only while the channel is still
\* running: no handler completes the handshake of a stopped channel (spec:
\* "once stopped ... no further protocol handlers fire useful work").
NoSuccessAfterStop ==
    [][(result = None /\ result' = "success") => ~chStopped]_vars

\* The detailed protocol implements the abstract handshake promise: the
\* result handler (session::handle_handshake) is invoked once and its
\* outcome is final (a timer firing after success, a stop notification
\* after a failure or a late reject changes nothing); a failure leaves the
\* channel stopped; and under the fairness of the timers every handshake
\* ends, even if the peer never sends anything.
HS == INSTANCE Handshake
        WITH status <- IF result = None THEN "pending"
                       ELSE IF result = "success" THEN "succeeded"
                       ELSE "failed",
             chanStopped <- chStopped

HandshakeRefinement == HS!Spec

=============================================================================

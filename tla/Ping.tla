--------------------------------- MODULE Ping ---------------------------------
(***************************************************************************)
(* The ping protocol of one adopted channel: protocol_ping_60001 when the  *)
(* negotiated version reaches bip31, protocol_ping_31402 below it, both    *)
(* over protocol_ping_31402's start and the perpetual protocol_timer       *)
(* (channel_heartbeat).                                                    *)
(*                                                                         *)
(* send_ping runs on two threads: the start thread (set_event(success) in *)
(* start) and the heartbeat timer (handle_timer -> set_event(              *)
(* channel_timeout)).  Its test of pending_ (Check) and its setting of     *)
(* pending_, subscription to pong and send (Arm) are separate steps: the  *)
(* flag is an atomic, but the test and the set are two operations.  The   *)
(* peer echoes every ping in order (PeerPong) or sends a pong of a nonce   *)
(* it never received (PeerBadPong); it may also stay silent.  It may send  *)
(* pings of its own, which handle_receive_ping answers (PeerPing).         *)
(***************************************************************************)
EXTENDS Naturals, Sequences

CONSTANTS
    MaxPings,             \* bound on the pings sent (nonces 1..MaxPings)
    StartWithinHeartbeat, \* start's first send_ping ends before the first
                          \* heartbeat (FALSE: channel_heartbeat of zero or a
                          \* start delayed by a whole heartbeat)
    MaxPeerPings,         \* bound on the pings the peer sends
    Versions              \* negotiated versions the handshake may settle on

ASSUME MaxPings \in Nat /\ StartWithinHeartbeat \in BOOLEAN
ASSUME MaxPeerPings \in Nat /\ Versions \subseteq Nat

Threads == {"start", "timer"}
NoCode == "none"
Nonces == 1..MaxPings

VARIABLES
    handler,     \* protocol_events::handler_ is non-null
    timer,       \* heartbeat timer: "armed" or "off"
    pc,          \* where each thread is in send_ping
    pending,     \* protocol_ping_60001::pending_
    awaiting,    \* nonces of subscribed handle_receive_pong handlers
    wire,        \* nonces of pings sent and not yet echoed
    sent,        \* pings sent so far (the next nonce is sent + 1)
    stopCode,    \* code the channel was stopped with, or NoCode
    stopPending, \* protocol_events::handle_stopped not yet run
    peerLied,    \* history: the peer sent a pong for a nonce it never got
    pings,       \* pings the peer has sent
    pongs,       \* pongs handle_receive_ping has sent back
    pingSub,     \* handle_receive_ping is subscribed to ping (a proxy stop
                 \* clears it too, but no ping reaches a stopped channel)
    version      \* channel::negotiated_version(), fixed by the handshake

peerPingVars == <<pings, pongs, pingSub>>

vars == <<handler, timer, pc, pending, awaiting, wire, sent, stopCode,
          stopPending, peerLied, peerPingVars, version>>

ChStopped == stopCode # NoCode

\* message::version::level::bip31, the version that introduced pong.
Bip31 == 60001

\* Mutant: the nonced protocol is attached only above bip31.
NoncedAbove == version > Bip31

\* session_outbound::attach_protocols (as session_seed's): protocol_ping_
\* 60001 from bip31 on, protocol_ping_31402 below it.
Nonced == version >= Bip31

\* proxy stop (spec): the first stop wins; message subscribers are cleared
\* (their handlers see channel_stopped and return false), and the stop is
\* relayed to handle_stopped later.
StopWith(code) ==
    IF ChStopped THEN UNCHANGED <<stopCode, stopPending, awaiting>>
    ELSE /\ stopCode' = code
         /\ stopPending' = TRUE
         /\ awaiting' = {}

\* Mutant: the heartbeat timer is built non-perpetual and never resets.
ResetTimerNonPerpetual(t) == timer' = timer

\* protocol_timer::reset_timer, run by the timer thread after its handler.
ResetTimer(t) ==
    timer' = IF t = "timer" /\ handler THEN "armed" ELSE timer

\* State after protocol_ping_31402::start has started the timer and
\* subscribed ping, as it calls set_event(success).
Init ==
    /\ version \in Versions
    /\ handler = TRUE
    /\ timer = "armed"
    /\ pc = [t \in Threads |-> IF t = "start" THEN "check" ELSE "idle"]
    /\ pending = FALSE
    /\ awaiting = {}
    /\ wire = <<>>
    /\ sent = 0
    /\ stopCode = NoCode
    /\ stopPending = FALSE
    /\ peerLied = FALSE
    /\ pings = 0 /\ pongs = 0 /\ pingSub = TRUE

\* protocol_timer::handle_timer: unless stopped, set_event(channel_timeout),
\* whose handle_notify calls send_ping.
Fire ==
    /\ timer = "armed"
    /\ pc["timer"] = "idle"
    /\ pending \/ sent < MaxPings
    /\ StartWithinHeartbeat => pc["start"] = "idle"
    /\ timer' = "off"
    /\ pc' = IF handler THEN [pc EXCEPT !["timer"] = "check"] ELSE pc
    /\ UNCHANGED <<handler, pending, awaiting, wire, sent, stopCode,
                   stopPending, peerLied>>
    /\ UNCHANGED <<peerPingVars, version>>

\* protocol_ping_60001::send_ping up to its test of pending_: a stopped
\* protocol returns; an outstanding ping stops the channel (latency limit).
Check(t) ==
    /\ pc[t] = "check"
    /\ Nonced
    /\ IF ~handler THEN
          /\ pc' = [pc EXCEPT ![t] = "idle"]
          /\ ResetTimer(t)
          /\ UNCHANGED <<stopCode, stopPending, awaiting>>
       ELSE IF pending THEN
          /\ StopWith("channel_timeout")
          /\ pc' = [pc EXCEPT ![t] = "idle"]
          /\ ResetTimer(t)
       ELSE
          /\ pc' = [pc EXCEPT ![t] = "arm"]
          /\ UNCHANGED <<timer, stopCode, stopPending, awaiting>>
    /\ UNCHANGED <<handler, pending, wire, sent, peerLied>>
    /\ UNCHANGED <<peerPingVars, version>>

\* protocol_ping_31402::send_ping: a stopped protocol returns; otherwise a
\* ping without nonce is sent, which nothing awaits.
SendPing(t) ==
    /\ pc[t] = "check"
    /\ ~Nonced
    /\ pc' = [pc EXCEPT ![t] = "idle"]
    /\ ResetTimer(t)
    /\ UNCHANGED <<handler, pending, awaiting, wire, sent, stopCode,
                   stopPending, peerLied>>
    /\ UNCHANGED <<peerPingVars, version>>

\* The rest of send_ping: set pending_, subscribe pong with a fresh nonce
\* (on a stopped channel the subscriber calls the handler at once and it
\* returns false), send the ping (a send on a stopped channel fails).
Arm(t) ==
    /\ pc[t] = "arm"
    /\ sent < MaxPings
    /\ pending' = TRUE
    /\ sent' = sent + 1
    /\ awaiting' = IF ChStopped THEN awaiting ELSE awaiting \cup {sent + 1}
    /\ wire' = IF ChStopped THEN wire ELSE Append(wire, sent + 1)
    /\ pc' = [pc EXCEPT ![t] = "idle"]
    /\ ResetTimer(t)
    /\ UNCHANGED <<handler, stopCode, stopPending, peerLied>>
    /\ UNCHANGED <<peerPingVars, version>>

\* Mutant: handle_receive_pong returns true (resubscribes).
ReceivePongKept(n) ==
    /\ UNCHANGED awaiting
    /\ IF awaiting = {} \/ ~handler THEN
          UNCHANGED <<pending, stopCode, stopPending>>
       ELSE
          /\ pending' = FALSE
          /\ IF \E h \in awaiting : h # n
             THEN /\ stopCode' = IF ChStopped THEN stopCode ELSE "bad_stream"
                  /\ stopPending' = (stopPending \/ ~ChStopped)
             ELSE UNCHANGED <<stopCode, stopPending>>

(***************************************************************************)
(* A pong of nonce n is relayed to every subscribed handle_receive_pong:   *)
(* each one (unless the protocol stopped) clears pending_ and stops the    *)
(* channel with bad_stream if n is not its own nonce; each returns false  *)
(* and is removed.  A pong nobody awaits is dropped.                       *)
(***************************************************************************)
ReceivePong(n) ==
    /\ awaiting' = {}
    /\ IF awaiting = {} \/ ~handler THEN
          UNCHANGED <<pending, stopCode, stopPending>>
       ELSE
          /\ pending' = FALSE
          /\ IF \E h \in awaiting : h # n
             THEN /\ stopCode' = IF ChStopped THEN stopCode ELSE "bad_stream"
                  /\ stopPending' = (stopPending \/ ~ChStopped)
             ELSE UNCHANGED <<stopCode, stopPending>>

\* The peer answers the oldest ping it has not answered.
PeerPong ==
    /\ ~ChStopped
    /\ wire # <<>>
    /\ wire' = Tail(wire)
    /\ ReceivePong(Head(wire))
    /\ UNCHANGED <<handler, timer, pc, sent, peerLied>>
    /\ UNCHANGED <<peerPingVars, version>>

\* The peer sends a pong with a nonce we never sent (0).
PeerBadPong ==
    /\ ~ChStopped
    /\ ~peerLied
    /\ peerLied' = TRUE
    /\ ReceivePong(0)
    /\ UNCHANGED <<handler, timer, pc, wire, sent>>
    /\ UNCHANGED <<peerPingVars, version>>

\* Mutant: handle_receive_ping returns false after its pong (not
\* resubscribed).
HandleReceivePingOnce ==
    IF ~handler THEN pingSub' = FALSE /\ UNCHANGED pongs
    ELSE pongs' = pongs + 1 /\ pingSub' = FALSE

\* protocol_ping_60001::handle_receive_ping: a stopped protocol returns
\* false; otherwise a pong with the ping's nonce is sent and the handler
\* resubscribes.
HandleReceivePing ==
    IF ~handler THEN pingSub' = FALSE /\ UNCHANGED pongs
    ELSE pongs' = pongs + 1 /\ UNCHANGED pingSub

\* protocol_ping_31402::handle_receive_ping: a stopped protocol returns
\* false; otherwise the ping is ignored and the handler resubscribes.
HandleReceivePing31402 ==
    IF ~handler THEN pingSub' = FALSE /\ UNCHANGED pongs
    ELSE UNCHANGED <<pongs, pingSub>>

\* The peer sends a ping; the subscriber relays it to the attached
\* protocol's handle_receive_ping if subscribed and drops it otherwise.
PeerPing ==
    /\ ~ChStopped
    /\ pings < MaxPeerPings
    /\ pings' = pings + 1
    /\ CASE ~pingSub -> UNCHANGED <<pongs, pingSub>>
         []  Nonced   -> HandleReceivePing
         []  OTHER    -> HandleReceivePing31402
    /\ UNCHANGED <<handler, timer, pc, pending, awaiting, wire, sent, stopCode,
                   stopPending, peerLied, version>>

\* The channel is stopped from elsewhere (expiration, inactivity, another
\* protocol, p2p stop).
ChannelStop ==
    /\ ~ChStopped
    /\ StopWith("channel_stopped")
    /\ UNCHANGED <<handler, timer, pc, pending, wire, sent, peerLied>>
    /\ UNCHANGED <<peerPingVars, version>>

\* protocol_events::handle_stopped: set_event(channel_stopped) clears the
\* handler; handle_notify stops the timer; send_ping(channel_stopped) returns.
StopNotify ==
    /\ stopPending
    /\ stopPending' = FALSE
    /\ handler' = FALSE
    /\ timer' = IF handler THEN "off" ELSE timer
    /\ UNCHANGED <<pc, pending, awaiting, wire, sent, stopCode, peerLied>>
    /\ UNCHANGED <<peerPingVars, version>>

Next ==
    \/ Fire
    \/ \E t \in Threads : Check(t) \/ SendPing(t) \/ Arm(t)
    \/ PeerPong \/ PeerBadPong \/ PeerPing \/ ChannelStop \/ StopNotify

\* The heartbeat timer fires, both threads run to the end of send_ping, and
\* the relayed stop notification runs; the peer is never forced to answer.
Fairness ==
    /\ WF_vars(Fire) /\ WF_vars(StopNotify)
    /\ \A t \in Threads : WF_vars(Check(t)) /\ WF_vars(SendPing(t))
                          /\ WF_vars(Arm(t))

Spec == Init /\ [][Next]_vars /\ Fairness

-----------------------------------------------------------------------------
\* Spec 4.I / 8: only a pong with a mismatched nonce stops the channel with
\* bad_stream; a peer that echoes every ping faithfully is never dropped
\* for a bad pong (handle_receive_pong against the pongs awaited by
\* send_ping).
BadStreamOnlyOnMismatch ==
    stopCode = "bad_stream" => peerLied

\* Spec 4.I ("on inbound ping{M}, echo pong{M}"): a peer that negotiated
\* bip31 (60001) or later expects a pong for every ping.  attach_protocols
\* must pick protocol_ping_60001 for it, whose handle_receive_ping answers
\* each ping and resubscribes, so while the channel runs every ping the
\* peer has sent has had its pong, however many came.
PingsAnswered == ~ChStopped /\ version >= 60001 => pongs = pings

\* Spec 8: every ping sent is either answered or the channel is stopped
\* (at the next heartbeat, by the latency limit): no pong is awaited forever.
PingResolved ==
    \A n \in Nonces : (n \in awaiting) ~> (n \notin awaiting)

=============================================================================

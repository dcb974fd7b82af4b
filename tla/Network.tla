------------------------------- MODULE Network -------------------------------
(***************************************************************************)
(* The connection-management core of p2p once it is running (after         *)
(* p2p::run): the outbound session (session_outbound over session_batch),  *)
(* the inbound session, the connectors, the channel registration pipeline  *)
(* of session, the three pending collections of p2p (pending_connect,      *)
(* pending_handshake, pending_close) and p2p::stop.                        *)
(*                                                                         *)
(* Every connection attempt or accepted socket gets an id from Chans, used *)
(* once; the channel built on it has that id.  A channel's nonce is its id *)
(* (pseudo_random(1, max_uint64) collisions are neglected).  The version   *)
(* handshake is abstracted to its outcome (see VersionProtocol, whose      *)
(* outcome may arrive even after the channel stopped).  An outbound dial   *)
(* to Self reaches our own acceptor: the inbound channel it produces       *)
(* carries, in the peer's version, the nonce of that outbound channel.     *)
(***************************************************************************)
EXTENDS Naturals, FiniteSets

CONSTANTS
    Chans,               \* ids of connection attempts and channels
    Hosts,               \* addresses the host pool may return on fetch
    Self,                \* our own listening address (may be in Hosts)
    Blacklist,           \* settings.blacklists (compared by ip)
    OutboundConnections, \* settings.outbound_connections
    BatchSize,           \* settings.connect_batch_size (at least 1)
    ConnectionLimit,     \* connection limit of the inbound session
    NoChan               \* no channel

ASSUME Hosts # {} /\ BatchSize >= 1 /\ OutboundConnections >= 1
ASSUME NoChan \notin Chans

Cycles == 1..OutboundConnections

Phases == {"free",        \* id unused
           "dialing",     \* connector pended and connecting
           "registering", \* won its batch; register_channel passed its check
           "handshaking", \* channel started, version protocol attached
           "adopted",     \* stored in pending_close, stop subscribed
           "dropped",     \* channel released without being started or stopped
           "done"}        \* attempt finished; its channel (if any) stopped

VARIABLES
    stopPhase,     \* p2p::stop progress: 0 running, 1 sessions stopped,
                   \* 2/3/4 pending_connect/_handshake/_close stopped
    pendConnect,   \* pending_connect_
    pendHandshake, \* pending_handshake_
    pendClose,     \* pending_close_
    ph,            \* phase of each id
    kind,          \* "out", "in" or "none"
    auth,          \* channel authority (an inbound one is its own id)
    loopOf,        \* inbound: the outbound channel of ours it came from
    cycOf,         \* outbound: the connect cycle that dialed it
    created,       \* channels constructed (connector success or accept)
    started,       \* channels whose proxy was started (timers armed)
    chStopped,     \* channels stopped
    cyc,           \* state of each outbound connect cycle
    join           \* the batch join (synchronizer on_success) of each cycle

vars == <<stopPhase, pendConnect, pendHandshake, pendClose, ph, kind, auth,
          loopOf, cycOf, created, started, chStopped, cyc, join>>

SessionsStopped == stopPhase >= 1
ConnectClosed   == stopPhase >= 2
HandshakeClosed == stopPhase >= 3
CloseClosed     == stopPhase >= 4

FreeIds == {c \in Chans : ph[c] = "free"}

\* session::blacklisted: the fetched address matches a configured blacklist.
Blacklisted(a) == a \in Blacklist

(***************************************************************************)
(* p2p::store(channel): pending_close_.store with the authority predicate. *)
(***************************************************************************)
StoreCode(c) ==
    IF CloseClosed THEN "service_stopped"
    ELSE IF \E d \in pendClose : auth[d] = auth[c] THEN "address_in_use"
    ELSE "success"

\* p2p::pending(version_nonce): a channel in pending_handshake_ has the nonce
\* (a channel's nonce is its id).
Pending(n) == n \in pendHandshake

\* p2p::connection_count: the size of pending_close_.
ConnectionCount == Cardinality(pendClose)

\* session_inbound::handshake_complete: loopback test on the peer's nonce
\* (p2p::pending), then the connection limit, then session::handshake_complete.
InboundCode(c) ==
    IF loopOf[c] # NoChan /\ Pending(loopOf[c]) THEN "accept_failed"
    ELSE IF ConnectionCount >= ConnectionLimit THEN "oversubscribed"
    ELSE StoreCode(c)

\* The peer end of a loopback has sent its version (and will answer ours).
PeerReady(c) ==
    IF kind[c] = "in" /\ loopOf[c] # NoChan THEN loopOf[c] \in started
    ELSE IF kind[c] = "out" /\ auth[c] = Self
         THEN \E i \in started : loopOf[i] = c
    ELSE TRUE

Init ==
    /\ stopPhase = 0
    /\ pendConnect = {} /\ pendHandshake = {} /\ pendClose = {}
    /\ ph = [c \in Chans |-> "free"]
    /\ kind = [c \in Chans |-> "none"]
    /\ auth = [c \in Chans |-> NoChan]
    /\ loopOf = [c \in Chans |-> NoChan]
    /\ cycOf = [c \in Chans |-> 0]
    /\ created = {} /\ started = {} /\ chStopped = {}
    /\ cyc = [k \in Cycles |-> "idle"]
    /\ join = [k \in Cycles |-> [count |-> 0, done |-> TRUE]]

\* p2p::pend(connector): pending_connect_.store (a stopped collection
\* refuses it; session_batch ignores the code).
PendConnectors(L) == IF ConnectClosed THEN pendConnect ELSE pendConnect \cup L

\* p2p::unpend(connector): the connector is stopped and removed.
UnpendConnector(c) == pendConnect \ {c}

\* p2p::pend(channel): pending_handshake_.store.
PendChannel(c) == pendHandshake \cup {c}

\* p2p::unpend(channel): pending_handshake_.remove.
UnpendChannel(c) == pendHandshake \ {c}

\* p2p::remove(channel): pending_close_.remove.
RemoveChannel(c) == pendClose \ {c}

\* session_outbound::handle_connect on a failed batch: new_connection is
\* retried after cycle_delay(ec), whatever the error (dispatch_delayed).
RetryDelayed(k) == [cyc EXCEPT ![k] = "delay"]

\* session_outbound::handle_channel_stop: new_connection is called again.
HandleChannelStop(k) == [cyc EXCEPT ![k] = "idle"]

(***************************************************************************)
(* session_batch::connect: a join (on_success) of BatchSize legs.  Each    *)
(* new_connect of a stopped session fails with channel_stopped; otherwise  *)
(* it fetches an address and start_connect fails at once on a blacklisted *)
(* one, or creates a connector, pends it (the code is ignored) and dials.  *)
(* When every leg failed at once the join calls handle_connect with the    *)
(* error, which retries after a delay.                                     *)
(***************************************************************************)
BatchConnect(k) ==
    \E n \in 0..BatchSize, L \in SUBSET FreeIds :
       /\ Cardinality(L) = n
       /\ n < BatchSize => SessionsStopped \/ \E h \in Hosts : Blacklisted(h)
       /\ SessionsStopped => n = 0
       /\ \E dest \in [L -> {h \in Hosts : ~Blacklisted(h)}] :
             auth' = [c \in Chans |-> IF c \in L THEN dest[c] ELSE auth[c]]
       /\ ph' = [c \in Chans |-> IF c \in L THEN "dialing" ELSE ph[c]]
       /\ kind' = [c \in Chans |-> IF c \in L THEN "out" ELSE kind[c]]
       /\ cycOf' = [c \in Chans |-> IF c \in L THEN k ELSE cycOf[c]]
       /\ pendConnect' = PendConnectors(L)
       /\ join' = [join EXCEPT ![k] = [count |-> BatchSize - n, done |-> n = 0]]
       /\ cyc' = IF n = 0 THEN RetryDelayed(k)
                 ELSE [cyc EXCEPT ![k] = "batch"]

\* Mutant: new_connection without its stopped() test: every leg of the
\* batch is suspended, and the failed batch is retried after a delay.
NewConnectionUnchecked(k) ==
    /\ cyc[k] \in {"idle", "delay"}
    /\ BatchConnect(k)
    /\ UNCHANGED <<stopPhase, pendHandshake, pendClose, loopOf, created,
                   started, chStopped>>

\* session_outbound::new_connection (a call, or the delayed retry): a
\* stopped session suspends the cycle, otherwise session_batch::connect.
NewConnection(k) ==
    /\ cyc[k] \in {"idle", "delay"}
    /\ IF SessionsStopped THEN
          /\ cyc' = [cyc EXCEPT ![k] = "off"]
          /\ UNCHANGED <<pendConnect, ph, kind, auth, cycOf, join>>
       ELSE BatchConnect(k)
    /\ UNCHANGED <<stopPhase, pendHandshake, pendClose, loopOf, created,
                   started, chStopped>>

\* session::register_channel, called by session_outbound::handle_connect
\* with the batch's channel: a stopped session calls handle_started and
\* handle_stopped (handle_channel_stop) with service_stopped and gives up
\* the channel without stopping it; otherwise start_channel.
RegisterChannel(c, k) ==
    IF SessionsStopped
    THEN /\ ph' = [ph EXCEPT ![c] = "dropped"]
         /\ cyc' = HandleChannelStop(k)
    ELSE /\ ph' = [ph EXCEPT ![c] = "registering"]
         /\ cyc' = [cyc EXCEPT ![k] = "channel"]

(***************************************************************************)
(* The connector delivers its result (first of connect and connect_timeout *)
(* through its one-shot join).  connector::stop does not cancel an        *)
(* async_connect already started, so a dial may succeed after p2p stop     *)
(* (module Connector).  session_batch::handle_connect unpends the          *)
(* connector and feeds the batch join: the first channel clears it and is  *)
(* registered; the last failure clears it with the error.  A result        *)
(* arriving after the join has cleared is discarded.                       *)
(***************************************************************************)
ConnectResult(c, ok) ==
    LET k == cycOf[c] IN
    /\ ph[c] = "dialing"
    /\ pendConnect' = UnpendConnector(c)
    /\ created' = IF ok THEN created \cup {c} ELSE created
    /\ IF join[k].done THEN
          /\ ph' = [ph EXCEPT ![c] = IF ok THEN "dropped" ELSE "done"]
          /\ UNCHANGED <<cyc, join>>
       ELSE IF ok THEN
          /\ join' = [join EXCEPT ![k].done = TRUE]
          /\ RegisterChannel(c, k)
       ELSE
          /\ join' = [join EXCEPT ![k] = [count |-> @.count + 1,
                                          done |-> @.count + 1 = BatchSize]]
          /\ ph' = [ph EXCEPT ![c] = "done"]
          /\ cyc' = IF join[k].count + 1 = BatchSize THEN RetryDelayed(k)
                    ELSE cyc
    /\ UNCHANGED <<stopPhase, pendHandshake, pendClose, kind, auth, loopOf,
                   cycOf, started, chStopped>>

\* session::start_channel: set_notify, set_nonce (the id) and
\* channel::start, whose do_start arms the timers and always succeeds, so
\* handle_starting attaches the version protocol.
SessionStartChannel(c) ==
    /\ ph' = [ph EXCEPT ![c] = "handshaking"]
    /\ started' = started \cup {c}

(***************************************************************************)
(* session_outbound::start_channel: pend the channel in pending_handshake; *)
(* on failure do_unpend, session::handle_start stops the channel and       *)
(* handle_channel_stop starts a new connection; otherwise                  *)
(* session::start_channel.                                                 *)
(***************************************************************************)
StartChannel(c) ==
    LET k == cycOf[c] IN
    /\ ph[c] = "registering"
    /\ IF HandshakeClosed THEN
          /\ ph' = [ph EXCEPT ![c] = "done"]
          /\ chStopped' = chStopped \cup {c}
          /\ cyc' = HandleChannelStop(k)
          /\ UNCHANGED <<pendHandshake, started>>
       ELSE
          /\ pendHandshake' = PendChannel(c)
          /\ SessionStartChannel(c)
          /\ UNCHANGED <<chStopped, cyc>>
    /\ UNCHANGED <<stopPhase, pendConnect, pendClose, kind, auth, loopOf,
                   cycOf, created, join>>

(***************************************************************************)
(* The inbound session accepts a socket, builds a channel and registers    *)
(* it (session::register_channel, start_channel: no pending_handshake).    *)
(* The socket comes from a foreign peer or from one of our own outbound    *)
(* channels dialed to Self.                                                *)
(***************************************************************************)
Accept(c, from) ==
    /\ ~SessionsStopped
    /\ ph[c] = "free"
    /\ from # NoChan =>
          /\ from \in created /\ kind[from] = "out" /\ auth[from] = Self
          /\ \A i \in Chans : loopOf[i] # from
    /\ ph' = [ph EXCEPT ![c] = "handshaking"]
    /\ kind' = [kind EXCEPT ![c] = "in"]
    /\ auth' = [auth EXCEPT ![c] = c]
    /\ loopOf' = [loopOf EXCEPT ![c] = from]
    /\ created' = created \cup {c}
    /\ started' = started \cup {c}
    /\ UNCHANGED <<stopPhase, pendConnect, pendHandshake, pendClose, cycOf,
                   chStopped, cyc, join>>

\* Mutant: session::handle_start stops a failed channel but does not call
\* handle_stopped, so the outbound cycle is never told.
HandshakeDoneNoNotify(c, ok) ==
    LET code == IF ~ok THEN "handshake_failed"
                ELSE IF kind[c] = "in" THEN InboundCode(c) ELSE StoreCode(c)
    IN
    /\ ph[c] = "handshaking"
    /\ ok => PeerReady(c)
    /\ pendHandshake' = UnpendChannel(c)
    /\ pendClose' = IF code = "success" THEN pendClose \cup {c} ELSE pendClose
    /\ ph' = [ph EXCEPT ![c] = IF code = "success" THEN "adopted" ELSE "done"]
    /\ chStopped' = IF code = "success" THEN chStopped ELSE chStopped \cup {c}
    /\ UNCHANGED <<stopPhase, pendConnect, kind, auth, loopOf, cycOf,
                   created, started, cyc, join>>

DoUnpend(c, ec) == UnpendChannel(c)

(***************************************************************************)
(* The handshake outcome reaches session::handle_handshake.  On success,  *)
(* handshake_complete stores the channel (inbound: after its loopback and *)
(* limit tests); outbound do_unpend then removes it from                   *)
(* pending_handshake; session::handle_start either subscribes the channel *)
(* stop (adopted) or stops the channel and calls handle_stopped, which    *)
(* for outbound is handle_channel_stop -> new_connection.                  *)
(***************************************************************************)
HandshakeDone(c, ok) ==
    LET code == IF ~ok THEN "handshake_failed"
                ELSE IF kind[c] = "in" THEN InboundCode(c) ELSE StoreCode(c)
        k    == cycOf[c]
    IN
    /\ ph[c] = "handshaking"
    /\ ok => PeerReady(c)
    /\ pendHandshake' = DoUnpend(c, code)
    /\ IF code = "success" THEN
          /\ pendClose' = pendClose \cup {c}
          /\ ph' = [ph EXCEPT ![c] = "adopted"]
          /\ UNCHANGED <<chStopped, cyc>>
       ELSE
          /\ ph' = [ph EXCEPT ![c] = "done"]
          /\ chStopped' = chStopped \cup {c}
          /\ cyc' = IF kind[c] = "out" THEN HandleChannelStop(k) ELSE cyc
          /\ UNCHANGED pendClose
    /\ UNCHANGED <<stopPhase, pendConnect, kind, auth, loopOf, cycOf,
                   created, started, join>>

\* A started channel stops on its own: expiration or inactivity timer, a
\* read failure, or a protocol (ping, address) stopping it.
ChannelStop(c) ==
    /\ c \in started \ chStopped
    /\ chStopped' = chStopped \cup {c}
    /\ UNCHANGED <<stopPhase, pendConnect, pendHandshake, pendClose, ph, kind,
                   auth, loopOf, cycOf, created, started, cyc, join>>

\* session::handle_remove, run from the stop subscription of an adopted
\* channel: p2p::remove, then handle_stopped (outbound: new_connection).
Remove(c) ==
    /\ ph[c] = "adopted"
    /\ c \in chStopped
    /\ pendClose' = RemoveChannel(c)
    /\ ph' = [ph EXCEPT ![c] = "done"]
    /\ cyc' = IF kind[c] = "out" THEN HandleChannelStop(cycOf[c]) ELSE cyc
    /\ UNCHANGED <<stopPhase, pendConnect, pendHandshake, kind, auth, loopOf,
                   cycOf, created, started, chStopped, join>>

(***************************************************************************)
(* p2p::stop: set stopped_ and invoke the stop subscribers (every session  *)
(* sets its stopped_ flag), then stop pending_connect_ (each connector is  *)
(* stopped), then pending_handshake_ and pending_close_ (each channel is   *)
(* stopped).  A stopped collection refuses every later store.              *)
(***************************************************************************)
StopSessions ==
    /\ stopPhase = 0
    /\ stopPhase' = 1
    /\ UNCHANGED <<pendConnect, pendHandshake, pendClose, ph, kind, auth,
                   loopOf, cycOf, created, started, chStopped,
                   cyc, join>>

\* Stopping the connectors closes pending_connect_; what a stopped
\* connector then delivers (a failure, or a channel whose connect was in
\* flight) is ConnectResult's choice.
StopConnectors ==
    /\ stopPhase = 1
    /\ stopPhase' = 2
    /\ UNCHANGED <<pendConnect, pendHandshake, pendClose, ph, kind, auth,
                   loopOf, cycOf, created, started, chStopped, cyc, join>>

\* Mutant: a pending collection whose stop only refuses later stores and
\* does not stop the channels it holds.
StopChannelsNoStop(phase, pending) ==
    /\ stopPhase = phase
    /\ stopPhase' = phase + 1
    /\ UNCHANGED <<pendConnect, pendHandshake, pendClose, ph, kind, auth,
                   loopOf, cycOf, created, started, chStopped,
                   cyc, join>>

StopChannels(phase, pending) ==
    /\ stopPhase = phase
    /\ stopPhase' = phase + 1
    /\ chStopped' = chStopped \cup pending
    /\ UNCHANGED <<pendConnect, pendHandshake, pendClose, ph, kind, auth,
                   loopOf, cycOf, created, started, cyc, join>>

StopHandshakes == StopChannels(2, pendHandshake)
StopAdopted    == StopChannels(3, pendClose)

Next ==
    \/ \E k \in Cycles : NewConnection(k)
    \/ \E c \in Chans, ok \in BOOLEAN : ConnectResult(c, ok)
    \/ \E c \in Chans : StartChannel(c)
    \/ \E c \in Chans, from \in Chans \cup {NoChan} : Accept(c, from)
    \/ \E c \in Chans, ok \in BOOLEAN : HandshakeDone(c, ok)
    \/ \E c \in Chans : ChannelStop(c)
    \/ \E c \in Chans : Remove(c)
    \/ StopSessions \/ StopConnectors \/ StopHandshakes \/ StopAdopted

(***************************************************************************)
(* Fairness.  p2p::stop, once called, runs to its end; a dial ends by its *)
(* connect_timeout; a handshake ends by its channel_handshake timer; the  *)
(* stop notification of a channel, the delayed new_connection and the     *)
(* completion of registration are queued on the thread pool.  Neither the *)
(* call of p2p::stop nor the channel's own timers are assumed to happen.  *)
(***************************************************************************)
Fairness ==
    /\ WF_vars(StopConnectors) /\ WF_vars(StopHandshakes) /\ WF_vars(StopAdopted)
    /\ \A k \in Cycles : WF_vars(NewConnection(k))
    /\ \A c \in Chans :
          /\ WF_vars(\E ok \in BOOLEAN : ConnectResult(c, ok))
          /\ WF_vars(StartChannel(c))
          /\ WF_vars(\E ok \in BOOLEAN : HandshakeDone(c, ok))
          /\ WF_vars(Remove(c))

Spec == Init /\ [][Next]_vars /\ Fairness

\* Adds the channel_expiration timer armed by channel::do_start: a started
\* channel eventually stops.  A channel never started has no timer.
TimedSpec == Spec /\ \A c \in Chans : WF_vars(ChannelStop(c))

-----------------------------------------------------------------------------
(***************************************************************************)
(* Properties                                                              *)
(***************************************************************************)
\* The channel an outbound cycle currently owns (registering to removed).
Owned(k) == {c \in Chans : cycOf[c] = k /\ ph[c] \in {"registering",
                                                      "handshaking", "adopted"}}

\* Outbound slot accounting (session_outbound: each of the
\* outbound_connections cycles holds at most one channel, and a cycle that
\* lost its channel always goes back to new_connection).  A cycle is in
\* state "channel" exactly when it owns one channel, and never owns two.
SlotAccounting ==
    \A k \in Cycles :
        /\ Cardinality(Owned(k)) <= 1
        /\ (cyc[k] = "channel") <=> (Owned(k) # {})

StopDrainsConnections ==
    CloseClosed => pendClose \subseteq chStopped

\* Once p2p::stop has run, every outbound cycle ends and pending_close_
\* empties (connection_count() reaches zero).
StopTerminates ==
    CloseClosed ~> (pendClose = {} /\ \A k \in Cycles : cyc[k] = "off")

\* A connection to ourselves is refused (spec: a peer version carrying our
\* own channel's nonce fails adoption): the two ends of a loopback are never
\* both held in pending_close_.
NoSelfConnection ==
    \A i \in pendClose : loopOf[i] = NoChan \/ loopOf[i] \notin pendClose

\* Every channel that is constructed is eventually stopped (session.cpp:
\* "all closures must eventually be invoked as otherwise it is a leak").
ChannelsEventuallyStopped ==
    \A c \in Chans : (c \in created) ~> (c \in chStopped)

=============================================================================

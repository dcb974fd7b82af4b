------------------------------- MODULE Connector -------------------------------
(***************************************************************************)
(* The connectors of a batch (connector.cpp), each with its one connect    *)
(* call: the resolve, then the connect_timeout timer raced against         *)
(* async_connect through a synchronizer of count 1 with on_error           *)
(* termination, and connector::stop from p2p stop (pending_connect_.stop)  *)
(* at any time.  stop cancels the resolver and the timer (whose handlers   *)
(* run later with an error); it does not touch the socket.                 *)
(***************************************************************************)
EXTENDS Naturals

CONSTANT Conns   \* the connectors pended in pending_connect_

None == "none"

VARIABLES
    stopped,    \* connector::stopped_
    st,         \* the connect call: "idle", "resolving", "racing", "ended"
    timer,      \* the deadline: "none", "armed", "cancelled", "done"
    sock,       \* async_connect: "none", "connecting", "done"
    delivered,  \* first code the connect handler received, or None
    calls,      \* times the connect handler has been invoked
    afterStop   \* history: the handler was first invoked after stop

vars == <<stopped, st, timer, sock, delivered, calls, afterStop>>

\* Every variable is a function of the connector; c's entry changes.
Set(f, c, v) == [f EXCEPT ![c] = v]

\* The session's handler of connector c is invoked with code ec.
Invoke(c, ec) ==
    /\ delivered' = IF delivered[c] = None THEN Set(delivered, c, ec) ELSE delivered
    /\ afterStop' = IF delivered[c] = None THEN Set(afterStop, c, stopped[c])
                    ELSE afterStop
    /\ calls' = Set(calls, c, calls[c] + 1)

\* dispatch_.concurrent(handler, ec, nullptr): the handler runs on the pool.
Dispatch(c, ec) ==
    /\ Invoke(c, ec)
    /\ st' = Set(st, c, "ended")

\* Mutant: the join keeps invoking the handler on every error.
JoinEveryError(c, ec) ==
    IF calls[c] = 0 \/ ec # "success" THEN Invoke(c, ec)
    ELSE UNCHANGED <<delivered, calls, afterStop>>

\* synchronize(handler, 1, NAME, on_error): the first completion, error or
\* success, invokes the handler; later ones are dropped.
Join(c, ec) ==
    IF calls[c] = 0 THEN Invoke(c, ec)
    ELSE UNCHANGED <<delivered, calls, afterStop>>

\* New connectors (stopped_ false) that their session has pended.
Init ==
    /\ stopped = [c \in Conns |-> FALSE]
    /\ st = [c \in Conns |-> "idle"]
    /\ timer = [c \in Conns |-> "none"]
    /\ sock = [c \in Conns |-> "none"]
    /\ delivered = [c \in Conns |-> None]
    /\ calls = [c \in Conns |-> 0]
    /\ afterStop = [c \in Conns |-> FALSE]

\* connector::stop: the first call cancels the resolver (its handler runs
\* later) and stops the timer, under the exclusive lock.
Stop(c) ==
    /\ ~stopped[c]
    /\ stopped' = Set(stopped, c, TRUE)
    /\ timer' = IF timer[c] = "armed" THEN Set(timer, c, "cancelled") ELSE timer
    /\ UNCHANGED <<st, sock, delivered, calls, afterStop>>

\* connector::connect: a stopped connector dispatches service_stopped,
\* otherwise the query is built and async_resolve started.
Connect(c) ==
    /\ st[c] = "idle"
    /\ IF stopped[c] THEN Dispatch(c, "service_stopped")
       ELSE st' = Set(st, c, "resolving") /\ UNCHANGED <<delivered, calls, afterStop>>
    /\ UNCHANGED <<stopped, timer, sock>>

\* Mutant: the stopped branch of handle_resolve returns without dispatching.
HandleResolveSilent(c, ok) ==
    IF stopped[c]
    THEN st' = Set(st, c, "ended") /\ UNCHANGED <<timer, sock, delivered, calls, afterStop>>
    ELSE IF ~ok THEN Dispatch(c, "resolve_failed") /\ UNCHANGED <<timer, sock>>
    ELSE /\ timer' = Set(timer, c, "armed") /\ sock' = Set(sock, c, "connecting")
         /\ st' = Set(st, c, "racing")
         /\ UNCHANGED <<delivered, calls, afterStop>>

\* connector::handle_resolve under the shared lock (so stop cannot come
\* between its test and the arming of both legs): stopped -> service_stopped;
\* a resolve error -> resolve_failed; otherwise the timer and async_connect
\* start, both completing into the join.
HandleResolve(c, ok) ==
    IF stopped[c] THEN Dispatch(c, "service_stopped") /\ UNCHANGED <<timer, sock>>
    ELSE IF ~ok THEN Dispatch(c, "resolve_failed") /\ UNCHANGED <<timer, sock>>
    ELSE /\ timer' = Set(timer, c, "armed") /\ sock' = Set(sock, c, "connecting")
         /\ st' = Set(st, c, "racing")
         /\ UNCHANGED <<delivered, calls, afterStop>>

\* The resolve completes (or is cancelled by stop; it then sees stopped_).
Resolve(c, ok) ==
    /\ st[c] = "resolving"
    /\ HandleResolve(c, ok)
    /\ UNCHANGED <<stopped>>

\* connector::handle_timer: the expired or stopped deadline completes the
\* join with channel_timeout or its own error.
HandleTimer(c) ==
    /\ timer[c] \in {"armed", "cancelled"}
    /\ timer' = Set(timer, c, "done")
    /\ Join(c, IF timer[c] = "cancelled" THEN "operation_canceled" ELSE "channel_timeout")
    /\ UNCHANGED <<stopped, st, sock>>

\* connector::handle_connect: a connect error completes the join with it;
\* success builds a channel around the socket and completes the join with
\* it (a join already completed drops the channel unstopped: nothing
\* cancels the connect when the timer wins).
HandleConnect(c, ok) ==
    /\ sock[c] = "connecting"
    /\ sock' = Set(sock, c, "done")
    /\ Join(c, IF ok THEN "success" ELSE "connect_failed")
    /\ UNCHANGED <<stopped, st, timer>>

Next ==
    \E c \in Conns :
       \/ Stop(c) \/ Connect(c) \/ HandleTimer(c)
       \/ \E ok \in BOOLEAN : Resolve(c, ok) \/ HandleConnect(c, ok)

\* The session calls connect after pending the connector; the resolver,
\* the deadline and the socket each complete on the pool.  Stop is never
\* forced.
Fairness ==
    \A c \in Conns :
       /\ WF_vars(Connect(c)) /\ WF_vars(HandleTimer(c))
       /\ WF_vars(\E ok \in BOOLEAN : Resolve(c, ok))
       /\ WF_vars(\E ok \in BOOLEAN : HandleConnect(c, ok))

Spec == Init /\ [][Next]_vars /\ Fairness

-----------------------------------------------------------------------------
\* Spec 4.F / 8: the connect handler is invoked at most once, whichever of
\* stop, resolve, timer and async_connect complete and in whatever order
\* (the on_error join of count 1 and the dispatches of connect and
\* handle_resolve).
HandlerOnce == \A c \in Conns : calls[c] <= 1

\* The connectors implement Dial, the promise Network's ConnectResult relies
\* on: each connect call's handler (session_batch::handle_connect, which
\* unpends the connector) eventually gets one final outcome, also when stop
\* cancels the resolve or the timer; a channel (success) may still be
\* delivered after stop.
D == INSTANCE Dial
        WITH outcome <- [c \in Conns |-> IF delivered[c] = None THEN "pending"
                                         ELSE IF delivered[c] = "success"
                                         THEN "channel" ELSE "failed"]

DialRefinement == D!Spec

\* Spec 8: stop cancels outstanding I/O, so a connector stopped before it
\* answered never delivers a channel.
NoSuccessAfterStop ==
    \A c \in Conns : delivered[c] = "success" => ~afterStop[c]

=============================================================================

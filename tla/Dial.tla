--------------------------------- MODULE Dial ---------------------------------
(***************************************************************************)
(* What a connector promises the session that pended it, and what Network *)
(* assumes of it in ConnectResult: the handler of each connect call gets   *)
(* one outcome, a channel or a failure, and gets it eventually.  A stop    *)
(* (pending_connect_.stop at p2p stop) may come at any time and does not   *)
(* rule out a channel.                                                     *)
(***************************************************************************)
CONSTANT Conns

VARIABLES
    outcome,  \* "pending", "channel" or "failed"
    stopped   \* the connector has been stopped

dvars == <<outcome, stopped>>

Outcomes == {"channel", "failed"}

Init ==
    /\ outcome = [c \in Conns |-> "pending"]
    /\ stopped = [c \in Conns |-> FALSE]

Deliver(c, o) ==
    /\ outcome[c] = "pending"
    /\ outcome' = [outcome EXCEPT ![c] = o]
    /\ UNCHANGED stopped

Stop(c) ==
    /\ ~stopped[c]
    /\ stopped' = [stopped EXCEPT ![c] = TRUE]
    /\ UNCHANGED outcome

Next == \E c \in Conns : Stop(c) \/ \E o \in Outcomes : Deliver(c, o)

Spec == Init /\ [][Next]_dvars
             /\ \A c \in Conns : WF_dvars(\E o \in Outcomes : Deliver(c, o))

=============================================================================

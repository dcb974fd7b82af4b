------------------------------ MODULE Handshake ------------------------------
(***************************************************************************)
(* What the version handshake of one channel promises to the session that  *)
(* attached it (session::attach_handshake_protocols): the result handler   *)
(* is invoked with one outcome, success or an error, and that outcome is   *)
(* final.  Independently, the channel may be stopped at any time.  Under   *)
(* fairness the outcome is eventually delivered (the handshake is bounded  *)
(* by the channel_handshake timer).                                        *)
(***************************************************************************)

VARIABLES
    status,      \* "pending", "succeeded" or "failed"
    chanStopped  \* the channel (proxy) has been stopped

hvars == <<status, chanStopped>>

Init ==
    /\ status = "pending"
    /\ chanStopped = FALSE

Succeed ==
    /\ status = "pending"
    /\ status' = "succeeded"
    /\ UNCHANGED chanStopped

\* A failed handshake always leaves the channel stopped (the session stops it).
Fail ==
    /\ status = "pending"
    /\ status' = "failed"
    /\ chanStopped' = TRUE

Stop ==
    /\ ~chanStopped
    /\ chanStopped' = TRUE
    /\ UNCHANGED status

Next == Succeed \/ Fail \/ Stop

Spec == Init /\ [][Next]_hvars /\ WF_hvars(Succeed \/ Fail)

=============================================================================

-------------------------- MODULE MCVersionProtocol --------------------------
(* Model-checking instance of VersionProtocol: protocol_minimum 60001,    *)
(* protocol_maximum 60001 (version_31402 attached) or 70002 (_70002), an   *)
(* outbound or a default-constructed protocol, own services node_network   *)
(* (1, required on outbound), 2 an invalid service.  The peer values       *)
(* cover a too-old peer, an equal one and a newer one (so that the         *)
(* negotiated minimum matters); the services cover sufficient,             *)
(* insufficient and invalid bitmaps.                                       *)
EXTENDS VersionProtocol

MCPeerValues == {31402, 70002, 70013}
MCPeerServices == {0, 1, 3}
=============================================================================

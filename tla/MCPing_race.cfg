\* The first heartbeat may fire while start's send_ping is still running
\* (channel_heartbeat of zero, or a start delayed by a whole heartbeat).
\* The negotiated version is bip31, so protocol_ping_60001 is attached.
CONSTANTS
    MaxPings = 3
    StartWithinHeartbeat = FALSE
    MaxPeerPings = 2
    Versions = {60001}

SPECIFICATION Spec
INVARIANT BadStreamOnlyOnMismatch
CHECK_DEADLOCK FALSE

\* Ping as in MCPing (three pings, start's send_ping before the first
\* heartbeat); a host pool and a configured self, so address and
\* get_address stay subscribed; two frames, enough for an address store
\* in flight and a read racing the stop.  The negotiated version lies
\* below bip31, at bip31 and at bip61, so both ping protocols run and
\* reject is attached or not.
CONSTANTS
    MaxPings = 3
    StartWithinHeartbeat = TRUE
    MaxPeerPings = 2
    Versions = {31402, 60001, 70002}
    HostPoolCapacity = 100
    SelfConfigured = TRUE
    MaxFrames = 2

SPECIFICATION Spec
INVARIANT BadStreamOnlyOnMismatch PingsAnswered
PROPERTY PingResolved StopReachesProtocols
\* The channel stops, or every bound is spent with nothing outstanding.
CHECK_DEADLOCK FALSE

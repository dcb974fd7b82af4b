CONSTANTS
    ProtocolMinimum = 60001
    ProtocolMaximums = {60001, 70002}
    LevelMinimum = 31402
    LevelMaximum = 70013
    InvalidServices = 2
    OwnServices = 1
    PeerValues <- MCPeerValues
    PeerServices <- MCPeerServices

SPECIFICATION Spec

PROPERTY NoSuccessAfterStop

\* A single handshake ends in a final state (outcome delivered, channel
\* stopped or in steady state) where no step of this protocol is enabled.
CHECK_DEADLOCK FALSE

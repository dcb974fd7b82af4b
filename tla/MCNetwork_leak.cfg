\* One outbound cycle with batches of two and three ids: enough for a batch
\* with a winner and a loser plus an accepted channel when p2p::stop comes.
\* No symmetry reduction: the property is a liveness property.
CONSTANTS
    c1 = c1  c2 = c2  c3 = c3  c4 = c4
    SelfAddr = SelfAddr  PeerA = PeerA  BadAddr = BadAddr  NoChan = NoChan
    Chans <- MCChansSmall
    Hosts <- MCHosts
    Self = SelfAddr
    Blacklist = {BadAddr}
    OutboundConnections = 1
    BatchSize = 2
    ConnectionLimit = 2

SPECIFICATION TimedSpec
PROPERTY ChannelsEventuallyStopped
CHECK_DEADLOCK FALSE

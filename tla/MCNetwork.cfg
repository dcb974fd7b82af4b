\* Two outbound cycles with batches of two, three ids shared by dials and
\* accepts, a host pool holding our own address, one peer and one
\* blacklisted address.  Two cycles are needed for two outbound channels to
\* the same address; three ids let both cycles hold a channel while a batch
\* loser or an accepted channel is pending when p2p::stop comes.  No
\* symmetry reduction: StopTerminates is a liveness property.
CONSTANTS
    c1 = c1  c2 = c2  c3 = c3  c4 = c4
    SelfAddr = SelfAddr  PeerA = PeerA  BadAddr = BadAddr  NoChan = NoChan
    Chans <- MCChansSmall
    Hosts <- MCHosts
    Self = SelfAddr
    Blacklist = {BadAddr}
    OutboundConnections = 2
    BatchSize = 2
    ConnectionLimit = 2

SPECIFICATION Spec
INVARIANT SlotAccounting StopDrainsConnections 
PROPERTY StopTerminates
\* Once p2p::stop has completed, or every id is spent, nothing more happens.
CHECK_DEADLOCK FALSE

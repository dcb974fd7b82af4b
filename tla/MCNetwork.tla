------------------------------ MODULE MCNetwork ------------------------------
EXTENDS Network, TLC

CONSTANTS c1, c2, c3, c4, SelfAddr, PeerA, BadAddr

MCChans == {c1, c2, c3, c4}
\* The smaller id set of the liveness runs (no symmetry reduction there).
MCChansSmall == {c1, c2, c3}
MCHosts == {SelfAddr, PeerA, BadAddr}

\* Ids are only compared for equality, so their permutations are symmetric.
MCSymmetry == Permutations(MCChans)

=============================================================================

----------------------------- MODULE MCConnector -----------------------------
EXTENDS Connector, TLC

CONSTANTS k1, k2

\* The two connectors of a batch of connect_batch_size 2.
MCConns == {k1, k2}

=============================================================================

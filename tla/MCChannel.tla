------------------------------- MODULE MCChannel -------------------------------
EXTENDS Channel

=============================================================================

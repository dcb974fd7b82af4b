------------------------------ MODULE MCStartup ------------------------------
EXTENDS Startup, TLC

CONSTANTS s1, s2, s3

\* Two seeds that can deliver addresses and one on a blacklisted address.
MCSeeds == {s1, s2, s3}

=============================================================================

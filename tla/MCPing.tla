-------------------------------- MODULE MCPing --------------------------------
EXTENDS Ping

=============================================================================

\* Two connectors, as in MCConnector.cfg.
CONSTANTS k1 = k1  k2 = k2
    Conns <- MCConns
SPECIFICATION Spec
INVARIANT NoSuccessAfterStop
CHECK_DEADLOCK FALSE

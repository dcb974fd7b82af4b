\* Two connectors of one batch: every order of connect, resolve, timer, async_connect and
\* stop, each with success and failure.
CONSTANTS k1 = k1  k2 = k2
    Conns <- MCConns
SPECIFICATION Spec
INVARIANT HandlerOnce
PROPERTY DialRefinement
\* Once the handler ran and both legs completed, the connector is idle.
CHECK_DEADLOCK FALSE

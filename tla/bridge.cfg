CONSTANTS
    Requests = {r1, r2, r3}
    Closers = {k1}
    MaxConnections = 1
SPECIFICATION FairBridgeSpec
INVARIANTS CloseLeavesNothing TunnelLimit
PROPERTIES CloseReturns TunnelEnds

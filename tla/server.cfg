CONSTANTS
    Starters = {s1, s2}
    Callers = {k1}
    MaxConn = 1
    MaxAccepts = 2
    MaxMsgs = 1
SPECIFICATION FairSpec
INVARIANTS QuiescentAfterShutdown ManagerExact
PROPERTIES NoAddDuringWait RequestsBetweenHooks ShutdownFinishes ClosedIsReleased

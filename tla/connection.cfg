CONSTANTS
    Senders = {a}
    BuffSenders = {n}
    Closers = {k}
    MaxMsgChanLen = 1
    MaxSends = 3
    MaxReads = 1
SPECIFICATION FairSpec
INVARIANTS GateExact StreamIntegrity JoinedOnReturn
PROPERTIES StopEndsConnection StopReleasesSenders

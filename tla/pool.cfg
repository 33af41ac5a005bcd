CONSTANTS
    Conns = {1, 3}
    WorkerPoolSize = 2
    MaxWorkerTaskLen = 1
    Starters = {s1, s2}
    Stoppers = {p1, p2}
    NoProc = NoProc
    MaxMsgs = 2
SPECIFICATION FairSpec
INVARIANTS NoSendOnClosedQueue PerConnectionOrder DrainedOnReturn
PROPERTIES NoAddDuringWait StopReturns CallReturns ImplementsTaskPool

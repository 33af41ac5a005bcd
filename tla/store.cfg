CONSTANTS
    Players = {1, 2}
    Values = {x, y}
    Callers = {k1, k2}
    NoCaller = NoCaller
SPECIFICATION StoreSpec
INVARIANTS NoLostUpdate

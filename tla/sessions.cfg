CONSTANTS
    Tokens = {t1, t2, t3, t4}
    Accounts = {a, b}
    MaxPlayerID = 3
    ConnIDs = {0, 1}
    TTLs = {1, 2}
    Times = {0, 1, 2, 3, 4, 5}
    StartPlayerID = 1
    MaxTime = 3
SPECIFICATION Spec
SYMMETRY Symmetry
INVARIANTS Coherent LegacyIDsFresh NoSilentLoss
PROPERTIES BindingStable ActiveNotDisplaced

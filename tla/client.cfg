CONSTANTS
    Arenas = {1, 2}
    Backlog = 1
    MaxGeneration = 2
    MaxQueue = 1
SPECIFICATION PageSpec
INVARIANTS SingleConnection ViewAgrees
PROPERTIES ConnectingEnds

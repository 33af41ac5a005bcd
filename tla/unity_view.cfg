CONSTANTS
    Conns = {1, 2}
    RoomIDs = {1, 2}
    FirstRoomMax = 1
    WorldWidth = 6
    WorldHeight = 1
    CellWidth = 2
    CellHeight = 1
    Positions <- Near
    Requests = {"move"}
    MaxRequests = 2
    MayFail = FALSE
SPECIFICATION Spec
INVARIANTS ViewsExact

CONSTANTS
    Conns = {1, 2}
    RoomIDs = {1, 2}
    FirstRoomMax = 1
    WorldWidth = 6
    WorldHeight = 1
    CellWidth = 2
    CellHeight = 1
    Positions <- Places
    Requests = {"move", "create", "join", "leave"}
    MaxRequests = 3
    MayFail = TRUE
SPECIFICATION Spec
INVARIANTS WorldExact MembershipExact

CONSTANTS
    WorldWidth = 6
    WorldHeight = 2
    CellWidth = 2
    CellHeight = 2
    Conns = {1, 2}
    MaxPlayers <- Places
    Crystals <- CrystalsAt
    Spawn <- SpawnAt
    Margin = 1
    Speed = 3
    Reach = 1
    Directions <- East
    AuthTime = 0
    InputTime = 0
    RespawnTime = 1
    TTL = 1
    Capacity = 2
    TickPeriod = 2
    MaxGuests = 2
    MaxSeq = 1
    MaxTime = 1
SPECIFICATION FairSpec
INVARIANTS ArenaExact
PROPERTIES CollectedOnce OverdueStopped

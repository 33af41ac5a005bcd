CONSTANTS
    Accounts = {a, b}
    Conns = {c1, c2}
    Rooms = {1, 2}
    MaxPlayers = 1
    AuthTime = 1
    TTL = 2
    MaxLogins = 3
    MaxTime = 2
SPECIFICATION FairSpec
INVARIANTS RoomsExact AuthenticatedExact RewardOnce
PROPERTIES OverdueDropped

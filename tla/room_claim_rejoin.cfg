SPECIFICATION Spec
CONSTANTS
    Players = {p1, p2, p3}
    None = None
    MinPlayers = 2
    MaxPlayers = 3
PROPERTY EmptiedRoomGetsHost

SPECIFICATION Spec
CONSTANTS
    Players = {p1, p2}
    Sockets = {c1, c2}
    Rooms = {r1, r2}
    Capacity = 2
    MinPlayers = 2
    MaxMatches = 2
    None = None
PROPERTY ShownUntilLeft
CHECK_DEADLOCK FALSE

SPECIFICATION FairSpec
CONSTANTS
    Players = {p1, p2, p3, p4}
    None = None
    MinPlayers = 2
    MaxPlayers = 4
INVARIANTS RoomHasHost AbsentHostIsTimed SeatedTogether RoomFits
PROPERTIES HandoverIsFair AbsentHostIsReplaced

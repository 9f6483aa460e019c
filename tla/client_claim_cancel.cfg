SPECIFICATION Spec
CONSTANTS
    MaxGames = 2
    MaxDown = 3
    Races = {"cancel"}
    None = None
INVARIANT NobodyUnseenAtTheTable
CHECK_DEADLOCK FALSE

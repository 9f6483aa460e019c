SPECIFICATION Spec
CONSTANTS
    N = 4
    MaxDisconnects = 1
    ReconnectDuration = 2
    Duration <- Short
    Impostors = {2}
    Flaky = {1, 2}
    Leavers = {}
INVARIANTS NobodyAwaitedInVain TurnHasHolder StrikesAreEarned NoStrikeIsSpared
PROPERTIES BallotsAreKept TurnClockNeverGrows KeepsRoster
CHECK_DEADLOCK FALSE

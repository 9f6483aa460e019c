SPECIFICATION FairSpec
CONSTANTS
    N = 4
    MaxDisconnects = 1
    ReconnectDuration = 1
    Duration <- Short
    Impostors = {3}
    Flaky = {2}
    Leavers = {}
PROPERTIES QuietTableEnds TableMovesOn
CHECK_DEADLOCK FALSE

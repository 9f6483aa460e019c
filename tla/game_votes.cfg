SPECIFICATION Spec
CONSTANTS
    N = 4
    MaxDisconnects = 2
    ReconnectDuration = 1
    Duration <- Short
    Impostors = {1, 3}
    Flaky = {}
    Leavers = {1, 2, 3, 4}
INVARIANTS BallotsAreSound UndecidedWhileLive VerdictIsFair
PROPERTY KeepsPromise
CHECK_DEADLOCK FALSE

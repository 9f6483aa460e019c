SPECIFICATION Spec
CONSTANTS
    N = 5
    HintSeconds = 2
    VoteTransitionSeconds = 1
    GuessSeconds = 2
    Impostors = {2}
    None = None
INVARIANTS SecretsAreHandedOver BallotsAreWhole
PROPERTY KeepsOnlineRules
CHECK_DEADLOCK FALSE

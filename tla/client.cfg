SPECIFICATION Spec
CONSTANTS
    MaxGames = 3
    MaxDown = 4
    Races = {}
    None = None
INVARIANTS QuietAppAgrees ResultsAreCounted
CHECK_DEADLOCK FALSE

SPECIFICATION FairSpec
CONSTANTS
    Players = {p1, p2, p3}
    Rooms = {r1, r2}
    Categories = {a, b}
    MinPlayers = 2
    CountdownPlayers = 3
    MaxPlayers = 3
    Wait = 2
    Countdown = 1
    NoMatch = 2
    Grace = 1
    Flaky = {p1, p2}
    Overtaken = {}
    None = None
INVARIANTS InOneMatch SearchersShare TimersFollowSearchers
PROPERTIES NobodyDealtOffline MatchIsSeenOut StartIsNotPostponed SearchesEnd
CHECK_DEADLOCK FALSE

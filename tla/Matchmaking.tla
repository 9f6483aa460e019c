----------------------------- MODULE Matchmaking -----------------------------
(***************************************************************************)
(* Forming online matches: server/internal/matchmaking/matchmaking.go and  *)
(* server/internal/api/matchmaking.go, with the parts of ws.go and game.go *)
(* that call them.                                                         *)
(*                                                                         *)
(* An online match is a public room.  While its phase is "lobby" its       *)
(* members are the players who search in it; when its match has ended      *)
(* ("ended") they are sent out, before anything else can happen, and those *)
(* who play again search in it once more.  A room nobody is in is in no    *)
(* list, but the sessions that show its last match still know it.          *)
(*                                                                         *)
(* Every deadline is the time that is left until it, 0 once it has passed: *)
(* timers may fire late, and a command may come before them.  A category   *)
(* stands for a category in a language.                                    *)
(***************************************************************************)
EXTENDS Integers, FiniteSets

CONSTANTS
    Players,          \* sessions of players
    Rooms,            \* bound: public rooms at a time
    Categories,
    MinPlayers,       \* players needed to start a match
    CountdownPlayers, \* players who start the countdown
    MaxPlayers,       \* players a match takes
    Wait,             \* from MinPlayers to the start
    Countdown,        \* from CountdownPlayers to the start
    NoMatch,          \* a search with fewer than MinPlayers
    Grace,            \* a place is kept for who drops
    Flaky,            \* bound: players whose connection may drop
    Overtaken,        \* bound: players with a command that outlives its socket and the next one
    None

ASSUME PlayersAssumption ==
    /\ {MinPlayers, CountdownPlayers, MaxPlayers} \subseteq Nat \ {0}
    /\ MinPlayers <= CountdownPlayers /\ CountdownPlayers <= MaxPlayers
ASSUME TimesAssumption == {Wait, Countdown, NoMatch, Grace} \subseteq Nat \ {0}
ASSUME BoundsAssumption == Overtaken \subseteq Players /\ None \notin Rooms

VARIABLES
    player, \* of each player: the socket, the match shown, and the search
    room    \* of each room: its phase, members and start timers

vars == <<player, room>>

Never == -1
Times == {Wait, Countdown, NoMatch, Grace}
Timer == {Never} \cup UNION {0 .. t : t \in Times}
Later(t) == IF t > 0 THEN t - 1 ELSE t
Earlier(t, u) == IF t = Never \/ (u # Never /\ u < t) THEN u ELSE t

\* `all' is the state in the middle of a handler: [player |-> ..., room |-> ...].
Now == [player |-> player, room |-> room]
Becomes(all) == player' = all.player /\ room' = all.room

-----------------------------------------------------------------------------
(* Forming matches *)

BugSearching(all, r) == all.room[r].phase # "playing"

\* Still forming a match: not when the last one has ended and its players are still in.
Searching(all, r) == all.room[r].phase = "lobby"

IsMember(all, p) == \E r \in Rooms : p \in all.room[r].members
RoomOf(all, p) == CHOOSE r \in Rooms : p \in all.room[r].members

SharedCategories(all, r) == {c \in Categories : \A q \in all.room[r].members : c \in all.player[q].categories}

BugAcceptsPairwise(all, r, categories) ==
    LET members == all.room[r].members
    IN  /\ Searching(all, r)
        /\ Cardinality(members) < MaxPlayers
        /\ members # {} => \E q \in members : all.player[q].categories \cap categories # {}

Accepts(all, r, categories) ==
    LET members == all.room[r].members
    IN  /\ Searching(all, r)
        /\ Cardinality(members) < MaxPlayers
        /\ members # {} => SharedCategories(all, r) \cap categories # {}

BugUpdateRestarts(m, count) ==
    [m EXCEPT !.wait = IF count < MinPlayers THEN Never ELSE Wait,
              !.countdown = IF count < MinPlayers THEN Never
                            ELSE IF @ = Never /\ count >= CountdownPlayers THEN Countdown ELSE @]

BugUpdateKeepsCountdown(m, count) ==
    [m EXCEPT !.wait = IF count < MinPlayers THEN Never ELSE IF @ = Never THEN Wait ELSE @,
              !.countdown = IF @ = Never /\ count >= CountdownPlayers THEN Countdown ELSE @]

\* The countdown goes on with fewer players, down to MinPlayers.
Update(m, count) ==
    [m EXCEPT !.wait = IF count < MinPlayers THEN Never ELSE IF @ = Never THEN Wait ELSE @,
              !.countdown = IF count < MinPlayers THEN Never
                            ELSE IF @ = Never /\ count >= CountdownPlayers THEN Countdown ELSE @]

StartIn(m) == Earlier(m.wait, m.countdown)

LobbyChanged(all, r) == [all EXCEPT !.room[r] = Update(@, Cardinality(@.members))]

\* What a session keeps of its last search is read again only while it shows a match.
Idle(s) == [s EXCEPT !.search = Never, !.gone = Never, !.categories = IF s.shows = None THEN {} ELSE @]

Without(all, r, leaving) ==
    [player |-> [p \in Players |-> IF p \in leaving THEN Idle(all.player[p]) ELSE all.player[p]],
     room |-> [all.room EXCEPT ![r].members = @ \ leaving]]

\* One at a time in the code; the timers depend only on how many are left.
LeaveSearch(all, r, leaving) ==
    IF leaving = {} THEN all ELSE LobbyChanged(Without(all, r, leaving), r)

\* Everyone's place is given up who was away for the whole grace.
DropAway(all, r) == LeaveSearch(all, r, {p \in all.room[r].members : all.player[p].gone = 0})

BugSettleKeepsPlayers(all, r) ==
    IF all.room[r].phase # "ended" THEN all
    ELSE LobbyChanged([all EXCEPT !.room[r].phase = "lobby"], r)

\* The players of a match that ended leave the room; they go on showing the match.
SettleFinishedMatch(all, r) ==
    IF all.room[r].phase # "ended" THEN all
    ELSE LobbyChanged(Without([all EXCEPT !.room[r].phase = "lobby"], r, all.room[r].members), r)

BeginGame(all, r) ==
    [player |-> [p \in Players |->
        LET s == all.player[p]
        IN  IF p \in all.room[r].members
            THEN [s EXCEPT !.shows = r, !.current = TRUE, !.search = Never, !.gone = Never]
            ELSE [s EXCEPT !.current = @ /\ s.shows # r]],
     room |-> [all.room EXCEPT ![r] = [@ EXCEPT !.phase = "playing", !.wait = Never, !.countdown = Never]]]

BugTickSearchDealsOffline(all, r) ==
    IF ~Searching(all, r) THEN all
    ELSE LET here == DropAway(all, r)
             members == here.room[r].members
         IN  IF Cardinality(members) < MinPlayers
             THEN LeaveSearch(here, r, {p \in members : here.player[p].search = 0})
             ELSE IF StartIn(here.room[r]) > 0 THEN here ELSE BeginGame(here, r)

\* Nobody is dealt into a match while offline: they leave the search instead.
TickSearch(all, r) ==
    IF ~Searching(all, r) THEN all
    ELSE LET here == DropAway(all, r)
             members == here.room[r].members
             offline == {p \in members : here.player[p].gone # Never}
         IN  IF Cardinality(members) < MinPlayers
             THEN LeaveSearch(here, r, {p \in members : here.player[p].search = 0})
             ELSE IF StartIn(here.room[r]) > 0 THEN here
             ELSE IF offline # {} THEN LeaveSearch(here, r, offline)
             ELSE BeginGame(here, r)

BugSearchDueAtStart(r) ==
    /\ Searching(Now, r)
    /\ \/ \E p \in room[r].members : player[p].gone = 0
       \/ StartIn(room[r]) = 0

\* The room's timer has run out: searchDeadline has passed.
SearchDue(r) ==
    /\ Searching(Now, r)
    /\ \/ \E p \in room[r].members : player[p].gone = 0
       \/ IF Cardinality(room[r].members) >= MinPlayers
          THEN StartIn(room[r]) = 0
          ELSE \E p \in room[r].members : player[p].search = 0

\* tickRoom, and the sync or publish that follows every handler.
TickRoom(all, r) == SettleFinishedMatch(TickSearch(all, r), r)

-----------------------------------------------------------------------------
Init ==
    /\ player = [p \in Players |->
          [conn |-> TRUE, shows |-> None, current |-> FALSE,
           categories |-> {}, search |-> Never, gone |-> Never]]
    /\ room = [r \in Rooms |-> [phase |-> "lobby", members |-> {}, wait |-> Never, countdown |-> Never]]

(* Sockets *)

Attach(p) ==
    /\ ~player[p].conn
    /\ player' = [player EXCEPT ![p].conn = TRUE, ![p].gone = Never]
    /\ UNCHANGED room

\* A searching player keeps the place for a while.
Detach(p) ==
    /\ p \in Flaky
    /\ player[p].conn
    /\ LET searches == IsMember(Now, p) /\ Searching(Now, RoomOf(Now, p))
       IN  player' = [player EXCEPT ![p].conn = FALSE, ![p].gone = IF searches THEN Grace ELSE Never]
    /\ UNCHANGED room

\* A command that was read before its socket was replaced is handled after the new one went, too.
CanCommand(p) == player[p].conn \/ p \in Overtaken

(* Commands *)

Enter(all, p, r, categories) ==
    LobbyChanged([player |-> [all.player EXCEPT ![p] =
                     [@ EXCEPT !.shows = None, !.current = FALSE, !.categories = categories,
                               !.search = NoMatch, !.gone = Never]],
                  room |-> [all.room EXCEPT ![r].members = @ \cup {p}]], r)

\* A public room in the list is one somebody is in; a new one is known to nobody.
Listed(r) == room[r].members # {}
Unknown(r) == ~Listed(r) /\ \A p \in Players : player[p].shows # r

\* The fullest room that accepts the player, or else a new one.
Candidates(categories) ==
    LET open == {r \in Rooms : Listed(r) /\ Accepts(Now, r, categories)}
    IN  IF open = {} THEN {r \in Rooms : Unknown(r)}
        ELSE {r \in open : \A other \in open :
                  Cardinality(room[other].members) <= Cardinality(room[r].members)}

Search(p, categories) ==
    /\ CanCommand(p)
    /\ player[p].shows = None
    /\ ~IsMember(Now, p)
    /\ \E r \in Candidates(categories) : Becomes(Enter(Now, p, r, categories))

\* The match the player shows is over: they search again, in its room if that accepts them.
PlayAgain(p) ==
    /\ CanCommand(p)
    /\ player[p].shows # None
    /\ LET previous == player[p].shows
           categories == player[p].categories
       IN  /\ player[p].current => room[previous].phase # "playing"
           /\ \E r \in IF Accepts(Now, previous, categories) THEN {previous} ELSE Candidates(categories) :
                 Becomes(Enter(Now, p, r, categories))

\* matchmaking.cancel, or entering a private room.
Cancel(p) ==
    /\ IsMember(Now, p)
    /\ Searching(Now, RoomOf(Now, p))
    /\ Becomes(LeaveSearch(Now, RoomOf(Now, p), {p}))

\* game.leave, from a running match or from a result.
LeaveMatch(p) ==
    /\ CanCommand(p)
    /\ player[p].shows # None
    /\ LET r == player[p].shows
           home == [Now EXCEPT !.player[p] = Idle([@ EXCEPT !.shows = None, !.current = FALSE])]
       IN  IF player[p].current /\ p \in room[r].members
           THEN \E over \in BOOLEAN :
                   /\ room[r].members = {p} => over
                   /\ Becomes(SettleFinishedMatch(
                         [home EXCEPT !.room[r].members = @ \ {p},
                                      !.room[r].phase = IF over THEN "ended" ELSE @], r))
           ELSE Becomes(home)

(* Timers *)

\* The match moves on: it may remove players who are offline, and end.
MatchMoves(r) ==
    /\ room[r].phase = "playing"
    /\ \E gone \in SUBSET {p \in room[r].members : ~player[p].conn}, over \in BOOLEAN :
          /\ room[r].members = gone => over
          /\ Becomes(TickRoom([Now EXCEPT !.room[r].members = @ \ gone,
                                          !.room[r].phase = IF over THEN "ended" ELSE @], r))

SearchTimer(r) == SearchDue(r) /\ Becomes(TickRoom(Now, r))

Elapse ==
    /\ player' = [p \in Players |-> [player[p] EXCEPT !.search = Later(@), !.gone = Later(@)]]
    /\ room' = [r \in Rooms |-> [room[r] EXCEPT !.wait = Later(@), !.countdown = Later(@)]]
    /\ vars' # vars

Command ==
    \E p \in Players :
        \/ Attach(p) \/ Detach(p) \/ PlayAgain(p) \/ Cancel(p) \/ LeaveMatch(p)
        \/ \E categories \in (SUBSET Categories) \ {{}} : Search(p, categories)

OnItsOwn == Elapse \/ \E r \in Rooms : SearchTimer(r) \/ MatchMoves(r)

Next == Command \/ OnItsOwn

Spec == Init /\ [][Next]_vars

FairSpec == Spec /\ WF_vars(Elapse) /\ \A r \in Rooms : WF_vars(SearchTimer(r))
-----------------------------------------------------------------------------
(* What must hold *)

Forming(r) == room[r].phase = "lobby" /\ room[r].members # {}
Playing(r) == room[r].phase = "playing"

\* Players, rooms and their timers have their shape, and no match is larger than MaxPlayers.
TypeOK ==
    /\ player \in [Players -> [conn : BOOLEAN, shows : Rooms \cup {None}, current : BOOLEAN,
                               categories : SUBSET Categories, search : Timer, gone : Timer]]
    /\ room \in [Rooms -> [phase : {"lobby", "playing"}, members : SUBSET Players,
                           wait : Timer, countdown : Timer]]
    /\ \A r \in Rooms : Cardinality(room[r].members) <= MaxPlayers

\* Joining, playing again, dropping, starting and settling in any order, a player is in one
\* forming or running match: who searches shows no match and has a search time, who plays
\* shows the match that is played, and nobody still shown a finished match searches
\* (settleFinishedMatch).
InOneMatch ==
    \A r \in Rooms : \A p \in room[r].members :
        /\ \A other \in Rooms \ {r} : p \notin room[other].members
        /\ Forming(r) => player[p].shows = None /\ player[p].search # Never
        /\ Playing(r) => player[p].shows = r /\ player[p].current

\* All the searchers of a forming match share a category, not just each two of them: there is
\* a word to start with (sharedCategories).
SearchersShare == \A r \in Rooms : Forming(r) => SharedCategories(Now, r) # {}

\* However its searchers come and go, a forming match has a start exactly while it has enough of
\* them, a countdown only then, and has begun the countdown if it is nearly full; a running match
\* has neither left over (Update, lobbyChanged).
TimersFollowSearchers ==
    \A r \in Rooms :
        LET count == Cardinality(room[r].members)
        IN  /\ Forming(r) =>
                  /\ room[r].wait # Never <=> count >= MinPlayers
                  /\ room[r].countdown # Never => count >= MinPlayers
                  /\ count >= CountdownPlayers => room[r].countdown # Never
            /\ ~Forming(r) => room[r].wait = Never /\ room[r].countdown = Never

\* "Nobody is dealt into a match while offline" (tickSearch), and nobody into a match that is
\* too small or too large.
NobodyDealtOffline ==
    [][\A r \in Rooms : ~Playing(r) /\ Playing(r)' =>
          /\ \A p \in room[r].members' : player[p].conn
          /\ Cardinality(room[r].members') \in MinPlayers .. MaxPlayers]_vars

\* A match is over before its room begins another: whoever shows a running match, in it or
\* removed from it, sees it out, and its players are never dealt into the next one in the moment
\* it ends (the comment in searching).
MatchIsSeenOut ==
    [][\A p \in Players : player[p].current /\ player'[p].shows = player[p].shows /\ ~player'[p].current
          => Forming(player[p].shows)]_vars

\* As long as enough of them stay, nobody who joins, cancels, drops or returns postpones the
\* start of the others (Update: the wait and the countdown are set once).
StartIsNotPostponed ==
    [][\A r \in Rooms :
          Forming(r) /\ Forming(r)' /\ StartIn(room[r]) # Never /\ StartIn(room'[r]) # Never
              => StartIn(room'[r]) <= StartIn(room[r])]_vars

\* Once its players do nothing more, no search goes on for ever: it ends in a match or without
\* one, whoever is offline and whatever the others chose (tickSearch, searchDeadline).
SearchesEnd == <>[][OnItsOwn]_vars => <>[](\A r \in Rooms : ~Forming(r))
=============================================================================

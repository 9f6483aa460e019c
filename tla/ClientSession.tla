---------------------------- MODULE ClientSession ----------------------------
(***************************************************************************)
(* The app's side of an online search and match, against the server that   *)
(* decides: app/lib/state/game_session.dart, with the handlers of          *)
(* server/internal/api it talks to (matchmaking.go, game.go, ws.go).       *)
(*                                                                         *)
(* A connection carries the app's commands one way and the server's states *)
(* and replies the other, each in order; what is under way when it drops   *)
(* is lost, save the commands that had arrived, and every new connection   *)
(* begins with the server's session.state.                                 *)
(***************************************************************************)
EXTENDS Integers, Sequences

CONSTANTS
    MaxGames,         \* bound: matches the player is dealt into
    MaxDown,          \* bound: the server does nothing on its own while this much is on its way
    Races,   \* bound: the calls a screen may make while a state it has not seen is on its way
    None

ASSUME ClientAssumption == MaxGames \in Nat /\ MaxDown \in Nat \ {0} /\ Races \subseteq {"search", "cancel", "leave"}
ASSUME NoneAssumption == None \notin {"win", "loss", "none"}

VARIABLES
    server, \* the session on the server: whether it exists, what it is in, how its matches ended; and as history
            \* those the player was removed from, and the last one before a restart
    up,     \* commands that are on their way, or have arrived and wait for the server
    down,   \* states and replies on their way
    app     \* the app

vars == <<server, up, down, app>>

Games == 1 .. MaxGames
NoGame == 0
Repeats == {"cancel again", "leave again"} \* after a reconnection, of what was done offline

Home(a) == [a EXCEPT !.activity = "none", !.game = NoGame]

NewServer == [known |-> TRUE, activity |-> "none", game |-> NoGame, last |-> NoGame, dealt |-> 0,
              truth |-> [g \in Games |-> None], removed |-> {}, since |-> NoGame]
NewApp == [connected |-> FALSE, activity |-> "none", game |-> NoGame, over |-> NoGame,
           calls |-> {}, left |-> NoGame, cancelPending |-> FALSE, leavePending |-> NoGame,
           counted |-> [g \in Games |-> None]]

Init == server = NewServer /\ up = <<>> /\ down = <<>> /\ app = NewApp

-----------------------------------------------------------------------------
(* The server *)

\* session.state also tells the outcome of the match left last.
StateOf(s) == [type |-> "state", activity |-> s.activity, game |-> s.game, last |-> s.last,
               outcome |-> IF s.last = NoGame THEN None ELSE s.truth[s.last]]
Reply(to, code) == [type |-> "reply", to |-> to, code |-> code]
\* The game.state that tells the player how the match ends for them.
Over(s) == [type |-> "over", game |-> s.game, removed |-> s.game \in s.removed, outcome |-> s.truth[s.game]]
Ended(s) == IF s.game # NoGame /\ (s.truth[s.game] # None \/ s.game \in s.removed) THEN <<Over(s)>> ELSE <<>>

\* What goes out is lost without a connection.
Sends(messages) == down' = IF app.connected THEN down \o messages ELSE <<>>

Leaves(g, to) ==
    IF server.game # g THEN /\ UNCHANGED server /\ Sends(<<Reply(to, "not_found")>>)
    ELSE /\ server' = [server EXCEPT !.activity = "none", !.game = NoGame, !.last = g,
                                     !.truth[g] = IF @ = None THEN "loss" ELSE @]
         /\ Sends(<<StateOf(server'), Reply(to, "ok")>>)

Searches(free, to) ==
    IF ~free THEN /\ UNCHANGED server /\ Sends(<<Reply(to, "refused")>>)
    ELSE /\ server' = [server EXCEPT !.activity = "matchmaking", !.game = NoGame]
         /\ Sends(<<StateOf(server'), Reply(to, "ok")>>)

\* A match already dealt is not left, and the answer is the same.
Cancels(to) ==
    IF server.activity # "matchmaking" THEN /\ UNCHANGED server /\ Sends(<<Reply(to, "ok")>>)
    ELSE /\ server' = [server EXCEPT !.activity = "none"]
         /\ Sends(<<StateOf(server'), Reply(to, "ok")>>)

HandleCommand ==
    /\ up # <<>> /\ server.known
    /\ LET c == Head(up)
       IN  CASE c.type = "join"  -> Searches(server.activity = "none", c.type)
             [] c.type = "again" -> Searches(server.game = c.game /\ server.truth[c.game] # None, c.type)
             [] c.type \in {"cancel", "cancel again"} -> Cancels(c.type)
             [] c.type \in {"leave", "leave again"}   -> Leaves(c.game, c.type)
    /\ up' = Tail(up)
    /\ UNCHANGED app

OnItsOwn == server.known /\ Len(down) < MaxDown /\ UNCHANGED <<up, app>>

CancelUnderWay == "cancel" \in app.calls

Deal ==
    /\ server.activity = "matchmaking" /\ server.dealt < MaxGames
    /\ CancelUnderWay => "cancel" \in Races
    /\ server' = [server EXCEPT !.activity = "game", !.game = server.dealt + 1, !.dealt = @ + 1]
    /\ Sends(<<StateOf(server')>>)
    /\ OnItsOwn

\* Too many disconnects: only who is away is removed (Game, StrikesAreEarned).
Remove ==
    /\ ~app.connected /\ server.known
    /\ server.game # NoGame /\ server.truth[server.game] = None /\ server.game \notin server.removed
    /\ server' = [server EXCEPT !.removed = @ \cup {server.game}]
    /\ UNCHANGED <<up, down, app>>

\* The match ends; the result stays on show.  A match may be called off, and
\* who was removed has lost any other.
Decide ==
    /\ server.game # NoGame
    /\ server.truth[server.game] = None
    /\ \E outcome \in (IF server.game \in server.removed THEN {"loss", "none"} ELSE {"win", "loss", "none"}) :
          server' = [server EXCEPT !.truth[server.game] = outcome]
    /\ Sends(Ended(server'))
    /\ OnItsOwn

\* No match was found, or the player was away too long.
SearchEnds ==
    /\ server.activity = "matchmaking"
    /\ server' = [server EXCEPT !.activity = "none"]
    /\ Sends(<<StateOf(server')>>)
    /\ OnItsOwn

\* A restart forgets every session, with the results it has not told.
Restart ==
    /\ server.known
    /\ server' = [NewServer EXCEPT !.known = FALSE, !.dealt = server.dealt, !.since = server.dealt,
                                   !.truth = server.truth, !.removed = server.removed]
    /\ UNCHANGED <<up, down, app>>

-----------------------------------------------------------------------------
(* The app's calls *)

\* Without a channel a call fails at once.
Call(a, to, g) ==
    /\ app' = [a EXCEPT !.calls = @ \cup {to}, !.left = IF to \in {"leave", "leave again"} THEN g ELSE @]
    /\ up' = Append(up, [type |-> to, game |-> g])

\* One call of a screen at a time (bound).
ScreenIsFree == app.calls \subseteq Repeats /\ UNCHANGED <<server, down>>

\* Bound: a screen makes no call while a state that makes it the wrong one is
\* on its way, save those of Races.
StateUnderWay(activities) == \E i \in DOMAIN down : down[i].type = "state" /\ down[i].activity \in activities

StartSearch ==
    /\ ScreenIsFree /\ app.connected /\ app.activity = "none"
    /\ (app.calls # {} \/ StateUnderWay({"matchmaking", "game"})) => "search" \in Races
    /\ Call([app EXCEPT !.activity = "matchmaking"], "join", NoGame)

PlayAgain ==
    /\ ScreenIsFree /\ app.connected /\ app.activity = "game" /\ app.over = app.game
    /\ Call(app, "again", app.game)

CancelSearch ==
    /\ ScreenIsFree /\ app.activity = "matchmaking"
    /\ StateUnderWay({"game"}) => "cancel" \in Races
    /\ IF app.connected THEN Call(app, "cancel", NoGame)
       ELSE app' = [Home(app) EXCEPT !.cancelPending = TRUE] /\ UNCHANGED up

LeaveOffline(a) == [Home(a) EXCEPT !.leavePending = a.game]

LeaveGame ==
    /\ ScreenIsFree /\ app.activity = "game"
    /\ StateUnderWay({"matchmaking"}) => "leave" \in Races
    /\ IF app.connected THEN Call(app, "leave", app.game)
       ELSE app' = LeaveOffline(app) /\ UNCHANGED up

\* How a call goes on that came back with a code.  A repeated leave is over
\* once the server no longer has the player there; a screen that finds them in
\* another match shows that one.
Returned(a, to, code) ==
    LET b == [a EXCEPT !.calls = @ \ {to}]
        gone == code \in {"ok", "not_found"}
    IN  CASE to = "join"         -> IF code = "ok" THEN b ELSE [b EXCEPT !.activity = "none"]
          [] to = "again"        -> b
          [] to = "cancel"       -> IF code = "ok" THEN Home(b)
                                    ELSE IF b.connected THEN b ELSE [Home(b) EXCEPT !.cancelPending = TRUE]
          [] to = "cancel again" -> [b EXCEPT !.cancelPending = @ /\ code # "ok"]
          [] to = "leave"        -> IF ~gone \/ (code = "not_found" /\ b.activity = "game" /\ b.game # a.left) THEN b ELSE Home(b)
          [] to = "leave again"  -> [b EXCEPT !.leavePending = IF gone /\ @ = a.left THEN NoGame ELSE @]

-----------------------------------------------------------------------------
(* What the app is told *)

BugCountCalledOff(a, g, outcome) ==
    IF g = NoGame THEN a
    ELSE [a EXCEPT !.counted[g] = IF @ # None THEN @ ELSE IF outcome = "win" THEN "win" ELSE "loss"]

\* Counted once, whatever it is told later; a match that was called off is not.
Count(a, g, outcome) ==
    IF g = NoGame \/ outcome = "none" THEN a
    ELSE [a EXCEPT !.counted[g] = IF @ # None THEN @ ELSE IF outcome = "win" THEN "win" ELSE "loss"]

Repeat(a, to, g) ==
    IF to \in a.calls THEN app' = a /\ UNCHANGED up ELSE Call(a, to, g)

Shown(a, m) ==
    [a EXCEPT !.leavePending = NoGame, !.activity = m.activity, !.game = m.game,
              !.over = IF m.activity = "game" THEN @ ELSE NoGame]

BugSessionStateForgets(m) ==
    IF app.cancelPending /\ m.activity = "matchmaking" THEN UNCHANGED <<app, up>>
    ELSE app' = Shown(Count([app EXCEPT !.cancelPending = FALSE], m.last, m.outcome), m) /\ UNCHANGED up

\* What the app makes of the end of its match; who was removed is told so, and has lost.
IsOver(m) ==
    IF m.removed THEN Count(app, m.game, "loss")
    ELSE [Count(app, m.game, m.outcome) EXCEPT !.over = m.game]

\* A search cancelled here, and a match left here, are not shown again while
\* the server still has them: it is told once more.
SessionState(m) ==
    IF app.cancelPending /\ m.activity = "matchmaking" THEN Repeat(app, "cancel again", NoGame)
    ELSE LET told == Count([app EXCEPT !.cancelPending = FALSE], m.last, m.outcome)
         IN  IF told.leavePending # NoGame /\ m.game = told.leavePending
             THEN Repeat(told, "leave again", told.leavePending)
             ELSE app' = Shown(told, m) /\ UNCHANGED up

OnMessage ==
    /\ down # <<>>
    /\ LET m == Head(down)
       IN  CASE m.type = "state" -> SessionState(m)
             [] m.type = "reply" -> app' = (IF m.to \in app.calls THEN Returned(app, m.to, m.code) ELSE app) /\ UNCHANGED up
             [] m.type = "over"  -> app' = IsOver(m) /\ UNCHANGED up
    /\ down' = Tail(down)
    /\ UNCHANGED server

-----------------------------------------------------------------------------
(* The connection *)

\* Every call fails: the screen's, if there is one; of the repeated ones nothing changes.
Failed(a) ==
    LET b == [a EXCEPT !.connected = FALSE]
        failed == IF a.calls \subseteq Repeats THEN b
                  ELSE Returned(b, CHOOSE to \in a.calls : to \notin Repeats, "network_error")
    IN  [failed EXCEPT !.calls = {}]

\* The server has still received some of the commands.
Drop ==
    /\ app.connected
    /\ app' = Failed(app)
    /\ \E n \in 0 .. Len(up) : up' = SubSeq(up, 1, n)
    /\ down' = <<>>
    /\ UNCHANGED server

Connect ==
    /\ ~app.connected /\ server.known
    /\ app' = [app EXCEPT !.connected = TRUE]
    /\ up' = <<>>
    /\ down' = <<StateOf(server)>> \o Ended(server)
    /\ UNCHANGED server

\* The server does not know the token: a new session, and nothing is pending with it.
ReplaceLostSession ==
    /\ ~app.connected /\ ~server.known
    /\ app' = [Home(app) EXCEPT !.cancelPending = FALSE, !.leavePending = NoGame]
    /\ server' = [server EXCEPT !.known = TRUE]
    /\ up' = <<>>
    /\ UNCHANGED down

Next ==
    \/ HandleCommand \/ Deal \/ Remove \/ Decide \/ SearchEnds \/ Restart
    \/ StartSearch \/ PlayAgain \/ CancelSearch \/ LeaveGame
    \/ OnMessage \/ Drop \/ Connect \/ ReplaceLostSession

Spec == Init /\ [][Next]_vars

-----------------------------------------------------------------------------

\* Connected, with nothing under way either way.
Quiet == app.connected /\ server.known /\ up = <<>> /\ down = <<>> /\ app.calls = {}

\* Once all is quiet the app is where the server has the player, and nothing
\* it gave up offline is still to be told: a search cancelled or a match left
\* without a connection is ended on the server too, whatever the server did
\* meanwhile (game_session.dart, _onMessage).
QuietAppAgrees ==
    Quiet => /\ app.activity = server.activity /\ app.game = server.game
             /\ ~app.cancelPending /\ app.leavePending = NoGame

\* How a match of the session is to count, as far as it is decided for the player.
Verdict(g) == IF g = server.game /\ g \in server.removed THEN "loss" ELSE server.truth[g]

\* A match counts as what the server made of it, or as lost for who was removed
\* from it, and a match called off for nobody else; and once all is quiet every
\* win and loss of the session counts: none is lost by leaving offline or by a
\* drop (game_session.dart, _record).
ResultsAreCounted ==
    \A g \in Games :
        /\ app.counted[g] # None =>
              app.counted[g] = server.truth[g] \/ (app.counted[g] = "loss" /\ g \in server.removed)
        /\ Quiet /\ g > server.since /\ Verdict(g) \in {"win", "loss"} => app.counted[g] # None

\* "Show it, where they can still leave, rather than a home screen that leaves
\* an unseen player sitting at the table" (game_session.dart:675-677): nobody
\* sits in a match that their quiet app does not show.
NobodyUnseenAtTheTable == Quiet /\ server.activity = "game" => app.activity = "game"
=============================================================================

-------------------------------- MODULE Game --------------------------------
(***************************************************************************)
(* The authoritative state machine of one match:                           *)
(* server/internal/game/game.go.                                           *)
(*                                                                         *)
(* Players are named by their seat in the shuffled turn order, so seat p   *)
(* is g.order[p - 1].  The Go value is the record `game'; the operators    *)
(* on it (StartTurn, Tally, RemoveAll, ...) are the unexported methods and *)
(* return the value the method leaves behind, so that a method that calls  *)
(* another is their composition.                                           *)
(*                                                                         *)
(* Time.  Tick handles every deadline that has passed one by one, each at  *)
(* its own instant, and every command calls Tick first.  A deadline is     *)
(* therefore the time left until it, Elapse lets one unit of time pass     *)
(* when nothing is due, and while something is due only Strike or Timeout  *)
(* (one turn of Tick's loop) can happen.                                   *)
(*                                                                         *)
(* Left out: the board of hints, its reactions and the round number, which *)
(* no transition of this module reads; version, which counts the changes.  *)
(***************************************************************************)
EXTENDS Integers, FiniteSets, FiniteSetsExt

\* A definition whose name begins with Bug is a plausible mistake in the one that follows it;
\* nothing uses it, and putting it in place breaks one of the properties below.

CONSTANTS
    N,                  \* players dealt into the match
    MaxDisconnects,     \* counted disconnects that remove a player
    ReconnectDuration,  \* how long a drop may last before it counts
    Duration,           \* how long each phase lasts
    Impostors,          \* bound: seats the impostor may be dealt to
    Flaky,              \* bound: seats whose connection may drop
    Leavers             \* bound: seats that may walk out

MinPlayersToStart == 4
MaxPlayers == 8
MinPlayersToContinue == 3
MaxSilentVotes == 2

Seats == 1 .. N
VotePhases == {"voting", "runoff_voting"}
TimedPhases == VotePhases \cup
    {"role_reveal", "hints", "hint_break", "pre_voting", "elimination_reveal", "impostor_guess"}
Phases == TimedPhases \cup {"ended"}
Statuses == {"active", "eliminated", "left", "removed"}

ASSUME PlayersAssumption == N \in MinPlayersToStart .. MaxPlayers
ASSUME DisconnectsAssumption == MaxDisconnects \in Nat \ {0}
ASSUME DurationAssumption ==
    /\ ReconnectDuration \in Nat \ {0}
    /\ Duration \in [TimedPhases -> Nat \ {0}]
ASSUME BoundsAssumption ==
    /\ Impostors \subseteq Seats
    /\ Flaky \subseteq Seats
    /\ Leavers \subseteq Seats

VARIABLE game

vars == <<game>>

None == 0       \* no seat
NoTimer == -1   \* the zero time.Time

NoVotes == [p \in Seats |-> None]
Undecided ==
    [winner |-> "none", reason |-> "undecided", outcome |-> [p \in Seats |-> "none"]]

-----------------------------------------------------------------------------
(* Who is still in the match *)

Active(g) == {p \in Seats : g.status[p] = "active"}
Watchers(g) == {p \in Seats : g.status[p] \in {"active", "eliminated"}}
Citizens(g) == Active(g) \ {g.impostor}
ActiveImpostors(g) == Active(g) \cap {g.impostor}

BugOutnumbered(g) == Cardinality(ActiveImpostors(g)) > Cardinality(Citizens(g))

Outnumbered(g) == Cardinality(ActiveImpostors(g)) >= Cardinality(Citizens(g))
TooFew(g) == Cardinality(Active(g)) < MinPlayersToContinue

(* Who the match waits for *)

CanVote(g, p) == g.candidates \ {p} # {}
Voted(g) == {p \in Seats : g.votes[p] # None}

AllConnectedVoted(g) ==
    LET awaited == {p \in Active(g) : g.connected[p] /\ CanVote(g, p)}
    IN  awaited # {} /\ awaited \subseteq Voted(g)

AllConnectedAcked(g, who) == \A p \in who : g.connected[p] => g.confirmed[p]

-----------------------------------------------------------------------------
(* Phases and turns *)

\* turnLeft is turnDeadline, which only a hint turn reads; startTurn sets it.
SetPhase(g, phase) ==
    [g EXCEPT !.phase = phase,
              !.deadline = Duration[phase],
              !.turnLeft = IF phase = "hints" THEN Duration[phase] ELSE 0]

BugAwaitFullWindow(g) == [g EXCEPT !.reconnecting = TRUE, !.deadline = ReconnectDuration]

AwaitReconnect(g) ==
    [g EXCEPT !.reconnecting = TRUE,
              !.deadline = IF g.turnLeft < ReconnectDuration THEN g.turnLeft ELSE ReconnectDuration]

BugRestartTurn(g) == [SetPhase(g, "hints") EXCEPT !.reconnecting = FALSE]

ResumeTurn(g) == [g EXCEPT !.reconnecting = FALSE, !.deadline = g.turnLeft]

StartTurn(g, i) ==
    LET rest == {p \in Active(g) : p >= i}
        turn == [SetPhase(g, "hints") EXCEPT !.turn = Min(rest), !.reconnecting = FALSE]
    IN  IF rest = {} THEN SetPhase(g, "pre_voting")
        ELSE IF turn.connected[turn.turn] THEN turn
        ELSE AwaitReconnect(turn)

StartRound(g) ==
    StartTurn([g EXCEPT !.lastEliminated = None, !.tied = {}, !.candidates = {}, !.votes = NoVotes], 1)

BugStartVotingHeard(g, phase, candidates) ==
    [SetPhase(g, phase) EXCEPT !.reconnecting = FALSE, !.candidates = candidates, !.votes = NoVotes]

StartVoting(g, phase, candidates) ==
    [SetPhase(g, phase) EXCEPT !.reconnecting = FALSE, !.candidates = candidates,
                               !.votes = NoVotes, !.voteCast = FALSE]

ShowElimination(g, p) ==
    [SetPhase(g, "elimination_reveal") EXCEPT !.lastEliminated = p,
                                              !.confirmed = [q \in Seats |-> FALSE]]

(* The verdict *)

Won(g, winner, p) ==
    /\ p \in Watchers(g)
    /\ winner = "none" \/ (winner = "impostor") = (p = g.impostor)

Outcome(g, winner, reason, p) ==
    IF reason = "abandoned" THEN "none" ELSE IF Won(g, winner, p) THEN "win" ELSE "loss"

End(g, winner, reason) ==
    IF g.result # Undecided THEN g
    ELSE [g EXCEPT !.phase = "ended", !.deadline = NoTimer, !.turnLeft = 0, !.reconnecting = FALSE,
                   !.result = [winner |-> winner, reason |-> reason,
                               outcome |-> [p \in Seats |-> Outcome(g, winner, reason, p)]]]

-----------------------------------------------------------------------------
(* Votes *)

BugEliminateOnly(g, p) == ShowElimination([g EXCEPT !.status[p] = "eliminated"], p)

Eliminate(g, p) ==
    LET out == [g EXCEPT !.status[p] = "eliminated"]
    IN  IF Outnumbered(out) THEN End(out, "impostor", "impostor_parity")
        ELSE IF TooFew(out) THEN End(out, "none", "not_enough_players")
        ELSE ShowElimination(out, p)

Count(g, c) == Cardinality({v \in Seats : g.votes[v] = c})

Top(g) ==
    {c \in g.candidates : Count(g, c) > 0 /\ \A d \in g.candidates : Count(g, d) <= Count(g, c)}

BugNobodyCounted(g) == Voted(g) = {}

Silent(g) == Voted(g) = {} /\ ~g.voteCast

Tally(g) ==
    LET counted == [g EXCEPT !.silentVotes = IF Silent(g) THEN @ + 1 ELSE 0]
        top == Top(g)
    IN  IF counted.silentVotes >= MaxSilentVotes THEN End(counted, "none", "abandoned")
        ELSE IF top = {} THEN StartRound(counted)
        ELSE IF top = {g.impostor} THEN SetPhase(counted, "impostor_guess")
        ELSE IF \E c \in Seats : top = {c} THEN Eliminate(counted, CHOOSE c \in top : TRUE)
        ELSE IF g.phase = "voting" THEN StartVoting(counted, "runoff_voting", top)
        ELSE ShowElimination([counted EXCEPT !.tied = top], None)

BugAdvanceVotesOnly(g) == IF g.phase \in VotePhases /\ AllConnectedVoted(g) THEN Tally(g) ELSE g

MaybeAdvance(g) ==
    CASE g.phase \in VotePhases /\ AllConnectedVoted(g) -> Tally(g)
      [] g.phase = "role_reveal" /\ AllConnectedAcked(g, Active(g)) -> StartTurn(g, 1)
      [] g.phase = "elimination_reveal" /\ AllConnectedAcked(g, Watchers(g)) -> StartRound(g)
      [] OTHER -> g

(* Leaving the match, by choice or by strikes *)

BugDropOwnBallots(g, gone) ==
    [g EXCEPT !.votes = [v \in Seats |-> IF v \in gone THEN None ELSE @[v]], !.candidates = @ \ gone]

BugDropAllBallots(g, gone) == [g EXCEPT !.votes = NoVotes, !.candidates = @ \ gone]

DropBallots(g, gone) ==
    [g EXCEPT !.votes = [v \in Seats |-> IF v \in gone \/ @[v] \in gone THEN None ELSE @[v]],
              !.candidates = @ \ gone]

RemoveAll(g, gone, status) ==
    LET h == [DropBallots(g, gone) EXCEPT
                !.status = [p \in Seats |-> IF p \in gone THEN status ELSE @[p]]]
    IN  IF g.impostor \in gone THEN End(h, "citizens", "impostor_gone")
        ELSE IF g.phase = "impostor_guess" THEN h
        ELSE IF ActiveImpostors(h) # {} /\ Outnumbered(h) THEN End(h, "impostor", "impostor_parity")
        ELSE IF TooFew(h) THEN End(h, "none", "not_enough_players")
        ELSE IF g.phase = "hints" /\ g.turn \in gone THEN StartTurn(h, g.turn + 1)
        ELSE MaybeAdvance(h)

Expire(g) ==
    CASE g.phase = "role_reveal" -> StartTurn(g, 1)
      [] g.phase \in {"hints", "hint_break"} -> StartTurn(g, g.turn + 1)
      [] g.phase = "pre_voting" -> StartVoting(g, "voting", Active(g))
      [] g.phase \in VotePhases -> Tally(g)
      [] g.phase = "elimination_reveal" -> StartRound(g)
      [] g.phase = "impostor_guess" -> End(g, "citizens", "impostor_guess_timeout")

-----------------------------------------------------------------------------
(* New, then MarkOffline for every player who was offline at the start *)

NewGame(impostor, offline) ==
    [status |-> [p \in Seats |-> "active"],
     connected |-> [p \in Seats |-> p \notin offline],
     disconnects |-> [p \in Seats |-> 0],
     confirmed |-> [p \in Seats |-> FALSE],
     strike |-> [p \in Seats |-> NoTimer],
     impostor |-> impostor,
     phase |-> "role_reveal",
     deadline |-> Duration["role_reveal"],
     turn |-> 1,
     turnLeft |-> 0,
     reconnecting |-> FALSE,
     candidates |-> {},
     votes |-> NoVotes,
     voteCast |-> FALSE,
     silentVotes |-> 0,
     lastEliminated |-> None,
     tied |-> {},
     result |-> Undecided]

Init == \E impostor \in Impostors, offline \in SUBSET Flaky : game = NewGame(impostor, offline)

(* Time: Tick *)

Live == game.phase # "ended"
StrikesDue == {p \in Active(game) : Live /\ game.strike[p] = 0}
NothingDue == StrikesDue = {} /\ game.deadline # 0

BugUsedUp(g, p) == g.disconnects[p] > MaxDisconnects

UsedUp(g, p) == g.disconnects[p] >= MaxDisconnects

BugStrikeInMapOrder ==
    \E p \in StrikesDue :
        LET struck == [game EXCEPT !.strike[p] = NoTimer, !.disconnects[p] = @ + 1]
        IN  game' = IF UsedUp(struck, p) THEN RemoveAll(struck, {p}, "removed") ELSE struck

Strike ==
    /\ StrikesDue # {}
    /\ LET struck == [game EXCEPT
                !.strike = [p \in Seats |-> IF p \in StrikesDue THEN NoTimer ELSE @[p]],
                !.disconnects = [p \in Seats |-> IF p \in StrikesDue THEN @[p] + 1 ELSE @[p]]]
           out == {p \in StrikesDue : UsedUp(struck, p)}
       IN  game' = IF out = {} THEN struck ELSE RemoveAll(struck, out, "removed")

Timeout ==
    /\ StrikesDue = {}
    /\ game.deadline = 0
    /\ game' = Expire(game)

Elapse ==
    /\ Live
    /\ NothingDue
    /\ game' = [game EXCEPT
          !.deadline = @ - 1,
          !.turnLeft = IF game.phase = "hints" THEN @ - 1 ELSE @,
          !.strike = [p \in Seats |-> IF p \in Active(game) /\ @[p] > 0 THEN @[p] - 1 ELSE @[p]]]

(* Commands of the players *)

ConfirmRole(p) ==
    /\ p \in Active(game)
    /\ game.phase = "role_reveal"
    /\ ~game.confirmed[p]
    /\ game' = MaybeAdvance([game EXCEPT !.confirmed[p] = TRUE])

\* An accepted hint; one the word rules refuse changes nothing.
SubmitHint(p) ==
    /\ p \in Active(game)
    /\ game.phase = "hints"
    /\ game.turn = p
    /\ ~game.reconnecting
    /\ game' = SetPhase(game, "hint_break")

Vote(p, target) ==
    /\ p \in Active(game)
    /\ game.phase \in VotePhases
    /\ p # target
    /\ target \in game.candidates
    /\ game' = MaybeAdvance([game EXCEPT !.votes[p] = target, !.voteCast = TRUE])

SubmitGuess(p) ==
    /\ p \in Active(game)
    /\ game.phase = "impostor_guess"
    /\ p = game.impostor
    /\ \/ game' = End(game, "impostor", "impostor_guessed_word")
       \/ game' = End(game, "citizens", "impostor_guess_wrong")

ContinueAfterElimination(p) ==
    /\ p \in Watchers(game)
    /\ game.phase = "elimination_reveal"
    /\ ~game.confirmed[p]
    /\ game' = MaybeAdvance([game EXCEPT !.confirmed[p] = TRUE])

Leave(p) ==
    /\ Live
    /\ p \in Watchers(game)
    /\ game' = RemoveAll(game, {p}, "left")

(* The connection *)

Disconnect(p) ==
    /\ p \in Watchers(game)
    /\ game.connected[p]
    /\ LET h == [game EXCEPT
                !.connected[p] = FALSE,
                !.strike[p] = IF Live /\ p \in Active(game) THEN ReconnectDuration ELSE @]
       IN  game' = IF game.phase = "hints" /\ game.turn = p THEN AwaitReconnect(h) ELSE MaybeAdvance(h)

BugReconnectStruck(p) ==
    /\ p \in Watchers(game)
    /\ ~game.connected[p]
    /\ LET h == [game EXCEPT !.connected[p] = TRUE]
       IN  game' = IF game.phase = "hints" /\ p \in Active(game) /\ game.turn = p
                   THEN ResumeTurn(h)
                   ELSE IF game.phase \in VotePhases THEN MaybeAdvance(h)
                   ELSE h

Reconnect(p) ==
    /\ p \in Watchers(game)
    /\ ~game.connected[p]
    /\ LET h == [game EXCEPT !.connected[p] = TRUE, !.strike[p] = NoTimer]
       IN  game' = IF game.phase = "hints" /\ p \in Active(game) /\ game.turn = p
                   THEN ResumeTurn(h)
                   ELSE IF game.phase \in VotePhases THEN MaybeAdvance(h)
                   ELSE h

Command ==
    /\ NothingDue
    /\ \/ \E p \in Seats : ConfirmRole(p) \/ SubmitHint(p) \/ SubmitGuess(p) \/ ContinueAfterElimination(p)
       \/ \E p, target \in Seats : Vote(p, target)
       \/ \E p \in Leavers : Leave(p)
       \/ \E p \in Flaky : Disconnect(p) \/ Reconnect(p)

Tick == Strike \/ Timeout \/ Elapse

Next == Command \/ Tick

Spec == Init /\ [][Next]_vars

\* The server arms a timer at Deadline() whenever the match changes and calls
\* Tick when it fires; nothing makes a player act.
FairSpec == Spec /\ WF_vars(Tick)
-----------------------------------------------------------------------------
(* Types *)

Timers == Nat \cup {NoTimer}
Reasons == {"undecided", "impostor_parity", "impostor_guessed_word", "impostor_guess_wrong",
            "impostor_guess_timeout", "impostor_gone", "abandoned", "not_enough_players"}

Results ==
    [winner : {"none", "citizens", "impostor"}, reason : Reasons,
     outcome : [Seats -> {"none", "win", "loss"}]]

Games ==
    [status : [Seats -> Statuses],
     connected : [Seats -> BOOLEAN],
     disconnects : [Seats -> 0 .. MaxDisconnects],
     confirmed : [Seats -> BOOLEAN],
     strike : [Seats -> Timers],
     impostor : Seats,
     phase : Phases,
     deadline : Timers,
     turn : Seats,
     turnLeft : Nat,
     reconnecting : BOOLEAN,
     candidates : SUBSET Seats,
     votes : [Seats -> Seats \cup {None}],
     voteCast : BOOLEAN,
     silentVotes : 0 .. MaxSilentVotes,
     lastEliminated : Seats \cup {None},
     tied : SUBSET Seats,
     result : Results]

\* The match has the shape of the Go struct: no disconnect is counted past the one that removes.
TypeOK == game \in Games

(* What every state of a match keeps true *)

\* maybeAdvanceTransition runs on every path that can complete a barrier: nobody is kept
\* waiting in a vote or at a reveal for an answer that everyone connected has given.
NobodyAwaitedInVain ==
    /\ game.phase \in VotePhases => ~AllConnectedVoted(game)
    /\ game.phase = "role_reveal" /\ (\E p \in Active(game) : game.connected[p])
            => ~AllConnectedAcked(game, Active(game))
    /\ game.phase = "elimination_reveal" /\ (\E p \in Watchers(game) : game.connected[p])
            => ~AllConnectedAcked(game, Watchers(game))

\* Through every leave, removal and drop the hint turn belongs to an active player, says it
\* waits for them exactly when they are offline, and ends no later than the turn's own clock
\* (the comments at turnDeadline and awaitReconnect).
TurnHasHolder ==
    game.phase = "hints" =>
        /\ game.turn \in Active(game)
        /\ game.reconnecting = ~game.connected[game.turn]
        /\ game.deadline <= game.turnLeft

\* Who leaves a vote takes the ballots by and for them along (removeAll): what tally counts
\* is always the choice of a present player for another present candidate, so that
\* View.VotesCast never exceeds View.Voters and no abstention count is negative.
BallotsAreSound ==
    game.phase \in VotePhases =>
        /\ game.candidates \subseteq Active(game)
        /\ \A v \in Voted(game) :
              /\ v \in Active(game)
              /\ game.votes[v] \in game.candidates \ {v}
              /\ game.voteCast

\* No step leaves a decided match running, or a running one without a clock: while it runs its
\* impostor plays and, unless only the guess is left, at least two citizens do.  So a vote
\* never finds too few players.
UndecidedWhileLive ==
    Live =>
        /\ game.deadline # NoTimer
        /\ game.impostor \in Active(game)
        /\ game.phase = "impostor_guess" \/ Cardinality(Citizens(game)) >= 2
        /\ game.silentVotes < MaxSilentVotes

\* The verdict matches how the match stands: the impostor wins only by the word or by parity,
\* citizens only over a caught or missing impostor; who walked out or was removed loses unless
\* the match was called off; everybody else shares the fate of their side.
VerdictIsFair ==
    ~Live =>
        /\ game.result.reason \notin {"undecided", "not_enough_players"}
        /\ game.result.winner = "impostor" =>
              /\ game.impostor \in Active(game)
              /\ game.result.reason = "impostor_guessed_word" \/ Cardinality(Citizens(game)) <= 1
        /\ game.result.winner = "none" <=> game.result.reason = "abandoned"
        /\ game.result.reason = "impostor_gone" <=> game.impostor \notin Active(game)
        /\ \A p \in Seats :
              /\ game.result.outcome[p] = "none" <=> game.result.winner = "none"
              /\ game.result.outcome[p] = "win" <=>
                    /\ game.result.winner # "none" /\ p \in Watchers(game)
                    /\ p = game.impostor <=> game.result.winner = "impostor"

\* Only absence counts: a strike is pending for nobody who is back, an active player has
\* strikes left, a removed one used them all up and is offline, the impostor is never voted out.
StrikesAreEarned ==
    /\ game.status[game.impostor] # "eliminated"
    /\ \A p \in Seats :
          /\ game.strike[p] # NoTimer => ~game.connected[p]
          /\ game.status[p] = "active" => game.disconnects[p] < MaxDisconnects
          /\ game.status[p] = "removed" => game.disconnects[p] = MaxDisconnects /\ ~game.connected[p]

\* Whoever was away too long when the match was decided had it counted before the verdict: the
\* removals of one instant are one, and come before the end of a phase at that instant, so that
\* the result does not hang on the order of a loop (Tick, nextDeadline: "Strikes win ties").
NoStrikeIsSpared == ~Live => \A p \in Active(game) : game.strike[p] # 0

(* What no step may do *)

\* However often its holder leaves and comes back, a hint turn's clock only runs down
\* (turnDeadline: "leaving and coming back cannot buy a fresh turn").
TurnClockNeverGrows ==
    [][game.phase = "hints" /\ game'.phase = "hints" /\ game'.turn = game.turn
          => game'.turnLeft <= game.turnLeft /\ game'.deadline <= game.turnLeft]_vars

\* A ballot outlives its voter's connection (the comment in tally): it is withdrawn before
\* the vote closes only with the player who cast it or the one it names.
BallotsAreKept ==
    [][game.phase \in VotePhases /\ game'.phase = game.phase =>
          \A v \in Voted(game) :
              v \in Active(game)' /\ game.votes[v] \in Active(game)' => game'.votes[v] # None]_vars

(* What a match promises: the abstract specification *)

VoteState ==
    IF game.phase \notin VotePhases THEN "closed" ELSE IF game.voteCast THEN "heard" ELSE "open"

Stage ==
    CASE game.phase = "ended" -> "over"
      [] game.phase = "impostor_guess" -> "guess"
      [] OTHER -> "rounds"

Promise ==
    INSTANCE Match WITH Players <- Seats,
        impostor <- game.impostor, playing <- Active(game), watching <- Watchers(game) \ Active(game),
        stage <- Stage, winner <- game.result.winner, vote <- VoteState, silent <- game.silentVotes

Shown ==
    INSTANCE Roster WITH
        present <- Watchers(game), online <- {p \in Watchers(game) : game.connected[p]}, over <- ~Live

\* What the room may rely on (syncGame in room.go): nobody joins or comes back to a match, only
\* the offline are removed from it, and neither happens once it is over.
KeepsRoster == Shown!Spec

\* Every match keeps the promise of Match: players only ever go, by leaving or by the vote of
\* a table that spoke; it is decided in the step that decides it; it is called off only after
\* two votes in a row in which nobody voted, not even somebody who has left since.
KeepsPromise == Promise!Spec

(* What must happen *)

\* A table that stops acting altogether does not go around forever: after two silent votes,
\* or the removals on the way there, the match is over (maxSilentVotes).
QuietTableEnds == <>[][~Command]_vars => <>~Live

\* Whatever players do, by flapping connections, by leaving or by staying silent, they cannot
\* hold up the table: it always gets to the next vote or to the end, and no vote stays open.
TableMovesOn ==
    /\ []<>(game.phase \in VotePhases \/ ~Live)
    /\ []<>(game.phase \notin VotePhases)
=============================================================================

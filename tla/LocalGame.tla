------------------------------ MODULE LocalGame ------------------------------
(***************************************************************************)
(* The match on one device that is passed round the table, and the copy of *)
(* it the device keeps: app/lib/local/local_game.dart, local_store.dart    *)
(* and the screen of local_screens.dart that drives them.                  *)
(*                                                                         *)
(* Hints are spoken, so the order in which they are does not matter here.  *)
(* A clock that does not run is 0.  The match is never over for the device *)
(* until its copy is gone: the app may be killed at any time, and goes on  *)
(* from the copy.                                                          *)
(***************************************************************************)
EXTENDS Integers, FiniteSets

CONSTANTS
    N,                     \* players; they sit in the order 1 .. N
    HintSeconds,           \* 0 to play without a timer
    VoteTransitionSeconds,
    GuessSeconds,
    Impostors,             \* bound: who may be dealt the impostor
    None

ASSUME LocalAssumption ==
    /\ N \in 3 .. 12 /\ Impostors \subseteq 1 .. N /\ None \notin 1 .. N
    /\ HintSeconds \in Nat /\ {VoteTransitionSeconds, GuessSeconds} \subseteq Nat \ {0}

VARIABLES
    game,   \* the match on the screen; the last one there, while the app is closed
    saved,  \* the copy on the device, or None
    todo,   \* what is to be done with the copy: "nothing", "save" or "clear"
    app,    \* "open", in the "background", "leaving" the match, or "closed"
    holder  \* history: who has said that the device is in their hands, since it last went from hand to hand

vars == <<game, saved, todo, app, holder>>

Players == 1 .. N
SecretPhases == {"roleReveal", "voting", "runoff"}

NewGame(impostor) ==
    [phase |-> "roleReveal", impostor |-> impostor, seat |-> 0, eliminated |-> {},
     votes |-> [p \in Players |-> None], ballotSaved |-> FALSE, runoff |-> {},
     revealed |-> FALSE, seconds |-> 0, outcome |-> "none"]

Init ==
    /\ \E impostor \in Impostors : game = NewGame(impostor)
    /\ saved = None /\ todo = "save" /\ app = "open" /\ holder = None

Active(g) == Players \ g.eliminated
SeatOf(g, p) == Cardinality({q \in Active(g) : q < p})
CurrentPlayer(g) == CHOOSE p \in Active(g) : SeatOf(g, p) = g.seat
NoVotes == [p \in Players |-> None]

-----------------------------------------------------------------------------
(* The rules *)

Reveal(g) ==
    [g EXCEPT !.revealed = TRUE, !.seconds = IF g.phase = "guess" /\ @ = 0 THEN GuessSeconds ELSE @]

HidePrivateContent(g) == IF g.phase \in SecretPhases THEN [g EXCEPT !.revealed = FALSE] ELSE g

RoleSeen(g) ==
    [g EXCEPT !.revealed = FALSE,
              !.seat = IF @ + 1 = N THEN 0 ELSE @ + 1,
              !.phase = IF g.seat + 1 = N THEN "ready" ELSE @]

StartRound(g) == [g EXCEPT !.revealed = FALSE, !.seat = 0, !.phase = "hints", !.seconds = HintSeconds]

HintSpoken(g) ==
    IF g.seat + 1 < Cardinality(Active(g)) THEN [g EXCEPT !.seat = @ + 1, !.seconds = HintSeconds]
    ELSE [g EXCEPT !.seat = 0, !.phase = "voteTransition", !.seconds = VoteTransitionSeconds]

StartVoting(g) ==
    [g EXCEPT !.votes = NoVotes, !.runoff = {}, !.revealed = FALSE, !.ballotSaved = FALSE,
              !.seat = 0, !.seconds = 0, !.phase = "voting"]

CandidatesFor(g, voter) == (IF g.runoff = {} THEN Active(g) ELSE g.runoff) \ {voter}

ConfirmVote(g, target) == [g EXCEPT !.votes[CurrentPlayer(g)] = target, !.ballotSaved = TRUE]

Votes(g, p) == Cardinality({v \in Players : g.votes[v] = p})
Top(g) == {p \in Active(g) : Votes(g, p) > 0 /\ \A q \in Active(g) : Votes(g, q) <= Votes(g, p)}

End(g, outcome) ==
    [g EXCEPT !.outcome = outcome, !.phase = "ended", !.seconds = 0, !.revealed = FALSE, !.ballotSaved = FALSE]

BugEliminate(g, p) ==
    LET out == [g EXCEPT !.eliminated = @ \cup {p}]
    IN  IF p = g.impostor THEN [out EXCEPT !.phase = "guess"]
        ELSE IF Active(out) \ {g.impostor} = {} THEN End(out, "impostor")
        ELSE [out EXCEPT !.phase = "elimination"]

Eliminate(g, p) ==
    LET out == [g EXCEPT !.eliminated = @ \cup {p}]
    IN  IF p = g.impostor THEN [out EXCEPT !.phase = "guess"]
        ELSE IF Cardinality(Active(out) \ {g.impostor}) <= 1 THEN End(out, "impostor")
        ELSE [out EXCEPT !.phase = "elimination"]

Tally(g) ==
    IF Cardinality(Top(g)) = 1 THEN Eliminate(g, CHOOSE p \in Top(g) : TRUE)
    ELSE IF g.phase = "voting" THEN [g EXCEPT !.runoff = Top(g), !.votes = NoVotes, !.phase = "tie"]
    ELSE [g EXCEPT !.votes = NoVotes, !.phase = "tieAgain"]

BugFinishVoteShown(g) ==
    LET next == [g EXCEPT !.ballotSaved = FALSE, !.seat = @ + 1]
    IN  IF next.seat < Cardinality(Active(g)) THEN next ELSE Tally([next EXCEPT !.seat = 0])

FinishVote(g) ==
    LET next == [g EXCEPT !.revealed = FALSE, !.ballotSaved = FALSE, !.seat = @ + 1]
    IN  IF next.seat < Cardinality(Active(g)) THEN next ELSE Tally([next EXCEPT !.seat = 0])

StartRunoff(g) == [g EXCEPT !.seat = 0, !.revealed = FALSE, !.phase = "runoff"]

NextRound(g) ==
    [g EXCEPT !.votes = NoVotes, !.runoff = {}, !.revealed = FALSE, !.ballotSaved = FALSE,
              !.seconds = 0, !.seat = 0, !.phase = "ready"]

SubmitGuess(g, correct) == End(g, IF correct THEN "impostor" ELSE "citizens")

TimerShouldRun(g) ==
    g.seconds > 0 /\ (g.phase \in {"hints", "voteTransition"} \/ (g.phase = "guess" /\ g.revealed))

Tick(g) ==
    IF g.seconds > 1 THEN [g EXCEPT !.seconds = @ - 1]
    ELSE CASE g.phase = "hints" -> HintSpoken(g)
           [] g.phase = "voteTransition" -> StartVoting(g)
           [] g.phase = "guess" -> End(g, "citizens")

-----------------------------------------------------------------------------
(* The screen *)

\* A move on the screen; its copy is written before the next one (bound).
Apply(next) ==
    /\ todo = "nothing"
    /\ game' = next
    /\ todo' = IF next.phase = "ended" THEN "clear" ELSE "save"
    /\ UNCHANGED saved

SaysItIsThem ==
    /\ app = "open" /\ ~game.revealed /\ game.phase \in SecretPhases \cup {"guess"}
    /\ Apply(Reveal(game))
    /\ holder' = IF game.phase = "guess" THEN game.impostor ELSE CurrentPlayer(game)
    /\ UNCHANGED app

\* The voter chooses, and the device stays in their hands.
CastsBallot(target) ==
    /\ app = "open" /\ game.phase \in {"voting", "runoff"} /\ game.revealed /\ ~game.ballotSaved
    /\ target \in CandidatesFor(game, CurrentPlayer(game))
    /\ Apply(ConfirmVote(game, target))
    /\ UNCHANGED <<app, holder>>

Moves ==
    \/ game.phase = "roleReveal" /\ game.revealed /\ Apply(RoleSeen(game))
    \/ game.phase = "ready" /\ Apply(StartRound(game))
    \/ game.phase = "hints" /\ Apply(HintSpoken(game))
    \/ game.phase \in {"voting", "runoff"} /\ game.revealed /\ game.ballotSaved /\ Apply(FinishVote(game))
    \/ game.phase = "tie" /\ Apply(StartRunoff(game))
    \/ game.phase \in {"tieAgain", "elimination"} /\ Apply(NextRound(game))
    \/ game.phase = "guess" /\ game.revealed /\ \E correct \in BOOLEAN : Apply(SubmitGuess(game, correct))

HandsOn ==
    /\ app = "open"
    /\ Moves
    /\ holder' = None
    /\ UNCHANGED app

\* The ticker also runs while the match is being deleted.
Ticks ==
    /\ app \in {"open", "leaving"} /\ TimerShouldRun(game)
    /\ Apply(Tick(game))
    /\ holder' = None
    /\ UNCHANGED app

\* Whatever the system calls it, the app is no longer in front; or somebody asks to leave.
Covered ==
    /\ app = "open" /\ todo = "nothing"
    /\ game' = HidePrivateContent(game)
    /\ app' \in (IF game.revealed THEN {"background", "open"} ELSE {"background"})
    /\ todo' = "save" /\ holder' = None
    /\ UNCHANGED saved

Returns ==
    /\ app = "background"
    /\ app' = "open"
    /\ UNCHANGED <<game, saved, todo, holder>>

\* The match is deleted, and when that is done its screen is closed.
Leave ==
    /\ app = "open" /\ todo = "nothing"
    /\ app' = "leaving" /\ todo' = "clear" /\ game' = HidePrivateContent(game) /\ holder' = None
    /\ UNCHANGED saved

Close ==
    /\ app = "leaving" /\ todo = "nothing"
    /\ app' = "closed"
    /\ UNCHANGED <<game, saved, todo, holder>>

\* What is saved is the match as it is when the write begins.
Write ==
    /\ todo # "nothing"
    /\ saved' = IF todo = "save" THEN game ELSE None
    /\ todo' = "nothing"
    /\ UNCHANGED <<game, app, holder>>

\* The app is killed, before or after the last move was written.
Kill ==
    /\ app # "closed"
    /\ app' = "closed" /\ todo' = "nothing" /\ holder' = None
    /\ UNCHANGED <<game, saved>>

BugRestored(g) == [g EXCEPT !.ballotSaved = FALSE, !.revealed = FALSE]

Restored(g) == [g EXCEPT !.revealed = FALSE]

\* The home screen offers the copy, unless its match has ended.
Resume ==
    /\ app = "closed" /\ saved # None
    /\ IF saved.phase = "ended"
       THEN saved' = None /\ UNCHANGED <<game, todo, app>>
       ELSE game' = Restored(saved) /\ todo' = "save" /\ app' = "open" /\ UNCHANGED saved
    /\ holder' = None

Next ==
    \/ SaysItIsThem \/ HandsOn \/ Ticks \/ Covered \/ Returns \/ Leave \/ Close \/ Write \/ Kill \/ Resume
    \/ \E target \in Players : CastsBallot(target)

Spec == Init /\ [][Next]_vars

-----------------------------------------------------------------------------

\* A role or a ballot is on the screen only in the hands of the player it
\* belongs to, who has said so since the device last changed hands, the app was
\* last covered and the match last restored (local_game.dart, revealed).
SecretsAreHandedOver ==
    (app # "closed" /\ game.phase \in SecretPhases /\ game.revealed) => holder = CurrentPlayer(game)

\* While the device goes round, exactly those who had it have voted, and the
\* one who has it once their ballot is confirmed; each for somebody they may
\* vote for.  No kill, tie or runoff loses a ballot or counts one twice.
BallotsAreWhole ==
    game.phase \in {"voting", "runoff"} =>
        \A p \in Players :
            IF p \in Active(game) /\ (SeatOf(game, p) < game.seat \/ (SeatOf(game, p) = game.seat /\ game.ballotSaved))
            THEN game.votes[p] \in CandidatesFor(game, p)
            ELSE game.votes[p] = None

\* "Every rule here matches the online game" (local_game.dart:76-77): every
\* step of the offline match is one that Match allows the online one, but for
\* a match that goes on from its copy and so may lose its last move.
Stage ==
    CASE game.phase = "guess" -> "guess"
      [] game.phase = "ended" -> "over"
      [] OTHER -> "rounds"
Online == INSTANCE Match WITH
    impostor <- game.impostor,
    playing <- Active(game) \cup {game.impostor},
    watching <- game.eliminated \ {game.impostor},
    stage <- Stage,
    winner <- game.outcome,
    vote <- IF game.phase \notin {"voting", "tie", "runoff"} THEN "closed"
            ELSE IF game.votes = NoVotes THEN "open" ELSE "heard",
    silent <- 0
KeepsOnlineRules == Online!Init /\ [][Online!Next \/ Resume]_(Online!vars)
=============================================================================

-------------------------------- MODULE Match --------------------------------
(***************************************************************************)
(* What a match promises, without phases, timers, turns or connections:    *)
(* players walk away or are voted out one by one, votes are heard or pass  *)
(* in silence, and the match is decided in the very step that decides it.  *)
(* Game is shown to implement this specification.                          *)
(***************************************************************************)
EXTENDS Integers, FiniteSets

CONSTANT Players

VARIABLES
    impostor,   \* dealt once
    playing,    \* players with a turn and a vote
    watching,   \* players voted out who stayed to watch
    stage,      \* "rounds", then "guess" once the impostor is caught, then "over"
    winner,     \* "none" until the match is over, and when it was called off
    vote,       \* the vote: "closed", "open" with no ballot yet, or "heard"
    silent      \* votes in a row that closed without a ballot

vars == <<impostor, playing, watching, stage, winner, vote, silent>>

Init ==
    /\ impostor \in Players
    /\ playing = Players
    /\ watching = {}
    /\ stage = "rounds"
    /\ winner = "none"
    /\ vote = "closed"
    /\ silent = 0

\* `left' play on, unless that decides the match; `ballot' is then the state of the vote.
Settle(left, ballot) ==
    /\ playing' = left
    /\ IF impostor \notin left
       THEN stage' = "over" /\ winner' = "citizens" /\ vote' = "closed"
       ELSE IF stage = "rounds" /\ Cardinality(left \ {impostor}) <= 1
       THEN stage' = "over" /\ winner' = "impostor" /\ vote' = "closed"
       ELSE UNCHANGED <<stage, winner>> /\ vote' = ballot
    /\ UNCHANGED impostor

\* Players walk out or are removed.
Depart(gone) ==
    /\ stage # "over"
    /\ Settle(playing \ gone, vote)
    /\ watching' = watching \ gone
    /\ UNCHANGED silent

OpenVote ==
    /\ stage = "rounds"
    /\ vote = "closed"
    /\ vote' = "open"
    /\ UNCHANGED <<impostor, playing, watching, stage, winner, silent>>

Speak ==
    /\ vote = "open"
    /\ vote' = "heard"
    /\ UNCHANGED <<impostor, playing, watching, stage, winner, silent>>

\* A vote with a ballot in it closes, and the match is still undecided.  The last ballot may
\* close it in the step that casts it, and so may the departure of `gone', whom alone the
\* vote was waiting for.
CloseVote(gone) ==
    /\ stage = "rounds"
    /\ vote # "closed"
    /\ impostor \in playing \ gone
    /\ Cardinality(playing \ (gone \cup {impostor})) >= 2
    /\ silent' = 0

VoteOut(gone, citizen) ==
    /\ CloseVote(gone)
    /\ citizen \in playing \ (gone \cup {impostor})
    /\ Settle(playing \ (gone \cup {citizen}), "closed")
    /\ watching' = (watching \ gone) \cup {citizen}

Catch(gone) ==
    /\ CloseVote(gone)
    /\ stage' = "guess"
    /\ vote' = "closed"
    /\ playing' = playing \ gone
    /\ watching' = watching \ gone
    /\ UNCHANGED <<impostor, winner>>

\* Nobody is voted out: the tied candidates meet in a runoff, or the match goes on.
Undecided(gone, ballot) ==
    /\ CloseVote(gone)
    /\ vote' = ballot
    /\ playing' = playing \ gone
    /\ watching' = watching \ gone
    /\ UNCHANGED <<impostor, stage, winner>>

\* A vote nobody spoke in; the second in a row calls the match off.
CloseInSilence ==
    /\ stage = "rounds"
    /\ vote = "open"
    /\ vote' = "closed"
    /\ silent' = silent + 1
    /\ stage' = IF silent = 1 THEN "over" ELSE stage
    /\ UNCHANGED <<impostor, playing, watching, winner>>

Guess ==
    /\ stage = "guess"
    /\ stage' = "over"
    /\ winner' \in {"impostor", "citizens"}
    /\ UNCHANGED <<impostor, playing, watching, vote, silent>>

Next ==
    \/ OpenVote \/ Speak \/ CloseInSilence \/ Guess
    \/ \E gone \in SUBSET (playing \cup watching) :
          \/ Depart(gone)
          \/ \E citizen \in playing : VoteOut(gone, citizen)
          \/ Catch(gone)
          \/ \E ballot \in {"open", "closed"} : Undecided(gone, ballot)

Spec == Init /\ [][Next]_vars
=============================================================================

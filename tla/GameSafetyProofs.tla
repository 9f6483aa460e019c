--------------------------- MODULE GameSafetyProofs ---------------------------
(***************************************************************************)
(* The rest of what is checked of Game, for every value of its constants:  *)
(* the verdict fits how the match stands, nobody is waited for in vain, no *)
(* ballot is lost to a connection and no turn gains time by one.           *)
(*                                                                         *)
(* The first part lists the ways a method may go; the second says of each  *)
(* method, and then of each step, that it leaves a match Well behind: all  *)
(* four properties at once. The last part is about strikes alone: no       *)
(* player whose window closed is spared one.                               *)
(***************************************************************************)
EXTENDS GameProofs

(* The ways of a method *)

\* k comes out of a tally of g, by way of h and tie, which are g but for what the tally counted.
TallyWay(g, h, tie, k) ==
    \/ k = End(h, "none", "abandoned")
    \/ k \in {StartRound(h), SetPhase(h, "impostor_guess")}
    \/ \E c \in Active(h) \ {h.impostor} : AtPlay(h) /\ k = Eliminate(h, c)
    \/ g.phase = "voting" /\ \E top \in SUBSET Active(h) : k = StartVoting(h, "runoff_voting", top)
    \/ k = ShowElimination(tie, None)

\* A tally calls the match off, starts a round, catches the impostor, votes a citizen out, opens
\* a runoff after a first vote, or shows a tie.
LEMMA TallyWays ==
    ASSUME NEW g, AtPlay(g), Ballots(g), g.phase \in VotePhases
    PROVE  \E h, tie \in Games :
              /\ h.status = g.status /\ h.impostor = g.impostor /\ h.result = g.result
              /\ h.connected = g.connected
              /\ tie.status = g.status /\ tie.impostor = g.impostor /\ tie.result = g.result
              /\ tie.connected = g.connected
              /\ TallyWay(g, h, tie, Tally(g))
<1> DEFINE h == [g EXCEPT !.silentVotes = IF Silent(g) THEN @ + 1 ELSE 0]
           top == Top(g)
           tie == [h EXCEPT !.tied = top]
           k == Tally(g)
<1>1. /\ h \in Games /\ h.status = g.status /\ h.impostor = g.impostor /\ h.result = g.result
      /\ h.connected = g.connected /\ h.phase = g.phase
      /\ h.silentVotes \in 0 .. MaxSilentVotes
  BY DEF AtPlay, Games, MaxSilentVotes
<1>2. top \in SUBSET Active(g) /\ top \in SUBSET Seats /\ g.impostor \in Seats
  BY DEF Top, Ballots, AtPlay, Games, Active
<1>3. k =
        IF h.silentVotes >= MaxSilentVotes THEN End(h, "none", "abandoned")
        ELSE IF top = {} THEN StartRound(h)
        ELSE IF top = {g.impostor} THEN SetPhase(h, "impostor_guess")
        ELSE IF \E c \in Seats : top = {c} THEN Eliminate(h, CHOOSE c \in top : TRUE)
        ELSE IF g.phase = "voting" THEN StartVoting(h, "runoff_voting", top)
        ELSE ShowElimination(tie, None)
  BY DEF Tally
<1>4. tie = [h EXCEPT !.tied = top]
  OBVIOUS
<1> HIDE DEF h, k, top, tie
<1>5. /\ tie \in Games /\ tie.status = g.status /\ tie.impostor = g.impostor /\ tie.result = g.result
      /\ tie.connected = g.connected
  BY <1>1, <1>2, <1>4 DEF Games
<1>6. Active(h) = Active(g) /\ Citizens(h) = Citizens(g)
  BY <1>1 DEF Active, Citizens
<1>7. ~(h.silentVotes >= MaxSilentVotes) => AtPlay(h)
  BY <1>1, <1>6 DEF AtPlay, MaxSilentVotes
<1>8. TallyWay(g, h, tie, k)
  <2>1. CASE \E c \in Seats : top = {c} /\ top # {g.impostor} /\ ~(h.silentVotes >= MaxSilentVotes)
    <3>1. PICK c \in Seats : top = {c} /\ top # {g.impostor} /\ ~(h.silentVotes >= MaxSilentVotes)
      BY <2>1
    <3>2. (CHOOSE x \in top : TRUE) = c
      BY <3>1
    <3>3. k = Eliminate(h, c)
      BY <1>3, <3>1, <3>2
    <3>4. c \in Active(h) \ {h.impostor}
      BY <1>1, <1>2, <1>6, <3>1
    <3> QED BY <1>7, <3>1, <3>3, <3>4 DEF TallyWay
  <2>2. CASE ~\E c \in Seats : top = {c} /\ top # {g.impostor} /\ ~(h.silentVotes >= MaxSilentVotes)
    <3>1. \/ k = End(h, "none", "abandoned")
          \/ k \in {StartRound(h), SetPhase(h, "impostor_guess")}
          \/ g.phase = "voting" /\ k = StartVoting(h, "runoff_voting", top)
          \/ k = ShowElimination(tie, None)
      BY <1>2, <1>3, <2>2
    <3> QED BY <1>2, <1>6, <3>1 DEF TallyWay
  <2> QED BY <2>1, <2>2
<1> QED BY <1>1, <1>5, <1>8 DEF k

\* A barrier that is complete closes the vote or goes on to hints; another changes nothing.
LEMMA AdvanceWays ==
    ASSUME NEW g
    PROVE  \/ g.phase \in VotePhases /\ AllConnectedVoted(g) /\ MaybeAdvance(g) = Tally(g)
           \/ g.phase \in {"role_reveal", "elimination_reveal"} /\ MaybeAdvance(g) \in {StartTurn(g, 1), StartRound(g)}
           \/ /\ MaybeAdvance(g) = g
              /\ g.phase \in VotePhases => ~AllConnectedVoted(g)
              /\ g.phase = "role_reveal" => ~AllConnectedAcked(g, Active(g))
              /\ g.phase = "elimination_reveal" => ~AllConnectedAcked(g, Watchers(g))
BY DEF MaybeAdvance, VotePhases

\* Without the impostor the match is over; at the guess nothing else matters; parity ends it; and
\* otherwise a turn that lost its holder passes on, or a barrier may be complete now.
RemoveWay(g, gone, h, k) ==
    \/ g.impostor \in gone /\ k = End(h, "citizens", "impostor_gone")
    \/ g.impostor \notin gone /\ g.phase = "impostor_guess" /\ k = h
    \/ /\ g.impostor \notin gone /\ g.phase # "impostor_guess"
       /\ Cardinality(Citizens(h)) <= 1 /\ k = End(h, "impostor", "impostor_parity")
    \/ AtPlay(h) /\ g.phase = "hints" /\ g.turn \in gone /\ k = StartTurn(h, g.turn + 1)
    \/ AtPlay(h) /\ ~(g.phase = "hints" /\ g.turn \in gone) /\ k = MaybeAdvance(h)

\* Whoever leaves, RemoveAll takes one of those ways once they and their ballots are gone.
LEMMA RemoveWays ==
    ASSUME NEW g \in Games, NEW gone \in SUBSET Watchers(g), NEW status \in {"left", "removed"},
           Running(g), Strikes(g, Seats \ gone),
           Earned(g, gone, status)
    PROVE  \E h \in Games :
              /\ Active(h) = Active(g) \ gone /\ Watchers(h) = Watchers(g) \ gone
              /\ Ballots(g) => Ballots(h)
              /\ \A v \in Voted(g) \ gone : g.votes[v] \notin gone => h.votes[v] = g.votes[v]
              /\ h.impostor = g.impostor /\ h.phase = g.phase /\ h.result = Undecided
              /\ h.connected = g.connected /\ h.confirmed = g.confirmed
              /\ h.deadline = g.deadline /\ h.turn = g.turn /\ h.turnLeft = g.turnLeft
              /\ RemoveWay(g, gone, h, RemoveAll(g, gone, status))
<1> DEFINE h == Without(g, gone, status)
           k == RemoveAll(g, gone, status)
<1>1. k =
        IF g.impostor \in gone THEN End(h, "citizens", "impostor_gone")
        ELSE IF g.phase = "impostor_guess" THEN h
        ELSE IF ActiveImpostors(h) # {} /\ Outnumbered(h) THEN End(h, "impostor", "impostor_parity")
        ELSE IF TooFew(h) THEN End(h, "none", "not_enough_players")
        ELSE IF g.phase = "hints" /\ g.turn \in gone THEN StartTurn(h, g.turn + 1)
        ELSE MaybeAdvance(h)
  BY DEF RemoveAll, Without
<1>2. h = Without(g, gone, status)
  OBVIOUS
<1>3. Watchers(h) = Watchers(g) \ gone /\ h.confirmed = g.confirmed
  BY DEF Without, DropBallots, Watchers, Games
<1>4. \A v \in Voted(g) \ gone : g.votes[v] \notin gone => h.votes[v] = g.votes[v]
  BY DEF Without, DropBallots, Voted, Games
<1> HIDE DEF h, k
<1>5. /\ h \in Games
      /\ Strikes(h, Seats)
      /\ Active(h) = Active(g) \ gone
      /\ Ballots(g) => Ballots(h)
      /\ h.impostor = g.impostor /\ h.connected = g.connected /\ h.phase = g.phase
      /\ h.result = g.result /\ h.silentVotes = g.silentVotes /\ h.deadline = g.deadline
      /\ h.turn = g.turn /\ h.turnLeft = g.turnLeft /\ h.reconnecting = g.reconnecting
  BY <1>2, GoneFrame
<1>6. g.result = Undecided
  BY DEF Running
<1>7. RemoveWay(g, gone, h, k)
  <2>1. CASE g.impostor \in gone
    BY <1>1, <2>1 DEF RemoveWay
  <2>2. CASE g.impostor \notin gone /\ g.phase = "impostor_guess"
    BY <1>1, <2>2 DEF RemoveWay
  <2>3. CASE g.impostor \notin gone /\ g.phase # "impostor_guess"
    <3>1. h.impostor \in Active(h)
      BY <1>5, <2>3 DEF Running
    <3>2. ActiveImpostors(h) # {}
      BY <3>1 DEF ActiveImpostors
    <3>3. /\ Outnumbered(h) <=> Cardinality(Citizens(h)) <= 1
          /\ ~Outnumbered(h) => ~TooFew(h)
      BY <1>5, <3>1, Outnumbering
    <3>4. ~Outnumbered(h) => AtPlay(h)
      BY <1>5, <3>1, TwoCitizens DEF AtPlay, Running
    <3> QED BY <1>1, <2>3, <3>2, <3>3, <3>4 DEF RemoveWay
  <2> QED BY <2>1, <2>2, <2>3
<1> QED BY <1>3, <1>4, <1>5, <1>6, <1>7 DEF k

-----------------------------------------------------------------------------
(* What a step should leave behind *)

\* The verdict of k, if it has one, fits how k stands.
Verdict(k) ==
    k.phase = "ended" =>
        /\ k.result.reason \notin {"undecided", "not_enough_players"}
        /\ k.result.winner = "impostor" =>
              /\ k.impostor \in Active(k)
              /\ k.result.reason = "impostor_guessed_word" \/ Cardinality(Citizens(k)) <= 1
        /\ k.result.winner = "none" <=> k.result.reason = "abandoned"
        /\ k.result.reason = "impostor_gone" <=> k.impostor \notin Active(k)
        /\ \A p \in Seats :
              /\ k.result.outcome[p] = "none" <=> k.result.winner = "none"
              /\ k.result.outcome[p] = "win" <=>
                    /\ k.result.winner # "none" /\ p \in Watchers(k)
                    /\ p = k.impostor <=> k.result.winner = "impostor"

\* A barrier nobody has passed since everyone dropped.
Untouched(k, who) == \A p \in who : ~k.connected[p] /\ ~k.confirmed[p]

\* k waits for nobody in vain.  A reveal may be complete for want of anyone connected; then it
\* is untouched, so that whoever comes back is waited for.
Waits(k) ==
    /\ k.phase \in VotePhases => ~AllConnectedVoted(k)
    /\ k.phase = "role_reveal" => ~AllConnectedAcked(k, Active(k)) \/ Untouched(k, Active(k))
    /\ k.phase = "elimination_reveal" => ~AllConnectedAcked(k, Watchers(k)) \/ Untouched(k, Watchers(k))

\* The turn of g, if it goes on in k, gained no time.
TurnKept(g, k) ==
    g.phase = "hints" /\ k.phase = "hints" /\ k.turn = g.turn =>
        k.turnLeft <= g.turnLeft /\ k.deadline <= g.turnLeft

\* The vote of g, if it goes on in k, lost no ballot of and for players who are there.
BallotKept(g, k) ==
    g.phase \in VotePhases /\ k.phase = g.phase =>
        \A v \in Voted(g) : v \in Active(k) /\ g.votes[v] \in Active(k) => k.votes[v] # None

Well(g, k) == Verdict(k) /\ Waits(k) /\ TurnKept(g, k) /\ BallotKept(g, k)

\* A barrier that has only just been set up: nobody has answered yet.
Fresh(k) ==
    /\ k.phase # "role_reveal"
    /\ k.phase \in VotePhases => Voted(k) = {}
    /\ k.phase = "elimination_reveal" => \A p \in Seats : ~k.confirmed[p]

\* A fresh barrier waits for everyone who is connected.
LEMMA FreshWaits ==
    ASSUME NEW k, Fresh(k)
    PROVE  Waits(k)
<1>1. k.phase \in VotePhases => ~AllConnectedVoted(k)
  BY DEF Fresh, AllConnectedVoted
<1>2. ASSUME k.phase = "elimination_reveal"
      PROVE  ~AllConnectedAcked(k, Watchers(k)) \/ Untouched(k, Watchers(k))
  <2>1. \A p \in Watchers(k) : ~k.confirmed[p]
    BY <1>2 DEF Fresh, Watchers
  <2> QED BY <2>1 DEF AllConnectedAcked, Untouched
<1> QED BY <1>1, <1>2 DEF Fresh, Waits

-----------------------------------------------------------------------------
(* The methods *)

\* How a match may be ended: by parity or by the word with the impostor there, by a guess that
\* fails, because the impostor is gone, or because nobody plays.
Justly(g, winner, reason) ==
    \/ /\ winner = "impostor" /\ reason = "impostor_parity"
       /\ g.impostor \in Active(g) /\ Cardinality(Citizens(g)) <= 1
    \/ winner = "impostor" /\ reason = "impostor_guessed_word" /\ g.impostor \in Active(g)
    \/ /\ winner = "citizens" /\ reason \in {"impostor_guess_wrong", "impostor_guess_timeout"}
       /\ g.impostor \in Active(g)
    \/ winner = "citizens" /\ reason = "impostor_gone" /\ g.impostor \notin Active(g)
    \/ winner = "none" /\ reason = "abandoned" /\ g.impostor \in Active(g)

LEMMA EndIsFair ==
    ASSUME NEW g \in Games, g.result = Undecided, NEW winner, NEW reason, Justly(g, winner, reason)
    PROVE  End(g, winner, reason).phase = "ended" /\ Verdict(End(g, winner, reason))
<1> DEFINE outcomes == [p \in Seats |-> Outcome(g, winner, reason, p)]
           r == [winner |-> winner, reason |-> reason, outcome |-> outcomes]
           k == End(g, winner, reason)
<1>1. \A p \in Seats : outcomes[p] = Outcome(g, winner, reason, p)
  OBVIOUS
<1> HIDE DEF outcomes
<1>2. r.winner = winner /\ r.reason = reason /\ r.outcome = outcomes
  OBVIOUS
<1>3. k = [g EXCEPT !.phase = "ended", !.deadline = NoTimer, !.turnLeft = 0, !.reconnecting = FALSE, !.result = r]
  BY DEF End, outcomes
<1> HIDE DEF r, k
<1>4. k.status = g.status /\ k.impostor = g.impostor /\ k.phase = "ended" /\ k.result = r
  BY <1>3 DEF Games
<1>5. Active(k) = Active(g) /\ Watchers(k) = Watchers(g) /\ Citizens(k) = Citizens(g)
  BY <1>4 DEF Active, Watchers, Citizens
<1>6. ASSUME NEW p \in Seats
      PROVE  /\ outcomes[p] = "none" <=> winner = "none"
             /\ outcomes[p] = "win" <=>
                   /\ winner # "none" /\ p \in Watchers(g)
                   /\ p = g.impostor <=> winner = "impostor"
  <2>1. outcomes[p] = IF reason = "abandoned" THEN "none" ELSE IF Won(g, winner, p) THEN "win" ELSE "loss"
    BY <1>1 DEF Outcome
  <2>2. winner = "none" <=> reason = "abandoned"
    BY DEF Justly
  <2> QED BY <2>1, <2>2 DEF Won
<1>7. /\ reason \notin {"undecided", "not_enough_players"}
      /\ winner = "impostor" =>
            g.impostor \in Active(g) /\ (reason = "impostor_guessed_word" \/ Cardinality(Citizens(g)) <= 1)
      /\ winner = "none" <=> reason = "abandoned"
      /\ reason = "impostor_gone" <=> g.impostor \notin Active(g)
  BY DEF Justly
<1> QED BY <1>2, <1>4, <1>5, <1>6, <1>7 DEF Verdict, k

\* Turns and rounds are no barriers.
LEMMA TurnIsFresh ==
    ASSUME NEW k, k.phase \in {"hints", "pre_voting", "hint_break", "impostor_guess"}
    PROVE  Fresh(k) /\ Verdict(k) /\ Waits(k) /\ k.phase \notin VotePhases
BY FreshWaits DEF Fresh, Verdict, VotePhases

LEMMA EndIsFresh ==
    ASSUME NEW k, k.phase = "ended"
    PROVE  Fresh(k) /\ Waits(k) /\ k.phase \notin VotePhases
BY FreshWaits DEF Fresh, VotePhases

\* A vote opens without a ballot.
LEMMA VotingIsFresh ==
    ASSUME NEW g \in Games, NEW phase \in VotePhases, NEW candidates
    PROVE  /\ Fresh(StartVoting(g, phase, candidates)) /\ Verdict(StartVoting(g, phase, candidates))
           /\ StartVoting(g, "runoff_voting", candidates).phase = "runoff_voting"
<1> DEFINE s == SetPhase(g, phase)
           k == StartVoting(g, phase, candidates)
<1>1. k = [s EXCEPT !.reconnecting = FALSE, !.candidates = candidates, !.votes = NoVotes, !.voteCast = FALSE]
  BY DEF StartVoting
<1>2. /\ DOMAIN s = DOMAIN g /\ "votes" \in DOMAIN g
  BY DEF SetPhase, Games
<1> HIDE DEF s
<1>3. k.votes = NoVotes
  BY <1>1, <1>2
<1>4. k.phase \in VotePhases
  BY VotingMoves DEF Games, Seen
<1> HIDE DEF k
<1>5. Voted(k) = {}
  BY <1>3 DEF Voted, NoVotes
<1>6. StartVoting(g, "runoff_voting", candidates).phase = "runoff_voting"
  BY DEF StartVoting, SetPhase, Games
<1> QED BY <1>4, <1>5, <1>6 DEF Fresh, Verdict, VotePhases, k

\* A reveal begins unconfirmed.
LEMMA RevealIsFresh ==
    ASSUME NEW g \in Games, NEW p
    PROVE  /\ ShowElimination(g, p).phase = "elimination_reveal"
           /\ Fresh(ShowElimination(g, p)) /\ Verdict(ShowElimination(g, p))
<1> DEFINE s == SetPhase(g, "elimination_reveal")
           k == ShowElimination(g, p)
<1>1. k = [s EXCEPT !.lastEliminated = p, !.confirmed = [q \in Seats |-> FALSE]]
  BY DEF ShowElimination
<1>2. DOMAIN s = DOMAIN g /\ "confirmed" \in DOMAIN g
  BY DEF SetPhase, Games
<1>3. k.phase = "elimination_reveal"
  BY RevealMoves DEF Games, Seen
<1> HIDE DEF s
<1>4. k.confirmed = [q \in Seats |-> FALSE]
  BY <1>1, <1>2
<1> HIDE DEF k
<1>5. \A q \in Seats : ~k.confirmed[q]
  BY <1>4
<1> QED BY <1>3, <1>5 DEF Fresh, Verdict, VotePhases, k

\* Whoever is voted out leaves parity or a reveal behind.
LEMMA EliminateIsFresh ==
    ASSUME NEW g, AtPlay(g), NEW p \in Active(g) \ {g.impostor}
    PROVE  LET k == Eliminate(g, p) IN Fresh(k) /\ Verdict(k) /\ k.phase \in {"ended", "elimination_reveal"}
<1> DEFINE out == [g EXCEPT !.status[p] = "eliminated"]
           k == Eliminate(g, p)
<1>1. /\ out \in Games /\ out.status = [g.status EXCEPT ![p] = "eliminated"]
      /\ out.impostor = g.impostor /\ out.result = g.result
  BY DEF AtPlay, Games, Statuses, Active
<1>2. k = IF Outnumbered(out) THEN End(out, "impostor", "impostor_parity")
          ELSE IF TooFew(out) THEN End(out, "none", "not_enough_players")
          ELSE ShowElimination(out, p)
  BY DEF Eliminate
<1>3. g.status \in [Seats -> Statuses] /\ p \in Seats /\ g.result = Undecided /\ g.impostor \in Active(g)
  BY DEF AtPlay, Games, Active
<1> HIDE DEF out, k
<1>4. out.impostor \in Active(out)
  BY <1>1, <1>3 DEF Active
<1>5. CASE Outnumbered(out)
  <2>1. Justly(out, "impostor", "impostor_parity")
    BY <1>1, <1>4, <1>5, Outnumbering DEF Justly
  <2>2. k = End(out, "impostor", "impostor_parity")
    BY <1>2, <1>5
  <2>3. k.phase = "ended" /\ Verdict(k)
    BY <1>1, <1>3, <2>1, <2>2, EndIsFair
  <2> QED BY <2>3, EndIsFresh DEF k
<1>6. CASE ~Outnumbered(out)
  <2>1. k = ShowElimination(out, p)
    BY <1>1, <1>2, <1>4, <1>6, Outnumbering
  <2> QED BY <1>1, <2>1, RevealIsFresh DEF k
<1> QED BY <1>5, <1>6

\* A count closes the vote: what follows is a match that ended fairly, or a fresh barrier.
LEMMA TallyCloses ==
    ASSUME NEW g, AtPlay(g), Ballots(g), g.phase \in VotePhases
    PROVE  Fresh(Tally(g)) /\ Verdict(Tally(g)) /\ Tally(g).phase # g.phase
<1>1. PICK h \in Games, tie \in Games :
              /\ h.status = g.status /\ h.impostor = g.impostor /\ h.result = g.result
              /\ h.connected = g.connected
              /\ tie.status = g.status /\ tie.impostor = g.impostor /\ tie.result = g.result
              /\ tie.connected = g.connected
              /\ TallyWay(g, h, tie, Tally(g))
  BY TallyWays
<1> DEFINE k == Tally(g)
<1> HIDE DEF k
<1>2. TallyWay(g, h, tie, k)
  BY <1>1 DEF k
<1>3. /\ h.result = Undecided /\ h.impostor \in Active(h) /\ Seen \subseteq DOMAIN h
  BY <1>1 DEF AtPlay, Active, Games, Seen
<1>4. CASE k = End(h, "none", "abandoned")
  <2>1. Justly(h, "none", "abandoned")
    BY <1>3 DEF Justly
  <2>2. k.phase = "ended" /\ Verdict(k)
    BY <1>3, <1>4, <2>1, EndIsFair
  <2> QED BY <2>2, EndIsFresh DEF k
<1>5. CASE k \in {StartRound(h), SetPhase(h, "impostor_guess")}
  <2>1. k.phase \in {"hints", "pre_voting", "impostor_guess"}
    BY <1>3, <1>5, RoundMoves, PhaseMoves
  <2>2. Fresh(k) /\ Verdict(k) /\ k.phase \notin VotePhases
    BY <2>1, TurnIsFresh
  <2> QED BY <2>2 DEF k
<1>6. CASE \E c \in Active(h) \ {h.impostor} : AtPlay(h) /\ k = Eliminate(h, c)
  <2>1. Fresh(k) /\ Verdict(k) /\ k.phase \in {"ended", "elimination_reveal"}
    BY <1>6, EliminateIsFresh
  <2> QED BY <2>1 DEF k, VotePhases
<1>7. CASE g.phase = "voting" /\ \E top \in SUBSET Active(h) : k = StartVoting(h, "runoff_voting", top)
  <2>1. Fresh(k) /\ Verdict(k) /\ k.phase = "runoff_voting"
    BY <1>7, VotingIsFresh DEF VotePhases
  <2> QED BY <1>7, <2>1 DEF k
<1>8. CASE k = ShowElimination(tie, None)
  <2>1. Fresh(k) /\ Verdict(k) /\ k.phase = "elimination_reveal"
    BY <1>8, RevealIsFresh
  <2> QED BY <2>1 DEF k, VotePhases
<1> QED BY <1>2, <1>4, <1>5, <1>6, <1>7, <1>8 DEF TallyWay

\* Whatever may complete a barrier either completes it, and closes it, or leaves it waiting.
LEMMA AdvanceWaits ==
    ASSUME NEW g \in Games, g.phase \in VotePhases => AtPlay(g) /\ Ballots(g)
    PROVE  LET k == MaybeAdvance(g) IN
           /\ Waits(k)
           /\ \/ k = g
              \/ /\ k.phase # g.phase /\ Verdict(k)
                 /\ g.phase \in VotePhases \cup {"role_reveal", "elimination_reveal"}
<1> DEFINE k == MaybeAdvance(g)
<1>1. \/ g.phase \in VotePhases /\ AllConnectedVoted(g) /\ k = Tally(g)
      \/ g.phase \in {"role_reveal", "elimination_reveal"} /\ k \in {StartTurn(g, 1), StartRound(g)}
      \/ /\ k = g
         /\ g.phase \in VotePhases => ~AllConnectedVoted(g)
         /\ g.phase = "role_reveal" => ~AllConnectedAcked(g, Active(g))
         /\ g.phase = "elimination_reveal" => ~AllConnectedAcked(g, Watchers(g))
  BY AdvanceWays
<1> HIDE DEF k
<1>2. CASE g.phase \in VotePhases /\ k = Tally(g)
  BY <1>2, TallyCloses, FreshWaits DEF k
<1>3. CASE g.phase \in {"role_reveal", "elimination_reveal"} /\ k \in {StartTurn(g, 1), StartRound(g)}
  <2>1. k.phase \in {"hints", "pre_voting"}
    BY <1>3, TurnMoves, RoundMoves DEF Games, Seen
  <2>2. Waits(k) /\ Verdict(k)
    BY <2>1, TurnIsFresh
  <2> QED BY <1>3, <2>1, <2>2 DEF k
<1>4. CASE /\ k = g
           /\ g.phase \in VotePhases => ~AllConnectedVoted(g)
           /\ g.phase = "role_reveal" => ~AllConnectedAcked(g, Active(g))
           /\ g.phase = "elimination_reveal" => ~AllConnectedAcked(g, Watchers(g))
  BY <1>4 DEF Waits, k
<1> QED BY <1>1, <1>2, <1>3, <1>4

\* A turn passes to a later seat.
LEMMA TurnPasses ==
    ASSUME NEW g \in Games, NEW i \in Nat
    PROVE  LET k == StartTurn(g, i) IN k.phase = "hints" => k.turn \in Seats /\ k.turn >= i
<1> DEFINE s == SetPhase(g, "hints")
           rest == {p \in Active(g) : p >= i}
           t == [s EXCEPT !.turn = Min(rest), !.reconnecting = FALSE]
           k == StartTurn(g, i)
<1>1. k = IF rest = {} THEN SetPhase(g, "pre_voting") ELSE IF t.connected[t.turn] THEN t ELSE AwaitReconnect(t)
  BY DEF StartTurn
<1>2. DOMAIN s = DOMAIN g /\ "turn" \in DOMAIN g
  BY DEF SetPhase, Games
<1>3. rest # {} => Min(rest) \in rest
  BY LeastSeat DEF Active
<1>4. \A p \in rest : p \in Seats /\ p >= i
  BY DEF Active
<1>5. SetPhase(g, "pre_voting").phase = "pre_voting"
  BY PhaseMoves DEF Games, Seen
<1> HIDE DEF s, k, rest
<1>6. t.turn = Min(rest) /\ "turn" \in DOMAIN t
  BY <1>2
<1> HIDE DEF t
<1>7. AwaitReconnect(t).turn = Min(rest)
  BY <1>6 DEF AwaitReconnect
<1> QED BY <1>1, <1>3, <1>4, <1>5, <1>6, <1>7 DEF k

\* Of a match that `gone' leave, the rest is well.
LEMMA RemoveAllIsWell ==
    ASSUME NEW g \in Games, NEW gone \in SUBSET Watchers(g), NEW status \in {"left", "removed"},
           Running(g), Strikes(g, Seats \ gone),
           Earned(g, gone, status)
    PROVE  Well(g, RemoveAll(g, gone, status))
<1> DEFINE k == RemoveAll(g, gone, status)
<1>1. PICK h \in Games :
              /\ Active(h) = Active(g) \ gone /\ Watchers(h) = Watchers(g) \ gone
              /\ Ballots(g) => Ballots(h)
              /\ \A v \in Voted(g) \ gone : g.votes[v] \notin gone => h.votes[v] = g.votes[v]
              /\ h.impostor = g.impostor /\ h.phase = g.phase /\ h.result = Undecided
              /\ h.connected = g.connected /\ h.confirmed = g.confirmed
              /\ h.deadline = g.deadline /\ h.turn = g.turn /\ h.turnLeft = g.turnLeft
              /\ RemoveWay(g, gone, h, k)
  BY RemoveWays
<1> HIDE DEF k
<1>2. CASE /\ k.phase = "ended" /\ Verdict(k)
  BY <1>2, EndIsFresh DEF Well, TurnKept, BallotKept, VotePhases, Running, k
<1>3. CASE g.impostor \in gone /\ k = End(h, "citizens", "impostor_gone")
  <2>1. Justly(h, "citizens", "impostor_gone")
    BY <1>1, <1>3 DEF Justly
  <2> QED BY <1>1, <1>2, <1>3, <2>1, EndIsFair
<1>4. CASE g.impostor \notin gone /\ g.phase = "impostor_guess" /\ k = h
  <2>1. Waits(k) /\ Verdict(k)
    BY <1>1, <1>4, TurnIsFresh
  <2> QED BY <1>4, <2>1 DEF Well, TurnKept, BallotKept, VotePhases, k
<1>5. CASE /\ g.impostor \notin gone /\ g.phase # "impostor_guess"
           /\ Cardinality(Citizens(h)) <= 1 /\ k = End(h, "impostor", "impostor_parity")
  <2>1. Justly(h, "impostor", "impostor_parity")
    BY <1>1, <1>5 DEF Justly, Running
  <2> QED BY <1>1, <1>2, <1>5, <2>1, EndIsFair
<1>6. CASE AtPlay(h) /\ g.phase = "hints" /\ g.turn \in gone /\ k = StartTurn(h, g.turn + 1)
  <2>1. k.phase \in {"hints", "pre_voting"}
    BY <1>6, TurnMoves DEF Games, Seen
  <2>2. Waits(k) /\ Verdict(k)
    BY <2>1, TurnIsFresh
  <2>3. g.turn \in Nat
    <3>1. g.turn \in Seats
      BY DEF Games
    <3> QED BY <3>1, PlayersAssumption DEF Seats, MinPlayersToStart, MaxPlayers
  <2>4. k.phase = "hints" => k.turn # g.turn
    BY <1>6, <2>3, TurnPasses
  <2> QED BY <1>6, <2>2, <2>4 DEF Well, TurnKept, BallotKept, VotePhases, k
<1>7. CASE AtPlay(h) /\ ~(g.phase = "hints" /\ g.turn \in gone) /\ k = MaybeAdvance(h)
  <2>1. h.phase \in VotePhases => Ballots(h)
    BY <1>1 DEF Running
  <2>2. /\ Waits(k)
        /\ \/ k = h
           \/ /\ k.phase # h.phase /\ Verdict(k)
              /\ h.phase \in VotePhases \cup {"role_reveal", "elimination_reveal"}
    BY <1>7, <2>1, AdvanceWaits
  <2>3. Verdict(k)
    BY <1>1, <2>2 DEF Verdict, Running
  <2>4. TurnKept(g, k)
    <3>1. g.phase = "hints" => k = h
      BY <1>1, <2>2 DEF VotePhases
    <3>2. g.phase = "hints" => g.deadline <= g.turnLeft /\ g.turnLeft \in Nat
      BY DEF Running, TurnHeld, Games
    <3> QED BY <1>1, <3>1, <3>2 DEF TurnKept
  <2>5. BallotKept(g, k)
    <3>1. SUFFICES ASSUME g.phase \in VotePhases, k.phase = g.phase, NEW v \in Voted(g),
                          v \in Active(k), g.votes[v] \in Active(k)
                   PROVE  k.votes[v] # None
      BY DEF BallotKept
    <3>2. k = h
      BY <1>1, <2>2, <3>1
    <3>3. k.votes[v] = g.votes[v]
      BY <1>1, <3>1, <3>2
    <3> QED BY <3>1, <3>3 DEF Voted
  <2> QED BY <2>2, <2>3, <2>4, <2>5 DEF Well, k
<1> QED BY <1>1, <1>3, <1>4, <1>5, <1>6, <1>7 DEF RemoveWay

-----------------------------------------------------------------------------
(* The steps *)

\* What the four properties rest on, besides Sound.
Kept(g) == Sound(g) /\ Verdict(g) /\ Waits(g)

\* h is the match with one answer or one connection more or less; all that is left is to see
\* whether it completes a barrier.
Answered(h) ==
    /\ h \in Games
    /\ h.status = game.status /\ h.impostor = game.impostor /\ h.phase = game.phase
    /\ h.result = game.result /\ h.silentVotes = game.silentVotes
    /\ h.turn = game.turn /\ h.turnLeft = game.turnLeft /\ h.deadline = game.deadline
    /\ h.phase \in VotePhases => Ballots(h)
    /\ \A v \in Voted(game) : h.votes[v] # None

\* Such a match keeps the verdict, the turn and the ballots.
LEMMA AnsweredIsKept ==
    ASSUME Kept(game), NEW h, Answered(h)
    PROVE  Verdict(h) /\ TurnKept(game, h) /\ BallotKept(game, h)
<1>1. Active(h) = Active(game) /\ Watchers(h) = Watchers(game) /\ Citizens(h) = Citizens(game)
  BY DEF Answered, Active, Watchers, Citizens
<1>2. Verdict(h)
  BY <1>1 DEF Kept, Verdict, Answered
<1>3. game.phase = "hints" => game.deadline <= game.turnLeft /\ game.turnLeft \in Nat
  BY DEF Kept, Sound, Running, Ended, TurnHeld, Games
<1> QED BY <1>2, <1>3 DEF Answered, TurnKept, BallotKept

LEMMA AnswerIsWell ==
    ASSUME Kept(game), NEW h, Answered(h), game' = MaybeAdvance(h)
    PROVE  Well(game, game')
<1>1. Active(h) = Active(game) /\ Citizens(h) = Citizens(game)
  BY DEF Answered, Active, Citizens
<1>2. h.phase \in VotePhases => AtPlay(h) /\ Ballots(h)
  BY <1>1 DEF Answered, AtPlay, Kept, Sound, Running, Ended, VotePhases
<1>3. /\ Waits(game')
      /\ \/ game' = h
         \/ /\ game'.phase # h.phase /\ Verdict(game')
            /\ h.phase \in VotePhases \cup {"role_reveal", "elimination_reveal"}
  BY <1>2, AdvanceWaits DEF Answered
<1>4. CASE game' = h
  BY <1>3, <1>4, AnsweredIsKept DEF Well
<1>5. CASE /\ game'.phase # h.phase /\ Verdict(game')
           /\ h.phase \in VotePhases \cup {"role_reveal", "elimination_reveal"}
  BY <1>3, <1>5 DEF Well, Answered, TurnKept, BallotKept, VotePhases
<1> QED BY <1>3, <1>4, <1>5

\* A confirmation, at either reveal.
LEMMA AckIsWell ==
    ASSUME Kept(game), NEW p \in Seats, ConfirmRole(p) \/ ContinueAfterElimination(p)
    PROVE  Well(game, game')
<1> DEFINE h == [game EXCEPT !.confirmed[p] = TRUE]
<1>1. /\ h \in Games
      /\ h.status = game.status /\ h.impostor = game.impostor /\ h.phase = game.phase
      /\ h.result = game.result /\ h.silentVotes = game.silentVotes /\ h.votes = game.votes
      /\ h.turn = game.turn /\ h.turnLeft = game.turnLeft /\ h.deadline = game.deadline
  BY DEF Kept, Sound, Games
<1>2. game' = MaybeAdvance(h) /\ game.phase \notin VotePhases
  BY DEF ConfirmRole, ContinueAfterElimination, VotePhases
<1> HIDE DEF h
<1>3. Answered(h)
  BY <1>1, <1>2 DEF Answered, Voted
<1> QED BY <1>2, <1>3, AnswerIsWell

\* A ballot.
LEMMA VoteIsWell ==
    ASSUME Kept(game), NEW p \in Seats, NEW target \in Seats, Vote(p, target)
    PROVE  Well(game, game')
<1> DEFINE h == [game EXCEPT !.votes[p] = target, !.voteCast = TRUE]
<1>1. game \in Games /\ Ballots(game)
  BY DEF Kept, Sound, Vote, Running, Ended, VotePhases
<1>2. /\ p \in Active(game) /\ p # target /\ target \in game.candidates
      /\ game.phase \in VotePhases /\ game' = MaybeAdvance(h)
  BY DEF Vote
<1>3. /\ h \in Games
      /\ h.status = game.status /\ h.impostor = game.impostor /\ h.phase = game.phase
      /\ h.result = game.result /\ h.silentVotes = game.silentVotes
      /\ h.turn = game.turn /\ h.turnLeft = game.turnLeft /\ h.deadline = game.deadline
      /\ h.votes = [game.votes EXCEPT ![p] = target]
      /\ h.candidates = game.candidates /\ h.voteCast = TRUE
  BY <1>1 DEF Games
<1> HIDE DEF h
<1>4. \A v \in Seats : h.votes[v] = IF v = p THEN target ELSE game.votes[v]
  BY <1>1, <1>3 DEF Games
<1>5. Ballots(h)
  <2>1. \A v \in Voted(h) \ {p} : v \in Voted(game)
    BY <1>4 DEF Voted
  <2>2. Active(h) = Active(game)
    BY <1>3 DEF Active
  <2> QED BY <1>1, <1>2, <1>3, <1>4, <2>1, <2>2 DEF Ballots, Voted
<1>6. target # None
  BY PlayersAssumption DEF Seats, None, MinPlayersToStart, MaxPlayers
<1>7. \A v \in Voted(game) : h.votes[v] # None
  BY <1>4, <1>6 DEF Voted
<1>8. Answered(h)
  BY <1>3, <1>5, <1>7 DEF Answered
<1> QED BY <1>2, <1>8, AnswerIsWell

\* A hint, and a guess.
LEMMA WordIsWell ==
    ASSUME Kept(game), NEW p \in Seats, SubmitHint(p) \/ SubmitGuess(p)
    PROVE  Well(game, game')
<1>1. game \in Games /\ Seen \subseteq DOMAIN game
  BY DEF Kept, Sound, Games, Seen
<1>2. CASE SubmitHint(p)
  <2>1. game'.phase = "hint_break" /\ game.phase = "hints"
    BY <1>1, <1>2, PhaseMoves DEF SubmitHint
  <2>2. Waits(game') /\ Verdict(game')
    BY <2>1, TurnIsFresh
  <2> QED BY <2>1, <2>2 DEF Well, TurnKept, BallotKept, VotePhases
<1>3. CASE SubmitGuess(p)
  <2>1. game.result = Undecided /\ game.impostor \in Active(game) /\ game.phase = "impostor_guess"
    BY <1>3 DEF SubmitGuess, Kept, Sound, Running, Ended
  <2>2. /\ Justly(game, "impostor", "impostor_guessed_word") /\ Justly(game, "citizens", "impostor_guess_wrong")
        /\ \/ game' = End(game, "impostor", "impostor_guessed_word")
           \/ game' = End(game, "citizens", "impostor_guess_wrong")
    BY <1>3, <2>1 DEF SubmitGuess, Justly
  <2>3. game'.phase = "ended" /\ Verdict(game')
    BY <1>1, <2>1, <2>2, EndIsFair
  <2> QED BY <2>1, <2>3, EndIsFresh DEF Well, TurnKept, BallotKept, VotePhases
<1> QED BY <1>2, <1>3

\* A player leaves.
LEMMA LeaveIsWell ==
    ASSUME Kept(game), NEW p \in Seats, Leave(p)
    PROVE  Well(game, game')
<1>1. /\ game \in Games /\ Running(game) /\ {p} \in SUBSET Watchers(game)
      /\ game' = RemoveAll(game, {p}, "left") /\ Strikes(game, Seats)
  BY DEF Leave, Live, Kept, Sound, Ended
<1>2. Strikes(game, Seats \ {p}) /\ Earned(game, {p}, "left")
  BY <1>1 DEF Strikes, Earned
<1> QED BY <1>1, <1>2, RemoveAllIsWell

\* Strikes that are due, with or without removals.
LEMMA StrikeIsWell ==
    ASSUME Kept(game), Strike
    PROVE  Well(game, game')
<1>1. /\ Live /\ Running(Struck) /\ Struck \in Games /\ Strikes(Struck, Seats \ StruckOut)
      /\ Earned(Struck, StruckOut, "removed")
      /\ StruckOut \in SUBSET Watchers(Struck)
      /\ game' = IF StruckOut = {} THEN Struck ELSE RemoveAll(Struck, StruckOut, "removed")
  BY StrikeFrame DEF Kept
<1>2. /\ Struck.status = game.status /\ Struck.connected = game.connected
      /\ Struck.confirmed = game.confirmed /\ Struck.votes = game.votes
      /\ Struck.candidates = game.candidates /\ Struck.phase = game.phase
      /\ Struck.turn = game.turn /\ Struck.turnLeft = game.turnLeft /\ Struck.deadline = game.deadline
  BY DEF Struck, Kept, Sound, Games
<1>3. Active(Struck) = Active(game) /\ Watchers(Struck) = Watchers(game) /\ Voted(Struck) = Voted(game)
  BY <1>2 DEF Active, Watchers, Voted
<1>4. CASE StruckOut = {}
  <2>1. Waits(Struck)
    BY <1>2, <1>3 DEF Kept, Waits, AllConnectedVoted, AllConnectedAcked, Untouched, CanVote
  <2>2. game.phase = "hints" => game.deadline <= game.turnLeft /\ game.turnLeft \in Nat
    BY <1>1 DEF Live, Kept, Sound, Running, Ended, TurnHeld, Games
  <2>3. TurnKept(game, Struck) /\ BallotKept(game, Struck)
    BY <1>2, <2>2 DEF TurnKept, BallotKept, Voted
  <2>4. Verdict(Struck)
    BY <1>1, <1>2 DEF Live, Verdict
  <2> QED BY <1>1, <1>4, <2>1, <2>3, <2>4 DEF Well
<1>5. CASE StruckOut # {}
  <2>1. Well(Struck, game')
    BY <1>1, <1>5, RemoveAllIsWell
  <2> QED BY <1>2, <1>3, <2>1 DEF Well, TurnKept, BallotKept
<1> QED BY <1>4, <1>5

\* The deadline of a phase.
LEMMA TimeoutIsWell ==
    ASSUME Kept(game), Timeout
    PROVE  Well(game, game')
<1>1. game \in Games /\ Running(game) /\ game' = Expire(game) /\ Seen \subseteq DOMAIN game
  BY DEF Timeout, Kept, Sound, Ended, Games, Seen, NoTimer
<1>2. CASE game.phase \in {"role_reveal", "elimination_reveal"}
  <2>1. game' \in {StartTurn(game, 1), StartRound(game)}
    BY <1>1, <1>2 DEF Expire, VotePhases
  <2>2. game'.phase \in {"hints", "pre_voting"}
    BY <1>1, <2>1, TurnMoves, RoundMoves
  <2>3. Waits(game') /\ Verdict(game')
    BY <2>2, TurnIsFresh
  <2> QED BY <1>2, <2>3 DEF Well, TurnKept, BallotKept, VotePhases
<1>3. CASE game.phase \in {"hints", "hint_break"}
  <2>1. game' = StartTurn(game, game.turn + 1)
    BY <1>1, <1>3 DEF Expire, VotePhases
  <2>2. game'.phase \in {"hints", "pre_voting"}
    BY <1>1, <2>1, TurnMoves
  <2>3. Waits(game') /\ Verdict(game')
    BY <2>2, TurnIsFresh
  <2>4. game.turn \in Nat
    <3>1. game.turn \in Seats
      BY <1>1 DEF Games
    <3> QED BY <3>1, PlayersAssumption DEF Seats, MinPlayersToStart, MaxPlayers
  <2>5. game'.phase = "hints" => game'.turn # game.turn
    BY <1>1, <2>1, <2>4, TurnPasses
  <2> QED BY <1>3, <2>3, <2>5 DEF Well, TurnKept, BallotKept, VotePhases
<1>4. CASE game.phase = "pre_voting"
  <2>1. game' = StartVoting(game, "voting", Active(game)) /\ "voting" \in VotePhases
    BY <1>1, <1>4 DEF Expire, VotePhases
  <2>2. Fresh(game') /\ Verdict(game')
    BY <1>1, <2>1, VotingIsFresh
  <2> QED BY <1>4, <2>2, FreshWaits DEF Well, TurnKept, BallotKept, VotePhases
<1>5. CASE game.phase \in VotePhases
  <2>1. game' = Tally(game)
    BY <1>1, <1>5 DEF Expire, VotePhases
  <2>2. AtPlay(game) /\ Ballots(game)
    BY <1>1, <1>5 DEF AtPlay, Running, VotePhases
  <2>3. Fresh(game') /\ Verdict(game') /\ game'.phase # game.phase
    BY <1>5, <2>1, <2>2, TallyCloses
  <2> QED BY <1>5, <2>3, FreshWaits DEF Well, TurnKept, BallotKept, VotePhases
<1>6. CASE game.phase = "impostor_guess"
  <2>1. game' = End(game, "citizens", "impostor_guess_timeout")
    BY <1>1, <1>6 DEF Expire, VotePhases
  <2>2. Justly(game, "citizens", "impostor_guess_timeout") /\ game.result = Undecided
    BY <1>1 DEF Running, Justly
  <2>3. game'.phase = "ended" /\ Verdict(game')
    BY <1>1, <2>1, <2>2, EndIsFair
  <2> QED BY <1>6, <2>3, EndIsFresh DEF Well, TurnKept, BallotKept, VotePhases
<1>7. game.phase \in TimedPhases
  BY <1>1 DEF Games, Phases, Running
<1> QED BY <1>2, <1>3, <1>4, <1>5, <1>6, <1>7 DEF TimedPhases, VotePhases

\* Time that passes.
LEMMA ElapseIsWell ==
    ASSUME Kept(game), Elapse
    PROVE  Well(game, game')
<1> DEFINE strikes == [p \in Seats |-> IF p \in Active(game) /\ game.strike[p] > 0 THEN game.strike[p] - 1 ELSE game.strike[p]]
<1>1. /\ game \in Games /\ Live /\ Running(game)
      /\ game' = [game EXCEPT !.deadline = game.deadline - 1,
                              !.turnLeft = IF game.phase = "hints" THEN game.turnLeft - 1 ELSE game.turnLeft,
                              !.strike = strikes]
  BY DEF Elapse, Live, Kept, Sound, Ended
<1> HIDE DEF strikes
<1>2. /\ game'.status = game.status /\ game'.connected = game.connected
      /\ game'.confirmed = game.confirmed /\ game'.votes = game.votes
      /\ game'.candidates = game.candidates /\ game'.phase = game.phase
      /\ game'.deadline = game.deadline - 1
      /\ game.phase = "hints" => game'.turnLeft = game.turnLeft - 1
  BY <1>1 DEF Games
<1>3. Active(game') = Active(game) /\ Watchers(game') = Watchers(game) /\ Voted(game') = Voted(game)
  BY <1>2 DEF Active, Watchers, Voted
<1>4. Waits(game')
  BY <1>2, <1>3 DEF Kept, Waits, AllConnectedVoted, AllConnectedAcked, Untouched, CanVote
<1>5. TurnKept(game, game')
  <2>1. game.phase = "hints" => game.deadline <= game.turnLeft /\ game.turnLeft \in Nat /\ game.deadline \in Nat
    BY <1>1 DEF Running, TurnHeld, Games, Timers
  <2> QED BY <1>2, <2>1 DEF TurnKept
<1>6. Verdict(game') /\ BallotKept(game, game')
  BY <1>1, <1>2 DEF Live, Verdict, BallotKept, Voted
<1> QED BY <1>4, <1>5, <1>6 DEF Well

\* A connection that is lost.
LEMMA DisconnectIsWell ==
    ASSUME Kept(game), NEW p \in Seats, Disconnect(p)
    PROVE  Well(game, game')
<1> DEFINE strike2 == IF Live /\ p \in Active(game) THEN ReconnectDuration ELSE game.strike[p]
           h == [game EXCEPT !.connected[p] = FALSE, !.strike[p] = strike2]
           w == AwaitReconnect(h)
<1>1. strike2 \in Timers /\ game \in Games
  BY DurationAssumption DEF Timers, Kept, Sound, Games
<1>2. game' = IF game.phase = "hints" /\ game.turn = p THEN w ELSE MaybeAdvance(h)
  BY DEF Disconnect
<1> HIDE DEF strike2
<1>3. /\ h \in Games
      /\ h.status = game.status /\ h.impostor = game.impostor /\ h.phase = game.phase
      /\ h.result = game.result /\ h.silentVotes = game.silentVotes /\ h.votes = game.votes
      /\ h.candidates = game.candidates /\ h.voteCast = game.voteCast
      /\ h.turn = game.turn /\ h.turnLeft = game.turnLeft /\ h.deadline = game.deadline
  BY <1>1 DEF Games
<1> HIDE DEF h
<1>4. Answered(h)
  BY <1>3 DEF Answered, Ballots, Voted, Active, Kept, Sound, Running, Ended, VotePhases
<1>5. CASE game.phase = "hints" /\ game.turn = p
  <2>1. w.phase = "hints" /\ w.turnLeft = game.turnLeft /\ w.deadline <= game.turnLeft
    <3>1. w = [h EXCEPT !.reconnecting = TRUE,
                  !.deadline = IF h.turnLeft < ReconnectDuration THEN h.turnLeft ELSE ReconnectDuration]
      BY DEF AwaitReconnect
    <3> QED BY <1>3, <1>5, <3>1, DurationAssumption DEF Games
  <2> HIDE DEF w
  <2>2. Waits(w) /\ Verdict(w)
    BY <2>1, TurnIsFresh
  <2>3. TurnKept(game, w) /\ BallotKept(game, w)
    BY <1>1, <1>5, <2>1 DEF TurnKept, BallotKept, VotePhases, Games
  <2> QED BY <1>2, <1>5, <2>2, <2>3 DEF Well
<1>6. CASE ~(game.phase = "hints" /\ game.turn = p)
  BY <1>2, <1>4, <1>6, AnswerIsWell
<1> QED BY <1>5, <1>6

\* Who comes back to a reveal is waited for, unless they have confirmed it before.
LEMMA ReturnWaits ==
    ASSUME Kept(game), NEW p \in Seats, NEW who \in SUBSET Seats, NEW h,
           h.connected = [game.connected EXCEPT ![p] = TRUE], h.confirmed = game.confirmed,
           ~AllConnectedAcked(game, who) \/ Untouched(game, who)
    PROVE  ~AllConnectedAcked(h, who) \/ Untouched(h, who)
<1>1. \A q \in Seats : h.connected[q] = IF q = p THEN TRUE ELSE game.connected[q]
  BY DEF Kept, Sound, Games
<1>2. CASE ~AllConnectedAcked(game, who)
  BY <1>1, <1>2 DEF AllConnectedAcked
<1>3. CASE Untouched(game, who) /\ p \in who
  BY <1>1, <1>3 DEF AllConnectedAcked, Untouched
<1>4. CASE Untouched(game, who) /\ p \notin who
  BY <1>1, <1>4 DEF Untouched
<1> QED BY <1>2, <1>3, <1>4

\* A connection that is found again.
LEMMA ReconnectIsWell ==
    ASSUME Kept(game), NEW p \in Seats, Reconnect(p)
    PROVE  Well(game, game')
<1> DEFINE h == [game EXCEPT !.connected[p] = TRUE, !.strike[p] = NoTimer]
           w == ResumeTurn(h)
<1>1. NoTimer \in Timers /\ game \in Games
  BY DEF Timers, Kept, Sound
<1>2. \/ game.phase = "hints" /\ game' = w
      \/ game.phase \in VotePhases /\ game' = MaybeAdvance(h)
      \/ game.phase \notin VotePhases /\ game' = h
  BY DEF Reconnect
<1>3. /\ h \in Games
      /\ h.status = game.status /\ h.impostor = game.impostor /\ h.phase = game.phase
      /\ h.result = game.result /\ h.silentVotes = game.silentVotes /\ h.votes = game.votes
      /\ h.candidates = game.candidates /\ h.voteCast = game.voteCast
      /\ h.turn = game.turn /\ h.turnLeft = game.turnLeft /\ h.deadline = game.deadline
      /\ h.connected = [game.connected EXCEPT ![p] = TRUE] /\ h.confirmed = game.confirmed
  BY <1>1 DEF Games
<1> HIDE DEF h
<1>4. Answered(h)
  BY <1>3 DEF Answered, Ballots, Voted, Active, Kept, Sound, Running, Ended, VotePhases
<1>5. CASE game.phase = "hints" /\ game' = w
  <2>1. w.phase = "hints" /\ w.turnLeft = game.turnLeft /\ w.deadline = game.turnLeft /\ game.turnLeft \in Nat
    BY <1>1, <1>3, <1>5 DEF ResumeTurn, Games
  <2> HIDE DEF w
  <2>2. Waits(w) /\ Verdict(w)
    BY <2>1, TurnIsFresh
  <2>3. TurnKept(game, w) /\ BallotKept(game, w)
    BY <1>5, <2>1 DEF TurnKept, BallotKept, VotePhases
  <2> QED BY <1>5, <2>2, <2>3 DEF Well
<1>6. CASE game.phase \in VotePhases /\ game' = MaybeAdvance(h)
  BY <1>4, <1>6, AnswerIsWell
<1>7. CASE game.phase \notin VotePhases /\ game' = h
  <2>1. Active(h) = Active(game) /\ Watchers(h) = Watchers(game)
        /\ Active(h) \in SUBSET Seats /\ Watchers(h) \in SUBSET Seats
    BY <1>3 DEF Active, Watchers
  <2>2. game.phase = "role_reveal" => ~AllConnectedAcked(h, Active(h)) \/ Untouched(h, Active(h))
    BY <1>3, <2>1, ReturnWaits DEF Kept, Waits
  <2>3. game.phase = "elimination_reveal" => ~AllConnectedAcked(h, Watchers(h)) \/ Untouched(h, Watchers(h))
    BY <1>3, <2>1, ReturnWaits DEF Kept, Waits
  <2>4. Waits(h)
    BY <1>3, <1>7, <2>2, <2>3 DEF Waits
  <2> QED BY <1>4, <1>7, <2>4, AnsweredIsKept DEF Well
<1> QED BY <1>2, <1>5, <1>6, <1>7

-----------------------------------------------------------------------------
(* The theorems *)

KeptInv == Kept(game)

LEMMA StepIsWell ==
    ASSUME Kept(game), Next
    PROVE  Well(game, game')
<1>1. CASE Command
  <2>1. CASE \E p \in Seats : \/ ConfirmRole(p) \/ SubmitHint(p)
                              \/ SubmitGuess(p) \/ ContinueAfterElimination(p)
    BY <2>1, AckIsWell, WordIsWell
  <2>2. CASE \E p, target \in Seats : Vote(p, target)
    BY <2>2, VoteIsWell
  <2>3. CASE \E p \in Leavers : Leave(p)
    BY <2>3, LeaveIsWell, BoundsAssumption
  <2>4. CASE \E p \in Flaky : Disconnect(p) \/ Reconnect(p)
    BY <2>4, DisconnectIsWell, ReconnectIsWell, BoundsAssumption
  <2> QED BY <1>1, <2>1, <2>2, <2>3, <2>4 DEF Command
<1>2. CASE Tick
  BY <1>2, StrikeIsWell, TimeoutIsWell, ElapseIsWell DEF Tick
<1> QED BY <1>1, <1>2 DEF Next

\* The inductive invariant of this module.
THEOREM NothingIsLost == Spec => []KeptInv
<1>1. Init => KeptInv
  <2>1. SUFFICES ASSUME Init PROVE Kept(game)
    BY DEF KeptInv
  <2>2. Sound(game)
    BY <2>1, InitSound DEF IInv
  <2>3. game.phase = "role_reveal" /\ game.confirmed = [p \in Seats |-> FALSE]
    BY <2>1 DEF Init, NewGame
  <2>4. \A p \in Active(game) : ~game.confirmed[p]
    BY <2>3 DEF Active
  <2>5. Waits(game) /\ Verdict(game)
    BY <2>3, <2>4 DEF Waits, Verdict, AllConnectedAcked, Untouched, VotePhases
  <2> QED BY <2>2, <2>5 DEF Kept
<1>2. KeptInv /\ [Next]_vars => KeptInv'
  <2>1. SUFFICES ASSUME Kept(game), [Next]_vars PROVE Kept(game')
    BY DEF KeptInv
  <2>2. Sound(game')
    BY <2>1, NextSound DEF Kept, IInv
  <2>3. CASE Next
    BY <2>1, <2>2, <2>3, StepIsWell DEF Kept, Well
  <2>4. CASE UNCHANGED vars
    BY <2>1, <2>4 DEF vars
  <2> QED BY <2>1, <2>3, <2>4
<1> QED BY <1>1, <1>2, PTL DEF Spec

\* However a match ends, its verdict matches how the match stands (end, with every caller's
\* winner and reason): who wins, why, and for whom.
THEOREM VerdictsAreFair == Spec => []VerdictIsFair
<1>1. KeptInv => VerdictIsFair
  BY DEF KeptInv, Kept, Verdict, VerdictIsFair, Live
<1> QED BY <1>1, NothingIsLost, PTL

\* Nobody is kept waiting for an answer everyone connected has given: maybeAdvanceTransition is
\* called wherever a barrier can complete.
THEOREM BarriersOpen == Spec => []NobodyAwaitedInVain
<1>1. KeptInv => NobodyAwaitedInVain
  BY DEF KeptInv, Kept, Waits, Untouched, NobodyAwaitedInVain
<1> QED BY <1>1, NothingIsLost, PTL

\* A hint turn gains no time, however often its holder leaves and comes back (turnDeadline).
THEOREM TurnsOnlyRunDown == Spec => TurnClockNeverGrows
<1>1. KeptInv /\ [Next]_vars =>
        [game.phase = "hints" /\ game'.phase = "hints" /\ game'.turn = game.turn
          => game'.turnLeft <= game.turnLeft /\ game'.deadline <= game.turnLeft]_vars
  BY StepIsWell DEF KeptInv, Well, TurnKept
<1> QED BY <1>1, NothingIsLost, PTL DEF Spec, TurnClockNeverGrows

\* A ballot outlives its voter's connection: it goes only with its voter or the one it names.
THEOREM BallotsSurvive == Spec => BallotsAreKept
<1>1. KeptInv /\ [Next]_vars =>
        [game.phase \in VotePhases /\ game'.phase = game.phase =>
          \A v \in Voted(game) :
              v \in Active(game)' /\ game.votes[v] \in Active(game)' => game'.votes[v] # None]_vars
  BY StepIsWell DEF KeptInv, Well, BallotKept, Active
<1> QED BY <1>1, NothingIsLost, PTL DEF Spec, BallotsAreKept

-----------------------------------------------------------------------------
(***************************************************************************)
(* No strike is spared: what is due is counted before a verdict.  All but  *)
(* Strike and the two ends of a connection leave the strikes as they are.  *)
(***************************************************************************)

Clocked(g) == {"status", "strike"} \subseteq DOMAIN g /\ DOMAIN g.status = Seats

\* The strikes pending in g are those of h, and nobody joins.
SameStrikes(g, h) ==
    /\ DOMAIN h = DOMAIN g /\ DOMAIN h.status = DOMAIN g.status
    /\ h.strike = g.strike
    /\ Active(h) \subseteq Active(g)

\* Nothing is due in g.
NothingIsDue(g) == \A p \in Active(g) : g.strike[p] # 0

LEMMA StrikesCarryOver ==
    ASSUME NEW g, NEW h, SameStrikes(g, h)
    PROVE  /\ NothingIsDue(g) => NothingIsDue(h)
           /\ Clocked(g) => Clocked(h)
           /\ \A k : SameStrikes(h, k) => SameStrikes(g, k)
BY DEF SameStrikes, NothingIsDue, Clocked

LEMMA PhaseKeepsStrikes ==
    ASSUME NEW g, Clocked(g), NEW phase
    PROVE  SameStrikes(g, SetPhase(g, phase))
BY DEF Clocked, SameStrikes, SetPhase, Active

LEMMA TurnKeepsStrikes ==
    ASSUME NEW g, Clocked(g), NEW i
    PROVE  SameStrikes(g, StartTurn(g, i))
<1> DEFINE s == SetPhase(g, "hints")
           t == [s EXCEPT !.turn = Min({p \in Active(g) : p >= i}), !.reconnecting = FALSE]
<1>1. SameStrikes(g, s) /\ SameStrikes(g, SetPhase(g, "pre_voting"))
  BY PhaseKeepsStrikes
<1>2. StartTurn(g, i) \in {SetPhase(g, "pre_voting"), t, AwaitReconnect(t)}
  BY DEF StartTurn
<1> HIDE DEF s
<1>3. SameStrikes(g, t)
  BY <1>1 DEF SameStrikes, Clocked, Active
<1> HIDE DEF t
<1>4. SameStrikes(g, AwaitReconnect(t))
  BY <1>3 DEF SameStrikes, Clocked, Active, AwaitReconnect
<1> QED BY <1>1, <1>2, <1>3, <1>4

LEMMA RoundKeepsStrikes ==
    ASSUME NEW g, Clocked(g)
    PROVE  SameStrikes(g, StartRound(g))
<1> DEFINE h == [g EXCEPT !.lastEliminated = None, !.tied = {}, !.candidates = {}, !.votes = NoVotes]
<1>1. SameStrikes(g, h)
  BY DEF SameStrikes, Clocked, Active
<1>2. StartRound(g) = StartTurn(h, 1)
  BY DEF StartRound
<1> HIDE DEF h
<1> QED BY <1>1, <1>2, StrikesCarryOver, TurnKeepsStrikes

LEMMA VotingKeepsStrikes ==
    ASSUME NEW g, Clocked(g), NEW phase, NEW candidates
    PROVE  SameStrikes(g, StartVoting(g, phase, candidates))
<1> DEFINE s == SetPhase(g, phase)
<1>1. SameStrikes(g, s)
  BY PhaseKeepsStrikes
<1>2. StartVoting(g, phase, candidates) =
        [s EXCEPT !.reconnecting = FALSE, !.candidates = candidates, !.votes = NoVotes, !.voteCast = FALSE]
  BY DEF StartVoting
<1> HIDE DEF s
<1> QED BY <1>1, <1>2 DEF SameStrikes, Clocked, Active

LEMMA RevealKeepsStrikes ==
    ASSUME NEW g, Clocked(g), NEW p
    PROVE  SameStrikes(g, ShowElimination(g, p))
<1> DEFINE s == SetPhase(g, "elimination_reveal")
<1>1. SameStrikes(g, s)
  BY PhaseKeepsStrikes
<1>2. ShowElimination(g, p) = [s EXCEPT !.lastEliminated = p, !.confirmed = [q \in Seats |-> FALSE]]
  BY DEF ShowElimination
<1> HIDE DEF s
<1> QED BY <1>1, <1>2 DEF SameStrikes, Clocked, Active

LEMMA EndKeepsStrikes ==
    ASSUME NEW g, Clocked(g), NEW winner, NEW reason
    PROVE  SameStrikes(g, End(g, winner, reason))
<1> DEFINE r == [winner |-> winner, reason |-> reason,
                 outcome |-> [p \in Seats |-> Outcome(g, winner, reason, p)]]
<1>1. End(g, winner, reason) \in
        {g, [g EXCEPT !.phase = "ended", !.deadline = NoTimer, !.turnLeft = 0, !.reconnecting = FALSE, !.result = r]}
  BY DEF End
<1> HIDE DEF r
<1> QED BY <1>1 DEF SameStrikes, Clocked, Active

LEMMA EliminateKeepsStrikes ==
    ASSUME NEW g, Clocked(g), NEW p
    PROVE  SameStrikes(g, Eliminate(g, p))
<1> DEFINE out == [g EXCEPT !.status[p] = "eliminated"]
<1>1. SameStrikes(g, out)
  BY DEF SameStrikes, Clocked, Active
<1>2. Eliminate(g, p) \in {End(out, "impostor", "impostor_parity"), End(out, "none", "not_enough_players"),
                           ShowElimination(out, p)}
  BY DEF Eliminate
<1> HIDE DEF out
<1> QED BY <1>1, <1>2, StrikesCarryOver, EndKeepsStrikes, RevealKeepsStrikes

LEMMA TallyKeepsStrikes ==
    ASSUME NEW g, Clocked(g)
    PROVE  SameStrikes(g, Tally(g))
<1> DEFINE h == [g EXCEPT !.silentVotes = IF Silent(g) THEN @ + 1 ELSE 0]
           top == Top(g)
           tie == [h EXCEPT !.tied = top]
<1>1. SameStrikes(g, h) /\ SameStrikes(g, tie)
  BY DEF SameStrikes, Clocked, Active
<1>2. Tally(g) =
        IF h.silentVotes >= MaxSilentVotes THEN End(h, "none", "abandoned")
        ELSE IF top = {} THEN StartRound(h)
        ELSE IF top = {g.impostor} THEN SetPhase(h, "impostor_guess")
        ELSE IF \E c \in Seats : top = {c} THEN Eliminate(h, CHOOSE c \in top : TRUE)
        ELSE IF g.phase = "voting" THEN StartVoting(h, "runoff_voting", top)
        ELSE ShowElimination(tie, None)
  BY DEF Tally
<1> HIDE DEF h, top, tie
<1>3. Clocked(h) /\ Clocked(tie)
  BY <1>1, StrikesCarryOver
<1>4. /\ SameStrikes(h, End(h, "none", "abandoned")) /\ SameStrikes(h, StartRound(h))
      /\ SameStrikes(h, SetPhase(h, "impostor_guess")) /\ SameStrikes(h, Eliminate(h, CHOOSE c \in top : TRUE))
      /\ SameStrikes(h, StartVoting(h, "runoff_voting", top)) /\ SameStrikes(tie, ShowElimination(tie, None))
  BY <1>3, EndKeepsStrikes, RoundKeepsStrikes, PhaseKeepsStrikes, EliminateKeepsStrikes, VotingKeepsStrikes,
     RevealKeepsStrikes
<1>5. SameStrikes(h, Tally(g)) \/ SameStrikes(tie, Tally(g))
  BY <1>2, <1>4
<1> QED BY <1>1, <1>5, StrikesCarryOver

LEMMA AdvanceKeepsStrikes ==
    ASSUME NEW g, Clocked(g)
    PROVE  SameStrikes(g, g) /\ SameStrikes(g, MaybeAdvance(g))
<1>1. SameStrikes(g, g)
  BY DEF SameStrikes
<1>2. MaybeAdvance(g) \in {Tally(g), StartTurn(g, 1), StartRound(g), g}
  BY DEF MaybeAdvance
<1> QED BY <1>1, <1>2, TallyKeepsStrikes, TurnKeepsStrikes, RoundKeepsStrikes

LEMMA ExpireKeepsStrikes ==
    ASSUME NEW g, Clocked(g), g.phase \in TimedPhases
    PROVE  SameStrikes(g, Expire(g))
<1>1. Expire(g) \in {StartTurn(g, 1), StartTurn(g, g.turn + 1), StartVoting(g, "voting", Active(g)), Tally(g),
                     StartRound(g), End(g, "citizens", "impostor_guess_timeout")}
  BY DEF Expire, TimedPhases, VotePhases
<1> QED BY <1>1, TurnKeepsStrikes, VotingKeepsStrikes, TallyKeepsStrikes, RoundKeepsStrikes, EndKeepsStrikes

LEMMA RemoveAllKeepsStrikes ==
    ASSUME NEW g \in Games, NEW gone, NEW status \in {"left", "removed"}
    PROVE  SameStrikes(g, RemoveAll(g, gone, status))
<1> DEFINE h == Without(g, gone, status)
<1>1. RemoveAll(g, gone, status) \in
        {End(h, "citizens", "impostor_gone"), h, End(h, "impostor", "impostor_parity"),
         End(h, "none", "not_enough_players"), StartTurn(h, g.turn + 1), MaybeAdvance(h)}
  BY DEF RemoveAll, Without
<1>2. SameStrikes(g, h) /\ Clocked(g)
  BY DEF Without, DropBallots, SameStrikes, Clocked, Active, Games
<1> HIDE DEF h
<1>3. Clocked(h)
  BY <1>2, StrikesCarryOver
<1>4. SameStrikes(h, RemoveAll(g, gone, status))
  BY <1>1, <1>3, EndKeepsStrikes, TurnKeepsStrikes, AdvanceKeepsStrikes
<1> QED BY <1>2, <1>4, StrikesCarryOver

LEMMA SparesNobody ==
    ASSUME Sound(game), NoStrikeIsSpared, Next
    PROVE  NoStrikeIsSpared'
<1>1. game \in Games /\ Clocked(game) /\ (Live => game.phase \in TimedPhases)
  BY DEF Sound, Clocked, Games, Live, Phases
<1>2. StrikesDue = {} => NothingIsDue(game)
  BY DEF NoStrikeIsSpared, NothingIsDue, StrikesDue
<1>3. NothingIsDue(game') => NoStrikeIsSpared'
  BY DEF NothingIsDue, NoStrikeIsSpared, Active
<1>4. SUFFICES ASSUME ~Live' PROVE NothingIsDue(game')
  BY <1>3 DEF NoStrikeIsSpared
<1>5. CASE Command
  <2>1. NothingIsDue(game)
    BY <1>2, <1>5 DEF Command, NothingDue
  <2>2. ASSUME NEW h, SameStrikes(game, h) PROVE NothingIsDue(h) /\ NothingIsDue(MaybeAdvance(h))
    <3>1. Clocked(h) /\ NothingIsDue(h)
      BY <1>1, <2>1, <2>2, StrikesCarryOver
    <3> QED BY <3>1, AdvanceKeepsStrikes, StrikesCarryOver
  <2>3. ASSUME NEW p \in Seats, ConfirmRole(p) \/ ContinueAfterElimination(p) PROVE NothingIsDue(game')
    <3>1. PICK h : h = [game EXCEPT !.confirmed[p] = TRUE]
      OBVIOUS
    <3>2. SameStrikes(game, h)
      BY <1>1, <3>1 DEF SameStrikes, Active, Games
    <3> QED BY <2>2, <2>3, <3>1, <3>2 DEF ConfirmRole, ContinueAfterElimination
  <2>4. ASSUME NEW p \in Seats, SubmitHint(p) \/ SubmitGuess(p) PROVE NothingIsDue(game')
    <3>1. game' \in {SetPhase(game, "hint_break"), End(game, "impostor", "impostor_guessed_word"),
                     End(game, "citizens", "impostor_guess_wrong")}
      BY <2>4 DEF SubmitHint, SubmitGuess
    <3>2. SameStrikes(game, game')
      BY <1>1, <3>1, PhaseKeepsStrikes, EndKeepsStrikes
    <3> QED BY <2>1, <3>2, StrikesCarryOver
  <2>5. ASSUME NEW p \in Seats, NEW target \in Seats, Vote(p, target) PROVE NothingIsDue(game')
    <3>1. PICK h : h = [game EXCEPT !.votes[p] = target, !.voteCast = TRUE]
      OBVIOUS
    <3>2. SameStrikes(game, h)
      BY <1>1, <3>1 DEF SameStrikes, Active, Games
    <3> QED BY <2>2, <2>5, <3>1, <3>2 DEF Vote
  <2>6. ASSUME NEW p \in Seats, Leave(p) PROVE NothingIsDue(game')
    <3>1. SameStrikes(game, game')
      BY <1>1, <2>6, RemoveAllKeepsStrikes DEF Leave
    <3> QED BY <2>1, <3>1, StrikesCarryOver
  <2>7. ASSUME NEW p \in Seats, NEW time \in Timers, p \in Active(game) => time # 0, NEW connected \in BOOLEAN, NEW h,
               h = [game EXCEPT !.connected[p] = connected, !.strike[p] = time]
        PROVE  Clocked(h) /\ NothingIsDue(h) /\ NothingIsDue(MaybeAdvance(h)) /\ NothingIsDue(AwaitReconnect(h))
               /\ NothingIsDue(ResumeTurn(h))
    <3>1. Clocked(h) /\ NothingIsDue(h)
      <4>1. /\ DOMAIN h = DOMAIN game /\ h.status = game.status
            /\ \A q \in Seats : h.strike[q] = IF q = p THEN time ELSE game.strike[q]
        BY <1>1, <2>7 DEF Games
      <4> QED BY <1>1, <2>1, <2>7, <4>1 DEF Clocked, NothingIsDue, Active
    <3>2. SameStrikes(h, AwaitReconnect(h)) /\ SameStrikes(h, ResumeTurn(h))
      BY <3>1 DEF Clocked, SameStrikes, AwaitReconnect, ResumeTurn, Active
    <3> QED BY <3>1, <3>2, AdvanceKeepsStrikes, StrikesCarryOver
  <2>8. ASSUME NEW p \in Seats, Disconnect(p) PROVE NothingIsDue(game')
    <3>1. PICK time \in Timers :
              /\ p \in Active(game) => time # 0
              /\ time = IF Live /\ p \in Active(game) THEN ReconnectDuration ELSE game.strike[p]
      <4>1. game.strike[p] \in Timers /\ ReconnectDuration \in Timers /\ ReconnectDuration # 0
        BY <1>1, DurationAssumption DEF Games, Timers
      <4>2. p \in Active(game) => game.strike[p] # 0
        BY <2>1 DEF NothingIsDue
      <4> QED BY <4>1, <4>2
    <3>2. PICK h : h = [game EXCEPT !.connected[p] = FALSE, !.strike[p] = time]
      OBVIOUS
    <3>3. game' \in {AwaitReconnect(h), MaybeAdvance(h)}
      BY <2>8, <3>1, <3>2 DEF Disconnect
    <3> QED BY <2>7, <3>1, <3>2, <3>3
  <2>9. ASSUME NEW p \in Seats, Reconnect(p) PROVE NothingIsDue(game')
    <3>1. NoTimer \in Timers /\ NoTimer # 0
      BY DEF Timers, NoTimer
    <3>2. PICK h : h = [game EXCEPT !.connected[p] = TRUE, !.strike[p] = NoTimer]
      OBVIOUS
    <3>3. game' \in {ResumeTurn(h), MaybeAdvance(h), h}
      BY <2>9, <3>2 DEF Reconnect
    <3> QED BY <2>7, <3>1, <3>2, <3>3
  <2> QED BY <1>5, <2>3, <2>4, <2>5, <2>6, <2>8, <2>9, BoundsAssumption DEF Command
<1>6. CASE Timeout
  <2>1. NothingIsDue(game) /\ Live
    BY <1>1, <1>2, <1>6 DEF Timeout, Sound, Ended, NoTimer, Live, Running
  <2>2. SameStrikes(game, game')
    BY <1>1, <1>6, <2>1, ExpireKeepsStrikes DEF Timeout
  <2> QED BY <2>1, <2>2, StrikesCarryOver
<1>7. CASE Strike
  <2>1. /\ Live /\ Struck \in Games /\ Struck.status = game.status /\ Struck.phase = game.phase
        /\ game' = IF StruckOut = {} THEN Struck ELSE RemoveAll(Struck, StruckOut, "removed")
    BY <1>7, StrikeFrame
  <2>2. NothingIsDue(Struck)
    <3>1. Struck.strike = [p \in Seats |-> IF p \in StrikesDue THEN NoTimer ELSE game.strike[p]]
      BY <1>1 DEF Struck, Games
    <3>2. Active(Struck) = Active(game) /\ Active(game) \subseteq Seats
      BY <2>1 DEF Active
    <3> QED BY <2>1, <3>1, <3>2 DEF NothingIsDue, StrikesDue, NoTimer
  <2>3. SameStrikes(Struck, RemoveAll(Struck, StruckOut, "removed"))
    BY <2>1, RemoveAllKeepsStrikes
  <2> QED BY <2>1, <2>2, <2>3, StrikesCarryOver
<1>8. ~Elapse
  BY <1>1, <1>4 DEF Elapse, Live, Games
<1> QED BY <1>5, <1>6, <1>7, <1>8 DEF Next, Tick

\* A verdict spares nobody whose absence was up: the strikes of one instant are counted together
\* and before the deadline of a phase (Tick, nextDeadline).
THEOREM StrikesAllCount == Spec => []NoStrikeIsSpared
<1>1. Init => NoStrikeIsSpared
  BY DEF Init, NewGame, NoStrikeIsSpared, Live
<1>2. IInv /\ NoStrikeIsSpared /\ [Next]_vars => NoStrikeIsSpared'
  <2>1. SUFFICES ASSUME Sound(game), NoStrikeIsSpared, [Next]_vars PROVE NoStrikeIsSpared'
    BY DEF IInv
  <2>2. CASE UNCHANGED vars
    BY <2>1, <2>2 DEF vars, NoStrikeIsSpared, Live, Active
  <2> QED BY <2>1, <2>2, SparesNobody
<1> QED BY <1>1, <1>2, Soundness, PTL DEF Spec
=============================================================================

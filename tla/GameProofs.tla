----------------------------- MODULE GameProofs -----------------------------
(***************************************************************************)
(* Safety of Game for every number of seats, every duration and every      *)
(* strike limit, and that it implements Roster and Match.                  *)
(*                                                                         *)
(* The argument follows the code: each method of Game turns a match that   *)
(* is sound (Sound) into a sound one, and is one lemma about its operator; *)
(* a handler is a composition of methods, and its lemma a composition of   *)
(* theirs.  Some methods are called on a match that is not sound yet, with *)
(* a vote just counted or players just gone; Open is what they rely on.    *)
(***************************************************************************)
EXTENDS Game, FiniteSetTheorems, TLAPS

\* Only absence counts, for the players of S.
Strikes(g, S) ==
    /\ g.status[g.impostor] # "eliminated"
    /\ \A p \in S :
          /\ g.strike[p] # NoTimer => ~g.connected[p]
          /\ g.status[p] = "active" => g.disconnects[p] < MaxDisconnects
          /\ g.status[p] = "removed" => g.disconnects[p] = MaxDisconnects /\ ~g.connected[p]

TurnHeld(g) ==
    g.phase = "hints" =>
        /\ g.turn \in Active(g)
        /\ g.reconnecting = ~g.connected[g.turn]
        /\ g.deadline <= g.turnLeft

Ballots(g) ==
    /\ g.candidates \subseteq Active(g)
    /\ \A v \in Voted(g) :
          /\ v \in Active(g)
          /\ g.votes[v] \in g.candidates \ {v}
          /\ g.voteCast

\* A match that may be ended: no verdict yet.
Unsettled(g) == g \in Games /\ Strikes(g, Seats) /\ g.result = Undecided

\* A match that may go on.
Open(g) ==
    /\ Unsettled(g)
    /\ g.phase # "ended"
    /\ g.impostor \in Active(g)
    /\ g.silentVotes < MaxSilentVotes
    /\ Cardinality(Citizens(g)) >= 2

Running(g) ==
    /\ g.phase # "ended"
    /\ g.result = Undecided
    /\ g.deadline # NoTimer
    /\ g.impostor \in Active(g)
    /\ g.silentVotes < MaxSilentVotes
    /\ g.phase = "impostor_guess" \/ Cardinality(Citizens(g)) >= 2
    /\ TurnHeld(g)
    /\ g.phase \in VotePhases => Ballots(g)

Ended(g) == g.phase = "ended" /\ g.deadline = NoTimer /\ g.result # Undecided

\* The inductive invariant.
Sound(g) == g \in Games /\ Strikes(g, Seats) /\ (Running(g) \/ Ended(g))

\* Nobody's place in the match differs between g and h.
SameStanding(g, h) ==
    /\ h.status = g.status
    /\ h.impostor = g.impostor
    /\ h.connected = g.connected
    /\ h.strike = g.strike
    /\ h.disconnects = g.disconnects

-----------------------------------------------------------------------------
(* Seats and counts *)

LEMMA SeatsAreFinite == IsFiniteSet(Seats)
  BY FS_Interval, PlayersAssumption DEF Seats, MinPlayersToStart, MaxPlayers

\* A set of seats that is not empty has a least one; there are at most eight seats.
LEMMA LeastSeat ==
    ASSUME NEW S \in SUBSET Seats, S # {}
    PROVE  Min(S) \in S
<1>1. \A p \in S : p \in 1 .. 8
  BY PlayersAssumption DEF Seats, MinPlayersToStart, MaxPlayers
<1>2. \E p \in S : \A q \in S : p <= q
  <2>1. CASE 1 \in S BY <1>1, <2>1
  <2>2. CASE 1 \notin S /\ 2 \in S BY <1>1, <2>2
  <2>3. CASE 1 \notin S /\ 2 \notin S /\ 3 \in S BY <1>1, <2>3
  <2>4. CASE 1 \notin S /\ 2 \notin S /\ 3 \notin S /\ 4 \in S BY <1>1, <2>4
  <2>5. CASE 1 \notin S /\ 2 \notin S /\ 3 \notin S /\ 4 \notin S BY <1>1, <2>5
  <2> QED BY <2>1, <2>2, <2>3, <2>4, <2>5
<1> QED BY <1>2 DEF Min

LEMMA CountsAreNatural ==
    ASSUME NEW S \in SUBSET Seats
    PROVE  IsFiniteSet(S) /\ Cardinality(S) \in Nat
  BY SeatsAreFinite, FS_Subset, FS_CardinalityType

\* While the impostor plays, not being outnumbered means two citizens are left.
LEMMA TwoCitizens ==
    ASSUME NEW g \in Games, g.impostor \in Active(g), ~Outnumbered(g)
    PROVE  Cardinality(Citizens(g)) >= 2
<1>1. ActiveImpostors(g) = {g.impostor}
  BY DEF ActiveImpostors
<1>2. Cardinality(ActiveImpostors(g)) = 1
  BY <1>1, FS_Singleton
<1>3. Cardinality(Citizens(g)) \in Nat
  BY CountsAreNatural DEF Citizens, Active
<1> QED BY <1>2, <1>3 DEF Outnumbered

LEMMA StandingCarriesOver ==
    ASSUME NEW g, NEW h, SameStanding(g, h)
    PROVE  /\ Active(h) = Active(g)
           /\ Watchers(h) = Watchers(g)
           /\ Citizens(h) = Citizens(g)
           /\ \A S : Strikes(g, S) => Strikes(h, S)
  BY DEF SameStanding, Active, Watchers, Citizens, Strikes

-----------------------------------------------------------------------------
(* Phases and turns *)

\* Nothing but the phase and its clock changes.
LEMMA SetPhaseFrame ==
    ASSUME NEW g \in Games, NEW phase \in TimedPhases
    PROVE  LET h == SetPhase(g, phase) IN
           /\ h \in Games
           /\ SameStanding(g, h)
           /\ h.phase = phase
           /\ h.deadline \in Nat \ {0}
           /\ phase = "hints" => h.turnLeft = h.deadline
           /\ h.result = g.result
           /\ h.silentVotes = g.silentVotes
  BY DurationAssumption DEF SetPhase, SameStanding, Games, Phases, Timers

\* A phase that is neither a turn nor a vote may follow anything.
LEMMA QuietPhaseSound ==
    ASSUME NEW g, Open(g), NEW h \in Games, SameStanding(g, h),
           h.phase \in TimedPhases \ ({"hints"} \cup VotePhases), h.deadline \in Nat,
           h.result = g.result, h.silentVotes = g.silentVotes
    PROVE  Sound(h)
<1>1. Strikes(h, Seats)
  BY StandingCarriesOver DEF Open, Unsettled
<1>2. Running(h)
  BY StandingCarriesOver
     DEF Open, Unsettled, Running, TurnHeld, SameStanding, NoTimer, TimedPhases, VotePhases
<1> QED BY <1>1, <1>2 DEF Sound

\* A turn goes to somebody who plays, and waits for them exactly if they are offline.
LEMMA StartTurnSound ==
    ASSUME NEW g, Open(g), NEW i \in Nat
    PROVE  Sound(StartTurn(g, i))
<1> DEFINE rest == {p \in Active(g) : p >= i}
           s == SetPhase(g, "hints")
           t == [s EXCEPT !.turn = Min(rest), !.reconnecting = FALSE]
           u == AwaitReconnect(t)
           w == StartTurn(g, i)
<1>1. CASE rest = {}
  <2>1. w = SetPhase(g, "pre_voting") /\ g \in Games
    BY <1>1 DEF StartTurn, Open, Unsettled
  <2> HIDE DEF w
  <2>2. "pre_voting" \in TimedPhases \ ({"hints"} \cup VotePhases)
    BY DEF TimedPhases, VotePhases
  <2>3. /\ w \in Games /\ SameStanding(g, w) /\ w.phase = "pre_voting" /\ w.deadline \in Nat
        /\ w.result = g.result /\ w.silentVotes = g.silentVotes
    BY <2>1, <2>2, SetPhaseFrame
  <2> QED BY <2>2, <2>3, QuietPhaseSound DEF w
<1>2. CASE rest # {}
  <2>1. Min(rest) \in Active(g) /\ Min(rest) \in Seats
    BY <1>2, LeastSeat DEF Active
  <2>2. /\ s \in Games /\ SameStanding(g, s) /\ s.phase = "hints" /\ s.deadline \in Nat \ {0}
        /\ s.turnLeft = s.deadline /\ s.result = g.result /\ s.silentVotes = g.silentVotes
    BY SetPhaseFrame DEF Open, Unsettled, TimedPhases
  <2> HIDE DEF s, rest
  <2>3. /\ t \in Games /\ SameStanding(g, t) /\ t.phase = "hints" /\ t.deadline \in Nat \ {0}
        /\ t.turnLeft = t.deadline /\ t.result = g.result /\ t.silentVotes = g.silentVotes
        /\ t.turn = Min(rest) /\ t.reconnecting = FALSE
    BY <2>1, <2>2 DEF Games, SameStanding
  <2> HIDE DEF t
  <2>4. /\ u \in Games /\ SameStanding(g, u) /\ u.phase = "hints" /\ u.result = g.result
        /\ u.silentVotes = g.silentVotes /\ u.turn = Min(rest) /\ u.reconnecting = TRUE
    BY <2>3, DurationAssumption DEF AwaitReconnect, Games, SameStanding, Timers
  <2>5. u.deadline \in Nat \ {0} /\ u.deadline <= u.turnLeft
    BY <2>3, DurationAssumption DEF AwaitReconnect, Games
  <2> HIDE DEF u
  <2>6. w = IF t.connected[t.turn] THEN t ELSE u
    BY <1>2 DEF StartTurn, rest, s, t, u
  <2> HIDE DEF w
  <2>7. /\ w \in Games /\ SameStanding(g, w) /\ w.phase = "hints" /\ w.deadline \in Nat \ {0}
        /\ w.deadline <= w.turnLeft /\ w.result = g.result /\ w.silentVotes = g.silentVotes
        /\ w.turn = Min(rest)
    BY <2>3, <2>4, <2>5, <2>6
  <2>8. w.reconnecting = ~w.connected[w.turn]
    <3>1. t.connected = g.connected /\ u.connected = g.connected
      BY <2>3, <2>4 DEF SameStanding
    <3>2. t.connected[t.turn] \in BOOLEAN
      BY <2>1, <2>3 DEF Games
    <3>3. CASE t.connected[t.turn]
      BY <2>3, <2>6, <3>2, <3>3
    <3>4. CASE ~t.connected[t.turn]
      BY <2>3, <2>4, <2>6, <3>1, <3>2, <3>4
    <3> QED BY <3>3, <3>4
  <2>9. TurnHeld(w)
    BY <2>1, <2>7, <2>8, StandingCarriesOver DEF TurnHeld
  <2>10. Strikes(w, Seats)
    BY <2>7, StandingCarriesOver DEF Open, Unsettled
  <2>11. Running(w)
    BY <2>7, <2>9, StandingCarriesOver
       DEF Open, Unsettled, Running, SameStanding, NoTimer, VotePhases
  <2> QED BY <2>7, <2>10, <2>11 DEF Sound, w
<1> QED BY <1>1, <1>2

LEMMA StartRoundSound ==
    ASSUME NEW g, Open(g)
    PROVE  Sound(StartRound(g))
<1> DEFINE h == [g EXCEPT !.lastEliminated = None, !.tied = {}, !.candidates = {}, !.votes = NoVotes]
<1>1. /\ h \in Games /\ SameStanding(g, h) /\ h.phase = g.phase
      /\ h.result = g.result /\ h.silentVotes = g.silentVotes
  BY DEF Open, Unsettled, Games, NoVotes, SameStanding
<1> HIDE DEF h
<1>2. Open(h)
  BY <1>1, StandingCarriesOver DEF Open, Unsettled, SameStanding
<1> QED BY <1>2, StartTurnSound DEF StartRound, h

\* A vote opens with no ballots, among players who are there.
LEMMA StartVotingSound ==
    ASSUME NEW g, Open(g), NEW phase \in VotePhases, NEW candidates \in SUBSET Active(g)
    PROVE  Sound(StartVoting(g, phase, candidates))
<1> DEFINE s == SetPhase(g, phase)
           h == StartVoting(g, phase, candidates)
<1>1. /\ s \in Games /\ SameStanding(g, s) /\ s.phase = phase /\ s.deadline \in Nat \ {0}
      /\ s.result = g.result /\ s.silentVotes = g.silentVotes
  BY SetPhaseFrame DEF Open, Unsettled, TimedPhases
<1> HIDE DEF s
<1>2. candidates \in SUBSET Seats /\ NoVotes \in [Seats -> Seats \cup {None}]
  BY DEF Active, NoVotes
<1>3. /\ h \in Games /\ SameStanding(g, h) /\ h.phase = phase /\ h.deadline \in Nat \ {0}
      /\ h.result = g.result /\ h.silentVotes = g.silentVotes
      /\ h.candidates = candidates /\ h.votes = NoVotes
  BY <1>1, <1>2 DEF StartVoting, s, Games, SameStanding
<1> HIDE DEF h
<1>4. Voted(h) = {}
  BY <1>3 DEF Voted, NoVotes
<1>5. Ballots(h)
  BY <1>3, <1>4, StandingCarriesOver DEF Ballots
<1>6. Strikes(h, Seats)
  BY <1>3, StandingCarriesOver DEF Open, Unsettled
<1>7. Running(h)
  BY <1>3, <1>5, StandingCarriesOver
     DEF Open, Unsettled, Running, TurnHeld, SameStanding, NoTimer, VotePhases
<1> QED BY <1>3, <1>6, <1>7 DEF Sound, h

LEMMA ShowEliminationSound ==
    ASSUME NEW g, Open(g), NEW p \in Seats \cup {None}
    PROVE  Sound(ShowElimination(g, p))
<1> DEFINE s == SetPhase(g, "elimination_reveal")
           h == ShowElimination(g, p)
<1>1. "elimination_reveal" \in TimedPhases \ ({"hints"} \cup VotePhases)
  BY DEF TimedPhases, VotePhases
<1>2. /\ s \in Games /\ SameStanding(g, s) /\ s.phase = "elimination_reveal" /\ s.deadline \in Nat
      /\ s.result = g.result /\ s.silentVotes = g.silentVotes
  BY <1>1, SetPhaseFrame DEF Open, Unsettled
<1> HIDE DEF s
<1>3. /\ h \in Games /\ SameStanding(g, h) /\ h.phase = "elimination_reveal" /\ h.deadline \in Nat
      /\ h.result = g.result /\ h.silentVotes = g.silentVotes
  BY <1>2 DEF ShowElimination, s, Games, SameStanding
<1> QED BY <1>1, <1>3, QuietPhaseSound

-----------------------------------------------------------------------------
(* The verdict *)

LEMMA EndSound ==
    ASSUME NEW g, Unsettled(g),
           NEW winner \in {"none", "citizens", "impostor"}, NEW reason \in Reasons \ {"undecided"}
    PROVE  Sound(End(g, winner, reason))
<1> DEFINE r == [winner |-> winner, reason |-> reason,
                 outcome |-> [p \in Seats |-> Outcome(g, winner, reason, p)]]
           h == End(g, winner, reason)
<1>1. r \in Results /\ r # Undecided
  BY DEF Results, Undecided, Outcome
<1> HIDE DEF r
<1>2. /\ h \in Games /\ SameStanding(g, h)
      /\ h.phase = "ended" /\ h.deadline = NoTimer /\ h.result = r
  BY <1>1 DEF End, r, Unsettled, Games, Phases, Timers, SameStanding
<1> HIDE DEF h
<1>3. Strikes(h, Seats)
  BY <1>2, StandingCarriesOver DEF Unsettled
<1> QED BY <1>1, <1>2, <1>3 DEF Sound, Ended, h

-----------------------------------------------------------------------------
(* Votes *)

\* Voting out a citizen ends the match or leaves two citizens to go on with.
LEMMA EliminateSound ==
    ASSUME NEW g, Open(g), NEW p \in Active(g) \ {g.impostor}
    PROVE  Sound(Eliminate(g, p))
<1> DEFINE out == [g EXCEPT !.status[p] = "eliminated"]
<1>1. /\ out \in Games /\ p \in Seats /\ g.impostor \in Seats
      /\ out.status = [g.status EXCEPT ![p] = "eliminated"]
      /\ out.impostor = g.impostor /\ out.connected = g.connected /\ out.strike = g.strike
      /\ out.disconnects = g.disconnects /\ out.phase = g.phase
      /\ out.result = g.result /\ out.silentVotes = g.silentVotes
  BY DEF Open, Unsettled, Games, Statuses, Active
<1>2. g.status \in [Seats -> Statuses]
  BY DEF Open, Unsettled, Games
<1>3. Eliminate(g, p) = IF Outnumbered(out) THEN End(out, "impostor", "impostor_parity")
                        ELSE IF TooFew(out) THEN End(out, "none", "not_enough_players")
                        ELSE ShowElimination(out, p)
  BY DEF Eliminate
<1> HIDE DEF out
<1>4. out.impostor \in Active(out)
  BY <1>1, <1>2 DEF Active, Open
<1>5. Strikes(out, Seats)
  BY <1>1, <1>2 DEF Strikes, Open, Unsettled
<1>6. Unsettled(out)
  BY <1>1, <1>5 DEF Open, Unsettled
<1>7. ~Outnumbered(out) => Open(out)
  BY <1>1, <1>4, <1>6, TwoCitizens DEF Open
<1>8. /\ Sound(End(out, "impostor", "impostor_parity"))
      /\ Sound(End(out, "none", "not_enough_players"))
  BY <1>6, EndSound DEF Reasons
<1>9. ~Outnumbered(out) => Sound(ShowElimination(out, p))
  BY <1>1, <1>7, ShowEliminationSound
<1> QED BY <1>3, <1>8, <1>9
\* Counting a vote: called off, caught, voted out, a runoff, a reveal of the tie, or a new round.
LEMMA TallySound ==
    ASSUME NEW g, Open(g), Ballots(g), g.phase \in VotePhases
    PROVE  Sound(Tally(g))
<1> DEFINE h == [g EXCEPT !.silentVotes = IF Silent(g) THEN @ + 1 ELSE 0]
           top == Top(g)
           tie == [h EXCEPT !.tied = top]
<1>1. /\ h \in Games /\ SameStanding(g, h) /\ h.result = g.result /\ h.phase = g.phase
      /\ h.silentVotes \in 0 .. MaxSilentVotes
  BY DEF Open, Unsettled, Games, SameStanding, MaxSilentVotes
<1>2. top \in SUBSET Active(g) /\ top \in SUBSET Seats /\ g.impostor \in Seats
  BY DEF Top, Ballots, Open, Unsettled, Games, Active
<1>3. Tally(g) =
        IF h.silentVotes >= MaxSilentVotes THEN End(h, "none", "abandoned")
        ELSE IF top = {} THEN StartRound(h)
        ELSE IF top = {g.impostor} THEN SetPhase(h, "impostor_guess")
        ELSE IF \E c \in Seats : top = {c} THEN Eliminate(h, CHOOSE c \in top : TRUE)
        ELSE IF g.phase = "voting" THEN StartVoting(h, "runoff_voting", top)
        ELSE ShowElimination(tie, None)
  BY DEF Tally
<1> HIDE DEF h
<1>4. Unsettled(h) /\ Strikes(h, Seats)
  BY <1>1, StandingCarriesOver DEF Open, Unsettled
<1>5. h.silentVotes < MaxSilentVotes => Open(h)
  BY <1>1, <1>4, StandingCarriesOver DEF Open, SameStanding
<1>6. tie \in Games /\ SameStanding(h, tie) /\ tie.result = h.result /\ tie.phase = h.phase
      /\ tie.silentVotes = h.silentVotes
  BY <1>1, <1>2 DEF Games, SameStanding
<1>7. Active(h) = Active(g) /\ h.impostor = g.impostor
  BY <1>1, StandingCarriesOver DEF SameStanding
<1> HIDE DEF top, tie
<1>8. Open(h) => Open(tie)
  BY <1>6, StandingCarriesOver DEF Open, Unsettled, SameStanding
<1>9. CASE h.silentVotes >= MaxSilentVotes
  BY <1>3, <1>4, <1>9, EndSound DEF Reasons
<1>10. CASE ~(h.silentVotes >= MaxSilentVotes)
  <2>1. h.silentVotes < MaxSilentVotes
    BY <1>1, <1>10 DEF MaxSilentVotes
  <2>2. Open(h)
    BY <1>5, <2>1
  <2>3. Sound(StartRound(h))
    BY <2>2, StartRoundSound
  <2>4. Sound(SetPhase(h, "impostor_guess"))
    <3>1. "impostor_guess" \in TimedPhases \ ({"hints"} \cup VotePhases)
      BY DEF TimedPhases, VotePhases
    <3> DEFINE w == SetPhase(h, "impostor_guess")
    <3>2. /\ w \in Games /\ SameStanding(h, w) /\ w.phase = "impostor_guess" /\ w.deadline \in Nat
          /\ w.result = h.result /\ w.silentVotes = h.silentVotes
      BY <1>1, <3>1, SetPhaseFrame
    <3> HIDE DEF w
    <3>3. Sound(w)
      BY <2>2, <3>1, <3>2, QuietPhaseSound
    <3> QED BY <3>3 DEF w
  <2>5. \A c \in Seats : top = {c} /\ top # {g.impostor} => Sound(Eliminate(h, CHOOSE x \in top : TRUE))
    <3>1. SUFFICES ASSUME NEW c \in Seats, top = {c}, top # {g.impostor}
                   PROVE  Sound(Eliminate(h, CHOOSE x \in top : TRUE))
      OBVIOUS
    <3>2. (CHOOSE x \in top : TRUE) = c
      BY <3>1
    <3>3. c \in Active(h) \ {h.impostor}
      BY <1>2, <1>7, <3>1
    <3> QED BY <2>2, <3>2, <3>3, EliminateSound
  <2>6. Sound(StartVoting(h, "runoff_voting", top))
    BY <1>2, <1>7, <2>2, StartVotingSound DEF VotePhases
  <2>7. Sound(ShowElimination(tie, None))
    BY <1>8, <2>2, ShowEliminationSound
  <2> QED BY <1>3, <1>10, <2>3, <2>4, <2>5, <2>6, <2>7
<1> QED BY <1>9, <1>10

\* A barrier that is complete moves the match on; one that is not leaves it alone.
LEMMA MaybeAdvanceSound ==
    ASSUME NEW g, Sound(g)
    PROVE  Sound(MaybeAdvance(g))
<1>1. g.phase \in VotePhases \cup {"role_reveal", "elimination_reveal"} => Open(g)
  BY DEF Sound, Running, Ended, Open, Unsettled, VotePhases
<1>2. CASE g.phase \in VotePhases /\ AllConnectedVoted(g)
  <2>1. Ballots(g)
    BY <1>2 DEF Sound, Running, Ended, VotePhases
  <2>2. MaybeAdvance(g) = Tally(g)
    BY <1>2 DEF MaybeAdvance, VotePhases
  <2> QED BY <1>1, <1>2, <2>1, <2>2, TallySound
<1>3. CASE g.phase = "role_reveal" /\ AllConnectedAcked(g, Active(g))
  <2>1. MaybeAdvance(g) = StartTurn(g, 1)
    BY <1>3 DEF MaybeAdvance, VotePhases
  <2> QED BY <1>1, <1>3, <2>1, StartTurnSound
<1>4. CASE g.phase = "elimination_reveal" /\ AllConnectedAcked(g, Watchers(g))
  <2>1. MaybeAdvance(g) = StartRound(g)
    BY <1>4 DEF MaybeAdvance, VotePhases
  <2> QED BY <1>1, <1>4, <2>1, StartRoundSound
<1>5. CASE /\ ~(g.phase \in VotePhases /\ AllConnectedVoted(g))
           /\ ~(g.phase = "role_reveal" /\ AllConnectedAcked(g, Active(g)))
           /\ ~(g.phase = "elimination_reveal" /\ AllConnectedAcked(g, Watchers(g)))
  <2>1. MaybeAdvance(g) = g
    BY <1>5 DEF MaybeAdvance
  <2> QED BY <2>1
<1> QED BY <1>2, <1>3, <1>4, <1>5

-----------------------------------------------------------------------------
(* Leaving the match *)

\* The players of `gone' have what it takes to go with that status.
Earned(g, gone, status) ==
    \A p \in gone :
        /\ g.strike[p] # NoTimer => ~g.connected[p]
        /\ status = "removed" => g.disconnects[p] = MaxDisconnects /\ ~g.connected[p]

Without(g, gone, status) ==
    [DropBallots(g, gone) EXCEPT !.status = [p \in Seats |-> IF p \in gone THEN status ELSE @[p]]]

\* What is left once `gone' are out, before the match is decided: their ballots and the ones
\* for them are gone too, and nothing else is.
LEMMA GoneFrame ==
    ASSUME NEW g \in Games, NEW gone \in SUBSET Watchers(g), NEW status \in {"left", "removed"},
           Strikes(g, Seats \ gone),
           Earned(g, gone, status),
           NEW h, h = Without(g, gone, status)
    PROVE  /\ h \in Games
           /\ Strikes(h, Seats)
           /\ Active(h) = Active(g) \ gone
           /\ Ballots(g) => Ballots(h)
           /\ h.impostor = g.impostor /\ h.connected = g.connected /\ h.phase = g.phase
           /\ h.result = g.result /\ h.silentVotes = g.silentVotes /\ h.deadline = g.deadline
           /\ h.turn = g.turn /\ h.turnLeft = g.turnLeft /\ h.reconnecting = g.reconnecting
<1> DEFINE status2 == [p \in Seats |-> IF p \in gone THEN status ELSE g.status[p]]
           votes2 == [v \in Seats |->
                         IF v \in gone \/ g.votes[v] \in gone THEN None ELSE g.votes[v]]
<1>1. gone \subseteq Seats
  BY DEF Watchers
<1>2. h = [g EXCEPT !.votes = votes2, !.candidates = g.candidates \ gone, !.status = status2]
  BY DEF Without, DropBallots, Games
<1>3. /\ status2 \in [Seats -> Statuses] /\ votes2 \in [Seats -> Seats \cup {None}]
      /\ g.candidates \ gone \in SUBSET Seats
  BY DEF Games, Statuses
<1>4. /\ h \in Games /\ h.status = status2 /\ h.votes = votes2 /\ h.candidates = g.candidates \ gone
      /\ h.impostor = g.impostor /\ h.connected = g.connected /\ h.phase = g.phase
      /\ h.strike = g.strike /\ h.disconnects = g.disconnects /\ h.voteCast = g.voteCast
      /\ h.result = g.result /\ h.silentVotes = g.silentVotes /\ h.deadline = g.deadline
      /\ h.turn = g.turn /\ h.turnLeft = g.turnLeft /\ h.reconnecting = g.reconnecting
  <2> HIDE DEF status2, votes2
  <2> QED BY <1>2, <1>3, ZenonT(60) DEF Games
<1>5. Active(h) = Active(g) \ gone
  BY <1>1, <1>4 DEF Active
<1>6. Ballots(g) => Ballots(h)
  <2>1. SUFFICES ASSUME Ballots(g) PROVE Ballots(h)
    OBVIOUS
  <2>2. \A v \in Voted(h) : v \in Voted(g) \ gone /\ h.votes[v] = g.votes[v] /\ g.votes[v] \notin gone
    BY <1>4 DEF Voted, None
  <2> QED BY <1>4, <1>5, <2>1, <2>2 DEF Ballots
<1>7. Strikes(h, Seats)
  <2>1. h.status[h.impostor] # "eliminated"
    BY <1>4 DEF Strikes, Games
  <2>2. ASSUME NEW p \in Seats
        PROVE  /\ h.strike[p] # NoTimer => ~h.connected[p]
               /\ h.status[p] = "active" => h.disconnects[p] < MaxDisconnects
               /\ h.status[p] = "removed" => h.disconnects[p] = MaxDisconnects /\ ~h.connected[p]
    <3>1. CASE p \in gone
      BY <1>4, <2>2, <3>1 DEF Earned
    <3>2. CASE p \notin gone
      <4>1. h.status[p] = g.status[p] /\ p \in Seats \ gone
        BY <1>4, <2>2, <3>2
      <4> QED BY <1>4, <4>1 DEF Strikes
    <3> QED BY <3>1, <3>2
  <2> QED BY <2>1, <2>2 DEF Strikes
<1> QED BY <1>4, <1>5, <1>6, <1>7

LEMMA RemoveAllSound ==
    ASSUME NEW g \in Games, NEW gone \in SUBSET Watchers(g), NEW status \in {"left", "removed"},
           Running(g), Strikes(g, Seats \ gone),
           Earned(g, gone, status)
    PROVE  Sound(RemoveAll(g, gone, status))
<1> DEFINE h == Without(g, gone, status)
<1>1. RemoveAll(g, gone, status) =
        IF g.impostor \in gone THEN End(h, "citizens", "impostor_gone")
        ELSE IF g.phase = "impostor_guess" THEN h
        ELSE IF ActiveImpostors(h) # {} /\ Outnumbered(h) THEN End(h, "impostor", "impostor_parity")
        ELSE IF TooFew(h) THEN End(h, "none", "not_enough_players")
        ELSE IF g.phase = "hints" /\ g.turn \in gone THEN StartTurn(h, g.turn + 1)
        ELSE MaybeAdvance(h)
  BY DEF RemoveAll, Without
<1>2. h = Without(g, gone, status)
  OBVIOUS
<1> HIDE DEF h
<1>3. /\ h \in Games
      /\ Strikes(h, Seats)
      /\ Active(h) = Active(g) \ gone
      /\ Ballots(g) => Ballots(h)
      /\ h.impostor = g.impostor /\ h.connected = g.connected /\ h.phase = g.phase
      /\ h.result = g.result /\ h.silentVotes = g.silentVotes /\ h.deadline = g.deadline
      /\ h.turn = g.turn /\ h.turnLeft = g.turnLeft /\ h.reconnecting = g.reconnecting
  BY <1>2, GoneFrame
<1>4. Unsettled(h)
  BY <1>3 DEF Unsettled, Running
<1>5. CASE g.impostor \in gone
  BY <1>1, <1>4, <1>5, EndSound DEF Reasons
<1>6. CASE g.impostor \notin gone
  <2>1. h.impostor \in Active(h)
    BY <1>3, <1>6 DEF Running
  <2>2. ActiveImpostors(h) # {}
    BY <2>1 DEF ActiveImpostors
  <2>3. CASE g.phase = "impostor_guess"
    <3>1. Running(h)
      BY <1>3, <2>1, <2>3 DEF Running, TurnHeld, VotePhases
    <3> QED BY <1>1, <1>3, <1>6, <2>3, <3>1 DEF Sound
  <2>4. CASE g.phase # "impostor_guess" /\ Outnumbered(h)
    BY <1>1, <1>4, <1>6, <2>2, <2>4, EndSound DEF Reasons
  <2>5. CASE g.phase # "impostor_guess" /\ ~Outnumbered(h)
    <3>1. Open(h)
      BY <1>3, <1>4, <2>1, <2>5, TwoCitizens DEF Open, Running
    <3>2. Sound(End(h, "none", "not_enough_players"))
      BY <1>4, EndSound DEF Reasons
    <3>3. g.turn \in Nat /\ g.turn + 1 \in Nat
      BY PlayersAssumption DEF Games, Seats, MinPlayersToStart, MaxPlayers
    <3>4. Sound(StartTurn(h, g.turn + 1))
      BY <3>1, <3>3, StartTurnSound
    <3>5. ~(g.phase = "hints" /\ g.turn \in gone) => Running(h)
      BY <1>3, <2>1, <3>1 DEF Running, Open, TurnHeld
    <3>6. ~(g.phase = "hints" /\ g.turn \in gone) => Sound(MaybeAdvance(h))
      BY <1>3, <3>5, MaybeAdvanceSound DEF Sound
    <3> QED BY <1>1, <1>6, <2>5, <3>2, <3>4, <3>6
  <2> QED BY <2>3, <2>4, <2>5
<1> QED BY <1>5, <1>6

\* The deadline of a phase passes.
LEMMA ExpireSound ==
    ASSUME NEW g, Sound(g), g.phase # "ended"
    PROVE  Sound(Expire(g))
<1>1. g \in Games /\ Running(g) /\ Unsettled(g)
  BY DEF Sound, Ended, Running, Unsettled
<1>2. g.phase # "impostor_guess" => Open(g)
  BY <1>1 DEF Open, Running
<1>3. g.turn \in Nat /\ g.turn + 1 \in Nat
  BY <1>1, PlayersAssumption DEF Games, Seats, MinPlayersToStart, MaxPlayers
<1>4. CASE g.phase = "role_reveal"
  <2>1. Expire(g) = StartTurn(g, 1)
    BY <1>4 DEF Expire, VotePhases
  <2> QED BY <1>2, <1>4, <2>1, StartTurnSound
<1>5. CASE g.phase \in {"hints", "hint_break"}
  <2>1. Expire(g) = StartTurn(g, g.turn + 1)
    BY <1>5 DEF Expire, VotePhases
  <2> QED BY <1>2, <1>3, <1>5, <2>1, StartTurnSound
<1>6. CASE g.phase = "pre_voting"
  <2>1. Expire(g) = StartVoting(g, "voting", Active(g))
    BY <1>6 DEF Expire, VotePhases
  <2>2. "voting" \in VotePhases /\ Active(g) \in SUBSET Active(g)
    BY DEF VotePhases
  <2> QED BY <1>2, <1>6, <2>1, <2>2, StartVotingSound
<1>7. CASE g.phase \in VotePhases
  <2>1. Expire(g) = Tally(g)
    BY <1>7 DEF Expire, VotePhases
  <2>2. Open(g) /\ Ballots(g)
    BY <1>1, <1>2, <1>7 DEF Running, VotePhases
  <2> QED BY <1>7, <2>1, <2>2, TallySound
<1>8. CASE g.phase = "elimination_reveal"
  <2>1. Expire(g) = StartRound(g)
    BY <1>8 DEF Expire, VotePhases
  <2> QED BY <1>2, <1>8, <2>1, StartRoundSound
<1>9. CASE g.phase = "impostor_guess"
  <2>1. Expire(g) = End(g, "citizens", "impostor_guess_timeout")
    BY <1>9 DEF Expire, VotePhases
  <2> QED BY <1>1, <2>1, EndSound DEF Reasons
<1>10. g.phase \in Phases
  BY <1>1 DEF Games
<1> QED BY <1>4, <1>5, <1>6, <1>7, <1>8, <1>9, <1>10 DEF Phases, TimedPhases, VotePhases

-----------------------------------------------------------------------------
(* Every step of a match *)

LEMMA StrikeSound == Sound(game) /\ Strike => Sound(game')
<1> SUFFICES ASSUME Sound(game), Strike PROVE Sound(game')
  OBVIOUS
<1> DEFINE struck == [game EXCEPT
              !.strike = [p \in Seats |-> IF p \in StrikesDue THEN NoTimer ELSE @[p]],
              !.disconnects = [p \in Seats |-> IF p \in StrikesDue THEN @[p] + 1 ELSE @[p]]]
           out == {p \in StrikesDue : UsedUp(struck, p)}
<1>1. game' = IF out = {} THEN struck ELSE RemoveAll(struck, out, "removed")
  BY DEF Strike
<1>2. /\ StrikesDue # {} /\ StrikesDue \subseteq Seats /\ Live /\ Running(game) /\ game \in Games
      /\ \A p \in StrikesDue : game.status[p] = "active" /\ game.strike[p] = 0
  BY DEF Strike, StrikesDue, Active, Live, Sound, Ended
<1>3. \A p \in StrikesDue : /\ game.disconnects[p] + 1 \in 1 .. MaxDisconnects
                            /\ game.disconnects[p] < MaxDisconnects
                            /\ ~game.connected[p]
  BY <1>2, DisconnectsAssumption DEF Sound, Strikes, Games, NoTimer
<1>4. /\ [p \in Seats |-> IF p \in StrikesDue THEN NoTimer ELSE game.strike[p]] \in [Seats -> Timers]
      /\ [p \in Seats |-> IF p \in StrikesDue THEN game.disconnects[p] + 1 ELSE game.disconnects[p]]
            \in [Seats -> 0 .. MaxDisconnects]
  BY <1>2, <1>3, DisconnectsAssumption DEF Games, Timers
<1>5. /\ struck \in Games
      /\ struck.strike = [p \in Seats |-> IF p \in StrikesDue THEN NoTimer ELSE game.strike[p]]
      /\ struck.disconnects =
            [p \in Seats |-> IF p \in StrikesDue THEN game.disconnects[p] + 1 ELSE game.disconnects[p]]
      /\ struck.status = game.status /\ struck.impostor = game.impostor
      /\ struck.connected = game.connected /\ struck.phase = game.phase
      /\ struck.result = game.result /\ struck.silentVotes = game.silentVotes
      /\ struck.deadline = game.deadline /\ struck.turn = game.turn
      /\ struck.turnLeft = game.turnLeft /\ struck.reconnecting = game.reconnecting
      /\ struck.votes = game.votes /\ struck.candidates = game.candidates
      /\ struck.voteCast = game.voteCast
  BY <1>2, <1>4 DEF Games
<1>6. out \subseteq StrikesDue /\ \A p \in StrikesDue \ out : ~UsedUp(struck, p)
  OBVIOUS
<1>7. \A p \in out : UsedUp(struck, p)
  OBVIOUS
<1> HIDE DEF struck, out
<1>8. Running(struck)
  BY <1>2, <1>5 DEF Running, TurnHeld, Ballots, Voted, Active, Citizens
<1>9. Strikes(struck, Seats \ out)
  <2>1. struck.status[struck.impostor] # "eliminated"
    BY <1>5 DEF Sound, Strikes
  <2>2. ASSUME NEW p \in Seats \ out
        PROVE  /\ struck.strike[p] # NoTimer => ~struck.connected[p]
               /\ struck.status[p] = "active" => struck.disconnects[p] < MaxDisconnects
               /\ struck.status[p] = "removed" =>
                    struck.disconnects[p] = MaxDisconnects /\ ~struck.connected[p]
    <3>1. CASE p \in StrikesDue
      <4>1. ~UsedUp(struck, p) /\ struck.disconnects[p] \in Nat /\ MaxDisconnects \in Nat
        BY <1>3, <1>5, <1>6, <2>2, <3>1, DisconnectsAssumption
      <4>2. struck.disconnects[p] < MaxDisconnects
        BY <4>1 DEF UsedUp
      <4> QED BY <1>2, <1>5, <3>1, <4>2
    <3>2. CASE p \notin StrikesDue
      BY <1>5, <2>2, <3>2 DEF Sound, Strikes
    <3> QED BY <3>1, <3>2
  <2> QED BY <2>1, <2>2 DEF Strikes
<1>10. CASE out = {}
  BY <1>1, <1>5, <1>8, <1>9, <1>10 DEF Sound
<1>11. CASE out # {}
  <2>1. out \in SUBSET Watchers(struck)
    BY <1>2, <1>5, <1>6 DEF Watchers
  <2>2. Earned(struck, out, "removed")
    <3>1. \A p \in out : struck.disconnects[p] \in 0 .. MaxDisconnects /\ MaxDisconnects \in Nat
      BY <1>2, <1>5, <1>6, DisconnectsAssumption DEF Games
    <3>2. \A p \in out : struck.disconnects[p] = MaxDisconnects
      BY <1>7, <3>1 DEF UsedUp
    <3> QED BY <1>2, <1>3, <1>5, <1>6, <3>2 DEF Earned
  <2>3. Sound(RemoveAll(struck, out, "removed"))
    BY <1>5, <1>8, <1>9, <2>1, <2>2, RemoveAllSound
  <2> QED BY <1>1, <1>11, <2>3
<1> QED BY <1>10, <1>11

LEMMA TimeoutSound == Sound(game) /\ Timeout => Sound(game')
<1> SUFFICES ASSUME Sound(game), Timeout PROVE Sound(game')
  OBVIOUS
<1>1. game.phase # "ended"
  BY DEF Timeout, Sound, Running, Ended, NoTimer
<1> QED BY <1>1, ExpireSound DEF Timeout

LEMMA ElapseSound == Sound(game) /\ Elapse => Sound(game')
<1> SUFFICES ASSUME Sound(game), Elapse PROVE Sound(game')
  OBVIOUS
<1> DEFINE strike2 == [p \in Seats |->
              IF p \in Active(game) /\ game.strike[p] > 0 THEN game.strike[p] - 1 ELSE game.strike[p]]
<1>1. game \in Games /\ Running(game) /\ Strikes(game, Seats)
  BY DEF Sound, Elapse, Live, Ended
<1>2. game.deadline \in Nat \ {0}
  BY <1>1 DEF Elapse, NothingDue, Running, Games, Timers, NoTimer
<1>3. game.phase = "hints" => game.turnLeft \in Nat \ {0} /\ game.deadline <= game.turnLeft
  BY <1>1, <1>2 DEF Running, TurnHeld, Games
<1>4. strike2 \in [Seats -> Timers]
  BY <1>1 DEF Games, Timers, NoTimer
<1>5. \A p \in Seats : strike2[p] # NoTimer => game.strike[p] # NoTimer
  BY <1>1 DEF Games, Timers, NoTimer
<1>6. game' = [game EXCEPT !.deadline = @ - 1,
                           !.turnLeft = IF game.phase = "hints" THEN @ - 1 ELSE @,
                           !.strike = strike2]
  BY <1>1 DEF Elapse, Games
<1> HIDE DEF strike2
<1> DEFINE turnLeft2 == IF game.phase = "hints" THEN game.turnLeft - 1 ELSE game.turnLeft
<1>7. game.deadline - 1 \in Timers /\ turnLeft2 \in Nat
  BY <1>1, <1>2, <1>3 DEF Games, Timers
<1>8. game' = [game EXCEPT !.deadline = game.deadline - 1, !.turnLeft = turnLeft2, !.strike = strike2]
  BY <1>1, <1>6 DEF Games
<1> HIDE DEF turnLeft2
<1>9. /\ game' \in Games
      /\ game'.strike = strike2 /\ game'.deadline = game.deadline - 1
      /\ game'.turnLeft = turnLeft2
      /\ game'.disconnects = game.disconnects
      /\ game'.status = game.status /\ game'.impostor = game.impostor
      /\ game'.connected = game.connected /\ game'.phase = game.phase
      /\ game'.result = game.result /\ game'.silentVotes = game.silentVotes
      /\ game'.turn = game.turn /\ game'.reconnecting = game.reconnecting
      /\ game'.votes = game.votes /\ game'.candidates = game.candidates
      /\ game'.voteCast = game.voteCast
  BY <1>1, <1>4, <1>7, <1>8 DEF Games
<1>10. Strikes(game', Seats)
  BY <1>1, <1>5, <1>9 DEF Strikes
<1>11. game'.deadline # NoTimer
  BY <1>2, <1>9 DEF NoTimer
<1>12. TurnHeld(game')
  BY <1>1, <1>2, <1>3, <1>9 DEF Running, TurnHeld, Active, turnLeft2
<1>13. Running(game')
  BY <1>1, <1>9, <1>11, <1>12 DEF Running, Ballots, Voted, Active, Citizens
<1> QED BY <1>9, <1>10, <1>13 DEF Sound

\* An acknowledgement disturbs nothing by itself.
LEMMA AckSound ==
    ASSUME Sound(game), NEW p \in Seats
    PROVE  Sound(MaybeAdvance([game EXCEPT !.confirmed[p] = TRUE]))
<1> DEFINE h == [game EXCEPT !.confirmed[p] = TRUE]
<1>1. /\ h \in Games /\ h.strike = game.strike /\ h.disconnects = game.disconnects
      /\ h.status = game.status /\ h.impostor = game.impostor
      /\ h.connected = game.connected /\ h.phase = game.phase /\ h.deadline = game.deadline
      /\ h.result = game.result /\ h.silentVotes = game.silentVotes /\ h.turnLeft = game.turnLeft
      /\ h.turn = game.turn /\ h.reconnecting = game.reconnecting
      /\ h.votes = game.votes /\ h.candidates = game.candidates /\ h.voteCast = game.voteCast
  BY DEF Sound, Games
<1> HIDE DEF h
<1>2. Sound(h)
  BY <1>1 DEF Sound, Strikes, Running, Ended, TurnHeld, Ballots, Voted, Active, Citizens
<1> QED BY <1>2, MaybeAdvanceSound DEF h

LEMMA ConfirmRoleSound ==
    ASSUME Sound(game), NEW p \in Seats, ConfirmRole(p)
    PROVE  Sound(game')
  BY AckSound DEF ConfirmRole

LEMMA ContinueSound ==
    ASSUME Sound(game), NEW p \in Seats, ContinueAfterElimination(p)
    PROVE  Sound(game')
  BY AckSound DEF ContinueAfterElimination

LEMMA SubmitHintSound ==
    ASSUME Sound(game), NEW p \in Seats, SubmitHint(p)
    PROVE  Sound(game')
<1> DEFINE h == SetPhase(game, "hint_break")
<1>1. Open(game)
  BY DEF SubmitHint, Sound, Running, Ended, Open, Unsettled
<1>2. "hint_break" \in TimedPhases \ ({"hints"} \cup VotePhases)
  BY DEF TimedPhases, VotePhases
<1>3. /\ h \in Games /\ SameStanding(game, h) /\ h.phase = "hint_break" /\ h.deadline \in Nat
      /\ h.result = game.result /\ h.silentVotes = game.silentVotes
  BY <1>2, SetPhaseFrame DEF Sound
<1>4. game' = h
  BY DEF SubmitHint
<1> HIDE DEF h
<1> QED BY <1>1, <1>2, <1>3, <1>4, QuietPhaseSound

LEMMA VoteSound ==
    ASSUME Sound(game), NEW p \in Seats, NEW target \in Seats, Vote(p, target)
    PROVE  Sound(game')
<1> DEFINE h == [game EXCEPT !.votes[p] = target, !.voteCast = TRUE]
<1>1. game \in Games /\ Strikes(game, Seats) /\ Running(game) /\ Ballots(game)
  BY DEF Sound, Vote, Running, Ended, VotePhases
<1>2. /\ p \in Active(game) /\ p # target /\ target \in game.candidates
      /\ game.phase \in VotePhases /\ game' = MaybeAdvance(h)
  BY DEF Vote
<1>3. /\ h \in Games /\ SameStanding(game, h) /\ h.phase = game.phase /\ h.deadline = game.deadline
      /\ h.result = game.result /\ h.silentVotes = game.silentVotes /\ h.turnLeft = game.turnLeft
      /\ h.turn = game.turn /\ h.reconnecting = game.reconnecting
      /\ h.votes = [game.votes EXCEPT ![p] = target] /\ h.candidates = game.candidates
      /\ h.voteCast = TRUE
  BY <1>1 DEF Games, SameStanding
<1> HIDE DEF h
<1>4. Active(h) = Active(game) /\ Citizens(h) = Citizens(game) /\ Strikes(h, Seats)
  BY <1>1, <1>3, StandingCarriesOver
<1>5. Ballots(h)
  <2>1. \A v \in Voted(h) : h.votes[v] = IF v = p THEN target ELSE game.votes[v]
    BY <1>1, <1>3 DEF Voted, Games
  <2>2. \A v \in Voted(h) \ {p} : v \in Voted(game)
    BY <2>1 DEF Voted
  <2> QED BY <1>1, <1>2, <1>3, <1>4, <2>1, <2>2 DEF Ballots
<1>6. Running(h)
  BY <1>1, <1>2, <1>3, <1>4, <1>5 DEF Running, TurnHeld, SameStanding, VotePhases
<1> QED BY <1>2, <1>3, <1>4, <1>6, MaybeAdvanceSound DEF Sound

LEMMA SubmitGuessSound ==
    ASSUME Sound(game), NEW p \in Seats, SubmitGuess(p)
    PROVE  Sound(game')
<1>1. Unsettled(game)
  BY DEF SubmitGuess, Sound, Running, Ended, Unsettled
<1> QED BY <1>1, EndSound DEF SubmitGuess, Reasons

LEMMA LeaveSound ==
    ASSUME Sound(game), NEW p \in Seats, Leave(p)
    PROVE  Sound(game')
<1>1. game \in Games /\ Strikes(game, Seats) /\ Running(game) /\ {p} \in SUBSET Watchers(game)
  BY DEF Leave, Live, Sound, Ended
<1>2. Strikes(game, Seats \ {p}) /\ Earned(game, {p}, "left")
  BY <1>1 DEF Strikes, Earned
<1>3. game' = RemoveAll(game, {p}, "left")
  BY DEF Leave
<1> QED BY <1>1, <1>2, <1>3, RemoveAllSound

\* The turn of whoever drops waits for them; nobody else's does.
LEMMA DisconnectSound ==
    ASSUME Sound(game), NEW p \in Seats, Disconnect(p)
    PROVE  Sound(game')
<1> DEFINE strike2 == IF Live /\ p \in Active(game) THEN ReconnectDuration ELSE game.strike[p]
           h == [game EXCEPT !.connected[p] = FALSE, !.strike[p] = strike2]
           w == AwaitReconnect(h)
<1>1. game \in Games /\ Strikes(game, Seats)
  BY DEF Sound
<1>2. game' = IF game.phase = "hints" /\ game.turn = p THEN w ELSE MaybeAdvance(h)
  BY <1>1 DEF Disconnect, Games
<1>3. strike2 \in Timers
  BY <1>1, DurationAssumption DEF Games, Timers
<1> HIDE DEF strike2
<1>4. /\ h \in Games /\ h.strike = [game.strike EXCEPT ![p] = strike2]
      /\ h.disconnects = game.disconnects
      /\ h.status = game.status /\ h.impostor = game.impostor
      /\ h.connected = [game.connected EXCEPT ![p] = FALSE]
      /\ h.phase = game.phase /\ h.deadline = game.deadline
      /\ h.result = game.result /\ h.silentVotes = game.silentVotes /\ h.turnLeft = game.turnLeft
      /\ h.turn = game.turn /\ h.reconnecting = game.reconnecting
      /\ h.votes = game.votes /\ h.candidates = game.candidates /\ h.voteCast = game.voteCast
  BY <1>1, <1>3 DEF Games
<1> HIDE DEF h
<1>5. Strikes(h, Seats)
  BY <1>1, <1>4 DEF Strikes, Games
<1>6. Active(h) = Active(game) /\ Citizens(h) = Citizens(game) /\ (Ballots(game) => Ballots(h))
  BY <1>4 DEF Active, Citizens, Ballots, Voted
<1>7. CASE game.phase = "hints" /\ game.turn = p
  <2>1. Running(game) /\ game.turnLeft \in Nat /\ p \in Active(game)
    BY <1>1, <1>7 DEF Sound, Ended, Running, TurnHeld, Games
  <2>2. /\ w \in Games /\ SameStanding(h, w) /\ w.phase = "hints" /\ w.turn = p
        /\ w.reconnecting = TRUE /\ w.result = h.result /\ w.silentVotes = h.silentVotes
        /\ w.deadline \in Nat /\ w.turnLeft = game.turnLeft /\ w.deadline <= game.turnLeft
    <3>1. w = [h EXCEPT !.reconnecting = TRUE,
                        !.deadline = IF h.turnLeft < ReconnectDuration THEN h.turnLeft ELSE ReconnectDuration]
      BY DEF AwaitReconnect
    <3> HIDE DEF w
    <3>2. w.deadline \in Nat /\ w.deadline \in Timers /\ w.deadline <= game.turnLeft
      BY <1>4, <2>1, <3>1, DurationAssumption DEF Games, Timers
    <3> QED BY <1>4, <1>7, <3>1, <3>2 DEF Games, SameStanding
  <2> HIDE DEF w
  <2>3. Active(w) = Active(game) /\ Citizens(w) = Citizens(game) /\ Strikes(w, Seats)
    BY <1>5, <1>6, <2>2, StandingCarriesOver
  <2>4. w.connected[w.turn] = FALSE
    BY <1>1, <1>4, <2>2 DEF SameStanding, Games
  <2>5. TurnHeld(w)
    BY <2>1, <2>2, <2>3, <2>4 DEF TurnHeld
  <2>6. w.impostor = game.impostor /\ w.deadline # NoTimer
    BY <1>4, <2>2 DEF SameStanding, NoTimer
  <2>7. Running(w)
    BY <1>4, <1>7, <2>1, <2>2, <2>3, <2>5, <2>6 DEF Running, VotePhases
  <2> QED BY <1>2, <1>7, <2>2, <2>3, <2>7 DEF Sound
<1>8. CASE ~(game.phase = "hints" /\ game.turn = p)
  <2>1. TurnHeld(game) => TurnHeld(h)
    BY <1>1, <1>4, <1>6, <1>8 DEF TurnHeld, Games
  <2>2. Sound(h)
    BY <1>4, <1>5, <1>6, <2>1 DEF Sound, Running, Ended
  <2> QED BY <1>2, <1>8, <2>2, MaybeAdvanceSound
<1> QED BY <1>7, <1>8

\* Whoever comes back to their own turn takes it up; nothing else waits for them.
LEMMA ReconnectSound ==
    ASSUME Sound(game), NEW p \in Seats, Reconnect(p)
    PROVE  Sound(game')
<1> DEFINE h == [game EXCEPT !.connected[p] = TRUE, !.strike[p] = NoTimer]
           w == ResumeTurn(h)
           mine == game.phase = "hints" /\ p \in Active(game) /\ game.turn = p
<1>1. game \in Games /\ Strikes(game, Seats) /\ p \in Watchers(game)
  BY DEF Sound, Reconnect
<1>2. game' = IF mine THEN w ELSE IF game.phase \in VotePhases THEN MaybeAdvance(h) ELSE h
  BY DEF Reconnect
<1>3. /\ h \in Games /\ h.strike = [game.strike EXCEPT ![p] = NoTimer]
      /\ h.disconnects = game.disconnects
      /\ h.status = game.status /\ h.impostor = game.impostor
      /\ h.connected = [game.connected EXCEPT ![p] = TRUE]
      /\ h.phase = game.phase /\ h.deadline = game.deadline
      /\ h.result = game.result /\ h.silentVotes = game.silentVotes /\ h.turnLeft = game.turnLeft
      /\ h.turn = game.turn /\ h.reconnecting = game.reconnecting
      /\ h.votes = game.votes /\ h.candidates = game.candidates /\ h.voteCast = game.voteCast
  BY <1>1 DEF Games, Timers
<1> HIDE DEF h
<1>4. Strikes(h, Seats)
  <2>1. h.status[p] # "removed" /\ h.strike[p] = NoTimer
    BY <1>1, <1>3 DEF Watchers, Games
  <2> QED BY <1>1, <1>3, <2>1 DEF Strikes, Games
<1>5. Active(h) = Active(game) /\ Citizens(h) = Citizens(game) /\ (Ballots(game) => Ballots(h))
  BY <1>3 DEF Active, Citizens, Ballots, Voted
<1>6. CASE mine
  <2>1. Running(game) /\ game.turnLeft \in Nat
    BY <1>1, <1>6 DEF Sound, Ended, Running, Games
  <2>2. /\ w \in Games /\ SameStanding(h, w) /\ w.phase = "hints" /\ w.turn = p
        /\ w.reconnecting = FALSE /\ w.result = h.result /\ w.silentVotes = h.silentVotes
        /\ w.deadline = game.turnLeft /\ w.turnLeft = game.turnLeft
    BY <1>3, <1>6, <2>1 DEF ResumeTurn, Games, SameStanding, Timers
  <2> HIDE DEF w
  <2>3. Active(w) = Active(game) /\ Citizens(w) = Citizens(game) /\ Strikes(w, Seats)
    BY <1>4, <1>5, <2>2, StandingCarriesOver
  <2>4. w.connected[w.turn] = TRUE
    BY <1>1, <1>3, <2>2 DEF SameStanding, Games
  <2>5. TurnHeld(w)
    <3>1. w.turn \in Active(w) /\ w.deadline <= w.turnLeft
      BY <1>6, <2>1, <2>2, <2>3
    <3>2. w.reconnecting = ~w.connected[w.turn]
      BY <2>2, <2>4
    <3> QED BY <3>1, <3>2 DEF TurnHeld
  <2>6. w.impostor = game.impostor /\ w.deadline # NoTimer
    BY <1>3, <2>1, <2>2 DEF SameStanding, NoTimer
  <2>7. Running(w)
    BY <1>3, <1>6, <2>1, <2>2, <2>3, <2>5, <2>6 DEF Running, VotePhases
  <2> QED BY <1>2, <1>6, <2>2, <2>3, <2>7 DEF Sound
<1>7. CASE ~mine
  <2>1. TurnHeld(game) => TurnHeld(h)
    BY <1>1, <1>3, <1>5, <1>7 DEF TurnHeld, Games
  <2>2. Sound(h)
    BY <1>3, <1>4, <1>5, <2>1 DEF Sound, Running, Ended
  <2> QED BY <1>2, <1>7, <2>2, MaybeAdvanceSound
<1> QED BY <1>6, <1>7

-----------------------------------------------------------------------------
(* Theorems *)

IInv == Sound(game)

LEMMA InitSound == Init => IInv
<1> SUFFICES ASSUME NEW impostor \in Impostors, NEW offline \in SUBSET Flaky,
                    game = NewGame(impostor, offline)
             PROVE  Sound(game)
  BY DEF Init, IInv
<1>1. impostor \in Seats /\ 1 \in Seats
  BY BoundsAssumption, PlayersAssumption DEF Seats, MinPlayersToStart, MaxPlayers
<1>2. /\ game \in Games /\ game.phase = "role_reveal" /\ game.result = Undecided
      /\ game.deadline \in Nat \ {0} /\ game.silentVotes = 0 /\ game.impostor = impostor
      /\ game.status = [p \in Seats |-> "active"] /\ game.strike = [p \in Seats |-> NoTimer]
      /\ game.disconnects = [p \in Seats |-> 0]
  <2>1. Undecided \in Results
    BY DEF Undecided, Results, Reasons
  <2> QED BY <1>1, <2>1, DurationAssumption, DisconnectsAssumption
          DEF NewGame, Games, Statuses, Timers, Phases, TimedPhases, NoVotes, MaxSilentVotes
<1>3. Strikes(game, Seats)
  BY <1>1, <1>2, DisconnectsAssumption DEF Strikes
<1>4. Active(game) = Seats
  BY <1>2 DEF Active
<1>5. Cardinality(Citizens(game)) >= 2
  <2>1. Cardinality(Seats) = N /\ N \in Nat /\ N >= 4 /\ IsFiniteSet(Seats)
    BY FS_Interval, PlayersAssumption DEF Seats, MinPlayersToStart, MaxPlayers
  <2>2. Cardinality(Seats \ {impostor}) = N - 1
    BY <1>1, <2>1, FS_RemoveElement
  <2> QED BY <1>2, <1>4, <2>1, <2>2 DEF Citizens
<1> QED BY <1>1, <1>2, <1>3, <1>4, <1>5
        DEF Sound, Running, TurnHeld, NoTimer, VotePhases, MaxSilentVotes

LEMMA NextSound == IInv /\ [Next]_vars => IInv'
<1> SUFFICES ASSUME Sound(game), [Next]_vars PROVE Sound(game')
  BY DEF IInv
<1>1. CASE Command
  <2>1. CASE \E p \in Seats : \/ ConfirmRole(p) \/ SubmitHint(p)
                              \/ SubmitGuess(p) \/ ContinueAfterElimination(p)
    BY <2>1, ConfirmRoleSound, SubmitHintSound, SubmitGuessSound, ContinueSound
  <2>2. CASE \E p, target \in Seats : Vote(p, target)
    BY <2>2, VoteSound
  <2>3. CASE \E p \in Leavers : Leave(p)
    BY <2>3, LeaveSound, BoundsAssumption
  <2>4. CASE \E p \in Flaky : Disconnect(p) \/ Reconnect(p)
    BY <2>4, DisconnectSound, ReconnectSound, BoundsAssumption
  <2> QED BY <1>1, <2>1, <2>2, <2>3, <2>4 DEF Command
<1>2. CASE Tick
  BY <1>2, StrikeSound, TimeoutSound, ElapseSound DEF Tick
<1>3. CASE UNCHANGED vars
  BY <1>3 DEF vars
<1> QED BY <1>1, <1>2, <1>3 DEF Next

\* The inductive invariant holds of every reachable state of every match.
THEOREM Soundness == Spec => []IInv
  BY InitSound, NextSound, PTL DEF Spec

\* Every value a match takes has the shape of the Go struct (TypeOK): no method counts a
\* disconnect, a silent vote or a turn beyond its range.
THEOREM TypeCorrect == Spec => []TypeOK
<1>1. IInv => TypeOK
  BY DEF IInv, Sound, TypeOK
<1> QED BY <1>1, Soundness, PTL

\* While a match runs it is undecided and timed: its impostor plays, with two citizens at
\* least unless only the guess is left (end is called by the step that decides the match).
THEOREM NeverStuckUndecided == Spec => []UndecidedWhileLive
<1>1. IInv => UndecidedWhileLive
  BY DEF IInv, Sound, Running, Ended, UndecidedWhileLive, Live
<1> QED BY <1>1, Soundness, PTL

\* A hint turn always has an active holder, is `reconnecting' exactly while its holder is
\* offline, and never outlives its own clock (startTurn, awaitReconnect, Reconnect, removeAll).
THEOREM TurnsAreHeld == Spec => []TurnHasHolder
<1>1. IInv => TurnHasHolder
  BY DEF IInv, Sound, Running, Ended, TurnHeld, TurnHasHolder
<1> QED BY <1>1, Soundness, PTL

\* What tally counts is always a present player's choice of another present candidate.
THEOREM BallotsCount == Spec => []BallotsAreSound
<1>1. IInv => BallotsAreSound
  BY DEF IInv, Sound, Running, Ended, Ballots, BallotsAreSound, VotePhases
<1> QED BY <1>1, Soundness, PTL

\* Only absence is punished: strikes are pending for the offline only, whoever was removed used
\* them all up, and the vote never takes the impostor out.
THEOREM OnlyAbsenceIsPunished == Spec => []StrikesAreEarned
<1>1. IInv => StrikesAreEarned
  BY DEF IInv, Sound, Strikes, StrikesAreEarned
<1> QED BY <1>1, Soundness, PTL

-----------------------------------------------------------------------------
(***************************************************************************)
(* Game implements the two abstract specifications of a match, for every   *)
(* number of seats, every duration and every limit on strikes: Roster, on  *)
(* which the room is built, and Match, which says what a match promises.   *)
(*                                                                         *)
(* Of each method of game.go it is shown what it does to the little the    *)
(* abstract specification sees: who sits at the table for Roster (the      *)
(* first half), who plays, how far the match is and what the vote heard    *)
(* for Match (the second).  Both rest on the inductive invariant above,    *)
(* without which a tally could count the ballots of people who left, and a *)
(* match go on that is decided.                                            *)
(***************************************************************************)

\* Who sits at the table and who of them is online is the same in g and h.
SameTable(g, h) ==
    /\ DOMAIN h = DOMAIN g /\ DOMAIN h.status = DOMAIN g.status
    /\ h.connected = g.connected
    /\ Watchers(h) = Watchers(g)

Table(g) == {"status", "connected", "phase"} \subseteq DOMAIN g /\ DOMAIN g.status = Seats

\* The steps of a match that only change the phase.
LEMMA PhaseKeepsTable ==
    ASSUME NEW g, Table(g), NEW phase
    PROVE  SameTable(g, SetPhase(g, phase))
BY DEF Table, SameTable, SetPhase, Watchers

\* A turn that starts, by whoever is next, moves nobody.
LEMMA TurnKeepsTable ==
    ASSUME NEW g, Table(g), NEW i
    PROVE  SameTable(g, StartTurn(g, i))
<1> DEFINE s == SetPhase(g, "hints")
           t == [s EXCEPT !.turn = Min({p \in Active(g) : p >= i}), !.reconnecting = FALSE]
<1>1. SameTable(g, s) /\ SameTable(g, SetPhase(g, "pre_voting"))
  BY PhaseKeepsTable
<1>2. StartTurn(g, i) \in {SetPhase(g, "pre_voting"), t, AwaitReconnect(t)}
  BY DEF StartTurn
<1> HIDE DEF s
<1>3. SameTable(g, t)
  BY <1>1 DEF SameTable, Table, Watchers
<1> HIDE DEF t
<1>4. SameTable(g, AwaitReconnect(t))
  BY <1>3 DEF SameTable, Table, Watchers, AwaitReconnect
<1> QED BY <1>1, <1>2, <1>3, <1>4

\* A round, a vote and a reveal move nobody.
LEMMA RoundKeepsTable ==
    ASSUME NEW g, Table(g)
    PROVE  SameTable(g, StartRound(g))
<1> DEFINE h == [g EXCEPT !.lastEliminated = None, !.tied = {}, !.candidates = {}, !.votes = NoVotes]
<1>1. SameTable(g, h) /\ Table(h)
  BY DEF SameTable, Table, Watchers
<1> HIDE DEF h
<1>2. SameTable(h, StartTurn(h, 1))
  BY <1>1, TurnKeepsTable
<1>3. StartRound(g) = StartTurn(h, 1)
  BY DEF StartRound, h
<1> QED BY <1>1, <1>2, <1>3 DEF SameTable

\* A vote that opens moves nobody.
LEMMA VotingKeepsTable ==
    ASSUME NEW g, Table(g), NEW phase, NEW candidates
    PROVE  SameTable(g, StartVoting(g, phase, candidates))
<1> DEFINE s == SetPhase(g, phase)
<1>1. SameTable(g, s)
  BY PhaseKeepsTable
<1>2. StartVoting(g, phase, candidates) =
        [s EXCEPT !.reconnecting = FALSE, !.candidates = candidates, !.votes = NoVotes, !.voteCast = FALSE]
  BY DEF StartVoting
<1> HIDE DEF s
<1> QED BY <1>1, <1>2 DEF SameTable, Table, Watchers

\* The reveal of a vote moves nobody.
LEMMA RevealKeepsTable ==
    ASSUME NEW g, Table(g), NEW p
    PROVE  SameTable(g, ShowElimination(g, p))
<1> DEFINE s == SetPhase(g, "elimination_reveal")
<1>1. SameTable(g, s)
  BY PhaseKeepsTable
<1>2. ShowElimination(g, p) = [s EXCEPT !.lastEliminated = p, !.confirmed = [q \in Seats |-> FALSE]]
  BY DEF ShowElimination
<1> HIDE DEF s
<1> QED BY <1>1, <1>2 DEF SameTable, Table, Watchers

\* The players of a match that ends stay to read its result.
LEMMA EndKeepsTable ==
    ASSUME NEW g, Table(g), NEW winner, NEW reason
    PROVE  SameTable(g, End(g, winner, reason))
<1> DEFINE r == [winner |-> winner, reason |-> reason,
                 outcome |-> [p \in Seats |-> Outcome(g, winner, reason, p)]]
<1>1. End(g, winner, reason) \in
        {g, [g EXCEPT !.phase = "ended", !.deadline = NoTimer, !.turnLeft = 0, !.reconnecting = FALSE, !.result = r]}
  BY DEF End
<1> HIDE DEF r
<1> QED BY <1>1 DEF SameTable, Table, Watchers

\* Who is voted out stays to watch.
LEMMA EliminateKeepsTable ==
    ASSUME NEW g, Table(g), NEW p \in Active(g)
    PROVE  SameTable(g, Eliminate(g, p))
<1> DEFINE out == [g EXCEPT !.status[p] = "eliminated"]
<1>1. out.status = [g.status EXCEPT ![p] = "eliminated"] /\ DOMAIN out = DOMAIN g /\ out.connected = g.connected
  BY DEF Table
<1>2. p \in Seats /\ g.status[p] = "active"
  BY DEF Active
<1>3. Eliminate(g, p) \in {End(out, "impostor", "impostor_parity"), End(out, "none", "not_enough_players"),
                           ShowElimination(out, p)}
  BY DEF Eliminate
<1> HIDE DEF out
<1>4. SameTable(g, out) /\ Table(out)
  BY <1>1, <1>2 DEF SameTable, Table, Watchers
<1>5. /\ SameTable(out, End(out, "impostor", "impostor_parity"))
      /\ SameTable(out, End(out, "none", "not_enough_players"))
      /\ SameTable(out, ShowElimination(out, p))
  BY <1>4, EndKeepsTable, RevealKeepsTable
<1> QED BY <1>3, <1>4, <1>5 DEF SameTable

\* Nobody leaves the table by a vote.
LEMMA TallyKeepsTable ==
    ASSUME NEW g, Table(g), g.candidates \subseteq Active(g)
    PROVE  SameTable(g, Tally(g))
<1> DEFINE h == [g EXCEPT !.silentVotes = IF Silent(g) THEN @ + 1 ELSE 0]
           top == Top(g)
           tie == [h EXCEPT !.tied = top]
<1>1. SameTable(g, h) /\ Table(h) /\ SameTable(g, tie) /\ Table(tie) /\ h.status = g.status
  BY DEF SameTable, Table, Watchers
<1>2. Tally(g) =
        IF h.silentVotes >= MaxSilentVotes THEN End(h, "none", "abandoned")
        ELSE IF top = {} THEN StartRound(h)
        ELSE IF top = {g.impostor} THEN SetPhase(h, "impostor_guess")
        ELSE IF \E c \in Seats : top = {c} THEN Eliminate(h, CHOOSE c \in top : TRUE)
        ELSE IF g.phase = "voting" THEN StartVoting(h, "runoff_voting", top)
        ELSE ShowElimination(tie, None)
  BY DEF Tally
<1>3. top \subseteq Active(g)
  BY DEF Top
<1> HIDE DEF h, top, tie
<1>4. Active(h) = Active(g)
  BY <1>1 DEF Active
<1>5. ASSUME NEW c \in Seats, top = {c} PROVE SameTable(h, Eliminate(h, CHOOSE x \in top : TRUE))
  <2>1. (CHOOSE x \in top : TRUE) = c /\ c \in Active(h)
    BY <1>3, <1>4, <1>5
  <2> QED BY <1>1, <2>1, EliminateKeepsTable
<1>6. /\ SameTable(h, End(h, "none", "abandoned")) /\ SameTable(h, StartRound(h))
      /\ SameTable(h, SetPhase(h, "impostor_guess")) /\ SameTable(h, StartVoting(h, "runoff_voting", top))
      /\ SameTable(tie, ShowElimination(tie, None))
  BY <1>1, EndKeepsTable, RoundKeepsTable, PhaseKeepsTable, VotingKeepsTable, RevealKeepsTable
<1>7. SameTable(h, Tally(g)) \/ SameTable(tie, Tally(g))
  BY <1>2, <1>5, <1>6
<1> QED BY <1>1, <1>7 DEF SameTable

\* Nor by what a barrier that is complete brings about.
LEMMA AdvanceKeepsTable ==
    ASSUME NEW g, Table(g), g.phase \in VotePhases => g.candidates \subseteq Active(g)
    PROVE  SameTable(g, MaybeAdvance(g))
<1>1. SameTable(g, g) /\ SameTable(g, StartTurn(g, 1)) /\ SameTable(g, StartRound(g))
  BY TurnKeepsTable, RoundKeepsTable DEF SameTable
<1>2. g.phase \in VotePhases => SameTable(g, Tally(g))
  BY TallyKeepsTable
<1>3. \/ g.phase \in VotePhases /\ MaybeAdvance(g) = Tally(g)
      \/ MaybeAdvance(g) \in {StartTurn(g, 1), StartRound(g), g}
  BY DEF MaybeAdvance
<1> QED BY <1>1, <1>2, <1>3

\* The deadline of a phase moves nobody.
LEMMA ExpireKeepsTable ==
    ASSUME NEW g, Table(g), g.phase \in TimedPhases, g.phase \in VotePhases => g.candidates \subseteq Active(g)
    PROVE  SameTable(g, Expire(g))
<1>1. g.phase \in VotePhases => SameTable(g, Tally(g))
  BY TallyKeepsTable
<1>2. \/ g.phase \in VotePhases /\ Expire(g) = Tally(g)
      \/ Expire(g) \in {StartTurn(g, 1), StartTurn(g, g.turn + 1), StartVoting(g, "voting", Active(g)), StartRound(g),
                        End(g, "citizens", "impostor_guess_timeout")}
  BY DEF Expire, TimedPhases, VotePhases
<1> QED BY <1>1, <1>2, TurnKeepsTable, VotingKeepsTable, RoundKeepsTable, EndKeepsTable

\* The table once `gone' have left it, and nobody else.
Leaves(g, h, gone) ==
    /\ h.connected = g.connected
    /\ Watchers(h) = Watchers(g) \ gone

\* Players leave or are removed: they, and nobody else, are gone from the table, whatever that
\* decides or moves on.
LEMMA RemoveAllTakes ==
    ASSUME NEW g \in Games, NEW gone \in SUBSET Watchers(g), NEW status \in {"left", "removed"},
           Strikes(g, Seats \ gone), Earned(g, gone, status),
           g.phase \in VotePhases => Ballots(g)
    PROVE  Leaves(g, RemoveAll(g, gone, status), gone)
<1> DEFINE h == Without(g, gone, status)
<1>1. RemoveAll(g, gone, status) \in
        {End(h, "citizens", "impostor_gone"), h, End(h, "impostor", "impostor_parity"),
         End(h, "none", "not_enough_players"), StartTurn(h, g.turn + 1), MaybeAdvance(h)}
  BY DEF RemoveAll, Without
<1>2. h = Without(g, gone, status)
  OBVIOUS
<1>3. Watchers(h) = Watchers(g) \ gone
  BY DEF Without, DropBallots, Watchers, Games
<1> HIDE DEF h
<1>4. h \in Games /\ h.connected = g.connected /\ h.phase = g.phase /\ (Ballots(g) => Ballots(h))
  BY <1>2, GoneFrame, SMTT(30)
<1>5. Table(h)
  BY <1>4 DEF Table, Games
<1>6. h.phase \in VotePhases => h.candidates \subseteq Active(h)
  BY <1>4 DEF Ballots
<1>7. SameTable(h, h)
  BY DEF SameTable
<1>8. SameTable(h, RemoveAll(g, gone, status))
  BY <1>1, <1>5, <1>6, <1>7, EndKeepsTable, TurnKeepsTable, AdvanceKeepsTable
<1> QED BY <1>3, <1>4, <1>8 DEF SameTable, Leaves

-----------------------------------------------------------------------------
(* What a step of a match is to its room *)

OnlineAt(g) == {p \in Watchers(g) : g.connected[p]}

\* A match that is not over has its impostor at the table.
LEMMA EndsInTime ==
    ASSUME Sound(game')
    PROVE  Live' => Watchers(game') # {}
<1>1. Live' => game'.impostor \in Watchers(game')
  BY DEF Sound, Running, Ended, Live, Watchers, Active
<1> QED BY <1>1

\* A sound match is a table, and counts ballots only for active players.
LEMMA SoundIsTable ==
    ASSUME NEW g, Sound(g)
    PROVE  /\ Table(g) /\ g \in Games
           /\ g.phase \in VotePhases => Ballots(g) /\ g.candidates \subseteq Active(g)
BY DEF Sound, Running, Ended, Table, Games, Ballots, VotePhases

\* What leaves the table alone while the match runs is play.
LEMMA TableKeptIsPlay ==
    ASSUME Sound(game), Sound(game'), SameTable(game, game'), Live
    PROVE  Shown!Play
<1>1. OnlineAt(game') = OnlineAt(game)
  BY DEF SameTable, OnlineAt
<1>2. Live' => Watchers(game') # {}
  BY EndsInTime
<1> QED BY <1>1, <1>2 DEF Shown!Play, Shown!MayEnd, SameTable, OnlineAt, Live

\* The match once its due strikes are counted, and whom they remove.
Struck ==
    [game EXCEPT !.strike = [p \in Seats |-> IF p \in StrikesDue THEN NoTimer ELSE @[p]],
                 !.disconnects = [p \in Seats |-> IF p \in StrikesDue THEN @[p] + 1 ELSE @[p]]]

StruckOut == {p \in StrikesDue : UsedUp(Struck, p)}

\* Strikes that are due are counted, and remove only players who are offline and used up all
\* their drops.
LEMMA StrikeFrame ==
    ASSUME Sound(game), Strike
    PROVE  /\ Live /\ Running(Struck) /\ Struck \in Games /\ Strikes(Struck, Seats \ StruckOut)
           /\ Earned(Struck, StruckOut, "removed")
           /\ Struck.status = game.status /\ Struck.connected = game.connected
           /\ Struck.impostor = game.impostor /\ Struck.phase = game.phase
           /\ Struck.result = game.result /\ Struck.silentVotes = game.silentVotes
           /\ Struck.voteCast = game.voteCast
           /\ StruckOut \in SUBSET Watchers(Struck)
           /\ StruckOut \subseteq Watchers(game) \ OnlineAt(game)
           /\ game' = IF StruckOut = {} THEN Struck ELSE RemoveAll(Struck, StruckOut, "removed")
<1>1. game' = IF StruckOut = {} THEN Struck ELSE RemoveAll(Struck, StruckOut, "removed")
  BY DEF Strike, Struck, StruckOut
<1>2. /\ StrikesDue \subseteq Seats /\ Live /\ Running(game) /\ game \in Games
      /\ \A p \in StrikesDue : game.status[p] = "active" /\ game.strike[p] = 0
  BY DEF Strike, StrikesDue, Active, Live, Sound, Ended
<1>3. \A p \in StrikesDue : /\ game.disconnects[p] + 1 \in 1 .. MaxDisconnects
                            /\ game.disconnects[p] < MaxDisconnects
                            /\ ~game.connected[p]
  BY <1>2, DisconnectsAssumption DEF Sound, Strikes, Games, NoTimer
<1>4. /\ [p \in Seats |-> IF p \in StrikesDue THEN NoTimer ELSE game.strike[p]] \in [Seats -> Timers]
      /\ [p \in Seats |-> IF p \in StrikesDue THEN game.disconnects[p] + 1 ELSE game.disconnects[p]]
            \in [Seats -> 0 .. MaxDisconnects]
  BY <1>2, <1>3, DisconnectsAssumption DEF Games, Timers
<1>5. /\ Struck \in Games
      /\ Struck.strike = [p \in Seats |-> IF p \in StrikesDue THEN NoTimer ELSE game.strike[p]]
      /\ Struck.disconnects =
            [p \in Seats |-> IF p \in StrikesDue THEN game.disconnects[p] + 1 ELSE game.disconnects[p]]
      /\ Struck.status = game.status /\ Struck.impostor = game.impostor
      /\ Struck.connected = game.connected /\ Struck.phase = game.phase
      /\ Struck.result = game.result /\ Struck.silentVotes = game.silentVotes
      /\ Struck.deadline = game.deadline /\ Struck.turn = game.turn
      /\ Struck.turnLeft = game.turnLeft /\ Struck.reconnecting = game.reconnecting
      /\ Struck.votes = game.votes /\ Struck.candidates = game.candidates
      /\ Struck.voteCast = game.voteCast
  BY <1>2, <1>4 DEF Games, Struck
<1>6. StruckOut \subseteq StrikesDue /\ \A p \in StrikesDue : UsedUp(Struck, p) <=> p \in StruckOut
  BY DEF StruckOut
<1>7. Running(Struck)
  BY <1>2, <1>5 DEF Running, TurnHeld, Ballots, Voted, Active, Citizens
<1>8. Strikes(Struck, Seats \ StruckOut)
  <2>1. Struck.status[Struck.impostor] # "eliminated"
    BY <1>5 DEF Sound, Strikes
  <2>2. ASSUME NEW p \in Seats \ StruckOut
        PROVE  /\ Struck.strike[p] # NoTimer => ~Struck.connected[p]
               /\ Struck.status[p] = "active" => Struck.disconnects[p] < MaxDisconnects
               /\ Struck.status[p] = "removed" =>
                    Struck.disconnects[p] = MaxDisconnects /\ ~Struck.connected[p]
    <3>1. CASE p \in StrikesDue
      <4>1. ~UsedUp(Struck, p) /\ Struck.disconnects[p] \in Nat /\ MaxDisconnects \in Nat
        BY <1>3, <1>5, <1>6, <2>2, <3>1, DisconnectsAssumption
      <4>2. Struck.disconnects[p] < MaxDisconnects
        BY <4>1 DEF UsedUp
      <4> QED BY <1>2, <1>5, <3>1, <4>2
    <3>2. CASE p \notin StrikesDue
      BY <1>5, <2>2, <3>2 DEF Sound, Strikes
    <3> QED BY <3>1, <3>2
  <2> QED BY <2>1, <2>2 DEF Strikes
<1>9. Earned(Struck, StruckOut, "removed")
  <2>1. \A p \in StruckOut : Struck.disconnects[p] \in 0 .. MaxDisconnects /\ MaxDisconnects \in Nat
    BY <1>2, <1>5, <1>6, DisconnectsAssumption DEF Games
  <2>2. \A p \in StruckOut : Struck.disconnects[p] = MaxDisconnects
    BY <1>6, <2>1 DEF UsedUp
  <2> QED BY <1>2, <1>3, <1>5, <1>6, <2>2 DEF Earned
<1>10. StruckOut \in SUBSET Watchers(Struck) /\ StruckOut \subseteq Watchers(game) \ OnlineAt(game)
  BY <1>2, <1>3, <1>5, <1>6 DEF Watchers, OnlineAt
<1> QED BY <1>1, <1>2, <1>5, <1>7, <1>8, <1>9, <1>10

\* Strikes remove only players who are offline, or nobody yet.
LEMMA StrikeIsRemoval ==
    ASSUME Sound(game), Sound(game'), Strike
    PROVE  Shown!Next
<1>1. CASE StruckOut = {}
  <2>1. game' = Struck /\ Live /\ Struck.status = game.status /\ Struck.connected = game.connected
        /\ game \in Games /\ Struck \in Games
    BY <1>1, StrikeFrame DEF Sound
  <2>2. SameTable(game, game')
    BY <2>1 DEF SameTable, Games, Watchers
  <2> QED BY <2>1, <2>2, TableKeptIsPlay DEF Shown!Next
<1>2. CASE StruckOut # {}
  <2>1. /\ Live /\ Running(Struck) /\ Struck \in Games /\ Strikes(Struck, Seats \ StruckOut)
        /\ Earned(Struck, StruckOut, "removed") /\ StruckOut \in SUBSET Watchers(Struck)
        /\ Struck.status = game.status /\ Struck.connected = game.connected
        /\ StruckOut \subseteq Watchers(game) \ OnlineAt(game)
        /\ game' = RemoveAll(Struck, StruckOut, "removed")
    BY <1>2, StrikeFrame
  <2>2. Leaves(Struck, game', StruckOut)
    BY <2>1, RemoveAllTakes DEF Running
  <2>3. Watchers(game') = Watchers(game) \ StruckOut /\ game'.connected = game.connected
    BY <2>1, <2>2 DEF Leaves, Watchers
  <2>4. OnlineAt(game') = OnlineAt(game)
    BY <2>1, <2>3 DEF OnlineAt
  <2>5. Shown!Remove(StruckOut)
    BY <2>1, <2>3, <2>4, EndsInTime DEF Shown!Remove, Shown!MayEnd, OnlineAt, Live
  <2>6. StruckOut \in (SUBSET (Watchers(game) \ OnlineAt(game))) \ {{}}
    BY <1>2, <2>1
  <2> QED BY <2>5, <2>6 DEF Shown!Next, OnlineAt
<1> QED BY <1>1, <1>2

\* A player who leaves walks.
LEMMA LeaveIsWalk ==
    ASSUME Sound(game), Sound(game'), NEW p \in Seats, Leave(p)
    PROVE  Shown!Next
<1>1. /\ Live /\ p \in Watchers(game) /\ game' = RemoveAll(game, {p}, "left") /\ game \in Games
      /\ {p} \in SUBSET Watchers(game) /\ Strikes(game, Seats)
      /\ game.phase \in VotePhases => Ballots(game)
  BY SoundIsTable DEF Leave, Sound
<1>2. Strikes(game, Seats \ {p}) /\ Earned(game, {p}, "left")
  BY <1>1 DEF Strikes, Earned
<1>3. Leaves(game, game', {p})
  BY <1>1, <1>2, RemoveAllTakes
<1>4. OnlineAt(game') = OnlineAt(game) \ {p}
  BY <1>3 DEF Leaves, OnlineAt
<1>5. Shown!Walk(p)
  BY <1>1, <1>3, <1>4, EndsInTime DEF Shown!Walk, Shown!MayEnd, Leaves, OnlineAt, Live
<1> QED BY <1>1, <1>5 DEF Shown!Next

\* A connection that is lost or found is one to the room too, in a match that is over as in one
\* that runs; an ended match does nothing about it.
LEMMA DisconnectIsDrop ==
    ASSUME Sound(game), Sound(game'), NEW p \in Seats, Disconnect(p)
    PROVE  Shown!Next
<1> DEFINE strike2 == IF Live /\ p \in Active(game) THEN ReconnectDuration ELSE game.strike[p]
           h == [game EXCEPT !.connected[p] = FALSE, !.strike[p] = strike2]
<1>1. /\ p \in Watchers(game) /\ game.connected[p] /\ game \in Games /\ Table(game)
      /\ game.phase \in VotePhases => game.candidates \subseteq Active(game)
  BY SoundIsTable DEF Disconnect
<1>2. \/ game.phase = "hints" /\ game' = AwaitReconnect(h)
      \/ game' = MaybeAdvance(h)
  BY <1>1 DEF Disconnect, Games
<1> HIDE DEF strike2
<1>3. /\ h.connected = [game.connected EXCEPT ![p] = FALSE] /\ h.status = game.status /\ DOMAIN h = DOMAIN game
      /\ h.phase = game.phase /\ h.candidates = game.candidates
  BY <1>1 DEF Games
<1> HIDE DEF h
<1>4. Table(h) /\ Watchers(h) = Watchers(game) /\ Active(h) = Active(game)
  BY <1>1, <1>3 DEF Table, Watchers, Active
<1>5. SameTable(h, AwaitReconnect(h)) /\ SameTable(h, MaybeAdvance(h))
  <2>1. SameTable(h, AwaitReconnect(h))
    BY <1>4 DEF SameTable, Table, Watchers, AwaitReconnect
  <2> QED BY <1>1, <1>3, <1>4, <2>1, AdvanceKeepsTable
<1>6. Watchers(game') = Watchers(game) /\ game'.connected = [game.connected EXCEPT ![p] = FALSE]
  BY <1>2, <1>3, <1>4, <1>5 DEF SameTable
<1>7. OnlineAt(game') = OnlineAt(game) \ {p}
  BY <1>1, <1>6 DEF OnlineAt, Games, Watchers
<1>8. ~Live => ~Live'
  <2>1. ~Live => MaybeAdvance(h) = h
    BY <1>3 DEF Live, MaybeAdvance, VotePhases
  <2> QED BY <1>2, <1>3, <2>1 DEF Live
<1>9. Shown!Drop(p)
  BY <1>1, <1>6, <1>7, <1>8, EndsInTime DEF Shown!Drop, Shown!MayEnd, OnlineAt, Live
<1> QED BY <1>1, <1>9 DEF Shown!Next

\* A player who is back is back with the room.
LEMMA ReconnectIsReturn ==
    ASSUME Sound(game), Sound(game'), NEW p \in Seats, Reconnect(p)
    PROVE  Shown!Next
<1> DEFINE h == [game EXCEPT !.connected[p] = TRUE, !.strike[p] = NoTimer]
<1>1. /\ p \in Watchers(game) /\ ~game.connected[p] /\ game \in Games /\ Table(game)
      /\ game.phase \in VotePhases => game.candidates \subseteq Active(game)
  BY SoundIsTable DEF Reconnect
<1>2. \/ game.phase = "hints" /\ game' = ResumeTurn(h)
      \/ game.phase \in VotePhases /\ game' = MaybeAdvance(h)
      \/ game' = h
  BY DEF Reconnect
<1>3. /\ h.connected = [game.connected EXCEPT ![p] = TRUE] /\ h.status = game.status /\ DOMAIN h = DOMAIN game
      /\ h.phase = game.phase /\ h.candidates = game.candidates
  BY <1>1 DEF Games
<1> HIDE DEF h
<1>4. Table(h) /\ Watchers(h) = Watchers(game) /\ Active(h) = Active(game)
  BY <1>1, <1>3 DEF Table, Watchers, Active
<1>5. SameTable(h, h) /\ SameTable(h, ResumeTurn(h)) /\ SameTable(h, MaybeAdvance(h))
  <2>1. SameTable(h, ResumeTurn(h)) /\ SameTable(h, h)
    BY <1>4 DEF SameTable, Table, Watchers, ResumeTurn
  <2> QED BY <1>1, <1>3, <1>4, <2>1, AdvanceKeepsTable
<1>6. Watchers(game') = Watchers(game) /\ game'.connected = [game.connected EXCEPT ![p] = TRUE]
  BY <1>2, <1>3, <1>4, <1>5 DEF SameTable
<1>7. OnlineAt(game') = OnlineAt(game) \cup {p}
  BY <1>1, <1>6 DEF OnlineAt, Games, Watchers
<1>8. ~Live => ~Live'
  BY <1>2, <1>3 DEF Live, VotePhases
<1>9. Shown!Return(p)
  BY <1>1, <1>6, <1>7, <1>8, EndsInTime DEF Shown!Return, Shown!MayEnd, OnlineAt, Live
<1> QED BY <1>1, <1>9 DEF Shown!Next

\* Every other command of a player is play.
LEMMA CommandIsPlay ==
    ASSUME Sound(game), Sound(game'), NEW p \in Seats,
           \/ ConfirmRole(p) \/ SubmitHint(p) \/ SubmitGuess(p) \/ ContinueAfterElimination(p)
           \/ \E target \in Seats : Vote(p, target)
    PROVE  Shown!Next
<1>1. Table(game) /\ game \in Games /\ (game.phase \in VotePhases => game.candidates \subseteq Active(game))
  BY SoundIsTable
<1>2. Live
  BY DEF ConfirmRole, SubmitHint, SubmitGuess, ContinueAfterElimination, Vote, Live, VotePhases
<1>3. ASSUME NEW h \in Games, h.status = game.status, h.connected = game.connected, h.phase = game.phase,
             h.candidates = game.candidates, game' = MaybeAdvance(h)
      PROVE  SameTable(game, game')
  <2>1. Table(h) /\ SameTable(game, h) /\ Active(h) = Active(game)
    BY <1>1, <1>3 DEF Table, SameTable, Watchers, Active, Games
  <2> QED BY <1>1, <1>3, <2>1, AdvanceKeepsTable DEF SameTable
<1>4. SameTable(game, game')
  <2>1. CASE ConfirmRole(p) \/ ContinueAfterElimination(p)
    <3> DEFINE h == [game EXCEPT !.confirmed[p] = TRUE]
    <3>1. /\ h \in Games /\ h.status = game.status /\ h.connected = game.connected /\ h.phase = game.phase
          /\ h.candidates = game.candidates
      BY <1>1 DEF Games
    <3>2. game' = MaybeAdvance(h)
      BY <2>1 DEF ConfirmRole, ContinueAfterElimination
    <3> HIDE DEF h
    <3> QED BY <1>3, <3>1, <3>2
  <2>2. CASE SubmitHint(p)
    BY <1>1, <2>2, PhaseKeepsTable DEF SubmitHint
  <2>3. CASE SubmitGuess(p)
    BY <1>1, <2>3, EndKeepsTable DEF SubmitGuess
  <2>4. ASSUME NEW target \in Seats, Vote(p, target) PROVE SameTable(game, game')
    <3> DEFINE h == [game EXCEPT !.votes[p] = target, !.voteCast = TRUE]
    <3>1. /\ h \in Games /\ h.status = game.status /\ h.connected = game.connected /\ h.phase = game.phase
          /\ h.candidates = game.candidates
      BY <1>1 DEF Games
    <3>2. game' = MaybeAdvance(h)
      BY <2>4 DEF Vote
    <3> HIDE DEF h
    <3> QED BY <1>3, <3>1, <3>2
  <2> QED BY <2>1, <2>2, <2>3, <2>4
<1> QED BY <1>2, <1>4, TableKeptIsPlay DEF Shown!Next

\* Every step of a match is one the room may expect of it, or none.
LEMMA StepIsShown ==
    ASSUME Sound(game), Sound(game'), [Next]_vars
    PROVE  [Shown!Next]_(Shown!vars)
<1>1. CASE Command
  BY <1>1, CommandIsPlay, LeaveIsWalk, DisconnectIsDrop, ReconnectIsReturn, BoundsAssumption DEF Command
<1>2. CASE Strike
  BY <1>2, StrikeIsRemoval
<1>3. CASE Timeout
  <2>1. /\ Table(game) /\ game.phase \in TimedPhases /\ Live
        /\ game.phase \in VotePhases => game.candidates \subseteq Active(game)
    BY <1>3, SoundIsTable DEF Timeout, Sound, Running, Ended, Games, Phases, Live, NoTimer
  <2>2. SameTable(game, game')
    BY <1>3, <2>1, ExpireKeepsTable DEF Timeout
  <2> QED BY <2>1, <2>2, TableKeptIsPlay DEF Shown!Next
<1>4. CASE Elapse
  <2>1. SameTable(game, game') /\ Live
    BY <1>4, SoundIsTable DEF Elapse, SameTable, Table, Watchers
  <2> QED BY <2>1, TableKeptIsPlay DEF Shown!Next
<1>5. CASE UNCHANGED vars
  BY <1>5 DEF vars, Shown!vars, Watchers, Live
<1> QED BY <1>1, <1>2, <1>3, <1>4, <1>5 DEF Next, Tick

-----------------------------------------------------------------------------
\* What the room relies on (syncGame in room.go) every match keeps: nobody joins or comes back
\* to it, only the offline are removed from it, and neither once it is over.
THEOREM RosterIsKept == Spec => KeepsRoster
<1>1. Init => Shown!Init
  <2>1. SUFFICES ASSUME NEW impostor \in Impostors, NEW offline \in SUBSET Flaky,
                        game = NewGame(impostor, offline)
                 PROVE  Shown!Init
    BY DEF Init
  <2>2. game.phase = "role_reveal" /\ game.status = [p \in Seats |-> "active"]
    BY <2>1 DEF NewGame
  <2>3. Watchers(game) = Seats /\ impostor \in Seats /\ Live
    BY <2>2, BoundsAssumption DEF Watchers, Live
  <2> QED BY <2>3 DEF Shown!Init
<1>2. IInv /\ IInv' /\ [Next]_vars => [Shown!Next]_(Shown!vars)
  BY StepIsShown DEF IInv
<1> QED BY <1>1, <1>2, Soundness, PTL DEF Spec, KeepsRoster, Shown!Spec

-----------------------------------------------------------------------------
(* What a match promises *)

\* What Match sees of a match: who plays and who watches, and these.
StageOf(g) == CASE g.phase = "ended" -> "over" [] g.phase = "impostor_guess" -> "guess" [] OTHER -> "rounds"
VoteOf(g) == IF g.phase \notin VotePhases THEN "closed" ELSE IF g.voteCast THEN "heard" ELSE "open"

\* g and h differ in nothing that Match sees but the phase and the state of the vote.
Moved(g, h) ==
    /\ DOMAIN h = DOMAIN g
    /\ h.status = g.status /\ h.impostor = g.impostor
    /\ h.result = g.result /\ h.silentVotes = g.silentVotes

Seen == {"status", "impostor", "result", "silentVotes", "phase", "voteCast"}

\* A new phase is all that changes.
LEMMA PhaseMoves ==
    ASSUME NEW g, Seen \subseteq DOMAIN g, NEW phase
    PROVE  Moved(g, SetPhase(g, phase)) /\ SetPhase(g, phase).phase = phase
BY DEF Seen, Moved, SetPhase

\* Turns and rounds come between votes.
LEMMA TurnMoves ==
    ASSUME NEW g, Seen \subseteq DOMAIN g, NEW i
    PROVE  Moved(g, StartTurn(g, i)) /\ StartTurn(g, i).phase \in {"hints", "pre_voting"}
<1> DEFINE s == SetPhase(g, "hints")
           t == [s EXCEPT !.turn = Min({p \in Active(g) : p >= i}), !.reconnecting = FALSE]
<1>1. Moved(g, s) /\ s.phase = "hints"
  BY PhaseMoves
<1>2. StartTurn(g, i) \in {SetPhase(g, "pre_voting"), t, AwaitReconnect(t)}
  BY DEF StartTurn
<1> HIDE DEF s
<1>3. Moved(g, t) /\ t.phase = "hints"
  BY <1>1 DEF Moved, Seen
<1> HIDE DEF t
<1>4. Moved(g, AwaitReconnect(t)) /\ AwaitReconnect(t).phase = "hints"
  BY <1>3 DEF Moved, Seen, AwaitReconnect
<1> QED BY <1>2, <1>3, <1>4, PhaseMoves

\* A round begins with its first turn.
LEMMA RoundMoves ==
    ASSUME NEW g, Seen \subseteq DOMAIN g
    PROVE  Moved(g, StartRound(g)) /\ StartRound(g).phase \in {"hints", "pre_voting"}
<1> DEFINE h == [g EXCEPT !.lastEliminated = None, !.tied = {}, !.candidates = {}, !.votes = NoVotes]
<1>1. Moved(g, h) /\ Seen \subseteq DOMAIN h
  BY DEF Moved, Seen
<1>2. StartRound(g) = StartTurn(h, 1)
  BY DEF StartRound
<1> HIDE DEF h
<1> QED BY <1>1, <1>2, TurnMoves DEF Moved

\* A vote opens unheard.
LEMMA VotingMoves ==
    ASSUME NEW g, Seen \subseteq DOMAIN g, NEW phase \in VotePhases, NEW candidates
    PROVE  /\ Moved(g, StartVoting(g, phase, candidates))
           /\ StartVoting(g, phase, candidates).phase \in VotePhases
           /\ StartVoting(g, phase, candidates).voteCast = FALSE
<1> DEFINE s == SetPhase(g, phase)
<1>1. Moved(g, s) /\ s.phase = phase
  BY PhaseMoves
<1>2. StartVoting(g, phase, candidates) =
        [s EXCEPT !.reconnecting = FALSE, !.candidates = candidates, !.votes = NoVotes, !.voteCast = FALSE]
  BY DEF StartVoting
<1> HIDE DEF s
<1> QED BY <1>1, <1>2 DEF Moved, Seen

\* A vote that is revealed is closed.
LEMMA RevealMoves ==
    ASSUME NEW g, Seen \subseteq DOMAIN g, NEW p
    PROVE  Moved(g, ShowElimination(g, p)) /\ ShowElimination(g, p).phase = "elimination_reveal"
<1> DEFINE s == SetPhase(g, "elimination_reveal")
<1>1. Moved(g, s) /\ s.phase = "elimination_reveal"
  BY PhaseMoves
<1>2. ShowElimination(g, p) = [s EXCEPT !.lastEliminated = p, !.confirmed = [q \in Seats |-> FALSE]]
  BY DEF ShowElimination
<1> HIDE DEF s
<1> QED BY <1>1, <1>2 DEF Moved, Seen

\* h is g at its end, with this winner.
Finished(g, h, winner) ==
    /\ h.status = g.status /\ h.impostor = g.impostor /\ h.silentVotes = g.silentVotes
    /\ h.phase = "ended" /\ h.result.winner = winner

\* A verdict is all that an end adds.
LEMMA EndFinishes ==
    ASSUME NEW g, Seen \subseteq DOMAIN g, g.result = Undecided, NEW winner, NEW reason
    PROVE  Finished(g, End(g, winner, reason), winner)
<1> DEFINE r == [winner |-> winner, reason |-> reason,
                 outcome |-> [p \in Seats |-> Outcome(g, winner, reason, p)]]
<1>1. r.winner = winner
  OBVIOUS
<1>2. End(g, winner, reason) =
        [g EXCEPT !.phase = "ended", !.deadline = NoTimer, !.turnLeft = 0, !.reconnecting = FALSE, !.result = r]
  BY DEF End
<1> HIDE DEF r
<1> QED BY <1>1, <1>2 DEF Finished, Seen

-----------------------------------------------------------------------------
(* What a method is to Match, of the match before and after it *)

\* A match that may go on, whatever its connections.
AtPlay(g) ==
    /\ g \in Games
    /\ g.result = Undecided
    /\ g.phase # "ended"
    /\ g.impostor \in Active(g)
    /\ g.silentVotes < MaxSilentVotes
    /\ Cardinality(Citizens(g)) >= 2

\* Match sees no difference.
Same(g, k) ==
    /\ k.status = g.status /\ k.impostor = g.impostor /\ k.silentVotes = g.silentVotes
    /\ StageOf(k) = StageOf(g) /\ VoteOf(k) = VoteOf(g)
    /\ k.result.winner = g.result.winner

\* Once `left' are left to play, the match is over or what is left of it goes on.
Decided(g, k, left) ==
    \/ /\ g.impostor \notin left
       /\ k.phase = "ended" /\ k.result.winner = "citizens"
    \/ /\ g.impostor \in left /\ StageOf(g) = "rounds" /\ Cardinality(left \ {g.impostor}) <= 1
       /\ k.phase = "ended" /\ k.result.winner = "impostor"

GoesOn(g, k, left) ==
    /\ g.impostor \in left
    /\ ~(StageOf(g) = "rounds" /\ Cardinality(left \ {g.impostor}) <= 1)
    /\ StageOf(k) = StageOf(g) /\ k.result.winner = g.result.winner

\* `gone' have left.
Departed(g, k, gone) ==
    /\ StageOf(g) # "over"
    /\ Active(k) = Active(g) \ gone /\ Watchers(k) = Watchers(g) \ gone
    /\ k.impostor = g.impostor /\ k.silentVotes = g.silentVotes
    /\ \/ Decided(g, k, Active(g) \ gone)
       \/ GoesOn(g, k, Active(g) \ gone) /\ VoteOf(k) = VoteOf(g)

\* A citizen is voted out once `gone' have left the vote.
CitizenOut(g, k, gone) ==
    \E c \in Active(g) \ (gone \cup {g.impostor}) :
        /\ Active(k) = Active(g) \ (gone \cup {c}) /\ Watchers(k) = Watchers(g) \ gone
        /\ \/ Decided(g, k, Active(g) \ (gone \cup {c}))
           \/ GoesOn(g, k, Active(g) \ (gone \cup {c})) /\ VoteOf(k) = "closed"

\* Nobody is: the impostor is caught, or the vote was tied or empty.
NobodyOut(g, k, gone) ==
    /\ Active(k) = Active(g) \ gone /\ Watchers(k) = Watchers(g) \ gone
    /\ k.result.winner = g.result.winner
    /\ \/ k.phase = "impostor_guess"
       \/ k.phase \notin {"impostor_guess", "ended"} /\ VoteOf(k) \in {"open", "closed"}

\* A vote somebody spoke in has closed once `gone' had left it.
Counted(g, k, gone) ==
    /\ g.phase \in VotePhases
    /\ g.impostor \in Active(g) \ gone
    /\ Cardinality(Active(g) \ (gone \cup {g.impostor})) >= 2
    /\ k.impostor = g.impostor /\ k.silentVotes = 0
    /\ CitizenOut(g, k, gone) \/ NobodyOut(g, k, gone)

\* A vote nobody spoke in has closed.
Hushed(g, k) ==
    /\ g.phase \in VotePhases /\ ~g.voteCast
    /\ Active(k) = Active(g) /\ Watchers(k) = Watchers(g)
    /\ k.impostor = g.impostor /\ k.silentVotes = g.silentVotes + 1
    /\ k.result.winner = g.result.winner
    /\ \/ g.silentVotes = 1 /\ k.phase = "ended"
       \/ g.silentVotes # 1 /\ k.phase \in {"hints", "pre_voting"}

\* While the impostor plays, one citizen left is what parity means, and without parity three
\* players are left, so that too few of them end no match.
LEMMA Outnumbering ==
    ASSUME NEW g \in Games, g.impostor \in Active(g)
    PROVE  /\ Citizens(g) = Active(g) \ {g.impostor}
           /\ Outnumbered(g) <=> Cardinality(Citizens(g)) <= 1
           /\ ~Outnumbered(g) => ~TooFew(g)
<1>1. Citizens(g) = Active(g) \ {g.impostor}
  BY DEF Citizens
<1>2. ActiveImpostors(g) = {g.impostor} /\ Active(g) \in SUBSET Seats
  BY DEF ActiveImpostors, Active
<1>3. Cardinality(ActiveImpostors(g)) = 1 /\ Cardinality(Citizens(g)) \in Nat /\ IsFiniteSet(Active(g))
      /\ Cardinality(Active(g)) \in Nat
  BY <1>1, <1>2, FS_Singleton, CountsAreNatural
<1>4. Outnumbered(g) <=> Cardinality(Citizens(g)) <= 1
  BY <1>3 DEF Outnumbered
<1>5. Cardinality(Citizens(g)) = Cardinality(Active(g)) - 1
  BY <1>1, <1>3, FS_RemoveElement
<1> QED BY <1>1, <1>3, <1>4, <1>5 DEF TooFew, MinPlayersToContinue

\* A citizen voted out decides the match or not.
LEMMA EliminateDecides ==
    ASSUME NEW g, AtPlay(g), NEW p \in Active(g) \ {g.impostor}
    PROVE  LET k == Eliminate(g, p) IN
           /\ Active(k) = Active(g) \ {p} /\ Watchers(k) = Watchers(g)
           /\ k.impostor = g.impostor /\ k.silentVotes = g.silentVotes
           /\ \/ /\ Cardinality(Active(g) \ {p, g.impostor}) <= 1
                 /\ k.phase = "ended" /\ k.result.winner = "impostor"
              \/ /\ ~(Cardinality(Active(g) \ {p, g.impostor}) <= 1)
                 /\ k.phase = "elimination_reveal" /\ k.result = g.result
<1> DEFINE out == [g EXCEPT !.status[p] = "eliminated"]
           k == Eliminate(g, p)
<1>1. /\ out \in Games /\ out.status = [g.status EXCEPT ![p] = "eliminated"] /\ Seen \subseteq DOMAIN out
      /\ out.impostor = g.impostor /\ out.result = g.result /\ out.silentVotes = g.silentVotes
  BY DEF AtPlay, Games, Statuses, Active, Seen
<1>2. k = IF Outnumbered(out) THEN End(out, "impostor", "impostor_parity")
          ELSE IF TooFew(out) THEN End(out, "none", "not_enough_players")
          ELSE ShowElimination(out, p)
  BY DEF Eliminate
<1>3. g.status \in [Seats -> Statuses] /\ p \in Seats /\ g.status[p] = "active" /\ g.result = Undecided
      /\ g.impostor \in Active(g)
  BY DEF AtPlay, Games, Active
<1> HIDE DEF out, k
<1>4. Active(out) = Active(g) \ {p} /\ Watchers(out) = Watchers(g)
  BY <1>1, <1>3 DEF Active, Watchers
<1>5. out.impostor \in Active(out)
  BY <1>1, <1>3, <1>4
<1>6. Citizens(out) = Active(g) \ {p, g.impostor}
  BY <1>1, <1>4 DEF Citizens
<1>7. CASE Outnumbered(out)
  <2>1. Finished(out, k, "impostor")
    BY <1>1, <1>2, <1>3, <1>7, EndFinishes
  <2>2. Active(k) = Active(out) /\ Watchers(k) = Watchers(out)
    BY <2>1 DEF Finished, Active, Watchers
  <2>3. Cardinality(Active(g) \ {p, g.impostor}) <= 1
    BY <1>1, <1>5, <1>6, <1>7, Outnumbering
  <2> QED BY <1>1, <1>4, <2>1, <2>2, <2>3 DEF Finished, k
<1>8. CASE ~Outnumbered(out)
  <2>1. k = ShowElimination(out, p) /\ ~(Cardinality(Active(g) \ {p, g.impostor}) <= 1)
    BY <1>1, <1>2, <1>5, <1>6, <1>8, Outnumbering
  <2>2. Moved(out, k) /\ k.phase = "elimination_reveal"
    BY <1>1, <2>1, RevealMoves
  <2>3. Active(k) = Active(out) /\ Watchers(k) = Watchers(out)
    BY <2>2 DEF Moved, Active, Watchers
  <2> QED BY <1>1, <1>4, <2>1, <2>2, <2>3 DEF Moved, k
<1> QED BY <1>7, <1>8

\* Without a ballot there is no top candidate.
LEMMA NoBallotNoTop ==
    ASSUME NEW g \in Games, Voted(g) = {}
    PROVE  Top(g) = {}
<1>1. ASSUME NEW c \in g.candidates PROVE Count(g, c) = 0
  <2>1. c \in Seats /\ c # None
    BY <1>1, PlayersAssumption DEF Games, Seats, None, MinPlayersToStart, MaxPlayers
  <2>2. {v \in Seats : g.votes[v] = c} = {}
    BY <2>1 DEF Voted
  <2> QED BY <2>2, FS_EmptySet DEF Count
<1> QED BY <1>1 DEF Top

\* A vote nobody spoke in starts a new round, or calls the match off if it is the second.
LEMMA TallyHushes ==
    ASSUME NEW g, AtPlay(g), g.phase \in VotePhases, Silent(g)
    PROVE  Hushed(g, Tally(g))
<1> DEFINE h == [g EXCEPT !.silentVotes = IF Silent(g) THEN @ + 1 ELSE 0]
           k == Tally(g)
<1>1. /\ h.silentVotes = g.silentVotes + 1 /\ h.status = g.status /\ h.impostor = g.impostor
      /\ h.result = g.result /\ Seen \subseteq DOMAIN h /\ g.silentVotes \in {0, 1} /\ g \in Games
      /\ g.result = Undecided /\ ~g.voteCast
  BY DEF AtPlay, Games, MaxSilentVotes, Seen, Silent
<1>2. Top(g) = {}
  BY <1>1, NoBallotNoTop DEF Silent
<1>3. k = IF h.silentVotes >= MaxSilentVotes THEN End(h, "none", "abandoned") ELSE StartRound(h)
  BY <1>2 DEF Tally
<1> HIDE DEF h, k
<1>4. CASE g.silentVotes = 1
  <2>1. Finished(h, k, "none")
    BY <1>1, <1>3, <1>4, EndFinishes DEF MaxSilentVotes
  <2> QED BY <1>1, <1>4, <2>1 DEF Finished, Hushed, Active, Watchers, Undecided, k
<1>5. CASE g.silentVotes = 0
  <2>1. Moved(h, k) /\ k.phase \in {"hints", "pre_voting"}
    BY <1>1, <1>3, <1>5, RoundMoves DEF MaxSilentVotes
  <2> QED BY <1>1, <1>5, <2>1 DEF Moved, Hushed, Active, Watchers, k
<1> QED BY <1>1, <1>4, <1>5

\* A vote somebody spoke in votes a citizen out or nobody.
LEMMA TallyCounts ==
    ASSUME NEW g, AtPlay(g), Ballots(g), g.phase \in VotePhases, ~Silent(g)
    PROVE  Counted(g, Tally(g), {})
<1> DEFINE h == [g EXCEPT !.silentVotes = IF Silent(g) THEN @ + 1 ELSE 0]
           top == Top(g)
           tie == [h EXCEPT !.tied = top]
           k == Tally(g)
<1>1. /\ h.silentVotes = 0 /\ h.phase = g.phase /\ SameStanding(g, h) /\ h \in Games
      /\ h.result = g.result /\ Seen \subseteq DOMAIN h
  BY DEF AtPlay, Games, SameStanding, MaxSilentVotes, Seen
<1>2. top \in SUBSET Active(g) /\ Cardinality(Citizens(g)) >= 2 /\ g.impostor \in Active(g)
  BY DEF Top, Ballots, AtPlay
<1>3. k =
        IF h.silentVotes >= MaxSilentVotes THEN End(h, "none", "abandoned")
        ELSE IF top = {} THEN StartRound(h)
        ELSE IF top = {g.impostor} THEN SetPhase(h, "impostor_guess")
        ELSE IF \E c \in Seats : top = {c} THEN Eliminate(h, CHOOSE c \in top : TRUE)
        ELSE IF g.phase = "voting" THEN StartVoting(h, "runoff_voting", top)
        ELSE ShowElimination(tie, None)
  BY DEF Tally
<1> HIDE DEF h, k
<1>4. Moved(h, tie) /\ Seen \subseteq DOMAIN tie
  BY <1>1 DEF Moved, Seen
<1> HIDE DEF top, tie
<1>5. Active(h) = Active(g) /\ Watchers(h) = Watchers(g) /\ Citizens(h) = Citizens(g)
  BY <1>1, StandingCarriesOver
<1>6. AtPlay(h)
  BY <1>1, <1>2, <1>5 DEF AtPlay, SameStanding, MaxSilentVotes
<1>7. /\ Active(g) \ {} = Active(g) /\ Watchers(g) \ {} = Watchers(g)
      /\ Active(g) \ ({} \cup {g.impostor}) = Citizens(g) /\ h.impostor = g.impostor
  BY <1>1 DEF Citizens, SameStanding
<1>8. CASE \E c \in Seats : top = {c} /\ c # g.impostor
  <2>1. PICK c \in Seats : top = {c} /\ c # g.impostor
    BY <1>8
  <2>2. k = Eliminate(h, c)
    <3>1. (CHOOSE x \in top : TRUE) = c
      BY <2>1
    <3>2. ~(h.silentVotes >= MaxSilentVotes) /\ top # {} /\ top # {g.impostor}
      BY <1>1, <2>1 DEF MaxSilentVotes
    <3> QED BY <1>3, <2>1, <3>1, <3>2
  <2>3. c \in Active(h) \ {h.impostor} /\ c \in Active(g) \ ({} \cup {g.impostor})
    BY <1>2, <1>5, <1>7, <2>1
  <2>4. /\ Active(k) = Active(h) \ {c} /\ Watchers(k) = Watchers(h)
        /\ k.impostor = h.impostor /\ k.silentVotes = h.silentVotes
        /\ \/ /\ Cardinality(Active(h) \ {c, h.impostor}) <= 1
              /\ k.phase = "ended" /\ k.result.winner = "impostor"
           \/ /\ ~(Cardinality(Active(h) \ {c, h.impostor}) <= 1)
              /\ k.phase = "elimination_reveal" /\ k.result = h.result
    BY <1>6, <2>2, <2>3, EliminateDecides
  <2>5. /\ Active(k) = Active(g) \ ({} \cup {c}) /\ Watchers(k) = Watchers(g) \ {}
        /\ (Active(g) \ ({} \cup {c})) \ {g.impostor} = Active(g) \ {c, g.impostor}
        /\ g.impostor \in Active(g) \ ({} \cup {c})
    BY <1>2, <1>5, <2>1, <2>4
  <2>6. StageOf(g) = "rounds" /\ (k.phase = "elimination_reveal" => StageOf(k) = "rounds" /\ VoteOf(k) = "closed")
    BY DEF StageOf, VoteOf, VotePhases
  <2>7. \/ Decided(g, k, Active(g) \ ({} \cup {c}))
        \/ GoesOn(g, k, Active(g) \ ({} \cup {c})) /\ VoteOf(k) = "closed"
    BY <1>1, <1>5, <1>7, <2>4, <2>5, <2>6 DEF Decided, GoesOn
  <2>8. CitizenOut(g, k, {})
    BY <2>3, <2>5, <2>7 DEF CitizenOut
  <2> QED BY <1>1, <1>2, <1>7, <2>4, <2>8 DEF Counted, k
<1>9. CASE ~\E c \in Seats : top = {c} /\ c # g.impostor
  <2>1. g.impostor \in Seats
    BY <1>2 DEF Active
  <2>2. k \in {StartRound(h), SetPhase(h, "impostor_guess"), StartVoting(h, "runoff_voting", top),
               ShowElimination(tie, None)}
    <3>1. ~(h.silentVotes >= MaxSilentVotes)
      BY <1>1 DEF MaxSilentVotes
    <3> QED BY <1>3, <1>9, <2>1, <3>1
  <2>3. /\ Moved(h, StartRound(h)) /\ StartRound(h).phase \in {"hints", "pre_voting"}
        /\ Moved(h, SetPhase(h, "impostor_guess")) /\ SetPhase(h, "impostor_guess").phase = "impostor_guess"
    BY <1>1, RoundMoves, PhaseMoves
  <2>4. /\ Moved(h, StartVoting(h, "runoff_voting", top))
        /\ StartVoting(h, "runoff_voting", top).phase \in VotePhases
        /\ StartVoting(h, "runoff_voting", top).voteCast = FALSE
    <3>1. "runoff_voting" \in VotePhases
      BY DEF VotePhases
    <3> QED BY <1>1, <3>1, VotingMoves
  <2>5. Moved(tie, ShowElimination(tie, None)) /\ ShowElimination(tie, None).phase = "elimination_reveal"
    BY <1>4, RevealMoves
  <2>6. Moved(h, k)
    BY <1>4, <2>2, <2>3, <2>4, <2>5 DEF Moved
  <2>7. \/ k.phase = "impostor_guess"
        \/ k.phase \in {"hints", "pre_voting", "elimination_reveal"}
        \/ k.phase \in VotePhases /\ k.voteCast = FALSE
    BY <2>2, <2>3, <2>4, <2>5
  <2>8. \/ k.phase = "impostor_guess"
        \/ k.phase \notin {"impostor_guess", "ended"} /\ VoteOf(k) \in {"open", "closed"}
    BY <2>7 DEF VoteOf, VotePhases
  <2>9. Active(k) = Active(g) /\ Watchers(k) = Watchers(g) /\ k.impostor = g.impostor /\ k.silentVotes = 0
        /\ k.result = g.result
    BY <1>1, <1>5, <1>7, <2>6 DEF Moved, Active, Watchers
  <2>10. NobodyOut(g, k, {})
    BY <1>7, <2>8, <2>9 DEF NobodyOut
  <2> QED BY <1>2, <1>7, <2>9, <2>10 DEF Counted, k
<1> QED BY <1>8, <1>9

\* A complete vote is never a silent one.
LEMMA AdvanceCounts ==
    ASSUME NEW g, Seen \subseteq DOMAIN g, g.phase \in VotePhases => AtPlay(g) /\ Ballots(g)
    PROVE  Same(g, MaybeAdvance(g)) \/ Counted(g, MaybeAdvance(g), {})
<1>1. CASE g.phase \in VotePhases /\ AllConnectedVoted(g)
  <2>1. MaybeAdvance(g) = Tally(g) /\ ~Silent(g)
    BY <1>1 DEF MaybeAdvance, AllConnectedVoted, Silent, VotePhases
  <2> QED BY <1>1, <2>1, TallyCounts
<1>2. CASE ~(g.phase \in VotePhases /\ AllConnectedVoted(g))
  <2>1. \/ MaybeAdvance(g) = g
        \/ g.phase \in {"role_reveal", "elimination_reveal"} /\ MaybeAdvance(g) \in {StartTurn(g, 1), StartRound(g)}
    BY <1>2 DEF MaybeAdvance
  <2>2. /\ Moved(g, StartTurn(g, 1)) /\ StartTurn(g, 1).phase \in {"hints", "pre_voting"}
        /\ Moved(g, StartRound(g)) /\ StartRound(g).phase \in {"hints", "pre_voting"}
    BY TurnMoves, RoundMoves
  <2> QED BY <2>1, <2>2 DEF Same, Moved, StageOf, VoteOf, VotePhases
<1> QED BY <1>1, <1>2

\* What Match does not see may change first: the ballots, the acknowledgements, the strikes.
LEMMA CountedFrom ==
    ASSUME NEW g, NEW h, NEW k, h.status = g.status, h.impostor = g.impostor,
           h.result.winner = g.result.winner, h.phase = g.phase, NEW gone, Counted(h, k, gone)
    PROVE  Counted(g, k, gone)
<1>1. Active(h) = Active(g) /\ Watchers(h) = Watchers(g) /\ StageOf(h) = StageOf(g)
  BY DEF Active, Watchers, StageOf
<1>2. CASE CitizenOut(h, k, gone)
  <2>1. CitizenOut(g, k, gone)
    BY <1>1, <1>2 DEF CitizenOut, Decided, GoesOn
  <2> QED BY <1>1, <2>1 DEF Counted
<1>3. CASE NobodyOut(h, k, gone)
  BY <1>1, <1>3 DEF Counted, NobodyOut
<1> QED BY <1>2, <1>3 DEF Counted

\* A vote that only waited for `gone' is counted without them.
LEMMA CountedWithout ==
    ASSUME NEW g, NEW gone, NEW h, NEW k,
           Active(h) = Active(g) \ gone, Watchers(h) = Watchers(g) \ gone,
           h.impostor = g.impostor, h.result = g.result, h.phase = g.phase,
           Counted(h, k, {})
    PROVE  Counted(g, k, gone)
<1>1. /\ g.phase \in VotePhases /\ g.impostor \in Active(g) \ gone
      /\ Active(h) \ ({} \cup {g.impostor}) = Active(g) \ (gone \cup {g.impostor})
      /\ Cardinality(Active(g) \ (gone \cup {g.impostor})) >= 2
      /\ k.impostor = g.impostor /\ k.silentVotes = 0 /\ StageOf(h) = StageOf(g)
  <2>1. Active(h) \ ({} \cup {g.impostor}) = Active(g) \ (gone \cup {g.impostor})
    OBVIOUS
  <2> QED BY <2>1 DEF Counted, StageOf
<1>2. CASE CitizenOut(h, k, {})
  <2>1. PICK c \in Active(h) \ ({} \cup {h.impostor}) :
          /\ Active(k) = Active(h) \ ({} \cup {c}) /\ Watchers(k) = Watchers(h) \ {}
          /\ \/ Decided(h, k, Active(h) \ ({} \cup {c}))
             \/ GoesOn(h, k, Active(h) \ ({} \cup {c})) /\ VoteOf(k) = "closed"
    BY <1>2 DEF CitizenOut
  <2>2. Active(h) \ ({} \cup {c}) = Active(g) \ (gone \cup {c}) /\ c \in Active(g) \ (gone \cup {g.impostor})
    BY <1>1, <2>1
  <2>3. Watchers(k) = Watchers(g) \ gone /\ Active(k) = Active(g) \ (gone \cup {c})
    BY <2>1, <2>2
  <2>4. \/ Decided(g, k, Active(g) \ (gone \cup {c}))
        \/ GoesOn(g, k, Active(g) \ (gone \cup {c})) /\ VoteOf(k) = "closed"
    BY <1>1, <2>1, <2>2 DEF Decided, GoesOn
  <2>5. CitizenOut(g, k, gone)
    BY <2>2, <2>3, <2>4 DEF CitizenOut
  <2> QED BY <1>1, <2>5 DEF Counted
<1>3. CASE NobodyOut(h, k, {})
  <2>1. NobodyOut(g, k, gone)
    BY <1>3 DEF NobodyOut
  <2> QED BY <1>1, <2>1 DEF Counted
<1> QED BY <1>2, <1>3 DEF Counted

\* Players leave or are removed: Match sees them go, or the vote close that only they kept open.
LEMMA RemoveAllDeparts ==
    ASSUME NEW g \in Games, NEW gone \in SUBSET Watchers(g), NEW status \in {"left", "removed"},
           Running(g), Strikes(g, Seats \ gone),
           Earned(g, gone, status)
    PROVE  Departed(g, RemoveAll(g, gone, status), gone) \/ Counted(g, RemoveAll(g, gone, status), gone)
<1> DEFINE h == Without(g, gone, status)
           k == RemoveAll(g, gone, status)
<1>1. k =
        IF g.impostor \in gone THEN End(h, "citizens", "impostor_gone")
        ELSE IF g.phase = "impostor_guess" THEN h
        ELSE IF ActiveImpostors(h) # {} /\ Outnumbered(h) THEN End(h, "impostor", "impostor_parity")
        ELSE IF TooFew(h) THEN End(h, "none", "not_enough_players")
        ELSE IF g.phase = "hints" /\ g.turn \in gone THEN StartTurn(h, g.turn + 1)
        ELSE MaybeAdvance(h)
  BY DEF RemoveAll, Without
<1>2. h = Without(g, gone, status)
  OBVIOUS
<1>3. Watchers(h) = Watchers(g) \ gone /\ h.voteCast = g.voteCast
  BY DEF Without, DropBallots, Watchers, Games
<1> HIDE DEF h, k
<1>4. /\ h \in Games
      /\ Strikes(h, Seats)
      /\ Active(h) = Active(g) \ gone
      /\ Ballots(g) => Ballots(h)
      /\ h.impostor = g.impostor /\ h.connected = g.connected /\ h.phase = g.phase
      /\ h.result = g.result /\ h.silentVotes = g.silentVotes /\ h.deadline = g.deadline
      /\ h.turn = g.turn /\ h.turnLeft = g.turnLeft /\ h.reconnecting = g.reconnecting
  BY <1>2, GoneFrame
<1>5. Seen \subseteq DOMAIN h /\ h.result = Undecided /\ StageOf(g) # "over"
  BY <1>4 DEF Running, Games, Seen, StageOf
<1>6. StageOf(h) = StageOf(g) /\ VoteOf(h) = VoteOf(g)
  BY <1>3, <1>4 DEF StageOf, VoteOf
<1>7. ASSUME Finished(h, k, k.result.winner), Decided(g, k, Active(g) \ gone) PROVE Departed(g, k, gone)
  <2>1. Active(k) = Active(h) /\ Watchers(k) = Watchers(h)
    BY <1>7 DEF Finished, Active, Watchers
  <2> QED BY <1>3, <1>4, <1>5, <1>7, <2>1 DEF Departed, Finished
<1>8. ASSUME Same(h, k), GoesOn(g, h, Active(g) \ gone) PROVE Departed(g, k, gone)
  <2>1. Active(k) = Active(h) /\ Watchers(k) = Watchers(h)
    BY <1>8 DEF Same, Active, Watchers
  <2> QED BY <1>3, <1>4, <1>5, <1>6, <1>8, <2>1 DEF Departed, Same, GoesOn
<1>9. CASE g.impostor \in gone
  <2>1. Finished(h, k, "citizens")
    BY <1>1, <1>5, <1>9, EndFinishes
  <2> QED BY <1>7, <1>9, <2>1 DEF Finished, Decided, k
<1>10. CASE g.impostor \notin gone
  <2>1. h.impostor \in Active(h) /\ g.impostor \in Active(g) \ gone
    BY <1>4, <1>10 DEF Running
  <2>2. ActiveImpostors(h) # {}
    BY <2>1 DEF ActiveImpostors
  <2>3. /\ Citizens(h) = (Active(g) \ gone) \ {g.impostor}
        /\ Outnumbered(h) <=> Cardinality(Citizens(h)) <= 1
        /\ ~Outnumbered(h) => ~TooFew(h)
    BY <1>4, <2>1, Outnumbering
  <2>4. CASE g.phase = "impostor_guess"
    <3>1. k = h /\ StageOf(g) # "rounds"
      BY <1>1, <1>10, <2>4 DEF StageOf
    <3>2. Same(h, k) /\ GoesOn(g, h, Active(g) \ gone)
      BY <1>4, <1>6, <2>1, <3>1 DEF Same, GoesOn
    <3> QED BY <1>8, <3>2 DEF k
  <2>5. CASE g.phase # "impostor_guess" /\ Outnumbered(h)
    <3>1. Finished(h, k, "impostor")
      BY <1>1, <1>5, <1>10, <2>2, <2>5, EndFinishes
    <3>2. StageOf(g) = "rounds"
      BY <2>5 DEF StageOf, Running
    <3>3. Cardinality((Active(g) \ gone) \ {g.impostor}) <= 1
      BY <2>3, <2>5
    <3> QED BY <1>7, <2>1, <3>1, <3>2, <3>3 DEF Finished, Decided, k
  <2>6. CASE g.phase # "impostor_guess" /\ ~Outnumbered(h)
    <3>1. AtPlay(h)
      BY <1>4, <1>5, <2>1, <2>6, TwoCitizens DEF AtPlay, Running
    <3>2. GoesOn(g, h, Active(g) \ gone)
      BY <1>4, <1>6, <2>1, <2>3, <2>6 DEF GoesOn
    <3>3. CASE g.phase = "hints" /\ g.turn \in gone
      <4>1. k = StartTurn(h, g.turn + 1)
        BY <1>1, <1>10, <2>3, <2>6, <3>3
      <4>2. Moved(h, k) /\ k.phase \in {"hints", "pre_voting"}
        BY <1>5, <4>1, TurnMoves
      <4>3. Same(h, k)
        BY <1>4, <3>3, <4>2 DEF Moved, Same, StageOf, VoteOf, VotePhases
      <4> QED BY <1>8, <3>2, <4>3 DEF k
    <3>4. CASE ~(g.phase = "hints" /\ g.turn \in gone)
      <4>1. k = MaybeAdvance(h)
        BY <1>1, <1>10, <2>3, <2>6, <3>4
      <4>2. h.phase \in VotePhases => AtPlay(h) /\ Ballots(h)
        BY <1>4, <3>1 DEF Running
      <4>3. Same(h, k) \/ Counted(h, k, {})
        BY <1>5, <4>1, <4>2, AdvanceCounts
      <4>4. Counted(h, k, {}) => Counted(g, k, gone)
        BY <1>3, <1>4, CountedWithout
      <4> QED BY <1>8, <3>2, <4>3, <4>4 DEF k
    <3> QED BY <3>3, <3>4
  <2> QED BY <2>4, <2>5, <2>6
<1> QED BY <1>9, <1>10

\* As CountedFrom, for players who leave.
LEMMA DepartedFrom ==
    ASSUME NEW g, NEW h, NEW k, h.status = g.status, h.impostor = g.impostor, h.silentVotes = g.silentVotes,
           h.result = g.result, h.phase = g.phase, h.voteCast = g.voteCast, NEW gone, Departed(h, k, gone)
    PROVE  Departed(g, k, gone)
<1>1. Active(h) = Active(g) /\ Watchers(h) = Watchers(g) /\ StageOf(h) = StageOf(g) /\ VoteOf(h) = VoteOf(g)
  BY DEF Active, Watchers, StageOf, VoteOf
<1>2. GoesOn(h, k, Active(g) \ gone) => GoesOn(g, k, Active(g) \ gone)
  BY <1>1 DEF GoesOn
<1>3. Decided(h, k, Active(g) \ gone) => Decided(g, k, Active(g) \ gone)
  BY <1>1 DEF Decided
<1> QED BY <1>1, <1>2, <1>3 DEF Departed

-----------------------------------------------------------------------------
(* What a step of a match is to Match *)

\* Match sees a match as StageOf and VoteOf say.
LEMMA SeenByMatch ==
    /\ Stage = StageOf(game) /\ Stage' = StageOf(game')
    /\ VoteState = VoteOf(game) /\ VoteState' = VoteOf(game')
BY DEF Stage, StageOf, VoteState, VoteOf

\* It counts players as this module does.
LEMMA CountedByMatch ==
    ASSUME NEW S
    PROVE  Promise!Cardinality(S) = Cardinality(S)
BY DEF Promise!Cardinality, Cardinality

\* A step Match does not see.
LEMMA SameIsNoStep ==
    ASSUME Same(game, game')
    PROVE  UNCHANGED Promise!vars
<1>1. Active(game') = Active(game) /\ Watchers(game') = Watchers(game)
  BY DEF Same, Active, Watchers
<1> QED BY <1>1, SeenByMatch DEF Same, Promise!vars

\* Players who leave depart.
LEMMA DepartedIsStep ==
    ASSUME NEW gone \in SUBSET Watchers(game), Departed(game, game', gone)
    PROVE  Promise!Next
<1>1. Active(game) \subseteq Watchers(game)
  BY DEF Active, Watchers
<1>2. (Watchers(game') \ Active(game')) = (Watchers(game) \ Active(game)) \ gone
  BY <1>1 DEF Departed
<1>3. gone \in SUBSET (Active(game) \cup (Watchers(game) \ Active(game)))
  BY <1>1
<1>4. CASE Decided(game, game', Active(game) \ gone)
  <2>1. StageOf(game') = "over" /\ VoteOf(game') = "closed"
    BY <1>4 DEF Decided, StageOf, VoteOf, VotePhases
  <2>2. Promise!Depart(gone)
    BY <1>2, <1>4, <2>1, SeenByMatch, CountedByMatch DEF Departed, Decided, Promise!Depart, Promise!Settle
  <2> QED BY <1>3, <2>2 DEF Promise!Next
<1>5. CASE GoesOn(game, game', Active(game) \ gone) /\ VoteOf(game') = VoteOf(game)
  <2>1. Promise!Depart(gone)
    BY <1>2, <1>5, SeenByMatch, CountedByMatch DEF Departed, GoesOn, Promise!Depart, Promise!Settle
  <2> QED BY <1>3, <2>1 DEF Promise!Next
<1> QED BY <1>4, <1>5 DEF Departed

\* A vote that is counted votes a citizen out, catches the impostor or stays undecided.
LEMMA CountedIsStep ==
    ASSUME NEW gone \in SUBSET Watchers(game), Counted(game, game', gone)
    PROVE  Promise!Next
<1>1. Active(game) \subseteq Watchers(game)
  BY DEF Active, Watchers
<1>2. gone \in SUBSET (Active(game) \cup (Watchers(game) \ Active(game)))
  BY <1>1
<1>3. StageOf(game) = "rounds" /\ VoteOf(game) # "closed"
  BY DEF Counted, StageOf, VoteOf, VotePhases
<1>4. Promise!CloseVote(gone)
  <2>1. /\ Stage = "rounds" /\ VoteState # "closed"
    BY <1>3, SeenByMatch
  <2>2. game.impostor \in Active(game) \ gone /\ game'.silentVotes = 0
    BY DEF Counted
  <2>3. Cardinality(Active(game) \ (gone \cup {game.impostor})) >= 2
    BY DEF Counted
  <2> QED BY <2>1, <2>2, <2>3, CountedByMatch DEF Promise!CloseVote
<1>5. CASE CitizenOut(game, game', gone)
  <2>1. PICK c \in Active(game) \ (gone \cup {game.impostor}) :
          /\ Active(game') = Active(game) \ (gone \cup {c}) /\ Watchers(game') = Watchers(game) \ gone
          /\ \/ Decided(game, game', Active(game) \ (gone \cup {c}))
             \/ GoesOn(game, game', Active(game) \ (gone \cup {c})) /\ VoteOf(game') = "closed"
    BY <1>5 DEF CitizenOut
  <2>2. Watchers(game') \ Active(game') = ((Watchers(game) \ Active(game)) \ gone) \cup {c}
    BY <1>1, <2>1
  <2>3. game.impostor \in Active(game) \ (gone \cup {c}) /\ game'.impostor = game.impostor
    BY <2>1 DEF Counted
  <2>4. Promise!Settle(Active(game) \ (gone \cup {c}), "closed")
    <3>1. CASE Decided(game, game', Active(game) \ (gone \cup {c}))
      <4>1. StageOf(game') = "over" /\ VoteOf(game') = "closed"
        BY <3>1 DEF Decided, StageOf, VoteOf, VotePhases
      <4> QED BY <1>3, <2>1, <2>3, <3>1, <4>1, SeenByMatch, CountedByMatch DEF Decided, Promise!Settle
    <3>2. CASE GoesOn(game, game', Active(game) \ (gone \cup {c})) /\ VoteOf(game') = "closed"
      BY <1>3, <2>1, <2>3, <3>2, SeenByMatch, CountedByMatch DEF GoesOn, Promise!Settle
    <3> QED BY <2>1, <3>1, <3>2
  <2>5. Promise!VoteOut(gone, c)
    BY <1>4, <2>1, <2>2, <2>4 DEF Promise!VoteOut
  <2> QED BY <1>2, <2>1, <2>5 DEF Promise!Next
<1>6. CASE NobodyOut(game, game', gone)
  <2>1. /\ Watchers(game') \ Active(game') = (Watchers(game) \ Active(game)) \ gone
        /\ Active(game') = Active(game) \ gone /\ game'.impostor = game.impostor
        /\ game'.result.winner = game.result.winner
    BY <1>6 DEF NobodyOut, Counted
  <2>2. CASE game'.phase = "impostor_guess"
    <3>1. StageOf(game') = "guess" /\ VoteOf(game') = "closed"
      BY <2>2 DEF StageOf, VoteOf, VotePhases
    <3>2. Promise!Catch(gone)
      BY <1>4, <2>1, <3>1, SeenByMatch DEF Promise!Catch
    <3> QED BY <1>2, <3>2 DEF Promise!Next
  <2>3. CASE game'.phase \notin {"impostor_guess", "ended"} /\ VoteOf(game') \in {"open", "closed"}
    <3>1. StageOf(game') = StageOf(game)
      BY <1>3, <2>3 DEF StageOf
    <3>2. Promise!Undecided(gone, VoteOf(game'))
      BY <1>4, <2>1, <3>1, SeenByMatch DEF Promise!Undecided
    <3> QED BY <1>2, <2>3, <3>2 DEF Promise!Next
  <2> QED BY <1>6, <2>2, <2>3 DEF NobodyOut
<1> QED BY <1>5, <1>6 DEF Counted

\* A vote nobody spoke in closes in silence.
LEMMA HushedIsStep ==
    ASSUME Hushed(game, game')
    PROVE  Promise!Next
<1>1. StageOf(game) = "rounds" /\ VoteOf(game) = "open" /\ VoteOf(game') = "closed"
  BY DEF Hushed, StageOf, VoteOf, VotePhases
<1>2. StageOf(game') = IF game.silentVotes = 1 THEN "over" ELSE StageOf(game)
  BY <1>1 DEF Hushed, StageOf
<1>3. Promise!CloseInSilence
  BY <1>1, <1>2, SeenByMatch DEF Hushed, Promise!CloseInSilence
<1> QED BY <1>3 DEF Promise!Next

\* h differs from g in who is online, the acknowledgements, the strikes and the ballots at most.
Alike(g, h) ==
    /\ h \in Games
    /\ h.status = g.status /\ h.impostor = g.impostor /\ h.phase = g.phase
    /\ h.result = g.result /\ h.silentVotes = g.silentVotes

\* Such a match moves on as Match allows, once Match has heard the vote.
LEMMA AlikeAdvances ==
    ASSUME Sound(game), NEW h, Alike(game, h), h.phase \in VotePhases => Ballots(h),
           game' = MaybeAdvance(h)
    PROVE  Same(h, game') \/ Promise!Next
<1>1. Active(h) = Active(game) /\ Citizens(h) = Citizens(game) /\ Seen \subseteq DOMAIN h
  BY DEF Alike, Active, Citizens, Games, Seen
<1>2. h.phase \in VotePhases => AtPlay(h)
  BY <1>1 DEF Alike, AtPlay, Sound, Running, Ended, VotePhases
<1>3. Same(h, game') \/ Counted(h, game', {})
  BY <1>1, <1>2, AdvanceCounts
<1>4. Counted(h, game', {}) => Counted(game, game', {})
  BY CountedFrom DEF Alike
<1>5. {} \in SUBSET Watchers(game)
  OBVIOUS
<1> QED BY <1>3, <1>4, <1>5, CountedIsStep

\* Nor does Match see that somebody confirms, continues, drops or returns.
LEMMA AlikeIsStep ==
    ASSUME Sound(game), NEW h, Alike(game, h),
           h.voteCast = game.voteCast, h.votes = game.votes, h.candidates = game.candidates,
           Same(h, game') \/ game' = MaybeAdvance(h)
    PROVE  [Promise!Next]_(Promise!vars)
<1>1. h.phase \in VotePhases => Ballots(h)
  BY DEF Alike, Ballots, Voted, Active, Sound, Running, Ended, VotePhases
<1>2. Same(h, game') \/ Promise!Next
  BY <1>1, AlikeAdvances
<1>3. Same(h, game') => Same(game, game')
  BY DEF Alike, Same, StageOf, VoteOf
<1> QED BY <1>2, <1>3, SameIsNoStep

\* An acknowledgement.
LEMMA AckIsStep ==
    ASSUME Sound(game), NEW p \in Seats, ConfirmRole(p) \/ ContinueAfterElimination(p)
    PROVE  [Promise!Next]_(Promise!vars)
<1> DEFINE h == [game EXCEPT !.confirmed[p] = TRUE]
<1>1. Alike(game, h) /\ h.voteCast = game.voteCast /\ h.votes = game.votes /\ h.candidates = game.candidates
  BY DEF Alike, Sound, Games
<1>2. game' = MaybeAdvance(h)
  BY DEF ConfirmRole, ContinueAfterElimination
<1> HIDE DEF h
<1> QED BY <1>1, <1>2, AlikeIsStep

\* A connection that is lost or found.
LEMMA ConnectionIsStep ==
    ASSUME Sound(game), NEW p \in Seats, Disconnect(p) \/ Reconnect(p)
    PROVE  [Promise!Next]_(Promise!vars)
<1> DEFINE strike2 == IF Live /\ p \in Active(game) THEN ReconnectDuration ELSE game.strike[p]
           lost == [game EXCEPT !.connected[p] = FALSE, !.strike[p] = strike2]
           found == [game EXCEPT !.connected[p] = TRUE, !.strike[p] = NoTimer]
<1>1. strike2 \in Timers /\ NoTimer \in Timers /\ game \in Games
  BY DurationAssumption DEF Timers, Sound, Games
<1>2. \/ game' \in {AwaitReconnect(lost), MaybeAdvance(lost)}
      \/ game' \in {ResumeTurn(found), MaybeAdvance(found), found}
  BY DEF Disconnect, Reconnect
<1> HIDE DEF strike2
<1>3. /\ Alike(game, lost) /\ lost.voteCast = game.voteCast
      /\ lost.votes = game.votes /\ lost.candidates = game.candidates
  BY <1>1 DEF Alike, Games
<1>4. /\ Alike(game, found) /\ found.voteCast = game.voteCast
      /\ found.votes = game.votes /\ found.candidates = game.candidates
  BY <1>1 DEF Alike, Games
<1> HIDE DEF lost, found
<1>5. Same(lost, AwaitReconnect(lost)) /\ Same(found, ResumeTurn(found)) /\ Same(found, found)
  <2>1. /\ lost \in Games /\ found \in Games
    BY <1>3, <1>4 DEF Alike
  <2> QED BY <2>1 DEF Same, AwaitReconnect, ResumeTurn, Games, StageOf, VoteOf
<1> QED BY <1>2, <1>3, <1>4, <1>5, AlikeIsStep

\* A ballot is heard, if it is the first, or counted with all the others, if it is the last.
LEMMA VoteIsStep ==
    ASSUME Sound(game), NEW p \in Seats, NEW target \in Seats, Vote(p, target)
    PROVE  [Promise!Next]_(Promise!vars)
<1> DEFINE h == [game EXCEPT !.votes[p] = target, !.voteCast = TRUE]
<1>1. game \in Games /\ Ballots(game)
  BY DEF Sound, Vote, Running, Ended, VotePhases
<1>2. /\ p \in Active(game) /\ p # target /\ target \in game.candidates
      /\ game.phase \in VotePhases /\ game' = MaybeAdvance(h)
  BY DEF Vote
<1>3. /\ Alike(game, h) /\ h.votes = [game.votes EXCEPT ![p] = target]
      /\ h.candidates = game.candidates /\ h.voteCast = TRUE
  BY <1>1 DEF Games, Alike
<1> HIDE DEF h
<1>4. Ballots(h)
  <2>1. \A v \in Voted(h) : h.votes[v] = IF v = p THEN target ELSE game.votes[v]
    BY <1>1, <1>3 DEF Voted, Games
  <2>2. \A v \in Voted(h) \ {p} : v \in Voted(game)
    BY <2>1 DEF Voted
  <2>3. Active(h) = Active(game)
    BY <1>3 DEF Alike, Active
  <2> QED BY <1>1, <1>2, <1>3, <2>1, <2>2, <2>3 DEF Ballots
<1>5. Same(h, game') \/ Promise!Next
  BY <1>2, <1>3, <1>4, AlikeAdvances
<1>6. ASSUME Same(h, game') PROVE [Promise!Next]_(Promise!vars)
  <2>1. VoteOf(game') = "heard" /\ StageOf(game') = StageOf(game)
    BY <1>2, <1>3, <1>6 DEF Same, Alike, StageOf, VoteOf
  <2>2. Active(game') = Active(game) /\ Watchers(game') = Watchers(game)
    BY <1>3, <1>6 DEF Same, Alike, Active, Watchers
  <2>3. game'.impostor = game.impostor /\ game'.silentVotes = game.silentVotes
        /\ game'.result.winner = game.result.winner
    BY <1>3, <1>6 DEF Same, Alike
  <2>4. CASE game.voteCast
    <3>1. VoteOf(game) = "heard"
      BY <1>2, <2>4 DEF VoteOf
    <3> QED BY <2>1, <2>2, <2>3, <3>1, SeenByMatch DEF Promise!vars
  <2>5. CASE ~game.voteCast
    <3>1. VoteOf(game) = "open"
      BY <1>2, <2>5 DEF VoteOf
    <3>2. Promise!Speak
      BY <2>1, <2>2, <2>3, <3>1, SeenByMatch DEF Promise!Speak
    <3> QED BY <3>2 DEF Promise!Next
  <2> QED BY <2>4, <2>5
<1> QED BY <1>5, <1>6

\* The end of a guess, by the word or by the clock.
LEMMA GuessIsStep ==
    ASSUME Sound(game), game.phase = "impostor_guess", NEW winner \in {"impostor", "citizens"},
           NEW reason, game' = End(game, winner, reason)
    PROVE  Promise!Next
<1>1. Seen \subseteq DOMAIN game /\ game.result = Undecided
  BY DEF Sound, Running, Ended, Games, Seen
<1>2. Finished(game, game', winner)
  BY <1>1, EndFinishes
<1>3. Active(game') = Active(game) /\ Watchers(game') = Watchers(game)
  BY <1>2 DEF Finished, Active, Watchers
<1>4. StageOf(game) = "guess" /\ StageOf(game') = "over" /\ VoteOf(game') = VoteOf(game)
  BY <1>2 DEF Finished, StageOf, VoteOf, VotePhases
<1>5. Promise!Guess
  BY <1>2, <1>3, <1>4, SeenByMatch DEF Finished, Promise!Guess
<1> QED BY <1>5 DEF Promise!Next

\* A player leaves.
LEMMA LeaveIsStep ==
    ASSUME Sound(game), NEW p \in Seats, Leave(p)
    PROVE  Promise!Next
<1>1. /\ game \in Games /\ Running(game) /\ {p} \in SUBSET Watchers(game)
      /\ game' = RemoveAll(game, {p}, "left") /\ Strikes(game, Seats)
  BY DEF Leave, Live, Sound, Ended
<1>2. Strikes(game, Seats \ {p}) /\ Earned(game, {p}, "left")
  BY <1>1 DEF Strikes, Earned
<1>3. Departed(game, game', {p}) \/ Counted(game, game', {p})
  BY <1>1, <1>2, RemoveAllDeparts
<1> QED BY <1>1, <1>3, DepartedIsStep, CountedIsStep

\* Strikes that are due.
LEMMA StrikeIsStep ==
    ASSUME Sound(game), Strike
    PROVE  [Promise!Next]_(Promise!vars)
<1>1. /\ Running(Struck) /\ Struck \in Games /\ Strikes(Struck, Seats \ StruckOut)
      /\ Earned(Struck, StruckOut, "removed")
      /\ Struck.status = game.status /\ Struck.impostor = game.impostor /\ Struck.phase = game.phase
      /\ Struck.result = game.result /\ Struck.silentVotes = game.silentVotes
      /\ Struck.voteCast = game.voteCast
      /\ StruckOut \in SUBSET Watchers(Struck)
      /\ game' = IF StruckOut = {} THEN Struck ELSE RemoveAll(Struck, StruckOut, "removed")
  BY StrikeFrame
<1>2. CASE StruckOut = {}
  <2>1. Same(game, game')
    BY <1>1, <1>2 DEF Same, StageOf, VoteOf
  <2> QED BY <2>1, SameIsNoStep
<1>3. CASE StruckOut # {}
  <2>1. Departed(Struck, game', StruckOut) \/ Counted(Struck, game', StruckOut)
    BY <1>1, <1>3, RemoveAllDeparts
  <2>2. Departed(game, game', StruckOut) \/ Counted(game, game', StruckOut)
    BY <1>1, <2>1, DepartedFrom, CountedFrom
  <2>3. StruckOut \in SUBSET Watchers(game)
    BY <1>1 DEF Watchers
  <2> QED BY <2>2, <2>3, DepartedIsStep, CountedIsStep
<1> QED BY <1>2, <1>3

\* The deadline of a phase.
LEMMA TimeoutIsStep ==
    ASSUME Sound(game), Timeout
    PROVE  [Promise!Next]_(Promise!vars)
<1>1. game \in Games /\ Running(game) /\ game' = Expire(game) /\ Seen \subseteq DOMAIN game
  BY DEF Timeout, Sound, Ended, Games, Seen, NoTimer
<1>2. CASE game.phase \in {"role_reveal", "hints", "hint_break", "elimination_reveal"}
  <2>1. game' \in {StartTurn(game, 1), StartTurn(game, game.turn + 1), StartRound(game)}
    BY <1>1, <1>2 DEF Expire, VotePhases
  <2>2. Moved(game, game') /\ game'.phase \in {"hints", "pre_voting"}
    BY <1>1, <2>1, TurnMoves, RoundMoves
  <2>3. Same(game, game')
    BY <1>2, <2>2 DEF Moved, Same, StageOf, VoteOf, VotePhases
  <2> QED BY <2>3, SameIsNoStep
<1>3. CASE game.phase = "pre_voting"
  <2>1. game' = StartVoting(game, "voting", Active(game)) /\ "voting" \in VotePhases
    BY <1>1, <1>3 DEF Expire, VotePhases
  <2>2. Moved(game, game') /\ game'.phase \in VotePhases /\ game'.voteCast = FALSE
    BY <1>1, <2>1, VotingMoves
  <2>3. StageOf(game) = "rounds" /\ StageOf(game') = "rounds" /\ VoteOf(game) = "closed" /\ VoteOf(game') = "open"
    BY <1>3, <2>2 DEF StageOf, VoteOf, VotePhases
  <2>4. Active(game') = Active(game) /\ Watchers(game') = Watchers(game)
    BY <2>2 DEF Moved, Active, Watchers
  <2>5. Promise!OpenVote
    BY <2>2, <2>3, <2>4, SeenByMatch DEF Moved, Promise!OpenVote
  <2> QED BY <2>5 DEF Promise!Next
<1>4. CASE game.phase \in VotePhases
  <2>1. game' = Tally(game)
    BY <1>1, <1>4 DEF Expire, VotePhases
  <2>2. AtPlay(game) /\ Ballots(game)
    BY <1>1, <1>4 DEF AtPlay, Running, VotePhases
  <2>3. Hushed(game, game') \/ Counted(game, game', {})
    BY <1>4, <2>1, <2>2, TallyHushes, TallyCounts
  <2>4. {} \in SUBSET Watchers(game)
    OBVIOUS
  <2> QED BY <2>3, <2>4, HushedIsStep, CountedIsStep
<1>5. CASE game.phase = "impostor_guess"
  <2>1. game' = End(game, "citizens", "impostor_guess_timeout")
    BY <1>1, <1>5 DEF Expire, VotePhases
  <2> QED BY <1>5, <2>1, GuessIsStep
<1>6. game.phase \in TimedPhases
  BY <1>1 DEF Games, Phases, Running
<1> QED BY <1>2, <1>3, <1>4, <1>5, <1>6 DEF TimedPhases, VotePhases

\* A hint and a guess.
LEMMA WordIsStep ==
    ASSUME Sound(game), NEW p \in Seats, SubmitHint(p) \/ SubmitGuess(p)
    PROVE  [Promise!Next]_(Promise!vars)
<1>1. CASE SubmitHint(p)
  <2>1. Moved(game, game') /\ game'.phase = "hint_break" /\ game.phase = "hints"
    BY <1>1, PhaseMoves DEF SubmitHint, Sound, Games, Seen
  <2>2. Same(game, game')
    BY <2>1 DEF Moved, Same, StageOf, VoteOf, VotePhases
  <2> QED BY <2>2, SameIsNoStep
<1>2. CASE SubmitGuess(p)
  BY <1>2, GuessIsStep DEF SubmitGuess
<1> QED BY <1>1, <1>2

\* Time that passes.
LEMMA ElapseIsNoStep ==
    ASSUME Sound(game), Elapse
    PROVE  UNCHANGED Promise!vars
<1>1. Same(game, game')
  BY DEF Elapse, Same, StageOf, VoteOf, Sound, Games
<1> QED BY <1>1, SameIsNoStep

-----------------------------------------------------------------------------
\* Every match keeps the promise of Match: players only ever go, by leaving or by the vote of a
\* table that spoke; it is decided in the very step that decides it; and it is called off only
\* after two votes in a row in which nobody voted.
THEOREM PromiseIsKept == Spec => KeepsPromise
<1>1. Init => Promise!Init
  <2>1. SUFFICES ASSUME NEW impostor \in Impostors, NEW offline \in SUBSET Flaky,
                        game = NewGame(impostor, offline)
                 PROVE  Promise!Init
    BY DEF Init
  <2>2. /\ game.phase = "role_reveal" /\ game.status = [p \in Seats |-> "active"]
        /\ game.impostor = impostor /\ game.silentVotes = 0 /\ game.result = Undecided
    BY <2>1 DEF NewGame
  <2>3. Watchers(game) = Seats /\ Active(game) = Seats /\ impostor \in Seats
    BY <2>2, BoundsAssumption DEF Watchers, Active
  <2>4. StageOf(game) = "rounds" /\ VoteOf(game) = "closed"
    BY <2>2 DEF StageOf, VoteOf, VotePhases
  <2> QED BY <2>2, <2>3, <2>4, SeenByMatch DEF Promise!Init, Undecided
<1>2. IInv /\ [Next]_vars => [Promise!Next]_(Promise!vars)
  <2>1. SUFFICES ASSUME Sound(game), [Next]_vars PROVE [Promise!Next]_(Promise!vars)
    BY DEF IInv
  <2>2. CASE Command
    <3>1. CASE \E p \in Seats : \/ ConfirmRole(p) \/ SubmitHint(p)
                                \/ SubmitGuess(p) \/ ContinueAfterElimination(p)
      BY <2>1, <3>1, AckIsStep, WordIsStep
    <3>2. CASE \E p, target \in Seats : Vote(p, target)
      BY <2>1, <3>2, VoteIsStep
    <3>3. CASE \E p \in Leavers : Leave(p)
      BY <2>1, <3>3, LeaveIsStep, BoundsAssumption
    <3>4. CASE \E p \in Flaky : Disconnect(p) \/ Reconnect(p)
      BY <2>1, <3>4, ConnectionIsStep, BoundsAssumption
    <3> QED BY <2>2, <3>1, <3>2, <3>3, <3>4 DEF Command
  <2>3. CASE Tick
    BY <2>1, <2>3, StrikeIsStep, TimeoutIsStep, ElapseIsNoStep DEF Tick
  <2>4. CASE UNCHANGED vars
    BY <2>4 DEF vars, Promise!vars, Stage, VoteState
  <2> QED BY <2>1, <2>2, <2>3, <2>4 DEF Next
<1> QED BY <1>1, <1>2, Soundness, PTL DEF Spec, KeepsPromise, Promise!Spec
=============================================================================

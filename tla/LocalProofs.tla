----------------------------- MODULE LocalProofs -----------------------------
(***************************************************************************)
(* Two promises of LocalGame for every number of players and every clock:  *)
(* a secret is on the screen only in the hands it belongs to, and the      *)
(* match on one phone is a match as Match means it.                        *)
(*                                                                         *)
(* Both invariants speak of the match on the screen and of its copy: what  *)
(* the copy is good for is seen when the app is killed and goes on from it.*)
(***************************************************************************)
EXTENDS LocalGame, FiniteSetTheorems, TLAPS

ClosedPhases == {"roleReveal", "ready", "hints", "voteTransition", "tieAgain", "elimination"}
VotePhases == {"voting", "tie", "runoff"}
RoundPhases == ClosedPhases \cup VotePhases

Fields == {"phase", "impostor", "seat", "eliminated", "votes", "ballotSaved", "runoff", "revealed",
           "seconds", "outcome"}

\* What the proofs need of a match: in its rounds the impostor plays, with two others at least.
Fit(g) ==
    /\ Fields \subseteq DOMAIN g
    /\ g.impostor \in Players
    /\ g.eliminated \in SUBSET Players
    /\ g.votes \in [Players -> Players \cup {None}]
    /\ g.phase \in RoundPhases \cup {"guess", "ended"}
    /\ g.phase # "ended" => g.outcome = "none"
    /\ g.phase \in RoundPhases =>
          g.impostor \notin g.eliminated /\ Cardinality(Active(g) \ {g.impostor}) >= 2

-----------------------------------------------------------------------------
(* What a move of the rules does *)

\* Nothing Match sees but the phase and the ballots.
Moved(g, h) ==
    /\ Fields \subseteq DOMAIN h
    /\ h.impostor = g.impostor /\ h.eliminated = g.eliminated
    /\ h.outcome = g.outcome

\* The vote as Match sees it.
VoteOf(g) ==
    IF g.phase \notin VotePhases THEN "closed" ELSE IF g.votes = NoVotes THEN "open" ELSE "heard"

\* A step between votes, or within one.
Quiet(g, h) ==
    /\ Moved(g, h) /\ h.votes = g.votes
    /\ \/ h.phase = g.phase
       \/ g.phase \in ClosedPhases /\ h.phase \in ClosedPhases
       \/ g.phase \in VotePhases /\ h.phase \in VotePhases

Opens(g, h) ==
    Moved(g, h) /\ g.phase \in ClosedPhases /\ h.phase \in VotePhases /\ h.votes = NoVotes

Casts(g, h) ==
    /\ Moved(g, h) /\ g.phase \in VotePhases /\ h.phase = g.phase
    /\ h.votes = g.votes \/ \E v, target \in Players : h.votes = [g.votes EXCEPT ![v] = target]

\* A round that ends without another: its ballots are put away.
Clears(g, h) ==
    Moved(g, h) /\ g.phase \in ClosedPhases /\ h.phase \in ClosedPhases /\ h.votes = NoVotes

Ties(g, h) ==
    /\ Moved(g, h) /\ g.phase \in VotePhases /\ h.votes = NoVotes
    /\ h.phase \in {"tie", "tieAgain"}

\* A player is voted out: the impostor is caught, a citizen leaves parity or goes home.
Takes(g, h) ==
    /\ Fields \subseteq DOMAIN h
    /\ h.impostor = g.impostor /\ h.votes = g.votes
    /\ g.phase \in VotePhases
    /\ \E p \in Active(g) :
          /\ h.eliminated = g.eliminated \cup {p}
          /\ \/ p = g.impostor /\ h.phase = "guess" /\ h.outcome = g.outcome
             \/ /\ p # g.impostor /\ Cardinality(Active(h) \ {h.impostor}) <= 1
                /\ h.phase = "ended" /\ h.outcome = "impostor"
             \/ /\ p # g.impostor /\ ~(Cardinality(Active(h) \ {h.impostor}) <= 1)
                /\ h.phase = "elimination" /\ h.outcome = g.outcome

Guesses(g, h) ==
    /\ Fields \subseteq DOMAIN h
    /\ h.impostor = g.impostor /\ h.eliminated = g.eliminated /\ h.votes = g.votes
    /\ g.phase = "guess" /\ h.phase = "ended" /\ h.outcome \in {"impostor", "citizens"}

Played(g, h) ==
    \/ Quiet(g, h) \/ Opens(g, h) \/ Casts(g, h) \/ Clears(g, h) \/ Ties(g, h)
    \/ Takes(g, h) \/ Guesses(g, h)

LEMMA PlayersAreFinite ==
    ASSUME NEW S \in SUBSET Players
    PROVE  IsFiniteSet(S) /\ Cardinality(S) \in Nat
<1>1. IsFiniteSet(Players)
  BY FS_Interval, LocalAssumption DEF Players
<1> QED BY <1>1, FS_Subset, FS_CardinalityType

\* Whatever is played leaves a fit match fit.
LEMMA PlayedIsFit ==
    ASSUME NEW g, NEW h, Fit(g), Played(g, h)
    PROVE  Fit(h)
<1>1. NoVotes \in [Players -> Players \cup {None}]
  BY DEF NoVotes
<1>2. ASSUME Moved(g, h), h.votes \in [Players -> Players \cup {None}],
             h.phase \in RoundPhases, g.phase \in RoundPhases
      PROVE  Fit(h)
  BY <1>2 DEF Fit, Moved, Active, RoundPhases, ClosedPhases, VotePhases
<1>3. CASE Quiet(g, h)
  <2>1. CASE g.phase \in RoundPhases
    BY <1>2, <1>3, <2>1 DEF Quiet, Fit, RoundPhases
  <2>2. CASE g.phase \notin RoundPhases
    BY <1>3, <2>2 DEF Quiet, Moved, Fit, RoundPhases
  <2> QED BY <2>1, <2>2
<1>4. CASE Opens(g, h) \/ Clears(g, h) \/ Ties(g, h)
  BY <1>1, <1>2, <1>4 DEF Opens, Clears, Ties, Fit, RoundPhases, ClosedPhases, VotePhases
<1>5. CASE Casts(g, h)
  <2>1. h.votes \in [Players -> Players \cup {None}]
    BY <1>5 DEF Casts, Fit
  <2> QED BY <1>2, <1>5, <2>1 DEF Casts, RoundPhases
<1>6. CASE Takes(g, h)
  <2>1. PICK p \in Active(g) :
          /\ h.eliminated = g.eliminated \cup {p}
          /\ \/ p = g.impostor /\ h.phase = "guess" /\ h.outcome = g.outcome
             \/ p # g.impostor /\ h.phase = "ended"
             \/ /\ p # g.impostor /\ ~(Cardinality(Active(h) \ {h.impostor}) <= 1)
                /\ h.phase = "elimination" /\ h.outcome = g.outcome
    BY <1>6 DEF Takes
  <2>2. h.eliminated \in SUBSET Players /\ g.phase \in RoundPhases
    BY <1>6, <2>1 DEF Takes, Fit, Active, RoundPhases
  <2>3. Cardinality(Active(h) \ {h.impostor}) \in Nat
    BY PlayersAreFinite DEF Active
  <2> QED BY <1>6, <2>1, <2>2, <2>3 DEF Takes, Fit, RoundPhases, ClosedPhases, VotePhases
<1>7. CASE Guesses(g, h)
  BY <1>7 DEF Guesses, Fit, RoundPhases, ClosedPhases, VotePhases
<1> QED BY <1>3, <1>4, <1>5, <1>6, <1>7 DEF Played

-----------------------------------------------------------------------------
(* Every operation is one of them *)

LEMMA QuietRules ==
    ASSUME NEW g, Fit(g)
    PROVE  /\ Quiet(g, Reveal(g)) /\ Quiet(g, HidePrivateContent(g)) /\ Quiet(g, Restored(g))
           /\ g.phase = "roleReveal" => Quiet(g, RoleSeen(g))
           /\ g.phase = "ready" => Quiet(g, StartRound(g))
           /\ g.phase = "hints" => Quiet(g, HintSpoken(g))
           /\ g.phase = "tie" => Quiet(g, StartRunoff(g))
<1>1. /\ Quiet(g, Reveal(g)) /\ Quiet(g, HidePrivateContent(g)) /\ Quiet(g, Restored(g))
  BY DEF Fit, Fields, Quiet, Moved, Reveal, HidePrivateContent, Restored
<1>2. g.phase = "roleReveal" => Quiet(g, RoleSeen(g))
  BY DEF Fit, Fields, Quiet, Moved, RoleSeen, ClosedPhases
<1>3. g.phase = "ready" => Quiet(g, StartRound(g))
  BY DEF Fit, Fields, Quiet, Moved, StartRound, ClosedPhases
<1>4. g.phase = "hints" => Quiet(g, HintSpoken(g))
  BY DEF Fit, Fields, Quiet, Moved, HintSpoken, ClosedPhases
<1>5. g.phase = "tie" => Quiet(g, StartRunoff(g))
  BY DEF Fit, Fields, Quiet, Moved, StartRunoff, VotePhases
<1> QED BY <1>1, <1>2, <1>3, <1>4, <1>5

LEMMA VotingRules ==
    ASSUME NEW g, Fit(g)
    PROVE  /\ g.phase = "voteTransition" => Opens(g, StartVoting(g))
           /\ g.phase \in {"tieAgain", "elimination"} => Clears(g, NextRound(g))
           /\ g.phase = "guess" => \A correct \in BOOLEAN : Guesses(g, SubmitGuess(g, correct))
           /\ g.phase = "guess" => Guesses(g, End(g, "citizens"))
           /\ \A target \in Players : g.phase \in VotePhases => Casts(g, ConfirmVote(g, target))
<1>1. g.phase = "voteTransition" => Opens(g, StartVoting(g))
  BY DEF Fit, Fields, Opens, Moved, StartVoting, ClosedPhases, VotePhases
<1>2. g.phase \in {"tieAgain", "elimination"} => Clears(g, NextRound(g))
  BY DEF Fit, Fields, Clears, Moved, NextRound, ClosedPhases
<1>3. g.phase = "guess" => Guesses(g, End(g, "citizens")) /\ Guesses(g, End(g, "impostor"))
  BY DEF Fit, Fields, Guesses, End
<1>4. g.phase = "guess" => \A correct \in BOOLEAN : Guesses(g, SubmitGuess(g, correct))
  BY <1>3 DEF SubmitGuess
<1>5. ASSUME NEW target \in Players, g.phase \in VotePhases
      PROVE  Casts(g, ConfirmVote(g, target))
  <2> DEFINE v == CurrentPlayer(g)
             cast == [g.votes EXCEPT ![v] = target]
             h == ConfirmVote(g, target)
  <2>1. cast = g.votes \/ \E q, t \in Players : cast = [g.votes EXCEPT ![q] = t]
    <3>1. CASE v \in Players
      BY <3>1
    <3>2. CASE v \notin Players
      BY <3>2 DEF Fit
    <3> QED BY <3>1, <3>2
  <2>2. h = [g EXCEPT !.votes = cast, !.ballotSaved = TRUE]
    BY DEF ConfirmVote
  <2> HIDE DEF cast, h
  <2>3. Moved(g, h) /\ h.phase = g.phase /\ h.votes = cast
    BY <2>2 DEF Fit, Fields, Moved
  <2> QED BY <1>5, <2>1, <2>3 DEF Casts, h
<1> QED BY <1>1, <1>2, <1>3, <1>4, <1>5

\* A vote that is complete takes a player, or ties.
LEMMA TallyPlays ==
    ASSUME NEW g, Fit(g), g.phase \in {"voting", "runoff"}
    PROVE  Takes(g, Tally(g)) \/ Ties(g, Tally(g))
<1> DEFINE k == Tally(g)
<1>1. CASE Cardinality(Top(g)) = 1
  <2>1. IsFiniteSet(Top(g))
    BY PlayersAreFinite DEF Top, Active
  <2>2. PICK p : Top(g) = {p}
    BY <1>1, <2>1, FS_Singleton
  <2>3. (CHOOSE q \in Top(g) : TRUE) = p /\ p \in Active(g)
    BY <2>2 DEF Top
  <2>4. k = Eliminate(g, p)
    BY <1>1, <2>3 DEF Tally
  <2> DEFINE out == [g EXCEPT !.eliminated = g.eliminated \cup {p}]
             ended == [out EXCEPT !.outcome = "impostor", !.phase = "ended", !.seconds = 0,
                                  !.revealed = FALSE, !.ballotSaved = FALSE]
  <2>5. k = IF p = g.impostor THEN [out EXCEPT !.phase = "guess"]
            ELSE IF Cardinality(Active(out) \ {g.impostor}) <= 1 THEN ended
            ELSE [out EXCEPT !.phase = "elimination"]
    BY <2>4 DEF Eliminate, End
  <2>6. /\ Fields \subseteq DOMAIN out /\ out.impostor = g.impostor /\ out.votes = g.votes
        /\ out.eliminated = g.eliminated \cup {p} /\ out.outcome = g.outcome
    BY DEF Fit, Fields
  <2> HIDE DEF out, k
  <2>7. /\ Fields \subseteq DOMAIN k /\ k.impostor = g.impostor /\ k.votes = g.votes
        /\ k.eliminated = g.eliminated \cup {p}
        /\ k.phase = IF p = g.impostor THEN "guess"
                     ELSE IF Cardinality(Active(out) \ {g.impostor}) <= 1 THEN "ended" ELSE "elimination"
        /\ k.outcome = IF p # g.impostor /\ Cardinality(Active(out) \ {g.impostor}) <= 1
                       THEN "impostor" ELSE g.outcome
    BY <2>5, <2>6 DEF Fields
  <2>8. Active(out) = Active(k)
    BY <2>6, <2>7 DEF Active
  <2>9. Takes(g, k)
    BY <2>3, <2>7, <2>8 DEF Takes, VotePhases
  <2> QED BY <2>9 DEF k
<1>2. CASE Cardinality(Top(g)) # 1
  <2>1. k \in {[g EXCEPT !.runoff = Top(g), !.votes = NoVotes, !.phase = "tie"],
               [g EXCEPT !.votes = NoVotes, !.phase = "tieAgain"]}
    BY <1>2 DEF Tally
  <2> HIDE DEF k
  <2>2. Ties(g, k)
    BY <2>1 DEF Fit, Fields, Ties, Moved, VotePhases
  <2> QED BY <2>2 DEF k
<1> QED BY <1>1, <1>2

\* The device goes on, or the vote is complete.
LEMMA FinishVotePlays ==
    ASSUME NEW g, Fit(g), g.phase \in {"voting", "runoff"}
    PROVE  Played(g, FinishVote(g))
<1> DEFINE next == [g EXCEPT !.revealed = FALSE, !.ballotSaved = FALSE, !.seat = g.seat + 1]
           last == [next EXCEPT !.seat = 0]
           k == FinishVote(g)
<1>1. k = IF next.seat < Cardinality(Active(g)) THEN next ELSE Tally(last)
  BY DEF FinishVote
<1>2. Moved(g, next) /\ next.votes = g.votes /\ next.phase = g.phase
  BY DEF Fit, Fields, Moved
<1> HIDE DEF next, k
<1>3. Moved(g, last) /\ last.votes = g.votes /\ last.phase = g.phase
  BY <1>2 DEF Moved, Fields
<1> HIDE DEF last
<1>4. Quiet(g, next) /\ Quiet(g, last)
  BY <1>2, <1>3 DEF Quiet
<1>5. Fit(last)
  BY <1>4, PlayedIsFit DEF Played
<1>6. Takes(last, Tally(last)) \/ Ties(last, Tally(last))
  BY <1>3, <1>5, TallyPlays
<1>7. Takes(g, Tally(last)) \/ Ties(g, Tally(last))
  BY <1>3, <1>6 DEF Takes, Ties, Moved, Active
<1> QED BY <1>1, <1>4, <1>7 DEF Played, k

\* A second of a clock that runs.
LEMMA TickPlays ==
    ASSUME NEW g, Fit(g), TimerShouldRun(g)
    PROVE  Played(g, Tick(g))
<1>1. g.phase \in {"hints", "voteTransition", "guess"}
  BY DEF TimerShouldRun
<1>2. Quiet(g, [g EXCEPT !.seconds = g.seconds - 1])
  BY DEF Fit, Fields, Quiet, Moved
<1>3. \/ Tick(g) = [g EXCEPT !.seconds = g.seconds - 1]
      \/ g.phase = "hints" /\ Tick(g) = HintSpoken(g)
      \/ g.phase = "voteTransition" /\ Tick(g) = StartVoting(g)
      \/ g.phase = "guess" /\ Tick(g) = End(g, "citizens")
  BY <1>1 DEF Tick
<1> QED BY <1>2, <1>3, QuietRules, VotingRules DEF Played

LEMMA MovesPlay ==
    ASSUME Fit(game), Moves
    PROVE  Played(game, game')
<1>1. CASE game.phase \in {"voting", "runoff"} /\ game' = FinishVote(game)
  BY <1>1, FinishVotePlays
<1> QED BY <1>1, QuietRules, VotingRules DEF Moves, Apply, Played

\* Every step but going on from the copy plays the match or leaves it alone.
LEMMA StepPlays ==
    ASSUME Fit(game), [Next]_vars
    PROVE  Played(game, game') \/ game' = game \/ Resume
<1>1. CASE SaysItIsThem
  BY <1>1, QuietRules DEF SaysItIsThem, Apply, Played
<1>2. CASE HandsOn
  BY <1>2, MovesPlay DEF HandsOn
<1>3. CASE Ticks
  BY <1>3, TickPlays DEF Ticks, Apply
<1>4. CASE Covered \/ Leave
  BY <1>4, QuietRules DEF Covered, Leave, Played
<1>5. CASE Returns \/ Close \/ Write \/ Kill
  BY <1>5 DEF Returns, Close, Write, Kill
<1>6. CASE \E target \in Players : CastsBallot(target)
  BY <1>6, VotingRules DEF CastsBallot, Apply, Played, VotePhases
<1>7. CASE UNCHANGED vars
  BY <1>7 DEF vars
<1> QED BY <1>1, <1>2, <1>3, <1>4, <1>5, <1>6, <1>7 DEF Next

-----------------------------------------------------------------------------
(* Secrets *)

\* Whoever the device is with is said by the seat and by who is out.
Sits(eliminated, seat) ==
    CHOOSE p \in Players \ eliminated : Cardinality({q \in Players \ eliminated : q < p}) = seat

LEMMA HeldBySeat ==
    ASSUME NEW g
    PROVE  CurrentPlayer(g) = Sits(g.eliminated, g.seat)
BY DEF CurrentPlayer, Sits, Active, SeatOf

\* Nothing secret is on the screen.
Covers(h) == h.phase \in SecretPhases => h.revealed = FALSE

\* h shows what g shows, to the same player.
Shows(g, h) == h.eliminated = g.eliminated /\ h.seat = g.seat

LEMMA CoveringRules ==
    ASSUME NEW g, Fit(g)
    PROVE  /\ Covers(HidePrivateContent(g)) /\ Covers(Restored(g)) /\ Covers(RoleSeen(g))
           /\ Covers(StartRound(g)) /\ Covers(StartVoting(g)) /\ Covers(StartRunoff(g))
           /\ Covers(NextRound(g))
           /\ g.phase = "hints" => Covers(HintSpoken(g))
           /\ \A outcome : Covers(End(g, outcome))
<1>1. /\ Covers(HidePrivateContent(g)) /\ Covers(Restored(g)) /\ Covers(RoleSeen(g))
  BY DEF Fit, Fields, Covers, HidePrivateContent, Restored, RoleSeen
<1>2. /\ Covers(StartRound(g)) /\ Covers(StartVoting(g)) /\ Covers(StartRunoff(g)) /\ Covers(NextRound(g))
  BY DEF Fit, Fields, Covers, StartRound, StartVoting, StartRunoff, NextRound
<1>3. g.phase = "hints" => Covers(HintSpoken(g))
  BY DEF Fit, Fields, Covers, HintSpoken, SecretPhases
<1>4. \A outcome : Covers(End(g, outcome))
  BY DEF Fit, Fields, Covers, End, SecretPhases
<1> QED BY <1>1, <1>2, <1>3, <1>4

LEMMA FinishVoteCovers ==
    ASSUME NEW g, Fit(g), g.phase \in {"voting", "runoff"}
    PROVE  Covers(FinishVote(g))
<1> DEFINE next == [g EXCEPT !.revealed = FALSE, !.ballotSaved = FALSE, !.seat = g.seat + 1]
           last == [next EXCEPT !.seat = 0]
           k == FinishVote(g)
<1>1. k = IF next.seat < Cardinality(Active(g)) THEN next ELSE Tally(last)
  BY DEF FinishVote
<1>2. next.revealed = FALSE
  BY DEF Fit, Fields
<1>3. Moved(g, last) /\ last.votes = g.votes /\ last.phase = g.phase
  BY DEF Fit, Fields, Moved
<1> HIDE DEF next, last, k
<1>4. Fit(last)
  BY <1>3, PlayedIsFit DEF Played, Quiet
<1>5. Tally(last).phase \notin SecretPhases
  BY <1>3, <1>4, TallyPlays DEF Takes, Ties, SecretPhases
<1> QED BY <1>1, <1>2, <1>5 DEF Covers, k

\* The inductive invariant of both theorems.
Whole ==
    /\ Fit(game)
    /\ saved # None => Fit(saved)
    /\ SecretsAreHandedOver

LEMMA WholeInit == Init => Whole
<1>1. SUFFICES ASSUME Init PROVE Whole
  OBVIOUS
<1>2. PICK impostor \in Impostors : game = NewGame(impostor)
  BY <1>1 DEF Init
<1>3. /\ Fields \subseteq DOMAIN game /\ game.impostor = impostor /\ game.eliminated = {}
      /\ game.votes = [p \in Players |-> None] /\ game.phase = "roleReveal" /\ game.outcome = "none"
      /\ game.revealed = FALSE
  BY <1>2 DEF NewGame, Fields
<1>4. impostor \in Players
  BY LocalAssumption DEF Players
<1>5. Cardinality(Active(game) \ {impostor}) >= 2
  <2>1. Active(game) = 1 .. N
    BY <1>3 DEF Active, Players
  <2>2. N \in Nat /\ N >= 3 /\ Cardinality(1 .. N) = N /\ IsFiniteSet(1 .. N)
    <3>1. N \in Int /\ 1 \in Int /\ N >= 3
      BY LocalAssumption
    <3>2. IsFiniteSet(1 .. N) /\ Cardinality(1 .. N) = IF 1 > N THEN 0 ELSE N - 1 + 1
      BY <3>1, FS_Interval
    <3> QED BY <3>1, <3>2
  <2>3. Cardinality((1 .. N) \ {impostor}) = Cardinality(1 .. N) - 1
    BY <1>4, <2>2, FS_RemoveElement DEF Players
  <2> QED BY <2>1, <2>2, <2>3
<1>6. Fit(game)
  BY <1>3, <1>4, <1>5 DEF Fit, RoundPhases, ClosedPhases
<1>7. saved = None
  BY <1>1 DEF Init
<1> QED BY <1>3, <1>6, <1>7 DEF Whole, SecretsAreHandedOver

LEMMA FitNext ==
    ASSUME Whole, [Next]_vars
    PROVE  Fit(game') /\ (saved' # None => Fit(saved'))
<1>1. Fit(game')
  <2>1. CASE Resume
    <3>1. CASE game' = game
      BY <3>1 DEF Whole
    <3>2. CASE saved # None /\ game' = Restored(saved)
      BY <3>2, QuietRules, PlayedIsFit DEF Whole, Played
    <3> QED BY <2>1, <3>1, <3>2 DEF Resume
  <2>2. CASE ~Resume
    BY <2>2, StepPlays, PlayedIsFit DEF Whole
  <2> QED BY <2>1, <2>2
<1>2. saved' \in {saved, game, None}
  BY DEF Next, vars, SaysItIsThem, CastsBallot, HandsOn, Moves, Ticks, Apply, Covered, Returns, Leave,
         Close, Write, Kill, Resume
<1> QED BY <1>1, <1>2 DEF Whole

\* The device is handed on covered, and only says whose secret it shows to who holds it.
LEMMA SecretsNext ==
    ASSUME Whole, [Next]_vars
    PROVE  SecretsAreHandedOver'
<1>1. ASSUME Covers(game') PROVE SecretsAreHandedOver'
  BY <1>1 DEF Covers, SecretsAreHandedOver
<1>2. ASSUME Shows(game, game') PROVE CurrentPlayer(game') = CurrentPlayer(game)
  BY <1>2, HeldBySeat DEF Shows
<1>3. CASE SaysItIsThem
  <2>1. game' = Reveal(game)
    BY <1>3 DEF SaysItIsThem, Apply
  <2>2. Shows(game, game') /\ game'.phase = game.phase
    BY <2>1 DEF Whole, Fit, Fields, Reveal, Shows
  <2>3. game.phase \in SecretPhases => holder' = CurrentPlayer(game)
    BY <1>3 DEF SaysItIsThem, SecretPhases
  <2>4. CurrentPlayer(game') = CurrentPlayer(game)
    BY <1>2, <2>2
  <2> QED BY <2>2, <2>3, <2>4 DEF SecretsAreHandedOver, CurrentPlayer
<1>4. CASE \E target \in Players : CastsBallot(target)
  <2>1. PICK target \in Players : CastsBallot(target)
    BY <1>4
  <2>2. Shows(game, game') /\ game'.phase = game.phase
    BY <2>1 DEF CastsBallot, Apply, Whole, Fit, Fields, ConfirmVote, Shows
  <2>3. holder = CurrentPlayer(game) /\ holder' = holder
    BY <2>1 DEF CastsBallot, Apply, Whole, SecretsAreHandedOver, SecretPhases
  <2>4. CurrentPlayer(game') = CurrentPlayer(game)
    BY <1>2, <2>2
  <2> QED BY <2>3, <2>4 DEF SecretsAreHandedOver, CurrentPlayer
<1>5. CASE HandsOn
  <2>1. CASE game.phase \in {"voting", "runoff"} /\ game' = FinishVote(game)
    BY <1>1, <2>1, FinishVoteCovers DEF Whole
  <2>2. CASE game.phase = "guess" /\ \E correct \in BOOLEAN : game' = SubmitGuess(game, correct)
    BY <1>1, <2>2, CoveringRules DEF Whole, SubmitGuess
  <2> QED BY <1>1, <1>5, <2>1, <2>2, CoveringRules DEF HandsOn, Moves, Apply, Whole
<1>6. CASE Ticks
  <2>1. game' = Tick(game) /\ game.phase \in {"hints", "voteTransition", "guess"}
    BY <1>6 DEF Ticks, Apply, TimerShouldRun
  <2>2. \/ game' = [game EXCEPT !.seconds = game.seconds - 1]
        \/ game.phase = "hints" /\ game' = HintSpoken(game)
        \/ game.phase = "voteTransition" /\ game' = StartVoting(game)
        \/ game.phase = "guess" /\ game' = End(game, "citizens")
    BY <2>1 DEF Tick
  <2>3. Covers([game EXCEPT !.seconds = game.seconds - 1])
    BY <2>1 DEF Whole, Fit, Fields, Covers, SecretPhases
  <2> QED BY <1>1, <2>2, <2>3, CoveringRules DEF Whole
<1>7. CASE Covered \/ Leave
  BY <1>1, <1>7, CoveringRules DEF Covered, Leave, Whole
<1>8. CASE Returns \/ Close \/ Write
  BY <1>8 DEF Returns, Close, Write, Whole, SecretsAreHandedOver, CurrentPlayer
<1>9. CASE Kill
  BY <1>9 DEF Kill, SecretsAreHandedOver
<1>10. CASE Resume
  <2>1. CASE saved # None /\ game' = Restored(saved)
    BY <1>1, <2>1, CoveringRules DEF Whole
  <2>2. CASE app' = app /\ app = "closed"
    BY <2>2 DEF SecretsAreHandedOver
  <2> QED BY <1>10, <2>1, <2>2 DEF Resume
<1>11. CASE UNCHANGED vars
  BY <1>11 DEF vars, Whole, SecretsAreHandedOver, CurrentPlayer
<1> QED BY <1>3, <1>4, <1>5, <1>6, <1>7, <1>8, <1>9, <1>10, <1>11 DEF Next

LEMMA WholeAlways == Spec => []Whole
<1>1. Whole /\ [Next]_vars => Whole'
  BY FitNext, SecretsNext DEF Whole
<1> QED BY <1>1, WholeInit, PTL DEF Spec

\* Through ties, kills and restored copies, a role or a ballot is on the screen only in the
\* hands of the player it belongs to (local_game.dart, revealed).
THEOREM SecretsStayPrivate == Spec => []SecretsAreHandedOver
BY WholeAlways, PTL DEF Whole

-----------------------------------------------------------------------------
(* The same rules as online *)

\* Match counts players as this module does.
LEMMA CountedOnline ==
    ASSUME NEW S
    PROVE  Online!Cardinality(S) = Cardinality(S)
BY DEF Online!Cardinality, Cardinality

\* Match sees neither turns nor clocks, nor a ballot after the first.
LEMMA QuietIsNoStep ==
    ASSUME Fit(game), Quiet(game, game')
    PROVE  UNCHANGED Online!vars
<1>1. Active(game') = Active(game)
  BY DEF Quiet, Moved, Active
<1>2. Stage' = Stage
  BY DEF Quiet, Stage, ClosedPhases, VotePhases
<1>3. VoteOf(game') = VoteOf(game)
  BY DEF Quiet, VoteOf, ClosedPhases, VotePhases
<1>4. UNCHANGED <<game.impostor, Active(game) \cup {game.impostor}, game.eliminated \ {game.impostor}, game.outcome>>
  BY <1>1 DEF Quiet, Moved
<1> QED BY <1>2, <1>3, <1>4 DEF Online!vars, VoteOf, VotePhases

\* The votes of a step, as Match sees them.
LEMMA SeenOnline ==
    /\ VoteOf(game) = IF game.phase \notin {"voting", "tie", "runoff"} THEN "closed"
                      ELSE IF game.votes = NoVotes THEN "open" ELSE "heard"
    /\ VoteOf(game') = IF game'.phase \notin {"voting", "tie", "runoff"} THEN "closed"
                       ELSE IF game'.votes = NoVotes THEN "open" ELSE "heard"
BY DEF VoteOf, VotePhases

LEMMA OpensIsStep ==
    ASSUME Fit(game), Opens(game, game')
    PROVE  Online!OpenVote
<1>1. Stage = "rounds" /\ Stage' = "rounds"
  BY DEF Opens, Stage, ClosedPhases, VotePhases
<1>2. VoteOf(game) = "closed" /\ VoteOf(game') = "open"
  BY DEF Opens, VoteOf, ClosedPhases, VotePhases
<1>3. Active(game') = Active(game) /\ game'.impostor = game.impostor
      /\ game'.eliminated = game.eliminated /\ game'.outcome = game.outcome
  BY DEF Opens, Moved, Active
<1> QED BY <1>1, <1>2, <1>3, SeenOnline DEF Online!OpenVote

LEMMA ClearsIsNoStep ==
    ASSUME Fit(game), Clears(game, game')
    PROVE  UNCHANGED Online!vars
<1>1. Stage = "rounds" /\ Stage' = "rounds"
  BY DEF Clears, Stage, ClosedPhases
<1>2. VoteOf(game) = "closed" /\ VoteOf(game') = "closed"
  BY DEF Clears, VoteOf, ClosedPhases, VotePhases
<1>3. Active(game') = Active(game) /\ game'.impostor = game.impostor
      /\ game'.eliminated = game.eliminated /\ game'.outcome = game.outcome
  BY DEF Clears, Moved, Active
<1> QED BY <1>1, <1>2, <1>3, SeenOnline DEF Online!vars

\* A ballot is heard if it is the first.
LEMMA CastsIsStep ==
    ASSUME Fit(game), Casts(game, game')
    PROVE  Online!Speak \/ UNCHANGED Online!vars
<1>1. Stage = "rounds" /\ Stage' = "rounds"
  BY DEF Casts, Stage, VotePhases
<1>2. Active(game') = Active(game) /\ game'.impostor = game.impostor
      /\ game'.eliminated = game.eliminated /\ game'.outcome = game.outcome
  BY DEF Casts, Moved, Active
<1>3. CASE game'.votes = game.votes
  <2>1. VoteOf(game') = VoteOf(game)
    BY <1>3 DEF Casts, VoteOf
  <2> QED BY <1>1, <1>2, <2>1, SeenOnline DEF Online!vars
<1>4. CASE \E v, target \in Players : game'.votes = [game.votes EXCEPT ![v] = target]
  <2>1. PICK v \in Players, target \in Players : game'.votes = [game.votes EXCEPT ![v] = target]
    BY <1>4
  <2>2. game'.votes[v] = target /\ target # None
    BY <2>1, LocalAssumption DEF Fit, Players
  <2>3. game'.votes # NoVotes
    BY <2>2 DEF NoVotes
  <2>4. VoteOf(game') = "heard" /\ VoteOf(game) \in {"open", "heard"}
    BY <2>3 DEF Casts, VoteOf
  <2>5. CASE VoteOf(game) = "heard"
    BY <1>1, <1>2, <2>4, <2>5, SeenOnline DEF Online!vars
  <2>6. CASE VoteOf(game) = "open"
    BY <1>1, <1>2, <2>4, <2>6, SeenOnline DEF Online!Speak
  <2> QED BY <2>4, <2>5, <2>6
<1> QED BY <1>3, <1>4 DEF Casts

\* A vote that closes finds the impostor and two more at play.
LEMMA VoteCloses ==
    ASSUME Fit(game), game.phase \in VotePhases
    PROVE  Online!CloseVote({})
<1> DEFINE playing == Active(game) \cup {game.impostor}
<1>1. Stage = "rounds" /\ VoteOf(game) # "closed"
  BY DEF Stage, VoteOf, VotePhases
<1>2. /\ game.impostor \in playing \ {}
      /\ playing \ ({} \cup {game.impostor}) = Active(game) \ {game.impostor}
  OBVIOUS
<1>3. Cardinality(playing \ ({} \cup {game.impostor})) >= 2
  BY <1>2 DEF Fit, RoundPhases
<1>4. Online!Cardinality(playing \ ({} \cup {game.impostor})) >= 2
  BY <1>3, CountedOnline
<1> QED BY <1>1, <1>2, <1>4, SeenOnline DEF Online!CloseVote

LEMMA TiesIsStep ==
    ASSUME Fit(game), Ties(game, game')
    PROVE  \E ballot \in {"open", "closed"} : Online!Undecided({}, ballot)
<1>1. Online!CloseVote({})
  BY VoteCloses DEF Ties
<1>2. Stage = "rounds" /\ Stage' = "rounds"
  BY DEF Ties, Stage, VotePhases
<1>3. VoteOf(game') \in {"open", "closed"}
  BY DEF Ties, VoteOf
<1>4. Active(game') = Active(game) /\ game'.impostor = game.impostor
      /\ game'.eliminated = game.eliminated /\ game'.outcome = game.outcome
  BY DEF Ties, Moved, Active
<1>5. Online!Undecided({}, VoteOf(game'))
  BY <1>1, <1>2, <1>4, SeenOnline DEF Online!Undecided
<1> QED BY <1>3, <1>5

LEMMA TakesIsStep ==
    ASSUME Fit(game), Takes(game, game')
    PROVE  Online!Catch({}) \/ \E citizen \in Active(game) \cup {game.impostor} : Online!VoteOut({}, citizen)
<1>1. Online!CloseVote({}) /\ Stage = "rounds" /\ game.impostor \in Active(game)
  BY VoteCloses DEF Takes, Stage, VotePhases, Fit, RoundPhases, Active
<1>2. PICK p \in Active(game) :
          /\ game'.eliminated = game.eliminated \cup {p}
          /\ \/ p = game.impostor /\ game'.phase = "guess" /\ game'.outcome = game.outcome
             \/ /\ p # game.impostor /\ Cardinality(Active(game') \ {game'.impostor}) <= 1
                /\ game'.phase = "ended" /\ game'.outcome = "impostor"
             \/ /\ p # game.impostor /\ ~(Cardinality(Active(game') \ {game'.impostor}) <= 1)
                /\ game'.phase = "elimination" /\ game'.outcome = game.outcome
  BY DEF Takes
<1>3. game'.impostor = game.impostor /\ Active(game') = Active(game) \ {p}
  BY <1>2 DEF Takes, Active
<1>4. VoteOf(game') = "closed"
  BY <1>2 DEF VoteOf, VotePhases
<1>5. CASE p = game.impostor
  <2>1. Stage' = "guess" /\ game'.outcome = game.outcome
    BY <1>2, <1>5 DEF Stage
  <2>2. Active(game') \cup {game.impostor} = Active(game) \cup {game.impostor}
    BY <1>3, <1>5
  <2>3. game'.eliminated \ {game.impostor} = game.eliminated \ {game.impostor}
    BY <1>2, <1>5
  <2>4. Online!Catch({})
    BY <1>1, <1>3, <1>4, <2>1, <2>2, <2>3, SeenOnline DEF Online!Catch
  <2> QED BY <2>4
<1>6. CASE p # game.impostor
  <2> DEFINE left == (Active(game) \cup {game.impostor}) \ ({} \cup {p})
  <2>1. /\ left = Active(game') \cup {game'.impostor} /\ game.impostor \in left
        /\ left \ {game.impostor} = Active(game') \ {game'.impostor}
    BY <1>1, <1>3, <1>6
  <2>2. Online!Cardinality(left \ {game.impostor}) = Cardinality(Active(game') \ {game'.impostor})
    BY <2>1, CountedOnline
  <2>3. IF Online!Cardinality(left \ {game.impostor}) <= 1
        THEN Stage' = "over" /\ game'.outcome = "impostor" ELSE Stage' = "rounds" /\ game'.outcome = game.outcome
    BY <1>2, <1>6, <2>2 DEF Stage
  <2> HIDE DEF left
  <2>4. Online!Settle(left, "closed")
    BY <1>1, <1>3, <1>4, <2>1, <2>3, SeenOnline DEF Online!Settle
  <2>5. game'.eliminated \ {game'.impostor} = ((game.eliminated \ {game.impostor}) \ {}) \cup {p}
    BY <1>2, <1>3, <1>6
  <2>6. p \in (Active(game) \cup {game.impostor}) \ ({} \cup {game.impostor})
    BY <1>6
  <2>7. Online!VoteOut({}, p)
    BY <1>1, <2>4, <2>5, <2>6 DEF Online!VoteOut, left
  <2> QED BY <1>6, <2>7
<1> QED BY <1>5, <1>6

LEMMA GuessesIsStep ==
    ASSUME Fit(game), Guesses(game, game')
    PROVE  Online!Guess
<1>1. Stage = "guess" /\ Stage' = "over" /\ VoteOf(game') = VoteOf(game)
  BY DEF Guesses, Stage, VoteOf, VotePhases
<1>2. Active(game') = Active(game) /\ game'.impostor = game.impostor
      /\ game'.eliminated = game.eliminated /\ game'.outcome \in {"impostor", "citizens"}
  BY DEF Guesses, Active
<1> QED BY <1>1, <1>2, SeenOnline DEF Online!Guess

\* "Every rule here matches the online game": for every number of players and every clock, the
\* offline match is a match of Match, in which nobody leaves and no vote is silent.
THEOREM OnlineRulesAreKept == Spec => KeepsOnlineRules
<1>1. Init => Online!Init
  <2>1. SUFFICES ASSUME Init PROVE Online!Init
    OBVIOUS
  <2>2. PICK impostor \in Impostors : game = NewGame(impostor)
    BY <2>1 DEF Init
  <2>3. /\ game.phase = "roleReveal" /\ game.impostor = impostor /\ game.eliminated = {}
        /\ game.outcome = "none" /\ impostor \in Players
    BY <2>2, LocalAssumption DEF NewGame, Players
  <2> QED BY <2>3 DEF Online!Init, Stage, Active
<1>2. Whole /\ [Next]_vars => [Online!Next \/ Resume]_(Online!vars)
  <2>1. SUFFICES ASSUME Whole, [Next]_vars PROVE [Online!Next \/ Resume]_(Online!vars)
    OBVIOUS
  <2>2. CASE game' = game
    BY <2>2 DEF Online!vars, Stage, Active
  <2>3. CASE Played(game, game')
    <3>1. Fit(game) /\ {} \in SUBSET ((Active(game) \cup {game.impostor}) \cup (game.eliminated \ {game.impostor}))
      BY <2>1 DEF Whole
    <3>2. CASE Quiet(game, game') \/ Clears(game, game')
      BY <3>1, <3>2, QuietIsNoStep, ClearsIsNoStep
    <3>3. CASE Opens(game, game') \/ Casts(game, game') \/ Guesses(game, game')
      BY <3>1, <3>3, OpensIsStep, CastsIsStep, GuessesIsStep DEF Online!Next
    <3>4. CASE Ties(game, game') \/ Takes(game, game')
      BY <3>1, <3>4, TiesIsStep, TakesIsStep DEF Online!Next
    <3> QED BY <2>3, <3>2, <3>3, <3>4 DEF Played
  <2>4. CASE Resume
    BY <2>4
  <2> QED BY <2>1, <2>2, <2>3, <2>4, StepPlays DEF Whole
<1> QED BY <1>1, <1>2, WholeAlways, PTL DEF Spec, KeepsOnlineRules

-----------------------------------------------------------------------------
(* Ballots *)

\* Seats are numbered along the order of the players who are left.
LEMMA SeatsInOrder ==
    ASSUME NEW g, NEW p \in Active(g), NEW q \in Active(g), p < q
    PROVE  SeatOf(g, p) < SeatOf(g, q)
<1> DEFINE before == {x \in Active(g) : x < p}
           upto == before \cup {p}
           beyond == {x \in Active(g) : x < q}
<1>1. \A x \in Active(g) : x \in Int
  BY LocalAssumption DEF Active, Players
<1>2. IsFiniteSet(before) /\ IsFiniteSet(beyond) /\ Cardinality(before) \in Nat /\ Cardinality(beyond) \in Nat
  <2>1. before \in SUBSET Players /\ beyond \in SUBSET Players
    BY DEF Active
  <2> QED BY <2>1, PlayersAreFinite
<1>3. p \notin before /\ upto \in SUBSET beyond
  BY <1>1
<1> HIDE DEF before, beyond
<1>4. Cardinality(upto) = Cardinality(before) + 1
  BY <1>2, <1>3, FS_AddElement
<1>5. Cardinality(upto) <= Cardinality(beyond)
  BY <1>2, <1>3, FS_Subset
<1>6. Cardinality(before) < Cardinality(beyond)
  BY <1>2, <1>4, <1>5
<1> QED BY <1>6 DEF SeatOf, before, beyond

LEMMA SeatIsNumber ==
    ASSUME NEW g, NEW p \in Active(g)
    PROVE  SeatOf(g, p) \in 0 .. Cardinality(Active(g)) - 1
<1> DEFINE before == {x \in Active(g) : x < p}
<1>1. Active(g) \in SUBSET Players /\ before \in SUBSET (Active(g) \ {p})
  BY LocalAssumption DEF Active, Players
<1>2. IsFiniteSet(Active(g)) /\ Cardinality(Active(g)) \in Nat
  BY <1>1, PlayersAreFinite
<1> HIDE DEF before
<1>3. IsFiniteSet(Active(g) \ {p}) /\ Cardinality(Active(g) \ {p}) = Cardinality(Active(g)) - 1
  BY <1>2, FS_RemoveElement
<1>4. Cardinality(before) <= Cardinality(Active(g)) - 1 /\ Cardinality(before) \in Nat
  BY <1>1, <1>3, FS_Subset, FS_CardinalityType
<1>5. Cardinality(before) \in 0 .. Cardinality(Active(g)) - 1
  BY <1>2, <1>4
<1> QED BY <1>5 DEF SeatOf, before

LEMMA SeatsDiffer ==
    ASSUME NEW g, NEW p \in Active(g), NEW q \in Active(g), SeatOf(g, p) = SeatOf(g, q)
    PROVE  p = q
<1>1. p \in Int /\ q \in Int /\ SeatOf(g, p) \in Int /\ SeatOf(g, q) \in Int
  <2>1. p \in Int /\ q \in Int
    BY LocalAssumption DEF Active, Players
  <2>2. Cardinality(Active(g)) \in Nat
    BY PlayersAreFinite DEF Active
  <2> QED BY <2>1, <2>2, SeatIsNumber
<1>2. CASE p < q
  BY <1>1, <1>2, SeatsInOrder
<1>3. CASE q < p
  BY <1>1, <1>3, SeatsInOrder
<1> QED BY <1>1, <1>2, <1>3

\* No seat is empty.
LEMMA SeatIsTaken ==
    ASSUME NEW g, NEW s \in Nat, s < Cardinality(Active(g))
    PROVE  \E p \in Active(g) : SeatOf(g, p) = s
<1> DEFINE A == Active(g)
           n == Cardinality(A)
           f == [p \in A |-> SeatOf(g, p)]
<1>1. IsFiniteSet(A) /\ n \in Nat
  BY PlayersAreFinite DEF Active
<1> HIDE DEF n
<1>2. IsFiniteSet(0 .. n - 1) /\ Cardinality(0 .. n - 1) = n
  <2>1. 0 \in Int /\ n - 1 \in Int
    BY <1>1
  <2>2. IsFiniteSet(0 .. n - 1) /\ Cardinality(0 .. n - 1) = IF 0 > n - 1 THEN 0 ELSE n - 1 - 0 + 1
    BY <2>1, FS_Interval
  <2> QED BY <1>1, <2>2
<1>3. f \in [A -> 0 .. n - 1]
  BY SeatIsNumber DEF n
<1>4. \A p, q \in A : f[p] = f[q] => p = q
  BY SeatsDiffer
<1> HIDE DEF f, A
<1>5. f \in Injection(A, 0 .. n - 1)
  BY <1>3, <1>4 DEF Injection, IsInjective
<1>6. f \in Surjection(A, 0 .. n - 1)
  BY <1>1, <1>2, <1>5, FS_Injection DEF n
<1>7. s \in 0 .. n - 1
  BY <1>1 DEF n, A
<1>8. PICK p \in A : f[p] = s
  BY <1>6, <1>7 DEF Surjection
<1> QED BY <1>8 DEF f, A

\* The device is with the one player whose seat it is.
LEMMA HolderSits ==
    ASSUME NEW g, g.seat \in Nat, g.seat < Cardinality(Active(g))
    PROVE  /\ CurrentPlayer(g) \in Active(g) /\ SeatOf(g, CurrentPlayer(g)) = g.seat
           /\ \A p \in Active(g) : SeatOf(g, p) = g.seat => p = CurrentPlayer(g)
<1>1. \E p \in Active(g) : SeatOf(g, p) = g.seat
  BY SeatIsTaken
<1>2. CurrentPlayer(g) \in Active(g) /\ SeatOf(g, CurrentPlayer(g)) = g.seat
  BY <1>1 DEF CurrentPlayer
<1> QED BY <1>2, SeatsDiffer

Voting == {"voting", "runoff"}

\* Player p of g had the device, or has it with the ballot confirmed.
HasVoted(g, p) ==
    p \in Active(g) /\ (SeatOf(g, p) < g.seat \/ (SeatOf(g, p) = g.seat /\ g.ballotSaved))

\* BallotsAreWhole of g, and what it rests on: the device is with somebody, and a runoff begins
\* without a ballot.
Ballots(g) ==
    /\ g.phase \in Voting =>
          /\ g.seat \in Nat /\ g.seat < Cardinality(Active(g)) /\ g.ballotSaved \in BOOLEAN
          /\ \A p \in Players :
                IF HasVoted(g, p) THEN g.votes[p] \in CandidatesFor(g, p) ELSE g.votes[p] = None
    /\ g.phase = "tie" => g.votes = NoVotes /\ g.ballotSaved = FALSE

\* g and h agree on the ballots.
SameBallots(g, h) ==
    /\ h.phase = g.phase /\ h.seat = g.seat /\ h.ballotSaved = g.ballotSaved
    /\ h.votes = g.votes /\ h.eliminated = g.eliminated /\ h.runoff = g.runoff

LEMMA SameIsWhole ==
    ASSUME NEW g, NEW h, Ballots(g), SameBallots(g, h)
    PROVE  Ballots(h)
<1>1. Active(h) = Active(g)
  BY DEF SameBallots, Active
<1>2. \A p \in Players : (HasVoted(h, p) <=> HasVoted(g, p)) /\ CandidatesFor(h, p) = CandidatesFor(g, p)
  BY <1>1 DEF SameBallots, HasVoted, SeatOf, CandidatesFor
<1> QED BY <1>1, <1>2 DEF Ballots, SameBallots

\* A vote begins with the first player and without a ballot.
LEMMA EmptyIsWhole ==
    ASSUME NEW h, h.phase \in Voting, h.seat = 0, h.ballotSaved = FALSE, h.votes = NoVotes, Active(h) # {}
    PROVE  Ballots(h)
<1>1. \A p \in Players : ~HasVoted(h, p)
  <2>1. \A p \in Active(h) : SeatOf(h, p) >= 0
    <3>1. Cardinality(Active(h)) \in Nat
      BY PlayersAreFinite DEF Active
    <3> QED BY <3>1, SeatIsNumber
  <2>2. \A p \in Active(h) : SeatOf(h, p) \in Int
    <3>1. Cardinality(Active(h)) \in Nat
      BY PlayersAreFinite DEF Active
    <3> QED BY <3>1, SeatIsNumber
  <2> QED BY <2>1, <2>2 DEF HasVoted
<1>2. \A p \in Players : h.votes[p] = None
  BY DEF NoVotes
<1>3. 0 < Cardinality(Active(h))
  <2>1. IsFiniteSet(Active(h)) /\ Cardinality(Active(h)) \in Nat
    BY PlayersAreFinite DEF Active
  <2> QED BY <2>1, FS_EmptySet
<1>4. \A p \in Players : IF HasVoted(h, p) THEN h.votes[p] \in CandidatesFor(h, p) ELSE h.votes[p] = None
  BY <1>1, <1>2
<1>5. h.seat \in Nat /\ h.seat < Cardinality(Active(h))
  BY <1>3
<1>6. h.ballotSaved \in BOOLEAN
  OBVIOUS
<1>7. h.phase # "tie"
  BY DEF Voting
<1> QED BY <1>4, <1>5, <1>6, <1>7 DEF Ballots

LEMMA StartVotingIsWhole ==
    ASSUME NEW g, Fit(g), g.phase = "voteTransition"
    PROVE  Ballots(StartVoting(g))
<1> DEFINE h == StartVoting(g)
<1>1. /\ h.phase = "voting" /\ h.seat = 0 /\ h.ballotSaved = FALSE /\ h.votes = NoVotes
      /\ h.eliminated = g.eliminated
  BY DEF StartVoting, Fit, Fields
<1>2. Active(h) # {}
  BY <1>1 DEF Fit, Active, RoundPhases, ClosedPhases
<1> HIDE DEF h
<1>3. h.phase \in Voting
  BY <1>1 DEF Voting
<1>4. Ballots(h)
  BY <1>1, <1>2, <1>3, EmptyIsWhole
<1> QED BY <1>4 DEF h

LEMMA StartRunoffIsWhole ==
    ASSUME NEW g, Fit(g), Ballots(g), g.phase = "tie"
    PROVE  Ballots(StartRunoff(g))
<1> DEFINE h == StartRunoff(g)
<1>1. /\ h.phase = "runoff" /\ h.seat = 0 /\ h.ballotSaved = FALSE /\ h.votes = NoVotes
      /\ h.eliminated = g.eliminated
  BY DEF StartRunoff, Fit, Fields, Ballots
<1>2. Active(h) # {}
  BY <1>1 DEF Fit, Active, RoundPhases, VotePhases
<1> HIDE DEF h
<1>3. h.phase \in Voting
  BY <1>1 DEF Voting
<1>4. Ballots(h)
  BY <1>1, <1>2, <1>3, EmptyIsWhole
<1> QED BY <1>4 DEF h

\* A confirmed ballot is the one of who has the device.
LEMMA ConfirmIsWhole ==
    ASSUME NEW g, Fit(g), Ballots(g), g.phase \in Voting, g.ballotSaved = FALSE,
           NEW target \in CandidatesFor(g, CurrentPlayer(g))
    PROVE  Ballots(ConfirmVote(g, target))
<1> DEFINE v == CurrentPlayer(g)
           cast == [g.votes EXCEPT ![v] = target]
           h == ConfirmVote(g, target)
<1>1. h = [g EXCEPT !.votes = cast, !.ballotSaved = TRUE]
  BY DEF ConfirmVote
<1>2. /\ v \in Active(g) /\ SeatOf(g, v) = g.seat
      /\ \A p \in Active(g) : SeatOf(g, p) = g.seat => p = v
  BY HolderSits DEF Ballots
<1> HIDE DEF h, v
<1>3. v \in Players /\ \A p \in Players : cast[p] = IF p = v THEN target ELSE g.votes[p]
  BY <1>2 DEF Fit, Active
<1> HIDE DEF cast
<1>4. /\ h.phase = g.phase /\ h.seat = g.seat /\ h.ballotSaved = TRUE /\ h.votes = cast
      /\ h.eliminated = g.eliminated /\ h.runoff = g.runoff
  BY <1>1 DEF Fit, Fields
<1>5. Active(h) = Active(g) /\ \A p \in Players : SeatOf(h, p) = SeatOf(g, p) /\ CandidatesFor(h, p) = CandidatesFor(g, p)
  BY <1>4 DEF Active, SeatOf, CandidatesFor
<1>6. ASSUME NEW p \in Players
      PROVE  IF HasVoted(h, p) THEN h.votes[p] \in CandidatesFor(h, p) ELSE h.votes[p] = None
  <2>1. HasVoted(h, p) <=> HasVoted(g, p) \/ p = v
    BY <1>2, <1>4, <1>5 DEF HasVoted
  <2>2. target \in CandidatesFor(g, v)
    BY DEF v
  <2>3. IF HasVoted(g, p) THEN g.votes[p] \in CandidatesFor(g, p) ELSE g.votes[p] = None
    BY DEF Ballots
  <2> QED BY <1>3, <1>4, <1>5, <2>1, <2>2, <2>3
<1>7. Ballots(h)
  BY <1>4, <1>5, <1>6 DEF Ballots, Voting
<1> QED BY <1>7 DEF h

\* The device goes on to the next player, or the vote is over.
LEMMA FinishIsWhole ==
    ASSUME NEW g, Fit(g), Ballots(g), g.phase \in Voting, g.ballotSaved = TRUE
    PROVE  Ballots(FinishVote(g))
<1> DEFINE next == [g EXCEPT !.revealed = FALSE, !.ballotSaved = FALSE, !.seat = g.seat + 1]
           last == [next EXCEPT !.seat = 0]
           k == FinishVote(g)
<1>1. k = IF next.seat < Cardinality(Active(g)) THEN next ELSE Tally(last)
  BY DEF FinishVote
<1>2. /\ next.phase = g.phase /\ next.seat = g.seat + 1 /\ next.ballotSaved = FALSE
      /\ next.votes = g.votes /\ next.eliminated = g.eliminated /\ next.runoff = g.runoff
  BY DEF Fit, Fields
<1>3. /\ Fields \subseteq DOMAIN last /\ last.ballotSaved = FALSE /\ Moved(g, last)
      /\ last.votes = g.votes /\ last.phase = g.phase
  BY DEF Fit, Fields, Moved
<1> HIDE DEF next, last, k
<1>4. CASE next.seat < Cardinality(Active(g))
  <2>1. Active(next) = Active(g) /\ \A p \in Players : SeatOf(next, p) = SeatOf(g, p) /\ CandidatesFor(next, p) = CandidatesFor(g, p)
    BY <1>2 DEF Active, SeatOf, CandidatesFor
  <2>2. \A p \in Active(g) : SeatOf(g, p) \in Int
    <3>1. Cardinality(Active(g)) \in Nat
      BY PlayersAreFinite DEF Active
    <3> QED BY <3>1, SeatIsNumber
  <2>3. g.seat \in Nat
    BY DEF Ballots
  <2>4. \A p \in Players : HasVoted(next, p) <=> HasVoted(g, p)
    BY <1>2, <2>1, <2>2, <2>3 DEF HasVoted
  <2>5. \A p \in Players : IF HasVoted(g, p) THEN g.votes[p] \in CandidatesFor(g, p) ELSE g.votes[p] = None
    BY DEF Ballots
  <2>6. \A p \in Players :
            IF HasVoted(next, p) THEN next.votes[p] \in CandidatesFor(next, p) ELSE next.votes[p] = None
    BY <1>2, <2>1, <2>4, <2>5
  <2>7. next.seat \in Nat
    BY <1>2, <2>3
  <2>8. next.seat < Cardinality(Active(next))
    BY <1>4, <2>1
  <2>9. next.ballotSaved \in BOOLEAN
    BY <1>2
  <2>10. next.phase # "tie"
    BY <1>2 DEF Voting
  <2>11. Ballots(next)
    BY <2>6, <2>7, <2>8, <2>9, <2>10 DEF Ballots
  <2> QED BY <1>1, <1>4, <2>11 DEF k
<1>5. CASE ~(next.seat < Cardinality(Active(g)))
  <2>1. Fit(last)
    BY <1>3, PlayedIsFit DEF Played, Quiet
  <2>2. Takes(last, Tally(last)) \/ Ties(last, Tally(last))
    BY <1>3, <2>1, TallyPlays DEF Voting
  <2>3. Tally(last).phase \notin Voting
    BY <2>2 DEF Takes, Ties, Voting
  <2>4. Tally(last).phase = "tie" => Tally(last).votes = NoVotes /\ Tally(last).ballotSaved = FALSE
    <3>1. CASE Takes(last, Tally(last))
      BY <3>1 DEF Takes
    <3>2. CASE Cardinality(Top(last)) = 1
      <4>1. IsFiniteSet(Top(last))
        BY PlayersAreFinite DEF Top, Active
      <4>2. PICK c : Top(last) = {c}
        BY <3>2, <4>1, FS_Singleton
      <4>3. Tally(last) = Eliminate(last, CHOOSE p \in Top(last) : TRUE)
        BY <3>2 DEF Tally
      <4>4. Eliminate(last, CHOOSE p \in Top(last) : TRUE).phase # "tie"
        BY <2>1 DEF Eliminate, End, Fit, Fields
      <4> QED BY <4>3, <4>4
    <3>3. CASE Cardinality(Top(last)) # 1
      <4>1. Tally(last) \in {[last EXCEPT !.runoff = Top(last), !.votes = NoVotes, !.phase = "tie"],
                             [last EXCEPT !.votes = NoVotes, !.phase = "tieAgain"]}
        BY <3>3 DEF Tally
      <4> QED BY <1>3, <4>1 DEF Fields
    <3> QED BY <3>2, <3>3
  <2>5. Ballots(Tally(last))
    BY <2>3, <2>4 DEF Ballots
  <2> QED BY <1>1, <1>5, <2>5 DEF k
<1> QED BY <1>4, <1>5

\* What leaves the vote alone, or is no part of one.
LEMMA OthersAreWhole ==
    ASSUME NEW g, Fit(g), Ballots(g)
    PROVE  /\ Ballots(Reveal(g)) /\ Ballots(HidePrivateContent(g)) /\ Ballots(Restored(g))
           /\ g.phase = "roleReveal" => Ballots(RoleSeen(g))
           /\ Ballots(StartRound(g)) /\ Ballots(NextRound(g))
           /\ g.phase = "hints" => Ballots(HintSpoken(g))
           /\ \A outcome : Ballots(End(g, outcome))
           /\ Ballots([g EXCEPT !.seconds = g.seconds - 1])
<1>1. /\ SameBallots(g, Reveal(g)) /\ SameBallots(g, HidePrivateContent(g)) /\ SameBallots(g, Restored(g))
      /\ SameBallots(g, [g EXCEPT !.seconds = g.seconds - 1])
  BY DEF Fit, Fields, SameBallots, Reveal, HidePrivateContent, Restored
<1>2. /\ Ballots(StartRound(g)) /\ Ballots(NextRound(g))
      /\ \A outcome : Ballots(End(g, outcome))
  BY DEF Fit, Fields, Ballots, StartRound, NextRound, End, Voting
<1>3. /\ g.phase = "roleReveal" => Ballots(RoleSeen(g))
      /\ g.phase = "hints" => Ballots(HintSpoken(g))
  BY DEF Fit, Fields, Ballots, RoleSeen, HintSpoken, Voting
<1> QED BY <1>1, <1>2, <1>3, SameIsWhole

\* With Whole, inductive.
Counted == Whole /\ Ballots(game) /\ (saved # None => Ballots(saved))

LEMMA BallotsNext ==
    ASSUME Counted, [Next]_vars
    PROVE  Ballots(game')
<1>1. Fit(game) /\ Ballots(game) /\ (saved # None => Fit(saved) /\ Ballots(saved))
  BY DEF Counted, Whole
<1>2. CASE SaysItIsThem \/ Covered \/ Leave
  BY <1>1, <1>2, OthersAreWhole DEF SaysItIsThem, Covered, Leave, Apply
<1>3. CASE \E target \in Players : CastsBallot(target)
  <2>1. game.ballotSaved \in BOOLEAN
    BY <1>1, <1>3 DEF CastsBallot, Ballots, Voting
  <2> QED BY <1>1, <1>3, <2>1, ConfirmIsWhole DEF CastsBallot, Apply, Voting
<1>4. CASE HandsOn
  <2>1. CASE game.phase \in {"voting", "runoff"} /\ game.ballotSaved /\ game' = FinishVote(game)
    <3>1. game.ballotSaved = TRUE
      BY <1>1, <2>1 DEF Ballots, Voting
    <3> QED BY <1>1, <2>1, <3>1, FinishIsWhole DEF Voting
  <2>2. CASE game.phase = "tie" /\ game' = StartRunoff(game)
    BY <1>1, <2>2, StartRunoffIsWhole
  <2>3. CASE game.phase = "guess" /\ \E correct \in BOOLEAN : game' = SubmitGuess(game, correct)
    BY <1>1, <2>3, OthersAreWhole DEF SubmitGuess
  <2> QED BY <1>1, <1>4, <2>1, <2>2, <2>3, OthersAreWhole DEF HandsOn, Moves, Apply
<1>5. CASE Ticks
  <2>1. game' = Tick(game) /\ game.phase \in {"hints", "voteTransition", "guess"}
    BY <1>5 DEF Ticks, Apply, TimerShouldRun
  <2>2. \/ game' = [game EXCEPT !.seconds = game.seconds - 1]
        \/ game.phase = "hints" /\ game' = HintSpoken(game)
        \/ game.phase = "voteTransition" /\ game' = StartVoting(game)
        \/ game.phase = "guess" /\ game' = End(game, "citizens")
    BY <2>1 DEF Tick
  <2> QED BY <1>1, <2>2, OthersAreWhole, StartVotingIsWhole
<1>6. CASE Returns \/ Close \/ Write \/ Kill
  BY <1>1, <1>6 DEF Returns, Close, Write, Kill
<1>7. CASE Resume
  <2>1. game' = game \/ (saved # None /\ game' = Restored(saved))
    BY <1>7 DEF Resume
  <2> QED BY <1>1, <2>1, OthersAreWhole
<1>8. CASE UNCHANGED vars
  BY <1>1, <1>8 DEF vars
<1> QED BY <1>2, <1>3, <1>4, <1>5, <1>6, <1>7, <1>8 DEF Next

\* No kill, tie, runoff or restored copy loses a ballot or counts one twice: exactly those who
\* had the device have voted, each for somebody they may vote for (confirmVote, finishVote).
THEOREM BallotsStayWhole == Spec => []BallotsAreWhole
<1>1. Init => Counted
  <2>1. SUFFICES ASSUME Init PROVE Counted
    OBVIOUS
  <2>2. game.phase = "roleReveal" /\ saved = None
    BY <2>1 DEF Init, NewGame
  <2> QED BY <2>1, <2>2, WholeInit DEF Counted, Ballots, Voting
<1>2. Counted /\ [Next]_vars => Counted'
  <2>1. SUFFICES ASSUME Counted, [Next]_vars PROVE Counted'
    OBVIOUS
  <2>2. Whole'
    BY <2>1, FitNext, SecretsNext DEF Counted, Whole
  <2>3. Ballots(game')
    BY <2>1, BallotsNext
  <2>4. saved' \in {saved, game, None}
    BY <2>1 DEF Next, vars, SaysItIsThem, CastsBallot, HandsOn, Moves, Ticks, Apply, Covered, Returns, Leave,
           Close, Write, Kill, Resume
  <2>5. saved' # None => Ballots(saved')
    BY <2>1, <2>4 DEF Counted
  <2> QED BY <2>2, <2>3, <2>5 DEF Counted, Ballots, HasVoted, Active, SeatOf, CandidatesFor
<1>3. Counted => BallotsAreWhole
  BY DEF Counted, Ballots, HasVoted, BallotsAreWhole, Voting
<1> QED BY <1>1, <1>2, <1>3, PTL DEF Spec
=============================================================================

# Imposter-IL: a verification development

Imposter-IL is a social-deduction game: four to eight players get a secret word, one of them
is an impostor who does not know it, everybody gives one-word hints, and the table votes the
impostor out or fails to. A Go server (`server/`) runs every online match; a Flutter app
(`app/`) is its client and also plays whole matches offline, on one shared phone.

This directory holds TLA+ models of that code, the TLC runs that check them on small
instances, and proofs checked by TLAPS. Paths below are relative to the repository, line
numbers refer to the commit the models were written from. `PROJECT.json` lists the
components, the runs, the source lines behind every definition, mutants that show that each
property can fail, the hazards the properties are aimed at, and the theorems.

    tlc -workers 2 -config game_votes.cfg MCGame.tla     # a run: module and cfg as in PROJECT.json
    tlapm GameProofs.tla                                  # the proofs of one module; a few minutes at most

## 1. The system

The server is a set of pure state machines under one mutex. `internal/game` and
`internal/room` never read a clock, never block, and get `now` with every call;
`internal/api` owns the mutex, the sockets and the timers, and calls them. So concurrency
shows up as the *order* in which commands, timers, drops and returns reach a machine, and
every such order is possible: that is what the models quantify over.

| Part | Source | State it keeps | Operations |
|---|---|---|---|
| Match engine | `server/internal/game/game.go` | players (status, connection, counted drops, pending strike, acknowledgement), phase and its deadline, turn and its clock, candidates, ballots, silent votes, result; the board of hints | New, MarkOffline, Tick; ConfirmRole, SubmitHint, React, Vote, SubmitGuess, ContinueAfterElimination, Leave; Disconnect, Reconnect |
| Word rules | `server/internal/game/words.go` | none | normalise, compare hints, find the secret in a hint, match a guess |
| Room | `server/internal/room/room.go` | members in join order, host, host timer, who lost the room on a timeout, settings and their lock, the match | Join, Leave, Kick, UpdateSettings, Start, StartByServer, WithGame, Disconnect, Reconnect, Tick |
| Matchmaking | `server/internal/matchmaking`, `internal/api/matchmaking.go` | per forming match its timers; per searcher the categories, the start of the search, when the connection went | join, cancel, tickSearch, settleFinishedMatch, publishSearch |
| Sessions and connections | `internal/api/{ws,api,game}.go` | sessions by token, their socket, room and game; rooms by id and code; state versions, timers | create, attach, detach, every command, publish, sync, schedule |
| Reply cache | `internal/api/ws.go:503-544` | the last replies by message id | get, put, prune |
| Rate limits | `internal/api/limits.go` | token buckets | allow, sweep |
| Entitlements | `internal/api/monetization.go` | what a session may play | sync with the stores, rewarded unlock, use of a reward |
| Reaper | `internal/api/reaper.go` | when sessions were seen, since when rooms are empty | reap |
| Operations | `internal/api/ops.go`, `cmd/server` | draining | Drain, AbortGames, recovery after a panic |
| Staging bots | `internal/api/staging_bots.go` | bots in forming matches | rebalance, play, remove |
| App: online session | `app/lib/state/game_session.dart` | connection, last versions, pending leave and cancel, recorded outcomes | connect loop, message handler, commands |
| App: local match | `app/lib/local/local_game.dart` | a match on one phone, and its saved form | reveal, hints, votes, runoff, guess, restore |
| App: monetization, screens | `app/lib/{monetization,screens,widgets}` | store state, widgets | purchases, ads, layout |

Calls go down only: a socket command reaches `dispatch` under the mutex, then a `Room`
method, which calls the `Game` method of the same name and then `syncGame`, which takes the
players the match lost out of the room and returns the room to its lobby when the match is
over. After every command the api publishes the state and re-arms the room's timer at
`Room.Deadline()`. State goes up as versioned snapshots; the app shows only newer ones.

### What is hard in it, and what makes it correct

*Match engine.* Seven kinds of event move a match (votes, acknowledgements, hints, guesses,
exits, drops and returns, time), and four of them can complete a vote or a reveal and decide
the match. Correct means: nobody is waited for in vain; a ballot counts exactly while its
voter and its candidate are at the table; a match that is decided ends in that step, with the
right verdict, once; a connection that flaps neither buys time nor costs more than the rule
says; a table that has gone is called off.

*Room.* The host may go in five ways (leave, be removed, time out with and without
somebody to take over, be offline when handed the room). Correct means: a host is a member;
the timer runs exactly while the host is away; handovers go to the longest-present connected
member; room and match agree on who is in.

*Matchmaking.* Five clocks per forming match, searchers who drop, and one room object that
is a forming match, a running one and a finished one in turn. Correct means: nobody is dealt
in while offline or by a stale countdown, nobody loses a place by a short drop, searchers of
a match share a category.

*Sessions and connections.* Sockets are replaced while the old one is still closing;
sessions die between lookup and attach; commands are repeated after lost replies. Correct
means: a session's state names the room and match it is in; a replaced socket never
disconnects its successor; a command takes effect at most once per id.

*Reply cache, rate limits.* Two clean-ups (by size, by age) and a sweep forget things. Correct
means: nothing forgotten changes what a device may do, and no command runs twice by mistake.

*Entitlements.* Verification runs outside the mutex, and three things grant a category: a
purchase, a subscription that lapses, and a reward for one match. Correct means: what a
session may play is what a sync found, and a reward opens one match.

*Reaper.* Correct means: it takes only what has been idle for the whole of its TTL, and in the
end everything that is idle.

*App.* A session that was lost, messages of earlier connections, commands made while
offline. Correct means: once nothing is under way the app shows what the server has; a leave
or cancel is not lost; each outcome is recorded once. The local match is killed and restored
at any moment. Correct means: no secret appears to the wrong player, no ballot is lost, and
every step is one of the online rules.

The hazards behind these sentences are listed one by one, with their lines and the properties
that cover them, in `PROJECT.json`.

## 2. The modules

| Module | Models | Kind |
|---|---|---|
| `Game` | `game.go` | state machine, properties, mutants |
| `Match` | what a match promises | abstract specification, implemented by `Game` and by `LocalGame` |
| `Roster` | what a match shows its room | abstract specification, implemented by `Game`, used by `Room` |
| `MCGame` | durations for the instances of `Game` | model checking |
| `GameProofs`, `GameSafetyProofs` | safety of `Game`; that it implements `Roster` and `Match` | TLAPS |
| `Room` | `room.go`, with a `Roster` inside | state machine, properties, mutants |
| `MCRoom` | the loop of `syncGame`; a documented claim | model checking |
| `RoomProofs` | safety of `Room` | TLAPS |
| `Connections` | `ws.go`, `api.go`, `game.go`, and what `reaper.go` and `ops.go` do to sessions and rooms | state machine, properties, mutants |
| `MCConnections` | symmetry; a documented claim | model checking |
| `ConnectionsProofs` | safety of `Connections` | TLAPS |
| `Matchmaking` | `matchmaking.go` of both packages, with the parts of `ws.go` and `game.go` that call them | state machine, properties, mutants |
| `MatchmakingProofs` | safety of `Matchmaking` | TLAPS |
| `ReplyCache`, `RateLimit`, `Entitlements` | the data structures of `ws.go`, `limits.go`, `config.go` and `monetization.go` | operators |
| `Upkeep` | the handlers and the reaper that use those three | state machine, properties, mutants |
| `UpkeepProofs` | safety of `Upkeep` | TLAPS |
| `LocalGame` | `local_game.dart`, `local_store.dart`, `local_screens.dart` | state machine, properties, mutants |
| `LocalProofs` | safety of `LocalGame`; that it implements `Match` | TLAPS |
| `ClientSession` | `game_session.dart`, and the server as it sees it | state machine of both sides, properties, mutants |
| `ClientProofs` | safety of `ClientSession` | TLAPS |

How they hang together:

    LocalGame --implements--> Match <--implements-- Game --implements--> Roster <--is built on-- Room
    Upkeep = ReplyCache + RateLimit + Entitlements + reaper
    Connections, Matchmaking: many rooms, each as much of a Room as who is where depends on
    ClientSession: the app, two queues, and one session of the server

So a property of `Room` holds with every match that `Game` can play inside it, and the two
implementations of the rules, in Go and in Dart, are held to one specification.

### Game

The Go struct is the record `game`; its unexported methods (`startTurn`, `tally`,
`removeAll`, ...) are operators from a match to the match they leave behind, its exported
methods are actions that compose them in the order of the code. A player is a seat in the
shuffled order, so the deal is the choice of the impostor's seat.

*Time.* `Tick` handles the deadlines that have passed one at a time, each at its own
instant, strikes before phases, and every command calls it first. A late timer therefore
computes what a punctual one would have. The model keeps every deadline as the time left
until it: `Elapse` takes one unit off all of them when none is due; while one is due only
`Strike` or `Timeout` can happen, which are the two branches of Tick's loop. All players
whose strike falls on the same instant are struck together, as in the code.

*Abstracted.* Words, hints and guesses: an accepted hint moves on, a refused one changes
nothing, a guess is right or wrong by choice. The board, its reactions and the round number
are written by the transitions but never read by them. `version` counts changes. The
recorded vote rounds and abstentions only go into the result screen; that no abstention
count is negative is part of `BallotsAreSound`.

### Room

The Go struct is the record `room`; `present`, `online`, `over` are the match, moving by the
actions of `Roster`. `MatchMoves` is any command or deadline of the match that is not a
leave, drop or return, followed by `syncGame`. The host's timer is off, running or due; when
it is due, no command is possible before `HostTimeout`, because every command calls `Tick`,
but the match may still move first, because `Tick` sees to the match first.

`syncGame` removes players in a loop that may hand the room on several times. `SyncGame`
states where it ends. TLC compares it with the loop (`SyncIsTheLoop`, an assumption of `MCRoom`,
evaluated whenever the module is checked): every room of up to four, every set of members taken
out of it, in every order.

The error paths where the match refuses what the room has already recorded are not
actions: `SeatedTogether` is the reason why they cannot be reached.

### Connections

`session`, `socket` and `rooms` are the server's maps, each entry cut down to what decides who
is where: of a session its socket (`conn`), its room (`roomID`) and the match it shows (`game`,
`gameRoom`); of a room its members, those it takes to be online, whether it plays, and how many
matches it has started, so that a match is named by its room and number. `roomID` may be stale
in the code and is stale in the model in the same places; `CurrentRoom` reads through it.

Every handler runs under one mutex and is one action. Two things are not atomic in the code and
not in the model. `serveWS` looks the session up, upgrades without the mutex and attaches under
it again: `Upgrade`, `Attach`, with `ReapSession` able to come between. A socket that was
cancelled, by its client, a missed pong, a full queue or a newer socket, ends some time later:
`Hangup` (or `Attach` of the newer one), `Detach`, and a frame it had read is still handled in
between (`CanCommand`).

*Abstracted.* Any member may do what its host may (`Kick`, `Start`), and every exit, drop
and strike may end the match, so `MatchMoves` and the exits leave open whether it goes on;
that is a superset of what `Room` and `Game` allow. Time is left out: `ReapSession` and
`ReapRoom` may come whenever their other conditions hold. Online rooms, bots and the snapshots
sent to the apps are not here. `Abort` is what is left of a panic: the room's state is
not trusted and is dropped, so how far the failed command got inside the room does not
matter; a panic between the change of a room and of the session that entered it is not modelled.

### Matchmaking

One public room is in turn a forming match, a running one and one that has just ended. `player`
is the part of the session a search reads (its socket, the match it shows, the categories, the
no-match time, the grace after a drop), `room` the members, the phase and the two clocks of
`Timers`. Every helper of `api/matchmaking.go` is an operator from the state in the middle of
a handler (`all`) to the next one, so that handlers compose them as the code does:
`TickRoom` is `TickSearch` followed by `SettleFinishedMatch`, as `syncSession` runs them.

The five clocks are the time left until each. A search timer may fire late; the model lets
any command come before it, and `SearchDue` is when `searchDeadline` has passed. A room that
ends is settled within the same handler; no state of the model shows a room in `ended`.

*Abstracted.* The bots the staging server fills matches with; languages (a category stands
for one in a language); the order in which several members are removed in one walk, on which
only the snapshots depend. The match inside is what `Roster` allows. `Overtaken` names players
with a command that outlives its socket *and* the next one (see section 5); it is empty in the
run.

### Upkeep, with ReplyCache, RateLimit and Entitlements

One device and its session, as far as it is not about matches: the replies kept for its
commands, its token bucket, the entitlement syncs under way, what it holds, its reward, its
private room as the reaper sees it. The three modules below it are the data structures; every
handler that touches them is an action of `Upkeep`, with `Reap` for one pass of the reaper.
Times are ages that stop counting where the code's comparisons do. `ReplyCache` keeps both the
map and the queue of the code, because they disagree after an id was used again.

Three fields are history, read by properties only: what ran (`ran`), the bucket as it would be
had nobody swept (`unswept`), and the rewards not yet played on (`credit`). So is
`store.settled`: the products whose holding the last sync that ended could not have missed.

`Habits` bounds each behaviour to one kind of thing a device does - commands, its room,
purchases, or rewards with purchases. The parts share no state except the session's clock,
which the reaper reads and every habit sets, so nothing is lost by checking them one at a
time.

### LocalGame

The Dart class is the record `game`; `saved` is the copy on the device, `todo` what the store
has still to write, `app` whether the screen is open, covered, leaving or closed. The write of
the copy is a step of its own, `Write`, that takes the match as it is when it begins, and
`Kill` may come before or after it; `Resume` goes on from whatever copy there is. `holder` is
history: who has said that the device is in their hands since it last changed hands, was
covered, or was restored. Spoken hints have no order that matters; turns are counted by time.

### ClientSession

Both ends of one connection: the app (`app`), the server's session (`server`), and the two
queues between them, which keep their order. A drop loses what is on its way, but a command
may have arrived; every new connection starts with `session.state`. Calls of the app stay open
(`calls`) until their reply or the end of the connection comes. `StartSearch`, `PlayAgain`,
`CancelSearch` and `LeaveGame` are the screen's calls; offline, the last two become
`cancelPending` and `leavePending`, which `SessionState` repeats.

`Decide` ends a match with a win, a loss or, when the table went silent, with `none`, which
calls it off for everybody; `Remove` is the removal for disconnects, of which the player, who is
away, is told with the next connection. Both are told in messages that carry what they say:
`Over` is the `game.state` of a match that has ended or goes on without the player, and
`session.state` has the outcome of the match left last. `Count` is `_record` with all its guards
- nothing for `none`, nothing twice - and takes the outcome from the message, so that one under
way when the server restarts still counts, although the server has forgotten it. `truth`,
`removed` and `since` (the last match before a restart) keep what the session itself forgets,
for the properties; no step after a restart reads of them what was before it.

*Bounds.* One call of a screen at a time; nothing times out on a connection that lives; a
command of an old connection is handled before the new one is attached, or never; the server
does nothing on its own while `MaxDown` messages are on their way. A screen makes no call
while a state that makes it the wrong call is on its way, save those in `Races`; what happens
then is in section 5. Parking in the background is a `Drop`. Being replaced by another phone
is left out. So are the `rate_limited` answers to commands: a cancel or a leave is repeated
once per connection, failed connections are at least two seconds apart (`game_session.dart:17`,
`:387`), and a session may send ten commands a second and sixty at once (`limits.go:32-33`).
A match the server aborts for an error of its own (`game.aborted`, `game_session.dart:506`) and
the matches of private rooms are left out as well.

## 3. The runs

| Run | Instance | Shows |
|---|---|---|
| `game_votes` | 4 players, all may leave, impostor in seat 1 or 3, nobody drops | `BallotsAreSound`, `UndecidedWhileLive`, `VerdictIsFair`, `KeepsPromise` |
| `game_drops` | 4 players, two of them drop and return, the first counted drop removes, reconnect window as long as the turn | `NobodyAwaitedInVain`, `TurnHasHolder`, `StrikesAreEarned`, `NoStrikeIsSpared`, `BallotsAreKept`, `TurnClockNeverGrows`, `KeepsRoster` |
| `game_progress` | 4 players, one flaps, fairness of the timer | `QuietTableEnds`, `TableMovesOn` |
| `room` | 4 players, capacity 2 to 4, start with 2 | `RoomHasHost`, `AbsentHostIsTimed`, `SeatedTogether`, `RoomFits`, `HandoverIsFair`, `AbsentHostIsReplaced` |
| `connections` | 3 players, 2 sockets, 2 rooms of 2, 2 matches each | `SeatsAreKnown`, `OnlineMeansSocket`, `SocketsAreOwned`, `OneActivity` |
| `matchmaking` | 3 players, 2 of them drop and return, 2 rooms, 2 categories, matches of 2 or 3, all five clocks | `InOneMatch`, `SearchersShare`, `TimersFollowSearchers`, `NobodyDealtOffline`, `MatchIsSeenOut`, `StartIsNotPostponed`, `SearchesEnd` |
| `upkeep` | 2 message ids for a cache of 1, a bucket of 2, a subscription and a category, 2 syncs at once, 4 habits | `CacheKnowsWhatRan`, `SweepGrantsNothing`, `SyncTakesEffect`, `RewardOpensOneMatch`, `IdleGoes` |
| `local` | 5 players, the impostor in seat 2, all clocks | `SecretsAreHandedOver`, `BallotsAreWhole`, `KeepsOnlineRules` |
| `client` | 3 matches, 4 messages under way | `QuietAppAgrees`, `ResultsAreCounted` |
| `room_claim_rejoin`, `connections_claim_shown`, `client_claim_cancel` | small | statements of the repository that the code does not keep (section 5) |

*Bounds of the matches.* The constants `Impostors`, `Flaky` and `Leavers` bound who may be the
impostor, whose connection may drop and who may walk out; they only remove behaviours. Four
is the smallest match the server deals, and the one in which everything interesting is
close: one exit or vote-out leaves parity or three players, a vote can tie two against two or
one each, a runoff can leave a candidate alone. Durations keep the order of the real ones and
are long enough that a player can drop and return inside a turn, and in `game_drops` that a
window can outlast what is left of it. Nothing counts without bound: rounds go round. The
proofs remove the bounds for everything but liveness.

*Of rooms and connections.* In `Room` matches and members come and go for ever; four players
suffice for a removed host, a candidate who is offline, one who is connected and one who was
removed as well. The real minimum to start is four; two in the model gives shorter ways into a
match and leaves players outside to join. In `Connections` two sockets are one that ends while
a newer one of the same player is attached; the third player is the one who finds a room full
or changes it while the others are away; two rooms are the one left and the one entered; the
second match of a room is the one that makes the match a session shows an earlier one. Sockets
are used again after they end; session, room and match ids are random in the code and are never
used again.

*Of searches.* Three players are a match that can lose one and stay a match, lose two, and
become full; two rooms, a forming match beside a running one or another forming one; two
categories, somebody who would play either and shares one with each of two players who share
none. The clocks have the
order of the real ones and lengths at which each can run out before, with and after each other.

*Of upkeep.* Two ids are one repeated and one that pushes it out of a cache of size one. A TTL
of two makes a reply that is kept, one that is old, and an overwritten one whose first use is
dropped. A bucket of two can be empty, half and full. Two syncs can overlap in every way.

*Of the local match.* Five players are a tie between two with one left over, a tie between
three, a runoff, a second tie, and two eliminations before parity. The proofs remove the bound.

*Of the app.* A match left offline, one it was dealt into meanwhile, and a third; each is won, lost
or called off, with or without a removal before. Four messages
are a state, the end of a match, a state and a reply in one queue.

*Deadlock* is checked for `Room`. The `Game` and `local` runs switch it off: a match that is
over stops, and so does a phone without a copy. So do `connections`, where all sessions and
rooms may have been reaped, `client`, where the matches run out, and `matchmaking` and
`upkeep`, whose liveness runs say more. `connections` is symmetric in players, sockets and
rooms; it checks no liveness.

*Fairness.* `Game`: weak fairness of `Tick` and nothing else. After every change the server
arms a timer at `Deadline()` and calls `Tick` when it fires (`api/ws.go:325-353`), so time and
expired deadlines cannot be withheld; no player is assumed to act. `QuietTableEnds` and
`TableMovesOn` hold against players who flap, vote or stay silent as they like.
`Room`: weak fairness of the host's timer running out and of `HostTimeout`, for the same
reason. No fairness is put on members or on the match.
`Matchmaking`: weak fairness of time and of each room's search timer, armed by the same
`schedule`; nobody is assumed to cancel, return or leave, and no match to end.
`Upkeep`: weak fairness of time and of the reaper, which runs on a ticker (`reaper.go:34`); only
`IdleGoes` needs it, and it assumes a device that is never heard of again.

*Mutants.* A definition called `Bug...` is a plausible mistake in the definition after it;
`PROJECT.json` names for every property the one that breaks it.

## 4. The proofs

Every theorem holds for every value of the constants under the assumptions their module
declares, and so also without the bounds: all seats may be impostor, flaky and leavers. Facts
about finite sets come from `FiniteSetTheorems`.

### GameProofs: the match is sound

`Soundness`, and from it `TypeCorrect` (`TypeOK`), `TurnsAreHeld` (`TurnHasHolder`),
`BallotsCount` (`BallotsAreSound`), `NeverStuckUndecided` (`UndecidedWhileLive`) and
`OnlyAbsenceIsPunished` (`StrikesAreEarned`).

The five properties are not inductive one by one. That a vote's candidates can be put out
without deciding the match depends on there being two citizens; that depends on every exit
and every elimination counting heads; that the count is right depends on the impostor still
playing; and that a removal never takes out somebody who is present depends on strikes
pending only for the offline. `IInv` (`Sound(game)`) is their conjunction, split by whether
the match is `Running` or `Ended`, together with the type of the record.

The proof has the shape of the code. Handlers call methods on a match that is half changed:
`removeAll` has taken players out but not yet counted heads, `tally` is about to end the
vote. `Open` is what such a match still guarantees, and each method is one lemma: from
`Open` (or `Sound`) to `Sound`. Each action's lemma composes those of the methods it calls,
and `NextSound` has one step per action. The assumptions are `PlayersAssumption`,
`DisconnectsAssumption`, `DurationAssumption` and `BoundsAssumption` of `Game`.

The match keeps what others rely on, `RosterIsKept` (`KeepsRoster`) and `PromiseIsKept` (`KeepsPromise`): of each method it is shown
what it does to the little the abstract specification sees - who sits at the table for
`Roster`; who plays, how far the match is and what the vote heard for `Match`. Both rest on
`Sound`, without which a tally could count the ballots of people who left, and a match go on
that is decided.

### GameSafetyProofs: verdicts, barriers, clocks and ballots

`VerdictsAreFair` (`VerdictIsFair`), `BarriersOpen` (`NobodyAwaitedInVain`), `TurnsOnlyRunDown`
(`TurnClockNeverGrows`) and `BallotsSurvive` (`BallotsAreKept`), all from `NothingIsLost`; and
`StrikesAllCount` (`NoStrikeIsSpared`).

A second invariant, `Kept`, is `Sound` with two parts: `Verdict`, that a match that has ended
ended rightly and that its result follows whoever leaves afterwards; and `Waits`, that a vote or
a reveal still waits for somebody. The reveals are the subtle part: with nobody connected a
reveal is complete for want of anyone to wait for, and the code leaves it to its clock. It is
`Untouched` then: a drop leaves a confirmation as it was, but the drop of the last player who was
waited for completes the reveal there and then, so that one which goes on with nobody connected
was set up so and nobody has confirmed it. Whoever comes back is therefore waited for. A step either answers a barrier, and then
`maybeAdvanceTransition` looks whether that completes it, or sets up a new one, which is
`Fresh`. `Well(g, k)` collects what a step from `g` to `k` does, the two action properties
included, and is shown once for every method.

That no strike is spared is inductive given `Sound`: `Strike` takes all that are due, and whatever
else ends a match waits until none is. Its lemmas say that no method adds a strike or an active
player (`SameStrikes`).

### RoomProofs: a host at any time, and one list of who is in

`RoomKeepsHost` (`RoomHasHost`), `HostIsTimed` (`AbsentHostIsTimed`), `RoomAndMatchAgree`
(`SeatedTogether`), `LockKeepsRoomFitting` (`RoomFits`), `RoomIsHandedFairly` (`HandoverIsFair`),
`JoinOrderIsKept` and `TypeCorrect` (`TypeOK`), for any number of players, any capacity and any
match that keeps to `Roster`.

The invariant `IInv` has a part for each question: the value is `Whole`, it is `Led`, it `Fits`
its capacity, and it agrees with the match. Only `Fits` needs more than its property: that a room
not yet locked has one member, since until then the host may choose any capacity. `Stays` is
what every step does, the handover and the join order included. The methods have a lemma each
(`RemoveMembersIsWell`, `TransferIsWell`, `AppendIsWell`, `SyncIsWell`), and an action composes
those it calls; `TransferIsWell` asks for what its callers provide, that on a timeout there is
somebody to wait for, and that otherwise the host is out already.

The join order is a sequence from which places are taken out. That those who stay keep their
order rests on counting: the places that stay are ranked from 1 without gap (`Ranks`,
`NthPlace`), because ranks are an injection into a set of the same size. Assumptions:
`NoneAssumption` and `CapacityAssumption` of `Room`.

### ConnectionsProofs: sessions, sockets and rooms agree

`Soundness`, and from it `WellTyped` (`TypeOK`), `SeatsKnown`, `OnlineKnown`, `SocketsOwned`,
`ActivityIsOne`. The invariants, with the owner of every socket in use, are inductive only
together: that a seat is known to its session makes `CurrentRoom` the one room a player is in,
so that a handler touches all there is to touch; that a socket is owned makes the end of the
session's own socket, and of no other, a disconnect. Assumptions: `NoneAssumption` and
`BoundsAssumption` of `Connections`.

### MatchmakingProofs: one match, a shared word, a start on time

`OneMatchAtATime` (`InOneMatch`), `SearchersAlwaysShare` (`SearchersShare`), `TimersAlwaysFollow`
(`TimersFollowSearchers`), `MatchAlwaysSeenOut` (`MatchIsSeenOut`), `StartNeverPostponed`
(`StartIsNotPostponed`), `NobodyEverDealtOffline` (`NobodyDealtOffline`) and
`MatchmakingTyped` (`TypeOK`), for any number of players, rooms and categories and any
waits. The invariant is `Inv` of the state in the middle of a handler: its shape, that rooms
share nobody (`Apart`), and each room by itself (`InRoom`). Every handler works on one room and
its members and leaves everything else alone (`Elsewhere`), so `RoomByRoom` gets the whole
invariant from that room's part. What is needed beyond the properties: whoever is shown a match
was dealt into it for some category, or playing again would find them nothing to share; a running
match is not empty and has no timers; and a searcher who is offline has a grace period, without
which the start would overlook them. A room in which a match has just ended is well but for its
players (`JustEnded`), and `SettleIsWell` shows why `settleFinishedMatch` has to come before
anything else. `Step` collects what a step may do, the three action properties included.
Assumptions: `PlayersAssumption`, `TimesAssumption`, `BoundsAssumption` of `Matchmaking`;
`NobodyEverDealtOffline` needs `Overtaken = {}` besides (section 5).

### UpkeepProofs: sweeps, syncs, rewards and replies

`SweepIsFair` (`SweepGrantsNothing`): a bucket that was swept was full, because a bucket kept
for `BucketIdle` is (`LimitAssumption`, the comment of `sweep`), and two buckets that spend
alike stay alike. `SyncsTakeEffect` (`SyncTakesEffect`): a sync under way agrees with the store
on every product that did not change since it began, and its result replaces what the session
had. `RewardsAreSpentOnce` (`RewardOpensOneMatch`): a reward not yet spent has its credit, and
who searches on a reward still has it.

`RepeatsAreAnswered` (`CacheKnowsWhatRan`) from `Tidy`: the latest entry of every id is its last
run, with as many entries after it as commands ran since, and the entries of a queue are ordered
by age. `prune` stops at the first entry that is fresh and within the cap (`DroppedIsFirst`: the
least natural number with a property), so what it drops is old or crowded out, and it takes an
id out of the map only with the id's latest entry (`PruneIsTidy`). Running a command
(`RunIsTidy`) and ageing (`AgedIsTidy`) keep the queue so.

### LocalProofs: one phone, one copy

`SecretsStayPrivate` (`SecretsAreHandedOver`) and `OnlineRulesAreKept` (`KeepsOnlineRules`) from
the invariant `Whole`: the match on the screen *and the copy on the device* are each fit to go
on. `Resume` makes the copy the match, so whatever the match guarantees the copy has to. Secret
are a role and an open ballot; the caught impostor's guess is made in front of everybody, and
`hidePrivateContent` leaves it on the screen (`local_game.dart:237-249`).
`BallotsStayWhole` (`BallotsAreWhole`) adds `Ballots` of both. It needs that seats number the
active players without gap: `SeatOf` is an injection into a set of the same size, so somebody
sits in every seat (`SeatIsTaken`), and who has the device is one player (`HolderSits`).
Assumption: `LocalAssumption`.

### ClientProofs: every result is counted, and what was given up stays so

`ResultsCount` (`ResultsAreCounted`), for any number of matches and with every race a screen can
lose (`Races` is any set). `Sane` says that matches are numbered as they are dealt, and that
nothing on its way speaks of one to come. `CountInv` says what messages tell and where a result
can be. Every message is `Truthful`: the outcome it carries is the one the match got, or the match
is one the player was removed from; a restart does not change that, for it changes no outcome.
What is won or lost and not counted (`Uncounted`; a match called off is never due) is the match
the server has the player in or the one left last; the former only while the message of its end is
on its way, the latter while a state that tells it is; and a state that the app will not look at,
because a search it cancelled is still on, is followed by the answer to that cancel and a state
after it. The last state on its way is the server's (`StatesAreFresh`), which is why none is needed
beyond it. A restart ends what is due: a result nobody was told is forgotten with the session
(`since`), one on its way still counts. Every step of the server either tells what it does or has
nobody to tell (`ServerCounts`), a removal the latter (`RemoveCounts`); every step of the app takes
one message (`AppCounts`).

`QuietAgreement` (`QuietAppAgrees`) adds `OneTrace` and `AgreeInv`. A call under way has one
trace, its command or its answer, and of the calls a screen waits for there is one at a time. Of
what was given up offline, `AgreeInv` says that the app is either before the first state of the
connection, or has told the server again and waits for the answer; as long as the search or the
match is still on there, the command is on its way, so the answer means that it is over. The
calls under way still fit the server (`CallsFit`), hence every join and cancel is done, and a
leave is answered by a match that is over. And once no state is on its way, the app shows what the
server has, but for a search not yet begun or something given up and not yet over
(`ShowsServer`). The theorem needs `Races = {}`, as the run has it: what a screen's call into a
state it has not seen does otherwise is in section 5. Assumptions of both: `ClientAssumption`,
`NoneAssumption` of `ClientSession`.

### Only model-checked

* Liveness: `QuietTableEnds`, `TableMovesOn`, `AbsentHostIsReplaced`, `SearchesEnd`, `IdleGoes`.
* `SyncIsTheLoop`, on rooms of up to four: what a fold computes is defined by recursion.

## 5. Where code and text disagree

Found by a run:

| Run | Says | Does |
|---|---|---|
| `room_claim_rejoin` | `room.go:172`: who joins a room that everyone left becomes its host | `hostPendingFrom` outlives the membership of the player it names; that player then rejoins an empty room and nobody hosts it |
| `connections_claim_shown` | `api.go:90`: a session shows a match from its start until the player leaves it or returns to the lobby | who joins, by its code, the room they are in during its match keeps their place in it, but their session forgets the match: its commands are answered `game_not_found` |
| `client_claim_cancel` | `game_session.dart:675-677`, of the same race of a leave: show the match rather than a home screen that leaves an unseen player at the table | a cancel that crosses the deal is answered as done, and the app goes home while the server keeps the player in the match |

Read in the code, without a run:

* `game.go:216`: `Reconnecting` means that the current turn waits for its player; `startTurn`
  does not reset it when the round's last turn is skipped, so it stays on through `pre_voting`
  (`:858`). It is only shown.
* `docs/disconnections-and-edge-cases.md:9` restarts the hint time at a return,
  `docs/architecture.md:109` lets a vote run its 20 seconds, `:144` counts every drop; the code
  does none of these and says so in its comments. The documents are older.
* `docs/architecture.md:96-99` and the code have an end for too few players that
  `NeverStuckUndecided` and `VerdictsAreFair` show to be unreachable.
* `docs/architecture.md:180,190` and `docs/protocol.md:251` end a search at a disconnect; the
  code keeps the place for a grace period.
* `api/matchmaking.go:211`: "timers restart for the rest" when offline players leave at the
  start; while `MinPlayers` remain they do not, and the match starts at once.
* `api/matchmaking.go:208`: "Nobody is dealt into a match while offline". A command of a
  replaced socket that is handled after the newer socket has detached too makes somebody search
  without a grace period; they can be dealt in offline. With `Overtaken` not empty
  `NobodyDealtOffline` fails; the command has to stay unhandled for the life of a connection.
* `api/monetization.go:196-199`: of two overlapping syncs the older answer may win until the next
  one. `SyncTakesEffect` therefore speaks of what did not change while the last was under way.
* `api.go:114`, `reaper.go:21-24`: a room closes when it was empty for its TTL; `emptySince` is
  reset only by a pass that sees the room occupied (`reaper.go:56-66`), so a room joined and
  emptied between two passes closes early.
* `api.go:48-50`: `lastSeen` is refreshed by "every ... connection change"; a detach does not.
* `local_screens.dart:203`: leaving awaits the deletion of the copy while the timer may still
  tick and save (`:113-123`), so a match that was left can be offered again. `LocalGame` has this
  (`app = "leaving"`). A kill before the last write loses the last move, at the end of a match
  its end.
* `game.go:1080-1081`, `docs/architecture.md:116`: a match that was called off leaves "nothing
  recorded on anybody's device". The app counts a loss as soon as it is told of a removal
  (`game_session.dart:484-485`); when the match it was removed from is then called off, the loss
  stays. `ClientSession` has this: it is why `ResultsAreCounted` lets a removal count as a loss
  whatever became of the match.
* `game_session.dart`, excluded from the run by `Races = {}`: a search started, again or for the
  first time, while the server's state that says otherwise is on its way is refused, and the app
  shows home while the server searches or plays (`:705-709`); a leave answered `game_not_found`
  after a search that began by a lost `playAgain` reply clears the search (`:675-690` protects a
  match only). Any later `session.state` corrects
  both.

## 6. The plan

Done: every machine of the server that decides who is where, what a match does and what a
session may do, the local match, and the app's side of an online search and match. Left, in
order of what it would add:

1. Publishing: the versions of snapshots, and the app's `_isNewer` over several connections.
2. `HintBoard` (hints, rounds, pending reactions) and `WordRules` (operators over short words
   against a reference definition).
3. The staging bots that join and leave forming matches.

## 7. Not modelled

The stores' verification (`internal/monetization/{apple,google,verify}.go`) is an external
answer in `Upkeep`. Content, invites, legal pages and moderation keep no state that anything
reacts to. The word rules are functions of texts, character by character, with tests of their
own; the match takes their verdict as an input. The hint board and its reactions are written
by the match and read by nobody but the screen. The staging bots never run in production.
`cmd/` holds process plumbing and tools. The app's screens and widgets show state and send
the commands modelled here; its purchases and ads talk to plug-ins; generated localisation and
word lists are data.

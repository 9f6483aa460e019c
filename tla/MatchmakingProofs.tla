------------------------- MODULE MatchmakingProofs -------------------------
(***************************************************************************)
(* Whoever searches is in one forming match, that has a word for all of    *)
(* them and starts on time, for any number of players and rooms and any    *)
(* clocks.                                                                 *)
(*                                                                         *)
(* A handler touches one room and its members.  Of each helper it is shown *)
(* that it leaves that room well (InRoom) and everything else alone        *)
(* (Elsewhere); what is checked of matchmaking then follows room by room.  *)
(***************************************************************************)
EXTENDS Matchmaking, FiniteSetTheorems, TLAPS

SessionRecords ==
    [conn : BOOLEAN, shows : Rooms \cup {None}, current : BOOLEAN,
     categories : SUBSET Categories, search : Timer, gone : Timer]
\* Who is shown a match was dealt into it for the categories they chose.
Sessions ==
    {s \in SessionRecords : (s.shows # None => s.categories # {}) /\ (s.current => s.shows # None)}
RoomRecords == [phase : {"lobby", "playing", "ended"}, members : SUBSET Players, wait : Timer, countdown : Timer]
States == [player : [Players -> Sessions], room : [Rooms -> RoomRecords]]

-----------------------------------------------------------------------------
(* Clocks *)

\* Deadlines are whole numbers of time units; none of those that are set is Never.
LEMMA Clocks ==
    /\ Never \in Timer /\ Timer \subseteq Int /\ \A t \in Timer : t >= Never
    /\ \A t \in Times : t \in Timer /\ t # Never
<1>1. Times \subseteq Nat \ {0}
  BY TimesAssumption DEF Times
<1>2. \A t \in Timer : t = Never \/ \E u \in Times : t \in 0 .. u
  BY DEF Timer
<1>3. \A t \in Times : t \in 0 .. t
  BY <1>1
<1>4. \A t \in Times : t \in Timer
  BY <1>3 DEF Timer
<1>5. \A t \in Timer : t \in Int /\ t >= Never
  BY <1>1, <1>2 DEF Never
<1>6. \A t \in Times : t # Never
  BY <1>1 DEF Never
<1>7. Never \in Timer
  BY DEF Timer
<1> QED BY <1>4, <1>5, <1>6, <1>7

\* Time lets no clock grow, start or be forgotten.
LEMMA ClocksElapse ==
    ASSUME NEW t \in Timer
    PROVE  Later(t) \in Timer /\ Later(t) <= t /\ (Later(t) = Never <=> t = Never)
<1>1. t \in Int /\ t >= Never
  BY Clocks
<1>2. t = Never \/ \E u \in Times : t \in 0 .. u
  BY DEF Timer
<1>3. CASE t > 0
  <2>1. PICK u \in Times : t \in 0 .. u
    BY <1>2, <1>3 DEF Never
  <2>2. u \in Nat
    BY TimesAssumption DEF Times
  <2>3. t - 1 \in 0 .. u
    BY <1>3, <2>1, <2>2
  <2>4. t - 1 \in Timer
    BY <2>1, <2>3 DEF Timer
  <2> QED BY <1>1, <1>3, <2>4 DEF Later, Never
<1>4. CASE ~(t > 0)
  BY <1>1, <1>4 DEF Later
<1> QED BY <1>3, <1>4

\* Timers.Update leaves a room with the clocks its number of searchers calls for, and with no
\* later start than before.
OnTime(m) ==
    LET count == Cardinality(m.members)
    IN  /\ m.wait # Never <=> count >= MinPlayers
        /\ m.countdown # Never => count >= MinPlayers
        /\ count >= CountdownPlayers => m.countdown # Never

LEMMA UpdateIsOnTime ==
    ASSUME NEW m \in RoomRecords, IsFiniteSet(m.members)
    PROVE  LET n == Update(m, Cardinality(m.members))
           IN  /\ n \in RoomRecords /\ n.phase = m.phase /\ n.members = m.members
               /\ OnTime(n)
               /\ n.wait \in {Never, Wait, m.wait} /\ n.countdown \in {Never, Countdown, m.countdown}
               /\ n.wait # Never /\ m.wait # Never => n.wait = m.wait
               /\ n.wait # Never /\ m.countdown # Never => n.countdown = m.countdown
<1> DEFINE count == Cardinality(m.members)
           n == Update(m, count)
           w == IF count < MinPlayers THEN Never ELSE IF m.wait = Never THEN Wait ELSE m.wait
           c == IF count < MinPlayers THEN Never
                ELSE IF m.countdown = Never /\ count >= CountdownPlayers THEN Countdown ELSE m.countdown
<1>1. n = [m EXCEPT !.wait = w, !.countdown = c]
  BY DEF Update
<1>2. Wait \in Timer /\ Wait # Never /\ Countdown \in Timer /\ Countdown # Never /\ Never \in Timer
  BY Clocks DEF Times
<1>3. count \in Nat
  BY FS_CardinalityType
<1>4. MinPlayers \in Nat /\ CountdownPlayers \in Nat /\ MinPlayers <= CountdownPlayers
  BY PlayersAssumption
<1>5. m.wait \in Timer /\ m.countdown \in Timer
  BY DEF RoomRecords
<1>6. /\ w \in Timer /\ (w # Never <=> count >= MinPlayers)
      /\ w \in {Never, Wait, m.wait} /\ (w # Never /\ m.wait # Never => w = m.wait)
  BY <1>2, <1>3, <1>4, <1>5
<1>7. /\ c \in Timer /\ (c # Never => count >= MinPlayers) /\ (count >= CountdownPlayers => c # Never)
      /\ c \in {Never, Countdown, m.countdown}
      /\ (count >= MinPlayers /\ m.countdown # Never => c = m.countdown)
  BY <1>2, <1>3, <1>4, <1>5
<1> HIDE DEF n, w, c, count
<1>8. n \in RoomRecords /\ n.phase = m.phase /\ n.members = m.members /\ n.wait = w /\ n.countdown = c
  BY <1>1, <1>6, <1>7 DEF RoomRecords
<1>9. Cardinality(n.members) = count
  BY <1>8 DEF count
<1>10. OnTime(n)
  BY <1>6, <1>7, <1>8, <1>9 DEF OnTime
<1> QED BY <1>6, <1>7, <1>8, <1>10 DEF n, count

-----------------------------------------------------------------------------
(* Rooms *)

\* Player p sits well in room r: searching there, or playing its match.
Seat(all, r, p) ==
    /\ all.room[r].phase = "lobby" =>
          /\ all.player[p].shows = None /\ all.player[p].search # Never
          /\ Overtaken = {} => all.player[p].conn \/ all.player[p].gone # Never
    /\ all.room[r].phase = "playing" => all.player[p].shows = r /\ all.player[p].current

\* Room r is as no handler may leave it otherwise.
InRoom(all, r) ==
    /\ all.room[r].phase \in {"lobby", "playing"}
    /\ IsFiniteSet(all.room[r].members) /\ Cardinality(all.room[r].members) <= MaxPlayers
    /\ all.room[r].phase = "playing" =>
          all.room[r].members # {} /\ all.room[r].wait = Never /\ all.room[r].countdown = Never
    /\ all.room[r].phase = "lobby" =>
          OnTime(all.room[r]) /\ (all.room[r].members # {} => SharedCategories(all, r) # {})
    /\ \A p \in all.room[r].members : Seat(all, r, p)

Apart(all) == \A r, q \in Rooms : r # q => all.room[r].members \cap all.room[q].members = {}

\* The inductive invariant, of the state in the middle of a handler, too.
Inv(all) == all \in States /\ Apart(all) /\ \A r \in Rooms : InRoom(all, r)

\* Between all and new only room r has changed, and nobody in another.
Elsewhere(all, new, r) ==
    \A q \in Rooms \ {r} :
        /\ new.room[q] = all.room[q]
        /\ \A p \in all.room[q].members : new.player[p] = all.player[p]

LEMMA RoomByRoom ==
    ASSUME NEW all, NEW new, NEW r \in Rooms, Inv(all), new \in States, Elsewhere(all, new, r), InRoom(new, r),
           \A q \in Rooms \ {r} : new.room[r].members \cap all.room[q].members = {}
    PROVE  Inv(new)
<1>1. ASSUME NEW q \in Rooms \ {r} PROVE InRoom(new, q)
  <2>1. new.room[q] = all.room[q] /\ \A p \in new.room[q].members : new.player[p] = all.player[p]
    BY DEF Elsewhere
  <2>2. InRoom(all, q)
    BY DEF Inv
  <2>3. SharedCategories(new, q) = SharedCategories(all, q)
    BY <2>1 DEF SharedCategories
  <2>4. \A p \in new.room[q].members : Seat(new, q, p)
    BY <2>1, <2>2 DEF InRoom, Seat
  <2> QED BY <2>1, <2>2, <2>3, <2>4 DEF InRoom
<1>2. Apart(new)
  BY DEF Apart, Inv, Elsewhere
<1> QED BY <1>1, <1>2 DEF Inv

\* What a forming match keeps of its clocks when somebody leaves: none is set or put off.
Shrinks(m, n) ==
    /\ n.members \subseteq m.members
    /\ n.wait # Never => n.wait = m.wait
    /\ n.wait # Never /\ m.countdown # Never => n.countdown = m.countdown

\* lobbyChanged looks at the number of searchers only.
LEMMA LobbyChangedIsOnTime ==
    ASSUME NEW all \in States, NEW r \in Rooms, IsFiniteSet(all.room[r].members)
    PROVE  LET new == LobbyChanged(all, r)
               m == all.room[r]
               n == new.room[r]
           IN  /\ new \in States /\ new.player = all.player
               /\ \A q \in Rooms \ {r} : new.room[q] = all.room[q]
               /\ n.phase = m.phase /\ n.members = m.members /\ OnTime(n)
               /\ n.wait # Never /\ m.wait # Never => n.wait = m.wait
               /\ n.wait # Never /\ m.countdown # Never => n.countdown = m.countdown
<1> DEFINE m == all.room[r]
           n == Update(m, Cardinality(m.members))
           new == LobbyChanged(all, r)
<1>1. m \in RoomRecords
  BY DEF States
<1>2. /\ n \in RoomRecords /\ n.phase = m.phase /\ n.members = m.members /\ OnTime(n)
      /\ n.wait # Never /\ m.wait # Never => n.wait = m.wait
      /\ n.wait # Never /\ m.countdown # Never => n.countdown = m.countdown
  BY <1>1, UpdateIsOnTime
<1>3. new = [all EXCEPT !.room = [all.room EXCEPT ![r] = n]]
  BY DEF LobbyChanged, States
<1> HIDE DEF n, m, new
<1>4. new \in States /\ new.player = all.player /\ new.room = [all.room EXCEPT ![r] = n]
  BY <1>2, <1>3 DEF States
<1>5. new.room[r] = n /\ \A q \in Rooms \ {r} : new.room[q] = all.room[q]
  BY <1>4 DEF States
<1> QED BY <1>2, <1>4, <1>5 DEF m, new

\* A session without its search shows what it showed.
LEMMA IdleKeeps ==
    ASSUME NEW s \in Sessions
    PROVE  /\ Idle(s) \in Sessions /\ Idle(s).shows = s.shows /\ Idle(s).current = s.current /\ Idle(s).conn = s.conn
           /\ Idle(s).gone = Never /\ Idle(s).search = Never
<1>1. Never \in Timer
  BY Clocks
<1> DEFINE c == IF s.shows = None THEN {} ELSE s.categories
<1>2. c \in SUBSET Categories
  BY DEF Sessions, SessionRecords
<1>3. Idle(s) = [s EXCEPT !.search = Never, !.gone = Never, !.categories = c]
  BY DEF Idle, Sessions, SessionRecords
<1>4. s.shows # None => c = s.categories
  OBVIOUS
<1> HIDE DEF c
<1> QED BY <1>1, <1>2, <1>3, <1>4 DEF Sessions, SessionRecords

\* Who leaves the search of room r is out of it, and nothing else changes.
Leaves(all, new, r, leaving) ==
    /\ new.room[r].phase = "lobby" /\ new.room[r].members = all.room[r].members \ leaving
    /\ Shrinks(all.room[r], new.room[r])
    /\ Elsewhere(all, new, r)
    /\ \A p \in Players \ leaving : new.player[p] = all.player[p]
    /\ \A p \in Players :
          /\ new.player[p].shows = all.player[p].shows /\ new.player[p].current = all.player[p].current
          /\ new.player[p].conn = all.player[p].conn

LEMMA WithoutLeaves ==
    ASSUME NEW all \in States, NEW r \in Rooms, NEW leaving \in SUBSET all.room[r].members
    PROVE  LET new == Without(all, r, leaving)
           IN  /\ new \in States
               /\ \A p \in Players : new.player[p] = IF p \in leaving THEN Idle(all.player[p]) ELSE all.player[p]
               /\ \A q \in Rooms \ {r} : new.room[q] = all.room[q]
               /\ new.room[r].members = all.room[r].members \ leaving /\ new.room[r].phase = all.room[r].phase
               /\ new.room[r].wait = all.room[r].wait /\ new.room[r].countdown = all.room[r].countdown
<1> DEFINE m == all.room[r]
           n == [m EXCEPT !.members = m.members \ leaving]
           players == [p \in Players |-> IF p \in leaving THEN Idle(all.player[p]) ELSE all.player[p]]
           rooms == [all.room EXCEPT ![r] = n]
<1>1. Without(all, r, leaving) = [player |-> players, room |-> rooms]
  BY DEF Without, States
<1>2. m \in RoomRecords
  BY DEF States
<1>3. n \in RoomRecords /\ n.members = m.members \ leaving /\ n.phase = m.phase /\ n.wait = m.wait /\ n.countdown = m.countdown
  BY <1>2 DEF RoomRecords
<1> HIDE DEF n
<1>4. rooms \in [Rooms -> RoomRecords] /\ rooms[r] = n /\ \A q \in Rooms \ {r} : rooms[q] = all.room[q]
  BY <1>3 DEF States
<1>5. \A p \in Players : all.player[p] \in Sessions
  BY DEF States
<1>6. players \in [Players -> Sessions]
  BY <1>5, IdleKeeps
<1>7. \A p \in Players : players[p] = IF p \in leaving THEN Idle(all.player[p]) ELSE all.player[p]
  OBVIOUS
<1> HIDE DEF players, rooms
<1> QED BY <1>1, <1>3, <1>4, <1>6, <1>7 DEF States

\* leaveSearch takes searchers out of a forming match that stays well.
LEMMA LeaveIsWell ==
    ASSUME NEW all, Inv(all), NEW r \in Rooms, all.room[r].phase = "lobby",
           NEW leaving \in SUBSET all.room[r].members
    PROVE  Inv(LeaveSearch(all, r, leaving)) /\ Leaves(all, LeaveSearch(all, r, leaving), r, leaving)
<1> DEFINE m == all.room[r]
           gone == Without(all, r, leaving)
           new == LobbyChanged(gone, r)
<1>1. all \in States /\ Apart(all) /\ InRoom(all, r)
  BY DEF Inv
<1>2. /\ IsFiniteSet(m.members) /\ Cardinality(m.members) <= MaxPlayers /\ OnTime(m)
      /\ m.members # {} => SharedCategories(all, r) # {}
  BY <1>1 DEF InRoom
<1>3. CASE leaving = {}
  <2>1. LeaveSearch(all, r, leaving) = all
    BY <1>3 DEF LeaveSearch
  <2>2. Leaves(all, all, r, leaving)
    BY <1>3 DEF Leaves, Shrinks, Elsewhere
  <2> QED BY <2>1, <2>2
<1>4. CASE leaving # {}
  <2>1. /\ gone \in States
        /\ \A p \in Players : gone.player[p] = IF p \in leaving THEN Idle(all.player[p]) ELSE all.player[p]
        /\ \A q \in Rooms \ {r} : gone.room[q] = all.room[q]
        /\ gone.room[r].members = m.members \ leaving /\ gone.room[r].phase = "lobby"
        /\ gone.room[r].wait = m.wait /\ gone.room[r].countdown = m.countdown
    BY <1>1, WithoutLeaves
  <2> HIDE DEF gone
  <2>2. IsFiniteSet(m.members \ leaving) /\ Cardinality(m.members \ leaving) <= Cardinality(m.members)
        /\ Cardinality(m.members \ leaving) \in Nat /\ Cardinality(m.members) \in Nat
    BY <1>2, FS_Subset, FS_CardinalityType
  <2>3. /\ new \in States /\ new.player = gone.player
        /\ \A q \in Rooms \ {r} : new.room[q] = all.room[q]
        /\ new.room[r].phase = "lobby" /\ new.room[r].members = m.members \ leaving /\ OnTime(new.room[r])
        /\ new.room[r].wait # Never /\ m.wait # Never => new.room[r].wait = m.wait
        /\ new.room[r].wait # Never /\ m.countdown # Never => new.room[r].countdown = m.countdown
    <3>1. IsFiniteSet(gone.room[r].members)
      BY <2>1, <2>2
    <3>2. /\ new \in States /\ new.player = gone.player
          /\ \A q \in Rooms \ {r} : new.room[q] = gone.room[q]
          /\ new.room[r].phase = gone.room[r].phase /\ new.room[r].members = gone.room[r].members
          /\ OnTime(new.room[r])
          /\ new.room[r].wait # Never /\ gone.room[r].wait # Never => new.room[r].wait = gone.room[r].wait
          /\ new.room[r].wait # Never /\ gone.room[r].countdown # Never
               => new.room[r].countdown = gone.room[r].countdown
      BY <2>1, <3>1, LobbyChangedIsOnTime
    <3> HIDE DEF new
    <3> QED BY <2>1, <3>2
  <2> HIDE DEF new
  <2>4. new.room[r].wait # Never => m.wait # Never
    <3>1. MinPlayers \in Nat
      BY PlayersAssumption
    <3>2. new.room[r].wait # Never => Cardinality(m.members \ leaving) >= MinPlayers
      BY <2>3 DEF OnTime
    <3>3. Cardinality(m.members \ leaving) >= MinPlayers => Cardinality(m.members) >= MinPlayers
      BY <2>2, <3>1
    <3>4. Cardinality(m.members) >= MinPlayers => m.wait # Never
      BY <1>2 DEF OnTime
    <3> QED BY <3>2, <3>3, <3>4
  <2>5. Shrinks(m, new.room[r])
    BY <2>3, <2>4 DEF Shrinks
  <2>6. Elsewhere(all, new, r)
    <3>1. \A q \in Rooms \ {r} : \A p \in all.room[q].members : p \in Players /\ p \notin leaving
      BY <1>1 DEF Apart, States, RoomRecords
    <3> QED BY <2>1, <2>3, <3>1 DEF Elsewhere
  <2>7. \A p \in Players \ leaving : new.player[p] = all.player[p]
    BY <2>1, <2>3
  <2>8. \A p \in Players :
          /\ new.player[p].shows = all.player[p].shows /\ new.player[p].current = all.player[p].current
          /\ new.player[p].conn = all.player[p].conn
    <3>1. \A p \in Players : all.player[p] \in Sessions
      BY <1>1 DEF States
    <3> QED BY <2>1, <2>3, <3>1, IdleKeeps
  <2>9. Leaves(all, new, r, leaving)
    BY <2>3, <2>5, <2>6, <2>7, <2>8 DEF Leaves
  <2>10. m.members \subseteq Players
    BY <1>1 DEF States, RoomRecords
  <2>11. \A p \in new.room[r].members : p \in m.members /\ new.player[p] = all.player[p]
    BY <2>3, <2>7, <2>10
  <2>12. new.room[r].members # {} => SharedCategories(new, r) # {}
    <3>1. SharedCategories(all, r) \subseteq SharedCategories(new, r)
      BY <2>11 DEF SharedCategories
    <3> QED BY <1>2, <2>3, <3>1
  <2>13. \A p \in new.room[r].members : Seat(new, r, p)
    BY <1>1, <2>3, <2>11 DEF InRoom, Seat
  <2>14. Cardinality(new.room[r].members) <= MaxPlayers /\ IsFiniteSet(new.room[r].members)
    BY <1>2, <2>2, <2>3, PlayersAssumption
  <2>15. InRoom(new, r)
    BY <2>3, <2>12, <2>13, <2>14 DEF InRoom
  <2>16. \A q \in Rooms \ {r} : new.room[r].members \cap all.room[q].members = {}
    BY <1>1, <2>3 DEF Apart
  <2>17. Inv(new)
    BY <2>3, <2>6, <2>15, <2>16, RoomByRoom
  <2>18. LeaveSearch(all, r, leaving) = new
    BY <1>4 DEF LeaveSearch, new, gone
  <2> QED BY <2>9, <2>17, <2>18
<1> QED BY <1>3, <1>4

\* Two walks over the members of a forming match, one after the other.
LEMMA LeavesTwice ==
    ASSUME NEW all, NEW mid, NEW new, NEW r, all \in States, mid \in States, new \in States, r \in Rooms,
           NEW first \in SUBSET all.room[r].members, NEW second \in SUBSET mid.room[r].members,
           Leaves(all, mid, r, first), Leaves(mid, new, r, second)
    PROVE  Leaves(all, new, r, first \cup second)
<1>1. Shrinks(all.room[r], new.room[r])
  BY DEF Leaves, Shrinks
<1>2. Elsewhere(all, new, r)
  BY DEF Leaves, Elsewhere
<1> QED BY <1>1, <1>2 DEF Leaves

-----------------------------------------------------------------------------
(* The start *)

\* Its members are dealt into the match of room r, and everyone else left there is shown no
\* running match any more.
Begins(all, new, r) ==
    /\ new.room[r].phase = "playing" /\ new.room[r].members = all.room[r].members
    /\ Elsewhere(all, new, r)
    /\ \A p \in Players :
          /\ new.player[p].conn = all.player[p].conn
          /\ all.player[p].current /\ ~new.player[p].current => all.player[p].shows = r

LEMMA BeginIsWell ==
    ASSUME NEW all, Inv(all), NEW r \in Rooms, all.room[r].phase = "lobby", all.room[r].members # {}
    PROVE  Inv(BeginGame(all, r)) /\ Begins(all, BeginGame(all, r), r)
<1> DEFINE m == all.room[r]
           n == [m EXCEPT !.phase = "playing", !.wait = Never, !.countdown = Never]
           dealt(s) == [s EXCEPT !.shows = r, !.current = TRUE, !.search = Never, !.gone = Never]
           over(s) == [s EXCEPT !.current = s.current /\ s.shows # r]
           players == [p \in Players |-> IF p \in m.members THEN dealt(all.player[p]) ELSE over(all.player[p])]
           rooms == [all.room EXCEPT ![r] = n]
           new == BeginGame(all, r)
<1>1. all \in States /\ Apart(all) /\ InRoom(all, r) /\ \A q \in Rooms : InRoom(all, q)
  BY DEF Inv
<1>2. new = [player |-> players, room |-> rooms]
  BY DEF BeginGame
<1>3. m \in RoomRecords /\ Never \in Timer
  BY <1>1, Clocks DEF States
<1>4. /\ n \in RoomRecords /\ n.members = m.members /\ n.phase = "playing" /\ n.wait = Never /\ n.countdown = Never
  BY <1>3 DEF RoomRecords
<1> HIDE DEF n
<1>5. rooms \in [Rooms -> RoomRecords] /\ rooms[r] = n /\ \A q \in Rooms \ {r} : rooms[q] = all.room[q]
  BY <1>1, <1>4 DEF States
<1>6. \A s \in Sessions :
        /\ s.categories # {} => dealt(s) \in Sessions
        /\ dealt(s).shows = r /\ dealt(s).current /\ dealt(s).conn = s.conn
        /\ over(s) \in Sessions /\ over(s).conn = s.conn /\ (s.current /\ ~over(s).current => s.shows = r)
        /\ s.shows # r => over(s) = s
  <2> SUFFICES ASSUME NEW s \in Sessions
               PROVE  /\ s.categories # {} => dealt(s) \in Sessions
                      /\ dealt(s).shows = r /\ dealt(s).current /\ dealt(s).conn = s.conn
                      /\ over(s) \in Sessions /\ over(s).conn = s.conn /\ (s.current /\ ~over(s).current => s.shows = r)
                      /\ s.shows # r => over(s) = s
    OBVIOUS
  <2>1. s \in SessionRecords
    BY DEF Sessions
  <2>2. /\ dealt(s) \in SessionRecords /\ dealt(s).shows = r /\ dealt(s).current /\ dealt(s).conn = s.conn
        /\ dealt(s).categories = s.categories
    BY <1>3, <2>1 DEF SessionRecords
  <2> HIDE DEF dealt
  <2>3. s.categories # {} => dealt(s) \in Sessions
    BY <2>2, BoundsAssumption DEF Sessions
  <2> DEFINE still == s.current /\ s.shows # r
  <2>4. still \in BOOLEAN /\ over(s) = [s EXCEPT !.current = still]
    OBVIOUS
  <2> HIDE DEF over, still
  <2>5. /\ over(s) \in SessionRecords /\ over(s).current = still /\ over(s).conn = s.conn
        /\ over(s).shows = s.shows /\ over(s).categories = s.categories
    BY <2>1, <2>4 DEF SessionRecords
  <2>6. over(s) \in Sessions /\ (s.current /\ ~over(s).current => s.shows = r)
    BY <2>5 DEF Sessions, still
  <2>7. s.shows # r => over(s) = s
    <3>1. s.shows # r => still = s.current
      BY <2>1 DEF still, SessionRecords
    <3> QED BY <2>1, <2>4, <3>1 DEF SessionRecords
  <2> QED BY <2>2, <2>3, <2>5, <2>6, <2>7
<1>7. \A p \in Players : players[p] = IF p \in m.members THEN dealt(all.player[p]) ELSE over(all.player[p])
  OBVIOUS
<1>8. \A p \in Players : all.player[p] \in Sessions
  BY <1>1 DEF States
<1> HIDE DEF dealt, over
<1>9. players \in [Players -> Sessions]
  <2>1. SharedCategories(all, r) # {}
    BY <1>1 DEF InRoom
  <2>2. \A p \in m.members : all.player[p].categories # {}
    BY <2>1 DEF SharedCategories
  <2> QED BY <1>6, <1>7, <1>8, <2>2
<1> HIDE DEF players, rooms
<1>10. new \in States /\ new.player = players /\ new.room = rooms
  BY <1>2, <1>5, <1>9 DEF States
<1> HIDE DEF new
<1>11. ASSUME NEW q \in Rooms \ {r}, NEW p \in all.room[q].members PROVE new.player[p] = all.player[p]
  <2>1. p \in Players /\ p \notin m.members
    BY <1>1 DEF States, RoomRecords, Apart
  <2>2. InRoom(all, q)
    BY <1>1
  <2>3. all.player[p].shows # r
    BY <2>2, BoundsAssumption DEF InRoom, Seat
  <2> QED BY <1>6, <1>7, <1>8, <1>10, <2>1, <2>3
<1>12. Elsewhere(all, new, r)
  BY <1>5, <1>10, <1>11 DEF Elsewhere
<1>13. m.members \subseteq Players
  BY <1>1 DEF States, RoomRecords
<1>14. \A p \in new.room[r].members : Seat(new, r, p)
  BY <1>4, <1>5, <1>6, <1>7, <1>8, <1>10, <1>13 DEF Seat
<1>15. InRoom(new, r)
  BY <1>1, <1>4, <1>5, <1>10, <1>14 DEF InRoom
<1>16. \A q \in Rooms \ {r} : new.room[r].members \cap all.room[q].members = {}
  BY <1>1, <1>4, <1>5, <1>10 DEF Apart
<1>17. Inv(new)
  BY <1>10, <1>12, <1>15, <1>16, RoomByRoom
<1>18. \A p \in Players :
          /\ new.player[p].conn = all.player[p].conn
          /\ all.player[p].current /\ ~new.player[p].current => all.player[p].shows = r
  BY <1>6, <1>7, <1>8, <1>10
<1>19. Begins(all, new, r)
  BY <1>4, <1>5, <1>10, <1>12, <1>18 DEF Begins
<1> QED BY <1>17, <1>19 DEF new

\* What the clock of a forming match may do to it.
Ticks(all, new, r) ==
    /\ new.room[r].phase \in {"lobby", "playing"} /\ new.room[r].members \subseteq all.room[r].members
    /\ Elsewhere(all, new, r)
    /\ new.room[r].phase = "lobby" => Shrinks(all.room[r], new.room[r])
    /\ new.room[r].phase = "playing" =>
          /\ Cardinality(new.room[r].members) \in MinPlayers .. MaxPlayers
          /\ Overtaken = {} => \A p \in new.room[r].members : all.player[p].conn
    /\ \A p \in Players :
          /\ new.player[p].conn = all.player[p].conn
          /\ all.player[p].current /\ ~new.player[p].current => all.player[p].shows = r /\ all.room[r].members # {}

LEMMA LeavingTicks ==
    ASSUME NEW all, NEW new, NEW r, NEW leaving, Leaves(all, new, r, leaving)
    PROVE  Ticks(all, new, r)
BY DEF Leaves, Ticks, Shrinks

LEMMA TickSearchIsWell ==
    ASSUME NEW all, Inv(all), NEW r \in Rooms, all.room[r].phase = "lobby"
    PROVE  Inv(TickSearch(all, r)) /\ Ticks(all, TickSearch(all, r), r)
<1> DEFINE away == {p \in all.room[r].members : all.player[p].gone = 0}
           here == LeaveSearch(all, r, away)
           members == here.room[r].members
           offline == {p \in members : here.player[p].gone # Never}
           late == {p \in members : here.player[p].search = 0}
           new == TickSearch(all, r)
<1>1. Inv(here) /\ Leaves(all, here, r, away)
  BY LeaveIsWell
<1>2. /\ Cardinality(members) < MinPlayers => new = LeaveSearch(here, r, late)
      /\ Cardinality(members) >= MinPlayers /\ StartIn(here.room[r]) > 0 => new = here
      /\ Cardinality(members) >= MinPlayers /\ ~(StartIn(here.room[r]) > 0) /\ offline # {} => new = LeaveSearch(here, r, offline)
      /\ Cardinality(members) >= MinPlayers /\ ~(StartIn(here.room[r]) > 0) /\ offline = {} => new = BeginGame(here, r)
  <2>1. here = DropAway(all, r)
    BY DEF DropAway
  <2>2. Cardinality(members) \in Nat /\ MinPlayers \in Nat
    BY <1>1, FS_CardinalityType, PlayersAssumption DEF Inv, InRoom
  <2>3. new = IF Cardinality(members) < MinPlayers THEN LeaveSearch(here, r, late)
              ELSE IF StartIn(here.room[r]) > 0 THEN here
              ELSE IF offline # {} THEN LeaveSearch(here, r, offline)
              ELSE BeginGame(here, r)
    BY <2>1 DEF TickSearch, Searching
  <2> HIDE DEF new, here, offline, late
  <2> QED BY <2>2, <2>3
<1> HIDE DEF here, new
<1>3. here.room[r].phase = "lobby"
  BY <1>1 DEF Leaves
<1>4. ASSUME NEW leaving \in SUBSET members, new = LeaveSearch(here, r, leaving)
      PROVE  Inv(new) /\ Ticks(all, new, r)
  <2>1. Inv(new) /\ Leaves(here, new, r, leaving)
    BY <1>1, <1>3, <1>4, LeaveIsWell
  <2>2. Leaves(all, new, r, away \cup leaving)
    BY <1>1, <2>1, LeavesTwice DEF Inv
  <2> QED BY <2>1, <2>2, LeavingTicks
<1>5. CASE new = here
  BY <1>1, <1>5, LeavingTicks DEF new
<1>6. CASE Cardinality(members) >= MinPlayers /\ offline = {} /\ new = BeginGame(here, r)
  <2>1. IsFiniteSet(members) /\ Cardinality(members) <= MaxPlayers /\ Cardinality(members) \in Nat
    BY <1>1, FS_CardinalityType DEF Inv, InRoom
  <2>2. Cardinality(members) \in MinPlayers .. MaxPlayers
    BY <1>6, <2>1, PlayersAssumption
  <2>3. members # {}
    <3>1. MinPlayers \in Nat /\ MinPlayers > 0
      BY PlayersAssumption
    <3>2. Cardinality(members) # 0
      BY <1>6, <2>1, <3>1
    <3> QED BY <3>2, FS_EmptySet
  <2>4. Inv(new) /\ Begins(here, new, r)
    BY <1>1, <1>3, <1>6, <2>3, BeginIsWell
  <2>5. members \subseteq Players
    BY <1>1 DEF Inv, States, RoomRecords
  <2>6. Overtaken = {} => \A p \in members : all.player[p].conn
    <3>1. \A p \in members : here.player[p].gone = Never /\ Seat(here, r, p) /\ here.player[p].conn = all.player[p].conn
      BY <1>1, <1>6, <2>5 DEF Inv, InRoom, Leaves
    <3> QED BY <1>3, <3>1 DEF Seat
  <2>7. Elsewhere(all, new, r)
    BY <1>1, <2>4 DEF Leaves, Begins, Elsewhere
  <2>8. members \subseteq all.room[r].members
    BY <1>1 DEF Leaves
  <2>9. \A p \in Players :
          /\ new.player[p].conn = all.player[p].conn
          /\ all.player[p].current /\ ~new.player[p].current => all.player[p].shows = r
    BY <1>1, <2>4 DEF Leaves, Begins
  <2>10. new.room[r].phase = "playing" /\ new.room[r].members = members
    BY <2>4 DEF Begins
  <2>11. Ticks(all, new, r)
    <3>1. all.room[r].members # {}
      BY <2>3, <2>8
    <3> HIDE DEF members
    <3> QED BY <2>2, <2>6, <2>7, <2>8, <2>9, <2>10, <3>1 DEF Ticks
  <2> QED BY <2>4, <2>11 DEF new
<1>7. Cardinality(members) \in Nat /\ MinPlayers \in Nat
  BY <1>1, FS_CardinalityType, PlayersAssumption DEF Inv, InRoom
<1>8. offline \in SUBSET members /\ late \in SUBSET members
  OBVIOUS
<1> HIDE DEF offline, late, members
<1>9. CASE Cardinality(members) < MinPlayers
  BY <1>2, <1>4, <1>8, <1>9 DEF new
<1>10. CASE Cardinality(members) >= MinPlayers
  BY <1>2, <1>4, <1>5, <1>6, <1>8, <1>10 DEF new
<1> QED BY <1>7, <1>9, <1>10

-----------------------------------------------------------------------------
(* The end *)

\* Everything is well but that the match of room r has ended, and its players are still in.
JustEnded(all, r) ==
    /\ all \in States /\ Apart(all) /\ all.room[r].phase = "ended" /\ IsFiniteSet(all.room[r].members)
    /\ \A q \in Rooms \ {r} : InRoom(all, q)

LEMMA SettleIsWell ==
    ASSUME NEW all, NEW r \in Rooms, JustEnded(all, r)
    PROVE  LET new == SettleFinishedMatch(all, r)
           IN  /\ Inv(new) /\ Elsewhere(all, new, r)
               /\ new.room[r].phase = "lobby" /\ new.room[r].members = {}
               /\ \A p \in Players :
                     /\ new.player[p].shows = all.player[p].shows /\ new.player[p].current = all.player[p].current
                     /\ new.player[p].conn = all.player[p].conn
<1> DEFINE free == [all EXCEPT !.room = [all.room EXCEPT ![r] = [all.room[r] EXCEPT !.phase = "lobby"]]]
           leaving == all.room[r].members
           out == Without(free, r, leaving)
           new == LobbyChanged(out, r)
<1>1. all \in States /\ Apart(all) /\ all.room[r].phase = "ended" /\ \A q \in Rooms \ {r} : InRoom(all, q)
  BY DEF JustEnded
<1>2. SettleFinishedMatch(all, r) = new
  BY <1>1 DEF SettleFinishedMatch, States
<1>3. /\ free \in States /\ free.player = all.player
      /\ \A q \in Rooms \ {r} : free.room[q] = all.room[q]
      /\ free.room[r].phase = "lobby" /\ free.room[r].members = leaving
  BY <1>1 DEF States, RoomRecords
<1> HIDE DEF free, leaving
<1>4. /\ out \in States
      /\ \A p \in Players : out.player[p] = IF p \in leaving THEN Idle(all.player[p]) ELSE all.player[p]
      /\ \A q \in Rooms \ {r} : out.room[q] = all.room[q]
      /\ out.room[r].phase = "lobby" /\ out.room[r].members = {}
  BY <1>3, WithoutLeaves
<1> HIDE DEF out
<1>5. IsFiniteSet({}) /\ Cardinality({}) = 0
  BY FS_EmptySet
<1>6. /\ new \in States /\ new.player = out.player
      /\ \A q \in Rooms \ {r} : new.room[q] = all.room[q]
      /\ new.room[r].phase = "lobby" /\ new.room[r].members = {} /\ OnTime(new.room[r])
  BY <1>4, <1>5, LobbyChangedIsOnTime
<1> HIDE DEF new
<1>7. Elsewhere(all, new, r)
  <2>1. \A q \in Rooms \ {r} : \A p \in all.room[q].members : p \in Players /\ p \notin leaving
    BY <1>1 DEF Apart, States, RoomRecords, leaving
  <2> QED BY <1>4, <1>6, <2>1 DEF Elsewhere
<1>8. InRoom(new, r)
  BY <1>5, <1>6, PlayersAssumption DEF InRoom
<1>9. Inv(new)
  <2>1. ASSUME NEW q \in Rooms \ {r} PROVE InRoom(new, q)
    <3>1. new.room[q] = all.room[q] /\ \A p \in new.room[q].members : new.player[p] = all.player[p]
      BY <1>7 DEF Elsewhere
    <3>2. InRoom(all, q)
      BY <1>1
    <3>3. SharedCategories(new, q) = SharedCategories(all, q)
      BY <3>1 DEF SharedCategories
    <3>4. \A p \in new.room[q].members : Seat(new, q, p)
      BY <3>1, <3>2 DEF InRoom, Seat
    <3> QED BY <3>1, <3>2, <3>3, <3>4 DEF InRoom
  <2>2. Apart(new)
    BY <1>1, <1>6 DEF Apart
  <2> QED BY <1>6, <1>8, <2>1, <2>2 DEF Inv
<1>10. \A p \in Players : all.player[p] \in Sessions
  BY <1>1 DEF States
<1>11. \A p \in Players :
          /\ new.player[p].shows = all.player[p].shows /\ new.player[p].current = all.player[p].current
          /\ new.player[p].conn = all.player[p].conn
  BY <1>4, <1>6, <1>10, IdleKeeps
<1> QED BY <1>2, <1>6, <1>7, <1>9, <1>11

-----------------------------------------------------------------------------
(* Steps *)

\* n has no later start than m.
NoLater(m, n) ==
    /\ m.wait # Never /\ n.wait # Never => n.wait <= m.wait
    /\ m.countdown # Never /\ n.wait # Never => n.countdown # Never /\ n.countdown <= m.countdown

LEMMA NoLaterStarts ==
    ASSUME NEW m \in RoomRecords, NEW n \in RoomRecords, OnTime(m), OnTime(n), NoLater(m, n),
           StartIn(m) # Never, StartIn(n) # Never
    PROVE  StartIn(n) <= StartIn(m)
<1>1. {m.wait, m.countdown, n.wait, n.countdown} \subseteq Int
  BY Clocks DEF RoomRecords
<1>2. m.wait # Never
  BY DEF StartIn, Earlier, OnTime
<1>3. n.wait # Never
  BY DEF StartIn, Earlier, OnTime
<1>4. n.wait <= m.wait
  BY <1>2, <1>3 DEF NoLater
<1>5. m.countdown # Never => n.countdown # Never /\ n.countdown <= m.countdown
  BY <1>3 DEF NoLater
<1> QED BY <1>1, <1>2, <1>3, <1>4, <1>5 DEF StartIn, Earlier

\* What a step from all to new may do, to be read off the helpers it is made of.
Step(all, new) ==
    /\ Inv(new)
    /\ \A r \in Rooms :
          /\ all.room[r].phase # "playing" /\ new.room[r].phase = "playing" =>
                /\ Cardinality(new.room[r].members) \in MinPlayers .. MaxPlayers
                /\ Overtaken = {} => \A p \in new.room[r].members : all.player[p].conn
          /\ all.room[r].phase = "lobby" /\ new.room[r].phase = "lobby" /\ new.room[r].members # {}
                => NoLater(all.room[r], new.room[r])
    /\ \A p \in Players :
          all.player[p].current /\ new.player[p].shows = all.player[p].shows /\ ~new.player[p].current =>
             all.room[all.player[p].shows].phase = "lobby" /\ all.room[all.player[p].shows].members # {}

\* Whoever has a clock that runs on has none that is put off.
LEMMA Unchanged ==
    ASSUME NEW m \in RoomRecords
    PROVE  NoLater(m, m)
<1>1. m.wait \in Int /\ m.countdown \in Int
  BY Clocks DEF RoomRecords
<1> QED BY <1>1 DEF NoLater

\* A step on room r alone.
LEMMA RoomStep ==
    ASSUME NEW all, NEW new, NEW r \in Rooms, Inv(all), Inv(new), Elsewhere(all, new, r),
           all.room[r].phase # "playing" /\ new.room[r].phase = "playing" =>
                /\ Cardinality(new.room[r].members) \in MinPlayers .. MaxPlayers
                /\ Overtaken = {} => \A p \in new.room[r].members : all.player[p].conn,
           all.room[r].phase = "lobby" /\ new.room[r].phase = "lobby" /\ new.room[r].members # {}
                => NoLater(all.room[r], new.room[r]),
           \A p \in Players :
              all.player[p].current /\ new.player[p].shows = all.player[p].shows /\ ~new.player[p].current =>
                 all.room[all.player[p].shows].phase = "lobby" /\ all.room[all.player[p].shows].members # {}
    PROVE  Step(all, new)
<1>1. \A q \in Rooms \ {r} : new.room[q] = all.room[q] /\ all.room[q] \in RoomRecords
  BY DEF Elsewhere, Inv, States
<1>2. \A q \in Rooms \ {r} : NoLater(all.room[q], new.room[q])
  BY <1>1, Unchanged
<1> QED BY <1>1, <1>2 DEF Step

\* Steps that only move clocks and connections.
LEMMA ClockStep ==
    ASSUME NEW all, NEW new, Inv(all), new \in States,
           \A r \in Rooms :
              /\ new.room[r].phase = all.room[r].phase /\ new.room[r].members = all.room[r].members
              /\ new.room[r].wait <= all.room[r].wait /\ new.room[r].countdown <= all.room[r].countdown
              /\ new.room[r].wait = Never <=> all.room[r].wait = Never
              /\ new.room[r].countdown = Never <=> all.room[r].countdown = Never,
           \A p \in Players :
              /\ new.player[p].shows = all.player[p].shows /\ new.player[p].current = all.player[p].current
              /\ new.player[p].categories = all.player[p].categories
              /\ new.player[p].search = Never <=> all.player[p].search = Never,
           \A r \in Rooms : \A p \in all.room[r].members :
              all.room[r].phase = "lobby" /\ (all.player[p].conn \/ all.player[p].gone # Never)
                 => new.player[p].conn \/ new.player[p].gone # Never
    PROVE  Step(all, new)
<1>1. Apart(new)
  BY DEF Inv, Apart
<1>2. ASSUME NEW r \in Rooms PROVE InRoom(new, r) /\ NoLater(all.room[r], new.room[r])
  <2>1. InRoom(all, r) /\ all.room[r].members \subseteq Players
    BY DEF Inv, States, RoomRecords
  <2>2. SharedCategories(new, r) = SharedCategories(all, r)
    BY <2>1 DEF SharedCategories
  <2>3. OnTime(all.room[r]) => OnTime(new.room[r])
    BY DEF OnTime
  <2>4. \A p \in new.room[r].members : Seat(new, r, p)
    BY <2>1 DEF InRoom, Seat
  <2>5. InRoom(new, r)
    BY <2>1, <2>2, <2>3, <2>4 DEF InRoom
  <2> QED BY <2>5 DEF NoLater
<1>3. Inv(new)
  BY <1>1, <1>2 DEF Inv
<1> QED BY <1>2, <1>3 DEF Step

\* A player joins the search of a room that accepts them (joinSearch).
LEMMA EnterIsStep ==
    ASSUME NEW all, Inv(all), NEW p \in Players, NEW r \in Rooms, NEW categories \in SUBSET Categories,
           categories # {}, all.room[r].phase = "lobby", Cardinality(all.room[r].members) < MaxPlayers,
           all.room[r].members # {} => SharedCategories(all, r) \cap categories # {},
           \A q \in Rooms : p \notin all.room[q].members,
           Overtaken = {} => all.player[p].conn
    PROVE  Step(all, Enter(all, p, r, categories))
<1> DEFINE m == all.room[r]
           n == [m EXCEPT !.members = m.members \cup {p}]
           s == all.player[p]
           t == [s EXCEPT !.shows = None, !.current = FALSE, !.categories = categories, !.search = NoMatch, !.gone = Never]
           in == [player |-> [all.player EXCEPT ![p] = t], room |-> [all.room EXCEPT ![r] = n]]
           new == LobbyChanged(in, r)
<1>1. new = Enter(all, p, r, categories)
  BY DEF Enter, Inv, States
<1>2. all \in States /\ InRoom(all, r) /\ Apart(all) /\ m \in RoomRecords /\ s \in Sessions /\ m.members \subseteq Players
  BY DEF Inv, States, RoomRecords
<1>3. NoMatch \in Timer /\ NoMatch # Never /\ Never \in Timer
  BY Clocks DEF Times
<1>4. /\ t \in Sessions /\ t.shows = None /\ ~t.current /\ t.categories = categories /\ t.search # Never
      /\ t.conn = s.conn
  BY <1>2, <1>3 DEF Sessions, SessionRecords
<1>5. /\ n \in RoomRecords /\ n.members = m.members \cup {p} /\ n.phase = m.phase
      /\ n.wait = m.wait /\ n.countdown = m.countdown
  BY <1>2 DEF RoomRecords
<1> HIDE DEF t, n
<1>6. /\ in \in States /\ in.player[p] = t /\ in.room[r] = n
      /\ \A q \in Players \ {p} : in.player[q] = all.player[q]
      /\ \A q \in Rooms \ {r} : in.room[q] = all.room[q]
  BY <1>2, <1>4, <1>5 DEF States
<1> HIDE DEF in
<1>7. /\ IsFiniteSet(n.members) /\ Cardinality(n.members) = Cardinality(m.members) + 1
      /\ Cardinality(m.members) \in Nat
  <2>1. IsFiniteSet(m.members) /\ p \notin m.members
    BY <1>2 DEF InRoom
  <2>2. IsFiniteSet(m.members \cup {p}) /\ Cardinality(m.members \cup {p}) = Cardinality(m.members) + 1
    BY <2>1, FS_AddElement
  <2>3. Cardinality(m.members) \in Nat
    BY <2>1, FS_CardinalityType
  <2> QED BY <1>5, <2>2, <2>3
<1>8. /\ new \in States /\ new.player = in.player
      /\ \A q \in Rooms \ {r} : new.room[q] = all.room[q]
      /\ new.room[r].phase = "lobby" /\ new.room[r].members = n.members /\ OnTime(new.room[r])
      /\ new.room[r].wait # Never /\ m.wait # Never => new.room[r].wait = m.wait
      /\ new.room[r].wait # Never /\ m.countdown # Never => new.room[r].countdown = m.countdown
  <2>1. IsFiniteSet(in.room[r].members)
    BY <1>6, <1>7
  <2>2. /\ new \in States /\ new.player = in.player
        /\ \A q \in Rooms \ {r} : new.room[q] = in.room[q]
        /\ new.room[r].phase = n.phase /\ new.room[r].members = n.members /\ OnTime(new.room[r])
        /\ new.room[r].wait # Never /\ n.wait # Never => new.room[r].wait = n.wait
        /\ new.room[r].wait # Never /\ n.countdown # Never => new.room[r].countdown = n.countdown
    BY <1>6, <2>1, LobbyChangedIsOnTime
  <2> HIDE DEF new
  <2> QED BY <1>5, <1>6, <2>2
<1> HIDE DEF new
<1>9. Elsewhere(all, new, r)
  <2>1. \A q \in Rooms \ {r} : \A x \in all.room[q].members : x \in Players \ {p}
    BY <1>2 DEF States, RoomRecords
  <2> QED BY <1>6, <1>8, <2>1 DEF Elsewhere
<1>10. SharedCategories(new, r) # {}
  <2>1. CASE m.members = {}
    <3>1. new.room[r].members = {p} /\ new.player[p].categories = categories
      BY <1>4, <1>5, <1>6, <1>8, <2>1
    <3> QED BY <3>1 DEF SharedCategories
  <2>2. CASE m.members # {}
    <3>1. PICK c \in SharedCategories(all, r) : c \in categories
      BY <2>2
    <3>2. \A x \in m.members : new.player[x] = all.player[x]
      BY <1>2, <1>6, <1>8
    <3>3. c \in SharedCategories(new, r)
      BY <1>4, <1>5, <1>6, <1>8, <3>1, <3>2 DEF SharedCategories
    <3> QED BY <3>3
  <2> QED BY <2>1, <2>2
<1>11. \A x \in new.room[r].members : Seat(new, r, x)
  <2>1. Seat(new, r, p)
    BY <1>4, <1>6, <1>8 DEF Seat
  <2>2. \A x \in m.members : new.player[x] = all.player[x] /\ Seat(all, r, x)
    BY <1>2, <1>6, <1>8 DEF InRoom
  <2>3. \A x \in m.members : Seat(new, r, x)
    BY <1>8, <2>2 DEF Seat
  <2> QED BY <1>5, <1>8, <2>1, <2>3
<1>12. Cardinality(new.room[r].members) <= MaxPlayers
  BY <1>7, <1>8, PlayersAssumption
<1>13. InRoom(new, r)
  BY <1>7, <1>8, <1>10, <1>11, <1>12 DEF InRoom
<1>14. \A q \in Rooms \ {r} : new.room[r].members \cap all.room[q].members = {}
  BY <1>2, <1>5, <1>8 DEF Apart
<1>15. Inv(new)
  BY <1>8, <1>9, <1>13, <1>14, RoomByRoom
<1>16. NoLater(m, new.room[r])
  <2>1. {m.wait, m.countdown} \subseteq Int
    BY <1>2, Clocks DEF RoomRecords
  <2> QED BY <1>8, <2>1 DEF NoLater
<1>17. \A x \in Players : all.player[x].current /\ new.player[x].shows = all.player[x].shows => new.player[x].current
  <2>1. s.current => s.shows # None
    BY <1>2 DEF Sessions
  <2> QED BY <1>4, <1>6, <1>8, <2>1
<1>18. Step(all, new)
  BY <1>8, <1>9, <1>15, <1>16, <1>17, RoomStep
<1> QED BY <1>1, <1>18

-----------------------------------------------------------------------------
(* Actions *)

Then == [player |-> player', room |-> room']

LEMMA Becoming ==
    ASSUME NEW all, Inv(all), Becomes(all)
    PROVE  Then = all
<1>1. all = [player |-> all.player, room |-> all.room]
  BY DEF Inv, States
<1> QED BY <1>1 DEF Then, Becomes

\* Of a state in its room r.
LEMMA RoomNow ==
    ASSUME Inv(Now), NEW r \in Rooms
    PROVE  /\ room[r] \in RoomRecords /\ room[r].members \subseteq Players /\ InRoom(Now, r)
           /\ Now.room = room /\ Now.player = player
BY DEF Inv, Now, States, RoomRecords

LEMMA SessionNow ==
    ASSUME Inv(Now), NEW p \in Players
    PROVE  player[p] \in Sessions /\ Sessions \subseteq SessionRecords /\ Now.player = player /\ Now.room = room
BY DEF Inv, Now, States, Sessions

\* Sockets come and go; a place is kept for who drops out of a search.
LEMMA AttachStep ==
    ASSUME Inv(Now), NEW p \in Players, Attach(p)
    PROVE  Step(Now, Then)
<1> DEFINE s == player[p]
           t == [s EXCEPT !.conn = TRUE, !.gone = Never]
<1>1. player' = [player EXCEPT ![p] = t] /\ room' = room
  BY DEF Attach
<1>2. s \in Sessions /\ Never \in Timer
  BY SessionNow, Clocks
<1>3. /\ t \in Sessions /\ t.conn /\ t.shows = s.shows /\ t.current = s.current
      /\ t.categories = s.categories /\ t.search = s.search
  BY <1>2 DEF Sessions, SessionRecords
<1> HIDE DEF t
<1>4. player \in [Players -> Sessions] /\ room \in [Rooms -> RoomRecords]
  BY DEF Inv, States, Now
<1>5. /\ player' \in [Players -> Sessions] /\ player'[p] = t /\ \A q \in Players \ {p} : player'[q] = player[q]
  BY <1>1, <1>3, <1>4
<1>6. Then \in States /\ Then.player = player' /\ Then.room = room /\ Now.player = player /\ Now.room = room
  BY <1>1, <1>4, <1>5 DEF Then, States, Now
<1>7. \A r \in Rooms : room[r].wait \in Int /\ room[r].countdown \in Int /\ room[r].members \subseteq Players
  BY <1>4, Clocks DEF RoomRecords
<1> QED BY <1>3, <1>5, <1>6, <1>7, ClockStep

LEMMA DetachStep ==
    ASSUME Inv(Now), NEW p \in Players, Detach(p)
    PROVE  Step(Now, Then)
<1> DEFINE s == player[p]
           kept == IF IsMember(Now, p) /\ Searching(Now, RoomOf(Now, p)) THEN Grace ELSE Never
           t == [s EXCEPT !.conn = FALSE, !.gone = kept]
<1>1. player' = [player EXCEPT ![p] = t] /\ room' = room
  BY DEF Detach
<1>2. s \in Sessions /\ kept \in Timer /\ Grace # Never
  BY SessionNow, Clocks DEF Times
<1>3. /\ t \in Sessions /\ t.shows = s.shows /\ t.current = s.current
      /\ t.categories = s.categories /\ t.search = s.search /\ t.gone = kept
  BY <1>2 DEF Sessions, SessionRecords
<1>4. player \in [Players -> Sessions] /\ room \in [Rooms -> RoomRecords] /\ Apart(Now)
  BY DEF Inv, States, Now
<1>5. ASSUME NEW r \in Rooms, p \in room[r].members, room[r].phase = "lobby" PROVE kept # Never
  <2>1. RoomOf(Now, p) = r
    BY <1>4, <1>5 DEF RoomOf, Apart, Now
  <2> QED BY <1>2, <1>5, <2>1 DEF IsMember, Searching, Now
<1> HIDE DEF t, kept
<1>6. /\ player' \in [Players -> Sessions] /\ player'[p] = t /\ \A q \in Players \ {p} : player'[q] = player[q]
  BY <1>1, <1>3, <1>4
<1>7. Then \in States /\ Then.player = player' /\ Then.room = room /\ Now.player = player /\ Now.room = room
  BY <1>1, <1>4, <1>6 DEF Then, States, Now
<1>8. \A r \in Rooms : room[r].wait \in Int /\ room[r].countdown \in Int /\ room[r].members \subseteq Players
  BY <1>4, Clocks DEF RoomRecords
<1> QED BY <1>3, <1>5, <1>6, <1>7, <1>8, ClockStep

\* Time runs for every clock at once.
LEMMA ElapseStep ==
    ASSUME Inv(Now), Elapse
    PROVE  Step(Now, Then)
<1>1. player \in [Players -> Sessions] /\ room \in [Rooms -> RoomRecords]
  BY DEF Inv, States, Now
<1>2. ASSUME NEW p \in Players
      PROVE  /\ player'[p] \in Sessions /\ player'[p].shows = player[p].shows /\ player'[p].current = player[p].current
             /\ player'[p].categories = player[p].categories /\ player'[p].conn = player[p].conn
             /\ player'[p].search = Never <=> player[p].search = Never
             /\ player'[p].gone = Never <=> player[p].gone = Never
  <2> DEFINE s == player[p]
  <2>1. s \in Sessions /\ s.search \in Timer /\ s.gone \in Timer
    BY <1>1 DEF Sessions, SessionRecords
  <2>2. player'[p] = [s EXCEPT !.search = Later(s.search), !.gone = Later(s.gone)]
    BY DEF Elapse
  <2>3. /\ Later(s.search) \in Timer /\ Later(s.gone) \in Timer
        /\ Later(s.search) = Never <=> s.search = Never
        /\ Later(s.gone) = Never <=> s.gone = Never
    BY <2>1, ClocksElapse
  <2>4. PICK x \in Timer, y \in Timer :
            /\ player'[p] = [s EXCEPT !.search = x, !.gone = y]
            /\ (x = Never <=> s.search = Never) /\ (y = Never <=> s.gone = Never)
    BY <2>2, <2>3
  <2> HIDE DEF s
  <2> DEFINE t == [s EXCEPT !.search = x, !.gone = y]
  <2>5. /\ t \in Sessions /\ t.shows = s.shows /\ t.current = s.current /\ t.conn = s.conn
        /\ t.categories = s.categories /\ t.search = x /\ t.gone = y
    BY <2>1 DEF Sessions, SessionRecords
  <2>6. player'[p] = t
    BY <2>4
  <2> HIDE DEF t
  <2> QED BY <2>4, <2>5, <2>6 DEF s
<1>3. ASSUME NEW r \in Rooms
      PROVE  /\ room'[r] \in RoomRecords /\ room'[r].phase = room[r].phase /\ room'[r].members = room[r].members
             /\ room'[r].wait <= room[r].wait /\ room'[r].countdown <= room[r].countdown
             /\ room'[r].wait = Never <=> room[r].wait = Never
             /\ room'[r].countdown = Never <=> room[r].countdown = Never
  <2> DEFINE m == room[r]
  <2>1. m \in RoomRecords /\ m.wait \in Timer /\ m.countdown \in Timer
    BY <1>1 DEF RoomRecords
  <2>2. room'[r] = [m EXCEPT !.wait = Later(m.wait), !.countdown = Later(m.countdown)]
    BY DEF Elapse
  <2>3. /\ Later(m.wait) \in Timer /\ Later(m.countdown) \in Timer
        /\ Later(m.wait) <= m.wait /\ Later(m.countdown) <= m.countdown
        /\ Later(m.wait) = Never <=> m.wait = Never
        /\ Later(m.countdown) = Never <=> m.countdown = Never
    BY <2>1, ClocksElapse
  <2>4. PICK x \in Timer, y \in Timer :
            /\ room'[r] = [m EXCEPT !.wait = x, !.countdown = y]
            /\ x <= m.wait /\ y <= m.countdown
            /\ (x = Never <=> m.wait = Never) /\ (y = Never <=> m.countdown = Never)
    BY <2>2, <2>3
  <2> HIDE DEF m
  <2> DEFINE n == [m EXCEPT !.wait = x, !.countdown = y]
  <2>5. n \in RoomRecords /\ n.phase = m.phase /\ n.members = m.members /\ n.wait = x /\ n.countdown = y
    BY <2>1 DEF RoomRecords
  <2>6. room'[r] = n
    BY <2>4
  <2> HIDE DEF n
  <2> QED BY <2>4, <2>5, <2>6 DEF m
<1>4. player' \in [Players -> Sessions] /\ room' \in [Rooms -> RoomRecords]
  <2>1. DOMAIN player' = Players /\ player' = [p \in Players |-> player'[p]]
    BY DEF Elapse
  <2>2. DOMAIN room' = Rooms /\ room' = [r \in Rooms |-> room'[r]]
    BY DEF Elapse
  <2> QED BY <1>2, <1>3, <2>1, <2>2
<1>5. Then \in States /\ Then.player = player' /\ Then.room = room' /\ Now.player = player /\ Now.room = room
  BY <1>4 DEF Then, States, Now
<1>6. \A r \in Rooms : room[r].members \subseteq Players
  BY <1>1 DEF RoomRecords
<1> QED BY <1>2, <1>3, <1>5, <1>6, ClockStep

\* No member of a room shows a match that is not of this room, so whoever shows another is in none.
LEMMA NotSeated ==
    ASSUME Inv(Now), NEW p \in Players, player[p].shows # None,
           player[p].current => p \notin room[player[p].shows].members
    PROVE  \A r \in Rooms : p \notin room[r].members
<1> SUFFICES ASSUME NEW r \in Rooms, p \in room[r].members PROVE FALSE
  OBVIOUS
<1>1. InRoom(Now, r)
  BY RoomNow
<1>2. room[r].phase \in {"lobby", "playing"} /\ Seat(Now, r, p)
  BY <1>1 DEF InRoom, Now
<1> QED BY <1>2 DEF Seat, Now

\* A room that accepts a player, or that nobody knows, is one to search in.
LEMMA RoomsToEnter ==
    ASSUME Inv(Now), NEW r \in Rooms, NEW categories \in SUBSET Categories, categories # {},
           Accepts(Now, r, categories) \/ Unknown(r)
    PROVE  /\ Now.room[r].phase = "lobby" /\ Cardinality(Now.room[r].members) < MaxPlayers
           /\ Now.room[r].members # {} => SharedCategories(Now, r) \cap categories # {}
<1>1. CASE Accepts(Now, r, categories)
  BY <1>1 DEF Accepts, Searching
<1>2. CASE Unknown(r)
  <2>1. room[r].members = {}
    BY <1>2 DEF Unknown, Listed
  <2>2. room[r].phase = "lobby"
    BY <2>1, RoomNow DEF InRoom, Now
  <2>3. Cardinality({}) = 0 /\ MaxPlayers \in Nat /\ MaxPlayers > 0
    BY FS_EmptySet, PlayersAssumption
  <2> QED BY <2>1, <2>2, <2>3 DEF Now
<1> QED BY <1>1, <1>2

LEMMA SearchStep ==
    ASSUME Inv(Now), NEW p \in Players, NEW categories \in (SUBSET Categories) \ {{}}, Search(p, categories)
    PROVE  Step(Now, Then)
<1>1. PICK r \in Candidates(categories) : Becomes(Enter(Now, p, r, categories))
  BY DEF Search
<1>2. r \in Rooms /\ (Accepts(Now, r, categories) \/ Unknown(r))
  BY <1>1 DEF Candidates
<1>3. \A q \in Rooms : p \notin Now.room[q].members
  BY DEF Search, IsMember
<1>4. Overtaken = {} => Now.player[p].conn
  BY DEF Search, CanCommand, Now
<1>5. Step(Now, Enter(Now, p, r, categories))
  BY <1>2, <1>3, <1>4, RoomsToEnter, EnterIsStep
<1> QED BY <1>1, <1>5, Becoming DEF Step

LEMMA PlayAgainStep ==
    ASSUME Inv(Now), NEW p \in Players, PlayAgain(p)
    PROVE  Step(Now, Then)
<1> DEFINE previous == player[p].shows
           categories == player[p].categories
<1>1. player[p] \in Sessions /\ previous # None
  BY SessionNow DEF PlayAgain
<1>2. previous \in Rooms /\ categories \in SUBSET Categories /\ categories # {}
  BY <1>1 DEF Sessions, SessionRecords
<1>3. PICK r : /\ (r = previous /\ Accepts(Now, previous, categories)) \/ r \in Candidates(categories)
               /\ Becomes(Enter(Now, p, r, categories))
  BY DEF PlayAgain
<1>4. r \in Rooms /\ (Accepts(Now, r, categories) \/ Unknown(r))
  BY <1>2, <1>3 DEF Candidates
<1>5. player[p].current => p \notin room[previous].members
  <2> SUFFICES ASSUME player[p].current, p \in room[previous].members PROVE FALSE
    OBVIOUS
  <2>1. room[previous].phase # "playing"
    BY DEF PlayAgain
  <2>2. InRoom(Now, previous)
    BY <1>2, RoomNow
  <2>3. room[previous].phase = "lobby" /\ Seat(Now, previous, p)
    BY <2>1, <2>2 DEF InRoom, Now
  <2> QED BY <1>1, <2>3 DEF Seat, Now
<1>6. \A q \in Rooms : p \notin Now.room[q].members
  <2>1. \A q \in Rooms : p \notin room[q].members
    BY <1>1, <1>5, NotSeated
  <2> QED BY <2>1 DEF Now
<1>7. Overtaken = {} => Now.player[p].conn
  BY DEF PlayAgain, CanCommand, Now
<1> HIDE DEF categories
<1>8. /\ Now.room[r].phase = "lobby" /\ Cardinality(Now.room[r].members) < MaxPlayers
      /\ Now.room[r].members # {} => SharedCategories(Now, r) \cap categories # {}
  BY <1>2, <1>4, RoomsToEnter
<1>9. Step(Now, Enter(Now, p, r, categories))
  BY <1>2, <1>4, <1>6, <1>7, <1>8, EnterIsStep
<1> QED BY <1>3, <1>9, Becoming DEF Step

\* Who leaves a search takes nothing from the others.
LEMMA LeavesIsStep ==
    ASSUME NEW all, NEW new, NEW r \in Rooms, NEW leaving, Inv(all), Inv(new), Leaves(all, new, r, leaving)
    PROVE  Step(all, new)
<1>1. {all.room[r].wait, all.room[r].countdown, new.room[r].wait} \subseteq Int
  BY Clocks DEF Inv, States, RoomRecords
<1>2. NoLater(all.room[r], new.room[r])
  BY <1>1 DEF NoLater, Leaves, Shrinks
<1> QED BY <1>2, RoomStep DEF Leaves

LEMMA CancelStep ==
    ASSUME Inv(Now), NEW p \in Players, Cancel(p)
    PROVE  Step(Now, Then)
<1> DEFINE r == RoomOf(Now, p)
           new == LeaveSearch(Now, r, {p})
<1>1. \E q \in Rooms : p \in Now.room[q].members
  BY DEF Cancel, IsMember
<1>2. r \in Rooms /\ p \in Now.room[r].members
  BY <1>1 DEF RoomOf
<1>3. Now.room[r].phase = "lobby" /\ Becomes(new)
  BY DEF Cancel, Searching
<1> HIDE DEF r
<1>4. Inv(new) /\ Leaves(Now, new, r, {p})
  BY <1>2, <1>3, LeaveIsWell
<1> HIDE DEF new
<1>5. Step(Now, new)
  BY <1>2, <1>4, LeavesIsStep
<1> QED BY <1>3, <1>4, <1>5, Becoming

-----------------------------------------------------------------------------
(* Leaving a match *)

\* A room is well as long as neither it nor anybody in it changes.
LEMMA SameRoom ==
    ASSUME NEW all, NEW new, NEW q, InRoom(all, q), new.room[q] = all.room[q],
           \A p \in all.room[q].members : new.player[p] = all.player[p]
    PROVE  InRoom(new, q)
<1>1. SharedCategories(new, q) = SharedCategories(all, q)
  BY DEF SharedCategories
<1>2. \A p \in new.room[q].members : Seat(new, q, p)
  BY DEF InRoom, Seat
<1> QED BY <1>1, <1>2 DEF InRoom

\* Some leave the match of room r: it goes on with the others, or it is over and everyone is out.
LEMMA MatchLosesPlayers ==
    ASSUME NEW all, NEW mid, NEW r \in Rooms, Inv(all), mid \in States, all.room[r].phase = "playing",
           NEW gone \in SUBSET all.room[r].members, NEW over \in BOOLEAN, all.room[r].members = gone => over,
           mid.room[r].members = all.room[r].members \ gone,
           mid.room[r].phase = IF over THEN "ended" ELSE "playing",
           mid.room[r].wait = all.room[r].wait, mid.room[r].countdown = all.room[r].countdown,
           \A q \in Rooms \ {r} : mid.room[q] = all.room[q],
           \A p \in Players \ gone : mid.player[p] = all.player[p],
           \A p \in Players :
              all.player[p].current /\ mid.player[p].shows = all.player[p].shows => mid.player[p].current
    PROVE  Step(all, SettleFinishedMatch(mid, r))
<1> DEFINE new == SettleFinishedMatch(mid, r)
<1>1. /\ all \in States /\ Apart(all) /\ \A q \in Rooms : InRoom(all, q)
      /\ \A q \in Rooms : all.room[q].members \subseteq Players
  BY DEF Inv, States, RoomRecords
<1>2. Elsewhere(all, mid, r)
  BY <1>1 DEF Elsewhere, Apart
<1>3. Apart(mid)
  BY <1>1 DEF Apart
<1>4. IsFiniteSet(all.room[r].members) /\ IsFiniteSet(mid.room[r].members)
      /\ Cardinality(mid.room[r].members) <= Cardinality(all.room[r].members)
      /\ Cardinality(mid.room[r].members) \in Nat /\ Cardinality(all.room[r].members) \in Nat
  BY <1>1, FS_Subset, FS_CardinalityType DEF InRoom
<1>5. CASE over
  <2>1. \A q \in Rooms \ {r} : InRoom(mid, q)
    BY <1>1, <1>2, SameRoom DEF Elsewhere
  <2>2. JustEnded(mid, r)
    BY <1>3, <1>4, <1>5, <2>1 DEF JustEnded
  <2>3. /\ Inv(new) /\ Elsewhere(mid, new, r)
        /\ new.room[r].phase = "lobby" /\ new.room[r].members = {}
        /\ \A p \in Players :
              new.player[p].shows = mid.player[p].shows /\ new.player[p].current = mid.player[p].current
    BY <2>2, SettleIsWell
  <2> HIDE DEF new
  <2>4. Elsewhere(all, new, r)
    BY <1>2, <2>3 DEF Elsewhere
  <2>5. Step(all, new)
    BY <2>3, <2>4, RoomStep
  <2> QED BY <2>5 DEF new
<1>6. CASE ~over
  <2>1. new = mid
    BY <1>6 DEF SettleFinishedMatch
  <2>2. mid.room[r].members # {} /\ mid.room[r].phase = "playing"
    BY <1>6
  <2>3. \A p \in mid.room[r].members : Seat(mid, r, p)
    BY <1>1, <2>2 DEF InRoom, Seat
  <2>4. Cardinality(mid.room[r].members) <= MaxPlayers
    BY <1>1, <1>4, PlayersAssumption DEF InRoom
  <2>5. InRoom(mid, r)
    BY <1>1, <1>4, <2>2, <2>3, <2>4 DEF InRoom
  <2>6. \A q \in Rooms \ {r} : mid.room[r].members \cap all.room[q].members = {}
    BY <1>1 DEF Apart
  <2>7. Inv(mid)
    BY <1>2, <2>5, <2>6, RoomByRoom
  <2>8. Step(all, mid)
    BY <1>2, <2>2, <2>7, RoomStep
  <2> QED BY <2>1, <2>8
<1> QED BY <1>5, <1>6

\* A handler takes players from the match of room r, that may be over.
Loses(all, r, gone, over) ==
    [all EXCEPT !.room[r].members = @ \ gone, !.room[r].phase = IF over THEN "ended" ELSE @]

LEMMA LosingPlayers ==
    ASSUME NEW all \in States, NEW r \in Rooms, NEW gone, NEW over \in BOOLEAN
    PROVE  LET new == Loses(all, r, gone, over)
               m == all.room[r]
               n == new.room[r]
           IN  /\ new \in States /\ new.player = all.player
               /\ \A q \in Rooms \ {r} : new.room[q] = all.room[q]
               /\ n.members = m.members \ gone /\ n.phase = IF over THEN "ended" ELSE m.phase
               /\ n.wait = m.wait /\ n.countdown = m.countdown
<1> DEFINE m == all.room[r]
           first == [m EXCEPT !.members = m.members \ gone]
           between == [all.room EXCEPT ![r] = first]
           second == [first EXCEPT !.phase = IF over THEN "ended" ELSE first.phase]
           rooms == [between EXCEPT ![r] = second]
           once == [all EXCEPT !.room[r].members = @ \ gone]
           new == [once EXCEPT !.room[r].phase = IF over THEN "ended" ELSE @]
<1>1. m \in RoomRecords /\ all.room \in [Rooms -> RoomRecords] /\ all.player \in [Players -> Sessions]
  BY DEF States
<1>2. once = [player |-> all.player, room |-> between]
  BY DEF States
<1>3. between[r] = first /\ \A q \in Rooms \ {r} : between[q] = all.room[q]
  BY <1>1
<1>4. new = [player |-> all.player, room |-> rooms]
  <2> HIDE DEF once, between, first
  <2>1. once.room = between /\ once.player = all.player
    BY <1>2
  <2>2. new = [player |-> all.player,
               room |-> [once.room EXCEPT ![r] = [once.room[r] EXCEPT !.phase = IF over THEN "ended" ELSE once.room[r].phase]]]
    BY <1>2
  <2> QED BY <1>3, <2>1, <2>2
<1>5. new = Loses(all, r, gone, over)
  BY DEF Loses
<1>6. first \in RoomRecords /\ first.members = m.members \ gone /\ first.phase = m.phase
      /\ first.wait = m.wait /\ first.countdown = m.countdown
  BY <1>1 DEF RoomRecords
<1> HIDE DEF first
<1>7. /\ second \in RoomRecords /\ second.members = m.members \ gone
      /\ second.phase = IF over THEN "ended" ELSE m.phase
      /\ second.wait = m.wait /\ second.countdown = m.countdown
  <2>1. (IF over THEN "ended" ELSE first.phase) \in {"lobby", "playing", "ended"}
    BY <1>6 DEF RoomRecords
  <2> QED BY <1>6, <2>1 DEF RoomRecords
<1>8. between \in [Rooms -> RoomRecords]
  BY <1>1, <1>6
<1> HIDE DEF second, between, new
<1>9. rooms \in [Rooms -> RoomRecords] /\ rooms[r] = second /\ \A q \in Rooms \ {r} : rooms[q] = all.room[q]
  BY <1>3, <1>7, <1>8
<1> HIDE DEF rooms
<1>10. new \in States /\ new.player = all.player /\ new.room = rooms
  BY <1>1, <1>4, <1>9 DEF States
<1> QED BY <1>5, <1>7, <1>9, <1>10

LEMMA LeaveMatchStep ==
    ASSUME Inv(Now), NEW p \in Players, LeaveMatch(p)
    PROVE  Step(Now, Then)
<1> DEFINE s == player[p]
           r == s.shows
           t == [s EXCEPT !.shows = None, !.current = FALSE]
           players == [player EXCEPT ![p] = Idle(t)]
           home == [player |-> players, room |-> room]
<1>1. /\ s \in Sessions /\ r # None /\ player \in [Players -> Sessions] /\ room \in [Rooms -> RoomRecords]
  BY SessionNow DEF LeaveMatch, Inv, Now, States
<1>2. r \in Rooms
  BY <1>1 DEF Sessions, SessionRecords
<1>3. t \in Sessions /\ t.shows = None
  BY <1>1 DEF Sessions, SessionRecords
<1>4. Idle(t) \in Sessions /\ Idle(t).shows = None
  BY <1>3, IdleKeeps
<1>5. /\ players \in [Players -> Sessions] /\ players[p] = Idle(t)
      /\ \A x \in Players \ {p} : players[x] = player[x]
  BY <1>1, <1>4
<1>6. \A x \in Players : player[x].current /\ players[x].shows = player[x].shows => players[x].current
  BY <1>1, <1>4, <1>5
<1>7. Now.player = player /\ Now.room = room
  BY DEF Now
<1>8. home = [Now EXCEPT !.player[p] = Idle([@ EXCEPT !.shows = None, !.current = FALSE])]
  BY DEF Now
<1>9. IF s.current /\ p \in room[r].members
      THEN \E over \in BOOLEAN :
              /\ room[r].members = {p} => over
              /\ Becomes(SettleFinishedMatch(Loses(home, r, {p}, over), r))
      ELSE Becomes(home)
  BY <1>8 DEF LeaveMatch, Loses
<1> HIDE DEF t, players
<1>10. CASE s.current /\ p \in room[r].members
  <2>1. PICK over \in BOOLEAN :
              /\ room[r].members = {p} => over
              /\ Becomes(SettleFinishedMatch(Loses(home, r, {p}, over), r))
    BY <1>9, <1>10
  <2> DEFINE mid == Loses(home, r, {p}, over)
             new == SettleFinishedMatch(mid, r)
  <2>2. room[r].phase = "playing"
    <3>1. InRoom(Now, r)
      BY <1>2, RoomNow
    <3> QED BY <1>1, <1>7, <1>10, <3>1 DEF InRoom, Seat
  <2>3. home \in States /\ home.player = players /\ home.room = room
    BY <1>1, <1>5 DEF States
  <2> HIDE DEF home
  <2>4. /\ mid \in States /\ mid.player = home.player
        /\ \A q \in Rooms \ {r} : mid.room[q] = home.room[q]
        /\ mid.room[r].members = home.room[r].members \ {p}
        /\ mid.room[r].phase = IF over THEN "ended" ELSE home.room[r].phase
        /\ mid.room[r].wait = home.room[r].wait /\ mid.room[r].countdown = home.room[r].countdown
    BY <1>2, <2>3, LosingPlayers
  <2> HIDE DEF mid
  <2>5. /\ Now.room[r].phase = "playing" /\ {p} \in SUBSET Now.room[r].members
        /\ Now.room[r].members = {p} => over
    BY <1>7, <1>10, <2>1, <2>2
  <2>6. /\ mid.room[r].members = Now.room[r].members \ {p}
        /\ mid.room[r].phase = IF over THEN "ended" ELSE "playing"
        /\ mid.room[r].wait = Now.room[r].wait /\ mid.room[r].countdown = Now.room[r].countdown
        /\ \A q \in Rooms \ {r} : mid.room[q] = Now.room[q]
    BY <1>7, <2>2, <2>3, <2>4
  <2>7. /\ \A x \in Players \ {p} : mid.player[x] = Now.player[x]
        /\ \A x \in Players :
              Now.player[x].current /\ mid.player[x].shows = Now.player[x].shows => mid.player[x].current
    BY <1>5, <1>6, <1>7, <2>3, <2>4
  <2> HIDE DEF r
  <2>8. Step(Now, new)
    BY <1>2, <2>4, <2>5, <2>6, <2>7, MatchLosesPlayers
  <2>9. Becomes(new)
    BY <2>1 DEF mid
  <2> HIDE DEF new
  <2> QED BY <2>8, <2>9, Becoming DEF Step
<1>11. CASE ~(s.current /\ p \in room[r].members)
  <2>1. Becomes(home)
    BY <1>9, <1>11
  <2>2. home \in States /\ home.player = players /\ home.room = room
    BY <1>1, <1>5 DEF States
  <2> HIDE DEF home
  <2>3. \A q \in Rooms : p \notin room[q].members /\ room[q].members \subseteq Players /\ InRoom(Now, q)
    BY <1>1, <1>11, NotSeated, RoomNow
  <2>4. \A q \in Rooms : InRoom(home, q)
    BY <1>5, <1>7, <2>2, <2>3, SameRoom
  <2>5. Apart(home)
    BY <1>7, <2>2 DEF Apart, Inv
  <2>6. Inv(home)
    BY <2>2, <2>4, <2>5 DEF Inv
  <2>7. Elsewhere(Now, home, r)
    BY <1>5, <1>7, <2>2, <2>3 DEF Elsewhere
  <2>8. NoLater(Now.room[r], home.room[r])
    BY <1>1, <1>2, <1>7, <2>2, Unchanged
  <2>9. Step(Now, home)
    BY <1>2, <1>6, <1>7, <2>2, <2>6, <2>7, <2>8, RoomStep
  <2> QED BY <2>1, <2>6, <2>9, Becoming
<1> QED BY <1>10, <1>11

LEMMA MatchMovesStep ==
    ASSUME Inv(Now), NEW r \in Rooms, MatchMoves(r)
    PROVE  Step(Now, Then)
<1>1. PICK gone \in SUBSET {p \in room[r].members : ~player[p].conn}, over \in BOOLEAN :
          /\ room[r].members = gone => over
          /\ Becomes(TickRoom(Loses(Now, r, gone, over), r))
  BY DEF MatchMoves, Loses
<1> DEFINE mid == Loses(Now, r, gone, over)
           new == SettleFinishedMatch(mid, r)
<1>2. Now.player = player /\ Now.room = room /\ room[r].phase = "playing" /\ Now \in States
  BY DEF Now, MatchMoves, Inv
<1>3. /\ mid \in States /\ mid.player = Now.player
      /\ \A q \in Rooms \ {r} : mid.room[q] = Now.room[q]
      /\ mid.room[r].members = Now.room[r].members \ gone
      /\ mid.room[r].phase = IF over THEN "ended" ELSE Now.room[r].phase
      /\ mid.room[r].wait = Now.room[r].wait /\ mid.room[r].countdown = Now.room[r].countdown
  BY <1>2, LosingPlayers
<1> HIDE DEF mid
<1>4. TickRoom(mid, r) = new
  BY <1>2, <1>3 DEF TickRoom, TickSearch, Searching
<1>5. gone \in SUBSET Now.room[r].members /\ (Now.room[r].members = gone => over)
  BY <1>1, <1>2
<1>6. Step(Now, new)
  BY <1>2, <1>3, <1>5, MatchLosesPlayers
<1>7. Becomes(new)
  BY <1>1, <1>4 DEF mid
<1> HIDE DEF new
<1> QED BY <1>6, <1>7, Becoming DEF Step

-----------------------------------------------------------------------------
(* The steps together *)

LEMMA SearchTimerStep ==
    ASSUME Inv(Now), NEW r \in Rooms, SearchTimer(r)
    PROVE  Step(Now, Then)
<1> DEFINE new == TickSearch(Now, r)
<1>1. Now.room[r].phase = "lobby" /\ Becomes(SettleFinishedMatch(new, r))
  BY DEF SearchTimer, SearchDue, Searching, TickRoom
<1>2. Inv(new) /\ Ticks(Now, new, r)
  BY <1>1, TickSearchIsWell
<1> HIDE DEF new
<1>3. Becomes(new)
  BY <1>1, <1>2 DEF Ticks, SettleFinishedMatch
<1>4. NoLater(Now.room[r], new.room[r]) \/ new.room[r].phase # "lobby"
  <2>1. {Now.room[r].wait, Now.room[r].countdown, new.room[r].wait, new.room[r].countdown} \subseteq Int
    BY <1>2, Clocks DEF Inv, States, RoomRecords
  <2> QED BY <1>2, <2>1 DEF NoLater, Ticks, Shrinks
<1>5. Step(Now, new)
  BY <1>1, <1>2, <1>4, RoomStep DEF Ticks
<1> QED BY <1>2, <1>3, <1>5, Becoming

LEMMA NextStep ==
    ASSUME Inv(Now), Next
    PROVE  Step(Now, Then)
<1>1. CASE \E p \in Players : Attach(p)
  BY <1>1, AttachStep
<1>2. CASE \E p \in Players : Detach(p)
  BY <1>2, DetachStep
<1>3. CASE \E p \in Players : PlayAgain(p)
  BY <1>3, PlayAgainStep
<1>4. CASE \E p \in Players : Cancel(p)
  BY <1>4, CancelStep
<1>5. CASE \E p \in Players : LeaveMatch(p)
  BY <1>5, LeaveMatchStep
<1>6. CASE \E p \in Players : \E categories \in (SUBSET Categories) \ {{}} : Search(p, categories)
  BY <1>6, SearchStep
<1>7. CASE Elapse
  BY <1>7, ElapseStep
<1>8. CASE \E r \in Rooms : SearchTimer(r)
  BY <1>8, SearchTimerStep
<1>9. CASE \E r \in Rooms : MatchMoves(r)
  BY <1>9, MatchMovesStep
<1> QED BY <1>1, <1>2, <1>3, <1>4, <1>5, <1>6, <1>7, <1>8, <1>9 DEF Next, Command, OnItsOwn

\* The invariant of the specification.
Well == Inv(Now)

LEMMA WellAtFirst == Init => Well
<1> SUFFICES ASSUME Init PROVE Inv(Now)
  BY DEF Well
<1>1. Now.player = player /\ Now.room = room
  BY DEF Now
<1> DEFINE s == [conn |-> TRUE, shows |-> None, current |-> FALSE, categories |-> {}, search |-> Never, gone |-> Never]
           m == [phase |-> "lobby", members |-> {}, wait |-> Never, countdown |-> Never]
<1>2. s \in Sessions /\ m \in RoomRecords
  BY Clocks DEF Sessions, SessionRecords, RoomRecords
<1>3. player = [p \in Players |-> s] /\ room = [r \in Rooms |-> m]
  BY DEF Init
<1>4. Now \in States
  BY <1>2, <1>3 DEF Now, States
<1>5. \A r \in Rooms : room[r].phase = "lobby" /\ room[r].members = {} /\ room[r].wait = Never /\ room[r].countdown = Never
  BY <1>3
<1>6. IsFiniteSet({}) /\ Cardinality({}) = 0
  BY FS_EmptySet
<1>7. /\ MinPlayers \in Nat /\ CountdownPlayers \in Nat /\ MaxPlayers \in Nat
      /\ ~(0 >= MinPlayers) /\ ~(0 >= CountdownPlayers) /\ 0 <= MaxPlayers
  BY PlayersAssumption
<1>8. \A r \in Rooms : OnTime(Now.room[r])
  BY <1>1, <1>5, <1>6, <1>7 DEF OnTime
<1>9. \A r \in Rooms : InRoom(Now, r)
  BY <1>1, <1>5, <1>6, <1>7, <1>8 DEF InRoom
<1>10. Apart(Now)
  BY <1>1, <1>5 DEF Apart
<1> QED BY <1>4, <1>9, <1>10 DEF Inv

LEMMA StaysWell == Well /\ [Next]_vars => Well'
<1> SUFFICES ASSUME Well, [Next]_vars PROVE Well'
  OBVIOUS
<1>1. Inv(Now)
  BY DEF Well
<1>2. CASE Next
  <2>1. Inv(Then)
    BY <1>1, <1>2, NextStep DEF Step
  <2> QED BY <2>1 DEF Well, Inv, States, Apart, InRoom, Seat, OnTime, SharedCategories, Now, Then
<1>3. CASE UNCHANGED vars
  <2>1. Inv(Then)
    BY <1>1, <1>3 DEF vars, Now, Then
  <2> QED BY <2>1 DEF Well, Inv, States, Apart, InRoom, Seat, OnTime, SharedCategories, Now, Then
<1> QED BY <1>2, <1>3

-----------------------------------------------------------------------------
(* What is checked of matchmaking *)

LEMMA AlwaysWell == Spec => []Well
BY WellAtFirst, StaysWell, PTL DEF Spec

LEMMA RoomIsWell ==
    ASSUME Well, NEW r \in Rooms
    PROVE  /\ room[r] \in RoomRecords /\ room[r].members \subseteq Players /\ InRoom(Now, r)
           /\ Now.room = room /\ Now.player = player
BY RoomNow DEF Well

\* Players, rooms and their timers keep their shape, however many there are, and no match is
\* larger than MaxPlayers: entering, dropping, dealing and settling in any order.
THEOREM MatchmakingTyped == Spec => []TypeOK
<1>1. ASSUME Well PROVE TypeOK
  <2>1. player \in [Players -> Sessions] /\ Sessions \subseteq SessionRecords
    BY <1>1 DEF Well, Inv, States, Now, Sessions
  <2>2. player \in [Players -> SessionRecords]
    BY <2>1
  <2> DEFINE Settled == [phase : {"lobby", "playing"}, members : SUBSET Players, wait : Timer, countdown : Timer]
  <2>3. \A r \in Rooms : room[r] \in Settled /\ Cardinality(room[r].members) <= MaxPlayers
    <3> SUFFICES ASSUME NEW r \in Rooms PROVE room[r] \in Settled /\ Cardinality(room[r].members) <= MaxPlayers
      OBVIOUS
    <3>1. room[r] \in RoomRecords /\ InRoom(Now, r) /\ Now.room = room
      BY <1>1, RoomIsWell
    <3> QED BY <3>1 DEF InRoom, RoomRecords
  <2>4. room \in [Rooms -> Settled]
    <3>1. room \in [Rooms -> RoomRecords]
      BY <1>1 DEF Well, Inv, States, Now
    <3> HIDE DEF Settled
    <3> QED BY <2>3, <3>1
  <2> QED BY <2>2, <2>3, <2>4 DEF TypeOK, SessionRecords
<1> QED BY <1>1, AlwaysWell, PTL

\* With any number of players and rooms, whoever is in a forming or running match is in that one
\* alone, and what their session shows says so (joinSearch, BeginGame, settleFinishedMatch).
THEOREM OneMatchAtATime == Spec => []InOneMatch
<1>1. ASSUME Well PROVE InOneMatch
  <2> SUFFICES ASSUME NEW r \in Rooms, NEW p \in room[r].members
               PROVE  /\ \A other \in Rooms \ {r} : p \notin room[other].members
                      /\ Forming(r) => player[p].shows = None /\ player[p].search # Never
                      /\ Playing(r) => player[p].shows = r /\ player[p].current
    BY DEF InOneMatch
  <2>1. InRoom(Now, r) /\ Now.room = room /\ Now.player = player
    BY <1>1, RoomIsWell
  <2>2. Apart(Now)
    BY <1>1 DEF Well, Inv
  <2>3. Seat(Now, r, p)
    BY <2>1 DEF InRoom
  <2> QED BY <2>1, <2>2, <2>3 DEF Apart, Seat, Forming, Playing
<1> QED BY <1>1, AlwaysWell, PTL

\* Any number of searchers have a category in common (sharedCategories, acceptsSearcher).
THEOREM SearchersAlwaysShare == Spec => []SearchersShare
<1>1. ASSUME Well PROVE SearchersShare
  <2> SUFFICES ASSUME NEW r \in Rooms, Forming(r) PROVE SharedCategories(Now, r) # {}
    BY DEF SearchersShare
  <2> QED BY <1>1, RoomIsWell DEF InRoom, Forming
<1> QED BY <1>1, AlwaysWell, PTL

\* Whatever the player counts and the waits are, a forming match has the clocks its number of
\* searchers calls for, and no other room has one (Timers.Update, lobbyChanged).
THEOREM TimersAlwaysFollow == Spec => []TimersFollowSearchers
<1>1. ASSUME Well PROVE TimersFollowSearchers
  <2> SUFFICES ASSUME NEW r \in Rooms
               PROVE  /\ Forming(r) => OnTime(room[r])
                      /\ ~Forming(r) => room[r].wait = Never /\ room[r].countdown = Never
    BY DEF TimersFollowSearchers, OnTime
  <2>1. InRoom(Now, r) /\ Now.room = room
    BY <1>1, RoomIsWell
  <2>2. Forming(r) => OnTime(room[r])
    BY <2>1 DEF InRoom, Forming
  <2>3. CASE room[r].phase = "playing"
    BY <2>1, <2>2, <2>3 DEF InRoom
  <2>4. CASE room[r].phase = "lobby" /\ room[r].members = {}
    <3>1. Cardinality(room[r].members) = 0 /\ ~(0 >= MinPlayers)
      BY <2>4, FS_EmptySet, PlayersAssumption
    <3> QED BY <2>1, <2>2, <2>4, <3>1 DEF InRoom, OnTime
  <2> QED BY <2>1, <2>2, <2>3, <2>4 DEF InRoom, Forming
<1> QED BY <1>1, AlwaysWell, PTL

LEMMA StepIsWell ==
    ASSUME Well, Next
    PROVE  Step(Now, Then) /\ Now.room = room /\ Now.player = player /\ Then.room = room' /\ Then.player = player'
BY NextStep DEF Well, Now, Then

\* Whoever is shown a running match sees it out: it stops being the current one only when its
\* room, empty in between, forms and begins another (tickSearch, beginGame).
THEOREM MatchAlwaysSeenOut == Spec => MatchIsSeenOut
<1>1. ASSUME Well, Next
      PROVE  \A p \in Players : player[p].current /\ player'[p].shows = player[p].shows /\ ~player'[p].current
                => Forming(player[p].shows)
  BY <1>1, StepIsWell DEF Step, Forming
<1>2. ASSUME Well, [Next]_vars
      PROVE  [\A p \in Players : player[p].current /\ player'[p].shows = player[p].shows /\ ~player'[p].current
                => Forming(player[p].shows)]_vars
  BY <1>1, <1>2
<1> QED BY <1>2, AlwaysWell, PTL DEF Spec, MatchIsSeenOut

\* No handler postpones the start of a forming match that keeps enough searchers, for any waits
\* and any order of joining, leaving, dropping and playing again (Timers.Update).
THEOREM StartNeverPostponed == Spec => StartIsNotPostponed
<1>1. ASSUME Well, Next, NEW r \in Rooms,
             Forming(r), Forming(r)', StartIn(room[r]) # Never, StartIn(room'[r]) # Never
      PROVE  StartIn(room'[r]) <= StartIn(room[r])
  <2>1. Step(Now, Then) /\ Now.room = room /\ Then.room = room'
    BY <1>1, StepIsWell
  <2>2. Inv(Now) /\ Inv(Then)
    BY <1>1, <2>1 DEF Well, Step
  <2>3. room[r] \in RoomRecords /\ OnTime(room[r])
    BY <1>1, <2>1, <2>2 DEF Inv, States, InRoom, Forming
  <2>4. room'[r] \in RoomRecords /\ OnTime(room'[r])
    BY <1>1, <2>1, <2>2 DEF Inv, States, InRoom, Forming
  <2>5. NoLater(room[r], room'[r])
    BY <1>1, <2>1 DEF Step, Forming
  <2> QED BY <1>1, <2>3, <2>4, <2>5, NoLaterStarts
<1>2. ASSUME Well, [Next]_vars
      PROVE  [\A r \in Rooms :
                Forming(r) /\ Forming(r)' /\ StartIn(room[r]) # Never /\ StartIn(room'[r]) # Never
                    => StartIn(room'[r]) <= StartIn(room[r])]_vars
  BY <1>1, <1>2
<1> QED BY <1>2, AlwaysWell, PTL DEF Spec, StartIsNotPostponed

\* Where no command outlives its socket and the next one, a match begins with players who are
\* all online, enough of them and not too many ("Nobody is dealt into a match while offline",
\* tickSearch).
THEOREM NobodyEverDealtOffline == Overtaken = {} => (Spec => NobodyDealtOffline)
<1> SUFFICES ASSUME Overtaken = {} PROVE Spec => NobodyDealtOffline
  OBVIOUS
<1>1. ASSUME Well, Next, NEW r \in Rooms, ~Playing(r), Playing(r)'
      PROVE  /\ \A p \in room[r].members' : player[p].conn
             /\ Cardinality(room[r].members') \in MinPlayers .. MaxPlayers
  BY <1>1, StepIsWell DEF Step, Playing
<1>2. ASSUME Well, [Next]_vars
      PROVE  [\A r \in Rooms : ~Playing(r) /\ Playing(r)' =>
                /\ \A p \in room[r].members' : player[p].conn
                /\ Cardinality(room[r].members') \in MinPlayers .. MaxPlayers]_vars
  BY <1>1, <1>2
<1> QED BY <1>2, AlwaysWell, PTL DEF Spec, NobodyDealtOffline
=============================================================================

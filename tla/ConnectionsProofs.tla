-------------------------- MODULE ConnectionsProofs --------------------------
(***************************************************************************)
(* Sessions, sockets and rooms agree, whatever the number of each.         *)
(*                                                                         *)
(* The invariant is inductive as it stands once it is all taken together:  *)
(* that a seat is known to its session makes CurrentRoom the one room a    *)
(* player is in, so that a step on it touches all there is to touch; that  *)
(* a socket is owned makes the end of the session's own socket, and of no  *)
(* other, a disconnect.                                                    *)
(***************************************************************************)
EXTENDS Connections, TLAPS

\* A socket in use was opened for somebody.
OwnedUnlessUnused == \A c \in Sockets : socket[c].state # "unused" => socket[c].owner \in Players

\* TypeOK in two parts, so that the provers see one at a time.
Shaped ==
    /\ session \in [Players -> SessionRecords]
    /\ socket \in [Sockets -> SocketRecords]
    /\ rooms \in [Rooms -> RoomRecords]

RoomsFit ==
    \A r \in Rooms :
          /\ rooms[r].online \subseteq rooms[r].members
          /\ rooms[r].playing => rooms[r].members # {}
          /\ rooms[r].members # {} => rooms[r].state = "open"

\* All that is checked of sessions, sockets and rooms; inductive as it stands.
Inv ==
    /\ TypeOK
    /\ OwnedUnlessUnused
    /\ SeatsAreKnown
    /\ OnlineMeansSocket
    /\ SocketsAreOwned
    /\ OneActivity

USE NoneAssumption, BoundsAssumption

\* The invariant without its seats: the shape of the three records, and rooms that fit.
LEMMA InvShape ==
    ASSUME Inv
    PROVE  Shaped /\ RoomsFit /\ \A r \in Rooms : rooms[r].members \subseteq Players
BY DEF Inv, TypeOK, Shaped, RoomsFit, RoomRecords

\* A seat held well, and a session that shows no match of a room it is not in.
Good(r, x) ==
    /\ Live(x) /\ session[x].room = r
    /\ x \in rooms[r].online <=> session[x].conn # None
    /\ rooms[r].playing => session[x].match \in {NoMatch, Current(r)}
Told(x) == session[x].match # NoMatch => session[x].room \in {None, session[x].match.room}

\* Every seat is held well and every session is told of the room it is in.
LEMMA InvSeats ==
    ASSUME Inv
    PROVE  /\ \A r \in Rooms : \A x \in Players : x \in rooms[r].members => Good(r, x)
           /\ \A x \in Players : Told(x)
BY DEF Inv, SeatsAreKnown, OnlineMeansSocket, OneActivity, Good, Told

\* What is left of the invariant, seat by seat.
LEMMA SeatsMakeInv ==
    ASSUME Shaped', RoomsFit', OwnedUnlessUnused', SocketsAreOwned',
           \A r \in Rooms : \A x \in Players : x \in rooms'[r].members => Good(r, x)',
           \A x \in Players : Told(x)'
    PROVE  Inv'
<1>1. TypeOK'
  BY DEF TypeOK, Shaped, RoomsFit
<1>2. \A r \in Rooms : rooms'[r].members \subseteq Players
  BY DEF Shaped, RoomRecords
<1>3. SeatsAreKnown' /\ OnlineMeansSocket'
  BY <1>2 DEF SeatsAreKnown, OnlineMeansSocket, Good, Live
<1>4. OneActivity'
  BY DEF OneActivity, Good, Told, Current
<1> QED BY <1>1, <1>3, <1>4 DEF Inv

-----------------------------------------------------------------------------
\* A player is in at most one room, the current one (currentRoom).
LEMMA CurrentRoomIsTheOne ==
    ASSUME TypeOK, SeatsAreKnown, NEW p \in Players
    PROVE  /\ CurrentRoom(p) \in Rooms \cup {None}
           /\ CurrentRoom(p) \in {None, session[p].room}
           /\ CurrentRoom(p) # None => p \in rooms[CurrentRoom(p)].members /\ rooms[CurrentRoom(p)].state = "open"
           /\ \A r \in Rooms : p \in rooms[r].members => CurrentRoom(p) = r /\ Live(p)
<1>1. session[p].room \in Rooms \cup {None}
  BY DEF TypeOK, SessionRecords
<1>2. \A r \in Rooms : p \in rooms[r].members => session[p].room = r /\ Live(p) /\ rooms[r].state = "open"
  BY DEF TypeOK, SeatsAreKnown
<1> QED BY <1>1, <1>2 DEF CurrentRoom

\* `all' is the rooms without p in r.
OneOut(all, r, p) ==
    /\ all \in [Rooms -> RoomRecords]
    /\ \A q \in Rooms :
          /\ all[q].state = rooms[q].state
          /\ all[q].matches = rooms[q].matches
          /\ q # r => all[q].members = rooms[q].members /\ all[q].online = rooms[q].online
          /\ q = r => all[q].members = rooms[q].members \ {p} /\ all[q].online = rooms[q].online \ {p}
          /\ all[q].playing => rooms[q].playing /\ all[q].members # {}

\* What giving a seat up does to the rooms (leave).
LEMMA LeftTakesOneOut ==
    ASSUME TypeOK, NEW r \in Rooms \cup {None}, NEW p \in Players, NEW more \in BOOLEAN
    PROVE  OneOut(Left(rooms, r, p, more), r, p)
<1> DEFINE all == Left(rooms, r, p, more)
<1>1. rooms \in [Rooms -> RoomRecords] /\ \A q \in Rooms : rooms[q].playing => rooms[q].members # {}
  BY DEF TypeOK
<1>2. CASE r = None
  BY <1>1, <1>2 DEF Left, OneOut
<1>3. CASE r \in Rooms
  <2>1. all = [rooms EXCEPT ![r] = WithoutMember(rooms[r], p, more)]
    BY <1>3 DEF Left
  <2>2. /\ WithoutMember(rooms[r], p, more) \in RoomRecords
        /\ WithoutMember(rooms[r], p, more).state = rooms[r].state
        /\ WithoutMember(rooms[r], p, more).matches = rooms[r].matches
        /\ WithoutMember(rooms[r], p, more).members = rooms[r].members \ {p}
        /\ WithoutMember(rooms[r], p, more).online = rooms[r].online \ {p}
        /\ WithoutMember(rooms[r], p, more).playing => rooms[r].playing /\ rooms[r].members # {p}
    BY <1>1, <1>3, ZenonT(60) DEF WithoutMember, RoomRecords
  <2>3. all \in [Rooms -> RoomRecords]
    BY <1>1, <1>3, <2>1, <2>2
  <2>4. all[r] = WithoutMember(rooms[r], p, more) /\ \A q \in Rooms \ {r} : all[q] = rooms[q]
    BY <1>1, <1>3, <2>1
  <2>5. all[r].playing => rooms[r].playing /\ all[r].members # {}
    BY <1>1, <1>3, <2>2, <2>4
  <2> HIDE DEF all
  <2>6. OneOut(all, r, p)
    BY <1>1, <2>2, <2>3, <2>4, <2>5 DEF OneOut
  <2> QED BY <2>6 DEF all
<1> QED BY <1>2, <1>3

\* What taking a seat does to a room.
LEMMA WithMemberTakesOneIn ==
    ASSUME TypeOK, NEW r \in Rooms, NEW p \in Players, NEW room,
           room \in RoomRecords
    PROVE  LET w == WithMember(room, p)
           IN  /\ w \in RoomRecords
               /\ w.state = room.state /\ w.matches = room.matches /\ w.playing = room.playing
               /\ w.members = room.members \cup {p}
               /\ session[p].conn = None => w.online = room.online \ {p}
               /\ session[p].conn # None => w.online = room.online \cup {p}
BY DEF WithMember, RoomRecords

\* The server starts with no session, no socket and no room.
LEMMA InitInv == Init => Inv
BY DEF Init, Inv, TypeOK, OwnedUnlessUnused, SeatsAreKnown, OnlineMeansSocket, SocketsAreOwned, OneActivity, Nowhere, NoMatch, Matches, SessionRecords, SocketRecords, RoomRecords

-----------------------------------------------------------------------------
(* Each step keeps the invariant *)

\* A new session has no socket and no seat (createSession).
LEMMA CreateSessionKeepsInv ==
    ASSUME Inv, NEW p \in Players, CreateSession(p)
    PROVE  Inv'
<1>1. session' = [session EXCEPT ![p] = Nowhere] /\ UNCHANGED <<socket, rooms>> /\ session[p].life = "new"
  BY DEF CreateSession
<1>2. Nowhere \in SessionRecords /\ Nowhere.conn = None /\ Nowhere.match = NoMatch /\ Nowhere.life = "live"
  BY DEF Nowhere, SessionRecords, Matches
<1>3. \A r \in Rooms : p \notin rooms[r].members
  BY <1>1 DEF Inv, SeatsAreKnown, Live
<1>4. session[p].conn = None
  BY <1>1 DEF Inv, SocketsAreOwned, Live
<1>5. TypeOK'
  BY <1>1, <1>2 DEF Inv, TypeOK
<1>6. OwnedUnlessUnused' /\ SeatsAreKnown' /\ OnlineMeansSocket'
  BY <1>1, <1>2, <1>3 DEF Inv, TypeOK, OwnedUnlessUnused, SeatsAreKnown, OnlineMeansSocket, Live
<1>7. SocketsAreOwned'
  BY <1>1, <1>2, <1>4 DEF Inv, TypeOK, SocketsAreOwned, OwnedUnlessUnused, Live
<1>8. OneActivity'
  BY <1>1, <1>2, <1>3 DEF Inv, TypeOK, OneActivity, Current
<1> QED BY <1>5, <1>6, <1>7, <1>8 DEF Inv

\* A socket that is being accepted is nobody's yet (serveWS).
LEMMA UpgradeKeepsInv ==
    ASSUME Inv, NEW c \in Sockets, NEW p \in Players, Upgrade(c, p)
    PROVE  Inv'
<1>1. /\ socket' = [socket EXCEPT ![c] = [state |-> "upgrading", owner |-> p]]
      /\ socket[c].state = "unused" /\ UNCHANGED <<session, rooms>>
  BY DEF Upgrade
<1>2. TypeOK' /\ OwnedUnlessUnused'
  BY <1>1 DEF Inv, TypeOK, OwnedUnlessUnused, SocketRecords
<1>3. SocketsAreOwned'
  BY <1>1 DEF Inv, TypeOK, SessionRecords, SocketsAreOwned, Live
<1>4. SeatsAreKnown' /\ OnlineMeansSocket' /\ OneActivity'
  BY <1>1 DEF Inv, SeatsAreKnown, OnlineMeansSocket, OneActivity, Current, Live
<1> QED BY <1>2, <1>3, <1>4 DEF Inv

\* A socket that only begins to close is still the session's (a cancelled context).
LEMMA ClosingKeepsInv ==
    ASSUME Inv, NEW c \in Sockets, socket[c].state \in {"upgrading", "open"},
           socket' = [socket EXCEPT ![c].state = "closing"], UNCHANGED <<session, rooms>>
    PROVE  Inv'
<1>1. socket \in [Sockets -> SocketRecords]
  BY DEF Inv, TypeOK
<1>2. /\ socket' \in [Sockets -> SocketRecords]
      /\ \A d \in Sockets : /\ socket'[d].owner = socket[d].owner
                            /\ socket'[d].state = IF d = c THEN "closing" ELSE socket[d].state
  BY <1>1 DEF SocketRecords
<1>3. TypeOK' /\ OwnedUnlessUnused'
  BY <1>2 DEF Inv, TypeOK, OwnedUnlessUnused
<1>4. SocketsAreOwned'
  BY <1>2 DEF Inv, TypeOK, SessionRecords, SocketsAreOwned, Live
<1>5. SeatsAreKnown' /\ OnlineMeansSocket' /\ OneActivity'
  BY DEF Inv, SeatsAreKnown, OnlineMeansSocket, OneActivity, Current, Live
<1> QED BY <1>3, <1>4, <1>5 DEF Inv

\* The session takes the new socket, the old one closes, and the player is online where they sit (attach).
LEMMA SeatKeepsInv ==
    ASSUME Inv, NEW c \in Sockets, NEW p \in Players, Live(p), socket[c].state = "upgrading",
           socket[c].owner = p, Seat(c, p)
    PROVE  Inv'
<1> PICK r \in Rooms \cup {None} : r = CurrentRoom(p)
  BY CurrentRoomIsTheOne DEF Inv
<1>1. /\ r \in Rooms \cup {None} /\ r \in {None, session[p].room}
      /\ \A q \in Rooms : p \in rooms[q].members => q = r
      /\ r \in Rooms => p \in rooms[r].members
  BY CurrentRoomIsTheOne DEF Inv
<1>2. /\ session' = [session EXCEPT ![p].conn = c, ![p].room = r]
      /\ rooms' = IF r = None THEN rooms ELSE [rooms EXCEPT ![r].online = @ \cup {p}]
      /\ socket' = [d \in Sockets |->
              IF d = c THEN [socket[d] EXCEPT !.state = "open"]
              ELSE IF d = session[p].conn THEN [socket[d] EXCEPT !.state = "closing"]
              ELSE socket[d]]
  BY DEF Seat
<1>0. Shaped /\ RoomsFit /\ \A q \in Rooms : rooms[q].members \subseteq Players
  BY InvShape
<1>3. /\ session' \in [Players -> SessionRecords]
      /\ session'[p].conn = c /\ session'[p].room = r /\ session'[p].life = session[p].life /\ session'[p].match = session[p].match
      /\ \A q \in Players \ {p} : session'[q] = session[q]
  <2> DEFINE s == [session[p] EXCEPT !.conn = c, !.room = r]
  <2>1. session[p] \in SessionRecords
    BY <1>0 DEF Shaped
  <2>2. s \in SessionRecords /\ s.conn = c /\ s.room = r /\ s.life = session[p].life /\ s.match = session[p].match
    BY <2>1 DEF SessionRecords
  <2>3. session' = [session EXCEPT ![p] = s]
    BY <1>2
  <2> HIDE DEF s
  <2> QED BY <1>0, <2>2, <2>3 DEF Shaped
<1>4. /\ rooms' \in [Rooms -> RoomRecords]
      /\ \A q \in Rooms : /\ rooms'[q].members = rooms[q].members
                          /\ q # r => rooms'[q].online = rooms[q].online
                          /\ q = r => rooms'[q].online = rooms[q].online \cup {p}
                          /\ rooms'[q].playing = rooms[q].playing
                          /\ rooms'[q].matches = rooms[q].matches
                          /\ rooms'[q].state = rooms[q].state
  <2>1. CASE r = None
    BY <1>0, <1>2, <2>1 DEF Shaped
  <2>2. CASE r \in Rooms
    <3>1. rooms' = [rooms EXCEPT ![r] = [rooms[r] EXCEPT !.online = @ \cup {p}]] /\ rooms[r] \in RoomRecords
      BY <1>0, <1>2, <2>2 DEF Shaped
    <3> QED BY <1>0, <2>2, <3>1 DEF RoomRecords, Shaped
  <2> QED BY <2>1, <2>2
<1>5. /\ socket' \in [Sockets -> SocketRecords]
      /\ \A d \in Sockets :
            /\ socket'[d].owner = socket[d].owner
            /\ socket'[d].state = IF d = c THEN "open" ELSE IF d = session[p].conn THEN "closing" ELSE socket[d].state
  BY <1>0, <1>2 DEF SocketRecords, Shaped
<1>6. RoomsFit'
  <2>1. ASSUME NEW q \in Rooms PROVE rooms'[q].online \subseteq rooms'[q].members
    <3>1. rooms[q].online \subseteq rooms[q].members
      BY <1>0 DEF RoomsFit
    <3>2. CASE q = r
      BY <1>1, <1>4, <3>1, <3>2
    <3>3. CASE q # r
      BY <1>4, <3>1, <3>3
    <3> QED BY <3>2, <3>3
  <2> QED BY <1>0, <1>4, <2>1 DEF RoomsFit
<1>7. OwnedUnlessUnused'
  BY <1>5 DEF Inv, OwnedUnlessUnused, SocketsAreOwned
<1>8. SocketsAreOwned'
  <2>1. ASSUME NEW d \in Sockets, socket'[d].state = "open" PROVE session'[socket'[d].owner].conn = d
    <3>1. CASE d = c
      BY <1>3, <1>5, <3>1
    <3>2. CASE d # c
      <4>1. d # session[p].conn /\ socket[d].state = "open" /\ socket'[d].owner = socket[d].owner
        BY <1>5, <2>1, <3>2
      <4>2. socket[d].owner \in Players /\ session[socket[d].owner].conn = d
        BY <4>1 DEF Inv, OwnedUnlessUnused, SocketsAreOwned
      <4>3. socket[d].owner # p
        BY <4>1, <4>2
      <4> QED BY <1>3, <4>1, <4>2, <4>3
    <3> QED BY <3>1, <3>2
  <2>2. ASSUME NEW q \in Players, session'[q].conn # None
        PROVE  /\ Live(q)' /\ socket'[session'[q].conn].owner = q
               /\ socket'[session'[q].conn].state \in {"open", "closing"}
    <3>1. CASE q = p
      BY <1>3, <1>5, <3>1 DEF Live
    <3>2. CASE q # p
      <4>1. session'[q] = session[q]
        BY <1>3, <3>2
      <4>2. /\ Live(q) /\ socket[session[q].conn].owner = q
            /\ socket[session[q].conn].state \in {"open", "closing"}
        BY <2>2, <4>1 DEF Inv, SocketsAreOwned
      <4>3. session[q].conn \in Sockets
        BY <1>0, <2>2, <4>1 DEF Shaped, SessionRecords
      <4>4. session[q].conn # c
        BY <4>2
      <4> QED BY <1>5, <4>1, <4>2, <4>3, <4>4 DEF Live
    <3> QED BY <3>1, <3>2
  <2> QED BY <2>1, <2>2 DEF SocketsAreOwned
<1>9. ASSUME NEW q \in Rooms, NEW x \in Players, x \in rooms'[q].members PROVE Good(q, x)'
  <2>1. Good(q, x) /\ (x = p => q = r)
    BY <1>1, <1>4, <1>9, InvSeats
  <2>2. CASE x = p
    BY <1>3, <1>4, <2>1, <2>2 DEF Good, Live, Current
  <2>3. CASE x # p
    BY <1>3, <1>4, <2>1, <2>3 DEF Good, Live, Current
  <2> QED BY <2>2, <2>3
<1>10. \A x \in Players : Told(x)'
  BY <1>1, <1>3, InvSeats DEF Told
<1> QED BY <1>3, <1>4, <1>5, <1>6, <1>7, <1>8, <1>9, <1>10, SeatsMakeInv DEF Shaped

\* The end of the session's own socket, with the player offline in their room.
LEMMA UnseatKeepsInv ==
    ASSUME Inv, NEW c \in Sockets, NEW p \in Players, Ends(c), socket[c].owner = p, session[p].conn = c, Unseat(c, p)
    PROVE  Inv'
<1> PICK r \in Rooms \cup {None} : r = CurrentRoom(p)
  BY CurrentRoomIsTheOne DEF Inv
<1>1. /\ r \in {None, session[p].room}
      /\ \A q \in Rooms : p \in rooms[q].members => q = r
      /\ r \in Rooms => p \in rooms[r].members
  BY CurrentRoomIsTheOne DEF Inv
<1>2. /\ session' = [session EXCEPT ![p].conn = None, ![p].room = r]
      /\ rooms' = IF r = None THEN rooms ELSE [rooms EXCEPT ![r].online = @ \ {p}]
      /\ socket' = [socket EXCEPT ![c] = [state |-> "unused", owner |-> None]]
  BY DEF Unseat, Ends
<1>3. Shaped /\ RoomsFit /\ \A q \in Rooms : rooms[q].members \subseteq Players
  BY InvShape
<1>4. /\ session' \in [Players -> SessionRecords]
      /\ session'[p].conn = None /\ session'[p].room = r /\ session'[p].life = session[p].life /\ session'[p].match = session[p].match
      /\ \A q \in Players \ {p} : session'[q] = session[q]
  <2> DEFINE s == [session[p] EXCEPT !.conn = None, !.room = r]
  <2>1. session[p] \in SessionRecords
    BY <1>3 DEF Shaped
  <2>2. s \in SessionRecords /\ s.conn = None /\ s.room = r /\ s.life = session[p].life /\ s.match = session[p].match
    BY <2>1 DEF SessionRecords
  <2>3. session' = [session EXCEPT ![p] = s]
    BY <1>2
  <2> HIDE DEF s
  <2> QED BY <1>3, <2>2, <2>3 DEF Shaped
<1>5. /\ rooms' \in [Rooms -> RoomRecords]
      /\ \A q \in Rooms : /\ rooms'[q].members = rooms[q].members
                          /\ q # r => rooms'[q].online = rooms[q].online
                          /\ q = r => rooms'[q].online = rooms[q].online \ {p}
                          /\ rooms'[q].playing = rooms[q].playing
                          /\ rooms'[q].matches = rooms[q].matches
                          /\ rooms'[q].state = rooms[q].state
  <2>1. CASE r = None
    BY <1>2, <1>3, <2>1 DEF Shaped
  <2>2. CASE r \in Rooms
    <3>1. rooms' = [rooms EXCEPT ![r] = [rooms[r] EXCEPT !.online = @ \ {p}]] /\ rooms[r] \in RoomRecords
      BY <1>2, <1>3, <2>2 DEF Shaped
    <3> QED BY <1>3, <2>2, <3>1 DEF RoomRecords, Shaped
  <2> QED BY <2>1, <2>2
<1>6. socket' \in [Sockets -> SocketRecords] /\ OwnedUnlessUnused'
  BY <1>2, <1>3 DEF Inv, OwnedUnlessUnused, SocketRecords, Shaped
<1>7. RoomsFit'
  BY <1>3, <1>5 DEF RoomsFit
<1>8. SocketsAreOwned'
  <2>1. ASSUME NEW d \in Sockets, socket'[d].state = "open" PROVE session'[socket'[d].owner].conn = d
    <3>1. d # c /\ socket'[d] = socket[d]
      BY <1>2, <1>3, <2>1 DEF Shaped
    <3>2. socket[d].owner \in Players /\ session[socket[d].owner].conn = d
      BY <2>1, <3>1 DEF Inv, OwnedUnlessUnused, SocketsAreOwned
    <3> QED BY <1>4, <3>1, <3>2
  <2>2. ASSUME NEW x \in Players, session'[x].conn # None
        PROVE  /\ Live(x)' /\ socket'[session'[x].conn].owner = x
               /\ socket'[session'[x].conn].state \in {"open", "closing"}
    <3>1. x # p /\ session'[x] = session[x]
      BY <1>4, <2>2
    <3>2. /\ Live(x) /\ socket[session[x].conn].owner = x
          /\ socket[session[x].conn].state \in {"open", "closing"}
      BY <2>2, <3>1 DEF Inv, SocketsAreOwned
    <3>3. session[x].conn \in Sockets \ {c}
      BY <1>3, <2>2, <3>1, <3>2 DEF Shaped, SessionRecords
    <3> QED BY <1>2, <1>3, <3>1, <3>2, <3>3 DEF Shaped, Live
  <2> QED BY <2>1, <2>2 DEF SocketsAreOwned
<1>9. ASSUME NEW q \in Rooms, NEW x \in Players, x \in rooms'[q].members PROVE Good(q, x)'
  <2>1. Good(q, x) /\ (x = p => q = r)
    BY <1>1, <1>5, <1>9, InvSeats
  <2>2. CASE x = p
    BY <1>4, <1>5, <2>1, <2>2 DEF Good, Live, Current
  <2>3. CASE x # p
    BY <1>4, <1>5, <2>1, <2>3 DEF Good, Live, Current
  <2> QED BY <2>2, <2>3
<1>10. \A x \in Players : Told(x)'
  BY <1>1, <1>4, InvSeats DEF Told
<1> QED BY <1>4, <1>5, <1>6, <1>7, <1>8, <1>9, <1>10, SeatsMakeInv DEF Shaped

\* Only one session changes, and keeps its socket.
LEMMA SocketsStayOwned ==
    ASSUME Inv, NEW p \in Players, NEW s \in SessionRecords, session' = [session EXCEPT ![p] = s], UNCHANGED socket,
           s.conn = session[p].conn, s.conn # None => s.life = session[p].life
    PROVE  SocketsAreOwned' /\ OwnedUnlessUnused'
<1>1. Shaped
  BY InvShape
<1> QED BY <1>1 DEF Inv, Shaped, SocketsAreOwned, OwnedUnlessUnused, Live

\* A player gives up the only seat they may have, in r, and is shown no match.
LEMMA LeavingKeepsInv ==
    ASSUME Inv, NEW p \in Players, NEW r \in Rooms \cup {None}, NEW s \in SessionRecords,
           OneOut(rooms', r, p), session' = [session EXCEPT ![p] = s], UNCHANGED socket,
           \A q \in Rooms : p \in rooms[q].members => q = r,
           s.conn = session[p].conn, s.conn # None => s.life = session[p].life, s.match = NoMatch
    PROVE  Inv'
<1>1. Shaped /\ RoomsFit /\ \A q \in Rooms : rooms[q].members \subseteq Players
  BY InvShape
<1>2. Shaped' /\ \A q \in Players \ {p} : session'[q] = session[q]
  BY <1>1 DEF Shaped, OneOut
<1>3. RoomsFit'
  <2> SUFFICES ASSUME NEW q \in Rooms
               PROVE  /\ rooms'[q].online \subseteq rooms'[q].members
                      /\ rooms'[q].playing => rooms'[q].members # {}
                      /\ rooms'[q].members # {} => rooms'[q].state = "open"
    BY DEF RoomsFit
  <2>1. /\ rooms[q].online \subseteq rooms[q].members
        /\ rooms[q].members # {} => rooms[q].state = "open"
    BY <1>1 DEF RoomsFit
  <2>2. CASE q = r
    BY <2>1, <2>2 DEF OneOut
  <2>3. CASE q # r
    BY <2>1, <2>3 DEF OneOut
  <2> QED BY <2>2, <2>3
<1>4. ASSUME NEW q \in Rooms, NEW x \in Players, x \in rooms'[q].members PROVE Good(q, x)'
  <2>1. x \in rooms[q].members /\ x # p
    BY <1>4 DEF OneOut
  <2>2. Good(q, x) /\ session'[x] = session[x]
    BY <1>2, <2>1, InvSeats
  <2>3. (x \in rooms'[q].online <=> x \in rooms[q].online) /\ rooms'[q].matches = rooms[q].matches
        /\ (rooms'[q].playing => rooms[q].playing)
    BY <2>1 DEF OneOut
  <2> QED BY <2>2, <2>3 DEF Good, Live, Current
<1>5. \A x \in Players : Told(x)'
  BY <1>1, <1>2, InvSeats DEF Told, Shaped
<1> QED BY <1>2, <1>3, <1>4, <1>5, SocketsStayOwned, SeatsMakeInv

\* A session stops showing its match; its seat stays.
LEMMA ShowingNothingKeepsInv ==
    ASSUME Inv, NEW p \in Players, NEW s \in SessionRecords, session' = [session EXCEPT ![p] = s],
           UNCHANGED <<socket, rooms>>, s.conn = session[p].conn, s.life = session[p].life, s.match = NoMatch,
           s.room \in {session[p].room, CurrentRoom(p)}
    PROVE  Inv'
<1>1. Shaped /\ RoomsFit /\ \A q \in Rooms : rooms[q].members \subseteq Players
  BY InvShape
<1>2. Shaped' /\ RoomsFit' /\ session'[p] = s /\ \A q \in Players \ {p} : session'[q] = session[q]
  BY <1>1 DEF Shaped, RoomsFit
<1>3. ASSUME NEW q \in Rooms, NEW x \in Players, x \in rooms'[q].members PROVE Good(q, x)'
  <2>1. Good(q, x) /\ (x = p => CurrentRoom(p) = q)
    BY <1>3, InvSeats, CurrentRoomIsTheOne DEF Inv
  <2>2. CASE x = p
    BY <1>2, <2>1, <2>2 DEF Good, Live, Current
  <2>3. CASE x # p
    BY <1>2, <2>1, <2>3 DEF Good, Live, Current
  <2> QED BY <2>2, <2>3
<1>4. \A x \in Players : Told(x)'
  BY <1>2, InvSeats DEF Told
<1> QED BY <1>2, <1>3, <1>4, SocketsStayOwned, SeatsMakeInv

\* `all' is the rooms with p in r, and nowhere else.
OneIn(all, r, p) ==
    /\ all \in [Rooms -> RoomRecords]
    /\ \A q \in Rooms :
          /\ q # r => all[q].members = rooms[q].members \ {p} /\ all[q].online = rooms[q].online \ {p}
          /\ q # r => all[q].state = rooms[q].state
          /\ q = r => all[q].members = rooms[q].members \cup {p} /\ all[q].state = "open"
          /\ q = r /\ session[p].conn = None => all[q].online = rooms[q].online \ {p}
          /\ q = r /\ session[p].conn # None => all[q].online = rooms[q].online \cup {p}
          /\ all[q].playing => rooms[q].playing /\ all[q].members # {}
          /\ all[q].matches = rooms[q].matches

\* A player takes a seat in r, gives any other up, and is shown no match.
LEMMA EnteringKeepsInv ==
    ASSUME Inv, NEW p \in Players, Live(p), NEW r \in Rooms, OneIn(rooms', r, p),
           session' = [session EXCEPT ![p] = Enter(@, r)], UNCHANGED socket
    PROVE  Inv'
<1> DEFINE s == Enter(session[p], r)
<1>1. Shaped /\ RoomsFit /\ \A q \in Rooms : rooms[q].members \subseteq Players
  BY InvShape
<1>2. s \in SessionRecords /\ s.room = r /\ s.match = NoMatch /\ s.conn = session[p].conn /\ s.life = session[p].life
  <2>1. session[p] \in SessionRecords
    BY <1>1 DEF Shaped
  <2>2. NoMatch \in Matches
    BY DEF Matches
  <2> QED BY <2>1, <2>2 DEF SessionRecords, Enter
<1>3. session' = [session EXCEPT ![p] = s]
  OBVIOUS
<1> HIDE DEF s
<1>4. Shaped' /\ session'[p] = s /\ \A q \in Players \ {p} : session'[q] = session[q]
  BY <1>1, <1>2, <1>3 DEF Shaped, OneIn
<1>5. RoomsFit'
  <2> SUFFICES ASSUME NEW q \in Rooms
               PROVE  /\ rooms'[q].online \subseteq rooms'[q].members
                      /\ rooms'[q].playing => rooms'[q].members # {}
                      /\ rooms'[q].members # {} => rooms'[q].state = "open"
    BY DEF RoomsFit
  <2>1. /\ rooms[q].online \subseteq rooms[q].members
        /\ rooms[q].members # {} => rooms[q].state = "open"
    BY <1>1 DEF RoomsFit
  <2>2. CASE q = r
    BY <2>1, <2>2 DEF OneIn
  <2>3. CASE q # r
    BY <2>1, <2>3 DEF OneIn
  <2> QED BY <2>2, <2>3
<1>6. ASSUME NEW q \in Rooms, NEW x \in Players, x \in rooms'[q].members PROVE Good(q, x)'
  <2>1. CASE x = p
    <3>1. q = r
      BY <1>6, <2>1 DEF OneIn
    <3>2. p \in rooms'[r].online <=> session[p].conn # None
      BY DEF OneIn
    <3> QED BY <1>2, <1>4, <2>1, <3>1, <3>2 DEF Good, Live
  <2>2. CASE x # p
    <3>1. x \in rooms[q].members /\ session'[x] = session[x]
      BY <1>4, <1>6, <2>2 DEF OneIn
    <3>2. Good(q, x)
      BY <3>1, InvSeats
    <3>3. (x \in rooms'[q].online <=> x \in rooms[q].online) /\ rooms'[q].matches = rooms[q].matches
          /\ (rooms'[q].playing => rooms[q].playing)
      BY <2>2 DEF OneIn
    <3> QED BY <3>1, <3>2, <3>3 DEF Good, Live, Current
  <2> QED BY <2>1, <2>2
<1>7. \A x \in Players : Told(x)'
  BY <1>2, <1>4, InvSeats DEF Told
<1> QED BY <1>2, <1>3, <1>4, <1>5, <1>6, <1>7, SocketsStayOwned, SeatsMakeInv

\* What the handlers need of the rooms and the player they are about.
LEMMA Seated ==
    ASSUME Inv, NEW p \in Players
    PROVE  /\ TypeOK /\ SeatsAreKnown /\ Shaped /\ session[p] \in SessionRecords
           /\ CurrentRoom(p) \in Rooms \cup {None}
           /\ CurrentRoom(p) # None => CurrentRoom(p) = session[p].room
           /\ \A q \in Rooms : p \in rooms[q].members => q = CurrentRoom(p) /\ Live(p)
           /\ NoMatch \in Matches
BY InvShape, CurrentRoomIsTheOne DEF Inv, Shaped, Matches

\* Room q of `all' is room q as it was, without p.
Without(all, q, p) ==
    /\ all[q].members = rooms[q].members \ {p} /\ all[q].online = rooms[q].online \ {p}
    /\ all[q].state = rooms[q].state /\ all[q].matches = rooms[q].matches
    /\ all[q].playing => rooms[q].playing /\ all[q].members # {}

\* Once a player has left the room they were in, they are in none.
LEMMA OthersStay ==
    ASSUME Inv, NEW p \in Players, NEW r \in Rooms \cup {None}, NEW all, OneOut(all, r, p),
           NEW q \in Rooms, p \in rooms[q].members => q = r
    PROVE  Without(all, q, p)
<1>1. rooms[q].online \subseteq rooms[q].members
  BY InvShape DEF RoomsFit
<1>2. CASE q = r
  BY <1>2 DEF OneOut, Without
<1>3. CASE q # r
  BY <1>1, <1>3 DEF OneOut, Without
<1> QED BY <1>2, <1>3

\* A socket is attached, or refused when the reaper took its session during the upgrade (serveWS).
LEMMA AttachKeepsInv ==
    ASSUME Inv, NEW c \in Sockets, Attach(c)
    PROVE  Inv'
<1>1. socket[c].owner \in Players /\ socket[c].state = "upgrading"
  BY DEF Inv, OwnedUnlessUnused, Attach
<1>2. CASE Live(socket[c].owner)
  BY <1>1, <1>2, SeatKeepsInv DEF Attach
<1>3. CASE ~Live(socket[c].owner)
  BY <1>1, <1>3, ClosingKeepsInv DEF Attach
<1> QED BY <1>2, <1>3

\* A socket ends: a disconnect if it is the session's own, nothing if it was replaced (detach).
LEMMA DetachKeepsInv ==
    ASSUME Inv, NEW c \in Sockets, Detach(c)
    PROVE  Inv'
<1>1. socket[c].owner \in Players /\ Ends(c)
  BY DEF Inv, OwnedUnlessUnused, Detach, Ends
<1>2. CASE session[socket[c].owner].conn = c
  BY <1>1, <1>2, UnseatKeepsInv DEF Detach
<1>3. CASE session[socket[c].owner].conn # c
  <2>1. UNCHANGED <<session, rooms>> /\ socket' = [socket EXCEPT ![c] = [state |-> "unused", owner |-> None]]
    BY <1>3 DEF Detach, Ends
  <2>2. Shaped /\ RoomsFit
    BY InvShape
  <2>3. Shaped' /\ RoomsFit' /\ OwnedUnlessUnused'
    BY <2>1, <2>2 DEF Inv, Shaped, RoomsFit, SocketRecords, OwnedUnlessUnused
  <2>4. SocketsAreOwned'
    BY <1>3, <2>1, <2>2 DEF Inv, Shaped, SessionRecords, SocketsAreOwned, Live
  <2>5. \A r \in Rooms : \A x \in Players : x \in rooms'[r].members => Good(r, x)'
    BY <2>1, InvSeats DEF Good, Live, Current
  <2>6. \A x \in Players : Told(x)'
    BY <2>1, InvSeats DEF Told
  <2> QED BY <2>3, <2>4, <2>5, <2>6, SeatsMakeInv
<1> QED BY <1>2, <1>3

\* A member leaves their room (roomCommand).
LEMMA LeaveRoomKeepsInv ==
    ASSUME Inv, NEW p \in Players, LeaveRoom(p)
    PROVE  Inv'
<1> DEFINE s == [session[p] EXCEPT !.room = None, !.match = NoMatch]
<1>1. PICK more \in BOOLEAN : rooms' = Left(rooms, CurrentRoom(p), p, more)
  BY DEF LeaveRoom
<1>2. OneOut(rooms', CurrentRoom(p), p)
  BY <1>1, Seated, LeftTakesOneOut
<1>3. s \in SessionRecords /\ s.conn = session[p].conn /\ s.life = session[p].life /\ s.match = NoMatch
  BY Seated DEF SessionRecords
<1>4. session' = [session EXCEPT ![p] = s] /\ UNCHANGED socket
  BY DEF LeaveRoom
<1> HIDE DEF s
<1> QED BY <1>2, <1>3, <1>4, Seated, LeavingKeepsInv

\* The reaper takes a session without a socket, and its seat with it (reap).
LEMMA ReapSessionKeepsInv ==
    ASSUME Inv, NEW p \in Players, ReapSession(p)
    PROVE  Inv'
<1> DEFINE s == [Nowhere EXCEPT !.life = "reaped"]
<1>1. PICK more \in BOOLEAN : rooms' = Left(rooms, CurrentRoom(p), p, more)
  BY DEF ReapSession
<1>2. OneOut(rooms', CurrentRoom(p), p)
  BY <1>1, Seated, LeftTakesOneOut
<1>3. s \in SessionRecords /\ s.conn = None /\ s.match = NoMatch
  BY Seated DEF SessionRecords, Nowhere
<1>4. session' = [session EXCEPT ![p] = s] /\ UNCHANGED socket /\ session[p].conn = None
  BY DEF ReapSession
<1> HIDE DEF s
<1> QED BY <1>2, <1>3, <1>4, Seated, LeavingKeepsInv

\* A member is removed from the room by another (roomCommand).
LEMMA KickKeepsInv ==
    ASSUME Inv, NEW p \in Players, NEW q \in Players, Kick(p, q)
    PROVE  Inv'
<1> DEFINE s == [session[q] EXCEPT !.room = None, !.match = NoMatch]
<1>1. p # q /\ CurrentRoom(p) # None /\ q \in rooms[CurrentRoom(p)].members
      /\ rooms' = Left(rooms, CurrentRoom(p), q, TRUE) /\ UNCHANGED socket
      /\ session' = [session EXCEPT ![p].room = CurrentRoom(p), ![q].room = None, ![q].match = NoMatch]
  BY DEF Kick
<1>2. OneOut(rooms', CurrentRoom(p), q)
  BY <1>1, Seated, LeftTakesOneOut
<1>3. s \in SessionRecords /\ s.conn = session[q].conn /\ s.life = session[q].life /\ s.match = NoMatch
  BY Seated DEF SessionRecords
<1>4. [session EXCEPT ![p].room = CurrentRoom(p)] = session
  <2>1. [session[p] EXCEPT !.room = session[p].room] = session[p]
    BY Seated DEF SessionRecords
  <2> QED BY <1>1, <2>1, Seated DEF Shaped
<1>5. session' = [session EXCEPT ![q] = s]
  BY <1>1, <1>4
<1>6. \A r \in Rooms : q \in rooms[r].members => r = CurrentRoom(p)
  BY <1>1, Seated
<1> HIDE DEF s
<1> QED BY <1>1, <1>2, <1>3, <1>5, <1>6, Seated, LeavingKeepsInv

\* A session turns away from the finished match it shows (gameCommand).
LEMMA PlayAgainKeepsInv ==
    ASSUME Inv, NEW p \in Players, PlayAgain(p)
    PROVE  Inv'
<1> DEFINE s == [session[p] EXCEPT !.match = NoMatch]
<1>1. s \in SessionRecords /\ s.conn = session[p].conn /\ s.life = session[p].life /\ s.match = NoMatch /\ s.room = session[p].room
  BY Seated DEF SessionRecords
<1>2. session' = [session EXCEPT ![p] = s] /\ UNCHANGED <<socket, rooms>>
  BY DEF PlayAgain
<1> HIDE DEF s
<1> QED BY <1>1, <1>2, ShowingNothingKeepsInv

\* A player goes home from the match their session shows, and leaves the room only if it is played there (leaveGame).
LEMMA LeaveMatchKeepsInv ==
    ASSUME Inv, NEW p \in Players, LeaveMatch(p)
    PROVE  Inv'
<1> DEFINE match == session[p].match
           current == match = Current(match.room)
           leaves == current /\ CurrentRoom(p) = match.room
           home == IF leaves THEN None ELSE IF current THEN CurrentRoom(p) ELSE session[p].room
           s == [session[p] EXCEPT !.match = NoMatch, !.room = home]
<1>1. PICK more \in BOOLEAN : rooms' = Left(rooms, IF leaves THEN match.room ELSE None, p, more)
  BY DEF LeaveMatch
<1>2. home \in Rooms \cup {None}
  BY Seated DEF SessionRecords
<1>3. s \in SessionRecords /\ s.conn = session[p].conn /\ s.life = session[p].life /\ s.match = NoMatch /\ s.room = home
  BY <1>2, Seated DEF SessionRecords
<1>4. session' = [session EXCEPT ![p] = s] /\ UNCHANGED socket
  BY DEF LeaveMatch
<1>5. CASE leaves
  <2>1. rooms' = Left(rooms, CurrentRoom(p), p, more)
    BY <1>1, <1>5
  <2>2. OneOut(rooms', CurrentRoom(p), p)
    BY <2>1, Seated, LeftTakesOneOut
  <2> HIDE DEF s, home, leaves, current, match
  <2>3. CurrentRoom(p) \in Rooms \cup {None} /\ \A q \in Rooms : p \in rooms[q].members => q = CurrentRoom(p)
    BY Seated
  <2> QED BY <1>3, <1>4, <2>2, <2>3, LeavingKeepsInv
<1>6. CASE ~leaves
  <2>1. rooms' = rooms
    BY <1>1, <1>6 DEF Left
  <2>2. s.room \in {session[p].room, CurrentRoom(p)}
    BY <1>3, <1>6
  <2>3. UNCHANGED <<socket, rooms>> /\ s \in SessionRecords
        /\ s.conn = session[p].conn /\ s.life = session[p].life /\ s.match = NoMatch
    BY <1>3, <1>4, <2>1
  <2> HIDE DEF s, home, leaves, current, match
  <2> QED BY <1>4, <2>2, <2>3, ShowingNothingKeepsInv
<1> QED BY <1>5, <1>6

\* A player opens a room and gives up the seat they had (createRoom).
LEMMA CreateRoomKeepsInv ==
    ASSUME Inv, NEW p \in Players, NEW r \in Rooms, CreateRoom(p, r)
    PROVE  Inv'
<1> DEFINE left == Left(rooms, CurrentRoom(p), p, TRUE)
           w == WithMember(left[r], p)
<1>1. OneOut(left, CurrentRoom(p), p)
  BY Seated, LeftTakesOneOut
<1>2. /\ Live(p) /\ rooms[r].state = "new" /\ UNCHANGED socket
      /\ rooms' = [left EXCEPT ![r] = [w EXCEPT !.state = "open"]]
      /\ session' = [session EXCEPT ![p] = Enter(@, r)]
  BY DEF CreateRoom
<1>3. left \in [Rooms -> RoomRecords] /\ left[r] \in RoomRecords
  BY <1>1 DEF OneOut
<1> HIDE DEF left
<1>4. /\ w \in RoomRecords /\ w.matches = left[r].matches /\ w.playing = left[r].playing
      /\ w.members = left[r].members \cup {p}
      /\ session[p].conn = None => w.online = left[r].online \ {p}
      /\ session[p].conn # None => w.online = left[r].online \cup {p}
  BY <1>3, WithMemberTakesOneIn, Seated
<1> HIDE DEF w
<1>5. /\ rooms' \in [Rooms -> RoomRecords]
      /\ rooms'[r] = [w EXCEPT !.state = "open"]
      /\ \A q \in Rooms \ {r} : rooms'[q] = left[q]
  BY <1>2, <1>3, <1>4 DEF RoomRecords
<1>6. /\ rooms'[r].members = w.members /\ rooms'[r].online = w.online /\ rooms'[r].playing = w.playing
      /\ rooms'[r].matches = w.matches /\ rooms'[r].state = "open"
  BY <1>4, <1>5 DEF RoomRecords
<1>7. OneIn(rooms', r, p)
  <2>1. CurrentRoom(p) \in Rooms \cup {None} /\ \A q \in Rooms : p \in rooms[q].members => q = CurrentRoom(p)
    BY Seated
  <2>2. \A q \in Rooms : Without(left, q, p)
    BY <1>1, <2>1, OthersStay
  <2>3. \A q \in Rooms \ {r} : Without(rooms', q, p)
    BY <1>5, <2>2 DEF Without
  <2>4. /\ w.members = rooms[r].members \cup {p}
        /\ session[p].conn = None => w.online = rooms[r].online \ {p}
        /\ session[p].conn # None => w.online = rooms[r].online \cup {p}
        /\ w.matches = rooms[r].matches /\ (w.playing => rooms[r].playing)
    BY <1>4, <2>2 DEF Without
  <2> QED BY <1>5, <1>6, <2>3, <2>4 DEF OneIn, Without
<1> QED BY <1>2, <1>7, EnteringKeepsInv

\* A player joins a room, perhaps the one they are in, and gives up any other seat (joinRoom).
LEMMA JoinRoomKeepsInv ==
    ASSUME Inv, NEW p \in Players, NEW r \in Rooms, JoinRoom(p, r)
    PROVE  Inv'
<1> DEFINE previous == IF CurrentRoom(p) = r THEN None ELSE CurrentRoom(p)
           left == Left(rooms, previous, p, TRUE)
           w == WithMember(left[r], p)
<1>1. OneOut(left, previous, p)
  BY Seated, LeftTakesOneOut
<1>2. /\ Live(p) /\ rooms[r].state = "open" /\ UNCHANGED socket
      /\ rooms' = [left EXCEPT ![r] = w]
      /\ session' = [session EXCEPT ![p] = Enter(@, r)]
  BY DEF JoinRoom
<1>3. left \in [Rooms -> RoomRecords] /\ left[r] \in RoomRecords
  BY <1>1 DEF OneOut
<1>4. previous \in Rooms \cup {None} /\ previous # r /\ \A q \in Rooms \ {r} : p \in rooms[q].members => q = previous
  BY Seated
<1> HIDE DEF left, previous
<1>5. /\ w \in RoomRecords /\ w.matches = left[r].matches /\ w.playing = left[r].playing
      /\ w.members = left[r].members \cup {p} /\ w.state = left[r].state
      /\ session[p].conn = None => w.online = left[r].online \ {p}
      /\ session[p].conn # None => w.online = left[r].online \cup {p}
  BY <1>3, WithMemberTakesOneIn, Seated
<1> HIDE DEF w
<1>6. rooms' \in [Rooms -> RoomRecords] /\ rooms'[r] = w /\ \A q \in Rooms \ {r} : rooms'[q] = left[q]
  BY <1>2, <1>3, <1>5
<1>7. OneIn(rooms', r, p)
  <2>1. \A q \in Rooms \ {r} : Without(left, q, p)
    BY <1>1, <1>4, OthersStay
  <2>3. \A q \in Rooms \ {r} : Without(rooms', q, p)
    BY <1>6, <2>1 DEF Without
  <2>2. left[r].members = rooms[r].members /\ left[r].online = rooms[r].online /\ left[r].state = "open"
        /\ left[r].matches = rooms[r].matches /\ (left[r].playing => rooms[r].playing)
    BY <1>1, <1>2, <1>4 DEF OneOut
  <2> QED BY <1>5, <1>6, <2>2, <2>3 DEF OneIn, Without
<1> QED BY <1>2, <1>7, EnteringKeepsInv

\* A match starts and every member of the room is shown it (startGame).
LEMMA StartKeepsInv ==
    ASSUME Inv, NEW p \in Players, Start(p)
    PROVE  Inv'
<1> PICK r \in Rooms : r = CurrentRoom(p)
  BY Seated DEF Start
<1>1. /\ ~rooms[r].playing /\ rooms[r].matches < MaxMatches /\ UNCHANGED socket /\ rooms[r].members # {}
      /\ rooms' = [rooms EXCEPT ![r].playing = TRUE, ![r].matches = @ + 1]
      /\ session' = [q \in Players |->
                 IF q \in rooms[r].members
                 THEN [session[q] EXCEPT !.match = [room |-> r, number |-> rooms[r].matches + 1]]
                 ELSE session[q]]
  BY CurrentRoomIsTheOne DEF Start, Inv
<1>2. Shaped /\ RoomsFit
  BY InvShape
<1>3. /\ rooms' \in [Rooms -> RoomRecords] /\ rooms[r].matches + 1 \in 1 .. MaxMatches
      /\ rooms'[r].members = rooms[r].members /\ rooms'[r].online = rooms[r].online
      /\ rooms'[r].matches = rooms[r].matches + 1 /\ rooms'[r].state = rooms[r].state
      /\ \A q \in Rooms \ {r} : rooms'[q] = rooms[q]
  <2> DEFINE started == [rooms[r] EXCEPT !.playing = TRUE, !.matches = @ + 1]
  <2>1. rooms' = [rooms EXCEPT ![r] = started] /\ rooms[r] \in RoomRecords
    BY <1>1, <1>2 DEF Shaped
  <2>2. /\ started \in RoomRecords /\ started.members = rooms[r].members /\ started.online = rooms[r].online
        /\ started.matches = rooms[r].matches + 1 /\ started.state = rooms[r].state
        /\ rooms[r].matches + 1 \in 1 .. MaxMatches
    <3>1. rooms[r].matches \in 0 .. MaxMatches
      BY <2>1 DEF RoomRecords
    <3>2. rooms[r].matches + 1 \in 1 .. MaxMatches /\ rooms[r].matches + 1 \in 0 .. MaxMatches
      BY <1>1, <3>1
    <3> QED BY <2>1, <3>2 DEF RoomRecords
  <2> HIDE DEF started
  <2> QED BY <1>2, <2>1, <2>2 DEF Shaped
<1>4. [room |-> r, number |-> rooms[r].matches + 1] \in Matches
      /\ [room |-> r, number |-> rooms[r].matches + 1] = Current(r)'
  BY <1>3 DEF Matches, Current
<1>5. ASSUME NEW x \in Players
      PROVE  /\ session'[x] \in SessionRecords /\ session'[x].life = session[x].life
             /\ session'[x].conn = session[x].conn /\ session'[x].room = session[x].room
             /\ x \in rooms[r].members => session'[x].match = Current(r)'
             /\ x \notin rooms[r].members => session'[x].match = session[x].match
  <2>1. session[x] \in SessionRecords
    BY <1>2 DEF Shaped
  <2>2. CASE x \in rooms[r].members
    BY <1>1, <1>4, <2>1, <2>2 DEF SessionRecords
  <2>3. CASE x \notin rooms[r].members
    BY <1>1, <2>1, <2>3
  <2> QED BY <2>2, <2>3
<1>6. Shaped'
  <2>1. session' \in [Players -> SessionRecords]
    BY <1>1, <1>5
  <2> QED BY <1>1, <1>2, <1>3, <2>1 DEF Shaped
<1>7. RoomsFit'
  <2> SUFFICES ASSUME NEW q \in Rooms
               PROVE  /\ rooms'[q].online \subseteq rooms'[q].members
                      /\ rooms'[q].playing => rooms'[q].members # {}
                      /\ rooms'[q].members # {} => rooms'[q].state = "open"
    BY DEF RoomsFit
  <2>1. CASE q = r
    BY <1>1, <1>2, <1>3, <2>1 DEF RoomsFit
  <2>2. CASE q # r
    BY <1>2, <1>3, <2>2 DEF RoomsFit
  <2> QED BY <2>1, <2>2
<1>8. SocketsAreOwned' /\ OwnedUnlessUnused'
  BY <1>1, <1>2, <1>5 DEF Inv, Shaped, OwnedUnlessUnused, SocketsAreOwned, Live
<1>9. ASSUME NEW q \in Rooms, NEW x \in Players, x \in rooms'[q].members PROVE Good(q, x)'
  <2>1. CASE q = r
    <3>1. Good(r, x) /\ x \in rooms[r].members
      BY <1>3, <1>9, <2>1, InvSeats
    <3> QED BY <1>3, <1>5, <2>1, <3>1 DEF Good, Live
  <2>2. CASE q # r
    <3>1. Good(q, x) /\ x \notin rooms[r].members /\ rooms'[q] = rooms[q]
      BY <1>3, <1>9, <2>2, InvSeats, Seated
    <3> QED BY <1>5, <3>1 DEF Good, Live, Current
  <2> QED BY <2>1, <2>2
<1>10. ASSUME NEW x \in Players PROVE Told(x)'
  <2>1. CASE x \in rooms[r].members
    <3>1. session[x].room = r
      BY <2>1, InvSeats DEF Good
    <3> QED BY <1>5, <2>1, <3>1 DEF Told, Current
  <2>2. CASE x \notin rooms[r].members
    BY <1>5, <2>2, InvSeats DEF Told
  <2> QED BY <2>1, <2>2
<1> QED BY <1>6, <1>7, <1>8, <1>9, <1>10, SeatsMakeInv

\* The match moves on and removes offline members (Tick, callVote, leave).
LEMMA MatchMovesKeepsInv ==
    ASSUME Inv, NEW r \in Rooms, MatchMoves(r)
    PROVE  Inv'
<1>1. PICK gone \in SUBSET (rooms[r].members \ rooms[r].online), more \in BOOLEAN :
        rooms' = [rooms EXCEPT ![r].members = @ \ gone, ![r].playing = more /\ rooms[r].members # gone]
  BY DEF MatchMoves
<1>2. rooms[r].playing /\ UNCHANGED <<session, socket>> /\ Shaped /\ RoomsFit
  BY InvShape DEF MatchMoves
<1> DEFINE moved == [rooms[r] EXCEPT !.members = @ \ gone, !.playing = more /\ rooms[r].members # gone]
<1>3. /\ moved \in RoomRecords /\ moved.members = rooms[r].members \ gone /\ moved.online = rooms[r].online
      /\ moved.matches = rooms[r].matches /\ moved.state = rooms[r].state
      /\ moved.playing => rooms[r].members # gone
  <2>1. rooms[r] \in RoomRecords
    BY <1>2 DEF Shaped
  <2> QED BY <2>1 DEF RoomRecords
<1>4. rooms' = [rooms EXCEPT ![r] = moved]
  BY <1>1
<1> HIDE DEF moved
<1>5. rooms' \in [Rooms -> RoomRecords] /\ rooms'[r] = moved /\ \A q \in Rooms \ {r} : rooms'[q] = rooms[q]
  BY <1>2, <1>3, <1>4 DEF Shaped
<1>6. Shaped'
  BY <1>2, <1>5 DEF Shaped
<1>7. RoomsFit'
  <2>1. rooms[r].online \subseteq rooms[r].members /\ (rooms[r].members # {} => rooms[r].state = "open")
    BY <1>2 DEF RoomsFit
  <2>2. moved.online \subseteq moved.members
    BY <1>3, <2>1
  <2>3. (moved.playing => moved.members # {}) /\ (moved.members # {} => moved.state = "open")
    BY <1>1, <1>3, <2>1
  <2> QED BY <1>2, <1>5, <2>2, <2>3 DEF RoomsFit
<1>8. OwnedUnlessUnused' /\ SocketsAreOwned'
  BY <1>2 DEF Inv, OwnedUnlessUnused, SocketsAreOwned, Live
<1>9. ASSUME NEW q \in Rooms, NEW x \in Players, x \in rooms'[q].members PROVE Good(q, x)'
  <2>1. x \in rooms[q].members
    BY <1>3, <1>5, <1>9
  <2>2. Good(q, x) /\ rooms'[q].online = rooms[q].online /\ rooms'[q].matches = rooms[q].matches
    BY <1>3, <1>5, <2>1, InvSeats
  <2>3. rooms'[q].playing => rooms[q].playing
    BY <1>2, <1>5
  <2> QED BY <1>2, <2>2, <2>3 DEF Good, Live, Current
<1>10. \A x \in Players : Told(x)'
  BY <1>2, InvSeats DEF Told
<1> QED BY <1>6, <1>7, <1>8, <1>9, <1>10, SeatsMakeInv

\* Everyone whose session points to the room is sent home (abortRoom, removeRoom).
LEMMA AbortKeepsInv ==
    ASSUME Inv, NEW r \in Rooms, Abort(r)
    PROVE  Inv'
<1>1. session' = [p \in Players |-> Home(session[p], r)] /\ UNCHANGED socket
  BY DEF Abort
<1>2. Shaped /\ RoomsFit /\ NoMatch \in Matches
  BY InvShape DEF Matches
<1> DEFINE shut == [rooms[r] EXCEPT !.state = "dropped", !.members = {}, !.online = {}, !.playing = FALSE]
<1>3. rooms' = [rooms EXCEPT ![r] = shut]
  BY DEF Abort
<1>4. /\ shut \in RoomRecords /\ shut.members = {} /\ shut.online = {} /\ ~shut.playing
  <2>1. rooms[r] \in RoomRecords
    BY <1>2 DEF Shaped
  <2> QED BY <2>1 DEF RoomRecords
<1> HIDE DEF shut
<1>5. rooms' \in [Rooms -> RoomRecords] /\ rooms'[r] = shut /\ \A q \in Rooms \ {r} : rooms'[q] = rooms[q]
  BY <1>2, <1>3, <1>4 DEF Shaped
<1>6. ASSUME NEW x \in Players
      PROVE  /\ session'[x] \in SessionRecords /\ session'[x].life = session[x].life /\ session'[x].conn = session[x].conn
             /\ \/ session'[x] = session[x]
                \/ session[x].room = r /\ session'[x].match = NoMatch
                \/ session'[x].match = NoMatch /\ session'[x].room = None /\ session[x].match.room = r
  <2>1. session[x] \in SessionRecords
    BY <1>2 DEF Shaped
  <2>2. session'[x] = Home(session[x], r)
    BY <1>1
  <2> QED BY <1>2, <2>1, <2>2 DEF Home, SessionRecords
<1>7. Shaped'
  BY <1>1, <1>2, <1>5, <1>6 DEF Shaped
<1>8. RoomsFit'
  BY <1>2, <1>4, <1>5 DEF RoomsFit
<1>9. OwnedUnlessUnused' /\ SocketsAreOwned'
  BY <1>1, <1>2, <1>6 DEF Inv, Shaped, OwnedUnlessUnused, SocketsAreOwned, Live
<1>10. ASSUME NEW q \in Rooms, NEW x \in Players, x \in rooms'[q].members PROVE Good(q, x)'
  <2>1. q # r /\ rooms'[q] = rooms[q] /\ Good(q, x)
    BY <1>4, <1>5, <1>10, InvSeats
  <2>2. session[x].room = q
    BY <2>1 DEF Good
  <2>3. Told(x)
    BY InvSeats
  <2>4. session'[x] = session[x]
    <3>1. session'[x] = Home(session[x], r) /\ session[x].room # r /\ q # None
      BY <1>1, <2>1, <2>2
    <3>2. session[x].match.room # r
      BY <2>1, <2>2, <2>3, <3>1 DEF Told, NoMatch
    <3> QED BY <3>1, <3>2 DEF Home
  <2> QED BY <2>1, <2>4 DEF Good, Live, Current
<1>11. ASSUME NEW x \in Players PROVE Told(x)'
  BY <1>6, InvSeats DEF Told
<1> QED BY <1>7, <1>8, <1>9, <1>10, <1>11, SeatsMakeInv

\* An empty room is taken away (reap).
LEMMA ReapRoomKeepsInv ==
    ASSUME Inv, NEW r \in Rooms, ReapRoom(r)
    PROVE  Inv'
<1>1. rooms[r].members = {} /\ rooms' = [rooms EXCEPT ![r].state = "dropped"] /\ UNCHANGED <<session, socket>>
  BY DEF ReapRoom
<1>2. Shaped /\ RoomsFit
  BY InvShape
<1> DEFINE shut == [rooms[r] EXCEPT !.state = "dropped"]
<1>3. /\ shut \in RoomRecords /\ shut.members = {} /\ shut.online = rooms[r].online /\ shut.playing = rooms[r].playing
  <2>1. rooms[r] \in RoomRecords
    BY <1>2 DEF Shaped
  <2> QED BY <1>1, <2>1 DEF RoomRecords
<1>4. rooms' = [rooms EXCEPT ![r] = shut]
  BY <1>1
<1> HIDE DEF shut
<1>5. rooms' \in [Rooms -> RoomRecords] /\ rooms'[r] = shut /\ \A q \in Rooms \ {r} : rooms'[q] = rooms[q]
  BY <1>2, <1>3, <1>4 DEF Shaped
<1>6. Shaped'
  BY <1>1, <1>2, <1>5 DEF Shaped
<1>7. RoomsFit'
  BY <1>1, <1>2, <1>3, <1>5 DEF RoomsFit
<1>8. OwnedUnlessUnused' /\ SocketsAreOwned'
  BY <1>1 DEF Inv, OwnedUnlessUnused, SocketsAreOwned, Live
<1>9. ASSUME NEW q \in Rooms, NEW x \in Players, x \in rooms'[q].members PROVE Good(q, x)'
  <2>1. rooms'[q] = rooms[q] /\ Good(q, x)
    BY <1>3, <1>5, <1>9, InvSeats
  <2> QED BY <1>1, <2>1 DEF Good, Live, Current
<1>10. \A x \in Players : Told(x)'
  BY <1>1, InvSeats DEF Told
<1> QED BY <1>6, <1>7, <1>8, <1>9, <1>10, SeatsMakeInv

\* A socket whose client goes is still the session's until it ends.
LEMMA HangupKeepsInv ==
    ASSUME Inv, NEW c \in Sockets, Hangup(c)
    PROVE  Inv'
BY ClosingKeepsInv DEF Hangup

\* Nothing happens.
LEMMA StutterKeepsInv ==
    ASSUME Inv, UNCHANGED vars
    PROVE  Inv'
<1>1. Shaped /\ RoomsFit
  BY InvShape
<1>2. Shaped' /\ RoomsFit' /\ OwnedUnlessUnused'
  BY <1>1 DEF vars, Inv, Shaped, RoomsFit, OwnedUnlessUnused
<1>3. SocketsAreOwned'
  BY DEF vars, Inv, SocketsAreOwned, Live
<1>4. \A r \in Rooms : \A x \in Players : x \in rooms'[r].members => Good(r, x)'
  BY InvSeats DEF vars, Good, Live, Current
<1>5. \A x \in Players : Told(x)'
  BY InvSeats DEF vars, Told
<1> QED BY <1>2, <1>3, <1>4, <1>5, SeatsMakeInv

\* Every step the handlers, the sockets and the reaper may take keeps sessions, sockets and
\* rooms in agreement.
LEMMA InvNext ==
    ASSUME Inv, [Next]_vars
    PROVE  Inv'
<1>1. ASSUME NEW p \in Players,
             CreateSession(p) \/ LeaveRoom(p) \/ Start(p) \/ LeaveMatch(p) \/ PlayAgain(p) \/ ReapSession(p)
      PROVE  Inv'
  BY <1>1, CreateSessionKeepsInv, LeaveRoomKeepsInv, StartKeepsInv, LeaveMatchKeepsInv, PlayAgainKeepsInv,
     ReapSessionKeepsInv
<1>2. ASSUME NEW p \in Players, NEW c \in Sockets, Upgrade(c, p) PROVE Inv'
  BY <1>2, UpgradeKeepsInv
<1>3. ASSUME NEW p \in Players, NEW r \in Rooms, CreateRoom(p, r) \/ JoinRoom(p, r) PROVE Inv'
  BY <1>3, CreateRoomKeepsInv, JoinRoomKeepsInv
<1>4. ASSUME NEW p \in Players, NEW q \in Players, Kick(p, q) PROVE Inv'
  BY <1>4, KickKeepsInv
<1>5. ASSUME NEW c \in Sockets, Attach(c) \/ Hangup(c) \/ Detach(c) PROVE Inv'
  BY <1>5, AttachKeepsInv, HangupKeepsInv, DetachKeepsInv
<1>6. ASSUME NEW r \in Rooms, MatchMoves(r) \/ Abort(r) \/ ReapRoom(r) PROVE Inv'
  BY <1>6, MatchMovesKeepsInv, AbortKeepsInv, ReapRoomKeepsInv
<1> QED BY <1>1, <1>2, <1>3, <1>4, <1>5, <1>6, StutterKeepsInv DEF Next

-----------------------------------------------------------------------------
(* What the runs check on small instances, for any number of players, sockets and rooms *)

\* The inductive invariant holds throughout.
THEOREM Soundness == Spec => []Inv
<1>1. Inv /\ [Next]_vars => Inv'
  BY InvNext
<1> QED BY <1>1, InitInv, PTL DEF Spec

\* Sessions, sockets and rooms have their shape; only an open room has members.
THEOREM WellTyped == Spec => []TypeOK
<1>1. Inv => TypeOK
  BY DEF Inv
<1> QED BY <1>1, Soundness, PTL

\* Whoever holds a seat has a living session that knows it.
THEOREM SeatsKnown == Spec => []SeatsAreKnown
<1>1. Inv => SeatsAreKnown
  BY DEF Inv
<1> QED BY <1>1, Soundness, PTL

\* A room takes a member to be online exactly while their session has a socket.
THEOREM OnlineKnown == Spec => []OnlineMeansSocket
<1>1. Inv => OnlineMeansSocket
  BY DEF Inv
<1> QED BY <1>1, Soundness, PTL

\* An open socket is the one socket of a living session.
THEOREM SocketsOwned == Spec => []SocketsAreOwned
<1>1. Inv => SocketsAreOwned
  BY DEF Inv
<1> QED BY <1>1, Soundness, PTL

\* A session is told of one activity.
THEOREM ActivityIsOne == Spec => []OneActivity
<1>1. Inv => OneActivity
  BY DEF Inv
<1> QED BY <1>1, Soundness, PTL
=============================================================================

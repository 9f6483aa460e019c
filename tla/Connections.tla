----------------------------- MODULE Connections -----------------------------
(***************************************************************************)
(* Sessions, their sockets, and the private rooms they are in:             *)
(* server/internal/api (ws.go, api.go, game.go, reaper.go, ops.go).        *)
(*                                                                         *)
(* One mutex makes every handler atomic, except that a socket is accepted  *)
(* between looking its session up (Upgrade) and attaching it (Attach), and *)
(* that a socket which is cancelled or replaced ends some time later       *)
(* (Detach).  Of a room this module keeps what its sessions depend on: who *)
(* is in it, who of them it takes to be online, and whether it plays; who  *)
(* hosts it is Room's business, and any member may do what its host may.   *)
(*                                                                         *)
(* Ids are never used twice: a session, a room and a match live once.      *)
(***************************************************************************)
EXTENDS Integers, FiniteSets

\* A definition whose name begins with Bug is a plausible mistake in the one that follows it;
\* nothing uses it, and putting it in place breaks one of the properties below.

CONSTANTS
    Players,    \* sessions by the player they belong to
    Sockets,    \* bound: sockets that are alive at a time
    Rooms,
    Capacity,   \* members a room takes
    MinPlayers, \* members needed to start a match
    MaxMatches, \* bound: matches played in one room
    None

ASSUME NoneAssumption == None \notin Players \cup Sockets \cup Rooms
ASSUME BoundsAssumption == Capacity \in Nat /\ MinPlayers \in Nat \ {0} /\ MaxMatches \in Nat

VARIABLES
    session,    \* of each player: whether it lives, its socket, its room and the match it shows
    socket,     \* of each socket: its state and the player it was opened for
    rooms       \* of each room: its state, members, who of them is online, its matches

vars == <<session, socket, rooms>>

NoMatch == [room |-> None, number |-> 0]
Nowhere == [life |-> "live", conn |-> None, room |-> None, match |-> NoMatch]
Live(p) == session[p].life = "live"

-----------------------------------------------------------------------------
(* Rooms as their sessions see them *)

\* The room the player is still a member of; sess.roomID may name one they were removed from.
CurrentRoom(p) ==
    IF session[p].room # None /\ p \in rooms[session[p].room].members THEN session[p].room ELSE None

Current(r) == [room |-> r, number |-> rooms[r].matches]
IsOver(match) == match # Current(match.room) \/ ~rooms[match.room].playing

\* `more' tells whether the match, if there is one, outlives the change: any exit may decide it.
WithoutMember(room, p, more) ==
    [room EXCEPT !.members = @ \ {p}, !.online = @ \ {p},
                 !.playing = @ /\ more /\ room.members # {p}]

Left(all, r, p, more) == IF r = None THEN all ELSE [all EXCEPT ![r] = WithoutMember(@, p, more)]

\* Room.Join or room.New, and markSocketless.
WithMember(room, p) ==
    [room EXCEPT !.members = @ \cup {p},
                 !.online = IF session[p].conn = None THEN @ \ {p} ELSE @ \cup {p}]

-----------------------------------------------------------------------------
Init ==
    /\ session = [p \in Players |-> [Nowhere EXCEPT !.life = "new"]]
    /\ socket = [c \in Sockets |-> [state |-> "unused", owner |-> None]]
    /\ rooms = [r \in Rooms |->
          [state |-> "new", members |-> {}, online |-> {}, playing |-> FALSE, matches |-> 0]]

CreateSession(p) ==
    /\ session[p].life = "new"
    /\ session' = [session EXCEPT ![p] = Nowhere]
    /\ UNCHANGED <<socket, rooms>>

(* Sockets *)

\* serveWS finds the session and accepts the socket without the lock.
Upgrade(c, p) ==
    /\ socket[c].state = "unused"
    /\ Live(p)
    /\ socket' = [socket EXCEPT ![c] = [state |-> "upgrading", owner |-> p]]
    /\ UNCHANGED <<session, rooms>>

\* The new socket replaces the old one, which is cancelled and ends later.
Seat(c, p) ==
    LET r == CurrentRoom(p)
    IN  /\ session' = [session EXCEPT ![p].conn = c, ![p].room = r]
        /\ socket' = [d \in Sockets |->
              IF d = c THEN [socket[d] EXCEPT !.state = "open"]
              ELSE IF d = session[p].conn THEN [socket[d] EXCEPT !.state = "closing"]
              ELSE socket[d]]
        /\ rooms' = IF r = None THEN rooms ELSE [rooms EXCEPT ![r].online = @ \cup {p}]

BugAttachUnchecked(c) == socket[c].state = "upgrading" /\ Seat(c, socket[c].owner)

\* The reaper may have taken the session during the upgrade.
Attach(c) ==
    /\ socket[c].state = "upgrading"
    /\ IF Live(socket[c].owner)
       THEN Seat(c, socket[c].owner)
       ELSE socket' = [socket EXCEPT ![c].state = "closing"] /\ UNCHANGED <<session, rooms>>

\* The client goes, two pongs are missed, or the queue to it is full.
Hangup(c) ==
    /\ socket[c].state = "open"
    /\ socket' = [socket EXCEPT ![c].state = "closing"]
    /\ UNCHANGED <<session, rooms>>

Unseat(c, p) ==
    LET r == CurrentRoom(p)
    IN  /\ session' = [session EXCEPT ![p].conn = IF @ = c THEN None ELSE @, ![p].room = r]
        /\ rooms' = IF r = None THEN rooms ELSE [rooms EXCEPT ![r].online = @ \ {p}]

Ends(c) ==
    /\ socket[c].state = "closing"
    /\ socket' = [socket EXCEPT ![c] = [state |-> "unused", owner |-> None]]

BugDetachReplaced(c) == Ends(c) /\ Unseat(c, socket[c].owner)

\* Counts as a disconnect unless the socket was replaced.
Detach(c) ==
    /\ Ends(c)
    /\ LET p == socket[c].owner
       IN  IF session[p].conn = c THEN Unseat(c, p) ELSE UNCHANGED <<session, rooms>>

\* A frame that was read is handled even if its socket has been replaced since.
CanCommand(p) == \E c \in Sockets : socket[c].owner = p /\ socket[c].state \in {"open", "closing"}

(* Entering and leaving rooms *)

BugEnterStillShown(s, r) == [s EXCEPT !.room = r]

\* The session after its player entered a room.
Enter(s, r) == [s EXCEPT !.room = r, !.match = NoMatch]

\* Moving on from another room is refused while that one plays.
MayMove(p, r) == CurrentRoom(p) \notin {None, r} => ~rooms[CurrentRoom(p)].playing

\* Room.Join: a member is let in at any time.
LetsIn(r, p) ==
    p \notin rooms[r].members => ~rooms[r].playing /\ Cardinality(rooms[r].members) < Capacity

\* The player's room is left only once the new one has taken them.
CreateRoom(p, r) ==
    /\ Live(p)
    /\ rooms[r].state = "new"
    /\ MayMove(p, r)
    /\ rooms' = [Left(rooms, CurrentRoom(p), p, TRUE) EXCEPT
          ![r] = [WithMember(@, p) EXCEPT !.state = "open"]]
    /\ session' = [session EXCEPT ![p] = Enter(@, r)]
    /\ UNCHANGED socket

\* By its code; also the room the player is in already, which Room.Join leaves as it is.
JoinRoom(p, r) ==
    /\ Live(p)
    /\ rooms[r].state = "open"
    /\ MayMove(p, r)
    /\ LetsIn(r, p)
    /\ LET previous == IF CurrentRoom(p) = r THEN None ELSE CurrentRoom(p)
       IN  rooms' = [Left(rooms, previous, p, TRUE) EXCEPT ![r] = WithMember(@, p)]
    /\ session' = [session EXCEPT ![p] = Enter(@, r)]
    /\ UNCHANGED socket

LeaveRoom(p) ==
    /\ CanCommand(p)
    /\ CurrentRoom(p) # None
    /\ \E more \in BOOLEAN : rooms' = Left(rooms, CurrentRoom(p), p, more)
    /\ session' = [session EXCEPT ![p].room = None, ![p].match = NoMatch]
    /\ UNCHANGED socket

Kick(p, q) ==
    /\ CanCommand(p)
    /\ CurrentRoom(p) # None
    /\ ~rooms[CurrentRoom(p)].playing
    /\ q \in rooms[CurrentRoom(p)].members \ {p}
    /\ rooms' = Left(rooms, CurrentRoom(p), q, TRUE)
    /\ session' = [session EXCEPT ![p].room = CurrentRoom(p), ![q].room = None, ![q].match = NoMatch]
    /\ UNCHANGED socket

(* Matches *)

Start(p) ==
    /\ CanCommand(p)
    /\ CurrentRoom(p) # None
    /\ LET r == CurrentRoom(p)
           room == rooms[r]
       IN  /\ ~room.playing
           /\ Cardinality(room.members) >= MinPlayers
           /\ room.matches < MaxMatches
           /\ rooms' = [rooms EXCEPT ![r].playing = TRUE, ![r].matches = @ + 1]
           /\ session' = [q \in Players |->
                 IF q \in room.members
                 THEN [session[q] EXCEPT !.match = [room |-> r, number |-> room.matches + 1]]
                 ELSE session[q]]
    /\ UNCHANGED socket

\* The match moves on: it may remove players who are offline, and end.
MatchMoves(r) ==
    /\ rooms[r].playing
    /\ \E gone \in SUBSET (rooms[r].members \ rooms[r].online), more \in BOOLEAN :
          rooms' = [rooms EXCEPT ![r].members = @ \ gone,
                                 ![r].playing = more /\ rooms[r].members # gone]
    /\ UNCHANGED <<session, socket>>

\* game.leave: home from the match the session shows, and from its room if that is where it is played.
LeaveMatch(p) ==
    /\ CanCommand(p)
    /\ session[p].match # NoMatch
    /\ LET match == session[p].match
           current == match = Current(match.room)
           leaves == current /\ CurrentRoom(p) = match.room
       IN  /\ \E more \in BOOLEAN : rooms' = Left(rooms, IF leaves THEN match.room ELSE None, p, more)
           /\ session' = [session EXCEPT ![p].match = NoMatch,
                                         ![p].room = IF leaves THEN None ELSE IF current THEN CurrentRoom(p) ELSE @]
    /\ UNCHANGED socket

PlayAgain(p) ==
    /\ CanCommand(p)
    /\ session[p].match # NoMatch
    /\ IsOver(session[p].match)
    /\ session' = [session EXCEPT ![p].match = NoMatch]
    /\ UNCHANGED <<socket, rooms>>

(* Failures and housekeeping *)

Home(s, r) == IF s.room = r \/ s.match.room = r THEN [s EXCEPT !.room = None, !.match = NoMatch] ELSE s

\* A command panicked, or the server shuts down in a match: everyone whose session points to
\* the room is sent home, and nobody reaches it after that.
Abort(r) ==
    /\ rooms[r].state = "open"
    /\ session' = [p \in Players |-> Home(session[p], r)]
    /\ rooms' = [rooms EXCEPT ![r].state = "dropped", ![r].members = {}, ![r].online = {},
                              ![r].playing = FALSE]
    /\ UNCHANGED socket

BugReapSessionOnly(p) ==
    /\ Live(p)
    /\ session[p].conn = None
    /\ session' = [session EXCEPT ![p] = [Nowhere EXCEPT !.life = "reaped"]]
    /\ UNCHANGED <<socket, rooms>>

ReapSession(p) ==
    /\ Live(p)
    /\ session[p].conn = None
    /\ \E more \in BOOLEAN : rooms' = Left(rooms, CurrentRoom(p), p, more)
    /\ session' = [session EXCEPT ![p] = [Nowhere EXCEPT !.life = "reaped"]]
    /\ UNCHANGED socket

ReapRoom(r) ==
    /\ rooms[r].state = "open"
    /\ rooms[r].members = {}
    /\ rooms' = [rooms EXCEPT ![r].state = "dropped"]
    /\ UNCHANGED <<session, socket>>

Next ==
    \/ \E p \in Players :
          \/ CreateSession(p) \/ LeaveRoom(p) \/ Start(p) \/ LeaveMatch(p) \/ PlayAgain(p) \/ ReapSession(p)
          \/ \E c \in Sockets : Upgrade(c, p)
          \/ \E r \in Rooms : CreateRoom(p, r) \/ JoinRoom(p, r)
          \/ \E q \in Players : Kick(p, q)
    \/ \E c \in Sockets : Attach(c) \/ Hangup(c) \/ Detach(c)
    \/ \E r \in Rooms : MatchMoves(r) \/ Abort(r) \/ ReapRoom(r)

Spec == Init /\ [][Next]_vars
-----------------------------------------------------------------------------
Matches == [room : Rooms, number : 1 .. MaxMatches] \cup {NoMatch}

SessionRecords == [life : {"new", "live", "reaped"}, conn : Sockets \cup {None},
                   room : Rooms \cup {None}, match : Matches]
SocketRecords == [state : {"unused", "upgrading", "open", "closing"}, owner : Players \cup {None}]
RoomRecords == [state : {"new", "open", "dropped"}, members : SUBSET Players, online : SUBSET Players,
                playing : BOOLEAN, matches : 0 .. MaxMatches]

\* Sessions, sockets and rooms have their shape; a room that is not open has nobody in it and
\* plays nothing, and who is online in a room is a member.
TypeOK ==
    /\ session \in [Players -> SessionRecords]
    /\ socket \in [Sockets -> SocketRecords]
    /\ rooms \in [Rooms -> RoomRecords]
    /\ \A r \in Rooms :
          /\ rooms[r].online \subseteq rooms[r].members
          /\ rooms[r].playing => rooms[r].members # {}
          /\ rooms[r].members # {} => rooms[r].state = "open"

\* Whatever creates, joins, kicks, leaves, aborts and reaps come together: whoever sits in a
\* room has a living session that knows it, so that nobody is in two rooms (docs/protocol.md:181)
\* and no seat is held by a session that is gone.
SeatsAreKnown ==
    \A r \in Rooms : \A p \in rooms[r].members : Live(p) /\ session[p].room = r

\* A room takes a member to be online exactly while their session has a socket: a replaced
\* socket that ends late disconnects nobody, and who joins without one is offline (detach,
\* markSocketless).
OnlineMeansSocket ==
    \A r \in Rooms : \A p \in rooms[r].members : p \in rooms[r].online <=> session[p].conn # None

\* An open socket is the one socket of a living session; none is left on a session that the
\* reaper took during the upgrade (the comment in serveWS).
SocketsAreOwned ==
    /\ \A c \in Sockets : socket[c].state = "open" => session[socket[c].owner].conn = c
    /\ \A p \in Players : session[p].conn # None =>
          Live(p) /\ socket[session[p].conn].owner = p /\ socket[session[p].conn].state \in {"open", "closing"}

\* A session is told one activity: the match it shows is of the room it is in, or of none, and
\* in a running match nobody is shown an earlier one.
OneActivity ==
    \A p \in Players :
        LET s == session[p]
        IN  /\ s.match # NoMatch => s.room \in {None, s.match.room}
            /\ \A r \in Rooms : rooms[r].playing /\ p \in rooms[r].members => s.match \in {NoMatch, Current(r)}
=============================================================================

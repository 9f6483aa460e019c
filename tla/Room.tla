-------------------------------- MODULE Room --------------------------------
(***************************************************************************)
(* One room: server/internal/room/room.go.  Its members in join order, its *)
(* host and the handover of the room when the host is gone, its capacity   *)
(* and settings lock, and the matches played in it, one after another.     *)
(*                                                                         *)
(* The Go value is the record `room'; the operators on it are the          *)
(* unexported methods.  The match inside it is what Roster shows of Game.  *)
(* Every command first calls Tick, which sees to the match before it sees  *)
(* to the host's timer: hence no command while that timer has run out, and *)
(* the match may still move then.                                          *)
(*                                                                         *)
(* Left out: codes, categories and hint times, the version (it counts the  *)
(* changes), the notice of the latest handover (nothing reads it), and the *)
(* length of the host's timer: it is off, running or due.                  *)
(***************************************************************************)
EXTENDS Integers, Sequences, FiniteSets, FiniteSetsExt

\* A definition whose name begins with Bug is a plausible mistake in the one that follows it;
\* nothing uses it, and putting it in place breaks one of the properties below.

CONSTANTS
    Players,
    MinPlayers, \* members needed to start a match
    MaxPlayers, \* the largest capacity a host may choose
    None        \* no player

ASSUME NoneAssumption == None \notin Players
ASSUME CapacityAssumption == MinPlayers \in Nat \ {0} /\ MaxPlayers \in Nat /\ MinPlayers <= MaxPlayers

VARIABLES
    room,
    present, online, over   \* the match: see Roster

match == <<present, online, over>>
vars == <<room, present, online, over>>

Match == INSTANCE Roster

Capacities == MinPlayers .. MaxPlayers

Members(r) == {r.members[i] : i \in DOMAIN r.members}

-----------------------------------------------------------------------------
(* The host *)

BugTransferToFirst(r, reason) ==
    LET to == IF r.members = <<>> THEN None ELSE r.members[1]
    IN  [r EXCEPT !.host = to, !.pending = None,
                  !.hostTimer = IF to \in r.connected \cup {None} THEN "off" ELSE "running"]

\* To the connected member who has been here longest, never back to the one being replaced.
TransferHost(r, reason) ==
    LET from == IF r.host # None THEN r.host ELSE r.pending
        cleared == [r EXCEPT !.hostTimer = "off", !.pending = None]
        ready == {i \in DOMAIN r.members : r.members[i] \in r.connected \ {from}}
        HandTo(to) ==
            [cleared EXCEPT !.host = to,
                            !.hostTimer = IF to \in r.connected THEN "off" ELSE "running"]
    IN  IF ready # {} THEN HandTo(r.members[Min(ready)])
        ELSE IF reason = "host_timeout" THEN [cleared EXCEPT !.host = None, !.pending = from]
        ELSE IF r.members = <<>> THEN [cleared EXCEPT !.host = None]
        ELSE HandTo(r.members[1])

\* The n-th smallest of a set of positions.
Nth(places, n) == CHOOSE i \in places : Cardinality({j \in places : j <= i}) = n

\* The members who stay keep their order.
RemoveMembers(r, gone) ==
    LET stay == {i \in DOMAIN r.members : r.members[i] \notin gone}
    IN  [r EXCEPT !.members = [n \in 1 .. Cardinality(stay) |-> r.members[Nth(stay, n)]],
                  !.connected = @ \ gone]

\* The loop of the code hands the room on at every player it takes out who is host by then;
\* MCRoom compares where that ends with the single handover here.
Expelled(r, gone) ==
    LET left == RemoveMembers(r, gone)
    IN  IF r.host \in gone THEN TransferHost(left, "host_removed") ELSE left

\* `gone' are the players the match removed; Leave has taken out those who walked away.
SyncGame(r, gone) == [Expelled(r, gone) EXCEPT !.inGame = @ /\ ~over']

-----------------------------------------------------------------------------
NewRoom(p, capacity) ==
    [members |-> <<p>>,
     connected |-> {p},
     host |-> p,
     hostTimer |-> "off",
     pending |-> None,      \* hostPendingFrom
     capacity |-> capacity,
     locked |-> FALSE,
     inGame |-> FALSE]

Init ==
    /\ \E p \in Players, capacity \in Capacities : room = NewRoom(p, capacity)
    /\ present = {}
    /\ online = {}
    /\ over = TRUE

(* Time: Tick *)

\* The match moves on, by its own clock or by a command of one of its players (WithGame).
MatchMoves ==
    /\ room.inGame
    /\ \E gone \in SUBSET (present \ online) : Match!Remove(gone) /\ room' = SyncGame(room, gone)

HostTimerRuns ==
    /\ room.hostTimer = "running"
    /\ room' = [room EXCEPT !.hostTimer = "due"]
    /\ UNCHANGED match

HostTimeout ==
    /\ room.hostTimer = "due"
    /\ room' = TransferHost(room, "host_timeout")
    /\ UNCHANGED match

(* Commands *)

Settled == room.hostTimer # "due"

Join(p) ==
    /\ Settled
    /\ p \notin Members(room)
    /\ ~room.inGame
    /\ Len(room.members) < room.capacity
    /\ LET joined == [room EXCEPT !.members = Append(@, p), !.connected = @ \cup {p}, !.locked = TRUE]
       IN  room' = IF room.pending # None THEN TransferHost(joined, "host_timeout")
                   ELSE IF room.host = None THEN [joined EXCEPT !.host = p]
                   ELSE joined
    /\ UNCHANGED match

HostInLobby(p) == Settled /\ p = room.host /\ p \in Members(room) /\ ~room.inGame

BugUpdateSettingsUnlocked(p, capacity) ==
    HostInLobby(p) /\ room' = [room EXCEPT !.capacity = capacity] /\ UNCHANGED match

UpdateSettings(p, capacity) ==
    /\ HostInLobby(p)
    /\ ~room.locked
    /\ room' = [room EXCEPT !.capacity = capacity]
    /\ UNCHANGED match

Kick(p, other) ==
    /\ HostInLobby(p)
    /\ other \in Members(room) \ {p}
    /\ room' = RemoveMembers(room, {other})
    /\ UNCHANGED match

\* Everyone is dealt in; game.MarkOffline tells the match who is offline.
StartMatch ==
    /\ Len(room.members) >= MinPlayers
    /\ room' = [room EXCEPT !.inGame = TRUE]
    /\ present' = Members(room)
    /\ online' = room.connected
    /\ over' = FALSE

Start(p) == HostInLobby(p) /\ StartMatch

\* The server starts the rooms of online matches.
StartByServer == Settled /\ ~room.inGame /\ StartMatch

Leave(p) ==
    /\ Settled
    /\ p \in Members(room)
    /\ IF room.inGame THEN Match!Walk(p) ELSE UNCHANGED match
    /\ LET left == RemoveMembers(room, {p})
           handed == IF p = room.host THEN TransferHost(left, "host_left") ELSE left
       IN  room' = SyncGame(handed, {})

(* The connection *)

BugDisconnectUntimed(p) ==
    /\ Settled
    /\ p \in Members(room) \cap room.connected
    /\ IF room.inGame THEN Match!Drop(p) ELSE UNCHANGED match
    /\ room' = SyncGame([room EXCEPT !.connected = @ \ {p}], {})

Disconnect(p) ==
    /\ Settled
    /\ p \in Members(room) \cap room.connected
    /\ IF room.inGame THEN Match!Drop(p) ELSE UNCHANGED match
    /\ LET dropped == [room EXCEPT !.connected = @ \ {p},
                                   !.hostTimer = IF p = room.host THEN "running" ELSE @]
       IN  room' = SyncGame(dropped, {})

BugReconnectLobbyOnly(p) ==
    /\ Settled
    /\ p \in Members(room) \ room.connected
    /\ LET back == [room EXCEPT !.connected = @ \cup {p}]
       IN  room' = IF room.pending \notin {None, p} THEN TransferHost(back, "host_timeout")
                   ELSE IF room.pending = None /\ p = room.host THEN [back EXCEPT !.hostTimer = "off"]
                   ELSE back
    /\ UNCHANGED match

BugReconnectHostless(p) ==
    /\ Settled
    /\ p \in Members(room) \ room.connected
    /\ IF room.inGame THEN Match!Return(p) ELSE UNCHANGED match
    /\ LET back == [room EXCEPT !.connected = @ \cup {p},
                                !.hostTimer = IF p = room.host THEN "off" ELSE @]
       IN  room' = SyncGame(back, {})

Reconnect(p) ==
    /\ Settled
    /\ p \in Members(room) \ room.connected
    /\ IF room.inGame THEN Match!Return(p) ELSE UNCHANGED match
    /\ LET back == [room EXCEPT !.connected = @ \cup {p}]
           led == IF room.pending \notin {None, p} THEN TransferHost(back, "host_timeout")
                  ELSE IF room.pending = None /\ p = room.host THEN [back EXCEPT !.hostTimer = "off"]
                  ELSE back
       IN  room' = SyncGame(led, {})

Next ==
    \/ MatchMoves \/ HostTimerRuns \/ HostTimeout \/ StartByServer
    \/ \E p \in Players :
          \/ Join(p) \/ Leave(p) \/ Disconnect(p) \/ Reconnect(p) \/ Start(p)
          \/ \E capacity \in Capacities : UpdateSettings(p, capacity)
          \/ \E other \in Players : Kick(p, other)

Spec == Init /\ [][Next]_vars

\* Deadline() arms a timer for the host, and Tick fires it.
FairSpec == Spec /\ WF_vars(HostTimerRuns) /\ WF_vars(HostTimeout)
-----------------------------------------------------------------------------
Rooms ==
    [members : Seq(Players),
     connected : SUBSET Players,
     host : Players \cup {None},
     hostTimer : {"off", "running", "due"},
     pending : Players \cup {None},
     capacity : Capacities,
     locked : BOOLEAN,
     inGame : BOOLEAN]

\* The room has the shape of the Go struct, no player is in it twice, and who is connected to
\* it is a member.
TypeOK ==
    /\ room \in Rooms
    /\ present \subseteq Players /\ online \subseteq present /\ over \in BOOLEAN
    /\ \A i, j \in DOMAIN room.members : room.members[i] = room.members[j] => i = j
    /\ room.connected \subseteq Members(room)

\* Through every leave, kick, removal and drop the host is a member; a room has no host only
\* when it is empty, or while nobody is connected but the one who lost it (hostPendingFrom).
RoomHasHost ==
    IF room.host # None THEN room.host \in Members(room) /\ room.pending = None
    ELSE room.members = <<>> \/ (room.pending # None /\ room.connected \subseteq {room.pending})

\* The host's timer runs exactly while the host is away, a host who was given the room while
\* offline included: nobody who is back loses the room to it, no absent host keeps the room.
AbsentHostIsTimed == room.hostTimer # "off" <=> room.host # None /\ room.host \notin room.connected

\* While a match runs, the room and the match agree on who is in it and who is online, so
\* that no member is turned away by the match and none watches a match from a lobby.
SeatedTogether ==
    room.inGame => ~over /\ Members(room) = present /\ room.connected = online

\* The settings lock keeps a host from choosing a capacity the room has outgrown.
RoomFits == Len(room.members) <= room.capacity

\* A host who is connected loses the room only by going; it then passes to the connected
\* member who has been here longest, else, unless the host merely timed out, to whoever has
\* been here longest; and never back to the one being replaced (the comment at transferHost).
HandoverIsFair ==
    [][/\ room.host \in room.connected /\ room.host \in Members(room') => room'.host = room.host
       /\ room'.host \notin {None, room.host} =>
             LET ready == {i \in DOMAIN room'.members :
                              room'.members[i] \in room'.connected \ {room.pending}}
             IN  /\ room'.host = room'.members[IF ready = {} THEN 1 ELSE Min(ready)]
                 /\ room'.host # room.pending]_vars

\* A host who stays away is replaced, or the room waits for somebody to take it.
AbsentHostIsReplaced ==
    \A p \in Players : room.host = p /\ p \notin room.connected ~> room.host # p \/ p \in room.connected
=============================================================================

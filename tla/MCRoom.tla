------------------------------- MODULE MCRoom -------------------------------
EXTENDS Room, SequencesExt

\* The loop of syncGame (room.go:496-513): one removed player after the other, in the order
\* of the turns of the match, each with a handover of its own.
Expel(r, p) ==
    LET left == RemoveMembers(r, {p})
    IN  IF p = r.host THEN TransferHost(left, "host_removed") ELSE left

\* The rooms of a running match with these members: hosted by one of them, or waiting for
\* somebody other than the one who lost it.
RoomsOf(members) ==
    LET all == Range(members)
    IN  {[members |-> members, connected |-> connected, host |-> lead[1], pending |-> lead[2],
          hostTimer |-> IF lead[1] \in connected \cup {None} THEN "off" ELSE "running",
          capacity |-> MaxPlayers, locked |-> TRUE, inGame |-> TRUE] :
            connected \in SUBSET all, lead \in (all \X {None}) \cup ({None} \X all)}

\* In whatever order the removed players come, one after the other they leave the room as
\* Expelled has them leave it at once (room.go:496-513).
ASSUME SyncIsTheLoop ==
    \A all \in SUBSET Players : \A members \in SetToSeqs(all) : \A r \in RoomsOf(members) :
       \A gone \in SUBSET all : \A turns \in SetToSeqs(gone) :
          FoldLeft(Expel, r, turns) = Expelled(r, gone)

-----------------------------------------------------------------------------
\* The comment at Join (room.go:172-173): a player who joins a room that everyone left becomes
\* its host.
EmptiedRoomGetsHost ==
    [][room.members = <<>> /\ room'.members # <<>> => room'.host \in Members(room')]_vars
=============================================================================

------------------------------- MODULE Roster -------------------------------
(***************************************************************************)
(* What a match shows of itself to the room it is played in: which of the  *)
(* players dealt in are still part of it, which of those it takes to be    *)
(* online, and whether it is over.  Game implements this specification and *)
(* Room is built on it, so that what is checked of a room holds with the   *)
(* match of Game inside it.                                                *)
(***************************************************************************)
EXTENDS FiniteSets

VARIABLES
    present,    \* players who play or watch
    online,     \* those of them with a connection
    over

vars == <<present, online, over>>

Init ==
    /\ present # {}
    /\ online \in SUBSET present
    /\ over = FALSE

\* Any step of a match may be its last; a match without players is over.
MayEnd == over' \in BOOLEAN /\ (over' \/ present' # {})

\* Commands and timeouts that take nobody out.
Play ==
    /\ ~over
    /\ UNCHANGED <<present, online>>
    /\ MayEnd

Walk(p) ==
    /\ ~over
    /\ p \in present
    /\ present' = present \ {p}
    /\ online' = online \ {p}
    /\ MayEnd

\* Removed for repeated disconnects, and therefore offline.
Remove(gone) ==
    /\ ~over
    /\ gone \subseteq present \ online
    /\ present' = present \ gone
    /\ UNCHANGED online
    /\ MayEnd

\* Spectators and the players of a finished match drop and return too.
Drop(p) ==
    /\ p \in online
    /\ online' = online \ {p}
    /\ UNCHANGED present
    /\ IF over THEN UNCHANGED over ELSE MayEnd

Return(p) ==
    /\ p \in present \ online
    /\ online' = online \cup {p}
    /\ UNCHANGED present
    /\ IF over THEN UNCHANGED over ELSE MayEnd

Next ==
    \/ Play
    \/ \E p \in present : Walk(p) \/ Drop(p) \/ Return(p)
    \/ \E gone \in (SUBSET (present \ online)) \ {{}} : Remove(gone)

Spec == Init /\ [][Next]_vars
=============================================================================

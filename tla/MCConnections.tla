--------------------------- MODULE MCConnections ---------------------------
EXTENDS Connections, TLC

Symmetry == Permutations(Players) \cup Permutations(Sockets) \cup Permutations(Rooms)

-----------------------------------------------------------------------------
\* The comment at session.gameID (api.go:90-93): a session shows a match from its start until
\* the player leaves it or returns to the lobby.
ShownUntilLeft ==
    [][\A p \in Players :
          LET match == session[p].match
          IN  match # NoMatch /\ session'[p].match = NoMatch =>
                 p \notin rooms'[match.room].members \/ IsOver(match)]_vars
=============================================================================

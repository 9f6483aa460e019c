------------------------------- MODULE MCGame -------------------------------
EXTENDS Game

\* A hint turn is the longest phase, as in the code: a player can drop and return within it.
Short == [p \in TimedPhases |-> IF p = "hints" THEN 2 ELSE 1]
=============================================================================

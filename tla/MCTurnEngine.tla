---------------------------- MODULE MCTurnEngine ----------------------------
(* Who sits where, for the runs of TurnEngine.                             *)
EXTENDS TurnEngine

Seated == [p \in Seats |-> CASE p = 0 -> "pathfinder"
                             [] p = 1 -> "ancient_knowledge"
                             [] OTHER -> "other"]
=============================================================================

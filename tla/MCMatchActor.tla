---------------------------- MODULE MCMatchActor ----------------------------
(* The instances of MatchActor that the actor_* runs check.                *)
EXTENDS MatchActor
=============================================================================

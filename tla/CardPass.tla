----------------------------- MODULE CardPass -------------------------------
(***************************************************************************)
(* What a shuffled deck promises to the players: its cards come in passes. *)
(* Within a pass every card comes up at most once; a new pass begins only  *)
(* when all cards of the old one have come up, and the cards that are out  *)
(* then, on the table or in somebody's hand, are not part of it.           *)
(***************************************************************************)
EXTENDS Naturals

CONSTANT Cards

VARIABLES
  left,   \* the cards that are still to come up in this pass
  out     \* the cards that have come up and not been put back

vars == <<left, out>>

Init == left \subseteq Cards /\ out = {}

\* Cards come up; some may be put back at once.
Draw ==
  /\ left' \subseteq left /\ left' # left
  /\ out' \subseteq out \cup (left \ left')

\* Cards that were out are put back.
Return == left' = left /\ out' \subseteq out

\* The last cards of a pass have come up and a new one begins.
NewPass ==
  /\ left \cap left' = {}
  /\ left' \subseteq Cards \ (out \cup out')
  /\ out \subseteq out' /\ out' \subseteq Cards

Next == Draw \/ Return \/ NewPass

Spec == Init /\ [][Next]_vars
=============================================================================

---------------------------- MODULE SerialServer ----------------------------
(***************************************************************************)
(* What the registry and the actors of a match are to the goroutines that  *)
(* call them: one server that takes the calls one at a time.  It may be    *)
(* replaced between two calls; what was asked of it and not yet taken is   *)
(* dropped then, and never answered by its successor.                      *)
(***************************************************************************)
CONSTANTS
  Callers,
  Nobody   \* the server is idle

VARIABLES
  waiting,  \* the callers whose call has not been taken
  served,   \* the caller whose call is being handled
  dropped   \* the callers whose call will never be handled

vars == <<waiting, served, dropped>>

Init == waiting = {} /\ served = Nobody /\ dropped = {}

Ask(c) ==
  /\ c \notin waiting \cup dropped \cup {served}
  /\ \/ waiting' = waiting \cup {c} /\ UNCHANGED dropped
     \/ dropped' = dropped \cup {c} /\ UNCHANGED waiting
  /\ UNCHANGED served

Take(c) ==
  /\ served = Nobody /\ c \in waiting
  /\ served' = c /\ waiting' = waiting \ {c}
  /\ UNCHANGED dropped

Answer == served # Nobody /\ served' = Nobody /\ UNCHANGED <<waiting, dropped>>

Replace ==
  /\ served = Nobody
  /\ dropped' = dropped \cup waiting /\ waiting' = {}
  /\ UNCHANGED served

Next == (\E c \in Callers : Ask(c) \/ Take(c)) \/ Answer \/ Replace

Spec == Init /\ [][Next]_vars
=============================================================================

------------------------------ MODULE MatchLog ------------------------------
(***************************************************************************)
(* What a match promises to the people at the table, whatever happens to   *)
(* the process that runs it: there is one append-only log of events,       *)
(* ordered by sequence number; nothing follows the event that ends the     *)
(* match; and a player is only ever shown events that are in the log, so   *)
(* that nothing a player has seen can be taken back.  MatchActor is shown  *)
(* to implement this module as long as the store accepts its writes.       *)
(***************************************************************************)
EXTENDS Naturals

VARIABLES
  log,     \* the durable events, records with the fields seq and end
  shown    \* the events some client has been sent

vars == <<log, shown>>

Ended == \E r \in log : r.end

Init == log = {} /\ shown = {}

\* A decision becomes durable: its events follow everything already logged.
Commit ==
  /\ ~ Ended
  /\ log \subseteq log'
  /\ \A r \in log, q \in log' \ log : r.seq < q.seq
  /\ UNCHANGED shown

\* Some client is sent a part of the log.
Show ==
  /\ shown \subseteq shown'
  /\ shown' \subseteq log
  /\ UNCHANGED log

Next == Commit \/ Show

Spec == Init /\ [][Next]_vars
=============================================================================

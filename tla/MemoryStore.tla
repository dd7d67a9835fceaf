---------------------------- MODULE MemoryStore -----------------------------
(***************************************************************************)
(* The store the tests of the server run on (internal/store/memory.go):    *)
(* the tables of one match.  Every operation runs under the store's mutex, *)
(* so that each is one step.  Of the snapshots only the last one appended  *)
(* can be read, and only that one is kept here.  An event is its number.   *)
(***************************************************************************)
EXTENDS Naturals, Sequences

CONSTANTS
  MaxSeq,    \* bound on event numbers
  Players,
  States,    \* what a snapshot may hold
  Missed     \* counts of missed turns

VARIABLES
  status,    \* of the match; "none" without a row
  events,    \* m.events
  latest,    \* number and state of the last snapshot, or <<>>
  deadline,  \* player and missed turns of the deadline, or <<>>
  call       \* the last operation that returned without an error, and its result

vars == <<status, events, latest, deadline, call>>

Init ==
  /\ status = "none" /\ events = <<>> /\ latest = <<>> /\ deadline = <<>>
  /\ call = <<>>

CreateMatch ==
  /\ status = "none" /\ status' = "active" /\ call' = <<"CreateMatch">>
  /\ UNCHANGED <<events, latest, deadline>>

UpdateMatchStatus(s) ==
  /\ status # "none" /\ status' = s /\ call' = <<"UpdateMatchStatus", s>>
  /\ UNCHANGED <<events, latest, deadline>>

\* The events numbered from first to last, all or none; the caller may be gone,
\* or have heard of an error, when they are in.
AppendEvents(first, last) ==
  /\ events # <<>> => first > events[Len(events)]
  /\ events' = events \o [i \in 1 .. last + 1 - first |-> first + i - 1]
  /\ call' = <<"AppendEvents", first, last>> \/ UNCHANGED call
  /\ UNCHANGED <<status, latest, deadline>>

SaveSnapshot(n, s) ==
  /\ latest' = <<n, s>> /\ call' = <<"SaveSnapshot", n, s>>
  /\ UNCHANGED <<status, events, deadline>>

SetTurnDeadline(p, m) ==
  /\ deadline' = <<p, m>> /\ call' = <<"SetTurnDeadline", p, m>>
  /\ UNCHANGED <<status, events, latest>>

ClearTurnDeadline ==
  /\ deadline' = <<>> /\ call' = <<"ClearTurnDeadline">>
  /\ UNCHANGED <<status, events, latest>>

\* The queries change nothing.
Returns(c) == call' = c /\ UNCHANGED <<status, events, latest, deadline>>
LoadEvents(n) == Returns(<<"LoadEvents", n, SelectSeq(events, LAMBDA e : e > n)>>)
LoadLatestSnapshot == Returns(<<"LoadLatestSnapshot", latest>>)
GetTurnDeadline == Returns(<<"GetTurnDeadline", deadline>>)

Next ==
  \/ CreateMatch \/ \E s \in {"active", "over"} : UpdateMatchStatus(s)
  \/ \E first \in 1 .. MaxSeq : \E last \in first .. MaxSeq : AppendEvents(first, last)
  \/ \E n \in 0 .. MaxSeq, s \in States : SaveSnapshot(n, s)
  \/ \E p \in Players, m \in Missed : SetTurnDeadline(p, m)
  \/ ClearTurnDeadline
  \/ \E n \in 0 .. MaxSeq : LoadEvents(n)
  \/ LoadLatestSnapshot \/ GetTurnDeadline

Spec == Init /\ [][Next]_vars
=============================================================================

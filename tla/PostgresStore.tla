--------------------------- MODULE PostgresStore ----------------------------
(***************************************************************************)
(* The store of a deployed server (internal/store/postgres.go and its      *)
(* migration), under what the server does with one match: its actor        *)
(* appends events and snapshots, the registry restores it after a crash,   *)
(* the scheduler keeps its deadline, and requests read meanwhile.          *)
(*                                                                         *)
(* AppendEvents is a transaction of one INSERT per event.  What it has     *)
(* inserted is seen by nobody else before it commits.  The server may die  *)
(* at any moment; the database then finishes with its transaction, rolled  *)
(* back unless the COMMIT had reached it, before the match is loaded.      *)
(***************************************************************************)
EXTENDS Naturals, FiniteSetsExt, SequencesExt

CONSTANTS MaxSeq, MaxBatch, Players, States, Missed

VARIABLES
  status,     \* matches.status; "none" without a row
  rows,       \* match_events, committed
  snapshots,  \* match_snapshots
  deadline,   \* the row of turn_deadlines, or <<>>
  up,         \* the match has an actor
  seq,        \* its eventSeq
  batch,      \* the numbers it is appending; {} between two transactions
  inserted,   \* those its transaction has inserted
  call        \* the last operation that returned without an error, and its result

vars == <<status, rows, snapshots, deadline, up, seq, batch, inserted, call>>
tables == <<status, rows, snapshots, deadline>>

Init ==
  /\ status = "none" /\ rows = {} /\ snapshots = {} /\ deadline = <<>>
  /\ up = FALSE /\ seq = 0 /\ batch = {} /\ inserted = {} /\ call = <<>>

-----------------------------------------------------------------------------
(* The actor and the registry.                                             *)

CreateMatch ==
  /\ ~ up /\ status = "none"
  /\ status' = "active" /\ up' = TRUE /\ call' = <<"CreateMatch">>
  /\ UNCHANGED <<rows, snapshots, deadline, seq, batch, inserted>>

Idle == up /\ batch = {}

\* The actor numbers the events before it writes them.
Begin(n) ==
  /\ Idle /\ seq + n <= MaxSeq
  /\ batch' = seq + 1 .. seq + n /\ seq' = seq + n
  /\ UNCHANGED <<tables, up, inserted, call>>

\* (match_id, seq) is the primary key.
Insert ==
  /\ batch \ inserted # {}
  /\ LET e == Min(batch \ inserted)
     IN e \notin rows /\ inserted' = inserted \cup {e}
  /\ UNCHANGED <<tables, up, seq, batch, call>>

End == batch' = {} /\ inserted' = {}

\* The answer to COMMIT may be lost: the actor gets an error all the same.
Commit ==
  /\ batch # {} /\ inserted = batch
  /\ rows' = rows \cup inserted /\ End
  /\ call' = <<"AppendEvents", Min(batch), Max(batch)>> \/ UNCHANGED call
  /\ UNCHANGED <<status, snapshots, deadline, up, seq>>

\* Any statement fails; the actor gets an error and keeps its seq.
Rollback ==
  /\ batch # {} /\ End
  /\ UNCHANGED <<tables, up, seq, call>>

\* ON CONFLICT (match_id, seq) DO UPDATE
Upserted_DoNothing(s) ==                                           \* mutant
  IF \E r \in snapshots : r.seq = seq THEN snapshots
  ELSE snapshots \cup {[seq |-> seq, state |-> s]}
Upserted(s) ==
  {r \in snapshots : r.seq # seq} \cup {[seq |-> seq, state |-> s]}

SaveSnapshot(s) ==
  /\ Idle /\ snapshots' = Upserted(s) /\ call' = <<"SaveSnapshot", seq, s>>
  /\ UNCHANGED <<status, rows, deadline, up, seq, batch, inserted>>

UpdateMatchStatus(s) ==
  /\ Idle /\ status' = s /\ call' = <<"UpdateMatchStatus", s>>
  /\ UNCHANGED <<rows, snapshots, deadline, up, seq, batch, inserted>>

Crash ==
  /\ up /\ up' = FALSE /\ seq' = 0 /\ End
  /\ \/ UNCHANGED rows
     \/ batch # {} /\ inserted = batch /\ rows' = rows \cup inserted
  /\ UNCHANGED <<status, snapshots, deadline, call>>

Latest == IF snapshots = {} THEN <<>>
          ELSE LET r == CHOOSE r \in snapshots : \A q \in snapshots : q.seq <= r.seq
               IN <<r.seq, r.state>>
After(n) == {e \in rows : e > n}
InOrder(S) == SetToSortSeq(S, <)

\* The last event after the latest snapshot, or else the snapshot, says how far
\* the match is.
Resumed_LogOnly == Max(rows \cup {0})                              \* mutant
Resumed == LET n == IF Latest = <<>> THEN 0 ELSE Latest[1]
           IN Max(After(n) \cup {n})
GetOrLoad ==
  /\ ~ up /\ status # "none"
  /\ up' = TRUE /\ seq' = Resumed
  /\ UNCHANGED <<tables, batch, inserted, call>>

-----------------------------------------------------------------------------
(* The scheduler and the requests, at any time.  turn_deadlines refers to  *)
(* matches.                                                                *)

SetTurnDeadline(p, m) ==
  /\ status # "none" /\ deadline' = <<p, m>> /\ call' = <<"SetTurnDeadline", p, m>>
  /\ UNCHANGED <<status, rows, snapshots, up, seq, batch, inserted>>

ClearTurnDeadline ==
  /\ deadline' = <<>> /\ call' = <<"ClearTurnDeadline">>
  /\ UNCHANGED <<status, rows, snapshots, up, seq, batch, inserted>>

\* The queries change nothing.
Returns(c) == call' = c /\ UNCHANGED <<tables, up, seq, batch, inserted>>
LoadEvents(n) == Returns(<<"LoadEvents", n, InOrder(After(n))>>)
LoadLatestSnapshot == Returns(<<"LoadLatestSnapshot", Latest>>)
GetTurnDeadline == Returns(<<"GetTurnDeadline", deadline>>)

-----------------------------------------------------------------------------
Next ==
  \/ CreateMatch \/ (\E n \in 1 .. MaxBatch : Begin(n)) \/ Insert \/ Commit
  \/ Rollback \/ (\E s \in States : SaveSnapshot(s))
  \/ (\E s \in {"active", "over"} : UpdateMatchStatus(s)) \/ Crash \/ GetOrLoad
  \/ (\E p \in Players, m \in Missed : SetTurnDeadline(p, m)) \/ ClearTurnDeadline
  \/ (\E n \in 0 .. MaxSeq : LoadEvents(n)) \/ LoadLatestSnapshot \/ GetTurnDeadline

Spec == Init /\ [][Next]_vars

-----------------------------------------------------------------------------
\* What is true of the server on the store of its tests is true of it on the
\* database: a transaction is seen whole or not at all over crashes and failed
\* statements, and the snapshot with the highest number, which GetOrLoad takes,
\* is always the one saved last, because a restored match never counts back
\* behind it.
Memory == INSTANCE MemoryStore WITH
  events <- InOrder(rows),
  latest <- Latest
ImplementsMemoryStore == Memory!Spec
=============================================================================

-------------------------- MODULE MatchActorProofs --------------------------
(***************************************************************************)
(* Proofs about MatchActor for every value of its constants.               *)
(***************************************************************************)
EXTENDS MatchActor, TLAPS

USE NatAssumption, ServerAssumption

\* What EventsOf makes: well-formed events numbered behind seq.
LEMMA EventsOfFacts ==
  ASSUME seq \in Nat,
         NEW p \in Players \cup {Server}, NEW c \in Nat, NEW n \in Nat,
         NEW d \in Nat, NEW end \in BOOLEAN
  PROVE  /\ EventsOf(p, c, n, d, end) \subseteq Record
         /\ \A q \in EventsOf(p, c, n, d, end) : seq < q.seq /\ q.seq <= seq + n
<1> SUFFICES ASSUME NEW q \in EventsOf(p, c, n, d, end)
             PROVE  q \in Record /\ seq < q.seq /\ q.seq <= seq + n
  OBVIOUS
<1>1. PICK s \in seq + 1 .. seq + n :
        q = [seq |-> s, first |-> seq + 1, by |-> p, cseq |-> c, draw |-> d,
             end |-> end /\ s = seq + n]
  BY DEF EventsOf
<1>2. s \in Nat /\ seq + 1 \in Nat /\ seq < s /\ s <= seq + n
  OBVIOUS
<1>3. (end /\ s = seq + n) \in BOOLEAN
  OBVIOUS
<1>4. q \in Record
  BY <1>1, <1>2, <1>3, Zenon DEF Record
<1> QED BY <1>1, <1>2, <1>4

LEMMA TypeOKInit == Init => TypeOK
<1> SUFFICES ASSUME Init PROVE TypeOK
  OBVIOUS
<1>1. snap \in [seq : Nat, hist : SUBSET Record, rng : Nat]
  <2>1. {} \in SUBSET Record /\ 0 \in Nat  OBVIOUS
  <2> QED BY <2>1, Zenon DEF Init, NoSnap
<1> QED BY <1>1 DEF Init, TypeOK

LEMMA DecidedType ==
  ASSUME TypeOK, NEW p \in Players, NEW c \in Nat, NEW n \in 1 .. MaxBatch,
         NEW d \in {0, 1}, NEW end \in BOOLEAN, Decided(p, c, n, d, end)
  PROVE  /\ rng' \in Nat /\ seq' \in Nat
         /\ batch' \subseteq Record /\ hist' \subseteq Record
<1> DEFINE draw == IF d = 0 THEN 0 ELSE rng'
<1>1. rng' \in Nat /\ seq' \in Nat /\ draw \in Nat
  BY DEF Decided, TypeOK
<1>2. EventsOf(p, c, n, draw, end) \subseteq Record
  BY <1>1, EventsOfFacts DEF TypeOK
<1> QED BY <1>1, <1>2 DEF Decided, TypeOK

LEMMA TypeOKNext == TypeOK /\ [Next]_vars => TypeOK'
<1> SUFFICES ASSUME TypeOK, [Next]_vars PROVE TypeOK'
  OBVIOUS
<1> USE DEF TypeOK, store, memory, budget
<1>1. ASSUME NEW n \in 1 .. MaxBatch, NEW d \in {0, 1}, CreateMatch(n, d)
      PROVE TypeOK'
  <2>1. EventsOf(Server, 0, n, d, FALSE) \subseteq Record
    <3>1. /\ seq \in Nat /\ 0 \in Nat /\ n \in Nat /\ d \in Nat
          /\ Server \in Players \cup {Server}
      OBVIOUS
    <3>2. FALSE \in BOOLEAN
      OBVIOUS
    <3> QED BY <3>1, <3>2, EventsOfFacts, Zenon
  <2>2. batch' \subseteq Record /\ hist' \subseteq Record
    BY <1>1, <2>1, Zenon DEF CreateMatch
  <2>3. UNCHANGED <<log, snap, board, lastSeq, timer, shown, budget>>
        /\ status' = "active" /\ pc' = "start" /\ seq' = n /\ rng' = d
    BY <1>1 DEF CreateMatch
  <2> QED BY <2>2, <2>3
<1>2. CASE StartAppend
  <2>1. lost' \in BOOLEAN
    BY <1>2, Zenon DEF StartAppend
  <2>2. log' \subseteq Record /\ failures' \in Nat
        /\ stops' = stops /\ crashes' = crashes
    BY <1>2 DEF StartAppend, Fails
  <2> QED BY <1>2, <2>1, <2>2 DEF StartAppend
<1>3. CASE StartSnapshot
  BY <1>3 DEF StartSnapshot, SaveSnapshot, SnapshotRow, Fails
<1>4. ASSUME NEW p \in Players, NEW c \in 1 .. MaxClientSeq, Command(p, c)
      PROVE TypeOK'
  BY <1>4, DecidedType DEF Command, Decided
<1>5. ASSUME NEW p \in Players, TurnTimeout(p) PROVE TypeOK'
  BY <1>5, DecidedType DEF TurnTimeout, Decided
<1>6. CASE Append  BY <1>6 DEF Append
<1>7. CASE AppendFails  BY <1>7 DEF AppendFails
<1>8. CASE Snapshot  BY <1>8 DEF Snapshot, SaveSnapshot, SnapshotRow, Fails
<1>9. CASE FinishMatch  BY <1>9 DEF FinishMatch, Fails
<1>10. CASE AddLeaderboard  BY <1>10 DEF AddLeaderboard, Fails
<1>11. CASE Broadcast  BY <1>11 DEF Broadcast, RearmedTimer
<1>12. ASSUME NEW l \in 0 .. MaxSeq, Sync(l) PROVE TypeOK'
  BY <1>12 DEF Sync, LoadEvents, Fails
<1>13. CASE Stop  BY <1>13 DEF Stop, Vanish, SnapshotRow
<1>14. CASE Crash  BY <1>14 DEF Crash, Vanish
<1>15. CASE Load  BY <1>15 DEF Load, Replayed, RestoredRng, LoadEvents
<1>16. CASE UNCHANGED vars  BY <1>16 DEF vars
<1> QED
  BY <1>1, <1>2, <1>3, <1>4, <1>5, <1>6, <1>7, <1>8, <1>9, <1>10, <1>11,
     <1>12, <1>13, <1>14, <1>15, <1>16 DEF Next

\* Every variable keeps to its type, for every number of players, every batch
\* size and every bound.
THEOREM TypeCorrect == Spec => []TypeOK
BY TypeOKInit, TypeOKNext, PTL DEF Spec

-----------------------------------------------------------------------------
(* What the actions that decide events have in common.                     *)

\* A decision puts new events behind eventSeq and applies them in memory.
DecisionStep ==
  /\ pc = "idle" /\ pc' = "append" /\ ~ Over
  /\ hist' = hist \cup batch' /\ seq <= seq' /\ seq' \in Nat
  /\ batch' \subseteq Record
  /\ \A q \in batch' : seq < q.seq /\ q.seq <= seq'

\* An action that leaves the store, the clients and the actor's place alone.
QuietStep == UNCHANGED <<pc, hist, seq, batch>>

LEMMA DecidedFacts ==
  ASSUME TypeOK, NEW p \in Players, NEW c \in Nat, NEW n \in 1 .. MaxBatch,
         NEW d \in {0, 1}, NEW end \in BOOLEAN, Decided(p, c, n, d, end),
         pc = "idle", ~ Over
  PROVE  DecisionStep
<1> DEFINE draw == IF d = 0 THEN 0 ELSE rng'
<1>1. seq \in Nat /\ draw \in Nat
  BY DEF Decided, TypeOK
<1>2. /\ EventsOf(p, c, n, draw, end) \subseteq Record
      /\ \A q \in EventsOf(p, c, n, draw, end) : seq < q.seq /\ q.seq <= seq + n
  BY <1>1, EventsOfFacts
<1>3. batch' = EventsOf(p, c, n, draw, end) /\ seq' = seq + n
      /\ hist' = hist \cup batch' /\ pc' = "append"
  BY DEF Decided
<1> QED BY <1>1, <1>2, <1>3 DEF DecisionStep

LEMMA CommandFacts ==
  ASSUME TypeOK, NEW p \in Players, NEW c \in 1 .. MaxClientSeq, Command(p, c)
  PROVE  /\ UNCHANGED <<store, shown, budget>>
         /\ QuietStep \/ DecisionStep
BY DecidedFacts DEF Command, CanPlay, QuietStep

LEMMA TimeoutFacts ==
  ASSUME TypeOK, NEW p \in Players, TurnTimeout(p)
  PROVE  /\ UNCHANGED <<store, shown, budget>>
         /\ QuietStep \/ DecisionStep
BY DecidedFacts DEF TurnTimeout, QuietStep

\* CreateMatch numbers its events 1 .. n, and none of them ends the match.
LEMMA CreateFacts ==
  ASSUME TypeOK, SeqInv, NEW n \in 1 .. MaxBatch, NEW d \in {0, 1},
         CreateMatch(n, d)
  PROVE  /\ batch' \subseteq Record /\ hist' = batch' /\ pc' = "start"
         /\ seq' = n /\ status' = "active"
         /\ log = {} /\ snap.seq = 0 /\ snap.hist = {}
         /\ UNCHANGED <<log, snap, board, shown, budget>>
         /\ \A q \in batch' : 0 < q.seq /\ q.seq <= n /\ ~ q.end
<1>1. seq = 0 /\ log = {} /\ snap = NoSnap
  BY DEF CreateMatch, SeqInv
<1>2. batch' = EventsOf(Server, 0, n, d, FALSE)
  BY DEF CreateMatch
<1>3. /\ 0 \in Nat /\ n \in Nat /\ d \in Nat /\ seq \in Nat
      /\ Server \in Players \cup {Server}
  BY <1>1
<1>4. FALSE \in BOOLEAN
  OBVIOUS
<1>5. /\ batch' \subseteq Record
      /\ \A q \in batch' : seq < q.seq /\ q.seq <= seq + n
  BY <1>2, <1>3, <1>4, EventsOfFacts, Zenon
<1>6. ASSUME NEW q \in batch' PROVE ~ q.end
  <2>1. PICK s \in seq + 1 .. seq + n :
          q = [seq |-> s, first |-> seq + 1, by |-> Server, cseq |-> 0,
               draw |-> d, end |-> FALSE /\ s = seq + n]
    BY <1>2 DEF EventsOf
  <2>2. q.end = (FALSE /\ s = seq + n)
    BY <2>1, Zenon
  <2> QED BY <2>2
<1>7. snap.seq = 0 /\ snap.hist = {}
  BY <1>1, Zenon DEF NoSnap
<1>8. /\ hist' = batch' /\ pc' = "start" /\ seq' = n /\ status' = "active"
      /\ UNCHANGED <<log, snap, board, shown, budget>>
  BY DEF CreateMatch
<1> QED BY <1>1, <1>5, <1>6, <1>7, <1>8

\* The sequence numbers in the store are numbers.
LEMMA SeqTypes ==
  ASSUME TypeOK
  PROVE  /\ snap.seq \in Nat /\ seq \in Nat
         /\ \A r \in log : r.seq \in Nat
         /\ \A r \in batch : r.seq \in Nat
<1>1. \A r \in Record : r.seq \in Nat
  BY DEF Record
<1> QED BY <1>1 DEF TypeOK

\* What a restoration puts in memory.
LEMMA LoadFacts ==
  ASSUME Load
  PROVE  /\ pc = "down" /\ pc' = "idle"
         /\ hist' = snap.hist \cup {r \in log : r.seq > snap.seq}
         /\ UNCHANGED <<status, log, snap, board, batch, shown, lost>>
BY DEF Load, Replayed, LoadEvents, store, budget

\* A write that succeeds and one that fails, at the first append.
LEMMA StartAppendFacts ==
  ASSUME StartAppend
  PROVE  /\ pc = "start" /\ pc' = "startSnap"
         /\ \/ log' = log \cup batch /\ lost' = lost
            \/ log' \in {log, log \cup batch} /\ lost' = TRUE
         /\ UNCHANGED <<status, snap, board, hist, seq, batch, shown>>
<1>1. pc = "start" /\ pc' = "startSnap"
      /\ UNCHANGED <<status, snap, board, hist, seq, batch, shown>>
  BY DEF StartAppend
<1>2. \/ log' = log \cup batch /\ lost' = lost
      \/ log' \in {log, log \cup batch} /\ lost' = TRUE
  BY Zenon DEF StartAppend, budget
<1> QED BY <1>1, <1>2

\* An append that succeeds.
LEMMA AppendFacts ==
  ASSUME Append
  PROVE  /\ pc = "append" /\ pc' \in {"snapshot", "broadcast"}
         /\ log' = log \cup batch
         /\ UNCHANGED <<status, snap, board, hist, seq, batch, shown, lost>>
BY DEF Append, budget

\* What was appended in front of the snapshot stays there.
LEMMA Covered ==
  ASSUME TypeOK, SeqInv, pc \in {"start", "append"}
  PROVE  {r \in log \cup batch : r.seq <= snap.seq} = {r \in log : r.seq <= snap.seq}
<1>1. \A q \in batch : ~ (q.seq <= snap.seq)
  BY SeqTypes DEF SeqInv
<1> QED BY <1>1

-----------------------------------------------------------------------------
(* Each part of the inductive invariant is kept by every step.             *)

\* A decision keeps the order of the sequence numbers.
LEMMA DecisionSeqInv ==
  ASSUME TypeOK, SeqInv, DecisionStep, UNCHANGED <<status, log, snap>>
  PROVE  SeqInv'
<1>1. status # "none" /\ snap.seq <= seq /\ \A r \in log : r.seq <= seq
  BY DEF SeqInv, DecisionStep, Up
<1>2. seq <= seq' /\ seq' \in Nat
      /\ \A q \in batch' : q.seq \in Nat /\ seq < q.seq /\ q.seq <= seq'
  <2>1. \A r \in Record : r.seq \in Nat
    BY DEF Record
  <2> QED BY <2>1 DEF DecisionStep
<1>3. snap.seq <= seq' /\ \A r \in log : r.seq <= seq'
  BY <1>1, <1>2, SeqTypes
<1>4. \A q \in batch' : /\ snap.seq < q.seq /\ q.seq <= seq'
                        /\ \A r \in log : r.seq < q.seq
  BY <1>1, <1>2, SeqTypes
<1>5. snap' = snap /\ log' = log /\ status' = status /\ pc' = "append"
  BY DEF DecisionStep
<1> QED BY <1>1, <1>3, <1>4, <1>5 DEF SeqInv, Up

\* Sequence numbers stay ahead of the store.
LEMMA SeqInvNext ==
  ASSUME TypeOK, SeqInv, StateInv, [Next]_vars PROVE SeqInv'
<1> USE DEF TypeOK, SeqInv, StateInv, Up, Written, NoSnap, store, memory, budget
<1>1. ASSUME NEW n \in 1 .. MaxBatch, NEW d \in {0, 1}, CreateMatch(n, d)
      PROVE SeqInv'
  BY <1>1, CreateFacts
<1>2. CASE StartAppend
  BY <1>2 DEF StartAppend, Fails
<1>3. CASE StartSnapshot
  BY <1>3 DEF StartSnapshot, SaveSnapshot, SnapshotRow, Fails
<1>4. ASSUME NEW p \in Players, NEW c \in 1 .. MaxClientSeq, Command(p, c)
      PROVE SeqInv'
  <2>1. UNCHANGED <<status, log, snap>> /\ (QuietStep \/ DecisionStep)
    BY <1>4, CommandFacts DEF store
  <2>2. CASE QuietStep  BY <2>1, <2>2 DEF QuietStep
  <2>3. CASE DecisionStep  BY <2>1, <2>3, DecisionSeqInv
  <2> QED BY <2>1, <2>2, <2>3
<1>5. ASSUME NEW p \in Players, TurnTimeout(p) PROVE SeqInv'
  <2>1. UNCHANGED <<status, log, snap>> /\ (QuietStep \/ DecisionStep)
    BY <1>5, TimeoutFacts
  <2>2. CASE QuietStep  BY <2>1, <2>2 DEF QuietStep
  <2>3. CASE DecisionStep  BY <2>1, <2>3, DecisionSeqInv
  <2> QED BY <2>1, <2>2, <2>3
<1>6. CASE Append
  BY <1>6 DEF Append
<1>7. CASE AppendFails
  BY <1>7 DEF AppendFails
<1>8. CASE Snapshot
  BY <1>8 DEF Snapshot, SaveSnapshot, SnapshotRow, Fails
<1>9. CASE FinishMatch
  BY <1>9 DEF FinishMatch, Fails
<1>10. CASE AddLeaderboard
  BY <1>10 DEF AddLeaderboard, Fails
<1>11. CASE Broadcast
  BY <1>11 DEF Broadcast
<1>12. ASSUME NEW l \in 0 .. MaxSeq, Sync(l) PROVE SeqInv'
  BY <1>12 DEF Sync, Serving, LoadEvents, Fails
<1>13. CASE Stop
  BY <1>13 DEF Stop, Vanish, SnapshotRow
<1>14. CASE Crash
  BY <1>14 DEF Crash, Vanish
<1>15. CASE Load
  <2>1. PICK s \in 0 .. MaxSeq : IsLastSeq(s) /\ seq' = s
    BY <1>15 DEF Load
  <2>2. snap.seq <= s /\ \A r \in log : r.seq <= s
    BY <2>1, SeqTypes DEF IsLastSeq, LoadEvents
  <2>3. snap' = snap /\ log' = log /\ pc' = "idle" /\ status' = status
        /\ status # "none"
    BY <1>15 DEF Load
  <2> QED BY <2>1, <2>2, <2>3, Zenon DEF SeqInv, Up
<1>16. CASE UNCHANGED vars
  BY <1>16 DEF vars
<1> QED
  BY <1>1, <1>2, <1>3, <1>4, <1>5, <1>6, <1>7, <1>8, <1>9, <1>10, <1>11,
     <1>12, <1>13, <1>14, <1>15, <1>16 DEF Next

\* The log stays part of the state and of the snapshot.
LEMMA StateInvNext ==
  ASSUME TypeOK, SeqInv, StateInv, [Next]_vars PROVE StateInv'
<1> USE DEF TypeOK, SeqInv, StateInv, Up, Written, store, memory, budget
<1>1. ASSUME NEW n \in 1 .. MaxBatch, NEW d \in {0, 1}, CreateMatch(n, d)
      PROVE StateInv'
  BY <1>1, CreateFacts
<1>2. CASE StartAppend
  <2>1. log' \subseteq hist' /\ batch' \subseteq hist'
    BY <1>2, StartAppendFacts
  <2>2. {r \in log' : r.seq <= snap.seq} \subseteq snap.hist
    BY <1>2, StartAppendFacts, Covered
  <2> QED BY <1>2, <2>1, <2>2, StartAppendFacts
<1>3. CASE StartSnapshot
  BY <1>3 DEF StartSnapshot, SaveSnapshot, SnapshotRow, Fails
<1>4. ASSUME NEW p \in Players, NEW c \in 1 .. MaxClientSeq, Command(p, c)
      PROVE StateInv'
  BY <1>4, CommandFacts DEF QuietStep, DecisionStep
<1>5. ASSUME NEW p \in Players, TurnTimeout(p) PROVE StateInv'
  BY <1>5, TimeoutFacts DEF QuietStep, DecisionStep
<1>6. CASE Append
  <2>1. log' \subseteq hist' /\ batch' \subseteq hist' /\ batch' \subseteq log'
    BY <1>6, AppendFacts
  <2>2. {r \in log' : r.seq <= snap.seq} \subseteq snap.hist
    BY <1>6, AppendFacts, Covered
  <2> QED BY <1>6, <2>1, <2>2, AppendFacts
<1>7. CASE AppendFails
  <2>1. (log' = log \/ log' = log \cup batch) /\ UNCHANGED <<hist, snap, seq>>
        /\ pc = "append" /\ pc' = "idle" /\ batch' = {}
    BY <1>7 DEF AppendFails
  <2>2. {r \in log' : r.seq <= snap.seq} \subseteq snap.hist
    BY <2>1, Covered
  <2> QED BY <2>1, <2>2
<1>8. CASE Snapshot
  BY <1>8 DEF Snapshot, SaveSnapshot, SnapshotRow, Fails
<1>9. CASE FinishMatch
  BY <1>9 DEF FinishMatch, Fails
<1>10. CASE AddLeaderboard
  BY <1>10 DEF AddLeaderboard, Fails
<1>11. CASE Broadcast
  BY <1>11 DEF Broadcast
<1>12. ASSUME NEW l \in 0 .. MaxSeq, Sync(l) PROVE StateInv'
  BY <1>12 DEF Sync, Serving, LoadEvents, Fails
<1>13. CASE Stop
  BY <1>13 DEF Stop, Vanish, SnapshotRow
<1>14. CASE Crash
  BY <1>14 DEF Crash, Vanish
<1>15. CASE Load
  <2>1. log \subseteq hist'
    BY <1>15, LoadFacts, SeqTypes
  <2> QED BY <1>15, <2>1, LoadFacts
<1>16. CASE UNCHANGED vars
  BY <1>16 DEF vars
<1> QED
  BY <1>1, <1>2, <1>3, <1>4, <1>5, <1>6, <1>7, <1>8, <1>9, <1>10, <1>11,
     <1>12, <1>13, <1>14, <1>15, <1>16 DEF Next

\* The match ends once.
LEMMA EndInvNext ==
  ASSUME TypeOK, SeqInv, StateInv, EndInv, RecordedOnceAndLogged, [Next]_vars
  PROVE  EndInv'
<1> USE DEF TypeOK, StateInv, EndInv, RecordedOnceAndLogged, Up, Written, Over, store, memory, budget
<1>1. ASSUME NEW n \in 1 .. MaxBatch, NEW d \in {0, 1}, CreateMatch(n, d)
      PROVE EndInv'
  BY <1>1, CreateFacts
<1>2. CASE StartAppend
  BY <1>2 DEF StartAppend, Fails
<1>3. CASE StartSnapshot
  BY <1>3 DEF StartSnapshot, SaveSnapshot, SnapshotRow, Fails
<1>4. ASSUME NEW p \in Players, NEW c \in 1 .. MaxClientSeq, Command(p, c)
      PROVE EndInv'
  BY <1>4, CommandFacts DEF QuietStep, DecisionStep
<1>5. ASSUME NEW p \in Players, TurnTimeout(p) PROVE EndInv'
  BY <1>5, TimeoutFacts DEF QuietStep, DecisionStep
<1>6. CASE Append
  BY <1>6 DEF Append
<1>7. CASE AppendFails
  BY <1>7 DEF AppendFails
<1>8. CASE Snapshot
  BY <1>8 DEF Snapshot, SaveSnapshot, SnapshotRow, Fails
<1>9. CASE FinishMatch
  BY <1>9 DEF FinishMatch, Fails
<1>10. CASE AddLeaderboard
  BY <1>10 DEF AddLeaderboard, Fails
<1>11. CASE Broadcast
  BY <1>11 DEF Broadcast
<1>12. ASSUME NEW l \in 0 .. MaxSeq, Sync(l) PROVE EndInv'
  BY <1>12 DEF Sync, Serving, LoadEvents, Fails
<1>13. CASE Stop
  BY <1>13 DEF Stop, Vanish, SnapshotRow
<1>14. CASE Crash
  BY <1>14 DEF Crash, Vanish
<1>15. CASE Load
  BY <1>15, LoadFacts
<1>16. CASE UNCHANGED vars
  BY <1>16 DEF vars
<1> QED
  BY <1>1, <1>2, <1>3, <1>4, <1>5, <1>6, <1>7, <1>8, <1>9, <1>10, <1>11,
     <1>12, <1>13, <1>14, <1>15, <1>16 DEF Next

\* State, log and snapshot agree until an append fails.
LEMMA AgreeInvNext ==
  ASSUME TypeOK, SeqInv, StateInv, AgreeInv, [Next]_vars PROVE AgreeInv'
<1> USE DEF TypeOK, SeqInv, StateInv, AgreeInv, Up, Written, store, memory, budget
<1>1. ASSUME NEW n \in 1 .. MaxBatch, NEW d \in {0, 1}, CreateMatch(n, d)
      PROVE AgreeInv'
  BY <1>1, CreateFacts
<1>2. CASE StartAppend
  <2> SUFFICES ASSUME ~ lost' PROVE AgreeInv'
    OBVIOUS
  <2>1. ~ lost /\ log' = log \cup batch
    BY <1>2, StartAppendFacts
  <2>2. hist' = log' \cup batch' /\ batch' \subseteq log' /\ shown' \subseteq log'
    BY <1>2, <2>1, StartAppendFacts
  <2>3. snap'.hist = {r \in log' : r.seq <= snap'.seq}
    BY <1>2, <2>1, StartAppendFacts, Covered
  <2> QED BY <2>2, <2>3
<1>3. CASE StartSnapshot
  <2> SUFFICES ASSUME ~ lost' PROVE AgreeInv'
    OBVIOUS
  <2>1. lost' = lost
    BY <1>3, Zenon DEF StartSnapshot, SaveSnapshot, Fails
  <2>2. hist' = log' \cup batch' /\ shown' \subseteq log' /\ pc' = "idle"
        /\ hist = log /\ log' = log
    BY <1>3, <2>1 DEF StartSnapshot
  <2>3. snap'.hist = {r \in log : r.seq <= snap'.seq}
    BY <1>3, <2>1, <2>2, SeqTypes DEF StartSnapshot, SaveSnapshot, SnapshotRow
  <2> QED BY <2>2, <2>3
<1>4. ASSUME NEW p \in Players, NEW c \in 1 .. MaxClientSeq, Command(p, c)
      PROVE AgreeInv'
  BY <1>4, CommandFacts DEF QuietStep, DecisionStep
<1>5. ASSUME NEW p \in Players, TurnTimeout(p) PROVE AgreeInv'
  BY <1>5, TimeoutFacts DEF QuietStep, DecisionStep
<1>6. CASE Append
  <2> SUFFICES ASSUME ~ lost' PROVE AgreeInv'
    OBVIOUS
  <2>1. hist' = log' \cup batch' /\ shown' \subseteq log'
    BY <1>6, AppendFacts
  <2>2. snap'.hist = {r \in log' : r.seq <= snap'.seq}
    BY <1>6, AppendFacts, Covered
  <2> QED BY <1>6, <2>1, <2>2, AppendFacts
<1>7. CASE AppendFails
  BY <1>7 DEF AppendFails
<1>8. CASE Snapshot
  BY <1>8 DEF Snapshot, SaveSnapshot, SnapshotRow, Fails
<1>9. CASE FinishMatch
  BY <1>9 DEF FinishMatch, Fails
<1>10. CASE AddLeaderboard
  BY <1>10 DEF AddLeaderboard, Fails
<1>11. CASE Broadcast
  BY <1>11 DEF Broadcast
<1>12. ASSUME NEW l \in 0 .. MaxSeq, Sync(l) PROVE AgreeInv'
  BY <1>12 DEF Sync, Serving, LoadEvents, Fails
<1>13. CASE Stop
  BY <1>13 DEF Stop, Vanish, SnapshotRow
<1>14. CASE Crash
  BY <1>14 DEF Crash, Vanish
<1>15. CASE Load
  <2> SUFFICES ASSUME ~ lost' PROVE AgreeInv'
    OBVIOUS
  <2>1. hist' = log' \cup batch'
    BY <1>15, LoadFacts, SeqTypes
  <2> QED BY <1>15, <2>1, LoadFacts
<1>16. CASE UNCHANGED vars
  BY <1>16 DEF vars
<1> QED
  BY <1>1, <1>2, <1>3, <1>4, <1>5, <1>6, <1>7, <1>8, <1>9, <1>10, <1>11,
     <1>12, <1>13, <1>14, <1>15, <1>16 DEF Next

\* The match is recorded once, after its end was logged.
LEMMA RecordedNext ==
  ASSUME TypeOK, SeqInv, StateInv, EndInv, RecordedOnceAndLogged, [Next]_vars
  PROVE  RecordedOnceAndLogged'
<1> USE DEF TypeOK, StateInv, EndInv, RecordedOnceAndLogged, Up, Written, Over, store, memory, budget
<1>1. ASSUME NEW n \in 1 .. MaxBatch, NEW d \in {0, 1}, CreateMatch(n, d)
      PROVE RecordedOnceAndLogged'
  BY <1>1, CreateFacts
<1>2. CASE StartAppend
  BY <1>2 DEF StartAppend, Fails
<1>3. CASE StartSnapshot
  BY <1>3 DEF StartSnapshot, SaveSnapshot, SnapshotRow, Fails
<1>4. ASSUME NEW p \in Players, NEW c \in 1 .. MaxClientSeq, Command(p, c)
      PROVE RecordedOnceAndLogged'
  BY <1>4, CommandFacts DEF QuietStep, DecisionStep
<1>5. ASSUME NEW p \in Players, TurnTimeout(p) PROVE RecordedOnceAndLogged'
  BY <1>5, TimeoutFacts DEF QuietStep, DecisionStep
<1>6. CASE Append
  BY <1>6 DEF Append
<1>7. CASE AppendFails
  BY <1>7 DEF AppendFails
<1>8. CASE Snapshot
  BY <1>8 DEF Snapshot, SaveSnapshot, SnapshotRow, Fails
<1>9. CASE FinishMatch
  BY <1>9 DEF FinishMatch, Fails
<1>10. CASE AddLeaderboard
  BY <1>10 DEF AddLeaderboard, Fails
<1>11. CASE Broadcast
  BY <1>11 DEF Broadcast
<1>12. ASSUME NEW l \in 0 .. MaxSeq, Sync(l) PROVE RecordedOnceAndLogged'
  BY <1>12 DEF Sync, Serving, LoadEvents, Fails
<1>13. CASE Stop
  BY <1>13 DEF Stop, Vanish, SnapshotRow
<1>14. CASE Crash
  BY <1>14 DEF Crash, Vanish
<1>15. CASE Load
  BY <1>15, LoadFacts
<1>16. CASE UNCHANGED vars
  BY <1>16 DEF vars
<1> QED
  BY <1>1, <1>2, <1>3, <1>4, <1>5, <1>6, <1>7, <1>8, <1>9, <1>10, <1>11,
     <1>12, <1>13, <1>14, <1>15, <1>16 DEF Next

-----------------------------------------------------------------------------
(* Command numbers, random numbers and the timer.                          *)

\* The events of one batch agree on everything but their seq and end.
LEMMA EventsOfFields ==
  ASSUME NEW p, NEW c, NEW n, NEW d, NEW end,
         NEW q \in EventsOf(p, c, n, d, end)
  PROVE  q.first = seq + 1 /\ q.by = p /\ q.cseq = c /\ q.draw = d
<1>1. PICK s \in seq + 1 .. seq + n :
        q = [seq |-> s, first |-> seq + 1, by |-> p, cseq |-> c, draw |-> d,
             end |-> end /\ s = seq + n]
  BY DEF EventsOf
<1> QED BY <1>1, Zenon

\* A decision draws at most one random number, behind all drawn before.
LEMMA DecidedNumbers ==
  ASSUME TypeOK, NEW p, NEW c, NEW n, NEW d \in {0, 1}, NEW end,
         Decided(p, c, n, d, end)
  PROVE  /\ hist' = hist \cup batch' /\ pc' = "append"
         /\ rng' \in Nat /\ rng <= rng'
         /\ \A q \in batch' : /\ q.by = p /\ q.cseq = c
                              /\ q.draw = 0 \/ (q.draw = rng' /\ rng < rng')
         /\ \A q, r \in batch' : q.first = r.first
<1> DEFINE draw == IF d = 0 THEN 0 ELSE rng'
<1>1. batch' = EventsOf(p, c, n, draw, end)
  BY DEF Decided
<1>2. rng' \in Nat /\ rng <= rng' /\ (draw = 0 \/ (draw = rng' /\ rng < rng'))
  <2>1. rng \in Nat /\ rng' = rng + d
    BY DEF TypeOK, Decided
  <2>2. CASE d = 0  BY <2>1, <2>2
  <2>3. CASE d = 1  BY <2>1, <2>3
  <2> QED BY <2>2, <2>3
<1>3. \A q \in batch' : /\ q.first = seq + 1 /\ q.by = p /\ q.cseq = c
                        /\ q.draw = draw
  BY <1>1, EventsOfFields
<1> QED BY <1>2, <1>3 DEF Decided

\* CreateMatch's batch has no command number and one random number.
LEMMA CreateNumbers ==
  ASSUME TypeOK, NEW n, NEW d \in {0, 1}, CreateMatch(n, d)
  PROVE  /\ hist' = batch' /\ rng' = d /\ pc' = "start"
         /\ UNCHANGED <<log, snap, lastSeq, budget>>
         /\ \A q \in batch' : q.cseq = 0 /\ q.draw = d
         /\ \A q, r \in batch' : q.first = r.first
<1>1. batch' = EventsOf(Server, 0, n, d, FALSE)
  BY DEF CreateMatch
<1>2. ASSUME NEW q \in batch'
      PROVE  q.first = seq + 1 /\ q.cseq = 0 /\ q.draw = d
  <2>1. PICK s \in seq + 1 .. seq + n :
          q = [seq |-> s, first |-> seq + 1, by |-> Server, cseq |-> 0,
               draw |-> d, end |-> FALSE /\ s = seq + n]
    BY <1>1 DEF EventsOf
  <2> QED BY <2>1, Zenon
<1> QED BY <1>2 DEF CreateMatch

\* A command's number is new to the actor, a timeout has none.
LEMMA DecisionFreshInv ==
  ASSUME TypeOK, FreshInv, stops + crashes = 0, NEW p \in Players,
         NEW c \in Nat, c > 0 => lastSeq[p] < c, hist' = hist \cup batch',
         \A q \in batch' : q.by = p /\ q.cseq = c,
         \A q, r \in batch' : q.first = r.first,
         lastSeq' = IF c > 0 THEN [lastSeq EXCEPT ![p] = c] ELSE lastSeq
  PROVE  /\ \A r \in hist' : r.cseq > 0 => r.by \in Players /\ r.cseq <= lastSeq'[r.by]
         /\ ExecutedOnce'
<1>1. /\ \A r \in hist : r.cseq \in Nat
      /\ \A x \in Players : lastSeq[x] \in Nat
      /\ lastSeq \in [Players -> Nat]
  BY DEF TypeOK, Record
<1>2. \A r \in hist : r.cseq > 0 => r.by \in Players /\ r.cseq <= lastSeq[r.by]
  BY DEF FreshInv
<1>3. \A x \in Players : lastSeq[x] <= lastSeq'[x] /\ lastSeq'[x] \in Nat
  <2>1. CASE c > 0  BY <1>1, <2>1
  <2>2. CASE ~ c > 0  BY <1>1, <2>2
  <2> QED BY <2>1, <2>2
<1>4. ASSUME NEW r \in hist', r.cseq > 0
      PROVE  r.by \in Players /\ r.cseq <= lastSeq'[r.by]
  <2>1. CASE r \in hist
    <3>1. r.by \in Players /\ r.cseq <= lastSeq[r.by] /\ r.cseq \in Nat
      BY <1>1, <1>2, <1>4, <2>1
    <3> QED BY <1>1, <1>3, <3>1
  <2>2. CASE r \in batch'
    BY <1>1, <1>4, <2>2
  <2> QED BY <2>1, <2>2
<1>5. ASSUME NEW r \in hist', NEW q \in hist',
             r.cseq > 0, r.by = q.by, r.cseq = q.cseq
      PROVE  r.first = q.first
  <2>1. CASE r \in hist /\ q \in hist
    BY <1>5, <2>1 DEF FreshInv, ExecutedOnce
  <2>2. CASE r \in batch' /\ q \in batch'
    BY <2>2
  <2>3. \A x \in hist, y \in batch' : ~ (y.cseq > 0 /\ x.by = y.by /\ x.cseq = y.cseq)
    BY <1>1, <1>2
  <2> QED BY <1>5, <2>1, <2>2, <2>3
<1> QED BY <1>4, <1>5 DEF ExecutedOnce

\* lastSeq stays ahead of the executed commands.
LEMMA FreshInvNext ==
  ASSUME TypeOK, SeqInv, FreshInv, [Next]_vars PROVE FreshInv'
<1> SUFFICES ASSUME stops' + crashes' = 0 PROVE FreshInv'
  BY DEF FreshInv
<1> USE DEF TypeOK, store, memory, budget
<1>0. ASSUME UNCHANGED <<stops, crashes, hist, lastSeq>>, pc' # "down"
      PROVE  FreshInv'
  BY <1>0 DEF FreshInv, ExecutedOnce
<1>1. ASSUME NEW n \in 1 .. MaxBatch, NEW d \in {0, 1}, CreateMatch(n, d)
      PROVE FreshInv'
  <2>1. pc' = "start" /\ \A q \in hist' : q.cseq = 0
    BY <1>1, CreateNumbers
  <2> QED BY <2>1 DEF FreshInv, ExecutedOnce
<1>2. CASE StartAppend
  BY <1>0, <1>2 DEF StartAppend, Fails
<1>3. CASE StartSnapshot
  BY <1>0, <1>3 DEF StartSnapshot, SaveSnapshot, Fails
<1>4. ASSUME NEW p \in Players, NEW c \in 1 .. MaxClientSeq, Command(p, c)
      PROVE FreshInv'
  <2>1. /\ stops + crashes = 0 /\ c \in Nat /\ c > 0 /\ lastSeq[p] < c
        /\ lastSeq' = [lastSeq EXCEPT ![p] = c]
    BY <1>4 DEF Command, IsFresh
  <2>2. CASE UNCHANGED <<pc, hist, seq, rng, batch>>
    <3>1. pc' # "down" /\ hist' = hist
      BY <1>4, <2>2 DEF Command, CanPlay
    <3>2. \A x \in Players : lastSeq[x] <= lastSeq'[x]
      BY <2>1
    <3>3. \A r \in hist : r.cseq \in Nat
      BY DEF Record
    <3> QED BY <2>1, <3>1, <3>2, <3>3 DEF FreshInv, ExecutedOnce
  <2>3. ASSUME NEW n \in 1 .. MaxBatch, NEW d \in {0, 1}, NEW end \in BOOLEAN,
               Decided(p, c, n, d, end)
        PROVE  FreshInv'
    <3>1. /\ hist' = hist \cup batch' /\ pc' = "append"
          /\ \A q \in batch' : q.by = p /\ q.cseq = c
          /\ \A q, r \in batch' : q.first = r.first
      BY <2>3, DecidedNumbers
    <3> QED BY <2>1, <3>1, DecisionFreshInv DEF FreshInv
  <2> QED BY <1>4, <2>2, <2>3 DEF Command
<1>5. ASSUME NEW p \in Players, TurnTimeout(p) PROVE FreshInv'
  <2>1. stops + crashes = 0 /\ pc = "idle" /\ lastSeq' = lastSeq
    BY <1>5 DEF TurnTimeout
  <2>2. CASE UNCHANGED <<pc, hist, seq, rng, batch>>
    BY <1>0, <1>5, <2>1, <2>2 DEF TurnTimeout
  <2>3. ASSUME NEW n \in 1 .. MaxBatch, NEW d \in {0, 1}, NEW end \in BOOLEAN,
               Decided(p, 0, n, d, end)
        PROVE  FreshInv'
    <3>1. /\ hist' = hist \cup batch' /\ pc' = "append"
          /\ \A q \in batch' : q.by = p /\ q.cseq = 0
          /\ \A q, r \in batch' : q.first = r.first
      BY <2>3, DecidedNumbers
    <3> QED BY <2>1, <3>1, DecisionFreshInv DEF FreshInv
  <2> QED BY <1>5, <2>2, <2>3 DEF TurnTimeout
<1>6. CASE Append
  BY <1>0, <1>6 DEF Append
<1>7. CASE AppendFails
  BY <1>0, <1>7 DEF AppendFails
<1>8. CASE Snapshot
  BY <1>0, <1>8 DEF Snapshot, SaveSnapshot, Fails
<1>9. CASE FinishMatch
  BY <1>0, <1>9 DEF FinishMatch, Fails
<1>10. CASE AddLeaderboard
  BY <1>0, <1>10 DEF AddLeaderboard, Fails
<1>11. CASE Broadcast
  BY <1>0, <1>11 DEF Broadcast
<1>12. ASSUME NEW l \in 0 .. MaxSeq, Sync(l) PROVE FreshInv'
  BY <1>0, <1>12 DEF Sync, Serving, Fails
<1>13. CASE Stop
  BY <1>13 DEF Stop
<1>14. CASE Crash
  BY <1>14 DEF Crash
<1>15. CASE Load
  BY <1>15 DEF Load, FreshInv
<1>16. CASE UNCHANGED vars
  BY <1>16 DEF vars, FreshInv, ExecutedOnce
<1> QED
  BY <1>1, <1>2, <1>3, <1>4, <1>5, <1>6, <1>7, <1>8, <1>9, <1>10, <1>11,
     <1>12, <1>13, <1>14, <1>15, <1>16 DEF Next

\* Every way back to the inbox arms the timer of a match that goes on.
LEMMA TimerNext ==
  ASSUME TypeOK, FreshInv, LiveMatchHasTimer, [Next]_vars
  PROVE  LiveMatchHasTimer'
<1> USE DEF TypeOK, LiveMatchHasTimer, Over, store, memory, budget
<1>1. ASSUME NEW n \in 1 .. MaxBatch, NEW d \in {0, 1}, CreateMatch(n, d)
      PROVE LiveMatchHasTimer'
  BY <1>1 DEF CreateMatch
<1>2. CASE StartAppend
  BY <1>2 DEF StartAppend
<1>3. CASE StartSnapshot
  BY <1>3 DEF StartSnapshot
<1>4. ASSUME NEW p \in Players, NEW c \in 1 .. MaxClientSeq, Command(p, c)
      PROVE LiveMatchHasTimer'
  BY <1>4 DEF Command, Decided
<1>5. ASSUME NEW p \in Players, TurnTimeout(p) PROVE LiveMatchHasTimer'
  BY <1>5 DEF TurnTimeout, Decided
<1>6. CASE Append
  BY <1>6 DEF Append
<1>7. CASE AppendFails
  BY <1>7 DEF AppendFails
<1>8. CASE Snapshot
  BY <1>8 DEF Snapshot
<1>9. CASE FinishMatch
  BY <1>9 DEF FinishMatch
<1>10. CASE AddLeaderboard
  BY <1>10 DEF AddLeaderboard
<1>11. CASE Broadcast
  BY <1>11 DEF Broadcast, RearmedTimer
<1>12. ASSUME NEW l \in 0 .. MaxSeq, Sync(l) PROVE LiveMatchHasTimer'
  BY <1>12 DEF Sync, Fails
<1>13. CASE Stop
  BY <1>13 DEF Stop, Vanish
<1>14. CASE Crash
  BY <1>14 DEF Crash, Vanish
<1>15. CASE Load
  BY <1>15 DEF Load, FreshInv
<1>16. CASE UNCHANGED vars
  BY <1>16 DEF vars
<1> QED
  BY <1>1, <1>2, <1>3, <1>4, <1>5, <1>6, <1>7, <1>8, <1>9, <1>10, <1>11,
     <1>12, <1>13, <1>14, <1>15, <1>16 DEF Next

\* A decision draws a number that is in nobody's events yet.
LEMMA DecisionRngInv ==
  ASSUME TypeOK, RngInv, StateInv, pc = "idle", NEW p, NEW c, NEW n,
         NEW d \in {0, 1}, NEW end, Decided(p, c, n, d, end),
         UNCHANGED <<log, snap, budget>>
  PROVE  RngInv'
<1>1. /\ pc' = "append" /\ rng' \in Nat /\ rng <= rng' /\ batch = {} /\ log' = log
      /\ crashes' = crashes /\ failures' = failures /\ lost' = lost
      /\ \A q \in batch' : q.draw = 0 \/ (q.draw = rng' /\ rng < rng')
      /\ \A q, r \in batch' : q.first = r.first
  BY DecidedNumbers DEF budget, StateInv
<1> SUFFICES ASSUME crashes + failures = 0
             PROVE  /\ ~ lost /\ \A r \in log \cup batch' : r.draw <= rng'
                    /\ \A r, q \in log \cup batch' :
                         r.draw > 0 /\ r.draw = q.draw => r.first = q.first
  BY <1>1 DEF RngInv, Up
<1>2. ~ lost /\ \A r \in log : r.draw <= rng
  BY DEF RngInv, Up
<1>3. rng \in Nat /\ \A r \in log : r.draw \in Nat
  BY DEF TypeOK, Record
<1>4. \A r \in log \cup batch' : r.draw <= rng'
  BY <1>1, <1>2, <1>3
<1>5. \A r, q \in log : r.draw > 0 /\ r.draw = q.draw => r.first = q.first
  BY DEF RngInv
<1>6. \A r \in log, q \in batch' : ~ (q.draw > 0 /\ r.draw = q.draw)
  BY <1>1, <1>2, <1>3
<1> QED BY <1>1, <1>2, <1>4, <1>5, <1>6

\* No random number is drawn again.
LEMMA RngInvNext ==
  ASSUME TypeOK, SeqInv, StateInv, AgreeInv, RngInv, [Next]_vars PROVE RngInv'
<1> USE DEF TypeOK, RngInv, Up, store, memory, budget
<1>1. ASSUME NEW n \in 1 .. MaxBatch, NEW d \in {0, 1}, CreateMatch(n, d)
      PROVE RngInv'
  <2>1. /\ rng' = d /\ pc' = "start" /\ log' = {} /\ lost' = lost
        /\ crashes' = crashes /\ failures' = failures
        /\ \A q \in batch' : q.draw = d
        /\ \A q, r \in batch' : q.first = r.first
    BY <1>1, CreateNumbers DEF CreateMatch, SeqInv
  <2>2. d <= d
    OBVIOUS
  <2> QED BY <2>1, <2>2
<1>2. CASE StartAppend
  BY <1>2 DEF StartAppend, Fails
<1>3. CASE StartSnapshot
  <2>1. /\ log' = log /\ pc' = "idle" /\ rng' = rng /\ batch' = {}
        /\ pc = "startSnap"
    BY <1>3 DEF StartSnapshot
  <2>2. crashes' + failures' = 0 => crashes + failures = 0 /\ lost' = lost
    BY <1>3 DEF StartSnapshot, SaveSnapshot, Fails
  <2> QED BY <2>1, <2>2
<1>4. ASSUME NEW p \in Players, NEW c \in 1 .. MaxClientSeq, Command(p, c)
      PROVE RngInv'
  BY <1>4, DecisionRngInv DEF Command, CanPlay
<1>5. ASSUME NEW p \in Players, TurnTimeout(p) PROVE RngInv'
  BY <1>5, DecisionRngInv DEF TurnTimeout
<1>6. CASE Append
  <2>1. log' \cup batch' = log \cup batch
    BY <1>6 DEF Append
  <2> QED BY <1>6, <2>1 DEF Append
<1>7. CASE AppendFails
  <2>1. CanAppend(batch)
    BY <1>7 DEF AppendFails, SeqInv, CanAppend
  <2> QED BY <1>7, <2>1 DEF AppendFails
<1>8. CASE Snapshot
  BY <1>8 DEF Snapshot, SaveSnapshot, Fails
<1>9. CASE FinishMatch
  BY <1>9 DEF FinishMatch, Fails
<1>10. CASE AddLeaderboard
  BY <1>10 DEF AddLeaderboard, Fails
<1>11. CASE Broadcast
  BY <1>11 DEF Broadcast
<1>12. ASSUME NEW l \in 0 .. MaxSeq, Sync(l) PROVE RngInv'
  BY <1>12 DEF Sync, Serving, Fails
<1>13. CASE Stop
  <2>1. /\ log' = log /\ batch' = {} /\ hist' = {} /\ pc' = "down" /\ pc = "idle"
        /\ crashes' = crashes /\ lost' = lost
    BY <1>13 DEF Stop, Vanish
  <2>2. failures' = 0 => failures = 0 /\ snap' = SnapshotRow
    BY <1>13 DEF Stop
  <2>3. SnapshotRow.rng = rng
    BY DEF SnapshotRow
  <2>4. CASE failures' = 0 /\ crashes' = 0
    <3>1. crashes + failures = 0 /\ snap'.rng = rng
      BY <2>1, <2>2, <2>3, <2>4
    <3>2. /\ ~ lost /\ \A r \in log \cup batch : r.draw <= rng
          /\ \A r, q \in log \cup batch :
               r.draw > 0 /\ r.draw = q.draw => r.first = q.first
      BY <2>1, <3>1
    <3>3. log' \cup batch' \subseteq log \cup batch
      BY <2>1
    <3> QED BY <2>1, <3>1, <3>2, <3>3
  <2>5. CASE ~ (failures' = 0 /\ crashes' = 0)
    <3>1. crashes' + failures' # 0
      BY <1>13, <2>5 DEF Stop
    <3> QED BY <2>1, <3>1
  <2> QED BY <2>4, <2>5
<1>14. CASE Crash
  BY <1>14 DEF Crash, Vanish
<1>15. CASE Load
  BY <1>15 DEF Load, RestoredRng
<1>16. CASE UNCHANGED vars
  BY <1>16 DEF vars
<1> QED
  BY <1>1, <1>2, <1>3, <1>4, <1>5, <1>6, <1>7, <1>8, <1>9, <1>10, <1>11,
     <1>12, <1>13, <1>14, <1>15, <1>16 DEF Next

-----------------------------------------------------------------------------
(* The inductive invariant, and what follows from it.                      *)

LEMMA IInvInit == Init => IInv
<1> SUFFICES ASSUME Init PROVE IInv
  OBVIOUS
<1>1. snap.seq = 0 /\ snap.hist = {} /\ snap = NoSnap
  BY Zenon DEF Init, NoSnap
<1>2. SeqInv
  BY <1>1 DEF Init, SeqInv, Up
<1>3. StateInv
  BY <1>1 DEF Init, StateInv, Up, Written
<1>4. EndInv /\ RecordedOnceAndLogged
  BY DEF Init, EndInv, Written, RecordedOnceAndLogged
<1>5. AgreeInv
  BY <1>1 DEF Init, AgreeInv, Up
<1>6. FreshInv /\ LiveMatchHasTimer /\ RngInv
  BY DEF Init, FreshInv, ExecutedOnce, LiveMatchHasTimer, RngInv, Up
<1> QED BY <1>2, <1>3, <1>4, <1>5, <1>6 DEF IInv

LEMMA IInvNext == TypeOK /\ IInv /\ [Next]_vars => IInv'
BY SeqInvNext, StateInvNext, EndInvNext, AgreeInvNext, RecordedNext,
   FreshInvNext, TimerNext, RngInvNext DEF IInv

\* The parts of IInv hold in every reachable state, for every number of
\* players, batch size, snapshot distance, and however often the process
\* stops, dies or has a store call fail.
THEOREM Invariant == Spec => [](TypeOK /\ IInv)
BY TypeOKInit, TypeOKNext, IInvInit, IInvNext, PTL DEF Spec

LEMMA IInvImplies ==
  ASSUME TypeOK, IInv
  PROVE  /\ NeverConflicts /\ PersistBeforeBroadcast /\ RecordedOnceAndLogged
         /\ LiveStateIsReplay /\ SnapshotIsPrefix /\ ShownIsDurable
         /\ ExecutedOnceUntilRestart /\ LiveMatchHasTimer /\ RngSurvivesStops
<1> USE DEF IInv
<1>1. NeverConflicts
  BY DEF NeverConflicts, CanAppend, SeqInv
<1>2. PersistBeforeBroadcast
  BY DEF PersistBeforeBroadcast, StateInv, Written
<1>3. LiveStateIsReplay /\ SnapshotIsPrefix /\ ShownIsDurable
  BY DEF LiveStateIsReplay, SnapshotIsPrefix, ShownIsDurable, AgreeInv, Up
<1>4. ExecutedOnceUntilRestart /\ LiveMatchHasTimer
  BY DEF ExecutedOnceUntilRestart, FreshInv
<1>5. ASSUME crashes + failures = 0 PROVE RngNeverReused
  <2>1. CASE pc = "down"
    BY <2>1 DEF RngInv, RngNeverReused
  <2>2. CASE pc # "down"
    <3>1. hist = log \cup batch
      BY <1>5, <2>2 DEF RngInv, AgreeInv, Up
    <3> QED BY <1>5, <3>1 DEF RngInv, RngNeverReused
  <2> QED BY <2>1, <2>2
<1> QED BY <1>1, <1>2, <1>3, <1>4, <1>5 DEF RngSurvivesStops

\* AppendEvents never refuses a batch for its sequence numbers, whatever
\* failed or crashed before.
THEOREM AppendsNeverConflict == Spec => []NeverConflicts
BY Invariant, IInvImplies, PTL

\* What is broadcast was written before.
THEOREM PersistedFirst == Spec => []PersistBeforeBroadcast
BY Invariant, IInvImplies, PTL

\* A match is recorded as over at most once, and only when its log says so.
THEOREM RecordedOnce == Spec => []RecordedOnceAndLogged
BY Invariant, IInvImplies, PTL

\* Until an append fails, the state in memory is the replay of the log, a
\* snapshot is a prefix of it, and nobody has seen an event outside it.
THEOREM StateIsReplay ==
  Spec => [](LiveStateIsReplay /\ SnapshotIsPrefix /\ ShownIsDurable)
BY Invariant, IInvImplies, PTL

\* Until the process stops or dies no player's command number is executed a
\* second time, whatever was rejected, timed out or failed to be written between.
THEOREM ExecutedOnceTillRestart == Spec => []ExecutedOnceUntilRestart
BY Invariant, IInvImplies, PTL

\* A match that goes on never waits without its turn timer, unless the actor
\* was restored or an append failed.
THEOREM TimerWhileLive == Spec => []LiveMatchHasTimer
BY Invariant, IInvImplies, PTL

\* Over any number of graceful stops and restorations, no random number serves
\* two commands.
THEOREM RngKept == Spec => []RngSurvivesStops
BY Invariant, IInvImplies, PTL

-----------------------------------------------------------------------------
(* The refinement of MatchLog.                                             *)

\* Both appends are the Commit of MatchLog.
LEMMA AppendCommits ==
  ASSUME TypeOK, IInv, ~ lost', StartAppend \/ Append
  PROVE  Log!Commit
<1>1. log' = log \cup batch /\ shown' = shown /\ pc \in {"start", "append"}
  BY StartAppendFacts, AppendFacts
<1>2. \A r \in log : ~ r.end
  BY <1>1 DEF IInv, EndInv
<1>3. \A r \in log, q \in batch : r.seq < q.seq
  BY <1>1 DEF IInv, SeqInv
<1> QED BY <1>1, <1>2, <1>3 DEF Log!Commit, Log!Ended

LEMMA StepRefines ==
  ASSUME TypeOK, IInv, ~ lost, ~ lost', [Next]_vars
  PROVE  [Log!Next]_(Log!vars)
<1> DEFINE Goal == [Log!Next]_(Log!vars)
<1> USE DEF Log!vars, store, memory, budget
<1>1. ASSUME NEW n \in 1 .. MaxBatch, NEW d \in {0, 1}, CreateMatch(n, d)
      PROVE  Goal
  BY <1>1 DEF CreateMatch
<1>2. CASE StartAppend \/ Append
  BY <1>2, AppendCommits DEF Log!Next
<1>3. CASE StartSnapshot  BY <1>3 DEF StartSnapshot
<1>4. ASSUME NEW p \in Players, NEW c \in 1 .. MaxClientSeq, Command(p, c)
      PROVE  Goal
  BY <1>4 DEF Command
<1>5. ASSUME NEW p \in Players, TurnTimeout(p) PROVE Goal
  BY <1>5 DEF TurnTimeout
<1>6. CASE AppendFails  BY <1>6 DEF AppendFails
<1>7. CASE Snapshot  BY <1>7 DEF Snapshot
<1>8. CASE FinishMatch  BY <1>8 DEF FinishMatch
<1>9. CASE AddLeaderboard  BY <1>9 DEF AddLeaderboard
<1>10. CASE Broadcast
  <2>1. batch \subseteq log /\ shown \subseteq log
    BY <1>10 DEF Broadcast, IInv, StateInv, Written, AgreeInv
  <2> QED BY <1>10, <2>1 DEF Broadcast, Log!Next, Log!Show
<1>11. ASSUME NEW l \in 0 .. MaxSeq, Sync(l) PROVE Goal
  <2>1. hist = log /\ shown \subseteq log /\ LoadEvents(l) \subseteq log
    BY <1>11 DEF Sync, Serving, IInv, StateInv, AgreeInv, Up, LoadEvents
  <2>2. shown' = shown \cup LoadEvents(l) \/ shown' = shown \cup hist
    BY <1>11 DEF Sync
  <2> QED BY <1>11, <2>1, <2>2 DEF Sync, Log!Next, Log!Show
<1>12. CASE Stop  BY <1>12 DEF Stop
<1>13. CASE Crash  BY <1>13 DEF Crash
<1>14. CASE Load  BY <1>14 DEF Load
<1>15. CASE UNCHANGED vars  BY <1>15 DEF vars
<1> QED
  BY <1>1, <1>2, <1>3, <1>4, <1>5, <1>6, <1>7, <1>8, <1>9, <1>10, <1>11,
     <1>12, <1>13, <1>14, <1>15 DEF Next

\* As long as no AppendEvents fails, the match keeps the promise of MatchLog:
\* crashes, stops, restorations and resyncs included.
THEOREM Refinement == Spec /\ []~ lost => ImplementsMatchLog
<1>1. Init => Log!Init
  BY DEF Init, Log!Init
<1>2. TypeOK /\ IInv /\ ~ lost /\ (~ lost)' /\ [Next]_vars => [Log!Next]_(Log!vars)
  BY StepRefines
<1> QED BY <1>1, <1>2, Invariant, PTL DEF Spec, ImplementsMatchLog, Log!Spec
=============================================================================

------------------------- MODULE TurnDeadlineProofs -------------------------
(***************************************************************************)
(* Proofs about TurnDeadline for every number of players, every length of  *)
(* the match and every number of restarts and of failing calls: however    *)
(* the actor's goroutine and the scheduler's interleave inside             *)
(* handleCommand.                                                          *)
(***************************************************************************)
EXTENDS TurnDeadline, TLAPS

USE DeadlineAssumption

LEMMA SeatFacts == 0 \in Seats /\ \A i \in Seats : Succ(i) \in Seats /\ i # N /\ i \in 0 .. N
BY DEF Seats, Succ

LEMMA RowFacts ==
  /\ NoRow \in Row /\ NoRow.player = N /\ N \notin Seats
  /\ \A p \in Seats :
       Deadline(p) \in Row /\ Deadline(p).player = p /\ Deadline(p) # NoRow
  /\ \A r \in Row \ {NoRow} :
       /\ [r EXCEPT !.expired = TRUE] \in Row \ {NoRow}
       /\ [r EXCEPT !.expired = TRUE].player = r.player
<1>1. NoRow \in Row /\ NoRow.player = N /\ N \notin Seats
  BY SeatFacts DEF NoRow, Row
<1>2. ASSUME NEW p \in Seats
      PROVE  Deadline(p) \in Row /\ Deadline(p).player = p /\ Deadline(p) # NoRow
  BY <1>1, SeatFacts DEF Deadline, Row
<1>3. ASSUME NEW r \in Row \ {NoRow}
      PROVE  /\ [r EXCEPT !.expired = TRUE] \in Row \ {NoRow}
             /\ [r EXCEPT !.expired = TRUE].player = r.player
  <2>1. r \in [player : Seats, expired : BOOLEAN]
    BY DEF Row
  <2>2. /\ [r EXCEPT !.expired = TRUE] \in [player : Seats, expired : BOOLEAN]
        /\ [r EXCEPT !.expired = TRUE].player = r.player
    BY <2>1
  <2> QED BY <1>1, <2>2 DEF Row
<1> QED BY <1>1, <1>2, <1>3

\* A write that goes through is counted as no failure, and the other way round.
LEMMA WriteFacts ==
  ASSUME TypeOK, NEW r \in Row, Write(r)
  PROVE  /\ row' \in Row /\ row' \in {r, row} /\ failures' \in Nat
         /\ failures' = 0 => failures = 0 /\ row' = r
BY DEF Write, Fails, TypeOK

LEMMA StageFacts ==
  /\ "idle" \in InCommand /\ "decided" \in InCommand
  /\ "applied" \in InCommand /\ "written" \in InCommand
  /\ \A x \in InCommand : x \in Stage
  /\ "polled" \in Stage /\ "charged" \in Stage
  /\ "timed out" \in Stage /\ "rescheduled" \in Stage
BY DEF InCommand, Stage

LEMMA NoDecisionType == NoDecision \in Decision
BY SeatFacts DEF NoDecision, Decision, Outcomes

\* Whatever Decide makes of the state is about a seat and a turn.
LEMMA DecisionsType ==
  ASSUME TypeOK, NEW c \in Decisions PROVE c \in Decision
<1>1. PICK o \in Outcomes :
        c = [player |-> active, turn |-> turn, outcome |-> o,
             lastOfRound |-> taken + 1 >= N, first |-> first, seq |-> 0]
  BY DEF Decisions
<1>2. (taken + 1 >= N) \in BOOLEAN
  OBVIOUS
<1>3. active \in Seats /\ turn \in Nat /\ first \in Seats /\ 0 \in Nat
  BY DEF TypeOK
<1> QED BY <1>1, <1>2, <1>3, Zenon DEF Decision

\* A goroutine that enters handleCommand is on its way with a decision.
LEMMA DecideFacts ==
  ASSUME TypeOK, NEW t \in Threads, Decide(t)
  PROVE  /\ cmd' \in [Threads -> Decision]
         /\ pc' = [pc EXCEPT ![t] = "decided"]
         /\ \A u \in Threads \ {t} : cmd'[u] = cmd[u]
BY DecisionsType DEF Decide, Goto, TypeOK

LEMMA ReturnFacts ==
  ASSUME TypeOK, NEW t \in Threads, Return(t)
  PROVE  /\ cmd' \in [Threads -> Decision]
         /\ pc' = [pc EXCEPT ![t] = IF t = "actor" THEN "idle" ELSE "timed out"]
         /\ \A u \in Threads \ {t} : cmd'[u] = cmd[u]
BY NoDecisionType DEF Return, Goto, TypeOK

LEMMA ApplyFacts ==
  ASSUME TypeOK, NEW t \in Threads, ApplyEvents(t)
  PROVE  /\ pc[t] = "decided" /\ pc' = [pc EXCEPT ![t] = "applied"]
         /\ cmd' \in [Threads -> Decision] /\ cmd'[t].seq = seq + 1 /\ seq' = seq + 1
         /\ \A u \in Threads \ {t} : cmd'[u] = cmd[u]
         /\ first' \in Seats /\ taken' \in Nat /\ active' \in Seats /\ turn' \in Nat
         /\ over' \in BOOLEAN /\ (over => over')
         /\ UNCHANGED <<log, timer, timerTurn, creation, subSecond, row, dl, restarts, failures>>
<1>1. /\ pc[t] = "decided" /\ pc' = [pc EXCEPT ![t] = "applied"]
      /\ seq' = seq + 1 /\ seq \in Nat
      /\ UNCHANGED <<log, timer, timerTurn, creation, subSecond, row, dl, restarts, failures>>
  BY DEF ApplyEvents, Goto, TypeOK, clock, made, sched
<1>2. over' \in BOOLEAN /\ (over => over')
  BY Zenon DEF ApplyEvents, TypeOK
<1>3. cmd[t] \in Decision /\ cmd \in [Threads -> Decision]
      /\ cmd' = [cmd EXCEPT ![t].seq = seq + 1]
  BY <1>1 DEF ApplyEvents, TypeOK
<1>4. cmd' \in [Threads -> Decision] /\ cmd'[t].seq = seq + 1
      /\ \A u \in Threads \ {t} : cmd'[u] = cmd[u]
  BY <1>1, <1>3 DEF Decision
<1>5. first' \in Seats /\ taken' \in Nat /\ active' \in Seats /\ turn' \in Nat
  <2>1. /\ cmd[t].player \in Seats /\ cmd[t].first \in Seats /\ cmd[t].turn \in Nat
    BY <1>3 DEF Decision
  <2>2. first \in Seats /\ taken \in Nat /\ active \in Seats /\ turn \in Nat
    BY DEF TypeOK
  <2>3. ApplyTurn(cmd[t])
    BY DEF ApplyEvents
  <2>4. CASE cmd[t].outcome # "ends turn"
    BY <2>2, <2>3, <2>4 DEF ApplyTurn
  <2>5. CASE cmd[t].outcome = "ends turn"
    <3>1. /\ turn' = cmd[t].turn + 1
          /\ first' \in {Succ(cmd[t].first), first} /\ taken' \in {0, taken + 1}
          /\ active' \in {Succ(cmd[t].first), Succ(cmd[t].player)}
      BY <2>3, <2>5, Zenon DEF ApplyTurn
    <3> QED BY <2>1, <2>2, <3>1, SeatFacts
  <2> QED BY <2>4, <2>5
<1> QED BY <1>1, <1>2, <1>4, <1>5

-----------------------------------------------------------------------------
(* Types.                                                                  *)

LEMMA TypeOKInit == Init => TypeOK
<1> SUFFICES ASSUME Init PROVE TypeOK
  OBVIOUS
<1>1. row \in Row /\ dl \in Row
  BY SeatFacts, RowFacts DEF Init
<1>2. cmd \in [Threads -> Decision]
  BY NoDecisionType DEF Init
<1>3. /\ pc \in [Threads -> Stage]
      /\ pc["actor"] \in InCommand
  BY StageFacts DEF Init, Threads
<1> QED BY <1>1, <1>2, <1>3, SeatFacts DEF Init, TypeOK

LEMMA TypeOKNext == TypeOK /\ [Next]_vars => TypeOK'
<1> SUFFICES ASSUME TypeOK, [Next]_vars PROVE TypeOK'
  OBVIOUS
<1> USE DEF TypeOK, game, clock, made, sched
<1>1. ASSUME NEW t \in Threads, ApplyEvents(t) PROVE TypeOK'
  <2>1. seq' = seq + 1 /\ over' \in BOOLEAN
    BY <1>1, ApplyFacts, Zenon
  <2>3. seq' \in Nat
    BY <2>1
  <2>2. /\ cmd' \in [Threads -> Decision]
        /\ first' \in Seats /\ taken' \in Nat /\ active' \in Seats /\ turn' \in Nat
        /\ pc' = [pc EXCEPT ![t] = "applied"]
        /\ UNCHANGED <<log, timer, timerTurn, creation, subSecond, row, dl, restarts, failures>>
    BY <1>1, ApplyFacts, Zenon
  <2> QED BY <2>1, <2>2, <2>3, StageFacts DEF Threads
<1>2. ASSUME NEW t \in Threads, AppendEvents(t) PROVE TypeOK'
  <2>1. cmd[t].seq \in Nat
    BY DEF Decision
  <2>2. CASE /\ log' = log \cup {cmd[t].seq} /\ Goto(t, "written")
             /\ UNCHANGED <<timer, cmd, failures>>
    BY <1>2, <2>1, <2>2, StageFacts DEF AppendEvents, Goto, Threads
  <2>3. CASE /\ Return(t) /\ timer' = (IF t = "actor" THEN Heard ELSE timer)
             /\ log' \in {log, log \cup {cmd[t].seq}}
             /\ failures' \in {failures, failures + 1}
    <3>1. log' \subseteq Nat /\ failures' \in Nat
      BY <2>1, <2>3
    <3>2. timer' \in {"none", "armed", "fired", "deaf"}
      BY <2>3 DEF Heard
    <3>3. UNCHANGED <<game, timerTurn, made, sched, restarts>>
      BY <1>2 DEF AppendEvents
    <3>4. /\ cmd' \in [Threads -> Decision] /\ pc' \in [Threads -> Stage]
          /\ pc'["actor"] \in InCommand
      BY <2>3, ReturnFacts, StageFacts DEF Threads
    <3> QED BY <3>1, <3>2, <3>3, <3>4
  <2> QED BY <1>2, <2>2, <2>3 DEF AppendEvents, Fails
<1>3. ASSUME NEW t \in Threads, FinishCommand(t) PROVE TypeOK'
  BY <1>3, ReturnFacts, StageFacts DEF FinishCommand, Rearmed, ArmedIn, Threads
<1>4. CASE Command
  BY <1>4, DecideFacts, StageFacts DEF Command, Heard, Threads
<1>5. CASE OtherMessage
  BY <1>5 DEF OtherMessage, Heard
<1>6. CASE TimerFires
  BY <1>6, DecideFacts, StageFacts DEF TimerFires, Threads
<1>7. CASE DeadlinePasses
  <2>1. row' \in Row
    BY <1>7, RowFacts DEF DeadlinePasses
  <2> QED BY <1>7, <2>1 DEF DeadlinePasses
<1>8. CASE GetExpiredDeadlines
  BY <1>8, StageFacts DEF GetExpiredDeadlines, Goto, Threads
<1>9. CASE SkipRow
  <2>1. row' \in Row /\ failures' \in Nat
    BY <1>9, RowFacts, WriteFacts DEF SkipRow, ClearIfOver, RowIsStale, Fails
  <2> QED BY <1>9, <2>1, StageFacts DEF SkipRow, Goto, Threads
<1>10. CASE ChargeRow
  BY <1>10, StageFacts DEF ChargeRow, Goto, Threads
<1>11. CASE TimeoutByScheduler
  BY <1>11, DecideFacts, StageFacts DEF TimeoutByScheduler, Goto, Threads
<1>12. CASE Reschedule
  <2>1. dl' \in Row
    BY <1>12, RowFacts DEF Reschedule, NextDeadline
  <2> QED BY <1>12, <2>1, StageFacts DEF Reschedule, Goto, Threads
<1>13. CASE SetTurnDeadline
  <2>1. row' \in Row /\ failures' \in Nat
    BY <1>13, WriteFacts DEF SetTurnDeadline
  <2> QED BY <1>13, <2>1, StageFacts DEF SetTurnDeadline, Goto, Threads
<1>14. CASE Restart
  <2>1. /\ restarts' = restarts + 1 /\ timer' = "none"
        /\ creation' \in {creation, "unscheduled"}
    BY <1>14, Zenon DEF Restart
  <2>3. restarts' \in Nat
    BY <2>1
  <2>2. UNCHANGED <<game, log, timerTurn, subSecond, sched, pc, cmd, failures>>
    BY <1>14, Zenon DEF Restart
  <2> QED BY <2>1, <2>2, <2>3
<1>15. CASE OpenMatch
  BY <1>15, RowFacts, SeatFacts DEF OpenMatch
<1>16. CASE UNCHANGED vars
  BY <1>16 DEF vars
<1> QED
  BY <1>1, <1>2, <1>3, <1>4, <1>5, <1>6, <1>7, <1>8, <1>9, <1>10, <1>11,
     <1>12, <1>13, <1>14, <1>15, <1>16 DEF Next, Handle, Poll

-----------------------------------------------------------------------------
(* The row of the scheduler.                                               *)

\* The steps inside handleCommand leave the rows alone and never bring a
\* match back; the scheduler stays on its way.
LEMMA HandleFacts ==
  ASSUME TypeOK, NEW t \in Threads, Handle(t)
  PROVE  /\ row' = row /\ dl' = dl /\ (over => over') /\ UNCHANGED made
         /\ \/ pc'["scheduler"] = pc["scheduler"]
            \/ /\ pc["scheduler"] \in {"decided", "applied", "written"}
               /\ pc'["scheduler"] \notin {"idle", "rescheduled"}
<1>1. CASE ApplyEvents(t)
  BY <1>1, ApplyFacts DEF Threads, TypeOK, made
<1>2. CASE AppendEvents(t)
  BY <1>2 DEF AppendEvents, Return, Goto, game, made, sched, Threads, TypeOK
<1>3. CASE FinishCommand(t)
  BY <1>3 DEF FinishCommand, Return, Goto, game, made, sched, Threads, TypeOK
<1> QED BY <1>1, <1>2, <1>3 DEF Handle

LEMMA RowInvNext == TypeOK /\ RowInv /\ [Next]_vars => RowInv'
<1> SUFFICES ASSUME TypeOK, RowInv, [Next]_vars PROVE RowInv'
  OBVIOUS
<1>0. active \in Seats /\ \A p \in Seats : Deadline(p) \in Row /\ Deadline(p) # NoRow
  BY RowFacts DEF TypeOK
<1> USE DEF RowInv, game, clock, made, sched
<1>1. ASSUME NEW t \in Threads, Handle(t) PROVE RowInv'
  BY <1>1, HandleFacts
<1>2. CASE Command
  BY <1>2, DecideFacts DEF Command, Threads, TypeOK
<1>3. CASE OtherMessage
  BY <1>3 DEF OtherMessage
<1>4. CASE TimerFires
  BY <1>4, DecideFacts DEF TimerFires, Threads, TypeOK
<1>5. CASE DeadlinePasses
  BY <1>5, RowFacts DEF DeadlinePasses, TypeOK
<1>6. CASE GetExpiredDeadlines
  BY <1>6 DEF GetExpiredDeadlines, Goto, TypeOK, Threads
<1>7. CASE SkipRow
  <2>1. pc' = [pc EXCEPT !["scheduler"] = "idle"] /\ UNCHANGED <<over, dl, made>>
        /\ pc["scheduler"] = "polled"
    BY <1>7 DEF SkipRow, Goto
  <2>2. ASSUME ~ over PROVE row' = NoRow => subSecond
    <3>1. CASE RowIsStale
      BY <1>0, <2>1, <2>2, <3>1, RowFacts, WriteFacts DEF RowIsStale, NoWholeSecond
    <3>2. CASE UNCHANGED row
      BY <2>1, <2>2, <3>2
    <3> QED BY <1>7, <2>2, <3>1, <3>2 DEF SkipRow, ClearIfOver
  <2> QED BY <2>1, <2>2 DEF TypeOK, Threads
<1>8. CASE ChargeRow
  BY <1>8 DEF ChargeRow, Goto, TypeOK, Threads
<1>9. CASE TimeoutByScheduler
  BY <1>9, DecideFacts DEF TimeoutByScheduler, Goto, TypeOK, Threads
<1>10. CASE Reschedule
  BY <1>0, <1>10 DEF Reschedule, NextDeadline, Goto, TypeOK, Threads
<1>11. CASE SetTurnDeadline
  <2>1. row' \in {dl, row}
    BY <1>11, WriteFacts DEF SetTurnDeadline, TypeOK
  <2> QED BY <1>11, <2>1 DEF SetTurnDeadline, Goto, TypeOK, Threads
<1>12. CASE Restart
  BY <1>12 DEF Restart
<1>13. CASE OpenMatch
  BY <1>0, <1>13, SeatFacts DEF OpenMatch
<1>14. CASE UNCHANGED vars
  BY <1>14 DEF vars
<1> QED
  BY <1>1, <1>2, <1>3, <1>4, <1>5, <1>6, <1>7, <1>8, <1>9, <1>10, <1>11,
     <1>12, <1>13, <1>14 DEF Next, Poll

-----------------------------------------------------------------------------
(* The timer of the actor.                                                 *)

\* The scheduler's own steps leave the game and the timer alone, and while the
\* match goes on they never bring the scheduler back to having seen no row.
LEMMA PollFacts ==
  ASSUME TypeOK, RowInv, Poll
  PROVE  /\ UNCHANGED <<over, turn, seq, log, timer, timerTurn>>
         /\ pc'["actor"] = pc["actor"] /\ cmd'["actor"] = cmd["actor"]
         /\ ~ over => dl' # NoRow
         /\ pc["scheduler"] \notin {"applied", "written"}
         /\ failures' = 0 => failures = 0
<1>0. active \in Seats /\ \A p \in Seats : Deadline(p) \in Row /\ Deadline(p) # NoRow
  BY RowFacts DEF TypeOK
<1> USE DEF RowInv, game, clock, made, sched
<1>1. CASE GetExpiredDeadlines
  BY <1>1, RowFacts DEF GetExpiredDeadlines, Goto, TypeOK, Threads
<1>2. CASE SkipRow
  <2>1. failures' = 0 => failures = 0
    BY <1>0, <1>2, RowFacts, WriteFacts DEF SkipRow, ClearIfOver, RowIsStale, Fails, TypeOK
  <2> QED BY <1>2, <2>1 DEF SkipRow, Goto, TypeOK, Threads
<1>3. CASE ChargeRow
  BY <1>3 DEF ChargeRow, Goto, TypeOK, Threads
<1>4. CASE TimeoutByScheduler
  BY <1>4, DecideFacts DEF TimeoutByScheduler, Goto, TypeOK, Threads
<1>5. CASE Reschedule
  BY <1>0, <1>5 DEF Reschedule, NextDeadline, Goto, TypeOK, Threads
<1>6. CASE SetTurnDeadline
  <2>1. failures' = 0 => failures = 0
    BY <1>6, WriteFacts DEF SetTurnDeadline, TypeOK
  <2> QED BY <1>6, <2>1 DEF SetTurnDeadline, Goto, TypeOK, Threads
<1> QED BY <1>1, <1>2, <1>3, <1>4, <1>5, <1>6 DEF Poll

LEMMA NumberFacts ==
  ASSUME TypeOK, AloneInv
  PROVE  /\ seq \in Nat /\ seq < seq + 1
         /\ \A s \in log : s \in Nat /\ s <= seq /\ s < seq + 1
         /\ \A t \in Threads : cmd[t].seq \in Nat /\ cmd[t].seq <= seq
<1>1. seq \in Nat /\ log \subseteq Nat
  BY DEF TypeOK
<1>2. \A s \in log : s <= seq
  BY DEF AloneInv
<1>3. \A t \in Threads : cmd[t].seq \in Nat /\ cmd[t].seq <= seq
  BY DEF TypeOK, AloneInv, Decision
<1>4. \A s \in log : s \in Nat /\ s < seq + 1
  BY <1>1, <1>2
<1> QED BY <1>1, <1>2, <1>3, <1>4

LEMMA AloneInvNext ==
  TypeOK /\ RowInv /\ AloneInv /\ [Next]_vars => AloneInv'
<1> SUFFICES ASSUME TypeOK, RowInv, AloneInv, [Next]_vars PROVE AloneInv'
  OBVIOUS
<1>0. /\ seq \in Nat /\ log \subseteq Nat /\ \A t \in Threads : cmd[t].seq \in Nat
      /\ pc \in [Threads -> Stage]
      /\ "actor" \in Threads /\ "scheduler" \in Threads
  BY DEF TypeOK, Threads, Decision
<1>1. ASSUME NEW t \in Threads, ApplyEvents(t) PROVE AloneInv'
  <2>1. /\ pc[t] = "decided" /\ pc' = [pc EXCEPT ![t] = "applied"]
        /\ seq' = seq + 1 /\ cmd'[t].seq = seq + 1
        /\ \A u \in Threads \ {t} : cmd'[u] = cmd[u]
        /\ UNCHANGED <<log, timer, timerTurn, dl, failures>> /\ (over => over')
    BY <1>0, <1>1, ApplyFacts
  <2>2. /\ \A s \in log' : s <= seq' /\ s < seq + 1
        /\ \A u \in Threads : cmd'[u].seq <= seq'
    BY <1>0, <2>1 DEF AloneInv
  <2>3. ASSUME ~ over', dl' = NoRow
        PROVE  /\ pc'["actor"] = "applied" => Ahead("actor")'
               /\ pc'["actor"] # "idle"
    <3>1. t = "actor"
      BY <1>0, <2>1, <2>3 DEF RowInv, Threads
    <3> QED BY <1>0, <2>1, <2>2, <3>1 DEF Ahead
  <2> QED BY <2>2, <2>3 DEF AloneInv
<1>2. ASSUME NEW t \in Threads, AppendEvents(t) PROVE AloneInv'
  <2>1. pc[t] = "applied" /\ UNCHANGED <<seq, over, turn, timerTurn, dl>>
    BY <1>2 DEF AppendEvents, game, sched
  <2>2. CASE /\ log' = log \cup {cmd[t].seq} /\ pc' = [pc EXCEPT ![t] = "written"]
             /\ UNCHANGED <<timer, cmd, failures>>
    <3>1. ASSUME ~ over, dl = NoRow PROVE pc'["actor"] = "written"
      BY <1>0, <2>1, <2>2, <3>1 DEF RowInv, Threads
    <3> QED BY <1>0, <2>1, <2>2, <3>1 DEF AloneInv
  <2>3. CASE /\ \E s \in log : s >= cmd[t].seq
             /\ Return(t) /\ UNCHANGED <<log, failures>>
    <3>1. ASSUME ~ over, dl = NoRow, failures = 0 PROVE FALSE
      <4>1. t = "actor"
        BY <2>1, <3>1 DEF RowInv, Threads
      <4>2. \A s \in log : s < cmd[t].seq
        BY <2>1, <3>1, <4>1 DEF AloneInv, Ahead
      <4>3. PICK s \in log : s >= cmd[t].seq
        BY <2>3
      <4> QED BY <4>2, <4>3, NumberFacts
    <3>2. \A u \in Threads : cmd'[u] = cmd[u] \/ cmd'[u].seq = 0
      BY <1>0, <2>3 DEF Return, NoDecision, TypeOK
    <3> QED BY <1>0, <2>1, <2>3, <3>1, <3>2 DEF AloneInv
  <2>4. CASE Return(t) /\ Fails /\ log' \in {log, log \cup {cmd[t].seq}}
    <3>1. \A u \in Threads : cmd'[u] = cmd[u] \/ cmd'[u].seq = 0
      BY <1>0, <2>4 DEF Return, NoDecision, TypeOK
    <3>2. failures' # 0
      BY <2>4 DEF Fails, TypeOK
    <3> QED BY <1>0, <2>1, <2>4, <3>1, <3>2 DEF AloneInv
  <2> QED BY <1>2, <2>2, <2>3, <2>4 DEF AppendEvents, Goto
<1>3. ASSUME NEW t \in Threads, FinishCommand(t) PROVE AloneInv'
  <2>1. /\ UNCHANGED <<seq, over, turn, log, dl, failures>> /\ timerTurn' = turn
        /\ pc' = [pc EXCEPT ![t] = IF t = "actor" THEN "idle" ELSE "timed out"]
        /\ pc[t] = "written"
    BY <1>3, ReturnFacts DEF FinishCommand, ArmedIn, game, sched
  <2>2. \A u \in Threads : cmd'[u] = cmd[u] \/ cmd'[u].seq = 0
    BY <1>0, <1>3 DEF FinishCommand, Return, NoDecision, TypeOK
  <2>3. ASSUME ~ over, dl = NoRow PROVE t = "actor"
    BY <1>0, <2>1, <2>3 DEF RowInv, Threads
  <2>4. /\ \A s \in log' : s <= seq'
        /\ \A u \in Threads : cmd'[u].seq <= seq'
    <3>1. \A u \in Threads : cmd'[u].seq <= seq
      <4>1. \A u \in Threads : cmd[u].seq <= seq /\ 0 <= seq
        BY NumberFacts
      <4> QED BY <2>2, <4>1
    <3> QED BY <2>1, <3>1, NumberFacts
  <2>5. ASSUME ~ over, dl = NoRow PROVE pc'["actor"] = "idle"
    BY <1>0, <2>1, <2>3, <2>5
  <2> QED BY <2>1, <2>4, <2>5 DEF AloneInv
<1>4. ASSUME NEW t \in Threads, Decide(t), UNCHANGED <<game, log, dl, timerTurn, failures>>,
             t = "scheduler" => UNCHANGED timer
      PROVE  AloneInv'
  <2>1. /\ pc' = [pc EXCEPT ![t] = "decided"]
        /\ \A u \in Threads : cmd'[u] = cmd[u] \/ cmd'[u].seq = 0
        /\ \A u \in Threads \ {t} : cmd'[u] = cmd[u]
    <3>1. pc' = [pc EXCEPT ![t] = "decided"] /\ cmd \in [Threads -> Decision]
      BY <1>4 DEF Decide, Goto, TypeOK
    <3>2. PICK c \in Decisions : cmd' = [cmd EXCEPT ![t] = c]
      BY <1>4 DEF Decide
    <3>3. c.seq = 0
      <4>1. PICK o \in Outcomes :
              c = [player |-> active, turn |-> turn, outcome |-> o,
                   lastOfRound |-> taken + 1 >= N, first |-> first, seq |-> 0]
        BY DEF Decisions
      <4> QED BY <4>1, Zenon
    <3> QED BY <3>1, <3>2, <3>3
  <2>2. \A s \in log' : s <= seq'
    BY <1>4 DEF AloneInv, game
  <2>3. \A u \in Threads : cmd'[u].seq <= seq'
    BY <1>0, <1>4, <2>1, NumberFacts DEF game
  <2>4. ASSUME ~ over', dl' = NoRow, failures' = 0
        PROVE  /\ pc'["actor"] = "applied" => Ahead("actor")'
               /\ pc'["actor"] = "idle" /\ timer' \in {"armed", "deaf"} =>
                    timerTurn' = turn'
    <3>1. CASE t = "actor"
      BY <1>0, <2>1, <3>1
    <3>2. CASE t = "scheduler"
      BY <1>0, <1>4, <2>1, <2>4, <3>2 DEF AloneInv, Ahead, game, Threads
    <3> QED BY <3>1, <3>2 DEF Threads
  <2> QED BY <2>2, <2>3, <2>4 DEF AloneInv
<1> USE DEF game, clock, made, sched
<1>5. CASE Command
  BY <1>0, <1>4, <1>5 DEF Command
<1>6. CASE OtherMessage
  BY <1>6 DEF OtherMessage, Heard, AloneInv, Ahead
<1>7. CASE TimerFires
  <2>1. CASE over
    BY <1>7, <2>1 DEF TimerFires, AloneInv, Ahead
  <2>2. CASE ~ over
    BY <1>0, <1>4, <1>7, <2>2 DEF TimerFires
  <2> QED BY <2>1, <2>2
<1>8. CASE DeadlinePasses
  BY <1>8 DEF DeadlinePasses, AloneInv, Ahead
<1>9. CASE Poll
  <2>1. CASE TimeoutByScheduler /\ ~ over
    BY <1>0, <1>4, <2>1 DEF TimeoutByScheduler
  <2>2. CASE ~ (TimeoutByScheduler /\ ~ over)
    <3>1. UNCHANGED cmd
      BY <1>9, <2>2 DEF Poll, GetExpiredDeadlines, SkipRow, ChargeRow,
         TimeoutByScheduler, Reschedule, SetTurnDeadline
    <3> QED BY <1>9, <3>1, PollFacts DEF AloneInv, Ahead
  <2> QED BY <2>1, <2>2
<1>10. CASE Restart
  BY <1>10 DEF Restart, AloneInv, Ahead
<1>11. CASE OpenMatch
  BY <1>11 DEF OpenMatch, AloneInv, Ahead
<1>12. CASE UNCHANGED vars
  BY <1>12 DEF vars, AloneInv, Ahead
<1> QED
  BY <1>1, <1>2, <1>3, <1>5, <1>6, <1>7, <1>8, <1>9, <1>10, <1>11, <1>12
  DEF Next, Handle

\* A match that is over still has somebody to stop its timer.
LEMMA EndingInvNext ==
  TypeOK /\ RowInv /\ AloneInv /\ EndingInv /\ [Next]_vars => EndingInv'
<1> SUFFICES ASSUME TypeOK, RowInv, AloneInv, EndingInv, [Next]_vars,
                    over', failures' = 0, timer' \in {"armed", "deaf"}
             PROVE  \E u \in Threads :
                      \/ pc'[u] = "written"
                      \/ pc'[u] = "applied" /\ \A s \in log' : s < cmd'[u].seq
  BY DEF EndingInv, Ahead
<1> DEFINE Stops(u) == \/ pc[u] = "written"
                       \/ pc[u] = "applied" /\ \A s \in log : s < cmd[u].seq
           Goal == \E u \in Threads :
                      \/ pc'[u] = "written"
                      \/ pc'[u] = "applied" /\ \A s \in log' : s < cmd'[u].seq
<1>0. /\ seq \in Nat /\ log \subseteq Nat /\ \A t \in Threads : cmd[t].seq \in Nat
      /\ pc \in [Threads -> Stage]
      /\ "actor" \in Threads /\ "scheduler" \in Threads
  BY DEF TypeOK, Threads, Decision
<1>1. ASSUME NEW t \in Threads, ApplyEvents(t) PROVE Goal
  <2>1. pc' = [pc EXCEPT ![t] = "applied"] /\ cmd'[t].seq = seq + 1 /\ log' = log
    BY <1>1, ApplyFacts
  <2>2. \A s \in log : s < seq + 1
    BY NumberFacts
  <2> QED BY <1>0, <2>1, <2>2
<1>2. ASSUME NEW t \in Threads, AppendEvents(t) PROVE Goal
  <2>1. pc[t] = "applied" /\ over' = over
    BY <1>2 DEF AppendEvents, game
  <2>2. CASE Goto(t, "written")
    BY <1>0, <2>2 DEF Goto
  <2>3. CASE /\ \E s \in log : s >= cmd[t].seq
             /\ Return(t) /\ UNCHANGED <<log, failures>>
             /\ timer' = IF t = "actor" THEN Heard ELSE timer
    <3>1. over /\ failures = 0 /\ timer \in {"armed", "deaf"}
      BY <2>1, <2>3 DEF Heard, TypeOK
    <3>2. PICK u \in Threads : Stops(u)
      BY <3>1 DEF EndingInv, Ahead
    <3>3. ASSUME u = t PROVE FALSE
      <4>1. \A s \in log : s < cmd[t].seq
        BY <2>1, <3>2, <3>3
      <4>2. PICK s \in log : s >= cmd[t].seq
        BY <2>3
      <4> QED BY <4>1, <4>2, NumberFacts
    <3>4. pc'[u] = pc[u] /\ cmd'[u] = cmd[u]
      BY <1>0, <2>3, <3>3, ReturnFacts
    <3> QED BY <2>3, <3>2, <3>4
  <2>4. ~ Fails
    BY DEF Fails, TypeOK
  <2> QED BY <1>2, <2>2, <2>3, <2>4 DEF AppendEvents
<1>3. ASSUME NEW t \in Threads, FinishCommand(t) PROVE Goal
  BY <1>3 DEF FinishCommand, Rearmed, game
<1>4. ASSUME over, failures = 0, timer \in {"armed", "deaf"}, log' = log,
             \A u \in Threads : pc[u] \in {"applied", "written"} =>
               pc'[u] = pc[u] /\ cmd'[u] = cmd[u]
      PROVE  Goal
  <2>1. PICK u \in Threads : Stops(u)
    BY <1>4 DEF EndingInv, Ahead
  <2> QED BY <1>4, <2>1
<1> USE DEF game, clock, made, sched
<1>5. CASE Command
  BY <1>5 DEF Command
<1>6. CASE OtherMessage
  BY <1>4, <1>6 DEF OtherMessage
<1>7. CASE TimerFires
  BY <1>7 DEF TimerFires
<1>8. CASE DeadlinePasses
  BY <1>4, <1>8 DEF DeadlinePasses
<1>9. CASE Poll
  BY <1>4, <1>9, PollFacts DEF Threads
<1>10. CASE Restart
  BY <1>10 DEF Restart
<1>11. CASE OpenMatch
  BY <1>4, <1>11 DEF OpenMatch
<1>12. CASE UNCHANGED vars
  BY <1>4, <1>12 DEF vars
<1> QED
  BY <1>1, <1>2, <1>3, <1>5, <1>6, <1>7, <1>8, <1>9, <1>10, <1>11, <1>12
  DEF Next, Handle

\* While nothing fails somebody minds the timer, or the row is of the player
\* at turn.
LEMMA TimerInvNext ==
  TypeOK /\ RowInv /\ AloneInv /\ TimerInv /\ [Next]_vars => TimerInv'
<1> SUFFICES ASSUME TypeOK, RowInv, AloneInv, TimerInv, [Next]_vars,
                    restarts' = 0, failures' = 0, ~ over'
             PROVE  TimerInv'
  BY DEF TimerInv
<1>0. /\ pc \in [Threads -> Stage] /\ restarts \in Nat /\ failures \in Nat
      /\ "actor" \in Threads /\ "scheduler" \in Threads
  BY DEF TypeOK, Threads
<1>1. ASSUME NEW t \in Threads, ApplyEvents(t) PROVE TimerInv'
  <2>1. /\ pc[t] = "decided" /\ pc' = [pc EXCEPT ![t] = "applied"] /\ ~ over
        /\ cmd'[t].seq = seq + 1 /\ \A u \in Threads \ {t} : cmd'[u] = cmd[u]
        /\ UNCHANGED <<log, timer, row, dl, restarts, failures>>
    BY <1>1, ApplyFacts, Zenon
  <2>2. t = "actor" => Ahead("actor")'
    BY <2>1, NumberFacts DEF Ahead
  <2>3. t = "scheduler" => (Ahead("actor") <=> Ahead("actor")')
    BY <1>0, <2>1 DEF Ahead, Threads
  <2> QED BY <1>0, <2>1, <2>2, <2>3 DEF TimerInv, Threads
<1>2. ASSUME NEW t \in Threads, AppendEvents(t) PROVE TimerInv'
  <2>1. /\ pc[t] = "applied" /\ ~ over /\ restarts = 0
        /\ UNCHANGED <<active, over, row, dl, restarts>>
    BY <1>2 DEF AppendEvents, game, sched
  <2>2. CASE pc' = [pc EXCEPT ![t] = "written"] /\ UNCHANGED <<timer, failures>>
    BY <1>0, <2>1, <2>2 DEF TimerInv, Threads
  <2>3. CASE /\ \E s \in log : s >= cmd[t].seq
             /\ Return(t) /\ UNCHANGED <<log, failures>>
             /\ timer' = IF t = "actor" THEN Heard ELSE timer
    <3>1. ~ Ahead(t)
      BY NumberFacts, <2>3 DEF Ahead
    <3>2. /\ pc' = [pc EXCEPT ![t] = IF t = "actor" THEN "idle" ELSE "timed out"]
          /\ \A u \in Threads \ {t} : cmd'[u] = cmd[u]
      BY <2>3, ReturnFacts
    <3>3. CASE t = "actor"
      BY <1>0, <2>1, <2>3, <3>1, <3>2, <3>3 DEF TimerInv, Heard, Threads
    <3>4. CASE t = "scheduler"
      <4>1. Ahead("actor") <=> Ahead("actor")'
        BY <1>0, <2>3, <3>2, <3>4 DEF Ahead, Threads
      <4> QED BY <1>0, <2>1, <2>3, <3>2, <3>4, <4>1 DEF TimerInv, Threads
    <3> QED BY <3>3, <3>4 DEF Threads
  <2>4. ~ Fails
    BY <1>0 DEF Fails
  <2> QED BY <1>2, <2>2, <2>3, <2>4 DEF AppendEvents, Goto
<1>3. ASSUME NEW t \in Threads, FinishCommand(t) PROVE TimerInv'
  <2>1. /\ pc' = [pc EXCEPT ![t] = IF t = "actor" THEN "idle" ELSE "timed out"]
        /\ timer' = Rearmed(t) /\ ~ over
    BY <1>3, ReturnFacts DEF FinishCommand, game
  <2> QED BY <1>0, <2>1 DEF TimerInv, Rearmed, Threads
<1> USE DEF game, clock, made, sched
<1>4. CASE Command
  BY <1>0, <1>4, DecideFacts DEF Command, Heard, TimerInv, Threads
<1>5. CASE OtherMessage
  BY <1>5 DEF OtherMessage, Heard, TimerInv
<1>6. CASE TimerFires
  BY <1>0, <1>6, DecideFacts DEF TimerFires, TimerInv, Threads
<1>7. CASE DeadlinePasses
  BY <1>7, RowFacts DEF DeadlinePasses, TimerInv, Ahead, TypeOK
<1>8. CASE Poll
  <2>1. /\ UNCHANGED <<over, active, log, timer, restarts>>
        /\ pc'["actor"] = pc["actor"] /\ cmd'["actor"] = cmd["actor"]
        /\ failures = 0 /\ pc["scheduler"] \notin {"applied", "written"}
    BY <1>8, PollFacts DEF Poll, GetExpiredDeadlines, SkipRow, ChargeRow,
       TimeoutByScheduler, Reschedule, SetTurnDeadline
  <2>2. Ahead("actor") <=> Ahead("actor")'
    BY <2>1 DEF Ahead
  <2>3. SUFFICES ASSUME timer = "deaf"
                 PROVE  /\ pc'["scheduler"] = "idle" => row'.player = active
                        /\ pc'["scheduler"] \in {"polled", "rescheduled"}
                             => dl'.player = active
    BY <2>1, <2>2 DEF TimerInv
  <2>4. /\ pc["scheduler"] = "idle" => row.player = active
        /\ pc["scheduler"] \in {"polled", "rescheduled"} => dl.player = active
    BY <2>1, <2>3 DEF TimerInv
  <2>5. CASE GetExpiredDeadlines
    BY <1>0, <2>4, <2>5 DEF GetExpiredDeadlines, Goto
  <2>6. CASE SkipRow
    BY <2>1, <2>4, <2>6 DEF SkipRow, ClearIfOver, RowIsStale
  <2>7. CASE ChargeRow
    BY <1>0, <2>7 DEF ChargeRow, Goto
  <2>8. CASE TimeoutByScheduler
    BY <1>0, <2>1, <2>8, DecideFacts DEF TimeoutByScheduler
  <2>9. CASE Reschedule
    <3>0. ~ over
      BY <2>1
    <3>1. dl' = Deadline(active)
      BY <2>9, <3>0, Zenon DEF Reschedule, NextDeadline
    <3>2. active \in Seats
      BY DEF TypeOK
    <3> QED BY <1>0, <2>9, <3>1, <3>2, RowFacts DEF Reschedule, Goto
  <2>10. CASE SetTurnDeadline
    <3>1. row' = dl
      BY <2>10, WriteFacts DEF SetTurnDeadline, TypeOK
    <3> QED BY <1>0, <2>4, <2>10, <3>1 DEF SetTurnDeadline, Goto
  <2> QED BY <1>8, <2>5, <2>6, <2>7, <2>8, <2>9, <2>10 DEF Poll
<1>9. CASE Restart
  BY <1>0, <1>9 DEF Restart
<1>10. CASE OpenMatch
  <2>1. UNCHANGED <<over, active, log, timer, restarts, failures, pc, cmd, dl>>
    BY <1>10 DEF OpenMatch
  <2>2. timer # "deaf"
    <3>1. row = NoRow /\ pc["scheduler"] = "idle" /\ active \in Seats
      BY <1>10 DEF OpenMatch, RowInv, TypeOK
    <3> QED BY <2>1, <3>1, RowFacts DEF TimerInv
  <2> QED BY <2>1, <2>2 DEF TimerInv, Ahead
<1>11. CASE UNCHANGED vars
  BY <1>11 DEF vars, TimerInv, Ahead
<1> QED
  BY <1>1, <1>2, <1>3, <1>4, <1>5, <1>6, <1>7, <1>8, <1>9, <1>10, <1>11
  DEF Next, Handle

-----------------------------------------------------------------------------
(* The inductive invariant, and what follows from it.                      *)

LEMMA IInvInit == Init => IInv
<1> SUFFICES ASSUME Init PROVE IInv
  OBVIOUS
<1>1. RowInv
  BY SeatFacts, RowFacts DEF Init, RowInv, Threads
<1>2. AloneInv
  BY DEF Init, AloneInv, Ahead, Threads, NoDecision
<1>3. EndingInv
  BY DEF Init, EndingInv
<1>4. TimerInv
  BY DEF Init, TimerInv
<1> QED BY <1>1, <1>2, <1>3, <1>4 DEF IInv

\* The types and the invariant hold in every reachable state.
THEOREM Invariant == Spec => [](TypeOK /\ IInv)
<1>1. TypeOK /\ IInv /\ [Next]_vars => IInv'
  BY RowInvNext, AloneInvNext, EndingInvNext, TimerInvNext DEF IInv
<1> QED BY <1>1, TypeOKInit, TypeOKNext, IInvInit, PTL DEF Spec

\* A match that goes on is left with neither row nor timer only if its row was
\* never written or its timeout is below a second, and only if besides that
\* the server was restarted or a call of the store failed: whatever the two
\* goroutines do inside each other's commands, they never do it by themselves.
THEOREM NotLeftAlone == Spec => []NeverLeftAlone
<1>1. ASSUME TypeOK, IInv, LeftAlone
      PROVE  (creation = "unscheduled" \/ subSecond) /\ restarts + failures > 0
  <2>1. /\ ~ over /\ row = NoRow /\ pc["actor"] = "idle" /\ pc["scheduler"] = "idle"
        /\ creation # "pending" /\ timer \in {"none", "fired", "deaf"}
    BY <1>1 DEF LeftAlone, TypeOK, Threads
  <2>2. creation = "unscheduled" \/ subSecond
    BY <1>1, <2>1 DEF IInv, RowInv, TypeOK
  <2>3. ASSUME restarts = 0, failures = 0 PROVE FALSE
    <3>1. timer = "deaf" /\ row.player = active
      BY <1>1, <2>1, <2>3 DEF IInv, TimerInv
    <3>2. active \in Seats
      BY <1>1 DEF TypeOK
    <3> QED BY <2>1, <3>1, <3>2, RowFacts
  <2> QED BY <1>1, <2>2, <2>3 DEF TypeOK
<1>2. TypeOK /\ IInv => NeverLeftAlone
  BY <1>1 DEF NeverLeftAlone
<1> QED BY <1>2, Invariant, PTL

\* Until the scheduler steps in, no turn is cut short by a timer that was
\* armed in an earlier one.
THEOREM TimerIsOfThisTurn == Spec => []TimerOfThisTurn
<1>1. ASSUME TypeOK, IInv, dl = NoRow, failures = 0,
             timer = "armed", pc["actor"] = "idle"
      PROVE  timerTurn = turn
  <2>1. CASE ~ over
    BY <1>1, <2>1 DEF IInv, AloneInv
  <2>2. CASE over
    <3>1. PICK t \in Threads : pc[t] \in {"applied", "written"}
      BY <1>1, <2>2 DEF IInv, EndingInv
    <3>2. t = "scheduler"
      BY <1>1, <3>1 DEF Threads
    <3> QED BY <1>1, <3>1, <3>2 DEF IInv, RowInv
  <2> QED BY <2>1, <2>2
<1>2. TypeOK /\ IInv => TimerOfThisTurn
  BY <1>1 DEF TimerOfThisTurn
<1> QED BY <1>2, Invariant, PTL
=============================================================================

---------------------------- MODULE TurnDeadline ----------------------------
(***************************************************************************)
(* Who moves for a player that does not: the turn timer of the actor       *)
(* (internal/match/actor.go) and the DeadlineScheduler                     *)
(* (internal/match/deadline.go), which polls the turn_deadlines table.     *)
(*                                                                         *)
(* Both run handleTurnTimeout, and with it handleCommand, on one Actor:    *)
(* the first in the actor's goroutine, the second in its own.  Each        *)
(* goroutine is cut where the other can get in: after Decide, after the    *)
(* events were applied, after they were written.  Of the game only the     *)
(* turn is kept; what a command does beside it is in TurnEngine, what a    *)
(* crash in the middle of one does is in MatchActor.  Calls of the store   *)
(* may fail; where the code ignores the error, so does the model.  How     *)
(* often a player missed a turn decides only whether the default move or   *)
(* the bot's is made, and either may or may not end the turn.  The         *)
(* unsynchronised reads and writes of one step are taken as atomic.        *)
(***************************************************************************)
EXTENDS Naturals

CONSTANTS
  N,            \* number of players
  MaxSeq,       \* bound: the decision taken at this eventSeq ends the match
  MaxRestarts,  \* bound on restarts of the server
  MaxFailures   \* bound on store calls that return an error

ASSUME DeadlineAssumption ==
  /\ N \in Nat \ {0} /\ MaxSeq \in Nat
  /\ MaxRestarts \in Nat /\ MaxFailures \in Nat

Seats == 0 .. N - 1
Succ(i) == IF i + 1 < N THEN i + 1 ELSE 0

VARIABLES
  first, taken, active,  \* a.state: FirstIdx, TurnsTaken, ActiveIdx
  over,       \* a.state.Over()
  turn,       \* history: the number of the turn being played
  seq,        \* a.eventSeq, one event per decision here
  ended,      \* history: the turns that were ended
  endedTwice, \* history: those that were ended again
  log,        \* the sequence numbers in match_events
  timer,      \* a.turnTimer: "none", "armed", "fired", or "deaf" when the
              \* actor's select still waits on the timer this one replaced
  timerTurn,  \* history: the turn the timer was armed in
  creation,   \* CreateMatch: "pending" until it has tried to write the first
              \* row, then "scheduled", or "unscheduled" without one
  subSecond,  \* whether the match was made with a turn timeout below a second
  row,        \* the row of turn_deadlines
  dl,         \* the scheduler's copy of a row
  pc,         \* where each goroutine is
  cmd,        \* the decision each goroutine is carrying out
  restarts,
  failures    \* store calls that failed, but for the first row's

game  == <<first, taken, active, over, turn, seq, ended, endedTwice>>
clock == <<timer, timerTurn>>
sched == <<row, dl>>
made  == <<creation, subSecond>>
vars  == <<first, taken, active, over, turn, seq, ended, endedTwice, log,
           timer, timerTurn, creation, subSecond, row, dl, pc, cmd, restarts,
           failures>>

-----------------------------------------------------------------------------
Threads == {"actor", "scheduler"}
Outcomes == {"acts", "ends turn", "ends match"}

Deadline(p) == [player |-> p, expired |-> FALSE]
NoRow == [player |-> N, expired |-> FALSE]

NoDecision ==
  [player |-> 0, turn |-> 0, outcome |-> "acts", lastOfRound |-> FALSE,
   first |-> 0, seq |-> 0]

\* What Decide makes of the state as it finds it
Decisions ==
  {[player |-> active, turn |-> turn, outcome |-> o,
    lastOfRound |-> taken + 1 >= N, first |-> first, seq |-> 0] :
      o \in {x \in Outcomes : seq >= MaxSeq => x = "ends match"}}

Goto(t, l) == pc' = [pc EXCEPT ![t] = l]

\* A call of the store returns an error.
Fails == failures < MaxFailures /\ failures' = failures + 1

\* SetTurnDeadline, or ClearTurnDeadline for NoRow; errors are ignored.
Write(r) ==
  \/ row' = r /\ UNCHANGED failures
  \/ Fails /\ UNCHANGED row

\* CreateMatch up to the reply of the actor: the match and its first events
\* are in the store, the first player's timer runs.
Init ==
  /\ first = 0 /\ taken = 0 /\ active = 0 /\ over = FALSE /\ turn = 0
  /\ seq = 0 /\ ended = {} /\ endedTwice = {} /\ log = {}
  /\ timer = "armed" /\ timerTurn = 0
  /\ creation = "pending" /\ subSecond \in BOOLEAN
  /\ row = NoRow /\ dl = NoRow
  /\ pc = [t \in Threads |-> "idle"] /\ cmd = [t \in Threads |-> NoDecision]
  /\ restarts = 0 /\ failures = 0

\* The rest of CreateMatch: it writes the first row, and whether or not it
\* could, lets go of the registry, which nobody could enter meanwhile.
OpenMatch ==
  /\ creation = "pending"
  /\ \/ creation' = "scheduled" /\ row' = Deadline(0)
     \/ creation' = "unscheduled" /\ UNCHANGED row
  /\ UNCHANGED <<game, log, clock, subSecond, dl, pc, cmd, restarts, failures>>

-----------------------------------------------------------------------------
(* handleCommand, in the goroutine t that called it.                       *)

\* Applying EvTurnEnded counts up, EvRoundStarted and EvTurnStarted set.
ApplyTurn(c) ==
  IF c.outcome # "ends turn"
  THEN UNCHANGED <<first, taken, active, turn, ended, endedTwice>>
  ELSE /\ first' = IF c.lastOfRound THEN Succ(c.first) ELSE first
       /\ taken' = IF c.lastOfRound THEN 0 ELSE taken + 1
       /\ active' = IF c.lastOfRound THEN Succ(c.first) ELSE Succ(c.player)
       /\ turn' = c.turn + 1
       /\ ended' = ended \cup {c.turn}
       /\ endedTwice' = endedTwice \cup (ended \cap {c.turn})

ApplyEvents(t) ==
  /\ pc[t] = "decided"
  /\ ApplyTurn(cmd[t])
  /\ over' = (over \/ cmd[t].outcome = "ends match")
  /\ seq' = seq + 1
  /\ cmd' = [cmd EXCEPT ![t].seq = seq']
  /\ Goto(t, "applied")
  /\ UNCHANGED <<log, clock, made, sched, restarts, failures>>

\* Where the caller goes on: the actor to its inbox, the scheduler to the row.
Return(t) ==
  /\ Goto(t, IF t = "actor" THEN "idle" ELSE "timed out")
  /\ cmd' = [cmd EXCEPT ![t] = NoDecision]

\* Back in its loop the actor waits on the timer that is there now.
Heard == IF timer = "deaf" THEN "armed" ELSE timer

\* Both stores refuse a number that is taken, MemoryStore also one that is
\* behind the last; any call may fail, with or without its effect.  The
\* command then ends, and leaves the timer as it was.
AppendEvents(t) ==
  /\ pc[t] = "applied"
  /\ \/ /\ cmd[t].seq \notin log
        /\ log' = log \cup {cmd[t].seq}
        /\ Goto(t, "written") /\ UNCHANGED <<timer, cmd, failures>>
     \/ /\ \/ (\E s \in log : s >= cmd[t].seq) /\ UNCHANGED <<log, failures>>
           \/ Fails /\ log' \in {log, log \cup {cmd[t].seq}}
        /\ Return(t)
        /\ timer' = IF t = "actor" THEN Heard ELSE timer
  /\ UNCHANGED <<game, timerTurn, made, sched, restarts>>

\* The actor's select learns of a new timer only when the loop comes round.
Rearmed(t) ==
  IF over THEN "none"
  ELSE IF t = "scheduler" /\ pc["actor"] = "idle" THEN "deaf" ELSE "armed"

\* mutant: a running timer is left alone
ArmedIn_KeepsRunning == IF timer = "armed" THEN timerTurn ELSE turn
ArmedIn == turn

\* The end of handleCommand; the timer is stopped when the match is over.
FinishCommand(t) ==
  /\ pc[t] = "written"
  /\ timer' = Rearmed(t) /\ timerTurn' = ArmedIn
  /\ Return(t)
  /\ UNCHANGED <<game, log, made, sched, restarts, failures>>

\* A goroutine enters handleCommand; Decide reads the state.
Decide(t) ==
  /\ \E c \in Decisions : cmd' = [cmd EXCEPT ![t] = c]
  /\ Goto(t, "decided")

-----------------------------------------------------------------------------
(* The actor's goroutine.                                                  *)

Command ==
  /\ pc["actor"] = "idle" /\ ~ over /\ creation # "pending"
  /\ Decide("actor")
  /\ timer' = Heard
  /\ UNCHANGED <<game, log, timerTurn, made, sched, restarts, failures>>

\* A rejected command, a join or a resync: only the loop comes round.
OtherMessage ==
  /\ pc["actor"] = "idle" /\ timer = "deaf"
  /\ timer' = Heard
  /\ UNCHANGED <<game, log, timerTurn, made, sched, pc, cmd>>
  /\ UNCHANGED <<restarts, failures>>

\* The timer of the actor goes off, and handleTurnTimeout moves.
TimerFires ==
  /\ pc["actor"] = "idle" /\ timer = "armed"
  /\ timer' = "fired"
  /\ IF over THEN UNCHANGED <<pc, cmd>> ELSE Decide("actor")
  /\ UNCHANGED <<game, log, timerTurn, made, sched, restarts, failures>>

-----------------------------------------------------------------------------
(* The scheduler's goroutine: processExpiredDeadline.                      *)

\* Time passes.
DeadlinePasses ==
  /\ row # NoRow /\ ~ row.expired
  /\ row' = [row EXCEPT !.expired = TRUE]
  /\ UNCHANGED <<game, log, clock, made, dl, pc, cmd, restarts, failures>>

GetExpiredDeadlines ==
  /\ pc["scheduler"] = "idle"
  /\ row # NoRow /\ row.expired
  /\ dl' = row
  /\ Goto("scheduler", "polled")
  /\ UNCHANGED <<game, log, clock, made, row, cmd, restarts, failures>>

ClearIfOver_Keeps == over /\ UNCHANGED <<row, failures>>           \* mutant
ClearIfOver == over /\ Write(NoRow)

\* int(actor.turnTimeout.Seconds()) <= 0.  A restored match has whole seconds
\* (matches.turn_timeout_sec), at least one: the store puts 90 for none.
NoWholeSecond == subSecond /\ restarts = 0

RowIsStale_Keeps ==                                                \* mutant
  ~ over /\ active # dl.player /\ UNCHANGED <<row, failures>>
\* Somebody else is at turn: the row is only made to follow, or cleared when
\* the timeout is less than ScheduleNextTurnDeadline can count.
RowIsStale ==
  /\ ~ over /\ active # dl.player
  /\ Write(IF NoWholeSecond THEN NoRow ELSE Deadline(active))

\* After a restart the match may not be loaded yet; if that fails, the row is
\* passed over.
SkipRow ==
  /\ pc["scheduler"] = "polled"
  /\ ClearIfOver \/ RowIsStale \/ (restarts > 0 /\ Fails /\ UNCHANGED row)
  /\ Goto("scheduler", "idle")
  /\ UNCHANGED <<game, log, clock, made, dl, cmd, restarts>>

\* The player of the row is at turn, and has missed the deadline.
ChargeRow ==
  /\ pc["scheduler"] = "polled" /\ ~ over /\ active = dl.player
  /\ Goto("scheduler", "charged")
  /\ UNCHANGED <<game, log, clock, made, sched, cmd, restarts, failures>>

\* actor.handleTurnTimeout(), called directly; it looks at the state anew.
TimeoutByScheduler ==
  /\ pc["scheduler"] = "charged"
  /\ IF over THEN Goto("scheduler", "timed out") /\ UNCHANGED cmd
     ELSE Decide("scheduler")
  /\ UNCHANGED <<game, log, clock, made, sched, restarts, failures>>

NextDeadline_SamePlayer ==                                         \* mutant
  IF active = dl.player THEN Deadline(active) ELSE NoRow
NextDeadline == Deadline(active)

\* The state is read, then the row is written: dl holds what will be written.
Reschedule ==
  /\ pc["scheduler"] = "timed out"
  /\ dl' = IF over THEN NoRow ELSE NextDeadline
  /\ Goto("scheduler", "rescheduled")
  /\ UNCHANGED <<game, log, clock, made, row, cmd, restarts, failures>>

SetTurnDeadline ==
  /\ pc["scheduler"] = "rescheduled"
  /\ Write(dl)
  /\ Goto("scheduler", "idle")
  /\ UNCHANGED <<game, log, clock, made, dl, cmd, restarts>>

-----------------------------------------------------------------------------
\* A restart: the scheduler is stopped, then the actor; the match is restored
\* as it was (what a crash loses is in MatchActor), but without its timer.
\* Only a crash gets in before CreateMatch has come to the row, and nobody
\* writes it afterwards.
Restart ==
  /\ restarts < MaxRestarts
  /\ \A t \in Threads : pc[t] = "idle"
  /\ restarts' = restarts + 1
  /\ creation' = IF creation = "pending" THEN "unscheduled" ELSE creation
  /\ timer' = "none"
  /\ UNCHANGED <<game, log, timerTurn, subSecond, sched, pc, cmd, failures>>

Handle(t) == ApplyEvents(t) \/ AppendEvents(t) \/ FinishCommand(t)

Poll ==
  \/ GetExpiredDeadlines \/ SkipRow \/ ChargeRow \/ TimeoutByScheduler
  \/ Reschedule \/ SetTurnDeadline

Next ==
  \/ \E t \in Threads : Handle(t)
  \/ Command \/ OtherMessage \/ TimerFires
  \/ OpenMatch \/ DeadlinePasses \/ Poll \/ Restart

\* Time passes, a goroutine inside a call goes on (CreateMatch too), and the
\* ticker of the scheduler comes round.  No player has to do anything.
Fairness ==
  /\ \A t \in Threads : WF_vars(Handle(t))
  /\ WF_vars(OpenMatch) /\ WF_vars(Poll)
  /\ WF_vars(DeadlinePasses) /\ WF_vars(TimerFires)

Spec == Init /\ [][Next]_vars /\ Fairness

-----------------------------------------------------------------------------
(* Properties.                                                             *)

\* The match goes on and nothing in the server will ever move it: it has no
\* row, and no timer that somebody waits for.
LeftAlone ==
  /\ ~ over /\ creation # "pending"
  /\ row = NoRow /\ timer # "armed" /\ \A t \in Threads : pc[t] = "idle"

\* For a match to be left alone two things must go wrong: its row was never
\* written, or is cleared because the timeout is below a second; and its timer
\* is lost in a restart or in a command that could not be written.
NeverLeftAlone ==
  LeftAlone =>
    (creation = "unscheduled" \/ subSecond) /\ restarts + failures > 0

\* An unattended match comes to its end, unless it is left alone for good:
\* also after a restart that leaves no timer, over calls that fail, and
\* although the two goroutines get in each other's way.
MatchEnds == []<>(~ LeftAlone) => <> over

\* A finished match is not polled for ever: its row goes, and stays away.
RowGoesAway == over ~> [](row = NoRow)

\* Until the scheduler steps in, the timer that is running was armed in the
\* turn that is being played, so nobody inherits the rest of another's time.
\* (dl is empty before the first row is picked up and after the match.)  A
\* command that could not be written leaves the timer of the turn it ended.
TimerOfThisTurn ==
  dl = NoRow /\ failures = 0 /\ timer = "armed" /\ pc["actor"] = "idle" =>
    timerTurn = turn

\* All changes of the state are serialised: a turn is ended once.
TurnEndedOnce == endedTwice = {}

-----------------------------------------------------------------------------
(* The inductive invariant behind the safety properties.                   *)

Row == {NoRow} \cup [player : Seats, expired : BOOLEAN]
Decision == [player : Seats, turn : Nat, outcome : Outcomes,
             lastOfRound : BOOLEAN, first : Seats, seq : Nat]
InCommand == {"idle", "decided", "applied", "written"}
Stage == InCommand \cup {"polled", "charged", "timed out", "rescheduled"}

\* Every variable keeps to its type.
TypeOK ==
  /\ first \in Seats /\ taken \in Nat /\ active \in Seats /\ over \in BOOLEAN
  /\ turn \in Nat /\ seq \in Nat /\ log \subseteq Nat
  /\ timer \in {"none", "armed", "fired", "deaf"} /\ timerTurn \in Nat
  /\ creation \in {"pending", "scheduled", "unscheduled"}
  /\ subSecond \in BOOLEAN
  /\ row \in Row /\ dl \in Row /\ restarts \in Nat /\ failures \in Nat
  /\ cmd \in [Threads -> Decision]
  /\ pc \in [Threads -> Stage] /\ pc["actor"] \in InCommand

\* The scheduler carries a row whenever it is on its way with one, and is on
\* its way only while there is one.  While the match goes on it has its row,
\* unless that was never written or the timeout is below a second.
RowInv ==
  /\ pc["scheduler"] \notin {"idle", "rescheduled"} => dl # NoRow
  /\ ~ over /\ pc["scheduler"] = "rescheduled" => dl # NoRow
  /\ ~ over /\ row = NoRow =>
       pc["scheduler"] = "idle" /\ (creation # "scheduled" \/ subSecond)
  /\ creation # "scheduled" => row = NoRow /\ pc["scheduler"] = "idle"

\* A command numbers its event behind everything that was written before.
Ahead(t) == \A s \in log : s < cmd[t].seq

\* Before the scheduler picks up its first row the actor is alone: the store
\* refuses none of its commands, and its timer belongs to the turn.
AloneInv ==
  /\ \A s \in log : s <= seq
  /\ \A t \in Threads : cmd[t].seq <= seq
  /\ ~ over /\ dl = NoRow /\ failures = 0 =>
       /\ pc["actor"] = "applied" => Ahead("actor")
       /\ pc["actor"] = "idle" /\ timer \in {"armed", "deaf"} =>
            timerTurn = turn

\* When the match is over and the timer still runs, a goroutine is about to
\* stop it, and the store is not going to refuse that goroutine's events.
EndingInv ==
  over /\ failures = 0 /\ timer \in {"armed", "deaf"} =>
    \E t \in Threads : pc[t] = "written" \/ (pc[t] = "applied" /\ Ahead(t))

\* Until something fails: when nobody waits for the new timer, the row is of
\* the player at turn, so the scheduler will charge it and not clear it; and
\* when a command was refused that the timer had made, the scheduler is about
\* to arm a new one, since it was the scheduler's events that were in the way.
TimerInv ==
  restarts = 0 /\ failures = 0 /\ ~ over =>
    /\ timer # "none"
    /\ timer = "deaf" =>
         /\ pc["actor"] = "idle"
         /\ pc["scheduler"] = "idle" => row.player = active
         /\ pc["scheduler"] \in {"polled", "rescheduled"} => dl.player = active
    /\ timer = "fired" /\ pc["actor"] = "idle" => pc["scheduler"] = "written"
    /\ timer = "fired" /\ pc["actor"] = "applied" /\ ~ Ahead("actor") =>
         pc["scheduler"] = "written"

IInv == RowInv /\ AloneInv /\ EndingInv /\ TimerInv
=============================================================================

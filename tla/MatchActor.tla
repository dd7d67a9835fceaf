----------------------------- MODULE MatchActor -----------------------------
(***************************************************************************)
(* One match: the actor that owns it in memory (internal/match/actor.go),  *)
(* the tables it writes (internal/store) and its restoration after the     *)
(* process stopped or died (internal/match/registry.go).                   *)
(*                                                                         *)
(* The game state is abstracted to the set of events that were applied to  *)
(* it: Apply is deterministic, so the events and their order (their seq)   *)
(* determine the state.  What Decide answers is left open here, a command  *)
(* is rejected or yields a batch of events; the rules are in TurnEngine.   *)
(* The handlers are cut at their store calls, because the process may die  *)
(* between two of them and any of them may fail.                           *)
(***************************************************************************)
EXTENDS Naturals, FiniteSets

CONSTANTS
  Players,       \* who may send commands
  Server,        \* the author of the events of NewGame
  MaxBatch,      \* most events of one command (bound)
  SnapEvery,     \* a snapshot at every multiple of this seq; 20 in the code
  DeltaGap,      \* largest gap a resync answers with events; 50 in the code
  MaxSeq,        \* bound on event sequence numbers
  MaxClientSeq,  \* bound on the numbers a client gives its commands
  MaxStops,      \* bound on graceful stops
  MaxCrashes,    \* bound on crashes
  MaxFailures    \* bound on store calls that return an error

ASSUME ServerAssumption == Server \notin Players
ASSUME NatAssumption ==
  /\ MaxBatch \in Nat /\ DeltaGap \in Nat /\ MaxSeq \in Nat
  /\ MaxClientSeq \in Nat /\ MaxStops \in Nat /\ MaxCrashes \in Nat
  /\ MaxFailures \in Nat
  /\ SnapEvery \in Nat \ {0}

\* An event as the match_events table keeps it.  first identifies the batch
\* it was decided in, draw the random number it used (0 for none), end says
\* that it ends the match.
Record == [seq : Nat, first : Nat, by : Players \cup {Server},
           cseq : Nat, draw : Nat, end : BOOLEAN]

VARIABLES
  status,    \* matches.status: "none" (no row), "active" or "over"
  log,       \* match_events
  snap,      \* the latest row of match_snapshots
  board,     \* how often this match was entered in the leaderboard
  pc,        \* the actor: "down", "idle" or the store call it makes next
  hist,      \* a.state: the events applied to it
  seq,       \* a.eventSeq
  rng,       \* a.rng and a.state.RNGState: random numbers drawn so far
  lastSeq,   \* a.lastSeq
  timer,     \* a.turnTimer: "none", "armed" or "fired" (channel drained)
  batch,     \* the events of the command being handled
  shown,     \* every event some client was ever sent
  stops, crashes, failures,   \* what was spent of the bounds
  lost       \* some AppendEvents has failed

store  == <<status, log, snap, board>>
memory == <<pc, hist, seq, rng, lastSeq, timer, batch>>
budget == <<stops, crashes, failures, lost>>
vars   == <<status, log, snap, board, pc, hist, seq, rng, lastSeq, timer,
            batch, shown, stops, crashes, failures, lost>>

-----------------------------------------------------------------------------
Over == \E r \in hist : r.end

\* AppendEvents answers ErrConflict unless the batch follows the whole log.
CanAppend(b) == \A r \in log, q \in b : r.seq < q.seq

LoadEvents_SkipsNext(after) == {r \in log : r.seq > after + 1}   \* mutant
LoadEvents(after) == {r \in log : r.seq > after}

EventsOf(p, c, n, draw, end) ==
  {[seq |-> s, first |-> seq + 1, by |-> p, cseq |-> c, draw |-> draw,
    end |-> end /\ s = seq + n] : s \in seq + 1 .. seq + n}

NoSnap == [seq |-> 0, hist |-> {}, rng |-> 0]

Init ==
  /\ status = "none" /\ log = {} /\ snap = NoSnap /\ board = 0
  /\ pc = "down" /\ hist = {} /\ seq = 0 /\ rng = 0
  /\ lastSeq = [p \in Players |-> 0] /\ timer = "none" /\ batch = {}
  /\ shown = {}
  /\ stops = 0 /\ crashes = 0 /\ failures = 0 /\ lost = FALSE

Fails ==
  /\ failures < MaxFailures
  /\ failures' = failures + 1
  /\ UNCHANGED <<stops, crashes>>

-----------------------------------------------------------------------------
(* Starting a match: Registry.CreateMatch and handleStart.                 *)

\* The row is inserted and NewGame decides the first events.
CreateMatch(n, d) ==
  /\ pc = "down" /\ status = "none"
  /\ status' = "active"
  /\ batch' = EventsOf(Server, 0, n, d, FALSE)
  /\ hist' = batch'
  /\ seq' = n /\ rng' = d
  /\ pc' = "start"
  /\ UNCHANGED <<log, snap, board, lastSeq, timer, shown, budget>>

\* handleStart only prints an error of AppendEvents.  The error may have come
\* after the database committed.
StartAppend ==
  /\ pc = "start"
  /\ pc' = "startSnap"
  /\ \/ /\ log' = log \cup batch
        /\ UNCHANGED budget
     \/ /\ Fails
        /\ lost' = TRUE
        /\ log' \in {log, log \cup batch}
  /\ UNCHANGED <<status, snap, board, hist, seq, rng, lastSeq, timer, batch,
                 shown>>

SnapshotRow_NoRng == [seq |-> seq, hist |-> hist]                  \* mutant
SnapshotRow == [seq |-> seq, hist |-> hist, rng |-> rng]

\* SaveSnapshot; the callers ignore its error.
SaveSnapshot ==
  \/ /\ snap' = SnapshotRow
     /\ UNCHANGED budget
  \/ /\ Fails
     /\ UNCHANGED <<snap, lost>>

\* Nobody has joined yet: the broadcast of the first events reaches no one.
StartSnapshot ==
  /\ pc = "startSnap"
  /\ SaveSnapshot
  /\ pc' = "idle" /\ timer' = "armed" /\ batch' = {}
  /\ UNCHANGED <<status, log, board, hist, seq, rng, lastSeq, shown>>

-----------------------------------------------------------------------------
(* handleCommand, cut at its store calls.                                  *)

CanPlay == pc = "idle" /\ ~ Over

IsFresh_AllowsEqual(p, c) == lastSeq[p] <= c                       \* mutant
IsFresh(p, c) == lastSeq[p] < c

\* Decide accepts: the events are applied to the state in memory before
\* anything is written.
Decided(p, c, n, d, end) ==
  /\ hist # {} /\ seq + n <= MaxSeq
  /\ rng' = rng + d
  /\ batch' = EventsOf(p, c, n, IF d = 0 THEN 0 ELSE rng', end)
  /\ hist' = hist \cup batch'
  /\ seq' = seq + n
  /\ pc' = "append"

\* A player's command; its number is remembered before Decide sees it.
Command(p, c) ==
  /\ CanPlay /\ IsFresh(p, c)
  /\ lastSeq' = [lastSeq EXCEPT ![p] = c]
  /\ \/ UNCHANGED <<pc, hist, seq, rng, batch>>      \* Decide rejects it
     \/ \E n \in 1 .. MaxBatch, d \in {0, 1}, end \in BOOLEAN :
          Decided(p, c, n, d, end)
  /\ UNCHANGED <<store, timer, shown, budget>>

\* handleTurnTimeout: the actor moves for the player, with clientSeq 0.
TurnTimeout(p) ==
  /\ pc = "idle" /\ timer = "armed"
  /\ timer' = "fired"
  /\ \/ Over /\ UNCHANGED <<pc, hist, seq, rng, batch>>
     \/ /\ ~ Over
        /\ \E n \in 1 .. MaxBatch, d \in {0, 1}, end \in BOOLEAN :
             Decided(p, 0, n, d, end)
  /\ UNCHANGED <<store, lastSeq, shown, budget>>

NeedsSnapshot == seq % SnapEvery = 0 \/ Over

Append ==
  /\ pc = "append" /\ CanAppend(batch)
  /\ log' = log \cup batch
  /\ pc' = IF NeedsSnapshot THEN "snapshot" ELSE "broadcast"
  /\ UNCHANGED <<status, snap, board, hist, seq, rng, lastSeq, timer, batch,
                 shown, budget>>

\* mutant: the error is only printed, as in handleStart
AppendFails_GoesOn ==
  /\ pc = "append" /\ failures < MaxFailures
  /\ failures' = failures + 1 /\ lost' = TRUE
  /\ pc' = IF NeedsSnapshot THEN "snapshot" ELSE "broadcast"
  /\ UNCHANGED <<store, hist, seq, rng, lastSeq, timer, batch, shown, stops,
                 crashes>>

\* The error is returned to the caller; memory keeps the events, and the log has
\* them too when the database committed before the error.
AppendFails ==
  /\ pc = "append"
  /\ CanAppend(batch) => failures < MaxFailures
  /\ \/ UNCHANGED log
     \/ CanAppend(batch) /\ log' = log \cup batch
  /\ failures' = IF CanAppend(batch) THEN failures + 1 ELSE failures
  /\ lost' = TRUE
  /\ pc' = "idle" /\ batch' = {}
  /\ UNCHANGED <<status, snap, board, hist, seq, rng, lastSeq, timer, shown,
                 stops, crashes>>

Snapshot ==
  /\ pc = "snapshot"
  /\ SaveSnapshot
  /\ pc' = IF Over THEN "finish" ELSE "broadcast"
  /\ UNCHANGED <<status, log, board, hist, seq, rng, lastSeq, timer, batch,
                 shown>>

\* UpdateMatchStatus; its error is ignored.
FinishMatch ==
  /\ pc = "finish"
  /\ \/ status' = "over" /\ UNCHANGED budget
     \/ Fails /\ UNCHANGED <<status, lost>>
  /\ timer' = "none" /\ pc' = "board"
  /\ UNCHANGED <<log, snap, board, hist, seq, rng, lastSeq, batch, shown>>

\* One leaderboard entry per player, taken together; errors are ignored.
AddLeaderboard ==
  /\ pc = "board"
  /\ \/ board' = board + 1 /\ UNCHANGED budget
     \/ Fails /\ UNCHANGED <<board, lost>>
  /\ pc' = "broadcast"
  /\ UNCHANGED <<status, log, snap, hist, seq, rng, lastSeq, timer, batch,
                 shown>>

RearmedTimer_ManualOnly == IF Over \/ timer = "fired" THEN timer ELSE "armed"   \* mutant
RearmedTimer == IF Over THEN timer ELSE "armed"

Broadcast ==
  /\ pc = "broadcast"
  /\ shown' = shown \cup batch
  /\ timer' = RearmedTimer
  /\ pc' = "idle" /\ batch' = {}
  /\ UNCHANGED <<store, hist, seq, rng, lastSeq, budget>>

-----------------------------------------------------------------------------
(* sendSyncToPlayer, for handleJoin and handleResync.                      *)

Serving == pc = "idle"

HasDelta(l) ==
  /\ l > 0 /\ l <= seq /\ seq - l <= DeltaGap
  /\ LoadEvents(l) # {}

\* The events after l, or the whole state when there is no delta or the log
\* cannot be read.
Sync(l) ==
  /\ Serving
  /\ \/ /\ shown' = shown \cup (IF HasDelta(l) THEN LoadEvents(l) ELSE hist)
        /\ UNCHANGED budget
     \/ /\ HasDelta(l) /\ Fails
        /\ shown' = shown \cup hist
        /\ UNCHANGED lost
  /\ UNCHANGED <<store, memory>>

-----------------------------------------------------------------------------
(* Stopping, dying and being restored.                                     *)

Vanish ==
  /\ pc' = "down" /\ hist' = {} /\ seq' = 0 /\ rng' = 0
  /\ lastSeq' = [p \in Players |-> 0] /\ timer' = "none" /\ batch' = {}

\* Actor.Stop: between two handlers the actor saves its state and leaves.
Stop ==
  /\ pc = "idle" /\ stops < MaxStops
  /\ stops' = stops + 1
  /\ \/ snap' = SnapshotRow /\ UNCHANGED failures
     \/ /\ failures < MaxFailures
        /\ failures' = failures + 1
        /\ UNCHANGED snap
  /\ Vanish
  /\ UNCHANGED <<status, log, board, shown, crashes, lost>>

Crash ==
  /\ pc # "down" /\ crashes < MaxCrashes
  /\ crashes' = crashes + 1
  /\ Vanish
  /\ UNCHANGED <<store, shown, stops, failures, lost>>

IsLastSeq_Snapshot(s) == s = snap.seq                              \* mutant
IsLastSeq(s) ==
  /\ s \in {snap.seq} \cup {r.seq : r \in LoadEvents(snap.seq)}
  /\ \A r \in LoadEvents(snap.seq) : r.seq <= s

Replayed_SnapshotOnly == snap.hist                                 \* mutant
Replayed == snap.hist \cup LoadEvents(snap.seq)

RestoredRng_Initial == 0                                           \* mutant
RestoredRng == snap.rng

\* Registry.GetOrLoad: the latest snapshot, then the events logged after it.
\* No timer is armed, and the numbers of the clients are forgotten.
Load ==
  /\ pc = "down" /\ status # "none"
  /\ \E s \in 0 .. MaxSeq : IsLastSeq(s) /\ seq' = s
  /\ hist' = Replayed
  /\ rng' = RestoredRng
  /\ pc' = "idle"
  /\ UNCHANGED <<store, lastSeq, timer, batch, shown, budget>>

-----------------------------------------------------------------------------
Next ==
  \/ \E n \in 1 .. MaxBatch, d \in {0, 1} : n <= MaxSeq /\ CreateMatch(n, d)
  \/ StartAppend \/ StartSnapshot
  \/ \E p \in Players, c \in 1 .. MaxClientSeq : Command(p, c)
  \/ \E p \in Players : TurnTimeout(p)
  \/ Append \/ AppendFails \/ Snapshot \/ FinishMatch \/ AddLeaderboard
  \/ Broadcast
  \/ \E l \in 0 .. MaxSeq : Sync(l)
  \/ Stop \/ Crash \/ Load

Spec == Init /\ [][Next]_vars

-----------------------------------------------------------------------------
(* Properties.                                                             *)

\* Every variable keeps to its type.
TypeOK ==
  /\ status \in {"none", "active", "over"}
  /\ log \subseteq Record
  /\ snap \in [seq : Nat, hist : SUBSET Record, rng : Nat]
  /\ board \in Nat
  /\ pc \in {"down", "start", "startSnap", "idle", "append", "snapshot",
            "finish", "board", "broadcast"}
  /\ hist \subseteq Record /\ batch \subseteq Record /\ shown \subseteq Record
  /\ seq \in Nat /\ rng \in Nat
  /\ lastSeq \in [Players -> Nat]
  /\ timer \in {"none", "armed", "fired"}
  /\ stops \in Nat /\ crashes \in Nat /\ failures \in Nat /\ lost \in BOOLEAN

\* The store never refuses a batch for its sequence numbers: an actor that was
\* restored, however it stopped and whatever writes failed before, goes on
\* behind everything the log holds (eventSeq against the key of match_events).
NeverConflicts == pc \in {"start", "append"} => CanAppend(batch)

\* Between a successful AppendEvents and the end of handleCommand the events
\* being broadcast are in the log ("persist before broadcasting").
PersistBeforeBroadcast ==
  pc \in {"snapshot", "finish", "board", "broadcast"} => batch \subseteq log

\* A match is marked as finished, and entered in the leaderboard, only when the
\* log holds the event that ended it, and it is entered at most once however
\* often the match is restored.
RecordedOnceAndLogged ==
  /\ board <= 1
  /\ (status = "over" \/ board > 0) => \E r \in log : r.end

\* As long as no AppendEvents failed, the state in memory is what replaying
\* the log gives, plus the batch being written: neither a crash between two
\* store calls nor a restoration from an old snapshot loses or repeats events.
LiveStateIsReplay == ~ lost /\ pc # "down" => hist = log \cup batch

\* As long as no AppendEvents failed, a snapshot holds exactly the events of
\* the log up to its sequence number.
SnapshotIsPrefix == ~ lost => snap.hist = {r \in log : r.seq <= snap.seq}

\* As long as no AppendEvents failed, what a client was sent, by a broadcast, a
\* delta or a snapshot, is in the log, and stays there over crashes.
ShownIsDurable == ~ lost => shown \subseteq log

\* A player's command number is executed at most once, also when the command
\* was rejected or its events could not be written.
ExecutedOnce ==
  \A r, q \in hist : r.cseq > 0 /\ r.by = q.by /\ r.cseq = q.cseq
                       => r.first = q.first

\* As long as the actor lives, duplicates are recognised.
ExecutedOnceUntilRestart == stops + crashes = 0 => ExecutedOnce

\* Without a restart or a failed write, a match that goes on has its turn timer
\* armed whenever the actor waits for a message.
LiveMatchHasTimer ==
  stops + crashes = 0 /\ ~ lost /\ pc = "idle" /\ ~ Over => timer = "armed"

\* No random number serves two commands.
RngNeverReused ==
  \A r, q \in hist : r.draw > 0 /\ r.draw = q.draw => r.first = q.first

\* Graceful stops, as opposed to crashes, keep the generator where it was.
RngSurvivesStops == crashes + failures = 0 => RngNeverReused

-----------------------------------------------------------------------------
(* The inductive invariant behind the safety properties.                   *)

Up == pc # "down"
Written == pc \in {"snapshot", "finish", "board", "broadcast"}

\* Sequence numbers: the actor and its batch are ahead of the store.
SeqInv ==
  /\ Up => /\ snap.seq <= seq
           /\ \A r \in log : r.seq <= seq
  /\ pc \in {"start", "append"} =>
       \A q \in batch : /\ snap.seq < q.seq /\ q.seq <= seq
                        /\ \A r \in log : r.seq < q.seq
  /\ status = "none" => pc = "down" /\ log = {} /\ snap = NoSnap /\ seq = 0

\* The log is part of the state, the snapshot covers the log up to its number,
\* and what was appended is in the log.
StateInv ==
  /\ batch \subseteq hist
  /\ Up => log \subseteq hist
  /\ {r \in log : r.seq <= snap.seq} \subseteq snap.hist
  /\ Written => batch \subseteq log
  /\ pc \in {"down", "idle"} => batch = {}

\* The end of the match is decided once: by the batch in progress, or before.
EndInv ==
  /\ pc = "append" \/ Written => \A r \in hist : r.end => r \in batch
  /\ pc = "append" \/ pc = "start" => \A r \in log : ~ r.end
  /\ pc \in {"append", "start", "snapshot", "finish", "board"} => board = 0
  /\ pc \in {"finish", "board"} => Over
  /\ pc \in {"start", "startSnap"} => \A r \in batch : ~ r.end

\* Without a failed append, state, log and snapshot agree.
AgreeInv ==
  ~ lost => /\ Up => hist = log \cup batch
            /\ pc = "startSnap" => batch \subseteq log
            /\ snap.hist = {r \in log : r.seq <= snap.seq}
            /\ shown \subseteq log

\* Until it stops or dies, the actor remembers for every player a number no
\* command it executed is beyond.
FreshInv ==
  stops + crashes = 0 =>
    /\ pc = "down" => status = "none"
    /\ \A r \in hist : r.cseq > 0 => r.by \in Players /\ r.cseq <= lastSeq[r.by]
    /\ ExecutedOnce

\* Without crashes and failures the generator, or the snapshot while the actor
\* is down, has counted every random number in the log.
RngInv ==
  /\ pc = "down" => hist = {}
  /\ crashes + failures = 0 =>
       /\ ~ lost
       /\ \A r \in log \cup batch : r.draw <= IF Up THEN rng ELSE snap.rng
       /\ \A r, q \in log \cup batch :
            r.draw > 0 /\ r.draw = q.draw => r.first = q.first

IInv ==
  /\ SeqInv /\ StateInv /\ EndInv /\ AgreeInv /\ RecordedOnceAndLogged
  /\ FreshInv /\ LiveMatchHasTimer /\ RngInv

\* The match keeps the promise of MatchLog.
Log == INSTANCE MatchLog WITH log <- log, shown <- shown
ImplementsMatchLog == Log!Spec
=============================================================================

# Last Lighthouse: verification project

*Last Lighthouse* is a cooperative board game with an authoritative server in
Go. The rules are a pure package (`core`): `Decide` turns a command into events,
`Apply` turns events into state. A server keeps one goroutine, the *match actor*,
per match. It writes the events to an append-only log, sends them to the
players over WebSockets, and moves for players who do not answer. The client is
a TypeScript application that runs the same rules as WASM.

This directory holds TLA+ models of the parts where being right is hard: the
actor with its log and its recovery, the goroutines that call it, the two
stores under it, the two mechanisms that end an unattended turn, the turn engine
of the rules, the economy, the island and the decks of the expedition, and the
connection that keeps a player up to date. TLC checks them on small instances;
TLAPS proves for every instance each invariant and each action property that the
runs check, and the refinements but one.

    tlc -workers 2 -config <run>.cfg <module>.tla     (runs: see below)
    tlapm MatchActorProofs.tla      (likewise TurnEngineProofs, TurnDeadlineProofs,
        InboxProofs, SessionProofs, DecksProofs, IslandProofs, ExpeditionProofs)

## 1. The system

Paths are relative to the repository.

| component | state it keeps | operations | what makes it correct |
|---|---|---|---|
| **Match actor** `internal/match/actor.go` | game state, `eventSeq`, generator, `lastSeq` of each client, turn timer, subscribers | start, command, join, leave, resync, turn timeout, stop | events are written before they are shown; the state is the replay of the log; a command number is executed once; a live match has a timer |
| **Registry** `internal/match/registry.go` | the actors in memory, a lock | create, get or load, remove, shutdown | one actor per match; a restored actor continues exactly behind the log; nobody waits for ever |
| **Deadline scheduler** `internal/match/deadline.go` | the table `turn_deadlines`, counters of missed turns | poll, time out, reschedule, clear | an abandoned match goes on to its end; nobody loses a turn that was not missed |
| **Turn engine** `core/phase.go`, `core/decide.go` | phase, round, whose turn, action points, Darkness, pending choice, status | begin/end of round and turn, event and Darkness phase, `checkEnd` | everybody plays once a round; no turn is stuck; the end is noticed when it comes |
| **Rules: actions** `core/decide*.go`, `core/apply.go` | players, board, lighthouse | move, gather, repair, rest, explore, fight, investigate, choose, trade | resources are neither lost nor made; costs and shares add up |
| **Effects and survival** `core/effect.go` | health, exhaustion, inventories, stock | 14 effects of cards, damage, capacity | inventories fit a capacity that changes; exhaustion is health zero |
| **Board and monsters** `core/mechanics.go` | locations, monsters, tiles | reveal, spawn, monster phase, combat, rescue | monsters stay on the explored board and hunt by the rules; monsters, villages and tiles are not lost |
| **Decks** `core/deck.go`, `core/rng.go` | three decks, the generator | draw, discard, reshuffle, choose | every card is in one place and comes up once a pass |
| **Setup and content** `core/setup.go`, `core/content.go` | none (constants of a match) | `NewGame`, load, validate, scale costs | the match is winnable |
| **Projection, legal commands** `core/project.go`, `core/legal.go` | none | project a state or event to a viewer, list commands | secrets stay secret; what is offered is accepted |
| **Event store** `internal/store` | matches, events, snapshots, deadlines, users, leaderboard | append, load, save, ... in memory and in Postgres | the log is append-only with one event per number; both stores do the same |
| **WebSocket hub** `internal/transport/ws` | connections, bounded send queues | connect, dispatch, late leave, heartbeat | a subscription belongs to the newest connection |
| **REST API, auth, notifications, telemetry** | tokens, counters | create a match, replay, log in, notify | plain table access |
| **Client session** `client/src/session` | socket, reconnect timer, last `eventSeq`, the view shown | connect, join, receive, send, reconnect | the view never goes back and catches up with the match |
| **Client UI, bot, WASM** `client/src`, `bot` | what is on the screen | render, choose a legal command | shows what the rules decided |

How they interact. A client's command arrives at the hub, which loads the actor
through the registry and posts a message to its inbox. The actor runs `Decide`,
applies the events in memory, appends them, sometimes saves a snapshot, writes
status and leaderboard when the match is over, sends each subscriber its
projection and arms the turn timer. The scheduler polls `turn_deadlines` in a
goroutine of its own and calls the actor's `handleTurnTimeout` *directly*, not
through the inbox: the only place where a second goroutine *changes* a game state.
Others read it: the REST handlers call `actor.State()` from the goroutines of requests
(`handler.go:174`, and `:286` for the list of a player's matches).

Hard behaviours: a crash or a failing store call between any two writes; a
restoration from an old snapshot; repeated and stale commands; timer and
scheduler on one turn; rows read before and used after somebody else moved;
choices that hold up the game; capacity, rounding and clamping at their limits.
Then callers of an actor that ends, a lock held while waiting, a transaction cut in
the middle, piles that run out between two draws, and lists changed while they are
walked. `PROJECT.json` lists each of these hazards at its line with the properties that
cover it, and says why where none does yet.

## 2. Modules

| module | models | role |
|---|---|---|
| `MatchLog` | what a match promises its players: an append-only log, of which they are shown parts, until an end that is recorded once | abstract specification |
| `MatchActor` | actor, store and registry of one match, with crashes and failing calls | implements `MatchLog` |
| `MatchActorProofs` | theorems about `MatchActor` | proofs |
| `TurnEngine` | the phase machine of the rules | decides what `MatchActor` leaves open |
| `TurnEngineProofs` | theorems about `TurnEngine` | proofs |
| `TurnDeadline` | turn timer and scheduler in two goroutines | composes the actor's handler with the scheduler |
| `TurnDeadlineProofs` | theorems about `TurnDeadline` | proofs |
| `Inbox` | the registry's table and lock, inboxes, replies, `Stop`, shutdown | the goroutines around `MatchActor`; implements `SerialServer` |
| `SerialServer` | one server that takes the calls one at a time and may be replaced between two | abstract specification |
| `InboxProofs` | theorems about `Inbox` | proofs |
| `MemoryStore` | the store of the tests, every operation one step | abstract specification |
| `PostgresStore` | transactions, tables and queries of Postgres, driven by what the server does | implements `MemoryStore` |
| `Expedition` | resources, health, lighthouse, victory points | decides what `TurnEngine` leaves open |
| `ExpeditionProofs` | theorems about `Expedition` | proofs |
| `Island` | places, tiles, monsters, fights, rescues, and the commands offered | decides what `TurnEngine` leaves open |
| `IslandProofs` | theorems about `Island` | proofs |
| `Decks` | the three decks, the pending choice, artifacts | decides what `TurnEngine` leaves open; each deck implements `CardPass` |
| `CardPass` | a shuffled deck: its cards come in passes | abstract specification |
| `DecksProofs` | theorems about `Decks` | proofs |
| `Session` | client session, hub and subscription of one player | delivers what `MatchActor` calls `shown`, with losses |
| `SessionProofs` | theorems about `Session` | proofs |
| `MCMatchActor`, `MCTurnEngine`, `MCExpedition`, `MCIsland`, `MCDecks` | instances for TLC | |

Operators whose comment says *mutant* are the wrong versions of the operator
they stand before. No specification uses them; each property is broken by one.

### MatchActor

The game state (`hist`) is the *set of events applied to it*. `Apply` is
deterministic and events are numbered, so the set determines the state; what
`Decide` answers is open: it rejects, or yields any batch up to `MaxBatch`, which
may use the generator and may end the match. `handleStart` and `handleCommand` are cut at
each store call, with `pc` naming the next one: `append`, `snapshot`, `finish`
(`UpdateMatchStatus`), `board` (leaderboard), then `Broadcast` with the timer.
Before `append` the events are already in `hist`, as in the code. Each call
can fail, and the handler goes on or returns as the code does; an append that
fails may have been committed all the same, its answer lost. `Sync` is `handleJoin` and
`handleResync` with the delta or the full state. `Stop` saves a snapshot;
`Crash` saves nothing; both forget `eventSeq`, `lastSeq` and the timer. `Load` is
`GetOrLoad`: newest snapshot, then the events behind it; its `eventSeq` is that of
the last event replayed, its generator that of the snapshot.
`shown`, `board`, `lost` and the fields `first`, `draw`, `cseq` of an event are
history.

### TurnEngine

One action per accepted command. A command that uses the last action point ends
the turn; if it was the last turn, the same step runs `endRound`, raises Darkness, checks the
end, begins the next round, draws the event card and opens the next turn, in the
order of `phase.go`. A player is its index in `TurnOrder`. Actions that cost
an action point and change neither Darkness nor a choice are one action (`Act`);
those that do something else to the turn have their own (`FreeMove`,
`FreeExplore`, `GatherCrystal`, `CompleteComponent`, `Investigate`, the two
choices). Cards are what they do to Darkness (`CardRises`).

### TurnDeadline

The actor's goroutine and the scheduler's run the same `handleCommand`, cut
into decide, apply, append, finish. `ApplyTurn` applies the events of a decision
made on an older state the way `Apply` does: counters are incremented, indices
set. `timer = "deaf"` is the state in which `run` blocks on the channel of
a timer that was replaced behind its back. `dl` is the scheduler's copy of the
row. Unsynchronised accesses of one step are taken as atomic, which is the best
case for the code.

The model starts in the middle of `CreateMatch`: match and first events are stored, the
first timer runs, the row is still to come. `OpenMatch` writes it or fails to,
for `registry.go:72` ignores the error; a crash before it (`Restart` while `creation` is
pending) has the same effect. Later calls of the store fail at most `MaxFailures` times: an
append (with or without its effect), a write of the row, whose error is ignored too, and after a
restart the load of the match. `subSecond` is a match whose turn timeout is less than a
second: `ScheduleNextTurnDeadline` counts whole seconds and then clears the row of a live
match instead of moving it (`deadline.go:167`). That ends with a restart, for Postgres stores
90 seconds for a timeout of none. A timeout of zero is none of these: `NewActor`
replaces it by 90 seconds (`actor.go:86`).

`LeftAlone` is a live match without row, and without a timer that somebody waits for: nothing in the
server moves it any more. `NeverLeftAlone` says what it takes, two faults of
different kinds, and `MatchEnds` that every other match comes to its end.

### Inbox and SerialServer

The callers are goroutines of connections and requests; each finds the actor,
posts a message and waits for the reply. `Find` and `Enter` are the two looks at
`r.actors`, under the read lock and under the write lock; whoever makes or ends
an actor holds the write lock until it has loaded it, heard from it (`Create`
waits for the first reply) or waited for its end (`HasEnded` is `wg.Wait`).
`Take`, `Answer` and `Exit` are the loop of `run`; `select` picks among what is
ready, so a cancelled actor may still take messages or leave them. Actors are
numbered as they are made. A Go channel serves senders in turn, those that found
it full included, so buffered and blocked messages are one queue. `Signal`,
`Closed`, `Return` and `Returned` are the shutdown of `main`, during which
connections may load the match again. The process ends with `main`.

`SerialServer` is what that amounts to for the callers: one server, one call at a
time, replaced only while idle; a call it had not taken is dropped, never answered
by its successor. That is all the code promises: a caller whose message lies in the
inbox of an actor that is stopped waits until the process ends.

### MemoryStore and PostgresStore

`MemoryStore` has one action per operation, with the result in `call`.
`PostgresStore` cuts `AppendEvents` into its statements: `Begin` takes the numbers,
`Insert` runs one statement, `Commit` makes the batch visible and may lose its
answer, `Rollback` is an error anywhere, `Crash` may hit any point. The actor, the
registry and the scheduler drive it as in the server: one actor, which numbers on
after errors, is restored by `GetOrLoad`, saves snapshots under its number again and
again. Queries come at any time. The refinement maps the rows to the list of the
memory store, and the snapshot with the highest number to the one saved last. It
covers what operations do when they return without an error; Postgres never returns
`ErrConflict` or `ErrAlreadyExists`, it returns the database's own error.

### Island

`board`, `team` and `turn` are what the rules keep of places, players and the turn.
An action is an accepted command with everything up to the next command,
as in `TurnEngine`; the end of a round runs the monsters, Darkness, the spawn of the
last threshold and the next event card. All monsters of a place do the same, since
they are counted before the first one moves and nothing they depend on changes.
`Distances` is the breadth-first search as a recursive function; `Pursuit` and
`NoMonsterTwice` check a monster phase from *every* reachable position, not only at the
ends of rounds. `Accepted` translates `Decide`, `Legal` translates `LegalCommands`,
for the commands of this module. A die is any of its outcomes, the tile stack any
shuffle. Cards that spawn monsters do so up to `MonsterBound` on the board.

### Decks and CardPass

Piles are sequences, top card first; a shuffle is any order. `Drawn` is `drawCard`
with its reshuffle; the two draws of a scholar, the card that nobody can pay, the
dilemma and the artifact are composed as in `decide_m1.go`. Which options can be
paid is left open. `CardPass` knows only which cards are still to come in a pass and
which are out; the three decks implement it, the artifact deck without discards.

### Expedition

A player is a record of place, health, inventory, artifacts and points. `EffectOn`
is what one effect makes of players and places, `Effects` the list of them one after the
other, as `applyEffects` resolves it; the actor of an event card is `Nobody`, so that
an effect on the drawing player does nothing. The module over-approximates the rest of
the game: anyone may act whenever no choice is pending, wounds may come at any time between commands, and the gathering penalty
is any of `Penalties`. Whatever holds here holds under the turn order of
`TurnEngine`. `Repair` keeps the order of the code, discount first, then the cut
of the payment; `Award` divides the points of a component as
`distributeComponentVP` does.

### Session

One player, one connection after the other. Each connection has a client's half
(`ws`), a server's half (`conn`) and what is under way on it (`up`, `queue`); that the two
halves end at different times is what makes this hard. `read` is the
goroutine of a connection, waiting for the actor to answer the message it has posted: the
actor takes these in any order, so a Join or a Leave may come late.
`SendTo` is `SendEnvelope`: a full queue or a cancelled context loses the message
without waiting. The match is the number of its events. `ousted` and
`dropped` are history: they record the two ways in which the code loses a player, and the
liveness property excludes exactly these.

## 3. Runs

| run | instance | states | what it shows |
|---|---|---|---|
| `actor_faults` | 1 player with 2 command numbers, batches of 2, snapshot every 3, log of 4; one stop, one crash, one failed call | 2.2 M | appends never conflict, nothing is shown before it is written, the end is recorded once and only if logged; without a restart each number is executed once and the timer is armed; graceful stops keep the generator |
| `actor_crash` | as above, log of 5, two crashes and a stop | 1.0 M | state and log agree, and the match implements `MatchLog` |
| `turn_rules` | 4 players, numbers of the shipped content | 10 651 | turn order, action points and choices (`ActiveCanMove`), end of the match; progress; the match ends |
| `deadline_both` | 2 players, 4 decisions, a restart, a failing store call besides that of the first row, timeouts below and above a second | 847 800 | what it takes for a match to be left alone, every other unattended match ends, its row goes away, the timer is of this turn |
| `inbox` | 3 callers, 3 actors, one removal, the shutdown | 41 284 | one actor at a time, calls are answered, the lock is released, implements `SerialServer` |
| `stores` | 3 events, batches of 2, 2 contents of a snapshot, any number of crashes | 68 402 | Postgres implements `MemoryStore` |
| `expedition` | 2 players, lighthouse and mine, two components, one artifact, 5 events, a mystery card of 3 options | 434 490 | inventories and exhaustion (`PlayersWhole`), conservation, contributions and points |
| `island` | 2 players, 5 places of which 2 are to be explored, 3 tiles, 3 rounds | 165 535 | nothing is lost, monsters walk by the rules and once, crystal can be reached, offers are exact |
| `decks` | 2 players, one a scholar; 2 events, 3 mysteries, 2 artifacts | 100 992 | cards are in one place, one mystery per place and round, passes are kept |
| `session` | 2 connections, 3 events, 1 command under way, queue of 2, deltas of 1 | 670 317 | a quiet connection shows the match as it is, the view never goes back, the player catches up |
| `deadline_race`, `session_leave` | the smallest that shows it | | disagreements, section 4 |

**Why the bounds are enough.** The actor's runs allow a batch that steps over a
snapshot mark, snapshots older than the log, a batch torn from its snapshot by a
crash, a second crash during what follows the first restoration, and a log long
enough that a resync can be answered with a delta or not. One player suffices
for these, since players only differ in their command numbers. `turn_rules` is not cut at all: the numbers are those of the content,
and Darkness bounds a match. `deadline_both` lets both goroutines overlap on one
turn, on the next and on the decision that ends the match, which is forced at
`MaxSeq`. One restart and one failure suffice to be left alone in each of the ways there are
(unwritten row or cleared row, with either), and to fall short of it in every other combination. `expedition` scales
numbers down (health 2, capacity 2, 1 while exhausted) so that every limit is reached at once:
a full inventory while exhaustion shrinks it, an empty stock, a payment larger than
the need, a component completed by a discount alone. `block_gather` is defined but in no
card of that instance: it only disables gathering.
In `inbox` two callers race for the load while a third creates, removes or ends up in the
inbox of the actor that is stopped; three actors allow a load after a removal and
another after the shutdown. In `stores` a batch of two is cut after its first row, a
third event follows a failed or uncertain batch, and a snapshot is saved twice under one
number. `island` scales the numbers down (two points a turn, one from the second
threshold on, health 1) so that three rounds reach all thresholds: longer steps, the
spawn and the penalty; its places form a circle with two equal paths behind a
branch, so that ties happen; a card or an exploration brings the first monster, the threshold
more of them, which meet in one place. `decks` has fewer mysteries than a round can draw, so
that piles run out in the middle of everything.
In `session` the second connection may overlap the end of the first in every way, is
answered with a delta, a snapshot, or nothing because its queue is full, and
the match is further than a delta reaches when it has missed two events. The
last connection does not break on its own: what comes after it would be a
third, which meets the same situations.

**Fairness.** `TurnEngine` assumes `WF(Next)`: *somebody* moves. The code
guarantees it, for the timeout moves for a player who does not, and its default
is a legal command. `TurnDeadline` says how far that goes: time passes, a goroutine inside a call
goes on (`CreateMatch` too), the ticker comes round, a timer that is heard fires; no player ever has to act, and
nothing is assumed of `OtherMessage`, so a deaf timer may stay deaf. `MatchEnds`
then rests on the scheduler, as in the code, and excludes only the matches that are left alone
for good. `Session` assumes that the reconnect timer goes
off, messages under way arrive, goroutines and the actor go on, and that a connection which
one side closed is closed by the other, by an error of a read or a write or at
the next heartbeat; nobody has to play, and no connection has to break. `Inbox` assumes that a goroutine
goes on with what it has begun (a load, a reply, a stop; store calls return, since the
contexts of requests end) and that an actor takes messages and answers them; nobody
has to call, no signal has to come, and a cancelled actor may drain its inbox first.
The other modules claim no liveness.

**Deadlock checking** is off where a match that is over, a process that has ended or a
bound stops the system; `stores` and `decks` check it. Being stuck in a live match is excluded by
`ActiveCanMove` and `Ends`, by `MatchEnds`, and by `Answered` and `LockReleased`.

## 4. Disagreements between code and documentation

Two are runs that TLC finds violated, and entries of `findings`.

1. `deadline_race`: scheduler and actor end the same turn twice, against the comment
   that the actor serialises every mutation.
2. `session_leave`: a connection that broke is noticed late; its Leave then deletes
   the subscription of the connection that replaced it, because `handleLeave` only
   knows the player. The player stays connected and is sent nothing any more.

The others were met while translating; the models contain the behaviour, but no run is
spent on it:

- The generator is restored from the last snapshot while the events behind it are
  replayed; after a crash the same random numbers are drawn again (`RngSurvivesStops`
  has this as its premise). `state.go:9` says a restart goes on "persis".
- Commands do not move the deadline row and it is compared by player only
  (`deadline.go:107`): a turn can be ended by the deadline of an earlier one.
- After a timeout handled by the scheduler the actor's `select` waits on the timer that
  was stopped (`timer = "deaf"`); the next turn has no timer until a message comes.
- `CreateMatch` ignores the error of the first `SetTurnDeadline` (`registry.go:72`), which
  runs in the context of the request; nothing writes that row later. After a restart, or a
  command that could not be written, nothing moves such a match until a player does.
- With a turn timeout below one second the scheduler clears the row of a live match
  (`deadline.go:167`), with the same consequence.
- A command that could not be written leaves the turn timer as it was: of the turn it
  ended, or none if it was the timer's own (`TimerOfThisTurn` has this as its premise).
- Left-over victory points all go to one contributor (`decide.go:342`), because the loop never
  lowers its remainder; the comment names the method of largest remainders.
- A move into an unexplored place is accepted (`decide.go:132` says exploring comes first;
  `ErrNotExplored` is never returned).
- `mechanics.go:245` calls `s.Players` the turn order; it is the order at the table, and
  ties between targets follow that.
- `SavePushSubscription` names a conflict target without a unique constraint in the
  migration, so Postgres refuses it. The stores also differ in their errors
  (`UpdateMatchStatus` of an unknown match), in `<=` against `Before` for expired deadlines,
  and in the seeded leaderboard and its order, none of which a match depends on.
- `Stop` leaves queued messages unanswered; their callers wait on a channel that nobody
  writes to. `Answered` therefore speaks of actors nobody stops.

Two limits appear as premises of properties instead. `lost`: events are applied before they
are appended, so after a failed append memory is ahead of the log and the next resync shows
it. `stops + crashes = 0` in `ExecutedOnceUntilRestart`: `lastSeq` is not persisted, so a
command repeated after a restart is executed again.

## 5. Proofs

Every invariant and every action property that a passing run checks is proved for all
values of the constants, except one refinement (below). The assumptions are named in the
modules and TLC evaluates them in the runs. They say what `Content.Validate` and `NewGame`
make sure of: types, finite sets of players and places, a start below the limit of
Darkness, a map whose edges go both ways, tiles enough for the places to be explored, a
positive cost for each component, a positive amount where an effect needs one. The rest are
facts about the shipped content that `Validate` does not check: no number of the rules is negative,
penalties are below the action points (`startTurn` would otherwise skip players), a tower
is on the map, a rest heals, gathering gives something, and the exhausted carry no
more than the fit. The bounds of the models (`MaxSeq`,
`MaxCrashes`, ...) are numbers and otherwise free.

Each proof module goes from types over lemmas about the operators to one lemma per action,
then to `Invariant` (`Rules` in `TurnEngineProofs`) and the properties that follow. TLC
checked each inductive invariant before it was proved. The named parts of an `IInv` stand
at the end of the module it is about.

**MatchActorProofs.** `TypeCorrect`; `AppendsNeverConflict`, `PersistedFirst`,
`RecordedOnce`, `StateIsReplay`, `ExecutedOnceTillRestart`, `TimerWhileLive` and `RngKept`,
all from `Invariant == Spec => [](TypeOK /\ IInv)`. Few of the properties are inductive
alone. `IInv` adds:
- `SeqInv`: snapshot and log never run ahead of `eventSeq`, and a batch lies behind
  both. This is why a restored actor, which takes its number from what it
  replayed, cannot conflict.
- `StateInv`: the log is part of the state, and every event of the log a snapshot
  claims to cover is in it; it holds even after failed writes.
- `EndInv`: the end is in the batch in progress or was decided before; the
  leaderboard is entered only behind an append that succeeded, and `Over` blocks a second one.
- `AgreeInv`: until an append fails, state, log, snapshot and what was shown agree.
- `FreshInv`: until a restart `lastSeq` is not below any number that was executed.
- `RngInv`: while nothing crashed or failed, the generator, or the snapshot's while the
  actor is down, has counted every random number of the log.

`Refinement` proves that while no append has failed each step of the actor is a
step of `MatchLog` or a stutter, crashes and restorations included. The premise
is needed: `handleCommand` keeps in memory what it could not append.

**TurnEngineProofs.** `Rules` proves types, turn order, action points, pending
choices and the end of the match together: turn order needs that the end is
noticed, that needs the clamping of Darkness, and choices need that only the active
player acts. `IInv` adds what holds between setup and the first turn; `ActiveMoves` and
`EndNoticed` follow. The long
lemma is `EndTurnFacts`, which follows a command through the end of a turn and
of a round; the arithmetic of seats (`BehindFacts`) stands apart. `OneTurnEach` and
`AlwaysProgress` are action properties from the same invariant; the
second proves that every accepted command lowers a measure, the safety half of
termination.

**TurnDeadlineProofs.** `NotLeftAlone` and `TimerIsOfThisTurn`, for every number of players,
restarts and failing calls, and every interleaving of the two goroutines inside `handleCommand`.
- `RowInv`: the scheduler on its way carries a row; a live match has its row unless it was
  never written or the timeout is below a second. This is half of `NotLeftAlone`.
- `TimerInv` is the other half. While nothing fails, a timer that nobody waits for goes with a
  row of the player at turn, which the scheduler will charge and not clear; and when
  the command of a timer was refused, the scheduler is about to arm a new one, since it was its events
  that were in the way.
- `AloneInv`: before the scheduler has picked up its first row the actor is alone, its
  writes are not refused and its timer is of the turn; both as long as no call fails.
- `EndingInv`: when the match is over and the timer still runs, some goroutine is about
  to stop it and the store will not refuse that goroutine first.

**InboxProofs.** `OneActorAlive` and `CallsAreSerial`, from
`Invariant == Spec => [](TypeOK /\ IInv)`. `OneActor` is not inductive: a load must find the
table empty *and* every earlier actor gone. `IInv` adds:
- `LockInv`: whoever makes or ends an actor holds the lock meanwhile.
- `ActorInv`: the actors before the last are gone; the last is in the table, or in the
  hands of the goroutine that holds the lock.
- `MessageInv`: a caller has one message, in the inbox of the actor it waits for, or is
  the one being served.

`CallsAreSerial` maps each step to one of `SerialServer`: `Post` and `Create` to `Ask`, the
exit of an actor to `Replace`, a new actor to a stutter, which needs that nobody is
being served or waiting when it takes over.

**SessionProofs.** `QuietIsCurrent` and `NeverBack`.
- `ClientInv`: the client holds one connection at a time, the one in `wsRef`.
- `OrderInv`: the messages of a connection come in the order of the states they tell of, none
  older than what the client shows. `NeverBack` is this.
- `BehindInv`: a client that is subscribed and behind has asked for a resync or is
  about to be told: events under way, or a snapshot of the newest state. That a gap in the
  events makes the client ask, and that the answer is of the state at the time of
  answering, is what keeps it.

**DecksProofs.** `CardsOnce`, `OneAnswer` and `DecksKeepPasses`, for decks of any size.
- `DeckInv`: draw pile and discards have different cards and together all that are not
  outside, with the chooser or an owner. `CountInv` says that in numbers: sets alone do not
  see a card that two players hold.
- `ChoiceInv`: who is to choose has two different cards or one, and stands on a place that
  has not given up its mystery. `MarkInv`: an answered place is marked.

One lemma (`GoodDraw`) says what a draw does, with and without a reshuffle; a command draws up to
three times, and the lemmas follow that. `DecksKeepPasses` proves for each deck that a
command is at most one step of its `CardPass`, whatever the draws in between.

**IslandProofs.** `NothingIsLost`, `MonstersActOnce`, `MonstersPursue`, `CrystalStays` and
`OffersExact`, on any map. `IInv` is `NothingLost`, `CrystalReachable` and `GoesOn`: while the match
goes on the active player has a point and the round is not over. `OffersExact` rests on
`GoesOn`: `LegalCommands` offers free moves that `Decide` would refuse to a player
without points, and only the automatic end of a turn keeps the two together.
Monsters and tiles are counted by sums, which are shown to change by what is
moved; `EnsuredTiles` is that putting a crystal tile on top only permutes the stack.
For the hunt, `Distances` (the search) is shown to be a metric on explored ground,
since edges go both ways; a step of the walk then lowers the distance by one (`WalkCloser`),
and a monster that walks into a place whose turn is still to come is not moved again
(`CameStep`, `ProwledFacts`).

**ExpeditionProofs.** `PlayersStayWhole`, `Contributed`, `PointsAllGiven`, `PricePaid` and
`WorkOnlyMoves`, for any cards, costs and values. `IInv` is the four state properties with `GivenOK`
(nobody is listed twice among the contributors of a component) and `PendingOK` (a choice is
between options of a card).
- Effects: each one takes a good table (players fit, exhausted at zero) to a good table and
  leaves points alone, hence so does any list; damage needs that `DropExcess` stops at
  the capacity (an induction over what is dropped).
- Repair: discount, cut and payment together put into the component what `Contribute` books.
- Points: shares rounded down sum to at most the value (sums of products), what is left
  goes to one contributor, and summing by player gives the same as summing by contribution.
- `WorkOnlyMoves`: a sum changed in one or two places changes by what was moved there.

**Induction.** The induction theorems of the library take an operator as a parameter, which
the provers cannot instantiate. Here induction is over *sets* instead: `AllNumbers` says
that a set with zero and all successors has every number, `AllParts` the like for the parts of a
finite set, both from the library's theorem that a well-founded relation has minimal elements. A
recursive function is then reasoned about through the set of arguments on which it behaves.
That carries the sums of the library's folds, the walks, the search, `DropExcess` and
the lists of effects. The lemmas about sums stand in both `IslandProofs` and
`ExpeditionProofs`, so that each is read alone.

**Only model-checked:**
- liveness (`Ends`, `MatchEnds`, `RowGoesAway`, `CatchesUp`, `Answered`, `LockReleased`): the
  proof system does not handle fairness and ENABLED;
- `ImplementsMemoryStore` of `PostgresStore`: its mapping sorts the rows into a list with
  `SetToSortSeq`, a choice among permutations; the step of a commit needs that the
  sorting of a set with larger numbers added is the old list with a tail, a lemma about
  the library that is not proved yet.

## 6. Not modelled, and why

- REST handlers, authentication, notifications, telemetry, UI, deployment: I/O and table access without a protocol of their own.
- JSON parsing, `Validate` and the scaling of costs: the shipped content appears as constants.
- The arithmetic of the generator: it is counted, not computed. Modifiers of a fight
  shift the die only.
- Users, push subscriptions, leaderboard queries: single statements on tables of their own.
- Personal objectives and their points, and the points of cards.
- Projection: it blanks fields; which ones is a matter of the data, not of any order.
- The counters of missed turns, which decide only which default move is made.
- A failed append in `Session` (`actor.go:317`): there `eventSeq` goes on without a broadcast,
  so a client may be quiet and behind the actor's memory until the next event. That side of
  it is `MatchActor`'s, section 4.
- The scheduler's goroutine in `MatchActor`, whose properties speak of the actor alone; what
  the two do to each other is in `TurnDeadline`.
- Lost answers of single statements in `PostgresStore`; only that of COMMIT is there.
- What the client does when the player leaves the match screen or reloads the page, and hub
  messages for a match that cannot be loaded.

## 7. Plan

Done: all modules above, and the proofs of all of them but `PostgresStore`. Next:

1. The refinement of `PostgresStore`, from a lemma about sorted sets.
2. `Session` further: leaving the screen and coming back (the socket's late `onclose`),
   reloaded pages and command numbers.
3. Personal objectives and their scoring at the end of a match.
4. Projection: a client that applies projected events reaches the projection of the state.

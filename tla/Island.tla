------------------------------- MODULE Island -------------------------------
(***************************************************************************)
(* The board: players walk, explore and fight, the island grows by one     *)
(* tile at a time, and at the end of every round the monsters hunt         *)
(* (src/core/mechanics.go, the matching handlers of decide.go and          *)
(* decide_m1.go, and the commands legal.go offers for them).               *)
(*                                                                         *)
(* One action per accepted command, with all that Decide makes of it: the  *)
(* command that spends the last action point ends the turn, and the last   *)
(* turn of a round moves the monsters, raises Darkness, lets a monster     *)
(* appear and opens the next round with its event card.  Inventories and   *)
(* the lighthouse are in Expedition, the decks and who may investigate in  *)
(* Decks; of a card only what it does to the board is kept, so that the    *)
(* rounds alone raise Darkness.  A place that is not explored has the kind *)
(* NoKind and no monsters.                                                 *)
(***************************************************************************)
EXTENDS Integers, Sequences, FiniteSets, FiniteSetsExt, Functions

CONSTANTS
  Places,        \* sequence of the places, as Board.Locations lists them
  Adjacent,      \* the neighbours of a place, in the order of the content
  MapKind,       \* the kinds of the places explored from the start
  Start,         \* the start location
  TileStack,     \* the tiles before they are shuffled
  NoKind,        \* the kind of a place that is not explored yet
  SpawnKinds, CrystalKinds, VillageKinds, TowerKinds,
  Table,         \* sequence of the players, as s.Players lists them
  TurnOrder,     \* the same players in the order of play
  Navigators, Compasses, Lanterns,    \* who has the ability or the artifact
  ActionPoints, MaxHealth, RestHeal, Damage,
  WakeAt,        \* spawn_on_explore_chance: a D6 of at most this wakes a monster
  DamagedMax, DefeatedMin,            \* the combat table of monsters.json
  MaxDarkness, BonusAt, Bonus, SpawnAt, PenaltyAt, Penalty,   \* the thresholds
  MonsterBound   \* bound: cards and tiles bring no more monsters than this

Loc == {Places[i] : i \in DOMAIN Places}
Players == {Table[i] : i \in DOMAIN Table}
Seats == DOMAIN TurnOrder
Near(l) == {Adjacent[l][i] : i \in DOMAIN Adjacent[l]}

Kinds == {MapKind[l] : l \in DOMAIN MapKind}
         \cup {TileStack[i] : i \in DOMAIN TileStack} \cup {NoKind}

\* What Content.Validate and NewGame make sure of, and of the content shipped
\* that there is a tower on the map and that the penalty leaves a point.
ASSUME ContentAssumption ==
  /\ Places \in Seq(Loc) /\ TileStack \in Seq(Kinds)
  /\ Table \in Seq(Players) /\ TurnOrder \in Seq(Players)
  /\ \A i, j \in DOMAIN Places : Places[i] = Places[j] => i = j
  /\ Start \in Loc /\ DOMAIN MapKind \subseteq Loc /\ Start \in DOMAIN MapKind
  /\ \A l \in DOMAIN MapKind : MapKind[l] # NoKind
  /\ \A i \in DOMAIN TileStack : TileStack[i] # NoKind
  /\ \A l \in Loc : DOMAIN Adjacent[l] \subseteq Nat
  /\ \A l \in Loc : \A m \in Near(l) : m \in Loc /\ l \in Near(m) /\ l # m
  /\ Len(TileStack) >= Cardinality(Loc \ DOMAIN MapKind)
  /\ \E l \in DOMAIN MapKind : MapKind[l] \in TowerKinds
  /\ Players # {} /\ {TurnOrder[i] : i \in DOMAIN TurnOrder} = Players
  /\ {DamagedMax, DefeatedMin, BonusAt, SpawnAt, PenaltyAt, WakeAt} \subseteq Nat
  /\ {ActionPoints, MaxHealth, MaxDarkness} \subseteq Nat \ {0}
  /\ {RestHeal, Damage, Bonus, Penalty, MonsterBound} \subseteq Nat
  /\ 1 <= DamagedMax /\ DamagedMax < DefeatedMin /\ DefeatedMin <= 6
  /\ Penalty < ActionPoints

VARIABLES
  board,   \* explored, kind, monsters, rescued and the tile stack
  team,    \* per player: at, ap, health, the flags of the turn, monstersSlain,
           \* villagesRescued
  turn,    \* activeIdx, turnsTaken, firstIdx, darkness and whether it is over
  born     \* history: the monsters that ever appeared

vars == <<board, team, turn, born>>

-----------------------------------------------------------------------------
(* The board.                                                              *)

Sum(f) == MapThenSumSet(LAMBDA x : f[x], DOMAIN f)
Herd(b) == Sum(b.monsters)

\* bfsBoard: how many steps away a place is when the places in ex are explored,
\* Far if it cannot be reached.  Every step leads onto explored ground; the
\* place the search starts from need not be explored.
Far == Len(Places)
Distances ==
  [ex \in SUBSET Loc |-> [from \in Loc |->
     LET reach[k \in 0 .. Far] ==
           IF k = 0 THEN {from}
           ELSE LET known == reach[k - 1]
                IN known \cup {l \in ex : Near(l) \cap known # {}}
     IN [to \in Loc |-> Min({k \in 0 .. Far - 1 : to \in reach[k]} \cup {Far})]]]
Steps(b, from, to) == Distances[b.explored][from][to]
Reaches(b, from, to) == Steps(b, from, to) < Far

\* The operators below take the team t as the command has left it.  A player
\* is known by the seat at the table, for the order of s.Players.
Here(t, l) == {i \in DOMAIN Table : t[Table[i]].at = l}    \* playersAt
Tower == CHOOSE l \in DOMAIN MapKind : MapKind[l] \in TowerKinds

\* nearestPlayerLocation, the lighthouse if there is none; ties go to the
\* player who comes first at the table.
Target_FirstAtTable(b, t, from) == t[Table[1]].at                  \* mutant
Target(b, t, from) ==
  LET at(i) == t[Table[i]].at
      seen == {i \in DOMAIN Table : Reaches(b, from, at(i))}
      nearest == Min({Steps(b, from, at(i)) : i \in seen})
  IN IF seen = {} THEN Tower
     ELSE at(Min({i \in seen : Steps(b, from, at(i)) = nearest}))

\* stepToward: the first neighbour that is closer; the place itself if none is.
StepToward(b, from, to) ==
  LET closer == {i \in DOMAIN Adjacent[from] :
                  /\ Adjacent[from][i] \in b.explored /\ Reaches(b, to, from)
                  /\ Steps(b, to, Adjacent[from][i]) < Steps(b, to, from)}
  IN IF closer = {} THEN from ELSE Adjacent[from][Min(closer)]

Budget(d) == IF d >= BonusAt THEN 1 + Bonus ELSE 1

\* resolveOneMonster, the part that moves: it stops where players are.
Goal(b, t, from, d) ==
  LET walk[k \in 0 .. Budget(d)] ==
        IF k = 0 THEN from
        ELSE LET cur == walk[k - 1]
             IN IF Here(t, cur) # {} THEN cur
                ELSE StepToward(b, cur, Target(b, t, from))
  IN walk[Budget(d)]

\* runMonsterPhase, place by place: nobody else moves meanwhile and the monsters
\* are counted before the first one moves, so all of a place do the same.
Walked_Copies(m, n, from, to) ==                                   \* mutant
  IF n = 0 THEN m ELSE [m EXCEPT ![to] = n]
Walked(m, n, from, to) ==
  LET left == [m EXCEPT ![from] = @ - n]
  IN IF n = 0 THEN m ELSE [left EXCEPT ![to] = @ + n]
Prowled_CountsLate(b, t, d) ==                                     \* mutant
  LET moved[k \in 0 .. Len(Places)] ==
        IF k = 0 THEN b.monsters
        ELSE LET l == Places[k]
             IN Walked(moved[k - 1], moved[k - 1][l], l, Goal(b, t, l, d))
  IN [b EXCEPT !.monsters = moved[Len(Places)]]
Prowled(b, t, d) ==
  LET moved[k \in 0 .. Len(Places)] ==
        IF k = 0 THEN b.monsters
        ELSE LET l == Places[k]
             IN Walked(moved[k - 1], b.monsters[l], l, Goal(b, t, l, d))
  IN [b EXCEPT !.monsters = moved[Len(Places)]]

\* The first player of the place who has no Lantern at the lighthouse is
\* attacked by every monster of the place.
Prey(b, t, l) ==
  {i \in Here(t, l) : ~ (Table[i] \in Lanterns /\ b.kind[l] \in TowerKinds)}
Wounds(b, t, p) ==
  LET prey == Prey(b, t, t[p].at) IN
  IF prey # {} /\ Table[Min(prey)] = p THEN b.monsters[t[p].at] * Damage ELSE 0
Hurt(h, n) == IF n > h THEN 0 ELSE h - n                           \* damagePlayer

-----------------------------------------------------------------------------
(* What appears on the board.  Each operator gives the possible boards.    *)

\* spawnMonster: at some explored dangerous place, nowhere if there is none.
Spawned(b) ==
  LET lairs == {l \in b.explored : b.kind[l] \in SpawnKinds}
  IN IF lairs = {} THEN {b} ELSE {[b EXCEPT !.monsters[l] = @ + 1] : l \in lairs}

\* As a card's effect, within the bound.
CardSpawned(b) == IF Herd(b) < MonsterBound THEN Spawned(b) ELSE {}

\* revealLocation: the next tile is laid, and what lives there may wake.
Laid_KeepsTile(b, l) ==                                             \* mutant
  [b EXCEPT !.explored = @ \cup {l}, !.kind[l] = b.stack[1]]
Laid(b, l) ==
  [b EXCEPT !.explored = @ \cup {l}, !.kind[l] = b.stack[1], !.stack = Tail(@)]
Woken(b, l) == [b EXCEPT !.monsters[l] = @ + 1]
Wakes(b) == b.stack[1] \in SpawnKinds /\ WakeAt > 0 /\ Herd(b) < MonsterBound
Revealed(b, l) ==
  {Laid(b, l)} \cup (IF Wakes(b) THEN {Woken(Laid(b, l), l)} ELSE {})

\* ensureCrystalReachable: a crystal tile below the part of the stack that is
\* going to be laid is swapped with the last tile of that part.
Slots == Cardinality(Loc \ DOMAIN MapKind)
Ensured_Never(s) == s                                              \* mutant
Ensured(s) ==
  LET deep == {i \in Slots + 1 .. Len(s) : s[i] \in CrystalKinds}
      i == Min(deep)
  IN IF Slots = 0 \/ deep = {} \/ \E k \in 1 .. Slots : s[k] \in CrystalKinds THEN s
     ELSE [s EXCEPT ![Slots] = s[i], ![i] = s[Slots]]

Shuffles(s) == {[i \in DOMAIN s |-> s[p[i]]] : p \in Bijection(DOMAIN s, DOMAIN s)}

\* NewGame before its first round.
Boards ==
  {[explored |-> DOMAIN MapKind,
    kind     |-> [l \in Loc |-> IF l \in DOMAIN MapKind THEN MapKind[l] ELSE NoKind],
    monsters |-> [l \in Loc |-> 0],
    rescued  |-> {},
    stack    |-> Ensured(s)] : s \in Shuffles(TileStack)}

\* runEventPhase: the card that is drawn sends a monster, or nothing the
\* board knows of.
EventCard(b) == {b} \cup CardSpawned(b)

-----------------------------------------------------------------------------
(* Turns.                                                                  *)

Active == TurnOrder[turn.activeIdx]
Next1(i) == IF i = Len(TurnOrder) THEN 1 ELSE i + 1

\* startTurn, at darkness d
TurnAP(d) == IF d >= PenaltyAt THEN ActionPoints - Penalty ELSE ActionPoints
Opened(t, p, d) == [t EXCEPT ![p].ap = TurnAP(d), ![p].freeMoveUsed = FALSE,
                             ![p].abilityUsed = FALSE]

Init ==
  \E b0 \in Boards : \E b \in EventCard(b0) :
    /\ board = b
    /\ born = Herd(b)
    /\ team = Opened([p \in Players |->
                        [at |-> Start, ap |-> 0, health |-> MaxHealth,
                         freeMoveUsed |-> FALSE, abilityUsed |-> FALSE,
                         slain |-> 0, saved |-> 0]], TurnOrder[1], 0)
    /\ turn = [activeIdx |-> 1, firstIdx |-> 1, turnsTaken |-> 0, darkness |-> 0,
               over |-> FALSE]

\* endRound: the monsters attack or prowl, darkness rises, and at the last
\* threshold one more monster appears; the match is lost or the next round
\* begins.  n monsters have appeared in the command so far.
EndRound(b, t, n) ==
  LET d == IF turn.darkness + 1 > MaxDarkness THEN MaxDarkness ELSE turn.darkness + 1
      hurt == [p \in Players |-> [t[p] EXCEPT !.health = Hurt(@, Wounds(b, t, p))]]
      dusk == Prowled(b, t, turn.darkness)
      first == Next1(turn.firstIdx)
  IN \E b1 \in IF d >= SpawnAt THEN Spawned(dusk) ELSE {dusk} :
       \/ /\ d >= MaxDarkness
          /\ board' = b1 /\ team' = hurt
          /\ turn' = [turn EXCEPT !.turnsTaken = @ + 1, !.darkness = d, !.over = TRUE]
          /\ born' = born + n + Herd(b1) - Herd(dusk)
       \/ /\ d < MaxDarkness
          /\ \E b2 \in EventCard(b1) :
               /\ board' = b2
               /\ born' = born + n + Herd(b2) - Herd(dusk)
          /\ team' = Opened(hurt, TurnOrder[first], d)
          /\ turn' = [activeIdx |-> first, firstIdx |-> first, turnsTaken |-> 0,
                      darkness |-> d, over |-> FALSE]

\* endTurn
EndTurn(b, t, n) ==
  LET done == [t EXCEPT ![Active].ap = 0]
      next == Next1(turn.activeIdx)
  IN \/ /\ turn.turnsTaken + 1 < Len(TurnOrder)
        /\ board' = b
        /\ team' = Opened(done, TurnOrder[next], turn.darkness)
        /\ turn' = [turn EXCEPT !.activeIdx = next, !.turnsTaken = @ + 1]
        /\ born' = born + n
     \/ /\ turn.turnsTaken + 1 >= Len(TurnOrder)
        /\ EndRound(b, done, n)

\* autoEndTurn: the command has left board b and team t.
OutOfAP_Never(t) == FALSE                                          \* mutant
OutOfAP(t) == t[Active].ap <= 0
Conclude(b, t) ==
  LET n == Herd(b) - Herd(board) + (t[Active].slain - team[Active].slain) IN
  \/ OutOfAP(t) /\ EndTurn(b, t, n)
  \/ ~ OutOfAP(t) /\ board' = b /\ team' = t /\ born' = born + n /\ UNCHANGED turn

-----------------------------------------------------------------------------
(* What Decide accepts of player p, as pairs of a command and a place, and *)
(* what LegalCommands offers.                                              *)

Cmd(kind, places) == {<<kind, l>> : l \in places}
If(holds, S) == IF holds THEN S ELSE {}
Unknown(l) == Near(l) \ board.explored
Exhausted(p) == team[p].health = 0
FreeMove(p, l) == p \in Compasses /\ ~ team[p].freeMoveUsed /\ l \in board.explored
FreeExplore(p) == p \in Navigators /\ ~ team[p].abilityUsed

\* Decide, 59-61: every command but the end of the turn needs a point, also
\* those that end up being free.
Accepted(p) ==
  LET me == team[p] IN
  If(~ turn.over /\ p = Active,
       Cmd("end_turn", {me.at})
       \cup If(me.ap >= 1,
              Cmd("move", Near(me.at))
              \cup Cmd("explore", Unknown(me.at))
              \cup If(~ Exhausted(p) /\ board.monsters[me.at] > 0, Cmd("fight", {me.at}))
              \cup If(board.monsters[me.at] = 0 /\ me.health < MaxHealth,
                      Cmd("rest", {me.at}))))

Legal_NoRestHurt(p) == Accepted(p) \ If(Exhausted(p), Cmd("rest", Loc))        \* mutant
Legal(p) ==
  LET me == team[p]
      poor == me.ap < 1
      compass == ~ me.freeMoveUsed /\ p \in Compasses
  IN If(~ turn.over /\ p = Active,
        Cmd("end_turn", {me.at})
        \cup If(~ poor \/ compass \/ FreeExplore(p),
               Cmd("move", {l \in Near(me.at) : ~ poor \/ (compass /\ l \in board.explored)})
               \cup If(~ poor \/ FreeExplore(p),
                       Cmd("explore", {l \in Near(me.at) : l \notin board.explored}))
               \cup If(~ poor /\ board.monsters[me.at] > 0 /\ ~ Exhausted(p),
                       Cmd("fight", {me.at}))
               \cup If(~ poor /\ board.monsters[me.at] = 0 /\ me.health < MaxHealth,
                       Cmd("rest", {me.at}))))

-----------------------------------------------------------------------------
(* The commands.                                                           *)

Paid == [team EXCEPT ![Active].ap = @ - 1]

\* decideMove.  It does not ask whether the place is explored.
Move(l) ==
  /\ <<"move", l>> \in Accepted(Active)
  /\ LET t == IF FreeMove(Active, l)
              THEN [team EXCEPT ![Active].freeMoveUsed = TRUE] ELSE Paid
     IN Conclude(board, [t EXCEPT ![Active].at = l])

\* decideExplore
Explore(l) ==
  /\ <<"explore", l>> \in Accepted(Active)
  /\ LET t == IF FreeExplore(Active)
              THEN [team EXCEPT ![Active].abilityUsed = TRUE] ELSE Paid
     IN \E b \in Revealed(board, l) : Conclude(b, t)

\* tryRescueVillage
Frees_Again(b, l) == b.kind[l] \in VillageKinds /\ b.monsters[l] = 0  \* mutant
Frees(b, l) ==
  b.kind[l] \in VillageKinds /\ b.monsters[l] = 0 /\ l \notin b.rescued

\* decideFight with resolveCombat: a roll of DefeatedMin or more wins, one of
\* DamagedMax or less hurts, one in between leaves both standing.
Fight ==
  LET l == team[Active].at
      won == [board EXCEPT !.monsters[l] = @ - 1]
      hero == [Paid EXCEPT ![Active].slain = @ + 1]
  IN /\ <<"fight", l>> \in Accepted(Active)
     /\ \/ /\ ~ Frees(won, l)
           /\ Conclude(won, hero)
        \/ /\ Frees(won, l)
           /\ Conclude([won EXCEPT !.rescued = @ \cup {l}],
                       [hero EXCEPT ![Active].saved = @ + 1])
        \/ Conclude(board, [Paid EXCEPT ![Active].health = Hurt(@, Damage)])
        \/ /\ DamagedMax + 1 < DefeatedMin
           /\ Conclude(board, Paid)

\* decideRest
Rest ==
  /\ <<"rest", team[Active].at>> \in Accepted(Active)
  /\ Conclude(board, [Paid EXCEPT ![Active].health =
                        IF @ + RestHeal > MaxHealth THEN MaxHealth ELSE @ + RestHeal])

\* decideInvestigate and the answer to its mystery, which calls a monster or
\* reveals the first place that is not explored.
Mystery ==
  LET hidden == {i \in DOMAIN Places : Places[i] \notin board.explored} IN
  /\ ~ turn.over /\ team[Active].ap >= 1
  /\ team[Active].at \in board.explored
  /\ \/ \E b \in CardSpawned(board) : Conclude(b, Paid)
     \/ hidden # {} /\ \E b \in Revealed(board, Places[Min(hidden)]) : Conclude(b, Paid)

\* Gathering, repairing, trading and mysteries of another kind take a point
\* and leave the board alone.
Work ==
  /\ ~ turn.over /\ team[Active].ap >= 1
  /\ Conclude(board, Paid)

EndOfTurn ==
  /\ <<"end_turn", team[Active].at>> \in Accepted(Active)
  /\ EndTurn(board, team, 0)

Next ==
  \/ \E l \in Loc : Move(l) \/ Explore(l)
  \/ Fight \/ Rest \/ Mystery \/ Work \/ EndOfTurn

Spec == Init /\ [][Next]_vars

-----------------------------------------------------------------------------
(* Properties.                                                             *)

BoardOK(b) ==
  /\ b \in [explored : SUBSET Loc, kind : [Loc -> Kinds], monsters : [Loc -> Nat],
            rescued : SUBSET Loc, stack : Seq(Kinds \ {NoKind})]
  /\ DOMAIN MapKind \subseteq b.explored /\ b.rescued \subseteq b.explored
  /\ \A l \in Loc : l \in b.explored <=> b.kind[l] # NoKind

Teams ==
  [Players -> [at : Loc, ap : 0 .. ActionPoints, health : 0 .. MaxHealth,
               freeMoveUsed : BOOLEAN, abilityUsed : BOOLEAN,
               slain : Nat, saved : Nat]]

TypeOK ==
  /\ BoardOK(board)
  /\ team \in Teams /\ \A p \in Players \ {Active} : team[p].ap = 0
  /\ turn \in [activeIdx : Seats, firstIdx : Seats, turnsTaken : 0 .. Len(TurnOrder),
               darkness : 0 .. MaxDarkness, over : BOOLEAN]

\* Whatever appears on the board stays there until a player defeats it: no
\* monster is lost or doubled when monsters of several places move in one
\* phase (MonstersSlain, a personal objective, counts the same).
Slain(t) == Sum([p \in Players |-> t[p].slain])
MonstersCounted == Herd(board) + Slain(team) = born

\* Monsters are on explored ground only, however far the island has grown;
\* runMonsterPhase, spawnMonster and revealLocation each see to it in their
\* own way.
MonstersOnExplored(b) == \A l \in Loc : b.monsters[l] > 0 => l \in b.explored

\* A monster phase of this very position: a monster that shares its place
\* with a player stays to attack, any other comes exactly as much closer to
\* the nearest player it can reach as its budget allows and stops where it
\* meets one; without such a player it heads for the lighthouse.
Pursuit ==
  LET far(l, m) == Steps(board, l, m)
      nearest(l, M) == Min({far(l, m) : m \in M})
  IN \A l \in {m \in Loc : board.monsters[m] > 0} :
       LET goal == Goal(board, team, l, turn.darkness)
           people == {m \in Loc : Here(team, m) # {} /\ Reaches(board, l, m)}
           M == IF people # {} THEN people
                ELSE {m \in {Tower} : Reaches(board, l, m)}
           d == nearest(l, M)
           step == Min({d, Budget(turn.darkness)})
       IN IF M = {} THEN goal = l
          ELSE far(l, goal) = step /\ nearest(goal, M) = d - step

\* No monster acts twice in a phase, although those of the first places move
\* into places whose turn comes later: nowhere are more monsters afterwards
\* than there were as near as one monster may walk, and none is lost.
NoMonsterTwice ==
  Herd(board) > 0 =>
    LET after == Prowled(board, team, turn.darkness)
        near(l) == {m \in Loc : Steps(board, m, l) <= Budget(turn.darkness)}
    IN /\ Herd(after) = Herd(board)
       /\ \A l \in Loc :
            after.monsters[l] <= Sum([m \in near(l) |-> board.monsters[m]])

\* Every village that is safe was saved by one player, who has been credited
\* once (VillagesRescued counts for an objective and pays points).
Saved(t) == Sum([p \in Players |-> t[p].saved])
RescuedOnce ==
  /\ Cardinality(board.rescued) = Saved(team)
  /\ \A l \in board.rescued : board.kind[l] \in VillageKinds

\* The tiles laid and the tiles left are the tiles of the content, and there
\* is one for every place that is still to be explored.
Count(s, k) == Cardinality({i \in DOMAIN s : s[i] = k})
LaidOut(b, k) == Cardinality({l \in b.explored \ DOMAIN MapKind : b.kind[l] = k})
TilesConserved(b) ==
  /\ \A k \in {TileStack[i] : i \in DOMAIN TileStack} :
        LaidOut(b, k) + Count(b.stack, k) = Count(TileStack, k)
  /\ Len(b.stack) >= Cardinality(Loc \ b.explored)

\* What is on the island is neither lost nor doubled: monsters, villages, tiles.
NothingLost ==
  /\ TypeOK /\ MonstersCounted /\ RescuedOnce
  /\ MonstersOnExplored(board) /\ TilesConserved(board)

\* guarantee_crystal_tile: a match can always still get at crystal, on the
\* board or under a place that can be explored.
CrystalLeft(b) ==
  (\E i \in DOMAIN TileStack : TileStack[i] \in CrystalKinds) /\ Slots > 0 =>
    \/ \E l \in b.explored : b.kind[l] \in CrystalKinds
    \/ \E i \in 1 .. Cardinality(Loc \ b.explored) : b.stack[i] \in CrystalKinds
CrystalReachable == CrystalLeft(board)

\* legal.go: whatever is offered is accepted in the same state
\* (TestLegalCommandsAreAllAccepted).  LegalCommands offers free moves to a
\* player without points, Decide refuses them: that the turn has ended by
\* itself before is what keeps the two together.
OfferedIsAccepted == \A p \in Players : Legal(p) \subseteq Accepted(p)

\* legal.go: a command that would be accepted is never missing from the offer.
AcceptedIsOffered == \A p \in Players : Accepted(p) \subseteq Legal(p)

\* The offer is exact, at every point of a turn and over its automatic end.
OffersAreExact == OfferedIsAccepted /\ AcceptedIsOffered

-----------------------------------------------------------------------------
(* The inductive invariant: besides the above, while the match goes on the  *)
(* one whose turn it is can do something, since a turn ends with its last  *)
(* point, and the round has not ended yet.                                 *)

GoesOn ==
  ~ turn.over => team[Active].ap >= 1 /\ turn.turnsTaken < Len(TurnOrder)
IInv == NothingLost /\ CrystalReachable /\ GoesOn

=============================================================================

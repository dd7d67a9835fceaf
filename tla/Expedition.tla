----------------------------- MODULE Expedition -----------------------------
(***************************************************************************)
(* What the players carry, how they are, and what they build with it: the  *)
(* commands of core/decide.go and core/decide_m1.go on resources, health   *)
(* and the lighthouse, the effects of cards (core/effect.go), and the      *)
(* regeneration of the island (core/phase.go).                             *)
(*                                                                         *)
(* Turns, action points and Darkness are in TurnEngine: here whoever has   *)
(* something to do may do it, at any time a command could be accepted.     *)
(* Monsters appear as the wounds they make, unexplored locations not at    *)
(* all.  Darkness weakens gathering: the penalty is any of Penalties.      *)
(***************************************************************************)
EXTENDS Integers, Sequences, FiniteSets, FiniteSetsExt, Functions

CONSTANTS
  Players,
  Engineers,      \* those with the ability efficient_repair
  Locations, Lighthouse,
  Adjacent,       \* the neighbours of each location
  Yields, Tag,    \* what a location brings forth, and its tag
  Artifacts,      \* the artifacts, named by their effects
  EventCards,     \* each a sequence of effects
  MysteryCards,   \* each a set of options, an option a sequence of effects
  Cost, VP,       \* of each component, in the order of repair
  MaxHealth, RestHeal, MonsterDamage,
  Capacity, ExhaustedCapacity, CapacityBonus,
  GatherBase, Penalties, Regen, MaxStock, TradeMax

Resources == 0 .. 3          \* Wood, Metal, Crystal, Food
Nobody == "nobody"           \* the actor of an event card

\* What Content.Validate and NewGame make sure of, and of the content shipped
\* that the rules have no negative number, a rest heals, gathering gives
\* something and the exhausted carry no more than the fit.
ASSUME ExpeditionAssumption ==
  /\ IsFiniteSet(Players) /\ IsFiniteSet(Locations) /\ Nobody \notin Players
  /\ Engineers \subseteq Players /\ Lighthouse \in Locations
  /\ Adjacent \in [Locations -> SUBSET Locations]
  /\ MaxHealth \in Nat \ {0} /\ RestHeal \in Nat \ {0} /\ MonsterDamage \in Nat
  /\ Capacity \in Nat /\ CapacityBonus \in Nat
  /\ ExhaustedCapacity \in 0 .. Capacity
  /\ GatherBase \in Nat \ {0} /\ Penalties \subseteq Nat
  /\ Regen \in Nat /\ MaxStock \in Nat /\ TradeMax \in Nat
  /\ Yields \in [Locations -> [Resources -> 0 .. MaxStock]]
  /\ Cost \in Seq([Resources -> Nat]) /\ DOMAIN VP = DOMAIN Cost
  /\ \A k \in DOMAIN Cost : VP[k] \in Nat /\ \E r \in Resources : Cost[k][r] > 0
  /\ \A card \in EventCards \cup UNION MysteryCards :
       /\ card \in Seq(Range(card))
       /\ \A i \in DOMAIN card :
            /\ card[i].amount \in Nat /\ card[i].res \in Resources
            /\ card[i].op = "heal_all" => card[i].amount > 0

VARIABLES
  player,    \* of each player: where it is, its health, inventory, ...
  place,     \* of each location: its stock, and whether gathering is blocked
  progress,  \* what was paid into the component being repaired
  given,     \* Contributions of each component, in the order of first payment
  repaired,  \* how many components are repaired, always the first ones
  pending    \* the mystery options somebody has to choose from

vars == <<player, place, progress, given, repaired, pending>>

-----------------------------------------------------------------------------
(* Resource sets.                                                          *)

Nothing == [r \in Resources |-> 0]
Unit(r, n) == [Nothing EXCEPT ![r] = n]
Total(x) == x[0] + x[1] + x[2] + x[3]
Plus(x, y) == [r \in Resources |-> x[r] + y[r]]
Minus(x, y) == [r \in Resources |-> x[r] - y[r]]
Least(x, y) == [r \in Resources |-> Min({x[r], y[r]})]
Covers(x, need) == \A r \in Resources : x[r] >= need[r]
Missing(x, need) ==
  [r \in Resources |-> IF need[r] > x[r] THEN need[r] - x[r] ELSE 0]

\* The most plentiful resource, the first one among equals
Fullest(x) ==
  CHOOSE r \in Resources :
    \A q \in Resources : x[q] < x[r] \/ (x[q] = x[r] /\ r <= q)

PartsOf(x) ==
  {[Nothing EXCEPT ![0] = a, ![1] = b, ![2] = c, ![3] = d] :
     a \in 0 .. x[0], b \in 0 .. x[1], c \in 0 .. x[2], d \in 0 .. x[3]}

-----------------------------------------------------------------------------
(* A player.  Each operator gives the player after the events it stands    *)
(* for were applied.                                                       *)

CapacityOf(pl) ==
  IF pl.exhausted THEN ExhaustedCapacity
  ELSE IF "capacity_bonus" \in pl.artifacts THEN Capacity + CapacityBonus
  ELSE Capacity

Room(pl) ==
  IF Total(pl.inv) < CapacityOf(pl) THEN CapacityOf(pl) - Total(pl.inv) ELSE 0

\* mutant: resources beyond the capacity are kept
DropExcess_Keeps(x, n) == x
\* dropExcess: one by one from whatever there is most of
DropExcess(x, n) ==
  LET excess == IF Total(x) > n THEN Total(x) - n ELSE 0
      after[k \in 0 .. excess] ==
        IF k = 0 THEN x
        ELSE [after[k - 1] EXCEPT ![Fullest(after[k - 1])] = @ - 1]
  IN after[excess]

Exhaust(pl) ==
  [pl EXCEPT !.exhausted = TRUE, !.inv = DropExcess(@, ExhaustedCapacity)]

\* damagePlayer
Damage(pl, n) ==
  LET hurt == [pl EXCEPT !.health = @ - Min({n, @})] IN
  IF hurt.health = 0 /\ ~ pl.exhausted THEN Exhaust(hurt) ELSE hurt

Heal_StaysExhausted(pl, n) ==                                      \* mutant
  [pl EXCEPT !.health = Min({@ + n, MaxHealth})]
Heal_Unbounded(pl, n) ==                                           \* mutant
  [pl EXCEPT !.health = @ + n, !.exhausted = FALSE]
Heal(pl, n) ==
  IF pl.health >= MaxHealth THEN pl
  ELSE [pl EXCEPT !.health = Min({@ + n, MaxHealth}), !.exhausted = FALSE]

\* grantResources; its callers grant one kind of resource at a time.
Grant(pl, r, n) == [pl EXCEPT !.inv[r] = @ + Min({n, Room(pl)})]

\* pay_resource takes what there is.
Pay(pl, r, n) == [pl EXCEPT !.inv[r] = @ - Min({n, @})]

-----------------------------------------------------------------------------
(* Effects of cards on the table t, a record of player and place.  The     *)
(* effects on Darkness, monsters, tiles and victory points are elsewhere.  *)

\* What an event card does to a player
Suffers(pl, e) ==
  CASE e.op = "heal_all" -> Heal(pl, e.amount)
    [] e.op = "damage_all" -> Damage(pl, e.amount)
    [] e.op = "grant_all" -> Grant(pl, e.res, e.amount)
    [] e.op = "damage_at_tag" /\ Tag[pl.at] = e.tag -> Damage(pl, e.amount)
    [] OTHER -> pl

Restocked(l, x, n) ==
  [r \in Resources |->
     IF Yields[l][r] = 0 THEN x[r] ELSE Min({x[r] + n, MaxStock})]

\* ... and to a location
Altered(l, x, e) ==
  CASE e.op = "block_gather" /\ Tag[l] = e.tag -> [x EXCEPT !.blocked = TRUE]
    [] e.op = "restock" /\ Tag[l] = e.tag ->
         [x EXCEPT !.stock = Restocked(l, @, e.amount)]
    [] OTHER -> x

GlobalEffect(t, e) ==
  [player |-> [p \in Players |-> Suffers(t.player[p], e)],
   place |-> [l \in Locations |-> Altered(l, t.place[l], e)]]

\* What a mystery option does to the player p who has chosen it; prize is the
\* artifact on top of the deck, if there is one.
Personal(pl, e, prize) ==
  CASE e.op = "gain_resource" -> Grant(pl, e.res, e.amount)
    [] e.op = "pay_resource" -> Pay(pl, e.res, e.amount)
    [] e.op = "damage" -> Damage(pl, e.amount)
    [] e.op = "gain_artifact" -> [pl EXCEPT !.artifacts = @ \cup prize]

EffectOn(t, e, p, prize) ==
  IF e.op \in {"gain_resource", "pay_resource", "damage", "gain_artifact"}
  THEN IF p = Nobody THEN t ELSE [t EXCEPT !.player[p] = Personal(@, e, prize)]
  ELSE GlobalEffect(t, e)

\* applyEffects: one after the other
Effects(t, effects, p, prize) ==
  LET after[k \in 0 .. Len(effects)] ==
        IF k = 0 THEN t ELSE EffectOn(after[k - 1], effects[k], p, prize)
  IN after[Len(effects)]

Table == [player |-> player, place |-> place]

\* Artifacts are never put back: those in the deck are those nobody has.
InDeck == Artifacts \ UNION {player[p].artifacts : p \in Players}
Prizes == IF InDeck = {} THEN {{}} ELSE {{a} : a \in InDeck}

-----------------------------------------------------------------------------
(* The lighthouse.                                                         *)

Contribute(c, p, n) ==
  IF n = 0 THEN c
  ELSE IF \E i \in DOMAIN c : c[i].player = p
  THEN [i \in DOMAIN c |->
          IF c[i].player = p THEN [c[i] EXCEPT !.amount = @ + n] ELSE c[i]]
  ELSE Append(c, [player |-> p, amount |-> n])

Amounts(c) == [i \in DOMAIN c |-> c[i].amount]
Amount(c) == SumFunction(Amounts(c))

Share(c, i, vp) == (vp * c[i].amount) \div Amount(c)
Remainder(c, i, vp) == (vp * c[i].amount) % Amount(c)

\* The largest remainder, then the largest contribution, then the first one
Luckiest(c, vp) ==
  CHOOSE i \in DOMAIN c : \A j \in DOMAIN c :
    LET a == Remainder(c, i, vp)  b == Remainder(c, j, vp) IN
    \/ a > b
    \/ a = b /\ c[i].amount > c[j].amount
    \/ a = b /\ c[i].amount = c[j].amount /\ i <= j

Shares(c, vp) == [i \in DOMAIN c |-> Share(c, i, vp)]

Award_FloorsOnly(c, vp) == Shares(c, vp)                           \* mutant
Award_Luckiest(c, vp) ==                                           \* mutant
  [i \in DOMAIN c |-> IF i = Luckiest(c, vp) THEN vp ELSE 0]
\* distributeComponentVP: whole shares, and everything left over to one player
Award(c, vp) ==
  LET left == vp - SumFunction(Shares(c, vp))
  IN [Shares(c, vp) EXCEPT ![Luckiest(c, vp)] = @ + left]

PaidBy(c, p) == {i \in DOMAIN c : c[i].player = p}
Awarded(c, vp, p) == SumFunctionOnSet(Award(c, vp), PaidBy(c, p))

-----------------------------------------------------------------------------
NoChoice == [player |-> Nobody, options |-> {}]
\* Of the two ends, the one that comes of repairing; the other is in TurnEngine.
Over == repaired = Len(Cost)
MayAct_Always == ~ Over                                            \* mutant
MayAct == ~ Over /\ pending = NoChoice

Init ==
  /\ player = [p \in Players |->
       [at |-> Lighthouse, health |-> MaxHealth, exhausted |-> FALSE,
        inv |-> Nothing, artifacts |-> {}, discountUsed |-> FALSE, vp |-> 0]]
  /\ place = [l \in Locations |-> [stock |-> Yields[l], blocked |-> FALSE]]
  /\ progress = Nothing /\ given = [i \in DOMAIN Cost |-> <<>>]
  /\ repaired = 0 /\ pending = NoChoice

Move(p, l) ==
  /\ MayAct /\ l \in Adjacent[player[p].at]
  /\ player' = [player EXCEPT ![p].at = l]
  /\ UNCHANGED <<place, progress, given, repaired, pending>>

\* The least a weakened gathering brings is one.
GatherAmount(pl, penalty) ==
  LET weakened == IF penalty < GatherBase THEN GatherBase - penalty ELSE 1 IN
  IF "gather_bonus" \in pl.artifacts THEN weakened + 1 ELSE weakened

Taken_NotFromStock(l, r, n) == place                               \* mutant
Taken(l, r, n) == [place EXCEPT ![l].stock[r] = @ - n]

Gather(p, r) ==
  LET here == player[p].at IN
  /\ MayAct /\ ~ place[here].blocked
  /\ place[here].stock[r] > 0 /\ Room(player[p]) > 0
  /\ \E penalty \in Penalties :
       LET n == Min({GatherAmount(player[p], penalty), place[here].stock[r],
                     Room(player[p])})
       IN /\ player' = [player EXCEPT ![p].inv[r] = @ + n]
          /\ place' = Taken(here, r, n)
  /\ UNCHANGED <<progress, given, repaired, pending>>

HasDiscount(p) ==
  /\ ~ player[p].discountUsed
  /\ p \in Engineers \/ "repair_discount_per_round" \in player[p].artifacts

\* mutant: what the discount already covers is paid once more
Due_BeforeDiscount(need, free) == need
Due(need, free) == Minus(need, free)

\* The component is complete: its victory points are shared out.
Paid(p, free, paid) ==
  LET k == repaired + 1
      x == Plus(progress, Plus(free, paid))
      c == Contribute(Contribute(given[k], p, Total(free)), p, Total(paid))
      pl == [player EXCEPT ![p].inv = Minus(@, paid),
                           ![p].discountUsed = @ \/ free # Nothing]
  IN /\ given' = [given EXCEPT ![k] = c]
     /\ IF Covers(x, Cost[k])
          THEN /\ repaired' = k /\ progress' = Nothing
               /\ player' = [q \in Players |->
                    [pl[q] EXCEPT !.vp = @ + Awarded(c, VP[k], q)]]
          ELSE progress' = x /\ player' = pl /\ UNCHANGED repaired

\* The discount comes first, and only then is the payment cut to the need.
Repair(p, pay) ==
  /\ MayAct /\ player[p].at = Lighthouse
  /\ Covers(player[p].inv, pay)
  /\ LET need == Missing(progress, Cost[repaired + 1])
         free == IF HasDiscount(p) THEN Unit(Fullest(need), 1) ELSE Nothing
     IN /\ Least(pay, need) # Nothing \/ HasDiscount(p)
        /\ Paid(p, free, Least(pay, Due(need, free)))
  /\ UNCHANGED <<place, pending>>

\* Where there is no monster; those are not modelled.
Rest(p) ==
  /\ MayAct /\ player[p].health < MaxHealth
  /\ player' = [player EXCEPT ![p] = Heal(@, RestHeal)]
  /\ UNCHANGED <<place, progress, given, repaired, pending>>

HasRoom(q, x) == Total(x) <= Room(player[q])

\* decideTrade: a gift to somebody in the same place
Trade(p, q, gift) ==
  /\ MayAct /\ p # q /\ player[p].at = player[q].at
  /\ gift # Nothing /\ Total(gift) <= TradeMax
  /\ Covers(player[p].inv, gift) /\ HasRoom(q, gift)
  /\ player' = [player EXCEPT ![p].inv = Minus(@, gift),
                              ![q].inv = Plus(@, gift)]
  /\ UNCHANGED <<place, progress, given, repaired, pending>>

\* A fight that was lost, or an attack in the monster phase
Wound(p) ==
  /\ MayAct
  /\ player' = [player EXCEPT ![p] = Damage(@, MonsterDamage)]
  /\ UNCHANGED <<place, progress, given, repaired, pending>>

\* What p cannot pay for is not offered.
Affordable(pl, o) ==
  \A i \in DOMAIN o : o[i].op = "pay_resource" => pl.inv[o[i].res] >= o[i].amount

\* offerMysteryOptions; without options the card is discarded.
Investigate(p, card) ==
  LET options == {o \in card : Affordable(player[p], o)} IN
  /\ MayAct
  /\ pending' = IF options = {} THEN NoChoice
                ELSE [player |-> p, options |-> options]
  /\ UNCHANGED <<player, place, progress, given, repaired>>

Choose(p, o) ==
  /\ ~ Over /\ pending.player = p /\ o \in pending.options
  /\ pending' = NoChoice
  /\ \E prize \in Prizes :
       LET t == Effects(Table, o, p, prize)
       IN player' = t.player /\ place' = t.place
  /\ UNCHANGED <<progress, given, repaired>>

\* beginRound: discounts and locations are renewed, then an event card acts.
NewRound(card) ==
  /\ MayAct
  /\ LET renewed ==
           [player |-> [p \in Players |->
                          [player[p] EXCEPT !.discountUsed = FALSE]],
            place |-> [l \in Locations |->
                          [stock |-> Restocked(l, place[l].stock, Regen),
                           blocked |-> FALSE]]]
         t == Effects(renewed, card, Nobody, {})
     IN player' = t.player /\ place' = t.place
  /\ UNCHANGED <<progress, given, repaired, pending>>

-----------------------------------------------------------------------------
Work(p) ==
  \/ \E r \in Resources : Gather(p, r)
  \/ \E pay \in PartsOf(player[p].inv) : Repair(p, pay)
  \/ \E q \in Players, gift \in PartsOf(player[p].inv) : Trade(p, q, gift)

Next ==
  \/ \E p \in Players : Work(p) \/ Rest(p) \/ Wound(p)
  \/ \E p \in Players, l \in Locations : Move(p, l)
  \/ \E p \in Players, card \in MysteryCards : Investigate(p, card)
  \/ \E p \in Players, o \in UNION MysteryCards : Choose(p, o)
  \/ \E card \in EventCards : NewRound(card)

Spec == Init /\ [][Next]_vars

-----------------------------------------------------------------------------
(* Properties.                                                             *)

Person ==
  [at : Locations, health : 0 .. MaxHealth, exhausted : BOOLEAN,
   inv : [Resources -> Nat], artifacts : SUBSET Artifacts,
   discountUsed : BOOLEAN, vp : Nat]
Spot == [stock : [Resources -> 0 .. MaxStock], blocked : BOOLEAN]

\* Every variable keeps to its type; stocks stay within their limit.
TypeOK ==
  /\ player \in [Players -> Person] /\ place \in [Locations -> Spot]
  /\ progress \in [Resources -> Nat]
  /\ repaired \in 0 .. Len(Cost)

\* Nobody ever carries more than it can, from whatever source the resources
\* came, although the capacity shrinks with exhaustion.
InventoryFits ==
  \A p \in Players : Total(player[p].inv) <= CapacityOf(player[p])

\* A player is exhausted exactly while its health is zero.
ExhaustedAtZero ==
  \A p \in Players : player[p].exhausted <=> player[p].health = 0

\* A player is whole: of the right type, with the load its health allows.
PlayersWhole == TypeOK /\ InventoryFits /\ ExhaustedAtZero

\* No resource is paid in vain: the component being repaired never holds more
\* than it costs, is not complete yet, and its contributors account for every
\* unit in it, as those of a repaired component account for its cost.
BuiltByContributions ==
  \A k \in DOMAIN Cost :
    CASE k <= repaired -> Amount(given[k]) = Total(Cost[k])
      [] k = repaired + 1 -> /\ Amount(given[k]) = Total(progress)
                             /\ Covers(Cost[k], progress)
                             /\ ~ Covers(progress, Cost[k])
      [] OTHER -> given[k] = <<>>

\* The victory points of the repaired components were all given out.  Those of
\* objectives, monsters and villages do not pass through Award and are left out.
AllVPGivenOut ==
  SumFunction([p \in Players |-> player[p].vp])
    = SumFunctionOnSet(VP, 1 .. repaired)

\* Who paid for a part of a component, rounded down, gets that part.
FloorOf(p, k) == SumFunctionOnSet(Shares(given[k], VP[k]), PaidBy(given[k], p))
EveryoneGetsShare ==
  \A p \in Players :
    player[p].vp >= SumFunction([k \in 1 .. repaired |-> FloorOf(p, k)])

\* The victory points of the repaired components were given out, all of them
\* and with everybody's share respected.
PointsGivenOut == AllVPGivenOut /\ EveryoneGetsShare

\* What was offered stays affordable until the choice is made, whatever the
\* others do meanwhile.
PriceIsPaid ==
  \A o \in pending.options : Affordable(player[pending.player], o)

\* Gathering, repairing and giving only move resources about; the one exception
\* is the unit a discount saves, once in a round.
Everything ==
  SumFunction([p \in Players |-> Total(player[p].inv)])
    + SumFunction([l \in Locations |-> Total(place[l].stock)])
    + Total(progress) + SumFunction([k \in 1 .. repaired |-> Total(Cost[k])])
Discounts == Cardinality({p \in Players : player[p].discountUsed})
Touched ==
  \/ given' # given \/ place' # place
  \/ \E p \in Players : player'[p].inv # player[p].inv
WorkConserves ==
  [][ Touched =>
        \/ Everything' = Everything + Discounts' - Discounts
        \/ ~ \E p \in Players : Work(p) ]_vars

-----------------------------------------------------------------------------
(* The inductive invariant: besides the above, nobody is listed twice among *)
(* the contributors of a component, and a choice is between options of     *)
(* mystery cards.                                                          *)

Contributors(c) ==
  /\ c \in Seq([player : Players, amount : Nat \ {0}])
  /\ \A i, j \in DOMAIN c : c[i].player = c[j].player => i = j
GivenOK == DOMAIN given = DOMAIN Cost /\ \A k \in DOMAIN Cost : Contributors(given[k])

PendingOK ==
  pending = NoChoice \/ pending \in [player : Players, options : SUBSET UNION MysteryCards]

IInv ==
  /\ PlayersWhole /\ PriceIsPaid /\ BuiltByContributions /\ PointsGivenOut
  /\ GivenOK /\ PendingOK
=============================================================================

------------------------------- MODULE Decks --------------------------------
(***************************************************************************)
(* The event, mystery and artifact decks, and the dilemma that a mystery   *)
(* puts before a player (src/core/deck.go, the Investigate and Choose      *)
(* handlers of decide_m1.go, runEventPhase, and what Apply does to decks). *)
(*                                                                         *)
(* One action per accepted command with everything Decide makes of it:     *)
(* drawing may shuffle the discards back first, a card that offers nothing *)
(* the player can pay is discarded at once, an answer may bring an         *)
(* artifact, and the command that ends a round draws and discards the next *)
(* event card.  Inventories are left out: which options a player can pay   *)
(* is chosen when they are filtered.  Draw piles and discards are          *)
(* sequences, so that a card that is lost or doubled shows.                *)
(***************************************************************************)
EXTENDS Integers, Sequences, FiniteSets, Functions

CONSTANTS
  Events, Mysteries, Artifacts,   \* the cards
  Options,       \* the options of a mystery
  Prize,         \* the option that brings an artifact, gain_artifact
  Place,         \* the places, all of them explored
  TurnOrder,     \* sequence of the players
  Scholars,      \* who draws two mysteries, once in a turn
  ActionPoints,
  NoOne, NoCard  \* no player chooses, no card drawn

Players == {TurnOrder[i] : i \in DOMAIN TurnOrder}
Kinds == {"event", "mystery", "artifact"}
CardsOf(k) ==
  CASE k = "event" -> Events [] k = "mystery" -> Mysteries [] k = "artifact" -> Artifacts

ASSUME ContentAssumption ==
  /\ \A k \in Kinds : CardsOf(k) # {} /\ IsFiniteSet(CardsOf(k))
  /\ Cardinality(Options) >= 2 /\ Prize \in Options
  /\ ActionPoints \in Nat \ {0} /\ TurnOrder \in Seq(Players) /\ TurnOrder # <<>>
  /\ NoOne \notin Players /\ NoCard \notin Events \cup Mysteries \cup Artifacts

VARIABLES
  deck,          \* per kind: the draw pile and the discards, top card first
  held,          \* the artifacts of each player, in the order gained
  pending,       \* s.Pending: who chooses, among which cards or options
  at,            \* where the players are
  investigated,  \* the places whose mystery of this round is done
  seat,          \* FirstIdx, ActiveIdx and TurnsTaken
  ap,            \* points of the active player
  abilityUsed,   \* AbilityUsedTurn of the active player
  answered       \* history: mysteries answered at each place in this round

vars == <<deck, held, pending, at, investigated, seat, ap, abilityUsed, answered>>

-----------------------------------------------------------------------------
(* deck.go.                                                                *)

Shuffles(s) == {[i \in DOMAIN s |-> s[f[i]]] : f \in Bijection(DOMAIN s, DOMAIN s)}

\* drawCard: the ways to draw from deck d, each with the deck that is left.
Drawn_ShufflesAll(d) ==                                            \* mutant
  {[card |-> s[1], deck |-> [draw |-> Tail(s), discard |-> <<>>]] :
     s \in Shuffles(d.draw \o d.discard)}
Drawn_KeepsDiscards(d) ==                                          \* mutant
  IF d.draw # <<>>
  THEN {[card |-> d.draw[1], deck |-> [d EXCEPT !.draw = Tail(@)]]}
  ELSE {[card |-> s[1], deck |-> [d EXCEPT !.draw = Tail(s)]] : s \in Shuffles(d.discard)}
Drawn(d) ==
  IF d.draw # <<>>
  THEN {[card |-> d.draw[1], deck |-> [d EXCEPT !.draw = Tail(@)]]}
  ELSE IF d.discard = <<>> THEN {[card |-> NoCard, deck |-> d]}
  ELSE {[card |-> s[1], deck |-> [draw |-> Tail(s), discard |-> <<>>]] :
          s \in Shuffles(d.discard)}

\* discardCard
Put(d, c) == IF c = NoCard THEN d ELSE [d EXCEPT !.discard = Append(@, c)]

Left(d) == Len(d.draw) + Len(d.discard)

\* buildDeck
Built(k) == {[draw |-> s, discard |-> <<>>] : s \in Bijection(1 .. Cardinality(CardsOf(k)), CardsOf(k))}

\* runEventPhase: the card of the round is drawn and discarded.
EventPhase(d) == {Put(e.deck, e.card) : e \in Drawn(d)}

-----------------------------------------------------------------------------
(* Turns; TurnEngine has them in full.                                     *)

NoChoice == [by |-> NoOne, cards |-> <<>>, card |-> NoCard, options |-> {}]
Active == TurnOrder[seat.active]
Following(i) == IF i = Len(TurnOrder) THEN 1 ELSE i + 1

Init ==
  /\ \E e \in Built("event"), m \in Built("mystery"), a \in Built("artifact") :
       \E e1 \in EventPhase(e) : deck = [event |-> e1, mystery |-> m, artifact |-> a]
  /\ held = [p \in Players |-> <<>>]
  /\ pending = NoChoice
  /\ at \in [Players -> Place]
  /\ investigated = {} /\ answered = [l \in Place |-> 0]
  /\ seat = [first |-> 1, active |-> 1, taken |-> 0]
  /\ ap = ActionPoints /\ abilityUsed = FALSE

\* endTurn: the command has left the decks d and the places S investigated,
\* and mysteries answered as in n.
EndTurn(d, S, n) ==
  LET last == seat.taken + 1 >= Len(TurnOrder)
      first == Following(seat.first)
  IN /\ ap' = ActionPoints /\ abilityUsed' = FALSE
     /\ \/ /\ ~ last
           /\ seat' = [seat EXCEPT !.active = Following(@), !.taken = @ + 1]
           /\ deck' = d /\ investigated' = S /\ answered' = n
        \/ /\ last
           /\ seat' = [first |-> first, active |-> first, taken |-> 0]
           /\ \E e \in EventPhase(d.event) : deck' = [d EXCEPT !.event = e]
           /\ investigated' = {} /\ answered' = [l \in Place |-> 0]

\* autoEndTurn: a turn without points ends, unless a choice is to be made.
HoldsTurn(c) == c # NoChoice
Conclude(d, c, points, used, S, n) ==
  /\ pending' = c
  /\ \/ points <= 0 /\ ~ HoldsTurn(c) /\ EndTurn(d, S, n)
     \/ /\ points > 0 \/ HoldsTurn(c)
        /\ deck' = d /\ ap' = points /\ abilityUsed' = used
        /\ investigated' = S /\ answered' = n
        /\ UNCHANGED seat

-----------------------------------------------------------------------------
(* The commands.                                                           *)

MayAct == pending = NoChoice /\ ap >= 1

\* offerMysteryOptions: the options the player can pay; a card of which none
\* can be paid is discarded.  Each result is a mystery deck and a choice.
OneCard(p, c, opts) == [by |-> p, cards |-> <<>>, card |-> c, options |-> opts]
Offered(d, p, c) ==
  {IF opts = {} THEN [deck |-> Put(d, c), choice |-> NoChoice]
   ELSE [deck |-> d, choice |-> OneCard(p, c, opts)] : opts \in SUBSET Options}

\* decideInvestigate
MayInvestigate_Again(l) == TRUE                                    \* mutant
MayInvestigate(l) == l \notin investigated
SeesTwo(p, d) == p \in Scholars /\ ~ abilityUsed /\ Left(d) >= 2

InvestigateOne ==
  LET d == deck.mystery IN
  /\ MayAct /\ MayInvestigate(at[Active]) /\ Left(d) > 0
  /\ ~ SeesTwo(Active, d)
  /\ \E e \in Drawn(d) : \E o \in Offered(e.deck, Active, e.card) :
       Conclude([deck EXCEPT !.mystery = o.deck], o.choice, ap - 1, abilityUsed,
                investigated, answered)
  /\ UNCHANGED <<held, at>>

\* The scholar's cards are put before her; that the second draw finds a card
\* is what SeesTwo is for, and a single card is offered like anybody's.
TwoCards(p, a, b) == [by |-> p, cards |-> <<a, b>>, card |-> NoCard, options |-> {}]
InvestigateTwo ==
  LET d == deck.mystery IN
  /\ MayAct /\ MayInvestigate(at[Active]) /\ Left(d) > 0
  /\ SeesTwo(Active, d)
  /\ \E e1 \in Drawn(d) : \E e2 \in Drawn(e1.deck) :
       \E o \in IF e2.card = NoCard THEN Offered(e2.deck, Active, e1.card)
               ELSE {[deck |-> e2.deck, choice |-> TwoCards(Active, e1.card, e2.card)]} :
         Conclude([deck EXCEPT !.mystery = o.deck], o.choice, ap - 1, TRUE,
                  investigated, answered)
  /\ UNCHANGED <<held, at>>

\* decideChoose, "mystery_card": of the two cards the other is discarded.
Others_Forgotten(c) == <<>>                                            \* mutant
Others(c) ==
  LET unlessChosen(x) == IF x = c THEN <<>> ELSE <<x>>
  IN unlessChosen(pending.cards[1]) \o unlessChosen(pending.cards[2])
ChooseCard(c) ==
  LET d == [deck.mystery EXCEPT !.discard = @ \o Others(c)] IN
  /\ \E i \in DOMAIN pending.cards : pending.cards[i] = c
  /\ \E o \in Offered(d, pending.by, c) :
       Conclude([deck EXCEPT !.mystery = o.deck], o.choice, ap, abilityUsed,
                investigated, answered)
  /\ UNCHANGED <<held, at>>

\* decideChoose, "mystery_option", with drawArtifact when the option brings
\* one; the card is discarded after its effects.
ChooseOption(o) ==
  LET l == at[pending.by]
      d == [deck EXCEPT !.mystery = Put(@, pending.card)]
      S == investigated \cup {l}
      n == [answered EXCEPT ![l] = @ + 1]
  IN
  /\ o \in pending.options
  /\ \/ /\ o # Prize
        /\ Conclude(d, NoChoice, ap, abilityUsed, S, n)
        /\ UNCHANGED held
     \/ /\ o = Prize
        /\ \E e \in Drawn(deck.artifact) :
             /\ held' = [held EXCEPT ![pending.by] =
                           IF e.card = NoCard THEN @ ELSE Append(@, e.card)]
             /\ Conclude([d EXCEPT !.artifact = e.deck], NoChoice, ap, abilityUsed, S, n)
  /\ UNCHANGED at

\* decideMove, and the commands that only take a point.
Move(l) ==
  /\ MayAct /\ l # at[Active]
  /\ at' = [at EXCEPT ![Active] = l]
  /\ Conclude(deck, NoChoice, ap - 1, abilityUsed, investigated, answered)
  /\ UNCHANGED held

Work ==
  /\ MayAct
  /\ Conclude(deck, NoChoice, ap - 1, abilityUsed, investigated, answered)
  /\ UNCHANGED <<held, at>>

EndOfTurn ==
  /\ pending = NoChoice
  /\ EndTurn(deck, investigated, answered)
  /\ UNCHANGED <<held, at, pending>>

Next ==
  \/ InvestigateOne \/ InvestigateTwo
  \/ \E c \in Mysteries : ChooseCard(c)
  \/ \E o \in Options : ChooseOption(o)
  \/ \E l \in Place : Move(l)
  \/ Work \/ EndOfTurn

Spec == Init /\ [][Next]_vars

-----------------------------------------------------------------------------
(* Properties.                                                             *)

TableOf(c) == IF c.card = NoCard THEN c.cards ELSE <<c.card>>
Table == TableOf(pending)
RangeOf(s) == {s[i] : i \in DOMAIN s}
HeldCards == UNION {RangeOf(held[p]) : p \in Players}
HeldPlaces == UNION {{<<p, i>> : i \in DOMAIN held[p]} : p \in Players}

\* Every card is in exactly one place: in its draw pile, among its discards,
\* before the player who is to choose, or with the player who gained it -
\* over reshuffles in the middle of a scholar's two draws, cards nobody could
\* pay and the card a scholar did not take.
EveryCardOnce ==
  LET all(k, outside, n) ==
        /\ RangeOf(deck[k].draw) \cup RangeOf(deck[k].discard) \cup outside = CardsOf(k)
        /\ Left(deck[k]) + n = Cardinality(CardsOf(k))
  IN /\ all("event", {}, 0)
     /\ all("mystery", RangeOf(Table), Len(Table))
     /\ all("artifact", HeldCards, Cardinality(HeldPlaces))

\* A place gives up one mystery a round, whoever comes by: the place is only
\* marked when the mystery is answered, so that it takes the pending choice
\* to keep everybody else from investigating it meanwhile.
OneAnswerPerPlace == \A l \in Place : answered[l] <= 1

\* The cards of a deck come in passes (CardPass): nothing comes up a second
\* time before everything else has come up or is out.
MysteryPass == INSTANCE CardPass WITH
  Cards <- Mysteries,
  left  <- RangeOf(deck.mystery.draw),
  out   <- RangeOf(Table)
EventPass == INSTANCE CardPass WITH
  Cards <- Events,
  left  <- RangeOf(deck.event.draw),
  out   <- {}
ArtifactPass == INSTANCE CardPass WITH
  Cards <- Artifacts,
  left  <- RangeOf(deck.artifact.draw),
  out   <- UNION {RangeOf(held[p]) : p \in Players}
KeepsPasses == MysteryPass!Spec /\ EventPass!Spec /\ ArtifactPass!Spec
-----------------------------------------------------------------------------
(* The inductive invariant behind them.                                    *)

\* Every variable but deck and pending keeps to its type.
TypeOK ==
  /\ held \in [Players -> Seq(Artifacts)]
  /\ at \in [Players -> Place] /\ investigated \subseteq Place
  /\ answered \in [Place -> Nat]
  /\ seat \in [first : DOMAIN TurnOrder, active : DOMAIN TurnOrder, taken : Nat]

\* Deck d holds the cards C but for those outside, each of them once.
Whole(d, C, outside) ==
  /\ d \in [draw : Seq(C), discard : Seq(C)]
  /\ IsInjective(d.draw) /\ IsInjective(d.discard)
  /\ RangeOf(d.draw) \cap RangeOf(d.discard) = {}
  /\ outside \subseteq C
  /\ RangeOf(d.draw) \cup RangeOf(d.discard) = C \ outside

DeckInv ==
  /\ deck = [event |-> deck.event, mystery |-> deck.mystery, artifact |-> deck.artifact]
  /\ Whole(deck.event, Events, {})
  /\ Whole(deck.mystery, Mysteries, RangeOf(Table))
  /\ Whole(deck.artifact, Artifacts, HeldCards)

\* The cards of a kind are as many as those of its deck and those outside.
CountInv ==
  /\ IsFiniteSet(HeldPlaces)
  /\ Left(deck.event) = Cardinality(Events)
  /\ Left(deck.mystery) + Len(Table) = Cardinality(Mysteries)
  /\ Left(deck.artifact) + Cardinality(HeldPlaces) = Cardinality(Artifacts)

\* The one who is to choose has two different cards, or one card and options,
\* and stands on a place that has not given up its mystery.
ChoiceInv ==
  \/ pending = NoChoice
  \/ /\ at[Active] \notin investigated
     /\ \/ \E a, b \in Mysteries : a # b /\ pending = TwoCards(Active, a, b)
        \/ \E c \in Mysteries, S \in SUBSET Options : pending = OneCard(Active, c, S)

\* A mystery that was answered has marked its place.
MarkInv == \A l \in Place : answered[l] <= (IF l \in investigated THEN 1 ELSE 0)

IInv == TypeOK /\ DeckInv /\ CountInv /\ ChoiceInv /\ MarkInv
=============================================================================

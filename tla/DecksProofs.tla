---------------------------- MODULE DecksProofs -----------------------------
(***************************************************************************)
(* Proofs about Decks for any cards, players, places and order of play.    *)
(***************************************************************************)
EXTENDS Decks, SequenceTheorems, FiniteSetTheorems, TLAPS

USE ContentAssumption

-----------------------------------------------------------------------------
(* Sequences whose elements are all different.                             *)

LEMMA Empty ==
  ASSUME NEW S
  PROVE  <<>> \in Seq(S) /\ IsInjective(<<>>) /\ RangeOf(<<>>) = {} /\ Len(<<>>) = 0
BY EmptySeq DEF IsInjective, RangeOf

LEMMA SeqFacts ==
  ASSUME NEW S, NEW s \in Seq(S)
  PROVE  /\ Len(s) \in Nat /\ DOMAIN s = 1 .. Len(s) /\ RangeOf(s) \subseteq S
         /\ (s = <<>>) <=> (RangeOf(s) = {})
         /\ (s = <<>>) <=> (Len(s) = 0)
<1>1. Len(s) \in Nat /\ DOMAIN s = 1 .. Len(s) /\ s \in [1 .. Len(s) -> S]
  BY LenProperties
<1>2. RangeOf(s) \subseteq S
  BY <1>1 DEF RangeOf
<1>3. (s = <<>>) <=> (Len(s) = 0)
  BY EmptySeq
<1>4. s # <<>> => s[1] \in RangeOf(s)
  BY <1>1, <1>3 DEF RangeOf
<1>5. s = <<>> => RangeOf(s) = {}
  BY Empty
<1> QED BY <1>1, <1>2, <1>3, <1>4, <1>5

\* The top card of a pile is in it once.
LEMMA TopTaken ==
  ASSUME NEW S, NEW s \in Seq(S), s # <<>>, IsInjective(s)
  PROVE  /\ s[1] \in S /\ s[1] \in RangeOf(s)
         /\ Tail(s) \in Seq(S) /\ IsInjective(Tail(s))
         /\ RangeOf(Tail(s)) = RangeOf(s) \ {s[1]}
         /\ Len(Tail(s)) = Len(s) - 1
<1>1. /\ Len(s) \in Nat \ {0} /\ DOMAIN s = 1 .. Len(s) /\ 1 \in 1 .. Len(s)
      /\ s \in [1 .. Len(s) -> S]
  BY EmptySeq, LenProperties
<1>2. /\ Tail(s) \in Seq(S) /\ Len(Tail(s)) = Len(s) - 1
      /\ \A i \in 1 .. Len(Tail(s)) : Tail(s)[i] = s[i + 1]
  BY <1>1, HeadTailProperties
<1>3. DOMAIN Tail(s) = 1 .. Len(s) - 1
  BY <1>2, LenProperties
<1>4. \A i \in 1 .. Len(s) - 1 : i + 1 \in 1 .. Len(s) /\ i + 1 # 1 /\ Tail(s)[i] = s[i + 1]
  BY <1>1, <1>2
<1>5. IsInjective(Tail(s))
  <2> SUFFICES ASSUME NEW i \in 1 .. Len(s) - 1, NEW j \in 1 .. Len(s) - 1,
                      Tail(s)[i] = Tail(s)[j]
               PROVE  i = j
    BY <1>3 DEF IsInjective
  <2>1. i + 1 = j + 1
    BY <1>1, <1>4 DEF IsInjective
  <2> QED BY <1>1, <2>1
<1>6. RangeOf(Tail(s)) \subseteq RangeOf(s) \ {s[1]}
  BY <1>1, <1>3, <1>4 DEF RangeOf, IsInjective
<1>7. ASSUME NEW x \in RangeOf(s), x # s[1] PROVE x \in RangeOf(Tail(s))
  <2>1. PICK i \in 1 .. Len(s) : s[i] = x
    BY <1>1 DEF RangeOf
  <2>2. i - 1 \in 1 .. Len(s) - 1 /\ (i - 1) + 1 = i
    BY <1>1, <1>7, <2>1
  <2>3. Tail(s)[i - 1] = x
    BY <1>4, <2>1, <2>2
  <2> QED BY <1>3, <2>2, <2>3 DEF RangeOf
<1> QED BY <1>1, <1>2, <1>5, <1>6, <1>7 DEF RangeOf

\* A card that is put at the end.
LEMMA PutLast ==
  ASSUME NEW S, NEW s \in Seq(S), NEW e \in S
  PROVE  /\ Append(s, e) \in Seq(S) /\ RangeOf(Append(s, e)) = RangeOf(s) \cup {e}
         /\ Len(Append(s, e)) = Len(s) + 1
         /\ DOMAIN Append(s, e) = DOMAIN s \cup {Len(s) + 1} /\ Len(s) + 1 \notin DOMAIN s
         /\ IsInjective(s) /\ e \notin RangeOf(s) => IsInjective(Append(s, e))
<1>1. /\ Len(s) \in Nat /\ DOMAIN s = 1 .. Len(s)
  BY LenProperties
<1>2. /\ Append(s, e) \in Seq(S) /\ Len(Append(s, e)) = Len(s) + 1
      /\ Append(s, e)[Len(s) + 1] = e
      /\ \A i \in 1 .. Len(s) : Append(s, e)[i] = s[i]
  BY AppendProperties
<1>3. DOMAIN Append(s, e) = 1 .. Len(s) + 1
  BY <1>2, LenProperties
<1>4. 1 .. Len(s) + 1 = (1 .. Len(s)) \cup {Len(s) + 1} /\ Len(s) + 1 \notin 1 .. Len(s)
  BY <1>1
<1>5. RangeOf(Append(s, e)) = RangeOf(s) \cup {e}
  BY <1>1, <1>2, <1>3, <1>4 DEF RangeOf
<1>6. IsInjective(s) /\ e \notin RangeOf(s) => IsInjective(Append(s, e))
  BY <1>1, <1>2, <1>3, <1>4 DEF RangeOf, IsInjective
<1> QED BY <1>1, <1>2, <1>3, <1>4, <1>5, <1>6

\* Shuffling keeps the cards.
LEMMA Shuffled ==
  ASSUME NEW S, NEW s \in Seq(S), IsInjective(s), NEW r \in Shuffles(s)
  PROVE  /\ r \in Seq(S) /\ IsInjective(r)
         /\ RangeOf(r) = RangeOf(s) /\ Len(r) = Len(s)
<1>1. PICK f \in Bijection(DOMAIN s, DOMAIN s) : r = [i \in DOMAIN s |-> s[f[i]]]
  BY DEF Shuffles
<1>2. /\ f \in [DOMAIN s -> DOMAIN s] /\ IsInjective(f)
      /\ \A t \in DOMAIN s : \E i \in DOMAIN s : f[i] = t
  BY DEF Bijection, Injection, Surjection
<1>3. Len(s) \in Nat /\ DOMAIN s = 1 .. Len(s) /\ s \in [1 .. Len(s) -> S]
  BY LenProperties
<1>4. r \in [1 .. Len(s) -> S]
  BY <1>1, <1>2, <1>3
<1>5. r \in Seq(S) /\ Len(r) = Len(s) /\ DOMAIN r = DOMAIN s
  BY <1>3, <1>4, SeqDef, LenProperties
<1>6. IsInjective(r)
  BY <1>1, <1>2 DEF IsInjective
<1>7. RangeOf(r) = RangeOf(s)
  BY <1>1, <1>2 DEF RangeOf
<1> QED BY <1>5, <1>6, <1>7

-----------------------------------------------------------------------------
(* Decks.                                                                  *)

LEMMA ContentFacts ==
  /\ IsFiniteSet(Events) /\ IsFiniteSet(Mysteries) /\ IsFiniteSet(Artifacts)
  /\ Cardinality(Events) \in Nat /\ Cardinality(Mysteries) \in Nat
  /\ Cardinality(Artifacts) \in Nat
  /\ NoCard \notin Events /\ NoCard \notin Mysteries /\ NoCard \notin Artifacts
<1>1. IsFiniteSet(Events) /\ IsFiniteSet(Mysteries) /\ IsFiniteSet(Artifacts)
  BY DEF ContentAssumption, Kinds, CardsOf
<1> QED BY <1>1, FS_CardinalityType DEF ContentAssumption

\* How many cards are in a deck.
LEMMA LeftFacts ==
  ASSUME NEW C, NEW d \in [draw : Seq(C), discard : Seq(C)]
  PROVE  /\ Left(d) \in Nat /\ Len(d.draw) \in Nat /\ Len(d.discard) \in Nat
         /\ d.draw \in Seq(C) /\ d.discard \in Seq(C)
         /\ Left(d) = Len(d.draw) + Len(d.discard)
         /\ d = [draw |-> d.draw, discard |-> d.discard]
BY LenProperties DEF Left

\* drawCard: a draw finds no card only when draw pile and discards are empty;
\* else one card more is outside, and it is the top of the draw pile unless
\* that was empty.
GoodDraw(C, outside, d, e) ==
  \/ e.card = NoCard /\ e.deck = d /\ Left(d) = 0
  \/ /\ e.card \in C /\ e.card \notin outside
     /\ Whole(e.deck, C, outside \cup {e.card})
     /\ Left(d) \in Nat /\ Left(e.deck) = Left(d) - 1
     /\ \/ /\ e.card \in RangeOf(d.draw)
           /\ RangeOf(e.deck.draw) = RangeOf(d.draw) \ {e.card}
        \/ RangeOf(d.draw) = {}

LEMMA Draws ==
  ASSUME NEW C, NEW outside, NEW d, Whole(d, C, outside), NEW e \in Drawn(d)
  PROVE  GoodDraw(C, outside, d, e)
<1>0. /\ d \in [draw : Seq(C), discard : Seq(C)]
      /\ IsInjective(d.draw) /\ IsInjective(d.discard)
      /\ RangeOf(d.draw) \cap RangeOf(d.discard) = {} /\ outside \subseteq C
      /\ RangeOf(d.draw) \cup RangeOf(d.discard) = C \ outside
  BY DEF Whole
<1>1. /\ Left(d) \in Nat /\ Len(d.draw) \in Nat /\ Len(d.discard) \in Nat
      /\ d.draw \in Seq(C) /\ d.discard \in Seq(C)
      /\ Left(d) = Len(d.draw) + Len(d.discard)
      /\ d = [draw |-> d.draw, discard |-> d.discard]
  BY <1>0, LeftFacts
<1>2. CASE d.draw # <<>>
  <2>1. e.card = d.draw[1] /\ e.deck = [draw |-> Tail(d.draw), discard |-> d.discard]
    BY <1>1, <1>2 DEF Drawn
  <2>2. /\ e.card \in RangeOf(d.draw) /\ e.deck.draw \in Seq(C) /\ IsInjective(e.deck.draw)
        /\ RangeOf(e.deck.draw) = RangeOf(d.draw) \ {e.card}
        /\ Len(e.deck.draw) = Len(d.draw) - 1 /\ e.deck.discard = d.discard
    BY <1>0, <1>1, <1>2, <2>1, TopTaken
  <2>3. e.card \in C \ outside
    BY <1>0, <2>2
  <2>4. Left(e.deck) = Left(d) - 1
    BY <1>1, <2>2 DEF Left
  <2>5. e.deck \in [draw : Seq(C), discard : Seq(C)]
    BY <1>1, <2>1, <2>2
  <2>6. RangeOf(e.deck.draw) \cap RangeOf(e.deck.discard) = {}
        /\ RangeOf(e.deck.draw) \cup RangeOf(e.deck.discard) = C \ (outside \cup {e.card})
    BY <1>0, <2>2
  <2>7. Whole(e.deck, C, outside \cup {e.card})
    BY <1>0, <2>2, <2>3, <2>5, <2>6 DEF Whole
  <2> QED BY <1>1, <2>2, <2>3, <2>4, <2>7 DEF GoodDraw
<1>3. CASE d.draw = <<>> /\ d.discard = <<>>
  BY <1>1, <1>3, Empty DEF Drawn, GoodDraw
<1>4. CASE d.draw = <<>> /\ d.discard # <<>>
  <2>1. PICK s \in Shuffles(d.discard) :
          e = [card |-> s[1], deck |-> [draw |-> Tail(s), discard |-> <<>>]]
    <3>1. e \in {[card |-> s[1], deck |-> [draw |-> Tail(s), discard |-> <<>>]] :
                  s \in Shuffles(d.discard)}
      BY <1>4 DEF Drawn
    <3> QED BY <3>1
  <2>2. /\ s \in Seq(C) /\ IsInjective(s) /\ RangeOf(s) = RangeOf(d.discard)
        /\ Len(s) = Len(d.discard)
    BY <1>0, <1>1, Shuffled
  <2>3. s # <<>>
    BY <1>1, <1>4, <2>2, SeqFacts
  <2>4. /\ e.card \in RangeOf(s) /\ e.deck.draw \in Seq(C) /\ IsInjective(e.deck.draw)
        /\ RangeOf(e.deck.draw) = RangeOf(s) \ {e.card}
        /\ Len(e.deck.draw) = Len(s) - 1 /\ e.deck.discard = <<>>
    BY <2>1, <2>2, <2>3, TopTaken
  <2>5. RangeOf(d.draw) = {} /\ Len(d.draw) = 0 /\ <<>> \in Seq(C) /\ IsInjective(<<>>)
        /\ RangeOf(<<>>) = {} /\ Len(<<>>) = 0
    BY <1>4, Empty
  <2>6. e.card \in C \ outside
    BY <1>0, <2>2, <2>4
  <2>7. Left(e.deck) = Left(d) - 1
    BY <1>1, <2>2, <2>4, <2>5 DEF Left
  <2>8. e.deck \in [draw : Seq(C), discard : Seq(C)]
    BY <2>1, <2>4, <2>5
  <2>9. RangeOf(e.deck.draw) \cap RangeOf(e.deck.discard) = {}
        /\ RangeOf(e.deck.draw) \cup RangeOf(e.deck.discard) = C \ (outside \cup {e.card})
    BY <1>0, <2>2, <2>4, <2>5
  <2>10. Whole(e.deck, C, outside \cup {e.card})
    BY <1>0, <2>4, <2>5, <2>6, <2>8, <2>9 DEF Whole
  <2> QED BY <1>1, <2>5, <2>6, <2>7, <2>10 DEF GoodDraw
<1> QED BY <1>2, <1>3, <1>4

\* discardCard: a card that was outside is among the discards.
GoodPut(C, outside, d, c) ==
  /\ Whole(Put(d, c), C, outside \ {c}) /\ Put(d, c).draw = d.draw
  /\ Left(d) \in Nat /\ Left(Put(d, c)) = Left(d) + 1

LEMMA Puts ==
  ASSUME NEW C, NoCard \notin C, NEW outside, NEW d, Whole(d, C, outside), NEW c \in outside
  PROVE  GoodPut(C, outside, d, c)
<1>0. /\ d \in [draw : Seq(C), discard : Seq(C)]
      /\ IsInjective(d.draw) /\ IsInjective(d.discard)
      /\ RangeOf(d.draw) \cap RangeOf(d.discard) = {} /\ outside \subseteq C
      /\ RangeOf(d.draw) \cup RangeOf(d.discard) = C \ outside
  BY DEF Whole
<1>1. /\ Left(d) \in Nat /\ Len(d.draw) \in Nat /\ Len(d.discard) \in Nat
      /\ d.draw \in Seq(C) /\ d.discard \in Seq(C)
      /\ Left(d) = Len(d.draw) + Len(d.discard)
      /\ d = [draw |-> d.draw, discard |-> d.discard]
  BY <1>0, LeftFacts
<1>2. c \in C /\ c # NoCard /\ c \notin RangeOf(d.discard) /\ c \notin RangeOf(d.draw)
  BY <1>0
<1>3. Put(d, c) = [draw |-> d.draw, discard |-> Append(d.discard, c)]
  BY <1>1, <1>2 DEF Put
<1>4. /\ Append(d.discard, c) \in Seq(C)
      /\ RangeOf(Append(d.discard, c)) = RangeOf(d.discard) \cup {c}
      /\ Len(Append(d.discard, c)) = Len(d.discard) + 1
      /\ IsInjective(Append(d.discard, c))
  BY <1>0, <1>1, <1>2, PutLast
<1>5. Left(Put(d, c)) = Left(d) + 1
  BY <1>1, <1>3, <1>4 DEF Left
<1>6. Put(d, c) \in [draw : Seq(C), discard : Seq(C)]
  BY <1>1, <1>3, <1>4
<1>7. RangeOf(d.draw) \cap RangeOf(Append(d.discard, c)) = {}
      /\ RangeOf(d.draw) \cup RangeOf(Append(d.discard, c)) = C \ (outside \ {c})
  BY <1>0, <1>2, <1>4
<1>8. Whole(Put(d, c), C, outside \ {c})
  BY <1>0, <1>3, <1>4, <1>6, <1>7 DEF Whole
<1> QED BY <1>1, <1>3, <1>5, <1>8 DEF GoodPut

\* runEventPhase: the deck is whole again when the card is discarded.
LEMMA EventPhaseWhole ==
  ASSUME NEW d, Whole(d, Events, {}), NEW e \in EventPhase(d)
  PROVE  /\ Whole(e, Events, {}) /\ Left(e) = Left(d)
         /\ \/ e = d
            \/ \E c \in RangeOf(d.draw) : RangeOf(e.draw) = RangeOf(d.draw) \ {c}
            \/ RangeOf(d.draw) = {}
<1>1. PICK f \in Drawn(d) : e = Put(f.deck, f.card)
  BY DEF EventPhase
<1>2. CASE f.card = NoCard /\ f.deck = d
  BY <1>1, <1>2 DEF Put
<1>3. CASE /\ f.card \in Events /\ Whole(f.deck, Events, {} \cup {f.card})
           /\ Left(d) \in Nat /\ Left(f.deck) = Left(d) - 1
           /\ \/ /\ f.card \in RangeOf(d.draw)
                 /\ RangeOf(f.deck.draw) = RangeOf(d.draw) \ {f.card}
              \/ RangeOf(d.draw) = {}
  <2>1. GoodPut(Events, {f.card}, f.deck, f.card)
    <3>1. {} \cup {f.card} = {f.card} /\ f.card \in {f.card}
      OBVIOUS
    <3> QED BY <1>3, <3>1, Puts, ContentFacts
  <2>2. {f.card} \ {f.card} = {}
    OBVIOUS
  <2>3. /\ Whole(Put(f.deck, f.card), Events, {})
        /\ Put(f.deck, f.card).draw = f.deck.draw
        /\ Left(Put(f.deck, f.card)) = Left(f.deck) + 1
    BY <2>1, <2>2 DEF GoodPut
  <2>5. Whole(e, Events, {}) /\ e.draw = f.deck.draw
    BY <1>1, <2>3
  <2>6. Left(e) = Left(d)
    BY <1>1, <1>3, <2>3
  <2> QED BY <1>3, <2>5, <2>6
<1>4. GoodDraw(Events, {}, d, f)
  BY Draws
<1> QED BY <1>2, <1>3, <1>4 DEF GoodDraw

-----------------------------------------------------------------------------
(* What is on the table.                                                   *)

LEMMA TableFacts ==
  /\ TableOf(NoChoice) = <<>> /\ RangeOf(TableOf(NoChoice)) = {}
  /\ Len(TableOf(NoChoice)) = 0
  /\ \A p : \A a, b \in Mysteries : /\ TableOf(TwoCards(p, a, b)) = <<a, b>>
                                    /\ RangeOf(TableOf(TwoCards(p, a, b))) = {a, b}
                                    /\ Len(TableOf(TwoCards(p, a, b))) = 2
  /\ \A p, S : \A c \in Mysteries : /\ TableOf(OneCard(p, c, S)) = <<c>>
                                    /\ RangeOf(TableOf(OneCard(p, c, S))) = {c}
                                    /\ Len(TableOf(OneCard(p, c, S))) = 1
<1>1. TableOf(NoChoice) = <<>>
  BY DEF TableOf, NoChoice
<1>2. \A p : \A a, b \in Mysteries : TableOf(TwoCards(p, a, b)) = <<a, b>>
  BY DEF TableOf, TwoCards
<1>3. \A p, S : \A c \in Mysteries : TableOf(OneCard(p, c, S)) = <<c>>
  BY ContentFacts DEF TableOf, OneCard
<1>4. RangeOf(<<>>) = {} /\ \A a, b : RangeOf(<<a, b>>) = {a, b} /\ RangeOf(<<a>>) = {a}
  BY DEF RangeOf
<1>5. Len(<<>>) = 0 /\ \A a, b : Len(<<a, b>>) = 2 /\ Len(<<a>>) = 1
  OBVIOUS
<1> QED BY <1>1, <1>2, <1>3, <1>4, <1>5

\* The shapes a choice can have when player p is to choose.
ShapeOf(p, x) ==
  \/ x = NoChoice
  \/ \E a, b \in Mysteries : a # b /\ x = TwoCards(p, a, b)
  \/ \E c \in Mysteries, S \in SUBSET Options : x = OneCard(p, c, S)

\* offerMysteryOptions: the card is put before the player or discarded.
GoodOffer(d, p, c, o) ==
  /\ ShapeOf(p, o.choice)
  /\ RangeOf(TableOf(o.choice)) \subseteq {c}
  /\ Whole(o.deck, Mysteries, RangeOf(TableOf(o.choice)))
  /\ Left(o.deck) + Len(TableOf(o.choice)) = Left(d) + 1
  /\ o.deck.draw = d.draw

LEMMA Offers ==
  ASSUME NEW d, NEW c \in Mysteries, Whole(d, Mysteries, {c}), NEW p, NEW o \in Offered(d, p, c)
  PROVE  GoodOffer(d, p, c, o)
<1>0. Left(d) \in Nat
  BY LeftFacts DEF Whole
<1>1. PICK opts \in SUBSET Options :
        o = IF opts = {} THEN [deck |-> Put(d, c), choice |-> NoChoice]
            ELSE [deck |-> d, choice |-> OneCard(p, c, opts)]
  BY DEF Offered
<1>2. CASE opts = {}
  <2>1. o.deck = Put(d, c) /\ o.choice = NoChoice
    BY <1>1, <1>2
  <2>2. GoodPut(Mysteries, {c}, d, c)
    <3>1. c \in {c}
      OBVIOUS
    <3> QED BY <3>1, Puts, ContentFacts
  <2>3. {c} \ {c} = {}
    OBVIOUS
  <2>4. /\ Whole(Put(d, c), Mysteries, {})
        /\ Put(d, c).draw = d.draw /\ Left(Put(d, c)) = Left(d) + 1
    BY <2>2, <2>3 DEF GoodPut
  <2>5. RangeOf(TableOf(o.choice)) = {} /\ Len(TableOf(o.choice)) = 0
    BY <2>1, TableFacts
  <2>6. Whole(o.deck, Mysteries, RangeOf(TableOf(o.choice)))
    BY <2>1, <2>4, <2>5
  <2>7. Left(o.deck) + Len(TableOf(o.choice)) = Left(d) + 1 /\ o.deck.draw = d.draw
    BY <1>0, <2>1, <2>4, <2>5
  <2> QED BY <2>1, <2>5, <2>6, <2>7 DEF ShapeOf, GoodOffer
<1>3. CASE opts # {}
  <2>1. o.deck = d /\ o.choice = OneCard(p, c, opts)
    BY <1>1, <1>3
  <2>2. RangeOf(TableOf(o.choice)) = {c} /\ Len(TableOf(o.choice)) = 1
    BY <2>1, TableFacts
  <2> QED BY <1>0, <2>1, <2>2 DEF ShapeOf, GoodOffer
<1> QED BY <1>2, <1>3

-----------------------------------------------------------------------------
(* The end of a turn, and of a command.                                    *)

\* The three decks, as they are when a command is decided.
Tidy(d) ==
  /\ d = [event |-> d.event, mystery |-> d.mystery, artifact |-> d.artifact]
  /\ Whole(d.event, Events, {})

\* What the event phase does to what is left of the event deck.
EventMoves(l, m) == m = l \/ (\E c \in l : m = l \ {c}) \/ l = {}

\* What either way of ending a command does to the decks and the turn.
Settled(d, S, n) ==
  /\ deck' = [event |-> deck'.event, mystery |-> d.mystery, artifact |-> d.artifact]
  /\ Whole(deck'.event, Events, {}) /\ Left(deck'.event) = Left(d.event)
  /\ EventMoves(RangeOf(d.event.draw), RangeOf(deck'.event.draw))
  /\ seat' \in [first : DOMAIN TurnOrder, active : DOMAIN TurnOrder, taken : Nat]
  /\ \/ investigated' = S /\ answered' = n
     \/ investigated' = {} /\ answered' = [l \in Place |-> 0]

LEMMA FollowingType ==
  ASSUME NEW i \in DOMAIN TurnOrder PROVE Following(i) \in DOMAIN TurnOrder
<1>1. DOMAIN TurnOrder = 1 .. Len(TurnOrder) /\ Len(TurnOrder) \in Nat
  BY LenProperties DEF ContentAssumption
<1>2. TurnOrder # <<>> /\ TurnOrder \in Seq(Players)
  BY DEF ContentAssumption
<1> QED BY <1>1, <1>2 DEF Following

LEMMA ActiveType == TypeOK => Active \in Players
BY DEF TypeOK, Active, Players

LEMMA EndTurnFacts ==
  ASSUME TypeOK, NEW d, Tidy(d), NEW S, NEW n, EndTurn(d, S, n)
  PROVE  Settled(d, S, n)
<1> DEFINE last == seat.taken + 1 >= Len(TurnOrder)
           first == Following(seat.first)
<1>0. /\ seat.active \in DOMAIN TurnOrder /\ seat.first \in DOMAIN TurnOrder
      /\ seat.taken \in Nat
      /\ seat = [first |-> seat.first, active |-> seat.active, taken |-> seat.taken]
      /\ first \in DOMAIN TurnOrder /\ Following(seat.active) \in DOMAIN TurnOrder
  BY FollowingType DEF TypeOK
<1>1. CASE ~ last
  <2>1. /\ seat' = [seat EXCEPT !.active = Following(@), !.taken = @ + 1]
        /\ deck' = d /\ investigated' = S /\ answered' = n
    BY <1>1 DEF EndTurn
  <2>2. seat' = [first |-> seat.first, active |-> Following(seat.active),
                 taken |-> seat.taken + 1]
    BY <1>0, <2>1
  <2>3. seat' \in [first : DOMAIN TurnOrder, active : DOMAIN TurnOrder, taken : Nat]
    BY <1>0, <2>2
  <2> QED BY <2>1, <2>3 DEF Settled, Tidy, EventMoves
<1>2. CASE last
  <2>1. /\ seat' = [first |-> first, active |-> first, taken |-> 0]
        /\ investigated' = {} /\ answered' = [l \in Place |-> 0]
    BY <1>2 DEF EndTurn
  <2>2. PICK e \in EventPhase(d.event) : deck' = [d EXCEPT !.event = e]
    BY <1>2 DEF EndTurn
  <2>3. deck' = [event |-> e, mystery |-> d.mystery, artifact |-> d.artifact]
        /\ deck'.event = e
    BY <2>2 DEF Tidy
  <2>4. /\ Whole(e, Events, {}) /\ Left(e) = Left(d.event)
        /\ EventMoves(RangeOf(d.event.draw), RangeOf(e.draw))
    BY EventPhaseWhole DEF Tidy, EventMoves
  <2>5. seat' \in [first : DOMAIN TurnOrder, active : DOMAIN TurnOrder, taken : Nat]
    BY <1>0, <2>1
  <2> QED BY <2>1, <2>3, <2>4, <2>5 DEF Settled
<1> QED BY <1>1, <1>2

LEMMA ConcludeFacts ==
  ASSUME TypeOK, NEW d, Tidy(d), NEW c, NEW points, NEW used, NEW S, NEW n,
         Conclude(d, c, points, used, S, n)
  PROVE  /\ pending' = c /\ Settled(d, S, n)
         /\ c = NoChoice \/ (Active' = Active /\ investigated' = S)
<1>1. CASE EndTurn(d, S, n) /\ ~ HoldsTurn(c) /\ pending' = c
  BY <1>1, EndTurnFacts DEF HoldsTurn
<1>2. CASE /\ pending' = c /\ deck' = d /\ investigated' = S /\ answered' = n
           /\ UNCHANGED seat
  <2>1. Active' = Active
    BY <1>2 DEF Active
  <2> QED BY <1>2, <2>1 DEF Settled, Tidy, EventMoves, TypeOK
<1> QED BY <1>1, <1>2 DEF Conclude

-----------------------------------------------------------------------------
(* What a command does to the mystery deck and the artifact deck.          *)

\* A step of CardPass from l left and o outside to m left and q outside.
PassMoves(C, l, o, m, q) ==
  \/ m = l /\ q \subseteq o
  \/ m \subseteq l /\ m # l /\ q \subseteq o \cup (l \ m)
  \/ l \cap m = {} /\ m \subseteq C \ (o \cup q) /\ o \subseteq q /\ q \subseteq C

\* The command leaves mystery deck d and the choice x.
MysteryStep(d, x) ==
  /\ ShapeOf(Active, x)
  /\ Whole(d, Mysteries, RangeOf(TableOf(x)))
  /\ Left(d) + Len(TableOf(x)) = Cardinality(Mysteries)
  /\ PassMoves(Mysteries, RangeOf(deck.mystery.draw), RangeOf(Table),
               RangeOf(d.draw), RangeOf(TableOf(x)))

\* The command leaves artifact deck d and what the players hold then.
ArtifactStep(d) ==
  /\ Whole(d, Artifacts, HeldCards')
  /\ IsFiniteSet(HeldPlaces') /\ Left(d) + Cardinality(HeldPlaces') = Cardinality(Artifacts)
  /\ PassMoves(Artifacts, RangeOf(deck.artifact.draw), HeldCards, RangeOf(d.draw), HeldCards')

LEMMA ArtifactStays ==
  ASSUME DeckInv, CountInv, held' = held PROVE ArtifactStep(deck.artifact)
<1>1. HeldCards' = HeldCards /\ HeldPlaces' = HeldPlaces
  BY DEF HeldCards, HeldPlaces
<1> QED BY <1>1 DEF ArtifactStep, PassMoves, DeckInv, CountInv

LEMMA MysteryStays ==
  ASSUME DeckInv, CountInv, pending = NoChoice PROVE MysteryStep(deck.mystery, NoChoice)
BY DEF MysteryStep, PassMoves, DeckInv, CountInv, ShapeOf, Table

\* Nothing is on the table while nobody has to choose.
LEMMA NothingOut ==
  ASSUME DeckInv, CountInv, pending = NoChoice
  PROVE  /\ RangeOf(Table) = {} /\ Whole(deck.mystery, Mysteries, {})
         /\ Left(deck.mystery) = Cardinality(Mysteries) /\ Cardinality(Mysteries) \in Nat
<1>1. RangeOf(Table) = {} /\ Len(Table) = 0
  BY TableFacts DEF Table
<1>2. Left(deck.mystery) \in Nat
  BY LeftFacts DEF DeckInv, Whole
<1> QED BY <1>1, <1>2, ContentFacts DEF DeckInv, CountInv

\* A card that was drawn is offered.
LEMMA InvestigateOneFacts ==
  ASSUME TypeOK, DeckInv, CountInv, InvestigateOne
  PROVE  \E d, x : /\ MysteryStep(d, x) /\ UNCHANGED <<held, at>>
                   /\ pending = NoChoice /\ at[Active] \notin investigated
                   /\ Conclude([deck EXCEPT !.mystery = d], x, ap - 1, abilityUsed,
                               investigated, answered)
<1> DEFINE L == RangeOf(deck.mystery.draw)
<1>1. /\ pending = NoChoice /\ at[Active] \notin investigated /\ Left(deck.mystery) > 0
      /\ UNCHANGED <<held, at>>
  BY DEF InvestigateOne, MayAct, MayInvestigate
<1>2. PICK e \in Drawn(deck.mystery) : \E o \in Offered(e.deck, Active, e.card) :
        Conclude([deck EXCEPT !.mystery = o.deck], o.choice, ap - 1, abilityUsed,
                 investigated, answered)
  BY DEF InvestigateOne
<1>3. PICK o \in Offered(e.deck, Active, e.card) :
        Conclude([deck EXCEPT !.mystery = o.deck], o.choice, ap - 1, abilityUsed,
                 investigated, answered)
  BY <1>2
<1>4. /\ RangeOf(Table) = {} /\ Whole(deck.mystery, Mysteries, {})
      /\ Left(deck.mystery) = Cardinality(Mysteries) /\ Cardinality(Mysteries) \in Nat
  BY <1>1, NothingOut
<1>a. GoodDraw(Mysteries, {}, deck.mystery, e)
  BY <1>4, Draws
<1>5. /\ e.card \in Mysteries
      /\ Whole(e.deck, Mysteries, {} \cup {e.card})
      /\ Left(e.deck) = Left(deck.mystery) - 1
      /\ \/ e.card \in L /\ RangeOf(e.deck.draw) = L \ {e.card}
         \/ L = {}
  BY <1>1, <1>a DEF GoodDraw
<1>6. e.card \in Mysteries /\ {} \cup {e.card} = {e.card}
  BY <1>5
<1>7. Whole(e.deck, Mysteries, {e.card})
  BY <1>5, <1>6
<1>8. /\ ShapeOf(Active, o.choice)
      /\ RangeOf(TableOf(o.choice)) \subseteq {e.card}
      /\ Whole(o.deck, Mysteries, RangeOf(TableOf(o.choice)))
      /\ Left(o.deck) + Len(TableOf(o.choice)) = Left(e.deck) + 1
      /\ o.deck.draw = e.deck.draw
  <2>1. GoodOffer(e.deck, Active, e.card, o)
    BY <1>6, <1>7, Offers
  <2> QED BY <2>1 DEF GoodOffer
<1>9. Left(o.deck) + Len(TableOf(o.choice)) = Cardinality(Mysteries)
  BY <1>4, <1>5, <1>8
<1>10. RangeOf(o.deck.draw) \subseteq Mysteries \ RangeOf(TableOf(o.choice))
       /\ RangeOf(TableOf(o.choice)) \subseteq Mysteries
  BY <1>8 DEF Whole
<1>11. PassMoves(Mysteries, L, RangeOf(Table), RangeOf(o.deck.draw), RangeOf(TableOf(o.choice)))
  BY <1>4, <1>5, <1>8, <1>10 DEF PassMoves
<1>12. MysteryStep(o.deck, o.choice)
  BY <1>8, <1>9, <1>11 DEF MysteryStep
<1> QED BY <1>1, <1>3, <1>12

\* The scholar draws two cards: the second draw finds one, it is another one,
\* and a deck that is shuffled in between or before begins a new pass.
LEMMA InvestigateTwoFacts ==
  ASSUME TypeOK, DeckInv, CountInv, InvestigateTwo
  PROVE  \E d, x : /\ MysteryStep(d, x) /\ UNCHANGED <<held, at>>
                   /\ pending = NoChoice /\ at[Active] \notin investigated
                   /\ Conclude([deck EXCEPT !.mystery = d], x, ap - 1, TRUE,
                               investigated, answered)
<1> DEFINE L == RangeOf(deck.mystery.draw)
<1>1. /\ pending = NoChoice /\ at[Active] \notin investigated /\ Left(deck.mystery) >= 2
      /\ UNCHANGED <<held, at>>
  BY DEF InvestigateTwo, MayAct, MayInvestigate, SeesTwo
<1>a. PICK e1 \in Drawn(deck.mystery) : \E e2 \in Drawn(e1.deck) :
        \E o \in IF e2.card = NoCard THEN Offered(e2.deck, Active, e1.card)
                ELSE {[deck |-> e2.deck, choice |-> TwoCards(Active, e1.card, e2.card)]} :
          Conclude([deck EXCEPT !.mystery = o.deck], o.choice, ap - 1, TRUE,
                   investigated, answered)
  BY DEF InvestigateTwo
<1>2. PICK e2 \in Drawn(e1.deck) :
        \E o \in IF e2.card = NoCard THEN Offered(e2.deck, Active, e1.card)
                ELSE {[deck |-> e2.deck, choice |-> TwoCards(Active, e1.card, e2.card)]} :
          Conclude([deck EXCEPT !.mystery = o.deck], o.choice, ap - 1, TRUE,
                   investigated, answered)
  BY <1>a
<1>3. /\ RangeOf(Table) = {} /\ Whole(deck.mystery, Mysteries, {})
      /\ Left(deck.mystery) = Cardinality(Mysteries) /\ Cardinality(Mysteries) \in Nat
  BY <1>1, NothingOut
<1>b. GoodDraw(Mysteries, {}, deck.mystery, e1)
  BY <1>3, Draws
<1>4. /\ e1.card \in Mysteries
      /\ Whole(e1.deck, Mysteries, {} \cup {e1.card})
      /\ Left(e1.deck) = Left(deck.mystery) - 1
      /\ \/ e1.card \in L /\ RangeOf(e1.deck.draw) = L \ {e1.card}
         \/ L = {}
  BY <1>1, <1>b DEF GoodDraw
<1>5. {} \cup {e1.card} = {e1.card} /\ e1.card \in Mysteries /\ Left(e1.deck) # 0
  BY <1>1, <1>3, <1>4
<1>6. Whole(e1.deck, Mysteries, {e1.card})
  BY <1>4, <1>5
<1>c. GoodDraw(Mysteries, {e1.card}, e1.deck, e2)
  BY <1>6, Draws
<1>7. /\ e2.card \in Mysteries /\ e2.card # e1.card
      /\ Whole(e2.deck, Mysteries, {e1.card} \cup {e2.card})
      /\ Left(e2.deck) = Left(e1.deck) - 1
      /\ \/ /\ e2.card \in RangeOf(e1.deck.draw)
            /\ RangeOf(e2.deck.draw) = RangeOf(e1.deck.draw) \ {e2.card}
         \/ RangeOf(e1.deck.draw) = {}
  BY <1>5, <1>c DEF GoodDraw
<1> DEFINE x == TwoCards(Active, e1.card, e2.card)
<1>8. e2.card # NoCard
  BY <1>7, ContentFacts
<1>9. Conclude([deck EXCEPT !.mystery = e2.deck], x, ap - 1, TRUE, investigated, answered)
  <2>1. PICK o \in {[deck |-> e2.deck, choice |-> x]} :
          Conclude([deck EXCEPT !.mystery = o.deck], o.choice, ap - 1, TRUE,
                   investigated, answered)
    BY <1>2, <1>8
  <2>2. o.deck = e2.deck /\ o.choice = x
    BY <2>1
  <2> QED BY <2>1, <2>2
<1>10. RangeOf(TableOf(x)) = {e1.card, e2.card} /\ Len(TableOf(x)) = 2
  BY <1>5, <1>7, TableFacts
<1>11. {e1.card} \cup {e2.card} = {e1.card, e2.card}
  OBVIOUS
<1>12. Whole(e2.deck, Mysteries, RangeOf(TableOf(x)))
  BY <1>7, <1>10, <1>11
<1>13. Left(e2.deck) + Len(TableOf(x)) = Cardinality(Mysteries)
  BY <1>3, <1>4, <1>7, <1>10
<1>14. ShapeOf(Active, x)
  BY <1>5, <1>7 DEF ShapeOf
<1>15. RangeOf(e2.deck.draw) \subseteq Mysteries \ {e1.card, e2.card}
  BY <1>10, <1>12 DEF Whole
<1>16. PassMoves(Mysteries, L, {}, RangeOf(e2.deck.draw), {e1.card, e2.card})
  BY <1>4, <1>5, <1>7, <1>15 DEF PassMoves
<1>17. MysteryStep(e2.deck, x)
  BY <1>3, <1>10, <1>12, <1>13, <1>14, <1>16 DEF MysteryStep
<1> QED BY <1>1, <1>9, <1>17

\* The card the scholar did not take is discarded, the other one offered.
LEMMA ChooseCardFacts ==
  ASSUME TypeOK, DeckInv, CountInv, ChoiceInv, NEW c \in Mysteries, ChooseCard(c)
  PROVE  \E d, x : /\ MysteryStep(d, x) /\ UNCHANGED <<held, at>>
                   /\ at[Active] \notin investigated
                   /\ Conclude([deck EXCEPT !.mystery = d], x, ap, abilityUsed,
                               investigated, answered)
<1>1. pending.cards # <<>> /\ (\E i \in DOMAIN pending.cards : pending.cards[i] = c)
      /\ UNCHANGED <<held, at>>
  BY DEF ChooseCard
<1>2. at[Active] \notin investigated
      /\ \E a, b \in Mysteries : a # b /\ pending = TwoCards(Active, a, b)
  BY <1>1 DEF ChoiceInv, NoChoice, OneCard
<1>3. PICK a \in Mysteries, b \in Mysteries : a # b /\ pending = TwoCards(Active, a, b)
  BY <1>2
<1>4. /\ pending.cards = <<a, b>> /\ pending.by = Active
      /\ RangeOf(Table) = {a, b} /\ Len(Table) = 2
  <2>1. pending.cards = <<a, b>> /\ pending.by = Active
    BY <1>3 DEF TwoCards
  <2>2. Table = TableOf(TwoCards(Active, a, b))
    BY <1>3 DEF Table
  <2> QED BY <2>1, <2>2, TableFacts
<1>5. PICK other \in {a, b} : other # c /\ {a, b} \ {other} = {c} /\ Others(c) = <<other>>
  <2>1. pending.cards[1] = a /\ pending.cards[2] = b /\ DOMAIN pending.cards = {1, 2}
    BY <1>4
  <2>2. c = a \/ c = b
    BY <1>1, <2>1
  <2>3. CASE c = a
    <3>1. Others(c) = <<>> \o <<b>>
      BY <1>3, <2>1, <2>3 DEF Others
    <3> QED BY <1>3, <2>3, <3>1
  <2>4. CASE c = b
    <3>1. Others(c) = <<a>> \o <<>>
      BY <1>3, <2>1, <2>4 DEF Others
    <3> QED BY <1>3, <2>4, <3>1
  <2> QED BY <2>2, <2>3, <2>4
<1> DEFINE d == Put(deck.mystery, other)
<1>6. /\ Whole(deck.mystery, Mysteries, {a, b})
      /\ Left(deck.mystery) + 2 = Cardinality(Mysteries)
      /\ deck.mystery \in [draw : Seq(Mysteries), discard : Seq(Mysteries)]
      /\ other \in Mysteries /\ NoCard \notin Mysteries
  BY <1>4, ContentFacts DEF DeckInv, CountInv, Whole
<1>7. [deck.mystery EXCEPT !.discard = @ \o Others(c)] = d
  <2>1. deck.mystery.discard \o <<other>> = Append(deck.mystery.discard, other)
    BY <1>6, AppendIsConcat
  <2> QED BY <1>5, <1>6, <2>1 DEF Put
<1>8. GoodPut(Mysteries, {a, b}, deck.mystery, other)
  BY <1>5, <1>6, Puts
<1>9. /\ Whole(d, Mysteries, {c}) /\ d.draw = deck.mystery.draw
      /\ Left(deck.mystery) \in Nat /\ Left(d) = Left(deck.mystery) + 1
  BY <1>5, <1>8 DEF GoodPut
<1>10. PICK o \in Offered(d, Active, c) :
         Conclude([deck EXCEPT !.mystery = o.deck], o.choice, ap, abilityUsed,
                  investigated, answered)
  <2>1. \E o \in Offered([deck.mystery EXCEPT !.discard = @ \o Others(c)], pending.by, c) :
          Conclude([deck EXCEPT !.mystery = o.deck], o.choice, ap, abilityUsed,
                   investigated, answered)
    BY DEF ChooseCard
  <2> HIDE DEF d
  <2> QED BY <1>4, <1>7, <2>1
<1> HIDE DEF d
<1>11. GoodOffer(d, Active, c, o)
  BY <1>9, <1>10, Offers
<1>12. Left(o.deck) + Len(TableOf(o.choice)) = Cardinality(Mysteries)
  BY <1>6, <1>9, <1>11 DEF GoodOffer
<1>13. PassMoves(Mysteries, RangeOf(deck.mystery.draw), RangeOf(Table),
                 RangeOf(o.deck.draw), RangeOf(TableOf(o.choice)))
  BY <1>4, <1>5, <1>9, <1>11 DEF GoodOffer, PassMoves
<1>14. MysteryStep(o.deck, o.choice)
  BY <1>11, <1>12, <1>13 DEF GoodOffer, MysteryStep
<1> QED BY <1>1, <1>2, <1>10, <1>14

\* What a player gains is one artifact more in one hand.
LEMMA Gains ==
  ASSUME TypeOK, DeckInv, CountInv, NEW p \in Players, NEW e \in Drawn(deck.artifact),
         held' = [held EXCEPT ![p] = IF e.card = NoCard THEN @ ELSE Append(@, e.card)]
  PROVE  held' \in [Players -> Seq(Artifacts)] /\ ArtifactStep(e.deck)
<1> DEFINE L == RangeOf(deck.artifact.draw)
<1>1. Whole(deck.artifact, Artifacts, HeldCards)
  BY DEF DeckInv
<1>2. GoodDraw(Artifacts, HeldCards, deck.artifact, e)
  BY <1>1, Draws
<1>3. CASE e.card = NoCard /\ e.deck = deck.artifact
  <2>1. held' = held
    BY <1>3 DEF TypeOK
  <2> QED BY <1>3, <2>1, ArtifactStays DEF TypeOK
<1>4. CASE /\ e.card \in Artifacts /\ e.card \notin HeldCards
           /\ Whole(e.deck, Artifacts, HeldCards \cup {e.card})
           /\ Left(deck.artifact) \in Nat /\ Left(e.deck) = Left(deck.artifact) - 1
           /\ \/ e.card \in L /\ RangeOf(e.deck.draw) = L \ {e.card}
              \/ L = {}
  <2> DEFINE h == held[p]
             spot == <<p, Len(h) + 1>>
  <2>1. held' = [held EXCEPT ![p] = Append(h, e.card)]
    BY <1>4, ContentFacts
  <2>2. h \in Seq(Artifacts)
    BY DEF TypeOK
  <2>3. /\ Append(h, e.card) \in Seq(Artifacts)
        /\ RangeOf(Append(h, e.card)) = RangeOf(h) \cup {e.card}
        /\ DOMAIN Append(h, e.card) = DOMAIN h \cup {Len(h) + 1}
        /\ Len(h) + 1 \notin DOMAIN h
    BY <1>4, <2>2, PutLast
  <2>4. /\ held' \in [Players -> Seq(Artifacts)] /\ held'[p] = Append(h, e.card)
        /\ \A q \in Players : q # p => held'[q] = held[q]
    BY <2>1, <2>3 DEF TypeOK
  <2>5. HeldCards' = HeldCards \cup {e.card}
    BY <2>3, <2>4 DEF HeldCards
  <2>6. \A q \in Players : \A i : <<q, i>> \in HeldPlaces' <=>
          <<q, i>> \in HeldPlaces \/ <<q, i>> = spot
    BY <2>3, <2>4 DEF HeldPlaces
  <2>7. HeldPlaces' = HeldPlaces \cup {spot}
    <3>1. \A x \in HeldPlaces' : \E q \in Players : \E i \in DOMAIN held'[q] : x = <<q, i>>
      BY DEF HeldPlaces
    <3>2. \A x \in HeldPlaces : \E q \in Players : \E i \in DOMAIN held[q] : x = <<q, i>>
      BY DEF HeldPlaces
    <3> QED BY <2>6, <3>1, <3>2
  <2>8. spot \notin HeldPlaces
    BY <2>3 DEF HeldPlaces
  <2>9. /\ IsFiniteSet(HeldPlaces') /\ Cardinality(HeldPlaces) \in Nat
        /\ Cardinality(HeldPlaces') = Cardinality(HeldPlaces) + 1
    BY <2>7, <2>8, FS_AddElement, FS_CardinalityType DEF CountInv
  <2>10. Left(e.deck) + Cardinality(HeldPlaces') = Cardinality(Artifacts)
    BY <1>4, <2>9 DEF CountInv
  <2>11. PassMoves(Artifacts, L, HeldCards, RangeOf(e.deck.draw), HeldCards \cup {e.card})
    <3>1. /\ RangeOf(e.deck.draw) \subseteq Artifacts \ (HeldCards \cup {e.card})
          /\ HeldCards \cup {e.card} \subseteq Artifacts
      BY <1>4 DEF Whole
    <3> QED BY <1>4, <3>1 DEF PassMoves
  <2> QED BY <1>4, <2>4, <2>5, <2>9, <2>10, <2>11 DEF ArtifactStep
<1> QED BY <1>2, <1>3, <1>4 DEF GoodDraw

\* The answer: the mystery is discarded, its place marked, and perhaps an
\* artifact drawn.
LEMMA ChooseOptionFacts ==
  ASSUME TypeOK, DeckInv, CountInv, ChoiceInv, NEW o \in Options, ChooseOption(o)
  PROVE  /\ at' = at /\ held' \in [Players -> Seq(Artifacts)]
         /\ at[Active] \notin investigated
         /\ \E m, g : /\ MysteryStep(m, NoChoice) /\ ArtifactStep(g)
                      /\ Conclude([event |-> deck.event, mystery |-> m, artifact |-> g],
                                  NoChoice, ap, abilityUsed,
                                  investigated \cup {at[Active]},
                                  [answered EXCEPT ![at[Active]] = @ + 1])
<1> DEFINE S == investigated \cup {at[Active]}
           n == [answered EXCEPT ![at[Active]] = @ + 1]
<1>1. o \in pending.options /\ at' = at
  BY DEF ChooseOption
<1>2. /\ at[Active] \notin investigated
      /\ \E c \in Mysteries, T \in SUBSET Options : pending = OneCard(Active, c, T)
  BY <1>1 DEF ChoiceInv, NoChoice, TwoCards
<1>3. PICK c \in Mysteries, T \in SUBSET Options : pending = OneCard(Active, c, T)
  BY <1>2
<1>4. /\ pending.card = c /\ pending.by = Active
      /\ RangeOf(Table) = {c} /\ Len(Table) = 1
  BY <1>3, TableFacts DEF OneCard, Table
<1> DEFINE m == Put(deck.mystery, c)
<1>5. Whole(deck.mystery, Mysteries, {c}) /\ Left(deck.mystery) + 1 = Cardinality(Mysteries)
      /\ NoCard \notin Mysteries /\ c \in {c}
  BY <1>4, ContentFacts DEF DeckInv, CountInv
<1>6. GoodPut(Mysteries, {c}, deck.mystery, c)
  BY <1>5, Puts
<1>7. {c} \ {c} = {}
  OBVIOUS
<1>8. /\ Whole(m, Mysteries, {}) /\ m.draw = deck.mystery.draw
      /\ Left(m) = Cardinality(Mysteries) /\ Left(m) \in Nat
  <2>1. /\ Whole(m, Mysteries, {c} \ {c}) /\ m.draw = deck.mystery.draw
        /\ Left(m) = Left(deck.mystery) + 1 /\ Left(deck.mystery) \in Nat
    BY <1>6 DEF GoodPut
  <2> HIDE DEF m
  <2>2. Left(m) = Cardinality(Mysteries) /\ Left(m) \in Nat
    BY <1>5, <2>1
  <2> QED BY <1>7, <2>1, <2>2
<1> HIDE DEF m
<1>9. MysteryStep(m, NoChoice)
  <2>1. RangeOf(TableOf(NoChoice)) = {} /\ Len(TableOf(NoChoice)) = 0
    BY TableFacts
  <2>2. Whole(m, Mysteries, RangeOf(TableOf(NoChoice)))
        /\ Left(m) + Len(TableOf(NoChoice)) = Cardinality(Mysteries)
    BY <1>8, <2>1
  <2>3. PassMoves(Mysteries, RangeOf(deck.mystery.draw), RangeOf(Table),
                  RangeOf(m.draw), RangeOf(TableOf(NoChoice)))
    BY <1>8, <2>1 DEF PassMoves
  <2> QED BY <2>2, <2>3 DEF MysteryStep, ShapeOf
<1>10. deck = [event |-> deck.event, mystery |-> deck.mystery, artifact |-> deck.artifact]
  BY DEF DeckInv
<1>11. [deck EXCEPT !.mystery = Put(@, pending.card)] =
         [event |-> deck.event, mystery |-> m, artifact |-> deck.artifact]
  BY <1>4, <1>10 DEF m
<1>12. CASE /\ Conclude([event |-> deck.event, mystery |-> m, artifact |-> deck.artifact],
                        NoChoice, ap, abilityUsed, S, n)
            /\ UNCHANGED held
  BY <1>1, <1>2, <1>9, <1>12, ArtifactStays DEF TypeOK
<1>13. ASSUME NEW e \in Drawn(deck.artifact),
              held' = [held EXCEPT ![Active] =
                         IF e.card = NoCard THEN @ ELSE Append(@, e.card)],
              Conclude([event |-> deck.event, mystery |-> m, artifact |-> e.deck],
                       NoChoice, ap, abilityUsed, S, n)
       PROVE  /\ held' \in [Players -> Seq(Artifacts)]
              /\ \E g : /\ ArtifactStep(g)
                        /\ Conclude([event |-> deck.event, mystery |-> m, artifact |-> g],
                                    NoChoice, ap, abilityUsed, S, n)
  BY <1>13, Gains, ActiveType
<1>14. \/ /\ Conclude([event |-> deck.event, mystery |-> m, artifact |-> deck.artifact],
                      NoChoice, ap, abilityUsed, S, n)
          /\ UNCHANGED held
       \/ \E e \in Drawn(deck.artifact) :
            /\ held' = [held EXCEPT ![Active] =
                          IF e.card = NoCard THEN @ ELSE Append(@, e.card)]
            /\ Conclude([event |-> deck.event, mystery |-> m, artifact |-> e.deck],
                        NoChoice, ap, abilityUsed, S, n)
  <2>1. \A g : [[event |-> deck.event, mystery |-> m, artifact |-> deck.artifact]
                  EXCEPT !.artifact = g]
               = [event |-> deck.event, mystery |-> m, artifact |-> g]
    OBVIOUS
  <2> DEFINE d == [deck EXCEPT !.mystery = Put(@, pending.card)]
             C(x) == Conclude(x, NoChoice, ap, abilityUsed, S, n)
  <2>2. \/ C(d) /\ UNCHANGED held
        \/ \E e \in Drawn(deck.artifact) :
             /\ held' = [held EXCEPT ![pending.by] =
                           IF e.card = NoCard THEN @ ELSE Append(@, e.card)]
             /\ C([d EXCEPT !.artifact = e.deck])
    BY <1>4 DEF ChooseOption
  <2>3. d = [event |-> deck.event, mystery |-> m, artifact |-> deck.artifact]
    BY <1>11
  <2> HIDE DEF d, C
  <2>4. \A g : [d EXCEPT !.artifact = g] = [event |-> deck.event, mystery |-> m, artifact |-> g]
    BY <2>3
  <2>5. \/ C([event |-> deck.event, mystery |-> m, artifact |-> deck.artifact]) /\ UNCHANGED held
        \/ \E e \in Drawn(deck.artifact) :
             /\ held' = [held EXCEPT ![Active] =
                           IF e.card = NoCard THEN @ ELSE Append(@, e.card)]
             /\ C([event |-> deck.event, mystery |-> m, artifact |-> e.deck])
    <3>1. ASSUME NEW e \in Drawn(deck.artifact), C([d EXCEPT !.artifact = e.deck])
          PROVE  C([event |-> deck.event, mystery |-> m, artifact |-> e.deck])
      <4>1. [d EXCEPT !.artifact = e.deck]
              = [event |-> deck.event, mystery |-> m, artifact |-> e.deck]
        BY <2>4
      <4> QED BY <3>1, <4>1
    <3>2. pending.by = Active
      BY <1>4
    <3>3. CASE C(d) /\ UNCHANGED held
      BY <2>3, <3>3
    <3>4. ASSUME NEW e \in Drawn(deck.artifact), C([d EXCEPT !.artifact = e.deck]),
                 held' = [held EXCEPT ![pending.by] =
                            IF e.card = NoCard THEN @ ELSE Append(@, e.card)]
          PROVE  \E f \in Drawn(deck.artifact) :
                   /\ held' = [held EXCEPT ![Active] =
                                 IF f.card = NoCard THEN @ ELSE Append(@, f.card)]
                   /\ C([event |-> deck.event, mystery |-> m, artifact |-> f.deck])
      BY <3>1, <3>2, <3>4
    <3> QED BY <2>2, <3>3, <3>4
  <2> QED BY <2>5 DEF C
<1> QED BY <1>1, <1>2, <1>9, <1>12, <1>13, <1>14

-----------------------------------------------------------------------------
(* The invariant, and the steps of the passes.                             *)

\* What one step does to the three decks, as steps of CardPass.
Moves ==
  /\ PassMoves(Mysteries, RangeOf(deck.mystery.draw), RangeOf(Table),
               RangeOf(deck'.mystery.draw), RangeOf(Table)')
  /\ PassMoves(Artifacts, RangeOf(deck.artifact.draw), HeldCards,
               RangeOf(deck'.artifact.draw), HeldCards')
  /\ PassMoves(Events, RangeOf(deck.event.draw), {}, RangeOf(deck'.event.draw), {})

Trio(m, g) == [event |-> deck.event, mystery |-> m, artifact |-> g]

\* A command that leaves good decks and a good choice keeps the invariant.
LEMMA Concluded ==
  ASSUME DeckInv, CountInv, NEW m, NEW g, NEW x, MysteryStep(m, x), ArtifactStep(g),
         NEW S \in SUBSET Place, NEW n \in [Place -> Nat],
         \A l \in Place : n[l] <= (IF l \in S THEN 1 ELSE 0),
         Settled(Trio(m, g), S, n), pending' = x,
         x = NoChoice \/ (Active' = Active /\ investigated' = S /\ at'[Active] \notin S),
         held' \in [Players -> Seq(Artifacts)], at' \in [Players -> Place]
  PROVE  IInv' /\ Moves
<1>1. /\ deck' = [event |-> deck'.event, mystery |-> m, artifact |-> g]
      /\ deck'.mystery = m /\ deck'.artifact = g
      /\ Whole(deck'.event, Events, {}) /\ Left(deck'.event) = Left(deck.event)
      /\ EventMoves(RangeOf(deck.event.draw), RangeOf(deck'.event.draw))
  BY DEF Settled, Trio
<1>2. Table' = TableOf(x)
  BY DEF Table
<1>3. DeckInv'
  BY <1>1, <1>2 DEF DeckInv, MysteryStep, ArtifactStep
<1>4. CountInv'
  BY <1>1, <1>2 DEF CountInv, MysteryStep, ArtifactStep
<1>5. investigated' \subseteq Place /\ answered' \in [Place -> Nat] /\ MarkInv'
  <2>1. CASE investigated' = S /\ answered' = n
    BY <2>1 DEF MarkInv
  <2>2. CASE investigated' = {} /\ answered' = [l \in Place |-> 0]
    BY <2>2 DEF MarkInv
  <2> QED BY <2>1, <2>2 DEF Settled
<1>6. TypeOK'
  BY <1>5 DEF TypeOK, Settled
<1>7. ChoiceInv'
  <2>1. CASE x = NoChoice
    BY <2>1 DEF ChoiceInv
  <2>2. CASE x # NoChoice
    <3>1. Active' = Active /\ at'[Active'] \notin investigated'
      BY <2>2
    <3>2. ShapeOf(Active', x)
      BY <3>1 DEF MysteryStep
    <3> QED BY <2>2, <3>1, <3>2 DEF ChoiceInv, ShapeOf, TwoCards, OneCard
  <2> QED BY <2>1, <2>2
<1>8. PassMoves(Events, RangeOf(deck.event.draw), {}, RangeOf(deck'.event.draw), {})
  <2>1. RangeOf(deck'.event.draw) \subseteq Events
    BY <1>1 DEF Whole
  <2> QED BY <1>1, <2>1 DEF EventMoves, PassMoves
<1>9. Moves
  BY <1>1, <1>2, <1>8 DEF Moves, MysteryStep, ArtifactStep
<1> QED BY <1>3, <1>4, <1>5, <1>6, <1>7, <1>9 DEF IInv

\* The same for the commands that end with Conclude.
LEMMA CommandKeeps ==
  ASSUME IInv, NEW m, NEW g, NEW x, MysteryStep(m, x), ArtifactStep(g),
         NEW S \in SUBSET Place, NEW n \in [Place -> Nat],
         \A l \in Place : n[l] <= (IF l \in S THEN 1 ELSE 0),
         NEW points, NEW used, Conclude(Trio(m, g), x, points, used, S, n),
         x = NoChoice \/ at'[Active] \notin S,
         held' \in [Players -> Seq(Artifacts)], at' \in [Players -> Place]
  PROVE  IInv' /\ Moves
<1>1. Tidy(Trio(m, g))
  BY DEF Tidy, Trio, IInv, DeckInv
<1>2. /\ pending' = x /\ Settled(Trio(m, g), S, n)
      /\ x = NoChoice \/ (Active' = Active /\ investigated' = S)
  BY <1>1, ConcludeFacts DEF IInv
<1> QED BY <1>2, Concluded DEF IInv

LEMMA InvNext == IInv /\ [Next]_vars => IInv' /\ (Moves \/ UNCHANGED vars)
<1> SUFFICES ASSUME IInv, [Next]_vars PROVE IInv' /\ (Moves \/ UNCHANGED vars)
  OBVIOUS
<1>0. /\ TypeOK /\ DeckInv /\ CountInv /\ ChoiceInv
      /\ deck = Trio(deck.mystery, deck.artifact)
      /\ \A m : [deck EXCEPT !.mystery = m] = Trio(m, deck.artifact)
  BY DEF IInv, DeckInv, Trio
<1>a. /\ held \in [Players -> Seq(Artifacts)] /\ at \in [Players -> Place]
      /\ investigated \in SUBSET Place /\ answered \in [Place -> Nat]
      /\ \A l \in Place : answered[l] <= (IF l \in investigated THEN 1 ELSE 0)
  BY DEF IInv, TypeOK, MarkInv
<1>b. Active \in Players /\ at[Active] \in Place
  BY <1>0, <1>a, ActiveType
<1>c. ASSUME NEW m, NEW x, MysteryStep(m, x), NEW points, NEW used, held' = held,
             at' \in [Players -> Place], x = NoChoice \/ at'[Active] \notin investigated,
             Conclude([deck EXCEPT !.mystery = m], x, points, used, investigated, answered)
      PROVE  IInv' /\ Moves
  <2>1. ArtifactStep(deck.artifact)
    BY <1>0, <1>c, ArtifactStays
  <2>2. Conclude(Trio(m, deck.artifact), x, points, used, investigated, answered)
    BY <1>0, <1>c
  <2> QED BY <1>a, <1>c, <2>1, <2>2, CommandKeeps
<1>d. ASSUME pending = NoChoice, NEW points, NEW used, held' = held,
             at' \in [Players -> Place],
             Conclude(deck, NoChoice, points, used, investigated, answered)
      PROVE  IInv' /\ Moves
  <2>1. MysteryStep(deck.mystery, NoChoice)
    BY <1>0, <1>d, MysteryStays
  <2>2. [deck EXCEPT !.mystery = deck.mystery] = deck
    BY <1>0
  <2> QED BY <1>c, <1>d, <2>1, <2>2
<1>1. CASE InvestigateOne
  <2>1. PICK d, x : /\ MysteryStep(d, x) /\ UNCHANGED <<held, at>>
                    /\ pending = NoChoice /\ at[Active] \notin investigated
                    /\ Conclude([deck EXCEPT !.mystery = d], x, ap - 1, abilityUsed,
                                investigated, answered)
    BY <1>0, <1>1, InvestigateOneFacts
  <2> QED BY <1>a, <1>c, <2>1
<1>2. CASE InvestigateTwo
  <2>1. PICK d, x : /\ MysteryStep(d, x) /\ UNCHANGED <<held, at>>
                    /\ pending = NoChoice /\ at[Active] \notin investigated
                    /\ Conclude([deck EXCEPT !.mystery = d], x, ap - 1, TRUE,
                                investigated, answered)
    BY <1>0, <1>2, InvestigateTwoFacts
  <2> QED BY <1>a, <1>c, <2>1
<1>3. ASSUME NEW c \in Mysteries, ChooseCard(c) PROVE IInv' /\ Moves
  <2>1. PICK d, x : /\ MysteryStep(d, x) /\ UNCHANGED <<held, at>>
                    /\ at[Active] \notin investigated
                    /\ Conclude([deck EXCEPT !.mystery = d], x, ap, abilityUsed,
                                investigated, answered)
    BY <1>0, <1>3, ChooseCardFacts
  <2> QED BY <1>a, <1>c, <2>1
<1>4. ASSUME NEW o \in Options, ChooseOption(o) PROVE IInv' /\ Moves
  <2> DEFINE S == investigated \cup {at[Active]}
             n == [answered EXCEPT ![at[Active]] = @ + 1]
  <2>1. /\ at' = at /\ held' \in [Players -> Seq(Artifacts)]
        /\ at[Active] \notin investigated
        /\ \E m, g : /\ MysteryStep(m, NoChoice) /\ ArtifactStep(g)
                     /\ Conclude(Trio(m, g), NoChoice, ap, abilityUsed, S, n)
    BY <1>0, <1>4, ChooseOptionFacts DEF Trio
  <2>2. PICK m, g : /\ MysteryStep(m, NoChoice) /\ ArtifactStep(g)
                    /\ Conclude(Trio(m, g), NoChoice, ap, abilityUsed, S, n)
    BY <2>1
  <2>3. /\ S \in SUBSET Place /\ n \in [Place -> Nat]
        /\ \A l \in Place : n[l] <= (IF l \in S THEN 1 ELSE 0)
    BY <1>a, <1>b, <2>1
  <2> HIDE DEF S, n
  <2> QED BY <1>a, <2>1, <2>2, <2>3, CommandKeeps
<1>5. ASSUME NEW l \in Place, Move(l) PROVE IInv' /\ Moves
  <2>1. /\ pending = NoChoice /\ held' = held /\ at' = [at EXCEPT ![Active] = l]
        /\ Conclude(deck, NoChoice, ap - 1, abilityUsed, investigated, answered)
    BY <1>5 DEF Move, MayAct
  <2>2. at' \in [Players -> Place]
    BY <1>a, <2>1
  <2> QED BY <1>d, <2>1, <2>2
<1>6. CASE Work
  BY <1>6, <1>a, <1>d DEF Work, MayAct
<1>7. CASE EndOfTurn
  <2>1. /\ pending = NoChoice /\ UNCHANGED <<held, at, pending>>
        /\ EndTurn(deck, investigated, answered)
    BY <1>7 DEF EndOfTurn
  <2>2. Tidy(deck)
    BY <1>0 DEF Tidy, DeckInv
  <2>3. Settled(Trio(deck.mystery, deck.artifact), investigated, answered)
    BY <1>0, <2>1, <2>2, EndTurnFacts
  <2>4. MysteryStep(deck.mystery, NoChoice) /\ ArtifactStep(deck.artifact)
    BY <1>0, <2>1, MysteryStays, ArtifactStays
  <2> QED BY <1>0, <1>a, <2>1, <2>3, <2>4, Concluded
<1>8. CASE UNCHANGED vars
  BY <1>8 DEF vars, IInv, TypeOK, DeckInv, CountInv, ChoiceInv, MarkInv, Table,
     HeldCards, HeldPlaces, Active
<1> QED BY <1>1, <1>2, <1>3, <1>4, <1>5, <1>6, <1>7, <1>8 DEF Next

\* buildDeck: all cards are in the draw pile.
LEMMA BuiltWhole ==
  ASSUME NEW C, IsFiniteSet(C),
         NEW d \in {[draw |-> s, discard |-> <<>>] : s \in Bijection(1 .. Cardinality(C), C)}
  PROVE  Whole(d, C, {}) /\ Left(d) = Cardinality(C)
<1>1. PICK s \in Bijection(1 .. Cardinality(C), C) : d = [draw |-> s, discard |-> <<>>]
  OBVIOUS
<1>2. Cardinality(C) \in Nat
  BY FS_CardinalityType
<1>3. /\ s \in [1 .. Cardinality(C) -> C] /\ IsInjective(s)
      /\ \A t \in C : \E i \in 1 .. Cardinality(C) : s[i] = t
  BY DEF Bijection, Injection, Surjection
<1>4. s \in Seq(C) /\ Len(s) = Cardinality(C) /\ DOMAIN s = 1 .. Cardinality(C)
  BY <1>2, <1>3, SeqDef, LenProperties
<1>5. RangeOf(s) = C
  BY <1>3, <1>4 DEF RangeOf
<1>6. <<>> \in Seq(C) /\ IsInjective(<<>>) /\ RangeOf(<<>>) = {} /\ Len(<<>>) = 0
  BY Empty
<1>7. d \in [draw : Seq(C), discard : Seq(C)] /\ d.draw = s /\ d.discard = <<>>
  BY <1>1, <1>4, <1>6
<1>8. Whole(d, C, {})
  BY <1>3, <1>5, <1>6, <1>7 DEF Whole
<1>9. Left(d) = Cardinality(C)
  BY <1>2, <1>4, <1>6, <1>7 DEF Left
<1> QED BY <1>8, <1>9

LEMMA InvInit == Init => IInv
<1> SUFFICES ASSUME Init PROVE IInv
  OBVIOUS
<1>1. /\ held = [p \in Players |-> <<>>] /\ pending = NoChoice /\ at \in [Players -> Place]
      /\ investigated = {} /\ answered = [l \in Place |-> 0]
      /\ seat = [first |-> 1, active |-> 1, taken |-> 0]
  BY DEF Init
<1>2. PICK e \in Built("event"), m \in Built("mystery"), a \in Built("artifact") :
        \E e1 \in EventPhase(e) : deck = [event |-> e1, mystery |-> m, artifact |-> a]
  BY DEF Init
<1>3. PICK e1 \in EventPhase(e) : deck = [event |-> e1, mystery |-> m, artifact |-> a]
  BY <1>2
<1>4. /\ Whole(e, Events, {}) /\ Left(e) = Cardinality(Events)
      /\ Whole(m, Mysteries, {}) /\ Left(m) = Cardinality(Mysteries)
      /\ Whole(a, Artifacts, {}) /\ Left(a) = Cardinality(Artifacts)
  <2>1. CardsOf("event") = Events /\ CardsOf("mystery") = Mysteries
        /\ CardsOf("artifact") = Artifacts
    BY DEF CardsOf
  <2> QED BY <2>1, BuiltWhole, ContentFacts DEF Built
<1>5. Whole(e1, Events, {}) /\ Left(e1) = Cardinality(Events)
  BY <1>4, EventPhaseWhole
<1>6. HeldCards = {} /\ HeldPlaces = {}
  <2>1. \A p \in Players : RangeOf(held[p]) = {} /\ DOMAIN held[p] = {}
    BY <1>1, Empty DEF RangeOf
  <2> QED BY <2>1 DEF HeldCards, HeldPlaces
<1>7. IsFiniteSet(HeldPlaces) /\ Cardinality(HeldPlaces) = 0
  BY <1>6, FS_EmptySet
<1>8. RangeOf(Table) = {} /\ Len(Table) = 0
  BY <1>1, TableFacts DEF Table
<1>9. deck.event = e1 /\ deck.mystery = m /\ deck.artifact = a
  BY <1>3
<1>10. DeckInv
  BY <1>3, <1>4, <1>5, <1>6, <1>8, <1>9 DEF DeckInv
<1>11. CountInv
  BY <1>4, <1>5, <1>7, <1>8, <1>9, ContentFacts DEF CountInv
<1>12. 1 \in DOMAIN TurnOrder
  <2>1. TurnOrder \in Seq(Players) /\ TurnOrder # <<>>
    BY DEF ContentAssumption
  <2> QED BY <2>1, EmptySeq, LenProperties
<1>13. TypeOK
  BY <1>1, <1>12, Empty DEF TypeOK
<1>14. ChoiceInv /\ MarkInv
  BY <1>1 DEF ChoiceInv, MarkInv
<1> QED BY <1>10, <1>11, <1>13, <1>14 DEF IInv

-----------------------------------------------------------------------------
(* The theorems.                                                           *)

\* The strengthening is an invariant: each deck holds the cards that are not
\* outside, each once; a choice is that of the active player, about cards that
\* are on the table, at a place that has not given up its mystery.
THEOREM Invariant == Spec => []IInv
BY InvInit, InvNext, PTL DEF Spec

\* No place gives up two mysteries in a round: it is marked only when the
\* mystery is answered (markInvestigated), but until then nobody else acts and
\* the one who is to answer does not move.
THEOREM OneAnswer == Spec => []OneAnswerPerPlace
<1>1. IInv => OneAnswerPerPlace
  <2> SUFFICES ASSUME IInv, NEW l \in Place PROVE answered[l] <= 1
    BY DEF OneAnswerPerPlace
  <2>1. answered[l] \in Nat /\ answered[l] <= (IF l \in investigated THEN 1 ELSE 0)
    BY DEF IInv, TypeOK, MarkInv
  <2> QED BY <2>1
<1> QED BY <1>1, Invariant, PTL

\* No card is lost or doubled, by drawCard with its reshuffling, discardCard,
\* offerMysteryOptions or the scholar's two cards.
THEOREM CardsOnce == Spec => []EveryCardOnce
<1>1. IInv => EveryCardOnce
  <2> SUFFICES ASSUME DeckInv, CountInv PROVE EveryCardOnce
    BY DEF IInv
  <2>1. CardsOf("event") = Events /\ CardsOf("mystery") = Mysteries
        /\ CardsOf("artifact") = Artifacts
    BY DEF CardsOf
  <2>2. Left(deck.event) \in Nat
    BY LeftFacts DEF DeckInv, Whole
  <2>3. /\ deck["event"] = deck.event /\ deck["mystery"] = deck.mystery
        /\ deck["artifact"] = deck.artifact
    OBVIOUS
  <2>4. /\ RangeOf(deck.event.draw) \cup RangeOf(deck.event.discard) \cup {} = Events
        /\ RangeOf(deck.mystery.draw) \cup RangeOf(deck.mystery.discard) \cup RangeOf(Table)
             = Mysteries
        /\ RangeOf(deck.artifact.draw) \cup RangeOf(deck.artifact.discard) \cup HeldCards
             = Artifacts
    BY DEF DeckInv, Whole
  <2>5. /\ Left(deck.event) + 0 = Cardinality(Events)
        /\ Left(deck.mystery) + Len(Table) = Cardinality(Mysteries)
        /\ Left(deck.artifact) + Cardinality(HeldPlaces) = Cardinality(Artifacts)
    BY <2>2 DEF CountInv
  <2> QED BY <2>1, <2>3, <2>4, <2>5 DEF EveryCardOnce
<1> QED BY <1>1, Invariant, PTL

\* All three decks implement CardPass: within a pass no card comes up twice,
\* and a new pass leaves out what is on the table or in somebody's hand.
THEOREM DecksKeepPasses == Spec => KeepsPasses
<1>1. Init => MysteryPass!Init /\ EventPass!Init /\ ArtifactPass!Init
  <2> SUFFICES ASSUME Init
               PROVE  MysteryPass!Init /\ EventPass!Init /\ ArtifactPass!Init
    OBVIOUS
  <2>1. /\ RangeOf(deck.mystery.draw) \subseteq Mysteries
        /\ RangeOf(deck.event.draw) \subseteq Events
        /\ RangeOf(deck.artifact.draw) \subseteq Artifacts
    BY InvInit DEF IInv, DeckInv, Whole
  <2>2. RangeOf(Table) = {}
    BY TableFacts DEF Init, Table
  <2>3. HeldCards = {}
    BY Empty DEF Init, HeldCards
  <2> QED BY <2>1, <2>2, <2>3 DEF MysteryPass!Init, EventPass!Init, ArtifactPass!Init, HeldCards
<1>2. Moves => /\ [MysteryPass!Next]_(MysteryPass!vars)
               /\ [EventPass!Next]_(EventPass!vars)
               /\ [ArtifactPass!Next]_(ArtifactPass!vars)
  <2> SUFFICES ASSUME Moves
               PROVE  MysteryPass!Next /\ EventPass!Next /\ ArtifactPass!Next
    OBVIOUS
  <2>1. MysteryPass!Next
    BY DEF Moves, PassMoves, MysteryPass!Next, MysteryPass!Draw, MysteryPass!Return,
           MysteryPass!NewPass
  <2>2. EventPass!Next
    BY DEF Moves, PassMoves, EventPass!Next, EventPass!Draw, EventPass!Return,
           EventPass!NewPass
  <2>3. ArtifactPass!Next
    BY DEF Moves, PassMoves, ArtifactPass!Next, ArtifactPass!Draw, ArtifactPass!Return,
           ArtifactPass!NewPass, HeldCards
  <2> QED BY <2>1, <2>2, <2>3
<1>3. UNCHANGED vars => /\ [MysteryPass!Next]_(MysteryPass!vars)
                        /\ [EventPass!Next]_(EventPass!vars)
                        /\ [ArtifactPass!Next]_(ArtifactPass!vars)
  BY DEF vars, MysteryPass!vars, EventPass!vars, ArtifactPass!vars, Table
<1>4. IInv /\ [Next]_vars => /\ [MysteryPass!Next]_(MysteryPass!vars)
                             /\ [EventPass!Next]_(EventPass!vars)
                             /\ [ArtifactPass!Next]_(ArtifactPass!vars)
  BY <1>2, <1>3, InvNext
<1> QED BY <1>1, <1>4, Invariant, PTL DEF Spec, KeepsPasses, MysteryPass!Spec,
           EventPass!Spec, ArtifactPass!Spec
=============================================================================

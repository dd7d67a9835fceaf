-------------------------- MODULE TurnEngineProofs --------------------------
(***************************************************************************)
(* Proofs about TurnEngine for every number of players, every Darkness     *)
(* track and every number of components.                                   *)
(***************************************************************************)
EXTENDS TurnEngine, TLAPS

USE ContentAssumption DEF Seats

-----------------------------------------------------------------------------
(* The operators.                                                          *)

\* A turn opens with at least one action point and at most the full number.
LEMMA TurnAPFacts ==
  ASSUME NEW d \in Nat PROVE TurnAP(d) \in 1 .. ActionPoints
BY DEF TurnAP

\* Darkness never falls, stays on the track, and really rises below its limit.
LEMMA RaisedFacts ==
  ASSUME NEW d \in 0 .. MaxDarkness, NEW n \in Nat
  PROVE  /\ Raised(d, n) \in 0 .. MaxDarkness /\ d <= Raised(d, n)
         /\ d < MaxDarkness /\ n > 0 => d < Raised(d, n)
BY DEF Raised

\* checkEnd is right about the end.
LEMMA VerdictFacts ==
  ASSUME NEW d \in 0 .. MaxDarkness, NEW r \in 0 .. Components
  PROVE  /\ Verdict(d, r) \in {"active", "won", "lost"}
         /\ Verdict(d, r) = "active" <=> d < MaxDarkness /\ r < Components
         /\ Verdict(d, r) = "lost" <=> d = MaxDarkness
         /\ Verdict(d, r) = "won" => d < MaxDarkness /\ r = Components
BY DEF Verdict

LEMMA NoChoiceTyped ==
  NoChoice \in [kind : {"none", "mystery_card", "mystery_option"}, player : Seats]
<1>1. 0 \in 0 .. N - 1
  OBVIOUS
<1> QED BY <1>1 DEF NoChoice

\* Going round the table, seat by seat, meets every seat once.
LEMMA BehindFacts ==
  ASSUME NEW f \in 0 .. N - 1
  PROVE  /\ \A t \in 0 .. N - 1 : Behind(f, t) \in 0 .. N - 1
         /\ Behind(f, 0) = f
         /\ \A t \in 0 .. N - 2 : Behind(f, t + 1) = Succ(Behind(f, t))
         /\ \A t, u \in 0 .. N - 1 : Behind(f, t) = Behind(f, u) => t = u
         /\ \A s \in 0 .. N - 1 : \E t \in 0 .. N - 1 : s = Behind(f, t)
<1>1. /\ \A t \in 0 .. N - 1 : Behind(f, t) \in 0 .. N - 1
      /\ Behind(f, 0) = f
      /\ \A t \in 0 .. N - 2 : Behind(f, t + 1) = Succ(Behind(f, t))
      /\ \A t, u \in 0 .. N - 1 : Behind(f, t) = Behind(f, u) => t = u
  BY DEF Behind, Succ
<1>2. ASSUME NEW s \in 0 .. N - 1 PROVE \E t \in 0 .. N - 1 : s = Behind(f, t)
  <2>1. CASE s >= f
    <3>1. s - f \in 0 .. N - 1 /\ s = Behind(f, s - f)
      BY <2>1 DEF Behind
    <3> QED BY <3>1
  <2>2. CASE s < f
    <3>1. s - f + N \in 0 .. N - 1 /\ s = Behind(f, s - f + N)
      BY <2>2 DEF Behind
    <3> QED BY <3>1
  <2> QED BY <2>1, <2>2
<1> QED BY <1>1, <1>2

-----------------------------------------------------------------------------
(* What the phase machine keeps, whichever command called it.              *)

\* The state a command calls the phase machine from: a turn of the match is
\* being played, and only the active player has points in a.
Playing(d, a) ==
  /\ TypeOK /\ IInv /\ status = "active" /\ phase = "player"
  /\ d \in 0 .. MaxDarkness - 1 /\ darkness <= d
  /\ a \in [Seats -> 0 .. ActionPoints]
  /\ \A q \in Seats : q # activeIdx => a[q] = 0
  /\ repaired' \in 0 .. Components - 1

LEMMA StartTurnFacts ==
  ASSUME NEW i \in Seats, NEW d \in Nat, NEW a \in [Seats -> 0 .. ActionPoints],
         \A q \in Seats : a[q] = 0, StartTurn(i, d, a)
  PROVE  /\ activeIdx' = i /\ used' = {}
         /\ ap' \in [Seats -> 0 .. ActionPoints] /\ ap'[i] >= 1
         /\ \A q \in Seats : q # i => ap'[q] = 0
<1>1. TurnAP(d) \in 0 .. ActionPoints /\ TurnAP(d) >= 1
  BY TurnAPFacts
<1>2. activeIdx' = i /\ ap' = [a EXCEPT ![i] = TurnAP(d)] /\ used' = {}
  BY DEF StartTurn
<1> QED BY <1>1, <1>2

LEMMA BeginRoundFacts ==
  ASSUME NEW f \in Seats, NEW d \in 0 .. MaxDarkness,
         NEW a \in [Seats -> 0 .. ActionPoints], \A q \in Seats : a[q] = 0,
         repaired' \in 0 .. Components - 1, pending' = NoChoice, TypeOK,
         BeginRound(f, d, a)
  PROVE  TypeOK' /\ IInv' /\ d <= darkness' /\ firstIdx' = f
<1>1. PICK k \in CardRises : darkness' = Raised(d, k)
                             /\ status' = Verdict(darkness', repaired')
  BY DEF BeginRound
<1>2. darkness' \in 0 .. MaxDarkness /\ d <= darkness'
  BY <1>1, RaisedFacts
<1>3. /\ status' \in {"active", "won", "lost"}
      /\ status' = "active" <=> darkness' < MaxDarkness
      /\ status' = "lost" <=> darkness' = MaxDarkness
      /\ status' # "won"
  BY <1>1, <1>2, VerdictFacts
<1>4. firstIdx' = f /\ turnsTaken' = 0 /\ played' = {}
  BY DEF BeginRound
<1>5. pending' \in [kind : {"none", "mystery_card", "mystery_option"}, player : Seats]
  BY NoChoiceTyped
<1>6. CASE status' = "active"
  <2>1. phase' = "player" /\ StartTurn(f, darkness', a)
    BY <1>6 DEF BeginRound
  <2>2. /\ activeIdx' = f /\ used' = {}
        /\ ap' \in [Seats -> 0 .. ActionPoints] /\ ap'[f] >= 1
        /\ \A q \in Seats : q # f => ap'[q] = 0
    BY <1>2, <2>1, StartTurnFacts
  <2>3. TypeOK'
    BY <1>2, <1>4, <1>5, <1>6, <2>1, <2>2 DEF TypeOK
  <2>4. TurnOrderKept'
    BY <1>4, <2>2, BehindFacts DEF TurnOrderKept, Behind
  <2>5. OnlyActiveHasAP' /\ NeverStuck' /\ ChoiceIsActives'
    BY <1>6, <2>1, <2>2 DEF OnlyActiveHasAP, NeverStuck, ChoiceIsActives
  <2>6. EndIsNoticed' /\ SetupInv'
    BY <1>3, <1>6 DEF EndIsNoticed, SetupInv
  <2> QED BY <1>2, <1>4, <2>3, <2>4, <2>5, <2>6 DEF IInv
<1>7. CASE status' # "active"
  <2>1. phase' = "event" /\ ap' = a /\ UNCHANGED <<activeIdx, used>>
    BY <1>7 DEF BeginRound
  <2>2. TypeOK'
    BY <1>2, <1>3, <1>4, <1>5, <2>1 DEF TypeOK
  <2>3. IInv'
    BY <1>2, <1>3, <1>7, <2>1 DEF IInv, TurnOrderKept, OnlyActiveHasAP,
       NeverStuck, ChoiceIsActives, EndIsNoticed, SetupInv
  <2> QED BY <1>2, <1>4, <2>2, <2>3
<1> QED BY <1>6, <1>7

\* Ending a turn keeps the invariant, and is progress.
LEMMA EndTurnFacts ==
  ASSUME NEW d, NEW a, Playing(d, a), pending' = NoChoice, EndTurn(d, a)
  PROVE  /\ TypeOK' /\ IInv'
         /\ \/ status' # "active"
            \/ darkness' > darkness
            \/ darkness' = darkness /\ turnsTaken' > turnsTaken
         /\ firstIdx' # firstIdx =>
              played \cup {activeIdx} = Seats /\ activeIdx \notin played
<1> DEFINE b == Ended(a)
<1> USE DEF Playing
<1>1. /\ b \in [Seats -> 0 .. ActionPoints] /\ \A q \in Seats : b[q] = 0
      /\ activeIdx \in Seats /\ firstIdx \in Seats /\ turnsTaken \in 0 .. N - 1
      /\ darkness \in 0 .. MaxDarkness /\ played \subseteq Seats
  <2>1. /\ activeIdx \in Seats /\ firstIdx \in Seats /\ turnsTaken \in 0 .. N
        /\ darkness \in 0 .. MaxDarkness /\ played \subseteq Seats
    BY DEF TypeOK
  <2>2. turnsTaken < N
    BY DEF IInv, TurnOrderKept
  <2>3. 0 \in 0 .. ActionPoints
    OBVIOUS
  <2>4. b \in [Seats -> 0 .. ActionPoints] /\ \A q \in Seats : b[q] = 0
    BY <2>1, <2>3 DEF Ended
  <2> QED BY <2>1, <2>2, <2>4
<1>2. /\ activeIdx = Behind(firstIdx, turnsTaken)
      /\ played = {Behind(firstIdx, t) : t \in 0 .. turnsTaken - 1}
  BY DEF IInv, TurnOrderKept
<1>3. pending' \in [kind : {"none", "mystery_card", "mystery_option"}, player : Seats]
  BY NoChoiceTyped
<1>4. CASE MoreTurns(turnsTaken)
  <2>1. /\ turnsTaken' = turnsTaken + 1 /\ played' = played \cup {activeIdx}
        /\ StartTurn(Succ(activeIdx), d, b) /\ darkness' = d
        /\ UNCHANGED <<status, phase, firstIdx>>
    BY <1>4 DEF EndTurn
  <2>2. Succ(activeIdx) \in Seats
    BY <1>1 DEF Succ
  <2>3. /\ activeIdx' = Succ(activeIdx) /\ used' = {}
        /\ ap' \in [Seats -> 0 .. ActionPoints] /\ ap'[activeIdx'] >= 1
        /\ \A q \in Seats : q # activeIdx' => ap'[q] = 0
    BY <1>1, <2>1, <2>2, StartTurnFacts
  <2>4. TypeOK'
    <3>1. /\ turnsTaken' \in 0 .. N /\ darkness' \in 0 .. MaxDarkness
          /\ repaired' \in 0 .. Components /\ played' \subseteq Seats
          /\ firstIdx' \in Seats /\ activeIdx' \in Seats
      BY <1>1, <2>1, <2>2, <2>3
    <3>2. status' = "active" /\ phase' = "player" /\ used' = {}
      BY <2>1, <2>3
    <3> QED BY <1>3, <2>3, <3>1, <3>2 DEF TypeOK
  <2>5. TurnOrderKept'
    <3>1. turnsTaken' \in 1 .. N - 1 /\ firstIdx' = firstIdx
      BY <1>1, <1>4, <2>1 DEF MoreTurns
    <3>2. activeIdx' = Behind(firstIdx, turnsTaken')
      <4>1. turnsTaken \in 0 .. N - 2
        BY <1>1, <1>4 DEF MoreTurns
      <4>2. Behind(firstIdx, turnsTaken + 1) = Succ(Behind(firstIdx, turnsTaken))
        BY <1>1, <4>1, BehindFacts
      <4> QED BY <1>2, <2>1, <2>3, <4>2
    <3>3. played' = {Behind(firstIdx, t) : t \in 0 .. turnsTaken' - 1}
      BY <1>1, <1>2, <2>1
    <3> QED BY <3>1, <3>2, <3>3 DEF TurnOrderKept, Behind
  <2>6. OnlyActiveHasAP' /\ NeverStuck' /\ ChoiceIsActives'
    BY <2>1, <2>3 DEF OnlyActiveHasAP, NeverStuck, ChoiceIsActives
  <2>7. EndIsNoticed' /\ SetupInv'
    BY <2>1 DEF EndIsNoticed, SetupInv
  <2>8. \/ darkness' > darkness
        \/ darkness' = darkness /\ turnsTaken' > turnsTaken
    BY <1>1, <2>1 DEF TypeOK
  <2> QED BY <2>1, <2>4, <2>5, <2>6, <2>7, <2>8 DEF IInv
<1>5. CASE ~ MoreTurns(turnsTaken)
  <2> DEFINE e == Raised(d, Rise)
  <2>1. turnsTaken = N - 1 /\ EndRound(d, b)
    BY <1>1, <1>5 DEF MoreTurns, EndTurn
  <2>2. e \in 0 .. MaxDarkness /\ darkness < e
    <3>1. d \in 0 .. MaxDarkness /\ d < MaxDarkness /\ Rise \in Nat /\ Rise > 0
          /\ darkness \in Nat
      BY <1>1
    <3>2. e \in 0 .. MaxDarkness /\ d < e
      BY <3>1, RaisedFacts
    <3> QED BY <3>1, <3>2
  <2>3. played \cup {activeIdx} = Seats /\ activeIdx \notin played
    <3>1. played \cup {activeIdx} = {Behind(firstIdx, t) : t \in 0 .. turnsTaken}
      BY <1>1, <1>2
    <3>3. {Behind(firstIdx, t) : t \in 0 .. N - 1} = Seats
      <4>1. \A t \in 0 .. N - 1 : Behind(firstIdx, t) \in Seats
        BY <1>1, BehindFacts
      <4>2. \A s \in Seats : \E t \in 0 .. N - 1 : s = Behind(firstIdx, t)
        BY <1>1, BehindFacts
      <4> QED BY <4>1, <4>2
    <3>4. turnsTaken = N - 1
      BY <2>1
    <3>2. activeIdx \notin played
      <4> SUFFICES ASSUME NEW t \in 0 .. turnsTaken - 1,
                          Behind(firstIdx, t) = activeIdx
                   PROVE  FALSE
        BY <1>2
      <4>1. t \in 0 .. N - 1 /\ turnsTaken \in 0 .. N - 1 /\ t # turnsTaken
        BY <1>1
      <4> QED BY <1>1, <1>2, <4>1, BehindFacts
    <3> QED BY <3>1, <3>2, <3>3, <3>4
  <2>4. CASE Verdict(e, repaired') = "active"
    <3>1. BeginRound(Succ(firstIdx), e, b)
      BY <2>1, <2>4 DEF EndRound
    <3>2. Succ(firstIdx) \in Seats
      BY <1>1 DEF Succ
    <3>3. TypeOK' /\ IInv' /\ e <= darkness'
      BY <1>1, <2>2, <3>1, <3>2, BeginRoundFacts
    <3>4. darkness' > darkness
      BY <2>2, <3>3 DEF TypeOK
    <3> QED BY <2>3, <3>3, <3>4
  <2>5. CASE Verdict(e, repaired') # "active"
    <3>1. /\ status' = Verdict(e, repaired') /\ phase' = "darkness"
          /\ darkness' = e /\ ap' = b
          /\ turnsTaken' = turnsTaken + 1 /\ played' = played \cup {activeIdx}
          /\ UNCHANGED <<firstIdx, activeIdx, used>>
      BY <2>1, <2>5 DEF EndRound
    <3>2. status' = "lost" /\ darkness' = MaxDarkness
      BY <2>2, <2>5, <3>1, VerdictFacts
    <3>3. TypeOK'
      BY <1>1, <1>3, <2>2, <3>1, <3>2 DEF TypeOK
    <3>4. IInv'
      BY <1>1, <3>1, <3>2 DEF IInv, TurnOrderKept, OnlyActiveHasAP, NeverStuck,
         ChoiceIsActives, EndIsNoticed, SetupInv
    <3> QED BY <3>1, <3>2, <3>3, <3>4
  <2> QED BY <2>4, <2>5
<1> QED BY <1>4, <1>5

\* The match stays on the same turn: the flags and points are still its own,
\* and a pending choice is the active player's.
LEMMA StayFacts ==
  ASSUME NEW d, NEW a, NEW u, Playing(d, a), Stay(d, a, u),
         u \subseteq {"free_move", "turn"},
         pending' \in [kind : {"none", "mystery_card", "mystery_option"}, player : Seats],
         pending' # NoChoice => pending'.player = activeIdx,
         pending' = NoChoice => a[activeIdx] >= 1
  PROVE  TypeOK' /\ IInv'
<1> USE DEF Playing
<1>1. /\ darkness' = d /\ ap' = a /\ used' = u
      /\ UNCHANGED <<status, phase, firstIdx, activeIdx, turnsTaken, played>>
  BY DEF Stay, place
<1>2. TypeOK'
  BY <1>1 DEF TypeOK
<1>3. TurnOrderKept' /\ OnlyActiveHasAP'
  BY <1>1 DEF IInv, TurnOrderKept, OnlyActiveHasAP, Behind
<1>4. NeverStuck' /\ ChoiceIsActives'
  BY <1>1 DEF NeverStuck, ChoiceIsActives
<1>5. EndIsNoticed' /\ SetupInv'
  BY <1>1 DEF EndIsNoticed, SetupInv
<1> QED BY <1>2, <1>3, <1>4, <1>5 DEF IInv

\* What the properties ask of one step of a match in progress.
Proceeds ==
  /\ TypeOK' /\ IInv'
  /\ \/ status' # "active"
     \/ darkness' > darkness
     \/ darkness' = darkness /\ turnsTaken' > turnsTaken
     \/ darkness' = darkness /\ turnsTaken' = turnsTaken /\ Left' < Left
  /\ firstIdx' # firstIdx =>
       played \cup {activeIdx} = Seats /\ activeIdx \notin played

\* autoEndTurn, after a command that shortened the turn or raised Darkness
LEMMA AutoEndTurnFacts ==
  ASSUME NEW d, NEW a, NEW u, Playing(d, a), AutoEndTurn(activeIdx, d, a, u),
         u \subseteq {"free_move", "turn"}, pending' = NoChoice,
         Stay(d, a, u) => d > darkness \/ Left' < Left
  PROVE  Proceeds
<1>1. CASE OutOfAP(activeIdx, a)
  <2>1. EndTurn(d, a)
    BY <1>1 DEF AutoEndTurn
  <2> QED BY <2>1, EndTurnFacts DEF Proceeds
<1>2. CASE ~ OutOfAP(activeIdx, a)
  <2>1. Stay(d, a, u)
    BY <1>2 DEF AutoEndTurn
  <2>2. activeIdx \in Seats /\ a[activeIdx] >= 1
    <3>1. activeIdx \in Seats /\ a[activeIdx] \in 0 .. ActionPoints
      BY DEF Playing, TypeOK
    <3> QED BY <1>2, <3>1 DEF OutOfAP
  <2>3. TypeOK' /\ IInv'
    BY <2>1, <2>2, NoChoiceTyped, StayFacts
  <2>4. darkness' = d /\ turnsTaken' = turnsTaken /\ firstIdx' = firstIdx
        /\ darkness <= d
    BY <2>1 DEF Stay, place, Playing
  <2>5. darkness \in Nat /\ d \in Nat
    BY DEF Playing, TypeOK
  <2> QED BY <2>1, <2>3, <2>4, <2>5 DEF Proceeds
<1> QED BY <1>1, <1>2

\* A command whose own effect may have ended the match
LEMMA ConcludeFacts ==
  ASSUME TypeOK, IInv, status = "active", phase = "player",
         NEW d \in 0 .. MaxDarkness, darkness <= d,
         NEW a \in [Seats -> 0 .. ActionPoints],
         \A q \in Seats : q # activeIdx => a[q] = 0,
         NEW u, u \subseteq {"free_move", "turn"},
         repaired' \in 0 .. Components, pending' = NoChoice,
         Conclude(activeIdx, d, a, u),
         Stay(d, a, u) => d > darkness \/ Left' < Left
  PROVE  Proceeds
<1>1. CASE Verdict(d, repaired') = "active"
  <2>1. d \in 0 .. MaxDarkness - 1 /\ repaired' \in 0 .. Components - 1
    BY <1>1, VerdictFacts
  <2>2. Playing(d, a)
    BY <2>1 DEF Playing
  <2>3. AutoEndTurn(activeIdx, d, a, u)
    BY <1>1 DEF Conclude
  <2> QED BY <2>2, <2>3, AutoEndTurnFacts
<1>2. CASE Verdict(d, repaired') # "active"
  <2>1. /\ status' = Verdict(d, repaired') /\ darkness' = d /\ ap' = a /\ used' = u
        /\ UNCHANGED <<phase, firstIdx, activeIdx, turnsTaken, played>>
    BY <1>2 DEF Conclude
  <2>2. /\ status' \in {"won", "lost"}
        /\ status' = "lost" => darkness' = MaxDarkness
        /\ status' = "won" => darkness' < MaxDarkness /\ repaired' = Components
    BY <1>2, <2>1, VerdictFacts
  <2>3. TypeOK'
    BY <2>1, <2>2, NoChoiceTyped DEF TypeOK
  <2>4. IInv'
    BY <2>1, <2>2 DEF IInv, TurnOrderKept, OnlyActiveHasAP, NeverStuck,
       ChoiceIsActives, EndIsNoticed, SetupInv
  <2> QED BY <2>1, <2>2, <2>3, <2>4 DEF Proceeds
<1> QED BY <1>1, <1>2

-----------------------------------------------------------------------------
(* The commands.                                                           *)

\* What is left of a turn that goes on
LEMMA StayLeft ==
  ASSUME NEW d, NEW a, NEW u, Stay(d, a, u)
  PROVE  Left' = 3 * a[activeIdx] + (IF "free_move" \in u THEN 0 ELSE 1)
                   + (IF "turn" \in u THEN 0 ELSE 1) + Waiting'
BY DEF Stay, place, Left, Flag

\* Spending an action point of the active player
LEMMA SpentFacts ==
  ASSUME TypeOK, OnlyActiveHasAP, ap[activeIdx] >= 1
  PROVE  /\ Spent(activeIdx) \in [Seats -> 0 .. ActionPoints]
         /\ Spent(activeIdx)[activeIdx] = ap[activeIdx] - 1
         /\ \A q \in Seats : q # activeIdx => Spent(activeIdx)[q] = 0
<1>1. ap \in [Seats -> 0 .. ActionPoints] /\ activeIdx \in Seats
  BY DEF TypeOK
<1>2. ap[activeIdx] - 1 \in 0 .. ActionPoints
  BY <1>1
<1> QED BY <1>1, <1>2 DEF Spent, OnlyActiveHasAP

\* What holds when a player may act, or may choose.
LEMMA Turn ==
  ASSUME TypeOK, IInv, status = "active"
  PROVE  /\ darkness \in 0 .. MaxDarkness - 1 /\ repaired \in 0 .. Components - 1
         /\ ap \in [Seats -> 0 .. ActionPoints] /\ activeIdx \in Seats
         /\ \A q \in Seats : q # activeIdx => ap[q] = 0
         /\ used \subseteq {"free_move", "turn"} /\ phase = "player"
BY DEF TypeOK, IInv, EndIsNoticed, OnlyActiveHasAP, NeverStuck

\* Kinds of choices are told apart.
LEMMA WaitingFacts ==
  /\ pending = NoChoice => Waiting = 0
  /\ \A p \in Seats : pending = Choice("mystery_option", p) => Waiting = 1
  /\ \A p \in Seats : pending = Choice("mystery_card", p) => Waiting = 2
  /\ \A p \in Seats, k \in {"mystery_option", "mystery_card"} :
       /\ Choice(k, p) # NoChoice /\ Choice(k, p).player = p
       /\ Choice(k, p) \in [kind : {"none", "mystery_card", "mystery_option"},
                            player : Seats]
BY DEF Waiting, NoChoice, Choice

\* offerMysteryOptions, when the action point or the choice spent on it counts
\* more than the choice it opens
LEMMA OfferFacts ==
  ASSUME TypeOK, IInv, status = "active", NEW a, Playing(darkness, a),
         Offer(activeIdx, a, used), 3 * a[activeIdx] + 1 < 3 * ap[activeIdx] + Waiting
  PROVE  Proceeds
<1> DEFINE f == (IF "free_move" \in used THEN 0 ELSE 1) + (IF "turn" \in used THEN 0 ELSE 1)
<1>1. /\ a[activeIdx] \in Nat /\ ap[activeIdx] \in Nat /\ activeIdx \in Seats
      /\ Waiting \in Nat /\ darkness \in Nat /\ used \subseteq {"free_move", "turn"}
      /\ f \in Nat
  BY Turn DEF Playing, Waiting
<1>2. Left = 3 * ap[activeIdx] + f + Waiting
  BY <1>1 DEF Left, Flag
<1> HIDE DEF f
<1>3. CASE pending' = Choice("mystery_option", activeIdx) /\ Stay(darkness, a, used)
  <2>1. Waiting' = 1
    BY <1>3 DEF Waiting, Choice
  <2>2. Left' = 3 * a[activeIdx] + f + 1
    BY <1>1, <1>3, <2>1, StayLeft DEF f
  <2>3. /\ pending' \in [kind : {"none", "mystery_card", "mystery_option"}, player : Seats]
        /\ pending'.player = activeIdx /\ pending' # NoChoice
    BY <1>1, <1>3 DEF Choice, NoChoice
  <2>4. TypeOK' /\ IInv'
    BY <1>1, <1>3, <2>3, StayFacts
  <2>5. darkness' = darkness /\ turnsTaken' = turnsTaken /\ firstIdx' = firstIdx
    BY <1>3 DEF Stay, place
  <2>6. Left' < Left
    <3> DEFINE x == a[activeIdx]  y == ap[activeIdx]  w == Waiting
    <3>1. x \in Nat /\ y \in Nat /\ w \in Nat /\ f \in Nat /\ 3 * x + 1 < 3 * y + w
      BY <1>1
    <3>2. Left = 3 * y + f + w /\ Left' = 3 * x + f + 1
      BY <1>2, <2>2
    <3> HIDE DEF x, y, w
    <3> QED BY <3>1, <3>2
  <2> QED BY <2>4, <2>5, <2>6 DEF Proceeds
<1>4. CASE pending' = NoChoice /\ AutoEndTurn(activeIdx, darkness, a, used)
  <2>1. Waiting' = 0
    BY <1>4 DEF Waiting, NoChoice
  <2>2. Stay(darkness, a, used) => Left' < Left
    <3> SUFFICES ASSUME Stay(darkness, a, used) PROVE Left' < Left
      OBVIOUS
    <3>1. Left' = 3 * a[activeIdx] + f + 0
      BY <1>1, <2>1, StayLeft DEF f
    <3> QED BY <1>1, <1>2, <3>1
  <2> QED BY <1>1, <1>4, <2>2, AutoEndTurnFacts
<1> QED BY <1>3, <1>4 DEF Offer

\* A command of the player whose turn it is
LEMMA CommandProceeds ==
  ASSUME TypeOK, IInv, NEW p \in Seats, Command(p)
  PROVE  Proceeds /\ status = "active"
<1> DEFINE F(u) == (IF "free_move" \in u THEN 0 ELSE 1) + (IF "turn" \in u THEN 0 ELSE 1)
<1>1. status = "active" /\ phase = "player" /\ p = activeIdx
  BY DEF Command, Act, FreeMove, FreeExplore, GatherCrystal, CompleteComponent,
     Investigate, EndTurnCommand, ChooseCard, ChooseOption, MayAct, MayChoose,
     Choice, NoChoice, IInv, ChoiceIsActives
<1>2. /\ darkness \in 0 .. MaxDarkness - 1 /\ repaired \in 0 .. Components - 1
      /\ ap \in [Seats -> 0 .. ActionPoints] /\ activeIdx \in Seats
      /\ \A q \in Seats : q # activeIdx => ap[q] = 0
      /\ used \subseteq {"free_move", "turn"} /\ ap[activeIdx] \in Nat
  BY <1>1, Turn
<1>3. /\ Left = 3 * ap[activeIdx] + F(used) + Waiting
      /\ \A d, a, u : Stay(d, a, u) /\ a[activeIdx] \in Nat =>
           Left' = 3 * a[activeIdx] + F(u) + Waiting'
      /\ \A u : F(u) \in Nat
  <2>1. Left = 3 * ap[activeIdx] + F(used) + Waiting /\ \A u : F(u) \in Nat
    BY <1>2 DEF Left, Flag, Waiting
  <2>2. ASSUME NEW d, NEW a, NEW u, Stay(d, a, u), a[activeIdx] \in Nat
        PROVE  Left' = 3 * a[activeIdx] + F(u) + Waiting'
    <3>1. Waiting' \in Nat
      BY DEF Waiting
    <3> QED BY <2>2, <3>1, StayLeft
  <2> QED BY <2>1, <2>2
<1>4. /\ Waiting \in Nat /\ Waiting' \in Nat
      /\ pending = NoChoice => Waiting = 0
      /\ pending' = NoChoice => Waiting' = 0
  BY DEF Waiting, NoChoice
<1>5. ap[activeIdx] >= 1 =>
        /\ Spent(p) \in [Seats -> 0 .. ActionPoints]
        /\ Spent(p)[activeIdx] \in Nat
        /\ Spent(p)[activeIdx] = ap[activeIdx] - 1
        /\ \A q \in Seats : q # activeIdx => Spent(p)[q] = 0
  BY <1>1, SpentFacts DEF IInv
<1> HIDE DEF F
<1>15. darkness \in 0 .. MaxDarkness /\ repaired \in 0 .. Components
       /\ GatherRise \in Nat
  BY <1>2
<1>16. ASSUME ap[activeIdx] >= 1, Waiting = 0, NEW d, NEW u, Stay(d, Spent(p), u),
              F(u) + Waiting' < F(used) + 3
       PROVE  Left' < Left
  <2> DEFINE x == Spent(p)[activeIdx]  y == ap[activeIdx]
             fu == F(u)  fv == F(used)  w == Waiting'
  <2>1. /\ x \in Nat /\ y \in Nat /\ fu \in Nat /\ fv \in Nat /\ w \in Nat
        /\ x = y - 1 /\ y >= 1 /\ fu + w < fv + 3
    BY <1>2, <1>3, <1>4, <1>5, <1>16
  <2>2. Left = 3 * y + fv + 0 /\ Left' = 3 * x + fu + w
    BY <1>3, <1>5, <1>16
  <2> HIDE DEF x, y, fu, fv, w
  <2> QED BY <2>1, <2>2
<1>17. ASSUME NEW d, NEW u, Stay(d, ap, u), F(u) + Waiting' < F(used) + Waiting
       PROVE  Left' < Left
  <2> DEFINE y == ap[activeIdx]  fu == F(u)  fv == F(used)
             w == Waiting'  v == Waiting
  <2>1. /\ y \in Nat /\ fu \in Nat /\ fv \in Nat /\ w \in Nat /\ v \in Nat
        /\ fu + w < fv + v
    BY <1>2, <1>3, <1>4, <1>17
  <2>2. Left = 3 * y + fv + v /\ Left' = 3 * y + fu + w
    BY <1>2, <1>3, <1>17
  <2> HIDE DEF y, fu, fv, w, v
  <2> QED BY <2>1, <2>2
<1>18. F(used) \in Nat /\ F(used) + 0 < F(used) + 3 /\ F(used) + 0 < F(used) + 1
  <2> DEFINE fv == F(used)
  <2>1. fv \in Nat
    BY <1>3
  <2> HIDE DEF fv
  <2>2. fv + 0 < fv + 3 /\ fv + 0 < fv + 1
    BY <2>1
  <2> QED BY <2>1, <2>2 DEF fv
<1>6. CASE Act(p)
  <2>1. /\ ap[activeIdx] >= 1 /\ pending = NoChoice /\ pending' = pending
        /\ repaired' = repaired /\ AutoEndTurn(activeIdx, darkness, Spent(p), used)
    BY <1>1, <1>6 DEF Act, MayAct
  <2>2. Playing(darkness, Spent(p))
    BY <1>1, <1>2, <1>5, <2>1 DEF Playing
  <2>3. Stay(darkness, Spent(p), used) => Left' < Left
    BY <1>4, <1>16, <1>18, <2>1
  <2> QED BY <1>1, <1>2, <2>1, <2>2, <2>3, AutoEndTurnFacts
<1>7. CASE FreeMove(p)
  <2>1. /\ "free_move" \notin used /\ pending = NoChoice /\ pending' = pending
        /\ repaired' = repaired
        /\ AutoEndTurn(activeIdx, darkness, ap, used \cup {"free_move"})
    BY <1>1, <1>7 DEF FreeMove, MayAct
  <2>2. Playing(darkness, ap)
    BY <1>1, <1>2, <2>1 DEF Playing
  <2>3. F(used \cup {"free_move"}) + 0 < F(used) + 0
    BY <2>1 DEF F
  <2>4. Stay(darkness, ap, used \cup {"free_move"}) => Left' < Left
    BY <1>4, <1>17, <2>1, <2>3
  <2> QED BY <1>1, <1>2, <2>1, <2>2, <2>4, AutoEndTurnFacts
<1>8. CASE FreeExplore(p)
  <2>1. /\ "turn" \notin used /\ pending = NoChoice /\ pending' = pending
        /\ repaired' = repaired
        /\ AutoEndTurn(activeIdx, darkness, ap, used \cup {"turn"})
    BY <1>1, <1>8 DEF FreeExplore, MayAct
  <2>2. Playing(darkness, ap)
    BY <1>1, <1>2, <2>1 DEF Playing
  <2>3. F(used \cup {"turn"}) + 0 < F(used) + 0
    BY <2>1 DEF F
  <2>4. Stay(darkness, ap, used \cup {"turn"}) => Left' < Left
    BY <1>4, <1>17, <2>1, <2>3
  <2> QED BY <1>1, <1>2, <2>1, <2>2, <2>4, AutoEndTurnFacts
<1>9. CASE GatherCrystal(p)
  <2> DEFINE d == Raised(darkness, GatherRise)
  <2>1. /\ ap[activeIdx] >= 1 /\ pending = NoChoice /\ pending' = pending
        /\ repaired' = repaired /\ Conclude(activeIdx, d, Spent(p), used)
    BY <1>1, <1>9 DEF GatherCrystal, MayAct
  <2>2. d \in 0 .. MaxDarkness /\ darkness <= d
    BY <1>15, RaisedFacts
  <2>3. Stay(d, Spent(p), used) => Left' < Left
    BY <1>4, <1>16, <1>18, <2>1
  <2>4. /\ Spent(p) \in [Seats -> 0 .. ActionPoints]
        /\ \A q \in Seats : q # activeIdx => Spent(p)[q] = 0
        /\ repaired' \in 0 .. Components /\ pending' = NoChoice
        /\ darkness \in 0 .. MaxDarkness /\ darkness <= darkness
    BY <1>2, <1>5, <1>15, <2>1, <2>2
  <2> QED BY <1>1, <1>2, <2>1, <2>2, <2>3, <2>4, ConcludeFacts, Zenon
<1>10. CASE CompleteComponent(p)
  <2>1. /\ ap[activeIdx] >= 1 /\ pending = NoChoice /\ pending' = pending
        /\ repaired' = repaired + 1 /\ Conclude(activeIdx, darkness, Spent(p), used)
    BY <1>1, <1>10 DEF CompleteComponent, MayAct
  <2>2. darkness \in 0 .. MaxDarkness /\ repaired' \in 0 .. Components
    BY <1>2, <2>1
  <2>3. Stay(darkness, Spent(p), used) => Left' < Left
    BY <1>4, <1>16, <1>18, <2>1
  <2>4. /\ Spent(p) \in [Seats -> 0 .. ActionPoints]
        /\ \A q \in Seats : q # activeIdx => Spent(p)[q] = 0
        /\ repaired' \in 0 .. Components /\ pending' = NoChoice
        /\ darkness \in 0 .. MaxDarkness /\ darkness <= darkness
    BY <1>2, <1>5, <1>15, <2>1, <2>2
  <2> QED BY <1>1, <1>2, <2>1, <2>2, <2>3, <2>4, ConcludeFacts, Zenon
<1>11. CASE Investigate(p)
  <2>1. ap[activeIdx] >= 1 /\ pending = NoChoice /\ repaired' = repaired
    BY <1>1, <1>11 DEF Investigate, MayAct
  <2>2. Playing(darkness, Spent(p))
    BY <1>1, <1>2, <1>5, <2>1 DEF Playing
  <2>3. CASE Offer(p, Spent(p), used)
    <3>1. 3 * Spent(p)[activeIdx] + 1 < 3 * ap[activeIdx] + Waiting
      BY <1>2, <1>4, <1>5, <2>1
    <3> QED BY <1>1, <2>2, <2>3, <3>1, OfferFacts
  <2>4. CASE /\ "turn" \notin used /\ pending' = Choice("mystery_card", p)
             /\ Stay(darkness, Spent(p), used \cup {"turn"})
    <3>1. Waiting' = 2
      BY <2>4 DEF Waiting, Choice
    <3>2. F(used \cup {"turn"}) + 2 < F(used) + 3
      BY <2>4 DEF F
    <3>3. Left' < Left
      BY <1>4, <1>16, <2>1, <2>4, <3>1, <3>2
    <3>4. /\ pending' \in [kind : {"none", "mystery_card", "mystery_option"}, player : Seats]
          /\ pending'.player = activeIdx /\ pending' # NoChoice
      BY <1>1, <2>4 DEF Choice, NoChoice
    <3>5. TypeOK' /\ IInv'
      BY <1>2, <2>2, <2>4, <3>4, StayFacts
    <3>6. darkness' = darkness /\ turnsTaken' = turnsTaken /\ firstIdx' = firstIdx
      BY <2>4 DEF Stay, place
    <3> QED BY <1>1, <3>3, <3>5, <3>6 DEF Proceeds
  <2> QED BY <1>11, <2>3, <2>4 DEF Investigate
<1>12. CASE EndTurnCommand(p)
  <2>1. /\ pending' = NoChoice /\ repaired' = repaired /\ EndTurn(darkness, ap)
    BY <1>12 DEF EndTurnCommand, MayAct
  <2>2. Playing(darkness, ap)
    BY <1>1, <1>2, <2>1 DEF Playing
  <2> QED BY <1>1, <2>1, <2>2, EndTurnFacts DEF Proceeds
<1>13. CASE ChooseCard(p)
  <2>1. pending = Choice("mystery_card", p) /\ repaired' = repaired
        /\ Offer(p, ap, used)
    BY <1>13 DEF ChooseCard, MayChoose
  <2>2. Waiting = 2
    BY <2>1 DEF Waiting, Choice
  <2>3. Playing(darkness, ap)
    BY <1>1, <1>2, <2>1 DEF Playing
  <2> QED BY <1>1, <1>2, <2>1, <2>2, <2>3, OfferFacts
<1>14. CASE ChooseOption(p)
  <2>1. PICK k \in CardRises : Conclude(p, Raised(darkness, k), ap, used)
    BY <1>14 DEF ChooseOption
  <2>2. /\ pending = Choice("mystery_option", p) /\ pending' = NoChoice
        /\ repaired' = repaired
    BY <1>14 DEF ChooseOption, MayChoose
  <2>3. Waiting = 1
    BY <2>2 DEF Waiting, Choice
  <2>4. Raised(darkness, k) \in 0 .. MaxDarkness /\ darkness <= Raised(darkness, k)
    BY <1>15, RaisedFacts
  <2>5. Stay(Raised(darkness, k), ap, used) => Left' < Left
    BY <1>4, <1>17, <1>18, <2>2, <2>3
  <2>6. repaired' \in 0 .. Components
    BY <1>15, <2>2
  <2> QED BY <1>1, <1>2, <2>1, <2>2, <2>4, <2>5, <2>6, ConcludeFacts, Zenon
<1> QED
  BY <1>1, <1>6, <1>7, <1>8, <1>9, <1>10, <1>11, <1>12, <1>13, <1>14 DEF Command

-----------------------------------------------------------------------------
(* The theorems.                                                           *)

LEMMA Initially == Init => TypeOK /\ IInv
<1> SUFFICES ASSUME Init PROVE TypeOK /\ IInv
  OBVIOUS
<1>1. 0 \in Seats /\ ap \in [Seats -> 0 .. ActionPoints]
  BY DEF Init
<1>2. TypeOK
  BY <1>1, NoChoiceTyped DEF Init, TypeOK
<1>3. IInv
  BY <1>1 DEF Init, IInv, TurnOrderKept, OnlyActiveHasAP, NeverStuck,
     ChoiceIsActives, EndIsNoticed, SetupInv
<1> QED BY <1>2, <1>3

LEMMA NewGameFacts ==
  ASSUME TypeOK, IInv, NewGame
  PROVE  TypeOK' /\ IInv' /\ firstIdx' = firstIdx
<1>1. /\ ap \in [Seats -> 0 .. ActionPoints] /\ \A q \in Seats : ap[q] = 0
      /\ firstIdx \in Seats /\ darkness \in 0 .. MaxDarkness
      /\ repaired \in 0 .. Components - 1 /\ pending = NoChoice
  BY DEF NewGame, TypeOK, IInv, SetupInv, OnlyActiveHasAP
<1>2. /\ repaired' \in 0 .. Components - 1 /\ pending' = NoChoice
      /\ BeginRound(firstIdx, darkness, ap)
  BY <1>1 DEF NewGame
<1> QED BY <1>1, <1>2, BeginRoundFacts

\* A step that changes nothing
LEMMA Stutter == TypeOK /\ IInv /\ UNCHANGED vars => TypeOK' /\ IInv'
BY DEF vars, TypeOK, IInv, TurnOrderKept, OnlyActiveHasAP, NeverStuck,
   ChoiceIsActives, EndIsNoticed, SetupInv, Behind

LEMMA Inductive == TypeOK /\ IInv /\ [Next]_vars => TypeOK' /\ IInv'
BY NewGameFacts, CommandProceeds, Stutter DEF Next, Proceeds

\* Whose turn it is, who has action points, who has to choose, and whether the
\* match is over agree in every reachable state, for every number of players
\* and every content that leaves a turn at least one action point.
THEOREM Rules ==
  Spec => [](/\ TypeOK /\ TurnOrderKept /\ OnlyActiveHasAP /\ NeverStuck
             /\ ChoiceIsActives /\ EndIsNoticed)
<1>1. IInv => /\ TurnOrderKept /\ OnlyActiveHasAP /\ NeverStuck
              /\ ChoiceIsActives /\ EndIsNoticed
  BY DEF IInv
<1> QED BY <1>1, Initially, Inductive, PTL DEF Spec

\* While the match goes on somebody can act or has to choose, nobody but the
\* active player has action points, and only that player is ever asked to
\* choose: endTurn, autoEndTurn and the choice handlers agree on whose move it is.
THEOREM ActiveMoves == Spec => []ActiveCanMove
<1>1. OnlyActiveHasAP /\ NeverStuck /\ ChoiceIsActives => ActiveCanMove
  BY DEF ActiveCanMove
<1> QED BY <1>1, Rules, PTL

\* No rise of Darkness and no completed component gets past the check of the
\* end: status says exactly what darkness and the lighthouse say.
THEOREM EndNoticed == Spec => []EndIsNoticed
BY Rules, PTL

\* Every player has exactly one turn in every round.
THEOREM OneTurnEach == Spec => EveryoneOnce
<1>1. TypeOK /\ IInv /\ [Next]_vars =>
        [firstIdx' # firstIdx =>
           played \cup {activeIdx} = Seats /\ activeIdx \notin played]_vars
  BY NewGameFacts, CommandProceeds DEF Next, Proceeds
<1> QED BY <1>1, Initially, Inductive, PTL DEF Spec, EveryoneOnce

\* Every accepted command brings the match closer to its end.
THEOREM AlwaysProgress == Spec => Progress
<1>1. TypeOK /\ IInv /\ [Next]_vars =>
        [status = "active" =>
           \/ status' # "active"
           \/ darkness' > darkness
           \/ darkness' = darkness /\ turnsTaken' > turnsTaken
           \/ darkness' = darkness /\ turnsTaken' = turnsTaken /\ Left' < Left]_vars
  BY CommandProceeds DEF Next, Proceeds, NewGame
<1> QED BY <1>1, Initially, Inductive, PTL DEF Spec, Progress
=============================================================================

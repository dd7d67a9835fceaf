----------------------------- MODULE TurnEngine -----------------------------
(***************************************************************************)
(* The phase machine of the rules: whose turn it is, when a turn and a     *)
(* round end, how Darkness rises and when the match is over                *)
(* (src/core/phase.go, and what decide.go and decide_m1.go do to turns).   *)
(*                                                                         *)
(* One action per accepted command, with everything Decide makes of it: a  *)
(* command that spends the last action point ends the turn, the last turn  *)
(* ends the round, and the same batch of events then runs the monsters,    *)
(* raises Darkness, draws the event card and opens the next turn.  The     *)
(* board, the resources and the monsters are left out; of the cards only   *)
(* what they do to Darkness is kept.  A player is its index in TurnOrder.  *)
(* Rejected commands change nothing and are no actions.                    *)
(***************************************************************************)
EXTENDS Naturals

CONSTANTS
  N,              \* number of players
  StartDarkness, MaxDarkness, Rise,   \* darkness.json
  ActionPoints,   \* action points of a turn, before the penalty
  PenaltyAt, Penalty,                 \* the ap_penalty threshold
  GatherRise,     \* darkness_on_gather of the crystal location
  CardRises,      \* how much Darkness an event or mystery card can bring
  Components,     \* number of lighthouse components
  Character       \* the ability of each player

TurnAP(d) == IF d >= PenaltyAt THEN ActionPoints - Penalty ELSE ActionPoints

\* The last conjunct holds for the content shipped; startTurn would skip the
\* turns of players without action points.
ASSUME ContentAssumption ==
  /\ N \in Nat \ {0} /\ Components \in Nat \ {0} /\ Rise \in Nat \ {0}
  /\ StartDarkness \in Nat /\ MaxDarkness \in Nat /\ StartDarkness < MaxDarkness
  /\ GatherRise \in Nat /\ CardRises \subseteq Nat /\ CardRises # {}
  /\ PenaltyAt \in Nat
  /\ Character \in [0 .. N - 1 -> {"pathfinder", "ancient_knowledge", "other"}]
  /\ ActionPoints \in Nat /\ Penalty \in Nat /\ Penalty < ActionPoints

Seats == 0 .. N - 1

VARIABLES
  status,      \* s.Status; "setup" before NewGame
  phase,       \* s.Phase
  firstIdx,    \* s.FirstIdx, the First Player token
  activeIdx,   \* s.ActiveIdx
  turnsTaken,  \* s.TurnsTaken in this round
  darkness,    \* s.Darkness
  ap,          \* action points of each player
  used,        \* the once-per-turn flags set for the active player
  pending,     \* s.Pending
  repaired,    \* lighthouse components repaired, always the first ones
  played       \* history: who has ended a turn in this round

place == <<status, phase, firstIdx, activeIdx, turnsTaken, played>>
vars  == <<status, phase, firstIdx, activeIdx, turnsTaken, darkness, ap, used,
           pending, repaired, played>>

-----------------------------------------------------------------------------
NoChoice == [kind |-> "none", player |-> 0]
Choice(k, p) == [kind |-> k, player |-> p]

Succ(i) == IF i + 1 < N THEN i + 1 ELSE 0

\* raiseDarkness
Raised_ClampsBelow(d, n) == IF d + n < MaxDarkness THEN d + n ELSE MaxDarkness - 1   \* mutant
Raised(d, n) == IF d + n > MaxDarkness THEN MaxDarkness ELSE d + n

\* checkEnd: Darkness is looked at first.
Verdict_OffByOne(d, r) ==                                          \* mutant
  IF d > MaxDarkness THEN "lost" ELSE IF r = Components THEN "won" ELSE "active"
Verdict(d, r) ==
  IF d >= MaxDarkness THEN "lost" ELSE IF r = Components THEN "won" ELSE "active"

Init ==
  /\ status = "setup" /\ phase = "setup"
  /\ firstIdx = 0 /\ activeIdx = 0 /\ turnsTaken = 0 /\ played = {}
  /\ darkness = StartDarkness /\ ap = [p \in Seats |-> 0] /\ used = {}
  /\ pending = NoChoice /\ repaired = 0

-----------------------------------------------------------------------------
(* The phase machine.  d, a and u are Darkness, the action points and the  *)
(* flags after what the command itself did.                                *)

\* mutant: the turn is opened for the seat that is active already
StartTurn_SameSeat(i, d, a) ==
  /\ activeIdx' = activeIdx
  /\ ap' = [a EXCEPT ![activeIdx] = TurnAP(d)]
  /\ used' = {}

StartTurn(i, d, a) ==
  /\ activeIdx' = i
  /\ ap' = [a EXCEPT ![i] = TurnAP(d)]
  /\ used' = {}

\* beginRound and runEventPhase: the event card may end the match.
BeginRound(first, d, a) ==
  /\ firstIdx' = first /\ turnsTaken' = 0 /\ played' = {}
  /\ \E k \in CardRises :
       /\ darkness' = Raised(d, k)
       /\ status' = Verdict(darkness', repaired')
  /\ IF status' = "active"
       THEN phase' = "player" /\ StartTurn(first, darkness', a)
       ELSE phase' = "event" /\ ap' = a /\ UNCHANGED <<activeIdx, used>>

\* The monsters move, Darkness rises, and the end is checked.
EndRound(d, a) ==
  LET e == Raised(d, Rise) IN
  IF Verdict(e, repaired') = "active"
    THEN BeginRound(Succ(firstIdx), e, a)
    ELSE /\ status' = Verdict(e, repaired') /\ phase' = "darkness"
         /\ darkness' = e /\ ap' = a
         /\ turnsTaken' = turnsTaken + 1 /\ played' = played \cup {activeIdx}
         /\ UNCHANGED <<firstIdx, activeIdx, used>>

Ended_KeepsAP(a) == a                                              \* mutant
Ended(a) == [a EXCEPT ![activeIdx] = 0]

MoreTurns_OffByOne(t) == t + 2 < N                                 \* mutant
MoreTurns(t) == t + 1 < N

EndTurn(d, a) ==
  IF MoreTurns(turnsTaken)
    THEN /\ turnsTaken' = turnsTaken + 1 /\ played' = played \cup {activeIdx}
         /\ StartTurn(Succ(activeIdx), d, Ended(a))
         /\ darkness' = d
         /\ UNCHANGED <<status, phase, firstIdx>>
    ELSE EndRound(d, Ended(a))

Stay(d, a, u) == darkness' = d /\ ap' = a /\ used' = u /\ UNCHANGED place

OutOfAP_Never(p, a) == p # activeIdx                               \* mutant
OutOfAP(p, a) == p = activeIdx /\ a[p] = 0

\* autoEndTurn, when nothing is pending any more
AutoEndTurn(p, d, a, u) ==
  IF OutOfAP(p, a) THEN EndTurn(d, a) ELSE Stay(d, a, u)

\* The command itself may have ended the match.
Conclude(p, d, a, u) ==
  IF Verdict(d, repaired') = "active"
    THEN AutoEndTurn(p, d, a, u)
    ELSE /\ status' = Verdict(d, repaired') /\ darkness' = d /\ ap' = a /\ used' = u
         /\ UNCHANGED <<phase, firstIdx, activeIdx, turnsTaken, played>>

-----------------------------------------------------------------------------
(* The commands Decide accepts.                                            *)

NewGame ==
  /\ status = "setup"
  /\ UNCHANGED <<pending, repaired>>
  /\ BeginRound(firstIdx, darkness, ap)

\* Every command but a choice waits for the pending choice and one's turn.
MayAct(p) ==
  /\ status = "active" /\ phase = "player" /\ pending = NoChoice
  /\ p = activeIdx

Spent_Nothing(p) == ap                                             \* mutant
Spent(p) == [ap EXCEPT ![p] = @ - 1]

\* Move, gather, repair, rest, explore, fight and trade, unless they end here
\* with one of the effects below.
Act(p) ==
  /\ MayAct(p) /\ ap[p] >= 1
  /\ UNCHANGED <<pending, repaired>>
  /\ AutoEndTurn(p, darkness, Spent(p), used)

\* A move with the free_move_per_turn artifact
FreeMove(p) ==
  /\ MayAct(p) /\ ap[p] >= 1 /\ "free_move" \notin used
  /\ UNCHANGED <<pending, repaired>>
  /\ AutoEndTurn(p, darkness, ap, used \cup {"free_move"})

\* The Navigator's first explore of a turn
FreeExplore(p) ==
  /\ MayAct(p) /\ ap[p] >= 1 /\ "turn" \notin used
  /\ Character[p] = "pathfinder"
  /\ UNCHANGED <<pending, repaired>>
  /\ AutoEndTurn(p, darkness, ap, used \cup {"turn"})

\* Gathering crystal raises Darkness, and may lose the match at once.
GatherCrystal(p) ==
  /\ MayAct(p) /\ ap[p] >= 1
  /\ UNCHANGED <<pending, repaired>>
  /\ Conclude(p, Raised(darkness, GatherRise), Spent(p), used)

\* A repair that completes the next component, and wins with the last one
CompleteComponent(p) ==
  /\ MayAct(p) /\ ap[p] >= 1
  /\ repaired' = repaired + 1
  /\ UNCHANGED pending
  /\ Conclude(p, darkness, Spent(p), used)

\* mutant: the turn is ended although a choice is pending
Offer_EndsTurn(p, a, u) ==
  /\ \/ pending' = Choice("mystery_option", p)
     \/ pending' = NoChoice
  /\ AutoEndTurn(p, darkness, a, u)

\* offerMysteryOptions: the game waits for an answer, or the card is discarded
\* because the player can afford none of its options.
Offer(p, a, u) ==
  \/ pending' = Choice("mystery_option", p) /\ Stay(darkness, a, u)
  \/ pending' = NoChoice /\ AutoEndTurn(p, darkness, a, u)

\* The Scholar sees two cards once per turn, if there are two.
Investigate(p) ==
  /\ MayAct(p) /\ ap[p] >= 1
  /\ UNCHANGED repaired
  /\ \/ Offer(p, Spent(p), used)
     \/ /\ Character[p] = "ancient_knowledge" /\ "turn" \notin used
        /\ pending' = Choice("mystery_card", p)
        /\ Stay(darkness, Spent(p), used \cup {"turn"})

EndTurnCommand(p) ==
  /\ MayAct(p)
  /\ UNCHANGED <<pending, repaired>>
  /\ EndTurn(darkness, ap)

MayChoose(p, kind) ==
  status = "active" /\ phase = "player" /\ pending = Choice(kind, p)

ChooseCard(p) ==
  /\ MayChoose(p, "mystery_card")
  /\ UNCHANGED repaired
  /\ Offer(p, ap, used)

ChooseOption(p) ==
  /\ MayChoose(p, "mystery_option")
  /\ pending' = NoChoice
  /\ UNCHANGED repaired
  /\ \E k \in CardRises : Conclude(p, Raised(darkness, k), ap, used)

-----------------------------------------------------------------------------
Command(p) ==
  \/ Act(p) \/ FreeMove(p) \/ FreeExplore(p) \/ GatherCrystal(p)
  \/ CompleteComponent(p) \/ Investigate(p) \/ EndTurnCommand(p)
  \/ ChooseCard(p) \/ ChooseOption(p)

Next == NewGame \/ \E p \in Seats : Command(p)

\* The actor moves for a player who lets the turn time out.
Spec == Init /\ [][Next]_vars /\ WF_vars(Next)

-----------------------------------------------------------------------------
(* Properties.                                                             *)

Over == status \in {"won", "lost"}

\* Every variable keeps to its type; in particular the indices stay inside
\* TurnOrder.
TypeOK ==
  /\ status \in {"setup", "active", "won", "lost"}
  /\ phase \in {"setup", "event", "player", "darkness"}
  /\ firstIdx \in Seats /\ activeIdx \in Seats /\ turnsTaken \in 0 .. N
  /\ darkness \in 0 .. MaxDarkness
  /\ ap \in [Seats -> 0 .. ActionPoints]
  /\ used \subseteq {"free_move", "turn"}
  /\ pending \in [kind : {"none", "mystery_card", "mystery_option"}, player : Seats]
  /\ repaired \in 0 .. Components
  /\ played \subseteq Seats

\* The seat that is t turns behind seat f
Behind(f, t) == IF f + t < N THEN f + t ELSE f + t - N

\* Turns go round the table from the First Player: in the player phase the
\* active player sits TurnsTaken seats behind it, and exactly the seats between
\* them have played.
TurnOrderKept ==
  status = "active" =>
    /\ turnsTaken < N
    /\ activeIdx = Behind(firstIdx, turnsTaken)
    /\ played = {Behind(firstIdx, t) : t \in 0 .. turnsTaken - 1}

\* Nobody keeps action points after the turn ended.
OnlyActiveHasAP == \A p \in Seats : p # activeIdx => ap[p] = 0

\* While the match goes on it is in the player phase, and the active player
\* has an action point or a choice to make: nobody is made to press "end turn"
\* on a turn that is spent, and nobody is stuck in one.
NeverStuck ==
  status = "active" =>
    phase = "player" /\ (pending = NoChoice => ap[activeIdx] >= 1)

\* A pending choice holds up the whole game, so it must belong to the player
\* whose turn it is, and never outlive the match.
ChoiceIsActives ==
  pending # NoChoice => status = "active" /\ pending.player = activeIdx

\* Together: the game is always somebody's to move, and of one player only.
ActiveCanMove == OnlyActiveHasAP /\ NeverStuck /\ ChoiceIsActives

\* Whatever raises Darkness or completes a component checks the end: a match
\* goes on only below the limit and with a component left, is lost exactly at
\* the limit and won only with the lighthouse complete.
EndIsNoticed ==
  /\ status = "active" => darkness < MaxDarkness /\ repaired < Components
  /\ status = "lost" => darkness = MaxDarkness
  /\ status = "won" => repaired = Components /\ darkness < MaxDarkness

\* When the First Player token moves on, everybody has had exactly one turn.
EveryoneOnce ==
  [][ firstIdx' # firstIdx =>
        played \cup {activeIdx} = Seats /\ activeIdx \notin played ]_vars

\* What is left of a turn: action points count for three, because an
\* investigation can still lead to two choices.
Flag(f) == IF f \in used THEN 0 ELSE 1
Waiting == IF pending.kind = "mystery_card" THEN 2
           ELSE IF pending.kind = "mystery_option" THEN 1 ELSE 0
Left == 3 * ap[activeIdx] + Flag("free_move") + Flag("turn") + Waiting

\* No accepted command leaves the match where it was: it brings the end, more
\* Darkness, the next turn, or a shorter turn.  No legal sequence of commands
\* is endless.
Progress ==
  [][ status = "active" =>
        \/ status' # "active"
        \/ darkness' > darkness
        \/ darkness' = darkness /\ turnsTaken' > turnsTaken
        \/ darkness' = darkness /\ turnsTaken' = turnsTaken /\ Left' < Left ]_vars

\* If somebody, the player or the timeout, always makes some move, the match
\* comes to an end.
Ends == <> Over

-----------------------------------------------------------------------------
(* The inductive invariant behind the safety properties.                   *)

SetupInv ==
  status = "setup" =>
    /\ darkness < MaxDarkness /\ repaired < Components
    /\ ap[activeIdx] = 0 /\ pending = NoChoice

IInv ==
  /\ TurnOrderKept /\ OnlyActiveHasAP /\ NeverStuck /\ ChoiceIsActives
  /\ EndIsNoticed /\ SetupInv
=============================================================================

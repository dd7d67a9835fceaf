---------------------------- MODULE MCExpedition ----------------------------
(* A small island for the run of Expedition: the lighthouse and a mine.    *)
EXTENDS Expedition

CONSTANTS p1, p2

Two == {p1, p2}
Island == {"lighthouse", "mine"}
Everywhere == [l \in Island |-> Island \ {l}]
Bag(w, m) == [r \in Resources |-> CASE r = 0 -> w [] r = 1 -> m [] OTHER -> 0]
MineYields == [l \in Island |-> IF l = "mine" THEN Bag(2, 0) ELSE Nothing]
Tags == [l \in Island |-> IF l = "mine" THEN "underground" ELSE "none"]

Effect(op, r, n, tag) == [op |-> op, res |-> r, amount |-> n, tag |-> tag]

\* Cards of events.json and mysteries.json, one of each kind
SomeEvents ==
  { <<Effect("damage_at_tag", 0, 1, "underground")>>,
    <<Effect("restock", 0, 2, "underground")>>,
    <<Effect("grant_all", 1, 1, "none")>>,
    <<Effect("heal_all", 0, 1, "none")>>,
    <<Effect("damage_all", 0, 1, "none")>> }
SomeMysteries ==
  { { <<Effect("gain_resource", 0, 2, "none"), Effect("damage", 0, 1, "none")>>,
      <<Effect("pay_resource", 1, 1, "none"), Effect("heal_all", 0, 1, "none")>>,
      <<Effect("gain_artifact", 0, 0, "none"), Effect("damage", 0, 1, "none")>> } }

TwoCosts == <<Bag(1, 1), Bag(1, 0)>>
TwoVP == <<3, 2>>
=============================================================================

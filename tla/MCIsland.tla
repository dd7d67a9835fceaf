------------------------------ MODULE MCIsland ------------------------------
\* Island on a map of five places, two of them to be explored; the way from
\* the tower to the cave and the places behind it has two equal branches.
EXTENDS Island

MCPlaces == <<"tower", "village", "cave", "siteA", "siteB">>
MCAdjacent ==
  [tower   |-> <<"village">>,
   village |-> <<"tower", "cave", "siteB">>,
   cave    |-> <<"village", "siteA">>,
   siteA   |-> <<"cave", "siteB">>,
   siteB   |-> <<"village", "siteA">>]
MCMapKind == [tower |-> "lighthouse", village |-> "hamlet", cave |-> "lair"]
MCTileStack == <<"field", "field", "crystal">>
MCTable == <<"ana", "bo">>
MCTurnOrder == <<"bo", "ana">>

\* Makes TLC evaluate the table of distances once.
ASSUME DistancesAssumption == Distances \in [SUBSET Loc -> [Loc -> [Loc -> Nat]]]
=============================================================================

------------------------------ MODULE MCDecks -------------------------------
\* Decks for a scholar and another player.
EXTENDS Decks

MCTurnOrder == <<"ana", "bo">>
=============================================================================

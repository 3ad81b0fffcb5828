------------------------------ MODULE MCDecks -------------------------------
(* Values for the constants of Decks: six cards. *)
EXTENDS Decks

SixCards == {"c1", "c2", "c3", "c4", "c5", "c6"}
InOrder == <<"c1", "c2", "c3", "c4", "c5", "c6">>
=============================================================================

--------------------------- MODULE MCGroupSession ---------------------------
(***************************************************************************)
(* Instances of GroupSession for TLC.                                      *)
(***************************************************************************)
EXTENDS GroupSessionProperties, TLC

CONSTANTS host, guest, friend, d1, d2, d3, c0, c1, c2

\* Decks.
OneCard == {<<d1>>}
TwoCards == {<<d1, d2>>}
TheOtherTwo == {<<d2, d1>>}
ShortDeck == {<<d2>>}
LongDeck == {<<d2, d1, d3>>}

\* The two guests of a host do the same things.
Guests == Permutations({guest, friend})
=============================================================================

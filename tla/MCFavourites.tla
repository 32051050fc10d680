---------------------------- MODULE MCFavourites ----------------------------
(* Three dinners to favour.                                                *)
EXTENDS Favourites
CONSTANTS d1, d2, d3
=============================================================================

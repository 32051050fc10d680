---------------------------- MODULE MCSingleUser ----------------------------
(***************************************************************************)
(* Three dinners and two allergens.  As in the five dinners that the app   *)
(* ships, all name dairy.                                                  *)
(***************************************************************************)
EXTENDS SingleUser, TLC

CONSTANTS d1, d2, d3, dairy, soy

ThreeDinners == <<d1, d2, d3>>
Every == d1 :> {dairy} @@ d2 :> {dairy, soy} @@ d3 :> {dairy}
=============================================================================

---------------------------- MODULE MCTallyLoop -----------------------------
(* Three voters, two dinners, lists that may repeat a dinner.              *)
EXTENDS TallyLoop
CONSTANTS v1, v2, v3, d1, d2
=============================================================================

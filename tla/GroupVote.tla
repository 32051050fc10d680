------------------------------ MODULE GroupVote -----------------------------
(***************************************************************************)
(* What a session promises its users: everybody casts one ballot, the      *)
(* dinners they swiped right; and once all ballots are cast, each of them  *)
(* may be shown the dinners that are on every ballot, if there are any.    *)
(***************************************************************************)
CONSTANTS Nil, Dinners, Devices

VARIABLES
    ballots,    \* per device: the dinners swiped right, Nil before it has voted
    shown       \* per device: the result on its screen, or Nil

vars == <<ballots, shown>>

Init == /\ ballots = [d \in Devices |-> Nil]
        /\ shown = [d \in Devices |-> Nil]

Agreement == {x \in Dinners : \A d \in Devices : x \in ballots[d]}

Vote(d) ==
    /\ ballots[d] = Nil
    /\ \E ballot \in SUBSET Dinners : ballots' = [ballots EXCEPT ![d] = ballot]
    /\ UNCHANGED shown

ShowResult(d) ==
    /\ \A e \in Devices : ballots[e] # Nil
    /\ shown[d] = Nil
    /\ Agreement # {}
    /\ shown' = [shown EXCEPT ![d] = Agreement]
    /\ UNCHANGED ballots

Next == \E d \in Devices : Vote(d) \/ ShowResult(d)

Spec == Init /\ [][Next]_vars

-----------------------------------------------------------------------------
\* A result is what all ballots agree on, and stays so.
ResultIsOnEveryBallot ==
    \A d, e \in Devices : shown[d] # Nil => ballots[e] # Nil /\ shown[d] \subseteq ballots[e]

\* Nobody sees another result than the others.
SameResultForAll ==
    \A d, e \in Devices : shown[d] # Nil /\ shown[e] # Nil => shown[d] = shown[e]
=============================================================================

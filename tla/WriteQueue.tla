----------------------------- MODULE WriteQueue -----------------------------
(***************************************************************************)
(* What Firestore promises the app about the writes of one client, as the  *)
(* rest of this project uses it: they reach the server in the order in     *)
(* which they were issued, each at least once.  Writes are numbered in the *)
(* order of their issue.                                                   *)
(***************************************************************************)
EXTENDS Integers, Sequences

VARIABLES
    issued,     \* how many writes the app has issued
    settled,    \* how many of them are no longer pending, the oldest first
    ahead,      \* how many pending writes the server has answered already
    applied     \* the writes the server has applied, in that order

vars == <<issued, settled, ahead, applied>>

Init == issued = 0 /\ settled = 0 /\ ahead = 0 /\ applied = <<>>

Issue == /\ issued' = issued + 1
         /\ UNCHANGED <<settled, ahead, applied>>

\* The server may work ahead of the answers the client has seen.
Apply == /\ settled + ahead < issued
         /\ applied' = Append(applied, settled + ahead + 1)
         /\ ahead' = ahead + 1
         /\ UNCHANGED <<issued, settled>>

Acknowledge == /\ ahead > 0
               /\ settled' = settled + 1
               /\ ahead' = ahead - 1
               /\ UNCHANGED <<issued, applied>>

\* The answers under way are lost: those writes will be sent once more.
Disconnect == /\ ahead' = 0
              /\ UNCHANGED <<issued, settled, applied>>

\* A write that is refused for good is dropped, and the connection with it.
Reject == /\ settled < issued
          /\ settled' = settled + 1
          /\ ahead' = 0
          /\ UNCHANGED <<issued, applied>>

\* A client that keeps its queue in memory dies.
Forget == /\ settled' = issued
          /\ ahead' = 0
          /\ UNCHANGED <<issued, applied>>

Next == Issue \/ Apply \/ Acknowledge \/ Disconnect \/ Reject \/ Forget

Spec == Init /\ [][Next]_vars

-----------------------------------------------------------------------------
\* Order: what is applied for the first time has only older writes, or itself,
\* before it.
FirstTime(i) == \A k \in 1..(i - 1) : applied[k] # applied[i]
IssueOrder ==
    \A i \in DOMAIN applied : FirstTime(i) => \A k \in 1..(i - 1) : applied[k] < applied[i]
=============================================================================

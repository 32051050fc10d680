-------------------------- MODULE WriteQueueProofs --------------------------
(***************************************************************************)
(* First applications follow the order of issue, however often connections *)
(* are lost and writes sent again.  What makes it inductive: the pending   *)
(* writes that were applied before are always the oldest ones, without a   *)
(* gap, so the server does not meet a new write before it has met them all *)
(* once more.                                                              *)
(***************************************************************************)
EXTENDS WriteQueue, SequenceTheorems, TLAPS

TypeOK == /\ issued \in Nat /\ settled \in Nat /\ ahead \in Nat
          /\ settled + ahead <= issued
          /\ applied \in Seq(Nat)

WasApplied(n) == \E i \in 1..Len(applied) : applied[i] = n

\* A pending write that is older than an applied one was applied itself.
NoGaps ==
    \A i \in 1..Len(applied) : \A n \in Nat :
        settled < n /\ n < applied[i] => WasApplied(n)

\* And so was what the server is ahead.
AheadWasApplied == \A n \in Nat : settled < n /\ n <= settled + ahead => WasApplied(n)

IInv == TypeOK /\ NoGaps /\ AheadWasApplied /\ IssueOrder

LEMMA OrderStays ==
    ASSUME IInv, UNCHANGED applied
    PROVE  IssueOrder'
BY DEF IInv, IssueOrder, FirstTime

LEMMA WithinTheSame ==
    ASSUME NEW s \in Nat, NEW a \in Nat, NEW t \in Nat, NEW b \in Nat, NEW n \in Nat,
           b = 0 \/ t + b = s + a, t < n, n <= t + b
    PROVE  n <= s + a
OBVIOUS

\* Steps that settle writes leave fewer of them to think of.
LEMMA SettleStep ==
    ASSUME IInv, UNCHANGED applied, issued' \in Nat, settled' \in Nat, ahead' \in Nat,
           settled' + ahead' <= issued', settled' >= settled, ahead' = 0 \/ settled' + ahead' = settled + ahead
    PROVE  IInv'
<1>1. TypeOK'
    BY DEF IInv, TypeOK
<1>2. \A n : WasApplied(n)' <=> WasApplied(n)
    BY DEF WasApplied
<1>3. NoGaps'
    BY <1>2 DEF IInv, TypeOK, NoGaps
<1>4. AheadWasApplied'
    <2> SUFFICES ASSUME NEW n \in Nat, settled' < n, n <= settled' + ahead'
                 PROVE  WasApplied(n)
        BY <1>2 DEF AheadWasApplied
    <2>1. settled < n
        BY DEF IInv, TypeOK
    <2>2. n <= settled + ahead
        BY WithinTheSame DEF IInv, TypeOK
    <2> QED BY <2>1, <2>2 DEF IInv, AheadWasApplied
<1> QED BY <1>1, <1>3, <1>4, OrderStays DEF IInv

LEMMA ApplyStep ==
    ASSUME IInv, Apply
    PROVE  IInv'
<1> DEFINE m == Len(applied)
<1>0. PICK w : w = settled + ahead + 1
    OBVIOUS
<1>1. /\ applied' = Append(applied, w) /\ ahead' = ahead + 1
      /\ UNCHANGED <<issued, settled>>
    BY <1>0 DEF Apply
<1>2. /\ applied \in Seq(Nat) /\ m \in Nat /\ w \in Nat /\ settled \in Nat /\ ahead \in Nat
      /\ \A i \in 1..m : applied[i] \in Nat
    BY <1>0, LenProperties, ElementOfSeq DEF IInv, TypeOK
<1>3. /\ applied' \in Seq(Nat) /\ Len(applied') = m + 1
      /\ applied'[m + 1] = w /\ \A i \in 1..m : applied'[i] = applied[i]
    BY <1>1, <1>2, AppendProperties
<1>4. TypeOK'
    <2>1. settled + ahead < issued
        BY DEF Apply
    <2> QED BY <1>1, <1>2, <1>3, <2>1 DEF IInv, TypeOK
<1>5. \A n : WasApplied(n) => WasApplied(n)'
    BY <1>2, <1>3 DEF WasApplied
<1>6. WasApplied(w)'
    <2>1. m + 1 \in 1..(m + 1)
        BY <1>2
    <2> QED BY <1>3, <2>1 DEF WasApplied
<1> HIDE DEF m
<1>7. NoGaps'
    <2> SUFFICES ASSUME NEW i \in 1..(m + 1), NEW n \in Nat, settled < n, n < applied'[i]
                 PROVE  WasApplied(n)'
        BY <1>1, <1>3 DEF NoGaps
    <2>1. CASE i \in 1..m
        <3>1. n < applied[i]
            BY <1>3, <2>1
        <3> QED BY <1>5, <2>1, <3>1 DEF IInv, NoGaps, m
    <2>2. CASE i = m + 1
        <3>1. n <= settled + ahead
            BY <1>0, <1>2, <1>3, <2>2
        <3> QED BY <1>5, <3>1 DEF IInv, AheadWasApplied
    <2> QED BY <1>2, <2>1, <2>2
<1>8. AheadWasApplied'
    <2> SUFFICES ASSUME NEW n \in Nat, settled < n, n <= settled + (ahead + 1)
                 PROVE  WasApplied(n)'
        BY <1>1 DEF AheadWasApplied
    <2>1. CASE n = w
        BY <1>6, <2>1
    <2>2. CASE n # w
        <3>1. n <= settled + ahead
            BY <1>0, <1>2, <2>2
        <3> QED BY <1>5, <3>1 DEF IInv, AheadWasApplied
    <2> QED BY <2>1, <2>2
<1>9. IssueOrder'
    <2> SUFFICES ASSUME NEW i \in 1..(m + 1), FirstTime(i)', NEW k \in 1..(i - 1)
                 PROVE  applied'[k] < applied'[i]
        BY <1>3, LenProperties DEF IssueOrder
    <2>1. CASE i \in 1..m
        <3>1. \A j \in 1..i : applied'[j] = applied[j]
            BY <1>2, <1>3, <2>1
        <3>2. FirstTime(i)
            BY <1>2, <2>1, <3>1 DEF FirstTime
        <3>3. applied[k] < applied[i]
            BY <1>2, <2>1, <3>2, LenProperties DEF IInv, IssueOrder, m
        <3> QED BY <1>2, <2>1, <3>1, <3>3
    <2>2. CASE i = m + 1
        <3>1. /\ k \in 1..m /\ applied'[k] = applied[k] /\ applied[k] \in Nat
              /\ applied'[i] = w
            BY <1>2, <1>3, <2>2
        <3>2. ~WasApplied(w)
            BY <1>2, <1>3, <2>2 DEF FirstTime, WasApplied, m
        <3>3. settled < w /\ applied[k] # w
            BY <1>0, <1>2, <3>1, <3>2 DEF WasApplied, m
        <3>4. ~(w < applied[k])
            BY <1>2, <3>1, <3>2, <3>3 DEF IInv, NoGaps, m
        <3> QED BY <1>2, <3>1, <3>3, <3>4
    <2> QED BY <1>2, <2>1, <2>2
<1> QED BY <1>4, <1>7, <1>8, <1>9 DEF IInv

LEMMA NextStep ==
    ASSUME IInv, [Next]_vars
    PROVE  IInv'
<1>1. issued \in Nat /\ settled \in Nat /\ ahead \in Nat /\ settled + ahead <= issued
    BY DEF IInv, TypeOK
<1>2. CASE Issue
    BY <1>1, <1>2, SettleStep DEF Issue
<1>3. CASE Apply
    BY <1>3, ApplyStep
<1>4. CASE Acknowledge
    BY <1>1, <1>4, SettleStep DEF Acknowledge
<1>5. CASE Disconnect
    BY <1>1, <1>5, SettleStep DEF Disconnect
<1>6. CASE Reject
    BY <1>1, <1>6, SettleStep DEF Reject
<1>7. CASE Forget
    BY <1>1, <1>7, SettleStep DEF Forget
<1>8. CASE UNCHANGED vars
    BY <1>1, <1>8, SettleStep DEF vars
<1> QED BY <1>2, <1>3, <1>4, <1>5, <1>6, <1>7, <1>8 DEF Next

THEOREM Invariance == Spec => []IInv
<1>1. Init => IInv
    BY EmptySeq DEF Init, IInv, TypeOK, NoGaps, AheadWasApplied, WasApplied, IssueOrder
<1> QED BY <1>1, NextStep, PTL DEF Spec

\* Whatever is applied for the first time is younger than all that was applied
\* before: a later setData never reaches the server ahead of an earlier one.
THEOREM OrderOfIssue == Spec => []IssueOrder
<1>1. IInv => IssueOrder
    BY DEF IInv
<1> QED BY Invariance, <1>1, PTL
=============================================================================

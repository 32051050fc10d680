---------------------------- MODULE ResultProofs ----------------------------
(***************************************************************************)
(* What is proved about a group's result, for any number of devices and    *)
(* dinners: what getDinnersWithMostVotes returns when it returns           *)
(* (TallyLoop), and what follows from GroupVote for every system that      *)
(* implements it.                                                          *)
(*                                                                         *)
(* CountYesSwipes is a fold, so what it adds up needs an induction over    *)
(* the users.  It is led to a contradiction instead: among the sets of     *)
(* users for which the sum is wrong one would be minimal.                  *)
(***************************************************************************)
EXTENDS TallyLoop, FiniteSetTheorems, FunctionTheorems, WellFoundedInduction, TLAPS

VARIABLES ballots, shown

GV == INSTANCE GroupVote

-----------------------------------------------------------------------------
\* A fold over S that adds up h.
PickOf(s) == CHOOSE x \in s : TRUE

IsSum(it, S, h) ==
    it = [s \in SUBSET S |-> IF s = {} THEN 0 ELSE it[s \ {PickOf(s)}] + h[PickOf(s)]]

\* As many things as h counts for the members of s.
Tokens(s, h) == {p \in s \X Nat : p[2] \in 1..h[p[1]]}

\* There are finitely many of them,
LEMMA TokensAreFinite ==
    ASSUME NEW S, IsFiniteSet(S), NEW h, \A x \in S : h[x] \in Nat
    PROVE  IsFiniteSet(Tokens(S, h))
<1> DEFINE Piece == [x \in S |-> {x} \X (1..h[x])]
           Pieces == {Piece[x] : x \in S}
<1>1. IsFiniteSet(Pieces)
    <2>1. Piece \in Surjection(S, Pieces)
        BY DEF Surjection
    <2> HIDE DEF Pieces, Piece
    <2> QED BY <2>1, FS_Surjection
<1>2. \A T \in Pieces : IsFiniteSet(T)
    <2> SUFFICES ASSUME NEW x \in S PROVE IsFiniteSet({x} \X (1..h[x]))
        OBVIOUS
    <2>1. IsFiniteSet(1..h[x])
        <3>1. 1 \in Int /\ h[x] \in Int
            OBVIOUS
        <3> QED BY <3>1, FS_Interval
    <2>2. IsFiniteSet({x})
        BY FS_Singleton
    <2> QED BY <2>1, <2>2, FS_Product
<1>3. Tokens(S, h) = UNION Pieces
    <2>1. \A p : p \in Tokens(S, h) <=> \E x \in S : p \in {x} \X (1..h[x])
        <3> SUFFICES ASSUME NEW p
                     PROVE p \in Tokens(S, h) <=> \E x \in S : p \in {x} \X (1..h[x])
            OBVIOUS
        <3>1. ASSUME p \in Tokens(S, h) PROVE \E x \in S : p \in {x} \X (1..h[x])
            BY <3>1 DEF Tokens
        <3>2. ASSUME NEW x \in S, p \in {x} \X (1..h[x]) PROVE p \in Tokens(S, h)
            BY <3>2 DEF Tokens
        <3> QED BY <3>1, <3>2
    <2> QED BY <2>1
<1> HIDE DEF Pieces
<1> QED BY <1>1, <1>2, <1>3, FS_UNION

\* and one more member of s adds as many as h counts for it.
LEMMA TokensOfOneMore ==
    ASSUME NEW s, IsFiniteSet(s), NEW x \in s, NEW h, \A y \in s : h[y] \in Nat
    PROVE  Cardinality(Tokens(s, h)) = Cardinality(Tokens(s \ {x}, h)) + h[x]
<1> DEFINE A == Tokens(s \ {x}, h)
           B == {x} \X (1..h[x])
<1>1. Tokens(s, h) = A \cup B /\ A \cap B = {}
    <2>1. \A p : p \in Tokens(s, h) <=> p \in A \/ p \in B
        BY DEF Tokens
    <2>2. \A p : ~(p \in A /\ p \in B)
        BY DEF Tokens
    <2> HIDE DEF A, B
    <2> QED BY <2>1, <2>2
<1>2. IsFiniteSet(A)
    <2>1. IsFiniteSet(s \ {x})
        BY FS_RemoveElement
    <2> QED BY <2>1, TokensAreFinite
<1>3. IsFiniteSet(B) /\ Cardinality(B) = h[x]
    <2>1. IsFiniteSet({x}) /\ Cardinality({x}) = 1
        BY FS_Singleton
    <2>4. h[x] \in Nat /\ 1 \in Int /\ h[x] \in Int
        OBVIOUS
    <2>2. IsFiniteSet(1..h[x]) /\ Cardinality(1..h[x]) = h[x]
        BY <2>4, FS_Interval
    <2>3. IsFiniteSet(B) /\ Cardinality(B) = Cardinality({x}) * Cardinality(1..h[x])
        BY <2>1, <2>2, FS_Product
    <2> QED BY <2>1, <2>2, <2>3, <2>4
<1> HIDE DEF A, B
<1>4. Cardinality(A) \in Nat /\ h[x] \in Nat
    BY <1>2, FS_CardinalityType
<1>5. /\ IsFiniteSet(A \cup B)
      /\ Cardinality(A \cup B) = Cardinality(A) + Cardinality(B) - Cardinality(A \cap B)
    BY <1>2, <1>3, FS_Union
<1>6. Cardinality(A \cap B) = 0
    BY <1>1, FS_EmptySet
<1>7. Cardinality(Tokens(s, h)) = Cardinality(A) + h[x]
    BY <1>1, <1>3, <1>4, <1>5, <1>6
<1> QED BY <1>7 DEF A

\* Their number is such a fold,
LEMMA SumExists ==
    ASSUME NEW S, IsFiniteSet(S), NEW h, \A x \in S : h[x] \in Nat
    PROVE  IsSum([s \in SUBSET S |-> Cardinality(Tokens(s, h))], S, h)
<1> DEFINE g == [s \in SUBSET S |-> Cardinality(Tokens(s, h))]
<1>1. ASSUME NEW s \in SUBSET S, s # {}
      PROVE  g[s] = g[s \ {PickOf(s)}] + h[PickOf(s)]
    <2>1. PickOf(s) \in s
        BY <1>1 DEF PickOf
    <2>2. IsFiniteSet(s)
        BY FS_Subset
    <2>3. s \ {PickOf(s)} \in SUBSET S
        OBVIOUS
    <2> QED BY <2>1, <2>2, <2>3, TokensOfOneMore
<1>2. g[{}] = 0
    <2>1. Tokens({}, h) = {}
        BY DEF Tokens
    <2> QED BY <2>1, FS_EmptySet
<1>3. \A s \in SUBSET S :
        g[s] = IF s = {} THEN 0 ELSE g[s \ {PickOf(s)}] + h[PickOf(s)]
    <2> HIDE DEF g
    <2> QED BY <1>1, <1>2
<1>4. g = [s \in SUBSET S |-> g[s]]
    OBVIOUS
<1> HIDE DEF g
<1>5. IsSum(g, S, h)
    <2> SUFFICES g = [s \in SUBSET S |-> IF s = {} THEN 0 ELSE g[s \ {PickOf(s)}] + h[PickOf(s)]]
        BY DEF IsSum
    <2> QED BY <1>3, <1>4, Zenon
<1> QED BY <1>5 DEF g

\* and the only one: a smallest set on which another differs would have a
\* smaller one.
LEMMA SumIsUnique ==
    ASSUME NEW S, IsFiniteSet(S), NEW h, \A x \in S : h[x] \in Nat,
           NEW it, IsSum(it, S, h)
    PROVE  it[S] = Cardinality(Tokens(S, h))
<1> DEFINE Bad == {s \in SUBSET S : it[s] # Cardinality(Tokens(s, h))}
<1>1. SUFFICES ASSUME Bad # {} PROVE FALSE
    OBVIOUS
<1>2. PICK s \in Bad : \A t \in Bad : <<t, s>> \notin StrictSubsetOrdering(S)
    <2>1. IsWellFoundedOn(StrictSubsetOrdering(S), SUBSET S)
        BY FS_StrictSubsetOrderingWellFounded, FS_FiniteSubsetsOfFinite
    <2>2. Bad \subseteq SUBSET S
        OBVIOUS
    <2> HIDE DEF Bad
    <2> QED BY <2>1, <2>2, <1>1, WFMin
<1>3. s \in SUBSET S /\ it[s] # Cardinality(Tokens(s, h))
    OBVIOUS
<1>4. it[s] = IF s = {} THEN 0 ELSE it[s \ {PickOf(s)}] + h[PickOf(s)]
    BY <1>3 DEF IsSum
<1>5. CASE s = {}
    <2>1. Tokens({}, h) = {}
        BY DEF Tokens
    <2> QED BY <2>1, <1>3, <1>4, <1>5, FS_EmptySet
<1>6. CASE s # {}
    <2> DEFINE t == s \ {PickOf(s)}
    <2>1. PickOf(s) \in s
        BY <1>6 DEF PickOf
    <2>2. IsFiniteSet(s)
        BY <1>3, FS_Subset
    <2>3. Cardinality(Tokens(s, h)) = Cardinality(Tokens(t, h)) + h[PickOf(s)]
        BY <1>3, <2>1, <2>2, TokensOfOneMore
    <2>4. t \in SUBSET S /\ <<t, s>> \in StrictSubsetOrdering(S)
        BY <1>3, <2>1 DEF StrictSubsetOrdering
    <2>5. it[t] = Cardinality(Tokens(t, h))
        BY <1>2, <2>4
    <2> QED BY <1>3, <1>4, <1>6, <2>3, <2>5
<1> QED BY <1>5, <1>6

\* How often x is in the list of u.
TimesIn(acc, x) == [u \in DOMAIN acc |-> IF acc[u] = Nil THEN 0 ELSE acc[u][x]]

\* countYesSwipes counts every occurrence of an id in every list once.
LEMMA CountIsOccurrences ==
    ASSUME NEW acc, IsFiniteSet(DOMAIN acc), NEW x \in Dinners,
           \A u \in DOMAIN acc : acc[u] # Nil => acc[u][x] \in Nat
    PROVE  CountYesSwipes(acc)[x] = Cardinality(Tokens(DOMAIN acc, TimesIn(acc, x)))
<1> DEFINE h == TimesIn(acc, x)
           D == DOMAIN acc
           n(u) == IF acc[u] = Nil THEN 0 ELSE acc[u][x]
           Sums(f) == f = [s \in SUBSET D |->
                             IF s = {} THEN 0 ELSE f[s \ {CHOOSE y \in s : TRUE}]
                                                     + n(CHOOSE y \in s : TRUE)]
           it == CHOOSE f : Sums(f)
<1>0. \A u \in D : h[u] \in Nat
    BY DEF TimesIn
<1>1. ASSUME NEW f
      PROVE  IsSum(f, D, h) <=> Sums(f)
    <2>1. ASSUME NEW s \in SUBSET D, s # {}
          PROVE h[PickOf(s)] = n(PickOf(s))
        <3>1. PickOf(s) \in D
            BY <2>1 DEF PickOf
        <3> QED BY <3>1 DEF TimesIn
    <2> HIDE DEF h, n
    <2>2. [s \in SUBSET D |-> IF s = {} THEN 0 ELSE f[s \ {PickOf(s)}] + h[PickOf(s)]]
          = [s \in SUBSET D |-> IF s = {} THEN 0 ELSE f[s \ {PickOf(s)}] + n(PickOf(s))]
        BY <2>1
    <2> QED BY <2>2, Zenon DEF IsSum, PickOf
<1>2. CountYesSwipes(acc)[x] = it[D]
    BY DEF CountYesSwipes, FoldFunction, FoldFunctionOnSet, MapThenFoldSet
<1>3. \E f : Sums(f)
    <2> HIDE DEF Sums
    <2> QED BY <1>0, <1>1, SumExists
<1>4. IsSum(it, D, h)
    <2> HIDE DEF Sums, h
    <2> QED BY <1>1, <1>3
<1> HIDE DEF it, h
<1>5. CountYesSwipes(acc)[x] = Cardinality(Tokens(DOMAIN acc, h))
    BY <1>0, <1>2, <1>4, SumIsUnique
<1> QED BY <1>5 DEF h

\* Where no list names a dinner twice, its count is the number of lists it is in.
LEMMA CountIsSupport ==
    ASSUME NEW acc, IsFiniteSet(DOMAIN acc), NEW x \in Dinners,
           \A u \in DOMAIN acc : acc[u] # Nil => acc[u][x] \in {0, 1}
    PROVE  CountYesSwipes(acc)[x] =
               Cardinality({u \in DOMAIN acc : acc[u] # Nil /\ acc[u][x] > 0})
<1> DEFINE h == TimesIn(acc, x)
           S == {u \in DOMAIN acc : acc[u] # Nil /\ acc[u][x] > 0}
<1>1. \A u \in DOMAIN acc : h[u] = IF u \in S THEN 1 ELSE 0
    BY DEF TimesIn
<1>2. Tokens(DOMAIN acc, h) = S \X {1}
    <2> HIDE DEF h
    <2>1. ASSUME NEW p
          PROVE  p \in Tokens(DOMAIN acc, h) <=> p \in S \X {1}
        <3>1. ASSUME p \in Tokens(DOMAIN acc, h) PROVE p \in S \X {1}
            <4>1. /\ p = <<p[1], p[2]>> /\ p[1] \in DOMAIN acc
                  /\ p[2] \in Nat /\ p[2] \in 1..h[p[1]]
                BY <3>1 DEF Tokens
            <4> HIDE DEF S
            <4>2. p[1] \in S /\ p[2] = 1
                BY <1>1, <4>1
            <4> QED BY <4>1, <4>2
        <3>2. ASSUME p \in S \X {1} PROVE p \in Tokens(DOMAIN acc, h)
            <4>1. p[1] \in S /\ p[2] = 1 /\ p = <<p[1], p[2]>> /\ p[1] \in DOMAIN acc
                BY <3>2
            <4> HIDE DEF S
            <4>2. p[2] \in 1..h[p[1]] /\ p \in (DOMAIN acc) \X Nat
                BY <1>1, <4>1
            <4> QED BY <4>2 DEF Tokens
        <3> QED BY <3>1, <3>2
    <2> QED BY <2>1
<1>3. IsFiniteSet(S)
    BY FS_Subset
<1>4. CountYesSwipes(acc)[x] = Cardinality(Tokens(DOMAIN acc, h))
    BY CountIsOccurrences
<1> HIDE DEF S, h
<1>5. Cardinality(S \X {1}) = Cardinality(S) * Cardinality({1})
    BY <1>3, FS_Product, FS_Singleton
<1>6. Cardinality({1}) = 1 /\ Cardinality(S) \in Nat
    BY <1>3, FS_Singleton, FS_CardinalityType
<1>7. \A k \in Nat : k * 1 = k
    OBVIOUS
<1>8. CountYesSwipes(acc)[x] = Cardinality(S) * Cardinality({1})
    BY <1>2, <1>4, <1>5
<1>9. CountYesSwipes(acc)[x] = Cardinality(S)
    BY <1>6, <1>7, <1>8
<1> QED BY <1>9 DEF S

\* A group has finitely many users.
LEMMA UserIdsAreFinite == IsFiniteSet(UserIds)
<1>1. IsFiniteSet(Devices) /\ 1 \in Int /\ MaxSessions \in Int
    BY DevicesAssumption, MaxSessionsAssumption
<1>2. IsFiniteSet(1..MaxSessions)
    BY <1>1, FS_Interval
<1> QED BY <1>1, <1>2, FS_Product DEF UserIds

-----------------------------------------------------------------------------
\* participants counts the users, and whatever pass was the last one, it has
\* found the dinners with as many votes as there are users.
TallyInv ==
    /\ accepted \in [UserIds -> [Dinners -> 0..MaxTimes]]
    /\ participants = Cardinality(UserIds)
    /\ pc # "count" => dinnerIdsWithMostVotes = DinnersWithVotes(VoteCount, participants)
    /\ pc = "returned" => dinnerIdsWithMostVotes # {}

\* VoteCount is the number of supporters, if no list names a dinner twice.
LEMMA SupportIsCounted ==
    ASSUME TallyInv, SingleVotes, NEW x \in Dinners
    PROVE  /\ VoteCount[x] = Cardinality(Supporters(x))
           /\ Cardinality(Supporters(x)) \in Nat
           /\ Cardinality(Supporters(x)) <= Cardinality(UserIds)
<1>1. /\ accepted \in [UserIds -> [Dinners -> 0..MaxTimes]] /\ DOMAIN accepted = UserIds
      /\ \A u \in UserIds : accepted[u][x] \in {0, 1}
    BY TallyAssumption DEF TallyInv, SingleVotes
<1>2. \A u \in UserIds : accepted[u] # Nil
    <2>1. \A l \in [Dinners -> 0..MaxTimes] : l \in DinnerLists
        BY TallyAssumption DEF DinnerLists
    <2>2. Nil \notin DinnerLists
        BY NilAssumption
    <2> QED BY <1>1, <2>1, <2>2
<1>3. {u \in UserIds : accepted[u] # Nil /\ accepted[u][x] > 0} = Supporters(x)
    BY <1>2 DEF Supporters
<1>4. VoteCount[x] = Cardinality(Supporters(x))
    BY <1>1, <1>3, UserIdsAreFinite, CountIsSupport DEF VoteCount
<1>5. Supporters(x) \in SUBSET UserIds
    BY DEF Supporters
<1>6. IsFiniteSet(Supporters(x)) /\ Cardinality(Supporters(x)) <= Cardinality(UserIds)
    BY <1>5, UserIdsAreFinite, FS_Subset
<1> QED BY <1>4, <1>6, FS_CardinalityType

\* Every round of the loop finds the same dinners again.
LEMMA TallyStep ==
    ASSUME TallyInv, [Next]_tallyVars
    PROVE  TallyInv'
<1>1. CASE FirstPass
    <2>1. VoteCount' = VoteCount
        BY <1>1 DEF FirstPass, VoteCount
    <2> QED BY <1>1, <2>1 DEF TallyInv, FirstPass
<1>2. CASE Round
    <2>1. VoteCount' = VoteCount
        BY <1>2 DEF Round, VoteCount
    <2> QED BY <1>2, <2>1 DEF TallyInv, Round, Lowered
<1>3. CASE Return
    <2>1. VoteCount' = VoteCount
        BY <1>3 DEF Return, VoteCount
    <2> QED BY <1>3, <2>1 DEF TallyInv, Return
<1>4. CASE UNCHANGED tallyVars
    <2>1. VoteCount' = VoteCount
        BY <1>4 DEF tallyVars, VoteCount
    <2> QED BY <1>4, <2>1 DEF TallyInv, tallyVars
<1> QED BY <1>1, <1>2, <1>3, <1>4 DEF Next

\* getDinnersWithMostVotes returns exactly the dinners with the most
\* supporters, whenever it returns and no list names a dinner twice: no
\* lowering of the bar ever finds another dinner.
THEOREM MostSupportedIsReturned == Spec => []ReturnsTheMostSupported
<1>1. Init => TallyInv
    BY DEF Init, TallyInv
<1>2. TallyInv => ReturnsTheMostSupported
    <2> SUFFICES ASSUME TallyInv, pc = "returned", SingleVotes
                 PROVE  dinnerIdsWithMostVotes = MostSupported
        BY DEF ReturnsTheMostSupported
    <2> DEFINE n(x) == Cardinality(Supporters(x))
               N == Cardinality(UserIds)
    <2>1. \A x \in Dinners : VoteCount[x] = n(x) /\ n(x) \in Nat /\ n(x) <= N
        BY SupportIsCounted
    <2>2. dinnerIdsWithMostVotes = {x \in Dinners : VoteCount[x] > 0 /\ VoteCount[x] = N}
        BY DEF TallyInv, DinnersWithVotes
    <2>3. PICK w \in dinnerIdsWithMostVotes : TRUE
        BY DEF TallyInv
    <2>4. N \in Nat
        BY UserIdsAreFinite, FS_CardinalityType
    <2>5. MostSupported = {x \in Dinners : \A y \in Dinners : n(y) <= n(x)}
        BY DEF MostSupported
    <2> HIDE DEF n, N
    <2>6. w \in Dinners /\ n(w) > 0 /\ n(w) = N
        BY <2>1, <2>2, <2>3
    <2>7. ASSUME NEW x \in Dinners
          PROVE  (VoteCount[x] > 0 /\ VoteCount[x] = N) <=> (\A y \in Dinners : n(y) <= n(x))
        <3>1. ASSUME \A y \in Dinners : n(y) <= n(x) PROVE VoteCount[x] > 0 /\ VoteCount[x] = N
            BY <2>1, <2>4, <2>6, <3>1
        <3>2. ASSUME VoteCount[x] = N PROVE \A y \in Dinners : n(y) <= n(x)
            BY <2>1, <3>2
        <3> QED BY <3>1, <3>2
    <2> QED BY <2>2, <2>5, <2>7
<1> QED BY <1>1, <1>2, TallyStep, PTL DEF Spec

-----------------------------------------------------------------------------
\* Whoever is shown a result sees what all ballots agree on.
VoteInv ==
    /\ DOMAIN ballots = Devices /\ DOMAIN shown = Devices
    /\ ballots = [d \in Devices |-> ballots[d]]
    /\ shown = [d \in Devices |-> shown[d]]
    /\ \A d \in Devices : shown[d] # Nil =>
          /\ \A e \in Devices : ballots[e] # Nil
          /\ shown[d] = GV!Agreement

\* While a ballot is missing no result is shown, so casting it contradicts none.
LEMMA VoteStep ==
    ASSUME VoteInv, NEW d \in Devices, GV!Vote(d)
    PROVE  VoteInv'
<1>1. PICK ballot \in SUBSET Dinners :
          ballots' = [ballots EXCEPT ![d] = ballot] /\ shown' = shown
    BY DEF GV!Vote
<1>2. \A e \in Devices : shown'[e] = Nil
    BY <1>1 DEF VoteInv, GV!Vote
<1> QED BY <1>1, <1>2 DEF VoteInv

\* The ballots do not change any more.
LEMMA ShowResultStep ==
    ASSUME VoteInv, NEW d \in Devices, GV!ShowResult(d)
    PROVE  VoteInv'
<1>1. /\ \A e \in Devices : ballots[e] # Nil
      /\ shown' = [shown EXCEPT ![d] = GV!Agreement] /\ ballots' = ballots
    BY DEF GV!ShowResult
<1>2. GV!Agreement' = GV!Agreement
    BY <1>1 DEF GV!Agreement
<1>3. \A e \in Devices : shown'[e] = GV!Agreement \/ shown'[e] = shown[e]
    BY <1>1 DEF VoteInv
<1> QED BY <1>1, <1>2, <1>3 DEF VoteInv

\* As long as somebody has not voted nothing is shown, and what is shown is what
\* all ballots agree on.
THEOREM VoteInvariance == GV!Spec => []VoteInv
<1>1. GV!Init => VoteInv
    BY DEF GV!Init, VoteInv
<1>2. VoteInv /\ [GV!Next]_GV!vars => VoteInv'
    <2> SUFFICES ASSUME VoteInv, [GV!Next]_GV!vars PROVE VoteInv'
        OBVIOUS
    <2>1. CASE \E d \in Devices : GV!Vote(d)
        BY <2>1, VoteStep
    <2>2. CASE \E d \in Devices : GV!ShowResult(d)
        BY <2>2, ShowResultStep
    <2>3. CASE UNCHANGED GV!vars
        BY <2>3 DEF GV!vars, VoteInv, GV!Agreement
    <2> QED BY <2>1, <2>2, <2>3 DEF GV!Next
<1> QED BY <1>1, <1>2, PTL DEF GV!Spec

\* Whoever is shown a result sees dinners that everybody has swiped right, and
\* everybody has voted by then: what the callback of kolodaDidRunOutOfCards
\* waits for.
THEOREM ResultIsUnanimous == GV!Spec => []GV!ResultIsOnEveryBallot
<1>1. VoteInv => GV!ResultIsOnEveryBallot
    BY DEF VoteInv, GV!ResultIsOnEveryBallot, GV!Agreement
<1> QED BY VoteInvariance, <1>1, PTL

\* All who are shown a result are shown the same, whenever they look.
THEOREM ResultIsCommon == GV!Spec => []GV!SameResultForAll
<1>1. VoteInv => GV!SameResultForAll
    BY DEF VoteInv, GV!SameResultForAll
<1> QED BY VoteInvariance, <1>1, PTL
=============================================================================

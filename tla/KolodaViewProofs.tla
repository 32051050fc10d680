-------------------------- MODULE KolodaViewProofs --------------------------
(***************************************************************************)
(* What the operations on a card pile do to its position and its cards,    *)
(* for piles of any length of any kind of cards.                           *)
(***************************************************************************)
EXTENDS KolodaView, SequenceTheorems, TLAPS

\* A pile of cards from S, with what else its record has left open.
IsPile(k, S) == /\ {"items", "index", "visible"} \subseteq DOMAIN k
                /\ k = [f \in DOMAIN k |-> k[f]]
                /\ k.items \in Seq(S) /\ k.visible \in Seq(S)
                /\ k.index \in Nat
                /\ Len(k.visible) <= CountOfVisibleCards

\* visible, at position index, does not reach past the end of items.
Fits(items, index, visible) == visible # <<>> => index + Len(visible) <= Len(items)

\* k2 is k at another position, with other cards that fit.
Deals(k, S, k2) ==
    \E i \in Nat, v \in Seq(S) :
        /\ k2 = [k EXCEPT !.index = i, !.visible = v]
        /\ Fits(k.items, i, v)
        /\ Len(v) <= CountOfVisibleCards

-----------------------------------------------------------------------------
\* The cards from position i up to the limit n of the pile.
LEMMA SliceProperties ==
    ASSUME NEW S, NEW s \in Seq(S), NEW m \in Nat, NEW n \in Nat, n <= Len(s)
    PROVE  /\ SubSeq(s, m + 1, n) \in Seq(S)
           /\ Len(SubSeq(s, m + 1, n)) = IF m < n THEN n - m ELSE 0
<1>1. Len(s) \in Nat /\ \A j \in 1..Len(s) : s[j] \in S
    BY LenProperties, ElementOfSeq
<1>2. \A j \in (m + 1)..n : s[j] \in S
    BY <1>1
<1>3. m + 1 \in Int /\ n \in Int
    OBVIOUS
<1>4. /\ SubSeq(s, m + 1, n) \in Seq(S)
      /\ Len(SubSeq(s, m + 1, n)) = IF m + 1 <= n THEN n - (m + 1) + 1 ELSE 0
    BY <1>2, <1>3, SubSeqProperties
<1> QED BY <1>1, <1>4

LEMMA NoCards ==
    ASSUME NEW S
    PROVE  <<>> \in Seq(S) /\ Len(<<>>) = 0 /\ Len(<<>>) <= CountOfVisibleCards
<1>1. <<>> \in Seq(S) /\ Len(<<>>) = 0
    BY EmptySeq
<1> QED BY <1>1, VisibleAssumption

LEMMA ClearIsPile ==
    ASSUME NEW S, NEW k, IsPile(k, S)
    PROVE  /\ IsPile(Clear(k), S)
           /\ Clear(k).items = k.items
           /\ Clear(k).index = 0
           /\ Clear(k).visible = <<>>
<1>1. /\ DOMAIN Clear(k) = DOMAIN k
      /\ Clear(k) = [f \in DOMAIN Clear(k) |-> Clear(k)[f]]
    BY DEF Clear, IsPile
<1>2. Clear(k).items = k.items /\ Clear(k).index = 0 /\ Clear(k).visible = <<>>
    BY DEF Clear, IsPile
<1> QED BY <1>1, <1>2, NoCards DEF IsPile

LEMMA ClearDeals ==
    ASSUME NEW S, NEW k, IsPile(k, S)
    PROVE  Deals(k, S, Clear(k))
<1>1. <<>> \in Seq(S) /\ Len(<<>>) <= CountOfVisibleCards
    BY NoCards
<1>2. Fits(k.items, 0, <<>>)
    BY DEF Fits
<1>3. 0 \in Nat /\ Clear(k) = [k EXCEPT !.index = 0, !.visible = <<>>]
    BY DEF Clear
<1> QED BY <1>1, <1>2, <1>3 DEF Deals

LEMMA SetupDeckDeals ==
    ASSUME NEW S, NEW k, IsPile(k, S)
    PROVE  Deals(k, S, SetupDeck(k))
<1> DEFINE n == Smaller(k.index + CountOfVisibleCards, Len(k.items))
           v == SubSeq(k.items, k.index + 1, n)
<1>1. /\ Len(k.items) \in Nat /\ k.index \in Nat /\ n \in Nat
      /\ n <= Len(k.items) /\ n <= k.index + CountOfVisibleCards
    BY LenProperties, VisibleAssumption DEF IsPile, Smaller
<1>2. v \in Seq(S) /\ Len(v) = IF k.index < n THEN n - k.index ELSE 0
    BY <1>1, SliceProperties DEF IsPile
<1>3. Len(v) <= CountOfVisibleCards
    BY <1>1, <1>2, VisibleAssumption
<1>4. Fits(k.items, k.index, v)
    BY <1>1, <1>2, EmptySeq DEF Fits
<1>5. SetupDeck(k) = [k EXCEPT !.index = k.index, !.visible = v]
    BY DEF SetupDeck, IsPile
<1> QED BY <1>1, <1>2, <1>3, <1>4, <1>5 DEF Deals

LEMMA LoadMissingCardsDeals ==
    ASSUME NEW S, NEW k, IsPile(k, S), k.index + Len(k.visible) < Len(k.items)
    PROVE  Deals(k, S, LoadMissingCards(k))
<1> DEFINE m == k.index + Len(k.visible)
           n == Smaller(k.index + CountOfVisibleCards, Len(k.items))
           more == SubSeq(k.items, m + 1, n)
           v == k.visible \o more
<1>1. /\ Len(k.items) \in Nat /\ k.index \in Nat /\ n \in Nat
      /\ Len(k.visible) \in Nat /\ m \in Nat /\ m < Len(k.items)
      /\ m <= k.index + CountOfVisibleCards
      /\ n <= Len(k.items) /\ n <= k.index + CountOfVisibleCards
    BY LenProperties, VisibleAssumption DEF IsPile, Smaller
<1>2. more \in Seq(S) /\ Len(more) = IF m < n THEN n - m ELSE 0
    BY <1>1, SliceProperties DEF IsPile
<1>3. v \in Seq(S) /\ Len(v) = Len(k.visible) + Len(more)
    BY <1>2, ConcatProperties DEF IsPile
<1>4. Len(v) <= CountOfVisibleCards /\ k.index + Len(v) <= Len(k.items)
    <2> HIDE DEF v, more, n
    <2>1. CASE m < n
        <3>1. Len(v) = n - k.index
            <4>1. Len(more) = n - m
                BY <1>2, <2>1
            <4>2. Len(v) = Len(k.visible) + (n - m)
                BY <1>3, <4>1
            <4> QED BY <1>1, <4>2
        <3> QED BY <1>1, <3>1, VisibleAssumption
    <2>2. CASE ~(m < n)
        <3>1. Len(v) = Len(k.visible)
            BY <1>1, <1>2, <1>3, <2>2
        <3> QED BY <1>1, <3>1 DEF IsPile
    <2> QED BY <2>1, <2>2
<1>5. LoadMissingCards(k) = [k EXCEPT !.index = k.index, !.visible = v]
    BY DEF LoadMissingCards, IsPile
<1> HIDE DEF v
<1> QED BY <1>1, <1>3, <1>4, <1>5 DEF Deals, Fits

LEMMA ReconfigureCardsDeals ==
    ASSUME NEW S, NEW k, IsPile(k, S), k.index + Len(k.visible) <= Len(k.items)
    PROVE  Deals(k, S, ReconfigureCards(k))
<1> DEFINE v == SubSeq(k.items, k.index + 1, k.index + Len(k.visible))
<1>1. Len(k.items) \in Nat /\ k.index \in Nat /\ Len(k.visible) \in Nat
    BY LenProperties DEF IsPile
<1>2. v \in Seq(S) /\ Len(v) = Len(k.visible)
    <2> DEFINE n == k.index + Len(k.visible)
    <2>1. n \in Nat /\ n <= Len(k.items) /\ k.items \in Seq(S)
        BY <1>1 DEF IsPile
    <2>2. /\ SubSeq(k.items, k.index + 1, n) \in Seq(S)
          /\ Len(SubSeq(k.items, k.index + 1, n)) = IF k.index < n THEN n - k.index ELSE 0
        <3> HIDE DEF n
        <3> QED BY <1>1, <2>1, SliceProperties
    <2>3. (IF k.index < n THEN n - k.index ELSE 0) = Len(k.visible)
        BY <1>1
    <2> QED BY <2>2, <2>3
<1>3. ReconfigureCards(k) = [k EXCEPT !.index = k.index, !.visible = v]
    BY DEF ReconfigureCards, IsPile
<1> HIDE DEF v
<1> QED BY <1>1, <1>2, <1>3 DEF Deals, Fits, IsPile

LEMMA StayingDeals ==
    ASSUME NEW S, NEW k, IsPile(k, S), Fits(k.items, k.index, k.visible)
    PROVE  Deals(k, S, k)
BY DEF Deals, IsPile

\* Whatever items was replaced by, reloadData leaves cards that fit, unless
\* it asks the data source for a card past the end.
THEOREM ReloadDataDeals ==
    ASSUME NEW S, NEW k, IsPile(k, S), ~ReloadFails(k)
    PROVE  Deals(k, S, ReloadData(k))
<1> DEFINE n == Len(k.items)
           shown == k.index + Len(k.visible)
<1>1. /\ n \in Nat /\ k.index \in Nat /\ Len(k.visible) \in Nat
      /\ k.visible # <<>> => Len(k.visible) > 0
    BY LenProperties, EmptySeq DEF IsPile
<1>2. CASE n = 0
    BY <1>1, <1>2, ClearDeals DEF ReloadData
<1>3. CASE n > 0 /\ k.index = 0
    <2>1. Deals(Clear(k), S, SetupDeck(Clear(k)))
        BY ClearIsPile, SetupDeckDeals
    <2>2. ReloadData(k) = SetupDeck(Clear(k))
        BY <1>1, <1>3 DEF ReloadData
    <2>3. \A i, v : [Clear(k) EXCEPT !.index = i, !.visible = v]
                        = [k EXCEPT !.index = i, !.visible = v]
        BY DEF Clear, IsPile
    <2> QED BY <2>1, <2>2, <2>3, ClearIsPile DEF Deals
<1>4. CASE n > 0 /\ k.index > 0 /\ n > shown /\ k.visible = <<>>
    BY <1>1, <1>4, SetupDeckDeals DEF ReloadData
<1>5. CASE n > 0 /\ k.index > 0 /\ n > shown /\ k.visible # <<>>
    BY <1>1, <1>5, LoadMissingCardsDeals DEF ReloadData
<1>6. CASE n > 0 /\ k.index > 0 /\ n <= shown /\ k.visible # <<>>
    BY <1>1, <1>6, ReconfigureCardsDeals DEF ReloadData, ReloadFails
<1>7. CASE n > 0 /\ k.index > 0 /\ n <= shown /\ k.visible = <<>>
    BY <1>1, <1>7, StayingDeals DEF ReloadData, Fits
<1> QED BY <1>1, <1>2, <1>3, <1>4, <1>5, <1>6, <1>7

\* A pile that has been swiped keeps its place, and cards to swipe.
LEMMA ReloadDataKeepsPlace ==
    ASSUME NEW S, NEW k, IsPile(k, S), ~ReloadFails(k),
           k.items # <<>>, k.index > 0, k.visible # <<>>
    PROVE  ReloadData(k).index = k.index /\ ReloadData(k).visible # <<>>
<1> DEFINE n == Len(k.items)
           shown == k.index + Len(k.visible)
<1>1. /\ n \in Nat /\ n > 0 /\ k.index \in Nat
      /\ Len(k.visible) \in Nat /\ Len(k.visible) > 0
    BY LenProperties, EmptySeq DEF IsPile
<1>2. CASE n > shown
    <2> DEFINE m == Smaller(k.index + CountOfVisibleCards, Len(k.items))
               more == SubSeq(k.items, shown + 1, m)
    <2>1. /\ ReloadData(k).index = k.index
          /\ ReloadData(k).visible = k.visible \o more
        <3>1. ReloadData(k) = LoadMissingCards(k)
            BY <1>1, <1>2 DEF ReloadData
        <3>2. LoadMissingCards(k) = [k EXCEPT !.visible = k.visible \o more]
            BY DEF LoadMissingCards
        <3> QED BY <3>1, <3>2 DEF IsPile
    <2>2. m \in Nat /\ m <= Len(k.items) /\ shown \in Nat
        BY <1>1, VisibleAssumption DEF Smaller
    <2> HIDE DEF m, shown
    <2>3. more \in Seq(S)
        BY <2>2, SliceProperties DEF IsPile
    <2> HIDE DEF more
    <2>4. Len(k.visible \o more) = Len(k.visible) + Len(more) /\ Len(more) \in Nat
        BY <2>3, ConcatProperties, LenProperties DEF IsPile
    <2>5. Len(k.visible \o more) # 0
        BY <1>1, <2>4
    <2> QED BY <2>1, <2>5, EmptySeq
<1>3. CASE n <= shown
    <2> DEFINE v == SubSeq(k.items, k.index + 1, shown)
    <2>1. ReloadData(k).index = k.index /\ ReloadData(k).visible = v
        <3>1. ReloadData(k) = ReconfigureCards(k)
            BY <1>1, <1>3 DEF ReloadData
        <3>2. ReconfigureCards(k) = [k EXCEPT !.visible = v]
            BY DEF ReconfigureCards
        <3> QED BY <3>1, <3>2 DEF IsPile
    <2>2. shown \in Nat /\ shown <= Len(k.items) /\ k.index < shown
        BY <1>1, <1>3 DEF ReloadFails
    <2> HIDE DEF shown
    <2>3. Len(v) = shown - k.index
        BY <1>1, <2>2, SliceProperties DEF IsPile
    <2> HIDE DEF v
    <2> QED BY <1>1, <2>1, <2>2, <2>3, EmptySeq
<1> QED BY <1>1, <1>2, <1>3

\* resetCurrentCardIndex always succeeds.
LEMMA ResetDeals ==
    ASSUME NEW S, NEW k, IsPile(k, S)
    PROVE  Deals(k, S, ResetCurrentCardIndex(k))
<1>1. Deals(Clear(k), S, ReloadData(Clear(k)))
    BY ClearIsPile, ReloadDataDeals DEF ReloadFails
<1>2. \A i, v : [Clear(k) EXCEPT !.index = i, !.visible = v]
                    = [k EXCEPT !.index = i, !.visible = v]
    BY DEF Clear, IsPile
<1> QED BY <1>1, <1>2, ClearIsPile DEF Deals, ResetCurrentCardIndex

\* A swipe moves on by one card, and the card it loads is there.
THEOREM SwipedActionDeals ==
    ASSUME NEW S, NEW k, IsPile(k, S), k.visible # <<>>,
           Fits(k.items, k.index, k.visible)
    PROVE  Deals(k, S, SwipedAction(k))
<1> DEFINE t == Tail(k.visible)
           v == IF NextCard(k) <= Len(k.items) THEN Append(t, k.items[NextCard(k)]) ELSE t
<1>1. /\ Len(k.items) \in Nat /\ k.index \in Nat
      /\ Len(k.visible) \in Nat \ {0} /\ Len(k.visible) <= CountOfVisibleCards
      /\ k.index + Len(k.visible) <= Len(k.items)
    BY LenProperties, EmptySeq DEF IsPile, Fits
<1>2. t \in Seq(S) /\ Len(t) = Len(k.visible) - 1
    BY HeadTailProperties DEF IsPile
<1>3. NextCard(k) \in Nat \ {0} /\ NextCard(k) > k.index + Len(k.visible)
    <2>1. CASE CountOfVisibleCards <= Len(k.items)
        BY <1>1, <2>1, VisibleAssumption DEF NextCard, Smaller
    <2>2. CASE ~(CountOfVisibleCards <= Len(k.items))
        BY <1>1, <2>2, VisibleAssumption DEF NextCard, Smaller
    <2> QED BY <2>1, <2>2
<1>4. v \in Seq(S) /\ k.index + 1 + Len(v) <= Len(k.items) /\ Len(v) <= Len(k.visible)
    <2>1. CASE NextCard(k) <= Len(k.items)
        <3>1. k.items[NextCard(k)] \in S
            BY <1>1, <1>3, <2>1, ElementOfSeq DEF IsPile
        <3>2. v = Append(t, k.items[NextCard(k)])
            BY <2>1
        <3>3. v \in Seq(S) /\ Len(v) = Len(k.visible)
            BY <1>1, <1>2, <3>1, <3>2, AppendProperties
        <3> QED BY <1>1, <1>3, <2>1, <3>3
    <2>2. CASE ~(NextCard(k) <= Len(k.items))
        <3>1. v = t
            BY <2>2
        <3> HIDE DEF t, v
        <3> QED BY <1>1, <1>2, <3>1
    <2> QED BY <2>1, <2>2
<1>5. SwipedAction(k) = [k EXCEPT !.index = k.index + 1, !.visible = v]
    BY DEF SwipedAction, IsPile
<1>6. Len(v) \in Nat
    BY <1>4, LenProperties
<1>7. /\ k.index + 1 \in Nat
      /\ Fits(k.items, k.index + 1, v)
      /\ Len(v) <= CountOfVisibleCards
    BY <1>1, <1>4, <1>6, VisibleAssumption DEF Fits
<1> QED BY <1>4, <1>5, <1>7 DEF Deals

-----------------------------------------------------------------------------
\* The cards of visible are the next ones of items, as many as can be shown.
InPlace(items, index, visible) ==
    visible # <<>> =>
        /\ Len(visible) = Smaller(CountOfVisibleCards, Len(items) - index)
        /\ \A i \in 1..Len(visible) : visible[i] = items[index + i]

LEMMA FirstCardsInPlace ==
    ASSUME NEW S, NEW s \in Seq(S)
    PROVE  InPlace(s, 0, SubSeq(s, 1, Smaller(CountOfVisibleCards, Len(s))))
<1> DEFINE n == Smaller(CountOfVisibleCards, Len(s))
           v == SubSeq(s, 1, n)
<1>1. /\ Len(s) \in Nat /\ n \in Nat /\ n <= Len(s)
      /\ n = Smaller(CountOfVisibleCards, Len(s) - 0)
      /\ \A j \in 1..Len(s) : s[j] \in S
    BY LenProperties, ElementOfSeq, VisibleAssumption DEF Smaller
<1> HIDE DEF n
<1>2. 1 \in Int /\ n \in Int /\ \A j \in 1..n : s[j] \in S
    BY <1>1
<1>3. Len(v) = IF 1 <= n THEN n - 1 + 1 ELSE 0
    BY <1>2, SubSeqProperties
<1>4. \A i \in 1..(n - 1 + 1) : v[i] = s[1 + i - 1]
    BY <1>2, SubSeqProperties
<1> HIDE DEF v
<1>5. Len(v) = n
    BY <1>1, <1>3
<1>6. \A i \in 1..n : v[i] = s[0 + i]
    BY <1>1, <1>4
<1>7. InPlace(s, 0, v)
    BY <1>1, <1>5, <1>6 DEF InPlace
<1> QED BY <1>7 DEF v, n

\* reloadData deals a pile anew that has not been swiped.
LEMMA ReloadDataInPlace ==
    ASSUME NEW S, NEW k, IsPile(k, S), k.index = 0
    PROVE  LET r == ReloadData(k) IN r.index = 0 /\ InPlace(k.items, 0, r.visible)
<1>1. Len(k.items) \in Nat /\ k.items \in Seq(S)
    BY LenProperties DEF IsPile
<1>2. /\ IsPile(Clear(k), S) /\ Clear(k).items = k.items
      /\ Clear(k).index = 0 /\ Clear(k).visible = <<>>
    BY ClearIsPile
<1>3. CASE Len(k.items) = 0
    <2>1. ReloadData(k) = Clear(k)
        BY <1>3 DEF ReloadData
    <2> QED BY <1>2, <2>1 DEF InPlace
<1>4. CASE Len(k.items) > 0
    <2> DEFINE c == Clear(k)
               v == SubSeq(k.items, 1, Smaller(CountOfVisibleCards, Len(k.items)))
    <2>1. ReloadData(k) = SetupDeck(c)
        BY <1>1, <1>4 DEF ReloadData
    <2>2. 0 + 1 = 1 /\ 0 + CountOfVisibleCards = CountOfVisibleCards
        BY VisibleAssumption
    <2>3. SetupDeck(c) = [c EXCEPT !.visible = v]
        BY <1>2, <2>2 DEF SetupDeck
    <2> HIDE DEF v
    <2>4. SetupDeck(c).index = 0 /\ SetupDeck(c).visible = v
        BY <1>2, <2>3 DEF IsPile
    <2> QED BY <1>1, <2>1, <2>4, FirstCardsInPlace DEF v
<1> QED BY <1>1, <1>3, <1>4

LEMMA ResetInPlace ==
    ASSUME NEW S, NEW k, IsPile(k, S)
    PROVE  LET r == ResetCurrentCardIndex(k) IN r.index = 0 /\ InPlace(k.items, 0, r.visible)
BY ClearIsPile, ReloadDataInPlace DEF ResetCurrentCardIndex

\* The card that a swipe loads is the next one behind those on the screen.
LEMMA SwipedActionInPlace ==
    ASSUME NEW S, NEW k, IsPile(k, S), k.visible # <<>>,
           Fits(k.items, k.index, k.visible), InPlace(k.items, k.index, k.visible)
    PROVE  LET r == SwipedAction(k) IN
           r.index = k.index + 1 /\ InPlace(k.items, k.index + 1, r.visible)
<1> DEFINE t == Tail(k.visible)
           m == NextCard(k)
           v == IF m <= Len(k.items) THEN Append(t, k.items[m]) ELSE t
           n == Len(k.items)
           i == k.index
           C == CountOfVisibleCards
<1>1. /\ n \in Nat /\ i \in Nat /\ C \in Nat /\ C > 0
      /\ Len(k.visible) \in Nat \ {0} /\ i + Len(k.visible) <= n
      /\ Len(k.visible) = IF C <= n - i THEN C ELSE n - i
      /\ m = i + (IF C <= n THEN C ELSE n) + 1
    BY LenProperties, EmptySeq, VisibleAssumption DEF IsPile, Fits, InPlace, Smaller, NextCard
<1>2. /\ t \in Seq(S) /\ Len(t) = Len(k.visible) - 1
      /\ \A j \in 1..Len(t) : t[j] = k.visible[j + 1]
    BY HeadTailProperties DEF IsPile
<1>3. \A j \in 1..Len(k.visible) : k.visible[j] = k.items[i + j]
    BY DEF InPlace
<1>4. \A j \in 1..(Len(k.visible) - 1) : t[j] = k.items[i + 1 + j]
    <2> SUFFICES ASSUME NEW j \in 1..(Len(k.visible) - 1) PROVE t[j] = k.items[i + 1 + j]
        OBVIOUS
    <2> HIDE DEF t, m, v, n, C
    <2> DEFINE l == Len(k.visible)
    <2>1. l \in Nat /\ i \in Nat /\ Len(t) = l - 1
        BY <1>1, <1>2
    <2> HIDE DEF l, i
    <2>2. j \in 1..(l - 1) /\ j + 1 \in 1..l /\ i + (j + 1) = i + 1 + j
        BY <2>1 DEF l
    <2> QED BY <1>2, <1>3, <2>1, <2>2 DEF l, i
<1>5. SwipedAction(k).index = i + 1 /\ SwipedAction(k).visible = v
    BY DEF SwipedAction, IsPile
<1>6. CASE m <= n
    <2>1. m \in 1..n /\ Len(k.visible) = C /\ m = i + 1 + C
        BY <1>1, <1>6
    <2>2. k.items[m] \in S /\ v = Append(t, k.items[m])
        BY <1>6, <2>1, ElementOfSeq DEF IsPile
    <2> HIDE DEF t, m, v
    <2>3. /\ Len(v) = Len(t) + 1
          /\ \A j \in 1..Len(t) : v[j] = t[j]
          /\ v[Len(t) + 1] = k.items[m]
        BY <1>2, <2>2, AppendProperties
    <2> HIDE DEF i
    <2>4. Len(v) = C /\ C = Smaller(C, n - (i + 1))
        BY <1>1, <1>2, <1>6, <2>1, <2>3 DEF Smaller
    <2>5. ASSUME NEW j \in 1..Len(v) PROVE v[j] = k.items[i + 1 + j]
        <3>1. CASE j = C
            BY <1>1, <1>2, <2>1, <2>3, <3>1
        <3>2. CASE j # C
            <4>1. j \in 1..(Len(k.visible) - 1) /\ j \in 1..Len(t)
                BY <1>1, <1>2, <2>1, <2>4, <3>2
            <4> QED BY <1>4, <2>3, <4>1
        <3> QED BY <3>1, <3>2
    <2> HIDE DEF n, C
    <2> QED BY <1>5, <2>4, <2>5 DEF InPlace, n, C, i
<1>7. CASE ~(m <= n)
    <2>1. v = t
        BY <1>7
    <2> HIDE DEF t, m, v
    <2> HIDE DEF n, i, C
    <2>2. Len(k.visible) = n - i /\ n - i <= C
        BY <1>1, <1>7
    <2> DEFINE r == n - (i + 1)
    <2>3. r \in Nat /\ r <= C /\ Len(t) = r
        BY <1>1, <1>2, <2>2
    <2> HIDE DEF r
    <2>4. Len(v) = Smaller(C, r)
        BY <1>1, <2>1, <2>3 DEF Smaller
    <2>5. \A j \in 1..Len(v) : v[j] = k.items[i + 1 + j]
        BY <1>2, <1>4, <2>1
    <2> QED BY <1>5, <2>4, <2>5 DEF InPlace, n, i, C, r
<1> QED BY <1>6, <1>7
=============================================================================

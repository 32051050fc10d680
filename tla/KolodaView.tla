----------------------------- MODULE KolodaView -----------------------------
(***************************************************************************)
(* The card pile: the vendored Koloda view as the app drives it, on top of *)
(* DatabaseManager.itemsForCardView.  A pile is any record with fields     *)
(*   items    itemsForCardView, the dinners in the order they are dealt    *)
(*   index    currentCardIndex, how many cards have been swiped away       *)
(*   visible  visibleCards, as the dinners that were drawn on them: a card *)
(*            keeps the dinner it was built with when items is replaced    *)
(* so the operators below also apply to the larger records of modules that *)
(* extend this one.                                                        *)
(***************************************************************************)
EXTENDS Integers, Sequences

CONSTANT CountOfVisibleCards

ASSUME VisibleAssumption == CountOfVisibleCards \in Nat \ {0}

Smaller(a, b) == IF a <= b THEN a ELSE b

IsRunOutOfCards(k) == k.visible = <<>>

Clear(k) == [k EXCEPT !.index = 0, !.visible = <<>>]

SetupDeck(k) ==
    [k EXCEPT !.visible =
        SubSeq(k.items, k.index + 1, Smaller(k.index + CountOfVisibleCards, Len(k.items)))]

LoadMissingCards(k) ==
    LET shown == k.index + Len(k.visible) IN
    [k EXCEPT !.visible =
        @ \o SubSeq(k.items, shown + 1, Smaller(k.index + CountOfVisibleCards, Len(k.items)))]

ReconfigureCards(k) ==
    [k EXCEPT !.visible = SubSeq(k.items, k.index + 1, k.index + Len(k.visible))]

\* reconfigureCards asks the data source for items![index] past the end.
ReloadFails(k) ==
    /\ Len(k.items) > 0
    /\ k.index > 0
    /\ k.visible # <<>>
    /\ k.index + Len(k.visible) > Len(k.items)

\* A bug: the cards on the screen are never drawn again.
ReloadDataKeepingCards(k) ==
    CASE k.items = <<>>                                    -> Clear(k)
      [] Len(k.items) > k.index + Len(k.visible)           -> LoadMissingCards(k)
      [] Len(k.items) \in 1..(k.index + Len(k.visible))    -> k

\* reloadData: a pile that has not been swiped yet is dealt anew, one that
\* has been keeps its position and the cards already on the screen.
ReloadData(k) ==
    LET n == Len(k.items)
        shown == k.index + Len(k.visible)
    IN  CASE n = 0                                            -> Clear(k)
          [] n > 0 /\ k.index = 0                             -> SetupDeck(Clear(k))
          [] n > 0 /\ k.index > 0 /\ n > shown /\ k.visible = <<>> -> SetupDeck(k)
          [] n > 0 /\ k.index > 0 /\ n > shown /\ k.visible # <<>> -> LoadMissingCards(k)
          [] n > 0 /\ k.index > 0 /\ n <= shown /\ k.visible # <<>> -> ReconfigureCards(k)
          [] n > 0 /\ k.index > 0 /\ n <= shown /\ k.visible = <<>> -> k

ResetCurrentCardIndex(k) == ReloadData(Clear(k))

\* A bug: the card after the last one that is on the screen is counted from 0.
NextCardFromZero(k) == k.index + Smaller(CountOfVisibleCards, Len(k.items))

\* swipedAction: the front card goes, and the next one that is not on the
\* screen yet is loaded behind the others.
NextCard(k) == k.index + Smaller(CountOfVisibleCards, Len(k.items)) + 1

SwipedAction(k) ==
    [k EXCEPT !.index = @ + 1,
              !.visible = IF NextCard(k) <= Len(k.items)
                          THEN Append(Tail(@), k.items[NextCard(k)])
                          ELSE Tail(@)]
=============================================================================

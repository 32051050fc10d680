-------------------------- MODULE FavouritesProofs --------------------------
(***************************************************************************)
(* The favourites, for any set of dinners.                                 *)
(***************************************************************************)
EXTENDS Favourites, SequenceTheorems, TLAPS

\* The table's copy agrees with the stored list while a row can be deleted,
\* so the rows of the alert are rows of the stored list.
IInv == TypeOK /\ TableShowsTheStoredList /\ NoFavouriteTwice /\ RowsAreThere

-----------------------------------------------------------------------------
\* Removing one row leaves the others, in their order.
LEMMA RemoveAtProperties ==
    ASSUME NEW s \in Seq(Dinners), NEW i \in 1..Len(s)
    PROVE  /\ RemoveAt(s, i) \in Seq(Dinners)
           /\ Len(RemoveAt(s, i)) = Len(s) - 1
           /\ \A j \in 1..(Len(s) - 1) :
                RemoveAt(s, i)[j] = IF j < i THEN s[j] ELSE s[j + 1]
<1> DEFINE left == SubSeq(s, 1, i - 1)
           right == SubSeq(s, i + 1, Len(s))
<1>1. /\ Len(s) \in Nat /\ i \in Nat
      /\ \A j \in 1..Len(s) : s[j] \in Dinners
    BY LenProperties, ElementOfSeq
<1>2. /\ left \in Seq(Dinners) /\ Len(left) = i - 1
      /\ \A j \in 1..(i - 1) : left[j] = s[j]
    <2>1. \A j \in 1..(i - 1) : s[j] \in Dinners
        BY <1>1
    <2> QED BY <1>1, <2>1, SubSeqProperties
<1>3. /\ right \in Seq(Dinners) /\ Len(right) = Len(s) - i
      /\ \A j \in 1..(Len(s) - i) : right[j] = s[i + j]
    <2>1. \A j \in (i + 1)..Len(s) : s[j] \in Dinners
        BY <1>1
    <2> QED BY <1>1, <2>1, SubSeqProperties
<1> HIDE DEF left, right
<1>4. /\ left \o right \in Seq(Dinners)
      /\ Len(left \o right) = Len(s) - 1
      /\ \A j \in 1..(Len(s) - 1) :
            (left \o right)[j] = IF j <= i - 1 THEN left[j] ELSE right[j - (i - 1)]
    BY <1>1, <1>2, <1>3, ConcatProperties
<1>5. \A j \in 1..(Len(s) - 1) : (left \o right)[j] = IF j < i THEN s[j] ELSE s[j + 1]
    <2> TAKE j \in 1..(Len(s) - 1)
    <2>1. CASE j < i
        BY <1>1, <1>2, <1>4, <2>1
    <2>2. CASE i <= j
        <3>1. /\ j - (i - 1) \in 1..(Len(s) - i)
              /\ i + (j - (i - 1)) = j + 1
            BY <1>1, <2>2
        <3>2. right[j - (i - 1)] = s[j + 1]
            BY <1>3, <3>1
        <3> QED BY <1>1, <1>4, <2>2, <3>2
    <2>3. j < i \/ i <= j
        BY <1>1
    <2> QED BY <2>1, <2>2, <2>3
<1> QED BY <1>4, <1>5 DEF RemoveAt, left, right

\* A list without repetitions stays one when a row goes.
LEMMA RemoveAtInjective ==
    ASSUME NEW s \in Seq(Dinners), NEW i \in 1..Len(s), IsInjective(s)
    PROVE  IsInjective(RemoveAt(s, i))
<1> DEFINE r == RemoveAt(s, i)
<1>1. /\ DOMAIN s = 1..Len(s) /\ Len(s) \in Nat
      /\ r \in Seq(Dinners) /\ DOMAIN r = 1..(Len(s) - 1)
      /\ \A j \in 1..(Len(s) - 1) : r[j] = IF j < i THEN s[j] ELSE s[j + 1]
    BY RemoveAtProperties, LenProperties
<1> SUFFICES ASSUME NEW j \in 1..(Len(s) - 1), NEW k \in 1..(Len(s) - 1), r[j] = r[k]
             PROVE  j = k
    BY <1>1 DEF IsInjective
<1> DEFINE at(n) == IF n < i THEN n ELSE n + 1
<1>2. /\ at(j) \in 1..Len(s) /\ at(k) \in 1..Len(s)
      /\ r[j] = s[at(j)] /\ r[k] = s[at(k)]
    BY <1>1
<1>3. at(j) = at(k)
    BY <1>1, <1>2 DEF IsInjective
<1> QED BY <1>3, <1>1

\* A new dinner at the end repeats nothing.
LEMMA AppendInjectively ==
    ASSUME NEW s \in Seq(Dinners), NEW x \in Dinners, IsInjective(s), x \notin ToSet(s)
    PROVE  IsInjective(Append(s, x))
<1>1. /\ DOMAIN s = 1..Len(s) /\ Len(s) \in Nat
      /\ DOMAIN Append(s, x) = 1..(Len(s) + 1)
      /\ \A j \in 1..Len(s) : Append(s, x)[j] = s[j]
      /\ Append(s, x)[Len(s) + 1] = x
    BY AppendProperties, LenProperties
<1>2. \A j \in 1..Len(s) : s[j] # x
    BY <1>1 DEF ToSet
<1> QED BY <1>1, <1>2 DEF IsInjective

-----------------------------------------------------------------------------
LEMMA IInvInit == Init => IInv
<1> SUFFICES ASSUME Init PROVE IInv
    OBVIOUS
<1>1. Nil # <<>>
    BY NilAssumption, EmptySeq
<1>2. TypeOK
    BY DEF Init, TypeOK, Screens, Elsewhere
<1>3. TableShowsTheStoredList /\ RowsAreThere
    BY <1>1 DEF Init, TableShowsTheStoredList, RowsAreThere, Elsewhere
<1>4. NoFavouriteTwice
    BY EmptySeq DEF Init, NoFavouriteTwice, Stored, IsInjective
<1> QED BY <1>2, <1>3, <1>4 DEF IInv

\* The actions that leave the stored list alone.
LEMMA IInvLooking ==
    ASSUME IInv, UNCHANGED favorites,
           \/ OpenDinner \/ ExitPressed \/ OpenFavourites \/ LeaveFavourites
           \/ DidSelectRow \/ CommitDelete \/ DeleteDeclined \/ Killed \/ Launched
    PROVE  IInv'
<1> USE DEF IInv, TypeOK, RowsAreThere, Screens, Elsewhere, Table, Closed, Dinner, Alert
<1>1. NoFavouriteTwice'
    BY DEF NoFavouriteTwice, Stored
<1>2. CASE OpenDinner
    BY <1>1, <1>2 DEF OpenDinner, TableShowsTheStoredList
<1>3. CASE ExitPressed
    <2>1. /\ screen \in [name : {"dinner"}, dinner : Dinners, from : {Elsewhere, Table}]
          /\ screen' = screen.from
        BY <1>3 DEF ExitPressed
    <2>2. CASE screen.from = Table
        BY <1>1, <1>3, <2>1, <2>2
           DEF ExitPressed, GetFavoriteDinners, TableShowsTheStoredList
    <2>3. CASE screen.from = Elsewhere
        BY <1>1, <1>3, <2>1, <2>3 DEF ExitPressed, TableShowsTheStoredList
    <2> QED BY <2>1, <2>2, <2>3
<1>4. CASE OpenFavourites
    BY <1>1, <1>4 DEF OpenFavourites, TableShowsTheStoredList
<1>5. CASE LeaveFavourites
    BY <1>1, <1>5 DEF LeaveFavourites, TableShowsTheStoredList
<1>6. CASE DidSelectRow
    BY <1>1, <1>6, ElementOfSeq DEF DidSelectRow, TableShowsTheStoredList
<1>7. CASE CommitDelete
    BY <1>1, <1>7, EmptySeq DEF CommitDelete, NumberOfRows, TableShowsTheStoredList
<1>8. CASE DeleteDeclined
    BY <1>1, <1>8 DEF DeleteDeclined, TableShowsTheStoredList
<1>9. CASE Killed
    BY <1>1, <1>9 DEF Killed, TableShowsTheStoredList
<1>10. CASE Launched
    BY <1>1, <1>10 DEF Launched, TableShowsTheStoredList
<1> QED BY <1>2, <1>3, <1>4, <1>5, <1>6, <1>7, <1>8, <1>9, <1>10

LEMMA IInvAdding ==
    ASSUME IInv, AddToFavoritesPressed
    PROVE  IInv'
<1> USE DEF IInv, TypeOK
<1>1. /\ screen \in [name : {"dinner"}, dinner : Dinners, from : {Elsewhere, Table}]
      /\ UNCHANGED <<dinners, screen>>
    BY DEF AddToFavoritesPressed, Screens, Elsewhere, Table, Closed
<1>2. /\ favorites' \in Seq(Dinners) /\ favorites' # <<>> /\ favorites' # Nil
      /\ IsInjective(favorites')
    <2>1. CASE favorites = Nil
        <3>1. favorites' = <<screen.dinner>>
            BY <2>1 DEF AddToFavoritesPressed
        <3>2. favorites' \in Seq(Dinners) /\ favorites' # <<>> /\ DOMAIN favorites' = 1..1
            BY <1>1, <3>1
        <3> QED BY <3>2, NilAssumption DEF IsInjective
    <2>2. CASE favorites # Nil /\ screen.dinner \in ToSet(favorites)
        BY <2>2 DEF AddToFavoritesPressed, NoFavouriteTwice, Stored, RowsAreThere
    <2>3. CASE favorites # Nil /\ screen.dinner \notin ToSet(favorites)
        <3>1. favorites' = Append(favorites, screen.dinner)
            BY <2>3 DEF AddToFavoritesPressed
        <3>2. IsInjective(favorites) /\ favorites \in Seq(Dinners)
            BY <2>3 DEF NoFavouriteTwice, Stored
        <3> QED BY <1>1, <2>3, <3>1, <3>2, AppendInjectively, AppendProperties, NilAssumption
    <2> QED BY <2>1, <2>2, <2>3
<1>3. NoFavouriteTwice'
    BY <1>2 DEF NoFavouriteTwice, Stored
<1> QED BY <1>1, <1>2, <1>3 DEF TableShowsTheStoredList, RowsAreThere

\* While the alert is up, the stored list is the copy, and the row is in it.
LEMMA AlertRow ==
    ASSUME IInv, screen.name = "alert"
    PROVE  /\ favorites \in Seq(Dinners) /\ dinners = favorites
           /\ favorites # Nil /\ IsInjective(favorites)
           /\ screen.row \in 1..Len(favorites)
           /\ Stored = favorites
BY DEF IInv, TypeOK, TableShowsTheStoredList, RowsAreThere, NoFavouriteTwice, Stored

LEMMA IInvDeleting ==
    ASSUME IInv, DeleteConfirmed
    PROVE  IInv'
<1> DEFINE left == RemoveAt(favorites, screen.row)
<1>1. /\ favorites \in Seq(Dinners) /\ dinners = favorites
      /\ favorites # Nil /\ IsInjective(favorites)
      /\ screen.row \in 1..Len(favorites)
    BY AlertRow DEF DeleteConfirmed
<1>2. left \in Seq(Dinners) /\ Len(left) = Len(favorites) - 1 /\ IsInjective(left)
    BY <1>1, RemoveAtProperties, RemoveAtInjective
<1>3. dinners' = left
    BY <1>1 DEF DeleteConfirmed
<1> HIDE DEF left
<1>4. CASE favorites' = left /\ screen' = Table /\ NumberOfRows(left) = NumberOfRows(favorites) - 1
    <2>1. left # <<>> /\ left # Nil
        BY <1>1, <1>2, <1>4, NilAssumption, EmptySeq DEF NumberOfRows, IInv, RowsAreThere
    <2>2. NoFavouriteTwice'
        BY <1>2, <1>4, <2>1 DEF NoFavouriteTwice, Stored
    <2> QED BY <1>2, <1>3, <1>4, <2>1, <2>2
            DEF IInv, TypeOK, TableShowsTheStoredList, RowsAreThere, Screens, Table
<1>5. CASE favorites' = favorites /\ screen' = Closed
    <2>1. NoFavouriteTwice'
        BY <1>5 DEF IInv, NoFavouriteTwice, Stored
    <2> QED BY <1>2, <1>3, <1>5, <2>1
            DEF IInv, TypeOK, TableShowsTheStoredList, RowsAreThere, Screens, Closed
<1> QED BY <1>1, <1>4, <1>5 DEF DeleteConfirmed, left

LEMMA IInvNext == IInv /\ [Next]_vars => IInv'
<1> SUFFICES ASSUME IInv, [Next]_vars PROVE IInv'
    OBVIOUS
<1>1. CASE UNCHANGED vars
    BY <1>1 DEF vars, IInv, TypeOK, TableShowsTheStoredList, NoFavouriteTwice, Stored,
                RowsAreThere
<1>2. CASE AddToFavoritesPressed
    BY <1>2, IInvAdding
<1>3. CASE DeleteConfirmed
    BY <1>3, IInvDeleting
<1>4. ASSUME \/ OpenDinner \/ ExitPressed \/ OpenFavourites \/ LeaveFavourites
             \/ DidSelectRow \/ CommitDelete \/ DeleteDeclined \/ Killed \/ Launched
      PROVE  IInv'
    <2>1. UNCHANGED favorites
        BY <1>4 DEF OpenDinner, ExitPressed, OpenFavourites, LeaveFavourites, DidSelectRow,
                    CommitDelete, DeleteDeclined, Killed, Launched
    <2> QED BY <1>4, <2>1, IInvLooking
<1> QED BY <1>1, <1>2, <1>3, <1>4 DEF Next

LEMMA Invariance == Spec => []IInv
<1> QED BY IInvInit, IInvNext, PTL DEF Spec

-----------------------------------------------------------------------------
\* Type correctness.
THEOREM TypeCorrect == Spec => []TypeOK
<1>1. IInv => TypeOK
    BY DEF IInv
<1> QED BY <1>1, Invariance, PTL

\* Whenever the table is up, its copy is the list in UserDefaults.
THEOREM CopyIsStored == Spec => []TableShowsTheStoredList
<1>1. IInv => TableShowsTheStoredList
    BY DEF IInv
<1> QED BY <1>1, Invariance, PTL

\* No dinner is stored twice.
THEOREM NoRepetition == Spec => []NoFavouriteTwice
<1>1. IInv => NoFavouriteTwice
    BY DEF IInv
<1> QED BY <1>1, Invariance, PTL

\* A row to be deleted exists, and the stored list is never empty.
THEOREM RowsExist == Spec => []RowsAreThere
<1>1. IInv => RowsAreThere
    BY DEF IInv
<1> QED BY <1>1, Invariance, PTL

\* Only the dinner in the confirmed row ever leaves the stored list.
THEOREM OnlyShownRowsAreDeleted == Spec => DeletionTakesTheShownRow
<1>1. ASSUME IInv, [Next]_vars
      PROVE  [OnlyTheRowGoes]_vars
    <2> SUFFICES ASSUME NEW x \in Dinners, x \in ToSet(Stored), x \notin ToSet(Stored')
                 PROVE  screen.name = "alert" /\ dinners[screen.row] = x
        BY DEF OnlyTheRowGoes
    <2>1. Stored' # Stored
        OBVIOUS
    <2>2. favorites' # favorites
        BY <2>1 DEF Stored
    <2>3. CASE AddToFavoritesPressed
        <3>1. favorites # Nil
            BY EmptySeq DEF Stored, ToSet
        <3>2. favorites \in Seq(Dinners) /\ screen.dinner \in Dinners
            BY <1>1, <2>3, <3>1 DEF IInv, TypeOK, Screens, Elsewhere, Table, Closed, AddToFavoritesPressed
        <3>3. favorites' = Append(favorites, screen.dinner)
            BY <2>2, <2>3, <3>1 DEF AddToFavoritesPressed
        <3>4. favorites' # Nil
            BY <3>2, <3>3, AppendProperties, NilAssumption
        <3>5. \A j \in DOMAIN favorites : j \in DOMAIN favorites' /\ favorites'[j] = favorites[j]
            BY <3>2, <3>3, AppendProperties, LenProperties
        <3> QED BY <3>1, <3>4, <3>5 DEF Stored, ToSet
    <2>4. CASE DeleteConfirmed
        <3> DEFINE row == screen.row
        <3>1. /\ favorites \in Seq(Dinners) /\ dinners = favorites /\ favorites # Nil
              /\ row \in 1..Len(favorites) /\ Stored = favorites
            BY <1>1, <2>4, AlertRow DEF DeleteConfirmed
        <3>2. favorites' = RemoveAt(favorites, row)
            BY <2>2, <2>4 DEF DeleteConfirmed
        <3>3. favorites' # Nil
            BY <3>1, <3>2, RemoveAtProperties, NilAssumption
        <3>4. /\ DOMAIN favorites = 1..Len(favorites) /\ Len(favorites) \in Nat
              /\ DOMAIN favorites' = 1..(Len(favorites) - 1)
              /\ \A j \in 1..(Len(favorites) - 1) :
                    favorites'[j] = IF j < row THEN favorites[j] ELSE favorites[j + 1]
            BY <3>1, <3>2, RemoveAtProperties, LenProperties
        <3>5. PICK k \in 1..Len(favorites) : favorites[k] = x
            BY <3>1, <3>4 DEF ToSet
        <3>6. \A j \in 1..(Len(favorites) - 1) : favorites'[j] # x
            BY <3>3, <3>4 DEF Stored, ToSet
        <3>7. ~(k < row)
            BY <3>1, <3>4, <3>5, <3>6
        <3>8. ~(k > row)
            <4>1. ASSUME k > row PROVE FALSE
                <5>1. k - 1 \in 1..(Len(favorites) - 1) /\ ~(k - 1 < row) /\ (k - 1) + 1 = k
                    BY <3>1, <3>4, <3>5, <4>1
                <5>2. favorites'[k - 1] = favorites[k]
                    BY <3>4, <5>1
                <5> QED BY <3>5, <3>6, <5>1, <5>2
            <4> QED BY <4>1
        <3>9. k = row
            BY <3>1, <3>4, <3>7, <3>8
        <3> QED BY <2>4, <3>1, <3>5, <3>9 DEF DeleteConfirmed
    <2> QED BY <1>1, <2>2, <2>3, <2>4
            DEF Next, vars, OpenDinner, ExitPressed, OpenFavourites, LeaveFavourites,
                DidSelectRow, CommitDelete, DeleteDeclined, Killed, Launched
<1> QED BY <1>1, Invariance, PTL DEF Spec, DeletionTakesTheShownRow
=============================================================================

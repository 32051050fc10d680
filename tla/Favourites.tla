----------------------------- MODULE Favourites -----------------------------
(***************************************************************************)
(* The favourites: a list of dinner ids in UserDefaults, which             *)
(* SelectedDinnerViewController appends to, and the table of               *)
(* FavouritesViewController, which keeps its own copy of the list and      *)
(* deletes from both by row.  UIKit terminates the app when deleteRows     *)
(* leaves a number of rows that does not match.                            *)
(***************************************************************************)
EXTENDS Integers, Sequences, SequencesExt

CONSTANTS
    Nil,            \* an absent optional
    Dinners         \* dinner ids

ASSUME NilAssumption == Nil \notin Seq(Dinners)

VARIABLES
    favorites,      \* UserDefaults "favorites", or Nil
    dinners,        \* FavouritesViewController.dinners, or Nil
    screen          \* what is on the screen, and where from

vars == <<favorites, dinners, screen>>

Elsewhere  == [name |-> "elsewhere"]
Table      == [name |-> "table"]
Closed     == [name |-> "closed"]
Dinner(x, from) == [name |-> "dinner", dinner |-> x, from |-> from]
Alert(row) == [name |-> "alert", row |-> row]

Screens == {Elsewhere, Table, Closed}
           \cup [name : {"dinner"}, dinner : Dinners, from : {Elsewhere, Table}]
           \cup [name : {"alert"}, row : Nat]

Init == favorites = Nil /\ dinners = Nil /\ screen = Elsewhere

Stored == IF favorites = Nil THEN <<>> ELSE favorites

\* tableView(numberOfRowsInSection:): an empty list shows one row that says so.
NumberOfRows(list) == IF list = Nil \/ list = <<>> THEN 1 ELSE Len(list)

-----------------------------------------------------------------------------
\* A dinner is opened from a dinner list.
OpenDinner == \E x \in Dinners :
    /\ screen = Elsewhere
    /\ screen' = Dinner(x, Elsewhere)
    /\ UNCHANGED <<favorites, dinners>>

\* Bugs: the first favourite is stored in place of a list; a dinner that is
\* there already is added again.
AddBare ==
    /\ screen.name = "dinner"
    /\ favorites' = IF favorites = Nil THEN screen.dinner
                    ELSE IF screen.dinner \in ToSet(favorites) THEN favorites
                    ELSE Append(favorites, screen.dinner)
    /\ UNCHANGED <<dinners, screen>>

AddAgain ==
    /\ screen.name = "dinner"
    /\ Len(Stored) < 4
    /\ favorites' = Append(Stored, screen.dinner)
    /\ UNCHANGED <<dinners, screen>>

AddToFavoritesPressed ==
    /\ screen.name = "dinner"
    /\ favorites' = IF favorites = Nil THEN <<screen.dinner>>
                    ELSE IF screen.dinner \in ToSet(favorites) THEN favorites
                    ELSE Append(favorites, screen.dinner)
    /\ UNCHANGED <<dinners, screen>>

\* getFavoriteDinners leaves the copy alone when nothing was ever stored.
GetFavoriteDinners == dinners' = IF favorites = Nil THEN dinners ELSE favorites

\* Going back to the table runs its viewWillAppear.
ExitPressed ==
    /\ screen.name = "dinner"
    /\ screen' = screen.from
    /\ IF screen.from = Table THEN GetFavoriteDinners ELSE UNCHANGED dinners
    /\ UNCHANGED favorites

\* A new view controller is pushed, which starts without a copy.
OpenFavourites ==
    /\ screen = Elsewhere
    /\ screen' = Table
    /\ dinners' = favorites
    /\ UNCHANGED favorites

LeaveFavourites ==
    /\ screen = Table
    /\ screen' = Elsewhere
    /\ UNCHANGED <<favorites, dinners>>

DidSelectRow == \E row \in 1..NumberOfRows(dinners) :
    /\ screen = Table
    /\ dinners # Nil /\ row <= Len(dinners)
    /\ screen' = Dinner(dinners[row], Table)
    /\ UNCHANGED <<favorites, dinners>>

\* A bug: the row is counted from 0.
CommitDeleteFromZero == \E row \in 1..NumberOfRows(dinners) :
    /\ screen = Table
    /\ dinners # Nil
    /\ screen' = Alert(row - 1)
    /\ UNCHANGED <<favorites, dinners>>

\* Swiping a row to delete it.
CommitDelete == \E row \in 1..NumberOfRows(dinners) :
    /\ screen = Table
    /\ dinners # Nil
    /\ screen' = Alert(row)
    /\ UNCHANGED <<favorites, dinners>>

\* Bugs: only the copy loses the row; both lists lose their last row.
DeleteFromCopy ==
    /\ screen.name = "alert"
    /\ dinners' = RemoveAt(dinners, screen.row)
    /\ screen' = Table
    /\ UNCHANGED favorites

DeleteLast ==
    /\ screen.name = "alert"
    /\ dinners' = Front(dinners)
    /\ IF Len(dinners) > 1 THEN favorites' = Front(favorites) /\ screen' = Table
                           ELSE favorites' = favorites /\ screen' = Closed

\* The copy first, then the table, then UserDefaults.
DeleteConfirmed ==
    LET row == screen.row
        left == RemoveAt(dinners, row)
    IN
    /\ screen.name = "alert"
    /\ dinners' = left
    /\ \/ /\ NumberOfRows(left) = NumberOfRows(dinners) - 1
          /\ favorites' = RemoveAt(favorites, row)
          /\ screen' = Table
       \/ /\ NumberOfRows(left) # NumberOfRows(dinners) - 1
          /\ screen' = Closed
          /\ UNCHANGED favorites

DeleteDeclined ==
    /\ screen.name = "alert"
    /\ screen' = Table
    /\ UNCHANGED <<favorites, dinners>>

\* The app may be killed at any time; UserDefaults survives.
Killed ==
    /\ screen # Closed
    /\ screen' = Closed
    /\ UNCHANGED <<favorites, dinners>>

Launched ==
    /\ screen = Closed
    /\ screen' = Elsewhere
    /\ dinners' = Nil
    /\ UNCHANGED favorites

Next == \/ OpenDinner \/ AddToFavoritesPressed \/ ExitPressed
        \/ OpenFavourites \/ LeaveFavourites \/ DidSelectRow
        \/ CommitDelete \/ DeleteConfirmed \/ DeleteDeclined
        \/ Killed \/ Launched

Spec == Init /\ [][Next]_vars

-----------------------------------------------------------------------------
\* Type correctness.
TypeOK == /\ favorites \in Seq(Dinners) \cup {Nil}
          /\ dinners \in Seq(Dinners) \cup {Nil}
          /\ screen \in Screens

\* The table deletes from UserDefaults by the row of its own copy, which is
\* right because the two lists agree whenever the table is up.
TableShowsTheStoredList == screen.name \in {"table", "alert"} => dinners = favorites

\* No dinner becomes a favourite twice, so a row stands for one dinner.
NoFavouriteTwice == IsInjective(Stored)

\* A row that is about to be deleted is a row of the copy, the table is only
\* come back to when there are favourites, and the stored list is never
\* empty: the app is gone before it could write that.
RowsAreThere ==
    /\ favorites # <<>>
    /\ screen.name = "alert" => dinners # Nil /\ screen.row \in 1..Len(dinners)
    /\ screen.name = "dinner" => (screen.from = Table => favorites # Nil)

\* Whatever leaves the stored list is the one dinner in the row the user
\* confirmed, and only when the user confirmed it.
OnlyTheRowGoes ==
    \A x \in Dinners :
        (x \in ToSet(Stored) /\ x \notin ToSet(Stored')) =>
            screen.name = "alert" /\ dinners[screen.row] = x
DeletionTakesTheShownRow == [][OnlyTheRowGoes]_vars
=============================================================================

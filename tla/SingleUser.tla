----------------------------- MODULE SingleUser -----------------------------
(***************************************************************************)
(* The app on one device with the switch off: what it keeps on disk (the   *)
(* Core Data store filled by PreloadManager, its "First Launch" flag, the  *)
(* allergens.plist), the deck that DatabaseManager draws from it, and the  *)
(* settings screens that change the filter.  The app may be killed between *)
(* any two steps, also while it preloads.                                  *)
(***************************************************************************)
EXTENDS KolodaView, FiniteSets, Functions

CONSTANTS
    Nil,            \* an absent optional or file
    DinnerList,     \* PreloadManager.dinnerList, a sequence of dinner ids
    Allergens,      \* the keys of allergens.plist
    AllergensOf,    \* the allergens named in each dinner
    CardCounts,     \* positions of the slider
    DefaultCards,   \* SettingsManager.numberOfDesieredCards at launch
    MaxKills        \* bound: times the app is killed

Dinners == Range(DinnerList)

\* Every dinner of the list has a uniqueID of its own.
ASSUME DinnerListAssumption == DinnerList \in Seq(Dinners) /\ IsInjective(DinnerList)

ASSUME StoreAssumption ==
    /\ AllergensOf \in [Dinners -> SUBSET Allergens]
    /\ DefaultCards \in Nat /\ CardCounts \subseteq Nat /\ MaxKills \in Nat

VARIABLES
    rows,           \* disk: how many Dinner rows the store has per uniqueID
    firstLaunch,    \* disk: UserDefaults "First Launch", true once preloaded
    plist,          \* disk: allergens.plist, an allergen is on or off
    app,            \* the running app
    kills

vars == <<rows, firstLaunch, plist, app, kills>>

Stages == {"closed", "preloading", "loading", "cards", "settings", "list", "restart"}

(***************************************************************************)
(* saved counts the dinners preLoadDinners has saved in this launch; trap  *)
(* names the nil that ended the last launch, if one did.                   *)
(***************************************************************************)
Apps == [stage : Stages,
         trap : {"none", "itemsForCardView", "wantedDinnersId"},
         saved : 0..Len(DinnerList),
         allergensState : [Allergens -> {0, 1}] \cup {Nil},
         numberOfDesieredCards : Nat,
         items : Seq(Dinners),
         index : Nat,
         visible : Seq(Dinners),
         wantedDinnersId : (SUBSET Dinners) \cup {Nil},
         dinnerList : (SUBSET Dinners) \cup {Nil}]

ClosedApp(trap) ==
    [stage |-> "closed", trap |-> trap, saved |-> 0, allergensState |-> Nil,
     numberOfDesieredCards |-> DefaultCards, items |-> <<>>, index |-> 0,
     visible |-> <<>>, wantedDinnersId |-> Nil, dinnerList |-> Nil]

Init == /\ rows = [x \in Dinners |-> 0]
        /\ firstLaunch = FALSE
        /\ plist = Nil
        /\ app = ClosedApp("none")
        /\ kills = 0

OnlyApp(a) == app' = a /\ UNCHANGED <<rows, firstLaunch, plist, kills>>

-----------------------------------------------------------------------------
(***************************************************************************)
(* Launching: PreloadManager, then viewDidLoad.                            *)
(***************************************************************************)
\* A bug: the flag is not looked at.
LaunchPreloading ==
    /\ app.stage = "closed"
    /\ OnlyApp([ClosedApp("none") EXCEPT !.stage = "preloading"])

\* checkIfPreloaded, in loadView.
Launch ==
    /\ app.stage = "closed"
    /\ OnlyApp([ClosedApp("none") EXCEPT !.stage = IF firstLaunch THEN "loading" ELSE "preloading"])

\* One round of preLoadDinners: a new row, and a save.
PreloadDinner ==
    /\ app.stage = "preloading" /\ app.saved < Len(DinnerList)
    /\ rows' = [rows EXCEPT ![DinnerList[app.saved + 1]] = @ + 1]
    /\ app' = [app EXCEPT !.saved = @ + 1]
    /\ UNCHANGED <<firstLaunch, plist, kills>>

\* A bug: the flag is set before the dinners are saved.
SetFirstLaunchEarly ==
    /\ app.stage = "preloading"
    /\ firstLaunch' = TRUE
    /\ app' = [app EXCEPT !.stage = "loading"]
    /\ UNCHANGED <<rows, plist, kills>>

\* The flag is set only after the last save.
SetFirstLaunch ==
    /\ app.stage = "preloading" /\ app.saved = Len(DinnerList)
    /\ firstLaunch' = TRUE
    /\ app' = [app EXCEPT !.stage = "loading"]
    /\ UNCHANGED <<rows, plist, kills>>

\* loadAllergensPlistData copies the bundled file, all allergens on, when
\* there is none yet.
LoadedPlist == IF plist = Nil THEN [al \in Allergens |-> 1] ELSE plist

\* A bug: only dinners with every allergen off are filtered.
FilteredByAll(state) ==
    {r \in {<<x, n>> : x \in Dinners, n \in 1..(1 + MaxKills)} :
        /\ r[2] <= rows[r[1]]
        /\ \E al \in AllergensOf[r[1]] : state[al] # 0}

\* filterWithMultipleAllergens: the rows without an allergen that is off.
Filtered(state) ==
    {r \in {<<x, n>> : x \in Dinners, n \in 1..(1 + MaxKills)} :
        /\ r[2] <= rows[r[1]]
        /\ \A al \in AllergensOf[r[1]] : state[al] # 0}

\* appendCardsToKolodaWithAmount draws random rows without replacement.
Decks(state, number) ==
    LET pool == Filtered(state)
        size == Smaller(number, Cardinality(pool))
    IN  {[i \in 1..size |-> s[i][1]] :
            s \in {t \in [1..size -> pool] : \A i, j \in 1..size : t[i] = t[j] => i = j}}

\* viewDidLoad draws twice, once for the card view and once more for itself;
\* viewDidAppear makes the card view show the second draw.  A draw that finds
\* no row leaves itemsForCardView nil and then unwraps it.
ViewDidLoad ==
    LET state == LoadedPlist IN
    /\ app.stage = "loading"
    /\ plist' = state
    /\ UNCHANGED <<rows, firstLaunch, kills>>
    /\ \/ /\ Filtered(state) # {}
          /\ \E deck \in Decks(state, app.numberOfDesieredCards) :
                app' = ResetCurrentCardIndex(
                         [app EXCEPT !.stage = "cards", !.allergensState = state, !.items = deck])
       \/ /\ Filtered(state) = {}
          /\ app' = ClosedApp("itemsForCardView")

-----------------------------------------------------------------------------
(***************************************************************************)
(* Swiping alone, and the dinner list.                                     *)
(***************************************************************************)
\* A bug: the data source draws other dinners each time it is asked.
DrawnAgain(a) ==
    [a EXCEPT !.allergensState = plist,
              !.items = [i \in DOMAIN @ |-> CHOOSE x \in Dinners : x # @[i]]]

\* kolodaNumberOfCards, which every swipe and every deal asks for, reads the
\* plist into memory again.
NumberOfCardsAsked(a) == [a EXCEPT !.allergensState = plist]

\* A bug: the position of the card is stored, not the id of its dinner.
RecordedPosition(right) ==
    LET x == app.index + 1 IN
    IF ~right THEN app
    ELSE [app EXCEPT !.wantedDinnersId = IF @ = Nil THEN {x} ELSE @ \cup {x}]

Recorded(right) ==
    LET x == app.items[app.index + 1] IN
    IF ~right THEN app
    ELSE [app EXCEPT !.wantedDinnersId = IF @ = Nil THEN {x} ELSE @ \cup {x}]

Swipe == \E right \in BOOLEAN :
    LET a == NumberOfCardsAsked(SwipedAction(Recorded(right))) IN
    /\ app.stage = "cards" /\ ~IsRunOutOfCards(app)
    /\ \/ /\ ~IsRunOutOfCards(a)
          /\ OnlyApp(a)
       \/ /\ IsRunOutOfCards(a) /\ a.wantedDinnersId # Nil
          /\ OnlyApp([a EXCEPT !.stage = "list", !.dinnerList = a.wantedDinnersId])
       \/ /\ IsRunOutOfCards(a) /\ a.wantedDinnersId = Nil
          /\ OnlyApp(ClosedApp("wantedDinnersId"))

\* viewWillAppear deals again when the cards have run out.  The data source
\* would draw a new deck only while appendCalled is 0, which it never is
\* after viewDidLoad: the same items come back.
ViewWillAppear(a) ==
    IF IsRunOutOfCards(a)
    THEN ResetCurrentCardIndex(NumberOfCardsAsked([a EXCEPT !.stage = "cards"]))
    ELSE [a EXCEPT !.stage = "cards"]

RestartPressed == app.stage = "list" /\ OnlyApp([app EXCEPT !.stage = "restart"])

RestartCancelled == app.stage = "restart" /\ OnlyApp([app EXCEPT !.stage = "list"])

RestartConfirmed ==
    /\ app.stage = "restart"
    /\ OnlyApp(ViewWillAppear([app EXCEPT !.dinnerList = Nil, !.wantedDinnersId = Nil]))

-----------------------------------------------------------------------------
(***************************************************************************)
(* The settings tab.                                                       *)
(***************************************************************************)
OpenSettings == app.stage = "cards" /\ OnlyApp([app EXCEPT !.stage = "settings"])

CloseSettings == app.stage = "settings" /\ OnlyApp(ViewWillAppear(app))

\* A bug: the change stays in memory.
EditAllergenInMemory == \E al \in Allergens :
    /\ app.stage = "settings"
    /\ app' = [app EXCEPT !.allergensState[al] = IF plist[al] = 0 THEN 1 ELSE 0]
    /\ UNCHANGED <<rows, firstLaunch, plist, kills>>

\* editAllergenPlistData reads the file, flips one entry there and in memory.
EditAllergen == \E al \in Allergens :
    LET flipped == IF plist[al] = 0 THEN 1 ELSE 0 IN
    /\ app.stage = "settings"
    /\ plist' = [plist EXCEPT ![al] = flipped]
    /\ app' = [app EXCEPT !.allergensState[al] = flipped]
    /\ UNCHANGED <<rows, firstLaunch, kills>>

SliderDidSlide == \E n \in CardCounts :
    /\ app.stage = "settings"
    /\ OnlyApp([app EXCEPT !.numberOfDesieredCards = n])

-----------------------------------------------------------------------------
Killed ==
    /\ app.stage # "closed" /\ kills < MaxKills
    /\ kills' = kills + 1
    /\ app' = ClosedApp("none")
    /\ UNCHANGED <<rows, firstLaunch, plist>>

Next == \/ Launch \/ PreloadDinner \/ SetFirstLaunch \/ ViewDidLoad
        \/ Swipe \/ RestartPressed \/ RestartCancelled \/ RestartConfirmed
        \/ OpenSettings \/ CloseSettings \/ EditAllergen \/ SliderDidSlide
        \/ Killed

Spec == Init /\ [][Next]_vars

-----------------------------------------------------------------------------
OnScreen == app.stage \notin {"closed", "preloading", "loading"}

\* Type correctness: what is on disk and in memory, and that every dinner
\* recorded or listed is one of the store.
TypeOK ==
    /\ rows \in [Dinners -> Nat]
    /\ firstLaunch \in BOOLEAN
    /\ plist \in [Allergens -> {0, 1}] \cup {Nil}
    /\ app \in Apps
    /\ kills \in 0..MaxKills

\* However often the first launch is interrupted, once the flag says that the
\* store has been filled every dinner is in it.
FlagMeansPreloaded == firstLaunch => \A x \in Dinners : rows[x] > 0

\* An interrupted first launch starts over and adds the rows it had saved
\* once more: one duplicate for each kill, and none without a kill.
DuplicatesComeFromKills == \A x \in Dinners : rows[x] <= 1 + kills

\* Every deck that is drawn passes the filter saved on disk at that time.
DrawnDeckPasses ==
    app'.items # app.items =>
        \A x \in Range(app'.items) : \A al \in AllergensOf[x] : plist'[al] = 1
DrawnDecksPassTheFilter == [][DrawnDeckPasses]_vars

\* The filter in memory, which draws decks, is the one on disk, which the
\* next launch will read.
FilterIsSaved == OnScreen => app.allergensState = plist

\* The list shown when the cards run out has only dinners of the deck that
\* was swiped, whatever was dealt and filtered before.
ListIsFromTheDeck ==
    app.stage \in {"list", "restart"} => app.dinnerList \subseteq Range(app.items)
=============================================================================

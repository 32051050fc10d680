-------------------------- MODULE SingleUserProofs --------------------------
(***************************************************************************)
(* Safety of the app on one device, for stores of any size, any allergens  *)
(* and any number of kills, also while the store is filled.                *)
(***************************************************************************)
EXTENDS SingleUser, KolodaViewProofs, FiniteSetTheorems

States == [Allergens -> {0, 1}]

\* The app a with a pile on the screen, and the filter state in memory.
Loaded(a, state) ==
    /\ a \in Apps
    /\ a.stage \notin {"closed", "preloading", "loading"}
    /\ state \in States /\ a.allergensState = state
    /\ Len(a.visible) <= CountOfVisibleCards
    /\ a.wantedDinnersId # Nil => a.wantedDinnersId \subseteq Range(a.items)
    /\ a.stage \in {"list", "restart"} => a.dinnerList \subseteq Range(a.items)

Sound(a, state) == Loaded(a, state) /\ Fits(a.items, a.index, a.visible)

\* Before the cards are there nothing is on the screen and nothing recorded.
Fresh(a) == a.visible = <<>> /\ a.wantedDinnersId = Nil

\* What an interrupted first launch has left: the dinners saved in this launch
\* are there, and those to come have at most one row for each kill.
Preloads ==
    /\ app.stage = "closed" /\ ~firstLaunch => \A x \in Dinners : rows[x] <= kills
    /\ app.stage = "preloading" =>
          /\ ~firstLaunch
          /\ \A i \in 1..app.saved : rows[DinnerList[i]] > 0
          /\ \A i \in (app.saved + 1)..Len(DinnerList) : rows[DinnerList[i]] <= kills
    /\ app.stage \notin {"closed", "preloading"} => firstLaunch

IInv == /\ TypeOK
        /\ FlagMeansPreloaded
        /\ DuplicatesComeFromKills
        /\ Preloads
        /\ IF OnScreen THEN Sound(app, plist) ELSE Fresh(app)

-----------------------------------------------------------------------------
(***************************************************************************)
(* The store and the decks drawn from it.                                  *)
(***************************************************************************)
LEMMA ListTypes ==
    /\ Len(DinnerList) \in Nat
    /\ \A i \in 1..Len(DinnerList) : DinnerList[i] \in Dinners
    /\ \A x \in Dinners : \E i \in 1..Len(DinnerList) : x = DinnerList[i]
    /\ \A i, j \in 1..Len(DinnerList) : DinnerList[i] = DinnerList[j] => i = j
<1>1. Len(DinnerList) \in Nat /\ DOMAIN DinnerList = 1..Len(DinnerList)
    BY DinnerListAssumption, LenProperties
<1> QED BY <1>1, DinnerListAssumption DEF Dinners, Range, IsInjective

\* The rows that pass a filter are finitely many.
LEMMA PoolIsFinite ==
    ASSUME NEW state
    PROVE  Cardinality(Filtered(state)) \in Nat
<1> DEFINE copies == 1..(1 + MaxKills)
           all == {<<x, n>> : x \in Dinners, n \in copies}
<1>1. IsFiniteSet(Dinners)
    <2>1. DinnerList \in Seq(Dinners)
        BY DinnerListAssumption
    <2>2. \A x \in Dinners : \E i \in 1..Len(DinnerList) : DinnerList[i] = x
        BY ListTypes
    <2> QED BY <2>1, <2>2 DEF IsFiniteSet
<1>2. IsFiniteSet(copies)
    BY FS_Interval, StoreAssumption
<1>3. IsFiniteSet(Dinners \X copies)
    BY <1>1, <1>2, FS_Product
<1>4. Filtered(state) \subseteq Dinners \X copies
    BY DEF Filtered
<1> QED BY <1>3, <1>4, FS_Subset, FS_CardinalityType

\* A deck has dinners that pass the filter it was drawn with, and no others.
LEMMA DeckPasses ==
    ASSUME NEW state \in States, NEW number \in Nat, NEW deck \in Decks(state, number)
    PROVE  /\ deck \in Seq(Dinners)
           /\ \A x \in Range(deck) : \A al \in AllergensOf[x] : state[al] = 1
<1> DEFINE pool == Filtered(state)
           size == Smaller(number, Cardinality(pool))
<1>1. size \in Nat
    BY PoolIsFinite DEF Smaller
<1>2. PICK s \in [1..size -> pool] : deck = [i \in 1..size |-> s[i][1]]
    BY DEF Decks
<1>3. \A r \in pool : r[1] \in Dinners /\ \A al \in AllergensOf[r[1]] : state[al] = 1
    BY StoreAssumption DEF Filtered, States
<1> HIDE DEF pool, size
<1>4. \A i \in 1..size : deck[i] = s[i][1] /\ s[i] \in pool
    BY <1>2
<1>5. deck \in [1..size -> Dinners]
    BY <1>2, <1>3, <1>4
<1>6. deck \in Seq(Dinners)
    BY <1>1, <1>5
<1>7. \A x \in Range(deck) : \E i \in 1..size : x = deck[i]
    BY <1>5 DEF Range
<1> QED BY <1>3, <1>4, <1>6, <1>7

-----------------------------------------------------------------------------
(***************************************************************************)
(* The pieces of the handlers.                                             *)
(***************************************************************************)
LEMMA FreshIsTyped ==
    ASSUME NEW t \in {"none", "itemsForCardView", "wantedDinnersId"}
    PROVE  ClosedApp(t) \in Apps /\ Fresh(ClosedApp(t)) /\ ClosedApp(t).stage = "closed"
<1>1. <<>> \in Seq(Dinners) /\ 0 \in 0..Len(DinnerList)
    BY EmptySeq, ListTypes
<1> QED BY <1>1, StoreAssumption DEF ClosedApp, Apps, Stages, Fresh

LEMMA DealtIsSound ==
    ASSUME NEW state, NEW a, Loaded(a, state), NEW b, Deals(a, Dinners, b)
    PROVE  Sound(b, state) /\ b.stage = a.stage /\ b.items = a.items
<1>1. PICK i \in Nat, v \in Seq(Dinners) :
          /\ b = [a EXCEPT !.index = i, !.visible = v]
          /\ Fits(a.items, i, v)
          /\ Len(v) <= CountOfVisibleCards
    BY DEF Deals
<1>2. /\ b \in Apps /\ b.stage = a.stage /\ b.items = a.items
      /\ b.index = i /\ b.visible = v
      /\ b.allergensState = a.allergensState
      /\ b.wantedDinnersId = a.wantedDinnersId /\ b.dinnerList = a.dinnerList
    BY <1>1 DEF Loaded, Apps
<1> QED BY <1>1, <1>2 DEF Loaded, Sound

LEMMA LoadedIsPile ==
    ASSUME NEW state, NEW a, Loaded(a, state)
    PROVE  IsPile(a, Dinners)
BY DEF Loaded, Apps, IsPile

\* viewWillAppear, whatever is on the screen.
LEMMA AppearingIsSound ==
    ASSUME NEW a, Sound(a, plist)
    PROVE  Sound(ViewWillAppear(a), plist)
<1>1. CASE IsRunOutOfCards(a)
    <2> DEFINE b == NumberOfCardsAsked([a EXCEPT !.stage = "cards"])
    <2>1. Loaded(b, plist)
        BY DEF Sound, Loaded, Apps, NumberOfCardsAsked, Stages
    <2>2. Deals(b, Dinners, ResetCurrentCardIndex(b))
        BY <2>1, LoadedIsPile, ResetDeals
    <2> QED BY <1>1, <2>1, <2>2, DealtIsSound DEF ViewWillAppear
<1>2. CASE ~IsRunOutOfCards(a)
    BY <1>2 DEF ViewWillAppear, Sound, Loaded, Apps, Stages, Fits
<1> QED BY <1>1, <1>2

\* A right swipe records the dinner of the front card, which is in the deck.
LEMMA RecordedIsSound ==
    ASSUME Sound(app, plist), ~IsRunOutOfCards(app), NEW right \in BOOLEAN
    PROVE  LET b == Recorded(right) IN
           Sound(b, plist) /\ b.visible # <<>> /\ b.stage = app.stage
<1> DEFINE x == app.items[app.index + 1]
           y == IF app.wantedDinnersId = Nil THEN {x} ELSE app.wantedDinnersId \cup {x}
<1>1. /\ app \in Apps /\ app.visible \in Seq(Dinners) /\ app.items \in Seq(Dinners)
      /\ app.index \in Nat /\ app.visible # <<>>
      /\ app.index + Len(app.visible) <= Len(app.items)
    BY DEF Sound, Loaded, Apps, Fits, IsRunOutOfCards
<1>2. app.index + 1 \in 1..Len(app.items)
    BY <1>1, LenProperties, EmptySeq
<1>3. x \in Dinners /\ x \in Range(app.items)
    BY <1>1, <1>2, ElementOfSeq, LenProperties DEF Range
<1>4. y \in SUBSET Dinners /\ y \subseteq Range(app.items)
    BY <1>1, <1>3 DEF Sound, Loaded, Apps
<1>5. Recorded(right) = IF right THEN [app EXCEPT !.wantedDinnersId = y] ELSE app
    BY <1>1 DEF Recorded, Apps
<1> HIDE DEF x, y
<1> QED BY <1>1, <1>4, <1>5 DEF Sound, Loaded, Apps

-----------------------------------------------------------------------------
(***************************************************************************)
(* Steps that change nothing but the app.                                  *)
(***************************************************************************)
\* The app stays on the screen.
LEMMA SoundStep ==
    ASSUME IInv, firstLaunch, UNCHANGED <<rows, firstLaunch, kills>>,
           Sound(app', plist')
    PROVE  IInv'
<1>1. TypeOK'
    BY DEF IInv, TypeOK, Sound, Loaded, States
<1>2. FlagMeansPreloaded' /\ DuplicatesComeFromKills'
    BY DEF IInv, FlagMeansPreloaded, DuplicatesComeFromKills
<1>3. Preloads' /\ OnScreen'
    BY DEF Preloads, OnScreen, Sound, Loaded
<1> QED BY <1>1, <1>2, <1>3 DEF IInv

\* The app crashes.
LEMMA CrashStep ==
    ASSUME IInv, firstLaunch, UNCHANGED <<rows, firstLaunch, kills>>,
           plist' \in States \cup {Nil},
           NEW t \in {"none", "itemsForCardView", "wantedDinnersId"}, app' = ClosedApp(t)
    PROVE  IInv'
<1>1. app' \in Apps /\ Fresh(app)' /\ app'.stage = "closed"
    BY FreshIsTyped DEF Fresh
<1>2. TypeOK'
    BY <1>1 DEF IInv, TypeOK, States
<1>3. FlagMeansPreloaded' /\ DuplicatesComeFromKills'
    BY DEF IInv, FlagMeansPreloaded, DuplicatesComeFromKills
<1>4. Preloads' /\ ~OnScreen'
    BY <1>1 DEF Preloads, OnScreen
<1> QED BY <1>1, <1>2, <1>3, <1>4 DEF IInv

LEMMA OnScreenIsSound ==
    ASSUME IInv, app.stage \in {"cards", "settings", "list", "restart"}
    PROVE  firstLaunch /\ Sound(app, plist) /\ plist \in States
BY DEF IInv, OnScreen, Preloads, Sound, Loaded

-----------------------------------------------------------------------------
(***************************************************************************)
(* The steps.                                                              *)
(***************************************************************************)
LEMMA InitStep == Init => IInv
<1> SUFFICES ASSUME Init PROVE IInv
    OBVIOUS
<1>1. app \in Apps /\ Fresh(app) /\ app.stage = "closed"
    BY FreshIsTyped DEF Init
<1>2. TypeOK
    <2>1. rows \in [Dinners -> Nat] /\ firstLaunch \in BOOLEAN
        BY DEF Init
    <2>2. kills \in 0..MaxKills /\ plist \in [Allergens -> {0, 1}] \cup {Nil}
        BY StoreAssumption DEF Init
    <2> QED BY <1>1, <2>1, <2>2 DEF TypeOK
<1>3. FlagMeansPreloaded /\ DuplicatesComeFromKills
    BY DEF Init, FlagMeansPreloaded, DuplicatesComeFromKills
<1>4. Preloads /\ ~OnScreen
    BY <1>1 DEF Init, Preloads, OnScreen
<1> QED BY <1>1, <1>2, <1>3, <1>4 DEF IInv

LEMMA LaunchStep ==
    ASSUME IInv, Launch
    PROVE  IInv'
<1> DEFINE s == IF firstLaunch THEN "loading" ELSE "preloading"
<1>1. /\ app.stage = "closed" /\ app' = [ClosedApp("none") EXCEPT !.stage = s]
      /\ UNCHANGED <<rows, firstLaunch, plist, kills>>
    BY DEF Launch, OnlyApp
<1>2. /\ app' \in Apps /\ Fresh(app') /\ app'.stage = s /\ app'.saved = 0
      /\ ~OnScreen'
    BY <1>1, FreshIsTyped DEF Apps, Fresh, ClosedApp, Stages, OnScreen
<1>3. TypeOK'
    BY <1>1, <1>2 DEF IInv, TypeOK
<1>4. FlagMeansPreloaded' /\ DuplicatesComeFromKills'
    BY <1>1 DEF IInv, FlagMeansPreloaded, DuplicatesComeFromKills
<1>5. Preloads'
    BY <1>1, <1>2, ListTypes DEF IInv, Preloads, TypeOK
<1> QED BY <1>2, <1>3, <1>4, <1>5 DEF IInv, Fresh

LEMMA PreloadDinnerStep ==
    ASSUME IInv, PreloadDinner
    PROVE  IInv'
<1> DEFINE n == app.saved + 1
           x == DinnerList[n]
<1>1. /\ app.stage = "preloading" /\ app \in Apps /\ Fresh(app) /\ ~firstLaunch
      /\ rows \in [Dinners -> Nat] /\ kills \in Nat /\ kills \in 0..MaxKills
    BY DEF PreloadDinner, IInv, TypeOK, OnScreen, Preloads
<1>2. n \in 1..Len(DinnerList) /\ app.saved \in Nat /\ x \in Dinners
    BY <1>1, ListTypes DEF PreloadDinner, Apps
<1>3. /\ app' = [app EXCEPT !.saved = n] /\ rows' = [rows EXCEPT ![x] = rows[x] + 1]
      /\ UNCHANGED <<firstLaunch, plist, kills>>
    BY DEF PreloadDinner
<1>4. /\ app' \in Apps /\ Fresh(app') /\ app'.stage = "preloading" /\ app'.saved = n
      /\ ~OnScreen'
    <2>1. n \in 0..Len(DinnerList)
        BY <1>2, ListTypes
    <2> HIDE DEF n
    <2> QED BY <1>1, <1>3, <2>1 DEF Apps, Fresh, OnScreen
<1>5. /\ rows' \in [Dinners -> Nat] /\ rows'[x] = rows[x] + 1
      /\ \A y \in Dinners \ {x} : rows'[y] = rows[y]
    BY <1>1, <1>2, <1>3
<1>6. rows[x] <= kills /\ \A y \in Dinners : rows[y] <= 1 + kills
    BY <1>1, <1>2, ListTypes DEF IInv, Preloads, DuplicatesComeFromKills
<1>7. TypeOK'
    BY <1>3, <1>4, <1>5 DEF IInv, TypeOK
<1>8. FlagMeansPreloaded' /\ DuplicatesComeFromKills'
    <2>1. \A y \in Dinners : rows'[y] <= 1 + kills
        <3> HIDE DEF x
        <3> QED BY <1>1, <1>2, <1>5, <1>6
    <2> QED BY <1>1, <1>3, <2>1 DEF FlagMeansPreloaded, DuplicatesComeFromKills
<1>9. Preloads'
    <2>1. \A i \in 1..n : rows'[DinnerList[i]] > 0
        <3> SUFFICES ASSUME NEW i \in 1..n PROVE rows'[DinnerList[i]] > 0
            OBVIOUS
        <3>1. CASE i = n
            BY <1>1, <1>2, <1>5, <3>1
        <3>2. CASE i # n
            <4>1. i \in 1..app.saved /\ i \in 1..Len(DinnerList)
                BY <1>2, <3>2
            <4>2. rows[DinnerList[i]] > 0
                BY <1>1, <4>1 DEF IInv, Preloads
            <4>3. DinnerList[i] \in Dinners \ {x}
                BY <1>2, <3>2, <4>1, ListTypes
            <4> QED BY <1>5, <4>2, <4>3
        <3> QED BY <3>1, <3>2
    <2>2. \A i \in (n + 1)..Len(DinnerList) : rows'[DinnerList[i]] <= kills
        <3> SUFFICES ASSUME NEW i \in (n + 1)..Len(DinnerList)
                     PROVE  rows'[DinnerList[i]] <= kills
            OBVIOUS
        <3>1. i \in n..Len(DinnerList) /\ i \in 1..Len(DinnerList) /\ i # n
            BY <1>2
        <3>2. rows[DinnerList[i]] <= kills
            BY <1>1, <3>1 DEF IInv, Preloads
        <3>3. DinnerList[i] \in Dinners \ {x}
            BY <1>2, <3>1, ListTypes
        <3> QED BY <1>5, <3>2, <3>3
    <2> HIDE DEF n, x
    <2> QED BY <1>1, <1>3, <1>4, <2>1, <2>2 DEF Preloads
<1> QED BY <1>4, <1>7, <1>8, <1>9 DEF IInv, Fresh

LEMMA SetFirstLaunchStep ==
    ASSUME IInv, SetFirstLaunch
    PROVE  IInv'
<1>1. /\ app.stage = "preloading" /\ app \in Apps /\ Fresh(app)
      /\ app.saved = Len(DinnerList)
    BY DEF SetFirstLaunch, IInv, TypeOK, OnScreen
<1>2. /\ app' = [app EXCEPT !.stage = "loading"] /\ firstLaunch' = TRUE
      /\ UNCHANGED <<rows, plist, kills>>
    BY DEF SetFirstLaunch
<1>3. app' \in Apps /\ Fresh(app') /\ app'.stage = "loading" /\ ~OnScreen'
    BY <1>1, <1>2 DEF Apps, Fresh, Stages, OnScreen
<1>4. TypeOK'
    BY <1>2, <1>3 DEF IInv, TypeOK
<1>5. \A x \in Dinners : rows[x] > 0
    BY <1>1, ListTypes DEF IInv, Preloads
<1>6. FlagMeansPreloaded' /\ DuplicatesComeFromKills'
    BY <1>2, <1>5 DEF IInv, FlagMeansPreloaded, DuplicatesComeFromKills
<1>7. Preloads'
    BY <1>2, <1>3 DEF Preloads
<1> QED BY <1>3, <1>4, <1>6, <1>7 DEF IInv, Fresh

\* The one step that changes the deck: every dinner in it passes the filter.
LEMMA ViewDidLoadStep ==
    ASSUME IInv, ViewDidLoad
    PROVE  /\ IInv'
           /\ \A x \in Range(app'.items) : \A al \in AllergensOf[x] : plist'[al] = 1
<1> DEFINE state == LoadedPlist
<1>1. /\ app.stage = "loading" /\ app \in Apps /\ Fresh(app) /\ firstLaunch
      /\ plist' = state /\ UNCHANGED <<rows, firstLaunch, kills>>
    BY DEF ViewDidLoad, IInv, TypeOK, OnScreen, Preloads
<1>2. state \in States
    BY DEF IInv, TypeOK, LoadedPlist, States
<1> HIDE DEF state
<1>3. CASE Filtered(state) = {}
    <2>1. app' = ClosedApp("itemsForCardView")
        BY <1>3 DEF ViewDidLoad, state
    <2>2. Range(app'.items) = {}
        BY <2>1 DEF ClosedApp, Range
    <2> QED BY <1>1, <1>2, <2>1, <2>2, CrashStep
<1>4. CASE Filtered(state) # {}
    <2>1. PICK deck \in Decks(state, app.numberOfDesieredCards) :
              app' = ResetCurrentCardIndex(
                       [app EXCEPT !.stage = "cards", !.allergensState = state, !.items = deck])
        BY <1>4 DEF ViewDidLoad, state
    <2> DEFINE b == [app EXCEPT !.stage = "cards", !.allergensState = state, !.items = deck]
    <2>2. /\ deck \in Seq(Dinners)
          /\ \A x \in Range(deck) : \A al \in AllergensOf[x] : state[al] = 1
        BY <1>1, <1>2, DeckPasses DEF Apps
    <2>3. Loaded(b, state) /\ b.items = deck
        <3>1. Len(app.visible) <= CountOfVisibleCards
            BY <1>1, NoCards DEF Fresh
        <3> QED BY <1>1, <1>2, <2>2, <3>1 DEF Loaded, Apps, Fresh, Stages, States
    <2> HIDE DEF b
    <2>4. Deals(b, Dinners, app')
        BY <2>1, <2>3, LoadedIsPile, ResetDeals DEF b
    <2>5. Sound(app', plist') /\ app'.items = deck
        BY <1>1, <2>3, <2>4, DealtIsSound
    <2> QED BY <1>1, <2>2, <2>5, SoundStep
<1> QED BY <1>3, <1>4

LEMMA SwipeStep ==
    ASSUME IInv, Swipe
    PROVE  IInv' /\ (app'.items = app.items \/ app'.items = <<>>)
<1>1. PICK right \in BOOLEAN :
        LET a == NumberOfCardsAsked(SwipedAction(Recorded(right))) IN
        \/ OnlyApp(a)
        \/ /\ a.wantedDinnersId # Nil
           /\ OnlyApp([a EXCEPT !.stage = "list", !.dinnerList = a.wantedDinnersId])
        \/ OnlyApp(ClosedApp("wantedDinnersId"))
    BY DEF Swipe
<1>2. app.stage = "cards" /\ ~IsRunOutOfCards(app)
    BY DEF Swipe
<1>3. firstLaunch /\ Sound(app, plist) /\ plist \in States
    BY <1>2, OnScreenIsSound
<1> DEFINE r == Recorded(right)
           b == SwipedAction(r)
           a == NumberOfCardsAsked(b)
<1>4. Sound(r, plist) /\ r.visible # <<>> /\ r.stage = "cards" /\ r.items = app.items
    BY <1>2, <1>3, RecordedIsSound DEF Recorded, Sound, Loaded, Apps
<1> HIDE DEF r
<1>5. Deals(r, Dinners, b)
    BY <1>4, LoadedIsPile, SwipedActionDeals DEF Sound
<1>6. Sound(b, plist) /\ b.stage = "cards" /\ b.items = app.items
    BY <1>4, <1>5, DealtIsSound DEF Sound
<1> HIDE DEF b
<1>7. Sound(a, plist) /\ a.items = app.items
    BY <1>6 DEF NumberOfCardsAsked, Sound, Loaded, Apps
<1> HIDE DEF a
<1>8. \/ OnlyApp(a)
      \/ /\ a.wantedDinnersId # Nil
         /\ OnlyApp([a EXCEPT !.stage = "list", !.dinnerList = a.wantedDinnersId])
      \/ OnlyApp(ClosedApp("wantedDinnersId"))
    BY <1>1 DEF a, b, r
<1>9. CASE OnlyApp(a)
    BY <1>3, <1>7, <1>9, SoundStep DEF OnlyApp
<1>10. CASE /\ a.wantedDinnersId # Nil
            /\ OnlyApp([a EXCEPT !.stage = "list", !.dinnerList = a.wantedDinnersId])
    <2> DEFINE l == [a EXCEPT !.stage = "list", !.dinnerList = a.wantedDinnersId]
    <2>1. Sound(l, plist) /\ l.items = app.items
        BY <1>7, <1>10 DEF Sound, Loaded, Apps, Stages
    <2> HIDE DEF l
    <2>2. app' = l /\ UNCHANGED <<rows, firstLaunch, plist, kills>>
        BY <1>10 DEF OnlyApp, l
    <2> QED BY <1>3, <2>1, <2>2, SoundStep
<1>11. CASE OnlyApp(ClosedApp("wantedDinnersId"))
    <2>1. app'.items = <<>>
        BY <1>11 DEF OnlyApp, ClosedApp
    <2> QED BY <1>3, <1>11, <2>1, CrashStep DEF OnlyApp
<1> QED BY <1>8, <1>9, <1>10, <1>11

\* The dinner list and the settings tab leave the deck alone.
LEMMA ScreenStep ==
    ASSUME IInv, app.stage \in {"cards", "settings", "list", "restart"},
           NEW b, Sound(b, plist), b.items = app.items, OnlyApp(b)
    PROVE  IInv' /\ app'.items = app.items
BY OnScreenIsSound, SoundStep DEF OnlyApp

LEMMA RestartPressedStep ==
    ASSUME IInv, RestartPressed
    PROVE  IInv' /\ app'.items = app.items
<1> DEFINE b == [app EXCEPT !.stage = "restart"]
<1>1. app.stage = "list" /\ OnlyApp(b)
    BY DEF RestartPressed
<1>2. Sound(b, plist) /\ b.items = app.items
    BY <1>1, OnScreenIsSound DEF Sound, Loaded, Apps, Stages
<1> QED BY <1>1, <1>2, ScreenStep

LEMMA RestartCancelledStep ==
    ASSUME IInv, RestartCancelled
    PROVE  IInv' /\ app'.items = app.items
<1> DEFINE b == [app EXCEPT !.stage = "list"]
<1>1. app.stage = "restart" /\ OnlyApp(b)
    BY DEF RestartCancelled
<1>2. Sound(b, plist) /\ b.items = app.items
    BY <1>1, OnScreenIsSound DEF Sound, Loaded, Apps, Stages
<1> QED BY <1>1, <1>2, ScreenStep

\* Appearing again deals, but does not draw.
LEMMA AppearingKeepsTheDeck ==
    ASSUME NEW a, Sound(a, plist)
    PROVE  ViewWillAppear(a).items = a.items
<1>1. CASE IsRunOutOfCards(a)
    <2> DEFINE b == NumberOfCardsAsked([a EXCEPT !.stage = "cards"])
    <2>1. Loaded(b, plist) /\ b.items = a.items
        BY DEF Sound, Loaded, Apps, NumberOfCardsAsked, Stages
    <2> HIDE DEF b
    <2>2. ResetCurrentCardIndex(b).items = b.items
        BY <2>1, LoadedIsPile, ResetDeals, DealtIsSound
    <2> QED BY <1>1, <2>1, <2>2 DEF ViewWillAppear, b
<1>2. CASE ~IsRunOutOfCards(a)
    BY <1>2 DEF ViewWillAppear, Sound, Loaded, Apps
<1> QED BY <1>1, <1>2

LEMMA RestartConfirmedStep ==
    ASSUME IInv, RestartConfirmed
    PROVE  IInv' /\ app'.items = app.items
<1> DEFINE a == [app EXCEPT !.stage = "cards", !.dinnerList = Nil, !.wantedDinnersId = Nil]
           e == [app EXCEPT !.dinnerList = Nil, !.wantedDinnersId = Nil]
<1>1. app.stage = "restart" /\ OnlyApp(ViewWillAppear(e))
    BY DEF RestartConfirmed
<1>2. Sound(a, plist) /\ a.items = app.items
    BY <1>1, OnScreenIsSound DEF Sound, Loaded, Apps, Stages
<1>3. ViewWillAppear(e) = ViewWillAppear(a)
    <2>1. [e EXCEPT !.stage = "cards"] = [a EXCEPT !.stage = "cards"] /\ e.visible = a.visible
        BY <1>1, OnScreenIsSound DEF Sound, Loaded, Apps
    <2> HIDE DEF e, a
    <2> QED BY <2>1 DEF ViewWillAppear, IsRunOutOfCards
<1> HIDE DEF a, e
<1> QED BY <1>1, <1>2, <1>3, AppearingIsSound, AppearingKeepsTheDeck, ScreenStep

LEMMA OpenSettingsStep ==
    ASSUME IInv, OpenSettings
    PROVE  IInv' /\ app'.items = app.items
<1> DEFINE b == [app EXCEPT !.stage = "settings"]
<1>1. app.stage = "cards" /\ OnlyApp(b)
    BY DEF OpenSettings
<1>2. Sound(b, plist) /\ b.items = app.items
    BY <1>1, OnScreenIsSound DEF Sound, Loaded, Apps, Stages
<1> QED BY <1>1, <1>2, ScreenStep

LEMMA CloseSettingsStep ==
    ASSUME IInv, CloseSettings
    PROVE  IInv' /\ app'.items = app.items
<1>1. app.stage = "settings" /\ OnlyApp(ViewWillAppear(app))
    BY DEF CloseSettings
<1>2. Sound(app, plist)
    BY <1>1, OnScreenIsSound
<1> QED BY <1>1, <1>2, AppearingIsSound, AppearingKeepsTheDeck, ScreenStep

\* The filter in memory and the one on disk change together.
LEMMA EditAllergenStep ==
    ASSUME IInv, EditAllergen
    PROVE  IInv' /\ app'.items = app.items
<1>1. PICK al \in Allergens :
        LET flipped == IF plist[al] = 0 THEN 1 ELSE 0 IN
        /\ app.stage = "settings"
        /\ plist' = [plist EXCEPT ![al] = flipped]
        /\ app' = [app EXCEPT !.allergensState[al] = flipped]
        /\ UNCHANGED <<rows, firstLaunch, kills>>
    BY DEF EditAllergen
<1> DEFINE f == IF plist[al] = 0 THEN 1 ELSE 0
           s == [plist EXCEPT ![al] = f]
<1>2. firstLaunch /\ Sound(app, plist) /\ plist \in States
    BY <1>1, OnScreenIsSound
<1>3. s \in States
    BY <1>2 DEF States
<1>4. plist' = s /\ app' = [app EXCEPT !.allergensState = s]
    BY <1>1, <1>2 DEF Sound, Loaded, Apps
<1> HIDE DEF s
<1>5. Sound(app', plist') /\ app'.items = app.items
    BY <1>2, <1>3, <1>4 DEF Sound, Loaded, Apps, States
<1> QED BY <1>1, <1>2, <1>5, SoundStep

LEMMA SliderDidSlideStep ==
    ASSUME IInv, SliderDidSlide
    PROVE  IInv' /\ app'.items = app.items
<1>1. PICK n \in CardCounts : /\ app.stage = "settings"
                              /\ OnlyApp([app EXCEPT !.numberOfDesieredCards = n])
    BY DEF SliderDidSlide
<1> DEFINE b == [app EXCEPT !.numberOfDesieredCards = n]
<1>2. Sound(b, plist) /\ b.items = app.items
    BY <1>1, OnScreenIsSound, StoreAssumption DEF Sound, Loaded, Apps
<1> QED BY <1>1, <1>2, ScreenStep

\* A kill leaves the disk as it is, and allows for one more duplicate.
LEMMA KilledStep ==
    ASSUME IInv, Killed
    PROVE  IInv' /\ app'.items = <<>>
<1>1. /\ app' = ClosedApp("none") /\ kills' = kills + 1 /\ kills < MaxKills
      /\ UNCHANGED <<rows, firstLaunch, plist>> /\ app.stage # "closed"
    BY DEF Killed
<1>2. app' \in Apps /\ Fresh(app') /\ app'.stage = "closed" /\ ~OnScreen'
    BY <1>1, FreshIsTyped DEF OnScreen
<1>3. kills \in Nat /\ rows \in [Dinners -> Nat] /\ kills' \in 0..MaxKills
    BY <1>1, StoreAssumption DEF IInv, TypeOK
<1>4. TypeOK'
    BY <1>1, <1>2, <1>3 DEF IInv, TypeOK
<1>5. \A x \in Dinners : rows[x] <= 1 + kills
    BY DEF IInv, DuplicatesComeFromKills
<1>6. \A x \in Dinners : rows'[x] <= kills' /\ rows'[x] <= 1 + kills'
    BY <1>1, <1>3, <1>5
<1>7. FlagMeansPreloaded' /\ DuplicatesComeFromKills'
    BY <1>1, <1>6 DEF IInv, FlagMeansPreloaded, DuplicatesComeFromKills
<1>8. Preloads'
    BY <1>2, <1>6 DEF Preloads
<1>9. app'.items = <<>>
    BY <1>1 DEF ClosedApp
<1> QED BY <1>2, <1>4, <1>7, <1>8, <1>9 DEF IInv, Fresh

LEMMA StutterStep ==
    ASSUME IInv, UNCHANGED vars
    PROVE  IInv'
BY DEF vars, IInv, TypeOK, FlagMeansPreloaded, DuplicatesComeFromKills, Preloads,
       OnScreen, Sound, Loaded, Fresh

\* A deck that is not the one before passes the filter on disk.
LEMMA StepDraws ==
    ASSUME IInv, [Next]_vars
    PROVE  IInv' /\ (DrawnDeckPasses \/ UNCHANGED vars)
<1>1. CASE Launch
    <2>1. app'.items = <<>>
        BY <1>1 DEF Launch, OnlyApp, ClosedApp
    <2> QED BY <1>1, <2>1, LaunchStep DEF DrawnDeckPasses, Range
<1>2. CASE PreloadDinner
    <2>1. app'.items = app.items
        BY <1>2 DEF PreloadDinner, IInv, TypeOK, Apps
    <2> QED BY <1>2, <2>1, PreloadDinnerStep DEF DrawnDeckPasses
<1>3. CASE SetFirstLaunch
    <2>1. app'.items = app.items
        BY <1>3 DEF SetFirstLaunch, IInv, TypeOK, Apps
    <2> QED BY <1>3, <2>1, SetFirstLaunchStep DEF DrawnDeckPasses
<1>4. CASE ViewDidLoad
    BY <1>4, ViewDidLoadStep DEF DrawnDeckPasses
<1>5. CASE Swipe
    BY <1>5, SwipeStep DEF DrawnDeckPasses, Range
<1>6. CASE RestartPressed
    BY <1>6, RestartPressedStep DEF DrawnDeckPasses
<1>7. CASE RestartCancelled
    BY <1>7, RestartCancelledStep DEF DrawnDeckPasses
<1>8. CASE RestartConfirmed
    BY <1>8, RestartConfirmedStep DEF DrawnDeckPasses
<1>9. CASE OpenSettings
    BY <1>9, OpenSettingsStep DEF DrawnDeckPasses
<1>10. CASE CloseSettings
    BY <1>10, CloseSettingsStep DEF DrawnDeckPasses
<1>11. CASE EditAllergen
    BY <1>11, EditAllergenStep DEF DrawnDeckPasses
<1>12. CASE SliderDidSlide
    BY <1>12, SliderDidSlideStep DEF DrawnDeckPasses
<1>13. CASE Killed
    BY <1>13, KilledStep DEF DrawnDeckPasses, Range
<1>14. CASE UNCHANGED vars
    BY <1>14, StutterStep
<1> QED BY <1>1, <1>2, <1>3, <1>4, <1>5, <1>6, <1>7, <1>8, <1>9, <1>10, <1>11,
           <1>12, <1>13, <1>14 DEF Next

-----------------------------------------------------------------------------
(***************************************************************************)
(* The theorems.                                                           *)
(***************************************************************************)
\* The inductive invariant holds in every state.
THEOREM Invariance == Spec => []IInv
<1>1. IInv /\ [Next]_vars => IInv'
    BY StepDraws
<1> QED BY InitStep, <1>1, PTL DEF Spec

\* Type correctness: the store, the flag and the plist on disk and the app in
\* memory keep their types, and only dinners of the store are ever recorded.
THEOREM TypeCorrect == Spec => []TypeOK
<1>1. IInv => TypeOK
    BY DEF IInv
<1> QED BY Invariance, <1>1, PTL

\* Once "First Launch" is set, preLoadDinners has saved every dinner, however
\* often the app was killed before.
THEOREM FlagIsRight == Spec => []FlagMeansPreloaded
<1>1. IInv => FlagMeansPreloaded
    BY DEF IInv
<1> QED BY Invariance, <1>1, PTL

\* A dinner has one row, and at most one more for each kill.
THEOREM OneDuplicatePerKill == Spec => []DuplicatesComeFromKills
<1>1. IInv => DuplicatesComeFromKills
    BY DEF IInv
<1> QED BY Invariance, <1>1, PTL

\* The filter in memory is the one on disk whenever the cards are there.
THEOREM FilterOnDisk == Spec => []FilterIsSaved
<1>1. IInv => FilterIsSaved
    BY DEF IInv, FilterIsSaved, OnScreen, Sound, Loaded
<1> QED BY Invariance, <1>1, PTL

\* The list has only dinners of the deck that was swiped.
THEOREM ListFromDeck == Spec => []ListIsFromTheDeck
<1>1. IInv => ListIsFromTheDeck
    BY DEF IInv, ListIsFromTheDeck, OnScreen, Sound, Loaded
<1> QED BY Invariance, <1>1, PTL

\* Every deck passes the filter that is on disk when it is drawn.
THEOREM DecksPass == Spec => DrawnDecksPassTheFilter
<1>1. IInv /\ [Next]_vars => [DrawnDeckPasses]_vars
    BY StepDraws
<1> QED BY Invariance, <1>1, PTL DEF Spec, DrawnDecksPassTheFilter
=============================================================================

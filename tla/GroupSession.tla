---------------------------- MODULE GroupSession ----------------------------
(***************************************************************************)
(* A swiping session of several devices: CardViewController and            *)
(* FirebaseManager on every device, and the Firestore collection they      *)
(* share.  All code of the app runs on the main thread, so a button, a     *)
(* swipe or a Firestore callback is one atomic step; between the steps of  *)
(* one device anything may happen on the others and on the network.        *)
(***************************************************************************)
EXTENDS GroupStructure, KolodaView

CONSTANTS
    LocalDecks,     \* itemsForCardView that a launch may draw
    HostDecks,      \* decks that the host's allergen filter may draw
    Collections,    \* sets of codes whose groups finished before (never deleted)
    TypedCodes,     \* codes a joining user may type
    \* What the users do:
    Hosts,          \* may press Create
    Joiners,        \* may press Join
    Soloists,       \* may swipe alone, with the switch off
    Leavers,        \* may press Cancel or Leave before the session starts
    Exiters,        \* may switch off during a running session
    Quitters,       \* may press Restart at the list of dinners
    Careful,        \* follow the instructions on the screen
    PartySize,      \* a careful host waits for this many participants
    \* Bounds:
    MaxFailures,    \* requests that fail
    MaxKills,       \* times an app is killed
    MaxReady,       \* run-outs counted in one group
    MaxVotes        \* times one dinner is in a device's localUserYesSwiped

ASSUME RolesAssumption ==
    /\ Hosts \cup Joiners \cup Soloists \cup Leavers \subseteq Devices
    /\ Exiters \cup Quitters \cup Careful \subseteq Devices
    /\ TypedCodes \subseteq Codes
    /\ Collections \subseteq SUBSET Codes

\* Drawing a deck of no dinners crashes, so that none gets here.
ASSUME DecksAssumption == LocalDecks \cup HostDecks \subseteq Seq(Dinners) \ {<<>>}

ASSUME BoundsAssumption == MaxFailures \in Nat /\ MaxKills \in Nat

VARIABLES
    groups,         \* the collection "Groups" on the server
    outbox,         \* per device: writes the server has not acknowledged
    requests,       \* per device: reads without an answer yet
    app,            \* per device: the state of the running app
    failures,       \* requests that have failed
    kills           \* apps that have been killed

vars == <<groups, outbox, requests, app, failures, kills>>

(***************************************************************************)
(* What covers the card view.  "cards": nothing.  "connect", "code",       *)
(* "exit": alerts of the switch.  "waiting": the joiner's alert.  "lobby", *)
(* "settings": the host's alert and the settings sheet behind it.  "list", *)
(* "restart": the dinner list and the alert on it.  "frozen": the main     *)
(* thread loops for ever.  "closed": the app crashed or was killed.        *)
(***************************************************************************)
Screens == {"cards", "connect", "code", "exit", "waiting", "lobby",
            "settings", "list", "restart", "frozen", "closed"}

Listeners == [role : {"lobby", "wait", "result"},
              code : Codes,
              seen : Groups \cup {Nil}]

ASSUME ListenersAssumption == Nil \notin Listeners

Requests == [kind : {"create"}]
            \cup [kind : {"join", "remove"}, code : Codes]
            \cup [kind : {"start"}, code : Codes, deck : HostDecks]

\* A swipe whose animation still runs: where the card was in the items, which
\* way it went, and the dinner that was drawn on it.
Swipes == [index : Nat, right : BOOLEAN, card : Dinners]

Apps == [screen : Screens,
         isOn : BOOLEAN,                    \* isMultipleUsersSwith.isOn
         groupId : Codes \cup {Nil},
         activeGroupId : Codes \cup {Nil},
         isInOnlineSession : BOOLEAN,
         session : 0..MaxSessions,          \* unique user ids drawn so far
         uniqueUserId : UserIds \cup {Nil},
         localUserYesSwiped : DinnerLists,
         activeEventListener : Listeners \cup {Nil},
         leaked : SUBSET Listeners,         \* attached, but referenced by nothing
         client : {"idle", "persistent", "memory"},   \* Firestore's settings
         items : Seq(Dinners),
         index : Nat,
         visible : Seq(Dinners),
         swiped : Swipes \cup {Nil},         \* didSwipeCardAt is still to come
         wantedDinnersId : (SUBSET Dinners) \cup {Nil},
         dinnerList : (SUBSET Dinners) \cup {Nil}]

\* A freshly launched app that has shown its first deck.
LaunchedApp(deck, drawn) ==
    [screen |-> "cards", isOn |-> FALSE, groupId |-> Nil, activeGroupId |-> Nil,
     isInOnlineSession |-> FALSE, session |-> drawn, uniqueUserId |-> Nil,
     localUserYesSwiped |-> [x \in Dinners |-> 0],
     activeEventListener |-> Nil, leaked |-> {}, client |-> "idle",
     items |-> deck, index |-> 0,
     visible |-> SubSeq(deck, 1, Smaller(CountOfVisibleCards, Len(deck))),
     swiped |-> Nil, wantedDinnersId |-> Nil, dinnerList |-> Nil]

\* A group that played to its end: all its participants are ready.
OldGroup(deck) == [NewGroup EXCEPT !.swipingSessionRunning = TRUE,
                                   !.dinnerIdsForCardView = deck,
                                   !.numberOfUsersReady = 1]

Init ==
    /\ \E deck \in HostDecks, old \in Collections :
          groups = [c \in Codes |-> IF c \in old THEN OldGroup(deck) ELSE Nil]
    /\ outbox = [d \in Devices |-> <<>>]
    /\ requests = [d \in Devices |-> {}]
    /\ \E deck \in [Devices -> LocalDecks] :
          app = [d \in Devices |-> LaunchedApp(deck[d], 0)]
    /\ failures = 0
    /\ kills = 0

-----------------------------------------------------------------------------
(***************************************************************************)
(* Pieces the handlers are made of, as functions on the state of one app.  *)
(***************************************************************************)
View(d, c) == LocalView(groups[c], outbox[d], c)

Alive(d) == app[d].screen \notin {"frozen", "closed"}

Send(d, writes) == outbox' = [outbox EXCEPT ![d] = @ \o writes]
Ask(d, r)       == requests' = [requests EXCEPT ![d] = @ \cup {r}]
Become(d, a)    == app' = [app EXCEPT ![d] = a]
OnlyApp(d, a)   == Become(d, a) /\ UNCHANGED <<groups, outbox, requests, failures, kills>>

\* A user's next touch comes after the animation of the last swipe; touching a
\* card ends it at once.
Settled(d) == app[d].swiped = Nil

Closed(a) == [a EXCEPT !.screen = "closed"]
Show(a, screen) == [a EXCEPT !.screen = screen]

\* UIKit drops a present while something else is presented.
Present(a, screen) == IF a.screen = "cards" THEN Show(a, screen) ELSE a

\* viewWillAppear, when a full-screen controller goes away.
ViewWillAppear(a) == IF IsRunOutOfCards(a) THEN ResetCurrentCardIndex(a) ELSE a

Dismiss(a) ==
    IF a.screen \in {"list", "restart"} THEN Show(ViewWillAppear(a), "cards")
    ELSE Show(a, "cards")

DetachEventListener(a) == [a EXCEPT !.activeEventListener = Nil]

\* A bug: a second listener is not attached while there is one.
KeepEventListener(a, role, c) ==
    IF a.activeEventListener # Nil THEN a
    ELSE [a EXCEPT !.activeEventListener = [role |-> role, code |-> c, seen |-> Nil]]

\* initiateEventListenerFor replaces activeEventListener without removing it.
InitiateEventListenerFor(a, role, c) ==
    [a EXCEPT !.leaked = @ \cup ({a.activeEventListener} \ {Nil}),
              !.activeEventListener = [role |-> role, code |-> c, seen |-> Nil]]

\* A bug: the id is drawn before the attempt is counted.
UserIdOfLastAttempt(a, d) ==
    [a EXCEPT !.session = @ + 1, !.uniqueUserId = <<d, a.session>>]

CreateUniqueUserId(a, d) ==
    [a EXCEPT !.session = @ + 1, !.uniqueUserId = <<d, a.session + 1>>]

\* displayErrorMessage, and the switch goes back.
ConnectionError(a) == [DetachEventListener(a) EXCEPT !.isOn = FALSE]

ChangeBackToSingleUserState(a) ==
    ReloadData([a EXCEPT !.isOn = FALSE,
                         !.isInOnlineSession = FALSE,
                         !.activeGroupId = Nil,
                         !.wantedDinnersId = Nil])

LeaveGroup(a) ==
    [DetachEventListener(a) EXCEPT !.activeGroupId = Nil,
                                   !.isInOnlineSession = FALSE,
                                   !.isOn = FALSE,
                                   !.wantedDinnersId = Nil]

PrepareForOnlineSession(a, d, c) ==
    LET joined == [CreateUniqueUserId(a, d) EXCEPT !.groupId = c,
                                                   !.activeGroupId = c,
                                                   !.isInOnlineSession = TRUE]
    IN  Present(InitiateEventListenerFor(joined, "wait", c), "waiting")

\* A bug: the joiner keeps its own deck.
OwnDeck(a, g) == a

\* startOnlineSession(groupStructure:) on a joiner.
WithSessionDeck(a, g) == [a EXCEPT !.items = g.dinnerIdsForCardView]

StartOnlineSession(a, g) == ReloadData(WithSessionDeck(a, g))

OnlineSessionStartedByHost(a) == ResetCurrentCardIndex(a)

-----------------------------------------------------------------------------
(***************************************************************************)
(* The switch, its alerts, and leaving.                                    *)
(***************************************************************************)
\* Bound: one attempt to enter a group in flight, MaxSessions of them.
MayEnter(d) == /\ \A r \in requests[d] : r.kind \notin {"create", "join"}
               /\ app[d].session < MaxSessions

SwitchedOn(d) ==
    LET a == app[d] IN
    /\ a.screen = "cards" /\ ~a.isOn /\ Settled(d)
    /\ MayEnter(d)
    /\ OnlyApp(d, Show([a EXCEPT !.isOn = TRUE], "connect"))

JoinPressed(d) ==
    /\ d \in Joiners
    /\ app[d].screen = "connect"
    /\ OnlyApp(d, Show(app[d], "code"))

CodeEntered(d) == \E c \in TypedCodes :
    LET a == app[d] IN
    /\ a.screen = "code"
    /\ d \in Careful => groups[c] # Nil
    /\ Ask(d, [kind |-> "join", code |-> c])
    /\ Become(d, Show([a EXCEPT !.client = IF @ = "idle" THEN "persistent" ELSE @], "cards"))
    /\ UNCHANGED <<groups, outbox, failures, kills>>

\* getUsedIds turns persistence off first: Firestore refuses that once a
\* persistent client is in use, and an in-memory client does not see what an
\* earlier launch left on disk.
CreatePressed(d) ==
    LET a == app[d] IN
    /\ d \in Hosts
    /\ a.screen = "connect"
    /\ \/ /\ a.client = "persistent"
          /\ OnlyApp(d, Closed(a))
       \/ /\ a.client # "persistent"
          /\ Ask(d, [kind |-> "create"])
          /\ Become(d, Show([a EXCEPT !.client = "memory"], "cards"))
          /\ outbox' = [outbox EXCEPT ![d] = IF a.client = "idle" THEN <<>> ELSE @]
          /\ UNCHANGED <<groups, failures, kills>>

ConnectCancelled(d) ==
    /\ d \in Leavers
    /\ app[d].screen \in {"connect", "code"}
    /\ OnlyApp(d, Show([app[d] EXCEPT !.isOn = FALSE], "cards"))

\* The switch is off while its "Are you sure?" alert is up.  A careful user
\* leaves it alone until there is a session to exit.
SwitchedOff(d) ==
    /\ d \in Exiters
    /\ app[d].screen = "cards" /\ app[d].isOn /\ Settled(d)
    /\ d \in Careful => app[d].isInOnlineSession
    /\ OnlyApp(d, Show([app[d] EXCEPT !.isOn = FALSE], "exit"))

ExitCancelled(d) ==
    /\ app[d].screen = "exit"
    /\ OnlyApp(d, Show([app[d] EXCEPT !.isOn = TRUE], "cards"))

ExitConfirmed(d) ==
    /\ app[d].screen = "exit"
    /\ OnlyApp(d, Show(ChangeBackToSingleUserState(app[d]), "cards"))

-----------------------------------------------------------------------------
(***************************************************************************)
(* The joiner.                                                             *)
(***************************************************************************)
\* A bug: the joiner writes back the document it has read.
JoinByDocument(d, c) ==
    SetData(c, [View(d, c) EXCEPT !.participants = @ + 1])

JoinWrite(d, c) == AddOneParticipant(c, ParticipantsIn(View(d, c)))

JoinAnswered(d) == \E r \in requests[d] :
    /\ r.kind = "join" /\ Alive(d)
    /\ requests' = [requests EXCEPT ![d] = @ \ {r}]
    /\ \/ /\ View(d, r.code) # Nil
          /\ Send(d, <<JoinWrite(d, r.code)>>)
          /\ Become(d, PrepareForOnlineSession(app[d], d, r.code))
       \/ /\ View(d, r.code) = Nil              \* "Doesnt exist vc"
          /\ UNCHANGED <<outbox, app>>
    /\ UNCHANGED <<groups, failures, kills>>

LeaveGroupPressed(d) ==
    LET a == app[d] IN
    /\ d \in Leavers
    /\ a.screen = "waiting" /\ Settled(d)
    /\ [kind |-> "remove", code |-> a.groupId] \notin requests[d]   \* bound
    /\ Become(d, Show(LeaveGroup(a), "cards"))
    /\ Ask(d, [kind |-> "remove", code |-> a.groupId])
    /\ UNCHANGED <<groups, outbox, failures, kills>>

\* removeOneFromParticipants writes back the whole document it read.
RemoveAnswered(d) == \E r \in requests[d] :
    /\ r.kind = "remove" /\ Alive(d)
    /\ requests' = [requests EXCEPT ![d] = @ \ {r}]
    /\ LET g == View(d, r.code) IN
       Send(d, IF g = Nil THEN <<>>
               ELSE <<SetData(r.code, [g EXCEPT !.participants = @ - 1])>>)
    /\ UNCHANGED <<groups, app, failures, kills>>

-----------------------------------------------------------------------------
(***************************************************************************)
(* The host.                                                               *)
(***************************************************************************)
UsedIds(d) == {c \in Codes : View(d, c) # Nil}

\* What checkForMachInIds may return; while there is nothing, it does not.
CheckForMachInIds(used) == Codes \ used

CreateAnswered(d) == \E r \in requests[d] :
    LET a == app[d] IN
    /\ r.kind = "create" /\ Alive(d)
    /\ requests' = [requests EXCEPT ![d] = @ \ {r}]
    /\ \/ /\ UsedIds(d) = {}                    \* taken for a lost connection
          /\ Become(d, ConnectionError(a))
          /\ UNCHANGED outbox
       \/ /\ CheckForMachInIds(UsedIds(d)) = {} \* loops for ever
          /\ Become(d, Show(a, "frozen"))
          /\ UNCHANGED outbox
       \/ /\ UsedIds(d) # {}
          /\ \E c \in CheckForMachInIds(UsedIds(d)) :
                LET named   == [a EXCEPT !.groupId = c, !.activeGroupId = c]
                    created == CreateUniqueUserId(Present(named, "lobby"), d)
                IN  /\ Send(d, <<SetData(c, NewGroup)>>)
                    /\ Become(d, InitiateEventListenerFor(created, "lobby", c))
    /\ UNCHANGED <<groups, failures, kills>>

HostCancelled(d) ==
    /\ d \in Leavers
    /\ app[d].screen = "lobby" /\ Settled(d)
    /\ OnlyApp(d, Show([DetachEventListener(app[d]) EXCEPT !.isOn = FALSE], "cards"))

\* "Wait for everyone to join, and press start"
SeesTheParty(a) == /\ a.activeEventListener # Nil
                   /\ a.activeEventListener.seen # Nil
                   /\ a.activeEventListener.seen.participants >= PartySize

StartPressed(d) ==
    /\ app[d].screen = "lobby" /\ Settled(d)
    /\ d \in Careful => SeesTheParty(app[d])
    /\ OnlyApp(d, Show(app[d], "settings"))

\* startSessionPressed, the dismissal of the sheet, and the observer that
\* runs when it is gone.
StartSessionPressed(d) == \E deck \in HostDecks :
    LET a == app[d]
        dealt == OnlineSessionStartedByHost([a EXCEPT !.items = deck])
    IN
    /\ a.screen = "settings" /\ Settled(d)
    /\ Become(d, Show(dealt, "cards"))
    /\ IF a.activeGroupId = Nil THEN UNCHANGED requests
       ELSE Ask(d, [kind |-> "start", code |-> a.activeGroupId, deck |-> deck])
    /\ UNCHANGED <<groups, outbox, failures, kills>>

\* Bugs: only the flag, or only the deck, is set.
StartedWithoutDeck(g, deck) == [g EXCEPT !.swipingSessionRunning = TRUE]

DealtButNotStarted(g, deck) == [g EXCEPT !.dinnerIdsForCardView = deck]

StartedGroup(g, deck) == [g EXCEPT !.swipingSessionRunning = TRUE,
                                   !.dinnerIdsForCardView = deck]

\* startOnlineSession(withDinnersIds:) writes back the whole document it read.
StartAnswered(d) == \E r \in requests[d] :
    /\ r.kind = "start" /\ Alive(d)
    /\ requests' = [requests EXCEPT ![d] = @ \ {r}]
    /\ LET g == View(d, r.code) IN
       IF g = Nil THEN UNCHANGED <<outbox, app>>
       ELSE /\ Send(d, <<SetData(r.code, StartedGroup(g, r.deck))>>)
            /\ Become(d, [app[d] EXCEPT !.isInOnlineSession = TRUE])
    /\ UNCHANGED <<groups, failures, kills>>

-----------------------------------------------------------------------------
(***************************************************************************)
(* Swiping, and what happens when the cards run out.                       *)
(***************************************************************************)
SaveDinnerIdToLocalStage(a, x) == [a EXCEPT !.localUserYesSwiped[x] = @ + 1]

AddToWantedDinner(a, x) ==
    [a EXCEPT !.wantedDinnersId = IF @ = Nil THEN {x} ELSE @ \cup {x}]

\* didSwipeCardAt, in either direction: it records items[index] of the items
\* as they are by then, for the purpose that the switch then has.
Recorded(a, index, right) ==
    LET x == a.items[index + 1] IN
    IF ~right THEN a
    ELSE IF a.isOn THEN SaveDinnerIdToLocalStage(a, x)
    ELSE AddToWantedDinner(a, x)

\* A careful user puts the cards aside while a group is being looked up.
MaySwipe(d) ==
    LET a == app[d] IN
    /\ a.screen = "cards" /\ ~IsRunOutOfCards(a) /\ Settled(d)
    /\ IF a.isOn THEN d \in Careful => a.activeGroupId # Nil ELSE d \in Soloists

\* Either direction is allowed; MaxVotes bounds the right swipes.
MayRecord(a, index) == a.isOn => a.localUserYesSwiped[a.items[index + 1]] < MaxVotes

Directions(a) == {right \in BOOLEAN : right => MayRecord(a, a.index)}

\* The card is gone at once; its callback follows when the next card is in
\* place.
Swipe(d) ==
    LET a == app[d]
        b == SwipedAction(a)
    IN
    /\ MaySwipe(d)
    /\ ~IsRunOutOfCards(b)
    /\ \E right \in Directions(a) :
          OnlyApp(d, [b EXCEPT !.swiped = [index |-> a.index, right |-> right,
                                           card |-> a.visible[1]]])

\* What came between may have dealt other items, or turned the switch.
DidSwipe(d) ==
    LET s == app[d].swiped IN
    /\ Alive(d) /\ ~Settled(d)
    /\ s.right => MayRecord(app[d], s.index)
    /\ OnlyApp(d, Recorded([app[d] EXCEPT !.swiped = Nil], s.index, s.right))

\* The last card has no animation to wait for: didSwipeCardAt and
\* kolodaDidRunOutOfCards are called at once.
RunOutAlone(d, b) ==
    \/ /\ b.wantedDinnersId # Nil
       /\ OnlyApp(d, [Present(b, "list") EXCEPT !.dinnerList = b.wantedDinnersId])
    \/ /\ b.wantedDinnersId = Nil               \* wantedDinnersId!
       /\ OnlyApp(d, Closed(b))

Ready(d, a) ==
    MarkThisUserAsReady(a.activeGroupId, ReadyIn(View(d, a.activeGroupId)))

Ballot(a) == AddDinnerIdsToFirebase(a.groupId, a.uniqueUserId, a.localUserYesSwiped)

\* Bugs: ready before the votes; votes, or the end of the session, by writing
\* back the document as this device sees it.
ReadyBeforeVotes(d, a) ==
    <<Ready(d, a), Ballot(a)>>

VotesByDocument(d, a) ==
    <<SetData(a.groupId, [View(d, a.groupId) EXCEPT
                            !.accepted[a.uniqueUserId] = a.localUserYesSwiped]),
      Ready(d, a)>>

EndOfSession(d, a) ==
    <<SetData(a.groupId, [View(d, a.groupId) EXCEPT
                            !.swipingSessionRunning = FALSE,
                            !.numberOfUsersReady = @ + 1,
                            !.accepted[a.uniqueUserId] = a.localUserYesSwiped])>>

RunOutWrites(d, a) == <<Ballot(a), Ready(d, a)>>

HasGroup(a) == a.groupId # Nil /\ a.uniqueUserId # Nil /\ a.activeGroupId # Nil

RunOutInGroup(d, b) ==
    \/ /\ HasGroup(b)
       /\ Send(d, RunOutWrites(d, b))
       /\ Become(d, InitiateEventListenerFor(b, "result", b.activeGroupId))
       /\ UNCHANGED <<groups, requests, failures, kills>>
    \/ /\ ~HasGroup(b)                         \* groupId!, activeGroupId!
       /\ OnlyApp(d, Closed(b))

\* Bound: MaxReady run-outs are counted in one group.
MayRunOut(d) == LET c == app[d].activeGroupId IN
                (c # Nil /\ View(d, c) # Nil) => View(d, c).numberOfUsersReady < MaxReady

SwipeLast(d) ==
    LET a == app[d] IN
    /\ MaySwipe(d)
    /\ \E right \in Directions(a) :
          LET b == Recorded(SwipedAction(a), a.index, right) IN
          /\ IsRunOutOfCards(b)
          /\ IF a.isOn THEN MayRunOut(d) /\ RunOutInGroup(d, b) ELSE RunOutAlone(d, b)

-----------------------------------------------------------------------------
(***************************************************************************)
(* Snapshot callbacks.  A listener is called when its document, as this    *)
(* device sees it, differs from what it was last called with; changes that *)
(* follow each other fast may be delivered as one.                         *)
(***************************************************************************)
\* The app with listener l having seen g.
Delivered(a, l, g) ==
    LET m == [l EXCEPT !.seen = g] IN
    IF a.activeEventListener = l THEN [a EXCEPT !.activeEventListener = m]
    ELSE [a EXCEPT !.leaked = (@ \ {l}) \cup {m}]

Attached(a) == a.leaked \cup ({a.activeEventListener} \ {Nil})

Changed(d, l) == /\ Alive(d)
                 /\ l \in Attached(app[d])
                 /\ l.seen # View(d, l.code)

\* The host's alert shows the number of participants; nothing else changes.
LobbySnapshot(d) == \E l \in Attached(app[d]) :
    /\ l.role = "lobby" /\ Changed(d, l)
    /\ OnlyApp(d, Delivered(app[d], l, View(d, l.code)))

\* The joiner's callback: once the host has started, take the deck, detach
\* whatever listener is active by now, and dismiss whatever is presented.
WaitSnapshot(d) == \E l \in Attached(app[d]) :
    LET g == View(d, l.code)
        a == Delivered(app[d], l, g)
    IN
    /\ l.role = "wait" /\ Changed(d, l)
    /\ \/ /\ g # Nil => ~g.swipingSessionRunning
          /\ OnlyApp(d, a)
       \/ /\ g # Nil
          /\ g.swipingSessionRunning
          /\ ~ReloadFails(WithSessionDeck(a, g))
          /\ OnlyApp(d, Dismiss(DetachEventListener(StartOnlineSession(a, g))))
       \/ /\ g # Nil
          /\ g.swipingSessionRunning
          /\ ReloadFails(WithSessionDeck(a, g)) \* itemsForCardView![index]
          /\ OnlyApp(d, Closed(WithSessionDeck(a, g)))

Winners(g) == DinnersWithVotes(CountYesSwipes(g.accepted), g.participants)

\* The callback of everyone who is done: when all are ready, show the result.
ResultSnapshot(d) == \E l \in Attached(app[d]) :
    LET g == View(d, l.code)
        a == Delivered(app[d], l, g)
    IN
    /\ l.role = "result" /\ Changed(d, l)
    /\ \/ /\ g # Nil => g.numberOfUsersReady # g.participants
          /\ OnlyApp(d, a)
       \/ /\ g # Nil
          /\ g.numberOfUsersReady = g.participants
          /\ Winners(g) # {}
          /\ OnlyApp(d, IF a.screen = "cards"
                        THEN Present([a EXCEPT !.dinnerList = Winners(g)], "list")
                        ELSE a)
       \/ /\ g # Nil
          /\ g.numberOfUsersReady = g.participants
          /\ Winners(g) = {}                    \* getDinnersWithMostVotes loops
          /\ OnlyApp(d, Show(a, "frozen"))

-----------------------------------------------------------------------------
(***************************************************************************)
(* The dinner list.                                                        *)
(***************************************************************************)
\* didPressRestart tells CardViewController to leave the group before the
\* user has answered the alert it then shows.
RestartPressed(d) ==
    LET a == app[d] IN
    /\ d \in Quitters
    /\ a.screen = "list" /\ Settled(d)
    /\ OnlyApp(d, Show(IF a.isInOnlineSession THEN ChangeBackToSingleUserState(a) ELSE a,
                       "restart"))

RestartCancelled(d) ==
    /\ app[d].screen = "restart"
    /\ OnlyApp(d, Show(app[d], "list"))

RestartConfirmed(d) ==
    LET a == [app[d] EXCEPT !.dinnerList = Nil, !.wantedDinnersId = Nil] IN
    /\ a.screen = "restart"
    /\ OnlyApp(d, Dismiss(a))

-----------------------------------------------------------------------------
(***************************************************************************)
(* The network, and the operating system.                                  *)
(***************************************************************************)
\* The server applies a client's writes one at a time, in order.  A frozen
\* main thread does not stop Firestore's own queue.
WriteReachesServer(d) ==
    /\ outbox[d] # <<>>
    /\ app[d].screen # "closed" /\ app[d].client # "idle"
    /\ LET w == Head(outbox[d]) IN
          groups' = [groups EXCEPT ![w.code] = ApplyWrite(@, w)]
    /\ outbox' = [outbox EXCEPT ![d] = Tail(@)]
    /\ UNCHANGED <<requests, app, failures, kills>>

\* getDocument and getDocuments call back with an error when offline; the
\* callbacks of removeOneFromParticipants and startOnlineSession ignore it.
RequestFails(d) == \E r \in requests[d] :
    /\ Alive(d)
    /\ failures < MaxFailures
    /\ failures' = failures + 1
    /\ requests' = [requests EXCEPT ![d] = @ \ {r}]
    /\ Become(d, IF r.kind \in {"create", "join"} THEN ConnectionError(app[d]) ELSE app[d])
    /\ UNCHANGED <<groups, outbox, kills>>

Killed(d) ==
    /\ app[d].screen # "closed"
    /\ kills < MaxKills
    /\ kills' = kills + 1
    /\ Become(d, Closed(app[d]))
    /\ UNCHANGED <<groups, outbox, requests, failures>>

\* A persistent client finds its unacknowledged writes again on disk.
Launch(d) == \E deck \in LocalDecks :
    /\ app[d].screen = "closed"
    /\ requests' = [requests EXCEPT ![d] = {}]
    /\ outbox' = [outbox EXCEPT ![d] = IF app[d].client = "memory" THEN <<>> ELSE @]
    /\ Become(d, LaunchedApp(deck, app[d].session))
    /\ UNCHANGED <<groups, failures, kills>>

-----------------------------------------------------------------------------
Switching(d) == \/ SwitchedOn(d) \/ JoinPressed(d) \/ CodeEntered(d) \/ CreatePressed(d)
                \/ ConnectCancelled(d) \/ SwitchedOff(d) \/ ExitCancelled(d) \/ ExitConfirmed(d)

Joining(d) == JoinAnswered(d) \/ LeaveGroupPressed(d) \/ RemoveAnswered(d)

Hosting(d) == \/ CreateAnswered(d) \/ HostCancelled(d) \/ StartPressed(d)
              \/ StartSessionPressed(d) \/ StartAnswered(d)

Swiping(d) == Swipe(d) \/ DidSwipe(d) \/ SwipeLast(d)

Snapshot(d) == LobbySnapshot(d) \/ WaitSnapshot(d) \/ ResultSnapshot(d)

Listing(d) == RestartPressed(d) \/ RestartCancelled(d) \/ RestartConfirmed(d)

Environment(d) == WriteReachesServer(d) \/ RequestFails(d) \/ Killed(d) \/ Launch(d)

Next == \E d \in Devices : \/ Switching(d) \/ Joining(d) \/ Hosting(d) \/ Swiping(d)
                           \/ Snapshot(d) \/ Listing(d) \/ Environment(d)

Spec == Init /\ [][Next]_vars

(***************************************************************************)
(* Fairness.  Firestore keeps retrying writes and reads and calls every    *)
(* listener, animations end, and the users of a session carry on with it.  *)
(***************************************************************************)
Answered(d) == \/ JoinAnswered(d) \/ RemoveAnswered(d)
               \/ CreateAnswered(d) \/ StartAnswered(d)

Proceeds(d) == \/ SwitchedOn(d) \/ JoinPressed(d) \/ CodeEntered(d) \/ CreatePressed(d)
               \/ StartPressed(d) \/ StartSessionPressed(d) \/ Swipe(d) \/ SwipeLast(d)

NetworkFairness == \A d \in Devices : /\ WF_vars(WriteReachesServer(d))
                                      /\ WF_vars(Answered(d))
                                      /\ WF_vars(Snapshot(d))

AnimationFairness == \A d \in Devices : WF_vars(DidSwipe(d))

UserFairness == \A d \in Devices : WF_vars(Proceeds(d))

FairSpec == Spec /\ NetworkFairness /\ AnimationFairness /\ UserFairness
=============================================================================

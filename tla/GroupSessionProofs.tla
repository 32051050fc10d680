------------------------- MODULE GroupSessionProofs -------------------------
(***************************************************************************)
(* Safety of a group session, for any devices, codes, decks and users.     *)
(***************************************************************************)
EXTENDS GroupSessionProperties, KolodaViewProofs, SequenceTheorems, FiniteSetTheorems, TLAPS

-----------------------------------------------------------------------------
(***************************************************************************)
(* Writes and latency compensation keep a property of documents: if the    *)
(* server's document and every document on its way there are in D, so is   *)
(* what any client sees, and what the server has after any write.          *)
(***************************************************************************)
\* A set of documents that is closed under counting and voting: only the
\* flag and the deck decide what is in it.
ClosedUnderUpdates(D) ==
    /\ D \subseteq Groups
    /\ \A g \in D : \A h \in Groups :
          /\ h.swipingSessionRunning = g.swipingSessionRunning
          /\ h.dinnerIdsForCardView = g.dinnerIdsForCardView
          => h \in D

WritesOf(D) == {w \in Writes : w.op = "set" => w.group \in D}

LEMMA LatestIsThere ==
    ASSUME NEW n \in Nat, NEW S, S \subseteq 1..n, S # {}
    PROVE  Latest(S) \in S /\ \A j \in S : j <= Latest(S)
<1> DEFINE T == {n - i : i \in S}
<1>1. T \subseteq Nat
    <2>1. \A i \in S : i \in Int /\ i <= n
        OBVIOUS
    <2> QED BY <2>1
<1>2. T # {}
    OBVIOUS
<1> HIDE DEF T
<1>3. \E x \in T : \A y \in T : ~(<<y, x>> \in OpToRel(<, Nat))
    BY <1>1, <1>2, WFMin, NatLessThanWellFounded
<1>4. PICK x \in T : \A y \in T : ~(<<y, x>> \in OpToRel(<, Nat))
    BY <1>3
<1>5. \A y \in T : ~(y < x)
    BY <1>1, <1>4 DEF OpToRel
<1>6. PICK i \in S : x = n - i
    BY DEF T
<1>7. \A j \in S : j <= i
    <2> TAKE j \in S
    <2>1. n - j \in T
        BY DEF T
    <2>2. ~(n - j < n - i)
        BY <2>1, <1>5, <1>6
    <2>3. i \in Int /\ j \in Int
        OBVIOUS
    <2> QED BY <2>2, <2>3
<1> QED BY <1>7 DEF Latest

LEMMA WriteTypes ==
    ASSUME NEW D, D \subseteq Groups, NEW c \in Codes
    PROVE  /\ \A g \in D : SetData(c, g) \in WritesOf(D)
           /\ \A n \in Int : AddOneParticipant(c, n) \in WritesOf(D)
           /\ \A n \in Nat : MarkThisUserAsReady(c, n) \in WritesOf(D)
           /\ \A u \in UserIds, l \in DinnerLists :
                AddDinnerIdsToFirebase(c, u, l) \in WritesOf(D)
BY DEF WritesOf, Writes, SetData, AddOneParticipant, MarkThisUserAsReady, AddDinnerIdsToFirebase

\* The base of an increment is a value that its field may have.
LEMMA BaseTypes ==
    ASSUME NEW g \in Groups \cup {Nil}
    PROVE  ParticipantsIn(g) \in Int /\ ReadyIn(g) \in Nat
BY DEF ParticipantsIn, ReadyIn, Groups

LEMMA AppliedWrite ==
    ASSUME NEW D, ClosedUnderUpdates(D), NEW g \in D \cup {Nil}, NEW w \in WritesOf(D)
    PROVE  ApplyWrite(g, w) \in D \cup {Nil}
<1>1. CASE w.op = "set"
    BY <1>1 DEF ApplyWrite, WritesOf
<1>2. CASE w.op # "set" /\ g = Nil
    BY <1>2 DEF ApplyWrite
<1>3. CASE w.op # "set" /\ g # Nil
    <2>1. /\ g \in D /\ g \in Groups
          /\ g.participants \in Int /\ g.numberOfUsersReady \in Nat
          /\ g.accepted \in [UserIds -> DinnerLists \cup {Nil}]
        BY <1>3 DEF ClosedUnderUpdates, Groups
    <2>2. w \in Writes
        BY DEF WritesOf
    <2>3. CASE w.op = "join"
        <3> DEFINE h == [g EXCEPT !.participants = @ + 1]
        <3>0. g.participants + 1 \in Int
            BY <2>1
        <3>1. /\ h \in Groups /\ h.swipingSessionRunning = g.swipingSessionRunning
              /\ h.dinnerIdsForCardView = g.dinnerIdsForCardView
            BY <2>1, <3>0 DEF Groups
        <3>2. ApplyWrite(g, w) = h
            BY <1>3, <2>3 DEF ApplyWrite
        <3> QED BY <2>1, <3>1, <3>2 DEF ClosedUnderUpdates
    <2>4. CASE w.op = "ready"
        <3> DEFINE h == [g EXCEPT !.numberOfUsersReady = @ + 1]
        <3>0. g.numberOfUsersReady + 1 \in Nat
            BY <2>1
        <3>1. /\ h \in Groups /\ h.swipingSessionRunning = g.swipingSessionRunning
              /\ h.dinnerIdsForCardView = g.dinnerIdsForCardView
            BY <2>1, <3>0 DEF Groups
        <3>2. ApplyWrite(g, w) = h
            BY <1>3, <2>4 DEF ApplyWrite
        <3> QED BY <2>1, <3>1, <3>2 DEF ClosedUnderUpdates
    <2>5. CASE w.op = "vote"
        <3> DEFINE h == [g EXCEPT !.accepted[w.user] = w.list]
        <3>1. w.list \in DinnerLists
            BY <2>2, <2>5 DEF Writes
        <3>2. /\ h \in Groups /\ h.swipingSessionRunning = g.swipingSessionRunning
              /\ h.dinnerIdsForCardView = g.dinnerIdsForCardView
            BY <2>1, <3>1 DEF Groups
        <3>3. ApplyWrite(g, w) = h
            BY <1>3, <2>5 DEF ApplyWrite
        <3> QED BY <2>1, <3>2, <3>3 DEF ClosedUnderUpdates
    <2> QED BY <1>3, <2>2, <2>3, <2>4, <2>5 DEF Writes
<1> QED BY <1>1, <1>2, <1>3

\* Whatever a client has not sent yet, it sees a document from D, and it sees
\* one whenever there is one to start from.
THEOREM LocalViewIsClosed ==
    ASSUME NEW D, ClosedUnderUpdates(D), NEW g \in D \cup {Nil},
           NEW q \in Seq(WritesOf(D)), NEW c \in Codes
    PROVE  /\ LocalView(g, q, c) \in D \cup {Nil}
           /\ BaseDocument(g, q, c) # Nil => LocalView(g, q, c) \in D
<1>1. /\ Len(q) \in Nat /\ DOMAIN q = 1..Len(q)
      /\ \A i \in 1..Len(q) : q[i] \in WritesOf(D)
    BY LenProperties, ElementOfSeq
<1>2. BaseDocument(g, q, c) \in D \cup {Nil}
    <2> SUFFICES ASSUME PendingSets(q, c) # {}
                 PROVE  q[Latest(PendingSets(q, c))].group \in D
        BY DEF BaseDocument
    <2>1. PendingSets(q, c) \subseteq 1..Len(q)
        BY <1>1 DEF PendingSets
    <2>2. Latest(PendingSets(q, c)) \in PendingSets(q, c)
        BY <1>1, <2>1, LatestIsThere
    <2> QED BY <1>1, <2>1, <2>2 DEF PendingSets, WritesOf
<1> DEFINE b == BaseDocument(g, q, c)
           p == LocalCount(q, c, "join", b.participants)
           n == LocalCount(q, c, "ready", b.numberOfUsersReady)
           a == [u \in UserIds |->
                    IF PendingVotes(q, c, u) = {} THEN b.accepted[u]
                    ELSE q[Latest(PendingVotes(q, c, u))].list]
<1>3. SUFFICES ASSUME b # Nil
               PROVE  LocalView(g, q, c) \in D
    BY DEF LocalView
<1>4. /\ b \in D
      /\ b.participants \in Int /\ b.numberOfUsersReady \in Nat
      /\ b.accepted \in [UserIds -> DinnerLists \cup {Nil}]
    BY <1>2, <1>3 DEF ClosedUnderUpdates, Groups
<1>5. ASSUME NEW op \in {"join", "ready"}, Pending(q, c, op) # {}
      PROVE  /\ q[Latest(Pending(q, c, op))] \in Writes
             /\ q[Latest(Pending(q, c, op))].op = op
    <2>1. Pending(q, c, op) \subseteq 1..Len(q)
        BY <1>1 DEF Pending
    <2>2. Latest(Pending(q, c, op)) \in Pending(q, c, op)
        BY <1>1, <1>5, <2>1, LatestIsThere
    <2> QED BY <1>1, <2>1, <2>2 DEF Pending, WritesOf
<1>6. a \in [UserIds -> DinnerLists \cup {Nil}]
    <2> SUFFICES ASSUME NEW u \in UserIds, PendingVotes(q, c, u) # {}
                 PROVE  q[Latest(PendingVotes(q, c, u))].list \in DinnerLists
        BY <1>4
    <2>1. PendingVotes(q, c, u) \subseteq 1..Len(q)
        BY <1>1 DEF PendingVotes, Pending
    <2>2. Latest(PendingVotes(q, c, u)) \in PendingVotes(q, c, u)
        BY <1>1, <2>1, LatestIsThere
    <2> DEFINE w == q[Latest(PendingVotes(q, c, u))]
    <2>3. w \in Writes /\ w.op = "vote"
        BY <1>1, <2>1, <2>2 DEF PendingVotes, Pending, WritesOf
    <2> QED BY <2>3 DEF Writes
<1>7. p \in Int /\ n \in Nat
    <2>1. p \in Int
        <3>1. CASE Pending(q, c, "join") = {}
            BY <1>4, <3>1 DEF LocalCount
        <3>2. CASE Pending(q, c, "join") # {}
            <4> DEFINE w == q[Latest(Pending(q, c, "join"))]
            <4>1. w \in Writes /\ w.op = "join"
                BY <1>5, <3>2
            <4>2. w.base \in Int
                BY <4>1 DEF Writes
            <4> QED BY <3>2, <4>2 DEF LocalCount
        <3> QED BY <3>1, <3>2
    <2>2. n \in Nat
        <3>1. CASE Pending(q, c, "ready") = {}
            BY <1>4, <3>1 DEF LocalCount
        <3>2. CASE Pending(q, c, "ready") # {}
            <4> DEFINE w == q[Latest(Pending(q, c, "ready"))]
            <4>1. w \in Writes /\ w.op = "ready"
                BY <1>5, <3>2
            <4>2. w.base \in Nat
                BY <4>1 DEF Writes
            <4> QED BY <3>2, <4>2 DEF LocalCount
        <3> QED BY <3>1, <3>2
    <2> QED BY <2>1, <2>2
<1>8. LocalView(g, q, c) = [b EXCEPT !.participants = p, !.numberOfUsersReady = n, !.accepted = a]
    BY <1>3 DEF LocalView
<1> DEFINE h == [b EXCEPT !.participants = p, !.numberOfUsersReady = n, !.accepted = a]
<1> HIDE DEF b, p, n, a
<1>9. /\ h \in Groups /\ h.swipingSessionRunning = b.swipingSessionRunning
      /\ h.dinnerIdsForCardView = b.dinnerIdsForCardView
    BY <1>4, <1>6, <1>7 DEF Groups, ClosedUnderUpdates
<1> HIDE DEF h
<1> QED BY <1>4, <1>8, <1>9 DEF ClosedUnderUpdates, h

-----------------------------------------------------------------------------
(***************************************************************************)
(* The inductive invariant.                                                *)
(***************************************************************************)
\* Documents that are not started, or started on a deck a host drew.
DealtGroups == {g \in Groups : g.swipingSessionRunning => g.dinnerIdsForCardView \in HostDecks}

DealtListeners == {l \in Listeners : l.seen \in DealtGroups \cup {Nil}}

\* A card that is on its way off the screen was right before those on it.
InFlight(a) == a.swiped # Nil => a.swiped.index + 1 = a.index /\ a.visible # <<>>

(***************************************************************************)
(* A sound app: its cards fit its deck (a crash leaves them as they were), *)
(* whoever is told to wait has a group to wait for, and its listeners have *)
(* seen no other documents.                                                *)
(***************************************************************************)
SoundApps == {a \in Apps : /\ a.screen # "closed" => Fits(a.items, a.index, a.visible) /\ InFlight(a)
                           /\ Len(a.visible) <= CountOfVisibleCards
                           /\ a.screen = "waiting" => a.groupId \in Codes
                           /\ Attached(a) \subseteq DealtListeners}

(***************************************************************************)
(* One attempt to enter a group at a time: while one is in flight or being *)
(* typed, there is a user id left for it, and its alerts are gone when the *)
(* request is out.                                                         *)
(***************************************************************************)
Entering(R) == {r \in R : r.kind \in {"create", "join"}}
AsksToEnter(a) == a.screen \in {"connect", "code"}

OneAttempt(a, R) ==
    /\ Entering(R) # {} \/ AsksToEnter(a) => a.session < MaxSessions
    /\ AsksToEnter(a) => Entering(R) = {}
    /\ \A r, s \in Entering(R) : r = s

IInv ==
    /\ groups \in [Codes -> DealtGroups \cup {Nil}]
    /\ outbox \in [Devices -> Seq(WritesOf(DealtGroups))]
    /\ requests \in [Devices -> SUBSET Requests]
    /\ app \in [Devices -> SoundApps]
    /\ failures \in 0..MaxFailures
    /\ kills \in 0..MaxKills
    /\ \A d \in Devices : OneAttempt(app[d], requests[d])

-----------------------------------------------------------------------------
(***************************************************************************)
(* Documents.                                                              *)
(***************************************************************************)
LEMMA DealtClosed == ClosedUnderUpdates(DealtGroups)
BY DEF ClosedUnderUpdates, DealtGroups

LEMMA DealtSubset == DealtGroups \subseteq Groups
BY DEF DealtGroups

LEMMA NewGroupDealt == NewGroup \in DealtGroups
<1>1. <<>> \in Seq(Dinners)
    BY EmptySeq
<1> QED BY <1>1 DEF NewGroup, DealtGroups, Groups

LEMMA OldGroupDealt ==
    ASSUME NEW deck \in HostDecks
    PROVE  OldGroup(deck) \in DealtGroups
<1>1. deck \in Seq(Dinners)
    BY DecksAssumption
<1>2. NewGroup \in Groups
    BY NewGroupDealt, DealtSubset
<1> QED BY <1>1, <1>2 DEF OldGroup, DealtGroups, Groups

LEMMA StartedGroupDealt ==
    ASSUME NEW deck \in HostDecks, NEW g \in Groups
    PROVE  StartedGroup(g, deck) \in DealtGroups
<1>1. deck \in Seq(Dinners)
    BY DecksAssumption
<1> QED BY <1>1 DEF StartedGroup, DealtGroups, Groups

LEMMA ViewDealt ==
    ASSUME IInv, NEW d \in Devices, NEW c \in Codes
    PROVE  View(d, c) \in DealtGroups \cup {Nil}
<1>1. groups[c] \in DealtGroups \cup {Nil} /\ outbox[d] \in Seq(WritesOf(DealtGroups))
    BY DEF IInv
<1> QED BY <1>1, DealtClosed, LocalViewIsClosed DEF View

LEMMA ViewBases ==
    ASSUME IInv, NEW d \in Devices, NEW c \in Codes
    PROVE  ParticipantsIn(View(d, c)) \in Int /\ ReadyIn(View(d, c)) \in Nat
<1>1. View(d, c) \in Groups \cup {Nil}
    BY ViewDealt, DealtSubset
<1> QED BY <1>1, BaseTypes

-----------------------------------------------------------------------------
(***************************************************************************)
(* Apps.                                                                   *)
(***************************************************************************)
LEMMA AppIsPile ==
    ASSUME NEW a \in Apps, Len(a.visible) <= CountOfVisibleCards
    PROVE  IsPile(a, Dinners)
BY DEF Apps, IsPile

\* A pile operation changes nothing but the pile.
LEMMA DealtApp ==
    ASSUME NEW a \in Apps, NEW b, Deals(a, Dinners, b)
    PROVE  /\ b \in Apps
           /\ b.screen = a.screen /\ b.groupId = a.groupId /\ b.session = a.session
           /\ b.items = a.items /\ b.swiped = a.swiped /\ b.isOn = a.isOn
           /\ Attached(b) = Attached(a)
           /\ Fits(b.items, b.index, b.visible)
           /\ Len(b.visible) <= CountOfVisibleCards
<1>1. PICK i \in Nat, v \in Seq(Dinners) :
          /\ b = [a EXCEPT !.index = i, !.visible = v]
          /\ Fits(a.items, i, v) /\ Len(v) <= CountOfVisibleCards
    BY DEF Deals
<1>2. b \in Apps
    BY <1>1 DEF Apps
<1>3. /\ b.screen = a.screen /\ b.groupId = a.groupId /\ b.session = a.session
      /\ b.activeEventListener = a.activeEventListener /\ b.leaked = a.leaked
      /\ b.items = a.items /\ b.index = i /\ b.visible = v
      /\ b.swiped = a.swiped /\ b.isOn = a.isOn
    BY <1>1 DEF Apps
<1> QED BY <1>1, <1>2, <1>3 DEF Attached

LEMMA AttachedListeners ==
    ASSUME NEW a \in Apps
    PROVE  Attached(a) \subseteq Listeners
BY DEF Attached, Apps

\* The app after a change that keeps pile and listeners and is not the
\* waiting alert.
LEMMA SameDealStaysSound ==
    ASSUME NEW a \in SoundApps, NEW b \in Apps,
           b.items = a.items, b.index = a.index, b.visible = a.visible,
           b.swiped \in {a.swiped, Nil},
           Attached(b) \subseteq Attached(a),
           b.screen # "closed" => a.screen # "closed",
           b.screen = "waiting" => b.groupId \in Codes
    PROVE  b \in SoundApps
BY DEF SoundApps, InFlight

LEMMA ListenerSound ==
    ASSUME NEW a \in SoundApps, NEW c \in Codes, NEW role \in {"lobby", "wait", "result"}
    PROVE  InitiateEventListenerFor(a, role, c) \in SoundApps
<1> DEFINE l == [role |-> role, code |-> c, seen |-> Nil]
           b == InitiateEventListenerFor(a, role, c)
<1>1. l \in DealtListeners
    BY DEF DealtListeners, Listeners
<1>2. a \in Apps /\ l \in Listeners /\ Attached(a) \subseteq Listeners
    BY <1>1, AttachedListeners DEF SoundApps, DealtListeners
<1>3. a.leaked \cup ({a.activeEventListener} \ {Nil}) \in SUBSET Listeners
    BY <1>2 DEF Attached
<1>4. b \in Apps
    BY <1>2, <1>3 DEF Apps, InitiateEventListenerFor
<1>5. /\ b.items = a.items /\ b.index = a.index /\ b.visible = a.visible
      /\ b.screen = a.screen /\ b.groupId = a.groupId /\ b.swiped = a.swiped
      /\ b.leaked = Attached(a) /\ b.activeEventListener = l
    BY <1>2 DEF Apps, InitiateEventListenerFor, Attached
<1>6. Attached(b) \subseteq DealtListeners
    BY <1>1, <1>5 DEF Attached, SoundApps
<1> HIDE DEF b
<1>7. b \in SoundApps
    BY <1>4, <1>5, <1>6 DEF SoundApps, InFlight
<1> QED BY <1>7 DEF b

LEMMA UserIdType ==
    ASSUME NEW a \in Apps, NEW d \in Devices, a.session < MaxSessions
    PROVE  /\ CreateUniqueUserId(a, d) \in Apps
           /\ CreateUniqueUserId(a, d).session = a.session + 1
<1>1. a.session \in Nat /\ a.session + 1 \in 1..MaxSessions /\ a.session + 1 \in 0..MaxSessions
    BY MaxSessionsAssumption DEF Apps
<1>2. <<d, a.session + 1>> \in UserIds
    BY <1>1 DEF UserIds
<1> QED BY <1>1, <1>2 DEF Apps, CreateUniqueUserId

-----------------------------------------------------------------------------
(***************************************************************************)
(* Steps.                                                                  *)
(***************************************************************************)
LEMMA LaunchedAppSound ==
    ASSUME NEW deck \in LocalDecks, NEW n \in 0..MaxSessions
    PROVE  LaunchedApp(deck, n) \in SoundApps
<1> DEFINE m == Smaller(CountOfVisibleCards, Len(deck))
           v == SubSeq(deck, 1, m)
           a == LaunchedApp(deck, n)
<1>1. deck \in Seq(Dinners)
    BY DecksAssumption
<1>2. m \in Nat /\ m <= Len(deck) /\ m <= CountOfVisibleCards
    BY <1>1, LenProperties, VisibleAssumption DEF Smaller
<1>3. v \in Seq(Dinners) /\ Len(v) = m
    <2>1. /\ SubSeq(deck, 0 + 1, m) \in Seq(Dinners)
          /\ Len(SubSeq(deck, 0 + 1, m)) = IF 0 < m THEN m - 0 ELSE 0
        BY <1>1, <1>2, SliceProperties
    <2> QED BY <1>2, <2>1
<1> HIDE DEF v
<1>4. a \in Apps
    BY <1>1, <1>3 DEF Apps, LaunchedApp, Screens, DinnerLists, v
<1>5. /\ a.screen = "cards" /\ a.items = deck /\ a.index = 0 /\ a.visible = v
      /\ a.leaked = {} /\ a.activeEventListener = Nil /\ a.swiped = Nil
    BY DEF LaunchedApp, v
<1> HIDE DEF a
<1>6. Attached(a) = {}
    BY <1>5 DEF Attached
<1>7. a \in SoundApps
    BY <1>1, <1>2, <1>3, <1>4, <1>5, <1>6 DEF SoundApps, Fits, InFlight
<1> QED BY <1>7 DEF a

LEMMA InvInit == Init => IInv
<1> SUFFICES ASSUME Init PROVE IInv
    OBVIOUS
<1>1. groups \in [Codes -> DealtGroups \cup {Nil}]
    BY OldGroupDealt DEF Init
<1>2. outbox \in [Devices -> Seq(WritesOf(DealtGroups))]
    BY EmptySeq DEF Init
<1>3. requests \in [Devices -> SUBSET Requests] /\ \A d \in Devices : requests[d] = {}
    BY DEF Init
<1>4. PICK deck \in [Devices -> LocalDecks] : app = [d \in Devices |-> LaunchedApp(deck[d], 0)]
    BY DEF Init
<1>5. \A d \in Devices : LaunchedApp(deck[d], 0) \in SoundApps
    <2>1. 0 \in 0..MaxSessions
        BY MaxSessionsAssumption
    <2> QED BY <2>1, LaunchedAppSound
<1>6. app \in [Devices -> SoundApps]
    BY <1>4, <1>5
<1>7. \A d \in Devices : OneAttempt(app[d], requests[d])
    BY <1>3, <1>4 DEF OneAttempt, Entering, AsksToEnter, LaunchedApp
<1>8. failures \in 0..MaxFailures /\ kills \in 0..MaxKills
    BY BoundsAssumption DEF Init
<1> QED BY <1>1, <1>2, <1>3, <1>6, <1>7, <1>8 DEF IInv

\* A step of one device.
LEMMA DeviceStep ==
    ASSUME IInv, NEW d \in Devices, NEW a \in SoundApps, NEW R \in SUBSET Requests,
           NEW q \in Seq(WritesOf(DealtGroups)),
           OneAttempt(a, R),
           app' = [app EXCEPT ![d] = a],
           requests' = [requests EXCEPT ![d] = R],
           outbox' = [outbox EXCEPT ![d] = q],
           groups' \in [Codes -> DealtGroups \cup {Nil}],
           failures' \in 0..MaxFailures, kills' \in 0..MaxKills
    PROVE  IInv'
<1>1. /\ app \in [Devices -> SoundApps] /\ requests \in [Devices -> SUBSET Requests]
      /\ outbox \in [Devices -> Seq(WritesOf(DealtGroups))]
      /\ \A e \in Devices : OneAttempt(app[e], requests[e])
    BY DEF IInv
<1>2. /\ app' \in [Devices -> SoundApps]
      /\ requests' \in [Devices -> SUBSET Requests]
      /\ outbox' \in [Devices -> Seq(WritesOf(DealtGroups))]
    BY <1>1
<1>3. \A e \in Devices : OneAttempt(app'[e], requests'[e])
    <2> TAKE e \in Devices
    <2>1. CASE e = d
        <3>1. app'[e] = a /\ requests'[e] = R
            BY <1>1, <2>1
        <3> QED BY <3>1
    <2>2. CASE e # d
        <3>1. app'[e] = app[e] /\ requests'[e] = requests[e]
            BY <1>1, <2>2
        <3> QED BY <1>1, <3>1
    <2> QED BY <2>1, <2>2
<1> QED BY <1>2, <1>3 DEF IInv

LEMMA Unchanged ==
    ASSUME IInv, NEW d \in Devices
    PROVE  /\ app[d] \in SoundApps /\ app[d] \in Apps
           /\ requests[d] \in SUBSET Requests
           /\ outbox[d] \in Seq(WritesOf(DealtGroups))
           /\ OneAttempt(app[d], requests[d])
           /\ app = [app EXCEPT ![d] = app[d]]
           /\ requests = [requests EXCEPT ![d] = requests[d]]
           /\ outbox = [outbox EXCEPT ![d] = outbox[d]]
           /\ groups \in [Codes -> DealtGroups \cup {Nil}]
           /\ failures \in 0..MaxFailures /\ kills \in 0..MaxKills
BY DEF IInv, SoundApps

\* A step that only changes one app, and starts no attempt.
LEMMA AppStep ==
    ASSUME IInv, NEW d \in Devices, NEW a \in SoundApps, OnlyApp(d, a),
           a.session = app[d].session,
           AsksToEnter(a) => AsksToEnter(app[d])
    PROVE  IInv'
<1>1. OneAttempt(a, requests[d])
    BY Unchanged DEF OneAttempt
<1>2. /\ app' = [app EXCEPT ![d] = a]
      /\ requests' = [requests EXCEPT ![d] = requests[d]]
      /\ outbox' = [outbox EXCEPT ![d] = outbox[d]]
      /\ groups' \in [Codes -> DealtGroups \cup {Nil}]
      /\ failures' \in 0..MaxFailures /\ kills' \in 0..MaxKills
    BY Unchanged DEF OnlyApp, Become
<1> QED BY <1>1, <1>2, Unchanged, DeviceStep

-----------------------------------------------------------------------------
(***************************************************************************)
(* The switch and its alerts.                                              *)
(***************************************************************************)
\* Presenting or dismissing changes the screen and nothing else.
LEMMA ShownApp ==
    ASSUME NEW a \in Apps, NEW s \in Screens
    PROVE  /\ Show(a, s) \in Apps
           /\ Show(a, s).screen = s
           /\ Show(a, s).session = a.session /\ Show(a, s).groupId = a.groupId
           /\ Show(a, s).items = a.items /\ Show(a, s).index = a.index
           /\ Show(a, s).visible = a.visible /\ Show(a, s).leaked = a.leaked
           /\ Show(a, s).activeEventListener = a.activeEventListener
           /\ Show(a, s).swiped = a.swiped
<1>1. Show(a, s) \in Apps
    BY DEF Apps, Show
<1>2. /\ Show(a, s).screen = s
      /\ Show(a, s).session = a.session /\ Show(a, s).groupId = a.groupId
      /\ Show(a, s).items = a.items /\ Show(a, s).index = a.index
    BY DEF Apps, Show
<1>3. /\ Show(a, s).visible = a.visible /\ Show(a, s).leaked = a.leaked
      /\ Show(a, s).activeEventListener = a.activeEventListener
      /\ Show(a, s).swiped = a.swiped
    BY DEF Apps, Show
<1> QED BY <1>1, <1>2, <1>3

\* The switch is in an app's state, but nothing that makes an app sound.
LEMMA SwitchedApp ==
    ASSUME NEW a \in Apps, NEW on \in BOOLEAN
    PROVE  LET b == [a EXCEPT !.isOn = on] IN
           /\ b \in Apps
           /\ b.screen = a.screen /\ b.session = a.session /\ b.groupId = a.groupId
           /\ b.items = a.items /\ b.index = a.index /\ b.visible = a.visible
           /\ b.leaked = a.leaked /\ b.activeEventListener = a.activeEventListener
           /\ b.swiped = a.swiped
<1> DEFINE b == [a EXCEPT !.isOn = on]
<1>1. b \in Apps
    BY DEF Apps
<1>2. b.screen = a.screen /\ b.session = a.session /\ b.groupId = a.groupId
    BY DEF Apps
<1>3. /\ b.items = a.items /\ b.index = a.index /\ b.visible = a.visible
      /\ b.leaked = a.leaked /\ b.activeEventListener = a.activeEventListener
      /\ b.swiped = a.swiped
    BY DEF Apps
<1> QED BY <1>1, <1>2, <1>3

LEMMA ShowSound ==
    ASSUME NEW a \in SoundApps, NEW s \in Screens \ {"waiting"}, a.screen # "closed"
    PROVE  /\ Show(a, s) \in SoundApps
           /\ Show(a, s).screen = s /\ Show(a, s).session = a.session
<1>1. a \in Apps
    BY DEF SoundApps
<1> DEFINE b == Show(a, s)
<1>2. /\ b \in Apps /\ b.screen = s /\ b.session = a.session
      /\ b.items = a.items /\ b.index = a.index /\ b.visible = a.visible
      /\ b.leaked = a.leaked /\ b.activeEventListener = a.activeEventListener
      /\ b.swiped = a.swiped
    BY <1>1, ShownApp
<1> HIDE DEF b
<1>3. b \in SoundApps
    BY <1>2, SameDealStaysSound DEF Attached
<1> QED BY <1>2, <1>3 DEF b

LEMMA SwitchSound ==
    ASSUME NEW a \in SoundApps, NEW s \in Screens \ {"waiting"}, NEW on \in BOOLEAN,
           a.screen # "closed"
    PROVE  /\ Show([a EXCEPT !.isOn = on], s) \in SoundApps
           /\ Show([a EXCEPT !.isOn = on], s).screen = s
           /\ Show([a EXCEPT !.isOn = on], s).session = a.session
<1>1. a \in Apps
    BY DEF SoundApps
<1> DEFINE b == [a EXCEPT !.isOn = on]
<1>2. /\ b \in Apps /\ b.screen = a.screen /\ b.session = a.session
      /\ b.items = a.items /\ b.index = a.index /\ b.visible = a.visible
      /\ b.leaked = a.leaked /\ b.activeEventListener = a.activeEventListener
      /\ b.groupId = a.groupId /\ b.swiped = a.swiped
    BY <1>1, SwitchedApp
<1> HIDE DEF b
<1>3. b \in SoundApps
    BY <1>2, SameDealStaysSound DEF Attached, SoundApps
<1>4. Show(b, s) \in SoundApps /\ Show(b, s).screen = s /\ Show(b, s).session = a.session
    BY <1>2, <1>3, ShowSound
<1> QED BY <1>4 DEF b

LEMMA SwitchedOnStep ==
    ASSUME IInv, NEW d \in Devices, SwitchedOn(d)
    PROVE  IInv'
<1> DEFINE a == Show([app[d] EXCEPT !.isOn = TRUE], "connect")
<1>0. /\ app[d] \in SoundApps /\ app[d].screen # "closed"
      /\ TRUE \in BOOLEAN /\ "connect" \in Screens \ {"waiting"}
    BY Unchanged DEF SwitchedOn, Screens
<1>1. a \in SoundApps /\ a.screen = "connect" /\ a.session = app[d].session
    BY <1>0, SwitchSound
<1>2. OneAttempt(a, requests[d])
    BY <1>1 DEF SwitchedOn, MayEnter, OneAttempt, Entering, AsksToEnter
<1>3. OnlyApp(d, a)
    BY DEF SwitchedOn
<1> HIDE DEF a
<1>4. /\ app' = [app EXCEPT ![d] = a]
      /\ requests' = [requests EXCEPT ![d] = requests[d]]
      /\ outbox' = [outbox EXCEPT ![d] = outbox[d]]
      /\ groups' \in [Codes -> DealtGroups \cup {Nil}]
      /\ failures' \in 0..MaxFailures /\ kills' \in 0..MaxKills
    BY <1>3, Unchanged DEF OnlyApp, Become
<1> QED BY <1>1, <1>2, <1>4, Unchanged, DeviceStep

LEMMA JoinPressedStep ==
    ASSUME IInv, NEW d \in Devices, JoinPressed(d)
    PROVE  IInv'
<1>1. app[d].screen = "connect" /\ OnlyApp(d, Show(app[d], "code"))
    BY DEF JoinPressed
<1> QED BY <1>1, Unchanged, ShowSound, AppStep DEF AsksToEnter, Screens

LEMMA CodeEnteredStep ==
    ASSUME IInv, NEW d \in Devices, CodeEntered(d)
    PROVE  IInv'
<1>1. PICK c \in TypedCodes :
          /\ app[d].screen = "code"
          /\ Ask(d, [kind |-> "join", code |-> c])
          /\ Become(d, Show([app[d] EXCEPT !.client = IF @ = "idle" THEN "persistent" ELSE @],
                            "cards"))
          /\ UNCHANGED <<groups, outbox, failures, kills>>
    BY DEF CodeEntered
<1> DEFINE r == [kind |-> "join", code |-> c]
           client == IF app[d].client = "idle" THEN "persistent" ELSE app[d].client
           b == [app[d] EXCEPT !.client = client]
           a == Show(b, "cards")
           R == requests[d] \cup {r}
<1>2. app[d] \in Apps /\ app[d] \in SoundApps /\ OneAttempt(app[d], requests[d])
    BY Unchanged
<1>3. /\ a \in Apps /\ a.screen = "cards" /\ a.session = app[d].session
      /\ a.items = app[d].items /\ a.index = app[d].index /\ a.visible = app[d].visible
      /\ a.leaked = app[d].leaked /\ a.activeEventListener = app[d].activeEventListener
      /\ a.swiped = app[d].swiped
    <2>1. client \in {"idle", "persistent", "memory"}
        BY <1>2 DEF Apps
    <2> HIDE DEF client
    <2>2. /\ b \in Apps /\ b.session = app[d].session
          /\ b.items = app[d].items /\ b.index = app[d].index /\ b.visible = app[d].visible
          /\ b.leaked = app[d].leaked /\ b.activeEventListener = app[d].activeEventListener
          /\ b.swiped = app[d].swiped
        <3>1. b \in Apps
            BY <1>2, <2>1 DEF Apps
        <3>2. /\ b.session = app[d].session
              /\ b.items = app[d].items /\ b.index = app[d].index
              /\ b.visible = app[d].visible
              /\ b.leaked = app[d].leaked /\ b.activeEventListener = app[d].activeEventListener
              /\ b.swiped = app[d].swiped
            BY <1>2 DEF Apps
        <3> QED BY <3>1, <3>2
    <2>3. "cards" \in Screens
        BY DEF Screens
    <2> HIDE DEF b
    <2> QED BY <2>2, <2>3, ShownApp
<1>4. R \in SUBSET Requests
    BY RolesAssumption, Unchanged DEF Requests
<1>5. app' = [app EXCEPT ![d] = a] /\ requests' = [requests EXCEPT ![d] = R]
    BY <1>1 DEF Ask, Become
<1> HIDE DEF a
<1>6. a \in SoundApps
    BY <1>1, <1>2, <1>3, SameDealStaysSound DEF Attached
<1>7. Entering(R) = {r}
    BY <1>1, <1>2 DEF OneAttempt, Entering, AsksToEnter
<1>8. OneAttempt(a, R)
    BY <1>1, <1>2, <1>3, <1>7 DEF OneAttempt, AsksToEnter
<1>9. /\ outbox' = [outbox EXCEPT ![d] = outbox[d]]
      /\ groups' \in [Codes -> DealtGroups \cup {Nil}]
      /\ failures' \in 0..MaxFailures /\ kills' \in 0..MaxKills
    BY <1>1, Unchanged
<1> QED BY <1>4, <1>5, <1>6, <1>8, <1>9, Unchanged, DeviceStep

\* A closed app has nothing to keep.
LEMMA ClosedSound ==
    ASSUME NEW a \in Apps, Len(a.visible) <= CountOfVisibleCards,
           Attached(a) \subseteq DealtListeners
    PROVE  /\ Closed(a) \in SoundApps
           /\ Closed(a).screen = "closed" /\ Closed(a).session = a.session
<1>1. /\ Closed(a) \in Apps /\ Closed(a).screen = "closed" /\ Closed(a).session = a.session
      /\ Closed(a).visible = a.visible
      /\ Closed(a).leaked = a.leaked /\ Closed(a).activeEventListener = a.activeEventListener
    <2>1. Closed(a) = Show(a, "closed") /\ "closed" \in Screens
        BY DEF Closed, Show, Screens
    <2> QED BY <2>1, ShownApp
<1> QED BY <1>1 DEF SoundApps, Attached

LEMMA CreatePressedStep ==
    ASSUME IInv, NEW d \in Devices, CreatePressed(d)
    PROVE  IInv'
<1>1. app[d] \in Apps /\ app[d] \in SoundApps /\ OneAttempt(app[d], requests[d])
    BY Unchanged
<1>2. app[d].screen = "connect"
    BY DEF CreatePressed
<1>3. CASE OnlyApp(d, Closed(app[d]))
    BY <1>1, <1>3, ClosedSound, AppStep DEF AsksToEnter, SoundApps
<1>4. ASSUME Ask(d, [kind |-> "create"]),
             Become(d, Show([app[d] EXCEPT !.client = "memory"], "cards")),
             outbox' = [outbox EXCEPT ![d] = IF app[d].client = "idle" THEN <<>> ELSE @],
             UNCHANGED <<groups, failures, kills>>
      PROVE  IInv'
    <2> DEFINE a == Show([app[d] EXCEPT !.client = "memory"], "cards")
               r == [kind |-> "create"]
               R == requests[d] \cup {r}
               q == IF app[d].client = "idle" THEN <<>> ELSE outbox[d]
    <2>1. /\ a \in Apps /\ a.screen = "cards" /\ a.session = app[d].session
          /\ a.items = app[d].items /\ a.index = app[d].index /\ a.visible = app[d].visible
          /\ a.leaked = app[d].leaked /\ a.activeEventListener = app[d].activeEventListener
          /\ a.swiped = app[d].swiped
        <3> DEFINE b == [app[d] EXCEPT !.client = "memory"]
        <3>1. b \in Apps
            BY <1>1 DEF Apps
        <3>2. /\ b.session = app[d].session
              /\ b.items = app[d].items /\ b.index = app[d].index
              /\ b.visible = app[d].visible
              /\ b.leaked = app[d].leaked /\ b.activeEventListener = app[d].activeEventListener
              /\ b.swiped = app[d].swiped
            BY <1>1 DEF Apps
        <3>3. "cards" \in Screens
            BY DEF Screens
        <3> HIDE DEF b
        <3>4. /\ Show(b, "cards") \in Apps /\ Show(b, "cards").screen = "cards"
              /\ Show(b, "cards").session = app[d].session
              /\ Show(b, "cards").items = app[d].items /\ Show(b, "cards").index = app[d].index
              /\ Show(b, "cards").visible = app[d].visible
              /\ Show(b, "cards").leaked = app[d].leaked
              /\ Show(b, "cards").activeEventListener = app[d].activeEventListener
              /\ Show(b, "cards").swiped = app[d].swiped
            BY <3>1, <3>2, <3>3, ShownApp
        <3> QED BY <3>4 DEF b
    <2>2. /\ app' = [app EXCEPT ![d] = a] /\ requests' = [requests EXCEPT ![d] = R]
          /\ outbox' = [outbox EXCEPT ![d] = q]
        BY <1>4 DEF Ask, Become
    <2>3. R \in SUBSET Requests
        BY Unchanged DEF Requests
    <2>4. q \in Seq(WritesOf(DealtGroups))
        BY Unchanged, EmptySeq
    <2> HIDE DEF a
    <2>5. a \in SoundApps
        BY <1>1, <1>2, <2>1, SameDealStaysSound DEF Attached
    <2>6. Entering(R) = {r}
        BY <1>1, <1>2 DEF OneAttempt, Entering, AsksToEnter
    <2>7. OneAttempt(a, R)
        BY <1>1, <1>2, <2>1, <2>6 DEF OneAttempt, AsksToEnter
    <2>8. /\ groups' \in [Codes -> DealtGroups \cup {Nil}]
          /\ failures' \in 0..MaxFailures /\ kills' \in 0..MaxKills
        BY <1>4, Unchanged
    <2> HIDE DEF q, R
    <2> QED BY <2>2, <2>3, <2>4, <2>5, <2>7, <2>8, DeviceStep
<1> QED BY <1>3, <1>4 DEF CreatePressed

\* Alerts that are put away, and the exit alert.
LEMMA AlertStep ==
    ASSUME IInv, NEW d \in Devices, NEW s \in {"cards", "exit"}, NEW on \in BOOLEAN,
           app[d].screen # "closed",
           OnlyApp(d, Show([app[d] EXCEPT !.isOn = on], s))
    PROVE  IInv'
BY Unchanged, SwitchSound, AppStep DEF AsksToEnter, Screens

LEMMA SimpleAlertSteps ==
    ASSUME IInv, NEW d \in Devices,
           ConnectCancelled(d) \/ SwitchedOff(d) \/ ExitCancelled(d)
    PROVE  IInv'
<1>1. CASE ConnectCancelled(d)
    BY <1>1, AlertStep DEF ConnectCancelled
<1>2. CASE SwitchedOff(d)
    BY <1>2, AlertStep DEF SwitchedOff
<1>3. CASE ExitCancelled(d)
    BY <1>3, AlertStep DEF ExitCancelled
<1> QED BY <1>1, <1>2, <1>3

-----------------------------------------------------------------------------
(***************************************************************************)
(* Leaving, restarting and the dinner list.                                *)
(***************************************************************************)
\* What a handler has replaced in an app besides its pile and listeners.
SameDeal(a, b) ==
    /\ b.items = a.items /\ b.index = a.index /\ b.visible = a.visible
    /\ b.leaked = a.leaked /\ b.session = a.session /\ b.swiped = a.swiped

\* The card in flight stays the one before those on the screen.
LEMMA ReloadKeepsFlight ==
    ASSUME NEW a \in Apps, Len(a.visible) <= CountOfVisibleCards,
           InFlight(a), a.swiped # Nil => a.items # <<>>, ~ReloadFails(a)
    PROVE  InFlight(ReloadData(a))
<1>1. IsPile(a, Dinners)
    BY AppIsPile
<1>2. ReloadData(a).swiped = a.swiped
    BY <1>1, ReloadDataDeals, DealtApp
<1>3. ASSUME a.swiped # Nil
      PROVE  ReloadData(a).index = a.index /\ ReloadData(a).visible # <<>>
    <2>1. a.swiped.index \in Nat
        BY <1>3 DEF Apps, Swipes
    <2>2. a.swiped.index + 1 = a.index /\ a.visible # <<>>
        BY <1>3 DEF InFlight
    <2>3. a.index > 0
        BY <2>1, <2>2
    <2> QED BY <1>1, <1>3, <2>2, <2>3, ReloadDataKeepsPlace
<1> QED BY <1>2, <1>3 DEF InFlight

LEMMA ChangeBackSound ==
    ASSUME NEW a \in SoundApps, a.screen \notin {"closed", "waiting"}
    PROVE  /\ ChangeBackToSingleUserState(a) \in SoundApps
           /\ ChangeBackToSingleUserState(a).screen = a.screen
           /\ ChangeBackToSingleUserState(a).session = a.session
<1> DEFINE x == [a EXCEPT !.isOn = FALSE, !.isInOnlineSession = FALSE,
                          !.activeGroupId = Nil, !.wantedDinnersId = Nil]
           b == ReloadData(x)
<1>1. /\ a \in Apps /\ Fits(a.items, a.index, a.visible) /\ InFlight(a)
      /\ Len(a.visible) <= CountOfVisibleCards /\ Attached(a) \subseteq DealtListeners
    BY DEF SoundApps
<1>2. /\ x \in Apps /\ x.screen = a.screen /\ SameDeal(a, x)
      /\ x.activeEventListener = a.activeEventListener
    <2>1. x \in Apps
        BY <1>1 DEF Apps
    <2>2. x.screen = a.screen /\ x.session = a.session
        BY <1>1 DEF Apps
    <2>3. /\ x.items = a.items /\ x.index = a.index /\ x.visible = a.visible
          /\ x.leaked = a.leaked /\ x.activeEventListener = a.activeEventListener
          /\ x.swiped = a.swiped
        BY <1>1 DEF Apps
    <2> QED BY <2>1, <2>2, <2>3 DEF SameDeal
<1> HIDE DEF x
<1>3. IsPile(x, Dinners)
    BY <1>1, <1>2, AppIsPile DEF SameDeal
<1>4. ~ReloadFails(x)
    <2>1. x.index + Len(x.visible) \in Nat /\ Len(x.items) \in Nat
        BY <1>3, LenProperties DEF IsPile
    <2>2. x.visible # <<>> => x.index + Len(x.visible) <= Len(x.items)
        BY <1>1, <1>2 DEF Fits, SameDeal
    <2> QED BY <2>1, <2>2 DEF ReloadFails
<1>5. Deals(x, Dinners, b) /\ InFlight(b)
    <2>1. a.visible # <<>> => a.items # <<>>
        <3>1. /\ a.index \in Nat /\ Len(a.visible) \in Nat
              /\ a.visible # <<>> => Len(a.visible) # 0
            BY <1>1, LenProperties, EmptySeq DEF Apps
        <3>2. a.items = <<>> => Len(a.items) = 0
            OBVIOUS
        <3> QED BY <1>1, <3>1, <3>2 DEF Fits
    <2>2. InFlight(x) /\ (x.swiped # Nil => x.items # <<>>)
        BY <1>1, <1>2, <2>1 DEF InFlight, SameDeal
    <2>3. Len(x.visible) <= CountOfVisibleCards
        BY <1>1, <1>2 DEF SameDeal
    <2> QED BY <1>2, <1>3, <1>4, <2>2, <2>3, ReloadDataDeals, ReloadKeepsFlight
<1> HIDE DEF b
<1>6. /\ b \in Apps /\ b.screen = a.screen /\ b.session = a.session
      /\ Attached(b) = Attached(x)
      /\ Fits(b.items, b.index, b.visible) /\ Len(b.visible) <= CountOfVisibleCards
    BY <1>2, <1>5, DealtApp DEF SameDeal
<1>7. Attached(b) \subseteq DealtListeners
    BY <1>1, <1>2, <1>6 DEF Attached, SameDeal
<1>8. b \in SoundApps
    BY <1>5, <1>6, <1>7 DEF SoundApps
<1> QED BY <1>6, <1>8 DEF b, x, ChangeBackToSingleUserState

LEMMA ExitConfirmedStep ==
    ASSUME IInv, NEW d \in Devices, ExitConfirmed(d)
    PROVE  IInv'
<1> DEFINE b == ChangeBackToSingleUserState(app[d])
<1>1. app[d] \in SoundApps /\ app[d].screen = "exit" /\ OnlyApp(d, Show(b, "cards"))
    BY Unchanged DEF ExitConfirmed
<1>2. b \in SoundApps /\ b.screen = "exit" /\ b.session = app[d].session
    BY <1>1, ChangeBackSound
<1> HIDE DEF b
<1>3. Show(b, "cards") \in SoundApps /\ Show(b, "cards").screen = "cards"
      /\ Show(b, "cards").session = app[d].session
    BY <1>2, ShowSound DEF Screens
<1> QED BY <1>1, <1>3, AppStep DEF AsksToEnter

LEMMA RestartPressedStep ==
    ASSUME IInv, NEW d \in Devices, RestartPressed(d)
    PROVE  IInv'
<1> DEFINE b == IF app[d].isInOnlineSession THEN ChangeBackToSingleUserState(app[d]) ELSE app[d]
<1>1. app[d] \in SoundApps /\ app[d].screen = "list" /\ OnlyApp(d, Show(b, "restart"))
    BY Unchanged DEF RestartPressed
<1>2. b \in SoundApps /\ b.screen = "list" /\ b.session = app[d].session
    BY <1>1, ChangeBackSound
<1> HIDE DEF b
<1>3. Show(b, "restart") \in SoundApps /\ Show(b, "restart").screen = "restart"
      /\ Show(b, "restart").session = app[d].session
    BY <1>2, ShowSound DEF Screens
<1> QED BY <1>1, <1>3, AppStep DEF AsksToEnter

LEMMA RestartCancelledStep ==
    ASSUME IInv, NEW d \in Devices, RestartCancelled(d)
    PROVE  IInv'
<1>1. app[d] \in SoundApps /\ app[d].screen = "restart" /\ OnlyApp(d, Show(app[d], "list"))
    BY Unchanged DEF RestartCancelled
<1> QED BY <1>1, ShowSound, AppStep DEF AsksToEnter, Screens

\* Dismissing deals the deck again if it was all swiped, and shows the cards.
LEMMA DismissSound ==
    ASSUME NEW a \in SoundApps, a.screen # "closed"
    PROVE  /\ Dismiss(a) \in SoundApps
           /\ Dismiss(a).screen = "cards" /\ Dismiss(a).session = a.session
<1>1. CASE ~(a.screen \in {"list", "restart"} /\ IsRunOutOfCards(a))
    <2>1. Dismiss(a) = Show(a, "cards")
        BY <1>1 DEF Dismiss, ViewWillAppear
    <2> QED BY <2>1, ShowSound DEF Screens
<1>2. CASE a.screen \in {"list", "restart"} /\ IsRunOutOfCards(a)
    <2> DEFINE b == ResetCurrentCardIndex(a)
    <2>1. a \in Apps /\ IsPile(a, Dinners)
        BY AppIsPile DEF SoundApps
    <2>2. Deals(a, Dinners, b)
        BY <2>1, ResetDeals
    <2>3. Dismiss(a) = Show(b, "cards")
        BY <1>2 DEF Dismiss, ViewWillAppear
    <2> HIDE DEF b
    <2>4. /\ b \in Apps /\ b.screen = a.screen /\ b.session = a.session
          /\ Attached(b) = Attached(a)
          /\ Fits(b.items, b.index, b.visible) /\ Len(b.visible) <= CountOfVisibleCards
          /\ b.swiped = a.swiped
        BY <2>1, <2>2, DealtApp
    <2>5. a.swiped = Nil                \* or there were cards left
        BY <1>2 DEF SoundApps, InFlight, IsRunOutOfCards
    <2>6. b \in SoundApps
        BY <1>2, <2>4, <2>5 DEF SoundApps, InFlight
    <2> QED BY <1>2, <2>3, <2>4, <2>6, ShowSound DEF Screens
<1> QED BY <1>1, <1>2

LEMMA RestartConfirmedStep ==
    ASSUME IInv, NEW d \in Devices, RestartConfirmed(d)
    PROVE  IInv'
<1> DEFINE b == [app[d] EXCEPT !.dinnerList = Nil, !.wantedDinnersId = Nil]
<1>1. app[d] \in SoundApps /\ app[d] \in Apps
    BY Unchanged
<1>2. /\ b \in Apps /\ SameDeal(app[d], b) /\ b.screen = app[d].screen
      /\ b.activeEventListener = app[d].activeEventListener
    BY <1>1 DEF Apps, SameDeal
<1>3. b.screen = "restart" /\ OnlyApp(d, Dismiss(b))
    BY DEF RestartConfirmed
<1> HIDE DEF b
<1>4. b \in SoundApps
    BY <1>1, <1>2, <1>3, SameDealStaysSound DEF Attached, SameDeal
<1>5. /\ Dismiss(b) \in SoundApps /\ Dismiss(b).screen = "cards"
      /\ Dismiss(b).session = app[d].session
    BY <1>2, <1>3, <1>4, DismissSound DEF SameDeal
<1> QED BY <1>3, <1>5, AppStep DEF AsksToEnter

\* Giving up the group's listener.
LEMMA DetachSound ==
    ASSUME NEW a \in SoundApps
    PROVE  /\ DetachEventListener(a) \in SoundApps
           /\ DetachEventListener(a).screen = a.screen
           /\ DetachEventListener(a).session = a.session
<1> DEFINE b == DetachEventListener(a)
<1>1. a \in Apps
    BY DEF SoundApps
<1>2. /\ b \in Apps /\ SameDeal(a, b) /\ b.screen = a.screen /\ b.groupId = a.groupId
      /\ b.activeEventListener = Nil
    BY <1>1 DEF Apps, SameDeal, DetachEventListener
<1> HIDE DEF b
<1>3. Attached(b) \subseteq Attached(a)
    BY <1>2 DEF Attached, SameDeal
<1>4. b \in SoundApps
    BY <1>2, <1>3, SameDealStaysSound DEF SameDeal, SoundApps
<1> QED BY <1>2, <1>4 DEF SameDeal, b

LEMMA ConnectionErrorSound ==
    ASSUME NEW a \in SoundApps
    PROVE  /\ ConnectionError(a) \in SoundApps
           /\ ConnectionError(a).screen = a.screen
           /\ ConnectionError(a).session = a.session
<1> DEFINE c == DetachEventListener(a)
           b == [c EXCEPT !.isOn = FALSE]
<1>1. c \in SoundApps /\ c \in Apps /\ c.screen = a.screen /\ c.session = a.session
    BY DetachSound DEF SoundApps
<1> HIDE DEF c
<1>2. /\ b \in Apps /\ SameDeal(c, b) /\ b.screen = c.screen /\ b.groupId = c.groupId
      /\ b.activeEventListener = c.activeEventListener
    BY <1>1, SwitchedApp DEF SameDeal
<1> HIDE DEF b
<1>3. b \in SoundApps
    BY <1>1, <1>2, SameDealStaysSound DEF SameDeal, Attached, SoundApps
<1> QED BY <1>1, <1>2, <1>3 DEF ConnectionError, SameDeal, b, c

LEMMA HostCancelledStep ==
    ASSUME IInv, NEW d \in Devices, HostCancelled(d)
    PROVE  IInv'
<1> DEFINE b == DetachEventListener(app[d])
           a == Show([b EXCEPT !.isOn = FALSE], "cards")
<1>1. app[d] \in SoundApps /\ app[d].screen = "lobby" /\ OnlyApp(d, a)
    BY Unchanged DEF HostCancelled
<1>2. b \in SoundApps /\ b.screen = "lobby" /\ b.session = app[d].session
    BY <1>1, DetachSound
<1> HIDE DEF b
<1>3. a \in SoundApps /\ a.screen = "cards" /\ a.session = app[d].session
    BY <1>2, SwitchSound DEF Screens
<1> QED BY <1>1, <1>3, AppStep DEF AsksToEnter

LEMMA StartPressedStep ==
    ASSUME IInv, NEW d \in Devices, StartPressed(d)
    PROVE  IInv'
<1>1. app[d] \in SoundApps /\ app[d].screen = "lobby" /\ OnlyApp(d, Show(app[d], "settings"))
    BY Unchanged DEF StartPressed
<1> QED BY <1>1, ShowSound, AppStep DEF AsksToEnter, Screens

-----------------------------------------------------------------------------
(***************************************************************************)
(* Answers to requests.                                                    *)
(***************************************************************************)
LEMMA RequestFields ==
    ASSUME NEW r \in Requests
    PROVE  /\ r.kind \in {"create", "join", "remove", "start"}
           /\ r.kind \in {"join", "remove", "start"} => r.code \in Codes
           /\ r.kind = "start" => r.deck \in HostDecks
BY DEF Requests

\* When the attempt is over, the next one may begin, and its id was free.
LEMMA AttemptAnswered ==
    ASSUME NEW a, NEW R, OneAttempt(a, R), NEW r \in R, r.kind \in {"create", "join"}
    PROVE  /\ Entering(R \ {r}) = {}
           /\ a.session < MaxSessions
           /\ ~AsksToEnter(a)
BY DEF OneAttempt, Entering

LEMMA NoAttempt ==
    ASSUME NEW a, NEW R, Entering(R) = {}, ~AsksToEnter(a)
    PROVE  OneAttempt(a, R)
BY DEF OneAttempt

LEMMA OtherRequest ==
    ASSUME NEW a, NEW b, NEW R, OneAttempt(a, R), NEW r,
           r.kind \notin {"create", "join"},
           b.session = a.session, AsksToEnter(b) => AsksToEnter(a)
    PROVE  OneAttempt(b, R \ {r}) /\ OneAttempt(b, R \cup {r})
<1>1. Entering(R \ {r}) = Entering(R) /\ Entering(R \cup {r}) = Entering(R)
    BY DEF Entering
<1> QED BY <1>1 DEF OneAttempt

LEMMA Sent ==
    ASSUME NEW S, NEW q \in Seq(S)
    PROVE  /\ q \o <<>> \in Seq(S)
           /\ \A w \in S : q \o <<w>> \in Seq(S)
           /\ \A w, x \in S : q \o <<w, x>> \in Seq(S)
<1>1. /\ <<>> \in Seq(S) /\ \A w \in S : <<w>> \in Seq(S)
      /\ \A w, x \in S : <<w, x>> \in Seq(S)
    OBVIOUS
<1> QED BY <1>1, ConcatProperties

LEMMA ListenerFields ==
    ASSUME NEW a \in Apps, NEW c \in Codes, NEW role \in {"lobby", "wait", "result"}
    PROVE  /\ InitiateEventListenerFor(a, role, c).screen = a.screen
           /\ InitiateEventListenerFor(a, role, c).session = a.session
           /\ InitiateEventListenerFor(a, role, c).groupId = a.groupId
BY DEF Apps, InitiateEventListenerFor

LEMMA PresentSound ==
    ASSUME NEW a \in SoundApps, NEW s \in Screens, s = "waiting" => a.groupId \in Codes
    PROVE  /\ Present(a, s) \in SoundApps
           /\ Present(a, s).screen \in {a.screen, s}
           /\ Present(a, s).session = a.session
           /\ a.screen # "cards" => Present(a, s) = a
<1>1. CASE a.screen # "cards"
    BY <1>1 DEF Present
<1>2. CASE a.screen = "cards"
    <2> DEFINE b == Show(a, s)
    <2>1. a \in Apps
        BY DEF SoundApps
    <2>2. /\ b \in Apps /\ b.screen = s /\ SameDeal(a, b) /\ b.groupId = a.groupId
          /\ b.activeEventListener = a.activeEventListener
        BY <2>1, ShownApp DEF SameDeal
    <2>3. Present(a, s) = b
        BY <1>2 DEF Present
    <2> HIDE DEF b
    <2>4. b \in SoundApps
        BY <1>2, <2>2, SameDealStaysSound DEF SameDeal, Attached
    <2> QED BY <1>2, <2>2, <2>3, <2>4 DEF SameDeal
<1> QED BY <1>1, <1>2

LEMMA PreparedSound ==
    ASSUME NEW a \in SoundApps, NEW d \in Devices, NEW c \in Codes,
           a.session < MaxSessions, ~AsksToEnter(a)
    PROVE  /\ PrepareForOnlineSession(a, d, c) \in SoundApps
           /\ ~AsksToEnter(PrepareForOnlineSession(a, d, c))
<1> DEFINE u == CreateUniqueUserId(a, d)
           j == [u EXCEPT !.groupId = c, !.activeGroupId = c, !.isInOnlineSession = TRUE]
           l == InitiateEventListenerFor(j, "wait", c)
<1>1. a \in Apps
    BY DEF SoundApps
<1>2. /\ u \in Apps /\ u.screen = a.screen
      /\ u.items = a.items /\ u.index = a.index /\ u.visible = a.visible
      /\ u.leaked = a.leaked /\ u.activeEventListener = a.activeEventListener
      /\ u.swiped = a.swiped
    BY <1>1, UserIdType DEF CreateUniqueUserId, Apps
<1> HIDE DEF u
<1>3. /\ j \in Apps /\ j.screen = a.screen /\ j.groupId = c
      /\ j.items = a.items /\ j.index = a.index /\ j.visible = a.visible
      /\ j.leaked = a.leaked /\ j.activeEventListener = a.activeEventListener
      /\ j.swiped = a.swiped
    BY <1>2 DEF Apps
<1> HIDE DEF j
<1>4. j \in SoundApps
    BY <1>3, SameDealStaysSound DEF Attached
<1>5. l \in SoundApps /\ l.screen = a.screen /\ l.groupId = c
    BY <1>3, <1>4, ListenerSound, ListenerFields
<1>6. PrepareForOnlineSession(a, d, c) = Present(l, "waiting")
    BY DEF PrepareForOnlineSession, l, j, u
<1> HIDE DEF l
<1>7. "waiting" \in Screens
    BY DEF Screens
<1> QED BY <1>5, <1>6, <1>7, PresentSound DEF AsksToEnter

LEMMA JoinAnsweredStep ==
    ASSUME IInv, NEW d \in Devices, JoinAnswered(d)
    PROVE  IInv'
<1>1. PICK r \in requests[d] :
          /\ r.kind = "join"
          /\ requests' = [requests EXCEPT ![d] = @ \ {r}]
          /\ \/ /\ View(d, r.code) # Nil
                /\ Send(d, <<JoinWrite(d, r.code)>>)
                /\ Become(d, PrepareForOnlineSession(app[d], d, r.code))
             \/ /\ View(d, r.code) = Nil
                /\ UNCHANGED <<outbox, app>>
          /\ UNCHANGED <<groups, failures, kills>>
    BY DEF JoinAnswered
<1> DEFINE R == requests[d] \ {r}
<1>2. R \in SUBSET Requests /\ r.code \in Codes
    BY <1>1, Unchanged, RequestFields
<1>3. Entering(R) = {} /\ app[d].session < MaxSessions /\ ~AsksToEnter(app[d])
    BY <1>1, Unchanged, AttemptAnswered
<1>4. requests' = [requests EXCEPT ![d] = R]
    BY <1>1
<1> HIDE DEF R
<1>5. CASE UNCHANGED <<outbox, app>>
    <2>1. OneAttempt(app[d], R)
        BY <1>3, NoAttempt
    <2> QED BY <1>1, <1>2, <1>4, <1>5, <2>1, Unchanged, DeviceStep
<1>6. CASE /\ Send(d, <<JoinWrite(d, r.code)>>)
           /\ Become(d, PrepareForOnlineSession(app[d], d, r.code))
    <2> DEFINE a == PrepareForOnlineSession(app[d], d, r.code)
               q == outbox[d] \o <<JoinWrite(d, r.code)>>
    <2>1. a \in SoundApps /\ ~AsksToEnter(a)
        BY <1>2, <1>3, Unchanged, PreparedSound
    <2>2. q \in Seq(WritesOf(DealtGroups))
        <3>1. ParticipantsIn(View(d, r.code)) \in Int
            BY <1>2, ViewBases
        <3>2. JoinWrite(d, r.code) \in WritesOf(DealtGroups)
            BY <1>2, <3>1, WriteTypes, DealtSubset DEF JoinWrite
        <3> QED BY <3>2, Unchanged, Sent
    <2>3. app' = [app EXCEPT ![d] = a] /\ outbox' = [outbox EXCEPT ![d] = q]
        BY <1>6 DEF Send, Become
    <2> HIDE DEF a, q
    <2>4. OneAttempt(a, R)
        BY <1>3, <2>1, NoAttempt
    <2> QED BY <1>1, <1>2, <1>4, <2>1, <2>2, <2>3, <2>4, Unchanged, DeviceStep
<1> QED BY <1>1, <1>5, <1>6

LEMMA LeaveGroupPressedStep ==
    ASSUME IInv, NEW d \in Devices, LeaveGroupPressed(d)
    PROVE  IInv'
<1> DEFINE b == LeaveGroup(app[d])
           a == Show(b, "cards")
           r == [kind |-> "remove", code |-> app[d].groupId]
           R == requests[d] \cup {r}
<1>1. /\ app[d].screen = "waiting"
      /\ Become(d, a) /\ Ask(d, r)
      /\ UNCHANGED <<groups, outbox, failures, kills>>
    BY DEF LeaveGroupPressed
<1>2. app[d] \in SoundApps /\ app[d] \in Apps /\ app[d].groupId \in Codes
    BY <1>1, Unchanged DEF SoundApps
<1>3. /\ a \in Apps /\ SameDeal(app[d], a) /\ a.screen = "cards"
      /\ a.activeEventListener = Nil
    <2>1. b \in Apps
        BY <1>2 DEF Apps, LeaveGroup, DetachEventListener
    <2>2. SameDeal(app[d], b) /\ b.activeEventListener = Nil
        BY <1>2 DEF Apps, LeaveGroup, DetachEventListener, SameDeal
    <2> HIDE DEF b
    <2>3. a \in Apps
        BY <2>1 DEF Apps, Screens, Show
    <2>4. SameDeal(b, a) /\ a.screen = "cards" /\ a.activeEventListener = b.activeEventListener
        BY <2>1 DEF Apps, Show, SameDeal
    <2> QED BY <2>2, <2>3, <2>4 DEF SameDeal
<1>4. app' = [app EXCEPT ![d] = a] /\ requests' = [requests EXCEPT ![d] = R]
    BY <1>1 DEF Become, Ask
<1> HIDE DEF a
<1>5. a \in SoundApps
    BY <1>1, <1>2, <1>3, SameDealStaysSound DEF Attached, SameDeal
<1>6. R \in SUBSET Requests
    BY <1>2, Unchanged DEF Requests
<1>7. OneAttempt(a, R)
    BY <1>3, Unchanged, OtherRequest DEF AsksToEnter, SameDeal
<1> HIDE DEF R
<1>8. /\ outbox' = [outbox EXCEPT ![d] = outbox[d]]
      /\ groups' \in [Codes -> DealtGroups \cup {Nil}]
      /\ failures' \in 0..MaxFailures /\ kills' \in 0..MaxKills
    BY <1>1, Unchanged
<1> QED BY <1>4, <1>5, <1>6, <1>7, <1>8, Unchanged, DeviceStep

LEMMA RemoveAnsweredStep ==
    ASSUME IInv, NEW d \in Devices, RemoveAnswered(d)
    PROVE  IInv'
<1>1. PICK r \in requests[d] :
          /\ r.kind = "remove"
          /\ requests' = [requests EXCEPT ![d] = @ \ {r}]
          /\ LET g == View(d, r.code) IN
             Send(d, IF g = Nil THEN <<>>
                     ELSE <<SetData(r.code, [g EXCEPT !.participants = @ - 1])>>)
          /\ UNCHANGED <<groups, app, failures, kills>>
    BY DEF RemoveAnswered
<1> DEFINE R == requests[d] \ {r}
           g == View(d, r.code)
           h == [g EXCEPT !.participants = @ - 1]
           ws == IF g = Nil THEN <<>> ELSE <<SetData(r.code, h)>>
<1>2. R \in SUBSET Requests /\ r.code \in Codes
    BY <1>1, Unchanged, RequestFields
<1>3. g \in DealtGroups \cup {Nil}
    BY <1>2, ViewDealt
<1>4. requests' = [requests EXCEPT ![d] = R] /\ outbox' = [outbox EXCEPT ![d] = outbox[d] \o ws]
    BY <1>1 DEF Send
<1>5. OneAttempt(app[d], R)
    BY <1>1, Unchanged, OtherRequest
<1> HIDE DEF R, g
<1>6. outbox[d] \o ws \in Seq(WritesOf(DealtGroups))
    <2>1. CASE g = Nil
        BY <2>1, Unchanged, Sent
    <2>2. CASE g # Nil
        <3>1. g \in DealtGroups /\ g \in Groups
            BY <1>3, <2>2, DealtSubset
        <3>2. h \in DealtGroups
            BY <3>1 DEF DealtGroups, Groups
        <3> HIDE DEF h
        <3>3. SetData(r.code, h) \in WritesOf(DealtGroups)
            BY <1>2, <3>2, WriteTypes, DealtSubset
        <3> QED BY <2>2, <3>3, Unchanged, Sent
    <2> QED BY <2>1, <2>2
<1>7. /\ app' = [app EXCEPT ![d] = app[d]]
      /\ groups' \in [Codes -> DealtGroups \cup {Nil}]
      /\ failures' \in 0..MaxFailures /\ kills' \in 0..MaxKills
    BY <1>1, Unchanged
<1> HIDE DEF ws
<1> QED BY <1>2, <1>4, <1>5, <1>6, <1>7, Unchanged, DeviceStep

\* The app of a host whose group has got a code.
LEMMA CreatedSound ==
    ASSUME NEW a \in SoundApps, NEW d \in Devices, NEW c \in Codes,
           a.session < MaxSessions, ~AsksToEnter(a)
    PROVE  LET named   == [a EXCEPT !.groupId = c, !.activeGroupId = c]
               created == CreateUniqueUserId(Present(named, "lobby"), d)
               new     == InitiateEventListenerFor(created, "lobby", c)
           IN  new \in SoundApps /\ ~AsksToEnter(new)
<1> DEFINE named   == [a EXCEPT !.groupId = c, !.activeGroupId = c]
           shown   == Present(named, "lobby")
           created == CreateUniqueUserId(shown, d)
           new     == InitiateEventListenerFor(created, "lobby", c)
<1>1. a \in Apps
    BY DEF SoundApps
<1>2. /\ named \in Apps /\ SameDeal(a, named) /\ named.screen = a.screen /\ named.groupId = c
      /\ named.activeEventListener = a.activeEventListener
    BY <1>1 DEF Apps, SameDeal
<1> HIDE DEF named
<1>3. named \in SoundApps
    BY <1>2, SameDealStaysSound DEF SameDeal, Attached
<1>4. "lobby" \in Screens
    BY DEF Screens
<1>5. shown \in SoundApps /\ shown.screen \in {a.screen, "lobby"} /\ shown.session = a.session
    BY <1>2, <1>3, <1>4, PresentSound DEF SameDeal
<1> HIDE DEF shown
<1>6. shown \in Apps /\ created \in Apps
    BY <1>5, UserIdType DEF SoundApps
<1>7. /\ created.screen = shown.screen /\ created.groupId = shown.groupId
      /\ created.items = shown.items /\ created.index = shown.index
      /\ created.visible = shown.visible /\ created.leaked = shown.leaked
      /\ created.activeEventListener = shown.activeEventListener
      /\ created.swiped = shown.swiped
    BY <1>6 DEF Apps, CreateUniqueUserId
<1> HIDE DEF created
<1>8. created \in SoundApps
    BY <1>5, <1>6, <1>7, SameDealStaysSound DEF Attached, SoundApps
<1>9. new \in SoundApps /\ new.screen = created.screen
    BY <1>6, <1>8, ListenerSound, ListenerFields
<1>10. ~AsksToEnter(new)
    BY <1>5, <1>7, <1>9 DEF AsksToEnter
<1> HIDE DEF new
<1> QED BY <1>9, <1>10 DEF new, created, shown, named

LEMMA CreateAnsweredStep ==
    ASSUME IInv, NEW d \in Devices, CreateAnswered(d)
    PROVE  IInv'
<1> DEFINE new(c) == InitiateEventListenerFor(
                        CreateUniqueUserId(
                            Present([app[d] EXCEPT !.groupId = c, !.activeGroupId = c], "lobby"), d),
                        "lobby", c)
<1>1. PICK r \in requests[d] :
          /\ r.kind = "create" /\ Alive(d)
          /\ requests' = [requests EXCEPT ![d] = @ \ {r}]
          /\ \/ Become(d, ConnectionError(app[d])) /\ UNCHANGED outbox
             \/ Become(d, Show(app[d], "frozen")) /\ UNCHANGED outbox
             \/ \E c \in Codes \ UsedIds(d) :
                    Send(d, <<SetData(c, NewGroup)>>) /\ Become(d, new(c))
          /\ UNCHANGED <<groups, failures, kills>>
    BY DEF CreateAnswered, CheckForMachInIds
<1> DEFINE R == requests[d] \ {r}
<1>2. R \in SUBSET Requests
    BY <1>1, Unchanged
<1>3. Entering(R) = {} /\ app[d].session < MaxSessions /\ ~AsksToEnter(app[d])
    BY <1>1, Unchanged, AttemptAnswered
<1>4. requests' = [requests EXCEPT ![d] = R]
    BY <1>1
<1> HIDE DEF R, new
<1>5. ASSUME NEW a \in SoundApps, NEW q \in Seq(WritesOf(DealtGroups)), ~AsksToEnter(a),
             app' = [app EXCEPT ![d] = a], outbox' = [outbox EXCEPT ![d] = q]
      PROVE  IInv'
    <2>1. OneAttempt(a, R)
        BY <1>3, <1>5, NoAttempt
    <2> QED BY <1>1, <1>2, <1>4, <1>5, <2>1, Unchanged, DeviceStep
<1>6. CASE Become(d, ConnectionError(app[d])) /\ UNCHANGED outbox
    <2>1. ConnectionError(app[d]) \in SoundApps /\ ~AsksToEnter(ConnectionError(app[d]))
        BY <1>3, Unchanged, ConnectionErrorSound DEF AsksToEnter
    <2> QED BY <1>5, <1>6, <2>1, Unchanged DEF Become
<1>7. CASE Become(d, Show(app[d], "frozen")) /\ UNCHANGED outbox
    <2>1. "frozen" \in Screens \ {"waiting"} /\ app[d].screen # "closed"
        BY <1>1 DEF Screens, Alive
    <2>2. Show(app[d], "frozen") \in SoundApps /\ ~AsksToEnter(Show(app[d], "frozen"))
        BY <2>1, Unchanged, ShowSound DEF AsksToEnter
    <2> QED BY <1>5, <1>7, <2>2, Unchanged DEF Become
<1>8. ASSUME NEW c \in Codes, Send(d, <<SetData(c, NewGroup)>>), Become(d, new(c))
      PROVE  IInv'
    <2>1. new(c) \in SoundApps /\ ~AsksToEnter(new(c))
        BY <1>3, Unchanged, CreatedSound DEF new
    <2>2. SetData(c, NewGroup) \in WritesOf(DealtGroups)
        BY NewGroupDealt, WriteTypes, DealtSubset
    <2>3. outbox[d] \o <<SetData(c, NewGroup)>> \in Seq(WritesOf(DealtGroups))
        BY <2>2, Unchanged, Sent
    <2> QED BY <1>5, <1>8, <2>1, <2>3 DEF Become, Send
<1> QED BY <1>1, <1>6, <1>7, <1>8

LEMMA StartSessionPressedStep ==
    ASSUME IInv, NEW d \in Devices, StartSessionPressed(d)
    PROVE  IInv'
<1>1. PICK deck \in HostDecks :
          /\ app[d].screen = "settings" /\ app[d].swiped = Nil
          /\ Become(d, Show(OnlineSessionStartedByHost([app[d] EXCEPT !.items = deck]), "cards"))
          /\ IF app[d].activeGroupId = Nil THEN UNCHANGED requests
             ELSE Ask(d, [kind |-> "start", code |-> app[d].activeGroupId, deck |-> deck])
          /\ UNCHANGED <<groups, outbox, failures, kills>>
    BY DEF StartSessionPressed, Settled
<1> DEFINE x == [app[d] EXCEPT !.items = deck]
           b == ResetCurrentCardIndex(x)
           a == Show(b, "cards")
           r == [kind |-> "start", code |-> app[d].activeGroupId, deck |-> deck]
           R == IF app[d].activeGroupId = Nil THEN requests[d] ELSE requests[d] \cup {r}
<1>2. /\ app[d] \in SoundApps /\ app[d] \in Apps /\ deck \in Seq(Dinners)
      /\ Len(app[d].visible) <= CountOfVisibleCards /\ Attached(app[d]) \subseteq DealtListeners
    BY Unchanged, DecksAssumption DEF SoundApps
<1>3. /\ x \in Apps /\ x.screen = "settings" /\ x.session = app[d].session
      /\ x.visible = app[d].visible /\ x.leaked = app[d].leaked
      /\ x.activeEventListener = app[d].activeEventListener /\ x.swiped = Nil
    <2>1. x \in Apps
        BY <1>2 DEF Apps
    <2>2. /\ x.screen = app[d].screen /\ x.session = app[d].session
          /\ x.visible = app[d].visible /\ x.leaked = app[d].leaked
        BY <1>2 DEF Apps
    <2>3. x.activeEventListener = app[d].activeEventListener /\ x.swiped = app[d].swiped
        BY <1>2 DEF Apps
    <2> QED BY <1>1, <2>1, <2>2, <2>3
<1> HIDE DEF x
<1>4. Deals(x, Dinners, b)
    BY <1>2, <1>3, AppIsPile, ResetDeals
<1> HIDE DEF b
<1>5. /\ b \in Apps /\ b.screen = "settings" /\ b.session = app[d].session
      /\ Attached(b) = Attached(x)
      /\ Fits(b.items, b.index, b.visible) /\ Len(b.visible) <= CountOfVisibleCards
      /\ b.swiped = Nil
    BY <1>3, <1>4, DealtApp
<1>6. b \in SoundApps
    BY <1>2, <1>3, <1>5 DEF SoundApps, Attached, InFlight
<1>7. a \in SoundApps /\ a.screen = "cards" /\ a.session = app[d].session
    BY <1>5, <1>6, ShowSound DEF Screens
<1>8. R \in SUBSET Requests
    <2>1. app[d].activeGroupId \in Codes \cup {Nil}
        BY <1>2 DEF Apps
    <2> QED BY <2>1, Unchanged DEF Requests
<1>9. OneAttempt(a, R)
    <2>1. OneAttempt(a, requests[d])
        BY <1>7, Unchanged DEF OneAttempt, AsksToEnter
    <2>2. OneAttempt(a, requests[d] \cup {r})
        BY <1>7, Unchanged, OtherRequest DEF AsksToEnter
    <2> QED BY <2>1, <2>2
<1>10. app' = [app EXCEPT ![d] = a] /\ requests' = [requests EXCEPT ![d] = R]
    BY <1>1, Unchanged DEF Become, Ask, OnlineSessionStartedByHost, a, b, x
<1>11. /\ outbox' = [outbox EXCEPT ![d] = outbox[d]]
       /\ groups' \in [Codes -> DealtGroups \cup {Nil}]
       /\ failures' \in 0..MaxFailures /\ kills' \in 0..MaxKills
    BY <1>1, Unchanged
<1> HIDE DEF a, R
<1> QED BY <1>7, <1>8, <1>9, <1>10, <1>11, Unchanged, DeviceStep

LEMMA StartAnsweredStep ==
    ASSUME IInv, NEW d \in Devices, StartAnswered(d)
    PROVE  IInv'
<1>1. PICK r \in requests[d] :
          /\ r.kind = "start"
          /\ requests' = [requests EXCEPT ![d] = @ \ {r}]
          /\ LET g == View(d, r.code) IN
             IF g = Nil THEN UNCHANGED <<outbox, app>>
             ELSE /\ Send(d, <<SetData(r.code, StartedGroup(g, r.deck))>>)
                  /\ Become(d, [app[d] EXCEPT !.isInOnlineSession = TRUE])
          /\ UNCHANGED <<groups, failures, kills>>
    BY DEF StartAnswered
<1> DEFINE R == requests[d] \ {r}
           g == View(d, r.code)
           w == SetData(r.code, StartedGroup(g, r.deck))
           a == [app[d] EXCEPT !.isInOnlineSession = TRUE]
<1>2. R \in SUBSET Requests /\ r.code \in Codes /\ r.deck \in HostDecks
    BY <1>1, Unchanged, RequestFields
<1>3. g \in DealtGroups \cup {Nil}
    BY <1>2, ViewDealt
<1>4. requests' = [requests EXCEPT ![d] = R]
    BY <1>1
<1>5. /\ app[d] \in SoundApps /\ app[d] \in Apps
    BY Unchanged
<1>6. CASE UNCHANGED <<outbox, app>>
    <2>1. OneAttempt(app[d], R)
        BY <1>1, Unchanged, OtherRequest
    <2> HIDE DEF R
    <2> QED BY <1>1, <1>2, <1>4, <1>6, <2>1, Unchanged, DeviceStep
<1>7. CASE g # Nil /\ Send(d, <<w>>) /\ Become(d, a)
    <2>1. /\ a \in Apps /\ SameDeal(app[d], a) /\ a.screen = app[d].screen
          /\ a.groupId = app[d].groupId
          /\ a.activeEventListener = app[d].activeEventListener
        <3>1. a \in Apps
            BY <1>5 DEF Apps
        <3>2. /\ SameDeal(app[d], a) /\ a.screen = app[d].screen
              /\ a.groupId = app[d].groupId
              /\ a.activeEventListener = app[d].activeEventListener
            BY <1>5 DEF Apps, SameDeal
        <3> QED BY <3>1, <3>2
    <2>2. app' = [app EXCEPT ![d] = a] /\ outbox' = [outbox EXCEPT ![d] = outbox[d] \o <<w>>]
        BY <1>7 DEF Become, Send
    <2> HIDE DEF a, g
    <2>3. a \in SoundApps
        BY <1>5, <2>1, SameDealStaysSound DEF Attached, SameDeal, SoundApps
    <2>4. OneAttempt(a, R)
        BY <1>1, <2>1, Unchanged, OtherRequest DEF SameDeal, AsksToEnter
    <2>5. StartedGroup(g, r.deck) \in DealtGroups
        BY <1>2, <1>3, <1>7, StartedGroupDealt, DealtSubset
    <2>6. w \in WritesOf(DealtGroups)
        BY <1>2, <2>5, WriteTypes, DealtSubset
    <2> HIDE DEF w, R
    <2>7. outbox[d] \o <<w>> \in Seq(WritesOf(DealtGroups))
        BY <2>6, Unchanged, Sent
    <2> QED BY <1>1, <1>2, <1>4, <2>2, <2>3, <2>4, <2>7, Unchanged, DeviceStep
<1> QED BY <1>1, <1>6, <1>7

LEMMA RequestFailsStep ==
    ASSUME IInv, NEW d \in Devices, RequestFails(d)
    PROVE  IInv'
<1>1. PICK r \in requests[d] :
          /\ failures < MaxFailures /\ failures' = failures + 1
          /\ requests' = [requests EXCEPT ![d] = @ \ {r}]
          /\ Become(d, IF r.kind \in {"create", "join"} THEN ConnectionError(app[d]) ELSE app[d])
          /\ UNCHANGED <<groups, outbox, kills>>
    BY DEF RequestFails
<1> DEFINE R == requests[d] \ {r}
           a == IF r.kind \in {"create", "join"} THEN ConnectionError(app[d]) ELSE app[d]
<1>2. a \in SoundApps /\ OneAttempt(a, R)
    <2>1. CASE r.kind \in {"create", "join"}
        <3>1. Entering(R) = {} /\ ~AsksToEnter(app[d])
            BY <2>1, Unchanged, AttemptAnswered
        <3>2. a \in SoundApps /\ a.screen = app[d].screen
            BY <2>1, Unchanged, ConnectionErrorSound
        <3> QED BY <3>1, <3>2, NoAttempt DEF AsksToEnter
    <2>2. CASE r.kind \notin {"create", "join"}
        BY <2>2, Unchanged, OtherRequest
    <2> QED BY <2>1, <2>2
<1>3. R \in SUBSET Requests
    BY Unchanged
<1>4. /\ app' = [app EXCEPT ![d] = a] /\ requests' = [requests EXCEPT ![d] = R]
      /\ outbox' = [outbox EXCEPT ![d] = outbox[d]]
      /\ groups' \in [Codes -> DealtGroups \cup {Nil}]
      /\ kills' \in 0..MaxKills
    BY <1>1, Unchanged DEF Become
<1>5. failures' \in 0..MaxFailures
    BY <1>1, Unchanged, BoundsAssumption
<1> HIDE DEF a, R
<1> QED BY <1>2, <1>3, <1>4, <1>5, Unchanged, DeviceStep

-----------------------------------------------------------------------------
(***************************************************************************)
(* The network and the operating system.                                   *)
(***************************************************************************)
LEMMA KilledStep ==
    ASSUME IInv, NEW d \in Devices, Killed(d)
    PROVE  IInv'
<1> DEFINE a == Closed(app[d])
<1>1. a \in SoundApps /\ a.screen = "closed" /\ a.session = app[d].session
    BY Unchanged, ClosedSound DEF SoundApps
<1>2. OneAttempt(a, requests[d])
    BY <1>1, Unchanged DEF OneAttempt, AsksToEnter
<1>3. /\ app' = [app EXCEPT ![d] = a]
      /\ requests' = [requests EXCEPT ![d] = requests[d]]
      /\ outbox' = [outbox EXCEPT ![d] = outbox[d]]
      /\ groups' \in [Codes -> DealtGroups \cup {Nil}] /\ failures' \in 0..MaxFailures
    BY Unchanged DEF Killed, Become
<1>4. kills' \in 0..MaxKills
    <2>1. kills \in 0..MaxKills /\ kills < MaxKills /\ kills' = kills + 1
        BY Unchanged DEF Killed
    <2> QED BY <2>1, BoundsAssumption
<1> HIDE DEF a
<1> QED BY <1>1, <1>2, <1>3, <1>4, Unchanged, DeviceStep

LEMMA LaunchStep ==
    ASSUME IInv, NEW d \in Devices, Launch(d)
    PROVE  IInv'
<1>1. PICK deck \in LocalDecks :
          /\ requests' = [requests EXCEPT ![d] = {}]
          /\ outbox' = [outbox EXCEPT ![d] = IF app[d].client = "memory" THEN <<>> ELSE @]
          /\ Become(d, LaunchedApp(deck, app[d].session))
          /\ UNCHANGED <<groups, failures, kills>>
    BY DEF Launch
<1> DEFINE a == LaunchedApp(deck, app[d].session)
           q == IF app[d].client = "memory" THEN <<>> ELSE outbox[d]
<1>2. app[d].session \in 0..MaxSessions
    BY Unchanged DEF Apps
<1>3. a \in SoundApps
    BY <1>2, LaunchedAppSound
<1>4. OneAttempt(a, {})
    BY DEF OneAttempt, Entering, AsksToEnter, LaunchedApp
<1>5. q \in Seq(WritesOf(DealtGroups))
    BY Unchanged, EmptySeq
<1>6. /\ app' = [app EXCEPT ![d] = a] /\ outbox' = [outbox EXCEPT ![d] = q]
      /\ groups' \in [Codes -> DealtGroups \cup {Nil}]
      /\ failures' \in 0..MaxFailures /\ kills' \in 0..MaxKills
    BY <1>1, Unchanged DEF Become
<1> HIDE DEF a, q
<1> QED BY <1>1, <1>3, <1>4, <1>5, <1>6, DeviceStep

LEMMA WriteReachesServerStep ==
    ASSUME IInv, NEW d \in Devices, WriteReachesServer(d)
    PROVE  IInv'
<1> DEFINE w == Head(outbox[d])
<1>1. /\ outbox[d] # <<>>
      /\ groups' = [groups EXCEPT ![w.code] = ApplyWrite(@, w)]
      /\ outbox' = [outbox EXCEPT ![d] = Tail(outbox[d])]
      /\ UNCHANGED <<requests, app, failures, kills>>
    BY DEF WriteReachesServer
<1>2. w \in WritesOf(DealtGroups) /\ Tail(outbox[d]) \in Seq(WritesOf(DealtGroups))
    BY <1>1, Unchanged, HeadTailProperties
<1>3. w.code \in Codes
    BY <1>2 DEF WritesOf, Writes
<1> HIDE DEF w
<1>4. groups[w.code] \in DealtGroups \cup {Nil}
    BY <1>3, Unchanged
<1>5. ApplyWrite(groups[w.code], w) \in DealtGroups \cup {Nil}
    BY <1>2, <1>4, DealtClosed, AppliedWrite
<1>6. groups' \in [Codes -> DealtGroups \cup {Nil}]
    BY <1>1, <1>3, <1>5, Unchanged
<1>7. /\ app' = [app EXCEPT ![d] = app[d]] /\ requests' = [requests EXCEPT ![d] = requests[d]]
      /\ failures' \in 0..MaxFailures /\ kills' \in 0..MaxKills
    BY <1>1, Unchanged
<1> QED BY <1>1, <1>2, <1>6, <1>7, Unchanged, DeviceStep

-----------------------------------------------------------------------------
(***************************************************************************)
(* Swiping.                                                                *)
(***************************************************************************)
LEMMA RecordedSound ==
    ASSUME NEW a \in SoundApps, NEW index \in Nat, index < Len(a.items), NEW right \in BOOLEAN
    PROVE  /\ Recorded(a, index, right) \in SoundApps
           /\ SameDeal(a, Recorded(a, index, right))
           /\ Recorded(a, index, right).screen = a.screen
<1> DEFINE x == a.items[index + 1]
           b == Recorded(a, index, right)
<1>1. a \in Apps /\ a.items \in Seq(Dinners)
    BY DEF SoundApps, Apps
<1>2. index + 1 \in 1..Len(a.items)
    BY <1>1, LenProperties
<1>3. x \in Dinners
    BY <1>1, <1>2, ElementOfSeq
<1>4. /\ a.localUserYesSwiped \in [Dinners -> Nat]
      /\ a.wantedDinnersId \in (SUBSET Dinners) \cup {Nil}
    BY <1>1 DEF Apps, DinnerLists
<1> HIDE DEF x
<1>5. /\ b \in Apps /\ SameDeal(a, b) /\ b.screen = a.screen /\ b.groupId = a.groupId
      /\ b.activeEventListener = a.activeEventListener
    <2>1. CASE ~right
        BY <1>1, <2>1 DEF Recorded, SameDeal
    <2>2. CASE right /\ a.isOn
        <3> DEFINE y == [a.localUserYesSwiped EXCEPT ![x] = @ + 1]
        <3>1. y \in DinnerLists
            BY <1>3, <1>4 DEF DinnerLists
        <3>2. b = [a EXCEPT !.localUserYesSwiped = y]
            BY <2>2 DEF Recorded, SaveDinnerIdToLocalStage, x
        <3> HIDE DEF y, b
        <3> QED BY <1>1, <3>1, <3>2 DEF Apps, SameDeal
    <2>3. CASE right /\ ~a.isOn
        <3> DEFINE y == IF a.wantedDinnersId = Nil THEN {x} ELSE a.wantedDinnersId \cup {x}
        <3>1. y \in SUBSET Dinners
            BY <1>3, <1>4
        <3>2. b = [a EXCEPT !.wantedDinnersId = y]
            BY <2>3 DEF Recorded, AddToWantedDinner, x
        <3> HIDE DEF y, b
        <3> QED BY <1>1, <3>1, <3>2 DEF Apps, SameDeal
    <2> QED BY <2>1, <2>2, <2>3
<1> HIDE DEF b
<1>6. b \in SoundApps
    BY <1>5, SameDealStaysSound DEF SameDeal, Attached, SoundApps
<1> QED BY <1>5, <1>6 DEF b

\* One card off a pile that fits.
LEMMA SwipedSound ==
    ASSUME NEW a \in SoundApps, a.screen = "cards", ~IsRunOutOfCards(a), a.swiped = Nil
    PROVE  LET b == SwipedAction(a) IN
           /\ b \in SoundApps /\ b.screen = "cards" /\ b.session = a.session
           /\ b.items = a.items /\ b.index = a.index + 1
           /\ a.index \in Nat /\ a.index < Len(a.items) /\ Head(a.visible) \in Dinners
<1> DEFINE b == SwipedAction(a)
<1>1. /\ a \in Apps /\ IsPile(a, Dinners) /\ Fits(a.items, a.index, a.visible)
      /\ a.visible # <<>>
    BY AppIsPile DEF SoundApps, IsRunOutOfCards
<1>2. Deals(a, Dinners, b)
    BY <1>1, SwipedActionDeals
<1>3. b.index = a.index + 1
    BY <1>1 DEF SwipedAction, Apps
<1> HIDE DEF b
<1>4. /\ b \in Apps /\ b.screen = "cards" /\ b.session = a.session
      /\ b.items = a.items /\ b.swiped = Nil
      /\ Attached(b) = Attached(a)
      /\ Fits(b.items, b.index, b.visible) /\ Len(b.visible) <= CountOfVisibleCards
    BY <1>1, <1>2, DealtApp DEF SoundApps
<1>5. b \in SoundApps
    BY <1>4 DEF SoundApps, InFlight
<1>6. a.index \in Nat /\ a.index < Len(a.items)
    <2>1. /\ a.index \in Nat /\ Len(a.items) \in Nat
          /\ Len(a.visible) \in Nat /\ Len(a.visible) # 0
        BY <1>1, LenProperties, EmptySeq DEF IsPile
    <2> QED BY <1>1, <2>1 DEF Fits
<1>7. Head(a.visible) \in Dinners
    BY <1>1, HeadTailProperties DEF IsPile
<1> QED BY <1>3, <1>4, <1>5, <1>6, <1>7 DEF b

LEMMA SwipeStep ==
    ASSUME IInv, NEW d \in Devices, Swipe(d)
    PROVE  IInv'
<1>1. PICK right \in BOOLEAN :
          OnlyApp(d, [SwipedAction(app[d]) EXCEPT !.swiped =
                          [index |-> app[d].index, right |-> right,
                           card |-> app[d].visible[1]]])
    BY DEF Swipe, Directions
<1>2. /\ app[d].screen = "cards" /\ ~IsRunOutOfCards(app[d]) /\ app[d] \in SoundApps
      /\ app[d].swiped = Nil
    BY Unchanged DEF Swipe, MaySwipe, Settled
<1> DEFINE b == SwipedAction(app[d])
           s == [index |-> app[d].index, right |-> right, card |-> app[d].visible[1]]
           a == [b EXCEPT !.swiped = s]
<1>3. /\ b \in SoundApps /\ b.screen = "cards" /\ b.session = app[d].session
      /\ b.index = app[d].index + 1
      /\ app[d].index \in Nat /\ Head(app[d].visible) \in Dinners
    BY <1>2, SwipedSound
<1>4. b.visible # <<>>
    BY DEF Swipe, IsRunOutOfCards
<1>5. s \in Swipes /\ s.index + 1 = b.index
    BY <1>3 DEF Swipes
<1>6. OnlyApp(d, a)
    BY <1>1
<1> HIDE DEF b, s
<1>7. /\ a \in Apps /\ a.screen = "cards" /\ a.session = app[d].session
      /\ a.items = b.items /\ a.index = b.index /\ a.visible = b.visible /\ a.swiped = s
      /\ a.leaked = b.leaked /\ a.activeEventListener = b.activeEventListener
    BY <1>3, <1>5 DEF SoundApps, Apps
<1> HIDE DEF a
<1>8. a \in SoundApps
    BY <1>3, <1>4, <1>5, <1>7 DEF SoundApps, InFlight, Attached
<1> QED BY <1>6, <1>7, <1>8, AppStep DEF AsksToEnter

\* The callback of a swipe, however late it comes, finds its dinner.
LEMMA DidSwipeStep ==
    ASSUME IInv, NEW d \in Devices, DidSwipe(d)
    PROVE  IInv'
<1> DEFINE s == app[d].swiped
           b == [app[d] EXCEPT !.swiped = Nil]
           a == Recorded(b, s.index, s.right)
<1>1. OnlyApp(d, a) /\ app[d].screen # "closed" /\ s # Nil
    BY DEF DidSwipe, Alive, Settled
<1>2. /\ app[d] \in SoundApps /\ app[d] \in Apps
      /\ Fits(app[d].items, app[d].index, app[d].visible) /\ InFlight(app[d])
    BY <1>1, Unchanged DEF SoundApps
<1>3. s \in Swipes
    BY <1>1, <1>2 DEF Apps
<1>4. s.index \in Nat /\ s.right \in BOOLEAN /\ s.index < Len(app[d].items)
    <2>1. s.index \in Nat /\ s.right \in BOOLEAN
        BY <1>3 DEF Swipes
    <2>2. s.index + 1 = app[d].index /\ app[d].visible # <<>>
        BY <1>1, <1>2 DEF InFlight
    <2>3. /\ app[d].index \in Nat /\ Len(app[d].items) \in Nat /\ Len(app[d].visible) \in Nat
        BY <1>2, LenProperties DEF Apps
    <2>4. app[d].index + Len(app[d].visible) <= Len(app[d].items)
        BY <1>2, <2>2 DEF Fits
    <2> QED BY <2>1, <2>2, <2>3, <2>4
<1> HIDE DEF s
<1>5. /\ b \in Apps /\ b.screen = app[d].screen /\ b.session = app[d].session
      /\ b.items = app[d].items /\ b.index = app[d].index /\ b.visible = app[d].visible
      /\ b.swiped = Nil /\ b.groupId = app[d].groupId
      /\ b.leaked = app[d].leaked /\ b.activeEventListener = app[d].activeEventListener
    BY <1>2 DEF Apps
<1> HIDE DEF b
<1>6. b \in SoundApps
    BY <1>1, <1>2, <1>5, SameDealStaysSound DEF SoundApps, Attached
<1>7. a \in SoundApps /\ a.screen = app[d].screen /\ a.session = app[d].session
    BY <1>4, <1>5, <1>6, RecordedSound DEF SameDeal
<1> HIDE DEF a
<1> QED BY <1>1, <1>7, AppStep DEF AsksToEnter

LEMMA RunOutAloneStep ==
    ASSUME IInv, NEW d \in Devices, NEW b \in SoundApps, b.screen = "cards",
           b.session = app[d].session, RunOutAlone(d, b)
    PROVE  IInv'
<1>1. CASE b.wantedDinnersId # Nil /\ OnlyApp(d, [Present(b, "list") EXCEPT
                                                    !.dinnerList = b.wantedDinnersId])
    <2> DEFINE p == Present(b, "list")
               a == [p EXCEPT !.dinnerList = b.wantedDinnersId]
    <2>1. "list" \in Screens /\ "list" # "waiting"
        BY DEF Screens
    <2>2. p \in SoundApps /\ p.screen \in {"cards", "list"} /\ p.session = app[d].session
        BY <2>1, PresentSound
    <2>3. b.wantedDinnersId \in (SUBSET Dinners) \cup {Nil}
        BY DEF SoundApps, Apps
    <2> HIDE DEF p
    <2>4. /\ a \in Apps /\ SameDeal(p, a) /\ a.screen = p.screen /\ a.groupId = p.groupId
          /\ a.activeEventListener = p.activeEventListener
        <3>1. p \in Apps
            BY <2>2 DEF SoundApps
        <3>2. a \in Apps
            BY <2>3, <3>1 DEF Apps
        <3>3. a.screen = p.screen /\ a.groupId = p.groupId /\ a.session = p.session
            BY <3>1 DEF Apps
        <3>4. /\ a.items = p.items /\ a.index = p.index /\ a.visible = p.visible
              /\ a.leaked = p.leaked /\ a.activeEventListener = p.activeEventListener
            BY <3>1 DEF Apps
        <3> QED BY <3>2, <3>3, <3>4 DEF SameDeal
    <2>5. OnlyApp(d, a)
        BY <1>1 DEF p
    <2> HIDE DEF a
    <2>6. a \in SoundApps
        BY <2>2, <2>4, SameDealStaysSound DEF SameDeal, Attached
    <2> QED BY <2>2, <2>4, <2>5, <2>6, AppStep DEF SameDeal, AsksToEnter
<1>2. CASE OnlyApp(d, Closed(b))
    BY <1>2, ClosedSound, AppStep DEF SoundApps, AsksToEnter
<1> QED BY <1>1, <1>2 DEF RunOutAlone

LEMMA RunOutInGroupStep ==
    ASSUME IInv, NEW d \in Devices, NEW b \in SoundApps, b.screen = "cards",
           b.session = app[d].session, RunOutInGroup(d, b)
    PROVE  IInv'
<1>1. CASE /\ HasGroup(b)
           /\ Send(d, RunOutWrites(d, b))
           /\ Become(d, InitiateEventListenerFor(b, "result", b.activeGroupId))
           /\ UNCHANGED <<groups, requests, failures, kills>>
    <2> DEFINE a == InitiateEventListenerFor(b, "result", b.activeGroupId)
               v == Ballot(b)
               w == Ready(d, b)
               q == outbox[d] \o <<v, w>>
    <2>1. /\ b \in Apps /\ b.groupId \in Codes /\ b.activeGroupId \in Codes
          /\ b.uniqueUserId \in UserIds /\ b.localUserYesSwiped \in DinnerLists
        BY <1>1 DEF HasGroup, SoundApps, Apps
    <2>2. a \in SoundApps /\ a.screen = "cards" /\ a.session = app[d].session
        BY <2>1, ListenerSound, ListenerFields
    <2>3. v \in WritesOf(DealtGroups) /\ w \in WritesOf(DealtGroups)
        <3>1. ReadyIn(View(d, b.activeGroupId)) \in Nat
            BY <2>1, ViewBases
        <3> QED BY <2>1, <3>1, WriteTypes, DealtSubset DEF Ballot, Ready
    <2>4. q \in Seq(WritesOf(DealtGroups))
        BY <2>3, Unchanged, Sent
    <2>5. /\ app' = [app EXCEPT ![d] = a] /\ outbox' = [outbox EXCEPT ![d] = q]
          /\ requests' = [requests EXCEPT ![d] = requests[d]]
          /\ groups' \in [Codes -> DealtGroups \cup {Nil}]
          /\ failures' \in 0..MaxFailures /\ kills' \in 0..MaxKills
        BY <1>1, Unchanged DEF Become, Send, RunOutWrites
    <2> HIDE DEF a, q
    <2>6. OneAttempt(a, requests[d])
        BY <2>2, Unchanged DEF OneAttempt, AsksToEnter
    <2> QED BY <2>2, <2>4, <2>5, <2>6, Unchanged, DeviceStep
<1>2. CASE OnlyApp(d, Closed(b))
    BY <1>2, ClosedSound, AppStep DEF SoundApps, AsksToEnter
<1> QED BY <1>1, <1>2 DEF RunOutInGroup

LEMMA SwipeLastStep ==
    ASSUME IInv, NEW d \in Devices, SwipeLast(d)
    PROVE  IInv'
<1>1. PICK right \in BOOLEAN :
          LET b == Recorded(SwipedAction(app[d]), app[d].index, right) IN
          RunOutInGroup(d, b) \/ RunOutAlone(d, b)
    BY DEF SwipeLast, Directions
<1>2. /\ app[d].screen = "cards" /\ ~IsRunOutOfCards(app[d]) /\ app[d] \in SoundApps
      /\ app[d].swiped = Nil
    BY Unchanged DEF SwipeLast, MaySwipe, Settled
<1> DEFINE c == SwipedAction(app[d])
           b == Recorded(c, app[d].index, right)
<1>3. /\ c \in SoundApps /\ c.screen = "cards" /\ c.session = app[d].session
      /\ app[d].index \in Nat /\ app[d].index < Len(c.items)
    BY <1>2, SwipedSound
<1>4. RunOutInGroup(d, b) \/ RunOutAlone(d, b)
    BY <1>1
<1> HIDE DEF c
<1>5. b \in SoundApps /\ b.screen = "cards" /\ b.session = app[d].session
    BY <1>3, RecordedSound DEF SameDeal
<1> HIDE DEF b
<1> QED BY <1>4, <1>5, RunOutInGroupStep, RunOutAloneStep

-----------------------------------------------------------------------------
(***************************************************************************)
(* Snapshots.                                                              *)
(***************************************************************************)
LEMMA DeliveredSound ==
    ASSUME NEW a \in SoundApps, NEW l \in Attached(a), NEW g \in DealtGroups \cup {Nil}
    PROVE  /\ Delivered(a, l, g) \in SoundApps
           /\ Delivered(a, l, g).screen = a.screen
           /\ Delivered(a, l, g).session = a.session
<1> DEFINE m == [l EXCEPT !.seen = g]
           b == Delivered(a, l, g)
<1>1. a \in Apps /\ l \in Listeners /\ Attached(a) \subseteq DealtListeners
    BY AttachedListeners DEF SoundApps
<1>2. m \in DealtListeners /\ m \in Listeners
    <2>1. m \in Listeners /\ m.seen = g
        BY <1>1, DealtSubset DEF Listeners
    <2> QED BY <2>1 DEF DealtListeners
<1> HIDE DEF m
<1>3. a.leaked \subseteq Listeners /\ a.activeEventListener \in Listeners \cup {Nil}
    BY <1>1 DEF Apps
<1>4. /\ b \in Apps /\ b.screen = a.screen /\ b.session = a.session /\ b.groupId = a.groupId
      /\ b.items = a.items /\ b.index = a.index /\ b.visible = a.visible
      /\ b.swiped = a.swiped /\ Attached(b) \subseteq Attached(a) \cup {m}
    <2>1. CASE a.activeEventListener = l
        <3>1. b = [a EXCEPT !.activeEventListener = m]
            BY <2>1 DEF Delivered, m
        <3> HIDE DEF b
        <3>2. b \in Apps
            BY <1>1, <1>2, <3>1 DEF Apps
        <3>3. /\ b.screen = a.screen /\ b.session = a.session /\ b.groupId = a.groupId
              /\ b.items = a.items /\ b.index = a.index /\ b.visible = a.visible
              /\ b.leaked = a.leaked /\ b.activeEventListener = m /\ b.swiped = a.swiped
            BY <1>1, <3>1 DEF Apps
        <3> QED BY <3>2, <3>3 DEF Attached
    <2>2. CASE a.activeEventListener # l
        <3> DEFINE L == (a.leaked \ {l}) \cup {m}
        <3>1. b = [a EXCEPT !.leaked = L]
            BY <2>2 DEF Delivered, m
        <3>2. L \in SUBSET Listeners /\ L \subseteq a.leaked \cup {m}
            BY <1>2, <1>3
        <3> HIDE DEF L, b
        <3>3. /\ b \in Apps /\ b.screen = a.screen /\ b.session = a.session
              /\ b.groupId = a.groupId
              /\ b.items = a.items /\ b.index = a.index /\ b.visible = a.visible
              /\ b.leaked = L /\ b.activeEventListener = a.activeEventListener
              /\ b.swiped = a.swiped
            BY <1>1, <3>1, <3>2 DEF Apps
        <3> QED BY <3>2, <3>3 DEF Attached
    <2> QED BY <2>1, <2>2
<1> HIDE DEF b
<1>5. b \in SoundApps
    BY <1>1, <1>2, <1>4 DEF SoundApps, InFlight
<1> QED BY <1>4, <1>5 DEF b

\* A listener that is called now, and what it is called with.
LEMMA SnapshotSound ==
    ASSUME IInv, NEW d \in Devices, NEW l \in Attached(app[d]), Alive(d)
    PROVE  LET g == View(d, l.code)
               a == Delivered(app[d], l, g)
           IN  /\ g \in DealtGroups \cup {Nil}
               /\ a \in SoundApps /\ a.session = app[d].session
               /\ a.screen = app[d].screen /\ a.screen # "closed"
<1>1. l \in Listeners
    BY Unchanged, AttachedListeners
<1>2. l.code \in Codes
    BY <1>1 DEF Listeners
<1> QED BY <1>2, ViewDealt, DeliveredSound, Unchanged DEF Alive

LEMMA LobbySnapshotStep ==
    ASSUME IInv, NEW d \in Devices, LobbySnapshot(d)
    PROVE  IInv'
<1>1. PICK l \in Attached(app[d]) :
          Alive(d) /\ OnlyApp(d, Delivered(app[d], l, View(d, l.code)))
    BY DEF LobbySnapshot, Changed
<1> QED BY <1>1, SnapshotSound, AppStep DEF AsksToEnter

LEMMA SessionDeckType ==
    ASSUME NEW a \in SoundApps, a.screen # "closed", NEW g \in DealtGroups
    PROVE  LET b == WithSessionDeck(a, g) IN
           /\ b \in Apps /\ IsPile(b, Dinners) /\ Len(b.visible) <= CountOfVisibleCards
           /\ Attached(b) = Attached(a)
           /\ b.screen = a.screen /\ b.session = a.session /\ b.groupId = a.groupId
           /\ b.items = g.dinnerIdsForCardView /\ b.index = a.index
           /\ b.visible = a.visible /\ b.swiped = a.swiped
<1> DEFINE b == WithSessionDeck(a, g)
<1>1. g.dinnerIdsForCardView \in Seq(Dinners)
    BY DealtSubset DEF Groups
<1>2. a \in Apps /\ Len(a.visible) <= CountOfVisibleCards
    BY DEF SoundApps
<1>3. /\ b \in Apps /\ b.visible = a.visible /\ b.index = a.index
      /\ b.items = g.dinnerIdsForCardView /\ b.swiped = a.swiped
      /\ b.screen = a.screen /\ b.session = a.session /\ b.groupId = a.groupId
      /\ b.leaked = a.leaked /\ b.activeEventListener = a.activeEventListener
    <2>1. b \in Apps
        BY <1>1, <1>2 DEF Apps, WithSessionDeck
    <2>2. /\ b.visible = a.visible /\ b.index = a.index
          /\ b.items = g.dinnerIdsForCardView /\ b.swiped = a.swiped
        BY <1>2 DEF Apps, WithSessionDeck
    <2>3. /\ b.screen = a.screen /\ b.session = a.session /\ b.groupId = a.groupId
          /\ b.leaked = a.leaked /\ b.activeEventListener = a.activeEventListener
        BY <1>2 DEF Apps, WithSessionDeck
    <2> QED BY <2>1, <2>2, <2>3
<1> HIDE DEF b
<1>4. IsPile(b, Dinners)
    BY <1>2, <1>3, AppIsPile
<1> QED BY <1>2, <1>3, <1>4 DEF Attached, b

\* The joiner starts on the session's deck.
LEMMA JoinerStartsSound ==
    ASSUME NEW a \in SoundApps, a.screen # "closed", NEW g \in DealtGroups,
           g.swipingSessionRunning, ~ReloadFails(WithSessionDeck(a, g))
    PROVE  LET n == Dismiss(DetachEventListener(StartOnlineSession(a, g))) IN
           n \in SoundApps /\ n.screen = "cards" /\ n.session = a.session
<1> DEFINE b == WithSessionDeck(a, g)
           c == ReloadData(b)
           e == DetachEventListener(c)
<1>1. /\ b \in Apps /\ IsPile(b, Dinners) /\ Len(b.visible) <= CountOfVisibleCards
      /\ Attached(b) = Attached(a) /\ ~ReloadFails(b)
      /\ b.screen = a.screen /\ b.session = a.session /\ b.groupId = a.groupId
      /\ b.items # <<>> /\ InFlight(b)
    <2>1. g.dinnerIdsForCardView # <<>>
        BY DecksAssumption DEF DealtGroups
    <2>2. InFlight(a)
        BY DEF SoundApps
    <2> HIDE DEF b
    <2>3. /\ b \in Apps /\ IsPile(b, Dinners) /\ Len(b.visible) <= CountOfVisibleCards
          /\ Attached(b) = Attached(a)
          /\ b.screen = a.screen /\ b.session = a.session /\ b.groupId = a.groupId
          /\ b.items = g.dinnerIdsForCardView /\ b.index = a.index
          /\ b.visible = a.visible /\ b.swiped = a.swiped
        BY SessionDeckType DEF b
    <2>4. ~ReloadFails(b)
        BY DEF b
    <2> QED BY <2>1, <2>2, <2>3, <2>4 DEF InFlight
<1> HIDE DEF b
<1>2. Deals(b, Dinners, c) /\ InFlight(c)
    BY <1>1, ReloadDataDeals, ReloadKeepsFlight
<1> HIDE DEF c
<1>3. /\ c \in Apps /\ c.screen = a.screen /\ c.session = a.session /\ c.groupId = a.groupId
      /\ Attached(c) = Attached(a)
      /\ Fits(c.items, c.index, c.visible) /\ Len(c.visible) <= CountOfVisibleCards
    BY <1>1, <1>2, DealtApp
<1>4. c \in SoundApps
    BY <1>2, <1>3 DEF SoundApps
<1>5. e \in SoundApps /\ e.screen = a.screen /\ e.session = a.session
    BY <1>3, <1>4, DetachSound
<1> HIDE DEF e
<1> QED BY <1>5, DismissSound DEF StartOnlineSession, e, c, b

LEMMA WaitSnapshotStep ==
    ASSUME IInv, NEW d \in Devices, WaitSnapshot(d)
    PROVE  IInv'
<1>1. PICK l \in Attached(app[d]) :
          LET g == View(d, l.code)
              a == Delivered(app[d], l, g)
              b == WithSessionDeck(a, g)
          IN  /\ Alive(d)
              /\ \/ OnlyApp(d, a)
                 \/ /\ g # Nil /\ g.swipingSessionRunning /\ ~ReloadFails(b)
                    /\ OnlyApp(d, Dismiss(DetachEventListener(StartOnlineSession(a, g))))
                 \/ g # Nil /\ OnlyApp(d, Closed(b))
    BY DEF WaitSnapshot, Changed
<1> DEFINE g == View(d, l.code)
           a == Delivered(app[d], l, g)
           b == WithSessionDeck(a, g)
<1>2. /\ g \in DealtGroups \cup {Nil}
      /\ a \in SoundApps /\ a.session = app[d].session
      /\ a.screen = app[d].screen /\ a.screen # "closed"
    BY <1>1, SnapshotSound
<1>3. \/ OnlyApp(d, a)
      \/ /\ g # Nil /\ g.swipingSessionRunning /\ ~ReloadFails(b)
         /\ OnlyApp(d, Dismiss(DetachEventListener(StartOnlineSession(a, g))))
      \/ g # Nil /\ OnlyApp(d, Closed(b))
    BY <1>1
<1> HIDE DEF g, a
<1>4. CASE OnlyApp(d, a)
    BY <1>2, <1>4, AppStep DEF AsksToEnter
<1>5. CASE /\ g # Nil /\ g.swipingSessionRunning /\ ~ReloadFails(b)
           /\ OnlyApp(d, Dismiss(DetachEventListener(StartOnlineSession(a, g))))
    BY <1>2, <1>5, JoinerStartsSound, AppStep DEF AsksToEnter
<1>6. CASE g # Nil /\ OnlyApp(d, Closed(b))
    <2>1. /\ b \in Apps /\ Len(b.visible) <= CountOfVisibleCards
          /\ Attached(b) = Attached(a) /\ b.session = app[d].session
        BY <1>2, <1>6, SessionDeckType
    <2> HIDE DEF b
    <2>2. Attached(b) \subseteq DealtListeners
        BY <1>2, <2>1 DEF SoundApps
    <2> QED BY <1>6, <2>1, <2>2, ClosedSound, AppStep DEF AsksToEnter
<1> QED BY <1>3, <1>4, <1>5, <1>6

LEMMA ResultSnapshotStep ==
    ASSUME IInv, NEW d \in Devices, ResultSnapshot(d)
    PROVE  IInv'
<1>1. PICK l \in Attached(app[d]) :
          LET g == View(d, l.code)
              a == Delivered(app[d], l, g)
          IN  /\ Alive(d)
              /\ \/ OnlyApp(d, a)
                 \/ OnlyApp(d, IF a.screen = "cards"
                               THEN Present([a EXCEPT !.dinnerList = Winners(g)], "list")
                               ELSE a)
                 \/ OnlyApp(d, Show(a, "frozen"))
    BY DEF ResultSnapshot, Changed
<1> DEFINE g == View(d, l.code)
           a == Delivered(app[d], l, g)
           b == [a EXCEPT !.dinnerList = Winners(g)]
<1>2. /\ a \in SoundApps /\ a.session = app[d].session
      /\ a.screen = app[d].screen /\ a.screen # "closed"
    BY <1>1, SnapshotSound
<1>3. \/ OnlyApp(d, a)
      \/ a.screen = "cards" /\ OnlyApp(d, Present(b, "list"))
      \/ OnlyApp(d, Show(a, "frozen"))
    BY <1>1
<1>4. Winners(g) \in SUBSET Dinners
    BY DEF Winners, DinnersWithVotes
<1> HIDE DEF g, a
<1>5. CASE OnlyApp(d, a)
    BY <1>2, <1>5, AppStep DEF AsksToEnter
<1>6. CASE a.screen = "cards" /\ OnlyApp(d, Present(b, "list"))
    <2>1. /\ b \in Apps /\ SameDeal(a, b) /\ b.screen = "cards"
          /\ b.activeEventListener = a.activeEventListener
        <3>1. a \in Apps
            BY <1>2 DEF SoundApps
        <3>2. b \in Apps
            BY <1>4, <3>1 DEF Apps
        <3>3. /\ SameDeal(a, b) /\ b.screen = "cards"
              /\ b.activeEventListener = a.activeEventListener
            BY <1>6, <3>1 DEF Apps, SameDeal
        <3> QED BY <3>2, <3>3
    <2> HIDE DEF b
    <2>2. b \in SoundApps
        BY <1>2, <2>1, SameDealStaysSound DEF SameDeal, Attached
    <2>3. /\ Present(b, "list") \in SoundApps /\ Present(b, "list").session = app[d].session
          /\ Present(b, "list").screen \in {"cards", "list"}
        <3>1. "list" \in Screens /\ "list" # "waiting"
            BY DEF Screens
        <3>2. b.session = app[d].session
            BY <1>2, <2>1 DEF SameDeal
        <3> QED BY <2>1, <2>2, <3>1, <3>2, PresentSound
    <2> QED BY <1>6, <2>3, AppStep DEF AsksToEnter
<1>7. CASE OnlyApp(d, Show(a, "frozen"))
    BY <1>2, <1>7, ShowSound, AppStep DEF Screens, AsksToEnter
<1> QED BY <1>3, <1>5, <1>6, <1>7

-----------------------------------------------------------------------------
(***************************************************************************)
(* The invariant, and what follows from it.                                *)
(***************************************************************************)
LEMMA InvNext == IInv /\ [Next]_vars => IInv'
<1> SUFFICES ASSUME IInv, [Next]_vars PROVE IInv'
    OBVIOUS
<1>1. CASE UNCHANGED vars
    BY <1>1 DEF vars, IInv
<1>2. ASSUME NEW d \in Devices, Switching(d)
      PROVE  IInv'
    BY <1>2, SwitchedOnStep, JoinPressedStep, CodeEnteredStep, CreatePressedStep,
       SimpleAlertSteps, ExitConfirmedStep DEF Switching
<1>3. ASSUME NEW d \in Devices, Joining(d)
      PROVE  IInv'
    BY <1>3, JoinAnsweredStep, LeaveGroupPressedStep, RemoveAnsweredStep DEF Joining
<1>4. ASSUME NEW d \in Devices, Hosting(d)
      PROVE  IInv'
    BY <1>4, CreateAnsweredStep, HostCancelledStep, StartPressedStep,
       StartSessionPressedStep, StartAnsweredStep DEF Hosting
<1>5. ASSUME NEW d \in Devices, Swiping(d)
      PROVE  IInv'
    BY <1>5, SwipeStep, DidSwipeStep, SwipeLastStep DEF Swiping
<1>6. ASSUME NEW d \in Devices, Snapshot(d)
      PROVE  IInv'
    BY <1>6, LobbySnapshotStep, WaitSnapshotStep, ResultSnapshotStep DEF Snapshot
<1>7. ASSUME NEW d \in Devices, Listing(d)
      PROVE  IInv'
    BY <1>7, RestartPressedStep, RestartCancelledStep, RestartConfirmedStep DEF Listing
<1>8. ASSUME NEW d \in Devices, Environment(d)
      PROVE  IInv'
    BY <1>8, WriteReachesServerStep, RequestFailsStep, KilledStep, LaunchStep DEF Environment
<1> QED BY <1>1, <1>2, <1>3, <1>4, <1>5, <1>6, <1>7, <1>8 DEF Next

LEMMA Invariance == Spec => []IInv
<1> QED BY InvInit, InvNext, PTL DEF Spec

LEMMA InvImpliesTypeOK == IInv => TypeOK
<1> SUFFICES ASSUME IInv PROVE TypeOK
    OBVIOUS
<1>1. groups \in [Codes -> Groups \cup {Nil}]
    BY DealtSubset DEF IInv
<1>2. outbox \in [Devices -> Seq(Writes)]
    <2>1. WritesOf(DealtGroups) \subseteq Writes
        BY DEF WritesOf
    <2>2. Seq(WritesOf(DealtGroups)) \subseteq Seq(Writes)
        <3> SUFFICES ASSUME NEW q \in Seq(WritesOf(DealtGroups)) PROVE q \in Seq(Writes)
            OBVIOUS
        <3>1. /\ Len(q) \in Nat /\ q \in [1..Len(q) -> WritesOf(DealtGroups)]
            BY LenProperties
        <3>2. q \in [1..Len(q) -> Writes]
            BY <2>1, <3>1
        <3> QED BY <3>1, <3>2, SeqDef
    <2> QED BY <2>2 DEF IInv
<1>3. app \in [Devices -> Apps]
    BY DEF IInv, SoundApps
<1> QED BY <1>1, <1>2, <1>3 DEF IInv, TypeOK

\* Whatever the users, the network and the operating system do: documents,
\* pending writes, requests and apps keep their types.  In particular every
\* user id, group code and dinner that a handler force-unwraps or indexes is
\* one that exists.
THEOREM TypeCorrect == Spec => []TypeOK
<1> QED BY Invariance, InvImpliesTypeOK, PTL

LEMMA InvImpliesPile == IInv => PileWithinItems
<1> SUFFICES ASSUME IInv, NEW d \in Devices, app[d].screen # "closed"
             PROVE  /\ app[d].visible # <<>> =>
                           app[d].index + Len(app[d].visible) <= Len(app[d].items)
                    /\ app[d].swiped # Nil => app[d].swiped.index < Len(app[d].items)
    BY DEF PileWithinItems
<1> DEFINE a == app[d]
<1>1. /\ a \in Apps /\ Fits(a.items, a.index, a.visible) /\ InFlight(a)
    BY Unchanged DEF SoundApps
<1>2. /\ a.index \in Nat /\ Len(a.items) \in Nat /\ Len(a.visible) \in Nat
      /\ a.visible # <<>> => Len(a.visible) > 0
      /\ a.swiped # Nil => a.swiped.index \in Nat
    <2>1. a.index \in Nat /\ a.visible \in Seq(Dinners) /\ a.items \in Seq(Dinners)
        BY <1>1 DEF Apps
    <2>2. a.swiped # Nil => a.swiped.index \in Nat
        BY <1>1 DEF Apps, Swipes
    <2> QED BY <2>1, <2>2, LenProperties, EmptySeq
<1>3. a.visible # <<>> => a.index + Len(a.visible) <= Len(a.items)
    BY <1>1 DEF Fits
<1>4. a.swiped # Nil => a.swiped.index + 1 = a.index /\ a.visible # <<>>
    BY <1>1 DEF InFlight
<1> HIDE DEF a
<1>5. a.swiped # Nil => a.swiped.index < Len(a.items)
    BY <1>2, <1>3, <1>4
<1> QED BY <1>3, <1>5 DEF a

\* However often a session is started, left, restarted or answered late, the
\* cards on the screen of a running app lie within itemsForCardView, and so
\* does the card whose swipe is still being animated: however late its
\* didSwipeCardAt comes, and whatever replaced the items meanwhile, it does
\* not index past their end.
THEOREM PileIsSafe == Spec => []PileWithinItems
<1> QED BY Invariance, InvImpliesPile, PTL

LEMMA InvImpliesDeck == IInv => RunningGroupHasADeck
<1> SUFFICES ASSUME IInv, NEW c \in Codes, NEW g \in RunningCopies(c)
             PROVE  g.dinnerIdsForCardView \in HostDecks
    BY DEF RunningGroupHasADeck
<1>1. g # Nil /\ g.swipingSessionRunning /\ g \in Copies(c)
    BY DEF RunningCopies
<1>2. CASE g = groups[c]
    BY <1>1, <1>2 DEF IInv, DealtGroups
<1>3. ASSUME NEW d \in Devices, NEW i \in PendingSets(outbox[d], c), g = outbox[d][i].group
      PROVE  g.dinnerIdsForCardView \in HostDecks
    <2>1. /\ i \in 1..Len(outbox[d]) /\ outbox[d][i].op = "set"
          /\ outbox[d] \in Seq(WritesOf(DealtGroups))
        BY <1>3, Unchanged, LenProperties DEF PendingSets
    <2>2. outbox[d][i] \in WritesOf(DealtGroups)
        BY <2>1, ElementOfSeq
    <2> QED BY <1>1, <1>3, <2>1, <2>2 DEF WritesOf, DealtGroups
<1>4. ASSUME NEW d \in Devices, NEW l \in Attached(app[d]), g = l.seen
      PROVE  g.dinnerIdsForCardView \in HostDecks
    <2>1. l \in DealtListeners
        BY <1>4, Unchanged DEF SoundApps
    <2> QED BY <1>1, <1>4, <2>1 DEF DealtListeners, DealtGroups
<1> QED BY <1>1, <1>2, <1>3, <1>4 DEF Copies, Queued, Shown

\* No copy of a running group -- on the server, in a queued setData or in the
\* hands of a listener -- is without the deck its host drew: documents are
\* read, changed and written back as a whole, and nobody ever writes the flag
\* without the deck or the deck of somebody else.
THEOREM RunningIsDealt == Spec => []RunningGroupHasADeck
<1> QED BY Invariance, InvImpliesDeck, PTL

-----------------------------------------------------------------------------
(***************************************************************************)
(* What a handler leaves alone in an app.                                  *)
(***************************************************************************)
AppFields == {"screen", "isOn", "groupId", "activeGroupId", "isInOnlineSession", "session",
              "uniqueUserId", "localUserYesSwiped", "activeEventListener", "leaked", "client",
              "items", "index", "visible", "swiped", "wantedDinnersId", "dinnerList"}

IsApp(a) == AppFields \subseteq DOMAIN a

\* The group the app belongs to, and under which name.
SameMembership(a, b) ==
    /\ b.isOn = a.isOn /\ b.groupId = a.groupId /\ b.activeGroupId = a.activeGroupId
    /\ b.isInOnlineSession = a.isInOnlineSession /\ b.session = a.session
    /\ b.uniqueUserId = a.uniqueUserId /\ b.client = a.client

SameListeners(a, b) ==
    b.leaked = a.leaked /\ b.activeEventListener = a.activeEventListener

SameCards(a, b) ==
    /\ b.items = a.items /\ b.index = a.index
    /\ b.visible = a.visible /\ b.swiped = a.swiped

SameSwipes(a, b) == SameCards(a, b) /\ b.localUserYesSwiped = a.localUserYesSwiped

\* The cards are those of the deck, from the first one on.
FreshDeck(a) == a.index = 0 /\ InPlace(a.items, 0, a.visible)

SamePlay(a, b) ==
    /\ SameMembership(a, b) /\ SameListeners(a, b) /\ SameCards(a, b)
    /\ b.localUserYesSwiped = a.localUserYesSwiped

LEMMA SoundAppFields == ASSUME NEW a \in Apps PROVE IsApp(a)
BY DEF Apps, IsApp, AppFields

LEMMA ShowFields ==
    ASSUME NEW a, IsApp(a), NEW s
    PROVE  IsApp(Show(a, s)) /\ Show(a, s).screen = s /\ SamePlay(a, Show(a, s))
BY DEF Show, IsApp, AppFields, SamePlay, SameMembership, SameListeners, SameCards

LEMMA SwitchFields ==
    ASSUME NEW a, IsApp(a), NEW on
    PROVE  LET b == [a EXCEPT !.isOn = on] IN
           /\ IsApp(b) /\ b.isOn = on /\ b.screen = a.screen
           /\ SameListeners(a, b) /\ SameCards(a, b)
           /\ b.groupId = a.groupId /\ b.activeGroupId = a.activeGroupId
           /\ b.isInOnlineSession = a.isInOnlineSession /\ b.session = a.session
           /\ b.uniqueUserId = a.uniqueUserId /\ b.client = a.client
           /\ b.localUserYesSwiped = a.localUserYesSwiped
BY DEF IsApp, AppFields, SameListeners, SameCards

LEMMA DetachFields ==
    ASSUME NEW a, IsApp(a)
    PROVE  LET b == DetachEventListener(a) IN
           /\ IsApp(b) /\ b.activeEventListener = Nil /\ b.leaked = a.leaked
           /\ b.screen = a.screen
           /\ SameMembership(a, b) /\ SameCards(a, b)
           /\ b.localUserYesSwiped = a.localUserYesSwiped
BY DEF DetachEventListener, IsApp, AppFields, SameMembership, SameCards

LEMMA ListensFields ==
    ASSUME NEW a, IsApp(a), NEW role, NEW c
    PROVE  LET b == InitiateEventListenerFor(a, role, c) IN
           /\ IsApp(b) /\ b.screen = a.screen
           /\ b.activeEventListener = [role |-> role, code |-> c, seen |-> Nil]
           /\ b.leaked = Attached(a)
           /\ SameMembership(a, b) /\ SameCards(a, b)
           /\ b.localUserYesSwiped = a.localUserYesSwiped
BY DEF InitiateEventListenerFor, Attached, IsApp, AppFields, SameMembership, SameCards

\* The listeners of b are those of a, called or not.
SameRoles(a, b) ==
    /\ b.activeEventListener = Nil <=> a.activeEventListener = Nil
    /\ a.activeEventListener # Nil =>
          /\ b.activeEventListener.role = a.activeEventListener.role
          /\ b.activeEventListener.code = a.activeEventListener.code
    /\ \A m \in b.leaked : \E l \in a.leaked : l.role = m.role /\ l.code = m.code
    /\ \A l \in a.leaked : \E m \in b.leaked : l.role = m.role /\ l.code = m.code

LEMMA DeliveredFields ==
    ASSUME NEW a \in Apps, NEW l \in Attached(a), NEW g \in Groups \cup {Nil}
    PROVE  LET b == Delivered(a, l, g) IN
           /\ IsApp(b) /\ b.screen = a.screen
           /\ SameMembership(a, b) /\ SameCards(a, b)
           /\ b.localUserYesSwiped = a.localUserYesSwiped
           /\ SameRoles(a, b)
<1> DEFINE m == [l EXCEPT !.seen = g]
           b == Delivered(a, l, g)
<1>1. IsApp(a) /\ l \in Listeners
    BY SoundAppFields, AttachedListeners
<1>2. m \in Listeners /\ m.role = l.role /\ m.code = l.code /\ m # Nil /\ l # Nil
    BY <1>1, ListenersAssumption DEF Listeners
<1> HIDE DEF m
<1>3. CASE a.activeEventListener = l
    <2>1. b = [a EXCEPT !.activeEventListener = m]
        BY <1>3 DEF Delivered, m
    <2>2. /\ IsApp(b) /\ b.screen = a.screen /\ b.activeEventListener = m /\ b.leaked = a.leaked
          /\ SameMembership(a, b) /\ SameCards(a, b)
          /\ b.localUserYesSwiped = a.localUserYesSwiped
        BY <1>1, <2>1 DEF IsApp, AppFields, SameMembership, SameCards
    <2> QED BY <1>2, <1>3, <2>2 DEF SameRoles
<1>4. CASE a.activeEventListener # l
    <2>1. b = [a EXCEPT !.leaked = (a.leaked \ {l}) \cup {m}]
        BY <1>4 DEF Delivered, m
    <2>2. /\ IsApp(b) /\ b.screen = a.screen
          /\ b.activeEventListener = a.activeEventListener
          /\ b.leaked = (a.leaked \ {l}) \cup {m}
          /\ SameMembership(a, b) /\ SameCards(a, b)
          /\ b.localUserYesSwiped = a.localUserYesSwiped
        BY <1>1, <2>1 DEF IsApp, AppFields, SameMembership, SameCards
    <2>3. l \in a.leaked
        BY <1>4 DEF Attached
    <2> QED BY <1>2, <2>2, <2>3 DEF SameRoles
<1> QED BY <1>3, <1>4

\* A pile operation changes nothing but the pile.
LEMMA DealtFields ==
    ASSUME NEW a, IsApp(a), NEW b, Deals(a, Dinners, b)
    PROVE  /\ IsApp(b) /\ b.screen = a.screen /\ b.items = a.items /\ b.swiped = a.swiped
           /\ SameMembership(a, b) /\ SameListeners(a, b)
           /\ b.localUserYesSwiped = a.localUserYesSwiped
<1>1. PICK i \in Nat, v \in Seq(Dinners) : b = [a EXCEPT !.index = i, !.visible = v]
    BY DEF Deals
<1> QED BY <1>1 DEF IsApp, AppFields, SameMembership, SameListeners

LEMMA SameMembershipTrans ==
    ASSUME NEW a, NEW b, NEW c, SameMembership(a, b), SameMembership(b, c)
    PROVE  SameMembership(a, c)
BY DEF SameMembership

\* The joiner's app once its request to join c was answered.
LEMMA PreparedFields ==
    ASSUME NEW a, IsApp(a), NEW d, NEW c
    PROVE  LET b == PrepareForOnlineSession(a, d, c) IN
           /\ IsApp(b) /\ b.isOn = a.isOn /\ b.client = a.client
           /\ b.screen = IF a.screen = "cards" THEN "waiting" ELSE a.screen
           /\ b.groupId = c /\ b.activeGroupId = c /\ b.isInOnlineSession
           /\ b.session = a.session + 1 /\ b.uniqueUserId = <<d, a.session + 1>>
           /\ b.activeEventListener = [role |-> "wait", code |-> c, seen |-> Nil]
           /\ b.leaked = Attached(a)
           /\ SameCards(a, b) /\ b.localUserYesSwiped = a.localUserYesSwiped
<1> DEFINE u == [CreateUniqueUserId(a, d) EXCEPT !.groupId = c, !.activeGroupId = c,
                                                 !.isInOnlineSession = TRUE]
           l == InitiateEventListenerFor(u, "wait", c)
<1>1. /\ IsApp(u) /\ u.isOn = a.isOn /\ u.client = a.client /\ u.screen = a.screen
      /\ u.groupId = c /\ u.activeGroupId = c /\ u.isInOnlineSession
      /\ u.session = a.session + 1 /\ u.uniqueUserId = <<d, a.session + 1>>
      /\ SameListeners(a, u) /\ SameCards(a, u)
      /\ u.localUserYesSwiped = a.localUserYesSwiped
    BY DEF CreateUniqueUserId, IsApp, AppFields, SameListeners, SameCards
<1> HIDE DEF u
<1>2. Attached(u) = Attached(a)
    BY <1>1 DEF Attached, SameListeners
<1>3. /\ IsApp(l) /\ l.screen = a.screen
      /\ l.activeEventListener = [role |-> "wait", code |-> c, seen |-> Nil]
      /\ l.leaked = Attached(a)
      /\ SameMembership(u, l) /\ SameCards(u, l)
      /\ l.localUserYesSwiped = a.localUserYesSwiped
    BY <1>1, <1>2, ListensFields
<1> HIDE DEF l
<1> DEFINE b == Present(l, "waiting")
<1>4. /\ IsApp(b) /\ SamePlay(l, b)
      /\ b.screen = IF a.screen = "cards" THEN "waiting" ELSE a.screen
    <2>1. CASE a.screen = "cards"
        BY <1>3, <2>1, ShowFields DEF Present
    <2>2. CASE a.screen # "cards"
        BY <1>3, <2>2 DEF Present, SamePlay, SameMembership, SameListeners, SameCards
    <2> QED BY <2>1, <2>2
<1>5. PrepareForOnlineSession(a, d, c) = b
    BY DEF PrepareForOnlineSession, b, l, u
<1> HIDE DEF b
<1>6. /\ b.isOn = a.isOn /\ b.client = a.client /\ b.groupId = c /\ b.activeGroupId = c
      /\ b.isInOnlineSession /\ b.session = a.session + 1
      /\ b.uniqueUserId = <<d, a.session + 1>>
    BY <1>1, <1>3, <1>4 DEF SamePlay, SameMembership
<1>7. /\ b.activeEventListener = [role |-> "wait", code |-> c, seen |-> Nil]
      /\ b.leaked = Attached(a)
      /\ SameCards(a, b) /\ b.localUserYesSwiped = a.localUserYesSwiped
    BY <1>1, <1>3, <1>4 DEF SamePlay, SameListeners, SameCards
<1> QED BY <1>4, <1>5, <1>6, <1>7

\* The host's app once its group has got the code c.
CreatedApp(a, d, c) ==
    InitiateEventListenerFor(
        CreateUniqueUserId(
            Present([a EXCEPT !.groupId = c, !.activeGroupId = c], "lobby"), d),
        "lobby", c)

LEMMA CreatedFields ==
    ASSUME NEW a, IsApp(a), NEW d, NEW c
    PROVE  LET b == CreatedApp(a, d, c) IN
           /\ IsApp(b) /\ b.isOn = a.isOn /\ b.client = a.client
           /\ b.screen = IF a.screen = "cards" THEN "lobby" ELSE a.screen
           /\ b.groupId = c /\ b.activeGroupId = c
           /\ b.isInOnlineSession = a.isInOnlineSession
           /\ b.session = a.session + 1 /\ b.uniqueUserId = <<d, a.session + 1>>
           /\ b.activeEventListener = [role |-> "lobby", code |-> c, seen |-> Nil]
           /\ b.leaked = Attached(a)
           /\ SameCards(a, b) /\ b.localUserYesSwiped = a.localUserYesSwiped
<1> DEFINE n == [a EXCEPT !.groupId = c, !.activeGroupId = c]
           p == Present(n, "lobby")
           u == CreateUniqueUserId(p, d)
           b == InitiateEventListenerFor(u, "lobby", c)
<1>1. /\ IsApp(n) /\ n.isOn = a.isOn /\ n.client = a.client /\ n.screen = a.screen
      /\ n.groupId = c /\ n.activeGroupId = c
      /\ n.isInOnlineSession = a.isInOnlineSession /\ n.session = a.session
      /\ SameListeners(a, n) /\ SameCards(a, n)
      /\ n.localUserYesSwiped = a.localUserYesSwiped
    BY DEF IsApp, AppFields, SameListeners, SameCards
<1> HIDE DEF n
<1>2. /\ IsApp(p) /\ SamePlay(n, p)
      /\ p.screen = IF a.screen = "cards" THEN "lobby" ELSE a.screen
    <2>1. CASE a.screen = "cards"
        BY <1>1, <2>1, ShowFields DEF Present
    <2>2. CASE a.screen # "cards"
        BY <1>1, <2>2 DEF Present, SamePlay, SameMembership, SameListeners, SameCards
    <2> QED BY <2>1, <2>2
<1> HIDE DEF p
<1>3. /\ IsApp(u) /\ u.screen = p.screen /\ u.isOn = p.isOn /\ u.client = p.client
      /\ u.groupId = p.groupId /\ u.activeGroupId = p.activeGroupId
      /\ u.isInOnlineSession = p.isInOnlineSession
      /\ u.session = p.session + 1 /\ u.uniqueUserId = <<d, p.session + 1>>
      /\ SameListeners(p, u) /\ SameCards(p, u)
      /\ u.localUserYesSwiped = p.localUserYesSwiped
    BY <1>2 DEF CreateUniqueUserId, IsApp, AppFields, SameListeners, SameCards
<1> HIDE DEF u
<1>4. Attached(u) = Attached(a)
    BY <1>1, <1>2, <1>3 DEF Attached, SamePlay, SameListeners
<1>5. /\ IsApp(b) /\ b.screen = u.screen
      /\ b.activeEventListener = [role |-> "lobby", code |-> c, seen |-> Nil]
      /\ b.leaked = Attached(a)
      /\ SameMembership(u, b) /\ SameCards(u, b)
      /\ b.localUserYesSwiped = u.localUserYesSwiped
    BY <1>3, <1>4, ListensFields
<1>6. CreatedApp(a, d, c) = b
    BY DEF CreatedApp, b, u, p, n
<1> HIDE DEF b
<1>7. /\ b.isOn = a.isOn /\ b.client = a.client /\ b.groupId = c /\ b.activeGroupId = c
      /\ b.isInOnlineSession = a.isInOnlineSession
      /\ b.session = a.session + 1 /\ b.uniqueUserId = <<d, a.session + 1>>
    BY <1>1, <1>2, <1>3, <1>5 DEF SamePlay, SameMembership
<1>8. SameCards(a, b) /\ b.localUserYesSwiped = a.localUserYesSwiped
    BY <1>1, <1>2, <1>3, <1>5 DEF SamePlay, SameCards
<1> QED BY <1>2, <1>3, <1>5, <1>6, <1>7, <1>8

LEMMA RecordedFields ==
    ASSUME NEW a, IsApp(a), NEW i, NEW right
    PROVE  LET b == Recorded(a, i, right) IN
           /\ IsApp(b) /\ b.screen = a.screen
           /\ SameMembership(a, b) /\ SameListeners(a, b) /\ SameCards(a, b)
BY DEF Recorded, SaveDinnerIdToLocalStage, AddToWantedDinner,
       IsApp, AppFields, SameMembership, SameListeners, SameCards

LEMMA SessionDeckFields ==
    ASSUME NEW a, IsApp(a), NEW g
    PROVE  LET b == WithSessionDeck(a, g) IN
           /\ IsApp(b) /\ b.screen = a.screen /\ b.items = g.dinnerIdsForCardView
           /\ b.visible = a.visible /\ b.swiped = a.swiped
           /\ SameMembership(a, b) /\ SameListeners(a, b)
           /\ b.localUserYesSwiped = a.localUserYesSwiped
BY DEF WithSessionDeck, IsApp, AppFields, SameMembership, SameListeners

LEMMA DismissFields ==
    ASSUME NEW a \in SoundApps
    PROVE  LET b == Dismiss(a) IN
           /\ IsApp(b) /\ b.screen = "cards" /\ b.items = a.items /\ b.swiped = a.swiped
           /\ a.screen \notin {"list", "restart"} => SameCards(a, b)
           /\ SameMembership(a, b) /\ SameListeners(a, b)
           /\ b.localUserYesSwiped = a.localUserYesSwiped
<1>0. IsApp(a) /\ IsPile(a, Dinners)
    BY SoundAppFields, AppIsPile DEF SoundApps
<1> DEFINE v == IF a.screen \in {"list", "restart"} THEN ViewWillAppear(a) ELSE a
<1>1. a.screen \notin {"list", "restart"} => v = a
    OBVIOUS
<1>2. /\ IsApp(v) /\ v.items = a.items /\ v.swiped = a.swiped
      /\ SameMembership(a, v) /\ SameListeners(a, v)
      /\ v.localUserYesSwiped = a.localUserYesSwiped
    <2>1. CASE v = a
        BY <1>0, <2>1 DEF SameMembership, SameListeners
    <2>2. CASE v = ResetCurrentCardIndex(a)
        <3>1. Deals(a, Dinners, v)
            BY <1>0, <2>2, ResetDeals
        <3> HIDE DEF v
        <3> QED BY <1>0, <3>1, DealtFields
    <2> QED BY <2>1, <2>2 DEF ViewWillAppear
<1>3. Dismiss(a) = Show(v, "cards")
    BY DEF Dismiss
<1> HIDE DEF v
<1>4. LET b == Show(v, "cards") IN IsApp(b) /\ b.screen = "cards" /\ SamePlay(v, b)
    BY <1>2, ShowFields
<1> QED BY <1>1, <1>2, <1>3, <1>4 DEF SamePlay, SameMembership, SameListeners, SameCards

\* The joiner's app when the session has started on the deck of g.
StartedApp(a, g) == Dismiss(DetachEventListener(StartOnlineSession(a, g)))

LEMMA StartedFields ==
    ASSUME NEW a \in SoundApps, a.screen # "closed", NEW g \in DealtGroups,
           g.swipingSessionRunning, ~ReloadFails(WithSessionDeck(a, g))
    PROVE  LET b == StartedApp(a, g) IN
           /\ IsApp(b) /\ b.screen = "cards" /\ b.items = g.dinnerIdsForCardView
           /\ b.swiped = a.swiped
           /\ a.index = 0 /\ a.screen = "waiting" => FreshDeck(b)
           /\ b.activeEventListener = Nil /\ b.leaked = a.leaked
           /\ SameMembership(a, b)
           /\ b.localUserYesSwiped = a.localUserYesSwiped
<1> DEFINE w == WithSessionDeck(a, g)
           c == ReloadData(w)
           e == DetachEventListener(c)
<1>1. /\ w \in Apps /\ IsPile(w, Dinners) /\ Len(w.visible) <= CountOfVisibleCards
      /\ Attached(w) = Attached(a) /\ ~ReloadFails(w)
      /\ w.screen = a.screen /\ w.groupId = a.groupId /\ w.index = a.index
      /\ w.items # <<>> /\ InFlight(w)
    <2>1. g.dinnerIdsForCardView # <<>>
        BY DecksAssumption DEF DealtGroups
    <2>2. InFlight(a)
        BY DEF SoundApps
    <2> HIDE DEF w
    <2>3. /\ w \in Apps /\ IsPile(w, Dinners) /\ Len(w.visible) <= CountOfVisibleCards
          /\ Attached(w) = Attached(a)
          /\ w.screen = a.screen /\ w.groupId = a.groupId
          /\ w.items = g.dinnerIdsForCardView /\ w.index = a.index
          /\ w.visible = a.visible /\ w.swiped = a.swiped
        BY SessionDeckType DEF w
    <2>4. ~ReloadFails(w)
        BY DEF w
    <2> QED BY <2>1, <2>2, <2>3, <2>4 DEF InFlight
<1>2. /\ IsApp(w) /\ w.items = g.dinnerIdsForCardView /\ w.swiped = a.swiped
      /\ SameMembership(a, w) /\ SameListeners(a, w)
      /\ w.localUserYesSwiped = a.localUserYesSwiped
    <2>1. IsApp(a)
        BY SoundAppFields DEF SoundApps
    <2> QED BY <2>1, SessionDeckFields
<1> HIDE DEF w
<1>3. Deals(w, Dinners, c) /\ InFlight(c)
    BY <1>1, ReloadDataDeals, ReloadKeepsFlight
<1> HIDE DEF c
<1>4. /\ c \in Apps /\ c.screen = a.screen /\ c.groupId = a.groupId
      /\ Attached(c) = Attached(a)
      /\ Fits(c.items, c.index, c.visible) /\ Len(c.visible) <= CountOfVisibleCards
    BY <1>1, <1>3, DealtApp
<1>5. /\ IsApp(c) /\ c.items = w.items /\ c.swiped = w.swiped
      /\ SameMembership(w, c) /\ SameListeners(w, c)
      /\ c.localUserYesSwiped = w.localUserYesSwiped
    BY <1>2, <1>3, DealtFields
<1>6. c \in SoundApps
    BY <1>3, <1>4 DEF SoundApps
<1>7. /\ e \in SoundApps /\ IsApp(e) /\ e.activeEventListener = Nil /\ e.leaked = c.leaked
      /\ SameMembership(c, e) /\ SameCards(c, e)
      /\ e.localUserYesSwiped = c.localUserYesSwiped
    BY <1>5, <1>6, DetachSound, DetachFields
<1> HIDE DEF e
<1> DEFINE b == Dismiss(e)
<1>8. /\ IsApp(b) /\ b.screen = "cards" /\ b.items = e.items /\ b.swiped = e.swiped
      /\ SameMembership(e, b) /\ SameListeners(e, b)
      /\ b.localUserYesSwiped = e.localUserYesSwiped
    BY <1>7, DismissFields
<1>9. StartedApp(a, g) = b
    BY DEF StartedApp, StartOnlineSession, b, e, c, w
<1> HIDE DEF b
<1>10. SameMembership(a, b)
    BY <1>2, <1>5, <1>7, <1>8, SameMembershipTrans
<1>11. a.index = 0 /\ a.screen = "waiting" => FreshDeck(b)
    <2> SUFFICES ASSUME a.index = 0, a.screen = "waiting" PROVE FreshDeck(b)
        OBVIOUS
    <2>1. w.index = 0 /\ c.screen = "waiting"
        BY <1>1, <1>4
    <2>2. c.index = 0 /\ InPlace(w.items, 0, c.visible)
        BY <1>1, <2>1, ReloadDataInPlace DEF c
    <2>3. e.screen = c.screen
        BY <1>5, DetachFields DEF e
    <2>4. SameCards(e, b)
        BY <1>7, <2>1, <2>3, DismissFields DEF b
    <2> QED BY <1>5, <1>7, <2>2, <2>4 DEF FreshDeck, SameCards
<1> QED BY <1>2, <1>5, <1>7, <1>8, <1>9, <1>10, <1>11 DEF SameListeners, SameCards

-----------------------------------------------------------------------------
(***************************************************************************)
(* What a step of device d does.                                           *)
(***************************************************************************)
Moves(d) == \A e \in Devices \ {d} :
               app'[e] = app[e] /\ requests'[e] = requests[e] /\ outbox'[e] = outbox[e]

\* ... when it neither asks nor sends anything.
MovesAlone(d) == /\ Moves(d) /\ groups' = groups
                 /\ requests'[d] = requests[d] /\ outbox'[d] = outbox[d]

LEMMA OneMoves ==
    ASSUME IInv, NEW d \in Devices, NEW a, NEW R, NEW q,
           app' = [app EXCEPT ![d] = a],
           requests' = [requests EXCEPT ![d] = R],
           outbox' = [outbox EXCEPT ![d] = q]
    PROVE  Moves(d) /\ app'[d] = a /\ requests'[d] = R /\ outbox'[d] = q
BY DEF IInv, Moves

LEMMA OnlyAppMoves ==
    ASSUME IInv, NEW d \in Devices, NEW a, OnlyApp(d, a)
    PROVE  MovesAlone(d) /\ app'[d] = a
BY DEF IInv, MovesAlone, Moves, OnlyApp, Become

Hears(a, role) == \E l \in Attached(a) : l.role = role

\* Steps that only change what is on the screen.
Idles(d) ==
    LET a == app[d]
        b == app'[d]
    IN
    /\ MovesAlone(d)
    /\ SameMembership(a, b) /\ SameRoles(a, b) /\ b.items = a.items
    /\ a.visible = <<>> => b.visible = <<>>
    /\ SameSwipes(a, b) \/ Swiping(d)
    /\ \/ b.screen = a.screen
       \/ a.screen = "connect" /\ b.screen = "code"
       \/ a.screen = "lobby" /\ b.screen = "settings"
       \/ a.screen = "cards" /\ b.screen = "list" /\ (a.isOn => Hears(a, "result"))
       \/ a.screen # "closed" /\ b.screen = "frozen" /\ Hears(a, "result")

Crashes(d) ==
    LET a == app[d]
        b == app'[d]
    IN
    /\ MovesAlone(d)
    /\ a.screen # "closed" /\ b.screen = "closed"
    /\ SameMembership(a, b) /\ SameRoles(a, b)
    /\ b.items = a.items \/ Hears(a, "wait")
    /\ b.localUserYesSwiped = a.localUserYesSwiped \/ Swiping(d)

LEMMA SameListenersRoles ==
    ASSUME NEW a, NEW b, SameListeners(a, b)
    PROVE  SameRoles(a, b)
BY DEF SameListeners, SameRoles

LEMMA ShowEffect ==
    ASSUME IInv, NEW d \in Devices, NEW s, OnlyApp(d, Show(app[d], s))
    PROVE  /\ MovesAlone(d) /\ app'[d].screen = s /\ SamePlay(app[d], app'[d])
           /\ SameRoles(app[d], app'[d])
<1>1. IsApp(app[d])
    BY Unchanged, SoundAppFields
<1> QED BY <1>1, ShowFields, OnlyAppMoves, SameListenersRoles DEF SamePlay

LEMMA ClosedIsShown == \A a : Closed(a) = Show(a, "closed")
BY DEF Closed, Show

LEMMA JoinPressedIdles ==
    ASSUME IInv, NEW d \in Devices, JoinPressed(d)
    PROVE  Idles(d)
<1>1. app[d].screen = "connect" /\ OnlyApp(d, Show(app[d], "code"))
    BY DEF JoinPressed
<1> QED BY <1>1, ShowEffect DEF Idles, SamePlay, SameSwipes, SameCards

LEMMA StartPressedIdles ==
    ASSUME IInv, NEW d \in Devices, StartPressed(d)
    PROVE  Idles(d)
<1>1. app[d].screen = "lobby" /\ OnlyApp(d, Show(app[d], "settings"))
    BY DEF StartPressed
<1> QED BY <1>1, ShowEffect DEF Idles, SamePlay, SameSwipes, SameCards

LEMMA KilledCrashes ==
    ASSUME IInv, NEW d \in Devices, Killed(d)
    PROVE  Crashes(d)
<1>1. app[d].screen # "closed" /\ Become(d, Closed(app[d])) /\ UNCHANGED <<groups, outbox, requests>>
    BY DEF Killed
<1>2. MovesAlone(d) /\ app'[d] = Show(app[d], "closed")
    BY <1>1, ClosedIsShown DEF IInv, MovesAlone, Moves, Become
<1>3. IsApp(app[d])
    BY Unchanged, SoundAppFields
<1>4. app'[d].screen = "closed" /\ SamePlay(app[d], app'[d])
    BY <1>2, <1>3, ShowFields
<1> QED BY <1>1, <1>2, <1>4, SameListenersRoles DEF Crashes, SamePlay, SameCards

LEMMA LobbySnapshotIdles ==
    ASSUME IInv, NEW d \in Devices, LobbySnapshot(d)
    PROVE  Idles(d)
<1>1. PICK l \in Attached(app[d]) : OnlyApp(d, Delivered(app[d], l, View(d, l.code)))
    BY DEF LobbySnapshot
<1>2. app[d] \in Apps /\ l.code \in Codes
    BY Unchanged, AttachedListeners DEF Listeners
<1>3. View(d, l.code) \in Groups \cup {Nil}
    BY <1>2, ViewDealt, DealtSubset
<1> HIDE DEF View
<1> QED BY <1>1, <1>2, <1>3, DeliveredFields, OnlyAppMoves DEF Idles, SameSwipes, SameCards

LEMMA SwipedActionFields ==
    ASSUME NEW a \in SoundApps, a.screen = "cards", ~IsRunOutOfCards(a), a.swiped = Nil
    PROVE  LET b == SwipedAction(a) IN
           /\ IsApp(b) /\ b.screen = a.screen /\ b.items = a.items /\ b.swiped = Nil
           /\ SameMembership(a, b) /\ SameListeners(a, b)
           /\ b.localUserYesSwiped = a.localUserYesSwiped
<1>1. a \in Apps /\ IsPile(a, Dinners) /\ Fits(a.items, a.index, a.visible) /\ a.visible # <<>>
    BY AppIsPile DEF SoundApps, IsRunOutOfCards
<1>2. Deals(a, Dinners, SwipedAction(a))
    BY <1>1, SwipedActionDeals
<1> QED BY <1>1, <1>2, SoundAppFields, DealtFields

LEMMA SwipeIdles ==
    ASSUME IInv, NEW d \in Devices, Swipe(d)
    PROVE  Idles(d)
<1> DEFINE b == SwipedAction(app[d])
<1>1. PICK s : OnlyApp(d, [b EXCEPT !.swiped = s])
    BY DEF Swipe
<1>2. /\ app[d].screen = "cards" /\ ~IsRunOutOfCards(app[d]) /\ app[d] \in SoundApps
      /\ app[d].swiped = Nil
    BY Unchanged DEF Swipe, MaySwipe, Settled
<1>3. /\ IsApp(b) /\ b.screen = app[d].screen /\ b.items = app[d].items
      /\ SameMembership(app[d], b) /\ SameListeners(app[d], b)
    BY <1>2, SwipedActionFields
<1> HIDE DEF b
<1>4. LET c == [b EXCEPT !.swiped = s] IN
      /\ c.screen = app[d].screen /\ c.items = app[d].items
      /\ SameMembership(app[d], c) /\ SameListeners(app[d], c)
    BY <1>3 DEF IsApp, AppFields, SameMembership, SameListeners
<1>5. app[d].visible # <<>>
    BY <1>2 DEF IsRunOutOfCards
<1> DEFINE c == [b EXCEPT !.swiped = s]
<1>6. MovesAlone(d) /\ app'[d] = c
    BY <1>1, OnlyAppMoves
<1>7. /\ c.screen = app[d].screen /\ c.items = app[d].items
      /\ SameMembership(app[d], c) /\ SameListeners(app[d], c)
    BY <1>4
<1> HIDE DEF c
<1>8. SameRoles(app[d], c) /\ Swiping(d)
    BY <1>2, <1>7, SameListenersRoles DEF Swiping
<1> QED BY <1>2, <1>5, <1>6, <1>7, <1>8 DEF Idles

LEMMA DidSwipeIdles ==
    ASSUME IInv, NEW d \in Devices, DidSwipe(d)
    PROVE  Idles(d)
<1> DEFINE s == app[d].swiped
           b == [app[d] EXCEPT !.swiped = Nil]
           c == Recorded(b, s.index, s.right)
<1>1. OnlyApp(d, c)
    BY DEF DidSwipe
<1>2. IsApp(app[d])
    BY Unchanged, SoundAppFields
<1>3. /\ IsApp(b) /\ b.screen = app[d].screen /\ b.items = app[d].items
      /\ b.visible = app[d].visible
      /\ SameMembership(app[d], b) /\ SameListeners(app[d], b)
    BY <1>2 DEF IsApp, AppFields, SameMembership, SameListeners
<1> HIDE DEF b
<1>4. /\ c.screen = app[d].screen /\ c.items = app[d].items /\ c.visible = app[d].visible
      /\ SameMembership(app[d], c) /\ SameListeners(app[d], c)
    BY <1>3, RecordedFields, SameMembershipTrans DEF SameCards, SameListeners
<1> HIDE DEF c
<1> QED BY <1>1, <1>4, OnlyAppMoves, SameListenersRoles DEF Idles, Swiping

\* The last card is gone and the app belongs to a group: the ballot and the
\* report that it is ready are sent, in this order.
RunsOut(d) ==
    LET a == app[d]
        b == app'[d]
        c == a.activeGroupId
    IN
    /\ Moves(d) /\ groups' = groups /\ requests'[d] = requests[d]
    /\ a.isOn /\ a.visible # <<>> /\ b.visible = <<>> /\ Swiping(d)
    /\ a.screen = "cards" /\ b.screen = "cards" /\ b.items = a.items
    /\ SameMembership(a, b)
    /\ a.groupId \in Codes /\ a.activeGroupId \in Codes /\ a.uniqueUserId \in UserIds
    /\ b.localUserYesSwiped \in DinnerLists
    /\ b.activeEventListener = [role |-> "result", code |-> c, seen |-> Nil]
    /\ b.leaked = Attached(a)
    /\ outbox'[d] = outbox[d] \o
          <<AddDinnerIdsToFirebase(a.groupId, a.uniqueUserId, b.localUserYesSwiped),
            MarkThisUserAsReady(c, ReadyIn(View(d, c)))>>

LEMMA SwipeLastEffect ==
    ASSUME IInv, NEW d \in Devices, SwipeLast(d)
    PROVE  Idles(d) \/ Crashes(d) \/ RunsOut(d)
<1>1. PICK right \in BOOLEAN :
          LET b == Recorded(SwipedAction(app[d]), app[d].index, right) IN
          /\ IsRunOutOfCards(b)
          /\ IF app[d].isOn THEN RunOutInGroup(d, b) ELSE RunOutAlone(d, b)
    BY DEF SwipeLast, Directions
<1>0. Swiping(d)
    BY DEF Swiping
<1>2. /\ app[d].screen = "cards" /\ ~IsRunOutOfCards(app[d]) /\ app[d] \in SoundApps
      /\ app[d].swiped = Nil
    BY Unchanged DEF SwipeLast, MaySwipe, Settled
<1> DEFINE c == SwipedAction(app[d])
           b == Recorded(c, app[d].index, right)
<1>3. /\ IsApp(c) /\ c.screen = app[d].screen /\ c.items = app[d].items
      /\ SameMembership(app[d], c) /\ SameListeners(app[d], c)
    BY <1>2, SwipedActionFields
<1>4. b \in Apps
    BY <1>2, SwipedSound, RecordedSound DEF SoundApps
<1>5. /\ b.visible = <<>>
      /\ IF app[d].isOn THEN RunOutInGroup(d, b) ELSE RunOutAlone(d, b)
    BY <1>1 DEF IsRunOutOfCards
<1> HIDE DEF c
<1>6. /\ IsApp(b) /\ b.screen = "cards" /\ b.items = app[d].items
      /\ SameMembership(app[d], b) /\ SameListeners(app[d], b)
    BY <1>2, <1>3, RecordedFields, SameMembershipTrans DEF SameCards, SameListeners
<1> HIDE DEF b
<1>7. ASSUME OnlyApp(d, Closed(b)) PROVE Crashes(d)
    <2>1. MovesAlone(d) /\ app'[d] = Show(b, "closed")
        BY <1>7, ClosedIsShown, OnlyAppMoves
    <2>2. app'[d].screen = "closed" /\ SamePlay(b, app'[d])
        BY <1>6, <2>1, ShowFields
    <2>3. SameMembership(app[d], app'[d]) /\ SameListeners(app[d], app'[d])
        BY <1>6, <2>2, SameMembershipTrans DEF SamePlay, SameListeners
    <2> QED BY <1>0, <1>2, <1>6, <2>1, <2>2, <2>3, SameListenersRoles DEF Crashes, SamePlay, SameCards
<1>8. CASE ~app[d].isOn
    <2>1. CASE OnlyApp(d, [Present(b, "list") EXCEPT !.dinnerList = b.wantedDinnersId])
        <3> DEFINE p == Show(b, "list")
                   n == [p EXCEPT !.dinnerList = b.wantedDinnersId]
        <3>1. MovesAlone(d) /\ app'[d] = n
            BY <1>6, <2>1, OnlyAppMoves DEF Present
        <3>2. IsApp(p) /\ p.screen = "list" /\ SamePlay(b, p)
            BY <1>6, ShowFields
        <3> HIDE DEF p
        <3>3. n.screen = "list" /\ SamePlay(p, n)
            BY <3>2 DEF IsApp, AppFields, SamePlay, SameMembership, SameListeners, SameCards
        <3>4. SameMembership(app[d], n) /\ SameListeners(app[d], n)
              /\ n.items = app[d].items /\ n.visible = <<>>
            BY <1>5, <1>6, <3>2, <3>3, SameMembershipTrans DEF SamePlay, SameListeners, SameCards
        <3> HIDE DEF n
        <3> QED BY <1>0, <1>2, <1>8, <3>1, <3>3, <3>4, SameListenersRoles DEF Idles
    <2>2. CASE OnlyApp(d, Closed(b))
        BY <1>7, <2>2
    <2> QED BY <1>5, <1>8, <2>1, <2>2 DEF RunOutAlone
<1>9. CASE app[d].isOn
    <2>1. CASE OnlyApp(d, Closed(b))
        BY <1>7, <2>1
    <2>2. CASE /\ HasGroup(b)
               /\ Send(d, RunOutWrites(d, b))
               /\ Become(d, InitiateEventListenerFor(b, "result", b.activeGroupId))
               /\ UNCHANGED <<groups, requests, failures, kills>>
        <3> DEFINE n == InitiateEventListenerFor(b, "result", b.activeGroupId)
                   q == outbox[d] \o RunOutWrites(d, b)
        <3>1. Moves(d) /\ app'[d] = n /\ requests'[d] = requests[d] /\ outbox'[d] = q
            <4>1. /\ app' = [app EXCEPT ![d] = n]
                  /\ requests' = [requests EXCEPT ![d] = requests[d]]
                  /\ outbox' = [outbox EXCEPT ![d] = q]
                BY <2>2, Unchanged DEF Become, Send
            <4> HIDE DEF n, q
            <4> QED BY <4>1, OneMoves
        <3>2. /\ IsApp(n) /\ n.screen = b.screen
              /\ n.activeEventListener = [role |-> "result", code |-> b.activeGroupId, seen |-> Nil]
              /\ n.leaked = Attached(b)
              /\ SameMembership(b, n) /\ SameCards(b, n)
              /\ n.localUserYesSwiped = b.localUserYesSwiped
            BY <1>6, ListensFields
        <3> HIDE DEF n
        <3>3. /\ b.groupId \in Codes /\ b.activeGroupId \in Codes /\ b.uniqueUserId \in UserIds
              /\ b.localUserYesSwiped \in DinnerLists
            BY <1>4, <2>2 DEF HasGroup, Apps
        <3>4. /\ b.groupId = app[d].groupId /\ b.activeGroupId = app[d].activeGroupId
              /\ b.uniqueUserId = app[d].uniqueUserId /\ Attached(b) = Attached(app[d])
            BY <1>6 DEF SameMembership, SameListeners, Attached
        <3>5. q = outbox[d] \o
                    <<AddDinnerIdsToFirebase(app[d].groupId, app[d].uniqueUserId,
                                             n.localUserYesSwiped),
                      MarkThisUserAsReady(app[d].activeGroupId,
                                          ReadyIn(View(d, app[d].activeGroupId)))>>
            BY <3>2, <3>4 DEF RunOutWrites, Ballot, Ready
        <3>6. SameMembership(app[d], n)
            BY <1>6, <3>2, SameMembershipTrans
        <3>7. n.visible = <<>> /\ n.items = app[d].items /\ app[d].visible # <<>>
            BY <1>2, <1>5, <1>6, <3>2 DEF SameCards, IsRunOutOfCards
        <3> HIDE DEF q
        <3> QED BY <1>0, <1>2, <1>6, <1>9, <2>2, <3>1, <3>2, <3>3, <3>4, <3>5, <3>6, <3>7 DEF RunsOut
    <2> QED BY <1>5, <1>9, <2>1, <2>2 DEF RunOutInGroup
<1> QED BY <1>8, <1>9

\* The joiner's callback when the host has started the session.
Starts(d) ==
    \E l \in Attached(app[d]) :
        LET a == app[d]
            b == app'[d]
            g == View(d, l.code)
        IN
        /\ MovesAlone(d)
        /\ l.role = "wait" /\ a.screen \notin {"frozen", "closed"}
        /\ g # Nil /\ g.swipingSessionRunning
        /\ b.screen = "cards" /\ b.items = g.dinnerIdsForCardView /\ b.swiped = a.swiped
        /\ a.index = 0 /\ a.screen = "waiting" => FreshDeck(b)
        /\ SameMembership(a, b) /\ b.localUserYesSwiped = a.localUserYesSwiped
        /\ b.activeEventListener = Nil
        /\ \A m \in b.leaked : \E k \in a.leaked : k.role = m.role /\ k.code = m.code

LEMMA WaitSnapshotEffect ==
    ASSUME IInv, NEW d \in Devices, WaitSnapshot(d)
    PROVE  Idles(d) \/ Crashes(d) \/ Starts(d)
<1>1. PICK l \in Attached(app[d]) :
          LET g == View(d, l.code)
              a == Delivered(app[d], l, g)
              b == WithSessionDeck(a, g)
          IN  /\ l.role = "wait" /\ Alive(d)
              /\ \/ OnlyApp(d, a)
                 \/ /\ g # Nil /\ g.swipingSessionRunning /\ ~ReloadFails(b)
                    /\ OnlyApp(d, StartedApp(a, g))
                 \/ g # Nil /\ OnlyApp(d, Closed(b))
    BY DEF WaitSnapshot, Changed, StartedApp
<1> DEFINE g == View(d, l.code)
           a == Delivered(app[d], l, g)
           b == WithSessionDeck(a, g)
<1>2. /\ g \in DealtGroups \cup {Nil}
      /\ a \in SoundApps /\ a.screen = app[d].screen /\ a.screen # "closed"
    BY <1>1, SnapshotSound
<1>3. /\ IsApp(a) /\ SameMembership(app[d], a) /\ SameCards(app[d], a)
      /\ a.localUserYesSwiped = app[d].localUserYesSwiped /\ SameRoles(app[d], a)
    <2>1. app[d] \in Apps /\ g \in Groups \cup {Nil}
        BY <1>2, Unchanged, DealtSubset
    <2> HIDE DEF g
    <2> QED BY <1>1, <2>1, DeliveredFields
<1>4. /\ l.role = "wait" /\ app[d].screen \notin {"frozen", "closed"}
      /\ \/ OnlyApp(d, a)
         \/ /\ g # Nil /\ g.swipingSessionRunning /\ ~ReloadFails(b)
            /\ OnlyApp(d, StartedApp(a, g))
         \/ g # Nil /\ OnlyApp(d, Closed(b))
    BY <1>1 DEF Alive
<1> HIDE DEF a
<1>5. CASE OnlyApp(d, a)
    BY <1>2, <1>3, <1>5, OnlyAppMoves DEF Idles, SameSwipes, SameCards
<1>6. CASE /\ g # Nil /\ g.swipingSessionRunning /\ ~ReloadFails(b)
           /\ OnlyApp(d, StartedApp(a, g))
    <2>1. g \in DealtGroups
        BY <1>2, <1>6
    <2> DEFINE n == StartedApp(a, g)
    <2> HIDE DEF g
    <2>2. /\ n.screen = "cards" /\ n.items = g.dinnerIdsForCardView /\ n.swiped = a.swiped
          /\ a.index = 0 /\ a.screen = "waiting" => FreshDeck(n)
          /\ n.activeEventListener = Nil /\ n.leaked = a.leaked
          /\ SameMembership(a, n)
          /\ n.localUserYesSwiped = a.localUserYesSwiped
        BY <1>2, <1>6, <2>1, StartedFields
    <2>3. MovesAlone(d) /\ app'[d] = n
        BY <1>6, OnlyAppMoves
    <2> HIDE DEF n, b
    <2>4. SameMembership(app[d], n)
        BY <1>3, <2>2, SameMembershipTrans
    <2>5. \A m \in n.leaked : \E k \in app[d].leaked : k.role = m.role /\ k.code = m.code
        BY <1>3, <2>2 DEF SameRoles
    <2>6. /\ n.localUserYesSwiped = app[d].localUserYesSwiped /\ n.swiped = app[d].swiped
          /\ app[d].index = 0 /\ app[d].screen = "waiting" => FreshDeck(n)
        BY <1>2, <1>3, <2>2 DEF SameCards
    <2> QED BY <1>4, <1>6, <2>2, <2>3, <2>4, <2>5, <2>6 DEF Starts, g
<1>7. CASE OnlyApp(d, Closed(b))
    <2>1. /\ IsApp(b) /\ SameMembership(a, b) /\ SameListeners(a, b)
          /\ b.localUserYesSwiped = a.localUserYesSwiped
        BY <1>3, SessionDeckFields
    <2> HIDE DEF b
    <2>2. MovesAlone(d) /\ app'[d] = Show(b, "closed")
        BY <1>7, ClosedIsShown, OnlyAppMoves
    <2>3. app'[d].screen = "closed" /\ SamePlay(b, app'[d])
        BY <2>1, <2>2, ShowFields
    <2>4. SameMembership(app[d], app'[d])
        BY <1>3, <2>1, <2>3, SameMembershipTrans DEF SamePlay
    <2>5. SameRoles(app[d], app'[d])
        BY <1>3, <2>1, <2>3 DEF SamePlay, SameRoles, SameListeners
    <2>6. app'[d].localUserYesSwiped = app[d].localUserYesSwiped
        BY <1>3, <2>1, <2>3 DEF SamePlay
    <2> QED BY <1>4, <2>2, <2>3, <2>4, <2>5, <2>6 DEF Crashes, Hears
<1> QED BY <1>4, <1>5, <1>6, <1>7

LEMMA ResultSnapshotIdles ==
    ASSUME IInv, NEW d \in Devices, ResultSnapshot(d)
    PROVE  Idles(d)
<1>1. PICK l \in Attached(app[d]) :
          LET g == View(d, l.code)
              a == Delivered(app[d], l, g)
          IN  /\ l.role = "result" /\ Alive(d)
              /\ \/ OnlyApp(d, a)
                 \/ /\ a.screen = "cards"
                    /\ OnlyApp(d, Present([a EXCEPT !.dinnerList = Winners(g)], "list"))
                 \/ OnlyApp(d, Show(a, "frozen"))
    BY DEF ResultSnapshot, Changed
<1> DEFINE g == View(d, l.code)
           a == Delivered(app[d], l, g)
           b == [a EXCEPT !.dinnerList = Winners(g)]
<1>2. app[d] \in Apps /\ l.code \in Codes
    BY Unchanged, AttachedListeners DEF Listeners
<1>3. g \in Groups \cup {Nil}
    BY <1>2, ViewDealt, DealtSubset
<1>4. /\ \/ OnlyApp(d, a)
         \/ a.screen = "cards" /\ OnlyApp(d, Present(b, "list"))
         \/ OnlyApp(d, Show(a, "frozen"))
      /\ Hears(app[d], "result") /\ app[d].screen # "closed"
    BY <1>1 DEF Hears, Alive
<1> HIDE DEF g
<1>5. /\ IsApp(a) /\ SameMembership(app[d], a) /\ SameCards(app[d], a)
      /\ SameRoles(app[d], a) /\ a.screen = app[d].screen
      /\ a.localUserYesSwiped = app[d].localUserYesSwiped
    BY <1>2, <1>3, DeliveredFields
<1> HIDE DEF a
<1>6. CASE OnlyApp(d, a)
    BY <1>5, <1>6, OnlyAppMoves DEF Idles, SameSwipes, SameCards
<1>7. ASSUME NEW n, IsApp(n), SamePlay(a, n), NEW s, OnlyApp(d, Show(n, s))
      PROVE  /\ MovesAlone(d) /\ app'[d].screen = s
             /\ SameMembership(app[d], app'[d]) /\ SameRoles(app[d], app'[d])
             /\ SameSwipes(app[d], app'[d])
    <2>1. MovesAlone(d) /\ app'[d] = Show(n, s)
        BY <1>7, OnlyAppMoves
    <2>2. app'[d].screen = s /\ SamePlay(n, app'[d])
        BY <1>7, <2>1, ShowFields
    <2>3. SameMembership(app[d], app'[d])
        BY <1>5, <1>7, <2>2, SameMembershipTrans DEF SamePlay
    <2> QED BY <1>5, <1>7, <2>1, <2>2, <2>3 DEF SamePlay, SameRoles, SameListeners, SameSwipes, SameCards
<1>8. CASE a.screen = "cards" /\ OnlyApp(d, Present(b, "list"))
    <2>1. IsApp(b) /\ SamePlay(a, b) /\ b.screen = "cards"
        BY <1>5, <1>8 DEF IsApp, AppFields, SamePlay, SameMembership, SameListeners, SameCards
    <2> HIDE DEF b
    <2> QED BY <1>4, <1>5, <1>7, <1>8, <2>1 DEF Idles, Present, SameSwipes, SameCards
<1>9. CASE OnlyApp(d, Show(a, "frozen"))
    <2>1. SamePlay(a, a)
        BY DEF SamePlay, SameMembership, SameListeners, SameCards
    <2> QED BY <1>4, <1>5, <1>7, <1>9, <2>1 DEF Idles, SameSwipes, SameCards
<1> QED BY <1>4, <1>6, <1>8, <1>9

\* The switch goes on; the alert asks whether to create or to join.
SwitchesOn(d) ==
    LET a == app[d]
        b == app'[d]
    IN
    /\ MovesAlone(d) /\ SameListeners(a, b) /\ SameCards(a, b)
    /\ a.screen = "cards" /\ ~a.isOn /\ a.swiped = Nil /\ Entering(requests[d]) = {}
    /\ b.screen = "connect" /\ b.isOn
    /\ b.groupId = a.groupId /\ b.activeGroupId = a.activeGroupId
    /\ b.isInOnlineSession = a.isInOnlineSession /\ b.session = a.session
    /\ b.uniqueUserId = a.uniqueUserId /\ b.client = a.client
    /\ b.localUserYesSwiped = a.localUserYesSwiped

\* A request to enter a group, and what it does to the client.
Asks(d, screen, r, client) ==
    LET a == app[d]
        b == app'[d]
    IN
    /\ Moves(d) /\ groups' = groups /\ requests'[d] = requests[d] \cup {r}
    /\ SameListeners(a, b) /\ SameCards(a, b)
    /\ a.screen = screen /\ b.screen = "cards" /\ b.client = client
    /\ b.isOn = a.isOn /\ b.groupId = a.groupId /\ b.activeGroupId = a.activeGroupId
    /\ b.isInOnlineSession = a.isInOnlineSession /\ b.session = a.session
    /\ b.uniqueUserId = a.uniqueUserId /\ b.localUserYesSwiped = a.localUserYesSwiped

AsksToJoin(d) ==
    /\ \E c \in TypedCodes :
          Asks(d, "code", [kind |-> "join", code |-> c],
               IF app[d].client = "idle" THEN "persistent" ELSE app[d].client)
    /\ outbox'[d] = outbox[d]

AsksToCreate(d) ==
    /\ d \in Hosts /\ app[d].client # "persistent"
    /\ Asks(d, "connect", [kind |-> "create"], "memory")
    /\ outbox'[d] = IF app[d].client = "idle" THEN <<>> ELSE outbox[d]

LEMMA SwitchedOnEffect ==
    ASSUME IInv, NEW d \in Devices, SwitchedOn(d)
    PROVE  SwitchesOn(d)
<1> DEFINE b == [app[d] EXCEPT !.isOn = TRUE]
<1>1. /\ app[d].screen = "cards" /\ ~app[d].isOn /\ app[d].swiped = Nil /\ MayEnter(d)
      /\ OnlyApp(d, Show(b, "connect"))
    BY DEF SwitchedOn, Settled
<1>2. IsApp(app[d])
    BY Unchanged, SoundAppFields
<1>3. /\ IsApp(b) /\ b.isOn /\ SameListeners(app[d], b) /\ SameCards(app[d], b)
      /\ b.groupId = app[d].groupId /\ b.activeGroupId = app[d].activeGroupId
      /\ b.isInOnlineSession = app[d].isInOnlineSession /\ b.session = app[d].session
      /\ b.uniqueUserId = app[d].uniqueUserId /\ b.client = app[d].client
      /\ b.localUserYesSwiped = app[d].localUserYesSwiped
    BY <1>2, SwitchFields
<1> HIDE DEF b
<1>4. MovesAlone(d) /\ app'[d] = Show(b, "connect")
    BY <1>1, OnlyAppMoves
<1>5. app'[d].screen = "connect" /\ SamePlay(b, app'[d])
    BY <1>3, <1>4, ShowFields
<1>6. Entering(requests[d]) = {}
    BY <1>1 DEF MayEnter, Entering
<1> QED BY <1>1, <1>3, <1>4, <1>5, <1>6
        DEF SwitchesOn, SamePlay, SameMembership, SameListeners, SameCards

\* The app with another client.
LEMMA ClientFields ==
    ASSUME NEW a, IsApp(a), NEW client
    PROVE  LET b == Show([a EXCEPT !.client = client], "cards") IN
           /\ b.screen = "cards" /\ b.client = client
           /\ SameListeners(a, b) /\ SameCards(a, b)
           /\ b.isOn = a.isOn /\ b.groupId = a.groupId /\ b.activeGroupId = a.activeGroupId
           /\ b.isInOnlineSession = a.isInOnlineSession /\ b.session = a.session
           /\ b.uniqueUserId = a.uniqueUserId /\ b.localUserYesSwiped = a.localUserYesSwiped
BY DEF Show, IsApp, AppFields, SameListeners, SameCards

LEMMA CodeEnteredEffect ==
    ASSUME IInv, NEW d \in Devices, CodeEntered(d)
    PROVE  AsksToJoin(d)
<1> DEFINE client == IF app[d].client = "idle" THEN "persistent" ELSE app[d].client
           b == Show([app[d] EXCEPT !.client = client], "cards")
<1>1. PICK c \in TypedCodes :
          /\ app[d].screen = "code"
          /\ Ask(d, [kind |-> "join", code |-> c]) /\ Become(d, b)
          /\ UNCHANGED <<groups, outbox, failures, kills>>
    BY DEF CodeEntered
<1> DEFINE R == requests[d] \cup {[kind |-> "join", code |-> c]}
<1>2. /\ app' = [app EXCEPT ![d] = b] /\ requests' = [requests EXCEPT ![d] = R]
      /\ outbox' = [outbox EXCEPT ![d] = outbox[d]] /\ groups' = groups
    BY <1>1, Unchanged DEF Ask, Become
<1>3. IsApp(app[d])
    BY Unchanged, SoundAppFields
<1>4. /\ b.screen = "cards" /\ b.client = client
      /\ SameListeners(app[d], b) /\ SameCards(app[d], b)
      /\ b.isOn = app[d].isOn /\ b.groupId = app[d].groupId
      /\ b.activeGroupId = app[d].activeGroupId
      /\ b.isInOnlineSession = app[d].isInOnlineSession /\ b.session = app[d].session
      /\ b.uniqueUserId = app[d].uniqueUserId
      /\ b.localUserYesSwiped = app[d].localUserYesSwiped
    BY <1>3, ClientFields
<1> HIDE DEF b, R
<1>5. Moves(d) /\ app'[d] = b /\ requests'[d] = R /\ outbox'[d] = outbox[d]
    BY <1>2, OneMoves
<1>6. Asks(d, "code", [kind |-> "join", code |-> c], client)
    BY <1>1, <1>2, <1>4, <1>5 DEF Asks, R
<1> QED BY <1>5, <1>6 DEF AsksToJoin

LEMMA CreatePressedEffect ==
    ASSUME IInv, NEW d \in Devices, CreatePressed(d)
    PROVE  Crashes(d) \/ AsksToCreate(d)
<1>0. IsApp(app[d]) /\ app[d].screen = "connect" /\ d \in Hosts
    BY Unchanged, SoundAppFields DEF CreatePressed
<1>1. CASE OnlyApp(d, Closed(app[d]))
    BY <1>0, <1>1, ClosedIsShown, ShowEffect DEF Crashes, SamePlay, SameCards
<1>2. CASE /\ app[d].client # "persistent"
           /\ Ask(d, [kind |-> "create"])
           /\ Become(d, Show([app[d] EXCEPT !.client = "memory"], "cards"))
           /\ outbox' = [outbox EXCEPT ![d] = IF app[d].client = "idle" THEN <<>> ELSE @]
           /\ UNCHANGED <<groups, failures, kills>>
    <2> DEFINE b == Show([app[d] EXCEPT !.client = "memory"], "cards")
               R == requests[d] \cup {[kind |-> "create"]}
               q == IF app[d].client = "idle" THEN <<>> ELSE outbox[d]
    <2>1. /\ app' = [app EXCEPT ![d] = b] /\ requests' = [requests EXCEPT ![d] = R]
          /\ outbox' = [outbox EXCEPT ![d] = q] /\ groups' = groups
        BY <1>2, Unchanged DEF Ask, Become
    <2>2. /\ b.screen = "cards" /\ b.client = "memory"
          /\ SameListeners(app[d], b) /\ SameCards(app[d], b)
          /\ b.isOn = app[d].isOn /\ b.groupId = app[d].groupId
          /\ b.activeGroupId = app[d].activeGroupId
          /\ b.isInOnlineSession = app[d].isInOnlineSession /\ b.session = app[d].session
          /\ b.uniqueUserId = app[d].uniqueUserId
          /\ b.localUserYesSwiped = app[d].localUserYesSwiped
        BY <1>0, ClientFields
    <2> HIDE DEF b, R, q
    <2>3. Moves(d) /\ app'[d] = b /\ requests'[d] = R /\ outbox'[d] = q
        BY <2>1, OneMoves
    <2>4. Asks(d, "connect", [kind |-> "create"], "memory")
        BY <1>0, <2>1, <2>2, <2>3 DEF Asks, R
    <2> QED BY <1>0, <1>2, <2>3, <2>4 DEF AsksToCreate, q
<1> QED BY <1>1, <1>2 DEF CreatePressed

\* The answer to the request r of a device that is trying to enter a group.
Answers(d, r) ==
    /\ r \in requests[d] /\ requests'[d] = requests[d] \ {r}
    /\ Moves(d) /\ groups' = groups /\ Alive(d)

Joins(d) == \E r \in requests[d] :
    LET a == app[d]
        b == app'[d]
        c == r.code
    IN
    /\ Answers(d, r) /\ r.kind = "join" /\ c \in Codes
    /\ \/ app'[d] = app[d] /\ outbox'[d] = outbox[d]
       \/ /\ View(d, c) # Nil
          /\ outbox'[d] = outbox[d] \o <<AddOneParticipant(c, ParticipantsIn(View(d, c)))>>
          /\ SameCards(a, b) /\ b.localUserYesSwiped = a.localUserYesSwiped
          /\ b.isOn = a.isOn /\ b.client = a.client
          /\ b.screen = IF a.screen = "cards" THEN "waiting" ELSE a.screen
          /\ b.groupId = c /\ b.activeGroupId = c /\ b.isInOnlineSession
          /\ b.session = a.session + 1 /\ b.uniqueUserId = <<d, a.session + 1>>
          /\ b.activeEventListener = [role |-> "wait", code |-> c, seen |-> Nil]
          /\ b.leaked = Attached(a)

LEMMA JoinAnsweredEffect ==
    ASSUME IInv, NEW d \in Devices, JoinAnswered(d)
    PROVE  Joins(d)
<1>1. PICK r \in requests[d] :
          /\ r.kind = "join" /\ Alive(d)
          /\ requests' = [requests EXCEPT ![d] = @ \ {r}]
          /\ \/ /\ View(d, r.code) # Nil
                /\ Send(d, <<JoinWrite(d, r.code)>>)
                /\ Become(d, PrepareForOnlineSession(app[d], d, r.code))
             \/ /\ View(d, r.code) = Nil
                /\ UNCHANGED <<outbox, app>>
          /\ UNCHANGED <<groups, failures, kills>>
    BY DEF JoinAnswered
<1>2. IsApp(app[d]) /\ r.code \in Codes
    BY <1>1, Unchanged, SoundAppFields, RequestFields
<1>3. CASE UNCHANGED <<outbox, app>>
    <2>1. Answers(d, r) /\ app'[d] = app[d] /\ outbox'[d] = outbox[d]
        BY <1>1, <1>3 DEF IInv, Answers, Moves
    <2> QED BY <1>1, <1>2, <2>1 DEF Joins
<1>4. CASE /\ View(d, r.code) # Nil
           /\ Send(d, <<JoinWrite(d, r.code)>>)
           /\ Become(d, PrepareForOnlineSession(app[d], d, r.code))
    <2> DEFINE b == PrepareForOnlineSession(app[d], d, r.code)
               q == outbox[d] \o <<JoinWrite(d, r.code)>>
               R == requests[d] \ {r}
    <2>1. /\ app' = [app EXCEPT ![d] = b] /\ requests' = [requests EXCEPT ![d] = R]
          /\ outbox' = [outbox EXCEPT ![d] = q] /\ groups' = groups
        BY <1>1, <1>4 DEF Send, Become
    <2>2. /\ b.isOn = app[d].isOn /\ b.client = app[d].client
          /\ b.screen = IF app[d].screen = "cards" THEN "waiting" ELSE app[d].screen
          /\ b.groupId = r.code /\ b.activeGroupId = r.code /\ b.isInOnlineSession
          /\ b.session = app[d].session + 1 /\ b.uniqueUserId = <<d, app[d].session + 1>>
          /\ b.activeEventListener = [role |-> "wait", code |-> r.code, seen |-> Nil]
          /\ b.leaked = Attached(app[d])
          /\ SameCards(app[d], b) /\ b.localUserYesSwiped = app[d].localUserYesSwiped
        BY <1>2, PreparedFields
    <2> HIDE DEF b, q, R
    <2>3. Moves(d) /\ app'[d] = b /\ requests'[d] = R /\ outbox'[d] = q
        BY <2>1, OneMoves
    <2>4. Answers(d, r)
        BY <1>1, <2>1, <2>3 DEF Answers, R
    <2> QED BY <1>1, <1>2, <1>4, <2>2, <2>3, <2>4 DEF Joins, JoinWrite, q
<1> QED BY <1>1, <1>3, <1>4

\* The group the new host gets, or none.
Creates(d) == \E r \in requests[d] :
    LET a == app[d]
        b == app'[d]
    IN
    /\ Answers(d, r) /\ r.kind = "create"
    /\ SameCards(a, b) /\ b.localUserYesSwiped = a.localUserYesSwiped
    /\ b.client = a.client
    /\ \/ /\ outbox'[d] = outbox[d]
          /\ b.leaked = a.leaked /\ b.activeEventListener \in {Nil, a.activeEventListener}
          /\ b.screen \in {a.screen, "frozen"}
          /\ b.groupId = a.groupId /\ b.activeGroupId = a.activeGroupId
          /\ b.isInOnlineSession = a.isInOnlineSession /\ b.session = a.session
          /\ b.uniqueUserId = a.uniqueUserId
       \/ \E c \in Codes :
             /\ View(d, c) = Nil
             /\ outbox'[d] = outbox[d] \o <<SetData(c, NewGroup)>>
             /\ b.screen = IF a.screen = "cards" THEN "lobby" ELSE a.screen
             /\ b.isOn = a.isOn /\ b.groupId = c /\ b.activeGroupId = c
             /\ b.isInOnlineSession = a.isInOnlineSession
             /\ b.session = a.session + 1 /\ b.uniqueUserId = <<d, a.session + 1>>
             /\ b.activeEventListener = [role |-> "lobby", code |-> c, seen |-> Nil]
             /\ b.leaked = Attached(a)

LEMMA ConnectionErrorFields ==
    ASSUME NEW a, IsApp(a)
    PROVE  LET b == ConnectionError(a) IN
           /\ b.screen = a.screen /\ ~b.isOn /\ SameCards(a, b)
           /\ b.leaked = a.leaked /\ b.activeEventListener = Nil
           /\ b.localUserYesSwiped = a.localUserYesSwiped /\ b.client = a.client
           /\ b.groupId = a.groupId /\ b.activeGroupId = a.activeGroupId
           /\ b.isInOnlineSession = a.isInOnlineSession /\ b.session = a.session
           /\ b.uniqueUserId = a.uniqueUserId
<1> DEFINE c == DetachEventListener(a)
<1>1. /\ IsApp(c) /\ c.activeEventListener = Nil /\ c.leaked = a.leaked
      /\ c.screen = a.screen
      /\ SameMembership(a, c) /\ SameCards(a, c)
      /\ c.localUserYesSwiped = a.localUserYesSwiped
    BY DetachFields
<1>2. ConnectionError(a) = [c EXCEPT !.isOn = FALSE]
    BY DEF ConnectionError
<1> HIDE DEF c
<1> QED BY <1>1, <1>2, SwitchFields DEF SameMembership, SameListeners, SameCards

LEMMA CreateAnsweredEffect ==
    ASSUME IInv, NEW d \in Devices, CreateAnswered(d)
    PROVE  Creates(d)
<1>1. PICK r \in requests[d] :
          /\ r.kind = "create" /\ Alive(d)
          /\ requests' = [requests EXCEPT ![d] = @ \ {r}]
          /\ \/ Become(d, ConnectionError(app[d])) /\ UNCHANGED outbox
             \/ Become(d, Show(app[d], "frozen")) /\ UNCHANGED outbox
             \/ \E c \in Codes \ UsedIds(d) :
                    Send(d, <<SetData(c, NewGroup)>>) /\ Become(d, CreatedApp(app[d], d, c))
          /\ UNCHANGED <<groups, failures, kills>>
    BY DEF CreateAnswered, CheckForMachInIds, CreatedApp
<1>2. IsApp(app[d])
    BY Unchanged, SoundAppFields
<1>3. ASSUME NEW b, NEW q, Become(d, b), outbox' = [outbox EXCEPT ![d] = q]
      PROVE  Answers(d, r) /\ app'[d] = b /\ outbox'[d] = q
    <2> DEFINE R == requests[d] \ {r}
    <2>1. /\ app' = [app EXCEPT ![d] = b] /\ requests' = [requests EXCEPT ![d] = R]
        BY <1>1, <1>3 DEF Become
    <2> HIDE DEF R
    <2>2. Moves(d) /\ app'[d] = b /\ requests'[d] = R /\ outbox'[d] = q
        BY <1>3, <2>1, OneMoves
    <2> QED BY <1>1, <2>2 DEF Answers, R
<1>4. CASE Become(d, ConnectionError(app[d])) /\ UNCHANGED outbox
    <2> DEFINE b == ConnectionError(app[d])
    <2>1. /\ b.screen = app[d].screen /\ SameCards(app[d], b)
          /\ b.leaked = app[d].leaked /\ b.activeEventListener = Nil
          /\ b.localUserYesSwiped = app[d].localUserYesSwiped /\ b.client = app[d].client
          /\ b.groupId = app[d].groupId /\ b.activeGroupId = app[d].activeGroupId
          /\ b.isInOnlineSession = app[d].isInOnlineSession /\ b.session = app[d].session
          /\ b.uniqueUserId = app[d].uniqueUserId
        BY <1>2, ConnectionErrorFields
    <2> HIDE DEF b
    <2>2. Become(d, b) /\ outbox' = [outbox EXCEPT ![d] = outbox[d]]
        BY <1>4, Unchanged DEF b
    <2> QED BY <1>1, <1>3, <2>1, <2>2 DEF Creates
<1>5. CASE Become(d, Show(app[d], "frozen")) /\ UNCHANGED outbox
    <2> DEFINE b == Show(app[d], "frozen")
    <2>1. b.screen = "frozen" /\ SamePlay(app[d], b)
        BY <1>2, ShowFields
    <2> HIDE DEF b
    <2>2. Become(d, b) /\ outbox' = [outbox EXCEPT ![d] = outbox[d]]
        BY <1>5, Unchanged DEF b
    <2> QED BY <1>1, <1>3, <2>1, <2>2
            DEF Creates, SamePlay, SameMembership, SameListeners
<1>6. ASSUME NEW c \in Codes \ UsedIds(d),
             Send(d, <<SetData(c, NewGroup)>>), Become(d, CreatedApp(app[d], d, c))
      PROVE  Creates(d)
    <2> DEFINE b == CreatedApp(app[d], d, c)
               q == outbox[d] \o <<SetData(c, NewGroup)>>
    <2>1. /\ b.isOn = app[d].isOn /\ b.client = app[d].client
          /\ b.screen = IF app[d].screen = "cards" THEN "lobby" ELSE app[d].screen
          /\ b.groupId = c /\ b.activeGroupId = c
          /\ b.isInOnlineSession = app[d].isInOnlineSession
          /\ b.session = app[d].session + 1 /\ b.uniqueUserId = <<d, app[d].session + 1>>
          /\ b.activeEventListener = [role |-> "lobby", code |-> c, seen |-> Nil]
          /\ b.leaked = Attached(app[d])
          /\ SameCards(app[d], b) /\ b.localUserYesSwiped = app[d].localUserYesSwiped
        BY <1>2, CreatedFields
    <2>2. Become(d, b) /\ outbox' = [outbox EXCEPT ![d] = q]
        BY <1>6 DEF Send
    <2>3. View(d, c) = Nil
        BY DEF UsedIds
    <2> HIDE DEF b, q
    <2>4. Answers(d, r) /\ app'[d] = b /\ outbox'[d] = q
        BY <1>3, <2>2
    <2> QED BY <1>1, <2>1, <2>3, <2>4 DEF Creates, q
<1> QED BY <1>1, <1>4, <1>5, <1>6

\* The host has drawn the deck and asks for the group's document.
DealsDeck(d) == \E deck \in HostDecks :
    LET a == app[d]
        b == app'[d]
    IN
    /\ Moves(d) /\ groups' = groups /\ outbox'[d] = outbox[d]
    /\ SameMembership(a, b) /\ SameListeners(a, b)
    /\ b.localUserYesSwiped = a.localUserYesSwiped
    /\ a.screen = "settings" /\ b.screen = "cards" /\ b.items = deck
    /\ b.swiped = Nil /\ FreshDeck(b)
    /\ requests'[d] =
          IF a.activeGroupId = Nil THEN requests[d]
          ELSE requests[d] \cup {[kind |-> "start", code |-> a.activeGroupId, deck |-> deck]}

StartsGroup(d) == \E r \in requests[d] :
    LET a == app[d]
        b == app'[d]
        g == View(d, r.code)
    IN
    /\ Answers(d, r) /\ r.kind = "start" /\ r.code \in Codes /\ r.deck \in HostDecks
    /\ \/ app'[d] = app[d] /\ outbox'[d] = outbox[d]
       \/ /\ g # Nil
          /\ outbox'[d] = outbox[d] \o <<SetData(r.code, StartedGroup(g, r.deck))>>
          /\ SameListeners(a, b) /\ SameCards(a, b)
          /\ b.localUserYesSwiped = a.localUserYesSwiped
          /\ b.screen = a.screen /\ b.isInOnlineSession
          /\ b.isOn = a.isOn /\ b.groupId = a.groupId /\ b.activeGroupId = a.activeGroupId
          /\ b.session = a.session /\ b.uniqueUserId = a.uniqueUserId /\ b.client = a.client

LosesRequest(d) == \E r \in requests[d] :
    LET a == app[d]
        b == app'[d]
    IN
    /\ Answers(d, r) /\ outbox'[d] = outbox[d]
    /\ \/ r.kind \notin {"create", "join"} /\ app'[d] = app[d]
       \/ /\ r.kind \in {"create", "join"}
          /\ SameCards(a, b) /\ b.localUserYesSwiped = a.localUserYesSwiped
          /\ b.leaked = a.leaked /\ b.activeEventListener = Nil
          /\ b.screen = a.screen /\ ~b.isOn
          /\ b.groupId = a.groupId /\ b.activeGroupId = a.activeGroupId
          /\ b.isInOnlineSession = a.isInOnlineSession /\ b.session = a.session
          /\ b.uniqueUserId = a.uniqueUserId /\ b.client = a.client

Launches(d) ==
    /\ Moves(d) /\ groups' = groups /\ requests'[d] = {}
    /\ outbox'[d] = IF app[d].client = "memory" THEN <<>> ELSE outbox[d]
    /\ app[d].screen = "closed"
    /\ \E deck \in LocalDecks : app'[d] = LaunchedApp(deck, app[d].session)

Delivers(d) ==
    LET w == Head(outbox[d]) IN
    /\ app' = app /\ requests' = requests
    /\ \A e \in Devices \ {d} : outbox'[e] = outbox[e]
    /\ outbox[d] # <<>> /\ outbox'[d] = Tail(outbox[d])
    /\ w \in WritesOf(DealtGroups) /\ w \in Writes /\ w.code \in Codes
    /\ groups'[w.code] = ApplyWrite(groups[w.code], w)
    /\ \A c \in Codes \ {w.code} : groups'[c] = groups[c]

\* Leaving a group, an alert or the list.
Leaves(d) ==
    /\ \/ d \in Leavers \cup Exiters \cup Quitters
       \/ app[d].screen \in {"exit", "restart"}
    /\ Moves(d) /\ groups' = groups /\ outbox'[d] = outbox[d]
    /\ app'[d].screen \in {"cards", "exit", "list", "restart"}
    /\ \/ requests'[d] = requests[d]
       \/ d \in Leavers /\ \E c : requests'[d] = requests[d] \cup {[kind |-> "remove", code |-> c]}

SignsOff(d) == \E r \in requests[d] :
    /\ Answers(d, r) /\ r.kind = "remove" /\ app'[d] = app[d]

LEMMA StartSessionPressedEffect ==
    ASSUME IInv, NEW d \in Devices, StartSessionPressed(d)
    PROVE  DealsDeck(d)
<1>1. PICK deck \in HostDecks :
          /\ app[d].screen = "settings" /\ app[d].swiped = Nil
          /\ Become(d, Show(OnlineSessionStartedByHost([app[d] EXCEPT !.items = deck]), "cards"))
          /\ IF app[d].activeGroupId = Nil THEN UNCHANGED requests
             ELSE Ask(d, [kind |-> "start", code |-> app[d].activeGroupId, deck |-> deck])
          /\ UNCHANGED <<groups, outbox, failures, kills>>
    BY DEF StartSessionPressed, Settled
<1> DEFINE x == [app[d] EXCEPT !.items = deck]
           y == ResetCurrentCardIndex(x)
           b == Show(y, "cards")
           R == IF app[d].activeGroupId = Nil THEN requests[d]
                ELSE requests[d] \cup
                        {[kind |-> "start", code |-> app[d].activeGroupId, deck |-> deck]}
<1>2. /\ app[d] \in Apps /\ IsApp(app[d]) /\ deck \in Seq(Dinners)
      /\ Len(app[d].visible) <= CountOfVisibleCards
    BY Unchanged, SoundAppFields, DecksAssumption DEF SoundApps
<1>3. /\ IsApp(x) /\ x.items = deck /\ SameMembership(app[d], x) /\ SameListeners(app[d], x)
      /\ x.localUserYesSwiped = app[d].localUserYesSwiped
    BY <1>2 DEF IsApp, AppFields, SameMembership, SameListeners
<1>4. x \in Apps /\ x.visible = app[d].visible /\ x.swiped = app[d].swiped
    BY <1>2 DEF Apps
<1> HIDE DEF x
<1>5. Deals(x, Dinners, y)
    BY <1>2, <1>4, AppIsPile, ResetDeals
<1>6. y.index = 0 /\ InPlace(x.items, 0, y.visible)
    BY <1>2, <1>4, AppIsPile, ResetInPlace
<1> HIDE DEF y
<1>7. /\ IsApp(y) /\ y.items = deck /\ y.swiped = x.swiped /\ SameMembership(x, y) /\ SameListeners(x, y)
      /\ y.localUserYesSwiped = x.localUserYesSwiped
    BY <1>3, <1>5, DealtFields
<1>8. b.screen = "cards" /\ SamePlay(y, b)
    BY <1>7, ShowFields
<1>9. /\ app' = [app EXCEPT ![d] = b] /\ requests' = [requests EXCEPT ![d] = R]
      /\ outbox' = [outbox EXCEPT ![d] = outbox[d]] /\ groups' = groups
    BY <1>1, Unchanged DEF Become, Ask, OnlineSessionStartedByHost, b, y, x
<1> HIDE DEF b, R
<1>10. Moves(d) /\ app'[d] = b /\ requests'[d] = R /\ outbox'[d] = outbox[d]
    BY <1>9, OneMoves
<1>11. SameMembership(app[d], b)
    BY <1>3, <1>7, <1>8, SameMembershipTrans DEF SamePlay
<1>12. /\ SameListeners(app[d], b) /\ b.items = deck
       /\ b.localUserYesSwiped = app[d].localUserYesSwiped
       /\ b.swiped = Nil /\ FreshDeck(b)
    BY <1>1, <1>3, <1>4, <1>6, <1>7, <1>8 DEF FreshDeck, SamePlay, SameListeners, SameCards
<1> QED BY <1>1, <1>8, <1>9, <1>10, <1>11, <1>12 DEF DealsDeck, R

LEMMA StartAnsweredEffect ==
    ASSUME IInv, NEW d \in Devices, StartAnswered(d)
    PROVE  StartsGroup(d)
<1>1. PICK r \in requests[d] :
          /\ r.kind = "start" /\ Alive(d)
          /\ requests' = [requests EXCEPT ![d] = @ \ {r}]
          /\ LET g == View(d, r.code) IN
             IF g = Nil THEN UNCHANGED <<outbox, app>>
             ELSE /\ Send(d, <<SetData(r.code, StartedGroup(g, r.deck))>>)
                  /\ Become(d, [app[d] EXCEPT !.isInOnlineSession = TRUE])
          /\ UNCHANGED <<groups, failures, kills>>
    BY DEF StartAnswered
<1> DEFINE g == View(d, r.code)
           R == requests[d] \ {r}
<1>2. IsApp(app[d]) /\ r.code \in Codes /\ r.deck \in HostDecks
    BY <1>1, Unchanged, SoundAppFields, RequestFields
<1>3. CASE UNCHANGED <<outbox, app>>
    <2>1. Answers(d, r) /\ app'[d] = app[d] /\ outbox'[d] = outbox[d]
        BY <1>1, <1>3 DEF IInv, Answers, Moves
    <2> QED BY <1>1, <1>2, <2>1 DEF StartsGroup
<1>4. CASE /\ g # Nil
           /\ Send(d, <<SetData(r.code, StartedGroup(g, r.deck))>>)
           /\ Become(d, [app[d] EXCEPT !.isInOnlineSession = TRUE])
    <2> DEFINE b == [app[d] EXCEPT !.isInOnlineSession = TRUE]
               q == outbox[d] \o <<SetData(r.code, StartedGroup(g, r.deck))>>
    <2>1. /\ app' = [app EXCEPT ![d] = b] /\ requests' = [requests EXCEPT ![d] = R]
          /\ outbox' = [outbox EXCEPT ![d] = q] /\ groups' = groups
        BY <1>1, <1>4 DEF Send, Become
    <2>2. /\ SameListeners(app[d], b) /\ SameCards(app[d], b)
          /\ b.localUserYesSwiped = app[d].localUserYesSwiped
          /\ b.screen = app[d].screen /\ b.isInOnlineSession
          /\ b.isOn = app[d].isOn /\ b.groupId = app[d].groupId
          /\ b.activeGroupId = app[d].activeGroupId /\ b.session = app[d].session
          /\ b.uniqueUserId = app[d].uniqueUserId /\ b.client = app[d].client
        BY <1>2 DEF IsApp, AppFields, SameListeners, SameCards
    <2> HIDE DEF b, R, q
    <2>3. Moves(d) /\ app'[d] = b /\ requests'[d] = R /\ outbox'[d] = q
        BY <2>1, OneMoves
    <2>4. Answers(d, r)
        BY <1>1, <2>1, <2>3 DEF Answers, R
    <2> QED BY <1>1, <1>2, <1>4, <2>2, <2>3, <2>4 DEF StartsGroup, q
<1> QED BY <1>1, <1>3, <1>4

LEMMA RequestFailsEffect ==
    ASSUME IInv, NEW d \in Devices, RequestFails(d)
    PROVE  LosesRequest(d)
<1>1. PICK r \in requests[d] :
          /\ Alive(d)
          /\ requests' = [requests EXCEPT ![d] = @ \ {r}]
          /\ Become(d, IF r.kind \in {"create", "join"} THEN ConnectionError(app[d]) ELSE app[d])
          /\ UNCHANGED <<groups, outbox, kills>>
    BY DEF RequestFails
<1> DEFINE b == IF r.kind \in {"create", "join"} THEN ConnectionError(app[d]) ELSE app[d]
           R == requests[d] \ {r}
<1>2. /\ app' = [app EXCEPT ![d] = b] /\ requests' = [requests EXCEPT ![d] = R]
      /\ outbox' = [outbox EXCEPT ![d] = outbox[d]] /\ groups' = groups
    BY <1>1, Unchanged DEF Become
<1>3. IsApp(app[d])
    BY Unchanged, SoundAppFields
<1>4. r.kind \in {"create", "join"} =>
          /\ b.screen = app[d].screen /\ ~b.isOn /\ SameCards(app[d], b)
          /\ b.leaked = app[d].leaked /\ b.activeEventListener = Nil
          /\ b.localUserYesSwiped = app[d].localUserYesSwiped /\ b.client = app[d].client
          /\ b.groupId = app[d].groupId /\ b.activeGroupId = app[d].activeGroupId
          /\ b.isInOnlineSession = app[d].isInOnlineSession /\ b.session = app[d].session
          /\ b.uniqueUserId = app[d].uniqueUserId
    BY <1>3, ConnectionErrorFields
<1>5. r.kind \notin {"create", "join"} => b = app[d]
    OBVIOUS
<1> HIDE DEF b, R
<1>6. Moves(d) /\ app'[d] = b /\ requests'[d] = R /\ outbox'[d] = outbox[d]
    BY <1>2, OneMoves
<1>7. Answers(d, r)
    BY <1>1, <1>2, <1>6 DEF Answers, R
<1> QED BY <1>4, <1>5, <1>6, <1>7 DEF LosesRequest

LEMMA LaunchEffect ==
    ASSUME IInv, NEW d \in Devices, Launch(d)
    PROVE  Launches(d)
BY DEF IInv, Launch, Launches, Moves, Become

LEMMA WriteReachesServerEffect ==
    ASSUME IInv, NEW d \in Devices, WriteReachesServer(d)
    PROVE  Delivers(d)
<1> DEFINE w == Head(outbox[d])
<1>1. /\ outbox[d] # <<>> /\ app' = app /\ requests' = requests
      /\ groups' = [groups EXCEPT ![w.code] = ApplyWrite(@, w)]
      /\ outbox' = [outbox EXCEPT ![d] = Tail(outbox[d])]
    BY DEF WriteReachesServer
<1>2. w \in WritesOf(DealtGroups)
    BY <1>1, Unchanged, HeadTailProperties
<1>3. w \in Writes /\ w.code \in Codes
    BY <1>2 DEF WritesOf, Writes
<1> QED BY <1>1, <1>2, <1>3 DEF IInv, Delivers

LEMMA LeavingEffects ==
    ASSUME IInv, NEW d \in Devices
    PROVE  /\ ConnectCancelled(d) \/ SwitchedOff(d) \/ ExitCancelled(d) \/ ExitConfirmed(d) => Leaves(d)
           /\ HostCancelled(d) \/ LeaveGroupPressed(d) => Leaves(d)
           /\ RestartPressed(d) \/ RestartCancelled(d) \/ RestartConfirmed(d) => Leaves(d)
           /\ RemoveAnswered(d) => SignsOff(d)
<1>1. ASSUME NEW a, IsApp(a), NEW s \in {"cards", "exit", "list", "restart"},
             d \in Leavers \cup Exiters \cup Quitters \/ app[d].screen \in {"exit", "restart"},
             OnlyApp(d, Show(a, s))
      PROVE  Leaves(d)
    <2>1. MovesAlone(d) /\ app'[d] = Show(a, s)
        BY <1>1, OnlyAppMoves
    <2>2. app'[d].screen = s
        BY <1>1, <2>1, ShowFields
    <2> QED BY <1>1, <2>1, <2>2 DEF Leaves, MovesAlone
<1>2. IsApp(app[d]) /\ app[d] \in SoundApps
    BY Unchanged, SoundAppFields
<1>3. IsApp([app[d] EXCEPT !.isOn = FALSE]) /\ IsApp([app[d] EXCEPT !.isOn = TRUE])
    BY <1>2, SwitchFields
<1>4. ASSUME app[d].screen \in {"exit", "list"}
      PROVE  IsApp(ChangeBackToSingleUserState(app[d]))
    <2>1. ChangeBackToSingleUserState(app[d]) \in Apps
        BY <1>2, <1>4, ChangeBackSound DEF SoundApps
    <2> QED BY <2>1, SoundAppFields
<1>5. ConnectCancelled(d) => Leaves(d)
    BY <1>1, <1>3 DEF ConnectCancelled
<1>6. SwitchedOff(d) => Leaves(d)
    BY <1>1, <1>3 DEF SwitchedOff
<1>7. ExitCancelled(d) => Leaves(d)
    BY <1>1, <1>3 DEF ExitCancelled
<1>8. ExitConfirmed(d) => Leaves(d)
    BY <1>1, <1>4 DEF ExitConfirmed
<1>9. HostCancelled(d) => Leaves(d)
    <2> DEFINE a == DetachEventListener(app[d])
    <2>1. IsApp(a)
        BY <1>2, DetachFields
    <2> HIDE DEF a
    <2>2. IsApp([a EXCEPT !.isOn = FALSE])
        BY <2>1, SwitchFields
    <2> QED BY <1>1, <2>2 DEF HostCancelled, a
<1>10. LeaveGroupPressed(d) => Leaves(d)
    <2> SUFFICES ASSUME LeaveGroupPressed(d) PROVE Leaves(d)
        OBVIOUS
    <2> DEFINE a == LeaveGroup(app[d])
               r == [kind |-> "remove", code |-> app[d].groupId]
    <2>1. IsApp(a)
        BY <1>2 DEF LeaveGroup, DetachEventListener, IsApp, AppFields
    <2>2. Show(a, "cards").screen = "cards"
        BY <2>1, ShowFields
    <2>3. /\ d \in Leavers
          /\ app' = [app EXCEPT ![d] = Show(a, "cards")]
          /\ requests' = [requests EXCEPT ![d] = requests[d] \cup {r}]
          /\ outbox' = [outbox EXCEPT ![d] = outbox[d]] /\ groups' = groups
        BY Unchanged DEF LeaveGroupPressed, Become, Ask
    <2>4. /\ Moves(d) /\ app'[d] = Show(a, "cards") /\ requests'[d] = requests[d] \cup {r}
          /\ outbox'[d] = outbox[d]
        BY <2>3, OneMoves
    <2> QED BY <2>2, <2>3, <2>4 DEF Leaves
<1>11. RestartPressed(d) => Leaves(d)
    BY <1>1, <1>2, <1>4 DEF RestartPressed
<1>12. RestartCancelled(d) => Leaves(d)
    BY <1>1, <1>2 DEF RestartCancelled
<1>13. RestartConfirmed(d) => Leaves(d)
    <2> SUFFICES ASSUME RestartConfirmed(d) PROVE Leaves(d)
        OBVIOUS
    <2> DEFINE a == [app[d] EXCEPT !.dinnerList = Nil, !.wantedDinnersId = Nil]
    <2>1. a.screen = "restart" /\ OnlyApp(d, Dismiss(a))
        BY DEF RestartConfirmed
    <2>2. a.screen = app[d].screen /\ a \in Apps /\ SameDeal(app[d], a)
          /\ a.activeEventListener = app[d].activeEventListener
        BY <1>2 DEF SoundApps, Apps, SameDeal
    <2> HIDE DEF a
    <2>3. a \in SoundApps
        BY <1>2, <2>1, <2>2, SameDealStaysSound DEF Attached, SameDeal
    <2>4. Dismiss(a).screen = "cards"
        BY <2>3, DismissFields
    <2>5. MovesAlone(d) /\ app'[d] = Dismiss(a)
        BY <2>1, OnlyAppMoves
    <2> QED BY <2>1, <2>2, <2>4, <2>5 DEF Leaves, MovesAlone
<1>14. RemoveAnswered(d) => SignsOff(d)
    <2> SUFFICES ASSUME RemoveAnswered(d) PROVE SignsOff(d)
        OBVIOUS
    <2>1. PICK r \in requests[d] :
              /\ r.kind = "remove" /\ Alive(d)
              /\ requests' = [requests EXCEPT ![d] = @ \ {r}]
              /\ \E ws : outbox' = [outbox EXCEPT ![d] = @ \o ws]
              /\ UNCHANGED <<groups, app, failures, kills>>
        BY DEF RemoveAnswered, Send
    <2>2. Answers(d, r)
        BY <2>1 DEF IInv, Answers, Moves
    <2> QED BY <2>1, <2>2 DEF SignsOff
<1> QED BY <1>5, <1>6, <1>7, <1>8, <1>9, <1>10, <1>11, <1>12, <1>13, <1>14

\* Every step of the specification, by what it does.
LEMMA NextCases ==
    ASSUME IInv, Next
    PROVE  \E d \in Devices :
              \/ Idles(d) \/ Crashes(d) \/ SwitchesOn(d) \/ AsksToJoin(d) \/ AsksToCreate(d)
              \/ Joins(d) \/ Creates(d) \/ DealsDeck(d) \/ StartsGroup(d) \/ RunsOut(d)
              \/ Starts(d) \/ LosesRequest(d) \/ Launches(d) \/ Delivers(d)
              \/ Leaves(d) \/ SignsOff(d)
<1>1. PICK d \in Devices : \/ Switching(d) \/ Joining(d) \/ Hosting(d) \/ Swiping(d)
                           \/ Snapshot(d) \/ Listing(d) \/ Environment(d)
    BY DEF Next
<1>2. CASE Switching(d)
    BY <1>2, SwitchedOnEffect, JoinPressedIdles, CodeEnteredEffect, CreatePressedEffect,
       LeavingEffects DEF Switching
<1>3. CASE Joining(d)
    BY <1>3, JoinAnsweredEffect, LeavingEffects DEF Joining
<1>4. CASE Hosting(d)
    BY <1>4, CreateAnsweredEffect, StartPressedIdles, StartSessionPressedEffect,
       StartAnsweredEffect, LeavingEffects DEF Hosting
<1>5. CASE Swiping(d)
    BY <1>5, SwipeIdles, DidSwipeIdles, SwipeLastEffect DEF Swiping
<1>6. CASE Snapshot(d)
    BY <1>6, LobbySnapshotIdles, WaitSnapshotEffect, ResultSnapshotIdles DEF Snapshot
<1>7. CASE Listing(d)
    BY <1>7, LeavingEffects DEF Listing
<1>8. CASE Environment(d)
    BY <1>8, WriteReachesServerEffect, RequestFailsEffect, KilledCrashes, LaunchEffect
       DEF Environment
<1> QED BY <1>1, <1>2, <1>3, <1>4, <1>5, <1>6, <1>7, <1>8

LEMMA StepsMove ==
    ASSUME NEW d, \/ Idles(d) \/ Crashes(d) \/ SwitchesOn(d) \/ AsksToJoin(d) \/ AsksToCreate(d)
                  \/ Joins(d) \/ Creates(d) \/ DealsDeck(d) \/ StartsGroup(d) \/ RunsOut(d)
                  \/ Starts(d) \/ LosesRequest(d) \/ Launches(d) \/ Leaves(d) \/ SignsOff(d)
    PROVE  Moves(d) /\ groups' = groups
<1>1. \A r : Answers(d, r) => Moves(d) /\ groups' = groups
    BY DEF Answers
<1>2. \A s, r, c : Asks(d, s, r, c) => Moves(d) /\ groups' = groups
    BY DEF Asks
<1>3. MovesAlone(d) => Moves(d) /\ groups' = groups
    BY DEF MovesAlone
<1> QED BY <1>1, <1>2, <1>3
        DEF Idles, Crashes, SwitchesOn, AsksToJoin, AsksToCreate, Joins, Creates, DealsDeck,
            StartsGroup, RunsOut, Starts, LosesRequest, Launches, Leaves, SignsOff

-----------------------------------------------------------------------------
(***************************************************************************)
(* Who waits is called.  While the alert is up no attempt to enter another *)
(* group is in flight, so that no late answer replaces the group.          *)
(***************************************************************************)
ListensFor(a, c) == \E l \in Attached(a) : l.role = "wait" /\ l.code = c

Awaits(a, R) == a.screen = "waiting" => Entering(R) = {} /\ ListensFor(a, a.activeGroupId)

AllAwait == \A d \in Devices : Awaits(app[d], requests[d])

LEMMA SameRolesAttached ==
    ASSUME NEW a, NEW b, SameRoles(a, b)
    PROVE  /\ \A l \in Attached(a) : \E m \in Attached(b) : m.role = l.role /\ m.code = l.code
           /\ \A m \in Attached(b) : \E l \in Attached(a) : m.role = l.role /\ m.code = l.code
BY DEF SameRoles, Attached

LEMMA AwaitsInit == Init => AllAwait
BY DEF Init, AllAwait, Awaits, LaunchedApp

LEMMA AwaitsStep ==
    ASSUME IInv, AllAwait, Next
    PROVE  AllAwait'
<1>1. PICK d \in Devices :
              \/ Idles(d) \/ Crashes(d) \/ SwitchesOn(d) \/ AsksToJoin(d) \/ AsksToCreate(d)
              \/ Joins(d) \/ Creates(d) \/ DealsDeck(d) \/ StartsGroup(d) \/ RunsOut(d)
              \/ Starts(d) \/ LosesRequest(d) \/ Launches(d) \/ Delivers(d)
              \/ Leaves(d) \/ SignsOff(d)
    BY NextCases
<1> DEFINE a == app[d]
           b == app'[d]
<1>2. OneAttempt(a, requests[d]) /\ Awaits(a, requests[d])
    BY DEF IInv, AllAwait
<1>3. CASE Delivers(d)
    BY <1>3 DEF Delivers, AllAwait
<1>4. ASSUME Moves(d), Awaits(b, requests'[d])
      PROVE  AllAwait'
    BY <1>4 DEF AllAwait, Moves
<1>5. ASSUME NEW R, R \subseteq requests[d], b.screen = a.screen,
             b.activeGroupId = a.activeGroupId, SameRoles(a, b)
      PROVE  Awaits(b, R)
    BY <1>2, <1>5, SameRolesAttached DEF Awaits, ListensFor, Entering
<1>6. CASE Idles(d)
    <2>1. /\ requests'[d] = requests[d] /\ b.activeGroupId = a.activeGroupId /\ SameRoles(a, b)
          /\ b.screen = a.screen \/ b.screen \in {"code", "settings", "list", "frozen"}
        BY <1>6 DEF Idles, MovesAlone, SameMembership
    <2>2. Awaits(b, requests'[d])
        BY <1>5, <2>1 DEF Awaits
    <2> QED BY <1>4, <1>6, <2>2, StepsMove
<1>7. CASE \/ Crashes(d) \/ SwitchesOn(d) \/ AsksToJoin(d) \/ AsksToCreate(d) \/ DealsDeck(d)
           \/ RunsOut(d) \/ Starts(d) \/ Launches(d) \/ Leaves(d)
    <2>1. b.screen \in {"closed", "connect", "cards", "exit", "list", "restart"}
        <3>1. Crashes(d) \/ SwitchesOn(d) \/ DealsDeck(d) \/ RunsOut(d) \/ Starts(d) \/ Leaves(d)
              => b.screen \in {"closed", "connect", "cards", "exit", "list", "restart"}
            BY DEF Crashes, SwitchesOn, DealsDeck, RunsOut, Starts, Leaves
        <3>2. AsksToJoin(d) \/ AsksToCreate(d) => b.screen = "cards"
            BY DEF AsksToJoin, AsksToCreate, Asks
        <3>3. Launches(d) => b.screen = "cards"
            BY DEF Launches, LaunchedApp
        <3> QED BY <1>7, <3>1, <3>2, <3>3
    <2> QED BY <1>4, <1>7, <2>1, StepsMove DEF Awaits
<1>8. ASSUME NEW r \in requests[d], Answers(d, r), r.kind \in {"create", "join"}
      PROVE  a.screen # "waiting" /\ Entering(requests'[d]) = {}
    <2>1. requests'[d] = requests[d] \ {r} /\ Entering(requests[d]) # {}
        BY <1>8 DEF Answers, Entering
    <2> QED BY <1>2, <1>8, <2>1, AttemptAnswered DEF Awaits
<1>9. ASSUME NEW r \in requests[d], Answers(d, r), app'[d] = app[d]
      PROVE  Awaits(b, requests'[d])
    BY <1>2, <1>9 DEF Answers, Awaits, Entering
<1>10. CASE Joins(d)
    <2>1. PICK r \in requests[d] :
              /\ Answers(d, r) /\ r.kind = "join" /\ r.code \in Codes
              /\ \/ app'[d] = app[d]
                 \/ /\ b.activeGroupId = r.code
                    /\ b.activeEventListener = [role |-> "wait", code |-> r.code, seen |-> Nil]
        BY <1>10 DEF Joins
    <2>2. Nil # [role |-> "wait", code |-> r.code, seen |-> Nil]
        BY <2>1, ListenersAssumption DEF Listeners
    <2>3. Awaits(b, requests'[d])
        BY <1>8, <1>9, <2>1, <2>2 DEF Awaits, ListensFor, Attached
    <2> QED BY <1>4, <1>10, <2>3, StepsMove
<1>11. CASE Creates(d)
    <2>1. PICK r \in requests[d] :
              /\ Answers(d, r) /\ r.kind = "create"
              /\ a.screen # "waiting" => b.screen # "waiting"
        BY <1>11 DEF Creates
    <2>2. Awaits(b, requests'[d])
        BY <1>8, <2>1 DEF Awaits
    <2> QED BY <1>4, <1>11, <2>2, StepsMove
<1>12. CASE LosesRequest(d)
    <2>1. PICK r \in requests[d] :
              /\ Answers(d, r)
              /\ \/ app'[d] = app[d]
                 \/ r.kind \in {"create", "join"} /\ b.screen = a.screen
        BY <1>12 DEF LosesRequest
    <2>2. Awaits(b, requests'[d])
        BY <1>8, <1>9, <2>1 DEF Awaits
    <2> QED BY <1>4, <1>12, <2>2, StepsMove
<1>13. CASE StartsGroup(d)
    <2>1. PICK r \in requests[d] :
              /\ Answers(d, r)
              /\ \/ app'[d] = app[d]
                 \/ /\ SameListeners(a, b) /\ b.screen = a.screen
                    /\ b.activeGroupId = a.activeGroupId
        BY <1>13 DEF StartsGroup
    <2>2. Awaits(b, requests'[d])
        BY <1>5, <1>9, <2>1, SameListenersRoles DEF Answers
    <2> QED BY <1>4, <1>13, <2>2, StepsMove
<1>14. CASE SignsOff(d)
    BY <1>4, <1>9, <1>14, StepsMove DEF SignsOff
<1> QED BY <1>1, <1>3, <1>6, <1>7, <1>10, <1>11, <1>12, <1>13, <1>14

\* Whatever answers, retries, callbacks and leaves cross: a joiner that is
\* told to wait for the host has a listener on the group it waits for.
THEOREM WaitingIsHeard == Spec => []WaitersListen
<1>1. AllAwait /\ UNCHANGED vars => AllAwait'
    BY DEF AllAwait, vars
<1>2. IInv /\ AllAwait /\ [Next]_vars => AllAwait'
    BY <1>1, AwaitsStep
<1>3. AllAwait => WaitersListen
    BY DEF AllAwait, Awaits, ListensFor, WaitersListen
<1> QED BY AwaitsInit, <1>2, <1>3, Invariance, PTL DEF Spec

-----------------------------------------------------------------------------
(***************************************************************************)
(* Queues of writes, when one is added at the end or taken from the front. *)
(***************************************************************************)
LEMMA AddedWrite ==
    ASSUME NEW S, NEW q \in Seq(S), NEW w \in S
    PROVE  /\ q \o <<w>> \in Seq(S)
           /\ Len(q) \in Nat /\ DOMAIN q = 1..Len(q)
           /\ DOMAIN (q \o <<w>>) = 1..(Len(q) + 1)
           /\ \A i \in 1..Len(q) : (q \o <<w>>)[i] = q[i]
           /\ (q \o <<w>>)[Len(q) + 1] = w
<1>1. <<w>> \in Seq(S) /\ Len(<<w>>) = 1 /\ <<w>>[1] = w
    OBVIOUS
<1>2. /\ q \o <<w>> \in Seq(S) /\ Len(q \o <<w>>) = Len(q) + 1
      /\ \A i \in 1..(Len(q) + 1) :
            (q \o <<w>>)[i] = IF i <= Len(q) THEN q[i] ELSE <<w>>[i - Len(q)]
    BY <1>1, ConcatProperties
<1>3. Len(q) \in Nat /\ DOMAIN q = 1..Len(q)
    BY LenProperties
<1>4. DOMAIN (q \o <<w>>) = 1..(Len(q) + 1)
    BY <1>2, LenProperties
<1>5. (q \o <<w>>)[Len(q) + 1] = w
    <2>1. /\ Len(q) + 1 \in 1..(Len(q) + 1) /\ ~(Len(q) + 1 <= Len(q))
          /\ Len(q) + 1 - Len(q) = 1
        BY <1>3
    <2> QED BY <1>1, <1>2, <2>1
<1>6. \A i \in 1..Len(q) : (q \o <<w>>)[i] = q[i]
    BY <1>2, <1>3
<1> QED BY <1>2, <1>3, <1>4, <1>5, <1>6

LEMMA TwoAdded ==
    ASSUME NEW S, NEW q \in Seq(S), NEW v \in S, NEW w \in S
    PROVE  q \o <<v, w>> = (q \o <<v>>) \o <<w>>
<1>1. /\ <<v>> \in Seq(S) /\ <<w>> \in Seq(S) /\ <<v, w>> \in Seq(S)
      /\ Len(<<v>>) = 1 /\ Len(<<w>>) = 1 /\ Len(<<v, w>>) = 2
      /\ <<v>>[1] = v /\ <<w>>[1] = w /\ <<v, w>>[1] = v /\ <<v, w>>[2] = w
    OBVIOUS
<1>2. /\ <<v>> \o <<w>> \in Seq(S) /\ Len(<<v>> \o <<w>>) = 2
      /\ \A i \in 1..2 : (<<v>> \o <<w>>)[i] = IF i <= 1 THEN <<v>>[i] ELSE <<w>>[i - 1]
    BY <1>1, ConcatProperties
<1>3. (<<v>> \o <<w>>)[1] = v /\ (<<v>> \o <<w>>)[2] = w
    BY <1>1, <1>2
<1>4. \A i \in 1..2 : i = 1 \/ i = 2
    OBVIOUS
<1>5. \A i \in 1..2 : <<v, w>>[i] = (<<v>> \o <<w>>)[i]
    BY ONLY <1>1, <1>3, <1>4
<1>6. <<v, w>> = <<v>> \o <<w>>
    BY <1>1, <1>2, <1>5, SeqEqual
<1> QED BY <1>1, <1>6, ConcatAssociative

LEMMA TakenWrite ==
    ASSUME NEW S, NEW q \in Seq(S), q # <<>>
    PROVE  /\ Tail(q) \in Seq(S) /\ Len(q) \in Nat \ {0} /\ DOMAIN q = 1..Len(q)
           /\ DOMAIN Tail(q) = 1..(Len(q) - 1)
           /\ \A i \in 1..(Len(q) - 1) : Tail(q)[i] = q[i + 1] /\ i + 1 \in 1..Len(q)
           /\ Head(q) = q[1] /\ 1 \in 1..Len(q)
<1>1. /\ Tail(q) \in Seq(S) /\ Len(Tail(q)) = Len(q) - 1 /\ Head(q) = q[1]
      /\ \A i \in 1..Len(Tail(q)) : Tail(q)[i] = q[i + 1]
    BY HeadTailProperties
<1>2. Len(q) \in Nat \ {0} /\ DOMAIN q = 1..Len(q)
    BY LenProperties, EmptySeq
<1>3. DOMAIN Tail(q) = 1..(Len(q) - 1)
    BY <1>1, LenProperties
<1> QED BY <1>1, <1>2, <1>3

LEMMA PendingAdded ==
    ASSUME NEW q \in Seq(Writes), NEW w \in Writes, NEW c
    PROVE  PendingSets(q \o <<w>>, c)
               = IF w.code = c /\ w.op = "set" THEN PendingSets(q, c) \cup {Len(q) + 1}
                 ELSE PendingSets(q, c)
<1> DEFINE s == q \o <<w>>
<1>1. /\ Len(q) \in Nat /\ DOMAIN q = 1..Len(q) /\ DOMAIN s = 1..(Len(q) + 1)
      /\ \A i \in 1..Len(q) : s[i] = q[i]
      /\ s[Len(q) + 1] = w
    BY AddedWrite
<1> HIDE DEF s
<1>2. DOMAIN s = DOMAIN q \cup {Len(q) + 1}
    BY <1>1
<1>3. PendingSets(s, c) = IF w.code = c /\ w.op = "set" THEN PendingSets(q, c) \cup {Len(q) + 1}
                          ELSE PendingSets(q, c)
    BY <1>1, <1>2 DEF PendingSets
<1> QED BY <1>3 DEF s

LEMMA PendingTaken ==
    ASSUME NEW S, NEW q \in Seq(S), q # <<>>, NEW c, NEW i \in PendingSets(Tail(q), c)
    PROVE  /\ i \in Nat /\ i > 0 /\ i + 1 \in PendingSets(q, c)
           /\ Tail(q)[i] = q[i + 1]
BY TakenWrite DEF PendingSets

\* A write that has been sent, or is just being sent.
LEMMA PendingIndex ==
    ASSUME NEW S, NEW q \in Seq(S), NEW c
    PROVE  /\ PendingSets(q, c) \subseteq 1..Len(q) /\ Len(q) \in Nat
           /\ \A i \in PendingSets(q, c) : q[i] \in S /\ q[i].op = "set" /\ q[i].code = c
BY LenProperties, ElementOfSeq DEF PendingSets

NoSets(q) == \A i \in DOMAIN q : q[i].op # "set"

LEMMA NoSetsKept ==
    ASSUME NEW S, NEW q \in Seq(S), NoSets(q)
    PROVE  /\ \A c : PendingSets(q, c) = {}
           /\ q # <<>> => NoSets(Tail(q)) /\ Head(q).op # "set"
           /\ \A w \in S : w.op # "set" => NoSets(q \o <<w>>)
<1>1. \A c : PendingSets(q, c) = {}
    BY DEF NoSets, PendingSets
<1>2. q # <<>> => NoSets(Tail(q)) /\ Head(q).op # "set"
    BY TakenWrite DEF NoSets
<1>3. ASSUME NEW w \in S, w.op # "set"
      PROVE  NoSets(q \o <<w>>)
    <2> DEFINE s == q \o <<w>>
    <2>1. /\ Len(q) \in Nat /\ DOMAIN q = 1..Len(q) /\ DOMAIN s = 1..(Len(q) + 1)
          /\ \A i \in 1..Len(q) : s[i] = q[i]
          /\ s[Len(q) + 1] = w
        BY AddedWrite
    <2> HIDE DEF s
    <2>2. DOMAIN s = DOMAIN q \cup {Len(q) + 1}
        BY <2>1
    <2>3. NoSets(s)
        BY <1>3, <2>1, <2>2 DEF NoSets
    <2> QED BY <2>3 DEF s
<1> QED BY <1>1, <1>2, <1>3

LEMMA NoSetsInEmpty == NoSets(<<>>) /\ \A c : PendingSets(<<>>, c) = {}
BY DEF NoSets, PendingSets

LEMMA OutboxTypes ==
    ASSUME IInv, NEW d \in Devices
    PROVE  /\ outbox[d] \in Seq(Writes)
           /\ \A c \in Codes : groups[c] \in Groups \cup {Nil}
           /\ \A c \in Codes : View(d, c) \in Groups \cup {Nil}
<1>1. WritesOf(DealtGroups) \subseteq Writes
    BY DEF WritesOf
<1>2. outbox[d] \in Seq(Writes)
    BY <1>1, Unchanged, SeqMonotonic
<1> QED BY <1>2, ViewDealt, DealtSubset DEF IInv

\* What the handlers append to the queue.
LEMMA SentWrites ==
    ASSUME IInv, NEW d \in Devices, NEW c \in Codes
    PROVE  /\ AddOneParticipant(c, ParticipantsIn(View(d, c))) \in Writes
           /\ MarkThisUserAsReady(c, ReadyIn(View(d, c))) \in Writes
           /\ \A u \in UserIds, l \in DinnerLists : AddDinnerIdsToFirebase(c, u, l) \in Writes
           /\ \A g \in Groups : SetData(c, g) \in Writes
           /\ NewGroup \in Groups
           /\ \A deck \in HostDecks : View(d, c) # Nil => StartedGroup(View(d, c), deck) \in Groups
<1>1. ParticipantsIn(View(d, c)) \in Int /\ ReadyIn(View(d, c)) \in Nat
    BY ViewBases
<1>2. \A deck \in HostDecks : View(d, c) # Nil => StartedGroup(View(d, c), deck) \in Groups
    BY OutboxTypes, StartedGroupDealt, DealtSubset
<1>3. NewGroup \in Groups
    BY NewGroupDealt, DealtSubset
<1> HIDE DEF View
<1> QED BY <1>1, <1>2, <1>3
        DEF Writes, AddOneParticipant, MarkThisUserAsReady, AddDinnerIdsToFirebase, SetData

-----------------------------------------------------------------------------
(***************************************************************************)
(* Sessions that nobody deserts.  A device that cancels or leaves writes   *)
(* back a document it read earlier, and one that exits or quits forgets    *)
(* the group its requests and callbacks are about.                         *)
(***************************************************************************)
NobodyCancels  == Leavers = {}
NobodyLeaves   == Leavers \cup Exiters \cup Quitters = {}

InLobby(a) == a.screen \in {"lobby", "settings"}

\* What a device never does that does not host.
Guest(a, R, q) ==
    /\ \A r \in R : r.kind \notin {"create", "start"}
    /\ ~InLobby(a)
    /\ NoSets(q)

Guests ==
    \A d \in Devices : /\ d \notin Hosts => Guest(app[d], requests[d], outbox[d])
                       /\ \A r \in requests[d] : r.kind # "remove"

LEMMA GuestsInit == Init => Guests
BY NoSetsInEmpty DEF Init, Guests, Guest, InLobby, LaunchedApp

LEMMA GuestsStep ==
    ASSUME NobodyCancels, IInv, Guests, Next
    PROVE  Guests'
<1>1. PICK d \in Devices :
              \/ Idles(d) \/ Crashes(d) \/ SwitchesOn(d) \/ AsksToJoin(d) \/ AsksToCreate(d)
              \/ Joins(d) \/ Creates(d) \/ DealsDeck(d) \/ StartsGroup(d) \/ RunsOut(d)
              \/ Starts(d) \/ LosesRequest(d) \/ Launches(d) \/ Delivers(d)
              \/ Leaves(d) \/ SignsOff(d)
    BY NextCases
<1> DEFINE a == app[d]
           b == app'[d]
           R == requests[d]
           q == outbox[d]
<1>2. /\ d \notin Hosts => Guest(a, R, q)
      /\ \A r \in R : r.kind # "remove"
      /\ q \in Seq(Writes)
    BY OutboxTypes DEF Guests
<1>3. ASSUME Moves(d), d \notin Hosts => Guest(b, requests'[d], outbox'[d]),
             \A r \in requests'[d] : r.kind # "remove"
      PROVE  Guests'
    BY <1>3 DEF Guests, Moves
<1>4. CASE Delivers(d)
    <2>1. /\ app' = app /\ requests' = requests /\ outbox'[d] = Tail(q) /\ q # <<>>
          /\ \A e \in Devices \ {d} : outbox'[e] = outbox[e]
        BY <1>4 DEF Delivers
    <2>2. NoSets(q) => NoSets(Tail(q))
        BY <1>2, <2>1, NoSetsKept
    <2> QED BY <2>1, <2>2 DEF Guests, Guest
<1>5. CASE Idles(d) \/ Crashes(d) \/ SwitchesOn(d) \/ Starts(d)
    <2>1. /\ requests'[d] = R /\ outbox'[d] = q
          /\ \/ b.screen = a.screen \/ a.screen = "lobby"
             \/ b.screen \in {"code", "list", "frozen", "closed", "connect", "cards"}
        BY <1>5 DEF Idles, Crashes, SwitchesOn, Starts, MovesAlone
    <2> QED BY <1>2, <1>3, <1>5, <2>1, StepsMove DEF Guest, InLobby
<1>6. CASE AsksToJoin(d)
    <2>1. PICK c \in TypedCodes :
              /\ requests'[d] = R \cup {[kind |-> "join", code |-> c]}
              /\ b.screen = "cards" /\ outbox'[d] = q
        BY <1>6 DEF AsksToJoin, Asks
    <2>2. \A r \in requests'[d] : r \in R \/ r.kind = "join"
        BY <2>1
    <2> QED BY <1>2, <1>3, <1>6, <2>1, <2>2, StepsMove DEF Guest, InLobby
<1>7. CASE AsksToCreate(d)
    <2>1. requests'[d] = R \cup {[kind |-> "create"]} /\ d \in Hosts
        BY <1>7 DEF AsksToCreate, Asks
    <2> QED BY <1>2, <1>3, <1>7, <2>1, StepsMove
<1>8. CASE Joins(d)
    <2>1. PICK r \in R :
              /\ requests'[d] = R \ {r} /\ r.code \in Codes
              /\ \/ b = a /\ outbox'[d] = q
                 \/ /\ outbox'[d] = q \o <<AddOneParticipant(r.code, ParticipantsIn(View(d, r.code)))>>
                    /\ b.screen \in {a.screen, "waiting"}
        BY <1>8 DEF Joins, Answers
    <2> DEFINE w == AddOneParticipant(r.code, ParticipantsIn(View(d, r.code)))
    <2>2. w \in Writes /\ w.op # "set"
        BY <2>1, SentWrites DEF AddOneParticipant
    <2> HIDE DEF w
    <2>3. NoSets(q) => NoSets(q \o <<w>>)
        BY <1>2, <2>2, NoSetsKept
    <2>4. d \notin Hosts => Guest(b, requests'[d], outbox'[d])
        BY <1>2, <2>1, <2>3 DEF Guest, InLobby, w
    <2> QED BY <1>2, <1>3, <1>8, <2>1, <2>4, StepsMove
<1>9. CASE Creates(d) \/ StartsGroup(d)
    <2>1. PICK r \in R : r.kind \in {"create", "start"} /\ requests'[d] = R \ {r}
        BY <1>9 DEF Creates, StartsGroup, Answers
    <2> QED BY <1>2, <1>3, <1>9, <2>1, StepsMove DEF Guest
<1>10. CASE DealsDeck(d)
    <2>1. /\ a.screen = "settings"
          /\ \A r \in requests'[d] : r \in R \/ r.kind = "start"
        BY <1>10 DEF DealsDeck
    <2> QED BY <1>2, <1>3, <1>10, <2>1, StepsMove DEF Guest, InLobby
<1>11. CASE RunsOut(d)
    <2> DEFINE c == a.activeGroupId
               v == AddDinnerIdsToFirebase(a.groupId, a.uniqueUserId, b.localUserYesSwiped)
               w == MarkThisUserAsReady(c, ReadyIn(View(d, c)))
    <2>1. /\ requests'[d] = R /\ b.screen = "cards" /\ outbox'[d] = q \o <<v, w>>
          /\ a.groupId \in Codes /\ c \in Codes /\ a.uniqueUserId \in UserIds
          /\ b.localUserYesSwiped \in DinnerLists
        BY <1>11 DEF RunsOut
    <2>2. v \in Writes /\ w \in Writes /\ v.op # "set" /\ w.op # "set"
        BY <2>1, SentWrites DEF AddDinnerIdsToFirebase, MarkThisUserAsReady
    <2> HIDE DEF v, w
    <2>3. outbox'[d] = (q \o <<v>>) \o <<w>>
        <3>1. q \o <<v, w>> = (q \o <<v>>) \o <<w>>
            BY ONLY <1>2, <2>2, TwoAdded
        <3> QED BY <2>1, <3>1
    <2>5. q \o <<v>> \in Seq(Writes)
        BY <1>2, <2>2, AddedWrite
    <2>4. NoSets(q) => NoSets(outbox'[d])
        BY <1>2, <2>2, <2>3, <2>5, NoSetsKept
    <2> QED BY <1>2, <1>3, <1>11, <2>1, <2>4, StepsMove DEF Guest, InLobby
<1>12. CASE LosesRequest(d)
    <2>1. /\ requests'[d] \subseteq R /\ outbox'[d] = q /\ b.screen = a.screen
        BY <1>12 DEF LosesRequest, Answers
    <2> QED BY <1>2, <1>3, <1>12, <2>1, StepsMove DEF Guest, InLobby
<1>13. CASE Launches(d)
    <2>1. requests'[d] = {} /\ outbox'[d] \in {<<>>, q} /\ b.screen = "cards"
        BY <1>13 DEF Launches, LaunchedApp
    <2> QED BY <1>2, <1>3, <1>13, <2>1, StepsMove, NoSetsInEmpty DEF Guest, InLobby
<1>14. CASE Leaves(d)
    <2>1. /\ requests'[d] = R /\ outbox'[d] = q
          /\ b.screen \in {"cards", "exit", "list", "restart"}
        BY <1>14 DEF Leaves, NobodyCancels
    <2> QED BY <1>2, <1>3, <1>14, <2>1, StepsMove DEF Guest, InLobby
<1>15. CASE SignsOff(d)
    BY <1>2, <1>15 DEF SignsOff
<1> QED BY <1>1, <1>4, <1>5, <1>6, <1>7, <1>8, <1>9, <1>10, <1>11, <1>12, <1>13, <1>14, <1>15

-----------------------------------------------------------------------------
(***************************************************************************)
(* Writes other than setData, and what a client sees.                      *)
(***************************************************************************)
LEMMA Updated ==
    ASSUME NEW g \in Groups, NEW w \in Writes, w.op # "set"
    PROVE  LET h == ApplyWrite(g, w) IN
           /\ h \in Groups /\ h # Nil
           /\ h.swipingSessionRunning = g.swipingSessionRunning
           /\ h.dinnerIdsForCardView = g.dinnerIdsForCardView
           /\ h.numberOfUsersReady = IF w.op = "ready" THEN g.numberOfUsersReady + 1
                                     ELSE g.numberOfUsersReady
           /\ Voters(h) = IF w.op = "vote" THEN Voters(g) \cup {w.user} ELSE Voters(g)
<1>1. /\ g.participants \in Int /\ g.numberOfUsersReady \in Nat /\ g # Nil
      /\ g.accepted \in [UserIds -> DinnerLists \cup {Nil}]
    BY NilAssumption DEF Groups
<1>2. /\ w.op \in {"join", "ready", "vote"}
      /\ w.op = "vote" => w.user \in UserIds /\ w.list \in DinnerLists /\ w.list # Nil
    BY NilAssumption DEF Writes
<1>3. CASE w.op = "join"
    <2> DEFINE h == [g EXCEPT !.participants = @ + 1]
    <2>1. ApplyWrite(g, w) = h
        BY <1>1, <1>3 DEF ApplyWrite
    <2>2. g.participants + 1 \in Int
        BY <1>1
    <2>3. /\ h \in Groups
          /\ h.swipingSessionRunning = g.swipingSessionRunning
          /\ h.dinnerIdsForCardView = g.dinnerIdsForCardView
          /\ h.numberOfUsersReady = g.numberOfUsersReady /\ h.accepted = g.accepted
        BY <1>1, <2>2 DEF Groups
    <2> HIDE DEF h
    <2> QED BY <1>3, <2>1, <2>3, NilAssumption DEF Voters
<1>4. CASE w.op = "ready"
    <2> DEFINE h == [g EXCEPT !.numberOfUsersReady = @ + 1]
    <2>1. ApplyWrite(g, w) = h
        BY <1>1, <1>4 DEF ApplyWrite
    <2>2. g.numberOfUsersReady + 1 \in Nat
        BY <1>1
    <2>3. /\ h \in Groups
          /\ h.swipingSessionRunning = g.swipingSessionRunning
          /\ h.dinnerIdsForCardView = g.dinnerIdsForCardView
          /\ h.numberOfUsersReady = g.numberOfUsersReady + 1 /\ h.accepted = g.accepted
        BY <1>1, <2>2 DEF Groups
    <2> HIDE DEF h
    <2> QED BY <1>4, <2>1, <2>3, NilAssumption DEF Voters
<1>5. CASE w.op = "vote"
    <2> DEFINE h == [g EXCEPT !.accepted[w.user] = w.list]
    <2>1. ApplyWrite(g, w) = h
        BY <1>1, <1>5 DEF ApplyWrite
    <2>2. [g.accepted EXCEPT ![w.user] = w.list] \in [UserIds -> DinnerLists \cup {Nil}]
        BY <1>1, <1>2, <1>5
    <2>3. /\ h \in Groups
          /\ h.swipingSessionRunning = g.swipingSessionRunning
          /\ h.dinnerIdsForCardView = g.dinnerIdsForCardView
          /\ h.numberOfUsersReady = g.numberOfUsersReady
          /\ h.accepted = [g.accepted EXCEPT ![w.user] = w.list]
        BY <1>1, <2>2 DEF Groups
    <2> HIDE DEF h
    <2>4. \A u \in UserIds : h.accepted[u] = IF u = w.user THEN w.list ELSE g.accepted[u]
        BY <1>1, <1>2, <1>5, <2>3
    <2>5. Voters(h) = Voters(g) \cup {w.user}
        BY <1>2, <1>5, <2>4 DEF Voters
    <2> QED BY <1>5, <2>1, <2>3, <2>5, NilAssumption
<1> QED BY <1>2, <1>3, <1>4, <1>5

LEMMA UpdatedNil ==
    ASSUME NEW w, w.op # "set"
    PROVE  ApplyWrite(Nil, w) = Nil
BY DEF ApplyWrite

LEMMA Replaced ==
    ASSUME NEW g, NEW w, w.op = "set"
    PROVE  ApplyWrite(g, w) = w.group
BY DEF ApplyWrite

\* What a client sees of a group: its base document, counted up and voted on.
LEMMA SeenFields ==
    ASSUME NEW g \in Groups \cup {Nil}, NEW q \in Seq(Writes), NEW c \in Codes
    PROVE  LET b == BaseDocument(g, q, c)
               v == LocalView(g, q, c)
           IN  /\ b \in Groups \cup {Nil} /\ v \in Groups \cup {Nil}
               /\ v = Nil <=> b = Nil
               /\ b # Nil =>
                     /\ v.swipingSessionRunning = b.swipingSessionRunning
                     /\ v.dinnerIdsForCardView = b.dinnerIdsForCardView
                     /\ v.numberOfUsersReady = LocalCount(q, c, "ready", b.numberOfUsersReady)
                     /\ v.accepted = [u \in UserIds |->
                                         IF PendingVotes(q, c, u) = {} THEN b.accepted[u]
                                         ELSE q[Latest(PendingVotes(q, c, u))].list]
<1> DEFINE b == BaseDocument(g, q, c)
           v == LocalView(g, q, c)
           p == LocalCount(q, c, "join", b.participants)
           n == LocalCount(q, c, "ready", b.numberOfUsersReady)
           a == [u \in UserIds |-> IF PendingVotes(q, c, u) = {} THEN b.accepted[u]
                                   ELSE q[Latest(PendingVotes(q, c, u))].list]
<1>1. v \in Groups \cup {Nil} /\ (b # Nil => v # Nil)
    <2>1. ClosedUnderUpdates(Groups) /\ WritesOf(Groups) = Writes
        BY DEF ClosedUnderUpdates, WritesOf, Writes
    <2> HIDE DEF v, b
    <2>2. /\ LocalView(g, q, c) \in Groups \cup {Nil}
          /\ BaseDocument(g, q, c) # Nil => LocalView(g, q, c) \in Groups
        BY <2>1, LocalViewIsClosed
    <2> QED BY <2>2, NilAssumption DEF v, b
<1>2. b \in Groups \cup {Nil}
    <2> SUFFICES ASSUME PendingSets(q, c) # {}
                 PROVE  q[Latest(PendingSets(q, c))].group \in Groups
        BY DEF BaseDocument
    <2>1. PendingSets(q, c) \subseteq 1..Len(q) /\ Len(q) \in Nat
          /\ \A i \in PendingSets(q, c) : q[i] \in Writes /\ q[i].op = "set"
        BY PendingIndex
    <2>2. Latest(PendingSets(q, c)) \in PendingSets(q, c)
        BY <2>1, LatestIsThere
    <2> QED BY <2>1, <2>2 DEF Writes
<1>3. v = IF b = Nil THEN Nil
          ELSE [b EXCEPT !.participants = p, !.numberOfUsersReady = n, !.accepted = a]
    BY DEF LocalView
<1> HIDE DEF b, v, p, n, a
<1>4. ASSUME b # Nil
      PROVE  /\ v # Nil
             /\ v.swipingSessionRunning = b.swipingSessionRunning
             /\ v.dinnerIdsForCardView = b.dinnerIdsForCardView
             /\ v.numberOfUsersReady = n /\ v.accepted = a
    <2>1. /\ v.swipingSessionRunning = b.swipingSessionRunning
          /\ v.dinnerIdsForCardView = b.dinnerIdsForCardView
          /\ v.numberOfUsersReady = n /\ v.accepted = a
        BY <1>2, <1>3, <1>4 DEF Groups
    <2> QED BY <1>1, <1>4, <2>1
<1> QED BY <1>1, <1>2, <1>3, <1>4 DEF b, v, n, a

LEMMA UnseenIsNew ==
    ASSUME IInv, NEW d \in Devices, NEW c \in Codes, View(d, c) = Nil
    PROVE  groups[c] = Nil /\ PendingSets(outbox[d], c) = {}
<1> DEFINE q == outbox[d]
<1>1. q \in Seq(Writes) /\ groups[c] \in Groups \cup {Nil}
    BY OutboxTypes
<1>2. BaseDocument(groups[c], q, c) = Nil
    BY <1>1, SeenFields DEF View
<1>3. PendingSets(q, c) = {}
    <2> SUFFICES ASSUME PendingSets(q, c) # {} PROVE FALSE
        OBVIOUS
    <2>1. PendingSets(q, c) \subseteq 1..Len(q) /\ Len(q) \in Nat
          /\ \A i \in PendingSets(q, c) : q[i] \in Writes /\ q[i].op = "set"
        BY <1>1, PendingIndex
    <2>2. Latest(PendingSets(q, c)) \in PendingSets(q, c)
        BY <2>1, LatestIsThere
    <2>3. BaseDocument(groups[c], q, c) \in Groups
        BY <2>1, <2>2 DEF BaseDocument, Writes
    <2> QED BY <1>2, <2>3, NilAssumption
<1> QED BY <1>2, <1>3 DEF BaseDocument

\* The queue of the device that takes a step.
LEMMA QueueChanges ==
    ASSUME IInv, Guests, NEW d \in Devices,
           \/ Idles(d) \/ Crashes(d) \/ SwitchesOn(d) \/ AsksToJoin(d) \/ AsksToCreate(d)
           \/ DealsDeck(d) \/ Starts(d) \/ LosesRequest(d) \/ Launches(d)
           \/ Leaves(d) \/ SignsOff(d)
    PROVE  outbox'[d] \in {outbox[d], <<>>}
<1>1. ~SignsOff(d)
    BY DEF SignsOff, Guests
<1>2. AsksToJoin(d) \/ AsksToCreate(d) \/ DealsDeck(d) \/ LosesRequest(d) \/ Launches(d) \/ Leaves(d)
      => outbox'[d] \in {outbox[d], <<>>}
    BY DEF AsksToJoin, AsksToCreate, DealsDeck, LosesRequest, Launches, Leaves
<1>3. Idles(d) \/ Crashes(d) \/ SwitchesOn(d) \/ Starts(d) => outbox'[d] = outbox[d]
    BY DEF Idles, Crashes, SwitchesOn, Starts, MovesAlone
<1> QED BY <1>1, <1>2, <1>3

\* ... that joins, or runs out of cards.
LEMMA SmallWrites ==
    ASSUME IInv, NEW d \in Devices, Joins(d) \/ RunsOut(d)
    PROVE  /\ outbox'[d] \in Seq(Writes)
           /\ NoSets(outbox[d]) => NoSets(outbox'[d])
           /\ \A c : PendingSets(outbox'[d], c) = PendingSets(outbox[d], c)
           /\ \A i \in DOMAIN outbox[d] : i \in DOMAIN outbox'[d] /\ outbox'[d][i] = outbox[d][i]
<1> DEFINE q == outbox[d]
           s == outbox'[d]
           Keeps(t) == /\ t \in Seq(Writes)
                       /\ NoSets(q) => NoSets(t)
                       /\ \A c : PendingSets(t, c) = PendingSets(q, c)
                       /\ \A i \in DOMAIN q : i \in DOMAIN t /\ t[i] = q[i]
<1>0. q \in Seq(Writes)
    BY OutboxTypes
<1>1. Keeps(q)
    BY <1>0
<1>2. ASSUME NEW t, Keeps(t), NEW w \in Writes, w.op # "set"
      PROVE  Keeps(t \o <<w>>)
    <2>2. \A c : PendingSets(t \o <<w>>, c) = PendingSets(t, c)
        BY <1>2, PendingAdded
    <2>3. \A i \in DOMAIN t : i \in DOMAIN (t \o <<w>>) /\ (t \o <<w>>)[i] = t[i]
        <3> DEFINE u == t \o <<w>>
        <3>1. /\ Len(t) \in Nat /\ DOMAIN t = 1..Len(t) /\ DOMAIN u = 1..(Len(t) + 1)
              /\ \A i \in 1..Len(t) : u[i] = t[i]
            BY <1>2, AddedWrite
        <3> HIDE DEF u
        <3>2. \A i \in DOMAIN t : i \in DOMAIN u /\ u[i] = t[i]
            BY <3>1
        <3> QED BY <3>2 DEF u
    <2>4. t \o <<w>> \in Seq(Writes)
        BY <1>2, AddedWrite
    <2> DEFINE u == t \o <<w>>
    <2>5. NoSets(t) => NoSets(u)
        BY <1>2, NoSetsKept
    <2> HIDE DEF u
    <2> QED BY <1>2, <2>2, <2>3, <2>4, <2>5 DEF u
<1>3. CASE Joins(d)
    <2>1. PICK r \in requests[d] :
              /\ r.code \in Codes
              /\ s \in {q, q \o <<AddOneParticipant(r.code, ParticipantsIn(View(d, r.code)))>>}
        BY <1>3 DEF Joins
    <2> DEFINE w == AddOneParticipant(r.code, ParticipantsIn(View(d, r.code)))
    <2>2. w \in Writes /\ w.op # "set"
        BY <2>1, SentWrites DEF AddOneParticipant
    <2> HIDE DEF w, Keeps
    <2>3. Keeps(s)
        BY <1>1, <1>2, <2>1, <2>2 DEF w
    <2> QED BY <2>3 DEF Keeps
<1>4. CASE RunsOut(d)
    <2> DEFINE c == app[d].activeGroupId
               v == AddDinnerIdsToFirebase(app[d].groupId, app[d].uniqueUserId,
                                           app'[d].localUserYesSwiped)
               w == MarkThisUserAsReady(c, ReadyIn(View(d, c)))
    <2>1. /\ s = q \o <<v, w>>
          /\ app[d].groupId \in Codes /\ c \in Codes /\ app[d].uniqueUserId \in UserIds
          /\ app'[d].localUserYesSwiped \in DinnerLists
        BY <1>4 DEF RunsOut
    <2>2. v \in Writes /\ w \in Writes /\ v.op # "set" /\ w.op # "set"
        BY <2>1, SentWrites DEF AddDinnerIdsToFirebase, MarkThisUserAsReady
    <2> HIDE DEF v, w, Keeps
    <2>3. s = (q \o <<v>>) \o <<w>>
        <3>1. q \o <<v, w>> = (q \o <<v>>) \o <<w>>
            BY ONLY <1>0, <2>2, TwoAdded
        <3> QED BY <2>1, <3>1
    <2>4. Keeps(s)
        BY <1>1, <1>2, <2>2, <2>3
    <2> QED BY <2>4 DEF Keeps
<1> QED BY <1>3, <1>4

-----------------------------------------------------------------------------
(***************************************************************************)
(* Where an app is that nobody deserts: outside of every group, or in one  *)
(* group that it stays in until it is closed.                              *)
(***************************************************************************)
OutsideGroup(a, R, q) ==
    a.activeGroupId = Nil =>
        /\ Attached(a) = {} /\ ~a.isInOnlineSession
        /\ a.screen # "waiting" /\ ~InLobby(a)
        /\ \A r \in R : r.kind # "start"
        /\ NoSets(q)
        /\ a.client = "memory" => q = <<>>

InsideGroup(a, R) ==
    a.activeGroupId # Nil =>
        /\ a.groupId = a.activeGroupId /\ a.isOn
        /\ Entering(R) = {} /\ ~AsksToEnter(a)
        /\ \A l \in Attached(a) : l.code = a.activeGroupId

Attempting(a, R) ==
    /\ Entering(R) # {} \/ AsksToEnter(a) => a.isOn
    /\ Entering(R) # {} => a.screen \in {"cards", "closed"}

WaitingForHost(a, q) ==
    /\ a.screen = "waiting" =>
          /\ a.leaked = {} /\ a.activeEventListener # Nil
          /\ a.activeEventListener.role = "wait"
    /\ Hears(a, "wait") =>
          /\ a.screen \in {"waiting", "closed"} /\ a.leaked = {}
          /\ a.isInOnlineSession /\ NoSets(q)

HostedGroup(a, R, q) ==
    /\ InLobby(a) => ~a.isInOnlineSession
    /\ InLobby(a) \/ ~NoSets(q) => a.client = "memory"
    /\ \A r \in R : r.kind = "create" => a.client = "memory"
    /\ \A r \in R : r.kind = "start" =>
          /\ ~a.isInOnlineSession /\ ~InLobby(a) /\ a.client = "memory"
          /\ r.code = a.activeGroupId /\ a.items = r.deck
          /\ \A s \in R : s.kind = "start" => s = r

InOrder(a, R, q) ==
    /\ a.screen \notin {"exit", "restart"}
    /\ OutsideGroup(a, R, q) /\ InsideGroup(a, R) /\ Attempting(a, R)
    /\ WaitingForHost(a, q) /\ HostedGroup(a, R, q)

Orderly ==
    \A d \in Devices : /\ InOrder(app[d], requests[d], outbox[d])
                       /\ d \notin Hosts /\ app[d].activeGroupId # Nil => app[d].isInOnlineSession

LEMMA SameRolesHears ==
    ASSUME NEW a, NEW b, SameRoles(a, b)
    PROVE  /\ \A role : Hears(b, role) <=> Hears(a, role)
           /\ Attached(a) = {} => Attached(b) = {}
           /\ a.leaked = {} => b.leaked = {}
           /\ \A c : (\A l \in Attached(a) : l.code = c) => \A l \in Attached(b) : l.code = c
<1>1. /\ \A l \in Attached(a) : \E m \in Attached(b) : m.role = l.role /\ m.code = l.code
      /\ \A m \in Attached(b) : \E l \in Attached(a) : m.role = l.role /\ m.code = l.code
    BY SameRolesAttached
<1> QED BY <1>1 DEF Hears, SameRoles

\* A step that stays in the group and asks for nothing.
LEMMA StaysInOrder ==
    ASSUME NEW a, NEW b, NEW R, NEW Q, NEW q, NEW s,
           InOrder(a, R, q), SameMembership(a, b), SameRoles(a, b), Q \subseteq R,
           NoSets(q) => NoSets(s), q = <<>> => s = <<>>,
           b.items = a.items \/ Hears(a, "wait"),
           \/ b.screen = a.screen \/ b.screen = "closed"
           \/ a.screen = "connect" /\ b.screen = "code"
           \/ a.screen = "lobby" /\ b.screen = "settings"
           \/ a.screen = "cards" /\ b.screen = "list" /\ (a.isOn => Hears(a, "result"))
           \/ a.screen # "closed" /\ b.screen = "frozen" /\ Hears(a, "result")
    PROVE  InOrder(b, Q, s)
<1>1. /\ \A role : Hears(b, role) <=> Hears(a, role)
      /\ Attached(a) = {} => Attached(b) = {}
      /\ a.leaked = {} => b.leaked = {}
      /\ \A c : (\A l \in Attached(a) : l.code = c) => \A l \in Attached(b) : l.code = c
    BY SameRolesHears
<1>2. /\ b.isOn = a.isOn /\ b.groupId = a.groupId /\ b.activeGroupId = a.activeGroupId
      /\ b.isInOnlineSession = a.isInOnlineSession /\ b.client = a.client
    BY DEF SameMembership
<1>3. /\ a.screen \notin {"exit", "restart"}
      /\ OutsideGroup(a, R, q) /\ InsideGroup(a, R) /\ Attempting(a, R)
      /\ WaitingForHost(a, q) /\ HostedGroup(a, R, q)
    BY DEF InOrder
<1>4. Entering(R) = {} => Entering(Q) = {}
    BY DEF Entering
<1>5. Hears(a, "result") => a.activeGroupId # Nil /\ Entering(R) = {}
    BY <1>3 DEF OutsideGroup, InsideGroup, Hears
<1>6. a.screen = "waiting" => ~Hears(a, "result")
    BY <1>3 DEF WaitingForHost, Hears, Attached
<1>7. /\ b.screen \notin {"exit", "restart"}
      /\ InLobby(b) => InLobby(a)
      /\ b.screen = "waiting" => a.screen = "waiting"
      /\ AsksToEnter(b) => AsksToEnter(a)
    BY <1>3 DEF InLobby, AsksToEnter
<1>8. OutsideGroup(b, Q, s)
    BY <1>1, <1>2, <1>3, <1>7 DEF OutsideGroup
<1>9. InsideGroup(b, Q)
    BY <1>1, <1>2, <1>3, <1>4, <1>7 DEF InsideGroup
<1>10. Attempting(b, Q)
    <2>1. Entering(Q) # {} => b.screen \in {"cards", "closed"}
        BY <1>3, <1>4, <1>5 DEF Attempting
    <2> QED BY <1>2, <1>3, <1>4, <1>7, <2>1 DEF Attempting
<1>11. WaitingForHost(b, s)
    <2>1. b.screen = "waiting" => /\ b.leaked = {} /\ b.activeEventListener # Nil
                                  /\ b.activeEventListener.role = "wait"
        BY <1>3, <1>7 DEF WaitingForHost, SameRoles
    <2>2. Hears(a, "wait") => b.screen \in {"waiting", "closed"}
        BY <1>3, <1>6 DEF WaitingForHost
    <2> QED BY <1>1, <1>2, <1>3, <2>1, <2>2 DEF WaitingForHost
<1>12. HostedGroup(b, Q, s)
    <2>1. ASSUME NEW r \in Q, r.kind = "start"
          PROVE  b.items = r.deck
        BY <1>3, <2>1 DEF HostedGroup, WaitingForHost
    <2> QED BY <1>2, <1>3, <1>7, <2>1 DEF HostedGroup
<1> QED BY <1>7, <1>8, <1>9, <1>10, <1>11, <1>12 DEF InOrder

LEMMA OrderlyInit == Init => Orderly
<1> SUFFICES ASSUME Init, NEW d \in Devices
             PROVE  InOrder(app[d], requests[d], outbox[d]) /\ app[d].activeGroupId = Nil
    BY DEF Orderly
<1>1. PICK deck : app[d] = LaunchedApp(deck, 0) /\ requests[d] = {} /\ outbox[d] = <<>>
    BY DEF Init
<1>2. /\ app[d].screen = "cards" /\ app[d].activeGroupId = Nil /\ ~app[d].isInOnlineSession
      /\ app[d].activeEventListener = Nil /\ app[d].leaked = {} /\ app[d].client = "idle"
    BY <1>1 DEF LaunchedApp
<1>3. Attached(app[d]) = {}
    BY <1>2 DEF Attached
<1> QED BY <1>1, <1>2, <1>3, NoSetsInEmpty
        DEF InOrder, OutsideGroup, InsideGroup, Attempting, WaitingForHost, HostedGroup,
            InLobby, AsksToEnter, Entering, Hears

\* An attempt to enter a group is made outside of one.
LEMMA AttemptsOutside ==
    ASSUME NEW a, NEW R, NEW q, InOrder(a, R, q), OneAttempt(a, R),
           AsksToEnter(a) \/ \E r \in R : r.kind \in {"create", "join"}
    PROVE  /\ a.activeGroupId = Nil /\ a.isOn
           /\ Attached(a) = {} /\ ~a.isInOnlineSession /\ NoSets(q)
           /\ \A r \in R : r.kind # "start"
           /\ a.client = "memory" => q = <<>>
           /\ ~AsksToEnter(a) => a.screen \in {"cards", "closed"}
           /\ AsksToEnter(a) => Entering(R) = {}
<1>1. OutsideGroup(a, R, q) /\ InsideGroup(a, R) /\ Attempting(a, R)
    BY DEF InOrder
<1>2. (\E r \in R : r.kind \in {"create", "join"}) => Entering(R) # {}
    BY DEF Entering
<1>3. a.activeGroupId = Nil
    BY <1>1, <1>2 DEF InsideGroup
<1> QED BY <1>1, <1>2, <1>3 DEF OutsideGroup, Attempting, OneAttempt

\* An app outside of all groups.
LEMMA OutsideInOrder ==
    ASSUME NEW b, NEW R, NEW q,
           b.activeGroupId = Nil, Attached(b) = {}, ~b.isInOnlineSession, NoSets(q),
           \A r \in R : r.kind # "start",
           b.client = "memory" => q = <<>>,
           \A r \in R : r.kind = "create" => b.client = "memory",
           b.screen \in {"cards", "connect", "code", "frozen"},
           Entering(R) # {} => b.screen = "cards" /\ b.isOn,
           AsksToEnter(b) => b.isOn
    PROVE  InOrder(b, R, q)
<1>1. ~Hears(b, "wait") /\ ~InLobby(b) /\ b.screen # "waiting"
    BY DEF Hears, InLobby
<1> QED BY <1>1
        DEF InOrder, OutsideGroup, InsideGroup, Attempting, WaitingForHost, HostedGroup

LEMMA SwitchesOnInOrder ==
    ASSUME NEW d, InOrder(app[d], requests[d], outbox[d]), SwitchesOn(d)
    PROVE  InOrder(app'[d], requests'[d], outbox'[d]) /\ app'[d].activeGroupId = Nil
<1> DEFINE a == app[d]
           b == app'[d]
           R == requests[d]
           q == outbox[d]
<1>1. /\ ~a.isOn /\ Entering(R) = {} /\ b.screen = "connect" /\ b.isOn
      /\ b.activeGroupId = a.activeGroupId /\ b.isInOnlineSession = a.isInOnlineSession
      /\ b.client = a.client /\ Attached(b) = Attached(a)
      /\ requests'[d] = R /\ outbox'[d] = q
    BY DEF SwitchesOn, MovesAlone, SameListeners, Attached
<1>2. a.activeGroupId = Nil
    BY <1>1 DEF InOrder, InsideGroup
<1>3. /\ Attached(a) = {} /\ ~a.isInOnlineSession /\ NoSets(q)
      /\ \A r \in R : r.kind # "start"
      /\ a.client = "memory" => q = <<>>
    BY <1>2 DEF InOrder, OutsideGroup
<1>4. \A r \in R : r.kind # "create"
    BY <1>1 DEF Entering
<1> HIDE DEF a, b, R, q
<1>5. InOrder(b, R, q)
    BY <1>1, <1>2, <1>3, <1>4, OutsideInOrder
<1> QED BY <1>1, <1>2, <1>5 DEF a, b, R, q

LEMMA AsksInOrder ==
    ASSUME IInv, NEW d \in Devices, InOrder(app[d], requests[d], outbox[d]),
           AsksToJoin(d) \/ AsksToCreate(d)
    PROVE  InOrder(app'[d], requests'[d], outbox'[d]) /\ app'[d].activeGroupId = Nil
<1> DEFINE a == app[d]
           b == app'[d]
           R == requests[d]
           q == outbox[d]
<1>1. PICK r :
          /\ requests'[d] = R \cup {r}
          /\ r.kind \in {"create", "join"}
          /\ r.kind = "create" => b.client = "memory"
          /\ \/ outbox'[d] = q /\ (b.client = "memory" => a.client = "memory")
             \/ outbox'[d] = <<>>
          /\ AsksToEnter(a) /\ b.screen = "cards"
          /\ b.isOn = a.isOn /\ b.activeGroupId = a.activeGroupId
          /\ b.isInOnlineSession = a.isInOnlineSession /\ Attached(b) = Attached(a)
    <2>1. CASE AsksToJoin(d)
        <3>1. PICK c : Asks(d, "code", [kind |-> "join", code |-> c],
                            IF a.client = "idle" THEN "persistent" ELSE a.client)
                       /\ outbox'[d] = q
            BY <2>1 DEF AsksToJoin
        <3> DEFINE r == [kind |-> "join", code |-> c]
        <3>2. r.kind = "join"
            OBVIOUS
        <3> HIDE DEF r
        <3>3. /\ requests'[d] = R \cup {r} /\ a.screen = "code" /\ b.screen = "cards"
              /\ b.client = IF a.client = "idle" THEN "persistent" ELSE a.client
              /\ b.isOn = a.isOn /\ b.activeGroupId = a.activeGroupId
              /\ b.isInOnlineSession = a.isInOnlineSession /\ SameListeners(a, b)
            BY <3>1 DEF Asks, r
        <3>4. AsksToEnter(a) /\ Attached(b) = Attached(a)
            BY <3>3 DEF AsksToEnter, SameListeners, Attached
        <3> QED BY <3>1, <3>2, <3>3, <3>4
    <2>2. CASE AsksToCreate(d)
        <3> DEFINE r == [kind |-> "create"]
        <3>1. r.kind = "create"
            OBVIOUS
        <3> HIDE DEF r
        <3>2. /\ requests'[d] = R \cup {r} /\ a.screen = "connect" /\ b.screen = "cards"
              /\ b.client = "memory" /\ a.client # "persistent"
              /\ b.isOn = a.isOn /\ b.activeGroupId = a.activeGroupId
              /\ b.isInOnlineSession = a.isInOnlineSession /\ SameListeners(a, b)
              /\ outbox'[d] = IF a.client = "idle" THEN <<>> ELSE q
            BY <2>2 DEF AsksToCreate, Asks, r
        <3>3. AsksToEnter(a) /\ Attached(b) = Attached(a)
            BY <3>2 DEF AsksToEnter, SameListeners, Attached
        <3>4. a.client \in {"idle", "persistent", "memory"}
            BY Unchanged DEF Apps
        <3> QED BY <3>1, <3>2, <3>3, <3>4
    <2> QED BY <2>1, <2>2
<1>2. /\ a.activeGroupId = Nil /\ a.isOn
      /\ Attached(a) = {} /\ ~a.isInOnlineSession /\ NoSets(q)
      /\ \A s \in R : s.kind # "start"
      /\ a.client = "memory" => q = <<>>
      /\ Entering(R) = {}
    BY <1>1, Unchanged, AttemptsOutside
<1>3. \A s \in R : s.kind # "create"
    BY <1>2 DEF Entering
<1>4. NoSets(outbox'[d]) /\ (b.client = "memory" => outbox'[d] = <<>>)
    BY <1>1, <1>2, NoSetsInEmpty
<1> HIDE DEF a, b, R, q
<1>5. ~AsksToEnter(b)
    BY <1>1 DEF AsksToEnter
<1>6. InOrder(b, R \cup {r}, outbox'[d])
    BY <1>1, <1>2, <1>3, <1>4, <1>5, OutsideInOrder
<1> QED BY <1>1, <1>2, <1>6 DEF a, b, R, q

LEMMA LaunchesInOrder ==
    ASSUME NEW d, InOrder(app[d], requests[d], outbox[d]), Launches(d)
    PROVE  InOrder(app'[d], requests'[d], outbox'[d]) /\ app'[d].activeGroupId = Nil
<1> DEFINE b == app'[d]
           q == outbox[d]
<1>1. /\ requests'[d] = {} /\ outbox'[d] \in {<<>>, q}
      /\ app[d].client = "memory" => outbox'[d] = <<>>
      /\ b.screen = "cards" /\ b.activeGroupId = Nil /\ ~b.isInOnlineSession
      /\ b.activeEventListener = Nil /\ b.leaked = {} /\ b.client = "idle"
    BY DEF Launches, LaunchedApp
<1>2. NoSets(outbox'[d])
    BY <1>1, NoSetsInEmpty DEF InOrder, HostedGroup
<1>3. Attached(b) = {} /\ Entering({}) = {} /\ ~AsksToEnter(b)
    BY <1>1 DEF Attached, Entering, AsksToEnter
<1> HIDE DEF b, q
<1>4. InOrder(b, {}, outbox'[d])
    BY <1>1, <1>2, <1>3, OutsideInOrder
<1> QED BY <1>1, <1>4 DEF b

\* The app of a device whose attempt r to enter a group is answered.
LEMMA AnsweredOutside ==
    ASSUME IInv, NEW d \in Devices, InOrder(app[d], requests[d], outbox[d]),
           NEW r \in requests[d], r.kind \in {"create", "join"}, Answers(d, r)
    PROVE  LET a == app[d]
               R == requests'[d]
           IN
           /\ a.activeGroupId = Nil /\ a.isOn /\ a.screen = "cards"
           /\ Attached(a) = {} /\ ~a.isInOnlineSession /\ NoSets(outbox[d])
           /\ R = requests[d] \ {r} /\ Entering(R) = {}
           /\ \A s \in R : s.kind \notin {"start", "create", "join"}
           /\ a.client = "memory" => outbox[d] = <<>>
           /\ r.kind = "create" => a.client = "memory"
<1>1. OneAttempt(app[d], requests[d])
    BY Unchanged
<1>2. /\ requests'[d] = requests[d] \ {r} /\ app[d].screen # "closed"
    BY DEF Answers, Alive
<1>3. /\ Entering(requests'[d]) = {} /\ ~AsksToEnter(app[d])
    BY <1>1, <1>2, AttemptAnswered
<1>4. /\ app[d].activeGroupId = Nil /\ app[d].isOn
      /\ Attached(app[d]) = {} /\ ~app[d].isInOnlineSession /\ NoSets(outbox[d])
      /\ \A s \in requests[d] : s.kind # "start"
      /\ app[d].client = "memory" => outbox[d] = <<>>
      /\ app[d].screen = "cards"
    BY <1>1, <1>2, <1>3, AttemptsOutside
<1>5. r.kind = "create" => app[d].client = "memory"
    BY DEF InOrder, HostedGroup
<1>6. \A s \in requests'[d] : s.kind \notin {"start", "create", "join"}
    BY <1>2, <1>3, <1>4 DEF Entering
<1> QED BY <1>2, <1>3, <1>4, <1>5, <1>6

LEMMA JoinsInOrder ==
    ASSUME IInv, NEW d \in Devices, InOrder(app[d], requests[d], outbox[d]), Joins(d)
    PROVE  /\ InOrder(app'[d], requests'[d], outbox'[d])
           /\ app'[d].activeGroupId # Nil => app'[d].isInOnlineSession
<1> DEFINE a == app[d]
           b == app'[d]
           R == requests'[d]
           s == outbox'[d]
<1>1. PICK r \in requests[d] :
          LET c == r.code IN
          /\ Answers(d, r) /\ r.kind = "join" /\ c \in Codes
          /\ \/ b = a /\ s = outbox[d]
             \/ /\ b.isOn = a.isOn
                /\ b.screen = IF a.screen = "cards" THEN "waiting" ELSE a.screen
                /\ b.groupId = c /\ b.activeGroupId = c /\ b.isInOnlineSession
                /\ b.activeEventListener = [role |-> "wait", code |-> c, seen |-> Nil]
                /\ b.leaked = Attached(a)
    BY DEF Joins
<1>2. /\ a.activeGroupId = Nil /\ a.isOn /\ a.screen = "cards"
      /\ Attached(a) = {} /\ ~a.isInOnlineSession /\ NoSets(outbox[d])
      /\ Entering(R) = {}
      /\ \A x \in R : x.kind \notin {"start", "create", "join"}
      /\ a.client = "memory" => outbox[d] = <<>>
    BY <1>1, AnsweredOutside
<1>3. NoSets(s)
    BY <1>2, SmallWrites
<1>4. CASE b = a /\ s = outbox[d]
    <2>1. ~AsksToEnter(a)
        BY <1>2 DEF AsksToEnter
    <2> HIDE DEF a, b, R, s
    <2>2. InOrder(b, R, s)
        BY <1>2, <1>3, <1>4, <2>1, OutsideInOrder
    <2> QED BY <1>2, <1>4, <2>2 DEF a, b, R, s
<1>5. CASE /\ b.isOn = a.isOn
           /\ b.screen = IF a.screen = "cards" THEN "waiting" ELSE a.screen
           /\ b.groupId = r.code /\ b.activeGroupId = r.code /\ b.isInOnlineSession
           /\ b.activeEventListener = [role |-> "wait", code |-> r.code, seen |-> Nil]
           /\ b.leaked = Attached(a)
    <2> DEFINE l == [role |-> "wait", code |-> r.code, seen |-> Nil]
    <2>1. l # Nil /\ l.role = "wait" /\ l.code = r.code /\ r.code # Nil
        BY <1>1, ListenersAssumption, NilAssumption DEF Listeners
    <2> HIDE DEF l
    <2>2. /\ b.isOn /\ b.screen = "waiting" /\ b.groupId = r.code /\ b.activeGroupId = r.code
          /\ b.isInOnlineSession /\ b.activeEventListener = l /\ b.leaked = {}
        BY <1>2, <1>5 DEF l
    <2>3. Attached(b) = {l} /\ ~InLobby(b) /\ ~AsksToEnter(b)
        BY <2>1, <2>2 DEF Attached, InLobby, AsksToEnter
    <2> HIDE DEF a, b, R, s
    <2>4. InOrder(b, R, s)
        BY <1>2, <1>3, <2>1, <2>2, <2>3
           DEF InOrder, OutsideGroup, InsideGroup, Attempting, WaitingForHost, HostedGroup
    <2> QED BY <2>2, <2>4 DEF b, R, s
<1> QED BY <1>1, <1>4, <1>5

LEMMA CreatesInOrder ==
    ASSUME IInv, NEW d \in Devices, InOrder(app[d], requests[d], outbox[d]), Creates(d)
    PROVE  InOrder(app'[d], requests'[d], outbox'[d])
<1> DEFINE a == app[d]
           b == app'[d]
           R == requests'[d]
           s == outbox'[d]
<1>1. PICK r \in requests[d] :
          /\ Answers(d, r) /\ r.kind = "create" /\ b.client = a.client
          /\ \/ /\ s = outbox[d]
                /\ b.leaked = a.leaked /\ b.activeEventListener \in {Nil, a.activeEventListener}
                /\ b.screen \in {a.screen, "frozen"}
                /\ b.activeGroupId = a.activeGroupId
                /\ b.isInOnlineSession = a.isInOnlineSession
             \/ \E c \in Codes :
                   /\ b.screen = IF a.screen = "cards" THEN "lobby" ELSE a.screen
                   /\ b.isOn = a.isOn /\ b.groupId = c /\ b.activeGroupId = c
                   /\ b.isInOnlineSession = a.isInOnlineSession
                   /\ b.activeEventListener = [role |-> "lobby", code |-> c, seen |-> Nil]
                   /\ b.leaked = Attached(a)
    BY DEF Creates
<1>2. /\ a.activeGroupId = Nil /\ a.isOn /\ a.screen = "cards"
      /\ Attached(a) = {} /\ ~a.isInOnlineSession /\ NoSets(outbox[d])
      /\ Entering(R) = {}
      /\ \A x \in R : x.kind \notin {"start", "create", "join"}
      /\ a.client = "memory" /\ outbox[d] = <<>>
    BY <1>1, AnsweredOutside
<1>3. CASE /\ s = outbox[d]
           /\ b.leaked = a.leaked /\ b.activeEventListener \in {Nil, a.activeEventListener}
           /\ b.screen \in {a.screen, "frozen"}
           /\ b.activeGroupId = a.activeGroupId
           /\ b.isInOnlineSession = a.isInOnlineSession
    <2>1. Attached(b) = {} /\ ~AsksToEnter(b) /\ b.screen \in {"cards", "frozen"}
        BY <1>2, <1>3 DEF AsksToEnter, Attached
    <2> HIDE DEF a, b, R, s
    <2>2. InOrder(b, R, s)
        BY <1>2, <1>3, <2>1, OutsideInOrder
    <2> QED BY <2>2 DEF b, R, s
<1>4. ASSUME NEW c \in Codes,
             b.screen = IF a.screen = "cards" THEN "lobby" ELSE a.screen,
             b.isOn = a.isOn, b.groupId = c, b.activeGroupId = c,
             b.isInOnlineSession = a.isInOnlineSession,
             b.activeEventListener = [role |-> "lobby", code |-> c, seen |-> Nil],
             b.leaked = Attached(a)
      PROVE  InOrder(b, R, s)
    <2> DEFINE l == [role |-> "lobby", code |-> c, seen |-> Nil]
    <2>1. l # Nil /\ l.role = "lobby" /\ l.code = c /\ c # Nil
        BY <1>4, ListenersAssumption, NilAssumption DEF Listeners
    <2> HIDE DEF l
    <2>2. /\ b.isOn /\ b.screen = "lobby" /\ b.groupId = c /\ b.activeGroupId = c
          /\ ~b.isInOnlineSession /\ b.activeEventListener = l /\ b.leaked = {}
          /\ b.client = "memory"
        BY <1>1, <1>2, <1>4 DEF l
    <2>3. Attached(b) = {l} /\ ~AsksToEnter(b)
        BY <2>1, <2>2 DEF Attached, AsksToEnter
    <2>4. ~Hears(b, "wait")
        BY <2>1, <2>3 DEF Hears
    <2> HIDE DEF a, b, R, s
    <2> QED BY <1>2, <2>1, <2>2, <2>3, <2>4
           DEF InOrder, OutsideGroup, InsideGroup, Attempting, WaitingForHost, HostedGroup
<1> QED BY <1>1, <1>3, <1>4

LEMMA LosesInOrder ==
    ASSUME IInv, NEW d \in Devices, InOrder(app[d], requests[d], outbox[d]), LosesRequest(d)
    PROVE  /\ InOrder(app'[d], requests'[d], outbox'[d])
           /\ app'[d] = app[d] \/ app'[d].activeGroupId = Nil
<1> DEFINE a == app[d]
           b == app'[d]
           R == requests'[d]
           s == outbox'[d]
<1>1. PICK r \in requests[d] :
          /\ Answers(d, r) /\ s = outbox[d]
          /\ \/ b = a
             \/ /\ r.kind \in {"create", "join"}
                /\ b.leaked = a.leaked /\ b.activeEventListener = Nil
                /\ b.screen = a.screen /\ b.activeGroupId = a.activeGroupId
                /\ b.isInOnlineSession = a.isInOnlineSession /\ b.client = a.client
    BY DEF LosesRequest
<1>2. CASE b = a
    <2>1. SameMembership(a, b) /\ SameRoles(a, b)
        BY <1>2 DEF SameMembership, SameRoles
    <2>2. R \subseteq requests[d]
        BY <1>1 DEF Answers
    <2> HIDE DEF a, b, R, s
    <2>3. InOrder(b, R, s)
        BY <1>1, <1>2, <2>1, <2>2, StaysInOrder DEF a
    <2> QED BY <1>2, <2>3 DEF a, b, R, s
<1>3. CASE /\ r.kind \in {"create", "join"}
           /\ b.leaked = a.leaked /\ b.activeEventListener = Nil
           /\ b.screen = a.screen /\ b.activeGroupId = a.activeGroupId
           /\ b.isInOnlineSession = a.isInOnlineSession /\ b.client = a.client
    <2>1. /\ a.activeGroupId = Nil /\ a.screen = "cards"
          /\ Attached(a) = {} /\ ~a.isInOnlineSession /\ NoSets(outbox[d])
          /\ Entering(R) = {}
          /\ \A x \in R : x.kind \notin {"start", "create", "join"}
          /\ a.client = "memory" => outbox[d] = <<>>
        BY <1>1, <1>3, AnsweredOutside
    <2>2. Attached(b) = {} /\ ~AsksToEnter(b)
        BY <1>3, <2>1 DEF AsksToEnter, Attached
    <2> HIDE DEF a, b, R, s
    <2>3. InOrder(b, R, s)
        BY <1>1, <1>3, <2>1, <2>2, OutsideInOrder
    <2> QED BY <1>3, <2>1, <2>3 DEF a, b, R, s
<1> QED BY <1>1, <1>2, <1>3

LEMMA DealsInOrder ==
    ASSUME NEW d, InOrder(app[d], requests[d], outbox[d]), DealsDeck(d)
    PROVE  InOrder(app'[d], requests'[d], outbox'[d])
<1> DEFINE a == app[d]
           b == app'[d]
           R == requests[d]
           Q == requests'[d]
           q == outbox[d]
<1>1. PICK deck \in HostDecks :
          /\ outbox'[d] = q /\ SameMembership(a, b) /\ SameListeners(a, b)
          /\ a.screen = "settings" /\ b.screen = "cards" /\ b.items = deck
          /\ Q = IF a.activeGroupId = Nil THEN R
                 ELSE R \cup {[kind |-> "start", code |-> a.activeGroupId, deck |-> deck]}
    BY DEF DealsDeck
<1> DEFINE r == [kind |-> "start", code |-> a.activeGroupId, deck |-> deck]
<1>2. r.kind = "start" /\ r.code = a.activeGroupId /\ r.deck = deck
    OBVIOUS
<1>3. /\ OutsideGroup(a, R, q) /\ InsideGroup(a, R) /\ Attempting(a, R)
      /\ WaitingForHost(a, q) /\ HostedGroup(a, R, q) /\ InLobby(a)
    BY <1>1 DEF InOrder, InLobby
<1>4. /\ a.activeGroupId # Nil /\ ~a.isInOnlineSession /\ a.client = "memory"
      /\ a.groupId = a.activeGroupId /\ a.isOn /\ Entering(R) = {}
      /\ \A l \in Attached(a) : l.code = a.activeGroupId
      /\ ~Hears(a, "wait")
      /\ \A x \in R : x.kind # "start"
    BY <1>1, <1>3 DEF OutsideGroup, InsideGroup, WaitingForHost, HostedGroup
<1> HIDE DEF r
<1>5. Q = R \cup {r}
    BY <1>1, <1>4 DEF r
<1>6. Attached(b) = Attached(a) /\ ~Hears(b, "wait")
    BY <1>1, <1>4 DEF SameListeners, Attached, Hears
<1>7. Entering(Q) = {} /\ \A x \in Q : x.kind \notin {"create", "join"}
    BY <1>2, <1>4, <1>5 DEF Entering
<1>8. ~InLobby(b) /\ ~AsksToEnter(b)
    BY <1>1 DEF InLobby, AsksToEnter
<1>9. /\ b.activeGroupId = a.activeGroupId /\ b.groupId = a.groupId /\ b.isOn = a.isOn
      /\ b.isInOnlineSession = a.isInOnlineSession /\ b.client = a.client
    BY <1>1 DEF SameMembership
<1>10. \A x \in Q : x.kind = "start" => x = r
    BY <1>2, <1>4, <1>5
<1> HIDE DEF a, b, R, Q, q
<1>11. OutsideGroup(b, Q, q) /\ InsideGroup(b, Q) /\ Attempting(b, Q) /\ WaitingForHost(b, q)
    BY <1>1, <1>4, <1>6, <1>7, <1>8, <1>9
       DEF OutsideGroup, InsideGroup, Attempting, WaitingForHost
<1>12. HostedGroup(b, Q, q)
    BY <1>1, <1>2, <1>4, <1>7, <1>8, <1>9, <1>10 DEF HostedGroup
<1>13. InOrder(b, Q, q)
    BY <1>1, <1>11, <1>12 DEF InOrder
<1> QED BY <1>1, <1>13 DEF b, Q, q

LEMMA StartsInOrder ==
    ASSUME NEW d, InOrder(app[d], requests[d], outbox[d]), StartsGroup(d)
    PROVE  InOrder(app'[d], requests'[d], outbox'[d])
<1> DEFINE a == app[d]
           b == app'[d]
           R == requests[d]
           Q == requests'[d]
           q == outbox[d]
           s == outbox'[d]
<1>1. PICK r \in R :
          /\ Q = R \ {r} /\ r.kind = "start" /\ r.code \in Codes
          /\ \/ b = a /\ s = q
             \/ /\ SameListeners(a, b) /\ SameCards(a, b)
                /\ b.screen = a.screen /\ b.isInOnlineSession
                /\ b.isOn = a.isOn /\ b.groupId = a.groupId /\ b.activeGroupId = a.activeGroupId
                /\ b.client = a.client
    BY DEF StartsGroup, Answers
<1>2. CASE b = a /\ s = q
    <2>1. SameMembership(a, b) /\ SameRoles(a, b)
        BY <1>2 DEF SameMembership, SameRoles
    <2> HIDE DEF a, b, R, Q, q, s
    <2>2. InOrder(b, Q, s)
        BY <1>1, <1>2, <2>1, StaysInOrder DEF a, R, q
    <2> QED BY <2>2 DEF b, Q, s
<1>3. CASE /\ SameListeners(a, b) /\ SameCards(a, b)
           /\ b.screen = a.screen /\ b.isInOnlineSession
           /\ b.isOn = a.isOn /\ b.groupId = a.groupId /\ b.activeGroupId = a.activeGroupId
           /\ b.client = a.client
    <2>1. /\ OutsideGroup(a, R, q) /\ InsideGroup(a, R) /\ Attempting(a, R)
          /\ WaitingForHost(a, q) /\ HostedGroup(a, R, q) /\ a.screen \notin {"exit", "restart"}
        BY DEF InOrder
    <2>2. /\ ~a.isInOnlineSession /\ ~InLobby(a) /\ a.client = "memory"
          /\ r.code = a.activeGroupId
          /\ \A x \in R : x.kind = "start" => x = r
        BY <1>1, <2>1 DEF HostedGroup
    <2>3. /\ a.activeGroupId # Nil /\ a.groupId = a.activeGroupId /\ a.isOn
          /\ Entering(R) = {} /\ ~AsksToEnter(a)
          /\ \A l \in Attached(a) : l.code = a.activeGroupId
        BY <1>1, <2>1, <2>2, NilAssumption DEF InsideGroup
    <2>4. ~Hears(a, "wait") /\ a.screen # "waiting"
        BY <2>1, <2>2 DEF WaitingForHost, Hears, Attached
    <2>5. /\ \A x \in Q : x \in R /\ x.kind \notin {"start", "create", "join"}
          /\ Entering(Q) = {}
        BY <1>1, <2>2, <2>3 DEF Entering
    <2>6. Attached(b) = Attached(a) /\ ~Hears(b, "wait")
        BY <1>3, <2>4 DEF SameListeners, Attached, Hears
    <2>7. ~InLobby(b) /\ ~AsksToEnter(b)
        BY <1>3, <2>2, <2>3 DEF InLobby, AsksToEnter
    <2> HIDE DEF a, b, R, Q, q, s
    <2>8. InOrder(b, Q, s)
        BY <1>3, <2>1, <2>2, <2>3, <2>4, <2>5, <2>6, <2>7
           DEF InOrder, OutsideGroup, InsideGroup, Attempting, WaitingForHost, HostedGroup
    <2> QED BY <2>8 DEF b, Q, s
<1> QED BY <1>1, <1>2, <1>3

LEMMA RunsOutInOrder ==
    ASSUME IInv, NEW d \in Devices, InOrder(app[d], requests[d], outbox[d]), RunsOut(d)
    PROVE  InOrder(app'[d], requests'[d], outbox'[d])
<1> DEFINE a == app[d]
           b == app'[d]
           R == requests[d]
           q == outbox[d]
           s == outbox'[d]
           l == [role |-> "result", code |-> a.activeGroupId, seen |-> Nil]
<1>1. /\ requests'[d] = R /\ a.screen = "cards" /\ b.screen = "cards" /\ b.items = a.items
      /\ SameMembership(a, b) /\ a.activeGroupId \in Codes
      /\ b.activeEventListener = l /\ b.leaked = Attached(a)
    BY DEF RunsOut
<1>2. NoSets(q) => NoSets(s)
    BY SmallWrites
<1>3. l.role = "result" /\ l.code = a.activeGroupId /\ l # Nil /\ a.activeGroupId # Nil
    BY <1>1, ListenersAssumption, NilAssumption DEF Listeners
<1> HIDE DEF l
<1>4. Attached(b) = Attached(a) \cup {l}
    BY <1>1, <1>3 DEF Attached
<1>5. /\ InsideGroup(a, R) /\ WaitingForHost(a, q) /\ HostedGroup(a, R, q)
    BY DEF InOrder
<1>6. ~Hears(a, "wait") /\ ~Hears(b, "wait")
    BY <1>1, <1>3, <1>4, <1>5 DEF WaitingForHost, Hears
<1>7. /\ a.groupId = a.activeGroupId /\ a.isOn /\ Entering(R) = {}
      /\ \A k \in Attached(b) : k.code = a.activeGroupId
    BY <1>3, <1>4, <1>5 DEF InsideGroup
<1>8. /\ b.activeGroupId = a.activeGroupId /\ b.groupId = a.groupId /\ b.isOn = a.isOn
      /\ b.isInOnlineSession = a.isInOnlineSession /\ b.client = a.client
    BY <1>1 DEF SameMembership
<1>9. ~InLobby(a) /\ ~InLobby(b) /\ ~AsksToEnter(b)
    BY <1>1 DEF InLobby, AsksToEnter
<1> HIDE DEF a, b, R, q, s
<1>10. InsideGroup(b, R) /\ OutsideGroup(b, R, s) /\ Attempting(b, R) /\ WaitingForHost(b, s)
    BY <1>1, <1>3, <1>6, <1>7, <1>8, <1>9
       DEF InsideGroup, OutsideGroup, Attempting, WaitingForHost
<1>11. HostedGroup(b, R, s)
    BY <1>1, <1>2, <1>5, <1>8, <1>9 DEF HostedGroup
<1>12. InOrder(b, R, s)
    BY <1>1, <1>10, <1>11 DEF InOrder
<1> QED BY <1>1, <1>12 DEF b, R, s

\* Who starts was waiting.
LEMMA StarterWaited ==
    ASSUME NEW d, InOrder(app[d], requests[d], outbox[d]),
           Hears(app[d], "wait"), app[d].screen \notin {"frozen", "closed"}
    PROVE  /\ app[d].screen = "waiting" /\ app[d].leaked = {} /\ app[d].isInOnlineSession
           /\ NoSets(outbox[d]) /\ app[d].activeGroupId # Nil
           /\ \A r \in requests[d] : r.kind # "start"
           /\ \A l \in Attached(app[d]) : l.code = app[d].activeGroupId
<1>1. /\ app[d].screen = "waiting" /\ app[d].leaked = {} /\ app[d].isInOnlineSession
      /\ NoSets(outbox[d])
    BY DEF InOrder, WaitingForHost
<1>2. app[d].activeGroupId # Nil
    BY <1>1 DEF InOrder, OutsideGroup
<1> QED BY <1>1, <1>2 DEF InOrder, InsideGroup, HostedGroup

LEMMA StartInOrder ==
    ASSUME NEW d, InOrder(app[d], requests[d], outbox[d]), Starts(d)
    PROVE  InOrder(app'[d], requests'[d], outbox'[d])
<1> DEFINE a == app[d]
           b == app'[d]
           R == requests[d]
           q == outbox[d]
<1>1. /\ Hears(a, "wait") /\ a.screen \notin {"frozen", "closed"}
      /\ requests'[d] = R /\ outbox'[d] = q
      /\ b.screen = "cards" /\ SameMembership(a, b) /\ b.activeEventListener = Nil
      /\ \A m \in b.leaked : m \in b.leaked => a.leaked # {}
    BY DEF Starts, MovesAlone, Hears
<1>2. /\ a.leaked = {} /\ a.isInOnlineSession /\ NoSets(q) /\ a.activeGroupId # Nil
      /\ \A r \in R : r.kind # "start"
    BY <1>1, StarterWaited
<1>3. Attached(b) = {} /\ ~Hears(b, "wait")
    BY <1>1, <1>2 DEF Attached, Hears
<1>4. a.groupId = a.activeGroupId /\ a.isOn /\ Entering(R) = {}
    BY <1>2 DEF InOrder, InsideGroup
<1>5. /\ b.activeGroupId = a.activeGroupId /\ b.groupId = a.groupId /\ b.isOn = a.isOn
      /\ b.isInOnlineSession = a.isInOnlineSession /\ b.client = a.client
    BY <1>1 DEF SameMembership
<1>6. \A r \in R : r.kind # "create"
    BY <1>4 DEF Entering
<1>7. ~InLobby(b) /\ ~AsksToEnter(b)
    BY <1>1 DEF InLobby, AsksToEnter
<1> HIDE DEF a, b, R, q
<1>8. InOrder(b, R, q)
    BY <1>1, <1>2, <1>3, <1>4, <1>5, <1>6, <1>7
       DEF InOrder, OutsideGroup, InsideGroup, Attempting, WaitingForHost, HostedGroup
<1> QED BY <1>1, <1>8 DEF b, R, q

LEMMA OrderlyStep ==
    ASSUME NobodyLeaves, IInv, Guests, Orderly, Next
    PROVE  Orderly'
<1>1. PICK d \in Devices :
              \/ Idles(d) \/ Crashes(d) \/ SwitchesOn(d) \/ AsksToJoin(d) \/ AsksToCreate(d)
              \/ Joins(d) \/ Creates(d) \/ DealsDeck(d) \/ StartsGroup(d) \/ RunsOut(d)
              \/ Starts(d) \/ LosesRequest(d) \/ Launches(d) \/ Delivers(d)
              \/ Leaves(d) \/ SignsOff(d)
    BY NextCases
<1> DEFINE a == app[d]
           b == app'[d]
           Calm == d \notin Hosts /\ b.activeGroupId # Nil => b.isInOnlineSession
<1>2. /\ InOrder(a, requests[d], outbox[d])
      /\ d \notin Hosts /\ a.activeGroupId # Nil => a.isInOnlineSession
      /\ d \notin Hosts => ~InLobby(a) /\ \A r \in requests[d] : r.kind \notin {"create", "start"}
      /\ \A r \in requests[d] : r.kind # "remove"
    BY DEF Orderly, Guests, Guest
<1>3. ASSUME Moves(d), InOrder(b, requests'[d], outbox'[d]), Calm
      PROVE  Orderly'
    BY <1>3 DEF Orderly, Moves
<1>4. SameMembership(a, b) => Calm
    BY <1>2 DEF SameMembership
<1>5. CASE Delivers(d)
    <2>1. /\ app' = app /\ requests' = requests
          /\ \A e \in Devices \ {d} : outbox'[e] = outbox[e]
          /\ outbox[d] # <<>> /\ outbox'[d] = Tail(outbox[d])
        BY <1>5 DEF Delivers
    <2>2. NoSets(outbox[d]) => NoSets(Tail(outbox[d]))
        BY <2>1, OutboxTypes, NoSetsKept
    <2>3. SameMembership(a, a) /\ SameRoles(a, a)
        BY DEF SameMembership, SameRoles
    <2> HIDE DEF a
    <2>4. InOrder(a, requests[d], Tail(outbox[d]))
        BY <1>2, <2>1, <2>2, <2>3, StaysInOrder
    <2> QED BY <2>1, <2>4 DEF Orderly, a
<1>6. CASE Idles(d) \/ Crashes(d)
    <2>1. /\ SameMembership(a, b) /\ SameRoles(a, b)
          /\ requests'[d] = requests[d] /\ outbox'[d] = outbox[d]
          /\ b.items = a.items \/ Hears(a, "wait")
          /\ \/ b.screen = a.screen \/ b.screen = "closed"
             \/ a.screen = "connect" /\ b.screen = "code"
             \/ a.screen = "lobby" /\ b.screen = "settings"
             \/ a.screen = "cards" /\ b.screen = "list" /\ (a.isOn => Hears(a, "result"))
             \/ a.screen # "closed" /\ b.screen = "frozen" /\ Hears(a, "result")
        BY <1>6 DEF Idles, Crashes, MovesAlone
    <2> HIDE DEF a, b, Calm
    <2>2. InOrder(b, requests'[d], outbox'[d])
        BY <1>2, <2>1, StaysInOrder
    <2> QED BY <1>3, <1>4, <1>6, <2>1, <2>2, StepsMove
<1>7. CASE SwitchesOn(d) \/ AsksToJoin(d) \/ AsksToCreate(d) \/ Launches(d)
    BY <1>2, <1>3, <1>7, SwitchesOnInOrder, AsksInOrder, LaunchesInOrder, StepsMove
<1>8. CASE Joins(d)
    BY <1>2, <1>3, <1>8, JoinsInOrder, StepsMove
<1>9. CASE Creates(d) \/ StartsGroup(d)
    <2>1. d \in Hosts
        BY <1>2, <1>9 DEF Creates, StartsGroup
    <2> QED BY <1>2, <1>3, <1>9, <2>1, CreatesInOrder, StartsInOrder, StepsMove
<1>10. CASE DealsDeck(d)
    <2>1. SameMembership(a, b)
        BY <1>10 DEF DealsDeck
    <2> QED BY <1>2, <1>3, <1>4, <1>10, <2>1, DealsInOrder, StepsMove
<1>11. CASE RunsOut(d)
    <2>1. SameMembership(a, b)
        BY <1>11 DEF RunsOut
    <2> QED BY <1>2, <1>3, <1>4, <1>11, <2>1, RunsOutInOrder, StepsMove
<1>12. CASE Starts(d)
    <2>1. SameMembership(a, b)
        BY <1>12 DEF Starts
    <2> QED BY <1>2, <1>3, <1>4, <1>12, <2>1, StartInOrder, StepsMove
<1>13. CASE LosesRequest(d)
    BY <1>2, <1>3, <1>13, LosesInOrder, StepsMove
<1>14. CASE Leaves(d)
    BY <1>2, <1>14 DEF Leaves, NobodyLeaves, InOrder
<1>15. CASE SignsOff(d)
    BY <1>2, <1>15 DEF SignsOff
<1> QED BY <1>1, <1>5, <1>6, <1>7, <1>8, <1>9, <1>10, <1>11, <1>12, <1>13, <1>14, <1>15

-----------------------------------------------------------------------------
(***************************************************************************)
(* What a swipe is recorded for.  A party whose users all do what the      *)
(* screen says: nobody swipes alone, or while a group is being looked up.  *)
(***************************************************************************)
EverybodyIsCareful == Devices \subseteq Careful /\ Soloists = {}

\* Members of a group that has not started for them, and who has no group.
NotStarted(a) == a.activeGroupId = Nil \/ InLobby(a) \/ a.screen = "waiting"

\* The cards on the screen, and the one on its way off it, are those of the
\* items; nobody has swiped before the session starts.
Synced(a) ==
    a.screen # "closed" =>
        /\ InPlace(a.items, a.index, a.visible)
        /\ a.swiped # Nil => a.swiped.card = a.items[a.swiped.index + 1]
        /\ NotStarted(a) => a.index = 0 /\ a.swiped = Nil

AllSynced == \A d \in Devices : Synced(app[d])

\* What device d records is the card that went.
RecordsItsCard(d) ==
    \A x \in Dinners :
        app'[d].localUserYesSwiped[x] > app[d].localUserYesSwiped[x]
            => x = IF Settled(d) THEN app[d].visible[1] ELSE app[d].swiped.card

LEMMA FreshIsSynced ==
    ASSUME NEW a, FreshDeck(a), a.swiped = Nil
    PROVE  Synced(a)
BY DEF FreshDeck, Synced

LEMMA LaunchedIsFresh ==
    ASSUME NEW deck \in LocalDecks, NEW n
    PROVE  FreshDeck(LaunchedApp(deck, n)) /\ LaunchedApp(deck, n).swiped = Nil
<1> DEFINE v == SubSeq(deck, 1, Smaller(CountOfVisibleCards, Len(deck)))
           a == LaunchedApp(deck, n)
<1>1. a.items = deck /\ a.index = 0 /\ a.visible = v /\ a.swiped = Nil
    BY DEF LaunchedApp
<1>2. InPlace(deck, 0, v)
    BY DecksAssumption, FirstCardsInPlace
<1> HIDE DEF a, v
<1>3. FreshDeck(a)
    BY <1>1, <1>2 DEF FreshDeck
<1> QED BY <1>1, <1>3 DEF a

LEMMA SyncedInit == Init => AllSynced
<1> SUFFICES ASSUME Init, NEW d \in Devices PROVE Synced(app[d])
    BY DEF AllSynced
<1>1. PICK deck \in LocalDecks : app[d] = LaunchedApp(deck, 0)
    BY DEF Init
<1> QED BY <1>1, LaunchedIsFresh, FreshIsSynced

\* Recording adds to the list of the dinner that items has at this index.
LEMMA RecordedIsThere ==
    ASSUME NEW a, IsApp(a), a.localUserYesSwiped \in DinnerLists, NEW i, NEW right,
           NEW x \in Dinners,
           Recorded(a, i, right).localUserYesSwiped[x] > a.localUserYesSwiped[x]
    PROVE  x = a.items[i + 1]
<1> SUFFICES ASSUME x # a.items[i + 1]
             PROVE  Recorded(a, i, right).localUserYesSwiped[x] = a.localUserYesSwiped[x]
    BY DEF DinnerLists
<1>1. CASE right /\ a.isOn
    <2>1. Recorded(a, i, right) = SaveDinnerIdToLocalStage(a, a.items[i + 1])
        BY <1>1 DEF Recorded
    <2> QED BY <2>1 DEF SaveDinnerIdToLocalStage, IsApp, AppFields, DinnerLists
<1>2. CASE right /\ ~a.isOn
    <2>1. Recorded(a, i, right) = AddToWantedDinner(a, a.items[i + 1])
        BY <1>2 DEF Recorded
    <2> QED BY <2>1 DEF AddToWantedDinner, IsApp, AppFields
<1>3. CASE ~right
    BY <1>3 DEF Recorded
<1> QED BY <1>1, <1>2, <1>3

\* A careful user swipes the cards of its group.
LEMMA CarefulSwipe ==
    ASSUME EverybodyIsCareful, NEW d \in Devices, MaySwipe(d)
    PROVE  /\ app[d].screen = "cards" /\ app[d].visible # <<>> /\ app[d].swiped = Nil
           /\ app[d].isOn /\ app[d].activeGroupId # Nil
           /\ ~NotStarted(app[d])
BY DEF EverybodyIsCareful, MaySwipe, Settled, IsRunOutOfCards, NotStarted, InLobby

LEMMA SwipeSynced ==
    ASSUME EverybodyIsCareful, IInv, NEW d \in Devices, Synced(app[d]), Swipe(d)
    PROVE  Synced(app'[d]) /\ RecordsItsCard(d)
<1> DEFINE a == app[d]
           b == SwipedAction(a)
<1>1. /\ a.screen = "cards" /\ a.visible # <<>> /\ a.swiped = Nil
      /\ a.activeGroupId # Nil
    BY CarefulSwipe DEF Swipe
<1>2. /\ a \in Apps /\ a \in SoundApps /\ IsApp(a) /\ IsPile(a, Dinners)
      /\ Fits(a.items, a.index, a.visible)
    BY <1>1, Unchanged, SoundAppFields, AppIsPile DEF SoundApps
<1>3. PICK right : OnlyApp(d, [b EXCEPT !.swiped = [index |-> a.index, right |-> right,
                                                    card |-> a.visible[1]]])
    BY DEF Swipe
<1>4. InPlace(a.items, a.index, a.visible)
    BY <1>1 DEF Synced
<1>5. b.index = a.index + 1 /\ InPlace(a.items, a.index + 1, b.visible)
    BY <1>1, <1>2, <1>4, SwipedActionInPlace
<1>6. a.visible[1] = a.items[a.index + 1]
    <2>1. 1 \in 1..Len(a.visible)
        BY <1>1, <1>2, EmptySeq, LenProperties DEF IsPile
    <2> QED BY <1>1, <1>4, <2>1 DEF InPlace
<1>7. /\ IsApp(b) /\ b.screen = "cards" /\ b.items = a.items
      /\ b.activeGroupId = a.activeGroupId /\ b.localUserYesSwiped = a.localUserYesSwiped
    BY <1>1, <1>2, SwipedActionFields DEF IsRunOutOfCards, SameMembership
<1> HIDE DEF a, b
<1> DEFINE s == [index |-> a.index, right |-> right, card |-> a.visible[1]]
           c == [b EXCEPT !.swiped = s]
<1>8. /\ c.screen = "cards" /\ c.items = a.items /\ c.index = a.index + 1
      /\ c.visible = b.visible /\ c.swiped = s /\ c.activeGroupId = a.activeGroupId
      /\ c.localUserYesSwiped = a.localUserYesSwiped
    BY <1>5, <1>7 DEF IsApp, AppFields
<1>9. app'[d] = c
    BY <1>3, OnlyAppMoves
<1> HIDE DEF c
<1>10. Synced(c)
    BY <1>1, <1>5, <1>6, <1>8 DEF Synced, NotStarted, InLobby
<1>11. a.localUserYesSwiped \in DinnerLists
    BY <1>2 DEF Apps
<1>12. RecordsItsCard(d)
    BY <1>8, <1>9, <1>11 DEF RecordsItsCard, DinnerLists, a
<1> QED BY <1>9, <1>10, <1>12

LEMMA DidSwipeSynced ==
    ASSUME IInv, NEW d \in Devices, Synced(app[d]), DidSwipe(d)
    PROVE  Synced(app'[d]) /\ RecordsItsCard(d)
<1> DEFINE a == app[d]
           s == a.swiped
           b == [a EXCEPT !.swiped = Nil]
           c == Recorded(b, s.index, s.right)
<1>1. OnlyApp(d, c) /\ a.swiped # Nil /\ a.screen # "closed"
    BY DEF DidSwipe, Alive, Settled
<1>2. a \in Apps /\ IsApp(a) /\ a.localUserYesSwiped \in DinnerLists
    BY Unchanged, SoundAppFields DEF Apps
<1>3. /\ InPlace(a.items, a.index, a.visible) /\ s.card = a.items[s.index + 1]
      /\ ~NotStarted(a)
    BY <1>1 DEF Synced
<1>4. /\ IsApp(b) /\ b.screen = a.screen /\ b.items = a.items /\ b.index = a.index
      /\ b.visible = a.visible /\ b.swiped = Nil /\ b.activeGroupId = a.activeGroupId
      /\ b.localUserYesSwiped = a.localUserYesSwiped
    BY <1>2 DEF IsApp, AppFields
<1>5. app'[d] = c
    BY <1>1, OnlyAppMoves
<1>6. ~Settled(d)
    BY <1>1 DEF Settled
<1> HIDE DEF a, b
<1>7. c.screen = b.screen /\ SameCards(b, c) /\ c.activeGroupId = b.activeGroupId
    BY <1>4, RecordedFields DEF SameMembership
<1>8. ASSUME NEW x \in Dinners, c.localUserYesSwiped[x] > a.localUserYesSwiped[x]
      PROVE  x = s.card
    <2>1. x = b.items[s.index + 1]
        BY <1>2, <1>4, <1>8, RecordedIsThere
    <2> QED BY <1>3, <1>4, <2>1
<1> HIDE DEF c
<1>9. Synced(c)
    BY <1>3, <1>4, <1>7 DEF Synced, NotStarted, InLobby, SameCards
<1>10. RecordsItsCard(d)
    BY <1>5, <1>6, <1>8 DEF RecordsItsCard, a
<1> QED BY <1>5, <1>9, <1>10

LEMMA SwipeLastSynced ==
    ASSUME EverybodyIsCareful, IInv, NEW d \in Devices, Synced(app[d]), SwipeLast(d)
    PROVE  Synced(app'[d]) /\ RecordsItsCard(d)
<1> DEFINE a == app[d]
           c == SwipedAction(a)
<1>1. /\ a.screen = "cards" /\ a.visible # <<>> /\ a.swiped = Nil
      /\ a.isOn /\ a.activeGroupId # Nil
    BY CarefulSwipe DEF SwipeLast
<1>2. /\ a \in Apps /\ a \in SoundApps /\ IsApp(a) /\ IsPile(a, Dinners)
      /\ a.localUserYesSwiped \in DinnerLists
    BY <1>1, Unchanged, SoundAppFields, AppIsPile DEF SoundApps, Apps
<1>3. PICK right : /\ IsRunOutOfCards(Recorded(c, a.index, right))
                   /\ RunOutInGroup(d, Recorded(c, a.index, right))
    BY <1>1 DEF SwipeLast
<1>4. a.visible[1] = a.items[a.index + 1]
    <2>1. 1 \in 1..Len(a.visible)
        BY <1>1, <1>2, EmptySeq, LenProperties DEF IsPile
    <2> QED BY <1>1, <2>1 DEF Synced, InPlace
<1>5. /\ IsApp(c) /\ c.screen = "cards" /\ c.items = a.items /\ c.swiped = Nil
      /\ c.activeGroupId = a.activeGroupId /\ c.localUserYesSwiped = a.localUserYesSwiped
    BY <1>1, <1>2, SwipedActionFields DEF IsRunOutOfCards, SameMembership
<1>6. Settled(d)
    BY <1>1 DEF Settled
<1> HIDE DEF a, c
<1> DEFINE b == Recorded(c, a.index, right)
<1>7. /\ IsApp(b) /\ b.screen = "cards" /\ b.items = a.items /\ b.swiped = Nil
      /\ b.visible = <<>> /\ b.activeGroupId = a.activeGroupId
    BY <1>3, <1>5, RecordedFields DEF SameMembership, SameCards, IsRunOutOfCards
<1>8. ASSUME NEW x \in Dinners, b.localUserYesSwiped[x] > a.localUserYesSwiped[x]
      PROVE  x = a.visible[1]
    <2>1. x = c.items[a.index + 1]
        BY <1>2, <1>5, <1>8, RecordedIsThere
    <2> QED BY <1>4, <1>5, <2>1
<1>9. RunOutInGroup(d, b)
    BY <1>3
<1> HIDE DEF b
<1>10. /\ app'[d].screen \in {"cards", "closed"} /\ app'[d].swiped = Nil
       /\ app'[d].visible = <<>> /\ app'[d].activeGroupId = a.activeGroupId
       /\ app'[d].localUserYesSwiped = b.localUserYesSwiped
    <2>1. CASE OnlyApp(d, Closed(b))
        <3>1. app'[d] = Show(b, "closed")
            BY <2>1, ClosedIsShown, OnlyAppMoves
        <3> QED BY <1>7, <3>1, ShowFields DEF SamePlay, SameMembership, SameCards
    <2>2. CASE Become(d, InitiateEventListenerFor(b, "result", b.activeGroupId))
        <3> DEFINE n == InitiateEventListenerFor(b, "result", b.activeGroupId)
        <3>1. app'[d] = n
            BY <2>2 DEF IInv, Become
        <3>2. /\ IsApp(n) /\ n.screen = b.screen
              /\ n.activeEventListener = [role |-> "result", code |-> b.activeGroupId, seen |-> Nil]
              /\ n.leaked = Attached(b)
              /\ SameMembership(b, n) /\ SameCards(b, n)
              /\ n.localUserYesSwiped = b.localUserYesSwiped
            BY <1>7, ListensFields
        <3> HIDE DEF n
        <3> QED BY <1>7, <3>1, <3>2 DEF SameMembership, SameCards
    <2> QED BY <1>9, <2>1, <2>2 DEF RunOutInGroup
<1>11. Synced(app'[d])
    BY <1>1, <1>10 DEF Synced, InPlace, NotStarted, InLobby
<1>12. RecordsItsCard(d)
    BY <1>6, <1>8, <1>10 DEF RecordsItsCard, a
<1> QED BY <1>11, <1>12

\* A step that leaves the swipes alone.
LEMMA SameSwipesSynced ==
    ASSUME NEW d \in Devices, Synced(app[d]), SameSwipes(app[d], app'[d]),
           app[d].screen = "closed" => app'[d].screen = "closed",
           NotStarted(app'[d]) => NotStarted(app[d])
    PROVE  Synced(app'[d])
BY DEF Synced, SameSwipes, SameCards

LEMMA SyncedStep ==
    ASSUME NobodyLeaves, EverybodyIsCareful, IInv, Guests, Orderly, AllSynced, Next
    PROVE  AllSynced' /\ SwipesMatchTheCard
<1>1. PICK d \in Devices :
              \/ Idles(d) \/ Crashes(d) \/ SwitchesOn(d) \/ AsksToJoin(d) \/ AsksToCreate(d)
              \/ Joins(d) \/ Creates(d) \/ DealsDeck(d) \/ StartsGroup(d) \/ RunsOut(d)
              \/ Starts(d) \/ LosesRequest(d) \/ Launches(d) \/ Delivers(d)
              \/ Leaves(d) \/ SignsOff(d)
    BY NextCases
<1> DEFINE a == app[d]
           b == app'[d]
<1>2. /\ Synced(a) /\ InOrder(a, requests[d], outbox[d])
      /\ \A r \in requests[d] : r.kind # "remove"
      /\ a \in Apps /\ a.localUserYesSwiped \in DinnerLists
    BY Unchanged DEF AllSynced, Orderly, Guests, Apps
<1>3. \A e \in Devices : app[e].localUserYesSwiped \in DinnerLists
    BY Unchanged DEF Apps
<1>4. \A e \in Devices \ {d} : app'[e] = app[e]
    BY <1>1, StepsMove DEF Moves, Delivers
<1>5. ASSUME Synced(b), RecordsItsCard(d) PROVE AllSynced' /\ SwipesMatchTheCard
    <2>1. AllSynced'
        BY <1>4, <1>5 DEF AllSynced
    <2>2. ASSUME NEW e \in Devices PROVE RecordsItsCard(e)
        <3>1. CASE e = d
            BY <1>5, <3>1
        <3>2. CASE e # d
            BY <1>3, <1>4, <3>2 DEF RecordsItsCard, DinnerLists
        <3> QED BY <3>1, <3>2
    <2> QED BY <2>1, <2>2 DEF SwipesMatchTheCard, RecordsItsCard
<1>6. ASSUME b.localUserYesSwiped = a.localUserYesSwiped PROVE RecordsItsCard(d)
    BY <1>2, <1>6 DEF RecordsItsCard, DinnerLists
<1>7. CASE Swiping(d)
    BY <1>2, <1>5, <1>7, SwipeSynced, DidSwipeSynced, SwipeLastSynced DEF Swiping
<1>8. ASSUME SameSwipes(a, b), a.screen = "closed" => b.screen = "closed",
             NotStarted(b) => NotStarted(a)
      PROVE  AllSynced' /\ SwipesMatchTheCard
    BY <1>2, <1>5, <1>6, <1>8, SameSwipesSynced DEF SameSwipes
<1>9. ASSUME b = a PROVE AllSynced' /\ SwipesMatchTheCard
    BY <1>8, <1>9 DEF SameSwipes, SameCards
<1>10. CASE Idles(d)
    <2>1. /\ SameSwipes(a, b) \/ Swiping(d)
          /\ a.screen = "closed" => b.screen = "closed"
          /\ NotStarted(b) => NotStarted(a)
        BY <1>10 DEF Idles, SameMembership, NotStarted, InLobby
    <2> QED BY <1>7, <1>8, <2>1
<1>11. CASE Crashes(d)
    <2>1. b.screen = "closed" /\ (b.localUserYesSwiped = a.localUserYesSwiped \/ Swiping(d))
        BY <1>11 DEF Crashes
    <2>2. Synced(b)
        BY <2>1 DEF Synced
    <2> QED BY <1>5, <1>6, <1>7, <2>1, <2>2
<1>12. CASE SwitchesOn(d)
    BY <1>8, <1>12 DEF SwitchesOn, SameSwipes, NotStarted, InLobby
<1>13. CASE AsksToJoin(d) \/ AsksToCreate(d)
    BY <1>8, <1>13 DEF AsksToJoin, AsksToCreate, Asks, SameSwipes, NotStarted, InLobby
<1>14. CASE Joins(d) \/ Creates(d)
    <2>1. PICK r \in requests[d] :
              /\ r.kind \in {"create", "join"} /\ Alive(d)
              /\ b = a \/ SameSwipes(a, b)
        BY <1>14 DEF Joins, Creates, Answers, SameSwipes
    <2>2. NotStarted(a)
        BY <1>2, <2>1 DEF InOrder, InsideGroup, Entering, NotStarted
    <2> QED BY <1>8, <1>9, <2>1, <2>2 DEF Alive
<1>15. CASE DealsDeck(d)
    <2>1. FreshDeck(b) /\ b.swiped = Nil /\ b.localUserYesSwiped = a.localUserYesSwiped
        BY <1>15 DEF DealsDeck
    <2> QED BY <1>5, <1>6, <2>1, FreshIsSynced
<1>16. CASE StartsGroup(d)
    <2>1. \/ b = a
          \/ SameSwipes(a, b) /\ b.screen = a.screen /\ b.activeGroupId = a.activeGroupId
        BY <1>16 DEF StartsGroup, SameSwipes
    <2> QED BY <1>8, <1>9, <2>1 DEF NotStarted, InLobby
<1>17. CASE RunsOut(d)
    BY <1>7, <1>17 DEF RunsOut
<1>18. CASE Starts(d)
    <2>1. /\ Hears(a, "wait") /\ a.screen # "closed"
          /\ b.swiped = a.swiped /\ b.localUserYesSwiped = a.localUserYesSwiped
          /\ a.index = 0 /\ a.screen = "waiting" => FreshDeck(b)
        BY <1>18 DEF Starts, Hears
    <2>2. a.screen = "waiting"
        BY <1>2, <2>1 DEF InOrder, WaitingForHost
    <2>3. a.index = 0 /\ a.swiped = Nil
        BY <1>2, <2>2 DEF Synced, NotStarted
    <2> QED BY <1>5, <1>6, <2>1, <2>2, <2>3, FreshIsSynced
<1>19. CASE LosesRequest(d)
    <2>1. \/ b = a
          \/ SameSwipes(a, b) /\ b.screen = a.screen /\ b.activeGroupId = a.activeGroupId
        BY <1>19 DEF LosesRequest, SameSwipes
    <2> QED BY <1>8, <1>9, <2>1 DEF NotStarted, InLobby
<1>20. CASE Launches(d)
    <2>1. PICK deck \in LocalDecks : b = LaunchedApp(deck, a.session)
        BY <1>20 DEF Launches
    <2>2. Synced(b)
        BY <2>1, LaunchedIsFresh, FreshIsSynced
    <2>3. \A x \in Dinners : b.localUserYesSwiped[x] = 0
        BY <2>1 DEF LaunchedApp
    <2>4. RecordsItsCard(d)
        BY <1>2, <2>3 DEF RecordsItsCard, DinnerLists
    <2> QED BY <1>5, <2>2, <2>4
<1>21. CASE Delivers(d)
    BY <1>9, <1>21 DEF Delivers
<1>22. CASE Leaves(d)
    BY <1>2, <1>22 DEF Leaves, InOrder, NobodyLeaves
<1>23. CASE SignsOff(d)
    BY <1>2, <1>23 DEF SignsOff
<1> QED BY <1>1, <1>10, <1>11, <1>12, <1>13, <1>14, <1>15, <1>16, <1>17, <1>18, <1>19,
           <1>20, <1>21, <1>22, <1>23

\* In a party whose users all do what the screen says and stay, with any
\* number of hosts: a right swipe is recorded for the dinner that was drawn on
\* the card that went.  The items are replaced when a session starts, and
\* nobody has swiped by then; so the pile is dealt anew, and a card that is
\* on its way off the screen is still the one that the items have at its place.
THEOREM SwipesAreRecorded ==
    ASSUME NobodyLeaves, EverybodyIsCareful
    PROVE  Spec => RecordedSwipesAreShownCards
<1>1. Init => Guests /\ Orderly /\ AllSynced
    BY GuestsInit, OrderlyInit, SyncedInit
<1>2. IInv /\ Guests /\ Orderly /\ AllSynced /\ [Next]_vars => Guests' /\ Orderly' /\ AllSynced'
    <2>1. NobodyCancels
        BY DEF NobodyLeaves, NobodyCancels
    <2>2. CASE Next
        BY <2>1, <2>2, GuestsStep, OrderlyStep, SyncedStep
    <2>3. CASE UNCHANGED vars
        BY <2>3 DEF vars, Guests, Orderly, AllSynced
    <2> QED BY <2>2, <2>3
<1>3. IInv /\ Guests /\ Orderly /\ AllSynced /\ [Next]_vars => [SwipesMatchTheCard]_vars
    BY SyncedStep
<1> QED BY <1>1, <1>2, <1>3, Invariance, PTL DEF Spec, RecordedSwipesAreShownCards

-----------------------------------------------------------------------------
(***************************************************************************)
(* Groups that have one host.                                              *)
(***************************************************************************)
\* Several hosts may come to share a group code.
OneHost == \A d, e \in Hosts : d = e

-----------------------------------------------------------------------------
(***************************************************************************)
(* A group that the host has created and not started is only on its way to *)
(* the server while the server has none.                                   *)
(***************************************************************************)
NewIsFirst(d, c) ==
    \A i \in PendingSets(outbox[d], c) : ~outbox[d][i].group.swipingSessionRunning =>
        groups[c] = Nil /\ \A j \in PendingSets(outbox[d], c) : i <= j

NewAreFirst == \A d \in Devices, c \in Codes : NewIsFirst(d, c)

LEMMA NewAreFirstInit == Init => NewAreFirst
BY NoSetsInEmpty DEF Init, NewAreFirst, NewIsFirst

\* The queue of a host whose group has been created or started.
LEMMA HostWrites ==
    ASSUME IInv, NEW d \in Devices, Creates(d) \/ StartsGroup(d)
    PROVE  \/ outbox'[d] = outbox[d]
           \/ \E c \in Codes, g \in Groups :
                 /\ outbox'[d] = outbox[d] \o <<SetData(c, g)>>
                 /\ SetData(c, g) \in Writes
                 /\ \/ Creates(d) /\ View(d, c) = Nil /\ g = NewGroup
                    \/ StartsGroup(d) /\ g.swipingSessionRunning
<1>1. CASE Creates(d)
    <2>1. \/ outbox'[d] = outbox[d]
          \/ \E c \in Codes : View(d, c) = Nil /\ outbox'[d] = outbox[d] \o <<SetData(c, NewGroup)>>
        BY <1>1 DEF Creates
    <2>2. \A c \in Codes : NewGroup \in Groups /\ SetData(c, NewGroup) \in Writes
        BY SentWrites
    <2> QED BY <1>1, <2>1, <2>2
<1>2. CASE StartsGroup(d)
    <2>1. PICK r \in requests[d] :
              /\ r.code \in Codes /\ r.deck \in HostDecks
              /\ \/ outbox'[d] = outbox[d]
                 \/ /\ View(d, r.code) # Nil
                    /\ outbox'[d] = outbox[d] \o
                            <<SetData(r.code, StartedGroup(View(d, r.code), r.deck))>>
        BY <1>2 DEF StartsGroup
    <2>2. View(d, r.code) # Nil =>
              /\ StartedGroup(View(d, r.code), r.deck) \in Groups
              /\ SetData(r.code, StartedGroup(View(d, r.code), r.deck)) \in Writes
              /\ StartedGroup(View(d, r.code), r.deck).swipingSessionRunning
        <3>1. View(d, r.code) \in Groups \cup {Nil}
            BY <2>1, OutboxTypes
        <3> HIDE DEF View
        <3>2. View(d, r.code) # Nil => StartedGroup(View(d, r.code), r.deck).swipingSessionRunning
            BY <3>1 DEF StartedGroup, Groups
        <3> QED BY <2>1, <3>2, SentWrites
    <2> QED BY <1>2, <2>1, <2>2
<1> QED BY <1>1, <1>2

LEMMA NewAreFirstStep ==
    ASSUME OneHost, NobodyCancels, IInv, Guests, NewAreFirst, Next
    PROVE  NewAreFirst'
<1>1. PICK d \in Devices :
              \/ Idles(d) \/ Crashes(d) \/ SwitchesOn(d) \/ AsksToJoin(d) \/ AsksToCreate(d)
              \/ Joins(d) \/ Creates(d) \/ DealsDeck(d) \/ StartsGroup(d) \/ RunsOut(d)
              \/ Starts(d) \/ LosesRequest(d) \/ Launches(d) \/ Delivers(d)
              \/ Leaves(d) \/ SignsOff(d)
    BY NextCases
<1> DEFINE q == outbox[d]
           s == outbox'[d]
<1>2. q \in Seq(Writes) /\ \A c \in Codes : groups[c] \in Groups \cup {Nil}
    BY OutboxTypes
<1>3. SUFFICES ASSUME NEW e \in Devices, NEW c \in Codes
               PROVE  NewIsFirst(e, c)'
    BY DEF NewAreFirst
<1>4. NewIsFirst(e, c) /\ NewIsFirst(d, c)
    BY DEF NewAreFirst
<1>5. ASSUME Moves(d), groups' = groups,
             \A i \in PendingSets(s, c) : /\ i \in PendingSets(q, c) /\ s[i] = q[i]
      PROVE  NewIsFirst(e, c)'
    BY <1>4, <1>5 DEF NewIsFirst, Moves
<1>6. CASE \/ Idles(d) \/ Crashes(d) \/ SwitchesOn(d) \/ AsksToJoin(d) \/ AsksToCreate(d)
           \/ DealsDeck(d) \/ Starts(d) \/ LosesRequest(d) \/ Launches(d)
           \/ Leaves(d) \/ SignsOff(d)
    <2>1. s \in {q, <<>>}
        BY <1>6, QueueChanges
    <2> QED BY <1>5, <1>6, <2>1, NoSetsInEmpty, StepsMove
<1>7. CASE Joins(d) \/ RunsOut(d)
    <2>1. PendingSets(s, c) = PendingSets(q, c) /\ \A i \in DOMAIN q : s[i] = q[i]
        BY <1>7, SmallWrites
    <2> QED BY <1>5, <1>7, <2>1, StepsMove DEF PendingSets
<1>8. CASE Creates(d) \/ StartsGroup(d)
    <2>1. CASE s = q
        BY <1>5, <1>8, <2>1, StepsMove
    <2>2. ASSUME NEW k \in Codes, NEW g \in Groups,
                 s = q \o <<SetData(k, g)>>, SetData(k, g) \in Writes,
                 (View(d, k) = Nil) \/ g.swipingSessionRunning
          PROVE  NewIsFirst(e, c)'
        <3> DEFINE w == SetData(k, g)
                   n == Len(q) + 1
        <3>1. /\ Len(q) \in Nat /\ DOMAIN q = 1..Len(q)
              /\ \A i \in 1..Len(q) : s[i] = q[i]
              /\ s[n] = w
            BY <1>2, <2>2, AddedWrite
        <3>2. /\ PendingSets(s, c) = IF k = c THEN PendingSets(q, c) \cup {n} ELSE PendingSets(q, c)
              /\ w.code = k /\ w.op = "set" /\ w.group = g
            <4>1. w.code = k /\ w.op = "set" /\ w.group = g
                BY DEF SetData
            <4>2. s = q \o <<w>> /\ w \in Writes
                BY <2>2
            <4> HIDE DEF w
            <4>3. PendingSets(q \o <<w>>, c)
                      = IF w.code = c /\ w.op = "set" THEN PendingSets(q, c) \cup {Len(q) + 1}
                        ELSE PendingSets(q, c)
                BY <1>2, <4>2, PendingAdded
            <4> QED BY <4>1, <4>2, <4>3
        <3> HIDE DEF w, n
        <3>3. \A i \in PendingSets(q, c) : i \in Nat /\ i <= n /\ s[i] = q[i] /\ ~(n <= i)
            BY <3>1 DEF PendingSets, n
        <3>4. Moves(d) /\ groups' = groups
            BY <1>8, StepsMove
        <3>5. CASE k # c
            BY <1>5, <3>2, <3>3, <3>4, <3>5
        <3>6. CASE e # d
            BY <1>4, <3>4, <3>6 DEF NewIsFirst, Moves
        <3>7. CASE k = c /\ e = d /\ View(d, c) = Nil
            <4>1. groups[c] = Nil /\ PendingSets(q, c) = {}
                BY <3>7, UnseenIsNew
            <4>2. PendingSets(s, c) = {n} /\ n <= n
                BY <3>1, <3>2, <3>7, <4>1 DEF n
            <4> QED BY <3>4, <3>7, <4>1, <4>2 DEF NewIsFirst
        <3>8. CASE k = c /\ e = d /\ g.swipingSessionRunning
            BY <1>4, <3>1, <3>2, <3>3, <3>4, <3>8 DEF NewIsFirst
        <3> QED BY <2>2, <3>5, <3>6, <3>7, <3>8
    <2> QED BY <1>8, <2>1, <2>2, HostWrites
<1>9. CASE Delivers(d)
    <2> DEFINE w == Head(q)
    <2>1. /\ q # <<>> /\ s = Tail(q) /\ w \in Writes
          /\ \A x \in Devices \ {d} : outbox'[x] = outbox[x]
          /\ groups'[c] = IF w.code = c THEN ApplyWrite(groups[c], w) ELSE groups[c]
        BY <1>9 DEF Delivers
    <2>2. /\ w = q[1] /\ 1 \in 1..Len(q) /\ DOMAIN q = 1..Len(q)
        BY <1>2, <2>1, TakenWrite
    <2>3. w.code = c /\ w.op = "set" => 1 \in PendingSets(q, c)
        BY <2>2 DEF PendingSets
    <2> HIDE DEF w
    <2>4. groups[c] = Nil /\ ~(w.code = c /\ w.op = "set") => groups'[c] = Nil
        BY <2>1, UpdatedNil
    <2>5. CASE e = d
        <3>1. \A i \in PendingSets(s, c) :
                  i \in Nat /\ i > 0 /\ i + 1 \in PendingSets(q, c) /\ s[i] = q[i + 1]
            <4> TAKE i \in PendingSets(s, c)
            <4>1. q \in Seq(Writes) /\ q # <<>> /\ i \in PendingSets(Tail(q), c)
                BY <1>2, <2>1
            <4>2. i \in Nat /\ i > 0 /\ i + 1 \in PendingSets(q, c) /\ Tail(q)[i] = q[i + 1]
                BY <4>1, PendingTaken
            <4> QED BY <2>1, <4>2
        <3> SUFFICES ASSUME NEW i \in PendingSets(s, c), ~s[i].group.swipingSessionRunning
                     PROVE  groups'[c] = Nil /\ \A j \in PendingSets(s, c) : i <= j
            BY <2>5 DEF NewIsFirst
        <3>2. groups[c] = Nil /\ \A j \in PendingSets(q, c) : i + 1 <= j
            BY <1>4, <3>1 DEF NewIsFirst
        <3>3. 1 \notin PendingSets(q, c)
            <4>1. i \in Nat /\ i > 0
                BY <3>1
            <4>2. ~(i + 1 <= 1)
                BY <4>1
            <4> QED BY <3>2, <4>2
        <3>4. \A j \in PendingSets(s, c) : i <= j
            <4> TAKE j \in PendingSets(s, c)
            <4>1. i \in Nat /\ j \in Nat /\ i + 1 <= j + 1
                BY <3>1, <3>2
            <4> QED BY <4>1
        <3> QED BY <2>3, <2>4, <3>2, <3>3, <3>4
    <2>6. CASE e # d
        <3>1. outbox'[e] = outbox[e]
            BY <2>1, <2>6
        <3>2. CASE PendingSets(outbox[e], c) = {}
            BY <3>1, <3>2 DEF NewIsFirst
        <3>3. CASE PendingSets(outbox[e], c) # {}
            <4>1. e \in Hosts
                BY <3>3 DEF Guests, Guest, NoSets, PendingSets
            <4>2. NoSets(q)
                BY <2>6, <4>1 DEF OneHost, Guests, Guest
            <4>3. w.op # "set"
                BY <2>2, <4>2 DEF NoSets
            <4> QED BY <1>4, <2>4, <3>1, <4>3 DEF NewIsFirst
        <3> QED BY <3>2, <3>3
    <2> QED BY <2>5, <2>6
<1> QED BY <1>1, <1>6, <1>7, <1>8, <1>9

LEMMA StartStaysStep ==
    ASSUME OneHost, NobodyCancels, IInv, Guests, NewAreFirst, Next
    PROVE  StartStays
<1>1. PICK d \in Devices : groups' = groups \/ Delivers(d)
    BY NextCases, StepsMove
<1> SUFFICES ASSUME NEW c \in Codes, groups[c] # Nil, groups[c].swipingSessionRunning
             PROVE  groups'[c].swipingSessionRunning
    BY DEF StartStays
<1>2. CASE Delivers(d)
    <2> DEFINE q == outbox[d]
               w == Head(q)
    <2>1. /\ q # <<>> /\ w \in Writes /\ q \in Seq(Writes) /\ groups[c] \in Groups
          /\ groups'[c] = IF w.code = c THEN ApplyWrite(groups[c], w) ELSE groups[c]
        BY <1>2, OutboxTypes DEF Delivers
    <2>2. w = q[1] /\ 1 \in 1..Len(q) /\ DOMAIN q = 1..Len(q)
        BY <2>1, TakenWrite
    <2>3. CASE w.code = c /\ w.op = "set"
        <3>1. 1 \in PendingSets(q, c)
            BY <2>2, <2>3 DEF PendingSets
        <3>2. w.group.swipingSessionRunning
            BY <2>2, <3>1 DEF NewAreFirst, NewIsFirst
        <3> QED BY <2>1, <2>3, <3>2, Replaced
    <2>4. CASE w.code = c /\ w.op # "set"
        BY <2>1, <2>4, Updated
    <2>5. CASE w.code # c
        BY <2>1, <2>5
    <2> QED BY <2>3, <2>4, <2>5
<1> QED BY <1>1, <1>2

\* With one host, and nobody who cancels or leaves before the start: once the
\* host's document has started the group, no document that was written
\* earlier or is based on an older copy sets it back, whatever fails, is
\* killed or relaunched meanwhile.
THEOREM StartedStaysStarted ==
    ASSUME OneHost, NobodyCancels
    PROVE  Spec => StartIsFinal
<1>1. Init => Guests /\ NewAreFirst
    BY GuestsInit, NewAreFirstInit
<1>2. IInv /\ Guests /\ NewAreFirst /\ [Next]_vars => Guests' /\ NewAreFirst'
    <2>1. CASE Next
        BY <2>1, GuestsStep, NewAreFirstStep
    <2>2. CASE UNCHANGED vars
        BY <2>2 DEF vars, Guests, NewAreFirst, NewIsFirst
    <2> QED BY <2>1, <2>2
<1>3. IInv /\ Guests /\ NewAreFirst /\ [Next]_vars => [StartStays]_vars
    BY StartStaysStep
<1> QED BY <1>1, <1>2, <1>3, Invariance, PTL DEF Spec, StartIsFinal

-----------------------------------------------------------------------------
(***************************************************************************)
(* A group is started once.                                                *)
(***************************************************************************)
Running(c) == groups[c] # Nil /\ groups[c].swipingSessionRunning

\* The host has still to start group c.
HasToStart(a, R, c) == \/ \E r \in R : r.kind = "start" /\ r.code = c
                       \/ InLobby(a) /\ a.activeGroupId = c

StartedOnce(d, c) ==
    /\ Running(c) => PendingSets(outbox[d], c) = {} /\ ~HasToStart(app[d], requests[d], c)
    /\ \A i \in PendingSets(outbox[d], c) : outbox[d][i].group.swipingSessionRunning =>
          /\ \A j \in PendingSets(outbox[d], c) : j <= i
          /\ ~HasToStart(app[d], requests[d], c)

AllStartedOnce == \A d \in Devices, c \in Codes : StartedOnce(d, c)

LEMMA StartedOnceInit == Init => AllStartedOnce
<1> SUFFICES ASSUME Init, NEW d \in Devices, NEW c \in Codes PROVE StartedOnce(d, c)
    BY DEF AllStartedOnce
<1>1. PICK deck : app[d] = LaunchedApp(deck, 0) /\ requests[d] = {} /\ outbox[d] = <<>>
    BY DEF Init
<1>2. app[d].screen = "cards"
    BY <1>1 DEF LaunchedApp
<1> QED BY <1>1, <1>2, NoSetsInEmpty DEF StartedOnce, HasToStart, InLobby

\* What a host has to start it has created.
LEMMA ToStart ==
    ASSUME NobodyLeaves, IInv, Guests, Orderly, NEW d \in Devices, NEW c \in Codes,
           \/ Idles(d) \/ Crashes(d) \/ SwitchesOn(d) \/ AsksToJoin(d) \/ AsksToCreate(d)
           \/ Joins(d) \/ Creates(d) \/ DealsDeck(d) \/ StartsGroup(d) \/ RunsOut(d)
           \/ Starts(d) \/ LosesRequest(d) \/ Launches(d) \/ Leaves(d) \/ SignsOff(d),
           HasToStart(app'[d], requests'[d], c)
    PROVE  \/ HasToStart(app[d], requests[d], c)
           \/ Creates(d) /\ View(d, c) = Nil /\ outbox'[d] = outbox[d] \o <<SetData(c, NewGroup)>>
<1> DEFINE a == app[d]
           b == app'[d]
           R == requests[d]
           Q == requests'[d]
<1>1. InOrder(a, R, outbox[d]) /\ \A r \in R : r.kind # "remove"
    BY DEF Orderly, Guests
<1>2. ASSUME Q \subseteq R, InLobby(b) => InLobby(a) /\ b.activeGroupId = a.activeGroupId
      PROVE  HasToStart(a, R, c)
    BY <1>2 DEF HasToStart
<1>3. CASE Idles(d) \/ Crashes(d) \/ SwitchesOn(d) \/ RunsOut(d) \/ Starts(d)
    <2>1. /\ Q = R
          /\ \/ b.screen = a.screen /\ b.activeGroupId = a.activeGroupId
             \/ a.screen = "lobby" /\ b.activeGroupId = a.activeGroupId
             \/ b.screen \in {"code", "list", "frozen", "closed", "connect", "cards"}
        BY <1>3 DEF Idles, Crashes, SwitchesOn, RunsOut, Starts, MovesAlone, SameMembership
    <2> QED BY <1>2, <2>1 DEF InLobby
<1>4. CASE AsksToJoin(d) \/ AsksToCreate(d)
    <2>1. PICK r : Q = R \cup {r} /\ r.kind # "start" /\ b.screen = "cards"
        <3>1. \A k : [kind |-> "join", code |-> k].kind # "start"
            OBVIOUS
        <3>2. [kind |-> "create"].kind # "start"
            OBVIOUS
        <3>3. \E r : /\ Q = R \cup {r} /\ b.screen = "cards"
                     /\ (\E k : r = [kind |-> "join", code |-> k]) \/ r = [kind |-> "create"]
            BY <1>4 DEF AsksToJoin, AsksToCreate, Asks
        <3> QED BY <3>1, <3>2, <3>3
    <2> QED BY <2>1 DEF HasToStart, InLobby
<1>5. CASE Joins(d)
    <2>1. PICK r \in R : /\ Answers(d, r) /\ r.kind = "join"
                         /\ b = a \/ b.screen \in {a.screen, "waiting"}
        BY <1>5 DEF Joins
    <2>2. a.screen = "cards" /\ Q \subseteq R
        BY <1>1, <2>1, AnsweredOutside
    <2> QED BY <1>2, <2>1, <2>2 DEF InLobby
<1>6. CASE Creates(d)
    <2>1. PICK r \in R : Answers(d, r) /\ r.kind = "create"
        BY <1>6 DEF Creates
    <2>2. a.screen = "cards" /\ \A x \in Q : x.kind # "start"
        BY <1>1, <2>1, AnsweredOutside
    <2>3. InLobby(b) /\ b.activeGroupId = c
        BY <2>2 DEF HasToStart
    <2> QED BY <1>6, <2>2, <2>3 DEF Creates, InLobby
<1>7. CASE DealsDeck(d)
    <2>1. /\ a.screen = "settings" /\ b.screen = "cards"
          /\ \A r \in Q : r \in R \/ r.code = a.activeGroupId
        BY <1>7 DEF DealsDeck
    <2> QED BY <2>1 DEF HasToStart, InLobby
<1>8. CASE StartsGroup(d) \/ LosesRequest(d)
    <2>1. Q \subseteq R /\ b.screen = a.screen /\ b.activeGroupId = a.activeGroupId
        BY <1>8 DEF StartsGroup, LosesRequest, Answers
    <2> QED BY <1>2, <2>1 DEF InLobby
<1>9. CASE Launches(d)
    <2>1. Q = {} /\ b.screen = "cards"
        BY <1>9 DEF Launches, LaunchedApp
    <2> QED BY <1>2, <2>1 DEF InLobby
<1>10. CASE Leaves(d)
    BY <1>1, <1>10 DEF Leaves, NobodyLeaves, InOrder
<1>11. CASE SignsOff(d)
    BY <1>1, <1>11 DEF SignsOff
<1> QED BY <1>3, <1>4, <1>5, <1>6, <1>7, <1>8, <1>9, <1>10, <1>11

\* The start of a group, on the deck that the host has in its hands.
LEMMA HostStarts ==
    ASSUME IInv, Orderly, NEW d \in Devices, StartsGroup(d), outbox'[d] # outbox[d]
    PROVE  \E c \in Codes, deck \in HostDecks :
              /\ View(d, c) # Nil
              /\ outbox'[d] = outbox[d] \o <<SetData(c, StartedGroup(View(d, c), deck))>>
              /\ HasToStart(app[d], requests[d], c)
              /\ ~HasToStart(app'[d], requests'[d], c)
              /\ app[d].activeGroupId = c /\ app'[d].activeGroupId = c
              /\ app[d].items = deck /\ app'[d].items = deck
<1> DEFINE a == app[d]
           b == app'[d]
           R == requests[d]
<1>1. PICK r \in R :
          /\ requests'[d] = R \ {r} /\ r.kind = "start" /\ r.code \in Codes /\ r.deck \in HostDecks
          /\ View(d, r.code) # Nil
          /\ outbox'[d] = outbox[d] \o <<SetData(r.code, StartedGroup(View(d, r.code), r.deck))>>
          /\ SameCards(a, b) /\ b.screen = a.screen /\ b.activeGroupId = a.activeGroupId
    BY DEF StartsGroup, Answers
<1>2. /\ ~InLobby(a) /\ r.code = a.activeGroupId /\ a.items = r.deck
      /\ \A x \in R : x.kind = "start" => x = r
    BY <1>1 DEF Orderly, InOrder, HostedGroup
<1>3. HasToStart(a, R, r.code)
    BY <1>1 DEF HasToStart
<1>4. ~HasToStart(b, requests'[d], r.code)
    BY <1>1, <1>2 DEF HasToStart, InLobby
<1>5. b.items = r.deck
    BY <1>1, <1>2 DEF SameCards
<1> HIDE DEF a, b
<1> QED BY <1>1, <1>2, <1>3, <1>4, <1>5 DEF a, b

LEMMA StartedOnceStep ==
    ASSUME OneHost, NobodyLeaves, IInv, Guests, Orderly, AllStartedOnce, Next
    PROVE  AllStartedOnce'
<1>1. PICK d \in Devices :
              \/ Idles(d) \/ Crashes(d) \/ SwitchesOn(d) \/ AsksToJoin(d) \/ AsksToCreate(d)
              \/ Joins(d) \/ Creates(d) \/ DealsDeck(d) \/ StartsGroup(d) \/ RunsOut(d)
              \/ Starts(d) \/ LosesRequest(d) \/ Launches(d) \/ Delivers(d)
              \/ Leaves(d) \/ SignsOff(d)
    BY NextCases
<1> DEFINE q == outbox[d]
           s == outbox'[d]
<1>2. q \in Seq(Writes) /\ \A c \in Codes : groups[c] \in Groups \cup {Nil}
    BY OutboxTypes
<1>3. SUFFICES ASSUME NEW e \in Devices, NEW c \in Codes
               PROVE  StartedOnce(e, c)'
    BY DEF AllStartedOnce
<1>4. StartedOnce(e, c) /\ StartedOnce(d, c)
    BY DEF AllStartedOnce
<1>5. ASSUME Moves(d), groups' = groups,
             \A i \in PendingSets(s, c) : i \in PendingSets(q, c) /\ s[i] = q[i],
             HasToStart(app'[d], requests'[d], c) => HasToStart(app[d], requests[d], c)
      PROVE  StartedOnce(e, c)'
    <2>1. CASE e # d
        BY <1>4, <1>5, <2>1 DEF StartedOnce, Moves, Running
    <2>2. CASE e = d
        BY <1>4, <1>5, <2>2 DEF StartedOnce, Running
    <2> QED BY <2>1, <2>2
<1> DEFINE n == Len(q) + 1
           Steps == \/ Idles(d) \/ Crashes(d) \/ SwitchesOn(d) \/ AsksToJoin(d) \/ AsksToCreate(d)
                    \/ Joins(d) \/ Creates(d) \/ DealsDeck(d) \/ StartsGroup(d) \/ RunsOut(d)
                    \/ Starts(d) \/ LosesRequest(d) \/ Launches(d) \/ Leaves(d) \/ SignsOff(d)
<1>6. ASSUME NEW w \in Writes, w.op = "set", s = q \o <<w>>
      PROVE  /\ n \in Nat /\ s[n] = w
             /\ PendingSets(s, c) = IF w.code = c THEN PendingSets(q, c) \cup {n}
                                    ELSE PendingSets(q, c)
             /\ \A i \in PendingSets(q, c) : i \in Nat /\ i < n /\ s[i] = q[i]
    <2>1. /\ Len(q) \in Nat /\ DOMAIN q = 1..Len(q)
          /\ \A i \in 1..Len(q) : (q \o <<w>>)[i] = q[i]
          /\ (q \o <<w>>)[Len(q) + 1] = w
        BY <1>2, AddedWrite
    <2>2. PendingSets(q \o <<w>>, c)
              = IF w.code = c /\ w.op = "set" THEN PendingSets(q, c) \cup {n}
                ELSE PendingSets(q, c)
        BY <1>2, PendingAdded
    <2>3. \A i \in PendingSets(q, c) : i \in 1..Len(q)
        BY <2>1 DEF PendingSets
    <2> QED BY <1>6, <2>1, <2>2, <2>3
<1>7. ASSUME Steps, HasToStart(app'[d], requests'[d], c), ~HasToStart(app[d], requests[d], c)
      PROVE  n \in PendingSets(s, c) /\ n \notin PendingSets(q, c) /\ Creates(d) /\ View(d, c) = Nil
    <2> DEFINE w == SetData(c, NewGroup)
    <2>1. s = q \o <<w>> /\ Creates(d) /\ View(d, c) = Nil
        BY <1>7, ToStart
    <2>2. w \in Writes /\ w.op = "set" /\ w.code = c
        BY SentWrites DEF SetData
    <2> HIDE DEF w
    <2>3. /\ n \in Nat /\ PendingSets(s, c) = PendingSets(q, c) \cup {n}
          /\ \A i \in PendingSets(q, c) : i \in Nat /\ i < n
        BY <1>6, <2>1, <2>2
    <2> HIDE DEF n
    <2> QED BY <2>1, <2>3
<1>8. ASSUME Steps, \A i \in PendingSets(s, c) : i \in PendingSets(q, c) /\ s[i] = q[i]
      PROVE  StartedOnce(e, c)'
    <2>1. HasToStart(app'[d], requests'[d], c) => HasToStart(app[d], requests[d], c)
        BY <1>7, <1>8
    <2> QED BY <1>5, <1>8, <2>1, StepsMove
<1>9. CASE \/ Idles(d) \/ Crashes(d) \/ SwitchesOn(d) \/ AsksToJoin(d) \/ AsksToCreate(d)
           \/ DealsDeck(d) \/ Starts(d) \/ LosesRequest(d) \/ Launches(d)
           \/ Leaves(d) \/ SignsOff(d)
    <2>1. s \in {q, <<>>}
        BY <1>9, QueueChanges
    <2> QED BY <1>8, <1>9, <2>1, NoSetsInEmpty
<1>10. CASE Joins(d) \/ RunsOut(d)
    <2>1. PendingSets(s, c) = PendingSets(q, c) /\ \A i \in DOMAIN q : s[i] = q[i]
        BY <1>10, SmallWrites
    <2> QED BY <1>8, <1>10, <2>1 DEF PendingSets
<1>11. CASE Creates(d)
    <2>1. PICK k \in Codes :
              \/ s = q
              \/ View(d, k) = Nil /\ s = q \o <<SetData(k, NewGroup)>>
        BY <1>11 DEF Creates
    <2>2. CASE s = q
        BY <1>8, <1>11, <2>2
    <2>3. CASE View(d, k) = Nil /\ s = q \o <<SetData(k, NewGroup)>>
        <3> DEFINE w == SetData(k, NewGroup)
        <3>1. w \in Writes /\ w.op = "set" /\ w.code = k /\ ~w.group.swipingSessionRunning
            BY SentWrites DEF SetData, NewGroup
        <3>2. s = q \o <<w>>
            BY <2>3
        <3> HIDE DEF w
        <3>3. /\ n \in Nat /\ s[n] = w
              /\ PendingSets(s, c) = IF k = c THEN PendingSets(q, c) \cup {n} ELSE PendingSets(q, c)
              /\ \A i \in PendingSets(q, c) : i \in Nat /\ i < n /\ s[i] = q[i]
            BY <1>6, <3>1, <3>2
        <3> HIDE DEF n
        <3>4. CASE k # c
            BY <1>8, <1>11, <3>3, <3>4
        <3>5. CASE e # d
            BY <1>4, <1>11, <3>5, StepsMove DEF StartedOnce, Moves, Running
        <3>6. CASE k = c /\ e = d
            <4>1. groups[c] = Nil /\ PendingSets(q, c) = {}
                BY <2>3, <3>6, UnseenIsNew
            <4>2. PendingSets(s, c) = {n} /\ groups' = groups
                BY <1>11, <3>3, <3>6, <4>1, StepsMove
            <4> QED BY <3>1, <3>3, <3>6, <4>1, <4>2 DEF StartedOnce, Running
        <3> QED BY <3>4, <3>5, <3>6
    <2> QED BY <2>1, <2>2, <2>3
<1>12. CASE StartsGroup(d)
    <2>1. CASE s = q
        BY <1>8, <1>12, <2>1
    <2>2. CASE s # q
        <3>1. PICK k \in Codes, deck \in HostDecks :
                  /\ View(d, k) # Nil
                  /\ s = q \o <<SetData(k, StartedGroup(View(d, k), deck))>>
                  /\ HasToStart(app[d], requests[d], k) /\ ~HasToStart(app'[d], requests'[d], k)
            BY <1>12, <2>2, HostStarts
        <3> DEFINE w == SetData(k, StartedGroup(View(d, k), deck))
        <3>2. w \in Writes /\ w.op = "set" /\ w.code = k
            BY <3>1, SentWrites DEF SetData
        <3> HIDE DEF w
        <3>3. /\ n \in Nat /\ s[n] = w
              /\ PendingSets(s, c) = IF k = c THEN PendingSets(q, c) \cup {n} ELSE PendingSets(q, c)
              /\ \A i \in PendingSets(q, c) : i \in Nat /\ i < n /\ s[i] = q[i]
            BY <1>6, <3>1, <3>2 DEF w
        <3>4. n <= n /\ \A i \in PendingSets(q, c) : i <= n
            BY <3>3
        <3> HIDE DEF n
        <3>5. CASE k # c
            BY <1>8, <1>12, <3>3, <3>5
        <3>6. CASE e # d
            BY <1>4, <1>12, <3>6, StepsMove DEF StartedOnce, Moves, Running
        <3>7. CASE k = c /\ e = d
            <4>1. /\ ~Running(c)
                  /\ \A i \in PendingSets(q, c) : ~q[i].group.swipingSessionRunning
                BY <1>4, <3>1, <3>7 DEF StartedOnce
            <4>2. PendingSets(s, c) = PendingSets(q, c) \cup {n} /\ groups' = groups
                BY <1>12, <3>3, <3>7, StepsMove
            <4>3. ~Running(c)'
                BY <4>1, <4>2 DEF Running
            <4> QED BY <3>1, <3>3, <3>4, <3>7, <4>1, <4>2, <4>3 DEF StartedOnce
        <3> QED BY <3>5, <3>6, <3>7
    <2> QED BY <2>1, <2>2
<1>13. CASE Delivers(d)
    <2> DEFINE w == Head(q)
    <2>1. /\ q # <<>> /\ s = Tail(q) /\ w \in Writes /\ app' = app /\ requests' = requests
          /\ \A x \in Devices \ {d} : outbox'[x] = outbox[x]
          /\ groups'[c] = IF w.code = c THEN ApplyWrite(groups[c], w) ELSE groups[c]
        BY <1>13 DEF Delivers
    <2>2. /\ w = q[1] /\ 1 \in 1..Len(q) /\ DOMAIN q = 1..Len(q)
        BY <1>2, <2>1, TakenWrite
    <2>3. w.code = c /\ w.op = "set" => 1 \in PendingSets(q, c)
        BY <2>2 DEF PendingSets
    <2>4. NoSets(q) => w.op # "set"
        BY <2>2 DEF NoSets
    <2> HIDE DEF w
    <2>5. Running(c)' => \/ Running(c)
                         \/ w.code = c /\ w.op = "set" /\ w.group.swipingSessionRunning
        <3>1. CASE w.code = c /\ w.op = "set"
            BY <2>1, <3>1, Replaced DEF Running
        <3>2. CASE w.code = c /\ w.op # "set"
            BY <1>2, <2>1, <3>2, Updated, UpdatedNil DEF Running
        <3>3. CASE w.code # c
            BY <2>1, <3>3 DEF Running
        <3> QED BY <3>1, <3>2, <3>3
    <2>6. CASE e = d
        <3>1. \A i \in PendingSets(s, c) :
                  i \in Nat /\ i > 0 /\ i + 1 \in PendingSets(q, c) /\ s[i] = q[i + 1]
            <4> TAKE i \in PendingSets(s, c)
            <4>1. q \in Seq(Writes) /\ q # <<>> /\ i \in PendingSets(Tail(q), c)
                BY <1>2, <2>1
            <4>2. i \in Nat /\ i > 0 /\ i + 1 \in PendingSets(q, c) /\ Tail(q)[i] = q[i + 1]
                BY <4>1, PendingTaken
            <4> QED BY <2>1, <4>2
        <3>2. Running(c)' => PendingSets(s, c) = {} /\ ~HasToStart(app[d], requests[d], c)
            <4>1. CASE Running(c)
                BY <1>4, <3>1, <4>1 DEF StartedOnce
            <4>2. CASE w.code = c /\ w.op = "set" /\ w.group.swipingSessionRunning
                <5>1. /\ \A j \in PendingSets(q, c) : j <= 1
                      /\ ~HasToStart(app[d], requests[d], c)
                    BY <1>4, <2>2, <2>3, <4>2 DEF StartedOnce
                <5>2. \A i \in PendingSets(s, c) : i \in Nat /\ i > 0 /\ i + 1 <= 1
                    BY <3>1, <5>1
                <5>3. PendingSets(s, c) = {}
                    BY <5>2
                <5> QED BY <5>1, <5>3
            <4> QED BY <2>5, <4>1, <4>2
        <3>3. ASSUME NEW i \in PendingSets(s, c), s[i].group.swipingSessionRunning
              PROVE  /\ \A j \in PendingSets(s, c) : j <= i
                     /\ ~HasToStart(app[d], requests[d], c)
            <4>1. /\ \A j \in PendingSets(q, c) : j <= i + 1
                  /\ ~HasToStart(app[d], requests[d], c)
                BY <1>4, <3>1, <3>3 DEF StartedOnce
            <4>2. \A j \in PendingSets(s, c) : j \in Nat /\ i \in Nat /\ j + 1 <= i + 1
                BY <3>1, <4>1
            <4> QED BY <4>1, <4>2
        <3> QED BY <2>1, <2>6, <3>2, <3>3 DEF StartedOnce
    <2>7. CASE e # d
        <3>1. outbox'[e] = outbox[e]
            BY <2>1, <2>7
        <3>2. CASE Running(c) \/ ~Running(c)'
            BY <1>4, <2>1, <3>1, <3>2 DEF StartedOnce
        <3>3. CASE w.op = "set"
            <4>1. d \in Hosts
                BY <2>4, <3>3 DEF Guests, Guest
            <4>2. Guest(app[e], requests[e], outbox[e])
                BY <2>7, <4>1 DEF OneHost, Guests
            <4>3. PendingSets(outbox[e], c) = {} /\ ~HasToStart(app[e], requests[e], c)
                BY <4>2 DEF Guest, NoSets, PendingSets, HasToStart
            <4> QED BY <2>1, <3>1, <4>3 DEF StartedOnce
        <3> QED BY <2>5, <3>2, <3>3
    <2> QED BY <2>6, <2>7
<1> QED BY <1>1, <1>9, <1>10, <1>11, <1>12, <1>13

\* A group that has started keeps its deck and every vote that is in it.
LEMMA RunningKept ==
    ASSUME IInv, AllStartedOnce, Next, NEW c \in Codes, Running(c)
    PROVE  /\ Running(c)'
           /\ groups'[c].dinnerIdsForCardView = groups[c].dinnerIdsForCardView
           /\ Voters(groups[c]) \subseteq Voters(groups'[c])
<1>1. PICK d \in Devices : groups' = groups \/ Delivers(d)
    BY NextCases, StepsMove
<1>2. CASE Delivers(d)
    <2> DEFINE q == outbox[d]
               w == Head(q)
    <2>1. /\ q # <<>> /\ w \in Writes /\ q \in Seq(Writes) /\ groups[c] \in Groups
          /\ groups'[c] = IF w.code = c THEN ApplyWrite(groups[c], w) ELSE groups[c]
        BY <1>2, OutboxTypes DEF Delivers, Running
    <2>2. w = q[1] /\ 1 \in 1..Len(q) /\ DOMAIN q = 1..Len(q)
        BY <2>1, TakenWrite
    <2>3. ~(w.code = c /\ w.op = "set")
        BY <2>2 DEF PendingSets, AllStartedOnce, StartedOnce
    <2> HIDE DEF w
    <2>4. CASE w.code = c
        BY <2>1, <2>3, <2>4, Updated DEF Running
    <2>5. CASE w.code # c
        BY <2>1, <2>5 DEF Running
    <2> QED BY <2>4, <2>5
<1> QED BY <1>1, <1>2 DEF Running

-----------------------------------------------------------------------------
(***************************************************************************)
(* Who swipes for a group swipes the deck that the host drew for it.       *)
(***************************************************************************)
Plays(a, c) == /\ a.activeGroupId = c /\ a.isInOnlineSession
               /\ a.screen \notin {"waiting", "closed"}

StartedOn(g, a) == g.swipingSessionRunning /\ a.items = g.dinnerIdsForCardView

PlaysTheDeck(d, c) ==
    Plays(app[d], c) =>
        \/ groups[c] # Nil /\ StartedOn(groups[c], app[d])
        \/ \E i \in PendingSets(outbox[d], c) : StartedOn(outbox[d][i].group, app[d])

AllPlayTheDeck == \A d \in Devices, c \in Codes : PlaysTheDeck(d, c)

LEMMA PlaysInit == Init => AllPlayTheDeck
<1> SUFFICES ASSUME Init, NEW d \in Devices, NEW c \in Codes PROVE ~Plays(app[d], c)
    BY DEF AllPlayTheDeck, PlaysTheDeck
<1>1. PICK deck : app[d] = LaunchedApp(deck, 0)
    BY DEF Init
<1>2. app[d].activeGroupId = Nil
    BY <1>1 DEF LaunchedApp
<1> QED BY <1>2, NilAssumption DEF Plays

\* Who plays was playing before, or has just been started.
LEMMA ToPlay ==
    ASSUME IInv, Guests, Orderly, NEW d \in Devices, NEW c \in Codes,
           \/ Idles(d) \/ Crashes(d) \/ SwitchesOn(d) \/ AsksToJoin(d) \/ AsksToCreate(d)
           \/ Joins(d) \/ Creates(d) \/ DealsDeck(d) \/ RunsOut(d)
           \/ LosesRequest(d) \/ Launches(d),
           Plays(app'[d], c)
    PROVE  /\ Plays(app[d], c) /\ app'[d].items = app[d].items
           /\ outbox'[d] = outbox[d] \/ RunsOut(d)
<1> DEFINE a == app[d]
           b == app'[d]
           R == requests[d]
           q == outbox[d]
           s == outbox'[d]
<1>1. /\ InOrder(a, R, q) /\ OneAttempt(a, R) /\ c # Nil
      /\ b.activeGroupId = c /\ b.isInOnlineSession /\ b.screen \notin {"waiting", "closed"}
    BY Unchanged, NilAssumption DEF Orderly, Plays
<1>2. /\ a.screen = "waiting" => /\ a.leaked = {} /\ a.activeEventListener # Nil
                                /\ a.activeEventListener.role = "wait"
      /\ InLobby(a) => ~a.isInOnlineSession
      /\ a.activeGroupId # Nil => a.isOn /\ ~AsksToEnter(a) /\ Entering(R) = {}
    BY <1>1 DEF InOrder, WaitingForHost, HostedGroup, InsideGroup
<1>3. CASE Idles(d)
    <2>1. /\ s = q /\ b.items = a.items /\ SameMembership(a, b)
          /\ \/ b.screen = a.screen
             \/ a.screen \in {"connect", "lobby", "cards"}
             \/ a.screen # "closed" /\ Hears(a, "result")
        BY <1>3 DEF Idles, MovesAlone
    <2>2. a.activeGroupId = c /\ a.isInOnlineSession
        BY <1>1, <2>1 DEF SameMembership
    <2>3. a.screen = "waiting" => ~Hears(a, "result")
        BY <1>2 DEF Hears, Attached
    <2> QED BY <1>1, <2>1, <2>2, <2>3 DEF Plays
<1>4. CASE Crashes(d)
    BY <1>1, <1>4 DEF Crashes
<1>5. CASE SwitchesOn(d)
    BY <1>1, <1>2, <1>5 DEF SwitchesOn
<1>6. CASE AsksToJoin(d) \/ AsksToCreate(d)
    <2>1. a.screen \in {"connect", "code"} /\ b.activeGroupId = a.activeGroupId
        BY <1>6 DEF AsksToJoin, AsksToCreate, Asks
    <2> QED BY <1>1, <1>2, <2>1 DEF AsksToEnter
<1>7. CASE Joins(d)
    <2>1. PICK r \in R : /\ r.kind = "join" /\ Answers(d, r)
                         /\ \/ b = a
                            \/ b.screen = IF a.screen = "cards" THEN "waiting" ELSE a.screen
        BY <1>7 DEF Joins
    <2>2. a.activeGroupId = Nil /\ a.screen = "cards"
        BY <1>1, <2>1, AnsweredOutside
    <2> QED BY <1>1, <2>1, <2>2
<1>8. CASE Creates(d)
    <2>1. PICK r \in R : /\ r.kind = "create" /\ Answers(d, r)
                         /\ b.isInOnlineSession = a.isInOnlineSession
        BY <1>8 DEF Creates
    <2>2. ~a.isInOnlineSession
        BY <1>1, <2>1, AnsweredOutside
    <2> QED BY <1>1, <2>1, <2>2
<1>9. CASE DealsDeck(d)
    <2>1. a.screen = "settings" /\ SameMembership(a, b)
        BY <1>9 DEF DealsDeck
    <2> QED BY <1>1, <1>2, <2>1 DEF InLobby, SameMembership
<1>10. CASE RunsOut(d)
    <2>1. a.screen = "cards" /\ SameMembership(a, b) /\ b.items = a.items
        BY <1>10 DEF RunsOut
    <2> QED BY <1>1, <1>10, <2>1 DEF SameMembership, Plays
<1>11. CASE LosesRequest(d)
    <2>1. PICK r \in R : /\ Answers(d, r) /\ s = q
                         /\ \/ b = a
                            \/ r.kind \in {"create", "join"} /\ b.activeGroupId = a.activeGroupId
        BY <1>11 DEF LosesRequest
    <2>2. r.kind \in {"create", "join"} => a.activeGroupId = Nil
        BY <1>1, <2>1, AnsweredOutside
    <2> QED BY <1>1, <2>1, <2>2 DEF Plays
<1>12. CASE Launches(d)
    <2>1. b.activeGroupId = Nil
        BY <1>12 DEF Launches, LaunchedApp
    <2> QED BY <1>1, <2>1
<1> QED BY <1>3, <1>4, <1>5, <1>6, <1>7, <1>8, <1>9, <1>10, <1>11, <1>12

LEMMA NobodyGoes ==
    ASSUME NobodyLeaves, Guests, Orderly, NEW d \in Devices
    PROVE  ~Leaves(d) /\ ~SignsOff(d)
BY DEF NobodyLeaves, Guests, Orderly, InOrder, Leaves, SignsOff

LEMMA PlaysStep ==
    ASSUME NobodyLeaves, IInv, Guests, Orderly, AllStartedOnce, AllPlayTheDeck, Next
    PROVE  AllPlayTheDeck'
<1>1. PICK d \in Devices :
              \/ Idles(d) \/ Crashes(d) \/ SwitchesOn(d) \/ AsksToJoin(d) \/ AsksToCreate(d)
              \/ Joins(d) \/ Creates(d) \/ DealsDeck(d) \/ StartsGroup(d) \/ RunsOut(d)
              \/ Starts(d) \/ LosesRequest(d) \/ Launches(d) \/ Delivers(d)
    BY NextCases, NobodyGoes
<1> DEFINE a == app[d]
           b == app'[d]
           q == outbox[d]
           s == outbox'[d]
<1>2. q \in Seq(Writes) /\ \A c \in Codes : groups[c] \in Groups \cup {Nil}
    BY OutboxTypes
<1>3. SUFFICES ASSUME NEW e \in Devices, NEW c \in Codes, Plays(app[e], c)'
               PROVE  \/ groups'[c] # Nil /\ StartedOn(groups'[c], app'[e])
                      \/ \E i \in PendingSets(outbox'[e], c) :
                            StartedOn(outbox'[e][i].group, app'[e])
    BY DEF AllPlayTheDeck, PlaysTheDeck
<1>4. /\ Plays(app[e], c) => \/ groups[c] # Nil /\ StartedOn(groups[c], app[e])
                             \/ \E i \in PendingSets(outbox[e], c) :
                                   StartedOn(outbox[e][i].group, app[e])
    BY DEF AllPlayTheDeck, PlaysTheDeck
<1>5. CASE e # d /\ ~Delivers(d)
    BY <1>1, <1>3, <1>4, <1>5, StepsMove DEF Moves
<1>6. ASSUME e = d, groups' = groups, Plays(a, c), b.items = a.items,
             \A i \in PendingSets(q, c) : i \in PendingSets(s, c) /\ s[i] = q[i]
      PROVE  \/ groups'[c] # Nil /\ StartedOn(groups'[c], app'[e])
             \/ \E i \in PendingSets(outbox'[e], c) :
                   StartedOn(outbox'[e][i].group, app'[e])
    BY <1>4, <1>6 DEF StartedOn
<1>7. CASE /\ e = d
           /\ \/ Idles(d) \/ Crashes(d) \/ SwitchesOn(d) \/ AsksToJoin(d) \/ AsksToCreate(d)
              \/ Joins(d) \/ Creates(d) \/ DealsDeck(d) \/ RunsOut(d)
              \/ LosesRequest(d) \/ Launches(d)
    <2>1. Plays(a, c) /\ b.items = a.items /\ (s = q \/ RunsOut(d))
        BY <1>3, <1>7, ToPlay
    <2>2. \A i \in PendingSets(q, c) : i \in PendingSets(s, c) /\ s[i] = q[i]
        BY <2>1, SmallWrites DEF PendingSets
    <2> QED BY <1>6, <1>7, <2>1, <2>2, StepsMove
<1>8. CASE e = d /\ StartsGroup(d)
    <2>1. CASE s = q
        <3>1. InOrder(a, requests[d], q)
            BY DEF Orderly
        <3>2. \/ b = a
              \/ /\ SetData(c, NewGroup) \in Writes
                 /\ \E w \in Writes : s = q \o <<w>>
            <4>1. PICK r \in requests[d] :
                      /\ r.code \in Codes /\ r.deck \in HostDecks
                      /\ \/ b = a
                         \/ /\ View(d, r.code) # Nil
                            /\ s = q \o <<SetData(r.code, StartedGroup(View(d, r.code), r.deck))>>
                BY <1>8 DEF StartsGroup
            <4> QED BY <4>1, SentWrites
        <3>3. \A w \in Writes : q \o <<w>> # q
            <4> TAKE w \in Writes
            <4>1. /\ Len(q) \in Nat /\ DOMAIN q = 1..Len(q)
                  /\ DOMAIN (q \o <<w>>) = 1..(Len(q) + 1)
                BY <1>2, AddedWrite
            <4>2. Len(q) + 1 \in 1..(Len(q) + 1) /\ Len(q) + 1 \notin 1..Len(q)
                BY <4>1
            <4> QED BY <4>1, <4>2
        <3>4. b = a
            BY <2>1, <3>2, <3>3
        <3> QED BY <1>3, <1>6, <1>8, <2>1, <3>4, StepsMove
    <2>2. CASE s # q
        <3>1. PICK k \in Codes, deck \in HostDecks :
                  /\ View(d, k) # Nil
                  /\ s = q \o <<SetData(k, StartedGroup(View(d, k), deck))>>
                  /\ b.activeGroupId = k /\ b.items = deck
            BY <1>8, <2>2, HostStarts
        <3> DEFINE g == StartedGroup(View(d, k), deck)
                   w == SetData(k, g)
        <3>2. g.swipingSessionRunning /\ g.dinnerIdsForCardView = deck
            <4>1. View(d, k) \in Groups
                BY <3>1, OutboxTypes
            <4> HIDE DEF View
            <4> QED BY <4>1 DEF StartedGroup, Groups
        <3>3. w \in Writes /\ w.op = "set" /\ w.code = k /\ w.group = g
            BY <3>1, SentWrites DEF SetData
        <3>4. k = c
            BY <1>3, <1>8, <3>1 DEF Plays
        <3> HIDE DEF w, g
        <3>5. /\ Len(q) \in Nat /\ DOMAIN (q \o <<w>>) = 1..(Len(q) + 1)
              /\ (q \o <<w>>)[Len(q) + 1] = w
            BY <1>2, <3>3, AddedWrite
        <3>6. s = q \o <<w>>
            BY <3>1 DEF w, g
        <3>7. Len(q) + 1 \in PendingSets(s, c) /\ s[Len(q) + 1].group = g
            BY <3>3, <3>4, <3>5, <3>6 DEF PendingSets
        <3> QED BY <1>8, <3>1, <3>2, <3>7 DEF StartedOn
    <2> QED BY <2>1, <2>2
<1>9. CASE e = d /\ Starts(d)
    <2>1. PICK l \in Attached(a) :
              /\ MovesAlone(d) /\ l.role = "wait" /\ a.screen \notin {"frozen", "closed"}
              /\ View(d, l.code) # Nil /\ View(d, l.code).swipingSessionRunning
              /\ b.items = View(d, l.code).dinnerIdsForCardView /\ SameMembership(a, b)
        BY <1>9 DEF Starts
    <2>2. InOrder(a, requests[d], q)
        BY DEF Orderly
    <2>3. Hears(a, "wait")
        BY <2>1 DEF Hears
    <2>4. NoSets(q) /\ l.code = c
        <3>1. NoSets(q) /\ l.code = a.activeGroupId
            BY <2>1, <2>2, <2>3, StarterWaited
        <3> QED BY <1>3, <1>9, <2>1, <3>1 DEF SameMembership, Plays
    <2>5. BaseDocument(groups[c], q, c) = groups[c]
        BY <2>4 DEF BaseDocument, NoSets, PendingSets
    <2>6. /\ groups[c] # Nil
          /\ View(d, c).swipingSessionRunning = groups[c].swipingSessionRunning
          /\ View(d, c).dinnerIdsForCardView = groups[c].dinnerIdsForCardView
        <3> DEFINE v == LocalView(groups[c], q, c)
                   g == BaseDocument(groups[c], q, c)
        <3>1. v = View(d, c) /\ v # Nil
            BY <2>1, <2>4 DEF View
        <3>2. /\ v = Nil <=> g = Nil
              /\ g # Nil => /\ v.swipingSessionRunning = g.swipingSessionRunning
                            /\ v.dinnerIdsForCardView = g.dinnerIdsForCardView
            BY <1>2, SeenFields
        <3> HIDE DEF v, g
        <3> QED BY <2>5, <3>1, <3>2 DEF g
    <2> QED BY <1>9, <2>1, <2>4, <2>6 DEF StartedOn, MovesAlone
<1>10. CASE Delivers(d)
    <2> DEFINE w == Head(q)
    <2>1. /\ q # <<>> /\ s = Tail(q) /\ w \in Writes /\ app' = app
          /\ \A x \in Devices \ {d} : outbox'[x] = outbox[x]
          /\ groups'[c] = IF w.code = c THEN ApplyWrite(groups[c], w) ELSE groups[c]
        BY <1>10 DEF Delivers
    <2>2. CASE groups[c] # Nil /\ StartedOn(groups[c], app[e])
        <3>1. Running(c)
            BY <2>2 DEF StartedOn, Running
        <3>2. /\ Running(c)'
              /\ groups'[c].dinnerIdsForCardView = groups[c].dinnerIdsForCardView
            BY <3>1, RunningKept
        <3> QED BY <2>1, <2>2, <3>2 DEF Running, StartedOn
    <2>3. ASSUME NEW i \in PendingSets(outbox[e], c), StartedOn(outbox[e][i].group, app[e])
          PROVE  \/ groups'[c] # Nil /\ StartedOn(groups'[c], app'[e])
                 \/ \E k \in PendingSets(outbox'[e], c) :
                       StartedOn(outbox'[e][k].group, app'[e])
        <3>1. CASE e # d
            BY <2>1, <2>3, <3>1
        <3>2. CASE e = d /\ i = 1
            <4>1. w = q[1]
                BY <1>2, <2>1, TakenWrite
            <4>2. w.code = c /\ w.op = "set" /\ StartedOn(w.group, app[e])
                BY <2>3, <3>2, <4>1 DEF PendingSets
            <4>3. w.group \in Groups
                BY <2>1, <4>2 DEF Writes
            <4> HIDE DEF w
            <4>4. groups'[c] = w.group
                BY <2>1, <4>2, Replaced
            <4> QED BY <2>1, <4>2, <4>3, <4>4, NilAssumption
        <3>3. CASE e = d /\ i # 1
            <4>1. /\ Len(q) \in Nat \ {0} /\ DOMAIN q = 1..Len(q)
                  /\ DOMAIN Tail(q) = 1..(Len(q) - 1)
                  /\ \A k \in 1..(Len(q) - 1) : Tail(q)[k] = q[k + 1]
                BY <1>2, <2>1, TakenWrite
            <4>2. i \in 1..Len(q) /\ q[i].code = c /\ q[i].op = "set"
                BY <2>3, <3>3, <4>1 DEF PendingSets
            <4>3. i - 1 \in 1..(Len(q) - 1) /\ i - 1 + 1 = i
                BY <3>3, <4>1, <4>2
            <4>4. i - 1 \in DOMAIN s /\ s[i - 1] = q[i]
                BY <2>1, <4>1, <4>3
            <4>5. i - 1 \in PendingSets(s, c)
                BY <4>2, <4>4 DEF PendingSets
            <4> QED BY <2>1, <2>3, <3>3, <4>4, <4>5
        <3> QED BY <3>1, <3>2, <3>3
    <2> QED BY <1>3, <1>4, <2>1, <2>2, <2>3
<1> QED BY <1>1, <1>5, <1>7, <1>8, <1>9, <1>10

-----------------------------------------------------------------------------
(***************************************************************************)
(* The queue of who runs out of cards, and of who joins.                   *)
(***************************************************************************)
LEMMA RunOutQueue ==
    ASSUME IInv, NEW d \in Devices, RunsOut(d)
    PROVE  LET q == outbox[d]
               s == outbox'[d]
               n == Len(q)
               c == app[d].activeGroupId
           IN
           /\ q \in Seq(Writes) /\ s \in Seq(Writes) /\ n \in Nat
           /\ DOMAIN q = 1..n /\ DOMAIN s = 1..(n + 2)
           /\ \A i \in 1..n : s[i] = q[i]
           /\ s[n + 1].op = "vote" /\ s[n + 1].code = app[d].groupId
           /\ s[n + 1].user = app[d].uniqueUserId
           /\ s[n + 2].op = "ready" /\ s[n + 2].code = c
           /\ s[n + 2].base = ReadyIn(View(d, c))
<1> DEFINE q == outbox[d]
           s == outbox'[d]
           n == Len(q)
           c == app[d].activeGroupId
           v == AddDinnerIdsToFirebase(app[d].groupId, app[d].uniqueUserId,
                                       app'[d].localUserYesSwiped)
           w == MarkThisUserAsReady(c, ReadyIn(View(d, c)))
<1>1. /\ s = q \o <<v, w>>
      /\ app[d].groupId \in Codes /\ c \in Codes /\ app[d].uniqueUserId \in UserIds
      /\ app'[d].localUserYesSwiped \in DinnerLists
    BY DEF RunsOut
<1>2. q \in Seq(Writes)
    BY OutboxTypes
<1>0. v \in Writes /\ w \in Writes
    BY <1>1, SentWrites
<1>3. /\ v.op = "vote" /\ v.code = app[d].groupId /\ v.user = app[d].uniqueUserId
      /\ w.op = "ready" /\ w.code = c /\ w.base = ReadyIn(View(d, c))
    BY DEF AddDinnerIdsToFirebase, MarkThisUserAsReady
<1> HIDE DEF v, w
<1> DEFINE t == q \o <<v>>
<1>4. s = t \o <<w>>
    <2>1. q \o <<v, w>> = (q \o <<v>>) \o <<w>>
        <3> HIDE DEF q, s, n, c
        <3> QED BY ONLY <1>0, <1>2, TwoAdded
    <2> QED BY <1>1, <2>1
<1>5. /\ t \in Seq(Writes) /\ n \in Nat /\ DOMAIN q = 1..n /\ DOMAIN t = 1..(n + 1)
      /\ \A i \in 1..n : t[i] = q[i]
      /\ t[n + 1] = v
    BY <1>0, <1>2, AddedWrite
<1> HIDE DEF t, n
<1>6. Len(t) = n + 1
    BY <1>5, LenProperties
<1>7. /\ t \o <<w>> \in Seq(Writes) /\ DOMAIN (t \o <<w>>) = 1..(Len(t) + 1)
      /\ \A i \in 1..Len(t) : (t \o <<w>>)[i] = t[i]
      /\ (t \o <<w>>)[Len(t) + 1] = w
    BY <1>0, <1>5, AddedWrite
<1>8. n + 1 + 1 = n + 2 /\ n + 1 \in 1..(n + 1) /\ \A i \in 1..n : i \in 1..(n + 1)
    BY <1>5
<1>9. /\ s \in Seq(Writes) /\ DOMAIN s = 1..(n + 2)
      /\ \A i \in 1..n : s[i] = q[i]
      /\ s[n + 1] = v /\ s[n + 2] = w
    BY <1>4, <1>5, <1>6, <1>7, <1>8
<1> QED BY <1>2, <1>3, <1>5, <1>9 DEF n

LEMMA JoinQueue ==
    ASSUME IInv, NEW d \in Devices, Joins(d), outbox'[d] # outbox[d]
    PROVE  LET q == outbox[d]
               s == outbox'[d]
               n == Len(q)
           IN
           /\ q \in Seq(Writes) /\ s \in Seq(Writes) /\ n \in Nat
           /\ DOMAIN q = 1..n /\ DOMAIN s = 1..(n + 1)
           /\ \A i \in 1..n : s[i] = q[i]
           /\ s[n + 1].op = "join"
<1> DEFINE q == outbox[d]
<1>1. PICK r \in requests[d] :
          /\ r.code \in Codes
          /\ outbox'[d] = q \o <<AddOneParticipant(r.code, ParticipantsIn(View(d, r.code)))>>
    BY DEF Joins
<1> DEFINE w == AddOneParticipant(r.code, ParticipantsIn(View(d, r.code)))
<1>2. w \in Writes /\ w.op = "join" /\ q \in Seq(Writes)
    BY <1>1, SentWrites, OutboxTypes DEF AddOneParticipant
<1> HIDE DEF w
<1>3. /\ q \o <<w>> \in Seq(Writes) /\ Len(q) \in Nat /\ DOMAIN q = 1..Len(q)
      /\ DOMAIN (q \o <<w>>) = 1..(Len(q) + 1)
      /\ \A i \in 1..Len(q) : (q \o <<w>>)[i] = q[i]
      /\ (q \o <<w>>)[Len(q) + 1] = w
    BY <1>2, AddedWrite
<1>4. outbox'[d] = q \o <<w>>
    BY <1>1 DEF w
<1> QED BY <1>2, <1>3, <1>4

-----------------------------------------------------------------------------
(***************************************************************************)
(* Guests vote, and report that they are ready, for groups that run.       *)
(***************************************************************************)
GuestVotes(d) ==
    d \notin Hosts => \A i \in DOMAIN outbox[d] :
        outbox[d][i].op \in {"vote", "ready"} => Running(outbox[d][i].code)

GuestsVote == \A d \in Devices : GuestVotes(d)

LEMMA GuestsVoteInit == Init => GuestsVote
BY DEF Init, GuestsVote, GuestVotes

LEMMA GuestsVoteStep ==
    ASSUME NobodyLeaves, IInv, Guests, Orderly, AllStartedOnce, AllPlayTheDeck, GuestsVote, Next
    PROVE  GuestsVote'
<1>1. PICK d \in Devices :
              \/ Idles(d) \/ Crashes(d) \/ SwitchesOn(d) \/ AsksToJoin(d) \/ AsksToCreate(d)
              \/ Joins(d) \/ Creates(d) \/ DealsDeck(d) \/ StartsGroup(d) \/ RunsOut(d)
              \/ Starts(d) \/ LosesRequest(d) \/ Launches(d) \/ Delivers(d)
    BY NextCases, NobodyGoes
<1> DEFINE q == outbox[d]
           s == outbox'[d]
           RunsOn(c) == groups'[c] # Nil /\ groups'[c].swipingSessionRunning
<1>2. SUFFICES ASSUME NEW e \in Devices, e \notin Hosts, NEW i \in DOMAIN outbox'[e],
                      outbox'[e][i].op \in {"vote", "ready"}
               PROVE  RunsOn(outbox'[e][i].code)
    BY DEF GuestsVote, GuestVotes, Running
<1>3. ASSUME NEW c, c \in Codes, Running(c)
      PROVE  RunsOn(c)
    BY <1>3, RunningKept DEF Running
<1>4. \A x \in Devices : outbox[x] \in Seq(Writes)
    BY OutboxTypes
<1>5. ASSUME NEW j \in DOMAIN outbox[e], outbox'[e][i] = outbox[e][j]
      PROVE  RunsOn(outbox'[e][i].code)
    <2>1. outbox[e][j] \in Writes
        BY <1>4, ElementOfSeq, LenProperties
    <2>2. outbox[e][j].code \in Codes
        BY <2>1 DEF Writes
    <2>3. Running(outbox[e][j].code)
        BY <1>2, <1>5 DEF GuestsVote, GuestVotes
    <2> QED BY <1>3, <1>5, <2>2, <2>3
<1>6. CASE e # d
    <2>1. outbox'[e] = outbox[e]
        BY <1>1, <1>6, StepsMove DEF Moves, Delivers
    <2> QED BY <1>2, <1>5, <2>1
<1>7. CASE e = d /\ Delivers(d)
    <2>1. q # <<>> /\ s = Tail(q)
        BY <1>7 DEF Delivers
    <2>2. /\ DOMAIN q = 1..Len(q) /\ DOMAIN Tail(q) = 1..(Len(q) - 1)
          /\ \A k \in 1..(Len(q) - 1) : Tail(q)[k] = q[k + 1] /\ k + 1 \in 1..Len(q)
        BY <1>4, <2>1, TakenWrite
    <2> QED BY <1>2, <1>5, <1>7, <2>1, <2>2
<1>8. CASE e = d /\ (Creates(d) \/ StartsGroup(d))
    <2>1. \A r \in requests[d] : r.kind \notin {"create", "start"}
        BY <1>2, <1>8 DEF Guests, Guest
    <2> QED BY <1>8, <2>1 DEF Creates, StartsGroup
<1>9. CASE e = d /\ \/ Idles(d) \/ Crashes(d) \/ SwitchesOn(d) \/ AsksToJoin(d) \/ AsksToCreate(d)
                    \/ DealsDeck(d) \/ Starts(d) \/ LosesRequest(d) \/ Launches(d)
    <2>1. s \in {q, <<>>}
        BY <1>9, QueueChanges
    <2>2. s # <<>>
        BY <1>2, <1>9
    <2> QED BY <1>2, <1>5, <1>9, <2>1, <2>2
<1>10. CASE e = d /\ Joins(d)
    <2>1. CASE s = q
        BY <1>2, <1>5, <1>10, <2>1
    <2>2. CASE s # q
        <3>1. /\ Len(q) \in Nat /\ DOMAIN q = 1..Len(q) /\ DOMAIN s = 1..(Len(q) + 1)
              /\ \A k \in 1..Len(q) : s[k] = q[k]
              /\ s[Len(q) + 1].op = "join"
            BY <1>10, <2>2, JoinQueue
        <3>2. i \in 1..Len(q)
            <4>1. i # Len(q) + 1
                BY <1>2, <1>10, <3>1
            <4> QED BY <1>2, <1>10, <3>1, <4>1
        <3> QED BY <1>5, <1>10, <3>1, <3>2
    <2> QED BY <2>1, <2>2
<1>11. CASE e = d /\ RunsOut(d)
    <2> DEFINE c == app[d].activeGroupId
    <2>1. /\ Len(q) \in Nat /\ DOMAIN q = 1..Len(q) /\ DOMAIN s = 1..(Len(q) + 2)
          /\ \A k \in 1..Len(q) : s[k] = q[k]
          /\ s[Len(q) + 1].code = app[d].groupId /\ s[Len(q) + 2].code = c
        BY <1>11, RunOutQueue
    <2>2. c \in Codes /\ app[d].screen = "cards"
        BY <1>11 DEF RunsOut
    <2>3. app[d].groupId = c /\ app[d].isInOnlineSession /\ NoSets(q)
        BY <1>2, <1>11, <2>2, NilAssumption DEF Orderly, InOrder, InsideGroup, Guests, Guest
    <2>4. Plays(app[d], c)
        BY <2>2, <2>3 DEF Plays
    <2>5. PendingSets(q, c) = {}
        BY <2>3 DEF NoSets, PendingSets
    <2>6. Running(c)
        BY <2>2, <2>4, <2>5 DEF AllPlayTheDeck, PlaysTheDeck, StartedOn, Running
    <2>7. RunsOn(c)
        BY <1>3, <2>2, <2>6
    <2>8. CASE i \in 1..Len(q)
        BY <1>5, <1>11, <2>1, <2>8
    <2>9. CASE i \notin 1..Len(q)
        <3>1. i = Len(q) + 1 \/ i = Len(q) + 2
            BY <1>2, <1>11, <2>1, <2>9
        <3>2. s[i].code = c
            BY <2>1, <2>3, <3>1
        <3> QED BY <1>11, <2>7, <3>2
    <2> QED BY <2>8, <2>9
<1> QED BY <1>1, <1>6, <1>7, <1>8, <1>9, <1>10, <1>11

-----------------------------------------------------------------------------
(***************************************************************************)
(* Every document on its way to the server contains the votes that the     *)
(* server will have by then.                                               *)
(***************************************************************************)
LEMMA BaseIs ==
    ASSUME NEW g, NEW q \in Seq(Writes), NEW c
    PROVE  \/ PendingSets(q, c) = {} /\ BaseDocument(g, q, c) = g
           \/ \E i \in PendingSets(q, c) : /\ BaseDocument(g, q, c) = q[i].group
                                           /\ \A j \in PendingSets(q, c) : j <= i
<1>1. CASE PendingSets(q, c) = {}
    BY <1>1 DEF BaseDocument
<1>2. CASE PendingSets(q, c) # {}
    <2> DEFINE i == Latest(PendingSets(q, c))
    <2>1. PendingSets(q, c) \subseteq 1..Len(q) /\ Len(q) \in Nat
        BY PendingIndex
    <2>2. i \in PendingSets(q, c) /\ \A j \in PendingSets(q, c) : j <= i
        BY <1>2, <2>1, LatestIsThere
    <2>3. BaseDocument(g, q, c) = q[i].group
        BY <1>2 DEF BaseDocument
    <2> QED BY <2>2, <2>3
<1> QED BY <1>1, <1>2

\* Who has voted, as a client sees it.
LEMMA SeenVoters ==
    ASSUME NEW g \in Groups \cup {Nil}, NEW q \in Seq(Writes), NEW c \in Codes,
           LocalView(g, q, c) # Nil
    PROVE  /\ BaseDocument(g, q, c) # Nil
           /\ Voters(LocalView(g, q, c))
                = Voters(BaseDocument(g, q, c)) \cup {q[i].user : i \in Pending(q, c, "vote")}
<1> DEFINE b == BaseDocument(g, q, c)
           v == LocalView(g, q, c)
           sent == {q[i].user : i \in Pending(q, c, "vote")}
<1>1. /\ b # Nil
      /\ v.accepted = [u \in UserIds |-> IF PendingVotes(q, c, u) = {} THEN b.accepted[u]
                                         ELSE q[Latest(PendingVotes(q, c, u))].list]
    BY SeenFields
<1>2. /\ Len(q) \in Nat /\ DOMAIN q = 1..Len(q)
      /\ \A i \in DOMAIN q : q[i] \in Writes
    BY LenProperties, ElementOfSeq
<1>3. \A i \in Pending(q, c, "vote") : i \in DOMAIN q /\ q[i].op = "vote" /\ q[i].user \in UserIds
    BY <1>2 DEF Pending, Writes
<1>4. ASSUME NEW u \in UserIds
      PROVE  u \in Voters(v) <=> u \in Voters(b) \/ u \in sent
    <2>1. CASE PendingVotes(q, c, u) = {}
        <3>1. u \notin sent
            BY <2>1 DEF PendingVotes
        <3>2. v.accepted[u] = b.accepted[u]
            BY <1>1, <2>1
        <3> HIDE DEF v, b, sent
        <3> QED BY <3>1, <3>2 DEF Voters
    <2>2. CASE PendingVotes(q, c, u) # {}
        <3> DEFINE i == Latest(PendingVotes(q, c, u))
        <3>1. PendingVotes(q, c, u) \subseteq 1..Len(q)
            BY <1>2, <1>3 DEF PendingVotes
        <3>2. i \in PendingVotes(q, c, u)
            BY <1>2, <2>2, <3>1, LatestIsThere
        <3>3. i \in Pending(q, c, "vote") /\ q[i].user = u
            BY <3>2 DEF PendingVotes
        <3>4. v.accepted[u] = q[i].list
            BY <1>1, <2>2
        <3> HIDE DEF i
        <3>5. q[i].list \in DinnerLists /\ q[i].list # Nil
            BY <1>2, <1>3, <3>3, NilAssumption DEF Writes
        <3>6. u \in sent
            BY <3>3
        <3> HIDE DEF v, b, sent
        <3> QED BY <3>4, <3>5, <3>6 DEF Voters
    <2> QED BY <2>1, <2>2
<1>5. sent \subseteq UserIds
    BY <1>3
<1> HIDE DEF v, b, sent
<1>6. Voters(v) \subseteq UserIds /\ Voters(b) \subseteq UserIds
    BY DEF Voters
<1>7. Voters(v) = Voters(b) \cup sent
    BY <1>4, <1>5, <1>6
<1> QED BY <1>1, <1>7 DEF v, b, sent

\* The votes of a document that host d sends as number i.
CoversUpTo(q, c, i, V) ==
    \A j \in DOMAIN q : j < i /\ q[j].code = c =>
        /\ q[j].op = "vote" => q[j].user \in V
        /\ q[j].op = "set" => Voters(q[j].group) \subseteq V

Covers(d, c) ==
    \A i \in PendingSets(outbox[d], c) :
        /\ groups[c] # Nil => Voters(groups[c]) \subseteq Voters(outbox[d][i].group)
        /\ CoversUpTo(outbox[d], c, i, Voters(outbox[d][i].group))

AllCovered == \A d \in Devices, c \in Codes : Covers(d, c)

LEMMA CoversInit == Init => AllCovered
BY NoSetsInEmpty DEF Init, AllCovered, Covers

\* What a client sees covers the server's document and all it has sent.
LEMMA ViewCovers ==
    ASSUME IInv, AllCovered, NEW d \in Devices, NEW c \in Codes, View(d, c) # Nil
    PROVE  /\ groups[c] # Nil => Voters(groups[c]) \subseteq Voters(View(d, c))
           /\ CoversUpTo(outbox[d], c, Len(outbox[d]) + 1, Voters(View(d, c)))
<1> DEFINE q == outbox[d]
           b == BaseDocument(groups[c], q, c)
           sent == {q[i].user : i \in Pending(q, c, "vote")}
           V == Voters(View(d, c))
<1>1. q \in Seq(Writes) /\ groups[c] \in Groups \cup {Nil}
    BY OutboxTypes
<1>2. V = Voters(b) \cup sent
    BY <1>1, SeenVoters DEF View
<1>3. DOMAIN q = 1..Len(q) /\ Len(q) \in Nat
    BY <1>1, LenProperties
<1>4. \/ PendingSets(q, c) = {} /\ b = groups[c]
      \/ \E i \in PendingSets(q, c) : b = q[i].group /\ \A j \in PendingSets(q, c) : j <= i
    BY <1>1, BaseIs
<1> HIDE DEF b, V
<1>5. groups[c] # Nil => Voters(groups[c]) \subseteq V
    BY <1>2, <1>4 DEF AllCovered, Covers
<1>6. ASSUME NEW j \in DOMAIN q, q[j].code = c, q[j].op = "set"
      PROVE  Voters(q[j].group) \subseteq V
    <2>1. j \in PendingSets(q, c)
        BY <1>6 DEF PendingSets
    <2>2. PICK i \in PendingSets(q, c) : b = q[i].group /\ \A k \in PendingSets(q, c) : k <= i
        BY <1>4, <2>1
    <2>3. j = i \/ j < i
        BY <1>3, <2>1, <2>2 DEF PendingSets
    <2>4. Voters(q[j].group) \subseteq Voters(q[i].group)
        BY <1>6, <2>2, <2>3 DEF AllCovered, Covers, CoversUpTo
    <2> QED BY <1>2, <2>2, <2>4
<1>7. ASSUME NEW j \in DOMAIN q, q[j].code = c, q[j].op = "vote"
      PROVE  q[j].user \in V
    <2>1. CASE j \in Pending(q, c, "vote")
        BY <1>2, <2>1
    <2>2. CASE j \notin Pending(q, c, "vote")
        <3>1. PendingSets(q, c) # {}
            BY <1>7, <2>2 DEF Pending
        <3>2. PICK i \in PendingSets(q, c) : b = q[i].group /\ \A k \in PendingSets(q, c) : k <= i
            BY <1>4, <3>1
        <3>3. PICK k \in PendingSets(q, c) : ~(k < j)
            BY <1>7, <2>2 DEF Pending
        <3>4. j < i
            <4>1. k <= i /\ i \in 1..Len(q) /\ k \in 1..Len(q) /\ k # j
                BY <1>3, <1>7, <3>2, <3>3 DEF PendingSets
            <4> QED BY <1>3, <3>3, <4>1
        <3>5. q[j].user \in Voters(q[i].group)
            BY <1>7, <3>2, <3>4 DEF AllCovered, Covers, CoversUpTo
        <3> QED BY <1>2, <3>2, <3>5
    <2> QED BY <2>1, <2>2
<1> QED BY <1>5, <1>6, <1>7 DEF CoversUpTo, V

LEMMA CoversStep ==
    ASSUME OneHost, NobodyLeaves, IInv, Guests, Orderly, AllStartedOnce, GuestsVote, AllCovered,
           Next
    PROVE  AllCovered'
<1>1. PICK d \in Devices :
              \/ Idles(d) \/ Crashes(d) \/ SwitchesOn(d) \/ AsksToJoin(d) \/ AsksToCreate(d)
              \/ Joins(d) \/ Creates(d) \/ DealsDeck(d) \/ StartsGroup(d) \/ RunsOut(d)
              \/ Starts(d) \/ LosesRequest(d) \/ Launches(d) \/ Delivers(d)
    BY NextCases, NobodyGoes
<1> DEFINE q == outbox[d]
           s == outbox'[d]
           n == Len(q) + 1
<1>2. /\ q \in Seq(Writes) /\ \A c \in Codes : groups[c] \in Groups \cup {Nil}
      /\ Len(q) \in Nat /\ DOMAIN q = 1..Len(q)
    BY OutboxTypes, LenProperties
<1>3. SUFFICES ASSUME NEW e \in Devices, NEW c \in Codes
               PROVE  Covers(e, c)'
    BY DEF AllCovered
<1>4. Covers(e, c) /\ Covers(d, c)
    BY DEF AllCovered
<1>5. CASE e # d /\ ~Delivers(d)
    BY <1>1, <1>4, <1>5, StepsMove DEF Covers, CoversUpTo, Moves
<1>6. ASSUME e = d, groups' = groups,
             \A i \in PendingSets(s, c) :
                 /\ i \in PendingSets(q, c) /\ s[i] = q[i]
                 /\ \A j \in DOMAIN s : j < i => j \in DOMAIN q /\ s[j] = q[j]
      PROVE  Covers(e, c)'
    BY <1>4, <1>6 DEF Covers, CoversUpTo
<1>7. CASE e = d /\ \/ Idles(d) \/ Crashes(d) \/ SwitchesOn(d) \/ AsksToJoin(d) \/ AsksToCreate(d)
                    \/ DealsDeck(d) \/ Starts(d) \/ LosesRequest(d) \/ Launches(d)
    <2>1. s \in {q, <<>>}
        BY <1>7, QueueChanges
    <2> QED BY <1>6, <1>7, <2>1, NoSetsInEmpty, StepsMove
<1>8. CASE e = d /\ (Joins(d) \/ RunsOut(d))
    <2>1. PendingSets(s, c) = PendingSets(q, c) /\ \A i \in DOMAIN q : s[i] = q[i]
        BY <1>8, SmallWrites
    <2>2. s \in Seq(Writes)
        BY <1>8, SmallWrites
    <2>3. DOMAIN s = 1..Len(s) /\ Len(s) \in Nat
        BY <2>2, LenProperties
    <2>4. ASSUME NEW i \in PendingSets(q, c), NEW j \in DOMAIN s, j < i
          PROVE  j \in DOMAIN q
        BY <1>2, <2>3, <2>4 DEF PendingSets
    <2>5. \A i \in PendingSets(q, c) : i \in DOMAIN q
        BY DEF PendingSets
    <2> QED BY <1>6, <1>8, <2>1, <2>4, <2>5, StepsMove
<1>9. ASSUME NEW k \in Codes, NEW g \in Groups, s = q \o <<SetData(k, g)>>, e = d, groups' = groups,
             k = c => /\ groups[c] # Nil => Voters(groups[c]) \subseteq Voters(g)
                      /\ CoversUpTo(q, c, n, Voters(g))
      PROVE  Covers(e, c)'
    <2> DEFINE w == SetData(k, g)
    <2>1. w \in Writes /\ w.op = "set" /\ w.code = k /\ w.group = g
        BY DEF SetData, Writes
    <2> HIDE DEF w
    <2>2. /\ DOMAIN (q \o <<w>>) = 1..(Len(q) + 1)
          /\ \A i \in 1..Len(q) : (q \o <<w>>)[i] = q[i]
          /\ (q \o <<w>>)[Len(q) + 1] = w
        BY <1>2, <2>1, AddedWrite
    <2>3. PendingSets(q \o <<w>>, c)
              = IF w.code = c /\ w.op = "set" THEN PendingSets(q, c) \cup {Len(q) + 1}
                ELSE PendingSets(q, c)
        BY <1>2, <2>1, PendingAdded
    <2>4. /\ n \in Nat /\ DOMAIN s = 1..n /\ s[n] = w
          /\ \A i \in 1..Len(q) : s[i] = q[i]
          /\ PendingSets(s, c) = IF k = c THEN PendingSets(q, c) \cup {n} ELSE PendingSets(q, c)
        BY <1>2, <1>9, <2>1, <2>2, <2>3 DEF w
    <2>5. \A i \in PendingSets(q, c) : i \in 1..Len(q) /\ i < n /\ s[i] = q[i]
        BY <1>2, <2>4 DEF PendingSets
    <2>6. ASSUME NEW j \in DOMAIN s, NEW i \in 1..n, j < i
          PROVE  j \in DOMAIN q /\ s[j] = q[j]
        BY <1>2, <2>4, <2>6
    <2>7. \A i \in PendingSets(q, c) : i \in 1..n
        BY <1>2, <2>5
    <2>8. n \in 1..n
        BY <2>4
    <2> HIDE DEF n
    <2>9. CASE k # c
        BY <1>6, <1>9, <2>4, <2>5, <2>6, <2>7, <2>9
    <2>10. CASE k = c
        <3>1. ASSUME NEW i \in PendingSets(q, c)
              PROVE  /\ groups[c] # Nil => Voters(groups[c]) \subseteq Voters(s[i].group)
                     /\ CoversUpTo(s, c, i, Voters(s[i].group))
            BY <1>4, <2>5, <2>6, <2>7 DEF Covers, CoversUpTo
        <3>2. /\ groups[c] # Nil => Voters(groups[c]) \subseteq Voters(s[n].group)
              /\ CoversUpTo(s, c, n, Voters(s[n].group))
            <4>1. s[n].group = g
                BY <2>1, <2>4
            <4> QED BY <1>9, <2>6, <2>8, <2>10, <4>1 DEF CoversUpTo
        <3> QED BY <1>9, <2>4, <2>10, <3>1, <3>2 DEF Covers
    <2> QED BY <2>9, <2>10
<1>10. CASE e = d /\ Creates(d)
    <2>1. PICK r \in requests[d] :
              /\ Answers(d, r) /\ r.kind = "create"
              /\ \/ s = q
                 \/ \E k \in Codes : View(d, k) = Nil /\ s = q \o <<SetData(k, NewGroup)>>
        BY <1>10 DEF Creates
    <2>2. CASE s = q
        BY <1>6, <1>10, <2>2, StepsMove
    <2>3. ASSUME NEW k \in Codes, View(d, k) = Nil, s = q \o <<SetData(k, NewGroup)>>
          PROVE  Covers(e, c)'
        <3>1. InOrder(app[d], requests[d], q)
            BY DEF Orderly
        <3>2. q = <<>>
            BY <2>1, <3>1, AnsweredOutside
        <3>3. groups[k] = Nil
            BY <2>3, UnseenIsNew
        <3>4. CoversUpTo(q, c, n, Voters(NewGroup))
            BY <3>2 DEF CoversUpTo
        <3>5. NewGroup \in Groups
            BY SentWrites
        <3> HIDE DEF n, q, s
        <3> QED BY <1>9, <1>10, <2>3, <3>3, <3>4, <3>5, StepsMove DEF q, s
    <2> QED BY <2>1, <2>2, <2>3
<1>11. CASE e = d /\ StartsGroup(d)
    <2>1. CASE s = q
        BY <1>6, <1>11, <2>1, StepsMove
    <2>2. CASE s # q
        <3>1. PICK k \in Codes, deck \in HostDecks :
                  /\ View(d, k) # Nil
                  /\ s = q \o <<SetData(k, StartedGroup(View(d, k), deck))>>
            BY <1>11, <2>2, HostStarts
        <3> DEFINE v == View(d, k)
                   g == StartedGroup(v, deck)
        <3>2. v \in Groups /\ g \in Groups
            BY <3>1, OutboxTypes, SentWrites
        <3>3. /\ groups[k] # Nil => Voters(groups[k]) \subseteq Voters(v)
              /\ CoversUpTo(q, k, n, Voters(v))
            BY <3>1, ViewCovers
        <3>4. s = q \o <<SetData(k, g)>>
            BY <3>1
        <3> HIDE DEF v
        <3>5. Voters(g) = Voters(v)
            <4>1. g.accepted = v.accepted
                BY <3>2 DEF StartedGroup, Groups
            <4> QED BY <4>1 DEF Voters
        <3> HIDE DEF g
        <3> QED BY <1>9, <1>11, <3>2, <3>3, <3>4, <3>5, StepsMove
    <2> QED BY <2>1, <2>2
<1>12. CASE Delivers(d)
    <2> DEFINE w == Head(q)
    <2>1. /\ q # <<>> /\ s = Tail(q) /\ w \in Writes
          /\ \A x \in Devices \ {d} : outbox'[x] = outbox[x]
          /\ groups'[c] = IF w.code = c THEN ApplyWrite(groups[c], w) ELSE groups[c]
        BY <1>12 DEF Delivers
    <2>2. /\ w = q[1] /\ 1 \in DOMAIN q
          /\ DOMAIN Tail(q) = 1..(Len(q) - 1)
          /\ \A i \in 1..(Len(q) - 1) : Tail(q)[i] = q[i + 1] /\ i + 1 \in 1..Len(q)
        BY <1>2, <2>1, TakenWrite
    <2> HIDE DEF w
    <2>3. CASE e = d
        <3> SUFFICES ASSUME NEW i \in PendingSets(s, c)
                     PROVE  /\ groups'[c] # Nil => Voters(groups'[c]) \subseteq Voters(s[i].group)
                            /\ CoversUpTo(s, c, i, Voters(s[i].group))
            BY <2>3 DEF Covers
        <3> DEFINE V == Voters(s[i].group)
        <3>1. /\ i \in 1..(Len(q) - 1) /\ i + 1 \in PendingSets(q, c) /\ s[i] = q[i + 1]
            BY <1>2, <2>1, <2>2 DEF PendingSets
        <3>2. /\ groups[c] # Nil => Voters(groups[c]) \subseteq V
              /\ CoversUpTo(q, c, i + 1, V)
            BY <1>4, <3>1 DEF Covers
        <3> HIDE DEF V
        <3>3. CoversUpTo(s, c, i, V)
            <4> SUFFICES ASSUME NEW j \in DOMAIN s, j < i, s[j].code = c
                         PROVE  /\ s[j].op = "vote" => s[j].user \in V
                                /\ s[j].op = "set" => Voters(s[j].group) \subseteq V
                BY DEF CoversUpTo
            <4>1. j + 1 \in DOMAIN q /\ j + 1 < i + 1 /\ s[j] = q[j + 1]
                <5>1. j \in 1..(Len(q) - 1) /\ i \in 1..(Len(q) - 1) /\ Len(q) \in Nat
                    BY <1>2, <2>1, <2>2, <3>1
                <5>2. j + 1 < i + 1
                    BY <5>1
                <5> QED BY <1>2, <2>1, <2>2, <5>1, <5>2
            <4> QED BY <3>2, <4>1 DEF CoversUpTo
        <3>4. 1 < i + 1
            BY <1>2, <3>1
        <3>5. w.code = c => /\ w.op = "vote" => w.user \in V
                            /\ w.op = "set" => Voters(w.group) \subseteq V
            BY <2>2, <3>2, <3>4 DEF CoversUpTo
        <3>6. groups'[c] # Nil => Voters(groups'[c]) \subseteq V
            <4>1. CASE w.code = c /\ w.op = "set"
                BY <2>1, <3>5, <4>1, Replaced
            <4>2. CASE w.code = c /\ w.op # "set" /\ groups[c] # Nil
                BY <1>2, <2>1, <3>2, <3>5, <4>2, Updated
            <4>3. CASE w.code = c /\ w.op # "set" /\ groups[c] = Nil
                BY <2>1, <4>3, UpdatedNil
            <4>4. CASE w.code # c
                BY <2>1, <3>2, <4>4
            <4> QED BY <4>1, <4>2, <4>3, <4>4
        <3> QED BY <3>3, <3>6 DEF V
    <2>4. CASE e # d
        <3>1. outbox'[e] = outbox[e]
            BY <2>1, <2>4
        <3>2. CASE PendingSets(outbox[e], c) = {}
            BY <3>1, <3>2 DEF Covers
        <3>3. CASE PendingSets(outbox[e], c) # {}
            <4>1. e \in Hosts /\ ~Running(c)
                BY <3>3 DEF Guests, Guest, NoSets, PendingSets, AllStartedOnce, StartedOnce
            <4>2. d \notin Hosts
                BY <2>4, <4>1 DEF OneHost
            <4>3. w.op # "set" /\ ~(w.op = "vote" /\ w.code = c)
                BY <2>2, <4>1, <4>2 DEF Guests, Guest, NoSets, GuestsVote, GuestVotes
            <4>4. groups'[c] # Nil => groups[c] # Nil /\ Voters(groups'[c]) = Voters(groups[c])
                <5>1. CASE w.code = c /\ groups[c] # Nil
                    BY <1>2, <2>1, <4>3, <5>1, Updated
                <5>2. CASE w.code = c /\ groups[c] = Nil
                    BY <2>1, <4>3, <5>2, UpdatedNil
                <5>3. CASE w.code # c
                    BY <2>1, <5>3
                <5> QED BY <5>1, <5>2, <5>3
            <4> QED BY <1>4, <3>1, <4>4 DEF Covers
        <3> QED BY <3>2, <3>3
    <2> QED BY <2>3, <2>4
<1> QED BY <1>1, <1>5, <1>7, <1>8, <1>10, <1>11, <1>12

-----------------------------------------------------------------------------
(***************************************************************************)
(* What holds in a party with one host whom nobody deserts.                *)
(***************************************************************************)
PartyInv == Guests /\ Orderly /\ AllStartedOnce /\ AllPlayTheDeck /\ GuestsVote /\ AllCovered

LEMMA PartyInit == Init => PartyInv
BY GuestsInit, OrderlyInit, StartedOnceInit, PlaysInit, GuestsVoteInit, CoversInit DEF PartyInv

LEMMA PartyNext ==
    ASSUME OneHost, NobodyLeaves
    PROVE  IInv /\ PartyInv /\ [Next]_vars => PartyInv'
<1>1. NobodyCancels
    BY DEF NobodyLeaves, NobodyCancels
<1>2. CASE Next
    BY <1>1, <1>2, GuestsStep, OrderlyStep, StartedOnceStep, PlaysStep, GuestsVoteStep, CoversStep
       DEF PartyInv
<1>3. CASE UNCHANGED vars
    BY <1>3
       DEF vars, PartyInv, Guests, Orderly, AllStartedOnce, StartedOnce, AllPlayTheDeck,
           PlaysTheDeck, GuestsVote, GuestVotes, AllCovered, Covers, Running
<1> QED BY <1>2, <1>3

LEMMA VotesStayStep ==
    ASSUME IInv, PartyInv, Next
    PROVE  VoteStays
<1>1. PICK d \in Devices : groups' = groups \/ Delivers(d)
    BY NextCases, StepsMove
<1> SUFFICES ASSUME NEW c \in Codes, NEW u \in UserIds, groups[c] # Nil, groups[c].accepted[u] # Nil
             PROVE  groups'[c] # Nil /\ groups'[c].accepted[u] # Nil
    BY DEF VoteStays
<1>2. u \in Voters(groups[c])
    BY DEF Voters
<1>3. SUFFICES groups'[c] # Nil /\ Voters(groups[c]) \subseteq Voters(groups'[c])
    BY <1>2 DEF Voters
<1>4. CASE Delivers(d)
    <2> DEFINE q == outbox[d]
               w == Head(q)
    <2>1. /\ q # <<>> /\ w \in Writes /\ q \in Seq(Writes) /\ groups[c] \in Groups
          /\ groups'[c] = IF w.code = c THEN ApplyWrite(groups[c], w) ELSE groups[c]
        BY <1>4, OutboxTypes DEF Delivers
    <2>2. w = q[1] /\ 1 \in DOMAIN q
        BY <2>1, TakenWrite
    <2>3. CASE w.code = c /\ w.op = "set"
        <3>1. 1 \in PendingSets(q, c)
            BY <2>2, <2>3 DEF PendingSets
        <3>2. Voters(groups[c]) \subseteq Voters(w.group)
            BY <2>2, <3>1 DEF PartyInv, AllCovered, Covers
        <3>3. w.group \in Groups
            BY <2>1, <2>3 DEF Writes
        <3> HIDE DEF w
        <3> QED BY <2>1, <2>3, <3>2, <3>3, Replaced, NilAssumption
    <2> HIDE DEF w
    <2>4. CASE w.code = c /\ w.op # "set"
        BY <2>1, <2>4, Updated
    <2>5. CASE w.code # c
        BY <2>1, <2>5
    <2> QED BY <2>3, <2>4, <2>5
<1> QED BY <1>1, <1>4

LEMMA PartySameItems ==
    ASSUME OneHost, PartyInv
    PROVE  SameItems
<1>1. ASSUME NEW c \in Codes, NEW d \in Devices, Plays(app[d], c), Running(c)
      PROVE  app[d].items = groups[c].dinnerIdsForCardView
    BY <1>1 DEF PartyInv, AllStartedOnce, StartedOnce, AllPlayTheDeck, PlaysTheDeck, StartedOn
<1>2. ASSUME NEW c \in Codes, NEW d \in Devices, Plays(app[d], c), d \notin Hosts
      PROVE  Running(c)
    <2>1. PendingSets(outbox[d], c) = {}
        BY <1>2 DEF PartyInv, Guests, Guest, NoSets, PendingSets
    <2> QED BY <1>2, <2>1 DEF PartyInv, AllPlayTheDeck, PlaysTheDeck, StartedOn, Running
<1> SUFFICES ASSUME NEW c \in Codes, NEW d \in Devices, NEW e \in Devices,
                    Plays(app[d], c), Plays(app[e], c), d # e
             PROVE  app[d].items = app[e].items
    BY DEF SameItems, SwipesFor, Plays
<1>3. d \notin Hosts \/ e \notin Hosts
    BY DEF OneHost
<1> QED BY <1>1, <1>2, <1>3

\* A vote that has reached the server stays there: in a party with one host
\* whom nobody deserts, the document with which the host starts the group
\* contains whatever was voted by the time it arrives.  It does because the
\* guests vote only in a group that runs, and because Firestore shows the
\* host its own votes before the server has them.
THEOREM VotesStay ==
    ASSUME OneHost, NobodyLeaves
    PROVE  Spec => VotesAreKept
<1>1. IInv /\ PartyInv /\ [Next]_vars => PartyInv'
    BY PartyNext
<1>2. IInv /\ PartyInv /\ [Next]_vars => [VoteStays]_vars
    BY VotesStayStep
<1> QED BY PartyInit, <1>1, <1>2, Invariance, PTL DEF Spec, VotesAreKept

\* All who swipe for a group have the same cards in the same order, in a
\* party with one host whom nobody deserts: a deck is drawn once, the host
\* asks once to start on it, and guests take the deck from the server.
THEOREM EverybodyHasTheSameItems ==
    ASSUME OneHost, NobodyLeaves
    PROVE  Spec => []SameItems
<1>1. IInv /\ PartyInv /\ [Next]_vars => PartyInv'
    BY PartyNext
<1>2. PartyInv => SameItems
    BY PartySameItems
<1> QED BY PartyInit, <1>1, <1>2, Invariance, PTL DEF Spec
=============================================================================

----------------------------- MODULE PartyProofs -----------------------------
(***************************************************************************)
(* The votes, the head count and the result of a group session with one    *)
(* host whom nobody deserts.                                               *)
(***************************************************************************)
EXTENDS GroupSessionProofs

-----------------------------------------------------------------------------
(***************************************************************************)
(* Everybody votes once for each group, under a name of their own.         *)
(***************************************************************************)
\* d has swiped all its cards, or is gone.
Done(a) == a.screen = "closed" \/ (a.visible = <<>> /\ a.screen \in {"cards", "list", "frozen"})

Named(d) == app[d].activeGroupId # Nil => app[d].uniqueUserId = <<d, app[d].session>>

\* User u has voted, or is about to.
Carries(q, u) ==
    \E i \in DOMAIN q : \/ q[i].op = "vote" /\ q[i].user = u
                        \/ q[i].op = "set" /\ u \in Voters(q[i].group)

Used(u) == \/ \E c \in Codes : groups[c] # Nil /\ u \in Voters(groups[c])
           \/ \E d \in Devices : Carries(outbox[d], u)

Drawn(d) ==
    \A k \in 1..MaxSessions : Used(<<d, k>>) =>
        /\ k <= app[d].session
        /\ k = app[d].session /\ app[d].activeGroupId # Nil => Done(app[d])

AllDrawn == \A d \in Devices : Named(d) /\ Drawn(d)

LEMMA DrawnInit == Init => AllDrawn
<1> SUFFICES ASSUME Init, NEW d \in Devices PROVE Named(d) /\ Drawn(d)
    BY DEF AllDrawn
<1>1. app[d].activeGroupId = Nil
    BY DEF Init, LaunchedApp
<1>2. \A e \in Devices : \A u : ~Carries(outbox[e], u)
    BY DEF Init, Carries
<1>3. ASSUME NEW c \in Codes, groups[c] # Nil
      PROVE  Voters(groups[c]) = {}
    <2>1. PICK deck \in HostDecks : groups[c] = OldGroup(deck)
        BY <1>3 DEF Init
    <2>2. \A u \in UserIds : OldGroup(deck).accepted[u] = Nil
        BY DEF OldGroup, NewGroup
    <2> QED BY <2>1, <2>2 DEF Voters
<1> QED BY <1>1, <1>2, <1>3 DEF Named, Drawn, Used

\* A device that stays in its group keeps its name, and stays done.
LEMMA KeepsItsName ==
    ASSUME IInv, Guests, Orderly, NEW d \in Devices,
           \/ Idles(d) \/ Crashes(d) \/ SwitchesOn(d) \/ AsksToJoin(d) \/ AsksToCreate(d)
           \/ Joins(d) \/ Creates(d) \/ DealsDeck(d) \/ StartsGroup(d) \/ RunsOut(d)
           \/ Starts(d) \/ LosesRequest(d) \/ Launches(d)
    PROVE  LET a == app[d]
               b == app'[d]
           IN
           \/ /\ b.session = a.session
              /\ b.activeGroupId # Nil => /\ b.activeGroupId = a.activeGroupId
                                          /\ b.uniqueUserId = a.uniqueUserId
                                          /\ Done(a) => Done(b)
           \/ b.session = a.session + 1 /\ b.uniqueUserId = <<d, b.session>>
<1> DEFINE a == app[d]
           b == app'[d]
           R == requests[d]
           q == outbox[d]
           Keeps == /\ b.session = a.session
                    /\ b.activeGroupId # Nil => /\ b.activeGroupId = a.activeGroupId
                                                /\ b.uniqueUserId = a.uniqueUserId
                                                /\ Done(a) => Done(b)
           Renames == b.session = a.session + 1 /\ b.uniqueUserId = <<d, b.session>>
<1>1. InOrder(a, R, q) /\ OneAttempt(a, R)
    BY Unchanged DEF Orderly
<1>2. a.activeGroupId # Nil => a.isOn /\ ~AsksToEnter(a) /\ Entering(R) = {}
    BY <1>1 DEF InOrder, InsideGroup
<1>3. ASSUME SameMembership(a, b), Done(a) => Done(b)
      PROVE  Keeps
    BY <1>3 DEF SameMembership
<1>4. CASE Idles(d)
    <2>1. /\ SameMembership(a, b)
          /\ a.visible = <<>> => b.visible = <<>>
          /\ \/ b.screen = a.screen
             \/ a.screen \in {"connect", "lobby"}
             \/ a.screen = "cards" /\ b.screen = "list"
             \/ a.screen # "closed" /\ b.screen = "frozen"
        BY <1>4 DEF Idles
    <2>2. Done(a) => Done(b)
        BY <2>1 DEF Done
    <2> QED BY <1>3, <2>1, <2>2
<1>5. CASE Crashes(d)
    BY <1>3, <1>5 DEF Crashes, Done
<1>6. CASE SwitchesOn(d)
    BY <1>2, <1>6 DEF SwitchesOn
<1>7. CASE AsksToJoin(d) \/ AsksToCreate(d)
    <2>1. /\ a.screen \in {"connect", "code"} /\ b.activeGroupId = a.activeGroupId
          /\ b.session = a.session
        BY <1>7 DEF AsksToJoin, AsksToCreate, Asks
    <2> QED BY <1>2, <2>1 DEF AsksToEnter
<1>8. CASE Joins(d)
    <2>1. \/ b = a
          \/ b.session = a.session + 1 /\ b.uniqueUserId = <<d, a.session + 1>>
        BY <1>8 DEF Joins
    <2> QED BY <2>1
<1>9. CASE Creates(d)
    <2>1. PICK r \in R : /\ Answers(d, r) /\ r.kind = "create"
                         /\ \/ b.session = a.session /\ b.activeGroupId = a.activeGroupId
                            \/ b.session = a.session + 1 /\ b.uniqueUserId = <<d, a.session + 1>>
        BY <1>9 DEF Creates
    <2>2. a.activeGroupId = Nil
        BY <1>1, <2>1, AnsweredOutside
    <2> QED BY <2>1, <2>2
<1>10. CASE DealsDeck(d)
    <2>1. SameMembership(a, b) /\ ~Done(a)
        BY <1>10 DEF DealsDeck, Done
    <2> QED BY <1>3, <2>1
<1>11. CASE StartsGroup(d)
    <2>1. \/ b = a
          \/ /\ SameCards(a, b) /\ b.screen = a.screen /\ b.activeGroupId = a.activeGroupId
             /\ b.session = a.session /\ b.uniqueUserId = a.uniqueUserId
        BY <1>11 DEF StartsGroup
    <2> QED BY <2>1 DEF SameCards, Done
<1>12. CASE RunsOut(d)
    BY <1>3, <1>12 DEF RunsOut, Done
<1>13. CASE Starts(d)
    <2>1. SameMembership(a, b) /\ Hears(a, "wait") /\ a.screen \notin {"frozen", "closed"}
        BY <1>13 DEF Starts, Hears
    <2>2. ~Done(a)
        BY <1>1, <2>1, StarterWaited DEF Done
    <2> QED BY <1>3, <2>1, <2>2
<1>14. CASE LosesRequest(d)
    <2>1. PICK r \in R : /\ Answers(d, r)
                         /\ \/ b = a
                            \/ /\ r.kind \in {"create", "join"}
                               /\ b.activeGroupId = a.activeGroupId /\ b.session = a.session
        BY <1>14 DEF LosesRequest
    <2>2. r.kind \in {"create", "join"} => a.activeGroupId = Nil
        BY <1>1, <2>1, AnsweredOutside
    <2> QED BY <2>1, <2>2
<1>15. CASE Launches(d)
    BY <1>15 DEF Launches, LaunchedApp
<1> QED BY <1>4, <1>5, <1>6, <1>7, <1>8, <1>9, <1>10, <1>11, <1>12, <1>13, <1>14, <1>15

\* What a client sees of a group are votes that somebody has cast.
LEMMA SeenIsUsed ==
    ASSUME IInv, NEW d \in Devices, NEW c \in Codes, View(d, c) # Nil, NEW u \in Voters(View(d, c))
    PROVE  Used(u)
<1> DEFINE q == outbox[d]
           b == BaseDocument(groups[c], q, c)
<1>1. q \in Seq(Writes) /\ groups[c] \in Groups \cup {Nil}
    BY OutboxTypes
<1>2. b # Nil /\ u \in Voters(b) \cup {q[i].user : i \in Pending(q, c, "vote")}
    BY <1>1, SeenVoters DEF View
<1>3. \/ b = groups[c]
      \/ \E i \in PendingSets(q, c) : b = q[i].group
    BY <1>1, BaseIs
<1> HIDE DEF b
<1>4. CASE u \in Voters(b) /\ b = groups[c]
    BY <1>2, <1>4 DEF Used
<1>5. CASE u \in Voters(b) /\ \E i \in PendingSets(q, c) : b = q[i].group
    BY <1>5 DEF Used, Carries, PendingSets
<1>6. CASE u \in {q[i].user : i \in Pending(q, c, "vote")}
    BY <1>6 DEF Used, Carries, Pending
<1> QED BY <1>2, <1>3, <1>4, <1>5, <1>6

\* Only who runs out of cards votes under a new name.
LEMMA ToUse ==
    ASSUME NobodyLeaves, IInv, Guests, Orderly, Next, NEW u \in UserIds, Used(u)'
    PROVE  Used(u) \/ \E d \in Devices : RunsOut(d) /\ u = app[d].uniqueUserId
<1>1. PICK d \in Devices :
              \/ Idles(d) \/ Crashes(d) \/ SwitchesOn(d) \/ AsksToJoin(d) \/ AsksToCreate(d)
              \/ Joins(d) \/ Creates(d) \/ DealsDeck(d) \/ StartsGroup(d) \/ RunsOut(d)
              \/ Starts(d) \/ LosesRequest(d) \/ Launches(d) \/ Delivers(d)
    BY NextCases, NobodyGoes
<1> DEFINE q == outbox[d]
           s == outbox'[d]
<1>2. /\ q \in Seq(Writes) /\ \A c \in Codes : groups[c] \in Groups \cup {Nil}
      /\ Len(q) \in Nat /\ DOMAIN q = 1..Len(q)
    BY OutboxTypes, LenProperties
<1>3. ASSUME Carries(q, u) PROVE Used(u)
    BY <1>3 DEF Used
<1>4. ASSUME Moves(d), groups' = groups, Carries(s, u) => Used(u)
      PROVE  Used(u)
    BY <1>4 DEF Used, Moves
<1>5. CASE \/ Idles(d) \/ Crashes(d) \/ SwitchesOn(d) \/ AsksToJoin(d) \/ AsksToCreate(d)
           \/ DealsDeck(d) \/ Starts(d) \/ LosesRequest(d) \/ Launches(d)
    <2>1. s \in {q, <<>>}
        BY <1>5, QueueChanges
    <2>2. ~Carries(<<>>, u)
        BY DEF Carries
    <2> QED BY <1>3, <1>4, <1>5, <2>1, <2>2, StepsMove
<1>6. CASE Joins(d)
    <2>1. CASE s = q
        BY <1>3, <1>4, <1>6, <2>1, StepsMove
    <2>2. CASE s # q
        <3>1. /\ DOMAIN s = 1..(Len(q) + 1) /\ \A i \in 1..Len(q) : s[i] = q[i]
              /\ s[Len(q) + 1].op = "join"
            BY <1>6, <2>2, JoinQueue
        <3>2. \A i \in DOMAIN s : i \in DOMAIN q \/ i = Len(q) + 1
            BY <1>2, <3>1
        <3>3. Carries(s, u) => Carries(q, u)
            BY <1>2, <3>1, <3>2 DEF Carries
        <3> QED BY <1>3, <1>4, <1>6, <3>3, StepsMove
    <2> QED BY <2>1, <2>2
<1>7. CASE RunsOut(d)
    <2>1. /\ DOMAIN s = 1..(Len(q) + 2) /\ \A i \in 1..Len(q) : s[i] = q[i]
          /\ s[Len(q) + 1].op = "vote" /\ s[Len(q) + 1].user = app[d].uniqueUserId
          /\ s[Len(q) + 2].op = "ready"
        BY <1>7, RunOutQueue
    <2>2. \A i \in DOMAIN s : i \in DOMAIN q \/ i = Len(q) + 1 \/ i = Len(q) + 2
        BY <1>2, <2>1
    <2>3. Carries(s, u) => Carries(q, u) \/ u = app[d].uniqueUserId
        BY <1>2, <2>1, <2>2 DEF Carries
    <2> QED BY <1>3, <1>4, <1>7, <2>3, StepsMove
<1>8. CASE Creates(d) \/ StartsGroup(d)
    <2>1. CASE s = q
        BY <1>3, <1>4, <1>8, <2>1, StepsMove
    <2>2. ASSUME NEW k \in Codes, NEW g \in Groups, s = q \o <<SetData(k, g)>>,
                 u \in Voters(g) => Used(u)
          PROVE  Used(u)
        <3> DEFINE w == SetData(k, g)
        <3>1. w \in Writes /\ w.op = "set" /\ w.group = g
            BY DEF SetData, Writes
        <3> HIDE DEF w
        <3>2. /\ DOMAIN (q \o <<w>>) = 1..(Len(q) + 1)
              /\ \A i \in 1..Len(q) : (q \o <<w>>)[i] = q[i]
              /\ (q \o <<w>>)[Len(q) + 1] = w
            BY <1>2, <3>1, AddedWrite
        <3>3. s = q \o <<w>>
            BY <2>2 DEF w
        <3>4. \A i \in DOMAIN s : i \in DOMAIN q \/ i = Len(q) + 1
            BY <1>2, <3>2, <3>3
        <3>5. Carries(s, u) => Carries(q, u) \/ u \in Voters(g)
            BY <1>2, <3>1, <3>2, <3>3, <3>4 DEF Carries
        <3> QED BY <1>3, <1>4, <1>8, <2>2, <3>5, StepsMove
    <2>3. CASE Creates(d)
        <3>1. s = q \/ \E k \in Codes : s = q \o <<SetData(k, NewGroup)>>
            BY <2>3 DEF Creates
        <3>2. NewGroup \in Groups /\ u \notin Voters(NewGroup)
            <4>1. NewGroup.accepted[u] = Nil
                BY DEF NewGroup
            <4> QED BY <4>1, NewGroupDealt, DealtSubset DEF Voters
        <3> QED BY <2>1, <2>2, <3>1, <3>2
    <2>4. CASE StartsGroup(d) /\ s # q
        <3>1. PICK k \in Codes, deck \in HostDecks :
                  /\ View(d, k) # Nil
                  /\ s = q \o <<SetData(k, StartedGroup(View(d, k), deck))>>
            BY <2>4, HostStarts
        <3> DEFINE v == View(d, k)
                   g == StartedGroup(v, deck)
        <3>2. v \in Groups /\ g \in Groups
            BY <3>1, OutboxTypes, SentWrites
        <3>3. s = q \o <<SetData(k, g)>>
            BY <3>1
        <3>4. u \in Voters(v) => Used(u)
            BY <3>1, SeenIsUsed
        <3> HIDE DEF v
        <3>5. g.accepted = v.accepted
            BY <3>2 DEF StartedGroup, Groups
        <3>6. Voters(g) = Voters(v)
            BY <3>5 DEF Voters
        <3> HIDE DEF g
        <3> QED BY <2>2, <3>2, <3>3, <3>4, <3>6
    <2> QED BY <1>8, <2>1, <2>3, <2>4
<1>9. CASE Delivers(d)
    <2> DEFINE w == Head(q)
    <2>1. /\ q # <<>> /\ s = Tail(q) /\ w \in Writes
          /\ \A x \in Devices \ {d} : outbox'[x] = outbox[x]
          /\ \A c \in Codes :
                groups'[c] = IF w.code = c THEN ApplyWrite(groups[c], w) ELSE groups[c]
        BY <1>9 DEF Delivers
    <2>2. /\ w = q[1] /\ 1 \in DOMAIN q /\ DOMAIN Tail(q) = 1..(Len(q) - 1)
          /\ \A i \in 1..(Len(q) - 1) : Tail(q)[i] = q[i + 1] /\ i + 1 \in DOMAIN q
        BY <1>2, <2>1, TakenWrite
    <2>3. Carries(s, u) => Carries(q, u)
        BY <2>1, <2>2 DEF Carries
    <2>4. CASE \E x \in Devices : Carries(outbox'[x], u)
        <3>1. PICK x \in Devices : Carries(outbox'[x], u)
            BY <2>4
        <3>2. CASE x = d
            BY <1>3, <2>3, <3>1, <3>2
        <3>3. CASE x # d
            BY <2>1, <3>1, <3>3 DEF Used
        <3> QED BY <3>2, <3>3
    <2>5. ASSUME NEW c \in Codes, groups'[c] # Nil, u \in Voters(groups'[c])
          PROVE  Used(u)
        <3>1. w.op = "vote" /\ w.user = u => Carries(q, u)
            BY <2>2 DEF Carries
        <3>2. w.op = "set" /\ u \in Voters(w.group) => Carries(q, u)
            BY <2>2 DEF Carries
        <3> HIDE DEF w
        <3>3. CASE w.code = c /\ w.op = "set"
            BY <1>3, <2>1, <2>5, <3>2, <3>3, Replaced
        <3>4. CASE w.code = c /\ w.op # "set" /\ groups[c] # Nil
            <4>1. u \in Voters(groups[c]) \/ (w.op = "vote" /\ w.user = u)
                BY <1>2, <2>1, <2>5, <3>4, Updated
            <4> QED BY <1>3, <3>1, <3>4, <4>1 DEF Used
        <3>5. CASE w.code = c /\ w.op # "set" /\ groups[c] = Nil
            BY <2>1, <2>5, <3>5, UpdatedNil
        <3>6. CASE w.code # c
            BY <2>1, <2>5, <3>6 DEF Used
        <3> QED BY <3>3, <3>4, <3>5, <3>6
    <2> QED BY <2>4, <2>5 DEF Used
<1> QED BY <1>1, <1>5, <1>6, <1>7, <1>8, <1>9

LEMMA DrawnStep ==
    ASSUME NobodyLeaves, IInv, Guests, Orderly, AllDrawn, Next
    PROVE  AllDrawn'
<1>1. PICK d \in Devices :
              \/ Idles(d) \/ Crashes(d) \/ SwitchesOn(d) \/ AsksToJoin(d) \/ AsksToCreate(d)
              \/ Joins(d) \/ Creates(d) \/ DealsDeck(d) \/ StartsGroup(d) \/ RunsOut(d)
              \/ Starts(d) \/ LosesRequest(d) \/ Launches(d) \/ Delivers(d)
    BY NextCases, NobodyGoes
<1> SUFFICES ASSUME NEW e \in Devices
             PROVE  Named(e)' /\ Drawn(e)'
    BY DEF AllDrawn
<1> DEFINE a == app[e]
           b == app'[e]
           Stays == /\ b.session = a.session
                    /\ b.activeGroupId # Nil => /\ b.activeGroupId = a.activeGroupId
                                                /\ b.uniqueUserId = a.uniqueUserId
                                                /\ Done(a) => Done(b)
           Renamed == b.session = a.session + 1 /\ b.uniqueUserId = <<e, b.session>>
<1>2. Named(e) /\ Drawn(e)
    BY DEF AllDrawn
<1>3. a.session \in Nat
    <2>1. a.session \in 0..MaxSessions
        BY Unchanged DEF Apps
    <2> QED BY <2>1, MaxSessionsAssumption
<1>4. Stays \/ Renamed
    <2>1. CASE e # d \/ Delivers(d)
        <3>1. b = a
            BY <1>1, <2>1, StepsMove DEF Moves, Delivers
        <3> QED BY <3>1
    <2>2. CASE e = d /\ ~Delivers(d)
        BY <1>1, <2>2, KeepsItsName
    <2> QED BY <2>1, <2>2
<1>5. Named(e)'
    BY <1>2, <1>4 DEF Named
<1>6. Drawn(e)'
    <2> SUFFICES ASSUME NEW k \in 1..MaxSessions, Used(<<e, k>>)'
                 PROVE  /\ k <= b.session
                        /\ k = b.session /\ b.activeGroupId # Nil => Done(b)
        BY DEF Drawn
    <2>1. <<e, k>> \in UserIds
        BY DEF UserIds
    <2>2. Used(<<e, k>>) \/ \E x \in Devices : RunsOut(x) /\ <<e, k>> = app[x].uniqueUserId
        BY <2>1, ToUse
    <2>3. CASE Used(<<e, k>>)
        <3>1. k <= a.session /\ (k = a.session /\ a.activeGroupId # Nil => Done(a))
            BY <1>2, <2>3 DEF Drawn
        <3>2. CASE Stays
            BY <3>1, <3>2
        <3>3. CASE Renamed
            <4>1. k <= a.session + 1 /\ k # a.session + 1
                BY <1>3, <3>1
            <4> QED BY <3>3, <4>1
        <3> HIDE DEF Stays, Renamed
        <3> QED BY <1>4, <3>2, <3>3
    <2>4. ASSUME NEW x \in Devices, RunsOut(x), <<e, k>> = app[x].uniqueUserId
          PROVE  /\ k <= b.session
                 /\ k = b.session /\ b.activeGroupId # Nil => Done(b)
        <3>1. /\ app[x].activeGroupId \in Codes /\ app'[x].visible = <<>> /\ app'[x].screen = "cards"
              /\ app'[x].session = app[x].session
            BY <2>4 DEF RunsOut, SameMembership
        <3>2. <<e, k>> = <<x, app[x].session>>
            BY <2>4, <3>1, NilAssumption DEF AllDrawn, Named
        <3>3. e = x /\ k = app[x].session
            BY <3>2
        <3> QED BY <1>3, <3>1, <3>3 DEF Done
    <2> QED BY <2>2, <2>3, <2>4
<1> QED BY <1>5, <1>6

-----------------------------------------------------------------------------
(***************************************************************************)
(* What is on its way: each report that a user is ready behind a ballot,   *)
(* and each ballot under a name that nobody has voted under yet.           *)
(***************************************************************************)
Paired(q) ==
    \A i, j \in DOMAIN q : q[j].op = "ready" /\ j = i + 1 =>
        q[i].op = "vote" /\ q[i].code = q[j].code

FreshIn(server, d, q, i) ==
    LET c == q[i].code
        u == q[i].user
    IN
    /\ \E k \in 1..MaxSessions : u = <<d, k>>
    /\ server[c] # Nil => u \notin Voters(server[c])
    /\ \A j \in DOMAIN q : j < i /\ q[j].code = c =>
          /\ q[j].op = "vote" => q[j].user # u
          /\ q[j].op = "set" => u \notin Voters(q[j].group)

FreshVote(d, q, i) == FreshIn(groups, d, q, i)

InQueue(d) ==
    /\ Paired(outbox[d])
    /\ \A i \in DOMAIN outbox[d] : outbox[d][i].op = "vote" => FreshVote(d, outbox[d], i)

AllInQueue == \A d \in Devices : InQueue(d)

LEMMA InQueueInit == Init => AllInQueue
BY DEF Init, AllInQueue, InQueue, Paired

LEMMA TailPaired ==
    ASSUME NEW q \in Seq(Writes), q # <<>>, Paired(q)
    PROVE  Paired(Tail(q))
<1>1. /\ DOMAIN Tail(q) = 1..(Len(q) - 1) /\ DOMAIN q = 1..Len(q) /\ Len(q) \in Nat
      /\ \A i \in 1..(Len(q) - 1) : Tail(q)[i] = q[i + 1] /\ i + 1 \in 1..Len(q)
    BY TakenWrite
<1> DEFINE t == Tail(q)
<1> SUFFICES ASSUME NEW i \in DOMAIN t, NEW j \in DOMAIN t, t[j].op = "ready", j = i + 1
             PROVE  t[i].op = "vote" /\ t[i].code = t[j].code
    BY DEF Paired
<1>2. i + 1 \in DOMAIN q /\ j + 1 \in DOMAIN q /\ t[i] = q[i + 1] /\ t[j] = q[j + 1]
    BY <1>1
<1>3. j + 1 = (i + 1) + 1
    OBVIOUS
<1> HIDE DEF t
<1> QED BY <1>2, <1>3 DEF Paired

\* Writes that are added behind the others, the first of them no report.
LEMMA AddedPaired ==
    ASSUME NEW q \in Seq(Writes), Paired(q), NEW s, NEW n, DOMAIN s = 1..n, n \in Nat,
           Len(q) <= n, \A i \in 1..Len(q) : s[i] = q[i],
           \A i, j \in 1..n : j > Len(q) /\ j = i + 1 /\ s[j].op = "ready" =>
               s[i].op = "vote" /\ s[i].code = s[j].code
    PROVE  Paired(s)
<1>1. DOMAIN q = 1..Len(q) /\ Len(q) \in Nat
    BY LenProperties
<1> SUFFICES ASSUME NEW i \in 1..n, NEW j \in 1..n, s[j].op = "ready", j = i + 1, ~(j > Len(q))
             PROVE  s[i].op = "vote" /\ s[i].code = s[j].code
    BY DEF Paired
<1>2. i \in DOMAIN q /\ j \in DOMAIN q
    BY <1>1
<1> QED BY <1>1, <1>2 DEF Paired

LEMMA InQueueStep ==
    ASSUME OneHost, NobodyLeaves, IInv, PartyInv, AllDrawn, AllInQueue, Next
    PROVE  AllInQueue'
<1>1. PICK d \in Devices :
              \/ Idles(d) \/ Crashes(d) \/ SwitchesOn(d) \/ AsksToJoin(d) \/ AsksToCreate(d)
              \/ Joins(d) \/ Creates(d) \/ DealsDeck(d) \/ StartsGroup(d) \/ RunsOut(d)
              \/ Starts(d) \/ LosesRequest(d) \/ Launches(d) \/ Delivers(d)
    BY NextCases, NobodyGoes DEF PartyInv
<1> DEFINE q == outbox[d]
           s == outbox'[d]
           n == Len(q)
<1>2. /\ q \in Seq(Writes) /\ \A c \in Codes : groups[c] \in Groups \cup {Nil}
      /\ n \in Nat /\ DOMAIN q = 1..n
    BY OutboxTypes, LenProperties
<1> SUFFICES ASSUME NEW e \in Devices
             PROVE  InQueue(e)'
    BY DEF AllInQueue
<1>3. InQueue(e) /\ InQueue(d)
    BY DEF AllInQueue
<1>4. CASE e # d /\ ~Delivers(d)
    BY <1>1, <1>3, <1>4, StepsMove DEF InQueue, FreshVote, FreshIn, Moves
<1>5. ASSUME e = d, groups' = groups, Paired(s),
             \A i \in DOMAIN s : s[i].op = "vote" =>
                 /\ i \in DOMAIN q /\ s[i] = q[i]
                 /\ \A j \in DOMAIN s : j < i => j \in DOMAIN q /\ s[j] = q[j]
      PROVE  InQueue(e)'
    <2>1. \A i \in DOMAIN s : s[i].op = "vote" => FreshVote(d, s, i)
        BY <1>3, <1>5 DEF InQueue, FreshVote, FreshIn
    <2> QED BY <1>5, <2>1 DEF InQueue, FreshVote, FreshIn
<1>6. CASE e = d /\ \/ Idles(d) \/ Crashes(d) \/ SwitchesOn(d) \/ AsksToJoin(d) \/ AsksToCreate(d)
                    \/ DealsDeck(d) \/ Starts(d) \/ LosesRequest(d) \/ Launches(d)
    <2>1. s \in {q, <<>>}
        BY <1>6, QueueChanges DEF PartyInv
    <2>2. Paired(s) /\ \A i \in DOMAIN s : s[i] = q[i] /\ i \in DOMAIN q
        BY <1>3, <2>1 DEF InQueue, Paired
    <2> QED BY <1>5, <1>6, <2>2, StepsMove
<1>7. ASSUME e = d, groups' = groups,
             DOMAIN s = 1..(n + 1), \A i \in 1..n : s[i] = q[i], s[n + 1].op \in {"set", "join"}
      PROVE  InQueue(e)'
    <2>1. ASSUME NEW i \in 1..(n + 1), s[i].op = "vote"
          PROVE  i \in 1..n
        <3>1. i # n + 1
            BY <1>7, <2>1
        <3> QED BY <1>2, <3>1
    <2>2. ASSUME NEW i \in 1..n, NEW j \in 1..(n + 1), j < i
          PROVE  j \in 1..n
        BY <1>2, <2>2
    <2>3. \A j \in 1..(n + 1) : j > n => j = n + 1
        BY <1>2
    <2>4. n + 1 \in Nat /\ n <= n + 1
        BY <1>2
    <2>5. Paired(q) /\ \A i, j \in 1..(n + 1) : j > n => s[j].op # "ready"
        BY <1>3, <1>7, <2>3 DEF InQueue
    <2>6. Paired(s)
        BY <1>2, <1>7, <2>4, <2>5, AddedPaired
    <2> QED BY <1>2, <1>5, <1>7, <2>1, <2>2, <2>6
<1>8. CASE e = d /\ Joins(d)
    <2>1. CASE s = q
        BY <1>3, <1>5, <1>8, <2>1, StepsMove DEF InQueue
    <2>2. CASE s # q
        <3>1. /\ DOMAIN s = 1..(n + 1) /\ \A i \in 1..n : s[i] = q[i]
              /\ s[n + 1].op = "join"
            BY <1>8, <2>2, JoinQueue
        <3> QED BY <1>7, <1>8, <3>1, StepsMove
    <2> QED BY <2>1, <2>2
<1>9. CASE e = d /\ (Creates(d) \/ StartsGroup(d))
    <2>1. CASE s = q
        BY <1>3, <1>5, <1>9, <2>1, StepsMove DEF InQueue
    <2>2. ASSUME NEW k \in Codes, NEW g \in Groups, s = q \o <<SetData(k, g)>>
          PROVE  InQueue(e)'
        <3> DEFINE w == SetData(k, g)
        <3>1. w \in Writes /\ w.op = "set"
            BY DEF SetData, Writes
        <3> HIDE DEF w
        <3>2. /\ DOMAIN (q \o <<w>>) = 1..(Len(q) + 1)
              /\ \A i \in 1..Len(q) : (q \o <<w>>)[i] = q[i]
              /\ (q \o <<w>>)[Len(q) + 1] = w
            BY <1>2, <3>1, AddedWrite
        <3>3. s = q \o <<w>>
            BY <2>2 DEF w
        <3> QED BY <1>7, <1>9, <3>1, <3>2, <3>3, StepsMove
    <2> QED BY <1>9, <2>1, <2>2, HostWrites
<1>10. CASE e = d /\ RunsOut(d)
    <2> DEFINE a == app[d]
               u == a.uniqueUserId
    <2>1. /\ DOMAIN s = 1..(n + 2) /\ \A i \in 1..n : s[i] = q[i]
          /\ s[n + 1].op = "vote" /\ s[n + 1].code = a.groupId /\ s[n + 1].user = u
          /\ s[n + 2].op = "ready" /\ s[n + 2].code = a.activeGroupId
        BY <1>10, RunOutQueue
    <2>2. /\ a.activeGroupId \in Codes /\ a.screen = "cards" /\ a.visible # <<>>
          /\ u \in UserIds
        BY <1>10 DEF RunsOut
    <2>3. a.groupId = a.activeGroupId /\ u = <<d, a.session>>
        BY <2>2, NilAssumption DEF PartyInv, Orderly, InOrder, InsideGroup, AllDrawn, Named
    <2>4. a.session \in 1..MaxSessions
        BY <2>2, <2>3 DEF UserIds
    <2>5. ~Used(u)
        <3>1. ~Done(a)
            BY <2>2 DEF Done
        <3> QED BY <2>2, <2>3, <2>4, <3>1, NilAssumption DEF AllDrawn, Drawn
    <2>6. ~Carries(q, u) /\ \A c \in Codes : groups[c] # Nil => u \notin Voters(groups[c])
        BY <2>5 DEF Used
    <2> HIDE DEF u, a
    <2>7. Paired(s)
        <3>1. \A i, j \in 1..(n + 2) : j > n /\ j = i + 1 =>
                  (j = n + 1 \/ (i = n + 1 /\ j = n + 2))
            BY <1>2
        <3>2. n + 2 \in Nat /\ n <= n + 2
            BY <1>2
        <3>3. \A i, j \in 1..(n + 2) : j > n /\ j = i + 1 /\ s[j].op = "ready" =>
                  s[i].op = "vote" /\ s[i].code = s[j].code
            BY <2>1, <2>3, <3>1
        <3> HIDE DEF n
        <3>4. Paired(q) /\ Len(q) <= n + 2 /\ \A i \in 1..Len(q) : s[i] = q[i]
            BY <1>3, <2>1, <3>2 DEF InQueue, n
        <3>5. \A i, j \in 1..(n + 2) : j > Len(q) /\ j = i + 1 /\ s[j].op = "ready" =>
                  s[i].op = "vote" /\ s[i].code = s[j].code
            BY <3>3 DEF n
        <3> QED BY <1>2, <2>1, <3>2, <3>4, <3>5, AddedPaired
    <2>8. ASSUME NEW i \in DOMAIN s, s[i].op = "vote"
          PROVE  FreshVote(d, s, i)
        <3>1. i \in 1..n \/ i = n + 1
            <4>1. i # n + 2
                BY <2>1, <2>8
            <4> QED BY <1>2, <2>1, <4>1
        <3>2. \A j \in DOMAIN s : j < i => j \in 1..n
            BY <1>2, <2>1, <3>1
        <3>3. CASE i \in 1..n
            <4>1. FreshVote(d, q, i) /\ s[i] = q[i]
                BY <1>2, <1>3, <2>1, <2>8, <3>3 DEF InQueue
            <4> QED BY <1>2, <2>1, <3>2, <4>1 DEF FreshVote, FreshIn
        <3>4. CASE i = n + 1
            <4>1. /\ s[i].user = u /\ u = <<d, a.session>> /\ a.session \in 1..MaxSessions
                  /\ s[i].code \in Codes
                BY <2>1, <2>2, <2>3, <2>4, <3>4
            <4>2. ASSUME NEW j \in DOMAIN s, j < i
                  PROVE  /\ s[j].op = "vote" => s[j].user # u
                         /\ s[j].op = "set" => u \notin Voters(s[j].group)
                <5>1. j \in DOMAIN q /\ s[j] = q[j]
                    BY <1>2, <2>1, <3>2, <4>2
                <5> QED BY <2>6, <5>1 DEF Carries
            <4> QED BY <2>6, <4>1, <4>2 DEF FreshVote, FreshIn
        <3> QED BY <3>1, <3>3, <3>4
    <2> QED BY <1>10, <2>7, <2>8, StepsMove DEF InQueue, FreshVote, FreshIn
<1>11. CASE Delivers(d)
    <2> DEFINE w == Head(q)
    <2>1. /\ q # <<>> /\ s = Tail(q) /\ w \in Writes
          /\ \A x \in Devices \ {d} : outbox'[x] = outbox[x]
          /\ \A c \in Codes :
                groups'[c] = IF w.code = c THEN ApplyWrite(groups[c], w) ELSE groups[c]
        BY <1>11 DEF Delivers
    <2>2. /\ w = q[1] /\ 1 \in DOMAIN q /\ DOMAIN Tail(q) = 1..(n - 1)
          /\ \A i \in 1..(n - 1) : Tail(q)[i] = q[i + 1] /\ i + 1 \in DOMAIN q
        BY <1>2, <2>1, TakenWrite
    <2> HIDE DEF w
    <2>3. ASSUME NEW c \in Codes, groups'[c] # Nil, NEW u \in Voters(groups'[c])
          PROVE  \/ groups[c] # Nil /\ u \in Voters(groups[c])
                 \/ w.code = c /\ w.op = "vote" /\ u = w.user
                 \/ w.code = c /\ w.op = "set" /\ u \in Voters(w.group)
        <3>1. CASE w.code = c /\ w.op = "set"
            BY <2>1, <2>3, <3>1, Replaced
        <3>2. CASE w.code = c /\ w.op # "set" /\ groups[c] # Nil
            BY <1>2, <2>1, <2>3, <3>2, Updated
        <3>3. CASE w.code = c /\ w.op # "set" /\ groups[c] = Nil
            BY <2>1, <2>3, <3>3, UpdatedNil
        <3>4. CASE w.code # c
            BY <2>1, <2>3, <3>4
        <3> QED BY <3>1, <3>2, <3>3, <3>4
    <2>4. CASE e = d
        <3>1. Paired(s)
            BY <1>2, <1>3, <2>1, TailPaired DEF InQueue
        <3>2. ASSUME NEW i \in DOMAIN s, s[i].op = "vote"
              PROVE  FreshIn(groups', d, s, i)
            <4> DEFINE c == s[i].code
                       u == s[i].user
            <4>1. /\ i \in 1..(n - 1) /\ i + 1 \in DOMAIN q /\ s[i] = q[i + 1]
                BY <2>1, <2>2
            <4>2. FreshVote(d, q, i + 1)
                BY <1>3, <3>2, <4>1 DEF InQueue
            <4>3. c \in Codes
                <5>1. q[i + 1] \in Writes
                    BY <1>2, <4>1, ElementOfSeq
                <5> QED BY <4>1, <5>1 DEF Writes
            <4>4. /\ \E k \in 1..MaxSessions : u = <<d, k>>
                  /\ groups[c] # Nil => u \notin Voters(groups[c])
                  /\ \A j \in DOMAIN q : j < i + 1 /\ q[j].code = c =>
                        /\ q[j].op = "vote" => q[j].user # u
                        /\ q[j].op = "set" => u \notin Voters(q[j].group)
                BY <4>1, <4>2 DEF FreshVote, FreshIn
            <4> HIDE DEF c, u
            <4>5. 1 < i + 1
                BY <1>2, <4>1
            <4>6. w.code = c => /\ w.op = "vote" => w.user # u
                                /\ w.op = "set" => u \notin Voters(w.group)
                BY <2>2, <4>4, <4>5
            <4>7. groups'[c] # Nil => u \notin Voters(groups'[c])
                BY <2>3, <4>3, <4>4, <4>6
            <4>8. ASSUME NEW j \in DOMAIN s, j < i, s[j].code = c
                  PROVE  /\ s[j].op = "vote" => s[j].user # u
                         /\ s[j].op = "set" => u \notin Voters(s[j].group)
                <5>1. j + 1 \in DOMAIN q /\ s[j] = q[j + 1]
                    BY <2>1, <2>2
                <5>2. j + 1 < i + 1
                    BY <1>2, <2>1, <2>2, <4>1, <4>8
                <5> QED BY <4>4, <4>8, <5>1, <5>2
            <4> QED BY <4>4, <4>7, <4>8 DEF FreshIn, c, u
        <3> QED BY <2>4, <3>1, <3>2 DEF InQueue, FreshVote, FreshIn
    <2>5. CASE e # d
        <3>1. outbox'[e] = outbox[e]
            BY <2>1, <2>5
        <3>2. ASSUME NEW i \in DOMAIN outbox[e], outbox[e][i].op = "vote"
              PROVE  FreshVote(e, outbox[e], i)'
            <4> DEFINE c == outbox[e][i].code
                       u == outbox[e][i].user
            <4>1. FreshVote(e, outbox[e], i)
                BY <1>3, <3>2 DEF InQueue
            <4>2. c \in Codes
                <5>1. outbox[e] \in Seq(Writes)
                    BY OutboxTypes
                <5>2. outbox[e][i] \in Writes
                    BY <5>1, LenProperties, ElementOfSeq
                <5> QED BY <5>2 DEF Writes
            <4>3. ~(w.code = c /\ w.op = "set")
                <5> SUFFICES ASSUME w.code = c, w.op = "set" PROVE FALSE
                    OBVIOUS
                <5>1. 1 \in PendingSets(q, c)
                    BY <2>2 DEF PendingSets
                <5>2. d \in Hosts
                    BY <5>1 DEF PartyInv, Guests, Guest, NoSets, PendingSets
                <5>3. e \notin Hosts
                    BY <2>5, <5>2 DEF OneHost
                <5>4. Running(c)
                    BY <3>2, <5>3 DEF PartyInv, GuestsVote, GuestVotes
                <5> QED BY <4>2, <5>1, <5>4 DEF PartyInv, AllStartedOnce, StartedOnce
            <4>4. w.op = "vote" => w.user # u
                <5> SUFFICES ASSUME w.op = "vote" PROVE w.user # u
                    OBVIOUS
                <5>1. FreshVote(d, q, 1)
                    BY <1>3, <2>2 DEF InQueue
                <5>2. \E k \in 1..MaxSessions : w.user = <<d, k>>
                    BY <2>2, <5>1 DEF FreshVote, FreshIn
                <5>3. \E k \in 1..MaxSessions : u = <<e, k>>
                    BY <4>1 DEF FreshVote, FreshIn
                <5> HIDE DEF u
                <5> QED BY <2>5, <5>2, <5>3
            <4>5. groups[c] # Nil => u \notin Voters(groups[c])
                BY <4>1 DEF FreshVote, FreshIn
            <4> HIDE DEF c, u
            <4>6. groups'[c] # Nil => u \notin Voters(groups'[c])
                BY <2>3, <4>2, <4>3, <4>4, <4>5
            <4> QED BY <3>1, <4>1, <4>6 DEF FreshVote, FreshIn, c, u
        <3> QED BY <1>3, <3>1, <3>2 DEF InQueue, FreshVote, FreshIn
    <2> QED BY <2>4, <2>5
<1> QED BY <1>1, <1>4, <1>6, <1>8, <1>9, <1>10, <1>11

-----------------------------------------------------------------------------
(***************************************************************************)
(* What a device sees of a group only grows while it has something on its  *)
(* way.                                                                    *)
(***************************************************************************)
\* A device sees the votes on the server, and those in its own queue.
SeesAll ==
    \A d \in Devices, c \in Codes :
        IF View(d, c) = Nil THEN groups[c] = Nil /\ PendingSets(outbox[d], c) = {}
        ELSE /\ groups[c] # Nil => Voters(groups[c]) \subseteq Voters(View(d, c))
             /\ CoversUpTo(outbox[d], c, Len(outbox[d]) + 1, Voters(View(d, c)))

LEMMA AllSeen == IInv /\ AllCovered => SeesAll
BY ViewCovers, UnseenIsNew DEF SeesAll

LEMMA AllSeenNext ==
    ASSUME IInv', AllCovered'
    PROVE  SeesAll'
BY AllSeen, PTL

\* Nothing gets lost of what a device has on its way.
KeepsSending(d) ==
    \/ \A i \in DOMAIN outbox[d] : i \in DOMAIN outbox'[d] /\ outbox'[d][i] = outbox[d][i]
    \/ Delivers(d)

LEMMA SenderKeeps ==
    ASSUME IInv, NEW d \in Devices, Joins(d) \/ RunsOut(d) \/ Creates(d) \/ StartsGroup(d)
    PROVE  KeepsSending(d)
<1> DEFINE q == outbox[d]
           s == outbox'[d]
<1>1. CASE Joins(d) \/ RunsOut(d)
    BY <1>1, SmallWrites DEF KeepsSending
<1>2. CASE Creates(d) \/ StartsGroup(d)
    <2>1. q \in Seq(Writes)
        BY OutboxTypes
    <2>2. s = q \/ \E w \in Writes : s = q \o <<w>>
        BY <1>2, HostWrites
    <2>3. ASSUME NEW w \in Writes, s = q \o <<w>>
          PROVE  \A i \in DOMAIN q : i \in DOMAIN s /\ s[i] = q[i]
        <3>1. /\ DOMAIN (q \o <<w>>) = 1..(Len(q) + 1) /\ Len(q) \in Nat /\ DOMAIN q = 1..Len(q)
              /\ \A i \in 1..Len(q) : (q \o <<w>>)[i] = q[i]
            BY <2>1, AddedWrite
        <3> HIDE DEF q, s
        <3>2. \A i \in 1..Len(q) : i \in 1..(Len(q) + 1)
            BY <3>1
        <3> QED BY <2>3, <3>1, <3>2
    <2> QED BY <2>2, <2>3 DEF KeepsSending
<1> QED BY <1>1, <1>2

LEMMA QueueKept ==
    ASSUME NobodyLeaves, IInv, PartyInv, Next, NEW d \in Devices
    PROVE  outbox'[d] = <<>> \/ KeepsSending(d)
<1>1. PICK e \in Devices :
              \/ Idles(e) \/ Crashes(e) \/ SwitchesOn(e) \/ AsksToJoin(e) \/ AsksToCreate(e)
              \/ Joins(e) \/ Creates(e) \/ DealsDeck(e) \/ StartsGroup(e) \/ RunsOut(e)
              \/ Starts(e) \/ LosesRequest(e) \/ Launches(e) \/ Delivers(e)
    BY NextCases, NobodyGoes DEF PartyInv
<1>2. CASE e # d
    <2>1. outbox'[d] = outbox[d]
        BY <1>1, <1>2, StepsMove DEF Moves, Delivers
    <2> QED BY <2>1 DEF KeepsSending
<1>3. CASE e = d /\ \/ Idles(d) \/ Crashes(d) \/ SwitchesOn(d) \/ AsksToJoin(d) \/ AsksToCreate(d)
                    \/ DealsDeck(d) \/ Starts(d) \/ LosesRequest(d) \/ Launches(d)
    <2>1. outbox'[d] \in {outbox[d], <<>>}
        BY <1>3, QueueChanges DEF PartyInv
    <2> QED BY <2>1 DEF KeepsSending
<1>4. CASE e = d /\ (Joins(d) \/ RunsOut(d) \/ Creates(d) \/ StartsGroup(d))
    BY <1>4, SenderKeeps
<1>5. CASE e = d /\ Delivers(d)
    BY <1>5 DEF KeepsSending
<1> QED BY <1>1, <1>2, <1>3, <1>4, <1>5

\* No step takes a group from the server.
LEMMA GroupStays ==
    ASSUME IInv, Next, NEW c \in Codes, groups[c] # Nil
    PROVE  groups'[c] # Nil
<1>1. groups' = groups \/ \E d \in Devices : Delivers(d)
    BY NextCases, StepsMove
<1>2. ASSUME NEW d \in Devices, Delivers(d)
      PROVE  groups'[c] # Nil
    <2> DEFINE w == Head(outbox[d])
    <2>1. w \in Writes /\ groups[c] \in Groups
          /\ groups'[c] = IF w.code = c THEN ApplyWrite(groups[c], w) ELSE groups[c]
        BY <1>2, OutboxTypes DEF Delivers
    <2> HIDE DEF w
    <2>2. w.op = "set" => w.group \in Groups
        BY <2>1 DEF Writes
    <2> QED BY <2>1, <2>2, Updated, Replaced, NilAssumption
<1> QED BY <1>1, <1>2

LEMMA ViewGrows ==
    ASSUME NobodyLeaves, IInv, PartyInv, Next, IInv', AllCovered',
           NEW d \in Devices, NEW c \in Codes, View(d, c) # Nil, KeepsSending(d)
    PROVE  View(d, c)' # Nil /\ Voters(View(d, c)) \subseteq Voters(View(d, c)')
<1> DEFINE q == outbox[d]
           s == outbox'[d]
           w == Head(q)
           b == BaseDocument(groups[c], q, c)
<1>1. q \in Seq(Writes) /\ groups[c] \in Groups \cup {Nil} /\ DOMAIN q = 1..Len(q) /\ Len(q) \in Nat
    BY OutboxTypes, LenProperties
<1>2. VoteStays /\ (groups[c] # Nil => groups'[c] # Nil)
    BY VotesStayStep, GroupStays
<1>3. SeesAll'
    BY AllSeenNext
\* Every write is still on its way, or it has arrived.
<1>4. ASSUME NEW i \in DOMAIN q
      PROVE  \/ \E j \in DOMAIN s : s[j] = q[i]
             \/ i = 1 /\ Delivers(d) /\ w = q[i]
    <2>1. CASE Delivers(d)
        <3>1. q # <<>> /\ s = Tail(q)
            BY <2>1 DEF Delivers
        <3>2. /\ w = q[1] /\ DOMAIN Tail(q) = 1..(Len(q) - 1)
              /\ \A j \in 1..(Len(q) - 1) : Tail(q)[j] = q[j + 1]
            BY <1>1, <3>1, TakenWrite
        <3> HIDE DEF w
        <3>3. CASE i = 1
            BY <2>1, <3>2, <3>3
        <3>4. CASE i # 1
            <4>1. i - 1 \in 1..(Len(q) - 1) /\ (i - 1) + 1 = i
                BY <1>1, <3>4
            <4>2. i - 1 \in DOMAIN s /\ s[i - 1] = q[i]
                BY <3>1, <3>2, <4>1
            <4> QED BY <4>2
        <3> QED BY <3>3, <3>4
    <2>2. CASE ~Delivers(d)
        BY <2>2 DEF KeepsSending
    <2> QED BY <2>1, <2>2
<1>5. ASSUME NEW j \in DOMAIN s, s[j].code = c, View(d, c)' # Nil
      PROVE  /\ s[j].op = "vote" => s[j].user \in Voters(View(d, c)')
             /\ s[j].op = "set" => Voters(s[j].group) \subseteq Voters(View(d, c)')
    <2>1. CoversUpTo(s, c, Len(s) + 1, Voters(View(d, c)'))
        BY <1>3, <1>5 DEF SeesAll
    <2>2. j < Len(s) + 1
        <3>1. s \in Seq(WritesOf(DealtGroups))
            BY DEF IInv
        <3>2. DOMAIN s = 1..Len(s) /\ Len(s) \in Nat
            BY <3>1, LenProperties
        <3> QED BY <3>2
    <2> QED BY <1>5, <2>1, <2>2 DEF CoversUpTo
<1>6. Delivers(d) => groups'[w.code] = ApplyWrite(groups[w.code], w) /\ w \in Writes /\ q # <<>>
    BY DEF Delivers
<1>7. groups'[c] # Nil /\ View(d, c)' # Nil => Voters(groups'[c]) \subseteq Voters(View(d, c)')
    BY <1>3 DEF SeesAll
<1>8. View(d, c)' = Nil => groups'[c] = Nil /\ PendingSets(s, c) = {}
    BY <1>3 DEF SeesAll
<1> HIDE DEF s, w
<1>9. View(d, c)' # Nil
    <2>1. CASE groups[c] # Nil
        BY <1>2, <1>8, <2>1
    <2>2. CASE groups[c] = Nil
        <3>1. PICK i \in PendingSets(q, c) : TRUE
            <4>1. b # Nil
                BY <1>1, SeenFields DEF View
            <4> QED BY <1>1, <2>2, <4>1, BaseIs
        <3>2. i \in DOMAIN q /\ q[i].op = "set" /\ q[i].code = c /\ q[i] \in Writes
            BY <1>1, <3>1, PendingIndex DEF PendingSets
        <3>3. CASE \E j \in DOMAIN s : s[j] = q[i]
            BY <1>8, <3>2, <3>3 DEF PendingSets
        <3>4. CASE Delivers(d) /\ w = q[i]
            <4>1. groups'[c] = q[i].group
                BY <1>6, <3>2, <3>4, Replaced
            <4>2. q[i].group \in Groups
                BY <3>2 DEF Writes
            <4> QED BY <1>8, <4>1, <4>2, NilAssumption
        <3> QED BY <1>4, <3>2, <3>3, <3>4
    <2> QED BY <2>1, <2>2
<1>10. ASSUME NEW u \in Voters(View(d, c))
       PROVE  u \in Voters(View(d, c)')
    <2>1. b # Nil /\ u \in Voters(b) \cup {q[i].user : i \in Pending(q, c, "vote")}
        BY <1>1, SeenVoters DEF View
    <2>2. \/ PendingSets(q, c) = {} /\ b = groups[c]
          \/ \E i \in PendingSets(q, c) : b = q[i].group
        BY <1>1, BaseIs
    <2> HIDE DEF b
    <2>3. CASE b = groups[c] /\ u \in Voters(groups[c])
        <3>1. groups'[c] # Nil /\ u \in Voters(groups'[c])
            BY <1>2, <2>1, <2>3 DEF VoteStays, Voters
        <3> QED BY <1>7, <1>9, <3>1
    <2>4. ASSUME NEW i \in PendingSets(q, c), u \in Voters(q[i].group)
          PROVE  u \in Voters(View(d, c)')
        <3>1. i \in DOMAIN q /\ q[i].op = "set" /\ q[i].code = c /\ q[i] \in Writes
            BY <1>1, <2>4, PendingIndex DEF PendingSets
        <3>2. CASE \E j \in DOMAIN s : s[j] = q[i]
            BY <1>5, <1>9, <2>4, <3>1, <3>2
        <3>3. CASE Delivers(d) /\ w = q[i]
            <4>1. groups'[c] = q[i].group
                BY <1>6, <3>1, <3>3, Replaced
            <4>2. q[i].group \in Groups
                BY <3>1 DEF Writes
            <4> QED BY <1>7, <1>9, <2>4, <4>1, <4>2, NilAssumption
        <3> QED BY <1>4, <3>1, <3>2, <3>3
    <2>5. ASSUME NEW i \in Pending(q, c, "vote"), u = q[i].user
          PROVE  u \in Voters(View(d, c)')
        <3>1. i \in DOMAIN q /\ q[i].op = "vote" /\ q[i].code = c
              /\ \A k \in PendingSets(q, c) : k < i
            BY <2>5 DEF Pending
        <3>2. CASE \E j \in DOMAIN s : s[j] = q[i]
            BY <1>5, <1>9, <2>5, <3>1, <3>2
        <3>3. CASE i = 1 /\ Delivers(d) /\ w = q[i]
            <4>1. PendingSets(q, c) = {}
                BY <1>1, <3>1, <3>3 DEF PendingSets
            <4>2. groups[c] \in Groups
                BY <1>1, <2>1, <2>2, <4>1
            <4>3. groups'[c] # Nil /\ u \in Voters(groups'[c])
                BY <1>6, <2>5, <3>1, <3>3, <4>2, Updated
            <4> QED BY <1>7, <1>9, <4>3
        <3> QED BY <1>4, <3>1, <3>2, <3>3
    <2> QED BY <2>1, <2>2, <2>3, <2>4, <2>5
<1> QED BY <1>9, <1>10

\* The group that a device belongs to is there.
AllExist ==
    \A d \in Devices, c \in Codes : app[d].activeGroupId = c => View(d, c) # Nil

LEMMA ExistInit == Init => AllExist
BY NilAssumption DEF Init, AllExist, LaunchedApp

LEMMA ExistStep ==
    ASSUME NobodyLeaves, IInv, PartyInv, AllExist, Next, IInv', AllCovered'
    PROVE  AllExist'
<1>1. PICK d \in Devices :
              \/ Idles(d) \/ Crashes(d) \/ SwitchesOn(d) \/ AsksToJoin(d) \/ AsksToCreate(d)
              \/ Joins(d) \/ Creates(d) \/ DealsDeck(d) \/ StartsGroup(d) \/ RunsOut(d)
              \/ Starts(d) \/ LosesRequest(d) \/ Launches(d) \/ Delivers(d)
    BY NextCases, NobodyGoes DEF PartyInv
<1> SUFFICES ASSUME NEW e \in Devices, NEW c \in Codes, app'[e].activeGroupId = c
             PROVE  View(e, c)' # Nil
    BY DEF AllExist
<1>2. InOrder(app[d], requests[d], outbox[d]) /\ InOrder(app[e], requests[e], outbox[e])
    BY DEF PartyInv, Orderly
<1>3. \/ app[e].activeGroupId = c /\ KeepsSending(e)
      \/ e = d /\ Joins(d) /\ View(d, c) # Nil
      \/ e = d /\ Creates(d) /\ outbox'[d] = outbox[d] \o <<SetData(c, NewGroup)>>
    <2>1. outbox'[e] = outbox[e] => KeepsSending(e)
        BY DEF KeepsSending
    <2>2. CASE e # d
        BY <1>1, <2>1, <2>2, StepsMove DEF Moves, Delivers
    <2>3. CASE e = d /\ \/ Idles(d) \/ Crashes(d) \/ SwitchesOn(d) \/ DealsDeck(d) \/ Starts(d)
        BY <2>1, <2>3 DEF Idles, Crashes, SwitchesOn, DealsDeck, Starts, MovesAlone, SameMembership
    <2>4. CASE e = d /\ (AsksToJoin(d) \/ LosesRequest(d))
        BY <2>1, <2>4 DEF AsksToJoin, Asks, LosesRequest, Answers
    <2>5. CASE e = d /\ (AsksToCreate(d) \/ Launches(d))
        BY <1>2, <2>5, AsksInOrder, LaunchesInOrder, NilAssumption
    <2>6. CASE e = d /\ (Delivers(d) \/ RunsOut(d) \/ StartsGroup(d))
        <3>1. app'[d].activeGroupId = app[d].activeGroupId
            BY <2>6 DEF Delivers, RunsOut, StartsGroup, SameMembership
        <3>2. KeepsSending(d)
            BY <2>6, SenderKeeps DEF KeepsSending
        <3> QED BY <2>6, <3>1, <3>2
    <2>7. CASE e = d /\ Joins(d)
        <3>1. \/ app'[d] = app[d] /\ outbox'[d] = outbox[d]
              \/ \E k \in Codes : View(d, k) # Nil /\ app'[d].activeGroupId = k
            BY <2>7 DEF Joins
        <3> QED BY <2>1, <2>7, <3>1
    <2>8. CASE e = d /\ Creates(d)
        <3>1. \/ app'[d].activeGroupId = app[d].activeGroupId /\ outbox'[d] = outbox[d]
              \/ \E k \in Codes : /\ outbox'[d] = outbox[d] \o <<SetData(k, NewGroup)>>
                                  /\ app'[d].activeGroupId = k
            BY <2>8 DEF Creates
        <3> QED BY <2>1, <2>8, <3>1
    <2> QED BY <1>1, <2>2, <2>3, <2>4, <2>5, <2>6, <2>7, <2>8
<1>4. CASE app[e].activeGroupId = c /\ KeepsSending(e)
    <2>1. View(e, c) # Nil
        BY <1>4 DEF AllExist
    <2> QED BY <1>4, <2>1, ViewGrows
<1>5. CASE e = d /\ Joins(d) /\ View(d, c) # Nil
    BY <1>5, SenderKeeps, ViewGrows
<1>6. CASE e = d /\ Creates(d) /\ outbox'[d] = outbox[d] \o <<SetData(c, NewGroup)>>
    <2> DEFINE w == SetData(c, NewGroup)
    <2>1. w \in Writes /\ w.op = "set" /\ w.code = c
        BY SentWrites DEF SetData
    <2>2. outbox[d] \in Seq(Writes)
        BY OutboxTypes
    <2> HIDE DEF w
    <2>3. PendingSets(outbox[d] \o <<w>>, c) # {}
        BY <2>1, <2>2, PendingAdded
    <2>4. PendingSets(outbox'[d], c) # {}
        BY <1>6, <2>3 DEF w
    <2>5. SeesAll'
        BY AllSeenNext
    <2> QED BY <1>6, <2>4, <2>5 DEF SeesAll
<1> QED BY <1>3, <1>4, <1>5, <1>6

-----------------------------------------------------------------------------
(***************************************************************************)
(* Nobody is counted whose votes are not there.                            *)
(***************************************************************************)
AboutToCount(c) ==
    {d \in Devices : outbox[d] # <<>> /\ outbox[d][1].op = "ready" /\ outbox[d][1].code = c}

Counted(c) ==
    groups[c] # Nil =>
        groups[c].numberOfUsersReady + Cardinality(AboutToCount(c)) <= Cardinality(Voters(groups[c]))

SetsCounted(d, c) ==
    \A i \in PendingSets(outbox[d], c) :
        outbox[d][i].group.numberOfUsersReady <= Cardinality(Voters(outbox[d][i].group))

Reported(d, c) ==
    \A i \in Pending(outbox[d], c, "ready") :
        /\ View(d, c) # Nil
        /\ outbox[d][i].base + 1 <= Cardinality(Voters(View(d, c)))

AllCounted ==
    \A c \in Codes \ OldCodes :
        Counted(c) /\ \A d \in Devices : SetsCounted(d, c) /\ Reported(d, c)

LEMMA VotersFinite ==
    ASSUME NEW g
    PROVE  IsFiniteSet(Voters(g)) /\ Cardinality(Voters(g)) \in Nat
<1>1. IsFiniteSet(1..MaxSessions)
    BY MaxSessionsAssumption, FS_Interval
<1>2. IsFiniteSet(UserIds)
    BY <1>1, DevicesAssumption, FS_Product DEF UserIds
<1>3. Voters(g) \subseteq UserIds
    BY DEF Voters
<1> QED BY <1>2, <1>3, FS_Subset, FS_CardinalityType

LEMMA MoreVoters ==
    ASSUME NEW g, NEW h, Voters(g) \subseteq Voters(h)
    PROVE  /\ Cardinality(Voters(g)) <= Cardinality(Voters(h))
           /\ \A u \in Voters(h) \ Voters(g) :
                 Cardinality(Voters(g)) + 1 <= Cardinality(Voters(h))
<1>1. IsFiniteSet(Voters(g)) /\ IsFiniteSet(Voters(h))
    BY VotersFinite
<1>2. Cardinality(Voters(g)) <= Cardinality(Voters(h))
    BY <1>1, FS_Subset
<1>3. ASSUME NEW u \in Voters(h) \ Voters(g)
      PROVE  Cardinality(Voters(g)) + 1 <= Cardinality(Voters(h))
    <2>1. Cardinality(Voters(g) \cup {u}) = Cardinality(Voters(g)) + 1
        BY <1>1, <1>3, FS_AddElement
    <2>2. Voters(g) \cup {u} \in SUBSET Voters(h)
        BY <1>3
    <2>3. Cardinality(Voters(g) \cup {u}) <= Cardinality(Voters(h))
        BY <1>1, <2>2, FS_Subset
    <2> QED BY <2>1, <2>3
<1> QED BY <1>2, <1>3

LEMMA AboutFinite ==
    /\ \A c : IsFiniteSet(AboutToCount(c)) /\ Cardinality(AboutToCount(c)) \in Nat
    /\ \A S \in SUBSET Devices : IsFiniteSet(S) /\ Cardinality(S) \in Nat
<1>1. \A S \in SUBSET Devices : IsFiniteSet(S) /\ Cardinality(S) \in Nat
    BY DevicesAssumption, FS_Subset, FS_CardinalityType
<1>2. \A c : AboutToCount(c) \in SUBSET Devices
    BY DEF AboutToCount
<1> QED BY <1>1, <1>2

LEMMA CountedInit == Init => AllCounted
<1> SUFFICES ASSUME Init, NEW c \in Codes \ OldCodes
             PROVE  Counted(c) /\ \A d \in Devices : SetsCounted(d, c) /\ Reported(d, c)
    BY DEF AllCounted
<1>1. groups[c] = Nil
    BY DEF Init, OldCodes
<1>2. \A d \in Devices : outbox[d] = <<>>
    BY DEF Init
<1> QED BY <1>1, <1>2 DEF Counted, SetsCounted, Reported, Pending, PendingSets

\* What a device sees of a group: nobody is counted who has not voted.
LEMMA ViewCounted ==
    ASSUME IInv, AllCounted, NEW d \in Devices, NEW c \in Codes \ OldCodes, View(d, c) # Nil
    PROVE  View(d, c).numberOfUsersReady <= Cardinality(Voters(View(d, c)))
<1> DEFINE q == outbox[d]
           b == BaseDocument(groups[c], q, c)
           v == View(d, c)
<1>1. q \in Seq(Writes) /\ groups[c] \in Groups \cup {Nil} /\ DOMAIN q = 1..Len(q) /\ Len(q) \in Nat
    BY OutboxTypes, LenProperties
<1>2. /\ b \in Groups /\ b # Nil
      /\ v.numberOfUsersReady = LocalCount(q, c, "ready", b.numberOfUsersReady)
    BY <1>1, SeenFields DEF View
<1>3. Voters(b) \subseteq Voters(v)
    BY <1>1, SeenVoters DEF View
<1>4. \/ PendingSets(q, c) = {} /\ b = groups[c]
      \/ \E i \in PendingSets(q, c) : b = q[i].group
    BY <1>1, BaseIs
<1>5. Counted(c) /\ SetsCounted(d, c) /\ Reported(d, c)
    BY DEF AllCounted
<1>6. /\ Cardinality(Voters(b)) <= Cardinality(Voters(v))
      /\ Cardinality(Voters(b)) \in Nat /\ Cardinality(Voters(v)) \in Nat
      /\ Cardinality(AboutToCount(c)) \in Nat
    BY <1>3, MoreVoters, VotersFinite, AboutFinite
<1> HIDE DEF b
<1>7. CASE Pending(q, c, "ready") = {}
    <2>1. v.numberOfUsersReady = b.numberOfUsersReady /\ b.numberOfUsersReady \in Nat
        BY <1>2, <1>7 DEF LocalCount, Groups
    <2>2. b.numberOfUsersReady <= Cardinality(Voters(b))
        <3>1. CASE b = groups[c]
            <4>1. b.numberOfUsersReady + Cardinality(AboutToCount(c)) <= Cardinality(Voters(b))
                BY <1>2, <1>5, <3>1 DEF Counted
            <4> QED BY <1>6, <2>1, <4>1
        <3>2. CASE \E i \in PendingSets(q, c) : b = q[i].group
            BY <1>5, <3>2 DEF SetsCounted
        <3> QED BY <1>4, <3>1, <3>2
    <2> HIDE DEF v
    <2>3. v.numberOfUsersReady <= Cardinality(Voters(v))
        BY <1>6, <2>1, <2>2
    <2> QED BY <2>3 DEF v
<1>8. CASE Pending(q, c, "ready") # {}
    <2> DEFINE S == Pending(q, c, "ready")
    <2>1. S \subseteq 1..Len(q) /\ S # {}
        BY <1>1, <1>8 DEF Pending
    <2> HIDE DEF S
    <2>2. Latest(S) \in S
        BY <1>1, <2>1, LatestIsThere
    <2>3. v.numberOfUsersReady = q[Latest(S)].base + 1
        BY <1>2, <1>8 DEF LocalCount, S
    <2> QED BY <1>5, <2>2, <2>3 DEF Reported, S
<1> QED BY <1>7, <1>8

LEMMA SetsCountedStep ==
    ASSUME NobodyLeaves, IInv, PartyInv, AllCounted, Next,
           NEW e \in Devices, NEW c \in Codes \ OldCodes
    PROVE  SetsCounted(e, c)'
<1>1. PICK d \in Devices :
              \/ Idles(d) \/ Crashes(d) \/ SwitchesOn(d) \/ AsksToJoin(d) \/ AsksToCreate(d)
              \/ Joins(d) \/ Creates(d) \/ DealsDeck(d) \/ StartsGroup(d) \/ RunsOut(d)
              \/ Starts(d) \/ LosesRequest(d) \/ Launches(d) \/ Delivers(d)
    BY NextCases, NobodyGoes DEF PartyInv
<1> DEFINE q == outbox[e]
           s == outbox'[e]
<1>2. q \in Seq(Writes) /\ DOMAIN q = 1..Len(q) /\ Len(q) \in Nat
    BY OutboxTypes, LenProperties
<1>3. ASSUME NEW i \in PendingSets(q, c)
      PROVE  q[i].group.numberOfUsersReady <= Cardinality(Voters(q[i].group))
    BY <1>3 DEF AllCounted, SetsCounted
<1>4. CASE e # d \/ s \in {q, <<>>}
    <2>1. s \in {q, <<>>}
        BY <1>1, <1>4, StepsMove DEF Moves, Delivers
    <2> QED BY <1>3, <2>1, NoSetsInEmpty DEF SetsCounted
<1>5. CASE e = d /\ (Joins(d) \/ RunsOut(d))
    <2>1. /\ PendingSets(s, c) = PendingSets(q, c)
          /\ \A i \in PendingSets(q, c) : s[i] = q[i]
        BY <1>5, SmallWrites DEF PendingSets
    <2> QED BY <1>3, <2>1 DEF SetsCounted
<1>6. CASE e = d /\ (Creates(d) \/ StartsGroup(d)) /\ s # q
    <2>1. PICK k \in Codes, g \in Groups :
              /\ s = q \o <<SetData(k, g)>> /\ SetData(k, g) \in Writes
              /\ k = c => g.numberOfUsersReady <= Cardinality(Voters(g))
        <3>1. CASE Creates(d)
            <4>1. NewGroup \in Groups /\ NewGroup.numberOfUsersReady = 0
                BY NewGroupDealt, DealtSubset DEF NewGroup
            <4>2. 0 <= Cardinality(Voters(NewGroup))
                BY VotersFinite
            <4>3. \E k \in Codes : s = q \o <<SetData(k, NewGroup)>>
                BY <1>6, <3>1 DEF Creates
            <4>4. \A k \in Codes : SetData(k, NewGroup) \in Writes
                BY <4>1, SentWrites
            <4> QED BY <4>1, <4>2, <4>3, <4>4
        <3>2. CASE StartsGroup(d)
            <4>1. PICK k \in Codes, deck \in HostDecks :
                      /\ View(d, k) # Nil
                      /\ s = q \o <<SetData(k, StartedGroup(View(d, k), deck))>>
                BY <1>6, <3>2, HostStarts DEF PartyInv
            <4> DEFINE v == View(d, k)
                       g == StartedGroup(v, deck)
            <4>2. v \in Groups /\ g \in Groups /\ SetData(k, g) \in Writes
                BY <4>1, OutboxTypes, SentWrites
            <4>3. k = c => v.numberOfUsersReady <= Cardinality(Voters(v))
                BY <4>1, ViewCounted
            <4>4. s = q \o <<SetData(k, g)>>
                BY <4>1
            <4> HIDE DEF v
            <4>5. g.accepted = v.accepted /\ g.numberOfUsersReady = v.numberOfUsersReady
                BY <4>2 DEF StartedGroup, Groups
            <4>6. Voters(g) = Voters(v)
                BY <4>5 DEF Voters
            <4> HIDE DEF g
            <4> QED BY <4>2, <4>3, <4>4, <4>5, <4>6
        <3> QED BY <1>6, <3>1, <3>2
    <2> DEFINE w == SetData(k, g)
    <2>2. w \in Writes /\ w.code = k /\ w.group = g /\ s = q \o <<w>>
        BY <2>1 DEF SetData
    <2> HIDE DEF w
    <2>3. /\ \A i \in 1..Len(q) : (q \o <<w>>)[i] = q[i]
          /\ (q \o <<w>>)[Len(q) + 1] = w
        BY <1>2, <2>2, AddedWrite
    <2>4. PendingSets(q \o <<w>>, c)
              = IF w.code = c /\ w.op = "set" THEN PendingSets(q, c) \cup {Len(q) + 1}
                ELSE PendingSets(q, c)
        BY <1>2, <2>2, PendingAdded
    <2>5. PendingSets(q, c) \subseteq 1..Len(q)
        BY <1>2, PendingIndex
    <2>6. ASSUME NEW i \in PendingSets(s, c)
          PROVE  s[i].group.numberOfUsersReady <= Cardinality(Voters(s[i].group))
        <3>1. CASE i \in PendingSets(q, c)
            BY <1>3, <2>2, <2>3, <2>5, <3>1
        <3>2. CASE w.code = c /\ i = Len(q) + 1
            BY <2>1, <2>2, <2>3, <3>2
        <3> QED BY <2>2, <2>4, <2>6, <3>1, <3>2
    <2> QED BY <2>6 DEF SetsCounted
<1>7. CASE e = d /\ Delivers(d)
    <2>1. q # <<>> /\ s = Tail(q)
        BY <1>7 DEF Delivers
    <2>2. ASSUME NEW i \in PendingSets(Tail(q), c)
          PROVE  i + 1 \in PendingSets(q, c) /\ Tail(q)[i] = q[i + 1]
        BY <1>2, <2>1, <2>2, PendingTaken
    <2> QED BY <1>3, <2>1, <2>2 DEF SetsCounted
<1>8. e = d /\ \/ Idles(d) \/ Crashes(d) \/ SwitchesOn(d) \/ AsksToJoin(d) \/ AsksToCreate(d)
               \/ DealsDeck(d) \/ Starts(d) \/ LosesRequest(d) \/ Launches(d)
      => s \in {q, <<>>}
    BY QueueChanges DEF PartyInv
<1> QED BY <1>1, <1>4, <1>5, <1>6, <1>7, <1>8

\* Which devices are about to be counted after a step that is no delivery.
LEMMA AboutKept ==
    ASSUME NobodyLeaves, IInv, PartyInv, Next, NEW d \in Devices, NEW c \in Codes,
           \/ Idles(d) \/ Crashes(d) \/ SwitchesOn(d) \/ AsksToJoin(d) \/ AsksToCreate(d)
           \/ Joins(d) \/ Creates(d) \/ DealsDeck(d) \/ StartsGroup(d) \/ RunsOut(d)
           \/ Starts(d) \/ LosesRequest(d) \/ Launches(d)
    PROVE  AboutToCount(c)' \subseteq AboutToCount(c)
<1> SUFFICES ASSUME NEW e \in Devices, outbox'[e] # <<>>,
                    outbox'[e][1].op = "ready", outbox'[e][1].code = c
             PROVE  outbox[e] # <<>> /\ outbox[e][1].op = "ready" /\ outbox[e][1].code = c
    BY DEF AboutToCount
<1> DEFINE q == outbox[d]
           s == outbox'[d]
<1>1. q \in Seq(Writes) /\ DOMAIN q = 1..Len(q) /\ Len(q) \in Nat
    BY OutboxTypes, LenProperties
<1>2. CASE e # d
    BY <1>2, StepsMove DEF Moves
<1>3. ASSUME e = d, s # <<>>, s # q
      PROVE  \/ q # <<>> /\ s[1] = q[1]
             \/ s[1].op # "ready"
    <2>1. CASE Joins(d)
        <3>1. /\ \A i \in 1..Len(q) : s[i] = q[i]
              /\ s[Len(q) + 1].op = "join"
            BY <1>3, <2>1, JoinQueue
        <3>2. CASE Len(q) = 0
            BY <3>1, <3>2
        <3>3. CASE Len(q) # 0
            <4>1. 1 \in 1..Len(q) /\ q # <<>>
                BY <1>1, <3>3
            <4> QED BY <3>1, <4>1
        <3> QED BY <3>2, <3>3
    <2>2. CASE RunsOut(d)
        <3>1. /\ \A i \in 1..Len(q) : s[i] = q[i]
              /\ s[Len(q) + 1].op = "vote"
            BY <2>2, RunOutQueue
        <3>2. CASE Len(q) = 0
            BY <3>1, <3>2
        <3>3. CASE Len(q) # 0
            <4>1. 1 \in 1..Len(q) /\ q # <<>>
                BY <1>1, <3>3
            <4> QED BY <3>1, <4>1
        <3> QED BY <3>2, <3>3
    <2>3. CASE Creates(d) \/ StartsGroup(d)
        <3>1. PICK k \in Codes, g \in Groups : s = q \o <<SetData(k, g)>> /\ SetData(k, g) \in Writes
            BY <1>3, <2>3, HostWrites
        <3> DEFINE w == SetData(k, g)
        <3>2. w \in Writes /\ w.op = "set" /\ s = q \o <<w>>
            BY <3>1 DEF SetData
        <3> HIDE DEF w
        <3>3. /\ \A i \in 1..Len(q) : (q \o <<w>>)[i] = q[i]
              /\ (q \o <<w>>)[Len(q) + 1] = w
            BY <1>1, <3>2, AddedWrite
        <3>4. CASE Len(q) = 0
            BY <3>2, <3>3, <3>4
        <3>5. CASE Len(q) # 0
            <4>1. 1 \in 1..Len(q) /\ q # <<>>
                BY <1>1, <3>5
            <4> QED BY <3>2, <3>3, <4>1
        <3> QED BY <3>4, <3>5
    <2>4. ~(Joins(d) \/ RunsOut(d) \/ Creates(d) \/ StartsGroup(d)) => s \in {q, <<>>}
        BY QueueChanges DEF PartyInv
    <2> QED BY <1>3, <2>1, <2>2, <2>3, <2>4
<1> QED BY <1>2, <1>3

\* Which devices are about to be counted after a delivery.
LEMMA AboutDelivered ==
    ASSUME IInv, AllInQueue, NEW d \in Devices, Delivers(d), NEW c \in Codes
    PROVE  LET w == Head(outbox[d]) IN
           /\ AboutToCount(c)' \subseteq AboutToCount(c) \cup {d}
           /\ d \in AboutToCount(c)' => w.op = "vote" /\ w.code = c
           /\ d \in AboutToCount(c) <=> w.op = "ready" /\ w.code = c
<1> DEFINE q == outbox[d]
           s == outbox'[d]
           w == Head(q)
<1>1. q \in Seq(Writes) /\ q # <<>> /\ s = Tail(q)
    BY OutboxTypes DEF Delivers
<1>2. \A e \in Devices \ {d} : outbox'[e] = outbox[e]
    BY DEF Delivers
<1>3. /\ w = q[1] /\ DOMAIN Tail(q) = 1..(Len(q) - 1) /\ DOMAIN q = 1..Len(q) /\ Len(q) \in Nat
      /\ \A i \in 1..(Len(q) - 1) : Tail(q)[i] = q[i + 1] /\ i + 1 \in 1..Len(q)
      /\ 1 \in 1..Len(q) /\ Tail(q) \in Seq(Writes)
    BY <1>1, TakenWrite
<1> HIDE DEF w
<1>4. AboutToCount(c)' \subseteq AboutToCount(c) \cup {d}
    BY <1>2 DEF AboutToCount
<1>5. d \in AboutToCount(c) <=> w.op = "ready" /\ w.code = c
    BY <1>1, <1>3 DEF AboutToCount
<1>6. ASSUME d \in AboutToCount(c)'
      PROVE  w.op = "vote" /\ w.code = c
    <2>1. s # <<>> /\ s[1].op = "ready" /\ s[1].code = c
        BY <1>6 DEF AboutToCount
    <2>2. 1 \in 1..(Len(q) - 1)
        <3> DEFINE t == Tail(q)
        <3>1. t \in Seq(Writes) /\ t # <<>> /\ DOMAIN t = 1..(Len(q) - 1)
            BY <1>1, <1>3, <2>1
        <3> HIDE DEF t
        <3>2. Len(t) # 0 /\ Len(t) \in Nat /\ DOMAIN t = 1..Len(t)
            BY <3>1, EmptySeq, LenProperties
        <3>3. 1 \in 1..Len(t)
            BY <3>2
        <3> QED BY <3>1, <3>2, <3>3
    <2>3. s[1] = q[1 + 1] /\ 1 + 1 \in DOMAIN q /\ 1 \in DOMAIN q
        BY <1>1, <1>3, <2>2
    <2>4. Paired(q)
        BY DEF AllInQueue, InQueue
    <2> HIDE DEF q, s
    <2>5. q[1].op = "vote" /\ q[1].code = q[1 + 1].code
        BY <2>1, <2>3, <2>4 DEF Paired
    <2> QED BY <1>3, <2>1, <2>3, <2>5
<1> QED BY <1>4, <1>5, <1>6 DEF w

LEMMA CountedStep ==
    ASSUME OneHost, NobodyLeaves, IInv, PartyInv, AllInQueue, AllCounted, Next,
           NEW c \in Codes \ OldCodes
    PROVE  Counted(c)'
<1>1. PICK d \in Devices :
              \/ Idles(d) \/ Crashes(d) \/ SwitchesOn(d) \/ AsksToJoin(d) \/ AsksToCreate(d)
              \/ Joins(d) \/ Creates(d) \/ DealsDeck(d) \/ StartsGroup(d) \/ RunsOut(d)
              \/ Starts(d) \/ LosesRequest(d) \/ Launches(d) \/ Delivers(d)
    BY NextCases, NobodyGoes DEF PartyInv
<1> DEFINE A == AboutToCount(c)
           B == AboutToCount(c)'
           g == groups[c]
           h == groups'[c]
<1>2. Counted(c) /\ SetsCounted(d, c)
    BY DEF AllCounted
<1>3. /\ IsFiniteSet(A) /\ Cardinality(A) \in Nat
      /\ B \in SUBSET Devices
      /\ IsFiniteSet(B) /\ Cardinality(B) \in Nat
    <2>1. B \in SUBSET Devices
        BY DEF AboutToCount
    <2> QED BY <2>1, AboutFinite
<1>4. B \subseteq A => Cardinality(B) <= Cardinality(A)
    BY <1>3, FS_Subset
<1>5. g \in Groups \cup {Nil}
    BY OutboxTypes
<1>6. Cardinality(Voters(g)) \in Nat /\ Cardinality(Voters(h)) \in Nat
    BY VotersFinite
<1>7. g # Nil => g.numberOfUsersReady \in Nat
    BY <1>5 DEF Groups
<1>8. g # Nil => g.numberOfUsersReady + Cardinality(A) <= Cardinality(Voters(g))
    BY <1>2 DEF Counted
<1> SUFFICES ASSUME h # Nil
             PROVE  h.numberOfUsersReady + Cardinality(B) <= Cardinality(Voters(h))
    BY DEF Counted
<1>9. ASSUME h = g, B \subseteq A
      PROVE  h.numberOfUsersReady + Cardinality(B) <= Cardinality(Voters(h))
    <2>1. Cardinality(B) <= Cardinality(A)
        BY <1>4, <1>9
    <2> HIDE DEF A, B
    <2> QED BY <1>3, <1>6, <1>7, <1>8, <1>9, <2>1
<1>10. CASE ~Delivers(d)
    <2>1. groups' = groups
        BY <1>1, <1>10, StepsMove
    <2>2. B \subseteq A
        BY <1>1, <1>10, AboutKept
    <2> QED BY <1>9, <2>1, <2>2
<1>11. CASE Delivers(d)
    <2> DEFINE w == Head(outbox[d])
    <2>1. /\ w \in Writes /\ outbox[d] # <<>>
          /\ h = IF w.code = c THEN ApplyWrite(g, w) ELSE g
        BY <1>11 DEF Delivers
    <2>2. /\ B \subseteq A \cup {d}
          /\ d \in B => w.op = "vote" /\ w.code = c
          /\ d \in A <=> w.op = "ready" /\ w.code = c
        BY <1>11, AboutDelivered
    <2>3. outbox[d] \in Seq(Writes) /\ w = outbox[d][1] /\ 1 \in DOMAIN outbox[d]
        BY <2>1, OutboxTypes, TakenWrite
    <2> HIDE DEF w, A, B, g, h
    <2>4. CASE w.code # c
        <3>1. B \subseteq A /\ h = g
            BY <2>1, <2>2, <2>4
        <3> QED BY <1>9, <3>1
    <2>5. CASE w.code = c /\ w.op # "set"
        <3>1. g # Nil /\ g \in Groups
            BY <1>5, <2>1, <2>5, UpdatedNil DEF h
        <3>2. /\ h.numberOfUsersReady = IF w.op = "ready" THEN g.numberOfUsersReady + 1
                                        ELSE g.numberOfUsersReady
              /\ Voters(h) = IF w.op = "vote" THEN Voters(g) \cup {w.user} ELSE Voters(g)
            BY <2>1, <2>5, <3>1, Updated
        <3>3. CASE w.op = "vote"
            <4>1. FreshVote(d, outbox[d], 1)
                BY <2>3, <3>3 DEF AllInQueue, InQueue
            <4>2. w.user \notin Voters(g)
                BY <2>3, <2>5, <3>1, <4>1 DEF FreshVote, FreshIn, g
            <4>3. Cardinality(Voters(h)) = Cardinality(Voters(g)) + 1
                BY <3>2, <3>3, <4>2, VotersFinite, FS_AddElement
            <4>4. Cardinality(B) <= Cardinality(A) + 1
                <5>1. /\ IsFiniteSet(A \cup {d})
                      /\ \/ Cardinality(A \cup {d}) = Cardinality(A)
                         \/ Cardinality(A \cup {d}) = Cardinality(A) + 1
                    BY <1>3, FS_AddElement
                <5>2. Cardinality(B) <= Cardinality(A \cup {d})
                    BY <2>2, <5>1, FS_Subset
                <5>3. Cardinality(A \cup {d}) \in Nat
                    BY <5>1, FS_CardinalityType
                <5> QED BY <1>3, <5>1, <5>2, <5>3
            <4>5. h.numberOfUsersReady = g.numberOfUsersReady
                BY <3>2, <3>3
            <4> QED BY <1>3, <1>6, <1>7, <1>8, <3>1, <4>3, <4>4, <4>5
        <3>4. CASE w.op = "ready"
            <4>1. Cardinality(A \ {d}) = Cardinality(A) - 1 /\ IsFiniteSet(A \ {d})
                BY <1>3, <2>2, <2>5, <3>4, FS_RemoveElement
            <4>2. B \in SUBSET (A \ {d})
                BY <2>2, <3>4
            <4>3. Cardinality(B) <= Cardinality(A) - 1
                BY <4>1, <4>2, FS_Subset
            <4>4. h.numberOfUsersReady = g.numberOfUsersReady + 1 /\ Voters(h) = Voters(g)
                BY <3>2, <3>4
            <4> QED BY <1>3, <1>6, <1>7, <1>8, <3>1, <4>3, <4>4
        <3>5. CASE w.op \notin {"vote", "ready"}
            <4>1. B \subseteq A
                BY <2>2, <3>5
            <4>2. h.numberOfUsersReady = g.numberOfUsersReady /\ Voters(h) = Voters(g)
                BY <3>2, <3>5
            <4> QED BY <1>3, <1>4, <1>6, <1>7, <1>8, <3>1, <4>1, <4>2
        <3> QED BY <3>3, <3>4, <3>5
    <2>6. CASE w.code = c /\ w.op = "set"
        <3>1. 1 \in PendingSets(outbox[d], c)
            BY <2>3, <2>6 DEF PendingSets
        <3>2. h = w.group /\ w.group \in Groups
            BY <2>1, <2>6, Replaced DEF Writes
        <3>3. h.numberOfUsersReady <= Cardinality(Voters(h))
            BY <1>2, <2>3, <3>1, <3>2 DEF SetsCounted
        <3>4. B = {}
            <4> SUFFICES ASSUME NEW e \in B PROVE FALSE
                OBVIOUS
            <4>1. e # d /\ e \in A
                BY <2>2, <2>6
            <4>2. /\ e \in Devices /\ outbox[e] # <<>>
                  /\ outbox[e][1].op = "ready" /\ outbox[e][1].code = c
                BY <4>1 DEF A, AboutToCount
            <4>3. 1 \in DOMAIN outbox[e]
                BY <4>2, OutboxTypes, TakenWrite
            <4>4. d \in Hosts
                BY <3>1 DEF PartyInv, Guests, Guest, NoSets, PendingSets
            <4>5. e \notin Hosts
                BY <4>1, <4>4 DEF OneHost
            <4>6. Running(c)
                BY <4>2, <4>3, <4>5 DEF PartyInv, GuestsVote, GuestVotes
            <4> QED BY <3>1, <4>6 DEF PartyInv, AllStartedOnce, StartedOnce
        <3>5. Cardinality(B) = 0 /\ h.numberOfUsersReady \in Nat
            BY <3>2, <3>4, FS_EmptySet DEF Groups
        <3> QED BY <3>3, <3>5
    <2> QED BY <2>4, <2>5, <2>6 DEF g, h, B
<1> QED BY <1>10, <1>11

\* A device that runs out of cards votes under a name of its own for the first
\* time, on the group it belongs to.
LEMMA RunsOutFresh ==
    ASSUME IInv, PartyInv, AllDrawn, NEW d \in Devices, RunsOut(d)
    PROVE  LET a == app[d] IN
           /\ a.activeGroupId \in Codes /\ a.groupId = a.activeGroupId
           /\ ~Used(a.uniqueUserId)
<1> DEFINE a == app[d]
           u == a.uniqueUserId
<1>1. /\ a.activeGroupId \in Codes /\ a.screen = "cards" /\ a.visible # <<>>
      /\ u \in UserIds
    BY DEF RunsOut
<1>2. a.groupId = a.activeGroupId /\ u = <<d, a.session>>
    BY <1>1, NilAssumption DEF PartyInv, Orderly, InOrder, InsideGroup, AllDrawn, Named
<1>3. a.session \in 1..MaxSessions
    BY <1>1, <1>2 DEF UserIds
<1>4. ~Done(a)
    BY <1>1 DEF Done
<1>5. ~Used(u)
    BY <1>1, <1>2, <1>3, <1>4, NilAssumption DEF AllDrawn, Drawn
<1> QED BY <1>1, <1>2, <1>5

\* Where a report that is on its way came from.
LEMMA ReportOrigin ==
    ASSUME NobodyLeaves, IInv, PartyInv, Next, NEW e \in Devices, NEW c \in Codes,
           NEW i \in Pending(outbox'[e], c, "ready")
    PROVE  \/ /\ KeepsSending(e)
              /\ \E k \in Pending(outbox[e], c, "ready") : outbox'[e][i] = outbox[e][k]
           \/ RunsOut(e) /\ app[e].activeGroupId = c /\ i = Len(outbox[e]) + 2
<1>1. PICK d \in Devices :
              \/ Idles(d) \/ Crashes(d) \/ SwitchesOn(d) \/ AsksToJoin(d) \/ AsksToCreate(d)
              \/ Joins(d) \/ Creates(d) \/ DealsDeck(d) \/ StartsGroup(d) \/ RunsOut(d)
              \/ Starts(d) \/ LosesRequest(d) \/ Launches(d) \/ Delivers(d)
    BY NextCases, NobodyGoes DEF PartyInv
<1> DEFINE q == outbox[e]
           s == outbox'[e]
           n == Len(q)
<1>2. q \in Seq(Writes) /\ DOMAIN q = 1..n /\ n \in Nat
    BY OutboxTypes, LenProperties
<1>3. i \in DOMAIN s /\ s[i].op = "ready" /\ s[i].code = c /\ \A j \in PendingSets(s, c) : j < i
    BY DEF Pending
<1>4. ASSUME PendingSets(q, c) \subseteq PendingSets(s, c), i \in 1..n, s[i] = q[i]
      PROVE  i \in Pending(q, c, "ready")
    BY <1>2, <1>3, <1>4 DEF Pending
<1>5. KeepsSending(e)
    <2>1. s # <<>>
        BY <1>3
    <2> QED BY <2>1, QueueKept
<1>6. CASE e # d \/ s = q
    <2>1. s = q
        BY <1>1, <1>6, StepsMove DEF Moves, Delivers
    <2> QED BY <1>2, <1>3, <1>4, <1>5, <2>1
<1>7. CASE e = d /\ s # q /\ Joins(d)
    <2>1. /\ DOMAIN s = 1..(n + 1) /\ \A j \in 1..n : s[j] = q[j]
          /\ s[n + 1].op = "join"
        BY <1>7, JoinQueue
    <2>2. PendingSets(s, c) = PendingSets(q, c)
        BY <1>7, SmallWrites
    <2>3. i # n + 1
        BY <1>3, <2>1
    <2>4. i \in 1..n
        BY <1>2, <1>3, <2>1, <2>3
    <2> QED BY <1>4, <1>5, <2>1, <2>2, <2>4
<1>8. CASE e = d /\ RunsOut(d)
    <2>1. /\ DOMAIN s = 1..(n + 2) /\ \A j \in 1..n : s[j] = q[j]
          /\ s[n + 1].op = "vote"
          /\ s[n + 2].code = app[d].activeGroupId
        BY <1>8, RunOutQueue
    <2>2. PendingSets(s, c) = PendingSets(q, c)
        BY <1>8, SmallWrites
    <2>3. i # n + 1
        BY <1>3, <2>1
    <2>4. i \in 1..n \/ i = n + 2
        BY <1>2, <1>3, <2>1, <2>3
    <2>5. CASE i \in 1..n
        BY <1>4, <1>5, <2>1, <2>2, <2>5
    <2>6. CASE i = n + 2
        BY <1>3, <1>8, <2>1, <2>6
    <2> QED BY <2>4, <2>5, <2>6
<1>9. CASE e = d /\ s # q /\ (Creates(d) \/ StartsGroup(d))
    <2>1. PICK k \in Codes, g \in Groups : s = q \o <<SetData(k, g)>> /\ SetData(k, g) \in Writes
        BY <1>9, HostWrites
    <2> DEFINE w == SetData(k, g)
    <2>2. w \in Writes /\ w.op = "set" /\ s = q \o <<w>>
        BY <2>1 DEF SetData
    <2> HIDE DEF w
    <2>3. /\ DOMAIN (q \o <<w>>) = 1..(n + 1) /\ \A j \in 1..n : (q \o <<w>>)[j] = q[j]
          /\ (q \o <<w>>)[n + 1] = w
        BY <1>2, <2>2, AddedWrite
    <2>4. PendingSets(q, c) \subseteq PendingSets(q \o <<w>>, c)
        BY <1>2, <2>2, PendingAdded
    <2>5. i # n + 1
        BY <1>3, <2>2, <2>3
    <2>6. i \in 1..n
        BY <1>2, <1>3, <2>2, <2>3, <2>5
    <2> QED BY <1>4, <1>5, <2>2, <2>3, <2>4, <2>6
<1>10. CASE e = d /\ Delivers(d)
    <2>1. q # <<>> /\ s = Tail(q)
        BY <1>10 DEF Delivers
    <2>2. /\ DOMAIN Tail(q) = 1..(n - 1)
          /\ \A j \in 1..(n - 1) : Tail(q)[j] = q[j + 1] /\ j + 1 \in 1..n
        BY <1>2, <2>1, TakenWrite
    <2>3. i \in 1..(n - 1) /\ i + 1 \in DOMAIN q /\ s[i] = q[i + 1]
        BY <1>2, <1>3, <2>1, <2>2
    <2>4. ASSUME NEW j \in PendingSets(q, c)
          PROVE  j < i + 1
        <3>1. j \in 1..n /\ q[j].op = "set" /\ q[j].code = c
            BY <1>2, <2>4 DEF PendingSets
        <3>2. CASE j = 1
            BY <1>2, <2>3, <3>2
        <3>3. CASE j # 1
            <4>1. j - 1 \in 1..(n - 1) /\ (j - 1) + 1 = j
                BY <1>2, <3>1, <3>3
            <4>2. j - 1 \in DOMAIN s /\ s[j - 1] = q[j]
                BY <2>1, <2>2, <4>1
            <4>3. j - 1 \in PendingSets(s, c)
                BY <3>1, <4>2 DEF PendingSets
            <4>4. j - 1 < i
                BY <1>3, <4>3
            <4> QED BY <1>2, <2>3, <3>1, <4>4
        <3> QED BY <3>2, <3>3
    <2>5. i + 1 \in Pending(q, c, "ready")
        BY <1>3, <2>3, <2>4 DEF Pending
    <2> QED BY <1>5, <2>3, <2>5
<1>11. CASE e = d /\ \/ Idles(d) \/ Crashes(d) \/ SwitchesOn(d) \/ AsksToJoin(d) \/ AsksToCreate(d)
                     \/ DealsDeck(d) \/ Starts(d) \/ LosesRequest(d) \/ Launches(d)
    <2>1. s \in {q, <<>>}
        BY <1>11, QueueChanges DEF PartyInv
    <2>2. s = q
        BY <1>3, <2>1
    <2> QED BY <1>6, <2>2
<1> QED BY <1>1, <1>6, <1>7, <1>8, <1>9, <1>10, <1>11

LEMMA ReportedStep ==
    ASSUME OneHost, NobodyLeaves, IInv, PartyInv, AllDrawn, AllExist, AllCounted, Next,
           IInv', AllCovered',
           NEW e \in Devices, NEW c \in Codes \ OldCodes
    PROVE  Reported(e, c)'
<1> DEFINE q == outbox[e]
           s == outbox'[e]
           n == Len(q)
           v == View(e, c)
           x == View(e, c)'
<1> SUFFICES ASSUME NEW i \in Pending(s, c, "ready")
             PROVE  x # Nil /\ s[i].base + 1 <= Cardinality(Voters(x))
    BY DEF Reported
<1>1. Cardinality(Voters(v)) \in Nat /\ Cardinality(Voters(x)) \in Nat
    BY VotersFinite
<1>2. ASSUME KeepsSending(e), NEW k \in Pending(q, c, "ready"), s[i] = q[k]
      PROVE  x # Nil /\ s[i].base + 1 <= Cardinality(Voters(x))
    <2>1. v # Nil /\ q[k].base + 1 <= Cardinality(Voters(v))
        BY <1>2 DEF AllCounted, Reported
    <2>2. x # Nil /\ Voters(v) \subseteq Voters(x)
        BY <1>2, <2>1, ViewGrows DEF PartyInv
    <2>3. Cardinality(Voters(v)) <= Cardinality(Voters(x))
        BY <2>2, MoreVoters
    <2>4. q[k].base \in Nat
        <3>1. q \in Seq(Writes) /\ k \in DOMAIN q /\ q[k].op = "ready"
            BY <1>2, OutboxTypes DEF Pending
        <3>2. q[k] \in Writes
            BY <3>1, LenProperties, ElementOfSeq
        <3> QED BY <3>1, <3>2 DEF Writes
    <2> HIDE DEF q, s, v, x
    <2> QED BY <1>1, <1>2, <2>1, <2>2, <2>3, <2>4
<1>3. CASE RunsOut(e) /\ app[e].activeGroupId = c /\ i = n + 2
    <2> DEFINE u == app[e].uniqueUserId
    <2>1. /\ DOMAIN s = 1..(n + 2) /\ n \in Nat
          /\ s[n + 1].op = "vote" /\ s[n + 1].code = app[e].groupId /\ s[n + 1].user = u
          /\ s[n + 2].base = ReadyIn(v)
        BY <1>3, RunOutQueue
    <2>2. app[e].groupId = c /\ ~Used(u)
        BY <1>3, RunsOutFresh
    <2>3. v # Nil /\ v \in Groups \cup {Nil}
        BY <1>3, OutboxTypes DEF AllExist
    <2>4. v.numberOfUsersReady <= Cardinality(Voters(v)) /\ v.numberOfUsersReady \in Nat
        BY <2>3, ViewCounted DEF Groups
    <2>5. x # Nil /\ Voters(v) \subseteq Voters(x)
        BY <1>3, <2>3, SenderKeeps, ViewGrows DEF PartyInv
    <2>6. u \notin Voters(v)
        BY <2>2, <2>3, SeenIsUsed
    <2>7. u \in Voters(x)
        <3>1. CoversUpTo(s, c, Len(s) + 1, Voters(x))
            BY <2>5, AllSeenNext DEF SeesAll
        <3>2. Len(s) \in Nat /\ DOMAIN s = 1..Len(s)
            <4>1. s \in Seq(WritesOf(DealtGroups))
                BY DEF IInv
            <4> QED BY <4>1, LenProperties
        <3>3. n + 1 \in DOMAIN s
            BY <2>1
        <3>4. n + 1 < Len(s) + 1
            BY <2>1, <3>2, <3>3
        <3> QED BY <2>1, <2>2, <3>1, <3>3, <3>4 DEF CoversUpTo
    <2>8. Cardinality(Voters(v)) + 1 <= Cardinality(Voters(x))
        BY <2>5, <2>6, <2>7, MoreVoters
    <2>9. s[i].base = v.numberOfUsersReady
        BY <1>3, <2>1, <2>3 DEF ReadyIn
    <2> HIDE DEF s, v, x
    <2> QED BY <1>1, <2>4, <2>5, <2>8, <2>9
<1> QED BY <1>2, <1>3, ReportOrigin

VotingInv == AllDrawn /\ AllInQueue /\ AllExist /\ AllCounted

LEMMA VotingInit == Init => VotingInv
BY DrawnInit, InQueueInit, ExistInit, CountedInit DEF VotingInv

LEMMA VotingNext ==
    ASSUME OneHost, NobodyLeaves, IInv, PartyInv, VotingInv, [Next]_vars, IInv', PartyInv'
    PROVE  VotingInv'
<1>1. AllCovered'
    BY DEF PartyInv
<1>2. CASE Next
    <2>1. AllDrawn' /\ AllInQueue' /\ AllExist'
        BY <1>1, <1>2, DrawnStep, InQueueStep, ExistStep DEF PartyInv, VotingInv
    <2>2. AllCounted'
        BY <1>1, <1>2, SetsCountedStep, CountedStep, ReportedStep DEF VotingInv, AllCounted
    <2> QED BY <2>1, <2>2 DEF VotingInv
<1>3. CASE UNCHANGED vars
    <2>1. /\ groups' = groups /\ outbox' = outbox /\ requests' = requests /\ app' = app
          /\ failures' = failures /\ kills' = kills
        BY <1>3 DEF vars
    <2>2. AllDrawn' <=> AllDrawn
        BY <2>1 DEF AllDrawn, Named, Drawn, Used
    <2>3. AllInQueue' <=> AllInQueue
        BY <2>1 DEF AllInQueue, InQueue, FreshVote
    <2>4. AllExist' <=> AllExist
        BY <2>1 DEF AllExist, View
    <2>5. AllCounted' <=> AllCounted
        BY <2>1 DEF AllCounted, Counted, AboutToCount, SetsCounted, Reported, View
    <2> QED BY <2>2, <2>3, <2>4, <2>5 DEF VotingInv
<1> QED BY <1>2, <1>3

LEMMA VotingReadyHaveVoted ==
    ASSUME IInv, VotingInv
    PROVE  ReadyHaveVoted
BY ViewCounted DEF VotingInv, ReadyHaveVoted

\* Nobody counts as ready whose vote is not in the document that the counter
\* is read from, on any device and in any group that was not there before, in
\* a party with one host whom nobody deserts.  Every report travels behind
\* the vote it belongs to, nobody votes twice under one name, and a device
\* that puts its count on top of what the server says has its vote on top too.
THEOREM ReadyAreVoters ==
    ASSUME OneHost, NobodyLeaves
    PROVE  Spec => []ReadyHaveVoted
<1>1. IInv /\ PartyInv /\ [Next]_vars => PartyInv'
    BY PartyNext
<1>2. IInv /\ PartyInv /\ VotingInv /\ [Next]_vars /\ IInv' /\ PartyInv' => VotingInv'
    BY VotingNext
<1>3. IInv /\ VotingInv => ReadyHaveVoted
    BY VotingReadyHaveVoted
<1> QED BY PartyInit, VotingInit, <1>1, <1>2, <1>3, Invariance, PTL DEF Spec

-----------------------------------------------------------------------------
(***************************************************************************)
(* How often a dinner is swiped right, and what may be voted for.  A party *)
(* whose users do what the screen says in a session; what they do alone    *)
(* does not matter.                                                        *)
(***************************************************************************)
AllCareful == Devices \subseteq Careful

\* How often a dinner is among the first n cards.
Times(s, n, x) == Cardinality({i \in DOMAIN s : i <= n /\ s[i] = x})

\* The cards whose swipes have been recorded, or passed over.
Gone(a) == IF a.swiped = Nil THEN a.index ELSE a.swiped.index

Tallied(a) ==
    a.screen # "closed" =>
        /\ \A x \in Dinners : a.localUserYesSwiped[x] <= Times(a.items, Gone(a), x)
        /\ NotStarted(a) => \A x \in Dinners : a.localUserYesSwiped[x] = 0
        /\ NotStarted(a) /\ a.isOn => a.swiped = Nil

AllTallied == \A d \in Devices : Tallied(app[d])

LEMMA TimesFinite ==
    ASSUME NEW s \in Seq(Dinners), NEW n \in Nat, NEW x
    PROVE  /\ IsFiniteSet({i \in DOMAIN s : i <= n /\ s[i] = x})
           /\ Times(s, n, x) \in Nat
           /\ IsFiniteSet({i \in DOMAIN s : s[i] = x})
           /\ Times(s, n, x) <= Cardinality({i \in DOMAIN s : s[i] = x})
           /\ Cardinality({i \in DOMAIN s : s[i] = x}) \in Nat
<1> DEFINE T == {i \in DOMAIN s : i <= n /\ s[i] = x}
           U == {i \in DOMAIN s : s[i] = x}
<1>1. DOMAIN s = 1..Len(s) /\ Len(s) \in Nat
    BY LenProperties
<1>2. IsFiniteSet(1..Len(s))
    BY <1>1, FS_Interval
<1>3. T \subseteq U /\ U \subseteq 1..Len(s)
    BY <1>1
<1> HIDE DEF T, U
<1>4. IsFiniteSet(U) /\ IsFiniteSet(T) /\ Cardinality(T) <= Cardinality(U)
    BY <1>2, <1>3, FS_Subset
<1>5. Cardinality(T) \in Nat /\ Cardinality(U) \in Nat
    BY <1>4, FS_CardinalityType
<1> QED BY <1>4, <1>5 DEF Times, T, U

\* One card more.
LEMMA OneMoreCard ==
    ASSUME NEW s \in Seq(Dinners), NEW i \in Nat, i + 1 <= Len(s), NEW x
    PROVE  /\ Times(s, i, x) <= Times(s, i + 1, x)
           /\ s[i + 1] = x => Times(s, i + 1, x) = Times(s, i, x) + 1
<1> DEFINE T == {k \in DOMAIN s : k <= i /\ s[k] = x}
           U == {k \in DOMAIN s : k <= i + 1 /\ s[k] = x}
<1>1. DOMAIN s = 1..Len(s) /\ Len(s) \in Nat /\ i + 1 \in Nat
    BY LenProperties
<1>2. IsFiniteSet(T) /\ IsFiniteSet(U)
    BY <1>1, TimesFinite
<1>3. T \subseteq U
    BY <1>1
<1>4. s[i + 1] = x => U = T \cup {i + 1}
    BY <1>1
<1>5. i + 1 \notin T
    BY <1>1
<1> HIDE DEF T, U
<1>6. Cardinality(T) <= Cardinality(U)
    BY <1>2, <1>3, FS_Subset
<1>7. Cardinality(T \cup {i + 1}) = Cardinality(T) + 1
    BY <1>2, <1>5, FS_AddElement
<1> QED BY <1>4, <1>6, <1>7 DEF Times, T, U

\* Recording a card counts it once, and only in a session.
LEMMA RecordedTallies ==
    ASSUME NEW a, IsApp(a), a.localUserYesSwiped \in DinnerLists, a.items \in Seq(Dinners),
           NEW i \in Nat, i + 1 <= Len(a.items), NEW right,
           \A x \in Dinners : a.localUserYesSwiped[x] <= Times(a.items, i, x)
    PROVE  LET b == Recorded(a, i, right) IN
           /\ \A x \in Dinners : b.localUserYesSwiped[x] <= Times(a.items, i + 1, x)
           /\ ~a.isOn => b.localUserYesSwiped = a.localUserYesSwiped
<1> DEFINE b == Recorded(a, i, right)
           y == a.items[i + 1]
<1>1. ASSUME NEW x \in Dinners
      PROVE  /\ a.localUserYesSwiped[x] \in Nat
             /\ Times(a.items, i, x) \in Nat /\ Times(a.items, i + 1, x) \in Nat
             /\ Times(a.items, i, x) <= Times(a.items, i + 1, x)
             /\ y = x => Times(a.items, i + 1, x) = Times(a.items, i, x) + 1
    <2>1. i + 1 \in Nat
        OBVIOUS
    <2> QED BY <2>1, TimesFinite, OneMoreCard DEF DinnerLists
<1>2. CASE b.localUserYesSwiped = a.localUserYesSwiped
    BY <1>1, <1>2
<1>3. CASE right /\ a.isOn
    <2>1. b = SaveDinnerIdToLocalStage(a, y)
        BY <1>3 DEF Recorded
    <2>2. \A x \in Dinners :
              \/ b.localUserYesSwiped[x] = a.localUserYesSwiped[x]
              \/ x = y /\ b.localUserYesSwiped[x] = a.localUserYesSwiped[x] + 1
        BY <2>1 DEF SaveDinnerIdToLocalStage, IsApp, AppFields, DinnerLists
    <2> HIDE DEF b, y
    <2>3. ASSUME NEW x \in Dinners
          PROVE  b.localUserYesSwiped[x] <= Times(a.items, i + 1, x)
        <3> DEFINE m == Times(a.items, i, x)
                   n == Times(a.items, i + 1, x)
        <3>1. /\ a.localUserYesSwiped[x] \in Nat /\ m \in Nat /\ n \in Nat /\ m <= n
              /\ y = x => n = m + 1
              /\ a.localUserYesSwiped[x] <= m
            BY <1>1
        <3>2. \/ b.localUserYesSwiped[x] = a.localUserYesSwiped[x]
              \/ x = y /\ b.localUserYesSwiped[x] = a.localUserYesSwiped[x] + 1
            BY <2>2
        <3> HIDE DEF m, n
        <3>3. b.localUserYesSwiped[x] <= n
            BY <3>1, <3>2
        <3> QED BY <3>3 DEF n
    <2> QED BY <1>3, <2>3 DEF b
<1>4. CASE right /\ ~a.isOn
    <2>1. b = AddToWantedDinner(a, y)
        BY <1>4 DEF Recorded
    <2>2. b.localUserYesSwiped = a.localUserYesSwiped
        BY <2>1 DEF AddToWantedDinner, IsApp, AppFields
    <2> QED BY <1>2, <2>2
<1>5. CASE ~right
    <2>1. b = a
        BY <1>5 DEF Recorded
    <2> QED BY <1>2, <2>1
<1> QED BY <1>3, <1>4, <1>5

\* Who swipes with the switch on has been started, if it is careful.
LEMMA SwiperStarted ==
    ASSUME AllCareful, NEW d \in Devices, MaySwipe(d)
    PROVE  /\ app[d].screen = "cards" /\ app[d].visible # <<>> /\ app[d].swiped = Nil
           /\ app[d].isOn => ~NotStarted(app[d])
BY DEF AllCareful, MaySwipe, Settled, IsRunOutOfCards, NotStarted, InLobby

LEMMA SwipeTallied ==
    ASSUME AllCareful, IInv, NEW d \in Devices, Tallied(app[d]), Swipe(d)
    PROVE  Tallied(app'[d])
<1> DEFINE a == app[d]
           b == SwipedAction(a)
<1>1. /\ a.screen = "cards" /\ a.visible # <<>> /\ a.swiped = Nil
      /\ a.isOn => ~NotStarted(a)
    BY SwiperStarted DEF Swipe
<1>2. /\ a \in Apps /\ a \in SoundApps /\ IsApp(a) /\ IsPile(a, Dinners)
      /\ Fits(a.items, a.index, a.visible) /\ a.localUserYesSwiped \in DinnerLists
    BY <1>1, Unchanged, SoundAppFields, AppIsPile DEF SoundApps, Apps
<1>3. PICK right : OnlyApp(d, [b EXCEPT !.swiped = [index |-> a.index, right |-> right,
                                                    card |-> a.visible[1]]])
    BY DEF Swipe
<1>4. /\ a.items \in Seq(Dinners) /\ a.index \in Nat /\ a.index + 1 \in Nat
      /\ a.index + 1 <= Len(a.items)
    <2>1. Len(a.visible) \in Nat \ {0} /\ Len(a.items) \in Nat
        BY <1>1, <1>2, EmptySeq, LenProperties DEF IsPile
    <2> QED BY <1>1, <1>2, <2>1 DEF Fits, IsPile
<1>5. b.index = a.index + 1
    BY <1>2 DEF SwipedAction, IsPile
<1>6. /\ IsApp(b) /\ b.screen = "cards" /\ b.items = a.items
      /\ b.activeGroupId = a.activeGroupId /\ b.isOn = a.isOn
      /\ b.localUserYesSwiped = a.localUserYesSwiped
    BY <1>1, <1>2, SwipedActionFields DEF IsRunOutOfCards, SameMembership
<1>7. /\ \A x \in Dinners : a.localUserYesSwiped[x] <= Times(a.items, a.index, x)
      /\ NotStarted(a) => \A x \in Dinners : a.localUserYesSwiped[x] = 0
    BY <1>1 DEF Tallied, Gone
<1>8. ASSUME NEW x \in Dinners
      PROVE  a.localUserYesSwiped[x] <= Times(a.items, a.index + 1, x)
    <2>1. Times(a.items, a.index, x) <= Times(a.items, a.index + 1, x)
        BY <1>4, OneMoreCard
    <2>2. /\ Times(a.items, a.index, x) \in Nat /\ Times(a.items, a.index + 1, x) \in Nat
          /\ a.localUserYesSwiped[x] \in Nat
        BY <1>2, <1>4, TimesFinite DEF DinnerLists
    <2> HIDE DEF a
    <2> QED BY <1>7, <2>1, <2>2
<1> HIDE DEF a, b
<1> DEFINE s == [index |-> a.index, right |-> right, card |-> a.visible[1]]
           c == [b EXCEPT !.swiped = s]
<1>9. /\ c.screen = "cards" /\ c.items = a.items /\ c.index = a.index + 1
      /\ c.swiped = s /\ c.activeGroupId = a.activeGroupId /\ c.isOn = a.isOn
      /\ c.localUserYesSwiped = a.localUserYesSwiped
    BY <1>5, <1>6 DEF IsApp, AppFields
<1>10. app'[d] = c
    BY <1>3, OnlyAppMoves
<1>11. s.index = a.index
    OBVIOUS
<1> HIDE DEF c, s
<1>12. Gone(c) \in {a.index, a.index + 1}
    BY <1>9, <1>11 DEF Gone
<1>13. NotStarted(c) => NotStarted(a)
    BY <1>1, <1>9 DEF NotStarted, InLobby
<1>14. Tallied(c)
    BY <1>1, <1>7, <1>8, <1>9, <1>12, <1>13 DEF Tallied
<1> QED BY <1>10, <1>14

LEMMA DidSwipeTallied ==
    ASSUME IInv, NEW d \in Devices, Tallied(app[d]), DidSwipe(d)
    PROVE  Tallied(app'[d])
<1> DEFINE a == app[d]
           s == a.swiped
           b == [a EXCEPT !.swiped = Nil]
           c == Recorded(b, s.index, s.right)
<1>1. OnlyApp(d, c) /\ a.swiped # Nil /\ a.screen # "closed"
    BY DEF DidSwipe, Alive, Settled
<1>2. /\ a \in Apps /\ IsApp(a) /\ a.localUserYesSwiped \in DinnerLists
      /\ a.items \in Seq(Dinners) /\ s.index \in Nat /\ s.index + 1 = a.index
      /\ s.index + 1 <= Len(a.items)
    <2>1. /\ a \in Apps /\ a \in SoundApps /\ IsApp(a) /\ IsPile(a, Dinners)
          /\ Fits(a.items, a.index, a.visible) /\ InFlight(a)
        BY <1>1, Unchanged, SoundAppFields, AppIsPile DEF SoundApps
    <2>2. a.localUserYesSwiped \in DinnerLists /\ s \in Swipes /\ a.items \in Seq(Dinners)
        BY <1>1, <2>1 DEF Apps
    <2>3. s.index \in Nat /\ s.index + 1 = a.index /\ a.visible # <<>>
        BY <1>1, <2>1, <2>2 DEF InFlight, Swipes
    <2>4. Len(a.visible) \in Nat \ {0} /\ Len(a.items) \in Nat
        BY <2>1, <2>3, EmptySeq, LenProperties DEF IsPile
    <2> QED BY <2>1, <2>2, <2>3, <2>4 DEF Fits
<1>3. /\ \A x \in Dinners : a.localUserYesSwiped[x] <= Times(a.items, s.index, x)
      /\ NotStarted(a) => ~a.isOn /\ \A x \in Dinners : a.localUserYesSwiped[x] = 0
    BY <1>1 DEF Tallied, Gone
<1>4. /\ IsApp(b) /\ b.screen = a.screen /\ b.items = a.items /\ b.index = a.index
      /\ b.swiped = Nil /\ b.activeGroupId = a.activeGroupId /\ b.isOn = a.isOn
      /\ b.localUserYesSwiped = a.localUserYesSwiped
    BY <1>2 DEF IsApp, AppFields
<1>5. app'[d] = c
    BY <1>1, OnlyAppMoves
<1> HIDE DEF a, b
<1>6. /\ c.screen = b.screen /\ SameCards(b, c)
      /\ c.activeGroupId = b.activeGroupId /\ c.isOn = b.isOn
    BY <1>4, RecordedFields DEF SameMembership
<1>7. /\ \A x \in Dinners : c.localUserYesSwiped[x] <= Times(b.items, s.index + 1, x)
      /\ ~b.isOn => c.localUserYesSwiped = b.localUserYesSwiped
    BY <1>2, <1>3, <1>4, RecordedTallies
<1> HIDE DEF c
<1>8. NotStarted(c) => NotStarted(a)
    BY <1>4, <1>6 DEF NotStarted, InLobby
<1>9. /\ Gone(c) = s.index + 1 /\ c.items = b.items /\ c.swiped = Nil
    BY <1>2, <1>4, <1>6 DEF SameCards, Gone
<1>10. NotStarted(c) => \A x \in Dinners : c.localUserYesSwiped[x] = 0
    BY <1>3, <1>4, <1>7, <1>8
<1>11. Tallied(c)
    BY <1>7, <1>9, <1>10 DEF Tallied
<1> QED BY <1>5, <1>11

LEMMA SwipeLastTallied ==
    ASSUME AllCareful, IInv, NEW d \in Devices, Tallied(app[d]), SwipeLast(d)
    PROVE  Tallied(app'[d])
<1> DEFINE a == app[d]
           c == SwipedAction(a)
<1>1. /\ a.screen = "cards" /\ a.visible # <<>> /\ a.swiped = Nil
      /\ a.isOn => ~NotStarted(a)
    BY SwiperStarted DEF SwipeLast
<1>2. /\ a \in Apps /\ a \in SoundApps /\ IsApp(a) /\ IsPile(a, Dinners)
      /\ Fits(a.items, a.index, a.visible) /\ a.localUserYesSwiped \in DinnerLists
    BY <1>1, Unchanged, SoundAppFields, AppIsPile DEF SoundApps, Apps
<1>3. PICK right :
          LET b == Recorded(c, a.index, right) IN
          /\ IsRunOutOfCards(b)
          /\ RunOutInGroup(d, b) \/ (~a.isOn /\ RunOutAlone(d, b))
    BY DEF SwipeLast
<1>4. /\ a.items \in Seq(Dinners) /\ a.index \in Nat
      /\ a.index + 1 <= Len(a.items)
    <2>1. Len(a.visible) \in Nat \ {0} /\ Len(a.items) \in Nat
        BY <1>1, <1>2, EmptySeq, LenProperties DEF IsPile
    <2> QED BY <1>1, <1>2, <2>1 DEF Fits, IsPile
<1>5. c.index = a.index + 1
    BY <1>2 DEF SwipedAction, IsPile
<1>6. /\ IsApp(c) /\ c.screen = "cards" /\ c.items = a.items /\ c.swiped = Nil
      /\ c.activeGroupId = a.activeGroupId /\ c.isOn = a.isOn
      /\ c.localUserYesSwiped = a.localUserYesSwiped
    BY <1>1, <1>2, SwipedActionFields DEF IsRunOutOfCards, SameMembership
<1>7. /\ \A x \in Dinners : a.localUserYesSwiped[x] <= Times(a.items, a.index, x)
      /\ NotStarted(a) => ~a.isOn /\ \A x \in Dinners : a.localUserYesSwiped[x] = 0
    BY <1>1 DEF Tallied, Gone
<1> HIDE DEF a, c
<1> DEFINE b == Recorded(c, a.index, right)
<1>8. /\ IsApp(b) /\ b.screen = "cards" /\ b.items = a.items /\ b.swiped = Nil
      /\ b.index = a.index + 1
      /\ b.activeGroupId = a.activeGroupId /\ b.isOn = a.isOn
    BY <1>3, <1>5, <1>6, RecordedFields DEF SameMembership, SameCards
<1>9. /\ \A x \in Dinners : b.localUserYesSwiped[x] <= Times(a.items, a.index + 1, x)
      /\ ~a.isOn => b.localUserYesSwiped = a.localUserYesSwiped
    BY <1>2, <1>4, <1>6, <1>7, RecordedTallies
<1>10. RunOutInGroup(d, b) \/ (~a.isOn /\ RunOutAlone(d, b))
    BY <1>3
<1> HIDE DEF b
<1>11. \/ app'[d].screen = "closed"
       \/ /\ SameCards(b, app'[d]) /\ app'[d].activeGroupId = a.activeGroupId
          /\ app'[d].isOn = a.isOn /\ app'[d].screen \in {"cards", "list"}
          /\ app'[d].localUserYesSwiped = b.localUserYesSwiped
    <2>1. CASE OnlyApp(d, Closed(b))
        <3>1. app'[d] = Show(b, "closed")
            BY <2>1, ClosedIsShown, OnlyAppMoves
        <3> QED BY <1>8, <3>1, ShowFields
    <2>2. CASE Become(d, InitiateEventListenerFor(b, "result", b.activeGroupId))
        <3> DEFINE n == InitiateEventListenerFor(b, "result", b.activeGroupId)
        <3>1. app'[d] = n
            BY <2>2 DEF IInv, Become
        <3>2. /\ IsApp(n) /\ n.screen = b.screen
              /\ n.activeEventListener = [role |-> "result", code |-> b.activeGroupId, seen |-> Nil]
              /\ n.leaked = Attached(b)
              /\ SameMembership(b, n) /\ SameCards(b, n)
              /\ n.localUserYesSwiped = b.localUserYesSwiped
            BY <1>8, ListensFields
        <3> HIDE DEF n
        <3> QED BY <1>8, <3>1, <3>2 DEF SameMembership
    <2>3. CASE OnlyApp(d, [Present(b, "list") EXCEPT !.dinnerList = b.wantedDinnersId])
        <3> DEFINE p == Show(b, "list")
                   n == [p EXCEPT !.dinnerList = b.wantedDinnersId]
        <3>1. app'[d] = n
            BY <1>8, <2>3, OnlyAppMoves DEF Present
        <3>2. IsApp(p) /\ p.screen = "list" /\ SamePlay(b, p)
            BY <1>8, ShowFields
        <3> HIDE DEF p
        <3>3. /\ n.screen = p.screen /\ SameCards(p, n) /\ n.activeGroupId = p.activeGroupId
              /\ n.isOn = p.isOn /\ n.localUserYesSwiped = p.localUserYesSwiped
            BY <3>2 DEF IsApp, AppFields, SameCards
        <3> HIDE DEF n
        <3> QED BY <1>8, <3>1, <3>2, <3>3 DEF SamePlay, SameMembership, SameCards
    <2> QED BY <1>10, <2>1, <2>2, <2>3 DEF RunOutInGroup, RunOutAlone
<1> DEFINE e == app'[d]
<1> HIDE DEF e
<1>12. ASSUME e.screen # "closed" PROVE Tallied(e)
    <2>1. /\ SameCards(b, e) /\ e.activeGroupId = a.activeGroupId
          /\ e.isOn = a.isOn /\ e.screen \in {"cards", "list"}
          /\ e.localUserYesSwiped = b.localUserYesSwiped
        BY <1>11, <1>12 DEF e
    <2>2. Gone(e) = a.index + 1 /\ e.items = a.items /\ e.swiped = Nil
        BY <1>8, <2>1 DEF SameCards, Gone
    <2>3. NotStarted(e) => NotStarted(a)
        BY <2>1 DEF NotStarted, InLobby
    <2>4. NotStarted(e) => \A x \in Dinners : e.localUserYesSwiped[x] = 0
        BY <1>7, <1>9, <2>1, <2>3
    <2>5. Gone(e) = a.index + 1 /\ e.localUserYesSwiped = b.localUserYesSwiped
        BY <2>1, <2>2
    <2> QED BY <1>9, <2>2, <2>4, <2>5 DEF Tallied
<1>13. Tallied(e)
    BY <1>12 DEF Tallied
<1> QED BY <1>13 DEF e

\* A step that leaves the swipes alone.
LEMMA SameSwipesTallied ==
    ASSUME NEW d \in Devices, Tallied(app[d]), SameSwipes(app[d], app'[d]),
           app[d].screen = "closed" => app'[d].screen = "closed",
           NotStarted(app'[d]) => NotStarted(app[d]) /\ (app'[d].isOn => app[d].isOn)
    PROVE  Tallied(app'[d])
<1>1. Gone(app'[d]) = Gone(app[d])
    BY DEF Gone, SameSwipes, SameCards
<1> QED BY <1>1 DEF Tallied, SameSwipes, SameCards

LEMMA LaunchedTallied ==
    ASSUME NEW deck \in LocalDecks, NEW n
    PROVE  Tallied(LaunchedApp(deck, n))
<1> DEFINE a == LaunchedApp(deck, n)
<1>1. /\ a.items = deck /\ a.index = 0 /\ a.swiped = Nil
      /\ \A x \in Dinners : a.localUserYesSwiped[x] = 0
    BY DEF LaunchedApp
<1>2. deck \in Seq(Dinners)
    BY DecksAssumption
<1>3. \A x \in Dinners : Times(deck, 0, x) \in Nat
    BY <1>2, TimesFinite
<1> HIDE DEF a
<1>4. Tallied(a)
    BY <1>1, <1>3 DEF Tallied, Gone
<1> QED BY <1>4 DEF a

LEMMA TalliedInit == Init => AllTallied
<1> SUFFICES ASSUME Init, NEW d \in Devices PROVE Tallied(app[d])
    BY DEF AllTallied
<1>1. PICK deck \in LocalDecks : app[d] = LaunchedApp(deck, 0)
    BY DEF Init
<1>2. Tallied(LaunchedApp(deck, 0))
    BY LaunchedTallied
<1> QED BY <1>1, <1>2

LEMMA TalliedStep ==
    ASSUME NobodyLeaves, AllCareful, IInv, Guests, Orderly, AllTallied, Next, IInv'
    PROVE  AllTallied'
<1>1. PICK d \in Devices :
              \/ Idles(d) \/ Crashes(d) \/ SwitchesOn(d) \/ AsksToJoin(d) \/ AsksToCreate(d)
              \/ Joins(d) \/ Creates(d) \/ DealsDeck(d) \/ StartsGroup(d) \/ RunsOut(d)
              \/ Starts(d) \/ LosesRequest(d) \/ Launches(d) \/ Delivers(d)
    BY NextCases, NobodyGoes
<1> DEFINE a == app[d]
           b == app'[d]
<1>2. /\ Tallied(a) /\ InOrder(a, requests[d], outbox[d])
      /\ a \in Apps /\ a \in SoundApps
    BY Unchanged DEF AllTallied, Orderly
<1>3. \A e \in Devices \ {d} : app'[e] = app[e]
    BY <1>1, StepsMove DEF Moves, Delivers
<1>4. SUFFICES Tallied(b)
    BY <1>3 DEF AllTallied
<1>5. CASE Swiping(d)
    BY <1>2, <1>5, SwipeTallied, DidSwipeTallied, SwipeLastTallied DEF Swiping
<1>6. ASSUME SameSwipes(a, b), a.screen = "closed" => b.screen = "closed",
             NotStarted(b) => NotStarted(a) /\ (b.isOn => a.isOn)
      PROVE  Tallied(b)
    BY <1>2, <1>6, SameSwipesTallied
<1>7. ASSUME b = a PROVE Tallied(b)
    BY <1>2, <1>7
<1>8. CASE Idles(d)
    <2>1. /\ SameSwipes(a, b) \/ Swiping(d)
          /\ a.screen = "closed" => b.screen = "closed"
          /\ NotStarted(b) => NotStarted(a) /\ (b.isOn => a.isOn)
        BY <1>8 DEF Idles, SameMembership, NotStarted, InLobby
    <2> QED BY <1>5, <1>6, <2>1
<1>9. CASE Crashes(d)
    BY <1>9 DEF Crashes, Tallied
<1>10. CASE SwitchesOn(d)
    <2>1. /\ SameSwipes(a, b) /\ a.swiped = Nil /\ a.screen # "closed"
          /\ NotStarted(b) => NotStarted(a)
        BY <1>10 DEF SwitchesOn, SameSwipes, NotStarted, InLobby
    <2>2. Gone(b) = Gone(a) /\ b.swiped = Nil
        BY <2>1 DEF Gone, SameSwipes, SameCards
    <2> QED BY <1>2, <2>1, <2>2 DEF Tallied, SameSwipes, SameCards
<1>11. CASE AsksToJoin(d) \/ AsksToCreate(d)
    <2>1. /\ SameSwipes(a, b) /\ a.screen \in {"code", "connect"}
          /\ NotStarted(b) => NotStarted(a) /\ (b.isOn => a.isOn)
        BY <1>11 DEF AsksToJoin, AsksToCreate, Asks, SameSwipes, NotStarted, InLobby
    <2> QED BY <1>6, <2>1
<1>12. CASE Joins(d) \/ Creates(d)
    <2>1. PICK r \in requests[d] :
              /\ r.kind \in {"create", "join"} /\ Alive(d) /\ Answers(d, r)
              /\ b = a \/ SameSwipes(a, b)
        BY <1>12 DEF Joins, Creates, Answers, SameSwipes
    <2>2. NotStarted(a) /\ a.isOn
        BY <1>2, <2>1, AnsweredOutside DEF NotStarted
    <2> QED BY <1>6, <1>7, <2>1, <2>2 DEF Alive
<1>13. CASE DealsDeck(d)
    <2>1. /\ a.screen = "settings" /\ b.swiped = Nil
          /\ b.localUserYesSwiped = a.localUserYesSwiped
          /\ b.index = 0 /\ b.items \in Seq(Dinners)
        BY <1>13, DecksAssumption DEF DealsDeck, FreshDeck
    <2>2. \A x \in Dinners : b.localUserYesSwiped[x] = 0
        BY <1>2, <2>1 DEF Tallied, NotStarted, InLobby
    <2>3. \A x \in Dinners : Times(b.items, Gone(b), x) \in Nat
        <3>1. Gone(b) = 0 /\ 0 \in Nat
            BY <2>1 DEF Gone
        <3> HIDE DEF b
        <3> QED BY <2>1, <3>1, TimesFinite
    <2> QED BY <2>1, <2>2, <2>3 DEF Tallied
<1>14. CASE StartsGroup(d)
    <2>1. \/ b = a
          \/ /\ SameSwipes(a, b) /\ b.screen = a.screen /\ b.activeGroupId = a.activeGroupId
             /\ b.isOn = a.isOn
        BY <1>14 DEF StartsGroup, SameSwipes
    <2> QED BY <1>6, <1>7, <2>1 DEF NotStarted, InLobby
<1>15. CASE RunsOut(d)
    BY <1>5, <1>15 DEF RunsOut
<1>16. CASE Starts(d)
    <2>1. /\ Hears(a, "wait") /\ a.screen # "closed" /\ b.screen = "cards"
          /\ b.swiped = a.swiped /\ b.localUserYesSwiped = a.localUserYesSwiped
          /\ SameMembership(a, b)
        BY <1>16 DEF Starts, Hears
    <2>2. a.screen = "waiting" /\ a.isInOnlineSession
        BY <1>2, <2>1 DEF InOrder, WaitingForHost
    <2>3. a.activeGroupId # Nil /\ a.isOn
        BY <1>2, <2>2 DEF InOrder, OutsideGroup, InsideGroup
    <2>4. a.swiped = Nil /\ \A x \in Dinners : b.localUserYesSwiped[x] = 0
        BY <1>2, <2>1, <2>2, <2>3 DEF Tallied, NotStarted
    <2>5. \A x \in Dinners : Times(b.items, b.index, x) \in Nat
        <3>1. b \in Apps
            BY DEF IInv, SoundApps
        <3>2. b.items \in Seq(Dinners) /\ b.index \in Nat
            BY <3>1 DEF Apps
        <3> QED BY <3>2, TimesFinite
    <2>6. ~NotStarted(b)
        BY <2>1, <2>3 DEF NotStarted, InLobby, SameMembership
    <2> QED BY <2>1, <2>4, <2>5, <2>6 DEF Tallied, Gone
<1>17. CASE LosesRequest(d)
    <2>1. \/ b = a
          \/ /\ SameSwipes(a, b) /\ b.screen = a.screen /\ b.activeGroupId = a.activeGroupId
             /\ b.isOn => a.isOn
        BY <1>17 DEF LosesRequest, SameSwipes
    <2> QED BY <1>6, <1>7, <2>1 DEF NotStarted, InLobby
<1>18. CASE Launches(d)
    <2>1. PICK deck \in LocalDecks : b = LaunchedApp(deck, a.session)
        BY <1>18 DEF Launches
    <2> QED BY <2>1, LaunchedTallied
<1>19. CASE Delivers(d)
    BY <1>7, <1>19 DEF Delivers
<1> QED BY <1>1, <1>8, <1>9, <1>10, <1>11, <1>12, <1>13, <1>14, <1>15, <1>16, <1>17, <1>18, <1>19

-----------------------------------------------------------------------------
(***************************************************************************)
(* Which ballots are under way for a group.                                *)
(***************************************************************************)
CastIn(g, L) == \A u \in Voters(g) : <<u, g.accepted[u]>> \in L

BringsOnly(w, c, L) ==
    w.code = c => /\ w.op = "vote" => <<w.user, w.list>> \in L
                  /\ w.op = "set" => CastIn(w.group, L)

AllBring(q, c, L) == \A i \in DOMAIN q : BringsOnly(q[i], c, L)

\* Only ballots of L, pairs of a user and a list, are in group c, or on their way
\* to it.
OnlyBallots(c, L) ==
    /\ groups[c] # Nil => CastIn(groups[c], L)
    /\ \A d \in Devices : AllBring(outbox[d], c, L)

LEMMA ViewCastIn ==
    ASSUME IInv, NEW d \in Devices, NEW c \in Codes, NEW L, OnlyBallots(c, L), View(d, c) # Nil
    PROVE  CastIn(View(d, c), L)
<1> DEFINE q == outbox[d]
           b == BaseDocument(groups[c], q, c)
           v == LocalView(groups[c], q, c)
<1>1. q \in Seq(Writes) /\ groups[c] \in Groups \cup {Nil} /\ v # Nil /\ v = View(d, c)
    BY OutboxTypes DEF View
<1>2. /\ v = Nil <=> b = Nil
      /\ b # Nil => v.accepted = [u \in UserIds |->
                                     IF PendingVotes(q, c, u) = {} THEN b.accepted[u]
                                     ELSE q[Latest(PendingVotes(q, c, u))].list]
    BY <1>1, SeenFields
<1>3. \/ b = groups[c]
      \/ \E i \in PendingSets(q, c) : b = q[i].group
    BY <1>1, BaseIs
<1>4. \A i \in DOMAIN q : BringsOnly(q[i], c, L)
    BY DEF OnlyBallots, AllBring
<1> HIDE DEF b, v
<1>5. CastIn(b, L)
    <2>1. CASE b = groups[c]
        BY <1>1, <1>2, <2>1 DEF OnlyBallots
    <2>2. ASSUME NEW i \in PendingSets(q, c), b = q[i].group PROVE CastIn(b, L)
        <3>1. i \in DOMAIN q /\ q[i].code = c /\ q[i].op = "set"
            BY DEF PendingSets
        <3> QED BY <1>4, <2>2, <3>1 DEF BringsOnly
    <2> QED BY <1>3, <2>1, <2>2
<1>6. ASSUME NEW u \in Voters(v) PROVE <<u, v.accepted[u]>> \in L
    <2>1. /\ u \in UserIds /\ v.accepted[u] # Nil
          /\ v.accepted[u] = IF PendingVotes(q, c, u) = {} THEN b.accepted[u]
                             ELSE q[Latest(PendingVotes(q, c, u))].list
        BY <1>1, <1>2 DEF Voters
    <2>2. CASE PendingVotes(q, c, u) = {}
        <3>1. u \in Voters(b)
            BY <2>1, <2>2 DEF Voters
        <3> QED BY <1>5, <2>1, <2>2, <3>1 DEF CastIn
    <2>3. CASE PendingVotes(q, c, u) # {}
        <3> DEFINE i == Latest(PendingVotes(q, c, u))
        <3>1. DOMAIN q = 1..Len(q) /\ Len(q) \in Nat
            BY <1>1, LenProperties
        <3>2. PendingVotes(q, c, u) \subseteq 1..Len(q)
            BY <3>1 DEF PendingVotes, Pending
        <3>3. i \in PendingVotes(q, c, u)
            BY <2>3, <3>1, <3>2, LatestIsThere
        <3>4. i \in DOMAIN q /\ q[i].code = c /\ q[i].op = "vote" /\ q[i].user = u
            BY <3>3 DEF PendingVotes, Pending
        <3>5. <<u, q[i].list>> \in L
            BY <1>4, <3>4 DEF BringsOnly
        <3> QED BY <2>1, <2>3, <3>5
    <2> QED BY <2>2, <2>3
<1> QED BY <1>1, <1>6 DEF CastIn

LEMMA AppliedCastIn ==
    ASSUME NEW g \in Groups \cup {Nil}, NEW w \in Writes, NEW L,
           g # Nil => CastIn(g, L), BringsOnly(w, w.code, L), ApplyWrite(g, w) # Nil
    PROVE  CastIn(ApplyWrite(g, w), L)
<1>1. CASE w.op = "set"
    BY <1>1, Replaced DEF BringsOnly
<1>2. CASE w.op # "set"
    <2>1. g # Nil
        BY <1>2, UpdatedNil
    <2>2. g \in Groups /\ g.accepted \in [UserIds -> DinnerLists \cup {Nil}]
        BY <2>1 DEF Groups
    <2>3. CASE w.op = "vote"
        <3> DEFINE h == [g EXCEPT !.accepted[w.user] = w.list]
        <3>1. ApplyWrite(g, w) = h
            BY <2>1, <2>3 DEF ApplyWrite
        <3>2. h.accepted = [g.accepted EXCEPT ![w.user] = w.list]
            BY <2>2 DEF Groups
        <3>3. <<w.user, w.list>> \in L
            BY <2>3 DEF BringsOnly
        <3> HIDE DEF h
        <3>4. ASSUME NEW u \in Voters(h) PROVE <<u, h.accepted[u]>> \in L
            <4>1. u \in UserIds /\ h.accepted[u] # Nil
                BY DEF Voters
            <4>2. h.accepted[u] = IF u = w.user THEN w.list ELSE g.accepted[u]
                BY <2>2, <3>2, <4>1
            <4>3. u # w.user => u \in Voters(g)
                BY <4>1, <4>2 DEF Voters
            <4> QED BY <2>1, <3>3, <4>2, <4>3 DEF CastIn
        <3> QED BY <3>1, <3>4 DEF CastIn
    <2>4. CASE w.op # "vote"
        <3>1. w.op \in {"join", "ready"}
            BY <1>2, <2>4 DEF Writes
        <3>2. ApplyWrite(g, w).accepted = g.accepted
            BY <2>1, <2>2, <3>1 DEF ApplyWrite, Groups
        <3> HIDE DEF ApplyWrite
        <3> QED BY <2>1, <3>2 DEF CastIn, Voters
    <2> QED BY <2>3, <2>4
<1> QED BY <1>1, <1>2

LEMMA AddedBrings ==
    ASSUME NEW q \in Seq(Writes), NEW w \in Writes, NEW c, NEW L,
           AllBring(q, c, L), BringsOnly(w, c, L)
    PROVE  AllBring(q \o <<w>>, c, L)
<1> DEFINE s == q \o <<w>>
           n == Len(q)
<1>1. /\ n \in Nat /\ DOMAIN q = 1..n /\ DOMAIN s = 1..(n + 1)
      /\ \A i \in 1..n : s[i] = q[i]
      /\ s[n + 1] = w
    BY AddedWrite
<1> HIDE DEF s, n
<1>2. \A i \in 1..(n + 1) : i \in 1..n \/ i = n + 1
    BY <1>1
<1>3. AllBring(s, c, L)
    BY <1>1, <1>2 DEF AllBring
<1> QED BY <1>3 DEF s

\* A step adds no ballot but the one of a device that runs out of cards.
LEMMA BallotsStep ==
    ASSUME IInv, Guests, NEW d \in Devices,
           \/ Idles(d) \/ Crashes(d) \/ SwitchesOn(d) \/ AsksToJoin(d) \/ AsksToCreate(d)
           \/ Joins(d) \/ Creates(d) \/ DealsDeck(d) \/ StartsGroup(d) \/ RunsOut(d)
           \/ Starts(d) \/ LosesRequest(d) \/ Launches(d) \/ Delivers(d),
           NEW c \in Codes, NEW L, OnlyBallots(c, L),
           RunsOut(d) /\ app[d].groupId = c
               => <<app[d].uniqueUserId, app'[d].localUserYesSwiped>> \in L
    PROVE  OnlyBallots(c, L)'
<1> DEFINE q == outbox[d]
           s == outbox'[d]
<1>1. /\ q \in Seq(Writes) /\ groups[c] \in Groups \cup {Nil}
      /\ groups[c] # Nil => CastIn(groups[c], L)
      /\ \A e \in Devices : AllBring(outbox[e], c, L)
    BY OutboxTypes DEF OnlyBallots
<1>2. ASSUME groups'[c] = groups[c], Moves(d), AllBring(s, c, L) PROVE OnlyBallots(c, L)'
    BY <1>1, <1>2 DEF OnlyBallots, Moves
<1>3. CASE \/ Idles(d) \/ Crashes(d) \/ SwitchesOn(d) \/ AsksToJoin(d) \/ AsksToCreate(d)
           \/ DealsDeck(d) \/ Starts(d) \/ LosesRequest(d) \/ Launches(d)
    <2>1. s \in {q, <<>>}
        BY <1>3, QueueChanges
    <2>2. AllBring(s, c, L)
        BY <1>1, <2>1 DEF AllBring
    <2> QED BY <1>2, <1>3, <2>2, StepsMove
<1>4. CASE Joins(d)
    <2>1. PICK w : \/ s = q
                   \/ w \in Writes /\ w.op = "join" /\ s = q \o <<w>>
        <3>1. PICK r \in requests[d] :
                  /\ r.code \in Codes
                  /\ \/ s = q
                     \/ s = q \o <<AddOneParticipant(r.code, ParticipantsIn(View(d, r.code)))>>
            BY <1>4 DEF Joins
        <3>2. LET w == AddOneParticipant(r.code, ParticipantsIn(View(d, r.code))) IN
              w \in Writes /\ w.op = "join"
            BY <3>1, SentWrites DEF AddOneParticipant
        <3> QED BY <3>1, <3>2
    <2>2. w.op = "join" => BringsOnly(w, c, L)
        BY DEF BringsOnly
    <2>3. AllBring(s, c, L)
        BY <1>1, <2>1, <2>2, AddedBrings
    <2> QED BY <1>2, <1>4, <2>3, StepsMove
<1>5. CASE Creates(d)
    <2>1. \/ s = q
          \/ \E k \in Codes : s = q \o <<SetData(k, NewGroup)>>
        BY <1>5 DEF Creates
    <2>2. ASSUME NEW k \in Codes
          PROVE  SetData(k, NewGroup) \in Writes /\ BringsOnly(SetData(k, NewGroup), c, L)
        <3>1. SetData(k, NewGroup) \in Writes /\ SetData(k, NewGroup).op = "set"
              /\ SetData(k, NewGroup).group = NewGroup
            BY SentWrites DEF SetData
        <3>2. Voters(NewGroup) = {}
            BY DEF Voters, NewGroup
        <3> HIDE DEF NewGroup
        <3> QED BY <3>1, <3>2 DEF BringsOnly, CastIn
    <2>3. AllBring(s, c, L)
        BY <1>1, <2>1, <2>2, AddedBrings
    <2> QED BY <1>2, <1>5, <2>3, StepsMove
<1>6. CASE StartsGroup(d)
    <2>1. PICK r \in requests[d] :
              /\ r.code \in Codes /\ r.deck \in HostDecks
              /\ \/ s = q
                 \/ /\ View(d, r.code) # Nil
                    /\ s = q \o <<SetData(r.code, StartedGroup(View(d, r.code), r.deck))>>
        BY <1>6 DEF StartsGroup
    <2> DEFINE g == View(d, r.code)
               h == StartedGroup(g, r.deck)
               w == SetData(r.code, h)
    <2>2. w.op = "set" /\ w.group = h /\ w.code = r.code
        BY DEF SetData
    <2>3. ASSUME g # Nil PROVE w \in Writes /\ BringsOnly(w, c, L)
        <3>1. w \in Writes /\ g \in Groups
            BY <2>1, <2>3, SentWrites, OutboxTypes
        <3>2. h.accepted = g.accepted
            <4> HIDE DEF g
            <4> QED BY <3>1 DEF StartedGroup, Groups
        <3>3. r.code = c => CastIn(g, L)
            BY <2>3, ViewCastIn
        <3> HIDE DEF w, h, g
        <3> QED BY <2>2, <3>1, <3>2, <3>3 DEF BringsOnly, CastIn, Voters
    <2>4. AllBring(s, c, L)
        <3>1. s = q \/ (g # Nil /\ s = q \o <<w>>)
            BY <2>1
        <3> HIDE DEF w, g, q, s
        <3> QED BY <1>1, <2>3, <3>1, AddedBrings DEF q
    <2> QED BY <1>2, <1>6, <2>4, StepsMove
<1>7. CASE RunsOut(d)
    <2> DEFINE v == AddDinnerIdsToFirebase(app[d].groupId, app[d].uniqueUserId,
                                           app'[d].localUserYesSwiped)
               w == MarkThisUserAsReady(app[d].activeGroupId,
                                        ReadyIn(View(d, app[d].activeGroupId)))
    <2>1. s = q \o <<v, w>> /\ v \in Writes /\ w \in Writes
        BY <1>7, SentWrites DEF RunsOut
    <2>2. BringsOnly(v, c, L) /\ BringsOnly(w, c, L)
        BY <1>7 DEF BringsOnly, AddDinnerIdsToFirebase, MarkThisUserAsReady
    <2> HIDE DEF v, w
    <2>3. s = (q \o <<v>>) \o <<w>>
        <3> HIDE DEF q, s
        <3>0. q \in Seq(Writes) /\ v \in Writes /\ w \in Writes
            BY <1>1, <2>1
        <3>1. q \o <<v, w>> = (q \o <<v>>) \o <<w>>
            BY ONLY <3>0, TwoAdded
        <3> QED BY <2>1, <3>1
    <2>4. q \o <<v>> \in Seq(Writes)
        BY <1>1, <2>1, AddedWrite
    <2>5. AllBring(q \o <<v>>, c, L)
        BY <1>1, <2>1, <2>2, AddedBrings
    <2>6. AllBring(s, c, L)
        BY <2>1, <2>2, <2>3, <2>4, <2>5, AddedBrings
    <2> QED BY <1>2, <1>7, <2>6, StepsMove
<1>8. CASE Delivers(d)
    <2> DEFINE w == Head(q)
    <2>1. /\ q # <<>> /\ s = Tail(q) /\ w \in Writes
          /\ \A e \in Devices \ {d} : outbox'[e] = outbox[e]
          /\ groups'[c] = IF w.code = c THEN ApplyWrite(groups[c], w) ELSE groups[c]
        BY <1>8 DEF Delivers
    <2>2. /\ Len(q) \in Nat \ {0} /\ DOMAIN q = 1..Len(q)
          /\ DOMAIN Tail(q) = 1..(Len(q) - 1)
          /\ \A i \in 1..(Len(q) - 1) : Tail(q)[i] = q[i + 1] /\ i + 1 \in 1..Len(q)
          /\ w = q[1] /\ 1 \in 1..Len(q)
        BY <1>1, <2>1, TakenWrite
    <2>3. BringsOnly(w, c, L) /\ AllBring(s, c, L)
        BY <1>1, <2>1, <2>2 DEF AllBring
    <2> HIDE DEF w
    <2>4. groups'[c] # Nil => CastIn(groups'[c], L)
        <3>1. CASE w.code = c
            BY <1>1, <2>1, <2>3, <3>1, AppliedCastIn
        <3>2. CASE w.code # c
            BY <1>1, <2>1, <3>2
        <3> QED BY <3>1, <3>2
    <2> QED BY <1>1, <2>1, <2>3, <2>4 DEF OnlyBallots
<1> QED BY <1>3, <1>4, <1>5, <1>6, <1>7, <1>8

-----------------------------------------------------------------------------
(***************************************************************************)
(* Where the decks of the running groups come from.                        *)
(***************************************************************************)
RunningSets(q, c) == {i \in PendingSets(q, c) : q[i].group.swipingSessionRunning}

\* A started group in a queue was there before, or its start has just been
\* answered.
LEMMA SetOrigin ==
    ASSUME IInv, Guests, NEW d \in Devices,
           \/ Idles(d) \/ Crashes(d) \/ SwitchesOn(d) \/ AsksToJoin(d) \/ AsksToCreate(d)
           \/ Joins(d) \/ Creates(d) \/ DealsDeck(d) \/ StartsGroup(d) \/ RunsOut(d)
           \/ Starts(d) \/ LosesRequest(d) \/ Launches(d) \/ Delivers(d),
           NEW c \in Codes, NEW i \in RunningSets(outbox'[d], c)
    PROVE  \/ \E k \in RunningSets(outbox[d], c) : outbox'[d][i] = outbox[d][k]
           \/ /\ StartsGroup(d) /\ app'[d].isInOnlineSession
              /\ \E r \in requests[d] :
                    /\ r.kind = "start" /\ r.code = c
                    /\ outbox'[d][i].group.dinnerIdsForCardView = r.deck
<1> DEFINE q == outbox[d]
           s == outbox'[d]
           n == Len(q) + 1
<1>1. q \in Seq(Writes) /\ i \in PendingSets(s, c) /\ s[i].group.swipingSessionRunning
    BY OutboxTypes DEF RunningSets
<1>2. ASSUME NEW k \in PendingSets(q, c), s[i] = q[k]
      PROVE  \E j \in RunningSets(q, c) : s[i] = q[j]
    BY <1>1, <1>2 DEF RunningSets
<1>3. ASSUME NEW w \in Writes, w.op = "set", s = q \o <<w>>
      PROVE  \/ i \in PendingSets(q, c) /\ s[i] = q[i]
             \/ s[i] = w /\ w.code = c
    <2>1. /\ Len(q) \in Nat /\ DOMAIN q = 1..Len(q)
          /\ \A j \in 1..Len(q) : (q \o <<w>>)[j] = q[j]
          /\ (q \o <<w>>)[Len(q) + 1] = w
        BY <1>1, AddedWrite
    <2>2. PendingSets(q \o <<w>>, c)
              = IF w.code = c /\ w.op = "set" THEN PendingSets(q, c) \cup {n}
                ELSE PendingSets(q, c)
        BY <1>1, PendingAdded
    <2>3. \A j \in PendingSets(q, c) : j \in 1..Len(q)
        BY <2>1 DEF PendingSets
    <2> QED BY <1>1, <1>3, <2>1, <2>2, <2>3
<1>4. CASE \/ Idles(d) \/ Crashes(d) \/ SwitchesOn(d) \/ AsksToJoin(d) \/ AsksToCreate(d)
           \/ DealsDeck(d) \/ Starts(d) \/ LosesRequest(d) \/ Launches(d)
    <2>1. s \in {q, <<>>}
        BY <1>4, QueueChanges
    <2> QED BY <1>1, <1>2, <2>1, NoSetsInEmpty
<1>5. CASE Joins(d) \/ RunsOut(d)
    <2>1. PendingSets(s, c) = PendingSets(q, c) /\ \A j \in DOMAIN q : s[j] = q[j]
        BY <1>5, SmallWrites
    <2>2. i \in PendingSets(q, c) /\ i \in DOMAIN q
        BY <1>1, <2>1 DEF PendingSets
    <2> QED BY <1>2, <2>1, <2>2
<1>6. CASE Creates(d)
    <2>1. PICK k \in Codes : s = q \/ s = q \o <<SetData(k, NewGroup)>>
        BY <1>6 DEF Creates
    <2> DEFINE w == SetData(k, NewGroup)
    <2>2. w \in Writes /\ w.op = "set" /\ ~w.group.swipingSessionRunning
        BY SentWrites DEF SetData, NewGroup
    <2>3. s = q \/ s = q \o <<w>>
        BY <2>1
    <2> HIDE DEF w
    <2>4. i \in PendingSets(q, c) /\ s[i] = q[i]
        BY <1>1, <1>3, <2>2, <2>3
    <2> QED BY <1>2, <2>4
<1>7. CASE StartsGroup(d)
    <2>1. PICK r \in requests[d] :
              /\ r.kind = "start" /\ r.code \in Codes /\ r.deck \in HostDecks
              /\ \/ s = q
                 \/ /\ View(d, r.code) # Nil /\ app'[d].isInOnlineSession
                    /\ s = q \o <<SetData(r.code, StartedGroup(View(d, r.code), r.deck))>>
        BY <1>7 DEF StartsGroup
    <2>2. CASE s = q
        BY <1>1, <1>2, <2>2
    <2>3. CASE s # q
        <3> DEFINE g == View(d, r.code)
                   w == SetData(r.code, StartedGroup(g, r.deck))
        <3>1. s = q \o <<w>> /\ g # Nil /\ app'[d].isInOnlineSession
            BY <2>1, <2>3
        <3>2. g \in Groups /\ w \in Writes
            BY <2>1, <3>1, SentWrites, OutboxTypes
        <3> HIDE DEF g
        <3>3. w.op = "set" /\ w.code = r.code /\ w.group.dinnerIdsForCardView = r.deck
            BY <3>2 DEF SetData, StartedGroup, Groups
        <3> HIDE DEF w
        <3>4. \/ i \in PendingSets(q, c) /\ s[i] = q[i]
              \/ s[i] = w /\ w.code = c
            BY <1>3, <3>1, <3>2, <3>3
        <3> QED BY <1>2, <1>7, <2>1, <3>1, <3>3, <3>4
    <2> QED BY <2>2, <2>3
<1>8. CASE Delivers(d)
    <2>1. q # <<>> /\ s = Tail(q)
        BY <1>8 DEF Delivers
    <2>2. i + 1 \in PendingSets(q, c) /\ s[i] = q[i + 1]
        BY <1>1, <2>1, PendingTaken
    <2> QED BY <1>2, <2>2
<1> QED BY <1>4, <1>5, <1>6, <1>7, <1>8

\* A started group on the server was there before, or has just been delivered.
LEMMA ServerOrigin ==
    ASSUME IInv, NEW d \in Devices, Delivers(d), NEW c \in Codes, Running(c)'
    PROVE  \/ Running(c) /\ groups'[c].dinnerIdsForCardView = groups[c].dinnerIdsForCardView
           \/ \E k \in RunningSets(outbox[d], c) : groups'[c] = outbox[d][k].group
<1> DEFINE q == outbox[d]
           w == Head(q)
<1>1. /\ q # <<>> /\ w \in Writes
      /\ groups'[c] = IF w.code = c THEN ApplyWrite(groups[c], w) ELSE groups[c]
    BY DEF Delivers
<1>2. q \in Seq(Writes) /\ groups[c] \in Groups \cup {Nil}
    BY OutboxTypes
<1>3. w = q[1] /\ 1 \in 1..Len(q) /\ DOMAIN q = 1..Len(q)
    BY <1>1, <1>2, TakenWrite
<1> HIDE DEF w
<1>4. CASE w.code = c /\ w.op = "set"
    <2>1. groups'[c] = w.group /\ groups'[c].swipingSessionRunning
        BY <1>1, <1>4, Replaced DEF Running
    <2>2. 1 \in RunningSets(q, c)
        BY <1>3, <1>4, <2>1 DEF RunningSets, PendingSets
    <2> QED BY <1>3, <2>1, <2>2
<1>5. CASE w.code = c /\ w.op # "set"
    BY <1>1, <1>2, <1>5, Updated, UpdatedNil DEF Running
<1>6. CASE w.code # c
    BY <1>1, <1>6 DEF Running
<1> QED BY <1>4, <1>5, <1>6

\* The host has entered its group and has not started it.
Waits(a, c) == a.activeGroupId = c /\ ~a.isInOnlineSession

Unstarted(d, c) ==
    Waits(app[d], c) => ~Running(c) /\ RunningSets(outbox[d], c) = {}

AllUnstarted == \A d \in Devices, c \in Codes : Unstarted(d, c)

LEMMA UnstartedInit == Init => AllUnstarted
<1> SUFFICES ASSUME Init, NEW d \in Devices, NEW c \in Codes PROVE ~Waits(app[d], c)
    BY DEF AllUnstarted, Unstarted
<1>1. app[d].activeGroupId = Nil
    BY DEF Init, LaunchedApp
<1> QED BY <1>1, NilAssumption DEF Waits

LEMMA ToWait ==
    ASSUME IInv, NEW d \in Devices, NEW c \in Codes,
           \/ Idles(d) \/ Crashes(d) \/ SwitchesOn(d) \/ AsksToJoin(d) \/ AsksToCreate(d)
           \/ Joins(d) \/ Creates(d) \/ DealsDeck(d) \/ StartsGroup(d) \/ RunsOut(d)
           \/ Starts(d) \/ LosesRequest(d) \/ Launches(d),
           Waits(app'[d], c)
    PROVE  \/ Waits(app[d], c)
           \/ Creates(d) /\ View(d, c) = Nil
<1> DEFINE a == app[d]
           b == app'[d]
<1>1. ASSUME b.activeGroupId = a.activeGroupId, b.isInOnlineSession = a.isInOnlineSession
      PROVE  Waits(a, c)
    BY <1>1 DEF Waits
<1>2. CASE Idles(d) \/ Crashes(d) \/ SwitchesOn(d) \/ RunsOut(d) \/ Starts(d)
    <2>1. b.activeGroupId = a.activeGroupId /\ b.isInOnlineSession = a.isInOnlineSession
        BY <1>2 DEF Idles, Crashes, SwitchesOn, RunsOut, Starts, SameMembership
    <2> QED BY <1>1, <2>1
<1>3. CASE AsksToJoin(d) \/ AsksToCreate(d)
    BY <1>1, <1>3 DEF AsksToJoin, AsksToCreate, Asks
<1>4. CASE Joins(d)
    <2>1. b = a \/ b.isInOnlineSession
        BY <1>4 DEF Joins
    <2> QED BY <1>1, <2>1 DEF Waits
<1>5. CASE Creates(d)
    <2>1. \/ b.activeGroupId = a.activeGroupId /\ b.isInOnlineSession = a.isInOnlineSession
          \/ \E k \in Codes : View(d, k) = Nil /\ b.activeGroupId = k
        BY <1>5 DEF Creates
    <2> QED BY <1>1, <1>5, <2>1 DEF Waits
<1>6. CASE DealsDeck(d)
    BY <1>1, <1>6 DEF DealsDeck, SameMembership
<1>7. CASE StartsGroup(d)
    <2>1. b = a \/ b.isInOnlineSession
        BY <1>7 DEF StartsGroup
    <2> QED BY <1>1, <2>1 DEF Waits
<1>8. CASE LosesRequest(d)
    <2>1. b.activeGroupId = a.activeGroupId /\ b.isInOnlineSession = a.isInOnlineSession
        BY <1>8 DEF LosesRequest
    <2> QED BY <1>1, <2>1
<1>9. CASE Launches(d)
    <2>1. b.activeGroupId = Nil
        BY <1>9 DEF Launches, LaunchedApp
    <2> QED BY <2>1, NilAssumption DEF Waits
<1> QED BY <1>2, <1>3, <1>4, <1>5, <1>6, <1>7, <1>8, <1>9

LEMMA UnstartedStep ==
    ASSUME OneHost, NobodyLeaves, IInv, Guests, Orderly, AllUnstarted, Next
    PROVE  AllUnstarted'
<1>1. PICK d \in Devices :
              \/ Idles(d) \/ Crashes(d) \/ SwitchesOn(d) \/ AsksToJoin(d) \/ AsksToCreate(d)
              \/ Joins(d) \/ Creates(d) \/ DealsDeck(d) \/ StartsGroup(d) \/ RunsOut(d)
              \/ Starts(d) \/ LosesRequest(d) \/ Launches(d) \/ Delivers(d)
    BY NextCases, NobodyGoes
<1> SUFFICES ASSUME NEW e \in Devices, NEW c \in Codes, Waits(app'[e], c)
             PROVE  ~Running(c)' /\ RunningSets(outbox'[e], c) = {}
    BY DEF AllUnstarted, Unstarted
<1>2. Waits(app[e], c) => ~Running(c) /\ RunningSets(outbox[e], c) = {}
    BY DEF AllUnstarted, Unstarted
<1>3. CASE Delivers(d)
    <2>1. /\ app' = app /\ outbox[d] # <<>> /\ outbox'[d] = Tail(outbox[d])
          /\ \A x \in Devices \ {d} : outbox'[x] = outbox[x]
        BY <1>3 DEF Delivers
    <2>2. ~Running(c) /\ RunningSets(outbox[e], c) = {} /\ Waits(app[e], c)
        BY <1>2, <2>1
    <2>3. RunningSets(outbox'[e], c) = {}
        <3>1. CASE e = d
            <4>1. \A i \in RunningSets(outbox'[d], c) : RunningSets(outbox[d], c) # {}
                BY <1>3, SetOrigin DEF Delivers, StartsGroup, Answers
            <4> QED BY <2>2, <3>1, <4>1
        <3>2. CASE e # d
            BY <2>1, <2>2, <3>2
        <3> QED BY <3>1, <3>2
    <2>4. RunningSets(outbox[d], c) = {}
        <3>1. CASE e = d
            BY <2>2, <3>1
        <3>2. CASE e # d
            <4>1. c # Nil
                BY NilAssumption
            <4>2. e \in Hosts
                BY <2>2, <4>1 DEF Orderly, Waits
            <4>3. NoSets(outbox[d])
                BY <3>2, <4>2 DEF OneHost, Guests, Guest
            <4> QED BY <4>3 DEF NoSets, RunningSets, PendingSets
        <3> QED BY <3>1, <3>2
    <2>5. ~Running(c)'
        BY <1>3, <2>2, <2>4, ServerOrigin
    <2> QED BY <2>3, <2>5
<1>4. CASE ~Delivers(d)
    <2>1. Moves(d) /\ groups' = groups
        BY <1>1, <1>4, StepsMove
    <2>2. CASE e # d
        BY <1>2, <2>1, <2>2 DEF Moves, Running
    <2>3. CASE e = d
        <3>1. Waits(app[d], c) \/ (Creates(d) /\ View(d, c) = Nil)
            BY <1>1, <1>4, <2>3, ToWait
        <3>2. ~Running(c) /\ RunningSets(outbox[d], c) = {}
            <4>1. CASE Waits(app[d], c)
                BY <1>2, <2>3, <4>1
            <4>2. CASE View(d, c) = Nil
                BY <4>2, UnseenIsNew DEF Running, RunningSets
            <4> QED BY <3>1, <4>1, <4>2
        <3>3. ~app'[d].isInOnlineSession
            BY <2>3 DEF Waits
        <3>4. RunningSets(outbox'[d], c) = {}
            BY <1>1, <3>2, <3>3, SetOrigin
        <3> QED BY <2>1, <2>3, <3>2, <3>4 DEF Running
    <2> QED BY <2>2, <2>3
<1> QED BY <1>3, <1>4

\* Nobody votes in a group before its host has left the lobby.
LobbyEmpty ==
    \A d \in Devices, c \in Codes :
        InLobby(app[d]) /\ app[d].activeGroupId = c => OnlyBallots(c, {})

LEMMA LobbyEmptyInit == Init => LobbyEmpty
BY DEF Init, LaunchedApp, LobbyEmpty, InLobby

LEMMA ToLobby ==
    ASSUME IInv, Orderly, NEW d \in Devices, NEW c \in Codes,
           \/ Idles(d) \/ Crashes(d) \/ SwitchesOn(d) \/ AsksToJoin(d) \/ AsksToCreate(d)
           \/ Joins(d) \/ Creates(d) \/ DealsDeck(d) \/ StartsGroup(d) \/ RunsOut(d)
           \/ Starts(d) \/ LosesRequest(d) \/ Launches(d),
           InLobby(app'[d]), app'[d].activeGroupId = c
    PROVE  \/ InLobby(app[d]) /\ app[d].activeGroupId = c
           \/ Creates(d) /\ View(d, c) = Nil /\ outbox'[d] = outbox[d] \o <<SetData(c, NewGroup)>>
<1> DEFINE a == app[d]
           b == app'[d]
           R == requests[d]
<1>1. InOrder(a, R, outbox[d])
    BY DEF Orderly
<1>2. CASE Idles(d) \/ Crashes(d) \/ SwitchesOn(d) \/ RunsOut(d) \/ Starts(d)
    <2>1. \/ b.screen = a.screen /\ b.activeGroupId = a.activeGroupId
          \/ a.screen = "lobby" /\ b.activeGroupId = a.activeGroupId
          \/ b.screen \in {"code", "list", "frozen", "closed", "connect", "cards"}
        BY <1>2 DEF Idles, Crashes, SwitchesOn, RunsOut, Starts, SameMembership
    <2> QED BY <2>1 DEF InLobby
<1>3. CASE AsksToJoin(d) \/ AsksToCreate(d)
    BY <1>3 DEF AsksToJoin, AsksToCreate, Asks, InLobby
<1>4. CASE Joins(d)
    <2>1. PICK r \in R : /\ Answers(d, r) /\ r.kind = "join"
                         /\ b = a \/ b.screen \in {a.screen, "waiting"}
        BY <1>4 DEF Joins
    <2>2. a.screen = "cards"
        BY <1>1, <2>1, AnsweredOutside
    <2> QED BY <2>1, <2>2 DEF InLobby
<1>5. CASE Creates(d)
    <2>1. PICK r \in R : Answers(d, r) /\ r.kind = "create"
        BY <1>5 DEF Creates
    <2>2. a.screen = "cards"
        BY <1>1, <2>1, AnsweredOutside
    <2> QED BY <1>5, <2>2 DEF Creates, InLobby
<1>6. CASE DealsDeck(d)
    BY <1>6 DEF DealsDeck, InLobby
<1>7. CASE StartsGroup(d) \/ LosesRequest(d)
    <2>1. b.screen = a.screen /\ b.activeGroupId = a.activeGroupId
        BY <1>7 DEF StartsGroup, LosesRequest
    <2> QED BY <2>1 DEF InLobby
<1>8. CASE Launches(d)
    BY <1>8 DEF Launches, LaunchedApp, InLobby
<1> QED BY <1>2, <1>3, <1>4, <1>5, <1>6, <1>7, <1>8

\* Whoever votes in a group has been started; its group has no host in the
\* lobby.
LEMMA GuestRunsOut ==
    ASSUME IInv, PartyInv, NEW d \in Devices \ Hosts, RunsOut(d), NEW c \in Codes,
           app[d].groupId = c
    PROVE  /\ Running(c) /\ app[d].items = groups[c].dinnerIdsForCardView
           /\ app[d].activeGroupId = c
<1> DEFINE a == app[d]
<1>1. /\ a.screen = "cards" /\ a.activeGroupId \in Codes
    BY DEF RunsOut
<1>2. a.activeGroupId # Nil
    BY <1>1, NilAssumption
<1>3. a.activeGroupId = c /\ a.isInOnlineSession
    BY <1>2 DEF PartyInv, Orderly, InOrder, InsideGroup
<1>4. Plays(a, c)
    BY <1>1, <1>3 DEF Plays
<1>5. PendingSets(outbox[d], c) = {}
    BY DEF PartyInv, Guests, Guest, NoSets, PendingSets
<1> QED BY <1>3, <1>4, <1>5 DEF PartyInv, AllPlayTheDeck, PlaysTheDeck, StartedOn, Running

LEMMA NothingCast ==
    ASSUME OneHost, IInv, PartyInv, NEW d \in Devices, Creates(d), NEW c \in Codes,
           View(d, c) = Nil, outbox'[d] = outbox[d] \o <<SetData(c, NewGroup)>>
    PROVE  OnlyBallots(c, {})'
<1> DEFINE w == SetData(c, NewGroup)
<1>1. Guests /\ Orderly /\ GuestsVote
    BY DEF PartyInv
<1>2. groups[c] = Nil
    BY UnseenIsNew
<1>3. Moves(d) /\ groups' = groups
    BY StepsMove
<1>4. PICK r \in requests[d] : Answers(d, r) /\ r.kind = "create"
    BY DEF Creates
<1>5. outbox[d] = <<>>
    BY <1>1, <1>4, AnsweredOutside DEF Orderly
<1>6. d \in Hosts
    BY <1>1, <1>4 DEF Guests, Guest
<1>7. AllBring(outbox'[d], c, {})
    <2>1. w \in Writes /\ w.op = "set" /\ w.group = NewGroup
        BY SentWrites DEF SetData
    <2>2. Voters(NewGroup) = {}
        BY DEF Voters, NewGroup
    <2> HIDE DEF NewGroup, w
    <2>3. BringsOnly(w, c, {})
        BY <2>1, <2>2 DEF BringsOnly, CastIn
    <2>4. outbox[d] \in Seq(Writes) /\ AllBring(outbox[d], c, {})
        BY <1>5, OutboxTypes DEF AllBring
    <2>5. AllBring(outbox[d] \o <<w>>, c, {})
        BY <2>1, <2>3, <2>4, AddedBrings
    <2> QED BY <2>5 DEF w
<1>8. ASSUME NEW e \in Devices \ {d} PROVE AllBring(outbox'[e], c, {})
    <2>1. outbox'[e] = outbox[e]
        BY <1>3, <1>8 DEF Moves
    <2>2. e \notin Hosts
        BY <1>6, <1>8 DEF OneHost
    <2>3. /\ NoSets(outbox[e])
          /\ \A i \in DOMAIN outbox[e] : outbox[e][i].op = "vote" => Running(outbox[e][i].code)
        BY <1>1, <2>2 DEF Guests, Guest, GuestsVote, GuestVotes
    <2>4. ~Running(c)
        BY <1>2 DEF Running
    <2> QED BY <2>1, <2>3, <2>4 DEF AllBring, BringsOnly, NoSets
<1> QED BY <1>2, <1>3, <1>7, <1>8 DEF OnlyBallots

LEMMA LobbyEmptyStep ==
    ASSUME OneHost, NobodyLeaves, IInv, PartyInv, LobbyEmpty, Next
    PROVE  LobbyEmpty'
<1>0. Guests /\ Orderly /\ AllStartedOnce
    BY DEF PartyInv
<1>1. PICK d \in Devices :
              \/ Idles(d) \/ Crashes(d) \/ SwitchesOn(d) \/ AsksToJoin(d) \/ AsksToCreate(d)
              \/ Joins(d) \/ Creates(d) \/ DealsDeck(d) \/ StartsGroup(d) \/ RunsOut(d)
              \/ Starts(d) \/ LosesRequest(d) \/ Launches(d) \/ Delivers(d)
    BY <1>0, NextCases, NobodyGoes
<1> SUFFICES ASSUME NEW e \in Devices, NEW c \in Codes,
                    InLobby(app'[e]), app'[e].activeGroupId = c
             PROVE  OnlyBallots(c, {})'
    BY DEF LobbyEmpty
<1>2. \/ InLobby(app[e]) /\ app[e].activeGroupId = c
      \/ /\ e = d /\ Creates(d) /\ View(d, c) = Nil
         /\ outbox'[d] = outbox[d] \o <<SetData(c, NewGroup)>>
    <2>1. CASE Delivers(d)
        BY <2>1 DEF Delivers
    <2>2. CASE ~Delivers(d) /\ e # d
        BY <1>1, <2>2, StepsMove DEF Moves
    <2>3. CASE ~Delivers(d) /\ e = d
        BY <1>0, <1>1, <2>3, ToLobby
    <2> QED BY <2>1, <2>2, <2>3
<1>3. CASE InLobby(app[e]) /\ app[e].activeGroupId = c
    <2>1. OnlyBallots(c, {})
        BY <1>3 DEF LobbyEmpty
    <2>2. ASSUME RunsOut(d), app[d].groupId = c PROVE FALSE
        <3>1. d # e
            BY <1>3, <2>2 DEF RunsOut, InLobby
        <3>2. e \in Hosts
            BY <1>0, <1>3 DEF Guests, Guest
        <3>3. d \notin Hosts
            BY <3>1, <3>2 DEF OneHost
        <3>4. Running(c)
            BY <2>2, <3>3, GuestRunsOut
        <3> QED BY <1>0, <1>3, <3>4 DEF AllStartedOnce, StartedOnce, HasToStart
    <2>3. RunsOut(d) /\ app[d].groupId = c => app'[d].localUserYesSwiped \in {}
        BY <2>2
    <2> QED BY <1>0, <1>1, <2>1, <2>3, BallotsStep
<1>4. CASE /\ Creates(d) /\ View(d, c) = Nil
           /\ outbox'[d] = outbox[d] \o <<SetData(c, NewGroup)>>
    BY <1>4, NothingCast
<1> QED BY <1>2, <1>3, <1>4

\* The decks that group c is played with, or is about to be.
IsDeck(c, deck) ==
    \/ Running(c) /\ deck = groups[c].dinnerIdsForCardView
    \/ \E d \in Devices : \E i \in RunningSets(outbox[d], c) :
          deck = outbox[d][i].group.dinnerIdsForCardView
    \/ \E d \in Devices : \E r \in requests[d] :
          r.kind = "start" /\ r.code = c /\ deck = r.deck

\* The ballots with every dinner at most as often as the deck has it.
Fitting(deck) ==
    {p \in UserIds \X DinnerLists :
        \A x \in Dinners : p[2][x] <= Cardinality({i \in DOMAIN deck : deck[i] = x})}

BallotsFit ==
    \A c \in Codes : \A deck : IsDeck(c, deck) => OnlyBallots(c, Fitting(deck))

LEMMA FewerBallots ==
    ASSUME NEW c, NEW K, NEW L, K \subseteq L, OnlyBallots(c, K)
    PROVE  OnlyBallots(c, L)
<1>1. \A g : CastIn(g, K) => CastIn(g, L)
    BY DEF CastIn
<1>2. \A w : BringsOnly(w, c, K) => BringsOnly(w, c, L)
    BY <1>1 DEF BringsOnly
<1> QED BY <1>1, <1>2 DEF OnlyBallots, AllBring

LEMMA BallotsFitInit == Init => BallotsFit
<1> SUFFICES ASSUME Init, NEW c \in Codes, NEW L PROVE OnlyBallots(c, L)
    BY DEF BallotsFit
<1>1. \A d \in Devices : AllBring(outbox[d], c, L)
    BY DEF Init, AllBring
<1>2. ASSUME groups[c] # Nil PROVE Voters(groups[c]) = {}
    <2>1. PICK deck : groups[c] = OldGroup(deck)
        BY <1>2 DEF Init
    <2> QED BY <2>1 DEF OldGroup, NewGroup, Voters
<1> QED BY <1>1, <1>2 DEF OnlyBallots, CastIn

\* A deck comes into play when the host leaves the settings.
LEMMA DeckOrigin ==
    ASSUME IInv, Guests, NEW d \in Devices,
           \/ Idles(d) \/ Crashes(d) \/ SwitchesOn(d) \/ AsksToJoin(d) \/ AsksToCreate(d)
           \/ Joins(d) \/ Creates(d) \/ DealsDeck(d) \/ StartsGroup(d) \/ RunsOut(d)
           \/ Starts(d) \/ LosesRequest(d) \/ Launches(d) \/ Delivers(d),
           NEW c \in Codes, NEW deck, IsDeck(c, deck)'
    PROVE  \/ IsDeck(c, deck)
           \/ DealsDeck(d) /\ app[d].activeGroupId = c
<1>1. \A e \in Devices \ {d} : outbox'[e] = outbox[e] /\ requests'[e] = requests[e]
    BY StepsMove DEF Moves, Delivers
<1>2. ASSUME NEW e \in Devices, NEW i \in RunningSets(outbox'[e], c),
             deck = outbox'[e][i].group.dinnerIdsForCardView
      PROVE  IsDeck(c, deck)
    <2>1. CASE e = d
        <3>1. \/ \E k \in RunningSets(outbox[d], c) : outbox'[d][i] = outbox[d][k]
              \/ \E r \in requests[d] :
                    /\ r.kind = "start" /\ r.code = c
                    /\ outbox'[d][i].group.dinnerIdsForCardView = r.deck
            BY <1>2, <2>1, SetOrigin
        <3> QED BY <1>2, <2>1, <3>1 DEF IsDeck
    <2>2. CASE e # d
        BY <1>1, <1>2, <2>2 DEF IsDeck
    <2> QED BY <2>1, <2>2
<1>3. ASSUME NEW e \in Devices, NEW r \in requests'[e],
             r.kind = "start", r.code = c, deck = r.deck
      PROVE  IsDeck(c, deck) \/ (DealsDeck(d) /\ app[d].activeGroupId = c)
    <2>1. CASE r \in requests[e]
        BY <1>3, <2>1 DEF IsDeck
    <2>2. CASE r \notin requests[e]
        <3>1. e = d
            BY <1>1, <2>2
        <3>2. CASE DealsDeck(d)
            <4>1. r.code = app[d].activeGroupId
                BY <2>2, <3>1, <3>2 DEF DealsDeck
            <4> QED BY <1>3, <3>2, <4>1
        <3>3. CASE AsksToJoin(d) \/ AsksToCreate(d)
            <4>1. (\E k : r = [kind |-> "join", code |-> k]) \/ r = [kind |-> "create"]
                BY <2>2, <3>1, <3>3 DEF AsksToJoin, AsksToCreate, Asks
            <4>2. r.kind # "start"
                BY <4>1
            <4> QED BY <1>3, <4>2
        <3>4. CASE ~(DealsDeck(d) \/ AsksToJoin(d) \/ AsksToCreate(d))
            <4>1. requests'[d] \subseteq requests[d]
                BY <3>4 DEF Idles, Crashes, SwitchesOn, Joins, Creates, StartsGroup, RunsOut,
                            Starts, LosesRequest, Launches, Delivers, MovesAlone, Answers
            <4> QED BY <2>2, <3>1, <4>1
        <3> QED BY <3>2, <3>3, <3>4
    <2> QED BY <2>1, <2>2
<1>4. ASSUME Running(c)', deck = groups'[c].dinnerIdsForCardView PROVE IsDeck(c, deck)
    <2>1. CASE Delivers(d)
        BY <1>4, <2>1, ServerOrigin DEF IsDeck
    <2>2. CASE ~Delivers(d)
        <3>1. groups' = groups
            BY <2>2, StepsMove
        <3> QED BY <1>4, <3>1 DEF IsDeck, Running
    <2> QED BY <2>1, <2>2
<1> QED BY <1>2, <1>3, <1>4 DEF IsDeck

\* Who has played to the end has played the only deck of its group.
LEMMA PlayedDeck ==
    ASSUME OneHost, IInv, PartyInv, AllUnstarted, NEW d \in Devices, RunsOut(d),
           NEW c \in Codes, app[d].groupId = c, NEW deck, IsDeck(c, deck)
    PROVE  deck = app[d].items
<1> DEFINE a == app[d]
<1>0. Guests /\ Orderly /\ AllStartedOnce /\ AllPlayTheDeck
    BY DEF PartyInv
<1>1. /\ a.screen = "cards" /\ a.activeGroupId \in Codes /\ InOrder(a, requests[d], outbox[d])
    BY <1>0 DEF RunsOut, Orderly
<1>2. a.activeGroupId = c
    BY <1>1, NilAssumption DEF InOrder, InsideGroup
<1>3. ASSUME Running(c) PROVE deck = groups[c].dinnerIdsForCardView
    <2>1. \A e \in Devices : PendingSets(outbox[e], c) = {} /\ ~HasToStart(app[e], requests[e], c)
        BY <1>0, <1>3 DEF AllStartedOnce, StartedOnce
    <2> QED BY <2>1 DEF IsDeck, RunningSets, HasToStart
<1>4. ASSUME d \in Hosts, ~Running(c)
      PROVE  \/ \E i \in RunningSets(outbox[d], c) : deck = outbox[d][i].group.dinnerIdsForCardView
             \/ \E r \in requests[d] : r.kind = "start" /\ r.code = c /\ deck = r.deck
    <2>1. ASSUME NEW e \in Devices, e # d
          PROVE  RunningSets(outbox[e], c) = {} /\ \A r \in requests[e] : r.kind # "start"
        <3>1. Guest(app[e], requests[e], outbox[e])
            BY <1>0, <1>4, <2>1 DEF OneHost, Guests
        <3> QED BY <3>1 DEF Guest, NoSets, RunningSets, PendingSets
    <2> QED BY <1>4, <2>1 DEF IsDeck
<1>5. CASE a.isInOnlineSession
    <2>1. \/ groups[c] # Nil /\ StartedOn(groups[c], a)
          \/ \E i \in PendingSets(outbox[d], c) : StartedOn(outbox[d][i].group, a)
        BY <1>0, <1>1, <1>2, <1>5 DEF Plays, AllPlayTheDeck, PlaysTheDeck
    <2>2. CASE groups[c] # Nil /\ StartedOn(groups[c], a)
        BY <1>3, <2>2 DEF StartedOn, Running
    <2>3. CASE \E i \in PendingSets(outbox[d], c) : StartedOn(outbox[d][i].group, a)
        <3>1. PICK i \in PendingSets(outbox[d], c) : StartedOn(outbox[d][i].group, a)
            BY <2>3
        <3>2. d \in Hosts
            BY <1>0, <3>1 DEF Guests, Guest, NoSets, PendingSets
        <3>3. StartedOnce(d, c)
            BY <1>0 DEF AllStartedOnce
        <3>4. ~Running(c)
            BY <3>1, <3>3 DEF StartedOnce
        <3>5. /\ \A j \in PendingSets(outbox[d], c) : j <= i
              /\ ~HasToStart(a, requests[d], c)
            BY <3>1, <3>3 DEF StartedOnce, StartedOn
        <3>6. PICK k \in RunningSets(outbox[d], c) :
                  deck = outbox[d][k].group.dinnerIdsForCardView
            BY <1>4, <3>2, <3>4, <3>5 DEF HasToStart
        <3>7. /\ k \in PendingSets(outbox[d], c) /\ i <= k /\ k <= i
            BY <3>1, <3>3, <3>5, <3>6 DEF StartedOnce, RunningSets
        <3>8. i \in Nat /\ k \in Nat
            BY <3>1, <3>7, PendingIndex, OutboxTypes
        <3>9. k = i
            BY <3>7, <3>8
        <3> QED BY <3>1, <3>6, <3>9 DEF StartedOn
    <2> QED BY <2>1, <2>2, <2>3
<1>6. CASE ~a.isInOnlineSession
    <2>1. d \in Hosts
        BY <1>0, <1>1, <1>6, NilAssumption DEF Orderly
    <2>2. ~Running(c) /\ RunningSets(outbox[d], c) = {}
        BY <1>2, <1>6 DEF AllUnstarted, Unstarted, Waits
    <2>3. PICK r \in requests[d] : r.kind = "start" /\ deck = r.deck
        BY <1>4, <2>1, <2>2
    <2> QED BY <1>1, <2>3 DEF InOrder, HostedGroup
<1> QED BY <1>5, <1>6

AreApps == \A d \in Devices : app[d] \in Apps

LEMMA AppsAreTyped == IInv => AreApps
BY Unchanged DEF AreApps

\* Who runs out of cards casts each dinner at most as often as it was dealt.
LEMMA CastFits ==
    ASSUME IInv, IInv', AllTallied', NEW d \in Devices, RunsOut(d)
    PROVE  <<app[d].uniqueUserId, app'[d].localUserYesSwiped>> \in Fitting(app[d].items)
<1> DEFINE b == app'[d]
           l == b.localUserYesSwiped
           s == b.items
           n == Gone(b)
<1>1. b \in Apps
    <2>1. AreApps'
        BY AppsAreTyped, PTL
    <2> QED BY <2>1 DEF AreApps
<1>2. s \in Seq(Dinners) /\ n \in Nat /\ l \in DinnerLists
    BY <1>1 DEF Apps, Swipes, Gone
<1>3. b.screen = "cards" /\ s = app[d].items
    BY DEF RunsOut
<1>4. \A x \in Dinners : l[x] <= Times(s, n, x)
    BY <1>3 DEF AllTallied, Tallied
<1> HIDE DEF b, l, s, n
<1>5. ASSUME NEW x \in Dinners
      PROVE  l[x] <= Cardinality({i \in DOMAIN s : s[i] = x})
    <2> DEFINE t == Times(s, n, x)
               u == Cardinality({i \in DOMAIN s : s[i] = x})
    <2>1. t \in Nat /\ u \in Nat /\ t <= u
        BY <1>2, TimesFinite
    <2>2. l[x] \in Nat /\ l[x] <= t
        BY <1>2, <1>4 DEF DinnerLists
    <2> HIDE DEF t, u
    <2>3. l[x] <= u
        BY <2>1, <2>2
    <2> QED BY <2>3 DEF u
<1>6. app[d].uniqueUserId \in UserIds
    BY DEF RunsOut
<1>7. <<app[d].uniqueUserId, l>> \in Fitting(s)
    BY <1>2, <1>5, <1>6 DEF Fitting
<1> QED BY <1>3, <1>7 DEF l, b

LEMMA BallotsFitStep ==
    ASSUME OneHost, NobodyLeaves, IInv, PartyInv, AllUnstarted, LobbyEmpty, BallotsFit, Next,
           IInv', AllTallied'
    PROVE  BallotsFit'
<1>0. Guests /\ Orderly
    BY DEF PartyInv
<1>1. PICK d \in Devices :
              \/ Idles(d) \/ Crashes(d) \/ SwitchesOn(d) \/ AsksToJoin(d) \/ AsksToCreate(d)
              \/ Joins(d) \/ Creates(d) \/ DealsDeck(d) \/ StartsGroup(d) \/ RunsOut(d)
              \/ Starts(d) \/ LosesRequest(d) \/ Launches(d) \/ Delivers(d)
    BY <1>0, NextCases, NobodyGoes
<1>2. ASSUME NEW c \in Codes, NEW deck, IsDeck(c, deck)'
      PROVE  OnlyBallots(c, Fitting(deck))'
    <2>1. \/ IsDeck(c, deck)
          \/ DealsDeck(d) /\ app[d].activeGroupId = c
        BY <1>0, <1>1, <1>2, DeckOrigin
    <2>2. OnlyBallots(c, Fitting(deck))
        <3>1. CASE IsDeck(c, deck)
            BY <3>1 DEF BallotsFit
        <3>2. CASE DealsDeck(d) /\ app[d].activeGroupId = c
            <4>1. OnlyBallots(c, {})
                BY <3>2 DEF LobbyEmpty, DealsDeck, InLobby
            <4> QED BY <4>1, FewerBallots
        <3> QED BY <2>1, <3>1, <3>2
    <2>3. ASSUME RunsOut(d), app[d].groupId = c
          PROVE  <<app[d].uniqueUserId, app'[d].localUserYesSwiped>> \in Fitting(deck)
        <3>1. ~DealsDeck(d)
            BY <2>3 DEF RunsOut, DealsDeck
        <3>2. deck = app[d].items
            BY <2>1, <2>3, <3>1, PlayedDeck
        <3> QED BY <2>3, <3>2, CastFits
    <2>4. Fitting(deck)' = Fitting(deck)
        BY DEF Fitting
    <2> QED BY <1>0, <1>1, <2>2, <2>3, BallotsStep
<1> QED BY <1>2 DEF BallotsFit

-----------------------------------------------------------------------------
DecksInv == AllTallied /\ AllUnstarted /\ LobbyEmpty /\ BallotsFit

LEMMA DecksInit == Init => DecksInv
BY TalliedInit, UnstartedInit, LobbyEmptyInit, BallotsFitInit DEF DecksInv

LEMMA DecksNext ==
    ASSUME OneHost, NobodyLeaves, AllCareful, IInv, PartyInv, DecksInv, [Next]_vars, IInv'
    PROVE  DecksInv'
<1>1. Guests /\ Orderly
    BY DEF PartyInv
<1>2. CASE Next
    <2>1. AllTallied'
        BY <1>1, <1>2, TalliedStep DEF DecksInv
    <2>2. AllUnstarted' /\ LobbyEmpty'
        BY <1>1, <1>2, UnstartedStep, LobbyEmptyStep DEF DecksInv
    <2>3. BallotsFit'
        BY <1>2, <2>1, BallotsFitStep DEF DecksInv
    <2> QED BY <2>1, <2>2, <2>3 DEF DecksInv
<1>3. CASE UNCHANGED vars
    <2>1. groups' = groups /\ outbox' = outbox /\ requests' = requests /\ app' = app
        BY <1>3 DEF vars
    <2>2. AllTallied' /\ AllUnstarted' /\ LobbyEmpty'
        BY <2>1 DEF DecksInv, AllTallied, AllUnstarted, Unstarted, LobbyEmpty, Running, OnlyBallots
    <2>3. ASSUME NEW c \in Codes, NEW deck, IsDeck(c, deck)'
          PROVE  OnlyBallots(c, Fitting(deck))'
        <3>1. IsDeck(c, deck)
            BY <2>1, <2>3 DEF IsDeck, Running
        <3>2. OnlyBallots(c, Fitting(deck))
            BY <3>1 DEF DecksInv, BallotsFit
        <3> QED BY <2>1, <3>2 DEF OnlyBallots
    <2>4. BallotsFit'
        BY <2>3 DEF BallotsFit
    <2> QED BY <2>2, <2>4 DEF DecksInv
<1> QED BY <1>2, <1>3

LEMMA DecksVotesFit ==
    ASSUME IInv, DecksInv
    PROVE  VotesFitTheDeck
<1> SUFFICES ASSUME NEW c \in Codes \ OldCodes,
                    groups[c] # Nil, groups[c].swipingSessionRunning,
                    NEW u \in Voters(groups[c]), NEW x \in Dinners
             PROVE  groups[c].accepted[u][x] <= TimesDealt(groups[c], x)
    BY DEF VotesFitTheDeck
<1> DEFINE deck == groups[c].dinnerIdsForCardView
<1>1. IsDeck(c, deck)
    BY DEF IsDeck, Running
<1> HIDE DEF deck
<1>2. CastIn(groups[c], Fitting(deck))
    BY <1>1 DEF DecksInv, BallotsFit, OnlyBallots
<1>3. <<u, groups[c].accepted[u]>> \in Fitting(deck)
    BY <1>2 DEF CastIn
<1> QED BY <1>3 DEF Fitting, TimesDealt, deck

\* A running group has only votes for the cards of its own deck, each dinner
\* at most as often as it was dealt, in a party with one host whom nobody
\* deserts and that swipes only once its session runs: the swipes of an
\* earlier session, or of the pile that was there before the session, never
\* get into a vote (localUserYesSwiped of CardViewController).  What an app
\* has recorded fits the cards that are gone from its pile, a host that waits
\* in its lobby has no votes in its group, and a group has only one deck.
THEOREM BallotsFitTheDeck ==
    ASSUME OneHost, NobodyLeaves, AllCareful
    PROVE  Spec => []VotesFitTheDeck
<1>1. IInv /\ PartyInv /\ [Next]_vars => PartyInv'
    BY PartyNext
<1>2. IInv /\ PartyInv /\ DecksInv /\ [Next]_vars /\ IInv' /\ PartyInv' => DecksInv'
    BY DecksNext
<1>3. IInv /\ DecksInv => VotesFitTheDeck
    BY DecksVotesFit
<1> QED BY PartyInit, DecksInit, <1>1, <1>2, <1>3, Invariance, PTL DEF Spec

-----------------------------------------------------------------------------
(***************************************************************************)
(* Heads are counted in a party that is complete before its host starts:   *)
(* one host, nobody leaves, everybody is careful, no app is killed, and    *)
(* the party that the host waits for is everybody there is.                *)
(***************************************************************************)
NobodyIsKilled == MaxKills = 0

WholeParty == PartySize = Cardinality(Devices)

\* Who is in a group has the app open, and is in its only session.
Attends(a) ==
    /\ a.activeGroupId # Nil => a.screen # "closed"
    /\ a.session = IF a.activeGroupId = Nil THEN 0 ELSE 1

AllAttend == \A d \in Devices : Attends(app[d])

LEMMA AttendInit == Init => AllAttend
BY DEF Init, AllAttend, Attends, LaunchedApp

\* Why an app may go down.
LEMMA WhoCloses ==
    ASSUME IInv, Next, NEW d \in Devices, app[d].screen # "closed", app'[d].screen = "closed"
    PROVE  CreatePressed(d) \/ SwipeLast(d) \/ WaitSnapshot(d) \/ Killed(d)
<1>1. PICK e \in Devices : \/ Switching(e) \/ Joining(e) \/ Hosting(e) \/ Swiping(e)
                           \/ Snapshot(e) \/ Listing(e) \/ Environment(e)
    BY DEF Next
<1>2. ASSUME \/ Idles(e) \/ SwitchesOn(e) \/ AsksToJoin(e) \/ Joins(e) \/ Creates(e)
             \/ DealsDeck(e) \/ StartsGroup(e) \/ LosesRequest(e) \/ Launches(e)
             \/ Delivers(e) \/ Leaves(e) \/ SignsOff(e)
      PROVE  FALSE
    <2>1. Moves(e) \/ Delivers(e)
        BY <1>2, StepsMove
    <2>2. e = d /\ ~Delivers(e)
        BY <2>1 DEF Moves, Delivers
    <2>3. ~Idles(d) /\ ~SwitchesOn(d) /\ ~DealsDeck(d) /\ ~Leaves(d)
        BY DEF Idles, SwitchesOn, DealsDeck, Leaves
    <2>4. ~AsksToJoin(d) /\ ~Launches(d) /\ ~SignsOff(d)
        BY DEF AsksToJoin, Asks, Launches, LaunchedApp, SignsOff
    <2>5. ~Joins(d) /\ ~Creates(d)
        BY DEF Joins, Creates
    <2>6. ~StartsGroup(d) /\ ~LosesRequest(d)
        BY DEF StartsGroup, LosesRequest
    <2> QED BY <1>2, <2>2, <2>3, <2>4, <2>5, <2>6
<1>3. ASSUME NEW a, OnlyApp(e, a) \/ Become(e, a)
      PROVE  e = d
    BY <1>3 DEF IInv, OnlyApp, Become
<1>4. CASE Switching(e)
    <2>1. CreatePressed(e)
        BY <1>2, <1>4, SwitchedOnEffect, JoinPressedIdles, CodeEnteredEffect, LeavingEffects
           DEF Switching
    <2>2. e = d
        BY <1>3, <2>1 DEF CreatePressed
    <2> QED BY <2>1, <2>2
<1>5. CASE Joining(e)
    BY <1>2, <1>5, JoinAnsweredEffect, LeavingEffects DEF Joining
<1>6. CASE Hosting(e)
    BY <1>2, <1>6, CreateAnsweredEffect, StartPressedIdles, StartSessionPressedEffect,
       StartAnsweredEffect, LeavingEffects DEF Hosting
<1>7. CASE Swiping(e)
    <2>1. SwipeLast(e)
        BY <1>2, <1>7, SwipeIdles, DidSwipeIdles DEF Swiping
    <2>2. Moves(e)
        BY <2>1, SwipeLastEffect, StepsMove
    <2> QED BY <2>1, <2>2 DEF Moves
<1>8. CASE Snapshot(e)
    <2>1. WaitSnapshot(e)
        BY <1>2, <1>8, LobbySnapshotIdles, ResultSnapshotIdles DEF Snapshot
    <2>2. Moves(e)
        BY <2>1, WaitSnapshotEffect, StepsMove DEF Starts, MovesAlone
    <2> QED BY <2>1, <2>2 DEF Moves
<1>9. CASE Listing(e)
    BY <1>2, <1>9, LeavingEffects DEF Listing
<1>10. CASE Environment(e)
    <2>1. Killed(e)
        BY <1>2, <1>10, WriteReachesServerEffect, RequestFailsEffect, LaunchEffect DEF Environment
    <2>2. e = d
        BY <1>3, <2>1 DEF Killed
    <2> QED BY <2>1, <2>2
<1> QED BY <1>1, <1>4, <1>5, <1>6, <1>7, <1>8, <1>9, <1>10

LEMMA NobodyKills ==
    ASSUME NobodyIsKilled, IInv, NEW d \in Devices
    PROVE  ~Killed(d)
<1>1. kills \in 0..0
    BY DEF IInv, NobodyIsKilled
<1> QED BY <1>1 DEF Killed, NobodyIsKilled

\* A group does not crash: Create is pressed outside of it, whoever runs out of
\* cards has all that a vote needs, and who waits has no card to draw again.
LEMMA OpenStep ==
    ASSUME NobodyIsKilled, EverybodyIsCareful, NobodyLeaves, IInv, PartyInv, AllDrawn, AllSynced, AllAttend,
           Next, NEW d \in Devices, app[d].activeGroupId # Nil, app[d].screen # "closed"
    PROVE  app'[d].screen # "closed"
<1> SUFFICES ASSUME app'[d].screen = "closed" PROVE FALSE
    OBVIOUS
<1> DEFINE a == app[d]
<1>1. CreatePressed(d) \/ SwipeLast(d) \/ WaitSnapshot(d)
    BY WhoCloses, NobodyKills
<1>2. /\ InsideGroup(a, requests[d]) /\ WaitingForHost(a, outbox[d])
      /\ a.groupId = a.activeGroupId /\ a.isOn /\ ~AsksToEnter(a)
    BY DEF PartyInv, Orderly, InOrder, InsideGroup
<1>3. ~CreatePressed(d)
    BY <1>2 DEF CreatePressed, AsksToEnter
<1>4. CASE SwipeLast(d)
    <2>1. /\ a.screen = "cards" /\ a.visible # <<>> /\ a.swiped = Nil
        BY <1>4, CarefulSwipe DEF SwipeLast
    <2>2. PICK right : RunOutInGroup(d, Recorded(SwipedAction(a), a.index, right))
        BY <1>2, <1>4 DEF SwipeLast
    <2>3. /\ IsApp(SwipedAction(a)) /\ SameMembership(a, SwipedAction(a))
          /\ SwipedAction(a).screen = "cards"
        BY <2>1, Unchanged, SwipedActionFields DEF IsRunOutOfCards
    <2> DEFINE b == Recorded(SwipedAction(a), a.index, right)
    <2>4. IsApp(b) /\ b.screen = "cards" /\ SameMembership(a, b)
        BY <2>3, RecordedFields, SameMembershipTrans
    <2>5. a.uniqueUserId = <<d, 1>> /\ <<d, 1>> # Nil
        <3>1. a.uniqueUserId = <<d, 1>>
            BY DEF AllDrawn, Named, AllAttend, Attends
        <3>2. a.session \in 0..MaxSessions /\ a.session = 1
            BY Unchanged DEF Apps, AllAttend, Attends
        <3>3. 1 \in 1..MaxSessions
            BY <3>2, MaxSessionsAssumption
        <3>4. <<d, 1>> \in UserIds
            BY <3>3 DEF UserIds
        <3> QED BY <3>1, <3>4, NilAssumption
    <2> HIDE DEF b
    <2>6. HasGroup(b)
        BY <1>2, <2>4, <2>5 DEF HasGroup, SameMembership
    <2> DEFINE n == InitiateEventListenerFor(b, "result", b.activeGroupId)
    <2>7. Become(d, n)
        BY <2>2, <2>6 DEF RunOutInGroup, b
    <2>8. app'[d] = n
        BY <2>7 DEF IInv, Become
    <2>9. /\ IsApp(n) /\ n.screen = b.screen
          /\ n.activeEventListener = [role |-> "result", code |-> b.activeGroupId, seen |-> Nil]
          /\ n.leaked = Attached(b)
          /\ SameMembership(b, n) /\ SameCards(b, n)
          /\ n.localUserYesSwiped = b.localUserYesSwiped
        BY <2>4, ListensFields
    <2> HIDE DEF n
    <2> QED BY <2>4, <2>8, <2>9
<1>5. CASE WaitSnapshot(d)
    <2>1. PICK l \in Attached(a) :
              LET g == View(d, l.code)
                  m == Delivered(a, l, g)
              IN  /\ l.role = "wait"
                  /\ \/ OnlyApp(d, m)
                     \/ g # Nil /\ g.swipingSessionRunning /\ ~ReloadFails(WithSessionDeck(m, g))
                        /\ OnlyApp(d, StartedApp(m, g))
                     \/ g # Nil /\ ReloadFails(WithSessionDeck(m, g))
        BY <1>5 DEF WaitSnapshot, StartedApp
    <2> DEFINE g == View(d, l.code)
               m == Delivered(a, l, g)
               w == WithSessionDeck(m, g)
    <2>2. a \in SoundApps /\ a \in Apps /\ l.code \in Codes
        BY Unchanged, AttachedListeners DEF Listeners
    <2>3. g \in DealtGroups \cup {Nil} /\ g \in Groups \cup {Nil}
        BY <2>2, ViewDealt, DealtSubset
    <2>4. a.screen = "waiting" /\ a.index = 0
        BY <1>2, <2>1 DEF WaitingForHost, Hears, AllSynced, Synced, NotStarted
    <2> HIDE DEF g
    <2>5. /\ IsApp(m) /\ m.screen = a.screen
          /\ SameMembership(a, m) /\ SameCards(a, m)
          /\ m.localUserYesSwiped = a.localUserYesSwiped
          /\ SameRoles(a, m)
        BY <2>2, <2>3, DeliveredFields
    <2>6. m \in SoundApps
        BY <2>2, <2>3, DeliveredSound
    <2> HIDE DEF m
    <2>7. w.index = 0
        BY <2>4, <2>5 DEF WithSessionDeck, IsApp, AppFields, SameCards
    <2>8. ~ReloadFails(w)
        <3> HIDE DEF w
        <3> QED BY <2>7 DEF ReloadFails
    <2>9. CASE OnlyApp(d, m)
        BY <2>4, <2>5, <2>9, OnlyAppMoves
    <2>10. CASE g # Nil /\ g.swipingSessionRunning /\ OnlyApp(d, StartedApp(m, g))
        <3> DEFINE b == StartedApp(m, g)
        <3>1. /\ IsApp(b) /\ b.screen = "cards" /\ b.items = g.dinnerIdsForCardView
              /\ b.swiped = m.swiped
              /\ m.index = 0 /\ m.screen = "waiting" => FreshDeck(b)
              /\ b.activeEventListener = Nil /\ b.leaked = m.leaked
              /\ SameMembership(m, b)
              /\ b.localUserYesSwiped = m.localUserYesSwiped
            BY <2>3, <2>4, <2>5, <2>6, <2>8, <2>10, StartedFields
        <3>2. app'[d] = b
            BY <2>10, OnlyAppMoves
        <3> HIDE DEF b
        <3> QED BY <3>1, <3>2
    <2> QED BY <2>1, <2>8, <2>9, <2>10 DEF g, m, w
<1> QED BY <1>1, <1>3, <1>4, <1>5

\* Who is in a group stays in it, and nobody enters a second one.
LEMMA MemberStep ==
    ASSUME NobodyLeaves, IInv, PartyInv, AllAttend, Next, NEW d \in Devices
    PROVE  LET a == app[d]
               b == app'[d]
           IN
           \/ b.activeGroupId = a.activeGroupId /\ b.session = a.session
           \/ /\ a.activeGroupId = Nil /\ b.activeGroupId \in Codes
              /\ b.session = a.session + 1 /\ b.screen # "closed"
<1> DEFINE a == app[d]
           b == app'[d]
           Same == b.activeGroupId = a.activeGroupId /\ b.session = a.session
           Enters == /\ a.activeGroupId = Nil /\ b.activeGroupId \in Codes
                     /\ b.session = a.session + 1 /\ b.screen # "closed"
<1>1. PICK e \in Devices :
              \/ Idles(e) \/ Crashes(e) \/ SwitchesOn(e) \/ AsksToJoin(e) \/ AsksToCreate(e)
              \/ Joins(e) \/ Creates(e) \/ DealsDeck(e) \/ StartsGroup(e) \/ RunsOut(e)
              \/ Starts(e) \/ LosesRequest(e) \/ Launches(e) \/ Delivers(e)
    BY NextCases, NobodyGoes DEF PartyInv
<1>2. CASE e # d
    <2>1. app'[d] = app[d]
        BY <1>1, <1>2, StepsMove DEF Moves, Delivers
    <2> QED BY <2>1
<1>3. CASE Delivers(e)
    BY <1>3 DEF Delivers
<1>4. InOrder(a, requests[d], outbox[d])
    BY DEF PartyInv, Orderly
<1>5. CASE Idles(d) \/ Crashes(d) \/ RunsOut(d) \/ Starts(d) \/ DealsDeck(d)
    <2>1. SameMembership(a, b)
        BY <1>5 DEF Idles, Crashes, RunsOut, Starts, DealsDeck
    <2> QED BY <2>1 DEF SameMembership
<1>6. CASE SwitchesOn(d) \/ AsksToJoin(d) \/ AsksToCreate(d)
    BY <1>6 DEF SwitchesOn, AsksToJoin, AsksToCreate, Asks
<1>7. CASE StartsGroup(d) \/ LosesRequest(d)
    BY <1>7 DEF StartsGroup, LosesRequest
<1>8. CASE Launches(d)
    <2>1. a.activeGroupId = Nil
        BY <1>8 DEF Launches, AllAttend, Attends
    <2>2. b.activeGroupId = Nil /\ b.session = a.session
        BY <1>8 DEF Launches, LaunchedApp
    <2> QED BY <2>1, <2>2
<1>9. CASE Joins(d)
    <2>1. PICK r \in requests[d] :
              /\ Answers(d, r) /\ r.kind = "join" /\ r.code \in Codes
              /\ \/ b = a
                 \/ /\ b.screen = IF a.screen = "cards" THEN "waiting" ELSE a.screen
                    /\ b.activeGroupId = r.code /\ b.session = a.session + 1
        BY <1>9 DEF Joins
    <2>2. a.activeGroupId = Nil /\ a.screen = "cards"
        BY <1>4, <2>1, AnsweredOutside
    <2> QED BY <2>1, <2>2
<1>10. CASE Creates(d)
    <2>1. PICK r \in requests[d] :
              /\ Answers(d, r) /\ r.kind = "create"
              /\ \/ Same
                 \/ \E c \in Codes :
                       /\ b.screen = IF a.screen = "cards" THEN "lobby" ELSE a.screen
                       /\ b.activeGroupId = c /\ b.session = a.session + 1
        BY <1>10 DEF Creates
    <2>2. a.activeGroupId = Nil /\ a.screen = "cards"
        BY <1>4, <2>1, AnsweredOutside
    <2> QED BY <2>1, <2>2
<1> QED BY <1>1, <1>2, <1>3, <1>5, <1>6, <1>7, <1>8, <1>9, <1>10

LEMMA AttendStep ==
    ASSUME NobodyIsKilled, EverybodyIsCareful, NobodyLeaves,
           IInv, PartyInv, AllDrawn, AllSynced, AllAttend, Next
    PROVE  AllAttend'
<1> SUFFICES ASSUME NEW d \in Devices PROVE Attends(app'[d])
    BY DEF AllAttend
<1>1. Attends(app[d])
    BY DEF AllAttend
<1>2. \/ /\ app'[d].activeGroupId = app[d].activeGroupId
         /\ app'[d].session = app[d].session
      \/ /\ app[d].activeGroupId = Nil /\ app'[d].activeGroupId \in Codes
         /\ app'[d].session = app[d].session + 1 /\ app'[d].screen # "closed"
    BY MemberStep
<1>3. app[d].activeGroupId # Nil => app'[d].screen # "closed"
    BY <1>1, OpenStep DEF Attends
<1> QED BY <1>1, <1>2, <1>3, NilAssumption DEF Attends

-----------------------------------------------------------------------------
(***************************************************************************)
(* What a device sends is for its own group, and a join is the first of    *)
(* it: it is on its way to the server as long as it is in the queue.       *)
(***************************************************************************)
OwnQueue(q, c) == \A i \in DOMAIN q : q[i].code = c /\ (q[i].op = "join" => i = 1)

AllOwn == \A d \in Devices : OwnQueue(outbox[d], app[d].activeGroupId)

StillComes(q) == \E i \in DOMAIN q : q[i].op = "join"

OnTheirWay(c) == {d \in Members(c) : StillComes(outbox[d])}

LEMMA EmptyIsOwn == /\ \A c : OwnQueue(<<>>, c)
                    /\ ~StillComes(<<>>)
BY DEF OwnQueue, StillComes

LEMMA OwnInit == Init => AllOwn
BY EmptyIsOwn DEF Init, AllOwn

LEMMA OutsideIsEmpty ==
    ASSUME IInv, NEW d \in Devices, OwnQueue(outbox[d], Nil)
    PROVE  outbox[d] = <<>>
<1> DEFINE q == outbox[d]
<1>1. q \in Seq(Writes)
    BY OutboxTypes
<1> SUFFICES ASSUME q # <<>> PROVE FALSE
    OBVIOUS
<1>2. 1 \in DOMAIN q /\ q[1] \in Writes
    BY <1>1, EmptySeq, LenProperties, ElementOfSeq
<1>3. q[1].code \in Codes
    BY <1>2 DEF Writes
<1> QED BY <1>2, <1>3, NilAssumption DEF OwnQueue

LEMMA OwnAdded ==
    ASSUME NEW q \in Seq(Writes), NEW w \in Writes, NEW c, OwnQueue(q, c), w.code = c,
           w.op = "join" => q = <<>>
    PROVE  /\ OwnQueue(q \o <<w>>, c)
           /\ StillComes(q \o <<w>>) <=> StillComes(q) \/ w.op = "join"
<1> DEFINE s == q \o <<w>>
<1>1. /\ Len(q) \in Nat /\ DOMAIN q = 1..Len(q) /\ DOMAIN s = 1..(Len(q) + 1)
      /\ \A i \in 1..Len(q) : s[i] = q[i]
      /\ s[Len(q) + 1] = w
    BY AddedWrite
<1>2. q = <<>> => Len(q) + 1 = 1
    OBVIOUS
<1> HIDE DEF s
<1>3. DOMAIN s = DOMAIN q \cup {Len(q) + 1}
    BY <1>1
<1>4. \A i \in DOMAIN q : s[i] = q[i]
    BY <1>1
<1>5. OwnQueue(s, c)
    BY <1>1, <1>2, <1>3, <1>4 DEF OwnQueue
<1>6. StillComes(s) <=> StillComes(q) \/ w.op = "join"
    BY <1>1, <1>3, <1>4 DEF StillComes
<1> QED BY <1>5, <1>6 DEF s

LEMMA OwnTaken ==
    ASSUME NEW q \in Seq(Writes), q # <<>>, NEW c, OwnQueue(q, c)
    PROVE  /\ OwnQueue(Tail(q), c) /\ ~StillComes(Tail(q))
           /\ StillComes(q) <=> Head(q).op = "join"
           /\ Head(q).code = c
<1>1. /\ Len(q) \in Nat \ {0} /\ DOMAIN q = 1..Len(q)
      /\ DOMAIN Tail(q) = 1..(Len(q) - 1)
      /\ \A i \in 1..(Len(q) - 1) : Tail(q)[i] = q[i + 1] /\ i + 1 \in 1..Len(q)
      /\ Head(q) = q[1] /\ 1 \in 1..Len(q)
    BY TakenWrite
<1>2. \A i \in DOMAIN Tail(q) : Tail(q)[i].code = c /\ Tail(q)[i].op # "join"
    <2> TAKE i \in DOMAIN Tail(q)
    <2>1. i + 1 \in DOMAIN q /\ Tail(q)[i] = q[i + 1] /\ i + 1 # 1
        BY <1>1
    <2> QED BY <2>1 DEF OwnQueue
<1>3. StillComes(q) <=> Head(q).op = "join"
    BY <1>1 DEF StillComes, OwnQueue
<1>4. Head(q).code = c
    BY <1>1 DEF OwnQueue
<1> QED BY <1>2, <1>3, <1>4 DEF OwnQueue, StillComes

\* A step of d after which it is where it was, and has sent neither a join nor
\* a whole document.
Remains(d) ==
    /\ app'[d].activeGroupId = app[d].activeGroupId
    /\ OwnQueue(outbox'[d], app'[d].activeGroupId)
    /\ StillComes(outbox'[d]) <=> StillComes(outbox[d])
    /\ \A c : \A i \in PendingSets(outbox'[d], c) :
          i \in PendingSets(outbox[d], c) /\ outbox'[d][i] = outbox[d][i]

\* d has found the group it asked for, ...
Enters(d) ==
    LET c == app'[d].activeGroupId IN
    /\ app[d].activeGroupId = Nil /\ c \in Codes /\ outbox[d] = <<>>
    /\ groups[c] # Nil
    /\ NoSets(outbox'[d]) /\ OwnQueue(outbox'[d], c) /\ StillComes(outbox'[d])

\* ... has got a group of its own, ...
Opens(d) ==
    LET c == app'[d].activeGroupId IN
    /\ app[d].activeGroupId = Nil /\ c \in Codes /\ d \in Hosts
    /\ app'[d].screen = "lobby"
    /\ app'[d].activeEventListener = [role |-> "lobby", code |-> c, seen |-> Nil]
    /\ app'[d].leaked = {}
    /\ View(d, c) = Nil /\ groups[c] = Nil
    /\ OwnQueue(outbox'[d], c) /\ ~StillComes(outbox'[d])
    /\ \A k : \A i \in PendingSets(outbox'[d], k) : outbox'[d][i].group = NewGroup

\* ... has read its group's document and sends it back, started.
Begins(d) ==
    LET c == app[d].activeGroupId IN
    /\ c \in Codes /\ d \in Hosts /\ app'[d].activeGroupId = c
    /\ ~InLobby(app[d]) /\ View(d, c) # Nil
    /\ OwnQueue(outbox'[d], c)
    /\ StillComes(outbox'[d]) <=> StillComes(outbox[d])
    /\ \A k : \A i \in PendingSets(outbox'[d], k) :
          \/ i \in PendingSets(outbox[d], k) /\ outbox'[d][i] = outbox[d][i]
          \/ /\ k = c
             /\ \E deck \in HostDecks : outbox'[d][i].group = StartedGroup(View(d, c), deck)

LEMMA JoinsEffect ==
    ASSUME IInv, Guests, Orderly, AllOwn, NEW d \in Devices, Joins(d)
    PROVE  Remains(d) \/ Enters(d)
<1> DEFINE a == app[d]
           b == app'[d]
           q == outbox[d]
           s == outbox'[d]
<1>1. PICK r \in requests[d] :
          /\ Answers(d, r) /\ r.kind = "join" /\ r.code \in Codes
          /\ \/ b = a /\ s = q
             \/ /\ View(d, r.code) # Nil /\ b.activeGroupId = r.code
                /\ s = q \o <<AddOneParticipant(r.code, ParticipantsIn(View(d, r.code)))>>
    BY DEF Joins
<1>2. a.activeGroupId = Nil
    BY <1>1, AnsweredOutside DEF Orderly
<1>3. q = <<>> /\ OwnQueue(q, a.activeGroupId)
    BY <1>2, OutsideIsEmpty DEF AllOwn
<1>4. CASE b = a /\ s = q
    BY <1>3, <1>4 DEF Remains
<1>5. CASE b.activeGroupId = r.code /\ View(d, r.code) # Nil
              /\ s = q \o <<AddOneParticipant(r.code, ParticipantsIn(View(d, r.code)))>>
    <2> DEFINE w == AddOneParticipant(r.code, ParticipantsIn(View(d, r.code)))
    <2>1. w \in Writes /\ w.op = "join" /\ w.code = r.code
        BY <1>1, SentWrites DEF AddOneParticipant
    <2>2. s = q \o <<w>> /\ q \in Seq(Writes)
        BY <1>5, OutboxTypes
    <2> HIDE DEF w
    <2>3. OwnQueue(q, r.code)
        BY <1>3, EmptyIsOwn
    <2>4. OwnQueue(s, r.code) /\ StillComes(s)
        BY <1>3, <2>1, <2>2, <2>3, OwnAdded
    <2>5. NoSets(s)
        <3>1. NoSets(q)
            BY <1>3, NoSetsInEmpty
        <3>2. NoSets(q \o <<w>>)
            BY <2>1, <2>2, <3>1, NoSetsKept
        <3> QED BY <2>2, <3>2
    <2>6. groups[r.code] # Nil
        <3>1. PendingSets(q, r.code) = {}
            BY <1>3, NoSetsInEmpty
        <3>2. BaseDocument(groups[r.code], q, r.code) = groups[r.code]
            BY <3>1 DEF BaseDocument
        <3> QED BY <1>5, <3>2 DEF View, LocalView
    <2> QED BY <1>1, <1>2, <1>3, <1>5, <2>4, <2>5, <2>6 DEF Enters
<1> QED BY <1>1, <1>4, <1>5

LEMMA CreatesEffect ==
    ASSUME IInv, Guests, Orderly, AllOwn, NEW d \in Devices, Creates(d)
    PROVE  Remains(d) \/ Opens(d)
<1> DEFINE a == app[d]
           b == app'[d]
           q == outbox[d]
           s == outbox'[d]
<1>1. PICK r \in requests[d] :
          /\ Answers(d, r) /\ r.kind = "create"
          /\ \/ s = q /\ b.activeGroupId = a.activeGroupId
             \/ \E c \in Codes :
                   /\ View(d, c) = Nil
                   /\ s = q \o <<SetData(c, NewGroup)>>
                   /\ b.screen = IF a.screen = "cards" THEN "lobby" ELSE a.screen
                   /\ b.activeGroupId = c
                   /\ b.activeEventListener = [role |-> "lobby", code |-> c, seen |-> Nil]
                   /\ b.leaked = Attached(a)
    BY DEF Creates
<1>2. a.activeGroupId = Nil /\ a.screen = "cards" /\ Attached(a) = {}
    BY <1>1, AnsweredOutside DEF Orderly
<1>3. q = <<>> /\ OwnQueue(q, a.activeGroupId)
    BY <1>2, OutsideIsEmpty DEF AllOwn
<1>4. d \in Hosts
    BY <1>1 DEF Guests, Guest
<1>5. CASE s = q /\ b.activeGroupId = a.activeGroupId
    BY <1>3, <1>5 DEF Remains
<1>6. ASSUME NEW c \in Codes,
             View(d, c) = Nil,
             s = q \o <<SetData(c, NewGroup)>>,
             b.screen = IF a.screen = "cards" THEN "lobby" ELSE a.screen,
             b.activeGroupId = c,
             b.activeEventListener = [role |-> "lobby", code |-> c, seen |-> Nil],
             b.leaked = Attached(a)
      PROVE  Opens(d)
    <2> DEFINE w == SetData(c, NewGroup)
    <2>1. w \in Writes /\ w.op = "set" /\ w.code = c /\ w.group = NewGroup
        BY SentWrites DEF SetData
    <2>2. s = q \o <<w>> /\ q \in Seq(Writes)
        BY <1>6, OutboxTypes
    <2> HIDE DEF w
    <2>3. OwnQueue(q, c) /\ ~StillComes(q)
        BY <1>3, EmptyIsOwn
    <2>4. OwnQueue(s, c) /\ ~StillComes(s)
        BY <2>1, <2>2, <2>3, OwnAdded
    <2>5. \A k : \A i \in PendingSets(s, k) : s[i].group = NewGroup
        <3>1. /\ Len(q) \in Nat /\ DOMAIN (q \o <<w>>) = 1..(Len(q) + 1)
              /\ (q \o <<w>>)[Len(q) + 1] = w
            BY <2>1, <2>2, AddedWrite
        <3>2. Len(q) = 0
            BY <1>3
        <3>3. DOMAIN s = {1} /\ s[1] = w
            BY <2>2, <3>1, <3>2
        <3> QED BY <2>1, <3>3 DEF PendingSets
    <2>6. groups[c] = Nil
        BY <1>6, UnseenIsNew
    <2> QED BY <1>2, <1>4, <1>6, <2>4, <2>5, <2>6 DEF Opens
<1> QED BY <1>1, <1>5, <1>6

LEMMA StartsGroupEffect ==
    ASSUME IInv, Guests, Orderly, AllOwn, NEW d \in Devices, StartsGroup(d)
    PROVE  Remains(d) \/ Begins(d)
<1> DEFINE a == app[d]
           b == app'[d]
           q == outbox[d]
           s == outbox'[d]
<1>1. PICK r \in requests[d] :
          /\ r.kind = "start" /\ r.code \in Codes /\ r.deck \in HostDecks
          /\ b.activeGroupId = a.activeGroupId
          /\ \/ s = q
             \/ /\ View(d, r.code) # Nil
                /\ s = q \o <<SetData(r.code, StartedGroup(View(d, r.code), r.deck))>>
    BY DEF StartsGroup
<1>2. /\ ~InLobby(a) /\ r.code = a.activeGroupId /\ d \in Hosts
    BY <1>1 DEF Orderly, InOrder, HostedGroup, Guests, Guest
<1>3. OwnQueue(q, r.code)
    BY <1>2 DEF AllOwn
<1>4. CASE s = q
    BY <1>1, <1>2, <1>3, <1>4 DEF Remains
<1>5. CASE /\ View(d, r.code) # Nil
           /\ s = q \o <<SetData(r.code, StartedGroup(View(d, r.code), r.deck))>>
    <2> DEFINE g == StartedGroup(View(d, r.code), r.deck)
               w == SetData(r.code, g)
    <2>1. w \in Writes /\ w.op = "set" /\ w.code = r.code /\ w.group = g
        BY <1>1, <1>5, SentWrites DEF SetData
    <2>2. s = q \o <<w>> /\ q \in Seq(Writes)
        BY <1>5, OutboxTypes
    <2> HIDE DEF w, g
    <2>4. OwnQueue(s, r.code) /\ (StillComes(s) <=> StillComes(q))
        BY <1>3, <2>1, <2>2, OwnAdded
    <2>5. \A k : \A i \in PendingSets(s, k) :
              \/ i \in PendingSets(q, k) /\ s[i] = q[i]
              \/ k = r.code /\ s[i].group = g
        <3>1. /\ Len(q) \in Nat /\ DOMAIN q = 1..Len(q) /\ DOMAIN (q \o <<w>>) = 1..(Len(q) + 1)
              /\ \A i \in 1..Len(q) : (q \o <<w>>)[i] = q[i]
              /\ (q \o <<w>>)[Len(q) + 1] = w
            BY <2>1, <2>2, AddedWrite
        <3>2. DOMAIN s = DOMAIN q \cup {Len(q) + 1} /\ s[Len(q) + 1] = w
              /\ \A i \in DOMAIN q : s[i] = q[i]
            BY <2>2, <3>1
        <3> HIDE DEF q, s
        <3> QED BY <2>1, <3>2 DEF PendingSets
    <2> QED BY <1>1, <1>2, <1>5, <2>4, <2>5 DEF Begins, g
<1> QED BY <1>1, <1>4, <1>5

LEMMA RunsOutRemains ==
    ASSUME IInv, Guests, Orderly, AllOwn, NEW d \in Devices, RunsOut(d)
    PROVE  Remains(d)
<1> DEFINE a == app[d]
           q == outbox[d]
           s == outbox'[d]
           n == Len(q)
<1>1. /\ n \in Nat /\ DOMAIN q = 1..n /\ DOMAIN s = 1..(n + 2)
      /\ \A i \in 1..n : s[i] = q[i]
      /\ s[n + 1].op = "vote" /\ s[n + 1].code = a.groupId
      /\ s[n + 2].op = "ready" /\ s[n + 2].code = a.activeGroupId
    BY RunOutQueue
<1>2. /\ app'[d].activeGroupId = a.activeGroupId /\ a.activeGroupId \in Codes
    BY DEF RunsOut, SameMembership
<1>3. a.groupId = a.activeGroupId
    BY <1>2, NilAssumption DEF Orderly, InOrder, InsideGroup
<1>4. OwnQueue(q, a.activeGroupId)
    BY DEF AllOwn
<1>5. /\ DOMAIN s = DOMAIN q \cup {n + 1, n + 2}
      /\ \A i \in DOMAIN q : s[i] = q[i]
    BY <1>1
<1>6. OwnQueue(s, a.activeGroupId) /\ (StillComes(s) <=> StillComes(q))
    <2> HIDE DEF q, s, n
    <2> QED BY <1>1, <1>3, <1>4, <1>5 DEF OwnQueue, StillComes
<1>7. \A c : \A i \in PendingSets(s, c) : i \in PendingSets(q, c) /\ s[i] = q[i]
    <2> HIDE DEF q, s, n
    <2> QED BY <1>1, <1>5 DEF PendingSets
<1> QED BY <1>2, <1>6, <1>7 DEF Remains

\* Every step, by what it does to the groups and their members.
LEMMA PartySteps ==
    ASSUME NobodyLeaves, IInv, PartyInv, AllAttend, AllOwn, Next
    PROVE  \E d \in Devices :
              \/ Delivers(d)
              \/ Moves(d) /\ groups' = groups /\ (Remains(d) \/ Enters(d) \/ Opens(d) \/ Begins(d))
<1>1. PICK d \in Devices :
              \/ Idles(d) \/ Crashes(d) \/ SwitchesOn(d) \/ AsksToJoin(d) \/ AsksToCreate(d)
              \/ Joins(d) \/ Creates(d) \/ DealsDeck(d) \/ StartsGroup(d) \/ RunsOut(d)
              \/ Starts(d) \/ LosesRequest(d) \/ Launches(d) \/ Delivers(d)
    BY NextCases, NobodyGoes DEF PartyInv
<1>2. Guests /\ Orderly
    BY DEF PartyInv
<1>3. CASE \/ Idles(d) \/ Crashes(d) \/ SwitchesOn(d) \/ AsksToJoin(d) \/ AsksToCreate(d)
           \/ DealsDeck(d) \/ Starts(d) \/ LosesRequest(d) \/ Launches(d)
    <2>1. outbox'[d] \in {outbox[d], <<>>}
        BY <1>2, <1>3, QueueChanges
    <2>2. OwnQueue(outbox[d], app[d].activeGroupId)
        BY DEF AllOwn
    <2>3. app[d].activeGroupId = Nil => outbox[d] = <<>>
        BY <2>2, OutsideIsEmpty
    <2>4. outbox'[d] = outbox[d] /\ app'[d].activeGroupId = app[d].activeGroupId
        <3>1. CASE Idles(d) \/ Crashes(d) \/ SwitchesOn(d) \/ Starts(d)
            BY <3>1 DEF Idles, Crashes, SwitchesOn, Starts, MovesAlone, SameMembership
        <3>2. CASE AsksToJoin(d) \/ DealsDeck(d) \/ LosesRequest(d)
            BY <3>2 DEF AsksToJoin, Asks, DealsDeck, LosesRequest, SameMembership
        <3>3. CASE AsksToCreate(d)
            <4>1. app[d].screen = "connect" /\ app'[d].activeGroupId = app[d].activeGroupId
                BY <3>3 DEF AsksToCreate, Asks
            <4>2. app[d].activeGroupId = Nil
                BY <1>2, <4>1 DEF Orderly, InOrder, InsideGroup, AsksToEnter
            <4> QED BY <2>1, <2>3, <4>1, <4>2
        <3>4. CASE Launches(d)
            <4>1. app[d].activeGroupId = Nil /\ app'[d].activeGroupId = Nil
                BY <3>4 DEF Launches, LaunchedApp, AllAttend, Attends
            <4> QED BY <2>1, <2>3, <4>1
        <3> QED BY <1>3, <3>1, <3>2, <3>3, <3>4
    <2>5. Remains(d)
        BY <2>2, <2>4 DEF Remains
    <2> QED BY <1>3, <2>5, StepsMove
<1>4. CASE Joins(d)
    BY <1>2, <1>4, JoinsEffect, StepsMove
<1>5. CASE Creates(d)
    BY <1>2, <1>5, CreatesEffect, StepsMove
<1>6. CASE StartsGroup(d)
    BY <1>2, <1>6, StartsGroupEffect, StepsMove
<1>7. CASE RunsOut(d)
    BY <1>2, <1>7, RunsOutRemains, StepsMove
<1> QED BY <1>1, <1>3, <1>4, <1>5, <1>6, <1>7

LEMMA OwnStep ==
    ASSUME NobodyLeaves, IInv, PartyInv, AllAttend, AllOwn, Next
    PROVE  AllOwn'
<1>1. PICK d \in Devices :
              \/ Delivers(d)
              \/ Moves(d) /\ groups' = groups /\ (Remains(d) \/ Enters(d) \/ Opens(d) \/ Begins(d))
    BY PartySteps
<1> SUFFICES ASSUME NEW e \in Devices PROVE OwnQueue(outbox'[e], app'[e].activeGroupId)
    BY DEF AllOwn
<1>2. OwnQueue(outbox[e], app[e].activeGroupId)
    BY DEF AllOwn
<1>3. CASE e # d
    BY <1>1, <1>2, <1>3 DEF Moves, Delivers
<1>4. CASE e = d /\ Delivers(d)
    <2>1. app' = app /\ outbox[d] # <<>> /\ outbox'[d] = Tail(outbox[d])
        BY <1>4 DEF Delivers
    <2>2. outbox[d] \in Seq(Writes)
        BY OutboxTypes
    <2> QED BY <1>2, <1>4, <2>1, <2>2, OwnTaken
<1>5. CASE e = d /\ ~Delivers(d)
    BY <1>1, <1>5 DEF Remains, Enters, Opens, Begins
<1> QED BY <1>3, <1>4, <1>5

-----------------------------------------------------------------------------
(***************************************************************************)
(* The head count of a group that is not from before: what the document    *)
(* says and the joins on their way together are its members.  Its one host *)
(* is in it; while the host waits in the lobby it has not been shown more  *)
(* than have come, and when it goes on everybody is there.                 *)
(***************************************************************************)
Sized(c) ==
    groups[c] # Nil =>
        groups[c].participants + Cardinality(OnTheirWay(c)) = Cardinality(Members(c))

Hosted(c) == groups[c] # Nil => \E h \in Hosts : h \in Members(c)

SetsSized(c) ==
    \A d \in Devices : \A i \in PendingSets(outbox[d], c) :
        /\ outbox[d][i].group.participants = Cardinality(Members(c))
        /\ OnTheirWay(c) = {}
        /\ outbox[d][i].group.swipingSessionRunning => Members(c) = Devices

Everybody(c) == Members(c) = Devices /\ OnTheirWay(c) = {}

Watched(a, c) ==
    \A l \in Attached(a) :
        /\ l.role = "lobby"
        /\ l.seen # Nil =>
              l.seen.participants + Cardinality(OnTheirWay(c)) <= Cardinality(Members(c))

WatchedBy(h, c) ==
    h \in Members(c) =>
        /\ ~StillComes(outbox[h])
        /\ Everybody(c) \/ (app[h].screen = "lobby" /\ Watched(app[h], c))

HeadsIn(c) == Sized(c) /\ Hosted(c) /\ SetsSized(c) /\ \A h \in Hosts : WatchedBy(h, c)

AllHeads == \A c \in Codes \ OldCodes : HeadsIn(c)

LEMMA HeadsFinite ==
    ASSUME NEW c
    PROVE  /\ IsFiniteSet(Members(c)) /\ IsFiniteSet(OnTheirWay(c))
           /\ Cardinality(Members(c)) \in Nat /\ Cardinality(OnTheirWay(c)) \in Nat
           /\ Members(c) \subseteq Devices /\ OnTheirWay(c) \subseteq Members(c)
           /\ Cardinality(Members(c)) <= Cardinality(Devices) /\ Cardinality(Devices) \in Nat
           /\ Cardinality(Members(c)) = Cardinality(Devices) => Members(c) = Devices
<1>1. Members(c) \subseteq Devices /\ OnTheirWay(c) \subseteq Members(c)
    BY DEF Members, OnTheirWay
<1>2. IsFiniteSet(Devices)
    BY DevicesAssumption
<1>3. /\ IsFiniteSet(Members(c)) /\ Cardinality(Members(c)) <= Cardinality(Devices)
      /\ Cardinality(Devices) = Cardinality(Members(c)) => Devices = Members(c)
    BY <1>1, <1>2, FS_Subset
<1>4. IsFiniteSet(OnTheirWay(c))
    BY <1>1, <1>3, FS_Subset
<1>5. Cardinality(Devices) \in Nat
    BY <1>2, FS_CardinalityType
<1>6. Cardinality(Members(c)) \in Nat
    BY <1>3, FS_CardinalityType
<1>7. Cardinality(OnTheirWay(c)) \in Nat
    BY <1>4, FS_CardinalityType
<1> QED BY <1>1, <1>3, <1>4, <1>5, <1>6, <1>7

LEMMA HeadsInit == Init => AllHeads
<1> SUFFICES ASSUME Init, NEW c \in Codes \ OldCodes PROVE HeadsIn(c)
    BY DEF AllHeads
<1>1. groups[c] = Nil
    BY DEF Init, OldCodes
<1>2. \A d \in Devices : outbox[d] = <<>> /\ app[d].activeGroupId = Nil
    BY DEF Init, LaunchedApp
<1>3. Members(c) = {}
    BY <1>2, NilAssumption DEF Members
<1>4. SetsSized(c)
    BY <1>2, NoSetsInEmpty DEF SetsSized
<1> QED BY <1>1, <1>3, <1>4 DEF HeadsIn, Sized, Hosted, WatchedBy

-----------------------------------------------------------------------------
\* How a step changes who is in group c, and whose join is on its way.
SameHeads(c) == Members(c)' = Members(c) /\ OnTheirWay(c)' = OnTheirWay(c)

Arrives(d, c) ==
    /\ Enters(d) /\ app'[d].activeGroupId = c /\ d \notin Members(c)
    /\ Members(c)' = Members(c) \cup {d} /\ OnTheirWay(c)' = OnTheirWay(c) \cup {d}

Founds(d, c) ==
    /\ Opens(d) /\ app'[d].activeGroupId = c /\ Members(c) = {}
    /\ Members(c)' = {d} /\ OnTheirWay(c)' = {}

\* A write of d reaches the server.
Serves(d, c) ==
    LET w == Head(outbox[d]) IN
    /\ Delivers(d) /\ Members(c)' = Members(c)
    /\ w.code = c => d \in Members(c)
    /\ IF w.code = c /\ w.op = "join"
       THEN d \in OnTheirWay(c) /\ OnTheirWay(c)' = OnTheirWay(c) \ {d}
       ELSE OnTheirWay(c)' = OnTheirWay(c)

LEMMA HeadSteps ==
    ASSUME OneHost, NobodyLeaves, IInv, PartyInv, AllAttend, AllOwn, AllExist, Next,
           NEW c \in Codes
    PROVE  \E d \in Devices :
              \/ Serves(d, c)
              \/ /\ Moves(d) /\ groups' = groups
                 /\ \/ SameHeads(c) /\ (Remains(d) \/ Begins(d))
                    \/ /\ SameHeads(c) /\ (Enters(d) \/ Opens(d))
                       /\ app'[d].activeGroupId # c
                    \/ Arrives(d, c)
                    \/ Founds(d, c)
<1>1. PICK d \in Devices :
              \/ Delivers(d)
              \/ Moves(d) /\ groups' = groups /\ (Remains(d) \/ Enters(d) \/ Opens(d) \/ Begins(d))
    BY PartySteps
<1>2. outbox[d] \in Seq(Writes) /\ OwnQueue(outbox[d], app[d].activeGroupId)
    BY OutboxTypes DEF AllOwn
<1>3. CASE Delivers(d)
    <2> DEFINE q == outbox[d]
               w == Head(q)
    <2>1. /\ app' = app /\ q # <<>> /\ outbox'[d] = Tail(q)
          /\ \A e \in Devices \ {d} : outbox'[e] = outbox[e]
        BY <1>3 DEF Delivers
    <2>2. /\ ~StillComes(outbox'[d]) /\ (StillComes(q) <=> w.op = "join")
          /\ w.code = app[d].activeGroupId
        BY <1>2, <2>1, OwnTaken
    <2> HIDE DEF w
    <2>3. Members(c)' = Members(c) /\ (w.code = c <=> d \in Members(c))
        BY <2>1, <2>2 DEF Members
    <2>4. OnTheirWay(c)' = OnTheirWay(c) \ {d}
        <3>1. \A e \in Devices \ {d} : e \in OnTheirWay(c)' <=> e \in OnTheirWay(c)
            BY <2>1, <2>3 DEF OnTheirWay
        <3>2. d \notin OnTheirWay(c)'
            BY <2>2 DEF OnTheirWay
        <3>3. OnTheirWay(c)' \subseteq Devices /\ OnTheirWay(c) \subseteq Devices
            BY DEF OnTheirWay, Members
        <3> QED BY <3>1, <3>2, <3>3
    <2>5. d \in OnTheirWay(c) <=> w.code = c /\ w.op = "join"
        BY <2>2, <2>3 DEF OnTheirWay
    <2> QED BY <1>3, <2>3, <2>4, <2>5 DEF Serves, w
<1>4. ASSUME Moves(d)
      PROVE  \A e \in Devices \ {d} : /\ e \in Members(c)' <=> e \in Members(c)
                                      /\ e \in OnTheirWay(c)' <=> e \in OnTheirWay(c)
    BY <1>4 DEF Moves, Members, OnTheirWay
<1>5. /\ Members(c)' \subseteq Devices /\ OnTheirWay(c)' \subseteq Devices
      /\ Members(c) \subseteq Devices /\ OnTheirWay(c) \subseteq Devices
    BY DEF Members, OnTheirWay
<1>6. /\ d \in Members(c) <=> app[d].activeGroupId = c
      /\ d \in Members(c)' <=> app'[d].activeGroupId = c
      /\ d \in OnTheirWay(c) <=> app[d].activeGroupId = c /\ StillComes(outbox[d])
      /\ d \in OnTheirWay(c)' <=> app'[d].activeGroupId = c /\ StillComes(outbox'[d])
    BY DEF Members, OnTheirWay
<1>7. CASE Moves(d) /\ groups' = groups /\ (Remains(d) \/ Begins(d))
    <2>1. /\ app'[d].activeGroupId = app[d].activeGroupId
          /\ StillComes(outbox'[d]) <=> StillComes(outbox[d])
        BY <1>7 DEF Remains, Begins
    <2>2. SameHeads(c)
        BY <1>4, <1>5, <1>6, <1>7, <2>1 DEF SameHeads
    <2> QED BY <1>7, <2>2
<1>8. CASE Moves(d) /\ groups' = groups /\ (Enters(d) \/ Opens(d)) /\ app'[d].activeGroupId # c
    <2>1. app[d].activeGroupId # c
        BY <1>8, NilAssumption DEF Enters, Opens
    <2>2. SameHeads(c)
        BY <1>4, <1>5, <1>6, <1>8, <2>1 DEF SameHeads
    <2> QED BY <1>8, <2>2
<1>9. CASE Moves(d) /\ groups' = groups /\ Enters(d) /\ app'[d].activeGroupId = c
    <2>1. app[d].activeGroupId # c /\ StillComes(outbox'[d])
        BY <1>9, NilAssumption DEF Enters
    <2>2. Members(c)' = Members(c) \cup {d} /\ OnTheirWay(c)' = OnTheirWay(c) \cup {d}
        BY <1>4, <1>5, <1>6, <1>9, <2>1
    <2> QED BY <1>6, <1>9, <2>1, <2>2 DEF Arrives
<1>10. CASE Moves(d) /\ groups' = groups /\ Opens(d) /\ app'[d].activeGroupId = c
    <2>1. /\ app[d].activeGroupId # c /\ ~StillComes(outbox'[d])
          /\ d \in Hosts /\ groups[c] = Nil
        BY <1>10, NilAssumption DEF Opens
    <2>2. Members(c) = {}
        <3> SUFFICES ASSUME NEW e \in Members(c) PROVE FALSE
            OBVIOUS
        <3>1. e \in Devices /\ app[e].activeGroupId = c /\ e # d
            BY <2>1 DEF Members
        <3>2. View(e, c) # Nil
            BY <3>1 DEF AllExist
        <3>3. NoSets(outbox[e])
            BY <2>1, <3>1 DEF OneHost, PartyInv, Guests, Guest
        <3>4. PendingSets(outbox[e], c) = {}
            BY <3>1, <3>3, NoSetsKept, OutboxTypes
        <3>5. BaseDocument(groups[c], outbox[e], c) = Nil
            BY <2>1, <3>4 DEF BaseDocument
        <3> QED BY <3>2, <3>5 DEF View, LocalView
    <2>3. Members(c)' = {d} /\ OnTheirWay(c)' = {}
        <3>1. OnTheirWay(c) = {}
            BY <2>2 DEF OnTheirWay
        <3> QED BY <1>4, <1>5, <1>6, <1>10, <2>1, <2>2, <3>1
    <2> QED BY <1>10, <2>2, <2>3 DEF Founds
<1> QED BY <1>1, <1>3, <1>7, <1>8, <1>9, <1>10

\* No step brings more joins on their way than members.
LEMMA Surplus ==
    ASSUME OneHost, NobodyLeaves, IInv, PartyInv, AllAttend, AllOwn, AllExist, Next,
           NEW c \in Codes, NEW n \in Int,
           n + Cardinality(OnTheirWay(c)) <= Cardinality(Members(c))
    PROVE  n + Cardinality(OnTheirWay(c)') <= Cardinality(Members(c)')
<1>1. PICK d \in Devices :
          \/ Serves(d, c) \/ SameHeads(c) \/ Arrives(d, c) \/ Founds(d, c)
    BY HeadSteps
<1> DEFINE M == Members(c)
           W == OnTheirWay(c)
<1>2. IsFiniteSet(M) /\ IsFiniteSet(W) /\ Cardinality(M) \in Nat /\ Cardinality(W) \in Nat /\ W \subseteq M
    BY HeadsFinite
<1>3. CASE Serves(d, c)
    <2>1. M' = M /\ W' \in {W, W \ {d}}
        BY <1>3 DEF Serves
    <2> HIDE DEF M, W
    <2>2. Cardinality(W \ {d}) <= Cardinality(W) /\ Cardinality(W \ {d}) \in Nat
        <3>1. IsFiniteSet(W \ {d}) /\ Cardinality(W \ {d}) <= Cardinality(W)
            BY <1>2, FS_Subset
        <3> QED BY <3>1, FS_CardinalityType
    <2>3. n + Cardinality(W) <= Cardinality(M)
        BY DEF M, W
    <2>4. n + Cardinality(W \ {d}) <= Cardinality(M)
        BY <1>2, <2>2, <2>3
    <2>5. n + Cardinality(W') <= Cardinality(M')
        BY <2>1, <2>3, <2>4
    <2> QED BY <2>5 DEF M, W
<1>4. CASE SameHeads(c)
    BY <1>4 DEF SameHeads
<1>5. CASE Arrives(d, c)
    <2>1. M' = M \cup {d} /\ W' = W \cup {d} /\ d \notin M
        BY <1>5 DEF Arrives
    <2> HIDE DEF M, W
    <2>2. Cardinality(M \cup {d}) = Cardinality(M) + 1
        BY <1>2, <2>1, FS_AddElement
    <2>3. Cardinality(W \cup {d}) = Cardinality(W) + 1
        BY <1>2, <2>1, FS_AddElement
    <2>4. n + Cardinality(W) <= Cardinality(M)
        BY DEF M, W
    <2>5. n + Cardinality(W') <= Cardinality(M')
        BY <1>2, <2>1, <2>2, <2>3, <2>4
    <2> QED BY <2>5 DEF M, W
<1>6. CASE Founds(d, c)
    <2>1. M = {} /\ W = {} /\ M' = {d} /\ W' = {}
        BY <1>2, <1>6 DEF Founds
    <2> HIDE DEF M, W
    <2>2. Cardinality({d}) = 1
        BY FS_Singleton
    <2>3. Cardinality({}) = 0
        BY FS_EmptySet
    <2>4. n + Cardinality(W) <= Cardinality(M)
        BY DEF M, W
    <2>5. n + Cardinality(W') <= Cardinality(M')
        BY <2>1, <2>2, <2>3, <2>4
    <2> QED BY <2>5 DEF M, W
<1> QED BY <1>1, <1>3, <1>4, <1>5, <1>6

LEMMA CountedUp ==
    ASSUME NEW g \in Groups, NEW w \in Writes, w.op # "set"
    PROVE  ApplyWrite(g, w).participants
               = IF w.op = "join" THEN g.participants + 1 ELSE g.participants
<1>1. g # Nil /\ w.op \in {"join", "ready", "vote"}
    BY NilAssumption DEF Writes
<1>2. CASE w.op = "join"
    BY <1>1, <1>2 DEF ApplyWrite, Groups
<1>3. CASE w.op = "ready"
    BY <1>1, <1>3 DEF ApplyWrite, Groups
<1>4. CASE w.op = "vote"
    BY <1>1, <1>4 DEF ApplyWrite, Groups
<1> QED BY <1>1, <1>2, <1>3, <1>4

\* Who has no join on its way sees the head count of the base document.
LEMMA SeenHeads ==
    ASSUME NEW g \in Groups \cup {Nil}, NEW q \in Seq(Writes), NEW c \in Codes,
           ~StillComes(q), LocalView(g, q, c) # Nil
    PROVE  LocalView(g, q, c).participants = BaseDocument(g, q, c).participants
<1> DEFINE b == BaseDocument(g, q, c)
           v == LocalView(g, q, c)
           n == LocalCount(q, c, "ready", b.numberOfUsersReady)
           a == [u \in UserIds |-> IF PendingVotes(q, c, u) = {} THEN b.accepted[u]
                                   ELSE q[Latest(PendingVotes(q, c, u))].list]
<1>1. b \in Groups
    BY SeenFields
<1>2. Pending(q, c, "join") = {}
    BY DEF StillComes, Pending
<1>3. LocalCount(q, c, "join", b.participants) = b.participants
    BY <1>2 DEF LocalCount
<1>4. v = [b EXCEPT !.participants = LocalCount(q, c, "join", b.participants),
                    !.numberOfUsersReady = n, !.accepted = a]
    BY <1>1, NilAssumption DEF LocalView
<1> HIDE DEF b, v, n, a
<1>5. v.participants = b.participants
    BY <1>1, <1>3, <1>4 DEF Groups
<1> QED BY <1>5 DEF b, v

LEMMA ViewSized ==
    ASSUME IInv, NEW d \in Devices, NEW c \in Codes,
           Sized(c), SetsSized(c), ~StillComes(outbox[d]), View(d, c) # Nil
    PROVE  /\ View(d, c).participants \in Int
           /\ View(d, c).participants + Cardinality(OnTheirWay(c)) = Cardinality(Members(c))
<1> DEFINE q == outbox[d]
<1>1. q \in Seq(Writes) /\ groups[c] \in Groups \cup {Nil} /\ View(d, c) \in Groups \cup {Nil}
    BY OutboxTypes
<1>2. /\ View(d, c).participants = BaseDocument(groups[c], q, c).participants
      /\ BaseDocument(groups[c], q, c) # Nil
    BY <1>1, SeenHeads, SeenFields DEF View
<1>3. View(d, c).participants \in Int
    BY <1>1 DEF Groups
<1> HIDE DEF View
<1>4. CASE PendingSets(q, c) = {} /\ BaseDocument(groups[c], q, c) = groups[c]
    BY <1>2, <1>3, <1>4 DEF Sized
<1>5. ASSUME NEW i \in PendingSets(q, c), BaseDocument(groups[c], q, c) = q[i].group
      PROVE  View(d, c).participants + Cardinality(OnTheirWay(c)) = Cardinality(Members(c))
    <2>1. q[i].group.participants = Cardinality(Members(c)) /\ OnTheirWay(c) = {}
        BY <1>5 DEF SetsSized
    <2>2. Cardinality({}) = 0
        BY FS_EmptySet
    <2> QED BY <1>2, <1>3, <1>5, <2>1, <2>2
<1> QED BY <1>1, <1>3, <1>4, <1>5, BaseIs

\* A listener after a call of l.
LEMMA CalledListener ==
    ASSUME NEW a, IsApp(a), NEW l \in Attached(a), l \in Listeners, NEW g,
           NEW m \in Attached(Delivered(a, l, g))
    PROVE  m \in Attached(a) \/ (m.role = l.role /\ m.seen = g)
<1> DEFINE n == [l EXCEPT !.seen = g]
           b == Delivered(a, l, g)
<1>1. n.role = l.role /\ n.seen = g
    BY DEF Listeners
<1> HIDE DEF n
<1>2. CASE a.activeEventListener = l
    <2>1. b = [a EXCEPT !.activeEventListener = n]
        BY <1>2 DEF Delivered, n
    <2>2. b.activeEventListener = n /\ b.leaked = a.leaked
        BY <2>1 DEF IsApp, AppFields
    <2> QED BY <1>1, <2>2 DEF Attached
<1>3. CASE a.activeEventListener # l
    <2>1. b = [a EXCEPT !.leaked = (a.leaked \ {l}) \cup {n}]
        BY <1>3 DEF Delivered, n
    <2>2. b.activeEventListener = a.activeEventListener /\ b.leaked = (a.leaked \ {l}) \cup {n}
        BY <2>1 DEF IsApp, AppFields
    <2> QED BY <1>1, <2>2 DEF Attached
<1> QED BY <1>2, <1>3

\* A handler of one device leaves the apps of the others alone.
LEMMA OthersStay ==
    ASSUME IInv, NEW d \in Devices,
           \/ Switching(d) \/ Joining(d) \/ Hosting(d) \/ Swiping(d)
           \/ Snapshot(d) \/ Listing(d) \/ Environment(d)
    PROVE  \A e \in Devices \ {d} : app'[e] = app[e]
<1> DEFINE Moved == Moves(d) \/ Delivers(d)
<1>1. CASE Switching(d)
    <2>1. Moved
        BY <1>1, SwitchedOnEffect, JoinPressedIdles, CodeEnteredEffect, CreatePressedEffect,
           LeavingEffects, StepsMove DEF Switching
    <2> QED BY <2>1 DEF Moves, Delivers
<1>2. CASE Joining(d)
    <2>1. Moved
        BY <1>2, JoinAnsweredEffect, LeavingEffects, StepsMove DEF Joining
    <2> QED BY <2>1 DEF Moves, Delivers
<1>3. CASE Hosting(d)
    <2>1. Moved
        BY <1>3, CreateAnsweredEffect, StartPressedIdles, StartSessionPressedEffect,
           StartAnsweredEffect, LeavingEffects, StepsMove DEF Hosting
    <2> QED BY <2>1 DEF Moves, Delivers
<1>4. CASE Swiping(d)
    <2>1. Moved
        BY <1>4, SwipeIdles, DidSwipeIdles, SwipeLastEffect, StepsMove DEF Swiping
    <2> QED BY <2>1 DEF Moves, Delivers
<1>5. CASE Snapshot(d)
    <2>1. Moved
        BY <1>5, LobbySnapshotIdles, WaitSnapshotEffect, ResultSnapshotIdles, StepsMove
           DEF Snapshot
    <2> QED BY <2>1 DEF Moves, Delivers
<1>6. CASE Listing(d)
    <2>1. Moved
        BY <1>6, LeavingEffects, StepsMove DEF Listing
    <2> QED BY <2>1 DEF Moves, Delivers
<1>7. CASE Environment(d)
    <2>1. Moved
        BY <1>7, WriteReachesServerEffect, RequestFailsEffect, KilledCrashes, LaunchEffect,
           StepsMove DEF Environment
    <2> QED BY <2>1 DEF Moves, Delivers
<1> QED BY <1>1, <1>2, <1>3, <1>4, <1>5, <1>6, <1>7

\* A host in its lobby is shown its group's document, or presses Start when it
\* has seen the party.
LEMMA LobbySteps ==
    ASSUME NobodyIsKilled, EverybodyIsCareful, NobodyLeaves, IInv, PartyInv, AllSynced, Next,
           NEW h \in Devices, app[h].screen = "lobby", app[h].activeGroupId # Nil,
           \A l \in Attached(app[h]) : l.role = "lobby"
    PROVE  \/ app'[h] = app[h]
           \/ SeesTheParty(app[h]) /\ SameListeners(app[h], app'[h])
           \/ \E l \in Attached(app[h]) : app'[h] = Delivered(app[h], l, View(h, l.code))
<1> DEFINE a == app[h]
<1>1. PICK d \in Devices : \/ Switching(d) \/ Joining(d) \/ Hosting(d) \/ Swiping(d)
                           \/ Snapshot(d) \/ Listing(d) \/ Environment(d)
    BY DEF Next
<1>2. CASE d # h
    BY <1>1, <1>2, OthersStay
<1> SUFFICES ASSUME d = h PROVE \/ app'[h] = a
                                \/ SeesTheParty(a) /\ SameListeners(a, app'[h])
                                \/ \E l \in Attached(a) : app'[h] = Delivered(a, l, View(h, l.code))
    BY <1>2
<1>3. /\ InsideGroup(a, requests[h]) /\ HostedGroup(a, requests[h], outbox[h])
      /\ Entering(requests[h]) = {}
      /\ \A r \in requests[h] : r.kind # "remove"
      /\ IsApp(a)
    BY Unchanged, SoundAppFields DEF PartyInv, Orderly, InOrder, InsideGroup, Guests
<1>4. \A r \in requests[h] : r.kind \notin {"create", "join", "start", "remove"}
    BY <1>3 DEF Entering, HostedGroup, InLobby
<1>5. a.swiped = Nil
    BY DEF AllSynced, Synced, NotStarted, InLobby
<1>6. ~Switching(h)
    BY DEF Switching, SwitchedOn, JoinPressed, CodeEntered, CreatePressed, ConnectCancelled,
           SwitchedOff, ExitCancelled, ExitConfirmed
<1>7. ~Joining(h)
    BY <1>4 DEF Joining, JoinAnswered, LeaveGroupPressed, RemoveAnswered
<1>8. CASE Hosting(h)
    <2>1. StartPressed(h)
        BY <1>4, <1>8 DEF Hosting, CreateAnswered, HostCancelled, StartSessionPressed, StartAnswered,
                          NobodyLeaves
    <2>2. SeesTheParty(a) /\ app'[h] = Show(a, "settings")
        BY <2>1, OnlyAppMoves DEF StartPressed, EverybodyIsCareful
    <2> QED BY <1>3, <2>2, ShowFields DEF SamePlay
<1>9. ~Swiping(h)
    BY <1>5 DEF Swiping, Swipe, SwipeLast, MaySwipe, DidSwipe, Settled
<1>10. CASE Snapshot(h)
    <2>1. LobbySnapshot(h)
        BY <1>10 DEF Snapshot, WaitSnapshot, ResultSnapshot
    <2>2. PICK l \in Attached(a) : OnlyApp(h, Delivered(a, l, View(h, l.code)))
        BY <2>1 DEF LobbySnapshot
    <2> QED BY <2>2, OnlyAppMoves
<1>11. ~Listing(h)
    BY DEF Listing, RestartPressed, RestartCancelled, RestartConfirmed
<1>12. CASE Environment(h)
    <2>1. ~RequestFails(h) /\ ~Launch(h) /\ ~Killed(h)
        <3>1. ~RequestFails(h)
            BY <1>4, Unchanged DEF RequestFails, Requests
        <3>2. ~Launch(h)
            BY DEF Launch
        <3> QED BY <3>1, <3>2, NobodyKills
    <2>2. app' = app
        BY <1>12, <2>1 DEF Environment, WriteReachesServer
    <2> QED BY <2>2
<1> QED BY <1>1, <1>6, <1>7, <1>8, <1>9, <1>10, <1>11, <1>12

LEMMA SizedStep ==
    ASSUME OneHost, NobodyLeaves, IInv, PartyInv, AllAttend, AllOwn, AllExist, Next,
           NEW c \in Codes, Sized(c), SetsSized(c)
    PROVE  Sized(c)'
<1>1. PICK d \in Devices :
          \/ Serves(d, c)
          \/ groups' = groups /\ (SameHeads(c) \/ Arrives(d, c) \/ (Founds(d, c) /\ groups[c] = Nil))
    BY HeadSteps DEF Founds, Opens
<1> DEFINE M == Members(c)
           W == OnTheirWay(c)
<1>2. IsFiniteSet(M) /\ IsFiniteSet(W) /\ Cardinality(M) \in Nat /\ Cardinality(W) \in Nat /\ W \subseteq M
    BY HeadsFinite
<1>3. groups[c] \in Groups \cup {Nil} /\ (groups[c] # Nil => groups[c].participants \in Int)
    BY OutboxTypes DEF Groups
<1>4. groups[c] # Nil => groups[c].participants + Cardinality(W) = Cardinality(M)
    BY DEF Sized
<1>5. CASE groups' = groups /\ SameHeads(c)
    BY <1>5 DEF SameHeads, Sized
<1>6. CASE groups' = groups /\ Founds(d, c) /\ groups[c] = Nil
    BY <1>6 DEF Sized
<1>7. CASE groups' = groups /\ Arrives(d, c)
    <2>1. M' = M \cup {d} /\ W' = W \cup {d} /\ d \notin M
        BY <1>7 DEF Arrives
    <2> HIDE DEF M, W
    <2>2. Cardinality(M \cup {d}) = Cardinality(M) + 1
        BY <1>2, <2>1, FS_AddElement
    <2>3. Cardinality(W \cup {d}) = Cardinality(W) + 1
        BY <1>2, <2>1, FS_AddElement
    <2>4. groups[c] # Nil => groups[c].participants + (Cardinality(W) + 1) = Cardinality(M) + 1
        BY <1>2, <1>3, <1>4
    <2>5. groups'[c] # Nil => groups'[c].participants + Cardinality(W') = Cardinality(M')
        BY <1>7, <2>1, <2>2, <2>3, <2>4
    <2> QED BY <2>5 DEF M, W, Sized
<1>8. CASE Serves(d, c)
    <2> DEFINE q == outbox[d]
               w == Head(q)
    <2>1. /\ q # <<>> /\ q \in Seq(Writes) /\ w \in Writes
          /\ groups'[c] = IF w.code = c THEN ApplyWrite(groups[c], w) ELSE groups[c]
        BY <1>8, OutboxTypes DEF Serves, Delivers
    <2>2. /\ M' = M
          /\ IF w.code = c /\ w.op = "join" THEN d \in W /\ W' = W \ {d} ELSE W' = W
        BY <1>8 DEF Serves
    <2>3. /\ w = q[1] /\ 1 \in DOMAIN q
        BY <2>1, TakenWrite
    <2> HIDE DEF M, W, w
    <2>4. CASE w.code # c
        <3>1. groups'[c] # Nil => groups'[c].participants + Cardinality(W') = Cardinality(M')
            BY <1>4, <2>1, <2>2, <2>4
        <3> QED BY <3>1 DEF M, W, Sized
    <2>5. CASE w.code = c /\ w.op = "set"
        <3>1. 1 \in PendingSets(q, c)
            BY <2>3, <2>5 DEF PendingSets
        <3>2. w.group.participants = Cardinality(M) /\ W = {}
            BY <2>3, <3>1 DEF SetsSized, M, W
        <3>3. Cardinality({}) = 0
            BY FS_EmptySet
        <3>4. groups'[c].participants = Cardinality(M) /\ W' = {} /\ M' = M
            BY <2>1, <2>2, <2>5, <3>2, Replaced
        <3>5. groups'[c].participants + Cardinality(W') = Cardinality(M')
            BY <1>2, <3>3, <3>4
        <3> QED BY <3>5 DEF M, W, Sized
    <2>6. CASE w.code = c /\ w.op # "set" /\ groups[c] = Nil
        BY <2>1, <2>6, UpdatedNil DEF Sized
    <2>7. CASE w.code = c /\ w.op # "set" /\ groups[c] # Nil
        <3>1. groups'[c].participants = IF w.op = "join" THEN groups[c].participants + 1
                                        ELSE groups[c].participants
            BY <1>3, <2>1, <2>7, CountedUp
        <3>2. w.op = "join" => Cardinality(W') = Cardinality(W) - 1
            BY <1>2, <2>2, <2>7, FS_RemoveElement
        <3>3. groups'[c].participants + Cardinality(W') = Cardinality(M')
            <4>1. CASE w.op = "join"
                BY <1>2, <1>3, <1>4, <2>2, <2>7, <3>1, <3>2, <4>1
            <4>2. CASE w.op # "join"
                BY <1>2, <1>3, <1>4, <2>2, <2>7, <3>1, <4>2
            <4> QED BY <4>1, <4>2
        <3> QED BY <3>3 DEF M, W, Sized
    <2> QED BY <2>4, <2>5, <2>6, <2>7
<1> QED BY <1>1, <1>5, <1>6, <1>7, <1>8

LEMMA HostedStep ==
    ASSUME NobodyLeaves, IInv, PartyInv, AllAttend, AllOwn, Next, NEW c \in Codes, Hosted(c)
    PROVE  Hosted(c)'
<1>1. PICK d \in Devices : Delivers(d) \/ groups' = groups
    BY PartySteps
<1>2. ASSUME NEW h \in Hosts, h \in Members(c)
      PROVE  h \in Members(c)'
    <2>1. h \in Devices /\ app[h].activeGroupId = c
        BY <1>2 DEF Members
    <2>2. app'[h].activeGroupId = c
        BY <2>1, MemberStep, NilAssumption
    <2> QED BY <2>1, <2>2 DEF Members
<1>3. CASE groups[c] # Nil
    BY <1>2, <1>3 DEF Hosted
<1>4. CASE groups[c] = Nil /\ groups'[c] # Nil
    <2> DEFINE w == Head(outbox[d])
    <2>1. Delivers(d)
        BY <1>1, <1>4
    <2>2. /\ outbox[d] # <<>> /\ outbox[d] \in Seq(Writes)
          /\ groups'[c] = IF w.code = c THEN ApplyWrite(groups[c], w) ELSE groups[c]
        BY <2>1, OutboxTypes DEF Delivers
    <2>3. w.code = c /\ w.op = "set"
        BY <1>4, <2>2, UpdatedNil
    <2>4. w.code = app[d].activeGroupId
        BY <2>2, OwnTaken DEF AllOwn
    <2>5. ~NoSets(outbox[d])
        BY <2>2, <2>3, NoSetsKept
    <2>6. d \in Hosts
        BY <2>5 DEF PartyInv, Guests, Guest
    <2>7. d \in Members(c)
        BY <2>3, <2>4 DEF Members
    <2> QED BY <1>2, <2>6, <2>7 DEF Hosted
<1> QED BY <1>3, <1>4 DEF Hosted

\* Where everybody is there, everybody stays.
LEMMA EverybodyStays ==
    ASSUME OneHost, NobodyLeaves, IInv, PartyInv, AllAttend, AllOwn, AllExist, Next,
           NEW c \in Codes, Everybody(c)
    PROVE  Everybody(c)'
<1>1. PICK d \in Devices :
          Serves(d, c) \/ SameHeads(c) \/ Arrives(d, c) \/ Founds(d, c)
    BY HeadSteps
<1>2. Members(c) = Devices /\ OnTheirWay(c) = {}
    BY DEF Everybody
<1>3. ~Arrives(d, c) /\ ~Founds(d, c)
    BY <1>2 DEF Arrives, Founds
<1>4. Members(c)' = Devices /\ OnTheirWay(c)' = {}
    BY <1>1, <1>2, <1>3 DEF Serves, SameHeads
<1> QED BY <1>4 DEF Everybody

LEMMA SetsSizedStep ==
    ASSUME OneHost, NobodyLeaves, IInv, PartyInv, AllAttend, AllOwn, AllExist, NewAreFirst, Next,
           NEW c \in Codes, HeadsIn(c)
    PROVE  SetsSized(c)'
<1>1. PICK d \in Devices :
          \/ Serves(d, c)
          \/ /\ Moves(d) /\ groups' = groups
             /\ \/ SameHeads(c) /\ (Remains(d) \/ Begins(d))
                \/ SameHeads(c) /\ (Enters(d) \/ Opens(d)) /\ app'[d].activeGroupId # c
                \/ Arrives(d, c)
                \/ Founds(d, c)
    BY HeadSteps
<1> SUFFICES ASSUME NEW e \in Devices, NEW i \in PendingSets(outbox'[e], c)
             PROVE  LET g == outbox'[e][i].group IN
                    /\ g.participants = Cardinality(Members(c)') /\ OnTheirWay(c)' = {}
                    /\ g.swipingSessionRunning => Members(c)' = Devices
    BY DEF SetsSized
<1>2. SetsSized(c)
    BY DEF HeadsIn
\* The write was there before.
<1>3. ASSUME NEW j \in PendingSets(outbox[e], c), outbox'[e][i] = outbox[e][j]
      PROVE  LET g == outbox'[e][i].group IN
             /\ g.participants = Cardinality(Members(c)') /\ OnTheirWay(c)' = {}
             /\ g.swipingSessionRunning => Members(c)' = Devices
    <2> DEFINE g == outbox[e][j].group
    <2>1. /\ g.participants = Cardinality(Members(c)) /\ OnTheirWay(c) = {}
          /\ g.swipingSessionRunning => Members(c) = Devices
        BY <1>2 DEF SetsSized
    <2>2. CASE Serves(d, c) \/ SameHeads(c)
        <3>1. Members(c)' = Members(c) /\ OnTheirWay(c)' = {}
            BY <2>1, <2>2 DEF Serves, SameHeads
        <3> QED BY <1>3, <2>1, <3>1
    <2>3. ~Arrives(d, c)
        <3> SUFFICES ASSUME Arrives(d, c) PROVE FALSE
            OBVIOUS
        <3>1. groups[c] # Nil /\ d \notin Members(c)
            BY DEF Arrives, Enters
        <3>2. g.swipingSessionRunning
            BY <3>1 DEF NewAreFirst, NewIsFirst
        <3> QED BY <2>1, <3>1, <3>2
    <2>4. ~Founds(d, c)
        <3>1. outbox[e][j].code = c /\ j \in DOMAIN outbox[e]
            BY DEF PendingSets
        <3>2. app[e].activeGroupId = c
            BY <3>1 DEF AllOwn, OwnQueue
        <3>3. e \in Members(c)
            BY <3>2 DEF Members
        <3> QED BY <3>3 DEF Founds
    <2> QED BY <1>1, <2>2, <2>3, <2>4
<1>4. CASE e # d
    BY <1>1, <1>3, <1>4 DEF Serves, Delivers, Moves
<1>5. CASE e = d /\ Serves(d, c)
    <2>1. outbox[d] # <<>> /\ outbox'[d] = Tail(outbox[d]) /\ outbox[d] \in Seq(Writes)
        BY <1>5, OutboxTypes DEF Serves, Delivers
    <2>2. i \in PendingSets(Tail(outbox[d]), c)
        BY <1>5, <2>1
    <2>3. i + 1 \in PendingSets(outbox[d], c) /\ Tail(outbox[d])[i] = outbox[d][i + 1]
        BY <2>1, <2>2, PendingTaken
    <2> QED BY <1>3, <1>5, <2>1, <2>3
<1>6. i \in DOMAIN outbox'[e] /\ outbox'[e][i].code = c /\ outbox'[e][i].op = "set"
    BY DEF PendingSets
<1>7. CASE e = d /\ Remains(d)
    BY <1>3, <1>7 DEF Remains
<1>8. CASE e = d /\ Enters(d)
    BY <1>6, <1>8 DEF Enters, NoSets
<1>9. CASE e = d /\ Opens(d)
    <2>1. app'[d].activeGroupId = c /\ outbox'[d][i].group = NewGroup
        BY <1>6, <1>9 DEF Opens, OwnQueue
    <2>2. Founds(d, c) \/ Serves(d, c)
        <3>1. app[d].activeGroupId = Nil /\ app'[d].activeGroupId # Nil
            BY <1>9, NilAssumption DEF Opens
        <3>2. ~Remains(d) /\ ~Begins(d)
            BY <3>1, NilAssumption DEF Remains, Begins
        <3>3. ~Arrives(d, c)
            BY <1>9 DEF Arrives, Enters, Opens
        <3> QED BY <1>1, <2>1, <3>2, <3>3
    <2>3. CASE Founds(d, c)
        <3>1. Members(c)' = {d} /\ OnTheirWay(c)' = {}
            BY <2>3 DEF Founds
        <3>2. Cardinality({d}) = 1
            BY FS_Singleton
        <3>3. NewGroup.participants = 1 /\ ~NewGroup.swipingSessionRunning
            BY DEF NewGroup
        <3> QED BY <1>9, <2>1, <3>1, <3>2, <3>3
    <2> QED BY <1>5, <1>9, <2>2, <2>3
<1>10. CASE e = d /\ Begins(d) /\ ~Serves(d, c)
    <2> DEFINE k == app[d].activeGroupId
    <2>1. /\ k \in Codes /\ d \in Hosts /\ ~InLobby(app[d]) /\ View(d, k) # Nil
          /\ \/ i \in PendingSets(outbox[d], c) /\ outbox'[d][i] = outbox[d][i]
             \/ /\ c = k
                /\ \E deck \in HostDecks : outbox'[d][i].group = StartedGroup(View(d, k), deck)
        BY <1>10 DEF Begins
    <2>2. CASE i \in PendingSets(outbox[d], c) /\ outbox'[d][i] = outbox[d][i]
        BY <1>3, <1>10, <2>2
    <2>3. ASSUME c = k, NEW deck \in HostDecks,
                 outbox'[d][i].group = StartedGroup(View(d, c), deck)
          PROVE  LET g == outbox'[e][i].group IN
                 /\ g.participants = Cardinality(Members(c)') /\ OnTheirWay(c)' = {}
                 /\ g.swipingSessionRunning => Members(c)' = Devices
        <3>1. d \in Members(c)
            BY <2>3 DEF Members
        <3>2. ~StillComes(outbox[d]) /\ Everybody(c)
            BY <2>1, <3>1 DEF HeadsIn, WatchedBy, InLobby
        <3>3. /\ View(d, c).participants \in Int
              /\ View(d, c).participants + Cardinality(OnTheirWay(c)) = Cardinality(Members(c))
            BY <2>1, <2>3, <3>2, ViewSized DEF HeadsIn
        <3>4. View(d, c) \in Groups
            BY <2>1, <2>3, OutboxTypes
        <3> HIDE DEF View
        <3>5. StartedGroup(View(d, c), deck).participants = View(d, c).participants
            BY <3>4 DEF StartedGroup, Groups
        <3>6. Everybody(c)'
            BY <3>2, EverybodyStays
        <3>7. /\ Members(c) = Devices /\ Members(c)' = Devices
              /\ OnTheirWay(c) = {} /\ OnTheirWay(c)' = {}
            BY <3>2, <3>6 DEF Everybody
        <3>8. View(d, c).participants = Cardinality(Members(c)')
            <4>1. Cardinality({}) = 0
                BY FS_EmptySet
            <4> QED BY <3>3, <3>7, <4>1
        <3> QED BY <1>10, <2>3, <3>5, <3>7, <3>8
    <2> QED BY <2>1, <2>2, <2>3
<1> QED BY <1>1, <1>4, <1>5, <1>7, <1>8, <1>9, <1>10 DEF Arrives, Founds

LEMMA WatchedStep ==
    ASSUME OneHost, NobodyLeaves, EverybodyIsCareful, NobodyIsKilled, WholeParty,
           IInv, PartyInv, AllSynced, AllAttend, AllOwn, AllExist, Next,
           NEW c \in Codes, HeadsIn(c), NEW h \in Hosts
    PROVE  WatchedBy(h, c)'
<1>1. PICK d \in Devices :
          \/ Serves(d, c)
          \/ /\ Moves(d) /\ groups' = groups
             /\ \/ SameHeads(c) /\ (Remains(d) \/ Begins(d))
                \/ SameHeads(c) /\ (Enters(d) \/ Opens(d)) /\ app'[d].activeGroupId # c
                \/ Arrives(d, c)
                \/ Founds(d, c)
    BY HeadSteps
<1> SUFFICES ASSUME h \in Members(c)'
             PROVE  /\ ~StillComes(outbox'[h])
                    /\ \/ Everybody(c)'
                       \/ app'[h].screen = "lobby" /\ Watched(app[h], c)'
    BY DEF WatchedBy
<1>2. h \in Devices /\ app'[h].activeGroupId = c
    BY DEF Members
<1>3. CASE h \notin Members(c)
    <2>1. (Arrives(d, c) \/ Founds(d, c)) /\ d = h
        BY <1>1, <1>3 DEF Serves, SameHeads, Arrives, Founds
    <2>2. ~Arrives(d, c)
        <3> SUFFICES ASSUME Arrives(d, c) PROVE FALSE
            OBVIOUS
        <3>1. groups[c] # Nil
            BY DEF Arrives, Enters
        <3>2. PICK k \in Hosts : k \in Members(c)
            BY <3>1 DEF HeadsIn, Hosted
        <3> QED BY <1>3, <3>2 DEF OneHost
    <2>3. Opens(h)
        BY <2>1, <2>2 DEF Founds
    <2> DEFINE l == [role |-> "lobby", code |-> c, seen |-> Nil]
    <2>4. /\ ~StillComes(outbox'[h]) /\ app'[h].screen = "lobby"
          /\ app'[h].activeEventListener = l /\ app'[h].leaked = {}
        BY <1>2, <2>3 DEF Opens
    <2>5. l.role = "lobby" /\ l.seen = Nil
        OBVIOUS
    <2> HIDE DEF l
    <2>6. Watched(app[h], c)'
        BY <2>4, <2>5 DEF Watched, Attached
    <2> QED BY <2>4, <2>6
<1>4. CASE h \in Members(c)
    <2> DEFINE a == app[h]
    <2>1. /\ a.activeGroupId = c /\ a.activeGroupId # Nil
          /\ ~StillComes(outbox[h])
          /\ Everybody(c) \/ (a.screen = "lobby" /\ Watched(a, c))
        BY <1>4, NilAssumption DEF Members, HeadsIn, WatchedBy
    <2>2. ~StillComes(outbox'[h])
        <3>1. CASE d # h
            BY <1>1, <1>2, <2>1, <3>1 DEF Serves, Delivers, Moves
        <3>2. CASE d = h /\ Serves(d, c)
            <4>1. outbox[h] # <<>> /\ outbox'[h] = Tail(outbox[h]) /\ outbox[h] \in Seq(Writes)
                BY <3>2, OutboxTypes DEF Serves, Delivers
            <4> QED BY <1>2, <4>1, OwnTaken DEF AllOwn
        <3>3. CASE d = h /\ (Remains(d) \/ Begins(d))
            BY <2>1, <3>3 DEF Remains, Begins
        <3>4. d = h => ~Enters(d) /\ ~Opens(d)
            BY <2>1 DEF Enters, Opens
        <3> QED BY <1>1, <3>1, <3>2, <3>3, <3>4 DEF Arrives, Founds
    <2>3. CASE Everybody(c)
        BY <2>2, <2>3, EverybodyStays
    <2>4. CASE a.screen = "lobby" /\ Watched(a, c)
        <3>1. \A l \in Attached(a) : l \in Listeners /\ l.role = "lobby" /\ l.code = c
            <4>1. \A l \in Attached(a) : l.code = c
                BY <1>2, <2>1 DEF PartyInv, Orderly, InOrder, InsideGroup
            <4> QED BY <1>2, <2>4, <4>1, Unchanged, AttachedListeners DEF Watched
        <3>2. ASSUME NEW g \in Groups,
                     g.participants + Cardinality(OnTheirWay(c)) <= Cardinality(Members(c))
              PROVE  g.participants + Cardinality(OnTheirWay(c)') <= Cardinality(Members(c)')
            <4>1. g.participants \in Int
                BY DEF Groups
            <4> QED BY <3>2, <4>1, Surplus
        <3>3. \A l \in Attached(a) :
                  l.seen # Nil =>
                    l.seen.participants + Cardinality(OnTheirWay(c)') <= Cardinality(Members(c)')
            BY <2>4, <3>1, <3>2 DEF Watched, Listeners
        <3>4. CASE app'[h] = a
            <4>1. Watched(app[h], c)'
                BY <3>1, <3>3, <3>4 DEF Watched
            <4> QED BY <2>2, <2>4, <3>4, <4>1
        <3>5. CASE SeesTheParty(a)
            <4> DEFINE l == a.activeEventListener
            <4>1. l \in Attached(a) /\ l.seen # Nil /\ l.seen.participants >= Cardinality(Devices)
                BY <3>5 DEF SeesTheParty, WholeParty, Attached
            <4> HIDE DEF l
            <4>2. l.seen.participants \in Int
                BY <3>1, <4>1 DEF Listeners, Groups
            <4>3. l.seen.participants + Cardinality(OnTheirWay(c)) <= Cardinality(Members(c))
                BY <2>4, <4>1 DEF Watched
            <4>4. Cardinality(OnTheirWay(c)) = 0 /\ Cardinality(Members(c)) = Cardinality(Devices)
                <5>1. /\ Cardinality(Members(c)) \in Nat /\ Cardinality(OnTheirWay(c)) \in Nat
                      /\ Cardinality(Members(c)) <= Cardinality(Devices) /\ Cardinality(Devices) \in Nat
                    BY HeadsFinite
                <5> QED BY <4>1, <4>2, <4>3, <5>1
            <4>5. OnTheirWay(c) = {}
                BY <4>4, HeadsFinite, FS_EmptySet
            <4>6. Members(c) = Devices
                BY <4>4, HeadsFinite
            <4> QED BY <2>2, <4>5, <4>6, EverybodyStays DEF Everybody
        <3>6. ASSUME NEW l \in Attached(a), app'[h] = Delivered(a, l, View(h, l.code))
              PROVE  /\ ~StillComes(outbox'[h])
                     /\ \/ Everybody(c)'
                        \/ app'[h].screen = "lobby" /\ Watched(app[h], c)'
            <4> DEFINE g == View(h, c)
            <4>1. l.code = c /\ l \in Listeners /\ l.role = "lobby"
                BY <3>1
            <4>2. g \in Groups \cup {Nil} /\ a \in Apps /\ IsApp(a)
                BY <1>2, OutboxTypes, Unchanged, SoundAppFields
            <4>3. g # Nil => g.participants + Cardinality(OnTheirWay(c)) <= Cardinality(Members(c))
                <5>1. Cardinality(Members(c)) \in Nat /\ Cardinality(OnTheirWay(c)) \in Nat
                    BY HeadsFinite
                <5>2. g # Nil => /\ g.participants \in Int
                                 /\ g.participants + Cardinality(OnTheirWay(c)) = Cardinality(Members(c))
                    BY <1>2, <2>1, ViewSized DEF HeadsIn
                <5> QED BY <5>1, <5>2
            <4> HIDE DEF g
            <4>4. app'[h] = Delivered(a, l, g)
                BY <3>6, <4>1 DEF g
            <4>5. app'[h].screen = "lobby"
                BY <2>4, <4>2, <4>4, DeliveredFields
            <4>6. \A m \in Attached(app'[h]) :
                      /\ m.role = "lobby"
                      /\ m.seen # Nil =>
                            m.seen.participants + Cardinality(OnTheirWay(c)') <= Cardinality(Members(c)')
                <5> TAKE m \in Attached(app'[h])
                <5>1. m \in Attached(a) \/ (m.role = l.role /\ m.seen = g)
                    BY <4>1, <4>2, <4>4, CalledListener
                <5> QED BY <3>1, <3>2, <3>3, <4>1, <4>2, <4>3, <5>1
            <4> QED BY <2>2, <4>5, <4>6 DEF Watched
        <3>7. \/ app'[h] = a \/ SeesTheParty(a)
              \/ \E l \in Attached(a) : app'[h] = Delivered(a, l, View(h, l.code))
            BY <1>2, <2>1, <2>4, <3>1, LobbySteps
        <3> QED BY <3>4, <3>5, <3>6, <3>7
    <2> QED BY <2>1, <2>3, <2>4
<1> QED BY <1>3, <1>4

-----------------------------------------------------------------------------
HeadsInv == NewAreFirst /\ AllSynced /\ AllAttend /\ AllOwn /\ AllHeads

LEMMA HeadsInvInit == Init => HeadsInv
BY NewAreFirstInit, SyncedInit, AttendInit, OwnInit, HeadsInit DEF HeadsInv

LEMMA HeadsNext ==
    ASSUME OneHost, NobodyLeaves, EverybodyIsCareful, NobodyIsKilled, WholeParty,
           IInv, PartyInv, VotingInv, HeadsInv, [Next]_vars
    PROVE  HeadsInv'
<1>1. CASE Next
    <2>1. NobodyCancels /\ AllDrawn /\ AllExist /\ Guests
        BY DEF NobodyCancels, NobodyLeaves, VotingInv, PartyInv
    <2>2. NewAreFirst' /\ AllSynced'
        BY <1>1, <2>1, NewAreFirstStep, SyncedStep DEF HeadsInv, PartyInv
    <2>3. AllAttend' /\ AllOwn'
        BY <1>1, <2>1, AttendStep, OwnStep DEF HeadsInv
    <2>4. ASSUME NEW c \in Codes \ OldCodes
          PROVE  HeadsIn(c)'
        <3>1. HeadsIn(c) /\ Sized(c) /\ Hosted(c) /\ SetsSized(c)
            BY DEF HeadsInv, AllHeads, HeadsIn
        <3>2. Sized(c)' /\ Hosted(c)'
            BY <1>1, <2>1, <3>1, SizedStep, HostedStep DEF HeadsInv
        <3>3. SetsSized(c)'
            BY <1>1, <2>1, <3>1, SetsSizedStep DEF HeadsInv
        <3>4. \A h \in Hosts : WatchedBy(h, c)'
            BY <1>1, <2>1, <3>1, WatchedStep DEF HeadsInv
        <3> QED BY <3>2, <3>3, <3>4 DEF HeadsIn
    <2>5. AllHeads'
        BY <2>4 DEF AllHeads, OldCodes
    <2> QED BY <2>2, <2>3, <2>5 DEF HeadsInv
<1>2. CASE UNCHANGED vars
    <2>1. groups' = groups /\ outbox' = outbox /\ app' = app
        BY <1>2 DEF vars
    <2>2. NewAreFirst' /\ AllSynced' /\ AllAttend' /\ AllOwn'
        BY <2>1 DEF HeadsInv, NewAreFirst, NewIsFirst, AllSynced, AllAttend, AllOwn
    <2>3. ASSUME NEW c \in Codes \ OldCodes
          PROVE  HeadsIn(c)'
        <3>1. HeadsIn(c)
            BY DEF HeadsInv, AllHeads
        <3>2. Members(c)' = Members(c) /\ OnTheirWay(c)' = OnTheirWay(c)
            BY <2>1 DEF Members, OnTheirWay
        <3> QED BY <2>1, <3>1, <3>2
                DEF HeadsIn, Sized, Hosted, SetsSized, WatchedBy, Watched, Everybody
    <2>4. AllHeads'
        BY <2>3 DEF AllHeads, OldCodes
    <2> QED BY <2>2, <2>4 DEF HeadsInv
<1> QED BY <1>1, <1>2

LEMMA HeadsAreCounted ==
    ASSUME IInv, HeadsInv
    PROVE  HeadCount
<1> SUFFICES ASSUME Quiet, NEW c \in Codes \ OldCodes, groups[c] # Nil
             PROVE  groups[c].participants = Cardinality(Members(c))
    BY DEF HeadCount
<1>1. OnTheirWay(c) = {}
    BY EmptyIsOwn DEF Quiet, OnTheirWay, Members
<1>2. groups[c].participants + Cardinality(OnTheirWay(c)) = Cardinality(Members(c))
    BY DEF HeadsInv, AllHeads, HeadsIn, Sized
<1>3. Cardinality({}) = 0
    BY FS_EmptySet
<1>4. groups[c].participants \in Int
    BY DealtSubset DEF IInv, Groups
<1> QED BY <1>1, <1>2, <1>3, <1>4

\* When nothing is on its way, the participants in a group's document are the
\* devices that are in it, in a party with one host that waits in its lobby
\* for everybody there is, whom nobody deserts and whose apps are not killed:
\* the increments of addOneParticipant, the host's document that replaces the
\* counted one when the session starts, and what the lobby was shown before
\* (startOnlineSession of FirebaseManager), lose nobody and count nobody
\* twice, whatever reads fail and however the writes of the devices cross.
THEOREM PartyIsCounted ==
    ASSUME OneHost, NobodyLeaves, EverybodyIsCareful, NobodyIsKilled, WholeParty
    PROVE  Spec => []HeadCount
<1>1. IInv /\ PartyInv /\ [Next]_vars => PartyInv'
    BY PartyNext
<1>2. IInv /\ PartyInv /\ VotingInv /\ [Next]_vars /\ IInv' /\ PartyInv' => VotingInv'
    BY VotingNext
<1>3. IInv /\ PartyInv /\ VotingInv /\ HeadsInv /\ [Next]_vars => HeadsInv'
    BY HeadsNext
<1>4. IInv /\ HeadsInv => HeadCount
    BY HeadsAreCounted
<1> QED BY PartyInit, VotingInit, HeadsInvInit, <1>1, <1>2, <1>3, <1>4, Invariance, PTL DEF Spec

-----------------------------------------------------------------------------
(***************************************************************************)
(* The result, in a party that is complete before its host starts, whose   *)
(* users type the code of a new group, and whose deck has each dinner      *)
(* once.                                                                   *)
(***************************************************************************)
\* Which groups there are from before is fixed, and nobody types the code of one.
KnownCodes == /\ \A A, B \in Collections : A = B
              /\ TypedCodes \cap OldCodes = {}

\* startSessionPressed draws dinners without replacement.
DistinctCards == \A deck \in HostDecks : \A i, j \in DOMAIN deck : deck[i] = deck[j] => i = j

FairParty == /\ OneHost /\ NobodyLeaves /\ EverybodyIsCareful /\ NobodyIsKilled /\ WholeParty
             /\ KnownCodes /\ DistinctCards

SessionInv == IInv /\ PartyInv /\ VotingInv /\ DecksInv /\ HeadsInv

\* What the parts say that is needed throughout.
LEMMA SessionParts ==
    ASSUME FairParty, SessionInv
    PROVE  /\ OneHost /\ NobodyLeaves /\ EverybodyIsCareful /\ NobodyIsKilled /\ AllCareful
           /\ IInv /\ PartyInv /\ Guests /\ Orderly /\ AllDrawn /\ AllExist
           /\ AllAttend /\ AllOwn /\ AllSynced /\ AllTallied
BY DEF FairParty, SessionInv, PartyInv, VotingInv, HeadsInv, DecksInv, EverybodyIsCareful, AllCareful

LEMMA SessionInit == Init => SessionInv
BY InvInit, PartyInit, VotingInit, DecksInit, HeadsInvInit DEF SessionInv

LEMMA SessionNext ==
    ASSUME FairParty
    PROVE  SessionInv /\ [Next]_vars => SessionInv'
<1>1. OneHost /\ NobodyLeaves /\ EverybodyIsCareful /\ NobodyIsKilled /\ WholeParty /\ AllCareful
    BY DEF FairParty, EverybodyIsCareful, AllCareful
<1> SUFFICES ASSUME SessionInv, [Next]_vars PROVE SessionInv'
    OBVIOUS
<1>2. IInv /\ PartyInv /\ VotingInv /\ DecksInv /\ HeadsInv
    BY DEF SessionInv
<1>3. IInv' /\ PartyInv'
    BY <1>1, <1>2, InvNext, PartyNext
<1>4. VotingInv' /\ DecksInv' /\ HeadsInv'
    BY <1>1, <1>2, <1>3, VotingNext, DecksNext, HeadsNext
<1> QED BY <1>3, <1>4 DEF SessionInv

\* One of the steps of one device.
LEMMA SessionCases ==
    ASSUME FairParty, SessionInv, Next
    PROVE  \E d \in Devices :
              \/ Idles(d) \/ Crashes(d) \/ SwitchesOn(d) \/ AsksToJoin(d) \/ AsksToCreate(d)
              \/ Joins(d) \/ Creates(d) \/ DealsDeck(d) \/ StartsGroup(d) \/ RunsOut(d)
              \/ Starts(d) \/ LosesRequest(d) \/ Launches(d) \/ Delivers(d)
BY SessionParts, NextCases, NobodyGoes

\* How a device gets into a group.
LEMMA NewMember ==
    ASSUME FairParty, SessionInv, Next, NEW d \in Devices, NEW c \in Codes,
           app[d].activeGroupId # c, app'[d].activeGroupId = c
    PROVE  \/ groups[c] # Nil /\ \E r \in requests[d] : r.kind = "join" /\ r.code = c
           \/ groups[c] = Nil /\ outbox'[d] # <<>> /\ outbox'[d][1].op = "set"
<1> DEFINE a == app[d]
           b == app'[d]
           q == outbox[d]
<1>0. NobodyLeaves /\ IInv /\ PartyInv /\ AllAttend /\ AllOwn /\ InOrder(a, requests[d], q)
    BY SessionParts DEF Orderly
<1>1. PICK e \in Devices :
              \/ Idles(e) \/ Crashes(e) \/ SwitchesOn(e) \/ AsksToJoin(e) \/ AsksToCreate(e)
              \/ Joins(e) \/ Creates(e) \/ DealsDeck(e) \/ StartsGroup(e) \/ RunsOut(e)
              \/ Starts(e) \/ LosesRequest(e) \/ Launches(e) \/ Delivers(e)
    BY SessionCases
<1>2. e = d /\ ~Delivers(e)
    BY <1>1, StepsMove DEF Moves, Delivers
<1>3. ~Idles(d) /\ ~Crashes(d) /\ ~RunsOut(d) /\ ~Starts(d) /\ ~DealsDeck(d)
    BY DEF Idles, Crashes, RunsOut, Starts, DealsDeck, SameMembership
<1>4. ~SwitchesOn(d) /\ ~AsksToJoin(d) /\ ~AsksToCreate(d)
    BY DEF SwitchesOn, AsksToJoin, AsksToCreate, Asks
<1>5. ~StartsGroup(d) /\ ~LosesRequest(d)
    BY DEF StartsGroup, LosesRequest
<1>6. ~Launches(d)
    <2>1. SUFFICES ASSUME Launches(d) PROVE FALSE
        OBVIOUS
    <2>2. PICK deck \in LocalDecks : app'[d] = LaunchedApp(deck, app[d].session)
        BY <2>1 DEF Launches
    <2>3. LaunchedApp(deck, app[d].session).activeGroupId = Nil
        BY DEF LaunchedApp
    <2>4. c = Nil
        BY <2>2, <2>3
    <2> QED BY <2>4, NilAssumption
<1>7. CASE Joins(d)
    <2>1. PICK r \in requests[d] :
              /\ Answers(d, r) /\ r.kind = "join" /\ r.code \in Codes
              /\ View(d, r.code) # Nil /\ b.activeGroupId = r.code
        BY <1>7 DEF Joins
    <2>2. NoSets(q)
        BY <1>0, <2>1, AnsweredOutside
    <2>3. groups[c] # Nil
        <3>1. PendingSets(q, c) = {}
            BY <2>2 DEF NoSets, PendingSets
        <3>2. View(d, c) = LocalView(groups[c], q, c) /\ groups[c] \in Groups \cup {Nil} /\ q \in Seq(Writes)
            BY <1>0, OutboxTypes DEF View
        <3> QED BY <2>1, <3>1, <3>2 DEF LocalView, BaseDocument
    <2> QED BY <2>1, <2>3
<1>8. CASE Creates(d)
    <2>1. PICK r \in requests[d], k \in Codes :
              /\ Answers(d, r) /\ r.kind = "create"
              /\ View(d, k) = Nil /\ outbox'[d] = q \o <<SetData(k, NewGroup)>>
              /\ b.activeGroupId = k
        BY <1>8 DEF Creates
    <2>2. a.activeGroupId = Nil
        BY <1>0, <2>1, AnsweredOutside
    <2>3. q = <<>>
        BY <1>0, <2>2, OutsideIsEmpty DEF AllOwn
    <2>4. groups[c] = Nil
        BY <1>0, <2>1, UnseenIsNew
    <2>5. outbox'[d] = <<SetData(k, NewGroup)>>
        BY <2>1, <2>3
    <2>6. SetData(k, NewGroup).op = "set"
        BY DEF SetData
    <2> HIDE DEF q
    <2>7. outbox'[d] # <<>> /\ outbox'[d][1].op = "set"
        BY <2>5, <2>6
    <2> QED BY <2>4, <2>7
<1> QED BY <1>1, <1>2, <1>3, <1>4, <1>5, <1>6, <1>7, <1>8

\* What a device sends stays in its queue until the server has it.
LEMMA QueueStays ==
    ASSUME FairParty, SessionInv, Next, NEW d \in Devices
    PROVE  KeepsSending(d)
<1>0. NobodyLeaves /\ IInv /\ PartyInv /\ AllAttend /\ AllOwn /\ InOrder(app[d], requests[d], outbox[d])
    BY SessionParts DEF Orderly
<1>1. outbox'[d] = <<>> \/ KeepsSending(d)
    BY <1>0, QueueKept
<1>2. outbox[d] \in Seq(Writes)
    BY <1>0, OutboxTypes
<1>3. CASE outbox[d] = <<>>
    BY <1>3 DEF KeepsSending
<1>4. CASE outbox[d] # <<>>
    <2>1. app[d].activeGroupId # Nil
        BY <1>0, <1>4, OutsideIsEmpty DEF AllOwn
    <2>2. PICK e \in Devices :
              \/ Idles(e) \/ Crashes(e) \/ SwitchesOn(e) \/ AsksToJoin(e) \/ AsksToCreate(e)
              \/ Joins(e) \/ Creates(e) \/ DealsDeck(e) \/ StartsGroup(e) \/ RunsOut(e)
              \/ Starts(e) \/ LosesRequest(e) \/ Launches(e) \/ Delivers(e)
        BY SessionCases
    <2>3. CASE e # d
        <3>1. outbox'[d] = outbox[d]
            BY <2>2, <2>3, StepsMove DEF Moves, Delivers
        <3> QED BY <3>1 DEF KeepsSending
    <2>4. ~AsksToCreate(d)
        BY <1>0, <2>1 DEF AsksToCreate, Asks, InOrder, InsideGroup, AsksToEnter
    <2>5. ~Launches(d)
        BY <1>0, <2>1 DEF Launches, AllAttend, Attends
    <2>6. Idles(d) \/ Crashes(d) \/ SwitchesOn(d) \/ Starts(d) => outbox'[d] = outbox[d]
        BY DEF Idles, Crashes, SwitchesOn, Starts, MovesAlone
    <2>7. AsksToJoin(d) \/ DealsDeck(d) \/ LosesRequest(d) => outbox'[d] = outbox[d]
        BY DEF AsksToJoin, DealsDeck, LosesRequest
    <2>8. outbox'[d] = outbox[d] => KeepsSending(d)
        BY DEF KeepsSending
    <2>9. Delivers(d) => KeepsSending(d)
        BY DEF KeepsSending
    <2> QED BY <1>0, <2>2, <2>3, <2>4, <2>5, <2>6, <2>7, <2>8, <2>9, SenderKeeps
<1> QED BY <1>3, <1>4

-----------------------------------------------------------------------------
(***************************************************************************)
(* Everybody is in a new group, whose document is the first thing that its *)
(* host sends.                                                             *)
(***************************************************************************)
NewCodes == /\ \A d \in Devices : app[d].activeGroupId \notin OldCodes
            /\ \A d \in Devices : \A r \in requests[d] : r.kind = "join" => r.code \in TypedCodes
            /\ \A c \in OldCodes : groups[c] # Nil

HostFirst ==
    \A d \in Devices, c \in Codes :
        app[d].activeGroupId = c /\ groups[c] = Nil => outbox[d] # <<>> /\ outbox[d][1].op = "set"

LEMMA OldCodesAreCodes == OldCodes \subseteq Codes
BY RolesAssumption DEF OldCodes

LEMMA NewCodesInit == FairParty /\ Init => NewCodes /\ HostFirst
<1> SUFFICES ASSUME FairParty, Init PROVE NewCodes /\ HostFirst
    OBVIOUS
<1>1. \A d \in Devices : app[d].activeGroupId = Nil /\ requests[d] = {}
    BY DEF Init, LaunchedApp
<1>2. Nil \notin Codes
    BY NilAssumption
<1>3. ASSUME NEW c \in OldCodes PROVE groups[c] # Nil
    <2>1. PICK deck \in HostDecks, old \in Collections :
              groups = [k \in Codes |-> IF k \in old THEN OldGroup(deck) ELSE Nil]
        BY DEF Init
    <2>2. PICK A \in Collections : c \in A
        BY DEF OldCodes
    <2>3. c \in old /\ c \in Codes
        BY <2>2, OldCodesAreCodes DEF FairParty, KnownCodes
    <2>4. OldGroup(deck) \in Groups
        BY OldGroupDealt, DealtSubset
    <2> QED BY <2>1, <2>3, <2>4, NilAssumption
<1> QED BY <1>1, <1>2, <1>3, OldCodesAreCodes DEF NewCodes, HostFirst

\* A join that is asked for was asked for before, or its code has just been typed.
LEMMA JoinOrigin ==
    ASSUME FairParty, SessionInv, Next, NEW d \in Devices, NEW r \in requests'[d], r.kind = "join"
    PROVE  r \in requests[d] \/ r.code \in TypedCodes
<1>1. PICK e \in Devices :
              \/ Idles(e) \/ Crashes(e) \/ SwitchesOn(e) \/ AsksToJoin(e) \/ AsksToCreate(e)
              \/ Joins(e) \/ Creates(e) \/ DealsDeck(e) \/ StartsGroup(e) \/ RunsOut(e)
              \/ Starts(e) \/ LosesRequest(e) \/ Launches(e) \/ Delivers(e)
    BY SessionCases
<1>2. CASE e # d \/ Delivers(e)
    <2>1. requests'[d] = requests[d]
        BY <1>1, <1>2, StepsMove DEF Moves, Delivers
    <2> QED BY <2>1
<1>3. CASE Idles(d) \/ Crashes(d) \/ SwitchesOn(d) \/ RunsOut(d) \/ Starts(d)
    BY <1>3 DEF Idles, Crashes, SwitchesOn, RunsOut, Starts, MovesAlone
<1>4. CASE Joins(d) \/ Creates(d) \/ StartsGroup(d) \/ LosesRequest(d) \/ Launches(d)
    BY <1>4 DEF Joins, Creates, StartsGroup, LosesRequest, Launches, Answers
<1>5. CASE AsksToJoin(d)
    BY <1>5 DEF AsksToJoin, Asks
<1>6. CASE AsksToCreate(d)
    BY <1>6 DEF AsksToCreate, Asks
<1>7. CASE DealsDeck(d)
    <2>1. PICK deck \in HostDecks :
              requests'[d] =
                IF app[d].activeGroupId = Nil THEN requests[d]
                ELSE requests[d] \cup {[kind |-> "start", code |-> app[d].activeGroupId, deck |-> deck]}
        BY <1>7 DEF DealsDeck
    <2> QED BY <2>1
<1> QED BY <1>1, <1>2, <1>3, <1>4, <1>5, <1>6, <1>7

LEMMA NewCodesStep ==
    ASSUME FairParty, SessionInv, NewCodes, Next
    PROVE  NewCodes'
<1>0. NobodyLeaves /\ IInv /\ PartyInv /\ AllAttend
    BY SessionParts
<1>1. ASSUME NEW c \in OldCodes PROVE groups'[c] # Nil
    BY <1>0, OldCodesAreCodes, GroupStays DEF NewCodes
<1>2. ASSUME NEW d \in Devices, NEW r \in requests'[d], r.kind = "join"
      PROVE  r.code \in TypedCodes
    BY <1>2, JoinOrigin DEF NewCodes
<1>3. ASSUME NEW d \in Devices PROVE app'[d].activeGroupId \notin OldCodes
    <2>1. CASE app'[d].activeGroupId = app[d].activeGroupId
        BY <2>1 DEF NewCodes
    <2>2. CASE app'[d].activeGroupId # app[d].activeGroupId
        <3> SUFFICES ASSUME NEW c \in OldCodes, app'[d].activeGroupId = c PROVE FALSE
            OBVIOUS
        <3>1. \/ groups[c] # Nil /\ \E r \in requests[d] : r.kind = "join" /\ r.code = c
              \/ groups[c] = Nil
            BY <2>2, OldCodesAreCodes, NewMember
        <3> QED BY <3>1 DEF NewCodes, FairParty, KnownCodes
    <2> QED BY <2>1, <2>2
<1> QED BY <1>1, <1>2, <1>3 DEF NewCodes

LEMMA HostFirstStep ==
    ASSUME FairParty, SessionInv, HostFirst, Next
    PROVE  HostFirst'
<1>0. IInv /\ PartyInv /\ AllOwn
    BY SessionParts
<1> SUFFICES ASSUME NEW d \in Devices, NEW c \in Codes,
                    app'[d].activeGroupId = c, groups'[c] = Nil
             PROVE  outbox'[d] # <<>> /\ outbox'[d][1].op = "set"
    BY DEF HostFirst
<1>1. groups[c] = Nil
    BY <1>0, GroupStays
<1>2. CASE app[d].activeGroupId = c
    <2>1. outbox[d] # <<>> /\ outbox[d][1].op = "set"
        BY <1>1, <1>2 DEF HostFirst
    <2>2. outbox[d] \in Seq(Writes) /\ OwnQueue(outbox[d], c)
        BY <1>0, <1>2, OutboxTypes DEF AllOwn
    <2>3. Head(outbox[d]) = outbox[d][1] /\ 1 \in DOMAIN outbox[d]
        <3> DEFINE q == outbox[d]
        <3>1. Head(q) = q[1] /\ 1 \in 1..Len(q) /\ DOMAIN q = 1..Len(q)
            BY <2>1, <2>2, TakenWrite
        <3> QED BY <3>1
    <2>4. CASE Delivers(d)
        <3>1. /\ Head(outbox[d]).code = c /\ Head(outbox[d]) \in Writes
              /\ groups'[c] = ApplyWrite(groups[c], Head(outbox[d]))
            BY <2>2, <2>3, <2>4 DEF Delivers, OwnQueue
        <3>2. groups'[c] = Head(outbox[d]).group
            BY <2>1, <2>3, <3>1, Replaced
        <3>3. Head(outbox[d]).group \in Groups
            BY <2>1, <2>3, <3>1 DEF Writes
        <3> QED BY <3>2, <3>3, NilAssumption
    <2>5. CASE ~Delivers(d)
        <3>1. 1 \in DOMAIN outbox'[d] /\ outbox'[d][1] = outbox[d][1]
            BY <2>3, <2>5, QueueStays DEF KeepsSending
        <3>2. outbox'[d] # <<>>
            BY <3>1
        <3> QED BY <2>1, <3>1, <3>2
    <2> QED BY <2>4, <2>5
<1>3. CASE app[d].activeGroupId # c
    BY <1>1, <1>3, NewMember
<1> QED BY <1>2, <1>3

-----------------------------------------------------------------------------
(***************************************************************************)
(* Who has voted has voted for good, and under the one name it has.        *)
(***************************************************************************)
UsedIsVoted == \A d \in Devices, k \in 1..MaxSessions : Used(<<d, k>>) => HasVoted(d)

LEMMA VotedStays ==
    ASSUME FairParty, SessionInv, HostFirst, Next, NEW d \in Devices, HasVoted(d)
    PROVE  HasVoted(d)'
<1>0. /\ IInv /\ PartyInv /\ AllOwn
      /\ outbox[d] \in Seq(Writes) /\ OwnQueue(outbox[d], app[d].activeGroupId)
    BY SessionParts, OutboxTypes DEF AllOwn
<1>1. CASE \E c \in Codes, u \in {d} \X (1..MaxSessions) :
                groups[c] # Nil /\ groups[c].accepted[u] # Nil
    <2>1. PICK c \in Codes, u \in {d} \X (1..MaxSessions) :
              groups[c] # Nil /\ groups[c].accepted[u] # Nil
        BY <1>1
    <2>2. u \in UserIds
        BY DEF UserIds
    <2>3. groups'[c] # Nil /\ groups'[c].accepted[u] # Nil
        BY <1>0, <2>1, <2>2, VotesStayStep DEF VoteStays
    <2> QED BY <2>3 DEF HasVoted
<1>2. CASE \E i \in DOMAIN outbox[d] : outbox[d][i].op = "vote"
    <2> DEFINE q == outbox[d]
               s == outbox'[d]
    <2>1. PICK i \in DOMAIN q : q[i].op = "vote"
        BY <1>2
    <2>2. CASE i \in DOMAIN s /\ s[i] = q[i]
        BY <2>1, <2>2 DEF HasVoted
    <2>3. CASE Delivers(d)
        <3>1. q # <<>> /\ s = Tail(q)
            BY <2>3 DEF Delivers
        <3>2. /\ Len(q) \in Nat \ {0} /\ DOMAIN q = 1..Len(q)
              /\ DOMAIN Tail(q) = 1..(Len(q) - 1)
              /\ \A j \in 1..(Len(q) - 1) : Tail(q)[j] = q[j + 1] /\ j + 1 \in 1..Len(q)
              /\ Head(q) = q[1] /\ 1 \in 1..Len(q)
            BY <1>0, <3>1, TakenWrite
        <3>3. CASE i > 1
            <4>1. i - 1 \in DOMAIN s /\ s[i - 1] = q[i]
                BY <3>1, <3>2, <3>3
            <4> QED BY <2>1, <4>1 DEF HasVoted
        <3>4. CASE i = 1
            <4> DEFINE c == app[d].activeGroupId
                       w == q[1]
            <4>1. w.op = "vote" /\ w.code = c /\ w \in Writes
                BY <1>0, <2>1, <3>4 DEF OwnQueue
            <4>2. c \in Codes
                BY <4>1 DEF Writes
            <4>3. FreshVote(d, q, 1)
                BY <2>1, <3>4, SessionParts DEF SessionInv, VotingInv, AllInQueue, InQueue
            <4>4. PICK k \in 1..MaxSessions : w.user = <<d, k>>
                BY <4>3 DEF FreshVote, FreshIn
            <4>5. groups[c] # Nil
                BY <4>1, <4>2 DEF HostFirst
            <4>6. groups'[c] = ApplyWrite(groups[c], w) /\ groups[c] \in Groups
                BY <1>0, <2>3, <3>2, <4>1, <4>2, <4>5, OutboxTypes DEF Delivers
            <4>7. /\ ApplyWrite(groups[c], w) # Nil
                  /\ w.user \in Voters(ApplyWrite(groups[c], w))
                BY <4>1, <4>4, <4>6, Updated DEF UserIds
            <4> QED BY <4>2, <4>4, <4>6, <4>7 DEF HasVoted, Voters
        <3> QED BY <2>1, <3>2, <3>3, <3>4
    <2> QED BY <2>1, <2>2, <2>3, QueueStays DEF KeepsSending
<1> QED BY <1>1, <1>2 DEF HasVoted

\* A device that has voted has done so under one of its names.
LEMMA VotedIsUsed ==
    ASSUME VotingInv, NEW d \in Devices, HasVoted(d)
    PROVE  \E k \in 1..MaxSessions : <<d, k>> \in UserIds /\ Used(<<d, k>>)
<1>1. CASE \E c \in Codes, u \in {d} \X (1..MaxSessions) :
                groups[c] # Nil /\ groups[c].accepted[u] # Nil
    BY <1>1 DEF Used, Voters, UserIds
<1>2. CASE \E i \in DOMAIN outbox[d] : outbox[d][i].op = "vote"
    <2>1. PICK i \in DOMAIN outbox[d] : outbox[d][i].op = "vote"
        BY <1>2
    <2>2. PICK k \in 1..MaxSessions : outbox[d][i].user = <<d, k>>
        BY <2>1 DEF VotingInv, AllInQueue, InQueue, FreshVote, FreshIn
    <2> QED BY <2>1, <2>2 DEF Used, Carries, UserIds
<1> QED BY <1>1, <1>2 DEF HasVoted

NamedVoters == \A d \in Devices : HasVoted(d) =>
                   \E k \in 1..MaxSessions : <<d, k>> \in UserIds /\ Used(<<d, k>>)

LEMMA VotersAreNamed == VotingInv => NamedVoters
BY VotedIsUsed DEF NamedVoters

LEMMA VotersAreNamedNext ==
    ASSUME VotingInv'
    PROVE  NamedVoters'
BY VotersAreNamed, PTL

LEMMA UsedIsVotedInit == Init => UsedIsVoted
<1> SUFFICES ASSUME Init, NEW u PROVE ~Used(u)
    BY DEF UsedIsVoted
<1>2. \A e \in Devices : ~Carries(outbox[e], u)
    BY DEF Init, Carries
<1>3. ASSUME NEW c \in Codes, groups[c] # Nil
      PROVE  Voters(groups[c]) = {}
    <2>1. PICK deck \in HostDecks : groups[c] = OldGroup(deck)
        BY <1>3 DEF Init
    <2>2. \A v \in UserIds : OldGroup(deck).accepted[v] = Nil
        BY DEF OldGroup, NewGroup
    <2> QED BY <2>1, <2>2 DEF Voters
<1> QED BY <1>2, <1>3 DEF Used

\* Who runs out of cards votes under its own name, with what it has swiped by
\* then.
LEMMA RunnerVotes ==
    ASSUME SessionInv, NEW d \in Devices, RunsOut(d)
    PROVE  /\ app[d].uniqueUserId = <<d, app[d].session>> /\ app[d].uniqueUserId \in UserIds
           /\ HasVoted(d)'
<1>1. app[d].activeGroupId \in Codes /\ app[d].uniqueUserId \in UserIds
    BY DEF RunsOut
<1>2. app[d].uniqueUserId = <<d, app[d].session>>
    BY <1>1, NilAssumption DEF SessionInv, VotingInv, AllDrawn, Named
<1>3. LET n == Len(outbox[d]) IN
      n \in Nat /\ DOMAIN outbox'[d] = 1..(n + 2) /\ outbox'[d][n + 1].op = "vote"
    BY RunOutQueue DEF SessionInv
<1>4. \E i \in DOMAIN outbox'[d] : outbox'[d][i].op = "vote"
    BY <1>3
<1> QED BY <1>1, <1>2, <1>4 DEF HasVoted

LEMMA UsedIsVotedStep ==
    ASSUME FairParty, SessionInv, HostFirst, UsedIsVoted, Next
    PROVE  UsedIsVoted'
<1> SUFFICES ASSUME NEW d \in Devices, NEW k \in 1..MaxSessions, Used(<<d, k>>)'
             PROVE  HasVoted(d)'
    BY DEF UsedIsVoted
<1>1. <<d, k>> \in UserIds
    BY DEF UserIds
<1>2. \/ Used(<<d, k>>)
      \/ \E e \in Devices : RunsOut(e) /\ <<d, k>> = app[e].uniqueUserId
    BY <1>1, SessionParts, ToUse
<1>3. CASE Used(<<d, k>>)
    BY <1>3, VotedStays DEF UsedIsVoted
<1>4. ASSUME NEW e \in Devices, RunsOut(e), <<d, k>> = app[e].uniqueUserId
      PROVE  HasVoted(d)'
    <2>1. app[e].uniqueUserId = <<e, app[e].session>> /\ HasVoted(e)'
        BY <1>4, RunnerVotes
    <2>2. e = d
        BY <1>4, <2>1
    <2> QED BY <2>1, <2>2
<1> QED BY <1>2, <1>3, <1>4

\* Only who runs out of cards votes for the first time.
LEMMA NewVoter ==
    ASSUME FairParty, SessionInv, SessionInv', UsedIsVoted, Next, NEW d \in Devices,
           ~HasVoted(d), HasVoted(d)'
    PROVE  RunsOut(d)
<1>1. VotingInv'
    BY DEF SessionInv
<1>2. PICK k \in 1..MaxSessions : <<d, k>> \in UserIds /\ Used(<<d, k>>)'
    <2>1. NamedVoters'
        BY <1>1, VotersAreNamedNext
    <2> QED BY <2>1 DEF NamedVoters, UserIds
<1>3. ~Used(<<d, k>>)
    BY DEF UsedIsVoted
<1>4. PICK e \in Devices : RunsOut(e) /\ <<d, k>> = app[e].uniqueUserId
    BY <1>2, <1>3, SessionParts, ToUse
<1>5. app[e].uniqueUserId = <<e, app[e].session>>
    BY <1>4, RunnerVotes
<1>6. e = d
    BY <1>4, <1>5
<1> QED BY <1>4, <1>6

\* Who has voted is in its one group, has no cards left, and nothing is open on
\* its screen but the list, if it is not counting for ever.
LEMMA VotedIsDone ==
    ASSUME SessionInv, NEW d \in Devices, HasVoted(d)
    PROVE  LET a == app[d] IN
           /\ a.activeGroupId \in Codes /\ a.session = 1
           /\ 1 \in 1..MaxSessions /\ <<d, 1>> \in UserIds
           /\ a.visible = <<>> /\ a.swiped = Nil
           /\ a.screen \in {"cards", "list", "frozen"}
           /\ a.activeGroupId # Nil /\ a.isOn /\ a.groupId = a.activeGroupId
<1> DEFINE a == app[d]
<1>0. IInv /\ VotingInv /\ AllAttend /\ AllDrawn /\ InOrder(a, requests[d], outbox[d])
    BY DEF SessionInv, HeadsInv, VotingInv, PartyInv, Orderly
<1>1. PICK k \in 1..MaxSessions : Used(<<d, k>>)
    BY <1>0, VotedIsUsed
<1>2. a \in SoundApps /\ a \in Apps
    BY <1>0, Unchanged
<1>3. k <= a.session /\ (k = a.session /\ a.activeGroupId # Nil => Done(a))
    BY <1>0, <1>1 DEF AllDrawn, Drawn
<1>4. Attends(a)
    BY <1>0 DEF AllAttend
<1>5. a.activeGroupId # Nil /\ a.session = 1 /\ k = 1
    BY <1>3, <1>4, MaxSessionsAssumption DEF Attends
<1>6. a.screen # "closed" /\ a.visible = <<>> /\ a.screen \in {"cards", "list", "frozen"}
    BY <1>3, <1>4, <1>5 DEF Attends, Done
<1>7. a.swiped = Nil
    BY <1>2, <1>6 DEF SoundApps, InFlight
<1>8. a.activeGroupId \in Codes
    BY <1>2, <1>5 DEF Apps
<1>9. a.isOn /\ a.groupId = a.activeGroupId
    BY <1>0, <1>5 DEF InOrder, InsideGroup
<1>10. 1 \in 1..MaxSessions
    BY <1>5
<1> QED BY <1>5, <1>6, <1>7, <1>8, <1>9, <1>10 DEF UserIds

-----------------------------------------------------------------------------
(***************************************************************************)
(* The lists on the server are what the users have swiped by now.          *)
(***************************************************************************)
LEMMA VotedSwipesStay ==
    ASSUME FairParty, SessionInv, Next, NEW d \in Devices, HasVoted(d)
    PROVE  app'[d].localUserYesSwiped = app[d].localUserYesSwiped
<1> DEFINE a == app[d]
           b == app'[d]
<1>1. PICK e \in Devices :
              \/ Idles(e) \/ Crashes(e) \/ SwitchesOn(e) \/ AsksToJoin(e) \/ AsksToCreate(e)
              \/ Joins(e) \/ Creates(e) \/ DealsDeck(e) \/ StartsGroup(e) \/ RunsOut(e)
              \/ Starts(e) \/ LosesRequest(e) \/ Launches(e) \/ Delivers(e)
    BY SessionCases
<1>2. CASE e # d \/ Delivers(e)
    <2>1. b = a
        BY <1>1, <1>2, StepsMove DEF Moves, Delivers
    <2> QED BY <2>1
<1>3. a.visible = <<>> /\ a.swiped = Nil /\ a.screen # "closed"
    BY VotedIsDone
<1>4. ~Swiping(d)
    BY <1>3 DEF Swiping, Swipe, SwipeLast, DidSwipe, MaySwipe, IsRunOutOfCards, Settled
<1>5. CASE Idles(d) \/ Crashes(d) \/ RunsOut(d)
    BY <1>4, <1>5 DEF Idles, Crashes, RunsOut, SameSwipes
<1>6. CASE SwitchesOn(d) \/ Starts(d) \/ DealsDeck(d)
    BY <1>6 DEF SwitchesOn, Starts, DealsDeck
<1>7. CASE AsksToJoin(d) \/ AsksToCreate(d)
    BY <1>7 DEF AsksToJoin, AsksToCreate, Asks
<1>8. CASE Joins(d) \/ Creates(d)
    BY <1>8 DEF Joins, Creates
<1>9. CASE StartsGroup(d) \/ LosesRequest(d)
    BY <1>9 DEF StartsGroup, LosesRequest
<1>10. ~Launches(d)
    BY <1>3 DEF Launches
<1> QED BY <1>1, <1>2, <1>5, <1>6, <1>7, <1>8, <1>9, <1>10

Finals == {p \in UserIds \X DinnerLists : p[2] = app[p[1][1]].localUserYesSwiped}

FinalBallots == \A c \in Codes : \A L : Finals \subseteq L => OnlyBallots(c, L)

\* Only the ballots matter whose users have voted.
LEMMA UsedBallots ==
    ASSUME NEW c \in Codes, NEW K, NEW L, OnlyBallots(c, K),
           \A u \in UserIds : \A l : <<u, l>> \in K /\ Used(u) => <<u, l>> \in L,
           \A d \in Devices : outbox[d] \in Seq(Writes)
    PROVE  OnlyBallots(c, L)
<1>1. ASSUME NEW u \in UserIds, NEW l, <<u, l>> \in K, Used(u) PROVE <<u, l>> \in L
    BY <1>1
<1>2. ASSUME groups[c] # Nil PROVE CastIn(groups[c], L)
    <2>1. CastIn(groups[c], K)
        BY <1>2 DEF OnlyBallots
    <2>2. \A u \in Voters(groups[c]) : u \in UserIds /\ Used(u)
        BY <1>2 DEF Used, Voters
    <2> QED BY <1>1, <2>1, <2>2 DEF CastIn
<1>3. ASSUME NEW d \in Devices, NEW i \in DOMAIN outbox[d] PROVE BringsOnly(outbox[d][i], c, L)
    <2> DEFINE w == outbox[d][i]
    <2>1. BringsOnly(w, c, K) /\ w \in Writes
        BY <1>3 DEF OnlyBallots, AllBring
    <2>2. ASSUME w.code = c, w.op = "vote" PROVE <<w.user, w.list>> \in L
        <3>1. w.user \in UserIds
            BY <2>1, <2>2 DEF Writes
        <3>2. Used(w.user)
            BY <2>2 DEF Used, Carries
        <3>3. <<w.user, w.list>> \in K
            BY <2>1, <2>2 DEF BringsOnly
        <3> QED BY <1>1, <3>1, <3>2, <3>3
    <2>3. ASSUME w.code = c, w.op = "set" PROVE CastIn(w.group, L)
        <3>1. CastIn(w.group, K)
            BY <2>1, <2>3 DEF BringsOnly
        <3>2. ASSUME NEW u \in Voters(w.group) PROVE u \in UserIds /\ Used(u)
            BY <2>3 DEF Used, Carries, Voters
        <3> HIDE DEF w
        <3> QED BY <1>1, <3>1, <3>2 DEF CastIn
    <2> HIDE DEF w
    <2>4. BringsOnly(w, c, L)
        BY <2>2, <2>3 DEF BringsOnly
    <2> QED BY <2>4 DEF w
<1> QED BY <1>2, <1>3 DEF OnlyBallots, AllBring

LEMMA FinalBallotsInit == Init => FinalBallots
<1> SUFFICES ASSUME Init, NEW c \in Codes, NEW L PROVE OnlyBallots(c, L)
    BY DEF FinalBallots
<1>1. ASSUME groups[c] # Nil PROVE Voters(groups[c]) = {}
    <2>1. PICK deck \in HostDecks : groups[c] = OldGroup(deck)
        BY <1>1 DEF Init
    <2>2. \A v \in UserIds : OldGroup(deck).accepted[v] = Nil
        BY DEF OldGroup, NewGroup
    <2> QED BY <2>1, <2>2 DEF Voters
<1>2. \A d \in Devices : outbox[d] = <<>>
    BY DEF Init
<1> QED BY <1>1, <1>2 DEF OnlyBallots, CastIn, AllBring

LEMMA FinalBallotsStep ==
    ASSUME FairParty, SessionInv, UsedIsVoted, FinalBallots, Next
    PROVE  FinalBallots'
<1>0. IInv /\ Guests
    BY SessionParts
<1> SUFFICES ASSUME NEW c \in Codes, NEW L, Finals' \subseteq L PROVE OnlyBallots(c, L)'
    BY DEF FinalBallots
<1>1. ASSUME NEW u \in UserIds, NEW l, <<u, l>> \in Finals, Used(u) PROVE <<u, l>> \in L
    <2>1. PICK d \in Devices, k \in 1..MaxSessions : u = <<d, k>>
        BY DEF UserIds
    <2>2. HasVoted(d)
        BY <1>1, <2>1 DEF UsedIsVoted
    <2>3. l = app[d].localUserYesSwiped /\ l \in DinnerLists
        BY <1>1, <2>1 DEF Finals
    <2>4. l = app'[d].localUserYesSwiped
        BY <2>2, <2>3, VotedSwipesStay
    <2>5. <<u, l>> \in Finals'
        BY <2>1, <2>3, <2>4 DEF Finals, UserIds, DinnerLists
    <2> QED BY <2>5
<1>2. OnlyBallots(c, Finals)
    BY DEF FinalBallots
<1>3. OnlyBallots(c, L)
    <2>1. \A d \in Devices : outbox[d] \in Seq(Writes)
        BY <1>0, OutboxTypes
    <2> DEFINE K == Finals
    <2>2. OnlyBallots(c, K) /\ \A u \in UserIds : \A l : <<u, l>> \in K /\ Used(u) => <<u, l>> \in L
        BY <1>1, <1>2
    <2> HIDE DEF K
    <2> QED BY <2>1, <2>2, UsedBallots
<1>4. PICK d \in Devices :
              \/ Idles(d) \/ Crashes(d) \/ SwitchesOn(d) \/ AsksToJoin(d) \/ AsksToCreate(d)
              \/ Joins(d) \/ Creates(d) \/ DealsDeck(d) \/ StartsGroup(d) \/ RunsOut(d)
              \/ Starts(d) \/ LosesRequest(d) \/ Launches(d) \/ Delivers(d)
    BY SessionCases
<1>5. RunsOut(d) => <<app[d].uniqueUserId, app'[d].localUserYesSwiped>> \in L
    <2> SUFFICES ASSUME RunsOut(d)
                 PROVE  <<app[d].uniqueUserId, app'[d].localUserYesSwiped>> \in Finals'
        OBVIOUS
    <2>1. app[d].uniqueUserId = <<d, app[d].session>> /\ app[d].uniqueUserId \in UserIds
        BY RunnerVotes
    <2>2. app'[d].localUserYesSwiped \in DinnerLists
        BY DEF RunsOut
    <2> QED BY <2>1, <2>2 DEF Finals, UserIds, DinnerLists
<1> QED BY <1>0, <1>3, <1>4, <1>5, BallotsStep

-----------------------------------------------------------------------------
(***************************************************************************)
(* Who is in a session swipes cards that the host may draw; and who hears  *)
(* of the result has voted.                                                *)
(***************************************************************************)
SessionItems ==
    \A d \in Devices : app[d].screen # "closed" /\ ~NotStarted(app[d]) => app[d].items \in HostDecks

ResultHeard == \A d \in Devices : Hears(app[d], "result") => HasVoted(d)

LEMMA SessionItemsInit == Init => SessionItems /\ ResultHeard
<1> SUFFICES ASSUME Init, NEW d \in Devices
             PROVE  NotStarted(app[d]) /\ ~Hears(app[d], "result")
    BY DEF SessionItems, ResultHeard
<1>1. app[d].activeGroupId = Nil /\ app[d].activeEventListener = Nil /\ app[d].leaked = {}
    BY DEF Init, LaunchedApp
<1> QED BY <1>1 DEF NotStarted, Hears, Attached

LEMMA SessionItemsStep ==
    ASSUME FairParty, SessionInv, SessionItems, ResultHeard, Next
    PROVE  SessionItems'
<1> SUFFICES ASSUME NEW d \in Devices, app'[d].screen # "closed", ~NotStarted(app'[d])
             PROVE  app'[d].items \in HostDecks
    BY DEF SessionItems, NotStarted, InLobby
<1> DEFINE a == app[d]
           b == app'[d]
<1>0. /\ IInv /\ InOrder(a, requests[d], outbox[d])
      /\ a.screen # "closed" /\ ~NotStarted(a) => a.items \in HostDecks
    BY SessionParts DEF Orderly, SessionItems
<1>1. PICK e \in Devices :
              \/ Idles(e) \/ Crashes(e) \/ SwitchesOn(e) \/ AsksToJoin(e) \/ AsksToCreate(e)
              \/ Joins(e) \/ Creates(e) \/ DealsDeck(e) \/ StartsGroup(e) \/ RunsOut(e)
              \/ Starts(e) \/ LosesRequest(e) \/ Launches(e) \/ Delivers(e)
    BY SessionCases
<1>2. CASE e # d \/ Delivers(e)
    <2>1. b = a
        BY <1>1, <1>2, StepsMove DEF Moves, Delivers
    <2> QED BY <1>0, <2>1 DEF NotStarted
<1>3. ASSUME b.items = a.items, b.activeGroupId = a.activeGroupId, a.screen # "closed",
             InLobby(a) \/ a.screen = "waiting" => InLobby(b) \/ b.screen = "waiting"
      PROVE  b.items \in HostDecks
    BY <1>0, <1>3 DEF NotStarted
<1>4. CASE Idles(d)
    <2>1. /\ b.items = a.items /\ b.activeGroupId = a.activeGroupId
          /\ \/ b.screen = a.screen
             \/ a.screen = "connect" \/ a.screen = "cards"
             \/ a.screen = "lobby" /\ b.screen = "settings"
             \/ a.screen # "closed" /\ Hears(a, "result")
        BY <1>4 DEF Idles, SameMembership
    <2>2. Hears(a, "result") => a.screen \notin {"waiting", "lobby", "settings", "closed"}
        BY VotedIsDone DEF ResultHeard
    <2> QED BY <1>3, <2>1, <2>2 DEF InLobby
<1>5. CASE RunsOut(d)
    <2>1. b.items = a.items /\ b.activeGroupId = a.activeGroupId /\ a.screen = "cards"
        BY <1>5 DEF RunsOut, SameMembership
    <2> QED BY <1>3, <2>1 DEF InLobby
<1>6. CASE Crashes(d)
    BY <1>6 DEF Crashes
<1>7. CASE SwitchesOn(d)
    BY <1>3, <1>7 DEF SwitchesOn, SameCards, InLobby
<1>8. CASE AsksToJoin(d) \/ AsksToCreate(d)
    BY <1>3, <1>8 DEF AsksToJoin, AsksToCreate, Asks, SameCards, InLobby
<1>9. CASE Joins(d) \/ Creates(d)
    <2>1. PICK r \in requests[d] :
              /\ Answers(d, r) /\ r.kind \in {"create", "join"}
              /\ \/ b.activeGroupId = a.activeGroupId
                 \/ b.screen = IF a.screen = "cards" THEN "waiting" ELSE a.screen
                 \/ b.screen = IF a.screen = "cards" THEN "lobby" ELSE a.screen
        BY <1>9 DEF Joins, Creates
    <2>2. a.activeGroupId = Nil /\ a.screen = "cards"
        BY <1>0, <2>1, AnsweredOutside
    <2> QED BY <2>1, <2>2 DEF NotStarted, InLobby
<1>10. CASE DealsDeck(d)
    BY <1>10 DEF DealsDeck
<1>11. CASE StartsGroup(d) \/ LosesRequest(d)
    <2>1. /\ b.items = a.items /\ b.activeGroupId = a.activeGroupId /\ b.screen = a.screen
          /\ Alive(d)
        BY <1>11 DEF StartsGroup, LosesRequest, SameCards, Answers
    <2> QED BY <1>3, <2>1 DEF InLobby
<1>12. CASE Starts(d)
    <2>1. PICK l \in Attached(a) :
              /\ View(d, l.code) # Nil /\ View(d, l.code).swipingSessionRunning
              /\ b.items = View(d, l.code).dinnerIdsForCardView
        BY <1>12 DEF Starts
    <2>2. l.code \in Codes
        BY <1>0, Unchanged, AttachedListeners DEF Listeners
    <2>3. View(d, l.code) \in DealtGroups
        BY <1>0, <2>1, <2>2, ViewDealt
    <2> QED BY <2>1, <2>3 DEF DealtGroups
<1>13. CASE Launches(d)
    BY <1>13 DEF Launches, LaunchedApp, NotStarted
<1> QED BY <1>1, <1>2, <1>4, <1>5, <1>6, <1>7, <1>8, <1>9, <1>10, <1>11, <1>12, <1>13

\* The callback that waits for the result comes with the run-out.
LEMMA HearsStep ==
    ASSUME FairParty, SessionInv, Next, NEW d \in Devices, Hears(app'[d], "result")
    PROVE  Hears(app[d], "result") \/ RunsOut(d)
<1> DEFINE a == app[d]
           b == app'[d]
<1>0. IInv /\ InOrder(a, requests[d], outbox[d])
    BY SessionParts DEF Orderly
<1>1. PICK e \in Devices :
              \/ Idles(e) \/ Crashes(e) \/ SwitchesOn(e) \/ AsksToJoin(e) \/ AsksToCreate(e)
              \/ Joins(e) \/ Creates(e) \/ DealsDeck(e) \/ StartsGroup(e) \/ RunsOut(e)
              \/ Starts(e) \/ LosesRequest(e) \/ Launches(e) \/ Delivers(e)
    BY SessionCases
<1>2. CASE e # d \/ Delivers(e)
    <2>1. b = a
        BY <1>1, <1>2, StepsMove DEF Moves, Delivers
    <2> QED BY <2>1
<1>3. ASSUME SameRoles(a, b) PROVE Hears(a, "result")
    BY <1>3, SameRolesHears
<1>4. ASSUME b.leaked \subseteq a.leaked, b.activeEventListener \in {Nil, a.activeEventListener}
      PROVE  Hears(a, "result")
    BY <1>4 DEF Hears, Attached
<1>5. CASE Idles(d) \/ Crashes(d)
    BY <1>3, <1>5 DEF Idles, Crashes
<1>6. CASE SwitchesOn(d) \/ DealsDeck(d)
    BY <1>4, <1>6 DEF SwitchesOn, DealsDeck, SameListeners
<1>7. CASE AsksToJoin(d) \/ AsksToCreate(d)
    BY <1>4, <1>7 DEF AsksToJoin, AsksToCreate, Asks, SameListeners
<1>8. CASE Joins(d) \/ Creates(d)
    <2>1. PICK r \in requests[d] :
              /\ Answers(d, r) /\ r.kind \in {"create", "join"}
              /\ \/ b = a
                 \/ b.leaked = a.leaked /\ b.activeEventListener \in {Nil, a.activeEventListener}
                 \/ \E c \in Codes : 
                       /\ b.activeEventListener = [role |-> "wait", code |-> c, seen |-> Nil]
                       /\ b.leaked = Attached(a)
                 \/ \E c \in Codes :
                       /\ b.activeEventListener = [role |-> "lobby", code |-> c, seen |-> Nil]
                       /\ b.leaked = Attached(a)
        <3>1. CASE Joins(d)
            BY <3>1 DEF Joins
        <3>2. CASE Creates(d)
            BY <3>2 DEF Creates
        <3> QED BY <1>8, <3>1, <3>2
    <2>2. Attached(a) = {}
        BY <1>0, <2>1, AnsweredOutside
    <2>3. CASE b = a
        BY <2>3
    <2>4. ASSUME NEW c \in Codes, NEW role \in {"wait", "lobby"}, b.leaked = Attached(a),
                 b.activeEventListener = [role |-> role, code |-> c, seen |-> Nil]
          PROVE  FALSE
        <3>1. b.activeEventListener.role = role
            BY <2>4
        <3>2. PICK l \in Attached(b) : l.role = "result"
            BY DEF Hears
        <3>3. l = b.activeEventListener
            BY <2>2, <2>4, <3>2 DEF Attached
        <3> QED BY <3>1, <3>2, <3>3
    <2> QED BY <1>4, <2>1, <2>3, <2>4
<1>9. CASE StartsGroup(d) \/ LosesRequest(d)
    <2>1. b = a \/ (b.leaked = a.leaked /\ b.activeEventListener \in {Nil, a.activeEventListener})
        BY <1>9 DEF StartsGroup, LosesRequest, SameListeners
    <2>2. CASE b = a
        BY <2>2
    <2> QED BY <1>4, <2>1, <2>2
<1>10. CASE Starts(d)
    <2>1. /\ b.activeEventListener = Nil
          /\ \A m \in b.leaked : \E k \in a.leaked : k.role = m.role /\ k.code = m.code
        BY <1>10 DEF Starts
    <2> QED BY <2>1 DEF Hears, Attached
<1>11. CASE Launches(d)
    <2>1. b.activeEventListener = Nil /\ b.leaked = {}
        BY <1>11 DEF Launches, LaunchedApp
    <2> QED BY <2>1 DEF Hears, Attached
<1> QED BY <1>1, <1>2, <1>5, <1>6, <1>7, <1>8, <1>9, <1>10, <1>11

LEMMA ResultHeardStep ==
    ASSUME FairParty, SessionInv, HostFirst, ResultHeard, Next
    PROVE  ResultHeard'
<1> SUFFICES ASSUME NEW d \in Devices, Hears(app'[d], "result") PROVE HasVoted(d)'
    BY DEF ResultHeard, Hears, Attached
<1>1. CASE Hears(app[d], "result")
    BY <1>1, VotedStays DEF ResultHeard
<1>2. CASE RunsOut(d)
    BY <1>2, RunnerVotes
<1> QED BY <1>1, <1>2, HearsStep

-----------------------------------------------------------------------------
(***************************************************************************)
(* Who has voted sees the whole party.                                     *)
(***************************************************************************)
LEMMA VoterSeesAll ==
    ASSUME FairParty, SessionInv, NewCodes, NEW d \in Devices, HasVoted(d)
    PROVE  LET c == app[d].activeGroupId IN
           c \in Codes \ OldCodes /\ HeadsIn(c) /\ Everybody(c) /\ ~StillComes(outbox[d])
<1> DEFINE c == app[d].activeGroupId
<1>0. /\ IInv /\ PartyInv /\ Guests /\ Orderly
      /\ AllHeads /\ AllUnstarted
    BY SessionParts DEF SessionInv, HeadsInv, DecksInv
<1>1. /\ c \in Codes \ OldCodes /\ app[d].screen \in {"cards", "list", "frozen"}
      /\ app[d].activeGroupId # Nil
    BY VotedIsDone DEF NewCodes
<1>2. HeadsIn(c) /\ d \in Members(c)
    BY <1>0, <1>1 DEF AllHeads, Members
<1>3. Everybody(c)
    <2>1. CASE d \in Hosts
        BY <1>1, <1>2, <2>1 DEF HeadsIn, WatchedBy
    <2>2. CASE d \notin Hosts
        <3>1. Plays(app[d], c)
            BY <1>0, <1>1, <2>2 DEF Plays, Orderly
        <3>2. PendingSets(outbox[d], c) = {}
            BY <1>0, <2>2 DEF Guests, Guest, NoSets, PendingSets
        <3>3. Running(c)
            BY <1>0, <1>1, <3>1, <3>2 DEF PartyInv, AllPlayTheDeck, PlaysTheDeck, StartedOn, Running
        <3>4. PICK h \in Hosts : h \in Members(c)
            BY <1>2, <3>3 DEF HeadsIn, Hosted, Running
        <3>5. app[h].screen # "lobby"
            <4>1. h \in Devices /\ app[h].activeGroupId = c
                BY <3>4 DEF Members
            <4>2. app[h].screen = "lobby" => ~app[h].isInOnlineSession
                BY <1>0, <4>1 DEF Orderly, InOrder, HostedGroup, InLobby
            <4> QED BY <1>0, <1>1, <3>3, <4>1, <4>2 DEF AllUnstarted, Unstarted, Waits
        <3> QED BY <1>2, <3>4, <3>5 DEF HeadsIn, WatchedBy
    <2> QED BY <2>1, <2>2
<1>4. ~StillComes(outbox[d])
    BY <1>2, <1>3 DEF Everybody, OnTheirWay
<1> QED BY <1>1, <1>2, <1>3, <1>4

-----------------------------------------------------------------------------
(***************************************************************************)
(* What is counted when all are ready.                                     *)
(***************************************************************************)
\* The lemmas on countYesSwipes; the variables play no part in them.
RP == INSTANCE ResultProofs WITH
        MaxTimes <- 1, MaxRounds <- 1, accepted <- groups, participants <- outbox,
        participantsMinus <- requests, dinnerIdsWithMostVotes <- app, pc <- kills,
        ballots <- groups, shown <- groups

LEMMA CountedSupport ==
    ASSUME NEW acc, IsFiniteSet(DOMAIN acc), NEW x \in Dinners,
           \A u \in DOMAIN acc : acc[u] # Nil => acc[u][x] \in {0, 1}
    PROVE  CountYesSwipes(acc)[x] =
               Cardinality({u \in DOMAIN acc : acc[u] # Nil /\ acc[u][x] > 0})
<1>1. RP!CountYesSwipes(acc) = CountYesSwipes(acc)
    BY DEF RP!CountYesSwipes, CountYesSwipes, RP!FoldFunction, FoldFunction,
           RP!FoldFunctionOnSet, FoldFunctionOnSet, RP!MapThenFoldSet, MapThenFoldSet
<1>2. \A S : RP!IsFiniteSet(S) <=> IsFiniteSet(S)
    BY DEF RP!IsFiniteSet, IsFiniteSet
<1>3. \A S : RP!Cardinality(S) = Cardinality(S)
    BY <1>2 DEF RP!Cardinality, Cardinality
<1>4. RP!IsFiniteSet(DOMAIN acc)
    BY <1>2
<1>5. MaxSessions \in Nat /\ RP!IsFiniteSet(Devices) /\ 1 \in Nat
    BY <1>2, DevicesAssumption, MaxSessionsAssumption
<1>6. /\ Nil \notin Codes /\ Nil \notin RP!UserIds /\ Nil \notin RP!DinnerLists /\ Nil \notin RP!Groups
      /\ \A S \in SUBSET Dinners : Nil # S
    BY NilAssumption DEF UserIds, RP!UserIds, RP!DinnerLists, DinnerLists, RP!Groups, Groups
<1>7. RP!CountYesSwipes(acc)[x] =
               RP!Cardinality({u \in DOMAIN acc : acc[u] # Nil /\ acc[u][x] > 0})
    BY <1>4, <1>5, <1>6, RP!CountIsSupport
<1> QED BY <1>1, <1>3, <1>7

\* The names under which the whole party votes.
OneName == {<<d, 1>> : d \in Devices}

LEMMA OneNameEach ==
    /\ IsFiniteSet(OneName) /\ Cardinality(OneName) \in Nat /\ Cardinality(Devices) \in Nat
    /\ Cardinality(OneName) = Cardinality(Devices)
<1> DEFINE f == [d \in Devices |-> <<d, 1>>]
<1>1. f \in Surjection(Devices, OneName) /\ f \in Injection(Devices, OneName)
    BY DEF Surjection, Injection, IsInjective, OneName
<1> HIDE DEF f
<1>2. IsFiniteSet(OneName) /\ Cardinality(OneName) = Cardinality(Devices)
    BY <1>1, DevicesAssumption, FS_Surjection
<1> QED BY <1>2, DevicesAssumption, FS_CardinalityType

\* A voter swipes each dinner right once at most.
LEMMA VoterSwipesOnce ==
    ASSUME FairParty, SessionInv, SessionItems, NEW d \in Devices, HasVoted(d), NEW x \in Dinners
    PROVE  app[d].localUserYesSwiped[x] \in {0, 1}
<1> DEFINE a == app[d]
           s == a.items
           T == {i \in DOMAIN s : i <= Gone(a) /\ s[i] = x}
<1>1. a.screen # "closed" /\ ~NotStarted(a) /\ a \in Apps /\ a \in SoundApps
    BY VotedIsDone, SessionParts, Unchanged DEF NotStarted, InLobby
<1>2. s \in HostDecks
    BY <1>1 DEF SessionItems
<1>3. a.localUserYesSwiped[x] \in Nat /\ a.localUserYesSwiped[x] <= Times(s, Gone(a), x)
    BY <1>1, SessionParts DEF AllTallied, Tallied, Apps, DinnerLists
<1>4. \A i, j \in T : i = j
    BY <1>2 DEF FairParty, DistinctCards
<1>5. Cardinality(T) \in {0, 1}
    <2>1. CASE T = {}
        BY <2>1, FS_EmptySet
    <2>2. CASE T # {}
        <3>1. PICK i : T = {i}
            BY <1>4, <2>2
        <3> QED BY <3>1, FS_Singleton
    <2> QED BY <2>1, <2>2
<1>6. Times(s, Gone(a), x) = Cardinality(T)
    BY DEF Times
<1> HIDE DEF T
<1> QED BY <1>3, <1>5, <1>6

AllVoted == \A d \in Devices : HasVoted(d)

\* When all participants are ready in what a voter sees, everybody has voted,
\* and the dinners in all lists are those that all have swiped right.
LEMMA ReadyResult ==
    ASSUME FairParty, SessionInv, NewCodes, UsedIsVoted, FinalBallots, SessionItems,
           NEW d \in Devices, HasVoted(d),
           LET g == View(d, app[d].activeGroupId) IN
           g # Nil /\ g.numberOfUsersReady = g.participants
    PROVE  AllVoted /\ Winners(View(d, app[d].activeGroupId)) = Agreed
<1> DEFINE c == app[d].activeGroupId
           g == View(d, c)
           n == Cardinality(Devices)
<1>0. IInv /\ VotingInv /\ AllDrawn /\ AllAttend
    BY SessionParts DEF SessionInv
<1>1. c \in Codes \ OldCodes /\ HeadsIn(c) /\ Everybody(c) /\ ~StillComes(outbox[d])
    BY VoterSeesAll
<1>2. g \in Groups /\ DOMAIN g.accepted = UserIds
    <2>1. g \in Groups
        BY <1>0, <1>1, OutboxTypes
    <2> HIDE DEF g
    <2> QED BY <2>1 DEF Groups
<1>3. g.participants = n
    <2>1. g.participants \in Int /\ g.participants + Cardinality(OnTheirWay(c)) = Cardinality(Members(c))
        BY <1>0, <1>1, ViewSized DEF HeadsIn
    <2>2. Cardinality(OnTheirWay(c)) = 0 /\ Members(c) = Devices
        BY <1>1, FS_EmptySet DEF Everybody
    <2> HIDE DEF g, c
    <2> QED BY <2>1, <2>2
<1>4. g.numberOfUsersReady <= Cardinality(Voters(g))
    BY <1>0, <1>1, VotingReadyHaveVoted DEF ReadyHaveVoted
<1>5. ASSUME NEW u \in Voters(g) PROVE u \in OneName /\ Used(u)
    <2>1. Used(u)
        BY <1>0, <1>1, SeenIsUsed
    <2>2. PICK e \in Devices, k \in 1..MaxSessions : u = <<e, k>>
        BY DEF Voters, UserIds
    <2>3. k <= app[e].session /\ app[e].session \in {0, 1}
        BY <1>0, <2>1, <2>2 DEF AllDrawn, Drawn, AllAttend, Attends
    <2>4. k = 1
        BY <2>3
    <2> QED BY <2>1, <2>2, <2>4 DEF OneName
<1> HIDE DEF g
<1>6. Voters(g) = OneName
    <2>1. Voters(g) \in SUBSET OneName
        BY <1>5
    <2>2. Cardinality(Voters(g)) <= Cardinality(OneName)
        BY <2>1, OneNameEach, FS_Subset
    <2>3. Cardinality(Voters(g)) \in Nat /\ g.numberOfUsersReady = n
        BY <1>3, VotersFinite DEF g
    <2>4. Cardinality(OneName) = Cardinality(Voters(g))
        BY <1>4, <2>2, <2>3, OneNameEach
    <2> QED BY <2>1, <2>4, OneNameEach, FS_Subset
<1>7. ASSUME NEW e \in Devices PROVE HasVoted(e) /\ <<e, 1>> \in UserIds /\ <<e, 1>> \in Voters(g)
    <2>1. <<e, 1>> \in Voters(g)
        BY <1>6 DEF OneName
    <2>2. Used(<<e, 1>>) /\ <<e, 1>> \in UserIds
        BY <1>5, <2>1 DEF Voters
    <2>3. 1 \in 1..MaxSessions
        BY <2>2 DEF UserIds
    <2> QED BY <2>1, <2>2, <2>3 DEF UsedIsVoted
<1>8. ASSUME NEW e \in Devices
      PROVE  g.accepted[<<e, 1>>] = app[e].localUserYesSwiped
    <2>1. CastIn(g, Finals)
        <3>1. OnlyBallots(c, Finals)
            BY <1>1 DEF FinalBallots
        <3> HIDE DEF c
        <3>2. View(d, c) # Nil
            BY DEF c
        <3> DEFINE L == Finals
        <3>3. OnlyBallots(c, L)
            BY <3>1
        <3> HIDE DEF L
        <3>4. CastIn(View(d, c), L)
            BY <1>0, <1>1, <3>2, <3>3, ViewCastIn
        <3> QED BY <3>4 DEF L, g
    <2>2. <<<<e, 1>>, g.accepted[<<e, 1>>]>> \in Finals
        BY <1>7, <2>1 DEF CastIn
    <2> QED BY <2>2 DEF Finals
<1>9. AllVoted
    BY <1>7 DEF AllVoted
<1> DEFINE Likes(x) == {u \in UserIds : g.accepted[u] # Nil /\ g.accepted[u][x] > 0}
<1>10. ASSUME NEW x \in Dinners PROVE CountYesSwipes(g.accepted)[x] = Cardinality(Likes(x))
    <2>1. IsFiniteSet(UserIds)
        <3>1. IsFiniteSet(1..MaxSessions)
            BY MaxSessionsAssumption, FS_Interval
        <3> QED BY <3>1, DevicesAssumption, FS_Product DEF UserIds
    <2>2. ASSUME NEW u \in UserIds, g.accepted[u] # Nil PROVE g.accepted[u][x] \in {0, 1}
        <3>1. u \in OneName
            BY <1>6, <2>2 DEF Voters
        <3>2. PICK e \in Devices : u = <<e, 1>>
            BY <3>1 DEF OneName
        <3>3. app[e].localUserYesSwiped[x] \in {0, 1}
            BY <1>7, VoterSwipesOnce
        <3> QED BY <1>8, <3>2, <3>3
    <2> DEFINE acc == g.accepted
    <2>3. DOMAIN acc = UserIds
        BY <1>2
    <2> HIDE DEF acc
    <2>4. CountYesSwipes(acc)[x] = Cardinality({u \in DOMAIN acc : acc[u] # Nil /\ acc[u][x] > 0})
        BY <2>1, <2>2, <2>3, CountedSupport DEF acc
    <2>5. {u \in DOMAIN acc : acc[u] # Nil /\ acc[u][x] > 0} = Likes(x)
        BY <2>3 DEF acc
    <2> QED BY <2>4, <2>5 DEF acc
<1>11. ASSUME NEW x \in Dinners
       PROVE  (Cardinality(Likes(x)) > 0 /\ Cardinality(Likes(x)) = n) <=> x \in Agreed
    <2>1. Likes(x) \in SUBSET OneName
        BY <1>6 DEF Voters
    <2>2. /\ Cardinality(Likes(x)) \in Nat /\ Cardinality(Likes(x)) <= n
          /\ Cardinality(Likes(x)) = n => Likes(x) = OneName
        <3> HIDE DEF Likes
        <3>1. /\ IsFiniteSet(Likes(x)) /\ Cardinality(Likes(x)) <= Cardinality(OneName)
              /\ Cardinality(OneName) = Cardinality(Likes(x)) => OneName = Likes(x)
            BY <2>1, OneNameEach, FS_Subset
        <3> QED BY <3>1, OneNameEach, FS_CardinalityType
    <2>3. Likes(x) = OneName <=> \A e \in Devices : app[e].localUserYesSwiped[x] > 0
        <3>1. ASSUME Likes(x) = OneName, NEW e \in Devices PROVE app[e].localUserYesSwiped[x] > 0
            <4>1. <<e, 1>> \in Likes(x)
                BY <3>1 DEF OneName
            <4> QED BY <1>8, <4>1
        <3>2. ASSUME \A e \in Devices : app[e].localUserYesSwiped[x] > 0, NEW e \in Devices
              PROVE  <<e, 1>> \in Likes(x)
            BY <1>7, <1>8, <3>2 DEF Voters
        <3> QED BY <2>1, <3>1, <3>2 DEF OneName
    <2>4. n > 0
        <3>1. <<d, 1>> \in OneName
            BY DEF OneName
        <3>2. Cardinality(OneName) # 0
            BY <3>1, OneNameEach, FS_EmptySet
        <3> QED BY <3>2, OneNameEach
    <2> HIDE DEF Likes
    <2> QED BY <2>2, <2>3, <2>4, OneNameEach DEF Agreed
<1>12. Winners(g) = {x \in Dinners : Cardinality(Likes(x)) > 0 /\ Cardinality(Likes(x)) = n}
    <2> HIDE DEF Likes
    <2> QED BY <1>3, <1>10 DEF Winners, DinnersWithVotes
<1>13. Winners(g) = Agreed
    <2> HIDE DEF Likes
    <2>1. Agreed \subseteq Dinners
        BY DEF Agreed
    <2> QED BY <1>11, <1>12, <2>1
<1> QED BY <1>9, <1>13 DEF g

-----------------------------------------------------------------------------
(***************************************************************************)
(* How a device comes to show a result, or hangs.                          *)
(***************************************************************************)
Resulting == {"list", "frozen"}

SameResult(d) == /\ app'[d].screen = app[d].screen /\ app'[d].dinnerList = app[d].dinnerList
                 /\ app'[d].activeGroupId = app[d].activeGroupId

NoResult(d) == app[d].screen \notin Resulting /\ app'[d].screen \notin Resulting

\* The search for a free code does not end.
FindsNoCode(d) == /\ app[d].screen = "cards" /\ app'[d].screen = "frozen"
                  /\ app'[d].activeGroupId = Nil

\* The callback of the last listener finds all participants ready.
CountsVotes(d) ==
    /\ Moves(d) /\ groups' = groups /\ outbox' = outbox
    /\ app'[d].activeGroupId = app[d].activeGroupId
    /\ app[d].screen \notin {"frozen", "closed"}
    /\ Hears(app[d], "result") /\ app[d].activeGroupId # Nil
    /\ LET g == View(d, app[d].activeGroupId) IN
       /\ g # Nil /\ g.numberOfUsersReady = g.participants
       /\ \/ /\ Winners(g) = {} /\ app'[d].screen = "frozen"
          \/ /\ Winners(g) # {} /\ app[d].screen = "cards"
             /\ app'[d].screen = "list" /\ app'[d].dinnerList = Winners(g)

LEMMA DeliveredList ==
    ASSUME NEW a \in Apps, NEW l \in Attached(a), NEW g \in Groups \cup {Nil}
    PROVE  Delivered(a, l, g).dinnerList = a.dinnerList
BY SoundAppFields DEF Delivered, IsApp, AppFields

\* A step that leaves the screen, the list and the group of an app alone.
LEMMA KeepsResult ==
    ASSUME IInv, NEW d \in Devices, NEW b, Become(d, b),
           b.screen = app[d].screen, b.dinnerList = app[d].dinnerList,
           b.activeGroupId = app[d].activeGroupId
    PROVE  SameResult(d)
<1>1. app'[d] = b
    BY DEF IInv, Become
<1> QED BY <1>1 DEF SameResult

\* A step from a screen without a result to another one.
LEMMA ShowsNoResult ==
    ASSUME IInv, NEW d \in Devices, NEW b, Become(d, b),
           app[d].screen \notin Resulting, b.screen \notin Resulting
    PROVE  NoResult(d)
<1>1. app'[d] = b
    BY DEF IInv, Become
<1> QED BY <1>1 DEF NoResult

LEMMA SwitchingShows ==
    ASSUME FairParty, SessionInv, NEW d \in Devices, Switching(d)
    PROVE  NoResult(d)
<1>1. IInv /\ NobodyLeaves /\ IsApp(app[d]) /\ app[d].screen \notin {"exit", "restart"}
    BY SessionParts, Unchanged, SoundAppFields DEF Orderly, InOrder
<1>2. ~ConnectCancelled(d) /\ ~SwitchedOff(d) /\ ~ExitCancelled(d) /\ ~ExitConfirmed(d)
    BY <1>1 DEF NobodyLeaves, ConnectCancelled, SwitchedOff, ExitCancelled, ExitConfirmed
<1>3. PICK b : Become(d, b) /\ app[d].screen \notin Resulting /\ b.screen \notin Resulting
    <2>1. CASE SwitchedOn(d)
        <3> DEFINE b == Show([app[d] EXCEPT !.isOn = TRUE], "connect")
        <3>1. b.screen = "connect"
            BY <1>1 DEF Show, IsApp, AppFields
        <3> QED BY <2>1, <3>1 DEF SwitchedOn, OnlyApp, Resulting
    <2>2. CASE JoinPressed(d)
        <3> DEFINE b == Show(app[d], "code")
        <3>1. b.screen = "code"
            BY <1>1 DEF Show, IsApp, AppFields
        <3> QED BY <2>2, <3>1 DEF JoinPressed, OnlyApp, Resulting
    <2>3. CASE CodeEntered(d)
        <3> DEFINE b == Show([app[d] EXCEPT !.client = IF @ = "idle" THEN "persistent" ELSE @], "cards")
        <3>1. b.screen = "cards"
            BY <1>1 DEF Show, IsApp, AppFields
        <3>2. app[d].screen = "code" /\ Become(d, b)
            BY <2>3 DEF CodeEntered
        <3> HIDE DEF b
        <3> QED BY <3>1, <3>2 DEF Resulting
    <2>4. CASE CreatePressed(d)
        <3> DEFINE b == Show([app[d] EXCEPT !.client = "memory"], "cards")
        <3>1. b.screen = "cards" /\ Closed(app[d]).screen = "closed"
            BY <1>1 DEF Show, Closed, IsApp, AppFields
        <3>2. app[d].screen = "connect" /\ (Become(d, b) \/ Become(d, Closed(app[d])))
            BY <2>4 DEF CreatePressed, OnlyApp
        <3> HIDE DEF b
        <3> QED BY <3>1, <3>2 DEF Resulting
    <2> QED BY <1>2, <2>1, <2>2, <2>3, <2>4 DEF Switching
<1> QED BY <1>1, <1>3, ShowsNoResult

LEMMA JoiningShows ==
    ASSUME FairParty, SessionInv, NEW d \in Devices, Joining(d)
    PROVE  NoResult(d) \/ SameResult(d)
<1>1. IInv /\ NobodyLeaves /\ IsApp(app[d]) /\ InOrder(app[d], requests[d], outbox[d])
    BY SessionParts, Unchanged, SoundAppFields DEF Orderly
<1>2. ~LeaveGroupPressed(d)
    BY <1>1 DEF NobodyLeaves, LeaveGroupPressed
<1>3. CASE RemoveAnswered(d)
    BY <1>3 DEF RemoveAnswered, SameResult
<1>4. CASE JoinAnswered(d)
    <2>1. CASE app' = app
        BY <2>1 DEF SameResult
    <2>2. ASSUME app' # app PROVE NoResult(d)
        <3>1. PICK r \in requests[d] :
                  /\ r.kind = "join" /\ Alive(d)
                  /\ requests' = [requests EXCEPT ![d] = @ \ {r}]
                  /\ Become(d, PrepareForOnlineSession(app[d], d, r.code))
            BY <1>4, <2>2 DEF JoinAnswered
        <3>2. app[d].screen = "cards"
            <4>1. r \in Entering(requests[d])
                BY <3>1 DEF Entering
            <4> QED BY <1>1, <3>1, <4>1 DEF InOrder, Attempting, Alive
        <3> DEFINE b == PrepareForOnlineSession(app[d], d, r.code)
        <3> DEFINE a == app[d]
                   c == r.code
        <3>3. /\ IsApp(b) /\ b.isOn = a.isOn /\ b.client = a.client
              /\ b.screen = IF a.screen = "cards" THEN "waiting" ELSE a.screen
              /\ b.groupId = c /\ b.activeGroupId = c /\ b.isInOnlineSession
              /\ b.session = a.session + 1 /\ b.uniqueUserId = <<d, a.session + 1>>
              /\ b.activeEventListener = [role |-> "wait", code |-> c, seen |-> Nil]
              /\ b.leaked = Attached(a)
              /\ SameCards(a, b) /\ b.localUserYesSwiped = a.localUserYesSwiped
            BY <1>1, PreparedFields
        <3>4. Become(d, b)
            BY <3>1
        <3> HIDE DEF b
        <3> QED BY <1>1, <3>2, <3>3, <3>4, ShowsNoResult DEF Resulting
    <2> QED BY <2>1, <2>2
<1> QED BY <1>2, <1>3, <1>4 DEF Joining

LEMMA HostingShows ==
    ASSUME FairParty, SessionInv, NEW d \in Devices, Hosting(d)
    PROVE  NoResult(d) \/ SameResult(d) \/ FindsNoCode(d)
<1>1. IInv /\ NobodyLeaves /\ IsApp(app[d]) /\ InOrder(app[d], requests[d], outbox[d])
    BY SessionParts, Unchanged, SoundAppFields DEF Orderly
<1>2. ~HostCancelled(d)
    BY <1>1 DEF NobodyLeaves, HostCancelled
<1>3. CASE StartPressed(d)
    <2> DEFINE b == Show(app[d], "settings")
    <2>1. b.screen = "settings"
        BY <1>1, ShowFields
    <2>2. Become(d, b) /\ app[d].screen = "lobby"
        BY <1>3 DEF StartPressed, OnlyApp
    <2> HIDE DEF b
    <2> QED BY <1>1, <2>1, <2>2, ShowsNoResult DEF Resulting
<1>4. CASE StartSessionPressed(d)
    <2>1. DealsDeck(d)
        BY <1>1, <1>4, StartSessionPressedEffect
    <2> QED BY <2>1 DEF DealsDeck, NoResult, Resulting
<1>5. CASE StartAnswered(d)
    <2> DEFINE b == [app[d] EXCEPT !.isInOnlineSession = TRUE]
    <2>1. app' = app \/ Become(d, b)
        BY <1>5 DEF StartAnswered
    <2>2. /\ b.screen = app[d].screen /\ b.dinnerList = app[d].dinnerList
          /\ b.activeGroupId = app[d].activeGroupId
        BY <1>1 DEF IsApp, AppFields
    <2> HIDE DEF b
    <2>3. CASE app' = app
        BY <2>3 DEF SameResult
    <2> QED BY <1>1, <2>1, <2>2, <2>3, KeepsResult
<1>6. CASE CreateAnswered(d)
    <2>1. PICK r \in requests[d] :
              /\ r.kind = "create" /\ Alive(d)
              /\ requests' = [requests EXCEPT ![d] = @ \ {r}]
              /\ \/ Become(d, ConnectionError(app[d]))
                 \/ Become(d, Show(app[d], "frozen"))
                 \/ \E c \in Codes : Become(d, CreatedApp(app[d], d, c))
        BY <1>6 DEF CreateAnswered, CheckForMachInIds, CreatedApp
    <2>2. app[d].screen = "cards" /\ app[d].activeGroupId = Nil
        <3>1. r \in Entering(requests[d])
            BY <2>1 DEF Entering
        <3>2. app[d].screen = "cards"
            BY <1>1, <2>1, <3>1 DEF InOrder, Attempting, Alive
        <3>3. app[d].activeGroupId = Nil
            BY <1>1, <3>1 DEF InOrder, InsideGroup
        <3> QED BY <3>2, <3>3
    <2>3. CASE Become(d, ConnectionError(app[d]))
        <3> DEFINE b == ConnectionError(app[d])
        <3>1. b.screen = app[d].screen
            BY <1>1, ConnectionErrorFields
        <3> HIDE DEF b
        <3>2. Become(d, b)
            BY <2>3 DEF b
        <3> QED BY <1>1, <2>2, <3>1, <3>2, ShowsNoResult DEF Resulting
    <2>4. CASE Become(d, Show(app[d], "frozen"))
        <3> DEFINE b == Show(app[d], "frozen")
        <3>1. b.screen = "frozen" /\ b.activeGroupId = Nil
            BY <1>1, <2>2, ShowFields DEF SamePlay, SameMembership
        <3>2. app'[d] = b
            BY <1>1, <2>4 DEF IInv, Become
        <3> HIDE DEF b
        <3> QED BY <2>2, <3>1, <3>2 DEF FindsNoCode
    <2>5. ASSUME NEW c \in Codes, Become(d, CreatedApp(app[d], d, c)) PROVE NoResult(d)
        <3> DEFINE b == CreatedApp(app[d], d, c)
                   a == app[d]
        <3>1. /\ IsApp(b) /\ b.isOn = a.isOn /\ b.client = a.client
              /\ b.screen = IF a.screen = "cards" THEN "lobby" ELSE a.screen
              /\ b.groupId = c /\ b.activeGroupId = c
              /\ b.isInOnlineSession = a.isInOnlineSession
              /\ b.session = a.session + 1 /\ b.uniqueUserId = <<d, a.session + 1>>
              /\ b.activeEventListener = [role |-> "lobby", code |-> c, seen |-> Nil]
              /\ b.leaked = Attached(a)
              /\ SameCards(a, b) /\ b.localUserYesSwiped = a.localUserYesSwiped
            BY <1>1, CreatedFields
        <3>2. Become(d, b)
            BY <2>5
        <3> HIDE DEF b
        <3> QED BY <1>1, <2>2, <3>1, <3>2, ShowsNoResult DEF Resulting
    <2> QED BY <2>1, <2>3, <2>4, <2>5
<1> QED BY <1>2, <1>3, <1>4, <1>5, <1>6 DEF Hosting

LEMMA SwipingShows ==
    ASSUME FairParty, SessionInv, NEW d \in Devices, Swiping(d)
    PROVE  NoResult(d) \/ SameResult(d)
<1>1. /\ IInv /\ EverybodyIsCareful /\ IsApp(app[d]) /\ app[d] \in SoundApps
      /\ InOrder(app[d], requests[d], outbox[d])
    BY SessionParts, Unchanged, SoundAppFields DEF Orderly
<1> DEFINE k == SwipedAction(app[d])
<1>2. ASSUME MaySwipe(d) PROVE app[d].screen = "cards" /\ app[d].isOn /\ IsApp(k) /\ k.screen = "cards"
    <2>1. app[d].screen = "cards" /\ app[d].visible # <<>> /\ app[d].swiped = Nil /\ app[d].isOn
        BY <1>1, <1>2, CarefulSwipe
    <2>2. IsApp(k) /\ k.screen = app[d].screen
        BY <1>1, <2>1, SwipedActionFields DEF IsRunOutOfCards
    <2> QED BY <2>1, <2>2
<1> HIDE DEF k
<1>3. CASE Swipe(d)
    <2>1. PICK s : Become(d, [k EXCEPT !.swiped = s])
        BY <1>3 DEF Swipe, OnlyApp, k
    <2>2. app[d].screen = "cards" /\ IsApp(k) /\ k.screen = "cards"
        BY <1>2, <1>3 DEF Swipe
    <2> DEFINE b == [k EXCEPT !.swiped = s]
    <2>3. b.screen = "cards"
        BY <2>2 DEF IsApp, AppFields
    <2>4. Become(d, b)
        BY <2>1
    <2> HIDE DEF b
    <2> QED BY <1>1, <2>2, <2>3, <2>4, ShowsNoResult DEF Resulting
<1>4. CASE DidSwipe(d)
    <2> DEFINE c == [app[d] EXCEPT !.swiped = Nil]
    <2>1. PICK i, right : Become(d, Recorded(c, i, right))
        BY <1>4 DEF DidSwipe, OnlyApp
    <2>2. /\ IsApp(c) /\ c.screen = app[d].screen /\ c.dinnerList = app[d].dinnerList
          /\ c.activeGroupId = app[d].activeGroupId
        BY <1>1 DEF IsApp, AppFields
    <2> HIDE DEF c
    <2> DEFINE b == Recorded(c, i, right)
    <2>3. b.screen = c.screen /\ b.activeGroupId = c.activeGroupId
        BY <2>2, RecordedFields DEF SameMembership
    <2>4. b.dinnerList = c.dinnerList
        BY <2>2 DEF Recorded, SaveDinnerIdToLocalStage, AddToWantedDinner, IsApp, AppFields
    <2>5. Become(d, b)
        BY <2>1
    <2> HIDE DEF b
    <2> QED BY <1>1, <2>2, <2>3, <2>4, <2>5, KeepsResult
<1>5. CASE SwipeLast(d)
    <2>1. app[d].screen = "cards" /\ app[d].isOn /\ IsApp(k) /\ k.screen = "cards"
        BY <1>2, <1>5 DEF SwipeLast
    <2>2. PICK i, right : RunOutInGroup(d, Recorded(k, i, right))
        BY <1>5, <2>1 DEF SwipeLast, k
    <2> DEFINE b == Recorded(k, i, right)
    <2>3. IsApp(b) /\ b.screen = "cards"
        BY <2>1, RecordedFields
    <2>4. RunOutInGroup(d, b)
        BY <2>2
    <2> HIDE DEF b
    <2> DEFINE n == InitiateEventListenerFor(b, "result", b.activeGroupId)
    <2>5. n.screen = "cards" /\ Closed(b).screen = "closed"
        <3>1. /\ IsApp(n) /\ n.screen = b.screen
              /\ n.activeEventListener = [role |-> "result", code |-> b.activeGroupId, seen |-> Nil]
              /\ n.leaked = Attached(b)
              /\ SameMembership(b, n) /\ SameCards(b, n)
              /\ n.localUserYesSwiped = b.localUserYesSwiped
            BY <2>3, ListensFields
        <3>2. Closed(b).screen = "closed"
            BY <2>3 DEF Closed, IsApp, AppFields
        <3> QED BY <2>3, <3>1, <3>2
    <2>6. Become(d, n) \/ Become(d, Closed(b))
        BY <2>4 DEF RunOutInGroup, OnlyApp
    <2> HIDE DEF n
    <2> QED BY <1>1, <2>1, <2>5, <2>6, ShowsNoResult DEF Resulting
<1> QED BY <1>3, <1>4, <1>5 DEF Swiping

LEMMA SnapshotShows ==
    ASSUME FairParty, SessionInv, NEW d \in Devices, Snapshot(d)
    PROVE  NoResult(d) \/ SameResult(d) \/ CountsVotes(d)
<1> DEFINE a == app[d]
<1>1. IInv /\ a \in Apps /\ a \in SoundApps /\ IsApp(a) /\ InOrder(a, requests[d], outbox[d])
    BY SessionParts, Unchanged, SoundAppFields DEF Orderly
<1>2. PICK l \in Attached(a) :
          LET g == View(d, l.code)
              m == Delivered(a, l, g)
          IN  /\ Alive(d)
              /\ \/ OnlyApp(d, m)
                 \/ /\ l.role = "wait" /\ g # Nil /\ g.swipingSessionRunning
                    /\ \/ ~ReloadFails(WithSessionDeck(m, g)) /\ OnlyApp(d, StartedApp(m, g))
                       \/ OnlyApp(d, Closed(WithSessionDeck(m, g)))
                 \/ /\ l.role = "result" /\ g # Nil /\ g.numberOfUsersReady = g.participants
                    /\ \/ /\ Winners(g) # {}
                          /\ OnlyApp(d, IF m.screen = "cards"
                                        THEN Present([m EXCEPT !.dinnerList = Winners(g)], "list")
                                        ELSE m)
                       \/ Winners(g) = {} /\ OnlyApp(d, Show(m, "frozen"))
    BY DEF Snapshot, LobbySnapshot, WaitSnapshot, ResultSnapshot, Changed, StartedApp
<1> DEFINE g == View(d, l.code)
           m == Delivered(a, l, g)
<1>3. l.code \in Codes
    BY <1>1, AttachedListeners DEF Listeners
<1>4. g \in DealtGroups \cup {Nil} /\ g \in Groups \cup {Nil}
    BY <1>1, <1>3, ViewDealt, DealtSubset
<1>5. /\ a.screen \notin {"frozen", "closed"}
      /\ \/ OnlyApp(d, m)
         \/ /\ l.role = "wait" /\ g # Nil /\ g.swipingSessionRunning
            /\ \/ ~ReloadFails(WithSessionDeck(m, g)) /\ OnlyApp(d, StartedApp(m, g))
               \/ OnlyApp(d, Closed(WithSessionDeck(m, g)))
         \/ /\ l.role = "result" /\ g # Nil /\ g.numberOfUsersReady = g.participants
            /\ \/ /\ Winners(g) # {}
                  /\ OnlyApp(d, IF m.screen = "cards"
                                THEN Present([m EXCEPT !.dinnerList = Winners(g)], "list")
                                ELSE m)
               \/ Winners(g) = {} /\ OnlyApp(d, Show(m, "frozen"))
    BY <1>2 DEF Alive
<1> HIDE DEF g
<1>6. IsApp(m) /\ m.screen = a.screen /\ m.activeGroupId = a.activeGroupId
    BY <1>1, <1>4, DeliveredFields DEF SameMembership
<1>7. m.dinnerList = a.dinnerList /\ m \in SoundApps
    BY <1>1, <1>4, DeliveredList, DeliveredSound
<1> HIDE DEF m
<1>8. CASE OnlyApp(d, m)
    BY <1>1, <1>6, <1>7, <1>8, KeepsResult DEF OnlyApp
<1>9. CASE l.role = "wait" /\ g # Nil /\ g.swipingSessionRunning
           /\ ((~ReloadFails(WithSessionDeck(m, g)) /\ OnlyApp(d, StartedApp(m, g)))
               \/ OnlyApp(d, Closed(WithSessionDeck(m, g))))
    <2>1. a.screen = "waiting"
        BY <1>1, <1>5, <1>9 DEF InOrder, WaitingForHost, Hears
    <2>2. PICK b : Become(d, b) /\ b.screen \in {"cards", "closed"}
        <3>1. CASE ~ReloadFails(WithSessionDeck(m, g)) /\ OnlyApp(d, StartedApp(m, g))
            <4>1. StartedApp(m, g).screen = "cards"
                BY <1>4, <1>6, <1>7, <1>9, <2>1, <3>1, StartedFields
            <4> QED BY <3>1, <4>1 DEF OnlyApp
        <3>2. CASE OnlyApp(d, Closed(WithSessionDeck(m, g)))
            <4>1. Closed(WithSessionDeck(m, g)).screen = "closed"
                BY <1>6 DEF Closed, WithSessionDeck, IsApp, AppFields
            <4> QED BY <3>2, <4>1 DEF OnlyApp
        <3> QED BY <1>9, <3>1, <3>2
    <2> QED BY <1>1, <2>1, <2>2, ShowsNoResult DEF Resulting
<1>10. CASE l.role = "result" /\ g # Nil /\ g.numberOfUsersReady = g.participants
            /\ ((Winners(g) # {}
                 /\ OnlyApp(d, IF m.screen = "cards"
                               THEN Present([m EXCEPT !.dinnerList = Winners(g)], "list")
                               ELSE m))
                \/ (Winners(g) = {} /\ OnlyApp(d, Show(m, "frozen"))))
    <2>1. Hears(a, "result")
        BY <1>10 DEF Hears
    <2>2. a.activeGroupId # Nil
        BY <1>1 DEF InOrder, OutsideGroup
    <2>3. l.code = a.activeGroupId
        BY <1>1, <2>2 DEF InOrder, InsideGroup
    <2>4. CASE Winners(g) # {} /\ a.screen # "cards"
        <3>1. OnlyApp(d, m)
            BY <1>6, <1>10, <2>4
        <3> QED BY <1>8, <3>1
    <2>5. CASE Winners(g) # {} /\ a.screen = "cards"
        <3> DEFINE e == [m EXCEPT !.dinnerList = Winners(g)]
                   b == Show(e, "list")
        <3>1. /\ b.screen = "list" /\ b.dinnerList = Winners(g)
              /\ b.activeGroupId = a.activeGroupId /\ e.screen = "cards"
            BY <1>6, <2>5 DEF Show, IsApp, AppFields
        <3>2. OnlyApp(d, b)
            BY <1>6, <1>10, <2>5, <3>1 DEF Present
        <3> HIDE DEF b
        <3>3. MovesAlone(d) /\ app'[d] = b /\ outbox' = outbox
            BY <1>1, <3>2, OnlyAppMoves DEF OnlyApp
        <3> QED BY <1>5, <1>10, <2>1, <2>2, <2>3, <2>5, <3>1, <3>3
                DEF CountsVotes, MovesAlone, g
    <2>6. CASE Winners(g) = {}
        <3> DEFINE b == Show(m, "frozen")
        <3>1. b.screen = "frozen" /\ b.activeGroupId = a.activeGroupId
            BY <1>6, ShowFields DEF SamePlay, SameMembership
        <3>2. OnlyApp(d, b)
            BY <1>10, <2>6
        <3> HIDE DEF b
        <3>3. MovesAlone(d) /\ app'[d] = b /\ outbox' = outbox
            BY <1>1, <3>2, OnlyAppMoves DEF OnlyApp
        <3> QED BY <1>5, <1>10, <2>1, <2>2, <2>3, <2>6, <3>1, <3>3
                DEF CountsVotes, MovesAlone, g
    <2> QED BY <2>4, <2>5, <2>6
<1> QED BY <1>5, <1>8, <1>9, <1>10

LEMMA EnvironmentShows ==
    ASSUME FairParty, SessionInv, NEW d \in Devices, Environment(d)
    PROVE  NoResult(d) \/ SameResult(d)
<1>1. IInv /\ NobodyIsKilled /\ IsApp(app[d])
    BY SessionParts, Unchanged, SoundAppFields
<1>2. ~Killed(d)
    BY <1>1, NobodyKills
<1>3. CASE WriteReachesServer(d)
    BY <1>3 DEF WriteReachesServer, SameResult
<1>4. CASE RequestFails(d)
    <2>1. PICK b : Become(d, b) /\ b \in {ConnectionError(app[d]), app[d]}
        BY <1>4 DEF RequestFails
    <2>2. /\ b.screen = app[d].screen /\ b.dinnerList = app[d].dinnerList
          /\ b.activeGroupId = app[d].activeGroupId
        BY <1>1, <2>1 DEF ConnectionError, DetachEventListener, IsApp, AppFields
    <2> QED BY <1>1, <2>1, <2>2, KeepsResult
<1>5. CASE Launch(d)
    <2>1. PICK deck : Become(d, LaunchedApp(deck, app[d].session)) /\ app[d].screen = "closed"
        BY <1>5 DEF Launch
    <2>2. LaunchedApp(deck, app[d].session).screen = "cards"
        BY DEF LaunchedApp
    <2> QED BY <1>1, <2>1, <2>2, ShowsNoResult DEF Resulting
<1> QED BY <1>2, <1>3, <1>4, <1>5 DEF Environment

LEMMA ResultSteps ==
    ASSUME FairParty, SessionInv, Next, NEW d \in Devices
    PROVE  NoResult(d) \/ SameResult(d) \/ FindsNoCode(d) \/ CountsVotes(d)
<1>1. PICK e \in Devices : \/ Switching(e) \/ Joining(e) \/ Hosting(e) \/ Swiping(e)
                           \/ Snapshot(e) \/ Listing(e) \/ Environment(e)
    BY DEF Next
<1>2. IInv /\ NobodyLeaves /\ app[d].screen # "restart"
    BY SessionParts DEF Orderly, InOrder
<1>3. CASE e # d
    <2>1. app'[d] = app[d]
        BY <1>1, <1>2, <1>3, OthersStay
    <2> QED BY <2>1 DEF SameResult
<1>4. ~Listing(d)
    BY <1>2 DEF Listing, RestartPressed, RestartCancelled, RestartConfirmed, NobodyLeaves
<1> QED BY <1>1, <1>3, <1>4, SwitchingShows, JoiningShows, HostingShows, SwipingShows,
           SnapshotShows, EnvironmentShows

-----------------------------------------------------------------------------
(***************************************************************************)
(* Results are what all have agreed on.                                    *)
(***************************************************************************)
\* A list on a screen is what all have agreed on; an app that hangs has no group
\* yet, or has counted votes that agree on nothing.
Resulted ==
    \A d \in Devices :
        /\ app[d].screen = "list" => /\ AllVoted /\ Agreed # {}
                                     /\ app[d].dinnerList = Agreed
        /\ app[d].screen = "frozen" => \/ app[d].activeGroupId = Nil
                                       \/ AllVoted /\ Agreed = {}

\* The inductive invariant of the result.
ResultInv == /\ SessionInv /\ NewCodes /\ HostFirst /\ UsedIsVoted /\ FinalBallots
             /\ SessionItems /\ ResultHeard /\ Resulted

LEMMA AgreementStays ==
    ASSUME FairParty, SessionInv, HostFirst, Next, AllVoted
    PROVE  AllVoted' /\ Agreed' = Agreed
<1>1. ASSUME NEW d \in Devices
      PROVE  HasVoted(d)' /\ app'[d].localUserYesSwiped = app[d].localUserYesSwiped
    BY VotedStays, VotedSwipesStay DEF AllVoted
<1> QED BY <1>1 DEF AllVoted, Agreed

\* Who counts the votes has them all.
LEMMA CounterSeesAgreement ==
    ASSUME FairParty, SessionInv, NewCodes, UsedIsVoted, FinalBallots, SessionItems, ResultHeard,
           NEW d \in Devices, CountsVotes(d)
    PROVE  AllVoted /\ Winners(View(d, app[d].activeGroupId)) = Agreed
<1>1. HasVoted(d)
    BY DEF CountsVotes, ResultHeard
<1> QED BY <1>1, ReadyResult DEF CountsVotes

LEMMA ResultedStep ==
    ASSUME FairParty, ResultInv, Next
    PROVE  Resulted'
<1>1. /\ SessionInv /\ NewCodes /\ HostFirst /\ UsedIsVoted /\ FinalBallots
      /\ SessionItems /\ ResultHeard /\ Resulted
    BY DEF ResultInv
<1> SUFFICES ASSUME NEW d \in Devices
             PROVE  /\ app'[d].screen = "list" => /\ AllVoted' /\ Agreed' # {}
                                                  /\ app'[d].dinnerList = Agreed'
                    /\ app'[d].screen = "frozen" => \/ app'[d].activeGroupId = Nil
                                                    \/ AllVoted' /\ Agreed' = {}
    BY DEF Resulted
<1>2. CASE NoResult(d)
    BY <1>2 DEF NoResult, Resulting
<1>3. CASE SameResult(d)
    BY <1>1, <1>3, AgreementStays DEF Resulted, SameResult
<1>4. CASE FindsNoCode(d)
    BY <1>4 DEF FindsNoCode
<1>5. CASE CountsVotes(d)
    <2>1. AllVoted /\ Winners(View(d, app[d].activeGroupId)) = Agreed
        BY <1>1, <1>5, CounterSeesAgreement
    <2>2. AllVoted' /\ Agreed' = Agreed
        BY <1>1, <2>1, AgreementStays
    <2> QED BY <1>5, <2>1, <2>2 DEF CountsVotes
<1> QED BY <1>1, <1>2, <1>3, <1>4, <1>5, ResultSteps

LEMMA ResultInvInit == FairParty /\ Init => ResultInv
<1> SUFFICES ASSUME FairParty, Init PROVE ResultInv
    OBVIOUS
<1>1. SessionInv /\ NewCodes /\ HostFirst /\ UsedIsVoted /\ FinalBallots
    BY SessionInit, NewCodesInit, UsedIsVotedInit, FinalBallotsInit
<1>2. SessionItems /\ ResultHeard
    BY SessionItemsInit
<1>3. Resulted
    <2>1. ASSUME NEW d \in Devices PROVE app[d].screen = "cards"
        BY DEF Init, LaunchedApp
    <2> QED BY <2>1 DEF Resulted
<1> QED BY <1>1, <1>2, <1>3 DEF ResultInv

LEMMA ResultInvNext ==
    ASSUME FairParty
    PROVE  ResultInv /\ [Next]_vars => ResultInv'
<1> SUFFICES ASSUME ResultInv, [Next]_vars PROVE ResultInv'
    OBVIOUS
<1>1. /\ SessionInv /\ NewCodes /\ HostFirst /\ UsedIsVoted /\ FinalBallots
      /\ SessionItems /\ ResultHeard /\ Resulted
    BY DEF ResultInv
<1>2. SessionInv'
    BY <1>1, SessionNext
<1>3. CASE Next
    <2>1. NewCodes' /\ HostFirst'
        BY <1>1, <1>3, NewCodesStep, HostFirstStep
    <2>2. UsedIsVoted' /\ FinalBallots'
        BY <1>1, <1>3, UsedIsVotedStep, FinalBallotsStep
    <2>3. SessionItems' /\ ResultHeard'
        BY <1>1, <1>3, SessionItemsStep, ResultHeardStep
    <2>4. Resulted'
        BY <1>3, ResultedStep
    <2> QED BY <1>2, <2>1, <2>2, <2>3, <2>4 DEF ResultInv
<1>4. CASE UNCHANGED vars
    <2>1. /\ groups' = groups /\ outbox' = outbox /\ requests' = requests /\ app' = app
        BY <1>4 DEF vars
    <2>2. NewCodes' /\ HostFirst'
        BY <1>1, <2>1 DEF NewCodes, HostFirst
    <2>3. (\A d \in Devices : HasVoted(d)' <=> HasVoted(d)) /\ Agreed' = Agreed
        BY <2>1 DEF HasVoted, Agreed
    <2>4. UsedIsVoted'
        BY <1>1, <2>1, <2>3 DEF UsedIsVoted, Used
    <2>5. FinalBallots'
        BY <1>1, <2>1 DEF FinalBallots, Finals, OnlyBallots, CastIn
    <2>6. SessionItems' /\ ResultHeard'
        BY <1>1, <2>1, <2>3 DEF SessionItems, ResultHeard
    <2>7. Resulted'
        BY <1>1, <2>1, <2>3 DEF Resulted, AllVoted
    <2> QED BY <1>2, <2>2, <2>4, <2>5, <2>6, <2>7 DEF ResultInv
<1> QED BY <1>3, <1>4

\* getDinnersWithMostVotes loops for ever on a document in which no dinner has
\* as many votes as there are participants.  In a session in which all have
\* swiped some dinner right, no app is in that loop: no counter runs ahead of
\* the lists (kolodaDidRunOutOfCards sends the list first), no list is from
\* before the session, and participants counts all and nobody twice.  An app
\* that looks for a free code for ever (checkForMachInIds) has no group, and its
\* user has swiped nothing yet.
THEOREM AppsFreezeOnlyWithoutAgreement ==
    ASSUME FairParty
    PROVE  Spec => []FreezesOnlyWithoutAgreement
<1>1. Init => ResultInv
    BY ResultInvInit
<1>2. ResultInv /\ [Next]_vars => ResultInv'
    BY ResultInvNext
<1>3. ResultInv => FreezesOnlyWithoutAgreement
    <2> SUFFICES ASSUME ResultInv, NEW d \in Devices, app[d].screen = "frozen"
                 PROVE  Agreed = {}
        BY DEF FreezesOnlyWithoutAgreement
    <2>1. CASE app[d].activeGroupId = Nil
        <3>1. \A x \in Dinners : app[d].localUserYesSwiped[x] = 0
            BY <2>1, SessionParts DEF ResultInv, AllTallied, Tallied, NotStarted
        <3> QED BY <3>1 DEF Agreed
    <2>2. CASE app[d].activeGroupId # Nil
        BY <2>2 DEF ResultInv, Resulted
    <2> QED BY <2>1, <2>2
<1> QED BY <1>1, <1>2, <1>3, PTL DEF Spec

-----------------------------------------------------------------------------
(***************************************************************************)
(* A session implements GroupVote.                                         *)
(***************************************************************************)
Ballots == [d \in Devices |-> BallotOf(d)]
ShownResults   == [d \in Devices |-> ResultOn(d)]

LEMMA BallotsAreNotNil ==
    ASSUME NEW d \in Devices
    PROVE  HasVoted(d) <=> BallotOf(d) # Nil
<1>1. {x \in Dinners : app[d].localUserYesSwiped[x] > 0} # Nil
    BY NilAssumption
<1> QED BY <1>1 DEF BallotOf

LEMMA VoteInit == FairParty /\ Init => GV!Init
<1> SUFFICES ASSUME FairParty, Init PROVE GV!Init
    OBVIOUS
<1>1. SessionInv
    BY SessionInit
<1>2. ASSUME NEW d \in Devices PROVE BallotOf(d) = Nil /\ ResultOn(d) = Nil
    <2>1. app[d].session = 0 /\ app[d].screen = "cards"
        BY DEF Init, LaunchedApp
    <2>2. ~HasVoted(d)
        <3>1. ASSUME HasVoted(d) PROVE app[d].session = 1
            BY <1>1, <3>1, VotedIsDone
        <3> QED BY <2>1, <3>1
    <2> QED BY <2>1, <2>2 DEF BallotOf, ResultOn
<1> QED BY <1>2 DEF GV!Init

\* Voting.
LEMMA VoteStep ==
    ASSUME FairParty, ResultInv, SessionInv', Next, NEW d \in Devices, ~HasVoted(d), HasVoted(d)'
    PROVE  GV!Vote(d)
<1>1. SessionInv /\ HostFirst /\ UsedIsVoted
    BY DEF ResultInv
<1>2. RunsOut(d)
    BY <1>1, NewVoter
<1>3. /\ Moves(d) /\ app[d].screen = "cards" /\ app'[d].screen = "cards"
      /\ app[d].visible # <<>> /\ app'[d].visible = <<>>
    BY <1>2 DEF RunsOut
<1>4. ASSUME NEW e \in Devices \ {d} PROVE BallotOf(e)' = BallotOf(e) /\ ResultOn(e)' = ResultOn(e)
    <2>1. app'[e] = app[e]
        BY <1>3 DEF Moves
    <2>2. HasVoted(e) => HasVoted(e)'
        BY <1>1, VotedStays
    <2>3. ASSUME ~HasVoted(e), HasVoted(e)' PROVE FALSE
        <3>1. RunsOut(e)
            BY <1>1, <2>3, NewVoter
        <3>2. app'[d] = app[d]
            BY <3>1 DEF RunsOut, Moves
        <3> QED BY <1>3, <3>2
    <2> QED BY <2>1, <2>2, <2>3 DEF BallotOf, ResultOn
<1>5. BallotOf(d) = Nil /\ BallotOf(d)' \in SUBSET Dinners
    BY DEF BallotOf
<1>6. ResultOn(d)' = ResultOn(d)
    BY <1>3 DEF ResultOn
<1>7. Ballots' = [Ballots EXCEPT ![d] = BallotOf(d)'] /\ ShownResults' = ShownResults /\ Ballots[d] = Nil
    BY <1>4, <1>5, <1>6 DEF Ballots, ShownResults
<1>8. PICK ballot \in SUBSET Dinners : Ballots' = [Ballots EXCEPT ![d] = ballot]
    BY <1>5, <1>7
<1> QED BY <1>7, <1>8 DEF GV!Vote, Ballots, ShownResults

\* Showing the result, and all other steps.
LEMMA ShowStep ==
    ASSUME FairParty, ResultInv, ResultInv', Next,
           \A d \in Devices : HasVoted(d)' <=> HasVoted(d)
    PROVE  GV!Next \/ UNCHANGED GV!vars
<1>1. /\ SessionInv /\ NewCodes /\ HostFirst /\ UsedIsVoted /\ FinalBallots
      /\ SessionItems /\ ResultHeard /\ Resulted /\ Resulted'
    BY DEF ResultInv
<1>2. Ballots' = Ballots
    <2>1. ASSUME NEW d \in Devices PROVE BallotOf(d)' = BallotOf(d)
        <3>1. CASE HasVoted(d)
            <4>1. app'[d].localUserYesSwiped = app[d].localUserYesSwiped /\ HasVoted(d)'
                BY <1>1, <3>1, VotedSwipesStay
            <4> QED BY <3>1, <4>1 DEF BallotOf
        <3>2. CASE ~HasVoted(d)
            BY <3>2 DEF BallotOf
        <3> QED BY <3>1, <3>2
    <2> QED BY <2>1 DEF Ballots
<1>3. CASE \E d \in Devices : app[d].screen # "list" /\ app'[d].screen = "list"
    <2>1. PICK d \in Devices : app[d].screen # "list" /\ app'[d].screen = "list"
        BY <1>3
    <2>2. CountsVotes(d)
        BY <1>1, <2>1, ResultSteps DEF NoResult, SameResult, FindsNoCode, Resulting
    <2>3. AllVoted
        BY <1>1, <2>2, CounterSeesAgreement
    <2>4. Agreed # {} /\ app'[d].dinnerList = Agreed
        BY <1>1, <2>1, <2>3, AgreementStays DEF Resulted
    <2>5. \A e \in Devices : Ballots[e] = {x \in Dinners : app[e].localUserYesSwiped[x] > 0}
        BY <2>3 DEF AllVoted, Ballots, BallotOf
    <2>6. {x \in Dinners : \A e \in Devices : x \in Ballots[e]} = Agreed
        BY <2>5 DEF Agreed
    <2>7. \A e \in Devices : Ballots[e] # Nil
        BY <2>3, BallotsAreNotNil DEF AllVoted, Ballots
    <2>8. ShownResults[d] = Nil /\ ShownResults' = [ShownResults EXCEPT ![d] = Agreed]
        <3>1. ResultOn(d) = Nil /\ ResultOn(d)' = Agreed
            BY <2>1, <2>4 DEF ResultOn
        <3>2. ASSUME NEW e \in Devices \ {d} PROVE ResultOn(e)' = ResultOn(e)
            BY <2>2 DEF CountsVotes, Moves, ResultOn
        <3> QED BY <3>1, <3>2 DEF ShownResults
    <2>9. GV!Agreement = Agreed
        BY <2>6 DEF GV!Agreement, Ballots
    <2>10. GV!ShowResult(d)
        BY <1>2, <2>4, <2>7, <2>8, <2>9 DEF GV!ShowResult, Ballots, ShownResults
    <2> QED BY <2>10 DEF GV!Next
<1>4. CASE ~ \E d \in Devices : app[d].screen # "list" /\ app'[d].screen = "list"
    <2>1. ASSUME NEW d \in Devices PROVE ResultOn(d)' = ResultOn(d)
        <3>1. CASE NoResult(d)
            BY <3>1 DEF NoResult, Resulting, ResultOn
        <3>2. CASE SameResult(d)
            BY <3>2 DEF SameResult, ResultOn
        <3>3. CASE FindsNoCode(d)
            BY <3>3 DEF FindsNoCode, ResultOn
        <3>4. CASE CountsVotes(d)
            <4>1. Winners(View(d, app[d].activeGroupId)) = Agreed
                BY <1>1, <3>4, CounterSeesAgreement
            <4>2. app'[d].screen = "frozen"
                BY <1>4, <3>4 DEF CountsVotes
            <4>3. Agreed = {}
                BY <3>4, <4>1, <4>2 DEF CountsVotes
            <4>4. app[d].screen # "list"
                BY <1>1, <4>3 DEF Resulted
            <4> QED BY <4>2, <4>4 DEF ResultOn
        <3> QED BY <1>1, <3>1, <3>2, <3>3, <3>4, ResultSteps
    <2>2. ShownResults' = ShownResults
        BY <2>1 DEF ShownResults
    <2> QED BY <1>2, <2>2 DEF GV!vars, Ballots, ShownResults
<1> QED BY <1>3, <1>4

\* A session is a fair vote: what kolodaDidRunOutOfCards sends is the one ballot
\* of its user and stays what that user has swiped; the callback that waits for
\* numberOfUsersReady == participants shows the dinner list on no device before
\* the ballots of all devices are cast, and what it shows is what all of them
\* have in common, the same everywhere and for good.  So it is for any number of
\* guests, dinners, codes and failed reads, in whatever order the writes and
\* callbacks of the devices cross.
THEOREM SessionIsAFairVote ==
    ASSUME FairParty
    PROVE  Spec => VoteIsFair
<1>1. Init => ResultInv /\ GV!Init
    BY ResultInvInit, VoteInit
<1>2. ResultInv /\ [Next]_vars => ResultInv'
    BY ResultInvNext
<1>3. ResultInv /\ ResultInv' /\ [Next]_vars => [GV!Next]_GV!vars
    <2> SUFFICES ASSUME ResultInv, ResultInv', [Next]_vars
                 PROVE  GV!Next \/ UNCHANGED GV!vars
        OBVIOUS
    <2>1. SessionInv /\ SessionInv' /\ HostFirst
        BY DEF ResultInv
    <2>2. CASE UNCHANGED vars
        <3>1. \A d \in Devices : BallotOf(d)' = BallotOf(d) /\ ResultOn(d)' = ResultOn(d)
            BY <2>2 DEF vars, BallotOf, ResultOn, HasVoted
        <3>2. Ballots' = Ballots /\ ShownResults' = ShownResults
            BY <3>1 DEF Ballots, ShownResults
        <3> QED BY <3>2 DEF GV!vars, Ballots, ShownResults
    <2>3. ASSUME Next, NEW d \in Devices, ~HasVoted(d), HasVoted(d)' PROVE GV!Next
        BY <2>1, <2>3, VoteStep DEF GV!Next
    <2>4. CASE Next /\ \A d \in Devices : HasVoted(d)' => HasVoted(d)
        <3>1. \A d \in Devices : HasVoted(d) => HasVoted(d)'
            BY <2>1, <2>4, VotedStays
        <3>2. \A d \in Devices : HasVoted(d)' <=> HasVoted(d)
            BY <2>4, <3>1
        <3> QED BY <2>4, <3>2, ShowStep
    <2> QED BY <2>2, <2>3, <2>4
<1> QED BY <1>1, <1>2, <1>3, PTL DEF Spec, VoteIsFair, GV!Spec
=============================================================================

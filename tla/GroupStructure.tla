--------------------------- MODULE GroupStructure ---------------------------
(***************************************************************************)
(* The document that the devices of one group share: the Codable struct    *)
(* GroupStructure, kept in the Firestore collection "Groups" under the     *)
(* group's code, and the four ways FirebaseManager writes it.  A document  *)
(* or an optional that is absent is Nil.                                   *)
(*                                                                         *)
(* A list of swiped dinner ids is a bag, [Dinners -> Nat]: the code only   *)
(* ever counts how often an id occurs in it.  The field numberOfCards is   *)
(* written and never read, and is left out.                                *)
(***************************************************************************)
EXTENDS Integers, Sequences, FiniteSets, Functions

CONSTANTS
    Nil,            \* an absent optional, or a document that does not exist
    Dinners,        \* dinner ids
    Codes,          \* group codes (document ids)
    Devices,        \* the installations of the app
    MaxSessions     \* bound: groups a device creates or joins

ASSUME MaxSessionsAssumption == MaxSessions \in Nat

ASSUME DevicesAssumption == IsFiniteSet(Devices)

\* createUniqueUserId draws ten random letters; the k-th draw on a device
\* is <<device, k>>, so two draws never agree.
UserIds == Devices \X (1..MaxSessions)

DinnerLists == [Dinners -> Nat]

Groups == [participants : Int,
           swipingSessionRunning : BOOLEAN,
           dinnerIdsForCardView : Seq(Dinners),
           numberOfUsersReady : Nat,
           accepted : [UserIds -> DinnerLists \cup {Nil}]]

\* An absent optional is none of the values that it may have.
ASSUME NilAssumption ==
    /\ Nil \notin Codes /\ Nil \notin UserIds /\ Nil \notin DinnerLists /\ Nil \notin Groups
    /\ \A S \in SUBSET Dinners : Nil # S

\* What createGroup stores.
NewGroup == [participants |-> 1,
             swipingSessionRunning |-> FALSE,
             dinnerIdsForCardView |-> <<>>,
             numberOfUsersReady |-> 0,
             accepted |-> [u \in UserIds |-> Nil]]

-----------------------------------------------------------------------------
(***************************************************************************)
(* Writes.  setData replaces the whole document; the three updateData      *)
(* calls change one field, and fail on a document that does not exist.     *)
(* With an increment the client keeps its base: the value that the field   *)
(* had, as far as this client knew, when the call was made.  The server    *)
(* never sees it.                                                          *)
(***************************************************************************)
SetData(c, g)                    == [op |-> "set", code |-> c, group |-> g]
AddOneParticipant(c, base)       == [op |-> "join", code |-> c, base |-> base]
AddDinnerIdsToFirebase(c, u, l)  == [op |-> "vote", code |-> c, user |-> u, list |-> l]
MarkThisUserAsReady(c, base)     == [op |-> "ready", code |-> c, base |-> base]

Writes == [op : {"set"}, code : Codes, group : Groups]
          \cup [op : {"join"}, code : Codes, base : Int]
          \cup [op : {"ready"}, code : Codes, base : Nat]
          \cup [op : {"vote"}, code : Codes, user : UserIds, list : DinnerLists]

\* The base of an increment of participants or numberOfUsersReady.
ParticipantsIn(g) == IF g = Nil THEN 0 ELSE g.participants
ReadyIn(g)        == IF g = Nil THEN 0 ELSE g.numberOfUsersReady

\* The document after the server has applied one write to it.
ApplyWrite(g, w) ==
    CASE w.op = "set"   -> w.group
      [] w.op # "set" /\ g = Nil -> Nil
      [] w.op = "join"  /\ g # Nil -> [g EXCEPT !.participants = @ + 1]
      [] w.op = "ready" /\ g # Nil -> [g EXCEPT !.numberOfUsersReady = @ + 1]
      [] w.op = "vote"  /\ g # Nil -> [g EXCEPT !.accepted[w.user] = w.list]

-----------------------------------------------------------------------------
(***************************************************************************)
(* Latency compensation: what a client reads is the server's document with *)
(* its own unacknowledged writes q applied on top.  The last setData in q  *)
(* hides the server's document and every write before it.  Of several      *)
(* votes of one user the last one stands, and so does the last of several  *)
(* increments: each is applied to its own base, so that a counter does not *)
(* flicker when the server's document has the increment already.           *)
(***************************************************************************)
Latest(S) == CHOOSE i \in S : \A j \in S : j <= i

PendingSets(q, c) == {i \in DOMAIN q : q[i].code = c /\ q[i].op = "set"}

Pending(q, c, op) ==
    {i \in DOMAIN q : /\ q[i].code = c
                      /\ q[i].op = op
                      /\ \A j \in PendingSets(q, c) : j < i}

PendingVotes(q, c, u) == {i \in Pending(q, c, "vote") : q[i].user = u}

BaseDocument(g, q, c) ==
    IF PendingSets(q, c) = {} THEN g ELSE q[Latest(PendingSets(q, c))].group

\* A counter that is n in the base document.
LocalCount(q, c, op, n) ==
    IF Pending(q, c, op) = {} THEN n ELSE q[Latest(Pending(q, c, op))].base + 1

LocalView(g, q, c) ==
    LET b == BaseDocument(g, q, c) IN
    IF b = Nil THEN Nil
    ELSE [b EXCEPT
            !.participants       = LocalCount(q, c, "join", @),
            !.numberOfUsersReady = LocalCount(q, c, "ready", @),
            !.accepted           = [u \in UserIds |->
                                      IF PendingVotes(q, c, u) = {} THEN @[u]
                                      ELSE q[Latest(PendingVotes(q, c, u))].list]]

-----------------------------------------------------------------------------
(***************************************************************************)
(* Reading the votes.                                                      *)
(***************************************************************************)

\* countYesSwipes: how often a dinner id occurs in all lists together.
CountYesSwipes(accepted) ==
    [x \in Dinners |->
        FoldFunction(LAMBDA l, n : n + IF l = Nil THEN 0 ELSE l[x], 0, accepted)]

\* Bugs: the bar is one vote lower, or one vote higher.
DinnersAlmostAgreed(voteCount, participants) ==
    {x \in Dinners : voteCount[x] > 0 /\ voteCount[x] >= participants - 1}

DinnersMoreThanAgreed(voteCount, participants) ==
    {x \in Dinners : voteCount[x] > participants}

\* The dictionary countYesSwipes returns has no entry for an id that occurs
\* nowhere; getDinnersWithMostVotes keeps the entries equal to participants.
DinnersWithVotes(voteCount, participants) ==
    {x \in Dinners : voteCount[x] > 0 /\ voteCount[x] = participants}
=============================================================================

----------------------------- MODULE TallyLoop ------------------------------
(***************************************************************************)
(* getDinnersWithMostVotes, statement by statement, on the votes of a      *)
(* group in which everybody has voted once.  The loop that should lower    *)
(* the bar compares with participants again and never with                 *)
(* participantsMinus.                                                      *)
(***************************************************************************)
EXTENDS GroupStructure

CONSTANTS
    MaxTimes,       \* bound: times a dinner occurs in one list
    MaxRounds       \* bound: rounds of the loop that are told apart

ASSUME TallyAssumption == MaxTimes \in Nat /\ MaxRounds \in Nat

VARIABLES
    accepted,               \* collectionOfAcceptedDinnerList
    participants,
    participantsMinus,
    dinnerIdsWithMostVotes,
    pc                      \* "count", "while", "returned"

tallyVars == <<accepted, participants, participantsMinus, dinnerIdsWithMostVotes, pc>>

VoteCount == CountYesSwipes(accepted)

Init == /\ accepted \in [UserIds -> [Dinners -> 0..MaxTimes]]
        /\ participants = Cardinality(UserIds)
        /\ participantsMinus = participants
        /\ dinnerIdsWithMostVotes = {}
        /\ pc = "count"

\* The for loop before the while.
FirstPass ==
    /\ pc = "count"
    /\ dinnerIdsWithMostVotes' = DinnersWithVotes(VoteCount, participants)
    /\ pc' = "while"
    /\ UNCHANGED <<accepted, participants, participantsMinus>>

\* The dinners the body of the while appends.
Lowered(bar) == DinnersWithVotes(VoteCount, participants)

Round ==
    /\ pc = "while"
    /\ dinnerIdsWithMostVotes = {}
    /\ participantsMinus' = IF participantsMinus > participants - MaxRounds
                            THEN participantsMinus - 1 ELSE participantsMinus
    /\ dinnerIdsWithMostVotes' = Lowered(participantsMinus')
    /\ UNCHANGED <<accepted, participants, pc>>

Return ==
    /\ pc = "while"
    /\ dinnerIdsWithMostVotes # {}
    /\ pc' = "returned"
    /\ UNCHANGED <<accepted, participants, participantsMinus, dinnerIdsWithMostVotes>>

Next == FirstPass \/ Round \/ Return

Spec == Init /\ [][Next]_tallyVars
FairSpec == Spec /\ WF_tallyVars(Next)

-----------------------------------------------------------------------------
Supporters(x) == {u \in UserIds : accepted[u][x] > 0}

\* No list names a dinner twice.
SingleVotes == \A u \in UserIds : \A x \in Dinners : accepted[u][x] <= 1

\* What the name promises: no dinner has more supporters than a returned one,
\* and all that have as many are returned.
MostSupported == {x \in Dinners : \A y \in Dinners :
                    Cardinality(Supporters(y)) <= Cardinality(Supporters(x))}

\* getDinnersWithMostVotes returns exactly the dinners with the most
\* supporters, whenever it returns and no list names a dinner twice.
ReturnsTheMostSupported ==
    pc = "returned" /\ SingleVotes => dinnerIdsWithMostVotes = MostSupported

\* It returns whenever some dinner is in everybody's list exactly once.
Unanimous == \E x \in Dinners : \A u \in UserIds : accepted[u][x] = 1
ReturnsIfUnanimous == Unanimous ~> pc = "returned"

\* It returns some dinner whenever anybody swiped right at all, as its result
\* type and its name say.
ReturnsIfAnyVote == (\E x \in Dinners : Supporters(x) # {}) ~> pc = "returned"
=============================================================================

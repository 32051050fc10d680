----------------------- MODULE GroupSessionProperties -----------------------
(***************************************************************************)
(* What a session of several devices should and should not do.             *)
(***************************************************************************)
EXTENDS GroupSession

\* Type correctness of the server's collection, the network and the apps.
TypeOK ==
    /\ groups \in [Codes -> Groups \cup {Nil}]
    /\ outbox \in [Devices -> Seq(Writes)]
    /\ requests \in [Devices -> SUBSET Requests]
    /\ app \in [Devices -> Apps]
    /\ failures \in 0..MaxFailures
    /\ kills \in 0..MaxKills

-----------------------------------------------------------------------------
(***************************************************************************)
(* The pile and the deck.                                                  *)
(***************************************************************************)

\* The cards on the screen never reach past the end of itemsForCardView, and
\* neither does a card that is still on its way off the screen.  So items[index]
\* in viewForCardAt and in didSwipeCardAt is always there, whatever starts,
\* leaves and repeated callbacks replaced the items before or meanwhile: the
\* one callback that would break this crashes instead of returning.
PileWithinItems ==
    \A d \in Devices : LET a == app[d] IN a.screen # "closed" =>
        /\ a.visible # <<>> => a.index + Len(a.visible) <= Len(a.items)
        /\ a.swiped # Nil => a.swiped.index < Len(a.items)

\* Every copy of a group's document: on the server, on its way there in a
\* setData, or last delivered to a listener.
Queued(c) == UNION {{outbox[d][i].group : i \in PendingSets(outbox[d], c)} : d \in Devices}
Shown(c)  == UNION {{l.seen : l \in {k \in Attached(app[d]) : k.code = c}} : d \in Devices}

Copies(c) == {groups[c]} \cup Queued(c) \cup Shown(c)

RunningCopies(c) == {g \in Copies(c) \ {Nil} : g.swipingSessionRunning}

\* A group is never seen running without the deck its host drew: the flag and
\* the deck travel in one setData, and no later write of a stale copy takes
\* them apart.
RunningGroupHasADeck ==
    \A c \in Codes : \A g \in RunningCopies(c) : g.dinnerIdsForCardView \in HostDecks

\* d is past the waiting alert of group c and has not left.
SwipesFor(d, c) ==
    LET a == app[d] IN
    /\ a.screen \notin {"waiting", "closed"}
    /\ a.activeGroupId = c /\ a.isInOnlineSession
    /\ a.activeEventListener # Nil => a.activeEventListener.role # "wait"

\* Who waits for the host to start is still called when that happens: no old
\* callback, retry or leave has detached its listener, or left it with one
\* for another group.
WaitersListen ==
    \A d \in Devices : app[d].screen = "waiting" =>
        \E l \in Attached(app[d]) : l.role = "wait" /\ l.code = app[d].activeGroupId

\* Everybody who is swiping for a group has the same cards in the same order.
SameItems ==
    \A c \in Codes : \A d, e \in Devices :
        SwipesFor(d, c) /\ SwipesFor(e, c) => app[d].items = app[e].items

\* What comes out of the pile: a right swipe is recorded for the dinner that
\* was drawn on the card that went, however long its animation took and
\* whatever was dealt or drawn again since.
SwipesMatchTheCard ==
    \A d \in Devices : \A x \in Dinners :
        app'[d].localUserYesSwiped[x] > app[d].localUserYesSwiped[x]
            => x = IF Settled(d) THEN app[d].visible[1] ELSE app[d].swiped.card
RecordedSwipesAreShownCards == [][SwipesMatchTheCard]_vars

-----------------------------------------------------------------------------
(***************************************************************************)
(* Votes, readiness and the head count on the server.                      *)
(***************************************************************************)

\* A vote that has reached the server is not erased by a document that some
\* device read earlier and writes back.
VoteStays ==
    \A c \in Codes : \A u \in UserIds :
        (groups[c] # Nil /\ groups[c].accepted[u] # Nil)
            => groups'[c] # Nil /\ groups'[c].accepted[u] # Nil
VotesAreKept == [][VoteStays]_vars

\* Once the host has started a group, it stays started.
StartStays ==
    \A c \in Codes :
        (groups[c] # Nil /\ groups[c].swipingSessionRunning)
            => groups'[c].swipingSessionRunning
StartIsFinal == [][StartStays]_vars

\* The codes that may have a group from before.
OldCodes == UNION Collections

Voters(g) == {u \in UserIds : g.accepted[u] # Nil}

\* Nobody is counted as ready whose votes are not in the document yet: every
\* device sends its list before it reports ready, so whoever sees the counter
\* complete also sees all lists.
ReadyHaveVoted ==
    \A d \in Devices : \A c \in Codes \ OldCodes :
        View(d, c) # Nil => View(d, c).numberOfUsersReady <= Cardinality(Voters(View(d, c)))

Members(c) == {d \in Devices : app[d].activeGroupId = c}

\* "Restarting or leaving will delete the swipes you just did" (the alert of
\* didPressRestart): the votes of a session are for cards of its own deck, each
\* dinner as often as it was dealt.  Swipes of an earlier session would count
\* twice, and a dinner that is counted twice is no longer agreed on.
TimesDealt(g, x) == Cardinality({i \in DOMAIN g.dinnerIdsForCardView :
                                    g.dinnerIdsForCardView[i] = x})
VotesFitTheDeck ==
    \A c \in Codes \ OldCodes : groups[c] # Nil /\ groups[c].swipingSessionRunning =>
        \A u \in Voters(groups[c]) : \A x \in Dinners :
            groups[c].accepted[u][x] <= TimesDealt(groups[c], x)

\* When nothing is on its way, the head count of a group is the number of
\* devices that are in it; the test numberOfUsersReady == participants needs
\* exactly that.
Quiet == \A d \in Devices : outbox[d] = <<>> /\ requests[d] = {}

HeadCount ==
    Quiet => \A c \in Codes \ OldCodes :
                groups[c] # Nil => groups[c].participants = Cardinality(Members(c))

-----------------------------------------------------------------------------
(***************************************************************************)
(* The result.                                                             *)
(***************************************************************************)

\* The dinners that every device has swiped right at least once.
Agreed == {x \in Dinners : \A d \in Devices : app[d].localUserYesSwiped[x] > 0}

\* A session implements GroupVote.  A device has voted once its list is in the
\* group's document or on its way there; its ballot is then what its user
\* has swiped right on the screen, by now.  So lists, counters and callbacks,
\* however they cross on the network, show nobody a result before everybody
\* has voted, show everybody the same, and nobody votes again.
HasVoted(d) ==
    \/ \E c \in Codes, u \in {d} \X (1..MaxSessions) :
          groups[c] # Nil /\ groups[c].accepted[u] # Nil
    \/ \E i \in DOMAIN outbox[d] : outbox[d][i].op = "vote"

BallotOf(d) ==
    IF HasVoted(d) THEN {x \in Dinners : app[d].localUserYesSwiped[x] > 0} ELSE Nil

ResultOn(d) == IF app[d].screen = "list" THEN app[d].dinnerList ELSE Nil

GV == INSTANCE GroupVote WITH ballots <- [d \in Devices |-> BallotOf(d)],
                              shown   <- [d \in Devices |-> ResultOn(d)]

VoteIsFair == GV!Spec

\* An app only hangs while counting votes when there is no dinner that
\* everybody swiped right.
FreezesOnlyWithoutAgreement ==
    (\E d \in Devices : app[d].screen = "frozen") => Agreed = {}

Finished(d) == app[d].isInOnlineSession /\ IsRunOutOfCards(app[d])

\* A party that follows the instructions gets started and swipes to the end.
EverybodyFinishes == <>(\A d \in Devices : Finished(d))

\* If they agree on a dinner, everybody is eventually shown it.
AgreementIsShown ==
    ((\A d \in Devices : Finished(d)) /\ Agreed # {})
        ~> \A d \in Devices : app[d].screen = "list" /\ app[d].dinnerList = Agreed
=============================================================================

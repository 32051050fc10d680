--------------------------- MODULE WritePipeline ----------------------------
(***************************************************************************)
(* How the Firestore client of one device gets the app's writes to the     *)
(* server: SyncEngine and LocalStore put a batch into the mutation queue,  *)
(* RemoteStore keeps the first few of them in its write pipeline and sends *)
(* them on a WriteStream, which is started, backs off, idles and is        *)
(* restarted.  All of this runs on one worker queue, so each callback is   *)
(* one step.                                                               *)
(*                                                                         *)
(* What a batch writes does not matter here: it is known by the number of  *)
(* its write.  Stream tokens are stored and sent back, but nothing depends *)
(* on them (the handshake carries none), and they are left out.            *)
(***************************************************************************)
EXTENDS Integers, Sequences, FiniteSets, Functions

CONSTANTS
    MaxPendingWrites,   \* kMaxPendingWrites
    Durable,            \* isPersistenceEnabled: the queue is in LevelDB
    \* Bounds:
    MaxWrites,          \* writes the app issues
    MaxRefusals,        \* writes the server refuses for good
    MaxFaults,          \* streams that break, and connectivity callbacks
    MaxCutShort,        \* failing sends that throw away answers under way
    MaxKills            \* times the app is killed

ASSUME PendingAssumption == MaxPendingWrites \in Nat \ {0}

ASSUME DurableAssumption == Durable \in BOOLEAN

VARIABLES
    client,     \* the client, and its connection
    issued,     \* how many writes the app has issued
    applied,    \* the writes the server has applied, in that order
    refused,    \* the writes the server has refused
    faults, cuts, kills

vars == <<client, issued, applied, refused, faults, cuts, kills>>

Batches == [id : Nat, write : Nat]

States == {"Initial", "Starting", "Open", "Error", "Backoff"}

\* On the connection, the handshake goes by the number 0.
Handshake == 0

Clients ==
    [running : BOOLEAN,             \* initialized, and not killed
     queue : Seq(Batches),          \* the mutation queue
     nextBatchId : Nat,
     isNetworkEnabled : BOOLEAN,
     pipeline : Seq(Batches),       \* write_pipeline_
     \* The write stream:
     state : States,
     handshakeComplete : BOOLEAN,
     closeCount : Nat,
     tokenRequests : SUBSET Nat,    \* close counts of RequestCredentials' callbacks
     backoffTimer : BOOLEAN,
     idleTimer : BOOLEAN,
     \* Its connection, while state is Open:
     up : Seq(Nat),                 \* sent and not yet seen by the server
     down : Seq(Nat),               \* answered and not yet seen by the client
     refusal : Nat,                 \* the write the server closed the stream for
     \* History:
     rejected : SUBSET Nat,         \* writes the client took for refused
     failed : BOOLEAN]              \* a HARD_ASSERT did not hold

Assert(c, condition) == [c EXCEPT !.failed = @ \/ ~condition]

-----------------------------------------------------------------------------
(***************************************************************************)
(* The stream.                                                             *)
(***************************************************************************)
IsOpen(c) == c.state = "Open"

IsStarted(c) == c.state \in {"Starting", "Backoff", "Open"}

RequestCredentials(c) == [c EXCEPT !.tokenRequests = @ \cup {c.closeCount}]

\* A bug: the timer is not set.
StartWithoutTimer(c) ==
    IF c.state = "Error" THEN [c EXCEPT !.state = "Backoff"]
    ELSE RequestCredentials([Assert(c, c.state = "Initial") EXCEPT !.state = "Starting"])

\* Start begins by backing off when the stream has failed before.
Start(c) ==
    IF c.state = "Error" THEN [c EXCEPT !.state = "Backoff", !.backoffTimer = TRUE]
    ELSE RequestCredentials([Assert(c, c.state = "Initial") EXCEPT !.state = "Starting"])

\* Clears the error condition, so that the next Start does not back off.
InhibitBackoff(c) == [Assert(c, ~IsStarted(c)) EXCEPT !.state = "Initial"]

MarkIdle(c) == IF IsOpen(c) THEN [c EXCEPT !.idleTimer = TRUE] ELSE c

\* A bug: the idle check goes on.
SendIdly(c, messages) ==
    IF messages = <<>> THEN c
    ELSE [Assert(c, IsOpen(c)) EXCEPT !.up = @ \o messages]

\* Sending anything cancels the idle check.
Send(c, messages) ==
    IF messages = <<>> THEN c
    ELSE [Assert(c, IsOpen(c)) EXCEPT !.up = @ \o messages, !.idleTimer = FALSE]

WritesOf(batches) == [i \in DOMAIN batches |-> batches[i].write]

SendMutations(c, batches) == Send(c, WritesOf(batches))

-----------------------------------------------------------------------------
(***************************************************************************)
(* The mutation queue, in memory or in LevelDB.                            *)
(***************************************************************************)
Smaller(a, b) == IF a <= b THEN a ELSE b
Larger(a, b) == IF a >= b THEN a ELSE b

UnknownBatchId == -1

\* A bug: the index of the batch that was asked for, not of the one after it.
SameBatches(q, id, n) ==
    LET index == IF q = <<>> THEN 0 ELSE Larger(0, id - q[1].id)
    IN  SubSeq(q, index + 1, Smaller(index + n, Len(q)))

\* NextMutationBatchAfterBatchId, n times: ids in the queue are contiguous,
\* so the id gives the index.
NextBatches(q, id, n) ==
    LET index == IF q = <<>> THEN 0 ELSE Larger(0, id + 1 - q[1].id)
    IN  SubSeq(q, index + 1, Smaller(index + n, Len(q)))

\* A bug: the batch is stored before its id is known.
AddWithoutId(c, write) ==
    [c EXCEPT !.queue = Append(@, [id |-> UnknownBatchId, write |-> write]),
              !.nextBatchId = @ + 1]

AddMutationBatch(c, write) ==
    [c EXCEPT !.queue = Append(@, [id |-> c.nextBatchId, write |-> write]),
              !.nextBatchId = @ + 1]

RemoveMutationBatch(c, batch) ==
    [Assert(c, c.queue # <<>> /\ Head(c.queue).id = batch.id) EXCEPT !.queue = Tail(@)]

-----------------------------------------------------------------------------
(***************************************************************************)
(* The write pipeline.                                                     *)
(***************************************************************************)
CanUseNetwork(c) == c.isNetworkEnabled

ShouldStartWriteStream(c) == /\ CanUseNetwork(c)
                             /\ ~IsStarted(c)
                             /\ c.pipeline # <<>>

StartWriteStreamIfNeeded(c) == IF ShouldStartWriteStream(c) THEN Start(c) ELSE c

\* A bug: the new batches wait for the next handshake.
AddWithoutSending(c, batches) == [c EXCEPT !.pipeline = @ \o batches]

\* A bug: writes are sent as soon as the stream is open.
SendBeforeHandshake(c, batches) ==
    LET added == [c EXCEPT !.pipeline = @ \o batches]
    IN  IF IsOpen(c) THEN SendMutations(added, batches) ELSE added

AddToWritePipeline(c, batches) ==
    LET added == [c EXCEPT !.pipeline = @ \o batches]
    IN  IF IsOpen(c) /\ c.handshakeComplete THEN SendMutations(added, batches) ELSE added

LastBatchId(c) == IF c.pipeline = <<>> THEN UnknownBatchId
                  ELSE c.pipeline[Len(c.pipeline)].id

\* Takes as many batches as there is room for; a stream that has nothing
\* left to do is marked idle, one that is needed is started.
FillWritePipeline(c) ==
    LET batches == NextBatches(c.queue, LastBatchId(c), MaxPendingWrites - Len(c.pipeline))
        added == IF CanUseNetwork(c) THEN AddToWritePipeline(c, batches) ELSE c
    IN  StartWriteStreamIfNeeded(
            IF CanUseNetwork(c) /\ added.pipeline = <<>> THEN MarkIdle(added) ELSE added)

\* HandleRejectedWrite, as far as the queue is concerned.
RejectBatch(c, batch) ==
    [RemoveMutationBatch(c, batch) EXCEPT !.rejected = @ \cup {batch.write}]

\* HandleWriteError, for an error that will not go away: what is taken to be
\* at fault is the first batch of the pipeline.
DropFirstWrite(c) ==
    FillWritePipeline(RejectBatch(InhibitBackoff([c EXCEPT !.pipeline = Tail(@)]),
                                  Head(c.pipeline)))

\* A bug: any error drops the write.
DropOnAnyError(c, error) ==
    StartWriteStreamIfNeeded(
        IF error # "ok" /\ c.pipeline # <<>> /\ c.handshakeComplete
        THEN DropFirstWrite(c)
        ELSE Assert(c, error = "ok" => ~ShouldStartWriteStream(c)))

\* A bug: after an error, nothing starts the stream again.
CloseForGood(c, error) ==
    IF error = "permanent" /\ c.pipeline # <<>> /\ c.handshakeComplete
    THEN DropFirstWrite(c)
    ELSE Assert(c, error = "ok" => ~ShouldStartWriteStream(c))

\* error: "ok", a graceful stop; "permanent", as IsPermanentWriteError has it;
\* or "transient".
OnWriteStreamClose(c, error) ==
    StartWriteStreamIfNeeded(
        IF error = "permanent" /\ c.pipeline # <<>> /\ c.handshakeComplete
        THEN DropFirstWrite(c)
        ELSE Assert(c, error = "ok" => ~ShouldStartWriteStream(c)))

NotifyStreamClose(c, error) ==
    [OnWriteStreamClose(c, error) EXCEPT !.handshakeComplete = FALSE]

\* Step by step: cancel the timers, invalidate what was started before, let go
\* of the connection, then tell RemoteStore.
Close(c, error) ==
    IF error = "ok" /\ ~IsStarted(c) THEN c
    ELSE NotifyStreamClose(
            [Assert(c, IsStarted(c)) EXCEPT
                !.idleTimer = FALSE, !.backoffTimer = FALSE,
                !.closeCount = @ + 1,
                !.up = <<>>, !.down = <<>>, !.refusal = 0,
                !.state = IF error = "ok" THEN "Initial" ELSE "Error"], error)

EnableNetwork(c) == FillWritePipeline([c EXCEPT !.isNetworkEnabled = TRUE])

DisableNetwork(c) ==
    [Close([c EXCEPT !.isNetworkEnabled = FALSE], "ok") EXCEPT !.pipeline = <<>>]

RestartNetwork(c) == EnableNetwork(InhibitBackoff(DisableNetwork(c)))

-----------------------------------------------------------------------------
Change(c) == client' = c

\* The client does something that is none of the server's business.
Only(c) == Change(c) /\ UNCHANGED <<issued, applied, refused, faults, cuts, kills>>

Running == client.running /\ ~client.failed

Stream(state) == Running /\ client.state = state

NewClient == [running |-> FALSE, queue |-> <<>>, nextBatchId |-> 1,
              isNetworkEnabled |-> FALSE, pipeline |-> <<>>,
              state |-> "Initial", handshakeComplete |-> FALSE, closeCount |-> 0,
              tokenRequests |-> {}, backoffTimer |-> FALSE, idleTimer |-> FALSE,
              up |-> <<>>, down |-> <<>>, refusal |-> 0,
              rejected |-> {}, failed |-> FALSE]

Init == /\ client = NewClient
        /\ issued = 0 /\ applied = <<>> /\ refused = {}
        /\ faults = 0 /\ cuts = 0 /\ kills = 0

\* The app uses Firestore for the first time after its launch.
Initialize ==
    /\ ~client.running
    /\ Only(EnableNetwork([client EXCEPT
                !.running = TRUE,
                !.nextBatchId = IF client.queue = <<>> THEN 1
                                ELSE client.queue[Len(client.queue)].id + 1]))

\* setData, updateData.
WriteMutations ==
    /\ Running
    /\ issued < MaxWrites
    /\ issued' = issued + 1
    /\ Change(FillWritePipeline(AddMutationBatch(client, issued + 1)))
    /\ UNCHANGED <<applied, refused, faults, cuts, kills>>

\* A bug: the answer to an older request opens the stream as well.
AnyTokenOpens(n) == TRUE

TokenIsCurrent(n) == n = client.closeCount

\* The callback of RequestCredentials; it opens the stream, if it is not out
\* of date.  OnWriteStreamOpen sends the handshake.
CredentialsArrive == \E n \in client.tokenRequests :
    LET answered == [client EXCEPT !.tokenRequests = @ \ {n}]
        opened == [Assert(answered, client.state = "Starting") EXCEPT !.state = "Open"]
    IN
    /\ Running
    /\ \/ /\ ~TokenIsCurrent(n)
          /\ Only(answered)
       \/ /\ TokenIsCurrent(n)
          /\ Only(Send(Assert(opened, ~client.handshakeComplete), <<Handshake>>))

BackoffElapses ==
    /\ Running
    /\ client.backoffTimer
    /\ Only(Start([Assert(client, client.state = "Backoff") EXCEPT
                        !.backoffTimer = FALSE, !.state = "Initial"]))

IdleTimeout ==
    /\ Running
    /\ client.idleTimer
    /\ Only(Close([client EXCEPT !.idleTimer = FALSE], "ok"))

\* The first answer on a stream is that to the handshake: the pipeline is sent.
HandshakeAnswered ==
    /\ Stream("Open")
    /\ client.down # <<>> /\ ~client.handshakeComplete
    /\ Only(SendMutations([client EXCEPT !.down = Tail(@), !.handshakeComplete = TRUE],
                          client.pipeline))

\* OnWriteStreamMutationResult: the answer is for the first batch of the pipeline.
Acknowledged(c) ==
    LET popped == [Assert(c, c.pipeline # <<>>) EXCEPT !.pipeline = Tail(@)]
    IN  FillWritePipeline(RemoveMutationBatch(popped, Head(c.pipeline)))

MutationResult ==
    /\ Stream("Open")
    /\ client.down # <<>> /\ client.handshakeComplete
    /\ Only(Acknowledged([client EXCEPT !.down = Tail(@)]))

\* The stream ends with the server's status once all answers have been read.
StreamRefused ==
    /\ Stream("Open")
    /\ client.refusal # 0 /\ client.down = <<>>
    /\ Only(Close(client, "permanent"))

\* A message behind the refused one cannot be sent any more.  That operation
\* fails, and GrpcStream finishes without waiting for the answers to be read.
SendFails ==
    /\ Stream("Open")
    /\ client.refusal # 0 /\ client.up # <<>> /\ client.down # <<>>
    /\ cuts < MaxCutShort
    /\ cuts' = cuts + 1
    /\ Change(Close(client, "permanent"))
    /\ UNCHANGED <<issued, applied, refused, faults, kills>>

Fault == faults < MaxFaults /\ faults' = faults + 1

\* The connection is lost, or the server ends it for reasons of its own.
StreamBreaks ==
    /\ Stream("Open")
    /\ Fault
    /\ Change(Close(client, "transient"))
    /\ UNCHANGED <<issued, applied, refused, cuts, kills>>

\* GrpcConnection lets its calls fail when the connectivity changes.
CallsFail(c) == IF IsOpen(c) THEN Close(c, "transient") ELSE c

\* ... and, unless the network has gone, RemoteStore restarts its streams.
ConnectivityChanged(available) ==
    /\ Running
    /\ Fault
    /\ Change(IF available /\ CanUseNetwork(client)
              THEN RestartNetwork(CallsFail(client)) ELSE CallsFail(client))
    /\ UNCHANGED <<issued, applied, refused, cuts, kills>>

\* A bug: what is on disk is not read again.
FreshQueue == <<>>

QueueOnDisk == IF Durable THEN client.queue ELSE <<>>

\* What was in memory is gone.
Killed ==
    /\ client.running
    /\ kills < MaxKills
    /\ kills' = kills + 1
    /\ Change([NewClient EXCEPT !.queue = QueueOnDisk, !.rejected = client.rejected,
                                !.failed = client.failed])
    /\ UNCHANGED <<issued, applied, refused, faults, cuts>>

-----------------------------------------------------------------------------
(***************************************************************************)
(* The server.  It reads a connection in order, answers each message, and  *)
(* closes the stream on a write that it will never accept.                 *)
(***************************************************************************)
Serving == Stream("Open") /\ client.up # <<>> /\ client.refusal = 0

Answer(n) == Change([client EXCEPT !.up = Tail(@), !.down = Append(@, n)])

ServerShakesHands ==
    /\ Serving /\ Head(client.up) = Handshake
    /\ Answer(Handshake)
    /\ UNCHANGED <<issued, applied, refused, faults, cuts, kills>>

ServerApplies ==
    /\ Serving /\ Head(client.up) # Handshake
    /\ Head(client.up) \notin refused
    /\ Answer(Head(client.up))
    /\ applied' = Append(applied, Head(client.up))
    /\ UNCHANGED <<issued, refused, faults, cuts, kills>>

\* It refuses a write whenever it is sent, or never.
ServerRefuses ==
    /\ Serving /\ Head(client.up) # Handshake
    /\ Head(client.up) \notin Range(applied)
    /\ refused' = refused \cup {Head(client.up)}
    /\ Cardinality(refused') <= MaxRefusals
    /\ Change([client EXCEPT !.up = Tail(@), !.refusal = Head(client.up)])
    /\ UNCHANGED <<issued, applied, faults, cuts, kills>>

-----------------------------------------------------------------------------
Next == \/ Initialize \/ WriteMutations \/ CredentialsArrive
        \/ BackoffElapses \/ IdleTimeout
        \/ HandshakeAnswered \/ MutationResult
        \/ StreamRefused \/ SendFails \/ StreamBreaks
        \/ \E available \in BOOLEAN : ConnectivityChanged(available)
        \/ Killed
        \/ ServerShakesHands \/ ServerApplies \/ ServerRefuses

Spec == Init /\ [][Next]_vars

\* Timers elapse, credentials are handed out, the connection carries what is
\* sent, the server goes on serving, and an app that was killed is used again.
\* It is enough that one of these happens as long as one of them can.
Progress == \/ ServerShakesHands \/ ServerApplies \/ ServerRefuses
            \/ HandshakeAnswered \/ CredentialsArrive \/ BackoffElapses
            \/ MutationResult \/ StreamRefused \/ Initialize

\* ENABLED <<Progress>>_vars.
CanProgress ==
    \/ ~client.running
    \/ Running /\ (client.tokenRequests # {} \/ client.backoffTimer)
    \/ Stream("Open") /\ (client.up # <<>> \/ client.down # <<>> \/ client.refusal # 0)

\* WF_vars(Progress).
Fairness == []<>~CanProgress \/ []<><<Progress>>_vars

FairSpec == Spec /\ Fairness

-----------------------------------------------------------------------------
(***************************************************************************)
(* Properties.                                                             *)
(***************************************************************************)
\* Everything has its type.
TypeOK == /\ client \in Clients
          /\ issued \in Nat /\ applied \in Seq(Nat) /\ refused \in SUBSET Nat
          /\ faults \in Nat /\ cuts \in Nat /\ kills \in Nat

\* No HARD_ASSERT of the stream, the queue or the pipeline ever fails, in
\* whatever order timers, credentials, answers, errors and connectivity
\* callbacks arrive.
NoAssertionFails == ~client.failed

\* The pipeline holds the oldest batches of the queue, in order, and no more
\* than there is room for.
PipelineIsPrefix ==
    /\ Len(client.pipeline) <= MaxPendingWrites
    /\ Len(client.pipeline) <= Len(client.queue)
    /\ client.pipeline = SubSeq(client.queue, 1, Len(client.pipeline))

\* What is on the connection after the handshake: the pipeline, write for
\* write; so the next answer is for the first batch of the pipeline, which is
\* how OnWriteStreamMutationResult takes it.
UnderWay(c) ==
    (c.down \o (IF c.refusal = 0 THEN <<>> ELSE <<c.refusal>>)) \o c.up
AnswersMatch ==
    client.handshakeComplete => UnderWay(client) = WritesOf(client.pipeline)

\* A pending write has the stream working on it: whoever removes a batch or
\* closes the stream refills the pipeline and starts it again.
NoStuckWrite ==
    Running /\ client.queue # <<>> => client.pipeline # <<>> /\ IsStarted(client)

\* The idle check never closes a stream that has something to do.
IdleMeansDone == client.idleTimer => client.queue = <<>>

\* A write leaves a queue on disk only when the server has applied or refused
\* it; no crash, retry or lost answer makes one disappear.
Pending == {client.queue[i].write : i \in DOMAIN client.queue}
NothingLost ==
    Durable => 1..issued \subseteq (Pending \cup Range(applied)) \cup refused

\* "If this was a permanent error, the request itself was the problem": what
\* is dropped is what the server has refused, as long as no failing send has
\* thrown away the answers to the writes before it.
RejectedWereRefused == cuts = 0 => client.rejected \subseteq refused

\* Every write is settled in the end: applied or refused.
EveryWriteSettles ==
    \A n \in 1..MaxWrites :
        issued >= n ~> n \notin Pending /\ n \in Range(applied) \cup refused

\* The client does what the rest of this project takes Firestore to do.
WQ == INSTANCE WriteQueue WITH
        settled <- issued - Len(client.queue),
        ahead <- IF client.handshakeComplete THEN Len(client.down) ELSE 0

KeepsTheOrder == WQ!Spec

\* So a write that the server applies for the first time is younger than all
\* it has applied before.
IssueOrder == WQ!IssueOrder
=============================================================================

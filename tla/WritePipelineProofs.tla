------------------------ MODULE WritePipelineProofs -------------------------
(***************************************************************************)
(* Theorems about WritePipeline, for queues, pipelines and streams of any  *)
(* length and any number of faults.                                        *)
(***************************************************************************)
EXTENDS WritePipeline, SequenceTheorems, TLAPS

(***************************************************************************)
(* The inductive invariant, in parts.  All of them are about a client      *)
(* record c, so that they can be stated of the records that the operators  *)
(* of a handler pass on to each other.                                     *)
(***************************************************************************)
\* The queue holds the last of the n writes, under ids without gaps.
QueueInOrder(c, n) ==
    /\ Len(c.queue) <= n
    /\ \A i \in 1..Len(c.queue) : /\ c.queue[i].write = n - Len(c.queue) + i
                                  /\ c.queue[i].id = c.queue[1].id + i - 1
    /\ c.running /\ c.queue # <<>> => c.nextBatchId = c.queue[Len(c.queue)].id + 1

\* The pipeline is the front of the queue.
PipelineInOrder(c) ==
    /\ Len(c.pipeline) <= MaxPendingWrites
    /\ Len(c.pipeline) <= Len(c.queue)
    /\ \A i \in 1..Len(c.pipeline) : c.pipeline[i] = c.queue[i]

\* Timers and callbacks belong to the state the stream is in.
StreamInOrder(c) ==
    /\ c.tokenRequests \subseteq 0..c.closeCount
    /\ c.closeCount \in c.tokenRequests => c.state = "Starting"
    /\ c.backoffTimer => c.state = "Backoff"
    /\ c.idleTimer => c.queue = <<>> /\ c.state = "Open" /\ c.handshakeComplete
    /\ IsStarted(c) /\ ~(c.state = "Open" /\ c.handshakeComplete) => c.queue # <<>>

\* How many of n writes are no longer in the queue.
Settled(c, n) == n - Len(c.queue)

\* How many refused writes the connection knows of.
RefusalCount(c) == IF c.refusal = 0 THEN 0 ELSE 1

\* The connection carries the handshake, or else the writes of the pipeline.
ConnectionInOrder(c, n) ==
    /\ c.state # "Open" => c.up = <<>> /\ c.down = <<>> /\ c.refusal = 0
    /\ c.state = "Open" /\ ~c.handshakeComplete =>
            /\ c.refusal = 0
            /\ \/ c.up = <<Handshake>> /\ c.down = <<>>
               \/ c.up = <<>> /\ c.down = <<Handshake>>
    /\ c.state = "Open" /\ c.handshakeComplete =>
            /\ Len(c.down) + RefusalCount(c) + Len(c.up) = Len(c.pipeline)
            /\ \A i \in 1..Len(c.down) : c.down[i] = Settled(c, n) + i
            /\ c.refusal # 0 => c.refusal = Settled(c, n) + Len(c.down) + 1
            /\ \A i \in 1..Len(c.up) :
                    c.up[i] = Settled(c, n) + Len(c.down) + RefusalCount(c) + i

\* Somebody is at work.
AtWork(c) == c.running /\ c.queue # <<>> => c.pipeline # <<>> /\ IsStarted(c)

\* What a handler may start from; between its steps the stream may be closed
\* and the pipeline short.
Sound(c, n) ==
    /\ c \in Clients /\ ~c.failed
    /\ QueueInOrder(c, n) /\ PipelineInOrder(c)
    /\ StreamInOrder(c) /\ ConnectionInOrder(c, n)

AtRest(c) == ~c.running => c = [NewClient EXCEPT !.queue = c.queue, !.rejected = c.rejected]

IInv == /\ issued \in Nat /\ applied \in Seq(Nat) /\ refused \in SUBSET Nat
        /\ faults \in Nat /\ cuts \in Nat /\ kills \in Nat
        /\ Sound(client, issued)
        /\ client.isNetworkEnabled = client.running
        /\ client.handshakeComplete => client.state = "Open"
        /\ AtWork(client)
        /\ AtRest(client)

-----------------------------------------------------------------------------
(***************************************************************************)
(* The operators of a handler.                                             *)
(***************************************************************************)
LEMMA WritesOfBatches ==
    ASSUME NEW b \in Seq(Batches)
    PROVE  /\ WritesOf(b) \in Seq(Nat)
           /\ Len(WritesOf(b)) = Len(b)
           /\ \A i \in 1..Len(b) : WritesOf(b)[i] = b[i].write
<1>1. DOMAIN b = 1..Len(b) /\ Len(b) \in Nat
    BY LenProperties
<1>2. \A i \in 1..Len(b) : b[i] \in Batches
    BY ElementOfSeq
<1>3. \A i \in 1..Len(b) : b[i].write \in Nat
    BY <1>2 DEF Batches
<1>4. WritesOf(b) = [i \in 1..Len(b) |-> b[i].write]
    BY <1>1 DEF WritesOf
<1>5. WritesOf(b) \in Seq(Nat) /\ Len(WritesOf(b)) = Len(b)
    BY <1>1, <1>3, <1>4
<1> QED
    BY <1>4, <1>5

\* The batches that follow the pipeline of c, as many as there is room for.
Follow(c, b) ==
    /\ b \in Seq(Batches)
    /\ Len(b) = Smaller(MaxPendingWrites, Len(c.queue)) - Len(c.pipeline)
    /\ \A i \in 1..Len(b) : b[i] = c.queue[Len(c.pipeline) + i]

\* FillWritePipeline asks for the batches that follow the pipeline, and gets them.
LEMMA NextBatchesFollow ==
    ASSUME NEW c, NEW n \in Nat, c \in Clients, QueueInOrder(c, n), PipelineInOrder(c)
    PROVE  Follow(c, NextBatches(c.queue, LastBatchId(c), MaxPendingWrites - Len(c.pipeline)))
<1> DEFINE q == c.queue
           taken == Len(c.pipeline)
           last == Smaller(MaxPendingWrites, Len(q))
<1>1. q \in Seq(Batches) /\ Len(q) \in Nat
    BY LenProperties DEF Clients
<1>2. c.pipeline \in Seq(Batches) /\ taken \in Nat
    BY LenProperties DEF Clients
<1>3. taken <= last /\ last <= Len(q) /\ last \in Nat
    BY <1>1, <1>2, PendingAssumption DEF PipelineInOrder, Smaller
<1>4. \A i \in 1..Len(q) : q[i] \in Batches /\ q[i].id \in Nat
    <2>1. \A i \in 1..Len(q) : q[i] \in Batches
        BY <1>1, ElementOfSeq
    <2> QED
        BY <2>1 DEF Batches
<1>5. (IF q = <<>> THEN 0 ELSE Larger(0, LastBatchId(c) + 1 - q[1].id)) = taken
    <2>1. CASE q = <<>>
        BY <2>1, <1>2, <1>3, EmptySeq
    <2>2. CASE q # <<>> /\ c.pipeline = <<>>
        <3>1. Len(q) # 0
            BY <2>2, <1>1, EmptySeq
        <3>2. q[1].id \in Nat
            BY <3>1, <1>1, <1>4
        <3>3. taken = 0
            BY <2>2, EmptySeq
        <3> QED
            BY <2>2, <3>2, <3>3 DEF LastBatchId, UnknownBatchId, Larger
    <2>3. CASE q # <<>> /\ c.pipeline # <<>>
        <3>1. taken # 0 /\ Len(q) # 0
            BY <2>3, <1>1, <1>2, EmptySeq
        <3>2. taken \in 1..Len(q) /\ 1 \in 1..Len(q)
            BY <3>1, <1>1, <1>2, <1>3
        <3>3. c.pipeline[taken] = q[taken]
            BY <3>2, <1>2 DEF PipelineInOrder
        <3>4. q[taken].id = q[1].id + taken - 1
            BY <3>2 DEF QueueInOrder
        <3>5. LastBatchId(c) = q[1].id + taken - 1
            BY <2>3, <3>3, <3>4 DEF LastBatchId
        <3> QED
            BY <2>3, <3>2, <3>5, <1>2, <1>4 DEF Larger
    <2> QED
        BY <2>1, <2>2, <2>3
<1>6. Smaller(taken + (MaxPendingWrites - taken), Len(q)) = last
    BY <1>2, PendingAssumption DEF Smaller
<1>7. NextBatches(q, LastBatchId(c), MaxPendingWrites - taken) = SubSeq(q, taken + 1, last)
    BY <1>5, <1>6 DEF NextBatches
<1>8. /\ SubSeq(q, taken + 1, last) \in Seq(Batches)
      /\ Len(SubSeq(q, taken + 1, last)) = last - taken
      /\ \A i \in 1..(last - taken) : SubSeq(q, taken + 1, last)[i] = q[taken + i]
    <2>1. \A i \in (taken + 1)..last : q[i] \in Batches
        BY <1>1, <1>2, <1>3, <1>4
    <2>2. taken + 1 \in Int /\ last \in Int
        BY <1>2, <1>3
    <2>3. /\ SubSeq(q, taken + 1, last) \in Seq(Batches)
          /\ Len(SubSeq(q, taken + 1, last)) = IF taken + 1 <= last THEN last - (taken + 1) + 1 ELSE 0
          /\ \A i \in 1..(last - (taken + 1) + 1) :
                SubSeq(q, taken + 1, last)[i] = q[taken + 1 + i - 1]
        BY <2>1, <2>2, SubSeqProperties
    <2> QED
        BY <2>3, <1>2, <1>3
<1> QED
    BY <1>7, <1>8 DEF Follow

\* An assertion that holds changes nothing.
LEMMA AssertHolds ==
    ASSUME NEW c \in Clients, NEW condition, condition
    PROVE  Assert(c, condition) = c
<1>1. c.failed \in BOOLEAN
    BY DEF Clients
<1>2. (c.failed \/ ~condition) = c.failed
    BY <1>1
<1>3. Assert(c, condition) = [c EXCEPT !.failed = c.failed]
    BY <1>2 DEF Assert
<1> QED
    BY <1>3 DEF Clients

\* Filling the pipeline, before the stream is looked after.
LEMMA AddSound ==
    ASSUME NEW c, NEW n \in Nat, Sound(c, n), NEW b, Follow(c, b)
    PROVE  LET d == AddToWritePipeline(c, b)
           IN  /\ Sound(d, n)
               /\ Len(d.pipeline) = Smaller(MaxPendingWrites, Len(c.queue))
               /\ d.queue = c.queue /\ d.state = c.state /\ d.running = c.running
               /\ d.isNetworkEnabled = c.isNetworkEnabled /\ d.down = c.down
               /\ d.handshakeComplete = c.handshakeComplete /\ d.rejected = c.rejected
               /\ d.refusal = c.refusal
<1> DEFINE d == AddToWritePipeline(c, b)
           p == c.pipeline \o b
           w == WritesOf(b)
           added == [c EXCEPT !.pipeline = p]
           sent == [added EXCEPT !.up = @ \o w, !.idleTimer = FALSE]
<1>1. c \in Clients /\ ~c.failed
    BY DEF Sound
<1>2. c.pipeline \in Seq(Batches) /\ c.queue \in Seq(Batches) /\ c.up \in Seq(Nat)
    BY <1>1 DEF Clients
<1>3. /\ Len(c.pipeline) \in Nat /\ Len(c.queue) \in Nat /\ Len(b) \in Nat
      /\ b \in Seq(Batches)
      /\ Len(b) = Smaller(MaxPendingWrites, Len(c.queue)) - Len(c.pipeline)
    BY <1>2, LenProperties DEF Follow
<1>4. /\ p \in Seq(Batches)
      /\ Len(p) = Len(c.pipeline) + Len(b)
      /\ \A i \in 1..(Len(c.pipeline) + Len(b)) :
            p[i] = IF i <= Len(c.pipeline) THEN c.pipeline[i] ELSE b[i - Len(c.pipeline)]
    BY <1>2, <1>3, ConcatProperties
<1>5. Len(p) = Smaller(MaxPendingWrites, Len(c.queue))
    BY <1>3, <1>4, PendingAssumption DEF Smaller
<1>6. \A i \in 1..Len(p) : p[i] = c.queue[i]
    <2> SUFFICES ASSUME NEW i \in 1..Len(p) PROVE p[i] = c.queue[i]
        OBVIOUS
    <2>1. CASE i <= Len(c.pipeline)
        BY <2>1, <1>3, <1>4 DEF Sound, PipelineInOrder
    <2>2. CASE ~(i <= Len(c.pipeline))
        <3>1. i - Len(c.pipeline) \in 1..Len(b)
            BY <2>2, <1>3, <1>4
        <3>2. b[i - Len(c.pipeline)] = c.queue[Len(c.pipeline) + (i - Len(c.pipeline))]
            BY <3>1 DEF Follow
        <3> QED
            BY <2>2, <3>2, <1>3, <1>4
    <2> QED
        BY <2>1, <2>2
<1>7. w \in Seq(Nat) /\ Len(w) = Len(b) /\ \A i \in 1..Len(b) : w[i] = b[i].write
    BY <1>3, WritesOfBatches
<1> HIDE DEF p, w
<1>8. added \in Clients /\ added.pipeline = p
    BY <1>1, <1>4 DEF Clients
<1>9. QueueInOrder(added, n) /\ PipelineInOrder(added) /\ StreamInOrder(added)
    <2>1. PipelineInOrder(added)
        BY <1>1, <1>3, <1>5, <1>6, PendingAssumption DEF PipelineInOrder, Smaller, Clients
    <2> QED
        BY <2>1, <1>1 DEF Sound, QueueInOrder, StreamInOrder, IsStarted, Clients
<1>10. CASE IsOpen(c) /\ c.handshakeComplete /\ w # <<>>
    <2>1. IsOpen(added)
        BY <1>1, <1>10 DEF IsOpen, Clients
    <2>2. d = sent
        <3>1. d = Send(added, w)
            BY <1>10 DEF AddToWritePipeline, SendMutations, p, w
        <3>2. Assert(added, IsOpen(added)) = added
            BY <2>1, <1>8, AssertHolds
        <3> QED
            BY <3>1, <3>2, <1>10 DEF Send
    <2>3. /\ c.up \o w \in Seq(Nat)
          /\ Len(c.up \o w) = Len(c.up) + Len(w)
          /\ \A i \in 1..(Len(c.up) + Len(w)) :
                (c.up \o w)[i] = IF i <= Len(c.up) THEN c.up[i] ELSE w[i - Len(c.up)]
        <3>1. c.up \in Seq(Nat) /\ w \in Seq(Nat)
            BY <1>2, <1>7
        <3> QED
            BY <3>1, ConcatProperties
    <2>4. sent \in Clients
        BY <1>8, <2>3, <1>1 DEF Clients
    <2>5. QueueInOrder(sent, n) /\ PipelineInOrder(sent) /\ StreamInOrder(sent)
        BY <1>9, <1>8, <1>1 DEF QueueInOrder, PipelineInOrder, StreamInOrder, IsStarted, Clients
    <2>6. ConnectionInOrder(sent, n)
        <3>1. /\ sent.up = c.up \o w /\ sent.down = c.down /\ sent.refusal = c.refusal
              /\ sent.pipeline = p /\ sent.state = "Open" /\ sent.handshakeComplete
            BY <1>1, <1>8, <1>10 DEF Clients, IsOpen
        <3>2. RefusalCount(sent) = RefusalCount(c) /\ Settled(sent, n) = Settled(c, n)
            BY <3>1, <1>1, <1>8 DEF RefusalCount, Settled, Clients
        <3>3. Len(c.up) \in Nat /\ Len(c.down) \in Nat /\ RefusalCount(c) \in 0..1
            BY <1>1, LenProperties DEF RefusalCount, Clients
        <3>4. /\ Len(c.down) + RefusalCount(c) + Len(c.up) = Len(c.pipeline)
              /\ \A i \in 1..Len(c.down) : c.down[i] = Settled(c, n) + i
              /\ c.refusal # 0 => c.refusal = Settled(c, n) + Len(c.down) + 1
              /\ \A i \in 1..Len(c.up) :
                    c.up[i] = Settled(c, n) + Len(c.down) + RefusalCount(c) + i
            BY <1>10 DEF Sound, ConnectionInOrder, IsOpen
        <3>5. Len(sent.down) + RefusalCount(sent) + Len(sent.up) = Len(p)
            BY <2>3, <3>1, <3>2, <3>3, <3>4, <1>3, <1>4, <1>7
        <3>6. ASSUME NEW i \in 1..Len(sent.up)
              PROVE  sent.up[i] = Settled(c, n) + Len(c.down) + RefusalCount(c) + i
            <4>1. i \in 1..(Len(c.up) + Len(w))
                BY <2>3, <3>1
            <4>2. CASE i <= Len(c.up)
                BY <4>1, <4>2, <2>3, <3>1, <3>3, <3>4
            <4>3. CASE ~(i <= Len(c.up))
                <5> DEFINE j == i - Len(c.up)
                <5>1. j \in 1..Len(b)
                    BY <4>1, <4>3, <3>3, <1>3, <1>7
                <5>2. Len(c.pipeline) + Len(b) <= Len(c.queue)
                    BY <1>3, PendingAssumption DEF Smaller
                <5> HIDE DEF j
                <5>3. Len(c.pipeline) + j \in 1..Len(c.queue)
                    BY <5>1, <5>2, <1>3
                <5>4. sent.up[i] = w[j] /\ w[j] = b[j].write /\ b[j] = c.queue[Len(c.pipeline) + j]
                    BY <4>1, <4>3, <5>1, <2>3, <3>1, <1>7 DEF Follow, j
                <5>5. c.queue[Len(c.pipeline) + j].write = n - Len(c.queue) + (Len(c.pipeline) + j)
                    BY <5>3 DEF Sound, QueueInOrder
                <5> DEFINE P == Len(c.pipeline)
                           Q == Len(c.queue)
                           D == Len(c.down)
                           U == Len(c.up)
                           R == RefusalCount(c)
                <5>6. /\ P \in Nat /\ Q \in Nat /\ D \in Nat /\ U \in Nat /\ R \in 0..1
                      /\ P = D + R + U /\ i \in Nat /\ j = i - U
                    BY <1>3, <3>3, <3>4, <4>1, <1>7 DEF j
                <5>7. sent.up[i] = n - Q + (P + j)
                    BY <5>4, <5>5
                <5> SUFFICES sent.up[i] = n - Q + D + R + i
                    BY DEF Settled
                <5> HIDE DEF P, Q, D, U, R, sent
                <5> QED
                    BY <5>6, <5>7
            <4> QED
                BY <4>2, <4>3
        <3> QED
            BY <3>1, <3>2, <3>4, <3>5, <3>6 DEF ConnectionInOrder
    <2>7. sent \in Clients /\ ~sent.failed
        BY <2>2, <2>4, <1>1, <1>8 DEF Sound, Clients
    <2>8. Sound(sent, n)
        BY <2>5, <2>6, <2>7 DEF Sound
    <2> QED
        BY <2>2, <2>4, <2>8, <1>1, <1>5, <1>8 DEF Clients
<1>11. CASE ~(IsOpen(c) /\ c.handshakeComplete /\ w # <<>>)
    <2>1. d = added
        BY <1>11 DEF AddToWritePipeline, SendMutations, Send, p, w
    <2>2. ConnectionInOrder(added, n)
        <3>1. CASE ~(IsOpen(c) /\ c.handshakeComplete)
            BY <3>1, <1>1 DEF Sound, ConnectionInOrder, Clients, IsOpen, Settled, RefusalCount
        <3>2. CASE IsOpen(c) /\ c.handshakeComplete
            <4>1. Len(b) = 0
                BY <3>2, <1>7, <1>11, EmptySeq
            <4>2. Len(p) = Len(c.pipeline)
                BY <4>1, <1>3, <1>4
            <4> QED
                BY <4>2, <3>2, <1>1, <1>8
                DEF Sound, ConnectionInOrder, Clients, IsOpen, Settled, RefusalCount
        <3> QED
            BY <3>1, <3>2
    <2> QED
        BY <2>1, <2>2, <1>1, <1>5, <1>8, <1>9 DEF Sound, Clients
<1> QED
    BY <1>10, <1>11

\* The first batch of the pipeline is the first of the queue, and numbered
\* after all that are settled.
LEMMA FirstBatch ==
    ASSUME NEW c, NEW n \in Nat, Sound(c, n), c.pipeline # <<>>
    PROVE  /\ c.queue # <<>> /\ Head(c.queue) = Head(c.pipeline)
           /\ Head(c.pipeline) \in Batches
           /\ Head(c.pipeline).write = Settled(c, n) + 1
<1>1. c.pipeline \in Seq(Batches) /\ c.queue \in Seq(Batches)
    BY DEF Sound, Clients
<1>2. Len(c.pipeline) \in Nat \ {0} /\ Len(c.queue) \in Nat
    BY <1>1, EmptySeq, LenProperties
<1>3. Len(c.queue) # 0
    BY <1>2 DEF Sound, PipelineInOrder
<1>4. c.queue # <<>>
    BY <1>3, EmptySeq
<1>5. 1 \in 1..Len(c.pipeline) /\ 1 \in 1..Len(c.queue)
    BY <1>2, <1>3
<1>6. c.pipeline[1] = c.queue[1]
    BY <1>5 DEF Sound, PipelineInOrder
<1>7. Head(c.queue) = c.queue[1] /\ Head(c.pipeline) = c.pipeline[1]
    BY <1>1, <1>4
<1>8. c.queue[1] \in Batches
    BY <1>1, <1>5, ElementOfSeq
<1>9. c.queue[1].write = n - Len(c.queue) + 1
    BY <1>5 DEF Sound, QueueInOrder
<1> QED
    BY <1>4, <1>6, <1>7, <1>8, <1>9 DEF Settled

\* What most operators leave alone.
Kept(c, d) ==
    /\ d.queue = c.queue /\ d.running = c.running /\ d.down = c.down
    /\ d.isNetworkEnabled = c.isNetworkEnabled
    /\ d.handshakeComplete = c.handshakeComplete
    /\ d.rejected = c.rejected /\ d.refusal = c.refusal
    /\ d.state = "Open" <=> c.state = "Open"

Working(c) == c.queue # <<>> => c.pipeline # <<>> /\ IsStarted(c)

LEMMA StartSound ==
    ASSUME NEW c, NEW n \in Nat, Sound(c, n), ~IsStarted(c), c.queue # <<>>
    PROVE  LET d == Start(c)
           IN  Sound(d, n) /\ IsStarted(d) /\ Kept(c, d) /\ d.pipeline = c.pipeline
                           /\ d.state # "Open"
<1>1. c \in Clients /\ ~c.failed
    BY DEF Sound
<1>2. c.state \in {"Initial", "Error"}
    BY <1>1 DEF IsStarted, Clients, States
<1>3. CASE c.state = "Error"
    <2> DEFINE d == [c EXCEPT !.state = "Backoff", !.backoffTimer = TRUE]
    <2>1. Start(c) = d
        BY <1>3 DEF Start
    <2>2. d \in Clients
        BY <1>1 DEF Clients, States
    <2>3. QueueInOrder(d, n) /\ PipelineInOrder(d) /\ ConnectionInOrder(d, n)
        BY <1>1, <1>3 DEF Sound, QueueInOrder, PipelineInOrder, ConnectionInOrder, Clients
    <2>4. StreamInOrder(d)
        BY <1>1, <1>3 DEF Sound, StreamInOrder, IsStarted, Clients
    <2> QED
        BY <2>1, <2>2, <2>3, <2>4, <1>1, <1>3 DEF Sound, Kept, IsStarted, Clients
<1>4. CASE c.state = "Initial"
    <2> DEFINE d == [c EXCEPT !.state = "Starting", !.tokenRequests = @ \cup {c.closeCount}]
    <2>1. Start(c) = d
        <3>1. Assert(c, c.state = "Initial") = c
            BY <1>1, <1>4, AssertHolds
        <3> QED
            BY <3>1, <1>1, <1>4 DEF Start, RequestCredentials, Clients
    <2>2. d \in Clients
        BY <1>1 DEF Clients, States
    <2>3. QueueInOrder(d, n) /\ PipelineInOrder(d) /\ ConnectionInOrder(d, n)
        BY <1>1, <1>4 DEF Sound, QueueInOrder, PipelineInOrder, ConnectionInOrder, Clients
    <2>4. StreamInOrder(d)
        <3>1. c.closeCount \in 0..c.closeCount
            BY <1>1 DEF Clients
        <3> QED
            BY <3>1, <1>1, <1>4 DEF Sound, StreamInOrder, IsStarted, Clients
    <2> QED
        BY <2>1, <2>2, <2>3, <2>4, <1>1, <1>4 DEF Sound, Kept, IsStarted, Clients
<1> QED
    BY <1>2, <1>3, <1>4

LEMMA StartIfNeededSound ==
    ASSUME NEW c, NEW n \in Nat, Sound(c, n)
    PROVE  LET d == StartWriteStreamIfNeeded(c)
           IN  /\ Sound(d, n) /\ Kept(c, d) /\ d.pipeline = c.pipeline
               /\ CanUseNetwork(c) /\ c.pipeline # <<>> => IsStarted(d)
<1>1. CASE ShouldStartWriteStream(c)
    <2>1. c.queue # <<>>
        BY <1>1, FirstBatch DEF ShouldStartWriteStream
    <2> QED
        BY <1>1, <2>1, StartSound DEF StartWriteStreamIfNeeded, ShouldStartWriteStream
<1>2. CASE ~ShouldStartWriteStream(c)
    BY <1>2 DEF StartWriteStreamIfNeeded, ShouldStartWriteStream, Kept
<1> QED
    BY <1>1, <1>2

LEMMA MarkIdleSound ==
    ASSUME NEW c, NEW n \in Nat, Sound(c, n), c.queue = <<>>
    PROVE  Sound(MarkIdle(c), n) /\ Kept(c, MarkIdle(c)) /\ MarkIdle(c).pipeline = c.pipeline
<1>1. c \in Clients /\ ~c.failed
    BY DEF Sound
<1>2. CASE IsOpen(c)
    <2> DEFINE d == [c EXCEPT !.idleTimer = TRUE]
    <2>1. d \in Clients
        BY <1>1 DEF Clients
    <2>2. QueueInOrder(d, n) /\ PipelineInOrder(d)
        BY <1>1 DEF Sound, QueueInOrder, PipelineInOrder, Clients
    <2>3. ConnectionInOrder(d, n)
        BY <1>1 DEF Sound, ConnectionInOrder, Settled, RefusalCount, Clients
    <2>4. StreamInOrder(d)
        BY <1>1, <1>2 DEF Sound, StreamInOrder, IsOpen, IsStarted, Clients
    <2> QED
        BY <2>1, <2>2, <2>3, <2>4, <1>1, <1>2 DEF MarkIdle, Sound, Kept, Clients
<1>3. CASE ~IsOpen(c)
    BY <1>3 DEF MarkIdle, Kept
<1> QED
    BY <1>2, <1>3

LEMMA FillSound ==
    ASSUME NEW c, NEW n \in Nat, Sound(c, n), CanUseNetwork(c)
    PROVE  Sound(FillWritePipeline(c), n) /\ Kept(c, FillWritePipeline(c))
                                          /\ Working(FillWritePipeline(c))
<1> DEFINE b == NextBatches(c.queue, LastBatchId(c), MaxPendingWrites - Len(c.pipeline))
           a == AddToWritePipeline(c, b)
           m == IF a.pipeline = <<>> THEN MarkIdle(a) ELSE a
<1>1. c \in Clients
    BY DEF Sound
<1>2. Follow(c, b)
    BY <1>1, NextBatchesFollow DEF Sound
<1> HIDE DEF b
<1>3. /\ Sound(a, n) /\ Kept(c, a)
      /\ Len(a.pipeline) = Smaller(MaxPendingWrites, Len(c.queue))
    BY <1>2, AddSound DEF Kept
<1> HIDE DEF a
<1>4. a.pipeline \in Seq(Batches) /\ c.queue \in Seq(Batches)
    BY <1>1, <1>3 DEF Sound, Clients
<1>5. a.pipeline = <<>> <=> c.queue = <<>>
    <2>1. Len(c.queue) \in Nat /\ (Len(c.queue) = 0 <=> c.queue = <<>>)
        BY <1>4, EmptySeq, LenProperties
    <2>2. Len(a.pipeline) = 0 <=> a.pipeline = <<>>
        BY <1>4, EmptySeq
    <2> QED
        BY <1>3, <2>1, <2>2, PendingAssumption DEF Smaller
<1>6. /\ Sound(m, n) /\ Kept(c, m) /\ m.pipeline = a.pipeline
    BY <1>3, <1>5, MarkIdleSound DEF Kept
<1>7. FillWritePipeline(c) = StartWriteStreamIfNeeded(m)
    <2>1. CanUseNetwork(c) /\ MaxPendingWrites - Len(c.pipeline) = MaxPendingWrites - Len(c.pipeline)
        OBVIOUS
    <2> QED
        BY <2>1 DEF FillWritePipeline, a, b
<1> HIDE DEF m
<1>8. CanUseNetwork(m)
    BY <1>6 DEF Kept, CanUseNetwork
<1> DEFINE d == StartWriteStreamIfNeeded(m)
<1>9. Sound(d, n) /\ Kept(m, d) /\ d.pipeline = m.pipeline /\ (m.pipeline # <<>> => IsStarted(d))
    BY <1>6, <1>8, StartIfNeededSound
<1> HIDE DEF d
<1>10. Kept(c, d)
    BY <1>6, <1>9 DEF Kept
<1>11. Working(d)
    BY <1>5, <1>6, <1>9, <1>10 DEF Working, Kept
<1> QED
    BY <1>7, <1>9, <1>10, <1>11 DEF d

\* The stream, closed, before anybody is told.
Closed(c, state) ==
    [c EXCEPT !.idleTimer = FALSE, !.backoffTimer = FALSE, !.closeCount = @ + 1,
              !.up = <<>>, !.down = <<>>, !.refusal = 0, !.state = state]

LEMMA ClosedSound ==
    ASSUME NEW c, NEW n \in Nat, Sound(c, n), NEW state \in {"Initial", "Error"}
    PROVE  LET d == Closed(c, state)
           IN  /\ Sound(d, n) /\ ~IsStarted(d) /\ d.state = state
               /\ d.queue = c.queue /\ d.pipeline = c.pipeline
               /\ d.running = c.running /\ d.isNetworkEnabled = c.isNetworkEnabled
               /\ d.handshakeComplete = c.handshakeComplete /\ d.rejected = c.rejected
               /\ d.down = <<>> /\ d.refusal = 0
<1> DEFINE d == Closed(c, state)
<1>1. c \in Clients /\ ~c.failed
    BY DEF Sound
<1>2. d \in Clients
    <2>1. <<>> \in Seq(Nat)
        BY EmptySeq
    <2>2. state \in States
        BY DEF States
    <2>3. c.closeCount + 1 \in Nat
        BY <1>1 DEF Clients
    <2> QED
        BY <2>1, <2>2, <2>3, <1>1 DEF Closed, Clients
<1>3. d.state = state /\ ~IsStarted(d)
    BY <1>1 DEF Closed, IsStarted, Clients
<1>4. QueueInOrder(d, n) /\ PipelineInOrder(d)
    BY <1>1 DEF Sound, QueueInOrder, PipelineInOrder, Closed, Clients
<1>5. ConnectionInOrder(d, n)
    BY <1>1 DEF ConnectionInOrder, Closed, Clients
<1>6. StreamInOrder(d)
    <2>1. c.closeCount \in Nat /\ c.tokenRequests \subseteq 0..c.closeCount
        BY <1>1 DEF Sound, StreamInOrder, IsStarted, Clients
    <2>2. c.tokenRequests \subseteq 0..(c.closeCount + 1) /\ c.closeCount + 1 \notin c.tokenRequests
        BY <2>1
    <2> QED
        BY <1>1, <2>2 DEF StreamInOrder, IsStarted, Closed, Clients
<1> QED
    BY <1>1, <1>2, <1>3, <1>4, <1>5, <1>6 DEF Sound, Closed, Clients

\* NotifyStreamClose ends with forgetting the handshake.
LEMMA ForgetHandshake ==
    ASSUME NEW c, NEW n \in Nat, Sound(c, n), c.state # "Open"
    PROVE  LET d == [c EXCEPT !.handshakeComplete = FALSE]
           IN  /\ Sound(d, n) /\ ~d.handshakeComplete
               /\ d.queue = c.queue /\ d.pipeline = c.pipeline /\ d.state = c.state
               /\ d.running = c.running /\ d.isNetworkEnabled = c.isNetworkEnabled
               /\ d.rejected = c.rejected /\ d.down = c.down /\ d.refusal = c.refusal
<1> DEFINE d == [c EXCEPT !.handshakeComplete = FALSE]
<1>1. c \in Clients /\ ~c.failed
    BY DEF Sound
<1>2. d \in Clients
    BY <1>1 DEF Clients
<1>3. QueueInOrder(d, n) /\ PipelineInOrder(d) /\ StreamInOrder(d) /\ ConnectionInOrder(d, n)
    BY <1>1 DEF Sound, QueueInOrder, PipelineInOrder, StreamInOrder, ConnectionInOrder, IsStarted, Clients
<1> QED
    BY <1>1, <1>2, <1>3 DEF Sound, Clients

\* A graceful stop of a stream that is not needed, or not allowed, any more.
LEMMA GracefulClose ==
    ASSUME NEW c, NEW n \in Nat, Sound(c, n),
           ~c.isNetworkEnabled \/ c.pipeline = <<>>,
           c.handshakeComplete => c.state = "Open"
    PROVE  LET d == Close(c, "ok")
           IN  /\ Sound(d, n) /\ ~IsStarted(d) /\ ~d.handshakeComplete
               /\ d.queue = c.queue /\ d.pipeline = c.pipeline
               /\ d.running = c.running /\ d.isNetworkEnabled = c.isNetworkEnabled
               /\ d.rejected = c.rejected /\ d.down = <<>> /\ d.refusal = 0
<1> DEFINE d == Close(c, "ok")
           e == Closed(c, "Initial")
<1>1. CASE ~IsStarted(c)
    <2>1. d = c
        BY <1>1 DEF Close
    <2>2. c.state # "Open"
        BY <1>1 DEF IsStarted
    <2> QED
        BY <2>1, <2>2, <1>1 DEF Sound, ConnectionInOrder
<1>2. CASE IsStarted(c)
    <2>1. c \in Clients
        BY DEF Sound
    <2>2. Assert(c, IsStarted(c)) = c
        BY <1>2, <2>1, AssertHolds
    <2>3. d = NotifyStreamClose(e, "ok")
        BY <1>2, <2>2 DEF Close, Closed
    <2>4. /\ Sound(e, n) /\ ~IsStarted(e) /\ e.state = "Initial" /\ e \in Clients
          /\ e.queue = c.queue /\ e.pipeline = c.pipeline
          /\ e.running = c.running /\ e.isNetworkEnabled = c.isNetworkEnabled
          /\ e.rejected = c.rejected /\ e.down = <<>> /\ e.refusal = 0
        <3>1. "Initial" \in {"Initial", "Error"}
            OBVIOUS
        <3> QED
            BY <3>1, ClosedSound DEF Sound
    <2> HIDE DEF e
    <2>5. ~ShouldStartWriteStream(e)
        BY <2>4 DEF ShouldStartWriteStream, CanUseNetwork
    <2>6. OnWriteStreamClose(e, "ok") = e
        <3>1. Assert(e, "ok" = "ok" => ~ShouldStartWriteStream(e)) = e
            BY <2>4, <2>5, AssertHolds
        <3> QED
            BY <3>1, <2>5 DEF OnWriteStreamClose, StartWriteStreamIfNeeded
    <2>7. d = [e EXCEPT !.handshakeComplete = FALSE]
        BY <2>3, <2>6 DEF NotifyStreamClose
    <2> HIDE DEF d
    <2>8. e.state # "Open"
        BY <2>4
    <2>9. /\ Sound(d, n) /\ ~d.handshakeComplete
          /\ d.queue = e.queue /\ d.pipeline = e.pipeline /\ d.state = e.state
          /\ d.running = e.running /\ d.isNetworkEnabled = e.isNetworkEnabled
          /\ d.rejected = e.rejected /\ d.down = e.down /\ d.refusal = e.refusal
        BY <2>4, <2>7, <2>8, ForgetHandshake
    <2>10. ~IsStarted(d)
        BY <2>4, <2>9 DEF IsStarted
    <2> QED
        BY <2>4, <2>9, <2>10 DEF d
<1> QED
    BY <1>1, <1>2

\* The stream breaks, for a reason that will pass.
LEMMA TransientClose ==
    ASSUME NEW c, NEW n \in Nat, Sound(c, n), IsStarted(c), CanUseNetwork(c)
    PROVE  LET d == Close(c, "transient")
           IN  /\ Sound(d, n) /\ ~d.handshakeComplete /\ d.state # "Open"
               /\ c.pipeline # <<>> => IsStarted(d)
               /\ d.queue = c.queue /\ d.pipeline = c.pipeline
               /\ d.running = c.running /\ d.isNetworkEnabled = c.isNetworkEnabled
               /\ d.rejected = c.rejected /\ d.down = <<>> /\ d.refusal = 0
<1> DEFINE d == Close(c, "transient")
           e == Closed(c, "Error")
           f == StartWriteStreamIfNeeded(e)
<1>1. c \in Clients
    BY DEF Sound
<1>2. Assert(c, IsStarted(c)) = c
    BY <1>1, AssertHolds
<1>3. d = NotifyStreamClose(e, "transient")
    BY <1>2 DEF Close, Closed
<1>4. /\ Sound(e, n) /\ e \in Clients /\ e.state = "Error"
      /\ e.queue = c.queue /\ e.pipeline = c.pipeline
      /\ e.running = c.running /\ e.isNetworkEnabled = c.isNetworkEnabled
      /\ e.rejected = c.rejected /\ e.down = <<>> /\ e.refusal = 0
    <2>1. "Error" \in {"Initial", "Error"}
        OBVIOUS
    <2> QED
        BY <2>1, ClosedSound DEF Sound
<1> HIDE DEF e
<1>5. OnWriteStreamClose(e, "transient") = f
    <2>1. Assert(e, "transient" = "ok" => ~ShouldStartWriteStream(e)) = e
        BY <1>4, AssertHolds
    <2> QED
        BY <2>1 DEF OnWriteStreamClose
<1>6. /\ Sound(f, n) /\ Kept(e, f) /\ f.pipeline = e.pipeline
      /\ CanUseNetwork(e) /\ e.pipeline # <<>> => IsStarted(f)
    BY <1>4, StartIfNeededSound
<1>7. CanUseNetwork(e) /\ f.state # "Open"
    BY <1>4, <1>6 DEF CanUseNetwork, Kept
<1>8. d = [f EXCEPT !.handshakeComplete = FALSE]
    BY <1>3, <1>5 DEF NotifyStreamClose
<1> HIDE DEF d, f
<1>9. /\ Sound(d, n) /\ ~d.handshakeComplete
      /\ d.queue = f.queue /\ d.pipeline = f.pipeline /\ d.state = f.state
      /\ d.running = f.running /\ d.isNetworkEnabled = f.isNetworkEnabled
      /\ d.rejected = f.rejected /\ d.down = f.down /\ d.refusal = f.refusal
    BY <1>6, <1>7, <1>8, ForgetHandshake
<1>10. c.pipeline # <<>> => IsStarted(d)
    BY <1>4, <1>6, <1>7, <1>9 DEF IsStarted
<1> QED
    BY <1>4, <1>6, <1>7, <1>9, <1>10 DEF Kept, d

\* With the first batch gone from both, queue and pipeline are still in order.
LEMMA TailsInOrder ==
    ASSUME NEW c, NEW n \in Nat, Sound(c, n), c.pipeline # <<>>,
           NEW d, d.queue = Tail(c.queue), d.pipeline = Tail(c.pipeline),
           d.running = c.running, d.nextBatchId = c.nextBatchId
    PROVE  /\ QueueInOrder(d, n) /\ PipelineInOrder(d)
           /\ d.queue \in Seq(Batches) /\ d.pipeline \in Seq(Batches)
           /\ Len(d.queue) = Len(c.queue) - 1 /\ Len(d.pipeline) = Len(c.pipeline) - 1
<1> DEFINE q == c.queue
           p == c.pipeline
           t == Tail(q)
           r == Tail(p)
<1>1. q \in Seq(Batches) /\ p \in Seq(Batches) /\ q # <<>> /\ p # <<>>
    BY FirstBatch DEF Sound, Clients
<1>2. /\ t \in Seq(Batches) /\ Len(t) = Len(q) - 1
      /\ \A i \in 1..Len(t) : t[i] = q[i + 1]
    BY <1>1, HeadTailProperties
<1>3. /\ r \in Seq(Batches) /\ Len(r) = Len(p) - 1
      /\ \A i \in 1..Len(r) : r[i] = p[i + 1]
    BY <1>1, HeadTailProperties
<1>4. Len(q) \in Nat \ {0} /\ Len(p) \in Nat \ {0}
    BY <1>1, EmptySeq
<1>5. /\ Len(q) <= n
      /\ \A i \in 1..Len(q) : q[i].write = n - Len(q) + i /\ q[i].id = q[1].id + i - 1
      /\ c.running /\ q # <<>> => c.nextBatchId = q[Len(q)].id + 1
      /\ Len(p) <= MaxPendingWrites /\ Len(p) <= Len(q)
      /\ \A i \in 1..Len(p) : p[i] = q[i]
    BY DEF Sound, QueueInOrder, PipelineInOrder
<1>6. \A i \in 1..Len(q) : q[i].id \in Nat
    <2>1. \A i \in 1..Len(q) : q[i] \in Batches
        BY <1>1, ElementOfSeq
    <2> QED
        BY <2>1 DEF Batches
<1> HIDE DEF q, p, t, r
<1>7. ASSUME NEW i \in 1..Len(t)
      PROVE  t[i].write = n - Len(t) + i /\ t[i].id = t[1].id + i - 1
    <2>1. i + 1 \in 1..Len(q) /\ 1 \in 1..Len(t) /\ 1 + 1 \in 1..Len(q) /\ 1 \in 1..Len(q)
        BY <1>2, <1>4
    <2>2. t[i] = q[i + 1] /\ t[1] = q[1 + 1]
        BY <2>1, <1>2
    <2>3. q[i + 1].write = n - Len(q) + (i + 1)
        BY <2>1, <1>5
    <2>4. q[i + 1].id = q[1].id + (i + 1) - 1 /\ q[1 + 1].id = q[1].id + (1 + 1) - 1
        BY <2>1, <1>5
    <2>5. q[1].id \in Nat
        BY <2>1, <1>6
    <2>6. t[i].write = n - Len(t) + i
        BY <2>2, <2>3, <1>2, <1>4
    <2>7. t[i].id = t[1].id + i - 1
        <3>1. t[i].id = q[1].id + i /\ t[1].id = q[1].id + 1
            BY <2>2, <2>4, <2>5
        <3> QED
            BY <3>1, <2>5
    <2> QED
        BY <2>6, <2>7
<1>8. c.running /\ t # <<>> => c.nextBatchId = t[Len(t)].id + 1
    <2> HAVE c.running /\ t # <<>>
    <2>1. Len(t) \in Nat \ {0}
        BY <1>2, EmptySeq
    <2>2. Len(t) \in 1..Len(t) /\ Len(t) + 1 = Len(q)
        BY <2>1, <1>2, <1>4
    <2>3. t[Len(t)] = q[Len(q)]
        BY <2>2, <1>2
    <2> QED
        BY <2>3, <1>1, <1>5 DEF q
<1>9. \A i \in 1..Len(r) : r[i] = t[i]
    <2> SUFFICES ASSUME NEW i \in 1..Len(r) PROVE r[i] = t[i]
        OBVIOUS
    <2>1. i \in 1..Len(t) /\ i + 1 \in 1..Len(p)
        BY <1>2, <1>3, <1>4, <1>5
    <2> QED
        BY <2>1, <1>2, <1>3, <1>5
<1>10. d.queue = t /\ d.pipeline = r
    BY DEF t, r, q, p
<1>11. QueueInOrder(d, n)
    <2>1. Len(t) <= n
        BY <1>2, <1>4, <1>5
    <2> QED
        BY <2>1, <1>7, <1>8, <1>10 DEF QueueInOrder
<1>12. PipelineInOrder(d)
    <2>1. Len(r) <= MaxPendingWrites /\ Len(r) <= Len(t)
        BY <1>2, <1>3, <1>4, <1>5, PendingAssumption
    <2> QED
        BY <2>1, <1>9, <1>10 DEF PipelineInOrder
<1> QED
    BY <1>2, <1>3, <1>10, <1>11, <1>12 DEF q, p

\* The stream ends for good with the write at the front of the pipeline.
LEMMA PermanentClose ==
    ASSUME NEW c, NEW n \in Nat, Sound(c, n), c.state = "Open", c.handshakeComplete,
           c.pipeline # <<>>, CanUseNetwork(c)
    PROVE  LET d == Close(c, "permanent")
           IN  /\ Sound(d, n) /\ ~d.handshakeComplete /\ d.state # "Open" /\ Working(d)
               /\ d.queue = Tail(c.queue) /\ d.running = c.running
               /\ d.isNetworkEnabled = c.isNetworkEnabled /\ d.down = <<>> /\ d.refusal = 0
               /\ d.rejected = c.rejected \cup {Settled(c, n) + 1}
<1> DEFINE d == Close(c, "permanent")
           e == Closed(c, "Error")
           first == Head(c.pipeline)
           g == [e EXCEPT !.pipeline = Tail(c.pipeline), !.state = "Initial",
                          !.queue = Tail(c.queue), !.rejected = @ \cup {first.write}]
           h == FillWritePipeline(g)
<1>1. c \in Clients
    BY DEF Sound
<1>2. IsStarted(c) /\ Assert(c, IsStarted(c)) = c
    <2>1. IsStarted(c)
        BY DEF IsStarted
    <2> QED
        BY <2>1, <1>1, AssertHolds
<1>3. d = NotifyStreamClose(e, "permanent")
    BY <1>2 DEF Close, Closed
<1>4. /\ Sound(e, n) /\ e \in Clients /\ e.state = "Error" /\ ~IsStarted(e)
      /\ e.queue = c.queue /\ e.pipeline = c.pipeline /\ e.handshakeComplete
      /\ e.running = c.running /\ e.isNetworkEnabled = c.isNetworkEnabled
      /\ e.rejected = c.rejected /\ e.down = <<>> /\ e.refusal = 0
    <2>1. "Error" \in {"Initial", "Error"}
        OBVIOUS
    <2> QED
        BY <2>1, ClosedSound DEF Sound
<1> HIDE DEF e
<1>5. /\ e.queue # <<>> /\ Head(e.queue) = first /\ first \in Batches /\ first.write \in Nat
      /\ first.write = Settled(c, n) + 1
    BY <1>4, FirstBatch DEF Batches
<1> HIDE DEF first
<1>6. /\ QueueInOrder(g, n) /\ PipelineInOrder(g)
      /\ g.queue \in Seq(Batches) /\ g.pipeline \in Seq(Batches)
    <2>1. /\ g.queue = Tail(e.queue) /\ g.pipeline = Tail(e.pipeline)
          /\ g.running = e.running /\ g.nextBatchId = e.nextBatchId /\ e.pipeline # <<>>
        BY <1>4 DEF Clients
    <2> HIDE DEF g
    <2> QED
        BY <2>1, <1>4, TailsInOrder
<1>7. Sound(g, n)
    <2>1. g \in Clients
        <3>1. Tail(c.queue) \in Seq(Batches) /\ Tail(c.pipeline) \in Seq(Batches)
            BY <1>4, <1>6 DEF Clients
        <3> QED
            BY <3>1, <1>4, <1>5 DEF Clients, States
    <2>2. StreamInOrder(g)
        BY <1>4 DEF Sound, StreamInOrder, IsStarted, Clients
    <2>3. ConnectionInOrder(g, n)
        BY <1>4 DEF Sound, ConnectionInOrder, Clients
    <2> QED
        BY <2>1, <2>2, <2>3, <1>4, <1>6 DEF Sound, Clients
<1>8. DropFirstWrite(e) = h
    <2> DEFINE popped == [e EXCEPT !.pipeline = Tail(@)]
               inhibited == [popped EXCEPT !.state = "Initial"]
    <2>1. popped \in Clients /\ ~IsStarted(popped) /\ inhibited \in Clients
        <3>1. Tail(e.pipeline) \in Seq(Batches)
            BY <1>4, <1>6 DEF Clients
        <3> QED
            BY <3>1, <1>4 DEF Clients, IsStarted, States
    <2>2. InhibitBackoff(popped) = inhibited
        <3>1. Assert(popped, ~IsStarted(popped)) = popped
            BY <2>1, AssertHolds
        <3> QED
            BY <3>1 DEF InhibitBackoff
    <2>3. Head(e.pipeline) = first
        BY <1>4 DEF first
    <2>4. RejectBatch(inhibited, first) = g
        <3>1. inhibited.queue = e.queue
            BY <1>4 DEF Clients
        <3>2. Assert(inhibited, inhibited.queue # <<>> /\ Head(inhibited.queue).id = first.id) = inhibited
            BY <3>1, <2>1, <1>5, AssertHolds
        <3>3. RejectBatch(inhibited, first) =
                [[inhibited EXCEPT !.queue = Tail(@)] EXCEPT !.rejected = @ \cup {first.write}]
            BY <3>2 DEF RejectBatch, RemoveMutationBatch
        <3>4. [[inhibited EXCEPT !.queue = Tail(@)] EXCEPT !.rejected = @ \cup {first.write}] = g
            BY <1>4 DEF Clients
        <3> QED
            BY <3>3, <3>4
    <2> QED
        BY <2>2, <2>3, <2>4 DEF DropFirstWrite
<1>9. CanUseNetwork(g) /\ g.queue = Tail(c.queue) /\ g.running = c.running
      /\ g.down = <<>> /\ g.state = "Initial" /\ g.isNetworkEnabled = c.isNetworkEnabled
      /\ g.refusal = 0 /\ g.rejected = c.rejected \cup {Settled(c, n) + 1}
    BY <1>4, <1>5 DEF CanUseNetwork, Clients
<1> HIDE DEF g
<1>10. Sound(h, n) /\ Kept(g, h) /\ Working(h)
    BY <1>7, <1>9, FillSound
<1> HIDE DEF h
<1>11. OnWriteStreamClose(e, "permanent") = h
    <2>1. OnWriteStreamClose(e, "permanent") = StartWriteStreamIfNeeded(h)
        BY <1>4, <1>8 DEF OnWriteStreamClose
    <2>2. ~ShouldStartWriteStream(h)
        <3>1. h.pipeline # <<>> => h.queue # <<>>
            BY <1>10, FirstBatch
        <3> QED
            BY <3>1, <1>10 DEF ShouldStartWriteStream, Working
    <2> QED
        BY <2>1, <2>2 DEF StartWriteStreamIfNeeded
<1>12. d = [h EXCEPT !.handshakeComplete = FALSE]
    BY <1>3, <1>11 DEF NotifyStreamClose
<1>13. h.state # "Open"
    BY <1>9, <1>10 DEF Kept
<1> HIDE DEF d
<1>14. /\ Sound(d, n) /\ ~d.handshakeComplete
      /\ d.queue = h.queue /\ d.pipeline = h.pipeline /\ d.state = h.state
      /\ d.running = h.running /\ d.isNetworkEnabled = h.isNetworkEnabled
      /\ d.rejected = h.rejected /\ d.down = h.down /\ d.refusal = h.refusal
    BY <1>10, <1>12, <1>13, ForgetHandshake
<1> QED
    BY <1>9, <1>10, <1>13, <1>14 DEF Kept, Working, IsStarted, d

-----------------------------------------------------------------------------
(***************************************************************************)
(* The actions.  Each keeps the invariant, and is a step of WriteQueue or  *)
(* changes nothing that WriteQueue knows of.                               *)
(***************************************************************************)
Ahead(c) == IF c.handshakeComplete THEN Len(c.down) ELSE 0

Refines == WQ!Next \/ UNCHANGED WQ!vars

(***************************************************************************)
(* How a step settles writes, and what for.                                *)
(***************************************************************************)
Settles(n) == Settled(client', issued') = Settled(client, issued) + n

SettlesNothing == /\ Settles(0)
                  /\ client'.rejected = client.rejected
                  /\ client'.refusal \in {0, client.refusal} \cup refused'
                  /\ cuts' = cuts

SettlesAnswered == /\ Ahead(client) > 0
                   /\ Settles(1)
                   /\ client'.rejected = client.rejected
                   /\ client'.refusal = client.refusal
                   /\ cuts' = cuts

\* The write that is dropped is the refused one, or a send has failed.
SettlesRejected == /\ Settles(1)
                   /\ client'.rejected = client.rejected \cup {Settled(client, issued) + 1}
                   /\ client'.refusal = 0
                   /\ \/ Ahead(client) > 0 /\ cuts' = cuts + 1
                      \/ client.refusal = Settled(client, issued) + 1 /\ cuts' = cuts

SettlesForgotten == /\ ~Durable
                    /\ client'.rejected = client.rejected
                    /\ client'.refusal = 0
                    /\ cuts' = cuts

Accounts == /\ refused \subseteq refused'
            /\ SettlesNothing \/ SettlesAnswered \/ SettlesRejected \/ SettlesForgotten

\* What is left to show of a step that leaves the client running.
LEMMA ClientStep ==
    ASSUME IInv, NEW d, client' = d, Sound(d, issued'), d.running, d.isNetworkEnabled,
           d.handshakeComplete => d.state = "Open", Working(d),
           issued' \in Nat, applied' \in Seq(Nat), refused' \in SUBSET Nat,
           faults' \in Nat, cuts' \in Nat, kills' \in Nat
    PROVE  IInv'
BY DEF IInv, AtWork, AtRest, Working

\* WriteQueue does not notice a step that keeps both the queue and the answers.
LEMMA Unnoticed ==
    ASSUME IInv, issued' = issued, applied' = applied,
           Len(client'.queue) = Len(client.queue), Ahead(client') = Ahead(client)
    PROVE  Refines
BY DEF Refines, WQ!vars, Ahead

\* Most steps settle nothing.
LEMMA NothingSettled ==
    ASSUME IInv, issued' = issued, refused \subseteq refused', cuts' = cuts,
           Len(client'.queue) = Len(client.queue), client'.rejected = client.rejected,
           client'.refusal \in {0, client.refusal} \cup refused'
    PROVE  Accounts
<1>1. issued - Len(client.queue) + 0 = issued - Len(client.queue)
    <2>1. Len(client.queue) \in Nat /\ issued \in Nat
        BY LenProperties DEF IInv, Sound, Clients
    <2> QED
        BY <2>1
<1> QED
    BY <1>1 DEF Accounts, SettlesNothing, Settles, Settled

\* A step in which the answers under way, if any, are lost.
LEMMA Disconnected ==
    ASSUME IInv, issued' = issued, applied' = applied,
           Len(client'.queue) = Len(client.queue), Ahead(client') = 0
    PROVE  Refines
BY DEF Refines, WQ!Next, WQ!Disconnect, Ahead

\* The facts every handler starts from.
LEMMA RunningFacts ==
    ASSUME IInv, client.running
    PROVE  /\ client \in Clients /\ issued \in Nat /\ Sound(client, issued)
           /\ CanUseNetwork(client) /\ ~client.failed
           /\ client.handshakeComplete => client.state = "Open"
           /\ Working(client)
           /\ Len(client.queue) \in Nat /\ Len(client.down) \in Nat /\ Len(client.up) \in Nat
           /\ Len(client.queue) <= issued
BY LenProperties DEF IInv, Sound, CanUseNetwork, AtWork, Working, QueueInOrder, Clients

\* Steps that only fill the pipeline, after c is done with.
LEMMA FillStep ==
    ASSUME IInv, NEW c, Sound(c, issued'), CanUseNetwork(c), c.running,
           c.handshakeComplete => c.state = "Open",
           client' = FillWritePipeline(c),
           issued' \in Nat, applied' \in Seq(Nat), refused' \in SUBSET Nat,
           faults' \in Nat, cuts' \in Nat, kills' \in Nat
    PROVE  /\ IInv' /\ client'.queue = c.queue /\ Ahead(client') = Ahead(c)
           /\ client'.rejected = c.rejected /\ client'.refusal = c.refusal
<1> DEFINE d == FillWritePipeline(c)
<1>1. Sound(d, issued') /\ Kept(c, d) /\ Working(d)
    BY FillSound
<1>2. client' = d
    OBVIOUS
<1> HIDE DEF d
<1>3. d.running /\ d.isNetworkEnabled /\ (d.handshakeComplete => d.state = "Open")
    BY <1>1 DEF Kept, CanUseNetwork
<1>4. IInv'
    BY <1>1, <1>2, <1>3, ClientStep
<1> QED
    BY <1>1, <1>2, <1>4 DEF Kept, Ahead

LEMMA InitializeStep == IInv /\ Initialize => IInv' /\ Refines /\ Accounts
<1> SUFFICES ASSUME IInv, Initialize PROVE IInv' /\ Refines /\ Accounts
    OBVIOUS
<1> DEFINE next == IF client.queue = <<>> THEN 1 ELSE client.queue[Len(client.queue)].id + 1
           c == [[client EXCEPT !.running = TRUE, !.nextBatchId = next]
                    EXCEPT !.isNetworkEnabled = TRUE]
<1>1. /\ client \in Clients /\ ~client.running /\ issued \in Nat /\ Sound(client, issued)
      /\ client = [NewClient EXCEPT !.queue = client.queue, !.rejected = client.rejected]
    BY DEF IInv, Initialize, Sound, AtRest
<1>2. /\ client.state = "Initial" /\ ~client.handshakeComplete /\ client.down = <<>>
      /\ client.pipeline = <<>> /\ client.up = <<>> /\ client.refusal = 0
      /\ client.tokenRequests = {} /\ ~client.backoffTimer /\ ~client.idleTimer
    BY <1>1 DEF NewClient
<1>3. next \in Nat
    <2>1. CASE client.queue = <<>>
        BY <2>1
    <2>2. CASE client.queue # <<>>
        <3>1. client.queue \in Seq(Batches)
            BY <1>1 DEF Clients
        <3>2. Len(client.queue) \in Nat \ {0}
            BY <2>2, <3>1, EmptySeq
        <3>3. client.queue[Len(client.queue)] \in Batches
            BY <3>1, <3>2, ElementOfSeq
        <3> QED
            BY <2>2, <3>3 DEF Batches
    <2> QED
        BY <2>1, <2>2
<1>4. client.queue # <<>> => next = client.queue[Len(client.queue)].id + 1
    OBVIOUS
<1> HIDE DEF next
<1>5. Sound(c, issued)
    <2>1. c \in Clients /\ ~c.failed
        BY <1>1, <1>3 DEF Clients, Sound
    <2>2. QueueInOrder(c, issued)
        BY <1>1, <1>4 DEF Sound, QueueInOrder, Clients
    <2>3. PipelineInOrder(c)
        BY <1>1 DEF Sound, PipelineInOrder, Clients
    <2>4. StreamInOrder(c)
        BY <1>1, <1>2 DEF StreamInOrder, IsStarted, Clients
    <2>5. ConnectionInOrder(c, issued)
        BY <1>1, <1>2 DEF ConnectionInOrder, Clients
    <2> QED
        BY <2>1, <2>2, <2>3, <2>4, <2>5 DEF Sound
<1>6. client' = FillWritePipeline(c)
    BY DEF Initialize, Only, Change, EnableNetwork, next
<1>7. /\ CanUseNetwork(c) /\ c.running /\ c.queue = client.queue /\ c.down = <<>>
      /\ ~c.handshakeComplete /\ c.rejected = client.rejected /\ c.refusal = client.refusal
    BY <1>1, <1>2 DEF CanUseNetwork, Clients
<1> HIDE DEF c
<1>8. /\ issued' = issued /\ applied' = applied /\ refused' = refused
      /\ faults' = faults /\ cuts' = cuts /\ kills' = kills
    BY DEF Initialize, Only
<1>9. /\ IInv' /\ client'.queue = c.queue /\ Ahead(client') = Ahead(c)
      /\ client'.rejected = c.rejected /\ client'.refusal = c.refusal
    <2>1. /\ issued' \in Nat /\ applied' \in Seq(Nat) /\ refused' \in SUBSET Nat
          /\ faults' \in Nat /\ cuts' \in Nat /\ kills' \in Nat
        BY <1>8 DEF IInv
    <2>2. Sound(c, issued')
        BY <1>5, <1>8
    <2> QED
        BY <2>1, <2>2, <1>6, <1>7, FillStep
<1>10. Ahead(client) = 0 /\ Ahead(c) = 0
    BY <1>2, <1>7 DEF Ahead
<1> QED
    BY <1>7, <1>8, <1>9, <1>10, Unnoticed, NothingSettled

\* The idle check is cancelled when a batch is sent; so cancelling it before
\* makes no difference.
LEMMA IdleCancelled ==
    ASSUME NEW c \in Clients, c.state = "Open", c.handshakeComplete,
           NEW b \in Seq(Batches), b # <<>>
    PROVE  AddToWritePipeline(c, b) = AddToWritePipeline([c EXCEPT !.idleTimer = FALSE], b)
<1> DEFINE e == [c EXCEPT !.idleTimer = FALSE]
           w == WritesOf(b)
           a == [c EXCEPT !.pipeline = @ \o b]
           f == [e EXCEPT !.pipeline = @ \o b]
<1>1. w # <<>>
    <2>1. Len(b) # 0
        BY EmptySeq
    <2>2. Len(w) = Len(b)
        BY WritesOfBatches
    <2> HIDE DEF w
    <2> QED
        BY <2>1, <2>2, EmptySeq
<1>2. a \in Clients /\ f \in Clients
    <2>1. c.pipeline \o b \in Seq(Batches)
        BY ConcatProperties DEF Clients
    <2> QED
        BY <2>1 DEF Clients
<1>3. a.state = "Open" /\ f.state = "Open" /\ e.state = "Open" /\ e.handshakeComplete
    BY DEF Clients
<1>4. Assert(a, IsOpen(a)) = a /\ Assert(f, IsOpen(f)) = f
    BY <1>2, <1>3, AssertHolds DEF IsOpen
<1>5. AddToWritePipeline(c, b) = [a EXCEPT !.up = @ \o w, !.idleTimer = FALSE]
    BY <1>1, <1>4 DEF AddToWritePipeline, IsOpen, SendMutations, Send
<1>6. AddToWritePipeline(e, b) = [f EXCEPT !.up = @ \o w, !.idleTimer = FALSE]
    BY <1>1, <1>3, <1>4 DEF AddToWritePipeline, IsOpen, SendMutations, Send
<1>7. [a EXCEPT !.up = @ \o w, !.idleTimer = FALSE] = [f EXCEPT !.up = @ \o w, !.idleTimer = FALSE]
    BY DEF Clients
<1> QED
    BY <1>5, <1>6, <1>7

LEMMA AddMutationBatchInOrder ==
    ASSUME IInv, client.running
    PROVE  LET c == [AddMutationBatch(client, issued + 1) EXCEPT !.idleTimer = FALSE]
           IN  /\ Sound(c, issued + 1)
               /\ Len(c.queue) = Len(client.queue) + 1
<1> DEFINE batch == [id |-> client.nextBatchId, write |-> issued + 1]
           q == client.queue
           r == Append(q, batch)
           c == [AddMutationBatch(client, issued + 1) EXCEPT !.idleTimer = FALSE]
<1>1. /\ client \in Clients /\ issued \in Nat /\ Sound(client, issued) /\ ~client.failed
      /\ q \in Seq(Batches) /\ Len(q) \in Nat /\ Len(q) <= issued
    BY RunningFacts DEF Clients
<1>2. batch \in Batches
    BY <1>1 DEF Clients, Batches
<1>3. /\ r \in Seq(Batches) /\ r # <<>> /\ Len(r) = Len(q) + 1
      /\ \A i \in 1..Len(q) : r[i] = q[i]
      /\ r[Len(q) + 1] = batch
    BY <1>1, <1>2, AppendProperties
<1>4. c = [client EXCEPT !.queue = r, !.nextBatchId = @ + 1, !.idleTimer = FALSE]
    BY DEF AddMutationBatch
<1>5. /\ \A i \in 1..Len(q) : q[i].write = issued - Len(q) + i /\ q[i].id = q[1].id + i - 1
      /\ q # <<>> => client.nextBatchId = q[Len(q)].id + 1
    BY <1>1 DEF Sound, QueueInOrder
<1>6. batch.id = client.nextBatchId /\ batch.write = issued + 1 /\ client.nextBatchId \in Nat
    BY <1>1 DEF Clients
<1> HIDE DEF c, q, r, batch
<1>7. c \in Clients /\ ~c.failed /\ c.queue = r /\ c.nextBatchId = client.nextBatchId + 1
    <2>1. client.nextBatchId + 1 \in Nat
        BY <1>6
    <2> QED
        BY <2>1, <1>1, <1>3, <1>4 DEF Clients
<1>8. \A i \in 1..Len(r) : r[i].write = (issued + 1) - Len(r) + i
    <2> SUFFICES ASSUME NEW i \in 1..Len(r) PROVE r[i].write = (issued + 1) - Len(r) + i
        OBVIOUS
    <2>1. CASE i = Len(q) + 1
        BY <2>1, <1>1, <1>3, <1>6
    <2>2. CASE i # Len(q) + 1
        <3>1. i \in 1..Len(q)
            BY <2>2, <1>1, <1>3
        <3>2. r[i].write = issued - Len(q) + i
            BY <3>1, <1>3, <1>5
        <3>3. Len(r) = Len(q) + 1 /\ Len(q) \in Nat /\ issued \in Nat /\ i \in Int
            BY <1>1, <1>3
        <3> DEFINE L == Len(q)
                   M == Len(r)
        <3> HIDE DEF L, M
        <3>4. M = L + 1 => issued - L + i = (issued + 1) - M + i
            BY <3>3 DEF L
        <3> QED
            BY <3>2, <3>3, <3>4 DEF L, M
    <2> QED
        BY <2>1, <2>2
<1>9. \A i \in 1..Len(r) : r[i].id = r[1].id + i - 1
    <2> SUFFICES ASSUME NEW i \in 1..Len(r) PROVE r[i].id = r[1].id + i - 1
        OBVIOUS
    <2>1. CASE q = <<>>
        <3>1. Len(q) = 0 /\ i = 1
            BY <2>1, <1>3, EmptySeq
        <3>2. r[1] = batch
            BY <3>1, <1>3
        <3> QED
            BY <3>1, <3>2, <1>6
    <2>2. CASE q # <<>>
        <3>1. Len(q) \in Nat \ {0}
            BY <2>2, <1>1, EmptySeq
        <3>2. 1 \in 1..Len(q) /\ Len(q) \in 1..Len(q)
            BY <3>1
        <3>3. q[1] \in Batches
            BY <3>2, <1>1, ElementOfSeq
        <3>4. q[1].id \in Nat
            BY <3>3 DEF Batches
        <3>5. r[1].id = q[1].id
            BY <3>2, <1>3
        <3>6. CASE i = Len(q) + 1
            <4>1. q[Len(q)].id = q[1].id + Len(q) - 1
                BY <3>2, <1>5
            <4>2. r[i].id = q[Len(q)].id + 1
                BY <3>6, <2>2, <1>3, <1>5, <1>6
            <4> QED
                BY <4>1, <4>2, <3>1, <3>4, <3>5, <3>6
        <3>7. CASE i # Len(q) + 1
            <4>1. i \in 1..Len(q)
                BY <3>1, <3>7, <1>3
            <4> QED
                BY <4>1, <3>5, <1>3, <1>5
        <3> QED
            BY <3>6, <3>7
    <2> QED
        BY <2>1, <2>2
<1>10. QueueInOrder(c, issued + 1)
    <2>1. Len(r) <= issued + 1
        BY <1>1, <1>3
    <2>2. c.nextBatchId = r[Len(r)].id + 1
        BY <1>3, <1>6, <1>7
    <2> QED
        BY <2>1, <2>2, <1>7, <1>8, <1>9 DEF QueueInOrder
<1>11. PipelineInOrder(c)
    <2>1. c.pipeline = client.pipeline
        BY <1>1, <1>4 DEF Clients
    <2>2. /\ Len(client.pipeline) <= MaxPendingWrites /\ Len(client.pipeline) <= Len(q)
          /\ \A i \in 1..Len(client.pipeline) : client.pipeline[i] = q[i]
        BY <1>1 DEF Sound, PipelineInOrder, q
    <2>3. Len(client.pipeline) \in Nat
        BY <1>1, LenProperties DEF Clients
    <2>4. Len(client.pipeline) <= Len(r)
        BY <2>2, <2>3, <1>1, <1>3
    <2>5. \A i \in 1..Len(client.pipeline) : client.pipeline[i] = r[i]
        <3> SUFFICES ASSUME NEW i \in 1..Len(client.pipeline) PROVE client.pipeline[i] = r[i]
            OBVIOUS
        <3>1. i \in 1..Len(q)
            BY <2>2, <2>3, <1>1
        <3> QED
            BY <3>1, <2>2, <1>3
    <2> QED
        BY <2>1, <2>2, <2>4, <2>5, <1>7 DEF PipelineInOrder
<1>12. StreamInOrder(c)
    BY <1>1, <1>3, <1>4, <1>7 DEF Sound, StreamInOrder, IsStarted, Clients
<1>13. ConnectionInOrder(c, issued + 1)
    <2>1. Settled(c, issued + 1) = Settled(client, issued)
        <3>1. (issued + 1) - Len(r) = issued - Len(q)
            BY <1>1, <1>3
        <3> QED
            BY <3>1, <1>7 DEF Settled, q
    <2>2. /\ c.state = client.state /\ c.handshakeComplete = client.handshakeComplete
          /\ c.up = client.up /\ c.down = client.down /\ c.refusal = client.refusal
          /\ c.pipeline = client.pipeline
        BY <1>1, <1>4 DEF Clients
    <2>3. RefusalCount(c) = RefusalCount(client)
        BY <2>2 DEF RefusalCount
    <2>4. ConnectionInOrder(client, issued)
        BY <1>1 DEF Sound
    <2> QED
        BY <2>1, <2>2, <2>3, <2>4 DEF ConnectionInOrder
<1> QED
    BY <1>3, <1>7, <1>10, <1>11, <1>12, <1>13 DEF Sound, c, q

LEMMA WriteMutationsStep == IInv /\ WriteMutations => IInv' /\ Refines /\ Accounts
<1> SUFFICES ASSUME IInv, WriteMutations PROVE IInv' /\ Refines /\ Accounts
    OBVIOUS
<1> DEFINE c == AddMutationBatch(client, issued + 1)
           e == [c EXCEPT !.idleTimer = FALSE]
<1>1. /\ client.running /\ client' = FillWritePipeline(c)
      /\ issued' = issued + 1 /\ applied' = applied /\ refused' = refused
      /\ faults' = faults /\ cuts' = cuts /\ kills' = kills
    BY DEF WriteMutations, Running, Change
<1>2. /\ client \in Clients /\ issued \in Nat /\ Sound(client, issued)
      /\ CanUseNetwork(client) /\ (client.handshakeComplete => client.state = "Open")
      /\ Len(client.queue) \in Nat
    BY <1>1, RunningFacts
<1>3. Sound(e, issued + 1) /\ Len(e.queue) = Len(client.queue) + 1
    BY <1>1, AddMutationBatchInOrder
<1>4. /\ CanUseNetwork(e) /\ e.running /\ e.handshakeComplete = client.handshakeComplete
      /\ e.state = client.state /\ e.down = client.down
      /\ e.rejected = client.rejected /\ e.refusal = client.refusal
    BY <1>1, <1>2 DEF CanUseNetwork, AddMutationBatch, Clients
<1>5. FillWritePipeline(c) = FillWritePipeline(e)
    <2>1. CASE ~client.idleTimer
        <3>1. c.idleTimer = FALSE
            BY <2>1, <1>2 DEF AddMutationBatch, Clients
        <3>2. e = c
            BY <3>1, <1>2 DEF AddMutationBatch, Clients
        <3> QED
            BY <3>2
    <2>2. CASE client.idleTimer
        <3> DEFINE b == NextBatches(e.queue, LastBatchId(e), MaxPendingWrites - Len(e.pipeline))
        <3>1. /\ c.queue = e.queue /\ c.pipeline = e.pipeline /\ CanUseNetwork(c) = CanUseNetwork(e)
              /\ LastBatchId(c) = LastBatchId(e)
            BY <1>2 DEF AddMutationBatch, LastBatchId, CanUseNetwork, Clients
        <3>2. client.queue = <<>> /\ client.state = "Open" /\ client.handshakeComplete
            BY <2>2, <1>2 DEF Sound, StreamInOrder
        <3>3. e \in Clients /\ Follow(e, b)
            <4> HIDE DEF e
            <4>1. issued + 1 \in Nat
                BY <1>2
            <4> QED
                BY <4>1, <1>3, NextBatchesFollow DEF Sound
        <3> HIDE DEF b
        <3>4. b \in Seq(Batches) /\ b # <<>>
            <4>1. Len(client.queue) = 0
                BY <3>2, EmptySeq
            <4>2. Len(e.queue) = 1
                BY <4>1, <1>3
            <4>3. Len(e.pipeline) = 0
                <5>1. client.pipeline \in Seq(Batches) /\ Len(client.pipeline) <= Len(client.queue)
                    BY <1>2 DEF Sound, PipelineInOrder, Clients
                <5>2. Len(client.pipeline) = 0
                    BY <5>1, <4>1, LenProperties
                <5>3. e.pipeline = client.pipeline
                    BY <1>2 DEF AddMutationBatch, Clients
                <5> QED
                    BY <5>2, <5>3
            <4>4. Len(b) = Smaller(MaxPendingWrites, 1) - 0
                BY <3>3, <4>2, <4>3 DEF Follow
            <4>5. Len(b) # 0
                BY <4>4, PendingAssumption DEF Smaller
            <4> QED
                BY <4>5, <3>3, EmptySeq DEF Follow
        <3>5. c \in Clients
            <4>1. c = [e EXCEPT !.idleTimer = TRUE]
                BY <2>2, <1>2 DEF AddMutationBatch, Clients
            <4> HIDE DEF c, e
            <4> QED
                BY <4>1, <3>3 DEF Clients
        <3>6. c.state = "Open" /\ c.handshakeComplete
            BY <3>2, <1>2 DEF AddMutationBatch, Clients
        <3> HIDE DEF c
        <3>7. AddToWritePipeline(c, b) = AddToWritePipeline(e, b)
            BY <3>4, <3>5, <3>6, IdleCancelled
        <3> HIDE DEF e
        <3> QED
            BY <3>1, <3>7, <1>4 DEF FillWritePipeline, b
    <2> QED
        BY <2>1, <2>2
<1> HIDE DEF e, c
<1>6. /\ IInv' /\ client'.queue = e.queue /\ Ahead(client') = Ahead(e)
      /\ client'.rejected = e.rejected /\ client'.refusal = e.refusal
    <2>1. /\ issued' \in Nat /\ applied' \in Seq(Nat) /\ refused' \in SUBSET Nat
          /\ faults' \in Nat /\ cuts' \in Nat /\ kills' \in Nat
        BY <1>1 DEF IInv
    <2>2. Sound(e, issued') /\ client' = FillWritePipeline(e)
        BY <1>1, <1>3, <1>5
    <2>3. e.handshakeComplete => e.state = "Open"
        BY <1>2, <1>4
    <2> QED
        BY <2>1, <2>2, <2>3, <1>4, FillStep
<1>7. Refines /\ Accounts
    <2>1. Ahead(client') = Ahead(client)
        BY <1>4, <1>6 DEF Ahead
    <2>2. issued' - Len(client'.queue) = issued - Len(client.queue)
        <3>1. Len(client'.queue) = Len(client.queue) + 1
            BY <1>3, <1>6
        <3> QED
            BY <3>1, <1>1, <1>2
    <2> QED
        <3>1. Refines
            BY <2>1, <2>2, <1>1 DEF Refines, WQ!Next, WQ!Issue, Ahead
        <3>2. issued - Len(client.queue) + 0 = issued - Len(client.queue)
            BY <1>2
        <3> QED
            BY <3>1, <3>2, <2>2, <1>1, <1>4, <1>6 DEF Accounts, SettlesNothing, Settles, Settled
<1> QED
    BY <1>6, <1>7

\* Steps that concern nobody but the client.
LEMMA OnlyStep ==
    ASSUME IInv, client.running, NEW d, Only(d), Sound(d, issued), d.running,
           d.isNetworkEnabled, d.handshakeComplete => d.state = "Open", Working(d)
    PROVE  /\ IInv' /\ client' = d /\ issued' = issued /\ applied' = applied
           /\ refused' = refused /\ cuts' = cuts
<1>1. /\ client' = d /\ issued' = issued /\ applied' = applied /\ refused' = refused
      /\ faults' = faults /\ cuts' = cuts /\ kills' = kills
    BY DEF Only, Change
<1>2. /\ issued' \in Nat /\ applied' \in Seq(Nat) /\ refused' \in SUBSET Nat
      /\ faults' \in Nat /\ cuts' \in Nat /\ kills' \in Nat
    BY <1>1 DEF IInv
<1>3. Sound(d, issued')
    BY <1>1
<1>4. IInv'
    BY <1>1, <1>2, <1>3, ClientStep
<1> QED
    BY <1>1, <1>4

LEMMA CredentialsArriveStep == IInv /\ CredentialsArrive => IInv' /\ Refines /\ Accounts
<1> SUFFICES ASSUME IInv, CredentialsArrive PROVE IInv' /\ Refines /\ Accounts
    OBVIOUS
<1>1. client.running
    BY DEF CredentialsArrive, Running
<1>2. /\ client \in Clients /\ Sound(client, issued) /\ issued \in Nat /\ ~client.failed
      /\ CanUseNetwork(client) /\ (client.handshakeComplete => client.state = "Open")
      /\ Working(client)
    BY <1>1, RunningFacts
<1>3. PICK m \in client.tokenRequests :
        LET answered == [client EXCEPT !.tokenRequests = @ \ {m}]
            opened == [Assert(answered, client.state = "Starting") EXCEPT !.state = "Open"]
        IN  \/ /\ ~TokenIsCurrent(m)
               /\ Only(answered)
            \/ /\ TokenIsCurrent(m)
               /\ Only(Send(Assert(opened, ~client.handshakeComplete), <<Handshake>>))
    BY DEF CredentialsArrive
<1> DEFINE a == [client EXCEPT !.tokenRequests = @ \ {m}]
           o == [a EXCEPT !.state = "Open"]
           d == [o EXCEPT !.up = @ \o <<Handshake>>, !.idleTimer = FALSE]
<1>4. a \in Clients
    BY <1>2 DEF Clients
<1>5. CASE ~TokenIsCurrent(m)
    <2>1. Only(a)
        BY <1>3, <1>5
    <2>2. Sound(a, issued)
        <3>1. QueueInOrder(a, issued) /\ PipelineInOrder(a)
            BY <1>2 DEF Sound, QueueInOrder, PipelineInOrder, Clients
        <3>2. StreamInOrder(a)
            BY <1>2 DEF Sound, StreamInOrder, IsStarted, Clients
        <3>3. ConnectionInOrder(a, issued)
            BY <1>2 DEF Sound, ConnectionInOrder, Settled, RefusalCount, Clients
        <3> QED
            BY <3>1, <3>2, <3>3, <1>2, <1>4 DEF Sound, Clients
    <2>3. /\ a.running /\ a.isNetworkEnabled /\ (a.handshakeComplete => a.state = "Open")
          /\ Working(a) /\ a.queue = client.queue /\ Ahead(a) = Ahead(client)
          /\ a.rejected = client.rejected /\ a.refusal = client.refusal
        BY <1>1, <1>2 DEF Working, IsStarted, CanUseNetwork, Ahead, Clients
    <2> HIDE DEF a
    <2>4. /\ IInv' /\ client' = a /\ issued' = issued /\ applied' = applied
          /\ refused' = refused /\ cuts' = cuts
        BY <2>1, <2>2, <2>3, <1>1, OnlyStep
    <2> QED
        BY <2>3, <2>4, Unnoticed, NothingSettled
<1>6. CASE TokenIsCurrent(m)
    <2>1. m = client.closeCount /\ client.state = "Starting" /\ ~client.handshakeComplete
        BY <1>2, <1>3, <1>6 DEF Sound, StreamInOrder, TokenIsCurrent
    <2>2. Assert(a, client.state = "Starting") = a
        BY <1>4, <2>1, AssertHolds
    <2>3. o \in Clients
        BY <1>4 DEF Clients, States
    <2>4. Assert(o, ~client.handshakeComplete) = o /\ Assert(o, IsOpen(o)) = o
        <3>1. IsOpen(o)
            BY <1>2 DEF IsOpen, Clients
        <3> QED
            BY <2>1, <2>3, <3>1, AssertHolds
    <2>5. <<Handshake>> # <<>>
        OBVIOUS
    <2>6. Send(o, <<Handshake>>) = d
        BY <2>4, <2>5 DEF Send
    <2>7. Only(d)
        BY <1>3, <1>6, <2>2, <2>4, <2>6 DEF Only, Change
    <2>8. client.up = <<>> /\ client.down = <<>> /\ client.refusal = 0 /\ client.queue # <<>>
        BY <1>2, <2>1 DEF Sound, ConnectionInOrder, StreamInOrder, IsStarted
    <2>9. d.up = <<Handshake>> /\ d \in Clients
        <3>1. client.up \o <<Handshake>> = <<Handshake>> /\ <<Handshake>> \in Seq(Nat)
            BY <2>8 DEF Handshake
        <3> QED
            BY <3>1, <1>2, <2>3 DEF Clients
    <2>10. /\ d.state = "Open" /\ ~d.handshakeComplete /\ d.running /\ d.isNetworkEnabled
           /\ d.queue = client.queue /\ d.pipeline = client.pipeline /\ ~d.failed
           /\ d.down = <<>> /\ d.refusal = 0 /\ d.rejected = client.rejected
        BY <1>1, <1>2, <2>1, <2>8 DEF Clients, CanUseNetwork
    <2>11. Sound(d, issued)
        <3>1. QueueInOrder(d, issued) /\ PipelineInOrder(d)
            BY <1>2 DEF Sound, QueueInOrder, PipelineInOrder, Clients
        <3>2. StreamInOrder(d)
            BY <1>2, <2>1, <2>8 DEF Sound, StreamInOrder, IsStarted, Clients
        <3>3. ConnectionInOrder(d, issued)
            BY <2>9, <2>10 DEF ConnectionInOrder
        <3> QED
            BY <3>1, <3>2, <3>3, <2>9, <2>10 DEF Sound
    <2> HIDE DEF d
    <2>12. Working(d)
        BY <1>2, <2>10 DEF Working, IsStarted
    <2>13. /\ IInv' /\ client' = d /\ issued' = issued /\ applied' = applied
           /\ refused' = refused /\ cuts' = cuts
        BY <2>7, <2>10, <2>11, <2>12, <1>1, OnlyStep
    <2>14. Ahead(d) = Ahead(client)
        BY <2>1, <2>10 DEF Ahead
    <2> QED
        BY <2>10, <2>13, <2>14, Unnoticed, NothingSettled
<1> QED
    BY <1>5, <1>6

LEMMA BackoffElapsesStep == IInv /\ BackoffElapses => IInv' /\ Refines /\ Accounts
<1> SUFFICES ASSUME IInv, BackoffElapses PROVE IInv' /\ Refines /\ Accounts
    OBVIOUS
<1> DEFINE c == [client EXCEPT !.backoffTimer = FALSE, !.state = "Initial"]
           d == Start(c)
<1>1. client.running /\ client.backoffTimer
    BY DEF BackoffElapses, Running
<1>2. /\ client \in Clients /\ Sound(client, issued) /\ issued \in Nat /\ ~client.failed
      /\ CanUseNetwork(client) /\ (client.handshakeComplete => client.state = "Open")
      /\ Working(client)
    BY <1>1, RunningFacts
<1>3. client.state = "Backoff" /\ client.queue # <<>>
    BY <1>1, <1>2 DEF Sound, StreamInOrder, IsStarted
<1>4. Only(d)
    <2>1. Assert(client, client.state = "Backoff") = client
        BY <1>2, <1>3, AssertHolds
    <2> QED
        BY <2>1 DEF BackoffElapses
<1>5. Sound(c, issued)
    <2>1. c \in Clients /\ ~c.failed
        BY <1>2 DEF Clients, States
    <2>2. QueueInOrder(c, issued) /\ PipelineInOrder(c)
        BY <1>2 DEF Sound, QueueInOrder, PipelineInOrder, Clients
    <2>3. StreamInOrder(c)
        BY <1>2, <1>3 DEF Sound, StreamInOrder, IsStarted, Clients
    <2>4. ConnectionInOrder(c, issued)
        BY <1>2, <1>3 DEF Sound, ConnectionInOrder, Clients
    <2> QED
        BY <2>1, <2>2, <2>3, <2>4 DEF Sound
<1>6. /\ ~IsStarted(c) /\ c.queue = client.queue /\ c.pipeline = client.pipeline
      /\ c.running /\ c.isNetworkEnabled /\ ~c.handshakeComplete
      /\ c.rejected = client.rejected /\ c.refusal = client.refusal
    BY <1>1, <1>2, <1>3 DEF IsStarted, CanUseNetwork, Clients
<1> HIDE DEF c
<1>7. Sound(d, issued) /\ IsStarted(d) /\ Kept(c, d) /\ d.pipeline = c.pipeline
    BY <1>2, <1>3, <1>5, <1>6, StartSound
<1> HIDE DEF d
<1>8. /\ d.running /\ d.isNetworkEnabled /\ ~d.handshakeComplete /\ Working(d)
      /\ d.queue = client.queue /\ d.rejected = client.rejected /\ d.refusal = client.refusal
    BY <1>2, <1>6, <1>7 DEF Kept, Working
<1>9. /\ IInv' /\ client' = d /\ issued' = issued /\ applied' = applied
      /\ refused' = refused /\ cuts' = cuts
    BY <1>1, <1>4, <1>7, <1>8, OnlyStep
<1>10. Ahead(d) = Ahead(client)
    BY <1>2, <1>3, <1>8 DEF Ahead
<1> QED
    BY <1>8, <1>9, <1>10, Unnoticed, NothingSettled

LEMMA IdleTimeoutStep == IInv /\ IdleTimeout => IInv' /\ Refines /\ Accounts
<1> SUFFICES ASSUME IInv, IdleTimeout PROVE IInv' /\ Refines /\ Accounts
    OBVIOUS
<1> DEFINE c == [client EXCEPT !.idleTimer = FALSE]
           d == Close(c, "ok")
<1>1. client.running /\ client.idleTimer /\ Only(d)
    BY DEF IdleTimeout, Running
<1>2. /\ client \in Clients /\ Sound(client, issued) /\ issued \in Nat /\ ~client.failed
      /\ CanUseNetwork(client) /\ (client.handshakeComplete => client.state = "Open")
    BY <1>1, RunningFacts
<1>3. client.queue = <<>>
    BY <1>1, <1>2 DEF Sound, StreamInOrder
<1>4. Sound(c, issued)
    <2>1. c \in Clients /\ ~c.failed
        BY <1>2 DEF Clients
    <2>2. QueueInOrder(c, issued) /\ PipelineInOrder(c)
        BY <1>2 DEF Sound, QueueInOrder, PipelineInOrder, Clients
    <2>3. StreamInOrder(c)
        BY <1>2 DEF Sound, StreamInOrder, IsStarted, Clients
    <2>4. ConnectionInOrder(c, issued)
        BY <1>2 DEF Sound, ConnectionInOrder, Settled, RefusalCount, Clients
    <2> QED
        BY <2>1, <2>2, <2>3, <2>4 DEF Sound
<1>5. /\ c.queue = client.queue /\ c.running /\ c.isNetworkEnabled
      /\ (c.handshakeComplete => c.state = "Open")
      /\ c.rejected = client.rejected
    BY <1>1, <1>2 DEF CanUseNetwork, Clients
<1> HIDE DEF c
<1>6. c.pipeline = <<>>
    BY <1>2, <1>3, <1>4, <1>5, FirstBatch
<1>7. /\ Sound(d, issued) /\ ~d.handshakeComplete
      /\ d.queue = c.queue /\ d.running = c.running
      /\ d.isNetworkEnabled = c.isNetworkEnabled
      /\ d.rejected = c.rejected /\ d.refusal = 0
    BY <1>2, <1>4, <1>5, <1>6, GracefulClose
<1> HIDE DEF d
<1>8. Working(d)
    BY <1>3, <1>5, <1>7 DEF Working
<1>9. /\ IInv' /\ client' = d /\ issued' = issued /\ applied' = applied
      /\ refused' = refused /\ cuts' = cuts
    BY <1>1, <1>5, <1>7, <1>8, OnlyStep
<1>10. Ahead(d) = 0
    BY <1>7 DEF Ahead
<1> QED
    BY <1>5, <1>7, <1>9, <1>10, Disconnected, NothingSettled

LEMMA HandshakeAnsweredStep == IInv /\ HandshakeAnswered => IInv' /\ Refines /\ Accounts
<1> SUFFICES ASSUME IInv, HandshakeAnswered PROVE IInv' /\ Refines /\ Accounts
    OBVIOUS
<1> DEFINE w == WritesOf(client.pipeline)
           c == [client EXCEPT !.down = Tail(@), !.handshakeComplete = TRUE]
           d == [client EXCEPT !.down = <<>>, !.handshakeComplete = TRUE,
                               !.up = w, !.idleTimer = FALSE]
<1>1. client.running /\ client.state = "Open" /\ client.down # <<>> /\ ~client.handshakeComplete
    BY DEF HandshakeAnswered, Stream, Running
<1>2. /\ client \in Clients /\ Sound(client, issued) /\ issued \in Nat /\ ~client.failed
      /\ CanUseNetwork(client) /\ Working(client)
    BY <1>1, RunningFacts
<1>3. /\ client.refusal = 0 /\ client.up = <<>> /\ client.down = <<Handshake>>
      /\ client.queue # <<>> /\ client.pipeline # <<>>
    <2>1. client.refusal = 0 /\ client.up = <<>> /\ client.down = <<Handshake>>
        BY <1>1, <1>2 DEF Sound, ConnectionInOrder
    <2>2. client.queue # <<>>
        BY <1>1, <1>2 DEF Sound, StreamInOrder, IsStarted
    <2> QED
        BY <2>1, <2>2, <1>2 DEF Working
<1>4. client.pipeline \in Seq(Batches) /\ client.queue \in Seq(Batches)
    BY <1>2 DEF Clients
<1>5. /\ w \in Seq(Nat) /\ Len(w) = Len(client.pipeline)
      /\ \A i \in 1..Len(client.pipeline) : w[i] = client.pipeline[i].write
    BY <1>4, WritesOfBatches
<1>6. w # <<>> /\ Len(client.pipeline) \in Nat /\ Len(client.queue) \in Nat
    BY <1>3, <1>4, <1>5, EmptySeq, LenProperties
<1> HIDE DEF w
<1>7. Only(d)
    <2>1. c \in Clients /\ IsOpen(c)
        <3>1. Tail(client.down) = <<>> /\ <<>> \in Seq(Nat)
            BY <1>3
        <3> QED
            BY <3>1, <1>1, <1>2 DEF Clients, IsOpen
    <2>2. Assert(c, IsOpen(c)) = c
        BY <2>1, AssertHolds
    <2>3. SendMutations(c, client.pipeline) = [c EXCEPT !.up = @ \o w, !.idleTimer = FALSE]
        BY <2>2, <1>6 DEF SendMutations, Send, w
    <2>4. [c EXCEPT !.up = @ \o w, !.idleTimer = FALSE] = d
        <3>1. Tail(client.down) = <<>> /\ client.up \o w = w
            BY <1>3, <1>5, ConcatEmptySeq
        <3> QED
            BY <3>1, <1>2 DEF Clients
    <2> QED
        BY <2>3, <2>4 DEF HandshakeAnswered, Only, Change
<1>8. /\ d \in Clients /\ d.state = "Open" /\ d.handshakeComplete /\ d.running
      /\ d.isNetworkEnabled /\ d.queue = client.queue /\ d.pipeline = client.pipeline
      /\ d.down = <<>> /\ d.up = w /\ d.refusal = 0 /\ ~d.failed
      /\ d.rejected = client.rejected
    <2>1. <<>> \in Seq(Nat)
        OBVIOUS
    <2> QED
        BY <2>1, <1>1, <1>2, <1>3, <1>5 DEF Clients, CanUseNetwork
<1>9. Sound(d, issued)
    <2>1. QueueInOrder(d, issued) /\ PipelineInOrder(d)
        BY <1>2 DEF Sound, QueueInOrder, PipelineInOrder, Clients
    <2>2. StreamInOrder(d)
        BY <1>2, <1>1 DEF Sound, StreamInOrder, IsStarted, Clients
    <2>3. ConnectionInOrder(d, issued)
        <3>1. Settled(d, issued) = issued - Len(client.queue) /\ RefusalCount(d) = 0 /\ Len(d.down) = 0
            BY <1>8, EmptySeq DEF Settled, RefusalCount
        <3>2. ASSUME NEW i \in 1..Len(w)
              PROVE  w[i] = Settled(d, issued) + Len(d.down) + RefusalCount(d) + i
            <4>1. i \in 1..Len(client.pipeline) /\ i \in 1..Len(client.queue)
                BY <1>2, <1>5, <1>6 DEF Sound, PipelineInOrder
            <4>2. w[i] = client.queue[i].write
                BY <4>1, <1>2, <1>5 DEF Sound, PipelineInOrder
            <4>3. client.queue[i].write = issued - Len(client.queue) + i
                BY <4>1, <1>2 DEF Sound, QueueInOrder
            <4> QED
                BY <4>2, <4>3, <3>1, <1>2, <1>6
        <3>3. Len(d.down) + RefusalCount(d) + Len(d.up) = Len(d.pipeline)
            BY <3>1, <1>5, <1>6, <1>8
        <3>4. \A i \in 1..Len(d.down) : d.down[i] = Settled(d, issued) + i
            BY <3>1
        <3>5. \A i \in 1..Len(d.up) :
                d.up[i] = Settled(d, issued) + Len(d.down) + RefusalCount(d) + i
            BY <3>2, <1>8
        <3> QED
            BY <3>3, <3>4, <3>5, <1>8 DEF ConnectionInOrder
    <2> QED
        BY <2>1, <2>2, <2>3, <1>8 DEF Sound
<1> HIDE DEF d
<1>10. Working(d)
    BY <1>3, <1>8 DEF Working, IsStarted
<1>11. /\ IInv' /\ client' = d /\ issued' = issued /\ applied' = applied
       /\ refused' = refused /\ cuts' = cuts
    BY <1>1, <1>7, <1>8, <1>9, <1>10, OnlyStep
<1>12. Ahead(d) = Ahead(client)
    BY <1>1, <1>8, EmptySeq DEF Ahead
<1> QED
    BY <1>8, <1>11, <1>12, Unnoticed, NothingSettled

\* An answer is for the batch at the front.
LEMMA MutationResultStep == IInv /\ MutationResult => IInv' /\ Refines /\ Accounts
<1> SUFFICES ASSUME IInv, MutationResult PROVE IInv' /\ Refines /\ Accounts
    OBVIOUS
<1> DEFINE q == client.queue
           p == client.pipeline
           c == [client EXCEPT !.down = Tail(@)]
           e == [client EXCEPT !.down = Tail(@), !.pipeline = Tail(@), !.queue = Tail(@)]
<1>1. client.running /\ client.state = "Open" /\ client.down # <<>> /\ client.handshakeComplete
    BY DEF MutationResult, Stream, Running
<1>2. /\ client \in Clients /\ Sound(client, issued) /\ issued \in Nat /\ ~client.failed
      /\ CanUseNetwork(client) /\ Working(client) /\ Len(q) \in Nat /\ Len(q) <= issued
    BY <1>1, RunningFacts
<1> DEFINE D == Len(client.down)
           U == Len(client.up)
           R == RefusalCount(client)
           S == Settled(client, issued)
<1>3. /\ client.down \in Seq(Nat) /\ client.up \in Seq(Nat) /\ p \in Seq(Batches) /\ q \in Seq(Batches)
      /\ D \in Nat \ {0} /\ U \in Nat /\ R \in 0..1 /\ S \in Nat
    <2>1. client.down \in Seq(Nat) /\ client.up \in Seq(Nat) /\ p \in Seq(Batches) /\ q \in Seq(Batches)
        BY <1>2 DEF Clients
    <2>2. D \in Nat \ {0} /\ U \in Nat
        BY <2>1, <1>1, EmptySeq, LenProperties
    <2>3. R \in 0..1
        BY DEF RefusalCount
    <2>4. S \in Nat
        BY <1>2 DEF Settled
    <2> HIDE DEF D, U, R, S
    <2> QED
        BY <2>1, <2>2, <2>3, <2>4
<1>4. /\ D + R + U = Len(p)
      /\ \A i \in 1..D : client.down[i] = S + i
      /\ client.refusal # 0 => client.refusal = S + D + 1
      /\ \A i \in 1..U : client.up[i] = S + D + R + i
    BY <1>1, <1>2 DEF Sound, ConnectionInOrder
<1>5. p # <<>>
    <2> DEFINE P == Len(p)
    <2>1. D + R + U = P
        BY <1>4
    <2> HIDE DEF D, R, U, P
    <2>2. P # 0
        BY <1>3, <2>1
    <2> QED
        BY <2>2, EmptySeq DEF P
<1>6. q # <<>> /\ Head(q) = Head(p)
    BY <1>2, <1>5, FirstBatch
<1>7. /\ Tail(client.down) \in Seq(Nat) /\ Len(Tail(client.down)) = D - 1
      /\ \A i \in 1..Len(Tail(client.down)) : Tail(client.down)[i] = client.down[i + 1]
    BY <1>1, <1>3, HeadTailProperties
<1>8. /\ QueueInOrder(e, issued) /\ PipelineInOrder(e)
      /\ e.queue \in Seq(Batches) /\ e.pipeline \in Seq(Batches)
      /\ Len(e.queue) = Len(q) - 1 /\ Len(e.pipeline) = Len(p) - 1
    <2>1. /\ e.queue = Tail(q) /\ e.pipeline = Tail(p)
          /\ e.running = client.running /\ e.nextBatchId = client.nextBatchId
        BY <1>2 DEF Clients
    <2> HIDE DEF e
    <2> QED
        BY <2>1, <1>2, <1>5, TailsInOrder
<1>9. e \in Clients
    <2>1. Tail(q) \in Seq(Batches) /\ Tail(p) \in Seq(Batches)
        BY <1>2, <1>8 DEF Clients
    <2> QED
        BY <2>1, <1>2, <1>7 DEF Clients
<1>10. /\ e.state = "Open" /\ e.handshakeComplete /\ e.running /\ e.isNetworkEnabled /\ ~e.failed
       /\ e.up = client.up /\ e.down = Tail(client.down) /\ e.refusal = client.refusal
       /\ e.queue = Tail(q) /\ e.rejected = client.rejected
    BY <1>1, <1>2 DEF Clients, CanUseNetwork
<1>11. StreamInOrder(e)
    <2>1. ~client.idleTimer
        BY <1>2, <1>6 DEF Sound, StreamInOrder
    <2> QED
        BY <2>1, <1>1, <1>2 DEF Sound, StreamInOrder, IsStarted, Clients
<1>12. client' = FillWritePipeline(e)
    <2> DEFINE a == [c EXCEPT !.pipeline = Tail(@)]
    <2>1. c \in Clients /\ c.pipeline = p /\ c.queue = q
        BY <1>2, <1>7 DEF Clients
    <2>2. Assert(c, c.pipeline # <<>>) = c
        BY <2>1, <1>5, AssertHolds
    <2>3. a \in Clients /\ a.queue = q
        <3>1. Tail(p) \in Seq(Batches)
            BY <1>2, <1>8 DEF Clients
        <3> QED
            BY <2>1, <3>1 DEF Clients
    <2>4. Assert(a, a.queue # <<>> /\ Head(a.queue).id = Head(p).id) = a
        BY <2>3, <1>6, AssertHolds
    <2>5. RemoveMutationBatch(a, Head(p)) = [a EXCEPT !.queue = Tail(@)]
        BY <2>4 DEF RemoveMutationBatch
    <2>6. [a EXCEPT !.queue = Tail(@)] = e
        BY <1>2 DEF Clients
    <2>7. Acknowledged(c) = FillWritePipeline(RemoveMutationBatch(a, Head(p)))
        BY <2>1, <2>2 DEF Acknowledged
    <2> QED
        BY <2>5, <2>6, <2>7 DEF MutationResult, Only, Change
<1> HIDE DEF e
<1>13. ConnectionInOrder(e, issued)
    <2>1. RefusalCount(e) = R /\ Settled(e, issued) = S + 1 /\ Len(e.down) = D - 1 /\ Len(e.up) = U
        BY <1>2, <1>3, <1>7, <1>8, <1>10 DEF RefusalCount, Settled
    <2>2. e.refusal # 0 => e.refusal = S + D + 1
        BY <1>4, <1>10
    <2>3. \A i \in 1..U : e.up[i] = S + D + R + i
        BY <1>4, <1>10
    <2>4. \A i \in 1..(D - 1) : e.down[i] = (S + 1) + i
        <3> SUFFICES ASSUME NEW i \in 1..(D - 1) PROVE e.down[i] = (S + 1) + i
            OBVIOUS
        <3>1. i + 1 \in 1..D /\ i \in 1..Len(Tail(client.down))
            BY <1>3, <1>7
        <3>2. e.down[i] = client.down[i + 1]
            BY <3>1, <1>7, <1>10
        <3>3. client.down[i + 1] = S + (i + 1)
            BY <3>1, <1>4
        <3> HIDE DEF S, D
        <3> QED
            BY <3>2, <3>3, <1>3
    <2> DEFINE P == Len(p)
               N == Len(e.pipeline)
    <2>5. D + R + U = P /\ N = P - 1
        BY <1>4, <1>8
    <2> HIDE DEF S, D, R, U, P, N
    <2>6. (D - 1) + R + U = N
        BY <2>5, <1>3
    <2>7. (S + 1) + (D - 1) + R = S + D + R /\ (S + 1) + (D - 1) = S + D
        BY <1>3
    <2>8. Len(e.down) + RefusalCount(e) + Len(e.up) = Len(e.pipeline)
        BY <2>1, <2>6 DEF N
    <2>9. \A i \in 1..Len(e.down) : e.down[i] = Settled(e, issued) + i
        BY <2>1, <2>4
    <2>10. e.refusal # 0 => e.refusal = Settled(e, issued) + Len(e.down) + 1
        BY <2>1, <2>2, <2>7
    <2>11. \A i \in 1..Len(e.up) :
                e.up[i] = Settled(e, issued) + Len(e.down) + RefusalCount(e) + i
        BY <2>1, <2>3, <2>7
    <2> QED
        BY <1>10, <2>8, <2>9, <2>10, <2>11 DEF ConnectionInOrder
<1>14. Sound(e, issued)
    BY <1>8, <1>9, <1>10, <1>11, <1>13 DEF Sound
<1>15. /\ issued' = issued /\ applied' = applied /\ refused' = refused
       /\ faults' = faults /\ cuts' = cuts /\ kills' = kills
    BY DEF MutationResult, Only
<1>16. /\ IInv' /\ client'.queue = e.queue /\ Ahead(client') = Ahead(e)
       /\ client'.rejected = e.rejected /\ client'.refusal = e.refusal
    <2>1. /\ issued' \in Nat /\ applied' \in Seq(Nat) /\ refused' \in SUBSET Nat
          /\ faults' \in Nat /\ cuts' \in Nat /\ kills' \in Nat
        BY <1>15 DEF IInv
    <2>2. Sound(e, issued') /\ CanUseNetwork(e)
        BY <1>10, <1>14, <1>15 DEF CanUseNetwork
    <2> QED
        BY <2>1, <2>2, <1>10, <1>12, FillStep
<1>17. Refines /\ Accounts
    <2>1. Ahead(client) = D /\ Ahead(client') = D - 1
        BY <1>1, <1>7, <1>10, <1>16 DEF Ahead
    <2>2. issued' - Len(client'.queue) = issued - Len(client.queue) + 1
        <3>1. Len(client'.queue) = Len(q) - 1
            BY <1>8, <1>16
        <3> QED
            BY <3>1, <1>2, <1>15
    <2> QED
        <3>1. Ahead(client) > 0 /\ Ahead(client') = Ahead(client) - 1
            BY <2>1, <1>3
        <3>2. Refines
            BY <3>1, <2>2, <1>15 DEF Refines, WQ!Next, WQ!Acknowledge, Ahead
        <3>3. Accounts
            BY <3>1, <2>2, <1>10, <1>15, <1>16 DEF Accounts, SettlesAnswered, Settles, Settled
        <3> QED
            BY <3>2, <3>3
<1> QED
    BY <1>16, <1>17

\* A stream that the server has closed was serving the pipeline.
LEMMA RefusedConnection ==
    ASSUME IInv, client.running, client.state = "Open", client.refusal # 0
    PROVE  client.handshakeComplete /\ client.pipeline # <<>> /\ client.queue # <<>>
<1>1. /\ client \in Clients /\ Sound(client, issued)
      /\ Len(client.down) \in Nat /\ Len(client.up) \in Nat
    BY RunningFacts
<1>2. client.handshakeComplete
    BY <1>1 DEF Sound, ConnectionInOrder
<1> DEFINE D == Len(client.down)
           U == Len(client.up)
           P == Len(client.pipeline)
<1>3. D + 1 + U = P
    BY <1>1, <1>2 DEF Sound, ConnectionInOrder, RefusalCount
<1>4. P # 0
    <2>1. D \in Nat /\ U \in Nat
        BY <1>1
    <2> HIDE DEF D, U, P
    <2> QED
        BY <2>1, <1>3
<1>5. client.pipeline # <<>>
    BY <1>4, EmptySeq
<1>6. client.queue # <<>>
    BY <1>1, <1>5, FirstBatch DEF IInv
<1> QED
    BY <1>2, <1>5, <1>6

\* Both ways in which a refusal reaches the client.
LEMMA RefusedStep ==
    ASSUME IInv, client.running, client.state = "Open", client.refusal # 0,
           client' = Close(client, "permanent"), issued' = issued, applied' = applied,
           refused' = refused, faults' \in Nat, kills' \in Nat,
           \/ client.down = <<>> /\ cuts' = cuts
           \/ client.down # <<>> /\ cuts' = cuts + 1
    PROVE  IInv' /\ Refines /\ Accounts
<1> DEFINE d == Close(client, "permanent")
           Q == Len(client.queue)
<1>1. /\ client \in Clients /\ Sound(client, issued) /\ issued \in Nat
      /\ CanUseNetwork(client) /\ Q \in Nat
    BY RunningFacts
<1>2. client.handshakeComplete /\ client.pipeline # <<>> /\ client.queue # <<>>
    BY RefusedConnection
<1>3. /\ Sound(d, issued) /\ ~d.handshakeComplete /\ Working(d)
      /\ d.queue = Tail(client.queue) /\ d.running = client.running
      /\ d.isNetworkEnabled = client.isNetworkEnabled /\ d.down = <<>>
      /\ d.rejected = client.rejected \cup {Settled(client, issued) + 1} /\ d.refusal = 0
    BY <1>1, <1>2, PermanentClose
<1>4. client' = d
    OBVIOUS
<1> HIDE DEF d
<1>5. IInv'
    <2>1. /\ issued' \in Nat /\ applied' \in Seq(Nat) /\ refused' \in SUBSET Nat /\ cuts' \in Nat
        BY DEF IInv
    <2>2. Sound(d, issued') /\ d.running /\ d.isNetworkEnabled
        BY <1>1, <1>3 DEF CanUseNetwork
    <2> QED
        BY <2>1, <2>2, <1>3, <1>4, ClientStep
<1>6. Len(client'.queue) = Q - 1 /\ Q # 0
    <2>1. client.queue \in Seq(Batches)
        BY <1>1 DEF Clients
    <2> QED
        <3>1. client'.queue = Tail(client.queue)
            BY <1>3, <1>4
        <3> QED
            BY <2>1, <3>1, <1>2, EmptySeq, HeadTailProperties
<1>7. issued' - Len(client'.queue) = issued - Len(client.queue) + 1
    <2> HIDE DEF Q
    <2>1. issued - (Q - 1) = issued - Q + 1
        BY <1>1
    <2> QED
        BY <2>1, <1>6 DEF Q
<1>8. issued - Len(client.queue) < issued
    <2> HIDE DEF Q
    <2>1. issued - Q < issued
        BY <1>1, <1>6
    <2> QED
        BY <2>1 DEF Q
<1>9. Ahead(client') = 0
    BY <1>3, <1>4 DEF Ahead
<1>10. WQ!Reject
    BY <1>7, <1>8, <1>9 DEF WQ!Reject, Ahead
<1>11. \/ Ahead(client) > 0 /\ cuts' = cuts + 1
       \/ client.refusal = Settled(client, issued) + 1 /\ cuts' = cuts
    <2>1. client.down \in Seq(Nat) /\ Len(client.down) \in Nat
        BY <1>1, LenProperties DEF Clients
    <2>2. CASE client.down = <<>>
        <3>1. Len(client.down) = 0 /\ cuts' = cuts
            BY <2>2, EmptySeq
        <3>2. client.refusal = Settled(client, issued) + Len(client.down) + 1
            BY <1>1, <1>2 DEF Sound, ConnectionInOrder
        <3>3. Settled(client, issued) + 0 + 1 = Settled(client, issued) + 1
            BY <1>1 DEF Settled
        <3> QED
            BY <3>1, <3>2, <3>3
    <2>3. CASE client.down # <<>>
        <3>1. Len(client.down) # 0
            BY <2>1, <2>3, EmptySeq
        <3> QED
            BY <2>1, <2>3, <3>1, <1>2 DEF Ahead
    <2> QED
        BY <2>2, <2>3
<1>12. Accounts
    BY <1>3, <1>4, <1>7, <1>11 DEF Accounts, SettlesRejected, Settles, Settled
<1> QED
    BY <1>5, <1>10, <1>12 DEF Refines, WQ!Next

LEMMA StreamRefusedStep == IInv /\ StreamRefused => IInv' /\ Refines /\ Accounts
<1> SUFFICES ASSUME IInv, StreamRefused PROVE IInv' /\ Refines /\ Accounts
    OBVIOUS
<1>1. client.running /\ client.state = "Open" /\ client.refusal # 0
      /\ client.down = <<>>
    BY DEF StreamRefused, Stream, Running
<1>2. /\ client' = Close(client, "permanent") /\ issued' = issued /\ applied' = applied
      /\ refused' = refused /\ faults' = faults /\ cuts' = cuts /\ kills' = kills
    BY DEF StreamRefused, Only, Change
<1>3. faults' \in Nat /\ cuts' \in Nat /\ kills' \in Nat
    BY <1>2 DEF IInv
<1> QED
    BY <1>1, <1>2, <1>3, RefusedStep

LEMMA SendFailsStep == IInv /\ SendFails => IInv' /\ Refines /\ Accounts
<1> SUFFICES ASSUME IInv, SendFails PROVE IInv' /\ Refines /\ Accounts
    OBVIOUS
<1>1. client.running /\ client.state = "Open" /\ client.refusal # 0
      /\ client.down # <<>>
    BY DEF SendFails, Stream, Running
<1>2. /\ client' = Close(client, "permanent") /\ issued' = issued /\ applied' = applied
      /\ refused' = refused /\ faults' = faults /\ cuts' = cuts + 1 /\ kills' = kills
    BY DEF SendFails, Change
<1>3. faults' \in Nat /\ cuts' \in Nat /\ kills' \in Nat
    BY <1>2 DEF IInv
<1> QED
    BY <1>1, <1>2, <1>3, RefusedStep

\* What is left when the calls of the connection have failed.
LEMMA CallsFailSound ==
    ASSUME IInv, client.running, NEW d, d = CallsFail(client)
    PROVE  /\ Sound(d, issued) /\ ~d.handshakeComplete /\ d.state # "Open" /\ Working(d)
           /\ d.queue = client.queue /\ d.running /\ d.isNetworkEnabled /\ d.down = <<>>
           /\ d.rejected = client.rejected /\ d.refusal = 0
<1>1. /\ client \in Clients /\ Sound(client, issued) /\ issued \in Nat
      /\ CanUseNetwork(client) /\ (client.handshakeComplete => client.state = "Open")
      /\ Working(client)
    BY RunningFacts
<1>2. CASE client.state = "Open"
    <2> DEFINE e == Close(client, "transient")
    <2>1. IsStarted(client) /\ d = e
        BY <1>2 DEF IsStarted, CallsFail, IsOpen
    <2>2. /\ Sound(e, issued) /\ ~e.handshakeComplete /\ e.state # "Open"
          /\ client.pipeline # <<>> => IsStarted(e)
          /\ e.queue = client.queue /\ e.pipeline = client.pipeline
          /\ e.running = client.running /\ e.isNetworkEnabled = client.isNetworkEnabled
          /\ e.down = <<>> /\ e.rejected = client.rejected /\ e.refusal = 0
        BY <1>1, <2>1, TransientClose
    <2> HIDE DEF e
    <2> QED
        BY <1>1, <2>1, <2>2 DEF Working, CanUseNetwork
<1>3. CASE client.state # "Open"
    <2>1. d = client
        BY <1>3 DEF CallsFail, IsOpen
    <2>2. client.down = <<>> /\ client.refusal = 0
        BY <1>1, <1>3 DEF Sound, ConnectionInOrder
    <2> QED
        BY <2>1, <2>2, <1>1, <1>3 DEF CanUseNetwork
<1> QED
    BY <1>2, <1>3

\* The connection is gone, and that is all.
LEMMA CallsFailStep ==
    ASSUME IInv, client.running, client' = CallsFail(client),
           issued' = issued, applied' = applied, refused' = refused,
           faults' \in Nat, cuts' = cuts, kills' \in Nat
    PROVE  IInv' /\ Refines /\ Accounts
<1> DEFINE d == CallsFail(client)
<1>1. /\ Sound(d, issued) /\ ~d.handshakeComplete /\ Working(d)
      /\ d.queue = client.queue /\ d.running /\ d.isNetworkEnabled
      /\ d.rejected = client.rejected /\ d.refusal = 0
    BY CallsFailSound
<1>2. client' = d
    OBVIOUS
<1> HIDE DEF d
<1>3. issued' \in Nat /\ applied' \in Seq(Nat) /\ refused' \in SUBSET Nat /\ cuts' \in Nat
    BY DEF IInv
<1>4. IInv'
    BY <1>1, <1>2, <1>3, ClientStep
<1>5. Ahead(client') = 0
    BY <1>1, <1>2 DEF Ahead
<1> QED
    BY <1>1, <1>2, <1>4, <1>5, Disconnected, NothingSettled

LEMMA StreamBreaksStep == IInv /\ StreamBreaks => IInv' /\ Refines /\ Accounts
<1> SUFFICES ASSUME IInv, StreamBreaks PROVE IInv' /\ Refines /\ Accounts
    OBVIOUS
<1>1. client.running /\ client.state = "Open"
    BY DEF StreamBreaks, Stream, Running
<1>2. /\ client' = Close(client, "transient") /\ issued' = issued /\ applied' = applied
      /\ refused' = refused /\ faults' = faults + 1 /\ cuts' = cuts /\ kills' = kills
    BY DEF StreamBreaks, Change, Fault
<1>3. faults' \in Nat /\ cuts' \in Nat /\ kills' \in Nat
    BY <1>2 DEF IInv
<1>4. client' = CallsFail(client)
    BY <1>1, <1>2 DEF CallsFail, IsOpen
<1> QED
    BY <1>1, <1>2, <1>3, <1>4, CallsFailStep

\* DisableNetwork and InhibitBackoff, between the two halves of RestartNetwork.
LEMMA StoppedSound ==
    ASSUME NEW c, NEW n \in Nat, Sound(c, n), ~c.handshakeComplete, c.running
    PROVE  LET e == InhibitBackoff(DisableNetwork(c))
           IN  /\ Sound(e, n) /\ ~IsStarted(e) /\ ~e.handshakeComplete
               /\ e.queue = c.queue /\ e.running
               /\ e.rejected = c.rejected /\ e.refusal = 0
<1> DEFINE a == [c EXCEPT !.isNetworkEnabled = FALSE]
           b == Close(a, "ok")
           d == [b EXCEPT !.pipeline = <<>>]
           e == [d EXCEPT !.state = "Initial"]
<1>1. c \in Clients /\ ~c.failed
    BY DEF Sound
<1>2. Sound(a, n)
    <2>1. a \in Clients /\ ~a.failed
        BY <1>1 DEF Clients
    <2>2. QueueInOrder(a, n) /\ PipelineInOrder(a)
        BY <1>1 DEF Sound, QueueInOrder, PipelineInOrder, Clients
    <2>3. StreamInOrder(a)
        BY <1>1 DEF Sound, StreamInOrder, IsStarted, Clients
    <2>4. ConnectionInOrder(a, n)
        BY <1>1 DEF Sound, ConnectionInOrder, Settled, RefusalCount, Clients
    <2> QED
        BY <2>1, <2>2, <2>3, <2>4 DEF Sound
<1>3. /\ ~a.isNetworkEnabled /\ ~a.handshakeComplete /\ a.queue = c.queue /\ a.running
      /\ a.rejected = c.rejected
    BY <1>1 DEF Clients
<1> HIDE DEF a
<1>4. /\ Sound(b, n) /\ ~IsStarted(b) /\ ~b.handshakeComplete
      /\ b.queue = c.queue /\ b.running /\ b.rejected = c.rejected /\ b.refusal = 0
    BY <1>2, <1>3, GracefulClose
<1>5. DisableNetwork(c) = d
    BY DEF DisableNetwork, a
<1> HIDE DEF b
<1>6. /\ d \in Clients /\ ~IsStarted(d) /\ e \in Clients /\ ~IsStarted(e)
      /\ ~e.failed /\ ~e.handshakeComplete /\ e.queue = c.queue /\ e.running
      /\ e.state = "Initial" /\ e.pipeline = <<>> /\ e.nextBatchId = b.nextBatchId
      /\ e.up = b.up /\ e.down = b.down /\ e.refusal = b.refusal
      /\ e.tokenRequests = b.tokenRequests /\ e.closeCount = b.closeCount
      /\ e.backoffTimer = b.backoffTimer /\ e.idleTimer = b.idleTimer
      /\ e.rejected = b.rejected
    <2>1. <<>> \in Seq(Batches)
        BY EmptySeq
    <2> QED
        BY <2>1, <1>4 DEF Sound, IsStarted, Clients, States
<1>7. InhibitBackoff(d) = e
    <2>1. Assert(d, ~IsStarted(d)) = d
        BY <1>6, AssertHolds
    <2> QED
        BY <2>1 DEF InhibitBackoff
<1> HIDE DEF e
<1>8. Sound(e, n)
    <2>1. QueueInOrder(e, n)
        BY <1>4, <1>6 DEF Sound, QueueInOrder
    <2>2. PipelineInOrder(e)
        <3>1. Len(e.pipeline) = 0 /\ Len(e.queue) \in Nat
            BY <1>6, EmptySeq, LenProperties DEF Clients
        <3> QED
            BY <3>1, PendingAssumption DEF PipelineInOrder
    <2>3. StreamInOrder(e)
        BY <1>4, <1>6 DEF Sound, StreamInOrder, IsStarted
    <2>4. ConnectionInOrder(e, n)
        <3>1. b.state # "Open"
            BY <1>4 DEF IsStarted
        <3>2. e.up = <<>> /\ e.down = <<>> /\ e.refusal = 0
            BY <3>1, <1>4, <1>6 DEF Sound, ConnectionInOrder
        <3> QED
            BY <3>2, <1>6 DEF ConnectionInOrder
    <2> QED
        BY <1>6, <2>1, <2>2, <2>3, <2>4 DEF Sound
<1> QED
    BY <1>4, <1>5, <1>6, <1>7, <1>8

LEMMA ConnectivityChangedStep ==
    ASSUME IInv, NEW available \in BOOLEAN, ConnectivityChanged(available)
    PROVE  IInv' /\ Refines /\ Accounts
<1> DEFINE c == CallsFail(client)
           e == InhibitBackoff(DisableNetwork(c))
           d == [e EXCEPT !.isNetworkEnabled = TRUE]
<1>1. client.running
    BY DEF ConnectivityChanged, Running
<1>2. /\ issued' = issued /\ applied' = applied /\ refused' = refused
      /\ faults' \in Nat /\ cuts' = cuts /\ cuts' \in Nat /\ kills' \in Nat
    BY DEF ConnectivityChanged, Fault, IInv
<1>3. CASE client' = CallsFail(client)
    BY <1>1, <1>2, <1>3, CallsFailStep
<1>4. CASE client' = RestartNetwork(c)
    <2>1. issued \in Nat /\ client \in Clients /\ Len(client.queue) \in Nat
        BY <1>1, RunningFacts
    <2>2. Sound(c, issued) /\ ~c.handshakeComplete /\ c.queue = client.queue /\ c.running
          /\ c.rejected = client.rejected
        BY <1>1, CallsFailSound
    <2> HIDE DEF c
    <2>3. /\ Sound(e, issued) /\ ~IsStarted(e) /\ ~e.handshakeComplete
          /\ e.queue = c.queue /\ e.running /\ e.rejected = c.rejected /\ e.refusal = 0
        BY <2>1, <2>2, StoppedSound
    <2>4. client' = FillWritePipeline(d)
        BY <1>4 DEF RestartNetwork, EnableNetwork
    <2> HIDE DEF e
    <2>5. /\ d \in Clients /\ ~d.failed /\ d.isNetworkEnabled /\ d.running
          /\ ~d.handshakeComplete /\ d.queue = client.queue
          /\ d.rejected = client.rejected /\ d.refusal = 0
        BY <2>2, <2>3 DEF Sound, Clients
    <2>6. Sound(d, issued)
        <3>1. QueueInOrder(d, issued) /\ PipelineInOrder(d)
            BY <2>3 DEF Sound, QueueInOrder, PipelineInOrder, Clients
        <3>2. StreamInOrder(d)
            BY <2>3 DEF Sound, StreamInOrder, IsStarted, Clients
        <3>3. ConnectionInOrder(d, issued)
            BY <2>3 DEF Sound, ConnectionInOrder, Settled, RefusalCount, Clients
        <3> QED
            BY <2>5, <3>1, <3>2, <3>3 DEF Sound
    <2> HIDE DEF d
    <2>7. issued' \in Nat /\ applied' \in Seq(Nat) /\ refused' \in SUBSET Nat
        BY <1>2 DEF IInv
    <2>8. Sound(d, issued') /\ CanUseNetwork(d)
        BY <1>2, <2>5, <2>6 DEF CanUseNetwork
    <2>9. /\ IInv' /\ client'.queue = d.queue /\ Ahead(client') = Ahead(d)
          /\ client'.rejected = d.rejected /\ client'.refusal = d.refusal
        BY <1>2, <2>4, <2>5, <2>7, <2>8, FillStep
    <2>10. Len(client'.queue) = Len(client.queue) /\ Ahead(client') = 0
        BY <2>5, <2>9 DEF Ahead
    <2> QED
        BY <1>2, <2>5, <2>9, <2>10, Disconnected, NothingSettled
<1> QED
    BY <1>3, <1>4 DEF ConnectivityChanged, Change

LEMMA KilledStep == IInv /\ Killed => IInv' /\ Refines /\ Accounts
<1> SUFFICES ASSUME IInv, Killed PROVE IInv' /\ Refines /\ Accounts
    OBVIOUS
<1> DEFINE d == [NewClient EXCEPT !.queue = QueueOnDisk, !.rejected = client.rejected,
                                  !.failed = client.failed]
<1>1. client.running /\ client' = d
    BY DEF Killed, Change
<1>2. /\ issued' = issued /\ applied' = applied /\ refused' = refused
      /\ faults' = faults /\ cuts' = cuts /\ kills' = kills + 1
    BY DEF Killed
<1>3. /\ client \in Clients /\ Sound(client, issued) /\ issued \in Nat /\ ~client.failed
      /\ Len(client.queue) \in Nat
    BY <1>1, RunningFacts
<1>4. QueueOnDisk = client.queue \/ QueueOnDisk = <<>>
    BY DEF QueueOnDisk
<1>5. /\ d.queue = QueueOnDisk /\ d.rejected = client.rejected /\ ~d.failed /\ ~d.running
      /\ d.pipeline = <<>> /\ d.state = "Initial" /\ ~d.handshakeComplete
      /\ ~d.isNetworkEnabled /\ d.closeCount = 0 /\ d.tokenRequests = {}
      /\ ~d.backoffTimer /\ ~d.idleTimer /\ d.up = <<>> /\ d.down = <<>> /\ d.refusal = 0
    BY <1>3 DEF NewClient
<1>6. d \in Clients
    <2>1. QueueOnDisk \in Seq(Batches) /\ <<>> \in Seq(Batches) /\ <<>> \in Seq(Nat)
        BY <1>3, <1>4, EmptySeq DEF Clients
    <2>2. client.rejected \in SUBSET Nat /\ client.failed \in BOOLEAN
        BY <1>3 DEF Clients
    <2> QED
        BY <2>1, <2>2 DEF NewClient, Clients, States
<1>7. AtRest(d)
    <2>1. client.failed = FALSE
        BY <1>3 DEF Clients
    <2> DEFINE e == [NewClient EXCEPT !.queue = QueueOnDisk, !.rejected = client.rejected]
    <2>2. d = e
        <3>1. d = [e EXCEPT !.failed = client.failed]
            OBVIOUS
        <3>2. e \in [DOMAIN NewClient -> {e[f] : f \in DOMAIN NewClient}] /\ e.failed = FALSE
              /\ "failed" \in DOMAIN NewClient
            BY DEF NewClient
        <3> HIDE DEF e, d
        <3> QED
            BY <2>1, <3>1, <3>2
    <2> QED
        BY <1>5, <2>2 DEF AtRest
<1> HIDE DEF d
<1>8. QueueInOrder(d, issued)
    <2>1. CASE QueueOnDisk = client.queue
        BY <2>1, <1>3, <1>5 DEF Sound, QueueInOrder
    <2>2. CASE QueueOnDisk = <<>>
        <3>1. Len(d.queue) = 0
            BY <2>2, <1>5, EmptySeq
        <3> QED
            BY <3>1, <1>3, <1>5 DEF QueueInOrder
    <2> QED
        BY <1>4, <2>1, <2>2
<1>9. PipelineInOrder(d)
    <2>1. Len(d.pipeline) = 0 /\ Len(d.queue) \in Nat
        BY <1>5, <1>6, EmptySeq, LenProperties DEF Clients
    <2> QED
        BY <2>1, PendingAssumption DEF PipelineInOrder
<1>10. StreamInOrder(d) /\ ConnectionInOrder(d, issued)
    BY <1>5 DEF StreamInOrder, ConnectionInOrder, IsStarted
<1>11. Sound(d, issued)
    BY <1>5, <1>6, <1>8, <1>9, <1>10 DEF Sound
<1>12. IInv'
    <2>1. /\ issued' \in Nat /\ applied' \in Seq(Nat) /\ refused' \in SUBSET Nat
          /\ faults' \in Nat /\ cuts' \in Nat /\ kills' \in Nat
        BY <1>2 DEF IInv
    <2>2. Sound(d, issued')
        BY <1>2, <1>11
    <2> QED
        BY <1>1, <1>5, <1>6, <1>7, <2>1, <2>2 DEF IInv, AtWork, Clients
<1>13. Ahead(client') = 0
    BY <1>1, <1>5 DEF Ahead
<1>14. Refines /\ Accounts
    <2>1. CASE QueueOnDisk = client.queue
        <3>1. Len(client'.queue) = Len(client.queue)
            BY <2>1, <1>1, <1>5
        <3> QED
            BY <3>1, <1>1, <1>2, <1>5, <1>13, Disconnected, NothingSettled
    <2>2. CASE ~Durable
        <3>1. issued' - Len(client'.queue) = issued'
            <4>1. Len(client'.queue) = 0
                BY <2>2, <1>1, <1>5, EmptySeq DEF QueueOnDisk
            <4> QED
                BY <4>1, <1>2, <1>3
        <3>2. Refines
            BY <3>1, <1>2, <1>13 DEF Refines, WQ!Next, WQ!Forget, Ahead
        <3>3. Accounts
            BY <2>2, <1>1, <1>2, <1>5 DEF Accounts, SettlesForgotten
        <3> QED
            BY <3>2, <3>3
    <2> QED
        BY <2>1, <2>2 DEF QueueOnDisk
<1> QED
    BY <1>12, <1>14

\* What the server reads next, and what is left.
LEMMA ServingFacts ==
    ASSUME IInv, Serving
    PROVE  /\ client.up \in Seq(Nat) /\ client.up # <<>> /\ client.down \in Seq(Nat)
           /\ Head(client.up) = client.up[1] /\ Head(client.up) \in Nat
           /\ Tail(client.up) \in Seq(Nat) /\ Len(Tail(client.up)) = Len(client.up) - 1
           /\ \A i \in 1..Len(Tail(client.up)) : Tail(client.up)[i] = client.up[i + 1]
           /\ Len(client.up) \in Nat \ {0} /\ Len(client.down) \in Nat
           /\ client.running /\ client.state = "Open" /\ client.refusal = 0
<1>1. client.running /\ client.state = "Open" /\ client.refusal = 0 /\ client.up # <<>>
    BY DEF Serving, Stream, Running
<1>2. client.up \in Seq(Nat) /\ client.down \in Seq(Nat)
    BY DEF IInv, Sound, Clients
<1> QED
    BY <1>1, <1>2, EmptySeq, LenProperties, HeadTailProperties

\* The server touches nothing but the connection.
LEMMA ServerStep ==
    ASSUME IInv, client.running, client.state = "Open",
           NEW u \in Seq(Nat), NEW w \in Seq(Nat), NEW r \in Nat,
           NEW d, d = [client EXCEPT !.up = u, !.down = w, !.refusal = r],
           ConnectionInOrder(d, issued), client' = d,
           issued' = issued, applied' \in Seq(Nat), refused' \in SUBSET Nat,
           faults' = faults, cuts' = cuts, kills' = kills
    PROVE  /\ IInv' /\ client'.queue = client.queue /\ client'.down = w
           /\ client'.handshakeComplete = client.handshakeComplete
           /\ client'.rejected = client.rejected /\ client'.refusal = r
<1>1. /\ client \in Clients /\ Sound(client, issued) /\ issued \in Nat /\ ~client.failed
      /\ CanUseNetwork(client) /\ (client.handshakeComplete => client.state = "Open")
      /\ Working(client)
    BY RunningFacts
<1>2. d \in Clients /\ ~d.failed
    BY <1>1 DEF Clients
<1>3. QueueInOrder(d, issued) /\ PipelineInOrder(d)
    BY <1>1 DEF Sound, QueueInOrder, PipelineInOrder, Clients
<1>4. StreamInOrder(d)
    BY <1>1 DEF Sound, StreamInOrder, IsStarted, Clients
<1>5. Sound(d, issued')
    BY <1>2, <1>3, <1>4 DEF Sound
<1>6. /\ d.running /\ d.isNetworkEnabled /\ (d.handshakeComplete => d.state = "Open")
      /\ Working(d) /\ d.queue = client.queue /\ d.down = w
      /\ d.handshakeComplete = client.handshakeComplete
      /\ d.rejected = client.rejected /\ d.refusal = r
    BY <1>1 DEF CanUseNetwork, Working, IsStarted, Clients
<1>7. issued' \in Nat /\ faults' \in Nat /\ cuts' \in Nat /\ kills' \in Nat
    BY DEF IInv
<1>8. IInv'
    BY <1>5, <1>6, <1>7, ClientStep
<1> QED
    BY <1>6, <1>8

LEMMA ServerShakesHandsStep == IInv /\ ServerShakesHands => IInv' /\ Refines /\ Accounts
<1> SUFFICES ASSUME IInv, ServerShakesHands PROVE IInv' /\ Refines /\ Accounts
    OBVIOUS
<1> DEFINE S == Settled(client, issued)
           D == Len(client.down)
           R == RefusalCount(client)
           w == Append(client.down, Handshake)
           d == [client EXCEPT !.up = Tail(@), !.down = Append(@, Handshake)]
<1>1. Serving /\ Head(client.up) = 0 /\ client' = d
    BY DEF ServerShakesHands, Handshake, Answer, Change
<1>2. /\ issued' = issued /\ applied' = applied /\ refused' = refused
      /\ faults' = faults /\ cuts' = cuts /\ kills' = kills
    BY DEF ServerShakesHands
<1>3. /\ client.up \in Seq(Nat) /\ client.up # <<>> /\ client.down \in Seq(Nat)
      /\ Head(client.up) = client.up[1] /\ Tail(client.up) \in Seq(Nat)
      /\ Len(client.up) \in Nat \ {0} /\ D \in Nat
      /\ client.running /\ client.state = "Open" /\ client.refusal = 0
    BY <1>1, ServingFacts
<1>4. Sound(client, issued) /\ client \in Clients /\ Len(client.queue) <= issued
      /\ Len(client.queue) \in Nat /\ issued \in Nat
    BY <1>3, RunningFacts
<1>5. ~client.handshakeComplete
    <2> SUFFICES ASSUME client.handshakeComplete PROVE FALSE
        OBVIOUS
    <2>1. client.up[1] = S + D + R + 1
        BY <1>3, <1>4 DEF Sound, ConnectionInOrder
    <2>2. S \in Nat /\ R \in Nat
        BY <1>4 DEF Settled, RefusalCount
    <2> HIDE DEF S, D, R
    <2> QED
        BY <1>1, <1>3, <2>1, <2>2
<1>6. client.up = <<Handshake>> /\ client.down = <<>>
    BY <1>3, <1>4, <1>5 DEF Sound, ConnectionInOrder
<1>7. Tail(client.up) = <<>> /\ w = <<Handshake>>
    BY <1>6
<1>8. w \in Seq(Nat)
    <2>1. <<Handshake>> \in Seq(Nat)
        BY DEF Handshake
    <2> QED
        BY <1>7, <2>1
<1>9. d = [client EXCEPT !.up = Tail(client.up), !.down = w, !.refusal = 0]
    BY <1>3, <1>4 DEF Clients
<1>10. ConnectionInOrder(d, issued)
    <2>1. d.up = <<>> /\ d.down = <<Handshake>> /\ d.refusal = 0 /\ d.state = "Open"
          /\ ~d.handshakeComplete
        BY <1>3, <1>4, <1>5, <1>7, <1>9 DEF Clients
    <2> QED
        BY <2>1 DEF ConnectionInOrder
<1>11. applied' \in Seq(Nat) /\ refused' \in SUBSET Nat
    BY <1>2 DEF IInv
<1> HIDE DEF d, w
<1>12. /\ IInv' /\ client'.queue = client.queue
       /\ client'.handshakeComplete = client.handshakeComplete
       /\ client'.rejected = client.rejected /\ client'.refusal = 0
    <2> DEFINE u == Tail(client.up)
    <2>1. /\ u \in Seq(Nat) /\ 0 \in Nat /\ client' = d
          /\ client.running /\ client.state = "Open"
        BY <1>1, <1>3
    <2>2. d = [client EXCEPT !.up = u, !.down = w, !.refusal = 0]
        BY <1>9
    <2> HIDE DEF u
    <2> QED
        BY <1>2, <1>8, <1>10, <1>11, <2>1, <2>2, ServerStep
<1> QED
    BY <1>2, <1>5, <1>12, Unnoticed, NothingSettled DEF Ahead

\* The next message, if it is not the handshake, is the write after those
\* that have been answered.
LEMMA NextWrite ==
    ASSUME IInv, Serving, Head(client.up) # Handshake
    PROVE  /\ client.handshakeComplete
           /\ Settled(client, issued) \in Nat /\ Settled(client, issued) = issued - Len(client.queue)
           /\ Head(client.up) = Settled(client, issued) + Len(client.down) + 1
           /\ Settled(client, issued) + Len(client.down) < issued
           /\ Len(client.down) + Len(client.up) = Len(client.pipeline)
           /\ \A i \in 1..Len(client.down) : client.down[i] = Settled(client, issued) + i
           /\ \A i \in 1..Len(client.up) :
                    client.up[i] = Settled(client, issued) + Len(client.down) + i
<1> DEFINE S == Settled(client, issued)
           D == Len(client.down)
           U == Len(client.up)
           P == Len(client.pipeline)
           Q == Len(client.queue)
           R == RefusalCount(client)
<1>1. /\ U \in Nat \ {0} /\ D \in Nat /\ client.up # <<>>
      /\ client.running /\ client.state = "Open" /\ client.refusal = 0
      /\ Head(client.up) = client.up[1]
    BY ServingFacts
<1>2. Sound(client, issued) /\ Q <= issued /\ Q \in Nat /\ issued \in Nat /\ client \in Clients
    BY <1>1, RunningFacts
<1>3. client.handshakeComplete
    <2> SUFFICES ASSUME ~client.handshakeComplete PROVE FALSE
        OBVIOUS
    <2>1. client.up = <<Handshake>>
        BY <1>1, <1>2 DEF Sound, ConnectionInOrder
    <2> QED
        BY <2>1
<1>4. R = 0
    BY <1>1 DEF RefusalCount
<1>5. /\ D + R + U = P
      /\ \A i \in 1..D : client.down[i] = S + i
      /\ \A i \in 1..U : client.up[i] = S + D + R + i
    BY <1>1, <1>2, <1>3 DEF Sound, ConnectionInOrder
<1>6. P \in Nat /\ P <= Q
    BY <1>2, LenProperties DEF Sound, PipelineInOrder, Clients
<1>7. S = issued - Q /\ S \in Nat
    BY <1>2 DEF Settled
<1> HIDE DEF S, D, U, P, Q, R
<1>8. D + U = P /\ S + D < issued
    BY <1>1, <1>2, <1>4, <1>5, <1>6, <1>7
<1>9. \A i \in 1..U : client.up[i] = S + D + i
    BY <1>1, <1>4, <1>5, <1>7
<1>10. client.up[1] = S + D + 1
    BY <1>1, <1>9
<1> QED
    BY <1>1, <1>3, <1>5, <1>7, <1>8, <1>9, <1>10 DEF S, D, U, P, Q

LEMMA ServerAppliesStep == IInv /\ ServerApplies => IInv' /\ Refines /\ Accounts
<1> SUFFICES ASSUME IInv, ServerApplies PROVE IInv' /\ Refines /\ Accounts
    OBVIOUS
<1> DEFINE S == Settled(client, issued)
           D == Len(client.down)
           U == Len(client.up)
           P == Len(client.pipeline)
           n == Head(client.up)
           u == Tail(client.up)
           w == Append(client.down, n)
           d == [client EXCEPT !.up = Tail(@), !.down = Append(@, n)]
<1>1. Serving /\ n # Handshake /\ client' = d
    BY DEF ServerApplies, Answer, Change
<1>2. /\ issued' = issued /\ applied' = Append(applied, n) /\ refused' = refused
      /\ faults' = faults /\ cuts' = cuts /\ kills' = kills
    BY DEF ServerApplies
<1>3. /\ client.up # <<>> /\ client.down \in Seq(Nat)
      /\ n \in Nat /\ u \in Seq(Nat) /\ Len(u) = U - 1
      /\ \A i \in 1..Len(u) : u[i] = client.up[i + 1]
      /\ U \in Nat \ {0} /\ D \in Nat
      /\ client.running /\ client.state = "Open" /\ client.refusal = 0
    BY <1>1, ServingFacts
<1>4. /\ client.handshakeComplete /\ S \in Nat /\ S = issued - Len(client.queue)
      /\ n = S + D + 1 /\ S + D < issued /\ D + U = P
      /\ \A i \in 1..D : client.down[i] = S + i
      /\ \A i \in 1..U : client.up[i] = S + D + i
    BY <1>1, NextWrite
<1>5. client \in Clients
    BY <1>3, RunningFacts
<1>6. /\ w \in Seq(Nat) /\ Len(w) = D + 1 /\ w[D + 1] = n
      /\ \A i \in 1..D : w[i] = client.down[i]
    BY <1>3, AppendProperties
<1>7. d = [client EXCEPT !.up = u, !.down = w, !.refusal = 0]
    BY <1>3, <1>5 DEF Clients
<1> HIDE DEF w, u, n
<1>8. /\ d.up = u /\ d.down = w /\ d.refusal = 0 /\ d.state = "Open" /\ d.handshakeComplete
      /\ d.pipeline = client.pipeline /\ d.queue = client.queue
    BY <1>3, <1>4, <1>5, <1>7 DEF Clients
<1> HIDE DEF d
<1>9. ConnectionInOrder(d, issued)
    <2>1. RefusalCount(d) = 0 /\ Settled(d, issued) = S /\ Len(d.pipeline) = P
          /\ Len(d.up) = U - 1 /\ Len(d.down) = D + 1
        BY <1>3, <1>6, <1>8 DEF RefusalCount, Settled
    <2> HIDE DEF S, D, U, P
    <2>2. (D + 1) + 0 + (U - 1) = P
        BY <1>3, <1>4
    <2>3. \A i \in 1..(D + 1) : d.down[i] = S + i
        <3> SUFFICES ASSUME NEW i \in 1..(D + 1) PROVE d.down[i] = S + i
            OBVIOUS
        <3>1. CASE i = D + 1
            <4>1. S + D + 1 = S + (D + 1)
                <5>1. S \in Nat /\ D \in Nat
                    BY <1>3, <1>4
                <5> QED
                    BY <5>1
            <4> QED
                BY <3>1, <4>1, <1>4, <1>6, <1>8
        <3>2. CASE i # D + 1
            <4>1. i \in 1..D
                BY <3>2, <1>3
            <4> QED
                BY <4>1, <1>4, <1>6, <1>8
        <3> QED
            BY <3>1, <3>2
    <2>4. \A i \in 1..(U - 1) : d.up[i] = S + (D + 1) + 0 + i
        <3> SUFFICES ASSUME NEW i \in 1..(U - 1) PROVE d.up[i] = S + (D + 1) + 0 + i
            OBVIOUS
        <3>1. i + 1 \in 1..U /\ i \in 1..Len(u)
            BY <1>3
        <3>2. d.up[i] = S + D + (i + 1)
            BY <3>1, <1>3, <1>4, <1>8
        <3>3. S + D + (i + 1) = S + (D + 1) + 0 + i
            <4>1. S \in Nat /\ D \in Nat /\ i \in Int
                BY <1>3, <1>4
            <4> QED
                BY <4>1
        <3> QED
            BY <3>2, <3>3
    <2>5. Len(d.down) + RefusalCount(d) + Len(d.up) = Len(d.pipeline)
        BY <2>1, <2>2
    <2>6. \A i \in 1..Len(d.down) : d.down[i] = Settled(d, issued) + i
        BY <2>1, <2>3
    <2>7. \A i \in 1..Len(d.up) : d.up[i] = Settled(d, issued) + Len(d.down) + RefusalCount(d) + i
        BY <2>1, <2>4
    <2> QED
        BY <1>8, <2>5, <2>6, <2>7 DEF ConnectionInOrder
<1>10. applied' \in Seq(Nat) /\ refused' \in SUBSET Nat
    <2>1. applied \in Seq(Nat) /\ refused \in SUBSET Nat
        BY DEF IInv
    <2> QED
        BY <2>1, <1>2, <1>3, AppendProperties
<1>11. /\ IInv' /\ client'.queue = client.queue /\ client'.down = w
       /\ client'.handshakeComplete = client.handshakeComplete
       /\ client'.rejected = client.rejected /\ client'.refusal = 0
    <2>1. 0 \in Nat
        OBVIOUS
    <2> QED
        <3>1. /\ issued' = issued /\ faults' = faults /\ cuts' = cuts /\ kills' = kills
              /\ client' = d /\ client.running /\ client.state = "Open"
              /\ u \in Seq(Nat) /\ w \in Seq(Nat)
            BY <1>1, <1>2, <1>3, <1>6
        <3> QED
            BY ONLY IInv, <2>1, <3>1, <1>7, <1>9, <1>10, ServerStep
<1>12. Ahead(client) = D /\ Ahead(client') = D + 1
    BY <1>4, <1>6, <1>11 DEF Ahead
<1>13. WQ!Apply
    <2>1. issued' - Len(client'.queue) = issued - Len(client.queue)
        BY <1>2, <1>11
    <2>2. applied' = Append(applied, issued - Len(client.queue) + Ahead(client) + 1)
        BY <1>2, <1>4, <1>12
    <2>3. issued - Len(client.queue) + Ahead(client) < issued
        BY <1>4, <1>12
    <2> HIDE DEF D
    <2>4. Ahead(client') = Ahead(client) + 1
        BY <1>12
    <2> QED
        BY <2>1, <2>2, <2>3, <2>4, <1>2 DEF WQ!Apply, Ahead
<1> QED
    BY <1>2, <1>11, <1>13, NothingSettled DEF Refines, WQ!Next

LEMMA ServerRefusesStep == IInv /\ ServerRefuses => IInv' /\ Refines /\ Accounts
<1> SUFFICES ASSUME IInv, ServerRefuses PROVE IInv' /\ Refines /\ Accounts
    OBVIOUS
<1> DEFINE S == Settled(client, issued)
           D == Len(client.down)
           U == Len(client.up)
           P == Len(client.pipeline)
           n == Head(client.up)
           u == Tail(client.up)
           w == client.down
           d == [client EXCEPT !.up = Tail(@), !.refusal = n]
<1>1. Serving /\ n # Handshake /\ client' = d
    BY DEF ServerRefuses, Change
<1>2. /\ issued' = issued /\ applied' = applied /\ refused' = refused \cup {n}
      /\ faults' = faults /\ cuts' = cuts /\ kills' = kills
    BY DEF ServerRefuses
<1>3. /\ client.up # <<>> /\ w \in Seq(Nat)
      /\ n \in Nat /\ u \in Seq(Nat) /\ Len(u) = U - 1
      /\ \A i \in 1..Len(u) : u[i] = client.up[i + 1]
      /\ U \in Nat \ {0} /\ D \in Nat
      /\ client.running /\ client.state = "Open" /\ client.refusal = 0
    BY <1>1, ServingFacts
<1>4. /\ client.handshakeComplete /\ S \in Nat
      /\ n = S + D + 1 /\ S + D < issued /\ D + U = P
      /\ \A i \in 1..D : w[i] = S + i
      /\ \A i \in 1..U : client.up[i] = S + D + i
    BY <1>1, NextWrite
<1>5. client \in Clients
    BY <1>3, RunningFacts
<1>6. d = [client EXCEPT !.up = u, !.down = w, !.refusal = n]
    BY <1>3, <1>5 DEF Clients
<1> HIDE DEF u, n
<1>7. /\ d.up = u /\ d.down = w /\ d.refusal = n /\ d.state = "Open" /\ d.handshakeComplete
      /\ d.pipeline = client.pipeline /\ d.queue = client.queue
    BY <1>3, <1>4, <1>5, <1>6 DEF Clients
<1> HIDE DEF d
<1>8. n # 0
    <2> HIDE DEF S, D
    <2> QED
        BY <1>3, <1>4
<1>9. ConnectionInOrder(d, issued)
    <2>1. RefusalCount(d) = 1 /\ Settled(d, issued) = S /\ Len(d.pipeline) = P
          /\ Len(d.up) = U - 1 /\ Len(d.down) = D
        BY <1>3, <1>7, <1>8 DEF RefusalCount, Settled
    <2> HIDE DEF S, D, U, P
    <2>2. D + 1 + (U - 1) = P
        BY <1>3, <1>4
    <2>3. \A i \in 1..(U - 1) : d.up[i] = S + D + 1 + i
        <3> SUFFICES ASSUME NEW i \in 1..(U - 1) PROVE d.up[i] = S + D + 1 + i
            OBVIOUS
        <3>1. i + 1 \in 1..U /\ i \in 1..Len(u)
            BY <1>3
        <3>2. d.up[i] = S + D + (i + 1)
            BY <3>1, <1>3, <1>4, <1>7
        <3>3. S + D + (i + 1) = S + D + 1 + i
            <4>1. S \in Nat /\ D \in Nat /\ i \in Int
                BY <1>3, <1>4
            <4> QED
                BY <4>1
        <3> QED
            BY <3>2, <3>3
    <2>4. Len(d.down) + RefusalCount(d) + Len(d.up) = Len(d.pipeline)
        BY <2>1, <2>2
    <2>5. \A i \in 1..Len(d.down) : d.down[i] = Settled(d, issued) + i
        BY <2>1, <1>4, <1>7
    <2>6. d.refusal = Settled(d, issued) + Len(d.down) + 1
        BY <2>1, <1>4, <1>7
    <2>7. \A i \in 1..Len(d.up) : d.up[i] = Settled(d, issued) + Len(d.down) + RefusalCount(d) + i
        BY <2>1, <2>3
    <2> QED
        BY <1>7, <2>4, <2>5, <2>6, <2>7 DEF ConnectionInOrder
<1>10. applied' \in Seq(Nat) /\ refused' \in SUBSET Nat
    BY <1>2, <1>3 DEF IInv
<1>11. /\ IInv' /\ client'.queue = client.queue /\ client'.down = w
       /\ client'.handshakeComplete = client.handshakeComplete
       /\ client'.rejected = client.rejected /\ client'.refusal = n
    BY <1>1, <1>2, <1>3, <1>6, <1>9, <1>10, ServerStep
<1> QED
    BY <1>2, <1>11, Unnoticed, NothingSettled DEF Ahead

-----------------------------------------------------------------------------
(***************************************************************************)
(* The invariant, and what follows from it.                                *)
(***************************************************************************)
LEMMA InitIInv == Init => IInv /\ WQ!Init
<1> SUFFICES ASSUME Init PROVE IInv /\ WQ!Init
    OBVIOUS
<1>1. /\ client = NewClient /\ issued = 0 /\ applied = <<>> /\ refused = {}
      /\ faults = 0 /\ cuts = 0 /\ kills = 0
    BY DEF Init
<1>2. /\ client.queue = <<>> /\ client.pipeline = <<>> /\ client.state = "Initial"
      /\ client.up = <<>> /\ client.down = <<>> /\ client.refusal = 0
      /\ client.tokenRequests = {} /\ client.closeCount = 0 /\ client.rejected = {}
      /\ ~client.running /\ ~client.isNetworkEnabled /\ ~client.handshakeComplete
      /\ ~client.backoffTimer /\ ~client.idleTimer /\ ~client.failed
    BY <1>1 DEF NewClient
<1>3. client \in Clients
    <2>1. <<>> \in Seq(Batches) /\ <<>> \in Seq(Nat)
        BY EmptySeq
    <2> QED
        BY <2>1, <1>1 DEF NewClient, Clients, States
<1>4. Len(client.queue) = 0 /\ Len(client.pipeline) = 0
    BY <1>2, EmptySeq
<1>5. QueueInOrder(client, issued) /\ PipelineInOrder(client)
    BY <1>1, <1>2, <1>4, PendingAssumption DEF QueueInOrder, PipelineInOrder
<1>6. StreamInOrder(client) /\ ConnectionInOrder(client, issued)
    BY <1>2 DEF StreamInOrder, ConnectionInOrder, IsStarted
<1>7. AtRest(client)
    BY <1>1, <1>2 DEF AtRest, NewClient
<1>8. applied \in Seq(Nat)
    BY <1>1, EmptySeq
<1>9. client.isNetworkEnabled = client.running
    BY <1>2, <1>3 DEF Clients
<1>10. IInv
    BY <1>1, <1>2, <1>3, <1>5, <1>6, <1>7, <1>8, <1>9 DEF IInv, Sound, AtWork
<1>11. WQ!Init
    <2>1. issued - Len(client.queue) = 0
        BY <1>1, <1>4
    <2> QED
        BY <1>1, <1>2, <2>1 DEF WQ!Init
<1> QED
    BY <1>10, <1>11

\* Every step keeps the invariant, and is one of the abstract queue or none.
LEMMA StepIInv == IInv /\ [Next]_vars => IInv' /\ Refines /\ Accounts
<1> SUFFICES ASSUME IInv, [Next]_vars PROVE IInv' /\ Refines /\ Accounts
    OBVIOUS
<1>1. CASE Initialize
    BY <1>1, InitializeStep
<1>2. CASE WriteMutations
    BY <1>2, WriteMutationsStep
<1>3. CASE CredentialsArrive
    BY <1>3, CredentialsArriveStep
<1>4. CASE BackoffElapses
    BY <1>4, BackoffElapsesStep
<1>5. CASE IdleTimeout
    BY <1>5, IdleTimeoutStep
<1>6. CASE HandshakeAnswered
    BY <1>6, HandshakeAnsweredStep
<1>7. CASE MutationResult
    BY <1>7, MutationResultStep
<1>8. CASE StreamRefused
    BY <1>8, StreamRefusedStep
<1>9. CASE SendFails
    BY <1>9, SendFailsStep
<1>10. CASE StreamBreaks
    BY <1>10, StreamBreaksStep
<1>11. CASE \E available \in BOOLEAN : ConnectivityChanged(available)
    BY <1>11, ConnectivityChangedStep
<1>12. CASE Killed
    BY <1>12, KilledStep
<1>13. CASE ServerShakesHands
    BY <1>13, ServerShakesHandsStep
<1>14. CASE ServerApplies
    BY <1>14, ServerAppliesStep
<1>15. CASE ServerRefuses
    BY <1>15, ServerRefusesStep
<1>16. CASE UNCHANGED vars
    <2>1. /\ client' = client /\ issued' = issued /\ applied' = applied /\ refused' = refused
          /\ faults' = faults /\ cuts' = cuts /\ kills' = kills
        BY <1>16 DEF vars
    <2>2. IInv'
        BY <2>1 DEF IInv, AtWork, AtRest
    <2> QED
        BY <2>1, <2>2, Unnoticed, NothingSettled
<1> QED
    BY <1>1, <1>2, <1>3, <1>4, <1>5, <1>6, <1>7, <1>8, <1>9, <1>10, <1>11, <1>12,
       <1>13, <1>14, <1>15, <1>16 DEF Next

LEMMA Invariance == Spec => []IInv
BY InitIInv, StepIInv, PTL DEF Spec

\* Every variable keeps its type: in particular, a batch in the queue has got
\* its id, and the close count that a credentials callback carries is a number.
THEOREM TypeCorrect == Spec => []TypeOK
<1>1. IInv => TypeOK
    BY DEF IInv, Sound, TypeOK
<1> QED
    BY <1>1, Invariance, PTL

\* No HARD_ASSERT of the write stream, the queue or the pipeline fails, however
\* long the queue and whatever the order in which timers, credentials, answers,
\* errors and connectivity callbacks reach the worker queue.
THEOREM AssertionsHold == Spec => []NoAssertionFails
<1>1. IInv => NoAssertionFails
    BY DEF IInv, Sound, NoAssertionFails
<1> QED
    BY <1>1, Invariance, PTL

\* The pipeline is the front of the mutation queue, and never too long.
THEOREM PipelineIsTheFront == Spec => []PipelineIsPrefix
<1>1. IInv => PipelineIsPrefix
    <2> SUFFICES ASSUME IInv PROVE PipelineIsPrefix
        OBVIOUS
    <2> DEFINE q == client.queue
               p == client.pipeline
    <2>1. q \in Seq(Batches) /\ p \in Seq(Batches) /\ Len(p) \in Nat /\ Len(q) \in Nat
        BY LenProperties DEF IInv, Sound, Clients
    <2>2. Len(p) <= MaxPendingWrites /\ Len(p) <= Len(q) /\ \A i \in 1..Len(p) : p[i] = q[i]
        BY DEF IInv, Sound, PipelineInOrder
    <2> HIDE DEF p, q
    <2>3. \A i \in 1..Len(p) : q[i] \in Batches
        BY <2>1, <2>2, ElementOfSeq
    <2>4. SubSeq(q, 1, Len(p)) = [i \in 1..Len(p) |-> q[i]]
        BY <2>1
    <2>5. p = [i \in 1..Len(p) |-> p[i]]
        BY <2>1
    <2>6. p = SubSeq(q, 1, Len(p))
        BY <2>2, <2>4, <2>5
    <2> QED
        BY <2>2, <2>6 DEF PipelineIsPrefix, p, q
<1> QED
    BY <1>1, Invariance, PTL

\* A client with pending writes always has its stream started, or starting, or
\* waiting for the back-off timer: no pending write is ever forgotten about.
THEOREM NoWriteGetsStuck == Spec => []NoStuckWrite
<1>1. IInv => NoStuckWrite
    BY DEF IInv, AtWork, NoStuckWrite, Running
<1> QED
    BY <1>1, Invariance, PTL

\* The idle check is only running when there is nothing to send.
THEOREM IdleWhenDone == Spec => []IdleMeansDone
<1>1. IInv => IdleMeansDone
    BY DEF IInv, Sound, StreamInOrder, IdleMeansDone
<1> QED
    BY <1>1, Invariance, PTL

\* The write pipeline implements the queue that the rest of the project takes
\* Firestore for: the server gets the writes of a client in the order of their
\* issue, and works at most as far ahead as there are pending writes.
THEOREM KeepsItsOrder == Spec => KeepsTheOrder
<1>1. Init => WQ!Init
    BY InitIInv
<1>2. IInv /\ [Next]_vars => [WQ!Next]_(WQ!vars)
    BY StepIInv DEF Refines
<1> QED
    BY <1>1, <1>2, Invariance, PTL DEF Spec, KeepsTheOrder, WQ!Spec

\* The connection carries the pipeline, write for write: whatever is read next
\* is the answer to the first batch of the pipeline.
THEOREM AnswersAreForTheFront == Spec => []AnswersMatch
<1>1. IInv => AnswersMatch
    <2> SUFFICES ASSUME IInv, client.handshakeComplete
                 PROVE  UnderWay(client) = WritesOf(client.pipeline)
        BY DEF AnswersMatch
    <2> DEFINE p == client.pipeline
               q == client.queue
               down == client.down
               up == client.up
               r == IF client.refusal = 0 THEN <<>> ELSE <<client.refusal>>
               D == Len(down)
               U == Len(up)
               R == RefusalCount(client)
               P == Len(p)
               S == Settled(client, issued)
    <2>1. /\ p \in Seq(Batches) /\ q \in Seq(Batches) /\ down \in Seq(Nat) /\ up \in Seq(Nat)
          /\ P \in Nat /\ D \in Nat /\ U \in Nat /\ client.refusal \in Nat
        BY LenProperties DEF IInv, Sound, Clients
    <2>2. /\ D + R + U = P
          /\ \A i \in 1..D : down[i] = S + i
          /\ client.refusal # 0 => client.refusal = S + D + 1
          /\ \A i \in 1..U : up[i] = S + D + R + i
        BY DEF IInv, Sound, ConnectionInOrder
    <2>3. P <= Len(q) /\ Len(q) \in Nat /\ Len(q) <= issued /\ issued \in Nat
        BY <2>1, LenProperties DEF IInv, Sound, PipelineInOrder, QueueInOrder
    <2>4. S \in Nat
        BY <2>3 DEF Settled
    <2>5. \A i \in 1..P : p[i].write = S + i
        <3> SUFFICES ASSUME NEW i \in 1..P PROVE p[i].write = S + i
            OBVIOUS
        <3>1. i \in 1..Len(q)
            BY <2>1, <2>3
        <3>2. p[i] = q[i]
            BY DEF IInv, Sound, PipelineInOrder
        <3>3. q[i].write = issued - Len(q) + i
            BY <3>1 DEF IInv, Sound, QueueInOrder
        <3> QED
            BY <3>2, <3>3 DEF Settled
    <2>6. r \in Seq(Nat) /\ Len(r) = R /\ R \in Nat /\ \A i \in 1..R : r[i] = S + D + i
        <3>1. CASE client.refusal = 0
            BY <3>1 DEF RefusalCount
        <3>2. CASE client.refusal # 0
            <4>1. r = <<client.refusal>> /\ R = 1 /\ Len(r) = 1 /\ r[1] = client.refusal
                BY <3>2 DEF RefusalCount
            <4>2. r \in Seq(Nat)
                BY <2>1, <3>2
            <4> QED
                BY <4>1, <4>2, <2>2, <3>2
        <3> QED
            BY <3>1, <3>2
    <2> DEFINE v == down \o r
               x == v \o up
    <2> HIDE DEF p, q, down, up, r, D, U, R, P, S, v, x
    <2>7. v \in Seq(Nat) /\ Len(v) = D + R /\ \A i \in 1..(D + R) : v[i] = S + i
        <3>1. /\ v \in Seq(Nat) /\ Len(v) = D + R
              /\ \A i \in 1..(D + R) : v[i] = IF i <= D THEN down[i] ELSE r[i - D]
            BY <2>1, <2>6, ConcatProperties DEF v, D
        <3>2. ASSUME NEW i \in 1..(D + R) PROVE v[i] = S + i
            <4>1. CASE i <= D
                <5>1. i \in 1..D
                    BY <4>1, <2>1, <2>6
                <5> QED
                    BY <5>1, <3>1, <4>1, <2>2
            <4>2. CASE ~(i <= D)
                <5>1. i - D \in 1..R /\ S + D + (i - D) = S + i
                    BY <4>2, <2>1, <2>4, <2>6
                <5> DEFINE j == i - D
                <5>2. v[i] = r[j] /\ j \in 1..R
                    BY <5>1, <3>1, <4>2
                <5> HIDE DEF j
                <5>3. r[j] = S + D + j
                    BY <5>2, <2>6
                <5> QED
                    BY <5>1, <5>2, <5>3 DEF j
            <4> QED
                BY <4>1, <4>2
        <3> QED
            BY <3>1, <3>2
    <2>8. x \in Seq(Nat) /\ Len(x) = P /\ \A i \in 1..P : x[i] = S + i
        <3> DEFINE V == D + R
        <3>1. /\ x \in Seq(Nat) /\ Len(x) = V + U
              /\ \A i \in 1..(V + U) : x[i] = IF i <= V THEN v[i] ELSE up[i - V]
            <4>1. v \in Seq(Nat) /\ up \in Seq(Nat) /\ Len(v) = V /\ Len(up) = U
                BY <2>1, <2>7 DEF U
            <4> HIDE DEF V
            <4>2. /\ x \in Seq(Nat) /\ Len(x) = Len(v) + Len(up)
                  /\ \A i \in 1..(Len(v) + Len(up)) :
                        x[i] = IF i <= Len(v) THEN v[i] ELSE up[i - Len(v)]
                BY <4>1, ConcatProperties DEF x
            <4> QED
                BY <4>1, <4>2
        <3>2. V + U = P /\ V \in Nat
            BY <2>1, <2>2, <2>6
        <3>3. ASSUME NEW i \in 1..P PROVE x[i] = S + i
            <4>1. CASE i <= V
                <5>1. i \in 1..V
                    BY <4>1, <3>2, <2>1
                <5> QED
                    BY <5>1, <3>1, <3>2, <4>1, <2>7
            <4>2. CASE ~(i <= V)
                <5>0. i \in 1..P /\ V \in Nat /\ U \in Nat /\ P \in Nat /\ S \in Nat
                    BY <3>2, <3>3, <2>1, <2>2, <2>4, <2>6
                <5>1. i - V \in 1..U /\ S + V + (i - V) = S + i
                    <6> HIDE DEF V
                    <6> QED BY ONLY <5>0, <4>2, <3>2
                <5> DEFINE j == i - V
                <5>2. x[i] = up[j] /\ j \in 1..U
                    BY <5>1, <3>1, <3>2, <4>2
                <5>3. S + V = S + D + R
                    BY <2>1, <2>4, <2>6
                <5> HIDE DEF j, V
                <5>4. up[j] = S + V + j
                    BY <5>2, <5>3, <2>2
                <5> QED
                    BY <5>1, <5>2, <5>4 DEF j
            <4> QED
                BY <4>1, <4>2
        <3> QED
            BY <3>1, <3>2, <3>3
    <2>9. WritesOf(p) \in Seq(Nat) /\ Len(WritesOf(p)) = P
          /\ \A i \in 1..P : WritesOf(p)[i] = S + i
        BY <2>1, <2>5, WritesOfBatches DEF P
    <2>10. x = WritesOf(p)
        BY <2>8, <2>9
    <2> QED
        BY <2>10 DEF UnderWay, x, v, down, r, up, p
<1> QED
    BY <1>1, Invariance, PTL

\* What is proved of the abstract queue holds of the one it is implemented by.
WQP == INSTANCE WriteQueueProofs WITH
        settled <- issued - Len(client.queue),
        ahead <- IF client.handshakeComplete THEN Len(client.down) ELSE 0

\* First applications follow the order of issue, through lost connections,
\* writes sent again, refused writes and kills.
THEOREM AppliedInOrder == Spec => []IssueOrder
<1>1. WQP!Spec => []WQP!IssueOrder
    BY WQP!OrderOfIssue
<1>2. WQP!Init <=> WQ!Init
    BY DEF WQP!Init, WQ!Init
<1>3. [WQ!Next]_(WQ!vars) <=> [WQP!Next]_(WQP!vars)
    BY DEF WQP!Next, WQ!Next, WQP!vars, WQ!vars, WQP!Issue, WQ!Issue,
           WQP!Apply, WQ!Apply, WQP!Acknowledge, WQ!Acknowledge,
           WQP!Disconnect, WQ!Disconnect, WQP!Reject, WQ!Reject,
           WQP!Forget, WQ!Forget
<1>4. WQP!IssueOrder <=> IssueOrder
    BY DEF IssueOrder, WQP!IssueOrder, WQ!IssueOrder, WQP!FirstTime, WQ!FirstTime
<1> QED
    BY <1>1, <1>2, <1>3, <1>4, KeepsItsOrder, PTL DEF KeepsTheOrder, WQ!Spec, WQP!Spec

-----------------------------------------------------------------------------
(***************************************************************************)
(* What becomes of the writes that leave the queue.  Most steps settle     *)
(* none.  An answer settles the oldest one, which the server has applied   *)
(* (the abstract queue's invariant); a stream that is closed for good      *)
(* settles the oldest one too, which is the refused one if no answer was   *)
(* under way, and one that the server has applied if some were.            *)
(***************************************************************************)
AnsweredWereApplied ==
    Ahead(client) > 0 => Settled(client, issued) + 1 \in Range(applied)

Accounted ==
    /\ client.refusal # 0 => client.refusal \in refused
    /\ Durable => \A n \in 1..Settled(client, issued) : n \in Range(applied) \cup refused
    /\ cuts = 0 => client.rejected \subseteq refused

LEMMA AnswersMeanApplied == Spec => []AnsweredWereApplied
<1>1. WQP!Spec => []WQP!IInv
    BY WQP!Invariance
<1>2. WQP!Init <=> WQ!Init
    BY DEF WQP!Init, WQ!Init
<1>3. [WQ!Next]_(WQ!vars) <=> [WQP!Next]_(WQP!vars)
    BY DEF WQP!Next, WQ!Next, WQP!vars, WQ!vars, WQP!Issue, WQ!Issue,
           WQP!Apply, WQ!Apply, WQP!Acknowledge, WQ!Acknowledge,
           WQP!Disconnect, WQ!Disconnect, WQP!Reject, WQ!Reject,
           WQP!Forget, WQ!Forget
<1>4. WQP!IInv => AnsweredWereApplied
    <2> SUFFICES ASSUME WQP!IInv, Ahead(client) > 0
                 PROVE  Settled(client, issued) + 1 \in Range(applied)
        BY DEF AnsweredWereApplied
    <2> DEFINE S == issued - Len(client.queue)
               A == Ahead(client)
    <2>1. /\ S \in Nat /\ A \in Nat /\ applied \in Seq(Nat)
          /\ \A n \in Nat : S < n /\ n <= S + A => \E i \in 1..Len(applied) : applied[i] = n
        BY DEF WQP!IInv, WQP!TypeOK, WQP!AheadWasApplied, WQP!WasApplied, Ahead
    <2> HIDE DEF S, A
    <2>2. PICK i \in 1..Len(applied) : applied[i] = S + 1
        <3>1. S + 1 \in Nat /\ S < S + 1 /\ S + 1 <= S + A
            BY <2>1 DEF A
        <3> QED
            BY <2>1, <3>1
    <2>3. S + 1 \in Range(applied)
        BY <2>1, <2>2 DEF Range
    <2> QED
        BY <2>3 DEF Settled, S
<1> QED
    BY <1>1, <1>2, <1>3, <1>4, KeepsItsOrder, PTL DEF KeepsTheOrder, WQ!Spec, WQP!Spec

LEMMA InitAccounted == Init => Accounted
<1> SUFFICES ASSUME Init PROVE Accounted
    OBVIOUS
<1>1. client.queue = <<>> /\ client.refusal = 0 /\ client.rejected = {} /\ issued = 0
    BY DEF Init, NewClient
<1>2. Settled(client, issued) = 0
    <2>1. Len(client.queue) = 0
        BY <1>1, EmptySeq
    <2> QED
        <3>1. issued = 0
            BY <1>1
        <3>2. issued - Len(client.queue) = 0 - 0
            BY <2>1, <3>1
        <3> QED
            BY <3>2 DEF Settled
<1> QED
    BY <1>1, <1>2 DEF Accounted

\* The server never takes back what it has applied.
LEMMA AppliedStays ==
    ASSUME IInv, Refines
    PROVE  Range(applied) \subseteq Range(applied')
<1>1. applied \in Seq(Nat)
    BY DEF IInv
<1>2. CASE applied' = applied
    BY <1>2
<1>3. ASSUME NEW w, applied' = Append(applied, w)
      PROVE  Range(applied) \subseteq Range(applied')
    <2>1. /\ DOMAIN applied = 1..Len(applied) /\ Len(applied) \in Nat
          /\ DOMAIN applied' = 1..(Len(applied) + 1)
          /\ \A i \in 1..Len(applied) : applied'[i] = applied[i]
        BY <1>1, <1>3
    <2> QED
        BY <2>1 DEF Range
<1> QED
    BY <1>2, <1>3 DEF Refines, WQ!Next, WQ!vars, WQ!Issue, WQ!Apply, WQ!Acknowledge,
                      WQ!Disconnect, WQ!Reject, WQ!Forget

LEMMA StepAccounted ==
    ASSUME IInv, AnsweredWereApplied, Accounted, [Next]_vars
    PROVE  Accounted'
<1> DEFINE S == Settled(client, issued)
           T == Settled(client', issued')
<1>1. Refines /\ Accounts
    BY StepIInv
<1>2. Range(applied) \subseteq Range(applied') /\ refused \subseteq refused'
    BY <1>1, AppliedStays DEF Accounts
<1>3. S \in Nat /\ cuts \in Nat
    <2>1. Len(client.queue) \in Nat /\ Len(client.queue) <= issued /\ issued \in Nat
        BY LenProperties DEF IInv, Sound, QueueInOrder, Clients
    <2> QED
        BY <2>1 DEF IInv, Settled
<1>4. /\ client.refusal # 0 => client.refusal \in refused
      /\ Durable => \A n \in 1..S : n \in Range(applied) \cup refused
      /\ cuts = 0 => client.rejected \subseteq refused
    BY DEF Accounted
<1>5. SUFFICES /\ client'.refusal # 0 => client'.refusal \in refused'
               /\ Durable => \A n \in 1..T : n \in Range(applied') \cup refused'
               /\ cuts' = 0 => client'.rejected \subseteq refused'
    BY DEF Accounted
<1>6. CASE SettlesNothing
    <2>1. /\ T = S + 0 /\ client'.rejected = client.rejected /\ cuts' = cuts
          /\ client'.refusal \in {0, client.refusal} \cup refused'
        BY <1>6 DEF SettlesNothing, Settles
    <2>2. T = S
        <3> HIDE DEF S, T
        <3> QED
            BY <2>1, <1>3
    <2> HIDE DEF S, T
    <2> QED
        BY <1>2, <1>4, <2>1, <2>2
<1>7. ASSUME T = S + 1, S + 1 \in Range(applied) \cup refused
      PROVE  Durable => \A n \in 1..T : n \in Range(applied') \cup refused'
    <2> HIDE DEF S, T
    <2> SUFFICES ASSUME Durable, NEW n \in 1..T PROVE n \in Range(applied') \cup refused'
        OBVIOUS
    <2>1. n \in 1..S \/ n = S + 1
        BY <1>3, <1>7
    <2> QED
        BY <2>1, <1>2, <1>4, <1>7
<1>8. CASE SettlesAnswered
    <2>1. /\ T = S + 1 /\ client'.rejected = client.rejected /\ cuts' = cuts
          /\ client'.refusal = client.refusal /\ S + 1 \in Range(applied)
        BY <1>8 DEF SettlesAnswered, Settles, AnsweredWereApplied
    <2> HIDE DEF S, T
    <2> QED
        BY <1>2, <1>4, <1>7, <2>1
<1>9. CASE SettlesRejected
    <2>1. /\ T = S + 1 /\ client'.rejected = client.rejected \cup {S + 1}
          /\ client'.refusal = 0
        BY <1>9 DEF SettlesRejected, Settles
    <2>2. \/ S + 1 \in Range(applied) /\ cuts' = cuts + 1
          \/ client.refusal = S + 1 /\ cuts' = cuts
        BY <1>9 DEF SettlesRejected, AnsweredWereApplied
    <2> HIDE DEF S, T
    <2>3. CASE S + 1 \in Range(applied) /\ cuts' = cuts + 1
        <3>1. cuts' # 0
            BY <1>3, <2>3
        <3> QED
            BY <1>7, <2>1, <2>3, <3>1
    <2>4. CASE client.refusal = S + 1 /\ cuts' = cuts
        <3>1. S + 1 \in refused
            BY <1>3, <1>4, <2>4
        <3> QED
            BY <1>2, <1>4, <1>7, <2>1, <2>4, <3>1
    <2> QED
        BY <2>2, <2>3, <2>4
<1>10. CASE SettlesForgotten
    BY <1>2, <1>4, <1>10 DEF SettlesForgotten
<1> QED
    BY <1>1, <1>6, <1>8, <1>9, <1>10 DEF Accounts

LEMMA AccountedInvariance == Spec => []Accounted
<1>1. IInv /\ AnsweredWereApplied /\ Accounted /\ [Next]_vars => Accounted'
    BY StepAccounted
<1> QED
    BY <1>1, InitAccounted, Invariance, AnswersMeanApplied, PTL DEF Spec

\* With the queue on disk, a write that is no longer pending was applied or
\* refused by the server, whatever was killed, retried or cut short before.
THEOREM NothingIsLost == Spec => []NothingLost
<1>1. IInv /\ Accounted => NothingLost
    <2> SUFFICES ASSUME IInv, Accounted, Durable, NEW n \in 1..issued
                 PROVE  n \in (Pending \cup Range(applied)) \cup refused
        BY DEF NothingLost
    <2> DEFINE q == client.queue
    <2>1. q \in Seq(Batches) /\ Len(q) \in Nat /\ Len(q) <= issued /\ issued \in Nat
        BY LenProperties DEF IInv, Sound, QueueInOrder, Clients
    <2>2. CASE n \in 1..Settled(client, issued)
        BY <2>2 DEF Accounted
    <2>3. CASE n \notin 1..Settled(client, issued)
        <3> DEFINE Q == Len(q)
                   i == n - (issued - Q)
        <3>1. i \in 1..Q /\ n = issued - Q + i
            <4>1. n \notin 1..(issued - Q)
                BY <2>3 DEF Settled
            <4>2. Q \in Nat /\ Q <= issued /\ issued \in Nat
                BY <2>1
            <4> HIDE DEF Q
            <4> QED
                BY <4>1, <4>2
        <3> HIDE DEF i
        <3>2. q[i].write = n
            BY <3>1 DEF IInv, Sound, QueueInOrder
        <3>3. i \in DOMAIN client.queue
            BY <2>1, <3>1
        <3> QED
            BY <3>2, <3>3 DEF Pending
    <2> QED
        BY <2>2, <2>3
<1> QED
    BY <1>1, Invariance, AccountedInvariance, PTL

\* As long as no failing send has thrown answers away, the write that the
\* client drops and reports as rejected is one that the server has refused.
THEOREM RejectedByTheServer == Spec => []RejectedWereRefused
<1>1. Accounted => RejectedWereRefused
    BY DEF Accounted, RejectedWereRefused
<1> QED
    BY <1>1, AccountedInvariance, PTL
=============================================================================

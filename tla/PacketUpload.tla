--------------------------- MODULE PacketUpload ---------------------------
(***************************************************************************)
(* How a packet of the firmware gets from the sensors to MQTT (network.c): *)
(* mc_network_transmit makes it, the packet queue keeps it, and            *)
(* mc_network_upload publishes a batch and puts a batch that cannot be     *)
(* published back.  All of it runs in the main task; whether a publish     *)
(* succeeds is up to the MQTT client, and one that succeeds has handed the *)
(* texts to it.                                                            *)
(*                                                                         *)
(* Packets are numbered in the order they are made.  A packet is a pointer *)
(* to a block of the heap; the queue keeps the pointers.  memory tells     *)
(* what a block holds by now: malloc may give a block again as soon as it  *)
(* is freed, whoever still points to it, and what a pointer publishes is   *)
(* what its block holds when the batch is put together.                    *)
(*                                                                         *)
(* mc_network_transmit returns before it enqueues its packet and calls     *)
(* mc_network_upload; StorePacket stands for a caller of mc_queue_enqueue  *)
(* that does what the statements after that return would do.               *)
(***************************************************************************)
EXTENDS Naturals, Sequences, FiniteSets, SequencesExt

CONSTANTS
    Blocks,       \* the blocks of the heap malloc can return for a packet
    MaxPackets,   \* bound: packets made in a behaviour
    BatchMax      \* MAX_PACKETS_IN_SINGLE_UPLOAD (10 in network.h)

ASSUME BatchMaxAssumption == BatchMax \in Nat /\ BatchMax > 1

ASSUME MaxPacketsAssumption == MaxPackets \in Nat

VARIABLES
    queue,     \* the packet queue
    place,     \* the block of each packet made so far
    memory,    \* the packet whose text a block holds; Garbage when it is free
    broken,    \* a block has been freed twice: nothing is followed any further
    stored,    \* ghost: the packets that have been enqueued
    sent,      \* ghost: the packets whose pointers have been published, in order
    texts,     \* ghost: the texts published for them
    dropped,   \* ghost: the last packets of the full batches published
    spoiled,   \* ghost: packets freed while they were put back in the queue, or
               \*   stored in a block which a packet in the queue points to
    failed     \* ghost: some publish has failed

uploadVars ==
    <<queue, place, memory, broken, stored, sent, texts, dropped, spoiled, failed>>

Packets == 1..MaxPackets

Garbage == 0

\* The number of packets made so far.
made == Len(place)

UploadInit ==
    /\ queue = <<>>
    /\ place = <<>>
    /\ memory = [b \in Blocks |-> Garbage]
    /\ broken = FALSE
    /\ stored = {}
    /\ sent = <<>>
    /\ texts = <<>>
    /\ dropped = {}
    /\ spoiled = {}
    /\ failed = FALSE

\* construct_packet, in a block that malloc finds free.
Make(b) ==
    /\ ~broken
    /\ made < MaxPackets
    /\ memory[b] = Garbage
    /\ memory' = [memory EXCEPT ![b] = made + 1]
    /\ place' = Append(place, b)
    /\ UNCHANGED <<broken, sent, texts, dropped, failed>>

\* mc_network_transmit returns before it enqueues the packet.  (Without new
\* data there is no packet, and nothing happens.)
Transmit(b) ==
    /\ Make(b)
    /\ UNCHANGED <<queue, stored, spoiled>>

\* Some packet in the queue points to block b.
PointedTo(b) == \E p \in ToSet(queue) : place[p] = b

\* A packet is made and passed to mc_queue_enqueue.
StorePacket(b) ==
    /\ Make(b)
    /\ queue' = Append(queue, made + 1)
    /\ stored' = stored \cup {made + 1}
    /\ spoiled' = IF PointedTo(b) THEN spoiled \cup {made + 1} ELSE spoiled

\* The packets mc_network_upload dequeues.
Batch == SubSeq(queue, 1, IF Len(queue) < BatchMax THEN Len(queue) ELSE BatchMax)

Rest == SubSeq(queue, Len(Batch) + 1, Len(queue))

TotalPacketsMutant ==     \* mutant: one less for every batch, as for a full one
    Len(Batch) - 1

\* How many of them it publishes: of a full batch, all but the last.
TotalPackets == IF Len(Batch) = BatchMax THEN BatchMax - 1 ELSE Len(Batch)

Sending == SubSeq(Batch, 1, TotalPackets)

\* What concat_packet_array reads through the pointers of packets s.
Texts(s) == [k \in 1..Len(s) |-> memory[place[s[k]]]]

RequeuedMutant ==     \* mutant: put back in the order they were taken out
    Reverse(Batch)

\* The batch after a failed upload, as the calls of mc_queue_enqueue_at_head for
\* the packets TotalPackets down to 0 leave it.
Requeued == Batch

FreedMutant ==     \* mutant: the loop ends before totalPackets
    Sending

\* The packets mc_network_upload frees one after the other, published or not.
Freed == Batch

Free(s) ==
    LET blocks == {place[s[k]] : k \in 1..Len(s)} IN
    /\ memory' = [b \in Blocks |-> IF b \in blocks THEN Garbage ELSE memory[b]]
    /\ broken' = \/ \E b \in blocks : memory[b] = Garbage
                 \/ \E j, k \in 1..Len(s) : j # k /\ place[s[j]] = place[s[k]]

Published ==
    /\ queue' = Rest
    /\ sent' = sent \o Sending
    /\ texts' = texts \o Texts(Sending)
    /\ dropped' = IF Len(Batch) = BatchMax THEN dropped \cup {Batch[BatchMax]} ELSE dropped
    /\ UNCHANGED <<failed, spoiled>>

NotPublished ==
    /\ queue' = Requeued \o Rest
    /\ spoiled' = spoiled \cup ToSet(Batch)
    /\ failed' = TRUE
    /\ UNCHANGED <<sent, texts, dropped>>

\* mc_network_upload; mc_mqtt_publish fails when the client is not connected or
\* cannot write.
Upload ==
    /\ ~broken
    /\ queue # <<>>
    /\ Published \/ NotPublished
    /\ Free(Freed)
    /\ UNCHANGED <<place, stored>>

UploadNext == Upload \/ \E b \in Blocks : Transmit(b) \/ StorePacket(b)

UploadSpec == UploadInit /\ [][UploadNext]_uploadVars

-----------------------------------------------------------------------------

UploadTypeOK ==
    /\ queue \in Seq(Packets)
    /\ place \in Seq(Blocks)
    /\ made <= MaxPackets
    /\ memory \in [Blocks -> Packets \cup {Garbage}]
    /\ broken \in BOOLEAN
    /\ stored \subseteq Packets
    /\ sent \in Seq(Packets)
    /\ texts \in Seq(Packets \cup {Garbage})
    /\ dropped \subseteq Packets
    /\ spoiled \subseteq Packets
    /\ failed \in BOOLEAN

Increasing(s) == \A j, k \in 1..Len(s) : j < k => s[j] < s[k]

\* Through failed uploads and retries, the pointers to packets are published in
\* the order the packets were made and none twice.  What is published for one is
\* its own text, unless it was spoiled: network.c frees what it has put back, so
\* once a publish has failed the text may be garbage, or that of a newer packet
\* in the same block, which is then published twice or freed with the older one.
\* While every publish succeeds nothing is spoiled.
SentOnceInOrder ==
    /\ Increasing(sent \o queue)
    /\ \A k \in 1..Len(sent) : texts[k] = sent[k] \/ sent[k] \in spoiled
    /\ failed \/ spoiled = {}

\* A stored packet is in the queue, or has been published (as SentOnceInOrder
\* says), or was dropped as the last one of a full batch that was published:
\* one of the three and no two of them.
LostOnlyFromFullBatch ==
    /\ stored = ToSet(queue) \cup ToSet(sent) \cup dropped
    /\ dropped \cap ToSet(sent \o queue) = {}

\* As long as every publish succeeds, each packet that left the queue is freed
\* and none that is in it.
FreedWhenGone ==
    ~failed => {p \in stored : memory[place[p]] = p} = ToSet(queue)

\* network.c: the packets of a failed upload go "back into the queue", to be
\* published later: what is in the queue still holds its packet.
QueuedAreAllocated == \A p \in ToSet(queue) : memory[place[p]] = p

=============================================================================

--------------------------- MODULE PacketQueue ----------------------------
(***************************************************************************)
(* The packet queue of the firmware (queue.c): a singly linked list whose  *)
(* nodes are malloc'ed and freed one by one.  Only the main task calls it, *)
(* so a call is one step.                                                  *)
(*                                                                         *)
(* The heap is a function from the allocated addresses to nodes: an access *)
(* to an address outside its domain is a use after free.                   *)
(***************************************************************************)
EXTENDS Naturals, Sequences, FiniteSets

CONSTANTS
    Addr,      \* the addresses malloc can return
    Items,     \* packets
    NULL,      \* the null pointer
    SizeMod    \* size is a uint16_t: 65536

\* The heap has no room for as many nodes as size can count.
ASSUME HeapAssumption ==
    /\ IsFiniteSet(Addr)
    /\ SizeMod \in Nat
    /\ Cardinality(Addr) < SizeMod
    /\ NULL \notin Addr \cup Items

VARIABLES
    heap,     \* the allocated nodes
    head,     \* static ADT_Node *head
    tail,     \* static ADT_Node *tail; dangles when the queue has been emptied
    size,     \* static uint16_t size
    out,      \* the result of the last mc_queue_dequeue or mc_queue_peek
    chain     \* ghost: the nodes of the queue, from head to tail

vars == <<heap, head, tail, size, out, chain>>

Pointers == Addr \cup {NULL}

Nodes == [next : Pointers, item : Items]

\* mc_queue_init
Init ==
    /\ heap = [a \in {} |-> NULL]
    /\ head = NULL
    /\ tail = NULL
    /\ size = 0
    /\ out = NULL
    /\ chain = <<>>

\* malloc succeeds: a full heap, which the code does not check for, is left out.
Fresh == Addr \ DOMAIN heap

\* The heap h after a node n has been stored at address a.
Store(h, a, n) == [b \in DOMAIN h \cup {a} |-> IF b = a THEN n ELSE h[b]]

\* mc_queue_enqueue; a NULL item is ignored.
Enqueue(i) ==
    /\ i # NULL
    /\ \E a \in Fresh :
         LET h == Store(heap, a, [next |-> NULL, item |-> i])
         IN  /\ IF size = 0
                THEN head' = a /\ heap' = h
                ELSE heap' = [h EXCEPT ![tail].next = a] /\ UNCHANGED head
             /\ tail' = a
             /\ chain' = Append(chain, a)
    /\ size' = (size + 1) % SizeMod
    /\ UNCHANGED out

\* mc_queue_enqueue_at_head
EnqueueAtHead(i) ==
    /\ i # NULL
    /\ IF size = 0
       THEN Enqueue(i)
       ELSE /\ \E a \in Fresh :
                 /\ heap' = Store(heap, a, [next |-> head, item |-> i])
                 /\ head' = a
                 /\ chain' = <<a>> \o chain
            /\ size' = (size + 1) % SizeMod
            /\ UNCHANGED <<tail, out>>

DequeueMutant ==     \* mutant: the node is not freed
    /\ IF size = 0
       THEN out' = NULL /\ UNCHANGED <<heap, head, size, chain>>
       ELSE /\ out' = heap[head].item
            /\ head' = heap[head].next
            /\ size' = size - 1
            /\ chain' = Tail(chain)
            /\ UNCHANGED heap
    /\ UNCHANGED tail

\* mc_queue_dequeue: tail keeps pointing to the freed node of a queue of one.
Dequeue ==
    /\ IF size = 0
       THEN out' = NULL /\ UNCHANGED <<heap, head, size, chain>>
       ELSE /\ out' = heap[head].item
            /\ head' = heap[head].next
            /\ heap' = [b \in DOMAIN heap \ {head} |-> heap[b]]
            /\ size' = size - 1
            /\ chain' = Tail(chain)
    /\ UNCHANGED tail

PeekMutant ==     \* mutant: it looks at the wrong end
    /\ out' = IF size = 0 THEN NULL ELSE heap[tail].item
    /\ UNCHANGED <<heap, head, tail, size, chain>>

\* mc_queue_peek
Peek ==
    /\ out' = IF size = 0 THEN NULL ELSE heap[head].item
    /\ UNCHANGED <<heap, head, tail, size, chain>>

Next ==
    \/ \E i \in Items \cup {NULL} : Enqueue(i) \/ EnqueueAtHead(i)
    \/ Dequeue
    \/ Peek

Spec == Init /\ [][Next]_vars

-----------------------------------------------------------------------------

TypeOK ==
    /\ DOMAIN heap \subseteq Addr
    /\ heap \in [DOMAIN heap -> Nodes]
    /\ head \in Pointers
    /\ tail \in Pointers
    /\ size \in 0..(SizeMod - 1)
    /\ out \in Items \cup {NULL}
    /\ chain \in Seq(Addr)

\* The list is well formed: the allocated nodes are those of the queue, each
\* once; they are linked from head to tail; and size counts them.  So no call
\* leaks a node, frees one twice or follows a dangling pointer.
WellLinked ==
    /\ DOMAIN heap = {chain[k] : k \in 1..Len(chain)}
    /\ \A j, k \in 1..Len(chain) : chain[j] = chain[k] => j = k
    /\ \A k \in 1..Len(chain) :
         heap[chain[k]].next = IF k = Len(chain) THEN NULL ELSE chain[k + 1]
    /\ head = IF chain = <<>> THEN NULL ELSE chain[1]
    /\ chain # <<>> => tail = chain[Len(chain)]
    /\ size = Len(chain)

\* The queue of packets the list stands for, and the specification of it.
Contents == [k \in 1..Len(chain) |-> heap[chain[k]].item]

Deque == INSTANCE PacketDeque WITH items <- Contents

\* The list is a double-ended queue: packets leave it in the order queue.h
\* says, none is lost or duplicated, and each call returns the right one.
IsDeque == Deque!Spec

=============================================================================

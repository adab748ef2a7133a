--------------------------- MODULE PacketProofs ---------------------------
(***************************************************************************)
(* Proofs about a packet's way through the firmware.                       *)
(*                                                                         *)
(* PacketQueue: its linked list is well formed and implements PacketDeque, *)
(* for every heap that is smaller than size can count.                     *)
(*                                                                         *)
(* PacketUpload, for every heap, number of packets and size of a batch:    *)
(* types, order and uniqueness of what is published, what gets lost and    *)
(* what is freed.                                                          *)
(***************************************************************************)
EXTENDS PacketQueue, PacketUpload, FiniteSetTheorems, SequenceTheorems, TLAPS

\* WellLinked with what the step lemmas need of types and of the heap's size.
Inv == TypeOK /\ WellLinked /\ Cardinality(DOMAIN heap) = Len(chain)

\* The parts of Inv about the sequence of nodes.
LEMMA ChainFacts ==
  ASSUME Inv
  PROVE  /\ chain \in Seq(Addr) /\ Len(chain) \in Nat
         /\ size = Len(chain) /\ Cardinality(DOMAIN heap) = Len(chain)
         /\ DOMAIN heap = {chain[k] : k \in 1..Len(chain)}
<1>1. chain \in Seq(Addr)
  BY DEF Inv, TypeOK
<1>2. size = Len(chain) /\ DOMAIN heap = {chain[k] : k \in 1..Len(chain)}
  BY DEF Inv, WellLinked
<1>3. Cardinality(DOMAIN heap) = Len(chain)
  BY DEF Inv
<1>4. Len(chain) \in Nat
  BY <1>1
<1> QED
  BY <1>1, <1>2, <1>3, <1>4

\* A heap that has room for one more node is counted without wrapping.
LEMMA Room ==
  ASSUME Inv, NEW a \in Fresh
  PROVE  /\ size + 1 < SizeMod
         /\ (size + 1) % SizeMod = size + 1
         /\ Cardinality(DOMAIN heap \cup {a}) = Len(chain) + 1
<1>1. /\ IsFiniteSet(DOMAIN heap)
      /\ a \notin DOMAIN heap
      /\ DOMAIN heap \cup {a} \subseteq Addr
  BY HeapAssumption, FS_Subset DEF Inv, TypeOK, Fresh
<1>2. Cardinality(DOMAIN heap \cup {a}) = Cardinality(DOMAIN heap) + 1
  BY <1>1, FS_AddElement
<1>3. Cardinality(DOMAIN heap \cup {a}) <= Cardinality(Addr)
  BY <1>1, HeapAssumption, FS_Subset
<1>4. Cardinality(Addr) \in Nat
  BY HeapAssumption, FS_CardinalityType
<1>5. Len(chain) \in Nat /\ size = Len(chain) /\ Cardinality(DOMAIN heap) = Len(chain)
  BY ChainFacts
<1>6. size + 1 \in Nat /\ SizeMod \in Nat /\ size + 1 < SizeMod
  BY <1>2, <1>3, <1>4, <1>5, HeapAssumption
<1>7. (size + 1) % SizeMod = size + 1
  BY <1>6, SMT
<1> QED
  BY <1>2, <1>5, <1>6, <1>7

\* Calls that leave the list alone.
LEMMA SameList ==
  ASSUME Inv, out' \in Items \cup {NULL},
         heap' = heap, head' = head, tail' = tail, size' = size, chain' = chain
  PROVE  Inv'
<1>1. TypeOK'
  BY DEF Inv, TypeOK
<1>2. WellLinked'
  <2>1. WellLinked
    BY DEF Inv
  <2> QED
    BY <2>1 DEF WellLinked
<1>3. Cardinality(DOMAIN heap') = Len(chain')
  BY DEF Inv
<1> QED
  BY <1>1, <1>2, <1>3 DEF Inv

\* What a node stored at a fresh address leaves of the others.
LEMMA StoreFresh ==
  ASSUME Inv, NEW a \in Fresh, NEW n \in Nodes
  PROVE  /\ DOMAIN Store(heap, a, n) = DOMAIN heap \cup {a}
         /\ Store(heap, a, n) \in [DOMAIN heap \cup {a} -> Nodes]
         /\ Store(heap, a, n)[a] = n
         /\ \A k \in 1..Len(chain) : Store(heap, a, n)[chain[k]] = heap[chain[k]]
  BY DEF Inv, TypeOK, WellLinked, Fresh, Store

\* mc_queue_enqueue
LEMMA EnqueueInv ==
  ASSUME Inv, NEW i \in Items \cup {NULL}, Enqueue(i)
  PROVE  Inv'
<1>1. PICK a \in Fresh :
        /\ IF size = 0
           THEN head' = a /\ heap' = Store(heap, a, [next |-> NULL, item |-> i])
           ELSE /\ heap' = [Store(heap, a, [next |-> NULL, item |-> i]) EXCEPT ![tail].next = a]
                /\ head' = head
        /\ tail' = a
        /\ chain' = Append(chain, a)
  BY DEF Enqueue
<1> DEFINE n == [next |-> NULL, item |-> i]
           h == Store(heap, a, n)
<1>2. n \in Nodes /\ n.next = NULL /\ n.item = i
  BY DEF Enqueue, Nodes, Pointers
<1>3. a \in Addr /\ a \notin DOMAIN heap /\ chain \in Seq(Addr) /\ Len(chain) \in Nat
  BY DEF Fresh, Inv, TypeOK
<1>4. size' = Len(chain) + 1 /\ size' < SizeMod /\ size = Len(chain)
  BY Room DEF Enqueue, Inv, WellLinked
<1>5. /\ Len(chain') = Len(chain) + 1
      /\ \A k \in 1..Len(chain) : chain'[k] = chain[k] /\ chain[k] \in Addr
      /\ chain'[Len(chain) + 1] = a
      /\ chain' \in Seq(Addr)
      /\ chain' # <<>>
  BY <1>1, <1>3
<1>6. h \in [DOMAIN heap \cup {a} -> Nodes] /\ DOMAIN h = DOMAIN heap \cup {a}
  BY <1>2, StoreFresh
<1>7. h[a] = n
  BY <1>2, StoreFresh
<1>8. \A k \in 1..Len(chain) : h[chain[k]] = heap[chain[k]]
  <2> HIDE DEF n
  <2> QED
    BY <1>2, StoreFresh
<1>9. CASE size = 0
  <2>1. Len(chain) = 0
    BY <1>3, <1>4, <1>9
  <2>1a. DOMAIN heap = {}
    BY <2>1, ChainFacts
  <2>2. heap' = h /\ head' = a /\ tail' = a /\ out' = out
    BY <1>1, <1>9 DEF Enqueue
  <2>3. TypeOK'
    <3>1. /\ DOMAIN heap' \subseteq Addr
          /\ heap' \in [DOMAIN heap' -> Nodes]
      BY <1>3, <1>6, <2>2 DEF Inv, TypeOK
    <3> QED
      BY <1>3, <1>4, <1>5, <2>2, <3>1, HeapAssumption DEF Inv, TypeOK, Pointers
  <2>4. WellLinked'
    <3>1. Len(chain') = 1 /\ chain'[1] = a
      BY <1>5, <2>1
    <3>2. heap'[a].next = NULL /\ DOMAIN heap' = {a}
      BY <1>2, <1>6, <1>7, <2>1a, <2>2
    <3>3. 1..Len(chain') = {1}
      BY <3>1
    <3>4. DOMAIN heap' = {chain'[k] : k \in 1..Len(chain')}
      BY <3>1, <3>2, <3>3
    <3>5. head' = chain'[1] /\ tail' = chain'[Len(chain')] /\ size' = Len(chain')
      BY <1>4, <2>1, <2>2, <3>1
    <3> QED
      BY <1>5, <3>1, <3>2, <3>3, <3>4, <3>5 DEF WellLinked
  <2>5. Cardinality(DOMAIN heap') = Len(chain')
    BY <1>5, <1>6, <2>2, Room
  <2> QED
    BY <2>3, <2>4, <2>5 DEF Inv
<1>10. CASE size # 0
  <2>1. Len(chain) > 0 /\ chain # <<>> /\ tail = chain[Len(chain)] /\ tail \in DOMAIN heap
    BY <1>3, <1>4, <1>10 DEF Inv, WellLinked
  <2>2. heap' = [h EXCEPT ![tail].next = a] /\ head' = head /\ tail' = a /\ out' = out
    BY <1>1, <1>10 DEF Enqueue
  <2>3. /\ DOMAIN heap' = DOMAIN heap \cup {a}
        /\ heap' \in [DOMAIN heap \cup {a} -> Nodes]
        /\ heap'[tail].next = a
        /\ \A b \in DOMAIN heap' \ {tail} : heap'[b] = h[b]
    BY <1>3, <1>6, <2>1, <2>2 DEF Nodes, Pointers
  <2>4. TypeOK'
    BY <1>3, <1>4, <1>5, <2>2, <2>3, HeapAssumption DEF Inv, TypeOK, Pointers
  <2>5. DOMAIN heap' = {chain'[k] : k \in 1..Len(chain')}
    <3>1. 1..Len(chain') = 1..Len(chain) \cup {Len(chain) + 1}
      BY <1>3, <1>5
    <3>2. {chain'[k] : k \in 1..Len(chain')} = {chain[k] : k \in 1..Len(chain)} \cup {a}
      BY <1>3, <1>5, <3>1
    <3> QED
      BY <2>3, <3>2, ChainFacts
  <2>6. \A j, k \in 1..Len(chain') : chain'[j] = chain'[k] => j = k
    BY <1>3, <1>5 DEF Inv, WellLinked
  <2>7. \A k \in 1..Len(chain') :
          heap'[chain'[k]].next = IF k = Len(chain') THEN NULL ELSE chain'[k + 1]
    <3> SUFFICES ASSUME NEW k \in 1..Len(chain')
                 PROVE  heap'[chain'[k]].next = IF k = Len(chain') THEN NULL ELSE chain'[k + 1]
      OBVIOUS
    <3>1. CASE k = Len(chain) + 1
      BY <1>3, <1>5, <1>7, <2>1, <2>3, <3>1
    <3>2. CASE k = Len(chain)
      BY <1>3, <1>5, <2>1, <2>3, <3>2
    <3>3. CASE k < Len(chain)
      <4>1. k \in 1..Len(chain) /\ k + 1 \in 1..Len(chain) /\ chain[k] # tail /\ chain[k] \in DOMAIN heap
        BY <1>3, <2>1, <3>3 DEF Inv, WellLinked
      <4>2. heap'[chain[k]] = heap[chain[k]]
        BY <1>8, <2>3, <4>1
      <4> QED
        BY <1>3, <1>5, <3>3, <4>1, <4>2 DEF Inv, WellLinked
    <3> QED
      BY <1>3, <1>5, <3>1, <3>2, <3>3
  <2>8. head' = chain'[1]
    BY <1>3, <1>5, <2>1, <2>2 DEF Inv, WellLinked
  <2>9. Cardinality(DOMAIN heap') = Len(chain')
    BY <1>5, <2>3, Room
  <2> QED
    BY <1>1, <1>4, <1>5, <2>4, <2>5, <2>6, <2>7, <2>8, <2>9 DEF Inv, WellLinked
<1> QED
  BY <1>9, <1>10

\* mc_queue_enqueue_at_head of a queue that is not empty (mc_queue_enqueue does
\* the rest)
LEMMA EnqueueAtHeadInv ==
  ASSUME Inv, NEW i \in Items \cup {NULL}, EnqueueAtHead(i)
  PROVE  Inv'
<1>1. CASE size = 0
  BY <1>1, EnqueueInv DEF EnqueueAtHead
<1>2. CASE size # 0
  <2>1. PICK a \in Fresh :
          /\ heap' = Store(heap, a, [next |-> head, item |-> i])
          /\ head' = a
          /\ chain' = <<a>> \o chain
    BY <1>2 DEF EnqueueAtHead
  <2> DEFINE n == [next |-> head, item |-> i]
  <2>2. n \in Nodes /\ n.next = head
    BY DEF EnqueueAtHead, Nodes, Inv, TypeOK
  <2>3. a \in Addr /\ a \notin DOMAIN heap /\ chain \in Seq(Addr) /\ Len(chain) \in Nat
    BY DEF Fresh, Inv, TypeOK
  <2>4. /\ size' = Len(chain) + 1 /\ size' < SizeMod /\ size = Len(chain)
        /\ tail' = tail /\ out' = out
    BY <1>2, Room DEF EnqueueAtHead, Inv, WellLinked
  <2>5. /\ <<a>> \in Seq(Addr) /\ Len(<<a>>) = 1 /\ <<a>>[1] = a
    BY <2>3
  <2>6. /\ chain' \in Seq(Addr)
        /\ Len(chain') = Len(chain) + 1
        /\ chain'[1] = a
        /\ \A k \in 1..Len(chain) : chain'[k + 1] = chain[k]
    BY <2>1, <2>3, <2>5, ConcatProperties
  <2>7. /\ heap' \in [DOMAIN heap \cup {a} -> Nodes]
        /\ DOMAIN heap' = DOMAIN heap \cup {a}
        /\ heap'[a] = n
    BY <2>1, <2>2, StoreFresh
  <2>8. \A k \in 1..Len(chain) : heap'[chain[k]] = heap[chain[k]]
    <3> HIDE DEF n
    <3> QED
      BY <2>1, <2>2, StoreFresh DEF n
  <2>9. /\ Len(chain) > 0 /\ chain # <<>> /\ head = chain[1]
        /\ tail = chain[Len(chain)] /\ tail = chain'[Len(chain')]
    BY <1>2, <2>3, <2>4, <2>6 DEF Inv, WellLinked
  <2>10. \A k \in 1..Len(chain') : k # 1 => (k - 1 \in 1..Len(chain) /\ chain'[k] = chain[k - 1])
    <3> SUFFICES ASSUME NEW k \in 1..Len(chain'), k # 1
                 PROVE  k - 1 \in 1..Len(chain) /\ chain'[k] = chain[k - 1]
      OBVIOUS
    <3>1. k - 1 \in 1..Len(chain) /\ (k - 1) + 1 = k
      BY <2>3, <2>6
    <3> QED
      BY <2>6, <3>1
  <2>11. TypeOK'
    <3>1. DOMAIN heap' \subseteq Addr /\ heap' \in [DOMAIN heap' -> Nodes]
      BY <2>3, <2>7 DEF Inv, TypeOK
    <3> QED
      BY <2>1, <2>3, <2>4, <2>6, <3>1, HeapAssumption DEF Inv, TypeOK, Pointers
  <2>12. DOMAIN heap' = {chain'[k] : k \in 1..Len(chain')}
    <3>1. ASSUME NEW b \in DOMAIN heap' PROVE \E k \in 1..Len(chain') : b = chain'[k]
      <4>1. CASE b = a
        BY <2>3, <2>6, <4>1
      <4>2. CASE b # a
        <5>1. PICK k \in 1..Len(chain) : b = chain[k]
          BY <2>7, <4>2, ChainFacts
        <5> QED
          BY <2>3, <2>6, <5>1
      <4> QED
        BY <4>1, <4>2
    <3>2. ASSUME NEW k \in 1..Len(chain') PROVE chain'[k] \in DOMAIN heap'
      <4>1. chain'[k] = a \/ \E j \in 1..Len(chain) : chain'[k] = chain[j]
        BY <2>6, <2>10
      <4> QED
        BY <2>7, <4>1, ChainFacts
    <3> QED
      BY <3>1, <3>2
  <2>13. \A j, k \in 1..Len(chain') : chain'[j] = chain'[k] => j = k
    <3>1. \A k \in 1..Len(chain) : chain[k] # a
      BY <2>3, ChainFacts
    <3>2. \A j, k \in 1..Len(chain) : chain[j] = chain[k] => j = k
      BY DEF Inv, WellLinked
    <3> SUFFICES ASSUME NEW j \in 1..Len(chain'), NEW k \in 1..Len(chain'), chain'[j] = chain'[k]
                 PROVE  j = k
      OBVIOUS
    <3>3. CASE j # 1 /\ k # 1
      <4>1. chain[j - 1] = chain[k - 1] /\ j - 1 \in 1..Len(chain) /\ k - 1 \in 1..Len(chain)
        BY <2>10, <3>3
      <4>2. j - 1 = k - 1
        BY <3>2, <4>1
      <4> QED
        BY <2>3, <2>6, <4>2
    <3>4. CASE j = 1 \/ k = 1
      BY <2>6, <2>10, <3>1, <3>4
    <3> QED
      BY <3>3, <3>4
  <2>14. \A k \in 1..Len(chain') :
           heap'[chain'[k]].next = IF k = Len(chain') THEN NULL ELSE chain'[k + 1]
    <3> SUFFICES ASSUME NEW k \in 1..Len(chain')
                 PROVE  heap'[chain'[k]].next = IF k = Len(chain') THEN NULL ELSE chain'[k + 1]
      OBVIOUS
    <3>1. CASE k = 1
      <4>1. heap'[chain'[k]].next = chain[1]
        BY <2>2, <2>6, <2>7, <2>9, <3>1
      <4>2. chain'[2] = chain[1] /\ Len(chain') # 1
        BY <2>3, <2>6, <2>9
      <4> QED
        BY <3>1, <4>1, <4>2
    <3>2. CASE k # 1
      <4> DEFINE j == k - 1
      <4>1. j \in 1..Len(chain) /\ k = j + 1 /\ chain'[k] = chain[j]
        BY <2>10, <3>2
      <4> HIDE DEF j
      <4>2. heap'[chain'[k]].next = IF j = Len(chain) THEN NULL ELSE chain[j + 1]
        BY <2>8, <4>1 DEF Inv, WellLinked
      <4>3. j # Len(chain) => chain'[k + 1] = chain[j + 1]
        BY <2>3, <2>6, <4>1
      <4> QED
        BY <2>3, <2>6, <4>1, <4>2, <4>3
    <3> QED
      BY <3>1, <3>2
  <2>15. Cardinality(DOMAIN heap') = Len(chain')
    BY <2>6, <2>7, Room
  <2>16. chain' # <<>>
    BY <2>3, <2>6
  <2> QED
    BY <2>1, <2>4, <2>6, <2>9, <2>11, <2>12, <2>13, <2>14, <2>15, <2>16 DEF Inv, WellLinked
<1> QED
  BY <1>1, <1>2

\* mc_queue_dequeue
LEMMA DequeueInv ==
  ASSUME Inv, Dequeue
  PROVE  Inv'
<1>1. CASE size = 0
  <2>1. heap' = heap /\ head' = head /\ tail' = tail /\ size' = size /\ chain' = chain
    BY <1>1 DEF Dequeue
  <2>2. out' \in Items \cup {NULL}
    BY <1>1 DEF Dequeue
  <2> QED
    BY <2>1, <2>2, SameList
<1>2. CASE size # 0
  <2>1. chain \in Seq(Addr) /\ Len(chain) \in Nat \ {0} /\ size = Len(chain) /\ chain # <<>>
    BY <1>2, ChainFacts
  <2>2. /\ head = chain[1] /\ head \in DOMAIN heap /\ heap[head] \in Nodes
        /\ heap[head].next = IF Len(chain) = 1 THEN NULL ELSE chain[2]
    BY <2>1 DEF Inv, TypeOK, WellLinked
  <2>3. /\ heap' = [b \in DOMAIN heap \ {head} |-> heap[b]]
        /\ out' = heap[head].item /\ head' = heap[head].next
        /\ size' = size - 1 /\ chain' = Tail(chain) /\ tail' = tail
    BY <1>2 DEF Dequeue
  <2>4. /\ chain' \in Seq(Addr) /\ Len(chain') = Len(chain) - 1
        /\ \A k \in 1..Len(chain') : chain'[k] = chain[k + 1] /\ k + 1 \in 1..Len(chain)
    BY <2>1, <2>3, HeadTailProperties
  <2>5. /\ DOMAIN heap' = DOMAIN heap \ {head}
        /\ \A b \in DOMAIN heap' : heap'[b] = heap[b]
    BY <2>3
  <2>6. \A j, k \in 1..Len(chain) : chain[j] = chain[k] => j = k
    BY DEF Inv, WellLinked
  <2>7. TypeOK'
    <3>1. DOMAIN heap' \subseteq Addr /\ heap' \in [DOMAIN heap' -> Nodes]
      BY <2>3, <2>5 DEF Inv, TypeOK
    <3> QED
      <4>1. size' \in 0..(SizeMod - 1)
        BY <2>1, <2>3, HeapAssumption DEF Inv, TypeOK
      <4>2. head' \in Pointers /\ out' \in Items \cup {NULL} /\ tail' \in Pointers
        BY <2>2, <2>3 DEF Inv, TypeOK, Nodes
      <4> QED
        BY <2>4, <3>1, <4>1, <4>2 DEF TypeOK
  <2>8. DOMAIN heap' = {chain'[k] : k \in 1..Len(chain')}
    <3>1. ASSUME NEW b \in DOMAIN heap' PROVE \E k \in 1..Len(chain') : b = chain'[k]
      <4>1. PICK k \in 1..Len(chain) : b = chain[k]
        BY <2>5, ChainFacts
      <4>2. k # 1
        BY <2>2, <2>5, <4>1
      <4>3. k - 1 \in 1..Len(chain') /\ (k - 1) + 1 = k
        BY <2>1, <2>4, <4>2
      <4> QED
        BY <2>4, <4>1, <4>3
    <3>2. ASSUME NEW k \in 1..Len(chain') PROVE chain'[k] \in DOMAIN heap'
      <4>1. chain'[k] = chain[k + 1] /\ k + 1 \in 1..Len(chain) /\ k + 1 # 1 /\ 1 \in 1..Len(chain)
        BY <2>1, <2>4
      <4>2. chain[k + 1] # head /\ chain[k + 1] \in DOMAIN heap
        BY <2>2, <2>6, <4>1, ChainFacts
      <4> QED
        BY <2>5, <4>1, <4>2
    <3> QED
      BY <3>1, <3>2
  <2>9. \A j, k \in 1..Len(chain') : chain'[j] = chain'[k] => j = k
    <3> SUFFICES ASSUME NEW j \in 1..Len(chain'), NEW k \in 1..Len(chain'), chain'[j] = chain'[k]
                 PROVE  j = k
      OBVIOUS
    <3>1. j + 1 = k + 1
      BY <2>4, <2>6
    <3> QED
      BY <2>4, <3>1
  <2>10. \A k \in 1..Len(chain') :
           heap'[chain'[k]].next = IF k = Len(chain') THEN NULL ELSE chain'[k + 1]
    <3> SUFFICES ASSUME NEW k \in 1..Len(chain')
                 PROVE  heap'[chain'[k]].next = IF k = Len(chain') THEN NULL ELSE chain'[k + 1]
      OBVIOUS
    <3>1. /\ chain'[k] = chain[k + 1] /\ k + 1 \in 1..Len(chain)
          /\ heap'[chain'[k]] = heap[chain[k + 1]]
      BY <2>4, <2>5, <2>8
    <3>2. heap[chain[k + 1]].next = IF k + 1 = Len(chain) THEN NULL ELSE chain[(k + 1) + 1]
      BY <3>1 DEF Inv, WellLinked
    <3>3. k # Len(chain') => chain'[k + 1] = chain[(k + 1) + 1]
      BY <2>1, <2>4
    <3>4. k = Len(chain') <=> k + 1 = Len(chain)
      BY <2>1, <2>4
    <3> QED
      BY <3>1, <3>2, <3>3, <3>4
  <2>11. head' = IF chain' = <<>> THEN NULL ELSE chain'[1]
    <3>1. CASE Len(chain) = 1
      BY <2>1, <2>2, <2>3, <2>4, <3>1, EmptySeq
    <3>2. CASE Len(chain) # 1
      <4>1. Len(chain') \in Nat /\ Len(chain') # 0 /\ 1 \in 1..Len(chain')
        BY <2>1, <2>4, <3>2
      <4>2. chain' # <<>>
        BY <4>1, EmptySeq
      <4>3. head' = chain[2] /\ chain'[1] = chain[2]
        BY <2>2, <2>3, <2>4, <3>2, <4>1
      <4> QED
        BY <4>2, <4>3
    <3> QED
      BY <3>1, <3>2
  <2>12. chain' # <<>> => tail' = chain'[Len(chain')]
    <3> SUFFICES ASSUME chain' # <<>> PROVE tail' = chain'[Len(chain')]
      OBVIOUS
    <3>1. Len(chain') \in 1..Len(chain') /\ Len(chain') + 1 = Len(chain)
      BY <2>1, <2>4, EmptySeq
    <3> QED
      BY <2>1, <2>3, <2>4, <3>1 DEF Inv, WellLinked
  <2>13. Cardinality(DOMAIN heap') = Len(chain')
    <3>1. IsFiniteSet(DOMAIN heap)
      BY HeapAssumption, FS_Subset DEF Inv, TypeOK
    <3>2. Cardinality(DOMAIN heap \ {head}) = Cardinality(DOMAIN heap) - 1
      BY <2>2, <3>1, FS_RemoveElement
    <3> QED
      BY <2>4, <2>5, <3>2, ChainFacts
  <2> QED
    BY <2>1, <2>3, <2>4, <2>7, <2>8, <2>9, <2>10, <2>11, <2>12, <2>13 DEF Inv, WellLinked
<1> QED
  BY <1>1, <1>2

\* Every call keeps the list well formed (queue.c).
THEOREM ListInvariant == Spec => []Inv
<1>1. Init => Inv
  <2> SUFFICES ASSUME Init PROVE Inv
    OBVIOUS
  <2>1. DOMAIN heap = {} /\ Len(chain) = 0 /\ chain \in Seq(Addr) /\ 1..Len(chain) = {}
    BY DEF Init
  <2>2. Cardinality(DOMAIN heap) = 0
    BY <2>1, FS_EmptySet
  <2>3. SizeMod > 0
    BY HeapAssumption, FS_CardinalityType
  <2>4. heap \in [DOMAIN heap -> Nodes]
    BY <2>1 DEF Init
  <2> QED
    BY <2>1, <2>2, <2>3, <2>4, HeapAssumption DEF Init, Inv, TypeOK, WellLinked, Pointers
<1>2. Inv /\ [Next]_vars => Inv'
  <2> SUFFICES ASSUME Inv, [Next]_vars PROVE Inv'
    OBVIOUS
  <2>1. ASSUME NEW i \in Items \cup {NULL}, Enqueue(i) PROVE Inv'
    BY <2>1, EnqueueInv
  <2>2. ASSUME NEW i \in Items \cup {NULL}, EnqueueAtHead(i) PROVE Inv'
    BY <2>2, EnqueueAtHeadInv
  <2>3. CASE Dequeue
    BY <2>3, DequeueInv
  <2>4. CASE Peek
    <3>1. heap' = heap /\ head' = head /\ tail' = tail /\ size' = size /\ chain' = chain
      BY <2>4 DEF Peek
    <3>2. out' \in Items \cup {NULL}
      <4>1. CASE size = 0
        BY <2>4, <4>1 DEF Peek
      <4>2. CASE size # 0
        <5>1. head \in DOMAIN heap
          BY <4>2 DEF Inv, TypeOK, WellLinked
        <5> QED
          BY <2>4, <4>2, <5>1 DEF Peek, Inv, TypeOK, Nodes
      <4> QED
        BY <4>1, <4>2
    <3> QED
      BY <3>1, <3>2, SameList
  <2>5. CASE UNCHANGED vars
    <3>1. out \in Items \cup {NULL}
      BY DEF Inv, TypeOK
    <3> QED
      BY <2>5, <3>1, SameList DEF vars
  <2> QED
    BY <2>1, <2>2, <2>3, <2>4, <2>5 DEF Next
<1> QED
  BY <1>1, <1>2, PTL DEF Spec

\* The named properties of the runs.
THEOREM TypeCorrect == Spec => []TypeOK
  BY ListInvariant, PTL DEF Inv

\* packet_queue.c: first, last and the next pointers always form one list of
\* the packets counted.
THEOREM AlwaysWellLinked == Spec => []WellLinked
  BY ListInvariant, PTL DEF Inv

-----------------------------------------------------------------------------

\* The sequence of packets the list stands for.
LEMMA ContentsSeq ==
  ASSUME Inv
  PROVE  /\ Contents \in Seq(Items) /\ Len(Contents) = Len(chain)
         /\ \A k \in 1..Len(chain) : Contents[k] = heap[chain[k]].item
<1>1. \A k \in 1..Len(chain) : heap[chain[k]].item \in Items
  <2> SUFFICES ASSUME NEW k \in 1..Len(chain) PROVE heap[chain[k]].item \in Items
    OBVIOUS
  <2>1. chain[k] \in DOMAIN heap
    BY ChainFacts
  <2> QED
    BY <2>1 DEF Inv, TypeOK, Nodes
<1>2. Len(chain) \in Nat
  BY ChainFacts
<1>3. Contents \in [1..Len(chain) -> Items]
  BY <1>1 DEF Contents
<1>4. Contents \in Seq(Items)
  BY <1>2, <1>3, SeqDef
<1>5. Len(Contents) = Len(chain)
  BY <1>2, <1>3, <1>4, LenProperties
<1> QED
  BY <1>4, <1>5 DEF Contents

\* The same after a step.
LEMMA ContentsSeqNext ==
  ASSUME Inv'
  PROVE  /\ Contents' \in Seq(Items) /\ Len(Contents') = Len(chain')
         /\ \A k \in 1..Len(chain') : Contents'[k] = heap'[chain'[k]].item
<1>1. Contents' = [k \in 1..Len(chain') |-> heap'[chain'[k]].item]
  BY DEF Contents
<1>2. \A k \in 1..Len(chain') : heap'[chain'[k]].item \in Items
  <2> SUFFICES ASSUME NEW k \in 1..Len(chain') PROVE heap'[chain'[k]].item \in Items
    OBVIOUS
  <2>1. chain'[k] \in DOMAIN heap'
    BY DEF Inv, WellLinked
  <2> QED
    BY <2>1 DEF Inv, TypeOK, Nodes
<1>3. Len(chain') \in Nat
  BY DEF Inv, TypeOK
<1>4. Contents' \in [1..Len(chain') -> Items]
  BY <1>1, <1>2
<1>5. Contents' \in Seq(Items)
  BY <1>3, <1>4, SeqDef
<1>6. Len(Contents') = Len(chain')
  BY <1>3, <1>4, <1>5, LenProperties
<1> QED
  BY <1>1, <1>5, <1>6

\* The first packet is the one head points to.
LEMMA FirstPacket ==
  ASSUME Inv
  PROVE  Deque!First = IF size = 0 THEN NULL ELSE heap[head].item
<1>1. CASE size = 0
  <2>1. Contents = <<>>
    BY <1>1, ContentsSeq, ChainFacts, EmptySeq
  <2> QED
    BY <1>1, <2>1 DEF Deque!First
<1>2. CASE size # 0
  <2>1. Len(chain) \in Nat \ {0} /\ 1 \in 1..Len(chain) /\ chain # <<>>
    BY <1>2, ChainFacts, EmptySeq
  <2>2. head = chain[1]
    BY <2>1 DEF Inv, WellLinked
  <2>3. Contents # <<>> /\ Head(Contents) = heap[head].item
    BY <2>1, <2>2, ContentsSeq, EmptySeq
  <2> QED
    BY <1>2, <2>3 DEF Deque!First
<1> QED
  BY <1>1, <1>2

\* mc_queue_enqueue adds at the tail.
LEMMA EnqueueStep ==
  ASSUME Inv, Inv', NEW i \in Items \cup {NULL}, Enqueue(i)
  PROVE  i \in Items /\ Deque!Enqueue(i)
<1>1. PICK a \in Fresh :
        /\ IF size = 0
           THEN heap' = Store(heap, a, [next |-> NULL, item |-> i])
           ELSE heap' = [Store(heap, a, [next |-> NULL, item |-> i]) EXCEPT ![tail].next = a]
        /\ chain' = Append(chain, a)
  BY DEF Enqueue
<1> DEFINE n == [next |-> NULL, item |-> i]
           h == Store(heap, a, n)
<1>2. i \in Items /\ n \in Nodes /\ n.item = i
  BY DEF Enqueue, Nodes, Pointers
<1>3a. h \in [DOMAIN heap \cup {a} -> Nodes] /\ h[a] = n
  BY <1>2, StoreFresh
<1>3b. \A k \in 1..Len(chain) : h[chain[k]] = heap[chain[k]]
  <2> HIDE DEF n
  <2>1. \A k \in 1..Len(chain) : Store(heap, a, n)[chain[k]] = heap[chain[k]]
    BY <1>2, StoreFresh DEF n
  <2> QED
    BY <2>1
<1>3. /\ h \in [DOMAIN heap \cup {a} -> Nodes] /\ h[a] = n
      /\ \A k \in 1..Len(chain) : h[chain[k]] = heap[chain[k]]
  BY <1>3a, <1>3b
<1>4. \A b \in DOMAIN heap \cup {a} : heap'[b].item = h[b].item
  <2>1. CASE size = 0
    BY <1>1, <2>1
  <2>2. CASE size # 0
    BY <1>1, <1>3, <2>2 DEF Nodes
  <2> QED
    BY <2>1, <2>2
<1>5. /\ a \in Addr /\ chain \in Seq(Addr) /\ Len(chain) \in Nat
      /\ Len(chain') = Len(chain) + 1
      /\ chain'[Len(chain) + 1] = a
      /\ \A k \in 1..Len(chain) : chain'[k] = chain[k] /\ chain[k] \in DOMAIN heap
  <2>1. a \in Addr /\ chain \in Seq(Addr) /\ Len(chain) \in Nat
    BY ChainFacts DEF Fresh
  <2>2. \A k \in 1..Len(chain) : chain[k] \in DOMAIN heap
    BY ChainFacts
  <2> QED
    BY <1>1, <2>1, <2>2, AppendProperties
<1>6. /\ Contents' \in Seq(Items) /\ Len(Contents') = Len(chain')
      /\ \A k \in 1..Len(chain') : Contents'[k] = heap'[chain'[k]].item
  BY ContentsSeqNext
<1>7. Contents \in Seq(Items) /\ Append(Contents, i) \in Seq(Items)
  BY <1>2, ContentsSeq
<1>8. /\ Len(Append(Contents, i)) = Len(chain) + 1
      /\ Append(Contents, i)[Len(chain) + 1] = i
      /\ \A k \in 1..Len(chain) : Append(Contents, i)[k] = heap[chain[k]].item
  BY <1>2, <1>5, ContentsSeq, AppendProperties
<1>9. \A k \in 1..Len(Contents') : Contents'[k] = Append(Contents, i)[k]
  <2> SUFFICES ASSUME NEW k \in 1..Len(chain') PROVE Contents'[k] = Append(Contents, i)[k]
    BY <1>6
  <2>1. CASE k = Len(chain) + 1
    BY <1>2, <1>3, <1>4, <1>5, <1>6, <1>8, <2>1
  <2>2. CASE k \in 1..Len(chain)
    BY <1>3, <1>4, <1>5, <1>6, <1>8, <2>2
  <2>3. k = Len(chain) + 1 \/ k \in 1..Len(chain)
    BY <1>5
  <2> QED
    BY <2>1, <2>2, <2>3
<1>10. Contents' = Append(Contents, i)
  BY <1>5, <1>6, <1>7, <1>8, <1>9, SeqEqual
<1> QED
  BY <1>2, <1>10 DEF Deque!Enqueue, Enqueue

\* mc_queue_enqueue_at_head adds at the head.
LEMMA EnqueueAtHeadStep ==
  ASSUME Inv, Inv', NEW i \in Items \cup {NULL}, EnqueueAtHead(i)
  PROVE  i \in Items /\ (Deque!Enqueue(i) \/ Deque!EnqueueAtHead(i))
<1>1. CASE size = 0
  <2>1. Enqueue(i)
    BY <1>1 DEF EnqueueAtHead
  <2> QED
    BY <2>1, EnqueueStep
<1>2. CASE size # 0
  <2>1. PICK a \in Fresh :
          /\ heap' = Store(heap, a, [next |-> head, item |-> i])
          /\ chain' = <<a>> \o chain
    BY <1>2 DEF EnqueueAtHead
  <2> DEFINE n == [next |-> head, item |-> i]
  <2>2. n \in Nodes /\ n.item = i /\ i \in Items /\ out' = out
    BY <1>2 DEF EnqueueAtHead, Nodes, Inv, TypeOK
  <2>3. heap'[a] = n
    BY <2>1, <2>2, StoreFresh
  <2>4. \A k \in 1..Len(chain) : heap'[chain[k]] = heap[chain[k]]
    <3> HIDE DEF n
    <3> QED
      BY <2>1, <2>2, StoreFresh DEF n
  <2>5. /\ <<a>> \in Seq(Addr) /\ Len(<<a>>) = 1 /\ <<a>>[1] = a
        /\ chain \in Seq(Addr) /\ Len(chain) \in Nat
    BY ChainFacts DEF Fresh
  <2>6. /\ Len(chain') = Len(chain) + 1 /\ chain'[1] = a
        /\ \A k \in 1..Len(chain) : chain'[k + 1] = chain[k]
    BY <2>1, <2>5, ConcatProperties
  <2>7. <<i>> \in Seq(Items) /\ Len(<<i>>) = 1 /\ <<i>>[1] = i
    BY <2>2
  <2> DEFINE new == <<i>> \o Contents
  <2>8. /\ new \in Seq(Items) /\ Len(new) = Len(chain) + 1 /\ new[1] = i
        /\ \A k \in 1..Len(chain) : new[k + 1] = Contents[k]
    BY <2>5, <2>7, ContentsSeq, ConcatProperties
  <2>9. \A k \in 1..Len(Contents') : Contents'[k] = new[k]
    <3> SUFFICES ASSUME NEW k \in 1..Len(chain') PROVE Contents'[k] = new[k]
      BY ContentsSeqNext
    <3>1. CASE k = 1
      BY <2>2, <2>3, <2>5, <2>6, <2>8, <3>1, ContentsSeqNext
    <3>2. CASE k # 1
      <4>1. PICK j \in 1..Len(chain) : k = j + 1
        <5>1. k - 1 \in 1..Len(chain) /\ k = (k - 1) + 1
          BY <2>5, <2>6, <3>2
        <5> QED
          BY <5>1
      <4>2. Contents'[k] = heap'[chain[j]].item
        BY <2>6, <4>1, ContentsSeqNext
      <4>3. new[k] = heap[chain[j]].item
        BY <2>8, <4>1, ContentsSeq
      <4> QED
        BY <2>4, <4>2, <4>3
    <3> QED
      BY <3>1, <3>2
  <2>10. Contents' = new
    <3>1. Contents' \in Seq(Items) /\ Len(Contents') = Len(new)
      BY <2>6, <2>8, ContentsSeqNext
    <3> HIDE DEF new
    <3> QED
      BY <2>8, <2>9, <3>1, SeqEqual
  <2> QED
    BY <2>2, <2>10 DEF Deque!EnqueueAtHead
<1> QED
  BY <1>1, <1>2

\* mc_queue_dequeue takes the first packet.
LEMMA DequeueStep ==
  ASSUME Inv, Inv', Dequeue
  PROVE  Deque!Dequeue
<1>1. out' = Deque!First
  BY FirstPacket DEF Dequeue
<1>2. CASE size = 0
  <2>1. Contents = <<>>
    BY <1>2, ContentsSeq, ChainFacts, EmptySeq
  <2>2. Contents' = Contents
    BY <1>2 DEF Dequeue, Contents
  <2> QED
    BY <1>1, <2>1, <2>2 DEF Deque!Dequeue
<1>3. CASE size # 0
  <2>1. Len(chain) \in Nat \ {0} /\ 1 \in 1..Len(chain) /\ chain \in Seq(Addr) /\ chain # <<>>
    BY <1>3, ChainFacts, EmptySeq
  <2>2. /\ chain' = Tail(chain)
        /\ \A b \in DOMAIN heap' : heap'[b] = heap[b]
    BY <1>3 DEF Dequeue
  <2>3. /\ Len(chain') = Len(chain) - 1
        /\ \A k \in 1..Len(chain') : chain'[k] = chain[k + 1] /\ k + 1 \in 1..Len(chain)
    BY <2>1, <2>2, HeadTailProperties
  <2>4. Contents # <<>>
    BY <2>1, ContentsSeq, EmptySeq
  <2>5. /\ Tail(Contents) \in Seq(Items) /\ Len(Tail(Contents)) = Len(chain) - 1
        /\ \A k \in 1..(Len(chain) - 1) : Tail(Contents)[k] = Contents[k + 1]
    BY <2>4, ContentsSeq, HeadTailProperties
  <2>6. \A k \in 1..Len(Contents') : Contents'[k] = Tail(Contents)[k]
    <3> SUFFICES ASSUME NEW k \in 1..Len(chain') PROVE Contents'[k] = Tail(Contents)[k]
      BY ContentsSeqNext
    <3>1. Contents'[k] = heap'[chain'[k]].item /\ chain'[k] \in DOMAIN heap'
      BY ContentsSeqNext DEF Inv, WellLinked
    <3>2. Contents'[k] = heap[chain[k + 1]].item
      BY <2>2, <2>3, <3>1
    <3>3. Tail(Contents)[k] = heap[chain[k + 1]].item
      BY <2>3, <2>5, ContentsSeq
    <3> QED
      BY <3>2, <3>3
  <2>7. Contents' = Tail(Contents)
    BY <2>3, <2>5, <2>6, ContentsSeqNext, SeqEqual
  <2> QED
    BY <1>1, <2>4, <2>7 DEF Deque!Dequeue
<1> QED
  BY <1>2, <1>3

\* The linked list is a double-ended queue (queue.c against queue.h).
THEOREM Refinement == Spec => IsDeque
<1>1. Init => Deque!Init
  BY DEF Init, Deque!Init, Contents
<1>2. Inv /\ Inv' /\ [Next]_vars => [Deque!Next]_(Deque!vars)
  <2> SUFFICES ASSUME Inv, Inv', [Next]_vars PROVE [Deque!Next]_(Deque!vars)
    OBVIOUS
  <2>1. ASSUME NEW i \in Items \cup {NULL}, Enqueue(i) PROVE Deque!Next
    BY <2>1, EnqueueStep DEF Deque!Next
  <2>2. ASSUME NEW i \in Items \cup {NULL}, EnqueueAtHead(i) PROVE Deque!Next
    BY <2>2, EnqueueAtHeadStep DEF Deque!Next
  <2>3. CASE Dequeue
    BY <2>3, DequeueStep DEF Deque!Next
  <2>4. CASE Peek
    <3>1. out' = Deque!First
      BY <2>4, FirstPacket DEF Peek
    <3>2. Contents' = Contents
      BY <2>4 DEF Peek, Contents
    <3> QED
      BY <3>1, <3>2 DEF Deque!Next, Deque!Peek
  <2>5. CASE UNCHANGED vars
    BY <2>5 DEF vars, Deque!vars, Contents
  <2> QED
    BY <2>1, <2>2, <2>3, <2>4, <2>5 DEF Next
<1> QED
  BY <1>1, <1>2, ListInvariant, PTL DEF Spec, IsDeque, Deque!Spec

-----------------------------------------------------------------------------
(***************************************************************************)
(* PacketUpload.                                                           *)
(***************************************************************************)

\* What the two halves of an increasing sequence have to satisfy.
Below(s, t) == \A j \in 1..Len(s), k \in 1..Len(t) : s[j] < t[k]

UpTo(s, n) == \A k \in 1..Len(s) : s[k] <= n

\* SentOnceInOrder, taken apart, with the packets not yet made kept above.
IInv ==
    /\ UploadTypeOK
    /\ Increasing(sent)
    /\ Increasing(queue)
    /\ Below(sent, queue)
    /\ UpTo(sent, made)
    /\ UpTo(queue, made)

-----------------------------------------------------------------------------
(* Sequences of packets *)

\* A concatenation is increasing if its halves are and the first is below the
\* second.
LEMMA ConcatIncreasing ==
    ASSUME NEW s \in Seq(Nat), NEW t \in Seq(Nat),
           Increasing(s), Increasing(t), Below(s, t)
    PROVE  Increasing(s \o t)
<1>1. SUFFICES ASSUME NEW j \in 1..Len(s \o t), NEW k \in 1..Len(s \o t), j < k
               PROVE  (s \o t)[j] < (s \o t)[k]
  BY DEF Increasing
<1>2. Len(s \o t) = Len(s) + Len(t) /\ Len(s) \in Nat /\ Len(t) \in Nat
  OBVIOUS
<1>3. \A m \in 1..Len(s \o t) :
        (s \o t)[m] = IF m <= Len(s) THEN s[m] ELSE t[m - Len(s)]
  BY <1>2
<1>4. CASE k <= Len(s)
  BY <1>1, <1>2, <1>3, <1>4 DEF Increasing
<1>5. CASE j <= Len(s) /\ k > Len(s)
  <2>1. j \in 1..Len(s) /\ k - Len(s) \in 1..Len(t)
    BY <1>2, <1>5
  <2> QED
    BY <2>1, <1>2, <1>3, <1>5 DEF Below
<1>6. CASE j > Len(s)
  <2>1. j - Len(s) \in 1..Len(t) /\ k - Len(s) \in 1..Len(t) /\ j - Len(s) < k - Len(s)
    BY <1>1, <1>2, <1>6
  <2>2. t[j - Len(s)] < t[k - Len(s)]
    BY <2>1 DEF Increasing
  <2>3. (s \o t)[j] = t[j - Len(s)] /\ (s \o t)[k] = t[k - Len(s)]
    BY <1>1, <1>2, <1>3, <1>6
  <2> QED
    BY <2>2, <2>3
<1> QED
  BY <1>4, <1>5, <1>6, <1>1, <1>2

\* Packets can be compared.
LEMMA PacketsAreNumbers ==
    ASSUME NEW s \in Seq(Packets)
    PROVE  s \in Seq(Nat) /\ \A k \in 1..Len(s) : s[k] \in Nat
<1>1. Len(s) \in Nat /\ \A k \in 1..Len(s) : s[k] \in Packets
  OBVIOUS
<1>2. \A p \in Packets : p \in Nat
  BY DEF Packets
<1>3. \A k \in 1..Len(s) : s[k] \in Nat
  BY <1>1, <1>2
<1>4. s = [k \in 1..Len(s) |-> s[k]]
  OBVIOUS
<1>5. [k \in 1..Len(s) |-> s[k]] \in Seq(Nat)
  BY <1>1, <1>3
<1> QED
  BY <1>3, <1>4, <1>5

\* A stretch of a sequence is a sequence of the same packets.
LEMMA Stretch ==
    ASSUME NEW S, NEW s \in Seq(S), NEW a \in 1..(Len(s) + 1), NEW b \in 0..Len(s),
           a <= b + 1
    PROVE  /\ SubSeq(s, a, b) \in Seq(S)
           /\ Len(SubSeq(s, a, b)) = b - a + 1
           /\ \A k \in 1..(b - a + 1) : SubSeq(s, a, b)[k] = s[a + k - 1]
           /\ \A k \in 1..(b - a + 1) : a + k - 1 \in 1..Len(s)
<1>1. Len(s) \in Nat
  OBVIOUS
<1>2. \A k \in a..b : s[k] \in S
  BY <1>1
<1>3. Len(SubSeq(s, a, b)) = b - a + 1
  BY <1>1
<1>4. \A k \in 1..(b - a + 1) : SubSeq(s, a, b)[k] = s[a + k - 1]
  BY <1>1
<1>5. \A k \in 1..(b - a + 1) : a + k - 1 \in 1..Len(s)
  BY <1>1
<1>6. SubSeq(s, a, b) \in Seq(S)
  BY <1>1, <1>2
<1> QED
  BY <1>3, <1>4, <1>5, <1>6

-----------------------------------------------------------------------------
(* What mc_network_upload takes out of the queue *)

\* The batch and the rest are the two stretches of the queue, and what is
\* published is the beginning of the batch.
LEMMA Split ==
    ASSUME UploadTypeOK
    PROVE  /\ Batch \in Seq(Packets) /\ Rest \in Seq(Packets)
           /\ Sending \in Seq(Packets)
           /\ Len(Batch) \in 0..Len(queue) /\ Len(Batch) <= BatchMax
           /\ Len(queue) = Len(Batch) + Len(Rest)
           /\ Len(Sending) = TotalPackets /\ TotalPackets \in 0..Len(Batch)
           /\ \A k \in 1..Len(Batch) : Batch[k] = queue[k]
           /\ \A k \in 1..Len(Rest) : Rest[k] = queue[Len(Batch) + k]
           /\ \A k \in 1..Len(Sending) : Sending[k] = queue[k]
<1> DEFINE b == IF Len(queue) < BatchMax THEN Len(queue) ELSE BatchMax
<1>1. queue \in Seq(Packets) /\ Len(queue) \in Nat /\ b \in 0..Len(queue)
  BY BatchMaxAssumption DEF UploadTypeOK
<1>2. Batch = SubSeq(queue, 1, b)
  BY DEF Batch
<1>3. /\ Batch \in Seq(Packets) /\ Len(Batch) = b
      /\ \A k \in 1..b : Batch[k] = queue[k]
  <2> HIDE DEF b
  <2>1. 1 \in 1..(Len(queue) + 1) /\ 1 <= b + 1
    BY <1>1
  <2> QED
    BY <1>1, <1>2, <2>1, Stretch
<1> HIDE DEF b
<1>4. /\ Rest \in Seq(Packets) /\ Len(Rest) = Len(queue) - b
      /\ \A k \in 1..Len(Rest) : Rest[k] = queue[b + k]
  <2>1. b + 1 \in 1..(Len(queue) + 1) /\ Len(queue) \in 0..Len(queue)
        /\ b + 1 <= Len(queue) + 1
    BY <1>1
  <2>2. Rest = SubSeq(queue, b + 1, Len(queue))
    BY <1>3 DEF Rest
  <2>3. /\ Rest \in Seq(Packets) /\ Len(Rest) = Len(queue) - (b + 1) + 1
        /\ \A k \in 1..(Len(queue) - (b + 1) + 1) : Rest[k] = queue[(b + 1) + k - 1]
    BY <1>1, <2>1, <2>2, Stretch
  <2>4. \A k \in Nat : (b + 1) + k - 1 = b + k
    BY <1>1
  <2> QED
    BY <1>1, <2>3, <2>4
<1>5. TotalPackets \in 0..b
  BY <1>1, <1>3, BatchMaxAssumption DEF TotalPackets, b
<1>6. /\ Sending \in Seq(Packets) /\ Len(Sending) = TotalPackets
      /\ \A k \in 1..TotalPackets : Sending[k] = Batch[k]
  <2>1. 1 \in 1..(Len(Batch) + 1) /\ TotalPackets \in 0..Len(Batch) /\ 1 <= TotalPackets + 1
    BY <1>1, <1>3, <1>5
  <2> QED
    BY <1>3, <2>1, <1>5, Stretch DEF Sending
<1>7. b <= BatchMax
  BY <1>1, BatchMaxAssumption DEF b
<1>8. \A k \in 1..Len(Sending) : Sending[k] = queue[k]
  BY <1>1, <1>3, <1>5, <1>6
<1> QED
  BY <1>1, <1>3, <1>4, <1>5, <1>6, <1>7, <1>8

\* A batch that is put back restores the queue.
LEMMA PutBack ==
    ASSUME UploadTypeOK
    PROVE  Requeued \o Rest = queue
<1>1. /\ Batch \in Seq(Packets) /\ Rest \in Seq(Packets) /\ queue \in Seq(Packets)
      /\ Len(queue) = Len(Batch) + Len(Rest)
      /\ \A k \in 1..Len(Batch) : Batch[k] = queue[k]
      /\ \A k \in 1..Len(Rest) : Rest[k] = queue[Len(Batch) + k]
  BY Split DEF UploadTypeOK
<1>2. Batch \o Rest \in Seq(Packets) /\ Len(Batch \o Rest) = Len(queue)
  BY <1>1
<1>3. ASSUME NEW k \in 1..Len(queue)
      PROVE  (Batch \o Rest)[k] = queue[k]
  <2>1. CASE k <= Len(Batch)
    BY <1>1, <2>1
  <2>2. CASE k > Len(Batch)
    <3>1. k - Len(Batch) \in 1..Len(Rest) /\ Len(Batch) + (k - Len(Batch)) = k
      BY <1>1, <2>2
    <3> QED
      BY <1>1, <2>2, <3>1
  <2> QED
    BY <1>1, <2>1, <2>2
<1> QED
  BY <1>1, <1>2, <1>3, SeqEqual DEF Requeued

-----------------------------------------------------------------------------
(* The packets in a sequence *)

\* Membership in a sequence of packets.
LEMMA InSet ==
    ASSUME NEW S, NEW s \in Seq(S), NEW p
    PROVE  p \in ToSet(s) <=> \E k \in 1..Len(s) : s[k] = p
BY DEF ToSet

\* A packet is in a concatenation when it is in one of the two sequences.
LEMMA InConcat ==
    ASSUME NEW S, NEW s \in Seq(S), NEW t \in Seq(S)
    PROVE  ToSet(s \o t) = ToSet(s) \cup ToSet(t)
<1>1. /\ s \o t \in Seq(S) /\ Len(s) \in Nat /\ Len(t) \in Nat
      /\ Len(s \o t) = Len(s) + Len(t)
  OBVIOUS
<1>2. \A m \in 1..Len(s \o t) :
        (s \o t)[m] = IF m <= Len(s) THEN s[m] ELSE t[m - Len(s)]
  BY <1>1
<1>3. ASSUME NEW p \in ToSet(s \o t) PROVE p \in ToSet(s) \cup ToSet(t)
  <2>1. PICK m \in 1..Len(s \o t) : (s \o t)[m] = p
    BY <1>1, InSet
  <2>2. CASE m <= Len(s)
    BY <1>1, <1>2, <2>1, <2>2, InSet
  <2>3. CASE m > Len(s)
    <3>1. m - Len(s) \in 1..Len(t)
      BY <1>1, <2>3
    <3> QED
      BY <1>1, <1>2, <2>1, <2>3, <3>1, InSet
  <2> QED
    BY <1>1, <2>2, <2>3
<1>4. ASSUME NEW p \in ToSet(s) PROVE p \in ToSet(s \o t)
  <2>1. PICK k \in 1..Len(s) : s[k] = p
    BY InSet
  <2>2. k \in 1..Len(s \o t) /\ (s \o t)[k] = p
    BY <1>1, <1>2, <2>1
  <2> QED
    BY <1>1, <2>2, InSet
<1>5. ASSUME NEW p \in ToSet(t) PROVE p \in ToSet(s \o t)
  <2>1. PICK k \in 1..Len(t) : t[k] = p
    BY InSet
  <2>2. Len(s) + k \in 1..Len(s \o t) /\ Len(s) + k > Len(s) /\ (Len(s) + k) - Len(s) = k
    BY <1>1
  <2>3. (s \o t)[Len(s) + k] = p
    BY <1>1, <1>2, <2>1, <2>2
  <2> QED
    BY <1>1, <2>2, <2>3, InSet
<1> QED
  BY <1>3, <1>4, <1>5

\* What a longer sequence holds.
LEMMA InAppend ==
    ASSUME NEW S, NEW s \in Seq(S), NEW p \in S
    PROVE  ToSet(Append(s, p)) = ToSet(s) \cup {p}
<1> DEFINE t == <<p>>
<1>1. t \in Seq(S) /\ Append(s, p) = s \o t
  OBVIOUS
<1>2. ToSet(t) = {p}
  BY DEF ToSet
<1> HIDE DEF t
<1>3. ToSet(s \o t) = ToSet(s) \cup ToSet(t)
  BY <1>1, InConcat
<1> QED
  BY <1>1, <1>2, <1>3, Zenon

\* The batch and the rest have all packets of the queue between them, and no
\* packet in common, as the queue is increasing.
LEMMA Parts ==
    ASSUME IInv
    PROVE  /\ ToSet(queue) = ToSet(Batch) \cup ToSet(Rest)
           /\ ToSet(Batch) \cap ToSet(Rest) = {}
<1>1. /\ Batch \in Seq(Packets) /\ Rest \in Seq(Packets) /\ queue \in Seq(Packets)
      /\ Len(Batch) \in 0..Len(queue) /\ Len(queue) = Len(Batch) + Len(Rest)
      /\ \A k \in 1..Len(Batch) : Batch[k] = queue[k]
      /\ \A k \in 1..Len(Rest) : Rest[k] = queue[Len(Batch) + k]
  BY Split DEF IInv, UploadTypeOK
<1>2. Len(Batch) \in Nat /\ Len(Rest) \in Nat /\ Len(queue) \in Nat
  BY <1>1
<1>3. ASSUME NEW p \in ToSet(queue) PROVE p \in ToSet(Batch) \cup ToSet(Rest)
  <2>1. PICK k \in 1..Len(queue) : queue[k] = p
    BY <1>1, InSet
  <2>2. CASE k <= Len(Batch)
    BY <1>1, <1>2, <2>1, <2>2, InSet
  <2>3. CASE k > Len(Batch)
    <3>1. k - Len(Batch) \in 1..Len(Rest) /\ Len(Batch) + (k - Len(Batch)) = k
      BY <1>1, <1>2, <2>3
    <3> QED
      BY <1>1, <2>1, <3>1, InSet
  <2> QED
    BY <1>2, <2>2, <2>3
<1>4. ASSUME NEW p \in ToSet(Batch)
      PROVE  \E k \in 1..Len(queue) : k <= Len(Batch) /\ queue[k] = p
  <2>1. PICK k \in 1..Len(Batch) : Batch[k] = p
    BY <1>1, InSet
  <2> QED
    BY <1>1, <1>2, <2>1
<1>5. ASSUME NEW p \in ToSet(Rest)
      PROVE  \E k \in 1..Len(queue) : k > Len(Batch) /\ queue[k] = p
  <2>1. PICK k \in 1..Len(Rest) : Rest[k] = p
    BY <1>1, InSet
  <2>2. Len(Batch) + k \in 1..Len(queue) /\ Len(Batch) + k > Len(Batch)
    BY <1>1, <1>2
  <2> QED
    BY <1>1, <2>1, <2>2
<1>6. ToSet(Batch) \cup ToSet(Rest) \subseteq ToSet(queue)
  BY <1>1, <1>4, <1>5, InSet
<1>7. ASSUME NEW p \in ToSet(Batch), p \in ToSet(Rest) PROVE FALSE
  <2>1. PICK j \in 1..Len(queue) : j <= Len(Batch) /\ queue[j] = p
    BY <1>4
  <2>2. PICK k \in 1..Len(queue) : k > Len(Batch) /\ queue[k] = p
    BY <1>5, <1>7
  <2>3. queue[j] < queue[k]
    BY <1>2, <2>1, <2>2 DEF IInv, Increasing
  <2>4. queue[j] \in Nat
    BY <1>1, PacketsAreNumbers
  <2> QED
    BY <2>1, <2>2, <2>3, <2>4
<1> QED
  BY <1>3, <1>6, <1>7

-----------------------------------------------------------------------------
(* Order and types *)

\* The order holds at boot.
LEMMA InitIInv == UploadInit => IInv
<1> SUFFICES ASSUME UploadInit PROVE IInv
  OBVIOUS
<1>1. <<>> \in Seq(Packets) /\ <<>> \in Seq(Blocks) /\ <<>> \in Seq(Packets \cup {Garbage})
  OBVIOUS
<1>2. made = 0
  BY DEF UploadInit, made
<1>3. memory \in [Blocks -> Packets \cup {Garbage}]
  BY DEF UploadInit
<1>4. made <= MaxPackets
  BY <1>2, MaxPacketsAssumption
<1>5. broken \in BOOLEAN /\ failed \in BOOLEAN
  BY Zenon DEF UploadInit
<1>6. UploadTypeOK
  BY <1>1, <1>3, <1>4, <1>5, Zenon DEF UploadInit, UploadTypeOK
<1> QED
  BY <1>6 DEF UploadInit, IInv, Increasing, Below, UpTo

\* What a packet that is made changes.
LEMMA Making ==
    ASSUME UploadTypeOK, NEW b \in Blocks, Make(b)
    PROVE  /\ made \in Nat /\ made' = made + 1 /\ made + 1 \in Packets /\ made' <= MaxPackets
           /\ place' \in Seq(Blocks) /\ place'[made + 1] = b
           /\ \A p \in 1..made : place'[p] = place[p]
           /\ memory[b] = Garbage /\ memory' = [memory EXCEPT ![b] = made + 1]
           /\ memory' \in [Blocks -> Packets \cup {Garbage}]
           /\ broken' = broken /\ sent' = sent /\ texts' = texts
           /\ dropped' = dropped /\ failed' = failed
<1>1. /\ place \in Seq(Blocks) /\ made = Len(place) /\ made \in Nat
      /\ made < MaxPackets /\ place' = Append(place, b)
  BY DEF UploadTypeOK, Make, made
<1>2. made' = Len(place')
  BY DEF made
<1>3. /\ made + 1 \in Packets /\ made' = made + 1 /\ place' \in Seq(Blocks)
      /\ place'[made + 1] = b /\ made + 1 <= MaxPackets
      /\ \A p \in 1..made : place'[p] = place[p]
  BY <1>1, <1>2, MaxPacketsAssumption DEF Packets
<1>4. /\ memory[b] = Garbage /\ memory' = [memory EXCEPT ![b] = made + 1]
      /\ broken' = broken /\ sent' = sent /\ texts' = texts
      /\ dropped' = dropped /\ failed' = failed
  BY DEF Make
<1>5. memory' \in [Blocks -> Packets \cup {Garbage}]
  BY <1>3, <1>4 DEF UploadTypeOK
<1> QED
  BY <1>1, <1>3, <1>4, <1>5

\* A packet that is stored is newer than all others.
LEMMA StoreIInv == ASSUME IInv, NEW b \in Blocks, StorePacket(b) PROVE IInv'
<1> DEFINE n == made + 1
<1>1. /\ n \in Packets /\ made \in Nat /\ made' = n /\ made' <= MaxPackets
      /\ place' \in Seq(Blocks) /\ memory' \in [Blocks -> Packets \cup {Garbage}]
      /\ sent' = sent /\ texts' = texts /\ failed' = failed
      /\ dropped' = dropped /\ broken' = broken
  BY Making DEF IInv, StorePacket
<1>2. /\ queue' = Append(queue, n) /\ stored' = stored \cup {n}
      /\ spoiled' \subseteq spoiled \cup {n}
  BY DEF StorePacket
<1>3. n \in Nat /\ \A q \in Nat : q <= made => q < n
  BY <1>1 DEF n
<1> HIDE DEF n
<1>4. /\ queue \in Seq(Packets) /\ Len(queue) \in Nat
      /\ sent \in Seq(Packets) /\ Packets \subseteq Nat
  BY DEF IInv, UploadTypeOK, Packets
<1>5. /\ queue' \in Seq(Packets) /\ Len(queue') = Len(queue) + 1
      /\ \A k \in 1..Len(queue) : queue'[k] = queue[k]
      /\ queue'[Len(queue) + 1] = n
  BY <1>1, <1>2, <1>4
<1>6. UploadTypeOK'
  <2>1. stored' \subseteq Packets /\ spoiled' \subseteq Packets
    BY <1>1, <1>2 DEF IInv, UploadTypeOK
  <2> QED
    BY <1>1, <1>5, <2>1 DEF IInv, UploadTypeOK
<1>7. \A k \in 1..Len(queue) : queue[k] \in Nat /\ queue[k] < n
  <2>1. \A k \in 1..Len(queue) : queue[k] \in Nat
    BY <1>4, PacketsAreNumbers
  <2>2. \A k \in 1..Len(queue) : queue[k] <= made
    BY DEF IInv, UpTo
  <2> QED
    BY <2>1, <2>2, <1>3
<1>8. \A k \in 1..Len(sent) : sent[k] \in Nat /\ sent[k] < n
  <2>1. \A k \in 1..Len(sent) : sent[k] \in Nat
    BY <1>4, PacketsAreNumbers
  <2>2. \A k \in 1..Len(sent) : sent[k] <= made
    BY DEF IInv, UpTo
  <2> QED
    BY <2>1, <2>2, <1>3
<1>9. \A k \in 1..Len(queue') : k \in 1..Len(queue) \/ k = Len(queue) + 1
  BY <1>4, <1>5
<1>10. Increasing(queue)'
  <2> SUFFICES ASSUME NEW j \in 1..Len(queue'), NEW k \in 1..Len(queue'), j < k
               PROVE  queue'[j] < queue'[k]
    BY DEF Increasing
  <2>1. CASE k = Len(queue) + 1
    BY <1>4, <1>5, <1>7, <2>1
  <2>2. CASE k \in 1..Len(queue)
    <3>1. j \in 1..Len(queue)
      BY <1>4, <1>5, <2>2
    <3> QED
      BY <1>5, <2>2, <3>1 DEF IInv, Increasing
  <2> QED
    BY <2>1, <2>2, <1>9
<1>11. Below(sent, queue)'
  <2> SUFFICES ASSUME NEW j \in 1..Len(sent), NEW k \in 1..Len(queue')
               PROVE  sent[j] < queue'[k]
    BY <1>1 DEF Below
  <2>1. CASE k = Len(queue) + 1
    BY <1>5, <1>8, <2>1
  <2>2. CASE k \in 1..Len(queue)
    BY <1>5, <2>2 DEF IInv, Below
  <2> QED
    BY <2>1, <2>2, <1>9
<1>12. UpTo(queue, made)' /\ UpTo(sent, made)'
  <2>1. \A k \in 1..Len(queue') : queue'[k] <= n
    BY <1>3, <1>5, <1>7, <1>9
  <2>2. \A k \in 1..Len(sent) : sent[k] <= n
    BY <1>3, <1>8
  <2> QED
    BY <1>1, <2>1, <2>2 DEF UpTo
<1>13. Increasing(sent)'
  BY <1>1 DEF IInv, Increasing
<1> QED
  BY <1>6, <1>10, <1>11, <1>12, <1>13 DEF IInv

\* Transmit forgets its packet.
LEMMA TransmitIInv == ASSUME IInv, NEW b \in Blocks, Transmit(b) PROVE IInv'
<1>1. /\ made \in Nat /\ made' = made + 1 /\ made' <= MaxPackets
      /\ place' \in Seq(Blocks) /\ memory' \in [Blocks -> Packets \cup {Garbage}]
      /\ sent' = sent /\ texts' = texts /\ failed' = failed
      /\ dropped' = dropped /\ broken' = broken
  BY Making DEF IInv, Transmit
<1>2. queue' = queue /\ stored' = stored /\ spoiled' = spoiled
  BY DEF Transmit
<1>3. UploadTypeOK'
  BY <1>1, <1>2 DEF IInv, UploadTypeOK
<1>4. /\ \A k \in 1..Len(queue) : queue[k] \in Nat
      /\ \A k \in 1..Len(sent) : sent[k] \in Nat
  BY PacketsAreNumbers DEF IInv, UploadTypeOK
<1>5. UpTo(queue, made)' /\ UpTo(sent, made)'
  BY <1>1, <1>2, <1>4 DEF IInv, UpTo
<1> QED
  BY <1>1, <1>2, <1>3, <1>5 DEF IInv, Increasing, Below

\* What every upload leaves as it is.
LEMMA Uploading ==
    ASSUME UploadTypeOK, Upload
    PROVE  /\ place' = place /\ made' = made /\ stored' = stored
           /\ memory' \in [Blocks -> Packets \cup {Garbage}] /\ broken' \in BOOLEAN
           /\ \A c \in Blocks : memory'[c] = IF \E k \in 1..Len(Batch) : place[Batch[k]] = c
                                             THEN Garbage ELSE memory[c]
<1>1. place' = place /\ stored' = stored /\ Free(Batch)
  BY DEF Upload, Freed
<1>2. made' = made
  BY <1>1 DEF made
<1>3. memory' = [c \in Blocks |-> IF c \in {place[Batch[k]] : k \in 1..Len(Batch)}
                                  THEN Garbage ELSE memory[c]]
  BY <1>1 DEF Free
<1>4. broken' \in BOOLEAN
  BY <1>1, Zenon DEF Free
<1> QED
  BY <1>1, <1>2, <1>3, <1>4 DEF UploadTypeOK

\* What is read through pointers is texts or garbage, one for each.
LEMMA ReadTexts ==
    ASSUME UploadTypeOK, NEW s \in Seq(Packets), \A k \in 1..Len(s) : s[k] <= made
    PROVE  /\ Texts(s) \in Seq(Packets \cup {Garbage}) /\ Len(Texts(s)) = Len(s)
           /\ \A k \in 1..Len(s) : Texts(s)[k] = memory[place[s[k]]]
<1>1. Len(s) \in Nat
  OBVIOUS
<1>2. ASSUME NEW k \in 1..Len(s) PROVE memory[place[s[k]]] \in Packets \cup {Garbage}
  <2>1. s[k] \in Packets
    OBVIOUS
  <2>2. s[k] \in 1..Len(place)
    BY <2>1 DEF made, Packets
  <2>3. place[s[k]] \in Blocks
    BY <2>2 DEF UploadTypeOK
  <2> QED
    BY <2>3 DEF UploadTypeOK
<1>3. Texts(s) = [k \in 1..Len(s) |-> memory[place[s[k]]]]
  BY DEF Texts
<1> QED
  BY <1>1, <1>2, <1>3

\* An upload that is published moves a part of the front of the queue to the
\* end of what has been sent.
LEMMA PublishedIInv == IInv /\ Upload /\ Published => IInv'
<1> SUFFICES ASSUME IInv, Upload, Published PROVE IInv'
  OBVIOUS
<1>1. /\ queue' = Rest /\ sent' = sent \o Sending /\ texts' = texts \o Texts(Sending)
      /\ spoiled' = spoiled /\ failed' = failed
      /\ dropped' = IF Len(Batch) = BatchMax THEN dropped \cup {Batch[BatchMax]} ELSE dropped
  BY DEF Published
<1>2. /\ place' = place /\ made' = made /\ stored' = stored
      /\ memory' \in [Blocks -> Packets \cup {Garbage}] /\ broken' \in BOOLEAN
  BY Uploading DEF IInv
<1>3. /\ Batch \in Seq(Packets) /\ Rest \in Seq(Packets) /\ Sending \in Seq(Packets)
      /\ Len(Batch) \in 0..Len(queue) /\ Len(queue) = Len(Batch) + Len(Rest)
      /\ Len(Sending) \in 0..Len(Batch)
      /\ \A k \in 1..Len(Rest) : Rest[k] = queue[Len(Batch) + k]
      /\ \A k \in 1..Len(Sending) : Sending[k] = queue[k]
  BY Split DEF IInv
<1>4. /\ queue \in Seq(Packets) /\ sent \in Seq(Packets) /\ Packets \subseteq Nat
      /\ Len(queue) \in Nat /\ Len(sent) \in Nat
  BY DEF IInv, UploadTypeOK, Packets
<1>5. /\ Sending \in Seq(Nat) /\ sent \in Seq(Nat)
      /\ Len(Sending) \in Nat /\ Len(Rest) \in Nat /\ Len(Batch) \in Nat
  BY <1>3, <1>4, PacketsAreNumbers
<1>6. /\ \A k \in 1..Len(Rest) : Len(Batch) + k \in 1..Len(queue)
      /\ \A k \in 1..Len(Sending) : k \in 1..Len(queue)
  BY <1>3, <1>4, <1>5
<1>7. \A m \in 1..Len(sent \o Sending) :
        \/ m \in 1..Len(sent) /\ (sent \o Sending)[m] = sent[m]
        \/ m - Len(sent) \in 1..Len(Sending)
           /\ (sent \o Sending)[m] = Sending[m - Len(sent)]
  BY <1>5, <1>4
<1>8. UploadTypeOK'
  <2>1. sent' \in Seq(Packets)
    BY <1>1, <1>3, <1>4
  <2>2. Texts(Sending) \in Seq(Packets \cup {Garbage})
    <3>1. \A k \in 1..Len(Sending) : Sending[k] <= made
      BY <1>3, <1>6 DEF IInv, UpTo
    <3> QED
      BY ReadTexts, <1>3, <3>1 DEF IInv
  <2>3. texts' \in Seq(Packets \cup {Garbage})
    BY <1>1, <2>2 DEF IInv, UploadTypeOK
  <2>4. dropped' \subseteq Packets
    <3>1. CASE Len(Batch) = BatchMax
      <4>1. Batch[BatchMax] \in Packets
        BY <1>3, <3>1, BatchMaxAssumption
      <4> QED
        BY <1>1, <3>1, <4>1 DEF IInv, UploadTypeOK
    <3>2. CASE Len(Batch) # BatchMax
      BY <1>1, <3>2 DEF IInv, UploadTypeOK
    <3> QED
      BY <3>1, <3>2
  <2>5. queue' \in Seq(Packets)
    BY <1>1, <1>3
  <2> QED
    BY <1>1, <1>2, <2>1, <2>3, <2>4, <2>5 DEF IInv, UploadTypeOK
<1>9. Increasing(sent)'
  <2>1. Increasing(Sending)
    BY <1>3, <1>6 DEF IInv, Increasing
  <2>2. Below(sent, Sending)
    BY <1>3, <1>6 DEF IInv, Below
  <2>3. Increasing(sent)
    BY DEF IInv
  <2>4. Increasing(sent \o Sending)
    BY <1>5, <2>1, <2>2, <2>3, ConcatIncreasing
  <2> QED
    BY <1>1, <2>4 DEF Increasing
<1>10. Increasing(queue)'
  <2> SUFFICES ASSUME NEW j \in 1..Len(Rest), NEW k \in 1..Len(Rest), j < k
               PROVE  Rest[j] < Rest[k]
    BY <1>1 DEF Increasing
  <2>1. Len(Batch) + j < Len(Batch) + k
    BY <1>5
  <2>2. queue[Len(Batch) + j] < queue[Len(Batch) + k]
    BY <1>6, <2>1 DEF IInv, Increasing
  <2> QED
    BY <1>3, <2>2
<1>11. Below(sent, queue)'
  <2> SUFFICES ASSUME NEW j \in 1..Len(sent \o Sending), NEW k \in 1..Len(Rest)
               PROVE  (sent \o Sending)[j] < Rest[k]
    BY <1>1 DEF Below
  <2>1. Rest[k] = queue[Len(Batch) + k] /\ Len(Batch) + k \in 1..Len(queue)
    BY <1>3, <1>6
  <2>2. CASE j \in 1..Len(sent) /\ (sent \o Sending)[j] = sent[j]
    BY <2>1, <2>2 DEF IInv, Below
  <2>3. CASE j - Len(sent) \in 1..Len(Sending)
             /\ (sent \o Sending)[j] = Sending[j - Len(sent)]
    <3>1. Sending[j - Len(sent)] = queue[j - Len(sent)]
          /\ j - Len(sent) \in 1..Len(queue)
      BY <1>3, <1>6, <2>3
    <3>2. j - Len(sent) < Len(Batch) + k
      BY <1>3, <1>5, <2>3
    <3>3. queue[j - Len(sent)] < queue[Len(Batch) + k]
      BY <2>1, <3>1, <3>2 DEF IInv, Increasing
    <3> QED
      BY <2>1, <2>3, <3>1, <3>3
  <2> QED
    BY <1>7, <2>2, <2>3
<1>12. UpTo(queue, made)'
  BY <1>1, <1>2, <1>3, <1>6 DEF IInv, UpTo
<1>13. UpTo(sent, made)'
  <2> SUFFICES ASSUME NEW m \in 1..Len(sent \o Sending) PROVE (sent \o Sending)[m] <= made
    BY <1>1, <1>2 DEF UpTo
  <2>1. CASE m \in 1..Len(sent) /\ (sent \o Sending)[m] = sent[m]
    BY <2>1 DEF IInv, UpTo
  <2>2. CASE m - Len(sent) \in 1..Len(Sending)
             /\ (sent \o Sending)[m] = Sending[m - Len(sent)]
    <3>1. Sending[m - Len(sent)] <= made
      BY <1>3, <1>6, <2>2 DEF IInv, UpTo
    <3> QED
      BY <2>2, <3>1
  <2> QED
    BY <1>7, <2>1, <2>2
<1> QED
  BY <1>8, <1>9, <1>10, <1>11, <1>12, <1>13 DEF IInv

\* An upload that fails leaves the queue as it was.
LEMMA NotPublishedIInv == IInv /\ Upload /\ NotPublished => IInv'
<1> SUFFICES ASSUME IInv, Upload, NotPublished PROVE IInv'
  OBVIOUS
<1>1. queue' = queue
  BY PutBack DEF NotPublished, IInv
<1>2. /\ sent' = sent /\ texts' = texts /\ dropped' = dropped /\ failed' = TRUE
      /\ spoiled' = spoiled \cup ToSet(Batch)
  BY DEF NotPublished
<1>3. /\ place' = place /\ made' = made /\ stored' = stored
      /\ memory' \in [Blocks -> Packets \cup {Garbage}] /\ broken' \in BOOLEAN
  BY Uploading DEF IInv
<1>4. ToSet(Batch) \subseteq Packets
  <2>1. Batch \in Seq(Packets)
    BY Split DEF IInv
  <2> QED
    BY <2>1 DEF ToSet
<1>5. UploadTypeOK'
  BY <1>1, <1>2, <1>3, <1>4 DEF IInv, UploadTypeOK
<1> QED
  BY <1>1, <1>2, <1>3, <1>5 DEF IInv, Increasing, Below, UpTo

\* Each step keeps the order.
LEMMA StepIInv == IInv /\ [UploadNext]_uploadVars => IInv'
<1> SUFFICES ASSUME IInv, [UploadNext]_uploadVars PROVE IInv'
  OBVIOUS
<1>1. CASE Upload
  BY <1>1, PublishedIInv, NotPublishedIInv DEF Upload
<1>2. CASE \E b \in Blocks : Transmit(b) \/ StorePacket(b)
  BY <1>2, TransmitIInv, StoreIInv
<1>3. CASE UNCHANGED uploadVars
  BY <1>3 DEF uploadVars, IInv, UploadTypeOK, made, Increasing, Below, UpTo
<1> QED
  BY <1>1, <1>2, <1>3 DEF UploadNext

\* So it holds always.
LEMMA Invariant == UploadSpec => []IInv
<1> QED
  BY InitIInv, StepIInv, PTL DEF UploadSpec

\* The variables have their types, for every heap, number of packets and size
\* of a batch, whichever publishes fail.
THEOREM UploadTypeCorrect == UploadSpec => []UploadTypeOK
<1>1. IInv => UploadTypeOK
  BY DEF IInv
<1> QED
  BY <1>1, Invariant, PTL

-----------------------------------------------------------------------------
(***************************************************************************)
(* What the pointers lead to.                                              *)
(***************************************************************************)

\* The order, as far as the next steps need it.
LEMMA OrderFacts ==
    ASSUME IInv
    PROVE  /\ made \in Nat /\ queue \in Seq(Packets) /\ sent \in Seq(Packets)
           /\ \A p \in ToSet(queue) : p \in 1..made
           /\ \A p \in ToSet(sent) : p \in 1..made
           /\ place \in Seq(Blocks) /\ made = Len(place)
           /\ memory \in [Blocks -> Packets \cup {Garbage}]
<1>1. /\ place \in Seq(Blocks) /\ queue \in Seq(Packets) /\ sent \in Seq(Packets)
      /\ memory \in [Blocks -> Packets \cup {Garbage}] /\ made = Len(place)
  BY DEF IInv, UploadTypeOK, made
<1>2. made \in Nat
  BY <1>1
<1>3. ASSUME NEW s \in Seq(Packets), UpTo(s, made), NEW p \in ToSet(s) PROVE p \in 1..made
  <2>1. PICK k \in 1..Len(s) : s[k] = p
    BY <1>3, InSet
  <2>2. s[k] \in Packets
    OBVIOUS
  <2>3. s[k] \in Nat /\ s[k] > 0
    BY <2>2 DEF Packets
  <2> QED
    BY <1>2, <1>3, <2>1, <2>3 DEF UpTo
<1> QED
  BY <1>1, <1>2, <1>3 DEF IInv

\* A packet in the queue that has not been spoiled is in its block, and no other
\* packet in the queue points there.
OwnBlocks ==
    \A p \in ToSet(queue) \ spoiled :
        /\ memory[place[p]] = p
        /\ \A q \in ToSet(queue) : place[q] = place[p] => q = p

TextInv ==
    /\ Len(texts) = Len(sent)
    /\ \A k \in 1..Len(sent) : texts[k] = sent[k] \/ sent[k] \in spoiled
    /\ failed \/ spoiled = {}
    /\ OwnBlocks

\* A packet that is made takes a block no unspoiled packet is in.
LEMMA MakeText ==
    ASSUME IInv, TextInv, NEW b \in Blocks, Transmit(b) \/ StorePacket(b)
    PROVE  TextInv'
<1>1. /\ made \in Nat /\ made' = made + 1 /\ place'[made + 1] = b /\ made + 1 \in Packets
      /\ \A p \in 1..made : place'[p] = place[p]
      /\ memory[b] = Garbage /\ memory' = [memory EXCEPT ![b] = made + 1]
      /\ sent' = sent /\ texts' = texts /\ failed' = failed
  BY Making DEF IInv, Transmit, StorePacket
<1>2. /\ queue \in Seq(Packets) /\ place \in Seq(Blocks) /\ made = Len(place)
      /\ \A p \in ToSet(queue) : p \in 1..made
      /\ memory \in [Blocks -> Packets \cup {Garbage}]
  BY OrderFacts
<1>3. \A p \in ToSet(queue) : place[p] \in Blocks /\ place'[p] = place[p] /\ p # Garbage
                              /\ p # made + 1
  BY <1>1, <1>2 DEF Garbage
<1>4. /\ ToSet(queue') \subseteq ToSet(queue) \cup {made + 1}
      /\ spoiled \subseteq spoiled' /\ spoiled' \subseteq spoiled \cup {made + 1}
      /\ made + 1 \in ToSet(queue') \ spoiled' => ~PointedTo(b)
      /\ spoiled' # spoiled => \E p \in ToSet(queue) : place[p] = b
  <2>1. CASE Transmit(b)
    BY <1>3, <2>1 DEF Transmit
  <2>2. CASE StorePacket(b)
    <3>1. queue' = Append(queue, made + 1)
      BY <2>2 DEF StorePacket
    <3>2. ToSet(queue') = ToSet(queue) \cup {made + 1}
      BY <1>1, <1>2, <3>1, InAppend
    <3> QED
      BY <2>2, <3>2 DEF StorePacket, PointedTo
  <2> QED
    BY <2>1, <2>2
<1>5. ASSUME NEW p \in ToSet(queue), p \notin spoiled
      PROVE  memory[place[p]] = p /\ place[p] # b
  <2>1. memory[place[p]] = p
    BY <1>5 DEF TextInv, OwnBlocks
  <2> QED
    BY <1>1, <1>3, <2>1
<1>6. OwnBlocks'
  <2> SUFFICES ASSUME NEW p \in ToSet(queue'), p \notin spoiled'
               PROVE  /\ memory'[place'[p]] = p
                      /\ \A q \in ToSet(queue') : place'[q] = place'[p] => q = p
    BY DEF OwnBlocks
  <2>1. CASE p \in ToSet(queue)
    <3>1. p \notin spoiled /\ place'[p] = place[p] /\ place[p] # b /\ place[p] \in Blocks
      BY <1>3, <1>4, <1>5, <2>1
    <3>2. memory'[place'[p]] = p
      BY <1>1, <1>2, <1>5, <2>1, <3>1
    <3>3. ASSUME NEW q \in ToSet(queue'), place'[q] = place'[p] PROVE q = p
      <4>1. q # made + 1
        BY <1>1, <3>1, <3>3
      <4>2. q \in ToSet(queue)
        BY <1>4, <4>1
      <4>3. place[q] = place[p]
        BY <1>3, <2>1, <3>3, <4>2
      <4> QED
        BY <2>1, <3>1, <4>2, <4>3 DEF TextInv, OwnBlocks
    <3> QED
      BY <3>2, <3>3
  <2>2. CASE p = made + 1
    <3>1. memory'[place'[p]] = p
      BY <1>1, <1>2, <2>2
    <3>2. ASSUME NEW q \in ToSet(queue'), place'[q] = place'[p] PROVE q = p
      <4>1. CASE q \in ToSet(queue)
        <5>1. place[q] = b
          BY <1>1, <1>3, <2>2, <3>2, <4>1
        <5> QED
          BY <1>4, <2>2, <4>1, <5>1 DEF PointedTo
      <4> QED
        BY <1>4, <2>2, <4>1
    <3> QED
      BY <3>1, <3>2
  <2> QED
    BY <1>4, <2>1, <2>2
<1>7. failed' \/ spoiled' = {}
  <2>1. CASE failed
    BY <1>1, <2>1
  <2>2. CASE ~failed
    <3>1. spoiled = {}
      BY <2>2 DEF TextInv
    <3>2. \A p \in ToSet(queue) : place[p] # b
      BY <1>5, <3>1
    <3> QED
      BY <1>4, <3>1, <3>2
  <2> QED
    BY <2>1, <2>2
<1> QED
  BY <1>1, <1>4, <1>6, <1>7 DEF TextInv

\* What is taken out of the queue is published with its own text unless it has
\* been spoiled, and frees no block of an unspoiled packet that stays.
LEMMA PublishedText == ASSUME IInv, TextInv, Upload, Published PROVE TextInv'
<1>1. /\ queue' = Rest /\ sent' = sent \o Sending /\ texts' = texts \o Texts(Sending)
      /\ spoiled' = spoiled /\ failed' = failed
  BY DEF Published
<1>2. /\ place' = place
      /\ \A c \in Blocks : memory'[c] = IF \E k \in 1..Len(Batch) : place[Batch[k]] = c
                                        THEN Garbage ELSE memory[c]
  BY Uploading DEF IInv
<1>3. /\ Batch \in Seq(Packets) /\ Rest \in Seq(Packets) /\ Sending \in Seq(Packets)
      /\ Len(Sending) \in 0..Len(Batch) /\ Len(Batch) \in 0..Len(queue)
      /\ \A k \in 1..Len(Sending) : Sending[k] = queue[k]
  BY Split DEF IInv
<1>4. /\ queue \in Seq(Packets) /\ sent \in Seq(Packets) /\ Len(sent) \in Nat
      /\ \A p \in ToSet(queue) : p \in 1..made /\ place[p] \in Blocks
  BY OrderFacts
<1>5. /\ ToSet(queue) = ToSet(Batch) \cup ToSet(Rest) /\ ToSet(Batch) \cap ToSet(Rest) = {}
  BY Parts
<1>6. OwnBlocks'
  <2> SUFFICES ASSUME NEW p \in ToSet(Rest), p \notin spoiled
               PROVE  /\ memory'[place[p]] = p
                      /\ \A q \in ToSet(Rest) : place[q] = place[p] => q = p
    BY <1>1, <1>2, Zenon DEF OwnBlocks
  <2>1. /\ memory[place[p]] = p
        /\ \A q \in ToSet(queue) : place[q] = place[p] => q = p
    BY <1>5 DEF TextInv, OwnBlocks
  <2>2. ~\E k \in 1..Len(Batch) : place[Batch[k]] = place[p]
    <3> SUFFICES ASSUME NEW k \in 1..Len(Batch), place[Batch[k]] = place[p] PROVE FALSE
      OBVIOUS
    <3>1. Batch[k] \in ToSet(Batch)
      BY <1>3, InSet
    <3> QED
      BY <1>5, <2>1, <3>1
  <2> QED
    BY <1>2, <1>4, <1>5, <2>1, <2>2
<1>7. /\ Texts(Sending) \in Seq(Packets \cup {Garbage}) /\ Len(Texts(Sending)) = Len(Sending)
      /\ \A k \in 1..Len(Sending) : \/ Texts(Sending)[k] = Sending[k]
                                    \/ Sending[k] \in spoiled
  <2>1. \A k \in 1..Len(Sending) : Sending[k] \in ToSet(queue)
    BY <1>3, <1>4, InSet
  <2>2. \A k \in 1..Len(Sending) : Sending[k] <= made
    BY <1>4, <2>1
  <2>3. /\ Texts(Sending) \in Seq(Packets \cup {Garbage}) /\ Len(Texts(Sending)) = Len(Sending)
        /\ \A k \in 1..Len(Sending) : Texts(Sending)[k] = memory[place[Sending[k]]]
    BY <1>3, <2>2, ReadTexts DEF IInv
  <2> QED
    BY <2>1, <2>3 DEF TextInv, OwnBlocks
<1>8. /\ Len(texts') = Len(sent')
      /\ \A k \in 1..Len(sent') : texts'[k] = sent'[k] \/ sent'[k] \in spoiled
  <2>1. texts \in Seq(Packets \cup {Garbage}) /\ Len(texts) = Len(sent)
    BY DEF IInv, UploadTypeOK, TextInv
  <2>2. Len(sent') = Len(sent) + Len(Sending) /\ Len(texts') = Len(sent) + Len(Sending)
    <3>1. Len(sent \o Sending) = Len(sent) + Len(Sending)
      BY <1>3, <1>4
    <3>2. Len(texts \o Texts(Sending)) = Len(texts) + Len(Texts(Sending))
      BY <1>7, <2>1
    <3> QED
      BY <1>1, <1>7, <2>1, <3>1, <3>2
  <2>3. ASSUME NEW k \in 1..Len(sent') PROVE texts'[k] = sent'[k] \/ sent'[k] \in spoiled
    <3>1. CASE k <= Len(sent)
      <4>1. texts'[k] = texts[k] /\ sent'[k] = sent[k] /\ k \in 1..Len(sent)
        BY <1>1, <1>3, <1>4, <1>7, <2>1, <3>1
      <4> QED
        BY <4>1 DEF TextInv
    <3>2. CASE k > Len(sent)
      <4>1. /\ k - Len(sent) \in 1..Len(Sending) /\ sent'[k] = Sending[k - Len(sent)]
            /\ texts'[k] = Texts(Sending)[k - Len(sent)]
        BY <1>1, <1>3, <1>4, <1>7, <2>1, <2>2, <3>2
      <4> QED
        BY <1>7, <4>1
    <3> QED
      BY <1>4, <2>2, <3>1, <3>2
  <2> QED
    BY <2>2, <2>3
<1> QED
  BY <1>1, <1>6, <1>8 DEF TextInv

\* What is put back is spoiled; the rest of the queue keeps its blocks.
LEMMA NotPublishedText == ASSUME IInv, TextInv, Upload, NotPublished PROVE TextInv'
<1>1. /\ queue' = queue /\ sent' = sent /\ texts' = texts /\ failed' = TRUE
      /\ spoiled' = spoiled \cup ToSet(Batch)
  BY PutBack DEF NotPublished, IInv
<1>2. /\ place' = place
      /\ \A c \in Blocks : memory'[c] = IF \E k \in 1..Len(Batch) : place[Batch[k]] = c
                                        THEN Garbage ELSE memory[c]
  BY Uploading DEF IInv
<1>3. /\ \A p \in ToSet(queue) : p \in 1..made /\ place[p] \in Blocks
      /\ ToSet(queue) = ToSet(Batch) \cup ToSet(Rest) /\ Batch \in Seq(Packets)
  BY OrderFacts, Parts, Split DEF IInv
<1>4. OwnBlocks'
  <2> SUFFICES ASSUME NEW p \in ToSet(queue), p \notin spoiled, p \notin ToSet(Batch)
               PROVE  /\ memory'[place[p]] = p
                      /\ \A q \in ToSet(queue) : place[q] = place[p] => q = p
    BY <1>1, <1>2, Zenon DEF OwnBlocks
  <2>1. /\ memory[place[p]] = p
        /\ \A q \in ToSet(queue) : place[q] = place[p] => q = p
    BY DEF TextInv, OwnBlocks
  <2>2. ~\E k \in 1..Len(Batch) : place[Batch[k]] = place[p]
    <3> SUFFICES ASSUME NEW k \in 1..Len(Batch), place[Batch[k]] = place[p] PROVE FALSE
      OBVIOUS
    <3>1. Batch[k] \in ToSet(Batch)
      BY <1>3, InSet
    <3> QED
      BY <1>3, <2>1, <3>1
  <2> QED
    BY <1>2, <1>3, <2>1, <2>2
<1> QED
  BY <1>1, <1>4 DEF TextInv

LEMMA StepText == IInv /\ TextInv /\ [UploadNext]_uploadVars => TextInv'
<1> SUFFICES ASSUME IInv, TextInv, [UploadNext]_uploadVars PROVE TextInv'
  OBVIOUS
<1>1. CASE Upload
  BY <1>1, PublishedText, NotPublishedText DEF Upload
<1>2. CASE \E b \in Blocks : Transmit(b) \/ StorePacket(b)
  BY <1>2, MakeText
<1>3. CASE UNCHANGED uploadVars
  BY <1>3 DEF uploadVars, TextInv, OwnBlocks
<1> QED
  BY <1>1, <1>2, <1>3 DEF UploadNext

LEMMA TextInvariant == UploadSpec => []TextInv
<1>1. UploadInit => TextInv
  BY DEF UploadInit, TextInv, OwnBlocks, ToSet
<1> QED
  BY <1>1, StepText, Invariant, PTL DEF UploadSpec

\* mc_network_upload publishes pointers in the order their packets were made and
\* none twice, through any number of failed uploads and retries; and each with
\* the text of its own packet, unless that was spoiled after a failed publish.
THEOREM InOrderAndOnce == UploadSpec => []SentOnceInOrder
<1>1. IInv /\ TextInv => SentOnceInOrder
  <2> SUFFICES ASSUME IInv, TextInv PROVE SentOnceInOrder
    OBVIOUS
  <2>1. sent \in Seq(Nat) /\ queue \in Seq(Nat)
    BY PacketsAreNumbers DEF IInv, UploadTypeOK
  <2>2. Increasing(sent \o queue)
    BY <2>1, ConcatIncreasing DEF IInv
  <2> QED
    BY <2>2 DEF SentOnceInOrder, TextInv
<1> QED
  BY <1>1, TextInvariant, Invariant, PTL

-----------------------------------------------------------------------------
(***************************************************************************)
(* What is lost.                                                           *)
(***************************************************************************)

\* LostOnlyFromFullBatch for the two sequences one by one, with the packets not
\* yet made kept out.
LossInv ==
    /\ stored = ToSet(queue) \cup ToSet(sent) \cup dropped
    /\ dropped \cap (ToSet(queue) \cup ToSet(sent)) = {}
    /\ stored \subseteq 1..made

\* A packet that is made is new.
LEMMA MakeLoss ==
    ASSUME IInv, LossInv, NEW b \in Blocks, Transmit(b) \/ StorePacket(b)
    PROVE  LossInv'
<1>1. /\ made \in Nat /\ made' = made + 1 /\ made + 1 \in Packets
      /\ sent' = sent /\ dropped' = dropped
  BY Making DEF IInv, Transmit, StorePacket
<1>2. queue \in Seq(Packets) /\ made + 1 \notin 1..made /\ 1..made \subseteq 1..(made + 1)
  BY <1>1, OrderFacts
<1>3. CASE Transmit(b)
  BY <1>1, <1>2, <1>3 DEF Transmit, LossInv
<1>4. CASE StorePacket(b)
  <2>1. queue' = Append(queue, made + 1) /\ stored' = stored \cup {made + 1}
    BY <1>4 DEF StorePacket
  <2>2. ToSet(queue') = ToSet(queue) \cup {made + 1}
    BY <1>1, <1>2, <2>1, InAppend
  <2>3. made + 1 \in 1..(made + 1)
    BY <1>1
  <2> QED
    BY <1>1, <1>2, <2>1, <2>2, <2>3 DEF LossInv
<1> QED
  BY <1>3, <1>4

\* Of a batch, all packets are published but the last one of a full batch.
LEMMA Unsent ==
    ASSUME IInv
    PROVE  IF Len(Batch) = BatchMax
           THEN /\ ToSet(Batch) = ToSet(Sending) \cup {Batch[BatchMax]}
                /\ Batch[BatchMax] \notin ToSet(Sending)
           ELSE ToSet(Batch) = ToSet(Sending)
<1>0. UploadTypeOK
  BY DEF IInv
<1>1. /\ Batch \in Seq(Packets) /\ Sending \in Seq(Packets)
      /\ Len(Batch) \in 0..Len(queue) /\ Len(Sending) = TotalPackets
      /\ TotalPackets \in 0..Len(Batch)
      /\ \A k \in 1..Len(Batch) : Batch[k] = queue[k]
      /\ \A k \in 1..Len(Sending) : Sending[k] = queue[k]
  BY <1>0, Split
<1>2. \A k \in 1..Len(Sending) : k \in 1..Len(Batch) /\ Sending[k] = Batch[k]
  BY <1>1
<1>3. ToSet(Sending) \subseteq ToSet(Batch)
  BY <1>1, <1>2, InSet
<1>4. CASE Len(Batch) = BatchMax
  <2>1. Len(Sending) = BatchMax - 1 /\ BatchMax \in 1..Len(Batch)
    BY <1>1, <1>4, BatchMaxAssumption DEF TotalPackets
  <2>2. ASSUME NEW p \in ToSet(Batch) PROVE p \in ToSet(Sending) \cup {Batch[BatchMax]}
    <3>1. PICK k \in 1..Len(Batch) : Batch[k] = p
      BY <1>1, InSet
    <3>2. CASE k = BatchMax
      BY <3>1, <3>2
    <3>3. CASE k # BatchMax
      <4>1. k \in 1..Len(Sending)
        BY <1>1, <1>4, <2>1, <3>3
      <4> QED
        BY <1>1, <1>2, <3>1, <4>1, InSet
    <3> QED
      BY <3>2, <3>3
  <2>3. Batch[BatchMax] \in ToSet(Batch)
    BY <1>1, <2>1, InSet
  <2>4. ASSUME Batch[BatchMax] \in ToSet(Sending) PROVE FALSE
    <3>1. PICK k \in 1..Len(Sending) : Sending[k] = Batch[BatchMax]
      BY <1>1, <2>4, InSet
    <3>2. k \in 1..Len(queue) /\ BatchMax \in 1..Len(queue) /\ k < BatchMax
      BY <1>1, <2>1, <3>1
    <3>3. queue[k] < queue[BatchMax] /\ queue[BatchMax] \in Nat
      BY <3>2, PacketsAreNumbers DEF IInv, Increasing, UploadTypeOK
    <3> QED
      BY <1>1, <2>1, <3>1, <3>2, <3>3
  <2> QED
    BY <1>3, <1>4, <2>2, <2>3, <2>4
<1>5. CASE Len(Batch) # BatchMax
  <2>1. Len(Sending) = Len(Batch)
    BY <1>1, <1>5 DEF TotalPackets
  <2>2. ToSet(Batch) \subseteq ToSet(Sending)
    BY <1>1, <1>2, <2>1, InSet
  <2> QED
    BY <1>3, <1>5, <2>2
<1> QED
  BY <1>4, <1>5

\* An upload moves packets from the queue to what is sent or dropped.
LEMMA UploadLoss == ASSUME IInv, LossInv, Upload PROVE LossInv'
<1>1. stored' = stored /\ made' = made
  BY Uploading DEF IInv
<1>2. CASE NotPublished
  <2>1. queue' = queue /\ sent' = sent /\ dropped' = dropped
    BY <1>2, PutBack DEF NotPublished, IInv
  <2> QED
    BY <1>1, <2>1 DEF LossInv
<1>3. CASE Published
  <2>1. /\ queue' = Rest /\ sent' = sent \o Sending
        /\ dropped' = IF Len(Batch) = BatchMax THEN dropped \cup {Batch[BatchMax]} ELSE dropped
    BY <1>3 DEF Published
  <2>2. sent \in Seq(Packets) /\ Sending \in Seq(Packets)
    BY Split, OrderFacts DEF IInv
  <2>3. ToSet(sent') = ToSet(sent) \cup ToSet(Sending)
    BY <2>1, <2>2, InConcat
  <2>4. ToSet(queue) = ToSet(Batch) \cup ToSet(queue') /\ ToSet(Batch) \cap ToSet(queue') = {}
    BY <2>1, Parts
  <2>5. ToSet(sent) \cap ToSet(queue) = {}
    <3> SUFFICES ASSUME NEW p \in ToSet(sent), p \in ToSet(queue) PROVE FALSE
      OBVIOUS
    <3>1. queue \in Seq(Packets) /\ made \in Nat /\ p \in 1..made
      BY OrderFacts
    <3>2. PICK j \in 1..Len(sent) : sent[j] = p
      BY <2>2, InSet
    <3>3. PICK k \in 1..Len(queue) : queue[k] = p
      BY <3>1, InSet
    <3>4. sent[j] < queue[k]
      BY DEF IInv, Below
    <3> QED
      BY <3>1, <3>2, <3>3, <3>4
  <2>6. CASE Len(Batch) = BatchMax
    BY <1>1, <2>1, <2>3, <2>4, <2>5, <2>6, Unsent DEF LossInv
  <2>7. CASE Len(Batch) # BatchMax
    BY <1>1, <2>1, <2>3, <2>4, <2>5, <2>7, Unsent DEF LossInv
  <2> QED
    BY <2>6, <2>7
<1> QED
  BY <1>2, <1>3 DEF Upload

LEMMA StepLoss == IInv /\ LossInv /\ [UploadNext]_uploadVars => LossInv'
<1> SUFFICES ASSUME IInv, LossInv, [UploadNext]_uploadVars PROVE LossInv'
  OBVIOUS
<1>1. CASE UNCHANGED uploadVars
  BY <1>1 DEF uploadVars, LossInv, made
<1> QED
  BY <1>1, MakeLoss, UploadLoss DEF UploadNext

LEMMA LossInvariant == UploadSpec => []LossInv
<1>1. UploadInit => LossInv
  BY DEF UploadInit, LossInv, ToSet
<1> QED
  BY <1>1, StepLoss, Invariant, PTL DEF UploadSpec

\* A stored packet gets lost only as the last one of a full batch that is
\* published: each is in the queue, sent, or dropped that way, and one only.
THEOREM LossIsBounded == UploadSpec => []LostOnlyFromFullBatch
<1>1. IInv /\ LossInv => LostOnlyFromFullBatch
  <2> SUFFICES ASSUME IInv, LossInv PROVE LostOnlyFromFullBatch
    OBVIOUS
  <2>1. ToSet(sent \o queue) = ToSet(sent) \cup ToSet(queue)
    BY OrderFacts, InConcat
  <2> QED
    BY <2>1 DEF LossInv, LostOnlyFromFullBatch
<1> QED
  BY <1>1, LossInvariant, Invariant, PTL

-----------------------------------------------------------------------------
(***************************************************************************)
(* What is freed.                                                          *)
(***************************************************************************)

\* A step that fails no publish keeps what is freed in step with the queue.
LEMMA StepFreed ==
    IInv /\ TextInv /\ LossInv /\ FreedWhenGone /\ [UploadNext]_uploadVars => FreedWhenGone'
<1> SUFFICES ASSUME IInv, TextInv, LossInv, FreedWhenGone, [UploadNext]_uploadVars, ~failed'
             PROVE  {p \in stored' : memory'[place'[p]] = p} = ToSet(queue')
  BY DEF FreedWhenGone
<1>1. /\ made \in Nat /\ queue \in Seq(Packets) /\ place \in Seq(Blocks) /\ made = Len(place)
      /\ memory \in [Blocks -> Packets \cup {Garbage}]
      /\ stored \subseteq 1..made
  BY OrderFacts DEF LossInv
<1>2. \A p \in stored : place[p] \in Blocks /\ p \in Nat /\ p # Garbage /\ p # made + 1
  BY <1>1 DEF Garbage
<1>3. CASE ~failed /\ \E b \in Blocks : Transmit(b) \/ StorePacket(b)
  <2> DEFINE n == made + 1
  <2>1. PICK b \in Blocks : Transmit(b) \/ StorePacket(b)
    BY <1>3
  <2>2. /\ place'[n] = b /\ n \in Packets /\ memory[b] = Garbage
        /\ \A p \in 1..made : place'[p] = place[p]
        /\ memory' = [memory EXCEPT ![b] = n]
    BY <2>1, Making DEF IInv, Transmit, StorePacket
  <2>3. \A p \in stored : memory'[place'[p]] = p <=> memory[place[p]] = p
    BY <1>1, <1>2, <2>2
  <2>4. memory'[place'[n]] = n
    BY <1>1, <2>2
  <2> HIDE DEF n
  <2>5. {p \in stored : memory[place[p]] = p} = ToSet(queue)
    BY <1>3 DEF FreedWhenGone
  <2>6. CASE Transmit(b)
    BY <2>3, <2>5, <2>6 DEF Transmit
  <2>7. CASE StorePacket(b)
    <3>1. queue' = Append(queue, n) /\ stored' = stored \cup {n}
      BY <2>7 DEF StorePacket, n
    <3>2. ToSet(queue') = ToSet(queue) \cup {n}
      BY <1>1, <2>2, <3>1, InAppend
    <3> QED
      BY <2>3, <2>4, <2>5, <3>1, <3>2
  <2> QED
    BY <2>1, <2>6, <2>7
<1>4. CASE Upload /\ Published
  <2>1. /\ queue' = Rest /\ failed' = failed /\ stored' = stored /\ place' = place
        /\ \A c \in Blocks : memory'[c] = IF \E k \in 1..Len(Batch) : place[Batch[k]] = c
                                          THEN Garbage ELSE memory[c]
    BY <1>4, Uploading DEF Published, IInv
  <2>2. /\ {p \in stored : memory[place[p]] = p} = ToSet(queue) /\ spoiled = {}
    BY <2>1 DEF FreedWhenGone, TextInv
  <2>3. /\ ToSet(queue) = ToSet(Batch) \cup ToSet(Rest) /\ ToSet(Batch) \cap ToSet(Rest) = {}
        /\ Batch \in Seq(Packets)
    BY Parts, Split DEF IInv
  <2>4. ASSUME NEW p \in stored, memory'[place[p]] = p PROVE p \in ToSet(Rest)
    <3>1. memory[place[p]] = p /\ ~\E k \in 1..Len(Batch) : place[Batch[k]] = place[p]
      BY <1>2, <2>1, <2>4
    <3>2. p \notin ToSet(Batch)
      BY <2>3, <3>1, InSet
    <3> QED
      BY <2>2, <2>3, <3>1, <3>2
  <2>5. ASSUME NEW p \in ToSet(Rest) PROVE p \in stored /\ memory'[place[p]] = p
    <3>1. p \in ToSet(queue) /\ p \in stored /\ memory[place[p]] = p
      BY <2>2, <2>3
    <3>2. ~\E k \in 1..Len(Batch) : place[Batch[k]] = place[p]
      <4> SUFFICES ASSUME NEW k \in 1..Len(Batch), place[Batch[k]] = place[p] PROVE FALSE
        OBVIOUS
      <4>1. Batch[k] \in ToSet(Batch)
        BY <2>3, InSet
      <4>2. Batch[k] = p
        BY <2>2, <2>3, <3>1, <4>1 DEF TextInv, OwnBlocks
      <4> QED
        BY <2>3, <4>1, <4>2
    <3> QED
      BY <1>2, <2>1, <3>1, <3>2
  <2> QED
    BY <2>1, <2>4, <2>5
<1>5. CASE Upload /\ NotPublished
  BY <1>5 DEF NotPublished
<1>6. CASE UNCHANGED uploadVars
  BY <1>6 DEF uploadVars, FreedWhenGone
<1>7. (\E b \in Blocks : Transmit(b) \/ StorePacket(b)) => failed' = failed
  BY DEF Transmit, StorePacket, Make
<1> QED
  BY <1>3, <1>4, <1>5, <1>6, <1>7 DEF UploadNext, Upload

\* As long as every publish succeeds, mc_network_upload frees what it takes out
\* of the queue and nothing that is still in it.
THEOREM FreesWhatLeaves == UploadSpec => []FreedWhenGone
<1>1. UploadInit => FreedWhenGone
  BY DEF UploadInit, FreedWhenGone, ToSet
<1> QED
  BY <1>1, StepFreed, Invariant, TextInvariant, LossInvariant, PTL DEF UploadSpec

=============================================================================

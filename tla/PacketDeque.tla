--------------------------- MODULE PacketDeque ----------------------------
(***************************************************************************)
(* What queue.h promises: a sequence of packets that are added at the tail *)
(* (or, to undo a failed upload, at the head) and taken from the head.     *)
(***************************************************************************)
EXTENDS Sequences

CONSTANTS
    Items,    \* packets
    NULL      \* no packet

VARIABLES
    items,    \* the queue
    out       \* the result of the last call that returned one

vars == <<items, out>>

Init == items = <<>> /\ out = NULL

First == IF items = <<>> THEN NULL ELSE Head(items)

Enqueue(i) == items' = Append(items, i) /\ UNCHANGED out

EnqueueAtHead(i) == items' = <<i>> \o items /\ UNCHANGED out

Dequeue ==
    /\ out' = First
    /\ items' = IF items = <<>> THEN <<>> ELSE Tail(items)

Peek == out' = First /\ UNCHANGED items

Next ==
    \/ \E i \in Items : Enqueue(i) \/ EnqueueAtHead(i)
    \/ Dequeue
    \/ Peek

Spec == Init /\ [][Next]_vars

=============================================================================

---------------------------- MODULE MqttOutbox ----------------------------
(***************************************************************************)
(* The list of messages that wait for their acknowledgement                *)
(* (lib/mqtt_outbox.c), as operators on sequences: the item that           *)
(* STAILQ_FOREACH visits first is the first of the sequence.  An item is a *)
(* record with the fields of outbox_item_t that the code uses.             *)
(***************************************************************************)
EXTENDS Integers, Sequences, SequencesExt

\* calloc leaves `pending' false.
Enqueue(outbox, data, len, msg_id, msg_type, tick) ==
    Append(outbox, [msg_id |-> msg_id, msg_type |-> msg_type, tick |-> tick,
                    len |-> len, data |-> data, pending |-> FALSE])

\* Where a loop that returns at its first match stops (0: no match).
First(positions) ==
    IF positions = {} THEN 0 ELSE CHOOSE i \in positions : \A j \in positions : i <= j

Get(outbox, msg_id) == First({i \in DOMAIN outbox : outbox[i].msg_id = msg_id})

Dequeue(outbox) == First({i \in DOMAIN outbox : ~outbox[i].pending})

\* What outbox_delete removes: only the first item that matches.
Matching(outbox, msg_id, msg_type) ==
    First({i \in DOMAIN outbox : outbox[i].msg_id = msg_id /\ outbox[i].msg_type = msg_type})

DeleteMutant(outbox, msg_id, msg_type) ==     \* mutant: the type is not compared
    IF Get(outbox, msg_id) = 0 THEN outbox ELSE RemoveAt(outbox, Get(outbox, msg_id))

Delete(outbox, msg_id, msg_type) ==
    LET i == Matching(outbox, msg_id, msg_type)
    IN  IF i = 0 THEN outbox ELSE RemoveAt(outbox, i)

DeleteMsgid(outbox, msg_id) == SelectSeq(outbox, LAMBDA item : item.msg_id # msg_id)

DeleteMsgtype(outbox, msg_type) == SelectSeq(outbox, LAMBDA item : item.msg_type # msg_type)

SetPending(outbox, msg_id) ==
    LET i == Get(outbox, msg_id)
    IN  IF i = 0 THEN outbox ELSE [outbox EXCEPT ![i].pending = TRUE]

\* What is kept after k rounds of the loop.
DeleteExpired(outbox, current_tick, timeout) ==
    LET kept[k \in 0..Len(outbox)] ==
            IF k = 0 THEN <<>>
            ELSE IF current_tick - outbox[k].tick > timeout THEN kept[k - 1]
                 ELSE Append(kept[k - 1], outbox[k])
    IN  kept[Len(outbox)]

GetSize(outbox) == FoldLeft(LAMBDA siz, item : siz + item.len, 0, outbox)

\* After k rounds of the loop; it ends early when every item left is pending.
Cleanup(outbox, max_size) ==
    LET rest[k \in 0..Len(outbox)] ==
            IF k = 0 THEN outbox
            ELSE LET box == rest[k - 1]
                 IN  IF GetSize(box) > max_size /\ Dequeue(box) # 0
                     THEN RemoveAt(box, Dequeue(box))
                     ELSE box
    IN  rest[Len(outbox)]

\* What outbox_destroy leaves allocated: the items that are pending.
Destroy(outbox) == Cleanup(outbox, 0)

-----------------------------------------------------------------------------
(***************************************************************************)
(* What the two loops are for.                                             *)
(***************************************************************************)

\* The ways to go through n places of a list from front to back.
Walks(n, places) ==
    {at \in [1..n -> places] : /\ \A j, k \in 1..n : j < k => at[j] < at[k]
                               /\ \A i \in places : \E k \in 1..n : at[k] = i}

\* The items that such a way meets.
Along(box, n, at) == [k \in 1..n |-> box[at[k]]]

\* What is left of a list when only the items at these places stay, in their order.
Left(box, places) ==
    UNION {{Along(box, n, at) : at \in Walks(n, places)} : n \in 0..Len(box)}

NotPending(box) == {i \in DOMAIN box : ~box[i].pending}

\* outbox_cleanup: only messages that are not pending go, the oldest first and no
\* more of them than the limit asks for.
DropsOldest(box, max_size, rest) ==
    \E dropped \in SUBSET NotPending(box) :
        /\ rest \in Left(box, DOMAIN box \ dropped)
        /\ \A i \in dropped, j \in NotPending(box) : j < i => j \in dropped
        /\ ~(GetSize(rest) > max_size) \/ dropped = NotPending(box)
        /\ \A i \in dropped : (\A j \in dropped : j <= i) =>
               \E before \in Left(box, DOMAIN box \ (dropped \ {i})) : GetSize(before) > max_size

\* outbox_delete: what is acknowledged goes once, in front of its equals, and
\* nothing else changes.
TakesFirst(box, msg_id, msg_type, rest) ==
    LET matches == {i \in DOMAIN box : box[i].msg_id = msg_id /\ box[i].msg_type = msg_type}
    IN  IF matches = {} THEN rest = box
        ELSE \E i \in matches : /\ \A j \in matches : i <= j
                                /\ rest \in Left(box, DOMAIN box \ {i})

=============================================================================

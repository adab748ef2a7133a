---------------------------- MODULE MqttSession ----------------------------
(***************************************************************************)
(* What travels over a connection of the MQTT client (mqtt_client.c).      *)
(*                                                                         *)
(* The application's thread publishes, subscribes and unsubscribes; the    *)
(* client's task receives, answers, pings and trims the outbox.  They      *)
(* share, without a lock, the buffer of the outgoing message, the id and   *)
(* type of the pending message, the count of pending messages and the      *)
(* outbox.  The broker answers each message at most once, in any order.    *)
(*                                                                         *)
(* A message is a record; one that publishes has length 2, the others 1.   *)
(* The operations of the outbox's list are taken as atomic.                *)
(*                                                                         *)
(* No name of this module is one of MqttLifecycle's, so that the proofs of *)
(* both can stand in one module.                                           *)
(***************************************************************************)
EXTENDS MqttOutbox, FiniteSets, TLC

CONSTANTS
    Ids,          \* message ids
    Kinds,        \* the calls the application makes, by the message they send
    MaxCalls,     \* bound: calls of the application
    MaxIncoming,  \* bound: messages the broker sends on its own
    MaxDrops,     \* bound: connections lost
    OutboxMax     \* OUTBOX_MAX_SIZE

ASSUME KindsAssumption ==
    Kinds \subseteq {"PUBLISH0", "PUBLISH1", "PUBLISH2", "SUBSCRIBE", "UNSUBSCRIBE"}

ASSUME BoundsAssumption == MaxCalls \in Nat /\ OutboxMax \in Nat

VARIABLES
    clientState,  \* client->state
    out,          \* the message in the buffer that outbound_message points to
    pendingType,  \* mqtt_state.pending_msg_type
    pendingId,    \* mqtt_state.pending_msg_id
    count,        \* mqtt_state.pending_msg_count
    outbox,
    appAt,        \* next step of the application's call
    call,         \* the call: its kind, the id it got, its number
    appCount,     \* the count the application's ++ has loaded
    taskAt,       \* next step of the task
    taskCount,    \* the count the task's -- has loaded
    held,         \* the acknowledgement that is_valid_mqtt_msg looks at
    owed,         \* what the broker still answers to messages it has got
    incoming,     \* number of messages the broker has sent on its own
    drops,        \* number of connections lost
    written,      \* ghost: the latest call whose message was written
    again,        \* ghost: a message was written twice, or after a later one
    sent,         \* ghost: the latest call that reported success
    expired,      \* ghost: what left the outbox without an acknowledgement
    raced         \* ghost: the two threads got into each other's way

appVars == <<appAt, call, appCount, sent>>
pendingVars == <<pendingType, pendingId, count, outbox, expired>>
linkVars == <<clientState, incoming, drops>>
ackVars == <<taskCount, held>>
writeVars == <<written, again>>
sessionVars == <<appVars, pendingVars, linkVars, out, taskAt, ackVars, owed, writeVars, raced>>

\* mqtt_get_type does not see the QoS.
Type(kind) == IF kind \in {"PUBLISH0", "PUBLISH1", "PUBLISH2"} THEN "PUBLISH" ELSE kind

Message(kind, id, n) == [kind |-> kind, id |-> id, n |-> n]

Length(m) == IF Type(m.kind) = "PUBLISH" THEN 2 ELSE 1

NoMessage == Message("none", 0, 0)

\* A message that did not fit the buffer: nothing to write, an old first byte.
Unfit(n) == [out EXCEPT !.n = -n]

\* The broker's answer to a message, and the type that is_valid_mqtt_msg looks
\* for when that answer arrives.
Answer(kind) ==
    CASE kind = "PUBLISH1"    -> {"PUBACK"}
      [] kind = "PUBLISH2"    -> {"PUBREC"}
      [] kind = "PUBREL"      -> {"PUBCOMP"}
      [] kind = "PUBREC"      -> {"PUBREL"}
      [] kind = "SUBSCRIBE"   -> {"SUBACK"}
      [] kind = "UNSUBSCRIBE" -> {"UNSUBACK"}
      [] OTHER                -> {}

Awaited(kind) ==
    CASE kind = "PUBACK"   -> "PUBLISH"
      [] kind = "PUBCOMP"  -> "PUBREL"
      [] kind = "SUBACK"   -> "SUBSCRIBE"
      [] kind = "UNSUBACK" -> "UNSUBSCRIBE"

Acks == {"PUBACK", "PUBCOMP", "SUBACK", "UNSUBACK"}

\* A connection is up for the first time: its CONNECT is in the buffer.
SessionInit ==
    /\ clientState = "CONNECTED"
    /\ out = Message("CONNECT", 0, 0)
    /\ pendingType = "CONNECT"
    /\ pendingId = 0
    /\ count = 0
    /\ outbox = <<>>
    /\ appAt = "idle"
    /\ call = NoMessage
    /\ appCount = 0
    /\ taskAt = "receive"
    /\ taskCount = 0
    /\ held = NoMessage
    /\ owed = {}
    /\ incoming = 0
    /\ drops = 0
    /\ written = 0
    /\ again = FALSE
    /\ sent = 0
    /\ expired = {}
    /\ raced = FALSE

-----------------------------------------------------------------------------

\* mqtt_write_data succeeds: transport_write has taken what is in the buffer now, or
\* the first bytes of it.  The broker may get the message and owe its answer; or never
\* get it, when it was cut short or the connection is lost on the way.
WriteOk ==
    /\ clientState = "CONNECTED"
    /\ out.n >= 0
    /\ \E answers \in SUBSET {Message(kind, out.id, out.n) : kind \in Answer(out.kind)} :
         owed' = owed \cup answers
    /\ written' = IF out.n = 0 THEN written ELSE out.n
    /\ again' = (again \/ out.n \in 1..written)

WriteFails == UNCHANGED <<owed, writeVars>>

AppGoes(from, to) == appAt = from /\ appAt' = to

\* esp_mqtt_client_publish, _subscribe and _unsubscribe; a client that is not
\* connected refuses the call.
Call(kind) ==
    /\ clientState = "CONNECTED"
    /\ call.n < MaxCalls
    /\ AppGoes("idle", IF kind = "PUBLISH0" THEN "build" ELSE "enqueue")
    /\ call' = Message(kind, 0, call.n + 1)
    /\ UNCHANGED <<appCount, sent, pendingVars, linkVars, out, taskAt, ackVars,
                   owed, writeVars, raced>>

\* mqtt_enqueue: is there a message that waits for its acknowledgement?
TestPending ==
    /\ AppGoes("enqueue", IF count > 0 THEN "append" ELSE "build")
    /\ UNCHANGED <<call, appCount, sent, pendingVars, linkVars, out, taskAt, ackVars,
                   owed, writeVars, raced>>

EnqueueMutant ==     \* mutant: the pending message is not kept
    /\ AppGoes("append", "build")
    /\ UNCHANGED <<call, appCount, sent, pendingVars, linkVars, out, taskAt, ackVars,
                   owed, writeVars, raced>>

\* It goes to the outbox, with what the buffer holds now.
EnqueuePending ==
    /\ AppGoes("append", "build")
    /\ outbox' = Enqueue(outbox, out.kind, Length(out), pendingId, pendingType, call.n)
    /\ UNCHANGED <<call, appCount, sent, pendingType, pendingId, count, expired, linkVars,
                   out, taskAt, ackVars, owed, writeVars, raced>>

\* mqtt_msg_publish, _subscribe or _unsubscribe.  The last two set pending_msg_id
\* themselves.  A publish that does not fit has no id.  It is a race to build while
\* the task has a message in the buffer, and to set the id while it compares it.
Build ==
    /\ AppGoes("build", IF call.kind = "PUBLISH0" THEN "write" ELSE "pend")
    /\ \E id \in IF call.kind = "PUBLISH0" THEN {0} ELSE Ids :
         \/ /\ out' = Message(call.kind, id, call.n)
            /\ call' = [call EXCEPT !.id = id]
         \/ /\ out' = Unfit(call.n)
            /\ call' = [call EXCEPT !.id = IF Type(call.kind) = "PUBLISH" THEN 0 ELSE id]
    /\ pendingId' = IF Type(call.kind) = "PUBLISH" THEN pendingId ELSE call'.id
    /\ raced' = \/ raced
                 \/ taskAt \in {"answer", "pingWrite"}
                 \/ (taskAt = "compare" /\ Type(call.kind) # "PUBLISH")
    /\ UNCHANGED <<appCount, sent, pendingType, count, outbox, expired, linkVars,
                   taskAt, ackVars, owed, writeVars>>

\* The type is read back from the buffer; pending_msg_count ++ loads the count.
Pend ==
    /\ AppGoes("pend", "store")
    /\ pendingType' = Type(out.kind)
    /\ pendingId' = call.id
    /\ appCount' = count
    /\ raced' = (raced \/ taskAt = "compare")
    /\ UNCHANGED <<call, sent, count, outbox, expired, linkVars, out, taskAt,
                   ackVars, owed, writeVars>>

StoreCount ==
    /\ AppGoes("store", "write")
    /\ count' = appCount + 1
    /\ appCount' = 0
    /\ raced' = (raced \/ count # appCount \/ taskAt = "decrement")
    /\ UNCHANGED <<call, sent, pendingType, pendingId, outbox, expired, linkVars,
                   out, taskAt, ackVars, owed, writeVars>>

Write ==
    /\ AppGoes("write", "idle")
    /\ \/ WriteOk /\ sent' = call.n
       \/ WriteFails /\ UNCHANGED sent
    /\ UNCHANGED <<call, appCount, pendingVars, linkVars, out, taskAt, ackVars, raced>>

AppActs ==
    (\E kind \in Kinds : Call(kind)) \/ TestPending \/ EnqueuePending \/ Build \/ Pend
        \/ StoreCount \/ Write

-----------------------------------------------------------------------------

TaskGoes(from, to) == taskAt = from /\ taskAt' = to

\* The task builds a message of its own in the shared buffer.
TaskBuilds(kind, id) ==
    /\ out' = Message(kind, id, 0)
    /\ raced' = (raced \/ appAt \in {"pend", "store", "write"})

\* mqtt_process_receive with nothing to read.
ReceiveNothing ==
    /\ TaskGoes("receive", "ping")
    /\ UNCHANGED <<appVars, pendingVars, linkVars, out, ackVars, owed, writeVars, raced>>

\* One read returns the first message, which is handled, and perhaps more that
\* are overwritten by the next read.
Reads(m) ==
    /\ m \in owed
    /\ \E more \in SUBSET (owed \ {m}) : owed' = (owed \ {m}) \ more

\* An acknowledgement: is_valid_mqtt_msg tests the count,
ReceiveAck(m) ==
    /\ m.kind \in Acks
    /\ Reads(m)
    /\ \/ count # 0 /\ TaskGoes("receive", "match") /\ held' = m
       \/ count = 0 /\ TaskGoes("receive", "ping") /\ UNCHANGED held
    /\ UNCHANGED <<appVars, pendingVars, linkVars, out, taskCount, writeVars, raced>>

\* takes the message out of the outbox if it is there,
MatchOutbox ==
    /\ taskAt = "match"
    /\ LET found == Matching(outbox, held.id, Awaited(held.kind)) # 0
       IN  /\ taskAt' = IF found THEN "load" ELSE "compare"
           /\ outbox' = IF found THEN Delete(outbox, held.id, Awaited(held.kind)) ELSE outbox
    /\ UNCHANGED <<appVars, pendingType, pendingId, count, expired, linkVars, out, ackVars,
                   owed, writeVars, raced>>

\* or compares it with the pending one,
ComparePending ==
    /\ taskAt = "compare"
    /\ LET latest == pendingType = Awaited(held.kind) /\ pendingId = held.id
       IN  /\ taskAt' = IF latest THEN "load" ELSE "ping"
           /\ held' = IF latest THEN held ELSE NoMessage
    /\ UNCHANGED <<appVars, pendingVars, linkVars, out, taskCount, owed, writeVars, raced>>

\* and in either case loads the count.
LoadCount ==
    /\ TaskGoes("load", "decrement")
    /\ taskCount' = count
    /\ UNCHANGED <<appVars, pendingVars, linkVars, out, held, owed, writeVars, raced>>

\* pending_msg_count --, then MQTT_EVENT_PUBLISHED, _SUBSCRIBED or _UNSUBSCRIBED.
Decrement ==
    /\ TaskGoes("decrement", "ping")
    /\ count' = taskCount - 1
    /\ taskCount' = 0
    /\ held' = NoMessage
    /\ raced' = (raced \/ count # taskCount \/ appAt = "store")
    /\ UNCHANGED <<appVars, pendingType, pendingId, outbox, expired, linkVars, out,
                   owed, writeVars>>

\* PUBREC is answered by PUBREL, PUBREL by PUBCOMP.
ReceiveStep(m) ==
    /\ m.kind \in {"PUBREC", "PUBREL"}
    /\ Reads(m)
    /\ TaskBuilds(IF m.kind = "PUBREC" THEN "PUBREL" ELSE "PUBCOMP", m.id)
    /\ TaskGoes("receive", "answer")
    /\ UNCHANGED <<appVars, pendingVars, linkVars, ackVars, writeVars>>

\* A message the broker publishes, or its PINGREQ.
ReceiveRequest ==
    /\ incoming < MaxIncoming
    /\ incoming' = incoming + 1
    /\ \/ TaskGoes("receive", "ping") /\ UNCHANGED <<out, raced>>     \* QoS 0: delivered only
       \/ /\ TaskGoes("receive", "answer")
          /\ \E id \in Ids, kind \in {"PUBACK", "PUBREC"} : TaskBuilds(kind, id)
       \/ TaskGoes("receive", "answer") /\ TaskBuilds("PINGRESP", 0)
    /\ UNCHANGED <<appVars, pendingVars, clientState, drops, ackVars, owed, writeVars>>

\* The answer is written; whether that succeeds is not looked at.
WriteAnswer ==
    /\ TaskGoes("answer", "ping")
    /\ WriteOk \/ WriteFails
    /\ UNCHANGED <<appVars, pendingVars, linkVars, out, ackVars, raced>>

PingMutant ==     \* mutant: the message in the buffer is written again
    /\ TaskGoes("ping", "pingWrite")
    /\ UNCHANGED <<out, raced>>
    /\ UNCHANGED <<appVars, pendingVars, linkVars, ackVars, owed, writeVars>>

\* esp_mqtt_client_ping, when half of the keepalive time has passed.
Ping ==
    /\ TaskGoes("ping", "pingWrite")
    /\ TaskBuilds("PINGREQ", 0)
    /\ UNCHANGED <<appVars, pendingVars, linkVars, ackVars, owed, writeVars>>

WritePing ==
    /\ TaskGoes("pingWrite", "clean")
    /\ WriteOk
    /\ UNCHANGED <<appVars, pendingVars, linkVars, out, ackVars, raced>>

\* esp_mqtt_abort_connection, after a read or a ping that failed.
AbortConnection ==
    /\ drops < MaxDrops
    /\ TaskGoes("receive", "down") \/ TaskGoes("pingWrite", "down")
    /\ clientState' = "WAIT_TIMEOUT"
    /\ drops' = drops + 1
    /\ owed' = {}
    /\ UNCHANGED <<appVars, pendingVars, incoming, out, ackVars, writeVars, raced>>

\* transport_connect and esp_mqtt_connect, which overwrites what was pending.
Reconnect ==
    /\ \/ TaskGoes("down", "receive") /\ clientState' = "CONNECTED"
       \/ TaskGoes("down", "down") /\ UNCHANGED clientState     \* not accepted
    /\ TaskBuilds("CONNECT", 0)
    /\ pendingType' = "CONNECT"
    /\ pendingId' = 0
    /\ UNCHANGED <<appVars, count, outbox, expired, incoming, drops, ackVars,
                   owed, writeVars>>

\* outbox_delete_expired and outbox_cleanup.  A tick is the number of a call: of
\* two items, the one enqueued first expires first.
Clean ==
    /\ TaskGoes("ping", "receive") \/ TaskGoes("clean", "receive")
    /\ \E now \in 0..call.n + 1 :
         outbox' = Cleanup(DeleteExpired(outbox, now, 0), OutboxMax)
    /\ expired' = expired \cup {<<item.msg_type, item.msg_id>> :
                                  item \in ToSet(outbox) \ ToSet(outbox')}
    /\ UNCHANGED <<appVars, pendingType, pendingId, count, linkVars, out, ackVars,
                   owed, writeVars, raced>>

TaskActs ==
    \/ ReceiveNothing \/ (\E m \in owed : ReceiveAck(m) \/ ReceiveStep(m))
    \/ MatchOutbox \/ ComparePending \/ LoadCount \/ Decrement
    \/ ReceiveRequest \/ WriteAnswer \/ Ping \/ WritePing
    \/ AbortConnection \/ Reconnect \/ Clean

SessionNext == AppActs \/ TaskActs

SessionSpec == SessionInit /\ [][SessionNext]_sessionVars

\* A race leaves the client's data as the hardware happens to leave it: behaviours
\* are followed until the first one.
NotRaced == ~raced

IdsAreAlike == Permutations(Ids)

-----------------------------------------------------------------------------

\* Acknowledgements of QoS 1 publishes, subscriptions and unsubscriptions that
\* the broker has still to send for a message of this type and id.
OwedFor(type, id) ==
    {m \in owed : m.kind \in Acks \ {"PUBCOMP"} /\ Awaited(m.kind) = type /\ m.id = id}

\* The acknowledgement that has arrived and is not yet recognised.
Heard(type, id) ==
    IF taskAt = "match" /\ Awaited(held.kind) = type /\ held.id = id THEN 1 ELSE 0

Listed(type, id) == {i \in DOMAIN outbox : outbox[i].msg_type = type /\ outbox[i].msg_id = id}

Pending(type, id) == pendingType = type /\ pendingId = id

\* is_valid_mqtt_msg recognises every acknowledgement that is to come or has just
\* arrived: its message is counted, and is the latest one or in the outbox, whatever the
\* application has sent since; and what was not in the outbox is still the pending
\* message when it is compared.  (Not if it expired, and not after a race: two messages
\* built at once, a count changed by both threads, or a pending message replaced between
\* the look into the outbox and the comparison.)
AckAwaited ==
    raced \/
      /\ Cardinality({m \in owed : m.kind \in Acks \ {"PUBCOMP"}})
           + (IF taskAt \in {"match", "compare", "load"} /\ held.kind # "PUBCOMP" THEN 1 ELSE 0)
             <= count
      /\ \A type \in {"PUBLISH", "SUBSCRIBE", "UNSUBSCRIBE"}, id \in Ids :
            \/ Pending(type, id)
            \/ <<type, id>> \in expired
            \/ Cardinality(OwedFor(type, id)) + Heard(type, id) <= Cardinality(Listed(type, id))
      /\ taskAt = "compare" /\ held.kind # "PUBCOMP" =>
            LET type == Awaited(held.kind)
            IN  Pending(type, held.id) \/ <<type, held.id>> \in expired

\* No message of the application is written twice or after a later one, and every call
\* that reported success has written its own message (or the first bytes of it: a success
\* says nothing of the broker), unless the task and the application built messages in
\* the one buffer at the same time.
WrittenOnce ==
    raced \/ (~again /\ sent <= written)

=============================================================================

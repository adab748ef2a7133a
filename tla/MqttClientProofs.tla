------------------------- MODULE MqttClientProofs -------------------------
(***************************************************************************)
(* Proofs for the two modules of the MQTT client.                          *)
(*                                                                         *)
(* MqttLifecycle: an application that waits for the connection before its  *)
(* next call gets one task at most, and none after a stop.                 *)
(*                                                                         *)
(* MqttSession: until the two threads race for the shared buffer or the    *)
(* count, no message is sent twice and every acknowledgement that is still *)
(* to come will be recognised.                                             *)
(***************************************************************************)
EXTENDS MqttLifecycle, MqttSession, AlgorithmsProofs

\* What the application does keeps the types.
LEMMA AppKeepsTypes ==
    ASSUME TypeOK, Start \/ Stop \/ AppContinues
    PROVE  TypeOK'
<1> USE DEF TypeOK, States, AppPcs, Phases, StartingPcs, RunningPcs, App
<1>1. CASE AppContinues
  BY <1>1 DEF AppContinues, Create, CreateFails, StartClears, AwaitStopped,
              SetUnknown, Free
<1>2. CASE Start \/ Stop
  BY <1>2 DEF Start, Stop
<1>3. QED
  BY <1>1, <1>2

\* What a task does keeps them; the counters of the tasks first, then the rest.
LEMMA TaskKeepsTypes ==
    ASSUME TypeOK, NEW k \in TaskIds, TaskStep(k)
    PROVE  TypeOK'
<1> USE DEF TypeOK, States, AppPcs, Phases, StartingPcs, RunningPcs, Task
<1> DEFINE Pcs == {"none"} \cup StartingPcs \cup RunningPcs
<1>1. \A from, to : Task(k, from, to) /\ to \in Pcs => taskPc' \in [TaskIds -> Pcs]
  OBVIOUS
<1>2. taskPc' \in [TaskIds -> Pcs]
  BY <1>1, Zenon DEF TaskStep, TaskSetsRun, TaskSetsInit, TaskClears, Loop, Switch, Connect,
       Handshake, NotifyUp, Receive, Abort, Wait, CloseTransport, SetStopped
<1> DEFINE Rest == /\ state' \in States /\ appPc' \in AppPcs /\ phase' \in Phases
                   /\ run' \in BOOLEAN /\ stopped' \in BOOLEAN /\ open' \in BOOLEAN
                   /\ connectedBit' \in BOOLEAN /\ autoReconnect' \in BOOLEAN
                   /\ destroying' \in BOOLEAN
<1> HIDE DEF Task, States, AppPcs, Phases
<1>3. {"INIT", "CONNECTED", "WAIT_TIMEOUT"} \subseteq States /\ "up" \in Phases
  BY DEF States, Phases
<1>4. CASE TaskSetsRun(k) \/ TaskSetsInit(k) \/ TaskClears(k)
  <2>1. Rest
    BY <1>4, <1>3 DEF TaskSetsRun, TaskSetsInit, TaskClears
  <2>2. QED
    BY <1>2, <2>1
<1>5. CASE Loop(k) \/ Switch(k) \/ Connect(k) \/ Handshake(k) \/ NotifyUp(k)
  <2>1. Rest
    BY <1>5, <1>3 DEF Loop, Switch, Connect, Handshake, NotifyUp
  <2>2. QED
    BY <1>2, <2>1
<1>6. CASE Receive(k) \/ Abort(k) \/ Wait(k) \/ CloseTransport(k) \/ SetStopped(k)
  <2>1. Rest
    BY <1>6, <1>3 DEF Receive, Abort, Wait, CloseTransport, SetStopped
  <2>2. QED
    BY <1>2, <2>1
<1>7. QED
  BY <1>4, <1>5, <1>6 DEF TaskStep

\* TypeOK: every variable keeps its type, whatever the application does.
THEOREM TypeCorrect == Spec => []TypeOK
<1>1. ASSUME TypeOK, Next PROVE TypeOK'
  BY <1>1, AppKeepsTypes, TaskKeepsTypes DEF Next
<1>2. TypeOK /\ UNCHANGED vars => TypeOK'
  BY DEF TypeOK, vars
<1>3. Init => TypeOK
  BY DEF Init, TypeOK, States, AppPcs, Phases
<1>4. QED
  BY <1>1, <1>2, <1>3, PTL DEF Spec

-----------------------------------------------------------------------------
(***************************************************************************)
(* The inductive invariant.  A task is the only one because it is created  *)
(* from the state UNKNOWN, which the application meets only when no task   *)
(* is there: not between a start and the connection, because it waits, and *)
(* not afterwards, because the task never goes back to UNKNOWN.            *)
(***************************************************************************)

\* Without a task the state is UNKNOWN in the phases "new" and "stopped"; in
\* phase "up" it is not, until a stop sets it.
Phased ==
    /\ phase \in {"new", "stopped"} => Live = {} /\ state = "UNKNOWN"
    /\ phase = "up" => state # "UNKNOWN" /\ \A k \in TaskIds : taskPc[k] \notin StartingPcs
    /\ \A k \in TaskIds : taskPc[k] \in RunningPcs \cup {"clear"} => state # "UNKNOWN"

\* The application's thread is where its patience lets it be.
AppPhase ==
    /\ appPc = "create" => phase \in {"new", "stopped"}
    /\ appPc = "clear" => phase \in {"starting", "up"}
    /\ appPc \in {"wait", "unknown"} => phase \in {"up", "stopped"}
    /\ appPc \in {"free", "gone"} => phase = "stopped"

\* STOPPED_BIT is clear while a task works, so it cannot end a wait too early.
BitClear == \A k \in TaskIds : taskPc[k] \in RunningPcs => ~stopped

\* A transport is open only in the middle of a task's life.
OpenOnlyRunning ==
    open => \E k \in TaskIds : taskPc[k] \in RunningPcs \ {"setStopped"}

IInv ==
    /\ TypeOK
    /\ OneTask
    /\ Phased
    /\ AppPhase
    /\ BitClear
    /\ OpenOnlyRunning
    /\ NoTaskAfterStop

\* The inductive invariant holds when the client has just been made.
LEMMA IInvInit == Init => IInv
BY DEF Init, IInv, TypeOK, States, AppPcs, Phases, StartingPcs, RunningPcs,
       OneTask, Live, Phased, AppPhase, BitClear, OpenOnlyRunning, NoTaskAfterStop

\* The application's steps.
LEMMA AppKeeps ==
    ASSUME IInv, TypeOK', AppWaits, Start \/ Stop \/ AppContinues
    PROVE  IInv'
<1> USE DEF IInv, TypeOK, States, AppPcs, Phases, StartingPcs, RunningPcs, App,
            OneTask, Live, Phased, AppPhase, BitClear, OpenOnlyRunning, NoTaskAfterStop
<1>1. CASE Start
  <2>1. phase \in {"new", "stopped"}
    BY <1>1 DEF Start, MayStart
  <2>2. QED
    BY <1>1, <2>1 DEF Start
<1>2. CASE Stop
  BY <1>2 DEF Stop, MayStop
<1>3. ASSUME NEW k \in TaskIds, Create(k) PROVE IInv'
  <2>1. Live = {} /\ ~open
    BY <1>3 DEF Create
  <2>2. Live' = {k} /\ \A j \in TaskIds : taskPc'[j] = IF j = k THEN "run" ELSE "none"
    BY <1>3, <2>1 DEF Create
  <2>3. QED
    BY <1>3, <2>1, <2>2 DEF Create
<1>4. CASE CreateFails \/ StartClears \/ Free
  BY <1>4 DEF CreateFails, StartClears, Free
<1>5. CASE AwaitStopped
  <2>1. \A k \in TaskIds : taskPc[k] = "none"
    BY <1>5 DEF AwaitStopped
  <2>2. QED
    BY <1>5, <2>1 DEF AwaitStopped
<1>6. CASE SetUnknown
  BY <1>6 DEF SetUnknown
<1>7. QED
  BY <1>1, <1>2, <1>3, <1>4, <1>5, <1>6 DEF AppContinues

\* The task's steps.
LEMMA TaskKeeps ==
    ASSUME IInv, TypeOK', NEW k \in TaskIds, TaskStep(k)
    PROVE  IInv'
<1> USE DEF IInv, TypeOK, States, AppPcs, Phases, StartingPcs, RunningPcs, Task
<1>1. /\ Live = {k}
      /\ Live' = IF taskPc'[k] = "none" THEN {} ELSE {k}
      /\ \A j \in TaskIds \ {k} : taskPc[j] = "none" /\ taskPc'[j] = "none"
  <2>1. taskPc[k] # "none" /\ \E to : taskPc' = [taskPc EXCEPT ![k] = to]
    BY DEF TaskStep, TaskSetsRun, TaskSetsInit, TaskClears, Loop, Switch, Connect,
           Handshake, NotifyUp, Receive, Abort, Wait, CloseTransport, SetStopped
  <2>2. QED
    BY <2>1 DEF OneTask, Live
<1>2. phase \in {"starting", "up"} /\ appPc \notin {"create", "unknown", "free", "gone"}
  BY <1>1 DEF Phased, AppPhase, NoTaskAfterStop
<1> USE DEF Phased, AppPhase, BitClear, OpenOnlyRunning, NoTaskAfterStop, OneTask
<1>3. CASE TaskSetsRun(k)
  BY <1>1, <1>2, <1>3 DEF TaskSetsRun
<1>4. CASE TaskSetsInit(k)
  BY <1>1, <1>2, <1>4 DEF TaskSetsInit
<1>5. CASE TaskClears(k)
  <2>1. /\ taskPc[k] = "clear" /\ taskPc'[k] = "loop"
        /\ ~stopped' /\ ~open' /\ phase # "up" /\ state' # "UNKNOWN"
    BY <1>1, <1>5 DEF TaskClears
  <2>2. QED
    BY <1>1, <1>2, <1>5, <2>1 DEF TaskClears
<1>6. CASE Loop(k) \/ Connect(k)
  BY <1>1, <1>2, <1>6 DEF Loop, Connect
<1>7. CASE Handshake(k) \/ NotifyUp(k)
  BY <1>1, <1>2, <1>7 DEF Handshake, NotifyUp
<1>8. CASE Switch(k)
  BY <1>1, <1>2, <1>8 DEF Switch
<1>9. CASE Receive(k) \/ Abort(k) \/ Wait(k)
  BY <1>1, <1>2, <1>9 DEF Receive, Abort, Wait
<1>10. CASE CloseTransport(k) \/ SetStopped(k)
  BY <1>1, <1>2, <1>10 DEF CloseTransport, SetStopped
<1>11. QED
  BY <1>3, <1>4, <1>5, <1>6, <1>7, <1>8, <1>9, <1>10 DEF TaskStep

\* Every step of an application that waits keeps the inductive invariant.
LEMMA IInvNext == AppWaits /\ IInv /\ TypeOK' /\ [Next]_vars => IInv'
<1> SUFFICES ASSUME AppWaits, IInv, TypeOK', [Next]_vars PROVE IInv'
  OBVIOUS
<1>1. CASE Start \/ Stop \/ AppContinues
  BY <1>1, AppKeeps
<1>2. CASE \E k \in TaskIds : TaskStep(k)
  BY <1>2, TaskKeeps
<1>3. CASE UNCHANGED vars
  BY <1>3 DEF vars, IInv, TypeOK, OneTask, Live, Phased, AppPhase, BitClear,
              OpenOnlyRunning, NoTaskAfterStop
<1>4. QED
  BY <1>1, <1>2, <1>3 DEF Next

\* The inductive invariant holds in every reachable state of such an application.
LEMMA Invariant == ASSUME AppWaits PROVE Spec => []IInv
<1>1. AppWaits
  OBVIOUS
<1>2. QED
  BY IInvInit, IInvNext, TypeCorrect, <1>1, PTL DEF Spec

\* OneTask: no two tasks ever work for one client, if the application waits
\* for the connection before its next call.
THEOREM OnlyOneTask == ASSUME AppWaits PROVE Spec => []OneTask
<1>1. IInv => OneTask
  BY DEF IInv
<1>2. QED
  BY Invariant, <1>1, PTL

\* NoTaskAfterStop: under the same condition, stop and destroy go on only when
\* the task has ended, so destroy frees a client that nobody uses.
THEOREM StopIsFinal == ASSUME AppWaits PROVE Spec => []NoTaskAfterStop
<1>1. IInv => NoTaskAfterStop
  BY DEF IInv
<1>2. QED
  BY Invariant, <1>1, PTL

\* SocketClosed: under the same condition, a socket does not outlive the task.
THEOREM NoSocketLeft == ASSUME AppWaits PROVE Spec => []SocketClosed
<1>1. IInv => SocketClosed
  BY DEF IInv, OpenOnlyRunning, SocketClosed, Live, RunningPcs
<1>2. QED
  BY Invariant, <1>1, PTL

-----------------------------------------------------------------------------
(***************************************************************************)
(* CONNECTED_BIT.  The state changes and the event handler sets the bit in *)
(* two steps of the task, so the bit is right before and after a pass      *)
(* through them, and where the task is tells which of the two is behind.   *)
(***************************************************************************)

\* What the task may rely on at each of its places.
BitAt(k) ==
    /\ taskPc[k] = "clear" => state = "INIT"
    /\ taskPc[k] = "notifyUp" => state = "CONNECTED"
    /\ taskPc[k] = "notifyDown" => state = "WAIT_TIMEOUT"
    /\ taskPc[k] = "receive" => state = "CONNECTED"
    /\ taskPc[k] = "wait" => state = "WAIT_TIMEOUT"
    /\ taskPc[k] \in {"loop", "switch", "receive", "wait"}
         /\ state \in {"CONNECTED", "WAIT_TIMEOUT"}
         => (connectedBit <=> state = "CONNECTED")

BitInv == \A k \in TaskIds : BitAt(k)

\* The application changes the state only when no task is left, and the bit
\* never.
LEMMA AppKeepsBit ==
    ASSUME IInv, BitInv, Start \/ Stop \/ AppContinues
    PROVE  BitInv'
<1> SUFFICES ASSUME NEW j \in TaskIds PROVE BitAt(j)'
  BY DEF BitInv
<1>1. BitAt(j)
  BY DEF BitInv
<1>2. CASE Start \/ Stop \/ CreateFails \/ StartClears \/ AwaitStopped \/ Free
  BY <1>1, <1>2 DEF Start, Stop, CreateFails, StartClears, AwaitStopped, Free, BitAt
<1>3. ASSUME NEW k \in TaskIds, Create(k) PROVE BitAt(j)'
  BY <1>1, <1>3 DEF Create, BitAt, IInv, TypeOK
<1>4. CASE SetUnknown
  <2>1. taskPc[j] = "none"
    BY <1>4 DEF SetUnknown, App, IInv, NoTaskAfterStop, Live
  <2>2. QED
    BY <1>4, <2>1 DEF SetUnknown, BitAt
<1>5. QED
  BY <1>2, <1>3, <1>4 DEF AppContinues

\* The task's own steps; it is the only one.
LEMMA TaskKeepsBit ==
    ASSUME IInv, BitInv, NEW k \in TaskIds, TaskStep(k)
    PROVE  BitInv'
<1> SUFFICES ASSUME NEW j \in TaskIds PROVE BitAt(j)'
  BY DEF BitInv
<1>1. BitAt(j) /\ taskPc \in [TaskIds -> {"none"} \cup StartingPcs \cup RunningPcs]
  BY DEF BitInv, IInv, TypeOK
<1>2. taskPc[k] # "none" /\ \E to : taskPc' = [taskPc EXCEPT ![k] = to]
  BY DEF TaskStep, TaskSetsRun, TaskSetsInit, TaskClears, Loop, Switch, Connect,
         Handshake, NotifyUp, Receive, Abort, Wait, CloseTransport, SetStopped, Task
<1>3. CASE j # k
  <2>1. taskPc[j] = "none" /\ taskPc'[j] = "none"
    BY <1>1, <1>2, <1>3 DEF IInv, OneTask, Live
  <2>2. QED
    BY <2>1 DEF BitAt
<1>4. CASE j = k
  <2> USE DEF Task, BitAt
  <2>1. CASE TaskSetsRun(k) \/ TaskSetsInit(k) \/ TaskClears(k) \/ Loop(k)
    BY <1>1, <1>4, <2>1 DEF TaskSetsRun, TaskSetsInit, TaskClears, Loop
  <2>2. CASE Switch(k)
    BY <1>1, <1>4, <2>2 DEF Switch
  <2>3. CASE Connect(k) \/ Handshake(k) \/ NotifyUp(k)
    BY <1>1, <1>4, <2>3 DEF Connect, Handshake, NotifyUp
  <2>4. CASE Receive(k) \/ Abort(k)
    BY <1>1, <1>4, <2>4 DEF Receive, Abort
  <2>5. CASE Wait(k) \/ CloseTransport(k) \/ SetStopped(k)
    BY <1>1, <1>4, <2>5 DEF Wait, CloseTransport, SetStopped
  <2>6. QED
    BY <2>1, <2>2, <2>3, <2>4, <2>5 DEF TaskStep
<1>5. QED
  BY <1>3, <1>4

\* Every step keeps the claim about the stopped bit.
LEMMA BitInvNext == IInv /\ BitInv /\ [Next]_vars => BitInv'
<1>1. CASE UNCHANGED vars
  BY <1>1 DEF vars, BitInv, BitAt
<1>2. QED
  BY <1>1, AppKeepsBit, TaskKeepsBit DEF Next

\* BitFollowsState: under the same condition, whenever the task has handled
\* the outcome of a connection, the wrapper's CONNECTED_BIT tells whether the
\* connection is up.
THEOREM BitIsRight == ASSUME AppWaits PROVE Spec => []BitFollowsState
<1>1. Init => BitInv
  BY DEF Init, BitInv, BitAt
<1>2. BitInv => BitFollowsState
  BY DEF BitInv, BitAt, BitFollowsState
<1>3. QED
  BY Invariant, BitInvNext, <1>1, <1>2, PTL DEF Spec


-----------------------------------------------------------------------------

\* So does one after the other, as the task calls them.
LEMMA CleanThins ==
    ASSUME NEW I, NEW box \in Seq(I), NEW now, NEW max_size
    PROVE  Cleanup(DeleteExpired(box, now, 0), max_size) \in Thinned(box)
<1> DEFINE kept == DeleteExpired(box, now, 0)
           rest == Cleanup(kept, max_size)
<1>1. kept \in Seq(ToSet(box)) /\ (Stamped(box) => Stamped(kept))
  BY DeleteExpiredThins DEF Thinned
<1> HIDE DEF kept
<1>2. rest \in Seq(ToSet(kept)) /\ (Stamped(kept) => Stamped(rest))
  BY <1>1, CleanupThins DEF Thinned
<1>3. ToSet(kept) \subseteq ToSet(box)
  BY <1>1 DEF ToSet
<1> HIDE DEF rest
<1>4. rest \in Seq(ToSet(box))
  BY <1>2, <1>3
<1>5. rest \in Thinned(box)
  BY <1>1, <1>2, <1>4 DEF Thinned
<1>6. QED
  BY <1>5 DEF kept, rest

-----------------------------------------------------------------------------

\* The kinds and types of message, and the ids: 0 stands for none.
Words == {"none", "CONNECT", "PUBLISH", "PUBLISH0", "PUBLISH1", "PUBLISH2", "SUBSCRIBE",
          "UNSUBSCRIBE", "PUBACK", "PUBREC", "PUBREL", "PUBCOMP", "SUBACK", "UNSUBACK",
          "PINGREQ", "PINGRESP"}
AnyId == Ids \cup {0}
Messages == [kind : Words, id : AnyId, n : Int]
Items == [msg_id : AnyId, msg_type : Words, tick : Nat, len : Nat, data : Words,
          pending : BOOLEAN]

\* Every variable has its type; what the broker owes is finite.
SessionTypes ==
    /\ call \in Messages /\ call.n \in Nat
    /\ out \in Messages
    /\ pendingType \in Words /\ pendingId \in AnyId
    /\ count \in Int /\ appCount \in Int /\ taskCount \in Int
    /\ outbox \in Seq(Items)
    /\ appAt \in {"idle", "enqueue", "append", "build", "pend", "store", "write"}
    /\ taskAt \in {"receive", "match", "compare", "load", "decrement", "answer", "ping",
                   "pingWrite", "clean", "down"}
    /\ held \in Messages /\ (taskAt \in {"match", "compare", "load"} => held.kind \in Acks)
    /\ owed \in SUBSET Messages /\ IsFiniteSet(owed)
    /\ written \in Nat /\ sent \in Nat

\* The two ghosts that are only set.
Flags == again \in BOOLEAN /\ raced \in BOOLEAN

\* The two Boolean ghosts stay Boolean.
LEMMA FlagsNext == Flags /\ [SessionNext]_sessionVars => Flags'
BY DEF Flags, SessionNext, sessionVars, AppActs, TaskActs, Call, TestPending, EnqueuePending, Build, Pend,
   StoreCount, Write, ReceiveNothing, ReceiveAck, MatchOutbox, ComparePending, LoadCount,
     ReceiveStep, Decrement, ReceiveRequest,
   WriteAnswer, Ping, WritePing, AbortConnection, Reconnect, Clean, TaskBuilds, WriteOk,
   WriteFails, writeVars

\* Answer, case by case.
LEMMA AnswerIs ==
    ASSUME NEW kind
    PROVE  /\ kind = "PUBLISH1" => Answer(kind) = {"PUBACK"}
           /\ kind = "PUBLISH2" => Answer(kind) = {"PUBREC"}
           /\ kind = "PUBREL" => Answer(kind) = {"PUBCOMP"}
           /\ kind = "PUBREC" => Answer(kind) = {"PUBREL"}
           /\ kind = "SUBSCRIBE" => Answer(kind) = {"SUBACK"}
           /\ kind = "UNSUBSCRIBE" => Answer(kind) = {"UNSUBACK"}
           /\ kind \notin {"PUBLISH1", "PUBLISH2", "PUBREL", "PUBREC", "SUBSCRIBE", "UNSUBSCRIBE"} =>
                Answer(kind) = {}
BY DEF Answer

\* The broker's answers to a message: none or one.
Answers(m) == {Message(kind, m.id, m.n) : kind \in Answer(m.kind)}

\* The broker has at most one answer to a message.
LEMMA AnswersAre ==
    ASSUME NEW m \in Messages
    PROVE  /\ Answers(m) \in SUBSET Messages /\ IsFiniteSet(Answers(m))
           /\ Answers(m) = {} \/ \E k \in Words : Answers(m) = {Message(k, m.id, m.n)}
<1>1. Answer(m.kind) = {} \/ \E k \in Words : Answer(m.kind) = {k}
  BY AnswerIs DEF Words
<1>2. CASE Answer(m.kind) = {}
  <2>1. Answers(m) = {}
    BY <1>2 DEF Answers
  <2>2. QED
    BY <2>1, FS_EmptySet
<1>3. ASSUME NEW k \in Words, Answer(m.kind) = {k} PROVE Answers(m) = {Message(k, m.id, m.n)}
  BY <1>3 DEF Answers
<1>4. ASSUME NEW k \in Words PROVE Message(k, m.id, m.n) \in Messages
  BY DEF Message, Messages
<1>5. ASSUME NEW x PROVE IsFiniteSet({x})
  BY FS_Singleton
<1>6. CASE Answer(m.kind) # {}
  <2>1. PICK k \in Words : Answer(m.kind) = {k}
    BY <1>1, <1>6
  <2>2. Answers(m) = {Message(k, m.id, m.n)}
    BY <1>3, <2>1
  <2>3. QED
    BY <1>4, <1>5, <2>2
<1>7. QED
  BY <1>2, <1>6

\* After a write the broker owes the answer too, or not.
LEMMA WriteOkOwes ==
    ASSUME SessionTypes, WriteOk
    PROVE  owed' = owed \/ owed' = owed \cup Answers(out)
<1>1. PICK answers \in SUBSET Answers(out) : owed' = owed \cup answers
  BY DEF WriteOk, Answers
<1>2. Answers(out) = {} \/ \E x : Answers(out) = {x}
  BY AnswersAre DEF SessionTypes
<1>3. answers = {} \/ answers = Answers(out)
  BY <1>1, <1>2
<1>4. QED
  BY <1>1, <1>3

\* A write leaves finitely many typed answers owed.
LEMMA WriteOkTyped ==
    ASSUME SessionTypes, WriteOk
    PROVE  owed' \in SUBSET Messages /\ IsFiniteSet(owed') /\ written' \in Nat
<1>1. Answers(out) \in SUBSET Messages /\ IsFiniteSet(Answers(out))
  BY AnswersAre DEF SessionTypes
<1>2. owed' = owed \/ owed' = owed \cup Answers(out)
  BY WriteOkOwes
<1>3. IsFiniteSet(owed) /\ IsFiniteSet(owed \cup Answers(out))
  BY <1>1, FS_Union DEF SessionTypes
<1>4. written' \in Nat
  BY DEF WriteOk, SessionTypes, Messages
<1>5. QED
  BY <1>1, <1>2, <1>3, <1>4 DEF SessionTypes

\* What outbox_delete removes when there is a match: the item at a place with
\* that id and type.
LEMMA DeleteIs ==
    ASSUME NEW box \in Seq(Items), NEW id, NEW type, Matching(box, id, type) # 0
    PROVE  /\ Matching(box, id, type) \in DOMAIN box
           /\ box[Matching(box, id, type)].msg_id = id
           /\ box[Matching(box, id, type)].msg_type = type
           /\ Delete(box, id, type) = RemoveAt(box, Matching(box, id, type))
           /\ Delete(box, id, type) \in Seq(Items)
<1> DEFINE P == {i \in DOMAIN box : box[i].msg_id = id /\ box[i].msg_type = type}
<1>1. P \in SUBSET Nat
  OBVIOUS
<1>2. P # {}
  BY DEF Matching, First
<1>3. First(P) \in P
  BY <1>1, <1>2, FirstIsIn
<1>4. QED
  BY <1>3, RemoveAtIs DEF Matching, Delete

\* Types: initially, after the application, after the task, after a stutter.
LEMMA TypesInit == SessionInit => SessionTypes
BY FS_EmptySet DEF SessionInit, SessionTypes, NoMessage, Messages, Message, AnyId, Words

\* The steps of the application keep the types.
LEMMA AppTypes == ASSUME SessionTypes, AppActs PROVE SessionTypes'
<1> USE DEF SessionTypes, AppGoes, appVars, pendingVars, linkVars, ackVars, writeVars
<1>1. ASSUME NEW kind \in Kinds, Call(kind) PROVE SessionTypes'
  <2>1. call' \in Messages /\ call'.n \in Nat
    BY <1>1, KindsAssumption DEF Call, Messages, Message, AnyId, Words
  <2>2. QED
    BY <1>1, <2>1 DEF Call
<1>8. CASE TestPending
  BY <1>8 DEF TestPending
<1>2. CASE EnqueuePending
  <2>1. Enqueue(outbox, out.kind, Length(out), pendingId, pendingType, call.n) \in Seq(Items)
    BY DEF Enqueue, Items, Messages, Length
  <2>2. outbox' \in Seq(Items)
    BY <1>2, <2>1 DEF EnqueuePending
  <2>3. QED
    BY <1>2, <2>2 DEF EnqueuePending
<1>3. CASE Build
  <2>1. PICK id \in IF call.kind = "PUBLISH0" THEN {0} ELSE Ids :
          \/ out' = Message(call.kind, id, call.n) /\ call' = [call EXCEPT !.id = id]
          \/ /\ out' = Unfit(call.n)
             /\ call' = [call EXCEPT !.id = IF Type(call.kind) = "PUBLISH" THEN 0 ELSE id]
    BY <1>3 DEF Build
  <2>2. id \in AnyId /\ 0 \in AnyId
    BY DEF AnyId
  <2>3. out' \in Messages
    <3>1. Message(call.kind, id, call.n) \in Messages
      BY <2>2 DEF Message, Messages
    <3>2. Unfit(call.n) \in Messages
      BY DEF Unfit, Messages
    <3>3. QED
      BY <2>1, <3>1, <3>2
  <2>4. call' \in Messages /\ call'.n = call.n
    BY <2>1, <2>2 DEF Messages
  <2>5. pendingId' \in AnyId
    BY <1>3, <2>4 DEF Build, Messages
  <2>6. QED
    BY <1>3, <2>3, <2>4, <2>5 DEF Build
<1>4. CASE Pend
  <2>1. pendingType' \in Words /\ pendingId' \in AnyId
    BY <1>4 DEF Pend, Messages, Type, Words
  <2>2. QED
    BY <1>4, <2>1 DEF Pend
<1>5. CASE StoreCount
  BY <1>5 DEF StoreCount
<1>6. CASE Write
  <2>1. owed' \in SUBSET Messages /\ IsFiniteSet(owed') /\ written' \in Nat
    BY <1>6, WriteOkTyped DEF Write, WriteFails
  <2>2. sent' \in Nat
    BY <1>6 DEF Write
  <2>3. QED
    BY <1>6, <2>1, <2>2 DEF Write
<1>7. QED
  BY <1>1, <1>2, <1>3, <1>4, <1>5, <1>6, <1>8 DEF AppActs

\* The steps of the client task keep the types.
LEMMA TaskTypes == ASSUME SessionTypes, TaskActs PROVE SessionTypes'
<1> USE DEF SessionTypes, TaskGoes, appVars, pendingVars, linkVars, ackVars, writeVars
<1>0. ASSUME NEW kind \in Words, NEW id \in AnyId, TaskBuilds(kind, id) PROVE out' \in Messages
  BY <1>0 DEF TaskBuilds, Message, Messages
<1>1. ASSUME NEW m \in owed, Reads(m) PROVE owed' \in SUBSET Messages /\ IsFiniteSet(owed')
  <2>1. owed' \in SUBSET owed
    BY <1>1 DEF Reads
  <2>2. QED
    BY <2>1, FS_Subset
<1>2. CASE ReceiveNothing
  BY <1>2 DEF ReceiveNothing
<1>3. ASSUME NEW m \in owed, ReceiveAck(m) PROVE SessionTypes'
  <2>1. m \in Messages /\ m.kind \in Acks
    BY <1>3 DEF ReceiveAck
  <2>2. owed' \in SUBSET Messages /\ IsFiniteSet(owed')
    BY <1>1, <1>3 DEF ReceiveAck
  <2>3. QED
    BY <1>3, <2>1, <2>2 DEF ReceiveAck
<1>13. NoMessage \in Messages
  BY DEF NoMessage, Message, Messages, AnyId, Words
<1>14. CASE MatchOutbox
  <2>1. outbox' \in Seq(Items)
    BY <1>14, DeleteIs DEF MatchOutbox
  <2>2. QED
    BY <1>14, <2>1 DEF MatchOutbox
<1>15. CASE ComparePending
  BY <1>13, <1>15 DEF ComparePending
<1>16. CASE LoadCount
  BY <1>16 DEF LoadCount
<1>4. CASE Decrement
  BY <1>4, <1>13 DEF Decrement
<1>5. ASSUME NEW m \in owed, ReceiveStep(m) PROVE SessionTypes'
  <2>1. m.id \in AnyId
    BY DEF Messages
  <2>2. out' \in Messages
    BY <1>0, <1>5, <2>1 DEF ReceiveStep, Words
  <2>3. owed' \in SUBSET Messages /\ IsFiniteSet(owed')
    BY <1>1, <1>5 DEF ReceiveStep
  <2>4. QED
    BY <1>5, <2>2, <2>3 DEF ReceiveStep
<1>6. CASE ReceiveRequest
  <2>1. out' \in Messages
    BY <1>0, <1>6 DEF ReceiveRequest, AnyId, Words
  <2>2. QED
    BY <1>6, <2>1 DEF ReceiveRequest
<1>7. CASE WriteAnswer \/ WritePing
  <2>1. owed' \in SUBSET Messages /\ IsFiniteSet(owed') /\ written' \in Nat
    BY <1>7, WriteOkTyped DEF WriteAnswer, WritePing, WriteFails
  <2>2. QED
    BY <1>7, <2>1 DEF WriteAnswer, WritePing
<1>8. CASE Ping
  <2>1. out' \in Messages
    BY <1>0, <1>8 DEF Ping, AnyId, Words
  <2>2. QED
    BY <1>8, <2>1 DEF Ping
<1>9. CASE AbortConnection
  BY <1>9, FS_EmptySet DEF AbortConnection
<1>10. CASE Reconnect
  <2>1. out' \in Messages /\ pendingId' \in AnyId /\ pendingType' \in Words
    BY <1>0, <1>10 DEF Reconnect, AnyId, Words
  <2>2. QED
    BY <1>10, <2>1 DEF Reconnect
<1>11. CASE Clean
  <2>1. PICK now : outbox' = Cleanup(DeleteExpired(outbox, now, 0), OutboxMax)
    BY <1>11 DEF Clean
  <2>2. outbox' \in Seq(ToSet(outbox))
    BY <2>1, CleanThins DEF Thinned
  <2>3. ToSet(outbox) \subseteq Items
    BY DEF ToSet
  <2>4. outbox' \in Seq(Items)
    BY <2>2, <2>3
  <2>5. QED
    BY <1>11, <2>4 DEF Clean
<1>12. QED
  BY <1>2, <1>3, <1>4, <1>5, <1>6, <1>7, <1>8, <1>9, <1>10, <1>11, <1>14, <1>15, <1>16
     DEF TaskActs

\* And so does a stutter.
LEMMA TypesStutter == SessionTypes /\ UNCHANGED sessionVars => SessionTypes'
BY DEF SessionTypes, sessionVars, appVars, pendingVars, linkVars, ackVars, writeVars

-----------------------------------------------------------------------------

\* An item carries the number of the call that put it into the outbox.
Ticks ==
    /\ Stamped(outbox)
    /\ \A i \in DOMAIN outbox :
          outbox[i].tick <= call.n /\ (appAt \in {"enqueue", "append"} => outbox[i].tick < call.n)

\* What is in the buffer, and what the broker has got, comes from calls made.
Numbers == sent <= call.n /\ written <= call.n /\ out.n <= call.n

\* The broker owes nothing to a client that is not connected.
Offline == taskAt = "down" => clientState # "CONNECTED" /\ owed = {}

\* The fields of an item of the outbox.
LEMMA ItemTypes ==
    ASSUME NEW box \in Seq(Items), NEW i \in DOMAIN box
    PROVE  box[i].tick \in Nat /\ box[i].msg_id \in AnyId /\ box[i].msg_type \in Words
<1>1. box[i] \in Items
  OBVIOUS
<1>2. QED
  BY <1>1 DEF Items

\* outbox_delete only removes.
LEMMA DeleteThins ==
    ASSUME NEW box \in Seq(Items), NEW id, NEW type
    PROVE  Delete(box, id, type) \in Thinned(box)
<1>1. box \in Thinned(box)
  BY DEF Thinned, ToSet
<1>2. CASE Matching(box, id, type) = 0
  BY <1>1, <1>2 DEF Delete
<1>3. CASE Matching(box, id, type) # 0
  BY <1>1, <1>3, DeleteIs, RemoveAtThins
<1>4. QED
  BY <1>2, <1>3

\* Only the application's calls enlarge the outbox.
LEMMA TaskThins ==
    ASSUME SessionTypes, TaskActs
    PROVE  outbox' \in Thinned(outbox) /\ call' = call /\ appAt' = appAt /\ sent' = sent
<1>1. outbox \in Thinned(outbox)
  BY DEF Thinned, ToSet, SessionTypes
<1>2. call' = call /\ appAt' = appAt /\ sent' = sent
  BY DEF TaskActs, ReceiveNothing, ReceiveAck, MatchOutbox, ComparePending, LoadCount,
     ReceiveStep, Decrement, ReceiveRequest,
     WriteAnswer, Ping, WritePing, AbortConnection, Reconnect, Clean, appVars
<1>3. ASSUME MatchOutbox PROVE outbox' \in Thinned(outbox)
  BY <1>1, <1>3, DeleteThins DEF MatchOutbox, SessionTypes
<1>4. ASSUME Clean PROVE outbox' \in Thinned(outbox)
  <2>1. PICK now : outbox' = Cleanup(DeleteExpired(outbox, now, 0), OutboxMax)
    BY <1>4 DEF Clean
  <2>2. QED
    BY <2>1, CleanThins DEF SessionTypes
<1>5. ASSUME UNCHANGED outbox PROVE outbox' \in Thinned(outbox)
  BY <1>1, <1>5
<1>6. QED
  BY <1>2, <1>3, <1>4, <1>5
     DEF TaskActs, ReceiveNothing, ReceiveAck, ComparePending, LoadCount, ReceiveStep,
         Decrement, ReceiveRequest, WriteAnswer, Ping, WritePing, AbortConnection, Reconnect,
         pendingVars

\* Every step keeps Ticks: an item is stamped with its call's number, and each
\* call enqueues once, before the next one begins.
LEMMA TicksNext ==
    ASSUME SessionTypes, SessionTypes', Ticks, [SessionNext]_sessionVars
    PROVE  Ticks'
<1>1. CASE UNCHANGED <<outbox, call, appAt>>
  BY <1>1 DEF Ticks, Stamped
<1>2. CASE TaskActs
  <2>1. outbox' \in Thinned(outbox) /\ call' = call /\ appAt' = appAt
    BY <1>2, TaskThins
  <2>2. \A i \in DOMAIN outbox' : \E j \in DOMAIN outbox : outbox'[i] = outbox[j]
    BY <2>1 DEF Thinned, ToSet
  <2>3. Stamped(outbox)'
    BY <2>1 DEF Thinned, Ticks, Stamped
  <2>4. QED
    BY <2>1, <2>2, <2>3 DEF Ticks
<1>3. ASSUME NEW kind \in Kinds, Call(kind) PROVE Ticks'
  <2>1. outbox' = outbox /\ call'.n = call.n + 1
    BY <1>3 DEF Call, Message, pendingVars
  <2>2. \A i \in DOMAIN outbox : outbox[i].tick \in Nat
    BY ItemTypes DEF SessionTypes
  <2>3. QED
    BY <2>1, <2>2 DEF Ticks, Stamped, SessionTypes
<1>8. CASE TestPending
  <2>1. outbox' = outbox /\ call' = call /\ appAt = "enqueue"
    BY <1>8 DEF TestPending, AppGoes, pendingVars
  <2>2. QED
    BY <2>1 DEF Ticks, Stamped
<1>4. CASE EnqueuePending
  <2> DEFINE item == [msg_id |-> pendingId, msg_type |-> pendingType, tick |-> call.n,
                      len |-> Length(out), data |-> out.kind, pending |-> FALSE]
  <2>1. item.tick = call.n
    OBVIOUS
  <2>2. outbox' = Append(outbox, item)
    BY <1>4 DEF EnqueuePending, Enqueue
  <2>3. call' = call /\ appAt = "append" /\ appAt' = "build"
    BY <1>4 DEF EnqueuePending, AppGoes
  <2> HIDE DEF item
  <2>4. ASSUME outbox' = Append(outbox, item) PROVE Ticks'
    <3>1. /\ DOMAIN outbox' = 1..(Len(outbox) + 1)
          /\ DOMAIN outbox = 1..Len(outbox) /\ Len(outbox) \in Nat
          /\ outbox'[Len(outbox) + 1] = item
          /\ \A i \in 1..Len(outbox) : outbox'[i] = outbox[i] /\ outbox'[i].tick < call.n
      <4>1. outbox \in Seq(Items)
        BY DEF SessionTypes
      <4>2. QED
        BY <2>3, <2>4, <4>1 DEF Ticks
    <3>2. \A i \in DOMAIN outbox' : outbox'[i].tick <= call.n
      <4>1. call.n \in Nat /\ \A x \in 1..Len(outbox) : outbox'[x].tick \in Nat
        BY <3>1, ItemTypes DEF SessionTypes
      <4>2. QED
        BY <2>1, <3>1, <4>1
    <3>3. Stamped(outbox)'
      <4> SUFFICES ASSUME NEW i \in DOMAIN outbox', NEW j \in DOMAIN outbox',
                          outbox'[i].tick = outbox'[j].tick
                   PROVE  i = j
        BY DEF Stamped
      <4>1. CASE i \in 1..Len(outbox) /\ j \in 1..Len(outbox)
        BY <3>1, <4>1 DEF Ticks, Stamped
      <4>2. CASE i = Len(outbox) + 1 \/ j = Len(outbox) + 1
        <5>1. \A x \in 1..Len(outbox) : outbox'[x].tick # outbox'[Len(outbox) + 1].tick
          <6>1. call.n \in Nat /\ \A x \in 1..Len(outbox) : outbox'[x].tick \in Nat
            BY <3>1, ItemTypes DEF SessionTypes
          <6>2. QED
            BY <2>1, <3>1, <6>1
        <5>2. QED
          BY <3>1, <4>2, <5>1
      <4>3. QED
        BY <3>1, <4>1, <4>2
    <3>4. QED
      BY <2>3, <3>2, <3>3 DEF Ticks
  <2>5. QED
    BY <2>2, <2>4
<1>5. CASE Build
  <2>1. outbox' = outbox /\ call'.n = call.n /\ appAt' \notin {"enqueue", "append"}
    <3>1. PICK id : call' = [call EXCEPT !.id = id]
      BY <1>5 DEF Build
    <3>2. call'.n = call.n
      BY <3>1 DEF SessionTypes, Messages
    <3>3. QED
      BY <1>5, <3>2 DEF Build, AppGoes
  <2>2. QED
    BY <2>1 DEF Ticks, Stamped
<1>6. CASE Pend \/ StoreCount \/ Write
  <2>1. outbox' = outbox /\ call' = call /\ appAt' \notin {"enqueue", "append"}
    BY <1>6 DEF Pend, StoreCount, Write, AppGoes, pendingVars
  <2>2. QED
    BY <2>1 DEF Ticks, Stamped
<1>7. QED
  BY <1>1, <1>2, <1>3, <1>4, <1>5, <1>6, <1>8
     DEF SessionNext, AppActs, sessionVars, appVars, pendingVars

\* The state of the connection and what the broker owes.
LEMMA OfflineNext ==
    ASSUME SessionTypes, Offline, [SessionNext]_sessionVars
    PROVE  Offline'
<1> USE DEF Offline, SessionTypes, TaskGoes, appVars, pendingVars, linkVars, ackVars, writeVars
<1>1. CASE AppActs
  BY <1>1 DEF AppActs, Call, TestPending, EnqueuePending, Build, Pend, StoreCount, Write, WriteOk, WriteFails
<1>2. ASSUME NEW m \in owed, ReceiveAck(m) \/ ReceiveStep(m) PROVE Offline'
  BY <1>2 DEF ReceiveAck, ReceiveStep
<1>3. CASE \/ ReceiveNothing \/ MatchOutbox \/ ComparePending \/ LoadCount \/ Decrement
           \/ ReceiveRequest
  BY <1>3 DEF ReceiveNothing, MatchOutbox, ComparePending, LoadCount, Decrement, ReceiveRequest
<1>4. CASE WriteAnswer \/ Ping \/ WritePing \/ AbortConnection \/ Reconnect \/ Clean
  BY <1>4 DEF WriteAnswer, Ping, WritePing, AbortConnection, Reconnect, Clean
<1>5. CASE UNCHANGED sessionVars
  BY <1>5 DEF sessionVars
<1>6. QED
  BY <1>1, <1>2, <1>3, <1>4, <1>5 DEF SessionNext, TaskActs

\* The task's messages of its own have the number 0.
LEMMA NumbersNext ==
    ASSUME SessionTypes, SessionTypes', Numbers, [SessionNext]_sessionVars
    PROVE  Numbers'
<1>0. call.n \in Nat /\ out.n \in Int /\ written \in Nat /\ sent \in Nat
      /\ out.n <= call.n /\ written <= call.n /\ sent <= call.n
  BY DEF SessionTypes, Messages, Numbers
<1>1. ASSUME NEW kind, NEW id, TaskBuilds(kind, id) PROVE out'.n = 0
  BY <1>1 DEF TaskBuilds, Message
<1>2. ASSUME WriteOk \/ WriteFails PROVE written' <= call.n
  BY <1>0, <1>2 DEF WriteOk, WriteFails, writeVars
<1>3. CASE TaskActs
  <2>1. call' = call /\ sent' = sent
    BY <1>3, TaskThins
  <2>2. out' = out \/ out'.n = 0
    BY <1>1, <1>3 DEF TaskActs, ReceiveNothing, ReceiveAck, MatchOutbox, ComparePending, LoadCount,
     ReceiveStep, Decrement,
         ReceiveRequest, WriteAnswer, Ping, WritePing, AbortConnection, Reconnect, Clean
  <2>3. written' <= call.n
    BY <1>0, <1>2, <1>3 DEF TaskActs, ReceiveNothing, ReceiveAck, MatchOutbox, ComparePending, LoadCount,
     ReceiveStep, Decrement,
         ReceiveRequest, WriteAnswer, Ping, WritePing, AbortConnection, Reconnect, Clean, writeVars
  <2>4. QED
    BY <1>0, <2>1, <2>2, <2>3 DEF Numbers
<1>4. ASSUME NEW kind \in Kinds, Call(kind) PROVE Numbers'
  BY <1>0, <1>4 DEF Call, Message, Numbers, writeVars
<1>5. CASE TestPending \/ EnqueuePending \/ Pend \/ StoreCount
  BY <1>0, <1>5 DEF TestPending, EnqueuePending, Pend, StoreCount, Numbers, writeVars
<1>6. CASE Build
  <2>1. PICK id \in IF call.kind = "PUBLISH0" THEN {0} ELSE Ids :
          \/ out' = Message(call.kind, id, call.n) /\ call' = [call EXCEPT !.id = id]
          \/ /\ out' = Unfit(call.n)
             /\ call' = [call EXCEPT !.id = IF Type(call.kind) = "PUBLISH" THEN 0 ELSE id]
    BY <1>6 DEF Build
  <2>2. call'.n = call.n
    BY <2>1 DEF SessionTypes, Messages
  <2>3. out'.n \in {call.n, -call.n}
    BY <2>1 DEF Message, Unfit, SessionTypes, Messages
  <2>4. sent' = sent /\ written' = written
    BY <1>6 DEF Build, writeVars
  <2>5. QED
    BY <1>0, <2>2, <2>3, <2>4 DEF Numbers
<1>7. CASE Write
  <2>1. call' = call /\ out' = out /\ sent' \in {sent, call.n} /\ written' <= call.n
    BY <1>2, <1>7 DEF Write
  <2>2. QED
    BY <1>0, <2>1 DEF Numbers
<1>8. CASE UNCHANGED sessionVars
  BY <1>0, <1>8 DEF sessionVars, appVars, writeVars, Numbers
<1>9. QED
  BY <1>3, <1>4, <1>5, <1>6, <1>7, <1>8 DEF SessionNext, AppActs

\* What a call and a message of the task have built stays in the buffer until
\* it is written.
Buffer ==
    /\ ~again /\ sent <= written
    /\ appAt # "idle" => written < call.n /\ call.kind \in Kinds
    /\ appAt \in {"enqueue", "append", "pend", "store"} => call.kind # "PUBLISH0"
    /\ appAt \in {"pend", "store", "write"} =>
          \/ out.n < 0
          \/ out.n = call.n /\ out.kind = call.kind /\ out.id = call.id
    /\ appAt \in {"store", "write"} /\ out.n >= 0 /\ call.kind # "PUBLISH0" =>
          pendingType = Type(call.kind) /\ pendingId = call.id
    /\ taskAt \in {"answer", "pingWrite"} => out.n = 0
    /\ taskAt = "answer" => out.kind \in {"PUBREL", "PUBCOMP", "PUBACK", "PUBREC", "PINGRESP"}
    /\ taskAt = "pingWrite" => out.kind = "PINGREQ"

\* A race is not forgotten.
LEMMA RacedStays ==
    ASSUME Flags, Flags', [SessionNext]_sessionVars, ~raced'
    PROVE  ~raced
BY DEF Flags, SessionNext, sessionVars, AppActs, TaskActs, Call, TestPending, EnqueuePending, Build, Pend,
     StoreCount, Write, ReceiveNothing, ReceiveAck, MatchOutbox, ComparePending, LoadCount,
     ReceiveStep, Decrement, ReceiveRequest,
     WriteAnswer, Ping, WritePing, AbortConnection, Reconnect, Clean, TaskBuilds

\* Without a race the task builds only when no call's message is in the buffer.
LEMMA TaskBuildsAlone ==
    ASSUME Flags, ~raced', NEW kind, NEW id, TaskBuilds(kind, id)
    PROVE  appAt \notin {"pend", "store", "write"} /\ out' = Message(kind, id, 0)
BY DEF Flags, TaskBuilds

\* A message is new to the broker unless its number is one that it has got.
LEMMA WritesNew ==
    ASSUME Flags, ~again, written \in Nat, out.n \in Int, WriteOk,
           out.n = 0 \/ out.n > written
    PROVE  ~again' /\ written' = IF out.n = 0 THEN written ELSE out.n
<1>1. out.n \notin 1..written
  OBVIOUS
<1>2. ~again'
  BY <1>1 DEF WriteOk, Flags
<1>3. QED
  BY <1>2 DEF WriteOk

\* The application's steps keep Buffer: numbers only grow, so a write is new.
LEMMA AppBuffer ==
    ASSUME SessionTypes, SessionTypes', Flags, Flags', Numbers, Buffer, ~raced, ~raced', AppActs
    PROVE  Buffer'
<1>0. out.n \in Int /\ call.n \in Nat
  BY DEF SessionTypes, Messages
<1> USE DEF Buffer, Numbers, SessionTypes, AppGoes, pendingVars, linkVars, ackVars, writeVars
<1>1. ASSUME NEW kind \in Kinds, Call(kind) PROVE Buffer'
  BY <1>1 DEF Call, Message
<1>2. CASE TestPending \/ EnqueuePending
  BY <1>2 DEF TestPending, EnqueuePending
<1>3. CASE Build
  <2>1. PICK id \in IF call.kind = "PUBLISH0" THEN {0} ELSE Ids :
          \/ out' = Message(call.kind, id, call.n) /\ call' = [call EXCEPT !.id = id]
          \/ /\ out' = Unfit(call.n)
             /\ call' = [call EXCEPT !.id = IF Type(call.kind) = "PUBLISH" THEN 0 ELSE id]
    BY <1>3 DEF Build
  <2>2. call'.n = call.n /\ call'.kind = call.kind
    BY <2>1 DEF Messages
  <2>3. \/ out'.n = -call.n
        \/ out'.n = call.n /\ out'.kind = call.kind /\ out'.id = call'.id
    BY <2>1 DEF Message, Unfit, Messages
  <2>4. taskAt' = taskAt /\ taskAt \notin {"answer", "pingWrite"}
        /\ again' = again /\ sent' = sent /\ written' = written
        /\ appAt = "build" /\ appAt' \in {"pend", "write"}
        /\ (appAt' = "write" <=> call.kind = "PUBLISH0")
    BY <1>3 DEF Build, Flags
  <2>5. QED
    BY <2>2, <2>3, <2>4
<1>4. CASE Pend
  BY <1>0, <1>4 DEF Pend
<1>5. CASE StoreCount
  BY <1>5 DEF StoreCount
<1>6. CASE Write
  <2>1. call' = call /\ out' = out /\ appAt = "write" /\ appAt' = "idle" /\ taskAt' = taskAt
    BY <1>6 DEF Write
  <2>2. CASE WriteOk /\ sent' = call.n
    <3>1. out.n = call.n /\ call.n > written
      BY <1>0, <2>1, <2>2 DEF WriteOk
    <3>2. written' = call.n /\ ~again'
      BY <1>0, <2>2, <3>1, WritesNew
    <3>3. QED
      BY <2>1, <2>2, <3>2
  <2>3. CASE WriteFails /\ sent' = sent
    BY <2>1, <2>3 DEF WriteFails
  <2>4. QED
    BY <1>6, <2>2, <2>3 DEF Write
<1>7. QED
  BY <1>1, <1>2, <1>3, <1>4, <1>5, <1>6 DEF AppActs

\* So do the task's steps: they build between two calls, or race.
LEMMA TaskBuffer ==
    ASSUME SessionTypes, SessionTypes', Flags, Flags', Buffer, ~raced, ~raced', TaskActs
    PROVE  Buffer'
<1>0. call' = call /\ appAt' = appAt /\ sent' = sent
  BY TaskThins
<1> USE DEF Buffer, SessionTypes, TaskGoes, appVars, pendingVars, linkVars, ackVars, writeVars
<1>1. CASE \/ ReceiveNothing \/ MatchOutbox \/ ComparePending \/ LoadCount \/ Decrement
           \/ AbortConnection \/ Clean
  BY <1>1 DEF ReceiveNothing, MatchOutbox, ComparePending, LoadCount, Decrement,
     AbortConnection, Clean
<1>2. ASSUME NEW m \in owed, ReceiveAck(m) PROVE Buffer'
  BY <1>2 DEF ReceiveAck
<1>3. ASSUME NEW m \in owed, ReceiveStep(m) PROVE Buffer'
  <2>1. PICK kind \in {"PUBREL", "PUBCOMP"} : TaskBuilds(kind, m.id)
    BY <1>3 DEF ReceiveStep
  <2>2. appAt \notin {"pend", "store", "write"} /\ out' = Message(kind, m.id, 0)
    BY <2>1, TaskBuildsAlone
  <2>3. QED
    BY <1>0, <1>3, <2>2 DEF ReceiveStep, Message
<1>4. CASE ReceiveRequest
  <2>1. CASE UNCHANGED out /\ taskAt' = "ping"
    BY <1>4, <2>1 DEF ReceiveRequest
  <2>2. ASSUME NEW kind \in {"PUBACK", "PUBREC", "PINGRESP"}, NEW id, TaskBuilds(kind, id),
               taskAt' = "answer"
        PROVE  Buffer'
    <3>1. appAt \notin {"pend", "store", "write"} /\ out' = Message(kind, id, 0)
      BY <2>2, TaskBuildsAlone
    <3>2. QED
      BY <1>0, <1>4, <2>2, <3>1 DEF ReceiveRequest, Message
  <2>3. QED
    BY <1>4, <2>1, <2>2 DEF ReceiveRequest
<1>5. CASE WriteAnswer \/ WritePing
  <2>1. out.n = 0 /\ out' = out /\ taskAt' \notin {"answer", "pingWrite"}
    BY <1>5 DEF WriteAnswer, WritePing
  <2>2. written' = written /\ ~again'
    <3>1. out.n \in Int
      BY DEF Messages
    <3>2. CASE WriteOk
      BY <2>1, <3>1, <3>2, WritesNew
    <3>3. CASE WriteFails
      BY <3>3 DEF WriteFails
    <3>4. QED
      BY <1>5, <3>2, <3>3 DEF WriteAnswer, WritePing
  <2>3. QED
    BY <1>0, <1>5, <2>1, <2>2 DEF WriteAnswer, WritePing
<1>6. CASE Ping
  <2>1. appAt \notin {"pend", "store", "write"} /\ out' = Message("PINGREQ", 0, 0)
    BY <1>6, TaskBuildsAlone DEF Ping
  <2>2. QED
    BY <1>0, <1>6, <2>1 DEF Ping, Message
<1>7. CASE Reconnect
  <2>1. appAt \notin {"pend", "store", "write"} /\ out' = Message("CONNECT", 0, 0)
    BY <1>7, TaskBuildsAlone DEF Reconnect
  <2>2. QED
    BY <1>0, <1>7, <2>1 DEF Reconnect, Message
<1>8. QED
  BY <1>1, <1>2, <1>3, <1>4, <1>5, <1>6, <1>7 DEF TaskActs

-----------------------------------------------------------------------------

\* A part of a finite set is finite and no larger, and smaller when it lacks
\* an element.
LEMMA Smaller ==
    ASSUME NEW B, IsFiniteSet(B), NEW A \in SUBSET B
    PROVE  /\ IsFiniteSet(A) /\ Cardinality(A) \in Nat /\ Cardinality(B) \in Nat
           /\ Cardinality(A) <= Cardinality(B)
           /\ \A x \in B : x \notin A => Cardinality(A) <= Cardinality(B) - 1
<1>1. IsFiniteSet(A) /\ Cardinality(A) <= Cardinality(B)
  BY FS_Subset
<1>2. Cardinality(A) \in Nat /\ Cardinality(B) \in Nat
  BY <1>1, FS_CardinalityType
<1>3. ASSUME NEW x \in B, x \notin A PROVE Cardinality(A) <= Cardinality(B) - 1
  <2>1. Cardinality(A) # Cardinality(B)
    BY <1>3, FS_Subset
  <2>2. QED
    BY <1>1, <1>2, <2>1
<1>4. QED
  BY <1>1, <1>2, <1>3

\* One element more makes a finite set larger by one at most.
LEMMA OneMore ==
    ASSUME NEW A, IsFiniteSet(A), NEW x
    PROVE  IsFiniteSet(A \cup {x}) /\ Cardinality(A \cup {x}) <= Cardinality(A) + 1
<1>1. Cardinality(A) \in Nat
  BY FS_CardinalityType
<1>2. QED
  BY <1>1, FS_AddElement

\* What the broker owes on account of a call: an acknowledgement, or the PUBREC
\* that leads to one.
Flows == {m \in owed : m.kind \in Acks \cup {"PUBREC"}}

\* Calls counted that the broker has not got yet, and messages it sent that are
\* not yet counted off or answered.
AppInHand == IF appAt = "write" /\ call.kind # "PUBLISH0" THEN 1 ELSE 0
TaskInHand ==
    IF \/ taskAt \in {"match", "compare", "load", "decrement"}
       \/ (taskAt = "answer" /\ out.kind = "PUBREL")
    THEN 1 ELSE 0

Counted ==
    /\ Cardinality(Flows) + AppInHand + TaskInHand <= count
    /\ appAt = "store" => appCount = count
    /\ taskAt = "decrement" => taskCount = count

\* There are finitely many flows.
LEMMA FlowsTyped ==
    ASSUME SessionTypes
    PROVE  IsFiniteSet(Flows) /\ Cardinality(Flows) \in Nat
<1>1. Flows \in SUBSET owed
  BY DEF Flows
<1>2. QED
  BY <1>1, Smaller DEF SessionTypes

\* A write adds one flow at most, and none unless the message asks for one.
LEMMA WriteOkFlows ==
    ASSUME SessionTypes, WriteOk
    PROVE  /\ Cardinality(Flows') <= Cardinality(Flows) + 1
           /\ out.kind \notin {"PUBLISH1", "PUBLISH2", "SUBSCRIBE", "UNSUBSCRIBE", "PUBREL"} =>
                Flows' = Flows
<1>1. out \in Messages
  BY DEF SessionTypes
<1>2. owed' = owed \/ owed' = owed \cup Answers(out)
  BY WriteOkOwes
<1>3. out.kind \notin {"PUBLISH1", "PUBLISH2", "SUBSCRIBE", "UNSUBSCRIBE", "PUBREL"} => Flows' = Flows
  <2> SUFFICES ASSUME out.kind \notin {"PUBLISH1", "PUBLISH2", "SUBSCRIBE", "UNSUBSCRIBE", "PUBREL"}
               PROVE  Flows' = Flows
    OBVIOUS
  <2>1. Answer(out.kind) \subseteq {"PUBREL"}
    BY AnswerIs
  <2>2. \A m \in Answers(out) : m.kind = "PUBREL"
    BY <2>1 DEF Answers, Message
  <2>3. QED
    BY <1>2, <2>2 DEF Flows, Acks
<1>4. Cardinality(Flows') <= Cardinality(Flows) + 1
  <2>1. Flows' = Flows \/ \E x : Flows' = Flows \cup {x}
    <3>1. CASE Answers(out) = {} \/ owed' = owed
      BY <1>2, <3>1 DEF Flows
    <3>2. ASSUME NEW x, Answers(out) = {x} PROVE Flows' = Flows \/ Flows' = Flows \cup {x}
      BY <1>2, <3>2 DEF Flows
    <3>3. QED
      BY <1>1, <3>1, <3>2, AnswersAre
  <2>2. IsFiniteSet(Flows) /\ Cardinality(Flows) \in Nat
    BY FlowsTyped
  <2>3. ASSUME NEW x PROVE Cardinality(Flows \cup {x}) <= Cardinality(Flows) + 1
    BY <2>2, OneMore
  <2>4. Cardinality(Flows) <= Cardinality(Flows) + 1
    BY <2>2
  <2>5. QED
    BY <2>1, <2>3, <2>4
<1>5. QED
  BY <1>3, <1>4

\* The application's steps keep Counted: a call is counted before it is written.
LEMMA AppCounted ==
    ASSUME SessionTypes, SessionTypes', Flags, Flags', Buffer, Counted, ~raced, ~raced', AppActs
    PROVE  Counted'
<1>0. /\ count \in Int /\ out.n \in Int /\ call.n \in Nat
      /\ Cardinality(Flows) \in Nat /\ Cardinality(Flows)' \in Nat
  <2>1. Flows \in SUBSET owed /\ Flows' \in SUBSET owed'
    BY DEF Flows
  <2>2. Cardinality(Flows) \in Nat /\ Cardinality(Flows)' \in Nat
    BY <2>1, Smaller DEF SessionTypes
  <2>3. QED
    BY <2>2 DEF SessionTypes, Messages
<1> USE DEF Counted, AppInHand, TaskInHand, AppGoes, pendingVars, ackVars
<1>1. ASSUME NEW kind \in Kinds, Call(kind) PROVE Counted'
  <2>1. owed' = owed
    BY <1>1 DEF Call
  <2>2. QED
    BY <1>1, <2>1 DEF Call, Flows
<1>2. CASE TestPending \/ EnqueuePending
  BY <1>2 DEF TestPending, EnqueuePending, Flows
<1>3. CASE Build
  <2>1. PICK id : call' = [call EXCEPT !.id = id]
    BY <1>3 DEF Build
  <2>2. call'.kind = call.kind
    BY <2>1 DEF SessionTypes, Messages
  <2>3. taskAt' = taskAt /\ taskAt # "answer" /\ count' = count /\ taskCount' = taskCount
        /\ owed' = owed /\ appAt = "build"
        /\ (appAt' = "pend" \/ (appAt' = "write" /\ call.kind = "PUBLISH0"))
    BY <1>3 DEF Build, Flags
  <2>4. QED
    BY <2>2, <2>3 DEF Flows
<1>4. CASE Pend
  BY <1>4 DEF Pend, Flows
<1>5. CASE StoreCount
  <2>1. count = appCount /\ count' = count + 1 /\ taskAt # "decrement" /\ taskAt' = taskAt
    BY <1>5 DEF StoreCount, Flags
  <2>2. Flows' = Flows /\ call' = call /\ out' = out /\ appAt = "store" /\ appAt' = "write"
    BY <1>5 DEF StoreCount, Flows
  <2>3. QED
    BY <1>0, <2>1, <2>2
<1>6. CASE Write
  <2>1. count' = count /\ taskCount' = taskCount /\ taskAt' = taskAt /\ out' = out
        /\ appAt = "write" /\ appAt' = "idle"
    BY <1>6 DEF Write
  <2>2. Cardinality(Flows)' <= Cardinality(Flows) + AppInHand
    <3>1. CASE WriteFails
      BY <1>0, <3>1 DEF WriteFails, Flows
    <3>2. CASE WriteOk
      <4>1. out.kind = call.kind
        BY <1>0, <2>1, <3>2 DEF WriteOk, Buffer
      <4>2. QED
        BY <1>0, <2>1, <3>2, <4>1, WriteOkFlows
    <3>3. QED
      BY <1>6, <3>1, <3>2 DEF Write
  <2>3. QED
    BY <1>0, <2>1, <2>2
<1>7. QED
  BY <1>1, <1>2, <1>3, <1>4, <1>5, <1>6 DEF AppActs

\* So do the task's: a flow that ends leaves the count to be decremented once.
LEMMA TaskCounted ==
    ASSUME SessionTypes, SessionTypes', Flags, Flags', Offline, Buffer, Counted, ~raced, ~raced',
           TaskActs
    PROVE  Counted'
<1>0. /\ count \in Int /\ Cardinality(Flows) \in Nat /\ Cardinality(Flows)' \in Nat
      /\ call' = call /\ appAt' = appAt /\ appCount' = appCount
  <2>1. appCount' = appCount
    BY DEF TaskActs, ReceiveNothing, ReceiveAck, MatchOutbox, ComparePending, LoadCount,
     ReceiveStep, Decrement, ReceiveRequest,
       WriteAnswer, Ping, WritePing, AbortConnection, Reconnect, Clean, appVars
  <2>2. Flows \in SUBSET owed /\ Flows' \in SUBSET owed'
    BY DEF Flows
  <2>3. Cardinality(Flows) \in Nat /\ Cardinality(Flows)' \in Nat
    BY <2>2, Smaller DEF SessionTypes
  <2>4. QED
    BY <2>1, <2>3, TaskThins DEF SessionTypes
<1> USE DEF Counted, TaskInHand, TaskGoes, appVars, pendingVars, linkVars, ackVars, writeVars
<1> DEFINE A == AppInHand
<1>a. A \in {0, 1} /\ AppInHand' = A
  BY <1>0 DEF AppInHand
<1> HIDE DEF A
<1>b. Cardinality(Flows) + A + TaskInHand <= count
  BY DEF A
<1>1. CASE ReceiveNothing \/ Clean
  <2>1. Flows' = Flows /\ count' = count
    BY <1>1 DEF ReceiveNothing, Clean, Flows
  <2>2. QED
    BY <1>0, <1>a, <1>b, <1>1, <2>1 DEF ReceiveNothing, Clean
<1>2. ASSUME NEW m \in owed, ReceiveAck(m) PROVE Counted'
  <2>1. Flows' \in SUBSET Flows /\ m \in Flows /\ m \notin Flows'
    BY <1>2 DEF ReceiveAck, Reads, Flows
  <2>2. Cardinality(Flows)' <= Cardinality(Flows) - 1
    BY <2>1, FlowsTyped, Smaller
  <2>3. count' = count /\ taskAt = "receive" /\ taskAt' \in {"match", "ping"}
    BY <1>2 DEF ReceiveAck
  <2>4. QED
    BY <1>0, <1>a, <1>b, <2>2, <2>3
<1>11. CASE MatchOutbox \/ ComparePending \/ LoadCount
  <2>1. /\ Flows' = Flows /\ count' = count /\ taskAt \in {"match", "compare", "load"}
        /\ taskAt' \in {"compare", "load", "decrement", "ping"}
        /\ taskAt' = "decrement" => taskCount' = count
    BY <1>11 DEF MatchOutbox, ComparePending, LoadCount, Flows
  <2>2. QED
    BY <1>0, <1>a, <1>b, <2>1
<1>3. ASSUME NEW m \in owed, ReceiveStep(m) PROVE Counted'
  <2>1. count' = count /\ taskAt = "receive" /\ taskAt' = "answer" /\ Flows' \in SUBSET Flows
    BY <1>3 DEF ReceiveStep, Reads, Flows
  <2>2. Cardinality(Flows)' <= Cardinality(Flows)
    BY <2>1, FlowsTyped, Smaller
  <2>3. CASE m.kind = "PUBREC"
    <3>1. m \in Flows /\ m \notin Flows'
      BY <1>3, <2>3 DEF ReceiveStep, Reads, Flows
    <3>2. Cardinality(Flows)' <= Cardinality(Flows) - 1
      BY <2>1, <3>1, FlowsTyped, Smaller
    <3>3. QED
      BY <1>0, <1>a, <1>b, <2>1, <3>2
  <2>4. CASE m.kind = "PUBREL"
    <3>1. out'.kind = "PUBCOMP"
      BY <1>3, <2>4 DEF ReceiveStep, TaskBuilds, Message
    <3>2. QED
      BY <1>0, <1>a, <1>b, <2>1, <2>2, <3>1
  <2>5. QED
    BY <1>3, <2>3, <2>4 DEF ReceiveStep
<1>4. CASE Decrement
  <2>1. count = taskCount /\ count' = count - 1 /\ appAt # "store" /\ taskAt = "decrement"
        /\ taskAt' = "ping" /\ Flows' = Flows
    BY <1>4 DEF Decrement, Flags, Flows
  <2>2. QED
    BY <1>0, <1>a, <1>b, <2>1
<1>5. CASE ReceiveRequest
  <2>1. count' = count /\ taskAt = "receive" /\ Flows' = Flows
        /\ (taskAt' = "ping" \/ (taskAt' = "answer" /\ out'.kind # "PUBREL"))
    BY <1>5 DEF ReceiveRequest, TaskBuilds, Message, Flows
  <2>2. QED
    BY <1>0, <1>a, <1>b, <2>1
<1>6. CASE WriteAnswer \/ WritePing
  <2>1. count' = count /\ taskAt \in {"answer", "pingWrite"} /\ taskAt' \in {"ping", "clean"}
    BY <1>6 DEF WriteAnswer, WritePing
  <2>2. Cardinality(Flows)' <= Cardinality(Flows) + TaskInHand
    <3>1. CASE WriteFails
      BY <1>0, <3>1 DEF WriteFails, Flows
    <3>2. CASE WriteOk /\ taskAt = "answer" /\ out.kind = "PUBREL"
      BY <1>0, <3>2, WriteOkFlows
    <3>3. CASE WriteOk /\ ~(taskAt = "answer" /\ out.kind = "PUBREL")
      <4>1. out.kind \notin {"PUBLISH1", "PUBLISH2", "SUBSCRIBE", "UNSUBSCRIBE", "PUBREL"}
        BY <2>1, <3>3 DEF Buffer
      <4>2. Flows' = Flows
        BY <3>3, <4>1, WriteOkFlows
      <4>3. QED
        BY <1>0, <4>2
    <3>4. QED
      BY <1>6, <3>1, <3>2, <3>3 DEF WriteAnswer, WritePing
  <2>3. QED
    BY <1>0, <1>a, <1>b, <2>1, <2>2
<1>7. CASE Ping
  <2>1. count' = count /\ taskAt = "ping" /\ taskAt' = "pingWrite" /\ Flows' = Flows
    BY <1>7 DEF Ping, Flows
  <2>2. QED
    BY <1>0, <1>a, <1>b, <2>1
<1>8. CASE AbortConnection
  <2>1. count' = count /\ taskAt' = "down" /\ Flows' \in SUBSET Flows
    BY <1>8 DEF AbortConnection, Flows
  <2>2. Cardinality(Flows)' <= Cardinality(Flows)
    BY <2>1, FlowsTyped, Smaller
  <2>3. QED
    BY <1>0, <1>a, <1>b, <2>1, <2>2
<1>9. CASE Reconnect
  <2>1. count' = count /\ taskAt = "down" /\ taskAt' \in {"receive", "down"} /\ Flows' = Flows
    BY <1>9 DEF Reconnect, Flows
  <2>2. QED
    BY <1>0, <1>a, <1>b, <2>1
<1>10. QED
  BY <1>1, <1>2, <1>3, <1>4, <1>5, <1>6, <1>7, <1>8, <1>9, <1>11 DEF TaskActs

-----------------------------------------------------------------------------

\* The pending message is of this type and id, and its call has been written.
Latest(type, id) ==
    /\ Pending(type, id)
    /\ appAt \in {"idle", "enqueue", "append"} \/ call.kind = "PUBLISH0"

LatestOne(type, id) == IF Latest(type, id) THEN 1 ELSE 0

\* The types that is_valid_mqtt_msg looks for in its acknowledgements.
AckedTypes == {"PUBLISH", "SUBSCRIBE", "UNSUBSCRIBE"}

\* Each acknowledgement owed, or received and not yet looked up, has an item of its own,
\* but for one, which may be the pending message's.
Covered(type, id) ==
    \/ <<type, id>> \in expired
    \/ Cardinality(OwedFor(type, id)) + Heard(type, id) <=
          Cardinality(Listed(type, id)) + LatestOne(type, id)

\* Every acknowledgement that is to come will find its message.
Recognised == \A type \in AckedTypes, id \in AnyId : Covered(type, id)

\* An acknowledgement that was not in the outbox is compared with its message.
Compared ==
    taskAt = "compare" /\ held.kind # "PUBCOMP" =>
       LET type == Awaited(held.kind)
       IN  Pending(type, held.id) \/ <<type, held.id>> \in expired

\* The sets that Covered compares are finite.
LEMMA SetsTyped ==
    ASSUME SessionTypes, SessionTypes', NEW type, NEW id
    PROVE  /\ IsFiniteSet(OwedFor(type, id)) /\ Cardinality(OwedFor(type, id)) \in Nat
           /\ IsFiniteSet(OwedFor(type, id)') /\ Cardinality(OwedFor(type, id)') \in Nat
           /\ IsFiniteSet(Listed(type, id)) /\ Cardinality(Listed(type, id)) \in Nat
           /\ IsFiniteSet(Listed(type, id)') /\ Cardinality(Listed(type, id)') \in Nat
           /\ LatestOne(type, id) \in {0, 1} /\ LatestOne(type, id)' \in {0, 1}
           /\ Heard(type, id) \in {0, 1} /\ Heard(type, id)' \in {0, 1}
<1>1. OwedFor(type, id) \in SUBSET owed /\ OwedFor(type, id)' \in SUBSET owed'
  BY DEF OwedFor
<1>2. Listed(type, id) \in SUBSET DOMAIN outbox /\ Listed(type, id)' \in SUBSET DOMAIN outbox'
  BY DEF Listed
<1>3. ASSUME NEW box \in Seq(Items) PROVE IsFiniteSet(DOMAIN box)
  <2>1. DOMAIN box = 1..Len(box) /\ Len(box) \in Nat
    OBVIOUS
  <2>2. QED
    BY <2>1, FS_Interval
<1>4. IsFiniteSet(DOMAIN outbox) /\ IsFiniteSet(DOMAIN outbox')
  BY <1>3 DEF SessionTypes
<1>5. QED
  BY <1>1, <1>2, <1>4, Smaller DEF SessionTypes, LatestOne, Heard

\* Awaited, case by case.
LEMMA AwaitedIs ==
    /\ Awaited("PUBACK") = "PUBLISH" /\ Awaited("PUBCOMP") = "PUBREL"
    /\ Awaited("SUBACK") = "SUBSCRIBE" /\ Awaited("UNSUBACK") = "UNSUBSCRIBE"
BY DEF Awaited

\* A list's positions of items of a type and id.
Places(box, type, id) == {i \in DOMAIN box : box[i].msg_type = type /\ box[i].msg_id = id}

\* A list has finitely many places.
LEMMA PlacesFinite ==
    ASSUME NEW box \in Seq(Items), NEW type, NEW id
    PROVE  IsFiniteSet(Places(box, type, id)) /\ Cardinality(Places(box, type, id)) \in Nat
<1>1. DOMAIN box = 1..Len(box) /\ Len(box) \in Nat
  OBVIOUS
<1>2. IsFiniteSet(DOMAIN box)
  BY <1>1, FS_Interval
<1>3. Places(box, type, id) \in SUBSET DOMAIN box
  BY DEF Places
<1>4. QED
  BY <1>2, <1>3, Smaller

\* An item appended is one more of its type and id, and takes none away.
LEMMA AppendPlaces ==
    ASSUME NEW box \in Seq(Items), NEW item \in Items, NEW type, NEW id
    PROVE  /\ Cardinality(Places(Append(box, item), type, id)) >= Cardinality(Places(box, type, id))
           /\ item.msg_type = type /\ item.msg_id = id =>
                Cardinality(Places(Append(box, item), type, id)) =
                  Cardinality(Places(box, type, id)) + 1
<1> DEFINE new == Append(box, item)
<1>1. /\ new \in Seq(Items) /\ Len(box) \in Nat /\ DOMAIN box = 1..Len(box)
      /\ DOMAIN new = 1..(Len(box) + 1) /\ new[Len(box) + 1] = item
      /\ \A i \in 1..Len(box) : new[i] = box[i]
  OBVIOUS
<1> HIDE DEF new
<1>2. IsFiniteSet(Places(box, type, id)) /\ Cardinality(Places(box, type, id)) \in Nat
      /\ IsFiniteSet(Places(new, type, id))
  BY <1>1, PlacesFinite
<1>3. Places(box, type, id) \in SUBSET Places(new, type, id)
  BY <1>1 DEF Places
<1>4. ASSUME item.msg_type = type, item.msg_id = id
      PROVE  Cardinality(Places(new, type, id)) = Cardinality(Places(box, type, id)) + 1
  <2>1. Places(new, type, id) = Places(box, type, id) \cup {Len(box) + 1}
    BY <1>1, <1>4 DEF Places
  <2>2. Len(box) + 1 \notin Places(box, type, id)
    BY <1>1 DEF Places
  <2>3. QED
    BY <1>2, <2>1, <2>2, FS_AddElement
<1>5. Cardinality(Places(new, type, id)) >= Cardinality(Places(box, type, id))
  BY <1>2, <1>3, Smaller
<1>6. QED
  BY <1>4, <1>5 DEF new

\* outbox_delete takes away one item, of the type and id that it was given.
LEMMA DeletePlaces ==
    ASSUME NEW box \in Seq(Items), NEW id, NEW type, NEW t, NEW d, Matching(box, id, type) # 0
    PROVE  /\ Cardinality(Places(Delete(box, id, type), t, d)) >= Cardinality(Places(box, t, d)) - 1
           /\ t # type \/ d # id =>
                Cardinality(Places(Delete(box, id, type), t, d)) >= Cardinality(Places(box, t, d))
<1> DEFINE p == Matching(box, id, type)
           new == Delete(box, id, type)
           P == Places(box, t, d)
           N == Places(new, t, d)
           f == [i \in P \ {p} |-> IF i < p THEN i ELSE i - 1]
<1>1. p \in DOMAIN box /\ box[p].msg_id = id /\ box[p].msg_type = type
      /\ new = RemoveAt(box, p) /\ new \in Seq(Items)
  BY DeleteIs
<1> HIDE DEF p, new
<1>2. /\ Len(box) \in Nat /\ DOMAIN box = 1..Len(box) /\ p \in 1..Len(box)
      /\ DOMAIN new = 1..(Len(box) - 1)
      /\ \A k \in 1..(Len(box) - 1) : new[k] = IF k < p THEN box[k] ELSE box[k + 1]
  BY <1>1, RemoveAtIs
<1>3. ASSUME NEW i \in P \ {p} PROVE f[i] \in N
  <2>1. i \in 1..Len(box) /\ i # p /\ box[i].msg_type = t /\ box[i].msg_id = d
    BY <1>2 DEF Places
  <2>2. CASE i < p
    BY <1>2, <2>1, <2>2 DEF Places
  <2>3. CASE i > p
    <3>1. i - 1 \in 1..(Len(box) - 1) /\ new[i - 1] = box[i]
      BY <1>2, <2>1, <2>3
    <3>2. f[i] = i - 1
      BY <1>2, <2>1, <2>3
    <3>3. QED
      BY <1>2, <2>1, <3>1, <3>2 DEF Places
  <2>4. QED
    BY <1>2, <2>1, <2>2, <2>3
<1>4. f \in Injection(P \ {p}, N)
  <2>1. f \in [P \ {p} -> N]
    BY <1>3
  <2>2. \A i, j \in P \ {p} : f[i] = f[j] => i = j
    BY <1>2 DEF Places
  <2>3. QED
    BY <2>1, <2>2 DEF Injection, IsInjective
<1>5. IsFiniteSet(N) /\ Cardinality(N) \in Nat /\ IsFiniteSet(P) /\ Cardinality(P) \in Nat
  BY <1>1, PlacesFinite
<1> HIDE DEF P, N, f
<1>6. Cardinality(P \ {p}) <= Cardinality(N)
  BY <1>4, <1>5, FS_Injection
<1>7. Cardinality(P \ {p}) = IF p \in P THEN Cardinality(P) - 1 ELSE Cardinality(P)
  BY <1>5, FS_RemoveElement
<1>8. t # type \/ d # id => p \notin P
  BY <1>1 DEF P, Places
<1>9. QED
  BY <1>5, <1>6, <1>7, <1>8 DEF P, N, new

\* Items that are gone from a list without duplicates, if none of them is of
\* this type and id.
LEMMA RestPlaces ==
    ASSUME NEW box \in Seq(Items), Stamped(box), NEW rest \in Seq(Items), NEW t, NEW d,
           \A item \in ToSet(box) \ ToSet(rest) : ~(item.msg_type = t /\ item.msg_id = d)
    PROVE  Cardinality(Places(rest, t, d)) >= Cardinality(Places(box, t, d))
<1> DEFINE P == Places(box, t, d)
           N == Places(rest, t, d)
           f == [i \in P |-> CHOOSE j \in N : rest[j] = box[i]]
<1>1. ASSUME NEW i \in P PROVE f[i] \in N /\ rest[f[i]] = box[i]
  <2>1. i \in DOMAIN box /\ box[i].msg_type = t /\ box[i].msg_id = d
    BY DEF Places
  <2>2. box[i] \in ToSet(rest)
    BY <2>1 DEF ToSet
  <2>3. \E j \in N : rest[j] = box[i]
    BY <2>1, <2>2 DEF ToSet, Places
  <2>4. QED
    BY <2>3
<1>2. ASSUME NEW i \in P, NEW j \in P, f[i] = f[j] PROVE i = j
  <2>1. box[i] = box[j]
    BY <1>1, <1>2
  <2>2. i \in DOMAIN box /\ j \in DOMAIN box
    BY DEF Places
  <2>3. QED
    BY <2>1, <2>2 DEF Stamped
<1>3. f \in Injection(P, N)
  BY <1>1, <1>2 DEF Injection, IsInjective
<1>4. IsFiniteSet(N) /\ Cardinality(N) \in Nat /\ IsFiniteSet(P) /\ Cardinality(P) \in Nat
  BY PlacesFinite
<1>5. QED
  BY <1>3, <1>4, FS_Injection

\* A type and id stay covered when no acknowledgement of theirs is new, none of
\* their items is gone, and the pending message is still theirs.
LEMMA CoveredKept ==
    ASSUME SessionTypes, SessionTypes', NEW type, NEW id, Covered(type, id),
           expired \subseteq expired',
           OwedFor(type, id)' \subseteq OwedFor(type, id), Heard(type, id)' <= Heard(type, id),
           Cardinality(Listed(type, id)') >= Cardinality(Listed(type, id)),
           Latest(type, id) => Latest(type, id)'
    PROVE  Covered(type, id)'
<1> DEFINE o == Cardinality(OwedFor(type, id))
           o2 == Cardinality(OwedFor(type, id)')
           k == Cardinality(Listed(type, id))
           k2 == Cardinality(Listed(type, id)')
           l == LatestOne(type, id)
           l2 == LatestOne(type, id)'
           h == Heard(type, id)
           h2 == Heard(type, id)'
<1>1. /\ o \in Nat /\ o2 \in Nat /\ k \in Nat /\ k2 \in Nat /\ l \in {0, 1} /\ l2 \in {0, 1}
      /\ h \in {0, 1} /\ h2 \in {0, 1}
  BY SetsTyped
<1>2. o2 <= o
  <2>1. IsFiniteSet(OwedFor(type, id))
    BY SetsTyped
  <2>2. QED
    BY <2>1, Smaller
<1>3. l <= l2
  BY DEF LatestOne
<1>4. CASE <<type, id>> \in expired
  BY <1>4 DEF Covered
<1>5. CASE o + h <= k + l
  <2>1. o2 + h2 <= k2 + l2
    <3> HIDE DEF o, o2, k, k2, l, l2, h, h2
    <3>1. k2 >= k /\ h2 <= h
      BY DEF k, k2, h, h2
    <3>2. QED
      BY <1>1, <1>2, <1>3, <1>5, <3>1
  <2>2. QED
    BY <2>1 DEF Covered
<1>6. QED
  BY <1>4, <1>5 DEF Covered

\* The application leaves the task where it is.
LEMMA AppLeavesTask == AppActs => taskAt' = taskAt /\ held' = held
BY DEF AppActs, Call, TestPending, EnqueuePending, Build, Pend, StoreCount, Write, ackVars

\* The application's steps keep Recognised: a pending message is enqueued before
\* the next one takes its place.
LEMMA AppRecognised ==
    ASSUME SessionTypes, SessionTypes', Flags, Flags', Buffer, Counted, Recognised,
           ~raced, ~raced', AppActs
    PROVE  Recognised'
<1> SUFFICES ASSUME NEW type \in AckedTypes, NEW id \in AnyId PROVE Covered(type, id)'
  BY DEF Recognised
<1>0. /\ Covered(type, id) /\ count \in Int /\ out.n \in Int
      /\ Cardinality(OwedFor(type, id)) \in Nat /\ Cardinality(Listed(type, id)) \in Nat
      /\ Cardinality(OwedFor(type, id)') \in Nat /\ Cardinality(Listed(type, id)') \in Nat
      /\ LatestOne(type, id) \in {0, 1} /\ LatestOne(type, id)' \in {0, 1}
      /\ Heard(type, id) \in {0, 1} /\ Heard(type, id)' \in {0, 1}
      /\ IsFiniteSet(OwedFor(type, id)) /\ outbox \in Seq(Items)
  BY SetsTyped DEF Recognised, SessionTypes, Messages
<1>h. Heard(type, id)' = Heard(type, id) /\ Heard(type, id)' <= Heard(type, id)
  <2>1. Heard(type, id)' = Heard(type, id)
    BY AppLeavesTask DEF Heard
  <2>2. QED
    BY <1>0, <2>1
<1>1. ASSUME outbox' = outbox
      PROVE  Cardinality(Listed(type, id)') >= Cardinality(Listed(type, id))
  <2>1. Listed(type, id)' = Listed(type, id)
    BY <1>1 DEF Listed
  <2>2. QED
    BY <1>0, <2>1
<1>2. ASSUME NEW kind \in Kinds, Call(kind) PROVE Covered(type, id)'
  <2>1. outbox' = outbox /\ expired' = expired /\ owed' = owed
        /\ pendingType' = pendingType /\ pendingId' = pendingId
        /\ appAt = "idle" /\ (appAt' = "enqueue" \/ call'.kind = "PUBLISH0")
    BY <1>2 DEF Call, AppGoes, Message, pendingVars
  <2>2. OwedFor(type, id)' \subseteq OwedFor(type, id)
    BY <2>1 DEF OwedFor
  <2>3. Latest(type, id) => Latest(type, id)'
    BY <2>1 DEF Latest, Pending
  <2>4. QED
    BY <1>0, <1>1, <2>1, <2>2, <2>3, <1>h, CoveredKept
<1>3. CASE TestPending \/ EnqueuePending
  <2>1. expired' = expired /\ owed' = owed /\ call' = call /\ appAt \in {"enqueue", "append"}
        /\ pendingType' = pendingType /\ pendingId' = pendingId
    BY <1>3 DEF TestPending, EnqueuePending, AppGoes, pendingVars
  <2>2. OwedFor(type, id)' = OwedFor(type, id)
    BY <2>1 DEF OwedFor
  <2>3. CASE TestPending /\ ~(count > 0)
    <3>4. Heard(type, id) = 0
      <4>1. Cardinality(Flows) \in Nat
        BY FlowsTyped
      <4>2. TaskInHand = 0
        BY <1>0, <2>3, <4>1 DEF Counted, AppInHand, TaskInHand
      <4>3. QED
        BY <4>2 DEF TaskInHand, Heard
    <3>1. OwedFor(type, id) = {}
      <4>1. Cardinality(Flows) \in Nat /\ IsFiniteSet(Flows)
        BY FlowsTyped
      <4>2. Cardinality(Flows) = 0
        BY <1>0, <2>3, <4>1 DEF Counted, AppInHand, TaskInHand
      <4>3. Flows = {}
        BY <4>1, <4>2, FS_EmptySet
      <4>4. OwedFor(type, id) \subseteq Flows
        BY DEF OwedFor, Flows
      <4>5. QED
        BY <4>3, <4>4
    <3>2. Cardinality(OwedFor(type, id)') = 0
      BY <2>2, <3>1, FS_EmptySet
    <3>3. QED
      BY <1>0, <1>h, <3>2, <3>4 DEF Covered
  <2>6. CASE TestPending /\ count > 0
    <3>1. outbox' = outbox /\ appAt' = "append"
      BY <2>6 DEF TestPending, AppGoes, pendingVars
    <3>2. Latest(type, id) => Latest(type, id)'
      BY <2>1, <3>1 DEF Latest, Pending
    <3>3. QED
      BY <1>0, <1>1, <2>1, <2>2, <3>1, <3>2, <1>h, CoveredKept
  <2>4. CASE EnqueuePending
    <3> DEFINE item == [msg_id |-> pendingId, msg_type |-> pendingType, tick |-> call.n,
                        len |-> Length(out), data |-> out.kind, pending |-> FALSE]
    <3>1. item \in Items /\ item.msg_type = pendingType /\ item.msg_id = pendingId
      BY DEF Items, SessionTypes, Messages, Length
    <3>2. outbox' = Append(outbox, item)
      BY <2>4 DEF EnqueuePending, Enqueue
    <3> HIDE DEF item
    <3>3. Listed(type, id) = Places(outbox, type, id)
          /\ Listed(type, id)' = Places(Append(outbox, item), type, id)
      BY <3>2 DEF Listed, Places
    <3>4. Cardinality(Listed(type, id)') >= Cardinality(Listed(type, id))
      BY <1>0, <3>1, <3>3, AppendPlaces
    <3>5. CASE pendingType = type /\ pendingId = id
      <4>1. Cardinality(Listed(type, id)') = Cardinality(Listed(type, id)) + 1
        BY <1>0, <3>1, <3>3, <3>5, AppendPlaces
      <4>2. QED
        BY <1>0, <1>h, <2>1, <2>2, <4>1 DEF Covered
    <3>6. CASE ~(pendingType = type /\ pendingId = id)
      <4>1. ~Latest(type, id)
        BY <3>6 DEF Latest, Pending
      <4>2. QED
        BY <1>0, <2>1, <2>2, <3>4, <4>1, <1>h, CoveredKept
    <3>7. QED
      BY <3>5, <3>6
  <2>5. QED
    BY <1>3, <2>3, <2>4, <2>6
<1>4. CASE Build
  <2>1. PICK x : call' = [call EXCEPT !.id = x]
    BY <1>4 DEF Build
  <2>2. call'.kind = call.kind
    BY <2>1 DEF SessionTypes, Messages
  <2>3. outbox' = outbox /\ expired' = expired /\ owed' = owed /\ pendingType' = pendingType
        /\ appAt = "build" /\ (call.kind = "PUBLISH0" => pendingId' = pendingId)
    BY <1>4 DEF Build, AppGoes, Type
  <2>4. OwedFor(type, id)' \subseteq OwedFor(type, id)
    BY <2>3 DEF OwedFor
  <2>5. Latest(type, id) => Latest(type, id)'
    BY <2>2, <2>3 DEF Latest, Pending
  <2>6. QED
    BY <1>0, <1>1, <2>3, <2>4, <2>5, <1>h, CoveredKept
<1>5. CASE Pend \/ StoreCount
  <2>1. outbox' = outbox /\ expired' = expired /\ owed' = owed /\ appAt \in {"pend", "store"}
    BY <1>5 DEF Pend, StoreCount, AppGoes
  <2>2. OwedFor(type, id)' \subseteq OwedFor(type, id)
    BY <2>1 DEF OwedFor
  <2>3. ~Latest(type, id)
    BY <2>1 DEF Latest, Pending, Buffer
  <2>4. QED
    BY <1>0, <1>1, <2>1, <2>2, <2>3, <1>h, CoveredKept
<1>6. CASE Write
  <2>1. outbox' = outbox /\ expired' = expired /\ call' = call /\ out' = out
        /\ pendingType' = pendingType /\ pendingId' = pendingId
        /\ appAt = "write" /\ appAt' = "idle"
    BY <1>6 DEF Write, AppGoes, pendingVars
  <2>2. Latest(type, id) => Latest(type, id)'
    BY <2>1 DEF Latest, Pending
  <2>3. CASE OwedFor(type, id)' \subseteq OwedFor(type, id)
    BY <1>0, <1>1, <2>1, <2>2, <2>3, <1>h, CoveredKept
  <2>4. CASE ~(OwedFor(type, id)' \subseteq OwedFor(type, id))
    <3>1. WriteOk
      BY <1>6, <2>4 DEF Write, WriteFails, OwedFor
    <3>2. out.n >= 0 /\ out.kind = call.kind /\ out.id = call.id
      BY <1>0, <2>1, <3>1 DEF WriteOk, Buffer
    <3>3. owed' = owed \cup Answers(out)
      <4>1. owed' = owed => OwedFor(type, id)' \subseteq OwedFor(type, id)
        BY DEF OwedFor
      <4>2. QED
        BY <2>4, <3>1, <4>1, WriteOkOwes
    <3>4. PICK m \in Answers(out) : m.kind \in Acks \ {"PUBCOMP"}
                                    /\ Awaited(m.kind) = type /\ m.id = id
      BY <2>4, <3>3 DEF OwedFor
    <3>5. m.kind \in Answer(out.kind) /\ m.id = out.id
      BY <3>4 DEF Answers, Message
    <3>6. out.kind # "PUBLISH0" /\ Type(out.kind) = type
      BY <3>4, <3>5, AnswerIs, AwaitedIs DEF Acks, Type
    <3>7. pendingType = type /\ pendingId = id
      BY <2>1, <3>2, <3>4, <3>5, <3>6 DEF Buffer
    <3>8. ~Latest(type, id) /\ Latest(type, id)'
      BY <2>1, <3>2, <3>6, <3>7 DEF Latest, Pending
    <3>9. LatestOne(type, id) = 0 /\ LatestOne(type, id)' = 1
      BY <3>8 DEF LatestOne
    <3>10. Cardinality(OwedFor(type, id)') <= Cardinality(OwedFor(type, id)) + 1
      <4>1. PICK x : Answers(out) = {x}
        BY <3>4, AnswersAre DEF SessionTypes
      <4>2. OwedFor(type, id)' = OwedFor(type, id) \cup {x}
        BY <2>4, <3>3, <4>1 DEF OwedFor
      <4>3. QED
        BY <1>0, <4>2, OneMore
    <3>11. Listed(type, id)' = Listed(type, id)
      BY <2>1 DEF Listed
    <3>12. QED
      BY <1>0, <1>h, <2>1, <3>9, <3>10, <3>11 DEF Covered
  <2>5. QED
    BY <2>3, <2>4
<1>7. QED
  BY <1>2, <1>3, <1>4, <1>5, <1>6 DEF AppActs

\* So do the task's: an acknowledgement that arrives takes its own item away,
\* and what expires is remembered.
LEMMA TaskRecognised ==
    ASSUME SessionTypes, SessionTypes', Flags, Flags', Ticks, Offline, Buffer, Recognised,
           ~raced, ~raced', TaskActs
    PROVE  Recognised'
<1> SUFFICES ASSUME NEW type \in AckedTypes, NEW id \in AnyId PROVE Covered(type, id)'
  BY DEF Recognised
<1>0. /\ Covered(type, id) /\ outbox \in Seq(Items) /\ outbox' \in Seq(Items)
      /\ Cardinality(OwedFor(type, id)) \in Nat /\ Cardinality(Listed(type, id)) \in Nat
      /\ Cardinality(OwedFor(type, id)') \in Nat /\ Cardinality(Listed(type, id)') \in Nat
      /\ LatestOne(type, id) \in {0, 1} /\ LatestOne(type, id)' \in {0, 1}
      /\ Heard(type, id) \in {0, 1} /\ Heard(type, id)' \in {0, 1}
      /\ IsFiniteSet(OwedFor(type, id))
      /\ call' = call /\ appAt' = appAt
  BY SetsTyped, TaskThins DEF Recognised, SessionTypes
<1>1. ASSUME outbox' = outbox
      PROVE  Cardinality(Listed(type, id)') >= Cardinality(Listed(type, id))
  <2>1. Listed(type, id)' = Listed(type, id)
    BY <1>1 DEF Listed
  <2>2. QED
    BY <1>0, <2>1
<1>2. ASSUME pendingType' = pendingType, pendingId' = pendingId
      PROVE  Latest(type, id) => Latest(type, id)'
  BY <1>0, <1>2 DEF Latest, Pending
<1>h. taskAt' # "match" => Heard(type, id)' = 0 /\ Heard(type, id)' <= Heard(type, id)
  <2>1. taskAt' # "match" => Heard(type, id)' = 0
    BY DEF Heard
  <2>2. QED
    BY <1>0, <2>1
<1>3. ASSUME outbox' = outbox, expired' = expired, owed' \subseteq owed,
             pendingType' = pendingType, pendingId' = pendingId, taskAt' # "match"
      PROVE  Covered(type, id)'
  <2>1. OwedFor(type, id)' \subseteq OwedFor(type, id)
    BY <1>3 DEF OwedFor
  <2>2. QED
    BY <1>0, <1>1, <1>2, <1>3, <1>h, <2>1, CoveredKept
<1>4. CASE \/ ReceiveNothing \/ ComparePending \/ LoadCount \/ Decrement \/ ReceiveRequest
           \/ Ping \/ AbortConnection
  BY <1>3, <1>4
     DEF ReceiveNothing, ComparePending, LoadCount, Decrement, ReceiveRequest, Ping,
         AbortConnection, TaskGoes, pendingVars
<1>5. ASSUME NEW m \in owed, ReceiveStep(m) PROVE Covered(type, id)'
  BY <1>3, <1>5 DEF ReceiveStep, Reads, TaskGoes, pendingVars
<1>6. ASSUME NEW m \in owed, ReceiveAck(m) PROVE Covered(type, id)'
  <2>1. /\ outbox' = outbox /\ expired' = expired
        /\ pendingType' = pendingType /\ pendingId' = pendingId
        /\ owed' \in SUBSET owed /\ m \notin owed' /\ m.kind \in Acks
        /\ taskAt = "receive" /\ (taskAt' = "match" => held' = m)
    BY <1>6 DEF ReceiveAck, Reads, TaskGoes, pendingVars
  <2>2. OwedFor(type, id)' \in SUBSET OwedFor(type, id)
    BY <2>1 DEF OwedFor
  <2>3. CASE Heard(type, id)' <= Heard(type, id)
    BY <1>0, <1>1, <1>2, <2>1, <2>2, <2>3, CoveredKept
  <2>4. CASE ~(Heard(type, id)' <= Heard(type, id))
    <3>1. Heard(type, id) = 0 /\ Heard(type, id)' = 1
      BY <1>0, <2>4
    <3>2. Awaited(m.kind) = type /\ m.id = id
      BY <2>1, <3>1 DEF Heard
    <3>3. m.kind # "PUBCOMP"
      BY <3>2, AwaitedIs DEF AckedTypes
    <3>4. m \in OwedFor(type, id) /\ m \notin OwedFor(type, id)'
      BY <2>1, <3>2, <3>3 DEF OwedFor
    <3>5. Cardinality(OwedFor(type, id)') <= Cardinality(OwedFor(type, id)) - 1
      BY <1>0, <2>2, <3>4, Smaller
    <3>6. LatestOne(type, id)' = LatestOne(type, id) /\ Listed(type, id)' = Listed(type, id)
      BY <1>0, <2>1 DEF LatestOne, Latest, Pending, Listed
    <3>7. QED
      BY <1>0, <2>1, <3>1, <3>5, <3>6 DEF Covered
  <2>5. QED
    BY <2>3, <2>4
<1>11. CASE MatchOutbox
  <2> DEFINE at == Awaited(held.kind)
  <2>1. /\ expired' = expired /\ pendingType' = pendingType /\ pendingId' = pendingId
        /\ owed' = owed /\ taskAt = "match" /\ taskAt' # "match"
        /\ outbox' = IF Matching(outbox, held.id, at) # 0 THEN Delete(outbox, held.id, at)
                     ELSE outbox
    BY <1>11 DEF MatchOutbox
  <2>2. OwedFor(type, id)' = OwedFor(type, id)
    BY <2>1 DEF OwedFor
  <2>3. CASE outbox' = outbox
    BY <1>3, <2>1, <2>3
  <2>4. CASE outbox' # outbox
    <3> HIDE DEF at
    <3>1. outbox' = Delete(outbox, held.id, at) /\ Matching(outbox, held.id, at) # 0
      BY <2>1, <2>4
    <3>2. Listed(type, id) = Places(outbox, type, id)
          /\ Listed(type, id)' = Places(Delete(outbox, held.id, at), type, id)
      BY <3>1 DEF Listed, Places
    <3>3. CASE type # at \/ id # held.id
      <4>1. Cardinality(Listed(type, id)') >= Cardinality(Listed(type, id))
        BY <1>0, <3>1, <3>2, <3>3, DeletePlaces
      <4>2. QED
        BY <1>0, <1>2, <1>h, <2>1, <2>2, <4>1, CoveredKept
    <3>4. CASE type = at /\ id = held.id
      <4>1. Cardinality(Listed(type, id)') >= Cardinality(Listed(type, id)) - 1
        BY <1>0, <3>1, <3>2, DeletePlaces
      <4>2. Heard(type, id) = 1 /\ Heard(type, id)' = 0
        BY <1>h, <2>1, <3>4 DEF Heard, at
      <4>3. LatestOne(type, id)' = LatestOne(type, id)
        BY <1>0, <2>1 DEF LatestOne, Latest, Pending
      <4>4. QED
        BY <1>0, <2>1, <2>2, <4>1, <4>2, <4>3 DEF Covered
    <3>5. QED
      BY <3>3, <3>4
  <2>5. QED
    BY <2>3, <2>4
<1>7. CASE WriteAnswer \/ WritePing
  <2>1. outbox' = outbox /\ expired' = expired
        /\ pendingType' = pendingType /\ pendingId' = pendingId
        /\ taskAt \in {"answer", "pingWrite"} /\ taskAt' # "match"
    BY <1>7 DEF WriteAnswer, WritePing, TaskGoes, pendingVars
  <2>2. OwedFor(type, id)' \subseteq OwedFor(type, id)
    <3>1. CASE WriteFails
      BY <3>1 DEF WriteFails, OwedFor
    <3>2. CASE WriteOk
      <4>1. owed' = owed \/ owed' = owed \cup Answers(out)
        BY <3>2, WriteOkOwes
      <4>2. Answer(out.kind) \subseteq {"PUBREL", "PUBCOMP"}
        BY <2>1, AnswerIs DEF Buffer
      <4>3. \A m \in Answers(out) : m.kind \in {"PUBREL", "PUBCOMP"}
        BY <4>2 DEF Answers, Message
      <4>4. QED
        BY <4>1, <4>3 DEF OwedFor, Acks
    <3>3. QED
      BY <1>7, <3>1, <3>2 DEF WriteAnswer, WritePing
  <2>3. QED
    BY <1>0, <1>1, <1>2, <1>h, <2>1, <2>2, CoveredKept
<1>8. CASE Reconnect
  <2>1. owed = {} /\ owed' = {} /\ taskAt' # "match"
    BY <1>8 DEF Reconnect, TaskGoes, Offline
  <2>2. OwedFor(type, id)' = {}
    BY <2>1 DEF OwedFor
  <2>3. Cardinality(OwedFor(type, id)') = 0
    BY <2>2, FS_EmptySet
  <2>4. QED
    BY <1>0, <1>h, <2>1, <2>3 DEF Covered
<1>9. CASE Clean
  <2>1. pendingType' = pendingType /\ pendingId' = pendingId /\ owed' = owed
        /\ taskAt' # "match"
        /\ expired' = expired \cup {<<item.msg_type, item.msg_id>> :
                                       item \in ToSet(outbox) \ ToSet(outbox')}
    BY <1>9 DEF Clean, TaskGoes
  <2>2. CASE <<type, id>> \in expired'
    BY <2>2 DEF Covered
  <2>3. CASE <<type, id>> \notin expired'
    <3>1. \A item \in ToSet(outbox) \ ToSet(outbox') : ~(item.msg_type = type /\ item.msg_id = id)
      BY <2>1, <2>3
    <3>2. Cardinality(Places(outbox', type, id)) >= Cardinality(Places(outbox, type, id))
      BY <1>0, <3>1, RestPlaces DEF Ticks
    <3>3. Listed(type, id) = Places(outbox, type, id)
          /\ Listed(type, id)' = Places(outbox', type, id)
      BY DEF Listed, Places
    <3>4. OwedFor(type, id)' \subseteq OwedFor(type, id)
      BY <2>1 DEF OwedFor
    <3>5. QED
      BY <1>0, <1>2, <1>h, <2>1, <3>2, <3>3, <3>4, CoveredKept
  <2>4. QED
    BY <2>2, <2>3
<1>10. QED
  BY <1>4, <1>5, <1>6, <1>7, <1>8, <1>9, <1>11 DEF TaskActs

\* A message that outbox_delete does not find has no place in the list.
LEMMA NoMatch ==
    ASSUME NEW box \in Seq(Items), NEW id, NEW type, Matching(box, id, type) = 0
    PROVE  Places(box, type, id) = {}
<1> DEFINE P == {i \in DOMAIN box : box[i].msg_id = id /\ box[i].msg_type = type}
<1>1. P \in SUBSET Nat /\ 0 \notin P
  OBVIOUS
<1>2. First(P) = 0
  BY DEF Matching
<1>3. P = {}
  BY <1>1, <1>2, FirstIsIn
<1>4. QED
  BY <1>3 DEF Places

\* What was not in the outbox is the pending message, and without a race stays it.
LEMMA ComparedNext ==
    ASSUME SessionTypes, SessionTypes', Flags, Recognised, Compared, ~raced, ~raced',
           AppActs \/ TaskActs
    PROVE  Compared'
<1> SUFFICES ASSUME taskAt' = "compare", held'.kind # "PUBCOMP"
             PROVE  Pending(Awaited(held.kind), held.id)' \/ <<Awaited(held.kind), held.id>>' \in expired'
  BY DEF Compared
<1>1. CASE AppActs
  <2>1. taskAt = "compare" /\ held' = held
    BY <1>1, AppLeavesTask
  <2>2. pendingType' = pendingType /\ pendingId' = pendingId /\ expired' = expired
    BY <1>1, <2>1 DEF AppActs, Call, TestPending, EnqueuePending, Build, Pend, StoreCount,
       Write, pendingVars, Flags, Type
  <2>3. QED
    BY <2>1, <2>2 DEF Compared, Pending
<1>2. CASE MatchOutbox
  <2> DEFINE type == Awaited(held.kind)
  <2>1. taskAt = "match" /\ held' = held /\ Matching(outbox, held.id, type) = 0
        /\ pendingType' = pendingType /\ pendingId' = pendingId /\ expired' = expired
    BY <1>2 DEF MatchOutbox, ackVars
  <2>2. type \in AckedTypes /\ held.id \in AnyId
    BY <2>1, AwaitedIs DEF SessionTypes, Acks, AckedTypes, Messages
  <2> HIDE DEF type
  <2>3. Covered(type, held.id)
    BY <2>2 DEF Recognised
  <2>4. Cardinality(Listed(type, held.id)) = 0
    <3>1. Listed(type, held.id) = {}
      BY <2>1, NoMatch DEF SessionTypes, Listed, Places
    <3>2. QED
      BY <3>1, FS_EmptySet
  <2>5. Heard(type, held.id) = 1
    BY <2>1 DEF Heard, type
  <2>6. Cardinality(OwedFor(type, held.id)) \in Nat /\ LatestOne(type, held.id) \in {0, 1}
    BY SetsTyped
  <2>7. <<type, held.id>> \in expired \/ LatestOne(type, held.id) = 1
    BY <2>3, <2>4, <2>5, <2>6 DEF Covered
  <2>8. <<type, held.id>> \in expired \/ Pending(type, held.id)
    BY <2>7 DEF LatestOne, Latest
  <2>9. QED
    BY <2>1, <2>8 DEF Pending, type
<1>3. CASE TaskActs /\ ~MatchOutbox
  BY <1>3 DEF TaskActs, ReceiveNothing, ReceiveAck, ComparePending, LoadCount, ReceiveStep,
     Decrement, ReceiveRequest, WriteAnswer, Ping, WritePing, AbortConnection, Reconnect, Clean,
     TaskGoes
<1>4. QED
  BY <1>1, <1>2, <1>3

-----------------------------------------------------------------------------

\* The inductive invariant.
SessionInv ==
    /\ SessionTypes
    /\ Flags
    /\ Ticks
    /\ Numbers
    /\ Offline
    /\ ~raced => Buffer /\ Counted /\ Recognised /\ Compared

\* The inductive invariant holds when the connection is first up.
LEMMA SessionInvInit == SessionInit => SessionInv
<1> SUFFICES ASSUME SessionInit PROVE SessionInv
  OBVIOUS
<1> USE DEF SessionInit
<1>1. SessionTypes
  BY TypesInit
<1>2. Flags /\ Numbers /\ Offline /\ Buffer
  <2>1. Flags
    BY DEF Flags
  <2>2. Numbers /\ Offline /\ Buffer
    BY DEF Numbers, Offline, Buffer, NoMessage, Message
  <2>3. QED
    BY <2>1, <2>2
<1>3. Ticks
  BY DEF Ticks, Stamped, NoMessage, Message
<1>4. Counted
  <2>1. Flows = {}
    BY DEF Flows
  <2>2. Cardinality(Flows) = 0
    BY <2>1, FS_EmptySet
  <2>3. QED
    BY <2>2 DEF Counted, AppInHand, TaskInHand
<1>5. ASSUME NEW type \in AckedTypes, NEW id \in AnyId PROVE Covered(type, id)
  <2>1. OwedFor(type, id) = {} /\ Listed(type, id) = {}
    BY DEF OwedFor, Listed
  <2>2. Cardinality(OwedFor(type, id)) = 0 /\ Cardinality(Listed(type, id)) = 0
    BY <2>1, FS_EmptySet
  <2>3. QED
    BY <2>2 DEF Covered, LatestOne, Heard
<1>6. QED
  BY <1>1, <1>2, <1>3, <1>4, <1>5 DEF SessionInv, Recognised, Compared

\* Every step of either thread keeps the inductive invariant.
LEMMA SessionInvNext == SessionInv /\ [SessionNext]_sessionVars => SessionInv'
<1> SUFFICES ASSUME SessionInv, [SessionNext]_sessionVars PROVE SessionInv'
  OBVIOUS
<1>1. SessionTypes'
  BY AppTypes, TaskTypes, TypesStutter DEF SessionInv, SessionNext
<1>2. Flags'
  BY FlagsNext DEF SessionInv
<1>3. Ticks' /\ Numbers' /\ Offline'
  BY <1>1, TicksNext, NumbersNext, OfflineNext DEF SessionInv
<1>4. ASSUME ~raced' PROVE (Buffer /\ Counted /\ Recognised /\ Compared)'
  <2>1. ~raced /\ Buffer /\ Counted /\ Recognised /\ Compared
    BY <1>2, <1>4, RacedStays DEF SessionInv
  <2>2. CASE AppActs
    BY <1>1, <1>2, <1>4, <2>1, <2>2, AppBuffer, AppCounted, AppRecognised,
       ComparedNext DEF SessionInv
  <2>3. CASE TaskActs
    BY <1>1, <1>2, <1>4, <2>1, <2>3, TaskBuffer, TaskCounted, TaskRecognised,
       ComparedNext DEF SessionInv
  <2>4. CASE UNCHANGED sessionVars
    <3>1. UNCHANGED <<clientState, out, pendingType, pendingId, count, outbox, appAt, call,
                      appCount, taskAt, taskCount, held, owed, written, again, sent, expired>>
      BY <2>4 DEF sessionVars, appVars, pendingVars, linkVars, ackVars, writeVars
    <3>2. Buffer'
      BY <2>1, <3>1 DEF Buffer
    <3>3. Counted'
      BY <2>1, <3>1 DEF Counted, Flows, AppInHand, TaskInHand
    <3>4. Recognised'
      <4> SUFFICES ASSUME NEW type \in AckedTypes, NEW id \in AnyId PROVE Covered(type, id)'
        BY DEF Recognised
      <4>1. OwedFor(type, id)' = OwedFor(type, id) /\ Listed(type, id)' = Listed(type, id)
        BY <3>1 DEF OwedFor, Listed
      <4>2. Heard(type, id)' = Heard(type, id) /\ LatestOne(type, id)' = LatestOne(type, id)
        BY <3>1 DEF Heard, LatestOne, Latest, Pending
      <4>3. Covered(type, id)
        BY <2>1 DEF Recognised
      <4>4. QED
        BY <3>1, <4>1, <4>2, <4>3 DEF Covered
    <3>5. Compared'
      BY <2>1, <3>1 DEF Compared, Pending
    <3>6. QED
      BY <3>2, <3>3, <3>4, <3>5
  <2>5. QED
    BY <2>2, <2>3, <2>4 DEF SessionNext
<1>5. QED
  BY <1>1, <1>2, <1>3, <1>4 DEF SessionInv

\* The inductive invariant holds in every reachable state of a session.
THEOREM SessionInvariant == SessionSpec => []SessionInv
BY SessionInvInit, SessionInvNext, PTL DEF SessionSpec

\* WrittenOnce: whatever is called, answered, lost or reconnected, without a race
\* for the buffer each message is written once and in order, and what mqtt_write_data
\* reported as written was the call's own message.
THEOREM MessagesWrittenOnce == SessionSpec => []WrittenOnce
<1>1. SessionInv => WrittenOnce
  BY DEF SessionInv, Buffer, WrittenOnce
<1>2. QED
  BY <1>1, SessionInvariant, PTL

\* AckAwaited: without a race, pending_msg_count is never below the number of
\* acknowledgements to come and in hand, and is_valid_mqtt_msg finds the message of each
\* one, in the outbox or as the pending message that it is compared with.
THEOREM AcksRecognised == SessionSpec => []AckAwaited
<1>1. SessionInv => AckAwaited
  <2> SUFFICES ASSUME SessionInv, ~raced PROVE AckAwaited
    BY DEF AckAwaited
  <2> DEFINE awaited == {m \in owed : m.kind \in Acks \ {"PUBCOMP"}}
             inHand == IF taskAt \in {"match", "compare", "load"} /\ held.kind # "PUBCOMP"
                       THEN 1 ELSE 0
  <2>1. SessionTypes /\ Counted /\ Recognised /\ Compared
    BY DEF SessionInv
  <2>2. Cardinality(awaited) + inHand <= count
    <3>1. awaited \in SUBSET Flows
      BY DEF Flows
    <3>2. IsFiniteSet(Flows) /\ Cardinality(Flows) \in Nat
      BY <2>1, FlowsTyped
    <3>3. Cardinality(awaited) \in Nat /\ Cardinality(awaited) <= Cardinality(Flows)
      BY <3>1, <3>2, Smaller
    <3>4. inHand \in {0, 1} /\ TaskInHand \in {0, 1} /\ inHand <= TaskInHand
      BY DEF TaskInHand
    <3> HIDE DEF awaited, inHand
    <3>5. count \in Int /\ Cardinality(Flows) + AppInHand + TaskInHand <= count
      BY <2>1 DEF SessionTypes, Counted
    <3>6. AppInHand \in {0, 1}
      BY DEF AppInHand
    <3>7. QED
      BY <3>2, <3>3, <3>4, <3>5, <3>6
  <2>3. ASSUME NEW type \in {"PUBLISH", "SUBSCRIBE", "UNSUBSCRIBE"}, NEW id \in Ids
        PROVE  \/ Pending(type, id)
               \/ <<type, id>> \in expired
               \/ Cardinality(OwedFor(type, id)) + Heard(type, id) <= Cardinality(Listed(type, id))
    <3>1. Covered(type, id)
      BY <2>1 DEF Recognised, AckedTypes, AnyId
    <3>2. CASE ~Pending(type, id)
      <4>1. LatestOne(type, id) = 0
        BY <3>2 DEF LatestOne, Latest
      <4>2. Listed(type, id) = Places(outbox, type, id)
        BY DEF Listed, Places
      <4>3. Cardinality(Listed(type, id)) \in Nat
        BY <2>1, <4>2, PlacesFinite DEF SessionTypes
      <4>4. QED
        BY <3>1, <4>1, <4>3 DEF Covered
    <3>3. QED
      BY <3>2
  <2> HIDE DEF awaited, inHand
  <2>4. QED
    BY <2>1, <2>2, <2>3 DEF AckAwaited, Compared, awaited, inHand
<1>2. QED
  BY <1>1, SessionInvariant, PTL

=============================================================================

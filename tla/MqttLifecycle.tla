-------------------------- MODULE MqttLifecycle ---------------------------
(***************************************************************************)
(* Starting, stopping and destroying an MQTT client (mqtt_client.c).       *)
(*                                                                         *)
(* esp_mqtt_client_start creates the client's task; esp_mqtt_client_stop   *)
(* asks it to end through `run' and waits for the event bit STOPPED_BIT.   *)
(* The application's thread and the task share run, state and the bit      *)
(* without a lock, so here each access to one of them is a step.  What the *)
(* task does with the messages of a connection is left out.                *)
(***************************************************************************)
EXTENDS Naturals, FiniteSets

CONSTANTS
    TaskIds,     \* tasks that can exist at a time; an ended task's id is reused
    AppWaits     \* between a start that succeeds and its next call, the
                 \* application waits for MQTT_EVENT_CONNECTED; it stops or
                 \* destroys only a client that it has started

ASSUME AppWaitsAssumption == AppWaits \in BOOLEAN

VARIABLES
    state,          \* client->state
    run,            \* client->run
    stopped,        \* STOPPED_BIT of client->status_bits
    open,           \* the transport is connected
    connectedBit,   \* CONNECTED_BIT of the firmware's wrapper (mqtt.c)
    autoReconnect,  \* client->config->auto_reconnect
    taskPc,         \* next step of each task; "none" before and after its life
    appPc,          \* next step of the application's thread
    destroying,     \* the stop is the one of esp_mqtt_client_destroy
    phase           \* ghost: how far the client is for the application

vars == <<state, run, stopped, open, connectedBit, autoReconnect,
          taskPc, appPc, destroying, phase>>

States == {"UNKNOWN", "INIT", "CONNECTED", "WAIT_TIMEOUT"}

\* The steps of a task that follow its clearing of STOPPED_BIT.
RunningPcs ==
    {"loop", "switch", "connect", "handshake", "notifyUp", "receive",
     "abort", "waiting", "notifyDown", "wait", "close", "setStopped"}

StartingPcs == {"run", "init", "clear"}

AppPcs == {"idle", "create", "clear", "wait", "unknown", "free", "gone"}

Phases == {"new", "starting", "up", "stopped"}

Live == {k \in TaskIds : taskPc[k] # "none"}

\* esp_mqtt_client_init: calloc, then the configuration.
Init ==
    /\ state = "UNKNOWN"
    /\ run = FALSE
    /\ stopped = FALSE
    /\ open = FALSE
    /\ connectedBit = FALSE
    /\ autoReconnect \in BOOLEAN
    /\ taskPc = [k \in TaskIds |-> "none"]
    /\ appPc = "idle"
    /\ destroying = FALSE
    /\ phase = "new"

-----------------------------------------------------------------------------
(***************************************************************************)
(* The application's thread.                                               *)
(***************************************************************************)

App(from, to) == appPc = from /\ appPc' = to

\* The application may call the client now.
MayStart == AppWaits => phase # "starting"

MayStop == AppWaits => phase \in {"up", "stopped"}

StartMutant ==     \* mutant: no check that the client has not started
    /\ MayStart
    /\ App("idle", "create")
    /\ UNCHANGED <<state, run, stopped, open, connectedBit, autoReconnect,
                   taskPc, destroying, phase>>

\* esp_mqtt_client_start; a call that is refused changes nothing.
Start ==
    /\ MayStart
    /\ state = "UNKNOWN"
    /\ App("idle", "create")
    /\ UNCHANGED <<state, run, stopped, open, connectedBit, autoReconnect,
                   taskPc, destroying, phase>>

Create(k) ==
    /\ App("create", "clear")
    /\ taskPc[k] = "none"
    /\ taskPc' = [taskPc EXCEPT ![k] = "run"]
    /\ phase' = "starting"
    /\ UNCHANGED <<state, run, stopped, open, connectedBit, autoReconnect, destroying>>

CreateFails ==
    /\ App("create", "idle")
    /\ UNCHANGED <<state, run, stopped, open, connectedBit, autoReconnect,
                   taskPc, destroying, phase>>

StartClears ==
    /\ App("clear", "idle")
    /\ stopped' = FALSE
    /\ UNCHANGED <<state, run, open, connectedBit, autoReconnect,
                   taskPc, destroying, phase>>

\* esp_mqtt_client_stop, called by itself or by esp_mqtt_client_destroy.
Stop ==
    /\ MayStop
    /\ App("idle", "wait")
    /\ run' = FALSE
    /\ destroying' \in BOOLEAN
    /\ UNCHANGED <<state, stopped, open, connectedBit, autoReconnect, taskPc, phase>>

AwaitStoppedMutant ==     \* mutant: only a connected client is waited for
    /\ state = "CONNECTED" => stopped
    /\ App("wait", "unknown")
    /\ UNCHANGED <<state, run, stopped, open, connectedBit, autoReconnect,
                   taskPc, destroying, phase>>

AwaitStopped ==
    /\ stopped
    /\ App("wait", "unknown")
    /\ UNCHANGED <<state, run, stopped, open, connectedBit, autoReconnect,
                   taskPc, destroying, phase>>

SetUnknown ==
    /\ App("unknown", IF destroying THEN "free" ELSE "idle")
    /\ state' = "UNKNOWN"
    /\ phase' = "stopped"
    /\ UNCHANGED <<run, stopped, open, connectedBit, autoReconnect, taskPc, destroying>>

\* The rest of esp_mqtt_client_destroy: the client's memory is given back.
Free ==
    /\ App("free", "gone")
    /\ UNCHANGED <<state, run, stopped, open, connectedBit, autoReconnect,
                   taskPc, destroying, phase>>

AppContinues ==
    (\E k \in TaskIds : Create(k)) \/ CreateFails \/ StartClears
        \/ AwaitStopped \/ SetUnknown \/ Free

-----------------------------------------------------------------------------
(***************************************************************************)
(* The client's task, esp_mqtt_task.                                       *)
(***************************************************************************)

Task(k, from, to) == taskPc[k] = from /\ taskPc' = [taskPc EXCEPT ![k] = to]

TaskSetsRun(k) ==
    /\ Task(k, "run", "init")
    /\ run' = TRUE
    /\ UNCHANGED <<state, stopped, open, connectedBit, autoReconnect,
                   appPc, destroying, phase>>

TaskSetsInit(k) ==
    /\ Task(k, "init", "clear")
    /\ state' = "INIT"
    /\ UNCHANGED <<run, stopped, open, connectedBit, autoReconnect,
                   appPc, destroying, phase>>

TaskClears(k) ==
    /\ Task(k, "clear", "loop")
    /\ stopped' = FALSE
    /\ UNCHANGED <<state, run, open, connectedBit, autoReconnect,
                   appPc, destroying, phase>>

\* while (client->run)
Loop(k) ==
    /\ Task(k, "loop", IF run THEN "switch" ELSE "close")
    /\ UNCHANGED <<state, run, stopped, open, connectedBit, autoReconnect,
                   appPc, destroying, phase>>

\* switch (client->state); a state without a case is polled.
Switch(k) ==
    /\ Task(k, "switch", CASE state = "INIT"         -> "connect"
                           [] state = "CONNECTED"    -> "receive"
                           [] state = "WAIT_TIMEOUT" -> "wait"
                           [] OTHER                  -> "loop")
    /\ UNCHANGED <<state, run, stopped, open, connectedBit, autoReconnect,
                   appPc, destroying, phase>>

\* transport_connect
Connect(k) ==
    /\ \/ Task(k, "connect", "handshake") /\ open' = TRUE
       \/ Task(k, "connect", "abort") /\ UNCHANGED open
    /\ UNCHANGED <<state, run, stopped, connectedBit, autoReconnect,
                   appPc, destroying, phase>>

\* esp_mqtt_connect: accepted, or refused or not answered.
Handshake(k) ==
    /\ \/ Task(k, "handshake", "notifyUp") /\ state' = "CONNECTED"
       \/ Task(k, "handshake", "abort") /\ UNCHANGED state
    /\ UNCHANGED <<run, stopped, open, connectedBit, autoReconnect,
                   appPc, destroying, phase>>

\* MQTT_EVENT_CONNECTED
NotifyUp(k) ==
    /\ Task(k, "notifyUp", "loop")
    /\ connectedBit' = TRUE
    /\ phase' = IF phase = "starting" THEN "up" ELSE phase
    /\ UNCHANGED <<state, run, stopped, open, autoReconnect, appPc, destroying>>

\* mqtt_process_receive and esp_mqtt_client_ping: both succeed, or one fails.
Receive(k) ==
    /\ Task(k, "receive", "loop") \/ Task(k, "receive", "abort")
    /\ UNCHANGED <<state, run, stopped, open, connectedBit, autoReconnect,
                   appPc, destroying, phase>>

\* esp_mqtt_abort_connection
AbortMutant(k) ==     \* mutant: the application is not told
    /\ \/ /\ Task(k, "abort", "waiting")
          /\ open' = FALSE
          /\ UNCHANGED <<state, connectedBit>>
       \/ /\ Task(k, "waiting", "notifyDown")
          /\ state' = "WAIT_TIMEOUT"
          /\ UNCHANGED <<open, connectedBit>>
       \/ /\ Task(k, "notifyDown", "loop")
          /\ UNCHANGED <<state, open, connectedBit>>
    /\ UNCHANGED <<run, stopped, autoReconnect, appPc, destroying, phase>>

Abort(k) ==
    /\ \/ /\ Task(k, "abort", "waiting")
          /\ open' = FALSE
          /\ UNCHANGED <<state, connectedBit>>
       \/ /\ Task(k, "waiting", "notifyDown")
          /\ state' = "WAIT_TIMEOUT"
          /\ UNCHANGED <<open, connectedBit>>
       \/ /\ Task(k, "notifyDown", "loop")     \* MQTT_EVENT_DISCONNECTED
          /\ connectedBit' = FALSE
          /\ UNCHANGED <<state, open>>
    /\ UNCHANGED <<run, stopped, autoReconnect, appPc, destroying, phase>>

\* The case of MQTT_STATE_WAIT_TIMEOUT: the client gives up, or it looks
\* whether wait_timeout_ms have passed.
Wait(k) ==
    /\ Task(k, "wait", "loop")
    /\ \/ ~autoReconnect /\ run' = FALSE /\ UNCHANGED state
       \/ autoReconnect /\ state' \in {"INIT", state} /\ UNCHANGED run
    /\ UNCHANGED <<stopped, open, connectedBit, autoReconnect,
                   appPc, destroying, phase>>

CloseTransportMutant(k) ==     \* mutant: only abort closes the transport
    /\ Task(k, "close", "setStopped")
    /\ UNCHANGED <<state, run, stopped, open, connectedBit, autoReconnect,
                   appPc, destroying, phase>>

CloseTransport(k) ==
    /\ Task(k, "close", "setStopped")
    /\ open' = FALSE
    /\ UNCHANGED <<state, run, stopped, connectedBit, autoReconnect,
                   appPc, destroying, phase>>

SetStoppedMutant(k) ==     \* mutant: a client that is not connected says nothing
    /\ Task(k, "setStopped", "none")
    /\ stopped' = (stopped \/ state = "CONNECTED")
    /\ UNCHANGED <<state, run, open, connectedBit, autoReconnect,
                   appPc, destroying, phase>>

\* The last access of the task to the client; vTaskDelete follows.
SetStopped(k) ==
    /\ Task(k, "setStopped", "none")
    /\ stopped' = TRUE
    /\ UNCHANGED <<state, run, open, connectedBit, autoReconnect,
                   appPc, destroying, phase>>

TaskStep(k) ==
    \/ TaskSetsRun(k) \/ TaskSetsInit(k) \/ TaskClears(k)
    \/ Loop(k) \/ Switch(k) \/ Connect(k) \/ Handshake(k) \/ NotifyUp(k)
    \/ Receive(k) \/ Abort(k) \/ Wait(k)
    \/ CloseTransport(k) \/ SetStopped(k)

-----------------------------------------------------------------------------

Next == Start \/ Stop \/ AppContinues \/ \E k \in TaskIds : TaskStep(k)

Spec == Init /\ [][Next]_vars

\* The kernel runs the tasks that are ready, every call of the transport has a
\* timeout, and the application goes on with a call it has begun.
FairSpec ==
    /\ Spec
    /\ WF_vars(AppContinues)
    /\ \A k \in TaskIds : WF_vars(TaskStep(k))

-----------------------------------------------------------------------------

TypeOK ==
    /\ state \in States
    /\ run \in BOOLEAN
    /\ stopped \in BOOLEAN
    /\ open \in BOOLEAN
    /\ connectedBit \in BOOLEAN
    /\ autoReconnect \in BOOLEAN
    /\ taskPc \in [TaskIds -> {"none"} \cup StartingPcs \cup RunningPcs]
    /\ appPc \in AppPcs
    /\ destroying \in BOOLEAN
    /\ phase \in Phases

\* The check in esp_mqtt_client_start ("Client has started") does its job: two
\* tasks never work for one client, which would share its socket and buffers.
OneTask == \A j, k \in Live : j = k

\* When esp_mqtt_client_stop stops waiting, the task is gone: destroy frees a
\* client nobody uses, although STOPPED_BIT may be left from an earlier stop.
NoTaskAfterStop == appPc \in {"unknown", "free", "gone"} => Live = {}

\* However the task ends, its connection ends with it: no socket is leaked,
\* and the next task of the client starts with a closed transport.
SocketClosed == open => Live # {}

\* mc_mqtt_check_connected follows the client: when the task has handled the
\* outcome of a connection, CONNECTED_BIT tells whether it is up.  (Until the
\* first outcome after a restart, the bit is the one that the stop left.)
BitFollowsState ==
    \A k \in TaskIds :
        taskPc[k] = "loop" /\ state \in {"CONNECTED", "WAIT_TIMEOUT"} =>
            (connectedBit <=> state = "CONNECTED")

\* A client that reconnects for ever can be stopped: esp_mqtt_client_stop and
\* esp_mqtt_client_destroy return, whatever the connection is doing.
StopReturns == autoReconnect /\ appPc = "wait" ~> appPc # "wait"

=============================================================================

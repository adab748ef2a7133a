----------------------------- MODULE Transport -----------------------------
(***************************************************************************)
(* The transports of the MQTT client (lib/transport.c, transport_tcp.c,    *)
(* transport_ssl.c, transport_ws.c) as the client's task and a publishing  *)
(* application use one of them.                                            *)
(*                                                                         *)
(* `mqtt' is plain TCP, `mqtts' TLS, `ws' and `wss' a websocket over one   *)
(* of these, its parent.  What is written to a socket is kept as chunks:   *)
(* an upgrade request, the header of a frame, or a body, which without a   *)
(* websocket is a whole message.  A chunk may be cut short.  The sockets,  *)
(* the TLS library and the broker are external.                            *)
(***************************************************************************)
EXTENDS Integers, Sequences, FiniteSets

CONSTANTS MaxConnects,     \* bound on the connections that are tried
          MaxChunks        \* bound on the chunks on one connection

ASSUME BoundAssumption == MaxConnects \in Nat \ {0} /\ MaxChunks \in Nat \ {0}

VARIABLES
    scheme,       \* client->config->scheme
    cert,         \* a certificate has been set (transport_ssl_set_cert_data)
    freed,        \* transport_list_destroy has run
    sock,         \* the descriptor of the TCP or TLS transport, None for -1
    sockets,      \* the descriptors that are open
    ssl,          \* ssl_initialized, verify_server, and the contexts that are not freed
    state,        \* client->state: INIT, CONNECTED or WAIT
    task,         \* where the client's task is
    duty,         \* what the task writes: connect, ping or answer
    app,          \* where a publish of the application is
    began,        \* the connection on which each writer has begun its write
    in_buffer,    \* what mqtt_state.in_buffer begins with
    connects,     \* how many connections have been tried
    accepted,     \* the broker has accepted the present connection
    wire,         \* the chunks sent on the present connection
    mixed         \* a writer began while the other one was within a write

vars == <<scheme, cert, freed, sock, sockets, ssl, state, task, duty, app, began, in_buffer,
          connects, accepted, wire, mixed>>

None == 0

Websocket == scheme \in {"ws", "wss"}

Tls == scheme \in {"mqtts", "wss"}

Writers == {"task", "app"}

\* Where a writer is within a write.
Writing(pc) == pc \in {"header", "body"}

TypeOK ==
    /\ scheme \in {"mqtt", "mqtts", "ws", "wss"} /\ cert \in BOOLEAN /\ freed \in BOOLEAN
    /\ sock \in 0..2 /\ sockets \subseteq 1..2
    /\ ssl \in [initialized : BOOLEAN, verify : BOOLEAN, contexts : 0..1, cacert : 0..1]
    /\ state \in {"INIT", "CONNECTED", "WAIT"}
    /\ task \in {"loop", "upgrade", "reply", "header", "body", "connack", "failed", "ended"}
    /\ duty \in {"connect", "ping", "answer"}
    /\ app \in {"idle", "header", "body"}
    /\ began \in [Writers -> 0..MaxConnects]
    /\ in_buffer \in {"garbage", "connack", "refused", "other"}
    /\ connects \in 0..MaxConnects /\ accepted \in BOOLEAN /\ mixed \in BOOLEAN
    /\ wire \in Seq([by : Writers, part : {"upgrade", "header", "body"}, whole : BOOLEAN,
                     began : 1..MaxConnects])

\* transport_tcp_init and transport_ssl_init: no socket; the task has chosen its
\* transport by the scheme (transport_list_get_transport).
Init ==
    /\ scheme \in {"mqtt", "mqtts", "ws", "wss"}
    /\ cert \in BOOLEAN /\ (cert => Tls)
    /\ freed = FALSE /\ sock = None /\ sockets = {}
    /\ ssl = [initialized |-> FALSE, verify |-> FALSE, contexts |-> 0, cacert |-> 0]
    /\ state = "INIT" /\ task = "loop" /\ duty = "connect" /\ app = "idle"
    /\ began = [w \in Writers |-> 0]
    /\ in_buffer = "garbage" /\ connects = 0 /\ accepted = FALSE
    /\ wire = <<>> /\ mixed = FALSE

-----------------------------------------------------------------------------
(***************************************************************************)
(* Closing.                                                                *)
(***************************************************************************)

\* tcp_close: nothing without a socket.
TcpClose ==
    /\ sockets' = sockets \ {sock} /\ sock' = None
    /\ UNCHANGED ssl

\* ssl_close: nothing unless a connection has been tried since the last close.
SslClose ==
    IF ssl.initialized
    THEN /\ ssl' = [initialized |-> FALSE, verify |-> FALSE, contexts |-> ssl.contexts - 1,
                    cacert |-> IF ssl.verify THEN ssl.cacert - 1 ELSE ssl.cacert]
         /\ sockets' = sockets \ {sock} /\ sock' = None
    ELSE UNCHANGED <<ssl, sock, sockets>>

\* transport_close; ws_close closes the parent.
Close == IF Tls THEN SslClose ELSE TcpClose

\* esp_mqtt_abort_connection
Abort == Close /\ state' = "WAIT" /\ task' = "loop"

-----------------------------------------------------------------------------
(***************************************************************************)
(* Connecting.                                                             *)
(***************************************************************************)

Fresh == CHOOSE s \in 1..2 : s \notin sockets

TcpConnectMutant(ok) ==     \* mutant: a socket that cannot connect is not closed
    /\ sock' = IF ok THEN Fresh ELSE None
    /\ sockets' = sockets \cup {Fresh}
    /\ UNCHANGED ssl

\* tcp_connect: the name is not found, there is no socket, the connection fails and
\* its socket is closed, or all is well.
TcpConnect(ok) ==
    /\ sock' = IF ok THEN Fresh ELSE None
    /\ sockets' = IF ok THEN sockets \cup {Fresh} ELSE sockets
    /\ UNCHANGED ssl

\* ssl_connect fails before the certificate, behind it, in the TCP connection
\* (which leaves the number of the closed socket), in the handshake or at the
\* verification, which counts only with a certificate.
SslFailures == {"setup", "certificate", "connection", "handshake"}
               \cup (IF cert THEN {"verification"} ELSE {})

SslConnect(ok) ==
    \E failure \in (IF ok THEN {"none"} ELSE SslFailures) :
        LET parsed == cert /\ failure # "setup" IN
        /\ ssl' = [initialized |-> TRUE, verify |-> ssl.verify \/ parsed,
                   contexts |-> ssl.contexts + 1,
                   cacert |-> IF parsed THEN ssl.cacert + 1 ELSE ssl.cacert]
        /\ sock' = IF failure \in {"setup", "certificate"} THEN sock ELSE Fresh
        /\ sockets' = IF failure \in {"none", "handshake", "verification"}
                      THEN sockets \cup {Fresh} ELSE sockets

AfterConnectMutant(ok) ==     \* mutant: esp_mqtt_task does not ask for the result
    IF Websocket THEN "upgrade" ELSE "body"

\* ws_connect goes on when its parent could not connect; with the other transports
\* the client's task goes on to its CONNECT message, or gives up.
AfterConnect(ok) == IF Websocket THEN "upgrade" ELSE IF ok THEN "body" ELSE "failed"

Connect ==
    /\ task = "loop" /\ state = "INIT" /\ connects < MaxConnects
    /\ connects' = connects + 1 /\ wire' = <<>> /\ accepted' = FALSE
    /\ \E ok \in BOOLEAN :
        /\ IF Tls THEN SslConnect(ok) ELSE TcpConnect(ok)
        /\ task' = AfterConnect(ok)
    /\ began' = [began EXCEPT !["task"] = connects + 1]
    /\ duty' = "connect" /\ mixed' = Writing(app)
    /\ UNCHANGED <<scheme, cert, freed, state, app, in_buffer>>

\* esp_mqtt_task: a transport that could not connect is closed.
ConnectFails ==
    /\ task = "failed" /\ Abort
    /\ UNCHANGED <<scheme, cert, freed, duty, app, began, in_buffer, connects, accepted, wire, mixed>>

-----------------------------------------------------------------------------
(***************************************************************************)
(* Writing and reading.                                                    *)
(***************************************************************************)

\* A TLS session can be written to only once its handshake is over; a socket only
\* while it is open.
Usable == sock \in sockets

\* tcp_write and ssl_write: the poll may time out (0) or fail, the write may fail
\* or send only a part.
Outcomes == IF Usable /\ Len(wire) < MaxChunks THEN {"whole", "part", "timeout", "error"}
            ELSE {"timeout", "error"}

Send(by, part, outcome) ==
    wire' = IF outcome \in {"whole", "part"}
            THEN Append(wire, [by |-> by, part |-> part, whole |-> outcome = "whole",
                               began |-> began[by]])
            ELSE wire

\* The first step of a write: ws_write polls its parent before it sends a header.
FirstPart == IF Websocket THEN "header" ELSE "body"

\* ws_connect: the upgrade request, and the answer to it, whose key is right only
\* if the request has arrived first and whole.
Upgrade ==
    /\ task = "upgrade"
    /\ \E outcome \in Outcomes :
        /\ Send("task", "upgrade", outcome)
        /\ IF outcome \in {"whole", "part"}
           THEN task' = "reply" /\ UNCHANGED <<sock, sockets, ssl, state>>
           ELSE Abort
    /\ UNCHANGED <<scheme, cert, freed, duty, app, began, in_buffer, connects, accepted, mixed>>

Upgraded == Len(wire) > 0 /\ wire[1].part = "upgrade" /\ wire[1].whole

Reply ==
    /\ task = "reply"
    /\ \/ Usable /\ Upgraded /\ task' = "header" /\ UNCHANGED <<sock, sockets, ssl, state>>
       \/ Abort
    /\ UNCHANGED <<scheme, cert, freed, duty, app, began, in_buffer, connects, accepted, wire, mixed>>

HeaderGoesOnMutant(outcome) == outcome \in {"whole", "part"}     \* mutant: > 0 will do

\* ws_write goes on to the body only if all of the header has been written.
HeaderGoesOn(outcome) == outcome = "whole"

\* What the task makes of the result of its write: the CONNECT message fails only
\* with a negative result, a ping with a timeout too, and an answer never.
Fails(result) == \/ result = "error" /\ duty # "answer"
                 \/ result = "timeout" /\ duty = "ping"

Written(result) ==
    IF Fails(result) THEN Abort
    ELSE /\ task' = IF duty = "connect" THEN "connack" ELSE "loop"
         /\ UNCHANGED <<sock, sockets, ssl, state>>

\* A timeout of the first poll is the result; one of the header's write is an error.
TaskHeader ==
    /\ task = "header"
    /\ \E outcome \in Outcomes :
        /\ Send("task", "header", outcome)
        /\ IF HeaderGoesOn(outcome)
           THEN task' = "body" /\ UNCHANGED <<sock, sockets, ssl, state>>
           ELSE \/ Written("error")
                \/ outcome = "timeout" /\ Written("timeout")
    /\ UNCHANGED <<scheme, cert, freed, duty, app, began, in_buffer, connects, accepted, mixed>>

TaskBody ==
    /\ task = "body"
    /\ \E outcome \in Outcomes : Send("task", "body", outcome) /\ Written(outcome)
    /\ UNCHANGED <<scheme, cert, freed, duty, app, began, in_buffer, connects, accepted, mixed>>

\* What the broker can read of the present connection: the CONNECT message comes
\* first, whole and undisturbed.
ConnectArrived ==
    LET frame == IF Websocket THEN <<"upgrade", "header", "body">> ELSE <<"body">>
    IN  /\ Len(wire) >= Len(frame)
        /\ \A i \in DOMAIN frame : /\ wire[i].by = "task" /\ wire[i].part = frame[i]
                                   /\ wire[i].whole

ConnackMutant ==     \* mutant: the type of the answer is not asked
    /\ task = "connack"
    /\ in_buffer' \in {"connack", "other", in_buffer}
    /\ accepted' = (in_buffer' = "connack" /\ Usable /\ ConnectArrived)
    /\ \/ task' = "loop" /\ state' = "CONNECTED" /\ UNCHANGED <<sock, sockets, ssl>>
       \/ Abort
    /\ UNCHANGED <<scheme, cert, freed, duty, app, began, connects, wire, mixed>>

\* The rest of esp_mqtt_connect: a read that times out is not a failure, and the
\* answer is looked for in what in_buffer holds.
Connack ==
    /\ task = "connack"
    /\ \E answer \in {"failure", "timeout", "refused", "other"}
                     \cup (IF Usable /\ ConnectArrived THEN {"connack"} ELSE {}) :
        LET buffer == IF answer \in {"failure", "timeout"} THEN in_buffer ELSE answer IN
        /\ answer \in {"failure", "timeout"} \/ Usable
        /\ in_buffer' = buffer
        /\ accepted' = (answer = "connack")
        /\ IF answer # "failure" /\ buffer = "connack"
           THEN task' = "loop" /\ state' = "CONNECTED" /\ UNCHANGED <<sock, sockets, ssl>>
           ELSE Abort
    /\ UNCHANGED <<scheme, cert, freed, duty, app, began, connects, wire, mixed>>

\* mqtt_process_receive: a failure (an end of file included), a message of the
\* broker, or the answer that Connack did not wait for.
Receive ==
    /\ task = "loop" /\ state = "CONNECTED"
    /\ \/ Abort /\ UNCHANGED <<in_buffer, accepted>>
       \/ /\ Usable /\ accepted /\ in_buffer' = "other" /\ UNCHANGED <<accepted, task, state, sock, sockets, ssl>>
       \/ /\ Usable /\ ConnectArrived /\ ~accepted
          /\ in_buffer' = "connack" /\ accepted' = TRUE
          /\ UNCHANGED <<task, state, sock, sockets, ssl>>
    /\ UNCHANGED <<scheme, cert, freed, duty, app, began, connects, wire, mixed>>

\* The task begins to write a ping, or the answer to a message.
Ping ==
    /\ task = "loop" /\ state = "CONNECTED" /\ Len(wire) < MaxChunks
    /\ task' = FirstPart /\ began' = [began EXCEPT !["task"] = connects]
    /\ duty' \in {"ping", "answer"} /\ mixed' = (mixed \/ Writing(app))
    /\ UNCHANGED <<scheme, cert, freed, sock, sockets, ssl, state, app, in_buffer, connects,
                   accepted, wire>>

Wait ==
    /\ task = "loop" /\ state = "WAIT"
    /\ state' = "INIT"
    /\ UNCHANGED <<scheme, cert, freed, duty, sock, sockets, ssl, task, app, began, in_buffer, connects,
                   accepted, wire, mixed>>

\* The task leaves its loop because of a stop, and closes its transport.
End ==
    /\ task = "loop" /\ task' = "ended" /\ Close
    /\ UNCHANGED <<scheme, cert, freed, duty, state, app, began, in_buffer, connects, accepted, wire, mixed>>

-----------------------------------------------------------------------------
(***************************************************************************)
(* The application.                                                        *)
(***************************************************************************)

PublishMutant ==     \* mutant: the state is not asked
    /\ app = "idle" /\ ~freed /\ Len(wire) < MaxChunks
    /\ app' = FirstPart /\ began' = [began EXCEPT !["app"] = connects]
    /\ mixed' = (mixed \/ Writing(task)) /\ connects > 0
    /\ UNCHANGED <<scheme, cert, freed, duty, sock, sockets, ssl, state, task, in_buffer, connects,
                   accepted, wire>>

\* esp_mqtt_client_publish, which asks for the state once.
Publish ==
    /\ app = "idle" /\ state = "CONNECTED" /\ ~freed /\ Len(wire) < MaxChunks
    /\ app' = FirstPart /\ began' = [began EXCEPT !["app"] = connects]
    /\ mixed' = (mixed \/ Writing(task))
    /\ UNCHANGED <<scheme, cert, freed, duty, sock, sockets, ssl, state, task, in_buffer, connects,
                   accepted, wire>>

\* A publish that fails closes nothing.
AppHeader ==
    /\ app = "header"
    /\ \E outcome \in Outcomes : /\ Send("app", "header", outcome)
                                 /\ app' = IF HeaderGoesOn(outcome) THEN "body" ELSE "idle"
    /\ UNCHANGED <<scheme, cert, freed, duty, sock, sockets, ssl, state, task, began, in_buffer, connects,
                   accepted, mixed>>

AppBody ==
    /\ app = "body" /\ app' = "idle"
    /\ \E outcome \in Outcomes : Send("app", "body", outcome)
    /\ UNCHANGED <<scheme, cert, freed, duty, sock, sockets, ssl, state, task, began, in_buffer, connects,
                   accepted, mixed>>

\* transport_list_destroy, behind a stop: every transport closes what it has open;
\* a websocket leaves its parent alone.
Destroy ==
    /\ task = "ended" /\ app = "idle" /\ ~freed
    /\ freed' = TRUE /\ Close
    /\ UNCHANGED <<scheme, cert, state, task, duty, app, began, in_buffer, connects, accepted, wire, mixed>>

Next == \/ Connect \/ ConnectFails \/ Upgrade \/ Reply \/ TaskHeader \/ TaskBody \/ Connack
        \/ Receive \/ Ping \/ Wait \/ End
        \/ Publish \/ AppHeader \/ AppBody \/ Destroy

Spec == Init /\ [][Next]_vars

-----------------------------------------------------------------------------
(***************************************************************************)
(* The properties.                                                         *)
(***************************************************************************)

\* transport_tcp.c, transport_ssl.c: whatever fails while connecting, the only open
\* descriptor is the transport's own, the TLS contexts are set up at most once
\* between two closes, and a connection that was given up, or a list that was
\* destroyed, leaves nothing behind.
NothingLeaks ==
    /\ sockets \subseteq {sock}
    /\ ssl.contexts = (IF ssl.initialized THEN 1 ELSE 0) /\ ssl.cacert <= ssl.contexts
    /\ (state = "WAIT" \/ task = "ended" \/ freed) => sockets = {} /\ ssl.contexts = 0

\* The client's task selects, reads and writes only a descriptor that is open, but for
\* the upgrade request of a websocket whose parent could not connect.
TaskUsesOpenSocket ==
    \/ task \in {"reply", "header", "body", "connack"}
    \/ state = "CONNECTED" /\ task = "loop"
    => Usable

\* The chunk at place j is the whole header that belongs to the body at place i.
HeaderOf(j, i) ==
    wire[j] = [by |-> wire[i].by, part |-> "header", whole |-> TRUE, began |-> wire[i].began]

\* ws_write: of what one task sends on a connection, every body follows its header;
\* the frames are also whole on the wire unless the other task writes in between
\* (nothing locks the transport), even if headers are cut short.
FramesPaired ==
    Websocket =>
        \A i \in DOMAIN wire : wire[i].part = "body" /\ wire[i].began = connects =>
            /\ \E j \in 1..(i - 1) : /\ HeaderOf(j, i)
                                    /\ \A k \in (j + 1)..(i - 1) : wire[k].by # wire[i].by
            /\ ~mixed => i > 1 /\ HeaderOf(i - 1, i)

\* esp_mqtt_task, esp_mqtt_client_publish: a new connection starts with the client's
\* own upgrade or CONNECT, and not with a message of the application, unless that
\* one was begun on an earlier connection, or the broker's answer to an earlier
\* CONNECT has been taken for a new one.
ConnectComesFirst ==
    (wire # <<>> /\ wire[1].by = "app") =>
        wire[1].began < connects \/ (connects > 1 /\ ~accepted /\ in_buffer = "connack")

\* esp_mqtt_connect: the client believes itself connected without the broker's
\* answer only on a later connection, when the CONNACK of an earlier one is still in
\* the buffer.
AnsweredOrStale ==
    (state = "CONNECTED" /\ ~accepted) => connects > 1 /\ in_buffer = "connack"

=============================================================================

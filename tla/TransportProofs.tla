-------------------------- MODULE TransportProofs --------------------------
(***************************************************************************)
(* Proofs for Transport, for all four schemes and any number of            *)
(* connections and of chunks: nothing leaks, the client's task uses an     *)
(* open descriptor, and a connection without the broker's answer is one    *)
(* that an old answer was taken for.                                       *)
(***************************************************************************)
EXTENDS Transport, TLAPS

(***************************************************************************)
(* The inductive invariant.                                                *)
(***************************************************************************)

\* A TLS transport has its contexts, and with them its certificate, from the
\* beginning of a connection to the next close; an open descriptor is its own.
Resource ==
    /\ sock \in 0..2 /\ sockets \subseteq 1..2 /\ sockets \subseteq {sock}
    /\ ssl \in [initialized : BOOLEAN, verify : BOOLEAN, contexts : 0..1, cacert : 0..1]
    /\ ssl.contexts = (IF ssl.initialized THEN 1 ELSE 0)
    /\ ssl.cacert = (IF ssl.verify THEN 1 ELSE 0)
    /\ ssl.verify => ssl.initialized
    /\ Tls /\ sockets # {} => ssl.initialized
    /\ ~Tls => ~ssl.initialized

Closed == sockets = {} /\ ~ssl.initialized

\* Where the task is, the state and the transport agree.
Control ==
    /\ task \in {"upgrade", "reply", "connack", "failed"} => state = "INIT"
    /\ task \in {"upgrade", "reply"} => duty = "connect"
    /\ task \in {"header", "body"} => state = IF duty = "connect" THEN "INIT" ELSE "CONNECTED"
    /\ freed => task = "ended"
    /\ task = "ended" \/ (task = "loop" /\ state # "CONNECTED") => Closed

\* Nobody writes before the first connection.
Begun ==
    /\ state # "INIT" => connects >= 1
    /\ task \notin {"loop", "ended"} => connects >= 1 /\ began["task"] >= 1
    /\ app # "idle" => began["app"] >= 1

\* in_buffer holds an answer only of a connection that there has been: while a
\* connection is being made, of an earlier one.
Answers ==
    /\ in_buffer = "connack" => connects >= 1
    /\ state = "INIT" /\ task \notin {"loop", "ended"} /\ in_buffer = "connack" => connects > 1
    /\ AnsweredOrStale

Chunks == [by : Writers, part : {"upgrade", "header", "body"}, whole : BOOLEAN,
           began : 1..MaxConnects]

\* The types of what is not in Resource.
Types ==
    /\ scheme \in {"mqtt", "mqtts", "ws", "wss"} /\ cert \in BOOLEAN /\ freed \in BOOLEAN
    /\ state \in {"INIT", "CONNECTED", "WAIT"}
    /\ task \in {"loop", "upgrade", "reply", "header", "body", "connack", "failed", "ended"}
    /\ duty \in {"connect", "ping", "answer"}
    /\ app \in {"idle", "header", "body"}
    /\ began \in [Writers -> 0..MaxConnects]
    /\ in_buffer \in {"garbage", "connack", "refused", "other"}
    /\ connects \in 0..MaxConnects /\ accepted \in BOOLEAN /\ mixed \in BOOLEAN

Wires == wire \in Seq(Chunks)

IInv == Types /\ Wires /\ Resource /\ Control /\ TaskUsesOpenSocket /\ Begun /\ Answers

-----------------------------------------------------------------------------
(***************************************************************************)
(* The parts that actions are made of.                                     *)
(***************************************************************************)

\* transport_close leaves nothing open, whichever transport it is.
LEMMA CloseCloses ==
    ASSUME Resource, Close, scheme' = scheme
    PROVE  Resource' /\ Closed'
<1>1. CASE ~Tls
  <2>1. sockets' = sockets \ {sock} /\ sock' = 0 /\ ssl' = ssl
    BY <1>1 DEF Close, TcpClose, None
  <2>2. sockets' = {}
    BY <2>1 DEF Resource
  <2>3. ~Tls'
    BY <1>1 DEF Tls
  <2>4. QED
    BY <1>1, <2>1, <2>2, <2>3 DEF Resource, Closed
<1>2. CASE Tls /\ ~ssl.initialized
  BY <1>2 DEF Resource, Close, SslClose, Closed, Tls
<1>3. CASE Tls /\ ssl.initialized
  <2>1. /\ ssl' = [initialized |-> FALSE, verify |-> FALSE, contexts |-> ssl.contexts - 1,
                   cacert |-> IF ssl.verify THEN ssl.cacert - 1 ELSE ssl.cacert]
        /\ sockets' = sockets \ {sock} /\ sock' = 0
    BY <1>3 DEF Close, SslClose, None
  <2>2. ssl.contexts = 1 /\ ssl.cacert = (IF ssl.verify THEN 1 ELSE 0) /\ ssl.verify \in BOOLEAN
    BY <1>3 DEF Resource
  <2>3. ssl' = [initialized |-> FALSE, verify |-> FALSE, contexts |-> 0, cacert |-> 0]
    <3>1. ssl.contexts - 1 = 0 /\ (IF ssl.verify THEN ssl.cacert - 1 ELSE ssl.cacert) = 0
      BY <2>2
    <3>2. QED
      BY <2>1, <3>1, Zenon
  <2>4. sockets' = {}
    BY <2>1 DEF Resource
  <2>5. QED
    <3>1. /\ ssl' \in [initialized : BOOLEAN, verify : BOOLEAN, contexts : 0..1, cacert : 0..1]
          /\ ~ssl'.initialized /\ ~ssl'.verify /\ ssl'.contexts = 0 /\ ssl'.cacert = 0
      BY <2>3
    <3>2. sock' \in 0..2 /\ sockets' \subseteq 1..2 /\ sockets' \subseteq {sock'}
      BY <2>1, <2>4
    <3>3. ssl'.contexts = (IF ssl'.initialized THEN 1 ELSE 0) /\ ssl'.cacert = (IF ssl'.verify THEN 1 ELSE 0)
      BY <3>1
    <3>4. QED
      BY <2>4, <3>1, <3>2, <3>3 DEF Resource, Closed
<1>4. QED
  BY <1>1, <1>2, <1>3

\* A connection that is tried from a closed transport leaves only what the transport
\* knows, and one that works leaves an open descriptor.
LEMMA ConnectOpens ==
    ASSUME Resource, Closed, cert \in BOOLEAN, scheme' = scheme, NEW ok \in BOOLEAN,
           IF Tls THEN SslConnect(ok) ELSE TcpConnect(ok)
    PROVE  Resource' /\ (ok => Usable')
<1>1. Fresh \in 1..2
  BY DEF Fresh, Closed
<1>2. CASE ~Tls
  BY <1>1, <1>2 DEF TcpConnect, Resource, Closed, Usable, Tls, None
<1>3. CASE Tls
  <2>1. PICK failure \in (IF ok THEN {"none"} ELSE SslFailures) :
          /\ ssl' = [initialized |-> TRUE, verify |-> ssl.verify \/ (cert /\ failure # "setup"),
                     contexts |-> ssl.contexts + 1,
                     cacert |-> IF cert /\ failure # "setup" THEN ssl.cacert + 1 ELSE ssl.cacert]
          /\ sock' = IF failure \in {"setup", "certificate"} THEN sock ELSE Fresh
          /\ sockets' = IF failure \in {"none", "handshake", "verification"}
                        THEN sockets \cup {Fresh} ELSE sockets
    BY <1>3 DEF SslConnect
  <2>2. ssl.contexts = 0 /\ ssl.cacert = 0 /\ ssl.verify = FALSE /\ sockets = {}
    BY DEF Resource, Closed
  <2>3. /\ ssl' \in [initialized : BOOLEAN, verify : BOOLEAN, contexts : 0..1, cacert : 0..1]
        /\ ssl'.initialized /\ ssl'.contexts = 1
        /\ ssl'.cacert = (IF ssl'.verify THEN 1 ELSE 0)
    <3>1. CASE cert /\ failure # "setup"
      <4>1. ssl' = [initialized |-> TRUE, verify |-> TRUE, contexts |-> 1, cacert |-> 1]
        <5>1. /\ (ssl.verify \/ (cert /\ failure # "setup")) = TRUE /\ ssl.contexts + 1 = 1
              /\ (IF cert /\ failure # "setup" THEN ssl.cacert + 1 ELSE ssl.cacert) = 1
          BY <2>2, <3>1
        <5>2. QED
          BY <2>1, <5>1, Zenon
      <4>2. QED
        BY <4>1
    <3>2. CASE ~(cert /\ failure # "setup")
      <4>1. ssl' = [initialized |-> TRUE, verify |-> FALSE, contexts |-> 1, cacert |-> 0]
        <5>1. /\ (ssl.verify \/ (cert /\ failure # "setup")) = FALSE /\ ssl.contexts + 1 = 1
              /\ (IF cert /\ failure # "setup" THEN ssl.cacert + 1 ELSE ssl.cacert) = 0
          BY <2>2, <3>2
        <5>2. QED
          BY <2>1, <5>1, Zenon
      <4>2. QED
        BY <4>1
    <3>3. QED
      BY <3>1, <3>2
  <2>4. sock' \in 0..2 /\ sockets' \subseteq 1..2 /\ sockets' \subseteq {sock'}
    BY <1>1, <2>1, <2>2 DEF Resource
  <2>5. ok => sock' \in sockets'
    BY <2>1
  <2>6. QED
    BY <1>3, <2>3, <2>4, <2>5 DEF Resource, Usable, Tls
<1>4. QED
  BY <1>2, <1>3

\* A chunk is sent by somebody who has begun to write on some connection.
LEMMA SendChunk ==
    ASSUME Types, Wires, NEW by \in Writers, NEW part \in {"upgrade", "header", "body"},
           NEW outcome, Send(by, part, outcome), began[by] >= 1
    PROVE  Wires'
<1> DEFINE chunk == [by |-> by, part |-> part, whole |-> outcome = "whole", began |-> began[by]]
<1>1. chunk \in Chunks
  BY BoundAssumption DEF Types, Chunks
<1>2. wire' = wire \/ wire' = Append(wire, chunk)
  BY DEF Send
<1> HIDE DEF chunk
<1>3. QED
  BY <1>1, <1>2 DEF Wires

\* Giving up a connection leaves the task at its loop with a closed transport.
LEMMA AbortGivesUp ==
    ASSUME Resource, Abort, UNCHANGED <<scheme, freed, duty>>, freed => task = "ended", task # "ended"
    PROVE  Resource' /\ Control' /\ TaskUsesOpenSocket'
<1>1. Resource' /\ Closed'
  BY CloseCloses DEF Abort
<1>2. QED
  BY <1>1 DEF Abort, Control, TaskUsesOpenSocket

\* What remains of the invariant when a connection is given up.
LEMMA AbortKeepsRest ==
    ASSUME Types, Begun, Answers, Abort, task \notin {"loop", "ended"} \/ state = "CONNECTED",
           UNCHANGED <<scheme, cert, freed, duty, app, began, connects, mixed>>,
           in_buffer' = in_buffer \/ (in_buffer' # "connack" /\ in_buffer' \in {"garbage", "refused", "other"}),
           accepted' \in BOOLEAN
    PROVE  Types' /\ Begun' /\ Answers'
<1>1. state' = "WAIT" /\ task' = "loop" /\ connects >= 1
  BY DEF Abort, Begun
<1>2. Types'
  BY <1>1 DEF Types
<1>3. Begun'
  BY <1>1 DEF Begun
<1>4. Answers'
  BY <1>1 DEF Answers, AnsweredOrStale
<1>5. QED
  BY <1>2, <1>3, <1>4

\* Nothing but the wire and the task's place in a write changes.
LEMMA TaskMoves ==
    ASSUME IInv, Wires', UNCHANGED <<scheme, cert, freed, duty, sock, sockets, ssl, state, app, began,
                                     in_buffer, connects, accepted, mixed>>,
           task \in {"upgrade", "reply", "header", "body"},
           \/ task' = "reply" /\ state = "INIT" /\ duty = "connect"
           \/ task' = "connack" /\ state = "INIT"
           \/ task' \in {"header", "body"} /\ state = IF duty = "connect" THEN "INIT" ELSE "CONNECTED"
           \/ task' = "loop" /\ state = "CONNECTED",
           Usable
    PROVE  IInv'
<1>1. Types' /\ Begun' /\ Answers'
  BY DEF IInv, Types, Begun, Answers, AnsweredOrStale
<1>2. Resource' /\ Control' /\ TaskUsesOpenSocket'
  BY DEF IInv, Resource, Control, Closed, TaskUsesOpenSocket, Usable, Tls
<1>3. QED
  BY <1>1, <1>2 DEF IInv

\* The result of one of the task's writes.
LEMMA WrittenKeeps ==
    ASSUME IInv, Wires', task \in {"header", "body"}, NEW result, Written(result),
           UNCHANGED <<scheme, cert, freed, duty, app, began, in_buffer, connects, accepted, mixed>>
    PROVE  IInv'
<1>1. CASE Abort
  <2>1. Resource' /\ Control' /\ TaskUsesOpenSocket'
    BY <1>1, AbortGivesUp DEF IInv, Control
  <2>2. Types' /\ Begun' /\ Answers'
    BY <1>1, AbortKeepsRest DEF IInv, Types
  <2>3. QED
    BY <2>1, <2>2 DEF IInv
<1>2. CASE task' = (IF duty = "connect" THEN "connack" ELSE "loop") /\ UNCHANGED <<sock, sockets, ssl, state>>
  <2>1. state = IF duty = "connect" THEN "INIT" ELSE "CONNECTED"
    BY DEF IInv, Control
  <2>2. Usable
    BY DEF IInv, TaskUsesOpenSocket
  <2>3. QED
    BY <1>2, <2>1, <2>2, TaskMoves
<1>3. QED
  BY <1>1, <1>2 DEF Written

-----------------------------------------------------------------------------
(***************************************************************************)
(* The steps.                                                              *)
(***************************************************************************)

\* A new client is idle on every side.
LEMMA IInvInit == Init => IInv
<1> SUFFICES ASSUME Init PROVE IInv
  OBVIOUS
<1>1. Types /\ Wires
  <2>1. began \in [Writers -> 0..MaxConnects] /\ connects \in 0..MaxConnects
    BY BoundAssumption DEF Init
  <2>2. wire \in Seq(Chunks)
    BY DEF Init
  <2>3. QED
    BY <2>1, <2>2 DEF Init, Types, Wires
<1>2. Resource /\ Control /\ TaskUsesOpenSocket
  BY DEF Init, Resource, Control, Closed, TaskUsesOpenSocket, None
<1>3. Begun /\ Answers
  BY DEF Init, Begun, Answers, AnsweredOrStale
<1>4. QED
  BY <1>1, <1>2, <1>3 DEF IInv

\* Connecting.
LEMMA ConnectingKeeps ==
    ASSUME IInv, Connect \/ ConnectFails
    PROVE  IInv'
<1>1. CASE Connect
  <2>1. PICK ok \in BOOLEAN : /\ IF Tls THEN SslConnect(ok) ELSE TcpConnect(ok)
                              /\ task' = AfterConnect(ok)
    BY <1>1 DEF Connect
  <2>2. /\ task = "loop" /\ state = "INIT" /\ connects < MaxConnects /\ connects' = connects + 1
        /\ wire' = <<>> /\ accepted' = FALSE /\ duty' = "connect"
        /\ began' = [began EXCEPT !["task"] = connects + 1]
        /\ mixed' = Writing(app)
        /\ UNCHANGED <<scheme, cert, freed, state, app, in_buffer>>
    BY <1>1 DEF Connect
  <2>3. task' \in {"upgrade", "failed"} \/ (task' = "body" /\ ok)
    BY <2>1 DEF AfterConnect
  <2>4. Resource' /\ (ok => Usable')
    BY <2>1, <2>2, ConnectOpens DEF IInv, Types, Control
  <2>5. connects \in Nat /\ MaxConnects \in Nat /\ connects' \in 1..MaxConnects /\ "task" \in Writers
    BY <2>2, BoundAssumption DEF IInv, Types, Writers
  <2>6. /\ began' \in [Writers -> 0..MaxConnects] /\ began'["task"] = connects + 1
        /\ began'["app"] = began["app"]
    BY <2>2, <2>5 DEF IInv, Types, Writers
  <2>7. mixed' \in BOOLEAN
    BY <2>2 DEF Writing
  <2>8. Types'
    BY <2>2, <2>3, <2>5, <2>6, <2>7 DEF IInv, Types
  <2>9. Wires'
    BY <2>2 DEF Wires
  <2>10. Control' /\ TaskUsesOpenSocket'
    BY <2>2, <2>3, <2>4 DEF IInv, Control, TaskUsesOpenSocket
  <2>11. Begun' /\ Answers'
    BY <2>2, <2>5, <2>6 DEF IInv, Begun, Answers, AnsweredOrStale
  <2>12. QED
    BY <2>4, <2>8, <2>9, <2>10, <2>11 DEF IInv
<1>2. CASE ConnectFails
  <2>1. Resource' /\ Control' /\ TaskUsesOpenSocket'
    BY <1>2, AbortGivesUp DEF ConnectFails, IInv, Control
  <2>2. Types' /\ Begun' /\ Answers'
    BY <1>2, AbortKeepsRest DEF ConnectFails, IInv, Types
  <2>3. QED
    BY <1>2, <2>1, <2>2 DEF ConnectFails, IInv, Wires
<1>3. QED
  BY <1>1, <1>2

\* A websocket's upgrade.
LEMMA UpgradeKeeps ==
    ASSUME IInv, Upgrade \/ Reply
    PROVE  IInv'
<1>1. ASSUME Abort, task \in {"upgrade", "reply"}, Wires',
             UNCHANGED <<scheme, cert, freed, duty, app, began, in_buffer, connects, accepted, mixed>>
      PROVE  IInv'
  <2>1. Resource' /\ Control' /\ TaskUsesOpenSocket'
    BY <1>1, AbortGivesUp DEF IInv, Control
  <2>2. Types' /\ Begun' /\ Answers'
    BY <1>1, AbortKeepsRest DEF IInv, Types
  <2>3. QED
    BY <1>1, <2>1, <2>2 DEF IInv
<1>2. CASE Upgrade
  <2>1. /\ task = "upgrade"
        /\ UNCHANGED <<scheme, cert, freed, duty, app, began, in_buffer, connects, accepted, mixed>>
    BY <1>2 DEF Upgrade
  <2>2. PICK outcome \in Outcomes :
        /\ Send("task", "upgrade", outcome)
        /\ IF outcome \in {"whole", "part"}
           THEN task' = "reply" /\ UNCHANGED <<sock, sockets, ssl, state>>
           ELSE Abort
    BY <1>2 DEF Upgrade
  <2>3. Wires'
    BY <2>1, <2>2, SendChunk DEF IInv, Begun, Writers
  <2>4. CASE outcome \in {"whole", "part"}
    <3>1. Usable
      BY <2>4 DEF Outcomes
    <3>2. state = "INIT" /\ duty = "connect"
      BY <2>1 DEF IInv, Control
    <3>3. QED
      BY <2>1, <2>2, <2>3, <2>4, <3>1, <3>2, TaskMoves
  <2>5. CASE outcome \notin {"whole", "part"}
    BY <1>1, <2>1, <2>2, <2>3, <2>5
  <2>6. QED
    BY <2>4, <2>5
<1>3. CASE Reply
  <2>1. /\ task = "reply"
        /\ UNCHANGED <<scheme, cert, freed, duty, app, began, in_buffer, connects, accepted, wire, mixed>>
    BY <1>3 DEF Reply
  <2>2. Wires'
    BY <2>1 DEF IInv, Wires
  <2>3. CASE Abort
    BY <1>1, <2>1, <2>2, <2>3
  <2>4. CASE Usable /\ task' = "header" /\ UNCHANGED <<sock, sockets, ssl, state>>
    <3>1. state = "INIT" /\ duty = "connect"
      BY <2>1 DEF IInv, Control
    <3>2. QED
      BY <2>1, <2>2, <2>4, <3>1, TaskMoves
  <2>5. QED
    BY <1>3, <2>3, <2>4 DEF Reply
<1>4. QED
  BY <1>2, <1>3

\* The task's writes.
LEMMA TaskWriteKeeps ==
    ASSUME IInv, TaskHeader \/ TaskBody
    PROVE  IInv'
<1>1. CASE TaskHeader
  <2>1. /\ task = "header"
        /\ UNCHANGED <<scheme, cert, freed, duty, app, began, in_buffer, connects, accepted, mixed>>
    BY <1>1 DEF TaskHeader
  <2>2. PICK outcome \in Outcomes :
        /\ Send("task", "header", outcome)
        /\ IF HeaderGoesOn(outcome)
           THEN task' = "body" /\ UNCHANGED <<sock, sockets, ssl, state>>
           ELSE Written("error") \/ (outcome = "timeout" /\ Written("timeout"))
    BY <1>1 DEF TaskHeader
  <2>3. Wires'
    BY <2>1, <2>2, SendChunk DEF IInv, Begun, Writers
  <2>4. CASE HeaderGoesOn(outcome)
    <3>1. Usable /\ state = IF duty = "connect" THEN "INIT" ELSE "CONNECTED"
      BY <2>1 DEF IInv, Control, TaskUsesOpenSocket
    <3>2. QED
      BY <2>1, <2>2, <2>3, <2>4, <3>1, TaskMoves
  <2>5. CASE ~HeaderGoesOn(outcome)
    BY <2>1, <2>2, <2>3, <2>5, WrittenKeeps
  <2>6. QED
    BY <2>4, <2>5
<1>2. CASE TaskBody
  <2>1. /\ task = "body"
        /\ UNCHANGED <<scheme, cert, freed, duty, app, began, in_buffer, connects, accepted, mixed>>
    BY <1>2 DEF TaskBody
  <2>2. PICK outcome \in Outcomes : Send("task", "body", outcome) /\ Written(outcome)
    BY <1>2 DEF TaskBody
  <2>3. Wires'
    BY <2>1, <2>2, SendChunk DEF IInv, Begun, Writers
  <2>4. QED
    BY <2>1, <2>2, <2>3, WrittenKeeps
<1>3. QED
  BY <1>1, <1>2

\* The broker's answer, and what the task reads afterwards.
LEMMA ReadKeeps ==
    ASSUME IInv, Connack \/ Receive
    PROVE  IInv'
<1>0. /\ task # "ended" /\ (task \notin {"loop", "ended"} \/ state = "CONNECTED")
      /\ UNCHANGED <<scheme, cert, freed, duty, app, began, connects, wire, mixed>>
      /\ Usable /\ connects >= 1 /\ Wires'
  BY DEF Connack, Receive, IInv, TaskUsesOpenSocket, Begun, Wires
<1>1. ASSUME Abort, accepted' \in BOOLEAN,
             in_buffer' = in_buffer \/ (in_buffer' # "connack" /\ in_buffer' \in {"garbage", "refused", "other"})
      PROVE  IInv'
  <2>1. Resource' /\ Control' /\ TaskUsesOpenSocket'
    BY <1>0, <1>1, AbortGivesUp DEF IInv, Control
  <2>2. Types' /\ Begun' /\ Answers'
    BY <1>0, <1>1, AbortKeepsRest DEF IInv
  <2>3. QED
    BY <1>0, <2>1, <2>2 DEF IInv
<1>2. ASSUME task' = "loop", state' = "CONNECTED", UNCHANGED <<sock, sockets, ssl>>,
             accepted' \in BOOLEAN, in_buffer' \in {"garbage", "connack", "refused", "other"},
             ~accepted' => connects > 1 /\ in_buffer' = "connack"
      PROVE  IInv'
  <2>1. Types' /\ Begun' /\ Answers'
    BY <1>0, <1>2 DEF IInv, Types, Begun, Answers, AnsweredOrStale
  <2>2. Resource' /\ TaskUsesOpenSocket'
    BY <1>0, <1>2 DEF IInv, Resource, TaskUsesOpenSocket, Usable, Tls
  <2>3. Control'
    BY <1>0, <1>2 DEF IInv, Control
  <2>4. QED
    BY <1>0, <2>1, <2>2, <2>3 DEF IInv
<1>3. CASE Connack
  <2>1. PICK answer \in {"failure", "timeout", "refused", "other", "connack"} :
          /\ in_buffer' = IF answer \in {"failure", "timeout"} THEN in_buffer ELSE answer
          /\ accepted' = (answer = "connack")
          /\ IF answer # "failure" /\ in_buffer' = "connack"
             THEN task' = "loop" /\ state' = "CONNECTED" /\ UNCHANGED <<sock, sockets, ssl>>
             ELSE Abort
    BY <1>3 DEF Connack
  <2>2. CASE answer # "failure" /\ in_buffer' = "connack"
    <3>1. task = "connack" /\ state = "INIT"
      BY <1>3 DEF Connack, IInv, Control
    <3>2. answer # "connack" => in_buffer = "connack"
      BY <2>1, <2>2
    <3>3. answer # "connack" => connects > 1
      BY <3>1, <3>2 DEF IInv, Answers
    <3>4. QED
      BY <1>2, <2>1, <2>2, <3>3
  <2>3. CASE ~(answer # "failure" /\ in_buffer' = "connack")
    <3>1. Abort /\ accepted' \in BOOLEAN
      BY <2>1, <2>3
    <3>2. in_buffer' = in_buffer \/ (in_buffer' # "connack" /\ in_buffer' \in {"garbage", "refused", "other"})
      BY <2>1, <2>3
    <3>3. QED
      BY <1>1, <3>1, <3>2
  <2>4. QED
    BY <2>2, <2>3
<1>4. CASE Receive
  <2>1. CASE Abort /\ UNCHANGED <<in_buffer, accepted>>
    BY <1>1, <2>1 DEF IInv, Types
  <2>2. CASE /\ accepted /\ in_buffer' = "other"
             /\ UNCHANGED <<accepted, task, state, sock, sockets, ssl>>
    <3>1. task' = "loop" /\ state' = "CONNECTED" /\ accepted' = accepted /\ accepted' \in BOOLEAN
      BY <1>4, <2>2 DEF Receive, IInv, Types
    <3>2. QED
      BY <1>2, <2>2, <3>1
  <2>3. CASE in_buffer' = "connack" /\ accepted' = TRUE /\ UNCHANGED <<task, state, sock, sockets, ssl>>
    <3>1. task' = "loop" /\ state' = "CONNECTED"
      BY <1>4, <2>3 DEF Receive
    <3>2. QED
      BY <1>2, <2>3, <3>1
  <2>4. QED
    BY <1>4, <2>1, <2>2, <2>3 DEF Receive
<1>5. QED
  BY <1>3, <1>4

\* The rest of the task's loop.
LEMMA LoopKeeps ==
    ASSUME IInv, Ping \/ Wait \/ End
    PROVE  IInv'
<1>1. CASE Ping
  <2>1. /\ task = "loop" /\ state = "CONNECTED" /\ task' \in {"header", "body"}
        /\ began' = [began EXCEPT !["task"] = connects]
        /\ duty' \in {"ping", "answer"} /\ mixed' = (mixed \/ Writing(app))
        /\ UNCHANGED <<scheme, cert, freed, sock, sockets, ssl, state, app, in_buffer, connects,
                       accepted, wire>>
    BY <1>1 DEF Ping, FirstPart
  <2>2. connects \in 1..MaxConnects /\ "task" \in Writers /\ MaxConnects \in Nat
    BY <2>1, BoundAssumption DEF IInv, Begun, Types, Writers
  <2>3. /\ began' \in [Writers -> 0..MaxConnects] /\ began'["task"] = connects
        /\ began'["app"] = began["app"]
    BY <2>1, <2>2 DEF IInv, Types, Writers
  <2>4. mixed' \in BOOLEAN
    BY <2>1 DEF Writing, IInv, Types
  <2>5. Types' /\ Wires'
    BY <2>1, <2>3, <2>4 DEF IInv, Types, Wires
  <2>6. Resource' /\ Control' /\ TaskUsesOpenSocket'
    BY <2>1 DEF IInv, Resource, Control, TaskUsesOpenSocket, Usable, Tls
  <2>7. Begun' /\ Answers'
    BY <2>1, <2>2, <2>3 DEF IInv, Begun, Answers, AnsweredOrStale
  <2>8. QED
    BY <2>5, <2>6, <2>7 DEF IInv
<1>2. CASE Wait
  <2>1. Types' /\ Wires' /\ Begun' /\ Answers'
    BY <1>2 DEF Wait, IInv, Types, Wires, Begun, Answers, AnsweredOrStale
  <2>2. Resource' /\ Control' /\ TaskUsesOpenSocket'
    BY <1>2 DEF Wait, IInv, Resource, Control, Closed, TaskUsesOpenSocket, Tls
  <2>3. QED
    BY <2>1, <2>2 DEF IInv
<1>3. CASE End
  <2>1. /\ task = "loop" /\ task' = "ended" /\ Close
        /\ UNCHANGED <<scheme, cert, freed, duty, state, app, began, in_buffer, connects, accepted, wire, mixed>>
    BY <1>3 DEF End
  <2>2. Types' /\ Wires' /\ Begun' /\ Answers'
    BY <2>1 DEF IInv, Types, Wires, Begun, Answers, AnsweredOrStale
  <2>3. Resource' /\ Closed'
    BY <2>1, CloseCloses DEF IInv
  <2>4. Control' /\ TaskUsesOpenSocket'
    BY <2>1, <2>3 DEF Control, TaskUsesOpenSocket
  <2>5. QED
    BY <2>2, <2>3, <2>4 DEF IInv
<1>4. QED
  BY <1>1, <1>2, <1>3

\* The application.
LEMMA AppKeeps ==
    ASSUME IInv, Publish \/ AppHeader \/ AppBody \/ Destroy
    PROVE  IInv'
<1>1. ASSUME UNCHANGED <<scheme, cert, freed, duty, sock, sockets, ssl, state, task, in_buffer,
                         connects, accepted>>
      PROVE  Resource' /\ Control' /\ TaskUsesOpenSocket' /\ Answers'
  BY <1>1 DEF IInv, Resource, Control, Closed, TaskUsesOpenSocket, Usable, Tls, Answers, AnsweredOrStale
<1>2. CASE Publish
  <2>1. /\ app = "idle" /\ state = "CONNECTED" /\ app' \in {"header", "body"}
        /\ began' = [began EXCEPT !["app"] = connects] /\ mixed' = (mixed \/ Writing(task))
        /\ UNCHANGED <<scheme, cert, freed, duty, sock, sockets, ssl, state, task, in_buffer, connects,
                       accepted, wire>>
    BY <1>2 DEF Publish, FirstPart
  <2>2. connects \in 1..MaxConnects /\ "app" \in Writers /\ MaxConnects \in Nat
    BY <2>1, BoundAssumption DEF IInv, Begun, Types, Writers
  <2>3. /\ began' \in [Writers -> 0..MaxConnects] /\ began'["app"] = connects
        /\ began'["task"] = began["task"]
    BY <2>1, <2>2 DEF IInv, Types, Writers
  <2>4. mixed' \in BOOLEAN
    BY <2>1 DEF Writing, IInv, Types
  <2>5. Types' /\ Wires' /\ Begun'
    BY <2>1, <2>2, <2>3, <2>4 DEF IInv, Types, Wires, Begun
  <2>6. QED
    BY <1>1, <2>1, <2>5 DEF IInv
<1>3. CASE AppHeader
  <2>1. PICK outcome \in Outcomes :
          Send("app", "header", outcome) /\ app' = IF HeaderGoesOn(outcome) THEN "body" ELSE "idle"
    BY <1>3 DEF AppHeader
  <2>2. /\ app = "header"
        /\ UNCHANGED <<scheme, cert, freed, duty, sock, sockets, ssl, state, task, began, in_buffer,
                       connects, accepted, mixed>>
    BY <1>3 DEF AppHeader
  <2>3. Wires'
    BY <2>1, <2>2, SendChunk DEF IInv, Begun, Writers
  <2>4. Types' /\ Begun'
    BY <2>1, <2>2 DEF IInv, Types, Begun
  <2>5. QED
    BY <1>1, <2>2, <2>3, <2>4 DEF IInv
<1>4. CASE AppBody
  <2>1. PICK outcome \in Outcomes : Send("app", "body", outcome)
    BY <1>4 DEF AppBody
  <2>2. /\ app = "body" /\ app' = "idle"
        /\ UNCHANGED <<scheme, cert, freed, duty, sock, sockets, ssl, state, task, began, in_buffer,
                       connects, accepted, mixed>>
    BY <1>4 DEF AppBody
  <2>3. Wires'
    BY <2>1, <2>2, SendChunk DEF IInv, Begun, Writers
  <2>4. Types' /\ Begun'
    BY <2>2 DEF IInv, Types, Begun
  <2>5. QED
    BY <1>1, <2>2, <2>3, <2>4 DEF IInv
<1>5. CASE Destroy
  <2>1. /\ task = "ended" /\ freed' = TRUE /\ Close
        /\ UNCHANGED <<scheme, cert, state, task, duty, app, began, in_buffer, connects, accepted, wire, mixed>>
    BY <1>5 DEF Destroy
  <2>2. Types' /\ Wires' /\ Begun' /\ Answers'
    BY <2>1 DEF IInv, Types, Wires, Begun, Answers, AnsweredOrStale
  <2>3. Resource' /\ Closed'
    BY <2>1, CloseCloses DEF IInv
  <2>4. Control' /\ TaskUsesOpenSocket'
    BY <2>1, <2>3 DEF Control, TaskUsesOpenSocket
  <2>5. QED
    BY <2>2, <2>3, <2>4 DEF IInv
<1>6. QED
  BY <1>2, <1>3, <1>4, <1>5

\* Each step keeps the invariant.
LEMMA IInvStep == IInv /\ [Next]_vars => IInv'
<1> SUFFICES ASSUME IInv, [Next]_vars PROVE IInv'
  OBVIOUS
<1>1. CASE Next
  BY <1>1, ConnectingKeeps, UpgradeKeeps, TaskWriteKeeps, ReadKeeps, LoopKeeps, AppKeeps DEF Next
<1>2. CASE UNCHANGED vars
  <2>1. Types' /\ Wires' /\ Begun' /\ Answers'
    BY <1>2 DEF vars, IInv, Types, Wires, Begun, Answers, AnsweredOrStale
  <2>2. Resource' /\ Control' /\ TaskUsesOpenSocket'
    BY <1>2 DEF vars, IInv, Resource, Control, Closed, TaskUsesOpenSocket, Usable, Tls
  <2>3. QED
    BY <2>1, <2>2 DEF IInv
<1>3. QED
  BY <1>1, <1>2

-----------------------------------------------------------------------------
(***************************************************************************)
(* The theorems.                                                           *)
(***************************************************************************)

\* TypeOK: every variable keeps its type, for every scheme and whatever fails.
THEOREM TypeCorrect == Spec => []TypeOK
<1>1. IInv => TypeOK
  BY DEF IInv, Types, Wires, Chunks, Resource, TypeOK
<1>2. QED
  BY <1>1, IInvInit, IInvStep, PTL DEF Spec

\* NothingLeaks: no descriptor and no TLS context outlives its connection, whatever
\* fails while connecting (transport_tcp.c, transport_ssl.c, esp_mqtt_abort_connection).
THEOREM NoResourceLeaks == Spec => []NothingLeaks
<1>1. IInv => NothingLeaks
  <2> SUFFICES ASSUME IInv PROVE NothingLeaks
    OBVIOUS
  <2>1. state = "WAIT" \/ task = "ended" \/ freed => Closed
    BY DEF IInv, Types, Control
  <2>2. QED
    BY <2>1 DEF IInv, Resource, Closed, NothingLeaks
<1>2. QED
  BY <1>1, IInvInit, IInvStep, PTL DEF Spec

\* TaskUsesOpenSocket: the client's task reads and writes only an open descriptor, but
\* for a websocket's upgrade request (mqtt_client.c, transport_ws.c).
THEOREM OpenSocketUsed == Spec => []TaskUsesOpenSocket
<1>1. IInv => TaskUsesOpenSocket
  BY DEF IInv
<1>2. QED
  BY <1>1, IInvInit, IInvStep, PTL DEF Spec

\* AnsweredOrStale: the client takes itself for connected without an answer only when
\* the CONNACK of an earlier connection is still in its buffer (esp_mqtt_connect).
THEOREM OnlyStaleAnswers == Spec => []AnsweredOrStale
<1>1. IInv => AnsweredOrStale
  BY DEF IInv, Answers
<1>2. QED
  BY <1>1, IInvInit, IInvStep, PTL DEF Spec

-----------------------------------------------------------------------------
(***************************************************************************)
(* What is on the wire.  The history invariant says of the bytes sent on   *)
(* the present connection who sent them, and what a writer that is         *)
(* between header and body has sent last.                                  *)
(***************************************************************************)

\* A connection is being made: the client does not call itself connected yet.
Connecting == state = "INIT" /\ task \notin {"loop", "ended"}

\* The client calls itself connected because of an answer on an earlier connection.
Stale == connects > 1 /\ ~accepted /\ in_buffer = "connack"

\* Nobody has begun on a connection to come; the task writes on the present one.
Bounds ==
    /\ \A by \in Writers : began[by] <= connects
    /\ \A i \in DOMAIN wire : wire[i].began <= connects
    /\ task \notin {"loop", "ended"} => began["task"] = connects

\* A publish that began on the present connection did not do so while it was being
\* made, and found an empty wire only after a stale answer.
First ==
    /\ accepted => wire # <<>> /\ wire[1].by = "task"
    /\ app # "idle" /\ began["app"] = connects => ~Connecting /\ (wire = <<>> => Stale)
    /\ wire # <<>> /\ wire[1].by = "app" /\ wire[1].began = connects => ~Connecting /\ Stale

\* The header that a writer's present frame begins with.
Header(by) == [by |-> by, part |-> "header", whole |-> TRUE, began |-> began[by]]

\* It is the last chunk of this writer; it is the last chunk at all.
Headed(by) ==
    \E j \in 1..Len(wire) : wire[j] = Header(by) /\ \A k \in (j + 1)..Len(wire) : wire[k].by # by
LastHeader(by) == wire # <<>> /\ wire[Len(wire)] = Header(by)

\* A writer that is to send a body has sent its header; without mixing, only one
\* writer is within a write, and none but the task while a connection is made.
Framed ==
    /\ task = "body" => Headed("task")
    /\ app = "body" /\ began["app"] = connects => Headed("app")
    /\ ~mixed => /\ ~(Writing(task) /\ Writing(app)) /\ (Connecting => app = "idle")
                 /\ task = "body" => LastHeader("task")
                 /\ app = "body" => LastHeader("app")

History == Bounds /\ First /\ (Websocket => Framed) /\ FramesPaired

\* Nothing has been written yet.
LEMMA HistoryInit == Init => History
  BY DEF Init, History, Bounds, First, Framed, FramesPaired, Websocket, Connecting, Writers, Writing

\* A chunk behind the others: each frame that was complete stays so, and the body of
\* a writer that has sent its header completes another.
LEMMA AppendPaired ==
    ASSUME Wires, FramesPaired, NEW by, NEW part, NEW whole \in BOOLEAN,
           wire' = Append(wire, [by |-> by, part |-> part, whole |-> whole, began |-> began[by]]),
           wire' \in Seq(Chunks),
           UNCHANGED <<scheme, connects, began, mixed>>,
           Websocket /\ part = "body" /\ began[by] = connects =>
               Headed(by) /\ (~mixed => LastHeader(by))
    PROVE  FramesPaired'
<1> DEFINE chunk == [by |-> by, part |-> part, whole |-> whole, began |-> began[by]]
           n == Len(wire)
<1>1. n \in Nat /\ DOMAIN wire = 1..n /\ DOMAIN wire' = 1..(n + 1)
  BY DEF Wires
<1>2. wire'[n + 1] = chunk /\ \A i \in 1..n : wire'[i] = wire[i]
  BY DEF Wires
<1>3. SUFFICES ASSUME Websocket, NEW i \in 1..(n + 1), wire'[i].part = "body", wire'[i].began = connects
               PROVE  /\ \E j \in 1..(i - 1) : /\ HeaderOf(j, i)'
                                               /\ \A k \in (j + 1)..(i - 1) : wire'[k].by # wire'[i].by
                      /\ ~mixed => i > 1 /\ HeaderOf(i - 1, i)'
  BY <1>1 DEF FramesPaired, Websocket
<1>4. CASE i \in 1..n
  <2>1. wire[i].part = "body" /\ wire[i].began = connects
    BY <1>2, <1>3, <1>4
  <2>2. PICK j \in 1..(i - 1) : HeaderOf(j, i) /\ \A k \in (j + 1)..(i - 1) : wire[k].by # wire[i].by
    BY <1>1, <1>3, <1>4, <2>1 DEF FramesPaired
  <2>3. HeaderOf(j, i)' /\ \A k \in (j + 1)..(i - 1) : wire'[k].by # wire'[i].by
    BY <1>1, <1>2, <1>4, <2>2 DEF HeaderOf
  <2>4. ASSUME ~mixed PROVE i > 1 /\ HeaderOf(i - 1, i)'
    <3>1. i > 1 /\ HeaderOf(i - 1, i)
      BY <1>1, <1>3, <1>4, <2>1, <2>4 DEF FramesPaired
    <3>2. QED
      BY <1>1, <1>2, <1>4, <3>1 DEF HeaderOf
  <2>5. QED
    BY <2>3, <2>4
<1>5. CASE i = n + 1
  <2>1. part = "body" /\ began[by] = connects
    BY <1>2, <1>3, <1>5
  <2>2. Headed(by) /\ (~mixed => LastHeader(by))
    BY <1>3, <2>1
  <2>3. wire'[i].by = by /\ wire'[i].began = began[by]
    BY <1>2, <1>5
  <2>4. \A j \in 1..n : wire[j] = Header(by) => HeaderOf(j, i)'
    BY <1>2, <2>3 DEF HeaderOf, Header
  <2>5. PICK j \in 1..n : wire[j] = Header(by) /\ \A k \in (j + 1)..n : wire[k].by # by
    BY <2>2 DEF Headed
  <2>6. \A k \in (j + 1)..n : wire'[k].by # wire'[i].by
    BY <1>1, <1>2, <1>5, <2>5
  <2>7. ASSUME ~mixed PROVE i > 1 /\ HeaderOf(i - 1, i)'
    <3>1. n \in 1..n /\ wire[n] = Header(by)
      BY <1>1, <2>2, <2>7 DEF LastHeader, Wires
    <3>2. QED
      BY <1>1, <1>5, <2>4, <3>1
  <2>8. QED
    BY <1>1, <1>5, <2>4, <2>5, <2>6, <2>7
<1>6. QED
  BY <1>3, <1>4, <1>5

\* The header of one writer stays its last chunk when the other one writes.
LEMMA OtherHeaded ==
    ASSUME Wires, NEW by, NEW chunk \in Chunks, chunk.by # by, wire' = Append(wire, chunk), began' = began,
           Headed(by)
    PROVE  Headed(by)'
<1>1. /\ Len(wire) \in Nat /\ Len(wire') = Len(wire) + 1
      /\ wire'[Len(wire) + 1] = chunk /\ \A i \in 1..Len(wire) : wire'[i] = wire[i]
  BY DEF Wires
<1>2. PICK j \in 1..Len(wire) : wire[j] = Header(by) /\ \A k \in (j + 1)..Len(wire) : wire[k].by # by
  BY DEF Headed
<1>3. wire'[j] = Header(by)' /\ \A k \in (j + 1)..Len(wire') : wire'[k].by # by
  BY <1>1, <1>2 DEF Header
<1>4. QED
  BY <1>1, <1>3 DEF Headed

\* A header that has just been sent whole is the writer's, and the last of all.
LEMMA NewHeader ==
    ASSUME Wires, NEW by, Header(by) \in Chunks, wire' = Append(wire, Header(by)), began' = began
    PROVE  Headed(by)' /\ LastHeader(by)'
<1>1. /\ Len(wire) \in Nat /\ Len(wire') = Len(wire) + 1 /\ wire'[Len(wire) + 1] = Header(by)
      /\ wire' # <<>>
  BY DEF Wires
<1>2. Header(by)' = Header(by)
  BY DEF Header
<1>3. QED
  BY <1>1, <1>2 DEF Headed, LastHeader

\* A new connection begins with nothing on its wire.
LEMMA ConnectHistory ==
    ASSUME IInv, History, Connect
    PROVE  History'
<1>1. /\ task = "loop" /\ state = "INIT" /\ connects' = connects + 1
      /\ wire' = <<>> /\ accepted' = FALSE /\ mixed' = Writing(app)
      /\ began' = [began EXCEPT !["task"] = connects + 1]
      /\ UNCHANGED <<scheme, state, app>>
  BY DEF Connect
<1>2. task' \in {"upgrade", "failed", "body"} /\ (Websocket => task' # "body")
  BY DEF Connect, AfterConnect
<1>3. connects \in Nat /\ began \in [Writers -> Int] /\ Writers = {"task", "app"}
  BY BoundAssumption DEF IInv, Types, Writers
<1>4. began'["task"] = connects + 1 /\ began'["app"] = began["app"] /\ began["app"] <= connects
  BY <1>1, <1>3 DEF History, Bounds
<1>5. Bounds'
  BY <1>1, <1>3, <1>4 DEF Bounds
<1>6. First'
  BY <1>1, <1>3, <1>4 DEF First
<1>7. ASSUME Websocket PROVE Framed'
  <2>1. task' \in {"upgrade", "failed"}
    BY <1>2, <1>7
  <2>2. app' = "body" => began'["app"] # connects'
    BY <1>1, <1>3, <1>4
  <2>3. ~mixed' => app' = "idle"
    BY <1>1 DEF Writing, IInv, Types
  <2>4. QED
    BY <2>1, <2>2, <2>3 DEF Framed, Writing
<1>8. FramesPaired'
  BY <1>1 DEF FramesPaired
<1>9. QED
  BY <1>1, <1>5, <1>6, <1>7, <1>8 DEF History, Websocket

\* Steps that neither send nor begin anything.
LEMMA QuietHistory ==
    ASSUME History, UNCHANGED <<scheme, app, began, in_buffer, connects, accepted, wire, mixed>>,
           Connecting' => Connecting, task' = "body" => task = "body",
           task' \notin {"loop", "ended"} => task \notin {"loop", "ended"},
           Writing(task') => Writing(task) \/ Connecting
    PROVE  History'
<1>1. Bounds'
  BY DEF History, Bounds
<1>2. First'
  BY DEF History, First, Stale
<1>3. ASSUME Websocket PROVE Framed'
  <2>1. Framed
    BY <1>3 DEF History
  <2>2. /\ Headed("task") => Headed("task")'
        /\ Headed("app") => Headed("app")'
        /\ LastHeader("task") => LastHeader("task")'
        /\ LastHeader("app") => LastHeader("app")'
    BY DEF Headed, LastHeader, Header
  <2>3. ~mixed' => ~(Writing(task') /\ Writing(app')) /\ (Connecting' => app' = "idle")
    BY <2>1 DEF Framed, Writing
  <2>4. QED
    BY <2>1, <2>2, <2>3 DEF Framed
<1>4. FramesPaired'
  BY DEF History, FramesPaired, HeaderOf, Websocket
<1>5. QED
  BY <1>1, <1>2, <1>3, <1>4 DEF History, Websocket

\* What Send adds to the wire.
LEMMA Sent ==
    ASSUME NEW by, NEW part, NEW outcome, Send(by, part, outcome)
    PROVE  IF outcome \in {"whole", "part"}
           THEN wire' = Append(wire, [by |-> by, part |-> part, whole |-> (outcome = "whole"),
                                      began |-> began[by]])
           ELSE wire' = wire
  BY DEF Send

\* The wire keeps its first chunk, and gets one when it has none.
LEMMA FirstChunk ==
    ASSUME Wires, NEW chunk \in Chunks, wire' = Append(wire, chunk)
    PROVE  wire' # <<>> /\ wire'[1] = (IF wire = <<>> THEN chunk ELSE wire[1])
<1>1. CASE wire = <<>>
  BY <1>1
<1>2. CASE wire # <<>>
  <2>1. Len(wire) \in Nat \ {0}
    BY <1>2 DEF Wires
  <2>2. QED
    BY <1>2, <2>1 DEF Wires
<1>3. QED
  BY <1>1, <1>2

\* The bounds on the connections survive a chunk of somebody who is writing.
LEMMA SendBounds ==
    ASSUME Wires, Wires', Bounds, UNCHANGED <<began, connects>>,
           NEW by \in Writers, NEW chunk \in Chunks, chunk.began = began[by],
           wire' = wire \/ wire' = Append(wire, chunk),
           task' \notin {"loop", "ended"} => task \notin {"loop", "ended"}
    PROVE  Bounds'
<1>1. CASE wire' = wire
  BY <1>1 DEF Bounds
<1>2. CASE wire' = Append(wire, chunk)
  <2>1. /\ Len(wire) \in Nat /\ DOMAIN wire = 1..Len(wire) /\ DOMAIN wire' = 1..(Len(wire) + 1)
        /\ wire'[Len(wire) + 1] = chunk /\ \A i \in 1..Len(wire) : wire'[i] = wire[i]
    BY <1>2 DEF Wires
  <2>2. \A i \in DOMAIN wire' : wire'[i].began <= connects
    BY <2>1 DEF Bounds
  <2>3. QED
    BY <2>2 DEF Bounds
<1>3. QED
  BY <1>1, <1>2

\* The task's writes.
LEMMA TaskSendHistory ==
    ASSUME IInv, Wires', History, Upgrade \/ TaskHeader \/ TaskBody
    PROVE  History'
<1>1. /\ task \in {"upgrade", "header", "body"}
      /\ UNCHANGED <<scheme, app, began, in_buffer, connects, accepted, mixed>>
      /\ state' \in {state, "WAIT"}
  BY DEF Upgrade, TaskHeader, TaskBody, Written, Abort
<1>2. PICK outcome : /\ Send("task", task, outcome)
                     /\ task' \in {"reply", "body", "connack", "loop"}
                     /\ task' = "body" => task = "header" /\ outcome = "whole"
  BY DEF Upgrade, TaskHeader, TaskBody, Written, Abort, HeaderGoesOn
<1> DEFINE chunk == [by |-> "task", part |-> task, whole |-> (outcome = "whole"), began |-> began["task"]]
<1>3. began["task"] = connects /\ connects \in 1..MaxConnects
  BY <1>1, BoundAssumption DEF IInv, Types, Begun, History, Bounds
<1>4. chunk \in Chunks /\ chunk.by = "task" /\ chunk.began = began["task"]
  BY <1>1, <1>3 DEF Chunks, Writers
<1>5. (wire' = wire /\ outcome # "whole") \/ wire' = Append(wire, chunk)
  BY <1>2, Sent
<1>6. Connecting' => Connecting
  BY <1>1 DEF Connecting
<1>7. Bounds'
  <2> HIDE DEF chunk
  <2> QED BY <1>1, <1>2, <1>4, <1>5, SendBounds DEF IInv, History, Writers
<1>8. First'
  <2>1. wire' # <<>> => wire'[1].by = "task" \/ (wire # <<>> /\ wire'[1] = wire[1])
    <3> HIDE DEF chunk
    <3> QED BY <1>4, <1>5, FirstChunk DEF IInv
  <2>2. wire # <<>> => wire' # <<>> /\ wire'[1] = wire[1]
    <3> HIDE DEF chunk
    <3> QED BY <1>4, <1>5, FirstChunk DEF IInv
  <2>3. First /\ Stale' = Stale
    BY <1>1 DEF History, Stale
  <2>4. QED
    BY <1>1, <1>6, <2>1, <2>2, <2>3 DEF First
<1>9. ASSUME Websocket PROVE Framed'
  <2>1. Framed
    BY <1>9 DEF History
  <2>2. task' = "body" => Headed("task")' /\ LastHeader("task")'
    <3> SUFFICES ASSUME task' = "body" PROVE Headed("task")' /\ LastHeader("task")'
      OBVIOUS
    <3>1. chunk = Header("task") /\ wire' = Append(wire, chunk)
      BY <1>2, <1>5 DEF Header
    <3>2. QED
      BY <1>1, <1>4, <3>1, NewHeader DEF IInv
  <2>3. Headed("app") => Headed("app")'
    <3>1. CASE wire' = wire
      BY <1>1, <3>1 DEF Headed, Header
    <3>2. CASE wire' = Append(wire, chunk)
      <4> HIDE DEF chunk
      <4> QED BY <1>1, <1>4, <3>2, OtherHeaded DEF IInv
    <3>3. QED
      BY <1>5, <3>1, <3>2
  <2>4. ~mixed => app \notin {"header", "body"}
    BY <1>1, <2>1 DEF Framed, Writing, Connecting, IInv, Control
  <2>5. QED
    BY <1>1, <1>2, <1>6, <2>1, <2>2, <2>3, <2>4 DEF Framed, Writing
<1>10. FramesPaired'
  <2>1. CASE wire' = wire
    BY <1>1, <2>1 DEF History, FramesPaired, HeaderOf, Websocket
  <2>2. CASE wire' = Append(wire, chunk)
    <3>1. Websocket /\ task = "body" => Headed("task") /\ (~mixed => LastHeader("task"))
      BY DEF History, Framed
    <3>2. QED
      BY <1>1, <2>2, <3>1, AppendPaired DEF IInv, History, Wires
  <2>3. QED
    BY <1>5, <2>1, <2>2
<1>11. QED
  BY <1>1, <1>7, <1>8, <1>9, <1>10 DEF History, Websocket

\* The application's writes.
LEMMA AppSendHistory ==
    ASSUME IInv, Wires', History, AppHeader \/ AppBody
    PROVE  History'
<1>1. /\ app \in {"header", "body"}
      /\ UNCHANGED <<scheme, state, task, began, in_buffer, connects, accepted, mixed>>
  BY DEF AppHeader, AppBody
<1>2. PICK outcome : /\ Send("app", app, outcome)
                     /\ app' \in {"body", "idle"}
                     /\ app' = "body" => app = "header" /\ outcome = "whole"
  BY DEF AppHeader, AppBody, HeaderGoesOn
<1> DEFINE chunk == [by |-> "app", part |-> app, whole |-> (outcome = "whole"), began |-> began["app"]]
<1>3. began["app"] <= connects /\ began["app"] \in 1..MaxConnects /\ connects \in Nat
  BY <1>1, BoundAssumption DEF IInv, Types, Begun, History, Bounds, Writers
<1>4. chunk \in Chunks /\ chunk.by = "app" /\ chunk.began = began["app"]
  BY <1>1, <1>3 DEF Chunks, Writers
<1>5. (wire' = wire /\ outcome # "whole") \/ wire' = Append(wire, chunk)
  BY <1>2, Sent
<1>6. Bounds'
  <2> HIDE DEF chunk
  <2> QED BY <1>1, <1>4, <1>5, SendBounds DEF IInv, History, Writers
<1>7. First'
  <2>1. First /\ Stale' = Stale /\ Connecting' = Connecting
    BY <1>1 DEF History, Stale, Connecting
  <2>2. CASE wire' = wire
    BY <1>1, <1>2, <2>1, <2>2 DEF First
  <2>3. CASE wire' = Append(wire, chunk)
    <3>1. /\ wire' # <<>>
          /\ wire # <<>> => wire'[1] = wire[1]
          /\ wire = <<>> => wire'[1].by = "app" /\ wire'[1].began = began["app"]
      <4> HIDE DEF chunk
      <4> QED BY <1>4, <2>3, FirstChunk DEF IInv
    <3>2. wire = <<>> /\ began["app"] = connects => ~Connecting /\ Stale
      BY <1>1, <2>1 DEF First
    <3>3. wire = <<>> => ~accepted
      BY <2>1 DEF First
    <3>4. QED
      BY <1>1, <1>2, <2>1, <3>1, <3>2, <3>3 DEF First
  <2>4. QED
    BY <1>5, <2>2, <2>3
<1>8. ASSUME Websocket PROVE Framed'
  <2>1. Framed
    BY <1>8 DEF History
  <2>2. app' = "body" => Headed("app")' /\ LastHeader("app")'
    <3> SUFFICES ASSUME app' = "body" PROVE Headed("app")' /\ LastHeader("app")'
      OBVIOUS
    <3>1. chunk = Header("app") /\ wire' = Append(wire, chunk)
      BY <1>2, <1>5 DEF Header
    <3>2. QED
      BY <1>1, <1>4, <3>1, NewHeader DEF IInv
  <2>3. Headed("task") => Headed("task")'
    <3>1. CASE wire' = wire
      BY <1>1, <3>1 DEF Headed, Header
    <3>2. CASE wire' = Append(wire, chunk)
      <4> HIDE DEF chunk
      <4> QED BY <1>1, <1>4, <3>2, OtherHeaded DEF IInv
    <3>3. QED
      BY <1>5, <3>1, <3>2
  <2>4. ~mixed => task \notin {"header", "body"} /\ ~Connecting
    BY <1>1, <2>1 DEF Framed, Writing
  <2>5. QED
    BY <1>1, <1>2, <2>1, <2>2, <2>3, <2>4 DEF Framed, Writing, Connecting
<1>9. FramesPaired'
  <2>1. CASE wire' = wire
    BY <1>1, <2>1 DEF History, FramesPaired, HeaderOf, Websocket
  <2>2. CASE wire' = Append(wire, chunk)
    <3>1. Websocket /\ app = "body" /\ began["app"] = connects => Headed("app") /\ (~mixed => LastHeader("app"))
      BY DEF History, Framed
    <3>2. QED
      BY <1>1, <2>2, <3>1, AppendPaired DEF IInv, History, Wires
  <2>3. QED
    BY <1>5, <2>1, <2>2
<1>10. QED
  BY <1>1, <1>6, <1>7, <1>8, <1>9 DEF History, Websocket

\* What the broker can read begins with a chunk of the task.
LEMMA ArrivedFirst ==
    ASSUME Wires, ConnectArrived
    PROVE  wire # <<>> /\ wire[1].by = "task"
<1>1. CASE Websocket
  BY <1>1 DEF ConnectArrived, Wires
<1>2. CASE ~Websocket
  BY <1>2 DEF ConnectArrived, Wires
<1>3. QED
  BY <1>1, <1>2

\* What the task reads: an answer changes what First says of the buffer only when
\* the wire begins with the task's own message, or while a connection is made.
LEMMA ReadHistory ==
    ASSUME IInv, History, Connack \/ Receive
    PROVE  History'
<1>1. /\ UNCHANGED <<scheme, app, began, connects, wire, mixed>>
      /\ task \in {"connack", "loop"} /\ task' = "loop"
  BY DEF Connack, Receive, Abort
<1>2. Bounds'
  BY <1>1 DEF History, Bounds
<1>3. First'
  <2>1. ~Connecting'
    BY <1>1 DEF Connecting
  <2>2. accepted' => accepted \/ ConnectArrived
    BY DEF Connack, Receive
  <2>3. accepted' => wire # <<>> /\ wire[1].by = "task"
    BY <2>2, ArrivedFirst DEF IInv, History, First
  <2>4. CASE Connack
    <3>1. Connecting
      BY <2>4 DEF Connack, IInv, Control, Connecting
    <3>2. ~(app # "idle" /\ began["app"] = connects)
      BY <3>1 DEF History, First
    <3>3. ~(wire # <<>> /\ wire[1].by = "app" /\ wire[1].began = connects)
      BY <3>1 DEF History, First
    <3>4. QED
      BY <1>1, <2>1, <2>3, <3>2, <3>3 DEF First
  <2>5. CASE Receive
    <3>1. UNCHANGED <<in_buffer, accepted>> \/ accepted \/ ConnectArrived
      BY <2>5 DEF Receive
    <3>2. CASE UNCHANGED <<in_buffer, accepted>>
      <4>1. Stale' = Stale
        BY <1>1, <3>2 DEF Stale
      <4>2. QED
        BY <1>1, <2>1, <2>3, <4>1 DEF History, First
    <3>3. CASE accepted \/ ConnectArrived
      <4>1. wire # <<>> /\ wire[1].by = "task"
        BY <3>3, ArrivedFirst DEF IInv, History, First
      <4>2. QED
        BY <1>1, <2>1, <2>3, <4>1 DEF First
    <3>4. QED
      BY <3>1, <3>2, <3>3
  <2>6. QED
    BY <2>4, <2>5
<1>4. ASSUME Websocket PROVE Framed'
  <2>1. Framed
    BY <1>4 DEF History
  <2>2. (Headed("app") => Headed("app")') /\ (LastHeader("app") => LastHeader("app")')
    BY <1>1 DEF Headed, LastHeader, Header
  <2>3. QED
    BY <1>1, <2>1, <2>2 DEF Framed, Writing, Connecting
<1>5. FramesPaired'
  BY <1>1 DEF History, FramesPaired, HeaderOf, Websocket
<1>6. QED
  BY <1>1, <1>2, <1>3, <1>4, <1>5 DEF History, Websocket

\* The beginnings of writes.
LEMMA PingHistory ==
    ASSUME IInv, History, Ping
    PROVE  History'
<1>1. /\ task = "loop" /\ state = "CONNECTED"
      /\ task' \in {"header", "body"} /\ (Websocket => task' = "header")
      /\ began' = [began EXCEPT !["task"] = connects] /\ mixed' = (mixed \/ Writing(app))
      /\ UNCHANGED <<scheme, state, app, in_buffer, connects, accepted, wire>>
  BY DEF Ping, FirstPart
<1>2. /\ began \in [Writers -> Int] /\ Writers = {"task", "app"} /\ connects \in Int
      /\ app \in {"idle", "header", "body"}
  BY BoundAssumption DEF IInv, Types, Writers
<1>3. began'["task"] = connects /\ began'["app"] = began["app"]
  BY <1>1, <1>2
<1>4. Bounds'
  BY <1>1, <1>2, <1>3 DEF History, Bounds
<1>5. First'
  <2>1. Stale' = Stale /\ ~Connecting' /\ ~Connecting
    BY <1>1 DEF Stale, Connecting
  <2>2. QED
    BY <1>1, <1>3, <2>1 DEF History, First
<1>6. ASSUME Websocket PROVE Framed'
  <2>1. Framed
    BY <1>6 DEF History
  <2>2. (Headed("app") => Headed("app")') /\ (LastHeader("app") => LastHeader("app")')
    BY <1>1, <1>3 DEF Headed, LastHeader, Header
  <2>3. ~mixed' => ~mixed /\ app = "idle"
    BY <1>1, <1>2 DEF Writing
  <2>4. QED
    BY <1>1, <1>3, <1>6, <2>1, <2>2, <2>3 DEF Framed, Writing
<1>7. FramesPaired'
  <2>1. ~mixed' => ~mixed
    BY <1>1
  <2>2. QED
    BY <1>1, <2>1 DEF History, FramesPaired, HeaderOf, Websocket
<1>8. QED
  BY <1>1, <1>4, <1>5, <1>6, <1>7 DEF History, Websocket

\* A publish mixes frames if the task is in the middle of one.
LEMMA PublishHistory ==
    ASSUME IInv, History, Publish
    PROVE  History'
<1>1. /\ app = "idle" /\ state = "CONNECTED"
      /\ app' \in {"header", "body"} /\ (Websocket => app' = "header")
      /\ began' = [began EXCEPT !["app"] = connects] /\ mixed' = (mixed \/ Writing(task))
      /\ UNCHANGED <<scheme, state, task, in_buffer, connects, accepted, wire>>
  BY DEF Publish, FirstPart
<1>2. began \in [Writers -> Int] /\ Writers = {"task", "app"} /\ connects \in Int
  BY BoundAssumption DEF IInv, Types, Writers
<1>3. began'["app"] = connects /\ began'["task"] = began["task"]
  BY <1>1, <1>2
<1>4. Bounds'
  BY <1>1, <1>2, <1>3 DEF History, Bounds
<1>5. First'
  <2>1. Stale' = Stale /\ ~Connecting' /\ ~Connecting
    BY <1>1 DEF Stale, Connecting
  <2>2. wire = <<>> => Stale
    BY <1>1 DEF History, First, Stale, IInv, Answers, AnsweredOrStale
  <2>3. QED
    BY <1>1, <1>3, <2>1, <2>2 DEF History, First
<1>6. ASSUME Websocket PROVE Framed'
  <2>1. Framed
    BY <1>6 DEF History
  <2>2. (Headed("task") => Headed("task")') /\ (LastHeader("task") => LastHeader("task")')
    BY <1>1, <1>3 DEF Headed, LastHeader, Header
  <2>3. ~mixed' => ~mixed /\ ~Writing(task)
    BY <1>1
  <2>4. ~Connecting'
    BY <1>1 DEF Connecting
  <2>5. QED
    BY <1>1, <1>3, <1>6, <2>1, <2>2, <2>3, <2>4 DEF Framed, Writing
<1>7. FramesPaired'
  <2>1. ~mixed' => ~mixed
    BY <1>1
  <2>2. QED
    BY <1>1, <2>1 DEF History, FramesPaired, HeaderOf, Websocket
<1>8. QED
  BY <1>1, <1>4, <1>5, <1>6, <1>7 DEF History, Websocket

\* Each step keeps the history of the wire.
LEMMA HistoryStep == IInv /\ IInv' /\ History /\ [Next]_vars => History'
<1> SUFFICES ASSUME IInv, Wires', History, [Next]_vars PROVE History'
  BY DEF IInv
<1>1. CASE ConnectFails \/ Reply \/ Wait \/ End \/ Destroy
  <2>1. /\ UNCHANGED <<scheme, app, began, in_buffer, connects, accepted, wire, mixed>>
        /\ state' \in {state, "WAIT", "INIT"} /\ task' \in {task, "loop", "ended", "header"}
        /\ task' = "header" => task' = task \/ (task = "reply" /\ state' = state)
        /\ state' = "INIT" => state' = state \/ task' = "loop"
    BY <1>1 DEF ConnectFails, Reply, Wait, End, Destroy, Abort
  <2>2. Writing(task') => Writing(task) \/ Connecting
    BY <2>1 DEF Writing, Connecting, IInv, Control
  <2>3. QED
    BY <2>1, <2>2, QuietHistory DEF Connecting
<1>2. CASE UNCHANGED vars
  BY <1>2, QuietHistory DEF vars, Connecting, Writing
<1>3. CASE Connect
  BY <1>3, ConnectHistory
<1>4. CASE Upgrade \/ TaskHeader \/ TaskBody
  BY <1>4, TaskSendHistory
<1>5. CASE Connack \/ Receive
  BY <1>5, ReadHistory
<1>6. CASE Ping
  BY <1>6, PingHistory
<1>7. CASE Publish
  BY <1>7, PublishHistory
<1>8. CASE AppHeader \/ AppBody
  BY <1>8, AppSendHistory
<1>9. QED
  BY <1>1, <1>2, <1>3, <1>4, <1>5, <1>6, <1>7, <1>8 DEF Next

\* ConnectComesFirst: the first message on a new connection is the client's own,
\* outside the windows it names (esp_mqtt_task, esp_mqtt_client_publish).
THEOREM OwnMessageFirst == Spec => []ConnectComesFirst
<1>1. IInv /\ History => ConnectComesFirst
  <2> SUFFICES ASSUME Types, Wires, Bounds, First, wire # <<>>, wire[1].by = "app"
               PROVE  wire[1].began < connects \/ Stale
    BY DEF IInv, History, ConnectComesFirst, Stale
  <2>1. 1 \in DOMAIN wire /\ wire[1] \in Chunks
    BY DEF Wires
  <2>2. wire[1].began \in Int /\ connects \in Int
    BY <2>1, BoundAssumption DEF Chunks, Types
  <2>3. wire[1].began <= connects
    BY <2>1 DEF Bounds
  <2>4. wire[1].began < connects \/ wire[1].began = connects
    BY <2>2, <2>3
  <2>5. QED
    BY <2>4 DEF First
<1>2. QED
  BY <1>1, IInvInit, IInvStep, HistoryInit, HistoryStep, PTL DEF Spec

\* FramesPaired: with any number of frames, cut wherever the network cuts them, each
\* body that is sent belongs to the header before it (ws_write).
THEOREM FramesArePaired == Spec => []FramesPaired
<1>1. History => FramesPaired
  BY DEF History
<1>2. QED
  BY <1>1, IInvInit, IInvStep, HistoryInit, HistoryStep, PTL DEF Spec

=============================================================================

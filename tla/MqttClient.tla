----------------------------- MODULE MqttClient -----------------------------
(***************************************************************************)
(* modules/mqtt: the connection of an MQTT client.                         *)
(*                                                                         *)
(* A client resolves a name, connects a TCP socket, sends CONNECT and is   *)
(* connected when CONNACK arrives.  A one second timer reconnects, pings   *)
(* and detects a silent broker; connectAckTimer bounds each attempt.       *)
(* Listeners may call connect(), close() and publish() in the middle of    *)
(* the client's own code, so what is left to run is kept in `stack'.       *)
(* Answers of the resolver and of uv_tcp_connect are not tied to the       *)
(* attempt that asked: they may come when another one is under way.        *)
(*                                                                         *)
(* Time is abstract: a timer that is set may fire at any moment.           *)
(***************************************************************************)
EXTENDS Integers, Sequences, FiniteSets

CONSTANTS
    MaxSockets,     \* bound: attempts whose answers are still to come
    MaxPublish,     \* bound: number of messages the broker publishes
    MaxMessageId,   \* 0xffff in the code
    MaxStack,       \* bound: depth from which user code calls the client
    Settings        \* what a behaviour may meet, and its other bounds

ASSUME MqttAssumption ==
    /\ {MaxSockets, MaxPublish, MaxStack} \subseteq Nat
    /\ MaxMessageId \in Nat \ {0}

Types == {"conack", "publish", "ack", "other"}

\* Whether the chunks of TCP may end inside a message; the types of message that
\* bytes read out of step may be taken for; the bounds of the number of calls by
\* user code, of failures of the network and the broker, and of the bytes in a
\* chunk with what was kept before it.
ASSUME SettingsAssumption ==
    \A s \in Settings :
       /\ s.split \in BOOLEAN /\ s.misread \subseteq Types
       /\ {s.calls, s.faults, s.buffer} \subseteq Nat

None == 0
Sockets == 1 .. MaxSockets

VARIABLES
    setting,          \* of this behaviour, a member of Settings
    \* fields of MQTTSocket and of its state
    connected, socketConnected, destroyed,
    keepAliveTimer,   \* the timer is set
    connectAckTimer,  \* the timer is set
    clientSocket,     \* None or a socket
    outgoingStore,    \* the request that waits under each message id
    nextMessageId,
    lastBuffer,       \* bytes kept for the next chunk
    \* libuv, the network and the broker
    open,             \* sockets that were created and not closed
    queries,          \* getaddrinfo requests to be answered
    connecting,       \* sockets whose connect callback is to come
    wire,             \* bytes from the broker that are under way
    session,          \* what the broker makes of the connection
    unacked,          \* requests the broker has received and not acknowledged
    stack,            \* code still to run in this turn of the loop
    \* what has been observed from outside
    calls, faults, published,
    requests,         \* number of requests made
    acked,            \* requests the broker has acknowledged
    received,         \* messages given to 'message' listeners
    answered,         \* requests whose callbacks were called
    unsent            \* requests of a client that was not connected

clientVars  == <<connected, socketConnected, destroyed, keepAliveTimer, connectAckTimer,
                 clientSocket>>
requestVars == <<outgoingStore, nextMessageId, requests, answered, unsent>>
brokerVars  == <<wire, session, unacked, acked, published>>
socketVars  == <<open, connecting, queries>>
dataVars    == <<lastBuffer, received>>
vars == <<clientVars, requestVars, brokerVars, socketVars, dataVars, stack, calls, faults>>

-----------------------------------------------------------------------------
(* A message is three bytes here: its type, its length, and its content n  *)
(* (a message id, the number of a message, the return code of CONNACK).    *)
Message == [type : Types, n : Nat]
Bytes(msg) == [i \in 1 .. 3 |-> [type |-> msg.type, n |-> msg.n, at |-> i]]
Byte == [type : Types, n : Nat, at : 1 .. 3]
Reply(type, n) == Bytes([type |-> type, n |-> n])

(* packet.parse: the messages that may be read at index, and where the     *)
(* next one begins.  Bytes that are out of step are read as anything.       *)
Incomplete == [type |-> "none", n |-> 0, next |-> 0]
Parsed(buffer, index) ==
    LET head    == buffer[index]
        inStep  == head.at = 1 /\ buffer[index + 1] = [head EXCEPT !.at = 2]
        intact  == buffer[index + 2] = [head EXCEPT !.at = 3]
    IN IF inStep
       THEN IF index + 2 > Len(buffer) THEN {Incomplete}
            ELSE {[type |-> head.type, n |-> n, next |-> index + 3] :
                    n \in IF intact THEN {head.n} ELSE 0 .. MaxMessageId}
       ELSE {Incomplete} \cup [type : setting.misread, n : 0 .. MaxMessageId,
                               next : index + 2 .. Len(buffer) + 1]

Frame == [op : {"user", "disconnect", "offline", "teardown", "connect", "closed",
                "reconnect", "subscribe", "messages"},
          buffer : Seq(Byte), index : Nat]
FrameOf(op) == [op |-> op, buffer |-> <<>>, index |-> 1]
UserFrame == FrameOf("user")

Running(op) == stack # <<>> /\ Head(stack).op = op
Rest == Tail(stack)
Push(frame, frames) == <<frame>> \o frames
PushIf(cond, frame, frames) == IF cond THEN Push(frame, frames) ELSE frames

Init ==
    /\ setting \in Settings
    /\ connected = FALSE /\ socketConnected = FALSE /\ destroyed = FALSE
    /\ keepAliveTimer = FALSE /\ connectAckTimer = FALSE /\ clientSocket = None
    /\ outgoingStore = <<>> /\ nextMessageId = 0 /\ lastBuffer = <<>>
    /\ open = {} /\ queries = 0 /\ connecting = {}
    /\ wire = <<>> /\ session = "none" /\ unacked = <<>> /\ acked = {}
    /\ stack = <<>>
    /\ calls = 0 /\ faults = 0 /\ published = 0
    /\ requests = 0 /\ received = <<>> /\ answered = <<>> /\ unsent = {}

Fails == faults < setting.faults /\ faults' = faults + 1

-----------------------------------------------------------------------------
(* _onErrorEvent: the 'error' listeners, then _onDisconnect. *)
ErrorEvent(frames) == Push(UserFrame, Push(FrameOf("disconnect"), frames))

(* _onDisconnect: 'close', then 'offline', then the rest. *)
Disconnect ==
    /\ Running("disconnect")
    /\ connected' = FALSE
    /\ stack' = PushIf(connected, UserFrame,
                       Push(FrameOf(IF connected THEN "offline" ELSE "teardown"), Rest))
    /\ UNCHANGED <<socketConnected, destroyed, keepAliveTimer, connectAckTimer,
                   clientSocket, requestVars, brokerVars, socketVars, dataVars, calls,
                   faults>>

Offline ==
    /\ Running("offline")
    /\ stack' = Push(UserFrame, Push(FrameOf("teardown"), Rest))
    /\ UNCHANGED <<clientVars, requestVars, brokerVars, socketVars, dataVars, calls, faults>>

\* Closing a socket loses what was under way on it.
LoseConnection == wire' = <<>> /\ session' = "none" /\ unacked' = <<>>

\* Variant: the timer of the attempt is left running.
TimerAfterTeardown_Kept == connectAckTimer
TimerAfterTeardown == FALSE

\* Variant: the socket is forgotten without being closed.
ClosedByTeardown_None == {}
ClosedByTeardown == {clientSocket}

Teardown ==
    /\ Running("teardown")
    /\ connectAckTimer' = TimerAfterTeardown
    /\ open' = open \ ClosedByTeardown
    /\ clientSocket' = None
    /\ socketConnected' = FALSE
    /\ outgoingStore' = <<>>
    /\ LoseConnection
    /\ stack' = Rest
    /\ UNCHANGED <<connected, destroyed, keepAliveTimer, nextMessageId, requests,
                   answered, unsent, acked, published, connecting, queries, dataVars,
                   calls, faults>>

(* _onConnect: a new socket, the timer of the attempt, and a name query. *)
Connect ==
    /\ Running("connect")
    /\ \E s \in Sockets \ (open \cup connecting) :
         /\ clientSocket' = s
         /\ open' = (open \ {clientSocket}) \cup {s}
    /\ connectAckTimer' = TRUE
    /\ queries' = queries + 1
    /\ LoseConnection
    /\ stack' = Rest
    /\ UNCHANGED <<connected, socketConnected, destroyed, keepAliveTimer, requestVars,
                   acked, published, connecting, dataVars, calls, faults>>

Pending(ops) == Cardinality({i \in DOMAIN stack : stack[i].op \in ops})

\* The bound on attempts: there is room for those on the stack and one more.
Attempts == Pending({"connect", "reconnect"})
MayAttempt ==
    /\ Cardinality(open \cup connecting) + Attempts < MaxSockets
    /\ queries + Attempts < MaxSockets

(* The keep alive timer, every second while it is set: a silent broker (or *)
(* a ping that cannot be written) ends the session; no session, and no     *)
(* attempt under way, makes _onReconnect emit 'reconnect', disconnect and  *)
(* connect; reconnectPeriod is how long it waits for that, and 0 is not    *)
(* an exception.  The callbacks of closed sockets run before the next tick *)
(* unless two timers fire together.                                        *)
CheckKeepAlive ==
    /\ stack = <<>> /\ keepAliveTimer /\ ~destroyed
    /\ \/ /\ connected
          /\ Fails
          /\ stack' = ErrorEvent(stack)
       \/ /\ ~connected /\ ~connectAckTimer /\ MayAttempt
          /\ \/ connecting \subseteq open /\ UNCHANGED faults
             \/ ~(connecting \subseteq open) /\ Fails
          /\ stack' = Push(UserFrame, << FrameOf("reconnect") >>)
    /\ UNCHANGED <<clientVars, requestVars, brokerVars, socketVars, dataVars, calls>>

Reconnect ==
    /\ Running("reconnect")
    /\ stack' = Push(FrameOf("disconnect"), Push(FrameOf("connect"), Rest))
    /\ UNCHANGED <<clientVars, requestVars, brokerVars, socketVars, dataVars, calls, faults>>

\* connectAckTimer fires: it is spent, but the field still holds it.  Nothing else
\* ends an attempt whose connect could not begin.
Stalled == queries = 0 /\ clientSocket \notin connecting /\ ~socketConnected

ConnectTimeout ==
    /\ stack = <<>> /\ connectAckTimer
    /\ Fails \/ (Stalled /\ UNCHANGED faults)
    /\ stack' = ErrorEvent(stack)
    /\ UNCHANGED <<clientVars, requestVars, brokerVars, socketVars, dataVars, calls>>

(* The resolver answers a query, of this attempt or of an earlier one.  A  *)
(* socket that is already connecting or connected refuses to connect, and  *)
(* one that is new may: the code does not look at what connect returns.    *)
QueryAnswered ==
    /\ stack = <<>> /\ queries > 0
    /\ queries' = queries - 1
    /\ \/ /\ Fails \/ (clientSocket = None /\ UNCHANGED faults)
          /\ stack' = ErrorEvent(stack)
          /\ UNCHANGED connecting
       \/ /\ clientSocket # None
          /\ connecting' = IF socketConnected THEN connecting
                                              ELSE connecting \cup {clientSocket}
          /\ UNCHANGED <<stack, faults>>
       \/ /\ clientSocket # None
          /\ Fails
          /\ UNCHANGED <<stack, connecting>>
    /\ UNCHANGED <<clientVars, requestVars, brokerVars, open, dataVars, calls>>

(* The connect callback: ECANCELED when the socket was closed meanwhile.   *)
(* _onSocketConnected sends CONNECT; the broker accepts it, or refuses it, *)
(* as it must when a request was written before.                           *)
ConnectAnswered ==
    /\ stack = <<>>
    /\ \E s \in connecting :
         /\ connecting' = connecting \ {s}
         /\ \/ /\ (s \notin open /\ UNCHANGED faults) \/ (s \in open /\ Fails)
               /\ stack' = ErrorEvent(stack)
               /\ UNCHANGED <<socketConnected, wire, session>>
            \/ /\ s \in open
               /\ socketConnected' = TRUE
               /\ \/ /\ session = "none" /\ UNCHANGED faults
                     /\ session' = "up"
                     /\ wire' = Reply("conack", 0)
                  \/ /\ Fails \/ (session = "spoiled" /\ UNCHANGED faults)
                     /\ wire' = Reply("conack", 1)
                     /\ UNCHANGED session
               /\ UNCHANGED stack
    /\ UNCHANGED <<connected, destroyed, keepAliveTimer, connectAckTimer, clientSocket,
                   requestVars, unacked, acked, published, open, queries, dataVars, calls>>

\* The broker closes the connection, or it breaks.
ReadFails ==
    /\ stack = <<>> /\ socketConnected
    /\ Fails
    /\ stack' = ErrorEvent(stack)
    /\ UNCHANGED <<clientVars, requestVars, brokerVars, socketVars, dataVars, calls>>

-----------------------------------------------------------------------------
(* _handleMessageData: a chunk arrives and the messages in it, after what  *)
(* was kept, are handled one by one.  What is kept of a buffer that ends   *)
(* inside a message is the whole buffer; a single byte at its end is not   *)
(* looked at.                                                              *)
ChunkEnds == {k \in 1 .. Len(wire) :
                /\ setting.split \/ k % 3 = 0
                /\ Len(lastBuffer) + k <= setting.buffer}

Receive ==
    /\ stack = <<>> /\ socketConnected
    /\ \E k \in ChunkEnds :
         /\ stack' = << [op |-> "messages", index |-> 1,
                         buffer |-> lastBuffer \o SubSeq(wire, 1, k)] >>
         /\ wire' = SubSeq(wire, k + 1, Len(wire))
    /\ lastBuffer' = <<>>
    /\ UNCHANGED <<clientVars, requestVars, session, unacked, acked, published, socketVars,
                   received, calls, faults>>

Buffer == Head(stack).buffer
Index  == Head(stack).index
InLoop == Running("messages") /\ Index < Len(Buffer)
Arrived == IF InLoop THEN Parsed(Buffer, Index) ELSE {}
ArrivedOf(type) == {m \in Arrived : m.type = type}

EndMessages ==
    /\ Running("messages") /\ ~InLoop
    /\ stack' = Rest
    /\ UNCHANGED <<clientVars, requestVars, brokerVars, socketVars, dataVars, calls, faults>>

KeepRest ==
    /\ Incomplete \in Arrived
    /\ lastBuffer' = Buffer
    /\ stack' = Rest
    /\ UNCHANGED <<clientVars, requestVars, brokerVars, socketVars, received, calls, faults>>

\* The loop, after message m.
After(m) == Push([Head(stack) EXCEPT !.index = m.next], Rest)

\* Variant: a refusal is taken for an acceptance.
Refused_Never(m) == FALSE
Refused(m) == m.n # 0

HandleConnectACK ==
    /\ \E m \in ArrivedOf("conack") :
         /\ connectAckTimer' = FALSE
         /\ IF Refused(m)
            THEN stack' = ErrorEvent(After(m)) /\ UNCHANGED connected
            ELSE stack' = PushIf(~connected, UserFrame, After(m)) /\ connected' = TRUE
    /\ UNCHANGED <<socketConnected, destroyed, keepAliveTimer, clientSocket, requestVars,
                   brokerVars, socketVars, dataVars, calls, faults>>

HandlePublish ==
    /\ \E m \in ArrivedOf("publish") :
         /\ received' = Append(received, m.n)
         /\ stack' = Push(UserFrame, After(m))
    /\ UNCHANGED <<clientVars, requestVars, brokerVars, socketVars, lastBuffer, calls, faults>>

(* PUBACK and SUBACK: the request of this id is popped and its callback    *)
(* called; when there is none, 'error' is emitted.                         *)
\* Variant: the answer goes to the latest request.
AnsweredBy_Latest(id) == Cardinality(DOMAIN outgoingStore)
AnsweredBy(id) == id

HandleAck ==
    /\ \E m \in ArrivedOf("ack") :
         LET id == AnsweredBy(m.n) IN
         /\ IF id \in DOMAIN outgoingStore
            THEN /\ answered' = Append(answered, outgoingStore[id])
                 /\ outgoingStore' = [i \in DOMAIN outgoingStore \ {id} |-> outgoingStore[i]]
            ELSE UNCHANGED <<answered, outgoingStore>>
         /\ stack' = Push(UserFrame, After(m))
    /\ UNCHANGED <<clientVars, nextMessageId, requests, unsent, brokerVars, socketVars,
                   dataVars, calls, faults>>

HandleOther ==
    /\ \E m \in ArrivedOf("other") : stack' = After(m)
    /\ UNCHANGED <<clientVars, requestVars, brokerVars, socketVars, dataVars, calls, faults>>

-----------------------------------------------------------------------------
(* The broker, on a connection it has accepted. *)
BrokerPublishes ==
    /\ session = "up" /\ published < MaxPublish
    /\ published' = published + 1
    /\ wire' = wire \o Reply("publish", published')
    /\ UNCHANGED <<clientVars, requestVars, session, unacked, acked, socketVars, dataVars,
                   stack, calls, faults>>

BrokerAcks ==
    /\ session = "up" /\ unacked # <<>>
    /\ unacked' = Tail(unacked)
    /\ acked' = acked \cup {Head(unacked).request}
    /\ wire' = wire \o Reply("ack", Head(unacked).id)
    /\ UNCHANGED <<clientVars, requestVars, session, published, socketVars, dataVars, stack,
                   calls, faults>>

-----------------------------------------------------------------------------
(* User code: from a listener or from an event of its own. *)
MayCall ==
    /\ stack = <<>> \/ Running("user")
    /\ Len(stack) <= MaxStack
    /\ calls < setting.calls /\ calls' = calls + 1

Return ==
    /\ Running("user")
    /\ stack' = Rest
    /\ UNCHANGED <<clientVars, requestVars, brokerVars, socketVars, dataVars, calls, faults>>

UserConnect ==
    /\ MayCall /\ MayAttempt
    /\ ~connected /\ ~connectAckTimer
    /\ keepAliveTimer' = TRUE
    /\ destroyed' = FALSE
    /\ stack' = Push(FrameOf("connect"), stack)
    /\ UNCHANGED <<connected, socketConnected, connectAckTimer, clientSocket, requestVars,
                   brokerVars, socketVars, dataVars, faults>>

\* close(): DISCONNECT, which may fail to be written, and _onDisconnect.
UserClose ==
    /\ MayCall /\ ~destroyed
    /\ LET then == Push(FrameOf("disconnect"), Push(FrameOf("closed"), stack)) IN
       \/ stack' = then /\ UNCHANGED faults
       \/ connected /\ Fails /\ stack' = ErrorEvent(then)
    /\ UNCHANGED <<clientVars, requestVars, brokerVars, socketVars, dataVars>>

\* The end of close(), and its callback.
Closed ==
    /\ Running("closed")
    /\ keepAliveTimer' = FALSE
    /\ destroyed' = TRUE
    /\ stack' = Push(UserFrame, Rest)
    /\ UNCHANGED <<connected, socketConnected, connectAckTimer, clientSocket, requestVars,
                   brokerVars, socketVars, dataVars, calls, faults>>

\* Variant: the counter goes one further before it wraps.
NextMessageId_Late == IF nextMessageId > MaxMessageId THEN 1 ELSE nextMessageId + 1
NextMessageId == IF nextMessageId + 1 > MaxMessageId THEN 1 ELSE nextMessageId + 1

(* _sendMQTTPacket, and what the broker then has to acknowledge: nothing   *)
(* is written without a socket, and one that is not connecting yet fails.  *)
(* Written while the socket connects, a packet precedes CONNECT.           *)
Write(frames, toAck) ==
    \/ /\ socketConnected \/ clientSocket = None \/ clientSocket \in connecting
       /\ unacked' = IF socketConnected THEN toAck ELSE unacked
       /\ session' = IF clientSocket \in connecting THEN "spoiled" ELSE session
       /\ stack' = frames
       /\ UNCHANGED faults
    \/ /\ clientSocket # None
       /\ \/ ~socketConnected /\ clientSocket \notin connecting /\ UNCHANGED faults
          \/ socketConnected /\ Fails
       /\ stack' = ErrorEvent(frames)
       /\ UNCHANGED <<unacked, session>>

(* A request that is to be acknowledged is stored, then written. *)
Request(frames) ==
    LET id == NextMessageId
        r  == requests + 1
    IN /\ nextMessageId' = id
       /\ requests' = r
       /\ outgoingStore' = [i \in DOMAIN outgoingStore \cup {id} |->
                               IF i = id THEN r ELSE outgoingStore[i]]
       /\ Write(frames, Append(unacked, [id |-> id, request |-> r]))
       /\ UNCHANGED <<clientVars, answered, unsent, wire, acked, published, socketVars,
                      dataVars>>

(* An assumption on user code: 0xffff requests later, when an id comes     *)
(* again, the request that had it and its answer are not under way.  The   *)
(* request that is asked for comes after those that are still on the stack.*)
AcksIn(bytes) == {bytes[i].n : i \in {j \in DOMAIN bytes : bytes[j].type = "ack"}}
UnderWay ==
    {unacked[i].id : i \in DOMAIN unacked} \cup AcksIn(wire)
    \cup UNION {AcksIn(stack[i].buffer) : i \in DOMAIN stack}
IdsOfNext(n) ==
    {id \in 1 .. MaxMessageId :
        \/ nextMessageId < id /\ id <= nextMessageId + n
        \/ id + MaxMessageId <= nextMessageId + n}
MayRequest == IdsOfNext(Pending({"subscribe"}) + 1) \cap UnderWay = {}

(* publish(). Not connected, it calls the callback at once: user code goes *)
(* on.  With QoS 0 the callback comes from an immediate, as a call of user *)
(* code may at any time.                                                   *)
PublishUnsent ==
    /\ ~connected
    /\ requests' = requests + 1
    /\ answered' = Append(answered, requests')
    /\ unsent' = unsent \cup {requests'}
    /\ UNCHANGED <<clientVars, outgoingStore, nextMessageId, brokerVars, socketVars,
                   dataVars, stack, faults>>

PublishUnasked ==
    /\ connected
    /\ Write(stack, unacked)
    /\ UNCHANGED <<clientVars, requestVars, wire, acked, published, socketVars, dataVars>>

UserPublish ==
    /\ MayCall
    /\ \/ connected /\ MayRequest /\ Request(stack)
       \/ PublishUnasked
       \/ PublishUnsent

\* subscribe(): 'error' is emitted first when the socket is not connected.
UserSubscribe ==
    /\ MayCall /\ MayRequest
    /\ stack' = PushIf(~socketConnected, UserFrame, Push(FrameOf("subscribe"), stack))
    /\ UNCHANGED <<clientVars, requestVars, brokerVars, socketVars, dataVars, faults>>

SendSubscribe ==
    /\ Running("subscribe")
    /\ Request(Rest)
    /\ UNCHANGED calls

-----------------------------------------------------------------------------
UserCall == UserConnect \/ UserClose \/ UserPublish \/ UserSubscribe
Continue ==
    Disconnect \/ Offline \/ Teardown \/ Connect \/ Reconnect \/ Closed \/ SendSubscribe
    \/ EndMessages \/ KeepRest \/ HandleConnectACK \/ HandlePublish \/ HandleAck
    \/ HandleOther \/ Return
Loop == CheckKeepAlive \/ ConnectTimeout \/ QueryAnswered \/ ConnectAnswered \/ ReadFails
        \/ Receive
Broker == BrokerPublishes \/ BrokerAcks

Next == UserCall \/ Continue \/ Loop \/ Broker
Spec == Init /\ [][Next /\ UNCHANGED setting]_<<setting, vars>>

(* Code that is running ends; the timers tick, requests of libuv are       *)
(* answered, and what is on the wire arrives.                              *)
Fairness ==
    /\ WF_vars(Continue) /\ WF_vars(CheckKeepAlive) /\ WF_vars(QueryAnswered)
    /\ WF_vars(ConnectTimeout)
    /\ WF_vars(ConnectAnswered) /\ WF_vars(Receive) /\ WF_vars(BrokerAcks)
FairSpec == Spec /\ Fairness

-----------------------------------------------------------------------------
TypeOK ==
    /\ {connected, socketConnected, destroyed, keepAliveTimer, connectAckTimer} \subseteq BOOLEAN
    /\ clientSocket \in Sockets \cup {None}
    /\ DOMAIN outgoingStore \subseteq 1 .. MaxMessageId
    /\ \A id \in DOMAIN outgoingStore : outgoingStore[id] \in 1 .. requests
    /\ nextMessageId \in 0 .. MaxMessageId
    /\ lastBuffer \in Seq(Byte) /\ wire \in Seq(Byte)
    /\ open \subseteq Sockets /\ connecting \subseteq Sockets
    /\ queries \in 0 .. MaxSockets
    /\ session \in {"none", "spoiled", "up"}
    /\ unacked \in Seq([id : 1 .. MaxMessageId, request : 1 .. requests])
    /\ stack \in Seq(Frame)
    /\ setting \in Settings
    /\ calls \in 0 .. setting.calls /\ faults \in 0 .. setting.faults
    /\ published \in 0 .. MaxPublish
    /\ received \in Seq(0 .. MaxMessageId + MaxPublish)
    /\ answered \in Seq(1 .. requests) /\ acked \cup unsent \subseteq 1 .. requests
=============================================================================

------------------------------- MODULE MCMqtt -------------------------------
(***************************************************************************)
(* Properties of the MQTT client, for small instances.                     *)
(***************************************************************************)
EXTENDS MqttClient

\* Messages arrive whole, or chunks end anywhere and are misread.
Whole == [split |-> FALSE, misread |-> {}, calls |-> 4, faults |-> 2, buffer |-> 12]
Bytewise == [split |-> TRUE, misread |-> {"conack", "other"}, calls |-> 3, faults |-> 1,
             buffer |-> 5]
BothSettings == {Whole, Bytewise}
ClosedSettings == {[Whole EXCEPT !.calls = 2, !.faults = 1]}
InboundSettings == {[Bytewise EXCEPT !.misread = {"other"}, !.calls = 2, !.faults = 0,
                                     !.buffer = 12]}

Idle == stack = <<>>

\* Between two events, a client that says it is connected has a socket, which is
\* connected, to a broker that has accepted it.
SessionSane ==
    Idle /\ connected /\ ~setting.split => clientSocket # None /\ socketConnected /\ session = "up"

\* A request's callback is called at most once, and only after the broker has
\* acknowledged this very request, across reconnections that empty the store and
\* go on with the message ids; or when the client was not connected and did not
\* even send it.
AckOwn ==
    ~setting.split =>
       /\ \A i \in DOMAIN answered : answered[i] \in acked \cup unsent
       /\ \A i, j \in DOMAIN answered : answered[i] = answered[j] => i = j

\* No socket is forgotten while it is open: whatever calls listeners make inside
\* _onErrorEvent, _onReconnect and _onDisconnect, one that the client no longer
\* refers to has been closed (its read callback would feed the next session). And
\* between two events, a client that holds a socket is connected or has the timer
\* that bounds the attempt, and that timer never outlives its attempt (while it is
\* set, _checkKeepAlive does not reconnect).
AttemptBounded ==
    /\ open \subseteq {clientSocket}
    /\ Idle => /\ clientSocket # None => connected \/ connectAckTimer
               /\ connectAckTimer => clientSocket # None

\* A client that was asked to connect gets connected or is closed, whatever
\* fails on the way, once failures stop: also when connect could not even begin.
\* (mqtt.lua:81 says that a reconnectPeriod of 0 disables this; the code compares it
\* as any other period, so the property speaks of the others.)
Reconnects == keepAliveTimer /\ ~setting.split ~> connected \/ destroyed

\* Every message of the broker reaches the 'message' listeners once, in order
\* (mqtt.lua:512 keeps "the data that remain" for the next chunk).
InboundOnce == \A i, j \in DOMAIN received : i < j => received[i] < received[j]

\* A client that was closed does not connect again: between two events it has
\* no socket (mqtt.lua:69, "no more reconnections once closed").
StaysClosed == Idle /\ destroyed => clientSocket = None
=============================================================================

------------------------------ MODULE RpcCall ------------------------------
(***************************************************************************)
(* modules/app/lua/rpc.lua, exports.call: one request on a pipe of its     *)
(* own.  The answer of the connection, what is read from the pipe and the  *)
(* timeout race for one callback, one pipe and the counter inFlight, which *)
(* all calls share.  A callback may make the next call.  The server is     *)
(* external: it answers in pieces, never, or with anything, also with JSON *)
(* that is not an object, which raises an error and ends the process.      *)
(***************************************************************************)
EXTENDS Integers, FiniteSets

CONSTANTS
    Calls,
    NoCallback,     \* calls that are made without a callback
    NoCall

ASSUME RpcAssumption == IsFiniteSet(Calls) /\ NoCallback \subseteq Calls /\ NoCall \notin Calls

VARIABLES
    inFlight,       \* exports.inFlight
    asked,          \* calls made
    client,         \* calls whose `client' is not nil
    callback,       \* calls whose `callback' is not nil
    timeoutTimer,   \* calls whose timer is set
    pipe,           \* libuv: none, connecting, open, closing, or closed
    reading,        \* calls whose pipe is read
    answering,      \* the call whose callback runs, or NoCall
    raised,         \* an error was raised in a callback of libuv: exit(-1)
    calledBack,     \* observed: how often each callback was called
    closings        \* observed: how often each pipe was given to uv.close

rpcVars == <<inFlight, asked, client, callback, timeoutTimer, pipe, reading,
             answering, raised, calledBack, closings>>

RpcInit ==
    /\ inFlight = 0
    /\ asked = {} /\ client = {} /\ callback = {} /\ timeoutTimer = {}
    /\ pipe = [c \in Calls |-> "none"]
    /\ reading = {}
    /\ answering = NoCall /\ raised = FALSE
    /\ calledBack = [c \in Calls |-> 0] /\ closings = [c \in Calls |-> 0]

-----------------------------------------------------------------------------
\* User code: from the loop, or inside a callback.
CallMethod(c) ==
    /\ c \notin asked
    /\ asked' = asked \cup {c}
    /\ client' = client \cup {c}
    /\ callback' = IF c \in NoCallback THEN callback ELSE callback \cup {c}
    /\ inFlight' = inFlight + 1
    /\ timeoutTimer' = timeoutTimer \cup {c}
    /\ pipe' = [pipe EXCEPT ![c] = "connecting"]
    /\ UNCHANGED <<reading, answering, raised, calledBack, closings>>

\* onClose, without its timer.
GivenUp(c) == client \ {c}

MustClose(c) == c \in client

ClosePipe(c, state) ==
    IF MustClose(c)
    THEN /\ client' = GivenUp(c)
         /\ reading' = reading \ {c}
         /\ closings' = [closings EXCEPT ![c] = @ + 1]
         /\ pipe' = [pipe EXCEPT ![c] = state]
    ELSE UNCHANGED <<client, reading, closings, pipe>>

\* Variant: the callback is called as often as the call ends.
MayAnswer_Again(c) == c \notin NoCallback
MayAnswer(c) == c \in callback

\* onClose and then onError or the response: the callback starts.
\* Variant: the timer goes on.
Cleared_Not(c) == timeoutTimer
Cleared(c) == timeoutTimer \ {c}

AnswerCall(c) ==
    IF MayAnswer(c)
    THEN answering' = c /\ calledBack' = [calledBack EXCEPT ![c] = @ + 1]
    ELSE UNCHANGED <<answering, calledBack>>

EndCall(c, state) ==
    /\ timeoutTimer' = Cleared(c)
    /\ ClosePipe(c, state)
    /\ AnswerCall(c)
    /\ UNCHANGED <<inFlight, asked, callback, raised>>

\* After the callback: callback = nil and the decrement.
Decremented == inFlight - 1

Returned ==
    /\ answering # NoCall
    /\ callback' = callback \ {answering}
    /\ inFlight' = Decremented
    /\ answering' = NoCall
    /\ UNCHANGED <<asked, client, timeoutTimer, pipe, reading, raised, calledBack, closings>>

-----------------------------------------------------------------------------
(* Callbacks of libuv: one at a time. *)
\* libuv answers a connection that is under way with ECANCELED.
TimeoutFires(c) ==
    /\ answering = NoCall
    /\ c \in timeoutTimer
    /\ EndCall(c, IF pipe[c] = "connecting" THEN "canceled" ELSE "closing")

PipeConnected(c) ==
    /\ answering = NoCall
    /\ pipe[c] = "connecting"
    /\ pipe' = [pipe EXCEPT ![c] = "open"]
    /\ reading' = reading \cup {c}
    /\ UNCHANGED <<inFlight, asked, client, callback, timeoutTimer, answering, raised,
                   calledBack, closings>>

\* onConnect with an error: there is no server.
NoServer(c) ==
    /\ answering = NoCall
    /\ pipe[c] = "connecting"
    /\ EndCall(c, "closing")

\* onConnect with ECANCELED, on the way to the end of uv.close: `client' is nil.
ConnectCanceled(c) ==
    /\ answering = NoCall
    /\ pipe[c] = "canceled"
    /\ timeoutTimer' = Cleared(c)
    /\ pipe' = [pipe EXCEPT ![c] = "closing"]
    /\ AnswerCall(c)
    /\ UNCHANGED <<inFlight, asked, client, callback, reading, raised, closings>>

\* onRead: the end of a message that is a JSON object or text, or is no JSON; a bad
\* length; the end of the stream or an error.  Pieces of a message only wait for
\* the rest.
ReadEnds(c) ==
    /\ answering = NoCall
    /\ c \in reading
    /\ EndCall(c, "closing")

\* The end of a message that is a JSON number, true or null: it has no fields, and
\* response.error raises an error after onClose, before the callback.
BadReply(c) ==
    /\ answering = NoCall
    /\ c \in reading
    /\ c \in callback
    /\ raised' = TRUE
    /\ timeoutTimer' = Cleared(c)
    /\ ClosePipe(c, "closing")
    /\ UNCHANGED <<inFlight, asked, callback, answering, calledBack>>

PipeClosed(c) ==
    /\ answering = NoCall
    /\ pipe[c] = "closing"
    /\ pipe' = [pipe EXCEPT ![c] = "closed"]
    /\ UNCHANGED <<inFlight, asked, client, callback, timeoutTimer, reading,
                   answering, raised, calledBack, closings>>

RpcNext ==
    /\ ~raised
    /\ \/ \E c \in Calls :
             \/ CallMethod(c)
             \/ TimeoutFires(c) \/ PipeConnected(c) \/ NoServer(c)
             \/ ConnectCanceled(c) \/ ReadEnds(c) \/ BadReply(c) \/ PipeClosed(c)
       \/ Returned

RpcSpec == RpcInit /\ [][RpcNext]_rpcVars

\* Timers that are set fire, uv.close ends, callbacks return; neither the
\* connection nor the server owes anything, and a process that has ended owes
\* nothing.  (Each of these steps is taken a bounded number of times, so that one
\* fairness is enough for them.)
RpcProgress ==
    /\ ~raised
    /\ \/ Returned
       \/ \E c \in Calls : TimeoutFires(c) \/ ConnectCanceled(c) \/ PipeClosed(c)

RpcFairness == WF_rpcVars(RpcProgress)

-----------------------------------------------------------------------------
RpcTypeOK ==
    /\ inFlight \in Int
    /\ asked \subseteq Calls /\ client \subseteq asked /\ callback \subseteq asked \ NoCallback
    /\ timeoutTimer \subseteq asked /\ reading \subseteq client
    /\ pipe \in [Calls -> {"none", "connecting", "open", "canceled", "closing", "closed"}]
    /\ answering \in callback \cup {NoCall} /\ raised \in BOOLEAN
    /\ calledBack \in [Calls -> Nat] /\ closings \in [Calls -> Nat]

\* The counter of the calls under way is exact at each step, whichever event
\* ends a call and whatever its callback calls; but calls without a callback
\* are counted for ever.
InFlightExact == inFlight = Cardinality(callback) + Cardinality(asked \cap NoCallback)

\* When a callback is called, its timer is off and its pipe is given up; no
\* pipe is closed twice, which would raise.
CleanWhenAnswered ==
    \A c \in Calls :
       /\ calledBack[c] > 0 => c \notin timeoutTimer /\ c \notin client /\ closings[c] = 1
       /\ closings[c] <= 1

\* However a call ends, it leaves nothing behind that a later event could meet.
RpcSettled == InFlightExact /\ CleanWhenAnswered

\* No pipe stays open: at the latest the timer closes it, with or without a
\* callback.
PipesClose == client # {} ~> (raised \/ \A c \in asked : pipe[c] = "closed")

\* Each call that has a callback is answered at last, if no reply ends the process.
CallsEnd ==
    \A c \in Calls \ NoCallback : c \in asked ~> (raised \/ calledBack[c] = 1)

\* Each call with a callback is answered once, and, like its pipe, ends.
RpcPromise ==
    INSTANCE OneAnswer WITH
        Requests <- Calls \ NoCallback,
        waiting  <- {c \in asked \ NoCallback : calledBack[c] = 0},
        answers  <- [c \in Calls \ NoCallback |-> calledBack[c]]
RpcAnswersOnce == RpcPromise!Spec /\ CallsEnd /\ PipesClose
=============================================================================

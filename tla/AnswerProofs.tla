---------------------------- MODULE AnswerProofs ----------------------------
(***************************************************************************)
(* Proofs about RpcCall, for any set of calls, and ExecProcess, for any    *)
(* amount of output and any maxBuffer: what they count and report is       *)
(* exact, and both implement OneAnswer (without its liveness, which TLC    *)
(* checks).                                                                *)
(***************************************************************************)
EXTENDS RpcCall, ExecProcess, SequenceTheorems, FiniteSetTheorems, TLAPS

-----------------------------------------------------------------------------
(* RpcCall *)

\* What ties the pieces of state of a call to each other: its pipe is held from
\* the call until it is closed, once; the timer runs only while the pipe is held;
\* a callback that is kept and does not run was not called, and will be if no reply
\* ends the process.
Tied ==
    \A c \in Calls :
       /\ closings[c] = IF c \in asked \ client THEN 1 ELSE 0
       /\ c \in timeoutTimer => c \in client
       /\ pipe[c] = "none" <=> c \notin asked
       /\ c \in client <=> pipe[c] \in {"connecting", "open"}
       /\ calledBack[c] = IF c \in asked \ NoCallback /\ (c \notin callback \/ answering = c)
                          THEN 1 ELSE 0
       /\ calledBack[c] > 0 => c \notin client
       /\ c \in callback => c \in client \/ answering = c \/ raised

RpcInv == RpcTypeOK /\ Tied /\ InFlightExact

LEMMA Start == RpcInit => RpcInv
<1> SUFFICES ASSUME RpcInit PROVE RpcInv
    OBVIOUS
<1>1. RpcTypeOK
  <2>1. raised \in BOOLEAN
        BY DEF RpcInit
  <2> QED BY <2>1, RpcAssumption DEF RpcInit, RpcTypeOK
<1>2. Tied
    BY RpcAssumption DEF RpcInit, Tied
<1>3. InFlightExact
    BY FS_EmptySet DEF RpcInit, InFlightExact
<1> QED BY <1>1, <1>2, <1>3 DEF RpcInv

\* The end of a call: by its timer, by a connection that fails, or by what was read.
LEMMA EndKeeps ==
    ASSUME RpcTypeOK, Tied, answering = NoCall,
           NEW c \in Calls, NEW state \in {"canceled", "closing"}, EndCall(c, state),
           c \in client
    PROVE  RpcTypeOK' /\ Tied'
<1> USE RpcAssumption DEF EndCall, Cleared, ClosePipe, MustClose, GivenUp, AnswerCall, MayAnswer
<1>1. RpcTypeOK'
    BY DEF RpcTypeOK
<1>2. answering' \in Calls \cup {NoCall} /\ answering \notin Calls
    BY DEF RpcTypeOK
<1>3. ASSUME NEW d \in Calls, d # c
      PROVE  /\ calledBack'[d] = calledBack[d] /\ closings'[d] = closings[d]
             /\ pipe'[d] = pipe[d]
             /\ d \in client' <=> d \in client
             /\ d \in timeoutTimer' <=> d \in timeoutTimer
             /\ answering' # d /\ raised' = raised
    BY <1>2, <1>3 DEF RpcTypeOK
<1>4. ASSUME NEW d \in Calls, d # c
      PROVE  /\ closings'[d] = IF d \in asked' \ client' THEN 1 ELSE 0
             /\ d \in timeoutTimer' => d \in client'
             /\ pipe'[d] = "none" <=> d \notin asked'
             /\ d \in client' <=> pipe'[d] \in {"connecting", "open"}
             /\ calledBack'[d] = IF d \in asked' \ NoCallback /\ (d \notin callback' \/ answering' = d)
                                 THEN 1 ELSE 0
             /\ calledBack'[d] > 0 => d \notin client'
             /\ d \in callback' => d \in client' \/ answering' = d \/ raised'
    BY <1>2, <1>3, <1>4 DEF Tied
<1>5. /\ closings'[c] = IF c \in asked' \ client' THEN 1 ELSE 0
      /\ c \in timeoutTimer' => c \in client'
      /\ pipe'[c] = "none" <=> c \notin asked'
      /\ c \in client' <=> pipe'[c] \in {"connecting", "open"}
      /\ c \notin client'
    BY DEF RpcTypeOK, Tied
<1>6. calledBack'[c] = IF c \in asked' \ NoCallback /\ (c \notin callback' \/ answering' = c)
                       THEN 1 ELSE 0
  <2>1. CASE c \in callback
        BY <2>1 DEF RpcTypeOK, Tied
  <2>2. CASE c \notin callback
        BY <2>2, <1>2 DEF RpcTypeOK, Tied
  <2> QED BY <2>1, <2>2
<1>7. c \in callback' => answering' = c
    BY DEF RpcTypeOK
<1>8. Tied'
    BY <1>4, <1>5, <1>6, <1>7 DEF Tied
<1> QED BY <1>1, <1>8

LEMMA TimeoutKeeps ==
    ASSUME RpcTypeOK, Tied, NEW c \in Calls, TimeoutFires(c)
    PROVE  RpcTypeOK' /\ Tied'
<1>1. c \in client /\ answering = NoCall
    BY DEF Tied, TimeoutFires
<1>2. PICK state \in {"canceled", "closing"} : EndCall(c, state)
    BY DEF TimeoutFires
<1> QED BY <1>1, <1>2, EndKeeps

LEMMA NoServerKeeps ==
    ASSUME RpcTypeOK, Tied, NEW c \in Calls, NoServer(c)
    PROVE  RpcTypeOK' /\ Tied'
<1>1. c \in client /\ answering = NoCall
    BY DEF Tied, NoServer
<1> QED BY <1>1, EndKeeps DEF NoServer

LEMMA ReadEndsKeeps ==
    ASSUME RpcTypeOK, Tied, NEW c \in Calls, ReadEnds(c)
    PROVE  RpcTypeOK' /\ Tied'
<1>1. c \in client /\ answering = NoCall
    BY DEF RpcTypeOK, ReadEnds
<1> QED BY <1>1, EndKeeps DEF ReadEnds

\* A reply that raises ends the process in the middle of the end of its call.
LEMMA BadReplyKeeps ==
    ASSUME RpcTypeOK, Tied, NEW c \in Calls, BadReply(c)
    PROVE  RpcTypeOK' /\ Tied'
<1> USE RpcAssumption DEF BadReply, Cleared, ClosePipe, MustClose, GivenUp
<1>1. c \in client /\ c \in asked /\ raised'
    BY DEF RpcTypeOK
<1>2. RpcTypeOK'
    BY DEF RpcTypeOK
<1>3. ASSUME NEW d \in Calls, d # c
      PROVE  /\ closings'[d] = closings[d] /\ pipe'[d] = pipe[d]
             /\ d \in client' <=> d \in client
             /\ d \in timeoutTimer' <=> d \in timeoutTimer
    BY <1>3 DEF RpcTypeOK
<1>4. /\ closings'[c] = 1 /\ pipe'[c] = "closing"
      /\ c \notin client' /\ c \notin timeoutTimer'
    BY <1>1 DEF RpcTypeOK, Tied
<1>5. UNCHANGED <<asked, callback, answering, calledBack>>
    OBVIOUS
<1> HIDE DEF BadReply, Cleared, ClosePipe, MustClose, GivenUp
<1>6. Tied'
    BY <1>1, <1>3, <1>4, <1>5 DEF Tied
<1> QED BY <1>2, <1>6

LEMMA CallKeeps ==
    ASSUME RpcTypeOK, Tied, NEW c \in Calls, CallMethod(c)
    PROVE  RpcTypeOK' /\ Tied'
<1> USE RpcAssumption DEF CallMethod
<1>1. RpcTypeOK'
    BY DEF RpcTypeOK
<1>2. ASSUME NEW d \in Calls, d # c
      PROVE  /\ calledBack'[d] = calledBack[d] /\ closings'[d] = closings[d]
             /\ pipe'[d] = pipe[d] /\ answering' = answering /\ raised' = raised
             /\ d \in asked' <=> d \in asked
             /\ d \in callback' <=> d \in callback
             /\ d \in client' <=> d \in client
             /\ d \in timeoutTimer' <=> d \in timeoutTimer
    BY <1>2 DEF RpcTypeOK
<1>3. ASSUME NEW d \in Calls, d # c
      PROVE  /\ closings'[d] = IF d \in asked' \ client' THEN 1 ELSE 0
             /\ d \in timeoutTimer' => d \in client'
             /\ pipe'[d] = "none" <=> d \notin asked'
             /\ d \in client' <=> pipe'[d] \in {"connecting", "open"}
             /\ calledBack'[d] = IF d \in asked' \ NoCallback /\ (d \notin callback' \/ answering' = d)
                                 THEN 1 ELSE 0
             /\ calledBack'[d] > 0 => d \notin client'
             /\ d \in callback' => d \in client' \/ answering' = d \/ raised'
    <2> HIDE DEF CallMethod
    <2> QED BY <1>2, <1>3 DEF Tied
<1>4. /\ c \in asked' /\ c \in client' /\ pipe'[c] = "connecting"
      /\ answering # c
      /\ calledBack'[c] = 0 /\ closings'[c] = 0
    BY DEF RpcTypeOK, Tied
<1>5. c \in callback' <=> c \notin NoCallback
    BY DEF RpcTypeOK
<1>6. answering' # c
    BY <1>4
<1>7. Tied'
    <2> HIDE DEF CallMethod
    <2> QED BY <1>3, <1>4, <1>5, <1>6 DEF Tied
<1> QED BY <1>1, <1>7

LEMMA ConnectedKeeps ==
    ASSUME RpcTypeOK, Tied, NEW c \in Calls, PipeConnected(c)
    PROVE  RpcTypeOK' /\ Tied'
<1> USE RpcAssumption DEF PipeConnected
<1>1. RpcTypeOK'
    BY DEF RpcTypeOK, Tied
<1>2. \A d \in Calls : pipe'[d] = IF d = c THEN "open" ELSE pipe[d]
    BY DEF RpcTypeOK
<1>3. \A d \in Calls : /\ pipe'[d] = "none" <=> pipe[d] = "none"
                       /\ pipe'[d] \in {"connecting", "open"} <=> pipe[d] \in {"connecting", "open"}
    BY <1>2
<1> QED BY <1>1, <1>3 DEF Tied

LEMMA ClosedKeeps ==
    ASSUME RpcTypeOK, Tied, NEW c \in Calls, PipeClosed(c)
    PROVE  RpcTypeOK' /\ Tied'
<1> USE RpcAssumption DEF PipeClosed
<1>1. RpcTypeOK'
    BY DEF RpcTypeOK
<1>2. \A d \in Calls : pipe'[d] = IF d = c THEN "closed" ELSE pipe[d]
    BY DEF RpcTypeOK
<1>3. \A d \in Calls : /\ pipe'[d] = "none" <=> pipe[d] = "none"
                       /\ pipe'[d] \in {"connecting", "open"} <=> pipe[d] \in {"connecting", "open"}
    BY <1>2
<1> QED BY <1>1, <1>3 DEF Tied

\* The answer to a connection that the timeout closed comes after the call ended:
\* its timer is off and its callback was called, so that nothing is left to do.
LEMMA CanceledKeeps ==
    ASSUME RpcTypeOK, Tied, ~raised, NEW c \in Calls, ConnectCanceled(c)
    PROVE  /\ RpcTypeOK' /\ Tied'
           /\ UNCHANGED <<timeoutTimer, answering, calledBack>>
<1> USE RpcAssumption DEF ConnectCanceled
<1>1. /\ c \notin client /\ c \in asked /\ answering = NoCall
      /\ c \notin timeoutTimer /\ c \notin callback
    BY DEF Tied
<1>2. UNCHANGED <<timeoutTimer, answering, calledBack>>
    BY <1>1 DEF Cleared, AnswerCall, MayAnswer
<1>3. RpcTypeOK'
    BY <1>2 DEF RpcTypeOK
<1>4. \A d \in Calls : pipe'[d] = IF d = c THEN "closing" ELSE pipe[d]
    BY DEF RpcTypeOK
<1>5. \A d \in Calls : /\ pipe'[d] = "none" <=> pipe[d] = "none"
                       /\ pipe'[d] \in {"connecting", "open"} <=> pipe[d] \in {"connecting", "open"}
    BY <1>4
<1>6. Tied'
    BY <1>2, <1>5 DEF Tied
<1> QED BY <1>2, <1>3, <1>6

LEMMA ReturnedKeeps ==
    ASSUME RpcTypeOK, Tied, Returned
    PROVE  RpcTypeOK' /\ Tied'
<1> USE RpcAssumption DEF Returned
<1>1. RpcTypeOK'
    BY DEF RpcTypeOK, Decremented
<1>2. answering \in callback /\ answering \in asked \ NoCallback /\ answering' \notin Calls
    BY DEF RpcTypeOK
<1>3. \A d \in Calls : (d \notin callback' \/ answering' = d) <=> (d \notin callback \/ answering = d)
    BY <1>2
<1>4. Tied'
    BY <1>3 DEF Tied
<1> QED BY <1>1, <1>4

\* The counter: a call with a callback stands for one in `callback' until its
\* callback returns, and a call without one stands for one for ever.
LEMMA CountKeeps ==
    ASSUME RpcTypeOK, Tied, InFlightExact, RpcNext
    PROVE  InFlightExact'
<1> USE RpcAssumption
<1> DEFINE Silent == asked \cap NoCallback
<1>1. IsFiniteSet(callback) /\ IsFiniteSet(Silent)
    BY FS_Subset DEF RpcTypeOK
<1>2. Cardinality(callback) \in Nat /\ Cardinality(Silent) \in Nat
    BY <1>1, FS_CardinalityType
<1>3. ASSUME NEW c \in Calls, CallMethod(c), c \in NoCallback
      PROVE  InFlightExact'
  <2>1. /\ inFlight' = inFlight + 1 /\ callback' = callback
        /\ Silent' = Silent \cup {c} /\ c \notin Silent
        BY <1>3 DEF CallMethod
  <2>2. Cardinality(Silent \cup {c}) = Cardinality(Silent) + 1
        BY <1>1, <2>1, FS_AddElement
  <2> QED BY <1>2, <2>1, <2>2 DEF InFlightExact, RpcTypeOK
<1>4. ASSUME NEW c \in Calls, CallMethod(c), c \notin NoCallback
      PROVE  InFlightExact'
  <2>1. /\ inFlight' = inFlight + 1 /\ callback' = callback \cup {c}
        /\ Silent' = Silent /\ c \notin callback
        BY <1>4 DEF CallMethod, RpcTypeOK
  <2>2. Cardinality(callback \cup {c}) = Cardinality(callback) + 1
        BY <1>1, <2>1, FS_AddElement
  <2> QED BY <1>2, <2>1, <2>2 DEF InFlightExact, RpcTypeOK
<1>5. ASSUME Returned
      PROVE  InFlightExact'
  <2>1. /\ inFlight' = inFlight - 1 /\ callback' = callback \ {answering}
        /\ Silent' = Silent /\ answering \in callback
        BY <1>5 DEF Returned, Decremented, RpcTypeOK
  <2>2. Cardinality(callback \ {answering}) = Cardinality(callback) - 1
        BY <1>1, <2>1, FS_RemoveElement
  <2>3. /\ Cardinality(callback') = Cardinality(callback) - 1
        /\ Cardinality(asked' \cap NoCallback) = Cardinality(asked \cap NoCallback)
        BY <2>1, <2>2
  <2>4. inFlight = Cardinality(callback) + Cardinality(asked \cap NoCallback)
        BY DEF InFlightExact
  <2>5. inFlight' = Cardinality(callback') + Cardinality(asked' \cap NoCallback)
        BY <1>2, <2>1, <2>3, <2>4
  <2> QED BY <2>5 DEF InFlightExact
<1>6. ASSUME UNCHANGED <<inFlight, asked, callback>>
      PROVE  InFlightExact'
    BY <1>6 DEF InFlightExact
<1>7. CASE Returned
    BY <1>5, <1>7
<1>8. CASE \E c \in Calls : CallMethod(c)
    BY <1>3, <1>4, <1>8
<1>9. CASE UNCHANGED <<inFlight, asked, callback>>
    BY <1>6, <1>9
<1> QED BY <1>7, <1>8, <1>9
        DEF RpcNext, TimeoutFires, NoServer, ReadEnds, EndCall, PipeConnected, PipeClosed,
            ConnectCanceled, BadReply

LEMMA RpcStep == RpcInv /\ [RpcNext]_rpcVars => RpcInv'
<1> SUFFICES ASSUME RpcTypeOK, Tied, InFlightExact, [RpcNext]_rpcVars
             PROVE  RpcInv'
    BY DEF RpcInv
<1>1. ASSUME NEW c \in Calls, CallMethod(c) PROVE RpcTypeOK' /\ Tied'
    BY <1>1, CallKeeps
<1>2. ASSUME NEW c \in Calls, TimeoutFires(c) PROVE RpcTypeOK' /\ Tied'
    BY <1>2, TimeoutKeeps
<1>3. ASSUME NEW c \in Calls, PipeConnected(c) PROVE RpcTypeOK' /\ Tied'
    BY <1>3, ConnectedKeeps
<1>4. ASSUME NEW c \in Calls, NoServer(c) PROVE RpcTypeOK' /\ Tied'
    BY <1>4, NoServerKeeps
<1>5. ASSUME NEW c \in Calls, ConnectCanceled(c), ~raised PROVE RpcTypeOK' /\ Tied'
    BY <1>5, CanceledKeeps
<1>6. ASSUME NEW c \in Calls, ReadEnds(c) PROVE RpcTypeOK' /\ Tied'
    BY <1>6, ReadEndsKeeps
<1>7. ASSUME NEW c \in Calls, PipeClosed(c) PROVE RpcTypeOK' /\ Tied'
    BY <1>7, ClosedKeeps
<1>8. ASSUME Returned PROVE RpcTypeOK' /\ Tied'
    BY <1>8, ReturnedKeeps
<1>9. ASSUME NEW c \in Calls, BadReply(c) PROVE RpcTypeOK' /\ Tied'
    BY <1>9, BadReplyKeeps
<1>10. CASE RpcNext
  <2>1. RpcTypeOK' /\ Tied'
        BY <1>1, <1>2, <1>3, <1>4, <1>5, <1>6, <1>7, <1>8, <1>9, <1>10 DEF RpcNext
  <2> QED BY <1>10, <2>1, CountKeeps DEF RpcInv
<1>11. CASE UNCHANGED rpcVars
  <2> USE <1>11 DEF rpcVars
  <2>1. RpcTypeOK'
        BY DEF RpcTypeOK
  <2>2. Tied'
        BY DEF Tied
  <2>3. InFlightExact'
        BY DEF InFlightExact
  <2> QED BY <2>1, <2>2, <2>3 DEF RpcInv
<1> QED BY <1>10, <1>11

LEMMA RpcAlways == RpcSpec => []RpcInv
BY Start, RpcStep, PTL DEF RpcSpec

\* Type correctness: the sets of calls stay inside each other.
THEOREM RpcTyped == RpcSpec => []RpcTypeOK
<1>1. RpcInv => RpcTypeOK
    BY DEF RpcInv
<1> QED BY <1>1, RpcAlways, PTL

LEMMA TiedIsClean == RpcTypeOK /\ Tied => CleanWhenAnswered
<1> SUFFICES ASSUME RpcTypeOK, Tied, NEW c \in Calls
             PROVE  /\ calledBack[c] > 0 => c \notin timeoutTimer /\ c \notin client /\ closings[c] = 1
                    /\ closings[c] <= 1
    BY DEF CleanWhenAnswered
<1>1. calledBack[c] > 0 => c \in asked /\ c \notin client
    BY DEF Tied
<1> QED BY <1>1 DEF Tied

\* rpc.lua, for any number of calls made at any time: the counter of calls under
\* way is exact, and a call that was answered holds no timer and no pipe.
THEOREM RpcIsSettled == RpcSpec => []RpcSettled
<1>1. RpcInv => RpcSettled
    BY TiedIsClean DEF RpcInv, RpcSettled
<1> QED BY <1>1, RpcAlways, PTL

-----------------------------------------------------------------------------
(* The calls implement OneAnswer. *)
LEMMA PromiseStarts == RpcInit => RpcPromise!Init
BY DEF RpcInit, RpcPromise!Init

LEMMA EndAnswers ==
    ASSUME RpcInv, answering = NoCall, NEW c \in Calls, AnswerCall(c), UNCHANGED asked
    PROVE  RpcPromise!Next \/ UNCHANGED RpcPromise!vars
<1>1. CASE c \in callback
  <2>1. /\ calledBack[c] = 0 /\ c \in asked \ NoCallback
        /\ calledBack' = [calledBack EXCEPT ![c] = @ + 1]
        BY <1>1, RpcAssumption DEF RpcInv, RpcTypeOK, Tied, AnswerCall, MayAnswer
  <2>2. calledBack'[c] = 1 /\ \A d \in Calls : d # c => calledBack'[d] = calledBack[d]
        BY <2>1 DEF RpcInv, RpcTypeOK
  <2>3. {d \in asked' \ NoCallback : calledBack'[d] = 0}
          = {d \in asked \ NoCallback : calledBack[d] = 0} \ {c}
        BY <2>1, <2>2 DEF RpcInv, RpcTypeOK
  <2>4. [d \in Calls \ NoCallback |-> calledBack'[d]]
          = [[d \in Calls \ NoCallback |-> calledBack[d]] EXCEPT ![c] = @ + 1]
    <3> DEFINE now == [d \in Calls \ NoCallback |-> calledBack[d]]
    <3>1. now[c] + 1 = calledBack'[c]
          BY <2>1, <2>2
    <3>2. \A d \in Calls \ NoCallback :
             calledBack'[d] = IF d = c THEN now[c] + 1 ELSE now[d]
          BY <2>2, <3>1
    <3> QED BY <3>2
  <2>5. RpcPromise!Answer(c)
        BY <2>1, <2>3, <2>4 DEF RpcPromise!Answer
  <2> QED BY <2>1, <2>5 DEF RpcPromise!Next
<1>2. CASE c \notin callback
    BY <1>2 DEF AnswerCall, MayAnswer, RpcPromise!vars
<1> QED BY <1>1, <1>2

LEMMA CallAsks ==
    ASSUME RpcInv, NEW c \in Calls, CallMethod(c)
    PROVE  RpcPromise!Next \/ UNCHANGED RpcPromise!vars
<1>1. /\ calledBack[c] = 0 /\ c \notin asked /\ asked' = asked \cup {c}
      /\ calledBack' = calledBack
    BY DEF RpcInv, Tied, CallMethod
<1>2. CASE c \in NoCallback
    BY <1>1, <1>2 DEF RpcPromise!vars
<1>3. CASE c \notin NoCallback
  <2>1. {d \in asked' \ NoCallback : calledBack'[d] = 0}
          = {d \in asked \ NoCallback : calledBack[d] = 0} \cup {c}
        BY <1>1, <1>3
  <2>2. RpcPromise!Ask(c)
        BY <1>1, <1>3, <2>1 DEF RpcPromise!Ask
  <2> QED BY <1>3, <2>2 DEF RpcPromise!Next
<1> QED BY <1>2, <1>3

\* Whatever ends a call, the answer is given once: the calls implement the
\* safety part of OneAnswer.
THEOREM RpcAnswers == RpcSpec => RpcPromise!Spec
<1>1. RpcInv /\ [RpcNext]_rpcVars => [RpcPromise!Next]_(RpcPromise!vars)
  <2> SUFFICES ASSUME RpcInv, [RpcNext]_rpcVars
               PROVE  RpcPromise!Next \/ UNCHANGED RpcPromise!vars
      OBVIOUS
  <2>1. ASSUME NEW c \in Calls, CallMethod(c)
        PROVE  RpcPromise!Next \/ UNCHANGED RpcPromise!vars
        BY <2>1, CallAsks
  <2>2. ASSUME NEW c \in Calls, TimeoutFires(c) \/ NoServer(c) \/ ReadEnds(c) \/ ConnectCanceled(c)
        PROVE  RpcPromise!Next \/ UNCHANGED RpcPromise!vars
        BY <2>2, EndAnswers DEF TimeoutFires, NoServer, ReadEnds, ConnectCanceled, EndCall
  <2>3. CASE UNCHANGED <<asked, calledBack>>
        BY <2>3 DEF RpcPromise!vars
  <2> QED BY <2>1, <2>2, <2>3 DEF RpcNext, rpcVars, PipeConnected, PipeClosed, Returned, BadReply
<1> QED BY <1>1, PromiseStarts, RpcAlways, PTL DEF RpcSpec, RpcPromise!Spec

-----------------------------------------------------------------------------
(* ExecProcess *)

Child ==
    [closesGot : Int, counting : SUBSET Stdio, closes : Int, closeOnce : BOOLEAN,
     called : Int, exited : BOOLEAN, timer : BOOLEAN, killed : BOOLEAN,
     signal : BOOLEAN, results : Seq({"success", "error"})]

\* What is left to come: the exit, when `left' is 1, and the pipes.
Left(c, left) ==
    left + (IF "stdin" \in c.counting THEN 1 ELSE 0)
         + (IF "stdout" \in c.counting THEN 1 ELSE 0)
         + (IF "stderr" \in c.counting THEN 1 ELSE 0)

\* The callback is called when both events came, or by a kill; with success only
\* by a 'close' that comes with the code 0 after the exit (`good') and the end of
\* stdout (`ended').
Answering(c, good, ended) ==
    /\ c.closes \in Nat
    /\ c.closes = 0 <=> c.closeOnce
    /\ ~c.exited => /\ c.called \in {1, 2} /\ c.results = <<>>
                    /\ ~c.closeOnce => c.called = 1
                    /\ c.closeOnce /\ c.called = 1 => ended
    /\ c.exited => /\ c.called = 0
                   /\ \/ c.results = <<"error">>
                      \/ c.results = <<"success">> /\ good /\ ended

\* 'close' of a child that was not killed.
ClosesOnce(c) == c.closes = IF c.closesGot = 0 THEN 1 ELSE 0

-----------------------------------------------------------------------------
(* The handlers. *)
CountsDown(c, n, d) == d = [c EXCEPT !.timer = FALSE, !.called = n]
CallsBack(c, r, d) == d = [c EXCEPT !.exited = TRUE, !.results = r]

LEMMA CountedDown ==
    ASSUME NEW c \in Child, NEW n \in Int, NEW d, CountsDown(c, n, d)
    PROVE  /\ d \in Child
           /\ d.closesGot = c.closesGot /\ d.counting = c.counting /\ d.closes = c.closes
           /\ d.closeOnce = c.closeOnce /\ d.killed = c.killed
           /\ d.called = n /\ d.exited = c.exited /\ d.results = c.results
<1>1. d \in Child
    BY DEF Child, CountsDown
<1>2. /\ d.closesGot = c.closesGot /\ d.counting = c.counting /\ d.closes = c.closes
      /\ d.called = n /\ d.results = c.results
    BY DEF Child, CountsDown
<1>3. d.closeOnce = c.closeOnce /\ d.killed = c.killed /\ d.exited = c.exited
    BY DEF Child, CountsDown
<1> QED BY <1>1, <1>2, <1>3

LEMMA CalledBack ==
    ASSUME NEW c \in Child, NEW r \in Seq({"success", "error"}), NEW d, CallsBack(c, r, d)
    PROVE  /\ d \in Child
           /\ d.closesGot = c.closesGot /\ d.counting = c.counting /\ d.closes = c.closes
           /\ d.closeOnce = c.closeOnce /\ d.killed = c.killed
           /\ d.called = c.called /\ d.exited /\ d.results = r
<1>1. d \in Child
    BY DEF Child, CallsBack
<1>2. /\ d.closesGot = c.closesGot /\ d.counting = c.counting /\ d.closes = c.closes
      /\ d.called = c.called /\ d.results = r
    BY DEF Child, CallsBack
<1>3. d.closeOnce = c.closeOnce /\ d.killed = c.killed /\ d.exited
    BY DEF Child, CallsBack
<1> QED BY <1>1, <1>2, <1>3

Answer(status) == IF status = 0 THEN "success" ELSE "error"

\* What ExitHandler makes of c.
AfterExit(c, status, d) ==
    /\ d \in Child
    /\ d.closesGot = c.closesGot /\ d.counting = c.counting /\ d.closes = c.closes
    /\ d.closeOnce = c.closeOnce /\ d.killed = c.killed
    /\ \/ c.exited /\ d.exited /\ d.called = c.called /\ d.results = c.results
       \/ /\ ~c.exited /\ c.called > 1
          /\ ~d.exited /\ d.called = c.called - 1 /\ d.results = c.results
       \/ /\ ~c.exited /\ c.called <= 1
          /\ d.exited /\ d.called = c.called - 1
          /\ d.results = Append(c.results, Answer(status))

LEMMA ExitHandlerFields ==
    ASSUME NEW c \in Child, NEW status \in Int
    PROVE  AfterExit(c, status, ExitHandler(c, status))
<1> DEFINE d == ExitHandler(c, status)
<1> SUFFICES AfterExit(c, status, d)
    OBVIOUS
<1> USE DEF AfterExit
<1>0. c.called \in Int /\ c.called - 1 \in Int
    BY DEF Child
<1>1. CASE c.exited
  <2>1. d = [c EXCEPT !.timer = FALSE, !.called = c.called]
        BY <1>1 DEF ExitHandler, Done
  <2> DEFINE n == c.called
  <2>2. n \in Int /\ CountsDown(c, n, d)
        BY <1>0, <2>1 DEF CountsDown
  <2> HIDE DEF n
  <2>3. /\ d \in Child
        /\ d.closesGot = c.closesGot /\ d.counting = c.counting /\ d.closes = c.closes
        /\ d.closeOnce = c.closeOnce /\ d.killed = c.killed
        /\ d.called = n /\ d.exited = c.exited /\ d.results = c.results
        BY <2>2, CountedDown
  <2> QED BY <1>1, <2>3 DEF n
<1>2. CASE ~c.exited
  <2> DEFINE e == [c EXCEPT !.timer = FALSE, !.called = c.called - 1]
  <2>1. /\ e \in Child
        /\ e.closesGot = c.closesGot /\ e.counting = c.counting /\ e.closes = c.closes
        /\ e.closeOnce = c.closeOnce /\ e.killed = c.killed
        /\ e.called = c.called - 1 /\ e.exited = c.exited /\ e.results = c.results
    <3> DEFINE n == c.called - 1
    <3>1. n \in Int /\ CountsDown(c, n, e)
          BY <1>0 DEF CountsDown
    <3> HIDE DEF n, e
    <3>2. /\ e \in Child
          /\ e.closesGot = c.closesGot /\ e.counting = c.counting /\ e.closes = c.closes
          /\ e.closeOnce = c.closeOnce /\ e.killed = c.killed
          /\ e.called = n /\ e.exited = c.exited /\ e.results = c.results
          BY <3>1, CountedDown
    <3> QED BY <3>2 DEF n
  <2>2. d = IF e.called > 0 THEN e
            ELSE [e EXCEPT !.exited = TRUE, !.results = Append(@, Answer(status))]
        BY <1>2 DEF ExitHandler, Done, Answer
  <2> HIDE DEF e
  <2>3. CASE c.called > 1
    <3>1. d = e
          BY <1>0, <2>1, <2>2, <2>3
    <3> QED BY <1>2, <2>1, <2>3, <3>1
  <2>4. CASE c.called <= 1
    <3> DEFINE r == Append(e.results, Answer(status))
    <3>1. CallsBack(e, r, d)
          BY <1>0, <2>1, <2>2, <2>4 DEF CallsBack
    <3>2. r \in Seq({"success", "error"})
      <4>1. e.results \in Seq({"success", "error"}) /\ Answer(status) \in {"success", "error"}
            BY <2>1 DEF Child, Answer
      <4> QED BY <4>1, AppendProperties
    <3>3. /\ d \in Child
          /\ d.closesGot = e.closesGot /\ d.counting = e.counting /\ d.closes = e.closes
          /\ d.closeOnce = e.closeOnce /\ d.killed = e.killed
          /\ d.called = e.called /\ d.exited /\ d.results = r
      <4> HIDE DEF r
      <4> QED BY <2>1, <3>1, <3>2, CalledBack
    <3> QED BY <1>2, <2>1, <2>4, <3>3
  <2> QED BY <1>0, <2>3, <2>4
<1> QED BY <1>1, <1>2

LEMMA AnswerOnEmpty ==
    /\ Append(<<>>, "error") = <<"error">> /\ Append(<<>>, "success") = <<"success">>
    /\ <<>> # <<"error">> /\ <<>> # <<"success">>
OBVIOUS

\* The end of stdout, and a kill.
LEMMA HandlerAnswers ==
    ASSUME NEW c \in Child, NEW status \in Int, NEW d, AfterExit(c, status, d),
           NEW good \in BOOLEAN, NEW ended \in BOOLEAN, Answering(c, good, ended),
           status # 0, c.closeOnce => ended
    PROVE  Answering(d, good, ended) /\ (~c.closeOnce => d.exited)
<1>1. /\ d \in Child
      /\ d.closesGot = c.closesGot /\ d.counting = c.counting /\ d.closes = c.closes
      /\ d.closeOnce = c.closeOnce /\ d.killed = c.killed
      /\ \/ c.exited /\ d.exited /\ d.called = c.called /\ d.results = c.results
         \/ /\ ~c.exited /\ c.called > 1
            /\ ~d.exited /\ d.called = c.called - 1 /\ d.results = c.results
         \/ /\ ~c.exited /\ c.called <= 1
            /\ d.exited /\ d.called = c.called - 1
            /\ d.results = Append(c.results, Answer(status))
    BY DEF AfterExit
<1>2. Answer(status) = "error"
    BY DEF Answer
<1>3. CASE c.exited /\ d.exited /\ d.called = c.called /\ d.results = c.results
    BY <1>1, <1>3 DEF Answering
<1>4. CASE /\ ~c.exited /\ c.called > 1
           /\ ~d.exited /\ d.called = c.called - 1 /\ d.results = c.results
    BY <1>1, <1>4 DEF Answering
<1>5. CASE /\ ~c.exited /\ c.called <= 1
           /\ d.exited /\ d.called = c.called - 1
           /\ d.results = Append(c.results, Answer(status))
  <2>1. c.called = 1 /\ c.results = <<>>
        BY <1>5 DEF Answering
  <2>2. d.called = 0 /\ d.results = <<"error">>
        BY <1>2, <1>5, <2>1, AnswerOnEmpty
  <2> QED BY <1>1, <1>5, <2>2 DEF Answering
<1> QED BY <1>1, <1>3, <1>4, <1>5

\* An answer is not taken back.
Follows(c, d) == c.exited => d.exited /\ d.results = c.results

\* 'close' of the child: the record before exec's listener runs.
Closed(c, e) ==
    /\ e \in Child
    /\ e.closesGot = c.closesGot /\ e.counting = c.counting /\ e.killed = c.killed
    /\ e.closes = c.closes + 1 /\ ~e.closeOnce
    /\ e.called = c.called /\ e.exited = c.exited /\ e.results = c.results

LEMMA ChildCloseFields ==
    ASSUME NEW c \in Child, NEW status \in Int
    PROVE  \E e : /\ Closed(c, e)
                  /\ c.closeOnce => AfterExit(e, status, ChildClose(c, status))
                  /\ ~c.closeOnce => ChildClose(c, status) = e
<1> DEFINE n == c.closes + 1
           f == [c EXCEPT !.closes = n]
           e == [f EXCEPT !.closeOnce = FALSE]
<1>1. n \in Int
    BY DEF Child
<1>2. ChildClose(c, status) = IF f.closeOnce THEN ExitHandler(e, status) ELSE f
    BY DEF ChildClose
<1>3. /\ f \in Child
      /\ f.closesGot = c.closesGot /\ f.counting = c.counting
      /\ f.closes = n /\ f.called = c.called /\ f.results = c.results
  <2> HIDE DEF n
  <2> QED BY <1>1 DEF Child
<1>4. f.killed = c.killed /\ f.closeOnce = c.closeOnce /\ f.exited = c.exited
  <2> HIDE DEF n
  <2> QED BY <1>1 DEF Child
<1> HIDE DEF f
<1>5. /\ e \in Child
      /\ e.closesGot = f.closesGot /\ e.counting = f.counting
      /\ e.closes = f.closes /\ e.called = f.called /\ e.results = f.results
    BY <1>3 DEF Child
<1>6. e.killed = f.killed /\ ~e.closeOnce /\ e.exited = f.exited
    BY <1>3 DEF Child
<1> HIDE DEF e
<1>7. Closed(c, e)
    BY <1>3, <1>4, <1>5, <1>6 DEF Closed, n
<1>8. CASE c.closeOnce
  <2>1. ChildClose(c, status) = ExitHandler(e, status)
        BY <1>2, <1>4, <1>8
  <2> QED BY <1>5, <1>7, <1>8, <2>1, ExitHandlerFields
<1>9. CASE ~c.closeOnce
  <2>1. ChildClose(c, status) = f
        BY <1>2, <1>4, <1>9
  <2>2. Closed(c, f)
        BY <1>3, <1>4, <1>9 DEF Closed, n
  <2> QED BY <1>9, <2>1, <2>2
<1> QED BY <1>8, <1>9

\* What 'close' makes of c.
AfterClose(c, good, ended, d) ==
    /\ d \in Child /\ Answering(d, good, ended)
    /\ d.closesGot = c.closesGot /\ d.counting = c.counting /\ d.killed = c.killed
    /\ d.closes = c.closes + 1 /\ ~d.closeOnce
    /\ Follows(c, d)

LEMMA ChildCloseKeeps ==
    ASSUME NEW c \in Child, NEW status \in Int, NEW good \in BOOLEAN, NEW ended \in BOOLEAN,
           Answering(c, good, ended), status = 0 /\ ~c.exited => good
    PROVE  AfterClose(c, good, ended, ChildClose(c, status))
<1> DEFINE d == ChildClose(c, status)
<1>1. PICK e : /\ Closed(c, e)
               /\ c.closeOnce => AfterExit(e, status, d)
               /\ ~c.closeOnce => d = e
    BY ChildCloseFields
<1> HIDE DEF d
<1>2. c.closes \in Nat /\ c.closes + 1 \in Nat /\ c.closes + 1 # 0
    BY DEF Answering
<1>3. CASE ~c.closeOnce
    BY <1>1, <1>2, <1>3 DEF Closed, Answering, AfterClose, Follows, d
<1>4. CASE c.closeOnce /\ c.exited
  <2>1. /\ d \in Child
        /\ d.closesGot = c.closesGot /\ d.counting = c.counting /\ d.killed = c.killed
        /\ d.closes = c.closes + 1 /\ ~d.closeOnce
        /\ d.exited /\ d.called = c.called /\ d.results = c.results
        BY <1>1, <1>4 DEF AfterExit, Closed
  <2> QED BY <1>2, <1>4, <2>1 DEF Answering, AfterClose, Follows, d
<1>5. CASE c.closeOnce /\ ~c.exited /\ c.called = 2
  <2>1. /\ d \in Child
        /\ d.closesGot = c.closesGot /\ d.counting = c.counting /\ d.killed = c.killed
        /\ d.closes = c.closes + 1 /\ ~d.closeOnce
        /\ ~d.exited /\ d.called = 1 /\ d.results = c.results
        BY <1>1, <1>5 DEF AfterExit, Closed
  <2> QED BY <1>2, <1>5, <2>1 DEF Answering, AfterClose, Follows, d
<1>6. CASE c.closeOnce /\ ~c.exited /\ c.called = 1
  <2>1. /\ d \in Child
        /\ d.closesGot = c.closesGot /\ d.counting = c.counting /\ d.killed = c.killed
        /\ d.closes = c.closes + 1 /\ ~d.closeOnce
        /\ d.exited /\ d.called = 0 /\ d.results = Append(c.results, Answer(status))
        BY <1>1, <1>6 DEF AfterExit, Closed
  <2>2. ended /\ c.results = <<>>
        BY <1>6 DEF Answering
  <2>3. d.results = <<"error">> \/ (d.results = <<"success">> /\ good)
    <3>1. CASE status = 0
          BY <1>6, <2>1, <2>2, <3>1, AnswerOnEmpty DEF Answer
    <3>2. CASE status # 0
          BY <2>1, <2>2, <3>2, AnswerOnEmpty DEF Answer
    <3> QED BY <3>1, <3>2
  <2> QED BY <1>2, <1>6, <2>1, <2>2, <2>3 DEF Answering, AfterClose, Follows, d
<1> QED BY <1>3, <1>4, <1>5, <1>6 DEF Answering

\* One of the things that 'close' waits for has come; `more' are left.
AfterMaybe(c, more, good, ended, d) ==
    /\ d \in Child /\ Answering(d, good, ended)
    /\ d.closesGot = more /\ d.counting = c.counting /\ d.killed = c.killed
    /\ Follows(c, d)
    /\ ClosesOnce(c) /\ c.closesGot > 0 => ClosesOnce(d)

LEMMA MaybeCloseKeeps ==
    ASSUME NEW c \in Child, NEW more \in Nat, more = c.closesGot - 1,
           NEW good \in BOOLEAN, NEW ended \in BOOLEAN,
           Answering(c, good, ended), more = 0 /\ code = 0 /\ ~c.exited => good, code \in Int
    PROVE  AfterMaybe(c, more, good, ended, MaybeClose(c))
<1> DEFINE e == [c EXCEPT !.closesGot = more]
<1>1. MaybeClose(c) = IF e.closesGot = 0 THEN ChildClose(e, code) ELSE e
    BY DEF MaybeClose, IsLast
<1>2. /\ e \in Child
      /\ e.closesGot = more /\ e.counting = c.counting
      /\ e.closes = c.closes /\ e.called = c.called /\ e.results = c.results
    BY DEF Child
<1>3. e.killed = c.killed /\ e.closeOnce = c.closeOnce /\ e.exited = c.exited
    BY DEF Child
<1> HIDE DEF e
<1>4. Answering(e, good, ended)
    BY <1>2, <1>3 DEF Answering
<1>5. ClosesOnce(c) /\ c.closesGot > 0 => c.closes = 0
    BY DEF ClosesOnce, Child
<1>6. CASE more = 0
  <2>1. MaybeClose(c) = ChildClose(e, code)
        BY <1>1, <1>2, <1>6
  <2>2. AfterClose(e, good, ended, ChildClose(e, code))
        BY <1>2, <1>3, <1>4, <1>6, ChildCloseKeeps
  <2>3. ClosesOnce(c) /\ c.closesGot > 0 => ClosesOnce(ChildClose(e, code))
    <3>1. ClosesOnce(c) /\ c.closesGot > 0 => ChildClose(e, code).closes = 1
          BY <1>2, <1>5, <2>2 DEF AfterClose
    <3>2. ChildClose(e, code).closesGot = 0
          BY <1>2, <1>6, <2>2 DEF AfterClose
    <3> QED BY <3>1, <3>2 DEF ClosesOnce
  <2> QED BY <1>2, <1>3, <1>6, <2>1, <2>2, <2>3 DEF AfterClose, AfterMaybe, Follows
<1>7. CASE more # 0
  <2>1. MaybeClose(c) = e
        BY <1>1, <1>2, <1>7
  <2>2. ClosesOnce(c) /\ c.closesGot > 0 => ClosesOnce(e)
        BY <1>2, <1>5, <1>7 DEF ClosesOnce
  <2> QED BY <1>2, <1>3, <1>4, <2>1, <2>2 DEF AfterMaybe, Follows
<1> QED BY <1>6, <1>7

\* A socket is closed, or said to be by a kill.
AfterSocket(c, s, left, good, ended, d) ==
    /\ d \in Child /\ Answering(d, good, ended)
    /\ d.closesGot = Left(d, left) /\ d.counting = c.counting \ {s} /\ d.killed = c.killed
    /\ Follows(c, d)
    /\ ClosesOnce(c) => ClosesOnce(d)

LEMMA SocketCloseKeeps ==
    ASSUME NEW c \in Child, NEW s \in Stdio, NEW left \in {0, 1},
           NEW good \in BOOLEAN, NEW ended \in BOOLEAN,
           Answering(c, good, ended), c.closesGot = Left(c, left),
           left = 0 /\ code = 0 => good, code \in Int
    PROVE  AfterSocket(c, s, left, good, ended, SocketClose(c, s))
<1>1. CASE s \notin c.counting
  <2>1. SocketClose(c, s) = c /\ c.counting = c.counting \ {s}
        BY <1>1 DEF SocketClose
  <2> QED BY <2>1 DEF AfterSocket, Follows
<1>2. CASE s \in c.counting
  <2> DEFINE rest == c.counting \ {s}
             e == [c EXCEPT !.counting = rest]
             more == c.closesGot - 1
  <2>1. SocketClose(c, s) = MaybeClose(e)
        BY <1>2 DEF SocketClose, Counted
  <2>2. rest \in SUBSET Stdio /\ c.counting \in SUBSET Stdio
        BY DEF Child
  <2>3. /\ e \in Child
        /\ e.closesGot = c.closesGot /\ e.counting = rest
        /\ e.closes = c.closes /\ e.called = c.called /\ e.results = c.results
        BY <2>2 DEF Child
  <2>4. e.killed = c.killed /\ e.closeOnce = c.closeOnce /\ e.exited = c.exited
        BY <2>2 DEF Child
  <2> HIDE DEF e
  <2>5. Answering(e, good, ended)
        BY <2>3, <2>4 DEF Answering
  <2>6. more = Left(e, left) /\ more \in Nat /\ c.closesGot > 0
    <3>1. s \in {"stdin", "stdout", "stderr"}
          BY DEF Stdio, Outputs
    <3>2. \A t \in {"stdin", "stdout", "stderr"} :
             t \in e.counting <=> t \in c.counting /\ t # s
          BY <2>3
    <3> QED BY <1>2, <3>1, <3>2 DEF Left
  <2>7. more = 0 => left = 0
        BY <2>6 DEF Left
  <2>8. more = e.closesGot - 1
        BY <2>3
  <2> HIDE DEF more
  <2>9. AfterMaybe(e, more, good, ended, MaybeClose(e))
        BY <2>3, <2>5, <2>6, <2>7, <2>8, MaybeCloseKeeps
  <2>10. ClosesOnce(c) => ClosesOnce(e)
        BY <2>3 DEF ClosesOnce
  <2>11. Left(MaybeClose(e), left) = Left(e, left)
        BY <2>9 DEF AfterMaybe, Left
  <2> QED BY <2>1, <2>3, <2>4, <2>6, <2>9, <2>10, <2>11 DEF AfterMaybe, AfterSocket, Follows
<1> QED BY <1>1, <1>2

\* A kill: whatever came before, the callback has been called.
LEMMA KillKeeps ==
    ASSUME NEW c \in Child, NEW left \in {0, 1},
           NEW good \in BOOLEAN, NEW ended \in BOOLEAN,
           Answering(c, good, ended), c.closesGot = Left(c, left),
           left = 0 /\ code = 0 => good, code \in Int
    PROVE  /\ KillChild(c) \in Child /\ Answering(KillChild(c), good, ended)
           /\ KillChild(c).closesGot = Left(KillChild(c), left)
           /\ KillChild(c).killed /\ KillChild(c).exited
           /\ Follows(c, KillChild(c))
<1> DEFINE c1 == SocketClose(c, "stdout")
           c2 == SocketClose(c1, "stderr")
           c3 == ChildClose(c2, 1)
           c4 == [c3 EXCEPT !.killed = TRUE]
           d  == ExitHandler(c4, 1)
<1>1. KillChild(c) = d
    BY DEF KillChild
<1>2. AfterSocket(c, "stdout", left, good, ended, c1)
    BY SocketCloseKeeps DEF Stdio, Outputs
<1> HIDE DEF c1
<1>3. AfterSocket(c1, "stderr", left, good, ended, c2)
    BY <1>2, SocketCloseKeeps DEF Stdio, Outputs, AfterSocket
<1> HIDE DEF c2
<1>4. AfterClose(c2, good, ended, c3)
    BY <1>3, ChildCloseKeeps DEF AfterSocket
<1> HIDE DEF c3
<1>5. /\ c4 \in Child
      /\ c4.closesGot = c3.closesGot /\ c4.counting = c3.counting
      /\ c4.closes = c3.closes /\ c4.called = c3.called /\ c4.results = c3.results
    BY <1>4 DEF Child, AfterClose
<1>6. c4.killed /\ c4.closeOnce = c3.closeOnce /\ c4.exited = c3.exited
    BY <1>4 DEF Child, AfterClose
<1> HIDE DEF c4
<1>7. Answering(c4, good, ended) /\ ~c4.closeOnce
    BY <1>4, <1>5, <1>6 DEF AfterClose, Answering
<1>8. AfterExit(c4, 1, d)
    BY <1>5, ExitHandlerFields
<1> HIDE DEF d
<1>9. Answering(d, good, ended) /\ d.exited
    BY <1>5, <1>7, <1>8, HandlerAnswers DEF AfterExit
<1>10. d \in Child /\ d.killed /\ d.closesGot = c2.closesGot /\ d.counting = c2.counting
    BY <1>4, <1>5, <1>6, <1>8 DEF AfterExit, AfterClose
<1>11. d.closesGot = Left(d, left)
    BY <1>3, <1>10 DEF AfterSocket, Left
<1>12. Follows(c, d)
    BY <1>2, <1>3, <1>4, <1>5, <1>6, <1>8 DEF AfterSocket, AfterClose, AfterExit, Follows
<1> QED BY <1>1, <1>9, <1>10, <1>11, <1>12

-----------------------------------------------------------------------------
(* The inductive invariant. *)
Kinds == Outputs \cup {"cleanup", "failed"}

Typed ==
    /\ command \in {"none", "running", "exited", "reaped", "failed"}
    /\ code \in {0, 1, Failed}
    /\ writers \in [Outputs -> SUBSET {"command", "other"}]
    /\ unread \in [Outputs -> 0 .. MaxOutput] /\ length \in [Outputs -> 0 .. MaxOutput]
    /\ \A s \in Outputs : length[s] + unread[s] <= MaxOutput
    /\ stdio \in [Stdio -> {"open", "ended", "closing", "closed"}]
    /\ immediates \in Seq(Kinds)

\* A stream that is about to emit 'end' has ended.
Queued ==
    \A k \in DOMAIN immediates :
       /\ immediates[k] \in Outputs => stdio[immediates[k]] # "open" /\ AtEnd(immediates[k])
       /\ immediates[k] = "failed" => command = "failed" /\ code # Failed

\* Nothing happens before the spawn, and nothing but one immediate after one that
\* failed.
Untouched ==
    /\ command = "none" \/ (command = "failed" /\ code # Failed) =>
          /\ \A s \in Stdio : stdio[s] = "open"
          /\ \A s \in Outputs : unread[s] = 0
          /\ immediates = IF command = "none" THEN <<>> ELSE <<"failed">>
    /\ command = "none" => ~child.exited /\ \A s \in Outputs : writers[s] # {}
    /\ code = Failed => command = "failed"

\* The exit was reported to the counter; with the code 0.
Reported == command = "reaped" \/ (command = "failed" /\ code = Failed)
ExitsLeft == IF Reported THEN 0 ELSE 1
Good == command = "reaped" /\ code = 0
StdoutEnded == stdio["stdout"] # "open" /\ AtEnd("stdout")

Reports ==
    /\ child \in Child
    /\ child.closesGot = Left(child, ExitsLeft)
    /\ Answering(child, Good, StdoutEnded)
    /\ child.killed => child.exited
    /\ ~child.killed => /\ ClosesOnce(child)
                        /\ child.counting = {s \in Stdio : stdio[s] # "closed"}

ExecInv == Typed /\ Queued /\ Untouched /\ Reports

LEMMA EndingTypes ==
    \A ending \in Endings : ending.code \in {0, 1} /\ ending.signal \in BOOLEAN
<1>1. ASSUME NEW ending \in Endings
      PROVE  ending.code \in {0, 1}
    BY DEF Endings
<1>2. ASSUME NEW ending \in Endings
      PROVE  ending.signal \in BOOLEAN
  <2>1. \/ ending = [code |-> 0, signal |-> FALSE]
        \/ ending = [code |-> 1, signal |-> FALSE]
        \/ ending = [code |-> 0, signal |-> TRUE]
        BY DEF Endings
  <2>2. ending.signal = FALSE \/ ending.signal = TRUE
        BY <2>1
  <2> QED BY <2>2, Zenon
<1> QED BY <1>1, <1>2

LEMMA ExecStart == ExecInit => ExecInv
<1> SUFFICES ASSUME ExecInit PROVE ExecInv
    OBVIOUS
<1>1. Typed
  <2>1. code \in {0, 1}
        BY EndingTypes DEF ExecInit
  <2> QED BY <2>1, ExecAssumption DEF ExecInit, Typed
<1>2. Queued
    BY DEF ExecInit, Queued
<1>3. /\ command = "none" /\ code \in {0, 1} /\ immediates = <<>>
      /\ \A s \in Stdio : stdio[s] = "open"
      /\ \A s \in Outputs : writers[s] # {} /\ unread[s] = 0
    BY EndingTypes DEF ExecInit
<1>4. PICK timed \in BOOLEAN, ending \in Endings :
         /\ code = ending.code
         /\ child = [closesGot |-> 4, counting |-> Stdio, closes |-> 0,
                     closeOnce |-> TRUE, called |-> Awaited, exited |-> FALSE,
                     timer |-> timed, killed |-> FALSE, signal |-> ending.signal,
                     results |-> <<>>]
    BY DEF ExecInit
<1>5. /\ child \in Child
      /\ child.closesGot = 4 /\ child.counting = Stdio /\ child.closes = 0
      /\ child.called = 2 /\ child.results = <<>>
    BY <1>4, EndingTypes DEF Child, Awaited
<1>6. child.closeOnce /\ ~child.exited /\ ~child.killed
    BY <1>4
<1>7. Untouched
    BY <1>3, <1>6 DEF Untouched, Failed
<1>8. child.closesGot = Left(child, ExitsLeft)
    BY <1>3, <1>5 DEF Left, ExitsLeft, Reported, Stdio, Outputs
<1>9. Answering(child, Good, StdoutEnded)
    BY <1>5, <1>6 DEF Answering
<1>10. ClosesOnce(child) /\ child.counting = {s \in Stdio : stdio[s] # "closed"}
    BY <1>3, <1>5 DEF ClosesOnce
<1> QED BY <1>1, <1>2, <1>5, <1>6, <1>7, <1>8, <1>9, <1>10 DEF ExecInv, Reports

LEMMA AnsweringStays ==
    ASSUME NEW c, NEW good \in BOOLEAN, NEW ended \in BOOLEAN,
           NEW good2 \in BOOLEAN, NEW ended2 \in BOOLEAN,
           Answering(c, good, ended), good => good2, ended => ended2
    PROVE  Answering(c, good2, ended2)
BY DEF Answering

LEMMA Flags ==
    Good \in BOOLEAN /\ StdoutEnded \in BOOLEAN /\ ExitsLeft \in {0, 1}
BY DEF Good, StdoutEnded, ExitsLeft, AtEnd

LEMMA GoodWhenReported ==
    ASSUME Typed
    PROVE  code \in Int /\ (ExitsLeft = 0 /\ code = 0 => Good)
BY DEF Typed, ExitsLeft, Reported, Good, Failed

\* A stream that has ended, and a success that may be reported, stay so.
Stays ==
    /\ Good => Good'
    /\ \A s \in Outputs : stdio[s] # "open" /\ AtEnd(s) => stdio'[s] # "open" /\ AtEnd(s)'

\* An answered exec stays so.
AnswerKept == child.exited => child'.exited

\* The processes change nothing in the child, and the exit is not reported.
LEMMA SameChild ==
    ASSUME Reports, Stays, child' = child, Reported' <=> Reported,
           \A s \in Stdio : stdio'[s] = "closed" <=> stdio[s] = "closed"
    PROVE  Reports' /\ AnswerKept
<1>1. ExitsLeft' = ExitsLeft
    BY DEF ExitsLeft
<1>2. Left(child', ExitsLeft') = Left(child, ExitsLeft)
    BY <1>1
<1>3. Answering(child', Good', StdoutEnded')
  <2>1. StdoutEnded => StdoutEnded'
        BY DEF Stays, StdoutEnded, Outputs
  <2>2. Good' \in BOOLEAN /\ StdoutEnded' \in BOOLEAN
        BY DEF Good, StdoutEnded, AtEnd
  <2>3. Answering(child, Good, StdoutEnded)
        BY DEF Reports
  <2> QED BY <2>1, <2>2, <2>3, Flags, AnsweringStays DEF Stays
<1>4. ClosesOnce(child') <=> ClosesOnce(child)
    BY DEF ClosesOnce
<1>5. AnswerKept
    BY DEF AnswerKept
<1> QED BY <1>2, <1>3, <1>4, <1>5 DEF Reports

-----------------------------------------------------------------------------
(* Types, and what stays. *)
LEMMA DestroyedStdio ==
    ASSUME Typed, NEW X
    PROVE  /\ Destroyed(X) \in [Stdio -> {"open", "ended", "closing", "closed"}]
           /\ \A s \in Stdio : /\ stdio[s] # "open" => Destroyed(X)[s] # "open"
                               /\ Destroyed(X)[s] = "closed" <=> stdio[s] = "closed"
BY DEF Typed, Destroyed

LEMMA ClosesOutputs ==
    ASSUME Typed, NEW who, NEW X, Closes(who, X)
    PROVE  /\ writers' \in [Outputs -> SUBSET {"command", "other"}]
           /\ \A s \in Outputs : writers[s] = {} => writers'[s] = {}
BY DEF Typed, Closes

LEMMA FirstImmediate ==
    ASSUME Typed, Queued, immediates # <<>>
    PROVE  /\ Head(immediates) \in Kinds /\ Tail(immediates) \in Seq(Kinds)
           /\ Head(immediates) \in Outputs =>
                 stdio[Head(immediates)] # "open" /\ AtEnd(Head(immediates))
           /\ Head(immediates) = "failed" => command = "failed" /\ code # Failed
           /\ \A k \in DOMAIN Tail(immediates) :
                 \E j \in DOMAIN immediates : Tail(immediates)[k] = immediates[j]
<1>1. immediates \in Seq(Kinds)
    BY DEF Typed
<1>2. /\ Len(immediates) >= 1 /\ Head(immediates) = immediates[1]
      /\ Len(immediates) \in Nat /\ DOMAIN immediates = 1 .. Len(immediates)
      /\ Tail(immediates) \in Seq(Kinds) /\ Len(Tail(immediates)) = Len(immediates) - 1
      /\ \A k \in 1 .. Len(Tail(immediates)) : Tail(immediates)[k] = immediates[k + 1]
    BY <1>1, HeadTailProperties, LenProperties
<1>3. 1 \in DOMAIN immediates
    BY <1>2
<1>4. Head(immediates) \in Kinds
    BY <1>1, <1>2, <1>3, ElementOfSeq
<1>5. \A k \in DOMAIN Tail(immediates) : k + 1 \in DOMAIN immediates
    BY <1>2, LenProperties
<1>6. DOMAIN Tail(immediates) = 1 .. Len(Tail(immediates))
    BY <1>2, LenProperties
<1> QED BY <1>2, <1>3, <1>4, <1>5, <1>6 DEF Queued

LEMMA ImmediateCases ==
    ASSUME Typed, Queued, Immediate
    PROVE  \/ /\ Head(immediates) \in Outputs
              /\ StdioEnd(Head(immediates)) /\ immediates' = Tail(immediates)
           \/ /\ Head(immediates) = "cleanup"
              /\ Cleanup /\ immediates' = Tail(immediates)
           \/ /\ Head(immediates) = "failed"
              /\ code' = Failed /\ immediates' = Append(Tail(immediates), "cleanup")
              /\ child' = MaybeClose(child) /\ stdio' = stdio
BY DEF Immediate

LEMMA ExecTypes ==
    ASSUME Typed, Queued, [ExecNext]_execVars
    PROVE  Typed'
<1> USE ExecAssumption
<1>1. /\ command \in {"none", "running", "exited", "reaped", "failed"}
      /\ code \in {0, 1, Failed}
      /\ writers \in [Outputs -> SUBSET {"command", "other"}]
      /\ unread \in [Outputs -> 0 .. MaxOutput] /\ length \in [Outputs -> 0 .. MaxOutput]
      /\ \A s \in Outputs : length[s] + unread[s] <= MaxOutput
      /\ stdio \in [Stdio -> {"open", "ended", "closing", "closed"}]
      /\ immediates \in Seq(Kinds)
      /\ Outputs \subseteq Stdio /\ Outputs \subseteq Kinds /\ {"cleanup", "failed"} \subseteq Kinds
    BY DEF Typed, Stdio, Kinds
<1>2. \A x \in Kinds : Append(immediates, x) \in Seq(Kinds) /\ <<x>> \in Seq(Kinds)
    BY <1>1, AppendProperties
<1>3. CASE UNCHANGED execVars
    BY <1>1, <1>3 DEF Typed, execVars
<1>4. CASE Spawn \/ SpawnFails
    BY <1>1, <1>2, <1>4 DEF Typed, Spawn, SpawnFails
<1>5. CASE Exits \/ \E outputs \in SUBSET Outputs, who \in {"command", "other"} :
                       CloseOutput(who, outputs)
  <2>1. PICK who, outputs : Closes(who, outputs)
        BY <1>5 DEF Exits, CloseOutput
  <2>2. writers' \in [Outputs -> SUBSET {"command", "other"}]
        BY <2>1, ClosesOutputs
  <2> QED BY <1>1, <1>5, <2>2 DEF Typed, Exits, CloseOutput
<1>6. ASSUME NEW s \in Outputs, Writes(s)
      PROVE  Typed'
  <2>1. unread[s] \in Nat /\ length[s] \in Nat /\ length[s] + unread[s] < MaxOutput
        BY <1>1, <1>6 DEF Writes
  <2>2. unread' = [unread EXCEPT ![s] = @ + 1] /\ unread[s] + 1 \in 0 .. MaxOutput
        BY <1>6, <2>1 DEF Writes
  <2>3. unread' \in [Outputs -> 0 .. MaxOutput]
        BY <1>1, <2>2
  <2>4. \A t \in Outputs : length[t] + unread'[t] <= MaxOutput
        BY <1>1, <2>1, <2>2
  <2> QED BY <1>1, <1>6, <2>3, <2>4 DEF Typed, Writes
<1>7. ASSUME NEW s \in Outputs, Read(s)
      PROVE  Typed'
  <2>1. /\ unread[s] \in Nat /\ length[s] \in Nat /\ length[s] + unread[s] <= MaxOutput
        /\ unread[s] > 0
        BY <1>1, <1>7 DEF Read
  <2>2. /\ unread' = [unread EXCEPT ![s] = @ - 1] /\ unread[s] - 1 \in 0 .. MaxOutput
        /\ length' = [length EXCEPT ![s] = @ + 1] /\ length[s] + 1 \in 0 .. MaxOutput
        BY <1>7, <2>1 DEF Read
  <2>3. /\ unread' \in [Outputs -> 0 .. MaxOutput] /\ length' \in [Outputs -> 0 .. MaxOutput]
        BY <1>1, <2>2
  <2>4. \A t \in Outputs : length'[t] + unread'[t] <= MaxOutput
        BY <1>1, <2>1, <2>2
  <2> QED BY <1>1, <1>7, <2>3, <2>4 DEF Typed, Read
<1>8. ASSUME NEW s \in Outputs, StdioEOF(s)
      PROVE  Typed'
    BY <1>1, <1>2, <1>8 DEF Typed, StdioEOF
<1>9. CASE OnExit
    BY <1>1, <1>2, <1>9 DEF Typed, OnExit
<1>10. CASE Immediate
  <2>1. UNCHANGED <<command, writers, unread, length>> /\ immediates # <<>>
        BY <1>10 DEF Immediate
  <2>2. Tail(immediates) \in Seq(Kinds)
        BY <2>1, FirstImmediate
  <2>3. Append(Tail(immediates), "cleanup") \in Seq(Kinds)
        BY <1>1, <2>2, AppendProperties
  <2>4. immediates' \in Seq(Kinds)
        BY <1>10, <2>2, <2>3, ImmediateCases
  <2>5. stdio' \in [Stdio -> {"open", "ended", "closing", "closed"}] /\ code' \in {code, Failed}
    <3>1. (\E X : stdio' = Destroyed(X)) \/ stdio' = stdio
          BY <1>10, ImmediateCases DEF StdioEnd, Cleanup
    <3>2. code' \in {code, Failed}
          BY <1>10, ImmediateCases DEF StdioEnd, Cleanup
    <3> QED BY <1>1, <3>1, <3>2, DestroyedStdio
  <2> QED BY <1>1, <2>1, <2>4, <2>5 DEF Typed
<1>11. ASSUME NEW s \in Stdio, SocketCloses(s)
       PROVE  Typed'
    BY <1>1, <1>11 DEF Typed, SocketCloses
<1>12. CASE TimesOut
    BY <1>1, <1>12 DEF Typed, TimesOut
<1> QED BY <1>3, <1>4, <1>5, <1>6, <1>7, <1>8, <1>9, <1>10, <1>11, <1>12
        DEF ExecNext, ExecLoop

LEMMA ExecStays ==
    ASSUME Typed, Queued, [ExecNext]_execVars
    PROVE  Stays
<1>1. Good => Good'
  <2>1. code' = code \/ (code' = Failed /\ Immediate)
        BY ImmediateCases DEF ExecNext, ExecLoop, execVars, Spawn, SpawnFails, Exits, CloseOutput,
           Writes, OnExit, TimesOut, Read, StdioEOF, SocketCloses, StdioEnd, Cleanup
  <2>2. command = "reaped" => command' = "reaped" /\ code' = code
    <3> SUFFICES ASSUME command = "reaped" PROVE command' = "reaped" /\ code' = code
        OBVIOUS
    <3>1. CASE Immediate
          BY <3>1, ImmediateCases, FirstImmediate DEF Immediate, StdioEnd, Cleanup
    <3>2. CASE ~Immediate
          BY <2>1, <3>2 DEF ExecNext, ExecLoop, execVars, Spawn, SpawnFails, Exits, CloseOutput,
             Writes, OnExit, TimesOut, Read, StdioEOF, SocketCloses
    <3> QED BY <3>1, <3>2
  <2> QED BY <2>2 DEF Good
<1>2. ASSUME NEW s \in Outputs, stdio[s] # "open", unread[s] = 0, writers[s] = {}
      PROVE  stdio'[s] # "open" /\ unread'[s] = 0 /\ writers'[s] = {}
  <2> USE <1>2
  <2>0. s \in Stdio
        BY DEF Stdio
  <2>1. CASE Spawn \/ SpawnFails \/ OnExit \/ TimesOut \/ UNCHANGED execVars
        BY <2>1 DEF Spawn, SpawnFails, OnExit, TimesOut, execVars
  <2>2. CASE Exits \/ \E outputs \in SUBSET Outputs, who \in {"command", "other"} :
                         CloseOutput(who, outputs)
        BY <2>2, ClosesOutputs DEF Exits, CloseOutput
  <2>3. CASE \E t \in Outputs : Writes(t) \/ Read(t) \/ StdioEOF(t)
        BY <2>0, <2>3 DEF Writes, Read, StdioEOF, Typed
  <2>4. CASE Immediate
    <3>1. (\E X : stdio' = Destroyed(X)) \/ stdio' = stdio
          BY <2>4, ImmediateCases DEF StdioEnd, Cleanup
    <3> QED BY <2>0, <2>4, <3>1, DestroyedStdio DEF Immediate
  <2>5. CASE \E t \in Stdio : SocketCloses(t)
        BY <2>0, <2>5 DEF SocketCloses, Typed
  <2> QED BY <2>1, <2>2, <2>3, <2>4, <2>5 DEF ExecNext, ExecLoop
<1> QED BY <1>1, <1>2 DEF Stays, AtEnd

LEMMA ExecQueued ==
    ASSUME Typed, Queued, Untouched, Stays, [ExecNext]_execVars
    PROVE  Queued'
<1>1. \A s \in Outputs : stdio[s] # "open" /\ AtEnd(s) => stdio'[s] # "open" /\ AtEnd(s)'
    BY DEF Stays
<1>2. immediates \in Seq(Kinds)
    BY DEF Typed
<1>3. ASSUME immediates' = immediates, UNCHANGED <<command, code>>
      PROVE  Queued'
    BY <1>1, <1>3 DEF Queued
<1>4. ASSUME NEW x \in Kinds, immediates' = Append(immediates, x), code' = code,
             command' = command \/ command = "exited",
             x # "failed", x \in Outputs => (stdio'[x] # "open" /\ AtEnd(x)')
      PROVE  Queued'
  <2>1. /\ \A k \in DOMAIN immediates' : k \in DOMAIN immediates \/ k = Len(immediates) + 1
        /\ \A k \in DOMAIN immediates : immediates'[k] = immediates[k]
        /\ immediates'[Len(immediates) + 1] = x
        BY <1>2, <1>4, AppendProperties, LenProperties
  <2> QED BY <1>1, <1>4, <2>1 DEF Queued
<1>5. CASE Spawn
  <2>1. immediates' = <<>>
        BY <1>5 DEF Spawn, Untouched
  <2> QED BY <2>1 DEF Queued
<1>6. CASE SpawnFails
  <2>1. immediates' = <<"failed">> /\ command' = "failed" /\ code' = code /\ code # Failed
        BY <1>6 DEF SpawnFails, Untouched
  <2>2. \A k \in DOMAIN immediates' : immediates'[k] = "failed"
        BY <2>1
  <2>3. "failed" \notin Outputs
        BY DEF Outputs
  <2> QED BY <2>1, <2>2, <2>3 DEF Queued
<1>7. CASE Exits
  <2>1. command = "running" /\ command' = "exited" /\ immediates' = immediates /\ code' = code
        BY <1>7 DEF Exits
  <2> QED BY <1>1, <2>1 DEF Queued
<1>8. CASE OnExit
  <2>1. "cleanup" \in Kinds /\ "cleanup" \notin Outputs
        BY DEF Kinds, Outputs
  <2> QED BY <1>4, <1>8, <2>1 DEF OnExit
<1>9. ASSUME NEW s \in Outputs, StdioEOF(s)
      PROVE  Queued'
  <2>1. stdio'[s] # "open" /\ AtEnd(s)'
        BY <1>9 DEF StdioEOF, Typed, Stdio, AtEnd
  <2>2. s \in Kinds /\ s # "failed"
        BY DEF Kinds, Outputs
  <2> QED BY <1>4, <1>9, <2>1, <2>2 DEF StdioEOF
<1>10. CASE Immediate
  <2>0. immediates # <<>> /\ command' = command
        BY <1>10 DEF Immediate
  <2>1. \A k \in DOMAIN Tail(immediates) :
           \E j \in DOMAIN immediates : Tail(immediates)[k] = immediates[j]
        BY <2>0, FirstImmediate
  <2>2. CASE immediates' = Tail(immediates) /\ code' = code
        BY <1>1, <2>0, <2>1, <2>2 DEF Queued
  <2>3. CASE Head(immediates) = "failed" /\ immediates' = Append(Tail(immediates), "cleanup")
    <3>1. immediates = <<"failed">>
          BY <2>0, <2>3, FirstImmediate DEF Untouched
    <3>2. immediates' = <<"cleanup">>
          BY <2>3, <3>1
    <3>3. \A k \in DOMAIN immediates' : immediates'[k] = "cleanup"
          BY <3>2
    <3> QED BY <3>3 DEF Queued, Outputs
  <2> QED BY <1>10, <2>2, <2>3, ImmediateCases DEF StdioEnd, Cleanup
<1>11. CASE \/ TimesOut \/ UNCHANGED execVars
            \/ \E s \in Outputs : Writes(s) \/ Read(s)
            \/ \E s \in Stdio : SocketCloses(s)
            \/ \E outputs \in SUBSET Outputs, who \in {"command", "other"} : CloseOutput(who, outputs)
    BY <1>3, <1>11 DEF TimesOut, execVars, Writes, Read, SocketCloses, CloseOutput
<1> QED BY <1>5, <1>6, <1>7, <1>8, <1>9, <1>10, <1>11 DEF ExecNext, ExecLoop

LEMMA ExecUntouched ==
    ASSUME Typed, Queued, Untouched, [ExecNext]_execVars
    PROVE  Untouched'
<1> DEFINE Still == command = "none" \/ (command = "failed" /\ code # Failed)
<1>0. Outputs \subseteq Stdio
    BY DEF Stdio
<1>1. CASE Spawn
    BY <1>1 DEF Untouched, Spawn
<1>2. CASE SpawnFails
    BY <1>2 DEF Untouched, SpawnFails
<1>3. CASE UNCHANGED execVars
    BY <1>3 DEF Untouched, execVars
<1>4. ASSUME NEW s \in Outputs, Writes(s) \/ Read(s) \/ StdioEOF(s)
      PROVE  Untouched'
  <2>1. ~Still /\ command' = command /\ code' = code
        BY <1>0, <1>4 DEF Untouched, Writes, Read, StdioEOF, AtEnd
  <2> QED BY <2>1 DEF Untouched
<1>5. CASE Exits \/ OnExit
    BY <1>5 DEF Untouched, Exits, OnExit
<1>6. ASSUME NEW who, NEW outputs, CloseOutput(who, outputs)
      PROVE  Untouched'
    BY <1>6 DEF Untouched, CloseOutput
<1>7. ASSUME NEW s \in Stdio, SocketCloses(s)
      PROVE  Untouched'
  <2>1. ~Still /\ command' = command /\ code' = code
        BY <1>7 DEF Untouched, SocketCloses
  <2> QED BY <2>1 DEF Untouched
<1>8. CASE TimesOut
    BY <1>8 DEF Untouched, TimesOut
<1>9. CASE Immediate
  <2>1. command' = command /\ immediates # <<>>
        BY <1>9 DEF Immediate
  <2>2. command # "none"
        BY <2>1 DEF Untouched
  <2>3. CASE Head(immediates) = "failed" /\ code' = Failed
        BY <2>1, <2>2, <2>3, FirstImmediate DEF Untouched
  <2>4. CASE Head(immediates) # "failed" /\ code' = code
    <3>1. Still => Head(immediates) = "failed"
          BY <2>2 DEF Untouched
    <3> QED BY <2>1, <2>2, <2>4, <3>1 DEF Untouched
  <2> QED BY <1>9, <2>3, <2>4, ImmediateCases DEF StdioEnd, Cleanup, Outputs
<1> QED BY <1>1, <1>2, <1>3, <1>4, <1>5, <1>6, <1>7, <1>8, <1>9 DEF ExecNext, ExecLoop

-----------------------------------------------------------------------------
(* What exec and the child report. *)
LEMMA MovedOn ==
    ASSUME Typed, Reports, Stays
    PROVE  /\ Good' \in BOOLEAN /\ StdoutEnded' \in BOOLEAN
           /\ Answering(child, Good', StdoutEnded')
<1>1. Good' \in BOOLEAN /\ StdoutEnded' \in BOOLEAN
    BY DEF Good, StdoutEnded, AtEnd
<1>2. StdoutEnded => StdoutEnded'
    BY DEF Stays, StdoutEnded, Outputs
<1>3. Answering(child, Good, StdoutEnded)
    BY DEF Reports
<1> QED BY <1>1, <1>2, <1>3, Flags, AnsweringStays DEF Stays

LEMMA KillReports ==
    ASSUME Typed, Reports, Stays, child' = KillChild(child), UNCHANGED <<command, code>>
    PROVE  Reports' /\ AnswerKept
<1>1. ExitsLeft' = ExitsLeft /\ Good' = Good
    BY DEF ExitsLeft, Reported, Good
<1>2. code \in Int /\ (ExitsLeft = 0 /\ code = 0 => Good')
    BY <1>1, GoodWhenReported
<1>3. child \in Child /\ child.closesGot = Left(child, ExitsLeft)
    BY DEF Reports
<1>4. /\ child' \in Child /\ Answering(child', Good', StdoutEnded')
      /\ child'.closesGot = Left(child', ExitsLeft)
      /\ child'.killed /\ child'.exited
    BY <1>2, <1>3, MovedOn, Flags, KillKeeps
<1> QED BY <1>1, <1>4 DEF Reports, AnswerKept

LEMMA ExitReports ==
    ASSUME Typed, Reports, Stays, OnExit
    PROVE  Reports' /\ AnswerKept
<1>1. /\ command = "exited" /\ command' = "reaped" /\ code' = code /\ stdio' = stdio
      /\ child' = MaybeClose(child)
    BY DEF OnExit
<1>2. ExitsLeft = 1 /\ ExitsLeft' = 0 /\ (code = 0 => Good')
    BY <1>1 DEF ExitsLeft, Reported, Good
<1>3. child \in Child /\ child.closesGot = Left(child, 1) /\ code \in Int
    BY <1>2, GoodWhenReported DEF Reports
<1> DEFINE more == Left(child, 0)
<1>4. more \in Nat /\ more = child.closesGot - 1 /\ child.closesGot > 0
    BY <1>3 DEF Left
<1> HIDE DEF more
<1>5. AfterMaybe(child, more, Good', StdoutEnded', MaybeClose(child))
    BY <1>2, <1>3, <1>4, MovedOn, MaybeCloseKeeps
<1>6. child'.closesGot = Left(child', ExitsLeft')
    BY <1>1, <1>2, <1>5 DEF AfterMaybe, Left, more
<1>7. child'.killed => child'.exited
    BY <1>1, <1>5 DEF AfterMaybe, Follows, Reports
<1>8. ~child'.killed => /\ ClosesOnce(child')
                        /\ child'.counting = {s \in Stdio : stdio'[s] # "closed"}
    BY <1>1, <1>4, <1>5 DEF AfterMaybe, Reports
<1>9. AnswerKept
    BY <1>1, <1>5 DEF AfterMaybe, Follows, AnswerKept
<1> QED BY <1>1, <1>5, <1>6, <1>7, <1>8, <1>9 DEF AfterMaybe, Reports

LEMMA FailureReports ==
    ASSUME Typed, Untouched, Reports, Stays, command = "failed", code # Failed,
           command' = command, code' = Failed, child' = MaybeClose(child), stdio' = stdio
    PROVE  Reports' /\ AnswerKept
<1>1. ExitsLeft = 1 /\ ExitsLeft' = 0
    BY DEF ExitsLeft, Reported
<1>2. child \in Child /\ child.closesGot = Left(child, 1) /\ code \in Int
    BY <1>1, GoodWhenReported DEF Reports
<1> DEFINE more == Left(child, 0)
<1>3. more \in Nat /\ more = child.closesGot - 1 /\ child.closesGot > 0
    BY <1>2 DEF Left
<1>4. ~child.exited => more # 0
  <2> SUFFICES ASSUME ~child.exited PROVE more # 0
      OBVIOUS
  <2>1. child.counting = Stdio
        BY DEF Reports, Untouched
  <2> QED BY <2>1 DEF Left, Stdio, Outputs
<1> HIDE DEF more
<1>5. AfterMaybe(child, more, Good', StdoutEnded', MaybeClose(child))
    BY <1>2, <1>3, <1>4, MovedOn, MaybeCloseKeeps
<1>6. child'.closesGot = Left(child', ExitsLeft')
    BY <1>1, <1>5 DEF AfterMaybe, Left, more
<1>7. child'.killed => child'.exited
    BY <1>5 DEF AfterMaybe, Follows, Reports
<1>8. ~child'.killed => /\ ClosesOnce(child')
                        /\ child'.counting = {s \in Stdio : stdio'[s] # "closed"}
    BY <1>3, <1>5 DEF AfterMaybe, Reports
<1>9. AnswerKept
    BY <1>5 DEF AfterMaybe, Follows, AnswerKept
<1> QED BY <1>5, <1>6, <1>7, <1>8, <1>9 DEF AfterMaybe, Reports

LEMMA EndReports ==
    ASSUME Typed, Reports, Stays, StdoutEnded, child' = ExitHandler(child, NoCode),
           UNCHANGED <<command, code>>,
           \A s \in Stdio : stdio'[s] = "closed" <=> stdio[s] = "closed"
    PROVE  Reports' /\ AnswerKept
<1>1. ExitsLeft' = ExitsLeft
    BY DEF ExitsLeft, Reported
<1>2. StdoutEnded'
    BY DEF Stays, StdoutEnded, Outputs
<1>3. child \in Child /\ NoCode \in Int /\ NoCode # 0
    BY DEF Reports, NoCode
<1>4. AfterExit(child, NoCode, child')
    BY <1>3, ExitHandlerFields
<1>5. Answering(child', Good', StdoutEnded')
  <2> DEFINE n == NoCode  d == child'  good == Good'  ended == StdoutEnded'
  <2>1. good \in BOOLEAN /\ ended \in BOOLEAN /\ Answering(child, good, ended)
        BY MovedOn
  <2>2. /\ child \in Child /\ n \in Int /\ n # 0 /\ AfterExit(child, n, d)
        /\ child.closeOnce => ended
        BY <1>2, <1>3, <1>4
  <2> HIDE DEF n, d, good, ended
  <2>3. Answering(d, good, ended)
        BY <2>1, <2>2, HandlerAnswers
  <2> QED BY <2>3 DEF d, good, ended
<1>6. /\ child' \in Child
      /\ child'.closesGot = child.closesGot /\ child'.counting = child.counting
      /\ child'.closes = child.closes /\ child'.killed = child.killed
      /\ child.exited => child'.exited
    BY <1>4 DEF AfterExit
<1>7. child'.closesGot = Left(child', ExitsLeft')
    BY <1>1, <1>6 DEF Reports, Left
<1>8. ClosesOnce(child) => ClosesOnce(child')
    BY <1>6 DEF ClosesOnce
<1>9. child'.killed => child'.exited
    BY <1>6 DEF Reports
<1>10. ~child'.killed => /\ ClosesOnce(child')
                         /\ child'.counting = {s \in Stdio : stdio'[s] # "closed"}
    BY <1>6, <1>8 DEF Reports
<1> QED BY <1>5, <1>6, <1>7, <1>9, <1>10 DEF Reports, AnswerKept

LEMMA SocketReports ==
    ASSUME Typed, Reports, Stays, NEW s \in Stdio, SocketCloses(s)
    PROVE  Reports' /\ AnswerKept
<1>1. /\ child' = SocketClose(child, s) /\ UNCHANGED <<command, code>>
      /\ stdio' = [stdio EXCEPT ![s] = "closed"]
    BY DEF SocketCloses
<1>2. ExitsLeft' = ExitsLeft /\ Good' = Good
    BY <1>1 DEF ExitsLeft, Reported, Good
<1>3. /\ child \in Child /\ child.closesGot = Left(child, ExitsLeft)
      /\ code \in Int /\ (ExitsLeft = 0 /\ code = 0 => Good')
    BY <1>2, GoodWhenReported DEF Reports
<1>4. AfterSocket(child, s, ExitsLeft, Good', StdoutEnded', child')
    BY <1>1, <1>3, MovedOn, Flags, SocketCloseKeeps
<1>5. child'.killed => child'.exited
    BY <1>4 DEF AfterSocket, Follows, Reports
<1>6. {t \in Stdio : stdio'[t] # "closed"} = {t \in Stdio : stdio[t] # "closed"} \ {s}
    BY <1>1 DEF Typed
<1>7. ~child'.killed => /\ ClosesOnce(child')
                        /\ child'.counting = {t \in Stdio : stdio'[t] # "closed"}
    BY <1>4, <1>6 DEF AfterSocket, Reports
<1>8. AnswerKept
    BY <1>4 DEF AfterSocket, Follows, AnswerKept
<1> QED BY <1>2, <1>4, <1>5, <1>7, <1>8 DEF AfterSocket, Reports

LEMMA ExecReports ==
    ASSUME Typed, Queued, Untouched, Reports, Stays, [ExecNext]_execVars
    PROVE  Reports' /\ AnswerKept
<1>1. CASE Spawn \/ SpawnFails \/ UNCHANGED execVars
  <2>1. child' = child /\ stdio' = stdio /\ (Reported' <=> Reported)
        BY <1>1 DEF Spawn, SpawnFails, execVars, Reported, Untouched
  <2> QED BY <2>1, SameChild
<1>2. CASE \/ Exits
           \/ \E outputs \in SUBSET Outputs, who \in {"command", "other"} : CloseOutput(who, outputs)
           \/ \E s \in Outputs : Writes(s)
  <2>1. child' = child /\ stdio' = stdio /\ (Reported' <=> Reported)
        BY <1>2 DEF Exits, CloseOutput, Writes, Reported
  <2> QED BY <2>1, SameChild
<1>3. ASSUME NEW s \in Outputs, StdioEOF(s)
      PROVE  Reports' /\ AnswerKept
  <2>1. /\ child' = child /\ (Reported' <=> Reported)
        /\ \A t \in Stdio : stdio'[t] = "closed" <=> stdio[t] = "closed"
        BY <1>3 DEF StdioEOF, Reported, Typed
  <2> QED BY <2>1, SameChild
<1>4. ASSUME NEW s \in Outputs, Read(s)
      PROVE  Reports' /\ AnswerKept
  <2>1. UNCHANGED <<command, code, stdio>> /\ child' \in {child, KillChild(child)}
        BY <1>4 DEF Read
  <2>2. Reported' <=> Reported
        BY <2>1 DEF Reported
  <2> QED BY <2>1, <2>2, SameChild, KillReports
<1>5. CASE OnExit
    BY <1>5, ExitReports
<1>6. CASE TimesOut
    BY <1>6, KillReports DEF TimesOut
<1>7. ASSUME NEW s \in Stdio, SocketCloses(s)
      PROVE  Reports' /\ AnswerKept
    BY <1>7, SocketReports
<1>8. CASE Immediate
  <2>1. immediates # <<>> /\ command' = command
        BY <1>8 DEF Immediate
  <2>2. ASSUME NEW X, stdio' = Destroyed(X)
        PROVE  \A t \in Stdio : stdio'[t] = "closed" <=> stdio[t] = "closed"
        BY <2>2, DestroyedStdio
  <2>3. CASE Head(immediates) = "cleanup" /\ Cleanup
    <3>1. child' = child /\ (Reported' <=> Reported)
          BY <2>1, <2>3 DEF Cleanup, Reported
    <3> QED BY <2>2, <2>3, <3>1, SameChild DEF Cleanup
  <2>4. CASE Head(immediates) = "failed" /\ code' = Failed
             /\ child' = MaybeClose(child) /\ stdio' = stdio
        BY <2>1, <2>4, FirstImmediate, FailureReports
  <2>5. CASE Head(immediates) = "stdout" /\ StdioEnd("stdout")
    <3>1. StdoutEnded
          BY <2>1, <2>5, FirstImmediate DEF StdoutEnded, Outputs
    <3>2. child' = ExitHandler(child, NoCode) /\ code' = code
          BY <2>5 DEF StdioEnd
    <3> QED BY <2>1, <2>2, <2>5, <3>1, <3>2, EndReports DEF StdioEnd
  <2>6. CASE Head(immediates) = "stderr" /\ StdioEnd("stderr")
    <3>1. child' = child /\ (Reported' <=> Reported)
          BY <2>1, <2>6 DEF StdioEnd, Reported
    <3> QED BY <2>2, <2>6, <3>1, SameChild DEF StdioEnd
  <2> QED BY <1>8, <2>3, <2>4, <2>5, <2>6, ImmediateCases DEF Outputs
<1> QED BY <1>1, <1>2, <1>3, <1>4, <1>5, <1>6, <1>7, <1>8 DEF ExecNext, ExecLoop

LEMMA ExecStep ==
    ExecInv /\ [ExecNext]_execVars => ExecInv' /\ AnswerKept
<1> SUFFICES ASSUME Typed, Queued, Untouched, Reports, [ExecNext]_execVars
             PROVE  ExecInv' /\ AnswerKept
    BY DEF ExecInv
<1>1. Stays
    BY ExecStays
<1> QED BY <1>1, ExecTypes, ExecQueued, ExecUntouched, ExecReports DEF ExecInv

LEMMA ExecAlways == ExecSpec => []ExecInv
BY ExecStart, ExecStep, PTL DEF ExecSpec

-----------------------------------------------------------------------------
(* The theorems. *)
\* Every variable of exec and of the child keeps its type; the counters stay
\* between 0 and what they began with.
THEOREM ExecTyped == ExecSpec => []ExecTypeOK
<1>1. ExecInv => ExecTypeOK
  <2> SUFFICES ASSUME ExecInv PROVE ExecTypeOK
      OBVIOUS
  <2>1. child.counting \subseteq Stdio
        BY DEF ExecInv, Reports, Child
  <2>2. child.closesGot \in 0 .. 4
        BY Flags DEF ExecInv, Reports, Left
  <2>3. child.called \in 0 .. 2
        BY DEF ExecInv, Reports, Answering
  <2>4. child.signal \in BOOLEAN
        BY DEF ExecInv, Reports, Child
  <2> QED BY <2>1, <2>2, <2>3, <2>4 DEF ExecInv, Typed, Kinds, ExecTypeOK
<1> QED BY <1>1, ExecAlways, PTL

\* What is left of a counter that came to 0.
LEMMA NothingLeft ==
    ASSUME NEW c \in Child, NEW left \in {0, 1}, c.closesGot = Left(c, left),
           c.closesGot = 0
    PROVE  left = 0 /\ c.counting = {}
<1>1. /\ left = 0 /\ "stdin" \notin c.counting
      /\ "stdout" \notin c.counting /\ "stderr" \notin c.counting
    BY DEF Left
<1>2. c.counting \subseteq {"stdin", "stdout", "stderr"}
    BY DEF Child, Stdio, Outputs
<1> QED BY <1>1, <1>2

\* A success that exec reports is the end of the command with the code 0, which is libuv's
\* code for a death by signal too, with its whole output; 'close' comes last.
THEOREM ExecIsTruthful == ExecSpec => []ExecTruthful
<1>1. ASSUME ExecInv, child.results = <<"success">>
      PROVE  /\ command = "reaped" /\ code = 0
             /\ stdio["stdout"] # "open" /\ unread["stdout"] = 0
  <2>1. <<>> # <<"success">> /\ <<"error">> # <<"success">>
        OBVIOUS
  <2>2. Answering(child, Good, StdoutEnded)
        BY <1>1 DEF ExecInv, Reports
  <2>3. Good /\ StdoutEnded
        BY <1>1, <2>1, <2>2 DEF Answering
  <2> QED BY <2>3 DEF Good, StdoutEnded, AtEnd
<1>2. ASSUME ExecInv, ~child.killed
      PROVE  /\ child.closes <= 1
             /\ child.closes = 1 => command # "running" /\ \A s \in Stdio : stdio[s] = "closed"
  <2>1. /\ child.closes = IF child.closesGot = 0 THEN 1 ELSE 0
        /\ child.counting = {s \in Stdio : stdio[s] # "closed"}
        BY <1>2 DEF ExecInv, Reports, ClosesOnce
  <2>2. child.closes \in {0, 1}
        BY <2>1
  <2>3. ASSUME child.closes = 1
        PROVE  command # "running" /\ \A s \in Stdio : stdio[s] = "closed"
    <3>1. child.closesGot = 0
          BY <2>1, <2>3
    <3>2. ExitsLeft = 0 /\ child.counting = {}
          BY <1>2, <3>1, Flags, NothingLeft DEF ExecInv, Reports
    <3>3. Reported
          BY <3>2 DEF ExitsLeft
    <3> QED BY <2>1, <3>2, <3>3 DEF Reported
  <2> QED BY <2>2, <2>3
<1>3. ExecInv => ExecTruthful
    BY <1>1, <1>2 DEF ExecTruthful, SuccessIsWhole, CloseIsLast
<1> QED BY <1>3, ExecAlways, PTL

LEMMA OneResult ==
    ASSUME ExecInv
    PROVE  /\ child.exited => child.results # <<>> /\ Len(child.results) = 1
           /\ ~child.exited => child.results = <<>> /\ Len(child.results) = 0
<1>1. Answering(child, Good, StdoutEnded)
    BY DEF ExecInv, Reports
<1>2. \/ ~child.exited /\ child.results = <<>>
      \/ child.exited /\ child.results = <<"error">>
      \/ child.exited /\ child.results = <<"success">>
    BY <1>1 DEF Answering
<1>3. /\ Len(<<>>) = 0 /\ Len(<<"error">>) = 1 /\ Len(<<"success">>) = 1
      /\ <<"error">> # <<>> /\ <<"success">> # <<>>
    OBVIOUS
<1> QED BY <1>2, <1>3

\* The command is spawned, and the child is not touched by that.
LEMMA SpawnedOnce ==
    ASSUME Typed, Untouched, [ExecNext]_execVars
    PROVE  /\ command = "none" /\ command' # "none" => child' = child
           /\ command # "none" => command' # "none"
<1>1. CASE Spawn \/ SpawnFails \/ Exits \/ UNCHANGED execVars
    BY <1>1 DEF Spawn, SpawnFails, Exits, execVars
<1>2. CASE OnExit
    BY <1>2 DEF OnExit
<1>3. CASE ~(Spawn \/ SpawnFails \/ Exits \/ UNCHANGED execVars \/ OnExit)
  <2>1. command' = command
        BY <1>3 DEF ExecNext, ExecLoop, CloseOutput, Writes, Immediate, TimesOut,
           Read, StdioEOF, SocketCloses
  <2> QED BY <2>1
<1> QED BY <1>1, <1>2, <1>3

\* exec calls its callback at most once, in whichever order the end of stdout, the
\* closes, the timer and a too long output come: it implements OneAnswer.
THEOREM ExecAnswersSafely == ExecSpec => ExecPromise!Spec
<1>1. ExecInit => ExecPromise!Init
  <2> SUFFICES ASSUME ExecInit PROVE ExecPromise!Init
      OBVIOUS
  <2>1. command = "none" /\ Len(child.results) = 0
    <3>1. ExecInv /\ command = "none"
          BY ExecStart DEF ExecInit
    <3> QED BY <3>1, OneResult DEF ExecInv, Untouched
  <2> QED BY <2>1 DEF ExecPromise!Init
<1>2. ExecInv /\ ExecInv' /\ AnswerKept /\ [ExecNext]_execVars
        => [ExecPromise!Next]_(ExecPromise!vars)
  <2> SUFFICES ASSUME ExecInv, ExecInv', AnswerKept, [ExecNext]_execVars
               PROVE  ExecPromise!Next \/ UNCHANGED ExecPromise!vars
      OBVIOUS
  <2> DEFINE before == Len(child.results)
             after  == Len(child'.results)
             asks   == command # "none" /\ child.results = <<>>
             askedThen == command' # "none" /\ child'.results = <<>>
  <2>1. /\ child.exited => child.results # <<>> /\ before = 1
        /\ ~child.exited => child.results = <<>> /\ before = 0
        BY OneResult
  <2>2. /\ child'.exited => child'.results # <<>> /\ after = 1
        /\ ~child'.exited => child'.results = <<>> /\ after = 0
    <3>1. (/\ child.exited => child.results # <<>> /\ before = 1
           /\ ~child.exited => child.results = <<>> /\ before = 0)'
          BY OneResult, PTL
    <3> QED BY <3>1
  <2>3. /\ command = "none" /\ command' # "none" => child' = child
        /\ command # "none" => command' # "none"
        BY SpawnedOnce DEF ExecInv
  <2>4. (command = "none" => ~child.exited) /\ (command' = "none" => ~child'.exited)
        BY DEF ExecInv, Untouched
  <2>5. \/ after = before /\ (askedThen <=> asks)
        \/ after = before /\ before = 0 /\ askedThen /\ ~asks
        \/ before = 0 /\ after = 1 /\ asks /\ ~askedThen
        BY <2>1, <2>2, <2>3, <2>4, Zenon DEF AnswerKept
  <2>6. CASE after = before /\ (askedThen <=> asks)
        BY <2>6 DEF ExecPromise!vars
  <2>7. CASE after = before /\ before = 0 /\ askedThen /\ ~asks
        BY <2>7 DEF ExecPromise!Next, ExecPromise!Ask
  <2>8. CASE before = 0 /\ after = 1 /\ asks /\ ~askedThen
        BY <2>8 DEF ExecPromise!Next, ExecPromise!Answer
  <2> QED BY <2>5, <2>6, <2>7, <2>8
<1>3. ExecInv /\ [ExecNext]_execVars => ExecInv' /\ AnswerKept
    BY ExecStep
<1> QED BY <1>1, <1>2, <1>3, ExecAlways, PTL DEF ExecSpec, ExecPromise!Spec
=============================================================================

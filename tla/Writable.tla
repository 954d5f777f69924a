------------------------------ MODULE Writable ------------------------------
(***************************************************************************)
(* stream/writable.lua: the writing half of every stream of the runtime    *)
(* (sockets, files, child stdin, transforms).                              *)
(*                                                                         *)
(* User code calls write(), cork(), uncork() and finish(); the stream      *)
(* hands one chunk (or, with _writev, one batch) at a time to the sink,    *)
(* the subclass's _write().  The sink answers before _write() returns or   *)
(* later, from the event loop.  Listeners and write callbacks run in the   *)
(* middle of the stream's own code and may call the stream again, so the   *)
(* code still to run is kept in `stack': the head is the next step, a      *)
(* "user" frame is a listener or callback that is running.                 *)
(***************************************************************************)
EXTENDS Integers, Sequences, FiniteSets

CONSTANTS
    MaxWrites,      \* bound: number of write() calls
    MaxCorks,       \* bound: nesting of cork()
    ChunkLengths,   \* lengths of the chunks that are written
    HighWaterMark,  \* options.highWaterMark
    HasWritev,      \* the subclass defines _writev
    SinkAnswers,    \* how _write answers: subset of {"later", "now", "fail", "failNow"}
    SinkInListener, \* _write's callback may be called while a listener runs
    WritesInFinish, \* listeners may write before the finish() that fires them returns
    InvalidChunks   \* user code may write something that is not a string

ASSUME WritableAssumption ==
    /\ MaxWrites \in Nat
    /\ MaxCorks \in Nat
    /\ ChunkLengths \subseteq Nat
    /\ HighWaterMark \in Nat
    /\ HasWritev \in BOOLEAN
    /\ SinkAnswers \subseteq {"later", "now", "fail", "failNow"}
    /\ SinkInListener \in BOOLEAN
    /\ WritesInFinish \in BOOLEAN
    /\ InvalidChunks \in BOOLEAN

VARIABLES
    \* fields of Writable
    writableCorked, writableEnded, writableFinished, writableLength,
    \* fields of WritableState
    needDrain, ending, prefinished, length, writing, sync, isBufferFlushing,
    buffer,           \* the requests from readPos to writePos - 1
    writeCallback,    \* the requests whose callbacks the sink's answer will run
    pendingCallbacks, errorEmitted,
    \* the sink and the event loop
    io,               \* _write has returned and its callback is still to come
    immediates,       \* setImmediate's queue
    stack,            \* code still to run in this turn of the loop
    \* what has been observed from outside
    calls,            \* number of write() calls so far
    handed,           \* ids in the order they were given to _write or _writev
    answered,         \* ids in the order their write callbacks were called
    finishes          \* number of times 'finish' was emitted

flagVars  == <<writableCorked, writableEnded, writableFinished, ending,
               prefinished, errorEmitted>>
writeVars == <<writableLength, writing, sync, writeCallback, io, handed>>
queueVars == <<length, needDrain, buffer, isBufferFlushing>>
logVars   == <<calls, answered, finishes>>
vars == <<flagVars, writeVars, queueVars, logVars, pendingCallbacks,
          immediates, stack>>

-----------------------------------------------------------------------------
(* WriteRequest, and the frames of the stack. *)

Request == [id : 1 .. MaxWrites, len : ChunkLengths]
Batch   == [reqs : Seq(Request), vec : BOOLEAN]
NoBatch == [reqs |-> <<>>, vec |-> FALSE]
One(r)  == [reqs |-> <<r>>, vec |-> FALSE]

FrameOps == {"user", "rejectLater", "completed", "syncOff", "flush",
             "loop", "flushEnd", "defer", "nextTick", "failed", "emitError",
             "answer", "maybeFinish", "finishCheck", "endWritable", "ended"}

\* op: what is left to run; flag: the success of a write for "completed", the
\* needFinish a completion computed for "nextTick"; left: loop iterations left.
Frame == [op : FrameOps, batch : Batch, flag : BOOLEAN, left : Nat]

FrameOf(op) == [op |-> op, batch |-> NoBatch, flag |-> FALSE, left |-> 0]
FrameFor(op, batch, flag) == [op |-> op, batch |-> batch, flag |-> flag, left |-> 0]
LoopFrame(n) == [op |-> "loop", batch |-> NoBatch, flag |-> FALSE, left |-> n]
UserFrame == FrameOf("user")

Running(op) == stack # <<>> /\ Head(stack).op = op
Rest == Tail(stack)                  \* what runs after the running frame
Push(frame, frames) == <<frame>> \o frames
PushIf(cond, frame, frames) == IF cond THEN Push(frame, frames) ELSE frames
\* User code calls into the stream: at the top of a turn, or from a listener.
InUserCode == stack = <<>> \/ Running("user")

Init ==
    /\ writableCorked = 0 /\ writableEnded = FALSE /\ writableFinished = FALSE
    /\ writableLength = 0
    /\ needDrain = FALSE /\ ending = FALSE /\ prefinished = FALSE
    /\ length = 0 /\ writing = FALSE /\ sync = TRUE /\ isBufferFlushing = FALSE
    /\ buffer = <<>> /\ writeCallback = NoBatch
    /\ pendingCallbacks = 0 /\ errorEmitted = FALSE
    /\ io = FALSE /\ immediates = <<>> /\ stack = <<>>
    /\ calls = 0 /\ handed = <<>> /\ answered = <<>> /\ finishes = 0

-----------------------------------------------------------------------------
(* WritableState:_needFinish, evaluated once `len' bytes are left. *)
\* Variant: 'finish' already emitted is not asked.
NeedFinish_Again(len, busy) == ending /\ len = 0 /\ buffer = <<>> /\ ~busy
NeedFinish(len, busy) ==
    /\ ending /\ len = 0 /\ buffer = <<>> /\ ~busy
    /\ ~writableFinished

(* Writable:_onWrite: hand a batch to the sink.  An answer given before    *)
(* _write returns runs _onWriteCompleted inside the call, with sync set;   *)
(* `rest' is what the caller does afterwards.                              *)
Ids(reqs) == [i \in 1 .. Len(reqs) |-> reqs[i].id]

OnWrite(batch, len, rest) ==
    /\ writableLength' = len
    /\ writeCallback' = batch
    /\ writing' = TRUE
    /\ handed' = handed \o Ids(batch.reqs)
    /\ \/ /\ SinkAnswers \cap {"later", "fail"} # {}
          /\ io' = TRUE /\ sync' = FALSE
          /\ stack' = rest
       \/ \E a \in SinkAnswers \cap {"now", "failNow"} :
            /\ io' = io /\ sync' = TRUE
            /\ stack' = Push(FrameFor("completed", NoBatch, a = "now"),
                             Push(FrameOf("syncOff"), rest))

SyncOff ==
    /\ Running("syncOff")
    /\ sync' = FALSE
    /\ stack' = Rest
    /\ UNCHANGED <<flagVars, writableLength, writing, writeCallback, io, handed,
                   queueVars, logVars, pendingCallbacks, immediates>>

(* The sink calls the callback it was given. *)
SinkCompletes ==
    /\ io
    /\ stack = <<>> \/ (SinkInListener /\ Running("user"))
    /\ io' = FALSE
    /\ \E a \in SinkAnswers \cap {"later", "fail"} :
         stack' = Push(FrameFor("completed", NoBatch, a = "later"), stack)
    /\ UNCHANGED <<flagVars, writableLength, writing, sync, writeCallback, handed,
                   queueVars, logVars, pendingCallbacks, immediates>>

-----------------------------------------------------------------------------
(* Writable:_onWriteCompleted.  What follows the answer: a failed write     *)
(* runs its callback and emits 'error', without flushing the buffer; a     *)
(* successful one flushes, unless the stream is about to finish, and then  *)
(* runs _onWriteCompletedNextTick.  A callback the sink called inside      *)
(* _write (sync) has both deferred with setImmediate.                      *)
\* Variant: the return after emit('error') is missing.
AfterFailure_NoReturn(batch) ==
    Push(FrameFor("failed", batch, FALSE),
         Push(FrameOf("emitError"), Push(FrameFor("nextTick", batch, FALSE), Rest)))

AfterFailure(batch) ==
    PushIf(~sync, FrameFor("failed", batch, FALSE), Push(FrameOf("emitError"), Rest))

\* Variant: flushes only if the stream is about to finish.
AfterSuccess_NoFlush(batch, needFinish) ==
    PushIf(needFinish, FrameOf("flush"),
           Push(FrameFor(IF sync THEN "defer" ELSE "nextTick", batch, needFinish), Rest))

AfterSuccess(batch, needFinish) ==
    PushIf(~needFinish, FrameOf("flush"),
           Push(FrameFor(IF sync THEN "defer" ELSE "nextTick", batch, needFinish), Rest))

OnWriteCompleted ==
    /\ Running("completed")
    /\ LET left == length - writableLength
       IN  /\ length' = left
           /\ IF Head(stack).flag
                THEN /\ stack' = AfterSuccess(writeCallback, NeedFinish(left, FALSE))
                     /\ UNCHANGED immediates
                ELSE /\ stack' = AfterFailure(writeCallback)
                     /\ immediates' = IF sync
                          THEN Append(immediates, FrameFor("failed", writeCallback, FALSE))
                          ELSE immediates
    /\ writing' = FALSE
    /\ writeCallback' = NoBatch
    /\ writableLength' = 0
    /\ UNCHANGED <<flagVars, sync, io, handed, needDrain, buffer, isBufferFlushing,
                   logVars, pendingCallbacks>>

Defer ==
    /\ Running("defer")
    /\ immediates' = Append(immediates, [Head(stack) EXCEPT !.op = "nextTick"])
    /\ stack' = Rest
    /\ UNCHANGED <<flagVars, writeVars, queueVars, logVars, pendingCallbacks>>

Failed ==
    /\ Running("failed")
    /\ pendingCallbacks' = pendingCallbacks - 1
    /\ stack' = Push(FrameFor("answer", Head(stack).batch, FALSE), Rest)
    /\ UNCHANGED <<flagVars, writeVars, queueVars, logVars, immediates>>

EmitError ==
    /\ Running("emitError")
    /\ errorEmitted' = TRUE
    /\ stack' = Push(UserFrame, Rest)
    /\ UNCHANGED <<writableCorked, writableEnded, writableFinished, ending, prefinished,
                   writeVars, queueVars, logVars, pendingCallbacks, immediates>>

(* _onWriteCompletedNextTick: 'drain', the write callback, _maybeFinish. *)
DrainDue(needFinish) == ~needFinish /\ length = 0 /\ needDrain

\* Variant: _maybeFinish forgotten.
AfterDrain_NoFinish(batch) == Push(FrameFor("answer", batch, FALSE), Rest)

AfterDrain(batch) ==
    Push(FrameFor("answer", batch, FALSE), Push(FrameOf("maybeFinish"), Rest))

OnWriteCompletedNextTick ==
    /\ Running("nextTick")
    /\ pendingCallbacks' = pendingCallbacks - 1
    /\ needDrain' = (needDrain /\ ~DrainDue(Head(stack).flag))
    /\ stack' = PushIf(DrainDue(Head(stack).flag), UserFrame,
                       AfterDrain(Head(stack).batch))
    /\ UNCHANGED <<flagVars, writeVars, length, buffer, isBufferFlushing, logVars,
                   immediates>>

(* Call the callback of the request, or of each request of the batch: only *)
(* the callback of _writev decrements pendingCallbacks here.               *)
\* Variant: the batch callback forgets to count the requests down.
OwnCount_None(batch) == 0
OwnCount(batch) == IF batch.vec THEN 1 ELSE 0

Answer ==
    /\ Running("answer")
    /\ LET b == Head(stack).batch
       IN  /\ pendingCallbacks' = pendingCallbacks - OwnCount(b)
           /\ answered' = Append(answered, Head(b.reqs).id)
           /\ stack' = Push(UserFrame,
                            PushIf(Len(b.reqs) > 1,
                                   FrameFor("answer", [b EXCEPT !.reqs = Tail(@)], FALSE),
                                   Rest))
    /\ UNCHANGED <<flagVars, writeVars, queueVars, calls, finishes, immediates>>

-----------------------------------------------------------------------------
(* Writable:_flushBuffer. *)
\* Variant: no re-entrance guard.
CanFlush_Reentrant == writableCorked = 0 /\ buffer # <<>>
CanFlush == ~isBufferFlushing /\ writableCorked = 0 /\ buffer # <<>>

FlushBuffer ==
    /\ Running("flush")
    /\ \/ /\ ~CanFlush
          /\ stack' = Rest
          /\ UNCHANGED <<writeVars, buffer, isBufferFlushing, pendingCallbacks>>
       \/ /\ CanFlush /\ HasWritev /\ Len(buffer) > 1
          /\ isBufferFlushing' = TRUE
          /\ buffer' = <<>>
          /\ pendingCallbacks' = pendingCallbacks + 1
          /\ OnWrite([reqs |-> buffer, vec |-> TRUE], length,
                     Push(FrameOf("flushEnd"), Rest))
       \/ /\ CanFlush /\ ~(HasWritev /\ Len(buffer) > 1)
          /\ isBufferFlushing' = TRUE
          /\ stack' = Push(LoopFrame(Len(buffer)), Push(FrameOf("flushEnd"), Rest))
          /\ UNCHANGED <<writeVars, buffer, pendingCallbacks>>
    /\ UNCHANGED <<flagVars, length, needDrain, logVars, immediates>>

(* One iteration of its slow loop; it stops while a write is outstanding. *)
FlushLoop ==
    /\ Running("loop")
    /\ LET n == Head(stack).left
       IN  \/ /\ n = 0 \/ writing
              /\ stack' = Rest
              /\ UNCHANGED <<writeVars, buffer>>
           \/ /\ n > 0 /\ ~writing
              /\ buffer' = Tail(buffer)
              /\ OnWrite(One(Head(buffer)), Head(buffer).len,
                         Push(LoopFrame(n - 1), Rest))
    /\ UNCHANGED <<flagVars, length, needDrain, isBufferFlushing, logVars,
                   pendingCallbacks, immediates>>

FlushEnd ==
    /\ Running("flushEnd")
    /\ isBufferFlushing' = FALSE
    /\ stack' = Rest
    /\ UNCHANGED <<flagVars, writeVars, length, needDrain, buffer, logVars,
                   pendingCallbacks, immediates>>

-----------------------------------------------------------------------------
(* Writable:_maybeFinish, split at the listeners of 'prefinish'. *)
MaybeFinish ==
    /\ Running("maybeFinish")
    /\ IF NeedFinish(length, writing)
         THEN /\ prefinished' = TRUE
              /\ stack' = PushIf(~prefinished, UserFrame,
                                 Push(FrameOf("finishCheck"), Rest))
         ELSE /\ UNCHANGED prefinished
              /\ stack' = Rest
    /\ UNCHANGED <<writableCorked, writableEnded, writableFinished, ending,
                   errorEmitted, writeVars, queueVars, logVars, pendingCallbacks,
                   immediates>>

FinishCheck ==
    /\ Running("finishCheck")
    /\ IF pendingCallbacks = 0
         THEN /\ writableFinished' = TRUE
              /\ finishes' = finishes + 1
              /\ stack' = Push(UserFrame, Rest)
         ELSE /\ UNCHANGED <<writableFinished, finishes>>
              /\ stack' = Rest
    /\ UNCHANGED <<writableCorked, writableEnded, ending, prefinished, errorEmitted,
                   writeVars, queueVars, calls, answered, pendingCallbacks, immediates>>

(* _endWritable: `ending' before _maybeFinish, writableEnded and 'end' after. *)
EndWritable ==
    /\ Running("endWritable")
    /\ IF ~ending /\ ~writableFinished
         THEN /\ ending' = TRUE
              /\ stack' = Push(FrameOf("maybeFinish"), Push(FrameOf("ended"), Rest))
         ELSE UNCHANGED ending /\ stack' = Rest
    /\ UNCHANGED <<writableCorked, writableEnded, writableFinished, prefinished,
                   errorEmitted, writeVars, queueVars, logVars, pendingCallbacks,
                   immediates>>

Ended ==
    /\ Running("ended")
    /\ writableEnded' = TRUE
    /\ stack' = Push(UserFrame, Rest)
    /\ UNCHANGED <<writableCorked, writableFinished, ending, prefinished, errorEmitted,
                   writeVars, queueVars, logVars, pendingCallbacks, immediates>>

-----------------------------------------------------------------------------
(* The interface. *)

\* Variant: numbered from zero.
NewRequest_Zero(len) == [id |-> calls, len |-> len]
NewRequest(len) == [id |-> calls + 1, len |-> len]

\* User code honours the contract of finish() unless WritesInFinish says not.
MayWrite == InUserCode /\ calls < MaxWrites /\ (WritesInFinish \/ ~ending \/ writableEnded)

(* Writable:write after the end, or of something that is not a string. *)
WriteRejected(len) ==
    /\ MayWrite
    /\ writableEnded \/ InvalidChunks
    /\ calls' = calls + 1
    /\ stack' = Push(UserFrame,
                     Push(FrameFor("rejectLater", One(NewRequest(len)), FALSE), stack))
    /\ UNCHANGED <<flagVars, writeVars, queueVars, answered, finishes, pendingCallbacks,
                   immediates>>

RejectLater ==
    /\ Running("rejectLater")
    /\ immediates' = Append(immediates, [Head(stack) EXCEPT !.op = "answer"])
    /\ stack' = Rest
    /\ UNCHANGED <<flagVars, writeVars, queueVars, logVars, pendingCallbacks>>

(* Writable:_writeOrBuffer. *)
\* Variant: a corked stream with an idle sink writes through.
MustBuffer_IgnoresCork == writing
MustBuffer == writing \/ writableCorked # 0

Write(len) ==
    /\ MayWrite
    /\ ~writableEnded
    /\ calls' = calls + 1
    /\ pendingCallbacks' = pendingCallbacks + 1
    /\ length' = length + len
    /\ needDrain' = (needDrain \/ length' >= HighWaterMark)
    /\ \/ /\ MustBuffer
          /\ buffer' = Append(buffer, NewRequest(len))
          /\ UNCHANGED <<writeVars, stack>>
       \/ /\ ~MustBuffer
          /\ OnWrite(One(NewRequest(len)), len, stack)
          /\ UNCHANGED buffer
    /\ UNCHANGED <<flagVars, isBufferFlushing, answered, finishes, immediates>>

Cork ==
    /\ InUserCode
    /\ writableCorked < MaxCorks
    /\ writableCorked' = writableCorked + 1
    /\ UNCHANGED <<writableEnded, writableFinished, ending, prefinished, errorEmitted,
                   writeVars, queueVars, logVars, pendingCallbacks, immediates, stack>>

\* uncork() calls _flushBuffer, which returns at once while corks are left.
\* Variants: flushes under an outstanding write; does not flush.
FlushOnUncork_Busy == ~writableFinished
FlushOnUncork_Never == FALSE

FlushOnUncork == ~writing /\ ~writableFinished

Uncork ==
    /\ InUserCode
    /\ writableCorked # 0
    /\ writableCorked' = writableCorked - 1
    /\ stack' = PushIf(FlushOnUncork, FrameOf("flush"), stack)
    /\ UNCHANGED <<writableEnded, writableFinished, ending, prefinished, errorEmitted,
                   writeVars, queueVars, logVars, pendingCallbacks, immediates>>

(* Writable:finish; finish(chunk) is a write() followed by it. *)
Finish ==
    /\ InUserCode
    /\ writableCorked # 0 \/ (~ending /\ ~writableFinished)  \* else it changes nothing
    /\ writableCorked' = 0
    /\ stack' = PushIf(writableCorked # 0 /\ FlushOnUncork, FrameOf("flush"),
                       Push(FrameOf("endWritable"), stack))
    /\ UNCHANGED <<writableEnded, writableFinished, ending, prefinished, errorEmitted,
                   writeVars, queueVars, logVars, pendingCallbacks, immediates>>

\* A listener or callback returns.
Return ==
    /\ Running("user")
    /\ stack' = Rest
    /\ UNCHANGED <<flagVars, writeVars, queueVars, logVars, pendingCallbacks, immediates>>

\* The check phase runs a function given to setImmediate.
RunImmediate ==
    /\ stack = <<>> /\ immediates # <<>>
    /\ stack' = << Head(immediates) >>
    /\ immediates' = Tail(immediates)
    /\ UNCHANGED <<flagVars, writeVars, queueVars, logVars, pendingCallbacks>>

UserCall ==
    \/ \E len \in ChunkLengths : Write(len) \/ WriteRejected(len)
    \/ Cork \/ Uncork \/ Finish

StreamStep ==
    \/ SyncOff \/ OnWriteCompleted \/ Defer \/ Failed \/ EmitError
    \/ OnWriteCompletedNextTick \/ Answer \/ FlushBuffer \/ FlushLoop \/ FlushEnd
    \/ MaybeFinish \/ FinishCheck \/ EndWritable \/ Ended \/ RejectLater \/ Return

Next == UserCall \/ StreamStep \/ SinkCompletes \/ RunImmediate

Spec == Init /\ [][Next]_vars

-----------------------------------------------------------------------------
(* Every variable keeps its type. *)
TypeOK ==
    /\ writableCorked \in 0 .. MaxCorks
    /\ writableEnded \in BOOLEAN /\ writableFinished \in BOOLEAN /\ ending \in BOOLEAN
    /\ prefinished \in BOOLEAN /\ errorEmitted \in BOOLEAN /\ needDrain \in BOOLEAN
    /\ writing \in BOOLEAN /\ sync \in BOOLEAN /\ io \in BOOLEAN
    /\ isBufferFlushing \in BOOLEAN
    /\ writableLength \in Int /\ length \in Int /\ pendingCallbacks \in Int
    /\ buffer \in Seq(Request)
    /\ writeCallback \in Batch
    /\ immediates \in Seq(Frame)
    /\ stack \in Seq(Frame)
    /\ calls \in 0 .. MaxWrites /\ finishes \in Nat
    /\ handed \in Seq(1 .. MaxWrites) /\ answered \in Seq(1 .. MaxWrites)

\* The slow loop of _flushBuffer, whose bound is computed once, never indexes
\* a request that is not there, whatever a listener did meanwhile.
LoopInBuffer ==
    \A i \in DOMAIN stack :
       stack[i].op = "loop" => stack[i].left <= Len(buffer)

\* A write callback is called once at most, and only for a chunk that was handed
\* to the sink and is no longer being written, or was refused.
AnsweredOnce ==
    /\ \A i, j \in DOMAIN answered : answered[i] = answered[j] => i = j
    /\ writing => \A i \in DOMAIN answered :
                     \A j \in DOMAIN writeCallback.reqs :
                        answered[i] # writeCallback.reqs[j].id

\* 'finish' is emitted once, when the sink has answered for every accepted chunk.
FinishFlushed ==
    [][ finishes' # finishes =>
          finishes = 0 /\ ~writing /\ buffer = <<>> /\ length = 0 ]_vars

\* The underlying resource gets one chunk or batch at a time.
OneOutstanding == [][ handed' # handed => ~io /\ ~writing ]_vars

-----------------------------------------------------------------------------
\* User code that was called returns, the loop reaches its check phase again and
\* again, and the resource under the sink answers what it was given.
Fairness ==
    /\ WF_vars(StreamStep) /\ SF_vars(Return)
    /\ SF_vars(RunImmediate) /\ SF_vars(SinkCompletes)

FairSpec == Spec /\ Fairness
=============================================================================

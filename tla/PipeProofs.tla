----------------------------- MODULE PipeProofs -----------------------------
(***************************************************************************)
(* Proofs about Pipe for any sizes of chunks and marks, any number of      *)
(* calls of pipe() and unpipe(), and every order of the two streams'       *)
(* deferred work.  What is proved of each stream alone is used of the two  *)
(* together: this module is about the Readable, and Dest about the         *)
(* destination.                                                            *)
(***************************************************************************)
EXTENDS ReadableProofs, MCPipe

Dest == INSTANCE WritableProofs WITH
        MaxWrites <- MaxBytes, MaxCorks <- 0, ChunkLengths <- ChunkSizes \ {0},
        HighWaterMark <- SinkMark, HasWritev <- FALSE, SinkInListener <- FALSE,
        WritesInFinish <- FALSE, InvalidChunks <- FALSE,
        length <- wLength, sync <- wSync, buffer <- wBuffer, io <- wIo,
        immediates <- wImmediates, stack <- wStack

\* The chunks have a largest size, and are those of the source when it pushes objects,
\* each of size 1; the destination has room for something; a source that pushes after
\* its end of file pushes once in a _read.
PipesWhole ==
    /\ \E k \in ChunkSizes : \A j \in ChunkSizes : j <= k
    /\ TRUE \in ObjectModes => 1 \in ChunkSizes
    /\ SinkMark > 0
    /\ LatePushes => MaxPushes <= 1

-----------------------------------------------------------------------------
(* The destination, as Pipe names it and as its proofs do. *)

LEMMA DestConstants == Dest!WritableAssumption /\ Dest!SoundSink
BY ReadableAssumption, PipeAssumption DEF Dest!WritableAssumption, Dest!SoundSink,
   ReadableAssumption, PipeAssumption

LEMMA DestTyped == Dest!TypeOK => W!TypeOK
BY DEF W!TypeOK, Dest!TypeOK, W!Request, Dest!Request, W!Frame, Dest!Frame, W!FrameOps,
   Dest!FrameOps, W!Batch, Dest!Batch

LEMMA DestInit == W!Init => Dest!Init
BY DEF W!Init, Dest!Init, W!NoBatch, Dest!NoBatch

LEMMA DestVars == UNCHANGED destVars => UNCHANGED Dest!vars
BY DEF destVars, Dest!vars, Dest!flagVars, Dest!writeVars, Dest!queueVars, Dest!logVars

LEMMA DestFinish == W!Finish => Dest!Finish
BY DEF W!Finish, Dest!Finish, W!InUserCode, Dest!InUserCode, W!Running, Dest!Running,
   W!PushIf, Dest!PushIf, W!Push, Dest!Push, W!FrameOf, Dest!FrameOf, W!NoBatch,
   Dest!NoBatch, W!FlushOnUncork, Dest!FlushOnUncork, W!writeVars, Dest!writeVars,
   W!queueVars, Dest!queueVars, W!logVars, Dest!logVars

LEMMA DestWrite == ASSUME NEW len, W!Write(len) PROVE Dest!Write(len)
BY DEF W!Write, Dest!Write, W!MayWrite, Dest!MayWrite, W!InUserCode, Dest!InUserCode,
   W!Running, Dest!Running, W!MustBuffer, Dest!MustBuffer, W!NewRequest, Dest!NewRequest,
   W!OnWrite, Dest!OnWrite, W!One, Dest!One, W!Ids, Dest!Ids, W!Push, Dest!Push,
   W!FrameFor, Dest!FrameFor, W!FrameOf, Dest!FrameOf, W!NoBatch, Dest!NoBatch,
   W!writeVars, Dest!writeVars, W!flagVars, Dest!flagVars

LEMMA DestOwnStep == W!StreamStep \/ W!SinkCompletes \/ W!RunImmediate => Dest!OwnStep
<1> USE DEF W!Running, Dest!Running, W!Rest, Dest!Rest, W!Push, Dest!Push, W!PushIf,
            Dest!PushIf, W!FrameOf, Dest!FrameOf, W!FrameFor, Dest!FrameFor,
            W!LoopFrame, Dest!LoopFrame, W!UserFrame, Dest!UserFrame, W!NoBatch,
            Dest!NoBatch, W!One, Dest!One, W!Ids, Dest!Ids, W!OnWrite, Dest!OnWrite,
            W!AfterFailure, Dest!AfterFailure, W!AfterSuccess, Dest!AfterSuccess,
            W!NeedFinish, Dest!NeedFinish, W!DrainDue, Dest!DrainDue, W!AfterDrain,
            Dest!AfterDrain, W!OwnCount, Dest!OwnCount, W!CanFlush, Dest!CanFlush,
            W!flagVars, Dest!flagVars, W!writeVars, Dest!writeVars, W!queueVars,
            Dest!queueVars, W!logVars, Dest!logVars
<1>1. W!SyncOff => Dest!SyncOff
  BY DEF W!SyncOff, Dest!SyncOff
<1>2. W!OnWriteCompleted => Dest!OnWriteCompleted
  BY DEF W!OnWriteCompleted, Dest!OnWriteCompleted
<1>3. W!Defer => Dest!Defer
  BY DEF W!Defer, Dest!Defer
<1>4. W!Failed => Dest!Failed
  BY DEF W!Failed, Dest!Failed
<1>5. W!EmitError => Dest!EmitError
  BY DEF W!EmitError, Dest!EmitError
<1>6. W!OnWriteCompletedNextTick => Dest!OnWriteCompletedNextTick
  BY DEF W!OnWriteCompletedNextTick, Dest!OnWriteCompletedNextTick
<1>7. W!Answer => Dest!Answer
  BY DEF W!Answer, Dest!Answer
<1>8. W!FlushBuffer => Dest!FlushBuffer
  BY DEF W!FlushBuffer, Dest!FlushBuffer
<1>9. W!FlushLoop => Dest!FlushLoop
  BY DEF W!FlushLoop, Dest!FlushLoop
<1>10. W!FlushEnd => Dest!FlushEnd
  BY DEF W!FlushEnd, Dest!FlushEnd
<1>11. W!MaybeFinish => Dest!MaybeFinish
  BY DEF W!MaybeFinish, Dest!MaybeFinish
<1>12. W!FinishCheck => Dest!FinishCheck
  BY DEF W!FinishCheck, Dest!FinishCheck
<1>13. W!EndWritable => Dest!EndWritable
  BY DEF W!EndWritable, Dest!EndWritable
<1>14. W!Ended => Dest!Ended
  BY DEF W!Ended, Dest!Ended
<1>15. W!RejectLater => Dest!RejectLater
  BY DEF W!RejectLater, Dest!RejectLater
<1>16. W!Return => Dest!Return
  BY DEF W!Return, Dest!Return
<1>17. W!SinkCompletes => Dest!SinkCompletes
  BY DEF W!SinkCompletes, Dest!SinkCompletes
<1>18. W!RunImmediate => Dest!RunImmediate
  BY DEF W!RunImmediate, Dest!RunImmediate
<1> QED
  BY <1>1, <1>2, <1>3, <1>4, <1>5, <1>6, <1>7, <1>8, <1>9, <1>10, <1>11, <1>12, <1>13,
     <1>14, <1>15, <1>16, <1>17, <1>18 DEF W!StreamStep, Dest!OwnStep, Dest!StreamStep

\* What a step of the destination's own code does to what the pipe looks at: nothing is
\* written, what is there gets less, and 'drain' says that nothing is left.
DestRun == W!StreamStep \/ W!SinkCompletes \/ W!RunImmediate

LEMMA DestRunStep ==
    ASSUME Dest!Sound, DestRun
    PROVE  /\ Dest!Sound'
           /\ calls' = calls /\ wLength' <= wLength
           /\ finishes' \in {finishes, finishes + 1}
           /\ Dest!NotEnded => Dest!NotEnded'
           /\ needDrain /\ ~needDrain' => wLength' = 0
<1>1. Dest!OwnStep /\ Dest!PipedStep
  BY DestOwnStep DEF DestRun, Dest!PipedStep
<1>2. Dest!WritableAssumption /\ Dest!SoundSink
  BY DestConstants
<1>3. Dest!IInv /\ writableLength >= 0
  BY DEF Dest!Sound
<1>4. Dest!Sound'
  BY <1>1, <1>2, Dest!SoundStep
<1>5. calls' = calls
  BY <1>1, <1>2, Dest!OwnStepCalls
<1>6. wLength' <= wLength
  BY <1>1, <1>2, <1>3, Dest!LengthFalls
<1>7. finishes' \in {finishes, finishes + 1}
  BY <1>1, <1>2, Dest!FinishesRise
<1>8. Dest!NotEnded => Dest!NotEnded'
  BY <1>1, <1>2, <1>3, Dest!NotEndedStep
<1>9. needDrain /\ ~needDrain' => wLength' = 0
  BY <1>1, <1>2, Dest!DrainsEmpty
<1> QED
  BY <1>4, <1>5, <1>6, <1>7, <1>8, <1>9

\* What the pipe's own calls do to it.
LEMMA DestWritten ==
    ASSUME Dest!Sound, NEW len \in ChunkSizes \ {0}, W!Write(len)
    PROVE  /\ Dest!Sound'
           /\ calls' = calls + 1 /\ wLength' = wLength + len /\ finishes' = finishes
           /\ Dest!NotEnded => Dest!NotEnded'
<1>1. Dest!Write(len)
  BY DestWrite
<1>2. Dest!WritableAssumption /\ Dest!SoundSink
  BY DestConstants
<1>3. Dest!PipedStep
  BY <1>1 DEF Dest!PipedStep
<1>4. Dest!Sound'
  BY <1>2, <1>3, Dest!SoundStep
<1>5. Dest!NotEnded => Dest!NotEnded'
  BY <1>1, <1>2, Dest!NotEndedWrite
<1> QED
  BY <1>1, <1>4, <1>5 DEF Dest!Write

LEMMA DestFinished ==
    ASSUME Dest!Sound, W!Finish
    PROVE  /\ Dest!Sound'
           /\ calls' = calls /\ wLength' = wLength /\ finishes' = finishes
<1>1. Dest!Finish /\ Dest!PipedStep
  BY DestFinish DEF Dest!PipedStep
<1>2. Dest!Sound'
  BY <1>1, DestConstants, Dest!SoundStep
<1> QED
  BY <1>1, <1>2 DEF Dest!Finish, Dest!logVars, Dest!queueVars

LEMMA DestStays ==
    ASSUME UNCHANGED destVars
    PROVE  /\ Dest!Sound => Dest!Sound'
           /\ Dest!NotEnded => Dest!NotEnded'
           /\ UNCHANGED <<calls, wLength, finishes>>
<1>1. UNCHANGED Dest!vars
  BY DestVars
<1>2. Dest!Sound => Dest!Sound'
  BY <1>1, DestConstants, Dest!SoundStays
<1>3. Dest!NotEnded => Dest!NotEnded'
  BY DEF destVars, Dest!NotEnded
<1> QED
  BY <1>2, <1>3 DEF destVars

LEMMA DestGives ==
    ASSUME Dest!Sound
    PROVE  /\ W!TypeOK
           /\ calls \in 0 .. MaxBytes /\ wLength \in Int
           /\ \A i \in DOMAIN handed : handed[i] = i
           /\ finishes \in {0, 1}
           /\ finishes > 0 => ~Dest!NotEnded /\ wLength = 0 /\ Len(handed) = calls
<1>1. /\ Dest!TypeOK
      /\ \A i \in DOMAIN handed : handed[i] = i
      /\ finishes \in {0, 1}
      /\ finishes > 0 => ending /\ wLength = 0 /\ Len(handed) = calls
  BY DestConstants, Dest!SoundGives
<1>2. calls \in 0 .. MaxBytes /\ wLength \in Int
  BY <1>1 DEF Dest!TypeOK
<1> QED
  BY <1>1, <1>2, DestTyped DEF Dest!NotEnded

-----------------------------------------------------------------------------
(* The source. Its only reader is the flow that pipe() starts, which takes *)
(* one chunk at a time: what 'data' hands to the destination is a chunk    *)
(* that the source pushed.                                                 *)

Sized(c) == Len(c) \in ChunkSizes \ {0}
AllSized ==
    /\ ~misread /\ (objectMode => 1 \in ChunkSizes)
    /\ \A i \in DOMAIN buffer : Sized(buffer[i])

LEMMA LargestSize ==
    ASSUME PipesWhole
    PROVE  Largest \in Nat /\ \A k \in ChunkSizes : k \in Nat /\ k <= Largest
BY ReadableAssumption DEF PipesWhole, Largest

\* The frames that take nothing and fill nothing; those of a read() of the flow, and of
\* read(0), which takes nothing from strings; and those of _read.
Calm == {f \in Frame : /\ f.op \notin {"source", "fromBuffer", "pull"}
                       /\ f.op = "read" => f.arg = 0 /\ f.loop = "none"}
Readers == {f \in Frame : /\ f.op \in {"read", "fromBuffer"}
                          /\ f.arg \in Amounts /\ f.loop # "pull"}
Wanted(f) == f.arg = NoSize => flowing = "on"

InRead == \E f \in Readers, s \in Seq(Calm) : stack = Push(f, s) /\ Wanted(f)

\* While _read runs, 'readable' and the loop that reads more are left to later ticks.
Above(t) == {Push(More, t), Push(Emits, t), Push(Emits, Push(More, t))}

InCall ==
    /\ sync
    /\ \E g \in Sources, f \in Readers, s \in Seq(Calm) :
         /\ f.op = "fromBuffer" /\ Wanted(f)
         /\ \/ stack = Under(g, f, s) /\ (g.arg = 0 => ~readableEnded)
            \/ g.arg > 0 /\ stack \in Above(Under(g, f, s))

Shape == stack \in Seq(Calm) \/ InRead \/ InCall

SourceOK == ~readableListening /\ immediates \in Seq(Calm) /\ AllSized /\ Shape

\* The data that a step delivers is a chunk, to a stream that flows.
Emission ==
    \/ delivered' = delivered
    \/ /\ flowing = "on" /\ stack' \in Seq(Calm)
       /\ \E c \in Seq(Bytes) : Sized(c) /\ delivered' = delivered \o c

LEMMA CalmFrames ==
    /\ \A op \in {"emitReadable", "emitEnd", "flow", "more", "resumeTick", "resumed",
                  "resumeRead", "endTick", "readableTick"} : FrameOf(op) \in Calm
    /\ ReadFrame(0, "none") \in Calm
    /\ \A n \in Int : FrameWith("moreLoop", n) \in Calm /\ FrameWith("user", n) \in Calm
    /\ UserFrame \in Calm /\ More \in Calm /\ Emits \in Calm
    /\ ~readableListening => ReadableListener \in Calm
    /\ ReadFrame(NoSize, "flow") \in Readers
<1>1. UserFrame \in Calm
  BY ReadableAssumption DEF Calm, Frame, FrameWith, UserFrame
<1> QED
  BY <1>1 DEF Calm, Frame, FrameOf, FrameWith, ReadFrame, More, Emits, ReadableListener,
     Readers, Amounts, NoSize

LEMMA CalmPush ==
    /\ \A f \in Calm, s \in Seq(Calm) : Push(f, s) \in Seq(Calm)
    /\ <<>> \in Seq(Calm)
    /\ \A s \in Seq(Calm) : s \in Seq(Frame)
<1>1. \A s \in Seq(Calm) : s \in Seq(Frame)
  BY SeqMonotonic DEF Calm
<1> QED
  BY <1>1, PushIn, EmptySeq

LEMMA CalmCaller ==
    ASSUME stack \in Seq(Calm), MayCall
    PROVE  Caller \in Seq(Calm)
<1>1. CASE stack = <<>>
  BY <1>1, EmptySeq DEF Caller
<1>2. CASE stack # <<>>
  <2>1. Head(stack) \in Calm /\ Rest \in Seq(Calm)
    BY <1>2, RestIn
  <2>2. Head(stack).op = "user"
    BY <1>2 DEF MayCall, Running
  <2>3. [Head(stack) EXCEPT !.arg = @ - 1] \in Calm
    BY <2>1, <2>2 DEF Calm, Frame
  <2> QED
    BY <1>2, <2>1, <2>3, PushIn DEF Caller
<1> QED
  BY <1>1, <1>2

\* The flow takes the next chunk, whole.
LEMMA TakenIsHead ==
    ASSUME IInv, AllSized, NEW n \in Int, n > 0, buffer # <<>>, length # 0,
           objectMode \/ n = Len(Head(buffer))
    PROVE  /\ Taken(n).ret = Head(buffer) /\ Taken(n).left \in {Tail(buffer), <<>>}
           /\ Head(buffer) \in Seq(Bytes) /\ Sized(Head(buffer)) /\ ~SpansChunks(n)
<1> DEFINE h == Head(buffer)
           t == Tail(buffer)
<1>1. buffer \in Seq(Seq(Bytes)) /\ length \in Nat /\ objectMode \in BOOLEAN
      /\ length = IF objectMode THEN Len(buffer) ELSE Len(FlattenSeq(buffer))
  BY DEF IInv, TypeOK, InOrder, Bytes, AllSized
<1>2. buffer = <<h>> \o t /\ h \in Seq(Bytes) /\ t \in Seq(Seq(Bytes))
  BY <1>1, ConsHeadTail
<1>3. Sized(h)
  <2>1. 1 \in DOMAIN buffer /\ h = buffer[1]
    BY <1>1, LenProperties, EmptySeq
  <2> QED
    BY <2>1 DEF AllSized
<1>4. CASE objectMode \/ n < length
  <2>1. objectMode \/ (n < length /\ n = Len(Head(buffer)))
    BY <1>1, <1>4
  <2>2. Taken(n).ret = h /\ Taken(n).left = t
    BY <2>1 DEF Taken
  <2>3. ~SpansChunks(n)
    <3>1. Len(h) \in Nat
      BY <1>2, LenProperties
    <3> QED
      BY <2>1, <3>1 DEF SpansChunks
  <2> QED
    BY <1>2, <1>3, <2>2, <2>3
<1>5. CASE ~objectMode /\ ~(n < length)
  <2>1. Taken(n).ret = FlattenSeq(buffer) /\ Taken(n).left = <<>>
    BY <1>1, <1>5 DEF Taken
  <2>2. FlattenSeq(t) \in Seq(Bytes) /\ FlattenSeq(buffer) = h \o FlattenSeq(t)
    BY <1>2, FlattenType, FlattenCons
  <2>3. Len(FlattenSeq(buffer)) = Len(h) + Len(FlattenSeq(t)) /\ Len(h) \in Nat
        /\ Len(FlattenSeq(t)) \in Nat
    BY <1>2, <2>2, ConcatProperties, LenProperties
  <2>4. Len(FlattenSeq(t)) = 0
    <3> HIDE DEF h, t
    <3>1. n = Len(h)
      BY <1>5 DEF h
    <3> QED
      BY <1>1, <1>5, <2>3, <3>1
  <2>5. FlattenSeq(t) = <<>>
    BY <2>2, <2>4, EmptySeq
  <2>6. h \o <<>> = h
    BY <1>2, ConcatEmptySeq
  <2>7. ~SpansChunks(n)
    BY <1>5 DEF SpansChunks
  <2> QED
    BY <1>2, <1>3, <2>1, <2>2, <2>5, <2>6, <2>7
<1> QED
  BY <1>1, <1>4, <1>5

\* A push keeps the sizes; while _read runs, it leaves no listener to run.
LEMMA PushesSized ==
    ASSUME IInv, AllSized, NEW rest, Pushes(rest), UNCHANGED objectMode
    PROVE  /\ AllSized'
           /\ \/ /\ delivered' = delivered
                 /\ stack' \in {rest, AfterBuffering(rest), AfterEof(rest)}
              \/ /\ delivered' = delivered
                 /\ LatePushes /\ readableEnded /\ stack' = Push(UserFrame, rest)
              \/ /\ Direct /\ stack' = AfterDirect(rest)
                 /\ \E c \in Seq(Bytes) : Sized(c) /\ delivered' = delivered \o c
<1>1. /\ buffer \in Seq(Seq(Bytes)) /\ sourced \in 0 .. MaxBytes /\ MaxBytes \in Nat
      /\ objectMode \in BOOLEAN /\ (objectMode => 1 \in ChunkSizes)
  BY ReadableAssumption DEF IInv, TypeOK, Bytes, AllSized
<1>2. CASE PushNothing(rest) \/ PushEof(rest)
  <2>1. /\ UNCHANGED <<buffer, delivered, misread>>
        /\ stack' \in {rest, AfterEof(rest)}
    BY <1>2 DEF PushNothing, PushEof, bufferVars
  <2> QED
    BY <2>1 DEF AllSized, Sized
<1>3. CASE LatePushes /\ PushTooLate(rest)
  BY <1>3 DEF PushTooLate, bufferVars, AllSized, Sized
<1>4. ASSUME NEW k \in ChunkSizes \ {0}, sourced + k <= MaxBytes,
             PushChunk(SourceData(k), rest)
      PROVE  /\ AllSized'
             /\ \/ delivered' = delivered /\ stack' = AfterBuffering(rest)
                \/ /\ Direct /\ stack' = AfterDirect(rest)
                   /\ \E c \in Seq(Bytes) : Sized(c) /\ delivered' = delivered \o c
  <2>1. PICK c : c = SourceData(k)
    OBVIOUS
  <2>2. k \in Nat /\ sourced \in Nat
    BY <1>1, ReadableAssumption
  <2>3. Len(c) = k /\ c \in Seq(Bytes)
    <3>1. \A i \in 1 .. k : sourced + i \in Bytes
      BY <1>1, <1>4, <2>2 DEF Bytes
    <3> QED
      BY <2>1, <2>2, <3>1 DEF SourceData
  <2>4. Sized(c)
    BY <2>3 DEF Sized
  <2>5. CASE Direct
    <3>1. /\ UNCHANGED <<buffer, misread>> /\ delivered' = delivered \o c
          /\ stack' = AfterDirect(rest)
      BY <1>4, <2>1, <2>5 DEF PushChunk
    <3> QED
      BY <2>3, <2>4, <2>5, <3>1 DEF AllSized, Sized
  <2>6. CASE ~Direct
    <3>1. /\ buffer' = Append(buffer, c) /\ delivered' = delivered
          /\ stack' = AfterBuffering(rest) /\ misread' = misread
      BY <1>4, <2>1, <2>6 DEF PushChunk
    <3>2. \A i \in DOMAIN buffer' :
             buffer'[i] = c \/ (i \in DOMAIN buffer /\ buffer'[i] = buffer[i])
      BY <1>1, <2>3, <3>1, AppendProperties
    <3>3. AllSized'
      BY <2>4, <3>1, <3>2 DEF AllSized, Sized
    <3> QED
      BY <3>1, <3>3
  <2> QED
    BY <2>5, <2>6
<1>5. \/ PushNothing(rest) \/ PushEof(rest) \/ (LatePushes /\ PushTooLate(rest))
      \/ \E k \in ChunkSizes \ {0} : sourced + k <= MaxBytes /\ PushChunk(SourceData(k), rest)
  <2>1. CASE \E k \in (IF objectMode THEN {1} ELSE ChunkSizes) :
               /\ sourced + k <= MaxBytes
               /\ IF k = 0 THEN PushNothing(rest) ELSE PushChunk(SourceData(k), rest)
    <3>1. PICK k \in (IF objectMode THEN {1} ELSE ChunkSizes) :
               /\ sourced + k <= MaxBytes
               /\ IF k = 0 THEN PushNothing(rest) ELSE PushChunk(SourceData(k), rest)
      BY <2>1
    <3>2. k \in ChunkSizes
      <4>1. CASE objectMode
        BY <1>1, <3>1, <4>1
      <4>2. CASE ~objectMode
        BY <3>1, <4>2
      <4> QED
        BY <4>1, <4>2
    <3> QED
      BY <3>1, <3>2
  <2> QED
    BY <2>1 DEF Pushes
<1> QED
  BY <1>2, <1>3, <1>4, <1>5 DEF PushTooLate

\* What the stream does by itself.
SourceRun == StreamStep \/ Return \/ SourcePush \/ RunImmediate

LEMMA SourceKept ==
    ASSUME SourceRun
    PROVE  /\ UNCHANGED <<flowing, readableListening, objectMode, unshifts>>
           /\ ~ReadFromBuffer /\ ~SourcePush => UNCHANGED <<buffer, delivered, misread>>
BY DEF SourceRun, StreamStep, Read, ReadFromBuffer, Flow, EmitReadable, ReadableTick, EmitEnd,
   EndTick, MaybeReadMore, MoreLoop, ResumeTick, Resumed, ResumeRead, ReadReturns, Return,
   SourcePush, RunImmediate, flagVars, sourceVars, bufferVars

\* The frame on top, and those under it.
LEMMA OnTop ==
    ASSUME NEW f \in Frame, NEW s \in Seq(Frame), stack = Push(f, s)
    PROVE  stack # <<>> /\ Head(stack) = f /\ Rest = s
BY PushIn DEF Rest

LEMMA ReadShape ==
    ASSUME IInv, NEW f \in Readers, NEW s \in Seq(Calm), stack = Push(f, s), Wanted(f), Read
    PROVE  Shape' /\ UNCHANGED immediates
<1>0. f \in Frame /\ f.arg \in Amounts /\ f.loop # "pull"
  BY DEF Readers
<1>1. stack # <<>> /\ Head(stack) = f /\ Rest = s
  BY <1>0, OnTop, CalmPush
<1>2. PICK b : b = [f EXCEPT !.op = "fromBuffer"]
  OBVIOUS
<1>3. b \in Readers /\ b.op = "fromBuffer" /\ b.arg = f.arg
  BY <1>0, <1>2 DEF Readers, Frame
<1>4. UNCHANGED <<immediates, flowing, readableEnded>>
  BY DEF Read, endVars
<1>5. Wanted(b)'
  BY <1>3, <1>4 DEF Wanted
<1>6. /\ Push(FrameOf("emitEnd"), s) \in Seq(Calm)
      /\ PushIf(length > 0, FrameOf("emitReadable"), s) \in Seq(Calm)
  BY CalmFrames, CalmPush DEF PushIf
<1>7. CASE stack' \in Seq(Calm)
  BY <1>4, <1>7 DEF Shape
<1>8. CASE stack' = Push(b, s)
  <2>1. InRead'
    BY <1>3, <1>5, <1>8 DEF InRead
  <2> QED
    BY <1>4, <2>1 DEF Shape
<1>9. CASE NeedRead(f.arg) /\ sync' /\ stack' = Push(FrameOf("source"), Push(b, s))
  <2>1. ~readableEnded'
    BY <1>4, <1>9 DEF NeedRead
  <2>2. Asking \in Sources /\ Asking.arg = 0
    BY FrameTypes DEF Sources, Asking, FrameOf
  <2>3. stack' = Under(Asking, b, s)
    BY <1>9 DEF Under, Asking
  <2>4. InCall'
    BY <1>3, <1>5, <1>9, <2>1, <2>2, <2>3 DEF InCall
  <2> QED
    BY <1>4, <2>4 DEF Shape
<1>10. \/ stack' \in Seq(Calm)
       \/ stack' = Push(b, s)
       \/ NeedRead(f.arg) /\ sync' /\ stack' = Push(FrameOf("source"), Push(b, s))
  BY <1>1, <1>2, <1>6 DEF Read
<1> QED
  BY <1>7, <1>8, <1>9, <1>10

LEMMA TakeShape ==
    ASSUME IInv, AllSized, NEW f \in Readers, NEW s \in Seq(Calm), stack = Push(f, s),
           Wanted(f), ReadFromBuffer
    PROVE  AllSized' /\ stack' \in Seq(Calm) /\ UNCHANGED immediates /\ Emission
<1>0. f \in Frame /\ f.arg \in Amounts /\ f.loop \in {"none", "flow"}
  BY DEF Readers, Frame
<1>1. stack # <<>> /\ Head(stack) = f /\ Rest = s
  BY <1>0, OnTop, CalmPush
<1>2. UNCHANGED <<immediates, objectMode, flowing>>
  BY DEF ReadFromBuffer, sourceVars
<1>3. stack' \in Seq(Calm)
  <2>1. Continue(f.loop, s) \in Seq(Calm)
    BY <1>0, CalmFrames, CalmPush DEF Continue, PushIf
  <2>2. Push(UserFrame, Continue(f.loop, s)) \in Seq(Calm)
    BY <2>1, CalmFrames, CalmPush
  <2>3. stack' \in {s, <<>>, Push(UserFrame, Continue(f.loop, s))}
    BY <1>1 DEF ReadFromBuffer
  <2> QED
    BY <2>2, <2>3, CalmPush
<1>4. CASE UNCHANGED <<buffer, delivered, misread>>
  BY <1>2, <1>3, <1>4 DEF AllSized, Sized, Emission
<1>5. CASE ~UNCHANGED <<buffer, delivered, misread>>
  <2>0. PICK n : n = HowMuchToRead(f.arg, FALSE)
    OBVIOUS
  <2>1. ~(n <= 0) /\ buffer # <<>> /\ length # 0
    BY <1>1, <1>5, <2>0 DEF ReadFromBuffer, bufferVars
  <2>2. /\ objectMode \in BOOLEAN /\ length \in Int /\ buffer \in Seq(Seq(Bytes))
        /\ flowing \in {"unset", "on", "off"}
    BY DEF IInv, TypeOK, Bytes
  <2>3. Head(buffer) \in Seq(Bytes) /\ Len(Head(buffer)) \in Nat
    BY <2>1, <2>2, ConsHeadTail, LenProperties
  <2>4. n \in Int /\ n > 0 /\ (objectMode \/ n = Len(Head(buffer))) /\ f.arg = NoSize
    BY <1>0, <2>0, <2>1, <2>2, <2>3 DEF HowMuchToRead, SizeOfNext, Amounts, NoSize, Wanted
  <2>5. /\ Taken(n).ret = Head(buffer) /\ Taken(n).left \in {Tail(buffer), <<>>}
        /\ Sized(Head(buffer)) /\ ~SpansChunks(n)
    BY <2>1, <2>4, TakenIsHead
  <2>6. buffer' = Taken(n).left /\ delivered' = delivered \o Taken(n).ret
        /\ (misread' => misread)
    BY <1>1, <1>5, <2>0, <2>5 DEF ReadFromBuffer, bufferVars
  <2>7. buffer' \in {Tail(buffer), <<>>} /\ delivered' = delivered \o Head(buffer)
    BY <2>5, <2>6
  <2>8. \A i \in DOMAIN buffer' : i + 1 \in DOMAIN buffer /\ buffer'[i] = buffer[i + 1]
    <3>1. CASE buffer' = <<>>
      BY <3>1, EmptySeq
    <3>2. CASE buffer' = Tail(buffer)
      BY <2>1, <2>2, <3>2, HeadTailProperties
    <3> QED
      BY <2>7, <3>1, <3>2
  <2>9. AllSized'
    BY <1>2, <2>6, <2>8 DEF AllSized, Sized
  <2>10. Emission
    BY <1>3, <2>3, <2>4, <2>5, <2>7 DEF Emission, Wanted
  <2> QED
    BY <1>2, <1>3, <2>9, <2>10
<1> QED
  BY <1>4, <1>5

\* In _read: it pushes, or returns.
LEMMA CallTopShape ==
    ASSUME PipesWhole, IInv, AllSized, sync, SourceRun, immediates \in Seq(Calm),
           NEW g \in Sources, NEW f \in Readers, NEW s \in Seq(Calm),
           f.op = "fromBuffer", Wanted(f),
           stack = Under(g, f, s), g.arg = 0 => ~readableEnded
    PROVE  AllSized' /\ Shape' /\ UNCHANGED <<immediates, delivered>>
<1>0. g \in Frame /\ f \in Frame /\ s \in Seq(Frame) /\ g.op = "source" /\ g.arg \in Nat
  BY CalmPush DEF Sources, Readers
<1>1. stack # <<>> /\ Head(stack) = g /\ Rest = Push(f, s)
  <2>1. /\ Under(g, f, s) # <<>> /\ Head(Under(g, f, s)) = g
        /\ Tail(Under(g, f, s)) = Push(f, s)
    BY <1>0, UnderIs, ZenonT(30)
  <2> QED
    BY <2>1 DEF Rest
<1>2. \/ ReadReturns
      \/ SourcePush /\ g.arg < MaxPushes /\ Pushes(Push([g EXCEPT !.arg = @ + 1], Rest))
  BY <1>0, <1>1 DEF SourceRun, MayCall, StreamStep, Read, ReadFromBuffer, Flow, EmitReadable,
     ReadableTick, EmitEnd, EndTick, MaybeReadMore, MoreLoop, ResumeTick, Resumed,
     ResumeRead, Return, SourcePush, RunImmediate, Running
<1>3. Wanted(f)'
  BY SourceKept DEF Wanted
<1>4. CASE ReadReturns
  <2>1. /\ UNCHANGED <<immediates, objectMode, buffer, delivered, misread>>
        /\ stack' = Push(f, s)
    BY <1>1, <1>4 DEF ReadReturns, bufferVars
  <2>2. InRead'
    BY <1>3, <2>1 DEF InRead
  <2> QED
    BY <2>1, <2>2 DEF AllSized, Sized, Shape
<1>5. CASE SourcePush /\ g.arg < MaxPushes /\ Pushes(Push([g EXCEPT !.arg = @ + 1], Rest))
  <2>1. PICK h : h = [g EXCEPT !.arg = @ + 1]
    OBVIOUS
  <2>2. h \in Sources /\ h.arg = g.arg + 1 /\ h.arg > 0
    BY <1>0, <2>1 DEF Sources, Frame
  <2>3. PICK t : t = Under(h, f, s)
    OBVIOUS
  <2>4. Pushes(t)
    BY <1>1, <1>5, <2>1, <2>3 DEF Under
  <2>5. UNCHANGED <<immediates, objectMode, flowing, sync>>
    BY <1>5 DEF SourcePush
  <2>6. ~(LatePushes /\ readableEnded)
    <3> SUFFICES ASSUME LatePushes, readableEnded PROVE FALSE
      OBVIOUS
    <3>1. MaxPushes \in Nat /\ MaxPushes <= 1
      BY ReadableAssumption DEF PipesWhole
    <3> QED
      BY <1>0, <1>5, <3>1
  <2>7. /\ AllSized' /\ delivered' = delivered
        /\ stack' \in {t, AfterBuffering(t), AfterEof(t)}
    BY <2>4, <2>5, <2>6, PushesSized DEF Direct
  <2>8. stack' \in {t} \cup Above(t)
    BY <2>7 DEF AfterBuffering, AfterEof, PushIf, More, Emits, Above
  <2>9. InCall'
    <3>1. \/ stack' = Under(h, f, s) /\ (h.arg = 0 => ~readableEnded')
          \/ h.arg > 0 /\ stack' \in Above(Under(h, f, s))
      BY <2>2, <2>3, <2>8
    <3> QED
      BY <1>3, <2>2, <2>5, <3>1 DEF InCall
  <2> QED
    BY <2>5, <2>7, <2>9 DEF Shape
<1> QED
  BY <1>2, <1>4, <1>5

LEMMA CallAboveShape ==
    ASSUME IInv, AllSized, sync, SourceRun, immediates \in Seq(Calm),
           NEW g \in Sources, NEW f \in Readers, NEW s \in Seq(Calm),
           f.op = "fromBuffer", Wanted(f), g.arg > 0, stack \in Above(Under(g, f, s))
    PROVE  AllSized' /\ Shape' /\ immediates' \in Seq(Calm) /\ UNCHANGED delivered
<1>1. More \in Frame /\ Emits \in Frame /\ More.op = "more" /\ Emits.op = "emitReadable"
  BY DEF More, Emits, FrameOf, Frame
<1>2. PICK u : u = Under(g, f, s)
  OBVIOUS
<1>3. PICK v : v = Push(More, u)
  OBVIOUS
<1>4. u \in Seq(Frame) /\ v \in Seq(Frame)
  <2>1. g \in Frame /\ f \in Frame /\ s \in Seq(Frame)
    BY CalmPush DEF Sources, Readers
  <2> QED
    BY <1>1, <1>2, <1>3, <2>1, UnderIs, PushIn
<1>5. stack \in {Push(More, u), Push(Emits, u), Push(Emits, v)}
  BY <1>2, <1>3 DEF Above
<1>6. stack # <<>> /\ Head(stack) \in {More, Emits} /\ Rest \in {u, v}
  <2>1. \A h \in Frame, r \in Seq(Frame) :
          Push(h, r) # <<>> /\ Head(Push(h, r)) = h /\ Tail(Push(h, r)) = r
    BY PushIn
  <2> QED
    BY <1>1, <1>3, <1>4, <1>5, <2>1 DEF Rest
<1>7. EmitReadable \/ MaybeReadMore
  BY <1>1, <1>6 DEF SourceRun, MayCall, StreamStep, Read, ReadFromBuffer, Flow, ReadableTick,
     EmitEnd, EndTick, MoreLoop, ResumeTick, Resumed, ResumeRead, ReadReturns, Return,
     SourcePush, RunImmediate, Running
<1>8. stack' = Rest
  BY <1>7 DEF EmitReadable, MaybeReadMore, EmitsNow
<1>9. UNCHANGED <<objectMode, flowing, buffer, delivered, misread, sync>>
  BY <1>7 DEF EmitReadable, MaybeReadMore, bufferVars, sourceVars
<1>10. immediates' \in Seq(Calm)
  <2>1. immediates' \in {immediates, Append(immediates, FrameOf("readableTick")),
                         Append(immediates, FrameWith("moreLoop", -1))}
    BY <1>7 DEF EmitReadable, MaybeReadMore
  <2>2. \A h \in Calm : Append(immediates, h) \in Seq(Calm)
    BY AppendProperties
  <2> QED
    BY <2>1, <2>2, CalmFrames
<1>11. InCall'
  <2>1. stack' = Under(g, f, s) \/ stack' \in Above(Under(g, f, s))
    BY <1>2, <1>3, <1>6, <1>8 DEF Above
  <2>2. Wanted(f)'
    BY <1>9 DEF Wanted
  <2>3. \/ stack' = Under(g, f, s) /\ (g.arg = 0 => ~readableEnded')
        \/ g.arg > 0 /\ stack' \in Above(Under(g, f, s))
    BY <2>1
  <2> QED
    BY <1>9, <2>2, <2>3 DEF InCall
<1> QED
  BY <1>9, <1>10, <1>11 DEF AllSized, Sized, Shape

\* Everything else: the flow starts a read(), the rest only leaves calm frames.
LEMMA CalmStream ==
    ASSUME stack \in Seq(Calm), immediates \in Seq(Calm), ~readableListening, length \in Int,
           StreamStep, ~Read
    PROVE  /\ stack' \in Seq(Calm) \/ InRead'
           /\ immediates' \in Seq(Calm) /\ ~ReadFromBuffer
<1>1. stack # <<>> /\ Head(stack) \in Calm /\ Rest \in Seq(Calm)
  BY RestIn DEF StreamStep, Running, ReadFromBuffer, Flow, EmitReadable, ReadableTick,
     EmitEnd, EndTick, MaybeReadMore, MoreLoop, ResumeTick, Resumed, ResumeRead, ReadReturns
<1>2. /\ \A op \in {"emitReadable", "emitEnd", "flow", "more", "resumeTick", "resumed",
                    "resumeRead", "endTick", "readableTick"} : FrameOf(op) \in Calm
      /\ ReadFrame(0, "none") \in Calm
      /\ \A n \in Int : FrameWith("moreLoop", n) \in Calm
      /\ UserFrame \in Calm /\ ReadableListener \in Calm /\ -1 \in Int
  BY CalmFrames
<1>3. \A f \in Calm, s \in Seq(Calm) : Push(f, s) \in Seq(Calm)
  BY CalmPush
<1>4. \A f \in Calm : Append(immediates, f) \in Seq(Calm)
  BY AppendProperties
<1>5. ~ReadFromBuffer /\ ~ReadReturns
  BY <1>1 DEF ReadFromBuffer, ReadReturns, Running, Calm
<1>6. CASE Flow
  <2>1. stack' = PushIf(flowing = "on", ReadFrame(NoSize, "flow"), Rest)
    BY <1>1, <1>6 DEF Flow, Running, Calm
  <2>2. UNCHANGED <<flowing, immediates>>
    BY <1>6 DEF Flow
  <2>3. CASE flowing = "on"
    <3>1. PICK r : r = ReadFrame(NoSize, "flow")
      OBVIOUS
    <3>2. r \in Readers
      BY <3>1, CalmFrames
    <3>3. PICK s \in Seq(Calm) : s = Rest
      BY <1>1
    <3>4. stack' = Push(r, s) /\ Wanted(r)'
      BY <2>1, <2>2, <2>3, <3>1, <3>3 DEF PushIf, Wanted
    <3>5. InRead'
      BY <3>2, <3>4 DEF InRead
    <3> QED
      BY <1>5, <2>2, <3>5
  <2>4. CASE flowing # "on"
    BY <1>1, <1>5, <2>1, <2>2, <2>4 DEF PushIf
  <2> QED
    BY <2>3, <2>4
<1>7. CASE EmitReadable
  BY <1>1, <1>2, <1>3, <1>4, <1>5, <1>7 DEF EmitReadable
<1>8. CASE ReadableTick
  BY <1>1, <1>2, <1>3, <1>5, <1>8 DEF ReadableTick
<1>9. CASE EmitEnd
  BY <1>1, <1>2, <1>4, <1>5, <1>9 DEF EmitEnd
<1>10. CASE EndTick
  BY <1>1, <1>2, <1>3, <1>5, <1>10 DEF EndTick
<1>11. CASE MaybeReadMore
  BY <1>1, <1>2, <1>4, <1>5, <1>11 DEF MaybeReadMore
<1>12. CASE MoreLoop
  BY <1>1, <1>2, <1>3, <1>5, <1>12 DEF MoreLoop
<1>13. CASE ResumeTick
  BY <1>1, <1>2, <1>3, <1>5, <1>13 DEF ResumeTick, PushIf
<1>14. CASE Resumed
  BY <1>1, <1>2, <1>3, <1>5, <1>14 DEF Resumed, AfterResume
<1>15. CASE ResumeRead
  BY <1>1, <1>2, <1>3, <1>5, <1>15 DEF ResumeRead, PushIf
<1> QED
  BY <1>5, <1>6, <1>7, <1>8, <1>9, <1>10, <1>11, <1>12, <1>13, <1>14, <1>15 DEF StreamStep

LEMMA CalmSource ==
    ASSUME IInv, AllSized, stack \in Seq(Calm), SourcePush
    PROVE  /\ AllSized' /\ stack' \in Seq(Calm) /\ UNCHANGED immediates
           /\ Emission
<1>1. PICK rest \in Seq(Calm) : Pushes(rest)
  <2>1. ~Running("source")
    BY RestIn DEF Running, Calm
  <2>2. MayCall => Caller \in Seq(Calm)
    BY CalmCaller
  <2> QED
    BY <2>1, <2>2 DEF SourcePush
<1>2. UNCHANGED <<immediates, objectMode>>
  BY DEF SourcePush
<1>3. /\ AllSized'
      /\ \/ /\ delivered' = delivered
            /\ stack' \in {rest, AfterBuffering(rest), AfterEof(rest), Push(UserFrame, rest)}
         \/ /\ flowing = "on" /\ stack' = AfterDirect(rest)
            /\ \E c \in Seq(Bytes) : Sized(c) /\ delivered' = delivered \o c
  BY <1>1, <1>2, PushesSized DEF Direct
<1>4. /\ FrameOf("emitReadable") \in Calm /\ FrameOf("more") \in Calm /\ UserFrame \in Calm
      /\ ReadFrame(0, "none") \in Calm
  BY CalmFrames
<1>5. /\ AfterDirect(rest) \in Seq(Calm) /\ AfterBuffering(rest) \in Seq(Calm)
      /\ AfterEof(rest) \in Seq(Calm) /\ Push(UserFrame, rest) \in Seq(Calm)
  BY <1>4, CalmPush DEF AfterDirect, AfterBuffering, AfterEof, PushIf
<1> QED
  BY <1>2, <1>3, <1>5 DEF Emission

LEMMA CalmLoop ==
    ASSUME stack \in Seq(Calm), immediates \in Seq(Calm), Return \/ RunImmediate
    PROVE  stack' \in Seq(Calm) /\ immediates' \in Seq(Calm)
<1>1. stack # <<>> => Rest \in Seq(Calm)
  BY RestIn
<1>2. stack \in Seq(Frame)
  BY CalmPush
<1> QED
  BY <1>1, <1>2, LoopKeeps DEF Keeps

\* In any shape but the first it is clear what runs.
LEMMA ShapeRuns ==
    ASSUME Shape
    PROVE  \/ stack \in Seq(Calm)
           \/ /\ InRead /\ stack # <<>> /\ Head(stack).op \in {"read", "fromBuffer"}
           \/ /\ InCall /\ stack # <<>>
              /\ Head(stack).op \in {"source", "more", "emitReadable"}
<1>1. CASE InRead
  <2>1. PICK f \in Readers, s \in Seq(Calm) : stack = Push(f, s)
    BY <1>1 DEF InRead
  <2>2. stack # <<>> /\ Head(stack) = f
    BY <2>1, CalmPush, OnTop DEF Readers
  <2> QED
    BY <1>1, <2>2 DEF Readers
<1>2. CASE InCall
  <2>1. PICK g \in Sources, f \in Readers, s \in Seq(Calm) :
          stack = Under(g, f, s) \/ stack \in Above(Under(g, f, s))
    BY <1>2 DEF InCall
  <2>2. g \in Frame /\ f \in Frame /\ s \in Seq(Frame) /\ g.op = "source"
    BY CalmPush DEF Sources, Readers
  <2>3. More \in Frame /\ Emits \in Frame /\ More.op = "more" /\ Emits.op = "emitReadable"
    BY DEF More, Emits, FrameOf, Frame
  <2>4. PICK u \in Seq(Frame) : u = Under(g, f, s) /\ u # <<>> /\ Head(u) = g
    <3>1. Under(g, f, s) \in Seq(Frame) /\ Under(g, f, s) # <<>> /\ Head(Under(g, f, s)) = g
      BY <2>2, UnderIs, ZenonT(30)
    <3> QED
      BY <3>1
  <2>5. PICK v \in Seq(Frame) : v = Push(More, u)
    BY <2>3, PushIn
  <2>6. stack \in {u, Push(More, u), Push(Emits, u), Push(Emits, v)}
    BY <2>1, <2>4, <2>5 DEF Above
  <2>7. \A h \in Frame, r \in Seq(Frame) : Push(h, r) # <<>> /\ Head(Push(h, r)) = h
    BY PushIn
  <2>8. stack # <<>> /\ Head(stack) \in {g, More, Emits}
    BY <2>3, <2>4, <2>6, <2>7
  <2> QED
    BY <1>2, <2>2, <2>3, <2>8
<1> QED
  BY <1>1, <1>2 DEF Shape

LEMMA SourceRunShape ==
    ASSUME PipesWhole, IInv, SourceOK, SourceRun
    PROVE  SourceOK' /\ Emission
<1>0. /\ ~readableListening /\ immediates \in Seq(Calm) /\ AllSized /\ Shape /\ length \in Int
  BY DEF SourceOK, IInv, TypeOK
<1>1. UNCHANGED <<flowing, readableListening, objectMode>>
  BY SourceKept
<1>2. SUFFICES AllSized' /\ Shape' /\ immediates' \in Seq(Calm) /\ Emission
  BY <1>0, <1>1 DEF SourceOK
<1>3. ~ReadFromBuffer /\ ~SourcePush => AllSized' /\ Emission
  <2> SUFFICES ASSUME UNCHANGED <<buffer, delivered, misread>> PROVE AllSized' /\ Emission
    BY SourceKept
  <2> QED
    BY <1>0, <1>1 DEF AllSized, Sized, Emission
<1>4. ASSUME NEW f \in Readers, NEW s \in Seq(Calm), stack = Push(f, s), Wanted(f)
      PROVE  AllSized' /\ Shape' /\ immediates' \in Seq(Calm) /\ Emission
  <2>1. stack # <<>> /\ Head(stack) = f /\ f.op \in {"read", "fromBuffer"}
    BY <1>4, CalmPush, OnTop DEF Readers
  <2>2. Read \/ ReadFromBuffer
    BY <2>1 DEF SourceRun, MayCall, StreamStep, Flow, EmitReadable, ReadableTick, EmitEnd,
       EndTick, MaybeReadMore, MoreLoop, ResumeTick, Resumed, ResumeRead, ReadReturns,
       Return, SourcePush, RunImmediate, Running
  <2>3. CASE Read
    <3>1. ~ReadFromBuffer /\ ~SourcePush
      BY <2>3 DEF Read, ReadFromBuffer, SourcePush, MayCall, Running
    <3>2. Shape' /\ UNCHANGED immediates
      BY <1>4, <2>3, ReadShape
    <3> QED
      BY <1>0, <1>3, <3>1, <3>2
  <2>4. CASE ReadFromBuffer
    <3>1. AllSized' /\ stack' \in Seq(Calm) /\ UNCHANGED immediates /\ Emission
      BY <1>0, <1>4, <2>4, TakeShape
    <3> QED
      BY <1>0, <3>1 DEF Shape
  <2> QED
    BY <2>2, <2>3, <2>4
<1>5. CASE InRead
  BY <1>4, <1>5 DEF InRead
<1>6. CASE InCall
  <2>1. PICK g \in Sources, f \in Readers, s \in Seq(Calm) :
         /\ f.op = "fromBuffer" /\ Wanted(f)
         /\ \/ stack = Under(g, f, s) /\ (g.arg = 0 => ~readableEnded)
            \/ g.arg > 0 /\ stack \in Above(Under(g, f, s))
    BY <1>6 DEF InCall
  <2>2. sync
    BY <1>6 DEF InCall
  <2>3. CASE stack = Under(g, f, s) /\ (g.arg = 0 => ~readableEnded)
    BY <1>0, <2>1, <2>2, <2>3, CallTopShape DEF Emission
  <2>4. CASE g.arg > 0 /\ stack \in Above(Under(g, f, s))
    BY <1>0, <2>1, <2>2, <2>4, CallAboveShape DEF Emission
  <2> QED
    BY <2>1, <2>3, <2>4
<1>7. CASE stack \in Seq(Calm)
  <2>1. CASE Read
    <3>1. stack # <<>> /\ Head(stack) \in Calm /\ Rest \in Seq(Calm) /\ Head(stack).op = "read"
      BY <1>7, <2>1, RestIn DEF Read, Running
    <3>2. Head(stack) \in Readers /\ Wanted(Head(stack))
      BY <3>1 DEF Calm, Readers, Amounts, Wanted, NoSize
    <3>3. stack = Push(Head(stack), Rest)
      BY <1>7, <3>1, ConsHeadTail DEF Push, Rest
    <3>4. PICK f \in Readers, s \in Seq(Calm) : f = Head(stack) /\ s = Rest
      BY <3>1, <3>2
    <3> QED
      BY <1>4, <3>2, <3>3, <3>4
  <2>2. CASE StreamStep /\ ~Read
    <3>1. /\ stack' \in Seq(Calm) \/ InRead'
          /\ immediates' \in Seq(Calm) /\ ~ReadFromBuffer
      BY <1>0, <1>7, <2>2, CalmStream
    <3>2. ~SourcePush
      BY <2>2, <3>1, <1>7, RestIn DEF StreamStep, Running, Flow, EmitReadable, ReadableTick,
         EmitEnd, EndTick, MaybeReadMore, MoreLoop, ResumeTick, Resumed, ResumeRead, ReadReturns,
         SourcePush, MayCall, Calm
    <3> QED
      BY <1>3, <3>1, <3>2 DEF Shape
  <2>3. CASE SourcePush
    <3>1. /\ AllSized' /\ stack' \in Seq(Calm) /\ UNCHANGED immediates
          /\ Emission
      BY <1>0, <1>7, <2>3, CalmSource
    <3> QED
      BY <1>0, <3>1 DEF Shape
  <2>4. CASE Return \/ RunImmediate
    <3>1. stack' \in Seq(Calm) /\ immediates' \in Seq(Calm)
      BY <1>0, <1>7, <2>4, CalmLoop
    <3>2. UNCHANGED <<buffer, delivered, misread>>
      BY <2>4 DEF Return, RunImmediate, bufferVars
    <3>3. AllSized' /\ Emission
      BY <1>0, <1>1, <3>2 DEF AllSized, Sized, Emission
    <3> QED
      BY <3>1, <3>3 DEF Shape
  <2> QED
    BY <2>1, <2>2, <2>3, <2>4 DEF SourceRun
<1> QED
  BY <1>0, <1>5, <1>6, <1>7 DEF Shape

\* 'end' comes from the loop, with nothing of a read() under way.
LEMMA EndShape ==
    ASSUME IInv, SourceOK, SourceRun, ends' # ends
    PROVE  /\ stack' \in Seq(Calm) /\ delivered' = delivered
           /\ eof' /\ Len(delivered') = sourced'
<1>1. Next
  BY DEF SourceRun, Next
<1>2. EndTick
  <2>1. ~UNCHANGED endVars /\ ~UNCHANGED ends
    BY DEF endVars
  <2> QED
    BY <2>1 DEF SourceRun, StreamStep, Read, ReadFromBuffer, Flow, EmitReadable,
       ReadableTick, EmitEnd, MaybeReadMore, MoreLoop, ResumeTick, Resumed, ResumeRead,
       ReadReturns, Return, SourcePush, RunImmediate
<1>3. eof /\ Len(delivered) = sourced
  BY <1>1, EndStep DEF SourceOK, AllSized
<1>4. UNCHANGED <<delivered, eof, sourced>>
  BY <1>2 DEF EndTick, bufferVars, sourceVars
<1>5. stack \in Seq(Calm)
  BY <1>2, ShapeRuns DEF SourceOK, EndTick, Running
<1>6. stack' \in Seq(Calm)
  <2>1. stack # <<>> /\ Rest \in Seq(Calm)
    BY <1>2, <1>5, RestIn DEF EndTick, Running
  <2>2. Push(UserFrame, Rest) \in Seq(Calm)
    BY <2>1, CalmFrames, CalmPush
  <2> QED
    BY <1>2, <2>1, <2>2 DEF EndTick
<1> QED
  BY <1>3, <1>4, <1>6

\* No more is delivered than was pushed; after 'end' nothing is.
LEMMA DeliveredWithin ==
    ASSUME NEW d \in Seq(Bytes), NEW B \in Seq(Seq(Bytes)), NEW n \in Nat,
           d \o FlattenSeq(B) = [i \in 1 .. n |-> i]
    PROVE  Len(d) <= n
<1>1. FlattenSeq(B) \in Seq(Bytes)
  BY FlattenType
<1>2. Len(d \o FlattenSeq(B)) = Len(d) + Len(FlattenSeq(B))
  BY <1>1, ConcatProperties
<1>3. Len([i \in 1 .. n |-> i]) = n
  OBVIOUS
<1>4. Len(d) \in Nat /\ Len(FlattenSeq(B)) \in Nat
  BY <1>1, LenProperties
<1> QED
  BY <1>2, <1>3, <1>4

LEMMA AfterEnd ==
    ASSUME IInv, IInv', ~misread', eof, Len(delivered) = sourced, Emission, SourceRun
    PROVE  delivered' = delivered /\ eof' /\ Len(delivered') = sourced'
<1>1. eof' /\ sourced' = sourced
  <2>1. CASE SourcePush
    <3>1. ASSUME NEW rest, Pushes(rest) PROVE eof' /\ sourced' = sourced
      BY <3>1 DEF Pushes, PushEof, PushTooLate
    <3> QED
      BY <2>1, <3>1 DEF SourcePush
  <2>2. CASE ~SourcePush
    BY <2>2 DEF SourceRun, StreamStep, Read, ReadFromBuffer, Flow, EmitReadable,
       ReadableTick, EmitEnd, EndTick, MaybeReadMore, MoreLoop, ResumeTick, Resumed,
       ResumeRead, ReadReturns, Return, RunImmediate, sourceVars
  <2> QED
    BY <2>1, <2>2
<1>2. ASSUME NEW c \in Seq(Bytes), Sized(c), delivered' = delivered \o c PROVE FALSE
  <2>1. Len(c) > 0
    BY <1>2, ReadableAssumption, LenProperties DEF Sized
  <2>2. delivered \in Seq(Bytes) /\ Len(delivered') = Len(delivered) + Len(c)
    BY <1>2, ConcatProperties DEF IInv, TypeOK, Bytes
  <2>3. Len(delivered') <= sourced'
    <3>1. /\ delivered' \in Seq(Bytes) /\ buffer' \in Seq(Seq(Bytes)) /\ sourced' \in Nat
          /\ delivered' \o FlattenSeq(buffer') = [i \in 1 .. sourced' |-> i]
      BY ReadableAssumption DEF IInv, TypeOK, Bytes, InOrder, PlucksBytes
    <3> QED
      BY <3>1, DeliveredWithin
  <2>4. sourced \in Nat /\ Len(c) \in Nat
    BY ReadableAssumption, LenProperties DEF IInv, TypeOK
  <2> QED
    BY <1>1, <2>1, <2>2, <2>3, <2>4
<1> QED
  BY <1>1, <1>2 DEF Emission

-----------------------------------------------------------------------------
(* The two together. *)

\* The calls of pipe() so far: every other call is one of unpipe().
Turns(n) == (n + 1) \div 2

LEMMA TurnsCount ==
    ASSUME NEW n \in Nat
    PROVE  /\ Turns(n) \in Nat
           /\ n % 2 \in {0, 1}
           /\ n % 2 = 1 => Turns(n) >= 1 /\ Turns(n + 1) = Turns(n) /\ (n + 1) % 2 = 0
           /\ n % 2 = 0 => Turns(n + 1) = Turns(n) + 1 /\ (n + 1) % 2 = 1
<1>1. PICK m \in Nat : n = 2 * m \/ n = 2 * m + 1
  <2>1. n = 2 * (n \div 2) \/ n = 2 * (n \div 2) + 1
    OBVIOUS
  <2>2. n \div 2 \in Nat
    OBVIOUS
  <2> QED
    BY <2>1, <2>2
<1>2. CASE n = 2 * m
  <2>1. n % 2 = 0 /\ Turns(n) = m /\ Turns(n + 1) = m + 1 /\ (n + 1) % 2 = 1
    BY <1>2 DEF Turns
  <2> QED
    BY <2>1
<1>3. CASE n = 2 * m + 1
  <2>1. n % 2 = 1 /\ Turns(n) = m + 1 /\ Turns(n + 1) = m + 1 /\ (n + 1) % 2 = 0
    BY <1>3 DEF Turns
  <2> QED
    BY <2>1
<1> QED
  BY <1>1, <1>2, <1>3

\* The most that a destination keeps that was piped so often.
Most(n) == SinkMark + Largest * n

LEMMA MostGrows ==
    ASSUME PipesWhole, NEW n \in Nat
    PROVE  /\ Most(n) \in Nat /\ Most(n) >= SinkMark
           /\ Most(n + 1) = Most(n) + Largest
<1>1. Largest \in Nat /\ SinkMark \in Nat
  BY LargestSize, PipeAssumption
<1>2. Largest * n \in Nat
  BY <1>1
<1>3. Largest * (n + 1) = Largest * n + Largest
  BY <1>1
<1> QED
  BY <1>1, <1>2, <1>3 DEF Most

\* The pipe's listeners and its calls touch the source only where they pause or resume
\* it: that keeps what holds of the source.
Nudge ==
    /\ flowing' \in {flowing, "on", "off"} /\ resumeScheduled' \in BOOLEAN
    /\ \/ stack' \in {stack, Push(UserFrame, stack), Push(FrameOf("flow"), stack)}
       \/ MayCall /\ stack' = Caller
    /\ immediates' \in {immediates, Append(immediates, FrameOf("resumeTick"))}
    /\ UNCHANGED <<bufferVars, endVars, sourceVars, emittedReadable, readableListening,
                   readingMore, highWaterMark, reading, sync, needReadable, thrown>>

LEMMA NudgeKeeps ==
    ASSUME NEW S, Closed(S), stack \in Seq(Frame), stack \in Seq(S), immediates \in Seq(S),
           Nudge
    PROVE  Keeps(S)
<1>1. UserFrame \in S /\ FrameOf("flow") \in S /\ FrameOf("resumeTick") \in S
  BY FrameTypes DEF Closed
<1>2. Push(UserFrame, stack) \in Seq(S) /\ Push(FrameOf("flow"), stack) \in Seq(S)
  BY <1>1, PushIn
<1>3. MayCall => Caller \in Seq(S)
  BY RestIn, CallerIn
<1>4. Append(immediates, FrameOf("resumeTick")) \in Seq(S)
  BY <1>1, AppendProperties
<1> QED
  BY <1>2, <1>3, <1>4 DEF Nudge, Keeps

LEMMA NudgeOK ==
    ASSUME IInv, Nudge
    PROVE  IInv'
<1>1. UNCHANGED <<buffer, length, delivered, readableEnded, endEmitted, ends, io, sourced,
                  eof, unshifts, objectMode, highWaterMark, reading, sync, needReadable,
                  thrown, emittedReadable, readableListening, readingMore, misread>>
  BY DEF Nudge, bufferVars, endVars, sourceVars
<1>2. stack \in Seq(Frame) /\ immediates \in Seq(Frame) /\ flowing \in {"unset", "on", "off"}
  BY DEF IInv, TypeOK
<1>3. Keeps(Frame)
  BY <1>2, ClosedSets, NudgeKeeps
<1>4. ~readableEnded => Keeps(NoEnd)
  BY <1>2, ClosedSets, NudgeKeeps DEF IInv, EndsLast
<1>5. TypeOK'
  BY <1>1, <1>2, <1>3 DEF Nudge, IInv, TypeOK, Keeps
<1>6. InOrder'
  BY <1>1 DEF IInv, InOrder, PlucksBytes
<1>7. EndsLast'
  BY <1>1, <1>4 DEF IInv, EndsLast, Keeps
<1> QED
  BY <1>5, <1>6, <1>7 DEF IInv

LEMMA NudgeCalm ==
    ASSUME SourceOK, stack \in Seq(Calm), Nudge
    PROVE  SourceOK' /\ stack' \in Seq(Calm)
<1>1. UNCHANGED <<buffer, objectMode, readableListening, misread>>
  BY DEF Nudge, bufferVars, sourceVars
<1>2. UserFrame \in Calm /\ FrameOf("flow") \in Calm /\ FrameOf("resumeTick") \in Calm
  BY CalmFrames
<1>3. stack' \in Seq(Calm)
  <2>1. Push(UserFrame, stack) \in Seq(Calm) /\ Push(FrameOf("flow"), stack) \in Seq(Calm)
    BY <1>2, CalmPush
  <2>2. MayCall => Caller \in Seq(Calm)
    BY CalmCaller
  <2> QED
    BY <2>1, <2>2 DEF Nudge
<1>4. immediates' \in Seq(Calm)
  <2>1. immediates \in Seq(Calm)
    BY DEF SourceOK
  <2>2. Append(immediates, FrameOf("resumeTick")) \in Seq(Calm)
    BY <1>2, <2>1, AppendProperties
  <2> QED
    BY <2>1, <2>2 DEF Nudge
<1> QED
  BY <1>1, <1>3, <1>4 DEF SourceOK, AllSized, Sized, Shape

\* The pipe's own variables, and how they go with those of the two streams.
PipeState ==
    /\ piped \in BOOLEAN /\ awaitDrain \in Nat /\ returned \in BOOLEAN
    /\ doing \in {"none", "write", "call", "finish", "drain"}
    /\ chunk \in Seq(Bytes) /\ sent \in Seq(Seq(Bytes)) /\ base \in Nat
    /\ ticks \in Seq({"source", "dest", "pipe"})
    /\ piping \in BOOLEAN /\ pipeCalls \in 0 .. MaxPipeCalls

\* A listener of the pipe runs over calm frames; the source flows only while it is piped,
\* and a chunk that waits to be written came from its flow.
ControlOK ==
    /\ doing # "none" => stack \in Seq(Calm)
    /\ flowing = "on" \/ doing = "drain" => piped
    /\ doing = "write" => flowing = "on" /\ Sized(chunk)
    /\ doing # "write" => chunk = <<>>
    /\ doing = "drain" => wLength = 0

\* Nothing ends the destination before the source's last byte was delivered.
EndOK ==
    /\ endEmitted => eof /\ Len(delivered) = sourced
    /\ ~endEmitted => Dest!NotEnded /\ doing # "finish" /\ ticks \in Seq({"source", "dest"})
    /\ doing = "write" => ~endEmitted

\* Each pipe() may add a chunk: the flow of the pipe before it was not yet over.
Filled == doing = "call" /\ ~returned
BoundOK ==
    finishes = 0 =>
    /\ piped <=> pipeCalls % 2 = 1
    /\ wLength < Most(Turns(pipeCalls))
    /\ flowing = "on" /\ ~Filled => wLength < Most(Turns(pipeCalls) - 1)

WrittenOK == delivered = FlattenSeq(sent) \o chunk /\ calls = Len(sent)

Joined == SourceOK /\ ControlOK /\ EndOK /\ BoundOK /\ WrittenOK

PipeInv ==
    /\ IInv /\ Dest!Sound /\ PipeState
    /\ ~piping => ~piped /\ doing = "none" /\ ticks \in Seq({"source", "dest"})
    /\ piping => Joined

LEMMA PipeStart ==
    ASSUME PipesWhole, PipeInit
    PROVE  PipeInv
<1>1. IInv
  BY InitOK DEF PipeInit
<1>2. Dest!Sound /\ Dest!NotEnded
  BY DestConstants, DestInit, Dest!SoundInit DEF PipeInit
<1>3. PipeState
  <2>1. 0 \in 0 .. MaxPipeCalls /\ piping \in BOOLEAN
    BY PipeAssumption DEF PipeAssumption, PipeInit
  <2> QED
    BY <2>1, EmptySeq DEF PipeInit, PipeState
<1>4. SourceOK
  <2>1. AllSized
    <3>1. /\ objectMode \in ObjectModes /\ objectMode \in BOOLEAN /\ DOMAIN buffer = {}
          /\ misread = FALSE
      BY ReadableAssumption DEF ReadableAssumption, PipeInit, Init
    <3>2. objectMode => 1 \in ChunkSizes
      BY <3>1 DEF PipesWhole
    <3> QED
      BY <3>1, <3>2 DEF AllSized
  <2> QED
    BY <2>1, EmptySeq DEF PipeInit, Init, SourceOK, Shape
<1>5. ControlOK
  BY EmptySeq DEF PipeInit, Init, ControlOK
<1>6. EndOK
  BY <1>2, EmptySeq DEF PipeInit, Init, EndOK
<1>7. BoundOK
  <2>1. Turns(0) = 0
    BY DEF Turns
  <2>2. Most(0) \in Nat /\ Most(0) >= SinkMark
    BY MostGrows
  <2>3. piped = FALSE /\ pipeCalls = 0 /\ wLength = 0 /\ flowing = "unset"
    BY DEF PipeInit, Init, W!Init
  <2>4. SinkMark > 0 /\ SinkMark \in Nat
    BY PipeAssumption DEF PipesWhole
  <2> QED
    BY <2>1, <2>2, <2>3, <2>4 DEF BoundOK
<1>8. WrittenOK
  <2>1. delivered = <<>> /\ sent = <<>> /\ chunk = <<>> /\ calls = 0
    BY DEF PipeInit, Init, W!Init
  <2>2. FlattenSeq(sent) \o chunk = <<>>
    BY <2>1, FlattenEmpty, ConcatEmptySeq, EmptySeq
  <2> QED
    BY <2>1, <2>2 DEF WrittenOK
<1> QED
  BY <1>1, <1>2, <1>3, <1>4, <1>5, <1>6, <1>7, <1>8, EmptySeq DEF PipeInv, Joined, PipeInit

\* The queue of the loop.
Streams == {"source", "dest"}
TicksKept ==
    \A S \in {Streams, Streams \cup {"pipe"}} : ticks \in Seq(S) => ticks' \in Seq(S)

LEMMA DeferredKeeps ==
    ASSUME NEW who \in Streams, NEW k \in Int, ticks' = ticks \o [i \in 1 .. k |-> who]
    PROVE  TicksKept
<1>1. ASSUME NEW S, Streams \subseteq S, ticks \in Seq(S) PROVE ticks' \in Seq(S)
  <2>1. [i \in 1 .. k |-> who] \in Seq(S)
    <3>1. CASE k \in Nat
      BY <1>1, <3>1
    <3>2. CASE k \notin Nat
      <4>1. 1 .. k = 1 .. 0
        BY <3>2
      <4>2. [i \in 1 .. 0 |-> who] = <<>>
        OBVIOUS
      <4> QED
        BY <4>1, <4>2, EmptySeq
    <3> QED
      BY <3>1, <3>2
  <2> QED
    BY <1>1, <2>1, ConcatProperties
<1> QED
  BY <1>1 DEF TicksKept

LEMMA TailKeeps ==
    ASSUME ticks # <<>>, ticks' = Tail(ticks)
    PROVE  TicksKept
<1>1. ASSUME NEW S, ticks \in Seq(S) PROVE ticks' \in Seq(S)
  BY <1>1, HeadTailProperties
<1> QED
  BY <1>1 DEF TicksKept

\* 'end' and the flag that says that it was emitted.
LEMMA EndFlag ==
    ASSUME IInv, IInv', SourceRun
    PROVE  /\ endEmitted => endEmitted'
           /\ ends' # ends <=> endEmitted' /\ ~endEmitted
<1>1. /\ ends = IF endEmitted THEN 1 ELSE 0
      /\ ends' = IF endEmitted' THEN 1 ELSE 0
      /\ endEmitted \in BOOLEAN /\ endEmitted' \in BOOLEAN
  BY DEF IInv, EndsLast, TypeOK
<1>2. ends' # ends => ends = 0
  BY EndStep DEF SourceRun, Next
<1> QED
  BY <1>1, <1>2

\* The source, alone or while it is piped.
SourceActs == doing = "none" /\ SourceRun /\ SourceStep /\ TicksKept

LEMMA ActsEmit ==
    ASSUME SourceActs, Emission, chunk = <<>>, flowing = "on" => piped, IInv,
           ends' # ends => delivered' = delivered
    PROVE  \/ /\ delivered' = delivered /\ chunk' = <<>>
              /\ \/ doing' = "none" /\ ~(piped /\ ends' # ends)
                 \/ doing' = "finish" /\ ends' # ends
           \/ /\ doing' = "write" /\ flowing = "on" /\ stack' \in Seq(Calm)
              /\ \E c \in Seq(Bytes) :
                    Sized(c) /\ chunk' = c /\ delivered' = delivered \o c
<1>0. delivered \in Seq(Bytes) /\ Len(delivered) \in Nat
  BY LenProperties DEF IInv, TypeOK, Bytes
<1>1. CASE delivered' = delivered
  BY <1>0, <1>1 DEF SourceActs, SourceStep, EmitsData
<1>2. CASE delivered' # delivered
  <2>1. PICK c \in Seq(Bytes) : Sized(c) /\ delivered' = delivered \o c
    BY <1>2 DEF Emission
  <2>2. flowing = "on" /\ stack' \in Seq(Calm) /\ piped
    BY <1>2 DEF Emission
  <2>3. Len(c) \in Nat /\ Len(c) > 0
    BY <2>1, ReadableAssumption, LenProperties DEF ReadableAssumption, Sized
  <2>4. /\ Len(delivered \o c) = Len(delivered) + Len(c)
        /\ SubSeq(delivered \o c, Len(delivered) + 1, Len(delivered \o c)) = c
    <3>1. Len(delivered \o c) = Len(delivered) + Len(c)
      BY <1>0, ConcatProperties
    <3>2. SubSeq(delivered \o c, Len(delivered) + 1, Len(delivered) + Len(c)) = c
      BY <1>0, <2>3
    <3> QED
      BY <3>1, <3>2
  <2>5. EmitsData
    BY <1>0, <2>1, <2>3, <2>4 DEF EmitsData
  <2>6. CASE doing' = "write" /\ chunk' = SubSeq(delivered', Len(delivered) + 1, Len(delivered'))
    BY <2>1, <2>2, <2>4, <2>6
  <2>7. CASE doing' = "finish" /\ ends' # ends
    BY <1>2, <2>7
  <2> QED
    BY <2>2, <2>5, <2>6, <2>7 DEF SourceActs, SourceStep
<1> QED
  BY <1>1, <1>2

LEMMA SourceActsOK ==
    ASSUME PipesWhole, PipeInv, piping, SourceActs
    PROVE  PipeInv'
<1>1. IInv /\ Dest!Sound /\ PipeState /\ SourceOK /\ ControlOK /\ EndOK /\ BoundOK /\ WrittenOK
  BY DEF PipeInv, Joined
<1>2. SourceRun /\ doing = "none" /\ chunk = <<>> /\ TicksKept
  BY <1>1 DEF SourceActs, ControlOK
<1>3. SourceOK' /\ Emission
  BY <1>1, <1>2, SourceRunShape
<1>4. IInv'
  BY <1>1, <1>2, StepOK DEF SourceRun, Next
<1>5. /\ UNCHANGED destVars /\ flowing' = flowing /\ awaitDrain' \in {0, awaitDrain}
      /\ UNCHANGED <<piped, returned, base, sent, piping, pipeCalls>>
  BY <1>2, SourceKept DEF SourceActs, SourceStep
<1>6. /\ Dest!Sound' /\ (Dest!NotEnded => Dest!NotEnded')
      /\ UNCHANGED <<calls, wLength, finishes>>
  BY <1>1, <1>5, DestStays
<1>7. /\ ends' # ends => /\ stack' \in Seq(Calm) /\ delivered' = delivered
                         /\ eof' /\ Len(delivered') = sourced'
      /\ endEmitted => endEmitted'
      /\ ends' # ends <=> endEmitted' /\ ~endEmitted
  BY <1>1, <1>2, <1>4, EndShape, EndFlag
<1>8. endEmitted => delivered' = delivered /\ eof' /\ Len(delivered') = sourced'
  BY <1>1, <1>2, <1>3, <1>4, AfterEnd DEF EndOK, SourceOK, AllSized
<1>9. \/ /\ delivered' = delivered /\ chunk' = <<>>
         /\ \/ doing' = "none" /\ ~(piped /\ ends' # ends)
            \/ doing' = "finish" /\ ends' # ends
      \/ /\ doing' = "write" /\ flowing = "on" /\ stack' \in Seq(Calm)
         /\ \E c \in Seq(Bytes) : Sized(c) /\ chunk' = c /\ delivered' = delivered \o c
  BY <1>1, <1>2, <1>3, <1>7, ActsEmit DEF ControlOK
<1>10. PipeState'
  <2>1. chunk' \in Seq(Bytes) /\ doing' \in {"none", "write", "finish"}
    BY <1>9, EmptySeq
  <2>2. ticks' \in Seq({"source", "dest", "pipe"})
    BY <1>1, <1>2 DEF PipeState, TicksKept, Streams
  <2> QED
    BY <1>1, <1>5, <2>1, <2>2 DEF PipeState
<1>11. Sized(chunk)' <=> Len(chunk') \in ChunkSizes \ {0}
  BY DEF Sized
<1>12. ControlOK'
  <2>1. doing' = "write" => Sized(chunk)'
    BY <1>9, <1>11 DEF Sized
  <2>2. doing' # "write" => chunk' = <<>>
    BY <1>9
  <2>3. doing' # "none" => stack' \in Seq(Calm)
    BY <1>7, <1>9
  <2>4. flowing' = "on" => piped'
    BY <1>1, <1>5 DEF ControlOK
  <2>5. doing' # "drain" /\ (doing' = "write" => flowing' = "on")
    BY <1>5, <1>9
  <2> QED
    BY <2>1, <2>2, <2>3, <2>4, <2>5 DEF ControlOK
<1>13. EndOK'
  <2>1. endEmitted' => eof' /\ Len(delivered') = sourced'
    BY <1>7, <1>8
  <2>2. ASSUME ~endEmitted'
        PROVE  Dest!NotEnded' /\ doing' # "finish" /\ ticks' \in Seq({"source", "dest"})
    <3>1. ~endEmitted /\ ~(ends' # ends)
      BY <1>7, <2>2
    <3>2. Dest!NotEnded'
      BY <1>1, <1>6, <3>1 DEF EndOK
    <3>3. ticks' \in Seq({"source", "dest"})
      BY <1>1, <1>2, <3>1 DEF EndOK, TicksKept, Streams
    <3> QED
      BY <1>9, <3>1, <3>2, <3>3
  <2>3. ASSUME doing' = "write" PROVE ~endEmitted'
    <3>1. PICK c \in Seq(Bytes) : Sized(c) /\ delivered' = delivered \o c
      BY <1>9, <2>3
    <3>2. delivered' # delivered
      <4>1. Len(c) \in Nat /\ Len(c) > 0
        BY <3>1, ReadableAssumption, LenProperties DEF ReadableAssumption, Sized
      <4>2. delivered \in Seq(Bytes) /\ Len(delivered) \in Nat
        BY <1>1, LenProperties DEF IInv, TypeOK, Bytes
      <4>3. Len(delivered \o c) = Len(delivered) + Len(c)
        BY <4>2, ConcatProperties
      <4> QED
        BY <3>1, <4>1, <4>2, <4>3
    <3> QED
      BY <1>7, <1>8, <3>2
  <2> QED
    BY <2>1, <2>2, <2>3 DEF EndOK
<1>14. BoundOK'
  <2>1. ~Filled /\ ~Filled'
    BY <1>2, <1>9 DEF Filled
  <2>2. UNCHANGED <<finishes, piped, pipeCalls, wLength, flowing>>
    BY <1>5, <1>6
  <2> QED
    BY <1>1, <2>1, <2>2 DEF BoundOK, Most, Turns
<1>15. WrittenOK'
  <2>1. delivered = FlattenSeq(sent) \o <<>> /\ calls' = Len(sent')
    BY <1>1, <1>2, <1>5, <1>6 DEF WrittenOK
  <2>2. FlattenSeq(sent) \in Seq(Bytes)
    BY <1>1, FlattenType DEF PipeState
  <2>3. delivered = FlattenSeq(sent)
    BY <2>1, <2>2, ConcatEmptySeq
  <2> QED
    BY <1>5, <1>9, <2>1, <2>3 DEF WrittenOK
<1> QED
  BY <1>3, <1>4, <1>5, <1>6, <1>10, <1>12, <1>13, <1>14, <1>15 DEF PipeInv, Joined

\* A nudge of the source while a listener of the pipe runs, or between two turns.
LEMMA NudgedSource ==
    ASSUME IInv, SourceOK, stack \in Seq(Calm), Nudge
    PROVE  /\ IInv' /\ SourceOK' /\ stack' \in Seq(Calm)
           /\ UNCHANGED <<endEmitted, eof, delivered, sourced>>
<1>1. IInv' /\ SourceOK' /\ stack' \in Seq(Calm)
  BY NudgeOK, NudgeCalm
<1> QED
  BY <1>1 DEF Nudge, bufferVars, endVars, sourceVars

\* Nothing of the source changes.
LEMMA SourceStill ==
    ASSUME UNCHANGED vars, IInv
    PROVE  /\ IInv' /\ (SourceOK => SourceOK')
           /\ UNCHANGED <<endEmitted, eof, delivered, sourced, flowing, stack, sync>>
<1>1. IInv'
  BY StepOK
<1>2. SourceOK => SourceOK'
  <2>1. UNCHANGED <<buffer, objectMode, readableListening, immediates, stack, flowing, sync,
                    readableEnded, misread>>
    BY DEF vars, bufferVars, flagVars, endVars, sourceVars
  <2>2. AllSized => AllSized'
    BY <2>1 DEF AllSized, Sized
  <2>3. InRead => InRead'
    BY <2>1 DEF InRead, Wanted
  <2>4. InCall => InCall'
    BY <2>1 DEF InCall, Wanted
  <2> QED
    BY <2>1, <2>2, <2>3, <2>4 DEF SourceOK, Shape
<1> QED
  BY <1>1, <1>2 DEF vars, bufferVars, flagVars, endVars, sourceVars

\* A step of the destination that is piped: its listeners pause or unpipe.
DestActs ==
    /\ doing = "call" \/ (doing = "none" /\ stack = <<>>)
    /\ DestRun /\ DestStep /\ TicksKept

LEMMA DestActsOK ==
    ASSUME PipesWhole, PipeInv, piping, DestActs
    PROVE  PipeInv'
<1>1. IInv /\ Dest!Sound /\ PipeState /\ SourceOK /\ ControlOK /\ EndOK /\ BoundOK /\ WrittenOK
  BY DEF PipeInv, Joined
<1>2. /\ doing = "call" \/ (doing = "none" /\ stack = <<>>)
      /\ DestRun /\ DestStep /\ TicksKept /\ chunk = <<>>
  BY <1>1 DEF DestActs, ControlOK
<1>3. stack \in Seq(Calm)
  BY <1>1, <1>2, EmptySeq DEF ControlOK
<1>4. UNCHANGED <<chunk, returned, base, sent, piping, pipeCalls>>
  BY <1>2 DEF DestStep
<1>5. /\ Dest!Sound'
      /\ calls' = calls /\ wLength' <= wLength
      /\ finishes' \in {finishes, finishes + 1}
      /\ Dest!NotEnded => Dest!NotEnded'
      /\ needDrain /\ ~needDrain' => wLength' = 0
  BY <1>1, <1>2, DestRunStep
<1>6. finishes \in {0, 1} /\ wLength \in Int /\ wLength' \in Int
  <2>1. finishes \in {0, 1} /\ wLength \in Int
    BY <1>1, DestGives
  <2>2. Dest!TypeOK'
    BY <1>5 DEF Dest!Sound, Dest!IInv
  <2> QED
    BY <2>1, <2>2 DEF Dest!TypeOK
<1>7. /\ IInv' /\ SourceOK' /\ stack' \in Seq(Calm)
      /\ UNCHANGED <<endEmitted, eof, delivered, sourced>>
      /\ flowing' \in {flowing, "off"} /\ awaitDrain' \in Nat
      /\ \/ /\ doing' = "drain" /\ piped /\ needDrain /\ ~needDrain'
            /\ UNCHANGED <<flowing, piped>>
         \/ /\ doing' = doing /\ finishes' # finishes
            /\ flowing' = "off" /\ piped' = FALSE
         \/ UNCHANGED <<doing, flowing, piped>>
  <2>1. CASE UNCHANGED <<vars, piped, awaitDrain>>
    <3>1. awaitDrain' \in Nat
      BY <1>1, <2>1 DEF PipeState
    <3> QED
      BY <1>1, <1>2, <1>3, <2>1, <3>1, SourceStill DEF DestStep
  <2>2. CASE /\ piped /\ finishes' # finishes /\ Unpiped
             /\ UNCHANGED <<doing, bufferVars, flagVars, endVars, sourceVars, highWaterMark,
                            reading, sync, needReadable, immediates, stack, thrown>>
    <3>1. Nudge
      <4>1. resumeScheduled' \in BOOLEAN
        BY <1>1, <2>2 DEF IInv, TypeOK, flagVars
      <4> QED
        BY <2>2, <4>1 DEF Nudge, Unpiped, flagVars
    <3>2. awaitDrain' \in Nat
      BY <1>1, <2>2 DEF Unpiped, PipeState
    <3> QED
      BY <1>1, <1>3, <2>2, <3>1, <3>2, NudgedSource DEF Unpiped
  <2> QED
    BY <1>2, <2>1, <2>2 DEF DestStep
<1>8. PipeState'
  <2>1. ticks' \in Seq({"source", "dest", "pipe"})
    BY <1>1, <1>2 DEF PipeState, TicksKept, Streams
  <2>2. piped' \in BOOLEAN /\ doing' \in {"none", "write", "call", "finish", "drain"}
    BY <1>1, <1>7 DEF PipeState
  <2> QED
    BY <1>1, <1>4, <1>7, <2>1, <2>2 DEF PipeState
<1>9. ControlOK'
  <2>1. doing' # "write" /\ chunk' = <<>> /\ (doing' = "drain" => wLength' = 0)
    BY <1>2, <1>4, <1>5, <1>7
  <2>2. (flowing' = "on" \/ doing' = "drain") => piped'
    BY <1>1, <1>2, <1>7 DEF ControlOK
  <2> QED
    BY <1>7, <2>1, <2>2 DEF ControlOK
<1>10. EndOK'
  <2>1. doing' \notin {"finish", "write"}
    BY <1>2, <1>7
  <2>2. ~endEmitted => ticks' \in Seq({"source", "dest"})
    BY <1>1, <1>2 DEF EndOK, TicksKept, Streams
  <2> QED
    BY <1>1, <1>5, <1>7, <2>1, <2>2 DEF EndOK
<1>11. BoundOK'
  <2> SUFFICES ASSUME finishes' = 0 PROVE BoundOK'
    BY DEF BoundOK
  <2>1. finishes = 0 /\ finishes' = finishes
    BY <1>5, <1>6
  <2>2. UNCHANGED <<flowing, piped, pipeCalls>>
    BY <1>4, <1>7, <2>1
  <2>3. piped => Turns(pipeCalls) - 1 \in Nat /\ Turns(pipeCalls) \in Nat
    <3>1. pipeCalls \in Nat
      BY <1>1, PipeAssumption DEF PipeState, PipeAssumption
    <3> QED
      BY <1>1, <2>1, <3>1, TurnsCount DEF BoundOK
  <2>4. CASE doing' = "drain" /\ piped /\ wLength' = 0
    <3>1. Most(Turns(pipeCalls) - 1) \in Nat /\ Most(Turns(pipeCalls) - 1) >= SinkMark
      BY <2>3, <2>4, MostGrows
    <3>2. Most(Turns(pipeCalls)) \in Nat /\ Most(Turns(pipeCalls)) >= SinkMark
      BY <2>3, <2>4, MostGrows
    <3>3. SinkMark > 0 /\ SinkMark \in Nat
      BY PipeAssumption DEF PipeAssumption, PipesWhole
    <3>4. /\ Most(Turns(pipeCalls))' = Most(Turns(pipeCalls))
          /\ Most(Turns(pipeCalls) - 1)' = Most(Turns(pipeCalls) - 1)
      BY <2>2 DEF Most, Turns
    <3> QED
      BY <1>1, <2>1, <2>2, <2>4, <3>1, <3>2, <3>3, <3>4 DEF BoundOK, Filled
  <2>5. CASE UNCHANGED doing
    <3>1. Filled' = Filled
      BY <1>4, <2>5 DEF Filled
    <3>2. /\ Most(Turns(pipeCalls))' = Most(Turns(pipeCalls))
          /\ Most(Turns(pipeCalls) - 1)' = Most(Turns(pipeCalls) - 1)
          /\ (pipeCalls % 2)' = pipeCalls % 2
      BY <2>2 DEF Most, Turns
    <3>3. Most(Turns(pipeCalls)) \in Int /\ Most(Turns(pipeCalls) - 1) \in Int
      <4>1. Largest \in Nat /\ SinkMark \in Nat
        BY LargestSize, PipeAssumption DEF PipeAssumption
      <4>2. Turns(pipeCalls) \in Int
        <5>1. pipeCalls \in Nat
          BY <1>1, PipeAssumption DEF PipeState, PipeAssumption
        <5> QED
          BY <5>1, TurnsCount
      <4> QED
        BY <4>1, <4>2 DEF Most
    <3> QED
      BY <1>1, <1>5, <1>6, <2>1, <2>2, <3>1, <3>2, <3>3 DEF BoundOK
  <2> QED
    BY <1>5, <1>7, <2>4, <2>5
<1>12. WrittenOK'
  BY <1>1, <1>4, <1>5, <1>7 DEF WrittenOK
<1> QED
  BY <1>1, <1>4, <1>5, <1>7, <1>8, <1>9, <1>10, <1>11, <1>12 DEF PipeInv, Joined

\* What the bound is made of: the marks for as many calls of pipe() as there were.
LEMMA Bounds ==
    ASSUME PipesWhole, PipeState, BoundOK
    PROVE  /\ pipeCalls \in Nat /\ SinkMark > 0 /\ SinkMark \in Nat
           /\ Turns(pipeCalls) \in Nat
           /\ Most(Turns(pipeCalls)) \in Nat /\ Most(Turns(pipeCalls)) >= SinkMark
           /\ finishes = 0 /\ piped =>
              /\ Turns(pipeCalls) - 1 \in Nat /\ Turns(pipeCalls + 1) = Turns(pipeCalls)
              /\ (pipeCalls + 1) % 2 = 0
              /\ Most(Turns(pipeCalls) - 1) \in Nat
              /\ Most(Turns(pipeCalls) - 1) >= SinkMark
              /\ Most(Turns(pipeCalls)) = Most(Turns(pipeCalls) - 1) + Largest
           /\ finishes = 0 /\ ~piped =>
              /\ Turns(pipeCalls + 1) = Turns(pipeCalls) + 1 /\ (pipeCalls + 1) % 2 = 1
              /\ Most(Turns(pipeCalls + 1)) >= Most(Turns(pipeCalls))
              /\ Most(Turns(pipeCalls + 1)) \in Nat
<1>1. pipeCalls \in Nat /\ SinkMark \in Nat /\ SinkMark > 0 /\ Largest \in Nat
  <2>1. pipeCalls \in 0 .. MaxPipeCalls /\ MaxPipeCalls \in Nat /\ SinkMark \in Nat
    BY PipeAssumption DEF PipeState, PipeAssumption
  <2>2. SinkMark > 0
    BY DEF PipesWhole
  <2>3. Largest \in Nat
    BY LargestSize
  <2> QED
    BY <2>1, <2>2, <2>3
<1>2. PICK t \in Nat : t = Turns(pipeCalls)
  BY <1>1, TurnsCount
<1>3. \A n \in Nat : /\ Most(n) \in Nat /\ Most(n) >= SinkMark
                     /\ Most(n + 1) = Most(n) + Largest
  BY MostGrows
<1>4. ASSUME finishes = 0, piped
      PROVE  /\ t - 1 \in Nat /\ Turns(pipeCalls + 1) = t
             /\ (pipeCalls + 1) % 2 = 0 /\ Most(t) = Most(t - 1) + Largest
  <2>1. t >= 1 /\ Turns(pipeCalls + 1) = t /\ (pipeCalls + 1) % 2 = 0
    BY <1>1, <1>2, <1>4, TurnsCount DEF BoundOK
  <2>2. t - 1 \in Nat /\ (t - 1) + 1 = t
    BY <2>1
  <2>3. PICK u \in Nat : u = t - 1 /\ t = u + 1
    BY <2>2
  <2>4. Most(u + 1) = Most(u) + Largest
    BY <1>3
  <2> QED
    BY <2>1, <2>3, <2>4
<1>5. ASSUME finishes = 0, ~piped
      PROVE  Turns(pipeCalls + 1) = t + 1 /\ (pipeCalls + 1) % 2 = 1
  BY <1>1, <1>2, <1>5, TurnsCount DEF BoundOK
<1>6. ASSUME NEW u \in Nat PROVE Most(u) \in Nat /\ Most(u) >= SinkMark
  BY <1>3
<1>7. Most(t + 1) \in Nat /\ Most(t + 1) >= Most(t)
  BY <1>1, <1>3
<1> QED
  BY <1>1, <1>2, <1>4, <1>5, <1>6, <1>7

\* The bound reads these variables only.
LEMMA SameBounds ==
    ASSUME UNCHANGED pipeCalls
    PROVE  /\ Most(Turns(pipeCalls))' = Most(Turns(pipeCalls))
           /\ Most(Turns(pipeCalls) - 1)' = Most(Turns(pipeCalls) - 1)
           /\ (pipeCalls % 2)' = pipeCalls % 2
BY DEF Most, Turns

LEMMA OnDataOK ==
    ASSUME PipesWhole, PipeInv, piping, OnData
    PROVE  PipeInv'
<1>1. IInv /\ Dest!Sound /\ PipeState /\ SourceOK /\ ControlOK /\ EndOK /\ BoundOK /\ WrittenOK
  BY DEF PipeInv, Joined
<1>2. /\ doing = "write" /\ W!Write(Len(chunk)) /\ doing' = "call" /\ base' = Len(wStack)
      /\ returned' = (wLength + Len(chunk) < SinkMark)
      /\ sent' = Append(sent, chunk) /\ chunk' = <<>>
      /\ UNCHANGED vars /\ UNCHANGED <<piped, awaitDrain, piping, pipeCalls, ticks>>
  BY DEF OnData
<1>3. /\ stack \in Seq(Calm) /\ flowing = "on" /\ piped /\ Sized(chunk)
      /\ ~endEmitted /\ Dest!NotEnded /\ ticks \in Seq({"source", "dest"})
  BY <1>1, <1>2 DEF ControlOK, EndOK
<1>4. Len(chunk) \in ChunkSizes \ {0} /\ Len(chunk) \in Nat
  BY <1>3, ReadableAssumption DEF ReadableAssumption, Sized
<1>5. /\ Dest!Sound' /\ Dest!NotEnded'
      /\ calls' = calls + 1 /\ wLength' = wLength + Len(chunk) /\ finishes' = finishes
  <2>1. PICK len \in ChunkSizes \ {0} : len = Len(chunk)
    BY <1>4
  <2>2. W!Write(len)
    BY <1>2, <2>1
  <2> QED
    BY <1>1, <1>3, <2>1, <2>2, DestWritten
<1>6. /\ IInv' /\ SourceOK'
      /\ UNCHANGED <<endEmitted, eof, delivered, sourced, flowing, stack>>
  BY <1>1, <1>2, SourceStill
<1>7. W!TypeOK /\ wLength \in Int /\ calls \in Nat
  BY <1>1, DestGives
<1>8. PipeState'
  <2>1. base' \in Nat /\ returned' \in BOOLEAN
    BY <1>2, <1>7, LenProperties DEF W!TypeOK
  <2>2. sent' \in Seq(Seq(Bytes)) /\ chunk' \in Seq(Bytes)
    BY <1>1, <1>2, AppendProperties, EmptySeq DEF PipeState
  <2> QED
    BY <1>1, <1>2, <2>1, <2>2 DEF PipeState
<1>9. ControlOK'
  BY <1>2, <1>3, <1>6 DEF ControlOK
<1>10. EndOK'
  BY <1>1, <1>2, <1>3, <1>5, <1>6 DEF EndOK
<1>11. BoundOK'
  <2> SUFFICES ASSUME finishes = 0 PROVE BoundOK'
    BY <1>5 DEF BoundOK
  <2>1. /\ SinkMark \in Nat
        /\ Most(Turns(pipeCalls) - 1) \in Nat /\ Most(Turns(pipeCalls) - 1) >= SinkMark
        /\ Most(Turns(pipeCalls)) = Most(Turns(pipeCalls) - 1) + Largest
    BY <1>1, <1>3, Bounds
  <2>2. Len(chunk) <= Largest /\ Largest \in Nat
    BY <1>4, LargestSize
  <2>3. wLength < Most(Turns(pipeCalls) - 1)
    BY <1>1, <1>2, <1>3 DEF BoundOK, Filled
  <2>4. wLength' < Most(Turns(pipeCalls))
    BY <1>4, <1>5, <1>7, <2>1, <2>2, <2>3
  <2>5. returned' => wLength' < Most(Turns(pipeCalls) - 1)
    <3>1. returned' => wLength + Len(chunk) < SinkMark
      BY <1>2, Zenon
    <3>2. wLength + Len(chunk) < SinkMark => wLength' < Most(Turns(pipeCalls) - 1)
      BY <1>4, <1>5, <1>7, <2>1
    <3> QED
      BY <3>1, <3>2
  <2> QED
    BY <1>1, <1>2, <1>5, <1>6, <2>4, <2>5, SameBounds DEF BoundOK, Filled
<1>12. WrittenOK'
  <2>1. FlattenSeq(sent') = FlattenSeq(sent) \o chunk /\ FlattenSeq(sent') \in Seq(Bytes)
    BY <1>1, <1>2, <1>8, FlattenAppend, FlattenType DEF PipeState
  <2>2. FlattenSeq(sent') \o <<>> = FlattenSeq(sent')
    BY <2>1, ConcatEmptySeq
  <2>3. Len(sent') = Len(sent) + 1
    BY <1>1, <1>2, AppendProperties DEF PipeState
  <2> QED
    BY <1>1, <1>2, <1>5, <1>6, <2>1, <2>2, <2>3 DEF WrittenOK
<1> QED
  BY <1>1, <1>2, <1>5, <1>6, <1>8, <1>9, <1>10, <1>11, <1>12 DEF PipeInv, Joined

\* write() has returned; the listeners of 'drain' and 'end'.
LEMMA ListenerOK ==
    ASSUME PipesWhole, PipeInv, piping, CallReturns \/ OnDrain
    PROVE  PipeInv'
<1>1. IInv /\ Dest!Sound /\ PipeState /\ SourceOK /\ ControlOK /\ EndOK /\ BoundOK /\ WrittenOK
  BY DEF PipeInv, Joined
<1>2. /\ doing \in {"call", "drain"} /\ doing' = "none" /\ returned' \in {TRUE, returned}
      /\ UNCHANGED destVars /\ UNCHANGED <<piped, chunk, base, sent, piping, pipeCalls, ticks>>
  BY DEF CallReturns, OnDrain
<1>3. stack \in Seq(Calm) /\ chunk = <<>>
  BY <1>1, <1>2 DEF ControlOK
<1>4. awaitDrain' \in Nat
  <2>1. awaitDrain \in Nat /\ awaitDrain + 1 \in Nat /\ Awaited \in Nat
    BY <1>1 DEF Awaited, PipeState
  <2> QED
    BY <2>1 DEF CallReturns, OnDrain
<1>5. Nudge
  <2>1. resumeScheduled' \in BOOLEAN /\ UNCHANGED <<emittedReadable, readableListening,
                                                    readingMore, immediates>>
    BY <1>1 DEF CallReturns, OnDrain, IInv, TypeOK, flagVars
  <2> QED
    BY <2>1 DEF CallReturns, OnDrain, Nudge, PushIf
<1>6. /\ IInv' /\ SourceOK' /\ stack' \in Seq(Calm)
      /\ UNCHANGED <<endEmitted, eof, delivered, sourced>>
  BY <1>1, <1>3, <1>5, NudgedSource
<1>7. /\ Dest!Sound' /\ (Dest!NotEnded => Dest!NotEnded')
      /\ UNCHANGED <<calls, wLength, finishes>>
  BY <1>1, <1>2, DestStays
<1>8. \/ flowing' # "on"
      \/ flowing' = flowing /\ ~Filled
      \/ doing = "drain"
  BY DEF CallReturns, OnDrain, Full, Filled
<1>9. PipeState'
  BY <1>1, <1>2, <1>4 DEF PipeState
<1>10. ControlOK'
  BY <1>1, <1>2, <1>3, <1>6, <1>8 DEF ControlOK
<1>11. EndOK'
  BY <1>1, <1>2, <1>6, <1>7 DEF EndOK
<1>12. BoundOK'
  <2> SUFFICES ASSUME finishes = 0 PROVE BoundOK'
    BY <1>7 DEF BoundOK
  <2>1. ASSUME doing = "drain" PROVE wLength < Most(Turns(pipeCalls) - 1)
    <3>1. piped /\ wLength = 0
      BY <1>1, <2>1 DEF ControlOK
    <3> QED
      BY <1>1, <3>1, Bounds
  <2>2. ~Filled'
    BY <1>2 DEF Filled
  <2>3. flowing' = "on" => wLength < Most(Turns(pipeCalls) - 1)
    BY <1>1, <1>8, <2>1 DEF BoundOK
  <2> QED
    BY <1>1, <1>2, <1>7, <2>2, <2>3, SameBounds DEF BoundOK
<1>13. WrittenOK'
  BY <1>1, <1>2, <1>6, <1>7 DEF WrittenOK
<1> QED
  BY <1>1, <1>2, <1>6, <1>7, <1>9, <1>10, <1>11, <1>12, <1>13 DEF PipeInv, Joined

LEMMA OnEndOK ==
    ASSUME PipesWhole, PipeInv, piping, OnEnd
    PROVE  PipeInv'
<1>1. IInv /\ Dest!Sound /\ PipeState /\ SourceOK /\ ControlOK /\ EndOK /\ BoundOK /\ WrittenOK
  BY DEF PipeInv, Joined
<1>2. /\ doing = "finish" /\ doing' = "call" /\ base' = Len(wStack)
      /\ W!Finish \/ UNCHANGED destVars
      /\ UNCHANGED vars
      /\ UNCHANGED <<piped, awaitDrain, chunk, returned, sent, piping, pipeCalls, ticks>>
  BY DEF OnEnd
<1>3. stack \in Seq(Calm) /\ chunk = <<>> /\ endEmitted /\ ~Filled
  BY <1>1, <1>2 DEF ControlOK, EndOK, IInv, TypeOK, Filled
<1>4. Dest!Sound' /\ UNCHANGED <<calls, wLength, finishes>>
  BY <1>1, <1>2, DestFinished, DestStays
<1>5. /\ IInv' /\ SourceOK'
      /\ UNCHANGED <<endEmitted, eof, delivered, sourced, flowing, stack>>
  BY <1>1, <1>2, SourceStill
<1>6. PipeState'
  <2>1. base' \in Nat
    BY <1>1, <1>2, DestGives, LenProperties DEF W!TypeOK
  <2> QED
    BY <1>1, <1>2, <2>1 DEF PipeState
<1>7. ControlOK'
  BY <1>1, <1>2, <1>3, <1>5 DEF ControlOK
<1>8. EndOK'
  BY <1>1, <1>2, <1>3, <1>5 DEF EndOK
<1>9. BoundOK'
  BY <1>1, <1>2, <1>3, <1>4, <1>5, SameBounds DEF BoundOK
<1>10. WrittenOK'
  BY <1>1, <1>2, <1>4, <1>5 DEF WrittenOK
<1> QED
  BY <1>1, <1>2, <1>4, <1>5, <1>6, <1>7, <1>8, <1>9, <1>10 DEF PipeInv, Joined

\* The functions given to nextTick, each by its stream.
LEMMA CheckPipeOK ==
    ASSUME PipesWhole, PipeInv, piping, doing = "none", stack = <<>>, ticks # <<>>,
           Head(ticks) = "pipe", ticks' = Tail(ticks), doing' = "finish",
           UNCHANGED <<vars, destVars, piped, awaitDrain, chunk, returned, base, sent,
                       piping, pipeCalls>>
    PROVE  PipeInv'
<1>1. IInv /\ Dest!Sound /\ PipeState /\ SourceOK /\ ControlOK /\ EndOK /\ BoundOK /\ WrittenOK
  BY DEF PipeInv, Joined
<1>2. stack \in Seq(Calm) /\ chunk = <<>> /\ TicksKept /\ ~Filled
  BY <1>1, TailKeeps, EmptySeq DEF ControlOK, Filled
<1>3. endEmitted
  <2>1. ticks \notin Seq({"source", "dest"})
    BY HeadTailProperties
  <2> QED
    BY <1>1, <2>1 DEF EndOK, IInv, TypeOK
<1>4. /\ Dest!Sound' /\ UNCHANGED <<calls, wLength, finishes>>
  BY <1>1, DestStays
<1>5. /\ IInv' /\ SourceOK'
      /\ UNCHANGED <<endEmitted, eof, delivered, sourced, flowing, stack>>
  BY <1>1, SourceStill
<1>6. PipeState'
  <2>1. ticks' \in Seq({"source", "dest", "pipe"})
    BY <1>1, <1>2 DEF PipeState, TicksKept, Streams
  <2> QED
    BY <1>1, <2>1 DEF PipeState
<1>7. ControlOK'
  BY <1>1, <1>2, <1>5 DEF ControlOK
<1>8. EndOK'
  BY <1>1, <1>3, <1>5 DEF EndOK
<1>9. BoundOK'
  BY <1>1, <1>2, <1>4, <1>5, SameBounds DEF BoundOK
<1>10. WrittenOK'
  BY <1>1, <1>4, <1>5 DEF WrittenOK
<1> QED
  BY <1>1, <1>4, <1>5, <1>6, <1>7, <1>8, <1>9, <1>10 DEF PipeInv, Joined

\* pipe() and unpipe() by user code.
LEMMA UserPipesOK ==
    ASSUME PipesWhole, PipeInv, piping, PipeTo \/ Unpipe
    PROVE  PipeInv'
<1>1. IInv /\ Dest!Sound /\ PipeState /\ SourceOK /\ ControlOK /\ EndOK /\ BoundOK /\ WrittenOK
  BY DEF PipeInv, Joined
<1>2. /\ MayCall /\ doing = "none" /\ stack' = Caller /\ pipeCalls' = pipeCalls + 1
      /\ pipeCalls < MaxPipeCalls
      /\ UNCHANGED <<doing, chunk, returned, base, sent, piping>> /\ UNCHANGED destVars
  BY DEF PipeTo, Unpipe, SourceRuns
<1>3. stack \in Seq(Calm) /\ chunk = <<>> /\ ~Filled /\ ~Filled'
  <2>1. stack \in Seq(Calm)
    <3>1. CASE stack = <<>>
      BY <3>1, EmptySeq
    <3>2. CASE Running("user")
      BY <1>1, <3>2, ShapeRuns DEF SourceOK, Running
    <3> QED
      BY <1>2, <3>1, <3>2 DEF MayCall
  <2> QED
    BY <1>1, <1>2, <2>1 DEF ControlOK, Filled
<1>4. Nudge
  <2>1. CASE PipeTo
    <3>1. resumeScheduled' \in BOOLEAN
      BY <1>1, <2>1 DEF PipeTo, IInv, TypeOK
    <3> QED
      BY <1>2, <2>1, <3>1 DEF PipeTo, Nudge
  <2>2. CASE Unpipe
    <3>1. resumeScheduled' \in BOOLEAN
      BY <1>1, <2>2 DEF Unpipe, IInv, TypeOK, flagVars
    <3> QED
      BY <1>2, <2>2, <3>1 DEF Unpipe, Unpiped, Nudge, flagVars
  <2> QED
    BY <2>1, <2>2
<1>5. /\ IInv' /\ SourceOK' /\ stack' \in Seq(Calm)
      /\ UNCHANGED <<endEmitted, eof, delivered, sourced>>
  BY <1>1, <1>3, <1>4, NudgedSource
<1>6. /\ Dest!Sound' /\ (Dest!NotEnded => Dest!NotEnded')
      /\ UNCHANGED <<calls, wLength, finishes>>
  BY <1>1, <1>2, DestStays
<1>7. /\ ticks' \in Seq({"source", "dest", "pipe"})
      /\ ~endEmitted => ticks' \in Seq({"source", "dest"})
  <2>0. ticks \in Seq({"source", "dest", "pipe"})
    BY <1>1 DEF PipeState
  <2>1. CASE Unpipe
    BY <1>1, <2>0, <2>1 DEF Unpipe, EndOK
  <2>2. CASE PipeTo
    <3>1. PICK a \in {<<>>, <<"pipe">>}, b \in {<<>>, <<"source">>} :
             ticks' = (ticks \o a) \o b /\ (~endEmitted => a = <<>>)
      BY <2>2 DEF PipeTo
    <3>0. /\ <<"pipe">> \in Seq({"source", "dest", "pipe"})
          /\ <<"source">> \in Seq({"source", "dest", "pipe"})
          /\ <<"source">> \in Seq({"source", "dest"})
      OBVIOUS
    <3>2. a \in Seq({"source", "dest", "pipe"}) /\ b \in Seq({"source", "dest", "pipe"})
      BY <3>0, <3>1, EmptySeq, Zenon
    <3>3. b \in Seq({"source", "dest"})
      BY <3>0, <3>1, EmptySeq, Zenon
    <3>4. ticks \o a \in Seq({"source", "dest", "pipe"})
      BY <2>0, <3>2, ConcatProperties
    <3>5. (ticks \o a) \o b \in Seq({"source", "dest", "pipe"})
      BY <3>2, <3>4, ConcatProperties
    <3>6. ASSUME ~endEmitted PROVE (ticks \o a) \o b \in Seq({"source", "dest"})
      <4>1. ticks \in Seq({"source", "dest"}) /\ a \in Seq({"source", "dest"})
        BY <1>1, <3>1, <3>6, EmptySeq DEF EndOK
      <4>2. ticks \o a \in Seq({"source", "dest"})
        BY <4>1, ConcatProperties
      <4> QED
        BY <3>3, <4>2, ConcatProperties
    <3> QED
      BY <3>1, <3>5, <3>6
  <2> QED
    BY <2>1, <2>2
<1>8. \/ piped' = TRUE /\ ~piped /\ flowing' = "on"
      \/ piped' = FALSE /\ piped /\ flowing' = "off"
  BY DEF PipeTo, Unpipe, Unpiped
<1>9. PipeState'
  <2>0. awaitDrain \in Nat /\ (awaitDrain # 0 => awaitDrain - 1 \in Nat)
    BY <1>1 DEF PipeState
  <2>1. awaitDrain' \in Nat /\ piped' \in BOOLEAN
    BY <1>8, <2>0 DEF PipeTo, Unpipe, Unpiped
  <2>2. pipeCalls' \in 0 .. MaxPipeCalls
    BY <1>1, <1>2, PipeAssumption DEF PipeState, PipeAssumption
  <2> QED
    BY <1>1, <1>2, <1>7, <2>1, <2>2 DEF PipeState
<1>10. ControlOK'
  BY <1>1, <1>2, <1>3, <1>5, <1>8 DEF ControlOK
<1>11. EndOK'
  BY <1>1, <1>2, <1>5, <1>6, <1>7 DEF EndOK
<1>12. BoundOK'
  <2> SUFFICES ASSUME finishes = 0 PROVE BoundOK'
    BY <1>6 DEF BoundOK
  <2>1. /\ Most(Turns(pipeCalls))' = Most(Turns(pipeCalls + 1))
        /\ Most(Turns(pipeCalls) - 1)' = Most(Turns(pipeCalls + 1) - 1)
        /\ (pipeCalls % 2)' = (pipeCalls + 1) % 2
    BY <1>2 DEF Most, Turns
  <2>2. wLength \in Int /\ wLength < Most(Turns(pipeCalls)) /\ Most(Turns(pipeCalls)) \in Nat
    BY <1>1, DestGives, Bounds DEF BoundOK
  <2>3. CASE ~piped /\ piped' = TRUE
    <3>1. /\ Turns(pipeCalls + 1) = Turns(pipeCalls) + 1 /\ (pipeCalls + 1) % 2 = 1
          /\ Most(Turns(pipeCalls + 1)) >= Most(Turns(pipeCalls))
          /\ Most(Turns(pipeCalls + 1)) \in Nat /\ Turns(pipeCalls) \in Nat
      BY <1>1, <2>3, Bounds
    <3>2. Turns(pipeCalls + 1) - 1 = Turns(pipeCalls)
      BY <3>1
    <3>3. Most(Turns(pipeCalls + 1) - 1) = Most(Turns(pipeCalls))
      BY <3>2
    <3>4. wLength < Most(Turns(pipeCalls + 1))
      BY <2>2, <3>1
    <3> QED
      BY <1>6, <2>1, <2>2, <2>3, <3>1, <3>3, <3>4 DEF BoundOK
  <2>4. CASE piped /\ piped' = FALSE /\ flowing' = "off"
    <3>1. Turns(pipeCalls + 1) = Turns(pipeCalls) /\ (pipeCalls + 1) % 2 = 0
      BY <1>1, <2>4, Bounds
    <3> QED
      BY <1>6, <2>1, <2>2, <2>4, <3>1 DEF BoundOK
  <2> QED
    BY <1>8, <2>3, <2>4
<1>13. WrittenOK'
  BY <1>1, <1>2, <1>5, <1>6 DEF WrittenOK
<1> QED
  BY <1>1, <1>2, <1>5, <1>6, <1>9, <1>10, <1>11, <1>12, <1>13 DEF PipeInv, Joined

\* The steps of the whole, by who acts.
CheckPipe ==
    /\ doing = "none" /\ stack = <<>> /\ ticks # <<>>
    /\ Head(ticks) = "pipe" /\ ticks' = Tail(ticks) /\ doing' = "finish"
    /\ UNCHANGED <<vars, destVars, piped, awaitDrain, chunk, returned, base, sent, piping,
                   pipeCalls>>
UserActs == ~piping /\ doing = "none" /\ UserCall /\ SourceStep /\ TicksKept

LEMMA PipeSteps ==
    ASSUME IInv, Dest!Sound, [PipeNext]_allVars
    PROVE  \/ SourceActs \/ UserActs \/ DestActs
           \/ OnData \/ CallReturns \/ OnDrain \/ OnEnd \/ PipeTo \/ Unpipe
           \/ CheckPipe \/ UNCHANGED allVars
<1>1. Len(immediates) \in Int /\ Len(wImmediates) \in Int /\ Len(delivered) \in Int
  <2>1. W!TypeOK
    BY DestGives
  <2> QED
    BY <2>1, LenProperties DEF IInv, TypeOK, W!TypeOK
<1>2. ASSUME Next PROVE Len(immediates') \in Int
  <2>1. IInv'
    BY <1>2, StepOK
  <2> QED
    BY <2>1, LenProperties DEF IInv, TypeOK
<1>3. ASSUME NEW who \in Streams, NEW j \in Int, NEW k \in Int,
             ticks' = ticks \o [i \in 1 .. k - j |-> who]
      PROVE  TicksKept
  <2>1. PICK n \in Int : n = k - j
    OBVIOUS
  <2> QED
    BY <1>3, <2>1, DeferredKeeps
<1>4. CASE SourceMoves
  <2>1. SourceRun /\ Next /\ doing = "none" /\ SourceStep
    BY <1>4 DEF SourceMoves, SourceRun, Next, SourceRuns
  <2>2. TicksKept
    BY <1>1, <1>2, <1>3, <1>4, <2>1 DEF SourceMoves, Deferred, Streams
  <2> QED
    BY <2>1, <2>2 DEF SourceActs
<1>5. CASE SourceIO
  <2>1. SourceRun /\ Next /\ doing = "none" /\ SourceStep
    BY <1>5 DEF SourceIO, SourceRun, Next, SourceRuns
  <2>2. TicksKept
    BY <1>1, <1>2, <1>3, <1>5, <2>1 DEF SourceIO, Deferred, Streams
  <2> QED
    BY <2>1, <2>2 DEF SourceActs
<1>6. CASE ConsumerCalls
  <2>1. Next /\ doing = "none" /\ SourceStep /\ UserCall /\ ~piping
    BY <1>6 DEF ConsumerCalls, Next, SourceRuns
  <2>2. TicksKept
    BY <1>1, <1>2, <1>3, <1>6, <2>1 DEF ConsumerCalls, Deferred, Streams
  <2> QED
    BY <2>1, <2>2 DEF UserActs
<1>7. CASE SourceReturns
  BY <1>7 DEF SourceReturns, SourceRuns, SourceActs, SourceRun, TicksKept
<1>8. CASE DestMoves
  <2>1. DestRun /\ DestStep /\ (doing = "call" \/ (doing = "none" /\ stack = <<>>))
    BY <1>8 DEF DestMoves, DestRun, DestRuns
  <2>2. Len(wImmediates') \in Int
    <3>1. Dest!Sound'
      BY <2>1, DestRunStep
    <3> QED
      BY <3>1, LenProperties DEF Dest!Sound, Dest!IInv, Dest!TypeOK
  <2>3. TicksKept
    BY <1>1, <1>3, <1>8, <2>2 DEF DestMoves, Deferred, Streams
  <2> QED
    BY <2>1, <2>3 DEF DestActs
<1>9. CASE DestIO
  BY <1>9 DEF DestIO, Idle, DestActs, DestRun, TicksKept
<1>10. CASE CheckPhase
  <2>0. doing = "none" /\ stack = <<>> /\ ticks # <<>> /\ ticks' = Tail(ticks) /\ TicksKept
    BY <1>10, TailKeeps DEF CheckPhase, Idle
  <2>1. CASE RunImmediate /\ UNCHANGED <<destVars, pipeVars>>
    <3>1. UNCHANGED <<resumeScheduled, delivered, ends>>
      BY <2>1 DEF RunImmediate, flagVars, bufferVars, endVars
    <3>2. ~EmitsData
      BY <1>1, <3>1 DEF EmitsData
    <3>3. SourceStep
      BY <2>1, <3>1, <3>2 DEF SourceStep, pipeVars
    <3> QED
      BY <2>0, <2>1, <3>3 DEF SourceActs, SourceRun
  <2>2. CASE W!RunImmediate /\ UNCHANGED <<vars, pipeVars>>
    <3>1. UNCHANGED <<needDrain, finishes>>
      BY <2>2 DEF W!RunImmediate, W!flagVars, W!logVars, W!queueVars, W!writeVars
    <3>2. DestStep
      BY <2>2, <3>1 DEF DestStep, pipeVars
    <3> QED
      BY <2>0, <2>2, <3>2 DEF DestActs, DestRun
  <2>3. CASE /\ Head(ticks) = "pipe" /\ doing' = "finish"
             /\ UNCHANGED <<vars, destVars, piped, awaitDrain, chunk, returned, base, sent,
                            piping, pipeCalls>>
    BY <2>0, <2>3 DEF CheckPipe
  <2> QED
    BY <1>10, <2>1, <2>2, <2>3 DEF CheckPhase
<1> QED
  BY <1>4, <1>5, <1>6, <1>7, <1>8, <1>9, <1>10 DEF PipeNext, PipeStep

\* A source that is read without a pipe.
LEMMA AloneOK ==
    ASSUME PipeInv, ~piping, SourceActs \/ UserActs \/ DestActs
    PROVE  PipeInv'
<1>1. /\ IInv /\ Dest!Sound /\ PipeState /\ ~piped /\ doing = "none"
      /\ ticks \in Seq({"source", "dest"})
  BY DEF PipeInv
<1>2. TicksKept /\ UNCHANGED <<returned, base, sent, piping, pipeCalls>>
  BY DEF SourceActs, UserActs, DestActs, SourceStep, DestStep
<1>3. ticks' \in Seq({"source", "dest", "pipe"}) /\ ticks' \in Seq({"source", "dest"})
  BY <1>1, <1>2 DEF PipeState, TicksKept, Streams
<1>4. UNCHANGED <<doing, chunk, piped>> /\ awaitDrain' \in Nat
  <2>1. CASE SourceStep
    BY <1>1, <2>1 DEF SourceStep, PipeState
  <2>2. CASE DestStep
    BY <1>1, <2>2 DEF DestStep, PipeState
  <2> QED
    BY <2>1, <2>2 DEF SourceActs, UserActs, DestActs
<1>5. PipeState'
  BY <1>1, <1>2, <1>3, <1>4 DEF PipeState
<1>6. IInv'
  <2>1. Next \/ UNCHANGED vars
    BY <1>1 DEF SourceActs, SourceRun, UserActs, DestActs, DestStep, Next
  <2> QED
    BY <1>1, <2>1, StepOK
<1>7. Dest!Sound'
  BY <1>1, DestRunStep, DestStays DEF SourceActs, UserActs, DestActs, SourceStep
<1> QED
  BY <1>1, <1>2, <1>3, <1>4, <1>5, <1>6, <1>7 DEF PipeInv

LEMMA PipeKept == PipesWhole /\ PipeInv /\ [PipeNext]_allVars => PipeInv'
<1> SUFFICES ASSUME PipesWhole, PipeInv, [PipeNext]_allVars PROVE PipeInv'
  OBVIOUS
<1>1. /\ IInv /\ Dest!Sound
      /\ ~piping => ~piped /\ doing = "none" /\ ticks \in Seq({"source", "dest"})
  BY DEF PipeInv
<1>2. \/ SourceActs \/ UserActs \/ DestActs
      \/ OnData \/ CallReturns \/ OnDrain \/ OnEnd \/ PipeTo \/ Unpipe
      \/ CheckPipe \/ UNCHANGED allVars
  BY <1>1, PipeSteps
<1>3. CASE UNCHANGED allVars
  <2>1. UNCHANGED vars /\ UNCHANGED destVars /\ UNCHANGED ticks
        /\ UNCHANGED <<piped, awaitDrain, doing, chunk, returned, base, sent, piping, pipeCalls>>
    BY <1>3 DEF allVars, pipeVars
  <2>2. PipeState'
    BY <2>1 DEF PipeInv, PipeState
  <2>3. /\ IInv' /\ (SourceOK => SourceOK')
        /\ UNCHANGED <<endEmitted, eof, delivered, sourced, flowing, stack>>
    BY <1>1, <2>1, SourceStill
  <2>4. /\ Dest!Sound' /\ (Dest!NotEnded => Dest!NotEnded')
        /\ UNCHANGED <<calls, wLength, finishes>>
    BY <1>1, <2>1, DestStays
  <2>5. ControlOK => ControlOK'
    BY <2>1, <2>3, <2>4 DEF ControlOK, Sized
  <2>6. EndOK => EndOK'
    BY <2>1, <2>3, <2>4 DEF EndOK
  <2>7. BoundOK => BoundOK'
    BY <2>1, <2>3, <2>4, SameBounds DEF BoundOK, Filled
  <2>8. WrittenOK => WrittenOK'
    BY <2>1, <2>3, <2>4 DEF WrittenOK
  <2> QED
    BY <2>1, <2>2, <2>3, <2>4, <2>5, <2>6, <2>7, <2>8 DEF PipeInv, Joined
<1>4. CASE ~piping /\ ~UNCHANGED allVars
  <2>1. SourceActs \/ UserActs \/ DestActs \/ CheckPipe
    BY <1>1, <1>2, <1>4 DEF OnData, CallReturns, OnDrain, OnEnd, PipeTo, Unpipe
  <2>2. CASE CheckPipe
    BY <1>1, <1>4, <2>2, HeadTailProperties DEF CheckPipe
  <2> QED
    BY <1>4, <2>1, <2>2, AloneOK
<1>5. CASE piping /\ ~UNCHANGED allVars
  BY <1>2, <1>5, SourceActsOK, DestActsOK, OnDataOK, ListenerOK, OnEndOK, UserPipesOK,
     CheckPipeOK DEF UserActs, CheckPipe
<1> QED
  BY <1>3, <1>4, <1>5

-----------------------------------------------------------------------------
(* The results. *)

\* For streams of any sizes, chunks and marks, and any number of calls of pipe() and
\* unpipe(): what the source delivered is what was written, in order, then what is being
\* written; the sink gets it in order and once; what the destination keeps is bounded by
\* its mark and a chunk for each call of pipe(); it finishes once, when all has come.
THEOREM PipesAreWhole ==
    ASSUME PipesWhole
    PROVE  PipeSpec => []PipeWhole
<1>1. PipeInv => PipeWhole
  <2> SUFFICES ASSUME PipeInv PROVE PipeWhole
    OBVIOUS
  <2>1. /\ W!TypeOK /\ calls \in 0 .. MaxBytes /\ wLength \in Int
        /\ \A i \in DOMAIN handed : handed[i] = i
        /\ finishes \in {0, 1}
        /\ finishes > 0 => ~Dest!NotEnded /\ wLength = 0 /\ Len(handed) = calls
    BY DestGives DEF PipeInv
  <2>2. PipeTypeOK
    BY <2>1 DEF PipeInv, PipeState, PipeTypeOK, Bytes
  <2>3. ASSUME piping
        PROVE  /\ delivered = FlattenSeq(sent) \o chunk
               /\ wLength < SinkMark + Largest * ((pipeCalls + 1) \div 2)
               /\ finishes > 0 => /\ finishes = 1 /\ eof /\ Len(delivered) = sourced
                                  /\ Len(handed) = Len(sent)
    <3>1. PipeState /\ EndOK /\ BoundOK /\ WrittenOK
      BY <2>3 DEF PipeInv, Joined
    <3>2. /\ SinkMark > 0 /\ SinkMark \in Nat
          /\ Most(Turns(pipeCalls)) \in Nat /\ Most(Turns(pipeCalls)) >= SinkMark
      BY <3>1, Bounds
    <3>3. wLength < Most(Turns(pipeCalls))
      BY <2>1, <3>1, <3>2 DEF BoundOK
    <3>4. finishes > 0 => finishes = 1 /\ endEmitted
      BY <2>1, <3>1 DEF EndOK
    <3> QED
      BY <2>1, <3>1, <3>3, <3>4 DEF Most, Turns, EndOK, WrittenOK
  <2> QED
    BY <2>1, <2>2, <2>3 DEF PipeWhole
<1>2. PipeInit => PipeInv
  BY PipeStart
<1>3. PipeInv /\ [PipeNext]_allVars => PipeInv'
  BY PipeKept
<1> QED
  BY <1>1, <1>2, <1>3, PTL DEF PipeSpec

\* The destination of a pipe is a Writable as that module has it: pipe() uses it only
\* as any other code may.
LEMMA DestMoveIs ==
    ASSUME PipesWhole, PipeInv, [PipeNext]_allVars
    PROVE  [W!Next]_W!vars /\ [Dest!Next]_Dest!vars
<1>1. IInv /\ Dest!Sound /\ (~piping => doing = "none")
  BY DEF PipeInv
<1>2. ASSUME UNCHANGED destVars PROVE UNCHANGED W!vars /\ UNCHANGED Dest!vars
  BY <1>2, DestVars DEF destVars, W!vars, W!flagVars, W!writeVars, W!queueVars, W!logVars
<1>3. CASE DestActs
  <2>1. DestRun
    BY <1>3 DEF DestActs
  <2>2. W!Next
    BY <2>1 DEF DestRun, W!Next
  <2>3. Dest!Next
    <3>1. Dest!OwnStep
      BY <2>1, DestOwnStep DEF DestRun
    <3> QED
      BY <3>1 DEF Dest!OwnStep, Dest!Next
  <2> QED
    BY <2>2, <2>3
<1>4. CASE OnData
  <2>1. PICK len \in ChunkSizes \ {0} : W!Write(len)
    <3>1. doing = "write" /\ piping /\ W!Write(Len(chunk))
      BY <1>1, <1>4 DEF OnData
    <3>2. Len(chunk) \in ChunkSizes \ {0}
      BY <3>1 DEF PipeInv, Joined, ControlOK, Sized
    <3> QED
      BY <3>1, <3>2
  <2>2. Dest!Write(len)
    BY <2>1, DestWrite
  <2>3. W!Next
    BY <2>1 DEF W!Next, W!UserCall
  <2>4. Dest!Next
    BY <2>2 DEF Dest!Next, Dest!UserCall
  <2> QED
    BY <2>3, <2>4
<1>5. CASE OnEnd
  <2>1. CASE W!Finish
    <3>1. Dest!Finish
      BY <2>1, DestFinish
    <3>2. W!Next
      BY <2>1 DEF W!Next, W!UserCall
    <3>3. Dest!Next
      BY <3>1 DEF Dest!Next, Dest!UserCall
    <3> QED
      BY <3>2, <3>3
  <2>2. CASE UNCHANGED destVars
    BY <1>2, <2>2
  <2> QED
    BY <1>5, <2>1, <2>2 DEF OnEnd
<1>6. CASE ~DestActs /\ ~OnData /\ ~OnEnd
  <2>1. \/ SourceActs \/ UserActs \/ CallReturns \/ OnDrain \/ PipeTo \/ Unpipe
        \/ CheckPipe \/ UNCHANGED allVars
    BY <1>1, <1>6, PipeSteps
  <2>2. UNCHANGED destVars
    BY <2>1 DEF SourceActs, UserActs, SourceStep, CallReturns, OnDrain, PipeTo, Unpipe,
       CheckPipe, allVars
  <2> QED
    BY <1>2, <2>2
<1> QED
  BY <1>3, <1>4, <1>5, <1>6

THEOREM DestinationIsAWritable ==
    ASSUME PipesWhole
    PROVE  PipeSpec => W!Spec /\ Dest!Spec
<1>1. PipeInit => PipeInv /\ W!Init /\ Dest!Init
  BY PipeStart, DestInit DEF PipeInit
<1>2. PipeInv /\ [PipeNext]_allVars => PipeInv' /\ [W!Next]_W!vars /\ [Dest!Next]_Dest!vars
  BY PipeKept, DestMoveIs
<1> QED
  BY <1>1, <1>2, PTL DEF PipeSpec, W!Spec, Dest!Spec

\* Seen from the sink, what feeds a pipe is a queue: each chunk is put in and taken out
\* in order, whatever the source, its listeners and the calls of pipe() and unpipe() do.
THEOREM PipedIsAQueue ==
    ASSUME PipesWhole
    PROVE  PipeSpec => Dest!ImplementsQueue
<1>1. PipeSpec => Dest!Spec
  BY DestinationIsAWritable
<1>2. Dest!Spec => Dest!ImplementsQueue
  BY DestConstants, Dest!StreamIsAQueue DEF Dest!SoundSink
<1> QED
  BY <1>1, <1>2

-----------------------------------------------------------------------------
(* What is promised of a source alone holds of one that is piped.          *)

\* Each step of the whole is one of the source, nothing to it, or a nudge; a nudge that
\* pushes a frame comes from a listener of the pipe.
LEMMA SourceInPipe ==
    ASSUME IInv, [PipeNext]_allVars
    PROVE  \/ [Next]_vars
           \/ /\ Nudge /\ flowing' # "unset"
              /\ stack' = stack \/ doing \in {"call", "drain"} \/ (MayCall /\ stack' = Caller)
<1>0. resumeScheduled \in BOOLEAN
  BY DEF IInv, TypeOK
<1>1. CASE CallReturns
  <2>1. CASE Full
    <3>1. flowing' = "off" /\ stack' \in {stack, Push(UserFrame, stack)} /\ doing = "call"
      BY <1>1, <2>1 DEF CallReturns, PushIf
    <3> QED
      BY <1>0, <1>1, <3>1 DEF CallReturns, Nudge, flagVars
  <2>2. CASE ~Full
    BY <1>1, <2>2 DEF CallReturns, vars
  <2> QED
    BY <2>1, <2>2
<1>2. CASE OnDrain
  <2>1. CASE Awaited = 0
    <3>1. flowing' = "on" /\ stack' = Push(FrameOf("flow"), stack) /\ doing = "drain"
      BY <1>2, <2>1 DEF OnDrain
    <3> QED
      BY <1>0, <1>2, <3>1 DEF OnDrain, Nudge, flagVars
  <2>2. CASE Awaited # 0
    BY <1>2, <2>2 DEF OnDrain, vars
  <2> QED
    BY <2>1, <2>2
<1>3. CASE PipeTo
  BY <1>0, <1>3 DEF PipeTo, Nudge
<1>4. CASE Unpipe
  BY <1>0, <1>4 DEF Unpipe, Unpiped, Nudge, flagVars
<1>5. CASE DestStep
  BY <1>0, <1>5 DEF DestStep, Unpiped, Nudge, flagVars
<1>6. CASE SourceMoves \/ SourceReturns \/ SourceIO \/ ConsumerCalls
  BY <1>6 DEF SourceMoves, SourceReturns, SourceIO, ConsumerCalls, Next
<1>7. CASE CheckPhase
  BY <1>7 DEF CheckPhase, Next
<1>8. CASE OnData \/ OnEnd
  BY <1>8 DEF OnData, OnEnd
<1> QED
  BY <1>1, <1>2, <1>3, <1>4, <1>5, <1>6, <1>7, <1>8
     DEF PipeNext, PipeStep, DestMoves, DestIO, allVars

\* Whatever it is piped to, and by whatever calls: what was delivered, then the buffer,
\* are the bytes of the source in their order, and the stream's variables keep their types.
THEOREM PipedInOrder == PipeSpec => [](TypeOK /\ InOrder)
<1>1. PipeInit => IInv
  BY InitOK DEF PipeInit
<1>2. IInv /\ [PipeNext]_allVars => IInv'
  BY SourceInPipe, StepOK, NudgeOK
<1>3. IInv => TypeOK /\ InOrder
  BY DEF IInv
<1> QED
  BY <1>1, <1>2, <1>3, PTL DEF PipeSpec

\* 'end' comes once, after the last byte, also when pipe() and unpipe() stop and start
\* the flow.
THEOREM PipedEndsAfterData == PipeSpec => EndAfterData
<1>1. PipeInit => IInv
  BY InitOK DEF PipeInit
<1>2. IInv /\ [PipeNext]_allVars => IInv'
  BY SourceInPipe, StepOK, NudgeOK
<1>3. IInv /\ [PipeNext]_allVars =>
         [ends' # ends => ends = 0 /\ eof /\ (misread \/ Len(delivered) = sourced)]_vars
  <2> SUFFICES ASSUME IInv, [PipeNext]_allVars, ends' # ends
               PROVE  ends = 0 /\ eof /\ (misread \/ Len(delivered) = sourced)
    OBVIOUS
  <2>1. ~Nudge
    BY DEF Nudge, endVars
  <2> QED
    BY <2>1, SourceInPipe, EndStep
<1> QED
  BY <1>1, <1>2, <1>3, PTL DEF PipeSpec, EndAfterData

\* The pipe's listeners run over frames that owe nothing.
LEMMA CalmIsSettled == Calm \subseteq Settled
BY DEF Calm, Settled

LEMMA OwedInPipe ==
    ASSUME OneAnswerEach, PipeInv, Owed, [PipeNext]_allVars
    PROVE  Owed' /\ (Asks => ~io /\ ~readableEnded)
<1>1. IInv /\ stack \in Seq(Frame) /\ immediates \in Seq(Frame)
  BY DEF PipeInv, IInv, TypeOK
<1>2. CASE [Next]_vars
  <2>1. /\ Owed'
        /\ stack' \in Seq(Settled) \/ UNCHANGED stack \/ (~io /\ ~readableEnded)
    BY <1>1, <1>2, OwedStep
  <2>2. ASSUME Asks PROVE stack' \notin Seq(Settled) /\ ~UNCHANGED stack
    <3>1. stack' \in Seq(Settled) => Head(stack') \in Settled
      BY <2>2, HeadTailProperties DEF Asks
    <3>2. Len(stack) \in Int
      BY <1>1, LenProperties
    <3> QED
      BY <2>2, <3>1, <3>2, SettledClosed DEF Asks, Asking
  <2> QED
    BY <2>1, <2>2
<1>3. CASE Nudge /\ stack' = stack
  <2>1. immediates' \in Seq(Settled)
    <3>1. immediates \in Seq(Settled) /\ FrameOf("resumeTick") \in Settled
      BY FrameTypes, SettledClosed DEF Owed, Closed
    <3> QED
      BY <1>3, <3>1, AppendProperties DEF Nudge
  <2>2. UNCHANGED <<io, reading>>
    BY <1>3 DEF Nudge, sourceVars
  <2>3. ~Asks
    BY <1>1, <1>3, LenProperties DEF Asks
  <2> QED
    BY <1>3, <2>1, <2>2, <2>3 DEF Owed, Rest
<1>4. CASE Nudge /\ (doing \in {"call", "drain"} \/ MayCall)
  <2>1. stack \in Seq(Settled)
    <3>1. CASE doing \in {"call", "drain"}
      <4>1. stack \in Seq(Calm)
        BY <3>1 DEF PipeInv, Joined, ControlOK
      <4> QED
        BY <4>1, CalmIsSettled
    <3>2. CASE MayCall
      BY <3>2 DEF Owed, MayCall, Running, Asking, FrameOf
    <3> QED
      BY <1>4, <3>1, <3>2
  <2>2. immediates \in Seq(Settled) /\ (io => reading)
    BY DEF Owed
  <2>3. Keeps(Settled)
    BY <1>1, <1>4, <2>1, <2>2, SettledClosed, NudgeKeeps
  <2>4. UNCHANGED <<io, reading>>
    BY <1>4 DEF Nudge, sourceVars
  <2>5. Owed'
    BY <2>2, <2>3, <2>4 DEF Owed, Keeps
  <2>6. ~Asks
    <3>1. stack' # <<>> => Head(stack') \in Settled
      BY <2>3, HeadTailProperties DEF Keeps
    <3> QED
      BY <3>1, SettledClosed DEF Asks, Asking
  <2> QED
    BY <2>5, <2>6
<1> QED
  BY <1>1, <1>2, <1>3, <1>4, SourceInPipe

\* A source that answers each _read once is asked again only when it has answered, also
\* by the flow that 'drain' starts in the middle of a turn of the loop.
THEOREM PipedAsksOnce ==
    ASSUME PipesWhole, OneAnswerEach
    PROVE  PipeSpec => OneRead
<1>1. PipeInit => PipeInv /\ Owed
  BY PipeStart, EmptySeq DEF PipeInit, Init, Owed
<1>2. PipeInv /\ Owed /\ [PipeNext]_allVars => PipeInv' /\ Owed'
  BY PipeKept, OwedInPipe
<1>3. PipeInv /\ Owed /\ [PipeNext]_allVars => [Asks => ~io /\ ~readableEnded]_vars
  BY OwedInPipe
<1> QED
  BY <1>1, <1>2, <1>3, PTL DEF PipeSpec, OneRead
=============================================================================

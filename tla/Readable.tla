------------------------------ MODULE Readable ------------------------------
(***************************************************************************)
(* stream/readable.lua: the reading half of every stream of the runtime    *)
(* (sockets, files, child stdout, transforms).                             *)
(*                                                                         *)
(* The stream asks its source, the subclass's _read(), for data; the       *)
(* source calls push() before _read() returns or later, from the event     *)
(* loop.  User code pulls with read() or lets the stream flow.  As in      *)
(* Writable, listeners run in the middle of the stream's code and may call *)
(* it again, so the code still to run is kept in `stack'.                  *)
(*                                                                         *)
(* The bytes of the source are numbered 1, 2, 3...; a chunk is the         *)
(* sequence of its bytes.                                                  *)
(***************************************************************************)
EXTENDS Integers, Sequences, SequencesExt

CONSTANTS
    MaxBytes,        \* bound: bytes the source has
    ChunkSizes,      \* sizes of the chunks the source pushes (objects have size 1)
    InitialMark,     \* options.highWaterMark
    ObjectModes,     \* options.objectMode: subset of BOOLEAN
    ReadSizes,       \* sizes user code gives to read(n), beside read()
    PullsOnReadable, \* the 'readable' listener calls read() until it returns nil
    UserCalls,       \* what user code calls: subset of {"read", "pause", "resume", "on"}
    MaxUnshifts,     \* bound: number of unshift() calls
    MaxPushes,       \* bound: chunks the source pushes inside one _read
    PushesUnasked,   \* the source also pushes when _read was not called (sockets)
    LatePushes,      \* the source pushes after its end of file
    MaxCalls,        \* bound: calls that one listener makes
    MaxStack,        \* bound: listeners call the stream from a stack this deep
    MaxImmediates    \* bound: and while the check phase has this few to run

NoSize == -1  \* read() without an argument

ASSUME ReadableAssumption ==
    /\ MaxBytes \in Nat /\ ChunkSizes \subseteq Nat /\ InitialMark \in Nat
    /\ ReadSizes \subseteq Nat
    /\ {MaxUnshifts, MaxPushes, MaxCalls, MaxStack, MaxImmediates} \subseteq Nat
    /\ UserCalls \subseteq {"read", "pause", "resume", "on"}
    /\ {PullsOnReadable, PushesUnasked, LatePushes} \subseteq BOOLEAN
    /\ ObjectModes \subseteq BOOLEAN /\ ObjectModes # {}

VARIABLES
    readableEnded,               \* field of Readable
    \* fields of ReadableState
    objectMode, highWaterMark, buffer, length,
    flowing,                     \* "unset" is nil
    endEmitted, reading, sync, needReadable, emittedReadable, readableListening,
    readingMore, resumeScheduled,
    \* the source and the event loop
    io,                          \* _read has returned and its push is still to come
    sourced, eof,                \* bytes pushed so far; the end of file was pushed
    immediates,                  \* functions given to nextTick
    stack,                       \* code still to run in this turn of the loop
    \* what has been observed from outside
    delivered,                   \* bytes read, in the order of their 'data' events
    unshifts, ends,              \* number of unshift() calls, and of 'end' events
    thrown,                      \* the stream raised a Lua error
    misread                      \* a read() has lost bytes, see SpansChunks

bufferVars == <<buffer, length, delivered, misread>>
flagVars   == <<emittedReadable, readableListening, readingMore, resumeScheduled>>
endVars    == <<readableEnded, endEmitted, ends>>
sourceVars == <<io, sourced, eof, unshifts, objectMode>>
vars == <<bufferVars, flagVars, endVars, sourceVars, highWaterMark, flowing, reading,
          sync, needReadable, immediates, stack, thrown>>

-----------------------------------------------------------------------------
(* The frames of the stack.  A read() called by a loop has the loop in     *)
(* `loop': the loop goes on when the read returned data.                   *)
Frame == [op : {"user", "source", "read", "fromBuffer", "emitReadable", "emitEnd",
                "flow", "pull", "more", "moreLoop", "resumeTick",
                "resumed", "resumeRead", "endTick", "readableTick"},
          arg : Int, loop : {"none", "flow", "pull"}]

FrameOf(op) == [op |-> op, arg |-> 0, loop |-> "none"]
FrameWith(op, n) == [op |-> op, arg |-> n, loop |-> "none"]
ReadFrame(n, loop) == [op |-> "read", arg |-> n, loop |-> loop]
UserFrame == FrameWith("user", MaxCalls)
ReadableListener ==
    IF PullsOnReadable /\ readableListening THEN FrameOf("pull") ELSE UserFrame

Running(op) == stack # <<>> /\ Head(stack).op = op
Rest == Tail(stack)
Push(frame, frames) == <<frame>> \o frames
PushIf(cond, frame, frames) == IF cond THEN Push(frame, frames) ELSE frames
Continue(loop, frames) == PushIf(loop # "none", FrameOf(loop), frames)

\* User code calls the stream, at the top of a turn or from a listener; `Caller'
\* is the stack it leaves, a call less in the listener that runs.
MayCall ==
    /\ stack = <<>> \/ (Running("user") /\ Head(stack).arg > 0)
    /\ Len(stack) < MaxStack /\ Len(immediates) < MaxImmediates
Caller == IF stack = <<>> THEN stack ELSE Push([Head(stack) EXCEPT !.arg = @ - 1], Rest)

Init ==
    /\ readableEnded = FALSE
    /\ objectMode \in ObjectModes /\ highWaterMark = InitialMark
    /\ buffer = <<>> /\ length = 0 /\ flowing = "unset"
    /\ endEmitted = FALSE /\ reading = FALSE /\ sync = TRUE
    /\ needReadable = FALSE /\ emittedReadable = FALSE /\ readableListening = FALSE
    /\ readingMore = FALSE /\ resumeScheduled = FALSE
    /\ io = FALSE /\ sourced = 0 /\ eof = FALSE
    /\ immediates = <<>> /\ stack = <<>>
    /\ delivered = <<>> /\ unshifts = 0 /\ ends = 0
    /\ thrown = FALSE /\ misread = FALSE

-----------------------------------------------------------------------------
(* ReadableState. *)
ChunkLen(chunk) == IF objectMode THEN 1 ELSE Len(chunk)

\* _stateRoundUpToNextPowerOf2
MaxMark == 8388608
PowersOf2 == {1, 2, 4, 8, 16, 32, 64, 128, 256, 512, 1024, 2048, 4096, 8192, 16384, 32768,
              65536, 131072, 262144, 524288, 1048576, 2097152, 4194304, MaxMark}
RoundUp(n) ==
    IF n >= MaxMark THEN MaxMark
    ELSE CHOOSE p \in PowersOf2 : n <= p /\ (p = 1 \/ p < 2 * n)

(* _stateHowMuchToRead(n, ended), and the high water mark it leaves. *)
SizeOfNext ==
    IF flowing # "on" THEN length
    ELSE IF buffer = <<>> THEN 0 ELSE Len(Head(buffer))

HowMuchToRead(n, ended) ==
    CASE ended /\ length = 0          -> 0
      [] ~(ended /\ length = 0) /\ objectMode  -> IF n = 0 THEN 0 ELSE 1
      [] ~(ended /\ length = 0) /\ ~objectMode ->
           IF n = NoSize THEN SizeOfNext
           ELSE IF n <= length THEN n
           ELSE IF ended THEN length ELSE 0

MarkFor(n) == IF ~objectMode /\ n > highWaterMark THEN RoundUp(n) ELSE highWaterMark

(* _stateReadFromBuffer once it knows that it will take n > 0: what it      *)
(* returns and the buffer it leaves.  A read that spans chunks without     *)
(* emptying the buffer adds a string to a number.                          *)
SpansChunks(n) == ~objectMode /\ n < length /\ n > Len(Head(buffer))

\* Lua makes a number of a string of digits, of any value, and raises an error for
\* another one, with the chunks before it taken from the buffer already.
Beyond(k) == SubSeq(buffer, k + 1, Len(buffer))
LeftByError ==
    { Beyond(k) : k \in {m \in 0 .. Len(buffer) - 1 : \A i \in 1 .. m : buffer[i] # <<>>} }

\* Or the read returns the k chunks that it took for numbers, and the next one, from
\* which it returns nothing, is cut as if it were the first.
Miscounted(n) ==
    { [ret |-> FlattenSeq(SubSeq(buffer, 1, k)),
       left |-> IF k = Len(buffer) THEN <<>>
                ELSE <<SubSeq(buffer[k + 1], n + 1, Len(buffer[k + 1]))>> \o Beyond(k + 1)] :
      k \in {m \in 1 .. Len(buffer) : \A i \in 1 .. m : buffer[i] # <<>>} }

\* Variant: a chunk that is cut keeps what was returned.
Taken_Uncut(n) ==
    IF objectMode \/ (n < length /\ n = Len(Head(buffer)))
      THEN [ret |-> Head(buffer), left |-> Tail(buffer)]
    ELSE IF n >= length THEN [ret |-> FlattenSeq(buffer), left |-> <<>>]
    ELSE [ret |-> SubSeq(Head(buffer), 1, n),
          left |-> <<SubSeq(Head(buffer), n, Len(Head(buffer)))>> \o Tail(buffer)]

Taken(n) ==
    IF objectMode \/ (n < length /\ n = Len(Head(buffer)))
      THEN [ret |-> Head(buffer), left |-> Tail(buffer)]
    ELSE IF n >= length THEN [ret |-> FlattenSeq(buffer), left |-> <<>>]
    ELSE [ret |-> SubSeq(Head(buffer), 1, n),
          left |-> <<SubSeq(Head(buffer), n + 1, Len(Head(buffer)))>> \o Tail(buffer)]

-----------------------------------------------------------------------------
(* Readable:read(n). *)
AskedForReadable(n) == n = 0 /\ needReadable

\* _readableRead calls _read?
\* Variants: asks although an answer is still to come; asks whatever is buffered.
NeedRead_Twice(n) ==
    /\ ~readableEnded
    /\ needReadable \/ length = 0 \/ length < highWaterMark
NeedRead_Unbounded(n) == ~readableEnded /\ ~reading

NeedRead(n) ==
    /\ ~readableEnded /\ ~reading
    /\ \/ needReadable
       \/ length = 0
       \/ length < highWaterMark
       \/ n > 0 /\ length < MarkFor(n) + HowMuchToRead(n, readableEnded)

\* highWaterMark is raised there only when the other reasons to read are absent.
MarkAfterNeedRead(n) ==
    IF ~readableEnded /\ ~reading /\ ~needReadable /\ length # 0 /\ length >= highWaterMark
      THEN MarkFor(n) ELSE highWaterMark

Read ==
    /\ Running("read")
    /\ LET n == Head(stack).arg
           fromBuffer == [Head(stack) EXCEPT !.op = "fromBuffer"]
       IN  /\ emittedReadable' = (emittedReadable /\ n = 0)
           /\ \/ /\ AskedForReadable(n) /\ (readableEnded \/ length >= highWaterMark)
                 /\ stack' = IF readableEnded /\ length = 0
                               THEN Push(FrameOf("emitEnd"), Rest)
                               ELSE PushIf(length > 0, FrameOf("emitReadable"), Rest)
                 /\ UNCHANGED <<highWaterMark, reading, sync>>
              \/ /\ ~(AskedForReadable(n) /\ (readableEnded \/ length >= highWaterMark))
                 /\ readableEnded /\ length = 0
                 /\ stack' = Push(FrameOf("emitEnd"), Rest)
                 /\ UNCHANGED <<highWaterMark, reading, sync>>
              \/ /\ ~(AskedForReadable(n) /\ (readableEnded \/ length >= highWaterMark))
                 /\ ~(readableEnded /\ length = 0)
                 /\ highWaterMark' = MarkAfterNeedRead(n)
                 /\ IF NeedRead(n)
                      THEN /\ reading' = TRUE /\ sync' = TRUE
                           /\ stack' = Push(FrameOf("source"), Push(fromBuffer, Rest))
                      ELSE /\ UNCHANGED <<reading, sync>>
                           /\ stack' = Push(fromBuffer, Rest)
    /\ UNCHANGED <<bufferVars, endVars, sourceVars, readableListening, readingMore,
                   resumeScheduled, flowing, needReadable, immediates, thrown>>

(* _readableReadFromBuffer, and the 'data' event of what it returned. *)
ReadFromBuffer ==
    /\ Running("fromBuffer")
    /\ LET n == HowMuchToRead(Head(stack).arg, FALSE)
           empty == n <= 0 \/ buffer = <<>> \/ length = 0
       IN  /\ highWaterMark' = MarkFor(Head(stack).arg)
           /\ \/ /\ empty
                 /\ needReadable' = TRUE
                 /\ stack' = Rest
                 /\ UNCHANGED <<bufferVars, thrown>>
              \/ /\ ~empty /\ SpansChunks(n)
                 /\ buffer' \in LeftByError
                 /\ misread' = (misread \/ buffer' # buffer)
                 /\ thrown' = TRUE
                 /\ stack' = <<>>
                 /\ UNCHANGED <<length, delivered, needReadable>>
              \/ /\ ~empty
                 /\ \E taken \in (IF SpansChunks(n) THEN Miscounted(n) ELSE {Taken(n)}) :
                       /\ buffer' = taken.left
                       /\ delivered' = delivered \o taken.ret
                 /\ misread' = (misread \/ SpansChunks(n))
                 /\ length' = length - n
                 /\ needReadable' = (needReadable \/ (length' = 0 /\ ~readableEnded))
                 /\ stack' = Push(UserFrame, Continue(Head(stack).loop, Rest))
                 /\ UNCHANGED thrown
    /\ UNCHANGED <<flagVars, endVars, sourceVars, flowing, reading, sync, immediates>>

\* The while loop of _readableFlow, and the one of a listener that pulls, which goes
\* on in any mode.
Flow ==
    /\ \E loop \in {"flow", "pull"} :
          /\ Running(loop)
          /\ stack' = PushIf(loop = "pull" \/ flowing = "on", ReadFrame(NoSize, loop), Rest)
    /\ UNCHANGED <<bufferVars, flagVars, endVars, sourceVars, highWaterMark, flowing,
                   reading, sync, needReadable, immediates, thrown>>

(* _readableEmitReadable: 'readable', then the flow; on a later tick while *)
(* the source runs.                                                        *)
EmitsNow == ~sync

EmitReadable ==
    /\ Running("emitReadable")
    /\ needReadable' = FALSE
    /\ emittedReadable' = TRUE
    /\ stack' = IF ~emittedReadable /\ EmitsNow
                  THEN Push(ReadableListener, Push(FrameOf("flow"), Rest))
                  ELSE Rest
    /\ immediates' = IF ~emittedReadable /\ ~EmitsNow
                       THEN Append(immediates, FrameOf("readableTick"))
                       ELSE immediates
    /\ UNCHANGED <<bufferVars, readableListening, readingMore, resumeScheduled, endVars,
                   sourceVars, highWaterMark, flowing, reading, sync, thrown>>

ReadableTick ==
    /\ Running("readableTick")
    /\ stack' = Push(ReadableListener, Push(FrameOf("flow"), Rest))
    /\ UNCHANGED <<bufferVars, flagVars, endVars, sourceVars, highWaterMark, flowing,
                   reading, sync, needReadable, immediates, thrown>>

(* _readableEmitEnd, and the check it leaves to the next tick. *)
EmitEnd ==
    /\ Running("emitEnd")
    /\ readableEnded' = TRUE
    /\ immediates' = IF endEmitted THEN immediates ELSE Append(immediates, FrameOf("endTick"))
    /\ stack' = Rest
    /\ UNCHANGED <<bufferVars, flagVars, endEmitted, ends, sourceVars, highWaterMark,
                   flowing, reading, sync, needReadable, thrown>>

\* Variants: does not look again for a chunk that was put back; ends twice.
EndDue_Unchecked == ~endEmitted
EndDue_Twice == length = 0

EndDue == ~endEmitted /\ length = 0

EndTick ==
    /\ Running("endTick")
    /\ IF EndDue THEN /\ endEmitted' = TRUE
                      /\ ends' = ends + 1
                      /\ stack' = Push(UserFrame, Rest)
                 ELSE /\ stack' = Rest
                      /\ UNCHANGED <<endEmitted, ends>>
    /\ UNCHANGED <<bufferVars, flagVars, readableEnded, sourceVars, highWaterMark,
                   flowing, reading, sync, needReadable, immediates, thrown>>

-----------------------------------------------------------------------------
(* _readableMaybeReadMore, and its loop on the next tick. *)
MaybeReadMore ==
    /\ Running("more")
    /\ readingMore' = TRUE
    /\ immediates' = IF readingMore THEN immediates
                     ELSE Append(immediates, FrameWith("moreLoop", -1))
    /\ stack' = Rest
    /\ UNCHANGED <<bufferVars, emittedReadable, readableListening, resumeScheduled,
                   endVars, sourceVars, highWaterMark, flowing, reading, sync,
                   needReadable, thrown>>

WantsMore ==
    /\ ~reading /\ flowing # "on" /\ ~readableEnded
    /\ length < highWaterMark

\* The loop's argument is the length before its last read(0): no more data, no
\* more turns.  It is -1 at first, when there is no last read(0).
MoreLoop ==
    /\ Running("moreLoop")
    /\ IF Head(stack).arg # length /\ WantsMore
         THEN /\ stack' = Push(ReadFrame(0, "none"),
                               Push(FrameWith("moreLoop", length), Rest))
              /\ UNCHANGED readingMore
         ELSE /\ readingMore' = FALSE
              /\ stack' = Rest
    /\ UNCHANGED <<bufferVars, emittedReadable, readableListening, resumeScheduled,
                   endVars, sourceVars, highWaterMark, flowing, reading, sync,
                   needReadable, immediates, thrown>>

(* _readableResumeNextTick. *)
ResumeTick ==
    /\ Running("resumeTick")
    /\ stack' = PushIf(~reading, ReadFrame(0, "none"), Push(FrameOf("resumed"), Rest))
    /\ UNCHANGED <<bufferVars, flagVars, endVars, sourceVars, highWaterMark, flowing,
                   reading, sync, needReadable, immediates, thrown>>

\* Variant: the flow is not started.
AfterResume_NoFlow(frames) == Push(UserFrame, frames)
AfterResume(frames) ==
    Push(UserFrame, Push(FrameOf("flow"), Push(FrameOf("resumeRead"), frames)))

Resumed ==
    /\ Running("resumed")
    /\ resumeScheduled' = FALSE
    /\ stack' = AfterResume(Rest)
    /\ UNCHANGED <<bufferVars, emittedReadable, readableListening, readingMore, endVars,
                   sourceVars, highWaterMark, flowing, reading, sync, needReadable,
                   immediates, thrown>>

ResumeRead ==
    /\ Running("resumeRead")
    /\ stack' = PushIf(flowing = "on" /\ ~reading, ReadFrame(0, "none"), Rest)
    /\ UNCHANGED <<bufferVars, flagVars, endVars, sourceVars, highWaterMark, flowing,
                   reading, sync, needReadable, immediates, thrown>>

-----------------------------------------------------------------------------
(* _readablePushChunk: `rest' is what the caller does after push().        *)
\* The chunk goes straight to the 'data' listeners.
\* Variant: although others are buffered.
Direct_Overtakes == flowing = "on" /\ ~sync
Direct == flowing = "on" /\ length = 0 /\ ~sync

AfterDirect(rest) == Push(UserFrame, Push(ReadFrame(0, "none"), rest))
AfterBuffering(rest) ==
    PushIf(needReadable, FrameOf("emitReadable"), Push(FrameOf("more"), rest))

PushChunk(chunk, rest) ==
    /\ sourced' = sourced + Len(chunk)
    /\ \/ /\ ~readableEnded /\ Direct
          /\ reading' = FALSE
          /\ delivered' = delivered \o chunk
          /\ stack' = AfterDirect(rest)
          /\ UNCHANGED <<buffer, length, misread>>
       \/ /\ ~readableEnded /\ ~Direct
          /\ reading' = FALSE
          /\ length' = length + ChunkLen(chunk)
          /\ buffer' = Append(buffer, chunk)
          /\ stack' = AfterBuffering(rest)
          /\ UNCHANGED <<delivered, misread>>
    /\ UNCHANGED <<readableEnded, eof>>

\* An empty string only says that the source has answered.
PushNothing(rest) ==
    /\ reading' = FALSE
    /\ stack' = rest
    /\ UNCHANGED <<bufferVars, readableEnded, sourced, eof>>

\* push() after the end of file emits 'error'.
PushTooLate(rest) ==
    /\ readableEnded
    /\ stack' = Push(UserFrame, rest)
    /\ UNCHANGED <<bufferVars, readableEnded, reading, sourced, eof>>

\* Variant: does not announce the end of file.
AfterEof_Silent(rest) == rest
AfterEof(rest) == PushIf(~readableEnded, FrameOf("emitReadable"), rest)

PushEof(rest) ==
    /\ eof' = TRUE
    /\ reading' = FALSE
    /\ readableEnded' = TRUE
    /\ stack' = AfterEof(rest)
    /\ UNCHANGED <<bufferVars, sourced>>

SourceData(k) == [i \in 1 .. k |-> sourced + i]

Pushes(rest) ==
    \/ /\ ~eof
       /\ \E k \in (IF objectMode THEN {1} ELSE ChunkSizes) :
            /\ sourced + k <= MaxBytes
            /\ IF k = 0 THEN PushNothing(rest)
                        ELSE PushChunk(SourceData(k), rest)
    \/ (~eof \/ LatePushes) /\ PushEof(rest)
    \/ LatePushes /\ eof /\ PushTooLate(rest)

(* The source pushes inside _read (the frame counts), when it has been     *)
(* asked, or at any time.                                                  *)
SourcePush ==
    /\ \/ /\ Running("source") /\ Head(stack).arg < MaxPushes
          /\ Pushes(Push([Head(stack) EXCEPT !.arg = @ + 1], Rest))
          /\ UNCHANGED io
       \/ /\ stack = <<>> /\ io
          /\ Pushes(stack)
          /\ io' = FALSE
       \/ /\ PushesUnasked /\ MayCall
          /\ Pushes(Caller)
          /\ UNCHANGED io
    /\ UNCHANGED <<flagVars, endEmitted, ends, unshifts, objectMode, highWaterMark, flowing, sync,
                   needReadable, immediates, thrown>>

\* _read returns to _readableRead.
ReadReturns ==
    /\ Running("source")
    /\ sync' = FALSE
    /\ io' = (io \/ Head(stack).arg = 0)
    /\ stack' = Rest
    /\ UNCHANGED <<bufferVars, flagVars, endVars, sourced, eof, unshifts, objectMode,
                   highWaterMark, flowing, reading, needReadable, immediates, thrown>>

-----------------------------------------------------------------------------
(* The interface. *)

UserRead ==
    /\ MayCall /\ "read" \in UserCalls
    /\ \E n \in ReadSizes \cup {NoSize} : stack' = Push(ReadFrame(n, "none"), Caller)
    /\ UNCHANGED <<bufferVars, flagVars, endVars, sourceVars, highWaterMark, flowing,
                   reading, sync, needReadable, immediates, thrown>>

(* unshift() of the last byte that was read, before 'end'. *)
Unshift ==
    /\ MayCall
    /\ unshifts < MaxUnshifts /\ delivered # <<>> /\ ~endEmitted
    /\ unshifts' = unshifts + 1
    /\ LET chunk == << Last(delivered) >>
       IN  \/ /\ Direct
              /\ stack' = AfterDirect(Caller)
              /\ UNCHANGED bufferVars
           \/ /\ ~Direct
              /\ delivered' = Front(delivered)
              /\ buffer' = <<chunk>> \o buffer
              /\ length' = length + ChunkLen(chunk)
              /\ stack' = AfterBuffering(Caller)
              /\ UNCHANGED misread
    /\ UNCHANGED <<flagVars, endVars, io, sourced, eof, objectMode, highWaterMark, flowing,
                   reading, sync, needReadable, immediates, thrown>>

Pause ==
    /\ MayCall /\ "pause" \in UserCalls
    /\ flowing # "off"
    /\ flowing' = "off"
    /\ stack' = Push(UserFrame, Caller)
    /\ UNCHANGED <<bufferVars, flagVars, endVars, sourceVars, highWaterMark, reading,
                   sync, needReadable, immediates, thrown>>

(* resume(); on('data') calls it unless the stream was paused explicitly. *)
Resume ==
    /\ MayCall /\ "resume" \in UserCalls
    /\ flowing # "on"
    /\ flowing' = "on"
    /\ resumeScheduled' = TRUE
    /\ immediates' = IF resumeScheduled THEN immediates
                     ELSE Append(immediates, FrameOf("resumeTick"))
    /\ stack' = Caller
    /\ UNCHANGED <<bufferVars, emittedReadable, readableListening, readingMore, endVars,
                   sourceVars, highWaterMark, reading, sync, needReadable, thrown>>

(* on('readable') *)
OnReadable ==
    /\ MayCall /\ "on" \in UserCalls
    /\ ~endEmitted /\ ~readableListening
    /\ readableListening' = TRUE
    /\ emittedReadable' = FALSE
    /\ needReadable' = TRUE
    /\ IF reading
         THEN /\ stack' = Push(FrameOf("emitReadable"), Caller)
              /\ UNCHANGED immediates
         ELSE /\ immediates' = Append(immediates, ReadFrame(0, "none"))
              /\ stack' = Caller
    /\ UNCHANGED <<bufferVars, readingMore, resumeScheduled, endVars, sourceVars,
                   highWaterMark, flowing, reading, sync, thrown>>

\* A listener returns.
Return ==
    /\ Running("user")
    /\ stack' = Rest
    /\ UNCHANGED <<bufferVars, flagVars, endVars, sourceVars, highWaterMark, flowing,
                   reading, sync, needReadable, immediates, thrown>>

\* The check phase runs a function given to nextTick.
RunImmediate ==
    /\ stack = <<>> /\ immediates # <<>>
    /\ stack' = << Head(immediates) >>
    /\ immediates' = Tail(immediates)
    /\ UNCHANGED <<bufferVars, flagVars, endVars, sourceVars, highWaterMark, flowing,
                   reading, sync, needReadable, thrown>>

UserCall == UserRead \/ Unshift \/ Pause \/ Resume \/ OnReadable

StreamStep ==
    \/ Read \/ ReadFromBuffer \/ Flow \/ EmitReadable \/ ReadableTick
    \/ EmitEnd \/ EndTick \/ MaybeReadMore \/ MoreLoop
    \/ ResumeTick \/ Resumed \/ ResumeRead \/ ReadReturns

Next == UserCall \/ StreamStep \/ Return \/ SourcePush \/ RunImmediate

Spec == Init /\ [][Next]_vars

\* Listeners return, the loop reaches its check phase again and again, and a
\* source that was asked pushes until its end of file.
Fairness ==
    /\ WF_vars(StreamStep) /\ SF_vars(Return)
    /\ SF_vars(RunImmediate) /\ SF_vars(SourcePush)

FairSpec == Spec /\ Fairness

-----------------------------------------------------------------------------
(* Every variable keeps its type. *)
TypeOK ==
    /\ readableEnded \in BOOLEAN /\ endEmitted \in BOOLEAN /\ reading \in BOOLEAN
    /\ sync \in BOOLEAN /\ needReadable \in BOOLEAN /\ emittedReadable \in BOOLEAN
    /\ readableListening \in BOOLEAN /\ readingMore \in BOOLEAN
    /\ resumeScheduled \in BOOLEAN /\ io \in BOOLEAN /\ eof \in BOOLEAN
    /\ thrown \in BOOLEAN /\ misread \in BOOLEAN /\ objectMode \in BOOLEAN
    /\ highWaterMark \in Nat /\ length \in Int /\ (length >= 0 \/ misread)
    /\ flowing \in {"unset", "on", "off"}
    /\ sourced \in 0 .. MaxBytes /\ unshifts \in 0 .. MaxUnshifts /\ ends \in 0 .. 1
    /\ buffer \in Seq(Seq(1 .. MaxBytes)) /\ delivered \in Seq(1 .. MaxBytes)
    /\ stack \in Seq(Frame) /\ immediates \in Seq(Frame)
=============================================================================

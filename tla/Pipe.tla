-------------------------------- MODULE Pipe --------------------------------
(***************************************************************************)
(* Readable:pipe: the reading half of one stream, this module's Readable,  *)
(* feeds the writing half of another, the instance W.                      *)
(*                                                                         *)
(* The two share one thread.  A listener that pipe() has added to a stream *)
(* runs while that stream's code waits: `doing' is what it does, and        *)
(* "call" is a call of the destination, which runs until it is back where  *)
(* it was.  Both streams defer work to the same queue of the loop.         *)
(***************************************************************************)
EXTENDS Readable

CONSTANTS
    SinkMark,       \* options.highWaterMark of the destination
    SinkAnswers,    \* how the destination's _write answers: subset of {"later", "now"}
    MaxPiped,       \* bound: bytes of a source that is piped
    MaxPipeCalls    \* bound: calls of pipe() and unpipe()

ASSUME PipeAssumption ==
    /\ SinkMark \in Nat /\ SinkAnswers \subseteq {"later", "now"}
    /\ MaxPiped \in Nat /\ MaxPipeCalls \in Nat

VARIABLES
    \* the destination
    writableCorked, writableEnded, writableFinished, writableLength, needDrain, ending,
    prefinished, writing, isBufferFlushing, writeCallback, pendingCallbacks, errorEmitted,
    calls, handed, answered, finishes,
    wLength, wSync, wBuffer, wIo, wImmediates, wStack,
    \* the pipe
    piped,          \* pipesCount is 1, and the listeners are there
    awaitDrain,
    doing,          \* none, write, call, finish or drain
    chunk,          \* the chunk of the 'data' event, for "write"
    returned,       \* what the last write() returned
    base,           \* depth of wStack when the call was made
    ticks,          \* whose function each item of setImmediate's queue is
    sent,           \* the chunks written, by their ids in the destination
    piping,         \* user code only calls pipe and unpipe
    pipeCalls

W == INSTANCE Writable WITH
        MaxWrites <- MaxBytes, MaxCorks <- 0, ChunkLengths <- ChunkSizes \ {0},
        HighWaterMark <- SinkMark, HasWritev <- FALSE, SinkInListener <- FALSE,
        WritesInFinish <- FALSE, InvalidChunks <- FALSE,
        length <- wLength, sync <- wSync, buffer <- wBuffer, io <- wIo,
        immediates <- wImmediates, stack <- wStack

destVars == <<writableCorked, writableEnded, writableFinished, writableLength, needDrain,
              ending, prefinished, writing, isBufferFlushing, writeCallback,
              pendingCallbacks, errorEmitted, calls, handed, answered, finishes,
              wLength, wSync, wBuffer, wIo, wImmediates, wStack>>
pipeVars == <<piped, awaitDrain, doing, chunk, returned, base, sent, piping, pipeCalls>>
allVars  == <<vars, destVars, pipeVars, ticks>>

PipeInit ==
    /\ Init /\ W!Init
    /\ piped = FALSE /\ awaitDrain = 0 /\ doing = "none" /\ chunk = <<>>
    /\ returned = TRUE /\ base = 0 /\ ticks = <<>> /\ sent = <<>>
    /\ piping \in BOOLEAN /\ pipeCalls = 0

-----------------------------------------------------------------------------
(* One thread, one queue. *)
Idle == doing = "none" /\ stack = <<>> /\ wStack = <<>>
SourceRuns == doing = "none" /\ (stack # <<>> \/ wStack = <<>>)
DestRuns == \/ doing = "call" /\ Len(wStack) > base
            \/ doing = "none" /\ stack = <<>> /\ wStack # <<>>

Deferred(who, before, after) ==
    ticks' = ticks \o [i \in 1 .. Len(after) - Len(before) |-> who]

EmitsData == Len(delivered') > Len(delivered)

\* A step of the source; its 'data' and 'end' call the pipe's listeners first.  Before
\* it emits 'resume' it forgets what it awaits.
SourceStep ==
    /\ awaitDrain' = IF resumeScheduled /\ ~resumeScheduled' THEN 0 ELSE awaitDrain
    /\ UNCHANGED <<destVars, piped, returned, base, sent, piping, pipeCalls>>
    /\ \/ /\ piped /\ EmitsData
          /\ doing' = "write"
          /\ chunk' = SubSeq(delivered', Len(delivered) + 1, Len(delivered'))
       \/ /\ piped /\ ends' # ends
          /\ doing' = "finish"
          /\ UNCHANGED chunk
       \/ /\ ~(piped /\ EmitsData) /\ ~(piped /\ ends' # ends)
          /\ UNCHANGED <<doing, chunk>>

SourceMoves ==
    /\ SourceRuns /\ StreamStep
    /\ SourceStep /\ Deferred("source", immediates, immediates')
SourceReturns == SourceRuns /\ Return /\ SourceStep /\ UNCHANGED ticks
SourceIO ==
    /\ SourceRuns /\ SourcePush /\ (piping => sourced' <= MaxPiped)
    /\ SourceStep /\ Deferred("source", immediates, immediates')
ConsumerCalls ==
    /\ SourceRuns /\ ~piping /\ UserCall
    /\ SourceStep /\ Deferred("source", immediates, immediates')

\* cleanup(): the listeners are removed.  A destination that needs to drain runs
\* ondrain once more, which finds no 'data' listener.
Unpiped ==
    /\ piped' = FALSE
    /\ flowing' = "off"
    /\ awaitDrain' = IF needDrain /\ awaitDrain # 0 THEN awaitDrain - 1 ELSE awaitDrain

\* A step of the destination; 'drain' and 'finish' call the pipe's listeners.
DestStep ==
    /\ UNCHANGED <<chunk, returned, base, sent, piping, pipeCalls>>
    /\ \/ /\ piped /\ needDrain /\ ~needDrain'
          /\ doing' = "drain"
          /\ UNCHANGED <<vars, piped, awaitDrain>>
       \/ /\ piped /\ finishes' # finishes
          /\ Unpiped
          /\ UNCHANGED <<doing, bufferVars, flagVars, endVars, sourceVars, highWaterMark,
                         reading, sync, needReadable, immediates, stack, thrown>>
       \/ /\ ~(piped /\ needDrain /\ ~needDrain') /\ ~(piped /\ finishes' # finishes)
          /\ UNCHANGED <<doing, vars, piped, awaitDrain>>

DestMoves ==
    /\ DestRuns /\ W!StreamStep
    /\ DestStep /\ Deferred("dest", wImmediates, wImmediates')
DestIO == Idle /\ W!SinkCompletes /\ DestStep /\ UNCHANGED ticks

CheckPhase ==
    /\ Idle /\ ticks # <<>>
    /\ ticks' = Tail(ticks)
    /\ \/ /\ Head(ticks) = "source" /\ RunImmediate
          /\ UNCHANGED <<destVars, pipeVars>>
       \/ /\ Head(ticks) = "dest" /\ W!RunImmediate
          /\ UNCHANGED <<vars, pipeVars>>
       \/ /\ Head(ticks) = "pipe"
          /\ doing' = "finish"
          /\ UNCHANGED <<vars, destVars, piped, awaitDrain, chunk, returned, base, sent,
                         piping, pipeCalls>>

-----------------------------------------------------------------------------
(* The listeners of pipe(). *)
\* ondata, until dest:write() has returned.
OnData ==
    /\ doing = "write"
    /\ W!Write(Len(chunk))
    /\ doing' = "call" /\ base' = Len(wStack)
    /\ returned' = (wLength + Len(chunk) < SinkMark)
    /\ sent' = Append(sent, chunk) /\ chunk' = <<>>
    /\ UNCHANGED <<vars, piped, awaitDrain, piping, pipeCalls, ticks>>

\* ondata, when write() has returned: a full destination pauses the source.
\* Variant: the source is not paused.
Full_Never == FALSE
Full == ~returned

CallReturns ==
    /\ doing = "call" /\ Len(wStack) = base
    /\ doing' = "none"
    /\ returned' = TRUE
    /\ IF Full
         THEN /\ awaitDrain' = awaitDrain + 1
              /\ flowing' = "off"
              /\ stack' = PushIf(flowing # "off", UserFrame, stack)
         ELSE UNCHANGED <<awaitDrain, flowing, stack>>
    /\ UNCHANGED <<bufferVars, flagVars, endVars, sourceVars, highWaterMark, reading, sync,
                   needReadable, immediates, thrown, destVars, piped, chunk, base, sent,
                   piping, pipeCalls, ticks>>

\* ondrain
\* Variant: one drain too many is awaited.
Awaited_Kept == awaitDrain
Awaited == IF awaitDrain # 0 THEN awaitDrain - 1 ELSE 0

OnDrain ==
    /\ doing = "drain"
    /\ doing' = "none"
    /\ awaitDrain' = Awaited
    /\ IF Awaited = 0
         THEN /\ flowing' = "on"
              /\ stack' = Push(FrameOf("flow"), stack)
         ELSE UNCHANGED <<flowing, stack>>
    /\ UNCHANGED <<bufferVars, flagVars, endVars, sourceVars, highWaterMark, reading, sync,
                   needReadable, immediates, thrown, destVars, piped, chunk, returned, base,
                   sent, piping, pipeCalls, ticks>>

\* onend: the destination is finished, unless it was already.
OnEnd ==
    /\ doing = "finish"
    /\ doing' = "call" /\ base' = Len(wStack)
    /\ IF ~ending /\ ~writableFinished THEN W!Finish ELSE UNCHANGED destVars
    /\ UNCHANGED <<vars, piped, awaitDrain, chunk, returned, sent, piping, pipeCalls, ticks>>

-----------------------------------------------------------------------------
(* Readable:pipe(dest), by user code. *)
PipeTo ==
    /\ SourceRuns /\ MayCall /\ piping
    /\ ~piped /\ pipeCalls < MaxPipeCalls
    /\ piped' = TRUE /\ pipeCalls' = pipeCalls + 1
    /\ LET resumes == flowing # "on"
           schedule == resumes /\ ~resumeScheduled
       IN  /\ flowing' = "on"
           /\ resumeScheduled' = (resumeScheduled \/ resumes)
           /\ immediates' = IF schedule THEN Append(immediates, FrameOf("resumeTick"))
                                        ELSE immediates
           /\ ticks' = ticks \o (IF endEmitted THEN <<"pipe">> ELSE <<>>)
                             \o (IF schedule THEN <<"source">> ELSE <<>>)
    /\ stack' = Caller
    /\ UNCHANGED <<bufferVars, emittedReadable, readableListening, readingMore, endVars,
                   sourceVars, highWaterMark, reading, sync, needReadable, thrown, destVars,
                   awaitDrain, doing, chunk, returned, base, sent, piping>>

\* Readable:unpipe(dest)
Unpipe ==
    /\ SourceRuns /\ MayCall /\ piping
    /\ piped /\ pipeCalls < MaxPipeCalls
    /\ pipeCalls' = pipeCalls + 1
    /\ Unpiped
    /\ stack' = Caller
    /\ UNCHANGED <<bufferVars, flagVars, endVars, sourceVars, highWaterMark, reading, sync,
                   needReadable, immediates, thrown, destVars, doing, chunk, returned, base,
                   sent, piping, ticks>>

PipeStep == SourceMoves \/ DestMoves \/ OnData \/ CallReturns \/ OnDrain \/ OnEnd

PipeNext ==
    \/ PipeStep \/ SourceReturns \/ SourceIO \/ DestIO \/ CheckPhase
    \/ ConsumerCalls \/ PipeTo \/ Unpipe

PipeSpec == PipeInit /\ [][PipeNext]_allVars

\* The fairness of the two streams; what runs goes on and returns.
PipeFairness ==
    /\ WF_allVars(PipeStep \/ SourceReturns)
    /\ SF_allVars(CheckPhase) /\ SF_allVars(SourceIO) /\ SF_allVars(DestIO)

PipeFairSpec == PipeSpec /\ PipeFairness

-----------------------------------------------------------------------------
\* The variables of the pipe and of the destination have their types.
PipeTypeOK ==
    /\ W!TypeOK
    /\ piped \in BOOLEAN /\ awaitDrain \in Nat /\ returned \in BOOLEAN
    /\ doing \in {"none", "write", "call", "finish", "drain"}
    /\ chunk \in Seq(1 .. MaxBytes) /\ sent \in Seq(Seq(1 .. MaxBytes)) /\ base \in Nat
    /\ ticks \in Seq({"source", "dest", "pipe"})
    /\ piping \in BOOLEAN /\ pipeCalls \in 0 .. MaxPipeCalls
=============================================================================

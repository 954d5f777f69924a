--------------------------- MODULE WritableProofs ---------------------------
(***************************************************************************)
(* Proofs about Writable for every number of writes, corks and chunk       *)
(* lengths, every kind of sink and listeners that call back into the       *)
(* stream without restriction.                                             *)
(***************************************************************************)
EXTENDS MCWritable, SequenceTheorems, WellFoundedInduction, TLAPS

(* Which frame may run above which: a flush and a completion only at the   *)
(* head, one slow loop at a time, no loop under the end of a flush.        *)
Above(f, g) ==
    /\ g.op \notin {"flush", "completed"}
    /\ f.op = "flushEnd" => g.op \notin {"loop", "flushEnd"}
    /\ f.op = "loop" => g.op # "loop"

Resting(s) == \A i \in DOMAIN s : s[i].op \notin {"flush", "completed"}

(* A frame whose callbacks are still to be called has requests, a loop or  *)
(* the end of a flush means the buffer is being flushed, and a loop has    *)
(* no more iterations to run than the buffer (of n requests) has entries.  *)
FrameOK(f, flushing, n) ==
    /\ f.op \in {"defer", "nextTick", "failed", "answer", "rejectLater"}
         => f.batch.reqs # <<>>
    /\ f.op \in {"loop", "flushEnd"} => flushing
    /\ f.op = "loop" => f.left <= n

Good(s, flushing, n) ==
    /\ s \in Seq(Frame)
    /\ \A i, j \in DOMAIN s : i < j => Above(s[i], s[j])
    /\ \A i \in DOMAIN s : FrameOK(s[i], flushing, n)

Deferred(s) ==
    \A i \in DOMAIN s :
       s[i].op \in {"failed", "nextTick", "answer"} /\ s[i].batch.reqs # <<>>

(* The inductive invariant. *)
IInv ==
    /\ TypeOK
    /\ Good(stack, isBufferFlushing, Len(buffer))
    /\ Deferred(immediates)
    /\ io => writing
    /\ writing => writeCallback.reqs # <<>>
    /\ Running("flush") => ~writing
    /\ Running("completed") => writing /\ ~io

-----------------------------------------------------------------------------
(* Frames. *)

LEMMA FrameForType ==
    ASSUME NEW op \in FrameOps, NEW b \in Batch, NEW x \in BOOLEAN
    PROVE  /\ FrameFor(op, b, x) \in Frame /\ FrameFor(op, b, x).op = op
           /\ FrameFor(op, b, x).batch = b
BY DEF FrameFor, Frame

LEMMA AnswerFrameType ==
    ASSUME NEW b \in Batch
    PROVE  /\ FrameFor("answer", b, FALSE) \in Frame
           /\ FrameFor("answer", b, FALSE).op = "answer"
           /\ FrameFor("answer", b, FALSE).batch = b
BY DEF FrameFor, Frame, FrameOps

LEMMA NoBatchType == NoBatch \in Batch
BY DEF NoBatch, Batch

LEMMA FrameOfType ==
    ASSUME NEW op \in FrameOps
    PROVE  FrameOf(op) \in Frame /\ FrameOf(op).op = op
BY NoBatchType DEF FrameOf, Frame

LEMMA LoopFrameType ==
    ASSUME NEW n \in Nat
    PROVE  LoopFrame(n) \in Frame /\ LoopFrame(n).op = "loop" /\ LoopFrame(n).left = n
BY NoBatchType DEF LoopFrame, Frame, FrameOps

LEMMA UserFrameType == UserFrame \in Frame /\ UserFrame.op = "user"
BY FrameOfType DEF UserFrame, FrameOps

LEMMA PushElements ==
    ASSUME NEW f \in Frame, NEW s \in Seq(Frame)
    PROVE  /\ Push(f, s) \in Seq(Frame)
           /\ Push(f, s) # <<>> /\ Head(Push(f, s)) = f
           /\ DOMAIN Push(f, s) = 1 .. Len(s) + 1
           /\ Push(f, s)[1] = f
           /\ \A i \in 2 .. Len(s) + 1 : Push(f, s)[i] = s[i - 1] /\ i - 1 \in DOMAIN s
<1>1. <<f>> \in Seq(Frame) /\ Len(<<f>>) = 1 /\ <<f>>[1] = f
  OBVIOUS
<1>2. /\ Push(f, s) \in Seq(Frame)
      /\ Len(Push(f, s)) = 1 + Len(s)
      /\ \A i \in 1 .. Len(<<f>>) + Len(s) :
            Push(f, s)[i] = IF i <= Len(<<f>>) THEN <<f>>[i] ELSE s[i - Len(<<f>>)]
  BY <1>1, ConcatProperties DEF Push
<1>3. Len(s) \in Nat /\ DOMAIN s = 1 .. Len(s)
  BY LenProperties
<1>4. DOMAIN Push(f, s) = 1 .. Len(s) + 1
  BY <1>2, <1>3
<1>5. Push(f, s)[1] = f
  BY <1>1, <1>2, <1>3
<1>6. \A i \in 2 .. Len(s) + 1 : Push(f, s)[i] = s[i - 1] /\ i - 1 \in DOMAIN s
  BY <1>1, <1>2, <1>3
<1>7. Push(f, s) # <<>> /\ Head(Push(f, s)) = f
  BY <1>2, <1>3, <1>5
<1> QED
  BY <1>2, <1>4, <1>5, <1>6, <1>7

LEMMA PushOps ==
    ASSUME NEW f \in Frame, NEW s \in Seq(Frame), NEW ops, f.op \notin ops,
           \A i \in DOMAIN s : s[i].op \notin ops
    PROVE  \A i \in DOMAIN Push(f, s) : Push(f, s)[i].op \notin ops
<1>1. /\ DOMAIN Push(f, s) = 1 .. Len(s) + 1 /\ Push(f, s)[1] = f
      /\ \A i \in 2 .. Len(s) + 1 : Push(f, s)[i] = s[i - 1] /\ i - 1 \in DOMAIN s
  BY PushElements
<1>2. Len(s) \in Nat
  BY LenProperties
<1> SUFFICES ASSUME NEW i \in DOMAIN Push(f, s) PROVE Push(f, s)[i].op \notin ops
  OBVIOUS
<1>3. i = 1 \/ i \in 2 .. Len(s) + 1
  BY <1>1, <1>2
<1> QED
  BY <1>1, <1>3

LEMMA PushGood ==
    ASSUME NEW f \in Frame, NEW s, NEW x \in BOOLEAN, NEW n \in Nat,
           Good(s, x, n), FrameOK(f, x, n),
           \A i \in DOMAIN s : Above(f, s[i])
    PROVE  Good(Push(f, s), x, n) /\ Push(f, s) # <<>> /\ Head(Push(f, s)) = f
<1> DEFINE t == Push(f, s)
<1>1. s \in Seq(Frame)
  BY DEF Good
<1>2. /\ t \in Seq(Frame) /\ t # <<>> /\ Head(t) = f
      /\ DOMAIN t = 1 .. Len(s) + 1 /\ t[1] = f
      /\ \A i \in 2 .. Len(s) + 1 : t[i] = s[i - 1] /\ i - 1 \in DOMAIN s
  BY <1>1, PushElements
<1>3. Len(s) \in Nat /\ DOMAIN s = 1 .. Len(s)
  BY <1>1, LenProperties
<1> HIDE DEF t
<1>4. \A i \in DOMAIN t : FrameOK(t[i], x, n)
  <2> SUFFICES ASSUME NEW i \in DOMAIN t PROVE FrameOK(t[i], x, n)
    OBVIOUS
  <2>1. CASE i = 1
    BY <2>1, <1>2
  <2>2. CASE i # 1
    BY <2>2, <1>2, <1>3 DEF Good
  <2> QED
    BY <2>1, <2>2
<1>5. \A i, j \in DOMAIN t : i < j => Above(t[i], t[j])
  <2> SUFFICES ASSUME NEW i \in DOMAIN t, NEW j \in DOMAIN t, i < j
               PROVE  Above(t[i], t[j])
    OBVIOUS
  <2>1. j \in 2 .. Len(s) + 1
    BY <1>2, <1>3
  <2>2. CASE i = 1
    BY <2>1, <2>2, <1>2, <1>3
  <2>3. CASE i # 1
    <3>1. i \in 2 .. Len(s) + 1 /\ i - 1 < j - 1
      BY <2>1, <2>3, <1>2, <1>3
    <3> QED
      BY <2>1, <3>1, <1>2, <1>3 DEF Good
  <2> QED
    BY <2>2, <2>3
<1> QED
  BY <1>2, <1>4, <1>5 DEF Good, t

(* A frame that is none of the special ones may run above a resting stack. *)
LEMMA PushPlain ==
    ASSUME NEW f \in Frame, NEW s, NEW x \in BOOLEAN, NEW n \in Nat,
           Good(s, x, n), Resting(s), FrameOK(f, x, n),
           f.op \notin {"flush", "completed", "flushEnd", "loop"}
    PROVE  /\ Good(Push(f, s), x, n) /\ Resting(Push(f, s))
           /\ Push(f, s) # <<>> /\ Head(Push(f, s)) = f
<1>1. s \in Seq(Frame) /\ \A i \in DOMAIN s : Above(f, s[i])
  BY DEF Good, Resting, Above
<1>2. Good(Push(f, s), x, n) /\ Push(f, s) # <<>> /\ Head(Push(f, s)) = f
  BY <1>1, PushGood
<1>3. Resting(Push(f, s))
  <2>1. /\ DOMAIN Push(f, s) = 1 .. Len(s) + 1 /\ Push(f, s)[1] = f
        /\ \A i \in 2 .. Len(s) + 1 : Push(f, s)[i] = s[i - 1] /\ i - 1 \in DOMAIN s
    BY <1>1, PushElements
  <2>2. Len(s) \in Nat
    BY <1>1, LenProperties
  <2> QED
    BY <2>1, <2>2 DEF Resting
<1> QED
  BY <1>2, <1>3

LEMMA PopGood ==
    ASSUME NEW s, NEW x \in BOOLEAN, NEW n \in Nat, Good(s, x, n), s # <<>>
    PROVE  /\ Good(Tail(s), x, n) /\ Resting(Tail(s))
           /\ \A i \in DOMAIN Tail(s) : Above(Head(s), Tail(s)[i])
           /\ Head(s) \in Frame /\ FrameOK(Head(s), x, n)
<1>1. s \in Seq(Frame) /\ Len(s) \in Nat \ {0} /\ DOMAIN s = 1 .. Len(s)
  BY LenProperties, EmptySeq DEF Good
<1>2. /\ Tail(s) \in Seq(Frame) /\ Len(Tail(s)) = Len(s) - 1
      /\ Head(s) = s[1] /\ Head(s) \in Frame
      /\ \A i \in 1 .. Len(s) - 1 : Tail(s)[i] = s[i + 1]
  BY <1>1, HeadTailProperties
<1>3. DOMAIN Tail(s) = 1 .. Len(s) - 1
  BY <1>1, <1>2, LenProperties
<1>4. \A i \in DOMAIN Tail(s) :
         Tail(s)[i] = s[i + 1] /\ i + 1 \in DOMAIN s /\ 1 < i + 1 /\ 1 \in DOMAIN s
  BY <1>1, <1>2, <1>3
<1>5. \A i \in DOMAIN Tail(s) : Above(Head(s), Tail(s)[i]) /\ FrameOK(Tail(s)[i], x, n)
  BY <1>2, <1>4 DEF Good
<1>6. \A i, j \in DOMAIN Tail(s) : i < j => Above(Tail(s)[i], Tail(s)[j])
  <2> SUFFICES ASSUME NEW i \in DOMAIN Tail(s), NEW j \in DOMAIN Tail(s), i < j
               PROVE  Above(Tail(s)[i], Tail(s)[j])
    OBVIOUS
  <2>1. i + 1 < j + 1
    BY <1>1, <1>3
  <2> QED
    BY <2>1, <1>4 DEF Good
<1>7. FrameOK(Head(s), x, n)
  BY <1>1, <1>2 DEF Good
<1> QED
  BY <1>2, <1>5, <1>6, <1>7 DEF Good, Resting, Above

(* A stack that waits for user code to return holds neither a flush nor a  *)
(* completion.                                                             *)
LEMMA UserGood ==
    ASSUME NEW s, NEW x \in BOOLEAN, NEW n \in Nat, Good(s, x, n),
           s = <<>> \/ Head(s).op = "user"
    PROVE  Resting(s)
<1>1. CASE s = <<>>
  BY <1>1 DEF Resting
<1>2. CASE s # <<>>
  <2>1. s \in Seq(Frame) /\ Len(s) \in Nat \ {0} /\ DOMAIN s = 1 .. Len(s)
    BY <1>2, LenProperties, EmptySeq DEF Good
  <2>2. Head(s) = s[1] /\ 1 \in DOMAIN s
    BY <2>1, <1>2, HeadTailProperties
  <2>3. \A i \in DOMAIN s : i # 1 => 1 < i
    BY <2>1
  <2> QED
    BY <1>2, <2>2, <2>3 DEF Good, Above, Resting
<1> QED
  BY <1>1, <1>2

(* Without a flush in progress the flag and the buffer are free to change; *)
(* without a loop the buffer is; with one it may grow.                     *)
LEMMA GoodChanges ==
    ASSUME NEW s, NEW x \in BOOLEAN, NEW n \in Nat, Good(s, x, n),
           NEW y \in BOOLEAN, NEW m \in Nat,
           \/ x = y /\ n <= m
           \/ ~x
           \/ x = y /\ \A i \in DOMAIN s : s[i].op # "loop"
           \/ \A i \in DOMAIN s : s[i].op \notin {"loop", "flushEnd"}
    PROVE  Good(s, y, m)
<1>1. \A i \in DOMAIN s : s[i].left \in Nat
  <2>1. s \in Seq(Frame)
    BY DEF Good
  <2>2. \A i \in DOMAIN s : s[i] \in Frame
    BY <2>1, LenProperties, ElementOfSeq
  <2> QED
    BY <2>2 DEF Frame
<1>2. \A i \in DOMAIN s : FrameOK(s[i], y, m)
  BY <1>1 DEF Good, FrameOK
<1> QED
  BY <1>2 DEF Good

-----------------------------------------------------------------------------
(* Handing a batch to the sink, over a stack that rests. *)
LEMMA OnWriteKeeps ==
    ASSUME TypeOK, ~io, NEW batch \in Batch, batch.reqs # <<>>, NEW len \in Int,
           NEW rest, NEW x \in BOOLEAN, NEW n \in Nat,
           Good(rest, x, n), Resting(rest), OnWrite(batch, len, rest)
    PROVE  /\ Good(stack', x, n)
           /\ writableLength' \in Int /\ writeCallback' \in Batch
           /\ writing' = TRUE /\ sync' \in BOOLEAN /\ io' \in BOOLEAN
           /\ handed' \in Seq(1 .. MaxWrites)
           /\ writeCallback'.reqs # <<>>
           /\ ~Running("flush")'
           /\ Running("completed")' => ~io'
<1>1. batch.reqs \in Seq(Request)
  BY DEF Batch
<1>2. Ids(batch.reqs) \in Seq(1 .. MaxWrites)
  <2>1. \A i \in 1 .. Len(batch.reqs) : batch.reqs[i] \in Request
    BY <1>1, ElementOfSeq
  <2>2. \A i \in 1 .. Len(batch.reqs) : batch.reqs[i].id \in 1 .. MaxWrites
    BY <2>1 DEF Request
  <2>3. Len(batch.reqs) \in Nat
    BY <1>1, LenProperties
  <2> QED
    BY <2>2, <2>3, IsASeq DEF Ids
<1>3. handed' \in Seq(1 .. MaxWrites)
  BY <1>2, ConcatProperties DEF OnWrite, TypeOK
<1>4. CASE io' = TRUE /\ sync' = FALSE /\ stack' = rest
  <2>1. \A op \in {"flush", "completed"} : ~Running(op)'
    <3>1. CASE rest = <<>>
      BY <3>1, <1>4 DEF Running
    <3>2. CASE rest # <<>>
      <4>1. rest \in Seq(Frame) /\ 1 \in DOMAIN rest /\ Head(rest) = rest[1]
        BY <3>2, EmptySeq, LenProperties, HeadTailProperties DEF Good
      <4> QED
        BY <4>1, <1>4 DEF Running, Resting
    <3> QED
      BY <3>1, <3>2
  <2> QED
    BY <1>3, <1>4, <2>1 DEF OnWrite
<1>5. CASE \E a \in SinkAnswers \cap {"now", "failNow"} :
             /\ io' = io /\ sync' = TRUE
             /\ stack' = Push(FrameFor("completed", NoBatch, a = "now"),
                              Push(FrameOf("syncOff"), rest))
  <2>1. PICK a \in SinkAnswers \cap {"now", "failNow"} :
             /\ io' = io /\ sync' = TRUE
             /\ stack' = Push(FrameFor("completed", NoBatch, a = "now"),
                              Push(FrameOf("syncOff"), rest))
    BY <1>5
  <2> DEFINE f == FrameFor("completed", NoBatch, a = "now")
             g == FrameOf("syncOff")
  <2>2. "completed" \in FrameOps /\ "syncOff" \in FrameOps
    BY DEF FrameOps
  <2>3. /\ f \in Frame /\ g \in Frame /\ f.op = "completed" /\ g.op = "syncOff"
    BY <2>2, NoBatchType, FrameForType, FrameOfType
  <2> HIDE DEF f, g
  <2>4. FrameOK(f, x, n) /\ FrameOK(g, x, n)
    BY <2>3 DEF FrameOK
  <2>5. Good(Push(g, rest), x, n) /\ Resting(Push(g, rest))
    BY <2>3, <2>4, PushPlain
  <2>6. \A i \in DOMAIN Push(g, rest) : Above(f, Push(g, rest)[i])
    BY <2>3, <2>5 DEF Resting, Above
  <2>7. Good(Push(f, Push(g, rest)), x, n) /\ Head(Push(f, Push(g, rest))) = f
    BY <2>3, <2>4, <2>5, <2>6, PushGood
  <2>8. Good(stack', x, n) /\ Head(stack') = f
    BY <2>1, <2>7 DEF f, g
  <2> QED
    BY <1>3, <2>1, <2>3, <2>8 DEF OnWrite, Running, TypeOK
<1> QED
  BY <1>4, <1>5 DEF OnWrite

-----------------------------------------------------------------------------
(* Every action keeps the invariant. *)

LEMMA RestGood ==
    ASSUME IInv, NEW op, Running(op)
    PROVE  /\ Good(Rest, isBufferFlushing, Len(buffer)) /\ Resting(Rest)
           /\ Head(stack) \in Frame /\ Head(stack).op = op
           /\ FrameOK(Head(stack), isBufferFlushing, Len(buffer))
           /\ \A i \in DOMAIN Rest : Above(Head(stack), Rest[i])
           /\ isBufferFlushing \in BOOLEAN /\ Len(buffer) \in Nat
<1>1. isBufferFlushing \in BOOLEAN /\ Len(buffer) \in Nat
  BY LenProperties DEF IInv, TypeOK
<1>2. stack # <<>> /\ Head(stack).op = op /\ Good(stack, isBufferFlushing, Len(buffer))
  BY DEF IInv, Running
<1> QED
  BY <1>1, <1>2, PopGood DEF Rest

LEMMA CallGood ==
    ASSUME IInv, InUserCode
    PROVE  /\ Good(stack, isBufferFlushing, Len(buffer)) /\ Resting(stack)
           /\ isBufferFlushing \in BOOLEAN /\ Len(buffer) \in Nat
<1>1. isBufferFlushing \in BOOLEAN /\ Len(buffer) \in Nat
  BY LenProperties DEF IInv, TypeOK
<1> QED
  BY <1>1, UserGood DEF IInv, InUserCode, Running

LEMMA RestingRuns ==
    ASSUME NEW s, NEW x, NEW n, Good(s, x, n), Resting(s), s # <<>>
    PROVE  Head(s).op \notin {"flush", "completed"}
<1>1. s \in Seq(Frame) /\ 1 \in DOMAIN s /\ Head(s) = s[1]
  BY EmptySeq, LenProperties, HeadTailProperties DEF Good
<1> QED
  BY <1>1 DEF Resting

(* The shape of most steps: the buffer is untouched, the stack rests.      *)
LEMMA RestingStep ==
    ASSUME IInv, TypeOK', Deferred(immediates'),
           UNCHANGED <<writing, io, writeCallback>>,
           Good(stack', isBufferFlushing', Len(buffer')), Resting(stack')
    PROVE  IInv'
<1>1. ~Running("flush")' /\ ~Running("completed")'
  BY RestingRuns DEF Running
<1> QED
  BY <1>1 DEF IInv, Good, FrameOK, Deferred

LEMMA DeferredAppend ==
    ASSUME NEW s \in Seq(Frame), Deferred(s), NEW f \in Frame,
           f.op \in {"failed", "nextTick", "answer"}, f.batch.reqs # <<>>
    PROVE  Append(s, f) \in Seq(Frame) /\ Deferred(Append(s, f))
BY AppendProperties, LenProperties DEF Deferred

LEMMA StreamStepKeeps == ASSUME IInv, StreamStep PROVE IInv'
<1> USE DEF flagVars, writeVars, queueVars, logVars
<1>1. CASE SyncOff
  <2>1. TypeOK'
    BY <1>1, RestGood DEF SyncOff, IInv, TypeOK, Good
  <2> QED
    BY <1>1, <2>1, RestGood, RestingStep DEF SyncOff, IInv
<1>2. CASE Return
  <2>1. TypeOK'
    BY <1>2, RestGood DEF Return, IInv, TypeOK, Good
  <2> QED
    BY <1>2, <2>1, RestGood, RestingStep DEF Return, IInv
<1>3. CASE EmitError
  <2>1. Good(Push(UserFrame, Rest), isBufferFlushing, Len(buffer))
        /\ Resting(Push(UserFrame, Rest))
    BY <1>3, RestGood, PushPlain, UserFrameType DEF EmitError, FrameOK
  <2>2. TypeOK'
    BY <1>3, <2>1 DEF EmitError, IInv, TypeOK, Good
  <2> QED
    BY <1>3, <2>1, <2>2, RestingStep DEF EmitError, IInv
<1>4. CASE Ended
  <2>1. Good(Push(UserFrame, Rest), isBufferFlushing, Len(buffer))
        /\ Resting(Push(UserFrame, Rest))
    BY <1>4, RestGood, PushPlain, UserFrameType DEF Ended, FrameOK
  <2>2. TypeOK'
    BY <1>4, <2>1 DEF Ended, IInv, TypeOK, Good
  <2> QED
    BY <1>4, <2>1, <2>2, RestingStep DEF Ended, IInv
<1>5. CASE Defer
  <2> DEFINE f == [Head(stack) EXCEPT !.op = "nextTick"]
  <2>1. f \in Frame /\ f.op = "nextTick" /\ f.batch.reqs # <<>>
    BY <1>5, RestGood DEF Defer, Frame, FrameOps, FrameOK
  <2>2. Append(immediates, f) \in Seq(Frame) /\ Deferred(Append(immediates, f))
    BY <2>1, DeferredAppend DEF IInv, TypeOK
  <2>3. TypeOK'
    BY <1>5, <2>2, RestGood DEF Defer, IInv, TypeOK, Good
  <2> QED
    BY <1>5, <2>2, <2>3, RestGood, RestingStep DEF Defer, IInv
<1>6. CASE Failed
  <2> DEFINE f == FrameFor("answer", Head(stack).batch, FALSE)
  <2>1. Head(stack).batch \in Batch /\ Head(stack).batch.reqs # <<>>
    BY <1>6, RestGood DEF Failed, Frame, FrameOK
  <2>2. f \in Frame /\ f.op = "answer" /\ f.batch = Head(stack).batch
    BY <2>1, AnswerFrameType
  <2> HIDE DEF f
  <2>3. Good(Push(f, Rest), isBufferFlushing, Len(buffer)) /\ Resting(Push(f, Rest))
    BY <1>6, <2>1, <2>2, RestGood, PushPlain DEF Failed, FrameOK
  <2>4. stack' = Push(f, Rest) /\ Good(stack', isBufferFlushing, Len(buffer))
    BY <1>6, <2>3 DEF Failed, f
  <2>5. TypeOK'
    <3>1. pendingCallbacks' \in Int
      BY <1>6 DEF Failed, IInv, TypeOK
    <3> QED
      BY <1>6, <2>4, <3>1 DEF Failed, IInv, TypeOK, Good
  <2> QED
    BY <1>6, <2>3, <2>4, <2>5, RestingStep DEF Failed, IInv
<1>7. CASE OnWriteCompletedNextTick
  <2> DEFINE f == FrameFor("answer", Head(stack).batch, FALSE)
             g == FrameOf("maybeFinish")
             s == Push(f, Push(g, Rest))
  <2>1. Head(stack).batch \in Batch /\ Head(stack).batch.reqs # <<>>
    BY <1>7, RestGood DEF OnWriteCompletedNextTick, Frame, FrameOK
  <2>2. /\ f \in Frame /\ f.op = "answer" /\ f.batch = Head(stack).batch
        /\ g \in Frame /\ g.op = "maybeFinish"
    BY <2>1, AnswerFrameType, FrameOfType DEF FrameOps
  <2> HIDE DEF f, g
  <2>3. Good(Push(g, Rest), isBufferFlushing, Len(buffer)) /\ Resting(Push(g, Rest))
    BY <1>7, <2>2, RestGood, PushPlain DEF OnWriteCompletedNextTick, FrameOK
  <2>4. Good(s, isBufferFlushing, Len(buffer)) /\ Resting(s)
    BY <1>7, <2>1, <2>2, <2>3, RestGood, PushPlain DEF OnWriteCompletedNextTick, FrameOK
  <2>5. /\ Good(Push(UserFrame, s), isBufferFlushing, Len(buffer))
        /\ Resting(Push(UserFrame, s))
    BY <1>7, <2>4, RestGood, PushPlain, UserFrameType DEF OnWriteCompletedNextTick, FrameOK
  <2>6. stack' = s \/ stack' = Push(UserFrame, s)
    BY <1>7 DEF OnWriteCompletedNextTick, AfterDrain, PushIf, f, g
  <2>7. Good(stack', isBufferFlushing, Len(buffer)) /\ Resting(stack')
    BY <2>4, <2>5, <2>6
  <2>8. TypeOK'
    BY <1>7, <2>7 DEF OnWriteCompletedNextTick, IInv, TypeOK, Good
  <2> QED
    BY <1>7, <2>7, <2>8, RestingStep DEF OnWriteCompletedNextTick, IInv
<1>8. CASE Answer
  <2> DEFINE b == Head(stack).batch
             f == FrameFor("answer", [b EXCEPT !.reqs = Tail(@)], FALSE)
             s == PushIf(Len(b.reqs) > 1, f, Rest)
  <2>1. b \in Batch /\ b.reqs \in Seq(Request) /\ b.reqs # <<>>
    BY <1>8, RestGood DEF Answer, Frame, FrameOK, Batch
  <2>2. /\ Head(b.reqs) \in Request /\ Tail(b.reqs) \in Seq(Request)
        /\ Len(b.reqs) > 1 => Tail(b.reqs) # <<>>
    BY <2>1, HeadTailProperties, EmptySeq, LenProperties
  <2>3. [b EXCEPT !.reqs = Tail(@)] \in Batch
        /\ [b EXCEPT !.reqs = Tail(@)].reqs = Tail(b.reqs)
    BY <2>1, <2>2 DEF Batch
  <2>4. f \in Frame /\ f.op = "answer" /\ f.batch.reqs = Tail(b.reqs)
    BY <2>3, AnswerFrameType
  <2> HIDE DEF f
  <2>5. Good(s, isBufferFlushing, Len(buffer)) /\ Resting(s)
    BY <1>8, <2>2, <2>4, RestGood, PushPlain DEF Answer, FrameOK, PushIf
  <2>6. /\ Good(Push(UserFrame, s), isBufferFlushing, Len(buffer))
        /\ Resting(Push(UserFrame, s))
    BY <1>8, <2>5, RestGood, PushPlain, UserFrameType DEF Answer, FrameOK
  <2>7. stack' = Push(UserFrame, s) /\ Good(stack', isBufferFlushing, Len(buffer))
    BY <1>8, <2>6 DEF Answer, f
  <2>8. answered' \in Seq(1 .. MaxWrites)
    BY <1>8, <2>2, AppendProperties DEF Answer, IInv, TypeOK, Request
  <2>9. TypeOK'
    <3>1. pendingCallbacks' \in Int
      BY <1>8 DEF Answer, OwnCount, IInv, TypeOK
    <3> QED
      BY <1>8, <2>7, <2>8, <3>1 DEF Answer, IInv, TypeOK, Good
  <2> QED
    BY <1>8, <2>6, <2>7, <2>9, RestingStep DEF Answer, IInv
<1>9. CASE MaybeFinish
  <2> DEFINE f == FrameOf("finishCheck")
  <2>1. f \in Frame /\ f.op = "finishCheck"
    BY FrameOfType DEF FrameOps
  <2> HIDE DEF f
  <2>2. Good(Push(f, Rest), isBufferFlushing, Len(buffer)) /\ Resting(Push(f, Rest))
    BY <1>9, <2>1, RestGood, PushPlain DEF MaybeFinish, FrameOK
  <2>3. /\ Good(Push(UserFrame, Push(f, Rest)), isBufferFlushing, Len(buffer))
        /\ Resting(Push(UserFrame, Push(f, Rest)))
    BY <1>9, <2>2, RestGood, PushPlain, UserFrameType DEF MaybeFinish, FrameOK
  <2>4. stack' \in {Rest, Push(f, Rest), Push(UserFrame, Push(f, Rest))}
    BY <1>9 DEF MaybeFinish, PushIf, f
  <2>5. Good(stack', isBufferFlushing, Len(buffer)) /\ Resting(stack')
    BY <1>9, <2>2, <2>3, <2>4, RestGood DEF MaybeFinish
  <2>6. TypeOK'
    BY <1>9, <2>5 DEF MaybeFinish, IInv, TypeOK, Good
  <2> QED
    BY <1>9, <2>5, <2>6, RestingStep DEF MaybeFinish, IInv
<1>10. CASE FinishCheck
  <2>1. Good(Push(UserFrame, Rest), isBufferFlushing, Len(buffer))
        /\ Resting(Push(UserFrame, Rest))
    BY <1>10, RestGood, PushPlain, UserFrameType DEF FinishCheck, FrameOK
  <2>2. Good(stack', isBufferFlushing, Len(buffer)) /\ Resting(stack')
    BY <1>10, <2>1, RestGood DEF FinishCheck
  <2>3. TypeOK'
    <3>1. finishes' \in Nat
      BY <1>10 DEF FinishCheck, IInv, TypeOK
    <3>2. writableFinished' \in BOOLEAN
      BY <1>10 DEF FinishCheck, IInv, TypeOK
    <3> QED
      BY <1>10, <2>2, <3>1, <3>2 DEF FinishCheck, IInv, TypeOK, Good
  <2> QED
    BY <1>10, <2>2, <2>3, RestingStep DEF FinishCheck, IInv
<1>11. CASE EndWritable
  <2> DEFINE f == FrameOf("maybeFinish")
             g == FrameOf("ended")
  <2>1. f \in Frame /\ f.op = "maybeFinish" /\ g \in Frame /\ g.op = "ended"
    BY FrameOfType DEF FrameOps
  <2> HIDE DEF f, g
  <2>2. Good(Push(g, Rest), isBufferFlushing, Len(buffer)) /\ Resting(Push(g, Rest))
    BY <1>11, <2>1, RestGood, PushPlain DEF EndWritable, FrameOK
  <2>3. /\ Good(Push(f, Push(g, Rest)), isBufferFlushing, Len(buffer))
        /\ Resting(Push(f, Push(g, Rest)))
    BY <1>11, <2>1, <2>2, RestGood, PushPlain DEF EndWritable, FrameOK
  <2>4. stack' = Rest \/ stack' = Push(f, Push(g, Rest))
    BY <1>11 DEF EndWritable, f, g
  <2>5. Good(stack', isBufferFlushing, Len(buffer)) /\ Resting(stack')
    BY <1>11, <2>3, <2>4, RestGood DEF EndWritable
  <2>6. TypeOK'
    BY <1>11, <2>5 DEF EndWritable, IInv, TypeOK, Good
  <2> QED
    BY <1>11, <2>5, <2>6, RestingStep DEF EndWritable, IInv
<1>12. CASE RejectLater
  <2> DEFINE f == [Head(stack) EXCEPT !.op = "answer"]
  <2>1. f \in Frame /\ f.op = "answer" /\ f.batch.reqs # <<>>
    BY <1>12, RestGood DEF RejectLater, Frame, FrameOps, FrameOK
  <2>2. Append(immediates, f) \in Seq(Frame) /\ Deferred(Append(immediates, f))
    BY <2>1, DeferredAppend DEF IInv, TypeOK
  <2>3. TypeOK'
    BY <1>12, <2>2, RestGood DEF RejectLater, IInv, TypeOK, Good
  <2> QED
    BY <1>12, <2>2, <2>3, RestGood, RestingStep DEF RejectLater, IInv
<1>13. CASE OnWriteCompleted
  <2>1. /\ Good(Rest, isBufferFlushing, Len(buffer)) /\ Resting(Rest)
        /\ isBufferFlushing \in BOOLEAN /\ Len(buffer) \in Nat
        /\ writing /\ ~io /\ writeCallback \in Batch /\ writeCallback.reqs # <<>>
        /\ immediates \in Seq(Frame) /\ Deferred(immediates)
    BY <1>13, RestGood DEF OnWriteCompleted, IInv, TypeOK
  <2>2. /\ Good(stack', isBufferFlushing, Len(buffer))
        /\ immediates' \in Seq(Frame) /\ Deferred(immediates')
        /\ ~Running("completed")'
    <3>1. CASE ~Head(stack).flag
      <4> DEFINE e == FrameOf("emitError")
                 f == FrameFor("failed", writeCallback, FALSE)
      <4>1. /\ e \in Frame /\ e.op = "emitError"
            /\ f \in Frame /\ f.op = "failed" /\ f.batch = writeCallback
        <5>1. "failed" \in FrameOps /\ FALSE \in BOOLEAN /\ "emitError" \in FrameOps
          BY DEF FrameOps
        <5> QED
          BY <2>1, <5>1, FrameForType, FrameOfType
      <4>2. /\ stack' = PushIf(~sync, f, Push(e, Rest))
            /\ immediates' = IF sync THEN Append(immediates, f) ELSE immediates
        BY <1>13, <3>1 DEF OnWriteCompleted, AfterFailure
      <4> HIDE DEF e, f
      <4>3. Good(Push(e, Rest), isBufferFlushing, Len(buffer)) /\ Resting(Push(e, Rest))
            /\ Push(e, Rest) # <<>>
        BY <2>1, <4>1, PushPlain DEF FrameOK
      <4>4. /\ Good(Push(f, Push(e, Rest)), isBufferFlushing, Len(buffer))
            /\ Resting(Push(f, Push(e, Rest)))
        BY <2>1, <4>1, <4>3, PushPlain DEF FrameOK
      <4>5. Good(stack', isBufferFlushing, Len(buffer)) /\ Resting(stack')
        BY <4>2, <4>3, <4>4 DEF PushIf
      <4>6. immediates' \in Seq(Frame) /\ Deferred(immediates')
        BY <2>1, <4>1, <4>2, DeferredAppend
      <4> QED
        BY <4>5, <4>6, RestingRuns DEF Running
    <3>2. CASE Head(stack).flag
      <4> DEFINE nf == NeedFinish(length - writableLength, FALSE)
                 op == IF sync THEN "defer" ELSE "nextTick"
                 d  == FrameFor(op, writeCallback, nf)
                 f  == FrameOf("flush")
      <4>1. /\ d \in Frame /\ d.op \in {"defer", "nextTick"} /\ d.batch = writeCallback
            /\ f \in Frame /\ f.op = "flush"
        <5>1. op \in FrameOps /\ op \in {"defer", "nextTick"} /\ "flush" \in FrameOps
          BY DEF FrameOps
        <5>2. nf \in BOOLEAN
          BY DEF NeedFinish
        <5> HIDE DEF op, nf
        <5> QED
          BY <2>1, <5>1, <5>2, FrameForType, FrameOfType
      <4>2. /\ stack' = PushIf(~nf, f, Push(d, Rest))
            /\ immediates' = immediates
        BY <1>13, <3>2 DEF OnWriteCompleted, AfterSuccess
      <4> HIDE DEF nf, op, d, f
      <4>3. Good(Push(d, Rest), isBufferFlushing, Len(buffer)) /\ Resting(Push(d, Rest))
            /\ Push(d, Rest) # <<>> /\ Head(Push(d, Rest)) = d
        BY <2>1, <4>1, PushPlain DEF FrameOK
      <4>4. FrameOK(f, isBufferFlushing, Len(buffer))
            /\ \A i \in DOMAIN Push(d, Rest) : Above(f, Push(d, Rest)[i])
        BY <4>1, <4>3 DEF FrameOK, Above, Resting
      <4>5. /\ Good(Push(f, Push(d, Rest)), isBufferFlushing, Len(buffer))
            /\ Head(Push(f, Push(d, Rest))) = f
        BY <2>1, <4>1, <4>3, <4>4, PushGood
      <4>6. Good(stack', isBufferFlushing, Len(buffer)) /\ Head(stack') \in {d, f}
        BY <4>2, <4>3, <4>5 DEF PushIf
      <4>7. Head(stack').op # "completed"
        BY <4>1, <4>6
      <4> QED
        BY <2>1, <4>2, <4>6, <4>7 DEF Running
    <3> QED
      BY <3>1, <3>2
  <2>3. length' \in Int /\ writableLength' \in Int
    BY <1>13 DEF OnWriteCompleted, IInv, TypeOK
  <2>4. TypeOK'
    BY <1>13, <2>2, <2>3, NoBatchType DEF OnWriteCompleted, IInv, TypeOK, Good
  <2> QED
    BY <1>13, <2>1, <2>2, <2>4 DEF OnWriteCompleted, IInv
<1>14. CASE FlushBuffer
  <2>1. /\ Good(Rest, isBufferFlushing, Len(buffer)) /\ Resting(Rest)
        /\ isBufferFlushing \in BOOLEAN /\ Len(buffer) \in Nat
        /\ buffer \in Seq(Request)
    BY <1>14, RestGood DEF FlushBuffer, IInv, TypeOK
  <2> DEFINE g == FrameOf("flushEnd")
  <2>2. g \in Frame /\ g.op = "flushEnd"
    BY FrameOfType DEF FrameOps
  <2> HIDE DEF g
  <2>3. ASSUME ~isBufferFlushing, NEW n \in Nat
        PROVE  /\ Good(Rest, TRUE, n)
               /\ Good(Push(g, Rest), TRUE, n) /\ Resting(Push(g, Rest))
               /\ \A i \in DOMAIN Push(g, Rest) : Push(g, Rest)[i].op # "loop"
    <3>1. \A i \in DOMAIN Rest : Rest[i].op \notin {"loop", "flushEnd"}
      BY <2>1, <2>3 DEF Good, FrameOK
    <3>2. Good(Rest, TRUE, n)
      BY <2>1, <3>1, GoodChanges
    <3>3. FrameOK(g, TRUE, n) /\ \A i \in DOMAIN Rest : Above(g, Rest[i])
      BY <2>1, <2>2, <3>1 DEF FrameOK, Above, Resting
    <3>4. Good(Push(g, Rest), TRUE, n)
      BY <2>2, <3>2, <3>3, PushGood
    <3>5. Rest \in Seq(Frame)
      BY <2>1 DEF Good
    <3>6. Resting(Push(g, Rest))
      BY <2>1, <2>2, <3>5, PushOps DEF Resting
    <3>7. \A i \in DOMAIN Push(g, Rest) : Push(g, Rest)[i].op \notin {"loop"}
      <4>1. g.op \notin {"loop"} /\ \A i \in DOMAIN Rest : Rest[i].op \notin {"loop"}
        BY <2>2, <3>1
      <4> QED
        BY <2>2, <3>5, <4>1, PushOps
    <3> QED
      BY <3>2, <3>4, <3>6, <3>7
  <2>4. CASE ~CanFlush /\ stack' = Rest
             /\ UNCHANGED <<writeVars, buffer, isBufferFlushing, pendingCallbacks>>
    <3>1. TypeOK'
      BY <1>14, <2>1, <2>4 DEF FlushBuffer, IInv, TypeOK, Good
    <3> QED
      BY <1>14, <2>1, <2>4, <3>1, RestingStep DEF FlushBuffer, IInv
  <2>5. CASE /\ CanFlush /\ isBufferFlushing' = TRUE /\ buffer' = <<>>
             /\ pendingCallbacks' = pendingCallbacks + 1
             /\ OnWrite([reqs |-> buffer, vec |-> TRUE], length, Push(g, Rest))
    <3> DEFINE b == [reqs |-> buffer, vec |-> TRUE]
    <3>1. b \in Batch /\ b.reqs # <<>> /\ length \in Int
      BY <2>1, <2>5 DEF Batch, CanFlush, IInv, TypeOK
    <3>2. ~writing /\ ~io /\ TypeOK /\ ~isBufferFlushing
      BY <1>14, <2>5 DEF FlushBuffer, IInv, CanFlush
    <3>3. Good(Push(g, Rest), TRUE, 0) /\ Resting(Push(g, Rest))
      BY <2>3, <3>2
    <3>4. OnWrite(b, length, Push(g, Rest))
      BY <2>5
    <3> HIDE DEF b
    <3>5. /\ Good(stack', TRUE, 0)
          /\ writableLength' \in Int /\ writeCallback' \in Batch
          /\ writing' = TRUE /\ sync' \in BOOLEAN /\ io' \in BOOLEAN
          /\ handed' \in Seq(1 .. MaxWrites)
          /\ writeCallback'.reqs # <<>>
          /\ ~Running("flush")'
          /\ Running("completed")' => ~io'
      BY <3>1, <3>2, <3>3, <3>4, OnWriteKeeps
    <3>6. buffer' \in Seq(Request) /\ Len(buffer') = 0
      BY <2>5
    <3>7. pendingCallbacks' \in Int
      BY <2>5 DEF IInv, TypeOK
    <3>8. TypeOK'
      BY <1>14, <2>5, <3>5, <3>6, <3>7 DEF FlushBuffer, IInv, TypeOK, Good
    <3> QED
      BY <1>14, <2>5, <3>5, <3>6, <3>8 DEF FlushBuffer, IInv
  <2>6. CASE /\ CanFlush /\ isBufferFlushing' = TRUE
             /\ stack' = Push(LoopFrame(Len(buffer)), Push(g, Rest))
             /\ UNCHANGED <<writeVars, buffer, pendingCallbacks>>
    <3> DEFINE f == LoopFrame(Len(buffer))
    <3>1. f \in Frame /\ f.op = "loop" /\ f.left = Len(buffer)
      BY <2>1, LoopFrameType
    <3> HIDE DEF f
    <3>2. /\ Good(Push(g, Rest), TRUE, Len(buffer)) /\ Resting(Push(g, Rest))
          /\ \A i \in DOMAIN Push(g, Rest) : Push(g, Rest)[i].op # "loop"
      BY <2>1, <2>3, <2>6 DEF CanFlush
    <3>3. FrameOK(f, TRUE, Len(buffer))
          /\ \A i \in DOMAIN Push(g, Rest) : Above(f, Push(g, Rest)[i])
      BY <2>1, <3>1, <3>2 DEF FrameOK, Above, Resting
    <3>4. Good(Push(f, Push(g, Rest)), TRUE, Len(buffer))
          /\ Head(Push(f, Push(g, Rest))) = f
      BY <2>1, <3>1, <3>2, <3>3, PushGood
    <3>5. Good(stack', TRUE, Len(buffer)) /\ Head(stack') = f
      BY <2>6, <3>4 DEF f
    <3>6. TypeOK'
      BY <1>14, <2>6, <3>5 DEF FlushBuffer, IInv, TypeOK, Good
    <3> QED
      BY <1>14, <2>6, <3>1, <3>5, <3>6 DEF FlushBuffer, IInv, Running
  <2> QED
    BY <1>14, <2>4, <2>5, <2>6 DEF FlushBuffer, g
<1>15. CASE FlushLoop
  <2>1. /\ Good(Rest, isBufferFlushing, Len(buffer)) /\ Resting(Rest)
        /\ Head(stack) \in Frame /\ Head(stack).op = "loop"
        /\ isBufferFlushing = TRUE /\ Head(stack).left <= Len(buffer)
        /\ \A i \in DOMAIN Rest : Above(Head(stack), Rest[i])
        /\ Head(stack).left \in Nat /\ Len(buffer) \in Nat
    BY <1>15, RestGood DEF FlushLoop, FrameOK, Frame
  <2>2. CASE (Head(stack).left = 0 \/ writing) /\ stack' = Rest
             /\ UNCHANGED <<writeVars, buffer>>
    <3>1. TypeOK'
      BY <1>15, <2>1, <2>2 DEF FlushLoop, IInv, TypeOK, Good
    <3> QED
      BY <1>15, <2>1, <2>2, <3>1, RestingStep DEF FlushLoop, IInv
  <2>3. CASE /\ Head(stack).left > 0 /\ ~writing /\ buffer' = Tail(buffer)
             /\ OnWrite(One(Head(buffer)), Head(buffer).len,
                        Push(LoopFrame(Head(stack).left - 1), Rest))
    <3> DEFINE f == LoopFrame(Head(stack).left - 1)
               r == Head(buffer)
    <3>1. buffer \in Seq(Request) /\ buffer # <<>>
      BY <2>1, <2>3, EmptySeq DEF IInv, TypeOK
    <3>2. r \in Request /\ buffer' \in Seq(Request) /\ Len(buffer') = Len(buffer) - 1
      BY <2>3, <3>1, HeadTailProperties
    <3>3. Head(stack).left - 1 \in Nat /\ Len(buffer') \in Nat
      BY <2>1, <2>3, <3>2, LenProperties
    <3>4. f \in Frame /\ f.op = "loop" /\ f.left = Head(stack).left - 1
      BY <3>3, LoopFrameType
    <3> HIDE DEF f, r
    <3>5. \A i \in DOMAIN Rest : Rest[i].op # "loop" /\ Above(f, Rest[i])
      BY <2>1, <3>4 DEF Above
    <3>6. Good(Rest, TRUE, Len(buffer'))
      BY <2>1, <3>3, <3>5, GoodChanges
    <3>7. FrameOK(f, TRUE, Len(buffer'))
      BY <2>1, <3>2, <3>3, <3>4 DEF FrameOK
    <3>8. Good(Push(f, Rest), TRUE, Len(buffer')) /\ Resting(Push(f, Rest))
      <4>1. Good(Push(f, Rest), TRUE, Len(buffer'))
        BY <3>3, <3>4, <3>5, <3>6, <3>7, PushGood
      <4>2. Rest \in Seq(Frame)
        BY <2>1 DEF Good
      <4> QED
        BY <2>1, <3>4, <4>1, <4>2, PushOps DEF Resting
    <3>9. One(r) \in Batch /\ One(r).reqs # <<>> /\ r.len \in Int
      <4>1. <<r>> \in Seq(Request) /\ <<r>> # <<>>
        BY <3>2
      <4>2. r.len \in Int
        <5>1. r.len \in ChunkLengths
          BY <3>2 DEF Request
        <5>2. r.len \in Nat
          BY <5>1, WritableAssumption
        <5> QED
          BY <5>2
      <4> QED
        BY <4>1, <4>2 DEF One, Batch
    <3>10. OnWrite(One(r), r.len, Push(f, Rest)) /\ TypeOK /\ ~io
      BY <2>3 DEF IInv, f, r
    <3>11. /\ Good(stack', TRUE, Len(buffer'))
           /\ writableLength' \in Int /\ writeCallback' \in Batch
           /\ writing' = TRUE /\ sync' \in BOOLEAN /\ io' \in BOOLEAN
           /\ handed' \in Seq(1 .. MaxWrites)
           /\ writeCallback'.reqs # <<>>
           /\ ~Running("flush")'
           /\ Running("completed")' => ~io'
      BY <3>3, <3>8, <3>9, <3>10, OnWriteKeeps
    <3>12. TypeOK'
      BY <1>15, <3>2, <3>11 DEF FlushLoop, IInv, TypeOK, Good
    <3> QED
      BY <1>15, <2>1, <3>11, <3>12 DEF FlushLoop, IInv
  <2> QED
    BY <1>15, <2>2, <2>3 DEF FlushLoop
<1>16. CASE FlushEnd
  <2>1. \A i \in DOMAIN Rest : Rest[i].op \notin {"loop", "flushEnd"}
    BY <1>16, RestGood DEF FlushEnd, Above
  <2>2. Good(Rest, FALSE, Len(buffer)) /\ Resting(Rest)
    BY <1>16, <2>1, RestGood, GoodChanges DEF FlushEnd
  <2>3. Good(stack', isBufferFlushing', Len(buffer')) /\ Resting(stack')
    BY <1>16, <2>2 DEF FlushEnd
  <2>4. TypeOK'
    BY <1>16, <2>3 DEF FlushEnd, IInv, TypeOK, Good
  <2> QED
    BY <1>16, <2>3, <2>4, RestingStep DEF FlushEnd, IInv
<1> QED
  BY <1>1, <1>2, <1>3, <1>4, <1>5, <1>6, <1>7, <1>8, <1>9, <1>10, <1>11, <1>12,
     <1>13, <1>14, <1>15, <1>16 DEF StreamStep

LEMMA OtherStepKeeps ==
    ASSUME IInv, UserCall \/ SinkCompletes \/ RunImmediate \/ UNCHANGED vars
    PROVE  IInv'
<1> USE DEF flagVars, writeVars, queueVars, logVars
<1>1. CASE \E len \in ChunkLengths : Write(len)
  <2>0. PICK len \in ChunkLengths : Write(len)
    BY <1>1
  <2> DEFINE r == NewRequest(len)
  <2>1. /\ r \in Request /\ len \in Int /\ calls' \in 0 .. MaxWrites
        /\ pendingCallbacks' \in Int /\ length' \in Int
    <3>1. calls + 1 \in 1 .. MaxWrites /\ calls' = calls + 1
      BY <2>0, WritableAssumption DEF Write, MayWrite, IInv, TypeOK
    <3>2. len \in Nat
      BY <2>0, WritableAssumption
    <3>3. r \in Request
      BY <3>1, <2>0 DEF NewRequest, Request
    <3>4. calls' \in 0 .. MaxWrites
      BY <3>1, WritableAssumption
    <3>5. pendingCallbacks' \in Int /\ length' \in Int
      BY <3>2, <2>0 DEF Write, IInv, TypeOK
    <3> QED
      BY <3>2, <3>3, <3>4, <3>5
  <2>2. needDrain' \in BOOLEAN
    BY <2>0 DEF Write, IInv, TypeOK
  <2>3. /\ Good(stack, isBufferFlushing, Len(buffer)) /\ Resting(stack)
        /\ isBufferFlushing \in BOOLEAN /\ Len(buffer) \in Nat
    BY <2>0, CallGood DEF Write, MayWrite
  <2> HIDE DEF r
  <2>4. CASE /\ MustBuffer /\ buffer' = Append(buffer, r)
             /\ UNCHANGED <<writeVars, stack>>
    <3>1. buffer' \in Seq(Request) /\ Len(buffer') = Len(buffer) + 1
      BY <2>1, <2>4, AppendProperties DEF IInv, TypeOK
    <3>2. Good(stack, isBufferFlushing, Len(buffer')) /\ Len(buffer') \in Nat
      BY <2>3, <3>1, GoodChanges
    <3>3. TypeOK'
      BY <2>0, <2>1, <2>2, <2>4, <3>1 DEF Write, IInv, TypeOK
    <3>4. Good(stack', isBufferFlushing', Len(buffer')) /\ Resting(stack')
      BY <2>0, <2>3, <2>4, <3>2 DEF Write
    <3> QED
      BY <2>0, <2>4, <3>3, <3>4, RestingStep DEF Write, IInv
  <2>5. CASE /\ ~MustBuffer /\ OnWrite(One(r), len, stack)
             /\ UNCHANGED buffer
    <3>1. One(r) \in Batch /\ One(r).reqs # <<>>
      <4>1. <<r>> \in Seq(Request) /\ <<r>> # <<>>
        BY <2>1
      <4> QED
        BY <4>1 DEF One, Batch
    <3>2. TypeOK /\ ~io
      BY <2>5 DEF IInv, MustBuffer
    <3>3. /\ Good(stack', isBufferFlushing, Len(buffer))
          /\ writableLength' \in Int /\ writeCallback' \in Batch
          /\ writing' = TRUE /\ sync' \in BOOLEAN /\ io' \in BOOLEAN
          /\ handed' \in Seq(1 .. MaxWrites)
          /\ writeCallback'.reqs # <<>>
          /\ ~Running("flush")'
          /\ Running("completed")' => ~io'
      BY <2>1, <2>3, <2>5, <3>1, <3>2, OnWriteKeeps
    <3>4. TypeOK'
      BY <2>0, <2>1, <2>2, <2>5, <3>3 DEF Write, IInv, TypeOK, Good
    <3> QED
      BY <2>0, <2>5, <3>3, <3>4 DEF Write, IInv
  <2> QED
    BY <2>0, <2>4, <2>5 DEF Write, r
<1>2. CASE \E len \in ChunkLengths : WriteRejected(len)
  <2>0. PICK len \in ChunkLengths : WriteRejected(len)
    BY <1>2
  <2> DEFINE r == NewRequest(len)
             f == FrameFor("rejectLater", One(r), FALSE)
  <2>1. /\ One(r) \in Batch /\ One(r).reqs # <<>> /\ calls' \in 0 .. MaxWrites
    <3>1. calls + 1 \in 1 .. MaxWrites /\ calls' = calls + 1
      BY <2>0, WritableAssumption DEF WriteRejected, MayWrite, IInv, TypeOK
    <3>2. r \in Request
      BY <3>1, <2>0 DEF NewRequest, Request
    <3>3. <<r>> \in Seq(Request) /\ <<r>> # <<>>
      BY <3>2
    <3>4. calls' \in 0 .. MaxWrites
      BY <3>1, WritableAssumption
    <3> QED
      BY <3>3, <3>4 DEF One, Batch
  <2>2. f \in Frame /\ f.op = "rejectLater" /\ f.batch = One(r)
    <3>1. "rejectLater" \in FrameOps /\ FALSE \in BOOLEAN
      BY DEF FrameOps
    <3> QED
      BY <2>1, <3>1, FrameForType
  <2> HIDE DEF r, f
  <2>3. /\ Good(stack, isBufferFlushing, Len(buffer)) /\ Resting(stack)
        /\ isBufferFlushing \in BOOLEAN /\ Len(buffer) \in Nat
    BY <2>0, CallGood DEF WriteRejected, MayWrite
  <2>4. Good(Push(f, stack), isBufferFlushing, Len(buffer)) /\ Resting(Push(f, stack))
    BY <2>1, <2>2, <2>3, PushPlain DEF FrameOK
  <2>5. /\ Good(Push(UserFrame, Push(f, stack)), isBufferFlushing, Len(buffer))
        /\ Resting(Push(UserFrame, Push(f, stack)))
    BY <2>3, <2>4, PushPlain, UserFrameType DEF FrameOK
  <2>6. stack' = Push(UserFrame, Push(f, stack))
    BY <2>0 DEF WriteRejected, f, r
  <2>7. Good(stack', isBufferFlushing, Len(buffer)) /\ Resting(stack')
    BY <2>5, <2>6
  <2>8. TypeOK'
    BY <2>0, <2>1, <2>7 DEF WriteRejected, IInv, TypeOK, Good
  <2> QED
    BY <2>0, <2>7, <2>8, RestingStep DEF WriteRejected, IInv
<1>3. CASE Cork
  <2>1. TypeOK'
    <3>1. writableCorked' \in 0 .. MaxCorks
      BY <1>3, WritableAssumption DEF Cork, IInv, TypeOK
    <3> QED
      BY <1>3, <3>1 DEF Cork, IInv, TypeOK
  <2> QED
    BY <1>3, <2>1, CallGood, RestingStep DEF Cork, IInv
<1>4. CASE Uncork
  <2> DEFINE f == FrameOf("flush")
  <2>1. f \in Frame /\ f.op = "flush"
    BY FrameOfType DEF FrameOps
  <2> HIDE DEF f
  <2>2. /\ Good(stack, isBufferFlushing, Len(buffer)) /\ Resting(stack)
        /\ isBufferFlushing \in BOOLEAN /\ Len(buffer) \in Nat
    BY <1>4, CallGood DEF Uncork
  <2>3. /\ Good(Push(f, stack), isBufferFlushing, Len(buffer))
        /\ Head(Push(f, stack)) = f
    BY <2>1, <2>2, PushGood DEF FrameOK, Above, Resting
  <2>4. \/ stack' = stack
        \/ stack' = Push(f, stack) /\ ~writing
    BY <1>4 DEF Uncork, PushIf, FlushOnUncork, f
  <2>5. TypeOK'
    <3>1. writableCorked' \in 0 .. MaxCorks
      BY <1>4, WritableAssumption DEF Uncork, IInv, TypeOK
    <3> QED
      BY <1>4, <3>1, <2>2, <2>3, <2>4 DEF Uncork, IInv, TypeOK, Good
  <2>6. CASE stack' = stack
    BY <1>4, <2>2, <2>5, <2>6, RestingStep DEF Uncork, IInv
  <2>7. CASE stack' = Push(f, stack) /\ ~writing
    BY <1>4, <2>1, <2>3, <2>5, <2>7 DEF Uncork, IInv, Running
  <2> QED
    BY <2>4, <2>6, <2>7
<1>5. CASE Finish
  <2> DEFINE f == FrameOf("flush")
             g == FrameOf("endWritable")
  <2>1. f \in Frame /\ f.op = "flush" /\ g \in Frame /\ g.op = "endWritable"
    BY FrameOfType DEF FrameOps
  <2> HIDE DEF f, g
  <2>2. /\ Good(stack, isBufferFlushing, Len(buffer)) /\ Resting(stack)
        /\ isBufferFlushing \in BOOLEAN /\ Len(buffer) \in Nat
    BY <1>5, CallGood DEF Finish
  <2>3. Good(Push(g, stack), isBufferFlushing, Len(buffer)) /\ Resting(Push(g, stack))
    BY <2>1, <2>2, PushPlain DEF FrameOK
  <2>4. FrameOK(f, isBufferFlushing, Len(buffer))
        /\ \A i \in DOMAIN Push(g, stack) : Above(f, Push(g, stack)[i])
    BY <2>1, <2>3 DEF FrameOK, Above, Resting
  <2>5. /\ Good(Push(f, Push(g, stack)), isBufferFlushing, Len(buffer))
        /\ Head(Push(f, Push(g, stack))) = f
    BY <2>1, <2>2, <2>3, <2>4, PushGood
  <2>6. \/ stack' = Push(g, stack)
        \/ stack' = Push(f, Push(g, stack)) /\ ~writing
    BY <1>5 DEF Finish, PushIf, FlushOnUncork, f, g
  <2>7. TypeOK'
    <3>1. writableCorked' \in 0 .. MaxCorks
      BY <1>5, WritableAssumption DEF Finish
    <3> QED
      BY <1>5, <3>1, <2>3, <2>5, <2>6 DEF Finish, IInv, TypeOK, Good
  <2>8. CASE stack' = Push(g, stack)
    BY <1>5, <2>3, <2>7, <2>8, RestingStep DEF Finish, IInv
  <2>9. CASE stack' = Push(f, Push(g, stack)) /\ ~writing
    BY <1>5, <2>1, <2>5, <2>7, <2>9 DEF Finish, IInv, Running
  <2> QED
    BY <2>6, <2>8, <2>9
<1>6. CASE SinkCompletes
  <2>1. PICK a \in SinkAnswers : stack' = Push(FrameFor("completed", NoBatch, a = "later"), stack)
    BY <1>6 DEF SinkCompletes
  <2> DEFINE f == FrameFor("completed", NoBatch, a = "later")
  <2>2. f \in Frame /\ f.op = "completed"
    <3>1. "completed" \in FrameOps
      BY DEF FrameOps
    <3> QED
      BY <3>1, NoBatchType, FrameForType
  <2> HIDE DEF f
  <2>3. /\ Good(stack, isBufferFlushing, Len(buffer)) /\ Resting(stack)
        /\ isBufferFlushing \in BOOLEAN /\ Len(buffer) \in Nat
    BY <1>6, CallGood DEF SinkCompletes, InUserCode
  <2>4. FrameOK(f, isBufferFlushing, Len(buffer))
        /\ \A i \in DOMAIN stack : Above(f, stack[i])
    BY <2>2, <2>3 DEF FrameOK, Above, Resting
  <2>5. stack' = Push(f, stack)
    BY <2>1 DEF f
  <2>6. Good(stack', isBufferFlushing, Len(buffer)) /\ Head(stack') = f
    BY <2>2, <2>3, <2>4, <2>5, PushGood
  <2>7. TypeOK'
    BY <1>6, <2>6 DEF SinkCompletes, IInv, TypeOK, Good
  <2> QED
    BY <1>6, <2>2, <2>6, <2>7 DEF SinkCompletes, IInv, Running
<1>7. CASE RunImmediate
  <2> DEFINE f == Head(immediates)
  <2>1. /\ immediates \in Seq(Frame) /\ immediates # <<>> /\ Deferred(immediates)
        /\ isBufferFlushing \in BOOLEAN /\ Len(buffer) \in Nat
        /\ Good(stack, isBufferFlushing, Len(buffer)) /\ stack = <<>>
    BY <1>7, LenProperties DEF RunImmediate, IInv, TypeOK
  <2>2. /\ f \in Frame /\ f = immediates[1] /\ 1 \in DOMAIN immediates
        /\ Tail(immediates) \in Seq(Frame)
        /\ \A i \in DOMAIN Tail(immediates) :
              Tail(immediates)[i] = immediates[i + 1] /\ i + 1 \in DOMAIN immediates
    BY <2>1, HeadTailProperties, LenProperties, EmptySeq
  <2>3. f.op \in {"failed", "nextTick", "answer"} /\ f.batch.reqs # <<>>
        /\ Deferred(Tail(immediates))
    BY <2>1, <2>2 DEF Deferred
  <2> HIDE DEF f
  <2>4. Resting(<<>>) /\ FrameOK(f, isBufferFlushing, Len(buffer))
    BY <2>3 DEF Resting, FrameOK
  <2>5. /\ Good(Push(f, stack), isBufferFlushing, Len(buffer))
        /\ Resting(Push(f, stack))
    BY <2>1, <2>2, <2>3, <2>4, PushPlain
  <2>6. stack' = Push(f, stack)
    BY <1>7, <2>1, <2>2 DEF RunImmediate, Push, f
  <2>7. Good(stack', isBufferFlushing, Len(buffer)) /\ Resting(stack')
    BY <2>5, <2>6
  <2>8. TypeOK'
    BY <1>7, <2>2, <2>7 DEF RunImmediate, IInv, TypeOK, Good
  <2> QED
    BY <1>7, <2>3, <2>7, <2>8, RestingStep DEF RunImmediate, IInv
<1>8. CASE UNCHANGED vars
  <2>1. TypeOK'
    BY <1>8 DEF vars, IInv, TypeOK
  <2> QED
    BY <1>8, <2>1 DEF vars, IInv, Running
<1> QED
  BY <1>1, <1>2, <1>3, <1>4, <1>5, <1>6, <1>7, <1>8 DEF UserCall

LEMMA InitIInv == Init => IInv
<1> SUFFICES ASSUME Init PROVE IInv
  OBVIOUS
<1>1. TypeOK
  <2>1. /\ writableCorked \in 0 .. MaxCorks /\ calls \in 0 .. MaxWrites /\ finishes \in Nat
        /\ writableLength \in Int /\ length \in Int /\ pendingCallbacks \in Int
    <3>1. MaxCorks \in Nat /\ MaxWrites \in Nat
      BY WritableAssumption
    <3> QED
      BY <3>1 DEF Init
  <2>2. /\ buffer \in Seq(Request) /\ immediates \in Seq(Frame) /\ stack \in Seq(Frame)
        /\ handed \in Seq(1 .. MaxWrites) /\ answered \in Seq(1 .. MaxWrites)
    BY DEF Init
  <2> QED
    BY <2>1, <2>2, NoBatchType DEF Init, TypeOK
<1>2. Good(stack, isBufferFlushing, Len(buffer))
  BY DEF Init, Good
<1> QED
  BY <1>1, <1>2 DEF Init, IInv, Deferred, Running

(* The invariant holds in every reachable state. *)
THEOREM Invariance == Spec => []IInv
<1>1. IInv /\ [Next]_vars => IInv'
  BY StreamStepKeeps, OtherStepKeeps DEF Next
<1> QED
  BY <1>1, InitIInv, PTL DEF Spec

(* TypeOK: the variables of a stream and of its stack of pending code keep *)
(* their types.                                                            *)
THEOREM TypeCorrect == Spec => []TypeOK
<1>1. IInv => TypeOK
  BY DEF IInv
<1> QED
  BY <1>1, Invariance, PTL

(* LoopInBuffer: _flushBuffer's loop, whose bound is read once, never      *)
(* indexes past the requests, whatever the listeners it fires do.          *)
THEOREM LoopStaysInBuffer == Spec => []LoopInBuffer
<1>1. IInv => LoopInBuffer
  BY DEF IInv, Good, FrameOK, LoopInBuffer
<1> QED
  BY <1>1, Invariance, PTL

(* OneOutstanding: _write and _writev are never called while the previous  *)
(* call has not been answered, by write(), uncork(), finish(), a           *)
(* completion or the flush loop.                                           *)
THEOREM NeverOverlapped == Spec => OneOutstanding
<1>1. ASSUME IInv, [Next]_vars, handed' # handed
      PROVE  ~io /\ ~writing
  <2> USE DEF flagVars, writeVars, queueVars, logVars
  <2>1. CASE \E len \in ChunkLengths : Write(len)
    BY <1>1, <2>1 DEF Write, MustBuffer, IInv
  <2>2. CASE FlushBuffer
    BY <1>1, <2>2 DEF FlushBuffer, IInv
  <2>3. CASE FlushLoop
    BY <1>1, <2>3 DEF FlushLoop, IInv
  <2>4. CASE UNCHANGED vars
    BY <1>1, <2>4 DEF vars
  <2>5. CASE \/ \E len \in ChunkLengths : WriteRejected(len)
             \/ Cork \/ Uncork \/ Finish \/ SinkCompletes \/ RunImmediate
    BY <1>1, <2>5 DEF WriteRejected, Cork, Uncork, Finish, SinkCompletes, RunImmediate
  <2>6. CASE \/ SyncOff \/ OnWriteCompleted \/ Defer \/ Failed \/ EmitError
             \/ OnWriteCompletedNextTick \/ Answer \/ FlushEnd \/ MaybeFinish
    BY <1>1, <2>6 DEF SyncOff, OnWriteCompleted, Defer, Failed, EmitError,
         OnWriteCompletedNextTick, Answer, FlushEnd, MaybeFinish
  <2>7. CASE FinishCheck \/ EndWritable \/ Ended \/ RejectLater \/ Return
    BY <1>1, <2>7 DEF FinishCheck, EndWritable, Ended, RejectLater, Return
  <2> QED
    BY <1>1, <2>1, <2>2, <2>3, <2>4, <2>5, <2>6, <2>7 DEF Next, UserCall, StreamStep
<1>2. IInv /\ [Next]_vars => [handed' # handed => ~io /\ ~writing]_vars
  BY <1>1
<1> QED
  BY <1>2, Invariance, PTL DEF Spec, OneOutstanding

-----------------------------------------------------------------------------
(* Sums.  Induction over a set of numbers, and what Total computes.        *)

LEMMA SetInduction ==
    ASSUME NEW S, 0 \in S, \A n \in Nat : n \in S => n + 1 \in S
    PROVE  \A n \in Nat : n \in S
<1> DEFINE T == Nat \ S
           R == OpToRel(<, Nat)
<1>1. SUFFICES ASSUME T # {} PROVE FALSE
  OBVIOUS
<1>2. PICK x \in T : \A y \in T : ~(<<y, x>> \in R)
  <2>1. IsWellFoundedOn(R, Nat)
    BY NatLessThanWellFounded
  <2>2. T \subseteq Nat
    OBVIOUS
  <2> HIDE DEF R, T
  <2> QED
    BY <1>1, <2>1, <2>2, WFMin
<1>3. x \in Nat /\ x # 0 /\ x - 1 \in Nat
  <2> HIDE DEF R
  <2> QED
    OBVIOUS
<1>4. <<x - 1, x>> \in R
  BY <1>3 DEF OpToRel
<1> HIDE DEF R
<1>5. x - 1 \notin T
  BY <1>2, <1>4
<1> QED
  BY <1>3, <1>5

\* The partial sums that Total goes through.
Summing(c, l) ==
    CHOOSE f : f = [n \in 0 .. l |-> IF n = 0 THEN 0 ELSE f[n - 1] + c[n]]

LEMMA SummingExists ==
    ASSUME NEW c, NEW l \in Nat
    PROVE  \E f : f = [n \in 0 .. l |-> IF n = 0 THEN 0 ELSE f[n - 1] + c[n]]
<1> DEFINE step(f, n) == IF n = 0 THEN 0 ELSE f[n - 1] + c[n]
           Defined(k, f) == f = [n \in 0 .. k |-> step(f, n)]
           S == {k \in Nat : \E f : Defined(k, f)}
<1>1. 0 \in S
  <2> DEFINE start == [n \in 0 .. 0 |-> 0]
  <2>1. Defined(0, start)
    OBVIOUS
  <2> HIDE DEF Defined, start
  <2> QED
    BY <2>1
<1>2. ASSUME NEW k \in Nat, k \in S PROVE k + 1 \in S
  <2>1. PICK f : Defined(k, f)
    BY <1>2
  <2> DEFINE g == [n \in 0 .. k + 1 |-> step(f, n)]
             h == [n \in 0 .. k + 1 |-> step(g, n)]
  <2>2. \A n \in 0 .. k + 1 : g[n] = step(f, n)
    OBVIOUS
  <2>3. \A n \in 0 .. k : f[n] = step(f, n)
    BY <2>1, Zenon
  <2>4. 0 .. k \subseteq 0 .. k + 1
    OBVIOUS
  <2>5. \A n \in 0 .. k : g[n] = f[n]
    <3> HIDE DEF step, g
    <3> QED
      BY <2>2, <2>3, <2>4
  <2>6. \A n \in 0 .. k + 1 : n # 0 => n - 1 \in 0 .. k
    OBVIOUS
  <2>7. \A n \in 0 .. k + 1 : h[n] = g[n]
    <3> SUFFICES ASSUME NEW n \in 0 .. k + 1 PROVE h[n] = g[n]
      OBVIOUS
    <3>1. h[n] = step(g, n)
      <4> HIDE DEF step
      <4> QED
        OBVIOUS
    <3>2. g[n] = step(f, n)
      BY <2>2
    <3> HIDE DEF g, h
    <3>3. n # 0 => g[n - 1] = f[n - 1]
      BY <2>5, <2>6
    <3> QED
      BY <3>1, <3>2, <3>3
  <2>8. g = h
    <3> HIDE DEF step
    <3>1. g = [n \in 0 .. k + 1 |-> g[n]]
      OBVIOUS
    <3>2. h = [n \in 0 .. k + 1 |-> h[n]]
      <4> HIDE DEF g
      <4> QED
        OBVIOUS
    <3> HIDE DEF g, h
    <3> QED
      BY <2>7, <3>1, <3>2
  <2>9. Defined(k + 1, g)
    BY <2>8, Zenon
  <2> HIDE DEF g, h, Defined
  <2> QED
    BY <2>9
<1> HIDE DEF S
<1>3. \A k \in Nat : k \in S
  BY <1>1, <1>2, SetInduction
<1> QED
  BY <1>3, Zenon DEF S

LEMMA SummingIs ==
    ASSUME NEW c, Len(c) \in Nat
    PROVE  /\ Total(c) = Summing(c, Len(c))[Len(c)]
           /\ Summing(c, Len(c))[0] = 0
           /\ \A n \in 1 .. Len(c) :
                 Summing(c, Len(c))[n] = Summing(c, Len(c))[n - 1] + c[n]
<1> DEFINE l == Len(c)
           F == Summing(c, l)
<1>1. F = [n \in 0 .. l |-> IF n = 0 THEN 0 ELSE F[n - 1] + c[n]]
  BY SummingExists, Zenon DEF Summing
<1>2. Total(c) = F[l]
  BY DEF Total, Summing
<1> HIDE DEF F
<1>3. \A n \in 0 .. l : F[n] = IF n = 0 THEN 0 ELSE F[n - 1] + c[n]
  BY <1>1, Zenon
<1>4. l \in Nat
  OBVIOUS
<1> HIDE DEF l
<1>5. F[0] = 0 /\ \A n \in 1 .. l : F[n] = F[n - 1] + c[n]
  <2>1. 0 \in 0 .. l /\ \A n \in 1 .. l : n \in 0 .. l /\ n # 0
    BY <1>4
  <2> QED
    BY <1>3, <2>1
<1> QED
  BY <1>2, <1>5 DEF F, l

\* Whatever satisfies the equation is the function: its last value is the sum.
LEMMA TotalUnique ==
    ASSUME NEW c, Len(c) \in Nat, NEW g, g[0] = 0,
           \A n \in 1 .. Len(c) : g[n] = g[n - 1] + c[n]
    PROVE  Total(c) = g[Len(c)]
<1> DEFINE F == Summing(c, Len(c))
           S == {k \in Nat : k <= Len(c) => F[k] = g[k]}
<1>1. /\ Total(c) = F[Len(c)] /\ F[0] = 0
      /\ \A n \in 1 .. Len(c) : F[n] = F[n - 1] + c[n]
  BY SummingIs
<1> HIDE DEF F
<1>2. 0 \in S
  BY <1>1
<1>3. ASSUME NEW k \in Nat, k \in S PROVE k + 1 \in S
  <2> SUFFICES ASSUME k + 1 <= Len(c) PROVE F[k + 1] = g[k + 1]
    OBVIOUS
  <2>1. k + 1 \in 1 .. Len(c) /\ (k + 1) - 1 = k
    OBVIOUS
  <2>2. F[k] = g[k]
    BY <1>3
  <2>3. F[k + 1] = F[k] + c[k + 1] /\ g[k + 1] = g[k] + c[k + 1]
    BY <1>1, <2>1
  <2> QED
    BY <2>2, <2>3
<1> HIDE DEF S
<1>4. \A k \in Nat : k \in S
  BY <1>2, <1>3, SetInduction
<1>5. F[Len(c)] = g[Len(c)]
  BY <1>4 DEF S
<1> QED
  BY <1>1, <1>5

LEMMA SummingType ==
    ASSUME NEW A, A = Int \/ A = Nat, NEW c \in Seq(A)
    PROVE  \A n \in 0 .. Len(c) : Summing(c, Len(c))[n] \in A
<1> DEFINE F == Summing(c, Len(c))
           S == {k \in Nat : k <= Len(c) => F[k] \in A}
<1>1. /\ Len(c) \in Nat /\ F[0] = 0
      /\ \A n \in 1 .. Len(c) : F[n] = F[n - 1] + c[n]
  BY LenProperties, SummingIs
<1>2. \A n \in 1 .. Len(c) : c[n] \in A
  BY ElementOfSeq
<1> HIDE DEF F
<1>3. 0 \in S
  BY <1>1
<1>4. ASSUME NEW k \in Nat, k \in S PROVE k + 1 \in S
  <2> SUFFICES ASSUME k + 1 <= Len(c) PROVE F[k + 1] \in A
    OBVIOUS
  <2>1. k + 1 \in 1 .. Len(c) /\ (k + 1) - 1 = k
    BY <1>1
  <2>2. F[k] \in A
    BY <1>1, <1>4
  <2>3. F[k + 1] = F[k] + c[k + 1] /\ c[k + 1] \in A
    BY <1>1, <1>2, <2>1
  <2> QED
    BY <2>2, <2>3
<1> HIDE DEF S
<1>5. \A k \in Nat : k \in S
  BY <1>3, <1>4, SetInduction
<1>6. \A n \in 0 .. Len(c) : F[n] \in A
  BY <1>1, <1>5 DEF S
<1> QED
  BY <1>6 DEF F

LEMMA TotalType ==
    ASSUME NEW A, A = Int \/ A = Nat, NEW c \in Seq(A)
    PROVE  Total(c) \in A
<1>1. Len(c) \in Nat /\ Total(c) = Summing(c, Len(c))[Len(c)]
  BY LenProperties, SummingIs
<1>2. Len(c) \in 0 .. Len(c)
  BY <1>1
<1> QED
  BY <1>1, <1>2, SummingType

LEMMA TotalEmpty == Total(<<>>) = 0
<1> DEFINE c == <<>>
<1>1. Len(c) = 0
  OBVIOUS
<1> HIDE DEF c
<1>2. Total(c) = 0
  BY <1>1, SummingIs
<1> QED
  BY <1>2 DEF c

LEMMA TotalConcat ==
    ASSUME NEW c \in Seq(Int), NEW d \in Seq(Int)
    PROVE  Total(c \o d) = Total(c) + Total(d)
<1> DEFINE e == c \o d
           k == Len(c)
           l == Len(d)
           F == Summing(c, k)
           G == Summing(d, l)
           h == [n \in 0 .. k + l |-> IF n <= k THEN F[n] ELSE F[k] + G[n - k]]
<1>1. /\ k \in Nat /\ l \in Nat /\ e \in Seq(Int) /\ Len(e) = k + l
      /\ \A n \in 1 .. k + l : e[n] = IF n <= k THEN c[n] ELSE d[n - k]
  BY LenProperties, ConcatProperties
<1>2. /\ Total(c) = F[k] /\ F[0] = 0 /\ \A n \in 1 .. k : F[n] = F[n - 1] + c[n]
  BY <1>1, SummingIs
<1>3. /\ Total(d) = G[l] /\ G[0] = 0 /\ \A n \in 1 .. l : G[n] = G[n - 1] + d[n]
  BY <1>1, SummingIs
<1>4. (\A n \in 0 .. k : F[n] \in Int) /\ (\A n \in 0 .. l : G[n] \in Int)
  BY SummingType
<1>5. \A n \in 1 .. l : d[n] \in Int
  BY ElementOfSeq
<1> HIDE DEF e, k, l, F, G
<1>6. \A n \in 0 .. k + l : h[n] = IF n <= k THEN F[n] ELSE F[k] + G[n - k]
  OBVIOUS
<1> HIDE DEF h
<1>7. h[0] = 0
  BY <1>1, <1>2, <1>6
<1>8. \A n \in 1 .. k + l : h[n] = h[n - 1] + e[n]
  <2> SUFFICES ASSUME NEW n \in 1 .. k + l PROVE h[n] = h[n - 1] + e[n]
    OBVIOUS
  <2>1. n \in 0 .. k + l /\ n - 1 \in 0 .. k + l /\ n \in Int
    BY <1>1
  <2>2. CASE n <= k
    <3>1. n \in 1 .. k /\ n - 1 <= k
      BY <2>2, <1>1
    <3> QED
      BY <1>1, <1>2, <1>6, <2>1, <2>2, <3>1
  <2>3. CASE n = k + 1
    <3>1. ~(n <= k) /\ n - 1 = k /\ n - k = 1 /\ 1 \in 1 .. l /\ k \in 0 .. k /\ 1 - 1 = 0
      BY <2>3, <1>1
    <3>2. h[n] = F[k] + G[1] /\ h[n - 1] = F[k] /\ e[n] = d[1]
      BY <1>1, <1>6, <2>1, <3>1
    <3>3. G[1] = 0 + d[1] /\ d[1] \in Int
      BY <1>3, <1>5, <3>1
    <3> QED
      BY <3>2, <3>3
  <2>4. CASE n > k + 1
    <3> DEFINE o == n - k
    <3>1. ~(n <= k) /\ ~(n - 1 <= k) /\ o \in 1 .. l /\ o - 1 \in 0 .. l /\ (n - 1) - k = o - 1
      BY <2>4, <1>1
    <3>2. h[n] = F[k] + G[o] /\ h[n - 1] = F[k] + G[o - 1] /\ e[n] = d[o]
      BY <1>1, <1>6, <2>1, <3>1
    <3>3. G[o] = G[o - 1] + d[o] /\ d[o] \in Int /\ G[o - 1] \in Int
      BY <1>3, <1>4, <1>5, <3>1
    <3>4. F[k] \in Int
      BY <1>1, <1>4
    <3> HIDE DEF o
    <3> QED
      BY <3>2, <3>3, <3>4
  <2> QED
    BY <1>1, <2>2, <2>3, <2>4
<1>9. Total(e) = h[k + l]
    <2>1. Len(e) \in Nat /\ \A n \in 1 .. Len(e) : h[n] = h[n - 1] + e[n]
      BY <1>1, <1>8
    <2>2. Total(e) = h[Len(e)]
      BY <1>7, <2>1, TotalUnique
    <2> QED
      BY <1>1, <2>2
<1>10. h[k + l] = F[k] + G[l]
  <2>1. k + l \in 0 .. k + l /\ (k + l <= k => l = 0) /\ (k + l) - k = l /\ k \in 0 .. k
    BY <1>1
  <2>2. CASE l = 0
    BY <1>1, <1>3, <1>4, <1>6, <2>1, <2>2
  <2>3. CASE l # 0
    BY <1>1, <1>6, <2>1, <2>3
  <2> QED
    BY <2>2, <2>3
<1> QED
  BY <1>2, <1>3, <1>9, <1>10 DEF e

LEMMA TotalOne ==
    ASSUME NEW x \in Int
    PROVE  Total(<<x>>) = x
<1> DEFINE c == <<x>>
<1>1. Len(c) = 1 /\ c[1] = x
  OBVIOUS
<1> HIDE DEF c
<1>2. /\ Total(c) = Summing(c, Len(c))[1] /\ Summing(c, Len(c))[0] = 0
      /\ \A n \in 1 .. 1 : Summing(c, Len(c))[n] = Summing(c, Len(c))[n - 1] + c[n]
    <2>1. Len(c) \in Nat
      BY <1>1
    <2>2. /\ Total(c) = Summing(c, Len(c))[Len(c)] /\ Summing(c, Len(c))[0] = 0
          /\ \A n \in 1 .. Len(c) : Summing(c, Len(c))[n] = Summing(c, Len(c))[n - 1] + c[n]
      BY <2>1, SummingIs
    <2> QED
      BY <1>1, <2>2
<1>3. Total(c) = 0 + c[1]
  <2>1. 1 \in 1 .. 1 /\ 1 - 1 = 0
    OBVIOUS
  <2> QED
    BY <1>2, <2>1
<1> QED
  BY <1>1, <1>3 DEF c

\* A sum of natural numbers is at least any of them, or any two of them.
LEMMA TotalAtLeast ==
    ASSUME NEW c \in Seq(Nat)
    PROVE  /\ \A i \in 1 .. Len(c) : c[i] <= Total(c)
           /\ \A i, j \in 1 .. Len(c) : i < j => c[i] + c[j] <= Total(c)
<1> DEFINE F == Summing(c, Len(c))
           S == {k \in Nat : k <= Len(c) => \A n \in 0 .. k : F[n] <= F[k]}
<1>1. /\ Len(c) \in Nat /\ Total(c) = F[Len(c)]
      /\ \A n \in 1 .. Len(c) : F[n] = F[n - 1] + c[n]
  BY LenProperties, SummingIs
<1>2. \A n \in 0 .. Len(c) : F[n] \in Nat
  BY SummingType
<1>3. \A n \in 1 .. Len(c) : c[n] \in Nat
  BY ElementOfSeq
<1> HIDE DEF F
<1>4. 0 \in S
  <2>1. F[0] <= F[0]
    BY <1>1, <1>2
  <2>2. \A n \in 0 .. 0 : n = 0
    OBVIOUS
  <2> QED
    BY <2>1, <2>2
<1>5. ASSUME NEW k \in Nat, k \in S PROVE k + 1 \in S
  <2> SUFFICES ASSUME k + 1 <= Len(c), NEW n \in 0 .. k + 1 PROVE F[n] <= F[k + 1]
    OBVIOUS
  <2>1. k + 1 \in 1 .. Len(c) /\ (k + 1) - 1 = k /\ k \in 0 .. Len(c)
        /\ k + 1 \in 0 .. Len(c)
    BY <1>1
  <2>2. F[k + 1] = F[k] + c[k + 1] /\ c[k + 1] \in Nat /\ F[k] \in Nat /\ F[k + 1] \in Nat
    BY <1>1, <1>2, <1>3, <2>1
  <2>3. CASE n = k + 1
    BY <2>2, <2>3
  <2>4. CASE n \in 0 .. k
    <3>1. F[n] <= F[k]
      BY <1>1, <1>5, <2>4
    <3>2. F[n] \in Nat
      BY <1>2, <2>1, <2>4
    <3> QED
      BY <2>2, <3>1, <3>2
  <2> QED
    BY <2>3, <2>4
<1> HIDE DEF S
<1>6. \A k \in Nat : k \in S
  BY <1>4, <1>5, SetInduction
<1>7. \A k \in 0 .. Len(c) : \A n \in 0 .. k : F[n] <= F[k]
  BY <1>1, <1>6 DEF S
<1>8. \A i \in 1 .. Len(c) : c[i] <= F[i] /\ F[i] <= Total(c) /\ F[i] \in Nat
  <2> SUFFICES ASSUME NEW i \in 1 .. Len(c)
               PROVE  c[i] <= F[i] /\ F[i] <= Total(c) /\ F[i] \in Nat
    OBVIOUS
  <2>1. i - 1 \in 0 .. Len(c) /\ i \in 0 .. Len(c) /\ Len(c) \in 0 .. Len(c)
    BY <1>1
  <2>2. F[i] = F[i - 1] + c[i] /\ F[i - 1] \in Nat /\ F[i] \in Nat /\ c[i] \in Nat
    BY <1>1, <1>2, <1>3, <2>1
  <2>3. F[i] <= Total(c)
    BY <1>1, <1>7, <2>1
  <2> QED
    BY <2>2, <2>3
<1>9. Total(c) \in Nat
  BY TotalType
<1>10. ASSUME NEW i \in 1 .. Len(c), NEW j \in 1 .. Len(c), i < j
       PROVE  c[i] + c[j] <= Total(c)
  <2>1. j - 1 \in 0 .. Len(c) /\ i \in 0 .. j - 1
    BY <1>1, <1>10
  <2>2. F[i] <= F[j - 1] /\ F[j - 1] \in Nat
    BY <1>2, <1>7, <2>1
  <2>3. F[j] = F[j - 1] + c[j] /\ c[i] \in Nat /\ c[j] \in Nat
    BY <1>1, <1>3
  <2>4. c[i] <= F[i] /\ F[i] \in Nat /\ F[j] <= Total(c)
    BY <1>8
  <2> QED
    BY <1>9, <2>2, <2>3, <2>4, SMTT(30)
<1>11. \A i \in 1 .. Len(c) : c[i] <= Total(c)
  BY <1>3, <1>8, <1>9
<1> QED
  BY <1>10, <1>11

-----------------------------------------------------------------------------
(* What the frames of a stack, the requests of a buffer or a log add up to, *)
(* each element counted as the function m says.                             *)
Measure(m, s) == Total([i \in DOMAIN s |-> m[s[i]]])

LEMMA CountsType ==
    ASSUME NEW A, NEW B, NEW m \in [A -> B], NEW s \in Seq(A)
    PROVE  /\ [i \in DOMAIN s |-> m[s[i]]] \in Seq(B)
           /\ Len([i \in DOMAIN s |-> m[s[i]]]) = Len(s)
           /\ \A i \in 1 .. Len(s) : s[i] \in A /\ [j \in DOMAIN s |-> m[s[j]]][i] = m[s[i]]
<1> DEFINE e(i) == m[s[i]]
<1>1. Len(s) \in Nat /\ DOMAIN s = 1 .. Len(s) /\ \A i \in 1 .. Len(s) : s[i] \in A
  BY LenProperties, ElementOfSeq
<1>2. \A i \in 1 .. Len(s) : e(i) \in B
  BY <1>1
<1>3. \A i \in 1 .. Len(s) : [j \in 1 .. Len(s) |-> e(j)][i] = e(i)
  OBVIOUS
<1> HIDE DEF e
<1>4. [i \in 1 .. Len(s) |-> e(i)] \in Seq(B)
  BY <1>1, <1>2, IsASeq
<1>5. Len([i \in 1 .. Len(s) |-> e(i)]) = Len(s)
  BY <1>1
<1> QED
  BY <1>1, <1>3, <1>4, <1>5 DEF e

LEMMA MeasureType ==
    ASSUME NEW A, NEW B, B = Int \/ B = Nat, NEW m \in [A -> B], NEW s \in Seq(A)
    PROVE  Measure(m, s) \in B
<1> DEFINE c == [i \in DOMAIN s |-> m[s[i]]]
<1>1. c \in Seq(B)
  BY CountsType
<1> HIDE DEF c
<1>2. Total(c) \in B
  BY <1>1, TotalType
<1> QED
  BY <1>2 DEF Measure, c

LEMMA NatMeasure ==
    ASSUME NEW A, NEW m \in [A -> Nat]
    PROVE  m \in [A -> Int]
OBVIOUS

LEMMA MeasureEmpty == ASSUME NEW m PROVE Measure(m, <<>>) = 0
<1>1. [i \in DOMAIN <<>> |-> m[<<>>[i]]] = <<>>
  OBVIOUS
<1> QED
  BY <1>1, TotalEmpty DEF Measure

LEMMA MeasureOne ==
    ASSUME NEW A, NEW m \in [A -> Int], NEW x \in A
    PROVE  Measure(m, <<x>>) = m[x]
<1>1. [i \in DOMAIN <<x>> |-> m[<<x>>[i]]] = <<m[x]>>
  OBVIOUS
<1>2. m[x] \in Int
  OBVIOUS
<1> QED
  BY <1>1, <1>2, TotalOne DEF Measure

LEMMA MeasureConcat ==
    ASSUME NEW A, NEW m \in [A -> Int], NEW s \in Seq(A), NEW t \in Seq(A)
    PROVE  /\ s \o t \in Seq(A)
           /\ Measure(m, s \o t) = Measure(m, s) + Measure(m, t)
<1> DEFINE u == s \o t
           c == [i \in DOMAIN s |-> m[s[i]]]
           d == [i \in DOMAIN t |-> m[t[i]]]
           e == [i \in DOMAIN u |-> m[u[i]]]
<1>1. /\ u \in Seq(A) /\ Len(u) = Len(s) + Len(t) /\ Len(s) \in Nat /\ Len(t) \in Nat
      /\ \A i \in 1 .. Len(s) + Len(t) :
            u[i] = IF i <= Len(s) THEN s[i] ELSE t[i - Len(s)]
  BY LenProperties, ConcatProperties
<1> HIDE DEF u
<1>2. c \in Seq(Int) /\ Len(c) = Len(s) /\ \A i \in 1 .. Len(s) : c[i] = m[s[i]]
  BY CountsType
<1>3. d \in Seq(Int) /\ Len(d) = Len(t) /\ \A i \in 1 .. Len(t) : d[i] = m[t[i]]
  BY CountsType
<1>4. e \in Seq(Int) /\ Len(e) = Len(u) /\ \A i \in 1 .. Len(u) : e[i] = m[u[i]]
  BY <1>1, CountsType
<1> HIDE DEF c, d, e
<1>5. /\ c \o d \in Seq(Int) /\ Len(c \o d) = Len(c) + Len(d)
      /\ \A i \in 1 .. Len(c) + Len(d) :
            (c \o d)[i] = IF i <= Len(c) THEN c[i] ELSE d[i - Len(c)]
  BY <1>2, <1>3, ConcatProperties, ZenonT(30)
<1>6. \A i \in 1 .. Len(e) : e[i] = (c \o d)[i]
  <2> SUFFICES ASSUME NEW i \in 1 .. Len(s) + Len(t) PROVE e[i] = (c \o d)[i]
    BY <1>1, <1>4
  <2>1. CASE i <= Len(s)
    <3>1. i \in 1 .. Len(s)
      BY <1>1, <2>1
    <3> QED
      BY <1>1, <1>2, <1>3, <1>4, <1>5, <2>1, <3>1, SMTT(30)
  <2>2. CASE ~(i <= Len(s))
    <3>1. i - Len(s) \in 1 .. Len(t)
      BY <1>1, <2>2
    <3> QED
      <4> DEFINE k == i - Len(s)
      <4>2. e[i] = m[u[i]] /\ u[i] = t[k]
        BY <1>1, <1>4, <2>2
      <4>3. i \in 1 .. Len(c) + Len(d) /\ ~(i <= Len(c)) /\ i - Len(c) = k
        BY <1>2, <1>3, <2>2
      <4>4. (c \o d)[i] = d[k]
        BY <1>5, <4>3
      <4> HIDE DEF k
      <4> QED
        BY <1>3, <3>1, <4>2, <4>4 DEF k
  <2> QED
    BY <2>1, <2>2
<1>7. e = c \o d
  BY <1>1, <1>2, <1>3, <1>4, <1>5, <1>6, SeqEqual
<1>8. Total(e) = Total(c) + Total(d)
  BY <1>2, <1>3, <1>7, TotalConcat
<1> QED
  BY <1>1, <1>8 DEF Measure, c, d, e, u

LEMMA MeasureAppend ==
    ASSUME NEW A, NEW m \in [A -> Int], NEW s \in Seq(A), NEW x \in A
    PROVE  /\ Append(s, x) \in Seq(A)
           /\ Measure(m, Append(s, x)) = Measure(m, s) + m[x]
<1>1. Append(s, x) = s \o <<x>> /\ <<x>> \in Seq(A)
  OBVIOUS
<1> QED
    <2>1. Measure(m, s \o <<x>>) = Measure(m, s) + Measure(m, <<x>>)
          /\ s \o <<x>> \in Seq(A)
      BY <1>1, MeasureConcat
    <2>2. Measure(m, <<x>>) = m[x]
      BY MeasureOne
    <2> QED
      BY <1>1, <2>1, <2>2

LEMMA MeasureHead ==
    ASSUME NEW A, NEW m \in [A -> Int], NEW s \in Seq(A), s # <<>>
    PROVE  /\ Head(s) \in A /\ Tail(s) \in Seq(A)
           /\ Measure(m, s) = m[Head(s)] + Measure(m, Tail(s))
<1>1. Head(s) \in A /\ Tail(s) \in Seq(A) /\ <<Head(s)>> \in Seq(A)
  BY HeadTailProperties
<1>2. s = <<Head(s)>> \o Tail(s)
  <2>1. /\ Len(s) \in Nat \ {0} /\ Len(Tail(s)) = Len(s) - 1 /\ s[1] = Head(s)
        /\ \A i \in 1 .. Len(s) - 1 : Tail(s)[i] = s[i + 1]
    BY LenProperties, EmptySeq, HeadTailProperties
  <2> DEFINE h == <<Head(s)>>
             u == h \o Tail(s)
  <2>2. Len(h) = 1 /\ h[1] = s[1]
    BY <2>1
  <2> HIDE DEF h
  <2>3. /\ u \in Seq(A) /\ Len(u) = Len(s)
        /\ \A i \in 1 .. Len(s) : u[i] = IF i <= 1 THEN h[i] ELSE Tail(s)[i - 1]
    BY <1>1, <2>1, <2>2, ConcatProperties DEF h
  <2> HIDE DEF u
  <2>4. \A i \in 1 .. Len(s) : s[i] = u[i]
    <3> SUFFICES ASSUME NEW i \in 1 .. Len(s) PROVE s[i] = u[i]
      OBVIOUS
    <3>1. CASE i = 1
      BY <2>1, <2>2, <2>3, <3>1
    <3>2. CASE i # 1
      <4>1. i - 1 \in 1 .. Len(s) - 1 /\ (i - 1) + 1 = i /\ ~(i <= 1)
        BY <2>1, <3>2
      <4>2. Tail(s)[i - 1] = s[i]
        BY <2>1, <4>1
      <4> QED
        BY <2>3, <4>1, <4>2
    <3> QED
      BY <3>1, <3>2
  <2>5. s = u
    BY <2>3, <2>4, SeqEqual
  <2> QED
    BY <2>5 DEF u, h
<1>3. Measure(m, <<Head(s)>> \o Tail(s)) = Measure(m, <<Head(s)>>) + Measure(m, Tail(s))
  BY <1>1, MeasureConcat
<1>4. Measure(m, <<Head(s)>>) = m[Head(s)]
  BY <1>1, MeasureOne
<1> QED
  BY <1>1, <1>2, <1>3, <1>4

LEMMA MeasureAtLeast ==
    ASSUME NEW A, NEW m \in [A -> Nat], NEW s \in Seq(A)
    PROVE  /\ \A i \in 1 .. Len(s) : m[s[i]] <= Measure(m, s)
           /\ \A i, j \in 1 .. Len(s) : i < j => m[s[i]] + m[s[j]] <= Measure(m, s)
<1> DEFINE c == [i \in DOMAIN s |-> m[s[i]]]
<1>1. c \in Seq(Nat) /\ Len(c) = Len(s) /\ \A i \in 1 .. Len(s) : c[i] = m[s[i]]
  BY CountsType, SMTT(30)
<1>2. Measure(m, s) = Total(c)
  BY DEF Measure
<1> HIDE DEF c
<1>3. /\ \A i \in 1 .. Len(c) : c[i] <= Total(c)
      /\ \A i, j \in 1 .. Len(c) : i < j => c[i] + c[j] <= Total(c)
  BY <1>1, TotalAtLeast
<1> QED
  BY <1>1, <1>2, <1>3, SMTT(30)

-----------------------------------------------------------------------------
(* Frames that owe callbacks carry the requests; the other ones are plain. *)

Owners == {"defer", "nextTick", "failed", "answer", "rejectLater"}

\* Only a call of _writev carries several requests.
Shape(f) ==
    /\ f.op \notin Owners => f.batch = NoBatch
    /\ f.op \in {"defer", "nextTick", "failed"} /\ ~f.batch.vec => Len(f.batch.reqs) = 1
    /\ f.op = "rejectLater" => ~f.batch.vec

Shaped(s) == s \in Seq(Frame) /\ \A i \in DOMAIN s : Shape(s[i])

Plain(f) == f \in Frame /\ f.op \notin Owners /\ f.batch = NoBatch

\* A count of frames in which plain ones count for nothing.
Weight(m) == m \in [Frame -> Int] /\ \A f \in Frame : Plain(f) => m[f] = 0

LEMMA PlainFrames ==
    /\ Plain(UserFrame)
    /\ \A op \in FrameOps \ Owners : Plain(FrameOf(op))
    /\ \A n \in Nat : Plain(LoopFrame(n))
    /\ \A x \in BOOLEAN : Plain(FrameFor("completed", NoBatch, x))
<1>1. ASSUME NEW op \in FrameOps \ Owners PROVE Plain(FrameOf(op))
  BY NoBatchType DEF FrameOf, Frame, Plain
<1>2. "user" \in FrameOps \ Owners /\ "completed" \in FrameOps \ Owners
  BY DEF FrameOps, Owners
<1>3. Plain(UserFrame)
  BY <1>1, <1>2 DEF UserFrame
<1>4. ASSUME NEW n \in Nat PROVE Plain(LoopFrame(n))
  BY NoBatchType DEF LoopFrame, Frame, FrameOps, Plain, Owners
<1>5. ASSUME NEW x \in BOOLEAN PROVE Plain(FrameFor("completed", NoBatch, x))
  BY <1>2, NoBatchType DEF FrameFor, Frame, Plain
<1> QED
  BY <1>1, <1>3, <1>4, <1>5

LEMMA PushWeight ==
    ASSUME NEW m, Weight(m), NEW s, Shaped(s), NEW f \in Frame, Shape(f)
    PROVE  /\ Shaped(Push(f, s))
           /\ Measure(m, Push(f, s)) = m[f] + Measure(m, s)
<1>1. s \in Seq(Frame) /\ m \in [Frame -> Int] /\ <<f>> \in Seq(Frame)
  BY DEF Shaped, Weight
<1>2. /\ Push(f, s) \in Seq(Frame)
      /\ DOMAIN Push(f, s) = 1 .. Len(s) + 1 /\ Push(f, s)[1] = f
      /\ \A i \in 2 .. Len(s) + 1 : Push(f, s)[i] = s[i - 1] /\ i - 1 \in DOMAIN s
  BY <1>1, PushElements
<1>3. Shaped(Push(f, s))
  <2> SUFFICES ASSUME NEW i \in DOMAIN Push(f, s) PROVE Shape(Push(f, s)[i])
    BY <1>2 DEF Shaped
  <2>1. Len(s) \in Nat
    BY <1>1, LenProperties
  <2>2. CASE i = 1
    BY <1>2, <2>2
  <2>3. CASE i # 1
    <3>1. i \in 2 .. Len(s) + 1
      BY <1>2, <2>1, <2>3
    <3> QED
      BY <1>2, <3>1 DEF Shaped
  <2> QED
    BY <2>2, <2>3
<1>4. Measure(m, <<f>> \o s) = Measure(m, <<f>>) + Measure(m, s)
  BY <1>1, MeasureConcat
<1>5. Measure(m, <<f>>) = m[f]
  BY <1>1, MeasureOne
<1> QED
  BY <1>3, <1>4, <1>5 DEF Push

LEMMA PushPlainWeight ==
    ASSUME NEW m, Weight(m), NEW s, Shaped(s), NEW f, Plain(f)
    PROVE  /\ Shaped(Push(f, s))
           /\ Measure(m, Push(f, s)) = Measure(m, s)
<1>1. f \in Frame /\ Shape(f) /\ m[f] = 0
  BY DEF Plain, Weight, Shape, Owners
<1>2. Measure(m, s) \in Int
  BY MeasureType DEF Weight, Shaped
<1> QED
  BY <1>1, <1>2, PushWeight

LEMMA PopWeight ==
    ASSUME NEW m, Weight(m), NEW s, Shaped(s), s # <<>>
    PROVE  /\ Shaped(Tail(s)) /\ Head(s) \in Frame /\ Shape(Head(s))
           /\ Measure(m, s) = m[Head(s)] + Measure(m, Tail(s))
           /\ Head(s).op \notin Owners => Measure(m, Tail(s)) = Measure(m, s)
<1>1. s \in Seq(Frame) /\ m \in [Frame -> Int]
  BY DEF Shaped, Weight
<1>2. /\ Tail(s) \in Seq(Frame) /\ Head(s) \in Frame
      /\ Measure(m, s) = m[Head(s)] + Measure(m, Tail(s))
  BY <1>1, MeasureHead
<1>3. /\ Len(s) \in Nat \ {0} /\ DOMAIN s = 1 .. Len(s) /\ Head(s) = s[1]
      /\ DOMAIN Tail(s) = 1 .. Len(s) - 1
      /\ \A i \in 1 .. Len(s) - 1 : Tail(s)[i] = s[i + 1]
  BY <1>1, LenProperties, EmptySeq, HeadTailProperties
<1>4. Shape(Head(s)) /\ \A i \in DOMAIN Tail(s) : Shape(Tail(s)[i])
  <2>1. 1 \in DOMAIN s /\ \A i \in DOMAIN Tail(s) : i + 1 \in DOMAIN s
    BY <1>3
  <2> QED
    BY <1>3, <2>1 DEF Shaped
<1>5. ASSUME Head(s).op \notin Owners
      PROVE  Measure(m, Tail(s)) = Measure(m, s)
  <2>1. Plain(Head(s))
    BY <1>2, <1>4, <1>5 DEF Plain, Shape
  <2>2. m[Head(s)] = 0
    BY <1>2, <2>1 DEF Weight
  <2>3. Measure(m, Tail(s)) \in Int
    BY <1>1, <1>2, MeasureType
  <2> QED
    BY <1>2, <2>2, <2>3
<1> QED
  BY <1>2, <1>4, <1>5 DEF Shaped

LEMMA AppendWeight ==
    ASSUME NEW m, Weight(m), NEW s, Shaped(s), NEW f \in Frame, Shape(f)
    PROVE  /\ Shaped(Append(s, f))
           /\ Measure(m, Append(s, f)) = Measure(m, s) + m[f]
<1>1. s \in Seq(Frame) /\ m \in [Frame -> Int]
  BY DEF Shaped, Weight
<1>2. Append(s, f) \in Seq(Frame) /\ Measure(m, Append(s, f)) = Measure(m, s) + m[f]
  BY <1>1, MeasureAppend
<1>3. \A i \in DOMAIN Append(s, f) : Shape(Append(s, f)[i])
  BY <1>1, AppendProperties, LenProperties DEF Shaped
<1> QED
  BY <1>2, <1>3 DEF Shaped

LEMMA OnWriteWeight ==
    ASSUME NEW m, Weight(m), NEW rest, Shaped(rest), NEW batch, NEW len,
           OnWrite(batch, len, rest)
    PROVE  Shaped(stack') /\ Measure(m, stack') = Measure(m, rest)
<1>1. CASE stack' = rest
  BY <1>1
<1>2. CASE \E a \in SinkAnswers \cap {"now", "failNow"} :
             stack' = Push(FrameFor("completed", NoBatch, a = "now"),
                           Push(FrameOf("syncOff"), rest))
  <2>1. PICK a \in SinkAnswers \cap {"now", "failNow"} :
             stack' = Push(FrameFor("completed", NoBatch, a = "now"),
                           Push(FrameOf("syncOff"), rest))
    BY <1>2
  <2> DEFINE f == FrameFor("completed", NoBatch, a = "now")
             g == FrameOf("syncOff")
  <2>2. Plain(f) /\ Plain(g)
    <3>1. "syncOff" \in FrameOps \ Owners /\ (a = "now") \in BOOLEAN
      BY DEF FrameOps, Owners
    <3> QED
      BY <3>1, PlainFrames
  <2> HIDE DEF f, g
  <2>3. Shaped(Push(g, rest)) /\ Measure(m, Push(g, rest)) = Measure(m, rest)
    BY <2>2, PushPlainWeight
  <2>4. /\ Shaped(Push(f, Push(g, rest)))
        /\ Measure(m, Push(f, Push(g, rest))) = Measure(m, Push(g, rest))
    BY <2>2, <2>3, PushPlainWeight
  <2> QED
    BY <2>1, <2>3, <2>4 DEF f, g
<1> QED
  BY <1>1, <1>2 DEF OnWrite

\* Pushing one plain frame, or not.
LEMMA PushIfWeight ==
    ASSUME NEW m, Weight(m), NEW s, Shaped(s), NEW f, Plain(f), NEW x
    PROVE  /\ Shaped(PushIf(x, f, s))
           /\ Measure(m, PushIf(x, f, s)) = Measure(m, s)
BY PushPlainWeight DEF PushIf

\* The steps that move no request from one frame to another.
PlainStep ==
    \/ SyncOff \/ EmitError \/ FlushBuffer \/ FlushLoop \/ FlushEnd \/ MaybeFinish
    \/ FinishCheck \/ EndWritable \/ Ended \/ Return \/ SinkCompletes
    \/ \E len \in ChunkLengths : Write(len)
    \/ Cork \/ Uncork \/ Finish

LEMMA PlainRest ==
    ASSUME NEW m, Weight(m), Shaped(stack), NEW op, op \notin Owners, Running(op)
    PROVE  Shaped(Rest) /\ Measure(m, Rest) = Measure(m, stack)
BY PopWeight DEF Running, Rest

LEMMA PlainWeight ==
    ASSUME IInv, NEW m, Weight(m), Shaped(stack), PlainStep
    PROVE  /\ Shaped(stack') /\ immediates' = immediates
           /\ Measure(m, stack') = Measure(m, stack)
<1>1. /\ "flush" \in FrameOps \ Owners /\ "flushEnd" \in FrameOps \ Owners
      /\ "finishCheck" \in FrameOps \ Owners /\ "maybeFinish" \in FrameOps \ Owners
      /\ "ended" \in FrameOps \ Owners /\ "endWritable" \in FrameOps \ Owners
      /\ \A op \in {"syncOff", "emitError", "flush", "loop", "flushEnd", "maybeFinish",
                    "finishCheck", "endWritable", "ended", "user"} : op \notin Owners
  BY DEF FrameOps, Owners
<1>2. immediates' = immediates
  BY DEF PlainStep, SyncOff, EmitError, FlushBuffer, FlushLoop, FlushEnd, MaybeFinish,
         FinishCheck, EndWritable, Ended, Return, SinkCompletes, Write, Cork, Uncork, Finish
<1>3. CASE SyncOff \/ FlushEnd \/ Return
  BY <1>1, <1>2, <1>3, PlainRest DEF SyncOff, FlushEnd, Return
<1>4. CASE EmitError
  <2>1. Shaped(Rest) /\ Measure(m, Rest) = Measure(m, stack)
    BY <1>1, <1>4, PlainRest DEF EmitError
  <2>2. stack' = Push(UserFrame, Rest)
    BY <1>4 DEF EmitError
  <2> QED
    BY <1>2, <2>1, <2>2, PushPlainWeight, PlainFrames
<1>5. CASE Ended
  <2>1. Shaped(Rest) /\ Measure(m, Rest) = Measure(m, stack)
    BY <1>1, <1>5, PlainRest DEF Ended
  <2>2. stack' = Push(UserFrame, Rest)
    BY <1>5 DEF Ended
  <2> QED
    BY <1>2, <2>1, <2>2, PushPlainWeight, PlainFrames
<1>6. CASE FinishCheck
  <2>1. Shaped(Rest) /\ Measure(m, Rest) = Measure(m, stack)
    BY <1>1, <1>6, PlainRest DEF FinishCheck
  <2>2. stack' = Push(UserFrame, Rest) \/ stack' = Rest
    BY <1>6 DEF FinishCheck
  <2> QED
    BY <1>2, <2>1, <2>2, PushPlainWeight, PlainFrames
<1>7. CASE MaybeFinish
  <2> DEFINE f == FrameOf("finishCheck")
  <2>1. Shaped(Rest) /\ Measure(m, Rest) = Measure(m, stack)
    BY <1>1, <1>7, PlainRest DEF MaybeFinish
  <2>2. Plain(f)
    BY <1>1, PlainFrames
  <2>3. stack' = PushIf(~prefinished, UserFrame, Push(f, Rest)) \/ stack' = Rest
    BY <1>7 DEF MaybeFinish
  <2> HIDE DEF f
  <2>4. Shaped(Push(f, Rest)) /\ Measure(m, Push(f, Rest)) = Measure(m, Rest)
    BY <2>1, <2>2, PushPlainWeight
  <2>5. /\ Shaped(PushIf(~prefinished, UserFrame, Push(f, Rest)))
        /\ Measure(m, PushIf(~prefinished, UserFrame, Push(f, Rest)))
              = Measure(m, Push(f, Rest))
    BY <2>4, PushIfWeight, PlainFrames
  <2> QED
    BY <1>2, <2>1, <2>3, <2>4, <2>5
<1>8. CASE EndWritable
  <2> DEFINE f == FrameOf("maybeFinish")
             g == FrameOf("ended")
  <2>1. Shaped(Rest) /\ Measure(m, Rest) = Measure(m, stack)
    BY <1>1, <1>8, PlainRest DEF EndWritable
  <2>2. Plain(f) /\ Plain(g)
    BY <1>1, PlainFrames
  <2>3. stack' = Push(f, Push(g, Rest)) \/ stack' = Rest
    BY <1>8 DEF EndWritable
  <2> HIDE DEF f, g
  <2>4. Shaped(Push(g, Rest)) /\ Measure(m, Push(g, Rest)) = Measure(m, Rest)
    BY <2>1, <2>2, PushPlainWeight
  <2>5. /\ Shaped(Push(f, Push(g, Rest)))
        /\ Measure(m, Push(f, Push(g, Rest))) = Measure(m, Push(g, Rest))
    BY <2>2, <2>4, PushPlainWeight
  <2> QED
    BY <1>2, <2>1, <2>3, <2>4, <2>5
<1>9. CASE SinkCompletes
  <2>1. PICK a \in SinkAnswers : stack' = Push(FrameFor("completed", NoBatch, a = "later"), stack)
    BY <1>9 DEF SinkCompletes
  <2> DEFINE f == FrameFor("completed", NoBatch, a = "later")
  <2>2. Plain(f)
    <3>1. (a = "later") \in BOOLEAN
      OBVIOUS
    <3> QED
      BY <3>1, PlainFrames
  <2> HIDE DEF f
  <2>3. Shaped(Push(f, stack)) /\ Measure(m, Push(f, stack)) = Measure(m, stack)
    BY <2>2, PushPlainWeight
  <2> QED
    BY <1>2, <2>1, <2>3 DEF f
<1>10. CASE FlushBuffer
  <2> DEFINE f == FrameOf("flushEnd")
             g == LoopFrame(Len(buffer))
             b == [reqs |-> buffer, vec |-> TRUE]
  <2>1. Shaped(Rest) /\ Measure(m, Rest) = Measure(m, stack)
    BY <1>1, <1>10, PlainRest DEF FlushBuffer
  <2>2. Plain(f) /\ Plain(g)
    <3>1. Len(buffer) \in Nat
      BY LenProperties DEF IInv, TypeOK
    <3> QED
      BY <1>1, <3>1, PlainFrames
  <2>3. \/ stack' = Rest
        \/ OnWrite(b, length, Push(f, Rest))
        \/ stack' = Push(g, Push(f, Rest))
    BY <1>10 DEF FlushBuffer
  <2> HIDE DEF f, g, b
  <2>4. Shaped(Push(f, Rest)) /\ Measure(m, Push(f, Rest)) = Measure(m, Rest)
    BY <2>1, <2>2, PushPlainWeight
  <2>5. /\ Shaped(Push(g, Push(f, Rest)))
        /\ Measure(m, Push(g, Push(f, Rest))) = Measure(m, Push(f, Rest))
    BY <2>2, <2>4, PushPlainWeight
  <2>6. ASSUME OnWrite(b, length, Push(f, Rest))
        PROVE  Shaped(stack') /\ Measure(m, stack') = Measure(m, Push(f, Rest))
    BY <2>4, <2>6, OnWriteWeight
  <2> QED
    BY <1>2, <2>1, <2>3, <2>4, <2>5, <2>6
<1>11. CASE FlushLoop
  <2> DEFINE n == Head(stack).left
             f == LoopFrame(n - 1)
             b == One(Head(buffer))
             l == Head(buffer).len
  <2>1. Shaped(Rest) /\ Measure(m, Rest) = Measure(m, stack)
    BY <1>1, <1>11, PlainRest DEF FlushLoop
  <2>2. CASE stack' = Rest
    BY <1>2, <2>1, <2>2
  <2>3. CASE n > 0 /\ OnWrite(b, l, Push(f, Rest))
    <3>1. Plain(f)
      <4>1. n \in Nat
        BY <1>11, RestGood DEF FlushLoop, Frame
      <4> HIDE DEF n
      <4>2. n - 1 \in Nat
        BY <2>3, <4>1
      <4> QED
        BY <4>2, PlainFrames
    <3> HIDE DEF f, b, l
    <3>2. Shaped(Push(f, Rest)) /\ Measure(m, Push(f, Rest)) = Measure(m, Rest)
      BY <2>1, <3>1, PushPlainWeight
    <3>3. Shaped(stack') /\ Measure(m, stack') = Measure(m, Push(f, Rest))
      BY <2>3, <3>2, OnWriteWeight
    <3> QED
      BY <1>2, <2>1, <3>2, <3>3
  <2> QED
    BY <1>11, <2>2, <2>3 DEF FlushLoop
<1>12. CASE \E len \in ChunkLengths : Write(len)
  <2>1. PICK len \in ChunkLengths : Write(len)
    BY <1>12
  <2> DEFINE b == One(NewRequest(len))
  <2>2. stack' = stack \/ OnWrite(b, len, stack)
    BY <2>1 DEF Write
  <2> HIDE DEF b
  <2> QED
    BY <1>2, <2>2, OnWriteWeight
<1>13. CASE Cork
  BY <1>2, <1>13 DEF Cork
<1>14. CASE Uncork
  <2> DEFINE f == FrameOf("flush")
  <2>1. Plain(f)
    BY <1>1, PlainFrames
  <2>2. stack' = PushIf(FlushOnUncork, f, stack)
    BY <1>14 DEF Uncork
  <2> HIDE DEF f
  <2> QED
    BY <1>2, <2>1, <2>2, PushIfWeight
<1>15. CASE Finish
  <2> DEFINE f == FrameOf("flush")
             g == FrameOf("endWritable")
             x == writableCorked # 0 /\ FlushOnUncork
  <2>1. Plain(f) /\ Plain(g)
    BY <1>1, PlainFrames
  <2>2. stack' = PushIf(x, f, Push(g, stack))
    BY <1>15 DEF Finish
  <2> HIDE DEF f, g, x
  <2>3. Shaped(Push(g, stack)) /\ Measure(m, Push(g, stack)) = Measure(m, stack)
    BY <2>1, PushPlainWeight
  <2>4. /\ Shaped(PushIf(x, f, Push(g, stack)))
        /\ Measure(m, PushIf(x, f, Push(g, stack))) = Measure(m, Push(g, stack))
    BY <2>1, <2>3, PushIfWeight
  <2> QED
    BY <1>2, <2>2, <2>3, <2>4
<1> QED
  BY <1>3, <1>4, <1>5, <1>6, <1>7, <1>8, <1>9, <1>10, <1>11, <1>12, <1>13, <1>14, <1>15
     DEF PlainStep

(* The steps that move requests: the callbacks that a frame owes pass to   *)
(* another frame, of this turn or of a later one.                          *)
LEMMA HeadType ==
    ASSUME IInv, NEW op \in Owners, Running(op)
    PROVE  /\ stack # <<>> /\ Head(stack) \in Frame /\ Head(stack).op = op
           /\ Head(stack).batch \in Batch /\ Head(stack).batch.reqs \in Seq(Request)
           /\ Head(stack).flag \in BOOLEAN /\ Head(stack).batch.vec \in BOOLEAN
           /\ op # "rejectLater" => Head(stack).batch.reqs # <<>>
<1>1. /\ stack # <<>> /\ Head(stack) \in Frame /\ Head(stack).op = op
      /\ FrameOK(Head(stack), isBufferFlushing, Len(buffer))
  BY RestGood DEF Running
<1>2. Head(stack).batch.reqs # <<>>
  BY <1>1 DEF FrameOK, Owners
<1> QED
  BY <1>1, <1>2 DEF Frame, Batch

LEMMA RenamedFrame ==
    ASSUME NEW f \in Frame, NEW op \in FrameOps
    PROVE  /\ [f EXCEPT !.op = op] \in Frame
           /\ [f EXCEPT !.op = op].op = op
           /\ [f EXCEPT !.op = op].batch = f.batch
BY DEF Frame

LEMMA DeferWeight ==
    ASSUME IInv, NEW m, Weight(m), Shaped(stack), Shaped(immediates), Defer
    PROVE  \E g \in Frame :
              /\ g.op = "nextTick" /\ g.batch = Head(stack).batch
              /\ Shaped(stack') /\ Shaped(immediates')
              /\ Measure(m, stack) = m[Head(stack)] + Measure(m, stack')
              /\ Measure(m, immediates') = Measure(m, immediates) + m[g]
<1> DEFINE g == [Head(stack) EXCEPT !.op = "nextTick"]
<1>1. /\ stack # <<>> /\ Head(stack) \in Frame /\ Head(stack).op = "defer"
      /\ stack' = Tail(stack) /\ immediates' = Append(immediates, g)
  BY HeadType DEF Defer, Owners, Rest, Running
<1>2. g \in Frame /\ g.op = "nextTick" /\ g.batch = Head(stack).batch
  <2>1. "nextTick" \in FrameOps
    BY DEF FrameOps
  <2> QED
    BY <1>1, <2>1, RenamedFrame
<1> HIDE DEF g
<1>3. /\ Shaped(Tail(stack)) /\ Shape(Head(stack))
      /\ Measure(m, stack) = m[Head(stack)] + Measure(m, Tail(stack))
  BY <1>1, PopWeight
<1>4. Shape(g)
  BY <1>1, <1>2, <1>3 DEF Shape, Owners
<1>5. /\ Shaped(Append(immediates, g))
      /\ Measure(m, Append(immediates, g)) = Measure(m, immediates) + m[g]
  BY <1>2, <1>4, AppendWeight
<1> QED
  BY <1>1, <1>2, <1>3, <1>5

LEMMA RejectLaterWeight ==
    ASSUME IInv, NEW m, Weight(m), Shaped(stack), Shaped(immediates), RejectLater
    PROVE  \E g \in Frame :
              /\ g.op = "answer" /\ g.batch = Head(stack).batch /\ ~g.batch.vec
              /\ Shaped(stack') /\ Shaped(immediates')
              /\ Measure(m, stack) = m[Head(stack)] + Measure(m, stack')
              /\ Measure(m, immediates') = Measure(m, immediates) + m[g]
<1> DEFINE g == [Head(stack) EXCEPT !.op = "answer"]
<1>1. /\ stack # <<>> /\ Head(stack) \in Frame /\ Head(stack).op = "rejectLater"
      /\ stack' = Tail(stack) /\ immediates' = Append(immediates, g)
  BY HeadType DEF RejectLater, Owners, Rest, Running
<1>2. g \in Frame /\ g.op = "answer" /\ g.batch = Head(stack).batch
  <2>1. "answer" \in FrameOps
    BY DEF FrameOps
  <2> QED
    BY <1>1, <2>1, RenamedFrame
<1> HIDE DEF g
<1>3. /\ Shaped(Tail(stack)) /\ Shape(Head(stack))
      /\ Measure(m, stack) = m[Head(stack)] + Measure(m, Tail(stack))
  BY <1>1, PopWeight
<1>4. Shape(g) /\ ~g.batch.vec
  BY <1>1, <1>2, <1>3 DEF Shape, Owners
<1>5. /\ Shaped(Append(immediates, g))
      /\ Measure(m, Append(immediates, g)) = Measure(m, immediates) + m[g]
  BY <1>2, <1>4, AppendWeight
<1> QED
  BY <1>1, <1>2, <1>3, <1>4, <1>5

\* Failed and _onWriteCompletedNextTick hand their batch to its callbacks.
LEMMA ToAnswerWeight ==
    ASSUME IInv, NEW m, Weight(m), Shaped(stack), Failed \/ OnWriteCompletedNextTick
    PROVE  \E g \in Frame :
              /\ g.op = "answer" /\ g.batch = Head(stack).batch
              /\ Shaped(stack') /\ immediates' = immediates
              /\ Measure(m, stack') + m[Head(stack)] = Measure(m, stack) + m[g]
<1> DEFINE g == FrameFor("answer", Head(stack).batch, FALSE)
<1>1. /\ stack # <<>> /\ Head(stack) \in Frame /\ Head(stack).batch \in Batch
      /\ Head(stack).op \in {"failed", "nextTick"} /\ immediates' = immediates
  BY HeadType DEF Failed, OnWriteCompletedNextTick, Owners
<1>2. g \in Frame /\ g.op = "answer" /\ g.batch = Head(stack).batch
  BY <1>1, AnswerFrameType
<1>3. /\ Shaped(Rest) /\ Shape(Head(stack)) /\ m[Head(stack)] \in Int
      /\ Measure(m, stack) = m[Head(stack)] + Measure(m, Rest)
  BY <1>1, PopWeight DEF Rest, Weight
<1> DEFINE h == FrameOf("maybeFinish")
           x == DrainDue(Head(stack).flag)
<1>4. \/ stack' = Push(g, Rest)
      \/ stack' = PushIf(x, UserFrame, Push(g, Push(h, Rest)))
  BY DEF Failed, OnWriteCompletedNextTick, AfterDrain
<1>5. Plain(h)
  <2>1. "maybeFinish" \in FrameOps \ Owners
    BY DEF FrameOps, Owners
  <2> QED
    BY <2>1, PlainFrames
<1> HIDE DEF g, h, x
<1>6. Shape(g) /\ m[g] \in Int
  BY <1>2 DEF Shape, Owners, Weight
<1>7. Measure(m, Rest) \in Int
  BY <1>3, MeasureType DEF Weight, Shaped
<1>8. CASE stack' = Push(g, Rest)
  <2>1. Shaped(Push(g, Rest)) /\ Measure(m, Push(g, Rest)) = m[g] + Measure(m, Rest)
    BY <1>2, <1>3, <1>6, PushWeight
  <2>2. Measure(m, stack') + m[Head(stack)] = Measure(m, stack) + m[g]
    BY <1>3, <1>6, <1>7, <1>8, <2>1
  <2> QED
    BY <1>1, <1>2, <1>8, <2>1, <2>2
<1>9. CASE stack' = PushIf(x, UserFrame, Push(g, Push(h, Rest)))
  <2>1. Shaped(Push(h, Rest)) /\ Measure(m, Push(h, Rest)) = Measure(m, Rest)
    BY <1>3, <1>5, PushPlainWeight
  <2>2. /\ Shaped(Push(g, Push(h, Rest)))
        /\ Measure(m, Push(g, Push(h, Rest))) = m[g] + Measure(m, Push(h, Rest))
    BY <1>2, <1>6, <2>1, PushWeight
  <2>3. /\ Shaped(PushIf(x, UserFrame, Push(g, Push(h, Rest))))
        /\ Measure(m, PushIf(x, UserFrame, Push(g, Push(h, Rest))))
              = Measure(m, Push(g, Push(h, Rest)))
    BY <2>2, PushIfWeight, PlainFrames
  <2>4. Measure(m, stack') + m[Head(stack)] = Measure(m, stack) + m[g]
    BY <1>3, <1>6, <1>7, <1>9, <2>1, <2>2, <2>3
  <2> QED
    BY <1>1, <1>2, <1>9, <2>3, <2>4
<1> QED
  BY <1>4, <1>8, <1>9

\* One callback is called; the others of the batch are still to come.
LEMMA AnswerWeight ==
    ASSUME IInv, NEW m, Weight(m), Shaped(stack), Answer
    PROVE  /\ Shaped(stack') /\ immediates' = immediates
           /\ \/ /\ Len(Head(stack).batch.reqs) = 1
                 /\ Measure(m, stack') + m[Head(stack)] = Measure(m, stack)
              \/ /\ Len(Head(stack).batch.reqs) > 1
                 /\ \E g \in Frame :
                       /\ g.op = "answer" /\ g.batch.vec = Head(stack).batch.vec
                       /\ g.batch.reqs = Tail(Head(stack).batch.reqs)
                       /\ Measure(m, stack') + m[Head(stack)] = Measure(m, stack) + m[g]
<1> DEFINE b == Head(stack).batch
           c == [b EXCEPT !.reqs = Tail(@)]
           g == FrameFor("answer", c, FALSE)
<1>1. /\ stack # <<>> /\ Head(stack) \in Frame /\ b \in Batch
      /\ b.reqs # <<>> /\ b.reqs \in Seq(Request) /\ immediates' = immediates
  BY HeadType DEF Answer, Owners
<1>2. Len(b.reqs) \in Nat /\ Len(b.reqs) # 0 /\ Tail(b.reqs) \in Seq(Request)
  BY <1>1, LenProperties, EmptySeq, HeadTailProperties
<1>3. c \in Batch /\ c.vec = b.vec /\ c.reqs = Tail(b.reqs)
  BY <1>1, <1>2 DEF Batch
<1>4. stack' = Push(UserFrame, PushIf(Len(b.reqs) > 1, g, Rest))
  BY DEF Answer
<1> HIDE DEF b, c
<1>5. g \in Frame /\ g.op = "answer" /\ g.batch = c
  BY <1>3, AnswerFrameType
<1>6. /\ Shaped(Rest) /\ m[Head(stack)] \in Int
      /\ Measure(m, stack) = m[Head(stack)] + Measure(m, Rest)
  BY <1>1, PopWeight DEF Rest, Weight
<1> HIDE DEF g
<1>7. Shape(g) /\ m[g] \in Int
  BY <1>5 DEF Shape, Owners, Weight
<1>8. Measure(m, Rest) \in Int
  BY <1>6, MeasureType DEF Weight, Shaped
<1>9. CASE Len(b.reqs) > 1
  <2>1. Shaped(Push(g, Rest)) /\ Measure(m, Push(g, Rest)) = m[g] + Measure(m, Rest)
    BY <1>5, <1>6, <1>7, PushWeight
  <2>2. /\ Shaped(Push(UserFrame, Push(g, Rest)))
        /\ Measure(m, Push(UserFrame, Push(g, Rest))) = Measure(m, Push(g, Rest))
    BY <2>1, PushPlainWeight, PlainFrames
  <2>3. stack' = Push(UserFrame, Push(g, Rest))
    BY <1>4, <1>9 DEF PushIf
  <2>4. Measure(m, stack') + m[Head(stack)] = Measure(m, stack) + m[g]
    BY <1>6, <1>7, <1>8, <2>1, <2>2, <2>3
  <2> QED
    BY <1>1, <1>3, <1>5, <1>9, <2>2, <2>3, <2>4 DEF b
<1>10. CASE ~(Len(b.reqs) > 1)
  <2>1. Shaped(Push(UserFrame, Rest)) /\ Measure(m, Push(UserFrame, Rest)) = Measure(m, Rest)
    BY <1>6, PushPlainWeight, PlainFrames
  <2>2. stack' = Push(UserFrame, Rest)
    BY <1>4, <1>10 DEF PushIf
  <2>3. Measure(m, stack') + m[Head(stack)] = Measure(m, stack)
    BY <1>6, <1>8, <2>1, <2>2
  <2>4. Len(b.reqs) = 1
    <3>1. \A n \in Nat : n # 0 /\ ~(n > 1) => n = 1
      OBVIOUS
    <3> QED
      BY <1>2, <1>10, <3>1
  <2> QED
    BY <1>1, <2>1, <2>2, <2>3, <2>4 DEF b
<1> QED
  BY <1>9, <1>10

LEMMA WriteRejectedWeight ==
    ASSUME NEW m, Weight(m), Shaped(stack), NEW len, WriteRejected(len),
           One(NewRequest(len)) \in Batch
    PROVE  \E g \in Frame :
              /\ g.op = "rejectLater" /\ g.batch = One(NewRequest(len))
              /\ Shaped(stack') /\ immediates' = immediates
              /\ Measure(m, stack') = Measure(m, stack) + m[g]
<1> DEFINE b == One(NewRequest(len))
           g == FrameFor("rejectLater", b, FALSE)
<1>1. stack' = Push(UserFrame, Push(g, stack)) /\ immediates' = immediates
  BY DEF WriteRejected
<1>2. ~b.vec
  BY DEF One
<1> HIDE DEF b
<1>3. g \in Frame /\ g.op = "rejectLater" /\ g.batch = b
  <2>1. "rejectLater" \in FrameOps /\ FALSE \in BOOLEAN
    BY DEF FrameOps
  <2> QED
    BY <2>1, FrameForType DEF b
<1> HIDE DEF g
<1>4. Shape(g) /\ m[g] \in Int
  BY <1>2, <1>3 DEF Shape, Owners, Weight
<1>5. Shaped(Push(g, stack)) /\ Measure(m, Push(g, stack)) = m[g] + Measure(m, stack)
  BY <1>3, <1>4, PushWeight
<1>6. /\ Shaped(Push(UserFrame, Push(g, stack)))
      /\ Measure(m, Push(UserFrame, Push(g, stack))) = Measure(m, Push(g, stack))
  BY <1>5, PushPlainWeight, PlainFrames
<1>7. Measure(m, stack) \in Int
  BY MeasureType DEF Weight, Shaped
<1>8. Measure(m, stack') = Measure(m, stack) + m[g]
  BY <1>1, <1>4, <1>5, <1>6, <1>7
<1> QED
  BY <1>1, <1>3, <1>6, <1>8 DEF b

LEMMA RunImmediateWeight ==
    ASSUME NEW m, Weight(m), Shaped(stack), Shaped(immediates), RunImmediate
    PROVE  /\ Shaped(stack') /\ Shaped(immediates')
           /\ Measure(m, stack') + Measure(m, immediates')
                 = Measure(m, stack) + Measure(m, immediates)
<1> DEFINE f == Head(immediates)
<1>1. stack = <<>> /\ immediates # <<>> /\ immediates' = Tail(immediates) /\ stack' = <<f>>
  BY DEF RunImmediate
<1>2. /\ Shaped(Tail(immediates)) /\ f \in Frame /\ Shape(f)
      /\ Measure(m, immediates) = m[f] + Measure(m, Tail(immediates))
  BY <1>1, PopWeight
<1> HIDE DEF f
<1>3. stack' = Push(f, stack)
  BY <1>1, <1>2 DEF Push
<1>4. Shaped(Push(f, stack)) /\ Measure(m, Push(f, stack)) = m[f] + Measure(m, stack)
  BY <1>2, PushWeight
<1>5. m[f] \in Int /\ Measure(m, stack) \in Int /\ Measure(m, Tail(immediates)) \in Int
  BY <1>2, MeasureType DEF Weight, Shaped
<1>6. Measure(m, stack') + Measure(m, immediates')
         = Measure(m, stack) + Measure(m, immediates)
  BY <1>1, <1>2, <1>3, <1>4, <1>5
<1> QED
  BY <1>1, <1>2, <1>3, <1>4, <1>6

\* The answer of the sink: the batch passes to the code that will call it back.
LEMMA CompletedWeight ==
    ASSUME IInv, NEW m, Weight(m), Shaped(stack), Shaped(immediates), OnWriteCompleted,
           ~writeCallback.vec => Len(writeCallback.reqs) = 1
    PROVE  \E g \in Frame :
              /\ g.op \in {"defer", "nextTick", "failed"} /\ g.batch = writeCallback
              /\ Shaped(stack') /\ Shaped(immediates')
              /\ Measure(m, stack') + Measure(m, immediates')
                    = Measure(m, stack) + Measure(m, immediates) + m[g]
<1> DEFINE left == length - writableLength
           needFinish == NeedFinish(left, FALSE)
           op == IF sync THEN "defer" ELSE "nextTick"
           f == FrameFor("failed", writeCallback, FALSE)
           g == FrameFor(op, writeCallback, needFinish)
           e == FrameOf("emitError")
           h == FrameOf("flush")
<1>1. /\ Shaped(Rest) /\ Measure(m, Rest) = Measure(m, stack)
  <2>1. "completed" \notin Owners /\ Running("completed")
    BY DEF Owners, OnWriteCompleted
  <2> QED
    BY <2>1, PlainRest
<1>2. writeCallback \in Batch /\ needFinish \in BOOLEAN /\ sync \in BOOLEAN
  BY DEF IInv, TypeOK, NeedFinish
<1>3. \/ /\ stack' = PushIf(~needFinish, h, Push(g, Rest)) /\ immediates' = immediates
      \/ /\ sync /\ stack' = Push(e, Rest) /\ immediates' = Append(immediates, f)
      \/ /\ ~sync /\ stack' = Push(f, Push(e, Rest)) /\ immediates' = immediates
  BY DEF OnWriteCompleted, AfterSuccess, AfterFailure, PushIf
<1>4. Plain(e) /\ Plain(h)
  <2>1. "emitError" \in FrameOps \ Owners /\ "flush" \in FrameOps \ Owners
    BY DEF FrameOps, Owners
  <2> QED
    BY <2>1, PlainFrames
<1> HIDE DEF needFinish
<1>5. f \in Frame /\ f.op = "failed" /\ f.batch = writeCallback
  <2>1. "failed" \in FrameOps /\ FALSE \in BOOLEAN
    BY DEF FrameOps
  <2> QED
    BY <1>2, <2>1, FrameForType
<1>6. g \in Frame /\ g.op \in {"defer", "nextTick"} /\ g.batch = writeCallback
  <2>1. op \in FrameOps /\ op \in {"defer", "nextTick"}
    BY DEF FrameOps
  <2> HIDE DEF op
  <2> QED
    BY <1>2, <2>1, FrameForType
<1> HIDE DEF f, g, e, h, op
<1>7. Shape(f) /\ Shape(g) /\ m[f] \in Int /\ m[g] \in Int
  BY <1>5, <1>6 DEF Shape, Owners, Weight
<1>8. Measure(m, Rest) \in Int /\ Measure(m, immediates) \in Int
  BY <1>1, MeasureType DEF Weight, Shaped
<1>9. CASE stack' = PushIf(~needFinish, h, Push(g, Rest)) /\ immediates' = immediates
  <2>1. Shaped(Push(g, Rest)) /\ Measure(m, Push(g, Rest)) = m[g] + Measure(m, Rest)
    BY <1>1, <1>6, <1>7, PushWeight
  <2>2. /\ Shaped(PushIf(~needFinish, h, Push(g, Rest)))
        /\ Measure(m, PushIf(~needFinish, h, Push(g, Rest))) = Measure(m, Push(g, Rest))
    BY <1>4, <2>1, PushIfWeight
  <2>3. Measure(m, stack') + Measure(m, immediates')
           = Measure(m, stack) + Measure(m, immediates) + m[g]
    BY <1>1, <1>7, <1>8, <1>9, <2>1, <2>2
  <2> QED
    BY <1>6, <1>9, <2>2, <2>3
<1>10. CASE stack' = Push(e, Rest) /\ immediates' = Append(immediates, f)
  <2>1. Shaped(Push(e, Rest)) /\ Measure(m, Push(e, Rest)) = Measure(m, Rest)
    BY <1>1, <1>4, PushPlainWeight
  <2>2. /\ Shaped(Append(immediates, f))
        /\ Measure(m, Append(immediates, f)) = Measure(m, immediates) + m[f]
    BY <1>5, <1>7, AppendWeight
  <2>3. Measure(m, stack') + Measure(m, immediates')
           = Measure(m, stack) + Measure(m, immediates) + m[f]
    BY <1>1, <1>7, <1>8, <1>10, <2>1, <2>2
  <2> QED
    BY <1>5, <1>10, <2>1, <2>2, <2>3
<1>11. CASE stack' = Push(f, Push(e, Rest)) /\ immediates' = immediates
  <2>1. Shaped(Push(e, Rest)) /\ Measure(m, Push(e, Rest)) = Measure(m, Rest)
    BY <1>1, <1>4, PushPlainWeight
  <2>2. /\ Shaped(Push(f, Push(e, Rest)))
        /\ Measure(m, Push(f, Push(e, Rest))) = m[f] + Measure(m, Push(e, Rest))
    BY <1>5, <1>7, <2>1, PushWeight
  <2>3. Measure(m, stack') + Measure(m, immediates')
           = Measure(m, stack) + Measure(m, immediates) + m[f]
    BY <1>1, <1>7, <1>8, <1>11, <2>1, <2>2
  <2> QED
    BY <1>5, <1>11, <2>2, <2>3
<1> QED
  BY <1>3, <1>9, <1>10, <1>11

-----------------------------------------------------------------------------
(* The counters.  Every accepted or refused write is in exactly one place: *)
(* the buffer, the write in progress, a frame that owes its callback, now  *)
(* or in a later turn, or the log of the callbacks called.                 *)

Lengths == [r \in Request |-> r.len]
Debt == [f \in Frame |-> OwedByFrame(f)]
IsId(id) == [r \in Request |-> IF r.id = id THEN 1 ELSE 0]
Has(id) == [f \in Frame |-> Measure(IsId(id), f.batch.reqs)]
Same(id) == [a \in 1 .. MaxWrites |-> IF a = id THEN 1 ELSE 0]

Places(id) ==
    Measure(IsId(id), buffer) + Measure(IsId(id), writeCallback.reqs)
      + Measure(Has(id), stack) + Measure(Has(id), immediates)
      + Measure(Same(id), answered)

Counters ==
    /\ Shaped(stack) /\ Shaped(immediates)
    /\ writing /\ ~writeCallback.vec => Len(writeCallback.reqs) = 1
    /\ ~writing => writeCallback = NoBatch /\ writableLength = 0
    /\ length = Measure(Lengths, buffer) + writableLength
    /\ pendingCallbacks = Len(buffer) + BatchCount(writeCallback)
                          + Measure(Debt, stack) + Measure(Debt, immediates)
    /\ \A id \in 1 .. MaxWrites : Places(id) = IF id <= calls THEN 1 ELSE 0

LEMMA BatchCountType ==
    ASSUME NEW b \in Batch
    PROVE  BatchCount(b) \in Nat /\ Len(b.reqs) \in Nat /\ b.reqs \in Seq(Request)
BY LenProperties DEF Batch, BatchCount

LEMMA DebtOf ==
    ASSUME NEW f \in Frame
    PROVE  /\ Debt[f] \in Nat
           /\ f.op \in {"defer", "nextTick", "failed"} => Debt[f] = BatchCount(f.batch)
           /\ f.op = "answer" /\ f.batch.vec => Debt[f] = Len(f.batch.reqs)
           /\ f.op = "answer" /\ ~f.batch.vec => Debt[f] = 0
           /\ f.op \notin {"defer", "nextTick", "failed", "answer"} => Debt[f] = 0
<1>1. f.batch \in Batch /\ BatchCount(f.batch) \in Nat /\ Len(f.batch.reqs) \in Nat
  BY BatchCountType DEF Frame
<1>2. Debt[f] = OwedByFrame(f)
  BY DEF Debt
<1>3. CASE f.op \in {"defer", "nextTick", "failed"}
  BY <1>1, <1>2, <1>3 DEF OwedByFrame
<1>4. CASE f.op = "answer" /\ f.batch.vec
  BY <1>1, <1>2, <1>4 DEF OwedByFrame
<1>5. CASE f.op = "answer" /\ ~f.batch.vec
  BY <1>1, <1>2, <1>5 DEF OwedByFrame
<1>6. CASE f.op \notin {"defer", "nextTick", "failed", "answer"}
  BY <1>1, <1>2, <1>6 DEF OwedByFrame
<1> QED
  BY <1>3, <1>4, <1>5, <1>6

LEMMA IsIdType ==
    ASSUME NEW id
    PROVE  /\ IsId(id) \in [Request -> Nat] /\ Same(id) \in [1 .. MaxWrites -> Nat]
           /\ IsId(id) \in [Request -> Int] /\ Same(id) \in [1 .. MaxWrites -> Int]
BY DEF IsId, Same

LEMMA LengthsType ==
    Lengths \in [Request -> Int] /\ \A r \in Request : Lengths[r] = r.len
<1>1. \A r \in Request : r.len \in Int
    <2> SUFFICES ASSUME NEW r \in Request PROVE r.len \in Int
      OBVIOUS
    <2>1. r.len \in ChunkLengths
      BY DEF Request
    <2> QED
          <3>1. r.len \in Nat
            BY <2>1, WritableAssumption
          <3> QED
            BY <3>1
<1> QED
  BY <1>1 DEF Lengths

LEMMA HasOf ==
    ASSUME NEW id, NEW f \in Frame
    PROVE  /\ Has(id)[f] = Measure(IsId(id), f.batch.reqs)
           /\ Has(id)[f] \in Nat
<1>1. f.batch.reqs \in Seq(Request)
  BY DEF Frame, Batch
<1>2. Measure(IsId(id), f.batch.reqs) \in Nat
  BY <1>1, IsIdType, MeasureType
<1> QED
  BY <1>2 DEF Has

LEMMA DebtWeight == Weight(Debt) /\ Debt \in [Frame -> Nat]
<1>1. Debt = [f \in Frame |-> Debt[f]]
  BY DEF Debt
<1>2. \A f \in Frame : Debt[f] \in Nat
  BY DebtOf
<1>3. Debt \in [Frame -> Nat] /\ Debt \in [Frame -> Int]
  BY <1>1, <1>2
<1>4. \A f \in Frame : Plain(f) => Debt[f] = 0
  BY DebtOf DEF Plain, Owners
<1> QED
  BY <1>3, <1>4 DEF Weight

LEMMA HasWeight == ASSUME NEW id PROVE Weight(Has(id)) /\ Has(id) \in [Frame -> Nat]
<1>1. Has(id) = [f \in Frame |-> Has(id)[f]]
  BY DEF Has
<1>2. \A f \in Frame : Has(id)[f] \in Nat
  BY HasOf
<1>3. Has(id) \in [Frame -> Nat] /\ Has(id) \in [Frame -> Int]
  BY <1>1, <1>2
<1>4. ASSUME NEW f \in Frame, Plain(f) PROVE Has(id)[f] = 0
  <2>1. f.batch.reqs = <<>>
    BY <1>4 DEF Plain, NoBatch
  <2> QED
    BY <2>1, HasOf, MeasureEmpty
<1> QED
  BY <1>3, <1>4 DEF Weight

\* Every term of the counters is a number.
LEMMA NumberTypes ==
    ASSUME TypeOK, NEW s, Shaped(s), NEW id
    PROVE  /\ Measure(Debt, s) \in Nat /\ Measure(Has(id), s) \in Nat
           /\ Measure(Lengths, buffer) \in Int /\ Measure(IsId(id), buffer) \in Nat
           /\ Measure(IsId(id), writeCallback.reqs) \in Nat
           /\ Measure(Same(id), answered) \in Nat
           /\ BatchCount(writeCallback) \in Nat /\ Len(buffer) \in Nat
           /\ Len(writeCallback.reqs) \in Nat
<1>1. /\ buffer \in Seq(Request) /\ writeCallback \in Batch /\ Len(buffer) \in Nat
      /\ answered \in Seq(1 .. MaxWrites) /\ s \in Seq(Frame)
  BY LenProperties DEF TypeOK, Shaped
<1>2. /\ BatchCount(writeCallback) \in Nat /\ Len(writeCallback.reqs) \in Nat
      /\ writeCallback.reqs \in Seq(Request)
  BY <1>1, BatchCountType
<1>3. Measure(Debt, s) \in Nat /\ Measure(Has(id), s) \in Nat
  BY <1>1, DebtWeight, HasWeight, MeasureType
<1>4. Measure(Lengths, buffer) \in Int
  BY <1>1, LengthsType, MeasureType
<1>5. /\ Measure(IsId(id), buffer) \in Nat /\ Measure(IsId(id), writeCallback.reqs) \in Nat
      /\ Measure(Same(id), answered) \in Nat
  BY <1>1, <1>2, IsIdType, MeasureType
<1> QED
  BY <1>1, <1>2, <1>3, <1>4, <1>5

LEMMA NoBatchCounts ==
    /\ BatchCount(NoBatch) = 0 /\ NoBatch.reqs = <<>>
    /\ \A m : Measure(m, NoBatch.reqs) = 0
BY MeasureEmpty DEF NoBatch, BatchCount

LEMMA OneCounts ==
    ASSUME NEW r \in Request
    PROVE  /\ One(r) \in Batch /\ One(r).reqs = <<r>> /\ ~One(r).vec
           /\ BatchCount(One(r)) = 1 /\ Len(One(r).reqs) = 1
           /\ \A id : Measure(IsId(id), One(r).reqs) = IF r.id = id THEN 1 ELSE 0
<1>1. One(r) \in Batch /\ One(r).reqs = <<r>> /\ ~One(r).vec /\ Len(<<r>>) = 1
  BY DEF One, Batch
<1>2. BatchCount(One(r)) = 1
  BY <1>1 DEF BatchCount
<1>3. ASSUME NEW id PROVE Measure(IsId(id), One(r).reqs) = IF r.id = id THEN 1 ELSE 0
  <2>1. IsId(id) \in [Request -> Int]
    BY IsIdType
  <2>2. Measure(IsId(id), <<r>>) = IsId(id)[r]
    BY <2>1, MeasureOne
  <2> QED
    BY <1>1, <2>2 DEF IsId
<1> QED
  BY <1>1, <1>2, <1>3

\* Only the frames moved.
LEMMA FramesKept ==
    ASSUME Counters, Shaped(stack'), Shaped(immediates'),
           UNCHANGED <<writing, writeCallback, writableLength, length, buffer,
                       pendingCallbacks, calls, answered>>,
           TypeOK,
           \A m : Weight(m) =>
              Measure(m, stack') + Measure(m, immediates')
                 = Measure(m, stack) + Measure(m, immediates)
    PROVE  Counters'
<1>1. Measure(Debt, stack') + Measure(Debt, immediates')
         = Measure(Debt, stack) + Measure(Debt, immediates)
  BY DebtWeight
<1>2. /\ Measure(Debt, stack) \in Nat /\ Measure(Debt, immediates) \in Nat
      /\ Measure(Debt, stack') \in Nat /\ Measure(Debt, immediates') \in Nat
      /\ BatchCount(writeCallback) \in Nat /\ Len(buffer) \in Nat
  BY NumberTypes DEF Counters
<1>3. pendingCallbacks' = Len(buffer') + BatchCount(writeCallback')
                          + Measure(Debt, stack') + Measure(Debt, immediates')
  BY <1>1, <1>2 DEF Counters
<1>4. ASSUME NEW id \in 1 .. MaxWrites
      PROVE  Places(id)' = IF id <= calls' THEN 1 ELSE 0
  <2>1. Measure(Has(id), stack') + Measure(Has(id), immediates')
           = Measure(Has(id), stack) + Measure(Has(id), immediates)
    BY HasWeight
  <2>2. /\ Measure(Has(id), stack) \in Nat /\ Measure(Has(id), immediates) \in Nat
        /\ Measure(Has(id), stack') \in Nat /\ Measure(Has(id), immediates') \in Nat
        /\ Measure(IsId(id), buffer) \in Nat
        /\ Measure(IsId(id), writeCallback.reqs) \in Nat
        /\ Measure(Same(id), answered) \in Nat
    BY NumberTypes DEF Counters
  <2>3. Places(id)' = Places(id)
    BY <2>1, <2>2 DEF Places
  <2> QED
    BY <2>3 DEF Counters
<1> QED
  BY <1>3, <1>4 DEF Counters

LEMMA NewRequestType ==
    ASSUME IInv, MayWrite, NEW len \in ChunkLengths
    PROVE  /\ NewRequest(len) \in Request /\ NewRequest(len).id = calls + 1
           /\ NewRequest(len).len = len /\ calls \in Nat /\ len \in Nat
<1>1. calls \in Nat /\ calls + 1 \in 1 .. MaxWrites
  BY WritableAssumption DEF MayWrite, IInv, TypeOK
<1>2. len \in Nat
  BY WritableAssumption
<1> QED
  BY <1>1, <1>2 DEF NewRequest, Request

\* A batch that the idle sink takes: the frames below are plain.
LEMMA TakenCounts ==
    ASSUME Counters, TypeOK, ~writing, NEW batch, NEW len, NEW rest,
           OnWrite(batch, len, rest)
    PROVE  /\ writing' = TRUE /\ writeCallback' = batch /\ writableLength' = len
           /\ BatchCount(writeCallback) = 0 /\ writableLength = 0
           /\ \A id : Measure(IsId(id), writeCallback.reqs) = 0
BY NoBatchCounts DEF OnWrite, Counters

LEMMA WriteCounts ==
    ASSUME IInv, Counters, NEW len \in ChunkLengths, Write(len)
    PROVE  Counters'
<1> DEFINE r == NewRequest(len)
<1>1. /\ r \in Request /\ r.id = calls + 1 /\ r.len = len /\ calls \in Nat /\ len \in Nat
  BY NewRequestType DEF Write
<1>2. /\ Shaped(stack') /\ immediates' = immediates
      /\ Measure(Debt, stack') = Measure(Debt, stack)
      /\ \A id : Measure(Has(id), stack') = Measure(Has(id), stack)
  BY PlainWeight, DebtWeight, HasWeight DEF PlainStep, Counters
<1>3. /\ Measure(Debt, stack) \in Nat /\ Measure(Debt, immediates) \in Nat
      /\ Measure(Lengths, buffer) \in Int /\ BatchCount(writeCallback) \in Nat
      /\ Len(buffer) \in Nat
  BY NumberTypes DEF Counters, IInv
<1>4. TypeOK /\ buffer \in Seq(Request) /\ length \in Int /\ pendingCallbacks \in Int
      /\ writableLength \in Int /\ writing \in BOOLEAN
  BY DEF IInv, TypeOK
<1>5. /\ calls' = calls + 1 /\ pendingCallbacks' = pendingCallbacks + 1
      /\ length' = length + len /\ answered' = answered
  BY DEF Write
<1>6. ASSUME NEW id \in 1 .. MaxWrites
      PROVE  /\ Places(id) = IF id <= calls THEN 1 ELSE 0
             /\ Measure(Has(id), stack) \in Nat /\ Measure(Has(id), immediates) \in Nat
             /\ Measure(IsId(id), buffer) \in Nat
             /\ Measure(IsId(id), writeCallback.reqs) \in Nat
             /\ Measure(Same(id), answered) \in Nat
  BY <1>4, NumberTypes DEF Counters
<1>7. \A id \in 1 .. MaxWrites :
         (IF id <= calls THEN 1 ELSE 0) + (IF calls + 1 = id THEN 1 ELSE 0)
            = IF id <= calls + 1 THEN 1 ELSE 0
  BY <1>1
<1>8. CASE MustBuffer /\ buffer' = Append(buffer, r) /\ UNCHANGED <<writeVars, stack>>
  <2>1. /\ Len(buffer') = Len(buffer) + 1
        /\ Measure(Lengths, buffer') = Measure(Lengths, buffer) + len
        /\ \A id : Measure(IsId(id), buffer')
                      = Measure(IsId(id), buffer) + IF r.id = id THEN 1 ELSE 0
    <3> HIDE DEF r
    <3>1. Len(Append(buffer, r)) = Len(buffer) + 1
      BY <1>1, <1>4, AppendProperties
    <3>2. Measure(Lengths, Append(buffer, r)) = Measure(Lengths, buffer) + Lengths[r]
      BY <1>1, <1>4, LengthsType, MeasureAppend
    <3>3. ASSUME NEW id
          PROVE  Measure(IsId(id), Append(buffer, r))
                    = Measure(IsId(id), buffer) + IF r.id = id THEN 1 ELSE 0
      <4>1. Measure(IsId(id), Append(buffer, r)) = Measure(IsId(id), buffer) + IsId(id)[r]
        BY <1>1, <1>4, IsIdType, MeasureAppend
      <4>2. IsId(id)[r] = IF r.id = id THEN 1 ELSE 0
        BY <1>1 DEF IsId
      <4> QED
        BY <4>1, <4>2
    <3> QED
      BY <1>1, <1>8, <3>1, <3>2, <3>3, LengthsType
  <2>2. writing' = writing /\ writeCallback' = writeCallback /\ writableLength' = writableLength
    BY <1>8 DEF writeVars
  <2> HIDE DEF r
  <2>3. length' = Measure(Lengths, buffer') + writableLength'
    BY <1>1, <1>3, <1>4, <1>5, <2>1, <2>2, SMTT(30) DEF Counters
  <2>4. pendingCallbacks' = Len(buffer') + BatchCount(writeCallback')
                            + Measure(Debt, stack') + Measure(Debt, immediates')
        <3>1. /\ Measure(Debt, immediates') = Measure(Debt, immediates)
              /\ BatchCount(writeCallback') = BatchCount(writeCallback)
              /\ Len(buffer') = Len(buffer) + 1
          BY <1>2, <2>1, <2>2
        <3>2. pendingCallbacks = Len(buffer) + BatchCount(writeCallback)
                                 + Measure(Debt, stack) + Measure(Debt, immediates)
          BY DEF Counters
        <3> QED
          BY <1>2, <1>3, <1>5, <3>1, <3>2
  <2>5. ASSUME NEW id \in 1 .. MaxWrites
        PROVE  Places(id)' = IF id <= calls' THEN 1 ELSE 0
    <3>1. Places(id)' = Places(id) + IF calls + 1 = id THEN 1 ELSE 0
            <4>1. /\ Measure(Has(id), stack') = Measure(Has(id), stack)
                  /\ Measure(Has(id), immediates') = Measure(Has(id), immediates)
                  /\ Measure(Same(id), answered') = Measure(Same(id), answered)
              BY <1>2, <1>5
            <4>2. Measure(IsId(id), buffer') + Measure(IsId(id), writeCallback'.reqs)
                     = Measure(IsId(id), buffer) + Measure(IsId(id), writeCallback.reqs)
                       + IF calls + 1 = id THEN 1 ELSE 0
              BY <1>1, <1>6, <2>1, <2>2
            <4>3. /\ Measure(Has(id), stack) \in Nat /\ Measure(Has(id), immediates) \in Nat
                  /\ Measure(IsId(id), buffer) \in Nat
                  /\ Measure(IsId(id), writeCallback.reqs) \in Nat
                  /\ Measure(Same(id), answered) \in Nat
              BY <1>6
            <4>4. Places(id)' = Measure(IsId(id), buffer') + Measure(IsId(id), writeCallback'.reqs)
                                + Measure(Has(id), stack') + Measure(Has(id), immediates')
                                + Measure(Same(id), answered')
              BY DEF Places
            <4> QED
              BY <4>1, <4>2, <4>3, <4>4 DEF Places
    <3> QED
      BY <1>5, <1>6, <1>7, <3>1
  <2> QED
    BY <1>2, <2>2, <2>3, <2>4, <2>5 DEF Counters
<1>9. CASE ~MustBuffer /\ OnWrite(One(r), len, stack) /\ buffer' = buffer
  <2> HIDE DEF r
  <2>1. ~writing
    BY <1>4, <1>9 DEF MustBuffer
  <2>2. /\ writing' = TRUE /\ writeCallback' = One(r) /\ writableLength' = len
        /\ BatchCount(writeCallback) = 0 /\ writableLength = 0
        /\ \A id : Measure(IsId(id), writeCallback.reqs) = 0
    BY <1>4, <1>9, <2>1, TakenCounts
  <2>3. /\ BatchCount(One(r)) = 1 /\ Len(One(r).reqs) = 1
        /\ \A id : Measure(IsId(id), One(r).reqs) = IF r.id = id THEN 1 ELSE 0
    BY <1>1, OneCounts
  <2>4. length' = Measure(Lengths, buffer') + writableLength'
    BY <1>1, <1>3, <1>5, <1>9, <2>2 DEF Counters
  <2>5. pendingCallbacks' = Len(buffer') + BatchCount(writeCallback')
                            + Measure(Debt, stack') + Measure(Debt, immediates')
    BY <1>2, <1>3, <1>5, <1>9, <2>2, <2>3 DEF Counters
  <2>6. ASSUME NEW id \in 1 .. MaxWrites
        PROVE  Places(id)' = IF id <= calls' THEN 1 ELSE 0
    <3>1. Places(id)' = Places(id) + IF calls + 1 = id THEN 1 ELSE 0
            <4>1. /\ Measure(Has(id), stack') = Measure(Has(id), stack)
                  /\ Measure(Has(id), immediates') = Measure(Has(id), immediates)
                  /\ Measure(Same(id), answered') = Measure(Same(id), answered)
              BY <1>2, <1>5
            <4>2. Measure(IsId(id), buffer') + Measure(IsId(id), writeCallback'.reqs)
                     = Measure(IsId(id), buffer) + Measure(IsId(id), writeCallback.reqs)
                       + IF calls + 1 = id THEN 1 ELSE 0
              BY <1>1, <1>6, <1>9, <2>2, <2>3
            <4>3. /\ Measure(Has(id), stack) \in Nat /\ Measure(Has(id), immediates) \in Nat
                  /\ Measure(IsId(id), buffer) \in Nat
                  /\ Measure(IsId(id), writeCallback.reqs) \in Nat
                  /\ Measure(Same(id), answered) \in Nat
              BY <1>6
            <4>4. Places(id)' = Measure(IsId(id), buffer') + Measure(IsId(id), writeCallback'.reqs)
                                + Measure(Has(id), stack') + Measure(Has(id), immediates')
                                + Measure(Same(id), answered')
              BY DEF Places
            <4> QED
              BY <4>1, <4>2, <4>3, <4>4 DEF Places
    <3> QED
      BY <1>5, <1>6, <1>7, <3>1
  <2> QED
    BY <1>2, <2>2, <2>3, <2>4, <2>5, <2>6 DEF Counters
<1> QED
  BY <1>8, <1>9 DEF Write

LEMMA WriteRejectedCounts ==
    ASSUME IInv, Counters, NEW len \in ChunkLengths, WriteRejected(len)
    PROVE  Counters'
<1> DEFINE r == NewRequest(len)
<1>1. r \in Request /\ r.id = calls + 1 /\ calls \in Nat
  BY NewRequestType DEF WriteRejected
<1>2. /\ One(r) \in Batch
      /\ \A id : Measure(IsId(id), One(r).reqs) = IF r.id = id THEN 1 ELSE 0
  <2> HIDE DEF r
  <2> QED
    BY <1>1, OneCounts
<1>3. PICK g \in Frame :
         /\ g.op = "rejectLater" /\ Shaped(stack') /\ immediates' = immediates
         /\ Measure(Debt, stack') = Measure(Debt, stack) + Debt[g]
  BY <1>2, WriteRejectedWeight, DebtWeight DEF Counters
<1>4. /\ calls' = calls + 1 /\ pendingCallbacks' = pendingCallbacks
      /\ length' = length /\ answered' = answered /\ buffer' = buffer
      /\ writing' = writing /\ writeCallback' = writeCallback
      /\ writableLength' = writableLength
  BY DEF WriteRejected, queueVars, writeVars
<1>5. TypeOK
  BY DEF IInv
<1>6. /\ Measure(Debt, stack) \in Nat /\ Measure(Debt, immediates) \in Nat
      /\ BatchCount(writeCallback) \in Nat /\ Len(buffer) \in Nat /\ Debt[g] = 0
  BY <1>3, <1>5, NumberTypes, DebtOf DEF Counters
<1>7. pendingCallbacks' = Len(buffer') + BatchCount(writeCallback')
                          + Measure(Debt, stack') + Measure(Debt, immediates')
  BY <1>3, <1>4, <1>6 DEF Counters
<1>8. ASSUME NEW id \in 1 .. MaxWrites
      PROVE  Places(id)' = IF id <= calls' THEN 1 ELSE 0
  <2>1. PICK h \in Frame :
           /\ h.batch = One(r) /\ Measure(Has(id), stack') = Measure(Has(id), stack) + Has(id)[h]
    BY <1>2, WriteRejectedWeight, HasWeight DEF Counters
  <2>2. Has(id)[h] = IF calls + 1 = id THEN 1 ELSE 0
    <3>1. Has(id)[h] = Measure(IsId(id), One(r).reqs)
      BY <2>1, HasOf
    <3> QED
      BY <1>1, <1>2, <3>1
  <2>3. /\ Places(id) = IF id <= calls THEN 1 ELSE 0
        /\ Measure(Has(id), stack) \in Nat /\ Measure(Has(id), immediates) \in Nat
        /\ Measure(IsId(id), buffer) \in Nat
        /\ Measure(IsId(id), writeCallback.reqs) \in Nat
        /\ Measure(Same(id), answered) \in Nat
    BY <1>5, NumberTypes DEF Counters
  <2>4. Places(id)' = Places(id) + IF calls + 1 = id THEN 1 ELSE 0
    BY <1>3, <1>4, <2>1, <2>2, <2>3 DEF Places
  <2>5. (IF id <= calls THEN 1 ELSE 0) + (IF calls + 1 = id THEN 1 ELSE 0)
           = IF id <= calls + 1 THEN 1 ELSE 0
    BY <1>1
  <2> QED
    BY <1>4, <2>3, <2>4, <2>5
<1> QED
  BY <1>3, <1>4, <1>7, <1>8 DEF Counters

LEMMA FlushLoopCounts ==
    ASSUME IInv, Counters, FlushLoop
    PROVE  Counters'
<1> DEFINE n == Head(stack).left
           r == Head(buffer)
<1>1. /\ Shaped(stack') /\ immediates' = immediates
      /\ Measure(Debt, stack') = Measure(Debt, stack)
      /\ \A id : Measure(Has(id), stack') = Measure(Has(id), stack)
  BY PlainWeight, DebtWeight, HasWeight DEF PlainStep, Counters
<1>2. /\ Measure(Debt, stack) \in Nat /\ Measure(Debt, immediates) \in Nat
      /\ Measure(Lengths, buffer) \in Int /\ BatchCount(writeCallback) \in Nat
      /\ Len(buffer) \in Nat
  BY NumberTypes DEF Counters, IInv
<1>3. TypeOK /\ buffer \in Seq(Request) /\ writableLength \in Int
  BY DEF IInv, TypeOK
<1>4. /\ calls' = calls /\ pendingCallbacks' = pendingCallbacks /\ length' = length
      /\ answered' = answered
  BY DEF FlushLoop, logVars
<1>5. CASE UNCHANGED <<writeVars, buffer>>
  <2>1. UNCHANGED <<writing, writeCallback, writableLength, buffer>>
    BY <1>5 DEF writeVars
  <2>2. \A m : Weight(m) => Measure(m, stack') + Measure(m, immediates')
                               = Measure(m, stack) + Measure(m, immediates)
    BY PlainWeight DEF PlainStep, Counters
  <2>3. Shaped(immediates')
    BY <1>1 DEF Counters
  <2> QED
    BY <1>1, <1>3, <1>4, <2>1, <2>2, <2>3, FramesKept
<1>6. CASE /\ n > 0 /\ ~writing /\ buffer' = Tail(buffer)
           /\ OnWrite(One(r), r.len, Push(LoopFrame(n - 1), Rest))
  <2>1. buffer # <<>>
    <3>1. FrameOK(Head(stack), isBufferFlushing, Len(buffer)) /\ Head(stack).op = "loop"
          /\ Head(stack) \in Frame
      BY RestGood DEF FlushLoop
    <3>2. n <= Len(buffer) /\ n \in Nat
      BY <3>1 DEF FrameOK, Frame
    <3> HIDE DEF n
    <3>3. Len(buffer) # 0
      BY <1>2, <1>6, <3>2
    <3> QED
      BY <3>3
  <2>2. /\ r \in Request /\ Len(Tail(buffer)) = Len(buffer) - 1
        /\ Measure(Lengths, buffer) = Lengths[r] + Measure(Lengths, Tail(buffer))
        /\ Tail(buffer) \in Seq(Request)
    BY <1>3, <2>1, HeadTailProperties, LengthsType, MeasureHead
  <2> HIDE DEF r
  <2>3. ASSUME NEW id
        PROVE  Measure(IsId(id), buffer)
                  = (IF r.id = id THEN 1 ELSE 0) + Measure(IsId(id), Tail(buffer))
    <3>1. Measure(IsId(id), buffer) = IsId(id)[r] + Measure(IsId(id), Tail(buffer))
      BY <1>3, <2>1, IsIdType, MeasureHead DEF r
    <3>2. IsId(id)[r] = IF r.id = id THEN 1 ELSE 0
      BY <2>2 DEF IsId
    <3> QED
      BY <3>1, <3>2
  <2>4. r.len \in Int /\ Lengths[r] = r.len
    BY <2>2, LengthsType
  <2>5. /\ writing' = TRUE /\ writeCallback' = One(r) /\ writableLength' = r.len
        /\ BatchCount(writeCallback) = 0 /\ writableLength = 0
        /\ \A id : Measure(IsId(id), writeCallback.reqs) = 0
    BY <1>3, <1>6, TakenCounts
  <2>6. /\ BatchCount(One(r)) = 1 /\ Len(One(r).reqs) = 1
        /\ \A id : Measure(IsId(id), One(r).reqs) = IF r.id = id THEN 1 ELSE 0
    BY <2>2, OneCounts
  <2>7. Measure(Lengths, Tail(buffer)) \in Int
    BY <2>2, LengthsType, MeasureType
  <2>8. length' = Measure(Lengths, buffer') + writableLength'
    BY <1>2, <1>4, <1>6, <2>2, <2>4, <2>5, <2>7 DEF Counters
  <2>9. pendingCallbacks' = Len(buffer') + BatchCount(writeCallback')
                            + Measure(Debt, stack') + Measure(Debt, immediates')
    BY <1>1, <1>2, <1>4, <1>6, <2>2, <2>5, <2>6 DEF Counters
  <2>10. ASSUME NEW id \in 1 .. MaxWrites
         PROVE  Places(id)' = IF id <= calls' THEN 1 ELSE 0
    <3>1. /\ Measure(Has(id), stack) \in Nat /\ Measure(Has(id), immediates) \in Nat
          /\ Measure(Same(id), answered) \in Nat
          /\ Measure(IsId(id), Tail(buffer)) \in Nat
      BY <1>3, <2>2, NumberTypes, IsIdType, MeasureType DEF Counters
    <3>2. Places(id)' = Places(id)
      BY <1>1, <1>4, <1>6, <2>3, <2>5, <2>6, <3>1 DEF Places
    <3> QED
      BY <1>4, <3>2 DEF Counters
  <2> QED
    BY <1>1, <2>5, <2>6, <2>8, <2>9, <2>10 DEF Counters
<1> QED
  BY <1>5, <1>6 DEF FlushLoop

LEMMA FlushBufferCounts ==
    ASSUME IInv, Counters, FlushBuffer
    PROVE  Counters'
<1>1. /\ Shaped(stack') /\ immediates' = immediates
      /\ Measure(Debt, stack') = Measure(Debt, stack)
      /\ \A id : Measure(Has(id), stack') = Measure(Has(id), stack)
  BY PlainWeight, DebtWeight, HasWeight DEF PlainStep, Counters
<1>2. /\ Measure(Debt, stack) \in Nat /\ Measure(Debt, immediates) \in Nat
      /\ Measure(Lengths, buffer) \in Int /\ BatchCount(writeCallback) \in Nat
      /\ Len(buffer) \in Nat
  BY NumberTypes DEF Counters, IInv
<1>3. TypeOK /\ buffer \in Seq(Request) /\ writableLength \in Int /\ length \in Int
      /\ pendingCallbacks \in Int
  BY DEF IInv, TypeOK
<1>4. /\ calls' = calls /\ length' = length /\ answered' = answered
  BY DEF FlushBuffer, logVars
<1>5. CASE UNCHANGED <<writeVars, buffer, pendingCallbacks>>
  <2>1. UNCHANGED <<writing, writeCallback, writableLength, buffer, pendingCallbacks>>
    BY <1>5 DEF writeVars
  <2>2. \A m : Weight(m) => Measure(m, stack') + Measure(m, immediates')
                               = Measure(m, stack) + Measure(m, immediates)
    BY PlainWeight DEF PlainStep, Counters
  <2>3. Shaped(immediates')
    BY <1>1 DEF Counters
  <2> QED
    BY <1>1, <1>3, <1>4, <2>1, <2>2, <2>3, FramesKept
<1>6. CASE /\ buffer' = <<>> /\ pendingCallbacks' = pendingCallbacks + 1
           /\ OnWrite([reqs |-> buffer, vec |-> TRUE], length,
                      Push(FrameOf("flushEnd"), Rest))
  <2> DEFINE b == [reqs |-> buffer, vec |-> TRUE]
             rest == Push(FrameOf("flushEnd"), Rest)
  <2>1. ~writing
    BY DEF FlushBuffer, IInv
  <2>2. b.reqs = buffer /\ b.vec /\ BatchCount(b) = Len(buffer) + 1
    BY DEF BatchCount
  <2>3. OnWrite(b, length, rest)
    BY <1>6
  <2> HIDE DEF b, rest
  <2>4. /\ writing' = TRUE /\ writeCallback' = b /\ writableLength' = length
        /\ BatchCount(writeCallback) = 0 /\ writableLength = 0
        /\ \A id : Measure(IsId(id), writeCallback.reqs) = 0
    BY <1>3, <2>1, <2>3, TakenCounts
  <2>5. Len(buffer') = 0 /\ \A m : Measure(m, buffer') = 0
    BY <1>6, MeasureEmpty
  <2>6. length' = Measure(Lengths, buffer') + writableLength'
    BY <1>3, <1>4, <2>4, <2>5
  <2>7. pendingCallbacks' = Len(buffer') + BatchCount(writeCallback')
                            + Measure(Debt, stack') + Measure(Debt, immediates')
    BY <1>1, <1>2, <1>6, <2>2, <2>4, <2>5 DEF Counters
  <2>8. ASSUME NEW id \in 1 .. MaxWrites
        PROVE  Places(id)' = IF id <= calls' THEN 1 ELSE 0
    <3>1. /\ Measure(Has(id), stack) \in Nat /\ Measure(Has(id), immediates) \in Nat
          /\ Measure(Same(id), answered) \in Nat /\ Measure(IsId(id), buffer) \in Nat
      BY <1>3, NumberTypes DEF Counters
    <3>2. Places(id)' = Places(id)
      BY <1>1, <1>4, <2>2, <2>4, <2>5, <3>1 DEF Places
    <3> QED
      BY <1>4, <3>2 DEF Counters
  <2> QED
    BY <1>1, <2>2, <2>4, <2>6, <2>7, <2>8 DEF Counters
<1> QED
  BY <1>5, <1>6 DEF FlushBuffer

LEMMA CompletedCounts ==
    ASSUME IInv, Counters, OnWriteCompleted
    PROVE  Counters'
<1>1. /\ TypeOK /\ length \in Int /\ writableLength \in Int /\ writing
      /\ ~writeCallback.vec => Len(writeCallback.reqs) = 1
  BY DEF IInv, TypeOK, OnWriteCompleted, Counters
<1>2. /\ calls' = calls /\ answered' = answered /\ buffer' = buffer
      /\ pendingCallbacks' = pendingCallbacks /\ length' = length - writableLength
      /\ writing' = FALSE /\ writeCallback' = NoBatch /\ writableLength' = 0
  BY DEF OnWriteCompleted, logVars
<1>3. PICK g \in Frame :
         /\ g.op \in {"defer", "nextTick", "failed"} /\ g.batch = writeCallback
         /\ Shaped(stack') /\ Shaped(immediates')
         /\ Measure(Debt, stack') + Measure(Debt, immediates')
               = Measure(Debt, stack) + Measure(Debt, immediates) + Debt[g]
  BY <1>1, CompletedWeight, DebtWeight DEF Counters
<1>4. /\ Measure(Debt, stack) \in Nat /\ Measure(Debt, immediates) \in Nat
      /\ Measure(Debt, stack') \in Nat /\ Measure(Debt, immediates') \in Nat
      /\ BatchCount(writeCallback) \in Nat /\ Len(buffer) \in Nat
      /\ Measure(Lengths, buffer) \in Int
  BY <1>1, <1>3, NumberTypes DEF Counters
<1>5. Debt[g] = BatchCount(writeCallback) /\ BatchCount(NoBatch) = 0
  BY <1>3, DebtOf, NoBatchCounts
<1>6. pendingCallbacks' = Len(buffer') + BatchCount(writeCallback')
                          + Measure(Debt, stack') + Measure(Debt, immediates')
  <2>1. pendingCallbacks = Len(buffer) + BatchCount(writeCallback)
                           + Measure(Debt, stack) + Measure(Debt, immediates)
    BY DEF Counters
  <2>2. Len(buffer') = Len(buffer) /\ BatchCount(writeCallback') = 0
    BY <1>2, <1>5
  <2> QED
    BY <1>2, <1>3, <1>4, <1>5, <2>1, <2>2, SMTT(30)
<1>7. length' = Measure(Lengths, buffer') + writableLength'
  BY <1>1, <1>2, <1>4 DEF Counters
<1>8. ASSUME NEW id \in 1 .. MaxWrites
      PROVE  Places(id)' = IF id <= calls' THEN 1 ELSE 0
  <2>1. PICK h \in Frame :
           /\ h.batch = writeCallback
           /\ Measure(Has(id), stack') + Measure(Has(id), immediates')
                 = Measure(Has(id), stack) + Measure(Has(id), immediates) + Has(id)[h]
    BY <1>1, CompletedWeight, HasWeight DEF Counters
  <2>2. Has(id)[h] = Measure(IsId(id), writeCallback.reqs)
    BY <2>1, HasOf
  <2>3. Measure(IsId(id), writeCallback'.reqs) = 0
    BY <1>2, NoBatchCounts
  <2>4. /\ Measure(Has(id), stack) \in Nat /\ Measure(Has(id), immediates) \in Nat
        /\ Measure(Has(id), stack') \in Nat /\ Measure(Has(id), immediates') \in Nat
        /\ Measure(IsId(id), buffer) \in Nat
        /\ Measure(IsId(id), writeCallback.reqs) \in Nat
        /\ Measure(Same(id), answered) \in Nat
    BY <1>1, <1>3, NumberTypes DEF Counters
  <2>5. /\ Measure(IsId(id), buffer') = Measure(IsId(id), buffer)
        /\ Measure(Same(id), answered') = Measure(Same(id), answered)
    BY <1>2
  <2>6. Places(id)' = Measure(IsId(id), buffer') + Measure(IsId(id), writeCallback'.reqs)
                      + Measure(Has(id), stack') + Measure(Has(id), immediates')
                      + Measure(Same(id), answered')
    BY DEF Places
  <2>7. Places(id)' = Places(id)
    BY <2>1, <2>2, <2>3, <2>4, <2>5, <2>6 DEF Places
  <2> QED
    BY <1>2, <2>7 DEF Counters
<1> QED
  BY <1>2, <1>3, <1>6, <1>7, <1>8 DEF Counters

LEMMA ToAnswerCounts ==
    ASSUME IInv, Counters, Failed \/ OnWriteCompletedNextTick
    PROVE  Counters'
<1> DEFINE f == Head(stack)
<1>1. /\ TypeOK /\ f \in Frame /\ f.op \in {"failed", "nextTick"} /\ Shape(f)
      /\ pendingCallbacks \in Int /\ f.batch \in Batch
  <2>1. /\ stack # <<>> /\ f \in Frame /\ f.op \in {"failed", "nextTick"} /\ f.batch \in Batch
    BY HeadType DEF Failed, OnWriteCompletedNextTick, Owners
  <2>2. Shape(f)
    BY <2>1, PopWeight, DebtWeight DEF Counters
  <2> QED
    BY <2>1, <2>2 DEF IInv, TypeOK
<1> HIDE DEF f
<1>2. /\ calls' = calls /\ answered' = answered /\ buffer' = buffer
      /\ pendingCallbacks' = pendingCallbacks - 1 /\ length' = length
      /\ writing' = writing /\ writeCallback' = writeCallback
      /\ writableLength' = writableLength
  BY DEF Failed, OnWriteCompletedNextTick, logVars, queueVars, writeVars
<1>3. PICK g \in Frame :
         /\ g.op = "answer" /\ g.batch = f.batch
         /\ Shaped(stack') /\ immediates' = immediates
         /\ Measure(Debt, stack') + Debt[f] = Measure(Debt, stack) + Debt[g]
  BY ToAnswerWeight, DebtWeight DEF Counters, f
<1>4. /\ Measure(Debt, stack) \in Nat /\ Measure(Debt, immediates) \in Nat
      /\ Measure(Debt, stack') \in Nat
      /\ BatchCount(writeCallback) \in Nat /\ Len(buffer) \in Nat
  BY <1>1, <1>3, NumberTypes DEF Counters
<1>5. Debt[f] = Debt[g] + 1 /\ Debt[f] \in Nat /\ Debt[g] \in Nat
  <2>1. Debt[f] = BatchCount(f.batch) /\ Debt[f] \in Nat /\ Debt[g] \in Nat
    BY <1>1, <1>3, DebtOf
  <2>2. f.batch.vec \in BOOLEAN /\ Len(f.batch.reqs) \in Nat
    BY <1>1, BatchCountType DEF Batch
  <2>3. CASE f.batch.vec
    <3>1. Debt[g] = Len(f.batch.reqs)
      BY <1>3, <2>3, DebtOf
    <3> QED
      BY <2>1, <2>2, <2>3, <3>1 DEF BatchCount
  <2>4. CASE ~f.batch.vec
    <3>1. Debt[g] = 0
      BY <1>3, <2>4, DebtOf
    <3>2. Len(f.batch.reqs) = 1
      BY <1>1, <2>4 DEF Shape
    <3> QED
      BY <2>1, <2>2, <2>4, <3>1, <3>2 DEF BatchCount
  <2> QED
    BY <2>2, <2>3, <2>4
<1>6. pendingCallbacks' = Len(buffer') + BatchCount(writeCallback')
                          + Measure(Debt, stack') + Measure(Debt, immediates')
  <2>1. pendingCallbacks = Len(buffer) + BatchCount(writeCallback)
                           + Measure(Debt, stack) + Measure(Debt, immediates)
    BY DEF Counters
  <2>2. /\ Len(buffer') = Len(buffer) /\ BatchCount(writeCallback') = BatchCount(writeCallback)
        /\ Measure(Debt, immediates') = Measure(Debt, immediates)
    BY <1>2, <1>3
  <2> QED
    <3>1. Measure(Debt, stack') + 1 = Measure(Debt, stack)
      BY <1>3, <1>4, <1>5
    <3>2. pendingCallbacks' = Len(buffer) + BatchCount(writeCallback)
                              + Measure(Debt, stack') + Measure(Debt, immediates)
      BY <1>2, <1>4, <2>1, <3>1
    <3> QED
      BY <2>2, <3>2
<1>7. ASSUME NEW id \in 1 .. MaxWrites
      PROVE  Places(id)' = IF id <= calls' THEN 1 ELSE 0
  <2>1. PICK h \in Frame :
           /\ h.batch = f.batch
           /\ Measure(Has(id), stack') + Has(id)[f] = Measure(Has(id), stack) + Has(id)[h]
    BY ToAnswerWeight, HasWeight DEF Counters, f
  <2>2. Has(id)[h] = Has(id)[f] /\ Has(id)[f] \in Nat
    BY <1>1, <2>1, HasOf
  <2>3. Measure(Has(id), stack) \in Nat /\ Measure(Has(id), stack') \in Nat
    BY <1>1, <1>3, NumberTypes DEF Counters
  <2>4. Measure(Has(id), stack') = Measure(Has(id), stack)
    BY <2>1, <2>2, <2>3
  <2>5. Places(id)' = Places(id)
    BY <1>2, <1>3, <2>4 DEF Places
  <2> QED
    BY <1>2, <2>5 DEF Counters
<1>8. length' = Measure(Lengths, buffer') + writableLength'
  BY <1>2 DEF Counters
<1> QED
  BY <1>2, <1>3, <1>6, <1>7, <1>8 DEF Counters

\* From the frame that is deferred to the frame of a later turn, with its batch.
LEMMA DeferredCounts ==
    ASSUME IInv, Counters, Defer \/ RejectLater
    PROVE  Counters'
<1> DEFINE f == Head(stack)
<1>1. UNCHANGED <<writing, writeCallback, writableLength, length, buffer,
                  pendingCallbacks, calls, answered>>
  BY DEF Defer, RejectLater, logVars, queueVars, writeVars
<1>2. TypeOK /\ f \in Frame /\ f.op \in {"defer", "rejectLater"}
  BY HeadType DEF Defer, RejectLater, Owners, IInv
<1> HIDE DEF f
<1>3. PICK g \in Frame :
         /\ f.op = "defer" => g.op = "nextTick" /\ g.batch = f.batch
         /\ f.op = "rejectLater" => g.op = "answer" /\ ~g.batch.vec
         /\ Shaped(stack') /\ Shaped(immediates')
         /\ Measure(Debt, stack) = Debt[f] + Measure(Debt, stack')
         /\ Measure(Debt, immediates') = Measure(Debt, immediates) + Debt[g]
  <2>1. CASE Defer
    <3>1. f.op = "defer"
      BY <2>1, HeadType DEF Defer, Owners, f
    <3>2. PICK g \in Frame :
             /\ g.op = "nextTick" /\ g.batch = f.batch
             /\ Shaped(stack') /\ Shaped(immediates')
             /\ Measure(Debt, stack) = Debt[f] + Measure(Debt, stack')
             /\ Measure(Debt, immediates') = Measure(Debt, immediates) + Debt[g]
      BY <2>1, DeferWeight, DebtWeight DEF Counters, f
    <3> QED
      BY <3>1, <3>2
  <2>2. CASE RejectLater
    <3>1. f.op = "rejectLater"
      BY <2>2, HeadType DEF RejectLater, Owners, f
    <3>2. PICK g \in Frame :
             /\ g.op = "answer" /\ ~g.batch.vec
             /\ Shaped(stack') /\ Shaped(immediates')
             /\ Measure(Debt, stack) = Debt[f] + Measure(Debt, stack')
             /\ Measure(Debt, immediates') = Measure(Debt, immediates) + Debt[g]
      BY <2>2, RejectLaterWeight, DebtWeight DEF Counters, f
    <3> QED
      BY <3>1, <3>2
  <2> QED
    BY <2>1, <2>2
<1>4. Debt[f] = Debt[g] /\ Debt[f] \in Nat
  BY <1>2, <1>3, DebtOf
<1>5. /\ Measure(Debt, stack) \in Nat /\ Measure(Debt, immediates) \in Nat
      /\ Measure(Debt, stack') \in Nat /\ Measure(Debt, immediates') \in Nat
      /\ BatchCount(writeCallback) \in Nat /\ Len(buffer) \in Nat
  BY <1>2, <1>3, NumberTypes DEF Counters
<1>6. pendingCallbacks' = Len(buffer') + BatchCount(writeCallback')
                          + Measure(Debt, stack') + Measure(Debt, immediates')
  <2>1. pendingCallbacks = Len(buffer) + BatchCount(writeCallback)
                           + Measure(Debt, stack) + Measure(Debt, immediates)
    BY DEF Counters
  <2>2. /\ Len(buffer') = Len(buffer) /\ BatchCount(writeCallback') = BatchCount(writeCallback)
        /\ pendingCallbacks' = pendingCallbacks
    BY <1>1
  <2> QED
        <3>1. Measure(Debt, stack) = Debt[f] + Measure(Debt, stack')
              /\ Measure(Debt, immediates') = Measure(Debt, immediates) + Debt[f]
          BY <1>3, <1>4
        <3>2. Measure(Debt, stack') + Measure(Debt, immediates')
                 = Measure(Debt, stack) + Measure(Debt, immediates)
          BY <1>4, <1>5, <3>1
        <3>3. pendingCallbacks' = Len(buffer) + BatchCount(writeCallback)
                                  + Measure(Debt, stack') + Measure(Debt, immediates')
          BY <1>5, <2>1, <2>2, <3>2
        <3> QED
          BY <2>2, <3>3
<1>7. ASSUME NEW id \in 1 .. MaxWrites
      PROVE  Places(id)' = IF id <= calls' THEN 1 ELSE 0
  <2>1. PICK h \in Frame :
           /\ h.batch = f.batch
           /\ Measure(Has(id), stack) = Has(id)[f] + Measure(Has(id), stack')
           /\ Measure(Has(id), immediates') = Measure(Has(id), immediates) + Has(id)[h]
    <3>1. CASE Defer
      BY <3>1, DeferWeight, HasWeight DEF Counters, f
    <3>2. CASE RejectLater
      BY <3>2, RejectLaterWeight, HasWeight DEF Counters, f
    <3> QED
      BY <3>1, <3>2
  <2>2. Has(id)[h] = Has(id)[f] /\ Has(id)[f] \in Nat
    BY <1>2, <2>1, HasOf
  <2>3. /\ Measure(Has(id), stack) \in Nat /\ Measure(Has(id), immediates) \in Nat
        /\ Measure(Has(id), stack') \in Nat /\ Measure(Has(id), immediates') \in Nat
        /\ Measure(IsId(id), buffer) \in Nat
        /\ Measure(IsId(id), writeCallback.reqs) \in Nat
        /\ Measure(Same(id), answered) \in Nat
    BY <1>2, <1>3, NumberTypes DEF Counters
  <2>4. Places(id)' = Measure(IsId(id), buffer) + Measure(IsId(id), writeCallback.reqs)
                      + Measure(Has(id), stack') + Measure(Has(id), immediates')
                      + Measure(Same(id), answered)
    BY <1>1 DEF Places
  <2>5. Places(id)' = Places(id)
    BY <2>1, <2>2, <2>3, <2>4 DEF Places
  <2> QED
    BY <1>1, <2>5 DEF Counters
<1>8. length' = Measure(Lengths, buffer') + writableLength'
  BY <1>1 DEF Counters
<1> QED
  BY <1>1, <1>3, <1>6, <1>7, <1>8 DEF Counters

LEMMA AnswerCounts ==
    ASSUME IInv, Counters, Answer
    PROVE  Counters'
<1> DEFINE f == Head(stack)
           b == f.batch
           r == Head(b.reqs)
           done == Len(b.reqs) = 1
<1>1. /\ TypeOK /\ f \in Frame /\ f.op = "answer" /\ b \in Batch /\ b.vec \in BOOLEAN
      /\ b.reqs \in Seq(Request) /\ b.reqs # <<>> /\ pendingCallbacks \in Int
      /\ answered \in Seq(1 .. MaxWrites)
  BY HeadType DEF Answer, Owners, IInv, TypeOK
<1>2. /\ r \in Request /\ Tail(b.reqs) \in Seq(Request)
      /\ Len(Tail(b.reqs)) = Len(b.reqs) - 1 /\ Len(b.reqs) \in Nat \ {0}
  BY <1>1, HeadTailProperties, LenProperties, EmptySeq
<1>3. /\ calls' = calls /\ answered' = Append(answered, r.id) /\ buffer' = buffer
      /\ pendingCallbacks' = pendingCallbacks - OwnCount(b) /\ length' = length
      /\ writing' = writing /\ writeCallback' = writeCallback
      /\ writableLength' = writableLength
  BY DEF Answer, queueVars, writeVars
<1>4. /\ Shaped(stack') /\ immediates' = immediates
      /\ \/ done /\ Measure(Debt, stack') + Debt[f] = Measure(Debt, stack)
         \/ /\ ~done
            /\ \E g \in Frame :
                  /\ g.op = "answer" /\ g.batch.vec = b.vec /\ g.batch.reqs = Tail(b.reqs)
                  /\ Measure(Debt, stack') + Debt[f] = Measure(Debt, stack) + Debt[g]
  <2>1. /\ Shaped(stack') /\ immediates' = immediates
        /\ \/ done /\ Measure(Debt, stack') + Debt[f] = Measure(Debt, stack)
           \/ /\ Len(b.reqs) > 1
              /\ \E g \in Frame :
                    /\ g.op = "answer" /\ g.batch.vec = b.vec /\ g.batch.reqs = Tail(b.reqs)
                    /\ Measure(Debt, stack') + Debt[f] = Measure(Debt, stack) + Debt[g]
    BY AnswerWeight, DebtWeight DEF Counters
  <2>2. Len(b.reqs) > 1 => ~done
        <3>1. \A n \in Nat : n > 1 => n # 1
          OBVIOUS
        <3>2. Len(b.reqs) \in Nat
          BY <1>2
        <3> QED
          BY <3>1, <3>2
  <2> QED
    BY <2>1, <2>2
<1> HIDE DEF f, b, r, done
<1>5. /\ Measure(Debt, stack) \in Nat /\ Measure(Debt, immediates) \in Nat
      /\ Measure(Debt, stack') \in Nat
      /\ BatchCount(writeCallback) \in Nat /\ Len(buffer) \in Nat
  BY <1>1, <1>4, NumberTypes DEF Counters
<1>6. Measure(Debt, stack') + OwnCount(b) = Measure(Debt, stack) /\ OwnCount(b) \in Nat
  <2>1. /\ b.vec => Debt[f] = Len(b.reqs)
        /\ ~b.vec => Debt[f] = 0
    BY <1>1, DebtOf DEF b
  <2>2. CASE done
    BY <1>1, <1>4, <1>5, <2>1, <2>2 DEF OwnCount, done
  <2>3. CASE ~done
    <3>1. PICK g \in Frame :
             /\ g.op = "answer" /\ g.batch.vec = b.vec /\ g.batch.reqs = Tail(b.reqs)
             /\ Measure(Debt, stack') + Debt[f] = Measure(Debt, stack) + Debt[g]
      BY <1>4, <2>3
    <3>2. /\ b.vec => Debt[g] = Len(b.reqs) - 1
          /\ ~b.vec => Debt[g] = 0
      BY <1>1, <1>2, <3>1, DebtOf
    <3> QED
      BY <1>1, <1>2, <1>5, <2>1, <3>1, <3>2, SMTT(30) DEF OwnCount
  <2> QED
    BY <2>2, <2>3
<1>7. pendingCallbacks' = Len(buffer') + BatchCount(writeCallback')
                          + Measure(Debt, stack') + Measure(Debt, immediates')
  <2>1. pendingCallbacks = Len(buffer) + BatchCount(writeCallback)
                           + Measure(Debt, stack) + Measure(Debt, immediates)
    BY DEF Counters
  <2>2. /\ Len(buffer') = Len(buffer) /\ BatchCount(writeCallback') = BatchCount(writeCallback)
        /\ Measure(Debt, immediates') = Measure(Debt, immediates)
    BY <1>3, <1>4
  <2> QED
    BY <1>3, <1>5, <1>6, <2>1, <2>2, SMTT(30)
<1>8. ASSUME NEW id \in 1 .. MaxWrites
      PROVE  Places(id)' = IF id <= calls' THEN 1 ELSE 0
  <2> DEFINE one == IF r.id = id THEN 1 ELSE 0
  <2>1. Has(id)[f] = one + Measure(IsId(id), Tail(b.reqs))
    <3>1. Has(id)[f] = Measure(IsId(id), b.reqs)
      BY <1>1, HasOf DEF b
    <3>2. Measure(IsId(id), b.reqs) = IsId(id)[r] + Measure(IsId(id), Tail(b.reqs))
      BY <1>1, IsIdType, MeasureHead DEF r
    <3>3. IsId(id)[r] = one
      BY <1>2 DEF IsId
    <3> QED
      BY <3>1, <3>2, <3>3
  <2>2. Measure(IsId(id), Tail(b.reqs)) \in Nat /\ one \in Nat
    BY <1>2, IsIdType, MeasureType
  <2>3. Measure(Same(id), answered') = Measure(Same(id), answered) + one
    <3>1. r.id \in 1 .. MaxWrites
      BY <1>2 DEF Request
    <3>2. Measure(Same(id), Append(answered, r.id))
             = Measure(Same(id), answered) + Same(id)[r.id]
            <4>1. Same(id) \in [1 .. MaxWrites -> Int]
              BY IsIdType
            <4> QED
              BY <1>1, <3>1, <4>1, MeasureAppend
    <3>3. Same(id)[r.id] = one
      BY <3>1 DEF Same
    <3> QED
      BY <1>3, <3>2, <3>3
  <2> HIDE DEF one
  <2>4. /\ Measure(Has(id), stack) \in Nat /\ Measure(Has(id), immediates) \in Nat
        /\ Measure(Has(id), stack') \in Nat
        /\ Measure(IsId(id), buffer) \in Nat
        /\ Measure(IsId(id), writeCallback.reqs) \in Nat
        /\ Measure(Same(id), answered) \in Nat
    BY <1>1, <1>4, NumberTypes DEF Counters
  <2>5. Measure(Has(id), stack') + one = Measure(Has(id), stack)
    <3>1. CASE done
      <4>1. Tail(b.reqs) = <<>>
                <5>1. Len(Tail(b.reqs)) = 0
                  BY <1>2, <3>1 DEF done
                <5> QED
                  BY <1>2, <5>1, EmptySeq
      <4>2. Measure(IsId(id), Tail(b.reqs)) = 0
        BY <4>1, MeasureEmpty
      <4>3. Measure(Has(id), stack') + Has(id)[f] = Measure(Has(id), stack)
                <5>1. \/ Measure(Has(id), stack') + Has(id)[f] = Measure(Has(id), stack)
                      \/ Len(b.reqs) > 1
                  BY AnswerWeight, HasWeight DEF Counters, f, b
                <5>2. ~(Len(b.reqs) > 1)
                  BY <3>1 DEF done
                <5> QED
                  BY <5>1, <5>2
      <4> QED
        BY <2>1, <2>2, <2>4, <4>2, <4>3
    <3>2. CASE ~done
      <4>1. PICK g \in Frame :
               /\ g.batch.reqs = Tail(b.reqs)
               /\ Measure(Has(id), stack') + Has(id)[f] = Measure(Has(id), stack) + Has(id)[g]
        BY <3>2, AnswerWeight, HasWeight DEF Counters, done, f, b
      <4>2. Has(id)[g] = Measure(IsId(id), Tail(b.reqs))
        BY <4>1, HasOf
      <4> QED
        BY <2>1, <2>2, <2>4, <4>1, <4>2
    <3> QED
      BY <3>1, <3>2
  <2>6. Places(id)' = Measure(IsId(id), buffer) + Measure(IsId(id), writeCallback.reqs)
                      + Measure(Has(id), stack') + Measure(Has(id), immediates)
                      + Measure(Same(id), answered')
    BY <1>3, <1>4 DEF Places
  <2>7. Places(id)' = Places(id)
    BY <2>2, <2>3, <2>4, <2>5, <2>6 DEF Places
  <2> QED
    BY <1>3, <2>7 DEF Counters
<1>9. length' = Measure(Lengths, buffer') + writableLength'
  BY <1>3 DEF Counters
<1> QED
  BY <1>3, <1>4, <1>7, <1>8, <1>9 DEF Counters

LEMMA CountersStep ==
    ASSUME IInv, Counters, [Next]_vars
    PROVE  Counters'
<1>1. TypeOK
  BY DEF IInv
<1>2. CASE \/ SyncOff \/ EmitError \/ FlushEnd \/ MaybeFinish \/ FinishCheck \/ EndWritable
           \/ Ended \/ Return \/ SinkCompletes \/ Cork \/ Uncork \/ Finish
  <2>1. UNCHANGED <<writing, writeCallback, writableLength, length, buffer,
                    pendingCallbacks, calls, answered>>
    BY <1>2 DEF SyncOff, EmitError, FlushEnd, MaybeFinish, FinishCheck, EndWritable, Ended,
                Return, SinkCompletes, Cork, Uncork, Finish, writeVars, queueVars, logVars
  <2>2. PlainStep
    BY <1>2 DEF PlainStep
  <2>3. \A m : Weight(m) => /\ Shaped(stack') /\ immediates' = immediates
                            /\ Measure(m, stack') = Measure(m, stack)
    BY <2>2, PlainWeight DEF Counters
  <2>4. Shaped(stack') /\ immediates' = immediates
    BY <2>3, DebtWeight
  <2>5. Shaped(immediates')
    BY <2>4 DEF Counters
  <2>6. \A m : Weight(m) => Measure(m, stack') + Measure(m, immediates')
                               = Measure(m, stack) + Measure(m, immediates)
    BY <2>3
  <2> QED
    BY <1>1, <2>1, <2>4, <2>5, <2>6, FramesKept
<1>3. CASE RunImmediate
  <2>1. UNCHANGED <<writing, writeCallback, writableLength, length, buffer,
                    pendingCallbacks, calls, answered>>
    BY <1>3 DEF RunImmediate, writeVars, queueVars, logVars
  <2>2. \A m : Weight(m) => /\ Shaped(stack') /\ Shaped(immediates')
                            /\ Measure(m, stack') + Measure(m, immediates')
                                  = Measure(m, stack) + Measure(m, immediates)
    BY <1>3, RunImmediateWeight DEF Counters
  <2>3. Shaped(stack') /\ Shaped(immediates')
    BY <2>2, DebtWeight
  <2> QED
    BY <1>1, <2>1, <2>2, <2>3, FramesKept
<1>4. CASE UNCHANGED vars
  <2>1. UNCHANGED <<writing, writeCallback, writableLength, length, buffer,
                    pendingCallbacks, calls, answered, stack, immediates>>
    BY <1>4 DEF vars, writeVars, queueVars, logVars
  <2> QED
    BY <2>1 DEF Counters, Places
<1>5. CASE \E len \in ChunkLengths : Write(len) \/ WriteRejected(len)
  BY <1>5, WriteCounts, WriteRejectedCounts
<1>6. CASE FlushBuffer \/ FlushLoop \/ OnWriteCompleted
  BY <1>6, FlushBufferCounts, FlushLoopCounts, CompletedCounts
<1>7. CASE Failed \/ OnWriteCompletedNextTick \/ Answer \/ Defer \/ RejectLater
  BY <1>7, ToAnswerCounts, AnswerCounts, DeferredCounts
<1> QED
  BY <1>2, <1>3, <1>4, <1>5, <1>6, <1>7 DEF Next, UserCall, StreamStep

LEMMA CountersInit == Init => Counters
<1> SUFFICES ASSUME Init PROVE Counters
  OBVIOUS
<1>1. /\ buffer = <<>> /\ stack = <<>> /\ immediates = <<>> /\ answered = <<>>
      /\ writeCallback = NoBatch /\ ~writing /\ length = 0 /\ writableLength = 0
      /\ pendingCallbacks = 0 /\ calls = 0
  BY DEF Init
<1>2. /\ Shaped(stack) /\ Shaped(immediates) /\ Len(buffer) = 0
  BY <1>1 DEF Shaped
<1>3. /\ \A m : /\ Measure(m, buffer) = 0 /\ Measure(m, stack) = 0
                /\ Measure(m, immediates) = 0 /\ Measure(m, answered) = 0
                /\ Measure(m, writeCallback.reqs) = 0
      /\ BatchCount(writeCallback) = 0
  BY <1>1, MeasureEmpty, NoBatchCounts
<1>4. ASSUME NEW id \in 1 .. MaxWrites
      PROVE  Places(id) = IF id <= calls THEN 1 ELSE 0
  BY <1>1, <1>3 DEF Places
<1> QED
  BY <1>1, <1>2, <1>3, <1>4 DEF Counters

LEMMA CountersAlways == Spec => [](IInv /\ Counters)
<1>1. IInv /\ Counters /\ [Next]_vars => (IInv /\ Counters)'
  BY StreamStepKeeps, OtherStepKeeps, CountersStep DEF Next
<1>2. Init => IInv /\ Counters
  BY InitIInv, CountersInit
<1> QED
  BY <1>1, <1>2, PTL DEF Spec

LEMMA OwedIs == ASSUME NEW s \in Seq(Frame) PROVE Owed(s) = Measure(Debt, s)
<1>1. \A i \in DOMAIN s : s[i] \in Frame
  BY LenProperties, ElementOfSeq
<1>2. \A i \in DOMAIN s : OwedByFrame(s[i]) = Debt[s[i]]
  BY <1>1 DEF Debt
<1>3. [i \in DOMAIN s |-> OwedByFrame(s[i])] = [i \in DOMAIN s |-> Debt[s[i]]]
  BY <1>2
<1> QED
  BY <1>3 DEF Owed, Measure

LEMMA BytesAre == ASSUME NEW s \in Seq(Request) PROVE BytesOf(s) = Measure(Lengths, s)
<1>1. \A i \in DOMAIN s : s[i] \in Request
  BY LenProperties, ElementOfSeq
<1>2. \A i \in DOMAIN s : s[i].len = Lengths[s[i]]
  BY <1>1 DEF Lengths
<1>3. [i \in DOMAIN s |-> s[i].len] = [i \in DOMAIN s |-> Lengths[s[i]]]
  BY <1>2
<1> QED
  BY <1>3 DEF BytesOf, Measure

\* A write has one place, so its callback is not called twice, nor before its time.
LEMMA OnePlaceOnce == IInv /\ Counters => AnsweredOnce
<1> SUFFICES ASSUME IInv, Counters PROVE AnsweredOnce
  OBVIOUS
<1>1. /\ TypeOK /\ answered \in Seq(1 .. MaxWrites) /\ writeCallback.reqs \in Seq(Request)
      /\ DOMAIN answered = 1 .. Len(answered) /\ Len(answered) \in Nat
      /\ DOMAIN writeCallback.reqs = 1 .. Len(writeCallback.reqs)
  BY LenProperties DEF IInv, TypeOK, Batch
<1>2. ASSUME NEW id \in 1 .. MaxWrites
      PROVE  /\ Measure(Same(id), answered) \in Nat
             /\ Measure(IsId(id), writeCallback.reqs) \in Nat
             /\ Measure(Same(id), answered) + Measure(IsId(id), writeCallback.reqs) <= 1
  <2>1. /\ Measure(Has(id), stack) \in Nat /\ Measure(Has(id), immediates) \in Nat
        /\ Measure(IsId(id), buffer) \in Nat
        /\ Measure(IsId(id), writeCallback.reqs) \in Nat
        /\ Measure(Same(id), answered) \in Nat
    BY <1>1, NumberTypes DEF Counters
  <2>2. Places(id) = 0 \/ Places(id) = 1
    BY DEF Counters
  <2> QED
    BY <2>1, <2>2 DEF Places
<1>3. ASSUME NEW i \in DOMAIN answered, NEW j \in DOMAIN answered, i < j,
             answered[i] = answered[j]
      PROVE  FALSE
  <2> DEFINE id == answered[i]
             m == Same(id)
  <2>1. id \in 1 .. MaxWrites /\ answered[j] = id
        <3>1. \A k \in 1 .. Len(answered) : answered[k] \in 1 .. MaxWrites
          BY <1>1, ElementOfSeq
        <3> QED
          BY <1>1, <1>3, <3>1
  <2>2. m \in [1 .. MaxWrites -> Nat] /\ m[id] = 1
    BY <2>1 DEF Same
  <2>3. /\ Measure(m, answered) \in Nat /\ Measure(IsId(id), writeCallback.reqs) \in Nat
        /\ Measure(m, answered) + Measure(IsId(id), writeCallback.reqs) <= 1
    BY <1>2, <2>1
  <2> HIDE DEF m
  <2>4. m[answered[i]] + m[answered[j]] <= Measure(m, answered)
    BY <1>1, <1>3, <2>2, MeasureAtLeast
  <2>5. m[answered[i]] = 1 /\ m[answered[j]] = 1
    BY <2>1, <2>2
  <2> HIDE DEF id
  <2> QED
    BY <2>3, <2>4, <2>5
<1>4. ASSUME NEW i \in DOMAIN answered, NEW j \in DOMAIN writeCallback.reqs,
             answered[i] = writeCallback.reqs[j].id
      PROVE  FALSE
  <2> DEFINE id == answered[i]
             r == writeCallback.reqs[j]
             m == Same(id)
             o == IsId(id)
  <2>1. id \in 1 .. MaxWrites /\ r.id = id /\ r \in Request
        <3>1. \A k \in 1 .. Len(answered) : answered[k] \in 1 .. MaxWrites
          BY <1>1, ElementOfSeq
        <3>2. \A k \in 1 .. Len(writeCallback.reqs) : writeCallback.reqs[k] \in Request
          BY <1>1, ElementOfSeq
        <3> QED
          BY <1>1, <1>4, <3>1, <3>2
  <2>2. m \in [1 .. MaxWrites -> Nat] /\ m[id] = 1 /\ o \in [Request -> Nat] /\ o[r] = 1
    BY <2>1 DEF Same, IsId
  <2>3. /\ Measure(m, answered) \in Nat /\ Measure(o, writeCallback.reqs) \in Nat
        /\ Measure(m, answered) + Measure(o, writeCallback.reqs) <= 1
    BY <1>2, <2>1
  <2> HIDE DEF m, o
  <2>4. m[answered[i]] <= Measure(m, answered)
    BY <1>1, <2>2, MeasureAtLeast
  <2>5. o[writeCallback.reqs[j]] <= Measure(o, writeCallback.reqs)
    BY <1>1, <2>2, MeasureAtLeast
  <2>6. 1 <= Measure(m, answered) /\ 1 <= Measure(o, writeCallback.reqs)
    BY <2>2, <2>4, <2>5
  <2> HIDE DEF id, r
  <2> QED
    BY <2>3, <2>6
<1>5. \A i, j \in DOMAIN answered : answered[i] = answered[j] => i = j
  <2> SUFFICES ASSUME NEW i \in DOMAIN answered, NEW j \in DOMAIN answered,
                      answered[i] = answered[j], i # j
               PROVE  FALSE
    OBVIOUS
  <2>1. i < j \/ j < i
    BY <1>1
  <2> QED
    BY <1>3, <2>1
<1> QED
  BY <1>4, <1>5 DEF AnsweredOnce

\* CountersExact: pendingCallbacks and `length' agree at every step with the queue,
\* the write in progress and the completions still to be run, deferred, batched or
\* failed; no write callback is called twice or while its chunk is being written.
THEOREM CountersAreExact == Spec => []CountersExact
<1>1. IInv /\ Counters => CountersExact
  <2> SUFFICES ASSUME IInv, Counters PROVE CountersExact
    OBVIOUS
  <2>1. AnsweredOnce
    BY OnePlaceOnce
  <2>2. Owed(stack) = Measure(Debt, stack) /\ Owed(immediates) = Measure(Debt, immediates)
        /\ BytesOf(buffer) = Measure(Lengths, buffer)
    BY OwedIs, BytesAre DEF IInv, TypeOK
  <2> QED
    BY <2>1, <2>2 DEF Counters, CountersExact
<1> QED
  BY <1>1, CountersAlways, PTL

\* No write() is lost and none is held twice: from the call to its callback its
\* request is in exactly one place, the buffer, the write in progress, the code that
\* is still to call it back, in this turn or deferred, or the callbacks called.
EveryWriteKept == \A id \in 1 .. calls : Places(id) = 1

\* However the completions, the callbacks and the writes they make are nested
\* (_onWriteCompleted and what it defers).
THEOREM WritesAreKept == Spec => []EveryWriteKept
<1>1. IInv /\ Counters => EveryWriteKept
  BY WritableAssumption DEF IInv, TypeOK, Counters, EveryWriteKept
<1> QED
  BY <1>1, CountersAlways, PTL

-----------------------------------------------------------------------------
(* 'finish'.  Once the stream is idle and ended it stays so, as long as its *)
(* users do not write between finish() and its return; _maybeFinish asks    *)
(* for that state before 'prefinish', and while the listeners of            *)
(* 'prefinish' run nothing but their own calls can run above it.            *)

Idle == ending /\ ~writing /\ buffer = <<>> /\ length = 0

Quiet == {"user", "flush", "endWritable", "rejectLater"}

NoCheck(s) == \A i \in DOMAIN s : s[i].op # "finishCheck"

Checked(s) == \A i, j \in DOMAIN s : i < j /\ s[j].op = "finishCheck" => s[i].op \in Quiet

Finishing ==
    /\ finishes = IF writableFinished THEN 1 ELSE 0
    /\ writableFinished => Idle
    /\ Checked(stack)
    /\ NoCheck(stack) \/ (Idle /\ ~writableFinished)

LEMMA NoCheckPush ==
    ASSUME NEW f \in Frame, NEW s \in Seq(Frame), NoCheck(s), f.op # "finishCheck"
    PROVE  Push(f, s) \in Seq(Frame) /\ NoCheck(Push(f, s))
<1>1. /\ f.op \notin {"finishCheck"} /\ \A i \in DOMAIN s : s[i].op \notin {"finishCheck"}
  BY DEF NoCheck
<1> DEFINE ops == {"finishCheck"}
<1>2. f.op \notin ops /\ \A i \in DOMAIN s : s[i].op \notin ops
  BY <1>1
<1> HIDE DEF ops
<1>3. \A i \in DOMAIN Push(f, s) : Push(f, s)[i].op \notin ops
  BY <1>2, PushOps
<1>4. Push(f, s) \in Seq(Frame)
  BY PushElements
<1> QED
  BY <1>3, <1>4 DEF NoCheck, ops

LEMMA NoCheckChecked == ASSUME NEW s, NoCheck(s) PROVE Checked(s)
BY DEF NoCheck, Checked

LEMMA CheckedPush ==
    ASSUME NEW f \in Frame, NEW s \in Seq(Frame), Checked(s), f.op \in Quiet \/ NoCheck(s)
    PROVE  Push(f, s) \in Seq(Frame) /\ Checked(Push(f, s))
<1> DEFINE t == Push(f, s)
<1>1. /\ t \in Seq(Frame) /\ DOMAIN t = 1 .. Len(s) + 1 /\ t[1] = f
      /\ \A i \in 2 .. Len(s) + 1 : t[i] = s[i - 1] /\ i - 1 \in DOMAIN s
  BY PushElements
<1>2. Len(s) \in Nat
  BY LenProperties
<1> HIDE DEF t
<1>3. ASSUME NEW i \in DOMAIN t, NEW j \in DOMAIN t, i < j, t[j].op = "finishCheck"
      PROVE  t[i].op \in Quiet
  <2>1. j \in 2 .. Len(s) + 1
    BY <1>1, <1>2, <1>3
  <2>2. CASE i = 1
    BY <1>1, <1>3, <2>1, <2>2 DEF NoCheck
  <2>3. CASE i # 1
    <3>1. i \in 2 .. Len(s) + 1 /\ i - 1 < j - 1
      BY <1>1, <1>2, <1>3, <2>3
    <3> QED
      BY <1>1, <1>3, <2>1, <3>1 DEF Checked
  <2> QED
    BY <2>2, <2>3
<1> QED
  BY <1>1, <1>3 DEF Checked, t

LEMMA CheckedPop ==
    ASSUME NEW s \in Seq(Frame), s # <<>>, Checked(s)
    PROVE  /\ Checked(Tail(s)) /\ Head(s) \in Frame /\ Tail(s) \in Seq(Frame)
           /\ Head(s).op \notin Quiet => NoCheck(Tail(s))
           /\ NoCheck(s) => NoCheck(Tail(s))
<1>1. /\ Len(s) \in Nat \ {0} /\ DOMAIN s = 1 .. Len(s) /\ Head(s) = s[1]
      /\ Head(s) \in Frame /\ Tail(s) \in Seq(Frame)
      /\ DOMAIN Tail(s) = 1 .. Len(s) - 1
      /\ \A i \in 1 .. Len(s) - 1 : Tail(s)[i] = s[i + 1]
  BY LenProperties, EmptySeq, HeadTailProperties
<1>2. /\ 1 \in DOMAIN s
      /\ \A i \in DOMAIN Tail(s) : i + 1 \in DOMAIN s /\ 1 < i + 1 /\ Tail(s)[i] = s[i + 1]
  BY <1>1
<1>3. \A i, j \in DOMAIN Tail(s) : i < j => i + 1 < j + 1
  BY <1>1
<1>4. Checked(Tail(s))
  <2> SUFFICES ASSUME NEW i \in DOMAIN Tail(s), NEW j \in DOMAIN Tail(s), i < j,
                      Tail(s)[j].op = "finishCheck"
               PROVE  Tail(s)[i].op \in Quiet
    BY DEF Checked
  <2>1. i + 1 \in DOMAIN s /\ j + 1 \in DOMAIN s /\ i + 1 < j + 1
    BY <1>2, <1>3
  <2> QED
    BY <1>2, <2>1 DEF Checked
<1>5. Head(s).op \notin Quiet => NoCheck(Tail(s))
  BY <1>1, <1>2 DEF Checked, NoCheck
<1>6. NoCheck(s) => NoCheck(Tail(s))
  BY <1>2 DEF NoCheck
<1> QED
  BY <1>1, <1>4, <1>5, <1>6

LEMMA CheckedRest ==
    ASSUME IInv, Finishing, NEW op, Running(op)
    PROVE  /\ Rest \in Seq(Frame) /\ Checked(Rest) /\ Head(stack) \in Frame
           /\ op \notin Quiet => NoCheck(Rest)
           /\ NoCheck(Rest) \/ (Idle /\ ~writableFinished)
<1>1. stack \in Seq(Frame) /\ stack # <<>> /\ Head(stack).op = op
  BY DEF IInv, TypeOK, Running
<1> QED
  BY <1>1, CheckedPop DEF Finishing, Rest

LEMMA NoCheckOnWrite ==
    ASSUME NEW rest \in Seq(Frame), NoCheck(rest), NEW batch, NEW len,
           OnWrite(batch, len, rest)
    PROVE  NoCheck(stack')
<1>1. CASE stack' = rest
  BY <1>1
<1>2. CASE \E a \in SinkAnswers \cap {"now", "failNow"} :
             stack' = Push(FrameFor("completed", NoBatch, a = "now"),
                           Push(FrameOf("syncOff"), rest))
  <2>1. PICK a \in SinkAnswers \cap {"now", "failNow"} :
             stack' = Push(FrameFor("completed", NoBatch, a = "now"),
                           Push(FrameOf("syncOff"), rest))
    BY <1>2
  <2> DEFINE f == FrameFor("completed", NoBatch, a = "now")
             g == FrameOf("syncOff")
  <2>2. f \in Frame /\ g \in Frame /\ f.op = "completed" /\ g.op = "syncOff"
    <3>1. "completed" \in FrameOps /\ "syncOff" \in FrameOps /\ (a = "now") \in BOOLEAN
      BY DEF FrameOps
    <3> QED
      BY <3>1, NoBatchType, FrameForType, FrameOfType
  <2> HIDE DEF f, g
  <2>3. Push(g, rest) \in Seq(Frame) /\ NoCheck(Push(g, rest))
    BY <2>2, NoCheckPush
  <2>4. NoCheck(Push(f, Push(g, rest)))
    BY <2>2, <2>3, NoCheckPush
  <2> QED
    BY <2>1, <2>4 DEF f, g
<1> QED
  BY <1>1, <1>2 DEF OnWrite

\* Frames that are pushed one above the other, none of which waits to finish.
LEMMA NoCheckFrames ==
    ASSUME NEW s \in Seq(Frame), NoCheck(s)
    PROVE  /\ NoCheck(Push(UserFrame, s)) /\ Push(UserFrame, s) \in Seq(Frame)
           /\ \A op \in FrameOps \ {"finishCheck"} :
                 NoCheck(Push(FrameOf(op), s)) /\ Push(FrameOf(op), s) \in Seq(Frame)
           /\ \A op \in FrameOps \ {"finishCheck"}, b \in Batch, x \in BOOLEAN :
                 /\ NoCheck(Push(FrameFor(op, b, x), s))
                 /\ Push(FrameFor(op, b, x), s) \in Seq(Frame)
           /\ \A n \in Nat : NoCheck(Push(LoopFrame(n), s)) /\ Push(LoopFrame(n), s) \in Seq(Frame)
<1>1. NoCheck(Push(UserFrame, s)) /\ Push(UserFrame, s) \in Seq(Frame)
  BY UserFrameType, NoCheckPush
<1>2. ASSUME NEW op \in FrameOps \ {"finishCheck"}
      PROVE  NoCheck(Push(FrameOf(op), s)) /\ Push(FrameOf(op), s) \in Seq(Frame)
  <2>1. FrameOf(op) \in Frame /\ FrameOf(op).op # "finishCheck"
    BY FrameOfType
  <2> QED
    BY <2>1, NoCheckPush
<1>3. ASSUME NEW op \in FrameOps \ {"finishCheck"}, NEW b \in Batch, NEW x \in BOOLEAN
      PROVE  /\ NoCheck(Push(FrameFor(op, b, x), s))
             /\ Push(FrameFor(op, b, x), s) \in Seq(Frame)
  <2>1. FrameFor(op, b, x) \in Frame /\ FrameFor(op, b, x).op # "finishCheck"
    BY FrameForType
  <2> QED
    BY <2>1, NoCheckPush
<1>4. ASSUME NEW n \in Nat
      PROVE  NoCheck(Push(LoopFrame(n), s)) /\ Push(LoopFrame(n), s) \in Seq(Frame)
  <2>1. LoopFrame(n) \in Frame /\ LoopFrame(n).op # "finishCheck"
    BY LoopFrameType
  <2> QED
    BY <2>1, NoCheckPush
<1> QED
  BY <1>1, <1>2, <1>3, <1>4

\* A step that leaves no pending check, and the idle stream idle.
LEMMA FinishingKept ==
    ASSUME Finishing, NoCheck(stack'),
           finishes' = finishes, writableFinished' = writableFinished,
           writableFinished => Idle'
    PROVE  Finishing'
BY NoCheckChecked DEF Finishing

LEMMA FinishingStep ==
    ASSUME ~WritesInFinish, IInv, Finishing, [Next]_vars
    PROVE  Finishing'
<1> USE DEF flagVars, writeVars, queueVars, logVars
<1>0. /\ {"completed", "defer", "nextTick", "failed", "answer", "emitError", "flush",
          "flushEnd", "maybeFinish", "ended", "endWritable", "rejectLater"}
            \subseteq FrameOps \ {"finishCheck"}
      /\ \A op \in {"syncOff", "completed", "defer", "failed", "emitError", "nextTick",
                    "answer", "loop", "flushEnd", "maybeFinish", "finishCheck", "ended"} :
            op \notin Quiet
      /\ FALSE \in BOOLEAN /\ TypeOK
  BY DEF FrameOps, Quiet, IInv
<1>1. CASE SyncOff \/ FlushEnd \/ Defer
  <2>1. NoCheck(Rest) /\ stack' = Rest
    BY <1>0, <1>1, CheckedRest DEF SyncOff, FlushEnd, Defer
  <2>2. /\ finishes' = finishes /\ writableFinished' = writableFinished
        /\ Idle' = Idle
    BY <1>1 DEF SyncOff, FlushEnd, Defer, Idle
  <2> QED
    BY <2>1, <2>2, FinishingKept DEF Finishing
<1>2. CASE EmitError \/ Ended
  <2>1. NoCheck(Rest) /\ Rest \in Seq(Frame) /\ stack' = Push(UserFrame, Rest)
    BY <1>0, <1>2, CheckedRest DEF EmitError, Ended
  <2>2. NoCheck(stack')
    BY <2>1, NoCheckFrames
  <2>3. /\ finishes' = finishes /\ writableFinished' = writableFinished
        /\ Idle' = Idle
    BY <1>2 DEF EmitError, Ended, Idle
  <2> QED
    BY <2>2, <2>3, FinishingKept DEF Finishing
<1>3. CASE OnWriteCompleted
  <2> DEFINE x == NeedFinish(length - writableLength, FALSE)
             op == IF sync THEN "defer" ELSE "nextTick"
             b == writeCallback
  <2>1. NoCheck(Rest) /\ Rest \in Seq(Frame)
    BY <1>0, <1>3, CheckedRest DEF OnWriteCompleted
  <2>2. writing /\ ~Idle /\ b \in Batch /\ x \in BOOLEAN
    BY <1>3 DEF OnWriteCompleted, IInv, TypeOK, Idle, NeedFinish
  <2>3. \/ stack' = Push(FrameFor(op, b, x), Rest)
        \/ stack' = Push(FrameOf("flush"), Push(FrameFor(op, b, x), Rest))
        \/ stack' = Push(FrameOf("emitError"), Rest)
        \/ stack' = Push(FrameFor("failed", b, FALSE), Push(FrameOf("emitError"), Rest))
    BY <1>3 DEF OnWriteCompleted, AfterSuccess, AfterFailure, PushIf
  <2>4. op \in FrameOps \ {"finishCheck"}
    BY <1>0
  <2> HIDE DEF x, op, b
  <2>5. /\ NoCheck(Push(FrameFor(op, b, x), Rest))
        /\ Push(FrameFor(op, b, x), Rest) \in Seq(Frame)
        /\ NoCheck(Push(FrameOf("emitError"), Rest))
        /\ Push(FrameOf("emitError"), Rest) \in Seq(Frame)
    BY <1>0, <2>1, <2>2, <2>4, NoCheckFrames
  <2>6. NoCheck(stack')
    <3>1. NoCheck(Push(FrameOf("flush"), Push(FrameFor(op, b, x), Rest)))
      BY <1>0, <2>5, NoCheckFrames
    <3>2. NoCheck(Push(FrameFor("failed", b, FALSE), Push(FrameOf("emitError"), Rest)))
      BY <1>0, <2>2, <2>5, NoCheckFrames
    <3> QED
      BY <2>3, <2>5, <3>1, <3>2
  <2>7. finishes' = finishes /\ writableFinished' = writableFinished /\ ~writableFinished
    BY <1>3, <2>2 DEF OnWriteCompleted, Finishing
  <2> QED
    BY <2>6, <2>7, FinishingKept
<1>4. CASE Failed \/ OnWriteCompletedNextTick
  <2> DEFINE b == Head(stack).batch
  <2>1. NoCheck(Rest) /\ Rest \in Seq(Frame) /\ b \in Batch
    BY <1>0, <1>4, CheckedRest, HeadType DEF Failed, OnWriteCompletedNextTick, Owners
  <2>2. \/ stack' = Push(FrameFor("answer", b, FALSE), Rest)
        \/ stack' = Push(FrameFor("answer", b, FALSE), Push(FrameOf("maybeFinish"), Rest))
        \/ stack' = Push(UserFrame, Push(FrameFor("answer", b, FALSE),
                                         Push(FrameOf("maybeFinish"), Rest)))
    BY <1>4 DEF Failed, OnWriteCompletedNextTick, AfterDrain, PushIf
  <2> HIDE DEF b
  <2>3. /\ NoCheck(Push(FrameFor("answer", b, FALSE), Rest))
        /\ NoCheck(Push(FrameOf("maybeFinish"), Rest))
        /\ Push(FrameOf("maybeFinish"), Rest) \in Seq(Frame)
    BY <1>0, <2>1, NoCheckFrames
  <2>4. /\ NoCheck(Push(FrameFor("answer", b, FALSE), Push(FrameOf("maybeFinish"), Rest)))
        /\ Push(FrameFor("answer", b, FALSE), Push(FrameOf("maybeFinish"), Rest)) \in Seq(Frame)
    BY <1>0, <2>1, <2>3, NoCheckFrames
  <2>5. NoCheck(stack')
    BY <2>2, <2>3, <2>4, NoCheckFrames
  <2>6. /\ finishes' = finishes /\ writableFinished' = writableFinished
        /\ Idle' = Idle
    <3>1. /\ finishes' = finishes /\ writableFinished' = writableFinished
          /\ ending' = ending /\ writing' = writing /\ buffer' = buffer
          /\ length' = length
      <4>1. CASE Failed
        BY <4>1 DEF Failed, flagVars, writeVars, queueVars, logVars
      <4>2. CASE OnWriteCompletedNextTick
        BY <4>2 DEF OnWriteCompletedNextTick, flagVars, writeVars, logVars
      <4> QED
        BY <1>4, <4>1, <4>2
    <3> QED
      BY <3>1 DEF Idle
  <2> QED
    BY <2>5, <2>6, FinishingKept DEF Finishing
<1>5. CASE Answer
  <2> DEFINE b == Head(stack).batch
             c == [b EXCEPT !.reqs = Tail(@)]
             f == FrameFor("answer", c, FALSE)
  <2>1. /\ NoCheck(Rest) /\ Rest \in Seq(Frame) /\ b \in Batch
        /\ b.reqs \in Seq(Request) /\ b.reqs # <<>>
    BY <1>0, <1>5, CheckedRest, HeadType DEF Answer, Owners
  <2>2. stack' = Push(UserFrame, Push(f, Rest)) \/ stack' = Push(UserFrame, Rest)
    BY <1>5 DEF Answer, PushIf
  <2>3. c \in Batch
    <3>1. Tail(b.reqs) \in Seq(Request)
      BY <2>1, HeadTailProperties
    <3> QED
      BY <2>1, <3>1 DEF Batch
  <2> HIDE DEF c
  <2>4. NoCheck(Push(f, Rest)) /\ Push(f, Rest) \in Seq(Frame)
    BY <1>0, <2>1, <2>3, NoCheckFrames
  <2> HIDE DEF f
  <2>5. NoCheck(stack')
    BY <2>1, <2>2, <2>4, NoCheckFrames
  <2>6. /\ finishes' = finishes /\ writableFinished' = writableFinished
        /\ Idle' = Idle
    BY <1>5 DEF Answer, Idle
  <2> QED
    BY <2>5, <2>6, FinishingKept DEF Finishing
<1>6. CASE FlushLoop
  <2>1. NoCheck(Rest) /\ Rest \in Seq(Frame)
    BY <1>0, <1>6, CheckedRest DEF FlushLoop
  <2>2. finishes' = finishes /\ writableFinished' = writableFinished
    BY <1>6 DEF FlushLoop
  <2>3. CASE stack' = Rest /\ UNCHANGED <<writeVars, buffer>>
    <3>1. Idle' = Idle
      BY <1>6, <2>3 DEF FlushLoop, Idle
    <3> QED
      BY <2>1, <2>2, <2>3, <3>1, FinishingKept DEF Finishing
  <2>4. CASE /\ Head(stack).left > 0
             /\ OnWrite(One(Head(buffer)), Head(buffer).len,
                        Push(LoopFrame(Head(stack).left - 1), Rest))
    <3> DEFINE n == Head(stack).left
               rest == Push(LoopFrame(n - 1), Rest)
    <3>1. n \in Nat /\ n <= Len(buffer)
      BY <1>6, RestGood DEF FlushLoop, Frame, FrameOK
    <3>2. ~Idle
      <4>1. n > 0
        BY <2>4
      <4> HIDE DEF n
      <4>2. Len(buffer) # 0
        BY <3>1, <4>1, LenProperties DEF IInv, TypeOK
      <4> QED
        BY <4>2 DEF Idle
    <3>3. n - 1 \in Nat
      BY <2>4, <3>1
    <3>4. NoCheck(rest) /\ rest \in Seq(Frame)
      <4> HIDE DEF n
      <4> QED
        BY <2>1, <3>3, NoCheckFrames
    <3>5. OnWrite(One(Head(buffer)), Head(buffer).len, rest)
      BY <2>4
    <3> HIDE DEF rest
    <3>6. NoCheck(stack')
      BY <3>4, <3>5, NoCheckOnWrite
    <3> QED
      BY <2>2, <3>2, <3>6, FinishingKept DEF Finishing
  <2> QED
    BY <1>6, <2>3, <2>4 DEF FlushLoop
<1>7. CASE MaybeFinish
  <2> DEFINE f == FrameOf("finishCheck")
  <2>1. NoCheck(Rest) /\ Rest \in Seq(Frame)
    BY <1>0, <1>7, CheckedRest DEF MaybeFinish
  <2>2. /\ finishes' = finishes /\ writableFinished' = writableFinished
        /\ Idle' = Idle
    BY <1>7 DEF MaybeFinish, Idle
  <2>3. CASE stack' = Rest
    BY <2>1, <2>2, <2>3, FinishingKept DEF Finishing
  <2>4. CASE /\ NeedFinish(length, writing)
             /\ stack' = PushIf(~prefinished, UserFrame, Push(f, Rest))
    <3>1. Idle /\ ~writableFinished
      BY <2>4 DEF NeedFinish, Idle
    <3>2. f \in Frame
      <4>1. "finishCheck" \in FrameOps
        BY DEF FrameOps
      <4> QED
        BY <4>1, FrameOfType
    <3> HIDE DEF f
    <3>3. Push(f, Rest) \in Seq(Frame) /\ Checked(Push(f, Rest))
      BY <2>1, <3>2, CheckedPush, NoCheckChecked
    <3>4. Checked(Push(UserFrame, Push(f, Rest)))
      <4>1. UserFrame \in Frame /\ UserFrame.op \in Quiet
        BY UserFrameType DEF Quiet
      <4> QED
        BY <3>3, <4>1, CheckedPush
    <3>5. Checked(stack')
      BY <2>4, <3>3, <3>4 DEF PushIf
    <3> QED
      BY <2>2, <3>1, <3>5 DEF Finishing
  <2> QED
    BY <1>7, <2>3, <2>4 DEF MaybeFinish
<1>8. CASE FinishCheck
  <2>1. NoCheck(Rest) /\ Rest \in Seq(Frame)
    BY <1>0, <1>8, CheckedRest DEF FinishCheck
  <2>2. Idle /\ ~writableFinished /\ finishes = 0
    <3>1. 1 \in DOMAIN stack /\ stack[1].op = "finishCheck"
      <4>1. stack \in Seq(Frame) /\ stack # <<>> /\ Head(stack).op = "finishCheck"
        BY <1>8 DEF FinishCheck, Running, IInv, TypeOK
      <4> QED
        BY <4>1, LenProperties, EmptySeq, HeadTailProperties
    <3> QED
      BY <3>1 DEF Finishing, NoCheck
  <2>3. NoCheck(stack')
    <3>1. stack' = Rest \/ stack' = Push(UserFrame, Rest)
      BY <1>8 DEF FinishCheck
    <3> QED
      BY <2>1, <3>1, NoCheckFrames
  <2>4. Idle' = Idle
    BY <1>8 DEF FinishCheck, Idle
  <2>5. finishes' = IF writableFinished' THEN 1 ELSE 0
    BY <1>8, <2>2 DEF FinishCheck
  <2> QED
    BY <2>2, <2>3, <2>4, <2>5, NoCheckChecked DEF Finishing
<1>9. CASE Return \/ RejectLater
  <2>1. /\ Rest \in Seq(Frame) /\ Checked(Rest) /\ stack' = Rest
        /\ NoCheck(Rest) \/ (Idle /\ ~writableFinished)
    BY <1>9, CheckedRest DEF Return, RejectLater
  <2>2. /\ finishes' = finishes /\ writableFinished' = writableFinished
        /\ Idle' = Idle
    BY <1>9 DEF Return, RejectLater, Idle
  <2> QED
    BY <2>1, <2>2 DEF Finishing
<1>10. CASE FlushBuffer
  <2>1. /\ Rest \in Seq(Frame) /\ Checked(Rest)
        /\ NoCheck(Rest) \/ (Idle /\ ~writableFinished)
    BY <1>10, CheckedRest DEF FlushBuffer
  <2>2. finishes' = finishes /\ writableFinished' = writableFinished
    BY <1>10 DEF FlushBuffer
  <2>3. CASE ~CanFlush
    <3>1. stack' = Rest /\ Idle' = Idle
      BY <1>10, <2>3 DEF FlushBuffer, Idle
    <3> QED
      BY <2>1, <2>2, <3>1 DEF Finishing
  <2>4. CASE CanFlush
    <3> DEFINE rest == Push(FrameOf("flushEnd"), Rest)
    <3>1. ~Idle /\ ~writableFinished /\ NoCheck(Rest)
      BY <2>1, <2>4 DEF CanFlush, Idle, Finishing
    <3>2. NoCheck(rest) /\ rest \in Seq(Frame)
      BY <1>0, <2>1, <3>1, NoCheckFrames
    <3>3. \/ OnWrite([reqs |-> buffer, vec |-> TRUE], length, rest)
          \/ stack' = Push(LoopFrame(Len(buffer)), rest)
      BY <1>10, <2>4 DEF FlushBuffer
    <3> HIDE DEF rest
    <3>4. Len(buffer) \in Nat
      BY LenProperties DEF IInv, TypeOK
    <3>5. NoCheck(Push(LoopFrame(Len(buffer)), rest))
      BY <3>2, <3>4, NoCheckFrames
    <3>6. OnWrite([reqs |-> buffer, vec |-> TRUE], length, rest) => NoCheck(stack')
      BY <3>2, NoCheckOnWrite
    <3>7. NoCheck(stack')
      BY <3>3, <3>5, <3>6
    <3> QED
      BY <2>2, <3>1, <3>7, FinishingKept
  <2> QED
    BY <2>3, <2>4
<1>11. CASE EndWritable
  <2>1. /\ Rest \in Seq(Frame) /\ Checked(Rest)
        /\ NoCheck(Rest) \/ (Idle /\ ~writableFinished)
    BY <1>11, CheckedRest DEF EndWritable
  <2>2. finishes' = finishes /\ writableFinished' = writableFinished
    BY <1>11 DEF EndWritable
  <2>3. CASE ~(~ending /\ ~writableFinished)
    <3>1. stack' = Rest /\ Idle' = Idle
      BY <1>11, <2>3 DEF EndWritable, Idle
    <3> QED
      BY <2>1, <2>2, <3>1 DEF Finishing
  <2>4. CASE ~ending /\ ~writableFinished
    <3> DEFINE rest == Push(FrameOf("ended"), Rest)
    <3>1. NoCheck(Rest)
      BY <2>1, <2>4 DEF Idle
    <3>2. NoCheck(rest) /\ rest \in Seq(Frame)
      BY <1>0, <2>1, <3>1, NoCheckFrames
    <3>3. stack' = Push(FrameOf("maybeFinish"), rest)
      BY <1>11, <2>4 DEF EndWritable
    <3> HIDE DEF rest
    <3>4. NoCheck(stack')
      BY <1>0, <3>2, <3>3, NoCheckFrames
    <3> QED
      BY <2>2, <2>4, <3>4, FinishingKept
  <2> QED
    BY <2>3, <2>4
<1>12. CASE \E len \in ChunkLengths : Write(len)
  <2>1. PICK len \in ChunkLengths : Write(len)
    BY <1>12
  <2>2. ~ending /\ ~Idle /\ ~writableFinished /\ NoCheck(stack) /\ stack \in Seq(Frame)
    BY <2>1 DEF Write, MayWrite, Idle, Finishing, IInv, TypeOK
  <2>3. finishes' = finishes /\ writableFinished' = writableFinished
    BY <2>1 DEF Write
  <2>4. stack' = stack \/ OnWrite(One(NewRequest(len)), len, stack)
    BY <2>1 DEF Write
  <2>5. NoCheck(stack')
    BY <2>2, <2>4, NoCheckOnWrite
  <2> QED
    BY <2>2, <2>3, <2>5, FinishingKept
<1>13. CASE \E len \in ChunkLengths : WriteRejected(len)
  <2>1. PICK len \in ChunkLengths : WriteRejected(len)
    BY <1>13
  <2> DEFINE b == One(NewRequest(len))
             f == FrameFor("rejectLater", b, FALSE)
  <2>2. f \in Frame /\ f.op = "rejectLater" /\ stack \in Seq(Frame)
    <3>1. NewRequest(len) \in Request
      BY <2>1, NewRequestType DEF WriteRejected
    <3>2. b \in Batch
      BY <3>1, OneCounts
    <3>3. "rejectLater" \in FrameOps
      BY <1>0
    <3> HIDE DEF b
    <3> QED
      BY <1>0, <3>2, <3>3, FrameForType DEF TypeOK
  <2>3. stack' = Push(UserFrame, Push(f, stack))
    BY <2>1 DEF WriteRejected
  <2>4. /\ finishes' = finishes /\ writableFinished' = writableFinished
        /\ Idle' = Idle
    BY <2>1 DEF WriteRejected, Idle
  <2> HIDE DEF f
  <2>5. Push(f, stack) \in Seq(Frame) /\ Checked(Push(f, stack))
        /\ (NoCheck(stack) => NoCheck(Push(f, stack)))
    BY <2>2, CheckedPush, NoCheckPush DEF Quiet, Finishing
  <2>6. Checked(stack') /\ (NoCheck(stack) => NoCheck(stack'))
    BY <2>3, <2>5, UserFrameType, CheckedPush, NoCheckPush DEF Quiet
  <2> QED
    BY <2>4, <2>6 DEF Finishing
<1>14. CASE Cork
  <2>1. /\ finishes' = finishes /\ writableFinished' = writableFinished
        /\ Idle' = Idle /\ stack' = stack
    BY <1>14 DEF Cork, Idle
  <2> QED
    BY <2>1 DEF Finishing
<1>15. CASE Uncork \/ Finish
  <2> DEFINE f == FrameOf("flush")
             g == FrameOf("endWritable")
  <2>1. /\ finishes' = finishes /\ writableFinished' = writableFinished
        /\ Idle' = Idle /\ stack \in Seq(Frame)
    BY <1>15 DEF Uncork, Finish, Idle, IInv, TypeOK
  <2>2. stack' \in {stack, Push(f, stack), Push(g, stack), Push(f, Push(g, stack))}
    BY <1>15 DEF Uncork, Finish, PushIf
  <2>3. f \in Frame /\ g \in Frame /\ f.op = "flush" /\ g.op = "endWritable"
    BY FrameOfType DEF FrameOps
  <2> HIDE DEF f, g
  <2>4. /\ Push(f, stack) \in Seq(Frame) /\ Checked(Push(f, stack))
        /\ Push(g, stack) \in Seq(Frame) /\ Checked(Push(g, stack))
        /\ NoCheck(stack) => NoCheck(Push(f, stack)) /\ NoCheck(Push(g, stack))
    BY <2>1, <2>3, CheckedPush, NoCheckPush DEF Quiet, Finishing
  <2>5. /\ Checked(Push(f, Push(g, stack)))
        /\ NoCheck(stack) => NoCheck(Push(f, Push(g, stack)))
    BY <2>3, <2>4, CheckedPush, NoCheckPush DEF Quiet
  <2>6. Checked(stack') /\ (NoCheck(stack) => NoCheck(stack'))
    BY <2>2, <2>4, <2>5 DEF Finishing
  <2> QED
    BY <2>1, <2>6 DEF Finishing
<1>16. CASE SinkCompletes
  <2>1. /\ ~Idle /\ ~writableFinished /\ NoCheck(stack) /\ stack \in Seq(Frame)
    BY <1>16 DEF SinkCompletes, Idle, IInv, TypeOK, Finishing
  <2>2. PICK a \in SinkAnswers : stack' = Push(FrameFor("completed", NoBatch, a = "later"), stack)
    BY <1>16 DEF SinkCompletes
  <2>3. NoCheck(stack')
    <3>1. "completed" \in FrameOps \ {"finishCheck"} /\ (a = "later") \in BOOLEAN
      BY <1>0
    <3> QED
      BY <2>1, <2>2, <3>1, NoBatchType, NoCheckFrames
  <2>4. finishes' = finishes /\ writableFinished' = writableFinished
    BY <1>16 DEF SinkCompletes
  <2> QED
    BY <2>1, <2>3, <2>4, FinishingKept
<1>17. CASE RunImmediate
  <2>1. /\ finishes' = finishes /\ writableFinished' = writableFinished
        /\ Idle' = Idle /\ stack' = <<Head(immediates)>>
    BY <1>17 DEF RunImmediate, Idle
  <2>2. Head(immediates).op # "finishCheck"
    <3>1. immediates \in Seq(Frame) /\ immediates # <<>>
      BY <1>17 DEF RunImmediate, IInv, TypeOK
    <3>2. 1 \in DOMAIN immediates /\ Head(immediates) = immediates[1]
      BY <3>1, LenProperties, EmptySeq, HeadTailProperties
    <3> QED
      BY <3>2 DEF IInv, Deferred
  <2>3. NoCheck(stack')
    <3> DEFINE f == Head(immediates)
    <3> HIDE DEF f
    <3>1. \A i \in DOMAIN <<f>> : <<f>>[i] = f
      OBVIOUS
    <3> QED
      BY <2>1, <2>2, <3>1 DEF NoCheck, f
  <2> QED
    BY <2>1, <2>3, FinishingKept DEF Finishing
<1>18. CASE UNCHANGED vars
  <2>1. /\ finishes' = finishes /\ writableFinished' = writableFinished
        /\ Idle' = Idle /\ stack' = stack
    BY <1>18 DEF vars, Idle
  <2> QED
    BY <2>1 DEF Finishing
<1> QED
  BY <1>1, <1>2, <1>3, <1>4, <1>5, <1>6, <1>7, <1>8, <1>9, <1>10, <1>11, <1>12, <1>13,
     <1>14, <1>15, <1>16, <1>17, <1>18 DEF Next, UserCall, StreamStep

LEMMA FinishingAlways == ~WritesInFinish => (Spec => [](IInv /\ Finishing))
<1> SUFFICES ASSUME ~WritesInFinish PROVE Spec => [](IInv /\ Finishing)
  OBVIOUS
<1>1. IInv /\ Finishing /\ [Next]_vars => (IInv /\ Finishing)'
  BY FinishingStep, StreamStepKeeps, OtherStepKeeps DEF Next
<1>2. Init => IInv /\ Finishing
  <2>1. Init => Finishing
    BY DEF Init, Finishing, Checked, NoCheck
  <2> QED
    BY <2>1, InitIInv
<1> QED
  BY <1>1, <1>2, PTL DEF Spec

\* FinishFlushed: 'finish' is emitted once, with nothing buffered and nothing being
\* written, for users that do not write between finish() and its return.
THEOREM FinishesOnceFlushed ==
    ASSUME ~WritesInFinish
    PROVE  Spec => FinishFlushed
<1>1. ASSUME IInv, Finishing, [Next]_vars, finishes' # finishes
      PROVE  finishes = 0 /\ ~writing /\ buffer = <<>> /\ length = 0
  <2> USE DEF flagVars, writeVars, queueVars, logVars
  <2>1. CASE FinishCheck
    <3>1. stack \in Seq(Frame) /\ stack # <<>> /\ Head(stack).op = "finishCheck"
      BY <1>1, <2>1 DEF FinishCheck, Running, IInv, TypeOK
    <3>2. 1 \in DOMAIN stack /\ stack[1].op = "finishCheck"
      BY <3>1, LenProperties, EmptySeq, HeadTailProperties
    <3> QED
      BY <1>1, <3>2 DEF Finishing, NoCheck, Idle
  <2>2. CASE UserCall \/ SinkCompletes \/ RunImmediate \/ UNCHANGED vars
    BY <1>1, <2>2 DEF UserCall, Write, WriteRejected, Cork, Uncork, Finish, SinkCompletes,
         RunImmediate, vars
  <2>3. CASE \/ SyncOff \/ OnWriteCompleted \/ Defer \/ Failed \/ EmitError
             \/ OnWriteCompletedNextTick \/ Answer \/ FlushEnd \/ MaybeFinish
    BY <1>1, <2>3 DEF SyncOff, OnWriteCompleted, Defer, Failed, EmitError,
         OnWriteCompletedNextTick, Answer, FlushEnd, MaybeFinish
  <2>4. CASE FlushBuffer \/ FlushLoop \/ EndWritable \/ Ended \/ RejectLater \/ Return
    BY <1>1, <2>4 DEF FlushBuffer, FlushLoop, EndWritable, Ended, RejectLater, Return
  <2> QED
    BY <1>1, <2>1, <2>2, <2>3, <2>4 DEF Next, StreamStep
<1>2. IInv /\ Finishing /\ [Next]_vars =>
         [finishes' # finishes =>
            finishes = 0 /\ ~writing /\ buffer = <<>> /\ length = 0]_vars
  BY <1>1
<1>3. Spec => [](IInv /\ Finishing)
  BY FinishingAlways
<1> QED
  BY <1>2, <1>3, PTL DEF Spec, FinishFlushed
-----------------------------------------------------------------------------
(* The order of the chunks.  A flush in progress is a slow loop, or the     *)
(* write of a whole batch, above its "flushEnd" frame; only the stream's    *)
(* own steps run above it, because a sink that answers inside _write has    *)
(* its listeners deferred.  The loop is bounded by what the buffer holds,   *)
(* and an uncorked stream with an idle sink and a buffer is being flushed   *)
(* or about to be: a write that goes straight to the sink overtakes none.   *)

Flushes == {"loop", "flushEnd"}
Inner == {"completed", "flush", "defer", "syncOff", "loop"}

NoFlush(s) == \A i \in DOMAIN s : s[i].op \notin Flushes
Looping(s) == \E i \in DOMAIN s : s[i].op = "loop"
Ends(s) == \E i \in DOMAIN s : s[i].op = "flushEnd"

Inside(s, n) ==
    /\ s \in Seq(Frame)
    /\ \A i, j \in DOMAIN s : i < j /\ s[j].op \in Flushes => s[i].op \in Inner
    /\ \A i \in DOMAIN s : s[i].op = "completed" => s[i].flag = TRUE
    /\ \A i \in DOMAIN s : s[i].op = "loop" => s[i].left = n

Flushing ==
    /\ Inside(stack, Len(buffer))
    /\ isBufferFlushing => Ends(stack)
    /\ buffer # <<>> /\ writableCorked = 0 /\ ~writing
         => Looping(stack) \/ (Running("flush") /\ ~isBufferFlushing)
    /\ Running("completed") /\ isBufferFlushing /\ buffer # <<>> => Looping(stack)
    /\ Running("completed") /\ ~sync => NoFlush(stack)

\* No flush and no completion.
Calm(s) ==
    s \in Seq(Frame) /\ \A i \in DOMAIN s : s[i].op \notin {"loop", "flushEnd", "completed"}

LEMMA FlushPush ==
    ASSUME NEW f \in Frame, NEW s \in Seq(Frame)
    PROVE  /\ NoFlush(Push(f, s)) <=> f.op \notin Flushes /\ NoFlush(s)
           /\ Looping(Push(f, s)) <=> f.op = "loop" \/ Looping(s)
           /\ Ends(Push(f, s)) <=> f.op = "flushEnd" \/ Ends(s)
<1> DEFINE t == Push(f, s)
<1>1. /\ DOMAIN t = 1 .. Len(s) + 1 /\ t[1] = f
      /\ \A i \in 2 .. Len(s) + 1 : t[i] = s[i - 1] /\ i - 1 \in DOMAIN s
  BY PushElements
<1>2. Len(s) \in Nat /\ DOMAIN s = 1 .. Len(s)
  BY LenProperties
<1> HIDE DEF t
<1>3. /\ \A i \in DOMAIN t : i = 1 \/ (t[i] = s[i - 1] /\ i - 1 \in DOMAIN s)
      /\ \A i \in DOMAIN s : i + 1 \in DOMAIN t /\ t[i + 1] = s[i]
      /\ 1 \in DOMAIN t
  <2>1. \A i \in DOMAIN t : i = 1 \/ i \in 2 .. Len(s) + 1
    BY <1>1, <1>2
  <2>2. \A i \in DOMAIN s : i + 1 \in 2 .. Len(s) + 1 /\ i + 1 - 1 = i
    BY <1>2
  <2>3. \A i \in DOMAIN s : i + 1 \in DOMAIN t /\ t[i + 1] = s[i]
    <3> SUFFICES ASSUME NEW i \in DOMAIN s PROVE i + 1 \in DOMAIN t /\ t[i + 1] = s[i]
      OBVIOUS
    <3>1. i + 1 \in 2 .. Len(s) + 1 /\ i + 1 - 1 = i
      BY <2>2
    <3>2. t[i + 1] = s[i + 1 - 1]
      BY <1>1, <3>1
    <3> QED
      BY <1>1, <1>2, <3>1, <3>2
  <2> QED
    BY <1>1, <1>2, <2>1, <2>3
<1>4. NoFlush(t) <=> f.op \notin Flushes /\ NoFlush(s)
  BY <1>1, <1>3 DEF NoFlush
<1>5. Looping(t) <=> f.op = "loop" \/ Looping(s)
  BY <1>1, <1>3 DEF Looping
<1>6. Ends(t) <=> f.op = "flushEnd" \/ Ends(s)
  BY <1>1, <1>3 DEF Ends
<1> QED
  BY <1>4, <1>5, <1>6 DEF t

LEMMA InsidePush ==
    ASSUME NEW f \in Frame, NEW s, NEW n, Inside(s, n), f.op \in Inner \/ NoFlush(s),
           f.op = "completed" => f.flag = TRUE, f.op = "loop" => f.left = n
    PROVE  Push(f, s) \in Seq(Frame) /\ Inside(Push(f, s), n)
<1> DEFINE t == Push(f, s)
<1>1. s \in Seq(Frame)
  BY DEF Inside
<1>2. /\ t \in Seq(Frame) /\ DOMAIN t = 1 .. Len(s) + 1 /\ t[1] = f
      /\ \A i \in 2 .. Len(s) + 1 : t[i] = s[i - 1] /\ i - 1 \in DOMAIN s
  BY <1>1, PushElements
<1>3. Len(s) \in Nat
  BY <1>1, LenProperties
<1> HIDE DEF t
<1>4. \A i \in DOMAIN t : i = 1 \/ (i \in 2 .. Len(s) + 1 /\ t[i] = s[i - 1] /\ i - 1 \in DOMAIN s)
  BY <1>2, <1>3
<1>5. ASSUME NEW i \in DOMAIN t, NEW j \in DOMAIN t, i < j, t[j].op \in Flushes
      PROVE  t[i].op \in Inner
  <2>1. j \in 2 .. Len(s) + 1
    BY <1>2, <1>3, <1>5
  <2>2. t[j] = s[j - 1] /\ j - 1 \in DOMAIN s
    BY <1>2, <2>1
  <2>3. CASE i = 1
    BY <1>2, <1>5, <2>2, <2>3 DEF NoFlush
  <2>4. CASE i # 1
    <3>1. i \in 2 .. Len(s) + 1 /\ i - 1 < j - 1
      BY <1>2, <1>3, <1>5, <2>4
    <3>2. t[i] = s[i - 1] /\ i - 1 \in DOMAIN s
      BY <1>2, <3>1
    <3> QED
      BY <1>5, <2>2, <3>1, <3>2 DEF Inside
  <2> QED
    BY <2>3, <2>4
<1>6. \A i \in DOMAIN t : t[i].op = "completed" => t[i].flag = TRUE
  BY <1>2, <1>4 DEF Inside
<1>7. \A i \in DOMAIN t : t[i].op = "loop" => t[i].left = n
  BY <1>2, <1>4 DEF Inside
<1> QED
  BY <1>2, <1>5, <1>6, <1>7 DEF Inside, t

LEMMA InsidePop ==
    ASSUME NEW s, NEW n, Inside(s, n), s # <<>>
    PROVE  /\ Head(s) \in Frame /\ Tail(s) \in Seq(Frame) /\ Inside(Tail(s), n)
           /\ Head(s).op \notin Inner => NoFlush(Tail(s))
           /\ Head(s).op = "completed" => Head(s).flag = TRUE
           /\ Head(s).op = "loop" => Head(s).left = n
           /\ s = Push(Head(s), Tail(s))
<1>0. s \in Seq(Frame)
  BY DEF Inside
<1>1. /\ Len(s) \in Nat \ {0} /\ DOMAIN s = 1 .. Len(s) /\ Head(s) = s[1]
      /\ Head(s) \in Frame /\ Tail(s) \in Seq(Frame)
      /\ DOMAIN Tail(s) = 1 .. Len(s) - 1 /\ Len(Tail(s)) = Len(s) - 1
      /\ \A i \in 1 .. Len(s) - 1 : Tail(s)[i] = s[i + 1]
  BY <1>0, LenProperties, EmptySeq, HeadTailProperties
<1>2. /\ 1 \in DOMAIN s
      /\ \A i \in DOMAIN Tail(s) : i + 1 \in DOMAIN s /\ 1 < i + 1 /\ Tail(s)[i] = s[i + 1]
  BY <1>1
<1>3. \A i, j \in DOMAIN Tail(s) : i < j => i + 1 < j + 1
  BY <1>1
<1>4. ASSUME NEW i \in DOMAIN Tail(s), NEW j \in DOMAIN Tail(s), i < j,
             Tail(s)[j].op \in Flushes
      PROVE  Tail(s)[i].op \in Inner
  <2>1. i + 1 \in DOMAIN s /\ j + 1 \in DOMAIN s /\ i + 1 < j + 1
    BY <1>2, <1>3, <1>4
  <2> QED
    BY <1>2, <1>4, <2>1 DEF Inside
<1>5. Inside(Tail(s), n)
  BY <1>1, <1>2, <1>4 DEF Inside
<1>6. Head(s).op \notin Inner => NoFlush(Tail(s))
  BY <1>1, <1>2 DEF Inside, NoFlush
<1>7. /\ Head(s).op = "completed" => Head(s).flag = TRUE
      /\ Head(s).op = "loop" => Head(s).left = n
  BY <1>1, <1>2 DEF Inside
<1>8. s = Push(Head(s), Tail(s))
  <2>1. /\ Push(Head(s), Tail(s)) \in Seq(Frame) /\ Push(Head(s), Tail(s))[1] = Head(s)
        /\ DOMAIN Push(Head(s), Tail(s)) = 1 .. Len(Tail(s)) + 1
        /\ \A i \in 2 .. Len(Tail(s)) + 1 : Push(Head(s), Tail(s))[i] = Tail(s)[i - 1]
    BY <1>1, PushElements, ZenonT(30)
  <2> DEFINE t == Push(Head(s), Tail(s))
  <2>2. t \in Seq(Frame) /\ DOMAIN t = 1 .. Len(s)
    BY <1>1, <2>1
  <2>3. ASSUME NEW i \in 1 .. Len(s) PROVE t[i] = s[i]
    <3>1. CASE i = 1
      BY <1>1, <2>1, <3>1
    <3>2. CASE i # 1
      <4>1. i \in 2 .. Len(Tail(s)) + 1 /\ i - 1 \in 1 .. Len(s) - 1 /\ i - 1 + 1 = i
        BY <1>1, <3>2
      <4>2. t[i] = Tail(s)[i - 1]
        BY <2>1, <4>1
      <4>3. Tail(s)[i - 1] = s[i - 1 + 1]
        BY <1>1, <4>1
      <4> QED
        BY <4>1, <4>2, <4>3
    <3> QED
      BY <3>1, <3>2
  <2>4. Len(t) = Len(s)
    BY <1>1, <2>2, LenProperties
  <2> HIDE DEF t
  <2>5. t = s
    BY <1>0, <2>2, <2>3, <2>4, SeqEqual
  <2> QED
    BY <2>5 DEF t
<1> QED
  BY <1>1, <1>5, <1>6, <1>7, <1>8

LEMMA CalmInside ==
    ASSUME NEW s, NEW n, Calm(s)
    PROVE  /\ Inside(s, n) /\ NoFlush(s) /\ ~Looping(s) /\ ~Ends(s)
           /\ s = <<>> \/ Head(s).op # "completed"
<1>1. Inside(s, n) /\ NoFlush(s) /\ ~Looping(s) /\ ~Ends(s)
  BY DEF Calm, Inside, NoFlush, Looping, Ends, Flushes
<1>2. ASSUME s # <<>> PROVE Head(s).op # "completed"
  <2>1. s \in Seq(Frame) /\ 1 \in DOMAIN s /\ Head(s) = s[1]
    BY <1>2, EmptySeq, LenProperties, HeadTailProperties DEF Calm
  <2> QED
    BY <2>1 DEF Calm
<1> QED
  BY <1>1, <1>2

LEMMA CalmFrames ==
    ASSUME NEW s, Calm(s)
    PROVE  /\ Calm(Push(UserFrame, s))
           /\ \A op \in FrameOps \ {"loop", "flushEnd", "completed"} : Calm(Push(FrameOf(op), s))
           /\ \A op \in FrameOps \ {"loop", "flushEnd", "completed"}, b \in Batch,
                 x \in BOOLEAN : Calm(Push(FrameFor(op, b, x), s))
<1> DEFINE ops == {"loop", "flushEnd", "completed"}
<1>1. ASSUME NEW f \in Frame, f.op \notin ops PROVE Calm(Push(f, s))
  <2>1. s \in Seq(Frame) /\ \A i \in DOMAIN s : s[i].op \notin ops
    BY DEF Calm
  <2>2. f.op \notin ops
    BY <1>1
  <2> HIDE DEF ops
  <2>3. \A i \in DOMAIN Push(f, s) : Push(f, s)[i].op \notin ops
    BY <2>1, <2>2, PushOps
  <2>4. Push(f, s) \in Seq(Frame)
    BY <2>1, PushElements
  <2> QED
    BY <2>3, <2>4 DEF Calm, ops
<1> HIDE DEF ops
<1>2. Calm(Push(UserFrame, s))
  BY <1>1, UserFrameType DEF ops
<1>3. ASSUME NEW op \in FrameOps \ ops PROVE Calm(Push(FrameOf(op), s))
  BY <1>1, <1>3, FrameOfType
<1>4. ASSUME NEW op \in FrameOps \ ops, NEW b \in Batch, NEW x \in BOOLEAN
      PROVE  Calm(Push(FrameFor(op, b, x), s))
  BY <1>1, <1>4, FrameForType
<1> QED
  BY <1>2, <1>3, <1>4 DEF ops

LEMMA CalmFlushing ==
    ASSUME Calm(stack'), ~isBufferFlushing',
           buffer' # <<>> /\ writableCorked' = 0 /\ ~writing' => Running("flush")'
    PROVE  Flushing'
<1>1. /\ \A n : Inside(stack', n) /\ NoFlush(stack')
      /\ stack' = <<>> \/ Head(stack').op # "completed"
  BY CalmInside
<1>2. ~Running("completed")'
  BY <1>1 DEF Running
<1> QED
  BY <1>1, <1>2 DEF Flushing

LEMMA UserCalm ==
    ASSUME IInv, Flushing, InUserCode
    PROVE  /\ Calm(stack) /\ ~isBufferFlushing
           /\ ~(buffer # <<>> /\ writableCorked = 0 /\ ~writing)
<1>1. stack \in Seq(Frame) /\ Resting(stack) /\ Inside(stack, Len(buffer))
  BY CallGood DEF IInv, TypeOK, Flushing
<1>2. NoFlush(stack)
  <2>1. CASE stack = <<>>
    BY <2>1 DEF NoFlush
  <2>2. CASE stack # <<>>
    <3>1. Head(stack).op = "user"
      BY <2>2 DEF InUserCode, Running
    <3>2. "user" \notin Inner /\ "user" \notin Flushes
      BY DEF Inner, Flushes
    <3>3. /\ NoFlush(Tail(stack)) /\ stack = Push(Head(stack), Tail(stack))
          /\ Head(stack) \in Frame /\ Tail(stack) \in Seq(Frame)
      BY <1>1, <2>2, <3>1, <3>2, InsidePop
    <3> QED
      BY <3>1, <3>2, <3>3, FlushPush
  <2> QED
    BY <2>1, <2>2
<1>3. Calm(stack)
  BY <1>1, <1>2 DEF Calm, Resting, NoFlush, Flushes
<1>4. ~Looping(stack) /\ ~Ends(stack)
  BY <1>3, CalmInside
<1>5. ~Running("flush")
  BY <1>1, RestingRuns DEF Running, IInv
<1> QED
  BY <1>3, <1>4, <1>5 DEF Flushing

LEMMA OuterCalm ==
    ASSUME IInv, Flushing, NEW op, op \notin Inner, op # "flushEnd", Running(op)
    PROVE  /\ Calm(Rest) /\ ~isBufferFlushing /\ Head(stack) \in Frame
           /\ ~(buffer # <<>> /\ writableCorked = 0 /\ ~writing)
<1>1. stack # <<>> /\ Head(stack).op = op /\ Inside(stack, Len(buffer))
  BY DEF Running, Flushing
<1>2. /\ NoFlush(Rest) /\ stack = Push(Head(stack), Rest)
      /\ Head(stack) \in Frame /\ Rest \in Seq(Frame)
  BY <1>1, InsidePop DEF Rest
<1>3. Resting(Rest)
  BY RestGood
<1>4. Calm(Rest)
  BY <1>2, <1>3 DEF Calm, Resting, NoFlush, Flushes
<1>5. ~Looping(Rest) /\ ~Ends(Rest)
  BY <1>4, CalmInside
<1>6. op \notin {"loop", "flushEnd", "flush", "completed"}
  BY DEF Inner
<1>7. ~Looping(stack) /\ ~Ends(stack)
  BY <1>1, <1>2, <1>5, <1>6, FlushPush
<1>8. ~Running("flush")
  BY <1>1, <1>6 DEF Running
<1> QED
  BY <1>2, <1>4, <1>7, <1>8 DEF Flushing

(* A frame of the flush, and what is under it.                             *)
LEMMA InnerRest ==
    ASSUME IInv, Flushing, NEW op, Running(op)
    PROVE  /\ Inside(Rest, Len(buffer)) /\ Rest \in Seq(Frame) /\ Head(stack) \in Frame
           /\ Looping(stack) <=> op = "loop" \/ Looping(Rest)
           /\ Ends(stack) <=> op = "flushEnd" \/ Ends(Rest)
           /\ NoFlush(stack) <=> op \notin Flushes /\ NoFlush(Rest)
           /\ op = "loop" => Head(stack).left = Len(buffer) /\ ~Looping(Rest)
           /\ op = "flushEnd" => Calm(Rest)
           /\ op = "completed" => Head(stack).flag = TRUE
           /\ Rest = <<>> \/ Head(Rest).op \notin {"flush", "completed"}
<1>1. stack # <<>> /\ Head(stack).op = op /\ Inside(stack, Len(buffer))
  BY DEF Running, Flushing
<1>2. /\ stack = Push(Head(stack), Rest) /\ Inside(Rest, Len(buffer))
      /\ Head(stack) \in Frame /\ Rest \in Seq(Frame)
      /\ op = "completed" => Head(stack).flag = TRUE
      /\ op = "loop" => Head(stack).left = Len(buffer)
  BY <1>1, InsidePop DEF Rest
<1>3. /\ Good(Rest, isBufferFlushing, Len(buffer)) /\ Resting(Rest)
      /\ \A i \in DOMAIN Rest : Above(Head(stack), Rest[i])
  BY RestGood
<1>4. op = "loop" => ~Looping(Rest)
  BY <1>1, <1>3 DEF Above, Looping
<1>5. op = "flushEnd" => Calm(Rest)
  BY <1>1, <1>2, <1>3 DEF Above, Calm, Resting
<1>6. Rest = <<>> \/ Head(Rest).op \notin {"flush", "completed"}
  BY <1>3, RestingRuns
<1>7. /\ Looping(stack) <=> op = "loop" \/ Looping(Rest)
      /\ Ends(stack) <=> op = "flushEnd" \/ Ends(Rest)
      /\ NoFlush(stack) <=> op \notin Flushes /\ NoFlush(Rest)
  BY <1>1, <1>2, FlushPush
<1> QED
  BY <1>2, <1>4, <1>5, <1>6, <1>7

(* Handing a batch to a sink that does not fail.                           *)
LEMMA OnWriteInside ==
    ASSUME SinkAnswers \subseteq {"later", "now"}, NEW rest, NEW n, NEW batch, NEW len,
           Inside(rest, n), rest = <<>> \/ Head(rest).op # "completed",
           OnWrite(batch, len, rest)
    PROVE  /\ Inside(stack', n) /\ writing' = TRUE
           /\ Looping(stack') <=> Looping(rest)
           /\ Ends(stack') <=> Ends(rest)
           /\ Running("completed")' => sync' = TRUE
<1>1. writing' = TRUE
  BY DEF OnWrite
<1>2. CASE stack' = rest
  BY <1>1, <1>2 DEF Running
<1>3. CASE \E a \in SinkAnswers \cap {"now", "failNow"} :
             /\ io' = io /\ sync' = TRUE
             /\ stack' = Push(FrameFor("completed", NoBatch, a = "now"),
                              Push(FrameOf("syncOff"), rest))
  <2> DEFINE f == FrameFor("completed", NoBatch, TRUE)
             g == FrameOf("syncOff")
  <2>1. sync' = TRUE /\ stack' = Push(f, Push(g, rest))
    BY <1>3
  <2>2. f \in Frame /\ g \in Frame /\ f.op = "completed" /\ g.op = "syncOff" /\ f.flag = TRUE
    <3>1. "completed" \in FrameOps /\ "syncOff" \in FrameOps /\ TRUE \in BOOLEAN
      BY DEF FrameOps
    <3>2. f.flag = TRUE
      BY DEF FrameFor
    <3> QED
      BY <3>1, <3>2, NoBatchType, FrameForType, FrameOfType
  <2> HIDE DEF f, g
  <2>3. "completed" \in Inner /\ "syncOff" \in Inner /\ rest \in Seq(Frame)
    BY DEF Inner, Inside
  <2>4. Push(g, rest) \in Seq(Frame) /\ Inside(Push(g, rest), n)
    BY <2>2, <2>3, InsidePush
  <2>5. Inside(Push(f, Push(g, rest)), n)
    BY <2>2, <2>3, <2>4, InsidePush
  <2>6. /\ Looping(Push(g, rest)) <=> Looping(rest)
        /\ Ends(Push(g, rest)) <=> Ends(rest)
    BY <2>2, <2>3, FlushPush
  <2>7. /\ Looping(Push(f, Push(g, rest))) <=> Looping(rest)
        /\ Ends(Push(f, Push(g, rest))) <=> Ends(rest)
    BY <2>2, <2>4, <2>6, FlushPush
  <2> QED
    BY <1>1, <2>1, <2>5, <2>7
<1> QED
  BY <1>2, <1>3 DEF OnWrite

\* The steps of the flush.
LEMMA InnerStepFlushing ==
    ASSUME SinkAnswers \subseteq {"later", "now"}, IInv, Flushing,
           \/ SyncOff \/ OnWriteCompleted \/ Defer \/ FlushBuffer \/ FlushLoop \/ FlushEnd
    PROVE  Flushing'
<1> USE DEF flagVars, writeVars, queueVars, logVars
<1>0. TypeOK /\ Len(buffer) \in Nat
  BY LenProperties DEF IInv, TypeOK
<1>1. CASE SyncOff
  <2>1. /\ stack' = Rest /\ buffer' = buffer /\ isBufferFlushing' = isBufferFlushing
        /\ writableCorked' = writableCorked /\ writing' = writing
    BY <1>1 DEF SyncOff
  <2>2. ~Running("completed")' /\ ~Running("flush")
    BY <1>1, <2>1, InnerRest DEF SyncOff, Running
  <2>3. /\ Inside(Rest, Len(buffer))
        /\ Looping(stack) <=> Looping(Rest)
        /\ Ends(stack) <=> Ends(Rest)
    <3>1. Running("syncOff") /\ "syncOff" \notin {"loop", "flushEnd"}
      BY <1>1 DEF SyncOff
    <3> QED
      BY <3>1, InnerRest
  <2> QED
    BY <2>1, <2>2, <2>3 DEF Flushing
<1>2. CASE Defer
  <2>1. /\ stack' = Rest /\ buffer' = buffer /\ isBufferFlushing' = isBufferFlushing
        /\ writableCorked' = writableCorked /\ writing' = writing
    BY <1>2 DEF Defer
  <2>2. ~Running("completed")' /\ ~Running("flush")
    BY <1>2, <2>1, InnerRest DEF Defer, Running
  <2>3. /\ Inside(Rest, Len(buffer))
        /\ Looping(stack) <=> Looping(Rest)
        /\ Ends(stack) <=> Ends(Rest)
    <3>1. Running("defer") /\ "defer" \notin {"loop", "flushEnd"}
      BY <1>2 DEF Defer
    <3> QED
      BY <3>1, InnerRest
  <2> QED
    BY <2>1, <2>2, <2>3 DEF Flushing
<1>3. CASE FlushEnd
  <2>1. /\ stack' = Rest /\ buffer' = buffer /\ isBufferFlushing' = FALSE
        /\ writableCorked' = writableCorked /\ writing' = writing
    BY <1>3 DEF FlushEnd
  <2>2. Calm(Rest) /\ ~Looping(Rest)
    BY <1>3, InnerRest, CalmInside DEF FlushEnd
  <2>3. ~Looping(stack) /\ ~Running("flush")
    BY <1>3, <2>2, InnerRest DEF FlushEnd, Running
  <2> QED
    BY <2>1, <2>2, <2>3, CalmFlushing DEF Flushing
<1>4. CASE FlushBuffer
  <2>1. /\ Running("flush") /\ writableCorked' = writableCorked /\ ~writing
        /\ "flush" \notin {"loop", "flushEnd"}
    BY <1>4 DEF FlushBuffer, IInv
  <2>2. /\ Inside(Rest, Len(buffer)) /\ Rest \in Seq(Frame)
        /\ Looping(stack) <=> Looping(Rest)
        /\ Ends(stack) <=> Ends(Rest)
        /\ NoFlush(stack) <=> NoFlush(Rest)
        /\ Rest = <<>> \/ Head(Rest).op \notin {"flush", "completed"}
    BY <2>1, InnerRest DEF Flushes
  <2>3. CASE ~CanFlush /\ stack' = Rest /\ UNCHANGED <<writeVars, buffer, isBufferFlushing>>
    <3>1. /\ stack' = Rest /\ buffer' = buffer /\ isBufferFlushing' = isBufferFlushing
          /\ writing' = writing
      BY <2>3
    <3>2. ~Running("completed")'
      BY <2>2, <3>1 DEF Running
    <3>3. buffer # <<>> /\ writableCorked = 0 => isBufferFlushing
      BY <2>3 DEF CanFlush
    <3> QED
      BY <2>1, <2>2, <3>1, <3>2, <3>3 DEF Flushing
  <2>4. ASSUME CanFlush
        PROVE  /\ Calm(Rest) /\ "flushEnd" \in FrameOps /\ FrameOf("flushEnd") \in Frame
               /\ FrameOf("flushEnd").op = "flushEnd"
               /\ Push(FrameOf("flushEnd"), Rest) \in Seq(Frame)
               /\ Push(FrameOf("flushEnd"), Rest) # <<>>
               /\ Head(Push(FrameOf("flushEnd"), Rest)).op = "flushEnd"
               /\ \A n : Inside(Push(FrameOf("flushEnd"), Rest), n)
               /\ Ends(Push(FrameOf("flushEnd"), Rest))
    <3>1. /\ Good(Rest, isBufferFlushing, Len(buffer)) /\ Resting(Rest) /\ ~isBufferFlushing
      BY <2>1, <2>4, RestGood DEF CanFlush
    <3>2. Calm(Rest)
      BY <2>2, <3>1 DEF Calm, Good, FrameOK, Resting
    <3> DEFINE f == FrameOf("flushEnd")
    <3>3. f \in Frame /\ f.op = "flushEnd" /\ "flushEnd" \in FrameOps
      BY FrameOfType DEF FrameOps
    <3> HIDE DEF f
    <3>4. \A n : Inside(Rest, n) /\ NoFlush(Rest)
      BY <3>2, CalmInside
    <3>5. \A n : Inside(Push(f, Rest), n)
      <4> TAKE n
      <4> QED
        BY <3>3, <3>4, InsidePush
    <3>6. Ends(Push(f, Rest)) /\ Push(f, Rest) # <<>> /\ Head(Push(f, Rest)) = f
      BY <2>2, <3>3, FlushPush, PushElements
    <3>7. Push(f, Rest) \in Seq(Frame)
      BY <2>2, <3>3, PushElements
    <3> QED
      BY <3>2, <3>3, <3>5, <3>6, <3>7 DEF f
  <2>5. CASE /\ CanFlush /\ isBufferFlushing' = TRUE /\ buffer' = <<>>
             /\ OnWrite([reqs |-> buffer, vec |-> TRUE], length,
                        Push(FrameOf("flushEnd"), Rest))
    <3> DEFINE t == Push(FrameOf("flushEnd"), Rest)
               b == [reqs |-> buffer, vec |-> TRUE]
    <3>1. /\ \A n : Inside(t, n) /\ Ends(t) /\ Head(t).op # "completed"
      BY <2>4, <2>5
    <3>2. OnWrite(b, length, t) /\ buffer' = <<>>
      BY <2>5
    <3> HIDE DEF t, b
    <3>3. /\ Inside(stack', Len(<<>>)) /\ writing' = TRUE /\ Ends(stack')
          /\ Running("completed")' => sync' = TRUE
      BY <3>1, <3>2, OnWriteInside
    <3> QED
      BY <3>2, <3>3 DEF Flushing
  <2>6. CASE /\ CanFlush /\ isBufferFlushing' = TRUE
             /\ stack' = Push(LoopFrame(Len(buffer)), Push(FrameOf("flushEnd"), Rest))
             /\ UNCHANGED <<writeVars, buffer>>
    <3> DEFINE t == Push(FrameOf("flushEnd"), Rest)
               f == LoopFrame(Len(buffer))
    <3>1. /\ Inside(t, Len(buffer)) /\ Ends(t) /\ t \in Seq(Frame)
      BY <2>4, <2>6
    <3>2. /\ f \in Frame /\ f.op = "loop" /\ f.left = Len(buffer) /\ "loop" \in Inner
      BY <1>0, LoopFrameType DEF Inner
    <3>3. /\ stack' = Push(f, t) /\ buffer' = buffer /\ writing' = writing
      BY <2>6
    <3> HIDE DEF t, f
    <3>4. Inside(Push(f, t), Len(buffer))
      BY <3>1, <3>2, InsidePush
    <3>5. Looping(Push(f, t)) /\ Ends(Push(f, t))
      BY <3>1, <3>2, FlushPush
    <3>6. ~Running("completed")'
      BY <3>1, <3>2, <3>3, PushElements DEF Running
    <3> QED
      BY <2>1, <3>3, <3>4, <3>5, <3>6 DEF Flushing
  <2> QED
    BY <1>4, <2>3, <2>5, <2>6 DEF FlushBuffer
<1>5. CASE FlushLoop
  <2>1. /\ Running("loop") /\ writableCorked' = writableCorked
        /\ isBufferFlushing' = isBufferFlushing
    BY <1>5 DEF FlushLoop
  <2>2. /\ Inside(Rest, Len(buffer)) /\ Rest \in Seq(Frame) /\ ~Looping(Rest)
        /\ Head(stack).left = Len(buffer)
        /\ Ends(stack) <=> Ends(Rest)
        /\ Rest = <<>> \/ Head(Rest).op \notin {"flush", "completed"}
    BY <2>1, InnerRest
  <2>3. CASE /\ Head(stack).left = 0 \/ writing
             /\ stack' = Rest /\ UNCHANGED <<writeVars, buffer>>
    <3>1. /\ stack' = Rest /\ buffer' = buffer /\ writing' = writing
      BY <2>3
    <3>2. ~Running("completed")'
      BY <2>2, <3>1 DEF Running
    <3>3. buffer # <<>> => writing
      BY <1>0, <2>2, <2>3, EmptySeq DEF TypeOK
    <3> QED
      BY <2>1, <2>2, <3>1, <3>2, <3>3 DEF Flushing
  <2>4. CASE /\ Head(stack).left > 0 /\ buffer' = Tail(buffer)
             /\ OnWrite(One(Head(buffer)), Head(buffer).len,
                        Push(LoopFrame(Head(stack).left - 1), Rest))
    <3> DEFINE n == Head(stack).left - 1
               f == LoopFrame(n)
               b == One(Head(buffer))
               len == Head(buffer).len
    <3>1. buffer \in Seq(Request) /\ buffer # <<>> /\ n \in Nat /\ Len(Tail(buffer)) = n
      <4>1. buffer \in Seq(Request) /\ Len(buffer) > 0
        BY <1>0, <2>2, <2>4 DEF TypeOK
      <4>2. Len(Tail(buffer)) = Len(buffer) - 1
        BY <1>0, <4>1, EmptySeq, HeadTailProperties
      <4> QED
        BY <1>0, <2>2, <4>1, <4>2, EmptySeq
    <3>2. OnWrite(b, len, Push(f, Rest)) /\ buffer' = Tail(buffer)
      BY <2>4
    <3> HIDE DEF n, b, len
    <3>3. f \in Frame /\ f.op = "loop" /\ f.left = n /\ "loop" \in Inner
      BY <3>1, LoopFrameType DEF Inner
    <3> HIDE DEF f
    <3>4. Inside(Rest, n)
      BY <2>2 DEF Inside, Looping
    <3>5. Inside(Push(f, Rest), n) /\ Push(f, Rest) # <<>> /\ Head(Push(f, Rest)) = f
      BY <2>2, <3>3, <3>4, InsidePush, PushElements, ZenonT(30)
    <3>6. Looping(Push(f, Rest)) /\ (Ends(Push(f, Rest)) <=> Ends(Rest))
      BY <2>2, <3>3, FlushPush
    <3>7. Push(f, Rest) = <<>> \/ Head(Push(f, Rest)).op # "completed"
      BY <3>3, <3>5
    <3>8. /\ Inside(stack', n) /\ writing' = TRUE /\ Looping(stack')
          /\ Ends(stack') <=> Ends(Rest)
          /\ Running("completed")' => sync' = TRUE
      BY <3>2, <3>5, <3>6, <3>7, OnWriteInside
    <3>9. Inside(stack', Len(buffer'))
      BY <3>1, <3>2, <3>8
    <3> QED
      BY <2>1, <2>2, <3>8, <3>9 DEF Flushing
  <2> QED
    BY <1>5, <2>3, <2>4 DEF FlushLoop
<1>6. CASE OnWriteCompleted
  <2> DEFINE nf == NeedFinish(length - writableLength, FALSE)
             op == IF sync THEN "defer" ELSE "nextTick"
             f == FrameFor(op, writeCallback, nf)
  <2>1. /\ Running("completed") /\ writableCorked' = writableCorked /\ buffer' = buffer
        /\ isBufferFlushing' = isBufferFlushing
    BY <1>6 DEF OnWriteCompleted
  <2>2. /\ Inside(Rest, Len(buffer)) /\ Rest \in Seq(Frame) /\ Head(stack).flag = TRUE
        /\ Looping(stack) <=> Looping(Rest)
        /\ Ends(stack) <=> Ends(Rest)
        /\ NoFlush(stack) <=> NoFlush(Rest)
    <3>1. "completed" \notin Flushes /\ "completed" \notin {"loop", "flushEnd"}
      BY DEF Flushes
    <3> QED
      BY <2>1, <3>1, InnerRest
  <2>3. stack' = PushIf(~nf, FrameOf("flush"), Push(f, Rest))
    BY <1>6, <2>2 DEF OnWriteCompleted, AfterSuccess
  <2>4. /\ f \in Frame /\ f.op = op /\ op \notin {"loop", "flushEnd", "completed", "flush"}
        /\ op \in Inner \/ NoFlush(Rest)
    <3>1. op \in FrameOps /\ nf \in BOOLEAN /\ writeCallback \in Batch
      BY <1>0 DEF FrameOps, NeedFinish, TypeOK
    <3>2. f \in Frame /\ f.op = op
      BY <3>1, FrameForType
    <3>3. CASE sync
      BY <3>2, <3>3 DEF Inner
    <3>4. CASE ~sync
      BY <2>1, <2>2, <3>2, <3>4 DEF Flushing
    <3> QED
      BY <3>3, <3>4
  <2>5. nf => buffer = <<>>
    BY DEF NeedFinish
  <2> HIDE DEF nf, op, f
  <2>6. /\ Push(f, Rest) \in Seq(Frame) /\ Inside(Push(f, Rest), Len(buffer))
        /\ Head(Push(f, Rest)) = f
    BY <2>2, <2>4, InsidePush, PushElements
  <2>7. /\ Looping(Push(f, Rest)) <=> Looping(stack)
        /\ Ends(Push(f, Rest)) <=> Ends(stack)
    BY <2>2, <2>4, FlushPush
  <2>8. CASE nf
    <3>1. stack' = Push(f, Rest) /\ buffer' = <<>>
      BY <2>1, <2>3, <2>5, <2>8 DEF PushIf
    <3>2. ~Running("completed")'
      BY <2>4, <2>6, <3>1 DEF Running
    <3> QED
      BY <2>1, <2>6, <2>7, <3>1, <3>2 DEF Flushing
  <2>9. CASE ~nf
    <3> DEFINE g == FrameOf("flush")
    <3>1. g \in Frame /\ g.op = "flush" /\ "flush" \in Inner
      BY FrameOfType DEF FrameOps, Inner
    <3>2. stack' = Push(g, Push(f, Rest))
      BY <2>3, <2>9 DEF PushIf
    <3> HIDE DEF g
    <3>3. /\ Inside(stack', Len(buffer)) /\ stack' # <<>> /\ Head(stack') = g
      BY <2>6, <3>1, <3>2, InsidePush, PushElements, ZenonT(30)
    <3>4. /\ Looping(stack') <=> Looping(stack)
          /\ Ends(stack') <=> Ends(stack)
      BY <2>6, <2>7, <3>1, <3>2, FlushPush
    <3>5. ~Running("completed")' /\ Running("flush")'
      BY <3>1, <3>3 DEF Running
    <3> QED
      BY <2>1, <3>3, <3>4, <3>5 DEF Flushing
  <2> QED
    BY <2>8, <2>9
<1> QED
  BY <1>1, <1>2, <1>3, <1>4, <1>5, <1>6

\* The other steps of the stream: no flush is in progress while they run.
LEMMA OuterStepFlushing ==
    ASSUME IInv, Flushing,
           \/ Failed \/ EmitError \/ OnWriteCompletedNextTick \/ Answer \/ MaybeFinish
           \/ FinishCheck \/ EndWritable \/ Ended \/ RejectLater \/ Return
    PROVE  Flushing'
<1> USE DEF flagVars, writeVars, queueVars, logVars
<1> DEFINE special == {"loop", "flushEnd", "completed"}
           outer == {"failed", "emitError", "nextTick", "answer", "maybeFinish",
                     "finishCheck", "endWritable", "ended", "rejectLater", "user"}
<1>0. /\ \A op \in outer : op \notin Inner /\ op # "flushEnd"
      /\ {"answer", "maybeFinish", "finishCheck", "ended", "flush", "endWritable"}
           \subseteq FrameOps \ special
      /\ FALSE \in BOOLEAN
  BY DEF Inner, FrameOps
<1>1. PICK op \in outer : Running(op)
  BY DEF Failed, EmitError, OnWriteCompletedNextTick, Answer, MaybeFinish,
     FinishCheck, EndWritable, Ended, RejectLater, Return
<1>2. op \notin Inner /\ op # "flushEnd"
  BY <1>0, <1>1
<1>3. /\ Calm(Rest) /\ ~isBufferFlushing /\ Head(stack) \in Frame
      /\ ~(buffer # <<>> /\ writableCorked = 0 /\ ~writing)
  BY <1>1, <1>2, OuterCalm
<1>4. UNCHANGED <<buffer, writableCorked, writing, isBufferFlushing>>
  <2>1. CASE Failed \/ EmitError \/ OnWriteCompletedNextTick \/ Answer
    BY <2>1 DEF Failed, EmitError, OnWriteCompletedNextTick, Answer
  <2>2. CASE MaybeFinish \/ FinishCheck \/ EndWritable
    BY <2>2 DEF MaybeFinish, FinishCheck, EndWritable
  <2>3. CASE Ended \/ RejectLater \/ Return
    BY <2>3 DEF Ended, RejectLater, Return
  <2> QED
    BY <2>1, <2>2, <2>3
<1>5. /\ Calm(Push(UserFrame, Rest))
      /\ \A o \in FrameOps \ special : Calm(Push(FrameOf(o), Rest))
      /\ \A o \in FrameOps \ special, b \in Batch, x \in BOOLEAN :
            Calm(Push(FrameFor(o, b, x), Rest))
  BY <1>3, CalmFrames
<1>6. Calm(stack')
  <2>1. CASE EmitError \/ Ended \/ FinishCheck
    BY <1>3, <1>5, <2>1 DEF EmitError, Ended, FinishCheck
  <2>2. CASE RejectLater \/ Return
    BY <1>3, <2>2 DEF RejectLater, Return
  <2>3. CASE EndWritable
    <3>1. /\ Calm(Push(FrameOf("ended"), Rest))
          /\ Calm(Push(FrameOf("maybeFinish"), Push(FrameOf("ended"), Rest)))
      BY <1>0, <1>5, CalmFrames
    <3> QED
      BY <1>3, <2>3, <3>1 DEF EndWritable
  <2>4. CASE MaybeFinish
    <3>1. /\ Calm(Push(FrameOf("finishCheck"), Rest))
          /\ Calm(Push(UserFrame, Push(FrameOf("finishCheck"), Rest)))
      BY <1>0, <1>5, CalmFrames
    <3> QED
      BY <1>3, <2>4, <3>1 DEF MaybeFinish, PushIf
  <2>5. CASE Failed \/ OnWriteCompletedNextTick
    <3> DEFINE b == Head(stack).batch
               s == Push(FrameOf("maybeFinish"), Rest)
    <3>1. b \in Batch
      BY <1>3 DEF Frame
    <3>2. \/ stack' = Push(FrameFor("answer", b, FALSE), Rest)
          \/ stack' = Push(FrameFor("answer", b, FALSE), s)
          \/ stack' = Push(UserFrame, Push(FrameFor("answer", b, FALSE), s))
      BY <2>5 DEF Failed, OnWriteCompletedNextTick, AfterDrain, PushIf
    <3> HIDE DEF b
    <3>3. Calm(s) /\ Calm(Push(FrameFor("answer", b, FALSE), Rest))
      BY <1>0, <1>5, <3>1
    <3> HIDE DEF s
    <3>4. Calm(Push(FrameFor("answer", b, FALSE), s))
      BY <1>0, <3>1, <3>3, CalmFrames
    <3>5. Calm(Push(UserFrame, Push(FrameFor("answer", b, FALSE), s)))
      BY <3>4, CalmFrames
    <3> QED
      BY <3>2, <3>3, <3>4, <3>5
  <2>6. CASE Answer
    <3> DEFINE b == Head(stack).batch
               c == [b EXCEPT !.reqs = Tail(@)]
               s == Push(FrameFor("answer", c, FALSE), Rest)
    <3>1. stack' = Push(UserFrame, s) \/ stack' = Push(UserFrame, Rest)
      BY <2>6 DEF Answer, PushIf
    <3>2. c \in Batch
      <4>1. b \in Batch /\ b.reqs # <<>> /\ b.reqs \in Seq(Request)
        BY <1>3, <2>6, RestGood DEF Answer, Frame, FrameOK, Batch
      <4>2. Tail(b.reqs) \in Seq(Request)
        BY <4>1, HeadTailProperties
      <4> QED
        BY <4>1, <4>2 DEF Batch
    <3> HIDE DEF c
    <3>3. Calm(s)
      BY <1>0, <1>5, <3>2
    <3> HIDE DEF s
    <3>4. Calm(Push(UserFrame, s))
      BY <3>3, CalmFrames
    <3> QED
      BY <1>5, <3>1, <3>4
  <2> QED
    BY <2>1, <2>2, <2>3, <2>4, <2>5, <2>6
<1> QED
  BY <1>3, <1>4, <1>6, CalmFlushing

\* Calls of user code, the sink's answer, and the check phase.
LEMMA CallFlushing ==
    ASSUME ~WritesInFinish, SinkAnswers \subseteq {"later", "now"}, IInv, Finishing, Flushing,
           UserCall \/ SinkCompletes \/ RunImmediate
    PROVE  Flushing'
<1> USE DEF flagVars, writeVars, queueVars, logVars
<1> DEFINE special == {"loop", "flushEnd", "completed"}
<1>0. /\ {"endWritable", "flush", "rejectLater"} \subseteq FrameOps \ special
      /\ FALSE \in BOOLEAN /\ TypeOK
  BY DEF FrameOps, IInv
<1>1. ASSUME InUserCode
      PROVE  /\ Calm(stack) /\ ~isBufferFlushing
             /\ ~(buffer # <<>> /\ writableCorked = 0 /\ ~writing)
             /\ Calm(Push(UserFrame, stack))
             /\ \A o \in FrameOps \ special : Calm(Push(FrameOf(o), stack))
             /\ \A o \in FrameOps \ special, b \in Batch, x \in BOOLEAN :
                   Calm(Push(FrameFor(o, b, x), stack))
  BY <1>1, UserCalm, CalmFrames
<1>2. ASSUME NEW s, Calm(s)
      PROVE  Push(FrameOf("flush"), s) # <<>> /\ Head(Push(FrameOf("flush"), s)).op = "flush"
  <2>1. s \in Seq(Frame) /\ FrameOf("flush") \in Frame /\ FrameOf("flush").op = "flush"
    BY <1>0, <1>2, FrameOfType DEF Calm
  <2> QED
    BY <2>1, PushElements
<1>3. ASSUME NEW len \in ChunkLengths, Write(len) PROVE Flushing'
  <2>1. /\ InUserCode /\ isBufferFlushing' = isBufferFlushing
        /\ writableCorked' = writableCorked
    BY <1>3 DEF Write, MayWrite
  <2>2. CASE MustBuffer /\ UNCHANGED <<writeVars, stack>>
    <3>1. /\ Calm(stack) /\ ~isBufferFlushing /\ stack' = stack /\ writing' = writing
          /\ writing \/ writableCorked # 0
      BY <1>1, <2>1, <2>2 DEF MustBuffer
    <3> QED
      BY <2>1, <3>1, CalmFlushing
  <2>3. CASE /\ OnWrite(One(NewRequest(len)), len, stack)
             /\ UNCHANGED buffer
    <3>1. /\ \A n : Inside(stack, n)
          /\ stack = <<>> \/ Head(stack).op # "completed"
      BY <1>1, <2>1, CalmInside
    <3> DEFINE b == One(NewRequest(len))
    <3>2. OnWrite(b, len, stack) /\ buffer' = buffer
      BY <2>3
    <3> HIDE DEF b
    <3>3. /\ Inside(stack', Len(buffer)) /\ writing' = TRUE
          /\ Running("completed")' => sync' = TRUE
      BY <3>1, <3>2, OnWriteInside
    <3> QED
      BY <1>1, <2>1, <3>2, <3>3 DEF Flushing
  <2> QED
    BY <1>3, <2>2, <2>3 DEF Write
<1>4. ASSUME NEW len \in ChunkLengths, WriteRejected(len) PROVE Flushing'
  <2> DEFINE b == One(NewRequest(len))
             s == Push(FrameFor("rejectLater", b, FALSE), stack)
  <2>1. /\ InUserCode /\ stack' = Push(UserFrame, s)
        /\ UNCHANGED <<buffer, writableCorked, writing, isBufferFlushing>>
    BY <1>4 DEF WriteRejected, MayWrite
  <2>2. b \in Batch
    <3> DEFINE r == NewRequest(len)
    <3>1. MayWrite
      BY <1>4 DEF WriteRejected
    <3>2. r \in Request
      BY <3>1, NewRequestType
    <3> HIDE DEF r
    <3>3. One(r) \in Batch
      BY <3>2 DEF One, Batch
    <3> QED
      BY <3>3 DEF r
  <2> HIDE DEF b
  <2>3. Calm(s)
    BY <1>0, <1>1, <2>1, <2>2
  <2> HIDE DEF s
  <2>4. Calm(Push(UserFrame, s))
    BY <2>3, CalmFrames
  <2> QED
    BY <1>1, <2>1, <2>4, CalmFlushing
<1>5. CASE Cork
  <2>1. /\ InUserCode /\ stack' = stack /\ buffer' = buffer /\ writing' = writing
        /\ isBufferFlushing' = isBufferFlushing /\ writableCorked' # 0
    BY <1>0, <1>5 DEF Cork, TypeOK
  <2> QED
    BY <1>1, <2>1, CalmFlushing
<1>6. CASE Uncork
  <2>1. /\ InUserCode /\ stack' = PushIf(FlushOnUncork, FrameOf("flush"), stack)
        /\ buffer' = buffer /\ writing' = writing
        /\ isBufferFlushing' = isBufferFlushing
    BY <1>6 DEF Uncork
  <2>2. CASE FlushOnUncork
    <3>1. stack' = Push(FrameOf("flush"), stack)
      BY <2>1, <2>2 DEF PushIf
    <3>2. Calm(stack') /\ Running("flush")'
      BY <1>0, <1>1, <1>2, <2>1, <3>1 DEF Running
    <3> QED
      BY <1>1, <2>1, <3>2, CalmFlushing
  <2>3. CASE ~FlushOnUncork
    <3>1. stack' = stack /\ (writing \/ buffer = <<>>)
      BY <2>1, <2>3 DEF PushIf, FlushOnUncork, Finishing, Idle
    <3> QED
      BY <1>1, <2>1, <3>1, CalmFlushing
  <2> QED
    BY <2>2, <2>3
<1>7. CASE Finish
  <2> DEFINE s == Push(FrameOf("endWritable"), stack)
             go == writableCorked # 0 /\ FlushOnUncork
  <2>1. /\ InUserCode /\ stack' = PushIf(go, FrameOf("flush"), s)
        /\ buffer' = buffer /\ writing' = writing
        /\ isBufferFlushing' = isBufferFlushing
    BY <1>7 DEF Finish
  <2>2. Calm(s)
    BY <1>0, <1>1, <2>1
  <2>3. ~go => writing \/ buffer = <<>>
    BY <1>1, <2>1 DEF FlushOnUncork, Finishing, Idle
  <2> HIDE DEF s, go
  <2>4. CASE go
    <3>1. stack' = Push(FrameOf("flush"), s)
      BY <2>1, <2>4 DEF PushIf
    <3>2. Calm(stack')
      BY <1>0, <2>2, <3>1, CalmFrames
    <3>3. Running("flush")'
      BY <1>2, <2>2, <3>1 DEF Running
    <3> QED
      BY <1>1, <2>1, <3>2, <3>3, CalmFlushing
  <2>5. CASE ~go
    <3>1. stack' = s
      BY <2>1, <2>5 DEF PushIf
    <3> QED
      BY <1>1, <2>1, <2>2, <2>3, <2>5, <3>1, CalmFlushing
  <2> QED
    BY <2>4, <2>5
<1>8. CASE SinkCompletes
  <2> DEFINE f == FrameFor("completed", NoBatch, TRUE)
  <2>1. InUserCode /\ io /\ writing
    BY <1>8 DEF SinkCompletes, InUserCode, IInv
  <2>2. /\ stack' = Push(f, stack)
        /\ buffer' = buffer /\ writing' = writing /\ sync' = sync
        /\ isBufferFlushing' = isBufferFlushing
    <3>1. PICK a \in SinkAnswers \cap {"later", "fail"} :
             stack' = Push(FrameFor("completed", NoBatch, a = "later"), stack)
      BY <1>8 DEF SinkCompletes
    <3>2. a = "later"
      BY <3>1
    <3>3. (a = "later") = TRUE
      BY <3>2
    <3> QED
      BY <1>8, <3>1, <3>3 DEF SinkCompletes
  <2>3. f \in Frame /\ f.op = "completed" /\ f.flag = TRUE /\ "completed" \in Inner
        /\ "completed" \notin Flushes
    <3>1. "completed" \in FrameOps /\ TRUE \in BOOLEAN /\ f.flag = TRUE
      BY DEF FrameOps, FrameFor
    <3> QED
      BY <3>1, NoBatchType, FrameForType DEF Inner, Flushes
  <2> HIDE DEF f
  <2>4. /\ Inside(stack, Len(buffer)) /\ NoFlush(stack) /\ stack \in Seq(Frame)
        /\ ~isBufferFlushing
    BY <1>1, <2>1, CalmInside DEF Calm
  <2>5. Inside(Push(f, stack), Len(buffer)) /\ NoFlush(Push(f, stack))
    BY <2>3, <2>4, InsidePush, FlushPush
  <2> QED
    BY <2>1, <2>2, <2>4, <2>5 DEF Flushing
<1>9. CASE RunImmediate
  <2>1. /\ stack = <<>> /\ immediates # <<>> /\ stack' = << Head(immediates) >>
        /\ UNCHANGED <<buffer, writableCorked, writing, isBufferFlushing>>
    BY <1>9 DEF RunImmediate
  <2>2. Head(immediates) \in Frame /\ Head(immediates).op \notin special
    <3>1. /\ immediates \in Seq(Frame) /\ 1 \in DOMAIN immediates
          /\ Head(immediates) = immediates[1] /\ Head(immediates) \in Frame
      BY <1>0, <2>1, EmptySeq, LenProperties, HeadTailProperties DEF TypeOK
    <3> QED
      BY <3>1 DEF IInv, Deferred
  <2>3. Calm(stack')
    <3> DEFINE f == Head(immediates)
    <3>1. stack' = <<f>> /\ f \in Frame /\ f.op \notin special
      BY <2>1, <2>2
    <3> HIDE DEF f
    <3> QED
      BY <3>1 DEF Calm
  <2>4. InUserCode
    BY <2>1 DEF InUserCode
  <2> QED
    BY <1>1, <2>1, <2>3, <2>4, CalmFlushing
<1> QED
  BY <1>3, <1>4, <1>5, <1>6, <1>7, <1>8, <1>9 DEF UserCall

LEMMA FlushingStep ==
    ASSUME ~WritesInFinish, SinkAnswers \subseteq {"later", "now"}, IInv, Finishing, Flushing,
           [Next]_vars
    PROVE  Flushing'
<1>1. CASE UserCall \/ SinkCompletes \/ RunImmediate
  BY <1>1, CallFlushing
<1>2. CASE SyncOff \/ OnWriteCompleted \/ Defer \/ FlushBuffer \/ FlushLoop \/ FlushEnd
  BY <1>2, InnerStepFlushing
<1>3. CASE \/ Failed \/ EmitError \/ OnWriteCompletedNextTick \/ Answer \/ MaybeFinish
           \/ FinishCheck \/ EndWritable \/ Ended \/ RejectLater \/ Return
  BY <1>3, OuterStepFlushing
<1>4. CASE UNCHANGED vars
  BY <1>4 DEF vars, flagVars, writeVars, queueVars, logVars, Flushing, Running
<1> QED
  BY <1>1, <1>2, <1>3, <1>4 DEF Next, StreamStep

(* What a step does to the queue.                                          *)
Puts ==
    \E len \in ChunkLengths :
       /\ calls < MaxWrites /\ calls' = calls + 1
       /\ ~ending /\ ending' = ending /\ writableFinished' = writableFinished
       /\ \/ /\ buffer' = Append(buffer, NewRequest(len))
             /\ handed' = handed /\ writing' = writing
          \/ /\ buffer = <<>> /\ buffer' = <<>> /\ ~writing
             /\ handed' = handed \o Ids(<<NewRequest(len)>>) /\ writing' = TRUE

Sends ==
    /\ ~writing /\ writing' = TRUE
    /\ calls' = calls /\ ending' = ending /\ writableFinished' = writableFinished
    /\ \E n \in 1 .. Len(buffer) :
         /\ handed' = handed \o Ids(SubSeq(buffer, 1, n))
         /\ buffer' = SubSeq(buffer, n + 1, Len(buffer))

Stays == UNCHANGED <<buffer, handed>> /\ calls' \in Nat /\ calls' >= calls

Acknowledges ==
    /\ Stays /\ writing /\ writing' = FALSE
    /\ ending' = ending /\ writableFinished' = writableFinished

Closes ==
    /\ Stays /\ ending' = TRUE
    /\ writing' = writing /\ writableFinished' = writableFinished

Finishes ==
    /\ Stays /\ Idle /\ ~writableFinished /\ writableFinished' = TRUE
    /\ writing' = writing /\ ending' = ending

Skips == Stays /\ UNCHANGED <<writing, ending, writableFinished>>

QueueStep == Puts \/ Sends \/ Acknowledges \/ Closes \/ Finishes \/ Skips

LEMMA WriteQueues ==
    ASSUME ~WritesInFinish, IInv, Flushing, NEW len \in ChunkLengths, Write(len)
    PROVE  Puts
<1> USE DEF flagVars, writeVars, queueVars, logVars
<1>1. /\ calls < MaxWrites /\ calls' = calls + 1 /\ ~ending /\ ending' = ending
      /\ writableFinished' = writableFinished /\ InUserCode
  BY DEF Write, MayWrite
<1>2. CASE MustBuffer /\ buffer' = Append(buffer, NewRequest(len)) /\ UNCHANGED writeVars
  BY <1>1, <1>2 DEF Puts
<1>3. CASE /\ ~MustBuffer /\ OnWrite(One(NewRequest(len)), len, stack)
           /\ UNCHANGED buffer
  <2>1. buffer = <<>> /\ ~writing /\ buffer' = <<>>
    BY <1>1, <1>3, UserCalm DEF MustBuffer
  <2>2. handed' = handed \o Ids(<<NewRequest(len)>>) /\ writing' = TRUE
    BY <1>3 DEF OnWrite, One
  <2> QED
    BY <1>1, <2>1, <2>2 DEF Puts
<1> QED
  BY <1>2, <1>3 DEF Write

LEMMA FlushQueues ==
    ASSUME IInv, FlushBuffer \/ FlushLoop
    PROVE  Sends \/ Skips
<1> USE DEF flagVars, writeVars, queueVars, logVars
<1>0. buffer \in Seq(Request) /\ Len(buffer) \in Nat /\ calls \in Nat
  BY LenProperties DEF IInv, TypeOK
<1>1. CASE FlushBuffer
  <2>1. /\ calls' = calls /\ ending' = ending /\ writableFinished' = writableFinished
        /\ ~writing
    BY <1>1 DEF FlushBuffer, IInv
  <2>2. CASE UNCHANGED <<writeVars, buffer>>
    BY <1>0, <2>1, <2>2 DEF Skips, Stays
  <2>3. CASE /\ CanFlush /\ buffer' = <<>>
             /\ OnWrite([reqs |-> buffer, vec |-> TRUE], length,
                        Push(FrameOf("flushEnd"), Rest))
    <3>1. handed' = handed \o Ids(buffer) /\ writing' = TRUE
      BY <2>3 DEF OnWrite
    <3>2. Len(buffer) \in 1 .. Len(buffer)
      BY <1>0, <2>3, EmptySeq DEF CanFlush
    <3>3. /\ buffer = SubSeq(buffer, 1, Len(buffer))
          /\ <<>> = SubSeq(buffer, Len(buffer) + 1, Len(buffer))
      BY <1>0
    <3> QED
      BY <2>1, <2>3, <3>1, <3>2, <3>3 DEF Sends
  <2> QED
    BY <1>1, <2>2, <2>3 DEF FlushBuffer
<1>2. CASE FlushLoop
  <2>1. /\ calls' = calls /\ ending' = ending /\ writableFinished' = writableFinished
        /\ Running("loop")
    BY <1>2 DEF FlushLoop
  <2>2. CASE UNCHANGED <<writeVars, buffer>>
    BY <1>0, <2>1, <2>2 DEF Skips, Stays
  <2>3. CASE /\ Head(stack).left > 0 /\ ~writing /\ buffer' = Tail(buffer)
             /\ OnWrite(One(Head(buffer)), Head(buffer).len,
                        Push(LoopFrame(Head(stack).left - 1), Rest))
    <3>1. handed' = handed \o Ids(<<Head(buffer)>>) /\ writing' = TRUE
      BY <2>3 DEF OnWrite, One
    <3>2. 1 \in 1 .. Len(buffer) /\ buffer # <<>>
      <4>1. Head(stack).left <= Len(buffer) /\ Head(stack).left \in Nat
        BY <2>1, RestGood DEF FrameOK, Frame
      <4> QED
        BY <1>0, <2>3, <4>1, EmptySeq
    <3>3. /\ <<Head(buffer)>> = SubSeq(buffer, 1, 1)
          /\ Tail(buffer) = SubSeq(buffer, 1 + 1, Len(buffer))
      BY <1>0, <3>2
    <3> QED
      BY <2>1, <2>3, <3>1, <3>2, <3>3 DEF Sends
  <2> QED
    BY <1>2, <2>2, <2>3 DEF FlushLoop
<1> QED
  BY <1>1, <1>2

LEMMA StepQueues ==
    ASSUME ~WritesInFinish, IInv, Finishing, Flushing, [Next]_vars
    PROVE  QueueStep
<1> USE DEF flagVars, writeVars, queueVars, logVars
<1>0. calls \in Nat /\ calls >= calls /\ calls + 1 \in Nat /\ calls + 1 >= calls
  BY DEF IInv, TypeOK
<1>1. ASSUME NEW len \in ChunkLengths, Write(len) PROVE Puts
  BY <1>1, WriteQueues
<1>2. CASE FlushBuffer \/ FlushLoop
  BY <1>2, FlushQueues DEF QueueStep
<1>3. ASSUME NEW len \in ChunkLengths, WriteRejected(len) PROVE Skips
  BY <1>0, <1>3 DEF WriteRejected, Skips, Stays
<1>4. CASE Cork \/ Uncork \/ Finish
  BY <1>0, <1>4 DEF Cork, Uncork, Finish, Skips, Stays, QueueStep
<1>5. CASE OnWriteCompleted
  <2>1. writing
    BY <1>5 DEF OnWriteCompleted, IInv
  <2> QED
    BY <1>0, <1>5, <2>1 DEF OnWriteCompleted, Acknowledges, Stays, QueueStep
<1>6. CASE EndWritable
  <2>1. Stays /\ writing' = writing /\ writableFinished' = writableFinished
    BY <1>0, <1>6 DEF EndWritable, Stays
  <2>2. ending' = TRUE \/ ending' = ending
    BY <1>6 DEF EndWritable
  <2> QED
    BY <2>1, <2>2 DEF Closes, Skips, QueueStep
<1>7. CASE FinishCheck
  <2>1. Stays /\ writing' = writing /\ ending' = ending
    BY <1>0, <1>7 DEF FinishCheck, Stays
  <2>2. writableFinished' = TRUE \/ writableFinished' = writableFinished
    BY <1>7 DEF FinishCheck
  <2>3. Idle /\ ~writableFinished
    <3>1. stack \in Seq(Frame) /\ stack # <<>> /\ Head(stack).op = "finishCheck"
      BY <1>7 DEF FinishCheck, Running, IInv, TypeOK
    <3>2. 1 \in DOMAIN stack /\ stack[1].op = "finishCheck"
      BY <3>1, LenProperties, EmptySeq, HeadTailProperties
    <3> QED
      BY <3>2 DEF Finishing, NoCheck
  <2> QED
    BY <2>1, <2>2, <2>3 DEF Finishes, Skips, QueueStep
<1>8. CASE SyncOff \/ Defer \/ Failed \/ EmitError \/ OnWriteCompletedNextTick \/ Answer
  BY <1>0, <1>8 DEF SyncOff, Defer, Failed, EmitError, OnWriteCompletedNextTick, Answer,
     Skips, Stays, QueueStep
<1>9. CASE FlushEnd \/ MaybeFinish \/ Ended \/ RejectLater \/ Return
  BY <1>0, <1>9 DEF FlushEnd, MaybeFinish, Ended, RejectLater, Return,
     Skips, Stays, QueueStep
<1>10. CASE SinkCompletes \/ RunImmediate \/ UNCHANGED vars
  BY <1>0, <1>10 DEF SinkCompletes, RunImmediate, vars, Skips, Stays, QueueStep
<1> QED
  BY <1>1, <1>2, <1>3, <1>4, <1>5, <1>6, <1>7, <1>8, <1>9, <1>10
     DEF Next, UserCall, StreamStep, QueueStep

LEMMA IdsType ==
    ASSUME NEW s \in Seq(Request)
    PROVE  /\ Ids(s) \in Seq(1 .. MaxWrites) /\ Len(Ids(s)) = Len(s) /\ Len(s) \in Nat
           /\ \A i \in 1 .. Len(s) : Ids(s)[i] = s[i].id
<1>1. Len(s) \in Nat /\ \A i \in 1 .. Len(s) : s[i] \in Request
  BY LenProperties, ElementOfSeq
<1>2. \A i \in 1 .. Len(s) : s[i].id \in 1 .. MaxWrites
  BY <1>1 DEF Request
<1>3. Ids(s) \in Seq(1 .. MaxWrites)
  BY <1>1, <1>2, IsASeq DEF Ids
<1>4. DOMAIN Ids(s) = 1 .. Len(s)
  BY DEF Ids
<1>5. Len(Ids(s)) = Len(s)
  BY <1>1, <1>3, <1>4, LenProperties
<1> QED
  BY <1>1, <1>3, <1>5 DEF Ids

LEMMA IdsConcat ==
    ASSUME NEW s \in Seq(Request), NEW t \in Seq(Request)
    PROVE  Ids(s \o t) = Ids(s) \o Ids(t)
<1> DEFINE N == 1 .. MaxWrites
           a == Ids(s)
           b == Ids(t)
<1>1. /\ a \in Seq(N) /\ Len(a) = Len(s) /\ Len(s) \in Nat
      /\ \A i \in 1 .. Len(s) : a[i] = s[i].id
  BY IdsType
<1>2. /\ b \in Seq(N) /\ Len(b) = Len(t) /\ Len(t) \in Nat
      /\ \A i \in 1 .. Len(t) : b[i] = t[i].id
  BY IdsType
<1>3. /\ s \o t \in Seq(Request) /\ Len(s \o t) = Len(s) + Len(t)
      /\ \A i \in 1 .. Len(s) + Len(t) :
            (s \o t)[i] = IF i <= Len(s) THEN s[i] ELSE t[i - Len(s)]
  BY ConcatProperties
<1>4. /\ Ids(s \o t) \in Seq(N) /\ Len(Ids(s \o t)) = Len(s) + Len(t)
      /\ \A i \in 1 .. Len(s) + Len(t) : Ids(s \o t)[i] = (s \o t)[i].id
  BY <1>3, IdsType
<1> HIDE DEF a, b, N
<1>5. /\ a \o b \in Seq(N) /\ Len(a \o b) = Len(s) + Len(t)
      /\ \A i \in 1 .. Len(s) + Len(t) :
            (a \o b)[i] = IF i <= Len(s) THEN a[i] ELSE b[i - Len(s)]
  <2>1. /\ a \o b \in Seq(N) /\ Len(a \o b) = Len(a) + Len(b)
        /\ \A i \in 1 .. Len(a) + Len(b) :
              (a \o b)[i] = IF i <= Len(a) THEN a[i] ELSE b[i - Len(a)]
    <3>1. a \in Seq(N) /\ b \in Seq(N)
      BY <1>1, <1>2
    <3> QED
      BY <3>1, ConcatProperties, Zenon
  <2> QED
    BY <1>1, <1>2, <2>1
<1>6. ASSUME NEW i \in 1 .. Len(s) + Len(t) PROVE Ids(s \o t)[i] = (a \o b)[i]
  <2>1. CASE i <= Len(s)
    <3>1. i \in 1 .. Len(s)
      BY <1>1, <2>1
    <3> QED
      BY <1>1, <1>3, <1>4, <1>5, <2>1, <3>1
  <2>2. CASE ~(i <= Len(s))
    <3>1. i - Len(s) \in 1 .. Len(t)
      BY <1>1, <1>2, <2>2
    <3> QED
      BY <1>2, <1>3, <1>4, <1>5, <2>2, <3>1
  <2> QED
    BY <2>1, <2>2
<1>7. Ids(s \o t) = a \o b
  BY <1>4, <1>5, <1>6, SeqEqual
<1> QED
  BY <1>7 DEF a, b

LEMMA IdsSub ==
    ASSUME NEW s \in Seq(Request), NEW m \in 1 .. Len(s) + 1, NEW n \in 0 .. Len(s)
    PROVE  /\ SubSeq(s, m, n) \in Seq(Request)
           /\ Ids(SubSeq(s, m, n)) = SubSeq(Ids(s), m, n)
<1> DEFINE N == 1 .. MaxWrites
           a == Ids(s)
           u == SubSeq(s, m, n)
           v == SubSeq(a, m, n)
           k == IF m <= n THEN n - m + 1 ELSE 0
<1>1. /\ a \in Seq(N) /\ Len(a) = Len(s) /\ Len(s) \in Nat
      /\ \A i \in 1 .. Len(s) : a[i] = s[i].id
  BY IdsType
<1>2. m \in Int /\ n \in Int /\ m .. n \subseteq 1 .. Len(s)
  BY <1>1
<1>3. /\ \A i \in m .. n : s[i] \in Request
      /\ \A i \in m .. n : a[i] \in N
  BY <1>1, <1>2, ElementOfSeq
<1>4. /\ u \in Seq(Request) /\ Len(u) = k /\ \A i \in 1 .. n - m + 1 : u[i] = s[m + i - 1]
  BY <1>2, <1>3, SubSeqProperties
<1> HIDE DEF a, N
<1>5. /\ v \in Seq(N) /\ Len(v) = k /\ \A i \in 1 .. n - m + 1 : v[i] = a[m + i - 1]
  BY <1>2, <1>3, SubSeqProperties
<1> HIDE DEF u, v
<1>6. /\ Ids(u) \in Seq(N) /\ Len(Ids(u)) = k /\ \A i \in 1 .. k : Ids(u)[i] = u[i].id
  BY <1>4, IdsType DEF N
<1>7. ASSUME NEW i \in 1 .. k PROVE Ids(u)[i] = v[i]
  <2>1. i \in 1 .. n - m + 1 /\ m + i - 1 \in 1 .. Len(s)
    BY <1>1
  <2> QED
    BY <1>1, <1>4, <1>5, <1>6, <1>7, <2>1
<1>8. Ids(u) = v
  BY <1>5, <1>6, <1>7, SeqEqual
<1> QED
  BY <1>4, <1>8 DEF u, v, a

LEMMA SplitSeq ==
    ASSUME NEW s \in Seq(Request), NEW n \in 1 .. Len(s)
    PROVE  SubSeq(s, 1, n) \o SubSeq(s, n + 1, Len(s)) = s
<1> DEFINE u == SubSeq(s, 1, n)
           v == SubSeq(s, n + 1, Len(s))
<1>1. Len(s) \in Nat
  BY LenProperties
<1>2. \A i \in 1 .. Len(s) : s[i] \in Request
  BY ElementOfSeq
<1>3. /\ u \in Seq(Request) /\ Len(u) = n /\ \A i \in 1 .. n : u[i] = s[i]
  <2>1. \A i \in 1 .. n : s[i] \in Request
    BY <1>1, <1>2
  <2>2. /\ u \in Seq(Request) /\ Len(u) = (IF 1 <= n THEN n - 1 + 1 ELSE 0)
        /\ \A i \in 1 .. n - 1 + 1 : u[i] = s[1 + i - 1]
    BY <1>1, <2>1, SubSeqProperties
  <2> QED
    BY <1>1, <2>2
<1>4. /\ v \in Seq(Request) /\ Len(v) = Len(s) - n
      /\ \A i \in 1 .. Len(s) - n : v[i] = s[n + i]
  <2>1. \A i \in n + 1 .. Len(s) : s[i] \in Request
    BY <1>1, <1>2
  <2>2. n + 1 \in Int /\ Len(s) \in Int
    BY <1>1
  <2>3. /\ v \in Seq(Request) /\ Len(v) = (IF n + 1 <= Len(s) THEN Len(s) - (n + 1) + 1 ELSE 0)
        /\ \A i \in 1 .. Len(s) - (n + 1) + 1 : v[i] = s[n + 1 + i - 1]
    BY <2>1, <2>2, SubSeqProperties
  <2> QED
    BY <1>1, <2>3
<1> HIDE DEF u, v
<1>5. /\ u \o v \in Seq(Request) /\ Len(u \o v) = Len(u) + Len(v)
      /\ \A i \in 1 .. Len(u) + Len(v) : (u \o v)[i] = IF i <= Len(u) THEN u[i] ELSE v[i - Len(u)]
  BY <1>3, <1>4, ConcatProperties
<1>6. Len(u \o v) = Len(s)
  BY <1>1, <1>3, <1>4, <1>5
<1>7. ASSUME NEW i \in 1 .. Len(u \o v) PROVE (u \o v)[i] = s[i]
  <2>1. i \in 1 .. Len(u) + Len(v) /\ i \in 1 .. Len(s)
    BY <1>1, <1>3, <1>4, <1>5, <1>6
  <2>2. CASE i <= n
    BY <1>1, <1>3, <1>5, <2>1, <2>2
  <2>3. CASE ~(i <= n)
    <3>1. i - n \in 1 .. Len(s) - n /\ n + (i - n) = i
      BY <1>1, <2>1, <2>3
    <3>2. v[i - n] = s[n + (i - n)]
      BY <1>4, <3>1
    <3> QED
      BY <1>3, <1>5, <2>1, <2>3, <3>1, <3>2
  <2> QED
    BY <2>2, <2>3
<1>8. u \o v = s
  BY <1>5, <1>6, <1>7, SeqEqual
<1> QED
  BY <1>8 DEF u, v

(* The ids that were accepted, handed over or waiting, in order.           *)
Sent == handed \o Ids(buffer)

Ordered ==
    /\ \A i, j \in DOMAIN Sent : i < j => Sent[i] < Sent[j]
    /\ \A i \in DOMAIN Sent : Sent[i] <= calls

LEMMA SentType ==
    ASSUME IInv
    PROVE  /\ Sent \in Seq(1 .. MaxWrites) /\ Len(Sent) = Len(handed) + Len(buffer)
           /\ Len(handed) \in Nat /\ Len(buffer) \in Nat /\ DOMAIN Sent = 1 .. Len(Sent)
           /\ \A i \in 1 .. Len(handed) : Sent[i] = handed[i]
           /\ \A i \in 1 .. Len(buffer) : Sent[Len(handed) + i] = buffer[i].id
<1> DEFINE N == 1 .. MaxWrites
           a == Ids(buffer)
<1>1. handed \in Seq(N) /\ buffer \in Seq(Request)
  BY DEF IInv, TypeOK
<1>2. /\ a \in Seq(N) /\ Len(a) = Len(buffer) /\ Len(buffer) \in Nat
      /\ \A i \in 1 .. Len(buffer) : a[i] = buffer[i].id
  BY <1>1, IdsType
<1> HIDE DEF a, N
<1>3. /\ handed \o a \in Seq(N) /\ Len(handed \o a) = Len(handed) + Len(a)
      /\ \A i \in 1 .. Len(handed) + Len(a) :
            (handed \o a)[i] = IF i <= Len(handed) THEN handed[i] ELSE a[i - Len(handed)]
  BY <1>1, <1>2, ConcatProperties
<1>4. Len(handed) \in Nat
  BY <1>1, LenProperties
<1>5. \A i \in 1 .. Len(handed) : (handed \o a)[i] = handed[i]
  BY <1>2, <1>3, <1>4
<1>6. ASSUME NEW i \in 1 .. Len(buffer) PROVE (handed \o a)[Len(handed) + i] = buffer[i].id
  <2>1. /\ Len(handed) + i \in 1 .. Len(handed) + Len(a) /\ ~(Len(handed) + i <= Len(handed))
        /\ Len(handed) + i - Len(handed) = i
    BY <1>2, <1>4
  <2> QED
    BY <1>2, <1>3, <2>1
<1>7. DOMAIN (handed \o a) = 1 .. Len(handed \o a)
  BY <1>3, LenProperties
<1> QED
  BY <1>2, <1>3, <1>4, <1>5, <1>6, <1>7 DEF Sent, a, N

\* A write joins the requests that were accepted, whether it waits or not.
LEMMA SentPuts ==
    ASSUME IInv, NEW len \in ChunkLengths, calls < MaxWrites,
           \/ /\ buffer' = Append(buffer, NewRequest(len)) /\ handed' = handed
           \/ /\ buffer = <<>> /\ buffer' = <<>>
              /\ handed' = handed \o Ids(<<NewRequest(len)>>)
    PROVE  Sent' = Append(Sent, calls + 1)
<1>0. /\ calls \in Nat /\ buffer \in Seq(Request) /\ handed \in Seq(1 .. MaxWrites)
  BY DEF IInv, TypeOK
<1> DEFINE r == NewRequest(len)
           N == 1 .. MaxWrites
           new == calls + 1
<1>2. r \in Request /\ r.id = new /\ new \in N
  BY <1>0, WritableAssumption DEF NewRequest, Request
<1> HIDE DEF r
<1>3. Ids(<<r>>) = <<new>>
  BY <1>2 DEF Ids
<1>4. Sent \in Seq(N)
  BY SentType
<1>5. Sent' = Append(Sent, new)
  <2>1. CASE buffer' = Append(buffer, r) /\ handed' = handed
    <3>1. Append(buffer, r) = buffer \o <<r>> /\ <<r>> \in Seq(Request)
      BY <1>0, <1>2, AppendIsConcat
    <3>2. Ids(buffer') = Ids(buffer) \o <<new>>
      BY <1>0, <1>3, <2>1, <3>1, IdsConcat
    <3>3. Ids(buffer) \in Seq(N) /\ <<new>> \in Seq(N)
      BY <1>0, <1>2, IdsType
    <3> HIDE DEF N, new
    <3>4. handed \o (Ids(buffer) \o <<new>>) = (handed \o Ids(buffer)) \o <<new>>
      BY <1>0, <3>3, ConcatAssociative DEF N
    <3>5. Sent' = Sent \o <<new>>
      BY <2>1, <3>2, <3>4 DEF Sent
    <3> QED
      BY <1>2, <1>4, <3>5, AppendIsConcat
  <2>2. CASE buffer = <<>> /\ buffer' = <<>> /\ handed' = handed \o Ids(<<r>>)
    <3>1. Ids(<<>>) = <<>>
      BY DEF Ids
    <3>2. handed \o <<new>> \in Seq(N)
      BY <1>0, <1>2
    <3>3. Sent = handed /\ Sent' = handed \o <<new>>
      BY <1>0, <1>3, <2>2, <3>1, <3>2, ConcatEmptySeq DEF Sent
    <3> HIDE DEF N, new
    <3> QED
      BY <1>2, <1>4, <3>3, AppendIsConcat
  <2> QED
    BY <2>1, <2>2 DEF r
<1> QED
  BY <1>5 DEF new

\* A flush moves requests from the buffer to the sink.
LEMMA SentSends ==
    ASSUME IInv, Sends
    PROVE  Sent' = Sent
<1>0. /\ buffer \in Seq(Request) /\ handed \in Seq(1 .. MaxWrites)
  BY DEF IInv, TypeOK
<1>1. PICK n \in 1 .. Len(buffer) :
        /\ handed' = handed \o Ids(SubSeq(buffer, 1, n))
        /\ buffer' = SubSeq(buffer, n + 1, Len(buffer))
  BY DEF Sends
<1>2. Len(buffer) \in Nat
  BY <1>0, LenProperties
<1> DEFINE u == SubSeq(buffer, 1, n)
           v == SubSeq(buffer, n + 1, Len(buffer))
           N == 1 .. MaxWrites
<1>3. u \in Seq(Request) /\ v \in Seq(Request)
  <2>1. 1 \in 1 .. Len(buffer) + 1 /\ n \in 0 .. Len(buffer)
        /\ n + 1 \in 1 .. Len(buffer) + 1 /\ Len(buffer) \in 0 .. Len(buffer)
    BY <1>2
  <2> QED
    BY <1>0, <2>1, IdsSub
<1>4. u \o v = buffer
  BY <1>0, SplitSeq
<1>5. handed' = handed \o Ids(u) /\ buffer' = v
  BY <1>1
<1> HIDE DEF u, v
<1>6. Ids(buffer) = Ids(u) \o Ids(v)
  BY <1>3, <1>4, IdsConcat
<1>7. Ids(u) \in Seq(N) /\ Ids(v) \in Seq(N)
  BY <1>3, IdsType
<1>8. (handed \o Ids(u)) \o Ids(v) = handed \o (Ids(u) \o Ids(v))
  BY <1>0, <1>7, ConcatAssociative
<1>9. Sent' = Sent
  BY <1>5, <1>6, <1>8 DEF Sent
<1> QED
  BY <1>9

LEMMA OrderedStep ==
    ASSUME IInv, IInv', Ordered, QueueStep
    PROVE  Ordered'
<1>0. /\ calls \in Nat /\ buffer \in Seq(Request) /\ handed \in Seq(1 .. MaxWrites)
      /\ calls' \in Nat
  BY DEF IInv, TypeOK
<1>1. CASE Puts
  <2>1. PICK len \in ChunkLengths :
          /\ calls < MaxWrites /\ calls' = calls + 1
          /\ \/ /\ buffer' = Append(buffer, NewRequest(len)) /\ handed' = handed
             \/ /\ buffer = <<>> /\ buffer' = <<>>
                /\ handed' = handed \o Ids(<<NewRequest(len)>>)
    BY <1>1 DEF Puts
  <2> DEFINE new == calls + 1
             N == 1 .. MaxWrites
  <2>2. new \in N
    BY <1>0, <2>1, WritableAssumption
  <2>4. Sent \in Seq(N)
    BY SentType
  <2>5. Sent' = Append(Sent, new)
    BY <2>1, SentPuts
  <2> DEFINE s == Sent
             t == Append(s, new)
  <2>6. /\ t \in Seq(N) /\ Len(t) = Len(s) + 1 /\ Len(s) \in Nat
        /\ \A i \in 1 .. Len(s) : t[i] = s[i]
        /\ t[Len(s) + 1] = new
    BY <2>2, <2>4, AppendProperties, LenProperties
  <2>7. DOMAIN s = 1 .. Len(s) /\ DOMAIN t = 1 .. Len(s) + 1
    BY <2>4, <2>6, LenProperties
  <2>8. \A i \in 1 .. Len(s) : s[i] <= calls /\ s[i] \in Nat
    <3>1. \A i \in 1 .. Len(s) : s[i] \in N
      BY <2>4, ElementOfSeq
    <3> QED
      BY <2>7, <3>1 DEF Ordered
  <2>9. \A i, j \in 1 .. Len(s) : i < j => s[i] < s[j]
    BY <2>7 DEF Ordered
  <2>10. Sent' = t
    BY <2>5
  <2> HIDE DEF s, t
  <2>11. ASSUME NEW i \in 1 .. Len(s) + 1, NEW j \in 1 .. Len(s) + 1, i < j
         PROVE  t[i] < t[j]
    <3>1. i \in 1 .. Len(s)
      BY <2>6, <2>11
    <3>2. CASE j = Len(s) + 1
      <4>1. t[j] = calls + 1 /\ t[i] = s[i] /\ s[i] <= calls /\ s[i] \in Nat
        BY <2>6, <2>8, <3>1, <3>2
      <4> QED
        BY <1>0, <4>1
    <3>3. CASE j # Len(s) + 1
      <4>1. j \in 1 .. Len(s)
        BY <2>6, <3>3
      <4> QED
        BY <2>6, <2>9, <2>11, <3>1, <4>1
    <3> QED
      BY <3>2, <3>3
  <2>12. ASSUME NEW i \in 1 .. Len(s) + 1 PROVE t[i] <= calls + 1
    <3>1. CASE i = Len(s) + 1
      BY <1>0, <2>6, <3>1
    <3>2. CASE i # Len(s) + 1
      <4>1. i \in 1 .. Len(s)
        BY <2>6, <3>2
      <4>2. t[i] = s[i] /\ s[i] <= calls /\ s[i] \in Nat
        BY <2>6, <2>8, <4>1
      <4> QED
        BY <1>0, <4>2
    <3> QED
      BY <3>1, <3>2
  <2> QED
    BY <2>1, <2>7, <2>10, <2>11, <2>12 DEF Ordered
<1>2. CASE Sends
  BY <1>2, SentSends DEF Sends, Ordered
<1>3. CASE Acknowledges \/ Closes \/ Finishes \/ Skips
  <2>1. Stays
    BY <1>3 DEF Acknowledges, Closes, Finishes, Skips
  <2>2. Sent' = Sent /\ calls' >= calls
    BY <2>1 DEF Stays, Sent
  <2>3. \A i \in DOMAIN Sent : Sent[i] \in Nat
    <3>1. Sent \in Seq(1 .. MaxWrites) /\ DOMAIN Sent = 1 .. Len(Sent)
      BY SentType
    <3> DEFINE s == Sent
    <3>2. \A i \in 1 .. Len(s) : s[i] \in 1 .. MaxWrites
      BY <3>1, ElementOfSeq
    <3> QED
      BY <3>1, <3>2
  <2>4. \A i \in DOMAIN Sent : Sent[i] <= calls'
    BY <1>0, <2>2, <2>3 DEF Ordered
  <2> QED
    BY <2>2, <2>4 DEF Ordered
<1> QED
  BY <1>1, <1>2, <1>3 DEF QueueStep

LEMMA OrderAlways ==
    ASSUME ~WritesInFinish, SinkAnswers \subseteq {"later", "now"}
    PROVE  Spec => [](IInv /\ Finishing /\ Flushing /\ Ordered)
<1>1. IInv /\ Finishing /\ Flushing /\ Ordered /\ [Next]_vars
        => (IInv /\ Finishing /\ Flushing /\ Ordered)'
  <2> SUFFICES ASSUME IInv, Finishing, Flushing, Ordered, [Next]_vars
               PROVE  (IInv /\ Finishing /\ Flushing /\ Ordered)'
    OBVIOUS
  <2>1. IInv' /\ Finishing' /\ Flushing'
    BY FinishingStep, FlushingStep, StreamStepKeeps, OtherStepKeeps DEF Next
  <2>2. QueueStep
    BY StepQueues
  <2> QED
    BY <2>1, <2>2, OrderedStep
<1>2. Init => IInv /\ Finishing /\ Flushing /\ Ordered
  <2> SUFFICES ASSUME Init PROVE IInv /\ Finishing /\ Flushing /\ Ordered
    OBVIOUS
  <2>1. IInv
    BY InitIInv
  <2>2. Finishing
    BY DEF Init, Finishing, Checked, NoCheck
  <2>3. Flushing
    BY DEF Init, Flushing, Inside, Running
  <2>4. Ordered
    <3>1. handed = <<>> /\ buffer = <<>>
      BY DEF Init
    <3>2. Len(Sent) = Len(<<>>) + Len(<<>>) /\ DOMAIN Sent = 1 .. Len(Sent)
      BY <2>1, <3>1, SentType
    <3> QED
      BY <3>2 DEF Ordered
  <2> QED
    BY <2>1, <2>2, <2>3, <2>4
<1> QED
  BY <1>1, <1>2, PTL DEF Spec

\* InOrder: with a sink that does not fail, chunks reach it in the order in which
\* write() accepted them, whatever is corked, batched or deferred meanwhile.
THEOREM ChunksInOrder ==
    ASSUME ~WritesInFinish, SinkAnswers \subseteq {"later", "now"}
    PROVE  Spec => []InOrder
<1>1. IInv /\ Ordered => InOrder
  <2> SUFFICES ASSUME IInv, Ordered, NEW i \in DOMAIN handed, NEW j \in DOMAIN handed, i < j
               PROVE  handed[i] < handed[j]
    BY DEF InOrder
  <2>1. /\ Len(Sent) = Len(handed) + Len(buffer) /\ Len(buffer) \in Nat
        /\ Len(handed) \in Nat /\ DOMAIN Sent = 1 .. Len(Sent)
        /\ \A k \in 1 .. Len(handed) : Sent[k] = handed[k]
    BY SentType
  <2>2. DOMAIN handed = 1 .. Len(handed)
    BY LenProperties DEF IInv, TypeOK
  <2>3. i \in DOMAIN Sent /\ j \in DOMAIN Sent
    BY <2>1, <2>2
  <2>4. Sent[i] < Sent[j]
    BY <2>3 DEF Ordered
  <2> QED
    BY <2>1, <2>2, <2>4
<1>2. Spec => [](IInv /\ Finishing /\ Flushing /\ Ordered)
  BY OrderAlways
<1> QED
  BY <1>1, <1>2, PTL

\* ImplementsQueue: corks, batches, deferral and listeners that call back into the
\* stream stay invisible. Every step is one of the queue's, or leaves it as it is.
THEOREM StreamIsAQueue ==
    ASSUME ~WritesInFinish, SinkAnswers \subseteq {"later", "now"}
    PROVE  Spec => ImplementsQueue
<1> DEFINE queue == [i \in DOMAIN buffer |-> buffer[i].id]
<1>1. ASSUME IInv
      PROVE  /\ queue = Ids(buffer) /\ buffer \in Seq(Request) /\ Len(buffer) \in Nat
             /\ DOMAIN buffer = 1 .. Len(buffer)
  <2>1. buffer \in Seq(Request)
    BY <1>1 DEF IInv, TypeOK
  <2>2. DOMAIN buffer = 1 .. Len(buffer) /\ Len(buffer) \in Nat
    BY <2>1, LenProperties
  <2> QED
    BY <2>1, <2>2 DEF Ids
<1>2. ASSUME IInv, IInv', Ordered, Puts PROVE Queue!Put \/ Queue!PutAndSend
  <2>1. PICK len \in ChunkLengths :
          /\ calls < MaxWrites /\ calls' = calls + 1
          /\ ~ending /\ ending' = ending /\ writableFinished' = writableFinished
          /\ \/ /\ buffer' = Append(buffer, NewRequest(len))
                /\ handed' = handed /\ writing' = writing
             \/ /\ buffer = <<>> /\ buffer' = <<>> /\ ~writing
                /\ handed' = handed \o Ids(<<NewRequest(len)>>) /\ writing' = TRUE
    BY <1>2 DEF Puts
  <2> DEFINE r == NewRequest(len)
             new == calls + 1
  <2>2. r \in Request /\ r.id = new /\ new \in 1 .. MaxWrites /\ calls \in Nat
    <3>1. calls \in Nat
      BY <1>2 DEF IInv, TypeOK
    <3> QED
      BY <2>1, <3>1, WritableAssumption DEF NewRequest, Request
  <2>3. new \notin Queue!Accepted
    <3>1. /\ Len(Sent) = Len(handed) + Len(buffer)
          /\ Len(handed) \in Nat /\ Len(buffer) \in Nat /\ DOMAIN Sent = 1 .. Len(Sent)
          /\ \A i \in 1 .. Len(handed) : Sent[i] = handed[i]
          /\ \A i \in 1 .. Len(buffer) : Sent[Len(handed) + i] = buffer[i].id
      BY <1>2, SentType
    <3>2. \A i \in 1 .. Len(handed) : handed[i] <= calls
      BY <1>2, <3>1 DEF Ordered
    <3>3. \A i \in 1 .. Len(buffer) : buffer[i].id <= calls
      <4> SUFFICES ASSUME NEW i \in 1 .. Len(buffer) PROVE buffer[i].id <= calls
        OBVIOUS
      <4>1. Len(handed) + i \in DOMAIN Sent
        BY <3>1
      <4> QED
        BY <1>2, <3>1, <4>1 DEF Ordered
    <3>4. DOMAIN handed = 1 .. Len(handed) /\ DOMAIN buffer = 1 .. Len(buffer)
      BY <1>2, LenProperties DEF IInv, TypeOK
    <3>5. \A i \in DOMAIN handed : handed[i] # new
      BY <2>2, <3>2, <3>4
    <3>6. \A i \in DOMAIN buffer : buffer[i].id # new
      BY <2>2, <3>3, <3>4
    <3> QED
      BY <3>5, <3>6 DEF Queue!Accepted
  <2> HIDE DEF new
  <2>4. CASE buffer' = Append(buffer, r) /\ handed' = handed /\ writing' = writing
    <3> HIDE DEF r
    <3>1. Append(buffer, r) = buffer \o <<r>> /\ <<r>> \in Seq(Request)
      BY <1>1, <1>2, <2>2, AppendIsConcat
    <3>2. Ids(<<r>>) = <<new>>
      BY <2>2 DEF Ids
    <3>3. Ids(buffer') = Ids(buffer) \o <<new>>
      BY <1>1, <1>2, <2>4, <3>1, <3>2, IdsConcat
    <3>4. Ids(buffer) \in Seq(1 .. MaxWrites)
      BY <1>1, <1>2, IdsType
    <3>5. Ids(buffer') = Append(Ids(buffer), new)
      BY <2>2, <3>3, <3>4, AppendIsConcat
    <3>6. queue' = Ids(buffer')
      <4>1. buffer' \in Seq(Request)
        BY <1>2 DEF IInv, TypeOK
      <4>2. DOMAIN buffer' = 1 .. Len(buffer')
        BY <4>1, LenProperties
      <4> QED
        BY <4>2 DEF Ids
    <3>7. queue' = Append(queue, new)
      BY <1>1, <1>2, <3>5, <3>6
    <3> QED
      BY <2>1, <2>2, <2>3, <2>4, <3>7 DEF Queue!Put
  <2>5. CASE /\ buffer = <<>> /\ buffer' = <<>> /\ ~writing
             /\ handed' = handed \o Ids(<<r>>) /\ writing' = TRUE
    <3> HIDE DEF r
    <3>1. Ids(<<r>>) = <<new>> /\ handed \in Seq(1 .. MaxWrites)
      <4>1. Len(<<r>>) = 1 /\ <<r>>[1].id = new
        BY <2>2
      <4>2. Ids(<<r>>) = [k \in 1 .. 1 |-> <<r>>[k].id]
        BY <4>1 DEF Ids
      <4>3. [k \in 1 .. 1 |-> <<r>>[k].id] = <<new>>
        BY <4>1
      <4> QED
        BY <1>2, <4>2, <4>3 DEF IInv, TypeOK
    <3>2. handed' = Append(handed, new)
      BY <2>2, <2>5, <3>1, AppendIsConcat
    <3>3. queue = <<>> /\ queue' = queue
      BY <2>5
    <3> QED
      BY <2>1, <2>2, <2>3, <2>5, <3>2, <3>3 DEF Queue!PutAndSend
  <2> QED
    BY <2>1, <2>4, <2>5
<1>3. ASSUME IInv, IInv', Sends PROVE Queue!Send
  <2>1. PICK n \in 1 .. Len(buffer) :
          /\ handed' = handed \o Ids(SubSeq(buffer, 1, n))
          /\ buffer' = SubSeq(buffer, n + 1, Len(buffer))
    BY <1>3 DEF Sends
  <2>2. queue = Ids(buffer) /\ buffer \in Seq(Request) /\ Len(buffer) \in Nat
    BY <1>1, <1>3
  <2>3. Len(queue) = Len(buffer)
    BY <2>2, IdsType
  <2>4. /\ Ids(SubSeq(buffer, 1, n)) = SubSeq(Ids(buffer), 1, n)
        /\ Ids(SubSeq(buffer, n + 1, Len(buffer))) = SubSeq(Ids(buffer), n + 1, Len(buffer))
    <3>1. 1 \in 1 .. Len(buffer) + 1 /\ n \in 0 .. Len(buffer)
          /\ n + 1 \in 1 .. Len(buffer) + 1 /\ Len(buffer) \in 0 .. Len(buffer)
      BY <2>2
    <3> QED
      BY <2>2, <3>1, IdsSub
  <2>5. queue' = Ids(buffer')
    <3>1. buffer' \in Seq(Request)
      BY <1>3 DEF IInv, TypeOK
    <3>2. DOMAIN buffer' = 1 .. Len(buffer')
      BY <3>1, LenProperties
    <3> QED
      BY <3>2 DEF Ids
  <2>6. /\ handed' = handed \o SubSeq(queue, 1, n)
        /\ queue' = SubSeq(queue, n + 1, Len(queue))
    BY <2>1, <2>2, <2>3, <2>4, <2>5
  <2>7. n \in 1 .. Len(queue)
    BY <2>3
  <2> HIDE DEF queue
  <2> QED
    BY <1>3, <2>6, <2>7 DEF Sends, Queue!Send, queue
<1>4. ASSUME Stays PROVE handed' = handed /\ queue' = queue
  BY <1>4 DEF Stays
<1>5. ASSUME Acknowledges PROVE Queue!Answered
  BY <1>4, <1>5 DEF Acknowledges, Queue!Answered
<1>6. ASSUME Closes PROVE Queue!End
  BY <1>4, <1>6 DEF Closes, Queue!End
<1>7. ASSUME Finishes PROVE Queue!FinishQueue
  <2>1. queue = <<>>
    BY <1>7 DEF Finishes, Idle
  <2> QED
    BY <1>4, <1>7, <2>1 DEF Finishes, Idle, Queue!FinishQueue
<1>8. ASSUME Skips PROVE UNCHANGED Queue!queueSpecVars
  BY <1>4, <1>8 DEF Skips, Queue!queueSpecVars
<1>9. IInv /\ IInv' /\ Ordered /\ QueueStep => [Queue!QueueNext]_(Queue!queueSpecVars)
  BY <1>2, <1>3, <1>5, <1>6, <1>7, <1>8 DEF QueueStep, Queue!QueueNext
<1>10. IInv /\ Finishing /\ Flushing /\ [Next]_vars => IInv' /\ QueueStep
  BY StepQueues, StreamStepKeeps, OtherStepKeeps DEF Next
<1>11. Init => Queue!QueueInit
  BY DEF Init, Queue!QueueInit
<1>12. Spec => [](IInv /\ Finishing /\ Flushing /\ Ordered)
  BY OrderAlways
<1>13. IInv /\ Finishing /\ Flushing /\ Ordered /\ [Next]_vars
         => [Queue!QueueNext]_(Queue!queueSpecVars)
  BY <1>9, <1>10
<1> QED
  BY <1>11, <1>12, <1>13, PTL DEF Spec, ImplementsQueue, Queue!QueueSpec

-----------------------------------------------------------------------------
(* What happens between two calls of a user: the stream's own steps, the   *)
(* sink's answers and the check phase take nothing back and add nothing.   *)

OwnStep == StreamStep \/ SinkCompletes \/ RunImmediate

LEMMA OwnStepCalls ==
    ASSUME OwnStep \/ Finish
    PROVE  calls' = calls
BY DEF OwnStep, StreamStep, SyncOff, OnWriteCompleted, Defer, Failed, EmitError,
   OnWriteCompletedNextTick, Answer, FlushBuffer, FlushLoop, FlushEnd, MaybeFinish,
   FinishCheck, EndWritable, Ended, RejectLater, Return, SinkCompletes, RunImmediate,
   Finish, logVars

\* The length of the write in progress is one that was written.
LEMMA LengthsCount ==
    ASSUME ~HasWritev, IInv, writableLength >= 0, [Next]_vars
    PROVE  writableLength' >= 0
<1> USE DEF flagVars, writeVars, queueVars, logVars
<1>0. writableLength \in Int /\ buffer \in Seq(Request)
  BY DEF IInv, TypeOK
<1>1. CASE UserCall
  <2>1. CASE \E len \in ChunkLengths : Write(len)
    <3>1. PICK len \in ChunkLengths : Write(len)
      BY <2>1
    <3>2. writableLength' = writableLength \/ writableLength' = len
      BY <3>1 DEF Write, OnWrite
    <3>3. len \in Nat
      BY WritableAssumption
    <3> QED
      BY <1>0, <3>2, <3>3
  <2>2. CASE Cork \/ Uncork \/ Finish \/ \E len \in ChunkLengths : WriteRejected(len)
    BY <2>2 DEF Cork, Uncork, Finish, WriteRejected
  <2> QED
    BY <1>1, <2>1, <2>2 DEF UserCall
<1>2. CASE FlushLoop
  <2>1. CASE UNCHANGED writeVars
    BY <1>0, <2>1
  <2>2. CASE /\ Head(stack).left > 0 /\ ~writing /\ buffer' = Tail(buffer)
             /\ writableLength' = Head(buffer).len
    <3>1. Head(stack).left <= Len(buffer) /\ Head(stack).left \in Nat
      BY <1>2, RestGood DEF FlushLoop, FrameOK, Frame
    <3>2. buffer # <<>>
      BY <1>0, <2>2, <3>1, LenProperties, EmptySeq
    <3>3. Head(buffer) \in Request
      BY <1>0, <3>2, HeadTailProperties
    <3>4. Head(buffer).len \in Nat
      BY <3>3, WritableAssumption DEF Request
    <3> QED
      BY <2>2, <3>4
  <2> QED
    BY <1>2, <2>1, <2>2 DEF FlushLoop, OnWrite
<1>3. CASE OnWriteCompleted
  BY <1>3 DEF OnWriteCompleted
<1>6. CASE SyncOff \/ Defer \/ Failed \/ EmitError \/ OnWriteCompletedNextTick \/ Answer
  <2>1. UNCHANGED writableLength
    BY <1>6 DEF SyncOff, Defer, Failed, EmitError, OnWriteCompletedNextTick, Answer
  <2> QED
    BY <2>1
<1>4. CASE FlushBuffer \/ FlushEnd \/ MaybeFinish \/ FinishCheck \/ EndWritable \/ Ended
           \/ RejectLater \/ Return
  BY <1>4 DEF FlushBuffer, FlushEnd, MaybeFinish, FinishCheck, EndWritable, Ended,
     RejectLater, Return
<1>5. CASE SinkCompletes \/ RunImmediate \/ UNCHANGED vars
  BY <1>5 DEF SinkCompletes, RunImmediate, vars
<1> QED
  BY <1>1, <1>2, <1>3, <1>4, <1>5, <1>6 DEF Next, StreamStep

\* What is buffered or being written grows only by a write.
LEMMA LengthFalls ==
    ASSUME IInv, writableLength >= 0, OwnStep \/ Finish
    PROVE  length' <= length
<1> USE DEF flagVars, writeVars, queueVars, logVars
<1>0. writableLength \in Int /\ length \in Int
  BY DEF IInv, TypeOK
<1>1. CASE OnWriteCompleted
  BY <1>0, <1>1 DEF OnWriteCompleted
<1>2. CASE ~OnWriteCompleted
  <2>1. length' = length
    BY <1>2 DEF OwnStep, StreamStep, SyncOff, Defer, Failed, EmitError,
       OnWriteCompletedNextTick, Answer, FlushBuffer, FlushLoop, FlushEnd, MaybeFinish,
       FinishCheck, EndWritable, Ended, RejectLater, Return, SinkCompletes, RunImmediate,
       Finish
  <2> QED
    BY <1>0, <2>1
<1> QED
  BY <1>1, <1>2

\* 'drain' says that nothing is left.
LEMMA DrainsEmpty ==
    ASSUME OwnStep, needDrain, ~needDrain'
    PROVE  length' = 0
<1> USE DEF flagVars, writeVars, queueVars, logVars
<1>1. OnWriteCompletedNextTick
  BY DEF OwnStep, StreamStep, SyncOff, OnWriteCompleted, Defer, Failed, EmitError, Answer,
     FlushBuffer, FlushLoop, FlushEnd, MaybeFinish, FinishCheck, EndWritable, Ended,
     RejectLater, Return, SinkCompletes, RunImmediate
<1> QED
  BY <1>1 DEF OnWriteCompletedNextTick, DrainDue

\* A stream that was not asked to finish has no code to run that ends it.
Unended == {f \in Frame : f.op # "endWritable"}
NotEnded == ~ending /\ stack \in Seq(Unended)

LEMMA UnendedPush ==
    ASSUME NEW s \in Seq(Unended), NEW f \in Frame, f.op # "endWritable"
    PROVE  Push(f, s) \in Seq(Unended)
BY ConcatProperties DEF Push, Unended

LEMMA UnendedFrames ==
    /\ UserFrame \in Unended
    /\ \A op \in FrameOps \ {"endWritable"} : FrameOf(op) \in Unended
    /\ \A op \in FrameOps \ {"endWritable"}, b \in Batch, x \in BOOLEAN :
          FrameFor(op, b, x) \in Unended
    /\ \A n \in Nat : LoopFrame(n) \in Unended
<1>1. UserFrame \in Unended
  BY UserFrameType DEF Unended
<1>2. ASSUME NEW op \in FrameOps \ {"endWritable"} PROVE FrameOf(op) \in Unended
  BY FrameOfType DEF Unended
<1>3. ASSUME NEW op \in FrameOps \ {"endWritable"}, NEW b \in Batch, NEW x \in BOOLEAN
      PROVE  FrameFor(op, b, x) \in Unended
  BY FrameForType DEF Unended
<1>4. ASSUME NEW n \in Nat PROVE LoopFrame(n) \in Unended
  BY LoopFrameType DEF Unended
<1> QED
  BY <1>1, <1>2, <1>3, <1>4

LEMMA UnendedOnWrite ==
    ASSUME NEW rest \in Seq(Unended), NEW batch, NEW len, OnWrite(batch, len, rest)
    PROVE  stack' \in Seq(Unended)
<1>1. ASSUME NEW a \in SinkAnswers \cap {"now", "failNow"},
             stack' = Push(FrameFor("completed", NoBatch, a = "now"),
                           Push(FrameOf("syncOff"), rest))
      PROVE  stack' \in Seq(Unended)
  <2>1. /\ {"completed", "syncOff"} \subseteq FrameOps \ {"endWritable"}
        /\ (a = "now") \in BOOLEAN /\ NoBatch \in Batch
    BY NoBatchType DEF FrameOps
  <2>2. FrameFor("completed", NoBatch, a = "now") \in Unended /\ FrameOf("syncOff") \in Unended
    BY <2>1, UnendedFrames
  <2> QED
    BY <1>1, <2>2, UnendedPush DEF Unended
<1> QED
  BY <1>1 DEF OnWrite

LEMMA NotEndedStep ==
    ASSUME IInv, NotEnded, OwnStep
    PROVE  NotEnded'
<1> USE DEF flagVars, writeVars, queueVars, logVars
<1>0. /\ stack \in Seq(Unended) /\ ~ending /\ stack \in Seq(Frame)
      /\ buffer \in Seq(Request) /\ writeCallback \in Batch /\ immediates \in Seq(Frame)
      /\ sync \in BOOLEAN /\ writableFinished \in BOOLEAN
  BY DEF NotEnded, IInv, TypeOK
<1>1. /\ stack # <<>> => /\ Rest \in Seq(Unended) /\ Head(stack) \in Unended
                         /\ Head(stack).batch \in Batch /\ Head(stack).left \in Nat
                         /\ Head(stack) \in Frame
      /\ <<>> \in Seq(Unended)
  <2>1. stack # <<>> => Rest \in Seq(Unended) /\ Head(stack) \in Unended
    BY <1>0, HeadTailProperties DEF Rest
  <2> QED
    BY <2>1, EmptySeq DEF Unended, Frame
<1>2. \A f \in Unended, s \in Seq(Unended) : Push(f, s) \in Seq(Unended)
  BY UnendedPush DEF Unended
<1>3. /\ UserFrame \in Unended
      /\ \A op \in FrameOps \ {"endWritable"} : FrameOf(op) \in Unended
      /\ \A op \in FrameOps \ {"endWritable"}, b \in Batch, x \in BOOLEAN :
            FrameFor(op, b, x) \in Unended
      /\ \A n \in Nat : LoopFrame(n) \in Unended
  BY UnendedFrames
<1>4. {"completed", "defer", "nextTick", "failed", "answer", "emitError", "flush", "flushEnd",
       "maybeFinish", "finishCheck", "ended"} \subseteq FrameOps \ {"endWritable"}
  BY DEF FrameOps
<1>5. CASE SyncOff \/ Defer \/ FlushEnd \/ RejectLater \/ Return
  BY <1>0, <1>1, <1>5 DEF SyncOff, Defer, FlushEnd, RejectLater, Return, Running, NotEnded
<1>6. CASE OnWriteCompleted
  <2>1. stack # <<>> /\ Rest \in Seq(Unended)
    BY <1>1, <1>6 DEF OnWriteCompleted, Running
  <2>3. \A x \in BOOLEAN : AfterSuccess(writeCallback, x) \in Seq(Unended)
    <3>1. ASSUME NEW x \in BOOLEAN PROVE AfterSuccess(writeCallback, x) \in Seq(Unended)
      <4>1. PICK op \in {"defer", "nextTick"} : op = IF sync THEN "defer" ELSE "nextTick"
        OBVIOUS
      <4>2. FrameFor(op, writeCallback, x) \in Unended /\ FrameOf("flush") \in Unended
        BY <1>0, <1>3, <1>4, <4>1
      <4>3. Push(FrameFor(op, writeCallback, x), Rest) \in Seq(Unended)
        BY <1>2, <2>1, <4>2
      <4> QED
        BY <1>2, <4>1, <4>2, <4>3 DEF AfterSuccess, PushIf
    <3> QED
      BY <3>1
  <2>4. AfterFailure(writeCallback) \in Seq(Unended)
    <3>1. FrameFor("failed", writeCallback, FALSE) \in Unended /\ FrameOf("emitError") \in Unended
      BY <1>0, <1>3, <1>4
    <3> QED
      BY <1>2, <2>1, <3>1 DEF AfterFailure, PushIf
  <2>5. NeedFinish(length - writableLength, FALSE) \in BOOLEAN
    BY Zenon DEF NeedFinish
  <2>6. stack' \in {AfterSuccess(writeCallback, NeedFinish(length - writableLength, FALSE)),
                    AfterFailure(writeCallback)}
    BY <1>6 DEF OnWriteCompleted
  <2>7. stack' \in Seq(Unended)
    BY <2>3, <2>4, <2>5, <2>6
  <2>8. ~ending'
    BY <1>0, <1>6 DEF OnWriteCompleted
  <2> QED
    BY <2>7, <2>8 DEF NotEnded
<1>7. CASE Failed \/ EmitError \/ MaybeFinish \/ FinishCheck \/ Ended
  <2>1. stack # <<>>
    BY <1>7 DEF Failed, EmitError, MaybeFinish, FinishCheck, Ended, Running
  <2>2. Rest \in Seq(Unended) /\ Head(stack).batch \in Batch
    BY <1>1, <2>1
  <2>3. /\ Push(FrameFor("answer", Head(stack).batch, FALSE), Rest) \in Seq(Unended)
        /\ Push(UserFrame, Rest) \in Seq(Unended)
        /\ Push(FrameOf("finishCheck"), Rest) \in Seq(Unended)
        /\ Push(UserFrame, Push(FrameOf("finishCheck"), Rest)) \in Seq(Unended)
    BY <1>2, <1>3, <1>4, <2>2
  <2>4. CASE Failed
    BY <1>0, <2>2, <2>3, <2>4 DEF Failed, NotEnded
  <2>7. CASE EmitError \/ Ended
    BY <1>0, <2>2, <2>3, <2>7 DEF EmitError, Ended, NotEnded
  <2>5. CASE MaybeFinish
    BY <1>0, <2>2, <2>3, <2>5 DEF MaybeFinish, NotEnded, PushIf
  <2>6. CASE FinishCheck
    BY <1>0, <2>2, <2>3, <2>6 DEF FinishCheck, NotEnded
  <2> QED
    BY <1>7, <2>4, <2>5, <2>6, <2>7
<1>8. CASE OnWriteCompletedNextTick
  <2>1. stack # <<>>
    BY <1>8 DEF OnWriteCompletedNextTick, Running
  <2>2. Rest \in Seq(Unended) /\ Head(stack).batch \in Batch
    BY <1>1, <2>1
  <2>3. AfterDrain(Head(stack).batch) \in Seq(Unended)
    BY <1>2, <1>3, <1>4, <2>2 DEF AfterDrain
  <2> QED
    BY <1>0, <1>2, <1>3, <1>8, <2>3 DEF OnWriteCompletedNextTick, NotEnded, PushIf
<1>9. CASE Answer
  <2>1. stack # <<>> /\ Running("answer")
    BY <1>9 DEF Answer, Running
  <2>2. Rest \in Seq(Unended) /\ Head(stack).batch \in Batch
    BY <1>1, <2>1
  <2>3. PICK b \in Batch : b = Head(stack).batch
    BY <2>2
  <2>4. b.reqs # <<>>
    BY <2>1, <2>3, RestGood DEF FrameOK
  <2>5. [b EXCEPT !.reqs = Tail(@)] \in Batch
    BY <2>3, <2>4, HeadTailProperties DEF Batch
  <2>6. FrameFor("answer", [b EXCEPT !.reqs = Tail(@)], FALSE) \in Unended
    BY <1>3, <1>4, <2>5
  <2>7. Push(FrameFor("answer", [b EXCEPT !.reqs = Tail(@)], FALSE), Rest) \in Seq(Unended)
    BY <1>2, <2>2, <2>6
  <2>8. /\ Push(UserFrame, Rest) \in Seq(Unended)
        /\ Push(UserFrame, Push(FrameFor("answer", [b EXCEPT !.reqs = Tail(@)], FALSE), Rest))
             \in Seq(Unended)
    BY <1>2, <1>3, <2>2, <2>7
  <2>9. stack' \in Seq(Unended)
    BY <1>9, <2>3, <2>8 DEF Answer, PushIf
  <2> QED
    BY <1>0, <1>9, <2>9 DEF Answer, NotEnded
<1>10. CASE FlushBuffer
  <2>1. stack # <<>>
    BY <1>10 DEF FlushBuffer, Running
  <2>2. Rest \in Seq(Unended) /\ Len(buffer) \in Nat
    BY <1>0, <1>1, <2>1, LenProperties
  <2>3. /\ Push(FrameOf("flushEnd"), Rest) \in Seq(Unended)
        /\ Push(LoopFrame(Len(buffer)), Push(FrameOf("flushEnd"), Rest)) \in Seq(Unended)
    BY <1>2, <1>3, <1>4, <2>2
  <2>4. stack' \in Seq(Unended)
    BY <1>10, <2>2, <2>3, UnendedOnWrite DEF FlushBuffer
  <2> QED
    BY <1>0, <1>10, <2>4 DEF FlushBuffer, NotEnded
<1>11. CASE FlushLoop
  <2>1. stack # <<>>
    BY <1>11 DEF FlushLoop, Running
  <2>2. Rest \in Seq(Unended) /\ Head(stack).left \in Nat
    BY <1>1, <2>1
  <2>3. Head(stack).left > 0 => Push(LoopFrame(Head(stack).left - 1), Rest) \in Seq(Unended)
    BY <1>2, <1>3, <2>2
  <2>4. stack' \in Seq(Unended)
    BY <1>11, <2>2, <2>3, UnendedOnWrite DEF FlushLoop
  <2> QED
    BY <1>0, <1>11, <2>4 DEF FlushLoop, NotEnded
<1>12. CASE EndWritable
  BY <1>1, <1>12 DEF EndWritable, Running, Unended
<1>13. CASE SinkCompletes
  <2>1. \A x \in BOOLEAN : Push(FrameFor("completed", NoBatch, x), stack) \in Seq(Unended)
    BY <1>0, <1>2, <1>3, <1>4, NoBatchType
  <2>2. stack' \in Seq(Unended)
    BY <1>13, <2>1 DEF SinkCompletes
  <2> QED
    BY <1>0, <1>13, <2>2 DEF SinkCompletes, NotEnded
<1>14. CASE RunImmediate
  <2>1. Head(immediates) = immediates[1] /\ 1 \in DOMAIN immediates /\ Head(immediates) \in Frame
    BY <1>0, <1>14, LenProperties, EmptySeq, HeadTailProperties DEF RunImmediate
  <2>2. Head(immediates) \in Unended
    BY <2>1 DEF IInv, Deferred, Unended
  <2>3. <<Head(immediates)>> \in Seq(Unended)
    BY <2>2
  <2> QED
    BY <1>0, <1>14, <2>3 DEF RunImmediate, NotEnded
<1> QED
  BY <1>5, <1>6, <1>7, <1>8, <1>9, <1>10, <1>11, <1>12, <1>13, <1>14 DEF OwnStep, StreamStep

(* No write was rejected: the ids accepted are all those that were given.  *)
Numbered == Sent = [i \in 1 .. calls |-> i]

LEMMA NumberedStep ==
    ASSUME IInv, IInv', Numbered, Puts \/ (QueueStep /\ calls' = calls)
    PROVE  Numbered'
<1>0. /\ calls \in Nat /\ buffer \in Seq(Request) /\ handed \in Seq(1 .. MaxWrites)
  BY DEF IInv, TypeOK
<1>1. CASE Puts
  <2>1. PICK len \in ChunkLengths :
          /\ calls < MaxWrites /\ calls' = calls + 1
          /\ \/ /\ buffer' = Append(buffer, NewRequest(len)) /\ handed' = handed
             \/ /\ buffer = <<>> /\ buffer' = <<>>
                /\ handed' = handed \o Ids(<<NewRequest(len)>>)
    BY <1>1 DEF Puts
  <2>2. Sent' = Append(Sent, calls + 1)
    BY <2>1, SentPuts
  <2>3. Append([i \in 1 .. calls |-> i], calls + 1) = [i \in 1 .. calls + 1 |-> i]
    <3> DEFINE s == [i \in 1 .. calls |-> i]
               t == [i \in 1 .. calls + 1 |-> i]
    <3>1. s \in Seq(Nat) /\ Len(s) = calls
      BY <1>0
    <3>2. t \in Seq(Nat) /\ Len(t) = calls + 1
      BY <1>0
    <3>3. \A i \in 1 .. calls : s[i] = i
      OBVIOUS
    <3>4. \A i \in 1 .. calls + 1 : t[i] = i
      OBVIOUS
    <3> HIDE DEF s, t
    <3>5. /\ Append(s, calls + 1) \in Seq(Nat) /\ Len(Append(s, calls + 1)) = calls + 1
          /\ \A i \in 1 .. calls : Append(s, calls + 1)[i] = i
          /\ Append(s, calls + 1)[calls + 1] = calls + 1
      BY <1>0, <3>1, <3>3, AppendProperties
    <3>6. \A i \in 1 .. calls + 1 : Append(s, calls + 1)[i] = t[i]
      BY <1>0, <3>4, <3>5
    <3>7. Append(s, calls + 1) = t
      BY <3>2, <3>5, <3>6, SeqEqual
    <3> QED
      BY <3>7 DEF s, t
  <2> QED
    BY <2>1, <2>2, <2>3 DEF Numbered
<1>2. CASE Sends
  BY <1>2, SentSends DEF Numbered, Sends
<1>3. CASE Acknowledges \/ Closes \/ Finishes \/ Skips
  <2>1. Stays
    BY <1>3 DEF Acknowledges, Closes, Finishes, Skips
  <2>2. CASE calls' = calls
    BY <2>1, <2>2 DEF Stays, Sent, Numbered
  <2> QED
    BY <1>1, <2>2
<1> QED
  BY <1>1, <1>2, <1>3 DEF QueueStep

\* All of it, for the users that pipe() is made of: they write, while the stream has not
\* been finished, and finish, and the sink takes one chunk at a time without failing.
Sound == IInv /\ Finishing /\ Flushing /\ Numbered /\ writableLength >= 0

SoundSink == ~WritesInFinish /\ ~HasWritev /\ SinkAnswers \subseteq {"later", "now"}

PipedStep == OwnStep \/ Finish \/ \E len \in ChunkLengths : Write(len)

LEMMA SoundInit == Init => Sound /\ NotEnded
<1> SUFFICES ASSUME Init PROVE Sound /\ NotEnded
  OBVIOUS
<1>1. IInv
  BY InitIInv
<1>2. Finishing
  BY DEF Init, Finishing, Checked, NoCheck
<1>3. Flushing
  BY DEF Init, Flushing, Inside, Running
<1>4. Numbered
  <2>1. Ids(buffer) = <<>> /\ handed = <<>> /\ calls = 0
    BY DEF Init, Ids
  <2>2. Sent = <<>>
    BY <2>1, ConcatEmptySeq, EmptySeq DEF Sent
  <2>3. [i \in 1 .. 0 |-> i] = <<>>
    OBVIOUS
  <2> QED
    BY <2>1, <2>2, <2>3 DEF Numbered
<1>5. writableLength >= 0 /\ NotEnded
  BY EmptySeq DEF Init, NotEnded
<1> QED
  BY <1>1, <1>2, <1>3, <1>4, <1>5 DEF Sound

LEMMA SoundStep ==
    ASSUME SoundSink, Sound, PipedStep
    PROVE  Sound' /\ Next
<1>1. Next
  BY DEF PipedStep, OwnStep, Next, UserCall
<1>2. IInv /\ Finishing /\ Flushing /\ Numbered /\ writableLength >= 0
  BY DEF Sound
<1>3. ~WritesInFinish /\ ~HasWritev /\ SinkAnswers \subseteq {"later", "now"}
  BY DEF SoundSink
<1>4. IInv'
  BY <1>1, <1>2, StreamStepKeeps, OtherStepKeeps DEF Next
<1>5. Finishing' /\ Flushing'
  BY <1>1, <1>2, <1>3, FinishingStep, FlushingStep
<1>6. writableLength' >= 0
  BY <1>1, <1>2, <1>3, LengthsCount
<1>7. Numbered'
  <2>1. CASE OwnStep \/ Finish
    <3>1. calls' = calls
      BY <2>1, OwnStepCalls
    <3>2. QueueStep
      BY <1>1, <1>2, <1>3, StepQueues
    <3> QED
      BY <1>2, <1>4, <3>1, <3>2, NumberedStep
  <2>2. CASE \E len \in ChunkLengths : Write(len)
    <3>1. Puts
      BY <1>2, <1>3, <2>2, WriteQueues
    <3> QED
      BY <1>2, <1>4, <3>1, NumberedStep
  <2> QED
    BY <2>1, <2>2 DEF PipedStep
<1> QED
  BY <1>1, <1>4, <1>5, <1>6, <1>7 DEF Sound

LEMMA SoundStays ==
    ASSUME Sound, UNCHANGED vars
    PROVE  Sound'
BY DEF Sound, IInv, TypeOK, Finishing, Idle, Flushing, Numbered, Sent, Running, vars, flagVars,
   writeVars, queueVars, logVars

\* What its users see of it: the chunks went to the sink in the order of the calls, and
\* all of them when it has finished, once.
LEMMA SoundGives ==
    ASSUME Sound
    PROVE  /\ TypeOK
           /\ \A i \in DOMAIN handed : handed[i] = i
           /\ writableFinished <=> finishes > 0
           /\ finishes \in {0, 1}
           /\ finishes > 0 => ending /\ length = 0 /\ Len(handed) = calls
<1>1. IInv /\ Finishing /\ Numbered
  BY DEF Sound
<1>2. /\ Len(Sent) = Len(handed) + Len(buffer) /\ Len(handed) \in Nat /\ Len(buffer) \in Nat
      /\ \A i \in 1 .. Len(handed) : Sent[i] = handed[i]
  BY <1>1, SentType
<1>3. handed \in Seq(1 .. MaxWrites) /\ calls \in Nat /\ writableFinished \in BOOLEAN
  BY <1>1 DEF IInv, TypeOK
<1>4. Len([i \in 1 .. calls |-> i]) = calls
  BY <1>3
<1>5. Len(handed) + Len(buffer) = calls
  BY <1>1, <1>2, <1>4 DEF Numbered
<1>6. DOMAIN handed = 1 .. Len(handed)
  BY <1>3, LenProperties
<1>7. \A i \in DOMAIN handed : handed[i] = i
  <2> SUFFICES ASSUME NEW i \in DOMAIN handed PROVE handed[i] = i
    OBVIOUS
  <2>1. i \in 1 .. calls
    BY <1>2, <1>3, <1>5, <1>6
  <2>2. Sent[i] = i
    BY <1>1, <2>1 DEF Numbered
  <2> QED
    BY <1>2, <1>6, <2>2
<1>8. /\ writableFinished <=> finishes > 0
      /\ finishes \in {0, 1}
      /\ finishes > 0 => ending /\ length = 0 /\ buffer = <<>>
  BY <1>1, <1>3 DEF Finishing, Idle
<1>9. buffer = <<>> => Len(handed) = calls
  BY <1>2, <1>5
<1>10. TypeOK
  BY <1>1 DEF IInv
<1> QED
  BY <1>7, <1>8, <1>9, <1>10

\* A write does not end the stream, and no step takes a 'finish' back.
LEMMA NotEndedWrite ==
    ASSUME NotEnded, NEW len, Write(len)
    PROVE  NotEnded'
<1>1. ~ending /\ stack \in Seq(Unended)
  BY DEF NotEnded
<1>2. ~ending'
  BY <1>1 DEF Write, flagVars
<1>3. CASE MustBuffer
  BY <1>1, <1>2, <1>3 DEF Write, NotEnded
<1>4. CASE ~MustBuffer
  <2>1. OnWrite(One(NewRequest(len)), len, stack)
    BY <1>4 DEF Write
  <2>2. stack' \in Seq(Unended)
    BY <1>1, <2>1, UnendedOnWrite
  <2> QED
    BY <1>2, <2>2 DEF NotEnded
<1> QED
  BY <1>3, <1>4

LEMMA FinishesRise ==
    ASSUME PipedStep
    PROVE  finishes' \in {finishes, finishes + 1}
<1> USE DEF logVars
<1>1. CASE FinishCheck
  BY <1>1 DEF FinishCheck
<1>2. CASE ~FinishCheck
  BY <1>2 DEF PipedStep, OwnStep, StreamStep, SyncOff, OnWriteCompleted, Defer, Failed,
     EmitError, OnWriteCompletedNextTick, Answer, FlushBuffer, FlushLoop, FlushEnd,
     MaybeFinish, EndWritable, Ended, RejectLater, Return, SinkCompletes, RunImmediate,
     Finish, Write
<1> QED
  BY <1>1, <1>2
=============================================================================

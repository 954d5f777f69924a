--------------------------- MODULE ReadableProofs ---------------------------
(***************************************************************************)
(* Proofs about Readable for any number of bytes, chunks, sizes and marks, *)
(* and listeners that call back into the stream without restriction.       *)
(***************************************************************************)
EXTENDS MCReadable, SequenceTheorems, WellFoundedInduction, TLAPS

-----------------------------------------------------------------------------
(* Induction over a set of numbers, and what FlattenSeq computes.          *)

LEMMA SetInduction ==
    ASSUME NEW S, 0 \in S, \A n \in Nat : n \in S => n + 1 \in S
    PROVE  \A n \in Nat : n \in S
<1> DEFINE T == Nat \ S
           R == OpToRel(<, Nat)
<1>1. SUFFICES ASSUME T # {} PROVE FALSE
  OBVIOUS
<1>2. PICK x \in T : \A y \in T : ~(<<y, x>> \in R)
  <2>1. IsWellFoundedOn(R, Nat)
    BY NatLessThanWellFounded
  <2>2. T \subseteq Nat
    OBVIOUS
  <2> HIDE DEF R, T
  <2> QED
    BY <1>1, <2>1, <2>2, WFMin
<1>3. x \in Nat /\ x # 0 /\ x - 1 \in Nat
  <2> HIDE DEF R
  <2> QED
    OBVIOUS
<1>4. <<x - 1, x>> \in R
  BY <1>3 DEF OpToRel
<1> HIDE DEF R
<1>5. x - 1 \notin T
  BY <1>2, <1>4
<1> QED
  BY <1>3, <1>5

\* The function that FlattenSeq chooses satisfies its equation: it exists.
Flattening(B, n) ==
    CHOOSE f : f = [i \in 1 .. n |-> IF i = 1 THEN B[i] ELSE f[i - 1] \o B[i]]

LEMMA FlatteningExists ==
    ASSUME NEW B, NEW n \in Nat
    PROVE  \E f : f = [i \in 1 .. n |-> IF i = 1 THEN B[i] ELSE f[i - 1] \o B[i]]
<1> DEFINE Defined(k, f) ==
               f = [i \in 1 .. k |-> IF i = 1 THEN B[i] ELSE f[i - 1] \o B[i]]
           S == {k \in Nat : \E f : Defined(k, f)}
<1>1. 0 \in S
  <2> DEFINE none == [i \in 1 .. 0 |-> B[i]]
  <2>1. Defined(0, none)
    OBVIOUS
  <2> QED
    BY <2>1
<1>2. ASSUME NEW k \in Nat, k \in S PROVE k + 1 \in S
  <2>1. PICK f : Defined(k, f)
    BY <1>2
  <2> DEFINE next(i) == IF i = 1 THEN B[i] ELSE f[i - 1] \o B[i]
             g == [i \in 1 .. k + 1 |-> next(i)]
             h == [i \in 1 .. k + 1 |-> IF i = 1 THEN B[i] ELSE g[i - 1] \o B[i]]
  <2>2. \A i \in 1 .. k + 1 : g[i] = next(i)
    OBVIOUS
  <2>3. \A i \in 1 .. k : f[i] = next(i)
    BY <2>1, Zenon
  <2>4. 1 .. k \subseteq 1 .. k + 1
    OBVIOUS
  <2>5. \A i \in 1 .. k : g[i] = f[i]
    BY <2>2, <2>3, <2>4, Zenon
  <2>6. \A i \in 1 .. k + 1 : i # 1 => i - 1 \in 1 .. k
    OBVIOUS
  <2>7. \A i \in 1 .. k + 1 : h[i] = g[i]
    <3> SUFFICES ASSUME NEW i \in 1 .. k + 1 PROVE h[i] = g[i]
      OBVIOUS
    <3> HIDE DEF g
    <3>1. h[i] = IF i = 1 THEN B[i] ELSE g[i - 1] \o B[i]
      OBVIOUS
    <3>2. i # 1 => g[i - 1] = f[i - 1]
      BY <2>5, <2>6
    <3> QED
      BY <2>2, <3>1, <3>2
  <2>8. g = h
    <3>1. g = [i \in 1 .. k + 1 |-> g[i]]
      OBVIOUS
    <3>2. h = [i \in 1 .. k + 1 |-> h[i]]
      <4> HIDE DEF g
      <4> QED
        OBVIOUS
    <3> HIDE DEF g, h
    <3> QED
      BY <2>7, <3>1, <3>2
  <2>9. Defined(k + 1, g)
    BY <2>8, Zenon
  <2> HIDE DEF g, h, Defined
  <2> QED
    BY <2>9
<1> HIDE DEF S
<1>3. \A k \in Nat : k \in S
  BY <1>1, <1>2, SetInduction
<1> QED
  BY <1>3, Zenon DEF S

LEMMA FlatteningIs ==
    ASSUME NEW B, NEW n \in Nat
    PROVE  \A i \in 1 .. n : Flattening(B, n)[i] =
               IF i = 1 THEN B[i] ELSE Flattening(B, n)[i - 1] \o B[i]
<1> DEFINE F == Flattening(B, n)
<1>1. F = [i \in 1 .. n |-> IF i = 1 THEN B[i] ELSE F[i - 1] \o B[i]]
  BY FlatteningExists, Zenon DEF Flattening
<1> HIDE DEF F
<1>2. \A i \in 1 .. n : F[i] = IF i = 1 THEN B[i] ELSE F[i - 1] \o B[i]
  BY <1>1, Zenon
<1> QED
  BY <1>2 DEF F

LEMMA FlattenIsLast ==
    ASSUME NEW B, Len(B) \in Nat \ {0}
    PROVE  FlattenSeq(B) = Flattening(B, Len(B))[Len(B)]
BY DEF FlattenSeq, Flattening

LEMMA FlattenEmpty == FlattenSeq(<<>>) = <<>>
BY DEF FlattenSeq

\* Whatever satisfies the equation is the function: its last value is the result.
LEMMA FlattenUnique ==
    ASSUME NEW B, Len(B) \in Nat \ {0}, NEW g,
           \A i \in 1 .. Len(B) : g[i] = IF i = 1 THEN B[i] ELSE g[i - 1] \o B[i]
    PROVE  FlattenSeq(B) = g[Len(B)]
<1> DEFINE F == Flattening(B, Len(B))
           S == {k \in Nat : k \in 1 .. Len(B) => F[k] = g[k]}
<1>1. \A i \in 1 .. Len(B) : F[i] = IF i = 1 THEN B[i] ELSE F[i - 1] \o B[i]
  BY FlatteningIs
<1> HIDE DEF F
<1>2. 0 \in S
  OBVIOUS
<1>3. ASSUME NEW k \in Nat, k \in S PROVE k + 1 \in S
  <2> SUFFICES ASSUME k + 1 \in 1 .. Len(B) PROVE F[k + 1] = g[k + 1]
    OBVIOUS
  <2>1. CASE k = 0
    BY <1>1, <2>1
  <2>2. CASE k # 0
    <3>1. k \in 1 .. Len(B) /\ k + 1 # 1 /\ (k + 1) - 1 = k
      BY <2>2
    <3>2. F[k] = g[k]
      BY <1>3, <3>1
    <3>3. F[k + 1] = F[k] \o B[k + 1] /\ g[k + 1] = g[k] \o B[k + 1]
      BY <1>1, <3>1
    <3> QED
      BY <3>2, <3>3
  <2> QED
    BY <2>1, <2>2
<1> HIDE DEF S
<1>4. \A k \in Nat : k \in S
  BY <1>2, <1>3, SetInduction
<1>5. F[Len(B)] = g[Len(B)]
  BY <1>4 DEF S
<1> QED
  BY <1>5, FlattenIsLast DEF F

LEMMA FlatteningType ==
    ASSUME NEW A, NEW B \in Seq(Seq(A)), NEW n \in 0 .. Len(B)
    PROVE  \A i \in 1 .. n : Flattening(B, n)[i] \in Seq(A)
<1> DEFINE F == Flattening(B, n)
           S == {k \in Nat : k \in 1 .. n => F[k] \in Seq(A)}
<1>1. \A i \in 1 .. n : F[i] = IF i = 1 THEN B[i] ELSE F[i - 1] \o B[i]
  BY FlatteningIs
<1>2. \A i \in 1 .. n : B[i] \in Seq(A)
  BY ElementOfSeq
<1> HIDE DEF F
<1>3. 0 \in S
  OBVIOUS
<1>4. ASSUME NEW k \in Nat, k \in S PROVE k + 1 \in S
  <2> SUFFICES ASSUME k + 1 \in 1 .. n PROVE F[k + 1] \in Seq(A)
    OBVIOUS
  <2>1. CASE k = 0
    BY <1>1, <1>2, <2>1
  <2>2. CASE k # 0
    <3>1. k \in 1 .. n /\ k + 1 # 1 /\ (k + 1) - 1 = k
      BY <2>2
    <3>2. F[k] \in Seq(A)
      BY <1>4, <3>1
    <3>3. F[k + 1] = F[k] \o B[k + 1]
      BY <1>1, <3>1
    <3> QED
      BY <1>2, <3>2, <3>3, ConcatProperties
  <2> QED
    BY <2>1, <2>2
<1> HIDE DEF S
<1>5. \A k \in Nat : k \in S
  BY <1>3, <1>4, SetInduction
<1> QED
  BY <1>5 DEF S, F

LEMMA FlattenType ==
    ASSUME NEW A, NEW B \in Seq(Seq(A))
    PROVE  FlattenSeq(B) \in Seq(A)
<1>1. CASE B = <<>>
  BY <1>1, FlattenEmpty, EmptySeq
<1>2. CASE B # <<>>
  <2>1. Len(B) \in Nat \ {0} /\ Len(B) \in 0 .. Len(B) /\ Len(B) \in 1 .. Len(B)
    BY <1>2, EmptySeq
  <2>2. Flattening(B, Len(B))[Len(B)] \in Seq(A)
    BY <2>1, FlatteningType
  <2> QED
    BY <2>1, <2>2, FlattenIsLast
<1> QED
  BY <1>1, <1>2

LEMMA FlattenOne ==
    ASSUME NEW A, NEW c \in Seq(A)
    PROVE  FlattenSeq(<<c>>) = c
<1> DEFINE B == <<c>>
<1>1. Len(B) = 1 /\ B[1] = c
  OBVIOUS
<1> HIDE DEF B
<1>2. Flattening(B, 1)[1] = c
  BY <1>1, FlatteningIs
<1>3. FlattenSeq(B) = Flattening(B, Len(B))[Len(B)]
  <2>1. Len(B) \in Nat \ {0}
    BY <1>1
  <2> QED
    BY <2>1, FlattenIsLast
<1>4. FlattenSeq(B) = c
  BY <1>1, <1>2, <1>3
<1> QED
  BY <1>4 DEF B

LEMMA FlattenAppend ==
    ASSUME NEW A, NEW B \in Seq(Seq(A)), NEW c \in Seq(A)
    PROVE  FlattenSeq(Append(B, c)) = FlattenSeq(B) \o c
<1>1. CASE B = <<>>
  <2>1. Append(B, c) = <<c>> /\ FlattenSeq(B) = <<>>
    BY <1>1, FlattenEmpty
  <2> QED
    BY <2>1, FlattenOne, ConcatEmptySeq
<1>2. CASE B # <<>>
  <2> DEFINE n == Len(B)
             F == Flattening(B, n)
             D == Append(B, c)
             g == [i \in 1 .. n + 1 |-> IF i <= n THEN F[i] ELSE F[n] \o c]
  <2>1. n \in Nat \ {0}
    BY <1>2, EmptySeq
  <2>2. Len(D) = n + 1 /\ D[n + 1] = c /\ \A i \in 1 .. n : D[i] = B[i]
    BY AppendProperties
  <2>3. \A i \in 1 .. n : F[i] = IF i = 1 THEN B[i] ELSE F[i - 1] \o B[i]
    BY <2>1, FlatteningIs
  <2>4. FlattenSeq(B) = F[n]
    BY <2>1, FlattenIsLast
  <2> HIDE DEF n, F, D
  <2>5. \A i \in 1 .. n + 1 : g[i] = IF i = 1 THEN D[i] ELSE g[i - 1] \o D[i]
    <3> SUFFICES ASSUME NEW i \in 1 .. n + 1
                 PROVE  g[i] = IF i = 1 THEN D[i] ELSE g[i - 1] \o D[i]
      OBVIOUS
    <3>1. i # 1 => g[i - 1] = F[i - 1]
      BY <2>1
    <3>2. CASE i <= n
      BY <2>1, <2>2, <2>3, <3>1, <3>2
    <3>3. CASE i = n + 1
      BY <2>1, <2>2, <3>1, <3>3
    <3> QED
      BY <2>1, <3>2, <3>3
  <2>6. g[n + 1] = F[n] \o c
    BY <2>1
  <2> HIDE DEF g
  <2>7. FlattenSeq(D) = g[n + 1]
    <3>1. /\ Len(D) \in Nat \ {0}
          /\ \A i \in 1 .. Len(D) : g[i] = IF i = 1 THEN D[i] ELSE g[i - 1] \o D[i]
      BY <2>1, <2>2, <2>5
    <3>2. FlattenSeq(D) = g[Len(D)]
      BY <3>1, FlattenUnique
    <3> QED
      BY <2>2, <3>2
  <2> QED
    BY <2>4, <2>6, <2>7 DEF D
<1> QED
  BY <1>1, <1>2

LEMMA FlattenCons ==
    ASSUME NEW A, NEW B \in Seq(Seq(A)), NEW c \in Seq(A)
    PROVE  FlattenSeq(<<c>> \o B) = c \o FlattenSeq(B)
<1>1. CASE B = <<>>
  <2>1. <<c>> \o B = <<c>> /\ FlattenSeq(B) = <<>>
    BY <1>1, FlattenEmpty
  <2> QED
    BY <2>1, FlattenOne, ConcatEmptySeq
<1>2. CASE B # <<>>
  <2> DEFINE n == Len(B)
             F == Flattening(B, n)
             D == <<c>> \o B
             g == [i \in 1 .. n + 1 |-> IF i = 1 THEN c ELSE c \o F[i - 1]]
  <2>1. n \in Nat \ {0}
    BY <1>2, EmptySeq
  <2>2. Len(D) = n + 1 /\ D[1] = c /\ \A i \in 2 .. n + 1 : D[i] = B[i - 1]
    BY ConcatProperties, <2>1
  <2>3. \A i \in 1 .. n : F[i] = IF i = 1 THEN B[i] ELSE F[i - 1] \o B[i]
    BY <2>1, FlatteningIs
  <2>4. FlattenSeq(B) = F[n]
    BY <2>1, FlattenIsLast
  <2>5. \A i \in 1 .. n : F[i] \in Seq(A) /\ B[i] \in Seq(A)
    <3>1. n \in 0 .. Len(B) /\ n = Len(B)
      BY <2>1
    <3>2. \A i \in 1 .. n : F[i] \in Seq(A)
      BY <3>1, FlatteningType
    <3>3. \A i \in 1 .. n : B[i] \in Seq(A)
      BY ElementOfSeq
    <3> QED
      BY <3>2, <3>3
  <2> HIDE DEF n, F, D
  <2>6. \A i \in 1 .. n + 1 : g[i] = IF i = 1 THEN D[i] ELSE g[i - 1] \o D[i]
    <3> SUFFICES ASSUME NEW i \in 1 .. n + 1
                 PROVE  g[i] = IF i = 1 THEN D[i] ELSE g[i - 1] \o D[i]
      OBVIOUS
    <3>1. CASE i = 1
      BY <2>2, <3>1
    <3>2. CASE i = 2
      <4>1. i \in 2 .. n + 1 /\ i # 1 /\ i - 1 = 1 /\ 1 \in 1 .. n
        BY <2>1, <3>2
      <4>2. D[i] = B[1] /\ F[1] = B[1]
        BY <2>2, <2>3, <4>1
      <4>3. g[2] = c \o F[1] /\ g[1] = c
        BY <2>1
      <4> QED
        BY <3>2, <4>1, <4>2, <4>3
    <3>3. CASE i > 2
      <4>1. i - 1 \in 1 .. n /\ i - 2 \in 1 .. n /\ i - 1 # 1 /\ (i - 1) - 1 = i - 2
        BY <2>1, <3>3
      <4>2. F[i - 1] = F[i - 2] \o B[i - 1]
        BY <2>3, <4>1
      <4>3. g[i] = c \o F[i - 1] /\ g[i - 1] = c \o F[i - 2] /\ D[i] = B[i - 1]
        BY <2>1, <2>2, <3>3, <4>1, SMTT(30)
      <4>4. c \o (F[i - 2] \o B[i - 1]) = (c \o F[i - 2]) \o B[i - 1]
        <5>1. F[i - 2] \in Seq(A) /\ B[i - 1] \in Seq(A)
          BY <2>5, <4>1
        <5>2. \A s, t, u \in Seq(A) : (s \o t) \o u = s \o (t \o u)
          BY ConcatAssociative, SMTT(30)
        <5> HIDE DEF g
        <5> QED
          BY <5>1, <5>2, Zenon
      <4>5. g[i] = g[i - 1] \o D[i]
        BY <4>2, <4>3, <4>4, Zenon
      <4> HIDE DEF g
      <4>6. i # 1
        BY <2>1, <3>3
      <4> QED
        BY <4>5, <4>6, Zenon
    <3> QED
      BY <2>1, <3>1, <3>2, <3>3
  <2>7. g[n + 1] = c \o F[n]
    BY <2>1
  <2> HIDE DEF g
  <2>8. FlattenSeq(D) = g[n + 1]
    <3>1. /\ Len(D) \in Nat \ {0}
          /\ \A i \in 1 .. Len(D) : g[i] = IF i = 1 THEN D[i] ELSE g[i - 1] \o D[i]
      BY <2>1, <2>2, <2>6
    <3>2. FlattenSeq(D) = g[Len(D)]
      BY <3>1, FlattenUnique
    <3> QED
      BY <2>2, <3>2
  <2> QED
    BY <2>4, <2>7, <2>8 DEF D
<1> QED
  BY <1>1, <1>2

-----------------------------------------------------------------------------
(* The inductive invariant. *)

EndOps == {"emitEnd", "endTick"}
NoEnd == {f \in Frame : f.op \notin EndOps}

\* The source has ended when its end is announced, and nothing announces it before.
EndsLast ==
    /\ readableEnded => eof
    /\ ~readableEnded => stack \in Seq(NoEnd) /\ immediates \in Seq(NoEnd)
    /\ ends = IF endEmitted THEN 1 ELSE 0

IInv == TypeOK /\ InOrder /\ EndsLast

\* A call of _read runs until it returns before anything else does, and owes an
\* answer until the source pushes, in it or later.
Asking == FrameOf("source")
Settled == {f \in Frame : f.op = "source" => f.arg >= 1}

Owed ==
    /\ io => reading
    /\ immediates \in Seq(Settled)
    /\ \/ stack \in Seq(Settled)
       \/ /\ stack # <<>> /\ Head(stack) = Asking /\ Rest \in Seq(Settled)
          /\ reading /\ ~io

-----------------------------------------------------------------------------
(* Frames. *)

\* A set of frames that has all the frames that are pushed without a condition,
\* those of the end when the source has ended, and what a push makes of a `source'.
Plain == {f \in Frame : f.op \notin EndOps /\ (f.op = "source" => f.arg >= 1)}

Closed(S) ==
    /\ S \subseteq Frame /\ Plain \subseteq S
    /\ readableEnded => FrameOf("emitEnd") \in S /\ FrameOf("endTick") \in S
    /\ \A f \in S : f.op = "source" => [f EXCEPT !.arg = @ + 1] \in S

LEMMA FrameTypes ==
    /\ \A op \in {"fromBuffer", "emitReadable", "flow", "pull", "more", "resumeTick",
                  "resumed", "resumeRead", "readableTick"} : FrameOf(op) \in Plain
    /\ \A n \in Int, loop \in {"none", "flow", "pull"} : ReadFrame(n, loop) \in Plain
    /\ \A n \in Int : FrameWith("moreLoop", n) \in Plain /\ FrameWith("user", n) \in Plain
    /\ \A op \in EndOps : FrameOf(op) \in Frame
    /\ Asking \in Frame /\ Asking \in NoEnd
    /\ UserFrame \in Plain
BY ReadableAssumption DEF Plain, NoEnd, EndOps, Asking, Frame, FrameOf, FrameWith, ReadFrame,
    UserFrame

LEMMA PushIn ==
    ASSUME NEW S, NEW f \in S, NEW s \in Seq(S)
    PROVE  /\ Push(f, s) \in Seq(S)
           /\ Push(f, s) # <<>> /\ Head(Push(f, s)) = f /\ Tail(Push(f, s)) = s
           /\ Len(Push(f, s)) = Len(s) + 1
<1>1. <<f>> \in Seq(S) /\ Len(<<f>>) = 1 /\ <<f>>[1] = f
  OBVIOUS
<1> QED
  BY <1>1, ConcatProperties, SMTT(30) DEF Push

LEMMA PushIfIn ==
    ASSUME NEW S, NEW c \in BOOLEAN, NEW f, c => f \in S, NEW s \in Seq(S)
    PROVE  PushIf(c, f, s) \in Seq(S)
BY PushIn DEF PushIf

LEMMA CallerIn ==
    ASSUME NEW S, Closed(S), stack \in Seq(Frame), MayCall, stack # <<>> => Rest \in Seq(S)
    PROVE  Caller \in Seq(S)
<1>1. CASE stack = <<>>
  BY <1>1, EmptySeq DEF Caller
<1>2. CASE stack # <<>>
  <2>1. Head(stack) \in Frame /\ Head(stack).op = "user"
    BY <1>2, HeadTailProperties DEF MayCall, Running
  <2>2. [Head(stack) EXCEPT !.arg = @ - 1] \in Plain
    BY <2>1 DEF Plain, Frame, EndOps
  <2> QED
    BY <1>2, <2>2, PushIn DEF Caller, Closed
<1> QED
  BY <1>1, <1>2

\* Whatever runs, the frames of the stack and those that wait stay in a closed set,
\* but for a call of _read.
Keeps(S) == stack' \in Seq(S) /\ immediates' \in Seq(S)

LEMMA ReadKeeps ==
    ASSUME NEW S, Closed(S), stack \in Seq(Frame), stack # <<>> => Rest \in Seq(S),
           immediates \in Seq(S), Read
    PROVE  /\ immediates' \in Seq(S)
           /\ \/ stack' \in Seq(S)
              \/ /\ ~readableEnded /\ ~reading /\ reading'
                 /\ \E under \in Seq(S) : stack' = Push(Asking, under)
                 /\ UNCHANGED <<readableEnded, io>>
<1> DEFINE fromBuffer == [Head(stack) EXCEPT !.op = "fromBuffer"]
<1>1. stack # <<>> /\ Head(stack) \in Frame /\ Head(stack).arg \in Int /\ Rest \in Seq(S)
  <2>1. stack # <<>>
    BY DEF Read, Running
  <2>2. Head(stack) \in Frame
    BY <2>1, HeadTailProperties
  <2> QED
    BY <2>1, <2>2 DEF Frame
<1>2. fromBuffer \in S
  <2>1. fromBuffer \in Plain
    BY <1>1 DEF Plain, Frame, EndOps
  <2> QED
    BY <2>1 DEF Closed
<1>3. Push(fromBuffer, Rest) \in Seq(S)
  BY <1>1, <1>2, PushIn
<1>4. FrameOf("emitReadable") \in S /\ (readableEnded => FrameOf("emitEnd") \in S)
  BY FrameTypes DEF Closed
<1>5. /\ PushIf(length > 0, FrameOf("emitReadable"), Rest) \in Seq(S)
      /\ readableEnded => Push(FrameOf("emitEnd"), Rest) \in Seq(S)
  BY <1>1, <1>4, PushIn DEF PushIf
<1> HIDE DEF fromBuffer
<1>7. immediates' \in Seq(S)
  BY DEF Read
<1>8. CASE AskedForReadable(Head(stack).arg) /\ (readableEnded \/ length >= highWaterMark)
  BY <1>5, <1>7, <1>8 DEF Read
<1>9. CASE /\ ~(AskedForReadable(Head(stack).arg)
                /\ (readableEnded \/ length >= highWaterMark))
           /\ readableEnded /\ length = 0
  BY <1>5, <1>7, <1>9 DEF Read
<1>10. CASE /\ ~(AskedForReadable(Head(stack).arg)
                 /\ (readableEnded \/ length >= highWaterMark))
            /\ ~(readableEnded /\ length = 0)
  <2>1. CASE NeedRead(Head(stack).arg)
    <3>1. /\ stack' = Push(Asking, Push(fromBuffer, Rest))
          /\ reading' /\ UNCHANGED <<readableEnded, io>>
      BY <1>10, <2>1 DEF Read, Asking, fromBuffer, endVars, sourceVars
    <3>2. ~readableEnded /\ ~reading
      BY <2>1 DEF NeedRead
    <3> QED
      BY <1>3, <1>7, <3>1, <3>2
  <2>2. CASE ~NeedRead(Head(stack).arg)
    <3>1. stack' = Push(fromBuffer, Rest)
      BY <1>10, <2>2 DEF Read, fromBuffer
    <3> QED
      BY <1>3, <1>7, <3>1
  <2> QED
    BY <2>1, <2>2
<1> QED
  BY <1>8, <1>9, <1>10

LEMMA StepKeeps ==
    ASSUME NEW S, Closed(S), stack \in Seq(Frame), stack # <<>> => Rest \in Seq(S),
           immediates \in Seq(S),
           stack # <<>> /\ Head(stack).op = "emitEnd" => readableEnded,
           length \in Int,
           StreamStep, ~Read
    PROVE  Keeps(S)
<1>1. stack # <<>> /\ Head(stack) \in Frame /\ Rest \in Seq(S)
  BY HeadTailProperties DEF StreamStep, Running, ReadFromBuffer, Flow, EmitReadable,
     ReadableTick, EmitEnd, EndTick, MaybeReadMore, MoreLoop, ResumeTick, Resumed,
     ResumeRead, ReadReturns
<1>2. Head(stack).arg \in Int /\ Head(stack).loop \in {"none", "flow", "pull"}
  BY <1>1 DEF Frame
<1>3. /\ \A op \in {"fromBuffer", "emitReadable", "flow", "pull", "more", "resumeTick",
                    "resumed", "resumeRead", "readableTick"} : FrameOf(op) \in S
      /\ \A n \in Int, loop \in {"none", "flow", "pull"} : ReadFrame(n, loop) \in S
      /\ \A n \in Int : FrameWith("moreLoop", n) \in S
      /\ UserFrame \in S
  BY FrameTypes DEF Closed
<1>4. ReadableListener \in S
  BY <1>3 DEF ReadableListener
<1>5. \A f \in S : Append(immediates, f) \in Seq(S)
  BY AppendProperties
<1>6. \A f \in S, s \in Seq(S) : Push(f, s) \in Seq(S)
  BY PushIn
<1>7. \A f \in S, s \in Seq(S), c \in BOOLEAN : PushIf(c, f, s) \in Seq(S)
  BY <1>6 DEF PushIf
<1>8. <<>> \in Seq(S)
  OBVIOUS
<1>9. ASSUME ReadFromBuffer PROVE Keeps(S)
  <2>1. Continue(Head(stack).loop, Rest) \in Seq(S)
    <3>1. Head(stack).loop # "none" => FrameOf(Head(stack).loop) \in S
      BY <1>2, <1>3
    <3> QED
      BY <1>1, <1>6, <3>1 DEF Continue, PushIf
  <2>2. Push(UserFrame, Continue(Head(stack).loop, Rest)) \in Seq(S)
    BY <1>3, <1>6, <2>1
  <2>3. immediates' = immediates
    BY <1>9 DEF ReadFromBuffer
  <2>4. stack' \in {Rest, <<>>, Push(UserFrame, Continue(Head(stack).loop, Rest))}
    BY <1>9 DEF ReadFromBuffer
  <2> QED
    BY <1>1, <1>8, <2>2, <2>3, <2>4 DEF Keeps
<1>10. ASSUME Flow PROVE Keeps(S)
  <2>1. PICK loop \in {"flow", "pull"} :
            stack' = PushIf(loop = "pull" \/ flowing = "on", ReadFrame(NoSize, loop), Rest)
    BY <1>10 DEF Flow
  <2>2. ReadFrame(NoSize, loop) \in S
    BY <1>3 DEF NoSize
  <2>3. stack' \in Seq(S)
    BY <1>1, <1>6, <2>1, <2>2 DEF PushIf
  <2> QED
    BY <1>10, <2>3 DEF Flow, Keeps
<1>11. ASSUME EmitReadable PROVE Keeps(S)
  BY <1>1, <1>3, <1>4, <1>5, <1>6, <1>11 DEF EmitReadable, Keeps
<1>12. ASSUME ReadableTick PROVE Keeps(S)
  BY <1>1, <1>3, <1>4, <1>6, <1>12 DEF ReadableTick, Keeps
<1>13. ASSUME EmitEnd PROVE Keeps(S)
  <2>1. readableEnded
    BY <1>13 DEF EmitEnd, Running
  <2> QED
    BY <1>1, <1>5, <1>13, <2>1 DEF EmitEnd, Keeps, Closed
<1>14. ASSUME EndTick PROVE Keeps(S)
  BY <1>1, <1>3, <1>6, <1>14 DEF EndTick, Keeps
<1>15. ASSUME MaybeReadMore PROVE Keeps(S)
  BY <1>1, <1>3, <1>5, <1>15 DEF MaybeReadMore, Keeps
<1>16. ASSUME MoreLoop PROVE Keeps(S)
  BY <1>1, <1>3, <1>6, <1>16 DEF MoreLoop, Keeps
<1>17. ASSUME ResumeTick PROVE Keeps(S)
  BY <1>1, <1>3, <1>6, <1>17 DEF ResumeTick, Keeps, PushIf
<1>18. ASSUME Resumed PROVE Keeps(S)
  BY <1>1, <1>3, <1>6, <1>18 DEF Resumed, AfterResume, Keeps
<1>19. ASSUME ResumeRead PROVE Keeps(S)
  BY <1>1, <1>3, <1>6, <1>19 DEF ResumeRead, Keeps, PushIf
<1>20. ASSUME ReadReturns PROVE Keeps(S)
  BY <1>1, <1>20 DEF ReadReturns, Keeps
<1> QED
  BY <1>9, <1>10, <1>11, <1>12, <1>13, <1>14, <1>15, <1>16, <1>17, <1>18, <1>19, <1>20
     DEF StreamStep

\* What a push leaves to run, above what its caller does next.
LEMMA PushesKeep ==
    ASSUME NEW S, Closed(S), NEW rest \in Seq(S), Pushes(rest)
    PROVE  stack' \in Seq(S)
<1>1. /\ FrameOf("emitReadable") \in S /\ FrameOf("more") \in S /\ UserFrame \in S
      /\ ReadFrame(0, "none") \in S
  BY FrameTypes DEF Closed
<1>2. \A f \in S, s \in Seq(S) : Push(f, s) \in Seq(S)
  BY PushIn
<1>3. AfterDirect(rest) \in Seq(S) /\ AfterBuffering(rest) \in Seq(S)
      /\ AfterEof(rest) \in Seq(S) /\ Push(UserFrame, rest) \in Seq(S)
  BY <1>1, <1>2 DEF AfterDirect, AfterBuffering, AfterEof, PushIf
<1>4. stack' \in {rest, AfterDirect(rest), AfterBuffering(rest), AfterEof(rest),
                  Push(UserFrame, rest)}
  BY DEF Pushes, PushNothing, PushChunk, PushEof, PushTooLate
<1> QED
  BY <1>3, <1>4

LEMMA UserKeeps ==
    ASSUME NEW S, Closed(S), stack \in Seq(Frame), stack # <<>> => Rest \in Seq(S),
           immediates \in Seq(S), UserCall
    PROVE  Keeps(S)
<1>1. MayCall
  BY DEF UserCall, UserRead, Unshift, Pause, Resume, OnReadable
<1>2. Caller \in Seq(S)
  BY <1>1, CallerIn
<1>3. /\ FrameOf("emitReadable") \in S /\ FrameOf("more") \in S /\ UserFrame \in S
      /\ FrameOf("resumeTick") \in S
      /\ \A n \in Int : ReadFrame(n, "none") \in S
  BY FrameTypes DEF Closed
<1>4. \A f \in S, s \in Seq(S) : Push(f, s) \in Seq(S)
  BY PushIn
<1>5. \A f \in S : Append(immediates, f) \in Seq(S)
  BY AppendProperties
<1>6. CASE UserRead
  <2>1. PICK n \in ReadSizes \cup {NoSize} : stack' = Push(ReadFrame(n, "none"), Caller)
    BY <1>6 DEF UserRead
  <2>2. n \in Int
    BY ReadableAssumption DEF NoSize
  <2>3. stack' \in Seq(S)
    BY <1>2, <1>3, <1>4, <2>1, <2>2
  <2> QED
    BY <1>6, <2>3 DEF UserRead, Keeps
<1>7. CASE Unshift
  <2>1. AfterDirect(Caller) \in Seq(S) /\ AfterBuffering(Caller) \in Seq(S)
    BY <1>2, <1>3, <1>4 DEF AfterDirect, AfterBuffering, PushIf
  <2>2. stack' \in {AfterDirect(Caller), AfterBuffering(Caller)} /\ immediates' = immediates
    BY <1>7 DEF Unshift
  <2> QED
    BY <2>1, <2>2 DEF Keeps
<1>8. CASE Pause
  BY <1>2, <1>3, <1>4, <1>8 DEF Pause, Keeps
<1>9. CASE Resume
  BY <1>2, <1>3, <1>5, <1>9 DEF Resume, Keeps
<1>10. CASE OnReadable
  BY <1>2, <1>3, <1>4, <1>5, <1>10, SMTT(30) DEF OnReadable, Keeps
<1> QED
  BY <1>6, <1>7, <1>8, <1>9, <1>10 DEF UserCall

LEMMA SourceKeeps ==
    ASSUME NEW S, Closed(S), stack \in Seq(Frame), stack # <<>> => Rest \in Seq(S),
           immediates \in Seq(S), SourcePush,
           Running("source") => Head(stack) \in S \/ Head(stack) = Asking
    PROVE  Keeps(S)
<1>1. immediates' \in Seq(S)
  BY DEF SourcePush
<1>2. CASE Running("source") /\ Pushes(Push([Head(stack) EXCEPT !.arg = @ + 1], Rest))
  <2>1. stack # <<>> /\ Rest \in Seq(S) /\ Head(stack).op = "source"
    BY <1>2 DEF Running
  <2>2. [Head(stack) EXCEPT !.arg = @ + 1] \in S
    <3>1. CASE Head(stack) \in S
      BY <2>1, <3>1 DEF Closed
    <3>2. CASE Head(stack) = Asking
      <4>1. [Asking EXCEPT !.arg = @ + 1] \in Plain
        BY DEF Asking, FrameOf, Plain, Frame, EndOps
      <4> QED
        BY <3>2, <4>1 DEF Closed
    <3> QED
      BY <1>2, <3>1, <3>2
  <2>3. Push([Head(stack) EXCEPT !.arg = @ + 1], Rest) \in Seq(S)
    BY <2>1, <2>2, PushIn
  <2> QED
    BY <1>1, <1>2, <2>3, PushesKeep DEF Keeps
<1>3. CASE stack = <<>> /\ Pushes(stack)
  BY <1>1, <1>3, PushesKeep, EmptySeq DEF Keeps
<1>4. CASE MayCall /\ Pushes(Caller)
  <2>1. Caller \in Seq(S)
    BY <1>4, CallerIn
  <2> QED
    BY <1>1, <1>4, <2>1, PushesKeep DEF Keeps
<1> QED
  BY <1>2, <1>3, <1>4 DEF SourcePush

LEMMA LoopKeeps ==
    ASSUME NEW S, stack \in Seq(Frame), stack # <<>> => Rest \in Seq(S),
           immediates \in Seq(S), Return \/ RunImmediate
    PROVE  Keeps(S)
<1>1. CASE Return
  BY <1>1 DEF Return, Running, Keeps
<1>2. CASE RunImmediate
  <2>1. Head(immediates) \in S /\ Tail(immediates) \in Seq(S)
    BY <1>2, HeadTailProperties DEF RunImmediate
  <2> QED
    BY <1>2, <2>1 DEF RunImmediate, Keeps
<1> QED
  BY <1>1, <1>2

-----------------------------------------------------------------------------
(* Bytes. *)

Bytes == 1 .. MaxBytes
Counted(n) == [i \in 1 .. n |-> i]

\* The types of what is buffered and delivered, and what holds of them until a read has
\* lost bytes.
BytesTyped ==
    /\ length \in Int /\ objectMode \in BOOLEAN /\ sourced \in 0 .. MaxBytes
    /\ buffer \in Seq(Seq(Bytes)) /\ delivered \in Seq(Bytes) /\ misread \in BOOLEAN

Exact ==
    /\ PlucksBytes
    /\ length = IF objectMode THEN Len(buffer) ELSE Len(FlattenSeq(buffer))

ExactBytes ==
    /\ length \in Nat /\ objectMode \in BOOLEAN /\ sourced \in 0 .. MaxBytes
    /\ buffer \in Seq(Seq(Bytes)) /\ delivered \in Seq(Bytes)
    /\ Exact

LEMMA CountedOn ==
    ASSUME NEW n \in Nat, NEW k \in Nat
    PROVE  Counted(n) \o [i \in 1 .. k |-> n + i] = Counted(n + k)
<1> DEFINE more == [i \in 1 .. k |-> n + i]
<1>1. Counted(n) \in Seq(Nat) /\ more \in Seq(Nat) /\ Counted(n + k) \in Seq(Nat)
  BY DEF Counted
<1>2. Len(Counted(n)) = n /\ Len(more) = k /\ Len(Counted(n + k)) = n + k
  BY DEF Counted
<1>3. \A i \in 1 .. n : Counted(n)[i] = i
  BY DEF Counted
<1>4. \A i \in 1 .. k : more[i] = n + i
  OBVIOUS
<1>5. \A i \in 1 .. n + k : Counted(n + k)[i] = i
  BY DEF Counted
<1> HIDE DEF more
<1>6. /\ Counted(n) \o more \in Seq(Nat) /\ Len(Counted(n) \o more) = n + k
      /\ \A i \in 1 .. n + k : (Counted(n) \o more)[i] =
                                IF i <= n THEN Counted(n)[i] ELSE more[i - n]
  <2>1. /\ Counted(n) \o more \in Seq(Nat)
        /\ Len(Counted(n) \o more) = Len(Counted(n)) + Len(more)
        /\ \A i \in 1 .. Len(Counted(n)) + Len(more) : (Counted(n) \o more)[i] =
              IF i <= Len(Counted(n)) THEN Counted(n)[i] ELSE more[i - Len(Counted(n))]
    BY <1>1, ConcatProperties
  <2> QED
    BY <1>2, <2>1
<1>7. \A i \in 1 .. n + k : (Counted(n) \o more)[i] = i
  BY <1>3, <1>4, <1>6, SMTT(30)
<1>8. Counted(n) \o more = Counted(n + k)
  BY <1>1, <1>2, <1>5, <1>6, <1>7, SeqEqual
<1> QED
  BY <1>8 DEF more

LEMMA ConsHeadTail ==
    ASSUME NEW A, NEW s \in Seq(A), s # <<>>
    PROVE  s = <<Head(s)>> \o Tail(s) /\ Head(s) \in A /\ Tail(s) \in Seq(A)
           /\ Len(Tail(s)) = Len(s) - 1
<1>1. Head(s) \in A /\ Tail(s) \in Seq(A)
  BY HeadTailProperties
<1> QED
  BY <1>1, SMTT(30)

\* A read that does not raise splits the buffered bytes: what it returns is followed by
\* what it leaves, and it leaves as many less as it asked for.
LEMMA TakenSplits ==
    ASSUME ExactBytes, buffer # <<>>, NEW n \in 1 .. length, ~SpansChunks(n),
           objectMode => n = 1
    PROVE  /\ Taken(n).ret \in Seq(Bytes) /\ Taken(n).left \in Seq(Seq(Bytes))
           /\ FlattenSeq(buffer) = Taken(n).ret \o FlattenSeq(Taken(n).left)
           /\ length - n = IF objectMode THEN Len(Taken(n).left)
                                         ELSE Len(FlattenSeq(Taken(n).left))
<1> DEFINE h == Head(buffer)
           t == Tail(buffer)
<1>1. buffer = <<h>> \o t /\ h \in Seq(Bytes) /\ t \in Seq(Seq(Bytes))
      /\ Len(t) = Len(buffer) - 1
  BY ConsHeadTail DEF ExactBytes
<1>2. length = IF objectMode THEN Len(buffer) ELSE Len(FlattenSeq(buffer))
  BY DEF ExactBytes, Exact, PlucksBytes
<1>3. FlattenSeq(t) \in Seq(Bytes) /\ FlattenSeq(buffer) \in Seq(Bytes)
  BY <1>1, FlattenType DEF ExactBytes
<1>4. FlattenSeq(buffer) = h \o FlattenSeq(t)
  BY <1>1, FlattenCons
<1>5. Len(h) \in Nat /\ Len(FlattenSeq(t)) \in Nat
      /\ Len(FlattenSeq(buffer)) = Len(h) + Len(FlattenSeq(t))
  BY <1>1, <1>3, <1>4, ConcatProperties, LenProperties
<1>6. length \in Nat /\ objectMode \in BOOLEAN
  BY DEF ExactBytes
<1>7. CASE objectMode \/ (n < length /\ n = Len(h))
  <2>1. Taken(n).ret = h /\ Taken(n).left = t
    BY <1>7 DEF Taken
  <2> HIDE DEF h, t
  <2> QED
    <3>1. objectMode => n = 1 /\ length - n = Len(t)
      BY <1>1, <1>2, <1>6
    <3>2. ~objectMode => length - n = Len(FlattenSeq(t))
      BY <1>2, <1>5, <1>7
    <3> QED
      BY <1>1, <1>4, <2>1, <3>1, <3>2
<1>8. CASE ~(objectMode \/ (n < length /\ n = Len(h))) /\ n >= length
  <2>1. Taken(n).ret = FlattenSeq(buffer) /\ Taken(n).left = <<>>
    BY <1>8 DEF Taken
  <2>2. FlattenSeq(buffer) = FlattenSeq(buffer) \o <<>>
    BY <1>3, ConcatEmptySeq
  <2>3. n = length /\ Len(<<>>) = 0 /\ <<>> \in Seq(Seq(Bytes))
    BY <1>6, <1>8
  <2> QED
    BY <1>3, <1>8, <2>1, <2>2, <2>3, FlattenEmpty
<1>9. CASE ~objectMode /\ n < length /\ n < Len(h)
  <2> DEFINE a == SubSeq(h, 1, n)
             b == SubSeq(h, n + 1, Len(h))
  <2>1. Taken(n).ret = a /\ Taken(n).left = <<b>> \o t
    <3>1. ~(objectMode \/ (n < length /\ n = Len(Head(buffer)))) /\ ~(n >= length)
      BY <1>5, <1>6, <1>9
    <3> QED
      BY <3>1 DEF Taken
  <2>2. a \in Seq(Bytes) /\ b \in Seq(Bytes) /\ Len(a) = n /\ Len(b) = Len(h) - n
    BY <1>1, <1>5, <1>9
  <2>3. h = a \o b
    <3>1. SubSeq(h, 1, n) \o SubSeq(h, n + 1, Len(h)) = SubSeq(h, 1, Len(h))
      <4>1. 1 \in 1 .. Len(h) + 1 /\ n \in 0 .. Len(h) /\ Len(h) \in n .. Len(h)
        BY <1>5, <1>9
      <4> HIDE DEF h
      <4> QED
        BY <1>1, <4>1, ConcatAdjacentSubSeq
    <3>2. SubSeq(h, 1, Len(h)) = h
      BY <1>1, SubSeqFull
    <3> QED
      BY <3>1, <3>2
  <2> HIDE DEF a, b, h, t
  <2>4. FlattenSeq(<<b>> \o t) = b \o FlattenSeq(t)
    BY <1>1, <2>2, FlattenCons
  <2>5. \A x, y, z \in Seq(Bytes) : (x \o y) \o z = x \o (y \o z)
    BY ConcatAssociative
  <2>6. (a \o b) \o FlattenSeq(t) = a \o (b \o FlattenSeq(t))
    BY <1>3, <2>2, <2>5, Zenon
  <2>7. FlattenSeq(buffer) = a \o FlattenSeq(<<b>> \o t)
    BY <1>4, <2>3, <2>4, <2>6, Zenon
  <2>8. Len(b \o FlattenSeq(t)) = Len(b) + Len(FlattenSeq(t))
    BY <1>3, <2>2, ConcatProperties
  <2>9. length - n = Len(FlattenSeq(<<b>> \o t))
    <3>1. length = Len(h) + Len(FlattenSeq(t))
      BY <1>2, <1>5, <1>9
    <3>2. Len(FlattenSeq(<<b>> \o t)) = (Len(h) - n) + Len(FlattenSeq(t))
      BY <2>2, <2>4, <2>8
    <3> QED
      BY <1>5, <3>1, <3>2
  <2>10. <<b>> \o t \in Seq(Seq(Bytes))
    <3>1. <<b>> \in Seq(Seq(Bytes))
      BY <2>2
    <3> QED
      BY <1>1, <3>1, ConcatProperties
  <2> QED
    BY <1>9, <2>1, <2>2, <2>7, <2>9, <2>10
<1>10. ~objectMode /\ n < length => n <= Len(h)
  BY <1>5, <1>6 DEF SpansChunks
<1> QED
  <2>1. \/ objectMode \/ (n < length /\ n = Len(h))
        \/ ~(objectMode \/ (n < length /\ n = Len(h))) /\ n >= length
        \/ ~objectMode /\ n < length /\ n < Len(h)
    <3> HIDE DEF h
    <3> QED
      BY <1>5, <1>6, <1>10
  <2> QED
    BY <1>7, <1>8, <1>9, <2>1

LEMMA SizeBounded ==
    ASSUME ExactBytes, NEW n \in Int, buffer # <<>>, length # 0
    PROVE  /\ HowMuchToRead(n, FALSE) \in Int /\ HowMuchToRead(n, FALSE) <= length
           /\ objectMode => HowMuchToRead(n, FALSE) \in {0, 1}
<1>1. length \in Nat /\ objectMode \in BOOLEAN
  BY DEF ExactBytes
<1>2. ~objectMode => SizeOfNext \in Nat /\ SizeOfNext <= length
  <2> DEFINE h == Head(buffer)
             t == Tail(buffer)
  <2>1. buffer = <<h>> \o t /\ h \in Seq(Bytes) /\ t \in Seq(Seq(Bytes))
    BY ConsHeadTail DEF ExactBytes
  <2>2. FlattenSeq(t) \in Seq(Bytes) /\ FlattenSeq(buffer) = h \o FlattenSeq(t)
    BY <2>1, FlattenType, FlattenCons
  <2>3. Len(h) \in Nat /\ Len(h) <= Len(FlattenSeq(buffer))
    BY <2>1, <2>2, ConcatProperties, LenProperties
  <2> QED
    BY <1>1, <2>3 DEF SizeOfNext, ExactBytes, Exact, PlucksBytes
<1> QED
  BY <1>1, <1>2 DEF HowMuchToRead

LEMMA ReadFromBufferBytes ==
    ASSUME ExactBytes, stack \in Seq(Frame), ReadFromBuffer, ~misread'
    PROVE  ExactBytes'
<1> DEFINE n == HowMuchToRead(Head(stack).arg, FALSE)
           empty == n <= 0 \/ buffer = <<>> \/ length = 0
<1>1. Head(stack).arg \in Int
  <2>1. Head(stack) \in Frame
    BY HeadTailProperties DEF ReadFromBuffer, Running
  <2> QED
    BY <2>1 DEF Frame
<1>2. UNCHANGED <<sourced, objectMode>>
  BY DEF ReadFromBuffer, sourceVars
<1>3. CASE UNCHANGED <<buffer, length, delivered>>
  BY <1>2, <1>3 DEF ExactBytes, Exact, PlucksBytes
<1>4. CASE /\ ~empty /\ ~SpansChunks(n)
           /\ buffer' = Taken(n).left /\ length' = length - n
           /\ delivered' = delivered \o Taken(n).ret
  <2>1. n \in 1 .. length /\ (objectMode => n = 1)
    <3>1. buffer # <<>> /\ length # 0 /\ ~(n <= 0)
      BY <1>4
    <3>2. n \in Int /\ n <= length /\ (objectMode => n \in {0, 1})
      BY <1>1, <3>1, SizeBounded
    <3> HIDE DEF n
    <3> QED
      BY <3>1, <3>2 DEF ExactBytes
  <2> HIDE DEF n
  <2> DEFINE ret == Taken(n).ret
             left == Taken(n).left
  <2>2. /\ ret \in Seq(Bytes) /\ left \in Seq(Seq(Bytes))
        /\ FlattenSeq(buffer) = ret \o FlattenSeq(left)
        /\ length - n = IF objectMode THEN Len(left) ELSE Len(FlattenSeq(left))
    BY <1>4, <2>1, TakenSplits
  <2> HIDE DEF ret, left
  <2>3. FlattenSeq(left) \in Seq(Bytes) /\ delivered \in Seq(Bytes)
    BY <2>2, FlattenType DEF ExactBytes
  <2>4. \A x, y, z \in Seq(Bytes) : (x \o y) \o z = x \o (y \o z)
    BY ConcatAssociative
  <2>5. (delivered \o ret) \o FlattenSeq(left) = delivered \o FlattenSeq(buffer)
    <3>1. (delivered \o ret) \o FlattenSeq(left) = delivered \o (ret \o FlattenSeq(left))
      BY <2>2, <2>3, <2>4, Zenon
    <3> QED
      BY <2>2, <3>1, Zenon
  <2>6. delivered' \o FlattenSeq(buffer') = delivered \o FlattenSeq(buffer)
    BY <1>4, <2>5, Zenon DEF ret, left
  <2>7. delivered' \in Seq(Bytes) /\ buffer' \in Seq(Seq(Bytes))
    BY <1>4, <2>2, <2>3, ConcatProperties DEF ret, left
  <2>8. length' \in Nat
    BY <1>4, <2>1 DEF ExactBytes
  <2>9. length' = IF objectMode' THEN Len(buffer') ELSE Len(FlattenSeq(buffer'))
    BY <1>2, <1>4, <2>2 DEF left
  <2>10. delivered' \o FlattenSeq(buffer') = [i \in 1 .. sourced' |-> i]
    BY <1>2, <2>6 DEF ExactBytes, Exact, PlucksBytes
  <2> QED
    BY <1>2, <2>7, <2>8, <2>9, <2>10 DEF ExactBytes, Exact, PlucksBytes
<1>5. \/ UNCHANGED bufferVars
      \/ /\ buffer' = buffer /\ UNCHANGED <<length, delivered>>
      \/ /\ ~empty /\ ~SpansChunks(n) /\ length' = length - n
         /\ \E taken \in {Taken(n)} :
               buffer' = taken.left /\ delivered' = delivered \o taken.ret
  BY DEF ReadFromBuffer
<1> QED
  BY <1>3, <1>4, <1>5 DEF bufferVars

\* Nothing is buffered when the length is 0.
LEMMA NothingLeft ==
    ASSUME ExactBytes, length = 0
    PROVE  FlattenSeq(buffer) = <<>> /\ delivered = Counted(sourced)
<1>1. FlattenSeq(buffer) \in Seq(Bytes) /\ delivered \in Seq(Bytes)
  BY FlattenType DEF ExactBytes
<1>2. FlattenSeq(buffer) = <<>>
  <2>1. CASE objectMode
    <3>1. buffer = <<>>
      BY <2>1, EmptySeq DEF ExactBytes, Exact, PlucksBytes
    <3> QED
      BY <3>1, FlattenEmpty
  <2>2. CASE ~objectMode
    BY <1>1, <2>2, EmptySeq DEF ExactBytes, Exact, PlucksBytes
  <2> QED
    BY <2>1, <2>2 DEF ExactBytes
<1>3. delivered \o <<>> = delivered
  BY <1>1, ConcatEmptySeq
<1> QED
  BY <1>2, <1>3 DEF ExactBytes, Exact, PlucksBytes, Counted

LEMMA PushChunkBytes ==
    ASSUME ExactBytes, NEW k \in Nat, sourced + k <= MaxBytes, objectMode => k = 1, NEW rest,
           PushChunk(SourceData(k), rest), UNCHANGED objectMode
    PROVE  ExactBytes'
<1> DEFINE chunk == SourceData(k)
<1>1. sourced \in Nat /\ length \in Nat /\ MaxBytes \in Nat /\ sourced' = sourced + k
      /\ chunk \in Seq(Bytes) /\ Len(chunk) = k
  <2>1. sourced \in Nat /\ length \in Nat /\ MaxBytes \in Nat /\ sourced' = sourced + Len(chunk)
    BY ReadableAssumption DEF ExactBytes, PushChunk
  <2>2. Len(chunk) = k
    BY <2>1 DEF SourceData
  <2>3. \A i \in 1 .. k : sourced + i \in Bytes
    BY <2>1 DEF Bytes
  <2>4. chunk \in Seq(Bytes)
    BY <2>3 DEF SourceData
  <2> QED
    BY <2>1, <2>2, <2>4
<1>2. Counted(sourced) \o chunk = Counted(sourced')
  BY <1>1, CountedOn DEF SourceData
<1>3. \A x, y, z \in Seq(Bytes) : (x \o y) \o z = x \o (y \o z)
  BY ConcatAssociative
<1>4. FlattenSeq(buffer) \in Seq(Bytes) /\ delivered \in Seq(Bytes)
      /\ delivered \o FlattenSeq(buffer) = Counted(sourced)
  BY FlattenType DEF ExactBytes, Exact, PlucksBytes, Counted
<1>5. CASE /\ Direct /\ delivered' = delivered \o chunk /\ UNCHANGED <<buffer, length>>
  <2>1. FlattenSeq(buffer) = <<>> /\ delivered = Counted(sourced)
    BY <1>5, NothingLeft DEF Direct
  <2>2. delivered' \in Seq(Bytes)
    BY <1>1, <1>4, <1>5, ConcatProperties
  <2>3. delivered' = Counted(sourced')
    BY <1>2, <1>5, <2>1
  <2>4. delivered' \o FlattenSeq(buffer') = Counted(sourced')
    BY <1>5, <2>1, <2>2, <2>3, ConcatEmptySeq
  <2> HIDE DEF chunk
  <2> QED
    BY <1>1, <1>5, <2>2, <2>4 DEF ExactBytes, Exact, PlucksBytes, Counted
<1>6. CASE /\ length' = length + ChunkLen(chunk)
           /\ buffer' = Append(buffer, chunk) /\ UNCHANGED delivered
  <2> HIDE DEF chunk
  <2>1. FlattenSeq(buffer') = FlattenSeq(buffer) \o chunk
    BY <1>1, <1>6, FlattenAppend DEF ExactBytes
  <2>2. delivered' \o FlattenSeq(buffer') = Counted(sourced')
    <3>1. delivered' \o FlattenSeq(buffer') = delivered \o (FlattenSeq(buffer) \o chunk)
      BY <1>6, <2>1, Zenon
    <3>2. @ = (delivered \o FlattenSeq(buffer)) \o chunk
      BY <1>1, <1>3, <1>4, Zenon
    <3>3. @ = Counted(sourced) \o chunk
      BY <1>4, Zenon
    <3> QED
      BY <1>2, <3>1, <3>2, <3>3, Zenon DEF chunk
  <2>3. buffer' \in Seq(Seq(Bytes)) /\ Len(buffer') = Len(buffer) + 1
    BY <1>1, <1>6, AppendProperties DEF ExactBytes
  <2>4. Len(FlattenSeq(buffer')) = Len(FlattenSeq(buffer)) + k
    BY <1>1, <1>4, <2>1, ConcatProperties
  <2>5. length' \in Nat
        /\ length' = IF objectMode' THEN Len(buffer') ELSE Len(FlattenSeq(buffer'))
    BY <1>1, <1>6, <2>3, <2>4 DEF ExactBytes, Exact, PlucksBytes, ChunkLen
  <2> QED
    BY <1>1, <1>4, <1>6, <2>2, <2>3, <2>5 DEF ExactBytes, Exact, PlucksBytes, Counted
<1> QED
  BY <1>5, <1>6 DEF PushChunk

LEMMA SourcePushBytes ==
    ASSUME ExactBytes, SourcePush
    PROVE  ExactBytes'
<1>1. UNCHANGED objectMode
  BY DEF SourcePush
<1>2. ASSUME NEW rest, Pushes(rest) PROVE ExactBytes'
  <2>1. CASE UNCHANGED <<bufferVars, sourced>>
    BY <1>1, <2>1 DEF ExactBytes, Exact, PlucksBytes, bufferVars
  <2>2. CASE \E k \in (IF objectMode THEN {1} ELSE ChunkSizes) :
                 sourced + k <= MaxBytes /\ PushChunk(SourceData(k), rest)
    <3>1. PICK k \in (IF objectMode THEN {1} ELSE ChunkSizes) :
                 sourced + k <= MaxBytes /\ PushChunk(SourceData(k), rest)
      BY <2>2
    <3>2. k \in Nat /\ (objectMode => k = 1)
      <4>1. ChunkSizes \subseteq Nat /\ objectMode \in BOOLEAN
        BY ReadableAssumption DEF ExactBytes
      <4>2. CASE objectMode
        BY <3>1, <4>2
      <4>3. CASE ~objectMode
        BY <3>1, <4>1, <4>3
      <4> QED
        BY <4>1, <4>2, <4>3
    <3> QED
      BY <1>1, <3>1, <3>2, PushChunkBytes
  <2> QED
    BY <1>2, <2>1, <2>2 DEF Pushes, PushNothing, PushEof, PushTooLate
<1> QED
  BY <1>2 DEF SourcePush

LEMMA UnshiftBytes ==
    ASSUME ExactBytes, Unshift
    PROVE  ExactBytes'
<1>1. UNCHANGED <<objectMode, sourced>>
  BY DEF Unshift
<1>2. CASE UNCHANGED bufferVars
  BY <1>1, <1>2 DEF ExactBytes, Exact, PlucksBytes, bufferVars
<1>3. CASE /\ delivered' = Front(delivered) /\ delivered # <<>>
           /\ buffer' = << << Last(delivered) >> >> \o buffer
           /\ length' = length + ChunkLen(<< Last(delivered) >>)
  <2> DEFINE chunk == << Last(delivered) >>
             front == Front(delivered)
  <2>1. front \in Seq(Bytes) /\ chunk \in Seq(Bytes) /\ Len(chunk) = 1
        /\ front \o chunk = delivered
    BY <1>3, EmptySeq DEF ExactBytes, Front, Last
  <2>2. FlattenSeq(buffer) \in Seq(Bytes) /\ buffer \in Seq(Seq(Bytes))
    BY FlattenType DEF ExactBytes
  <2>3. \A x, y, z \in Seq(Bytes) : (x \o y) \o z = x \o (y \o z)
    BY ConcatAssociative
  <2> HIDE DEF chunk, front
  <2>4. FlattenSeq(buffer') = chunk \o FlattenSeq(buffer)
    BY <1>3, <2>1, <2>2, FlattenCons DEF chunk
  <2>5. delivered' \o FlattenSeq(buffer') = delivered \o FlattenSeq(buffer)
    <3>1. front \o (chunk \o FlattenSeq(buffer)) = (front \o chunk) \o FlattenSeq(buffer)
      BY <2>1, <2>2, <2>3, Zenon
    <3> QED
      BY <1>3, <2>1, <2>4, <3>1 DEF front
  <2>6. buffer' \in Seq(Seq(Bytes)) /\ Len(buffer') = Len(buffer) + 1
    <3>1. <<chunk>> \in Seq(Seq(Bytes)) /\ Len(<<chunk>>) = 1
      BY <2>1
    <3> QED
      BY <1>3, <2>2, <3>1, ConcatProperties DEF chunk
  <2>7. Len(FlattenSeq(buffer')) = Len(FlattenSeq(buffer)) + 1
    <3>1. Len(chunk \o FlattenSeq(buffer)) = Len(chunk) + Len(FlattenSeq(buffer))
      BY <2>1, <2>2, ConcatProperties
    <3>2. Len(FlattenSeq(buffer)) \in Nat
      BY <2>2, LenProperties
    <3>3. Len(FlattenSeq(buffer')) = Len(chunk) + Len(FlattenSeq(buffer))
      BY <2>4, <3>1
    <3> QED
      BY <2>1, <3>2, <3>3
  <2>8. length' \in Nat
        /\ length' = IF objectMode' THEN Len(buffer') ELSE Len(FlattenSeq(buffer'))
    BY <1>1, <1>3, <2>1, <2>6, <2>7 DEF ExactBytes, Exact, PlucksBytes, ChunkLen, chunk
  <2> QED
    BY <1>1, <1>3, <2>1, <2>5, <2>6, <2>8 DEF ExactBytes, Exact, PlucksBytes, front
<1> QED
  BY <1>2, <1>3 DEF Unshift

\* A step that loses bytes keeps the types.
LEMMA ReadFromBufferTypes ==
    ASSUME BytesTyped, stack \in Seq(Frame), ReadFromBuffer
    PROVE  BytesTyped'
<1> DEFINE n == HowMuchToRead(Head(stack).arg, FALSE)
           empty == n <= 0 \/ buffer = <<>> \/ length = 0
<1>1. Head(stack) \in Frame
  BY HeadTailProperties DEF ReadFromBuffer, Running
<1>2. UNCHANGED <<sourced, objectMode>> /\ misread' \in BOOLEAN
  BY DEF ReadFromBuffer, sourceVars, BytesTyped, bufferVars
<1>3. Len(buffer) \in Nat /\ \A k \in 1 .. Len(buffer) : buffer[k] \in Seq(Bytes)
  BY LenProperties, ElementOfSeq DEF BytesTyped
<1>4. \A k, m \in Nat : k >= 1 /\ m <= Len(buffer) => SubSeq(buffer, k, m) \in Seq(Seq(Bytes))
  BY <1>3 DEF BytesTyped
<1>5. CASE UNCHANGED bufferVars
  BY <1>2, <1>5 DEF BytesTyped, bufferVars
<1>6. CASE buffer' \in LeftByError /\ UNCHANGED <<length, delivered>>
  <2>1. PICK k \in 0 .. Len(buffer) - 1 : buffer' = Beyond(k)
    BY <1>6 DEF LeftByError
  <2>2. k + 1 \in Nat /\ k + 1 >= 1
    BY <2>1
  <2>3. buffer' \in Seq(Seq(Bytes))
    BY <1>3, <1>4, <2>1, <2>2 DEF Beyond
  <2> QED
    BY <1>2, <1>6, <2>3 DEF BytesTyped
<1>7. CASE /\ ~empty /\ length' = length - n
           /\ \E taken \in (IF SpansChunks(n) THEN Miscounted(n) ELSE {Taken(n)}) :
                 buffer' = taken.left /\ delivered' = delivered \o taken.ret
  <2>1. buffer # <<>> /\ Head(buffer) \in Seq(Bytes) /\ Tail(buffer) \in Seq(Seq(Bytes))
        /\ Len(Head(buffer)) \in Nat
    BY <1>7, ConsHeadTail, LenProperties DEF BytesTyped
  <2>2. n \in Int
    BY <1>1, <2>1 DEF HowMuchToRead, SizeOfNext, BytesTyped, Frame
  <2> HIDE DEF n
  <2>3. n > 0
    BY <1>7, <2>2
  <2>4. length' \in Int
    BY <1>7, <2>2 DEF BytesTyped
  <2>5. FlattenSeq(buffer) \in Seq(Bytes)
    BY FlattenType DEF BytesTyped
  <2>6. \A c \in Seq(Bytes) : \A k, m \in Nat : k >= 1 /\ m <= Len(c) => SubSeq(c, k, m) \in Seq(Bytes)
    OBVIOUS
  <2>7. \A c \in Seq(Bytes), b \in Seq(Seq(Bytes)) : <<c>> \o b \in Seq(Seq(Bytes))
    <3> SUFFICES ASSUME NEW c \in Seq(Bytes), NEW b \in Seq(Seq(Bytes))
                 PROVE  <<c>> \o b \in Seq(Seq(Bytes))
      OBVIOUS
    <3>1. <<c>> \in Seq(Seq(Bytes))
      OBVIOUS
    <3> QED
      BY <3>1, ConcatProperties
  <2>8. CASE ~SpansChunks(n)
    <3>1. buffer' = Taken(n).left /\ delivered' = delivered \o Taken(n).ret
      BY <1>7, <2>8 DEF n
    <3>2. Taken(n).ret \in Seq(Bytes) /\ Taken(n).left \in Seq(Seq(Bytes))
      <4>1. CASE objectMode \/ (n < length /\ n = Len(Head(buffer)))
        BY <2>1, <4>1 DEF Taken
      <4>2. CASE ~(objectMode \/ (n < length /\ n = Len(Head(buffer)))) /\ n >= length
        <5>1. Taken(n).ret = FlattenSeq(buffer) /\ Taken(n).left = <<>>
          BY <4>2 DEF Taken
        <5> QED
          BY <2>5, <5>1
      <4>3. CASE ~(objectMode \/ (n < length /\ n = Len(Head(buffer)))) /\ ~(n >= length)
        <5>1. n \in Nat /\ n + 1 \in Nat /\ n <= Len(Head(buffer))
          BY <2>1, <2>2, <2>3, <2>8, <4>3 DEF SpansChunks, BytesTyped
        <5>2. SubSeq(Head(buffer), 1, n) \in Seq(Bytes)
          BY <2>1, <2>6, <5>1
        <5>3. SubSeq(Head(buffer), n + 1, Len(Head(buffer))) \in Seq(Bytes)
          BY <2>1, <2>6, <5>1
        <5>4. <<SubSeq(Head(buffer), n + 1, Len(Head(buffer)))>> \o Tail(buffer)
                 \in Seq(Seq(Bytes))
          BY <2>1, <2>7, <5>3
        <5>5. /\ Taken(n).ret = SubSeq(Head(buffer), 1, n)
              /\ Taken(n).left =
                   <<SubSeq(Head(buffer), n + 1, Len(Head(buffer)))>> \o Tail(buffer)
          BY <4>3 DEF Taken
        <5> QED
          BY <5>2, <5>4, <5>5
      <4> QED
        BY <4>1, <4>2, <4>3
    <3>3. Taken(n).ret \in Seq(Bytes) /\ Taken(n).left \in Seq(Seq(Bytes))
      BY <3>2
    <3>4. delivered' \in Seq(Bytes)
      BY <3>1, <3>3, ConcatProperties DEF BytesTyped
    <3> QED
      BY <1>2, <2>4, <3>1, <3>3, <3>4 DEF BytesTyped
  <2>9. CASE SpansChunks(n)
    <3>1. PICK k \in 1 .. Len(buffer) :
             /\ delivered' = delivered \o FlattenSeq(SubSeq(buffer, 1, k))
             /\ buffer' = IF k = Len(buffer) THEN <<>>
                    ELSE <<SubSeq(buffer[k + 1], n + 1, Len(buffer[k + 1]))>> \o Beyond(k + 1)
      <4>1. PICK taken \in Miscounted(n) :
                 buffer' = taken.left /\ delivered' = delivered \o taken.ret
        BY <1>7, <2>9
      <4>2. PICK k \in {m \in 1 .. Len(buffer) : \A i \in 1 .. m : buffer[i] # <<>>} :
               taken = [ret |-> FlattenSeq(SubSeq(buffer, 1, k)),
                        left |-> IF k = Len(buffer) THEN <<>>
                                 ELSE <<SubSeq(buffer[k + 1], n + 1, Len(buffer[k + 1]))>>
                                        \o Beyond(k + 1)]
        BY <4>1 DEF Miscounted
      <4> QED
        BY <4>1, <4>2
    <3>2. FlattenSeq(SubSeq(buffer, 1, k)) \in Seq(Bytes)
      <4>1. SubSeq(buffer, 1, k) \in Seq(Seq(Bytes))
        BY <1>3, <1>4
      <4> QED
        BY <4>1, FlattenType
    <3>3. delivered' \in Seq(Bytes)
      BY <3>1, <3>2, ConcatProperties DEF BytesTyped
    <3>4. buffer' \in Seq(Seq(Bytes))
      <4>1. CASE k = Len(buffer)
        BY <3>1, <4>1
      <4>2. CASE k # Len(buffer)
        <5>1. k + 1 \in 1 .. Len(buffer) /\ k + 1 + 1 \in Nat /\ n + 1 \in Nat /\ n + 1 >= 1
          BY <1>3, <2>2, <2>3, <4>2
        <5>2. buffer[k + 1] \in Seq(Bytes) /\ Len(buffer[k + 1]) \in Nat
          BY <1>3, <5>1, LenProperties
        <5>3. SubSeq(buffer[k + 1], n + 1, Len(buffer[k + 1])) \in Seq(Bytes)
          BY <2>6, <5>1, <5>2
        <5>4. Beyond(k + 1) \in Seq(Seq(Bytes))
          BY <1>3, <1>4, <5>1 DEF Beyond
        <5> QED
          BY <2>7, <3>1, <4>2, <5>3, <5>4
      <4> QED
        BY <4>1, <4>2
    <3> QED
      BY <1>2, <2>4, <3>3, <3>4 DEF BytesTyped
  <2> QED
    BY <2>8, <2>9
<1> QED
  BY <1>5, <1>6, <1>7 DEF ReadFromBuffer, bufferVars

LEMMA SourcePushTypes ==
    ASSUME BytesTyped, SourcePush
    PROVE  BytesTyped' /\ UNCHANGED misread
<1>1. UNCHANGED objectMode
  BY DEF SourcePush
<1>2. ASSUME NEW rest, Pushes(rest) PROVE BytesTyped' /\ UNCHANGED misread
  <2>1. CASE UNCHANGED <<bufferVars, sourced>>
    BY <1>1, <2>1 DEF BytesTyped, bufferVars
  <2>2. CASE \E k \in (IF objectMode THEN {1} ELSE ChunkSizes) :
                 sourced + k <= MaxBytes /\ PushChunk(SourceData(k), rest)
    <3>1. PICK k \in (IF objectMode THEN {1} ELSE ChunkSizes) :
                 sourced + k <= MaxBytes /\ PushChunk(SourceData(k), rest)
      BY <2>2
    <3>2. k \in Nat /\ sourced \in Nat /\ MaxBytes \in Nat
      BY ReadableAssumption DEF BytesTyped
    <3> DEFINE c == SourceData(k)
    <3>3. c \in Seq(Bytes) /\ Len(c) = k
      <4>1. \A i \in 1 .. k : sourced + i \in Bytes
        BY <3>1, <3>2 DEF Bytes
      <4> QED
        BY <3>2, <4>1 DEF SourceData
    <3> HIDE DEF c
    <3>4. sourced' = sourced + k /\ UNCHANGED misread
      BY <3>1, <3>3 DEF PushChunk, c
    <3>5. \/ delivered' = delivered \o c /\ UNCHANGED <<buffer, length>>
          \/ /\ length' = length + ChunkLen(c) /\ buffer' = Append(buffer, c)
             /\ delivered' = delivered
      BY <3>1 DEF PushChunk, c
    <3>6. delivered \o c \in Seq(Bytes) /\ Append(buffer, c) \in Seq(Seq(Bytes))
      BY <3>3, ConcatProperties, AppendProperties DEF BytesTyped
    <3>7. length + ChunkLen(c) \in Int
      BY <3>2, <3>3 DEF ChunkLen, BytesTyped
    <3>8. sourced' \in 0 .. MaxBytes
      BY <3>1, <3>2, <3>4
    <3> QED
      BY <1>1, <3>4, <3>5, <3>6, <3>7, <3>8 DEF BytesTyped
  <2> QED
    BY <1>2, <2>1, <2>2 DEF Pushes, PushNothing, PushEof, PushTooLate, bufferVars
<1> QED
  BY <1>2 DEF SourcePush

LEMMA UnshiftTypes ==
    ASSUME BytesTyped, Unshift
    PROVE  BytesTyped' /\ UNCHANGED misread
<1>1. UNCHANGED <<objectMode, sourced, misread>>
  BY DEF Unshift, bufferVars
<1>2. CASE UNCHANGED bufferVars
  BY <1>1, <1>2 DEF BytesTyped, bufferVars
<1>3. CASE /\ delivered' = Front(delivered) /\ delivered # <<>>
           /\ buffer' = << << Last(delivered) >> >> \o buffer
           /\ length' = length + ChunkLen(<< Last(delivered) >>)
  <2> DEFINE c == << Last(delivered) >>
  <2>1. Front(delivered) \in Seq(Bytes) /\ c \in Seq(Bytes) /\ Len(c) = 1
    BY <1>3, EmptySeq DEF BytesTyped, Front, Last
  <2> HIDE DEF c
  <2>2. buffer' \in Seq(Seq(Bytes))
    <3>1. <<c>> \in Seq(Seq(Bytes))
      BY <2>1
    <3> QED
      BY <1>3, <3>1, ConcatProperties DEF BytesTyped, c
  <2>3. length' \in Int
    BY <1>3, <2>1 DEF ChunkLen, BytesTyped, c
  <2> QED
    BY <1>1, <1>3, <2>1, <2>2, <2>3 DEF BytesTyped
<1> QED
  BY <1>2, <1>3 DEF Unshift

BytesOK == BytesTyped /\ (misread \/ ExactBytes)

LEMMA NextBytes ==
    ASSUME BytesOK, stack \in Seq(Frame), [Next]_vars
    PROVE  BytesOK'
<1>1. ASSUME UNCHANGED <<bufferVars, sourced, objectMode>> PROVE BytesOK'
  BY <1>1 DEF BytesOK, BytesTyped, ExactBytes, Exact, PlucksBytes, bufferVars
<1>2. CASE StreamStep /\ ~ReadFromBuffer
  BY <1>1, <1>2 DEF StreamStep, Read, Flow, EmitReadable, ReadableTick, EmitEnd, EndTick,
     MaybeReadMore, MoreLoop, ResumeTick, Resumed, ResumeRead, ReadReturns, sourceVars
<1>3. CASE UserCall /\ ~Unshift
  BY <1>1, <1>3 DEF UserCall, UserRead, Pause, Resume, OnReadable, sourceVars
<1>4. CASE Return \/ RunImmediate \/ UNCHANGED vars
  BY <1>1, <1>4 DEF Return, RunImmediate, vars, sourceVars
<1>5. CASE ReadFromBuffer
  <2>1. BytesTyped'
    BY <1>5, ReadFromBufferTypes DEF BytesOK
  <2>2. misread => misread'
    BY <1>5 DEF ReadFromBuffer, bufferVars
  <2>3. ~misread' => ExactBytes'
    BY <1>5, <2>2, ReadFromBufferBytes DEF BytesOK
  <2> QED
    BY <2>1, <2>3 DEF BytesOK
<1>6. CASE SourcePush \/ Unshift
  <2>1. BytesTyped' /\ UNCHANGED misread
    BY <1>6, SourcePushTypes, UnshiftTypes DEF BytesOK
  <2>2. ~misread => ExactBytes'
    BY <1>6, SourcePushBytes, UnshiftBytes DEF BytesOK
  <2> QED
    BY <2>1, <2>2 DEF BytesOK
<1> QED
  BY <1>2, <1>3, <1>4, <1>5, <1>6 DEF Next, StreamStep, UserCall

LEMMA RoundUpType ==
    ASSUME NEW n \in Int, n > 0
    PROVE  RoundUp(n) \in Nat
<1>1. CASE n >= MaxMark
  BY <1>1 DEF RoundUp, MaxMark
<1>2. CASE n < MaxMark
  <2>1. \E p \in PowersOf2 : n <= p /\ (p = 1 \/ p < 2 * n)
    BY <1>2, SMTT(60) DEF PowersOf2, MaxMark
  <2>2. RoundUp(n) \in PowersOf2
    BY <1>2, <2>1 DEF RoundUp, MaxMark
  <2> QED
    BY <2>2 DEF PowersOf2, MaxMark
<1> QED
  BY <1>1, <1>2 DEF MaxMark

LEMMA MarkForType ==
    ASSUME highWaterMark \in Nat, NEW n \in Int
    PROVE  MarkFor(n) \in Nat
BY RoundUpType DEF MarkFor

-----------------------------------------------------------------------------
(* The invariant is inductive. *)

LEMMA InitOK == Init => IInv
<1> SUFFICES ASSUME Init PROVE IInv
  OBVIOUS
<1>1. TypeOK
  <2>1. buffer \in Seq(Seq(1 .. MaxBytes)) /\ delivered \in Seq(1 .. MaxBytes)
        /\ stack \in Seq(Frame) /\ immediates \in Seq(Frame)
    BY DEF Init
  <2>2. 0 \in 0 .. MaxBytes /\ 0 \in 0 .. MaxUnshifts /\ InitialMark \in Nat
        /\ objectMode \in BOOLEAN
    BY ReadableAssumption DEF Init
  <2> QED
    <3>1. /\ readableEnded \in BOOLEAN /\ endEmitted \in BOOLEAN /\ reading \in BOOLEAN
          /\ sync \in BOOLEAN /\ needReadable \in BOOLEAN /\ emittedReadable \in BOOLEAN
          /\ readableListening \in BOOLEAN /\ readingMore \in BOOLEAN
          /\ resumeScheduled \in BOOLEAN /\ io \in BOOLEAN /\ eof \in BOOLEAN
          /\ thrown \in BOOLEAN /\ misread \in BOOLEAN
          /\ flowing \in {"unset", "on", "off"}
      BY DEF Init
    <3>2. /\ highWaterMark \in Nat /\ length \in Int /\ length >= 0 /\ sourced \in 0 .. MaxBytes
          /\ unshifts \in 0 .. MaxUnshifts /\ ends \in 0 .. 1
      BY <2>2 DEF Init
    <3> QED
      BY <2>1, <2>2, <3>1, <3>2 DEF TypeOK
<1>2. InOrder
  <2>1. FlattenSeq(buffer) = <<>> /\ delivered = <<>> /\ sourced = 0
    BY FlattenEmpty DEF Init
  <2>2. delivered \o FlattenSeq(buffer) = [i \in 1 .. sourced |-> i]
    BY <2>1
  <2>3. length = 0 /\ Len(buffer) = 0 /\ Len(FlattenSeq(buffer)) = 0
    BY <2>1 DEF Init
  <2> QED
    BY <2>2, <2>3 DEF InOrder, PlucksBytes
<1>3. EndsLast
  BY EmptySeq DEF Init, EndsLast
<1> QED
  BY <1>1, <1>2, <1>3 DEF IInv

Flags ==
    /\ readableEnded \in BOOLEAN /\ endEmitted \in BOOLEAN /\ reading \in BOOLEAN
    /\ sync \in BOOLEAN /\ needReadable \in BOOLEAN /\ emittedReadable \in BOOLEAN
    /\ readableListening \in BOOLEAN /\ readingMore \in BOOLEAN
    /\ resumeScheduled \in BOOLEAN /\ io \in BOOLEAN /\ eof \in BOOLEAN
    /\ thrown \in BOOLEAN /\ flowing \in {"unset", "on", "off"}
    /\ unshifts \in 0 .. MaxUnshifts

LEMMA FlagsKept ==
    ASSUME Flags, [Next]_vars
    PROVE  Flags'
<1>1. CASE StreamStep
  <2>1. CASE Read
    <3>1. emittedReadable' \in BOOLEAN
      BY <2>1 DEF Read
    <3>2. reading' \in BOOLEAN /\ sync' \in BOOLEAN
      BY <2>1 DEF Read, Flags
    <3> QED
      <4>1. UNCHANGED <<readableEnded, endEmitted, needReadable, readableListening,
                     readingMore, resumeScheduled, io, eof, thrown, flowing,
                     unshifts>>
        BY <2>1 DEF Read, bufferVars, flagVars, endVars, sourceVars
      <4> QED
        BY <4>1, <3>1, <3>2 DEF Flags
  <2>2. CASE ReadFromBuffer
    <3>1. needReadable' \in BOOLEAN
      BY <2>2 DEF ReadFromBuffer, Flags
    <3>2. thrown' \in BOOLEAN
      BY <2>2 DEF ReadFromBuffer, Flags
    <3> QED
      <4>1. UNCHANGED <<readableEnded, endEmitted, reading, sync, emittedReadable,
                     readableListening, readingMore, resumeScheduled, io, eof,
                     flowing, unshifts>>
        BY <2>2 DEF ReadFromBuffer, bufferVars, flagVars, endVars, sourceVars
      <4> QED
        BY <4>1, <3>1, <3>2 DEF Flags
  <2>3. CASE Flow
    BY <2>3 DEF Flow, Flags, bufferVars, flagVars, endVars, sourceVars
  <2>4. CASE EmitReadable
    <3>1. needReadable' \in BOOLEAN /\ emittedReadable' \in BOOLEAN
      BY <2>4 DEF EmitReadable, Flags
    <3>2. UNCHANGED <<readableEnded, endEmitted, reading, sync, readableListening,
                     readingMore, resumeScheduled, io, eof, thrown, flowing, unshifts>>
      BY <2>4 DEF EmitReadable, bufferVars, flagVars, endVars, sourceVars
    <3> QED
      BY <3>1, <3>2 DEF Flags
  <2>5. CASE ReadableTick
    BY <2>5 DEF ReadableTick, Flags, bufferVars, flagVars, endVars, sourceVars
  <2>6. CASE EmitEnd
    BY <2>6 DEF EmitEnd, Flags, bufferVars, flagVars, endVars, sourceVars
  <2>7. CASE EndTick
    <3>1. endEmitted' \in BOOLEAN
      BY <2>7 DEF EndTick, Flags
    <3> QED
      <4>1. UNCHANGED <<readableEnded, reading, sync, needReadable, emittedReadable,
                     readableListening, readingMore, resumeScheduled, io, eof,
                     thrown, flowing, unshifts>>
        BY <2>7 DEF EndTick, bufferVars, flagVars, endVars, sourceVars
      <4> QED
        BY <4>1, <3>1 DEF Flags
  <2>8. CASE MaybeReadMore
    BY <2>8 DEF MaybeReadMore, Flags, bufferVars, flagVars, endVars, sourceVars
  <2>9. CASE MoreLoop
    <3>1. readingMore' \in BOOLEAN
      BY <2>9 DEF MoreLoop, Flags
    <3> QED
      <4>1. UNCHANGED <<readableEnded, endEmitted, reading, sync, needReadable,
                     emittedReadable, readableListening, resumeScheduled, io,
                     eof, thrown, flowing, unshifts>>
        BY <2>9 DEF MoreLoop, bufferVars, flagVars, endVars, sourceVars
      <4> QED
        BY <4>1, <3>1 DEF Flags
  <2>10. CASE ResumeTick
    BY <2>10 DEF ResumeTick, Flags, bufferVars, flagVars, endVars, sourceVars
  <2>11. CASE Resumed
    BY <2>11, ZenonT(30) DEF Resumed, Flags, bufferVars, flagVars, endVars, sourceVars
  <2>12. CASE ResumeRead
    BY <2>12 DEF ResumeRead, Flags, bufferVars, flagVars, endVars, sourceVars
  <2>13. CASE ReadReturns
    BY <2>13 DEF ReadReturns, Flags, bufferVars, flagVars, endVars, sourceVars
  <2> QED
    BY <1>1, <2>1, <2>2, <2>3, <2>4, <2>5, <2>6, <2>7,
       <2>8, <2>9, <2>10, <2>11, <2>12, <2>13 DEF StreamStep
<1>2. CASE UserCall
  <2>1. CASE UserRead
    BY <2>1, ReadableAssumption DEF UserRead, Flags, bufferVars, flagVars, endVars,
       sourceVars
  <2>2. CASE Unshift
    BY <2>2, ReadableAssumption DEF Unshift, Flags, bufferVars, flagVars, endVars,
       sourceVars
  <2>3. CASE Pause
    BY <2>3, ReadableAssumption DEF Pause, Flags, bufferVars, flagVars, endVars,
       sourceVars
  <2>4. CASE Resume
    BY <2>4, ReadableAssumption DEF Resume, Flags, bufferVars, flagVars, endVars,
       sourceVars
  <2>5. CASE OnReadable
    BY <2>5, ReadableAssumption DEF OnReadable, Flags, bufferVars, flagVars, endVars,
       sourceVars
  <2> QED
    BY <1>2, <2>1, <2>2, <2>3, <2>4, <2>5 DEF UserCall
<1>3. CASE SourcePush
  <2>1. ASSUME NEW rest, Pushes(rest)
        PROVE  readableEnded' \in BOOLEAN /\ reading' \in BOOLEAN /\ eof' \in BOOLEAN
    BY <2>1 DEF Flags, Pushes, PushNothing, PushChunk, PushEof, PushTooLate
  <2>2. readableEnded' \in BOOLEAN /\ reading' \in BOOLEAN /\ eof' \in BOOLEAN
    BY <1>3, <2>1 DEF SourcePush
  <2>3. io' \in BOOLEAN
    BY <1>3 DEF SourcePush, Flags
  <2> QED
    BY <1>3, <2>2, <2>3 DEF SourcePush, Flags, flagVars
<1>4. CASE Return \/ RunImmediate \/ UNCHANGED vars
  BY <1>4 DEF Flags, Return, RunImmediate, vars, bufferVars, flagVars, endVars, sourceVars
<1> QED
  BY <1>1, <1>2, <1>3, <1>4 DEF Next

LEMMA MarkKept ==
    ASSUME highWaterMark \in Nat, stack \in Seq(Frame), [Next]_vars
    PROVE  highWaterMark' \in Nat
<1>1. stack # <<>> => Head(stack).arg \in Int
  <2>1. stack # <<>> => Head(stack) \in Frame
    BY HeadTailProperties
  <2> QED
    BY <2>1 DEF Frame
<1>2. stack # <<>> => MarkFor(Head(stack).arg) \in Nat
  BY <1>1, MarkForType
<1>3. CASE Read
  BY <1>2, <1>3 DEF Read, Running, MarkAfterNeedRead
<1>4. CASE ReadFromBuffer
  BY <1>2, <1>4 DEF ReadFromBuffer, Running
<1>5. CASE UNCHANGED highWaterMark
  BY <1>5
<1> QED
  BY <1>3, <1>4, <1>5 DEF Next, UserCall, StreamStep, Flow, EmitReadable, ReadableTick,
     EmitEnd, EndTick, MaybeReadMore, MoreLoop, ResumeTick, Resumed, ResumeRead,
     ReadReturns, UserRead, Unshift, Pause, Resume, OnReadable, Return, SourcePush,
     RunImmediate, vars

\* The frames that wait under the one that runs are of any set that has the whole stack.
LEMMA RestIn ==
    ASSUME NEW S, stack \in Seq(S)
    PROVE  stack # <<>> => Rest \in Seq(S) /\ Head(stack) \in S
<1>1. stack # <<>> => Rest \in Seq(S)
  BY ConsHeadTail DEF Rest
<1>2. stack # <<>> => Head(stack) \in S
  BY HeadTailProperties
<1> QED
  BY <1>1, <1>2

LEMMA ClosedSets ==
    /\ Closed(Frame)
    /\ ~readableEnded => Closed(NoEnd)
<1>1. \A op \in EndOps : FrameOf(op) \in Frame
  BY FrameTypes
<1>2. \A f \in Frame : [f EXCEPT !.arg = @ + 1] \in Frame
  BY DEF Frame
<1>3. \A f \in NoEnd : [f EXCEPT !.arg = @ + 1] \in NoEnd
  BY DEF Frame, NoEnd
<1>4. Plain \subseteq NoEnd /\ NoEnd \subseteq Frame
  BY DEF Plain, NoEnd
<1> QED
  BY <1>1, <1>2, <1>3, <1>4 DEF Closed, EndOps

\* One step, for any closed set.
LEMMA NextKeeps ==
    ASSUME NEW S, Closed(S), Asking \in S, stack \in Seq(S), immediates \in Seq(S),
           stack # <<>> /\ Head(stack).op = "emitEnd" => readableEnded,
           length \in Int, [Next]_vars
    PROVE  Keeps(S)
<1>1. stack \in Seq(Frame)
  BY SeqMonotonic DEF Closed
<1>2. stack # <<>> => Rest \in Seq(S) /\ Head(stack) \in S
  BY RestIn
<1>3. CASE StreamStep /\ ~Read
  BY <1>1, <1>2, <1>3, StepKeeps
<1>4. CASE Read
  <2>1. /\ immediates' \in Seq(S)
        /\ \/ stack' \in Seq(S)
           \/ \E under \in Seq(S) : stack' = Push(Asking, under)
    BY <1>1, <1>2, <1>4, ReadKeeps
  <2> QED
    BY <2>1, PushIn DEF Keeps
<1>5. CASE UserCall
  BY <1>1, <1>2, <1>5, UserKeeps
<1>6. CASE SourcePush
  BY <1>1, <1>2, <1>6, SourceKeeps DEF Running
<1>7. CASE Return \/ RunImmediate
  BY <1>1, <1>2, <1>7, LoopKeeps
<1>8. CASE UNCHANGED vars
  BY <1>8 DEF vars, Keeps
<1> QED
  BY <1>3, <1>4, <1>5, <1>6, <1>7, <1>8 DEF Next

LEMMA EndsKept ==
    ASSUME IInv, [Next]_vars
    PROVE  /\ ends' = IF endEmitted' THEN 1 ELSE 0
           /\ readableEnded' => eof'
           /\ readableEnded => readableEnded'
<1>1. Running("emitEnd") => readableEnded
  <2>1. stack # <<>> /\ ~readableEnded => Head(stack) \in NoEnd
    BY RestIn DEF IInv, EndsLast
  <2> QED
    BY <2>1 DEF NoEnd, EndOps, Running
<1>2. (readableEnded => eof) /\ ends = IF endEmitted THEN 1 ELSE 0
  BY DEF IInv, EndsLast
<1>3. CASE EmitEnd
  BY <1>1, <1>2, <1>3 DEF EmitEnd, sourceVars
<1>4. CASE EndTick
  BY <1>2, <1>4 DEF EndTick, EndDue, sourceVars
<1>5. CASE SourcePush
  <2>1. ASSUME NEW rest, Pushes(rest)
        PROVE  (readableEnded' => eof') /\ (readableEnded => readableEnded')
    BY <1>2, <2>1 DEF Pushes, PushNothing, PushChunk, PushEof, PushTooLate
  <2>2. (readableEnded' => eof') /\ (readableEnded => readableEnded')
    BY <1>5, <2>1 DEF SourcePush
  <2> QED
    BY <1>2, <1>5, <2>2 DEF SourcePush
<1>6. CASE UNCHANGED <<readableEnded, endEmitted, ends, eof>>
  BY <1>2, <1>6
<1>7. StreamStep /\ ~EmitEnd /\ ~EndTick => UNCHANGED <<readableEnded, endEmitted, ends, eof>>
  BY DEF StreamStep, Read, ReadFromBuffer, Flow, EmitReadable, ReadableTick, MaybeReadMore,
     MoreLoop, ResumeTick, Resumed, ResumeRead, ReadReturns, endVars, sourceVars
<1>8. UserCall \/ Return \/ RunImmediate \/ UNCHANGED vars
        => UNCHANGED <<readableEnded, endEmitted, ends, eof>>
  BY DEF UserCall, UserRead, Unshift, Pause, Resume, OnReadable, Return, RunImmediate,
     vars, endVars, sourceVars
<1> QED
  BY <1>3, <1>4, <1>5, <1>6, <1>7, <1>8 DEF Next

LEMMA StepOK == IInv /\ [Next]_vars => IInv'
<1> SUFFICES ASSUME IInv, [Next]_vars PROVE IInv'
  OBVIOUS
<1>1. /\ stack \in Seq(Frame) /\ immediates \in Seq(Frame) /\ length \in Int
      /\ readableEnded \in BOOLEAN
  BY DEF IInv, TypeOK
<1>2. BytesOK /\ Flags /\ highWaterMark \in Nat
  BY DEF IInv, TypeOK, InOrder, BytesOK, BytesTyped, ExactBytes, Exact, Flags, Bytes
<1>3. BytesOK' /\ Flags' /\ highWaterMark' \in Nat
  BY <1>1, <1>2, NextBytes, FlagsKept, MarkKept
<1>4. /\ ends' = IF endEmitted' THEN 1 ELSE 0
      /\ readableEnded' => eof'
      /\ readableEnded => readableEnded'
  BY EndsKept
<1>5. Keeps(Frame)
  <2>1. stack # <<>> /\ Head(stack).op = "emitEnd" => readableEnded
    <3>1. stack # <<>> /\ ~readableEnded => Head(stack) \in NoEnd
      BY RestIn DEF IInv, EndsLast
    <3> QED
      BY <3>1 DEF NoEnd, EndOps
  <2> QED
    BY <1>1, <2>1, ClosedSets, FrameTypes, NextKeeps
<1>6. ~readableEnded' => Keeps(NoEnd)
  <2> SUFFICES ASSUME ~readableEnded PROVE Keeps(NoEnd)
    BY <1>4
  <2>1. stack \in Seq(NoEnd) /\ immediates \in Seq(NoEnd)
    BY DEF IInv, EndsLast
  <2>2. stack # <<>> => Head(stack).op # "emitEnd"
    BY <2>1, RestIn DEF NoEnd, EndOps
  <2> QED
    BY <1>1, <2>1, <2>2, ClosedSets, FrameTypes, NextKeeps
<1>7. EndsLast'
  BY <1>4, <1>6 DEF EndsLast, Keeps
<1>8. TypeOK'
  <2>1. ends' \in 0 .. 1
    BY <1>4
  <2> QED
    BY <1>3, <1>5, <2>1
       DEF TypeOK, BytesOK, BytesTyped, ExactBytes, Flags, Bytes, Keeps
<1> QED
  BY <1>3, <1>7, <1>8 DEF IInv, InOrder, BytesOK, ExactBytes, Exact

-----------------------------------------------------------------------------
(* The results. *)

\* However user code and the source call the stream (readable.lua: read, push, unshift,
\* pause, resume and the deferred steps), its state and the code it has to run keep
\* their types, its length is that of its buffer, and the end is announced after the
\* source has ended.
THEOREM ReadableInvariance == Spec => []IInv
<1> QED
  BY InitOK, StepOK, PTL DEF Spec

\* Type correctness of ReadableState and of the functions given to nextTick.
THEOREM ReadableTyped == Spec => []TypeOK
<1>1. IInv => TypeOK
  BY DEF IInv
<1> QED
  BY <1>1, ReadableInvariance, PTL

\* For a source of any size, chunks and reads of any sizes and a consumer that calls
\* read, unshift, pause, resume and on from anywhere: what was delivered, followed by
\* what is buffered, is what the source pushed, also after a read(n) over several chunks
\* that raised at the first of them; it is no more after one that took a chunk for a
\* number (readable.lua:196), and nothing else loses a byte.
THEOREM ReadsInOrder == Spec => []InOrder
<1>1. IInv => InOrder
  BY DEF IInv
<1> QED
  BY <1>1, ReadableInvariance, PTL

LEMMA EndStep ==
    ASSUME IInv, [Next]_vars, ends' # ends
    PROVE  ends = 0 /\ eof /\ (misread \/ Len(delivered) = sourced)
<1>1. EndTick /\ EndDue
  <2>1. ~(UNCHANGED endVars) /\ ~(UNCHANGED ends)
    BY DEF endVars
  <2> QED
    BY <2>1 DEF Next, UserCall, StreamStep, Read, ReadFromBuffer, Flow, EmitReadable,
       ReadableTick, EmitEnd, EndTick, MaybeReadMore, MoreLoop, ResumeTick, Resumed,
       ResumeRead, ReadReturns, UserRead, Unshift, Pause, Resume, OnReadable, Return,
       SourcePush, RunImmediate, vars
<1>2. ends = 0 /\ length = 0
  BY <1>1 DEF EndDue, IInv, EndsLast
<1>3. eof
  <2>1. stack # <<>> /\ Head(stack).op = "endTick"
    BY <1>1 DEF EndTick, Running
  <2>2. readableEnded
    BY <2>1, RestIn DEF IInv, EndsLast, NoEnd, EndOps
  <2> QED
    BY <2>2 DEF IInv, EndsLast
<1>4. ASSUME ~misread PROVE Len(delivered) = sourced
  <2>1. ExactBytes
    BY <1>2, <1>4 DEF IInv, TypeOK, InOrder, ExactBytes, Exact, Bytes
  <2>2. delivered = Counted(sourced) /\ sourced \in Nat
    BY <1>2, <2>1, ReadableAssumption, NothingLeft DEF ExactBytes
  <2> QED
    BY <2>2 DEF Counted
<1> QED
  BY <1>2, <1>3, <1>4

\* 'end' comes once, after the end of the source and after the last byte (that no read
\* has lost), although it is decided on one tick and emitted on a later one
\* (_readableEmitEnd).
THEOREM EndsAfterData == Spec => EndAfterData
<1>1. IInv /\ [Next]_vars => [ends' # ends => ends = 0 /\ eof /\ (misread \/ Len(delivered) = sourced)]_vars
  BY EndStep
<1> QED
  BY <1>1, ReadableInvariance, PTL DEF Spec, EndAfterData

-----------------------------------------------------------------------------
(* A source that is asked answers once, in its _read or later.             *)

OneAnswerEach == PushesUnasked = FALSE /\ MaxPushes <= 1

LEMMA SettledClosed == Closed(Settled) /\ Asking \notin Settled
<1>1. /\ \A op \in EndOps : FrameOf(op) \in Settled
      /\ \A f \in Settled : f.op = "source" => [f EXCEPT !.arg = @ + 1] \in Settled
  BY FrameTypes DEF Settled, Frame, EndOps, FrameOf
<1>2. Plain \subseteq Settled /\ Settled \subseteq Frame
  BY DEF Plain, Settled
<1>3. Asking \notin Settled
  BY DEF Asking, FrameOf, Settled
<1> QED
  BY <1>1, <1>2, <1>3 DEF Closed, EndOps

\* While a _read runs that has not pushed, it is the only one that acts.
LEMMA AskingStep ==
    ASSUME OneAnswerEach, IInv, Owed, [Next]_vars, stack # <<>>, Head(stack) = Asking
    PROVE  Owed' /\ (stack' \in Seq(Settled) \/ UNCHANGED stack)
<1>1. Rest \in Seq(Settled) /\ reading /\ ~io /\ immediates \in Seq(Settled)
  <2>1. stack \notin Seq(Settled)
    BY RestIn, SettledClosed
  <2> QED
    BY <2>1 DEF Owed
<1>2. Head(stack).op = "source" /\ Head(stack).arg = 0
  BY DEF Asking, FrameOf
<1>3. CASE ReadReturns
  BY <1>1, <1>2, <1>3 DEF ReadReturns, Owed
<1>4. CASE SourcePush
  <2>1. Keeps(Settled)
    BY <1>1, <1>4, SettledClosed, SourceKeeps DEF IInv, TypeOK
  <2>2. ~io'
    BY <1>1, <1>2, <1>4 DEF SourcePush, MayCall, Running, OneAnswerEach
  <2> QED
    BY <2>1, <2>2 DEF Keeps, Owed
<1>5. CASE UNCHANGED vars
  BY <1>5 DEF vars, sourceVars, Owed, Rest
<1>6. ~UserCall /\ ~Return /\ ~RunImmediate
  BY <1>2 DEF UserCall, UserRead, Unshift, Pause, Resume, OnReadable, MayCall, Running,
     Return, RunImmediate
<1>7. StreamStep => ReadReturns
  BY <1>2 DEF StreamStep, Read, ReadFromBuffer, Flow, EmitReadable, ReadableTick, EmitEnd,
     EndTick, MaybeReadMore, MoreLoop, ResumeTick, Resumed, ResumeRead, Running
<1> QED
  BY <1>3, <1>4, <1>5, <1>6, <1>7 DEF Next

LEMMA OwedStep ==
    ASSUME OneAnswerEach, IInv, Owed, [Next]_vars
    PROVE  /\ Owed'
           /\ stack' \in Seq(Settled) \/ UNCHANGED stack \/ (~io /\ ~readableEnded)
<1>1. CASE stack # <<>> /\ Head(stack) = Asking
  BY <1>1, AskingStep
<1>2. CASE ~(stack # <<>> /\ Head(stack) = Asking)
  <2>1. stack \in Seq(Settled) /\ immediates \in Seq(Settled) /\ (io => reading)
    BY <1>2 DEF Owed
  <2>2. stack # <<>> => Rest \in Seq(Settled) /\ Head(stack) \in Settled
    BY <2>1, RestIn
  <2>3. stack \in Seq(Frame) /\ length \in Int
        /\ (stack # <<>> /\ Head(stack).op = "emitEnd" => readableEnded)
    <3>1. stack # <<>> /\ ~readableEnded => Head(stack) \in NoEnd
      BY RestIn DEF IInv, EndsLast
    <3> QED
      BY <3>1 DEF IInv, TypeOK, NoEnd, EndOps
  <2>4. CASE Read
    <3>1. io' = io /\ (reading => reading')
      BY <2>4 DEF Read, sourceVars
    <3>2. /\ immediates' \in Seq(Settled)
          /\ \/ stack' \in Seq(Settled)
             \/ /\ ~readableEnded /\ ~reading /\ reading'
                /\ \E under \in Seq(Settled) : stack' = Push(Asking, under)
                /\ UNCHANGED <<readableEnded, io>>
      BY <2>1, <2>2, <2>3, <2>4, SettledClosed, ReadKeeps
    <3>3. CASE stack' \in Seq(Settled)
      BY <2>1, <3>1, <3>2, <3>3 DEF Owed
    <3>4. CASE stack' \notin Seq(Settled)
      <4>1. PICK under \in Seq(Settled) : stack' = Push(Asking, under)
        BY <3>2, <3>4
      <4>2. under \in Seq(Frame)
        BY <4>1, SettledClosed, SeqMonotonic DEF Closed
      <4>3. stack' # <<>> /\ Head(stack') = Asking /\ Tail(stack') = under
        BY <4>1, <4>2, FrameTypes, PushIn
      <4>4. ~readableEnded /\ ~io /\ ~io' /\ reading'
        BY <2>1, <3>2, <3>4
      <4> QED
        BY <3>2, <4>1, <4>3, <4>4 DEF Owed, Rest
    <3> QED
      BY <3>3, <3>4
  <2>5. CASE StreamStep /\ ~Read
    <3>1. Keeps(Settled)
      BY <2>1, <2>2, <2>3, <2>5, SettledClosed, StepKeeps
    <3>2. CASE ReadReturns
      <4>1. Head(stack).arg # 0
        BY <2>2, <3>2 DEF ReadReturns, Running, Settled
      <4> QED
        BY <2>1, <3>1, <3>2, <4>1 DEF ReadReturns, Keeps, Owed
    <3>3. CASE ~ReadReturns
      <4>1. UNCHANGED <<io, reading>>
        BY <2>5, <3>3 DEF StreamStep, ReadFromBuffer, Flow, EmitReadable, ReadableTick,
           EmitEnd, EndTick, MaybeReadMore, MoreLoop, ResumeTick, Resumed, ResumeRead,
           sourceVars
      <4> QED
        BY <2>1, <3>1, <4>1 DEF Keeps, Owed
    <3> QED
      BY <3>2, <3>3
  <2>6. CASE UserCall
    <3>1. Keeps(Settled)
      BY <2>1, <2>2, <2>3, <2>6, SettledClosed, UserKeeps
    <3>2. UNCHANGED <<io, reading>>
      BY <2>6 DEF UserCall, UserRead, Unshift, Pause, Resume, OnReadable, sourceVars
    <3> QED
      BY <2>1, <3>1, <3>2 DEF Keeps, Owed
  <2>7. CASE SourcePush
    <3>1. Keeps(Settled)
      BY <2>1, <2>2, <2>3, <2>7, SettledClosed, SourceKeeps DEF Running
    <3>2. ~(Running("source") /\ Head(stack).arg < MaxPushes)
      BY <2>2, ReadableAssumption DEF Running, Settled, Frame, OneAnswerEach
    <3>3. ~io'
      BY <2>7, <3>2 DEF SourcePush, OneAnswerEach
    <3> QED
      BY <3>1, <3>3 DEF Keeps, Owed
  <2>8. CASE Return \/ RunImmediate
    <3>1. Keeps(Settled)
      BY <2>1, <2>2, <2>3, <2>8, LoopKeeps
    <3>2. UNCHANGED <<io, reading>>
      BY <2>8 DEF Return, RunImmediate, sourceVars
    <3> QED
      BY <2>1, <3>1, <3>2 DEF Keeps, Owed
  <2>9. CASE UNCHANGED vars
    BY <2>1, <2>9 DEF vars, sourceVars, Owed
  <2> QED
    BY <2>4, <2>5, <2>6, <2>7, <2>8, <2>9 DEF Next
<1> QED
  BY <1>1, <1>2

\* For sources that push only when they are asked, and once: however many callers of
\* read(0) there are (resume, the readable listener, the read-more tick, push), _read is
\* not called while it owes an answer, nor after the end of the source.
THEOREM AsksOnce ==
    ASSUME OneAnswerEach
    PROVE  Spec => OneRead
<1>1. Init => Owed
  BY EmptySeq DEF Init, Owed
<1>2. IInv /\ Owed /\ [Next]_vars => Owed'
  BY OwedStep
<1>3. IInv /\ Owed /\ [Next]_vars => [Asks => ~io /\ ~readableEnded]_vars
  <2> SUFFICES ASSUME IInv, Owed, [Next]_vars, Asks PROVE ~io /\ ~readableEnded
    OBVIOUS
  <2>1. stack' \notin Seq(Settled)
    <3> SUFFICES ASSUME stack' \in Seq(Settled) PROVE FALSE
      OBVIOUS
    <3>1. Head(stack') \in Settled
      BY ConsHeadTail DEF Asks
    <3> QED
      BY <3>1, SettledClosed DEF Asks, Asking
  <2>2. ~UNCHANGED stack
    <3>1. Len(stack) \in Int
      BY LenProperties DEF IInv, TypeOK
    <3> QED
      BY <3>1 DEF Asks
  <2> QED
    BY <2>1, <2>2, OwedStep
<1> QED
  BY <1>1, <1>2, <1>3, ReadableInvariance, PTL DEF Spec, OneRead

-----------------------------------------------------------------------------
(* A consumer that has never let the stream flow holds the source back.    *)

\* It reads all that is buffered or only asks for more, puts nothing back and does not
\* read objects; the source answers once, with chunks up to a largest size.
ReadsWhole ==
    /\ OneAnswerEach /\ MaxUnshifts = 0 /\ ReadSizes \subseteq {0}
    /\ ObjectModes = {FALSE} /\ InitialMark > 0
    /\ \E k \in ChunkSizes : \A j \in ChunkSizes : j <= k

\* The frames that take nothing and fill nothing, those of a read() that has asked and
\* now takes from the buffer, and those of _read.
Amounts == {0, NoSize}
Still == {f \in Frame : /\ f.op \notin {"source", "fromBuffer"}
                        /\ f.op = "read" => f.arg \in Amounts}
Taking(a) == {f \in Frame : f.op = "fromBuffer" /\ f.arg = a}
Sources == {f \in Frame : f.op = "source" /\ f.arg \in Nat}
Emits == FrameOf("emitReadable")
More == FrameOf("more")

\* What is buffered when the source has been asked is below the mark, but for the chunk
\* that a read() which takes it all finds there; when it has answered, a chunk more.
Room(a) ==
    flowing = "unset" =>
        length < highWaterMark + (IF reading THEN 0 ELSE Largest)
                               + (IF a = NoSize THEN Largest ELSE 0)

AtRest == stack \in Seq(Still) /\ Room(0)

Serving ==
    \E a \in Amounts : \E f \in Taking(a), s \in Seq(Still) : stack = Push(f, s) /\ Room(a)

Under(g, f, s) == Push(g, Push(f, s))

InSource ==
    /\ sync
    /\ \E a \in Amounts : \E g \in Sources, f \in Taking(a), s \in Seq(Still) :
         /\ Room(a)
         /\ \/ stack = Under(g, f, s) /\ (g.arg = 0 => ~readableEnded /\ reading)
            \/ /\ g.arg > 0
               /\ stack \in {Push(More, Under(g, f, s)), Push(Emits, Under(g, f, s)),
                             Push(Emits, Push(More, Under(g, f, s)))}

Pressed ==
    /\ immediates \in Seq(Still) /\ highWaterMark = InitialMark /\ objectMode = FALSE
    /\ AtRest \/ Serving \/ InSource

LEMMA StillFrames ==
    /\ \A op \in {"emitReadable", "emitEnd", "flow", "pull", "more", "resumeTick",
                  "resumed", "resumeRead", "endTick", "readableTick"} : FrameOf(op) \in Still
    /\ \A n \in Amounts, loop \in {"none", "flow", "pull"} : ReadFrame(n, loop) \in Still
    /\ \A n \in Int : FrameWith("moreLoop", n) \in Still /\ FrameWith("user", n) \in Still
    /\ UserFrame \in Still /\ ReadableListener \in Still
<1>1. /\ \A op \in {"emitReadable", "emitEnd", "flow", "pull", "more", "resumeTick",
                    "resumed", "resumeRead", "endTick", "readableTick"} :
              FrameOf(op) \in Still
      /\ \A n \in Int : FrameWith("moreLoop", n) \in Still /\ FrameWith("user", n) \in Still
      /\ UserFrame \in Still
  BY ReadableAssumption DEF Still, Frame, FrameOf, FrameWith, UserFrame
<1>2. \A n \in Amounts, loop \in {"none", "flow", "pull"} : ReadFrame(n, loop) \in Still
  BY DEF Still, Frame, ReadFrame, Amounts, NoSize
<1> QED
  BY <1>1, <1>2 DEF ReadableListener

LEMMA LargestChunk ==
    ASSUME ReadsWhole
    PROVE  Largest \in Nat /\ \A k \in ChunkSizes : k <= Largest
BY ReadableAssumption DEF ReadsWhole, Largest

LEMMA StillCaller ==
    ASSUME stack \in Seq(Still), MayCall
    PROVE  Caller \in Seq(Still)
<1>1. CASE stack = <<>>
  BY <1>1, EmptySeq DEF Caller
<1>2. CASE stack # <<>>
  <2>1. Head(stack) \in Still /\ Rest \in Seq(Still)
    BY <1>2, RestIn
  <2>2. Head(stack).op = "user"
    BY <1>2 DEF MayCall, Running
  <2>3. [Head(stack) EXCEPT !.arg = @ - 1] \in Still
    BY <2>1, <2>2 DEF Still, Frame
  <2> QED
    BY <1>2, <2>1, <2>3, PushIn DEF Caller
<1> QED
  BY <1>1, <1>2

\* What the length is compared with does not change, and flowing is left for good.
SameRoom ==
    /\ UNCHANGED <<length, highWaterMark, reading, objectMode>>
    /\ flowing' = "unset" => flowing = "unset"

LEMMA StillUser ==
    ASSUME ReadsWhole, IInv, stack \in Seq(Still), immediates \in Seq(Still), UserCall
    PROVE  Keeps(Still) /\ SameRoom
<1>1. MayCall /\ ~Unshift
  <2>1. unshifts \in 0 .. 0
    BY DEF ReadsWhole, IInv, TypeOK
  <2>2. ~Unshift
    BY <2>1 DEF Unshift, ReadsWhole
  <2> QED
    BY <2>2 DEF UserCall, UserRead, Pause, Resume, OnReadable
<1>2. Caller \in Seq(Still)
  BY <1>1, StillCaller
<1>3. /\ FrameOf("emitReadable") \in Still /\ UserFrame \in Still
      /\ FrameOf("resumeTick") \in Still
      /\ \A n \in Amounts : ReadFrame(n, "none") \in Still
      /\ 0 \in Amounts
  BY StillFrames DEF Amounts
<1>4. \A f \in Still, s \in Seq(Still) : Push(f, s) \in Seq(Still)
  BY PushIn
<1>5. \A f \in Still : Append(immediates, f) \in Seq(Still)
  BY AppendProperties
<1>6. CASE UserRead
  <2>1. PICK n \in ReadSizes \cup {NoSize} : stack' = Push(ReadFrame(n, "none"), Caller)
    BY <1>6 DEF UserRead
  <2>2. n \in Amounts
    BY DEF ReadsWhole, Amounts
  <2>3. stack' \in Seq(Still)
    BY <1>2, <1>3, <1>4, <2>1, <2>2
  <2> QED
    BY <1>6, <2>3 DEF UserRead, Keeps, SameRoom, bufferVars, sourceVars
<1>7. CASE Pause
  BY <1>2, <1>3, <1>4, <1>7 DEF Pause, Keeps, SameRoom, bufferVars, sourceVars
<1>8. CASE Resume
  BY <1>2, <1>3, <1>5, <1>8 DEF Resume, Keeps, SameRoom, bufferVars, sourceVars
<1>9. CASE OnReadable
  <2>1. Keeps(Still)
    BY <1>2, <1>3, <1>4, <1>5, <1>9 DEF OnReadable, Keeps
  <2> QED
    BY <1>9, <2>1 DEF OnReadable, SameRoom, bufferVars, sourceVars
<1> QED
  BY <1>1, <1>6, <1>7, <1>8, <1>9 DEF UserCall

LEMMA StillStream ==
    ASSUME stack \in Seq(Still), immediates \in Seq(Still), length \in Int, StreamStep, ~Read
    PROVE  Keeps(Still) /\ SameRoom
<1>1. stack # <<>> /\ Head(stack) \in Still /\ Rest \in Seq(Still)
  BY RestIn DEF StreamStep, Running, ReadFromBuffer, Flow, EmitReadable, ReadableTick,
     EmitEnd, EndTick, MaybeReadMore, MoreLoop, ResumeTick, Resumed, ResumeRead, ReadReturns
<1>2. /\ \A op \in {"emitReadable", "emitEnd", "flow", "pull", "more", "resumeTick",
                    "resumed", "resumeRead", "endTick", "readableTick"} :
              FrameOf(op) \in Still
      /\ \A n \in Amounts, loop \in {"none", "flow", "pull"} : ReadFrame(n, loop) \in Still
      /\ \A n \in Int : FrameWith("moreLoop", n) \in Still
      /\ UserFrame \in Still /\ ReadableListener \in Still
      /\ 0 \in Amounts /\ NoSize \in Amounts /\ -1 \in Int
  BY StillFrames DEF Amounts
<1>3. \A f \in Still, s \in Seq(Still) : Push(f, s) \in Seq(Still)
  BY PushIn
<1>4. \A f \in Still, s \in Seq(Still), c \in BOOLEAN : PushIf(c, f, s) \in Seq(Still)
  BY <1>3 DEF PushIf
<1>5. \A f \in Still : Append(immediates, f) \in Seq(Still)
  BY AppendProperties
<1>6. ~ReadFromBuffer /\ ~ReadReturns
  BY <1>1 DEF ReadFromBuffer, ReadReturns, Running, Still
<1>7. SameRoom
  BY <1>6 DEF StreamStep, Flow, EmitReadable, ReadableTick, EmitEnd, EndTick, MaybeReadMore,
     MoreLoop, ResumeTick, Resumed, ResumeRead, SameRoom, bufferVars, sourceVars
<1>8. CASE Flow
  <2>1. PICK loop \in {"flow", "pull"} :
            stack' = PushIf(loop = "pull" \/ flowing = "on", ReadFrame(NoSize, loop), Rest)
    BY <1>8 DEF Flow
  <2>2. ReadFrame(NoSize, loop) \in Still
    BY <1>2
  <2>3. stack' \in Seq(Still)
    BY <1>1, <1>3, <2>1, <2>2 DEF PushIf
  <2> QED
    BY <1>7, <1>8, <2>3 DEF Flow, Keeps
<1>9. CASE EmitReadable
  BY <1>1, <1>2, <1>3, <1>5, <1>7, <1>9 DEF EmitReadable, Keeps
<1>10. CASE ReadableTick
  BY <1>1, <1>2, <1>3, <1>7, <1>10 DEF ReadableTick, Keeps
<1>11. CASE EmitEnd
  BY <1>1, <1>2, <1>5, <1>7, <1>11 DEF EmitEnd, Keeps
<1>12. CASE EndTick
  BY <1>1, <1>2, <1>3, <1>7, <1>12 DEF EndTick, Keeps
<1>13. CASE MaybeReadMore
  BY <1>1, <1>2, <1>5, <1>7, <1>13 DEF MaybeReadMore, Keeps
<1>14. CASE MoreLoop
  BY <1>1, <1>2, <1>3, <1>7, <1>14 DEF MoreLoop, Keeps
<1>15. CASE ResumeTick
  BY <1>1, <1>2, <1>3, <1>7, <1>15 DEF ResumeTick, Keeps, PushIf
<1>16. CASE Resumed
  BY <1>1, <1>2, <1>3, <1>7, <1>16 DEF Resumed, AfterResume, Keeps
<1>17. CASE ResumeRead
  BY <1>1, <1>2, <1>3, <1>7, <1>17 DEF ResumeRead, Keeps, PushIf
<1> QED
  BY <1>6, <1>8, <1>9, <1>10, <1>11, <1>12, <1>13, <1>14, <1>15, <1>16, <1>17
     DEF StreamStep

LEMMA StillLoop ==
    ASSUME stack \in Seq(Still), immediates \in Seq(Still), Return \/ RunImmediate
    PROVE  Keeps(Still) /\ SameRoom
<1>1. Keeps(Still)
  <2>1. stack # <<>> => Rest \in Seq(Still)
    BY RestIn
  <2>2. stack \in Seq(Frame)
    BY SeqMonotonic DEF Still
  <2> QED
    BY <2>1, <2>2, LoopKeeps
<1>2. SameRoom
  BY DEF Return, RunImmediate, SameRoom, bufferVars, sourceVars
<1> QED
  BY <1>1, <1>2

\* What a push of the source changes: it answers, and adds at most the largest chunk.
LEMMA PushAdds ==
    ASSUME ReadsWhole, IInv, ~misread, objectMode = FALSE, NEW rest, Pushes(rest)
    PROVE  /\ length' \in Nat
           /\ \/ /\ length' <= length + Largest /\ ~reading'
                 /\ stack' \in {rest, AfterDirect(rest), AfterBuffering(rest), AfterEof(rest)}
                 /\ sync => stack' \in {rest, AfterBuffering(rest), AfterEof(rest)}
              \/ /\ readableEnded /\ UNCHANGED <<length, reading>>
                 /\ stack' = Push(UserFrame, rest)
<1>1. length \in Nat /\ sourced \in Nat
  BY ReadableAssumption DEF IInv, TypeOK
<1>2. Largest \in Nat
  BY LargestChunk
<1>3. CASE PushNothing(rest) \/ PushEof(rest)
  BY <1>1, <1>2, <1>3 DEF PushNothing, PushEof, bufferVars
<1>4. CASE PushTooLate(rest)
  BY <1>1, <1>4 DEF PushTooLate, bufferVars
<1>5. ASSUME NEW k \in ChunkSizes, PushChunk(SourceData(k), rest)
      PROVE  /\ length' \in Nat /\ length' <= length + Largest /\ ~reading'
             /\ stack' \in {AfterDirect(rest), AfterBuffering(rest)}
             /\ ~Direct => stack' = AfterBuffering(rest)
             /\ Direct => stack' = AfterDirect(rest)
  <2>1. k \in Nat /\ k <= Largest
    BY ReadableAssumption, LargestChunk
  <2>2. Len(SourceData(k)) = k
    BY <1>1, <2>1 DEF SourceData
  <2>3. length' \in {length, length + k}
    BY <1>5, <2>2 DEF PushChunk, ChunkLen
  <2> QED
    BY <1>1, <1>2, <1>5, <2>1, <2>3 DEF PushChunk
<1>6. PushNothing(rest) \/ PushEof(rest) \/ PushTooLate(rest)
      \/ \E k \in ChunkSizes : PushChunk(SourceData(k), rest)
  BY DEF Pushes
<1> QED
  <2>1. CASE \E k \in ChunkSizes : PushChunk(SourceData(k), rest)
    BY <1>5, <2>1 DEF Direct
  <2> QED
    BY <1>3, <1>4, <1>6, <2>1

LEMMA RoomKept ==
    ASSUME NEW a, Room(a), SameRoom
    PROVE  Room(a)'
BY DEF Room, SameRoom

\* The source pushes on its own: it had been asked.
LEMMA StillPush ==
    ASSUME ReadsWhole, IInv, ~misread, Owed, Pressed, stack \in Seq(Still), Room(0), SourcePush
    PROVE  Pressed'
<1>1. Largest \in Nat /\ length \in Nat /\ highWaterMark \in Nat /\ Room(0)
  BY LargestChunk DEF IInv, TypeOK
<1>2. stack = <<>> /\ io /\ Pushes(stack)
  <2>1. ~Running("source")
    BY RestIn DEF Running, Still
  <2> QED
    BY <2>1 DEF SourcePush, ReadsWhole, OneAnswerEach
<1>3. reading
  BY <1>2 DEF Owed
<1>4. UNCHANGED <<highWaterMark, objectMode, flowing, immediates>>
  BY DEF SourcePush
<1>5. /\ length' \in Nat
      /\ \/ /\ length' <= length + Largest /\ ~reading'
            /\ stack' \in {<<>>, AfterDirect(<<>>), AfterBuffering(<<>>), AfterEof(<<>>)}
         \/ UNCHANGED <<length, reading>> /\ stack' = Push(UserFrame, <<>>)
  BY <1>2, PushAdds DEF Pressed
<1>6. stack' \in Seq(Still)
  <2>1. /\ \A f \in Still, s \in Seq(Still) : Push(f, s) \in Seq(Still)
        /\ <<>> \in Seq(Still)
    BY PushIn, EmptySeq
  <2>2. /\ Emits \in Still /\ More \in Still /\ UserFrame \in Still
        /\ ReadFrame(0, "none") \in Still
    BY StillFrames DEF Emits, More, Amounts
  <2>3. /\ AfterDirect(<<>>) \in Seq(Still) /\ AfterBuffering(<<>>) \in Seq(Still)
        /\ AfterEof(<<>>) \in Seq(Still) /\ Push(UserFrame, <<>>) \in Seq(Still)
    BY <2>1, <2>2 DEF AfterDirect, AfterBuffering, AfterEof, PushIf, Emits, More
  <2> QED
    BY <1>5, <2>1, <2>3
<1>7. Room(0)'
  <2>1. CASE length' <= length + Largest /\ ~reading'
    BY <1>1, <1>3, <1>4, <1>5, <2>1 DEF Room, NoSize
  <2>2. CASE UNCHANGED <<length, reading>>
    BY <1>1, <1>4, <2>2 DEF Room
  <2> QED
    BY <1>5, <2>1, <2>2
<1> QED
  BY <1>4, <1>6, <1>7 DEF Pressed, AtRest

\* read() with nothing of another read() or of the source under way: it may ask.
LEMMA StillRead ==
    ASSUME ReadsWhole, IInv, ~misread, Pressed, stack \in Seq(Still), Room(0), Read
    PROVE  Pressed'
<1>0. PICK n, fromBuffer, rest :
          /\ n = Head(stack).arg /\ rest = Rest
          /\ fromBuffer = [Head(stack) EXCEPT !.op = "fromBuffer"]
  OBVIOUS
<1>1. stack # <<>> /\ Head(stack) \in Still /\ rest \in Seq(Still) /\ Head(stack).op = "read"
  BY <1>0, RestIn DEF Read, Running
<1>2. /\ n \in Amounts /\ fromBuffer \in Taking(n)
      /\ Head(stack) \in Frame
  BY <1>0, <1>1 DEF Still, Taking, Frame
<1>3. /\ Largest \in Nat /\ length \in Nat /\ highWaterMark \in Nat /\ highWaterMark > 0
      /\ flowing \in {"unset", "on", "off"}
  BY LargestChunk DEF IInv, TypeOK, Pressed, ReadsWhole
<1>4. UNCHANGED <<immediates, objectMode, length, flowing, readableEnded>>
  BY DEF Read, bufferVars, sourceVars, endVars
<1>5. MarkFor(n) = highWaterMark
  BY <1>2, <1>3 DEF MarkFor, Amounts, NoSize
<1>6. highWaterMark' = highWaterMark
  BY <1>0, <1>5 DEF Read, MarkAfterNeedRead
<1>7. /\ Push(FrameOf("emitEnd"), rest) \in Seq(Still)
      /\ PushIf(length > 0, FrameOf("emitReadable"), rest) \in Seq(Still)
  BY <1>1, StillFrames, PushIn DEF PushIf
<1>8. Room(0) => Room(n)
  BY <1>3 DEF Room, NoSize
<1>9. CASE stack' \in Seq(Still) /\ UNCHANGED reading
  <2>1. Room(0)'
    BY <1>4, <1>6, <1>9 DEF Room
  <2> QED
    BY <1>4, <1>6, <1>9, <2>1 DEF Pressed, AtRest
<1>10. CASE stack' = Push(fromBuffer, rest) /\ UNCHANGED reading
  <2>1. Room(n)'
    BY <1>4, <1>6, <1>8, <1>10 DEF Room
  <2>2. Serving'
    BY <1>1, <1>2, <1>10, <2>1 DEF Serving
  <2> QED
    BY <1>4, <1>6, <2>2 DEF Pressed
<1>11. CASE /\ NeedRead(n) /\ reading' /\ sync'
            /\ ~(AskedForReadable(n) /\ (readableEnded \/ length >= highWaterMark))
            /\ stack' = Push(FrameOf("source"), Push(fromBuffer, rest))
  <2>1. ~reading /\ ~readableEnded
    BY <1>11 DEF NeedRead
  <2>2. n = 0 => length < highWaterMark
    BY <1>3, <1>11 DEF NeedRead, AskedForReadable
  <2>3. flowing = "unset" => length < highWaterMark + Largest
    BY <1>3, <2>1 DEF Room, NoSize
  <2>4. Room(n)'
    <3>1. CASE n = 0
      BY <1>3, <1>4, <1>6, <1>11, <2>2, <3>1 DEF Room, NoSize
    <3>2. CASE n = NoSize
      BY <1>3, <1>4, <1>6, <1>11, <2>3, <3>2 DEF Room
    <3> QED
      BY <1>2, <3>1, <3>2 DEF Amounts
  <2>5. Asking \in Sources /\ Asking.arg = 0
    BY FrameTypes DEF Sources, Asking, FrameOf
  <2>6. stack' = Under(Asking, fromBuffer, rest)
    BY <1>11 DEF Under, Asking
  <2>7. Asking.arg = 0 => ~readableEnded' /\ reading'
    BY <1>4, <1>11, <2>1
  <2>8. InSource'
    BY <1>1, <1>2, <1>11, <2>4, <2>5, <2>6, <2>7 DEF InSource
  <2> QED
    BY <1>4, <1>6, <2>8 DEF Pressed
<1> QED
  <2>1. \/ stack' \in Seq(Still) /\ UNCHANGED reading
        \/ stack' = Push(fromBuffer, rest) /\ UNCHANGED reading
        \/ /\ NeedRead(n) /\ reading' /\ sync'
           /\ ~(AskedForReadable(n) /\ (readableEnded \/ length >= highWaterMark))
           /\ stack' = Push(FrameOf("source"), Push(fromBuffer, rest))
    BY <1>0, <1>7 DEF Read
  <2> QED
    BY <1>9, <1>10, <1>11, <2>1

\* read() takes from the buffer: all of it, or nothing.
LEMMA ServingStep ==
    ASSUME ReadsWhole, IInv, ~misread, Pressed, [Next]_vars, Serving, ~UNCHANGED vars
    PROVE  Pressed'
<1>0. PICK a \in Amounts :
          \E f \in Taking(a), s \in Seq(Still) : stack = Push(f, s) /\ Room(a)
  BY DEF Serving
<1>1. PICK f \in Taking(a), s \in Seq(Still) : stack = Push(f, s) /\ Room(a)
  BY <1>0
<1>2. stack # <<>> /\ Head(stack) = f /\ Rest = s /\ f \in Frame /\ s \in Seq(Frame)
  <2>1. f \in Frame /\ s \in Seq(Frame)
    BY <1>1, SeqMonotonic DEF Taking, Still
  <2> QED
    <3>1. Push(f, s) # <<>> /\ Head(Push(f, s)) = f /\ Tail(Push(f, s)) = s
      BY <2>1, PushIn
    <3> QED
      BY <1>1, <2>1, <3>1 DEF Rest
<1>3. Head(stack).op = "fromBuffer" /\ Head(stack).arg = a
  BY <1>2 DEF Taking
<1>4. ReadFromBuffer
  BY <1>2, <1>3 DEF Next, UserCall, UserRead, Unshift, Pause, Resume, OnReadable, MayCall,
     StreamStep, Read, Flow, EmitReadable, ReadableTick, EmitEnd, EndTick, MaybeReadMore,
     MoreLoop, ResumeTick, Resumed, ResumeRead, ReadReturns, Return, SourcePush,
     RunImmediate, Running, ReadsWhole, OneAnswerEach
<1>5. /\ Largest \in Nat /\ length \in Nat /\ highWaterMark \in Nat /\ highWaterMark > 0
      /\ flowing \in {"unset", "on", "off"} /\ objectMode = FALSE
  BY LargestChunk DEF IInv, TypeOK, Pressed, ReadsWhole
<1>6. UNCHANGED <<immediates, objectMode, flowing, reading>>
  BY <1>4 DEF ReadFromBuffer, sourceVars
<1>7. highWaterMark' = highWaterMark
  BY <1>1, <1>3, <1>4, <1>5 DEF ReadFromBuffer, MarkFor, Amounts, NoSize
<1>8. stack' \in Seq(Still)
  <2>1. f.loop \in {"none", "flow", "pull"}
    BY <1>2 DEF Frame
  <2>2. f.loop # "none" => FrameOf(f.loop) \in Still
    BY <2>1, StillFrames
  <2>3. Continue(f.loop, s) \in Seq(Still)
    BY <2>2, PushIn DEF Continue, PushIf
  <2>4. Push(UserFrame, Continue(f.loop, s)) \in Seq(Still)
    BY <2>3, StillFrames, PushIn
  <2>5. stack' \in {s, <<>>, Push(UserFrame, Continue(f.loop, s))}
    BY <1>2, <1>4 DEF ReadFromBuffer
  <2> QED
    BY <2>4, <2>5, EmptySeq
<1>9. flowing = "unset" => length' < highWaterMark + (IF reading THEN 0 ELSE Largest)
  <2> SUFFICES ASSUME flowing = "unset"
               PROVE  length' < highWaterMark + (IF reading THEN 0 ELSE Largest)
    OBVIOUS
  <2>1. CASE a = 0
    <3>1. HowMuchToRead(a, FALSE) = 0
      BY <1>5, <2>1 DEF HowMuchToRead, NoSize
    <3>2. length' = length
      <4>1. HowMuchToRead(Head(stack).arg, FALSE) = 0
        BY <1>3, <2>1, <3>1
      <4>2. 0 <= 0
        OBVIOUS
      <4>3. HowMuchToRead(Head(stack).arg, FALSE) <= 0
        BY <4>1, <4>2, Zenon
      <4>4. UNCHANGED bufferVars
        BY <1>4, <4>3, Zenon DEF ReadFromBuffer
      <4> QED
        BY <4>4 DEF bufferVars
    <3> QED
      BY <1>1, <1>5, <2>1, <3>2 DEF Room, NoSize
  <2>2. CASE a = NoSize
    <3>1. HowMuchToRead(a, FALSE) = length
      BY <1>5, <2>2 DEF HowMuchToRead, SizeOfNext
    <3>2. buffer = <<>> => length = 0
      BY <1>5, FlattenEmpty DEF IInv, InOrder, PlucksBytes
    <3>3. length' \in {0, length} /\ (length > 0 => length' = 0)
      <4>1. CASE length = 0
        BY <1>3, <1>4, <3>1, <4>1 DEF ReadFromBuffer, bufferVars
      <4>2. CASE length > 0
        <5>1. ~SpansChunks(length)
          BY <1>5 DEF SpansChunks
        <5>2. length' = length - length
          <6>1. HowMuchToRead(Head(stack).arg, FALSE) = length
            BY <1>3, <3>1
          <6>2. ~(length <= 0 \/ buffer = <<>> \/ length = 0)
            BY <1>5, <3>2, <4>2
          <6> QED
            BY <1>4, <5>1, <6>1, <6>2 DEF ReadFromBuffer
        <5> QED
          BY <1>5, <5>2
      <4> QED
        BY <1>5, <4>1, <4>2
    <3> QED
      BY <1>5, <3>3
  <2> QED
    BY <1>1, <2>1, <2>2 DEF Amounts
<1>10. Room(0)'
  BY <1>6, <1>7, <1>9, <1>5 DEF Room, NoSize
<1> QED
  BY <1>6, <1>7, <1>8, <1>10 DEF Pressed, AtRest

\* The stack while _read runs: its call, on the read() that will take what is there.
LEMMA UnderIs ==
    ASSUME NEW g \in Frame, NEW f \in Frame, NEW s \in Seq(Frame)
    PROVE  /\ Push(f, s) \in Seq(Frame) /\ Under(g, f, s) \in Seq(Frame)
           /\ Under(g, f, s) # <<>> /\ Head(Under(g, f, s)) = g
           /\ Tail(Under(g, f, s)) = Push(f, s)
           /\ \A h \in Frame, r \in Seq(Frame) :
                /\ Push(h, r) \in Seq(Frame)
                /\ Push(h, r) # <<>> /\ Head(Push(h, r)) = h /\ Tail(Push(h, r)) = r
<1>1. \A h \in Frame, r \in Seq(Frame) :
         /\ Push(h, r) \in Seq(Frame)
         /\ Push(h, r) # <<>> /\ Head(Push(h, r)) = h /\ Tail(Push(h, r)) = r
  BY PushIn
<1> QED
  BY <1>1 DEF Under

\* The source pushes in _read, or _read returns.
LEMMA InSourceTop ==
    ASSUME ReadsWhole, IInv, ~misread, Owed, Pressed, [Next]_vars, ~UNCHANGED vars, sync,
           NEW a \in Amounts, NEW g \in Sources, NEW f \in Taking(a), NEW s \in Seq(Still),
           Room(a), stack = Under(g, f, s), g.arg = 0 => ~readableEnded /\ reading
    PROVE  Pressed'
<1>1. stack # <<>> /\ Head(stack) = g /\ Rest = Push(f, s) /\ g.op = "source"
  <2>1. g \in Frame /\ f \in Frame /\ s \in Seq(Frame)
    BY SeqMonotonic DEF Sources, Taking, Still
  <2>2. /\ Under(g, f, s) # <<>> /\ Head(Under(g, f, s)) = g
        /\ Tail(Under(g, f, s)) = Push(f, s)
    BY <2>1, UnderIs, ZenonT(30)
  <2> QED
    BY <2>2 DEF Sources, Rest
<1>2. \/ ReadReturns
      \/ SourcePush /\ g.arg < MaxPushes /\ Pushes(Push([g EXCEPT !.arg = @ + 1], Rest))
  BY <1>1 DEF Next, UserCall, UserRead, Unshift, Pause, Resume, OnReadable, MayCall,
     StreamStep, Read, ReadFromBuffer, Flow, EmitReadable, ReadableTick, EmitEnd, EndTick,
     MaybeReadMore, MoreLoop, ResumeTick, Resumed, ResumeRead, Return, SourcePush,
     RunImmediate, Running, ReadsWhole, OneAnswerEach
<1>3. /\ Largest \in Nat /\ length \in Nat /\ highWaterMark \in Nat
      /\ MaxPushes \in Nat /\ MaxPushes <= 1 /\ g.arg \in Int
  <2>1. Largest \in Nat /\ MaxPushes \in Nat
    BY LargestChunk, ReadableAssumption
  <2>2. length \in Nat /\ highWaterMark \in Nat
    BY DEF IInv, TypeOK
  <2>3. MaxPushes <= 1
    BY DEF ReadsWhole, OneAnswerEach
  <2>4. g.arg \in Int
    BY DEF Sources, Frame
  <2> QED
    BY <2>1, <2>2, <2>3, <2>4
<1>4. CASE ReadReturns
  <2>1. UNCHANGED <<immediates, objectMode, flowing, reading, length, highWaterMark>>
    BY <1>4 DEF ReadReturns, bufferVars
  <2>2. stack' = Push(f, s)
    BY <1>1, <1>4 DEF ReadReturns
  <2>3. Room(a)'
    BY <2>1 DEF Room
  <2>4. Serving'
    BY <2>2, <2>3 DEF Serving
  <2> QED
    BY <2>1, <2>4 DEF Pressed
<1>5. CASE SourcePush /\ g.arg < MaxPushes /\ Pushes(Push([g EXCEPT !.arg = @ + 1], Rest))
  <2>1. PICK h : h = [g EXCEPT !.arg = @ + 1]
    OBVIOUS
  <2>2. h \in Sources /\ h.arg = g.arg + 1
    BY <2>1 DEF Sources, Frame
  <2>3. PICK t : t = Under(h, f, s)
    OBVIOUS
  <2>4. Pushes(t)
    BY <1>1, <1>5, <2>1, <2>3 DEF Under
  <2>5. UNCHANGED <<immediates, objectMode, flowing, highWaterMark, sync>>
    BY <1>5 DEF SourcePush
  <2>6. g.arg = 0 /\ h.arg = 1 /\ reading /\ ~readableEnded
    <3>1. g.arg \in Nat /\ g.arg < 1
      BY <1>3, <1>5 DEF Sources
    <3> QED
      BY <2>2, <3>1
  <2>7. /\ length' \in Nat /\ length' <= length + Largest /\ ~reading'
        /\ stack' \in {t, AfterBuffering(t), AfterEof(t)}
    BY <2>4, <2>6, PushAdds DEF Pressed
  <2>8. Room(a)'
    BY <1>3, <2>5, <2>6, <2>7 DEF Room
  <2>9. stack' \in {t, Push(More, t), Push(Emits, t), Push(Emits, Push(More, t))}
    BY <2>7 DEF AfterBuffering, AfterEof, PushIf, More, Emits
  <2>10. InSource'
    <3>1. \/ stack' = Under(h, f, s) /\ (h.arg = 0 => ~readableEnded' /\ reading')
          \/ /\ h.arg > 0
             /\ stack' \in {Push(More, Under(h, f, s)), Push(Emits, Under(h, f, s)),
                            Push(Emits, Push(More, Under(h, f, s)))}
      BY <2>3, <2>6, <2>9
    <3> QED
      BY <2>2, <2>5, <2>8, <3>1 DEF InSource
  <2> QED
    BY <2>5, <2>10 DEF Pressed
<1> QED
  BY <1>2, <1>4, <1>5

\* What a push in _read leaves to run: 'readable' waits for the next tick while the
\* source runs, and so does the loop that reads more.
LEMMA InSourceAbove ==
    ASSUME ReadsWhole, IInv, ~misread, Pressed, [Next]_vars, ~UNCHANGED vars, sync,
           NEW a \in Amounts, NEW g \in Sources, NEW f \in Taking(a), NEW s \in Seq(Still),
           Room(a), g.arg > 0,
           stack \in {Push(More, Under(g, f, s)), Push(Emits, Under(g, f, s)),
                      Push(Emits, Push(More, Under(g, f, s)))}
    PROVE  Pressed'
<1>1. More \in Frame /\ Emits \in Frame /\ More.op = "more" /\ Emits.op = "emitReadable"
  BY DEF More, Emits, FrameOf, Frame
<1>2. /\ stack # <<>>
      /\ \/ Head(stack) = More /\ Rest = Under(g, f, s)
         \/ Head(stack) = Emits /\ Rest \in {Under(g, f, s), Push(More, Under(g, f, s))}
  <2>1. g \in Frame /\ f \in Frame /\ s \in Seq(Frame)
    BY SeqMonotonic DEF Sources, Taking, Still
  <2>2. \A h \in Frame, r \in Seq(Frame) :
          Push(h, r) # <<>> /\ Head(Push(h, r)) = h /\ Tail(Push(h, r)) = r
    BY <2>1, UnderIs
  <2>3. Under(g, f, s) \in Seq(Frame) /\ Push(More, Under(g, f, s)) \in Seq(Frame)
    BY <1>1, <2>1, UnderIs
  <2> QED
    <3>1. PICK u : u = Under(g, f, s)
      OBVIOUS
    <3>2. PICK v : v = Push(More, u)
      OBVIOUS
    <3>3. u \in Seq(Frame) /\ v \in Seq(Frame)
      BY <2>3, <3>1, <3>2
    <3>4. stack \in {v, Push(Emits, u), Push(Emits, v)}
      BY <3>1, <3>2
    <3> QED
      BY <1>1, <2>2, <3>1, <3>2, <3>3, <3>4 DEF Rest
<1>3. Head(stack).op \in {"more", "emitReadable"}
  BY <1>1, <1>2
<1>4. EmitReadable \/ MaybeReadMore
  BY <1>2, <1>3 DEF Next, UserCall, UserRead, Unshift, Pause, Resume, OnReadable, MayCall,
     StreamStep, Read, ReadFromBuffer, Flow, ReadableTick, EmitEnd, EndTick, MoreLoop,
     ResumeTick, Resumed, ResumeRead, ReadReturns, Return, SourcePush, RunImmediate,
     Running, ReadsWhole, OneAnswerEach
<1>5. stack' = Rest
  BY <1>4 DEF EmitReadable, MaybeReadMore, EmitsNow
<1>6. UNCHANGED <<objectMode, flowing, reading, length, highWaterMark, sync>>
  BY <1>4 DEF EmitReadable, MaybeReadMore, bufferVars, sourceVars
<1>7. immediates' \in Seq(Still)
  <2>1. FrameOf("readableTick") \in Still /\ FrameWith("moreLoop", -1) \in Still
    BY StillFrames
  <2>2. immediates \in Seq(Still)
    BY DEF Pressed
  <2> QED
    <3>1. immediates' \in {immediates, Append(immediates, FrameOf("readableTick")),
                         Append(immediates, FrameWith("moreLoop", -1))}
      BY <1>4 DEF EmitReadable, MaybeReadMore
    <3> QED
      <4>1. \A h \in Still : Append(immediates, h) \in Seq(Still)
        BY <2>2, AppendProperties
      <4> QED
        BY <2>1, <2>2, <3>1, <4>1
<1>8. Room(a)'
  BY <1>6 DEF Room
<1>9. InSource'
  BY <1>2, <1>5, <1>6, <1>8 DEF InSource
<1> QED
  BY <1>6, <1>7, <1>9 DEF Pressed

LEMMA PressedStep ==
    ASSUME ReadsWhole, IInv, ~misread, Owed, Pressed, [Next]_vars
    PROVE  Pressed'
<1>1. CASE UNCHANGED vars
  BY <1>1 DEF vars, bufferVars, sourceVars, endVars, Pressed, AtRest, Serving, InSource,
     Room
<1>2. CASE ~UNCHANGED vars /\ Serving
  BY <1>2, ServingStep
<1>3. CASE ~UNCHANGED vars /\ InSource
  <2>1. PICK a \in Amounts :
          \E g \in Sources, f \in Taking(a), s \in Seq(Still) :
            /\ Room(a)
            /\ \/ stack = Under(g, f, s) /\ (g.arg = 0 => ~readableEnded /\ reading)
               \/ /\ g.arg > 0
                  /\ stack \in {Push(More, Under(g, f, s)), Push(Emits, Under(g, f, s)),
                                Push(Emits, Push(More, Under(g, f, s)))}
    BY <1>3 DEF InSource
  <2>2. sync
    BY <1>3 DEF InSource
  <2> QED
    BY <1>3, <2>1, <2>2, InSourceTop, InSourceAbove
<1>4. CASE AtRest
  <2>1. stack \in Seq(Still) /\ Room(0) /\ immediates \in Seq(Still) /\ length \in Int
    BY <1>4 DEF AtRest, Pressed, IInv, TypeOK
  <2>2. Keeps(Still) /\ SameRoom => Pressed'
    BY <2>1, RoomKept DEF Pressed, AtRest, Keeps, SameRoom
  <2>3. CASE Read
    BY <2>1, <2>3, StillRead
  <2>4. CASE SourcePush
    BY <2>1, <2>4, StillPush
  <2>5. CASE UserCall
    BY <2>1, <2>2, <2>5, StillUser
  <2>6. CASE StreamStep /\ ~Read
    BY <2>1, <2>2, <2>6, StillStream
  <2>7. CASE Return \/ RunImmediate
    BY <2>1, <2>2, <2>7, StillLoop
  <2> QED
    BY <1>1, <2>3, <2>4, <2>5, <2>6, <2>7 DEF Next
<1> QED
  BY <1>1, <1>2, <1>3, <1>4 DEF Pressed

\* What such a consumer takes is a chunk or all there is: no read spans chunks.
LEMMA PressedReads ==
    ASSUME ReadsWhole, IInv, ~misread, Pressed, [Next]_vars
    PROVE  ~misread'
<1>1. UNCHANGED misread \/ ReadFromBuffer
  BY DEF Next, UserCall, StreamStep, Read, Flow, EmitReadable, ReadableTick, EmitEnd,
     EndTick, MaybeReadMore, MoreLoop, ResumeTick, Resumed, ResumeRead, ReadReturns,
     UserRead, Unshift, Pause, Resume, OnReadable, Return, SourcePush, Pushes,
     PushChunk, PushNothing, PushTooLate, PushEof, RunImmediate, bufferVars, vars
<1>2. ASSUME ReadFromBuffer PROVE ~misread'
  <2>1. stack \in Seq(Frame) /\ stack # <<>> /\ Head(stack).op = "fromBuffer"
    BY <1>2 DEF ReadFromBuffer, Running, IInv, TypeOK
  <2>2. Head(stack).arg \in Amounts
    <3>1. ~AtRest
      BY <2>1, RestIn DEF AtRest, Still
    <3>2. ~InSource
      <4> SUFFICES ASSUME InSource PROVE FALSE
        OBVIOUS
      <4>1. PICK a \in Amounts : \E g \in Sources, f \in Taking(a), s \in Seq(Still) :
              \/ stack = Under(g, f, s)
              \/ stack \in {Push(More, Under(g, f, s)), Push(Emits, Under(g, f, s)),
                            Push(Emits, Push(More, Under(g, f, s)))}
        BY DEF InSource
      <4>2. PICK g \in Sources, f \in Taking(a), s \in Seq(Still) :
              \/ stack = Under(g, f, s)
              \/ stack = Push(More, Under(g, f, s))
              \/ stack = Push(Emits, Under(g, f, s))
              \/ stack = Push(Emits, Push(More, Under(g, f, s)))
        BY <4>1
      <4>3. g \in Frame /\ f \in Frame /\ s \in Seq(Frame) /\ g.op = "source"
        BY SeqMonotonic DEF Sources, Taking, Still
      <4>4. More \in Frame /\ Emits \in Frame /\ More.op = "more"
            /\ Emits.op = "emitReadable"
        BY DEF More, Emits, FrameOf, Frame
      <4>5. \A h \in Frame, r \in Seq(Frame) : Head(Push(h, r)) = h
        BY <4>3, UnderIs
      <4>6. Under(g, f, s) \in Seq(Frame) /\ Push(More, Under(g, f, s)) \in Seq(Frame)
            /\ Head(Under(g, f, s)) = g
        BY <4>3, <4>4, UnderIs
      <4>7. Head(stack) \in {g, More, Emits}
        BY <4>2, <4>4, <4>5, <4>6
      <4> QED
        BY <2>1, <4>3, <4>4, <4>7
    <3>3. PICK a \in Amounts : \E f \in Taking(a), s \in Seq(Still) : stack = Push(f, s)
      BY <3>1, <3>2 DEF Pressed, Serving
    <3> QED
      BY <3>3 DEF Push, Taking
  <2>8. PICK n : n = HowMuchToRead(Head(stack).arg, FALSE)
    OBVIOUS
  <2>3. length \in Int /\ objectMode = FALSE /\ buffer \in Seq(Seq(Bytes))
    BY DEF IInv, TypeOK, Pressed, Bytes
  <2>4. n \in {0, length, SizeOfNext}
    BY <2>8, <2>2, <2>3 DEF HowMuchToRead, Amounts, NoSize
  <2>5. buffer # <<>> => SizeOfNext \in {length, Len(Head(buffer))}
                         /\ Len(Head(buffer)) \in Nat
    BY <2>3, ConsHeadTail, LenProperties DEF SizeOfNext
  <2>6. buffer # <<>> /\ ~(n <= 0) => ~SpansChunks(n)
    BY <2>3, <2>4, <2>5 DEF SpansChunks
  <2>7. \/ misread' = misread
        \/ ~(n <= 0) /\ buffer # <<>> /\ (misread' => misread \/ SpansChunks(n))
        \/ ~(n <= 0) /\ buffer # <<>> /\ SpansChunks(n)
    BY <1>2, <2>8 DEF ReadFromBuffer, bufferVars
  <2> QED
    BY <2>6, <2>7
<1> QED
  BY <1>1, <1>2

LEMMA PressedInit ==
    ASSUME ReadsWhole, Init
    PROVE  Owed /\ Pressed
<1>1. Owed
  BY EmptySeq DEF Init, Owed
<1>2. Largest \in Nat /\ InitialMark \in Nat
  BY LargestChunk, ReadableAssumption
<1>3. Room(0)
  BY <1>2 DEF Init, ReadsWhole, Room, NoSize
<1> QED
  BY <1>1, <1>3, EmptySeq DEF Init, ReadsWhole, Pressed, AtRest

LEMMA PressedGives ==
    ASSUME ReadsWhole, IInv, ~misread, Pressed
    PROVE  Backpressure
<1> SUFFICES ASSUME flowing = "unset"
             PROVE  length < highWaterMark + 2 * Largest
  BY DEF Backpressure
<1>1. Largest \in Nat /\ length \in Nat /\ highWaterMark \in Nat
  BY LargestChunk DEF IInv, TypeOK
<1>2. \E a \in Amounts : Room(a)
  BY DEF Pressed, AtRest, Serving, InSource, Amounts
<1> QED
  BY <1>1, <1>2 DEF Room

\* For any mark and chunks up to any size, listeners that call back into the stream
\* from anywhere and a source that answers now or later: a read() that empties the
\* buffer is the only one that asks above the mark (_readableRead), so less than two
\* chunks are ever above it.
THEOREM PressureIsBounded ==
    ASSUME ReadsWhole
    PROVE  Spec => []Backpressure
<1>1. Init => Owed /\ Pressed /\ ~misread
  BY PressedInit DEF Init
<1>2. IInv /\ Owed /\ Pressed /\ ~misread /\ [Next]_vars => Owed' /\ Pressed' /\ ~misread'
  BY OwedStep, PressedStep, PressedReads DEF ReadsWhole
<1>3. IInv /\ Pressed /\ ~misread => Backpressure
  BY PressedGives
<1> QED
  BY <1>1, <1>2, <1>3, ReadableInvariance, PTL DEF Spec
=============================================================================

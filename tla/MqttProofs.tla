----------------------------- MODULE MqttProofs -----------------------------
(***************************************************************************)
(* Proofs about the MQTT client, for any number of sockets, messages, ids, *)
(* calls and failures, and any depth of calls within calls.                *)
(***************************************************************************)
EXTENDS MCMqtt, SequenceTheorems, FiniteSetTheorems, TLAPS

-----------------------------------------------------------------------------
(* The inductive invariant. *)

FramesIn(s) == {s[i] : i \in 1 .. Len(s)}
PendingIn(s, ops) == Cardinality({i \in DOMAIN s : s[i].op \in ops})
Attempting == {"connect", "reconnect"}

\* Numbers of messages and their ids, and what bytes and frames hold.
Numbers == 0 .. MaxMessageId + MaxPublish
SmallByte == [type : Types, n : Numbers, at : 1 .. 3]
Ops == {"user", "disconnect", "offline", "teardown", "connect", "closed",
        "reconnect", "subscribe", "messages"}
SmallFrame == [op : Ops, buffer : Seq(SmallByte), index : Nat \ {0}]

TypedClient ==
    /\ connected \in BOOLEAN /\ socketConnected \in BOOLEAN /\ destroyed \in BOOLEAN
    /\ keepAliveTimer \in BOOLEAN /\ connectAckTimer \in BOOLEAN
    /\ clientSocket \in Sockets \cup {None}
    /\ open \subseteq Sockets /\ connecting \subseteq Sockets
    /\ setting \in Settings
    /\ calls \in 0 .. setting.calls /\ faults \in 0 .. setting.faults

TypedRequests ==
    /\ requests \in Nat
    /\ DOMAIN outgoingStore \subseteq 1 .. MaxMessageId
    /\ \A id \in DOMAIN outgoingStore : outgoingStore[id] \in 1 .. requests
    /\ nextMessageId \in 0 .. MaxMessageId
    /\ unacked \in Seq([id : 1 .. MaxMessageId, request : 1 .. requests])
    /\ answered \in Seq(1 .. requests) /\ acked \subseteq 1 .. requests
    /\ unsent \subseteq 1 .. requests

TypedBytes ==
    /\ lastBuffer \in Seq(SmallByte) /\ wire \in Seq(SmallByte)
    /\ session \in {"none", "spoiled", "up"}
    /\ published \in 0 .. MaxPublish
    /\ received \in Seq(Numbers)

TypedStack ==
    /\ stack \in Seq(SmallFrame)
    /\ queries \in Nat /\ queries + PendingIn(stack, Attempting) <= MaxSockets

\* One socket at most is open, that of the client; an attempt has its timer, or what is
\* left on the stack ends it or begins another.
Ending == {"disconnect", "offline", "teardown", "reconnect", "connect"}
Bounded ==
    /\ open \subseteq {clientSocket}
    /\ connectAckTimer => clientSocket # None
    /\ clientSocket # None =>
          connected \/ connectAckTimer \/ \E f \in FramesIn(stack) : f.op \in Ending

\* What the socket says of the session and of the code that runs.
Linked ==
    /\ clientSocket \in connecting => ~socketConnected
    /\ session = "up" => socketConnected /\ clientSocket # None
    /\ unacked # <<>> => socketConnected
    /\ socketConnected /\ stack # <<>> => \A f \in FramesIn(Rest) : f.op # "subscribe"

\* Bytes that are whole messages, of which only the first may be a CONNACK.
Aligned(s) ==
    \E m \in Nat :
       /\ Len(s) = 3 * m
       /\ \A q \in Nat : q < m =>
             /\ s[3 * q + 1].at = 1
             /\ s[3 * q + 2] = [s[3 * q + 1] EXCEPT !.at = 2]
             /\ s[3 * q + 3] = [s[3 * q + 1] EXCEPT !.at = 3]
       /\ \A k \in 1 .. Len(s) : k > 3 => s[k].type # "conack"
Accepts(s) == s # <<>> /\ s[1].type = "conack" /\ s[1].n = 0
AtMessage(index) == \E q \in Nat : index = 3 * q + 1

\* The loop of _handleMessageData stands between two messages; before the first, it is
\* the only code that runs.
FrameWhole(f) ==
    IF f.op = "messages"
      THEN /\ Aligned(f.buffer) /\ AtMessage(f.index)
           /\ f.index = 1 => Rest = <<>> /\ (Accepts(f.buffer) => session = "up")
      ELSE f.buffer = <<>>

WholeBytes ==
    /\ lastBuffer = <<>> /\ Aligned(wire) /\ (Accepts(wire) => session = "up")
    /\ \A f \in FramesIn(stack) : FrameWhole(f)

\* A client that says it is connected has its session, and no code on the stack that is
\* about to end it.
Teardowns == {"offline", "teardown", "connect", "reconnect"}
Connected ==
    connected => session = "up" /\ \A f \in FramesIn(stack) : f.op \notin Teardowns

\* The acknowledgements under way, and the ids that the requests on the stack will take.
AcksUnderWay == AcksIn(wire) \cup UNION {AcksIn(f.buffer) : f \in FramesIn(stack)}
IdsUnderWay == {unacked[j].id : j \in 1 .. Len(unacked)} \cup AcksUnderWay
Reserved == IdsOfNext(PendingIn(stack, {"subscribe"})) \cap IdsUnderWay = {}

\* Under the id of an acknowledgement the store has the request that it is for, or none.
Matched ==
    /\ \A j \in 1 .. Len(unacked) : unacked[j].id \in DOMAIN outgoingStore =>
          outgoingStore[unacked[j].id] = unacked[j].request
    /\ \A id \in AcksUnderWay : id \in DOMAIN outgoingStore => outgoingStore[id] \in acked

\* No request is in the store twice, nor after it was answered.
Once ==
    /\ \A i \in 1 .. Len(answered) : answered[i] \in acked \cup unsent
    /\ \A i, j \in 1 .. Len(answered) : answered[i] = answered[j] => i = j
    /\ \A i \in 1 .. Len(answered), id \in DOMAIN outgoingStore : outgoingStore[id] # answered[i]
    /\ \A i, j \in DOMAIN outgoingStore : outgoingStore[i] = outgoingStore[j] => i = j

WholeInv == WholeBytes /\ Connected /\ Reserved /\ Matched /\ Once
Typed == TypedClient /\ TypedRequests /\ TypedBytes /\ TypedStack
MqttInv == Typed /\ Bounded /\ Linked /\ (~setting.split => WholeInv)

-----------------------------------------------------------------------------
(* Stacks. *)

LEMMA Bounds ==
    /\ MaxSockets \in Nat /\ MaxPublish \in Nat /\ MaxStack \in Nat /\ MaxMessageId \in Nat \ {0}
    /\ \A s \in Settings : s.split \in BOOLEAN /\ s.misread \subseteq Types
    /\ \A s \in Settings : s.calls \in Nat /\ s.faults \in Nat /\ s.buffer \in Nat
BY MqttAssumption, SettingsAssumption

LEMMA PushProps ==
    ASSUME NEW T, NEW f \in T, NEW s \in Seq(T)
    PROVE  /\ Push(f, s) \in Seq(T) /\ Push(f, s) # <<>>
           /\ Head(Push(f, s)) = f /\ Tail(Push(f, s)) = s
           /\ FramesIn(Push(f, s)) = {f} \cup FramesIn(s)
<1> DEFINE r == Push(f, s)
<1>1. <<f>> \in Seq(T) /\ Len(<<f>>) = 1 /\ <<f>>[1] = f
  OBVIOUS
<1>2. /\ r \in Seq(T) /\ Len(r) = 1 + Len(s) /\ Len(s) \in Nat
      /\ \A i \in 1 .. 1 + Len(s) : r[i] = IF i <= 1 THEN <<f>>[i] ELSE s[i - 1]
  BY <1>1, ConcatProperties, LenProperties DEF Push
<1>3. r[1] = f /\ \A i \in 1 .. Len(s) : r[i + 1] = s[i] /\ i + 1 \in 1 .. Len(r)
  <2>1. r[1] = f
    BY <1>1, <1>2
  <2>2. ASSUME NEW i \in 1 .. Len(s) PROVE r[i + 1] = s[i] /\ i + 1 \in 1 .. Len(r)
    <3>1. i + 1 \in 1 .. 1 + Len(s) /\ ~(i + 1 <= 1) /\ (i + 1) - 1 = i
      BY <1>2
    <3> QED
      BY <1>2, <3>1
  <2> QED
    BY <2>1, <2>2
<1> HIDE DEF r
<1>4. r # <<>> /\ Head(r) = f
  BY <1>2, <1>3, EmptySeq
<1>5. Tail(r) = s
  <2>1. Tail(r) \in Seq(T) /\ Len(Tail(r)) = Len(s)
    BY <1>2, <1>4, HeadTailProperties
  <2>2. \A i \in 1 .. Len(s) : Tail(r)[i] = s[i]
    BY <1>2, <1>3, <1>4, <2>1, HeadTailProperties
  <2> QED
    BY <2>1, <2>2, SeqEqual
<1>6. FramesIn(r) = {f} \cup FramesIn(s)
  <2>1. ASSUME NEW i \in 1 .. Len(r) PROVE r[i] \in {f} \cup FramesIn(s)
    <3>1. CASE i = 1
      BY <1>3, <3>1
    <3>2. CASE i # 1
      <4>1. i - 1 \in 1 .. Len(s) /\ (i - 1) + 1 = i
        BY <1>2, <3>2
      <4>2. r[i] = s[i - 1]
        BY <1>3, <4>1
      <4> QED
        BY <4>1, <4>2 DEF FramesIn
    <3> QED
      BY <3>1, <3>2
  <2>2. f \in FramesIn(r)
    BY <1>2, <1>3 DEF FramesIn
  <2>3. ASSUME NEW i \in 1 .. Len(s) PROVE s[i] \in FramesIn(r)
    <3>1. s[i] = r[i + 1] /\ i + 1 \in 1 .. Len(r)
      BY <1>3
    <3> QED
      BY <3>1 DEF FramesIn
  <2> QED
    BY <2>1, <2>2, <2>3 DEF FramesIn
<1> QED
  BY <1>2, <1>4, <1>5, <1>6 DEF r

LEMMA PopProps ==
    ASSUME NEW T, NEW s \in Seq(T), s # <<>>
    PROVE  /\ Head(s) \in T /\ Tail(s) \in Seq(T) /\ s = Push(Head(s), Tail(s))
           /\ FramesIn(s) = {Head(s)} \cup FramesIn(Tail(s))
           /\ Head(s) \in FramesIn(s)
<1>1. /\ Head(s) \in T /\ Tail(s) \in Seq(T) /\ Len(Tail(s)) = Len(s) - 1
      /\ \A i \in 1 .. Len(Tail(s)) : Tail(s)[i] = s[i + 1]
      /\ Len(s) \in Nat \ {0} /\ Head(s) = s[1]
  BY HeadTailProperties, EmptySeq
<1> DEFINE r == Push(Head(s), Tail(s))
<1>2. <<Head(s)>> \in Seq(T) /\ Len(<<Head(s)>>) = 1 /\ <<Head(s)>>[1] = Head(s)
  BY <1>1
<1>3. /\ r \in Seq(T) /\ Len(r) = 1 + Len(Tail(s))
      /\ \A i \in 1 .. 1 + Len(Tail(s)) :
            r[i] = IF i <= 1 THEN <<Head(s)>>[i] ELSE Tail(s)[i - 1]
  BY <1>1, <1>2, ConcatProperties DEF Push
<1> HIDE DEF r
<1>4. Len(r) = Len(s)
  BY <1>1, <1>3
<1>5. ASSUME NEW i \in 1 .. Len(s) PROVE r[i] = s[i]
  <2>1. CASE i = 1
    BY <1>1, <1>2, <1>3, <2>1
  <2>2. CASE i # 1
    <3>1. i - 1 \in 1 .. Len(Tail(s)) /\ (i - 1) + 1 = i /\ i \in 1 .. 1 + Len(Tail(s)) /\ ~(i <= 1)
      BY <1>1, <2>2
    <3> QED
      BY <1>1, <1>3, <3>1
  <2> QED
    BY <2>1, <2>2
<1>6. s = r
  BY <1>3, <1>4, <1>5, SeqEqual
<1>7. FramesIn(r) = {Head(s)} \cup FramesIn(Tail(s))
  <2> DEFINE h == Head(s)
             t == Tail(s)
  <2>1. h \in T /\ t \in Seq(T)
    BY <1>1
  <2> HIDE DEF h, t
  <2>2. FramesIn(Push(h, t)) = {h} \cup FramesIn(t)
    BY <2>1, PushProps
  <2> QED
    BY <2>2 DEF r, h, t
<1> QED
  BY <1>1, <1>6, <1>7 DEF r

LEMMA PendingProps ==
    ASSUME NEW T, NEW ops
    PROVE  /\ \A s \in Seq(T) : PendingIn(s, ops) \in Nat
           /\ \A f \in T, s \in Seq(T) :
                 PendingIn(Push(f, s), ops) = PendingIn(s, ops) + (IF f.op \in ops THEN 1 ELSE 0)
           /\ \A s \in Seq(T) : (\A f \in FramesIn(s) : f.op \notin ops) => PendingIn(s, ops) = 0
<1> DEFINE At(s) == {i \in DOMAIN s : s[i].op \in ops}
<1>1. ASSUME NEW s \in Seq(T)
      PROVE  /\ IsFiniteSet(At(s)) /\ PendingIn(s, ops) = Cardinality(At(s))
             /\ Cardinality(At(s)) \in Nat
             /\ DOMAIN s = 1 .. Len(s) /\ Len(s) \in Nat
  <2>1. DOMAIN s = 1 .. Len(s) /\ Len(s) \in Nat
    BY LenProperties
  <2>2. IsFiniteSet(DOMAIN s)
    BY <2>1, FS_Interval
  <2>3. IsFiniteSet(At(s))
    BY <2>2, FS_Subset
  <2> QED
    BY <2>1, <2>3, FS_CardinalityType DEF PendingIn
<1>2. ASSUME NEW f \in T, NEW s \in Seq(T)
      PROVE  PendingIn(Push(f, s), ops) = PendingIn(s, ops) + (IF f.op \in ops THEN 1 ELSE 0)
  <2> DEFINE r == Push(f, s)
             A == At(s)
             g == [i \in A |-> i + 1]
             B == {i + 1 : i \in A}
  <2>1. /\ r \in Seq(T) /\ Head(r) = f /\ Tail(r) = s /\ r # <<>>
    BY PushProps
  <2> HIDE DEF r
  <2>2. /\ Len(r) = Len(s) + 1 /\ r[1] = f /\ Len(s) \in Nat
        /\ \A i \in 1 .. Len(s) : r[i + 1] = s[i]
    <3>1. Len(r) \in Nat \ {0} /\ Len(s) = Len(r) - 1 /\ Head(r) = r[1]
      BY <2>1, HeadTailProperties, EmptySeq
    <3> QED
      BY <2>1, <3>1, HeadTailProperties
  <2>3. A \subseteq Nat /\ A \subseteq 1 .. Len(s)
    BY <1>1
  <2>4. At(r) = B \cup (IF f.op \in ops THEN {1} ELSE {})
    <3>1. DOMAIN r = 1 .. Len(s) + 1 /\ DOMAIN s = 1 .. Len(s)
      BY <1>1, <2>1, <2>2
    <3>2. ASSUME NEW i \in At(r) PROVE i \in B \cup (IF f.op \in ops THEN {1} ELSE {})
      <4>1. i \in 1 .. Len(s) + 1 /\ r[i].op \in ops
        BY <3>1
      <4>2. CASE i = 1
        BY <2>2, <4>1, <4>2
      <4>3. CASE i # 1
        <5>1. i - 1 \in 1 .. Len(s) /\ (i - 1) + 1 = i
          BY <2>2, <4>1, <4>3
        <5>2. i - 1 \in A
          BY <2>2, <3>1, <4>1, <5>1
        <5> QED
          BY <5>1, <5>2
      <4> QED
        BY <4>2, <4>3
    <3>3. ASSUME NEW i \in A PROVE i + 1 \in At(r)
      <4>1. i \in 1 .. Len(s) /\ s[i].op \in ops /\ i + 1 \in 1 .. Len(s) + 1
        BY <2>2, <2>3
      <4> QED
        BY <2>2, <3>1, <4>1
    <3>4. f.op \in ops => 1 \in At(r)
      BY <2>2, <3>1
    <3> HIDE DEF A, At
    <3> QED
      BY <3>2, <3>3, <3>4
  <2>5. IsFiniteSet(B) /\ Cardinality(B) = Cardinality(A)
    <3>1. g \in Bijection(A, B)
      <4>1. g \in [A -> B]
        BY <2>3
      <4>2. \A i, j \in A : g[i] = g[j] => i = j
        BY <2>3
      <4>3. \A k \in B : \E i \in A : g[i] = k
        OBVIOUS
      <4> HIDE DEF A, B, g
      <4> QED
        BY <4>1, <4>2, <4>3 DEF Bijection, Injection, Surjection, IsInjective
    <3>2. IsFiniteSet(A)
      BY <1>1
    <3> HIDE DEF A, B, g
    <3> QED
      <4>1. ExistsBijection(A, B)
        BY <3>1 DEF ExistsBijection
      <4> QED
        BY <3>2, <4>1, FS_Bijection
  <2>6. 1 \notin B
    BY <2>3
  <2>7. PendingIn(r, ops) = Cardinality(At(r)) /\ PendingIn(s, ops) = Cardinality(A)
        /\ Cardinality(A) \in Nat
    BY <1>1, <2>1
  <2> HIDE DEF A, B, At
  <2>8. CASE f.op \in ops
    <3>1. Cardinality(B \cup {1}) = Cardinality(B) + 1
      BY <2>5, <2>6, FS_AddElement
    <3>2. At(r) = B \cup {1}
      BY <2>4, <2>8
    <3> QED
      BY <2>5, <2>7, <2>8, <3>1, <3>2 DEF r
  <2>9. CASE f.op \notin ops
    BY <2>4, <2>5, <2>7, <2>9 DEF r
  <2> QED
    BY <2>8, <2>9
<1>3. ASSUME NEW s \in Seq(T), \A f \in FramesIn(s) : f.op \notin ops PROVE PendingIn(s, ops) = 0
  <2>1. At(s) = {}
    BY <1>1, <1>3 DEF FramesIn
  <2> HIDE DEF At
  <2> QED
    BY <1>1, <2>1, FS_EmptySet
<1> QED
  BY <1>1, <1>2, <1>3

LEMMA PendingPush ==
    ASSUME NEW f \in SmallFrame, NEW s \in Seq(SmallFrame), NEW ops
    PROVE  /\ PendingIn(Push(f, s), ops) = PendingIn(s, ops) + (IF f.op \in ops THEN 1 ELSE 0)
           /\ PendingIn(s, ops) \in Nat
<1>1. \A t \in Seq(SmallFrame) : PendingIn(t, ops) \in Nat
  BY PendingProps
<1>2. \A g \in SmallFrame, t \in Seq(SmallFrame) :
         PendingIn(Push(g, t), ops) = PendingIn(t, ops) + (IF g.op \in ops THEN 1 ELSE 0)
  BY PendingProps
<1> QED
  BY <1>1, <1>2

-----------------------------------------------------------------------------
(* Bytes. *)

LEMMA PlainFrames ==
    ASSUME NEW op \in Ops
    PROVE  FrameOf(op) \in SmallFrame /\ FrameOf(op).op = op /\ FrameOf(op).buffer = <<>>
BY DEF FrameOf, SmallFrame

LEMMA AcksMembers ==
    ASSUME NEW s \in Seq(SmallByte), NEW x
    PROVE  x \in AcksIn(s) <=> \E i \in 1 .. Len(s) : s[i].type = "ack" /\ s[i].n = x
<1>1. DOMAIN s = 1 .. Len(s)
  BY LenProperties
<1> QED
  BY <1>1 DEF AcksIn

LEMMA NoAcks == AcksIn(<<>>) = {}
<1>1. <<>> \in Seq(SmallByte) /\ Len(<<>>) = 0
  BY EmptySeq
<1> DEFINE e == <<>>
<1>2. \A x : x \notin AcksIn(e)
  <2> SUFFICES ASSUME NEW x, x \in AcksIn(e) PROVE FALSE
    OBVIOUS
  <2>1. e \in Seq(SmallByte) /\ Len(e) = 0
    BY <1>1
  <2> HIDE DEF e
  <2>2. PICK i \in 1 .. Len(e) : TRUE
    BY <2>1, AcksMembers
  <2> QED
    BY <2>1, <2>2
<1> QED
  BY <1>2

LEMMA AcksConcat ==
    ASSUME NEW s \in Seq(SmallByte), NEW t \in Seq(SmallByte)
    PROVE  s \o t \in Seq(SmallByte) /\ AcksIn(s \o t) = AcksIn(s) \cup AcksIn(t)
<1> DEFINE r == s \o t
<1>1. /\ r \in Seq(SmallByte) /\ Len(r) = Len(s) + Len(t) /\ Len(s) \in Nat /\ Len(t) \in Nat
      /\ \A i \in 1 .. Len(s) + Len(t) : r[i] = IF i <= Len(s) THEN s[i] ELSE t[i - Len(s)]
  BY ConcatProperties, LenProperties
<1> HIDE DEF r
<1>2. ASSUME NEW x \in AcksIn(r) PROVE x \in AcksIn(s) \cup AcksIn(t)
  <2>1. PICK i \in 1 .. Len(r) : r[i].type = "ack" /\ r[i].n = x
    BY <1>1, <1>2, AcksMembers
  <2>2. CASE i <= Len(s)
    <3>1. i \in 1 .. Len(s) /\ r[i] = s[i]
      BY <1>1, <2>2
    <3> QED
      BY <2>1, <3>1, AcksMembers
  <2>3. CASE ~(i <= Len(s))
    <3>1. i - Len(s) \in 1 .. Len(t) /\ r[i] = t[i - Len(s)]
      BY <1>1, <2>3
    <3> QED
      BY <2>1, <3>1, AcksMembers
  <2> QED
    BY <2>2, <2>3
<1>3. ASSUME NEW x \in AcksIn(s) PROVE x \in AcksIn(r)
  <2>1. PICK i \in 1 .. Len(s) : s[i].type = "ack" /\ s[i].n = x
    BY <1>3, AcksMembers
  <2>2. i \in 1 .. Len(r) /\ r[i] = s[i]
    BY <1>1
  <2> QED
    BY <1>1, <2>1, <2>2, AcksMembers
<1>4. ASSUME NEW x \in AcksIn(t) PROVE x \in AcksIn(r)
  <2>1. PICK i \in 1 .. Len(t) : t[i].type = "ack" /\ t[i].n = x
    BY <1>4, AcksMembers
  <2>2. i + Len(s) \in 1 .. Len(r) /\ r[i + Len(s)] = t[i]
    <3>1. i + Len(s) \in 1 .. Len(s) + Len(t) /\ ~(i + Len(s) <= Len(s)) /\ (i + Len(s)) - Len(s) = i
      BY <1>1
    <3> QED
      BY <1>1, <3>1
  <2> QED
    <3> DEFINE j == i + Len(s)
    <3>1. j \in 1 .. Len(r) /\ r[j].type = "ack" /\ r[j].n = x
      BY <2>1, <2>2
    <3> HIDE DEF j
    <3> QED
      BY <1>1, <3>1, AcksMembers
<1> QED
  BY <1>1, <1>2, <1>3, <1>4 DEF r

LEMMA SplitProps ==
    ASSUME NEW s \in Seq(SmallByte), NEW k \in 1 .. Len(s)
    PROVE  LET a == SubSeq(s, 1, k)
               b == SubSeq(s, k + 1, Len(s))
           IN  /\ a \in Seq(SmallByte) /\ b \in Seq(SmallByte)
               /\ Len(a) = k /\ Len(b) = Len(s) - k /\ Len(s) \in Nat
               /\ \A i \in 1 .. k : a[i] = s[i]
               /\ \A i \in 1 .. Len(s) - k : b[i] = s[k + i]
               /\ AcksIn(a) \subseteq AcksIn(s) /\ AcksIn(b) \subseteq AcksIn(s)
<1> DEFINE a == SubSeq(s, 1, k)
           b == SubSeq(s, k + 1, Len(s))
<1>1. Len(s) \in Nat /\ \A i \in 1 .. Len(s) : s[i] \in SmallByte
  BY LenProperties, ElementOfSeq
<1>2. /\ a \in Seq(SmallByte) /\ Len(a) = k /\ \A i \in 1 .. k : a[i] = s[i]
  <2>1. \A i \in 1 .. k : s[i] \in SmallByte
    BY <1>1
  <2>2. /\ a \in Seq(SmallByte) /\ Len(a) = IF 1 <= k THEN k - 1 + 1 ELSE 0
        /\ \A i \in 1 .. k - 1 + 1 : a[i] = s[1 + i - 1]
    BY <2>1, SubSeqProperties
  <2> HIDE DEF a
  <2>3. Len(a) = k /\ \A i \in 1 .. k : i \in 1 .. k - 1 + 1 /\ 1 + i - 1 = i
    BY <1>1, <2>2
  <2> QED
    BY <2>2, <2>3
<1>3. /\ b \in Seq(SmallByte) /\ Len(b) = Len(s) - k /\ \A i \in 1 .. Len(s) - k : b[i] = s[k + i]
  <2>1. k + 1 \in Int /\ Len(s) \in Int /\ \A i \in k + 1 .. Len(s) : s[i] \in SmallByte
    BY <1>1
  <2>2. /\ b \in Seq(SmallByte)
        /\ Len(b) = IF k + 1 <= Len(s) THEN Len(s) - (k + 1) + 1 ELSE 0
        /\ \A i \in 1 .. Len(s) - (k + 1) + 1 : b[i] = s[k + 1 + i - 1]
    BY <2>1, SubSeqProperties
  <2> HIDE DEF b
  <2>3. /\ Len(b) = Len(s) - k
        /\ \A i \in 1 .. Len(s) - k : i \in 1 .. Len(s) - (k + 1) + 1 /\ k + 1 + i - 1 = k + i
    BY <1>1, <2>2
  <2> QED
    BY <2>2, <2>3
<1> HIDE DEF a, b
<1>4. ASSUME NEW x \in AcksIn(a) PROVE x \in AcksIn(s)
  <2>1. PICK i \in 1 .. Len(a) : a[i].type = "ack" /\ a[i].n = x
    BY <1>2, <1>4, AcksMembers
  <2>2. i \in 1 .. Len(s) /\ a[i] = s[i]
    BY <1>1, <1>2
  <2> QED
    BY <2>1, <2>2, AcksMembers
<1>5. ASSUME NEW x \in AcksIn(b) PROVE x \in AcksIn(s)
  <2>1. PICK i \in 1 .. Len(b) : b[i].type = "ack" /\ b[i].n = x
    BY <1>3, <1>5, AcksMembers
  <2>2. k + i \in 1 .. Len(s) /\ b[i] = s[k + i]
    BY <1>1, <1>3
  <2> QED
    BY <2>1, <2>2, AcksMembers
<1> QED
  BY <1>1, <1>2, <1>3, <1>4, <1>5 DEF a, b

LEMMA ReplyProps ==
    ASSUME NEW type \in Types, NEW n \in Numbers
    PROVE  /\ Reply(type, n) \in Seq(SmallByte) /\ Len(Reply(type, n)) = 3
           /\ \A i \in 1 .. 3 : Reply(type, n)[i] = [type |-> type, n |-> n, at |-> i]
           /\ AcksIn(Reply(type, n)) = IF type = "ack" THEN {n} ELSE {}
           /\ Aligned(Reply(type, n))
           /\ Accepts(Reply(type, n)) => type = "conack" /\ n = 0
<1> DEFINE r == Reply(type, n)
<1>1. /\ r \in [1 .. 3 -> SmallByte]
      /\ \A i \in 1 .. 3 : r[i] = [type |-> type, n |-> n, at |-> i]
  BY DEF Reply, Bytes, SmallByte
<1> HIDE DEF r
<1>2. r \in Seq(SmallByte) /\ Len(r) = 3
  <2>1. r \in Seq(SmallByte)
    BY <1>1, SeqDef
  <2>2. DOMAIN r = 1 .. 3 /\ DOMAIN r = 1 .. Len(r) /\ Len(r) \in Nat
    BY <1>1, <2>1, LenProperties
  <2> QED
    BY <2>1, <2>2
<1>3. AcksIn(r) = IF type = "ack" THEN {n} ELSE {}
  <2>1. \A i \in 1 .. 3 : r[i].type = type /\ r[i].n = n
    BY <1>1
  <2>2. 1 \in 1 .. Len(r)
    BY <1>2
  <2>3. \A x : x \in AcksIn(r) <=> type = "ack" /\ x = n
    BY <1>2, <2>1, <2>2, AcksMembers
  <2> QED
    BY <2>3
<1>4. Aligned(r)
  <2>1. 1 \in Nat /\ Len(r) = 3 * 1
    BY <1>2
  <2>2. ASSUME NEW q \in Nat, q < 1
        PROVE  /\ r[3 * q + 1].at = 1
               /\ r[3 * q + 2] = [r[3 * q + 1] EXCEPT !.at = 2]
               /\ r[3 * q + 3] = [r[3 * q + 1] EXCEPT !.at = 3]
    <3>1. 3 * q + 1 = 1 /\ 3 * q + 2 = 2 /\ 3 * q + 3 = 3
      BY <2>2
    <3>2. r[1].at = 1 /\ r[2] = [r[1] EXCEPT !.at = 2] /\ r[3] = [r[1] EXCEPT !.at = 3]
      BY <1>1
    <3> QED
      BY <3>1, <3>2
  <2>3. \A k \in 1 .. Len(r) : ~(k > 3)
    BY <1>2
  <2> QED
    BY <2>1, <2>2, <2>3 DEF Aligned
<1>5. Accepts(r) => type = "conack" /\ n = 0
  BY <1>1 DEF Accepts
<1> QED
  BY <1>1, <1>2, <1>3, <1>4, <1>5 DEF r

LEMMA AlignedConcat ==
    ASSUME NEW s \in Seq(SmallByte), Aligned(s), NEW type \in Types, NEW n \in Numbers,
           type # "conack"
    PROVE  LET r == s \o Reply(type, n)
           IN  Aligned(r) /\ (Accepts(r) => Accepts(s))
<1> DEFINE t == Reply(type, n)
           r == s \o t
<1>1. /\ t \in Seq(SmallByte) /\ Len(t) = 3
      /\ \A i \in 1 .. 3 : t[i] = [type |-> type, n |-> n, at |-> i]
  BY ReplyProps
<1> HIDE DEF t
<1>2. /\ r \in Seq(SmallByte) /\ Len(r) = Len(s) + 3 /\ Len(s) \in Nat
      /\ \A i \in 1 .. Len(s) + 3 : r[i] = IF i <= Len(s) THEN s[i] ELSE t[i - Len(s)]
  <2>1. /\ r \in Seq(SmallByte) /\ Len(r) = Len(s) + Len(t) /\ Len(s) \in Nat
        /\ \A i \in 1 .. Len(s) + Len(t) : r[i] = IF i <= Len(s) THEN s[i] ELSE t[i - Len(s)]
    <3>1. s \in Seq(SmallByte) /\ t \in Seq(SmallByte)
      BY <1>1
    <3>2. Len(s) \in Nat
      BY LenProperties
    <3> QED
      BY <3>1, <3>2, ConcatProperties
  <2> HIDE DEF r
  <2> QED
    BY <1>1, <2>1
<1> HIDE DEF r
<1>3. PICK m \in Nat :
         /\ Len(s) = 3 * m
         /\ \A q \in Nat : q < m =>
               /\ s[3 * q + 1].at = 1
               /\ s[3 * q + 2] = [s[3 * q + 1] EXCEPT !.at = 2]
               /\ s[3 * q + 3] = [s[3 * q + 1] EXCEPT !.at = 3]
         /\ \A k \in 1 .. Len(s) : k > 3 => s[k].type # "conack"
  BY DEF Aligned
<1>4. m + 1 \in Nat /\ Len(r) = 3 * (m + 1)
  BY <1>2, <1>3
<1>5. ASSUME NEW q \in Nat, q < m + 1
      PROVE  /\ r[3 * q + 1].at = 1
             /\ r[3 * q + 2] = [r[3 * q + 1] EXCEPT !.at = 2]
             /\ r[3 * q + 3] = [r[3 * q + 1] EXCEPT !.at = 3]
  <2>1. CASE q < m
    <3>1. /\ r[3 * q + 1] = s[3 * q + 1] /\ r[3 * q + 2] = s[3 * q + 2]
          /\ r[3 * q + 3] = s[3 * q + 3]
      BY <1>2, <1>3, <2>1
    <3> QED
      BY <1>3, <2>1, <3>1
  <2>2. CASE q = m
    <3>1. r[3 * q + 1] = t[1] /\ r[3 * q + 2] = t[2] /\ r[3 * q + 3] = t[3]
      <4>1. /\ 3 * q + 1 \in 1 .. Len(s) + 3 /\ ~(3 * q + 1 <= Len(s)) /\ (3 * q + 1) - Len(s) = 1
            /\ 3 * q + 2 \in 1 .. Len(s) + 3 /\ ~(3 * q + 2 <= Len(s)) /\ (3 * q + 2) - Len(s) = 2
            /\ 3 * q + 3 \in 1 .. Len(s) + 3 /\ ~(3 * q + 3 <= Len(s)) /\ (3 * q + 3) - Len(s) = 3
        <5>1. Len(s) = 3 * q /\ Len(s) \in Nat
          BY <1>2, <1>3, <2>2
        <5> QED
          BY <5>1
      <4> QED
        BY <1>2, <4>1
    <3> QED
      <4>1. /\ t[1] = [type |-> type, n |-> n, at |-> 1] /\ t[2] = [type |-> type, n |-> n, at |-> 2]
            /\ t[3] = [type |-> type, n |-> n, at |-> 3]
        BY <1>1
      <4> QED
        BY <3>1, <4>1
  <2> QED
    BY <1>5, <2>1, <2>2
<1>6. ASSUME NEW k \in 1 .. Len(r), k > 3 PROVE r[k].type # "conack"
  <2>1. CASE k <= Len(s)
    BY <1>2, <1>3, <1>6, <2>1
  <2>2. CASE ~(k <= Len(s))
    <3>1. r[k] = t[k - Len(s)] /\ k - Len(s) \in 1 .. 3
      BY <1>2, <2>2
    <3> QED
      BY <1>1, <3>1
  <2> QED
    BY <2>1, <2>2
<1>7. Aligned(r)
  BY <1>4, <1>5, <1>6 DEF Aligned
<1>8. ASSUME Accepts(r) PROVE Accepts(s)
  <2>1. CASE Len(s) = 0
    <3>1. r[1] = t[1]
      BY <1>2, <2>1
    <3> QED
      BY <1>1, <1>8, <3>1 DEF Accepts
  <2>2. CASE Len(s) # 0
    <3>1. r[1] = s[1] /\ s # <<>>
      BY <1>2, <2>2
    <3> QED
      BY <1>8, <3>1 DEF Accepts
  <2> QED
    BY <2>1, <2>2
<1> QED
  BY <1>7, <1>8 DEF r, t

LEMMA AlignedSplit ==
    ASSUME NEW s \in Seq(SmallByte), Aligned(s), NEW k \in 1 .. Len(s), k % 3 = 0
    PROVE  /\ Aligned(SubSeq(s, 1, k)) /\ Aligned(SubSeq(s, k + 1, Len(s)))
           /\ Accepts(SubSeq(s, 1, k)) => Accepts(s)
           /\ ~Accepts(SubSeq(s, k + 1, Len(s)))
<1> DEFINE a == SubSeq(s, 1, k)
           b == SubSeq(s, k + 1, Len(s))
<1>1. /\ a \in Seq(SmallByte) /\ b \in Seq(SmallByte)
      /\ Len(a) = k /\ Len(b) = Len(s) - k /\ Len(s) \in Nat
      /\ \A i \in 1 .. k : a[i] = s[i]
      /\ \A i \in 1 .. Len(s) - k : b[i] = s[k + i]
  BY SplitProps
<1> HIDE DEF a, b
<1>2. PICK m \in Nat :
         /\ Len(s) = 3 * m
         /\ \A q \in Nat : q < m =>
               /\ s[3 * q + 1].at = 1
               /\ s[3 * q + 2] = [s[3 * q + 1] EXCEPT !.at = 2]
               /\ s[3 * q + 3] = [s[3 * q + 1] EXCEPT !.at = 3]
         /\ \A j \in 1 .. Len(s) : j > 3 => s[j].type # "conack"
  BY DEF Aligned
<1> DEFINE d == k \div 3
<1>3. k = 3 * d /\ d \in Nat /\ d >= 1 /\ d <= m
  <2>1. Len(s) = 3 * m /\ Len(s) \in Nat
    BY <1>1, <1>2
  <2> QED
    BY <2>1
<1> HIDE DEF d
<1>4. Aligned(a)
  <2>1. ASSUME NEW q \in Nat, q < d
        PROVE  /\ a[3 * q + 1].at = 1
               /\ a[3 * q + 2] = [a[3 * q + 1] EXCEPT !.at = 2]
               /\ a[3 * q + 3] = [a[3 * q + 1] EXCEPT !.at = 3]
    <3>1. q < m /\ 3 * q + 1 \in 1 .. k /\ 3 * q + 2 \in 1 .. k /\ 3 * q + 3 \in 1 .. k
      BY <1>3, <2>1
    <3>2. /\ a[3 * q + 1] = s[3 * q + 1] /\ a[3 * q + 2] = s[3 * q + 2]
          /\ a[3 * q + 3] = s[3 * q + 3]
      BY <1>1, <3>1
    <3> QED
      BY <1>2, <3>1, <3>2
  <2>2. \A j \in 1 .. Len(a) : j > 3 => a[j].type # "conack"
    BY <1>1, <1>2
  <2> QED
    BY <1>1, <1>3, <2>1, <2>2 DEF Aligned
<1>5. Aligned(b)
  <2>1. m - d \in Nat /\ Len(b) = 3 * (m - d)
    BY <1>1, <1>2, <1>3, SMTT(30)
  <2>2. ASSUME NEW q \in Nat, q < m - d
        PROVE  /\ b[3 * q + 1].at = 1
               /\ b[3 * q + 2] = [b[3 * q + 1] EXCEPT !.at = 2]
               /\ b[3 * q + 3] = [b[3 * q + 1] EXCEPT !.at = 3]
    <3>1. q + d \in Nat /\ q + d < m
      BY <1>3, <2>2
    <3>2. /\ b[3 * q + 1] = s[3 * (q + d) + 1] /\ b[3 * q + 2] = s[3 * (q + d) + 2]
          /\ b[3 * q + 3] = s[3 * (q + d) + 3]
      <4>1. /\ 3 * q + 1 \in 1 .. Len(s) - k /\ 3 * q + 2 \in 1 .. Len(s) - k
            /\ 3 * q + 3 \in 1 .. Len(s) - k
            /\ k + (3 * q + 1) = 3 * (q + d) + 1 /\ k + (3 * q + 2) = 3 * (q + d) + 2
            /\ k + (3 * q + 3) = 3 * (q + d) + 3
        <5>1. Len(s) = 3 * m /\ k = 3 * d /\ d \in Nat
          BY <1>2, <1>3
        <5> QED
          BY <2>2, <5>1
      <4> QED
        BY <1>1, <4>1, SMTT(30)
    <3> QED
      BY <1>2, <3>1, <3>2
  <2>3. ASSUME NEW j \in 1 .. Len(b) PROVE b[j].type # "conack"
    <3>1. b[j] = s[k + j] /\ k + j \in 1 .. Len(s) /\ k + j > 3
      <4>1. j \in 1 .. Len(s) - k /\ k >= 3 /\ Len(s) \in Nat
        BY <1>1, <1>3
      <4> QED
        BY <1>1, <4>1
    <3> QED
      BY <1>2, <3>1
  <2> QED
    BY <2>1, <2>2, <2>3 DEF Aligned
<1>6. Accepts(a) => Accepts(s)
  <2>1. a[1] = s[1] /\ s # <<>>
    BY <1>1
  <2> QED
    BY <2>1 DEF Accepts
<1>7. ASSUME Accepts(b) PROVE FALSE
  <2>1. b # <<>> /\ b[1].type = "conack"
    BY <1>7 DEF Accepts
  <2>2. Len(b) \in Nat \ {0}
    BY <1>1, <2>1, EmptySeq
  <2>3. b[1] = s[k + 1] /\ k + 1 \in 1 .. Len(s) /\ k + 1 > 3
    <3>1. Len(s) - k >= 1 /\ k >= 3 /\ k \in Nat /\ Len(s) \in Nat
      <4>1. Len(b) = Len(s) - k /\ Len(s) \in Nat
        BY <1>1
      <4>2. k >= 3 /\ k \in Nat
        BY <1>3
      <4> QED
        BY <2>2, <4>1, <4>2
    <3>2. 1 \in 1 .. Len(s) - k /\ k + 1 \in 1 .. Len(s) /\ k + 1 > 3
      BY <3>1
    <3> QED
      BY <1>1, <3>2
  <2> QED
    BY <1>2, <2>1, <2>3
<1> QED
  BY <1>4, <1>5, <1>6, <1>7 DEF a, b

-----------------------------------------------------------------------------
(* The code that is left to run, when frames are pushed or popped. *)

FrameAcks(s) == UNION {AcksIn(f.buffer) : f \in FramesIn(s)}
NoSubscribe(s) == \A f \in FramesIn(s) : f.op # "subscribe"
NoTeardown(s) == \A f \in FramesIn(s) : f.op \notin Teardowns
Ends(s) == \E f \in FramesIn(s) : f.op \in Ending

\* No loop of _handleMessageData stands before its first message.
SettledFrame(f) ==
    IF f.op = "messages"
      THEN Aligned(f.buffer) /\ AtMessage(f.index) /\ f.index # 1
      ELSE f.buffer = <<>>
Settled(s) == \A f \in FramesIn(s) : SettledFrame(f)

\* What may be left to run after a step that sends nothing.
Suited(s) ==
    /\ s \in Seq(SmallFrame)
    /\ PendingIn(s, {"subscribe"}) <= PendingIn(stack, {"subscribe"})
    /\ socketConnected => NoSubscribe(s)
    /\ ~setting.split => Settled(s) /\ FrameAcks(s) \subseteq FrameAcks(stack)

LEMMA EmptyStack ==
    /\ <<>> \in Seq(SmallFrame) /\ FramesIn(<<>>) = {} /\ FrameAcks(<<>>) = {}
    /\ \A ops : PendingIn(<<>>, ops) = 0
    /\ \A f \in SmallFrame : <<f>> = Push(f, <<>>)
<1>1. <<>> \in Seq(SmallFrame) /\ Len(<<>>) = 0
  BY EmptySeq
<1>2. FramesIn(<<>>) = {}
  BY <1>1 DEF FramesIn
<1>3. FrameAcks(<<>>) = {}
  BY <1>2 DEF FrameAcks
<1>4. ASSUME NEW ops PROVE PendingIn(<<>>, ops) = 0
  <2> DEFINE e == <<>>
  <2>1. e \in Seq(SmallFrame) /\ \A f \in FramesIn(e) : f.op \notin ops
    BY <1>1, <1>2
  <2> HIDE DEF e
  <2>2. PendingIn(e, ops) = 0
    BY <2>1, PendingProps
  <2> QED
    BY <2>2 DEF e
<1>5. ASSUME NEW f \in SmallFrame PROVE <<f>> = Push(f, <<>>)
  <2> DEFINE t == <<f>>
  <2>1. t \in Seq(SmallFrame)
    OBVIOUS
  <2> HIDE DEF t
  <2>2. t \o <<>> = t
    BY <2>1, ConcatEmptySeq
  <2> QED
    BY <2>2 DEF t, Push
<1> QED
  BY <1>1, <1>2, <1>3, <1>4, <1>5

LEMMA PushSuits ==
    ASSUME NEW s, Suited(s), NEW op \in Ops \ {"messages", "subscribe"}
    PROVE  LET t == Push(FrameOf(op), s)
           IN  /\ Suited(t) /\ FramesIn(t) = {FrameOf(op)} \cup FramesIn(s)
               /\ PendingIn(t, Attempting)
                     = PendingIn(s, Attempting) + (IF op \in Attempting THEN 1 ELSE 0)
               /\ PendingIn(s, Attempting) \in Nat
<1> DEFINE f == FrameOf(op)
           t == Push(f, s)
<1>1. f \in SmallFrame /\ f.op = op /\ f.buffer = <<>> /\ s \in Seq(SmallFrame)
  BY PlainFrames DEF Suited
<1> HIDE DEF f
<1>2. /\ t \in Seq(SmallFrame) /\ FramesIn(t) = {f} \cup FramesIn(s)
  BY <1>1, PushProps
<1>3. /\ PendingIn(t, {"subscribe"}) = PendingIn(s, {"subscribe"}) + 0
      /\ PendingIn(s, {"subscribe"}) \in Nat
  <2>1. op \notin {"subscribe"}
    OBVIOUS
  <2>2. /\ PendingIn(t, {"subscribe"})
             = PendingIn(s, {"subscribe"}) + (IF f.op \in {"subscribe"} THEN 1 ELSE 0)
        /\ PendingIn(s, {"subscribe"}) \in Nat
    <3> DEFINE sub == {"subscribe"}
    <3>1. f.op \notin sub
      BY <1>1, <2>1
    <3> HIDE DEF sub
    <3>2. /\ PendingIn(t, sub) = PendingIn(s, sub) + (IF f.op \in sub THEN 1 ELSE 0)
          /\ PendingIn(s, sub) \in Nat
      BY <1>1, PendingProps
    <3> QED
      BY <3>2 DEF sub
  <2> QED
    BY <1>1, <2>1, <2>2
<1>4. /\ PendingIn(t, Attempting)
           = PendingIn(s, Attempting) + (IF f.op \in Attempting THEN 1 ELSE 0)
      /\ PendingIn(s, Attempting) \in Nat
  BY <1>1, PendingProps
<1> HIDE DEF t
<1>5. socketConnected => NoSubscribe(t)
  BY <1>1, <1>2 DEF Suited, NoSubscribe
<1>6. Settled(s) => Settled(t)
  BY <1>1, <1>2 DEF Settled, SettledFrame
<1>7. FrameAcks(t) \subseteq FrameAcks(s)
  BY <1>1, <1>2, NoAcks DEF FrameAcks
<1>8. Suited(t)
  BY <1>2, <1>3, <1>5, <1>6, <1>7 DEF Suited
<1> QED
  BY <1>1, <1>2, <1>4, <1>8 DEF t, f

LEMMA BaseSuits ==
    ASSUME MqttInv
    PROVE  /\ stack \in Seq(SmallFrame)
           /\ stack # <<>> =>
                 /\ Suited(Rest) /\ Head(stack) \in SmallFrame
                 /\ FramesIn(stack) = {Head(stack)} \cup FramesIn(Rest)
                 /\ \A ops : PendingIn(stack, ops)
                       = PendingIn(Rest, ops) + (IF Head(stack).op \in ops THEN 1 ELSE 0)
                 /\ \A ops : PendingIn(Rest, ops) \in Nat
           /\ \A ops : PendingIn(stack, ops) \in Nat
           /\ stack = <<>> \/ Head(stack).op \notin {"messages", "subscribe"} => Suited(stack)
<1>1. stack \in Seq(SmallFrame) /\ \A ops : PendingIn(stack, ops) \in Nat
  <2>1. stack \in Seq(SmallFrame)
    BY DEF MqttInv, Typed, TypedStack
  <2> QED
    BY <2>1, PendingProps
<1>2. ASSUME stack # <<>>
      PROVE  /\ Suited(Rest) /\ Head(stack) \in SmallFrame
             /\ FramesIn(stack) = {Head(stack)} \cup FramesIn(Rest)
             /\ \A ops : PendingIn(stack, ops)
                   = PendingIn(Rest, ops) + (IF Head(stack).op \in ops THEN 1 ELSE 0)
             /\ \A ops : PendingIn(Rest, ops) \in Nat
  <2> DEFINE h == Head(stack)
             t == Tail(stack)
  <2>1. /\ h \in SmallFrame /\ t \in Seq(SmallFrame) /\ stack = Push(h, t)
        /\ FramesIn(stack) = {h} \cup FramesIn(t)
    BY <1>1, <1>2, PopProps
  <2>2. t = Rest /\ h = Head(stack)
    BY DEF Rest
  <2> HIDE DEF h, t
  <2>3. ASSUME NEW ops
        PROVE  /\ PendingIn(stack, ops) = PendingIn(t, ops) + (IF h.op \in ops THEN 1 ELSE 0)
               /\ PendingIn(t, ops) \in Nat
    <3>1. /\ PendingIn(Push(h, t), ops) = PendingIn(t, ops) + (IF h.op \in ops THEN 1 ELSE 0)
          /\ PendingIn(t, ops) \in Nat
      BY <2>1, PendingProps
    <3> QED
      BY <2>1, <3>1
  <2>4. socketConnected => NoSubscribe(t)
    BY <1>2, <2>2 DEF MqttInv, Linked, NoSubscribe
  <2>5. ~setting.split => Settled(t)
    <3> SUFFICES ASSUME ~setting.split, NEW f \in FramesIn(t) PROVE SettledFrame(f)
      BY DEF Settled
    <3>1. FrameWhole(f)
      BY <2>1 DEF MqttInv, WholeInv, WholeBytes
    <3>2. t # <<>>
      BY EmptyStack
    <3> QED
      BY <2>2, <3>1, <3>2 DEF FrameWhole, SettledFrame
  <2>6. FrameAcks(t) \subseteq FrameAcks(stack)
    BY <2>1 DEF FrameAcks
  <2>7. PendingIn(t, {"subscribe"}) <= PendingIn(stack, {"subscribe"})
    BY <2>3
  <2>8. Suited(t)
    BY <2>1, <2>4, <2>5, <2>6, <2>7 DEF Suited
  <2> QED
    BY <2>1, <2>2, <2>3, <2>8
<1>3. ASSUME stack = <<>> PROVE Suited(stack)
  BY <1>1, <1>3, EmptyStack DEF Suited, NoSubscribe, Settled
<1>4. ASSUME stack # <<>>, Head(stack).op \notin {"messages", "subscribe"} PROVE Suited(stack)
  <2>1. FramesIn(stack) = {Head(stack)} \cup FramesIn(Rest) /\ Suited(Rest)
    BY <1>2, <1>4
  <2>2. socketConnected => NoSubscribe(stack)
    BY <1>4, <2>1 DEF Suited, NoSubscribe
  <2>3. ASSUME ~setting.split PROVE Settled(stack)
    <3>1. FrameWhole(Head(stack))
      BY <2>1, <2>3 DEF MqttInv, WholeInv, WholeBytes
    <3>2. SettledFrame(Head(stack))
      BY <1>4, <3>1 DEF FrameWhole, SettledFrame
    <3> QED
      BY <2>1, <2>3, <3>2 DEF Suited, Settled
  <2> QED
    BY <1>1, <2>2, <2>3 DEF Suited
<1> QED
  BY <1>1, <1>2, <1>3, <1>4

-----------------------------------------------------------------------------
(* Steps that change nothing the broker or the store of requests knows. *)

LEMMA UnderWayIds ==
    ASSUME MqttInv
    PROVE  UnderWay = IdsUnderWay /\ AcksUnderWay = AcksIn(wire) \cup FrameAcks(stack)
<1>1. DOMAIN stack = 1 .. Len(stack) /\ DOMAIN unacked = 1 .. Len(unacked)
  BY LenProperties DEF MqttInv, Typed, TypedStack, TypedRequests
<1>2. {AcksIn(stack[i].buffer) : i \in DOMAIN stack} = {AcksIn(f.buffer) : f \in FramesIn(stack)}
  BY <1>1 DEF FramesIn
<1> QED
  BY <1>1, <1>2 DEF UnderWay, IdsUnderWay, AcksUnderWay, FrameAcks

LEMMA IdsGrow ==
    ASSUME TypedRequests, NEW m \in Nat, NEW n \in Nat, m <= n
    PROVE  IdsOfNext(m) \subseteq IdsOfNext(n)
<1>1. nextMessageId \in Nat /\ MaxMessageId \in Nat
  BY Bounds DEF TypedRequests
<1> QED
  BY <1>1 DEF IdsOfNext

LEMMA Counters ==
    ASSUME TypedClient
    PROVE  /\ calls < setting.calls /\ calls' = calls + 1 => calls' \in 0 .. setting.calls
           /\ Fails => faults' \in 0 .. setting.faults
           /\ UNCHANGED faults => faults' \in 0 .. setting.faults
           /\ UNCHANGED calls => calls' \in 0 .. setting.calls
<1>1. /\ setting.calls \in Nat /\ setting.faults \in Nat
      /\ calls \in 0 .. setting.calls /\ faults \in 0 .. setting.faults
  BY Bounds DEF TypedClient
<1> QED
  BY <1>1 DEF Fails

\* What a step leaves alone when all it does is in the client's own code.
Quiet ==
    /\ setting' = setting /\ socketConnected' = socketConnected
    /\ clientSocket' = clientSocket /\ open' = open /\ connecting' = connecting
    /\ outgoingStore' = outgoingStore /\ nextMessageId' = nextMessageId
    /\ requests' = requests /\ answered' = answered /\ unsent' = unsent
    /\ unacked' = unacked /\ acked' = acked
    /\ wire' = wire /\ session' = session /\ published' = published

LEMMA StackStep ==
    ASSUME MqttInv, Quiet,
           connected' \in BOOLEAN, destroyed' \in BOOLEAN,
           keepAliveTimer' \in BOOLEAN, connectAckTimer' \in BOOLEAN,
           calls' \in 0 .. setting.calls, faults' \in 0 .. setting.faults,
           lastBuffer' \in Seq(SmallByte), received' \in Seq(Numbers),
           queries' \in Nat, queries' + PendingIn(stack', Attempting) <= MaxSockets,
           connectAckTimer' => connectAckTimer,
           clientSocket # None => connected' \/ connectAckTimer' \/ Ends(stack'),
           stack' \in Seq(SmallFrame),
           socketConnected /\ stack' # <<>> => NoSubscribe(Tail(stack')),
           ~setting.split => /\ lastBuffer' = <<>>
                             /\ connected' => session = "up" /\ NoTeardown(stack')
                             /\ Settled(stack') /\ FrameAcks(stack') \subseteq FrameAcks(stack)
                             /\ IdsOfNext(PendingIn(stack', {"subscribe"})) \cap IdsUnderWay = {}
    PROVE  MqttInv'
<1>1. TypedClient'
  BY DEF MqttInv, Typed, TypedClient, Quiet
<1>2. TypedRequests'
  BY DEF MqttInv, Typed, TypedRequests, Quiet
<1>3. TypedBytes' /\ TypedStack'
  BY DEF MqttInv, Typed, TypedBytes, TypedStack, Quiet
<1>4. Bounded'
  BY DEF MqttInv, Bounded, Quiet, Ends
<1>5. Linked'
  <2>1. Rest' = Tail(stack')
    BY DEF Rest
  <2> QED
    BY <2>1 DEF MqttInv, Linked, Quiet, NoSubscribe
<1>6. ASSUME ~setting.split PROVE WholeInv'
  <2>1. WholeInv
    BY <1>6 DEF MqttInv
  <2>2. ASSUME NEW f \in FramesIn(stack') PROVE FrameWhole(f)'
    BY <1>6, <2>2 DEF Settled, SettledFrame, FrameWhole
  <2>3. WholeBytes'
    BY <1>6, <2>1, <2>2 DEF WholeInv, WholeBytes, Quiet
  <2>4. Connected'
    BY <1>6 DEF Connected, NoTeardown, Quiet
  <2>5. AcksUnderWay' \subseteq AcksUnderWay
    <3>1. AcksUnderWay' = AcksIn(wire) \cup FrameAcks(stack')
      BY DEF AcksUnderWay, FrameAcks, Quiet
    <3>2. AcksUnderWay = AcksIn(wire) \cup FrameAcks(stack)
      BY UnderWayIds
    <3> QED
      BY <1>6, <3>1, <3>2
  <2>6. IdsUnderWay' \subseteq IdsUnderWay
    BY <2>5 DEF IdsUnderWay, Quiet
  <2>7. Reserved'
    <3> DEFINE n == PendingIn(stack', {"subscribe"})
    <3>1. IdsOfNext(n) \cap IdsUnderWay = {}
      BY <1>6
    <3>2. Reserved' = (IdsOfNext(n) \cap IdsUnderWay' = {})
      BY DEF Reserved, IdsOfNext, Quiet
    <3> HIDE DEF n
    <3> QED
      BY <2>6, <3>1, <3>2
  <2>8. Matched'
    BY <2>1, <2>5 DEF WholeInv, Matched, Quiet
  <2>9. Once'
    BY <2>1 DEF WholeInv, Once, Quiet
  <2> QED
    BY <2>3, <2>4, <2>7, <2>8, <2>9 DEF WholeInv
<1>7. setting' = setting
  BY DEF Quiet
<1> QED
  BY <1>1, <1>2, <1>3, <1>4, <1>5, <1>6, <1>7 DEF MqttInv, Typed

LEMMA SuitedStep ==
    ASSUME MqttInv, Quiet, Suited(stack'),
           connected' \in BOOLEAN, destroyed' \in BOOLEAN,
           keepAliveTimer' \in BOOLEAN, connectAckTimer' \in BOOLEAN,
           calls' \in 0 .. setting.calls, faults' \in 0 .. setting.faults,
           lastBuffer' \in Seq(SmallByte), received' \in Seq(Numbers),
           queries' \in Nat, queries' + PendingIn(stack', Attempting) <= MaxSockets,
           connectAckTimer' => connectAckTimer,
           clientSocket # None => connected' \/ connectAckTimer' \/ Ends(stack'),
           ~setting.split => /\ lastBuffer' = <<>>
                             /\ connected' => session = "up" /\ NoTeardown(stack')
    PROVE  MqttInv'
<1>1. stack' \in Seq(SmallFrame)
  BY DEF Suited
<1>2. ASSUME socketConnected, stack' # <<>> PROVE NoSubscribe(Tail(stack'))
  <2> DEFINE s == stack'
  <2>1. NoSubscribe(s) /\ s \in Seq(SmallFrame) /\ s # <<>>
    BY <1>2 DEF Suited
  <2> HIDE DEF s
  <2>2. FramesIn(Tail(s)) \subseteq FramesIn(s)
    BY <2>1, PopProps
  <2> QED
    BY <2>1, <2>2 DEF s, NoSubscribe
<1>3. ASSUME ~setting.split
      PROVE  IdsOfNext(PendingIn(stack', {"subscribe"})) \cap IdsUnderWay = {}
  <2> DEFINE n == PendingIn(stack', {"subscribe"})
             m == PendingIn(stack, {"subscribe"})
  <2>1. n \in Nat /\ m \in Nat /\ n <= m
    <3>1. n \in Nat
      BY <1>1, PendingProps
    <3>2. m \in Nat
      BY BaseSuits
    <3> QED
      BY <3>1, <3>2 DEF Suited
  <2>2. IdsOfNext(m) \cap IdsUnderWay = {}
    BY <1>3 DEF MqttInv, WholeInv, Reserved
  <2>3. TypedRequests
    BY DEF MqttInv, Typed
  <2> HIDE DEF n, m
  <2>4. IdsOfNext(n) \subseteq IdsOfNext(m)
    BY <2>1, <2>3, IdsGrow
  <2> QED
    BY <2>2, <2>4 DEF n
<1>4. ~setting.split => Settled(stack') /\ FrameAcks(stack') \subseteq FrameAcks(stack)
  BY DEF Suited
<1> QED
  BY <1>1, <1>2, <1>3, <1>4, StackStep

-----------------------------------------------------------------------------
(* The client's own code, step by step. *)

LEMMA TypedFacts ==
    ASSUME MqttInv
    PROVE  /\ connected \in BOOLEAN /\ destroyed \in BOOLEAN /\ keepAliveTimer \in BOOLEAN
           /\ connectAckTimer \in BOOLEAN /\ socketConnected \in BOOLEAN
           /\ lastBuffer \in Seq(SmallByte) /\ received \in Seq(Numbers)
           /\ queries \in Nat /\ queries + PendingIn(stack, Attempting) <= MaxSockets
           /\ PendingIn(stack, Attempting) \in Nat /\ MaxSockets \in Nat
           /\ clientSocket # None => connected \/ connectAckTimer \/ Ends(stack)
           /\ ~setting.split => /\ lastBuffer = <<>>
                                /\ connected => session = "up" /\ NoTeardown(stack)
           /\ TypedClient
<1>1. PendingIn(stack, Attempting) \in Nat /\ MaxSockets \in Nat
  BY BaseSuits, Bounds
<1>2. ~setting.split => lastBuffer = <<>> /\ (connected => session = "up" /\ NoTeardown(stack))
  BY DEF MqttInv, WholeInv, WholeBytes, Connected, NoTeardown
<1>3. clientSocket # None => connected \/ connectAckTimer \/ Ends(stack)
  BY DEF MqttInv, Bounded, Ends
<1> QED
  BY <1>1, <1>2, <1>3 DEF MqttInv, Typed, TypedClient, TypedBytes, TypedStack

LEMMA DisconnectStep ==
    ASSUME MqttInv, Disconnect, setting' = setting
    PROVE  MqttInv'
<1> DEFINE op == IF connected THEN "offline" ELSE "teardown"
           a == Push(FrameOf(op), Rest)
           b == Push(UserFrame, a)
<1>1. stack # <<>> /\ Head(stack).op = "disconnect" /\ Suited(Rest)
  BY BaseSuits DEF Disconnect, Running
<1>2. /\ PendingIn(stack, Attempting) = PendingIn(Rest, Attempting)
      /\ PendingIn(Rest, Attempting) \in Nat
  BY <1>1, BaseSuits DEF Attempting
<1>3. op \in {"offline", "teardown"} /\ FrameOf(op).op = op
  BY DEF FrameOf
<1>4. op \in Ops \ {"messages", "subscribe"} /\ op \notin Attempting /\ op \in Ending
  BY <1>3 DEF Ops, Attempting, Ending
<1> HIDE DEF op
<1>5. /\ Suited(a) /\ FramesIn(a) = {FrameOf(op)} \cup FramesIn(Rest)
      /\ PendingIn(a, Attempting) = PendingIn(Rest, Attempting)
  BY <1>1, <1>4, PushSuits
<1> HIDE DEF a
<1>6. /\ Suited(b) /\ FramesIn(b) = {UserFrame} \cup FramesIn(a)
      /\ PendingIn(b, Attempting) = PendingIn(a, Attempting)
  BY <1>5, PushSuits DEF Ops, Attempting, UserFrame
<1> HIDE DEF b
<1>7. Ends(a) /\ Ends(b)
  BY <1>3, <1>4, <1>5, <1>6 DEF Ends
<1>8. stack' = a \/ stack' = b
  BY DEF Disconnect, PushIf, a, b, op
<1>9. Suited(stack') /\ Ends(stack') /\ PendingIn(stack', Attempting) = PendingIn(stack, Attempting)
  BY <1>2, <1>5, <1>6, <1>7, <1>8
<1>10. Quiet
  BY DEF Disconnect, Quiet, requestVars, brokerVars, socketVars
<1> QED
  BY <1>9, <1>10, SuitedStep, TypedFacts, Counters
  DEF Disconnect, socketVars, dataVars, clientVars

LEMMA OfflineStep ==
    ASSUME MqttInv, Offline, setting' = setting
    PROVE  MqttInv'
<1> DEFINE a == Push(FrameOf("teardown"), Rest)
           b == Push(UserFrame, a)
<1>1. stack # <<>> /\ Head(stack).op = "offline" /\ Suited(Rest)
  BY BaseSuits DEF Offline, Running
<1>2. /\ PendingIn(stack, Attempting) = PendingIn(Rest, Attempting)
      /\ PendingIn(Rest, Attempting) \in Nat
      /\ FramesIn(stack) = {Head(stack)} \cup FramesIn(Rest)
  BY <1>1, BaseSuits DEF Attempting
<1>3. /\ Suited(a) /\ FramesIn(a) = {FrameOf("teardown")} \cup FramesIn(Rest)
      /\ PendingIn(a, Attempting) = PendingIn(Rest, Attempting)
  BY <1>1, PushSuits DEF Ops, Attempting
<1> HIDE DEF a
<1>4. /\ Suited(b) /\ FramesIn(b) = {UserFrame} \cup FramesIn(a)
      /\ PendingIn(b, Attempting) = PendingIn(a, Attempting)
  BY <1>3, PushSuits DEF Ops, Attempting, UserFrame
<1> HIDE DEF b
<1>5. FrameOf("teardown").op = "teardown"
  BY DEF FrameOf
<1>6. Ends(b)
  BY <1>3, <1>4, <1>5 DEF Ends, Ending
<1>7. stack' = b
  BY DEF Offline, a, b
<1>8. ~setting.split => ~connected
  BY <1>1, <1>2, TypedFacts DEF NoTeardown, Teardowns
<1>9. Quiet
  BY DEF Offline, Quiet, clientVars, requestVars, brokerVars, socketVars
<1>10. Suited(stack') /\ Ends(stack') /\ PendingIn(stack', Attempting) = PendingIn(stack, Attempting)
  BY <1>2, <1>3, <1>4, <1>6, <1>7
<1> QED
  BY <1>8, <1>9, <1>10, SuitedStep, TypedFacts, Counters
  DEF Offline, socketVars, dataVars, clientVars

LEMMA ReconnectStep ==
    ASSUME MqttInv, Reconnect, setting' = setting
    PROVE  MqttInv'
<1> DEFINE a == Push(FrameOf("connect"), Rest)
           b == Push(FrameOf("disconnect"), a)
<1>1. stack # <<>> /\ Head(stack).op = "reconnect" /\ Suited(Rest)
  BY BaseSuits DEF Reconnect, Running
<1>2. /\ PendingIn(stack, Attempting) = PendingIn(Rest, Attempting) + 1
      /\ PendingIn(Rest, Attempting) \in Nat
      /\ FramesIn(stack) = {Head(stack)} \cup FramesIn(Rest)
  BY <1>1, BaseSuits DEF Attempting
<1>3. /\ Suited(a) /\ FramesIn(a) = {FrameOf("connect")} \cup FramesIn(Rest)
      /\ PendingIn(a, Attempting) = PendingIn(Rest, Attempting) + 1
  BY <1>1, PushSuits DEF Ops, Attempting
<1> HIDE DEF a
<1>4. /\ Suited(b) /\ FramesIn(b) = {FrameOf("disconnect")} \cup FramesIn(a)
      /\ PendingIn(b, Attempting) = PendingIn(a, Attempting)
  <2>1. PendingIn(a, Attempting) \in Nat
    BY <1>2, <1>3
  <2> QED
    BY <1>3, <2>1, PushSuits DEF Ops, Attempting
<1> HIDE DEF b
<1>5. FrameOf("disconnect").op = "disconnect"
  BY DEF FrameOf
<1>6. Ends(b)
  BY <1>4, <1>5 DEF Ends, Ending
<1>7. stack' = b
  BY DEF Reconnect, a, b
<1>8. ~setting.split => ~connected
  BY <1>1, <1>2, TypedFacts DEF NoTeardown, Teardowns
<1>9. Quiet
  BY DEF Reconnect, Quiet, clientVars, requestVars, brokerVars, socketVars
<1>10. Suited(stack') /\ Ends(stack') /\ PendingIn(stack', Attempting) = PendingIn(stack, Attempting)
  BY <1>2, <1>3, <1>4, <1>6, <1>7
<1> QED
  BY <1>8, <1>9, <1>10, SuitedStep, TypedFacts, Counters
  DEF Reconnect, socketVars, dataVars, clientVars

LEMMA ClosedStep ==
    ASSUME MqttInv, Closed, setting' = setting
    PROVE  MqttInv'
<1> DEFINE b == Push(UserFrame, Rest)
<1>1. stack # <<>> /\ Head(stack).op = "closed" /\ Suited(Rest)
  BY BaseSuits DEF Closed, Running
<1>2. /\ PendingIn(stack, Attempting) = PendingIn(Rest, Attempting)
      /\ PendingIn(Rest, Attempting) \in Nat
      /\ FramesIn(stack) = {Head(stack)} \cup FramesIn(Rest)
  BY <1>1, BaseSuits DEF Attempting
<1>3. /\ Suited(b) /\ FramesIn(b) = {UserFrame} \cup FramesIn(Rest)
      /\ PendingIn(b, Attempting) = PendingIn(Rest, Attempting)
  BY <1>1, PushSuits DEF Ops, Attempting, UserFrame
<1> HIDE DEF b
<1>4. UserFrame.op = "user"
  BY DEF FrameOf, UserFrame
<1>5. stack' = b
  BY DEF Closed, b
<1>6. Ends(stack) => Ends(b)
  BY <1>1, <1>2, <1>3 DEF Ends, Ending
<1>7. NoTeardown(stack) => NoTeardown(b)
  BY <1>2, <1>3, <1>4 DEF NoTeardown, Teardowns
<1>8. Quiet
  BY DEF Closed, Quiet, clientVars, requestVars, brokerVars, socketVars
<1>9. /\ Suited(stack') /\ PendingIn(stack', Attempting) = PendingIn(stack, Attempting)
      /\ Ends(stack) => Ends(stack')
      /\ NoTeardown(stack) => NoTeardown(stack')
  BY <1>2, <1>3, <1>5, <1>6, <1>7
<1> QED
  BY <1>8, <1>9, SuitedStep, TypedFacts, Counters
  DEF Closed, socketVars, dataVars, clientVars

\* The frame of the event listener that has returned, or of the loop that has ended, goes.
LEMMA PopStep ==
    ASSUME MqttInv, Quiet, stack # <<>>, Head(stack).op \in {"user", "messages"}, stack' = Rest,
           connected' = connected, destroyed' = destroyed, keepAliveTimer' = keepAliveTimer,
           connectAckTimer' = connectAckTimer, queries' = queries, received' = received,
           calls' = calls, faults' = faults,
           lastBuffer' \in Seq(SmallByte), ~setting.split => lastBuffer' = lastBuffer
    PROVE  MqttInv'
<1>1. /\ PendingIn(stack, Attempting) = PendingIn(Rest, Attempting)
      /\ FramesIn(stack) = {Head(stack)} \cup FramesIn(Rest)
      /\ Suited(Rest)
  BY BaseSuits DEF Attempting
<1>2. Ends(stack) => Ends(Rest)
  BY <1>1 DEF Ends, Ending
<1>3. NoTeardown(stack) => NoTeardown(Rest)
  BY <1>1 DEF NoTeardown
<1>4. /\ Suited(stack') /\ PendingIn(stack', Attempting) = PendingIn(stack, Attempting)
      /\ Ends(stack) => Ends(stack')
      /\ NoTeardown(stack) => NoTeardown(stack')
  BY <1>1, <1>2, <1>3
<1>5. /\ calls' \in 0 .. setting.calls /\ faults' \in 0 .. setting.faults
  BY TypedFacts, Counters
<1> QED
  BY <1>4, <1>5, SuitedStep, TypedFacts

LEMMA ReturnStep ==
    ASSUME MqttInv, Return \/ EndMessages, setting' = setting
    PROVE  MqttInv'
<1>1. Quiet
  BY DEF Return, EndMessages, Quiet, clientVars, requestVars, brokerVars, socketVars
<1> QED
  BY <1>1, PopStep, TypedFacts
  DEF Return, EndMessages, Running, clientVars, socketVars, dataVars

-----------------------------------------------------------------------------
(* Errors, timers and calls by user code. *)

LEMMA ErrorSuits ==
    ASSUME NEW s, Suited(s)
    PROVE  LET t == ErrorEvent(s)
           IN  /\ Suited(t) /\ Ends(t) /\ (NoTeardown(s) => NoTeardown(t))
               /\ PendingIn(t, Attempting) = PendingIn(s, Attempting)
               /\ PendingIn(t, {"subscribe"}) = PendingIn(s, {"subscribe"})
               /\ FrameAcks(t) = FrameAcks(s)
<1> DEFINE a == Push(FrameOf("disconnect"), s)
           b == Push(UserFrame, a)
<1>1. /\ Suited(a) /\ FramesIn(a) = {FrameOf("disconnect")} \cup FramesIn(s)
      /\ PendingIn(a, Attempting) = PendingIn(s, Attempting)
      /\ PendingIn(s, Attempting) \in Nat
  BY PushSuits DEF Ops, Attempting
<1>2. PendingIn(a, {"subscribe"}) = PendingIn(s, {"subscribe"})
      /\ PendingIn(s, {"subscribe"}) \in Nat
  <2> DEFINE sub == {"subscribe"}
             f == FrameOf("disconnect")
  <2>1. f \in SmallFrame /\ f.op \notin sub /\ s \in Seq(SmallFrame)
    BY PlainFrames DEF Ops, Suited
  <2> HIDE DEF sub, f
  <2>2. /\ PendingIn(Push(f, s), sub) = PendingIn(s, sub) + (IF f.op \in sub THEN 1 ELSE 0)
        /\ PendingIn(s, sub) \in Nat
    BY <2>1, PendingPush
  <2> QED
    BY <2>1, <2>2 DEF sub, f
<1> HIDE DEF a
<1>3. /\ Suited(b) /\ FramesIn(b) = {UserFrame} \cup FramesIn(a)
      /\ PendingIn(b, Attempting) = PendingIn(a, Attempting)
  BY <1>1, PushSuits DEF Ops, Attempting, UserFrame
<1>4. PendingIn(b, {"subscribe"}) = PendingIn(a, {"subscribe"})
  <2> DEFINE sub == {"subscribe"}
             f == UserFrame
  <2>1. f \in SmallFrame /\ f.op \notin sub /\ a \in Seq(SmallFrame)
    BY <1>1, PlainFrames DEF Ops, Suited, UserFrame
  <2> HIDE DEF sub, f
  <2>2. /\ PendingIn(Push(f, a), sub) = PendingIn(a, sub) + (IF f.op \in sub THEN 1 ELSE 0)
        /\ PendingIn(a, sub) \in Nat
    BY <2>1, PendingPush
  <2> QED
    BY <2>1, <2>2 DEF sub, f
<1> HIDE DEF b
<1>5. FrameOf("disconnect").op = "disconnect" /\ FrameOf("disconnect").buffer = <<>>
      /\ UserFrame.op = "user" /\ UserFrame.buffer = <<>>
  BY DEF FrameOf, UserFrame
<1>6. Ends(b)
  BY <1>1, <1>3, <1>5 DEF Ends, Ending
<1>7. NoTeardown(s) => NoTeardown(b)
  BY <1>1, <1>3, <1>5 DEF NoTeardown, Teardowns
<1>8. FrameAcks(b) = FrameAcks(s)
  BY <1>1, <1>3, <1>5, NoAcks DEF FrameAcks
<1>9. ErrorEvent(s) = b
  BY DEF ErrorEvent, a, b
<1> QED
  BY <1>1, <1>2, <1>3, <1>4, <1>6, <1>7, <1>8, <1>9

\* An error outside of any other code of the client.
LEMMA ErrorStep ==
    ASSUME MqttInv, Quiet, stack = <<>>, stack' = ErrorEvent(stack),
           connected' = connected, destroyed' = destroyed, keepAliveTimer' = keepAliveTimer,
           connectAckTimer' = connectAckTimer, received' = received, lastBuffer' = lastBuffer,
           calls' = calls, Fails \/ UNCHANGED faults,
           queries' \in Nat, queries' <= queries
    PROVE  MqttInv'
<1>1. /\ Suited(ErrorEvent(stack)) /\ Ends(ErrorEvent(stack))
      /\ NoTeardown(stack) => NoTeardown(ErrorEvent(stack))
      /\ PendingIn(ErrorEvent(stack), Attempting) = PendingIn(stack, Attempting)
  BY BaseSuits, ErrorSuits
<1>2. /\ Suited(stack') /\ Ends(stack') /\ (NoTeardown(stack) => NoTeardown(stack'))
      /\ PendingIn(stack', Attempting) = PendingIn(stack, Attempting)
  BY <1>1
<1>3. /\ calls' \in 0 .. setting.calls /\ faults' \in 0 .. setting.faults
  BY TypedFacts, Counters
<1> QED
  BY <1>2, <1>3, SuitedStep, TypedFacts

LEMMA ConnectTimeoutStep ==
    ASSUME MqttInv, ConnectTimeout, setting' = setting
    PROVE  MqttInv'
<1>1. Quiet
  BY DEF ConnectTimeout, Quiet, clientVars, requestVars, brokerVars, socketVars
<1> QED
  BY <1>1, ErrorStep, TypedFacts DEF ConnectTimeout, clientVars, socketVars, dataVars

LEMMA ReadFailsStep ==
    ASSUME MqttInv, ReadFails, setting' = setting
    PROVE  MqttInv'
<1>1. Quiet
  BY DEF ReadFails, Quiet, clientVars, requestVars, brokerVars, socketVars
<1> QED
  BY <1>1, ErrorStep, TypedFacts DEF ReadFails, clientVars, socketVars, dataVars

LEMMA CheckKeepAliveStep ==
    ASSUME MqttInv, CheckKeepAlive, setting' = setting
    PROVE  MqttInv'
<1>1. Quiet
  BY DEF CheckKeepAlive, Quiet, clientVars, requestVars, brokerVars, socketVars
<1>2. CASE Fails /\ stack' = ErrorEvent(stack)
  BY <1>1, <1>2, ErrorStep, TypedFacts DEF CheckKeepAlive, clientVars, socketVars, dataVars
<1>3. CASE /\ ~connected /\ ~connectAckTimer /\ MayAttempt
           /\ Fails \/ UNCHANGED faults
           /\ stack' = Push(UserFrame, << FrameOf("reconnect") >>)
  <2> DEFINE a == Push(FrameOf("reconnect"), stack)
             b == Push(UserFrame, a)
  <2>1. stack = <<>> /\ Suited(stack) /\ PendingIn(stack, Attempting) = 0
    BY BaseSuits, EmptyStack DEF CheckKeepAlive
  <2>2. /\ Suited(a) /\ FramesIn(a) = {FrameOf("reconnect")} \cup FramesIn(stack)
        /\ PendingIn(a, Attempting) = PendingIn(stack, Attempting) + 1
    BY <2>1, PushSuits DEF Ops, Attempting
  <2>3. << FrameOf("reconnect") >> = a
    BY <2>1, EmptyStack, PlainFrames DEF Ops
  <2> HIDE DEF a
  <2>4. PendingIn(a, Attempting) = 1
    BY <2>1, <2>2
  <2>5. /\ Suited(b) /\ FramesIn(b) = {UserFrame} \cup FramesIn(a)
        /\ PendingIn(b, Attempting) = PendingIn(a, Attempting)
    BY <2>2, <2>4, PushSuits DEF Ops, Attempting, UserFrame
  <2>6. stack' = b
    BY <1>3, <2>3
  <2> HIDE DEF b
  <2>7. FrameOf("reconnect").op = "reconnect"
    BY DEF FrameOf
  <2>8. Ends(b)
    BY <2>2, <2>5, <2>7 DEF Ends, Ending
  <2>9. Suited(stack') /\ Ends(stack') /\ PendingIn(stack', Attempting) = 1
    BY <2>4, <2>5, <2>6, <2>8
  <2>10. queries + 0 < MaxSockets
    BY <1>3, <2>1 DEF MayAttempt, Attempts, Pending, PendingIn, Attempting
  <2>11. /\ calls' \in 0 .. setting.calls /\ faults' \in 0 .. setting.faults
    BY <1>3, TypedFacts, Counters DEF CheckKeepAlive
  <2> QED
    BY <1>1, <1>3, <2>9, <2>10, <2>11, SuitedStep, TypedFacts
    DEF CheckKeepAlive, clientVars, socketVars, dataVars
<1> QED
  BY <1>2, <1>3 DEF CheckKeepAlive

LEMMA MayCallFacts ==
    ASSUME MqttInv, MayCall
    PROVE  /\ Suited(stack)
           /\ calls' \in 0 .. setting.calls
           /\ stack = <<>> \/ Head(stack).op = "user"
           /\ socketConnected => NoSubscribe(stack)
<1>1. stack = <<>> \/ Head(stack).op = "user"
  BY DEF MayCall, Running
<1>2. Suited(stack)
  BY <1>1, BaseSuits
<1> QED
  BY <1>1, <1>2, TypedFacts, Counters DEF MayCall, Suited

LEMMA UserConnectStep ==
    ASSUME MqttInv, UserConnect, setting' = setting
    PROVE  MqttInv'
<1> DEFINE b == Push(FrameOf("connect"), stack)
<1>1. Suited(stack) /\ calls' \in 0 .. setting.calls
  BY MayCallFacts DEF UserConnect
<1>2. /\ Suited(b) /\ FramesIn(b) = {FrameOf("connect")} \cup FramesIn(stack)
      /\ PendingIn(b, Attempting) = PendingIn(stack, Attempting) + 1
  BY <1>1, PushSuits DEF Ops, Attempting
<1> HIDE DEF b
<1>3. FrameOf("connect").op = "connect"
  BY DEF FrameOf
<1>4. Ends(b)
  BY <1>2, <1>3 DEF Ends, Ending
<1>5. stack' = b
  BY DEF UserConnect, b
<1>6. Suited(stack') /\ Ends(stack') /\ PendingIn(stack', Attempting) = PendingIn(stack, Attempting) + 1
  BY <1>2, <1>4, <1>5
<1>7. queries + PendingIn(stack, Attempting) < MaxSockets
  BY DEF UserConnect, MayAttempt, Attempts, Pending, PendingIn, Attempting
<1>8. Quiet
  BY DEF UserConnect, Quiet, clientVars, requestVars, brokerVars, socketVars
<1>9. queries' + PendingIn(stack', Attempting) <= MaxSockets
  BY <1>6, <1>7, TypedFacts DEF UserConnect, socketVars
<1>10. faults' \in 0 .. setting.faults
  BY TypedFacts, Counters DEF UserConnect
<1> QED
  BY <1>1, <1>6, <1>8, <1>9, <1>10, SuitedStep, TypedFacts
  DEF UserConnect, socketVars, dataVars, clientVars

LEMMA UserCloseStep ==
    ASSUME MqttInv, UserClose, setting' = setting
    PROVE  MqttInv'
<1> DEFINE a == Push(FrameOf("closed"), stack)
           b == Push(FrameOf("disconnect"), a)
           c == ErrorEvent(b)
<1>1. Suited(stack) /\ calls' \in 0 .. setting.calls
  BY MayCallFacts DEF UserClose
<1>2. /\ Suited(a) /\ FramesIn(a) = {FrameOf("closed")} \cup FramesIn(stack)
      /\ PendingIn(a, Attempting) = PendingIn(stack, Attempting)
      /\ PendingIn(stack, Attempting) \in Nat
  BY <1>1, PushSuits DEF Ops, Attempting
<1> HIDE DEF a
<1>3. /\ Suited(b) /\ FramesIn(b) = {FrameOf("disconnect")} \cup FramesIn(a)
      /\ PendingIn(b, Attempting) = PendingIn(a, Attempting)
  BY <1>2, PushSuits DEF Ops, Attempting
<1> HIDE DEF b
<1>4. /\ Suited(c) /\ Ends(c) /\ (NoTeardown(b) => NoTeardown(c))
      /\ PendingIn(c, Attempting) = PendingIn(b, Attempting)
  BY <1>3, ErrorSuits
<1>5. FrameOf("closed").op = "closed" /\ FrameOf("disconnect").op = "disconnect"
  BY DEF FrameOf
<1>6. Ends(b) /\ (NoTeardown(stack) => NoTeardown(b))
  BY <1>2, <1>3, <1>5 DEF Ends, Ending, NoTeardown, Teardowns
<1> HIDE DEF c
<1>7. stack' = b \/ stack' = c
  BY DEF UserClose, a, b, c
<1>8. /\ Suited(stack') /\ Ends(stack') /\ (NoTeardown(stack) => NoTeardown(stack'))
      /\ PendingIn(stack', Attempting) = PendingIn(stack, Attempting)
  BY <1>2, <1>3, <1>4, <1>6, <1>7
<1>9. Quiet
  BY DEF UserClose, Quiet, clientVars, requestVars, brokerVars, socketVars
<1>10. faults' \in 0 .. setting.faults
  BY TypedFacts, Counters DEF UserClose
<1> QED
  BY <1>1, <1>8, <1>9, <1>10, SuitedStep, TypedFacts
  DEF UserClose, socketVars, dataVars, clientVars

\* A subscription that is written later takes one of the ids that are free.
LEMMA UserSubscribeStep ==
    ASSUME MqttInv, UserSubscribe, setting' = setting
    PROVE  MqttInv'
<1> DEFINE f == FrameOf("subscribe")
           a == Push(f, stack)
           b == Push(UserFrame, a)
           sub == {"subscribe"}
           n == PendingIn(stack, sub)
<1>1. /\ Suited(stack) /\ calls' \in 0 .. setting.calls
      /\ socketConnected => NoSubscribe(stack)
      /\ stack \in Seq(SmallFrame)
  BY MayCallFacts DEF UserSubscribe, Suited
<1>2. f \in SmallFrame /\ f.op = "subscribe" /\ f.buffer = <<>>
      /\ UserFrame \in SmallFrame /\ UserFrame.op = "user" /\ UserFrame.buffer = <<>>
  BY PlainFrames DEF Ops, UserFrame
<1>3. n \in Nat /\ PendingIn(stack, Attempting) \in Nat
  BY BaseSuits
<1>4. IdsOfNext(n + 1) \cap IdsUnderWay = {}
  <2>1. Pending(sub) = n
    BY DEF Pending, PendingIn
  <2> QED
    BY <2>1, UnderWayIds DEF UserSubscribe, MayRequest
<1> HIDE DEF f, sub, n
<1>5. /\ a \in Seq(SmallFrame) /\ a # <<>> /\ Tail(a) = stack
      /\ FramesIn(a) = {f} \cup FramesIn(stack)
  BY <1>1, <1>2, PushProps
<1>6. /\ PendingIn(a, Attempting) = PendingIn(stack, Attempting)
      /\ PendingIn(a, sub) = n + 1
  <2>1. \A ops : PendingIn(a, ops) = PendingIn(stack, ops) + (IF f.op \in ops THEN 1 ELSE 0)
    BY <1>1, <1>2, PendingProps
  <2>2. f.op \notin Attempting /\ f.op \in sub
    BY <1>2 DEF Attempting, sub
  <2> HIDE DEF a
  <2> QED
    BY <1>3, <2>1, <2>2 DEF n
<1> HIDE DEF a
<1>7. /\ b \in Seq(SmallFrame) /\ b # <<>> /\ Tail(b) = a
      /\ FramesIn(b) = {UserFrame} \cup FramesIn(a)
  <2> DEFINE u == UserFrame
  <2>1. u \in SmallFrame /\ a \in Seq(SmallFrame)
    BY <1>2, <1>5
  <2> HIDE DEF u
  <2>2. /\ Push(u, a) \in Seq(SmallFrame) /\ Push(u, a) # <<>> /\ Tail(Push(u, a)) = a
        /\ FramesIn(Push(u, a)) = {u} \cup FramesIn(a)
    BY <2>1, PushProps
  <2> QED
    BY <2>2 DEF u
<1>8. /\ PendingIn(b, Attempting) = PendingIn(a, Attempting)
      /\ PendingIn(b, sub) = PendingIn(a, sub)
  <2>1. \A ops : PendingIn(b, ops) = PendingIn(a, ops) + (IF UserFrame.op \in ops THEN 1 ELSE 0)
    BY <1>2, <1>5, PendingProps
  <2>2. UserFrame.op \notin Attempting /\ UserFrame.op \notin sub
    BY <1>2 DEF Attempting, sub
  <2> HIDE DEF b
  <2> QED
    BY <1>3, <1>6, <2>1, <2>2
<1> HIDE DEF b
<1>9. ASSUME NEW s, s = a \/ s = b
      PROVE  /\ s \in Seq(SmallFrame) /\ (Ends(stack) => Ends(s))
             /\ NoTeardown(stack) => NoTeardown(s)
             /\ Settled(stack) => Settled(s)
             /\ FrameAcks(s) = FrameAcks(stack)
             /\ PendingIn(s, Attempting) = PendingIn(stack, Attempting)
             /\ PendingIn(s, sub) = n + 1
  <2>1. \A g \in FramesIn(s) : g \in {f, UserFrame} \cup FramesIn(stack)
    BY <1>5, <1>7, <1>9
  <2>2. FramesIn(stack) \subseteq FramesIn(s)
    BY <1>5, <1>7, <1>9
  <2>3. Ends(stack) => Ends(s)
    BY <2>2 DEF Ends
  <2>4. NoTeardown(stack) => NoTeardown(s)
    BY <1>2, <2>1 DEF NoTeardown, Teardowns
  <2>5. Settled(stack) => Settled(s)
    BY <1>2, <2>1 DEF Settled, SettledFrame
  <2>6. FrameAcks(s) = FrameAcks(stack)
    BY <1>2, <2>1, <2>2, NoAcks DEF FrameAcks
  <2> QED
    BY <1>5, <1>6, <1>7, <1>8, <1>9, <2>3, <2>4, <2>5, <2>6
<1>10. /\ stack' = a \/ stack' = b
       /\ socketConnected => stack' = a
  BY DEF UserSubscribe, PushIf, a, b, f
<1>11. /\ stack' \in Seq(SmallFrame) /\ (Ends(stack) => Ends(stack'))
       /\ NoTeardown(stack) => NoTeardown(stack')
       /\ Settled(stack) => Settled(stack')
       /\ FrameAcks(stack') = FrameAcks(stack)
       /\ PendingIn(stack', Attempting) = PendingIn(stack, Attempting)
       /\ PendingIn(stack', {"subscribe"}) = n + 1
  BY <1>9, <1>10 DEF sub
<1>12. socketConnected => NoSubscribe(Tail(stack'))
  BY <1>1, <1>5, <1>10
<1>13. Quiet
  BY DEF UserSubscribe, Quiet, clientVars, requestVars, brokerVars, socketVars
<1>14. faults' \in 0 .. setting.faults
  BY TypedFacts, Counters DEF UserSubscribe
<1>15. ~setting.split => Settled(stack') /\ FrameAcks(stack') \subseteq FrameAcks(stack)
  BY <1>1, <1>11 DEF Suited
<1>16. IdsOfNext(PendingIn(stack', {"subscribe"})) \cap IdsUnderWay = {}
  BY <1>4, <1>11
<1> QED
  BY <1>1, <1>11, <1>12, <1>13, <1>14, <1>15, <1>16, StackStep, TypedFacts
  DEF UserSubscribe, socketVars, dataVars, clientVars

-----------------------------------------------------------------------------
(* Sockets. *)

LEMMA EmptyWire ==
    /\ <<>> \in Seq(SmallByte) /\ Aligned(<<>>) /\ ~Accepts(<<>>)
    /\ \A T : <<>> \in Seq(T)
    /\ Len(<<>>) = 0 /\ DOMAIN <<>> = {}
<1>1. <<>> \in Seq(SmallByte) /\ Len(<<>>) = 0 /\ \A T : <<>> \in Seq(T)
  BY EmptySeq
<1>2. Aligned(<<>>)
  <2>1. 0 \in Nat /\ Len(<<>>) = 3 * 0
    BY <1>1
  <2>2. /\ \A q \in Nat : ~(q < 0)
        /\ \A k \in 1 .. Len(<<>>) : FALSE
    BY <1>1
  <2> QED
    BY <2>1, <2>2 DEF Aligned
<1>3. DOMAIN <<>> = 1 .. Len(<<>>)
  <2> DEFINE e == <<>>
  <2>1. e \in Seq(SmallByte)
    BY <1>1
  <2> HIDE DEF e
  <2>2. DOMAIN e = 1 .. Len(e)
    BY <2>1, LenProperties
  <2> QED
    BY <2>2 DEF e
<1> QED
  BY <1>1, <1>2, <1>3 DEF Accepts

\* Nothing new is under way, and nothing new is stored.
LEMMA IdsKept ==
    ASSUME MqttInv, ~setting.split, Suited(stack'),
           unacked' = unacked \/ unacked' = <<>>,
           AcksIn(wire') \subseteq AcksIn(wire),
           nextMessageId' = nextMessageId, answered' = answered, unsent' = unsent, acked' = acked,
           outgoingStore' = outgoingStore \/ outgoingStore' = <<>>
    PROVE  Reserved' /\ Matched' /\ Once'
<1>1. AcksUnderWay' \subseteq AcksUnderWay
  <2>1. AcksUnderWay' = AcksIn(wire') \cup FrameAcks(stack')
    BY DEF AcksUnderWay, FrameAcks
  <2>2. AcksUnderWay = AcksIn(wire) \cup FrameAcks(stack)
    BY UnderWayIds
  <2>3. FrameAcks(stack') \subseteq FrameAcks(stack)
    BY DEF Suited
  <2> QED
    BY <2>1, <2>2, <2>3
<1>2. \A j \in 1 .. Len(unacked') : j \in 1 .. Len(unacked) /\ unacked'[j] = unacked[j]
  BY EmptyWire
<1>3. \A id \in DOMAIN outgoingStore' :
         id \in DOMAIN outgoingStore /\ outgoingStore'[id] = outgoingStore[id]
  BY EmptyWire
<1>4. IdsUnderWay' \subseteq IdsUnderWay
  BY <1>1, <1>2 DEF IdsUnderWay
<1>5. Reserved'
  <2> DEFINE n == PendingIn(stack', {"subscribe"})
             m == PendingIn(stack, {"subscribe"})
  <2>1. n \in Nat /\ m \in Nat /\ n <= m
    <3>1. n \in Nat
      BY PendingProps DEF Suited
    <3>2. m \in Nat
      BY BaseSuits
    <3> QED
      BY <3>1, <3>2 DEF Suited
  <2>2. IdsOfNext(m) \cap IdsUnderWay = {}
    BY DEF MqttInv, WholeInv, Reserved
  <2>3. Reserved' = (IdsOfNext(n) \cap IdsUnderWay' = {})
    BY DEF Reserved, IdsOfNext
  <2>4. TypedRequests
    BY DEF MqttInv, Typed
  <2> HIDE DEF n, m
  <2>5. IdsOfNext(n) \subseteq IdsOfNext(m)
    BY <2>1, <2>4, IdsGrow
  <2> QED
    BY <1>4, <2>2, <2>3, <2>5
<1>6. Matched'
  <2>1. Matched
    BY DEF MqttInv, WholeInv
  <2> QED
    BY <1>1, <1>2, <1>3, <2>1 DEF Matched
<1>7. Once'
  <2>1. Once
    BY DEF MqttInv, WholeInv
  <2> QED
    BY <1>3, <2>1 DEF Once
<1> QED
  BY <1>5, <1>6, <1>7

LEMMA SettledWhole ==
    ASSUME Settled(stack')
    PROVE  \A f \in FramesIn(stack') : FrameWhole(f)'
BY DEF Settled, SettledFrame, FrameWhole

LEMMA SuitedRest ==
    ASSUME Suited(stack'), socketConnected
    PROVE  stack' # <<>> => NoSubscribe(Tail(stack'))
<1> SUFFICES ASSUME stack' # <<>> PROVE NoSubscribe(Tail(stack'))
  OBVIOUS
<1> DEFINE s == stack'
<1>1. NoSubscribe(s) /\ s \in Seq(SmallFrame) /\ s # <<>>
  BY DEF Suited
<1> HIDE DEF s
<1>2. FramesIn(Tail(s)) \subseteq FramesIn(s)
  BY <1>1, PopProps
<1> QED
  BY <1>1, <1>2 DEF s, NoSubscribe

LEMMA TeardownStep ==
    ASSUME MqttInv, Teardown, setting' = setting
    PROVE  MqttInv'
<1>1. /\ stack # <<>> /\ Head(stack).op = "teardown" /\ Suited(Rest)
      /\ FramesIn(stack) = {Head(stack)} \cup FramesIn(Rest)
      /\ PendingIn(stack, Attempting) = PendingIn(Rest, Attempting)
  BY BaseSuits DEF Teardown, Running, Attempting
<1>2. stack' = Rest /\ Suited(stack')
  BY <1>1 DEF Teardown
<1>3. /\ open' = {} /\ clientSocket' = None /\ connectAckTimer' = FALSE
      /\ socketConnected' = FALSE /\ outgoingStore' = <<>>
      /\ wire' = <<>> /\ session' = "none" /\ unacked' = <<>>
      /\ connecting' = connecting /\ connected' = connected
      /\ nextMessageId' = nextMessageId /\ answered' = answered /\ unsent' = unsent /\ acked' = acked
      /\ queries' = queries /\ lastBuffer' = lastBuffer /\ received' = received
      /\ published' = published /\ requests' = requests
  BY DEF Teardown, TimerAfterTeardown, ClosedByTeardown, LoseConnection, dataVars, MqttInv, Bounded
<1>4. TypedClient'
  BY <1>3 DEF MqttInv, Typed, TypedClient, Teardown, None
<1>5. TypedRequests'
  BY <1>3, EmptyWire DEF MqttInv, Typed, TypedRequests
<1>6. TypedBytes'
  BY <1>3, EmptyWire DEF MqttInv, Typed, TypedBytes
<1>7. TypedStack'
  BY <1>1, <1>2, <1>3 DEF MqttInv, Typed, TypedStack, Suited
<1>8. Bounded'
  BY <1>3 DEF Bounded, None
<1>9. Linked'
  BY <1>3 DEF Linked
<1>10. ASSUME ~setting.split PROVE WholeInv'
  <2>1. Settled(stack') /\ \A f \in FramesIn(stack') : FrameWhole(f)'
    BY <1>2, <1>10, SettledWhole DEF Suited
  <2>2. WholeBytes'
    BY <1>3, <1>10, <2>1, EmptyWire DEF MqttInv, WholeInv, WholeBytes
  <2>3. Connected'
    BY <1>1, <1>3, <1>10, TypedFacts DEF Connected, NoTeardown, Teardowns
  <2>4. Reserved' /\ Matched' /\ Once'
    <3>1. AcksIn(wire') \subseteq AcksIn(wire)
      BY <1>3, NoAcks
    <3> QED
      BY <1>2, <1>3, <1>10, <3>1, IdsKept
  <2> QED
    BY <2>2, <2>3, <2>4 DEF WholeInv
<1> QED
  BY <1>4, <1>5, <1>6, <1>7, <1>8, <1>9, <1>10 DEF MqttInv, Typed

LEMMA ConnectStep ==
    ASSUME MqttInv, Connect, setting' = setting
    PROVE  MqttInv'
<1>1. /\ stack # <<>> /\ Head(stack).op = "connect" /\ Suited(Rest)
      /\ FramesIn(stack) = {Head(stack)} \cup FramesIn(Rest)
      /\ PendingIn(stack, Attempting) = PendingIn(Rest, Attempting) + 1
      /\ PendingIn(Rest, Attempting) \in Nat
  BY BaseSuits DEF Connect, Running, Attempting
<1>2. stack' = Rest /\ Suited(stack')
  BY <1>1 DEF Connect
<1>3. PICK s \in Sockets \ (open \cup connecting) :
         clientSocket' = s /\ open' = (open \ {clientSocket}) \cup {s}
  BY DEF Connect
<1>4. s # None /\ open' = {s}
  BY <1>3, Bounds DEF MqttInv, Bounded, Sockets, None
<1>5. /\ connectAckTimer' = TRUE
      /\ socketConnected' = socketConnected /\ outgoingStore' = outgoingStore
      /\ wire' = <<>> /\ session' = "none" /\ unacked' = <<>>
      /\ connecting' = connecting /\ connected' = connected
      /\ nextMessageId' = nextMessageId /\ answered' = answered /\ unsent' = unsent /\ acked' = acked
      /\ queries' = queries + 1 /\ lastBuffer' = lastBuffer /\ received' = received
      /\ published' = published /\ requests' = requests
      /\ destroyed' = destroyed /\ keepAliveTimer' = keepAliveTimer
      /\ calls' = calls /\ faults' = faults
  BY DEF Connect, LoseConnection, dataVars, requestVars
<1>6. TypedClient'
  BY <1>3, <1>4, <1>5 DEF MqttInv, Typed, TypedClient
<1>7. TypedRequests'
  BY <1>5, EmptyWire DEF MqttInv, Typed, TypedRequests
<1>8. TypedBytes'
  BY <1>5, EmptyWire DEF MqttInv, Typed, TypedBytes
<1>9. TypedStack'
  <2>1. queries' + PendingIn(stack', Attempting) <= MaxSockets
    BY <1>1, <1>2, <1>5, TypedFacts
  <2> QED
    BY <1>2, <1>5, <2>1, TypedFacts DEF TypedStack, Suited
<1>10. Bounded'
  BY <1>3, <1>4, <1>5 DEF Bounded
<1>11. Linked'
  <2>1. socketConnected' /\ stack' # <<>> => \A f \in FramesIn(Rest') : f.op # "subscribe"
    BY <1>2, <1>5, SuitedRest DEF NoSubscribe, Rest
  <2> QED
    BY <1>3, <1>5, <2>1 DEF Linked
<1>12. ASSUME ~setting.split PROVE WholeInv'
  <2>1. Settled(stack') /\ \A f \in FramesIn(stack') : FrameWhole(f)'
    BY <1>2, <1>12, SettledWhole DEF Suited
  <2>2. WholeBytes'
    BY <1>5, <1>12, <2>1, EmptyWire DEF MqttInv, WholeInv, WholeBytes
  <2>3. Connected'
    BY <1>1, <1>5, <1>12, TypedFacts DEF Connected, NoTeardown, Teardowns
  <2>4. Reserved' /\ Matched' /\ Once'
    <3>1. AcksIn(wire') \subseteq AcksIn(wire)
      BY <1>5, NoAcks
    <3> QED
      BY <1>2, <1>5, <1>12, <3>1, IdsKept
  <2> QED
    BY <2>2, <2>3, <2>4 DEF WholeInv
<1> QED
  BY <1>6, <1>7, <1>8, <1>9, <1>10, <1>11, <1>12 DEF MqttInv, Typed

LEMMA QueryAnsweredStep ==
    ASSUME MqttInv, QueryAnswered, setting' = setting
    PROVE  MqttInv'
<1>1. /\ stack = <<>> /\ queries > 0 /\ queries' = queries - 1
      /\ connected' = connected /\ socketConnected' = socketConnected /\ destroyed' = destroyed
      /\ keepAliveTimer' = keepAliveTimer /\ connectAckTimer' = connectAckTimer
      /\ clientSocket' = clientSocket /\ open' = open /\ calls' = calls
      /\ outgoingStore' = outgoingStore /\ nextMessageId' = nextMessageId
      /\ requests' = requests /\ answered' = answered /\ unsent' = unsent /\ wire' = wire /\ session' = session
      /\ unacked' = unacked /\ acked' = acked /\ published' = published
      /\ lastBuffer' = lastBuffer /\ received' = received
  BY DEF QueryAnswered, clientVars, requestVars, brokerVars, dataVars
<1>2. queries' \in Nat /\ queries' <= queries
  BY <1>1, TypedFacts
<1>3. CASE /\ Fails \/ UNCHANGED faults
           /\ stack' = ErrorEvent(stack) /\ connecting' = connecting
  <2>1. Quiet
    BY <1>1, <1>3 DEF Quiet
  <2> QED
    BY <1>1, <1>2, <1>3, <2>1, ErrorStep
<1>4. CASE /\ clientSocket # None /\ stack' = stack /\ (Fails \/ UNCHANGED faults)
           /\ \/ connecting' = connecting
              \/ ~socketConnected /\ connecting' = connecting \cup {clientSocket}
  <2>1. TypedClient'
    <3>1. connecting' \subseteq Sockets
      BY <1>4 DEF MqttInv, Typed, TypedClient
    <3>2. faults' \in 0 .. setting.faults
      BY <1>4, TypedFacts, Counters
    <3> QED
      BY <1>1, <3>1, <3>2 DEF MqttInv, Typed, TypedClient
  <2>2. TypedRequests'
    BY <1>1 DEF MqttInv, Typed, TypedRequests
  <2>3. TypedBytes'
    BY <1>1 DEF MqttInv, Typed, TypedBytes
  <2>4. TypedStack'
    BY <1>1, <1>2, <1>4, TypedFacts DEF MqttInv, Typed, TypedStack
  <2>5. Bounded'
    BY <1>1, <1>4 DEF MqttInv, Bounded
  <2>6. Linked'
    BY <1>1, <1>4 DEF MqttInv, Linked
  <2>7. ASSUME ~setting.split PROVE WholeInv'
    <3>1. WholeInv
      BY <2>7 DEF MqttInv
    <3>2. WholeBytes' /\ Connected'
      BY <1>1, <1>4, <3>1, EmptyStack DEF WholeInv, WholeBytes, Connected
    <3>3. AcksUnderWay' = AcksUnderWay /\ IdsUnderWay' = IdsUnderWay
      BY <1>1, <1>4 DEF AcksUnderWay, IdsUnderWay
    <3>4. Reserved'
      BY <1>1, <1>4, <3>1, <3>3 DEF WholeInv, Reserved, IdsOfNext
    <3>5. Matched' /\ Once'
      BY <1>1, <3>1, <3>3 DEF WholeInv, Matched, Once
    <3> QED
      BY <3>2, <3>4, <3>5 DEF WholeInv
  <2> QED
    BY <2>1, <2>2, <2>3, <2>4, <2>5, <2>6, <2>7 DEF MqttInv, Typed
<1> QED
  BY <1>3, <1>4 DEF QueryAnswered

\* The connection is up: the broker's answer is the first message on it.
LEMMA ConnectAnsweredStep ==
    ASSUME MqttInv, ConnectAnswered, setting' = setting
    PROVE  MqttInv'
<1>1. /\ stack = <<>>
      /\ connected' = connected /\ destroyed' = destroyed
      /\ keepAliveTimer' = keepAliveTimer /\ connectAckTimer' = connectAckTimer
      /\ clientSocket' = clientSocket /\ open' = open /\ calls' = calls /\ queries' = queries
      /\ outgoingStore' = outgoingStore /\ nextMessageId' = nextMessageId
      /\ requests' = requests /\ answered' = answered /\ unsent' = unsent
      /\ unacked' = unacked /\ acked' = acked /\ published' = published
      /\ lastBuffer' = lastBuffer /\ received' = received
  BY DEF ConnectAnswered, requestVars, dataVars
<1>2. PICK s \in connecting :
         /\ connecting' = connecting \ {s}
         /\ \/ /\ (s \notin open /\ UNCHANGED faults) \/ (s \in open /\ Fails)
               /\ stack' = ErrorEvent(stack)
               /\ UNCHANGED <<socketConnected, wire, session>>
            \/ /\ s \in open
               /\ socketConnected' = TRUE
               /\ \/ /\ session = "none" /\ UNCHANGED faults
                     /\ session' = "up"
                     /\ wire' = Reply("conack", 0)
                  \/ /\ Fails \/ (session = "spoiled" /\ UNCHANGED faults)
                     /\ wire' = Reply("conack", 1)
                     /\ UNCHANGED session
               /\ UNCHANGED stack
  BY DEF ConnectAnswered
<1>3. ASSUME stack' = ErrorEvent(stack), Fails \/ UNCHANGED faults,
             UNCHANGED <<socketConnected, wire, session>>
      PROVE  MqttInv'
  <2>1. /\ Suited(ErrorEvent(stack)) /\ Ends(ErrorEvent(stack))
        /\ NoTeardown(stack) => NoTeardown(ErrorEvent(stack))
        /\ PendingIn(ErrorEvent(stack), Attempting) = PendingIn(stack, Attempting)
    BY <1>1, BaseSuits, ErrorSuits
  <2>2. /\ Suited(stack') /\ Ends(stack') /\ (NoTeardown(stack) => NoTeardown(stack'))
        /\ PendingIn(stack', Attempting) = PendingIn(stack, Attempting)
    BY <1>3, <2>1
  <2>3. socketConnected' = socketConnected /\ wire' = wire /\ session' = session
    BY <1>3
  <2>4. faults' \in 0 .. setting.faults /\ calls' \in 0 .. setting.calls
    BY <1>1, <1>3, TypedFacts, Counters
  <2>5. TypedClient'
    BY <1>1, <1>2, <2>3, <2>4 DEF MqttInv, Typed, TypedClient
  <2>6. TypedRequests'
    BY <1>1 DEF MqttInv, Typed, TypedRequests
  <2>7. TypedBytes'
    BY <1>1, <2>3 DEF MqttInv, Typed, TypedBytes
  <2>8. TypedStack'
    BY <1>1, <2>2, TypedFacts DEF TypedStack, Suited
  <2>9. Bounded'
    BY <1>1, <2>2 DEF MqttInv, Bounded, Ends
  <2>10. Linked'
    <3>1. socketConnected' /\ stack' # <<>> => \A f \in FramesIn(Rest') : f.op # "subscribe"
      BY <2>2, <2>3, SuitedRest DEF NoSubscribe, Rest
    <3> QED
      BY <1>1, <1>2, <2>3, <3>1 DEF MqttInv, Linked
  <2>11. ASSUME ~setting.split PROVE WholeInv'
    <3>1. Settled(stack') /\ \A f \in FramesIn(stack') : FrameWhole(f)'
      BY <2>2, <2>11, SettledWhole DEF Suited
    <3>2. WholeBytes'
      BY <1>1, <2>3, <2>11, <3>1 DEF MqttInv, WholeInv, WholeBytes
    <3>3. Connected'
      BY <1>1, <2>2, <2>3, <2>11, TypedFacts DEF Connected, NoTeardown
    <3>4. AcksIn(wire') \subseteq AcksIn(wire)
      BY <2>3
    <3>5. Reserved' /\ Matched' /\ Once'
      BY <1>1, <2>2, <2>11, <3>4, IdsKept
    <3> QED
      BY <3>2, <3>3, <3>5 DEF WholeInv
  <2> QED
    BY <2>5, <2>6, <2>7, <2>8, <2>9, <2>10, <2>11 DEF MqttInv, Typed
<1>4. ASSUME s \in open, socketConnected' = TRUE, stack' = stack, Fails \/ UNCHANGED faults,
             NEW n \in {0, 1}, wire' = Reply("conack", n),
             \/ session' = "up"
             \/ n = 1 /\ session' = session
      PROVE  MqttInv'
  <2>1. n \in Numbers /\ "conack" \in Types
    BY Bounds DEF Numbers, Types
  <2>2. /\ wire' \in Seq(SmallByte) /\ AcksIn(wire') = {} /\ Aligned(wire')
        /\ Accepts(wire') => n = 0
    <3> DEFINE t == "conack"
    <3>1. t \in Types /\ t # "ack"
      BY <2>1
    <3> HIDE DEF t
    <3>2. /\ Reply(t, n) \in Seq(SmallByte) /\ AcksIn(Reply(t, n)) = {} /\ Aligned(Reply(t, n))
          /\ Accepts(Reply(t, n)) => n = 0
      BY <2>1, <3>1, ReplyProps
    <3> QED
      BY <1>4, <3>2 DEF t
  <2>3. s = clientSocket /\ s \in Sockets /\ clientSocket # None /\ clientSocket' \notin connecting'
    BY <1>1, <1>2, <1>4, Bounds DEF MqttInv, Bounded, Typed, TypedClient, Sockets, None
  <2>4. faults' \in 0 .. setting.faults /\ calls' \in 0 .. setting.calls
    BY <1>1, <1>4, TypedFacts, Counters
  <2>5. TypedClient'
    BY <1>1, <1>2, <1>4, <2>4 DEF MqttInv, Typed, TypedClient
  <2>6. TypedRequests'
    BY <1>1 DEF MqttInv, Typed, TypedRequests
  <2>7. TypedBytes'
    BY <1>1, <1>4, <2>2 DEF MqttInv, Typed, TypedBytes
  <2>8. TypedStack'
    BY <1>1, <1>4 DEF MqttInv, Typed, TypedStack
  <2>9. Bounded'
    BY <1>1, <1>4 DEF MqttInv, Bounded
  <2>10. Linked'
    BY <1>1, <1>4, <2>3 DEF Linked
  <2>11. ASSUME ~setting.split PROVE WholeInv'
    <3>1. Suited(stack')
      BY <1>1, <1>4, BaseSuits
    <3>2. Settled(stack') /\ \A f \in FramesIn(stack') : FrameWhole(f)'
      BY <2>11, <3>1, SettledWhole DEF Suited
    <3>3. WholeBytes'
      BY <1>1, <1>4, <2>2, <2>11, <3>2 DEF MqttInv, WholeInv, WholeBytes
    <3>4. Connected'
      BY <1>1, <1>4, <2>11, TypedFacts DEF Connected, NoTeardown
    <3>5. Reserved' /\ Matched' /\ Once'
      BY <1>1, <2>2, <2>11, <3>1, IdsKept
    <3> QED
      BY <3>3, <3>4, <3>5 DEF WholeInv
  <2> QED
    BY <2>5, <2>6, <2>7, <2>8, <2>9, <2>10, <2>11 DEF MqttInv, Typed
<1> QED
  BY <1>2, <1>3, <1>4

LEMMA BrokerPublishesStep ==
    ASSUME MqttInv, BrokerPublishes, setting' = setting
    PROVE  MqttInv'
<1> DEFINE t == "publish"
           n == published + 1
<1>1. /\ connected' = connected /\ socketConnected' = socketConnected /\ destroyed' = destroyed
      /\ keepAliveTimer' = keepAliveTimer /\ connectAckTimer' = connectAckTimer
      /\ clientSocket' = clientSocket /\ open' = open /\ calls' = calls /\ queries' = queries
      /\ outgoingStore' = outgoingStore /\ nextMessageId' = nextMessageId
      /\ requests' = requests /\ answered' = answered /\ unsent' = unsent /\ connecting' = connecting
      /\ unacked' = unacked /\ acked' = acked /\ session' = session /\ stack' = stack
      /\ lastBuffer' = lastBuffer /\ received' = received /\ faults' = faults
      /\ session = "up" /\ published < MaxPublish /\ published' = n
      /\ wire' = wire \o Reply(t, n)
  BY DEF BrokerPublishes, clientVars, requestVars, socketVars, dataVars
<1>2. t \in Types /\ t \notin {"conack", "ack"} /\ n \in Numbers /\ published' \in 0 .. MaxPublish
  BY <1>1, Bounds DEF Types, Numbers, MqttInv, Typed, TypedBytes
<1> HIDE DEF t, n
<1>3. wire \in Seq(SmallByte) /\ Reply(t, n) \in Seq(SmallByte) /\ AcksIn(Reply(t, n)) = {}
  BY <1>2, ReplyProps DEF MqttInv, Typed, TypedBytes
<1>4. wire' \in Seq(SmallByte) /\ AcksIn(wire') = AcksIn(wire)
  <2>1. wire \o Reply(t, n) \in Seq(SmallByte)
        /\ AcksIn(wire \o Reply(t, n)) = AcksIn(wire) \cup AcksIn(Reply(t, n))
    BY <1>3, AcksConcat
  <2> QED
    BY <1>1, <1>3, <2>1
<1>5. TypedClient'
  BY <1>1 DEF MqttInv, Typed, TypedClient
<1>6. TypedRequests'
  BY <1>1 DEF MqttInv, Typed, TypedRequests
<1>7. TypedBytes'
  BY <1>1, <1>2, <1>4 DEF MqttInv, Typed, TypedBytes
<1>8. TypedStack'
  BY <1>1 DEF MqttInv, Typed, TypedStack
<1>9. Bounded'
  BY <1>1 DEF MqttInv, Bounded
<1>10. Linked'
  BY <1>1 DEF MqttInv, Linked, Rest
<1>11. ASSUME ~setting.split PROVE WholeInv'
  <2>1. WholeInv
    BY <1>11 DEF MqttInv
  <2>2. Aligned(wire') /\ (Accepts(wire') => Accepts(wire))
    <3>1. Aligned(wire)
      BY <2>1 DEF WholeInv, WholeBytes
    <3>2. Aligned(wire \o Reply(t, n)) /\ (Accepts(wire \o Reply(t, n)) => Accepts(wire))
      BY <1>2, <1>3, <3>1, AlignedConcat
    <3> QED
      BY <1>1, <3>2
  <2>3. WholeBytes'
    BY <1>1, <2>1, <2>2 DEF WholeInv, WholeBytes, FrameWhole, Rest
  <2>4. Connected'
    BY <1>1, <2>1 DEF WholeInv, Connected
  <2>5. AcksUnderWay' = AcksUnderWay /\ IdsUnderWay' = IdsUnderWay
    BY <1>1, <1>4 DEF AcksUnderWay, IdsUnderWay
  <2>6. Reserved'
    BY <1>1, <2>1, <2>5 DEF WholeInv, Reserved, IdsOfNext
  <2>7. Matched' /\ Once'
    BY <1>1, <2>1, <2>5 DEF WholeInv, Matched, Once
  <2> QED
    BY <2>3, <2>4, <2>6, <2>7 DEF WholeInv
<1> QED
  BY <1>1, <1>5, <1>6, <1>7, <1>8, <1>9, <1>10, <1>11 DEF MqttInv, Typed

LEMMA BrokerAcksStep ==
    ASSUME MqttInv, BrokerAcks, setting' = setting
    PROVE  MqttInv'
<1> DEFINE t == "ack"
           h == Head(unacked)
           n == h.id
<1>1. /\ connected' = connected /\ socketConnected' = socketConnected /\ destroyed' = destroyed
      /\ keepAliveTimer' = keepAliveTimer /\ connectAckTimer' = connectAckTimer
      /\ clientSocket' = clientSocket /\ open' = open /\ calls' = calls /\ queries' = queries
      /\ outgoingStore' = outgoingStore /\ nextMessageId' = nextMessageId
      /\ requests' = requests /\ answered' = answered /\ unsent' = unsent /\ connecting' = connecting
      /\ published' = published /\ session' = session /\ stack' = stack
      /\ lastBuffer' = lastBuffer /\ received' = received /\ faults' = faults
      /\ session = "up" /\ unacked # <<>> /\ unacked' = Tail(unacked)
      /\ acked' = acked \cup {h.request}
      /\ wire' = wire \o Reply(t, n)
  BY DEF BrokerAcks, clientVars, requestVars, socketVars, dataVars
<1> DEFINE T == [id : 1 .. MaxMessageId, request : 1 .. requests]
<1>2. /\ unacked \in Seq(T) /\ h \in T /\ unacked' \in Seq(T)
      /\ h = unacked[1] /\ 1 \in 1 .. Len(unacked)
      /\ \A j \in 1 .. Len(unacked') : j + 1 \in 1 .. Len(unacked) /\ unacked'[j] = unacked[j + 1]
  <2> DEFINE u == unacked
  <2>1. u \in Seq(T) /\ u # <<>> /\ unacked' = Tail(u)
    BY <1>1 DEF MqttInv, Typed, TypedRequests
  <2> HIDE DEF u, T
  <2>2. /\ Head(u) \in T /\ Tail(u) \in Seq(T) /\ Len(Tail(u)) = Len(u) - 1
        /\ \A i \in 1 .. Len(Tail(u)) : Tail(u)[i] = u[i + 1]
    BY <2>1, HeadTailProperties
  <2>3. Len(u) \in Nat \ {0} /\ Head(u) = u[1]
    BY <2>1, EmptySeq, HeadTailProperties, LenProperties
  <2>4. \A j \in 1 .. Len(Tail(u)) : j + 1 \in 1 .. Len(u)
    BY <2>2, <2>3
  <2> QED
    BY <2>1, <2>2, <2>3, <2>4 DEF u
<1>3. t \in Types /\ t # "conack" /\ n \in Numbers /\ h.request \in 1 .. requests
  BY <1>2, Bounds DEF Types, Numbers
<1> HIDE DEF t, n, h, T
<1>4. wire \in Seq(SmallByte) /\ Reply(t, n) \in Seq(SmallByte) /\ AcksIn(Reply(t, n)) = {n}
  BY <1>3, ReplyProps DEF MqttInv, Typed, TypedBytes, t
<1>5. wire' \in Seq(SmallByte) /\ AcksIn(wire') = AcksIn(wire) \cup {n}
  <2>1. wire \o Reply(t, n) \in Seq(SmallByte)
        /\ AcksIn(wire \o Reply(t, n)) = AcksIn(wire) \cup AcksIn(Reply(t, n))
    BY <1>4, AcksConcat
  <2> QED
    BY <1>1, <1>4, <2>1
<1>6. TypedClient'
  BY <1>1 DEF MqttInv, Typed, TypedClient
<1>7. TypedRequests'
  <2>1. unacked' \in Seq([id : 1 .. MaxMessageId, request : 1 .. requests])
    BY <1>2 DEF T
  <2>2. acked' \subseteq 1 .. requests
    BY <1>1, <1>3 DEF MqttInv, Typed, TypedRequests
  <2> QED
    BY <1>1, <2>1, <2>2 DEF MqttInv, Typed, TypedRequests
<1>8. TypedBytes'
  BY <1>1, <1>5 DEF MqttInv, Typed, TypedBytes
<1>9. TypedStack'
  BY <1>1 DEF MqttInv, Typed, TypedStack
<1>10. Bounded'
  BY <1>1 DEF MqttInv, Bounded
<1>11. Linked'
  BY <1>1 DEF MqttInv, Linked, Rest
<1>12. ASSUME ~setting.split PROVE WholeInv'
  <2>1. WholeInv
    BY <1>12 DEF MqttInv
  <2>2. Aligned(wire') /\ (Accepts(wire') => Accepts(wire))
    <3>1. Aligned(wire)
      BY <2>1 DEF WholeInv, WholeBytes
    <3>2. Aligned(wire \o Reply(t, n)) /\ (Accepts(wire \o Reply(t, n)) => Accepts(wire))
      BY <1>3, <1>4, <3>1, AlignedConcat
    <3> QED
      BY <1>1, <3>2
  <2>3. WholeBytes'
    BY <1>1, <2>1, <2>2 DEF WholeInv, WholeBytes, FrameWhole, Rest
  <2>4. Connected'
    BY <1>1, <2>1 DEF WholeInv, Connected
  <2>5. AcksUnderWay' = AcksUnderWay \cup {n}
    BY <1>1, <1>5 DEF AcksUnderWay
  <2>6. n = unacked[1].id /\ h.request = unacked[1].request
    BY <1>2 DEF n
  <2>7. IdsUnderWay' \subseteq IdsUnderWay
    BY <1>2, <2>5, <2>6 DEF IdsUnderWay
  <2>8. Reserved'
    <3>1. Reserved' = (IdsOfNext(PendingIn(stack, {"subscribe"})) \cap IdsUnderWay' = {})
      BY <1>1 DEF Reserved, IdsOfNext
    <3> QED
      BY <2>1, <2>7, <3>1 DEF WholeInv, Reserved
  <2>9. Matched'
    <3>1. Matched
      BY <2>1 DEF WholeInv
    <3>2. n \in DOMAIN outgoingStore => outgoingStore[n] = h.request
      BY <1>2, <2>6, <3>1 DEF Matched
    <3>3. ASSUME NEW j \in 1 .. Len(unacked'), unacked'[j].id \in DOMAIN outgoingStore
          PROVE  outgoingStore[unacked'[j].id] = unacked'[j].request
      BY <1>2, <3>1, <3>3 DEF Matched
    <3>4. ASSUME NEW id \in AcksUnderWay', id \in DOMAIN outgoingStore
          PROVE  outgoingStore[id] \in acked'
      BY <1>1, <2>5, <3>1, <3>2, <3>4 DEF Matched
    <3> QED
      BY <1>1, <3>3, <3>4 DEF Matched
  <2>10. Once'
    BY <1>1, <2>1 DEF WholeInv, Once
  <2> QED
    BY <2>3, <2>4, <2>8, <2>9, <2>10 DEF WholeInv
<1> QED
  BY <1>1, <1>6, <1>7, <1>8, <1>9, <1>10, <1>11, <1>12 DEF MqttInv, Typed

-----------------------------------------------------------------------------
(* What arrives. *)

LEMMA ReceiveStep ==
    ASSUME MqttInv, Receive, setting' = setting
    PROVE  MqttInv'
<1>1. /\ connected' = connected /\ socketConnected' = socketConnected /\ destroyed' = destroyed
      /\ keepAliveTimer' = keepAliveTimer /\ connectAckTimer' = connectAckTimer
      /\ clientSocket' = clientSocket /\ open' = open /\ calls' = calls /\ queries' = queries
      /\ outgoingStore' = outgoingStore /\ nextMessageId' = nextMessageId
      /\ requests' = requests /\ answered' = answered /\ unsent' = unsent /\ connecting' = connecting
      /\ published' = published /\ session' = session /\ unacked' = unacked /\ acked' = acked
      /\ received' = received /\ faults' = faults /\ lastBuffer' = <<>> /\ stack = <<>>
  BY DEF Receive, clientVars, requestVars, socketVars
<1>2. PICK k \in ChunkEnds :
         /\ stack' = << [op |-> "messages", index |-> 1,
                         buffer |-> lastBuffer \o SubSeq(wire, 1, k)] >>
         /\ wire' = SubSeq(wire, k + 1, Len(wire))
  BY DEF Receive
<1> DEFINE a == SubSeq(wire, 1, k)
           b == lastBuffer \o a
           f == [op |-> "messages", index |-> 1, buffer |-> b]
<1>3. k \in 1 .. Len(wire) /\ (setting.split \/ k % 3 = 0) /\ wire \in Seq(SmallByte)
  BY DEF ChunkEnds, MqttInv, Typed, TypedBytes
<1>4. /\ a \in Seq(SmallByte) /\ wire' \in Seq(SmallByte)
      /\ AcksIn(a) \subseteq AcksIn(wire) /\ AcksIn(wire') \subseteq AcksIn(wire)
  BY <1>2, <1>3, SplitProps
<1>5. ASSUME ~setting.split
      PROVE  /\ lastBuffer = <<>> /\ Aligned(a) /\ Aligned(wire') /\ ~Accepts(wire')
             /\ Accepts(a) => session = "up"
  <2>1. Aligned(wire) /\ lastBuffer = <<>> /\ (Accepts(wire) => session = "up")
    BY <1>5 DEF MqttInv, WholeInv, WholeBytes
  <2>2. k % 3 = 0
    BY <1>3, <1>5
  <2> QED
    BY <1>2, <1>3, <2>1, <2>2, AlignedSplit
<1> HIDE DEF a
<1>6. b \in Seq(SmallByte)
  BY <1>4, AcksConcat DEF MqttInv, Typed, TypedBytes
<1>7. lastBuffer = <<>> => b = a
  BY <1>4, ConcatEmptySeq
<1> HIDE DEF b
<1>8. f \in SmallFrame /\ f.op = "messages" /\ f.buffer = b /\ f.index = 1
  BY <1>6 DEF SmallFrame, Ops
<1>9. PICK g \in SmallFrame :
         g.op = "messages" /\ g.buffer = b /\ g.index = 1 /\ stack' = <<g>>
  <2>1. stack' = <<f>>
    BY <1>2 DEF a, b
  <2> HIDE DEF f
  <2> QED
    BY <1>8, <2>1
<1> HIDE DEF f
<1>10. /\ stack' \in Seq(SmallFrame) /\ Tail(stack') = <<>> /\ FramesIn(stack') = {g}
       /\ PendingIn(stack', Attempting) = 0
       /\ PendingIn(stack', {"subscribe"}) = 0
  <2> DEFINE s == Push(g, <<>>)
  <2>1. /\ s \in Seq(SmallFrame) /\ Tail(s) = <<>> /\ FramesIn(s) = {g}
    <3> DEFINE e == <<>>
    <3>1. e \in Seq(SmallFrame) /\ FramesIn(e) = {}
      BY EmptyStack
    <3> HIDE DEF e
    <3>2. /\ Push(g, e) \in Seq(SmallFrame) /\ Tail(Push(g, e)) = e
          /\ FramesIn(Push(g, e)) = {g} \cup FramesIn(e)
      BY <3>1, PushProps, ZenonT(30)
    <3> QED
      BY <3>1, <3>2 DEF e
  <2>2. s = <<g>>
    BY <1>9, EmptyStack
  <2> HIDE DEF s
  <2>3. \A ops : g.op \notin ops => PendingIn(s, ops) = 0
    BY <2>1, PendingProps
  <2>4. PendingIn(s, Attempting) = 0 /\ PendingIn(s, {"subscribe"}) = 0
    BY <1>9, <2>3 DEF Attempting
  <2> QED
    BY <1>9, <2>1, <2>2, <2>4
<1>11. TypedClient'
  BY <1>1 DEF MqttInv, Typed, TypedClient
<1>12. TypedRequests'
  BY <1>1 DEF MqttInv, Typed, TypedRequests
<1>13. TypedBytes'
  BY <1>1, <1>4, EmptyWire DEF MqttInv, Typed, TypedBytes
<1>14. TypedStack'
  <2>1. PendingIn(stack, Attempting) = 0
    BY <1>1, EmptyStack
  <2> QED
    BY <1>1, <1>10, <2>1, TypedFacts DEF TypedStack
<1>15. Bounded'
  <2>1. FramesIn(stack) = {}
    BY <1>1, EmptyStack
  <2> QED
    BY <1>1, <2>1 DEF MqttInv, Bounded
<1>16. Linked'
  <2>1. FramesIn(Rest') = {}
    BY <1>10, EmptyStack DEF Rest
  <2> QED
    BY <1>1, <2>1 DEF MqttInv, Linked
<1>17. ASSUME ~setting.split PROVE WholeInv'
  <2>1. WholeInv
    BY <1>17 DEF MqttInv
  <2>2. FrameWhole(g)'
    <3>1. Aligned(b) /\ (Accepts(b) => session = "up")
      BY <1>5, <1>7, <1>17
    <3>2. AtMessage(1)
      <4>1. 0 \in Nat /\ 1 = 3 * 0 + 1
        OBVIOUS
      <4> QED
        BY <4>1 DEF AtMessage
    <3>3. Rest' = <<>>
      BY <1>10 DEF Rest
    <3> QED
      BY <1>1, <1>9, <3>1, <3>2, <3>3 DEF FrameWhole
  <2>3. WholeBytes'
    BY <1>1, <1>5, <1>10, <1>17, <2>2 DEF WholeBytes
  <2>4. Connected'
    BY <1>1, <1>9, <1>10, <2>1 DEF WholeInv, Connected, Teardowns
  <2>5. AcksUnderWay' \subseteq AcksUnderWay
    <3>1. AcksUnderWay' = AcksIn(wire') \cup AcksIn(g.buffer)
      BY <1>10 DEF AcksUnderWay
    <3>2. AcksIn(g.buffer) \subseteq AcksIn(wire)
      BY <1>4, <1>5, <1>7, <1>9, <1>17
    <3> QED
      BY <1>4, <3>1, <3>2 DEF AcksUnderWay
  <2>6. Reserved'
    <3>1. IdsUnderWay' \subseteq IdsUnderWay
      BY <1>1, <2>5 DEF IdsUnderWay
    <3>2. PendingIn(stack', {"subscribe"}) = PendingIn(stack, {"subscribe"})
      BY <1>1, <1>10, EmptyStack
    <3>3. Reserved' = (IdsOfNext(PendingIn(stack', {"subscribe"})) \cap IdsUnderWay' = {})
      BY <1>1 DEF Reserved, IdsOfNext
    <3> QED
      BY <2>1, <3>1, <3>2, <3>3 DEF WholeInv, Reserved
  <2>7. Matched'
    BY <1>1, <2>1, <2>5 DEF WholeInv, Matched
  <2>8. Once'
    BY <1>1, <2>1 DEF WholeInv, Once
  <2> QED
    BY <2>3, <2>4, <2>6, <2>7, <2>8 DEF WholeInv
<1> QED
  BY <1>1, <1>11, <1>12, <1>13, <1>14, <1>15, <1>16, <1>17 DEF MqttInv, Typed

\* A message that is read, and when messages arrive whole the one whose bytes these are.
LEMMA ArrivedFacts ==
    ASSUME MqttInv, NEW m \in Arrived
    PROVE  /\ stack # <<>> /\ Head(stack).op = "messages"
           /\ m.type \in Types => m.n \in Numbers /\ m.next \in Nat \ {0}
           /\ ~setting.split =>
                 /\ AtMessage(Index) /\ m.type \in Types /\ m.type = Buffer[Index].type
                 /\ m.n = Buffer[Index].n /\ m.next = Index + 3 /\ Index \in 1 .. Len(Buffer)
                 /\ m.type = "conack" => Index = 1
<1>1. /\ stack # <<>> /\ Head(stack).op = "messages" /\ Index < Len(Buffer)
      /\ m \in Parsed(Buffer, Index)
  BY DEF Arrived, InLoop, Running
<1>2. Head(stack) \in SmallFrame
  BY <1>1, BaseSuits
<1> DEFINE b == Buffer
           x == Index
<1>3. b \in Seq(SmallByte) /\ x \in Nat \ {0} /\ Len(b) \in Nat /\ x < Len(b)
  <2>1. b \in Seq(SmallByte) /\ x \in Nat \ {0}
    BY <1>2 DEF SmallFrame, Buffer, Index
  <2> HIDE DEF b, x
  <2> QED
    BY <1>1, <2>1, LenProperties DEF b, x
<1>4. b[x] \in SmallByte
  <2> HIDE DEF b, x
  <2> QED
    BY <1>3, ElementOfSeq
<1>5. b[x].n \in Numbers /\ b[x].type \in Types
  BY <1>4 DEF SmallByte
<1>6. 0 .. MaxMessageId \subseteq Numbers
  BY Bounds DEF Numbers
<1>7. "none" \notin Types
  BY DEF Types
<1>8. m \in Parsed(b, x)
  BY <1>1
<1> HIDE DEF b, x
<1>9. ASSUME m.type \in Types PROVE m.n \in Numbers /\ m.next \in Nat \ {0}
  <2>1. CASE b[x].at = 1 /\ b[x + 1] = [b[x] EXCEPT !.at = 2]
    <3>1. m # Incomplete
      BY <1>7, <1>9 DEF Incomplete
    <3>2. PICK n \in {b[x].n} \cup (0 .. MaxMessageId) :
             m = [type |-> b[x].type, n |-> n, next |-> x + 3]
      BY <1>8, <2>1, <3>1 DEF Parsed
    <3> QED
      BY <1>3, <1>5, <1>6, <3>2
  <2>2. CASE ~(b[x].at = 1 /\ b[x + 1] = [b[x] EXCEPT !.at = 2])
    <3>1. m # Incomplete
      BY <1>7, <1>9 DEF Incomplete
    <3>2. m \in [type : setting.misread, n : 0 .. MaxMessageId, next : x + 2 .. Len(b) + 1]
      BY <1>8, <2>2, <3>1 DEF Parsed
    <3>3. m.n \in 0 .. MaxMessageId /\ m.next \in x + 2 .. Len(b) + 1
      BY <3>2
    <3> QED
      BY <1>3, <1>6, <3>3
  <2> QED
    BY <2>1, <2>2
<1>10. ASSUME ~setting.split
       PROVE  /\ AtMessage(x) /\ m.type \in Types /\ m.type = b[x].type
              /\ m.n = b[x].n /\ m.next = x + 3 /\ x \in 1 .. Len(b)
              /\ m.type = "conack" => x = 1
  <2>1. Aligned(b) /\ AtMessage(x)
    <3>1. FrameWhole(Head(stack))
      BY <1>1, <1>10, BaseSuits DEF MqttInv, WholeInv, WholeBytes
    <3> QED
      BY <1>1, <3>1 DEF FrameWhole, b, x, Buffer, Index
  <2>2. PICK q \in Nat : x = 3 * q + 1
    BY <2>1 DEF AtMessage
  <2>3. PICK c \in Nat :
           /\ Len(b) = 3 * c
           /\ \A p \in Nat : p < c =>
                 /\ b[3 * p + 1].at = 1
                 /\ b[3 * p + 2] = [b[3 * p + 1] EXCEPT !.at = 2]
                 /\ b[3 * p + 3] = [b[3 * p + 1] EXCEPT !.at = 3]
           /\ \A k \in 1 .. Len(b) : k > 3 => b[k].type # "conack"
    BY <2>1 DEF Aligned
  <2>4. /\ q < c /\ x + 1 = 3 * q + 2 /\ x + 2 = 3 * q + 3 /\ x + 2 <= Len(b)
        /\ x \in 1 .. Len(b) /\ (x # 1 => x > 3)
    <3>1. 3 * q + 1 < 3 * c
      BY <1>3, <2>2, <2>3
    <3>2. q < c
      BY <3>1
    <3> QED
      BY <1>3, <2>2, <2>3, <3>2
  <2>5. /\ b[x].at = 1 /\ b[x + 1] = [b[x] EXCEPT !.at = 2] /\ b[x + 2] = [b[x] EXCEPT !.at = 3]
    BY <2>2, <2>3, <2>4
  <2>6. m = [type |-> b[x].type, n |-> b[x].n, next |-> x + 3]
    <3>1. ~(x + 2 > Len(b))
      BY <1>3, <2>4
    <3> QED
      BY <1>8, <2>5, <3>1 DEF Parsed
  <2> QED
    BY <1>5, <2>1, <2>3, <2>4, <2>6
<1> QED
  BY <1>1, <1>9, <1>10 DEF b, x

LEMMA AfterSuits ==
    ASSUME MqttInv, NEW m \in Arrived, m.type \in Types
    PROVE  /\ Suited(After(m)) /\ (Ends(stack) => Ends(After(m)))
           /\ NoTeardown(stack) => NoTeardown(After(m))
           /\ PendingIn(After(m), Attempting) = PendingIn(stack, Attempting)
<1> DEFINE h == Head(stack)
           g == [h EXCEPT !.index = m.next]
           t == Push(g, Rest)
<1>1. /\ stack # <<>> /\ h.op = "messages" /\ m.next \in Nat \ {0}
      /\ ~setting.split => AtMessage(h.index) /\ m.next = h.index + 3
  BY ArrivedFacts DEF Index
<1>2. /\ Suited(Rest) /\ h \in SmallFrame
      /\ FramesIn(stack) = {h} \cup FramesIn(Rest)
      /\ \A ops : PendingIn(stack, ops) = PendingIn(Rest, ops) + (IF h.op \in ops THEN 1 ELSE 0)
      /\ Rest \in Seq(SmallFrame)
      /\ \A ops : PendingIn(Rest, ops) \in Nat
  BY <1>1, BaseSuits DEF Suited
<1>3. g \in SmallFrame /\ g.op = "messages" /\ g.buffer = h.buffer /\ g.index = m.next
  BY <1>1, <1>2 DEF SmallFrame
<1> HIDE DEF g, h
<1>4. t \in Seq(SmallFrame) /\ FramesIn(t) = {g} \cup FramesIn(Rest)
  BY <1>2, <1>3, PushProps
<1>5. PendingIn(t, Attempting) = PendingIn(stack, Attempting)
      /\ PendingIn(t, {"subscribe"}) = PendingIn(stack, {"subscribe"})
  <2> DEFINE sub == {"subscribe"}
  <2>1. g.op \notin sub /\ h.op \notin sub /\ g.op \notin Attempting /\ h.op \notin Attempting
    BY <1>1, <1>3 DEF Attempting
  <2> HIDE DEF sub
  <2>2. \A ops : PendingIn(t, ops) = PendingIn(Rest, ops) + (IF g.op \in ops THEN 1 ELSE 0)
    BY <1>2, <1>3, PendingPush
  <2> HIDE DEF t
  <2>3. PendingIn(t, sub) = PendingIn(stack, sub)
    BY <1>2, <2>1, <2>2
  <2>4. PendingIn(t, Attempting) = PendingIn(stack, Attempting)
    BY <1>2, <2>1, <2>2
  <2> QED
    BY <2>3, <2>4 DEF sub
<1> HIDE DEF t
<1>6. socketConnected => NoSubscribe(t)
  BY <1>2, <1>3, <1>4 DEF Suited, NoSubscribe
<1>7. ASSUME ~setting.split PROVE Settled(t) /\ FrameAcks(t) \subseteq FrameAcks(stack)
  <2>1. FrameWhole(h)
    BY <1>2, <1>7 DEF MqttInv, WholeInv, WholeBytes
  <2>2. AtMessage(h.index + 3) /\ h.index + 3 # 1
    <3>1. PICK q \in Nat : h.index = 3 * q + 1
      BY <1>1, <1>7 DEF AtMessage
    <3>2. q + 1 \in Nat /\ h.index + 3 = 3 * (q + 1) + 1 /\ h.index + 3 # 1
      BY <3>1
    <3> QED
      BY <3>2 DEF AtMessage
  <2>3. SettledFrame(g)
    BY <1>1, <1>3, <1>7, <2>1, <2>2 DEF SettledFrame, FrameWhole
  <2>4. Settled(t)
    BY <1>2, <1>4, <1>7, <2>3 DEF Settled, Suited
  <2>5. FrameAcks(t) \subseteq FrameAcks(stack)
    BY <1>2, <1>3, <1>4 DEF FrameAcks
  <2> QED
    BY <2>4, <2>5
<1>8. Suited(t)
  <2>1. PendingIn(stack, {"subscribe"}) \in Nat
    BY BaseSuits
  <2> QED
    BY <1>4, <1>5, <1>6, <1>7, <2>1 DEF Suited
<1>9. Ends(stack) => Ends(t)
  BY <1>1, <1>2, <1>4 DEF Ends, Ending
<1>10. NoTeardown(stack) => NoTeardown(t)
  BY <1>2, <1>3, <1>4 DEF NoTeardown, Teardowns
<1>11. After(m) = t
  BY DEF After, t, g, h
<1> QED
  BY <1>5, <1>8, <1>9, <1>10, <1>11

LEMMA UserSuits ==
    ASSUME NEW s, Suited(s)
    PROVE  LET t == Push(UserFrame, s)
           IN  /\ Suited(t) /\ (Ends(s) => Ends(t)) /\ (NoTeardown(s) => NoTeardown(t))
               /\ PendingIn(t, Attempting) = PendingIn(s, Attempting)
<1> DEFINE t == Push(UserFrame, s)
<1>1. /\ Suited(t) /\ FramesIn(t) = {UserFrame} \cup FramesIn(s)
      /\ PendingIn(t, Attempting) = PendingIn(s, Attempting)
  BY PushSuits DEF Ops, Attempting, UserFrame
<1>2. UserFrame.op = "user"
  BY DEF UserFrame, FrameOf
<1> HIDE DEF t
<1>3. (Ends(s) => Ends(t)) /\ (NoTeardown(s) => NoTeardown(t))
  BY <1>1, <1>2 DEF Ends, Ending, NoTeardown, Teardowns
<1> QED
  BY <1>1, <1>3 DEF t

\* What is kept at the end of a chunk: nothing, when messages arrive whole.
LEMMA KeepRestStep ==
    ASSUME MqttInv, KeepRest, setting' = setting
    PROVE  MqttInv'
<1>1. Incomplete \in Arrived /\ Incomplete.type \notin Types
  BY DEF KeepRest, Incomplete, Types
<1>2. stack # <<>> /\ Head(stack).op = "messages" /\ setting.split
  <2> DEFINE m == Incomplete
  <2>1. m \in Arrived /\ m.type \notin Types
    BY <1>1
  <2> HIDE DEF m
  <2> QED
    BY <2>1, ArrivedFacts
<1>3. lastBuffer' \in Seq(SmallByte)
  BY <1>2, BaseSuits DEF KeepRest, Buffer, SmallFrame
<1>4. Quiet
  BY DEF KeepRest, Quiet, clientVars, requestVars, brokerVars, socketVars
<1> QED
  BY <1>2, <1>3, <1>4, PopStep, TypedFacts DEF KeepRest, clientVars, socketVars

LEMMA HandleOtherStep ==
    ASSUME MqttInv, HandleOther, setting' = setting
    PROVE  MqttInv'
<1>1. PICK m \in Arrived : m.type \in Types /\ stack' = After(m)
  BY DEF HandleOther, ArrivedOf, Types
<1>2. /\ Suited(After(m)) /\ (Ends(stack) => Ends(After(m)))
      /\ NoTeardown(stack) => NoTeardown(After(m))
      /\ PendingIn(After(m), Attempting) = PendingIn(stack, Attempting)
  BY <1>1, AfterSuits
<1>3. /\ Suited(stack') /\ (Ends(stack) => Ends(stack'))
      /\ NoTeardown(stack) => NoTeardown(stack')
      /\ PendingIn(stack', Attempting) = PendingIn(stack, Attempting)
  BY <1>1, <1>2
<1>4. Quiet
  BY DEF HandleOther, Quiet, clientVars, requestVars, brokerVars, socketVars
<1> QED
  BY <1>3, <1>4, SuitedStep, TypedFacts, Counters
  DEF HandleOther, clientVars, socketVars, dataVars

LEMMA HandlePublishStep ==
    ASSUME MqttInv, HandlePublish, setting' = setting
    PROVE  MqttInv'
<1>1. PICK m \in Arrived : /\ m.type \in Types /\ stack' = Push(UserFrame, After(m))
                           /\ received' = Append(received, m.n)
  BY DEF HandlePublish, ArrivedOf, Types
<1>2. /\ Suited(After(m)) /\ (Ends(stack) => Ends(After(m)))
      /\ NoTeardown(stack) => NoTeardown(After(m))
      /\ PendingIn(After(m), Attempting) = PendingIn(stack, Attempting)
  BY <1>1, AfterSuits
<1> DEFINE s == After(m)
<1> HIDE DEF s
<1>3. /\ Suited(Push(UserFrame, s)) /\ (Ends(s) => Ends(Push(UserFrame, s)))
      /\ NoTeardown(s) => NoTeardown(Push(UserFrame, s))
      /\ PendingIn(Push(UserFrame, s), Attempting) = PendingIn(s, Attempting)
  BY <1>2, UserSuits DEF s
<1>4. /\ Suited(stack') /\ (Ends(stack) => Ends(stack'))
      /\ NoTeardown(stack) => NoTeardown(stack')
      /\ PendingIn(stack', Attempting) = PendingIn(stack, Attempting)
  BY <1>1, <1>2, <1>3 DEF s
<1>5. received' \in Seq(Numbers)
  <2>1. m.n \in Numbers
    BY <1>1, ArrivedFacts
  <2> QED
    BY <1>1, <2>1, TypedFacts, AppendProperties
<1>6. Quiet
  BY DEF HandlePublish, Quiet, clientVars, requestVars, brokerVars, socketVars
<1> QED
  BY <1>4, <1>5, <1>6, SuitedStep, TypedFacts, Counters
  DEF HandlePublish, clientVars, socketVars, dataVars

\* CONNACK is the first message on a connection: nothing else runs when it is handled, and
\* the broker that accepts has the session.
LEMMA HandleConnectACKStep ==
    ASSUME MqttInv, HandleConnectACK, setting' = setting
    PROVE  MqttInv'
<1>1. PICK m \in Arrived :
         /\ m.type = "conack"
         /\ connectAckTimer' = FALSE
         /\ IF Refused(m)
            THEN stack' = ErrorEvent(After(m)) /\ UNCHANGED connected
            ELSE stack' = PushIf(~connected, UserFrame, After(m)) /\ connected' = TRUE
  BY DEF HandleConnectACK, ArrivedOf
<1>2. /\ Suited(After(m)) /\ (Ends(stack) => Ends(After(m)))
      /\ NoTeardown(stack) => NoTeardown(After(m))
      /\ PendingIn(After(m), Attempting) = PendingIn(stack, Attempting)
  BY <1>1, AfterSuits DEF Types
<1> DEFINE s == After(m)
<1> HIDE DEF s
<1>3. /\ Suited(Push(UserFrame, s))
      /\ NoTeardown(s) => NoTeardown(Push(UserFrame, s))
      /\ PendingIn(Push(UserFrame, s), Attempting) = PendingIn(s, Attempting)
  BY <1>2, UserSuits DEF s
<1>4. /\ Suited(ErrorEvent(s)) /\ Ends(ErrorEvent(s))
      /\ NoTeardown(s) => NoTeardown(ErrorEvent(s))
      /\ PendingIn(ErrorEvent(s), Attempting) = PendingIn(s, Attempting)
  BY <1>2, ErrorSuits DEF s
<1>5. Quiet
  BY DEF HandleConnectACK, Quiet, clientVars, requestVars, brokerVars, socketVars
<1>6. /\ destroyed' = destroyed /\ keepAliveTimer' = keepAliveTimer /\ queries' = queries
      /\ lastBuffer' = lastBuffer /\ received' = received
      /\ calls' \in 0 .. setting.calls /\ faults' \in 0 .. setting.faults
  BY TypedFacts, Counters DEF HandleConnectACK, socketVars, dataVars
<1>7. CASE Refused(m)
  <2>1. /\ Suited(stack') /\ Ends(stack') /\ (NoTeardown(stack) => NoTeardown(stack'))
        /\ PendingIn(stack', Attempting) = PendingIn(stack, Attempting)
        /\ connected' = connected
    BY <1>1, <1>2, <1>4, <1>7 DEF s
  <2> QED
    BY <1>1, <1>5, <1>6, <2>1, SuitedStep, TypedFacts
<1>8. CASE ~Refused(m)
  <2>1. /\ Suited(stack') /\ (NoTeardown(stack) => NoTeardown(stack'))
        /\ PendingIn(stack', Attempting) = PendingIn(stack, Attempting)
        /\ connected' = TRUE
    BY <1>1, <1>2, <1>3, <1>8 DEF s, PushIf
  <2>2. ASSUME ~setting.split PROVE session = "up" /\ NoTeardown(stack)
    <3>1. /\ stack # <<>> /\ Head(stack).op = "messages" /\ Index = 1
          /\ Buffer[1].type = "conack" /\ Buffer[1].n = m.n /\ 1 \in 1 .. Len(Buffer)
      BY <1>1, <2>2, ArrivedFacts
    <3>2. m.n = 0
      BY <1>8 DEF Refused
    <3>3. Buffer # <<>>
      BY <3>1, EmptyWire
    <3>4. Accepts(Buffer)
      BY <3>1, <3>2, <3>3 DEF Accepts
    <3>5. FrameWhole(Head(stack)) /\ FramesIn(stack) = {Head(stack)} \cup FramesIn(Rest)
      BY <2>2, <3>1, BaseSuits DEF MqttInv, WholeInv, WholeBytes
    <3>6. session = "up" /\ Rest = <<>>
      BY <3>1, <3>4, <3>5 DEF FrameWhole, Buffer, Index
    <3> QED
      BY <3>1, <3>5, <3>6, EmptyStack DEF NoTeardown, Teardowns
  <2> QED
    BY <1>1, <1>5, <1>6, <2>1, <2>2, SuitedStep, TypedFacts
<1> QED
  BY <1>7, <1>8

\* The answer to a request: it is in the store under the id of its acknowledgement only.
LEMMA HandleAckStep ==
    ASSUME MqttInv, HandleAck, setting' = setting
    PROVE  MqttInv'
<1>1. PICK m \in Arrived :
         /\ m.type = "ack"
         /\ IF m.n \in DOMAIN outgoingStore
            THEN /\ answered' = Append(answered, outgoingStore[m.n])
                 /\ outgoingStore' = [i \in DOMAIN outgoingStore \ {m.n} |-> outgoingStore[i]]
            ELSE UNCHANGED <<answered, outgoingStore>>
         /\ stack' = Push(UserFrame, After(m))
  BY DEF HandleAck, ArrivedOf, AnsweredBy
<1>2. /\ connected' = connected /\ socketConnected' = socketConnected /\ destroyed' = destroyed
      /\ keepAliveTimer' = keepAliveTimer /\ connectAckTimer' = connectAckTimer
      /\ clientSocket' = clientSocket /\ open' = open /\ queries' = queries
      /\ nextMessageId' = nextMessageId /\ wire' = wire
      /\ requests' = requests /\ connecting' = connecting
      /\ published' = published /\ session' = session /\ unacked' = unacked /\ acked' = acked
      /\ unsent' = unsent
      /\ received' = received /\ lastBuffer' = lastBuffer
      /\ calls' \in 0 .. setting.calls /\ faults' \in 0 .. setting.faults
  BY TypedFacts, Counters DEF HandleAck, clientVars, brokerVars, socketVars, dataVars
<1>3. /\ Suited(After(m)) /\ (Ends(stack) => Ends(After(m)))
      /\ NoTeardown(stack) => NoTeardown(After(m))
      /\ PendingIn(After(m), Attempting) = PendingIn(stack, Attempting)
  BY <1>1, AfterSuits DEF Types
<1> DEFINE s == After(m)
<1> HIDE DEF s
<1>4. /\ Suited(Push(UserFrame, s)) /\ (Ends(s) => Ends(Push(UserFrame, s)))
      /\ NoTeardown(s) => NoTeardown(Push(UserFrame, s))
      /\ PendingIn(Push(UserFrame, s), Attempting) = PendingIn(s, Attempting)
  BY <1>3, UserSuits DEF s
<1>5. /\ Suited(stack') /\ (Ends(stack) => Ends(stack'))
      /\ NoTeardown(stack) => NoTeardown(stack')
      /\ PendingIn(stack', Attempting) = PendingIn(stack, Attempting)
  BY <1>1, <1>3, <1>4 DEF s
<1>6. CASE m.n \notin DOMAIN outgoingStore
  <2>1. Quiet
    BY <1>1, <1>2, <1>6 DEF Quiet, HandleAck
  <2> QED
    BY <1>2, <1>5, <2>1, SuitedStep, TypedFacts
<1>7. CASE m.n \in DOMAIN outgoingStore
  <2> DEFINE id == m.n
             r == outgoingStore[id]
  <2>1. /\ answered' = Append(answered, r)
        /\ DOMAIN outgoingStore' = DOMAIN outgoingStore \ {id}
        /\ \A i \in DOMAIN outgoingStore' : outgoingStore'[i] = outgoingStore[i]
        /\ id \in DOMAIN outgoingStore
    BY <1>1, <1>7
  <2>2. r \in 1 .. requests /\ answered \in Seq(1 .. requests) /\ requests \in Nat
    BY <1>7 DEF MqttInv, Typed, TypedRequests
  <2> HIDE DEF r
  <2>3. /\ answered' \in Seq(1 .. requests) /\ Len(answered') = Len(answered) + 1
        /\ Len(answered) \in Nat
        /\ \A i \in 1 .. Len(answered) : answered'[i] = answered[i]
        /\ answered'[Len(answered) + 1] = r
    BY <2>1, <2>2, AppendProperties, LenProperties
  <2>4. TypedClient'
    BY <1>2, TypedFacts DEF TypedClient
  <2>5. TypedRequests'
    BY <1>2, <2>1, <2>3 DEF MqttInv, Typed, TypedRequests
  <2>6. TypedBytes'
    BY <1>2 DEF MqttInv, Typed, TypedBytes
  <2>7. TypedStack'
    BY <1>2, <1>5, TypedFacts DEF TypedStack, Suited
  <2>8. Bounded'
    BY <1>2, <1>5 DEF MqttInv, Bounded, Ends
  <2>9. Linked'
    <3>1. socketConnected' /\ stack' # <<>> => \A f \in FramesIn(Rest') : f.op # "subscribe"
      BY <1>2, <1>5, SuitedRest DEF NoSubscribe, Rest
    <3> QED
      BY <1>2, <3>1 DEF MqttInv, Linked
  <2>10. ASSUME ~setting.split PROVE WholeInv'
    <3>1. WholeInv
      BY <2>10 DEF MqttInv
    <3>2. Settled(stack') /\ \A f \in FramesIn(stack') : FrameWhole(f)'
      BY <1>5, <2>10, SettledWhole DEF Suited
    <3>3. WholeBytes'
      BY <1>2, <3>1, <3>2 DEF WholeInv, WholeBytes
    <3>4. Connected'
      BY <1>2, <1>5, <2>10, TypedFacts DEF Connected, NoTeardown
    <3>5. AcksUnderWay' \subseteq AcksUnderWay
      <4>1. AcksUnderWay' = AcksIn(wire) \cup FrameAcks(stack')
        BY <1>2 DEF AcksUnderWay, FrameAcks
      <4>2. AcksUnderWay = AcksIn(wire) \cup FrameAcks(stack)
        BY UnderWayIds
      <4> QED
        BY <1>5, <2>10, <4>1, <4>2 DEF Suited
    <3>6. IdsUnderWay' \subseteq IdsUnderWay
      BY <1>2, <3>5 DEF IdsUnderWay
    <3>7. Reserved'
      <4> DEFINE n == PendingIn(stack', {"subscribe"})
                 k == PendingIn(stack, {"subscribe"})
      <4>1. n \in Nat /\ k \in Nat /\ n <= k
        <5>1. n \in Nat
          BY <1>5, PendingProps DEF Suited
        <5>2. k \in Nat
          BY BaseSuits
        <5> QED
          BY <1>5, <5>1, <5>2 DEF Suited
      <4>2. IdsOfNext(k) \cap IdsUnderWay = {}
        BY <3>1 DEF WholeInv, Reserved
      <4>3. Reserved' = (IdsOfNext(n) \cap IdsUnderWay' = {})
        BY <1>2 DEF Reserved, IdsOfNext
      <4>4. TypedRequests
        BY DEF MqttInv, Typed
      <4> HIDE DEF n, k
      <4>5. IdsOfNext(n) \subseteq IdsOfNext(k)
        BY <4>1, <4>4, IdsGrow
      <4> QED
        BY <3>6, <4>2, <4>3, <4>5
    <3>8. Matched'
      BY <1>2, <2>1, <3>1, <3>5 DEF WholeInv, Matched
    <3>9. r \in acked
      <4>1. /\ Buffer[Index].type = "ack" /\ Buffer[Index].n = id /\ Index \in 1 .. Len(Buffer)
            /\ stack # <<>>
        BY <1>1, <2>10, ArrivedFacts
      <4>2. Head(stack) \in SmallFrame /\ Head(stack) \in FramesIn(stack)
        BY <4>1, BaseSuits
      <4>3. Buffer \in Seq(SmallByte)
        BY <4>2 DEF SmallFrame, Buffer
      <4>4. id \in AcksIn(Buffer)
        BY <4>1, <4>3, AcksMembers
      <4>5. id \in AcksUnderWay
        BY <4>2, <4>4 DEF AcksUnderWay, Buffer
      <4> QED
        BY <2>1, <3>1, <4>5 DEF WholeInv, Matched, r
    <3>10. Once'
      <4>1. Once
        BY <3>1 DEF WholeInv
      <4>2. \A i \in 1 .. Len(answered') :
               \/ i \in 1 .. Len(answered) /\ answered'[i] = answered[i]
               \/ i = Len(answered) + 1 /\ answered'[i] = r
        BY <2>3
      <4>3. \A i \in 1 .. Len(answered) : answered[i] # r
        BY <2>1, <4>1 DEF Once, r
      <4>4. \A i \in 1 .. Len(answered') : answered'[i] \in acked' \cup unsent'
        BY <1>2, <3>9, <4>1, <4>2 DEF Once
      <4>5. \A i, j \in 1 .. Len(answered') : answered'[i] = answered'[j] => i = j
        BY <4>1, <4>2, <4>3 DEF Once
      <4>6. ASSUME NEW i \in 1 .. Len(answered'), NEW j \in DOMAIN outgoingStore'
            PROVE  outgoingStore'[j] # answered'[i]
        <5>1. j \in DOMAIN outgoingStore /\ j # id /\ outgoingStore'[j] = outgoingStore[j]
          BY <2>1
        <5>2. outgoingStore[j] # r
          BY <2>1, <4>1, <5>1 DEF Once, r
        <5> QED
          BY <4>1, <4>2, <5>1, <5>2 DEF Once
      <4>7. \A i, j \in DOMAIN outgoingStore' : outgoingStore'[i] = outgoingStore'[j] => i = j
        BY <2>1, <4>1 DEF Once
      <4> QED
        BY <4>4, <4>5, <4>6, <4>7 DEF Once
    <3> QED
      BY <3>3, <3>4, <3>7, <3>8, <3>10 DEF WholeInv
  <2>11. setting' = setting
    OBVIOUS
  <2> QED
    BY <2>4, <2>5, <2>6, <2>7, <2>8, <2>9, <2>10, <2>11 DEF MqttInv, Typed
<1> QED
  BY <1>6, <1>7

-----------------------------------------------------------------------------
(* Requests. *)

LEMMA NextIdProps ==
    ASSUME TypedRequests
    PROVE  /\ NextMessageId \in 1 .. MaxMessageId
           /\ \A n \in Nat : NextMessageId \in IdsOfNext(n + 1)
           /\ nextMessageId' = NextMessageId =>
                 /\ \A n \in Nat : IdsOfNext(n)' \subseteq IdsOfNext(n + 1)
                 /\ IdsOfNext(0)' = {}
<1>1. nextMessageId \in 0 .. MaxMessageId /\ MaxMessageId \in Nat \ {0}
  BY Bounds DEF TypedRequests
<1>2. NextMessageId = IF nextMessageId + 1 > MaxMessageId THEN 1 ELSE nextMessageId + 1
  BY DEF NextMessageId
<1> DEFINE x == NextMessageId
<1>3. x \in 1 .. MaxMessageId /\ (x = nextMessageId + 1 \/ (x = 1 /\ nextMessageId = MaxMessageId))
  BY <1>1, <1>2
<1>4. \A n \in Nat : x \in IdsOfNext(n + 1)
  <2> HIDE DEF x
  <2> QED
    BY <1>1, <1>3 DEF IdsOfNext
<1>5. ASSUME nextMessageId' = x, NEW n \in Nat PROVE IdsOfNext(n)' \subseteq IdsOfNext(n + 1)
  <2> SUFFICES ASSUME NEW id \in IdsOfNext(n)' PROVE id \in IdsOfNext(n + 1)
    OBVIOUS
  <2>1. /\ id \in 1 .. MaxMessageId
        /\ \/ x < id /\ id <= x + n
           \/ id + MaxMessageId <= x + n
    BY <1>5 DEF IdsOfNext
  <2> HIDE DEF x
  <2> QED
    BY <1>1, <1>3, <2>1 DEF IdsOfNext
<1>6. ASSUME nextMessageId' = x PROVE IdsOfNext(0)' = {}
  <2> SUFFICES ASSUME NEW id \in IdsOfNext(0)' PROVE FALSE
    OBVIOUS
  <2>1. /\ id \in 1 .. MaxMessageId
        /\ \/ x < id /\ id <= x + 0
           \/ id + MaxMessageId <= x + 0
    BY <1>6 DEF IdsOfNext
  <2> HIDE DEF x
  <2> QED
    BY <1>1, <1>3, <2>1
<1> QED
  BY <1>3, <1>4, <1>5, <1>6

\* A request takes a number that is new and an id that is not under way, and it is written
\* only when no subscription waits on the stack for an id of its own.
LEMMA RequestStep ==
    ASSUME MqttInv, setting' = setting, NEW n \in Nat, NEW frames, Request(frames),
           Suited(frames),
           Ends(stack) => Ends(frames),
           NoTeardown(stack) => NoTeardown(frames),
           PendingIn(frames, Attempting) = PendingIn(stack, Attempting),
           PendingIn(frames, {"subscribe"}) = n,
           ~setting.split => IdsOfNext(n + 1) \cap IdsUnderWay = {},
           calls' \in 0 .. setting.calls
    PROVE  MqttInv'
<1> DEFINE id == NextMessageId
           r == requests + 1
           e == [id |-> id, request |-> r]
<1>1. /\ connected' = connected /\ socketConnected' = socketConnected /\ destroyed' = destroyed
      /\ keepAliveTimer' = keepAliveTimer /\ connectAckTimer' = connectAckTimer
      /\ clientSocket' = clientSocket /\ open' = open /\ queries' = queries
      /\ nextMessageId' = id /\ wire' = wire /\ connecting' = connecting
      /\ requests' = r /\ answered' = answered /\ unsent' = unsent
      /\ published' = published /\ acked' = acked
      /\ received' = received /\ lastBuffer' = lastBuffer
  BY DEF Request, Write, clientVars, socketVars, dataVars
<1>2. outgoingStore' = [i \in DOMAIN outgoingStore \cup {id} |->
                           IF i = id THEN r ELSE outgoingStore[i]]
  BY DEF Request
<1>3. /\ unacked' = unacked \/ (socketConnected /\ unacked' = Append(unacked, e))
      /\ session' = session \/ (clientSocket \in connecting /\ session' = "spoiled")
      /\ stack' = frames \/ stack' = ErrorEvent(frames)
      /\ faults' \in 0 .. setting.faults
  <2>1. faults' \in 0 .. setting.faults
    BY TypedFacts, Counters DEF Request, Write
  <2> QED
    BY <2>1 DEF Request, Write
<1>4. /\ Suited(ErrorEvent(frames)) /\ Ends(ErrorEvent(frames))
      /\ NoTeardown(frames) => NoTeardown(ErrorEvent(frames))
      /\ PendingIn(ErrorEvent(frames), Attempting) = PendingIn(frames, Attempting)
      /\ PendingIn(ErrorEvent(frames), {"subscribe"}) = PendingIn(frames, {"subscribe"})
  BY ErrorSuits
<1>5. /\ Suited(stack') /\ (Ends(stack) => Ends(stack'))
      /\ NoTeardown(stack) => NoTeardown(stack')
      /\ PendingIn(stack', Attempting) = PendingIn(stack, Attempting)
      /\ PendingIn(stack', {"subscribe"}) = n
  BY <1>3, <1>4
<1>6. TypedRequests
  BY DEF MqttInv, Typed
<1>7. /\ id \in 1 .. MaxMessageId /\ id \in IdsOfNext(n + 1)
      /\ IdsOfNext(n)' \subseteq IdsOfNext(n + 1) /\ IdsOfNext(0)' = {}
      /\ requests \in Nat /\ r \in 1 .. r /\ 1 .. requests \subseteq 1 .. r /\ r \notin 1 .. requests
  BY <1>1, <1>6, NextIdProps DEF TypedRequests
<1> DEFINE T == [id : 1 .. MaxMessageId, request : 1 .. r]
<1>8. e \in T /\ unacked \in Seq(T) /\ answered \in Seq(1 .. r) /\ acked \subseteq 1 .. r
      /\ unsent \subseteq 1 .. r
  <2>1. e \in T
    BY <1>7
  <2>2. [id : 1 .. MaxMessageId, request : 1 .. requests] \subseteq T
    BY <1>7
  <2> HIDE DEF T, e, r
  <2> QED
    <3> DEFINE S == [id : 1 .. MaxMessageId, request : 1 .. requests]
               U == 1 .. requests
               V == 1 .. r
    <3>1. unacked \in Seq(S) /\ S \subseteq T /\ answered \in Seq(U) /\ acked \subseteq U /\ U \subseteq V
          /\ unsent \subseteq U
      BY <1>6, <1>7, <2>2 DEF TypedRequests
    <3> HIDE DEF S, U, V
    <3>2. unacked \in Seq(T)
      BY <3>1, SeqMonotonic
    <3>3. answered \in Seq(V) /\ acked \subseteq V /\ unsent \subseteq V
      BY <3>1, SeqMonotonic
    <3> QED
      BY <2>1, <3>2, <3>3 DEF V
<1>9. e.id = id /\ e.request = r
  OBVIOUS
<1> HIDE DEF id, r, e, T
<1>10. /\ unacked' \in Seq(T)
       /\ \A j \in 1 .. Len(unacked') :
             \/ j \in 1 .. Len(unacked) /\ unacked'[j] = unacked[j]
             \/ socketConnected /\ unacked'[j] = e
  <2>1. CASE unacked' = unacked
    BY <1>8, <2>1
  <2>2. CASE socketConnected /\ unacked' = Append(unacked, e)
    <3>1. /\ unacked' \in Seq(T) /\ Len(unacked') = Len(unacked) + 1
          /\ \A j \in 1 .. Len(unacked) : unacked'[j] = unacked[j]
          /\ unacked'[Len(unacked) + 1] = e /\ Len(unacked) \in Nat
      BY <1>8, <2>2, AppendProperties, LenProperties
    <3>2. \A j \in 1 .. Len(unacked') : j \in 1 .. Len(unacked) \/ j = Len(unacked) + 1
      BY <3>1
    <3> QED
      BY <2>2, <3>1, <3>2
  <2> QED
    BY <1>3, <2>1, <2>2
<1>11. TypedClient'
  BY <1>1, <1>3, TypedFacts DEF TypedClient
<1>12. TypedRequests'
  <2>1. /\ DOMAIN outgoingStore' \subseteq 1 .. MaxMessageId
        /\ \A i \in DOMAIN outgoingStore' : outgoingStore'[i] \in 1 .. r
    BY <1>2, <1>6, <1>7 DEF TypedRequests
  <2>2. unacked' \in Seq([id : 1 .. MaxMessageId, request : 1 .. r])
    BY <1>10 DEF T
  <2>3. r \in Nat /\ nextMessageId' \in 0 .. MaxMessageId
    BY <1>1, <1>7, Bounds DEF r
  <2> QED
    BY <1>1, <1>8, <2>1, <2>2, <2>3 DEF TypedRequests
<1>13. TypedBytes'
  BY <1>1, <1>3 DEF MqttInv, Typed, TypedBytes
<1>14. TypedStack'
  BY <1>1, <1>5, TypedFacts DEF TypedStack, Suited
<1>15. Bounded'
  BY <1>1, <1>5 DEF MqttInv, Bounded, Ends
<1>16. session = "up" => session' = "up"
  BY <1>3 DEF MqttInv, Linked
<1>17. Linked'
  <2>1. socketConnected' /\ stack' # <<>> => \A f \in FramesIn(Rest') : f.op # "subscribe"
    BY <1>1, <1>5, SuitedRest DEF NoSubscribe, Rest
  <2>2. session' = "up" => session = "up"
    BY <1>3
  <2> QED
    BY <1>1, <1>3, <2>1, <2>2 DEF MqttInv, Linked
<1>18. ASSUME ~setting.split PROVE WholeInv'
  <2>1. WholeInv
    BY <1>18 DEF MqttInv
  <2>2. Settled(stack') /\ \A f \in FramesIn(stack') : FrameWhole(f)'
    BY <1>5, <1>18, SettledWhole DEF Suited
  <2>3. WholeBytes'
    BY <1>1, <1>16, <2>1, <2>2 DEF WholeInv, WholeBytes
  <2>4. Connected'
    BY <1>1, <1>5, <1>16, <1>18, TypedFacts DEF Connected, NoTeardown
  <2>5. AcksUnderWay' \subseteq AcksUnderWay
    <3>1. AcksUnderWay' = AcksIn(wire) \cup FrameAcks(stack')
      BY <1>1 DEF AcksUnderWay, FrameAcks
    <3>2. AcksUnderWay = AcksIn(wire) \cup FrameAcks(stack)
      BY UnderWayIds
    <3> QED
      BY <1>5, <1>18, <3>1, <3>2 DEF Suited
  <2>6. id \notin IdsUnderWay
    BY <1>7, <1>18
  <2>7. Reserved'
    <3>1. Reserved' = (IdsOfNext(n)' \cap IdsUnderWay' = {})
      BY <1>5 DEF Reserved, IdsOfNext
    <3>2. CASE socketConnected
      <4>1. n = 0
        <5> DEFINE s == stack'
        <5>1. s \in Seq(SmallFrame) /\ \A f \in FramesIn(s) : f.op \notin {"subscribe"}
          BY <1>5, <3>2 DEF Suited, NoSubscribe
        <5> HIDE DEF s
        <5>2. PendingIn(s, {"subscribe"}) = 0
          BY <5>1, PendingProps
        <5> QED
          BY <1>5, <5>2 DEF s
      <4> QED
        BY <1>7, <3>1, <4>1
    <3>3. CASE ~socketConnected
      <4>1. unacked' = unacked
        BY <1>3, <3>3
      <4>2. IdsUnderWay' \subseteq IdsUnderWay
        BY <2>5, <4>1 DEF IdsUnderWay
      <4> QED
        BY <1>7, <1>18, <3>1, <4>2
    <3> QED
      BY <3>2, <3>3
  <2>8. /\ DOMAIN outgoingStore' = DOMAIN outgoingStore \cup {id} /\ outgoingStore'[id] = r
        /\ \A i \in DOMAIN outgoingStore : i # id => outgoingStore'[i] = outgoingStore[i]
    BY <1>2
  <2>9. Matched'
    <3>1. Matched
      BY <2>1 DEF WholeInv
    <3>2. ASSUME NEW j \in 1 .. Len(unacked'), unacked'[j].id \in DOMAIN outgoingStore'
          PROVE  outgoingStore'[unacked'[j].id] = unacked'[j].request
      <4>1. CASE j \in 1 .. Len(unacked) /\ unacked'[j] = unacked[j]
        <5>1. unacked[j].id # id
          BY <2>6, <4>1 DEF IdsUnderWay
        <5> QED
          BY <2>8, <3>1, <3>2, <4>1, <5>1 DEF Matched
      <4>2. CASE unacked'[j] = e
        BY <1>9, <2>8, <4>2
      <4> QED
        BY <1>10, <4>1, <4>2
    <3>3. ASSUME NEW i \in AcksUnderWay', i \in DOMAIN outgoingStore' PROVE outgoingStore'[i] \in acked'
      <4>1. i \in AcksUnderWay /\ i # id
        BY <2>5, <2>6 DEF IdsUnderWay
      <4> QED
        BY <1>1, <2>8, <3>1, <3>3, <4>1 DEF Matched
    <3> QED
      BY <3>2, <3>3 DEF Matched
  <2>10. Once'
    <3>1. Once
      BY <2>1 DEF WholeInv
    <3>2. \A i \in DOMAIN outgoingStore : outgoingStore[i] # r
      BY <1>6, <1>7 DEF TypedRequests
    <3>3. \A i \in 1 .. Len(answered) : answered[i] # r
      <4>1. answered \in Seq(1 .. requests)
        BY <1>6 DEF TypedRequests
      <4>2. \A i \in 1 .. Len(answered) : answered[i] \in 1 .. requests
        BY <4>1, ElementOfSeq
      <4> QED
        BY <1>7, <4>2
    <3>4. \A i \in 1 .. Len(answered), j \in DOMAIN outgoingStore' : outgoingStore'[j] # answered[i]
      BY <2>8, <3>1, <3>3 DEF Once
    <3>5. \A i, j \in DOMAIN outgoingStore' : outgoingStore'[i] = outgoingStore'[j] => i = j
      BY <2>8, <3>1, <3>2 DEF Once
    <3> QED
      BY <1>1, <3>1, <3>4, <3>5 DEF Once
  <2> QED
    BY <2>3, <2>4, <2>7, <2>9, <2>10 DEF WholeInv
<1>19. setting' = setting
  OBVIOUS
<1> QED
  BY <1>11, <1>12, <1>13, <1>14, <1>15, <1>17, <1>18, <1>19 DEF MqttInv, Typed

\* A message that is not to be acknowledged: it may fail, or spoil a session that has
\* yet to begin, which only bytes read out of step take for one that is up.
LEMMA PublishUnaskedStep ==
    ASSUME MqttInv, PublishUnasked, setting' = setting, Suited(stack),
           calls' \in 0 .. setting.calls
    PROVE  MqttInv'
<1>1. /\ connected' = connected /\ socketConnected' = socketConnected /\ destroyed' = destroyed
      /\ keepAliveTimer' = keepAliveTimer /\ connectAckTimer' = connectAckTimer
      /\ clientSocket' = clientSocket /\ open' = open /\ queries' = queries
      /\ nextMessageId' = nextMessageId /\ wire' = wire /\ connecting' = connecting
      /\ outgoingStore' = outgoingStore /\ requests' = requests
      /\ answered' = answered /\ unsent' = unsent
      /\ published' = published /\ acked' = acked /\ unacked' = unacked
      /\ received' = received /\ lastBuffer' = lastBuffer
  BY DEF PublishUnasked, Write, clientVars, requestVars, socketVars, dataVars
<1>2. faults' \in 0 .. setting.faults
  BY TypedFacts, Counters DEF PublishUnasked, Write
<1>3. /\ Suited(ErrorEvent(stack)) /\ Ends(ErrorEvent(stack))
      /\ NoTeardown(stack) => NoTeardown(ErrorEvent(stack))
      /\ PendingIn(ErrorEvent(stack), Attempting) = PendingIn(stack, Attempting)
  BY ErrorSuits
<1>4. CASE session' = session
  <2>1. stack' = stack \/ stack' = ErrorEvent(stack)
    BY DEF PublishUnasked, Write
  <2>2. /\ Suited(stack') /\ (Ends(stack) => Ends(stack'))
        /\ NoTeardown(stack) => NoTeardown(stack')
        /\ PendingIn(stack', Attempting) = PendingIn(stack, Attempting)
    BY <1>3, <2>1
  <2>3. Quiet
    BY <1>1, <1>4 DEF Quiet
  <2> QED
    BY <1>1, <1>2, <2>2, <2>3, SuitedStep, TypedFacts
<1>5. CASE session' # session
  <2>1. clientSocket \in connecting /\ session' = "spoiled" /\ stack' = stack /\ connected
    BY <1>5 DEF PublishUnasked, Write
  <2>2. setting.split \in BOOLEAN
    BY Bounds DEF MqttInv, Typed, TypedClient
  <2>3. setting.split
    BY <2>1, <2>2 DEF MqttInv, WholeInv, Connected, Linked
  <2>4. Typed'
    BY <1>1, <1>2, <2>1
    DEF MqttInv, Typed, TypedClient, TypedRequests, TypedBytes, TypedStack
  <2>5. Bounded' /\ Linked'
    BY <1>1, <2>1 DEF MqttInv, Bounded, Linked, Rest
  <2> QED
    BY <2>3, <2>4, <2>5 DEF MqttInv
<1> QED
  BY <1>4, <1>5

\* A request of a client that is not connected only takes its number.
LEMMA PublishUnsentStep ==
    ASSUME MqttInv, PublishUnsent, setting' = setting, calls' \in 0 .. setting.calls
    PROVE  MqttInv'
<1> DEFINE r == requests + 1
<1>1. /\ connected' = connected /\ socketConnected' = socketConnected /\ destroyed' = destroyed
      /\ keepAliveTimer' = keepAliveTimer /\ connectAckTimer' = connectAckTimer
      /\ clientSocket' = clientSocket /\ open' = open /\ queries' = queries
      /\ nextMessageId' = nextMessageId /\ wire' = wire /\ connecting' = connecting
      /\ outgoingStore' = outgoingStore /\ session' = session /\ stack' = stack
      /\ published' = published /\ acked' = acked /\ unacked' = unacked
      /\ received' = received /\ lastBuffer' = lastBuffer /\ faults' = faults
      /\ requests' = r /\ answered' = Append(answered, r) /\ unsent' = unsent \cup {r}
  BY DEF PublishUnsent, clientVars, brokerVars, socketVars, dataVars
<1>2. TypedRequests
  BY DEF MqttInv, Typed
<1>3. requests \in Nat /\ r \in 1 .. r /\ 1 .. requests \subseteq 1 .. r /\ r \notin 1 .. requests
  BY <1>2 DEF TypedRequests
<1> HIDE DEF r
<1>4. /\ answered \in Seq(1 .. r) /\ unacked \in Seq([id : 1 .. MaxMessageId, request : 1 .. r])
      /\ \A i \in 1 .. Len(answered) : answered[i] \in 1 .. requests
  <2> DEFINE U == 1 .. requests
             V == 1 .. r
             S == [id : 1 .. MaxMessageId, request : U]
             T == [id : 1 .. MaxMessageId, request : V]
  <2>1. S \subseteq T /\ U \subseteq V /\ answered \in Seq(U) /\ unacked \in Seq(S)
    BY <1>2, <1>3 DEF TypedRequests
  <2> HIDE DEF S, T, U, V
  <2>2. answered \in Seq(V) /\ unacked \in Seq(T) /\ \A i \in 1 .. Len(answered) : answered[i] \in U
    BY <2>1, SeqMonotonic, ElementOfSeq
  <2> QED
    BY <2>2 DEF T, U, V
<1>5. /\ answered' \in Seq(1 .. r) /\ Len(answered') = Len(answered) + 1
      /\ \A i \in 1 .. Len(answered) : answered'[i] = answered[i]
      /\ answered'[Len(answered) + 1] = r /\ Len(answered) \in Nat
  BY <1>1, <1>3, <1>4, AppendProperties, LenProperties
<1>6. TypedClient'
  BY <1>1, TypedFacts DEF TypedClient
<1>7. TypedRequests'
  <2>1. \A id \in DOMAIN outgoingStore' : outgoingStore'[id] \in 1 .. r
    BY <1>1, <1>2, <1>3 DEF TypedRequests
  <2>2. r \in Nat
    BY <1>3 DEF r
  <2>3. acked \subseteq 1 .. r /\ unsent \cup {r} \subseteq 1 .. r
    BY <1>2, <1>3 DEF TypedRequests
  <2> QED
    BY <1>1, <1>2, <1>4, <1>5, <2>1, <2>2, <2>3 DEF TypedRequests
<1>8. TypedBytes' /\ TypedStack'
  BY <1>1 DEF MqttInv, Typed, TypedBytes, TypedStack
<1>9. Bounded' /\ Linked'
  BY <1>1 DEF MqttInv, Bounded, Linked, Rest
<1>10. ASSUME ~setting.split PROVE WholeInv'
  <2>1. WholeInv
    BY <1>10 DEF MqttInv
  <2>2. WholeBytes' /\ Connected'
    BY <1>1, <2>1 DEF WholeInv, WholeBytes, FrameWhole, Rest, Connected
  <2>3. AcksUnderWay' = AcksUnderWay /\ IdsUnderWay' = IdsUnderWay
    BY <1>1 DEF AcksUnderWay, IdsUnderWay
  <2>4. Reserved' /\ Matched'
    BY <1>1, <2>1, <2>3 DEF WholeInv, Reserved, Matched, IdsOfNext
  <2>5. \A i \in 1 .. Len(answered') :
          \/ i \in 1 .. Len(answered) /\ answered'[i] = answered[i] /\ answered[i] # r
          \/ i = Len(answered) + 1 /\ answered'[i] = r
    <3>1. \A i \in 1 .. Len(answered') : i \in 1 .. Len(answered) \/ i = Len(answered) + 1
      BY <1>5
    <3> QED
      BY <1>3, <1>4, <1>5, <3>1
  <2>6. \A id \in DOMAIN outgoingStore : outgoingStore[id] # r
    BY <1>2, <1>3 DEF TypedRequests
  <2>7. Once
    BY <2>1 DEF WholeInv
  <2>8. \A i \in 1 .. Len(answered') : answered'[i] \in acked' \cup unsent'
    BY <1>1, <2>5, <2>7 DEF Once
  <2>9. \A i, j \in 1 .. Len(answered') : answered'[i] = answered'[j] => i = j
    BY <2>5, <2>7 DEF Once
  <2>10. ASSUME NEW i \in 1 .. Len(answered'), NEW id \in DOMAIN outgoingStore'
         PROVE  outgoingStore'[id] # answered'[i]
    BY <1>1, <2>5, <2>6, <2>7 DEF Once
  <2>11. Once'
    BY <1>1, <2>7, <2>8, <2>9, <2>10 DEF Once
  <2> QED
    BY <2>2, <2>4, <2>11 DEF WholeInv
<1> QED
  BY <1>6, <1>7, <1>8, <1>9, <1>10 DEF MqttInv, Typed

LEMMA UserPublishStep ==
    ASSUME MqttInv, UserPublish, setting' = setting
    PROVE  MqttInv'
<1>1. Suited(stack) /\ calls' \in 0 .. setting.calls
  BY MayCallFacts DEF UserPublish
<1>2. CASE MayRequest /\ Request(stack)
  <2>1. PICK n : n = PendingIn(stack, {"subscribe"})
    OBVIOUS
  <2>2. n \in Nat
    BY <2>1, BaseSuits
  <2>3. IdsOfNext(n + 1) \cap IdsUnderWay = {}
    BY <1>2, <2>1, UnderWayIds DEF MayRequest, Pending, PendingIn
  <2> QED
    BY <1>1, <1>2, <2>1, <2>2, <2>3, RequestStep
<1> QED
  BY <1>1, <1>2, PublishUnaskedStep, PublishUnsentStep DEF UserPublish

LEMMA SendSubscribeStep ==
    ASSUME MqttInv, SendSubscribe, setting' = setting
    PROVE  MqttInv'
<1>1. /\ stack # <<>> /\ Head(stack).op = "subscribe" /\ Request(Rest)
      /\ calls' \in 0 .. setting.calls
  BY TypedFacts, Counters DEF SendSubscribe, Running
<1>2. /\ Suited(Rest) /\ FramesIn(stack) = {Head(stack)} \cup FramesIn(Rest)
      /\ \A ops : PendingIn(stack, ops)
            = PendingIn(Rest, ops) + (IF Head(stack).op \in ops THEN 1 ELSE 0)
      /\ \A ops : PendingIn(Rest, ops) \in Nat
  BY <1>1, BaseSuits
<1> DEFINE sub == {"subscribe"}
           n == PendingIn(Rest, sub)
<1>3. Head(stack).op \in sub /\ Head(stack).op \notin Attempting /\ Head(stack).op \notin Ending
  BY <1>1 DEF Attempting, Ending
<1>4. n \in Nat /\ n = PendingIn(Rest, {"subscribe"})
  BY <1>2
<1> HIDE DEF n
<1>5. PendingIn(stack, {"subscribe"}) = n + 1
  <2> HIDE DEF sub
  <2>1. PendingIn(stack, sub) = n + 1
    BY <1>2, <1>3 DEF n
  <2> QED
    BY <2>1 DEF sub
<1>6. PendingIn(Rest, Attempting) = PendingIn(stack, Attempting)
  BY <1>2, <1>3
<1>7. ~setting.split => IdsOfNext(n + 1) \cap IdsUnderWay = {}
  BY <1>5 DEF MqttInv, WholeInv, Reserved
<1>8. (Ends(stack) => Ends(Rest)) /\ (NoTeardown(stack) => NoTeardown(Rest))
  BY <1>2, <1>3 DEF Ends, NoTeardown
<1> QED
  BY <1>1, <1>2, <1>4, <1>6, <1>7, <1>8, RequestStep

-----------------------------------------------------------------------------
(* The theorems. *)

LEMMA MqttStarts ==
    ASSUME Init
    PROVE  MqttInv
<1>1. TypedClient
  <2>1. setting \in Settings /\ setting.calls \in Nat /\ setting.faults \in Nat
    BY Bounds DEF Init
  <2>2. calls \in 0 .. setting.calls /\ faults \in 0 .. setting.faults
    BY <2>1 DEF Init
  <2>3. open \subseteq Sockets /\ connecting \subseteq Sockets /\ clientSocket \in Sockets \cup {None}
    BY DEF Init
  <2>4. /\ connected \in BOOLEAN /\ socketConnected \in BOOLEAN /\ destroyed \in BOOLEAN
        /\ keepAliveTimer \in BOOLEAN /\ connectAckTimer \in BOOLEAN
    BY DEF Init
  <2> QED
    BY <2>1, <2>2, <2>3, <2>4 DEF TypedClient
<1>2. TypedRequests
  BY Bounds, EmptyWire DEF Init, TypedRequests
<1>3. TypedBytes
  BY Bounds, EmptyWire DEF Init, TypedBytes
<1>4. TypedStack
  BY Bounds, EmptyStack DEF Init, TypedStack
<1>5. Bounded /\ Linked
  BY Bounds DEF Init, Bounded, Linked, None
<1>6. WholeBytes /\ Connected
  BY EmptyWire, EmptyStack DEF Init, WholeBytes, Connected
<1>7. AcksUnderWay = {} /\ IdsUnderWay = {}
  BY EmptyStack, EmptyWire, NoAcks DEF Init, AcksUnderWay, IdsUnderWay
<1>8. Reserved /\ Matched /\ Once
  BY <1>7, EmptyWire DEF Init, Reserved, Matched, Once
<1> QED
  BY <1>1, <1>2, <1>3, <1>4, <1>5, <1>6, <1>8 DEF MqttInv, Typed, WholeInv

LEMMA MqttStutters ==
    ASSUME MqttInv, UNCHANGED <<setting, vars>>
    PROVE  MqttInv'
<1>1. /\ connected' = connected /\ socketConnected' = socketConnected /\ destroyed' = destroyed
      /\ keepAliveTimer' = keepAliveTimer /\ connectAckTimer' = connectAckTimer
      /\ clientSocket' = clientSocket /\ open' = open /\ calls' = calls /\ queries' = queries
      /\ outgoingStore' = outgoingStore /\ nextMessageId' = nextMessageId
      /\ requests' = requests /\ answered' = answered /\ unsent' = unsent /\ connecting' = connecting
      /\ published' = published /\ session' = session /\ stack' = stack /\ wire' = wire
      /\ unacked' = unacked /\ acked' = acked /\ setting' = setting
      /\ lastBuffer' = lastBuffer /\ received' = received /\ faults' = faults
  BY DEF vars, clientVars, requestVars, brokerVars, socketVars, dataVars
<1>2. Typed'
  BY <1>1 DEF MqttInv, Typed, TypedClient, TypedRequests, TypedBytes, TypedStack
<1>3. Bounded' /\ Linked'
  BY <1>1 DEF MqttInv, Bounded, Linked, Rest
<1>4. WholeBytes => WholeBytes'
  BY <1>1 DEF WholeBytes, FrameWhole, Rest
<1>5. Connected => Connected'
  BY <1>1 DEF Connected
<1>6. AcksUnderWay' = AcksUnderWay /\ IdsUnderWay' = IdsUnderWay
  BY <1>1 DEF AcksUnderWay, IdsUnderWay
<1>7. Reserved => Reserved'
  BY <1>1, <1>6 DEF Reserved, IdsOfNext
<1>8. Matched => Matched'
  BY <1>1, <1>6 DEF Matched
<1>9. Once => Once'
  BY <1>1 DEF Once
<1> QED
  BY <1>1, <1>2, <1>3, <1>4, <1>5, <1>7, <1>8, <1>9 DEF MqttInv, WholeInv

\* The inductive invariant: every step of the client, of the loop, of the broker and of
\* user code keeps it.
THEOREM MqttInvariant == Spec => []MqttInv
<1>1. Init => MqttInv
  BY MqttStarts
<1>2. MqttInv /\ [Next /\ UNCHANGED setting]_<<setting, vars>> => MqttInv'
  <2> SUFFICES ASSUME MqttInv, [Next /\ UNCHANGED setting]_<<setting, vars>> PROVE MqttInv'
    OBVIOUS
  <2>1. CASE UNCHANGED <<setting, vars>>
    BY <2>1, MqttStutters
  <2>2. CASE Next /\ UNCHANGED setting
    <3>1. setting' = setting
      BY <2>2
    <3>2. CASE UserCall
      BY <3>1, <3>2, UserConnectStep, UserCloseStep, UserPublishStep, UserSubscribeStep DEF UserCall
    <3>3. CASE Continue
      BY <3>1, <3>3, DisconnectStep, OfflineStep, TeardownStep, ConnectStep, ReconnectStep,
         ClosedStep, SendSubscribeStep, ReturnStep, KeepRestStep, HandleConnectACKStep,
         HandlePublishStep, HandleAckStep, HandleOtherStep DEF Continue
    <3>4. CASE Loop
      BY <3>1, <3>4, CheckKeepAliveStep, ConnectTimeoutStep, QueryAnsweredStep,
         ConnectAnsweredStep, ReadFailsStep, ReceiveStep DEF Loop
    <3>5. CASE Broker
      BY <3>1, <3>5, BrokerPublishesStep, BrokerAcksStep DEF Broker
    <3> QED
      BY <2>2, <3>2, <3>3, <3>4, <3>5 DEF Next
  <2> QED
    BY <2>1, <2>2
<1> QED
  BY <1>1, <1>2, PTL DEF Spec

\* The type invariant: whatever is read out of step, what the client holds stays what the
\* code expects, and queries of the resolver keep to their bound.
THEOREM MqttTyped == Spec => []TypeOK
<1>1. MqttInv => TypeOK
  <2> SUFFICES ASSUME MqttInv PROVE TypeOK
    OBVIOUS
  <2>1. SmallByte \subseteq Byte
    BY Bounds DEF SmallByte, Byte, Numbers
  <2>2. Seq(SmallByte) \subseteq Seq(Byte)
    BY <2>1, SeqMonotonic
  <2>3. SmallFrame \subseteq Frame
    BY <2>2 DEF SmallFrame, Frame, Ops
  <2>4. stack \in Seq(Frame)
    BY <2>3, SeqMonotonic DEF MqttInv, Typed, TypedStack
  <2>5. queries \in 0 .. MaxSockets
    BY TypedFacts
  <2>6. received \in Seq(0 .. MaxMessageId + MaxPublish)
    BY DEF MqttInv, Typed, TypedBytes, Numbers
  <2>7. TypedClient /\ TypedRequests /\ TypedBytes
    BY DEF MqttInv, Typed
  <2> QED
    BY <2>2, <2>4, <2>5, <2>6, <2>7 DEF TypeOK, TypedClient, TypedRequests, TypedBytes
<1> QED
  BY <1>1, MqttInvariant, PTL

\* AttemptBounded, for any number of sockets, calls and failures: no socket is forgotten
\* while it is open, and a client that holds a socket between two events is connected or
\* has the timer of the attempt.
THEOREM AttemptsAreBounded == Spec => []AttemptBounded
<1>1. MqttInv => AttemptBounded
  <2> SUFFICES ASSUME MqttInv PROVE AttemptBounded
    OBVIOUS
  <2>1. Idle => ~Ends(stack)
    BY EmptyStack DEF Idle, Ends
  <2> QED
    BY <2>1, TypedFacts DEF AttemptBounded, MqttInv, Bounded
<1> QED
  BY <1>1, MqttInvariant, PTL

\* AckOwn, for any number of ids, requests and reconnections: the callback of a request is
\* called at most once, and only after the broker acknowledged this very request, unless
\* publish() was called while the client was not connected and sent nothing (init.lua:93).
THEOREM AcksAreOwn == Spec => []AckOwn
<1>1. MqttInv => AckOwn
  <2> SUFFICES ASSUME MqttInv, ~setting.split
               PROVE  /\ \A i \in DOMAIN answered : answered[i] \in acked \cup unsent
                      /\ \A i, j \in DOMAIN answered : answered[i] = answered[j] => i = j
    BY DEF AckOwn
  <2>1. DOMAIN answered = 1 .. Len(answered)
    BY LenProperties DEF MqttInv, Typed, TypedRequests
  <2>2. Once
    BY DEF MqttInv, WholeInv
  <2> QED
    BY <2>1, <2>2 DEF Once
<1> QED
  BY <1>1, MqttInvariant, PTL

\* SessionSane: a client that says it is connected, between two events, has a socket, which
\* is connected, to a broker that has accepted it.
THEOREM SessionsAreSane == Spec => []SessionSane
<1>1. MqttInv => SessionSane
  BY DEF SessionSane, MqttInv, WholeInv, Connected, Linked
<1> QED
  BY <1>1, MqttInvariant, PTL
=============================================================================

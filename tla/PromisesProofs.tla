--------------------------- MODULE PromisesProofs ---------------------------
(***************************************************************************)
(* Proofs about Promises, for any number of promises, of calls of user     *)
(* code and of inputs of all() and race(), and any order of the calls.     *)
(***************************************************************************)
EXTENDS Promises, SequenceTheorems, FiniteSetTheorems, WellFoundedInduction, TLAPS

\* Induction over the numbers, as a property of sets: the induction of the library
\* takes an operator.
LEMMA Least ==
    ASSUME NEW T, T \subseteq Nat, T # {}
    PROVE  \E m \in T : \A k \in T : m <= k
<1> DEFINE R == OpToRel(<, Nat)
<1>1. IsWellFoundedOn(R, Nat)
  BY NatLessThanWellFounded
<1> HIDE DEF R
<1>2. PICK m \in T : \A k \in T : ~(<<k, m>> \in R)
  BY <1>1, WFMin
<1>3. \A k \in T : ~(k < m)
  BY <1>2 DEF OpToRel, R
<1> QED
  BY <1>2, <1>3

LEMMA SetInduction ==
    ASSUME NEW S, 0 \in S, \A n \in Nat : n \in S => n + 1 \in S
    PROVE  \A n \in Nat : n \in S
<1> DEFINE T == Nat \ S
<1>1. SUFFICES ASSUME T # {} PROVE FALSE
  OBVIOUS
<1>2. PICK m \in T : \A k \in T : m <= k
  <2>1. T \subseteq Nat
    OBVIOUS
  <2> HIDE DEF T
  <2> QED
    BY <1>1, <2>1, Least
<1>3. m \in Nat /\ m # 0 /\ m - 1 \in Nat
  OBVIOUS
<1>4. m - 1 \notin T
  BY <1>2, <1>3
<1> QED
  BY <1>3, <1>4


-----------------------------------------------------------------------------
(* Promises: the inductive invariant. *)

\* What surrounds the promises and the timers.
Around == [draining |-> draining, handling |-> handling, own |-> own, joins |-> joins,
           races |-> races, calls |-> promiseCalls, heard |-> heard]

Dom(w) == 1 .. Len(w.promises)
St(w, p) == w.promises[p].state
Val(w, p) == w.promises[p].value
Qu(w, p) == w.promises[p].queue
IsSettled(w, p) == St(w, p) # "pending"

Entries == [kind : {"user", "follow", "all", "reject", "first"}, to : Nat,
            on : SUBSET States, nr : Nat]
PromiseType == [state : {"pending"} \cup States, value : Int, queue : Seq(Entries)]
JoinType == [to : Nat, inputs : Seq(Nat), remaining : Int, failed : BOOLEAN]
RaceType == [to : Nat, inputs : Seq(Nat), all : Nat]

\* A promise has a value when it is settled, and only then its queue is to be run.
WorldType(w) ==
    /\ w \in [promises : Seq(PromiseType), timeouts : Seq(Nat)]
    /\ \A p \in Dom(w) : IsSettled(w, p) <=> Val(w, p) # Nil
    /\ \A i \in 1 .. Len(w.timeouts) :
         w.timeouts[i] \in Dom(w) /\ IsSettled(w, w.timeouts[i])

AroundType(w, a) ==
    /\ a.draining # Nobody => a.draining \in Dom(w) /\ IsSettled(w, a.draining)
    /\ a.handling # NoEntry => a.handling \in Entries
    /\ a.joins \in Seq(JoinType) /\ a.races \in Seq(RaceType)
    /\ a.calls \in Nat
    /\ a.heard \in Seq([of : Nat, nr : Nat, state : States])

\* The promises of all() and race(), which nothing else settles.
JoinTo(a, p) == \E j \in 1 .. Len(a.joins) : a.joins[j].to = p
RaceTo(a, p) == \E r \in 1 .. Len(a.races) : a.races[r].to = p
Free(w, a) == {p \in Dom(w) : ~JoinTo(a, p) /\ ~RaceTo(a, p)}

Apart(w, a) ==
    /\ \A j \in 1 .. Len(a.joins) : a.joins[j].to \in Dom(w) /\ ~RaceTo(a, a.joins[j].to)
    /\ \A r \in 1 .. Len(a.races) : a.races[r].to \in Dom(w)
    /\ \A i, j \in 1 .. Len(a.joins) : a.joins[i].to = a.joins[j].to => i = j
    /\ \A i, j \in 1 .. Len(a.races) : a.races[i].to = a.races[j].to => i = j

IsInput(x, p) == \E i \in 1 .. Len(x.inputs) : x.inputs[i] = p

EntryOK(w, a, p, e) ==
    /\ e.kind \in {"user", "follow"} => e.to \in Free(w, a)
    /\ e.kind = "all" =>
         /\ e = Internal("all", e.to) /\ e.to \in 1 .. Len(a.joins)
         /\ IsInput(a.joins[e.to], p)
    /\ e.kind = "first" =>
         e = Internal("first", e.to)
         /\ \E r \in 1 .. Len(a.races) : e.to = a.races[r].to /\ IsInput(a.races[r], p)
    /\ e.kind = "reject" =>
         \E r \in 1 .. Len(a.races) : e.to = a.races[r].to /\ p = a.joins[a.races[r].all].to

Targets(w, a) ==
    /\ a.own \subseteq Free(w, a)
    /\ a.handling # NoEntry => a.handling.to \in Free(w, a)
    /\ \A p \in Dom(w) : \A k \in 1 .. Len(Qu(w, p)) : EntryOK(w, a, p, Qu(w, p)[k])

\* The handlers of user code wait in the order of the next() calls, behind those called.
Numbered(w, a) ==
    \A p \in Dom(w) : \A k \in 1 .. Len(Qu(w, p)) : Qu(w, p)[k].kind = "user" =>
      /\ Qu(w, p)[k].nr <= a.calls
      /\ \A l \in 1 .. Len(Qu(w, p)) : l < k /\ Qu(w, p)[l].kind = "user" =>
            Qu(w, p)[l].nr < Qu(w, p)[k].nr
      /\ \A i \in 1 .. Len(a.heard) : a.heard[i].of = p => a.heard[i].nr < Qu(w, p)[k].nr

HeardOK(w, a) ==
    \A i \in 1 .. Len(a.heard) :
      /\ a.heard[i].of \in Dom(w) /\ a.heard[i].nr <= a.calls
      /\ a.heard[i].state = St(w, a.heard[i].of)
      /\ \A j \in 1 .. Len(a.heard) : i < j /\ a.heard[i].of = a.heard[j].of =>
            a.heard[i].nr < a.heard[j].nr

\* The entries of all() that wait, and what its closure has counted.
Slots(w, j) ==
    {s \in Dom(w) \X Nat : s[2] \in 1 .. Len(Qu(w, s[1])) /\ Qu(w, s[1])[s[2]] = Internal("all", j)}
Waits(w, p, e) == \E k \in 1 .. Len(Qu(w, p)) : Qu(w, p)[k] = e

JoinOK(w, j, join) ==
    /\ IsFiniteSet(Slots(w, j)) /\ join.remaining = Cardinality(Slots(w, j))
    /\ \A i \in 1 .. Len(join.inputs) :
         /\ join.inputs[i] \in Dom(w) /\ join.inputs[i] # join.to
         /\ \/ Waits(w, join.inputs[i], Internal("all", j))
            \/ /\ IsSettled(w, join.inputs[i])
               /\ St(w, join.inputs[i]) = "rejected" => join.failed
    /\ join.failed => \E i \in 1 .. Len(join.inputs) : St(w, join.inputs[i]) = "rejected"
    /\ IsSettled(w, join.to) =>
         join.remaining = 0 /\ (St(w, join.to) = "fulfilled" <=> ~join.failed)

\* The entries of race() come behind those of its all(), so that no input is to be told
\* when the rejection of its all() is.
RaceOK(w, a, race) ==
    /\ race.all \in 1 .. Len(a.joins)
    /\ \A i \in 1 .. Len(race.inputs) :
         /\ IsInput(a.joins[race.all], race.inputs[i])
         /\ \/ Waits(w, race.inputs[i], Internal("first", race.to))
            \/ /\ IsSettled(w, race.inputs[i])
               /\ St(w, race.inputs[i]) = "fulfilled" => IsSettled(w, race.to)
    /\ \A p \in Dom(w) : Waits(w, p, Internal("first", race.to)) =>
         a.draining = p \/ Waits(w, p, Internal("all", race.all))
    /\ IsSettled(w, race.to) =>
         IF St(w, race.to) = "fulfilled"
           THEN \E i \in 1 .. Len(race.inputs) : St(w, race.inputs[i]) = "fulfilled"
           ELSE \A i \in 1 .. Len(race.inputs) : St(w, race.inputs[i]) = "rejected"

PInv(w, a) ==
    /\ WorldType(w) /\ AroundType(w, a) /\ Apart(w, a) /\ Targets(w, a) /\ Numbered(w, a)
    /\ HeardOK(w, a)
    /\ \A j \in 1 .. Len(a.joins) : JoinOK(w, j, a.joins[j])
    /\ \A r \in 1 .. Len(a.races) : RaceOK(w, a, a.races[r])

PromisesInv == PInv(World, Around) /\ Dom(World) \subseteq 1 .. MaxPromises


-----------------------------------------------------------------------------
(* Promises: what the operations make of a world. *)

\* The states, values and queues of v are those of w, but for what is named.
LEMMA SettleProps ==
    ASSUME NEW w, WorldType(w), NEW p \in Dom(w), NEW s \in States, NEW x \in Int,
           NEW v, v = Settle(w, p, s, x)
    PROVE  /\ WorldType(v) /\ Dom(v) = Dom(w)
           /\ \A q \in Dom(w) : Qu(v, q) = Qu(w, q)
           /\ \A q \in Dom(w) : q # p \/ IsSettled(w, q) => St(v, q) = St(w, q)
           /\ \A q \in Dom(w) : IsSettled(w, q) => IsSettled(v, q)
           /\ x # Nil => IsSettled(v, p)
           /\ ~IsSettled(w, p) /\ IsSettled(v, p) => St(v, p) = s
<1>1. CASE ~MaySettle(w, p, x)
  <2>1. v = w
    BY <1>1 DEF Settle
  <2>2. x # Nil => IsSettled(v, p)
    BY <1>1, <2>1 DEF MaySettle, IsSettled, St
  <2> QED
    BY <2>1, <2>2
<1>2. CASE MaySettle(w, p, x)
  <2>1. /\ v = [promises |-> [w.promises EXCEPT ![p] = [@ EXCEPT !.state = s, !.value = x]],
                timeouts |-> Append(w.timeouts, p)]
        /\ St(w, p) = "pending" /\ x # Nil
    BY <1>2 DEF Settle, MaySettle, St
  <2>2. w.promises \in Seq(PromiseType) /\ w.timeouts \in Seq(Nat) /\ p \in Nat
    BY DEF WorldType, Dom
  <2>3. \A q \in Dom(w) : w.promises[q] \in PromiseType
    BY <2>2, ElementOfSeq DEF Dom
  <2>4. DOMAIN w.promises = Dom(w) /\ DOMAIN v.promises = Dom(w)
    <3>1. DOMAIN w.promises = Dom(w)
      BY <2>2 DEF Dom
    <3>2. v.promises = [w.promises EXCEPT ![p] = [@ EXCEPT !.state = s, !.value = x]]
      BY <2>1
    <3> QED
      BY <3>1, <3>2
  <2>5. /\ \A q \in Dom(w) : q # p => v.promises[q] = w.promises[q]
        /\ v.promises[p] = [w.promises[p] EXCEPT !.state = s, !.value = x]
    <3>1. v.promises = [w.promises EXCEPT ![p] = [@ EXCEPT !.state = s, !.value = x]]
      BY <2>1
    <3> QED
      BY <2>4, <3>1
  <2>6. /\ v.promises[p].state = s /\ v.promises[p].value = x
        /\ v.promises[p].queue = w.promises[p].queue /\ v.promises[p] \in PromiseType
    BY <2>3, <2>5 DEF PromiseType
  <2>7. v.promises \in Seq(PromiseType) /\ Dom(v) = Dom(w)
    <3>1. \A q \in Dom(w) : v.promises[q] \in PromiseType
      BY <2>3, <2>5, <2>6
    <3>2. v.promises = [q \in Dom(w) |-> v.promises[q]]
      <4>1. v.promises = [w.promises EXCEPT ![p] = [@ EXCEPT !.state = s, !.value = x]]
        BY <2>1
      <4> QED
        BY <2>4, <4>1
    <3>3. Len(w.promises) \in Nat
      BY <2>2
    <3>4. v.promises \in Seq(PromiseType)
      <4>1. v.promises \in [1 .. Len(w.promises) -> PromiseType]
        BY <3>1, <3>2 DEF Dom
      <4> QED
        BY <3>3, <4>1, SeqDef
    <3> QED
      BY <2>4, <3>4 DEF Dom
  <2>8. s # "pending"
    BY DEF States
  <2>9. v.timeouts = Append(w.timeouts, p) /\ v.timeouts \in Seq(Nat)
        /\ Len(v.timeouts) = Len(w.timeouts) + 1
        /\ \A i \in 1 .. Len(w.timeouts) : v.timeouts[i] = w.timeouts[i]
        /\ v.timeouts[Len(w.timeouts) + 1] = p
    BY <2>1, <2>2, AppendProperties
  <2>10. \A q \in Dom(w) : /\ Qu(v, q) = Qu(w, q)
                           /\ q # p => St(v, q) = St(w, q) /\ Val(v, q) = Val(w, q)
    BY <2>5, <2>6 DEF Qu, St, Val
  <2>11. St(v, p) = s /\ Val(v, p) = x /\ IsSettled(v, p) /\ ~IsSettled(w, p)
    BY <2>1, <2>6, <2>8 DEF St, Val, IsSettled
  <2>12. \A q \in Dom(w) : IsSettled(v, q) <=> Val(v, q) # Nil
    BY <2>1, <2>10, <2>11 DEF WorldType, IsSettled
  <2>13. \A q \in Dom(w) : IsSettled(w, q) => IsSettled(v, q)
    BY <2>10, <2>11 DEF IsSettled
  <2>14. \A i \in 1 .. Len(v.timeouts) : v.timeouts[i] \in Dom(w) /\ IsSettled(v, v.timeouts[i])
    <3> SUFFICES ASSUME NEW i \in 1 .. Len(v.timeouts)
                 PROVE  v.timeouts[i] \in Dom(w) /\ IsSettled(v, v.timeouts[i])
      OBVIOUS
    <3>1. Len(w.timeouts) \in Nat
      BY <2>2
    <3>2. CASE i = Len(w.timeouts) + 1
      BY <2>9, <2>11, <3>2
    <3>3. CASE i \in 1 .. Len(w.timeouts)
      BY <2>9, <2>13, <3>3 DEF WorldType
    <3> QED
      BY <2>9, <3>1, <3>2, <3>3
  <2>15. WorldType(v)
    <3>1. v \in [promises : Seq(PromiseType), timeouts : Seq(Nat)]
      BY <2>1, <2>7, <2>9
    <3> QED
      BY <2>7, <2>12, <2>14, <3>1 DEF WorldType
  <2> QED
    BY <2>7, <2>10, <2>11, <2>13, <2>15 DEF IsSettled
<1> QED
  BY <1>1, <1>2

\* The queue of p is one entry longer.
Attached(w, v, p, e) ==
    /\ WorldType(v) /\ Dom(v) = Dom(w)
    /\ \A q \in Dom(w) : St(v, q) = St(w, q)
    /\ \A q \in Dom(w) : q # p => Qu(v, q) = Qu(w, q)
    /\ Qu(v, p) = Append(Qu(w, p), e) /\ Qu(w, p) \in Seq(Entries)

LEMMA RegisterProps ==
    ASSUME NEW w, WorldType(w), NEW p \in Dom(w), NEW e \in Entries, NEW v, v = Register(w, p, e)
    PROVE  Attached(w, v, p, e)
<1>1. /\ v.promises = [w.promises EXCEPT ![p].queue = Append(@, e)]
      /\ v.timeouts = IF IsSettled(w, p) THEN Append(w.timeouts, p) ELSE w.timeouts
      /\ v = [promises |-> v.promises, timeouts |-> v.timeouts]
  BY DEF Register, RunNow, IsSettled, St
<1>2. w.promises \in Seq(PromiseType) /\ w.timeouts \in Seq(Nat) /\ p \in Nat
  BY DEF WorldType, Dom
<1>3. \A q \in Dom(w) : w.promises[q] \in PromiseType
  BY <1>2, ElementOfSeq DEF Dom
<1>4. DOMAIN w.promises = Dom(w) /\ DOMAIN v.promises = Dom(w)
  BY <1>1, <1>2 DEF Dom
<1>5. /\ \A q \in Dom(w) : q # p => v.promises[q] = w.promises[q]
      /\ v.promises[p] = [w.promises[p] EXCEPT !.queue = Append(@, e)]
  BY <1>1, <1>4
<1>6. w.promises[p].queue \in Seq(Entries) /\ Append(w.promises[p].queue, e) \in Seq(Entries)
  <2>1. w.promises[p].queue \in Seq(Entries)
    BY <1>3 DEF PromiseType
  <2> QED
    BY <2>1, AppendProperties
<1>7. /\ v.promises[p].state = w.promises[p].state /\ v.promises[p].value = w.promises[p].value
      /\ v.promises[p].queue = Append(w.promises[p].queue, e)
      /\ v.promises[p] \in PromiseType
  BY <1>3, <1>5, <1>6 DEF PromiseType
<1>8. v.promises \in Seq(PromiseType) /\ Dom(v) = Dom(w)
  <2>1. \A q \in Dom(w) : v.promises[q] \in PromiseType
    BY <1>3, <1>5, <1>7
  <2>2. v.promises = [q \in Dom(w) |-> v.promises[q]]
    BY <1>1, <1>4
  <2>3. Len(w.promises) \in Nat
    BY <1>2
  <2>4. v.promises \in Seq(PromiseType)
    <3>1. v.promises \in [1 .. Len(w.promises) -> PromiseType]
      BY <2>1, <2>2 DEF Dom
    <3> QED
      BY <2>3, <3>1, SeqDef
  <2> QED
    BY <1>4, <2>4 DEF Dom
<1>9. \A q \in Dom(w) : St(v, q) = St(w, q) /\ Val(v, q) = Val(w, q)
  BY <1>5, <1>7 DEF St, Val
<1>10. /\ \A q \in Dom(w) : q # p => Qu(v, q) = Qu(w, q)
       /\ Qu(v, p) = Append(Qu(w, p), e) /\ Qu(w, p) \in Seq(Entries)
  BY <1>5, <1>6, <1>7 DEF Qu
<1>11. v.timeouts \in Seq(Nat) /\ \A i \in 1 .. Len(v.timeouts) :
          v.timeouts[i] \in Dom(w) /\ IsSettled(w, v.timeouts[i])
  <2>1. \A i \in 1 .. Len(w.timeouts) : w.timeouts[i] \in Dom(w) /\ IsSettled(w, w.timeouts[i])
    BY DEF WorldType
  <2>2. CASE IsSettled(w, p)
    <3>1. v.timeouts = Append(w.timeouts, p) /\ v.timeouts \in Seq(Nat)
          /\ Len(v.timeouts) = Len(w.timeouts) + 1
          /\ \A i \in 1 .. Len(w.timeouts) : v.timeouts[i] = w.timeouts[i]
          /\ v.timeouts[Len(w.timeouts) + 1] = p /\ Len(w.timeouts) \in Nat
      BY <1>1, <1>2, <2>2, AppendProperties
    <3> SUFFICES ASSUME NEW i \in 1 .. Len(v.timeouts)
                 PROVE  v.timeouts[i] \in Dom(w) /\ IsSettled(w, v.timeouts[i])
      BY <3>1
    <3>2. CASE i = Len(w.timeouts) + 1
      BY <2>2, <3>1, <3>2
    <3>3. CASE i \in 1 .. Len(w.timeouts)
      BY <2>1, <3>1, <3>3
    <3> QED
      BY <3>1, <3>2, <3>3
  <2>3. CASE ~IsSettled(w, p)
    BY <1>1, <1>2, <2>1, <2>3
  <2> QED
    BY <2>2, <2>3
<1>12. WorldType(v)
  <2>1. v \in [promises : Seq(PromiseType), timeouts : Seq(Nat)]
    BY <1>1, <1>8, <1>11
  <2>2. \A q \in Dom(w) : IsSettled(v, q) <=> Val(v, q) # Nil
    BY <1>9 DEF WorldType, IsSettled
  <2>3. \A i \in 1 .. Len(v.timeouts) : v.timeouts[i] \in Dom(w) /\ IsSettled(v, v.timeouts[i])
    BY <1>9, <1>11 DEF IsSettled
  <2> QED
    BY <1>8, <2>1, <2>2, <2>3 DEF WorldType
<1> QED
  BY <1>8, <1>9, <1>10, <1>12 DEF Attached

LEMMA NewProps ==
    ASSUME NEW w, WorldType(w), NEW v, v = New(w), NEW n, n = Newest(v)
    PROVE  /\ WorldType(v) /\ n \notin Dom(w) /\ n \in Dom(v) /\ Dom(v) = Dom(w) \cup {n}
           /\ \A q \in Dom(w) : St(v, q) = St(w, q) /\ Qu(v, q) = Qu(w, q)
           /\ Qu(v, n) = <<>> /\ ~IsSettled(v, n) /\ n \in Nat /\ n > 0
<1>1. v = [promises |-> Append(w.promises, NewPromise), timeouts |-> w.timeouts]
  BY DEF New, WorldType
<1>2. w.promises \in Seq(PromiseType) /\ w.timeouts \in Seq(Nat) /\ Len(w.promises) \in Nat
  BY DEF WorldType
<1>3. NewPromise \in PromiseType
  BY EmptySeq DEF NewPromise, PromiseType, Nil
<1>4. /\ v.promises \in Seq(PromiseType) /\ Len(v.promises) = Len(w.promises) + 1
      /\ \A q \in 1 .. Len(w.promises) : v.promises[q] = w.promises[q]
      /\ v.promises[Len(w.promises) + 1] = NewPromise
  BY <1>1, <1>2, <1>3, AppendProperties
<1>5. n = Len(w.promises) + 1
  BY <1>4 DEF Newest
<1>6. n \notin Dom(w) /\ n \in Dom(v) /\ Dom(v) = Dom(w) \cup {n} /\ n \in Nat /\ n > 0
  BY <1>2, <1>4, <1>5 DEF Dom
<1>7. \A q \in Dom(w) : St(v, q) = St(w, q) /\ Qu(v, q) = Qu(w, q) /\ Val(v, q) = Val(w, q)
  BY <1>4 DEF Dom, St, Qu, Val
<1>8. Qu(v, n) = <<>> /\ ~IsSettled(v, n) /\ Val(v, n) = Nil
  BY <1>4, <1>5 DEF Qu, IsSettled, St, Val, NewPromise
<1>9. WorldType(v)
  <2>1. v \in [promises : Seq(PromiseType), timeouts : Seq(Nat)]
    BY <1>1, <1>2, <1>4
  <2>2. \A q \in Dom(v) : IsSettled(v, q) <=> Val(v, q) # Nil
    BY <1>6, <1>7, <1>8 DEF WorldType, IsSettled
  <2>3. \A i \in 1 .. Len(v.timeouts) : v.timeouts[i] \in Dom(v) /\ IsSettled(v, v.timeouts[i])
    <3>1. v.timeouts = w.timeouts
      BY <1>1
    <3>2. \A i \in 1 .. Len(w.timeouts) : w.timeouts[i] \in Dom(w) /\ IsSettled(w, w.timeouts[i])
      BY DEF WorldType
    <3>3. \A q \in Dom(w) : IsSettled(w, q) => IsSettled(v, q)
      BY <1>7 DEF IsSettled
    <3> QED
      BY <1>6, <3>1, <3>2, <3>3
  <2> QED
    BY <2>1, <2>2, <2>3 DEF WorldType
<1> QED
  BY <1>6, <1>7, <1>8, <1>9

\* The first entry of the queue of d is taken.
TakenFrom(w, d) == [w EXCEPT !.promises[d].queue = Tail(@)]

LEMMA TakenProps ==
    ASSUME NEW w, WorldType(w), NEW d \in Dom(w), Qu(w, d) # <<>>, NEW v, v = TakenFrom(w, d)
    PROVE  /\ WorldType(v) /\ Dom(v) = Dom(w)
           /\ \A q \in Dom(w) : St(v, q) = St(w, q)
           /\ \A q \in Dom(w) : q # d => Qu(v, q) = Qu(w, q)
           /\ Qu(w, d) \in Seq(Entries) /\ Qu(v, d) \in Seq(Entries)
           /\ Len(Qu(w, d)) = Len(Qu(v, d)) + 1 /\ Head(Qu(w, d)) = Qu(w, d)[1]
           /\ \A k \in 1 .. Len(Qu(v, d)) : Qu(v, d)[k] = Qu(w, d)[k + 1]
<1>1. v = [promises |-> [w.promises EXCEPT ![d].queue = Tail(@)], timeouts |-> w.timeouts]
  BY DEF TakenFrom, WorldType
<1>2. w.promises \in Seq(PromiseType) /\ w.timeouts \in Seq(Nat) /\ d \in Nat
  BY DEF WorldType, Dom
<1>3. \A q \in Dom(w) : w.promises[q] \in PromiseType
  BY <1>2, ElementOfSeq DEF Dom
<1>4. DOMAIN w.promises = Dom(w) /\ DOMAIN v.promises = Dom(w)
  BY <1>1, <1>2 DEF Dom
<1>5. /\ \A q \in Dom(w) : q # d => v.promises[q] = w.promises[q]
      /\ v.promises[d] = [w.promises[d] EXCEPT !.queue = Tail(@)]
  <2>1. v.promises = [w.promises EXCEPT ![d].queue = Tail(@)]
    BY <1>1
  <2> QED
    BY <1>4, <2>1
<1>6. /\ Qu(w, d) \in Seq(Entries) /\ Tail(Qu(w, d)) \in Seq(Entries)
      /\ Len(Qu(w, d)) = Len(Tail(Qu(w, d))) + 1 /\ Head(Qu(w, d)) = Qu(w, d)[1]
      /\ \A k \in 1 .. Len(Tail(Qu(w, d))) : Tail(Qu(w, d))[k] = Qu(w, d)[k + 1]
  <2>1. Qu(w, d) \in Seq(Entries)
    BY <1>3 DEF PromiseType, Qu
  <2>2. \A s \in Seq(Entries) : s # <<>> =>
          /\ Tail(s) \in Seq(Entries) /\ Len(s) = Len(Tail(s)) + 1 /\ Head(s) = s[1]
          /\ \A k \in 1 .. Len(Tail(s)) : Tail(s)[k] = s[k + 1]
    BY HeadTailProperties, EmptySeq
  <2> QED
    BY <2>1, <2>2
<1>7. /\ v.promises[d].state = w.promises[d].state /\ v.promises[d].value = w.promises[d].value
      /\ v.promises[d].queue = Tail(w.promises[d].queue)
      /\ v.promises[d] \in PromiseType
  BY <1>3, <1>5, <1>6 DEF PromiseType, Qu
<1>8. v.promises \in Seq(PromiseType) /\ Dom(v) = Dom(w)
  <2>1. \A q \in Dom(w) : v.promises[q] \in PromiseType
    BY <1>3, <1>5, <1>7
  <2>2. v.promises = [q \in Dom(w) |-> v.promises[q]]
    <3>1. v.promises = [w.promises EXCEPT ![d].queue = Tail(@)]
      BY <1>1
    <3> QED
      BY <1>4, <3>1
  <2>3. Len(w.promises) \in Nat
    BY <1>2
  <2>4. v.promises \in Seq(PromiseType)
    <3>1. v.promises \in [1 .. Len(w.promises) -> PromiseType]
      BY <2>1, <2>2 DEF Dom
    <3> QED
      BY <2>3, <3>1, SeqDef
  <2> QED
    BY <1>4, <2>4 DEF Dom
<1>9. \A q \in Dom(w) : St(v, q) = St(w, q) /\ Val(v, q) = Val(w, q)
  BY <1>5, <1>7 DEF St, Val
<1>10. /\ \A q \in Dom(w) : q # d => Qu(v, q) = Qu(w, q)
       /\ Qu(v, d) = Tail(Qu(w, d))
  BY <1>5, <1>7 DEF Qu
<1>11. WorldType(v)
  <2>1. v \in [promises : Seq(PromiseType), timeouts : Seq(Nat)]
    BY <1>1, <1>2, <1>8
  <2>2. \A q \in Dom(w) : IsSettled(v, q) <=> Val(v, q) # Nil
    BY <1>9 DEF WorldType, IsSettled
  <2>3. \A i \in 1 .. Len(v.timeouts) : v.timeouts[i] \in Dom(w) /\ IsSettled(v, v.timeouts[i])
    <3>1. v.timeouts = w.timeouts
      BY <1>1
    <3>2. \A i \in 1 .. Len(w.timeouts) : w.timeouts[i] \in Dom(w) /\ IsSettled(w, w.timeouts[i])
      BY DEF WorldType
    <3>3. \A q \in Dom(w) : IsSettled(w, q) => IsSettled(v, q)
      BY <1>9 DEF IsSettled
    <3> QED
      BY <3>1, <3>2, <3>3
  <2> QED
    BY <1>8, <2>1, <2>2, <2>3 DEF WorldType
<1> QED
  BY <1>6, <1>8, <1>9, <1>10, <1>11

-----------------------------------------------------------------------------
(* Promises: what grows keeps all() and race(). *)

LEMMA InternalIs ==
    \A kind \in {"follow", "all", "reject", "first"}, n \in Nat :
       Internal(kind, n) \in Entries /\ Internal(kind, n).kind = kind /\ Internal(kind, n).to = n
BY DEF Internal, Entry, Entries

\* Settled promises keep their state, and entries are only added.
Grows(w, v) ==
    /\ Dom(w) \subseteq Dom(v)
    /\ \A q \in Dom(w) : IsSettled(w, q) => St(v, q) = St(w, q)
    /\ \A q \in Dom(w) : \A e \in Entries : Waits(w, q, e) => Waits(v, q, e)

LEMMA JoinGrows ==
    ASSUME NEW w, NEW v, Grows(w, v), NEW j \in Nat, NEW join, JoinOK(w, j, join),
           Slots(v, j) = Slots(w, j), join.to \in Dom(w),
           IsSettled(v, join.to) =>
             \/ IsSettled(w, join.to)
             \/ join.remaining = 0 /\ (St(v, join.to) = "fulfilled" <=> ~join.failed)
    PROVE  JoinOK(v, j, join)
<1>1. Internal("all", j) \in Entries
  BY InternalIs
<1>2. \A i \in 1 .. Len(join.inputs) :
         /\ join.inputs[i] \in Dom(v) /\ join.inputs[i] # join.to
         /\ \/ Waits(v, join.inputs[i], Internal("all", j))
            \/ /\ IsSettled(v, join.inputs[i])
               /\ St(v, join.inputs[i]) = "rejected" => join.failed
  BY <1>1 DEF JoinOK, Grows, IsSettled
<1>3. join.failed => \E i \in 1 .. Len(join.inputs) : St(v, join.inputs[i]) = "rejected"
  BY DEF JoinOK, Grows, IsSettled
<1>4. IsSettled(v, join.to) =>
        join.remaining = 0 /\ (St(v, join.to) = "fulfilled" <=> ~join.failed)
  <2>1. CASE IsSettled(w, join.to)
    BY <2>1 DEF JoinOK, Grows
  <2>2. CASE ~IsSettled(w, join.to)
    BY <2>2
  <2> QED
    BY <2>1, <2>2
<1>5. IsFiniteSet(Slots(v, j)) /\ join.remaining = Cardinality(Slots(v, j))
  BY DEF JoinOK
<1> QED
  BY <1>2, <1>3, <1>4, <1>5 DEF JoinOK

LEMMA RaceGrows ==
    ASSUME NEW w, NEW v, Grows(w, v), NEW a, NEW race, RaceOK(w, a, race),
           race.to \in Dom(w), race.to \in Nat, race.all \in Nat,
           \A i \in 1 .. Len(race.inputs) : race.inputs[i] \in Dom(w),
           \A p \in Dom(v) : Waits(v, p, Internal("first", race.to)) =>
              \/ p \in Dom(w) /\ Waits(w, p, Internal("first", race.to))
              \/ a.draining = p \/ Waits(v, p, Internal("all", race.all)),
           IsSettled(v, race.to) =>
             \/ IsSettled(w, race.to)
             \/ IF St(v, race.to) = "fulfilled"
                  THEN \E i \in 1 .. Len(race.inputs) : St(w, race.inputs[i]) = "fulfilled"
                  ELSE \A i \in 1 .. Len(race.inputs) : St(w, race.inputs[i]) = "rejected"
    PROVE  RaceOK(v, a, race)
<1>1. Internal("all", race.all) \in Entries /\ Internal("first", race.to) \in Entries
  BY InternalIs
<1>2. \A i \in 1 .. Len(race.inputs) :
         /\ IsInput(a.joins[race.all], race.inputs[i])
         /\ \/ Waits(v, race.inputs[i], Internal("first", race.to))
            \/ /\ IsSettled(v, race.inputs[i])
               /\ St(v, race.inputs[i]) = "fulfilled" => IsSettled(v, race.to)
  BY <1>1 DEF RaceOK, Grows, IsSettled
<1>3. \A p \in Dom(v) : Waits(v, p, Internal("first", race.to)) =>
         a.draining = p \/ Waits(v, p, Internal("all", race.all))
  BY <1>1 DEF RaceOK, Grows
<1>4. IsSettled(v, race.to) =>
         IF St(v, race.to) = "fulfilled"
           THEN \E i \in 1 .. Len(race.inputs) : St(v, race.inputs[i]) = "fulfilled"
           ELSE \A i \in 1 .. Len(race.inputs) : St(v, race.inputs[i]) = "rejected"
  <2>1. \A i \in 1 .. Len(race.inputs) : IsSettled(w, race.inputs[i]) =>
           St(v, race.inputs[i]) = St(w, race.inputs[i])
    BY DEF Grows
  <2>2. \A i \in 1 .. Len(race.inputs) :
           /\ St(w, race.inputs[i]) = "fulfilled" => St(v, race.inputs[i]) = "fulfilled"
           /\ St(w, race.inputs[i]) = "rejected" => St(v, race.inputs[i]) = "rejected"
    BY <2>1 DEF IsSettled
  <2>3. CASE IsSettled(w, race.to)
    <3>1. St(v, race.to) = St(w, race.to)
      BY <2>3 DEF Grows
    <3> QED
      BY <2>2, <2>3, <3>1 DEF RaceOK
  <2>4. CASE ~IsSettled(w, race.to)
    BY <2>2, <2>4
  <2> QED
    BY <2>3, <2>4
<1>5. race.all \in 1 .. Len(a.joins)
  BY DEF RaceOK
<1> QED
  BY <1>2, <1>3, <1>4, <1>5 DEF RaceOK

\* What the invariant says of the parts of all() and race().
LEMMA PartsOfJoins ==
    ASSUME NEW w, NEW a, PInv(w, a)
    PROVE  /\ Len(a.joins) \in Nat /\ Len(a.races) \in Nat
           /\ \A j \in 1 .. Len(a.joins) :
                /\ a.joins[j] \in JoinType /\ a.joins[j].to \in Dom(w) /\ j \in Nat
                /\ a.joins[j].to \in Nat /\ JoinOK(w, j, a.joins[j])
           /\ \A r \in 1 .. Len(a.races) :
                /\ a.races[r] \in RaceType /\ a.races[r].to \in Dom(w) /\ r \in Nat
                /\ a.races[r].to \in Nat /\ a.races[r].all \in Nat
                /\ a.races[r].all \in 1 .. Len(a.joins) /\ RaceOK(w, a, a.races[r])
                /\ \A i \in 1 .. Len(a.races[r].inputs) : a.races[r].inputs[i] \in Dom(w)
<1>1. a.joins \in Seq(JoinType) /\ a.races \in Seq(RaceType)
  BY DEF PInv, AroundType
<1>2. \A j \in 1 .. Len(a.joins) : a.joins[j] \in JoinType
  BY <1>1, ElementOfSeq
<1>3. \A r \in 1 .. Len(a.races) : a.races[r] \in RaceType
  BY <1>1, ElementOfSeq
<1>4. \A j \in 1 .. Len(a.joins) : a.joins[j].to \in Dom(w) /\ JoinOK(w, j, a.joins[j])
  BY DEF PInv, Apart
<1>5. \A r \in 1 .. Len(a.races) : a.races[r].to \in Dom(w) /\ RaceOK(w, a, a.races[r])
  BY DEF PInv, Apart
<1>6. \A r \in 1 .. Len(a.races) : \A i \in 1 .. Len(a.races[r].inputs) :
         a.races[r].inputs[i] \in Dom(w)
  <2> SUFFICES ASSUME NEW r \in 1 .. Len(a.races), NEW i \in 1 .. Len(a.races[r].inputs)
               PROVE  a.races[r].inputs[i] \in Dom(w)
    OBVIOUS
  <2>1. /\ a.races[r].all \in 1 .. Len(a.joins)
        /\ IsInput(a.joins[a.races[r].all], a.races[r].inputs[i])
    BY <1>5 DEF RaceOK
  <2>2. PICK k \in 1 .. Len(a.joins[a.races[r].all].inputs) :
           a.joins[a.races[r].all].inputs[k] = a.races[r].inputs[i]
    BY <2>1 DEF IsInput
  <2> QED
    BY <1>4, <2>1, <2>2 DEF JoinOK
<1>7. \A r \in 1 .. Len(a.races) : a.races[r].all \in 1 .. Len(a.joins)
  BY <1>5 DEF RaceOK
<1>8. /\ \A j \in 1 .. Len(a.joins) : a.joins[j].to \in Nat
      /\ \A r \in 1 .. Len(a.races) : a.races[r].to \in Nat /\ a.races[r].all \in Nat
  BY <1>2, <1>3 DEF JoinType, RaceType
<1> QED
  BY <1>1, <1>2, <1>3, <1>4, <1>5, <1>6, <1>7, <1>8

-----------------------------------------------------------------------------
(* Promises: steps that keep the invariant. *)

\* Worlds with the same promises and queues have the same entries that wait.
LEMMA SameQueues ==
    ASSUME NEW w, NEW v, Dom(v) = Dom(w), \A q \in Dom(w) : Qu(v, q) = Qu(w, q)
    PROVE  /\ \A j : Slots(v, j) = Slots(w, j)
           /\ \A q \in Dom(w) : \A e : Waits(v, q, e) <=> Waits(w, q, e)
BY DEF Slots, Waits

\* What settles a promise of all() or race() has to know its inputs.
MaySettleAs(w, a, p, s) ==
    /\ \A j \in 1 .. Len(a.joins) : p = a.joins[j].to =>
          a.joins[j].remaining = 0 /\ (s = "fulfilled" <=> ~a.joins[j].failed)
    /\ \A r \in 1 .. Len(a.races) : p = a.races[r].to =>
          IF s = "fulfilled"
            THEN \E i \in 1 .. Len(a.races[r].inputs) :
                    St(w, a.races[r].inputs[i]) = "fulfilled"
            ELSE \A i \in 1 .. Len(a.races[r].inputs) :
                    St(w, a.races[r].inputs[i]) = "rejected"

LEMMA FreeMaySettle ==
    ASSUME NEW w, NEW a, NEW p \in Free(w, a), NEW s
    PROVE  p \in Dom(w) /\ MaySettleAs(w, a, p, s)
BY DEF Free, JoinTo, RaceTo, MaySettleAs

LEMMA SettleStep ==
    ASSUME NEW w, NEW a, PInv(w, a), NEW p \in Dom(w), NEW s \in States, NEW x \in Int,
           MaySettleAs(w, a, p, s), NEW v, v = Settle(w, p, s, x)
    PROVE  PInv(v, a)
<1>1. /\ WorldType(v) /\ Dom(v) = Dom(w)
      /\ \A q \in Dom(w) : Qu(v, q) = Qu(w, q)
      /\ \A q \in Dom(w) : q # p \/ IsSettled(w, q) => St(v, q) = St(w, q)
      /\ \A q \in Dom(w) : IsSettled(w, q) => IsSettled(v, q)
      /\ ~IsSettled(w, p) /\ IsSettled(v, p) => St(v, p) = s
  BY SettleProps DEF PInv
<1>2. /\ \A j : Slots(v, j) = Slots(w, j)
      /\ \A q \in Dom(w) : \A e : Waits(v, q, e) <=> Waits(w, q, e)
  BY <1>1, SameQueues
<1>3. Grows(w, v)
  BY <1>1, <1>2 DEF Grows
<1>4. AroundType(v, a)
  BY <1>1 DEF PInv, AroundType
<1>5. Apart(v, a) /\ Free(v, a) = Free(w, a)
  BY <1>1 DEF PInv, Apart, Free
<1>6. Targets(v, a)
  BY <1>1, <1>5 DEF PInv, Targets, EntryOK
<1>7. Numbered(v, a)
  BY <1>1 DEF PInv, Numbered
<1>8. HeardOK(v, a)
  <2>1. \A i \in 1 .. Len(a.heard) : a.heard[i] \in [of : Nat, nr : Nat, state : States]
    BY ElementOfSeq DEF PInv, AroundType
  <2>2. \A i \in 1 .. Len(a.heard) : a.heard[i].state \in States
    BY <2>1
  <2>3. \A i \in 1 .. Len(a.heard) :
           /\ a.heard[i].of \in Dom(w) /\ a.heard[i].nr <= a.calls
           /\ a.heard[i].state = St(w, a.heard[i].of)
           /\ \A j \in 1 .. Len(a.heard) : i < j /\ a.heard[i].of = a.heard[j].of =>
                 a.heard[i].nr < a.heard[j].nr
    BY DEF PInv, HeardOK
  <2>4. \A i \in 1 .. Len(a.heard) : IsSettled(w, a.heard[i].of)
    BY <2>2, <2>3 DEF IsSettled, States
  <2>5. \A i \in 1 .. Len(a.heard) : a.heard[i].state = St(v, a.heard[i].of)
    BY <1>1, <2>3, <2>4
  <2> QED
    BY <1>1, <2>3, <2>5 DEF HeardOK
<1>9. ASSUME NEW j \in 1 .. Len(a.joins) PROVE JoinOK(v, j, a.joins[j])
  <2>1. /\ a.joins[j].to \in Dom(w) /\ j \in Nat /\ JoinOK(w, j, a.joins[j])
    BY PartsOfJoins
  <2>2. IsSettled(v, a.joins[j].to) =>
             \/ IsSettled(w, a.joins[j].to)
             \/ a.joins[j].remaining = 0 /\ (St(v, a.joins[j].to) = "fulfilled" <=> ~a.joins[j].failed)
    BY <1>1, <2>1 DEF MaySettleAs, IsSettled
  <2> QED
    BY <1>2, <1>3, <2>1, <2>2, JoinGrows
<1>10. ASSUME NEW r \in 1 .. Len(a.races) PROVE RaceOK(v, a, a.races[r])
  <2> DEFINE race == a.races[r]
  <2>1. /\ race.to \in Dom(w) /\ race.to \in Nat /\ race.all \in Nat /\ RaceOK(w, a, race)
        /\ \A i \in 1 .. Len(race.inputs) : race.inputs[i] \in Dom(w)
    BY PartsOfJoins
  <2>2. IsSettled(v, race.to) =>
             \/ IsSettled(w, race.to)
             \/ IF St(v, race.to) = "fulfilled"
                  THEN \E i \in 1 .. Len(race.inputs) : St(w, race.inputs[i]) = "fulfilled"
                  ELSE \A i \in 1 .. Len(race.inputs) : St(w, race.inputs[i]) = "rejected"
    BY <1>1, <2>1 DEF MaySettleAs, IsSettled
  <2>3. \A q \in Dom(v) : Waits(v, q, Internal("first", race.to)) =>
           q \in Dom(w) /\ Waits(w, q, Internal("first", race.to))
    BY <1>1, <1>2
  <2> HIDE DEF race
  <2> QED
    BY <1>3, <2>1, <2>2, <2>3, RaceGrows DEF race
<1> QED
  BY <1>1, <1>4, <1>5, <1>6, <1>7, <1>8, <1>9, <1>10 DEF PInv

\* An entry is added to the queue of p.
MayRegister(w, a, p, e) ==
    /\ EntryOK(w, a, p, e) /\ e.kind # "all"
    /\ e.kind = "user" =>
         /\ e.nr <= a.calls
         /\ \A k \in 1 .. Len(Qu(w, p)) : Qu(w, p)[k].kind = "user" => Qu(w, p)[k].nr < e.nr
         /\ \A i \in 1 .. Len(a.heard) : a.heard[i].of = p => a.heard[i].nr < e.nr
    /\ e.kind = "first" =>
         \A r \in 1 .. Len(a.races) : e.to = a.races[r].to =>
            a.draining = p \/ Waits(w, p, Internal("all", a.races[r].all))

LEMMA Appended ==
    ASSUME NEW q \in Seq(Entries), NEW e \in Entries
    PROVE  /\ Len(Append(q, e)) = Len(q) + 1 /\ Len(q) \in Nat
           /\ Append(q, e)[Len(q) + 1] = e
           /\ \A k \in 1 .. Len(q) : Append(q, e)[k] = q[k] /\ k \in 1 .. Len(q) + 1
           /\ \A k \in 1 .. Len(q) + 1 : k \in 1 .. Len(q) \/ k = Len(q) + 1
<1>1. Len(Append(q, e)) = Len(q) + 1 /\ Append(q, e)[Len(q) + 1] = e /\ Len(q) \in Nat
      /\ \A k \in 1 .. Len(q) : Append(q, e)[k] = q[k]
  BY AppendProperties
<1> QED
  BY <1>1

\* What an added entry means for those that wait.
Adds(w, v, p, e) ==
    /\ Grows(w, v)
    /\ \A q \in Dom(w) : \A f : Waits(v, q, f) <=> Waits(w, q, f) \/ (q = p /\ f = e)
    /\ \A j \in Nat : e = Internal("all", j) =>
          /\ Slots(v, j) = Slots(w, j) \cup {<<p, Len(Qu(w, p)) + 1>>}
          /\ <<p, Len(Qu(w, p)) + 1>> \notin Slots(w, j)
    /\ \A j \in Nat : e # Internal("all", j) => Slots(v, j) = Slots(w, j)

LEMMA RegisterAdds ==
    ASSUME NEW w, WorldType(w), NEW p \in Dom(w), NEW e \in Entries, NEW v, v = Register(w, p, e)
    PROVE  Adds(w, v, p, e)
<1>1. /\ WorldType(v) /\ Dom(v) = Dom(w)
      /\ \A q \in Dom(w) : St(v, q) = St(w, q)
      /\ \A q \in Dom(w) : q # p => Qu(v, q) = Qu(w, q)
      /\ Qu(v, p) = Append(Qu(w, p), e) /\ Qu(w, p) \in Seq(Entries)
  <2>1. Attached(w, v, p, e)
    BY RegisterProps
  <2> QED
    BY <2>1 DEF Attached
<1> DEFINE l == Len(Qu(w, p))
<1>2. /\ Len(Qu(v, p)) = l + 1 /\ l \in Nat /\ Qu(v, p)[l + 1] = e
      /\ \A k \in 1 .. l : Qu(v, p)[k] = Qu(w, p)[k] /\ k \in 1 .. l + 1
      /\ \A k \in 1 .. l + 1 : k \in 1 .. l \/ k = l + 1
  BY <1>1, Appended
<1> HIDE DEF l
<1>3. \A q \in Dom(w) : \A f : Waits(v, q, f) <=> Waits(w, q, f) \/ (q = p /\ f = e)
  <2> SUFFICES ASSUME NEW q \in Dom(w), NEW f
               PROVE  Waits(v, q, f) <=> Waits(w, q, f) \/ (q = p /\ f = e)
    OBVIOUS
  <2>1. CASE q # p
    BY <1>1, <2>1 DEF Waits
  <2>2. CASE q = p
    <3>1. Waits(v, p, f) <=> \E k \in 1 .. l + 1 : Qu(v, p)[k] = f
      BY <1>2 DEF Waits
    <3>2. Waits(w, p, f) <=> \E k \in 1 .. l : Qu(w, p)[k] = f
      BY DEF Waits, l
    <3>3. l + 1 \in 1 .. l + 1
      BY <1>2
    <3> QED
      BY <1>2, <2>2, <3>1, <3>2, <3>3
  <2> QED
    BY <2>1, <2>2
<1>4. Grows(w, v)
  BY <1>1, <1>3 DEF Grows
<1>5. ASSUME NEW j \in Nat
      PROVE  /\ e = Internal("all", j) =>
                    /\ Slots(v, j) = Slots(w, j) \cup {<<p, l + 1>>}
                    /\ <<p, l + 1>> \notin Slots(w, j)
             /\ e # Internal("all", j) => Slots(v, j) = Slots(w, j)
  <2> DEFINE all == Internal("all", j)
             In(u, s) == s[2] \in 1 .. Len(Qu(u, s[1])) /\ Qu(u, s[1])[s[2]] = all
  <2>1. /\ \A s : s \in Slots(w, j) <=> s \in Dom(w) \X Nat /\ In(w, s)
        /\ \A s : s \in Slots(v, j) <=> s \in Dom(w) \X Nat /\ In(v, s)
    BY <1>1 DEF Slots
  <2> DEFINE new == <<p, l + 1>>
  <2>2. new \in Dom(w) \X Nat /\ new[1] = p /\ new[2] = l + 1
    BY <1>2
  <2>3. \A s \in Dom(w) \X Nat : s[1] = p /\ s[2] = l + 1 => s = new
    OBVIOUS
  <2> HIDE DEF new
  <2>4. ASSUME NEW s \in Dom(w) \X Nat PROVE In(v, s) <=> In(w, s) \/ (s = new /\ e = all)
    <3>1. s[1] \in Dom(w) /\ s[2] \in Nat
      OBVIOUS
    <3>2. CASE s[1] # p
      BY <1>1, <2>2, <3>1, <3>2
    <3>3. CASE s[1] = p
      <4>1. In(v, s) <=> s[2] \in 1 .. l + 1 /\ Qu(v, p)[s[2]] = all
        BY <1>2, <3>3
      <4>2. In(w, s) <=> s[2] \in 1 .. l /\ Qu(w, p)[s[2]] = all
        BY <3>3 DEF l
      <4> HIDE DEF In
      <4>3. l + 1 \in 1 .. l + 1 /\ l + 1 \notin 1 .. l
        BY <1>2
      <4>4. s = new <=> s[2] = l + 1
        BY <2>2, <2>3, <3>3
      <4> HIDE DEF all
      <4> QED
        BY <1>2, <4>1, <4>2, <4>3, <4>4
    <3> QED
      BY <3>2, <3>3
  <2>5. ~In(w, new)
    BY <1>2, <2>2 DEF l
  <2> HIDE DEF In
  <2>6. CASE e = all
    <3>1. \A s : s \in Slots(v, j) <=> s \in Slots(w, j) \/ s = new
      BY <2>1, <2>2, <2>4, <2>6
    <3>2. Slots(v, j) = Slots(w, j) \cup {new}
      BY <3>1
    <3>3. new \notin Slots(w, j)
      BY <2>1, <2>5
    <3> QED
      BY <2>6, <3>2, <3>3 DEF new
  <2>7. CASE e # all
    <3>1. \A s : s \in Slots(v, j) <=> s \in Slots(w, j)
      BY <2>1, <2>4, <2>7
    <3>2. Slots(v, j) = Slots(w, j)
      BY <3>1
    <3> QED
      BY <2>7, <3>2
  <2> QED
    BY <2>6, <2>7
<1> QED
  BY <1>3, <1>4, <1>5 DEF l, Adds

\* The handlers that wait stay in order.
LEMMA RegisterNumbers ==
    ASSUME NEW w, WorldType(w), NEW p \in Dom(w), NEW e \in Entries, NEW v, v = Register(w, p, e),
           NEW a, Numbered(w, a),
           e.kind = "user" =>
             /\ e.nr <= a.calls
             /\ \A k \in 1 .. Len(Qu(w, p)) : Qu(w, p)[k].kind = "user" => Qu(w, p)[k].nr < e.nr
             /\ \A i \in 1 .. Len(a.heard) : a.heard[i].of = p => a.heard[i].nr < e.nr
    PROVE  Numbered(v, a)
<1>1. /\ WorldType(v) /\ Dom(v) = Dom(w)
      /\ \A q \in Dom(w) : St(v, q) = St(w, q)
      /\ \A q \in Dom(w) : q # p => Qu(v, q) = Qu(w, q)
      /\ Qu(v, p) = Append(Qu(w, p), e) /\ Qu(w, p) \in Seq(Entries)
  <2>1. Attached(w, v, p, e)
    BY RegisterProps
  <2> QED
    BY <2>1 DEF Attached
<1> DEFINE l == Len(Qu(w, p))
<1>2. /\ Len(Qu(v, p)) = l + 1 /\ l \in Nat /\ Qu(v, p)[l + 1] = e
      /\ \A k \in 1 .. l : Qu(v, p)[k] = Qu(w, p)[k] /\ k \in 1 .. l + 1
      /\ \A k \in 1 .. l + 1 : k \in 1 .. l \/ k = l + 1
  BY <1>1, Appended
<1> HIDE DEF l
<1> DEFINE Good(u, q, k) ==
      /\ Qu(u, q)[k].nr <= a.calls
      /\ \A m \in 1 .. Len(Qu(u, q)) : m < k /\ Qu(u, q)[m].kind = "user" =>
            Qu(u, q)[m].nr < Qu(u, q)[k].nr
      /\ \A i \in 1 .. Len(a.heard) : a.heard[i].of = q => a.heard[i].nr < Qu(u, q)[k].nr
<1>3. \A q \in Dom(w) : \A k \in 1 .. Len(Qu(w, q)) : Qu(w, q)[k].kind = "user" => Good(w, q, k)
  BY DEF Numbered
<1>4. ASSUME NEW q \in Dom(w), NEW k \in 1 .. Len(Qu(v, q)), Qu(v, q)[k].kind = "user"
      PROVE  Good(v, q, k)
  <2>1. CASE q # p
    BY <1>1, <1>3, <1>4, <2>1
  <2>2. CASE q = p
    <3>1. k \in 1 .. l + 1
      BY <1>2, <2>2
    <3>2. CASE k \in 1 .. l
      <4>1. Good(w, p, k)
        BY <1>2, <1>3, <1>4, <2>2, <3>2 DEF l
      <4>2. \A m \in 1 .. l + 1 : m < k => m \in 1 .. l
        BY <1>2, <3>2
      <4>3. \A m \in 1 .. l : m < k /\ Qu(w, p)[m].kind = "user" => Qu(w, p)[m].nr < Qu(w, p)[k].nr
        BY <4>1 DEF l
      <4>4. \A m \in 1 .. l + 1 : m < k /\ Qu(v, p)[m].kind = "user" => Qu(v, p)[m].nr < Qu(v, p)[k].nr
        BY <1>2, <3>2, <4>2, <4>3
      <4> QED
        BY <1>2, <2>2, <3>2, <4>1, <4>4
    <3>3. CASE k = l + 1
      <4>1. e.kind = "user"
        BY <1>2, <1>4, <2>2, <3>3
      <4>2. /\ e.nr <= a.calls
            /\ \A m \in 1 .. l : Qu(w, p)[m].kind = "user" => Qu(w, p)[m].nr < e.nr
            /\ \A i \in 1 .. Len(a.heard) : a.heard[i].of = p => a.heard[i].nr < e.nr
        BY <4>1 DEF l
      <4>3. \A m \in 1 .. l + 1 : m < k => m \in 1 .. l
        BY <1>2, <3>3
      <4>4. \A m \in 1 .. l + 1 : m < k /\ Qu(v, p)[m].kind = "user" => Qu(v, p)[m].nr < e.nr
        BY <1>2, <4>2, <4>3
      <4> QED
        BY <1>2, <2>2, <3>3, <4>2, <4>4
    <3> QED
      BY <1>2, <3>1, <3>2, <3>3
  <2> QED
    BY <2>1, <2>2
<1> QED
  BY <1>1, <1>4 DEF Numbered

\* A longer queue: what held of its entries, and of the new one, holds.
LEMMA RegisterStep ==
    ASSUME NEW w, NEW a, PInv(w, a), NEW p \in Dom(w), NEW e \in Entries,
           MayRegister(w, a, p, e), NEW v, v = Register(w, p, e)
    PROVE  PInv(v, a)
<1>1. /\ WorldType(v) /\ Dom(v) = Dom(w)
      /\ \A q \in Dom(w) : St(v, q) = St(w, q)
      /\ \A q \in Dom(w) : q # p => Qu(v, q) = Qu(w, q)
      /\ Qu(v, p) = Append(Qu(w, p), e) /\ Qu(w, p) \in Seq(Entries)
  <2>1. WorldType(w)
    BY DEF PInv
  <2> QED
    BY <2>1, RegisterProps DEF Attached
<1> DEFINE l == Len(Qu(w, p))
<1>2. /\ Len(Qu(v, p)) = l + 1 /\ l \in Nat /\ Qu(v, p)[l + 1] = e
      /\ \A k \in 1 .. l : Qu(v, p)[k] = Qu(w, p)[k] /\ k \in 1 .. l + 1
      /\ \A k \in 1 .. l + 1 : k \in 1 .. l \/ k = l + 1
  BY <1>1, Appended
<1> HIDE DEF l
<1>3. /\ \A q \in Dom(w) : \A f : Waits(v, q, f) <=> Waits(w, q, f) \/ (q = p /\ f = e)
      /\ Grows(w, v)
      /\ \A j \in Nat : e # Internal("all", j) => Slots(v, j) = Slots(w, j)
  <2>1. WorldType(w)
    BY DEF PInv
  <2>2. Adds(w, v, p, e)
    BY <2>1, RegisterAdds
  <2> QED
    BY <2>2 DEF Adds
<1>4. AroundType(v, a)
  BY <1>1 DEF PInv, AroundType, IsSettled
<1>5. Apart(v, a) /\ Free(v, a) = Free(w, a)
  BY <1>1 DEF PInv, Apart, Free
<1>6. Targets(v, a)
  <2>1. ASSUME NEW q \in Dom(w), NEW k \in 1 .. Len(Qu(v, q)) PROVE EntryOK(v, a, q, Qu(v, q)[k])
    <3>1. \A f : EntryOK(v, a, q, f) <=> EntryOK(w, a, q, f)
      BY <1>5 DEF EntryOK
    <3>2. \A m \in 1 .. Len(Qu(w, q)) : EntryOK(w, a, q, Qu(w, q)[m])
      BY DEF PInv, Targets
    <3>3. CASE q # p
      BY <1>1, <3>1, <3>2, <3>3
    <3>4. CASE q = p
      <4>1. \A m \in 1 .. l : EntryOK(w, a, p, Qu(w, p)[m])
        BY <3>2, <3>4 DEF l
      <4>2. EntryOK(w, a, p, e)
        BY DEF MayRegister
      <4>3. k \in 1 .. l + 1
        BY <1>2, <3>4
      <4> QED
        BY <1>2, <3>1, <3>4, <4>1, <4>2, <4>3
    <3> QED
      BY <3>3, <3>4
  <2> QED
    BY <1>1, <1>5, <2>1 DEF PInv, Targets
<1>7. Numbered(v, a)
  BY RegisterNumbers DEF PInv, MayRegister
<1>8. HeardOK(v, a)
  BY <1>1 DEF PInv, HeardOK
<1>9. ASSUME NEW j \in 1 .. Len(a.joins) PROVE JoinOK(v, j, a.joins[j])
  <2>1. a.joins[j].to \in Dom(w) /\ j \in Nat /\ JoinOK(w, j, a.joins[j])
    BY PartsOfJoins
  <2>2. e # Internal("all", j)
    BY <2>1, InternalIs DEF MayRegister
  <2>3. IsSettled(v, a.joins[j].to) => IsSettled(w, a.joins[j].to)
    BY <1>1, <2>1 DEF IsSettled
  <2> QED
    BY <1>3, <2>1, <2>2, <2>3, JoinGrows
<1>10. ASSUME NEW r \in 1 .. Len(a.races) PROVE RaceOK(v, a, a.races[r])
  <2> DEFINE race == a.races[r]
             first == Internal("first", race.to)
  <2>1. /\ race.to \in Dom(w) /\ race.to \in Nat /\ race.all \in Nat /\ RaceOK(w, a, race)
        /\ \A i \in 1 .. Len(race.inputs) : race.inputs[i] \in Dom(w)
    BY PartsOfJoins
  <2>2. IsSettled(v, race.to) => IsSettled(w, race.to)
    BY <1>1, <2>1 DEF IsSettled
  <2>3. \A q \in Dom(v) : Waits(v, q, first) =>
           \/ q \in Dom(w) /\ Waits(w, q, first)
           \/ a.draining = q \/ Waits(v, q, Internal("all", race.all))
    <3> SUFFICES ASSUME NEW q \in Dom(w), Waits(v, q, first), ~Waits(w, q, first)
                 PROVE  a.draining = q \/ Waits(v, q, Internal("all", race.all))
      BY <1>1
    <3>1. q = p /\ e = first
      BY <1>3
    <3>2. e.kind = "first" /\ e.to = race.to
      BY <2>1, <3>1, InternalIs
    <3>3. a.draining = p \/ Waits(w, p, Internal("all", race.all))
      BY <3>2 DEF MayRegister
    <3> QED
      BY <1>3, <3>1, <3>3
  <2> HIDE DEF race
  <2> QED
    BY <1>3, <2>1, <2>2, <2>3, RaceGrows DEF race
<1> QED
  BY <1>1, <1>4, <1>5, <1>6, <1>7, <1>8, <1>9, <1>10 DEF PInv

\* resolve() of a promise that nothing of all() or race() settles.
LEMMA ResolveStep ==
    ASSUME NEW w, NEW a, PInv(w, a), NEW p \in Free(w, a), NEW x \in Int,
           NEW v, v = Resolve(w, p, x)
    PROVE  PInv(v, a)
<1>1. /\ p \in Dom(w) /\ \A s \in States : MaySettleAs(w, a, p, s)
      /\ "fulfilled" \in States /\ "rejected" \in States
  BY FreeMaySettle DEF States
<1>2. w.promises \in Seq(PromiseType) /\ DOMAIN w.promises = Dom(w) /\ p \in Nat
  BY <1>1 DEF PInv, WorldType, Dom
<1>3. \A q \in Dom(w) : St(w, q) \in {"pending"} \cup States /\ Val(w, q) \in Int
  <2>1. \A q \in Dom(w) : w.promises[q] \in PromiseType
    BY <1>2, ElementOfSeq DEF Dom
  <2> QED
    BY <2>1 DEF PromiseType, St, Val
<1>4. CASE x = p
  <2>1. v = Settle(w, p, "rejected", Plain)
    BY <1>1, <1>2, <1>4 DEF Resolve
  <2> QED
    BY <1>1, <2>1, SettleStep DEF Plain
<1>5. CASE x # p /\ x \notin Dom(w)
  <2>1. v = Settle(w, p, "fulfilled", x)
    BY <1>2, <1>5 DEF Resolve
  <2> QED
    BY <1>1, <2>1, SettleStep
<1>6. CASE x # p /\ x \in Dom(w) /\ St(w, x) = "pending"
  <2>1. v = Register(w, x, Internal("follow", p))
    BY <1>2, <1>6 DEF Resolve, St
  <2>2. /\ Internal("follow", p) \in Entries /\ Internal("follow", p).kind = "follow"
        /\ Internal("follow", p).to = p
    BY <1>2, InternalIs
  <2>3. MayRegister(w, a, x, Internal("follow", p))
    BY <2>2 DEF MayRegister, EntryOK
  <2> QED
    BY <1>6, <2>1, <2>2, <2>3, RegisterStep
<1>7. CASE x # p /\ x \in Dom(w) /\ St(w, x) # "pending"
  <2>1. v = Settle(w, p, St(w, x), Val(w, x))
    BY <1>2, <1>7 DEF Resolve, St, Val
  <2>2. St(w, x) \in States /\ Val(w, x) \in Int
    BY <1>3, <1>7
  <2> QED
    BY <1>1, <2>1, <2>2, SettleStep
<1> QED
  BY <1>4, <1>5, <1>6, <1>7

\* A promise that nothing refers to yet.
Fresh(w, a, n) ==
    /\ n \in Free(w, a) /\ n \in Nat /\ ~IsSettled(w, n) /\ n \notin a.own
    /\ a.handling # NoEntry => a.handling.to # n
    /\ \A p \in Dom(w) : \A k \in 1 .. Len(Qu(w, p)) : Qu(w, p)[k].to = n =>
          Qu(w, p)[k].kind = "all"

LEMMA NewStep ==
    ASSUME NEW w, NEW a, PInv(w, a), NEW v, v = New(w), NEW n, n = Newest(v)
    PROVE  /\ PInv(v, a) /\ Fresh(v, a, n)
           /\ \A q : Fresh(w, a, q) => Fresh(v, a, q) /\ q # n
           /\ Dom(w) \subseteq Dom(v) /\ n \notin Dom(w)
           /\ \A i \in 1 .. Len(a.heard) : a.heard[i].of # n
           /\ \A q \in Dom(w) : St(v, q) = St(w, q) /\ Qu(v, q) = Qu(w, q)
<1>1. /\ WorldType(v) /\ n \notin Dom(w) /\ n \in Dom(v) /\ Dom(v) = Dom(w) \cup {n}
      /\ \A q \in Dom(w) : St(v, q) = St(w, q) /\ Qu(v, q) = Qu(w, q)
      /\ Qu(v, n) = <<>> /\ ~IsSettled(v, n) /\ n \in Nat /\ n > 0
  BY NewProps DEF PInv
<1>2. Len(Qu(v, n)) = 0
  BY <1>1
<1>3. Grows(w, v)
  <2>1. \A q \in Dom(w) : \A e \in Entries : Waits(w, q, e) => Waits(v, q, e)
    BY <1>1 DEF Waits
  <2> QED
    BY <1>1, <2>1 DEF Grows
<1>4. AroundType(v, a)
  BY <1>1 DEF PInv, AroundType, IsSettled
<1>5. Apart(v, a) /\ Free(v, a) = Free(w, a) \cup {n}
  <2>1. ~JoinTo(a, n) /\ ~RaceTo(a, n)
    BY <1>1 DEF PInv, Apart, JoinTo, RaceTo
  <2> QED
    BY <1>1, <2>1 DEF PInv, Apart, Free
<1>6. Targets(v, a)
  <2>1. ASSUME NEW q \in Dom(v), NEW k \in 1 .. Len(Qu(v, q)) PROVE EntryOK(v, a, q, Qu(v, q)[k])
    <3>1. q \in Dom(w) /\ Qu(v, q) = Qu(w, q)
      BY <1>1, <1>2
    <3>2. EntryOK(w, a, q, Qu(v, q)[k])
      BY <3>1 DEF PInv, Targets
    <3> QED
      BY <1>5, <3>2 DEF EntryOK
  <2> QED
    BY <1>1, <1>5, <2>1 DEF PInv, Targets
<1>7. Numbered(v, a)
  <2>1. \A q \in Dom(v) : \A k \in 1 .. Len(Qu(v, q)) : q \in Dom(w) /\ Qu(v, q) = Qu(w, q)
    BY <1>1, <1>2
  <2> QED
    BY <2>1 DEF PInv, Numbered
<1>8. HeardOK(v, a)
  BY <1>1 DEF PInv, HeardOK
<1>9. ASSUME NEW j \in 1 .. Len(a.joins) PROVE JoinOK(v, j, a.joins[j])
  <2>1. a.joins[j].to \in Dom(w) /\ j \in Nat /\ JoinOK(w, j, a.joins[j])
    BY PartsOfJoins
  <2>2. Slots(v, j) = Slots(w, j)
    <3>1. \A s : s \in Slots(v, j) => s[1] # n
      BY <1>2 DEF Slots
    <3>2. \A s : s \in Slots(v, j) <=> s \in Slots(w, j)
      BY <1>1, <3>1 DEF Slots
    <3> QED
      BY <3>2 DEF Slots
  <2>3. IsSettled(v, a.joins[j].to) => IsSettled(w, a.joins[j].to)
    BY <1>1, <2>1 DEF IsSettled
  <2> QED
    BY <1>3, <2>1, <2>2, <2>3, JoinGrows
<1>10. ASSUME NEW r \in 1 .. Len(a.races) PROVE RaceOK(v, a, a.races[r])
  <2> DEFINE race == a.races[r]
  <2>1. /\ race.to \in Dom(w) /\ race.to \in Nat /\ race.all \in Nat /\ RaceOK(w, a, race)
        /\ \A i \in 1 .. Len(race.inputs) : race.inputs[i] \in Dom(w)
    BY PartsOfJoins
  <2>2. IsSettled(v, race.to) => IsSettled(w, race.to)
    BY <1>1, <2>1 DEF IsSettled
  <2>3. \A q \in Dom(v) : Waits(v, q, Internal("first", race.to)) =>
           q \in Dom(w) /\ Waits(w, q, Internal("first", race.to))
    <3>1. \A e : ~Waits(v, n, e)
      BY <1>2 DEF Waits
    <3>2. \A q \in Dom(w) : \A e : Waits(v, q, e) => Waits(w, q, e)
      BY <1>1 DEF Waits
    <3> HIDE DEF race
    <3> QED
      BY <1>1, <3>1, <3>2
  <2> HIDE DEF race
  <2> QED
    BY <1>3, <2>1, <2>2, <2>3, RaceGrows DEF race
<1>11. PInv(v, a)
  BY <1>1, <1>4, <1>5, <1>6, <1>7, <1>8, <1>9, <1>10 DEF PInv
<1>12. Fresh(v, a, n)
  <2>1. n \notin a.own /\ (a.handling # NoEntry => a.handling.to # n)
    BY <1>1 DEF PInv, Targets, Free
  <2>2. ASSUME NEW q \in Dom(v), NEW k \in 1 .. Len(Qu(v, q)), Qu(v, q)[k].to = n
        PROVE  Qu(v, q)[k].kind = "all"
    <3>1. q \in Dom(w) /\ Qu(v, q) = Qu(w, q)
      BY <1>1, <1>2
    <3>2. EntryOK(w, a, q, Qu(w, q)[k])
      BY <3>1 DEF PInv, Targets
    <3>3. Qu(w, q)[k].kind \in {"user", "follow", "all", "reject", "first"}
      <4>1. Qu(w, q) \in Seq(Entries)
        <5>1. w.promises \in Seq(PromiseType)
          BY DEF PInv, WorldType
        <5>2. w.promises[q] \in PromiseType
          BY <3>1, <5>1, ElementOfSeq DEF Dom
        <5> QED
          BY <5>2 DEF PromiseType, Qu
      <4>2. Qu(w, q)[k] \in Entries
        BY <3>1, <4>1, ElementOfSeq
      <4> QED
        BY <4>2 DEF Entries
    <3>4. Qu(w, q)[k].to = n
      BY <2>2, <3>1
    <3>5. ~(Qu(w, q)[k].kind \in {"user", "follow"})
      BY <1>1, <3>2, <3>4 DEF EntryOK, Free
    <3>6. \A r \in 1 .. Len(a.races) : a.races[r].to # n
      BY <1>1 DEF PInv, Apart
    <3>7. Qu(w, q)[k].kind # "first" /\ Qu(w, q)[k].kind # "reject"
      BY <3>2, <3>4, <3>6 DEF EntryOK
    <3> QED
      BY <3>1, <3>3, <3>5, <3>7
  <2> QED
    BY <1>1, <1>5, <2>1, <2>2 DEF Fresh
<1>13. \A q : Fresh(w, a, q) => Fresh(v, a, q) /\ q # n
  <2> SUFFICES ASSUME NEW q, Fresh(w, a, q) PROVE Fresh(v, a, q) /\ q # n
    OBVIOUS
  <2>1. q \in Dom(w)
    BY DEF Fresh, Free
  <2>2. \A p \in Dom(v) : \A k \in 1 .. Len(Qu(v, p)) : p \in Dom(w) /\ Qu(v, p) = Qu(w, p)
    BY <1>1, <1>2
  <2>3. \A p \in Dom(v) : \A k \in 1 .. Len(Qu(v, p)) : Qu(v, p)[k].to = q =>
           Qu(v, p)[k].kind = "all"
    BY <2>2 DEF Fresh
  <2> QED
    BY <1>1, <1>5, <2>1, <2>3 DEF Fresh, IsSettled
<1>14. \A i \in 1 .. Len(a.heard) : a.heard[i].of # n
  BY <1>1 DEF PInv, HeardOK
<1> QED
  BY <1>1, <1>11, <1>12, <1>13, <1>14

-----------------------------------------------------------------------------
(* Promises: the first entry of a queue is taken. *)

\* The entry h leaves the queue of d.
Drops(w, v, d, h) ==
    /\ WorldType(v) /\ Dom(v) = Dom(w)
    /\ \A q \in Dom(w) : St(v, q) = St(w, q)
    /\ \A q \in Dom(w) : q # d => Qu(v, q) = Qu(w, q)
    /\ Qu(w, d)[1] = h /\ Len(Qu(w, d)) = Len(Qu(v, d)) + 1 /\ Len(Qu(v, d)) \in Nat
    /\ \A k \in 1 .. Len(Qu(v, d)) : Qu(v, d)[k] = Qu(w, d)[k + 1]

LEMMA TakeDrops ==
    ASSUME NEW w, WorldType(w), NEW d \in Dom(w), Qu(w, d) # <<>>, NEW v, v = TakenFrom(w, d)
    PROVE  Drops(w, v, d, Head(Qu(w, d))) /\ Head(Qu(w, d)) \in Entries
<1>1. /\ WorldType(v) /\ Dom(v) = Dom(w)
      /\ \A q \in Dom(w) : St(v, q) = St(w, q)
      /\ \A q \in Dom(w) : q # d => Qu(v, q) = Qu(w, q)
      /\ Qu(w, d) \in Seq(Entries) /\ Qu(v, d) \in Seq(Entries)
      /\ Len(Qu(w, d)) = Len(Qu(v, d)) + 1 /\ Head(Qu(w, d)) = Qu(w, d)[1]
      /\ \A k \in 1 .. Len(Qu(v, d)) : Qu(v, d)[k] = Qu(w, d)[k + 1]
  BY TakenProps
<1>2. Len(Qu(v, d)) \in Nat /\ 1 \in 1 .. Len(Qu(w, d))
  BY <1>1
<1>3. Qu(w, d)[1] \in Entries
  BY <1>1, <1>2, ElementOfSeq
<1> QED
  BY <1>1, <1>2, <1>3 DEF Drops

LEMMA DropsWaits ==
    ASSUME NEW w, NEW v, NEW d \in Dom(w), NEW h, Drops(w, v, d, h)
    PROVE  /\ \A q \in Dom(w) : \A f : Waits(v, q, f) => Waits(w, q, f)
           /\ \A q \in Dom(w) : \A f : Waits(w, q, f) => Waits(v, q, f) \/ (q = d /\ f = h)
<1>1. \A k \in 1 .. Len(Qu(v, d)) : k + 1 \in 1 .. Len(Qu(w, d))
  BY DEF Drops
<1>2. \A k \in 1 .. Len(Qu(w, d)) : k # 1 =>
         k - 1 \in 1 .. Len(Qu(v, d)) /\ Qu(v, d)[k - 1] = Qu(w, d)[k]
  <2> SUFFICES ASSUME NEW k \in 1 .. Len(Qu(w, d)), k # 1
               PROVE  k - 1 \in 1 .. Len(Qu(v, d)) /\ Qu(v, d)[k - 1] = Qu(w, d)[k]
    OBVIOUS
  <2>1. k - 1 \in 1 .. Len(Qu(v, d)) /\ (k - 1) + 1 = k
    BY DEF Drops
  <2> QED
    BY <2>1 DEF Drops
<1>3. ASSUME NEW q \in Dom(w), NEW f, Waits(v, q, f) PROVE Waits(w, q, f)
  <2>1. CASE q # d
    BY <1>3, <2>1 DEF Drops, Waits
  <2>2. CASE q = d
    BY <1>1, <1>3, <2>2 DEF Drops, Waits
  <2> QED
    BY <2>1, <2>2
<1>4. ASSUME NEW q \in Dom(w), NEW f, Waits(w, q, f)
      PROVE  Waits(v, q, f) \/ (q = d /\ f = h)
  <2>1. CASE q # d
    BY <1>4, <2>1 DEF Drops, Waits
  <2>2. CASE q = d
    <3>1. PICK k \in 1 .. Len(Qu(w, d)) : Qu(w, d)[k] = f
      BY <1>4, <2>2 DEF Waits
    <3>2. CASE k = 1
      BY <2>2, <3>1, <3>2 DEF Drops
    <3>3. CASE k # 1
      BY <1>2, <2>2, <3>1, <3>3 DEF Waits
    <3> QED
      BY <3>2, <3>3
  <2> QED
    BY <2>1, <2>2
<1> QED
  BY <1>3, <1>4

\* The others move up by one.
LEMMA DropsSlots ==
    ASSUME NEW w, NEW v, NEW d \in Dom(w), NEW h, Drops(w, v, d, h), NEW j \in Nat,
           IsFiniteSet(Slots(w, j))
    PROVE  /\ IsFiniteSet(Slots(v, j)) /\ Cardinality(Slots(v, j)) \in Nat
           /\ h = Internal("all", j) =>
                Cardinality(Slots(w, j)) = Cardinality(Slots(v, j)) + 1
           /\ h # Internal("all", j) => Cardinality(Slots(w, j)) = Cardinality(Slots(v, j))
<1> DEFINE all == Internal("all", j)
           first == <<d, 1>>
           T == Slots(w, j) \ {first}
           f == [s \in T |-> IF s[1] = d THEN <<d, s[2] - 1>> ELSE s]
<1>1. /\ \A s : s \in Slots(w, j) <=>
              s \in Dom(w) \X Nat /\ s[2] \in 1 .. Len(Qu(w, s[1])) /\ Qu(w, s[1])[s[2]] = all
      /\ \A s : s \in Slots(v, j) <=>
              s \in Dom(w) \X Nat /\ s[2] \in 1 .. Len(Qu(v, s[1])) /\ Qu(v, s[1])[s[2]] = all
  BY DEF Drops, Slots
<1>2. \A k \in 1 .. Len(Qu(w, d)) : k # 1 =>
         k - 1 \in 1 .. Len(Qu(v, d)) /\ Qu(v, d)[k - 1] = Qu(w, d)[k]
  <2> SUFFICES ASSUME NEW k \in 1 .. Len(Qu(w, d)), k # 1
               PROVE  k - 1 \in 1 .. Len(Qu(v, d)) /\ Qu(v, d)[k - 1] = Qu(w, d)[k]
    OBVIOUS
  <2>1. k - 1 \in 1 .. Len(Qu(v, d)) /\ (k - 1) + 1 = k
    BY DEF Drops
  <2> QED
    BY <2>1 DEF Drops
<1>3. \A k \in 1 .. Len(Qu(v, d)) :
         /\ k + 1 \in 1 .. Len(Qu(w, d)) /\ k + 1 # 1 /\ Qu(w, d)[k + 1] = Qu(v, d)[k]
         /\ (k + 1) - 1 = k
  BY DEF Drops
<1>4. first \in Dom(w) \X Nat /\ first[1] = d /\ first[2] = 1
  OBVIOUS
<1>5. first \in Slots(w, j) <=> h = all
  <2>1. 1 \in 1 .. Len(Qu(w, d)) /\ Qu(w, d)[1] = h
    BY DEF Drops
  <2> HIDE DEF first, all
  <2> QED
    BY <1>1, <1>4, <2>1
<1>6. \A s \in T : /\ s \in Dom(w) \X Nat /\ s[1] \in Dom(w) /\ s[2] \in Nat
                   /\ s[2] \in 1 .. Len(Qu(w, s[1])) /\ Qu(w, s[1])[s[2]] = all
                   /\ s[1] = d => s[2] # 1
                   /\ s = <<s[1], s[2]>>
  <2> HIDE DEF all
  <2> QED
    BY <1>1
<1>7. \A s \in T : f[s] = IF s[1] = d THEN <<d, s[2] - 1>> ELSE s
  OBVIOUS
<1>8. f \in Injection(T, Slots(v, j))
  <2>1. ASSUME NEW s \in T PROVE f[s] \in Slots(v, j)
    <3>1. CASE s[1] = d
      <4>1. s[2] \in 1 .. Len(Qu(w, d)) /\ s[2] # 1 /\ Qu(w, d)[s[2]] = all
        BY <1>6, <3>1
      <4>2. s[2] - 1 \in 1 .. Len(Qu(v, d)) /\ Qu(v, d)[s[2] - 1] = all /\ s[2] - 1 \in Nat
        BY <1>2, <4>1
      <4>3. f[s] = <<d, s[2] - 1>>
        BY <1>7, <3>1
      <4> HIDE DEF f, all, T
      <4> DEFINE t == <<d, s[2] - 1>>
      <4>4. t \in Dom(w) \X Nat /\ t[1] = d /\ t[2] = s[2] - 1
        BY <4>2
      <4> HIDE DEF t
      <4>5. t \in Slots(v, j)
        BY <1>1, <4>2, <4>4
      <4> QED
        BY <4>3, <4>5 DEF t
    <3>2. CASE s[1] # d
      <4>1. f[s] = s /\ Qu(v, s[1]) = Qu(w, s[1])
        BY <1>6, <1>7, <3>2 DEF Drops
      <4> HIDE DEF f, all, T
      <4> QED
        BY <1>1, <1>6, <4>1
    <3> QED
      BY <3>1, <3>2
  <2>2. ASSUME NEW s \in T, NEW t \in T, f[s] = f[t] PROVE s = t
    <3> HIDE DEF f, T
    <3>1. s[2] \in Nat /\ t[2] \in Nat /\ s = <<s[1], s[2]>> /\ t = <<t[1], t[2]>>
      BY <1>6
    <3>2. CASE s[1] = d /\ t[1] = d
      <4>1. <<d, s[2] - 1>> = <<d, t[2] - 1>>
        BY <1>7, <2>2, <3>2
      <4>2. s[2] - 1 = t[2] - 1
        BY <4>1
      <4>3. s[2] = t[2]
        BY <3>1, <4>2
      <4> QED
        BY <3>1, <3>2, <4>3
    <3>3. CASE s[1] # d /\ t[1] # d
      BY <1>7, <2>2, <3>3
    <3>4. CASE s[1] = d /\ t[1] # d
      <4>1. <<d, s[2] - 1>> = t
        BY <1>7, <2>2, <3>4
      <4> QED
        BY <3>4, <4>1
    <3>5. CASE s[1] # d /\ t[1] = d
      <4>1. s = <<d, t[2] - 1>>
        BY <1>7, <2>2, <3>5
      <4> QED
        BY <3>5, <4>1
    <3> QED
      BY <3>2, <3>3, <3>4, <3>5
  <2>3. f \in [T -> Slots(v, j)]
    <3>1. f = [s \in T |-> f[s]]
      OBVIOUS
    <3> HIDE DEF f, T
    <3> QED
      BY <2>1, <3>1
  <2> HIDE DEF f, T
  <2>4. DOMAIN f = T
    BY <2>3
  <2> QED
    BY <2>2, <2>3, <2>4 DEF Injection, IsInjective
<1>9. ASSUME NEW t \in Slots(v, j) PROVE \E s \in T : f[s] = t
  <2>1. /\ t \in Dom(w) \X Nat /\ t[2] \in 1 .. Len(Qu(v, t[1])) /\ Qu(v, t[1])[t[2]] = all
        /\ t = <<t[1], t[2]>> /\ t[2] \in Nat /\ t[1] \in Dom(w)
    BY <1>1
  <2>2. CASE t[1] = d
    <3> DEFINE k == t[2] + 1
               s == <<d, k>>
    <3>1. k \in 1 .. Len(Qu(w, d)) /\ k # 1 /\ Qu(w, d)[k] = all /\ k - 1 = t[2] /\ k \in Nat
      BY <1>3, <2>1, <2>2
    <3> HIDE DEF k, all
    <3>2. s \in Dom(w) \X Nat /\ s[1] = d /\ s[2] = k /\ s # first
      BY <3>1
    <3> HIDE DEF s, first
    <3>3. s \in T
      BY <1>1, <3>1, <3>2
    <3>4. f[s] = <<d, k - 1>>
      BY <1>7, <3>2, <3>3
    <3>5. f[s] = t
      BY <2>1, <2>2, <3>1, <3>4
    <3> QED
      BY <3>3, <3>5
  <2>3. CASE t[1] # d
    <3>1. Qu(v, t[1]) = Qu(w, t[1]) /\ t # first
      BY <1>4, <2>1, <2>3 DEF Drops
    <3> HIDE DEF first, all
    <3>2. t \in T
      BY <1>1, <2>1, <3>1
    <3>3. f[t] = t
      BY <1>7, <2>3, <3>2
    <3> QED
      BY <3>2, <3>3
  <2> QED
    BY <2>2, <2>3
<1>10. ExistsBijection(T, Slots(v, j))
  <2> HIDE DEF f, T
  <2>1. f \in Surjection(T, Slots(v, j))
    BY <1>8, <1>9 DEF Injection, Surjection
  <2> QED
    BY <1>8, <2>1 DEF Bijection, ExistsBijection
<1>11. /\ IsFiniteSet(T)
       /\ Cardinality(T) = IF first \in Slots(w, j)
                             THEN Cardinality(Slots(w, j)) - 1 ELSE Cardinality(Slots(w, j))
  BY FS_RemoveElement
<1>12. Cardinality(Slots(w, j)) \in Nat
  BY FS_CardinalityType
<1> HIDE DEF T, first, all
<1>13. IsFiniteSet(Slots(v, j)) /\ Cardinality(Slots(v, j)) = Cardinality(T)
  BY <1>10, <1>11, FS_Bijection
<1>14. Cardinality(Slots(v, j)) \in Nat
  BY <1>13, FS_CardinalityType
<1> QED
  BY <1>5, <1>11, <1>12, <1>13, <1>14 DEF all

LEMMA DropsPlaces ==
    ASSUME NEW w, NEW v, NEW d \in Dom(w), NEW h, Drops(w, v, d, h)
    PROVE  \A q \in Dom(w) : \A k \in 1 .. Len(Qu(v, q)) :
              LET m == IF q = d THEN k + 1 ELSE k
              IN  m \in 1 .. Len(Qu(w, q)) /\ Qu(v, q)[k] = Qu(w, q)[m]
<1> SUFFICES ASSUME NEW q \in Dom(w), NEW k \in 1 .. Len(Qu(v, q))
             PROVE  LET m == IF q = d THEN k + 1 ELSE k
                    IN  m \in 1 .. Len(Qu(w, q)) /\ Qu(v, q)[k] = Qu(w, q)[m]
  OBVIOUS
<1>1. CASE q = d
  <2>1. k + 1 \in 1 .. Len(Qu(w, d))
    BY <1>1 DEF Drops
  <2> QED
    BY <1>1, <2>1 DEF Drops
<1>2. CASE q # d
  BY <1>2 DEF Drops
<1> QED
  BY <1>1, <1>2

LEMMA DropsNumbers ==
    ASSUME NEW w, NEW v, NEW d \in Dom(w), NEW h, Drops(w, v, d, h), NEW a, Numbered(w, a)
    PROVE  Numbered(v, a)
<1>1. ASSUME NEW q \in Dom(w), NEW k \in 1 .. Len(Qu(v, q)), Qu(v, q)[k].kind = "user"
      PROVE  /\ Qu(v, q)[k].nr <= a.calls
             /\ \A l \in 1 .. Len(Qu(v, q)) : l < k /\ Qu(v, q)[l].kind = "user" =>
                   Qu(v, q)[l].nr < Qu(v, q)[k].nr
             /\ \A i \in 1 .. Len(a.heard) : a.heard[i].of = q =>
                   a.heard[i].nr < Qu(v, q)[k].nr
  <2> DEFINE At(n) == IF q = d THEN n + 1 ELSE n
  <2>1. \A l \in 1 .. Len(Qu(v, q)) : At(l) \in 1 .. Len(Qu(w, q)) /\ Qu(v, q)[l] = Qu(w, q)[At(l)]
    BY DropsPlaces
  <2>2. \A l \in 1 .. Len(Qu(v, q)) : l < k => At(l) < At(k)
    OBVIOUS
  <2> HIDE DEF At
  <2>3. Qu(w, q)[At(k)].kind = "user"
    BY <1>1, <2>1
  <2>4. /\ Qu(w, q)[At(k)].nr <= a.calls
        /\ \A l \in 1 .. Len(Qu(w, q)) : l < At(k) /\ Qu(w, q)[l].kind = "user" =>
              Qu(w, q)[l].nr < Qu(w, q)[At(k)].nr
        /\ \A i \in 1 .. Len(a.heard) : a.heard[i].of = q =>
              a.heard[i].nr < Qu(w, q)[At(k)].nr
    BY <2>1, <2>3 DEF Numbered
  <2> QED
    BY <2>1, <2>2, <2>4
<1> QED
  BY <1>1 DEF Drops, Numbered

\* What entries that leave, other than those of all(), keep.
LEMMA TakeStep ==
    ASSUME NEW w, NEW a, PInv(w, a), NEW d \in Dom(w), a.draining = d, IsSettled(w, d),
           NEW h \in Entries, NEW v, Drops(w, v, d, h), h.kind # "all",
           h.kind = "first" /\ St(w, d) = "fulfilled" => IsSettled(w, h.to)
    PROVE  PInv(v, a)
<1>1. /\ WorldType(v) /\ Dom(v) = Dom(w)
      /\ \A q \in Dom(w) : St(v, q) = St(w, q)
  BY DEF Drops
<1>2. \A q \in Dom(w) : \A k \in 1 .. Len(Qu(v, q)) :
         LET m == IF q = d THEN k + 1 ELSE k
         IN  m \in 1 .. Len(Qu(w, q)) /\ Qu(v, q)[k] = Qu(w, q)[m]
  BY DropsPlaces
<1>3. /\ \A q \in Dom(w) : \A f : Waits(v, q, f) => Waits(w, q, f)
      /\ \A q \in Dom(w) : \A f : Waits(w, q, f) => Waits(v, q, f) \/ (q = d /\ f = h)
  BY DropsWaits, Zenon
<1>4. AroundType(v, a)
  BY <1>1 DEF PInv, AroundType, IsSettled
<1>5. Apart(v, a) /\ Free(v, a) = Free(w, a)
  BY <1>1 DEF PInv, Apart, Free
<1>6. Targets(v, a)
  <2>1. ASSUME NEW q \in Dom(w), NEW k \in 1 .. Len(Qu(v, q)) PROVE EntryOK(v, a, q, Qu(v, q)[k])
    <3>1. \A f : EntryOK(v, a, q, f) <=> EntryOK(w, a, q, f)
      BY <1>5 DEF EntryOK
    <3>2. \A m \in 1 .. Len(Qu(w, q)) : EntryOK(w, a, q, Qu(w, q)[m])
      BY DEF PInv, Targets
    <3> QED
      BY <1>2, <3>1, <3>2
  <2> QED
    BY <1>1, <1>5, <2>1 DEF PInv, Targets
<1>7. Numbered(v, a)
  BY DropsNumbers DEF PInv
<1>8. HeardOK(v, a)
  BY <1>1 DEF PInv, HeardOK
<1>9. ASSUME NEW j \in 1 .. Len(a.joins) PROVE JoinOK(v, j, a.joins[j])
  <2> DEFINE join == a.joins[j]
  <2>1. join.to \in Dom(w) /\ j \in Nat /\ JoinOK(w, j, join)
    BY PartsOfJoins
  <2>2. h # Internal("all", j)
    BY <2>1, InternalIs
  <2> HIDE DEF join
  <2>3. IsFiniteSet(Slots(w, j))
    BY <2>1 DEF JoinOK
  <2>4. IsFiniteSet(Slots(v, j)) /\ Cardinality(Slots(v, j)) = Cardinality(Slots(w, j))
    BY <2>1, <2>2, <2>3, DropsSlots
  <2>5. \A q \in Dom(w) : Waits(w, q, Internal("all", j)) => Waits(v, q, Internal("all", j))
    BY <1>3, <2>2
  <2>6. \A q \in Dom(w) : IsSettled(v, q) <=> IsSettled(w, q)
    BY <1>1 DEF IsSettled
  <2>7. \A i \in 1 .. Len(join.inputs) :
         /\ join.inputs[i] \in Dom(v) /\ join.inputs[i] # join.to
         /\ \/ Waits(v, join.inputs[i], Internal("all", j))
            \/ /\ IsSettled(v, join.inputs[i])
               /\ St(v, join.inputs[i]) = "rejected" => join.failed
    BY <1>1, <2>1, <2>5, <2>6 DEF JoinOK
  <2>8. join.failed => \E i \in 1 .. Len(join.inputs) : St(v, join.inputs[i]) = "rejected"
    BY <1>1, <2>1 DEF JoinOK
  <2> QED
    BY <1>1, <2>1, <2>4, <2>6, <2>7, <2>8 DEF JoinOK, join
<1>10. ASSUME NEW r \in 1 .. Len(a.races) PROVE RaceOK(v, a, a.races[r])
  <2> DEFINE race == a.races[r]
             first == Internal("first", race.to)
  <2>1. /\ race.to \in Dom(w) /\ race.to \in Nat /\ race.all \in Nat /\ RaceOK(w, a, race)
        /\ \A i \in 1 .. Len(race.inputs) : race.inputs[i] \in Dom(w)
    BY PartsOfJoins
  <2>2. h # Internal("all", race.all)
    BY <2>1, InternalIs
  <2>3. \A q \in Dom(w) : Waits(w, q, Internal("all", race.all)) =>
           Waits(v, q, Internal("all", race.all))
    BY <1>3, <2>2
  <2>4. \A q \in Dom(w) : IsSettled(v, q) <=> IsSettled(w, q)
    BY <1>1 DEF IsSettled
  <2>5. \A i \in 1 .. Len(race.inputs) :
           Waits(w, race.inputs[i], first) =>
             \/ Waits(v, race.inputs[i], first)
             \/ race.inputs[i] = d /\ h.kind = "first" /\ h.to = race.to
    BY <1>3, <2>1, InternalIs
  <2> HIDE DEF race
  <2>6. \A i \in 1 .. Len(race.inputs) :
         /\ IsInput(a.joins[race.all], race.inputs[i])
         /\ \/ Waits(v, race.inputs[i], first)
            \/ /\ IsSettled(v, race.inputs[i])
               /\ St(v, race.inputs[i]) = "fulfilled" => IsSettled(v, race.to)
    <3> SUFFICES ASSUME NEW i \in 1 .. Len(race.inputs)
                 PROVE  /\ IsInput(a.joins[race.all], race.inputs[i])
                        /\ \/ Waits(v, race.inputs[i], first)
                           \/ /\ IsSettled(v, race.inputs[i])
                              /\ St(v, race.inputs[i]) = "fulfilled" => IsSettled(v, race.to)
      OBVIOUS
    <3>1. /\ IsInput(a.joins[race.all], race.inputs[i])
          /\ \/ Waits(w, race.inputs[i], first)
             \/ /\ IsSettled(w, race.inputs[i])
                /\ St(w, race.inputs[i]) = "fulfilled" => IsSettled(w, race.to)
      BY <2>1 DEF RaceOK
    <3>2. CASE Waits(w, race.inputs[i], first)
      BY <1>1, <2>1, <2>4, <2>5, <3>1, <3>2
    <3>3. CASE ~Waits(w, race.inputs[i], first)
      BY <1>1, <2>1, <2>4, <3>1, <3>3
    <3> QED
      BY <3>2, <3>3
  <2>7. \A p \in Dom(v) : Waits(v, p, first) => a.draining = p \/ Waits(v, p, Internal("all", race.all))
    BY <1>1, <1>3, <2>1, <2>3 DEF RaceOK
  <2> HIDE DEF first
  <2>8. IsSettled(v, race.to) =>
         IF St(v, race.to) = "fulfilled"
           THEN \E i \in 1 .. Len(race.inputs) : St(v, race.inputs[i]) = "fulfilled"
           ELSE \A i \in 1 .. Len(race.inputs) : St(v, race.inputs[i]) = "rejected"
    BY <1>1, <2>1, <2>4 DEF RaceOK
  <2>9. race.all \in 1 .. Len(a.joins)
    BY <2>1 DEF RaceOK
  <2>10. RaceOK(v, a, race)
    BY <2>6, <2>7, <2>8, <2>9 DEF RaceOK, first
  <2> QED
    BY <2>10 DEF race
<1> QED
  BY <1>1, <1>4, <1>5, <1>6, <1>7, <1>8, <1>9, <1>10 DEF PInv

\* A handler of all() has been told the state of one input.
CountedJoin(join, state) ==
    [join EXCEPT !.remaining = @ - 1, !.failed = @ \/ state = "rejected"]

LEMMA CountedIs ==
    ASSUME NEW old \in JoinType, NEW state
    PROVE  /\ CountedJoin(old, state).to = old.to /\ CountedJoin(old, state).inputs = old.inputs
           /\ CountedJoin(old, state).remaining = old.remaining - 1
           /\ CountedJoin(old, state).failed <=> old.failed \/ state = "rejected"
           /\ CountedJoin(old, state) \in JoinType /\ old.remaining \in Int
<1> DEFINE fails == old.failed \/ state = "rejected"
           new == [to |-> old.to, inputs |-> old.inputs, remaining |-> old.remaining - 1,
                   failed |-> fails]
<1>1. fails \in BOOLEAN
  OBVIOUS
<1>2. /\ old.to \in Nat /\ old.inputs \in Seq(Nat) /\ old.remaining \in Int
      /\ old.remaining - 1 \in Int
      /\ old = [to |-> old.to, inputs |-> old.inputs, remaining |-> old.remaining,
                failed |-> old.failed]
  BY DEF JoinType
<1>3. CountedJoin(old, state) = [old EXCEPT !.remaining = old.remaining - 1, !.failed = fails]
  BY DEF CountedJoin
<1> HIDE DEF fails
<1>4. CountedJoin(old, state) = new
  BY <1>2, <1>3
<1>5. /\ new.to = old.to /\ new.inputs = old.inputs /\ new.remaining = old.remaining - 1
      /\ new.failed = fails
  OBVIOUS
<1>6. new \in JoinType
  BY <1>1, <1>2 DEF JoinType
<1> HIDE DEF new
<1> QED
  BY <1>2, <1>4, <1>5, <1>6 DEF fails

\* Only the variables of the closures of all() differ.
OnlyJoins(a, b) ==
    /\ b.draining = a.draining /\ b.handling = a.handling /\ b.own = a.own
    /\ b.races = a.races /\ b.calls = a.calls /\ b.heard = a.heard

\* The closure has been counted down, and may settle its promise when it has counted all.
CountsOne(v, b, join) ==
    /\ PInv(v, b) /\ join.to \in Dom(v) /\ join.remaining \in Nat
    /\ \A s : join.remaining = 0 /\ (s = "fulfilled" <=> ~join.failed) =>
          MaySettleAs(v, b, join.to, s)

Counting(w, a, d, nr, join, b) ==
    /\ join = CountedJoin(a.joins[nr], St(w, d))
    /\ OnlyJoins(a, b) /\ b.joins = [a.joins EXCEPT ![nr] = join]

\* A handler of all() counts one of its inputs.
LEMMA TakeAllStep ==
    ASSUME NEW w, NEW a, PInv(w, a), NEW d \in Dom(w), a.draining = d, IsSettled(w, d),
           NEW nr \in Nat, NEW v, Drops(w, v, d, Internal("all", nr)),
           NEW join, NEW b, Counting(w, a, d, nr, join, b)
    PROVE  CountsOne(v, b, join)
<1> USE DEF Counting
<1> DEFINE h == Internal("all", nr)
           old == a.joins[nr]
<1>1. /\ WorldType(v) /\ Dom(v) = Dom(w)
      /\ \A q \in Dom(w) : St(v, q) = St(w, q)
  BY DEF Drops
<1>2. \A q \in Dom(w) : IsSettled(v, q) <=> IsSettled(w, q)
  BY <1>1 DEF IsSettled
<1>3. h \in Entries /\ h.kind = "all" /\ h.to = nr
  BY InternalIs
<1>4. nr \in 1 .. Len(a.joins) /\ IsInput(old, d)
  <2>1. 1 \in 1 .. Len(Qu(w, d)) /\ Qu(w, d)[1] = h
    BY DEF Drops
  <2>2. EntryOK(w, a, d, h)
    BY <2>1 DEF PInv, Targets
  <2> QED
    BY <1>3, <2>2 DEF EntryOK
<1>5. /\ old \in JoinType /\ old.to \in Dom(w) /\ JoinOK(w, nr, old)
      /\ a.joins \in Seq(JoinType) /\ Len(a.joins) \in Nat
  BY <1>4, PartsOfJoins DEF PInv, AroundType
<1>6. Cardinality(Slots(w, nr)) = old.remaining /\ IsFiniteSet(Slots(w, nr))
  BY <1>5 DEF JoinOK
<1>7. /\ IsFiniteSet(Slots(v, nr)) /\ Cardinality(Slots(v, nr)) \in Nat
      /\ Cardinality(Slots(w, nr)) = Cardinality(Slots(v, nr)) + 1
  BY <1>6, DropsSlots
<1>8. /\ join.to = old.to /\ join.inputs = old.inputs
      /\ join.remaining = old.remaining - 1
      /\ join.failed <=> old.failed \/ St(w, d) = "rejected"
      /\ join \in JoinType /\ old.remaining \in Int
  BY <1>5, CountedIs
<1>9. join.remaining = Cardinality(Slots(v, nr)) /\ old.remaining # 0 /\ join.remaining \in Nat
  <2> DEFINE n == Cardinality(Slots(v, nr))
             m == Cardinality(Slots(w, nr))
  <2>1. m = n + 1 /\ n \in Nat /\ m = old.remaining
    BY <1>6, <1>7
  <2>2. join.remaining = old.remaining - 1
    BY <1>8
  <2> HIDE DEF n, m, old
  <2>3. join.remaining = n /\ old.remaining # 0 /\ join.remaining \in Nat
    BY <2>1, <2>2
  <2> QED
    BY <2>3 DEF n
<1>10. ~IsSettled(w, old.to)
  BY <1>5, <1>9 DEF JoinOK
<1>11. /\ b.joins \in Seq(JoinType) /\ Len(b.joins) = Len(a.joins) /\ b.joins[nr] = join
       /\ \A j \in 1 .. Len(a.joins) : j # nr => b.joins[j] = a.joins[j]
  BY <1>4, <1>5, <1>8, ExceptSeq
<1>12. \A j \in 1 .. Len(a.joins) :
          b.joins[j].to = a.joins[j].to /\ b.joins[j].inputs = a.joins[j].inputs
  BY <1>8, <1>11
<1>13. /\ b.races = a.races /\ b.draining = d /\ b.handling = a.handling /\ b.own = a.own
       /\ b.calls = a.calls /\ b.heard = a.heard
  BY DEF OnlyJoins
<1>14. /\ \A p : JoinTo(b, p) <=> JoinTo(a, p)
       /\ \A p : RaceTo(b, p) <=> RaceTo(a, p)
       /\ Free(v, b) = Free(w, a)
  <2>1. /\ \A p : JoinTo(b, p) <=> JoinTo(a, p)
        /\ \A p : RaceTo(b, p) <=> RaceTo(a, p)
    BY <1>11, <1>12, <1>13 DEF JoinTo, RaceTo
  <2> QED
    BY <1>1, <2>1 DEF Free
<1> HIDE DEF old, h
<1>15. /\ \A q \in Dom(w) : \A f : Waits(v, q, f) => Waits(w, q, f)
       /\ \A q \in Dom(w) : \A f : Waits(w, q, f) => Waits(v, q, f) \/ (q = d /\ f = h)
  BY DropsWaits, Zenon DEF h
<1>16. \A q \in Dom(w) : \A k \in 1 .. Len(Qu(v, q)) :
         LET m == IF q = d THEN k + 1 ELSE k
         IN  m \in 1 .. Len(Qu(w, q)) /\ Qu(v, q)[k] = Qu(w, q)[m]
  <2>1. Drops(w, v, d, h)
    BY DEF h
  <2> QED
    BY <2>1, DropsPlaces
<1>17. AroundType(v, b)
  BY <1>1, <1>2, <1>11, <1>13 DEF PInv, AroundType
<1>18. Apart(v, b)
  BY <1>1, <1>11, <1>12, <1>13, <1>14 DEF PInv, Apart
<1>19. Targets(v, b)
  <2>1. ASSUME NEW q \in Dom(w), NEW k \in 1 .. Len(Qu(v, q)) PROVE EntryOK(v, b, q, Qu(v, q)[k])
    <3>1. \A m \in 1 .. Len(Qu(w, q)) : EntryOK(w, a, q, Qu(w, q)[m])
      BY DEF PInv, Targets
    <3>2. PICK f : f = Qu(v, q)[k] /\ EntryOK(w, a, q, f)
      BY <1>16, <3>1
    <3>3. /\ f.kind \in {"user", "follow"} => f.to \in Free(v, b)
          /\ f.kind = "all" =>
               /\ f = Internal("all", f.to) /\ f.to \in 1 .. Len(b.joins)
               /\ IsInput(b.joins[f.to], q)
      BY <1>11, <1>12, <1>14, <3>2 DEF EntryOK, IsInput
    <3>4. /\ f.kind = "first" =>
               f = Internal("first", f.to)
               /\ \E r \in 1 .. Len(b.races) : f.to = b.races[r].to /\ IsInput(b.races[r], q)
      BY <1>13, <3>2 DEF EntryOK
    <3>5. f.kind = "reject" =>
            \E r \in 1 .. Len(b.races) : f.to = b.races[r].to /\ q = b.joins[b.races[r].all].to
      <4>1. \A r \in 1 .. Len(a.races) : a.races[r].all \in 1 .. Len(a.joins)
        BY PartsOfJoins
      <4>2. f.kind = "reject" =>
              \E r \in 1 .. Len(a.races) : f.to = a.races[r].to /\ q = a.joins[a.races[r].all].to
        BY <3>2 DEF EntryOK
      <4> QED
        BY <1>12, <1>13, <4>1, <4>2
    <3> QED
      BY <3>2, <3>3, <3>4, <3>5 DEF EntryOK
  <2>2. b.own \subseteq Free(v, b) /\ (b.handling # NoEntry => b.handling.to \in Free(v, b))
    BY <1>13, <1>14 DEF PInv, Targets
  <2> QED
    BY <1>1, <2>1, <2>2 DEF Targets
<1>20. Numbered(v, b)
  <2>1. Numbered(v, a)
    BY DropsNumbers DEF PInv
  <2> QED
    BY <1>13, <2>1 DEF Numbered
<1>21. HeardOK(v, b)
  BY <1>1, <1>13 DEF PInv, HeardOK
<1>22. JoinOK(v, nr, join)
  <2>1. ASSUME NEW i \in 1 .. Len(join.inputs)
        PROVE  /\ join.inputs[i] \in Dom(v) /\ join.inputs[i] # join.to
               /\ \/ Waits(v, join.inputs[i], h)
                  \/ /\ IsSettled(v, join.inputs[i])
                     /\ St(v, join.inputs[i]) = "rejected" => join.failed
    <3> DEFINE q == join.inputs[i]
    <3>1. /\ q \in Dom(w) /\ q # old.to
          /\ \/ Waits(w, q, h)
             \/ IsSettled(w, q) /\ (St(w, q) = "rejected" => old.failed)
      BY <1>5, <1>8 DEF JoinOK, h
    <3> HIDE DEF q
    <3>2. CASE q = d
      BY <1>1, <1>2, <1>8, <3>1, <3>2 DEF q
    <3>3. CASE q # d
      BY <1>1, <1>2, <1>8, <1>15, <3>1, <3>3 DEF q
    <3> QED
      BY <3>2, <3>3
  <2>2. join.failed => \E i \in 1 .. Len(join.inputs) : St(v, join.inputs[i]) = "rejected"
    <3>1. CASE old.failed
      <4>1. PICK i \in 1 .. Len(old.inputs) : St(w, old.inputs[i]) = "rejected"
        BY <1>5, <3>1 DEF JoinOK
      <4>2. old.inputs[i] \in Dom(w)
        BY <1>5 DEF JoinOK
      <4> QED
        BY <1>1, <1>8, <4>1, <4>2
    <3>2. CASE St(w, d) = "rejected"
      BY <1>1, <1>4, <1>8, <3>2 DEF IsInput
    <3> QED
      BY <1>8, <3>1, <3>2
  <2>3. ~IsSettled(v, join.to)
    BY <1>2, <1>5, <1>8, <1>10
  <2> QED
    BY <1>7, <1>9, <2>1, <2>2, <2>3 DEF JoinOK, h
<1>23. ASSUME NEW j \in 1 .. Len(a.joins), j # nr PROVE JoinOK(v, j, a.joins[j])
  <2> DEFINE other == a.joins[j]
  <2>1. other.to \in Dom(w) /\ j \in Nat /\ JoinOK(w, j, other)
    BY PartsOfJoins
  <2>2. h # Internal("all", j)
    BY <1>3, <1>23, <2>1, InternalIs
  <2> HIDE DEF other
  <2>3. IsFiniteSet(Slots(w, j))
    BY <2>1 DEF JoinOK
  <2>4. IsFiniteSet(Slots(v, j)) /\ Cardinality(Slots(v, j)) = Cardinality(Slots(w, j))
    BY <2>1, <2>2, <2>3, DropsSlots DEF h
  <2>5. \A q \in Dom(w) : Waits(w, q, Internal("all", j)) => Waits(v, q, Internal("all", j))
    BY <1>15, <2>2
  <2>6. \A i \in 1 .. Len(other.inputs) :
         /\ other.inputs[i] \in Dom(v) /\ other.inputs[i] # other.to
         /\ \/ Waits(v, other.inputs[i], Internal("all", j))
            \/ /\ IsSettled(v, other.inputs[i])
               /\ St(v, other.inputs[i]) = "rejected" => other.failed
    BY <1>1, <1>2, <2>1, <2>5 DEF JoinOK
  <2>7. other.failed => \E i \in 1 .. Len(other.inputs) : St(v, other.inputs[i]) = "rejected"
    BY <1>1, <2>1 DEF JoinOK
  <2> QED
    BY <1>1, <1>2, <2>1, <2>4, <2>6, <2>7 DEF JoinOK, other
<1>24. ASSUME NEW r \in 1 .. Len(a.races) PROVE RaceOK(v, b, a.races[r])
  <2> DEFINE race == a.races[r]
             first == Internal("first", race.to)
  <2>1. /\ race.to \in Dom(w) /\ race.to \in Nat /\ race.all \in Nat /\ RaceOK(w, a, race)
        /\ \A i \in 1 .. Len(race.inputs) : race.inputs[i] \in Dom(w)
        /\ race.all \in 1 .. Len(a.joins)
    BY PartsOfJoins
  <2>2. h # first
    BY <1>3, <2>1, InternalIs
  <2> HIDE DEF race
  <2>3. \A q \in Dom(w) : Waits(v, q, first) <=> Waits(w, q, first)
    BY <1>15, <2>2
  <2> HIDE DEF first
  <2>4. \A i \in 1 .. Len(race.inputs) :
         /\ IsInput(b.joins[race.all], race.inputs[i])
         /\ \/ Waits(v, race.inputs[i], first)
            \/ /\ IsSettled(v, race.inputs[i])
               /\ St(v, race.inputs[i]) = "fulfilled" => IsSettled(v, race.to)
    BY <1>1, <1>2, <1>12, <2>1, <2>3, ZenonT(60) DEF RaceOK, IsInput, first
  <2>5. \A p \in Dom(v) : Waits(v, p, first) => d = p \/ Waits(v, p, Internal("all", race.all))
    BY <1>1, <1>15, <2>1, <2>3 DEF RaceOK, first
  <2>6. IsSettled(v, race.to) =>
         IF St(v, race.to) = "fulfilled"
           THEN \E i \in 1 .. Len(race.inputs) : St(v, race.inputs[i]) = "fulfilled"
           ELSE \A i \in 1 .. Len(race.inputs) : St(v, race.inputs[i]) = "rejected"
    BY <1>1, <1>2, <2>1 DEF RaceOK
  <2>7. RaceOK(v, b, race)
    BY <1>11, <1>13, <2>1, <2>4, <2>5, <2>6 DEF RaceOK, first
  <2> QED
    BY <2>7 DEF race
<1>25. PInv(v, b)
  <2>1. \A j \in 1 .. Len(b.joins) : JoinOK(v, j, b.joins[j])
    BY <1>11, <1>22, <1>23
  <2>2. \A r \in 1 .. Len(b.races) : RaceOK(v, b, b.races[r])
    BY <1>13, <1>24
  <2> QED
    BY <1>1, <1>17, <1>18, <1>19, <1>20, <1>21, <2>1, <2>2 DEF PInv
<1>26. ASSUME NEW s, join.remaining = 0, s = "fulfilled" <=> ~join.failed
       PROVE  MaySettleAs(v, b, join.to, s)
  <2>1. \A j \in 1 .. Len(b.joins) : join.to = b.joins[j].to => j = nr
    BY <1>4, <1>11, <1>18 DEF Apart
  <2>2. \A r \in 1 .. Len(b.races) : join.to # b.races[r].to
    BY <1>4, <1>11, <1>18 DEF Apart, RaceTo
  <2> QED
    BY <1>11, <1>26, <2>1, <2>2 DEF MaySettleAs
<1> QED
  BY <1>1, <1>5, <1>8, <1>9, <1>25, <1>26 DEF CountsOne

\* Settling and taking an entry do not disturb one another.
LEMMA SettleDrops ==
    ASSUME NEW w, WorldType(w), NEW d \in Dom(w), NEW h, NEW t, Drops(w, t, d, h),
           NEW p \in Dom(w), NEW s \in States, NEW x \in Int,
           NEW u, u = Settle(w, p, s, x), NEW v, v = Settle(t, p, s, x)
    PROVE  Drops(u, v, d, h)
<1>1. /\ WorldType(t) /\ Dom(t) = Dom(w) /\ \A q \in Dom(w) : St(t, q) = St(w, q)
  BY DEF Drops
<1>2. /\ WorldType(u) /\ Dom(u) = Dom(w)
      /\ \A q \in Dom(w) : Qu(u, q) = Qu(w, q)
      /\ \A q \in Dom(w) : q # p \/ IsSettled(w, q) => St(u, q) = St(w, q)
      /\ x # Nil => IsSettled(u, p)
      /\ ~IsSettled(w, p) /\ IsSettled(u, p) => St(u, p) = s
  BY SettleProps
<1>3. p \in Dom(t)
  BY <1>1
<1>4. /\ WorldType(v) /\ Dom(v) = Dom(t)
      /\ \A q \in Dom(t) : Qu(v, q) = Qu(t, q)
      /\ \A q \in Dom(t) : q # p \/ IsSettled(t, q) => St(v, q) = St(t, q)
      /\ x # Nil => IsSettled(v, p)
      /\ ~IsSettled(t, p) /\ IsSettled(v, p) => St(v, p) = s
  BY <1>1, <1>3, SettleProps
<1>5. \A q \in Dom(w) : IsSettled(t, q) <=> IsSettled(w, q)
  BY <1>1 DEF IsSettled
<1>6. \A q \in Dom(w) : St(v, q) = St(u, q)
  <2>1. \A q \in Dom(w) : q # p \/ IsSettled(w, q) => St(v, q) = St(u, q)
    BY <1>1, <1>2, <1>4, <1>5
  <2>2. CASE x = Nil
    <3>1. u = w /\ v = t
      BY <2>2 DEF Settle, MaySettle
    <3> QED
      BY <1>1, <3>1
  <2>3. CASE x # Nil
    <3>1. ~IsSettled(w, p) => St(v, p) = s /\ St(u, p) = s
      BY <1>2, <1>3, <1>4, <1>5, <2>3
    <3> QED
      BY <2>1, <3>1
  <2> QED
    BY <2>2, <2>3
<1> QED
  BY <1>1, <1>2, <1>4, <1>6 DEF Drops

-----------------------------------------------------------------------------
(* Promises: all() and race(). *)

\* The surroundings with other closures.
With(a, joins_, races_) ==
    [draining |-> a.draining, handling |-> a.handling, own |-> a.own, joins |-> joins_,
     races |-> races_, calls |-> a.calls, heard |-> a.heard]

LEMMA WithIs ==
    ASSUME NEW a, NEW js, NEW rs, NEW b, b = With(a, js, rs)
    PROVE  /\ b.draining = a.draining /\ b.handling = a.handling /\ b.own = a.own
           /\ b.joins = js /\ b.races = rs /\ b.calls = a.calls /\ b.heard = a.heard
BY DEF With

LEMMA JoinOfIs ==
    ASSUME NEW inputs \in Seq(Nat), NEW to \in Nat
    PROVE  /\ JoinOf(inputs, to) \in JoinType /\ JoinOf(inputs, to).to = to
           /\ JoinOf(inputs, to).inputs = inputs
           /\ JoinOf(inputs, to).remaining = Len(inputs) /\ Len(inputs) \in Nat
           /\ JoinOf(inputs, to).failed = FALSE
<1>1. Len(inputs) \in Nat
  OBVIOUS
<1>2. JoinOf(inputs, to) =
        [to |-> to, inputs |-> inputs, remaining |-> Len(inputs), failed |-> FALSE]
  BY DEF JoinOf
<1>3. Len(inputs) \in Int /\ FALSE \in BOOLEAN
  BY <1>1
<1> QED
  BY <1>1, <1>2, <1>3 DEF JoinType

\* A new closure of all(), before it has inputs.
LEMMA AddJoin ==
    ASSUME NEW w, NEW a, PInv(w, a), NEW n, Fresh(w, a, n),
           NEW b, b = With(a, Append(a.joins, JoinOf(<<>>, n)), a.races)
    PROVE  PInv(w, b) /\ \A q : q # n /\ Fresh(w, a, q) => Fresh(w, b, q)
<1> DEFINE l == Len(a.joins)
           new == JoinOf(<<>>, n)
<1>1. n \in Nat /\ n \in Dom(w) /\ ~IsSettled(w, n) /\ ~JoinTo(a, n) /\ ~RaceTo(a, n)
  BY DEF Fresh, Free
<1>2. /\ new \in JoinType /\ new.to = n /\ new.inputs = <<>> /\ new.remaining = 0
      /\ new.failed = FALSE
  <2>1. <<>> \in Seq(Nat) /\ Len(<<>>) = 0
    BY EmptySeq
  <2> QED
    BY <1>1, <2>1, JoinOfIs
<1>3. /\ b.draining = a.draining /\ b.handling = a.handling /\ b.own = a.own
      /\ b.joins = Append(a.joins, new) /\ b.races = a.races
      /\ b.calls = a.calls /\ b.heard = a.heard
  BY DEF With
<1>4. a.joins \in Seq(JoinType) /\ l \in Nat
  BY PartsOfJoins DEF PInv, AroundType
<1> HIDE DEF new
<1>5. /\ b.joins \in Seq(JoinType) /\ Len(b.joins) = l + 1 /\ b.joins[l + 1] = new
      /\ \A j \in 1 .. l : b.joins[j] = a.joins[j]
  <2>1. new \in JoinType /\ b.joins = Append(a.joins, new) /\ a.joins \in Seq(JoinType)
    BY <1>2, <1>3, <1>4
  <2> DEFINE s == a.joins
  <2> HIDE DEF s
  <2>2. s \in Seq(JoinType)
    BY <2>1 DEF s
  <2>3. /\ Append(s, new) \in Seq(JoinType) /\ Len(Append(s, new)) = Len(s) + 1
        /\ Append(s, new)[Len(s) + 1] = new
        /\ \A j \in 1 .. Len(s) : Append(s, new)[j] = s[j]
    BY <2>1, <2>2, AppendProperties
  <2> QED
    BY <2>1, <2>3 DEF s
<1> HIDE DEF l
<1>6. /\ \A j \in 1 .. l + 1 : j \in 1 .. l \/ j = l + 1
      /\ \A j \in 1 .. l : j \in 1 .. l + 1 /\ j # l + 1
      /\ l + 1 \in 1 .. l + 1
  BY <1>4
<1>7. /\ \A p : JoinTo(b, p) <=> JoinTo(a, p) \/ p = n
      /\ \A p : RaceTo(b, p) <=> RaceTo(a, p)
  <2>1. \A p : JoinTo(b, p) <=> \E j \in 1 .. l + 1 : b.joins[j].to = p
    BY <1>5 DEF JoinTo
  <2>2. \A p : JoinTo(a, p) <=> \E j \in 1 .. l : a.joins[j].to = p
    BY DEF JoinTo, l
  <2>3. \A p : RaceTo(b, p) <=> RaceTo(a, p)
    BY <1>3 DEF RaceTo
  <2> QED
    BY <1>2, <1>5, <1>6, <2>1, <2>2, <2>3
<1>8. Free(w, b) = Free(w, a) \ {n}
  BY <1>7 DEF Free
<1>9. WorldType(w) /\ Numbered(w, b) /\ HeardOK(w, b)
  BY <1>3 DEF PInv, Numbered, HeardOK
<1>10. AroundType(w, b)
  BY <1>3, <1>5 DEF PInv, AroundType
<1>11. Apart(w, b)
  <2>1. \A j \in 1 .. l : a.joins[j].to \in Dom(w) /\ ~RaceTo(a, a.joins[j].to) /\ a.joins[j].to # n
    BY <1>1 DEF PInv, Apart, JoinTo, l
  <2>2. \A i, j \in 1 .. l : a.joins[i].to = a.joins[j].to => i = j
    BY DEF PInv, Apart, l
  <2>3. \A j \in 1 .. l + 1 : b.joins[j].to \in Dom(w) /\ ~RaceTo(b, b.joins[j].to)
    BY <1>1, <1>2, <1>5, <1>6, <1>7, <2>1
  <2>4. \A i, j \in 1 .. l + 1 : b.joins[i].to = b.joins[j].to => i = j
    BY <1>2, <1>5, <1>6, <2>1, <2>2
  <2>5. /\ \A r \in 1 .. Len(b.races) : b.races[r].to \in Dom(w)
        /\ \A i, j \in 1 .. Len(b.races) : b.races[i].to = b.races[j].to => i = j
    BY <1>3 DEF PInv, Apart
  <2>6. /\ \A j \in 1 .. Len(b.joins) : b.joins[j].to \in Dom(w) /\ ~RaceTo(b, b.joins[j].to)
        /\ \A i, j \in 1 .. Len(b.joins) : b.joins[i].to = b.joins[j].to => i = j
    BY <1>5, <2>3, <2>4
  <2> QED
    BY <2>5, <2>6 DEF Apart
<1>12. Targets(w, b)
  <2>1. ASSUME NEW q \in Dom(w), NEW k \in 1 .. Len(Qu(w, q)) PROVE EntryOK(w, b, q, Qu(w, q)[k])
    <3>1. PICK f : f = Qu(w, q)[k] /\ EntryOK(w, a, q, f) /\ (f.to = n => f.kind = "all")
      BY DEF PInv, Targets, Fresh
    <3>2. f.kind \in {"user", "follow"} => f.to \in Free(w, b)
      BY <1>8, <3>1 DEF EntryOK
    <3>3. f.kind = "all" =>
             /\ f = Internal("all", f.to) /\ f.to \in 1 .. Len(b.joins)
             /\ IsInput(b.joins[f.to], q)
      BY <1>5, <1>6, <3>1 DEF EntryOK, l
    <3>4. f.kind = "first" =>
            f = Internal("first", f.to)
            /\ \E r \in 1 .. Len(b.races) : f.to = b.races[r].to /\ IsInput(b.races[r], q)
      BY <1>3, <3>1 DEF EntryOK
    <3>5. f.kind = "reject" =>
            \E r \in 1 .. Len(b.races) : f.to = b.races[r].to /\ q = b.joins[b.races[r].all].to
      <4>1. \A r \in 1 .. Len(a.races) : a.races[r].all \in 1 .. l
        BY PartsOfJoins DEF l
      <4>2. f.kind = "reject" =>
              \E r \in 1 .. Len(a.races) : f.to = a.races[r].to /\ q = a.joins[a.races[r].all].to
        BY <3>1 DEF EntryOK
      <4>3. ASSUME NEW r \in 1 .. Len(a.races), q = a.joins[a.races[r].all].to
            PROVE  b.races[r] = a.races[r] /\ q = b.joins[b.races[r].all].to
        <5>1. b.races[r] = a.races[r] /\ a.races[r].all \in 1 .. l
          BY <1>3, <4>1
        <5> QED
          BY <1>5, <4>3, <5>1
      <4>4. Len(b.races) = Len(a.races)
        BY <1>3
      <4> QED
        BY <4>2, <4>3, <4>4
    <3> QED
      BY <3>1, <3>2, <3>3, <3>4, <3>5 DEF EntryOK
  <2>2. b.own \subseteq Free(w, b) /\ (b.handling # NoEntry => b.handling.to \in Free(w, b))
    BY <1>3, <1>8 DEF PInv, Targets, Fresh
  <2> QED
    BY <2>1, <2>2 DEF Targets
<1>13. JoinOK(w, l + 1, new)
  <2>1. Slots(w, l + 1) = {}
    <3>1. ASSUME NEW s \in Slots(w, l + 1) PROVE FALSE
      <4>1. /\ s[1] \in Dom(w) /\ s[2] \in 1 .. Len(Qu(w, s[1]))
            /\ Qu(w, s[1])[s[2]] = Internal("all", l + 1)
        BY DEF Slots
      <4>2. EntryOK(w, a, s[1], Internal("all", l + 1))
        BY <4>1 DEF PInv, Targets
      <4>3. l + 1 \in Nat /\ l + 1 \notin 1 .. l
        BY <1>4
      <4>4. Internal("all", l + 1).kind = "all" /\ Internal("all", l + 1).to = l + 1
        BY <4>3, InternalIs
      <4> QED
        BY <4>2, <4>3, <4>4 DEF EntryOK, l
    <3> QED
      BY <3>1
  <2>2. IsFiniteSet(Slots(w, l + 1)) /\ Cardinality(Slots(w, l + 1)) = 0
    BY <2>1, FS_EmptySet
  <2>3. Len(new.inputs) = 0
    BY <1>2
  <2> QED
    BY <1>1, <1>2, <2>2, <2>3 DEF JoinOK
<1>14. \A j \in 1 .. Len(b.joins) : JoinOK(w, j, b.joins[j])
  BY <1>5, <1>6, <1>13 DEF PInv, l
<1>15. \A r \in 1 .. Len(b.races) : RaceOK(w, b, b.races[r])
  <2> SUFFICES ASSUME NEW r \in 1 .. Len(a.races) PROVE RaceOK(w, b, a.races[r])
    BY <1>3
  <2>1. RaceOK(w, a, a.races[r]) /\ a.races[r].all \in 1 .. l
    BY PartsOfJoins DEF l
  <2>2. b.joins[a.races[r].all] = a.joins[a.races[r].all] /\ a.races[r].all \in 1 .. l + 1
    BY <1>5, <1>6, <2>1
  <2> QED
    BY <1>3, <1>5, <2>1, <2>2 DEF RaceOK
<1>16. \A q : q # n /\ Fresh(w, a, q) => Fresh(w, b, q)
  BY <1>3, <1>8 DEF Fresh
<1> QED
  BY <1>9, <1>10, <1>11, <1>12, <1>14, <1>15, <1>16 DEF PInv

\* A new closure of race(), before it has inputs.
LEMMA AddRace ==
    ASSUME NEW w, NEW a, PInv(w, a), NEW n, Fresh(w, a, n), NEW all \in 1 .. Len(a.joins),
           NEW b, b = With(a, a.joins, Append(a.races, [to |-> n, inputs |-> <<>>, all |-> all]))
    PROVE  PInv(w, b)
<1> DEFINE l == Len(a.races)
           new == [to |-> n, inputs |-> <<>>, all |-> all]
<1>1. n \in Nat /\ n \in Dom(w) /\ ~IsSettled(w, n) /\ ~JoinTo(a, n) /\ ~RaceTo(a, n)
  BY DEF Fresh, Free
<1>2. new \in RaceType /\ new.to = n /\ new.inputs = <<>> /\ new.all = all
  <2>1. <<>> \in Seq(Nat) /\ all \in Nat
    BY EmptySeq, PartsOfJoins
  <2> QED
    BY <1>1, <2>1 DEF RaceType
<1> HIDE DEF new
<1>3. /\ b.draining = a.draining /\ b.handling = a.handling /\ b.own = a.own
      /\ b.races = Append(a.races, new) /\ b.joins = a.joins
      /\ b.calls = a.calls /\ b.heard = a.heard
  BY DEF With, new
<1>4. a.races \in Seq(RaceType) /\ l \in Nat
  BY PartsOfJoins DEF PInv, AroundType
<1>5. /\ b.races \in Seq(RaceType) /\ Len(b.races) = l + 1 /\ b.races[l + 1] = new
      /\ \A j \in 1 .. l : b.races[j] = a.races[j]
  <2>1. new \in RaceType /\ b.races = Append(a.races, new) /\ a.races \in Seq(RaceType)
    BY <1>2, <1>3, <1>4
  <2> DEFINE s == a.races
  <2> HIDE DEF s
  <2>2. s \in Seq(RaceType)
    BY <2>1 DEF s
  <2>3. /\ Append(s, new) \in Seq(RaceType) /\ Len(Append(s, new)) = Len(s) + 1
        /\ Append(s, new)[Len(s) + 1] = new
        /\ \A j \in 1 .. Len(s) : Append(s, new)[j] = s[j]
    BY <2>1, <2>2, AppendProperties
  <2> QED
    BY <2>1, <2>3 DEF s
<1> HIDE DEF l
<1>6. /\ \A j \in 1 .. l + 1 : j \in 1 .. l \/ j = l + 1
      /\ \A j \in 1 .. l : j \in 1 .. l + 1 /\ j # l + 1
      /\ l + 1 \in 1 .. l + 1
  BY <1>4
<1>7. /\ \A p : RaceTo(b, p) <=> RaceTo(a, p) \/ p = n
      /\ \A p : JoinTo(b, p) <=> JoinTo(a, p)
  <2>1. \A p : RaceTo(b, p) <=> \E j \in 1 .. l + 1 : b.races[j].to = p
    BY <1>5 DEF RaceTo
  <2>2. \A p : RaceTo(a, p) <=> \E j \in 1 .. l : a.races[j].to = p
    BY DEF RaceTo, l
  <2>3. \A p : JoinTo(b, p) <=> JoinTo(a, p)
    BY <1>3 DEF JoinTo
  <2> QED
    BY <1>2, <1>5, <1>6, <2>1, <2>2, <2>3
<1>8. Free(w, b) = Free(w, a) \ {n}
  BY <1>7 DEF Free
<1>9. WorldType(w) /\ Numbered(w, b) /\ HeardOK(w, b)
  BY <1>3, SMTT(30) DEF PInv, Numbered, HeardOK
<1>10. AroundType(w, b)
  BY <1>3, <1>5 DEF PInv, AroundType
<1>11. Apart(w, b)
  <2>1. \A j \in 1 .. l : a.races[j].to \in Dom(w) /\ a.races[j].to # n
    BY <1>1 DEF PInv, Apart, RaceTo, l
  <2>2. \A i, j \in 1 .. l : a.races[i].to = a.races[j].to => i = j
    BY DEF PInv, Apart, l
  <2>3. \A j \in 1 .. Len(a.joins) : a.joins[j].to \in Dom(w) /\ ~RaceTo(a, a.joins[j].to)
           /\ a.joins[j].to # n
    BY <1>1 DEF PInv, Apart, JoinTo
  <2>4. \A j \in 1 .. l + 1 : b.races[j].to \in Dom(w)
    BY <1>1, <1>2, <1>5, <1>6, <2>1
  <2>5. \A i, j \in 1 .. l + 1 : b.races[i].to = b.races[j].to => i = j
    BY <1>2, <1>5, <1>6, <2>1, <2>2
  <2>6. \A j \in 1 .. Len(b.joins) : b.joins[j].to \in Dom(w) /\ ~RaceTo(b, b.joins[j].to)
    BY <1>3, <1>7, <2>3
  <2>7. \A i, j \in 1 .. Len(b.joins) : b.joins[i].to = b.joins[j].to => i = j
    BY <1>3 DEF PInv, Apart
  <2> QED
    BY <1>5, <2>4, <2>5, <2>6, <2>7 DEF Apart
<1>12. Targets(w, b)
  <2>1. ASSUME NEW q \in Dom(w), NEW k \in 1 .. Len(Qu(w, q)) PROVE EntryOK(w, b, q, Qu(w, q)[k])
    <3>1. PICK f : f = Qu(w, q)[k] /\ EntryOK(w, a, q, f) /\ (f.to = n => f.kind = "all")
      BY DEF PInv, Targets, Fresh
    <3>2. f.kind \in {"user", "follow"} => f.to \in Free(w, b)
      BY <1>8, <3>1 DEF EntryOK
    <3>3. f.kind = "all" =>
             /\ f = Internal("all", f.to) /\ f.to \in 1 .. Len(b.joins)
             /\ IsInput(b.joins[f.to], q)
      BY <1>3, <3>1 DEF EntryOK
    <3>4. f.kind = "first" =>
            f = Internal("first", f.to)
            /\ \E r \in 1 .. Len(b.races) : f.to = b.races[r].to /\ IsInput(b.races[r], q)
      BY <1>5, <1>6, <3>1 DEF EntryOK, l
    <3>5. f.kind = "reject" =>
            \E r \in 1 .. Len(b.races) : f.to = b.races[r].to /\ q = b.joins[b.races[r].all].to
      <4>1. f.kind = "reject" =>
              \E r \in 1 .. l : f.to = a.races[r].to /\ q = a.joins[a.races[r].all].to
        BY <3>1 DEF EntryOK, l
      <4>2. \A r \in 1 .. l : r \in 1 .. Len(b.races) /\ b.races[r] = a.races[r]
        BY <1>5, <1>6
      <4>3. b.joins = a.joins
        BY <1>3
      <4> QED
        BY <4>1, <4>2, <4>3
    <3> QED
      BY <3>1, <3>2, <3>3, <3>4, <3>5 DEF EntryOK
  <2>2. b.own \subseteq Free(w, b) /\ (b.handling # NoEntry => b.handling.to \in Free(w, b))
    BY <1>3, <1>8 DEF PInv, Targets, Fresh
  <2> QED
    BY <2>1, <2>2 DEF Targets
<1>13. RaceOK(w, b, new)
  <2>1. \A q \in Dom(w) : ~Waits(w, q, Internal("first", n))
    <3> SUFFICES ASSUME NEW q \in Dom(w), NEW k \in 1 .. Len(Qu(w, q)),
                        Qu(w, q)[k] = Internal("first", n)
                 PROVE  FALSE
      BY DEF Waits
    <3>1. Internal("first", n).kind = "first" /\ Internal("first", n).to = n
      BY <1>1, InternalIs
    <3> QED
      BY <3>1 DEF Fresh
  <2>2. Len(new.inputs) = 0
    BY <1>2
  <2> QED
    BY <1>1, <1>2, <1>3, <2>1, <2>2 DEF RaceOK
<1>14. \A r \in 1 .. Len(b.races) : RaceOK(w, b, b.races[r])
  <2>1. \A r \in 1 .. l : RaceOK(w, b, a.races[r])
    BY <1>3 DEF PInv, RaceOK, l
  <2> QED
    BY <1>5, <1>6, <1>13, <2>1
<1>15. \A j \in 1 .. Len(b.joins) : JoinOK(w, j, b.joins[j])
  BY <1>3 DEF PInv
<1> QED
  BY <1>9, <1>10, <1>11, <1>12, <1>14, <1>15 DEF PInv

LEMMA Replaced ==
    ASSUME NEW S, NEW s \in Seq(S), NEW n \in 1 .. Len(s), NEW x \in S,
           NEW t, t = [s EXCEPT ![n] = x]
    PROVE  /\ t \in Seq(S) /\ Len(t) = Len(s) /\ t[n] = x
           /\ \A j \in 1 .. Len(s) : j # n => t[j] = s[j]
BY ExceptSeq

\* The handlers that were told, and their order, are not about closures.
LEMMA SameNumbered ==
    ASSUME NEW v, NEW a, NEW b, b.heard = a.heard, b.calls = a.calls, Numbered(v, a)
    PROVE  Numbered(v, b)
BY DEF Numbered

LEMMA SameHeard ==
    ASSUME NEW w, NEW v, NEW a, NEW b, b.heard = a.heard, b.calls = a.calls,
           Dom(w) \subseteq Dom(v), \A q \in Dom(w) : St(v, q) = St(w, q), HeardOK(w, a)
    PROVE  HeardOK(v, b)
BY DEF HeardOK

\* Closures that settle the same promises keep them apart.
LEMMA SameApart ==
    ASSUME NEW w, NEW v, NEW a, NEW b, Apart(w, a), Dom(w) \subseteq Dom(v),
           Len(b.joins) = Len(a.joins), Len(b.races) = Len(a.races),
           \A j \in 1 .. Len(a.joins) : b.joins[j].to = a.joins[j].to,
           \A r \in 1 .. Len(a.races) : b.races[r].to = a.races[r].to
    PROVE  Apart(v, b)
BY DEF Apart, RaceTo

\* One more element.
LEMMA OneMore ==
    ASSUME NEW S, IsFiniteSet(S), NEW x, x \notin S, NEW T, T = S \cup {x}
    PROVE  IsFiniteSet(T) /\ Cardinality(T) = Cardinality(S) + 1
BY FS_AddElement

\* all() adds an entry to one more input.
LEMMA GrowJoin ==
    ASSUME NEW w, NEW a, PInv(w, a), NEW n \in 1 .. Len(a.joins), NEW ins \in Seq(Nat),
           NEW to \in Nat, a.joins[n] = JoinOf(ins, to), ~IsSettled(w, to),
           NEW p \in Dom(w), p # to,
           NEW v, v = Register(w, p, Internal("all", n)),
           NEW b, b = With(a, [a.joins EXCEPT ![n] = JoinOf(Append(ins, p), to)], a.races)
    PROVE  PInv(v, b)
<1> DEFINE e == Internal("all", n)
           old == JoinOf(ins, to)
           new == JoinOf(Append(ins, p), to)
<1>1. n \in Nat /\ e \in Entries /\ e.kind = "all" /\ e.to = n
  BY InternalIs, PartsOfJoins
<1>2. p \in Nat /\ WorldType(w)
  BY DEF Dom, PInv
<1>3. /\ Append(ins, p) \in Seq(Nat) /\ Len(Append(ins, p)) = Len(ins) + 1
      /\ Append(ins, p)[Len(ins) + 1] = p
      /\ \A i \in 1 .. Len(ins) : Append(ins, p)[i] = ins[i]
  BY <1>2, AppendProperties
<1>4. /\ new \in JoinType /\ new.to = to /\ new.inputs = Append(ins, p)
      /\ new.remaining = Len(ins) + 1
  BY <1>3, JoinOfIs
<1>5. new.failed = FALSE /\ old.failed = FALSE
  BY DEF JoinOf
<1>6. old.to = to /\ old.inputs = ins /\ old.remaining = Len(ins) /\ Len(ins) \in Nat
  BY JoinOfIs
<1>7. /\ a.joins \in Seq(JoinType) /\ Len(a.joins) \in Nat
      /\ JoinOK(w, n, old) /\ to \in Dom(w)
  BY <1>6, PartsOfJoins DEF PInv, AroundType
<1> HIDE DEF new, old
<1>8. /\ b.draining = a.draining /\ b.handling = a.handling /\ b.own = a.own
      /\ b.joins = [a.joins EXCEPT ![n] = new] /\ b.races = a.races
      /\ b.calls = a.calls /\ b.heard = a.heard
  BY DEF With, new
<1>9. /\ b.joins \in Seq(JoinType) /\ Len(b.joins) = Len(a.joins) /\ b.joins[n] = new
      /\ \A j \in 1 .. Len(a.joins) : j # n => b.joins[j] = a.joins[j]
  <2> DEFINE s == a.joins
             t == b.joins
  <2>1. t = [s EXCEPT ![n] = new] /\ new \in JoinType /\ s \in Seq(JoinType) /\ n \in 1 .. Len(s)
    BY <1>4, <1>7, <1>8
  <2>2. t \in Seq(JoinType) /\ Len(t) = Len(s) /\ t[n] = new
        /\ \A j \in 1 .. Len(s) : j # n => t[j] = s[j]
    <3> HIDE DEF s, t
    <3> QED
      BY <2>1, Replaced
  <2> QED
    BY <2>2
<1>10. a.joins[n] = old
  BY DEF old
<1>11. \A j \in 1 .. Len(a.joins) : b.joins[j].to = a.joins[j].to
  BY <1>4, <1>6, <1>9, <1>10
<1>12. \A j \in 1 .. Len(a.joins) : \A q : IsInput(a.joins[j], q) => IsInput(b.joins[j], q)
  <2>1. \A q : IsInput(old, q) => IsInput(new, q)
    <3>1. \A i \in 1 .. Len(ins) : i \in 1 .. Len(ins) + 1
      BY <1>6
    <3> QED
      BY <1>3, <1>4, <1>6, <3>1 DEF IsInput
  <2> QED
    BY <1>9, <1>10, <2>1
<1>13. IsInput(new, p)
  <2>1. Len(ins) + 1 \in 1 .. Len(ins) + 1
    BY <1>6
  <2> QED
    BY <1>3, <1>4, <2>1 DEF IsInput
<1>14. /\ WorldType(v) /\ Dom(v) = Dom(w)
       /\ \A q \in Dom(w) : St(v, q) = St(w, q)
       /\ \A q \in Dom(w) : q # p => Qu(v, q) = Qu(w, q)
       /\ Qu(v, p) = Append(Qu(w, p), e) /\ Qu(w, p) \in Seq(Entries)
  <2>1. Attached(w, v, p, e)
    BY <1>1, <1>2, RegisterProps
  <2> QED
    BY <2>1 DEF Attached
<1>15. Adds(w, v, p, e)
  BY <1>1, <1>2, RegisterAdds
<1>16. /\ Grows(w, v)
       /\ \A q \in Dom(w) : \A f : Waits(v, q, f) <=> Waits(w, q, f) \/ (q = p /\ f = e)
  BY <1>15 DEF Adds
<1>17. /\ Slots(v, n) = Slots(w, n) \cup {<<p, Len(Qu(w, p)) + 1>>}
       /\ <<p, Len(Qu(w, p)) + 1>> \notin Slots(w, n)
  BY <1>1, <1>15 DEF Adds
<1>18. \A j \in Nat : j # n => Slots(v, j) = Slots(w, j)
  <2> SUFFICES ASSUME NEW j \in Nat, j # n PROVE Slots(v, j) = Slots(w, j)
    OBVIOUS
  <2>1. Internal("all", j).to = j
    BY InternalIs
  <2>2. e # Internal("all", j)
    BY <1>1, <2>1
  <2> HIDE DEF e
  <2> QED
    BY <1>15, <2>2 DEF Adds
<1> HIDE DEF e
<1>19. /\ \A q : JoinTo(b, q) <=> JoinTo(a, q)
       /\ \A q : RaceTo(b, q) <=> RaceTo(a, q)
       /\ Free(v, b) = Free(w, a)
  <2>1. /\ \A q : JoinTo(b, q) <=> JoinTo(a, q)
        /\ \A q : RaceTo(b, q) <=> RaceTo(a, q)
    BY <1>8, <1>9, <1>11 DEF JoinTo, RaceTo
  <2> QED
    BY <1>14, <2>1 DEF Free
<1>20. AroundType(v, b)
  BY <1>8, <1>9, <1>14 DEF PInv, AroundType, IsSettled
<1>21. Apart(v, b)
  <2>1. Apart(w, a) /\ Dom(w) \subseteq Dom(v)
    BY <1>14 DEF PInv
  <2> QED
    BY <1>8, <1>9, <1>11, <2>1, SameApart
<1>22. \A q \in Dom(w) : \A f : EntryOK(w, a, q, f) => EntryOK(v, b, q, f)
  <2> SUFFICES ASSUME NEW q \in Dom(w), NEW f, EntryOK(w, a, q, f) PROVE EntryOK(v, b, q, f)
    OBVIOUS
  <2>1. f.kind \in {"user", "follow"} => f.to \in Free(v, b)
    BY <1>19 DEF EntryOK
  <2>2. f.kind = "all" =>
           /\ f = Internal("all", f.to) /\ f.to \in 1 .. Len(b.joins)
           /\ IsInput(b.joins[f.to], q)
    BY <1>9, <1>12 DEF EntryOK
  <2>3. f.kind = "first" =>
          f = Internal("first", f.to)
          /\ \E r \in 1 .. Len(b.races) : f.to = b.races[r].to /\ IsInput(b.races[r], q)
    BY <1>8 DEF EntryOK
  <2>4. f.kind = "reject" =>
          \E r \in 1 .. Len(b.races) : f.to = b.races[r].to /\ q = b.joins[b.races[r].all].to
    <3>1. \A r \in 1 .. Len(a.races) : a.races[r].all \in 1 .. Len(a.joins)
      BY PartsOfJoins
    <3>2. f.kind = "reject" =>
            \E r \in 1 .. Len(a.races) : f.to = a.races[r].to /\ q = a.joins[a.races[r].all].to
      BY DEF EntryOK
    <3> QED
      BY <1>8, <1>11, <3>1, <3>2, ZenonT(60)
  <2> QED
    BY <2>1, <2>2, <2>3, <2>4 DEF EntryOK
<1>23. EntryOK(v, b, p, e)
  <2>1. e = Internal("all", e.to)
    BY <1>1 DEF e
  <2> QED
    BY <1>1, <1>9, <1>13, <2>1 DEF EntryOK
<1>24. Targets(v, b)
  <2>1. ASSUME NEW q \in Dom(w), NEW k \in 1 .. Len(Qu(v, q)) PROVE EntryOK(v, b, q, Qu(v, q)[k])
    <3>1. \A m \in 1 .. Len(Qu(w, q)) : EntryOK(v, b, q, Qu(w, q)[m])
      BY <1>22 DEF PInv, Targets
    <3>2. CASE q # p
      BY <1>14, <3>1, <3>2
    <3>3. CASE q = p
      <4>1. /\ k \in 1 .. Len(Qu(w, p)) + 1 /\ Qu(v, p)[Len(Qu(w, p)) + 1] = e
            /\ \A m \in 1 .. Len(Qu(w, p)) : Qu(v, p)[m] = Qu(w, p)[m]
            /\ k \in 1 .. Len(Qu(w, p)) \/ k = Len(Qu(w, p)) + 1
        <5>1. Qu(w, p) \in Seq(Entries) /\ Qu(v, p) = Append(Qu(w, p), e)
          BY <1>14
        <5> DEFINE u == Qu(w, p)
        <5> HIDE DEF u
        <5>2. /\ Len(Append(u, e)) = Len(u) + 1 /\ Len(u) \in Nat
              /\ Append(u, e)[Len(u) + 1] = e
              /\ \A m \in 1 .. Len(u) : Append(u, e)[m] = u[m]
              /\ \A m \in 1 .. Len(u) + 1 : m \in 1 .. Len(u) \/ m = Len(u) + 1
          <6>1. u \in Seq(Entries)
            BY <5>1 DEF u
          <6> QED
            BY <1>1, <6>1, Appended
        <5> QED
          BY <3>3, <5>1, <5>2 DEF u
      <4> QED
        BY <1>23, <3>1, <3>3, <4>1
    <3> QED
      BY <3>2, <3>3
  <2>2. b.own \subseteq Free(v, b) /\ (b.handling # NoEntry => b.handling.to \in Free(v, b))
    BY <1>8, <1>19 DEF PInv, Targets
  <2> QED
    BY <1>14, <2>1, <2>2 DEF Targets
<1>25. Numbered(v, b)
  <2>1. Numbered(w, a) /\ Numbered(v, a)
    <3>1. Numbered(w, a) /\ e.kind # "user" /\ v = Register(w, p, e)
      BY <1>1 DEF PInv, e
    <3> QED
      BY <1>1, <1>2, <3>1, RegisterNumbers
  <2> QED
    BY <1>8, <2>1, SameNumbered
<1>26. HeardOK(v, b)
  <2>1. HeardOK(w, a)
    BY DEF PInv
  <2> QED
    BY <1>8, <1>14, <2>1, SameHeard
<1>27. JoinOK(v, n, new)
  <2>1. IsFiniteSet(Slots(v, n)) /\ Cardinality(Slots(v, n)) = Len(ins) + 1
    <3>1. IsFiniteSet(Slots(w, n)) /\ Cardinality(Slots(w, n)) = Len(ins)
      BY <1>6, <1>7 DEF JoinOK
    <3> DEFINE x == <<p, Len(Qu(w, p)) + 1>>
               S == Slots(w, n)
               T == Slots(v, n)
    <3>2. IsFiniteSet(S) /\ T = S \cup {x} /\ x \notin S
      BY <1>17, <3>1
    <3>3. IsFiniteSet(T) /\ Cardinality(T) = Cardinality(S) + 1
      <4> HIDE DEF x, S, T
      <4> QED
        BY <3>2, OneMore
    <3> QED
      BY <3>1, <3>3
  <2>2. ASSUME NEW i \in 1 .. Len(ins) + 1
        PROVE  /\ new.inputs[i] \in Dom(v) /\ new.inputs[i] # new.to
               /\ \/ Waits(v, new.inputs[i], e)
                  \/ /\ IsSettled(v, new.inputs[i])
                     /\ St(v, new.inputs[i]) = "rejected" => new.failed
    <3>1. CASE i = Len(ins) + 1
      BY <1>3, <1>4, <1>14, <1>16, <3>1
    <3>2. CASE i \in 1 .. Len(ins)
      <4>1. /\ ins[i] \in Dom(w) /\ ins[i] # to
            /\ \/ Waits(w, ins[i], e)
               \/ IsSettled(w, ins[i]) /\ (St(w, ins[i]) = "rejected" => FALSE)
        BY <1>5, <1>6, <1>7, <3>2 DEF JoinOK, e
      <4>2. new.inputs[i] = ins[i] /\ new.to = to
        BY <1>3, <1>4, <3>2
      <4> QED
        BY <1>14, <1>16, <4>1, <4>2 DEF IsSettled
    <3> QED
      BY <1>6, <3>1, <3>2
  <2>3. ~IsSettled(v, new.to)
    BY <1>4, <1>7, <1>14 DEF IsSettled
  <2>4. Len(new.inputs) = Len(ins) + 1
    BY <1>3, <1>4
  <2> QED
    BY <1>4, <1>5, <2>1, <2>2, <2>3, <2>4 DEF JoinOK, e
<1>28. ASSUME NEW j \in 1 .. Len(a.joins), j # n PROVE JoinOK(v, j, a.joins[j])
  <2>1. a.joins[j].to \in Dom(w) /\ j \in Nat /\ JoinOK(w, j, a.joins[j])
    BY PartsOfJoins
  <2>2. IsSettled(v, a.joins[j].to) => IsSettled(w, a.joins[j].to)
    BY <1>14, <2>1 DEF IsSettled
  <2>3. Slots(v, j) = Slots(w, j)
    BY <1>18, <1>28, <2>1
  <2> QED
    BY <1>16, <2>1, <2>2, <2>3, JoinGrows
<1>29. ASSUME NEW r \in 1 .. Len(a.races) PROVE RaceOK(v, b, a.races[r])
  <2> DEFINE race == a.races[r]
             first == Internal("first", race.to)
  <2>1. /\ race.to \in Dom(w) /\ race.to \in Nat /\ race.all \in Nat /\ RaceOK(w, a, race)
        /\ race.all \in 1 .. Len(a.joins)
        /\ \A i \in 1 .. Len(race.inputs) : race.inputs[i] \in Dom(w)
    BY PartsOfJoins
  <2>2. IsSettled(v, race.to) => IsSettled(w, race.to)
    BY <1>14, <2>1 DEF IsSettled
  <2>3. \A q \in Dom(v) : Waits(v, q, first) =>
           \/ q \in Dom(w) /\ Waits(w, q, first)
           \/ a.draining = q \/ Waits(v, q, Internal("all", race.all))
    <3>1. e # first
      BY <1>1, <2>1, InternalIs
    <3> HIDE DEF race, first
    <3> QED
      BY <1>14, <1>16, <3>1
  <2> HIDE DEF race
  <2>4. RaceOK(v, a, race)
    BY <1>16, <2>1, <2>2, <2>3, RaceGrows
  <2>5. RaceOK(v, b, race)
    BY <1>8, <1>9, <1>12, <2>1, <2>4 DEF RaceOK
  <2> QED
    BY <2>5 DEF race
<1>30. \A j \in 1 .. Len(b.joins) : JoinOK(v, j, b.joins[j])
  BY <1>9, <1>27, <1>28
<1>31. \A r \in 1 .. Len(b.races) : RaceOK(v, b, b.races[r])
  BY <1>8, <1>29
<1> QED
  BY <1>14, <1>20, <1>21, <1>24, <1>25, <1>26, <1>30, <1>31 DEF PInv

RaceOf(inputs, to, all) == [to |-> to, inputs |-> inputs, all |-> all]

LEMMA RaceOfIs ==
    ASSUME NEW inputs \in Seq(Nat), NEW to \in Nat, NEW all \in Nat
    PROVE  /\ RaceOf(inputs, to, all) \in RaceType /\ RaceOf(inputs, to, all).to = to
           /\ RaceOf(inputs, to, all).inputs = inputs /\ RaceOf(inputs, to, all).all = all
BY DEF RaceOf, RaceType

\* race() adds an entry to one more input, behind that of its all().
LEMMA GrowRace ==
    ASSUME NEW w, NEW a, PInv(w, a), NEW n \in 1 .. Len(a.races), NEW ins \in Seq(Nat),
           NEW to \in Nat, NEW al \in Nat, a.races[n] = RaceOf(ins, to, al), ~IsSettled(w, to),
           NEW p \in Dom(w), IsInput(a.joins[al], p), Waits(w, p, Internal("all", al)),
           NEW v, v = Register(w, p, Internal("first", to)),
           NEW b, b = With(a, a.joins, [a.races EXCEPT ![n] = RaceOf(Append(ins, p), to, al)])
    PROVE  PInv(v, b)
<1> DEFINE e == Internal("first", to)
           old == RaceOf(ins, to, al)
           new == RaceOf(Append(ins, p), to, al)
<1>1. e \in Entries /\ e.kind = "first" /\ e.to = to
  BY InternalIs
<1>2. p \in Nat /\ WorldType(w)
  BY DEF Dom, PInv
<1>3. /\ Append(ins, p) \in Seq(Nat) /\ Len(Append(ins, p)) = Len(ins) + 1
      /\ Append(ins, p)[Len(ins) + 1] = p /\ Len(ins) \in Nat
      /\ \A i \in 1 .. Len(ins) : Append(ins, p)[i] = ins[i]
  BY <1>2, AppendProperties
<1>4. /\ new \in RaceType /\ new.to = to /\ new.inputs = Append(ins, p) /\ new.all = al
  <2> DEFINE more == Append(ins, p)
             x == RaceOf(more, to, al)
  <2>1. more \in Seq(Nat)
    BY <1>3
  <2>2. x \in RaceType /\ x.to = to /\ x.inputs = more /\ x.all = al
    <3> HIDE DEF more
    <3> QED
      BY <2>1, RaceOfIs
  <2> QED
    BY <2>2
<1>5. old.to = to /\ old.inputs = ins /\ old.all = al
  BY RaceOfIs
<1>6. a.races[n] = old
  OBVIOUS
<1>7. /\ a.races \in Seq(RaceType) /\ Len(a.races) \in Nat
      /\ RaceOK(w, a, old) /\ to \in Dom(w) /\ al \in 1 .. Len(a.joins)
  BY <1>5, <1>6, PartsOfJoins DEF PInv, AroundType
<1> HIDE DEF new, old
<1>8. /\ b.draining = a.draining /\ b.handling = a.handling /\ b.own = a.own
      /\ b.races = [a.races EXCEPT ![n] = new] /\ b.joins = a.joins
      /\ b.calls = a.calls /\ b.heard = a.heard
  BY DEF With, new
<1>9. /\ b.races \in Seq(RaceType) /\ Len(b.races) = Len(a.races) /\ b.races[n] = new
      /\ \A r \in 1 .. Len(a.races) : r # n => b.races[r] = a.races[r]
  <2> DEFINE s == a.races
             t == b.races
  <2>1. t = [s EXCEPT ![n] = new] /\ new \in RaceType /\ s \in Seq(RaceType) /\ n \in 1 .. Len(s)
    BY <1>4, <1>7, <1>8
  <2>2. t \in Seq(RaceType) /\ Len(t) = Len(s) /\ t[n] = new
        /\ \A r \in 1 .. Len(s) : r # n => t[r] = s[r]
    <3> HIDE DEF s, t
    <3> QED
      BY <2>1, Replaced
  <2> QED
    BY <2>2
<1>10. /\ b.draining = a.draining /\ b.handling = a.handling /\ b.own = a.own
       /\ b.joins = a.joins /\ b.calls = a.calls /\ b.heard = a.heard
  BY <1>8
<1>11. \A r \in 1 .. Len(a.races) :
         b.races[r].to = a.races[r].to /\ b.races[r].all = a.races[r].all
  BY <1>4, <1>5, <1>6, <1>9
<1>12. \A r \in 1 .. Len(a.races) : \A q : IsInput(a.races[r], q) => IsInput(b.races[r], q)
  <2>1. \A q : IsInput(old, q) => IsInput(new, q)
    <3>1. \A i \in 1 .. Len(ins) : i \in 1 .. Len(ins) + 1
      BY <1>3
    <3> QED
      BY <1>3, <1>4, <1>5, <3>1 DEF IsInput
  <2> QED
    BY <1>6, <1>9, <2>1
<1>13. IsInput(new, p)
  <2>1. Len(ins) + 1 \in 1 .. Len(ins) + 1
    BY <1>3
  <2> QED
    BY <1>3, <1>4, <2>1 DEF IsInput
<1>14. /\ WorldType(v) /\ Dom(v) = Dom(w)
       /\ \A q \in Dom(w) : St(v, q) = St(w, q)
       /\ \A q \in Dom(w) : q # p => Qu(v, q) = Qu(w, q)
       /\ Qu(v, p) = Append(Qu(w, p), e) /\ Qu(w, p) \in Seq(Entries)
  <2>1. Attached(w, v, p, e)
    BY <1>1, <1>2, RegisterProps
  <2> QED
    BY <2>1 DEF Attached
<1>15. Adds(w, v, p, e)
  BY <1>1, <1>2, RegisterAdds
<1>16. /\ Grows(w, v)
       /\ \A q \in Dom(w) : \A f : Waits(v, q, f) <=> Waits(w, q, f) \/ (q = p /\ f = e)
  BY <1>15 DEF Adds
<1>17. \A j \in Nat : Slots(v, j) = Slots(w, j)
  <2> SUFFICES ASSUME NEW j \in Nat PROVE Slots(v, j) = Slots(w, j)
    OBVIOUS
  <2>1. Internal("all", j).kind = "all"
    BY InternalIs
  <2>2. e # Internal("all", j)
    BY <1>1, <2>1
  <2> HIDE DEF e
  <2> QED
    BY <1>15, <2>2 DEF Adds
<1>18. \A j \in Nat : Internal("all", j) # e
  BY <1>1, InternalIs
<1> HIDE DEF e
<1>19. /\ \A q : JoinTo(b, q) <=> JoinTo(a, q)
       /\ \A q : RaceTo(b, q) <=> RaceTo(a, q)
       /\ Free(v, b) = Free(w, a)
  <2>1. \A q : JoinTo(b, q) <=> JoinTo(a, q)
    BY <1>10 DEF JoinTo
  <2>2. \A q : RaceTo(b, q) <=> RaceTo(a, q)
    BY <1>9, <1>11 DEF RaceTo
  <2> QED
    BY <1>14, <2>1, <2>2 DEF Free
<1>20. AroundType(v, b)
  <2>1. AroundType(w, a)
    BY DEF PInv
  <2> QED
    BY <1>9, <1>10, <1>14, <2>1 DEF AroundType, IsSettled
<1>21. Apart(v, b)
  <2>1. Apart(w, a) /\ Dom(w) \subseteq Dom(v)
    BY <1>14 DEF PInv
  <2> QED
    BY <1>9, <1>10, <1>11, <2>1, SameApart
<1>22. \A q \in Dom(w) : \A f : EntryOK(w, a, q, f) => EntryOK(v, b, q, f)
  <2> SUFFICES ASSUME NEW q \in Dom(w), NEW f, EntryOK(w, a, q, f) PROVE EntryOK(v, b, q, f)
    OBVIOUS
  <2>1. f.kind \in {"user", "follow"} => f.to \in Free(v, b)
    BY <1>19 DEF EntryOK
  <2>2. f.kind = "all" =>
           /\ f = Internal("all", f.to) /\ f.to \in 1 .. Len(b.joins)
           /\ IsInput(b.joins[f.to], q)
    BY <1>10 DEF EntryOK
  <2>3. f.kind = "first" =>
          f = Internal("first", f.to)
          /\ \E r \in 1 .. Len(b.races) : f.to = b.races[r].to /\ IsInput(b.races[r], q)
    BY <1>9, <1>11, <1>12 DEF EntryOK
  <2>4. f.kind = "reject" =>
          \E r \in 1 .. Len(b.races) : f.to = b.races[r].to /\ q = b.joins[b.races[r].all].to
    BY <1>9, <1>10, <1>11 DEF EntryOK
  <2> QED
    BY <2>1, <2>2, <2>3, <2>4 DEF EntryOK
<1>23. EntryOK(v, b, p, e)
  <2>1. e = Internal("first", e.to)
    BY <1>1 DEF e
  <2>2. n \in 1 .. Len(b.races) /\ e.to = b.races[n].to /\ IsInput(b.races[n], p)
    BY <1>1, <1>4, <1>9, <1>13
  <2> QED
    BY <1>1, <2>1, <2>2 DEF EntryOK
<1>24. Targets(v, b)
  <2>1. ASSUME NEW q \in Dom(w), NEW k \in 1 .. Len(Qu(v, q)) PROVE EntryOK(v, b, q, Qu(v, q)[k])
    <3>1. \A m \in 1 .. Len(Qu(w, q)) : EntryOK(v, b, q, Qu(w, q)[m])
      BY <1>22 DEF PInv, Targets
    <3>2. CASE q # p
      BY <1>14, <3>1, <3>2
    <3>3. CASE q = p
      <4>1. /\ k \in 1 .. Len(Qu(w, p)) + 1 /\ Qu(v, p)[Len(Qu(w, p)) + 1] = e
            /\ \A m \in 1 .. Len(Qu(w, p)) : Qu(v, p)[m] = Qu(w, p)[m]
            /\ k \in 1 .. Len(Qu(w, p)) \/ k = Len(Qu(w, p)) + 1
        <5>1. Qu(w, p) \in Seq(Entries) /\ Qu(v, p) = Append(Qu(w, p), e)
          BY <1>14
        <5> DEFINE u == Qu(w, p)
        <5> HIDE DEF u
        <5>2. /\ Len(Append(u, e)) = Len(u) + 1 /\ Len(u) \in Nat
              /\ Append(u, e)[Len(u) + 1] = e
              /\ \A m \in 1 .. Len(u) : Append(u, e)[m] = u[m]
              /\ \A m \in 1 .. Len(u) + 1 : m \in 1 .. Len(u) \/ m = Len(u) + 1
          <6>1. u \in Seq(Entries)
            BY <5>1 DEF u
          <6> QED
            BY <1>1, <6>1, Appended
        <5> QED
          BY <3>3, <5>1, <5>2 DEF u
      <4> QED
        BY <1>23, <3>1, <3>3, <4>1
    <3> QED
      BY <3>2, <3>3
  <2>2. b.own \subseteq Free(v, b) /\ (b.handling # NoEntry => b.handling.to \in Free(v, b))
    BY <1>10, <1>19 DEF PInv, Targets
  <2> QED
    BY <1>14, <2>1, <2>2 DEF Targets
<1>25. Numbered(v, b)
  <2>1. Numbered(v, a)
    <3>1. Numbered(w, a) /\ e.kind # "user" /\ v = Register(w, p, e)
      BY <1>1 DEF PInv, e
    <3> QED
      BY <1>1, <1>2, <3>1, RegisterNumbers
  <2> QED
    BY <1>10, <2>1, SameNumbered
<1>26. HeardOK(v, b)
  <2>1. HeardOK(w, a)
    BY DEF PInv
  <2> QED
    BY <1>10, <1>14, <2>1, SameHeard
<1>27. RaceOK(v, b, new)
  <2>1. \A q \in Dom(v) : Waits(v, q, e) => b.draining = q \/ Waits(v, q, Internal("all", al))
    <3>1. \A q \in Dom(w) : Waits(w, q, e) => a.draining = q \/ Waits(w, q, Internal("all", al))
      BY <1>5, <1>7 DEF RaceOK, e
    <3> QED
      BY <1>10, <1>14, <1>16, <3>1
  <2>2. ASSUME NEW i \in 1 .. Len(ins) + 1
        PROVE  /\ IsInput(b.joins[al], new.inputs[i])
               /\ \/ Waits(v, new.inputs[i], e)
                  \/ /\ IsSettled(v, new.inputs[i])
                     /\ St(v, new.inputs[i]) = "fulfilled" => IsSettled(v, to)
    <3>1. CASE i = Len(ins) + 1
      BY <1>3, <1>4, <1>10, <1>16, <3>1
    <3>2. CASE i \in 1 .. Len(ins)
      <4>1. /\ IsInput(a.joins[al], ins[i])
            /\ \/ Waits(w, ins[i], e)
               \/ IsSettled(w, ins[i]) /\ (St(w, ins[i]) = "fulfilled" => IsSettled(w, to))
        BY <1>5, <1>7, <3>2 DEF RaceOK, e
      <4>2. new.inputs[i] = ins[i] /\ ins[i] \in Dom(w)
        <5>1. a.races[n].inputs[i] \in Dom(w)
          BY <1>5, <1>6, <3>2, PartsOfJoins
        <5> QED
          BY <1>3, <1>4, <1>5, <1>6, <3>2, <5>1
      <4> QED
        BY <1>7, <1>10, <1>14, <1>16, <4>1, <4>2 DEF IsSettled
    <3> QED
      BY <1>3, <3>1, <3>2
  <2>3. ~IsSettled(v, to)
    BY <1>7, <1>14 DEF IsSettled
  <2>4. Len(new.inputs) = Len(ins) + 1
    BY <1>3, <1>4
  <2> QED
    BY <1>4, <1>7, <1>10, <2>1, <2>2, <2>3, <2>4 DEF RaceOK, e
<1>28. ASSUME NEW r \in 1 .. Len(a.races), r # n PROVE RaceOK(v, b, a.races[r])
  <2> DEFINE race == a.races[r]
             first == Internal("first", race.to)
  <2>1. /\ race.to \in Dom(w) /\ race.to \in Nat /\ race.all \in Nat /\ RaceOK(w, a, race)
        /\ race.all \in 1 .. Len(a.joins)
        /\ \A i \in 1 .. Len(race.inputs) : race.inputs[i] \in Dom(w)
    BY PartsOfJoins
  <2>2. IsSettled(v, race.to) => IsSettled(w, race.to)
    BY <1>14, <2>1 DEF IsSettled
  <2>3. \A q \in Dom(v) : Waits(v, q, first) =>
           \/ q \in Dom(w) /\ Waits(w, q, first)
           \/ a.draining = q \/ Waits(v, q, Internal("all", race.all))
    <3>1. e # first
      <4>1. race.to # to
        BY <1>5, <1>6, <1>28 DEF PInv, Apart
      <4> QED
        BY <1>1, <2>1, <4>1, InternalIs
    <3> HIDE DEF race, first
    <3> QED
      BY <1>14, <1>16, <3>1
  <2> HIDE DEF race
  <2>4. RaceOK(v, a, race)
    BY <1>16, <2>1, <2>2, <2>3, RaceGrows
  <2>5. RaceOK(v, b, race)
    BY <1>10, <2>4 DEF RaceOK
  <2> QED
    BY <2>5 DEF race
<1>29. ASSUME NEW j \in 1 .. Len(a.joins) PROVE JoinOK(v, j, a.joins[j])
  <2>1. a.joins[j].to \in Dom(w) /\ j \in Nat /\ JoinOK(w, j, a.joins[j])
    BY PartsOfJoins
  <2>2. IsSettled(v, a.joins[j].to) => IsSettled(w, a.joins[j].to)
    BY <1>14, <2>1 DEF IsSettled
  <2> QED
    BY <1>16, <1>17, <2>1, <2>2, JoinGrows
<1>30. \A r \in 1 .. Len(b.races) : RaceOK(v, b, b.races[r])
  BY <1>9, <1>27, <1>28
<1>31. \A j \in 1 .. Len(b.joins) : JoinOK(v, j, b.joins[j])
  BY <1>10, <1>29
<1> QED
  BY <1>14, <1>20, <1>21, <1>24, <1>25, <1>26, <1>30, <1>31 DEF PInv

\* The worlds that RegisterAll goes through.
Registers(f, w, c, e, l) ==
    f = [n \in 0 .. l |-> IF n = 0 THEN w ELSE Register(f[n - 1], c[n], e)]
Registering(w, c, e, l) == CHOOSE f : Registers(f, w, c, e, l)

LEMMA RegisteringExists ==
    ASSUME NEW w, NEW c, NEW e, NEW l \in Nat
    PROVE  \E f : Registers(f, w, c, e, l)
<1> DEFINE step(f, n) == IF n = 0 THEN w ELSE Register(f[n - 1], c[n], e)
           Defined(k, f) == f = [n \in 0 .. k |-> step(f, n)]
           S == {k \in Nat : \E f : Defined(k, f)}
<1>1. 0 \in S
  <2> DEFINE start == [n \in 0 .. 0 |-> w]
  <2>1. Defined(0, start)
    OBVIOUS
  <2> HIDE DEF Defined, start
  <2> QED
    BY <2>1
<1>2. ASSUME NEW k \in Nat, k \in S PROVE k + 1 \in S
  <2>1. PICK f : Defined(k, f)
    BY <1>2
  <2> DEFINE g == [n \in 0 .. k + 1 |-> step(f, n)]
             h == [n \in 0 .. k + 1 |-> step(g, n)]
  <2>2. \A n \in 0 .. k + 1 : g[n] = step(f, n)
    OBVIOUS
  <2>3. \A n \in 0 .. k : f[n] = step(f, n)
    BY <2>1, Zenon
  <2>4. 0 .. k \subseteq 0 .. k + 1
    OBVIOUS
  <2>5. \A n \in 0 .. k : g[n] = f[n]
    <3> HIDE DEF step, g
    <3> QED
      BY <2>2, <2>3, <2>4
  <2>6. \A n \in 0 .. k + 1 : n # 0 => n - 1 \in 0 .. k
    OBVIOUS
  <2>7. \A n \in 0 .. k + 1 : h[n] = g[n]
    <3> SUFFICES ASSUME NEW n \in 0 .. k + 1 PROVE h[n] = g[n]
      OBVIOUS
    <3>1. h[n] = step(g, n)
      <4> HIDE DEF step
      <4> QED
        OBVIOUS
    <3>2. g[n] = step(f, n)
      BY <2>2
    <3> HIDE DEF g, h
    <3>3. n # 0 => g[n - 1] = f[n - 1]
      BY <2>5, <2>6
    <3> QED
      BY <3>1, <3>2, <3>3
  <2>8. g = h
    <3> HIDE DEF step
    <3>1. g = [n \in 0 .. k + 1 |-> g[n]]
      OBVIOUS
    <3>2. h = [n \in 0 .. k + 1 |-> h[n]]
      <4> HIDE DEF g
      <4> QED
        OBVIOUS
    <3> HIDE DEF g, h
    <3> QED
      BY <2>7, <3>1, <3>2
  <2>9. Defined(k + 1, g)
    BY <2>8, Zenon
  <2> HIDE DEF g, h, Defined
  <2> QED
    BY <2>9
<1> HIDE DEF S
<1>3. \A k \in Nat : k \in S
  BY <1>1, <1>2, SetInduction
<1>4. \E f : Defined(l, f)
  BY <1>3, Zenon DEF S
<1> QED
  BY <1>4, Zenon DEF Registers

LEMMA RegisteringIs ==
    ASSUME NEW w, NEW c, Len(c) \in Nat, NEW e
    PROVE  /\ RegisterAll(w, c, e) = Registering(w, c, e, Len(c))[Len(c)]
           /\ Registering(w, c, e, Len(c))[0] = w
           /\ \A n \in 1 .. Len(c) :
                 Registering(w, c, e, Len(c))[n] = Register(Registering(w, c, e, Len(c))[n - 1], c[n], e)
<1> DEFINE l == Len(c)
           F == Registering(w, c, e, l)
<1>1. F = [n \in 0 .. l |-> IF n = 0 THEN w ELSE Register(F[n - 1], c[n], e)]
  <2>1. l \in Nat
    OBVIOUS
  <2>2. \E f : Registers(f, w, c, e, l)
    BY <2>1, RegisteringExists
  <2>3. Registers(F, w, c, e, l)
    <3> HIDE DEF l
    <3> QED
      BY <2>2 DEF Registering
  <2> QED
    BY <2>3, Zenon DEF Registers
<1>2. RegisterAll(w, c, e) = F[l]
  BY DEF RegisterAll, Registering, Registers
<1> HIDE DEF F
<1>3. \A n \in 0 .. l : F[n] = IF n = 0 THEN w ELSE Register(F[n - 1], c[n], e)
  BY <1>1, Zenon
<1>4. l \in Nat
  OBVIOUS
<1> HIDE DEF l
<1>5. F[0] = w /\ \A n \in 1 .. l : F[n] = Register(F[n - 1], c[n], e)
  <2>1. 0 \in 0 .. l /\ \A n \in 1 .. l : n \in 0 .. l /\ n # 0
    BY <1>4
  <2> QED
    BY <1>3, <2>1
<1> QED
  BY <1>2, <1>5 DEF F, l

\* The first k inputs.
Inputs(c, k) == SubSeq(c, 1, k)

LEMMA InputsGrow ==
    ASSUME NEW c \in Seq(Nat)
    PROVE  /\ Len(c) \in Nat /\ Inputs(c, 0) = <<>> /\ Inputs(c, Len(c)) = c
           /\ \A k \in 0 .. Len(c) : Inputs(c, k) \in Seq(Nat)
           /\ \A k \in Nat : k + 1 <= Len(c) =>
                 Inputs(c, k + 1) = Append(Inputs(c, k), c[k + 1])
<1>1. Len(c) \in Nat
  OBVIOUS
<1>2. Inputs(c, 0) = <<>>
  BY SubSeqProperties, EmptySeq, SMT DEF Inputs
<1>3. Inputs(c, Len(c)) = c
  BY SubSeqFull DEF Inputs
<1>4. \A k \in 0 .. Len(c) : Inputs(c, k) \in Seq(Nat)
  BY DEF Inputs
<1>5. ASSUME NEW k \in Nat, k + 1 <= Len(c)
      PROVE  Inputs(c, k + 1) = Append(Inputs(c, k), c[k + 1])
  BY <1>1, <1>5 DEF Inputs
<1> QED
  BY <1>1, <1>2, <1>3, <1>4, <1>5

\* all() and race() as far as their inputs are done.
Joined(a, n, inputs, to) == With(a, [a.joins EXCEPT ![n] = JoinOf(inputs, to)], a.races)
Raced(a, n, inputs, to, al) == With(a, a.joins, [a.races EXCEPT ![n] = RaceOf(inputs, to, al)])

LEMMA ReplacedTwice ==
    ASSUME NEW s, NEW n, NEW x, NEW y, NEW t, t = [s EXCEPT ![n] = x]
    PROVE  [t EXCEPT ![n] = y] = [s EXCEPT ![n] = y]
OBVIOUS

LEMMA JoinedIs ==
    ASSUME NEW a, a.joins \in Seq(JoinType), NEW n \in 1 .. Len(a.joins),
           NEW inputs \in Seq(Nat), NEW to \in Nat, NEW b, b = Joined(a, n, inputs, to)
    PROVE  /\ n \in 1 .. Len(b.joins) /\ b.joins[n] = JoinOf(inputs, to)
           /\ \A more : Joined(b, n, more, to) = Joined(a, n, more, to)
<1> DEFINE s == a.joins
           t == b.joins
           x == JoinOf(inputs, to)
<1>1. x \in JoinType
  BY JoinOfIs
<1>2. /\ t = [s EXCEPT ![n] = x] /\ b.races = a.races
      /\ b.draining = a.draining /\ b.handling = a.handling /\ b.own = a.own
      /\ b.calls = a.calls /\ b.heard = a.heard
  BY DEF Joined, With
<1> HIDE DEF x, t
<1>3. Len(t) = Len(s) /\ t[n] = x
  <2> HIDE DEF s
  <2>1. s \in Seq(JoinType) /\ n \in 1 .. Len(s)
    BY DEF s
  <2> QED
    BY <1>1, <1>2, <2>1, Replaced
<1>4. ASSUME NEW more PROVE Joined(b, n, more, to) = Joined(a, n, more, to)
  <2> DEFINE y == JoinOf(more, to)
  <2> HIDE DEF y, s
  <2>1. [t EXCEPT ![n] = y] = [s EXCEPT ![n] = y]
    BY <1>2, ReplacedTwice
  <2> QED
    BY <1>2, <2>1 DEF Joined, With, t, s, y
<1> QED
  BY <1>3, <1>4 DEF t, x

LEMMA RacedIs ==
    ASSUME NEW a, a.races \in Seq(RaceType), NEW n \in 1 .. Len(a.races),
           NEW inputs \in Seq(Nat), NEW to \in Nat, NEW al \in Nat,
           NEW b, b = Raced(a, n, inputs, to, al)
    PROVE  /\ n \in 1 .. Len(b.races) /\ b.races[n] = RaceOf(inputs, to, al)
           /\ b.joins = a.joins
           /\ \A more : Raced(b, n, more, to, al) = Raced(a, n, more, to, al)
<1> DEFINE s == a.races
           t == b.races
           x == RaceOf(inputs, to, al)
<1>1. x \in RaceType
  BY RaceOfIs
<1>2. /\ t = [s EXCEPT ![n] = x] /\ b.joins = a.joins
      /\ b.draining = a.draining /\ b.handling = a.handling /\ b.own = a.own
      /\ b.calls = a.calls /\ b.heard = a.heard
  BY DEF Raced, With
<1> HIDE DEF x, t
<1>3. Len(t) = Len(s) /\ t[n] = x
  <2> HIDE DEF s
  <2>1. s \in Seq(RaceType) /\ n \in 1 .. Len(s)
    BY DEF s
  <2> QED
    BY <1>1, <1>2, <2>1, Replaced
<1>4. ASSUME NEW more PROVE Raced(b, n, more, to, al) = Raced(a, n, more, to, al)
  <2> DEFINE y == RaceOf(more, to, al)
  <2> HIDE DEF y, s
  <2>1. [t EXCEPT ![n] = y] = [s EXCEPT ![n] = y]
    BY <1>2, ReplacedTwice
  <2> QED
    BY <1>2, <2>1 DEF Raced, With, t, s, y
<1> QED
  BY <1>2, <1>3, <1>4 DEF t, x

LEMMA WorldParts ==
    ASSUME NEW w, WorldType(w), NEW p \in Dom(w)
    PROVE  /\ p \in Nat /\ p > 0 /\ Len(w.promises) \in Nat
           /\ Qu(w, p) \in Seq(Entries) /\ Val(w, p) \in Int
           /\ St(w, p) \in {"pending"} \cup States
<1>1. w.promises \in Seq(PromiseType) /\ p \in Nat /\ p > 0 /\ p \in 1 .. Len(w.promises)
  BY DEF WorldType, Dom
<1>2. w.promises[p] \in PromiseType
  BY <1>1, ElementOfSeq
<1> QED
  BY <1>1, <1>2 DEF PromiseType, Qu, Val, St

\* What user code owns, the calls it made and whether it runs do not disturb the rest.
LEMMA CallStays ==
    ASSUME NEW w, NEW a, PInv(w, a), NEW c,
           c.draining = a.draining, c.handling \in {a.handling, NoEntry},
           c.own \subseteq Free(w, a), c.joins = a.joins, c.races = a.races,
           c.calls \in Nat, a.calls <= c.calls, c.heard = a.heard
    PROVE  PInv(w, c)
<1>1. /\ WorldType(w) /\ AroundType(w, a) /\ Apart(w, a) /\ Targets(w, a)
      /\ Numbered(w, a) /\ HeardOK(w, a)
      /\ \A j \in 1 .. Len(a.joins) : JoinOK(w, j, a.joins[j])
      /\ \A r \in 1 .. Len(a.races) : RaceOK(w, a, a.races[r])
  BY DEF PInv
<1>2. AroundType(w, c)
  BY <1>1 DEF AroundType
<1>3. Free(w, c) = Free(w, a) /\ \A q : RaceTo(c, q) <=> RaceTo(a, q)
  BY DEF Free, JoinTo, RaceTo
<1>4. Apart(w, c)
  BY <1>1, <1>3 DEF Apart
<1>5. \A q \in Dom(w) : \A f : EntryOK(w, a, q, f) => EntryOK(w, c, q, f)
  BY <1>3 DEF EntryOK
<1>6. Targets(w, c)
  BY <1>1, <1>3, <1>5 DEF Targets
<1>7. Numbered(w, c)
  <2> SUFFICES ASSUME NEW p \in Dom(w), NEW k \in 1 .. Len(Qu(w, p)), Qu(w, p)[k].kind = "user"
               PROVE  /\ Qu(w, p)[k].nr <= c.calls
                      /\ \A l \in 1 .. Len(Qu(w, p)) : l < k /\ Qu(w, p)[l].kind = "user" =>
                            Qu(w, p)[l].nr < Qu(w, p)[k].nr
                      /\ \A i \in 1 .. Len(a.heard) : a.heard[i].of = p =>
                            a.heard[i].nr < Qu(w, p)[k].nr
    BY DEF Numbered
  <2>1. /\ Qu(w, p)[k].nr <= a.calls
        /\ \A l \in 1 .. Len(Qu(w, p)) : l < k /\ Qu(w, p)[l].kind = "user" =>
              Qu(w, p)[l].nr < Qu(w, p)[k].nr
        /\ \A i \in 1 .. Len(a.heard) : a.heard[i].of = p => a.heard[i].nr < Qu(w, p)[k].nr
    BY <1>1 DEF Numbered
  <2>2. Qu(w, p)[k].nr \in Nat /\ a.calls \in Nat
    <3>1. Qu(w, p) \in Seq(Entries)
      BY <1>1, WorldParts
    <3>2. Qu(w, p)[k] \in Entries
      BY <3>1
    <3> QED
      BY <1>1, <3>2 DEF Entries, AroundType
  <2> QED
    BY <2>1, <2>2
<1>8. HeardOK(w, c)
  <2>1. \A i \in 1 .. Len(a.heard) : a.heard[i].nr \in Nat
    <3>1. a.heard \in Seq([of : Nat, nr : Nat, state : States])
      BY <1>1 DEF AroundType
    <3>2. ASSUME NEW i \in 1 .. Len(a.heard) PROVE a.heard[i].nr \in Nat
      <4>1. a.heard[i] \in [of : Nat, nr : Nat, state : States]
        BY <3>1, ElementOfSeq
      <4> QED
        BY <4>1
    <3> QED
      BY <3>2
  <2>2. a.calls \in Nat /\ c.calls \in Nat /\ a.calls <= c.calls
    BY <1>1 DEF AroundType
  <2>3. \A i \in 1 .. Len(a.heard) : a.heard[i].nr <= c.calls
    BY <1>1, <2>1, <2>2 DEF HeardOK
  <2> QED
    BY <1>1, <2>3 DEF HeardOK
<1>9. \A r \in 1 .. Len(a.races) : RaceOK(w, c, a.races[r])
  BY <1>1 DEF RaceOK
<1> QED
  BY <1>1, <1>2, <1>4, <1>6, <1>7, <1>8, <1>9 DEF PInv

LEMMA SameAround ==
    ASSUME NEW w, NEW a, PInv(w, a), NEW c, c = With(a, a.joins, a.races)
    PROVE  PInv(w, c)
<1>1. a.calls \in Nat /\ a.own \subseteq Free(w, a)
  BY DEF PInv, AroundType, Targets
<1>2. /\ c.draining = a.draining /\ c.handling = a.handling /\ c.own = a.own
      /\ c.joins = a.joins /\ c.races = a.races /\ c.calls = a.calls /\ c.heard = a.heard
  BY WithIs
<1> QED
  BY <1>1, <1>2, CallStays

\* all() adds its entry to every input.
LEMMA RegisterJoins ==
    ASSUME NEW w, NEW a, PInv(w, a), NEW n \in 1 .. Len(a.joins), NEW to \in Nat,
           a.joins[n] = JoinOf(<<>>, to), ~IsSettled(w, to), NEW inputs \in Seq(Nat),
           \A i \in 1 .. Len(inputs) : inputs[i] \in Dom(w) /\ inputs[i] # to,
           NEW v, v = RegisterAll(w, inputs, Internal("all", n)),
           NEW b, b = Joined(a, n, inputs, to)
    PROVE  /\ PInv(v, b) /\ Dom(v) = Dom(w) /\ \A q \in Dom(w) : St(v, q) = St(w, q)
           /\ \A i \in 1 .. Len(inputs) : Waits(v, inputs[i], Internal("all", n))
<1> DEFINE e == Internal("all", n)
           F == Registering(w, inputs, e, Len(inputs))
           Around_(k) == Joined(a, n, Inputs(inputs, k), to)
           Done(k) == /\ PInv(F[k], Around_(k)) /\ Dom(F[k]) = Dom(w)
                      /\ \A q \in Dom(w) : St(F[k], q) = St(w, q)
                      /\ \A i \in 1 .. k : Waits(F[k], inputs[i], e)
           S == {k \in Nat : k <= Len(inputs) => Done(k)}
<1>1. /\ Len(inputs) \in Nat /\ v = F[Len(inputs)] /\ F[0] = w
      /\ \A k \in 1 .. Len(inputs) : F[k] = Register(F[k - 1], inputs[k], e)
  <2>1. Len(inputs) \in Nat
    OBVIOUS
  <2>2. v = RegisterAll(w, inputs, e)
    OBVIOUS
  <2> HIDE DEF e
  <2> QED
    BY <2>1, <2>2, RegisteringIs
<1> HIDE DEF F
<1>2. a.joins \in Seq(JoinType) /\ e \in Entries /\ to \in Dom(w) /\ JoinOf(<<>>, to).to = to
  <2>1. n \in Nat /\ a.joins \in Seq(JoinType)
    BY PartsOfJoins DEF PInv, AroundType
  <2>2. <<>> \in Seq(Nat)
    OBVIOUS
  <2>3. JoinOf(<<>>, to).to = to
    BY <2>2, JoinOfIs
  <2> QED
    BY <2>1, <2>3, InternalIs, PartsOfJoins
<1>3. /\ Inputs(inputs, 0) = <<>> /\ Inputs(inputs, Len(inputs)) = inputs
      /\ \A k \in 0 .. Len(inputs) : Inputs(inputs, k) \in Seq(Nat)
      /\ \A k \in Nat : k + 1 <= Len(inputs) =>
            Inputs(inputs, k + 1) = Append(Inputs(inputs, k), inputs[k + 1])
  BY InputsGrow
<1>4. 0 \in S
  <2>1. Around_(0) = With(a, a.joins, a.races)
    <3> DEFINE s == a.joins
               x == JoinOf(<<>>, to)
    <3>1. s[n] = x /\ s \in Seq(JoinType)
      BY <1>2
    <3>2. [s EXCEPT ![n] = x] = s
      <4> HIDE DEF s, x
      <4> QED
        BY <3>1
    <3> QED
      BY <1>3, <3>2 DEF Joined
  <2>2. PInv(w, With(a, a.joins, a.races))
    BY SameAround
  <2>3. Done(0)
    <3> HIDE DEF Around_
    <3> QED
      BY <1>1, <2>1, <2>2
  <2> QED
    BY <2>3
<1>5. ASSUME NEW k \in Nat, k \in S PROVE k + 1 \in S
  <2> SUFFICES ASSUME k + 1 <= Len(inputs) PROVE Done(k + 1)
    OBVIOUS
  <2> DEFINE u == F[k]
             t == F[k + 1]
             c == Around_(k)
             ins == Inputs(inputs, k)
             p == inputs[k + 1]
  <2>1. /\ k + 1 \in 1 .. Len(inputs) /\ k \in 0 .. Len(inputs) /\ (k + 1) - 1 = k
        /\ \A i \in 1 .. k + 1 : i \in 1 .. k \/ i = k + 1
        /\ \A i \in 1 .. k : i \in 1 .. Len(inputs)
    BY <1>1
  <2>2. /\ PInv(u, c) /\ Dom(u) = Dom(w) /\ \A q \in Dom(w) : St(u, q) = St(w, q)
        /\ \A i \in 1 .. k : Waits(u, inputs[i], e)
    BY <1>5, <2>1
  <2>3. t = Register(u, p, e) /\ p \in Dom(w) /\ p # to
    BY <1>1, <2>1
  <2>4. ins \in Seq(Nat) /\ Inputs(inputs, k + 1) = Append(ins, p)
    BY <1>3, <2>1
  <2>5. /\ n \in 1 .. Len(c.joins) /\ c.joins[n] = JoinOf(ins, to)
        /\ Joined(c, n, Append(ins, p), to) = Joined(a, n, Append(ins, p), to)
    <3>1. c = Joined(a, n, ins, to)
      OBVIOUS
    <3> HIDE DEF c, ins, p, Around_
    <3> QED
      BY <1>2, <2>4, <3>1, JoinedIs
  <2>6. Around_(k + 1) = With(c, [c.joins EXCEPT ![n] = JoinOf(Append(ins, p), to)], c.races)
    <3>1. Around_(k + 1) = Joined(c, n, Append(ins, p), to)
      BY <2>4, <2>5
    <3> HIDE DEF c, Around_, ins, p
    <3> QED
      BY <3>1 DEF Joined
  <2> DEFINE d == Around_(k + 1)
  <2> HIDE DEF u, t, c, ins, p, d, Around_
  <2>7. ~IsSettled(u, to) /\ p \in Dom(u)
    BY <1>2, <2>2, <2>3 DEF IsSettled
  <2>8. PInv(t, d)
    BY <2>2, <2>3, <2>4, <2>5, <2>6, <2>7, GrowJoin DEF d, e
  <2>9. Attached(u, t, p, e) /\ Adds(u, t, p, e)
    <3>1. WorldType(u)
      BY <2>2 DEF PInv
    <3> QED
      BY <1>2, <2>3, <2>7, <3>1, RegisterProps, RegisterAdds
  <2>10. Dom(t) = Dom(w) /\ \A q \in Dom(w) : St(t, q) = St(w, q)
    BY <2>2, <2>9 DEF Attached
  <2>11. \A i \in 1 .. k + 1 : Waits(t, inputs[i], e)
    <3>1. \A i \in 1 .. k : inputs[i] \in Dom(w)
      BY <2>1
    <3>2. Waits(t, p, e)
      BY <2>7, <2>9 DEF Adds
    <3>3. \A i \in 1 .. k : Waits(t, inputs[i], e)
      BY <2>2, <2>9, <3>1 DEF Adds
    <3> QED
      BY <2>1, <3>2, <3>3 DEF p
  <2> QED
    BY <2>8, <2>10, <2>11 DEF d, t
<1> HIDE DEF S
<1>6. \A k \in Nat : k \in S
  BY <1>4, <1>5, SetInduction
<1>7. Done(Len(inputs))
  BY <1>1, <1>6 DEF S
<1> QED
  BY <1>1, <1>3, <1>7

\* race() adds its entry to every input, each of which its all() has not counted yet.
LEMMA RegisterRaces ==
    ASSUME NEW w, NEW a, PInv(w, a), NEW n \in 1 .. Len(a.races), NEW to \in Nat,
           NEW al \in Nat, a.races[n] = RaceOf(<<>>, to, al), ~IsSettled(w, to),
           NEW inputs \in Seq(Nat),
           \A i \in 1 .. Len(inputs) :
              /\ inputs[i] \in Dom(w) /\ IsInput(a.joins[al], inputs[i])
              /\ Waits(w, inputs[i], Internal("all", al)),
           NEW v, v = RegisterAll(w, inputs, Internal("first", to)),
           NEW b, b = Raced(a, n, inputs, to, al)
    PROVE  PInv(v, b)
<1> DEFINE e == Internal("first", to)
           g == Internal("all", al)
           F == Registering(w, inputs, e, Len(inputs))
           Around_(k) == Raced(a, n, Inputs(inputs, k), to, al)
           Done(k) == /\ PInv(F[k], Around_(k)) /\ Dom(F[k]) = Dom(w)
                      /\ ~IsSettled(F[k], to)
                      /\ \A i \in 1 .. Len(inputs) : Waits(F[k], inputs[i], g)
           S == {k \in Nat : k <= Len(inputs) => Done(k)}
<1>1. /\ Len(inputs) \in Nat /\ v = F[Len(inputs)] /\ F[0] = w
      /\ \A k \in 1 .. Len(inputs) : F[k] = Register(F[k - 1], inputs[k], e)
  <2>1. Len(inputs) \in Nat
    OBVIOUS
  <2>2. v = RegisterAll(w, inputs, e)
    OBVIOUS
  <2> HIDE DEF e
  <2> QED
    BY <2>1, <2>2, RegisteringIs
<1> HIDE DEF F
<1>2. a.races \in Seq(RaceType) /\ e \in Entries /\ g \in Entries /\ to \in Dom(w)
  <2>1. a.races \in Seq(RaceType)
    BY DEF PInv, AroundType
  <2>2. a.races[n].to = to
    BY DEF RaceOf
  <2>3. to \in Dom(w)
    BY <2>2, PartsOfJoins
  <2>4. e \in Entries /\ g \in Entries
    BY InternalIs
  <2> QED
    BY <2>1, <2>3, <2>4
<1>3. /\ Inputs(inputs, 0) = <<>> /\ Inputs(inputs, Len(inputs)) = inputs
      /\ \A k \in 0 .. Len(inputs) : Inputs(inputs, k) \in Seq(Nat)
      /\ \A k \in Nat : k + 1 <= Len(inputs) =>
            Inputs(inputs, k + 1) = Append(Inputs(inputs, k), inputs[k + 1])
  BY InputsGrow
<1>4. 0 \in S
  <2>1. Around_(0) = With(a, a.joins, a.races)
    <3> DEFINE s == a.races
               x == RaceOf(<<>>, to, al)
    <3>1. s[n] = x /\ s \in Seq(RaceType)
      BY <1>2
    <3>2. [s EXCEPT ![n] = x] = s
      <4> HIDE DEF s, x
      <4> QED
        BY <3>1
    <3> QED
      BY <1>3, <3>2 DEF Raced
  <2>2. PInv(w, With(a, a.joins, a.races))
    BY SameAround
  <2>3. Done(0)
    <3> HIDE DEF Around_
    <3> QED
      BY <1>1, <2>1, <2>2
  <2> QED
    BY <2>3
<1>5. ASSUME NEW k \in Nat, k \in S PROVE k + 1 \in S
  <2> SUFFICES ASSUME k + 1 <= Len(inputs) PROVE Done(k + 1)
    OBVIOUS
  <2> DEFINE u == F[k]
             t == F[k + 1]
             c == Around_(k)
             ins == Inputs(inputs, k)
             p == inputs[k + 1]
  <2>1. /\ k + 1 \in 1 .. Len(inputs) /\ k \in 0 .. Len(inputs) /\ (k + 1) - 1 = k
    BY <1>1
  <2>2. /\ PInv(u, c) /\ Dom(u) = Dom(w) /\ ~IsSettled(u, to)
        /\ \A i \in 1 .. Len(inputs) : Waits(u, inputs[i], g)
    BY <1>5, <2>1
  <2>3. /\ t = Register(u, p, e) /\ p \in Dom(w) /\ IsInput(a.joins[al], p)
        /\ Waits(u, p, g)
    BY <1>1, <2>1, <2>2
  <2>4. ins \in Seq(Nat) /\ Inputs(inputs, k + 1) = Append(ins, p)
    BY <1>3, <2>1
  <2>5. /\ n \in 1 .. Len(c.races) /\ c.races[n] = RaceOf(ins, to, al) /\ c.joins = a.joins
        /\ Raced(c, n, Append(ins, p), to, al) = Raced(a, n, Append(ins, p), to, al)
    <3>1. c = Raced(a, n, ins, to, al)
      OBVIOUS
    <3> HIDE DEF c, ins, p, Around_
    <3> QED
      BY <1>2, <2>4, <3>1, RacedIs, SMTT(30)
  <2>6. Around_(k + 1) =
          With(c, c.joins, [c.races EXCEPT ![n] = RaceOf(Append(ins, p), to, al)])
    <3>1. Around_(k + 1) = Raced(c, n, Append(ins, p), to, al)
      BY <2>4, <2>5
    <3> HIDE DEF c, Around_, ins, p
    <3> QED
      BY <3>1 DEF Raced
  <2> DEFINE d == Around_(k + 1)
  <2> HIDE DEF u, t, c, ins, p, d, Around_
  <2>7. p \in Dom(u) /\ IsInput(c.joins[al], p)
    BY <2>2, <2>3, <2>5
  <2>8. PInv(t, d)
    BY <2>2, <2>3, <2>4, <2>5, <2>6, <2>7, GrowRace DEF d, e, g
  <2>9. Attached(u, t, p, e) /\ Adds(u, t, p, e)
    <3>1. WorldType(u)
      BY <2>2 DEF PInv
    <3> QED
      BY <1>2, <2>3, <2>7, <3>1, RegisterProps, RegisterAdds
  <2>10. Dom(t) = Dom(w) /\ ~IsSettled(t, to)
    BY <1>2, <2>2, <2>9 DEF Attached, IsSettled
  <2>11. \A i \in 1 .. Len(inputs) : Waits(t, inputs[i], g)
    BY <2>2, <2>9 DEF Adds
  <2> QED
    BY <2>8, <2>10, <2>11 DEF d, t
<1> HIDE DEF S
<1>6. \A k \in Nat : k \in S
  BY <1>4, <1>5, SetInduction
<1>7. Done(Len(inputs))
  BY <1>1, <1>6 DEF S
<1> QED
  BY <1>1, <1>3, <1>7

\* all() settles at once when it has no inputs.
LEMMA FinishJoin ==
    ASSUME NEW w, NEW a, PInv(w, a), NEW n \in 1 .. Len(a.joins), NEW to \in Nat,
           a.joins[n] = JoinOf(<<>>, to), ~IsSettled(w, to), NEW inputs \in Seq(Nat),
           \A i \in 1 .. Len(inputs) : inputs[i] \in Dom(w) /\ inputs[i] # to,
           NEW v, v = FinishAll(RegisterAll(w, inputs, Internal("all", n)), JoinOf(inputs, to)),
           NEW b, b = Joined(a, n, inputs, to)
    PROVE  /\ PInv(v, b) /\ Dom(v) = Dom(w) /\ \A q \in Dom(w) : q # to => St(v, q) = St(w, q)
           /\ \A i \in 1 .. Len(inputs) : Waits(v, inputs[i], Internal("all", n))
<1> DEFINE t == RegisterAll(w, inputs, Internal("all", n))
           join == JoinOf(inputs, to)
<1>1. /\ PInv(t, b) /\ Dom(t) = Dom(w) /\ \A q \in Dom(w) : St(t, q) = St(w, q)
      /\ \A i \in 1 .. Len(inputs) : Waits(t, inputs[i], Internal("all", n))
  BY RegisterJoins
<1>2. join.to = to /\ join.remaining = Len(inputs) /\ join.failed = FALSE /\ Len(inputs) \in Nat
  BY JoinOfIs, ZenonT(30)
<1>3. CASE join.remaining > 0
  BY <1>1, <1>3 DEF FinishAll
<1>4. CASE ~(join.remaining > 0)
  <2>1. Len(inputs) = 0
    BY <1>2, <1>4
  <2>2. v = Settle(t, to, "fulfilled", Plain)
    BY <1>2, <1>4 DEF FinishAll
  <2>3. n \in 1 .. Len(b.joins) /\ b.joins[n] = join
    <3>1. a.joins \in Seq(JoinType)
      BY DEF PInv, AroundType
    <3> HIDE DEF t
    <3> QED
      BY <3>1, JoinedIs
  <2> HIDE DEF t, join
  <2>4. to \in Dom(t) /\ WorldType(t) /\ "fulfilled" \in States /\ Plain \in Int
    <3>1. b.joins[n].to \in Dom(t)
      BY <1>1, <2>3, PartsOfJoins
    <3> QED
      BY <1>1, <1>2, <2>3, <3>1 DEF PInv, States, Plain
  <2>5. MaySettleAs(t, b, to, "fulfilled")
    <3>1. /\ \A i, j \in 1 .. Len(b.joins) : b.joins[i].to = b.joins[j].to => i = j
          /\ \A j \in 1 .. Len(b.joins) : ~RaceTo(b, b.joins[j].to)
      BY <1>1 DEF PInv, Apart
    <3>2. \A j \in 1 .. Len(b.joins) : to = b.joins[j].to =>
             b.joins[j].remaining = 0 /\ ~b.joins[j].failed
      <4>1. join.remaining = 0 /\ ~join.failed /\ b.joins[n].to = to
        BY <1>2, <2>1, <2>3
      <4>2. \A j \in 1 .. Len(b.joins) : to = b.joins[j].to => j = n
        BY <2>3, <3>1, <4>1
      <4> QED
        BY <2>3, <4>1, <4>2
    <3>3. \A r \in 1 .. Len(b.races) : to # b.races[r].to
      <4>1. b.joins[n].to = to
        BY <1>2, <2>3
      <4>2. ~RaceTo(b, to)
        BY <2>3, <3>1, <4>1
      <4> QED
        BY <4>2 DEF RaceTo
    <3> QED
      BY <3>2, <3>3 DEF MaySettleAs
  <2>6. PInv(v, b)
    BY <1>1, <2>2, <2>4, <2>5, SettleStep
  <2>7. Dom(v) = Dom(t) /\ \A q \in Dom(t) : q # to => St(v, q) = St(t, q)
    BY <2>2, <2>4, SettleProps
  <2> QED
    BY <1>1, <2>1, <2>6, <2>7
<1> QED
  BY <1>3, <1>4

\* The last of a longer sequence, and what replaces it.
LEMMA ReplaceLast ==
    ASSUME NEW S, NEW s \in Seq(S), NEW y \in S, NEW t \in Seq(S), NEW n, n = Len(s) + 1,
           Len(t) = n, \A i \in 1 .. Len(s) : t[i] = s[i]
    PROVE  [t EXCEPT ![n] = y] = Append(s, y)
<1> DEFINE u == [t EXCEPT ![n] = y]
           z == Append(s, y)
<1>1. Len(s) \in Nat
  OBVIOUS
<1>2. /\ z \in Seq(S) /\ Len(z) = n /\ z[n] = y
      /\ \A i \in 1 .. Len(s) : z[i] = s[i]
  BY AppendProperties
<1>3. n \in 1 .. Len(t) /\ \A i \in 1 .. n : i \in 1 .. Len(s) \/ i = n
  BY <1>1
<1> HIDE DEF z
<1>4. /\ u \in Seq(S) /\ Len(u) = Len(t) /\ u[n] = y
      /\ \A i \in 1 .. Len(t) : i # n => u[i] = t[i]
  <2>1. u = [t EXCEPT ![n] = y]
    OBVIOUS
  <2> HIDE DEF u
  <2> QED
    BY <1>3, <2>1, Replaced
<1> HIDE DEF u
<1>5. \A i \in 1 .. Len(u) : u[i] = z[i]
  <2>1. \A i \in 1 .. Len(s) : i # n /\ i \in 1 .. n
    BY <1>1
  <2> QED
    BY <1>2, <1>3, <1>4, <2>1
<1>6. u = z
  BY <1>2, <1>4, <1>5, SeqEqual
<1> QED
  BY <1>6 DEF u, z

Longer(S, s, x, y, t) ==
    /\ Len(s) \in Nat /\ Len(t) = Len(s) + 1 /\ Len(s) + 1 \in 1 .. Len(t)
    /\ t \in Seq(S) /\ t[Len(s) + 1] = x /\ [t EXCEPT ![Len(s) + 1] = y] = Append(s, y)

LEMMA LastOf ==
    ASSUME NEW S, NEW s \in Seq(S), NEW x \in S, NEW y \in S, NEW t, t = Append(s, x)
    PROVE  Longer(S, s, x, y, t)
<1> DEFINE n == Len(s) + 1
<1>1. Len(s) \in Nat
  OBVIOUS
<1>2. /\ t \in Seq(S) /\ Len(t) = n /\ t[n] = x
      /\ \A i \in 1 .. Len(s) : t[i] = s[i]
  BY AppendProperties
<1>3. [t EXCEPT ![n] = y] = Append(s, y)
  BY <1>2, ReplaceLast
<1> QED
  BY <1>1, <1>2, <1>3 DEF Longer

-----------------------------------------------------------------------------
(* Promises: the calls of user code. *)

\* A call that owns and joins nothing new, or what is named.
OneCall(a, b) ==
    /\ b.draining = a.draining /\ b.handling = a.handling /\ b.heard = a.heard
    /\ b.calls = a.calls + 1

LEMMA SettleKeeps ==
    ASSUME NEW w, NEW a, PInv(w, a), NEW v, PInv(v, a), Dom(v) = Dom(w),
           NEW b, OneCall(a, b), b.own = a.own, b.joins = a.joins, b.races = a.races
    PROVE  PInv(v, b)
<1>1. a.own \subseteq Free(v, a) /\ a.calls \in Nat
  BY DEF PInv, Targets, AroundType
<1> QED
  BY <1>1, CallStays DEF OneCall

LEMMA MakeKeeps ==
    ASSUME NEW w, NEW a, PInv(w, a), NEW v, v = New(w),
           NEW b, OneCall(a, b), b.own = a.own \cup {Newest(v)}, b.joins = a.joins,
           b.races = a.races
    PROVE  PInv(v, b)
<1>1. PInv(v, a) /\ Fresh(v, a, Newest(v))
  BY NewStep
<1>2. b.own \subseteq Free(v, a) /\ a.calls \in Nat
  BY <1>1 DEF PInv, Targets, AroundType, Fresh
<1> QED
  BY <1>1, <1>2, CallStays DEF OneCall

LEMMA NextKeeps ==
    ASSUME NEW w, NEW a, PInv(w, a), NEW p \in Dom(w), NEW on \in SUBSET States,
           NEW u, u = New(w), NEW v,
           v = Register(u, p, Entry("user", Newest(u), on, a.calls + 1)),
           NEW b, OneCall(a, b), b.own = a.own, b.joins = a.joins, b.races = a.races
    PROVE  PInv(v, b) /\ Dom(v) = Dom(u)
<1> DEFINE n == Newest(u)
           e == Entry("user", n, on, a.calls + 1)
<1>1. PInv(u, a) /\ Fresh(u, a, n) /\ p \in Dom(u)
  BY NewStep
<1>2. a.own \subseteq Free(u, a) /\ a.calls \in Nat
  BY <1>1 DEF PInv, Targets, AroundType
<1>3. PInv(u, b)
  BY <1>1, <1>2, CallStays DEF OneCall
<1>4. /\ e.kind = "user" /\ e.to = n /\ e.nr = b.calls
      /\ e \in Entries
  BY <1>1, <1>2 DEF Entry, Entries, OneCall, Fresh
<1>5. n \in Free(u, b)
  BY <1>1 DEF Fresh, Free, JoinTo, RaceTo
<1> HIDE DEF e, n
<1>6. MayRegister(u, b, p, e)
  <2>1. EntryOK(u, b, p, e)
    BY <1>4, <1>5 DEF EntryOK
  <2>2. ASSUME NEW k \in 1 .. Len(Qu(u, p)), Qu(u, p)[k].kind = "user"
        PROVE  Qu(u, p)[k].nr < e.nr
    <3>1. Qu(u, p) \in Seq(Entries)
      BY <1>1, WorldParts DEF PInv
    <3>2. Qu(u, p)[k].nr \in Nat
      <4>1. Qu(u, p)[k] \in Entries
        BY <3>1
      <4> QED
        BY <4>1 DEF Entries
    <3>3. Qu(u, p)[k].nr <= a.calls
      BY <1>1, <2>2 DEF PInv, Numbered
    <3> QED
      BY <1>2, <1>4, <3>2, <3>3 DEF OneCall
  <2>3. ASSUME NEW i \in 1 .. Len(b.heard) PROVE b.heard[i].nr < e.nr
    <3>1. a.heard \in Seq([of : Nat, nr : Nat, state : States])
      BY DEF PInv, AroundType
    <3>2. b.heard[i] \in [of : Nat, nr : Nat, state : States]
      BY <3>1, ElementOfSeq DEF OneCall
    <3>3. b.heard[i].nr \in Nat
      BY <3>2
    <3>4. b.heard[i].nr <= a.calls
      BY DEF PInv, HeardOK, OneCall
    <3> QED
      BY <1>2, <1>4, <3>3, <3>4 DEF OneCall
  <2>4. e.nr <= b.calls
    BY <1>2, <1>4 DEF OneCall
  <2> QED
    BY <1>4, <2>1, <2>2, <2>3, <2>4 DEF MayRegister
<1>7. v = Register(u, p, e)
  BY DEF e, n
<1>8. PInv(v, b)
  BY <1>1, <1>3, <1>4, <1>6, <1>7, RegisterStep
<1>9. Attached(u, v, p, e)
  BY <1>1, <1>4, <1>7, RegisterProps DEF PInv
<1> QED
  BY <1>8, <1>9 DEF Attached

LEMMA AllKeeps ==
    ASSUME NEW w, NEW a, PInv(w, a), NEW inputs \in Seq(Nat),
           \A i \in 1 .. Len(inputs) : inputs[i] \in Dom(w),
           NEW u, u = New(w), NEW join, join = JoinOf(inputs, Newest(u)),
           NEW v, v = FinishAll(RegisterAll(u, inputs, Internal("all", Len(a.joins) + 1)), join),
           NEW b, OneCall(a, b), b.own = a.own, b.joins = Append(a.joins, join),
           b.races = a.races
    PROVE  PInv(v, b) /\ Dom(v) = Dom(u)
<1> DEFINE n == Newest(u)
           m == Len(a.joins) + 1
           start == JoinOf(<<>>, n)
           a1 == With(a, Append(a.joins, start), a.races)
           a2 == Joined(a1, m, inputs, n)
<1>1. /\ PInv(u, a) /\ Fresh(u, a, n) /\ n \in Nat /\ ~IsSettled(u, n) /\ n \notin Dom(w)
      /\ Dom(w) \subseteq Dom(u)
  BY NewStep DEF Fresh
<1>2. PInv(u, a1)
  BY <1>1, AddJoin
<1>3. start \in JoinType /\ join \in JoinType /\ a.joins \in Seq(JoinType)
  <2>1. <<>> \in Seq(Nat)
    OBVIOUS
  <2> QED
    BY <1>1, <2>1, JoinOfIs DEF PInv, AroundType
<1>4. /\ a1.joins = Append(a.joins, start) /\ a1.races = a.races
      /\ a1.draining = a.draining /\ a1.handling = a.handling /\ a1.own = a.own
      /\ a1.calls = a.calls /\ a1.heard = a.heard
  BY DEF With
<1> HIDE DEF start, a1
<1>5. /\ m \in 1 .. Len(a1.joins) /\ a1.joins[m] = start
      /\ [a1.joins EXCEPT ![m] = join] = Append(a.joins, join)
  <2> DEFINE s == a.joins
             t == a1.joins
  <2>1. t = Append(s, start) /\ s \in Seq(JoinType)
    BY <1>3, <1>4
  <2>2. Longer(JoinType, s, start, join, t)
    <3> HIDE DEF s, t
    <3> QED
      BY <1>3, <2>1, LastOf
  <2> QED
    BY <2>2 DEF Longer
<1>6. \A i \in 1 .. Len(inputs) : inputs[i] \in Dom(u) /\ inputs[i] # n
  BY <1>1
<1>7. PInv(v, a2) /\ Dom(v) = Dom(u)
  <2>1. a1.joins[m] = JoinOf(<<>>, n) /\ v = FinishAll(RegisterAll(u, inputs, Internal("all", m)), JoinOf(inputs, n))
    BY <1>5 DEF start
  <2> HIDE DEF n, m
  <2> QED
    BY <1>1, <1>2, <1>5, <1>6, <2>1, FinishJoin
<1>8. /\ a2.joins = Append(a.joins, join) /\ a2.races = a.races
      /\ a2.draining = a.draining /\ a2.handling = a.handling /\ a2.own = a.own
      /\ a2.calls = a.calls /\ a2.heard = a.heard
  <2>1. a2 = With(a1, Append(a.joins, join), a1.races)
    <3>1. join = JoinOf(inputs, n)
      OBVIOUS
    <3> HIDE DEF m, n
    <3> QED
      BY <1>5, <3>1 DEF Joined
  <2> HIDE DEF a2
  <2> QED
    BY <1>4, <2>1 DEF With
<1> HIDE DEF a2
<1>9. a.own \subseteq Free(v, a2) /\ a.calls \in Nat
  BY <1>7, <1>8 DEF PInv, Targets, AroundType
<1>10. PInv(v, b)
  <2>1. /\ b.draining = a2.draining /\ b.handling = a2.handling
        /\ b.own \subseteq Free(v, a2) /\ b.joins = a2.joins /\ b.races = a2.races
        /\ b.calls \in Nat /\ a2.calls <= b.calls /\ b.heard = a2.heard
    BY <1>8, <1>9 DEF OneCall
  <2> QED
    BY <1>7, <2>1, CallStays
<1> QED
  BY <1>7, <1>10

LEMMA RaceKeeps ==
    ASSUME NEW w, NEW a, PInv(w, a), NEW inputs \in Seq(Nat),
           \A i \in 1 .. Len(inputs) : inputs[i] \in Dom(w),
           NEW u1, u1 = New(w), NEW u, u = New(u1), NEW r, r = Newest(u1),
           NEW m, m = Len(a.joins) + 1,
           NEW join, join = JoinOf(inputs, Newest(u)),
           NEW t, t = FinishAll(RegisterAll(u, inputs, Internal("all", m)), join),
           NEW f, f = Register(t, join.to, Internal("reject", r)),
           NEW v, v = RegisterAll(f, inputs, Internal("first", r)),
           NEW b, OneCall(a, b), b.own = a.own, b.joins = Append(a.joins, join),
           b.races = Append(a.races, RaceOf(inputs, r, m))
    PROVE  PInv(v, b)
<1> DEFINE n == Newest(u)
           k == Len(a.races) + 1
           start == JoinOf(<<>>, n)
           begin == RaceOf(<<>>, r, m)
           race == RaceOf(inputs, r, m)
           a1 == With(a, Append(a.joins, start), a.races)
           a2 == With(a1, a1.joins, Append(a1.races, begin))
           a3 == Joined(a2, m, inputs, n)
           a4 == Raced(a3, k, inputs, r, m)
           e == Internal("reject", r)
           g == Internal("all", m)
<1>1. /\ PInv(u1, a) /\ Fresh(u1, a, r) /\ r \notin Dom(w) /\ r \in Dom(u1) /\ r \in Nat
      /\ Dom(w) \subseteq Dom(u1)
  BY NewStep, SMTT(30) DEF Fresh, Free
<1>2. /\ PInv(u, a) /\ Fresh(u, a, n) /\ Fresh(u, a, r) /\ r # n
      /\ n \notin Dom(u1) /\ Dom(u1) \subseteq Dom(u)
  BY <1>1, NewStep
<1>3. n \in Nat /\ ~IsSettled(u, n) /\ ~IsSettled(u, r) /\ n \in Dom(u) /\ r \in Dom(u)
  BY <1>2 DEF Fresh, Free
<1>4. /\ a.joins \in Seq(JoinType) /\ a.races \in Seq(RaceType)
      /\ start \in JoinType /\ join \in JoinType /\ join.to = n /\ m \in Nat
  <2>1. <<>> \in Seq(Nat)
    OBVIOUS
  <2>2. a.joins \in Seq(JoinType) /\ a.races \in Seq(RaceType)
    BY DEF PInv, AroundType
  <2>3. m \in Nat
    BY <2>2
  <2> QED
    BY <1>3, <2>1, <2>2, <2>3, JoinOfIs
<1>5. race \in RaceType /\ begin \in RaceType
  <2>1. <<>> \in Seq(Nat)
    OBVIOUS
  <2> QED
    BY <1>1, <1>4, <2>1, RaceOfIs
<1>6. PInv(u, a1) /\ Fresh(u, a1, r)
  BY <1>2, AddJoin
<1>7. /\ a1.joins = Append(a.joins, start) /\ a1.races = a.races
      /\ a1.draining = a.draining /\ a1.handling = a.handling /\ a1.own = a.own
      /\ a1.calls = a.calls /\ a1.heard = a.heard
  BY DEF With
<1> HIDE DEF a1
<1>8. /\ m \in 1 .. Len(a1.joins) /\ a1.joins[m] = start
      /\ [a1.joins EXCEPT ![m] = join] = Append(a.joins, join)
  <2> DEFINE s == a.joins
             z == a1.joins
  <2>1. z = Append(s, start) /\ s \in Seq(JoinType)
    BY <1>4, <1>7
  <2>2. Longer(JoinType, s, start, join, z)
    <3> HIDE DEF s, z, start
    <3> QED
      BY <1>4, <2>1, LastOf
  <2> QED
    BY <2>2 DEF Longer
<1>9. PInv(u, a2)
  <2> HIDE DEF n
  <2> QED
    BY <1>6, <1>8, AddRace DEF RaceOf
<1>10. /\ a2.joins = a1.joins /\ a2.races = Append(a.races, begin)
       /\ a2.draining = a.draining /\ a2.handling = a.handling /\ a2.own = a.own
       /\ a2.calls = a.calls /\ a2.heard = a.heard
  BY <1>7 DEF With
<1> HIDE DEF a2
<1>11. /\ k \in 1 .. Len(a2.races) /\ a2.races[k] = begin
       /\ [a2.races EXCEPT ![k] = race] = Append(a.races, race)
  <2> DEFINE s == a.races
             z == a2.races
  <2>1. z = Append(s, begin) /\ s \in Seq(RaceType)
    BY <1>4, <1>10
  <2>2. Longer(RaceType, s, begin, race, z)
    <3> HIDE DEF s, z, begin, race
    <3> QED
      BY <1>5, <2>1, LastOf
  <2> QED
    BY <2>2 DEF Longer
<1>12. \A i \in 1 .. Len(inputs) : inputs[i] \in Dom(u) /\ inputs[i] # n /\ inputs[i] # r
  BY <1>1, <1>2
<1>13. /\ PInv(t, a3) /\ Dom(t) = Dom(u) /\ \A q \in Dom(u) : q # n => St(t, q) = St(u, q)
       /\ \A i \in 1 .. Len(inputs) : Waits(t, inputs[i], g)
  <2>1. /\ a2.joins[m] = JoinOf(<<>>, n) /\ m \in 1 .. Len(a2.joins)
        /\ t = FinishAll(RegisterAll(u, inputs, Internal("all", m)), JoinOf(inputs, n))
    BY <1>8, <1>10
  <2> HIDE DEF n
  <2> QED
    BY <1>3, <1>9, <1>12, <2>1, FinishJoin, SMTT(30)
<1>14. /\ a3.joins = Append(a.joins, join) /\ a3.races = a2.races
       /\ a3.draining = a.draining /\ a3.handling = a.handling /\ a3.own = a.own
       /\ a3.calls = a.calls /\ a3.heard = a.heard
  <2>1. a3 = With(a2, Append(a.joins, join), a2.races)
    <3>1. join = JoinOf(inputs, n)
      OBVIOUS
    <3> HIDE DEF n
    <3> QED
      BY <1>8, <1>10, <3>1 DEF Joined
  <2> HIDE DEF a3
  <2> QED
    BY <1>10, <2>1 DEF With
<1>15. m \in 1 .. Len(a3.joins) /\ a3.joins[m] = join /\ join.inputs = inputs
  <2>1. Longer(JoinType, a.joins, join, join, a3.joins)
    <3> DEFINE s == a.joins
               z == a3.joins
    <3>1. z = Append(s, join) /\ s \in Seq(JoinType)
      BY <1>4, <1>14
    <3> HIDE DEF s, z
    <3>2. Longer(JoinType, s, join, join, z)
      BY <1>4, <3>1, LastOf
    <3> QED
      BY <3>2 DEF s, z
  <2>2. join.inputs = inputs
    BY <1>3, JoinOfIs
  <2> QED
    BY <2>1, <2>2 DEF Longer
<1> HIDE DEF a3, begin, race
<1>16. PInv(f, a3) /\ Attached(t, f, n, e) /\ Adds(t, f, n, e) /\ e # g
  <2>1. e \in Entries /\ e.kind = "reject" /\ e.to = r /\ g.kind = "all" /\ g \in Entries
    BY <1>1, <1>4, InternalIs
  <2>2. n \in Dom(t) /\ WorldType(t)
    BY <1>3, <1>13 DEF PInv
  <2>3. a3.races[k].to = r /\ a3.races[k].all = m /\ k \in 1 .. Len(a3.races)
    BY <1>11, <1>14 DEF begin, RaceOf
  <2>4. EntryOK(t, a3, n, e)
    BY <1>4, <1>15, <2>1, <2>3 DEF EntryOK
  <2>5. MayRegister(t, a3, n, e)
    BY <2>1, <2>4 DEF MayRegister
  <2>6. f = Register(t, n, e)
    BY <1>4
  <2> HIDE DEF e, n, g
  <2>7. PInv(f, a3)
    BY <1>13, <2>1, <2>2, <2>5, <2>6, RegisterStep
  <2>8. Attached(t, f, n, e) /\ Adds(t, f, n, e)
    BY <2>1, <2>2, <2>6, RegisterProps, RegisterAdds
  <2> QED
    BY <2>1, <2>7, <2>8
<1>17. ~IsSettled(f, r) /\ Dom(f) = Dom(u)
  BY <1>2, <1>3, <1>13, <1>16 DEF Attached, IsSettled
<1>18. \A i \in 1 .. Len(inputs) :
          /\ inputs[i] \in Dom(f) /\ IsInput(a3.joins[m], inputs[i])
          /\ Waits(f, inputs[i], g)
  <2>1. \A i \in 1 .. Len(inputs) : Waits(f, inputs[i], g)
    BY <1>12, <1>13, <1>16 DEF Adds
  <2> QED
    BY <1>12, <1>15, <1>17, <2>1 DEF IsInput
<1>19. PInv(v, a4)
  <2>1. a3.races[k] = RaceOf(<<>>, r, m) /\ k \in 1 .. Len(a3.races)
    BY <1>11, <1>14 DEF begin
  <2> HIDE DEF k
  <2> QED
    BY <1>1, <1>4, <1>16, <1>17, <1>18, <2>1, RegisterRaces
<1>20. /\ a4.joins = Append(a.joins, join) /\ a4.races = Append(a.races, race)
       /\ a4.draining = a.draining /\ a4.handling = a.handling /\ a4.own = a.own
       /\ a4.calls = a.calls /\ a4.heard = a.heard
  <2>1. a4 = With(a3, a3.joins, Append(a.races, race))
    <3>1. race = RaceOf(inputs, r, m)
      BY DEF race
    <3> HIDE DEF k
    <3> QED
      BY <1>11, <1>14, <3>1 DEF Raced
  <2> HIDE DEF a4
  <2> QED
    BY <1>14, <2>1 DEF With
<1> HIDE DEF a4
<1>21. a.own \subseteq Free(v, a4) /\ a.calls \in Nat
  BY <1>19, <1>20 DEF PInv, Targets, AroundType
<1>22. /\ b.draining = a4.draining /\ b.handling = a4.handling
       /\ b.own \subseteq Free(v, a4) /\ b.joins = a4.joins /\ b.races = a4.races
       /\ b.calls \in Nat /\ a4.calls <= b.calls /\ b.heard = a4.heard
  BY <1>20, <1>21 DEF OneCall, race
<1> QED
  BY <1>19, <1>22, CallStays

-----------------------------------------------------------------------------
(* Promises: the loop of run(). *)

\* The queue of a promise is run, or is done.
LEMMA DrainKeeps ==
    ASSUME NEW w, NEW a, PInv(w, a), NEW v, v.promises = w.promises,
           v.timeouts \in Seq(Nat), v \in [promises : Seq(PromiseType), timeouts : Seq(Nat)],
           \A i \in 1 .. Len(v.timeouts) :
              \E k \in 1 .. Len(w.timeouts) : v.timeouts[i] = w.timeouts[k],
           NEW b, b.handling = a.handling, b.own = a.own, b.joins = a.joins,
           b.races = a.races, b.calls = a.calls, b.heard = a.heard,
           b.draining # Nobody => b.draining \in Dom(w) /\ IsSettled(w, b.draining),
           \A p \in Dom(w) : a.draining = p => Qu(w, p) = <<>>
    PROVE  PInv(v, b)
<1>1. /\ WorldType(w) /\ AroundType(w, a) /\ Apart(w, a) /\ Targets(w, a)
      /\ Numbered(w, a) /\ HeardOK(w, a)
      /\ \A j \in 1 .. Len(a.joins) : JoinOK(w, j, a.joins[j])
      /\ \A r \in 1 .. Len(a.races) : RaceOK(w, a, a.races[r])
  BY DEF PInv
<1>2. /\ Dom(v) = Dom(w)
      /\ \A q : St(v, q) = St(w, q) /\ Val(v, q) = Val(w, q) /\ Qu(v, q) = Qu(w, q)
      /\ \A q : IsSettled(v, q) <=> IsSettled(w, q)
      /\ \A q, e : Waits(v, q, e) <=> Waits(w, q, e)
      /\ \A j : Slots(v, j) = Slots(w, j)
  BY DEF Dom, St, Val, Qu, IsSettled, Waits, Slots
<1>3. WorldType(v)
  <2>1. \A i \in 1 .. Len(v.timeouts) : v.timeouts[i] \in Dom(w) /\ IsSettled(w, v.timeouts[i])
    BY <1>1 DEF WorldType
  <2> QED
    BY <1>1, <1>2, <2>1 DEF WorldType
<1>4. AroundType(v, b)
  BY <1>1, <1>2 DEF AroundType
<1>5. Free(v, b) = Free(w, a) /\ \A q : RaceTo(b, q) <=> RaceTo(a, q)
  BY <1>2 DEF Free, JoinTo, RaceTo
<1>6. Apart(v, b)
  BY <1>1, <1>2, <1>5 DEF Apart
<1>7. \A q \in Dom(w) : \A f : EntryOK(w, a, q, f) => EntryOK(v, b, q, f)
  BY <1>5 DEF EntryOK
<1>8. Targets(v, b)
  BY <1>1, <1>2, <1>5, <1>7 DEF Targets
<1>9. Numbered(v, b)
  BY <1>1, <1>2 DEF Numbered
<1>10. HeardOK(v, b)
  BY <1>1, <1>2 DEF HeardOK
<1>11. \A j \in 1 .. Len(a.joins) : JoinOK(v, j, a.joins[j])
  BY <1>1, <1>2 DEF JoinOK
<1>12. ASSUME NEW r \in 1 .. Len(a.races) PROVE RaceOK(v, b, a.races[r])
  <2> DEFINE race == a.races[r]
  <2>1. RaceOK(w, a, race)
    BY <1>1
  <2> HIDE DEF race
  <2>2. \A p \in Dom(w) : Waits(w, p, Internal("first", race.to)) =>
           Waits(w, p, Internal("all", race.all))
    <3> SUFFICES ASSUME NEW p \in Dom(w), Waits(w, p, Internal("first", race.to))
                 PROVE  Waits(w, p, Internal("all", race.all))
      OBVIOUS
    <3>1. Qu(w, p) # <<>>
      BY DEF Waits
    <3> QED
      BY <2>1, <3>1 DEF RaceOK
  <2>3. RaceOK(v, b, race)
    BY <1>2, <2>1, <2>2 DEF RaceOK
  <2> QED
    BY <2>3 DEF race
<1> QED
  BY <1>3, <1>4, <1>6, <1>8, <1>9, <1>10, <1>11, <1>12 DEF PInv

\* What the first entry of a queue that runs is about.
LEMMA FirstEntry ==
    ASSUME NEW w, NEW a, PInv(w, a), NEW d \in Dom(w), Qu(w, d) # <<>>,
           NEW h, h = Head(Qu(w, d)), NEW v, v = TakenFrom(w, d)
    PROVE  /\ h \in Entries /\ EntryOK(w, a, d, h) /\ Drops(w, v, d, h)
           /\ 1 \in 1 .. Len(Qu(w, d)) /\ Qu(w, d)[1] = h
<1>1. Drops(w, v, d, h) /\ h \in Entries
  BY TakeDrops DEF PInv
<1>2. 1 \in 1 .. Len(Qu(w, d)) /\ Qu(w, d)[1] = h
  BY <1>1 DEF Drops
<1> QED
  BY <1>1, <1>2 DEF PInv, Targets

\* A handler of user code is called.
LEMMA HandlerKeeps ==
    ASSUME NEW w, NEW a, PInv(w, a), NEW d \in Dom(w), a.draining = d, IsSettled(w, d),
           Qu(w, d) # <<>>, NEW h, h = Head(Qu(w, d)), h.kind = "user",
           NEW v, v = TakenFrom(w, d), NEW new, new.of = d, new.nr = h.nr, new.state = St(w, d),
           new \in [of : Nat, nr : Nat, state : States],
           NEW b, b.draining = a.draining, b.handling = h, b.own = a.own, b.joins = a.joins,
           b.races = a.races, b.calls = a.calls, b.heard = Append(a.heard, new)
    PROVE  PInv(v, b) /\ Dom(v) = Dom(w)
<1>1. /\ h \in Entries /\ EntryOK(w, a, d, h) /\ Drops(w, v, d, h)
      /\ 1 \in 1 .. Len(Qu(w, d)) /\ Qu(w, d)[1] = h
  BY FirstEntry
<1>2. PInv(v, a)
  BY <1>1, TakeStep
<1>3. /\ Dom(v) = Dom(w) /\ St(v, d) = St(w, d)
      /\ Len(Qu(w, d)) = Len(Qu(v, d)) + 1 /\ Len(Qu(v, d)) \in Nat
      /\ \A k \in 1 .. Len(Qu(v, d)) : Qu(v, d)[k] = Qu(w, d)[k + 1]
  BY <1>1 DEF Drops
<1>4. /\ h.to \in Free(v, a) /\ h.nr \in Nat /\ h.nr <= a.calls
      /\ \A i \in 1 .. Len(a.heard) : a.heard[i].of = d => a.heard[i].nr < h.nr
      /\ \A k \in 1 .. Len(Qu(v, d)) : Qu(v, d)[k].kind = "user" => h.nr < Qu(v, d)[k].nr
  <2>1. h.to \in Free(w, a) /\ Free(v, a) = Free(w, a)
    BY <1>1, <1>3 DEF EntryOK, Free
  <2>2. Numbered(w, a)
    BY DEF PInv
  <2>3. /\ h.nr <= a.calls
        /\ \A i \in 1 .. Len(a.heard) : a.heard[i].of = d => a.heard[i].nr < h.nr
    BY <1>1, <2>2 DEF Numbered
  <2>4. ASSUME NEW k \in 1 .. Len(Qu(v, d)), Qu(v, d)[k].kind = "user" PROVE h.nr < Qu(v, d)[k].nr
    <3>1. k + 1 \in 1 .. Len(Qu(w, d)) /\ 1 < k + 1
      BY <1>3
    <3>2. Qu(w, d)[k + 1].kind = "user"
      BY <1>3, <2>4
    <3>3. Qu(w, d)[1].nr < Qu(w, d)[k + 1].nr
      BY <1>1, <2>2, <3>1, <3>2 DEF Numbered
    <3> QED
      BY <1>1, <1>3, <3>3
  <2> QED
    BY <1>1, <2>1, <2>3, <2>4 DEF Entries
<1>5. /\ a.heard \in Seq([of : Nat, nr : Nat, state : States]) /\ Len(a.heard) \in Nat
      /\ b.heard \in Seq([of : Nat, nr : Nat, state : States])
      /\ Len(b.heard) = Len(a.heard) + 1 /\ b.heard[Len(a.heard) + 1] = new
      /\ \A i \in 1 .. Len(a.heard) : b.heard[i] = a.heard[i]
  <2>1. a.heard \in Seq([of : Nat, nr : Nat, state : States])
    BY DEF PInv, AroundType
  <2> QED
    BY <2>1, AppendProperties
<1>6. \A i \in 1 .. Len(b.heard) : i \in 1 .. Len(a.heard) \/ i = Len(a.heard) + 1
  BY <1>5
<1>7. /\ WorldType(v) /\ AroundType(v, a) /\ Apart(v, a) /\ Targets(v, a)
      /\ Numbered(v, a) /\ HeardOK(v, a)
      /\ \A j \in 1 .. Len(a.joins) : JoinOK(v, j, a.joins[j])
      /\ \A r \in 1 .. Len(a.races) : RaceOK(v, a, a.races[r])
  BY <1>2 DEF PInv
<1>8. AroundType(v, b)
  BY <1>1, <1>5, <1>7 DEF AroundType
<1>9. Free(v, b) = Free(v, a) /\ \A q : RaceTo(b, q) <=> RaceTo(a, q)
  BY DEF Free, JoinTo, RaceTo
<1>10. Apart(v, b)
  BY <1>7, <1>9 DEF Apart
<1>11. \A q \in Dom(v) : \A f : EntryOK(v, a, q, f) => EntryOK(v, b, q, f)
  BY <1>9 DEF EntryOK
<1>12. Targets(v, b)
  BY <1>4, <1>7, <1>9, <1>11 DEF Targets
<1>13. Numbered(v, b)
  <2> SUFFICES ASSUME NEW p \in Dom(v), NEW k \in 1 .. Len(Qu(v, p)), Qu(v, p)[k].kind = "user"
               PROVE  /\ Qu(v, p)[k].nr <= a.calls
                      /\ \A l \in 1 .. Len(Qu(v, p)) : l < k /\ Qu(v, p)[l].kind = "user" =>
                            Qu(v, p)[l].nr < Qu(v, p)[k].nr
                      /\ \A i \in 1 .. Len(b.heard) : b.heard[i].of = p =>
                            b.heard[i].nr < Qu(v, p)[k].nr
    BY DEF Numbered
  <2>1. /\ Qu(v, p)[k].nr <= a.calls
        /\ \A l \in 1 .. Len(Qu(v, p)) : l < k /\ Qu(v, p)[l].kind = "user" =>
              Qu(v, p)[l].nr < Qu(v, p)[k].nr
        /\ \A i \in 1 .. Len(a.heard) : a.heard[i].of = p => a.heard[i].nr < Qu(v, p)[k].nr
    BY <1>7 DEF Numbered
  <2>2. ASSUME NEW i \in 1 .. Len(b.heard), b.heard[i].of = p
        PROVE  b.heard[i].nr < Qu(v, p)[k].nr
    <3>1. CASE i \in 1 .. Len(a.heard)
      BY <1>5, <2>1, <2>2, <3>1
    <3>2. CASE i = Len(a.heard) + 1
      BY <1>4, <1>5, <2>2, <3>2
    <3> QED
      BY <1>6, <3>1, <3>2
  <2> QED
    BY <2>1, <2>2
<1>14. HeardOK(v, b)
  <2>1. ASSUME NEW i \in 1 .. Len(b.heard)
        PROVE  /\ b.heard[i].of \in Dom(v) /\ b.heard[i].nr <= a.calls
               /\ b.heard[i].state = St(v, b.heard[i].of)
    <3>1. CASE i \in 1 .. Len(a.heard)
      BY <1>5, <1>7, <3>1 DEF HeardOK
    <3>2. CASE i = Len(a.heard) + 1
      BY <1>3, <1>4, <1>5, <3>2
    <3> QED
      BY <1>6, <3>1, <3>2
  <2>2. ASSUME NEW i \in 1 .. Len(b.heard), NEW j \in 1 .. Len(b.heard), i < j,
               b.heard[i].of = b.heard[j].of
        PROVE  b.heard[i].nr < b.heard[j].nr
    <3>1. i \in 1 .. Len(a.heard)
      BY <1>5, <2>2
    <3>2. CASE j \in 1 .. Len(a.heard)
      BY <1>5, <1>7, <2>2, <3>1, <3>2 DEF HeardOK
    <3>3. CASE j = Len(a.heard) + 1
      BY <1>4, <1>5, <2>2, <3>1, <3>3
    <3> QED
      BY <1>6, <3>2, <3>3
  <2> QED
    BY <2>1, <2>2 DEF HeardOK
<1>15. \A r \in 1 .. Len(a.races) : RaceOK(v, b, a.races[r])
  BY <1>7 DEF RaceOK
<1> QED
  BY <1>3, <1>7, <1>8, <1>10, <1>12, <1>13, <1>14, <1>15 DEF PInv

\* Settling and resolving make no promises.
LEMMA SameDom ==
    ASSUME NEW w, WorldType(w), NEW p \in Dom(w), NEW x \in Int
    PROVE  /\ \A s \in States : Dom(Settle(w, p, s, x)) = Dom(w)
           /\ Dom(Resolve(w, p, x)) = Dom(w)
<1>1. \A s \in States : \A y \in Int : Dom(Settle(w, p, s, y)) = Dom(w)
  BY SettleProps
<1>2. Dom(Resolve(w, p, x)) = Dom(w)
  <2>1. CASE x = p
    <3>1. "rejected" \in States /\ Plain \in Int
      BY DEF States, Plain
    <3>2. p \in DOMAIN w.promises
      BY DEF Dom, WorldType
    <3>3. Resolve(w, p, x) = Settle(w, p, "rejected", Plain)
      BY <2>1, <3>2 DEF Resolve
    <3> QED
      BY <1>1, <3>1, <3>3
  <2>2. CASE x # p /\ x \notin DOMAIN w.promises
    <3>1. "fulfilled" \in States
      BY DEF States
    <3>2. Resolve(w, p, x) = Settle(w, p, "fulfilled", x)
      BY <2>2 DEF Resolve
    <3> QED
      BY <1>1, <3>1, <3>2
  <2>3. CASE x # p /\ x \in DOMAIN w.promises
    <3>1. x \in Dom(w)
      BY <2>3 DEF Dom, WorldType
    <3>2. CASE St(w, x) = "pending"
      <4>1. Resolve(w, p, x) = Register(w, x, Internal("follow", p))
        BY <2>3, <3>2 DEF Resolve, St
      <4>2. Internal("follow", p) \in Entries
        BY InternalIs, WorldParts
      <4>3. Attached(w, Resolve(w, p, x), x, Internal("follow", p))
        BY <3>1, <4>1, <4>2, RegisterProps
      <4> QED
        BY <4>3 DEF Attached
    <3>3. CASE St(w, x) # "pending"
      <4>1. Resolve(w, p, x) = Settle(w, p, St(w, x), Val(w, x))
        BY <2>3, <3>3 DEF Resolve, St, Val
      <4>2. St(w, x) \in States /\ Val(w, x) \in Int
        BY <3>1, <3>3, WorldParts
      <4> QED
        BY <1>1, <4>1, <4>2
    <3> QED
      BY <3>2, <3>3
  <2> QED
    BY <2>1, <2>2, <2>3
<1> QED
  BY <1>1, <1>2

\* The state and the value of a promise are passed on.
LEMMA PassKeeps ==
    ASSUME NEW w, NEW a, PInv(w, a), NEW d \in Dom(w), a.draining = d, IsSettled(w, d),
           Qu(w, d) # <<>>, NEW h, h = Head(Qu(w, d)), h.kind \in {"user", "follow"},
           NEW t, t = TakenFrom(w, d), NEW v,
           v = IF St(w, d) = "fulfilled" THEN Resolve(t, h.to, Val(w, d))
                                         ELSE Settle(t, h.to, "rejected", Val(w, d))
    PROVE  PInv(v, a) /\ Dom(v) = Dom(w)
<1>1. h \in Entries /\ EntryOK(w, a, d, h) /\ Drops(w, t, d, h)
  BY FirstEntry
<1>2. PInv(t, a)
  BY <1>1, TakeStep
<1>3. Dom(t) = Dom(w) /\ WorldType(t) /\ Val(w, d) \in Int /\ "rejected" \in States
  BY <1>1, WorldParts DEF Drops, PInv, States
<1>4. h.to \in Free(t, a) /\ h.to \in Dom(t)
  BY <1>1, <1>3 DEF EntryOK, Free
<1>5. CASE St(w, d) = "fulfilled"
  <2>1. v = Resolve(t, h.to, Val(w, d))
    BY <1>5
  <2> QED
    BY <1>2, <1>3, <1>4, <2>1, ResolveStep, SameDom
<1>6. CASE St(w, d) # "fulfilled"
  <2>1. v = Settle(t, h.to, "rejected", Val(w, d))
    BY <1>6
  <2>2. MaySettleAs(t, a, h.to, "rejected")
    BY <1>4, FreeMaySettle
  <2> QED
    BY <1>2, <1>3, <1>4, <2>1, <2>2, SettleStep, SameDom
<1> QED
  BY <1>5, <1>6

\* No entry of an all() waits that has counted all of its inputs.
LEMMA NoneWaits ==
    ASSUME NEW w, NEW j, NEW join, JoinOK(w, j, join), join.remaining = 0,
           NEW p \in Dom(w), Qu(w, p) \in Seq(Entries)
    PROVE  ~Waits(w, p, Internal("all", j))
<1> SUFFICES ASSUME NEW k \in 1 .. Len(Qu(w, p)), Qu(w, p)[k] = Internal("all", j) PROVE FALSE
  BY DEF Waits
<1>1. IsFiniteSet(Slots(w, j)) /\ Cardinality(Slots(w, j)) = 0
  BY DEF JoinOK
<1>2. Slots(w, j) = {}
  BY <1>1, FS_EmptySet
<1>3. k \in Nat
  OBVIOUS
<1>4. <<p, k>> \in Slots(w, j)
  BY <1>3 DEF Slots
<1> QED
  BY <1>2, <1>4

\* The rejection of race()'s all() is passed on: all inputs are settled, and if the
\* race is not over none of them is fulfilled.
LEMMA RejectKeeps ==
    ASSUME NEW w, NEW a, PInv(w, a), NEW d \in Dom(w), a.draining = d, IsSettled(w, d),
           Qu(w, d) # <<>>, NEW h, h = Head(Qu(w, d)), h.kind = "reject",
           NEW t, t = TakenFrom(w, d), NEW v,
           v = IF St(w, d) = "rejected" THEN Settle(t, h.to, "rejected", Val(w, d)) ELSE t
    PROVE  PInv(v, a) /\ Dom(v) = Dom(w)
<1>1. h \in Entries /\ EntryOK(w, a, d, h) /\ Drops(w, t, d, h)
  BY FirstEntry
<1>2. PInv(t, a)
  BY <1>1, TakeStep
<1>3. /\ Dom(t) = Dom(w) /\ WorldType(t) /\ Val(w, d) \in Int /\ "rejected" \in States
      /\ St(t, d) = St(w, d)
  BY <1>1, WorldParts DEF Drops, PInv, States
<1>4. PICK r \in 1 .. Len(a.races) : h.to = a.races[r].to /\ d = a.joins[a.races[r].all].to
  BY <1>1 DEF EntryOK
<1> DEFINE race == a.races[r]
           al == race.all
           join == a.joins[al]
<1>5. /\ race.to \in Dom(t) /\ RaceOK(t, a, race) /\ al \in 1 .. Len(a.joins)
      /\ JoinOK(t, al, join) /\ h.to = race.to /\ d = join.to
      /\ \A i \in 1 .. Len(race.inputs) : race.inputs[i] \in Dom(t)
      /\ race.to \in Nat /\ al \in Nat
  BY <1>2, <1>4, PartsOfJoins
<1> HIDE DEF race, al, join
<1>6. CASE St(w, d) # "rejected"
  BY <1>2, <1>3, <1>6
<1>7. CASE St(w, d) = "rejected" /\ IsSettled(t, race.to)
  <2>1. v = Settle(t, race.to, "rejected", Val(w, d))
    BY <1>5, <1>7
  <2>2. v = t
    BY <1>7, <2>1 DEF Settle, MaySettle, IsSettled, St
  <2> QED
    BY <1>2, <1>3, <2>2
<1>8. CASE St(w, d) = "rejected" /\ ~IsSettled(t, race.to)
  <2>1. v = Settle(t, race.to, "rejected", Val(w, d))
    BY <1>5, <1>8
  <2>2. join.remaining = 0
    BY <1>3, <1>5, <1>8 DEF JoinOK, IsSettled
  <2>3. ASSUME NEW i \in 1 .. Len(race.inputs)
        PROVE  St(t, race.inputs[i]) = "rejected"
    <3> DEFINE p == race.inputs[i]
    <3>1. p \in Dom(t) /\ IsInput(join, p)
      BY <1>5 DEF RaceOK, join, al
    <3>2. p # d
      <4>1. PICK k \in 1 .. Len(join.inputs) : join.inputs[k] = p
        BY <3>1 DEF IsInput
      <4> QED
        BY <1>5, <4>1 DEF JoinOK
    <3>3. Qu(t, p) \in Seq(Entries) /\ St(t, p) \in {"pending"} \cup States
      BY <1>3, <3>1, WorldParts
    <3> HIDE DEF p
    <3>4. ~Waits(t, p, Internal("all", al))
      BY <1>5, <2>2, <3>1, <3>3, NoneWaits
    <3>5. ~Waits(t, p, Internal("first", race.to))
      BY <1>5, <3>1, <3>2, <3>4 DEF RaceOK, al
    <3>6. IsSettled(t, p) /\ (St(t, p) = "fulfilled" => IsSettled(t, race.to))
      BY <1>5, <3>5 DEF RaceOK, p
    <3> QED
      BY <1>8, <3>3, <3>6 DEF IsSettled, States, p
  <2>4. MaySettleAs(t, a, race.to, "rejected")
    <3>1. /\ \A j \in 1 .. Len(a.joins) : ~RaceTo(a, a.joins[j].to)
          /\ \A i, j \in 1 .. Len(a.races) : a.races[i].to = a.races[j].to => i = j
      BY <1>2 DEF PInv, Apart
    <3>2. \A j \in 1 .. Len(a.joins) : race.to # a.joins[j].to
      BY <3>1 DEF RaceTo, race
    <3>3. \A q \in 1 .. Len(a.races) : race.to = a.races[q].to => a.races[q] = race
      BY <3>1 DEF race
    <3> QED
      BY <2>3, <3>2, <3>3 DEF MaySettleAs
  <2>5. PInv(v, a)
    BY <1>2, <1>3, <1>5, <2>1, <2>4, SettleStep
  <2> QED
    BY <1>3, <1>5, <2>1, <2>5, SameDom
<1> QED
  BY <1>6, <1>7, <1>8

\* The first fulfilled input ends a race.
LEMMA FirstKeeps ==
    ASSUME NEW w, NEW a, PInv(w, a), NEW d \in Dom(w), a.draining = d, IsSettled(w, d),
           Qu(w, d) # <<>>, NEW h, h = Head(Qu(w, d)), h.kind = "first",
           NEW t, t = TakenFrom(w, d), NEW v,
           v = IF St(w, d) = "fulfilled" THEN Settle(t, h.to, "fulfilled", Val(w, d)) ELSE t
    PROVE  PInv(v, a) /\ Dom(v) = Dom(w)
<1>1. h \in Entries /\ EntryOK(w, a, d, h) /\ Drops(w, t, d, h)
  BY FirstEntry
<1>2. CASE St(w, d) # "fulfilled"
  <2>1. v = t
    BY <1>2
  <2>2. PInv(t, a)
    BY <1>1, <1>2, TakeStep
  <2> QED
    BY <1>1, <2>1, <2>2 DEF Drops
<1>3. CASE St(w, d) = "fulfilled"
  <2> DEFINE u == Settle(w, h.to, "fulfilled", Val(w, d))
  <2>1. v = Settle(t, h.to, "fulfilled", Val(w, d))
    BY <1>3
  <2>2. /\ WorldType(w) /\ "fulfilled" \in States /\ Val(w, d) \in Int /\ Val(w, d) # Nil
    BY WorldParts DEF PInv, WorldType, States
  <2>3. PICK r \in 1 .. Len(a.races) : h.to = a.races[r].to /\ IsInput(a.races[r], d)
    BY <1>1 DEF EntryOK
  <2>4. h.to \in Dom(w)
    BY <2>3, PartsOfJoins
  <2>5. MaySettleAs(w, a, h.to, "fulfilled")
    <3>1. /\ \A j \in 1 .. Len(a.joins) : ~RaceTo(a, a.joins[j].to)
          /\ \A i, j \in 1 .. Len(a.races) : a.races[i].to = a.races[j].to => i = j
      BY DEF PInv, Apart
    <3>2. \A j \in 1 .. Len(a.joins) : h.to # a.joins[j].to
      BY <2>3, <3>1 DEF RaceTo
    <3>3. \A q \in 1 .. Len(a.races) : h.to = a.races[q].to => a.races[q] = a.races[r]
      BY <2>3, <3>1
    <3>4. \E i \in 1 .. Len(a.races[r].inputs) : St(w, a.races[r].inputs[i]) = "fulfilled"
      BY <1>3, <2>3 DEF IsInput
    <3> QED
      BY <3>2, <3>3, <3>4 DEF MaySettleAs
  <2>6. PInv(u, a)
    BY <2>2, <2>4, <2>5, SettleStep
  <2>7. /\ Dom(u) = Dom(w) /\ IsSettled(u, h.to)
        /\ \A q \in Dom(w) : IsSettled(w, q) => IsSettled(u, q)
    BY <2>2, <2>4, SettleProps
  <2>8. Drops(u, v, d, h)
    BY <1>1, <2>1, <2>2, <2>4, SettleDrops
  <2> HIDE DEF u
  <2>9. PInv(v, a)
    BY <1>1, <2>6, <2>7, <2>8, TakeStep
  <2> QED
    BY <2>7, <2>8, <2>9 DEF Drops
<1> QED
  BY <1>2, <1>3

\* all() counts an input.
LEMMA JoinCounts ==
    ASSUME NEW w, NEW a, PInv(w, a), NEW d \in Dom(w), a.draining = d, IsSettled(w, d),
           Qu(w, d) # <<>>, Head(Qu(w, d)).kind = "all", NEW t, t = TakenFrom(w, d),
           NEW nr, nr = Head(Qu(w, d)).to,
           NEW join, NEW b, Counting(w, a, d, nr, join, b)
    PROVE  CountsOne(t, b, join) /\ Dom(t) = Dom(w)
<1> DEFINE h == Head(Qu(w, d))
<1>1. h \in Entries /\ EntryOK(w, a, d, h) /\ Drops(w, t, d, h)
  BY FirstEntry
<1>2. h.to \in Nat /\ h = Internal("all", h.to)
  BY <1>1 DEF EntryOK, Entries
<1>3. Drops(w, t, d, Internal("all", nr)) /\ nr \in Nat
  BY <1>1, <1>2
<1>4. CountsOne(t, b, join)
  BY <1>3, TakeAllStep
<1> QED
  BY <1>1, <1>4 DEF Drops

\* all() settles after the last of its inputs.
LEMMA FinishKeeps ==
    ASSUME NEW t, NEW b, NEW join, CountsOne(t, b, join), NEW v, v = FinishAll(t, join)
    PROVE  PInv(v, b) /\ Dom(v) = Dom(t)
<1>1. /\ PInv(t, b) /\ WorldType(t) /\ {"fulfilled", "rejected"} \subseteq States
      /\ Plain \in Int /\ join.to \in Dom(t) /\ join.remaining \in Nat
      /\ \A s : join.remaining = 0 /\ (s = "fulfilled" <=> ~join.failed) =>
            MaySettleAs(t, b, join.to, s)
  BY DEF CountsOne, PInv, States, Plain
<1>2. CASE join.remaining > 0
  BY <1>1, <1>2 DEF FinishAll
<1>3. CASE ~(join.remaining > 0)
  <2> DEFINE s == IF join.failed THEN "rejected" ELSE "fulfilled"
  <2>1. v = Settle(t, join.to, s, Plain) /\ s \in States
    BY <1>1, <1>3 DEF FinishAll
  <2>2. join.remaining = 0 /\ (s = "fulfilled" <=> ~join.failed)
    BY <1>1, <1>3
  <2> HIDE DEF s
  <2>3. MaySettleAs(t, b, join.to, s)
    BY <1>1, <2>2
  <2>4. PInv(v, b)
    BY <1>1, <2>1, <2>3, SettleStep
  <2> QED
    BY <1>1, <2>1, <2>4, SameDom
<1> QED
  BY <1>2, <1>3

-----------------------------------------------------------------------------
(* Promises: the actions. *)

LEMMA AroundIs ==
    /\ Around.draining = draining /\ Around.handling = handling /\ Around.own = own
    /\ Around.joins = joins /\ Around.races = races /\ Around.calls = promiseCalls
    /\ Around.heard = heard
    /\ Around'.draining = draining' /\ Around'.handling = handling' /\ Around'.own = own'
    /\ Around'.joins = joins' /\ Around'.races = races' /\ Around'.calls = promiseCalls'
    /\ Around'.heard = heard'
BY DEF Around

LEMMA InvNext ==
    ASSUME NEW v, Becomes(v), PInv(v, Around'), Dom(v) \subseteq 1 .. MaxPromises
    PROVE  PromisesInv'
<1>1. v = [promises |-> v.promises, timeouts |-> v.timeouts]
  BY DEF PInv, WorldType
<1>2. World' = v
  BY <1>1 DEF Becomes, World
<1>3. Dom(World)' = Dom(World') /\ PInv(World, Around)' = PInv(World', Around')
  BY DEF Dom, PInv, World, Around
<1> QED
  BY <1>2 DEF PromisesInv

\* The worlds and their parts, in terms of the variables.
LEMMA InvParts ==
    ASSUME PromisesInv
    PROVE  /\ PInv(World, Around) /\ WorldType(World) /\ Dom(World) \subseteq 1 .. MaxPromises
           /\ DOMAIN promises = Dom(World) /\ Dom(World) \subseteq Nat
           /\ own \subseteq Free(World, Around) /\ promiseCalls \in Nat
           /\ \A p : /\ promises[p].state = St(World, p) /\ promises[p].value = Val(World, p)
                     /\ promises[p].queue = Qu(World, p)
           /\ draining # Nobody => draining \in Dom(World) /\ IsSettled(World, draining)
<1>1. PInv(World, Around) /\ Dom(World) \subseteq 1 .. MaxPromises /\ WorldType(World)
  BY DEF PromisesInv, PInv
<1>2. promises \in Seq(PromiseType)
  BY <1>1 DEF WorldType, World
<1>3. DOMAIN promises = Dom(World) /\ Dom(World) \subseteq Nat
  BY <1>2 DEF Dom, World
<1>4. own \subseteq Free(World, Around) /\ promiseCalls \in Nat
  BY <1>1, AroundIs DEF PInv, Targets, AroundType
<1>5. draining # Nobody => draining \in Dom(World) /\ IsSettled(World, draining)
  BY <1>1, AroundIs DEF PInv, AroundType
<1>6. \A p : /\ promises[p].state = St(World, p) /\ promises[p].value = Val(World, p)
             /\ promises[p].queue = Qu(World, p)
  BY DEF St, Val, Qu, World
<1> QED
  BY <1>1, <1>3, <1>4, <1>5, <1>6

LEMMA CalledIs ==
    ASSUME NEW v, WorldType(v), Called(v)
    PROVE  Becomes(v) /\ Dom(v) \subseteq 1 .. MaxPromises /\ OneCall(Around, Around')
<1>1. Len(v.promises) \in Nat
  BY DEF WorldType
<1>2. Dom(v) \subseteq 1 .. MaxPromises
  BY <1>1, PromisesAssumption DEF Called, Dom
<1>3. OneCall(Around, Around')
  BY AroundIs DEF Called, OneCall
<1> QED
  BY <1>2, <1>3 DEF Called

LEMMA MakePromiseKeeps ==
    ASSUME PromisesInv, MakePromise
    PROVE  PromisesInv'
<1> DEFINE v == New(World)
<1>1. PInv(World, Around) /\ PInv(v, Around)
  BY InvParts, NewStep
<1>2. Called(v) /\ own' = own \cup {Newest(v)} /\ joins' = joins /\ races' = races
  BY DEF MakePromise
<1> HIDE DEF v
<1>3. Becomes(v) /\ Dom(v) \subseteq 1 .. MaxPromises /\ OneCall(Around, Around')
  BY <1>1, <1>2, CalledIs DEF PInv
<1>4. /\ Around'.own = Around.own \cup {Newest(v)} /\ Around'.joins = Around.joins
      /\ Around'.races = Around.races
  BY <1>2, AroundIs
<1>5. PInv(v, Around')
  BY <1>1, <1>3, <1>4, MakeKeeps DEF v
<1> QED
  BY <1>3, <1>5, InvNext

LEMMA SettlePromiseKeeps ==
    ASSUME PromisesInv, SettlePromise
    PROVE  PromisesInv'
<1>1. /\ PInv(World, Around) /\ WorldType(World) /\ DOMAIN promises = Dom(World)
      /\ Dom(World) \subseteq Nat /\ own \subseteq Free(World, Around)
  BY InvParts
<1>2. \E v : PInv(v, Around) /\ Dom(v) = Dom(World) /\ Called(v)
  <2>1. PICK p \in own :
          \/ \E x \in {Nil, Plain} \cup DOMAIN promises : Called(Resolve(World, p, x))
          \/ \E x \in DOMAIN promises \ {p} : Called(Settle(World, p, "fulfilled", x))
          \/ \E x \in {Nil, Plain} : Called(Settle(World, p, "rejected", x))
    BY DEF SettlePromise
  <2>2. /\ p \in Free(World, Around) /\ p \in Dom(World)
        /\ \A s : MaySettleAs(World, Around, p, s)
    BY <1>1, FreeMaySettle
  <2>3. {"fulfilled", "rejected"} \subseteq States /\ {Nil, Plain} \cup Dom(World) \subseteq Int
    BY <1>1 DEF States, Nil, Plain
  <2>4. ASSUME NEW x \in {Nil, Plain} \cup DOMAIN promises, Called(Resolve(World, p, x))
        PROVE  \E v : PInv(v, Around) /\ Dom(v) = Dom(World) /\ Called(v)
    <3> DEFINE v == Resolve(World, p, x)
    <3>1. x \in Int
      BY <1>1, <2>3
    <3>2. PInv(v, Around) /\ Dom(v) = Dom(World)
      BY <1>1, <2>2, <3>1, ResolveStep, SameDom
    <3> HIDE DEF v
    <3> QED
      BY <2>4, <3>2 DEF v
  <2>5. ASSUME NEW s \in States, NEW x \in Int, Called(Settle(World, p, s, x))
        PROVE  \E v : PInv(v, Around) /\ Dom(v) = Dom(World) /\ Called(v)
    <3> DEFINE v == Settle(World, p, s, x)
    <3>1. PInv(v, Around) /\ Dom(v) = Dom(World)
      BY <1>1, <2>2, SettleStep, SameDom
    <3> HIDE DEF v
    <3> QED
      BY <2>5, <3>1 DEF v
  <2> QED
    BY <1>1, <2>1, <2>3, <2>4, <2>5
<1>3. PICK v : PInv(v, Around) /\ Dom(v) = Dom(World) /\ Called(v)
  BY <1>2
<1>4. Becomes(v) /\ Dom(v) \subseteq 1 .. MaxPromises /\ OneCall(Around, Around')
  BY <1>3, CalledIs DEF PInv
<1>5. /\ Around'.own = Around.own /\ Around'.joins = Around.joins
      /\ Around'.races = Around.races
  BY AroundIs DEF SettlePromise
<1>6. PInv(v, Around')
  BY <1>1, <1>3, <1>4, <1>5, SettleKeeps
<1> QED
  BY <1>4, <1>6, InvNext

LEMMA NextOfKeeps ==
    ASSUME PromisesInv, NEW p \in DOMAIN promises, NEW on \in SUBSET States, NextOf(p, on)
    PROVE  PromisesInv'
<1> DEFINE u == New(World)
           v == Register(u, p, Entry("user", Newest(u), on, promiseCalls + 1))
<1>1. PInv(World, Around) /\ p \in Dom(World) /\ PInv(u, Around) /\ promiseCalls \in Nat
  BY InvParts, NewStep
<1>2. Called(v) /\ own' = own /\ joins' = joins /\ races' = races
  BY DEF NextOf
<1>3. WorldType(v)
  <2>1. Entry("user", Newest(u), on, promiseCalls + 1) \in Entries
    <3>1. Newest(u) \in Nat
      BY <1>1 DEF Newest, PInv, WorldType
    <3> HIDE DEF u
    <3> QED
      BY <1>1, <3>1 DEF Entry, Entries
  <2>2. WorldType(u) /\ p \in Dom(u)
    BY <1>1, NewStep DEF PInv
  <2>3. Attached(u, v, p, Entry("user", Newest(u), on, promiseCalls + 1))
    <3> HIDE DEF u
    <3> QED
      BY <2>1, <2>2, RegisterProps
  <2> QED
    BY <2>3 DEF Attached
<1>4. Becomes(v) /\ Dom(v) \subseteq 1 .. MaxPromises /\ OneCall(Around, Around')
  <2> HIDE DEF v
  <2> QED
    BY <1>2, <1>3, CalledIs
<1>5. /\ Around'.own = Around.own /\ Around'.joins = Around.joins
      /\ Around'.races = Around.races
  BY <1>2, AroundIs
<1>6. PInv(v, Around')
  <2>1. v = Register(u, p, Entry("user", Newest(u), on, Around.calls + 1))
    BY AroundIs
  <2> HIDE DEF v
  <2> QED
    BY <1>1, <1>4, <1>5, <2>1, NextKeeps
<1> HIDE DEF v
<1> QED
  BY <1>4, <1>6, InvNext

\* What all() and race() are given.
LEMMA InputsAre ==
    ASSUME PromisesInv, NEW inputs \in SeqOf(DOMAIN promises, MaxInputs)
    PROVE  inputs \in Seq(Nat) /\ \A i \in 1 .. Len(inputs) : inputs[i] \in Dom(World)
<1>1. PICK m \in 0 .. MaxInputs : inputs \in [1 .. m -> DOMAIN promises]
  BY DEF SeqOf
<1>2. DOMAIN promises = Dom(World) /\ Dom(World) \subseteq Nat
  BY InvParts
<1>3. m \in Nat /\ inputs \in [1 .. m -> Dom(World)]
  BY <1>1, <1>2, PromisesAssumption
<1>4. inputs \in Seq(Dom(World)) /\ Len(inputs) = m
  BY <1>3
<1> QED
  BY <1>2, <1>3, <1>4

LEMMA AllActs ==
    ASSUME PromisesInv, NEW inputs \in SeqOf(DOMAIN promises, MaxInputs), All(inputs)
    PROVE  PromisesInv'
<1> DEFINE u == New(World)
           join == JoinOf(inputs, Newest(u))
           v == FinishAll(RegisterAll(u, inputs, Internal("all", Len(joins) + 1)), join)
<1>1. /\ PInv(World, Around) /\ inputs \in Seq(Nat)
      /\ \A i \in 1 .. Len(inputs) : inputs[i] \in Dom(World)
  BY InvParts, InputsAre
<1>2. Called(v) /\ joins' = Append(joins, join) /\ own' = own /\ races' = races
  BY DEF All
<1>3. OneCall(Around, Around') /\ Becomes(v) /\ Len(v.promises) <= MaxPromises
  BY <1>2, AroundIs DEF Called, OneCall
<1>4. /\ Around'.own = Around.own /\ Around'.joins = Append(Around.joins, join)
      /\ Around'.races = Around.races
  BY <1>2, AroundIs
<1>5. PInv(v, Around')
  <2>1. v = FinishAll(RegisterAll(u, inputs, Internal("all", Len(Around.joins) + 1)), join)
    BY AroundIs
  <2> HIDE DEF v
  <2> QED
    BY <1>1, <1>3, <1>4, <2>1, AllKeeps
<1> HIDE DEF v
<1>6. Dom(v) \subseteq 1 .. MaxPromises
  BY <1>2, <1>5, CalledIs DEF PInv
<1> QED
  BY <1>3, <1>5, <1>6, InvNext

LEMMA RaceActs ==
    ASSUME PromisesInv, NEW inputs \in SeqOf(DOMAIN promises, MaxInputs), Race(inputs)
    PROVE  PromisesInv'
<1> DEFINE u1 == New(World)
           u == New(u1)
           r == Newest(u1)
           m == Len(joins) + 1
           join == JoinOf(inputs, Newest(u))
           t == FinishAll(RegisterAll(u, inputs, Internal("all", m)), join)
           f == Register(t, join.to, Internal("reject", r))
           v == RegisterAll(f, inputs, Internal("first", r))
<1>1. /\ PInv(World, Around) /\ inputs \in Seq(Nat)
      /\ \A i \in 1 .. Len(inputs) : inputs[i] \in Dom(World)
  BY InvParts, InputsAre
<1>2. Newest(u) - 1 = r
  <2>1. promises \in Seq(PromiseType)
    BY <1>1 DEF PInv, WorldType, World
  <2>2. u1.promises = Append(promises, NewPromise) /\ u.promises = Append(u1.promises, NewPromise)
    BY DEF New, World
  <2>3. NewPromise \in PromiseType
    BY EmptySeq DEF NewPromise, PromiseType, Nil
  <2>4. u1.promises \in Seq(PromiseType)
    BY <2>1, <2>2, <2>3
  <2>5. Len(u.promises) = Len(u1.promises) + 1 /\ Len(u1.promises) \in Nat
    BY <2>2, <2>3, <2>4
  <2> QED
    BY <2>5 DEF Newest
<1>3. /\ Called(v) /\ joins' = Append(joins, join)
      /\ races' = Append(races, RaceOf(inputs, r, m)) /\ own' = own
  <2>1. /\ Called(RegisterAll(Register(t, join.to, Internal("reject", Newest(u) - 1)), inputs,
                              Internal("first", Newest(u) - 1)))
        /\ joins' = Append(joins, join) /\ own' = own
        /\ races' = Append(races, [to |-> Newest(u) - 1, inputs |-> inputs, all |-> m])
    BY Zenon DEF Race
  <2> QED
    BY <1>2, <2>1, Zenon DEF RaceOf
<1>4. OneCall(Around, Around') /\ Becomes(v)
  <2> HIDE DEF v
  <2> QED
    BY <1>3, AroundIs DEF Called, OneCall
<1>5. /\ Around'.own = Around.own /\ Around'.joins = Append(Around.joins, join)
      /\ Around'.races = Append(Around.races, RaceOf(inputs, r, m))
  <2> HIDE DEF join, r, m
  <2> QED
    BY <1>3, AroundIs
<1>6. PInv(v, Around')
  <2>1. m = Len(Around.joins) + 1
    BY AroundIs
  <2>2. /\ u1 = New(World) /\ u = New(u1) /\ r = Newest(u1) /\ join = JoinOf(inputs, Newest(u))
        /\ t = FinishAll(RegisterAll(u, inputs, Internal("all", m)), join)
        /\ f = Register(t, join.to, Internal("reject", r))
        /\ v = RegisterAll(f, inputs, Internal("first", r))
    OBVIOUS
  <2> HIDE DEF u1, u, r, m, join, t, f, v
  <2> QED
    BY <1>1, <1>4, <1>5, <2>1, <2>2, RaceKeeps
<1> HIDE DEF v
<1>7. Dom(v) \subseteq 1 .. MaxPromises
  BY <1>3, <1>6, CalledIs DEF PInv
<1> QED
  BY <1>4, <1>6, <1>7, InvNext

LEMMA RunQueueKeeps ==
    ASSUME PromisesInv, RunQueue
    PROVE  PromisesInv'
<1> DEFINE v == [promises |-> promises, timeouts |-> Tail(timeouts)]
<1>1. /\ PInv(World, Around) /\ WorldType(World) /\ Dom(World) \subseteq 1 .. MaxPromises
      /\ Dom(World) \subseteq Nat
  BY InvParts
<1>2. /\ timeouts \in Seq(Nat) /\ promises \in Seq(PromiseType) /\ timeouts # <<>>
      /\ World.promises = promises /\ World.timeouts = timeouts
  BY <1>1 DEF WorldType, World, RunQueue
<1>3. /\ Tail(timeouts) \in Seq(Nat)
      /\ \A i \in 1 .. Len(Tail(timeouts)) : \E k \in 1 .. Len(timeouts) :
            Tail(timeouts)[i] = timeouts[k]
      /\ Head(timeouts) = timeouts[1] /\ 1 \in 1 .. Len(timeouts)
  <2>1. /\ Tail(timeouts) \in Seq(Nat) /\ Len(timeouts) \in Nat /\ Len(timeouts) > 0
        /\ Len(Tail(timeouts)) = Len(timeouts) - 1 /\ Head(timeouts) = timeouts[1]
        /\ \A i \in 1 .. Len(timeouts) - 1 : Tail(timeouts)[i] = timeouts[i + 1]
    BY <1>2
  <2>2. \A i \in 1 .. Len(timeouts) - 1 : i + 1 \in 1 .. Len(timeouts)
    BY <2>1
  <2> QED
    BY <2>1, <2>2
<1>4. /\ Becomes(v) /\ draining' = Head(timeouts) /\ draining = Nobody
      /\ UNCHANGED <<handling, own, joins, races, promiseCalls, heard>>
  BY DEF RunQueue, Becomes
<1>5. /\ v.promises = World.promises /\ v.timeouts = Tail(timeouts)
      /\ v \in [promises : Seq(PromiseType), timeouts : Seq(Nat)]
  BY <1>2, <1>3
<1> HIDE DEF v
<1>6. Around'.draining \in Dom(World) /\ IsSettled(World, Around'.draining)
  BY <1>1, <1>2, <1>3, <1>4, AroundIs DEF WorldType
<1>7. \A p \in Dom(World) : Around.draining # p
  <2>1. 0 \notin Dom(World)
    BY <1>1, <1>2 DEF Dom
  <2> QED
    BY <1>4, <2>1, AroundIs DEF Nobody
<1>8. /\ Around'.handling = Around.handling /\ Around'.own = Around.own
      /\ Around'.joins = Around.joins /\ Around'.races = Around.races
      /\ Around'.calls = Around.calls /\ Around'.heard = Around.heard
  BY <1>4, AroundIs
<1>9. PInv(v, Around')
  <2>1. /\ v.timeouts \in Seq(Nat)
        /\ \A i \in 1 .. Len(v.timeouts) : \E k \in 1 .. Len(World.timeouts) :
              v.timeouts[i] = World.timeouts[k]
    BY <1>2, <1>3, <1>5
  <2>2. \A p \in Dom(World) : Around.draining = p => Qu(World, p) = <<>>
    BY <1>7
  <2> QED
    <3>1. PICK w, a, b, u : w = World /\ a = Around /\ b = Around' /\ u = v
      OBVIOUS
    <3>2. /\ PInv(w, a) /\ u.promises = w.promises /\ u.timeouts \in Seq(Nat)
          /\ u \in [promises : Seq(PromiseType), timeouts : Seq(Nat)]
          /\ \A i \in 1 .. Len(u.timeouts) : \E k \in 1 .. Len(w.timeouts) :
                u.timeouts[i] = w.timeouts[k]
      BY <1>1, <1>5, <2>1, <3>1
    <3>3. /\ b.handling = a.handling /\ b.own = a.own /\ b.joins = a.joins
          /\ b.races = a.races /\ b.calls = a.calls /\ b.heard = a.heard
          /\ b.draining # Nobody => b.draining \in Dom(w) /\ IsSettled(w, b.draining)
          /\ \A p \in Dom(w) : a.draining = p => Qu(w, p) = <<>>
      BY <1>6, <1>8, <2>2, <3>1
    <3>4. PInv(u, b)
      BY <3>2, <3>3, DrainKeeps
    <3> QED
      BY <3>1, <3>4
<1>10. Dom(v) = Dom(World)
  BY <1>5 DEF Dom
<1> QED
  BY <1>1, <1>4, <1>9, <1>10, InvNext

LEMMA EndQueueKeeps ==
    ASSUME PromisesInv, EndQueue
    PROVE  PromisesInv'
<1> DEFINE v == World
<1>1. /\ PInv(World, Around) /\ WorldType(World) /\ Dom(World) \subseteq 1 .. MaxPromises
  BY InvParts
<1>2. /\ Becomes(World) /\ draining' = Nobody /\ draining \in Dom(World)
      /\ Qu(World, draining) = <<>>
      /\ UNCHANGED <<handling, own, joins, races, promiseCalls, heard>>
  BY InvParts DEF EndQueue, Becomes, World
<1>3. /\ World \in [promises : Seq(PromiseType), timeouts : Seq(Nat)]
      /\ World.timeouts \in Seq(Nat)
  BY <1>1 DEF WorldType
<1>4. /\ Around'.handling = Around.handling /\ Around'.own = Around.own
      /\ Around'.joins = Around.joins /\ Around'.races = Around.races
      /\ Around'.calls = Around.calls /\ Around'.heard = Around.heard
      /\ Around'.draining = Nobody /\ Around.draining = draining
  BY <1>2, AroundIs
<1>5. \A p \in Dom(World) : Around.draining = p => Qu(World, p) = <<>>
  BY <1>2, <1>4
<1>6. PInv(World, Around')
  BY <1>1, <1>3, <1>4, <1>5, DrainKeeps
<1> QED
  BY <1>1, <1>2, <1>6, InvNext

\* What an action that takes an entry finds.
LEMMA TakesIs ==
    ASSUME PromisesInv, NEW kind, Takes(kind)
    PROVE  /\ PInv(World, Around) /\ draining \in Dom(World) /\ Around.draining = draining
           /\ IsSettled(World, draining) /\ Qu(World, draining) # <<>>
           /\ Head(Qu(World, draining)).kind = kind
           /\ promises[draining].queue = Qu(World, draining)
           /\ promises[draining].state = St(World, draining)
           /\ promises[draining].value = Val(World, draining)
           /\ Taken = TakenFrom(World, draining) /\ handling = NoEntry
           /\ Dom(World) \subseteq 1 .. MaxPromises
<1>1. Taken = TakenFrom(World, draining)
  BY DEF Taken, TakenFrom
<1> QED
  BY <1>1, InvParts, AroundIs DEF Takes

LEMMA CallHandlerKeeps ==
    ASSUME PromisesInv, CallHandler
    PROVE  PromisesInv'
<1> DEFINE d == draining
           h == Head(Qu(World, d))
           t == TakenFrom(World, d)
<1>1. /\ PInv(World, Around) /\ d \in Dom(World) /\ Around.draining = d
      /\ IsSettled(World, d) /\ Qu(World, d) # <<>> /\ h.kind = "user"
      /\ promises[d].queue = Qu(World, d) /\ promises[d].state = St(World, d)
      /\ promises[d].value = Val(World, d)
      /\ Taken = t /\ Dom(World) \subseteq 1 .. MaxPromises
  BY TakesIs DEF CallHandler
<1>2. UNCHANGED <<draining, own, joins, races, promiseCalls>>
  BY DEF CallHandler
<1>3. h \in Entries /\ h.nr \in Nat /\ St(World, d) \in States /\ d \in Nat
  <2>1. h \in Entries
    BY <1>1, FirstEntry
  <2>2. St(World, d) \in {"pending"} \cup States /\ d \in Nat
    BY <1>1, WorldParts DEF PInv
  <2> QED
    BY <1>1, <2>1, <2>2 DEF Entries, IsSettled
<1>4. CASE St(World, d) \in h.on
  <2> DEFINE new == [of |-> d, nr |-> h.nr, state |-> St(World, d)]
  <2>1. handling' = h /\ heard' = Append(heard, new) /\ Becomes(t)
    BY <1>1, <1>4 DEF CallHandler
  <2>2. /\ new.of = d /\ new.nr = h.nr /\ new.state = St(World, d)
        /\ new \in [of : Nat, nr : Nat, state : States]
    BY <1>3
  <2>3. /\ Around'.draining = Around.draining /\ Around'.handling = h
        /\ Around'.own = Around.own /\ Around'.joins = Around.joins
        /\ Around'.races = Around.races /\ Around'.calls = Around.calls
        /\ Around'.heard = Append(Around.heard, new)
    BY <1>2, <2>1, AroundIs
  <2> HIDE DEF new, h, t, d
  <2>4. PInv(t, Around') /\ Dom(t) = Dom(World)
    BY <1>1, <2>2, <2>3, HandlerKeeps DEF h, t
  <2> QED
    BY <1>1, <2>1, <2>4, InvNext
<1>5. CASE St(World, d) \notin h.on
  <2> DEFINE v == IF St(World, d) = "fulfilled" THEN Resolve(t, h.to, Val(World, d))
                                                ELSE Settle(t, h.to, "rejected", Val(World, d))
  <2>1. Becomes(v) /\ UNCHANGED <<handling, heard>>
    <3>1. /\ IF St(World, d) = "fulfilled"
               THEN Becomes(Resolve(t, h.to, Val(World, d)))
               ELSE Becomes(Settle(t, h.to, "rejected", Val(World, d)))
          /\ UNCHANGED <<handling, heard>>
      BY <1>1, <1>5 DEF CallHandler
    <3> HIDE DEF t, h, d
    <3> QED
      BY <3>1
  <2>2. Around' = Around
    BY <1>2, <2>1 DEF Around
  <2>3. PInv(v, Around) /\ Dom(v) = Dom(World)
    <3>1. h.kind \in {"user", "follow"}
      BY <1>1
    <3> HIDE DEF v, h, t, d
    <3> QED
      BY <1>1, <3>1, PassKeeps DEF v, h, t
  <2> HIDE DEF v
  <2> QED
    BY <1>1, <2>1, <2>2, <2>3, InvNext
<1> QED
  BY <1>4, <1>5

LEMMA HandlerReturnsKeeps ==
    ASSUME PromisesInv, HandlerReturns
    PROVE  PromisesInv'
<1>1. /\ PInv(World, Around) /\ WorldType(World) /\ Dom(World) \subseteq 1 .. MaxPromises
      /\ DOMAIN promises = Dom(World) /\ Dom(World) \subseteq Nat
  BY InvParts
<1> DEFINE p == handling.to
<1>2. p \in Free(World, Around) /\ p \in Dom(World)
  BY <1>1, AroundIs DEF HandlerReturns, PInv, Targets, Free
<1>3. \E v : PInv(v, Around) /\ Dom(v) = Dom(World) /\ Becomes(v)
  <2>1. \/ \E x \in {Nil, Plain} \cup DOMAIN promises : Becomes(Resolve(World, p, x))
        \/ Becomes(Settle(World, p, "rejected", Plain))
    BY DEF HandlerReturns
  <2> HIDE DEF p
  <2>2. ASSUME NEW x \in {Nil, Plain} \cup DOMAIN promises, Becomes(Resolve(World, p, x))
        PROVE  \E v : PInv(v, Around) /\ Dom(v) = Dom(World) /\ Becomes(v)
    <3> DEFINE v == Resolve(World, p, x)
    <3>1. x \in Int
      BY <1>1 DEF Nil, Plain
    <3>2. PInv(v, Around) /\ Dom(v) = Dom(World)
      BY <1>1, <1>2, <3>1, ResolveStep, SameDom
    <3> HIDE DEF v
    <3> QED
      BY <2>2, <3>2 DEF v
  <2>3. ASSUME Becomes(Settle(World, p, "rejected", Plain))
        PROVE  \E v : PInv(v, Around) /\ Dom(v) = Dom(World) /\ Becomes(v)
    <3> DEFINE v == Settle(World, p, "rejected", Plain)
    <3>1. "rejected" \in States /\ Plain \in Int
      BY DEF States, Plain
    <3>2. PInv(v, Around) /\ Dom(v) = Dom(World)
      BY <1>1, <1>2, <3>1, FreeMaySettle, SettleStep, SameDom
    <3> HIDE DEF v
    <3> QED
      BY <2>3, <3>2 DEF v
  <2> QED
    BY <2>1, <2>2, <2>3
<1>4. PICK v : PInv(v, Around) /\ Dom(v) = Dom(World) /\ Becomes(v)
  BY <1>3
<1>5. /\ Around'.draining = Around.draining /\ Around'.handling \in {Around.handling, NoEntry}
      /\ Around'.own = Around.own /\ Around'.joins = Around.joins
      /\ Around'.races = Around.races /\ Around'.calls = Around.calls
      /\ Around'.heard = Around.heard
  BY AroundIs DEF HandlerReturns
<1>6. Around.own \subseteq Free(v, Around) /\ Around.calls \in Nat
  BY <1>4 DEF PInv, Targets, AroundType
<1>7. PInv(v, Around')
  BY <1>4, <1>5, <1>6, CallStays
<1> QED
  BY <1>1, <1>4, <1>7, InvNext

LEMMA FollowKeeps ==
    ASSUME PromisesInv, Follow
    PROVE  PromisesInv'
<1> DEFINE d == draining
           h == Head(Qu(World, d))
           t == TakenFrom(World, d)
<1>1. Around' = Around
  BY DEF Follow, Around
<1>2. CASE Takes("follow")
  <2> DEFINE v == IF St(World, d) = "fulfilled" THEN Resolve(t, h.to, Val(World, d))
                                                ELSE Settle(t, h.to, "rejected", Val(World, d))
  <2>1. /\ PInv(World, Around) /\ d \in Dom(World) /\ Around.draining = d
        /\ IsSettled(World, d) /\ Qu(World, d) # <<>> /\ h.kind = "follow"
        /\ promises[d].queue = Qu(World, d) /\ promises[d].state = St(World, d)
        /\ promises[d].value = Val(World, d)
        /\ Taken = t /\ Dom(World) \subseteq 1 .. MaxPromises
    BY <1>2, TakesIs
  <2>2. Becomes(v)
    <3>1. IF St(World, d) = "fulfilled"
            THEN Becomes(Resolve(t, h.to, Val(World, d)))
            ELSE Becomes(Settle(t, h.to, "rejected", Val(World, d)))
      BY <2>1 DEF Follow, Takes
    <3> HIDE DEF t, h, d
    <3> QED
      BY <3>1
  <2>3. h.kind \in {"user", "follow"}
    BY <2>1
  <2>4. PInv(v, Around) /\ Dom(v) = Dom(World)
    <3> HIDE DEF v, h, t, d
    <3> QED
      BY <2>1, <2>3, PassKeeps DEF v, h, t
  <2> HIDE DEF v
  <2> QED
    BY <1>1, <2>1, <2>2, <2>4, InvNext
<1>3. CASE Takes("reject")
  <2> DEFINE v == IF St(World, d) = "rejected" THEN Settle(t, h.to, "rejected", Val(World, d))
                                               ELSE t
  <2>1. /\ PInv(World, Around) /\ d \in Dom(World) /\ Around.draining = d
        /\ IsSettled(World, d) /\ Qu(World, d) # <<>> /\ h.kind = "reject"
        /\ promises[d].queue = Qu(World, d) /\ promises[d].state = St(World, d)
        /\ promises[d].value = Val(World, d)
        /\ Taken = t /\ Dom(World) \subseteq 1 .. MaxPromises
    BY <1>3, TakesIs
  <2>2. Becomes(v)
    BY <2>1 DEF Follow, Takes
  <2>3. PInv(v, Around) /\ Dom(v) = Dom(World)
    <3> HIDE DEF v, h, t, d
    <3> QED
      BY <2>1, RejectKeeps DEF v, h, t
  <2> HIDE DEF v
  <2> QED
    BY <1>1, <2>1, <2>2, <2>3, InvNext
<1>4. CASE Takes("first")
  <2> DEFINE v == IF St(World, d) = "fulfilled" THEN Settle(t, h.to, "fulfilled", Val(World, d))
                                                ELSE t
  <2>1. /\ PInv(World, Around) /\ d \in Dom(World) /\ Around.draining = d
        /\ IsSettled(World, d) /\ Qu(World, d) # <<>> /\ h.kind = "first"
        /\ promises[d].queue = Qu(World, d) /\ promises[d].state = St(World, d)
        /\ promises[d].value = Val(World, d)
        /\ Taken = t /\ Dom(World) \subseteq 1 .. MaxPromises
    BY <1>4, TakesIs
  <2>2. Becomes(v)
    BY <2>1 DEF Follow, Takes
  <2>3. PInv(v, Around) /\ Dom(v) = Dom(World)
    <3> HIDE DEF v, h, t, d
    <3> QED
      BY <2>1, FirstKeeps DEF v, h, t
  <2> HIDE DEF v
  <2> QED
    BY <1>1, <2>1, <2>2, <2>3, InvNext
<1> QED
  BY <1>2, <1>3, <1>4 DEF Follow

LEMMA JoinActs ==
    ASSUME PromisesInv, Join
    PROVE  PromisesInv'
<1> DEFINE d == draining
           h == Head(Qu(World, d))
           t == TakenFrom(World, d)
           join == CountedJoin(joins[h.to], St(World, d))
           v == FinishAll(t, join)
<1>1. /\ PInv(World, Around) /\ d \in Dom(World) /\ Around.draining = d
      /\ IsSettled(World, d) /\ Qu(World, d) # <<>> /\ h.kind = "all"
      /\ promises[d].queue = Qu(World, d) /\ promises[d].state = St(World, d)
      /\ Taken = t /\ Dom(World) \subseteq 1 .. MaxPromises
  BY TakesIs DEF Join
<1>2. joins' = [joins EXCEPT ![h.to] = join] /\ Becomes(v)
  <2> DEFINE nr == Head(promises[draining].queue).to
             counted == [joins[nr] EXCEPT
                          !.remaining = @ - 1,
                          !.failed = @ \/ promises[draining].state = "rejected"]
  <2>1. joins' = [joins EXCEPT ![nr] = counted] /\ Becomes(FinishAll(Taken, counted))
    BY Zenon DEF Join
  <2>2. nr = h.to
    BY <1>1
  <2>3. counted = CountedJoin(joins[nr], St(World, d))
    BY <1>1, Zenon DEF CountedJoin
  <2> HIDE DEF counted, nr
  <2>4. counted = join
    BY <2>2, <2>3
  <2> QED
    BY <1>1, <2>1, <2>2, <2>4
<1>3. Counting(World, Around, d, h.to, join, Around')
  <2>1. OnlyJoins(Around, Around')
    BY AroundIs DEF Join, OnlyJoins
  <2>2. join = CountedJoin(Around.joins[h.to], St(World, d))
    BY AroundIs
  <2> HIDE DEF join, h
  <2>3. Around'.joins = [Around.joins EXCEPT ![h.to] = join]
    BY <1>2, AroundIs
  <2> QED
    BY <2>1, <2>2, <2>3, Zenon DEF Counting
<1>4. v = FinishAll(t, join) /\ h = Head(Qu(World, d)) /\ t = TakenFrom(World, d)
  OBVIOUS
<1> HIDE DEF v, join, h, t, d
<1>5. CountsOne(t, Around', join) /\ Dom(t) = Dom(World)
  <2>1. PICK w, a, b, nr, j, u :
           /\ w = World /\ a = Around /\ b = Around' /\ nr = h.to /\ j = join /\ u = t
    OBVIOUS
  <2>2. /\ PInv(w, a) /\ d \in Dom(w) /\ a.draining = d /\ IsSettled(w, d)
        /\ Qu(w, d) # <<>> /\ Head(Qu(w, d)).kind = "all" /\ nr = Head(Qu(w, d)).to
        /\ u = TakenFrom(w, d) /\ Counting(w, a, d, nr, j, b)
    BY <1>1, <1>3, <1>4, <2>1
  <2>3. CountsOne(u, b, j) /\ Dom(u) = Dom(w)
    BY <2>2, JoinCounts
  <2> QED
    BY <2>1, <2>3
<1>6. PInv(v, Around') /\ Dom(v) = Dom(t)
  BY <1>4, <1>5, FinishKeeps
<1> QED
  BY <1>1, <1>2, <1>5, <1>6, InvNext

-----------------------------------------------------------------------------
(* Promises: the theorems. *)

LEMMA InitKeeps == PromisesInit => PromisesInv
<1> SUFFICES ASSUME PromisesInit PROVE PromisesInv
  OBVIOUS
<1>1. Made \in Nat /\ MaxPromises \in Nat /\ Made <= MaxPromises
  BY PromisesAssumption
<1>2. PICK w, a : w = World /\ a = Around
  OBVIOUS
<1>3. /\ w.promises = [p \in 1 .. Made |-> NewPromise] /\ w.timeouts = <<>>
      /\ w = [promises |-> w.promises, timeouts |-> w.timeouts]
      /\ a.draining = Nobody /\ a.handling = NoEntry /\ a.own = 1 .. Made
      /\ a.joins = <<>> /\ a.races = <<>> /\ a.calls = 0 /\ a.heard = <<>>
  BY <1>2, AroundIs DEF PromisesInit, World
<1>4. NewPromise \in PromiseType
  BY EmptySeq DEF NewPromise, PromiseType, Nil
<1>5. w.promises \in Seq(PromiseType) /\ Len(w.promises) = Made
  BY <1>1, <1>3, <1>4
<1>6. Dom(w) = 1 .. Made /\ Dom(w) \subseteq 1 .. MaxPromises
  BY <1>1, <1>5 DEF Dom
<1>7. \A p \in Dom(w) : St(w, p) = "pending" /\ Val(w, p) = Nil /\ Qu(w, p) = <<>>
  BY <1>3, <1>6 DEF St, Val, Qu, NewPromise
<1>8. Len(a.joins) = 0 /\ Len(a.races) = 0 /\ Len(a.heard) = 0 /\ Len(w.timeouts) = 0
  BY <1>3
<1>9. WorldType(w)
  <2>1. w \in [promises : Seq(PromiseType), timeouts : Seq(Nat)]
    BY <1>3, <1>5, EmptySeq
  <2> QED
    BY <1>7, <1>8, <2>1 DEF WorldType, IsSettled
<1>10. AroundType(w, a)
  BY <1>3, EmptySeq DEF AroundType
<1>11. Apart(w, a) /\ HeardOK(w, a)
  BY <1>8 DEF Apart, HeardOK
<1>12. Targets(w, a) /\ Numbered(w, a)
  <2>1. a.own \subseteq Free(w, a)
    BY <1>3, <1>6, <1>8 DEF Free, JoinTo, RaceTo
  <2>2. \A p \in Dom(w) : Len(Qu(w, p)) = 0
    BY <1>7
  <2> QED
    BY <1>3, <2>1, <2>2 DEF Targets, Numbered
<1>13. PInv(w, a)
  BY <1>8, <1>9, <1>10, <1>11, <1>12 DEF PInv
<1> QED
  BY <1>2, <1>6, <1>13 DEF PromisesInv

LEMMA PromisesStep == PromisesInv /\ [PromisesNext]_promiseVars => PromisesInv'
<1> SUFFICES ASSUME PromisesInv, [PromisesNext]_promiseVars PROVE PromisesInv'
  OBVIOUS
<1>1. CASE PromiseRuns
  BY <1>1, RunQueueKeeps, EndQueueKeeps, CallHandlerKeeps, HandlerReturnsKeeps, FollowKeeps,
     JoinActs DEF PromiseRuns
<1>2. CASE MakePromise
  BY <1>2, MakePromiseKeeps
<1>3. CASE SettlePromise
  BY <1>3, SettlePromiseKeeps
<1>4. CASE Together
  <2>1. PICK inputs \in SeqOf(DOMAIN promises, MaxInputs) : All(inputs) \/ Race(inputs)
    BY <1>4 DEF Together
  <2> QED
    BY <2>1, AllActs, RaceActs
<1>5. CASE \E p \in DOMAIN promises, on \in SUBSET States \ {{}} : NextOf(p, on)
  BY <1>5, NextOfKeeps
<1>6. CASE UNCHANGED promiseVars
  <2>1. World' = World /\ Around' = Around
    BY <1>6 DEF promiseVars, World, Around
  <2>2. Becomes(World) /\ PInv(World, Around) /\ Dom(World) \subseteq 1 .. MaxPromises
    BY <1>6, InvParts DEF promiseVars, Becomes, World
  <2> QED
    BY <2>1, <2>2, InvNext
<1> QED
  BY <1>1, <1>2, <1>3, <1>4, <1>5, <1>6 DEF PromisesNext

\* What is told of all().
LEMMA JoinSays ==
    ASSUME NEW w, NEW a, PInv(w, a), NEW j \in 1 .. Len(a.joins), NEW join,
           join = a.joins[j], IsSettled(w, join.to)
    PROVE  /\ \A i \in 1 .. Len(join.inputs) : IsSettled(w, join.inputs[i])
           /\ (St(w, join.to) = "fulfilled")
                <=> \A i \in 1 .. Len(join.inputs) : St(w, join.inputs[i]) = "fulfilled"
<1>1. JoinOK(w, j, join) /\ WorldType(w)
  BY DEF PInv
<1>2. join.remaining = 0 /\ (St(w, join.to) = "fulfilled" <=> ~join.failed)
  BY <1>1 DEF JoinOK
<1>3. ASSUME NEW i \in 1 .. Len(join.inputs)
      PROVE  /\ IsSettled(w, join.inputs[i])
             /\ St(w, join.inputs[i]) = "rejected" => join.failed
             /\ St(w, join.inputs[i]) \in States
  <2>1. join.inputs[i] \in Dom(w)
    BY <1>1, <1>3 DEF JoinOK
  <2>2. /\ Qu(w, join.inputs[i]) \in Seq(Entries)
        /\ St(w, join.inputs[i]) \in {"pending"} \cup States
    BY <1>1, <2>1, WorldParts
  <2>3. ~Waits(w, join.inputs[i], Internal("all", j))
    BY <1>1, <1>2, <2>1, <2>2, NoneWaits
  <2> QED
    BY <1>1, <1>3, <2>2, <2>3 DEF JoinOK, IsSettled
<1>4. join.failed => \E i \in 1 .. Len(join.inputs) : St(w, join.inputs[i]) = "rejected"
  BY <1>1 DEF JoinOK
<1> QED
  BY <1>2, <1>3, <1>4 DEF States

LEMMA KeptFollows == PromisesInv => PromisesKept
<1> SUFFICES ASSUME PromisesInv PROVE PromisesKept
  OBVIOUS
<1>1. PICK w, a : w = World /\ a = Around
  OBVIOUS
<1>2. /\ PInv(w, a) /\ HeardOK(w, a) /\ AroundType(w, a)
      /\ \A r \in 1 .. Len(a.races) : RaceOK(w, a, a.races[r])
  BY <1>1, InvParts DEF PInv
<1>3. a.heard = heard /\ a.joins = joins /\ a.races = races
  BY <1>1, AroundIs
<1>4. \A p : StateOf(p) = St(w, p) /\ (Settled(p) <=> IsSettled(w, p))
  BY <1>1 DEF StateOf, Settled, IsSettled, St, World
<1>5. /\ DOMAIN heard = 1 .. Len(heard) /\ DOMAIN joins = 1 .. Len(joins)
      /\ DOMAIN races = 1 .. Len(races)
  BY <1>2, <1>3 DEF AroundType
<1>6. /\ \A i \in DOMAIN heard : heard[i].state = StateOf(heard[i].of)
      /\ \A i, j \in DOMAIN heard :
            i < j /\ heard[i].of = heard[j].of => heard[i].nr < heard[j].nr
  BY <1>2, <1>3, <1>4, <1>5 DEF HeardOK
<1>7. ASSUME NEW j \in DOMAIN joins, Settled(joins[j].to)
      PROVE  /\ StateOf(joins[j].to) = "fulfilled" =>
                   \A i \in DOMAIN joins[j].inputs : StateOf(joins[j].inputs[i]) = "fulfilled"
             /\ StateOf(joins[j].to) = "rejected" => AnyIs("rejected", joins[j].inputs)
  <2>1. PICK join : join = joins[j]
    OBVIOUS
  <2>2. j \in 1 .. Len(a.joins) /\ join = a.joins[j] /\ IsSettled(w, join.to)
    BY <1>3, <1>4, <1>5, <1>7, <2>1
  <2>3. DOMAIN join.inputs = 1 .. Len(join.inputs)
    BY <1>2, <2>2, SMTT(30) DEF AroundType, JoinType
  <2>4. St(w, join.to) = "fulfilled" =>
          \A i \in DOMAIN join.inputs : St(w, join.inputs[i]) = "fulfilled"
    BY <1>2, <2>2, <2>3, JoinSays
  <2>5. St(w, join.to) = "rejected" =>
          \E i \in DOMAIN join.inputs : St(w, join.inputs[i]) = "rejected"
    <3>1. JoinOK(w, j, join)
      BY <1>2, <2>2 DEF PInv
    <3> QED
      BY <2>2, <2>3, <3>1 DEF JoinOK
  <2> QED
    BY <1>4, <2>1, <2>4, <2>5 DEF AnyIs
<1>8. ASSUME NEW r \in DOMAIN races
      PROVE  /\ StateOf(races[r].to) = "fulfilled" => AnyIs("fulfilled", races[r].inputs)
             /\ StateOf(races[r].to) = "rejected" /\ races[r].inputs # <<>> =>
                   AnyIs("rejected", races[r].inputs)
  <2>1. PICK race : race = races[r]
    OBVIOUS
  <2>2. RaceOK(w, a, race) /\ race \in RaceType
    BY <1>2, <1>3, <1>4, <1>5, <1>8, <2>1 DEF AroundType
  <2>3. DOMAIN race.inputs = 1 .. Len(race.inputs)
    BY <2>2 DEF RaceType
  <2>4. St(w, race.to) = "fulfilled" =>
          \E i \in DOMAIN race.inputs : St(w, race.inputs[i]) = "fulfilled"
    BY <2>2, <2>3 DEF RaceOK, IsSettled
  <2>5. ASSUME St(w, race.to) = "rejected", race.inputs # <<>>
        PROVE  \E i \in DOMAIN race.inputs : St(w, race.inputs[i]) = "rejected"
    <3>1. \A i \in 1 .. Len(race.inputs) : St(w, race.inputs[i]) = "rejected"
      BY <2>2, <2>5 DEF RaceOK, IsSettled
    <3>2. 1 \in 1 .. Len(race.inputs)
      BY <2>2, <2>5 DEF RaceType
    <3> QED
      BY <2>3, <3>1, <3>2
  <2> QED
    BY <1>4, <2>1, <2>4, <2>5 DEF AnyIs
<1> QED
  BY <1>6, <1>7, <1>8 DEF PromisesKept, Settled

LEMMA TypeFollows == PromisesInv => PromisesTypeOK
<1> SUFFICES ASSUME PromisesInv PROVE PromisesTypeOK
  OBVIOUS
<1>1. /\ PInv(World, Around) /\ WorldType(World) /\ DOMAIN promises = Dom(World)
      /\ Dom(World) \subseteq 1 .. MaxPromises /\ own \subseteq Free(World, Around)
      /\ \A p : promises[p].state = St(World, p) /\ promises[p].value = Val(World, p)
      /\ draining # Nobody => draining \in Dom(World)
  BY InvParts
<1>2. \A p \in Dom(World) : /\ St(World, p) \in {"pending"} \cup States
                            /\ (St(World, p) = "pending") <=> (Val(World, p) = Nil)
  BY <1>1, WorldParts DEF WorldType, IsSettled
<1>3. Len(promises) <= MaxPromises
  <2>1. promises \in Seq(PromiseType) /\ Dom(World) = 1 .. Len(promises)
    BY <1>1 DEF WorldType, World, Dom
  <2>2. Len(promises) \in Nat /\ MaxPromises \in Nat
    BY <2>1, PromisesAssumption
  <2>3. Len(promises) > 0 => Len(promises) \in 1 .. Len(promises)
    BY <2>2
  <2> QED
    BY <1>1, <2>1, <2>2, <2>3
<1>4. timeouts \in Seq(DOMAIN promises)
  <2>1. /\ timeouts \in Seq(Nat)
        /\ \A i \in 1 .. Len(timeouts) : timeouts[i] \in Dom(World)
    BY <1>1 DEF WorldType, World
  <2>2. \A i \in 1 .. Len(timeouts) : timeouts[i] \in DOMAIN promises
    BY <1>1, <2>1
  <2> QED
    BY <2>1, <2>2
<1>5. own \subseteq DOMAIN promises
  BY <1>1 DEF Free
<1>6. \A j \in DOMAIN joins : joins[j].remaining >= 0
  <2> SUFFICES ASSUME NEW j \in DOMAIN joins PROVE joins[j].remaining >= 0
    OBVIOUS
  <2>1. joins \in Seq(JoinType)
    BY <1>1, AroundIs DEF PInv, AroundType
  <2>2. JoinOK(World, j, joins[j])
    BY <1>1, <2>1, AroundIs DEF PInv
  <2> QED
    BY <2>2, FS_CardinalityType DEF JoinOK
<1> QED
  BY <1>1, <1>2, <1>3, <1>4, <1>5, <1>6 DEF PromisesTypeOK, Nobody

\* The inductive invariant: calls of user code, also of handlers, and the loop of run()
\* keep it.
THEOREM PromisesInvariant == PromisesSpec => []PromisesInv
<1> QED
  BY InitKeeps, PromisesStep, PTL DEF PromisesSpec

\* Every promise is pending or settled for good with a value, whatever is called: the
\* counter of all() does not go below zero, and a timeout is always that of a promise.
THEOREM PromisesTyped == PromisesSpec => []PromisesTypeOK
<1> QED
  BY PromisesInvariant, TypeFollows, PTL

\* Handlers are told once, in order, what stays true; all() is fulfilled only when all of
\* its inputs are, race() only when one is, and neither is rejected without a rejected
\* input (promise.lua: run, transition, all, race), for any number of calls.
THEOREM PromisesAreKept == PromisesSpec => []PromisesKept
<1> QED
  BY PromisesInvariant, KeptFollows, PTL
=============================================================================

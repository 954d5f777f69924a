---------------------------- MODULE PartsProofs ----------------------------
(***************************************************************************)
(* Proofs about the idle timers, the emitter and the socket, for any       *)
(* number of items, listeners and writes; and about the parts together:    *)
(* what is proved of each holds of a runtime that runs any of them.        *)
(***************************************************************************)
EXTENDS MCParts, AnswerProofs, PromisesProofs

-----------------------------------------------------------------------------
(* Idle timers: the inductive invariant. *)

\* The lists that are in use are those of the open timers, one list to a timer.
ListsOpen ==
    /\ \A d \in Delays : lists[d] # NoTimer => lists[d] \in open
    /\ \A t \in open : \E d \in Delays : lists[d] = t
    /\ \A d, e \in Delays : lists[d] = lists[e] /\ lists[d] # NoTimer => d = e

\* An item is linked to the list of its delay, and to no other.
Homes ==
    \A t \in Timers : \A k \in 1 .. Len(queue[t]) :
       idleTimeout[queue[t][k]] \in Delays /\ lists[idleTimeout[queue[t][k]]] = t

\* The timer that expires is still that of its delay, or of none: it may have been closed.
Expires ==
    /\ expiring # NoTimer =>
         delay \in Delays /\ \A d \in Delays : lists[d] = expiring => d = delay
    /\ expiring = NoTimer => callsLeft = Unset

\* A list that does not expire has items and a timer that fires in time for the oldest.
Waiting ==
    \A d \in Delays : lists[d] \notin {NoTimer, expiring} =>
       LET t == lists[d]
       IN  queue[t] # <<>> /\ due[t] # NoTimer /\ due[t] <= idleStart[Head(queue[t])] + d

Past == \A item \in Items : idleStart[item] <= now

IdleInv == IdleTypeOK /\ ListsOpen /\ Homes /\ Expires /\ Waiting /\ Past /\ OldestFirst

LEMMA TimersAreNumbers ==
    /\ Timers \subseteq Nat \ {0}
    /\ Delays \subseteq Nat \ {0, 1} /\ Unset \notin Delays
    /\ MaxTime \in Nat /\ ListenerCalls \in Nat
<1>1. Cardinality(Delays) \in Nat
  BY IdleTimersAssumption, FS_CardinalityType
<1> QED
  BY <1>1, IdleTimersAssumption DEF Timers, Unset

-----------------------------------------------------------------------------
(* Lists that items are taken out of. *)

\* What is left of s in its order: r has no elements but those of s.
Shrunk(r, s) ==
    \A j, k \in 1 .. Len(r) : j <= k =>
       \E m, n \in 1 .. Len(s) : m <= n /\ r[j] = s[m] /\ r[k] = s[n]

LEMMA WithoutProps ==
    ASSUME NEW A, NEW s \in Seq(A), IsInjective(s), NEW x
    PROVE  /\ Without(s, x) \in Seq(A)
           /\ IsInjective(Without(s, x))
           /\ \A k \in 1 .. Len(Without(s, x)) : Without(s, x)[k] # x
           /\ Shrunk(Without(s, x), s)
           /\ (\A k \in 1 .. Len(s) : s[k] # x) => Without(s, x) = s
<1> DEFINE r == Without(s, x)
<1>1. CASE \A k \in 1 .. Len(s) : s[k] # x
  BY <1>1 DEF Without, Shrunk
<1>2. CASE \E k \in 1 .. Len(s) : s[k] = x
  <2> DEFINE p == Position(s, x)
             a == SubSeq(s, 1, p - 1)
             b == SubSeq(s, p + 1, Len(s))
  <2>1. p \in 1 .. Len(s) /\ s[p] = x
    BY <1>2 DEF Position
  <2>2. r = a \o b
    BY <1>2 DEF Without, RemoveAt
  <2> HIDE DEF p, r
  <2>3. a \in Seq(A) /\ Len(a) = p - 1 /\ \A j \in 1 .. p - 1 : a[j] = s[j]
    BY <2>1
  <2>4. b \in Seq(A) /\ Len(b) = Len(s) - p
        /\ \A j \in 1 .. Len(s) - p : b[j] = s[p + j]
    BY <2>1
  <2> HIDE DEF a, b
  <2>5. r \in Seq(A) /\ Len(r) = Len(a) + Len(b)
        /\ \A j \in 1 .. Len(a) + Len(b) : r[j] = IF j <= Len(a) THEN a[j] ELSE b[j - Len(a)]
    BY <2>2, <2>3, <2>4, ConcatProperties
  <2>6. Len(r) = Len(s) - 1 /\ Len(s) \in Nat
    BY <2>1, <2>3, <2>4, <2>5, LenProperties
  <2>7. \A j \in 1 .. Len(r) : r[j] = IF j < p THEN s[j] ELSE s[j + 1]
    <3> SUFFICES ASSUME NEW j \in 1 .. Len(r) PROVE r[j] = IF j < p THEN s[j] ELSE s[j + 1]
      OBVIOUS
    <3>1. r[j] = IF j <= p - 1 THEN a[j] ELSE b[j - (p - 1)]
      BY <2>1, <2>3, <2>4, <2>5, <2>6
    <3>2. CASE j < p
      BY <2>1, <2>3, <3>1, <3>2
    <3>3. CASE j >= p
      <4>1. j - (p - 1) \in 1 .. Len(s) - p /\ p + (j - (p - 1)) = j + 1
        BY <2>1, <2>6, <3>3
      <4>2. b[j - (p - 1)] = s[p + (j - (p - 1))]
        BY <2>4, <4>1
      <4> QED
        BY <2>1, <3>1, <3>3, <4>1, <4>2
    <3> QED
      BY <2>1, <3>2, <3>3
  <2>8. \A i, j \in 1 .. Len(s) : s[i] = s[j] => i = j
    BY DEF IsInjective
  <2>9. \A i, j \in 1 .. Len(r) : r[i] = r[j] => i = j
    BY <2>1, <2>6, <2>7, <2>8
  <2>10. IsInjective(r)
    BY <2>5, <2>9 DEF IsInjective
  <2>11. \A k \in 1 .. Len(r) : r[k] # x
    BY <2>1, <2>6, <2>7, <2>8
  <2>12. Shrunk(r, s)
    <3> DEFINE f(j) == IF j < p THEN j ELSE j + 1
    <3>1. \A j \in 1 .. Len(r) : f(j) \in 1 .. Len(s) /\ r[j] = s[f(j)]
      BY <2>1, <2>6, <2>7
    <3>2. \A j, k \in 1 .. Len(r) : j <= k => f(j) <= f(k)
      BY <2>1, <2>6
    <3> HIDE DEF f
    <3> QED
      BY <3>1, <3>2 DEF Shrunk
  <2> QED
    BY <1>2, <2>5, <2>10, <2>11, <2>12 DEF r
<1> QED
  BY <1>1, <1>2

\* Times that grow along s grow along what is left of it.
LEMMA ShrunkOrder ==
    ASSUME NEW r \in Seq(Items), NEW s \in Seq(Items), Shrunk(r, s),
           NEW f \in [Items -> Int],
           \A j, k \in 1 .. Len(s) : j < k => f[s[j]] <= f[s[k]]
    PROVE  /\ \A j, k \in 1 .. Len(r) : j < k => f[r[j]] <= f[r[k]]
           /\ r # <<>> => s # <<>> /\ f[Head(s)] <= f[Head(r)]
<1>1. \A m, n \in 1 .. Len(s) : m <= n => f[s[m]] <= f[s[n]]
  BY ElementOfSeq
<1>2. \A j, k \in 1 .. Len(r) : j < k => f[r[j]] <= f[r[k]]
  <2> SUFFICES ASSUME NEW j \in 1 .. Len(r), NEW k \in 1 .. Len(r), j < k
               PROVE  f[r[j]] <= f[r[k]]
    OBVIOUS
  <2>1. PICK m \in 1 .. Len(s), n \in 1 .. Len(s) : m <= n /\ r[j] = s[m] /\ r[k] = s[n]
    BY DEF Shrunk
  <2> QED
    BY <1>1, <2>1
<1>3. ASSUME r # <<>> PROVE s # <<>> /\ f[Head(s)] <= f[Head(r)]
  <2>1. 1 \in 1 .. Len(r) /\ Head(r) = r[1]
    BY <1>3, EmptySeq
  <2>2. PICK m \in 1 .. Len(s) : r[1] = s[m]
    BY <2>1 DEF Shrunk
  <2>3. s # <<>> /\ 1 \in 1 .. Len(s) /\ Head(s) = s[1] /\ 1 <= m
    BY <2>2, EmptySeq
  <2> QED
    BY <1>1, <2>1, <2>2, <2>3
<1> QED
  BY <1>2, <1>3

LEMMA RemovedProps ==
    ASSUME IdleInv, NEW item \in Items
    PROVE  /\ Removed(item) \in [Timers -> Seq(Items)]
           /\ \A t \in Timers :
                /\ IsInjective(Removed(item)[t])
                /\ \A k \in 1 .. Len(Removed(item)[t]) : Removed(item)[t][k] # item
                /\ Shrunk(Removed(item)[t], queue[t])
                /\ ~(idleTimeout[item] \in Delays /\ lists[idleTimeout[item]] = t)
                     => Removed(item)[t] = queue[t]
<1>1. \A t \in Timers : queue[t] \in Seq(Items) /\ IsInjective(queue[t])
  BY DEF IdleInv, IdleTypeOK
<1>2. \A t \in Timers : Removed(item)[t] = Without(queue[t], item)
  BY DEF Removed
<1>3. \A t \in Timers : Removed(item)[t] \in Seq(Items)
  BY <1>1, <1>2, WithoutProps
<1>4. Removed(item) \in [Timers -> Seq(Items)]
  BY <1>2, <1>3 DEF Removed
<1>5. ASSUME NEW t \in Timers, ~(idleTimeout[item] \in Delays /\ lists[idleTimeout[item]] = t)
      PROVE  Removed(item)[t] = queue[t]
  <2>1. \A k \in 1 .. Len(queue[t]) : queue[t][k] # item
    BY <1>5 DEF IdleInv, Homes
  <2> QED
    BY <1>1, <1>2, <2>1, WithoutProps
<1> QED
  BY <1>1, <1>2, <1>4, <1>5, WithoutProps

\* What a list looks like when the timer of a delay was closed because it was empty.
LEMMA CloseProps ==
    ASSUME IdleInv, NEW m, NEW q, CloseIfEmpty(m, q)
    PROVE  /\ lists' \in [Delays -> Timers \cup {NoTimer}]
           /\ due' \in [Timers -> Nat] /\ open' \subseteq Timers
           /\ ListsOpen'
           /\ \A d \in Delays :
                /\ lists'[d] \in {lists[d], NoTimer}
                /\ lists'[d] # NoTimer => due'[lists[d]] = due[lists[d]]
                /\ lists[d] # NoTimer /\ lists'[d] = NoTimer => d = m /\ q[lists[d]] = <<>>
                /\ d = m /\ lists'[d] # NoTimer => q[lists[d]] # <<>>
           /\ \A t \in Timers : due'[t] # due[t] => due'[t] = NoTimer
<1> DEFINE t == ListOf(m)
<1>1. /\ lists \in [Delays -> Timers \cup {NoTimer}] /\ due \in [Timers -> Nat]
      /\ open \subseteq Timers /\ ListsOpen /\ NoTimer \notin Timers /\ NoTimer \in Nat
  BY TimersAreNumbers DEF IdleInv, IdleTypeOK, NoTimer
<1>2. CASE t # NoTimer /\ q[t] = <<>>
  <2>1. m \in Delays /\ t = lists[m] /\ t \in Timers
    BY <1>1, <1>2 DEF ListOf
  <2>2. /\ due' = [due EXCEPT ![t] = NoTimer]
        /\ open' = open \ {t}
        /\ lists' = [lists EXCEPT ![m] = NoTimer]
    BY <1>2 DEF CloseIfEmpty, Forgotten
  <2> HIDE DEF t
  <2>3. /\ lists' \in [Delays -> Timers \cup {NoTimer}]
        /\ due' \in [Timers -> Nat] /\ open' \subseteq Timers
    BY <1>1, <2>1, <2>2
  <2>4. /\ \A d \in Delays : d # m => lists'[d] = lists[d] /\ lists[d] # t
        /\ lists'[m] = NoTimer
    BY <1>1, <1>2, <2>1, <2>2 DEF ListsOpen
  <2>5. ListsOpen'
    BY <1>1, <2>1, <2>2, <2>4 DEF ListsOpen
  <2>6. \A u \in Timers : due'[u] = IF u = t THEN NoTimer ELSE due[u]
    BY <1>1, <2>2
  <2> QED
    BY <1>1, <1>2, <2>1, <2>3, <2>4, <2>5, <2>6
<1>3. CASE ~(t # NoTimer /\ q[t] = <<>>)
  <2>1. UNCHANGED <<due, open, lists>>
    BY <1>3 DEF CloseIfEmpty
  <2>2. \A d \in Delays : d = m /\ lists[d] # NoTimer => q[lists[d]] # <<>>
    BY <1>3 DEF ListOf
  <2> QED
    BY <1>1, <2>1, <2>2 DEF ListsOpen
<1> QED
  BY <1>2, <1>3

\* An item is taken out of its list and gets a delay, or none.
LEMMA UnlinkStep ==
    ASSUME IdleInv, NEW item \in Items, NEW new \in Delays \cup {Unset},
           queue' = Removed(item), CloseIfEmpty(idleTimeout[item], queue'),
           idleTimeout' = [idleTimeout EXCEPT ![item] = new],
           UNCHANGED <<now, idleStart, loopVars>>,
           selfLinked' \subseteq Items, callsLeft' \in 0 .. ListenerCalls \cup {Unset},
           expiring = NoTimer => callsLeft' = callsLeft
    PROVE  IdleInv'
<1>1. IdleTypeOK /\ IdleInv
  BY DEF IdleInv
<1>2. /\ lists' \in [Delays -> Timers \cup {NoTimer}]
      /\ due' \in [Timers -> Nat] /\ open' \subseteq Timers
      /\ ListsOpen'
      /\ \A d \in Delays :
            /\ lists'[d] \in {lists[d], NoTimer}
            /\ lists'[d] # NoTimer => due'[lists[d]] = due[lists[d]]
            /\ lists[d] # NoTimer /\ lists'[d] = NoTimer
                 => d = idleTimeout[item] /\ queue'[lists[d]] = <<>>
            /\ d = idleTimeout[item] /\ lists'[d] # NoTimer => queue'[lists[d]] # <<>>
  BY CloseProps
<1>3. /\ queue' \in [Timers -> Seq(Items)]
      /\ \A t \in Timers :
           /\ IsInjective(queue'[t])
           /\ \A k \in 1 .. Len(queue'[t]) : queue'[t][k] # item
           /\ Shrunk(queue'[t], queue[t])
           /\ ~(idleTimeout[item] \in Delays /\ lists[idleTimeout[item]] = t)
                => queue'[t] = queue[t]
  BY RemovedProps
<1>4. IdleTypeOK'
  BY <1>1, <1>2, <1>3 DEF IdleTypeOK, loopVars
<1>5. /\ queue \in [Timers -> Seq(Items)] /\ idleStart \in [Items -> Int]
      /\ idleTimeout \in [Items -> Delays \cup {Unset}]
      /\ lists \in [Delays -> Timers \cup {NoTimer}]
      /\ due \in [Timers -> Nat]
      /\ NoTimer \notin Timers
  BY <1>1, TimersAreNumbers DEF IdleTypeOK, NoTimer
<1>6. \A t \in Timers : /\ \A j, k \in 1 .. Len(queue'[t]) : j < k =>
                              idleStart[queue'[t][j]] <= idleStart[queue'[t][k]]
                        /\ queue'[t] # <<>> => queue[t] # <<>>
                             /\ idleStart[Head(queue[t])] <= idleStart[Head(queue'[t])]
  <2> SUFFICES ASSUME NEW t \in Timers
               PROVE  /\ \A j, k \in 1 .. Len(queue'[t]) : j < k =>
                            idleStart[queue'[t][j]] <= idleStart[queue'[t][k]]
                      /\ queue'[t] # <<>> => queue[t] # <<>>
                           /\ idleStart[Head(queue[t])] <= idleStart[Head(queue'[t])]
    OBVIOUS
  <2>1. queue[t] \in Seq(Items) /\ queue'[t] \in Seq(Items) /\ Shrunk(queue'[t], queue[t])
    BY <1>3, <1>5
  <2>2. \A j, k \in 1 .. Len(queue[t]) : j < k =>
           idleStart[queue[t][j]] <= idleStart[queue[t][k]]
    BY <1>1, <2>1 DEF IdleInv, OldestFirst
  <2> QED
    BY <1>5, <2>1, <2>2, ShrunkOrder
<1>7. OldestFirst'
  BY <1>3, <1>6 DEF OldestFirst
<1>8. Homes'
  <2> SUFFICES ASSUME NEW t \in Timers, NEW k \in 1 .. Len(queue'[t])
               PROVE  /\ idleTimeout'[queue'[t][k]] \in Delays
                      /\ lists'[idleTimeout'[queue'[t][k]]] = t
    BY DEF Homes
  <2> DEFINE other == queue'[t][k]
  <2>1. other # item /\ other \in Items
    BY <1>3, ElementOfSeq
  <2>2. PICK n \in 1 .. Len(queue[t]) : other = queue[t][n]
    BY <1>3 DEF Shrunk
  <2>3. idleTimeout[other] \in Delays /\ lists[idleTimeout[other]] = t
    BY <1>1, <2>2 DEF IdleInv, Homes
  <2>4. idleTimeout'[other] = idleTimeout[other]
    BY <1>5, <2>1
  <2>5. lists'[idleTimeout[other]] # NoTimer
    <3>1. queue'[t] # <<>>
      BY <1>3, EmptySeq
    <3> QED
      BY <1>2, <1>5, <2>3, <3>1
  <2> HIDE DEF other
  <2> QED
    BY <1>2, <2>3, <2>4, <2>5 DEF other
<1>9. Expires'
  BY <1>1, <1>2, <1>5 DEF IdleInv, Expires, loopVars, IdleTypeOK
<1>10. Waiting'
  <2> SUFFICES ASSUME NEW d \in Delays, lists'[d] \notin {NoTimer, expiring}
               PROVE  /\ queue'[lists'[d]] # <<>> /\ due'[lists'[d]] # NoTimer
                      /\ due'[lists'[d]] <= idleStart[Head(queue'[lists'[d]])] + d
    BY DEF Waiting, loopVars
  <2> DEFINE t == lists[d]
  <2>1. lists'[d] = t /\ t \in Timers /\ due'[t] = due[t]
    BY <1>2, <1>5
  <2>2. queue[t] # <<>> /\ due[t] # NoTimer /\ due[t] <= idleStart[Head(queue[t])] + d
    BY <1>1, <2>1 DEF IdleInv, Waiting
  <2> HIDE DEF t
  <2>3. queue'[t] # <<>>
    <3>1. CASE idleTimeout[item] \in Delays /\ lists[idleTimeout[item]] = t
      <4>1. idleTimeout[item] = d
        BY <1>1, <1>5, <2>1, <3>1 DEF IdleInv, ListsOpen, t
      <4> QED
        BY <1>2, <1>5, <2>1, <4>1 DEF t
    <3>2. CASE ~(idleTimeout[item] \in Delays /\ lists[idleTimeout[item]] = t)
      BY <1>3, <2>1, <2>2, <3>2
    <3> QED
      BY <3>1, <3>2
  <2>4. idleStart[Head(queue[t])] <= idleStart[Head(queue'[t])]
    BY <1>6, <2>1, <2>3
  <2>5. Head(queue[t]) \in Items /\ Head(queue'[t]) \in Items
    BY <1>3, <1>5, <2>1, <2>2, <2>3, HeadTailProperties
  <2>6. due[t] \in Nat /\ d \in Nat /\ idleStart[Head(queue[t])] \in Int
        /\ idleStart[Head(queue'[t])] \in Int
    BY <1>5, <2>1, <2>5, TimersAreNumbers
  <2> QED
    BY <2>1, <2>2, <2>3, <2>4, <2>6
<1>11. Past'
  BY <1>1 DEF IdleInv, Past
<1> QED
  BY <1>2, <1>4, <1>7, <1>8, <1>9, <1>10, <1>11 DEF IdleInv

-----------------------------------------------------------------------------
(* Idle timers: the steps. *)

LEMMA IdleInitOK == IdleInit => IdleInv
<1> SUFFICES ASSUME IdleInit PROVE IdleInv
  OBVIOUS
<1>1. IdleTypeOK
  <2>1. /\ lists \in [Delays -> Timers \cup {NoTimer}] /\ queue \in [Timers -> Seq(Items)]
        /\ due \in [Timers -> Nat] /\ \A t \in Timers : IsInjective(queue[t])
    BY DEF IdleInit, IsInjective, NoTimer
  <2> QED
    BY <2>1, TimersAreNumbers DEF IdleInit, IdleTypeOK
<1>2. ListsOpen /\ Homes /\ Expires /\ Waiting /\ Past /\ OldestFirst
  BY DEF IdleInit, ListsOpen, Homes, Expires, Waiting, Past, OldestFirst
<1> QED
  BY <1>1, <1>2 DEF IdleInv

LEMMA CallsType ==
    ASSUME IdleInv, MayCall
    PROVE  /\ callsLeft' \in 0 .. ListenerCalls \cup {Unset}
           /\ expiring = NoTimer => callsLeft' = callsLeft
           /\ callsLeft = Unset => callsLeft' = Unset
<1>1. callsLeft \in 0 .. ListenerCalls \cup {Unset} /\ ListenerCalls \in Nat
      /\ (expiring = NoTimer => callsLeft = Unset)
  BY TimersAreNumbers DEF IdleInv, IdleTypeOK, Expires
<1> QED
  BY <1>1 DEF MayCall, Unset

LEMMA UnenrollStep ==
    ASSUME IdleInv, NEW item \in Items, Unenroll(item)
    PROVE  IdleInv'
BY CallsType, UnlinkStep DEF Unenroll, IdleInv, IdleTypeOK

LEMMA EnrollStep ==
    ASSUME IdleInv, NEW item \in Items, NEW msecs \in Delays, Enroll(item, msecs)
    PROVE  IdleInv'
<1>1. /\ callsLeft' \in 0 .. ListenerCalls \cup {Unset}
      /\ expiring = NoTimer => callsLeft' = callsLeft
      /\ selfLinked' \subseteq Items
  BY CallsType DEF Enroll, IdleInv, IdleTypeOK
<1>2. CASE InList(item) \/ item \in selfLinked
  BY <1>1, <1>2, UnlinkStep DEF Enroll
<1>3. CASE ~(InList(item) \/ item \in selfLinked)
  <2>1. \A t \in Timers : \A k \in 1 .. Len(queue[t]) : queue[t][k] # item
    BY <1>3 DEF InList, Contains
  <2>2. UNCHANGED <<now, idleStart, loopVars, timerVars>>
        /\ idleTimeout' = [idleTimeout EXCEPT ![item] = msecs]
    BY <1>3 DEF Enroll
  <2>3. Homes'
    <3>1. \A t \in Timers : \A k \in 1 .. Len(queue[t]) :
             idleTimeout'[queue[t][k]] = idleTimeout[queue[t][k]]
      BY <2>1, <2>2, ElementOfSeq DEF IdleInv, IdleTypeOK
    <3> QED
      BY <2>2, <3>1 DEF IdleInv, Homes, timerVars
  <2>4. IdleTypeOK'
    BY <1>1, <2>2 DEF IdleInv, IdleTypeOK, timerVars, loopVars
  <2>5. ListsOpen' /\ Expires' /\ Waiting' /\ Past' /\ OldestFirst'
    BY <1>1, <2>2 DEF IdleInv, ListsOpen, Expires, Waiting, Past, OldestFirst, timerVars,
       loopVars
  <2> QED
    BY <2>3, <2>4, <2>5 DEF IdleInv
<1> QED
  BY <1>2, <1>3

LEMMA TimePassesStep ==
    ASSUME IdleInv, TimePasses
    PROVE  IdleInv'
<1>1. now' = now + 1 /\ now' \in 0 .. MaxTime
      /\ UNCHANGED <<itemVars, timerVars, loopVars, callsLeft>>
  BY TimersAreNumbers DEF TimePasses, IdleInv, IdleTypeOK
<1>2. IdleTypeOK'
  BY <1>1 DEF IdleInv, IdleTypeOK, itemVars, timerVars, loopVars
<1>3. Past'
  BY <1>1, TimersAreNumbers DEF IdleInv, IdleTypeOK, Past, itemVars
<1>4. ListsOpen' /\ Homes' /\ Expires' /\ Waiting' /\ OldestFirst'
  BY <1>1 DEF IdleInv, ListsOpen, Homes, Expires, Waiting, OldestFirst, itemVars, timerVars,
     loopVars
<1> QED
  BY <1>2, <1>3, <1>4 DEF IdleInv

LEMMA FireStep ==
    ASSUME IdleInv, NEW msecs \in Delays, Fire(msecs)
    PROVE  IdleInv'
<1> DEFINE t == lists[msecs]
<1>1. /\ expiring = NoTimer /\ t \in Timers /\ t # NoTimer
      /\ expiring' = t /\ delay' = msecs
      /\ due' = [due EXCEPT ![t] = NoTimer]
      /\ UNCHANGED <<now, itemVars, lists, queue, open, callsLeft>>
  BY DEF Fire, IdleInv, IdleTypeOK
<1> HIDE DEF t
<1>2. IdleTypeOK'
  <2>1. due' \in [Timers -> Nat]
    BY <1>1 DEF IdleInv, IdleTypeOK, NoTimer
  <2> QED
    BY <1>1, <2>1 DEF IdleInv, IdleTypeOK, itemVars
<1>3. Expires'
  BY <1>1 DEF IdleInv, Expires, ListsOpen, t
<1>4. Waiting'
  BY <1>1 DEF IdleInv, IdleTypeOK, Waiting, itemVars
<1>5. ListsOpen' /\ Homes' /\ Past' /\ OldestFirst'
  BY <1>1 DEF IdleInv, ListsOpen, Homes, Past, OldestFirst, itemVars
<1> QED
  BY <1>2, <1>3, <1>4, <1>5 DEF IdleInv

\* The oldest item of the list that expires is due when the timer of its delay says so.
LEMMA OldestProps ==
    ASSUME IdleInv, Looping, queue[expiring] # <<>>
    PROVE  /\ expiring \in Timers /\ delay \in Delays
           /\ Oldest \in Items /\ idleTimeout[Oldest] = delay /\ lists[delay] = expiring
           /\ idleStart[Oldest] \in Nat /\ now \in Nat /\ idleStart[Oldest] <= now
<1>1. expiring \in Timers /\ delay \in Delays /\ queue[expiring] \in Seq(Items)
  BY DEF Looping, IdleInv, IdleTypeOK, Expires
<1>2. 1 \in 1 .. Len(queue[expiring]) /\ Oldest = queue[expiring][1] /\ Oldest \in Items
  BY <1>1, EmptySeq DEF Oldest
<1>3. idleTimeout[Oldest] \in Delays /\ lists[idleTimeout[Oldest]] = expiring
  BY <1>1, <1>2 DEF IdleInv, Homes
<1>4. idleTimeout[Oldest] = delay
  BY <1>3 DEF IdleInv, Expires, Looping
<1> QED
  BY <1>1, <1>2, <1>3, <1>4, TimersAreNumbers DEF IdleInv, IdleTypeOK, Past

LEMMA RearmStep ==
    ASSUME IdleInv, Rearm
    PROVE  IdleInv'
<1> DEFINE t == expiring
<1>0. /\ t \in Timers /\ delay \in Delays /\ lists[delay] = t
      /\ delay \in Nat \ {0} /\ idleStart[Oldest] \in Nat /\ now \in Nat
  <2>1. Looping /\ queue[expiring] # <<>>
    BY DEF Rearm
  <2> QED
    BY <2>1, OldestProps, TimersAreNumbers
<1>1. /\ due' = [due EXCEPT ![t] = idleStart[Oldest] + delay]
      /\ queue[t] # <<>>
      /\ expiring' = NoTimer /\ delay' = NoTimer /\ callsLeft = Unset
      /\ UNCHANGED <<now, itemVars, lists, queue, open, callsLeft>>
  <2>1. now + delay - (now - idleStart[Oldest]) = idleStart[Oldest] + delay
    BY <1>0
  <2> QED
    BY <2>1 DEF Rearm, NextDue, Silence, Looping
<1>2. /\ t \in Timers /\ delay \in Delays /\ lists[delay] = t
      /\ idleStart[Oldest] + delay \in Nat \ {0}
  BY <1>0
<1>3. IdleTypeOK'
  <2>1. due' \in [Timers -> Nat]
    BY <1>1, <1>2 DEF IdleInv, IdleTypeOK
  <2> QED
    BY <1>1, <2>1 DEF IdleInv, IdleTypeOK, itemVars
<1>4. Waiting'
  <2> SUFFICES ASSUME NEW d \in Delays, lists[d] # NoTimer
               PROVE  /\ queue[lists[d]] # <<>> /\ due'[lists[d]] # NoTimer
                      /\ due'[lists[d]] <= idleStart[Head(queue[lists[d]])] + d
    BY <1>1 DEF Waiting, itemVars
  <2>1. CASE lists[d] = t
    <3>1. d = delay
      BY <1>2, <2>1 DEF IdleInv, ListsOpen
    <3>2. due'[t] = idleStart[Oldest] + delay
      BY <1>1, <1>2 DEF IdleInv, IdleTypeOK
    <3> QED
      BY <1>1, <1>2, <2>1, <3>1, <3>2 DEF Oldest, NoTimer
  <2>2. CASE lists[d] # t
    <3>1. due'[lists[d]] = due[lists[d]]
      BY <1>1, <2>2 DEF IdleInv, IdleTypeOK
    <3> QED
      BY <2>2, <3>1 DEF IdleInv, Waiting
  <2> QED
    BY <2>1, <2>2
<1>5. Expires'
  BY <1>1 DEF Expires
<1>6. ListsOpen' /\ Homes' /\ Past' /\ OldestFirst'
  BY <1>1 DEF IdleInv, ListsOpen, Homes, Past, OldestFirst, itemVars
<1> QED
  BY <1>3, <1>4, <1>5, <1>6 DEF IdleInv

LEMMA TimeoutStep ==
    ASSUME IdleInv, Timeout
    PROVE  IdleInv'
<1> DEFINE t == expiring
<1>1. /\ Looping /\ queue[t] # <<>> /\ queue' = Removed(Oldest)
      /\ callsLeft' = ListenerCalls
      /\ UNCHANGED <<now, itemVars, lists, due, open, loopVars>>
  BY DEF Timeout
<1>2. /\ t \in Timers /\ Oldest \in Items
      /\ idleTimeout[Oldest] = delay /\ lists[delay] = t
  BY <1>1, OldestProps
<1>3. /\ queue' \in [Timers -> Seq(Items)]
      /\ \A u \in Timers : /\ IsInjective(queue'[u]) /\ Shrunk(queue'[u], queue[u])
                           /\ u # t => queue'[u] = queue[u]
  BY <1>1, <1>2, RemovedProps
<1>4. IdleTypeOK'
  BY <1>1, <1>3, TimersAreNumbers DEF IdleInv, IdleTypeOK, itemVars, loopVars
<1>5. Homes'
  <2> SUFFICES ASSUME NEW u \in Timers, NEW k \in 1 .. Len(queue'[u])
               PROVE  /\ idleTimeout[queue'[u][k]] \in Delays
                      /\ lists[idleTimeout[queue'[u][k]]] = u
    BY <1>1 DEF Homes, itemVars
  <2>1. PICK n \in 1 .. Len(queue[u]) : queue'[u][k] = queue[u][n]
    <3>1. Shrunk(queue'[u], queue[u]) /\ k <= k
      BY <1>3
    <3> QED
      BY <3>1 DEF Shrunk
  <2> QED
    BY <2>1 DEF IdleInv, Homes
<1>6. OldestFirst'
  <2> SUFFICES ASSUME NEW u \in Timers
               PROVE  \A j, k \in 1 .. Len(queue'[u]) : j < k =>
                         idleStart[queue'[u][j]] <= idleStart[queue'[u][k]]
    BY <1>1, <1>3 DEF OldestFirst, itemVars
  <2>1. queue[u] \in Seq(Items) /\ queue'[u] \in Seq(Items) /\ Shrunk(queue'[u], queue[u])
        /\ idleStart \in [Items -> Int]
    BY <1>3 DEF IdleInv, IdleTypeOK
  <2>2. \A j, k \in 1 .. Len(queue[u]) : j < k =>
           idleStart[queue[u][j]] <= idleStart[queue[u][k]]
    BY <2>1 DEF IdleInv, OldestFirst
  <2> QED
    BY <2>1, <2>2, ShrunkOrder
<1>7. Waiting'
  <2>1. \A d \in Delays : lists[d] \notin {NoTimer, t} =>
           lists[d] \in Timers /\ queue'[lists[d]] = queue[lists[d]]
    BY <1>3 DEF IdleInv, IdleTypeOK
  <2> QED
    BY <1>1, <2>1 DEF IdleInv, Waiting, itemVars, loopVars
<1>8. ListsOpen' /\ Expires' /\ Past'
  BY <1>1 DEF IdleInv, ListsOpen, Expires, Past, itemVars, loopVars, Looping
<1> QED
  BY <1>4, <1>5, <1>6, <1>7, <1>8 DEF IdleInv

LEMMA ListenerReturnsStep ==
    ASSUME IdleInv, ListenerReturns
    PROVE  IdleInv'
<1>1. callsLeft' = Unset /\ UNCHANGED <<now, itemVars, timerVars, loopVars>>
  BY DEF ListenerReturns
<1> QED
  BY <1>1 DEF IdleInv, IdleTypeOK, ListsOpen, Homes, Expires, Waiting, Past, OldestFirst,
     itemVars, timerVars, loopVars

LEMMA EndExpirationStep ==
    ASSUME IdleInv, EndExpiration
    PROVE  IdleInv'
<1>1. /\ expiring # NoTimer /\ callsLeft = Unset /\ queue[expiring] = <<>>
      /\ CloseIfEmpty(delay, queue)
      /\ expiring' = NoTimer /\ delay' = NoTimer
      /\ UNCHANGED <<now, itemVars, queue, callsLeft>>
  BY DEF EndExpiration, Looping
<1>2. /\ lists' \in [Delays -> Timers \cup {NoTimer}]
      /\ due' \in [Timers -> Nat] /\ open' \subseteq Timers
      /\ ListsOpen'
      /\ \A d \in Delays :
            /\ lists'[d] \in {lists[d], NoTimer}
            /\ lists'[d] # NoTimer => due'[lists[d]] = due[lists[d]]
            /\ lists[d] # NoTimer /\ lists'[d] = NoTimer => d = delay /\ queue[lists[d]] = <<>>
            /\ d = delay /\ lists'[d] # NoTimer => queue[lists[d]] # <<>>
  BY <1>1, CloseProps
<1>3. IdleTypeOK'
  BY <1>1, <1>2 DEF IdleInv, IdleTypeOK, itemVars
<1>4. Homes'
  <2> SUFFICES ASSUME NEW t \in Timers, NEW k \in 1 .. Len(queue[t])
               PROVE  /\ idleTimeout[queue[t][k]] \in Delays
                      /\ lists'[idleTimeout[queue[t][k]]] = t
    BY <1>1 DEF Homes, itemVars
  <2>1. idleTimeout[queue[t][k]] \in Delays /\ lists[idleTimeout[queue[t][k]]] = t
    BY DEF IdleInv, Homes
  <2>2. queue[t] # <<>> /\ t # NoTimer
    BY EmptySeq, TimersAreNumbers DEF NoTimer
  <2> QED
    BY <1>2, <2>1, <2>2
<1>5. Waiting'
  <2> SUFFICES ASSUME NEW d \in Delays, lists'[d] # NoTimer
               PROVE  /\ queue[lists'[d]] # <<>> /\ due'[lists'[d]] # NoTimer
                      /\ due'[lists'[d]] <= idleStart[Head(queue[lists'[d]])] + d
    BY <1>1 DEF Waiting, itemVars
  <2>1. lists'[d] = lists[d] /\ due'[lists[d]] = due[lists[d]]
    BY <1>2
  <2>2. lists[d] # expiring
    <3>1. lists[d] = expiring => d = delay
      BY <1>1 DEF IdleInv, Expires
    <3> QED
      BY <1>1, <1>2, <3>1
  <2> QED
    BY <2>1, <2>2 DEF IdleInv, Waiting
<1>6. Expires' /\ Past' /\ OldestFirst'
  BY <1>1 DEF IdleInv, Expires, Past, OldestFirst, itemVars
<1> QED
  BY <1>2, <1>3, <1>4, <1>5, <1>6 DEF IdleInv

\* An item is appended to a list, after the others and later than they were.
LEMMA AppendedProps ==
    ASSUME IdleInv, NEW item \in Items, NEW t \in Timers,
           queue' = Renewed(t, item), idleStart' = [idleStart EXCEPT ![item] = now]
    PROVE  /\ queue' \in [Timers -> Seq(Items)]
           /\ \A u \in Timers :
                /\ IsInjective(queue'[u])
                /\ u # t => queue'[u] = Removed(item)[u]
                /\ \A j, k \in 1 .. Len(queue'[u]) : j < k =>
                      idleStart'[queue'[u][j]] <= idleStart'[queue'[u][k]]
                /\ \A k \in 1 .. Len(queue'[u]) : queue'[u][k] = item => u = t
                /\ \A k \in 1 .. Len(queue'[u]) : queue'[u][k] # item =>
                      \E n \in 1 .. Len(queue[u]) : queue'[u][k] = queue[u][n]
           /\ queue'[t] # <<>>
           /\ queue[t] # <<>> =>
                 idleStart[Head(queue[t])] <= idleStart'[Head(queue'[t])]
<1> DEFINE r == Removed(item)
<1>1. /\ idleStart \in [Items -> Int] /\ queue \in [Timers -> Seq(Items)] /\ now \in Int
      /\ \A i \in Items : idleStart[i] <= now
  BY DEF IdleInv, IdleTypeOK, Past
<1>2. /\ r \in [Timers -> Seq(Items)]
      /\ \A u \in Timers : /\ IsInjective(r[u])
                           /\ \A k \in 1 .. Len(r[u]) : r[u][k] # item
                           /\ Shrunk(r[u], queue[u])
  BY RemovedProps
<1>3. \A u \in Timers : /\ \A j, k \in 1 .. Len(r[u]) : j < k =>
                              idleStart[r[u][j]] <= idleStart[r[u][k]]
                        /\ r[u] # <<>> => queue[u] # <<>>
                              /\ idleStart[Head(queue[u])] <= idleStart[Head(r[u])]
  <2> SUFFICES ASSUME NEW u \in Timers
               PROVE  /\ \A j, k \in 1 .. Len(r[u]) : j < k =>
                            idleStart[r[u][j]] <= idleStart[r[u][k]]
                      /\ r[u] # <<>> => queue[u] # <<>>
                            /\ idleStart[Head(queue[u])] <= idleStart[Head(r[u])]
    OBVIOUS
  <2> HIDE DEF r
  <2>1. queue[u] \in Seq(Items) /\ r[u] \in Seq(Items) /\ Shrunk(r[u], queue[u])
    BY <1>1, <1>2
  <2>2. \A j, k \in 1 .. Len(queue[u]) : j < k =>
           idleStart[queue[u][j]] <= idleStart[queue[u][k]]
    BY <2>1 DEF IdleInv, OldestFirst
  <2> QED
    BY <1>1, <2>1, <2>2, ShrunkOrder
<1>4. queue' = [r EXCEPT ![t] = Append(r[t], item)]
  BY DEF Renewed
<1> HIDE DEF r
<1>5. /\ queue'[t] = Append(r[t], item)
      /\ \A u \in Timers : u # t => queue'[u] = r[u]
      /\ queue' \in [Timers -> Seq(Items)]
  <2>1. Append(r[t], item) \in Seq(Items)
    BY <1>2
  <2> QED
    BY <1>2, <1>4, <2>1
<1>6. \A i \in Items : idleStart'[i] = IF i = item THEN now ELSE idleStart[i]
  BY <1>1
<1>7. \A u \in Timers : \A k \in 1 .. Len(r[u]) :
         r[u][k] \in Items /\ r[u][k] # item /\ idleStart'[r[u][k]] = idleStart[r[u][k]]
  <2> SUFFICES ASSUME NEW u \in Timers, NEW k \in 1 .. Len(r[u])
               PROVE  r[u][k] \in Items /\ r[u][k] # item
                      /\ idleStart'[r[u][k]] = idleStart[r[u][k]]
    OBVIOUS
  <2>1. r[u][k] \in Items /\ r[u][k] # item
    BY <1>2, ElementOfSeq
  <2> QED
    BY <1>6, <2>1
<1> DEFINE n == Len(r[t])
<1>8. /\ n \in Nat /\ Len(queue'[t]) = n + 1 /\ queue'[t][n + 1] = item
      /\ \A k \in 1 .. n : queue'[t][k] = r[t][k]
  BY <1>2, <1>5, AppendProperties, LenProperties
<1> HIDE DEF n
<1>9. IsInjective(queue'[t])
  <2>1. \A j, k \in 1 .. n : r[t][j] = r[t][k] => j = k
    BY <1>2 DEF IsInjective, n
  <2>2. \A j \in 1 .. n : r[t][j] # item
    BY <1>7 DEF n
  <2>3. \A j, k \in 1 .. n + 1 : queue'[t][j] = queue'[t][k] => j = k
    BY <1>8, <2>1, <2>2
  <2> QED
    BY <1>5, <1>8, <2>3 DEF IsInjective
<1>10. \A j, k \in 1 .. Len(queue'[t]) : j < k =>
          idleStart'[queue'[t][j]] <= idleStart'[queue'[t][k]]
  <2> SUFFICES ASSUME NEW j \in 1 .. n + 1, NEW k \in 1 .. n + 1, j < k
               PROVE  idleStart'[queue'[t][j]] <= idleStart'[queue'[t][k]]
    BY <1>8
  <2>1. j \in 1 .. n /\ queue'[t][j] = r[t][j]
    BY <1>8
  <2>2. idleStart'[r[t][j]] = idleStart[r[t][j]] /\ r[t][j] \in Items
    BY <1>7, <2>1 DEF n
  <2>3. CASE k = n + 1
    BY <1>1, <1>6, <1>8, <2>1, <2>2, <2>3
  <2>4. CASE k # n + 1
    <3>1. k \in 1 .. n /\ queue'[t][k] = r[t][k] /\ idleStart'[r[t][k]] = idleStart[r[t][k]]
      BY <1>7, <1>8, <2>4 DEF n
    <3>2. idleStart[r[t][j]] <= idleStart[r[t][k]]
      BY <1>3, <2>1, <3>1 DEF n
    <3> QED
      BY <2>1, <2>2, <3>1, <3>2
  <2> QED
    BY <2>3, <2>4
<1>11. \A u \in Timers : u # t => \A j, k \in 1 .. Len(queue'[u]) : j < k =>
          idleStart'[queue'[u][j]] <= idleStart'[queue'[u][k]]
  BY <1>3, <1>5, <1>7
<1>12. \A u \in Timers : \A k \in 1 .. Len(r[u]) :
          \E m \in 1 .. Len(queue[u]) : r[u][k] = queue[u][m]
  BY <1>2 DEF Shrunk
<1>13. \A u \in Timers : \A k \in 1 .. Len(queue'[u]) : queue'[u][k] # item =>
          \E m \in 1 .. Len(queue[u]) : queue'[u][k] = queue[u][m]
  <2> SUFFICES ASSUME NEW u \in Timers, NEW k \in 1 .. Len(queue'[u]), queue'[u][k] # item
               PROVE  \E m \in 1 .. Len(queue[u]) : queue'[u][k] = queue[u][m]
    OBVIOUS
  <2>1. k \in 1 .. Len(r[u]) /\ queue'[u][k] = r[u][k]
    <3>1. CASE u = t
      <4>1. k \in 1 .. n + 1 /\ k # n + 1
        BY <1>8, <3>1
      <4> QED
        BY <1>8, <3>1, <4>1 DEF n
    <3>2. CASE u # t
      BY <1>5, <3>2
    <3> QED
      BY <3>1, <3>2
  <2> QED
    BY <1>12, <2>1
<1>14. \A u \in Timers : \A k \in 1 .. Len(queue'[u]) : queue'[u][k] = item => u = t
  BY <1>5, <1>7
<1>15. queue'[t] # <<>> /\ (queue[t] # <<>> =>
          idleStart[Head(queue[t])] <= idleStart'[Head(queue'[t])])
  <2>1. queue'[t] # <<>> /\ Head(queue'[t]) = queue'[t][1]
    BY <1>5, <1>8
  <2>2. ASSUME queue[t] # <<>>
        PROVE  idleStart[Head(queue[t])] <= idleStart'[Head(queue'[t])]
    <3>1. Head(queue[t]) \in Items
      BY <1>1, <2>2, HeadTailProperties
    <3>2. CASE n = 0
      BY <1>1, <1>6, <1>8, <2>1, <3>1, <3>2
    <3>3. CASE n # 0
      <4>1. 1 \in 1 .. n /\ r[t] # <<>> /\ Head(r[t]) = r[t][1]
        BY <1>2, <1>8, <3>3, EmptySeq DEF n
      <4>2. idleStart'[r[t][1]] = idleStart[r[t][1]]
        BY <1>7, <4>1 DEF n
      <4> QED
        BY <1>3, <1>8, <2>1, <4>1, <4>2
    <3> QED
      BY <3>2, <3>3
  <2> QED
    BY <2>1, <2>2
<1>16. \A u \in Timers : IsInjective(queue'[u])
  BY <1>2, <1>5, <1>9
<1> QED
  BY <1>5, <1>10, <1>11, <1>13, <1>14, <1>15, <1>16 DEF r

LEMMA ActiveStep ==
    ASSUME IdleInv, NEW item \in Items, Active(item)
    PROVE  IdleInv'
<1> DEFINE msecs == idleTimeout[item]
<1>1. /\ msecs \in Delays
      /\ idleStart' = [idleStart EXCEPT ![item] = now]
      /\ UNCHANGED <<now, idleTimeout, loopVars>>
      /\ selfLinked' \subseteq Items
      /\ callsLeft' \in 0 .. ListenerCalls \cup {Unset}
      /\ expiring = NoTimer => callsLeft' = callsLeft
  BY CallsType DEF Active, IdleInv, IdleTypeOK
<1>2. /\ lists \in [Delays -> Timers \cup {NoTimer}] /\ due \in [Timers -> Nat]
      /\ open \subseteq Timers /\ idleStart' \in [Items -> 0 .. MaxTime]
      /\ now \in Nat /\ msecs \in Nat \ {0} /\ Past'
      /\ NoTimer \notin Timers
  <2>1. /\ lists \in [Delays -> Timers \cup {NoTimer}] /\ due \in [Timers -> Nat]
        /\ open \subseteq Timers /\ idleStart \in [Items -> 0 .. MaxTime]
        /\ now \in 0 .. MaxTime
    BY DEF IdleInv, IdleTypeOK
  <2>2. now \in Nat /\ MaxTime \in Nat /\ msecs \in Nat \ {0} /\ NoTimer \notin Timers
    <3>1. MaxTime \in Nat /\ msecs \in Nat \ {0}
      BY <1>1, TimersAreNumbers
    <3>2. NoTimer \notin Timers
      BY TimersAreNumbers DEF NoTimer
    <3> QED
      BY <2>1, <3>1, <3>2
  <2>3. idleStart' \in [Items -> 0 .. MaxTime]
    BY <1>1, <2>1
  <2>4. Past'
    <3> SUFFICES ASSUME NEW i \in Items PROVE idleStart'[i] <= now
      BY <1>1 DEF Past
    <3>1. idleStart'[i] = IF i = item THEN now ELSE idleStart[i]
      BY <1>1, <2>1
    <3> QED
      BY <2>2, <3>1 DEF IdleInv, Past
  <2> QED
    BY <2>1, <2>2, <2>3, <2>4
<1>3. PICK t \in Timers :
         /\ queue' = Renewed(t, item)
         /\ \/ lists[msecs] = t /\ UNCHANGED <<lists, due, open>>
            \/ /\ lists[msecs] = NoTimer /\ t \notin open /\ t # expiring
               /\ open' = open \cup {t}
               /\ due' = [due EXCEPT ![t] = now + msecs]
               /\ lists' = [lists EXCEPT ![msecs] = t]
  <2>1. CASE /\ lists[msecs] # NoTimer
             /\ queue' = Renewed(lists[msecs], item)
             /\ UNCHANGED <<lists, due, open>>
    <3>1. lists[msecs] \in Timers
      BY <1>1, <1>2, <2>1
    <3> QED
      BY <2>1, <3>1
  <2>2. CASE /\ lists[msecs] = NoTimer
             /\ \E t \in Timers \ (open \cup {expiring}) :
                  /\ open' = open \cup {t}
                  /\ due' = [due EXCEPT ![t] = now + msecs]
                  /\ lists' = [lists EXCEPT ![msecs] = t]
                  /\ queue' = Renewed(t, item)
    BY <2>2
  <2> QED
    BY <2>1, <2>2 DEF Active
<1> HIDE DEF msecs
<1>4. /\ queue' \in [Timers -> Seq(Items)]
      /\ \A u \in Timers :
           /\ IsInjective(queue'[u])
           /\ u # t => queue'[u] = Removed(item)[u]
           /\ \A j, k \in 1 .. Len(queue'[u]) : j < k =>
                 idleStart'[queue'[u][j]] <= idleStart'[queue'[u][k]]
           /\ \A k \in 1 .. Len(queue'[u]) : queue'[u][k] = item => u = t
           /\ \A k \in 1 .. Len(queue'[u]) : queue'[u][k] # item =>
                 \E n \in 1 .. Len(queue[u]) : queue'[u][k] = queue[u][n]
      /\ queue'[t] # <<>>
      /\ queue[t] # <<>> => idleStart[Head(queue[t])] <= idleStart'[Head(queue'[t])]
  BY <1>1, <1>3, AppendedProps
<1>5. /\ lists' \in [Delays -> Timers \cup {NoTimer}] /\ due' \in [Timers -> Nat]
      /\ open' \subseteq Timers
      /\ \A d \in Delays : lists'[d] = IF d = msecs THEN t ELSE lists[d]
      /\ \A u \in Timers : u # t => due'[u] = due[u]
  BY <1>1, <1>2, <1>3
<1>6. IdleTypeOK'
  BY <1>1, <1>2, <1>4, <1>5 DEF IdleInv, IdleTypeOK, loopVars
<1>7. ListsOpen'
  <2>1. CASE UNCHANGED <<lists, open>>
    BY <2>1 DEF IdleInv, ListsOpen
  <2>2. CASE t \notin open /\ open' = open \cup {t} /\ lists[msecs] = NoTimer
    <3>1. \A d \in Delays : lists[d] # t
      BY <1>2, <2>2 DEF IdleInv, ListsOpen
    <3>2. \A d \in Delays : lists'[d] # NoTimer => lists'[d] \in open'
      BY <1>5, <2>2 DEF IdleInv, ListsOpen
    <3>3. \A u \in open' : \E d \in Delays : lists'[d] = u
      BY <1>1, <1>2, <1>5, <2>2 DEF IdleInv, ListsOpen
    <3>4. \A d, e \in Delays : lists'[d] = lists'[e] /\ lists'[d] # NoTimer => d = e
      BY <1>1, <1>5, <3>1 DEF IdleInv, ListsOpen
    <3> QED
      BY <3>2, <3>3, <3>4 DEF ListsOpen
  <2> QED
    BY <1>3, <2>1, <2>2
<1>8. Homes'
  <2> SUFFICES ASSUME NEW u \in Timers, NEW k \in 1 .. Len(queue'[u])
               PROVE  /\ idleTimeout[queue'[u][k]] \in Delays
                      /\ lists'[idleTimeout[queue'[u][k]]] = u
    BY <1>1 DEF Homes
  <2>1. CASE queue'[u][k] = item
    BY <1>1, <1>4, <1>5, <2>1 DEF msecs
  <2>2. CASE queue'[u][k] # item
    <3>1. PICK n \in 1 .. Len(queue[u]) : queue'[u][k] = queue[u][n]
      BY <1>4, <2>2
    <3>2. idleTimeout[queue'[u][k]] \in Delays /\ lists[idleTimeout[queue'[u][k]]] = u
      BY <3>1 DEF IdleInv, Homes
    <3> QED
      BY <1>2, <1>3, <1>5, <3>2
  <2> QED
    BY <2>1, <2>2
<1>9. Expires'
  <2>1. CASE UNCHANGED lists
    BY <1>1, <2>1 DEF IdleInv, Expires, loopVars
  <2>2. CASE t # expiring
    BY <1>1, <1>5, <2>2 DEF IdleInv, Expires, loopVars
  <2> QED
    BY <1>3, <2>1, <2>2
<1>10. Waiting'
  <2> SUFFICES ASSUME NEW d \in Delays, lists'[d] \notin {NoTimer, expiring}
               PROVE  /\ queue'[lists'[d]] # <<>> /\ due'[lists'[d]] # NoTimer
                      /\ due'[lists'[d]] <= idleStart'[Head(queue'[lists'[d]])] + d
    BY <1>1 DEF Waiting, loopVars
  <2> DEFINE u == lists'[d]
  <2>1. u \in Timers /\ u # expiring
    BY <1>5
  <2>2. CASE d # msecs
    <3>1. u = lists[d]
      BY <1>5, <2>2
    <3>2. queue[u] # <<>> /\ due[u] # NoTimer /\ due[u] <= idleStart[Head(queue[u])] + d
      BY <2>1, <3>1 DEF IdleInv, Waiting
    <3>3. u # t
      BY <1>1, <1>2, <1>3, <2>1, <2>2, <3>1 DEF IdleInv, ListsOpen
    <3>4. lists[msecs] # u
      BY <1>1, <1>2, <2>1, <2>2, <3>1 DEF IdleInv, ListsOpen
    <3> HIDE DEF u
    <3>5. queue'[u] = queue[u] /\ due'[u] = due[u]
      BY <1>4, <1>5, <2>1, <3>3, <3>4, RemovedProps DEF msecs
    <3>6. Head(queue[u]) \in Items
      BY <2>1, <3>2, HeadTailProperties DEF IdleInv, IdleTypeOK
    <3>7. Head(queue'[u]) # item
      <4>1. 1 \in 1 .. Len(queue'[u]) /\ Head(queue'[u]) = queue'[u][1]
        BY <1>4, <2>1, <3>2, <3>5, EmptySeq
      <4> QED
        BY <1>4, <2>1, <3>3, <4>1
    <3>8. idleStart'[Head(queue'[u])] = idleStart[Head(queue[u])]
      BY <1>1, <3>5, <3>6, <3>7 DEF IdleInv, IdleTypeOK
    <3> QED
      BY <3>2, <3>5, <3>8 DEF u
  <2>3. CASE d = msecs
    <3>1. u = t
      BY <1>5, <2>3
    <3> HIDE DEF u
    <3>2. Head(queue'[t]) \in Items /\ idleStart'[Head(queue'[t])] \in Nat
      BY <1>2, <1>4, HeadTailProperties
    <3>3. CASE lists[msecs] = t /\ UNCHANGED <<lists, due>>
      <4>1. /\ queue[t] # <<>> /\ due[t] # NoTimer
            /\ due[t] <= idleStart[Head(queue[t])] + msecs
        BY <1>1, <1>2, <2>1, <3>1, <3>3 DEF IdleInv, Waiting
      <4>2. Head(queue[t]) \in Items /\ idleStart[Head(queue[t])] \in Nat
        BY <4>1, HeadTailProperties DEF IdleInv, IdleTypeOK
      <4>3. idleStart[Head(queue[t])] <= idleStart'[Head(queue'[t])]
        BY <1>4, <4>1
      <4>4. due[t] \in Nat /\ msecs \in Nat
        BY <1>2
      <4>5. due[t] <= idleStart'[Head(queue'[t])] + msecs
        BY <3>2, <4>1, <4>2, <4>3, <4>4
      <4> QED
        BY <1>4, <2>3, <3>1, <3>3, <4>1, <4>5 DEF u
    <3>4. CASE due' = [due EXCEPT ![t] = now + msecs] /\ t \notin open
      <4>1. queue[t] = <<>>
        <5>1. \A k \in 1 .. Len(queue[t]) : FALSE
          <6> SUFFICES ASSUME NEW k \in 1 .. Len(queue[t]) PROVE FALSE
            OBVIOUS
          <6>1. idleTimeout[queue[t][k]] \in Delays /\ lists[idleTimeout[queue[t][k]]] = t
            BY DEF IdleInv, Homes
          <6> QED
            BY <1>2, <3>4, <6>1 DEF IdleInv, ListsOpen
        <5>2. queue[t] \in Seq(Items)
          BY DEF IdleInv, IdleTypeOK
        <5> QED
          BY <5>1, <5>2, EmptySeq
      <4>2. Head(queue'[t]) = item
        <5>1. 1 \in 1 .. Len(queue'[t]) /\ Head(queue'[t]) = queue'[t][1]
          BY <1>4, EmptySeq
        <5>2. queue'[t][1] # item => \E n \in 1 .. Len(queue[t]) : TRUE
          BY <1>4, <5>1
        <5> QED
          BY <4>1, <5>1, <5>2
      <4>3. idleStart'[Head(queue'[t])] = now
        BY <1>1, <4>2 DEF IdleInv, IdleTypeOK
      <4>4. due'[t] = now + msecs
        BY <1>2, <3>4
      <4> QED
        BY <1>2, <1>4, <2>3, <3>1, <4>3, <4>4 DEF u, NoTimer
    <3> QED
      BY <1>3, <3>3, <3>4
  <2> QED
    BY <2>2, <2>3
<1>11. OldestFirst'
  BY <1>4, SMTT(30) DEF OldestFirst
<1> QED
  BY <1>2, <1>6, <1>7, <1>8, <1>9, <1>10, <1>11 DEF IdleInv

LEMMA IdleStep == IdleInv /\ [IdleNext]_idleVars => IdleInv'
<1>1. IdleInv /\ UNCHANGED idleVars => IdleInv'
  <2> SUFFICES ASSUME IdleInv, UNCHANGED idleVars PROVE IdleInv'
    OBVIOUS
  <2>1. UNCHANGED <<now, idleTimeout, idleStart, selfLinked, lists, queue, due, open,
                    expiring, delay, callsLeft>>
    BY DEF idleVars, itemVars, timerVars, loopVars
  <2>2. IdleTypeOK'
    BY <2>1 DEF IdleInv, IdleTypeOK
  <2>3. ListsOpen' /\ Homes'
    BY <2>1 DEF IdleInv, ListsOpen, Homes
  <2>4. Expires' /\ Past'
    BY <2>1 DEF IdleInv, Expires, Past
  <2>5. Waiting'
    BY <2>1 DEF IdleInv, Waiting
  <2>6. OldestFirst'
    BY <2>1 DEF IdleInv, OldestFirst
  <2> QED
    BY <2>2, <2>3, <2>4, <2>5, <2>6 DEF IdleInv
<1> QED
  BY <1>1, UnenrollStep, EnrollStep, ActiveStep, TimePassesStep, FireStep, RearmStep,
     TimeoutStep, ListenerReturnsStep, EndExpirationStep
     DEF IdleNext, IdleCall, Expiration

-----------------------------------------------------------------------------
(* Idle timers: the results. *)

\* The lists and timers of timer.lua keep their types, and a list links an item once.
THEOREM IdleTyped == IdleSpec => []IdleTypeOK
<1>1. IdleInv => IdleTypeOK
  BY DEF IdleInv
<1> QED
  BY <1>1, IdleInitOK, IdleStep, PTL DEF IdleSpec

\* For any items and delays, and 'timeout' listeners that enroll, unenroll and activate
\* items under the loop of list_expiration: a list that has items has an open timer
\* that fires in time for its oldest item, and the oldest item comes first.
THEOREM TimersAreKept == IdleSpec => []TimersKept
<1>1. IdleInv => TimersKept
  <2> SUFFICES ASSUME IdleInv PROVE Armed
    BY DEF TimersKept, IdleInv
  <2> SUFFICES ASSUME NEW t \in Timers \ {expiring}, queue[t] # <<>>
               PROVE  \E d \in Delays :
                         /\ lists[d] = t /\ t \in open
                         /\ due[t] # NoTimer
                         /\ due[t] <= idleStart[Head(queue[t])] + d
    BY DEF Armed
  <2>1. 1 \in 1 .. Len(queue[t])
    BY EmptySeq DEF IdleInv, IdleTypeOK
  <2> DEFINE d == idleTimeout[queue[t][1]]
  <2>2. d \in Delays /\ lists[d] = t
    BY <2>1 DEF IdleInv, Homes
  <2> HIDE DEF d
  <2>3. t # NoTimer
    BY TimersAreNumbers DEF NoTimer
  <2> QED
    BY <2>2, <2>3 DEF IdleInv, ListsOpen, Waiting
<1> QED
  BY <1>1, IdleInitOK, IdleStep, PTL DEF IdleSpec

LEMMA StartsOpenStep ==
    ASSUME IdleInv, [IdleNext]_idleVars
    PROVE  StartsOpen
<1> SUFFICES ASSUME NEW t \in Timers, due'[t] # due[t], due'[t] # NoTimer
             PROVE  t \in open'
  BY DEF StartsOpen
<1>0. due \in [Timers -> Nat]
  BY DEF IdleInv, IdleTypeOK
<1>1. ASSUME NEW m, NEW q, CloseIfEmpty(m, q) PROVE FALSE
  BY <1>1, CloseProps
<1>2. ASSUME NEW item \in Items, Active(item) PROVE t \in open'
  <2>1. PICK u \in Timers : /\ open' = open \cup {u}
                            /\ due' = [due EXCEPT ![u] = now + idleTimeout[item]]
    BY <1>2 DEF Active
  <2> QED
    BY <1>0, <2>1
<1>3. CASE Rearm
  <2>1. expiring \in Timers /\ delay \in Delays /\ lists[delay] = expiring /\ expiring # NoTimer
    BY <1>3, OldestProps DEF Rearm, Looping
  <2>2. expiring \in open /\ open' = open /\ due' = [due EXCEPT ![expiring] = NextDue]
    BY <1>3, <2>1 DEF Rearm, IdleInv, ListsOpen
  <2> QED
    BY <1>0, <2>2
<1>4. ASSUME NEW msecs \in Delays, Fire(msecs) PROVE FALSE
  BY <1>0, <1>4 DEF Fire
<1>5. UNCHANGED due => FALSE
  OBVIOUS
<1>6. ASSUME NEW item \in Items PROVE ~Unenroll(item)
  BY <1>1 DEF Unenroll
<1>7. ASSUME NEW item \in Items, NEW msecs \in Delays PROVE ~Enroll(item, msecs)
  BY <1>1, <1>5 DEF Enroll, timerVars
<1>8. ~EndExpiration
  BY <1>1 DEF EndExpiration
<1>9. ~TimePasses /\ ~Timeout /\ ~ListenerReturns /\ ~UNCHANGED idleVars
  BY <1>5 DEF TimePasses, Timeout, ListenerReturns, idleVars, timerVars
<1> QED
  BY <1>2, <1>3, <1>4, <1>6, <1>7, <1>8, <1>9 DEF IdleNext, IdleCall, Expiration

LEMMA NotEarlyStep ==
    ASSUME IdleInv, [IdleNext]_idleVars
    PROVE  NotEarly
<1> SUFFICES ASSUME callsLeft = Unset, callsLeft' # Unset
             PROVE  now - idleStart[Oldest] + 1 >= idleTimeout[Oldest]
  BY DEF NotEarly
<1>1. Timeout
  <2>1. ~MayCall
    BY CallsType
  <2>2. ~UNCHANGED callsLeft
    OBVIOUS
  <2> QED
    BY <2>1, <2>2 DEF IdleNext, IdleCall, Expiration, Unenroll, Enroll, Active, TimePasses,
       Fire, Rearm, ListenerReturns, EndExpiration, idleVars
<1>2. Looping /\ queue[expiring] # <<>> /\ ~(now - idleStart[Oldest] + 1 < delay)
  BY <1>1 DEF Timeout, StillActive, Silence
<1>3. idleTimeout[Oldest] = delay /\ delay \in Nat /\ idleStart[Oldest] \in Nat /\ now \in Nat
  BY <1>2, OldestProps, TimersAreNumbers
<1> QED
  BY <1>2, <1>3

\* No timer is started when it is closed, and no item gets its 'timeout' before it was
\* silent for its delay (to the millisecond that list_expiration allows).
THEOREM TimesOutSafely == IdleSpec => [][StartsOpen /\ NotEarly]_idleVars
<1>1. IdleInv /\ [IdleNext]_idleVars => [StartsOpen /\ NotEarly]_idleVars
  BY StartsOpenStep, NotEarlyStep
<1> QED
  BY <1>1, IdleInitOK, IdleStep, PTL DEF IdleSpec

-----------------------------------------------------------------------------
(* Emitter: lists without their tombstones. *)

\* c has elements of s only, in their order, none of them further back than in s.
Picked(c, s, n) ==
    /\ Len(c) <= n
    /\ \A k \in 1 .. Len(c) : \E m \in 1 .. n : k <= m /\ c[k] = s[m] /\ s[m] # Tombstone
    /\ \A j, k \in 1 .. Len(c) : j < k =>
          \E m, o \in 1 .. n : m < o /\ c[j] = s[m] /\ c[k] = s[o]

\* The prefixes that Compacted goes through.
Compacting(s, l) ==
    CHOOSE f : f = [n \in 0 .. l |->
                      IF n = 0 THEN <<>>
                      ELSE IF s[n] = Tombstone THEN f[n - 1] ELSE Append(f[n - 1], s[n])]

LEMMA CompactingExists ==
    ASSUME NEW s, NEW l \in Nat
    PROVE  \E f : f = [n \in 0 .. l |->
                         IF n = 0 THEN <<>>
                         ELSE IF s[n] = Tombstone THEN f[n - 1] ELSE Append(f[n - 1], s[n])]
<1> DEFINE step(f, n) == IF n = 0 THEN <<>>
                         ELSE IF s[n] = Tombstone THEN f[n - 1] ELSE Append(f[n - 1], s[n])
           Defined(k, f) == f = [n \in 0 .. k |-> step(f, n)]
           S == {k \in Nat : \E f : Defined(k, f)}
<1>1. 0 \in S
  <2> DEFINE start == [n \in 0 .. 0 |-> <<>>]
  <2>1. Defined(0, start)
    OBVIOUS
  <2> HIDE DEF Defined, start
  <2> QED
    BY <2>1
<1>2. ASSUME NEW k \in Nat, k \in S PROVE k + 1 \in S
  <2>1. PICK f : Defined(k, f)
    BY <1>2
  <2> DEFINE g == [n \in 0 .. k + 1 |-> step(f, n)]
             h == [n \in 0 .. k + 1 |-> step(g, n)]
  <2>2. \A n \in 0 .. k + 1 : g[n] = step(f, n)
    OBVIOUS
  <2>3. \A n \in 0 .. k : f[n] = step(f, n)
    BY <2>1, Zenon
  <2>4. 0 .. k \subseteq 0 .. k + 1
    OBVIOUS
  <2>5. \A n \in 0 .. k : g[n] = f[n]
    <3> HIDE DEF step, g
    <3> QED
      BY <2>2, <2>3, <2>4
  <2>6. \A n \in 0 .. k + 1 : n # 0 => n - 1 \in 0 .. k
    OBVIOUS
  <2>7. \A n \in 0 .. k + 1 : h[n] = g[n]
    <3> SUFFICES ASSUME NEW n \in 0 .. k + 1 PROVE h[n] = g[n]
      OBVIOUS
    <3>1. h[n] = step(g, n)
      <4> HIDE DEF step
      <4> QED
        OBVIOUS
    <3>2. g[n] = step(f, n)
      BY <2>2
    <3> HIDE DEF g, h
    <3>3. n # 0 => g[n - 1] = f[n - 1]
      BY <2>5, <2>6
    <3> QED
      <4>1. CASE n = 0
        BY <3>1, <3>2, <4>1
      <4>2. CASE n # 0
        <5>1. g[n - 1] = f[n - 1]
          BY <3>3, <4>2
        <5>2. step(g, n) = step(f, n)
          BY <4>2, <5>1
        <5> QED
          <6> HIDE DEF step
          <6> QED
            BY <3>1, <3>2, <5>2
      <4> QED
        BY <4>1, <4>2
  <2>8. g = h
    <3> HIDE DEF step
    <3>1. g = [n \in 0 .. k + 1 |-> g[n]]
      OBVIOUS
    <3>2. h = [n \in 0 .. k + 1 |-> h[n]]
      <4> HIDE DEF g
      <4> QED
        OBVIOUS
    <3> HIDE DEF g, h
    <3> QED
      BY <2>7, <3>1, <3>2
  <2>9. Defined(k + 1, g)
    BY <2>8, Zenon
  <2> HIDE DEF g, h, Defined
  <2> QED
    BY <2>9
<1> HIDE DEF S
<1>3. \A k \in Nat : k \in S
  BY <1>1, <1>2, SetInduction
<1> QED
  BY <1>3, Zenon DEF S

LEMMA CompactedPicks ==
    ASSUME NEW A, NEW s \in Seq(A)
    PROVE  /\ Compacted(s) \in Seq(A)
           /\ Picked(Compacted(s), s, Len(s))
<1> DEFINE l == Len(s)
           F == Compacting(s, l)
<1>1. l \in Nat
  BY LenProperties
<1> HIDE DEF l
<1>2. F = [n \in 0 .. l |->
             IF n = 0 THEN <<>>
             ELSE IF s[n] = Tombstone THEN F[n - 1] ELSE Append(F[n - 1], s[n])]
  BY <1>1, CompactingExists, Zenon DEF Compacting
<1>3. Compacted(s) = F[l]
  BY DEF Compacted, Compacting, l
<1> HIDE DEF F
<1>4. \A n \in 0 .. l : F[n] = IF n = 0 THEN <<>>
                               ELSE IF s[n] = Tombstone THEN F[n - 1]
                               ELSE Append(F[n - 1], s[n])
  BY <1>2, Zenon
<1> DEFINE S == {n \in Nat : n <= l => F[n] \in Seq(A) /\ Picked(F[n], s, n)}
<1>5. 0 \in S
  <2>1. F[0] = <<>>
    BY <1>1, <1>4
  <2>2. <<>> \in Seq(A) /\ Picked(<<>>, s, 0)
    BY DEF Picked
  <2> QED
    BY <2>1, <2>2
<1>6. ASSUME NEW n \in Nat, n \in S PROVE n + 1 \in S
  <2> SUFFICES ASSUME n + 1 <= l
               PROVE  F[n + 1] \in Seq(A) /\ Picked(F[n + 1], s, n + 1)
    OBVIOUS
  <2> DEFINE c == F[n]
             x == s[n + 1]
  <2>1. c \in Seq(A) /\ Picked(c, s, n)
    BY <1>1, <1>6
  <2>2. F[n + 1] = IF x = Tombstone THEN c ELSE Append(c, x)
    <3>1. n + 1 \in 0 .. l /\ n + 1 # 0 /\ (n + 1) - 1 = n
      BY <1>1
    <3> QED
      BY <1>4, <3>1
  <2>3. x \in A
    BY <1>1 DEF l
  <2> HIDE DEF c
  <2>4. CASE x = Tombstone
    <3>1. Picked(c, s, n + 1)
      <4>1. Len(c) \in Nat /\ 1 .. n \subseteq 1 .. n + 1
        BY <2>1, LenProperties
      <4> HIDE DEF x
      <4>2. Len(c) <= n + 1
        BY <2>1, <4>1 DEF Picked
      <4>3. \A k \in 1 .. Len(c) : \E m \in 1 .. n + 1 : k <= m /\ c[k] = s[m] /\ s[m] # Tombstone
        <5> SUFFICES ASSUME NEW k \in 1 .. Len(c)
                     PROVE  \E m \in 1 .. n + 1 : k <= m /\ c[k] = s[m] /\ s[m] # Tombstone
          OBVIOUS
        <5>1. PICK m \in 1 .. n : k <= m /\ c[k] = s[m] /\ s[m] # Tombstone
          BY <2>1 DEF Picked
        <5>2. m \in 1 .. n + 1
          OBVIOUS
        <5> QED
          BY <5>1, <5>2
      <4>4. \A j, k \in 1 .. Len(c) : j < k =>
               \E m, o \in 1 .. n + 1 : m < o /\ c[j] = s[m] /\ c[k] = s[o]
        <5> SUFFICES ASSUME NEW j \in 1 .. Len(c), NEW k \in 1 .. Len(c), j < k
                     PROVE  \E m, o \in 1 .. n + 1 : m < o /\ c[j] = s[m] /\ c[k] = s[o]
          OBVIOUS
        <5>1. PICK m \in 1 .. n, o \in 1 .. n : m < o /\ c[j] = s[m] /\ c[k] = s[o]
          BY <2>1 DEF Picked
        <5>2. m \in 1 .. n + 1 /\ o \in 1 .. n + 1
          OBVIOUS
        <5> QED
          BY <5>1, <5>2
      <4> QED
        BY <4>2, <4>3, <4>4 DEF Picked
    <3> QED
      BY <2>1, <2>2, <2>4, <3>1
  <2>5. CASE x # Tombstone
    <3> DEFINE d == Append(c, x)
    <3>1. /\ d \in Seq(A) /\ Len(c) \in Nat /\ Len(d) = Len(c) + 1
          /\ \A k \in 1 .. Len(c) : d[k] = c[k]
          /\ d[Len(c) + 1] = x
      BY <2>1, <2>3, AppendProperties, LenProperties
    <3> HIDE DEF d
    <3>2. Len(c) <= n
      BY <2>1 DEF Picked
    <3>3. \A k \in 1 .. Len(d) : \E m \in 1 .. n + 1 : k <= m /\ d[k] = s[m] /\ s[m] # Tombstone
      <4> SUFFICES ASSUME NEW k \in 1 .. Len(d)
                   PROVE  \E m \in 1 .. n + 1 : k <= m /\ d[k] = s[m] /\ s[m] # Tombstone
        OBVIOUS
      <4>1. CASE k = Len(c) + 1
        <5>1. n + 1 \in 1 .. n + 1 /\ k <= n + 1 /\ d[k] = s[n + 1]
          BY <3>1, <3>2, <4>1
        <5> QED
          BY <2>5, <5>1
      <4>2. CASE k # Len(c) + 1
        <5>1. k \in 1 .. Len(c) /\ d[k] = c[k]
          BY <3>1, <4>2
        <5>2. PICK m \in 1 .. n : k <= m /\ c[k] = s[m] /\ s[m] # Tombstone
          BY <2>1, <5>1 DEF Picked
        <5> QED
          BY <5>1, <5>2
      <4> QED
        BY <4>1, <4>2
    <3>4. \A j, k \in 1 .. Len(d) : j < k =>
             \E m, o \in 1 .. n + 1 : m < o /\ d[j] = s[m] /\ d[k] = s[o]
      <4> SUFFICES ASSUME NEW j \in 1 .. Len(d), NEW k \in 1 .. Len(d), j < k
                   PROVE  \E m, o \in 1 .. n + 1 : m < o /\ d[j] = s[m] /\ d[k] = s[o]
        OBVIOUS
      <4>1. j \in 1 .. Len(c) /\ d[j] = c[j]
        BY <3>1
      <4>2. CASE k = Len(c) + 1
        <5>1. PICK m \in 1 .. n : c[j] = s[m]
          BY <2>1, <4>1 DEF Picked
        <5>2. m \in 1 .. n + 1 /\ n + 1 \in 1 .. n + 1 /\ m < n + 1 /\ d[k] = s[n + 1]
          BY <3>1, <4>2
        <5> QED
          BY <4>1, <5>1, <5>2
      <4>3. CASE k # Len(c) + 1
        <5>1. k \in 1 .. Len(c) /\ d[k] = c[k]
          BY <3>1, <4>3
        <5>2. PICK m \in 1 .. n, o \in 1 .. n : m < o /\ c[j] = s[m] /\ c[k] = s[o]
          BY <2>1, <4>1, <5>1 DEF Picked
        <5>3. m \in 1 .. n + 1 /\ o \in 1 .. n + 1
          OBVIOUS
        <5> QED
          BY <4>1, <5>1, <5>2, <5>3
      <4> QED
        BY <4>2, <4>3
    <3>5. Picked(d, s, n + 1)
      BY <3>1, <3>2, <3>3, <3>4 DEF Picked
    <3> QED
      BY <2>2, <2>5, <3>1, <3>5 DEF d
  <2> QED
    BY <2>4, <2>5
<1> HIDE DEF S
<1>7. l \in S
  BY <1>1, <1>5, <1>6, SetInduction
<1>8. F[l] \in Seq(A) /\ Picked(F[l], s, l)
  BY <1>1, <1>7 DEF S
<1> QED
  BY <1>3, <1>8 DEF l

-----------------------------------------------------------------------------
(* Emitter: the inductive invariant.  n is the number of on() and once() so far. *)

WalkType(n, t) ==
    [table : 0 .. t, at : Nat \ {0}, bound : Nat, inside : BOOLEAN,
     found : Seq(0 .. n), called : Seq(1 .. n), shifted : BOOLEAN]

\* A list has its listeners in the order in which they were added.
ListRight(h, n) ==
    /\ h \in Seq(0 .. n)
    /\ \A j, k \in 1 .. Len(h) :
          j < k /\ h[j] # Tombstone /\ h[k] # Tombstone => h[j] < h[k]

\* What a walk may still call was added after everybody it has called.
AheadOf(w, h) ==
    \A j \in 1 .. Len(w.called) : \A k \in 1 .. Len(h) :
       k >= w.at /\ h[k] # Tombstone => w.called[j] < h[k]

\* A walk over a list that was not compacted under it: each position holds what the walk
\* found there or a tombstone, and what is behind it was called.
FaithfulTo(w, h) ==
    /\ Len(h) >= w.bound
    /\ \A k \in 1 .. w.bound : h[k] \in {w.found[k], Tombstone}
    /\ \A k \in 1 .. Len(h) : k > w.bound /\ h[k] # Tombstone =>
          \A j \in 1 .. w.bound : w.found[j] < h[k]
    /\ \A k \in 1 .. w.bound : k < w.at =>
          h[k] = Tombstone \/ \E j \in 1 .. Len(w.called) : w.called[j] = h[k]
    /\ \A j \in 1 .. Len(w.called) : \E k \in 1 .. w.bound : w.called[j] = w.found[k]

LEMMA FaithfulAlike ==
    ASSUME NEW u, NEW v, NEW h, FaithfulTo(u, h),
           v.at = u.at /\ v.bound = u.bound /\ v.found = u.found /\ v.called = u.called
    PROVE  FaithfulTo(v, h)
<1>1. Len(h) >= v.bound
  BY DEF FaithfulTo
<1>2. \A k \in 1 .. v.bound : h[k] \in {v.found[k], Tombstone}
  BY DEF FaithfulTo
<1>3. \A k \in 1 .. Len(h) : k > v.bound /\ h[k] # Tombstone =>
         \A j \in 1 .. v.bound : v.found[j] < h[k]
  BY DEF FaithfulTo
<1>4. \A k \in 1 .. v.bound : k < v.at =>
         h[k] = Tombstone \/ \E j \in 1 .. Len(v.called) : v.called[j] = h[k]
  BY DEF FaithfulTo
<1>5. \A j \in 1 .. Len(v.called) : \E k \in 1 .. v.bound : v.called[j] = v.found[k]
  BY DEF FaithfulTo
<1> QED
  BY <1>1, <1>2, <1>3, <1>4, <1>5 DEF FaithfulTo

WalkRight(w, h) ==
    /\ Len(w.found) = w.bound
    /\ \A j, k \in 1 .. Len(w.called) : j < k => w.called[j] < w.called[k]
    /\ AheadOf(w, h)
    /\ ~w.shifted => FaithfulTo(w, h)

Tallies ==
    /\ table \in Tables /\ table <= removals
    /\ callbackOf \in Seq(Callbacks) /\ Len(callbackOf) <= MaxListeners
    /\ onceIds \subseteq 1 .. Len(callbackOf)
    /\ emits \in 0 .. MaxEmits /\ removals \in 0 .. MaxRemovals
    /\ silenced \subseteq Callbacks
    /\ times \in [Ids -> Nat]
    /\ \A id \in Ids : id > Len(callbackOf) => times[id] = 0

Lists ==
    /\ DOMAIN handlers = Tables
    /\ handlers = [t \in Tables |-> handlers[t]]
    /\ \A t \in Tables : ListRight(handlers[t], Len(callbackOf))

Walks ==
    /\ walks \in Seq(WalkType(Len(callbackOf), table))
    /\ \A k \in 1 .. Len(walks) : WalkRight(walks[k], handlers[walks[k].table])

\* A once listener that was called is in no list any more.
Once ==
    table = 0 => \A id \in onceIds :
       times[id] <= 1 /\ (times[id] = 1 => \A k \in 1 .. Len(handlers[0]) : handlers[0][k] # id)

\* The list has no listener whose function was removed since.
Silent ==
    table = 0 => \A k \in 1 .. Len(handlers[0]) :
       handlers[0][k] # Tombstone => callbackOf[handlers[0][k]] \notin silenced

EInv == Tallies /\ Lists /\ Walks /\ Once /\ Silent

LEMMA BoundsAreNumbers ==
    MaxListeners \in Nat /\ MaxEmits \in Nat /\ MaxRemovals \in Nat
<1> QED
  BY EmitterAssumption

-----------------------------------------------------------------------------
(* Emitter: what the changes of a list keep. *)

\* Nothing but new tombstones.
Thinned(r, h) ==
    Len(r) = Len(h) /\ \A k \in 1 .. Len(h) : r[k] \in {h[k], Tombstone}

LEMMA BuriedThins ==
    ASSUME NEW n \in Nat, NEW h, ListRight(h, n), NEW ids
    PROVE  /\ ListRight(Buried(h, ids), n)
           /\ Thinned(Buried(h, ids), h)
           /\ \A k \in 1 .. Len(h) : Buried(h, ids)[k] \notin ids \/ Buried(h, ids)[k] = Tombstone
<1> DEFINE r == Buried(h, ids)
<1>1. h \in Seq(0 .. n) /\ DOMAIN h = 1 .. Len(h) /\ Len(h) \in Nat
  BY LenProperties DEF ListRight
<1>2. r = [k \in 1 .. Len(h) |-> IF h[k] \in ids THEN Tombstone ELSE h[k]]
  BY <1>1 DEF Buried
<1>3. \A k \in 1 .. Len(h) : r[k] = IF h[k] \in ids THEN Tombstone ELSE h[k]
  BY <1>2
<1>4. r \in [1 .. Len(h) -> 0 .. n]
  <2>1. \A k \in 1 .. Len(h) : h[k] \in 0 .. n
    BY <1>1
  <2> HIDE DEF r
  <2> QED
    BY <1>2, <2>1 DEF Tombstone
<1> HIDE DEF r
<1>5. r \in Seq(0 .. n) /\ Len(r) = Len(h)
  <2>1. r \in Seq(0 .. n)
    BY <1>1, <1>4, SeqDef
  <2>2. DOMAIN r = 1 .. Len(h) /\ DOMAIN r = 1 .. Len(r) /\ Len(r) \in Nat
    BY <1>4, <2>1, LenProperties
  <2> QED
    BY <1>1, <2>1, <2>2
<1>6. ListRight(r, n)
  BY <1>3, <1>5 DEF ListRight
<1>7. Thinned(r, h)
  BY <1>3, <1>5 DEF Thinned
<1> QED
  BY <1>3, <1>6, <1>7 DEF r

LEMMA ThinnedKeeps ==
    ASSUME NEW n \in Nat, NEW t \in Nat, NEW w \in WalkType(n, t), NEW h, NEW r,
           ListRight(h, n), Thinned(r, h), WalkRight(w, h)
    PROVE  WalkRight(w, r)
<1>0. w.bound \in Nat /\ Len(h) \in Nat /\ Len(r) = Len(h)
  BY LenProperties DEF WalkType, ListRight, Thinned
<1>1. AheadOf(w, r)
  BY <1>0 DEF AheadOf, WalkRight, Thinned
<1>2. ASSUME ~w.shifted PROVE FaithfulTo(w, r)
  <2>1. FaithfulTo(w, h)
    BY <1>2 DEF WalkRight
  <2>2. \A k \in 1 .. w.bound : k \in 1 .. Len(h)
    BY <1>0, <2>1 DEF FaithfulTo
  <2>3. \A k \in 1 .. Len(h) : r[k] = h[k] \/ r[k] = Tombstone
    BY DEF Thinned
  <2>4. \A k \in 1 .. w.bound : r[k] \in {w.found[k], Tombstone}
    BY <2>1, <2>2, <2>3 DEF FaithfulTo
  <2>5. \A k \in 1 .. Len(r) : k > w.bound /\ r[k] # Tombstone =>
           \A j \in 1 .. w.bound : w.found[j] < r[k]
    BY <1>0, <2>1, <2>3 DEF FaithfulTo
  <2>6. \A k \in 1 .. w.bound : k < w.at =>
           r[k] = Tombstone \/ \E j \in 1 .. Len(w.called) : w.called[j] = r[k]
    BY <2>1, <2>2, <2>3 DEF FaithfulTo
  <2> QED
    BY <1>0, <2>1, <2>4, <2>5, <2>6 DEF FaithfulTo
<1> QED
  BY <1>1, <1>2 DEF WalkRight

LEMMA AppendedKeeps ==
    ASSUME NEW n \in Nat, NEW h, ListRight(h, n)
    PROVE  /\ ListRight(Append(h, n + 1), n + 1)
           /\ ListRight(h, n + 1)
           /\ \A t \in Nat : WalkType(n, t) \subseteq WalkType(n + 1, t)
           /\ \A t \in Nat : \A w \in WalkType(n, t) :
                 WalkRight(w, h) => WalkRight(w, Append(h, n + 1))
<1> DEFINE r == Append(h, n + 1)
<1>1. h \in Seq(0 .. n) /\ Len(h) \in Nat /\ 0 .. n \subseteq 0 .. n + 1 /\ 1 .. n \subseteq 1 .. n + 1
  BY LenProperties DEF ListRight
<1>2. h \in Seq(0 .. n + 1)
  BY <1>1, SeqMonotonic
<1>3. /\ r \in Seq(0 .. n + 1) /\ Len(r) = Len(h) + 1 /\ r[Len(h) + 1] = n + 1
      /\ \A k \in 1 .. Len(h) : r[k] = h[k] /\ h[k] \in 0 .. n
  <2>1. n + 1 \in 0 .. n + 1
    OBVIOUS
  <2> QED
    BY <1>1, <1>2, <2>1, AppendProperties, ElementOfSeq
<1> HIDE DEF r
<1>4. ListRight(r, n + 1)
  <2> SUFFICES ASSUME NEW j \in 1 .. Len(r), NEW k \in 1 .. Len(r),
                      j < k, r[j] # Tombstone, r[k] # Tombstone
               PROVE  r[j] < r[k]
    BY <1>3 DEF ListRight
  <2>1. j \in 1 .. Len(h) /\ r[j] = h[j] /\ h[j] \in 0 .. n
    BY <1>1, <1>3
  <2>2. CASE k = Len(h) + 1
    BY <1>3, <2>1, <2>2
  <2>3. CASE k # Len(h) + 1
    <3>1. k \in 1 .. Len(h) /\ r[k] = h[k]
      <4>1. Len(r) = Len(h) + 1 /\ Len(h) \in Nat
        BY <1>1, <1>3
      <4>2. k \in 1 .. Len(h)
        BY <2>3, <4>1
      <4> QED
        BY <1>3, <4>2
    <3> QED
      BY <2>1, <3>1 DEF ListRight
  <2> QED
    BY <2>2, <2>3
<1>5. ListRight(h, n + 1)
  BY <1>2 DEF ListRight
<1>6. ASSUME NEW t \in Nat PROVE WalkType(n, t) \subseteq WalkType(n + 1, t)
  <2>1. Seq(0 .. n) \subseteq Seq(0 .. n + 1) /\ Seq(1 .. n) \subseteq Seq(1 .. n + 1)
    BY <1>1, SeqMonotonic
  <2> QED
    BY <2>1 DEF WalkType
<1>7. ASSUME NEW t \in Nat, NEW w \in WalkType(n, t), WalkRight(w, h)
      PROVE  WalkRight(w, r)
  <2>1. /\ w.bound \in Nat /\ w.called \in Seq(1 .. n) /\ w.found \in Seq(0 .. n)
        /\ Len(w.found) = w.bound
    BY <1>7 DEF WalkType, WalkRight
  <2>2. /\ \A j \in 1 .. Len(w.called) : w.called[j] \in 1 .. n
        /\ \A j \in 1 .. w.bound : w.found[j] \in 0 .. n
    BY <2>1, ElementOfSeq
  <2>3. AheadOf(w, r)
    <3> SUFFICES ASSUME NEW j \in 1 .. Len(w.called), NEW k \in 1 .. Len(r),
                        k >= w.at, r[k] # Tombstone
                 PROVE  w.called[j] < r[k]
      BY DEF AheadOf
    <3>1. CASE k = Len(h) + 1
      BY <1>3, <2>2, <3>1
    <3>2. CASE k # Len(h) + 1
      <4>1. k \in 1 .. Len(h) /\ r[k] = h[k]
        BY <1>1, <1>3, <3>2
      <4> QED
        BY <1>7, <4>1 DEF WalkRight, AheadOf
    <3> QED
      BY <3>1, <3>2
  <2>4. ASSUME ~w.shifted PROVE FaithfulTo(w, r)
    <3>1. FaithfulTo(w, h)
      BY <1>7, <2>4 DEF WalkRight
    <3>2. Len(r) >= w.bound /\ \A k \in 1 .. w.bound : k \in 1 .. Len(h) /\ r[k] = h[k]
      <4>1. Len(h) >= w.bound /\ Len(r) = Len(h) + 1 /\ Len(h) \in Nat /\ w.bound \in Nat
        BY <1>1, <1>3, <2>1, <3>1 DEF FaithfulTo
      <4>2. \A k \in 1 .. w.bound : k \in 1 .. Len(h)
        BY <4>1
      <4> QED
        BY <1>3, <4>1, <4>2
    <3>3. ASSUME NEW k \in 1 .. Len(r), k > w.bound, r[k] # Tombstone, NEW j \in 1 .. w.bound
          PROVE  w.found[j] < r[k]
      <4>1. CASE k = Len(h) + 1
        BY <1>3, <2>2, <4>1
      <4>2. CASE k # Len(h) + 1
        <5>1. k \in 1 .. Len(h) /\ r[k] = h[k]
          BY <1>1, <1>3, <4>2
        <5> QED
          BY <3>1, <3>3, <5>1 DEF FaithfulTo
      <4> QED
        BY <4>1, <4>2
    <3>4. \A k \in 1 .. w.bound : r[k] \in {w.found[k], Tombstone}
      BY <3>1, <3>2 DEF FaithfulTo
    <3>5. \A k \in 1 .. w.bound : k < w.at =>
             r[k] = Tombstone \/ \E j \in 1 .. Len(w.called) : w.called[j] = r[k]
      BY <3>1, <3>2 DEF FaithfulTo
    <3> QED
      BY <3>1, <3>2, <3>3, <3>4, <3>5 DEF FaithfulTo
  <2> QED
    BY <1>7, <2>3, <2>4 DEF WalkRight
<1> QED
  BY <1>4, <1>5, <1>6, <1>7 DEF r

LEMMA CompactedKeeps ==
    ASSUME NEW n \in Nat, NEW h, ListRight(h, n)
    PROVE  /\ ListRight(Compacted(h), n)
           /\ \A k \in 1 .. Len(Compacted(h)) : \E m \in 1 .. Len(h) :
                 Compacted(h)[k] = h[m] /\ h[m] # Tombstone
           /\ \A w : w.at \in Nat /\ AheadOf(w, h) => AheadOf(w, Compacted(h))
<1> DEFINE c == Compacted(h)
<1>1. c \in Seq(0 .. n) /\ Picked(c, h, Len(h)) /\ Len(h) \in Nat
  BY CompactedPicks, LenProperties DEF ListRight
<1> HIDE DEF c
<1>2. \A k \in 1 .. Len(c) : \E m \in 1 .. Len(h) : k <= m /\ c[k] = h[m] /\ h[m] # Tombstone
  BY <1>1 DEF Picked
<1>3. ListRight(c, n)
  <2> SUFFICES ASSUME NEW j \in 1 .. Len(c), NEW k \in 1 .. Len(c),
                      j < k, c[j] # Tombstone, c[k] # Tombstone
               PROVE  c[j] < c[k]
    BY <1>1 DEF ListRight
  <2>1. PICK m \in 1 .. Len(h), o \in 1 .. Len(h) : m < o /\ c[j] = h[m] /\ c[k] = h[o]
    BY <1>1 DEF Picked
  <2> QED
    BY <2>1 DEF ListRight
<1>4. ASSUME NEW w, w.at \in Nat, AheadOf(w, h) PROVE AheadOf(w, c)
  <2> SUFFICES ASSUME NEW j \in 1 .. Len(w.called), NEW k \in 1 .. Len(c),
                      k >= w.at, c[k] # Tombstone
               PROVE  w.called[j] < c[k]
    BY DEF AheadOf
  <2>1. PICK m \in 1 .. Len(h) : k <= m /\ c[k] = h[m] /\ h[m] # Tombstone
    BY <1>2
  <2>2. m >= w.at
    BY <1>4, <2>1
  <2> QED
    BY <1>4, <2>1, <2>2 DEF AheadOf
<1> QED
  BY <1>2, <1>3, <1>4 DEF c

-----------------------------------------------------------------------------
(* Emitter: the walks. *)

LEMMA CountedTypes ==
    ASSUME EInv
    PROVE  /\ Len(callbackOf) \in Nat /\ DOMAIN callbackOf = 1 .. Len(callbackOf)
           /\ table \in Nat /\ removals \in Nat /\ table \in Tables
           /\ 0 .. Len(callbackOf) \subseteq Ids \cup {Tombstone}
           /\ 1 .. Len(callbackOf) \subseteq Ids
           /\ walks \in Seq(WalkType(Len(callbackOf), table))
           /\ \A t \in Tables : ListRight(handlers[t], Len(callbackOf)) /\ t \in Nat
           /\ 0 .. table \subseteq Tables
<1>1. Len(callbackOf) \in Nat /\ DOMAIN callbackOf = 1 .. Len(callbackOf)
  BY LenProperties DEF EInv, Tallies
<1>2. table \in Nat /\ removals \in Nat /\ table \in Tables /\ 0 .. table \subseteq Tables
  BY BoundsAreNumbers DEF EInv, Tallies, Tables
<1>3. 0 .. Len(callbackOf) \subseteq Ids \cup {Tombstone} /\ 1 .. Len(callbackOf) \subseteq Ids
  BY <1>1, BoundsAreNumbers DEF EInv, Tallies, Ids, Tombstone
<1> QED
  BY <1>1, <1>2, <1>3 DEF EInv, Walks, Lists, Tables

LEMMA OnTop ==
    ASSUME NEW T, walks \in Seq(T), walks # <<>>
    PROVE  /\ Top \in T /\ Top = walks[1] /\ 1 \in 1 .. Len(walks)
           /\ \A x \in T :
                 /\ WithTop(x) \in Seq(T) /\ Len(WithTop(x)) = Len(walks)
                 /\ WithTop(x)[1] = x
                 /\ \A k \in 1 .. Len(walks) : k # 1 => WithTop(x)[k] = walks[k]
           /\ Tail(walks) \in Seq(T) /\ Len(Tail(walks)) = Len(walks) - 1
           /\ \A k \in 1 .. Len(walks) - 1 : Tail(walks)[k] = walks[k + 1] /\ k + 1 \in 1 .. Len(walks)
<1>1. Len(walks) \in Nat \ {0}
  BY EmptySeq
<1>2. Top \in T /\ Top = walks[1] /\ 1 \in 1 .. Len(walks)
  BY <1>1, HeadTailProperties DEF Top
<1>3. /\ Tail(walks) \in Seq(T) /\ Len(Tail(walks)) = Len(walks) - 1
      /\ \A k \in 1 .. Len(walks) - 1 : Tail(walks)[k] = walks[k + 1]
  BY <1>1, HeadTailProperties
<1>4. ASSUME NEW x \in T
      PROVE  /\ WithTop(x) \in Seq(T) /\ Len(WithTop(x)) = Len(walks)
             /\ WithTop(x)[1] = x
             /\ \A k \in 1 .. Len(walks) : k # 1 => WithTop(x)[k] = walks[k]
  <2>1. <<x>> \in Seq(T) /\ Len(<<x>>) = 1 /\ <<x>>[1] = x
    OBVIOUS
  <2>2. /\ WithTop(x) \in Seq(T) /\ Len(WithTop(x)) = 1 + Len(Tail(walks))
        /\ \A i \in 1 .. 1 + Len(Tail(walks)) :
              WithTop(x)[i] = IF i <= 1 THEN <<x>>[i] ELSE Tail(walks)[i - 1]
    BY <1>3, <2>1, ConcatProperties DEF WithTop
  <2>3. Len(WithTop(x)) = Len(walks)
    BY <1>1, <1>3, <2>2
  <2>4. WithTop(x)[1] = x
    BY <1>1, <1>3, <2>1, <2>2
  <2>5. ASSUME NEW k \in 1 .. Len(walks), k # 1 PROVE WithTop(x)[k] = walks[k]
    <3>1. k - 1 \in 1 .. Len(walks) - 1 /\ (k - 1) + 1 = k
      BY <1>1, <2>5
    <3>2. WithTop(x)[k] = Tail(walks)[k - 1]
      BY <1>1, <1>3, <2>2, <2>5
    <3> QED
      BY <1>3, <3>1, <3>2
  <2> QED
    BY <2>2, <2>3, <2>4, <2>5
<1>5. \A k \in 1 .. Len(walks) - 1 : k + 1 \in 1 .. Len(walks)
  BY <1>1
<1> QED
  BY <1>2, <1>3, <1>4, <1>5

\* What the invariant says of the emit under way.
LEMMA TopRight ==
    ASSUME EInv, walks # <<>>
    PROVE  /\ Top \in WalkType(Len(callbackOf), table)
           /\ Top.table \in Tables /\ Top.table \in 0 .. table
           /\ WalkRight(Top, handlers[Top.table])
           /\ ListRight(handlers[Top.table], Len(callbackOf))
<1>1. Top \in WalkType(Len(callbackOf), table) /\ Top = walks[1] /\ 1 \in 1 .. Len(walks)
  BY CountedTypes, OnTop
<1>2. Top.table \in 0 .. table /\ Top.table \in Tables
  BY <1>1, CountedTypes DEF WalkType
<1> QED
  BY <1>1, <1>2, CountedTypes DEF EInv, Walks

-----------------------------------------------------------------------------
(* Emitter: the steps. *)

LEMMA EmitterInitOK == EmitterInit => EInv
<1> SUFFICES ASSUME EmitterInit PROVE EInv
  OBVIOUS
<1>0. callbackOf = <<>> /\ walks = <<>> /\ Len(callbackOf) = 0 /\ Len(walks) = 0
  BY DEF EmitterInit
<1>1. Tallies
  BY <1>0, BoundsAreNumbers DEF EmitterInit, Tallies, Tables
<1>2. Lists
  <2>1. ListRight(<<>>, Len(callbackOf))
    BY <1>0 DEF ListRight
  <2> QED
    BY <2>1 DEF EmitterInit, Lists
<1>3. Walks
  BY <1>0 DEF Walks
<1>4. Once
  BY DEF EmitterInit, Once
<1>5. Silent
  <2>1. 0 \in Tables
    BY BoundsAreNumbers DEF Tables
  <2>2. handlers[0] = <<>>
    BY <2>1 DEF EmitterInit
  <2> QED
    BY <2>2 DEF Silent
<1> QED
  BY <1>1, <1>2, <1>3, <1>4, <1>5 DEF EInv

LEMMA OnStep ==
    ASSUME EInv, NEW listener \in Callbacks, NEW once \in BOOLEAN, On(listener, once)
    PROVE  EInv'
<1> DEFINE n == Len(callbackOf)
           h == handlers[table]
<1>0. /\ n \in Nat /\ n < MaxListeners /\ callbackOf' = Append(callbackOf, listener)
      /\ onceIds' = IF once THEN onceIds \cup {n + 1} ELSE onceIds
      /\ handlers' = [handlers EXCEPT ![table] = Append(@, n + 1)]
      /\ silenced' = silenced \ {listener}
      /\ table' = table /\ walks' = walks /\ emits' = emits /\ removals' = removals
      /\ times' = times
  BY CountedTypes DEF On
<1>1. /\ callbackOf' \in Seq(Callbacks) /\ Len(callbackOf') = n + 1
      /\ \A k \in 1 .. n : callbackOf'[k] = callbackOf[k]
      /\ callbackOf'[n + 1] = listener
  BY <1>0, AppendProperties DEF EInv, Tallies
<1>2. /\ handlers'[table] = Append(h, n + 1) /\ DOMAIN handlers' = Tables
      /\ \A t \in Tables : t # table => handlers'[t] = handlers[t]
      /\ handlers' = [t \in Tables |-> handlers'[t]]
  BY <1>0, CountedTypes DEF EInv, Lists
<1>3. /\ ListRight(Append(h, n + 1), n + 1)
      /\ \A t \in Tables : ListRight(handlers[t], n + 1)
      /\ WalkType(n, table) \subseteq WalkType(n + 1, table)
      /\ \A w \in WalkType(n, table) : WalkRight(w, h) => WalkRight(w, Append(h, n + 1))
  BY <1>0, CountedTypes, AppendedKeeps
<1>4. Tallies'
  <2>1. onceIds' \subseteq 1 .. n + 1
    <3>1. onceIds \subseteq 1 .. n
      BY DEF EInv, Tallies
    <3>2. \A id \in onceIds' : id \in onceIds \/ id = n + 1
      BY <1>0
    <3>3. 1 .. n \subseteq 1 .. n + 1 /\ n + 1 \in 1 .. n + 1
      BY <1>0
    <3> QED
      BY <3>1, <3>2, <3>3
  <2>2. n + 1 <= MaxListeners
    BY <1>0, BoundsAreNumbers
  <2>3. \A id \in Ids : id > n + 1 => times'[id] = 0
    BY <1>0, BoundsAreNumbers DEF EInv, Tallies, Ids
  <2>4. silenced' \subseteq Callbacks
    BY <1>0 DEF EInv, Tallies
  <2> QED
    BY <1>0, <1>1, <2>1, <2>2, <2>3, <2>4 DEF EInv, Tallies
<1>5. Lists'
  <2>1. \A t \in Tables : ListRight(handlers'[t], n + 1)
    BY <1>2, <1>3
  <2> QED
    BY <1>1, <1>2, <2>1 DEF Lists
<1>6. Walks'
  <2>1. walks' \in Seq(WalkType(n + 1, table))
    BY <1>0, <1>3, CountedTypes, SeqMonotonic
  <2>2. ASSUME NEW k \in 1 .. Len(walks) PROVE WalkRight(walks[k], handlers'[walks[k].table])
    <3>1. walks[k] \in WalkType(n, table)
      BY CountedTypes, ElementOfSeq
    <3>2. walks[k].table \in Tables
      BY <3>1, CountedTypes DEF WalkType
    <3>3. WalkRight(walks[k], handlers[walks[k].table])
      BY DEF EInv, Walks
    <3> QED
      BY <1>2, <1>3, <3>1, <3>2, <3>3
  <2> QED
    BY <1>0, <1>1, <2>1, <2>2 DEF Walks
<1>7. /\ Len(Append(h, n + 1)) = Len(h) + 1 /\ Len(h) \in Nat
      /\ \A k \in 1 .. Len(h) : Append(h, n + 1)[k] = h[k] /\ h[k] \in 0 .. n
      /\ Append(h, n + 1)[Len(h) + 1] = n + 1
  <2>1. h \in Seq(0 .. n) /\ Append(h, n + 1) \in Seq(0 .. n + 1) /\ Len(h) \in Nat
    BY <1>3, CountedTypes, LenProperties DEF ListRight
  <2>2. h \in Seq(Int) /\ n + 1 \in Int
    BY <1>0, <2>1, SeqMonotonic
  <2> QED
    BY <2>1, <2>2, AppendProperties, ElementOfSeq
<1>8. ASSUME table = 0, NEW k \in 1 .. Len(handlers'[0])
      PROVE  \/ handlers'[0][k] = n + 1
             \/ k \in 1 .. Len(handlers[0]) /\ handlers'[0][k] = handlers[0][k]
                /\ handlers[0][k] \in 0 .. n
  <2> HIDE DEF h
  <2>1. handlers'[0] = Append(h, n + 1) /\ h = handlers[0]
    BY <1>2, <1>8 DEF h
  <2>2. CASE k = Len(h) + 1
    BY <1>7, <2>1, <2>2
  <2>3. CASE k # Len(h) + 1
    <3>1. k \in 1 .. Len(h)
      BY <1>7, <1>8, <2>1, <2>3
    <3> QED
      BY <1>7, <2>1, <3>1
  <2> QED
    BY <2>2, <2>3
<1>9. Once'
  <2> SUFFICES ASSUME table = 0, NEW id \in onceIds'
               PROVE  /\ times[id] <= 1
                      /\ times[id] = 1 => \A k \in 1 .. Len(handlers'[0]) : handlers'[0][k] # id
    BY <1>0 DEF Once
  <2>1. CASE id = n + 1
    <3>1. times[id] = 0
      BY <1>0, <2>1, BoundsAreNumbers DEF EInv, Tallies, Ids
    <3> QED
      BY <3>1
  <2>2. CASE id # n + 1
    <3>1. id \in onceIds /\ id \in 1 .. n
      BY <1>0, <2>2 DEF EInv, Tallies
    <3> QED
      BY <1>8, <2>2, <3>1 DEF EInv, Once
  <2> QED
    BY <2>1, <2>2
<1>10. Silent'
  <2> SUFFICES ASSUME table = 0, NEW k \in 1 .. Len(handlers'[0]), handlers'[0][k] # Tombstone
               PROVE  callbackOf'[handlers'[0][k]] \notin silenced'
    BY <1>0 DEF Silent
  <2>1. CASE handlers'[0][k] = n + 1
    BY <1>0, <1>1, <2>1
  <2>2. CASE handlers'[0][k] # n + 1
    <3>1. /\ k \in 1 .. Len(handlers[0]) /\ handlers'[0][k] = handlers[0][k]
          /\ handlers[0][k] \in 0 .. n
      BY <1>8, <2>2
    <3>2. callbackOf[handlers[0][k]] \notin silenced /\ handlers[0][k] \in 1 .. n
      BY <3>1 DEF EInv, Silent, Tombstone
    <3> QED
      BY <1>0, <1>1, <3>1, <3>2
  <2> QED
    BY <2>1, <2>2
<1> QED
  BY <1>4, <1>5, <1>6, <1>9, <1>10 DEF EInv

\* Listeners are taken out of the list that is in use, all the others stay.
TakenOut(g, ids) ==
    /\ DOMAIN g = Tables /\ g = [t \in Tables |-> g[t]]
    /\ \A t \in Tables : ListRight(g[t], Len(callbackOf))
    /\ \A w \in WalkType(Len(callbackOf), table) :
          WalkRight(w, handlers[w.table]) => WalkRight(w, g[w.table])
    /\ \A k \in 1 .. Len(g[table]) :
          /\ k \in 1 .. Len(handlers[table])
          /\ g[table][k] \in {handlers[table][k], Tombstone}
          /\ g[table][k] = Tombstone \/ g[table][k] \notin ids

LEMMA BuriedKeeps ==
    ASSUME EInv, NEW ids, NEW g, g = [handlers EXCEPT ![table] = Buried(@, ids)]
    PROVE  TakenOut(g, ids)
<1> DEFINE n == Len(callbackOf)
           h == handlers[table]
           r == Buried(h, ids)
<1>1. n \in Nat /\ ListRight(h, n)
  BY CountedTypes
<1>2. /\ ListRight(r, n) /\ Thinned(r, h)
      /\ \A k \in 1 .. Len(h) : r[k] \notin ids \/ r[k] = Tombstone
  BY <1>1, BuriedThins
<1>3. /\ DOMAIN g = Tables /\ g = [t \in Tables |-> g[t]] /\ g[table] = r
      /\ \A t \in Tables : t # table => g[t] = handlers[t]
  BY CountedTypes DEF EInv, Lists
<1> HIDE DEF r
<1>4. \A t \in Tables : ListRight(g[t], n)
  BY <1>2, <1>3, CountedTypes
<1>5. ASSUME NEW w \in WalkType(n, table), WalkRight(w, handlers[w.table])
      PROVE  WalkRight(w, g[w.table])
  <2>1. w.table \in Tables /\ table \in Nat
    BY CountedTypes DEF WalkType
  <2>2. CASE w.table = table
    BY <1>1, <1>2, <1>3, <1>5, <2>1, <2>2, ThinnedKeeps
  <2>3. CASE w.table # table
    BY <1>3, <1>5, <2>1, <2>3
  <2> QED
    BY <2>2, <2>3
<1>6. \A k \in 1 .. Len(g[table]) :
         k \in 1 .. Len(h) /\ r[k] \in {h[k], Tombstone} /\ (r[k] = Tombstone \/ r[k] \notin ids)
  BY <1>2, <1>3 DEF Thinned
<1> QED
  BY <1>3, <1>4, <1>5, <1>6 DEF TakenOut

\* After a call of removeListener or removeAllListeners with the name of the event.
LEMMA RemovalStep ==
    ASSUME EInv, Removal, NEW ids, handlers' = [handlers EXCEPT ![table] = Buried(@, ids)],
           table' = table, silenced' \subseteq Callbacks,
           \A id \in 1 .. Len(callbackOf) :
              id \in ids \/ callbackOf[id] \notin silenced' \/ callbackOf[id] \in silenced
    PROVE  EInv'
<1>0. /\ callbackOf' = callbackOf /\ onceIds' = onceIds /\ walks' = walks /\ emits' = emits
      /\ times' = times /\ removals' = removals + 1 /\ removals < MaxRemovals
  BY DEF Removal
<1>1. /\ DOMAIN handlers' = Tables /\ handlers' = [t \in Tables |-> handlers'[t]]
      /\ \A t \in Tables : ListRight(handlers'[t], Len(callbackOf))
      /\ \A w \in WalkType(Len(callbackOf), table) :
            WalkRight(w, handlers[w.table]) => WalkRight(w, handlers'[w.table])
      /\ \A k \in 1 .. Len(handlers'[table]) :
            /\ k \in 1 .. Len(handlers[table])
            /\ handlers'[table][k] \in {handlers[table][k], Tombstone}
            /\ handlers'[table][k] = Tombstone \/ handlers'[table][k] \notin ids
  <2>1. TakenOut(handlers', ids)
    BY BuriedKeeps
  <2> QED
    BY <2>1 DEF TakenOut
<1>2. Tallies'
  <2>1. removals' \in 0 .. MaxRemovals /\ table <= removals'
    BY <1>0, CountedTypes, BoundsAreNumbers DEF EInv, Tallies
  <2> QED
    BY <1>0, <2>1 DEF EInv, Tallies
<1>3. Lists'
  BY <1>0, <1>1 DEF Lists
<1>4. Walks'
  BY <1>0, <1>1, CountedTypes, ElementOfSeq DEF EInv, Walks
<1>5. Once'
  <2> SUFFICES ASSUME table = 0, NEW id \in onceIds
               PROVE  /\ times[id] <= 1
                      /\ times[id] = 1 => \A k \in 1 .. Len(handlers'[0]) : handlers'[0][k] # id
    BY <1>0 DEF Once
  <2>1. id # Tombstone
    BY DEF EInv, Tallies, Tombstone
  <2> QED
    BY <1>1, <2>1 DEF EInv, Once
<1>6. Silent'
  <2> SUFFICES ASSUME table = 0, NEW k \in 1 .. Len(handlers'[0]), handlers'[0][k] # Tombstone
               PROVE  callbackOf[handlers'[0][k]] \notin silenced'
    BY <1>0 DEF Silent
  <2>1. /\ k \in 1 .. Len(handlers[0]) /\ handlers'[0][k] = handlers[0][k]
        /\ handlers'[0][k] \notin ids
    BY <1>1
  <2>2. handlers[0][k] \in 0 .. Len(callbackOf)
    BY <2>1, CountedTypes, ElementOfSeq DEF ListRight
  <2>3. handlers[0][k] \in 1 .. Len(callbackOf)
    BY <2>1, <2>2 DEF Tombstone
  <2>4. callbackOf[handlers[0][k]] \notin silenced
    BY <2>1 DEF EInv, Silent
  <2> QED
    BY <2>1, <2>3, <2>4
<1> QED
  BY <1>2, <1>3, <1>4, <1>5, <1>6 DEF EInv

LEMMA RemoveListenerStep ==
    ASSUME EInv, NEW listener \in Callbacks, RemoveListener(listener)
    PROVE  EInv'
<1>1. \A id \in 1 .. Len(callbackOf) :
         \/ id \in Registered(listener)
         \/ callbackOf[id] \notin silenced \cup {listener} \/ callbackOf[id] \in silenced
  BY CountedTypes DEF Registered
<1>2. silenced' = silenced \cup {listener} /\ silenced' \subseteq Callbacks
  BY DEF RemoveListener, EInv, Tallies
<1> QED
  BY <1>1, <1>2, RemovalStep DEF RemoveListener

LEMMA RemoveAllOfEventStep ==
    ASSUME EInv, RemoveAllOfEvent
    PROVE  EInv'
<1>1. \A id \in 1 .. Len(callbackOf) : id \in Ids
  BY CountedTypes
<1> QED
  BY <1>1, RemovalStep DEF RemoveAllOfEvent

LEMMA ResetStep ==
    ASSUME EInv, Reset
    PROVE  EInv'
<1>0. /\ callbackOf' = callbackOf /\ onceIds' = onceIds /\ walks' = walks /\ emits' = emits
      /\ times' = times /\ removals' = removals + 1 /\ removals < MaxRemovals
      /\ table' = table + 1 /\ handlers' = handlers /\ silenced' = silenced
  BY DEF Reset, Removal
<1>1. Tallies'
  <2>1. removals' \in 0 .. MaxRemovals /\ table' <= removals' /\ table' \in Tables
    BY <1>0, CountedTypes, BoundsAreNumbers DEF EInv, Tallies, Tables
  <2> QED
    BY <1>0, <2>1 DEF EInv, Tallies
<1>2. Lists'
  BY <1>0 DEF EInv, Lists
<1>3. Walks'
  <2>1. WalkType(Len(callbackOf), table) \subseteq WalkType(Len(callbackOf), table + 1)
    <3>1. 0 .. table \subseteq 0 .. table + 1
      BY CountedTypes
    <3> QED
      BY <3>1 DEF WalkType
  <2>2. walks' \in Seq(WalkType(Len(callbackOf), table + 1))
    BY <1>0, <2>1, CountedTypes, SeqMonotonic
  <2> QED
    BY <1>0, <2>2 DEF EInv, Walks
<1>4. Once' /\ Silent'
  BY <1>0, CountedTypes DEF Once, Silent
<1> QED
  BY <1>1, <1>2, <1>3, <1>4 DEF EInv

LEMMA EmitStep ==
    ASSUME EInv, Emit
    PROVE  EInv'
<1> DEFINE n == Len(callbackOf)
           h == handlers[table]
           T == WalkType(n, table)
<1>0. /\ callbackOf' = callbackOf /\ onceIds' = onceIds /\ removals' = removals
      /\ times' = times /\ table' = table /\ handlers' = handlers /\ silenced' = silenced
      /\ walks' = <<Walk(table)>> \o walks /\ emits' = emits + 1 /\ emits < MaxEmits
  BY DEF Emit
<1>1. h \in Seq(0 .. n) /\ Len(h) \in Nat /\ table \in 0 .. table /\ walks \in Seq(T)
  BY CountedTypes, LenProperties DEF ListRight
<1>2. Walk(table) \in T
  BY <1>1 DEF Walk, WalkType
<1>3. WalkRight(Walk(table), h)
  <2> DEFINE w == Walk(table)
  <2>1. w.bound = Len(h) /\ w.found = h /\ w.at = 1 /\ w.called = <<>> /\ Len(w.called) = 0
    BY DEF Walk
  <2> HIDE DEF w
  <2>2. AheadOf(w, h)
    BY <2>1 DEF AheadOf
  <2>3. FaithfulTo(w, h)
    BY <1>1, <2>1 DEF FaithfulTo
  <2>4. WalkRight(w, h)
    BY <2>1, <2>2, <2>3 DEF WalkRight
  <2> QED
    BY <2>4 DEF w
<1>4. /\ walks' \in Seq(T) /\ Len(walks') = 1 + Len(walks) /\ Len(walks) \in Nat
      /\ \A k \in 1 .. Len(walks') :
            walks'[k] = Walk(table) \/ \E m \in 1 .. Len(walks) : walks'[k] = walks[m]
  <2>1. <<Walk(table)>> \in Seq(T) /\ Len(<<Walk(table)>>) = 1
    BY <1>2
  <2> HIDE DEF T
  <2>2. /\ walks' \in Seq(T) /\ Len(walks') = 1 + Len(walks) /\ Len(walks) \in Nat
        /\ \A k \in 1 .. 1 + Len(walks) :
              walks'[k] = IF k <= 1 THEN <<Walk(table)>>[k] ELSE walks[k - 1]
    BY <1>0, <1>1, <2>1, ConcatProperties, LenProperties
  <2>3. ASSUME NEW k \in 1 .. 1 + Len(walks)
        PROVE  walks'[k] = Walk(table) \/ \E m \in 1 .. Len(walks) : walks'[k] = walks[m]
    <3>1. CASE k = 1
      BY <2>2, <3>1
    <3>2. CASE k # 1
      <4>1. k - 1 \in 1 .. Len(walks) /\ walks'[k] = walks[k - 1]
        BY <2>2, <3>2
      <4> QED
        BY <4>1
    <3> QED
      BY <3>1, <3>2
  <2> QED
    BY <2>2, <2>3
<1>5. Walks'
  <2>1. Walk(table).table = table
    BY DEF Walk
  <2> SUFFICES ASSUME NEW k \in 1 .. Len(walks') PROVE WalkRight(walks'[k], handlers[walks'[k].table])
    BY <1>0, <1>4 DEF Walks
  <2> QED
    BY <1>3, <1>4, <2>1 DEF EInv, Walks
<1>6. Tallies'
  <2>1. emits' \in 0 .. MaxEmits
    BY <1>0, BoundsAreNumbers DEF EInv, Tallies
  <2> QED
    BY <1>0, <2>1 DEF EInv, Tallies
<1>7. Lists' /\ Once' /\ Silent'
  BY <1>0 DEF EInv, Lists, Once, Silent
<1> QED
  BY <1>5, <1>6, <1>7 DEF EInv

\* The next listener of the emit under way.
LEMMA NextListener ==
    ASSUME EInv, walks # <<>>, NextAt(Top) # {}
    PROVE  LET h  == handlers[Top.table]
               at == Min(NextAt(Top))
           IN  /\ at \in 1 .. Len(h) /\ Top.at <= at /\ at <= Top.bound
               /\ h[at] \in 1 .. Len(callbackOf) /\ h[at] # Tombstone
               /\ \A k \in 1 .. Len(h) : Top.at <= k /\ k < at => h[k] = Tombstone
<1> DEFINE h  == handlers[Top.table]
           S  == NextAt(Top)
           at == Min(S)
<1>1. Top.at \in Nat /\ Top.bound \in Nat /\ h \in Seq(0 .. Len(callbackOf)) /\ Len(h) \in Nat
  BY TopRight, LenProperties DEF WalkType, ListRight
<1>2. S = {k \in Top.at .. Top.bound : k \in 1 .. Len(h) /\ h[k] # Tombstone}
  BY <1>1, LenProperties DEF NextAt
<1>3. S \subseteq Nat /\ S # {}
  BY <1>1, <1>2
<1> HIDE DEF S
<1>4. \E m \in S : \A k \in S : m <= k
  BY <1>3, Least
<1>5. at \in S /\ \A k \in S : at <= k
  BY <1>4 DEF Min
<1> HIDE DEF at
<1>6. /\ at \in 1 .. Len(h) /\ Top.at <= at /\ at <= Top.bound /\ h[at] # Tombstone
  BY <1>1, <1>2, <1>5
<1>7. h[at] \in 0 .. Len(callbackOf)
  BY <1>1, <1>6, ElementOfSeq
<1>8. ASSUME NEW k \in 1 .. Len(h), Top.at <= k, k < at PROVE h[k] = Tombstone
  <2>1. k \notin S
    BY <1>1, <1>5, <1>6, <1>8
  <2>2. k \in Top.at .. Top.bound
    BY <1>1, <1>6, <1>8
  <2> QED
    BY <1>2, <2>1, <2>2
<1> QED
  BY <1>6, <1>7, <1>8 DEF at, S, Tombstone

\* The emit under way, when it calls that listener.
LEMMA CalledRight ==
    ASSUME EInv, walks # <<>>, NextAt(Top) # {},
           NEW w, w = [Top EXCEPT !.at = Min(NextAt(Top)) + 1, !.inside = TRUE,
                                  !.called = Append(@, handlers[Top.table][Min(NextAt(Top))])]
    PROVE  /\ w \in WalkType(Len(callbackOf), table) /\ w.table = Top.table
           /\ WalkRight(w, handlers[Top.table])
<1> DEFINE n  == Len(callbackOf)
           h  == handlers[Top.table]
           at == Min(NextAt(Top))
           id == h[at]
<1>1. /\ at \in 1 .. Len(h) /\ Top.at <= at /\ at <= Top.bound
      /\ id \in 1 .. n /\ id # Tombstone
      /\ \A k \in 1 .. Len(h) : Top.at <= k /\ k < at => h[k] = Tombstone
  BY NextListener
<1>2. /\ w = [Top EXCEPT !.at = at + 1, !.inside = TRUE, !.called = Append(@, id)]
      /\ Top \in WalkType(n, table)
  BY TopRight
<1> HIDE DEF at
<1>3. /\ Top.called \in Seq(1 .. n) /\ Top.at \in Nat /\ Top.bound \in Nat
      /\ Len(Top.called) \in Nat
  BY <1>2, LenProperties DEF WalkType
<1>4. /\ w.called = Append(Top.called, id) /\ w.at = at + 1 /\ w.bound = Top.bound
      /\ w.found = Top.found /\ w.shifted = Top.shifted /\ w.table = Top.table
  BY <1>2 DEF WalkType
<1>5. /\ w.called \in Seq(1 .. n) /\ Len(w.called) = Len(Top.called) + 1
      /\ \A j \in 1 .. Len(Top.called) : w.called[j] = Top.called[j]
      /\ w.called[Len(Top.called) + 1] = id
  BY <1>1, <1>3, <1>4, AppendProperties
<1>6. w \in WalkType(n, table)
  <2>1. at + 1 \in Nat \ {0}
    BY <1>1
  <2>2. w = [table |-> Top.table, at |-> at + 1, bound |-> Top.bound, inside |-> TRUE,
             found |-> Top.found, called |-> w.called, shifted |-> Top.shifted]
    BY <1>2 DEF WalkType
  <2>3. /\ Top.table \in 0 .. table /\ Top.bound \in Nat /\ Top.found \in Seq(0 .. n)
        /\ Top.shifted \in BOOLEAN
    BY <1>2 DEF WalkType
  <2> QED
    BY <1>5, <2>1, <2>2, <2>3 DEF WalkType
<1>7. /\ WalkRight(Top, h) /\ h \in Seq(0 .. n) /\ Len(h) \in Nat
      /\ \A j, k \in 1 .. Len(h) : j < k /\ h[j] # Tombstone /\ h[k] # Tombstone => h[j] < h[k]
  BY TopRight, LenProperties DEF ListRight
<1>8. \A j \in 1 .. Len(w.called) : j \in 1 .. Len(Top.called) \/ j = Len(Top.called) + 1
  BY <1>3, <1>5
<1>9. \A j \in 1 .. Len(Top.called) : Top.called[j] < id
  BY <1>1, <1>7 DEF WalkRight, AheadOf
<1> HIDE DEF id
<1>10. AheadOf(w, h)
  <2> SUFFICES ASSUME NEW j \in 1 .. Len(w.called), NEW k \in 1 .. Len(h),
                      k >= w.at, h[k] # Tombstone
               PROVE  w.called[j] < h[k]
    BY DEF AheadOf
  <2>1. k > at /\ k >= Top.at
    BY <1>1, <1>3, <1>4
  <2>2. CASE j \in 1 .. Len(Top.called)
    BY <1>5, <1>7, <2>1, <2>2 DEF WalkRight, AheadOf
  <2>3. CASE j = Len(Top.called) + 1
    BY <1>1, <1>5, <1>7, <2>1, <2>3 DEF id
  <2> QED
    BY <1>8, <2>2, <2>3
<1>11. \A j, k \in 1 .. Len(w.called) : j < k => w.called[j] < w.called[k]
  <2> SUFFICES ASSUME NEW j \in 1 .. Len(w.called), NEW k \in 1 .. Len(w.called), j < k
               PROVE  w.called[j] < w.called[k]
    OBVIOUS
  <2>1. j \in 1 .. Len(Top.called) /\ w.called[j] = Top.called[j]
    BY <1>3, <1>5
  <2>2. CASE k \in 1 .. Len(Top.called)
    BY <1>5, <1>7, <2>1, <2>2 DEF WalkRight
  <2>3. CASE k = Len(Top.called) + 1
    BY <1>5, <1>9, <2>1, <2>3
  <2> QED
    BY <1>8, <2>2, <2>3
<1>12. ASSUME ~w.shifted PROVE FaithfulTo(w, h)
  <2>1. FaithfulTo(Top, h)
    BY <1>4, <1>7, <1>12 DEF WalkRight
  <2>2. ASSUME NEW k \in 1 .. w.bound, k < w.at
        PROVE  h[k] = Tombstone \/ \E j \in 1 .. Len(w.called) : w.called[j] = h[k]
    <3>1. k \in 1 .. Len(h) /\ k \in 1 .. Top.bound
      BY <1>3, <1>4, <1>7, <2>1 DEF FaithfulTo
    <3>2. CASE k < Top.at
      <4>1. h[k] = Tombstone \/ \E j \in 1 .. Len(Top.called) : Top.called[j] = h[k]
        BY <2>1, <3>1, <3>2 DEF FaithfulTo
      <4>2. ASSUME NEW j \in 1 .. Len(Top.called)
            PROVE  j \in 1 .. Len(w.called) /\ w.called[j] = Top.called[j]
        BY <1>3, <1>5
      <4> QED
        BY <4>1, <4>2
    <3>3. CASE k = at
      <4>1. Len(Top.called) + 1 \in 1 .. Len(w.called)
        BY <1>3, <1>5
      <4> QED
        BY <1>5, <3>3, <4>1 DEF id
    <3>4. CASE Top.at <= k /\ k # at
      <4>1. k < at
        BY <1>1, <1>4, <2>2, <3>4
      <4> QED
        BY <1>1, <3>1, <3>4, <4>1
    <3> QED
      <4>1. k < Top.at \/ k = at \/ (Top.at <= k /\ k # at)
        BY <1>3, <1>4, <3>1
      <4> QED
        BY <4>1, <3>2, <3>3, <3>4
  <2>3. ASSUME NEW j \in 1 .. Len(w.called)
        PROVE  \E k \in 1 .. w.bound : w.called[j] = w.found[k]
    <3>1. CASE j \in 1 .. Len(Top.called)
      BY <1>4, <1>5, <2>1, <3>1 DEF FaithfulTo
    <3>2. CASE j = Len(Top.called) + 1
      <4>1. at \in 1 .. w.bound
        BY <1>1, <1>3, <1>4
      <4>2. h[at] = w.found[at]
        BY <1>1, <1>4, <2>1, <4>1 DEF FaithfulTo, id
      <4> QED
        BY <1>5, <3>2, <4>1, <4>2 DEF id
    <3> QED
      BY <1>8, <3>1, <3>2
  <2> QED
    BY <1>4, <2>1, <2>2, <2>3 DEF FaithfulTo
<1> QED
  BY <1>4, <1>6, <1>7, <1>10, <1>11, <1>12 DEF WalkRight

LEMMA CallListenerStep ==
    ASSUME EInv, CallListener
    PROVE  EInv'
<1> DEFINE n  == Len(callbackOf)
           T  == WalkType(n, table)
           h  == handlers[Top.table]
           at == Min(NextAt(Top))
           id == h[at]
           w  == [Top EXCEPT !.at = at + 1, !.inside = TRUE, !.called = Append(@, id)]
<1>0. /\ callbackOf' = callbackOf /\ onceIds' = onceIds /\ removals' = removals
      /\ table' = table /\ silenced' = silenced /\ emits' = emits
      /\ handlers' = IF id \in onceIds THEN Unregistered(id) ELSE handlers
      /\ times' = [times EXCEPT ![id] = @ + 1] /\ walks' = WithTop(w)
      /\ walks # <<>> /\ NextAt(Top) # {}
  BY DEF CallListener, Walking
<1>1. /\ at \in 1 .. Len(h) /\ id \in 1 .. n /\ id # Tombstone
  BY <1>0, NextListener
<1>2. w \in T /\ w.table = Top.table /\ WalkRight(w, h)
  BY <1>0, CalledRight
<1> HIDE DEF at, w
<1>3. id \in Ids /\ times[id] \in Nat /\ times' \in [Ids -> Nat] /\ times'[id] = times[id] + 1
      /\ \A i \in Ids : i # id => times'[i] = times[i]
  <2>1. id \in Ids /\ times \in [Ids -> Nat]
    BY <1>1, CountedTypes DEF EInv, Tallies
  <2> HIDE DEF id
  <2> QED
    BY <1>0, <2>1
<1>4. /\ DOMAIN handlers' = Tables /\ handlers' = [t \in Tables |-> handlers'[t]]
      /\ \A t \in Tables : ListRight(handlers'[t], n)
      /\ \A v \in T : WalkRight(v, handlers[v.table]) => WalkRight(v, handlers'[v.table])
      /\ \A k \in 1 .. Len(handlers'[table]) :
            /\ k \in 1 .. Len(handlers[table])
            /\ handlers'[table][k] \in {handlers[table][k], Tombstone}
            /\ id \in onceIds => handlers'[table][k] # id
  <2> DEFINE g == handlers'
  <2> HIDE DEF id
  <2>1. CASE id \in onceIds
    <3>1. g = [handlers EXCEPT ![table] = Buried(@, {id})]
      BY <1>0, <2>1 DEF Unregistered
    <3> HIDE DEF g
    <3>2. TakenOut(g, {id})
      BY <3>1, BuriedKeeps
    <3> QED
      BY <1>1, <3>2 DEF g, TakenOut
  <2>2. CASE id \notin onceIds
    <3>1. handlers' = handlers
      BY <1>0, <2>2
    <3> QED
      BY <2>2, <3>1 DEF EInv, Lists
  <2> QED
    BY <2>1, <2>2
<1>5. Tallies'
  <2>1. \A i \in Ids : i > n => times'[i] = 0
    <3>1. \A i \in Ids : i > n => i # id
      BY <1>1, CountedTypes DEF Ids
    <3> QED
      BY <1>3, <3>1 DEF EInv, Tallies
  <2> QED
    BY <1>0, <1>3, <2>1 DEF EInv, Tallies
<1>6. Lists'
  BY <1>0, <1>4 DEF Lists
<1>7. Walks'
  <2>1. /\ walks' \in Seq(T) /\ Len(walks') = Len(walks) /\ walks'[1] = w
        /\ \A k \in 1 .. Len(walks) : k # 1 => walks'[k] = walks[k]
    <3>1. \A x \in T : /\ WithTop(x) \in Seq(T) /\ Len(WithTop(x)) = Len(walks)
                       /\ WithTop(x)[1] = x
                       /\ \A k \in 1 .. Len(walks) : k # 1 => WithTop(x)[k] = walks[k]
      BY <1>0, CountedTypes, OnTop
    <3> QED
      BY <1>0, <1>2, <3>1
  <2>2. \A k \in 1 .. Len(walks) : walks[k] \in T /\ WalkRight(walks[k], handlers[walks[k].table])
    BY CountedTypes, ElementOfSeq DEF EInv, Walks
  <2>3. ASSUME NEW k \in 1 .. Len(walks') PROVE WalkRight(walks'[k], handlers'[walks'[k].table])
    <3>1. CASE k = 1
      BY <1>2, <1>4, <2>1, <3>1
    <3>2. CASE k # 1
      BY <1>4, <2>1, <2>2, <3>2
    <3> QED
      BY <3>1, <3>2
  <2> QED
    BY <1>0, <2>1, <2>3 DEF Walks
<1>8. Once'
  <2> SUFFICES ASSUME table = 0, NEW i \in onceIds
               PROVE  /\ times'[i] <= 1
                      /\ times'[i] = 1 => \A k \in 1 .. Len(handlers'[0]) : handlers'[0][k] # i
    BY <1>0 DEF Once
  <2>1. i \in Ids /\ i # Tombstone
    BY CountedTypes DEF EInv, Tallies, Tombstone
  <2>2. CASE i = id
    <3>1. Top.table = 0
      BY <1>0, TopRight
    <3>2. times[id] = 0
      BY <1>1, <1>3, <2>2, <3>1 DEF EInv, Once
    <3> QED
      BY <1>3, <1>4, <2>2, <3>2
  <2>3. CASE i # id
    BY <1>3, <1>4, <2>1, <2>3 DEF EInv, Once
  <2> QED
    BY <2>2, <2>3
<1>9. Silent'
  BY <1>0, <1>4 DEF EInv, Silent
<1> QED
  BY <1>5, <1>6, <1>7, <1>8, <1>9 DEF EInv

LEMMA ListenerEndsStep ==
    ASSUME EInv, ListenerEnds
    PROVE  EInv'
<1> DEFINE T == WalkType(Len(callbackOf), table)
           w == [Top EXCEPT !.inside = FALSE]
<1>0. /\ callbackOf' = callbackOf /\ onceIds' = onceIds /\ removals' = removals
      /\ table' = table /\ silenced' = silenced /\ emits' = emits /\ handlers' = handlers
      /\ times' = times /\ walks' = WithTop(w) /\ walks # <<>>
  BY DEF ListenerEnds
<1>1. Top \in T /\ WalkRight(Top, handlers[Top.table])
  BY <1>0, TopRight
<1>2. /\ w \in T /\ w.table = Top.table /\ w.at = Top.at /\ w.bound = Top.bound
      /\ w.found = Top.found /\ w.called = Top.called /\ w.shifted = Top.shifted
  BY <1>1 DEF WalkType
<1> HIDE DEF w
<1>3. WalkRight(w, handlers[w.table])
  <2> DEFINE h == handlers[Top.table]
  <2>1. handlers[w.table] = h /\ WalkRight(Top, h)
    BY <1>1, <1>2
  <2> HIDE DEF h
  <2>2. AheadOf(w, h)
    BY <1>2, <2>1 DEF WalkRight, AheadOf
  <2>3. FaithfulTo(Top, h) => FaithfulTo(w, h)
    BY <1>2 DEF FaithfulTo
  <2>4. WalkRight(w, h)
    BY <1>2, <2>1, <2>2, <2>3 DEF WalkRight
  <2> QED
    BY <2>1, <2>4
<1>4. Walks'
  <2>1. /\ walks' \in Seq(T) /\ Len(walks') = Len(walks) /\ walks'[1] = w
        /\ \A k \in 1 .. Len(walks) : k # 1 => walks'[k] = walks[k]
    BY <1>0, <1>2, CountedTypes, OnTop
  <2>2. ASSUME NEW k \in 1 .. Len(walks') PROVE WalkRight(walks'[k], handlers[walks'[k].table])
    <3>1. CASE k = 1
      BY <1>3, <2>1, <3>1
    <3>2. CASE k # 1
      BY <2>1, <3>2 DEF EInv, Walks
    <3> QED
      BY <3>1, <3>2
  <2> QED
    BY <1>0, <2>1, <2>2 DEF Walks
<1>5. Tallies' /\ Lists' /\ Once' /\ Silent'
  BY <1>0 DEF EInv, Tallies, Lists, Once, Silent
<1> QED
  BY <1>4, <1>5 DEF EInv

LEMMA EndEmitStep ==
    ASSUME EInv, EndEmit
    PROVE  EInv'
<1> DEFINE n == Len(callbackOf)
           T == WalkType(n, table)
           t == Top.table
           h == handlers[t]
           c == Compacted(h)
           rest == Tail(walks)
           changed == handlers'[t] # h
           w(k) == [rest[k] EXCEPT !.shifted = @ \/ (changed /\ rest[k].table = t)]
<1>0. /\ callbackOf' = callbackOf /\ onceIds' = onceIds /\ removals' = removals
      /\ table' = table /\ silenced' = silenced /\ emits' = emits /\ times' = times
      /\ handlers' = [handlers EXCEPT ![t] = c] /\ walks # <<>>
      /\ walks' = [k \in DOMAIN rest |-> w(k)]
  BY DEF EndEmit, Walking
<1>1. /\ t \in Tables /\ ListRight(h, n) /\ n \in Nat /\ walks \in Seq(T)
      /\ rest \in Seq(T) /\ Len(rest) = Len(walks) - 1 /\ Len(rest) \in Nat
      /\ DOMAIN rest = 1 .. Len(rest)
      /\ \A k \in 1 .. Len(rest) : rest[k] = walks[k + 1] /\ k + 1 \in 1 .. Len(walks)
  <2>1. walks \in Seq(T) /\ n \in Nat
    BY CountedTypes
  <2> HIDE DEF T
  <2>2. rest \in Seq(T) /\ Len(rest) \in Nat /\ DOMAIN rest = 1 .. Len(rest)
    BY <1>0, <2>1, OnTop, LenProperties
  <2> QED
    BY <1>0, <2>1, <2>2, TopRight, OnTop
<1>2. /\ ListRight(c, n)
      /\ \A k \in 1 .. Len(c) : \E m \in 1 .. Len(h) : c[k] = h[m] /\ h[m] # Tombstone
      /\ \A v : v.at \in Nat /\ AheadOf(v, h) => AheadOf(v, c)
  BY <1>1, CompactedKeeps
<1> HIDE DEF c
<1>3. /\ DOMAIN handlers' = Tables /\ handlers'[t] = c
      /\ \A u \in Tables : u # t => handlers'[u] = handlers[u]
      /\ handlers' = [u \in Tables |-> handlers'[u]]
  BY <1>0, <1>1 DEF EInv, Lists
<1>4. Lists'
  BY <1>0, <1>2, <1>3, CountedTypes DEF Lists
<1>5. Tallies'
  BY <1>0 DEF EInv, Tallies
<1>6. ASSUME table = 0, NEW k \in 1 .. Len(handlers'[0])
      PROVE  \E m \in 1 .. Len(handlers[0]) : handlers'[0][k] = handlers[0][m]
  <2>1. t = 0
    BY <1>0, <1>6, TopRight
  <2> QED
    BY <1>2, <1>3, <1>6, <2>1
<1>7. Once'
  BY <1>0, <1>6 DEF EInv, Once
<1>8. Silent'
  BY <1>0, <1>6 DEF EInv, Silent
<1>9. ASSUME NEW k \in 1 .. Len(rest)
      PROVE  w(k) \in T /\ WalkRight(w(k), handlers'[w(k).table])
  <2> DEFINE u == rest[k]
             v == w(k)
  <2>1. u \in T /\ u.table \in Tables /\ WalkRight(u, handlers[u.table])
    <3>1. u \in T /\ u = walks[k + 1] /\ k + 1 \in 1 .. Len(walks)
      <4> HIDE DEF T
      <4> QED
        BY <1>1, ElementOfSeq
    <3>2. u.table \in Tables
      BY <3>1, CountedTypes DEF WalkType
    <3> QED
      BY <3>1, <3>2 DEF EInv, Walks
  <2>2. v = [u EXCEPT !.shifted = @ \/ (changed /\ u.table = t)]
    OBVIOUS
  <2> HIDE DEF u, v, changed
  <2>3. u.shifted \in BOOLEAN /\ (u.shifted \/ (changed /\ u.table = t)) \in BOOLEAN
    BY <2>1 DEF WalkType
  <2>4. /\ v \in T /\ v.table = u.table /\ v.at = u.at /\ v.bound = u.bound
        /\ v.found = u.found /\ v.called = u.called
    BY <2>1, <2>2, <2>3 DEF WalkType
  <2>5. ~v.shifted => ~u.shifted /\ ~(changed /\ u.table = t)
    BY <2>1, <2>2 DEF WalkType
  <2>6. u.at \in Nat
    BY <2>1 DEF WalkType
  <2>7. AheadOf(v, handlers'[v.table])
    <3>1. AheadOf(u, handlers'[u.table])
      BY <1>2, <1>3, <2>1, <2>6 DEF WalkRight
    <3> QED
      BY <2>4, <3>1 DEF AheadOf
  <2>8. ASSUME ~v.shifted PROVE FaithfulTo(v, handlers'[v.table])
    <3>1. handlers'[u.table] = handlers[u.table]
      BY <1>3, <2>1, <2>5, <2>8 DEF changed
    <3>2. FaithfulTo(u, handlers'[u.table])
      BY <2>1, <2>5, <2>8, <3>1 DEF WalkRight
    <3>3. handlers'[v.table] = handlers'[u.table]
      BY <2>4
    <3>4. FaithfulTo(v, handlers'[u.table])
      BY <2>4, <3>2, FaithfulAlike
    <3> QED
      BY <3>3, <3>4
  <2>9. WalkRight(v, handlers'[v.table])
    BY <2>1, <2>4, <2>7, <2>8 DEF WalkRight
  <2> QED
    BY <2>4, <2>9 DEF v
<1>10. Walks'
  <2> HIDE DEF T, w
  <2>1. walks' = [k \in 1 .. Len(rest) |-> w(k)] /\ Len(rest) \in Nat
    BY <1>0, <1>1
  <2>2. walks' \in [1 .. Len(rest) -> T] /\ \A k \in 1 .. Len(rest) : walks'[k] = w(k)
    BY <1>9, <2>1
  <2>3. walks' \in Seq(T) /\ DOMAIN walks' = 1 .. Len(rest)
    BY <2>1, <2>2, SeqDef
  <2>4. Len(walks') = Len(rest)
    BY <2>1, <2>3, LenProperties
  <2> QED
    BY <1>0, <1>9, <2>2, <2>3, <2>4 DEF Walks, T
<1> QED
  BY <1>4, <1>5, <1>7, <1>8, <1>10 DEF EInv

LEMMA EmitterStep == EInv /\ [EmitterNext]_emitterVars => EInv'
<1> SUFFICES ASSUME EInv, [EmitterNext]_emitterVars PROVE EInv'
  OBVIOUS
<1>1. CASE EmitterNext
  BY <1>1, OnStep, RemoveListenerStep, RemoveAllOfEventStep, ResetStep, EmitStep,
     CallListenerStep, ListenerEndsStep, EndEmitStep DEF EmitterNext
<1>2. CASE UNCHANGED emitterVars
  BY <1>2 DEF emitterVars, EInv, Tallies, Lists, Walks, Once, Silent
<1> QED
  BY <1>1, <1>2

LEMMA EmitterInvariant == EmitterSpec => []EInv
BY EmitterInitOK, EmitterStep, PTL DEF EmitterSpec

\* The lists of listeners, the calls and the removals have their types.
THEOREM EmitterTyped == EmitterSpec => []EmitterTypeOK
<1>1. EInv => EmitterTypeOK
  <2> SUFFICES ASSUME EInv PROVE EmitterTypeOK
    OBVIOUS
  <2>1. handlers \in [Tables -> Seq(Ids \cup {Tombstone})]
    <3>1. \A t \in Tables : handlers[t] \in Seq(Ids \cup {Tombstone})
      BY CountedTypes, SeqMonotonic DEF ListRight
    <3> QED
      BY <3>1 DEF EInv, Lists
  <2> QED
    BY <2>1, CountedTypes DEF EInv, Tallies, EmitterTypeOK
<1> QED
  BY <1>1, EmitterInvariant, PTL

\* However deep emits are nested, and whatever is removed and compacted meanwhile: a once
\* listener is called once, and an emit calls nobody twice and everybody in order.
THEOREM CalledOnce == EmitterSpec => []CalledOnceInOrder
<1>1. EInv => CalledOnceInOrder
  <2> SUFFICES ASSUME EInv PROVE CalledOnceInOrder
    OBVIOUS
  <2>1. OnceOnly
    BY DEF EInv, Once, OnceOnly
  <2>2. EmitsInOrder
    <3>1. ASSUME NEW k \in 1 .. Len(walks)
          PROVE  DOMAIN walks[k].called = 1 .. Len(walks[k].called)
      <4>1. walks[k] \in WalkType(Len(callbackOf), table)
        BY CountedTypes, ElementOfSeq
      <4> QED
        BY <4>1, LenProperties DEF WalkType
    <3>2. DOMAIN walks = 1 .. Len(walks)
      BY CountedTypes, LenProperties
    <3> QED
      BY <3>1, <3>2 DEF EInv, Walks, WalkRight, EmitsInOrder
  <2> QED
    BY <2>1, <2>2 DEF CalledOnceInOrder
<1> QED
  BY <1>1, EmitterInvariant, PTL

LEMMA SilentStep ==
    ASSUME EInv, [EmitterNext]_emitterVars
    PROVE  SilentIfRemoved
<1> SUFFICES ASSUME NEW id \in DOMAIN callbackOf, times'[id] # times[id], table = 0
             PROVE  callbackOf[id] \notin silenced
  BY DEF SilentIfRemoved
<1>1. CallListener
  <2>1. times' # times
    OBVIOUS
  <2> QED
    BY <2>1 DEF EmitterNext, On, RemoveListener, RemoveAllOfEvent, Reset, Removal, Emit,
       ListenerEnds, EndEmit, emitterVars
<1> DEFINE at == Min(NextAt(Top))
<1>2. walks # <<>> /\ NextAt(Top) # {} /\ times' = [times EXCEPT ![handlers[Top.table][at]] = @ + 1]
  BY <1>1 DEF CallListener, Walking
<1>3. Top.table = 0 /\ at \in 1 .. Len(handlers[0]) /\ handlers[0][at] # Tombstone
  BY <1>2, NextListener, TopRight
<1> HIDE DEF at
<1>4. id = handlers[0][at]
  BY <1>2, <1>3
<1> QED
  BY <1>3, <1>4 DEF EInv, Silent

LEMMA ToAllStep ==
    ASSUME EInv, [EmitterNext]_emitterVars
    PROVE  ToAll
<1> DEFINE n == Len(callbackOf)
           T == WalkType(n, table)
           h == handlers[Top.table]
<1> SUFFICES ASSUME Len(walks') < Len(walks), ~Top.shifted
             PROVE  /\ (Range(Top.found) \cap Range(h)) \ {Tombstone} \subseteq Range(Top.called)
                    /\ Range(Top.called) \subseteq Range(Top.found)
  BY DEF ToAll
<1>1. walks \in Seq(T) /\ Len(walks) \in Nat
  BY CountedTypes, LenProperties
<1>2. EndEmit
  <2>1. walks' # walks
    BY <1>1
  <2>2. ~Emit
    <3> SUFFICES ASSUME Emit PROVE FALSE
      OBVIOUS
    <3>1. walks' \in Seq(WalkType(Len(callbackOf'), table')) /\ walks' = <<Walk(table)>> \o walks
      BY EmitStep DEF EInv, Walks, Emit
    <3>2. Len(walks') = Len(<<Walk(table)>>) + Len(walks)
      <4>1. <<Walk(table)>> \in Seq({Walk(table)} \cup T) /\ walks \in Seq({Walk(table)} \cup T)
        BY <1>1, SeqMonotonic
      <4> QED
        BY <3>1, <4>1, ConcatProperties
    <3> QED
      BY <1>1, <3>2
  <2>3. ~CallListener /\ ~ListenerEnds
    <3> SUFFICES ASSUME CallListener \/ ListenerEnds PROVE FALSE
      OBVIOUS
    <3>1. PICK w : walks' = WithTop(w) /\ walks # <<>>
      BY DEF CallListener, ListenerEnds, Walking
    <3>2. walks \in Seq(T \cup {w})
      BY <1>1, SeqMonotonic
    <3>3. Len(WithTop(w)) = Len(walks)
      BY <3>1, <3>2, OnTop
    <3> QED
      BY <1>1, <3>1, <3>3
  <2> QED
    BY <2>1, <2>2, <2>3 DEF EmitterNext, On, RemoveListener, RemoveAllOfEvent, Reset, Removal,
       emitterVars
<1>3. NextAt(Top) = {} /\ walks # <<>>
  BY <1>2 DEF EndEmit, Walking
<1>4. /\ FaithfulTo(Top, h) /\ Top.found \in Seq(0 .. n) /\ Top.called \in Seq(1 .. n)
      /\ Len(Top.found) = Top.bound /\ h \in Seq(0 .. n) /\ Top.at \in Nat /\ Top.bound \in Nat
  BY <1>3, TopRight DEF WalkRight, WalkType, ListRight
<1>5. /\ Range(Top.found) = {Top.found[k] : k \in 1 .. Top.bound}
      /\ Range(Top.called) = {Top.called[k] : k \in 1 .. Len(Top.called)}
      /\ Range(h) = {h[k] : k \in 1 .. Len(h)} /\ DOMAIN h = 1 .. Len(h) /\ Len(h) \in Nat
  BY <1>4, LenProperties DEF Range
<1>6. ASSUME NEW j \in 1 .. Top.bound, NEW k \in 1 .. Len(h),
             Top.found[j] = h[k], h[k] # Tombstone
      PROVE  \E i \in 1 .. Len(Top.called) : Top.called[i] = h[k]
  <2>1. h[k] \in Int
    BY <1>4, ElementOfSeq, SMTT(30)
  <2>2. ~(k > Top.bound)
    <3> SUFFICES ASSUME k > Top.bound PROVE FALSE
      OBVIOUS
    <3>1. Top.found[j] < h[k]
      BY <1>4, <1>6 DEF FaithfulTo
    <3>2. ~(h[k] < h[k])
      BY <2>1
    <3> QED
      BY <1>6, <3>1, <3>2, Zenon
  <2>3. k \in 1 .. Top.bound
    BY <1>4, <2>2
  <2>4. ~(k >= Top.at)
    <3> SUFFICES ASSUME k >= Top.at PROVE FALSE
      OBVIOUS
    <3>1. k \in Top.at .. Top.bound /\ k \in DOMAIN handlers[Top.table]
      BY <1>4, <1>5, <2>3
    <3> QED
      BY <1>3, <1>6, <3>1 DEF NextAt
  <2>5. k < Top.at
    BY <1>4, <2>4
  <2> QED
    BY <1>4, <1>6, <2>3, <2>5 DEF FaithfulTo
<1>7. ASSUME NEW x \in Range(Top.found), x \in Range(h), x # Tombstone
      PROVE  x \in Range(Top.called)
  BY <1>5, <1>6, <1>7
<1>8. Range(Top.called) \subseteq Range(Top.found)
  BY <1>4, <1>5 DEF FaithfulTo
<1> QED
  BY <1>7, <1>8

\* A removed function stays silent also under the emits that are under way, and an emit
\* whose list was not compacted under it reaches all that it found and nobody else.
THEOREM EmitsAsPromised == EmitterSpec => EmitsRightly
<1>1. EInv /\ [EmitterNext]_emitterVars => [SilentIfRemoved /\ ToAll]_emitterVars
  BY SilentStep, ToAllStep
<1> QED
  BY <1>1, EmitterInvariant, PTL DEF EmitterSpec, EmitsRightly

-----------------------------------------------------------------------------
(* The socket: the wire carries the chunks in order, the FIN comes after   *)
(* what finish() found written (as far as the code keeps that), and the    *)
(* handle is closed once.                                                  *)

\* The chunks that the writing half has handed over, and those of them that
\* libuv has sent.
Handed == accepted - Len(buffer)
SentOff == IF request.state \in {"none", "sent"} THEN Handed ELSE Handed - 1

\* The flags of the handle.
Handles ==
    /\ destroyed <=> handle # "open"
    /\ closes = IF handle = "closed" THEN 1 ELSE 0
    /\ misused \subseteq {"connect"}

\* As long as the handle is open, the writing half holds the chunks that follow
\* the one it has handed over, and a shutdown that may still happen will find at
\* most one chunk that libuv does not know, and a callback that hands it over.
Kept ==
    handle = "open" =>
       /\ request.state = "none" => buffer = <<>>
       /\ request.state # "none" => request.chunk = Handed
       /\ \A k \in 1 .. Len(buffer) : buffer[k] = Handed + k
       /\ shutdown # "done" /\ request.state # "lost" => Len(wire) = SentOff
       /\ shutdown = "asked" /\ promised.safe /\ request.state # "lost" =>
             /\ promised.chunks <= Handed + 1
             /\ inCallbacks => promised.chunks <= Handed

\* Until the shutdown there are only chunks on the wire.
Wired ==
    /\ WireInOrder
    /\ shutdown # "done" => \A k \in DOMAIN wire : wire[k] = k

Bounds ==
    /\ promised.chunks <= accepted
    /\ request.chunk = NoChunk <=> request.state = "none"

Streams == Kept /\ Wired /\ FinAfterLast /\ Bounds

SocketInv == SocketTypeOK /\ Handles /\ Streams

LEMMA SocketStart == SocketInit => SocketInv
<1> SUFFICES ASSUME SocketInit PROVE SocketInv
    OBVIOUS
<1> USE SocketAssumption DEF SocketInit
<1>0. request.state = "none" /\ request.chunk = NoChunk
    BY DEF NoRequest
<1>1. SocketTypeOK
  <2>1. {destroyed, ending, finished, inCallbacks} \subseteq BOOLEAN
        OBVIOUS
  <2>2. request \in [chunk : Chunks \cup {NoChunk},
                     state : {"none", "lost", "queued", "sent", "failed"}]
        BY DEF NoRequest
  <2>3. promised \in [chunks : 0 .. MaxWrites, safe : BOOLEAN]
        OBVIOUS
  <2>4. buffer \in Seq(Chunks) /\ wire \in Seq(Chunks \cup {FIN})
        OBVIOUS
  <2> QED BY <2>1, <2>2, <2>3, <2>4 DEF SocketTypeOK, Stages
<1>2. Handles
    BY DEF Handles
<1>3. Len(wire) = 0 /\ Len(buffer) = 0 /\ DOMAIN wire = {}
    OBVIOUS
<1>4. Kept
  <2>0. accepted = 0
        OBVIOUS
  <2>1. Handed = 0 /\ SentOff = 0
    <3> HIDE DEF SocketInit
    <3> QED BY <1>0, <1>3, <2>0 DEF Handed, SentOff
  <2>2. shutdown # "asked" /\ buffer = <<>>
        OBVIOUS
  <2> HIDE DEF SocketInit
  <2> QED BY <1>0, <1>3, <2>1, <2>2 DEF Kept
<1>5. Wired /\ FinAfterLast
    BY <1>3 DEF Wired, WireInOrder, FinAfterLast, FinSent
<1>6. Bounds
    BY DEF Bounds, NoRequest
<1> QED BY <1>1, <1>2, <1>4, <1>5, <1>6 DEF SocketInv, Streams

\* A step that leaves the chunks and the shutdown alone, and at most closes the
\* handle.
LEMMA IdleStreams ==
    ASSUME Streams, handle' = "open" => handle = "open",
           UNCHANGED <<accepted, buffer, request, shutdown, inCallbacks, wire, promised>>
    PROVE  Streams'
<1>1. Kept'
    BY DEF Streams, Kept, Handed, SentOff
<1>2. Wired'
    BY DEF Streams, Wired, WireInOrder
<1>3. FinAfterLast'
    BY DEF Streams, FinAfterLast, FinSent, Sent
<1>4. Bounds'
    BY DEF Streams, Bounds
<1> QED BY <1>1, <1>2, <1>3, <1>4 DEF Streams

\* A step after which the handle is not open: the wire stays as it is.
LEMMA ClosedStreams ==
    ASSUME Streams, handle' # "open",
           UNCHANGED <<accepted, wire, promised>>,
           shutdown' \in {shutdown, "done"},
           request.state = "lost" => request'.state = "lost",
           request'.chunk = NoChunk <=> request'.state = "none"
    PROVE  Streams'
<1>1. Kept'
    BY DEF Kept
<1>2. Wired'
    BY DEF Streams, Wired, WireInOrder
<1>3. FinAfterLast'
    BY DEF Streams, FinAfterLast, FinSent, Sent
<1>4. Bounds'
    BY DEF Streams, Bounds
<1> QED BY <1>1, <1>2, <1>3, <1>4 DEF Streams

-----------------------------------------------------------------------------
(* What is handed to libuv. *)
LEMMA SocketTypes ==
    ASSUME SocketTypeOK
    PROVE  /\ accepted \in Nat /\ Len(buffer) \in Nat /\ Handed \in Int
           /\ wire \in Seq(Chunks \cup {FIN}) /\ DOMAIN wire = 1 .. Len(wire) /\ Len(wire) \in Nat
           /\ promised.chunks \in Nat /\ MaxWrites \in Nat
           /\ request.state \in {"none", "lost", "queued", "sent", "failed"}
<1>1. accepted \in Nat /\ MaxWrites \in Nat
    BY SocketAssumption DEF SocketTypeOK
<1>2. buffer \in Seq(Chunks) /\ wire \in Seq(Chunks \cup {FIN})
    BY DEF SocketTypeOK
<1>3. Len(buffer) \in Nat /\ DOMAIN wire = 1 .. Len(wire) /\ Len(wire) \in Nat
    BY <1>2, LenProperties
<1>4. promised \in [chunks : 0 .. MaxWrites, safe : BOOLEAN]
    BY DEF SocketTypeOK
<1>5. promised.chunks \in Nat
    BY <1>1, <1>4
<1>6. request.state \in {"none", "lost", "queued", "sent", "failed"}
    BY DEF SocketTypeOK
<1> QED BY <1>1, <1>2, <1>3, <1>5, <1>6 DEF Handed

LEMMA Transmitted ==
    ASSUME SocketTypeOK, NEW chunk \in Chunks, Transmit(chunk)
    PROVE  /\ request' \in [chunk : Chunks \cup {NoChunk},
                            state : {"none", "lost", "queued", "sent", "failed"}]
           /\ request'.chunk = chunk
           /\ wire' \in Seq(Chunks \cup {FIN})
           /\ \/ request'.state = "sent" /\ wire' = Append(wire, chunk) /\ shutdown # "done"
              \/ request'.state \in {"queued", "failed"} /\ wire' = wire
<1>1. wire \in Seq(Chunks \cup {FIN})
    BY SocketTypes
<1>2. Append(wire, chunk) \in Seq(Chunks \cup {FIN})
    BY <1>1, AppendProperties
<1>3. \/ /\ request' = [chunk |-> chunk, state |-> "sent"]
         /\ wire' = Append(wire, chunk) /\ shutdown # "done"
      \/ request' = [chunk |-> chunk, state |-> "failed"] /\ wire' = wire
      \/ request' = [chunk |-> chunk, state |-> "queued"] /\ wire' = wire
    BY Zenon DEF Transmit, CanSend
<1> QED BY <1>1, <1>2, <1>3

LEMMA HandedOver ==
    ASSUME SocketTypeOK, NEW chunk \in Chunks, HandOver(chunk)
    PROVE  /\ request' \in [chunk : Chunks \cup {NoChunk},
                            state : {"none", "lost", "queued", "sent", "failed"}]
           /\ request'.chunk = chunk
           /\ wire' \in Seq(Chunks \cup {FIN})
           /\ \/ /\ request'.state = "sent" /\ wire' = Append(wire, chunk)
                 /\ shutdown # "done" /\ handle = "open"
              \/ request'.state \in {"queued", "failed"} /\ wire' = wire
              \/ request'.state = "lost" /\ wire' = wire /\ stage \notin {"connecting", "connected", "stalled"}
              \/ request'.state = "lost" /\ wire' = wire /\ handle # "open"
<1>1. CASE HasFd /\ stage # "connecting"
  <2>1. handle = "open"
        BY <1>1 DEF HasFd
  <2>2. Transmit(chunk)
        BY <1>1 DEF HandOver
  <2> QED BY <2>1, <2>2, Transmitted
<1>2. CASE HasFd /\ stage = "connecting"
  <2>1. request' = [chunk |-> chunk, state |-> "queued"] /\ wire' = wire
        BY <1>2 DEF HandOver
  <2> QED BY <2>1, SocketTypes
<1>3. CASE ~HasFd
  <2>1. request' = [chunk |-> chunk, state |-> "lost"] /\ wire' = wire
        BY <1>3 DEF HandOver
  <2>2. handle # "open" \/ stage \notin {"connecting", "connected", "stalled"}
        BY <1>3 DEF HasFd
  <2> QED BY <2>1, <2>2, SocketTypes
<1> QED BY <1>1, <1>2, <1>3

LEMMA NoFinYet ==
    ASSUME SocketTypeOK, Wired, shutdown # "done"
    PROVE  ~FinSent
<1>1. \A k \in DOMAIN wire : k \in Nat /\ wire[k] = k
    BY SocketTypes DEF Wired
<1> QED BY <1>1 DEF FinSent, FIN

\* A chunk that follows those on the wire is sent, or nothing is.
LEMMA NextOnWire ==
    ASSUME SocketTypeOK, Wired, NEW chunk \in Chunks, chunk = Len(wire) + 1,
           shutdown # "done", shutdown' = shutdown, wire' = Append(wire, chunk)
    PROVE  Wired' /\ ~FinSent' /\ Len(wire') = chunk
<1>1. wire \in Seq(Chunks \cup {FIN}) /\ DOMAIN wire = 1 .. Len(wire) /\ Len(wire) \in Nat
    BY SocketTypes
<1>2. /\ wire' \in Seq(Chunks \cup {FIN})
      /\ Len(wire') = Len(wire) + 1
      /\ \A k \in 1 .. Len(wire) : wire'[k] = wire[k]
      /\ wire'[Len(wire) + 1] = chunk
    BY <1>1, AppendProperties
<1>3. DOMAIN wire' = 1 .. Len(wire) + 1
    BY <1>2, LenProperties
<1>4. \A k \in DOMAIN wire' : k \in Nat /\ wire'[k] = k
    BY <1>1, <1>2, <1>3 DEF Wired
<1>5. Wired' /\ ~FinSent'
    BY <1>4 DEF Wired, WireInOrder, FinSent, FIN
<1> QED BY <1>2, <1>5

\* A hand-over that leaves the wire alone, and does not lose the chunk.
LEMMA NothingSent ==
    ASSUME Wired, FinAfterLast, UNCHANGED <<wire, shutdown, promised>>,
           request.state = "lost" => request'.state = "lost"
    PROVE  Wired' /\ FinAfterLast'
<1>1. Wired'
    BY DEF Wired, WireInOrder
<1>2. FinAfterLast'
    BY DEF FinAfterLast, FinSent, Sent
<1> QED BY <1>1, <1>2

LEMMA HandOverStreams ==
    ASSUME SocketTypeOK, Streams, handle = "open", handle' = "open",
           request.state \in {"none", "sent"},
           Handed + 1 \in Chunks, HandOver(Handed + 1),
           UNCHANGED <<shutdown, promised>>,
           Handed' = Handed + 1, accepted' \in Nat, accepted <= accepted',
           \A k \in 1 .. Len(buffer') : buffer'[k] = Handed' + k
    PROVE  Streams'
<1>1. /\ accepted \in Nat /\ Len(buffer) \in Nat /\ Handed \in Int /\ Len(wire) \in Nat
      /\ promised.chunks \in Nat
    BY SocketTypes
<1>2. /\ request'.chunk = Handed + 1
      /\ \/ /\ request'.state = "sent" /\ wire' = Append(wire, Handed + 1)
            /\ shutdown # "done"
         \/ request'.state \in {"queued", "failed", "lost"} /\ wire' = wire
    BY HandedOver
<1>3. shutdown # "done" => Len(wire) = Handed
    BY DEF Streams, Kept, SentOff
<1>4. Bounds'
  <2>1. request'.chunk # NoChunk /\ request'.state # "none"
        BY <1>2, SocketAssumption DEF Chunks, NoChunk
  <2> QED BY <1>1, <2>1 DEF Streams, Bounds
<1>5. shutdown = "asked" /\ promised.safe => promised.chunks <= Handed + 1
    BY DEF Streams, Kept
<1>6. CASE request'.state = "sent"
  <2>1. wire' = Append(wire, Handed + 1) /\ shutdown # "done"
        BY <1>2, <1>6
  <2>2. Wired' /\ ~FinSent' /\ Len(wire') = Handed + 1
        BY <1>3, <2>1, NextOnWire DEF Streams
  <2>3. FinAfterLast'
        BY <2>2 DEF FinAfterLast
  <2>4. Kept'
    <3>1. Len(wire') = SentOff'
          BY <1>6, <2>2 DEF SentOff
    <3>2. shutdown' = "asked" /\ promised'.safe => promised'.chunks <= Handed'
          BY <1>5
    <3>3. promised'.chunks <= Handed' => promised'.chunks <= Handed' + 1
          BY <1>1
    <3> QED BY <1>2, <1>6, <3>1, <3>2, <3>3 DEF Kept
  <2> QED BY <1>4, <2>2, <2>3, <2>4 DEF Streams
<1>7. CASE request'.state # "sent"
  <2>1. wire' = wire /\ request'.state \in {"queued", "failed", "lost"}
        BY <1>2, <1>7
  <2>2. Wired' /\ FinAfterLast'
        BY <2>1, NothingSent DEF Streams
  <2>3. Kept'
    <3>1. shutdown' # "done" => Len(wire') = SentOff'
          BY <1>1, <1>3, <2>1 DEF SentOff
    <3>2. shutdown' = "asked" /\ promised'.safe => promised'.chunks <= Handed'
          BY <1>5
    <3>3. promised'.chunks <= Handed' => promised'.chunks <= Handed' + 1
          BY <1>1
    <3> QED BY <1>2, <2>1, <3>1, <3>2, <3>3 DEF Kept
  <2> QED BY <1>4, <2>2, <2>3 DEF Streams
<1> QED BY <1>6, <1>7

-----------------------------------------------------------------------------
(* The calls and events that move chunks. *)
LEMMA WriteStreams ==
    ASSUME SocketTypeOK, Handles, Streams, Write
    PROVE  Streams'
<1>1. /\ accepted \in Nat /\ Len(buffer) \in Nat /\ MaxWrites \in Nat
      /\ promised.chunks \in Nat /\ buffer \in Seq(Chunks)
    BY SocketTypes DEF SocketTypeOK
<1>2. /\ accepted < MaxWrites /\ accepted' = accepted + 1
      /\ UNCHANGED <<handle, shutdown, inCallbacks, promised>>
    BY DEF Write
<1>3. accepted + 1 \in Chunks
    BY <1>1, <1>2 DEF Chunks
<1>4. CASE request = NoRequest /\ handle = "open"
  <2>1. request.state = "none" /\ buffer = <<>>
        BY <1>4 DEF NoRequest, Streams, Kept
  <2>2. HandOver(accepted + 1) /\ buffer' = buffer
        BY <1>4 DEF Write
  <2>3. Len(buffer) = 0 /\ Handed = accepted
        BY <1>1, <2>1 DEF Handed
  <2>4. Handed' = Handed + 1
        BY <1>1, <1>2, <2>2, <2>3 DEF Handed
  <2>5. accepted' \in Nat /\ accepted <= accepted' /\ Len(buffer') = 0
        BY <1>1, <1>2, <2>2, <2>3
  <2>6. handle' = "open" /\ \A k \in 1 .. Len(buffer') : buffer'[k] = Handed' + k
        BY <1>2, <1>4, <2>5
  <2> QED BY <1>2, <1>3, <1>4, <2>1, <2>2, <2>3, <2>4, <2>5, <2>6, HandOverStreams
<1>5. CASE request = NoRequest /\ handle # "open"
  <2>1. HandOver(accepted + 1)
        BY <1>5 DEF Write
  <2>2. request'.state # "none" /\ request'.chunk # NoChunk /\ wire' = wire
        BY <1>1, <1>3, <1>5, <2>1, HandedOver DEF NoChunk
  <2>3. request.state # "lost"
        BY <1>5 DEF NoRequest
  <2>4. Wired' /\ FinAfterLast'
        BY <1>2, <2>2, <2>3, NothingSent DEF Streams
  <2>5. Kept'
        BY <1>2, <1>5 DEF Kept
  <2>6. Bounds'
        BY <1>1, <1>2, <2>2 DEF Streams, Bounds
  <2> QED BY <2>4, <2>5, <2>6 DEF Streams
<1>6. CASE request # NoRequest
  <2>1. buffer' = Append(buffer, accepted + 1) /\ request' = request /\ wire' = wire
        BY <1>6 DEF Write
  <2>2. /\ Len(buffer') = Len(buffer) + 1
        /\ \A k \in 1 .. Len(buffer) : buffer'[k] = buffer[k]
        /\ buffer'[Len(buffer) + 1] = accepted + 1
        BY <1>1, <1>3, <2>1, AppendProperties
  <2>3. Handed' = Handed /\ Handed + Len(buffer) = accepted
        BY <1>1, <1>2, <2>2 DEF Handed
  <2>4. Wired' /\ FinAfterLast'
        BY <1>2, <2>1, NothingSent DEF Streams
  <2>5. Bounds'
        BY <1>1, <1>2, <2>1 DEF Streams, Bounds
  <2>6. ASSUME handle = "open"
        PROVE  Kept'
    <3>1. request.state # "none"
      <4>1. request \in [chunk : Chunks \cup {NoChunk},
                         state : {"none", "lost", "queued", "sent", "failed"}]
            BY DEF SocketTypeOK
      <4> QED BY <1>6, <4>1 DEF NoRequest, Streams, Bounds
    <3>2. \A k \in 1 .. Len(buffer) + 1 : buffer'[k] = Handed + k
      <4>1. \A k \in 1 .. Len(buffer) : buffer[k] = Handed + k
            BY <2>6 DEF Streams, Kept
      <4>2. \A k \in 1 .. Len(buffer) : buffer'[k] = Handed + k
            BY <2>2, <4>1
      <4>3. buffer'[Len(buffer) + 1] = Handed + (Len(buffer) + 1)
            BY <1>1, <2>2, <2>3 DEF Handed
      <4> QED BY <1>1, <4>2, <4>3
    <3>3. SentOff' = SentOff
          BY <2>1, <2>3 DEF SentOff
    <3> QED BY <1>2, <2>1, <2>2, <2>3, <2>6, <3>1, <3>2, <3>3 DEF Streams, Kept
  <2>7. handle # "open" => Kept'
        BY <1>2 DEF Kept
  <2> QED BY <2>4, <2>5, <2>6, <2>7 DEF Streams
<1> QED BY <1>4, <1>5, <1>6

\* finish() promises what is written so far; at most one chunk is not handed over.
LEMMA FinishStreams ==
    ASSUME SocketTypeOK, Handles, Streams, FinishSocket
    PROVE  Streams'
<1>1. /\ accepted \in Nat /\ Len(buffer) \in Nat /\ Handed \in Int
      /\ promised.chunks \in Nat
    BY SocketTypes
<1>2. UNCHANGED <<handle, accepted, buffer, request, inCallbacks, wire>>
    BY DEF FinishSocket
<1>3. CASE UNCHANGED <<shutdown, promised>>
    BY <1>2, <1>3, IdleStreams
<1>4. CASE /\ HasFd /\ shutdown = "none" /\ shutdown' = "asked"
           /\ promised' = [chunks |-> accepted,
                           safe |-> Len(buffer) = 0 \/ (Len(buffer) = 1 /\ ~inCallbacks)]
  <2>1. promised'.chunks = accepted
        BY <1>4
  <2>2. promised'.safe => Len(buffer) = 0 \/ (Len(buffer) = 1 /\ ~inCallbacks)
        BY <1>4
  <2>3. promised'.safe => /\ promised'.chunks <= Handed + 1
                          /\ inCallbacks => promised'.chunks <= Handed
    <3>1. Len(buffer) = 0 => promised'.chunks <= Handed
          BY <1>1, <2>1 DEF Handed
    <3>2. Len(buffer) = 1 => promised'.chunks <= Handed + 1
          BY <1>1, <2>1 DEF Handed
    <3>3. promised'.chunks <= Handed => promised'.chunks <= Handed + 1
          BY <1>1, <2>1
    <3> QED BY <2>2, <3>1, <3>2, <3>3, Zenon
  <2>4. Handed' = Handed /\ SentOff' = SentOff
        BY <1>2 DEF Handed, SentOff
  <2>5. shutdown # "done" /\ shutdown' = "asked"
        BY <1>4
  <2>6. Kept'
    <3>1. /\ handle = "open" => Kept
          /\ UNCHANGED <<handle, buffer, request, inCallbacks, wire>>
          BY <1>2 DEF Streams
    <3> QED BY <2>3, <2>4, <2>5, <3>1 DEF Kept
  <2>7. Wired'
        BY <1>2, <2>5 DEF Streams, Wired, WireInOrder
  <2>8. FinAfterLast'
        BY <1>2, <2>5, NoFinYet DEF Streams, FinAfterLast, FinSent
  <2>9. Bounds'
        BY <1>1, <1>2, <2>1 DEF Streams, Bounds
  <2> QED BY <2>6, <2>7, <2>8, <2>9 DEF Streams
<1>5. \/ UNCHANGED <<shutdown, promised>>
      \/ /\ HasFd /\ shutdown = "none" /\ shutdown' = "asked"
         /\ promised' = [chunks |-> accepted,
                         safe |-> Len(buffer) = 0 \/ (Len(buffer) = 1 /\ ~inCallbacks)]
    BY DEF FinishSocket
<1> QED BY <1>3, <1>4, <1>5

LEMMA SendStreams ==
    ASSUME SocketTypeOK, Handles, Streams, SendQueued
    PROVE  Streams'
<1>1. /\ accepted \in Nat /\ Len(buffer) \in Nat /\ Handed \in Int /\ Len(wire) \in Nat
      /\ promised.chunks \in Nat
    BY SocketTypes
<1>2. /\ handle = "open" /\ request.state = "queued" /\ Transmit(request.chunk)
      /\ UNCHANGED <<handle, accepted, buffer, shutdown, inCallbacks, promised>>
    BY DEF SendQueued
<1>3. request.chunk = Handed /\ (shutdown # "done" => Len(wire) = Handed - 1)
    BY <1>2 DEF Streams, Kept, SentOff
<1>4. request.chunk \in Chunks
    BY <1>2 DEF SocketTypeOK, Streams, Bounds
<1>5. /\ request'.chunk = request.chunk
      /\ \/ request'.state = "sent" /\ wire' = Append(wire, request.chunk) /\ shutdown # "done"
         \/ request'.state \in {"queued", "failed"} /\ wire' = wire
    BY <1>2, <1>4, Transmitted
<1>6. Handed' = Handed
    BY <1>2 DEF Handed
<1>7. Bounds'
    BY <1>2, <1>5 DEF Streams, Bounds
<1>8. /\ \A k \in 1 .. Len(buffer') : buffer'[k] = Handed' + k
      /\ shutdown' = "asked" /\ promised'.safe => /\ promised'.chunks <= Handed' + 1
                                                  /\ inCallbacks' => promised'.chunks <= Handed'
    BY <1>2, <1>6 DEF Streams, Kept
<1>9. CASE request'.state = "sent"
  <2>1. wire' = Append(wire, request.chunk) /\ shutdown # "done"
        BY <1>5, <1>9
  <2>2. request.chunk = Len(wire) + 1
        BY <1>1, <1>3, <2>1
  <2>3. Wired' /\ ~FinSent' /\ Len(wire') = request.chunk
        BY <1>2, <1>4, <2>1, <2>2, NextOnWire DEF Streams
  <2>4. Len(wire') = SentOff'
        BY <1>3, <1>6, <1>9, <2>3 DEF SentOff
  <2>5. FinAfterLast'
        BY <2>3 DEF FinAfterLast
  <2>6. Kept'
        BY <1>3, <1>5, <1>6, <1>8, <1>9, <2>4 DEF Kept
  <2> QED BY <1>7, <2>3, <2>5, <2>6 DEF Streams
<1>10. CASE request'.state # "sent"
  <2>1. wire' = wire /\ request'.state \in {"queued", "failed"}
        BY <1>5, <1>10
  <2>2. Wired' /\ FinAfterLast'
        BY <1>2, <2>1, NothingSent DEF Streams
  <2>3. shutdown' # "done" => Len(wire') = SentOff'
        BY <1>2, <1>3, <1>6, <2>1 DEF SentOff
  <2>4. Kept'
        BY <1>3, <1>5, <1>6, <1>8, <2>1, <2>3 DEF Kept
  <2> QED BY <1>7, <2>2, <2>4 DEF Streams
<1> QED BY <1>9, <1>10

LEMMA WriteDoneStreams ==
    ASSUME SocketTypeOK, Handles, Streams, WriteDone
    PROVE  Streams'
<1>1. /\ accepted \in Nat /\ Len(buffer) \in Nat /\ Handed \in Int /\ Len(wire) \in Nat
      /\ promised.chunks \in Nat /\ buffer \in Seq(Chunks)
    BY SocketTypes DEF SocketTypeOK
<1>2. handle = "open" /\ UNCHANGED <<accepted, shutdown, promised>>
    BY DEF WriteDone
<1>3. CASE request.state = "sent" /\ buffer # <<>>
  <2>1. HandOver(NextChunk) /\ buffer' = Tail(buffer) /\ handle' = "open"
        BY <1>2, <1>3 DEF WriteDone
  <2>2. /\ Len(buffer) >= 1 /\ Head(buffer) = buffer[1] /\ Head(buffer) \in Chunks
        /\ Tail(buffer) \in Seq(Chunks) /\ Len(Tail(buffer)) = Len(buffer) - 1
        /\ \A k \in 1 .. Len(Tail(buffer)) : Tail(buffer)[k] = buffer[k + 1]
        BY <1>1, <1>3, HeadTailProperties
  <2>3. \A k \in 1 .. Len(buffer) : buffer[k] = Handed + k
        BY <1>2 DEF Streams, Kept
  <2>4. NextChunk = Handed + 1
        BY <1>1, <2>2, <2>3 DEF NextChunk
  <2>5. Handed' = Handed + 1
        BY <1>1, <1>2, <2>1, <2>2 DEF Handed
  <2>6. \A k \in 1 .. Len(buffer') : buffer'[k] = Handed' + k
        BY <1>1, <2>1, <2>2, <2>3, <2>5
  <2>7. Handed + 1 \in Chunks /\ HandOver(Handed + 1)
        BY <2>1, <2>2, <2>4 DEF NextChunk
  <2>8. accepted' \in Nat /\ accepted <= accepted'
        BY <1>1, <1>2
  <2> QED BY <1>2, <1>3, <2>1, <2>5, <2>6, <2>7, <2>8, HandOverStreams
<1>4. CASE request.state = "sent" /\ buffer = <<>>
  <2>1. request' = NoRequest /\ UNCHANGED <<wire, buffer, handle>>
        BY <1>4 DEF WriteDone
  <2>2. request'.state = "none" /\ request'.chunk = NoChunk
        BY <2>1 DEF NoRequest
  <2>3. Handed' = Handed /\ Handed = accepted
        BY <1>1, <1>2, <1>4, <2>1 DEF Handed
  <2>4. Wired' /\ FinAfterLast'
        BY <1>2, <1>4, <2>1, NothingSent DEF Streams
  <2>5. Bounds'
        BY <1>2, <2>2 DEF Streams, Bounds
  <2>6. Len(wire') = SentOff' \/ shutdown' = "done"
        BY <1>2, <1>4, <2>1, <2>2, <2>3 DEF Streams, Kept, SentOff
  <2>7. promised'.chunks <= Handed' /\ promised'.chunks <= Handed' + 1
        BY <1>1, <1>2, <2>3 DEF Streams, Bounds
  <2>8. \A k \in 1 .. Len(buffer') : buffer'[k] = Handed' + k
        BY <1>4, <2>1
  <2>9. Kept'
        BY <1>4, <2>1, <2>2, <2>6, <2>7, <2>8 DEF Kept
  <2> QED BY <2>4, <2>5, <2>9 DEF Streams
<1>5. CASE request.state = "failed"
  <2>1. request' = NoRequest /\ wire' = wire /\ DestroySocket
        BY <1>5 DEF WriteDone
  <2>2. handle' # "open"
        BY <1>2, <2>1 DEF DestroySocket, AlreadyDestroyed, Handles
  <2>3. request'.state = "none" /\ request'.chunk = NoChunk
        BY <2>1 DEF NoRequest
  <2> QED BY <1>2, <1>5, <2>1, <2>2, <2>3, ClosedStreams
<1> QED BY <1>3, <1>4, <1>5 DEF WriteDone

LEMMA PollOutStreams ==
    ASSUME SocketTypeOK, Handles, Streams, PollOut
    PROVE  Streams'
<1>1. /\ accepted \in Nat /\ Len(buffer) \in Nat /\ promised.chunks \in Nat
    BY SocketTypes
<1>2. /\ handle = "open" /\ request.state \in {"none", "lost"}
      /\ UNCHANGED <<handle, accepted, buffer, request, shutdown, wire, promised>>
    BY DEF PollOut
<1>3. Handed' = Handed /\ SentOff' = SentOff
    BY <1>2 DEF Handed, SentOff
<1>4. Wired' /\ FinAfterLast'
    BY <1>2, NothingSent DEF Streams
<1>5. Bounds'
    BY <1>2 DEF Streams, Bounds
<1>6. request.state = "none" => promised.chunks <= Handed
  <2>1. request.state = "none" => buffer = <<>>
        BY <1>2 DEF Streams, Kept
  <2>2. promised.chunks <= accepted
        BY DEF Streams, Bounds
  <2> QED BY <1>1, <2>1, <2>2 DEF Handed
<1>7. Kept'
    BY <1>2, <1>3, <1>6 DEF Streams, Kept
<1> QED BY <1>4, <1>5, <1>7 DEF Streams

\* The shutdown: all that was promised is on the wire when the FIN follows it.
LEMMA DrainStreams ==
    ASSUME SocketTypeOK, Handles, Streams, Drain
    PROVE  Streams'
<1>1. /\ accepted \in Nat /\ Len(buffer) \in Nat /\ Handed \in Int /\ Len(wire) \in Nat
      /\ promised.chunks \in Nat /\ wire \in Seq(Chunks \cup {FIN})
      /\ DOMAIN wire = 1 .. Len(wire)
      /\ request.state \in {"none", "lost", "queued", "sent", "failed"}
    BY SocketTypes
<1>2. /\ inCallbacks /\ ~inCallbacks'
      /\ UNCHANGED <<handle, accepted, buffer, request, promised>>
    BY DEF Drain
<1>3. Handed' = Handed /\ SentOff' = SentOff
    BY <1>2 DEF Handed, SentOff
<1>4. Bounds'
    BY <1>2 DEF Streams, Bounds
<1>5. CASE UNCHANGED <<shutdown, wire>>
  <2>1. Wired' /\ FinAfterLast'
        BY <1>2, <1>5, NothingSent DEF Streams
  <2>2. Kept'
        BY <1>2, <1>3, <1>5 DEF Streams, Kept
  <2> QED BY <1>4, <2>1, <2>2 DEF Streams
<1>6. CASE /\ Drains /\ shutdown = "asked" /\ handle = "open" /\ shutdown' = "done"
           /\ wire' = IF request.state = "failed" \/ stage = "stalled" THEN wire
                       ELSE Append(wire, FIN)
  <2>1. Kept'
    <3>1. /\ request.state = "none" => buffer = <<>>
          /\ request.state # "none" => request.chunk = Handed
          /\ \A k \in 1 .. Len(buffer) : buffer[k] = Handed + k
          BY <1>6 DEF Streams, Kept
    <3> QED BY <1>2, <1>3, <1>6, <3>1 DEF Kept
  <2>2. \A k \in DOMAIN wire : wire[k] = k
        BY <1>6 DEF Streams, Wired
  <2>3. CASE request.state = "failed" \/ stage = "stalled"
    <3>1. wire' = wire
          BY <1>6, <2>3
    <3>2. Wired'
          BY <1>6, <2>2, <3>1 DEF Wired, WireInOrder
    <3>3. ~FinSent
          BY <1>6, NoFinYet DEF Streams
    <3>4. FinAfterLast'
          BY <3>1, <3>3 DEF FinAfterLast, FinSent
    <3> QED BY <1>4, <2>1, <3>2, <3>4 DEF Streams
  <2>4. CASE ~(request.state = "failed" \/ stage = "stalled")
    <3>1. /\ wire' = Append(wire, FIN)
          /\ wire' \in Seq(Chunks \cup {FIN})
          /\ Len(wire') = Len(wire) + 1
          /\ \A k \in 1 .. Len(wire) : wire'[k] = wire[k]
          /\ wire'[Len(wire) + 1] = FIN
          BY <1>1, <1>6, <2>4, AppendProperties
    <3>2. DOMAIN wire' = 1 .. Len(wire) + 1
          BY <3>1, LenProperties
    <3>3. \A k \in 1 .. Len(wire) : wire'[k] = k
          BY <1>1, <2>2, <3>1
    <3>4. Wired'
          BY <1>1, <1>6, <3>1, <3>2, <3>3 DEF Wired, WireInOrder
    <3>5. FinAfterLast'
      <4> SUFFICES ASSUME request'.state # "lost", promised'.safe,
                          NEW chunk \in 1 .. promised'.chunks
                   PROVE  \E k \in DOMAIN wire' : wire'[k] = chunk
          BY DEF FinAfterLast, Sent
      <4>1. request.state \in {"none", "sent"}
            BY <1>1, <1>2, <1>6, <2>4 DEF Drains
      <4>2. Len(wire) = Handed /\ promised.chunks <= Handed
        <5>1. promised.safe /\ request.state # "lost"
              BY <1>2
        <5> QED BY <1>2, <1>6, <4>1, <5>1 DEF Streams, Kept, SentOff
      <4>3. chunk \in 1 .. Len(wire)
            BY <1>1, <1>2, <4>2
      <4>4. chunk \in DOMAIN wire' /\ wire'[chunk] = chunk
            BY <1>1, <3>2, <3>3, <4>3
      <4> QED BY <4>4
    <3> QED BY <1>4, <2>1, <3>4, <3>5 DEF Streams
  <2> QED BY <2>3, <2>4
<1> QED BY <1>5, <1>6 DEF Drain

LEMMA HandleClosedStreams ==
    ASSUME SocketTypeOK, Handles, Streams, HandleClosed
    PROVE  Streams'
<1>1. /\ handle = "closing" /\ handle' = "closed" /\ UNCHANGED <<accepted, promised>>
      /\ shutdown' \in {shutdown, "done"}
    BY DEF HandleClosed
<1>2. CASE request.state = "sent" /\ buffer # <<>> /\ HandOver(Head(buffer))
  <2>1. Head(buffer) \in Chunks
        BY <1>2, HeadTailProperties DEF SocketTypeOK
  <2>2. request'.chunk = Head(buffer) /\ request'.state # "none" /\ wire' = wire
        BY <1>1, <1>2, <2>1, HandedOver
  <2>3. request'.chunk # NoChunk
        BY <2>1, <2>2, SocketAssumption DEF Chunks, NoChunk
  <2> QED BY <1>1, <1>2, <2>2, <2>3, ClosedStreams
<1>3. CASE /\ wire' = wire
           /\ request' = IF request.state = "lost" THEN request ELSE NoRequest
  <2>1. request'.chunk = NoChunk <=> request'.state = "none"
        BY <1>3 DEF NoRequest, Streams, Bounds
  <2>2. request.state = "lost" => request'.state = "lost"
        BY <1>3
  <2> QED BY <1>1, <1>3, <2>1, <2>2, ClosedStreams
<1> QED BY <1>2, <1>3 DEF HandleClosed

LEMMA ConnectFailsStreams ==
    ASSUME SocketTypeOK, Handles, Streams, ConnectFails
    PROVE  Streams'
<1>1. handle' # "open"
    BY DEF ConnectFails, Failing, DestroySocket, AlreadyDestroyed, Handles
<1>2. /\ UNCHANGED <<accepted, wire, promised, shutdown>>
      /\ request' = IF request.state = "queued" THEN NoRequest ELSE request
    BY DEF ConnectFails
<1>3. /\ request'.chunk = NoChunk <=> request'.state = "none"
      /\ request.state = "lost" => request'.state = "lost"
    BY <1>2 DEF NoRequest, Streams, Bounds
<1> QED BY <1>1, <1>2, <1>3, ClosedStreams

\* The other steps leave the chunks and the shutdown alone.
LEMMA OtherStreams ==
    ASSUME SocketTypeOK, Handles, Streams,
           \/ Connect \/ Destroy \/ LookupAnswered \/ ConnectTo \/ LookupFails \/ Connected
           \/ EmitFinish \/ ReadEOF \/ EmitEnd \/ UNCHANGED socketVars
    PROVE  Streams'
<1>1. handle' = "open" => handle = "open"
    BY DEF Connect, Destroy, LookupAnswered, ConnectTo, LookupFails, Connected, EmitFinish, ReadEOF,
           EmitEnd, socketVars, Failing, DestroySocket
<1>2. UNCHANGED <<accepted, buffer, request, shutdown, inCallbacks, wire, promised>>
    BY DEF Connect, Destroy, LookupAnswered, ConnectTo, LookupFails, Connected, EmitFinish, ReadEOF,
           EmitEnd, socketVars
<1> QED BY <1>1, <1>2, IdleStreams

LEMMA StreamsStep ==
    ASSUME SocketTypeOK, Handles, Streams, [SocketNext]_socketVars
    PROVE  Streams'
<1>1. CASE Write
    BY <1>1, WriteStreams
<1>2. CASE FinishSocket
    BY <1>2, FinishStreams
<1>3. CASE SendQueued
    BY <1>3, SendStreams
<1>4. CASE WriteDone
    BY <1>4, WriteDoneStreams
<1>5. CASE PollOut
    BY <1>5, PollOutStreams
<1>6. CASE Drain
    BY <1>6, DrainStreams
<1>7. CASE HandleClosed
    BY <1>7, HandleClosedStreams
<1>8. CASE ConnectFails
    BY <1>8, ConnectFailsStreams
<1>9. CASE \/ Connect \/ Destroy \/ LookupAnswered \/ ConnectTo \/ LookupFails \/ Connected
           \/ EmitFinish \/ ReadEOF \/ EmitEnd \/ UNCHANGED socketVars
    BY <1>9, OtherStreams
<1> QED BY <1>1, <1>2, <1>3, <1>4, <1>5, <1>6, <1>7, <1>8, <1>9 DEF SocketNext, SocketLoop

-----------------------------------------------------------------------------
(* The handle. *)
LEMMA Destroys ==
    ASSUME Handles, DestroySocket
    PROVE  /\ destroyed' <=> handle' # "open"
           /\ handle' = "closed" <=> handle = "closed"
           /\ handle' = "closed" => handle = "closed"
           /\ misused' \subseteq {"connect"}
BY DEF Handles, DestroySocket, AlreadyDestroyed, Uses

LEMMA HandlesStep ==
    ASSUME Handles, [SocketNext]_socketVars
    PROVE  Handles'
<1>1. CASE UNCHANGED <<handle, destroyed, misused, closes>>
    BY <1>1 DEF Handles
<1>2. CASE DestroySocket /\ closes' = closes
    BY <1>2, Destroys DEF Handles
<1>3. CASE HandleClosed
    BY <1>3 DEF Handles, HandleClosed
<1>4. CASE LookupAnswered \/ ConnectTo
  <2>1. misused' \in {misused, misused \cup {"connect"}}
        BY <1>4 DEF Handles, LookupAnswered, ConnectTo, Gone, Uses
  <2>2. UNCHANGED <<handle, destroyed, closes>>
        BY <1>4 DEF LookupAnswered, ConnectTo
  <2> QED BY <2>1, <2>2 DEF Handles
<1>5. CASE Connect \/ Write \/ FinishSocket \/ ReadEOF \/ Connected \/ SendQueued
           \/ PollOut \/ Drain \/ UNCHANGED socketVars
    BY <1>1, <1>5 DEF Connect, Write, FinishSocket, ReadEOF, Connected, SendQueued, PollOut,
                      Drain, socketVars
<1>6. CASE Destroy \/ LookupFails \/ ConnectFails \/ EmitEnd
    BY <1>2, <1>6 DEF Destroy, LookupFails, ConnectFails, EmitEnd, Failing
<1>7. CASE WriteDone \/ EmitFinish
    BY <1>1, <1>2, <1>7 DEF WriteDone, EmitFinish
<1> QED BY <1>3, <1>4, <1>5, <1>6, <1>7 DEF SocketNext, SocketLoop

-----------------------------------------------------------------------------
(* Types. *)
LEMMA DataTypeStep ==
    ASSUME SocketTypeOK, Bounds, [SocketNext]_socketVars
    PROVE  /\ accepted' \in 0 .. MaxWrites /\ buffer' \in Seq(Chunks)
           /\ request' \in [chunk : Chunks \cup {NoChunk},
                            state : {"none", "lost", "queued", "sent", "failed"}]
           /\ wire' \in Seq(Chunks \cup {FIN})
<1> DEFINE Data ==
      /\ accepted' \in 0 .. MaxWrites /\ buffer' \in Seq(Chunks)
      /\ request' \in [chunk : Chunks \cup {NoChunk},
                       state : {"none", "lost", "queued", "sent", "failed"}]
      /\ wire' \in Seq(Chunks \cup {FIN})
<1> SUFFICES Data
    OBVIOUS
<1>1. /\ accepted \in 0 .. MaxWrites /\ MaxWrites \in Nat /\ buffer \in Seq(Chunks)
      /\ request \in [chunk : Chunks \cup {NoChunk},
                      state : {"none", "lost", "queued", "sent", "failed"}]
      /\ wire \in Seq(Chunks \cup {FIN})
    BY SocketAssumption DEF SocketTypeOK
<1>2. NoRequest \in [chunk : Chunks \cup {NoChunk},
                     state : {"none", "lost", "queued", "sent", "failed"}]
    BY DEF NoRequest
<1>3. CASE UNCHANGED <<accepted, buffer, request, wire>>
    BY <1>1, <1>3
<1>4. CASE Write
  <2>1. /\ accepted' = accepted + 1 /\ accepted + 1 \in Chunks
        /\ accepted' \in 0 .. MaxWrites
        BY <1>1, <1>4 DEF Write, Chunks
  <2>2. CASE HandOver(accepted + 1) /\ buffer' = buffer
        BY <1>1, <2>1, <2>2, HandedOver
  <2>3. CASE buffer' = Append(buffer, accepted + 1) /\ UNCHANGED <<request, wire>>
        BY <1>1, <2>1, <2>3, AppendProperties
  <2> QED BY <1>4, <2>2, <2>3 DEF Write
<1>5. CASE ConnectFails
    BY <1>1, <1>2, <1>5 DEF ConnectFails
<1>6. ASSUME buffer # <<>>, HandOver(Head(buffer)),
             buffer' = Tail(buffer), accepted' = accepted
      PROVE  Data
  <2>1. Head(buffer) \in Chunks /\ Tail(buffer) \in Seq(Chunks)
        BY <1>1, <1>6, HeadTailProperties
  <2> QED BY <1>1, <1>6, <2>1, HandedOver
<1>7. CASE WriteDone
  <2>1. \/ buffer # <<>> /\ HandOver(Head(buffer)) /\ buffer' = Tail(buffer) /\ accepted' = accepted
        \/ request' = NoRequest /\ UNCHANGED <<accepted, wire, buffer>>
        BY <1>7 DEF WriteDone, NextChunk
  <2> QED BY <1>1, <1>2, <1>6, <2>1
<1>8. CASE HandleClosed
  <2>1. \/ buffer # <<>> /\ HandOver(Head(buffer)) /\ buffer' = Tail(buffer) /\ accepted' = accepted
        \/ request' \in {request, NoRequest} /\ UNCHANGED <<accepted, wire, buffer>>
        BY <1>8 DEF HandleClosed
  <2> QED BY <1>1, <1>2, <1>6, <2>1
<1>9. CASE SendQueued
  <2>1. Transmit(request.chunk) /\ UNCHANGED <<accepted, buffer>>
        BY <1>9 DEF SendQueued
  <2>2. request.chunk \in Chunks
        BY <1>1, <1>9 DEF SendQueued, Bounds
  <2> QED BY <1>1, <2>1, <2>2, Transmitted
<1>10. CASE \/ Connect \/ Destroy \/ FinishSocket \/ LookupAnswered \/ ConnectTo \/ LookupFails \/ Connected
            \/ PollOut \/ EmitFinish \/ ReadEOF \/ EmitEnd \/ UNCHANGED socketVars
    BY <1>3, <1>10 DEF Connect, Destroy, FinishSocket, LookupAnswered, ConnectTo, LookupFails, Connected,
                       PollOut, EmitFinish, ReadEOF, EmitEnd, socketVars
<1>11. CASE Drain
  <2>1. Append(wire, FIN) \in Seq(Chunks \cup {FIN})
        BY <1>1, AppendProperties
  <2> QED BY <1>1, <1>11, <2>1 DEF Drain
<1> QED BY <1>4, <1>5, <1>7, <1>8, <1>9, <1>10, <1>11 DEF SocketNext, SocketLoop

LEMMA StateTypeStep ==
    ASSUME SocketTypeOK, [SocketNext]_socketVars
    PROVE  /\ stage' \in Stages
           /\ handle' \in {"open", "closing", "closed"}
           /\ shutdown' \in {"none", "asked", "done"}
           /\ peer' \in {"open", "ended", "done"}
<1>1. /\ stage \in Stages
      /\ handle \in {"open", "closing", "closed"}
      /\ shutdown \in {"none", "asked", "done"}
      /\ peer \in {"open", "ended", "done"}
    BY DEF SocketTypeOK
<1>2. stage' \in Stages
    BY <1>1 DEF Stages, SocketNext, SocketLoop, socketVars, Connect, Write, FinishSocket, Destroy,
       LookupAnswered, ConnectTo, LookupFails, Connected, ConnectFails, SendQueued, WriteDone, PollOut,
       Drain, EmitFinish, ReadEOF, EmitEnd, HandleClosed
<1>3. shutdown' \in {"none", "asked", "done"} /\ peer' \in {"open", "ended", "done"}
    BY <1>1 DEF SocketNext, SocketLoop, socketVars, Connect, Write, FinishSocket, Destroy,
       LookupAnswered, ConnectTo, LookupFails, Connected, ConnectFails, SendQueued, WriteDone, PollOut,
       Drain, EmitFinish, ReadEOF, EmitEnd, HandleClosed
<1>4. handle' \in {"open", "closing", "closed"}
    BY <1>1 DEF SocketNext, SocketLoop, socketVars, Connect, Write, FinishSocket, Destroy,
       LookupAnswered, ConnectTo, LookupFails, Connected, ConnectFails, SendQueued, WriteDone, PollOut,
       Drain, EmitFinish, ReadEOF, EmitEnd, HandleClosed, Failing, DestroySocket
<1> QED BY <1>2, <1>3, <1>4

LEMMA PromisedTypeStep ==
    ASSUME SocketTypeOK, [SocketNext]_socketVars
    PROVE  promised' \in [chunks : 0 .. MaxWrites, safe : BOOLEAN]
<1>1. promised \in [chunks : 0 .. MaxWrites, safe : BOOLEAN] /\ accepted \in 0 .. MaxWrites
    BY DEF SocketTypeOK
<1>2. CASE promised' = promised
    BY <1>1, <1>2
<1>3. CASE promised' = [chunks |-> accepted,
                        safe |-> Len(buffer) = 0 \/ (Len(buffer) = 1 /\ ~inCallbacks)]
  <2> DEFINE safe == Len(buffer) = 0 \/ (Len(buffer) = 1 /\ ~inCallbacks)
  <2>1. safe \in BOOLEAN
        BY Zenon
  <2>2. promised' = [chunks |-> accepted, safe |-> safe]
        BY <1>3
  <2> HIDE DEF safe
  <2> QED BY <1>1, <2>1, <2>2
<1>4. CASE FinishSocket
    BY <1>2, <1>3, <1>4 DEF FinishSocket
<1>5. CASE ~FinishSocket
    BY <1>2, <1>5 DEF SocketNext, SocketLoop, socketVars, Connect, Write, Destroy,
       LookupAnswered, ConnectTo, LookupFails, Connected, ConnectFails, SendQueued, WriteDone, PollOut,
       Drain, EmitFinish, ReadEOF, EmitEnd, HandleClosed
<1> QED BY <1>4, <1>5

LEMMA FlagsStep ==
    ASSUME SocketTypeOK, Handles, [SocketNext]_socketVars
    PROVE  {destroyed, ending, finished, inCallbacks}' \subseteq BOOLEAN
<1>1. /\ destroyed \in BOOLEAN /\ ending \in BOOLEAN /\ finished \in BOOLEAN
      /\ inCallbacks \in BOOLEAN
    BY DEF SocketTypeOK
<1>2. destroyed' \in {destroyed, TRUE}
    BY DEF SocketNext, SocketLoop, socketVars, Connect, Write, FinishSocket, Destroy,
       LookupAnswered, ConnectTo, LookupFails, Connected, ConnectFails, SendQueued, WriteDone, PollOut,
       Drain, EmitFinish, ReadEOF, EmitEnd, HandleClosed, Failing, DestroySocket
<1>3. ending' \in {ending, TRUE} /\ finished' \in {finished, TRUE}
    BY DEF SocketNext, SocketLoop, socketVars, Connect, Write, FinishSocket, Destroy,
       LookupAnswered, ConnectTo, LookupFails, Connected, ConnectFails, SendQueued, WriteDone, PollOut,
       Drain, EmitFinish, ReadEOF, EmitEnd, HandleClosed
<1>4. inCallbacks' \in {inCallbacks, TRUE, FALSE}
    BY DEF SocketNext, SocketLoop, socketVars, Connect, Write, FinishSocket, Destroy,
       LookupAnswered, ConnectTo, LookupFails, Connected, ConnectFails, SendQueued, WriteDone, PollOut,
       Drain, EmitFinish, ReadEOF, EmitEnd, HandleClosed
<1> QED BY <1>1, <1>2, <1>3, <1>4

-----------------------------------------------------------------------------
LEMMA SocketStep == SocketInv /\ [SocketNext]_socketVars => SocketInv'
<1> SUFFICES ASSUME SocketTypeOK, Handles, Streams, [SocketNext]_socketVars
             PROVE  SocketInv'
    BY DEF SocketInv
<1>1. Handles'
    BY HandlesStep
<1>2. Streams'
    BY StreamsStep
<1>3. SocketTypeOK'
  <2>1. closes' \in 0 .. 1
        BY <1>1 DEF Handles
  <2>2. Bounds /\ misused' \subseteq {"answer", "connect", "close"}
        BY <1>1 DEF Streams, Handles
  <2> QED BY <2>1, <2>2, DataTypeStep, StateTypeStep, PromisedTypeStep, FlagsStep
          DEF SocketTypeOK
<1> QED BY <1>1, <1>2, <1>3 DEF SocketInv

LEMMA SocketAlways == SocketSpec => []SocketInv
BY SocketStart, SocketStep, PTL DEF SocketSpec

\* Type correctness.
THEOREM SocketTyped == SocketSpec => []SocketTypeOK
<1>1. SocketInv => SocketTypeOK
    BY DEF SocketInv
<1> QED BY <1>1, SocketAlways, PTL

\* net.lua, for any number of writes and any order of write, finish and destroy:
\* the wire carries the chunks in order and nothing behind the FIN, the FIN follows
\* what finish() found written when at most one chunk was kept back (and a callback
\* will hand it over), and the handle is closed once and, from when its closing has
\* begun, used by nothing but the uv.tcp_connect that follows a 'lookup' listener
\* which called destroy(): neither by the answer to the name query nor by a second
\* close.
THEOREM SocketIsSound == SocketSpec => []SocketSound
<1>1. SocketInv => SocketSound
  <2> SUFFICES ASSUME SocketTypeOK, Handles, Streams PROVE SocketSound
      BY DEF SocketInv
  <2>1. WireInOrder /\ FinAfterLast
        BY DEF Streams, Wired
  <2>2. ClosedOnce
        BY DEF Handles, ClosedOnce
  <2> QED BY <2>1, <2>2 DEF SocketSound
<1> QED BY <1>1, SocketAlways, PTL

-----------------------------------------------------------------------------
(* The parts together. *)

\* Whichever part runs, and whatever it does, each part behaves as its own module has
\* it: a part that does not run stays where it starts.
LEMMA PartsMove ==
    ASSUME [PartsNext]_partsVars
    PROVE  /\ [IdleNext]_idleVars /\ [EmitterNext]_emitterVars /\ [RpcNext]_rpcVars
           /\ [ExecNext]_execVars /\ [SocketNext]_socketVars /\ [PromisesNext]_promiseVars
BY DEF PartsNext, partsVars

THEOREM EachPartIsItsOwn ==
    PartsSpec => /\ IdleSpec /\ EmitterSpec /\ RpcSpec /\ ExecSpec /\ SocketSpec
                 /\ PromisesSpec
<1>1. PartsInit => /\ IdleInit /\ EmitterInit /\ RpcInit /\ ExecInit /\ SocketInit
                   /\ PromisesInit
  BY DEF PartsInit
<1>2. [PartsNext]_partsVars =>
         /\ [IdleNext]_idleVars /\ [EmitterNext]_emitterVars /\ [RpcNext]_rpcVars
         /\ [ExecNext]_execVars /\ [SocketNext]_socketVars /\ [PromisesNext]_promiseVars
  BY PartsMove
<1> QED
  BY <1>1, <1>2, PTL
     DEF PartsSpec, IdleSpec, EmitterSpec, RpcSpec, ExecSpec, SocketSpec, PromisesSpec

\* The variables of all parts keep their types, whichever of them run.
THEOREM PartsTyped == PartsSpec => []PartsTypeOK
<1>1. /\ IdleTypeOK /\ EmitterTypeOK /\ RpcTypeOK /\ ExecTypeOK /\ SocketTypeOK
      /\ PromisesTypeOK
      => PartsTypeOK
  BY DEF PartsTypeOK
<1> QED
  BY <1>1, EachPartIsItsOwn, IdleTyped, EmitterTyped, RpcTyped, ExecTyped, SocketTyped,
     PromisesTyped, PTL

\* What the runs check of the parts holds of all of them together, for every number of
\* items, listeners, calls, writes and promises: each property with the exceptions it
\* states in its own module, where the code does not do what its comments say.
THEOREM PartsAreSound ==
    PartsSpec => [](/\ TimersKept /\ CalledOnceInOrder /\ RpcSettled /\ ExecTruthful
                    /\ SocketSound /\ PromisesKept)
BY EachPartIsItsOwn, TimersAreKept, CalledOnce, RpcIsSettled, ExecIsTruthful,
   SocketIsSound, PromisesAreKept, PTL

\* And so do the steps: no timer that is closed starts and no item times out early, what
\* is removed stays silent, a call and an exec keep the promise of OneAnswer.
THEOREM PartsStepSoundly ==
    PartsSpec => /\ [][StartsOpen /\ NotEarly]_idleVars /\ EmitsRightly
                 /\ RpcPromise!Spec /\ ExecPromise!Spec
BY EachPartIsItsOwn, TimesOutSafely, EmitsAsPromised, RpcAnswers, ExecAnswersSafely, PTL
=============================================================================

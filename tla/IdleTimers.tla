----------------------------- MODULE IdleTimers -----------------------------
(***************************************************************************)
(* core/lua/timer.lua: the idle timeouts of sockets.                       *)
(*                                                                         *)
(* Items (sockets, datagram sockets, TLS shutdowns) are enrolled with a    *)
(* delay and say when they are active.  There is one list and one libuv    *)
(* timer per delay, not one per item: items are appended when they are     *)
(* active, so that the timer of a list need only look at its oldest item.  *)
(* The expiration of a list emits 'timeout' on the items one by one, and   *)
(* the listeners may enroll, unenroll or activate any item while the loop  *)
(* of the expiration is in the middle of its list.                         *)
(***************************************************************************)
EXTENDS Integers, SequencesExt

CONSTANTS
    Items,
    Delays,         \* the values of msecs in use
    MaxTime,        \* bound: the last value of uv.now
    ListenerCalls   \* bound: calls a 'timeout' listener makes

ASSUME IdleTimersAssumption ==
    /\ Delays \subseteq Nat \ {0, 1} /\ IsFiniteSet(Delays)
    /\ MaxTime \in Nat /\ ListenerCalls \in Nat

NoTimer == 0
\* Timer objects: one per delay, and one that a running expiration still holds.
Timers == 1 .. Cardinality(Delays) + 1
Unset == -1         \* _idleTimeout of an item that is not enrolled

VARIABLES
    now,            \* uv.now, the same during a turn of the loop
    idleTimeout,    \* item._idleTimeout
    idleStart,      \* item._idleStart: the time of its last active()
    selfLinked,     \* items whose _idleNext is the item itself
    lists,          \* lists[msecs]: NoTimer or a timer
    queue,          \* the items linked to a timer, the oldest first
    due,            \* when a timer fires: NoTimer when it is stopped
    open,           \* timers created and not closed
    expiring,       \* NoTimer, or the timer whose list_expiration is running
    delay,          \* the msecs of that closure
    callsLeft       \* calls the running listener may make; Unset: none runs

itemVars  == <<idleTimeout, idleStart, selfLinked>>
timerVars == <<lists, queue, due, open>>
loopVars  == <<expiring, delay>>
idleVars  == <<now, itemVars, timerVars, loopVars, callsLeft>>

IdleInit ==
    /\ now = 0
    /\ idleTimeout = [i \in Items |-> Unset]
    /\ idleStart = [i \in Items |-> 0]
    /\ selfLinked = {}
    /\ lists = [d \in Delays |-> NoTimer]
    /\ queue = [t \in Timers |-> <<>>]
    /\ due = [t \in Timers |-> NoTimer]
    /\ open = {}
    /\ expiring = NoTimer /\ delay = NoTimer
    /\ callsLeft = Unset

-----------------------------------------------------------------------------
(* The linked lists. *)
Position(s, x) == CHOOSE k \in 1 .. Len(s) : s[k] = x
Without(s, x) ==
    IF \E k \in 1 .. Len(s) : s[k] = x THEN RemoveAt(s, Position(s, x)) ELSE s

\* list_remove; an item is in one list at most.
Removed(item) == [t \in Timers |-> Without(queue[t], item)]

InList(item) == \E t \in Timers : Contains(queue[t], item)

\* lists[msecs], which is nil for a delay that is not in use.
ListOf(msecs) == IF msecs \in Delays THEN lists[msecs] ELSE NoTimer

\* stop and close the timer of a delay, and forget its list, if it is empty.
\* Variant: the closed timer stays in the table.
Forgotten_Kept(msecs) == lists
Forgotten(msecs) == [lists EXCEPT ![msecs] = NoTimer]

CloseIfEmpty(msecs, queues) ==
    LET t == ListOf(msecs)
    IN IF t # NoTimer /\ queues[t] = <<>>
       THEN /\ due' = [due EXCEPT ![t] = NoTimer]
            /\ open' = open \ {t}
            /\ lists' = Forgotten(msecs)
       ELSE UNCHANGED <<due, open, lists>>

-----------------------------------------------------------------------------
(* Calls: from an event of the loop, or from a 'timeout' listener. *)
MayCall ==
    \/ expiring = NoTimer /\ UNCHANGED callsLeft
    \/ callsLeft > 0 /\ callsLeft' = callsLeft - 1

(* unenroll (list_unenroll). *)
Unenroll(item) ==
    /\ MayCall
    /\ queue' = Removed(item)
    /\ selfLinked' = selfLinked \ {item}
    /\ CloseIfEmpty(idleTimeout[item], queue')
    /\ idleTimeout' = [idleTimeout EXCEPT ![item] = Unset]
    /\ UNCHANGED <<now, idleStart, loopVars>>

(* enroll: an item that is linked is unenrolled first, one that is not has *)
(* left its list already, and the list is not looked at.                   *)
Enroll(item, msecs) ==
    /\ MayCall
    /\ IF InList(item) \/ item \in selfLinked
       THEN /\ queue' = Removed(item)
            /\ CloseIfEmpty(idleTimeout[item], queue')
       ELSE UNCHANGED timerVars
    /\ selfLinked' = selfLinked \cup {item}
    /\ idleTimeout' = [idleTimeout EXCEPT ![item] = msecs]
    /\ UNCHANGED <<now, idleStart, loopVars>>

(* active, and list_insert for the first item of a list.  A list that is   *)
(* there but empty (its expiration is running) gets the item without a     *)
(* start of its timer.                                                     *)
\* Variant: it is not taken out of the list that it is in.
Renewed_Twice(t, item) == [queue EXCEPT ![t] = Append(@, item)]
Renewed(t, item) == [Removed(item) EXCEPT ![t] = Append(@, item)]

Active(item) ==
    /\ idleTimeout[item] # Unset
    /\ MayCall
    /\ idleStart' = [idleStart EXCEPT ![item] = now]
    /\ selfLinked' = selfLinked \ {item}
    /\ LET msecs == idleTimeout[item]
       IN \/ /\ lists[msecs] # NoTimer
             /\ queue' = Renewed(lists[msecs], item)
             /\ UNCHANGED <<lists, due, open>>
          \/ /\ lists[msecs] = NoTimer
             /\ \E t \in Timers \ (open \cup {expiring}) :
                  /\ open' = open \cup {t}
                  /\ due' = [due EXCEPT ![t] = now + msecs]
                  /\ lists' = [lists EXCEPT ![msecs] = t]
                  /\ queue' = Renewed(t, item)
    /\ UNCHANGED <<now, idleTimeout, loopVars>>

-----------------------------------------------------------------------------
(* list_expiration. *)
\* Time goes on between two turns; timers may fire late, in any order.
TimePasses ==
    /\ expiring = NoTimer /\ now < MaxTime
    /\ now' = now + 1
    /\ UNCHANGED <<itemVars, timerVars, loopVars, callsLeft>>

\* The timer of a delay fires, once: it does not repeat.
Fire(msecs) ==
    /\ expiring = NoTimer
    /\ lists[msecs] # NoTimer
    /\ LET t == lists[msecs]
       IN /\ due[t] # NoTimer /\ due[t] <= now
          /\ expiring' = t /\ delay' = msecs
          /\ due' = [due EXCEPT ![t] = NoTimer]
    /\ UNCHANGED <<now, itemVars, lists, queue, open, callsLeft>>

\* Variant: an item is given up a millisecond too early.
StillActive_Early(diff) == diff + 2 < delay
StillActive(diff) == diff + 1 < delay

Looping == expiring # NoTimer /\ callsLeft = Unset
Oldest  == Head(queue[expiring])
Silence == now - idleStart[Oldest]

\* The oldest item is not due: the timer is started again for it.
\* Variant: for the whole delay.
NextDue_Whole == now + delay
NextDue == now + delay - Silence

Rearm ==
    /\ Looping /\ queue[expiring] # <<>>
    /\ StillActive(Silence)
    /\ due' = [due EXCEPT ![expiring] = NextDue]
    /\ expiring' = NoTimer /\ delay' = NoTimer
    /\ UNCHANGED <<now, itemVars, lists, queue, open, callsLeft>>

\* The oldest item is removed and its 'timeout' listeners run.
Timeout ==
    /\ Looping /\ queue[expiring] # <<>>
    /\ ~StillActive(Silence)
    /\ queue' = Removed(Oldest)
    /\ callsLeft' = ListenerCalls
    /\ UNCHANGED <<now, itemVars, lists, due, open, loopVars>>

ListenerReturns ==
    /\ callsLeft # Unset
    /\ callsLeft' = Unset
    /\ UNCHANGED <<now, itemVars, timerVars, loopVars>>

\* Nothing left: the list that the delay has now, if any, is closed when empty.
EndExpiration ==
    /\ Looping /\ queue[expiring] = <<>>
    /\ CloseIfEmpty(delay, queue)
    /\ expiring' = NoTimer /\ delay' = NoTimer
    /\ UNCHANGED <<now, itemVars, queue, callsLeft>>

IdleCall ==
    \E item \in Items :
       Unenroll(item) \/ Active(item) \/ \E msecs \in Delays : Enroll(item, msecs)
Expiration == Rearm \/ Timeout \/ ListenerReturns \/ EndExpiration

IdleNext == IdleCall \/ TimePasses \/ Expiration \/ \E msecs \in Delays : Fire(msecs)

IdleSpec == IdleInit /\ [][IdleNext]_idleVars

\* The loop runs timers that are due, and listeners return.
IdleFairness == WF_idleVars(Expiration) /\ \A msecs \in Delays : WF_idleVars(Fire(msecs))

-----------------------------------------------------------------------------
IdleTypeOK ==
    /\ now \in 0 .. MaxTime
    /\ idleTimeout \in [Items -> Delays \cup {Unset}]
    /\ idleStart \in [Items -> 0 .. MaxTime]
    /\ selfLinked \subseteq Items
    /\ lists \in [Delays -> Timers \cup {NoTimer}]
    /\ queue \in [Timers -> Seq(Items)] /\ \A t \in Timers : IsInjective(queue[t])
    /\ due \in [Timers -> Nat]
    /\ open \subseteq Timers
    /\ expiring \in Timers \cup {NoTimer} /\ delay \in Delays \cup {NoTimer}
    /\ callsLeft \in 0 .. ListenerCalls \cup {Unset}

\* Each list of items that is not being expired right now has a running timer,
\* which fires by the time its oldest item is due.
Armed ==
    \A t \in Timers \ {expiring} :
       queue[t] # <<>> =>
          \E d \in Delays :
             /\ lists[d] = t /\ t \in open
             /\ due[t] # NoTimer
             /\ due[t] <= idleStart[Head(queue[t])] + d

\* The expiration may stop at the first item that is not due: the items behind
\* it were all active after it.
OldestFirst ==
    \A t \in Timers : \A j, k \in DOMAIN queue[t] :
       j < k => idleStart[queue[t][j]] <= idleStart[queue[t][k]]

\* Whatever listeners call under the expiration of a list, no item is forgotten.
TimersKept == Armed /\ OldestFirst

\* A timer is started only while it is open (libuv aborts otherwise), although
\* a listener may have closed the timer whose expiration is under way.
StartsOpen == \A t \in Timers : due'[t] # due[t] /\ due'[t] # NoTimer => t \in open'

\* 'timeout' is emitted on an item that was silent for its delay (to the
\* millisecond that list_expiration allows).
NotEarly ==
    callsLeft = Unset /\ callsLeft' # Unset =>
       now - idleStart[Oldest] + 1 >= idleTimeout[Oldest]

\* No step of a list or of its timer is taken too early or too late for libuv; and
\* an item that has been silent for its delay gets its 'timeout', becomes active or
\* is unenrolled: timers that fire late or lists that are recreated under the loop
\* do not lose it.
Overdue == {item \in Items : InList(item) /\ now >= idleStart[item] + idleTimeout[item]}
TimeoutComes == Overdue # {} ~> Overdue = {}
TimesOutRightly == [][StartsOpen /\ NotEarly]_idleVars /\ TimeoutComes
=============================================================================

------------------------------ MODULE Emitter ------------------------------
(***************************************************************************)
(* core/lua/core.lua: the listeners of one event of one emitter.           *)
(*                                                                         *)
(* emit walks over the list of the listeners with a bound that it reads    *)
(* once.  A listener may add, remove and emit the same event.  Removal     *)
(* leaves a tombstone, so that the positions of a walk stay valid; each    *)
(* emit compacts the list when it ends, also one inside another emit of    *)
(* the same event, whose walk then goes over shifted positions.            *)
(***************************************************************************)
EXTENDS Integers, SequencesExt

CONSTANTS
    Callbacks,
    MaxListeners,   \* bound: calls of on() and once()
    MaxEmits,       \* bound: calls of emit()
    MaxRemovals     \* bound: calls that remove listeners

ASSUME EmitterAssumption == {MaxListeners, MaxEmits, MaxRemovals} \subseteq Nat

Ids       == 1 .. MaxListeners
Tombstone == 0
Tables    == 0 .. MaxRemovals   \* removeAllListeners() makes a new table

VARIABLES
    handlers,       \* handlers[t]: the list of the event in table t, ids and tombstones
    table,          \* the table that `handlers' is now
    callbackOf,     \* callbackOf[id]: the function of the n-th on() or once()
    onceIds,        \* ids registered by once()
    walks,          \* emits under way, the innermost first
    emits, removals,
    times,          \* observed: calls of each id
    silenced        \* observed: functions removed since they were last added

emitterVars == <<handlers, table, callbackOf, onceIds, walks, emits, removals, times, silenced>>

EmitterInit ==
    /\ handlers = [t \in Tables |-> <<>>]
    /\ table = 0
    /\ callbackOf = <<>>
    /\ onceIds = {}
    /\ walks = <<>>
    /\ emits = 0 /\ removals = 0
    /\ times = [id \in Ids |-> 0]
    /\ silenced = {}

\* The rest of an emit.  Observed: what it found when it began, whom it called,
\* and whether an inner emit has compacted the list under it.
Walk(t) ==
    [table |-> t, at |-> 1, bound |-> Len(handlers[t]), inside |-> FALSE,
     found |-> handlers[t], called |-> <<>>, shifted |-> FALSE]

Top == Head(walks)
WithTop(walk) == <<walk>> \o Tail(walks)

\* User code runs: outside of any emit, or in a listener.
UserRuns == walks # <<>> => Top.inside

-----------------------------------------------------------------------------
On(listener, once) ==
    /\ UserRuns
    /\ Len(callbackOf) < MaxListeners
    /\ LET id == Len(callbackOf) + 1
       IN /\ callbackOf' = Append(callbackOf, listener)
          /\ onceIds' = IF once THEN onceIds \cup {id} ELSE onceIds
          /\ handlers' = [handlers EXCEPT ![table] = Append(@, id)]
    /\ silenced' = silenced \ {listener}
    /\ UNCHANGED <<table, walks, emits, removals, times>>

\* Variant: the entries are taken out of the list at once.
Buried_Shift(s, ids) == SelectSeq(s, LAMBDA id : id \notin ids)
Buried(s, ids) == [k \in DOMAIN s |-> IF s[k] \in ids THEN Tombstone ELSE s[k]]

\* All registrations of a function, by on() or once().
Registered(listener) == {id \in DOMAIN callbackOf : callbackOf[id] = listener}

Removal ==
    /\ UserRuns
    /\ removals < MaxRemovals
    /\ removals' = removals + 1
    /\ UNCHANGED <<callbackOf, onceIds, walks, emits, times>>

RemoveListener(listener) ==
    /\ Removal
    /\ handlers' = [handlers EXCEPT ![table] = Buried(@, Registered(listener))]
    /\ silenced' = silenced \cup {listener}
    /\ UNCHANGED table

RemoveAllOfEvent ==
    /\ Removal
    /\ handlers' = [handlers EXCEPT ![table] = Buried(@, Ids)]
    /\ silenced' = Callbacks
    /\ UNCHANGED table

\* removeAllListeners(), or with a name that has no listeners: a new table; the
\* walks that are under way go on over the old one.
Reset ==
    /\ Removal
    /\ table' = table + 1
    /\ UNCHANGED <<handlers, silenced>>

Emit ==
    /\ UserRuns
    /\ emits < MaxEmits
    /\ emits' = emits + 1
    /\ walks' = <<Walk(table)>> \o walks
    /\ UNCHANGED <<handlers, table, callbackOf, onceIds, removals, times, silenced>>

\* Where a walk finds its next listener: tombstones, and what the list has lost
\* at its end, are passed over.
NextAt(walk) ==
    {at \in walk.at .. walk.bound :
        at \in DOMAIN handlers[walk.table] /\ handlers[walk.table][at] # Tombstone}

Walking == walks # <<>> /\ ~Top.inside

\* EmitterOnceMeta.__call: the wrapper removes itself, then calls.
\* Variant: it stays.
Unregistered_Never(id) == handlers
Unregistered(id) == [handlers EXCEPT ![table] = Buried(@, {id})]

CallListener ==
    /\ Walking /\ NextAt(Top) # {}
    /\ LET at == Min(NextAt(Top))
           id == handlers[Top.table][at]
       IN /\ handlers' = IF id \in onceIds THEN Unregistered(id) ELSE handlers
          /\ times' = [times EXCEPT ![id] = @ + 1]
          /\ walks' = WithTop([Top EXCEPT !.at = at + 1, !.inside = TRUE,
                                          !.called = Append(@, id)])
    /\ UNCHANGED <<table, callbackOf, onceIds, emits, removals, silenced>>

ListenerEnds ==
    /\ walks # <<>> /\ Top.inside
    /\ walks' = WithTop([Top EXCEPT !.inside = FALSE])
    /\ UNCHANGED <<handlers, table, callbackOf, onceIds, emits, removals, times, silenced>>

Compacted(s) ==
    LET upTo[n \in 0 .. Len(s)] ==
          IF n = 0 THEN <<>>
          ELSE IF s[n] = Tombstone THEN upTo[n - 1] ELSE Append(upTo[n - 1], s[n])
    IN  upTo[Len(s)]

EndEmit ==
    /\ Walking /\ NextAt(Top) = {}
    /\ handlers' = [handlers EXCEPT ![Top.table] = Compacted(@)]
    /\ LET changed == handlers'[Top.table] # handlers[Top.table]
       IN walks' = [k \in DOMAIN Tail(walks) |->
                      [Tail(walks)[k] EXCEPT
                         !.shifted = @ \/ (changed /\ Tail(walks)[k].table = Top.table)]]
    /\ UNCHANGED <<table, callbackOf, onceIds, emits, removals, times, silenced>>

EmitterNext ==
    \/ \E listener \in Callbacks : RemoveListener(listener) \/ \E once \in BOOLEAN : On(listener, once)
    \/ RemoveAllOfEvent \/ Reset \/ Emit
    \/ CallListener \/ ListenerEnds \/ EndEmit

EmitterSpec == EmitterInit /\ [][EmitterNext]_emitterVars

-----------------------------------------------------------------------------
EmitterTypeOK ==
    /\ table \in Tables
    /\ handlers \in [Tables -> Seq(Ids \cup {Tombstone})]
    /\ callbackOf \in Seq(Callbacks) /\ Len(callbackOf) <= MaxListeners
    /\ onceIds \subseteq DOMAIN callbackOf
    /\ emits \in 0 .. MaxEmits /\ removals \in 0 .. MaxRemovals
    /\ times \in [Ids -> Nat]
    /\ silenced \subseteq Callbacks

\* A once listener is called once, however deep the event is emitted again
\* inside it and whatever is compacted meanwhile, unless all listeners of the
\* emitter were thrown away under the emit.
OnceOnly == table = 0 => \A id \in onceIds : times[id] <= 1

\* Whatever is compacted under an emit, it never calls a listener twice, nor one
\* before another that was added earlier.
EmitsInOrder ==
    \A w \in DOMAIN walks : \A j, k \in DOMAIN walks[w].called :
       j < k => walks[w].called[j] < walks[w].called[k]

\* Emits within emits, removals and compactions call nobody twice.
CalledOnceInOrder == OnceOnly /\ EmitsInOrder

\* A function that was removed is not called until it is added again, also not
\* by an emit that is under way: tombstones are seen by every walk.
SilentIfRemoved ==
    \A id \in DOMAIN callbackOf :
       times'[id] # times[id] /\ table = 0 => callbackOf[id] \notin silenced

\* An emit whose list was not compacted by an inner emit has called every
\* listener it found, except those removed before their turn, and nobody else:
\* not those added meanwhile.
ToAll ==
    Len(walks') < Len(walks) /\ ~Top.shifted =>
       LET kept == (Range(Top.found) \cap Range(handlers[Top.table])) \ {Tombstone}
       IN kept \subseteq Range(Top.called) /\ Range(Top.called) \subseteq Range(Top.found)

\* Whom an emit calls is settled when it begins, but for removals.
EmitsRightly == [][SilentIfRemoved /\ ToAll]_emitterVars
=============================================================================

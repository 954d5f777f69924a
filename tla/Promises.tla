------------------------------ MODULE Promises ------------------------------
(***************************************************************************)
(* Promises: core/lua/promise.lua, next, all and race included.            *)
(*                                                                         *)
(* Nothing is called at once: a promise that settles, and a next() on one  *)
(* that has settled, ask a timer of 0 ms to run the queue of the promise.  *)
(* Handlers of user code run in the middle of that loop and may call       *)
(* anything.  User code settles only the promises it has made with         *)
(* Promise.new.  A value is nil, a promise or something else.              *)
(***************************************************************************)
EXTENDS Integers, Sequences, SequencesExt

CONSTANTS
    Made,           \* promises that user code has made with Promise.new before
    MaxPromises,    \* bound: promises, those of all() and race() included
    MaxCalls,       \* bound: calls of user code
    MaxTogether,    \* bound: those of all() and race()
    MaxInputs       \* bound: promises that one of them is given

ASSUME PromisesAssumption ==
    /\ Made \in Nat /\ MaxPromises \in Nat /\ MaxCalls \in Nat /\ Made <= MaxPromises
    /\ MaxTogether \in Nat /\ MaxInputs \in Nat

VARIABLES
    promises,       \* state, value and queue of each
    timeouts,       \* the promises whose queues setTimeout(0) runs
    draining,       \* the promise whose queue is being run; Nobody
    handling,       \* the entry whose handler of user code runs, or none
    own,            \* promises that user code settles
    joins,          \* all(): its inputs and the variables of its closure
    races,          \* race(): its inputs, its promise and its all()
    promiseCalls,
    heard           \* observed: what handlers of user code were told

promiseVars == <<promises, timeouts, draining, handling, own, joins, races, promiseCalls,
                 heard>>

Nil == -1
Plain == 0
Nobody == 0
States == {"fulfilled", "rejected"}

Entry(kind, to, on, nr) == [kind |-> kind, to |-> to, on |-> on, nr |-> nr]
Internal(kind, to) == Entry(kind, to, {}, 0)
NoEntry == Internal("none", 0)

NewPromise == [state |-> "pending", value |-> Nil, queue |-> <<>>]

PromisesInit ==
    /\ promises = [p \in 1 .. Made |-> NewPromise] /\ timeouts = <<>>
    /\ draining = Nobody /\ handling = NoEntry
    /\ own = 1 .. Made /\ joins = <<>> /\ races = <<>> /\ promiseCalls = 0 /\ heard = <<>>

-----------------------------------------------------------------------------
(* What a call makes of the promises and the timers, w. *)
World == [promises |-> promises, timeouts |-> timeouts]
Becomes(w) == promises' = w.promises /\ timeouts' = w.timeouts

\* transition(): settles a pending promise, with a value that is not nil.
\* Variant: a settled promise is settled again.
MaySettle_Again(w, p, value) == value # Nil
MaySettle(w, p, value) == w.promises[p].state = "pending" /\ value # Nil
Settle(w, p, state, value) ==
    IF MaySettle(w, p, value)
      THEN [promises |-> [w.promises EXCEPT ![p] = [@ EXCEPT !.state = state, !.value = value]],
            timeouts |-> Append(w.timeouts, p)]
      ELSE w

\* Promise:next: the entry joins the queue; run() looks at the state.
\* Variant: a queue is only run when its promise settles.
RunNow_Never(promise) == FALSE
RunNow(promise) == promise.state # "pending"

Register(w, p, entry) ==
    [promises |-> [w.promises EXCEPT ![p].queue = Append(@, entry)],
     timeouts |-> IF RunNow(w.promises[p]) THEN Append(w.timeouts, p) ELSE w.timeouts]

\* resolve(promise, x)
Resolve(w, p, x) ==
    CASE x = p -> Settle(w, p, "rejected", Plain)
      [] x \notin DOMAIN w.promises -> Settle(w, p, "fulfilled", x)
      [] OTHER ->
           IF w.promises[x].state = "pending"
             THEN Register(w, x, Internal("follow", p))
             ELSE Settle(w, p, w.promises[x].state, w.promises[x].value)

New(w) == [w EXCEPT !.promises = Append(@, NewPromise)]
Newest(w) == Len(w.promises)

\* The closure of all(), and check_finished().
FinishAll(w, join) ==
    IF join.remaining > 0 THEN w
    ELSE Settle(w, join.to, IF join.failed THEN "rejected" ELSE "fulfilled", Plain)

\* all() and race() add an entry to each input, in order.
RegisterAll(w, inputs, entry) ==
    LET upTo[n \in 0 .. Len(inputs)] ==
          IF n = 0 THEN w ELSE Register(upTo[n - 1], inputs[n], entry)
    IN  upTo[Len(inputs)]

-----------------------------------------------------------------------------
(* Calls of user code, also of a handler. *)
MayCallPromises == draining = Nobody \/ handling # NoEntry

Called(w) ==
    /\ MayCallPromises /\ promiseCalls < MaxCalls
    /\ promiseCalls' = promiseCalls + 1
    /\ Len(w.promises) <= MaxPromises
    /\ Becomes(w)
    /\ UNCHANGED <<draining, handling, heard>>

MakePromise ==
    /\ Called(New(World))
    /\ own' = own \cup {Newest(New(World))}
    /\ UNCHANGED <<joins, races>>

\* The two functions given to the callback of Promise.new, and Promise:resolve,
\* which does not look whether its value is a promise.
SettlePromise ==
    /\ \E p \in own :
          \/ \E x \in {Nil, Plain} \cup DOMAIN promises : Called(Resolve(World, p, x))
          \/ \E x \in DOMAIN promises \ {p} : Called(Settle(World, p, "fulfilled", x))
          \/ \E x \in {Nil, Plain} : Called(Settle(World, p, "rejected", x))
    /\ UNCHANGED <<own, joins, races>>

NextOf(p, on) ==
    /\ LET w == New(World)
       IN  Called(Register(w, p, Entry("user", Newest(w), on, promiseCalls + 1)))
    /\ UNCHANGED <<own, joins, races>>

JoinOf(inputs, to) ==
    [to |-> to, inputs |-> inputs, remaining |-> Len(inputs), failed |-> FALSE]

All(inputs) ==
    /\ LET w == New(World)
           join == JoinOf(inputs, Newest(w))
       IN  /\ Called(FinishAll(RegisterAll(w, inputs, Internal("all", Len(joins) + 1)), join))
           /\ joins' = Append(joins, join)
    /\ UNCHANGED <<own, races>>

\* race(): its own all(), whose rejection it passes on, and then an entry on each input.
Race(inputs) ==
    /\ LET w    == New(New(World))
           race == Newest(w) - 1
           join == JoinOf(inputs, Newest(w))
           all  == FinishAll(RegisterAll(w, inputs, Internal("all", Len(joins) + 1)), join)
           fails == Register(all, join.to, Internal("reject", race))
       IN  /\ Called(RegisterAll(fails, inputs, Internal("first", race)))
           /\ joins' = Append(joins, join)
           /\ races' = Append(races, [to |-> race, inputs |-> inputs, all |-> Len(joins) + 1])
    /\ UNCHANGED own

Together ==
    /\ Len(joins) < MaxTogether
    /\ \E inputs \in SeqOf(DOMAIN promises, MaxInputs) : All(inputs) \/ Race(inputs)

-----------------------------------------------------------------------------
(* The loop of run(). *)
RunQueue ==
    /\ draining = Nobody /\ timeouts # <<>>
    /\ draining' = Head(timeouts) /\ timeouts' = Tail(timeouts)
    /\ UNCHANGED <<promises, handling, own, joins, races, promiseCalls, heard>>

EndQueue ==
    /\ draining # Nobody /\ handling = NoEntry
    /\ promises[draining].queue = <<>>
    /\ draining' = Nobody
    /\ UNCHANGED <<promises, timeouts, handling, own, joins, races, promiseCalls, heard>>

Taken == [World EXCEPT !.promises[draining].queue = Tail(@)]

\* The entry at hand, of kind `kind'.
Takes(kind) ==
    /\ draining # Nobody /\ handling = NoEntry
    /\ promises[draining].queue # <<>>
    /\ Head(promises[draining].queue).kind = kind

CallHandler ==
    /\ Takes("user")
    /\ LET promise == promises[draining]
           entry   == Head(promise.queue)
       IN  IF promise.state \in entry.on
             THEN /\ handling' = entry
                  /\ heard' = Append(heard, [of |-> draining, nr |-> entry.nr,
                                             state |-> promise.state])
                  /\ Becomes(Taken)
             ELSE /\ IF promise.state = "fulfilled"       \* passthrough, errorthrough
                       THEN Becomes(Resolve(Taken, entry.to, promise.value))
                       ELSE Becomes(Settle(Taken, entry.to, "rejected", promise.value))
                  /\ UNCHANGED <<handling, heard>>
    /\ UNCHANGED <<draining, own, joins, races, promiseCalls>>

\* A handler returns, or raises.
HandlerReturns ==
    /\ handling # NoEntry
    /\ \/ \E x \in {Nil, Plain} \cup DOMAIN promises : Becomes(Resolve(World, handling.to, x))
       \/ Becomes(Settle(World, handling.to, "rejected", Plain))
    /\ handling' = NoEntry
    /\ UNCHANGED <<draining, own, joins, races, promiseCalls, heard>>

\* The handlers of resolve() and of race().
Follow ==
    /\ LET promise == promises[draining]
           to      == Head(promise.queue).to
       IN  \/ /\ Takes("follow")
              /\ IF promise.state = "fulfilled"
                   THEN Becomes(Resolve(Taken, to, promise.value))
                   ELSE Becomes(Settle(Taken, to, "rejected", promise.value))
           \/ /\ Takes("reject")
              /\ Becomes(IF promise.state = "rejected"
                           THEN Settle(Taken, to, "rejected", promise.value) ELSE Taken)
           \/ /\ Takes("first")
              /\ Becomes(IF promise.state = "fulfilled"
                           THEN Settle(Taken, to, "fulfilled", promise.value) ELSE Taken)
    /\ UNCHANGED <<draining, handling, own, joins, races, promiseCalls, heard>>

\* The handlers of all().
Join ==
    /\ Takes("all")
    /\ LET nr   == Head(promises[draining].queue).to
           join == [joins[nr] EXCEPT
                      !.remaining = @ - 1,
                      !.failed = @ \/ promises[draining].state = "rejected"]
       IN  /\ joins' = [joins EXCEPT ![nr] = join]
           /\ Becomes(FinishAll(Taken, join))
    /\ UNCHANGED <<draining, handling, own, races, promiseCalls, heard>>

PromiseRuns == RunQueue \/ EndQueue \/ CallHandler \/ HandlerReturns \/ Follow \/ Join

PromisesNext ==
    \/ PromiseRuns
    \/ MakePromise \/ SettlePromise \/ Together
    \/ \E p \in DOMAIN promises, on \in SUBSET States \ {{}} : NextOf(p, on)

PromisesSpec == PromisesInit /\ [][PromisesNext]_promiseVars
PromisesFairness == WF_promiseVars(PromiseRuns)

-----------------------------------------------------------------------------
PromisesTypeOK ==
    /\ \A p \in DOMAIN promises :
          /\ promises[p].state \in {"pending"} \cup States
          /\ (promises[p].state = "pending") = (promises[p].value = Nil)
    /\ Len(promises) <= MaxPromises
    /\ timeouts \in Seq(DOMAIN promises)
    /\ draining \in {Nobody} \cup DOMAIN promises
    /\ own \subseteq DOMAIN promises
    /\ \A j \in DOMAIN joins : joins[j].remaining >= 0

StateOf(p) == promises[p].state
Settled(p) == StateOf(p) # "pending"

AnyIs(state, inputs) == \E i \in DOMAIN inputs : StateOf(inputs[i]) = state

\* A handler of user code is called once, in the order of the next() calls, with the
\* state that its promise has for good; all() is fulfilled only when all of its inputs
\* are, race() only when one is, and either is rejected only when an input is
\* (promise.lua: run, transition, all, race).
PromisesKept ==
    /\ \A i \in DOMAIN heard : heard[i].state = StateOf(heard[i].of)
    /\ \A i, j \in DOMAIN heard :
          i < j /\ heard[i].of = heard[j].of => heard[i].nr < heard[j].nr
    /\ \A j \in DOMAIN joins :
          /\ StateOf(joins[j].to) = "fulfilled" =>
                \A i \in DOMAIN joins[j].inputs : StateOf(joins[j].inputs[i]) = "fulfilled"
          /\ StateOf(joins[j].to) = "rejected" => AnyIs("rejected", joins[j].inputs)
    /\ \A r \in DOMAIN races :
          /\ StateOf(races[r].to) = "fulfilled" => AnyIs("fulfilled", races[r].inputs)
          /\ StateOf(races[r].to) = "rejected" /\ races[r].inputs # <<>> =>
                AnyIs("rejected", races[r].inputs)

\* What has settled is told: the queues of settled promises are run until they are
\* empty. So all() settles when its inputs have, and race() when one of them is
\* fulfilled or all are rejected.
AllSettled(inputs) == \A i \in DOMAIN inputs : Settled(inputs[i])
RaceOver(inputs) ==
    inputs # <<>> /\ (AllSettled(inputs) \/ AnyIs("fulfilled", inputs))
Told ==
    /\ \A p \in DOMAIN promises : Settled(p) => promises[p].queue = <<>>
    /\ \A j \in DOMAIN joins : AllSettled(joins[j].inputs) => Settled(joins[j].to)
    /\ \A r \in DOMAIN races : RaceOver(races[r].inputs) => Settled(races[r].to)
PromisesTold == []<>Told
=============================================================================

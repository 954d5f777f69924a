----------------------------- MODULE OneAnswer -----------------------------
(***************************************************************************)
(* What the asynchronous calls of this library promise: a request that     *)
(* takes a callback waits, and is answered once.  rpc.call and exec have   *)
(* several events, in several orders, that may each bring the answer.      *)
(***************************************************************************)
EXTENDS Naturals

CONSTANT Requests

VARIABLES
    waiting,    \* requests whose callback is still to be called
    answers     \* answers[r]: how often the callback of r was called

vars == <<waiting, answers>>

Init == waiting = {} /\ answers = [r \in Requests |-> 0]

Ask(r) ==
    /\ r \notin waiting /\ answers[r] = 0
    /\ waiting' = waiting \cup {r}
    /\ UNCHANGED answers

Answer(r) ==
    /\ r \in waiting
    /\ waiting' = waiting \ {r}
    /\ answers' = [answers EXCEPT ![r] = @ + 1]

Next == \E r \in Requests : Ask(r) \/ Answer(r)

Spec == Init /\ [][Next]_vars
=============================================================================

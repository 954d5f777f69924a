----------------------------- MODULE WriteQueue -----------------------------
(***************************************************************************)
(* What a writable stream promises: a queue in front of a sink that takes  *)
(* one chunk or one batch at a time, in the order of the writes, and that  *)
(* finishes once, when it has been ended and nothing is left.  The         *)
(* interface of stream/writable.lua without corks, deferral or counters.   *)
(***************************************************************************)
EXTENDS Naturals, Sequences

CONSTANT WriteIds

VARIABLES queue, sent, busy, ended, finished

queueSpecVars == <<queue, sent, busy, ended, finished>>

QueueInit ==
    queue = <<>> /\ sent = <<>> /\ busy = FALSE /\ ended = FALSE /\ finished = FALSE

\* Chunks are never accepted, nor sent, a second time.
Accepted == {queue[i] : i \in DOMAIN queue} \cup {sent[i] : i \in DOMAIN sent}

\* A write that waits, and one that goes straight to an idle sink.
Put == /\ ~ended
       /\ \E id \in WriteIds \ Accepted : queue' = Append(queue, id)
       /\ UNCHANGED <<sent, busy, ended, finished>>

PutAndSend == /\ ~ended /\ ~busy /\ queue = <<>>
              /\ \E id \in WriteIds \ Accepted : sent' = Append(sent, id)
              /\ busy' = TRUE
              /\ UNCHANGED <<queue, ended, finished>>

\* The sink takes the first n chunks of the queue.
Send == /\ ~busy
        /\ \E n \in 1 .. Len(queue) :
             /\ sent' = sent \o SubSeq(queue, 1, n)
             /\ queue' = SubSeq(queue, n + 1, Len(queue))
        /\ busy' = TRUE
        /\ UNCHANGED <<ended, finished>>

Answered == /\ busy
            /\ busy' = FALSE
            /\ UNCHANGED <<queue, sent, ended, finished>>

End == /\ ended' = TRUE
       /\ UNCHANGED <<queue, sent, busy, finished>>

FinishQueue == /\ ended /\ ~finished /\ queue = <<>> /\ ~busy
               /\ finished' = TRUE
               /\ UNCHANGED <<queue, sent, busy, ended>>

QueueNext == Put \/ PutAndSend \/ Send \/ Answered \/ End \/ FinishQueue

QueueSpec == QueueInit /\ [][QueueNext]_queueSpecVars
=============================================================================

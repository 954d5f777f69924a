----------------------------- MODULE MCWritable -----------------------------
(***************************************************************************)
(* Writable for TLC: what write(), drain and finish promise to their       *)
(* callers, on a few writes.                                               *)
(***************************************************************************)
EXTENDS Writable, SequencesExt, TLC

\* The sum of a sequence of numbers.
Total(counts) ==
    LET upTo[n \in 0 .. Len(counts)] == IF n = 0 THEN 0 ELSE upTo[n - 1] + counts[n]
    IN  upTo[Len(counts)]

(* pendingCallbacks as the code that is still to run will decrement it. *)
BatchCount(b) == IF b.vec THEN Len(b.reqs) + 1 ELSE Len(b.reqs)
OwedByFrame(f) ==
    CASE f.op \in {"defer", "nextTick", "failed"} -> BatchCount(f.batch)
      [] f.op = "answer" /\ f.batch.vec -> Len(f.batch.reqs)
      [] OTHER -> 0
Owed(frames) == Total([i \in DOMAIN frames |-> OwedByFrame(frames[i])])
BytesOf(reqs) == Total([i \in DOMAIN reqs |-> reqs[i].len])

\* The two counters of WritableState agree at every step with the queue, the
\* write in progress and the completions still to be run: pendingCallbacks is
\* neither lost nor counted twice across deferred, batched and failed writes,
\* and `length' is what is buffered or being written. Each completion calls back
\* once, for a chunk that is no longer being written.
CountersExact ==
    /\ AnsweredOnce
    /\ length = BytesOf(buffer) + writableLength
    /\ pendingCallbacks = Len(buffer) + BatchCount(writeCallback)
                          + Owed(stack) + Owed(immediates)

\* Chunks reach the sink in the order in which write() accepted them.
InOrder == \A i, j \in DOMAIN handed : i < j => handed[i] < handed[j]

\* Corking, batching, deferral and listeners that call back into the stream stay
\* invisible: the stream is a FIFO queue in front of a busy-or-idle sink.
Queue == INSTANCE WriteQueue
         WITH WriteIds <- 1 .. MaxWrites, queue <- [i \in DOMAIN buffer |-> buffer[i].id],
              sent <- handed, busy <- writing, ended <- ending,
              finished <- writableFinished
ImplementsQueue == Queue!QueueSpec

\* Liveness is asked of users who do not leave the stream corked.
Uncorks == []<>(writableCorked = 0)

\* A producer told to stop (write() returned false) gets its 'drain', unless the
\* stream is ended meanwhile.
DrainArrives == Uncorks => (needDrain ~> (~needDrain \/ ending))

\* finish() leads to 'finish'.
FinishArrives == Uncorks => (ending ~> writableFinished)

\* Every write() leads to its callback.
EveryWriteAnswered ==
    Uncorks => \A id \in 1 .. MaxWrites : (calls >= id) ~> (id \in ToSet(answered))
=============================================================================

----------------------------- MODULE MCReadable -----------------------------
(***************************************************************************)
(* Readable for TLC: what a consumer is promised, on a few bytes.          *)
(***************************************************************************)
EXTENDS Readable

\* The buffer keeps the bytes: what was delivered, then what is buffered, are the
\* bytes of the source in their order, none lost and none twice.
PlucksBytes == delivered \o FlattenSeq(buffer) = [i \in 1 .. sourced |-> i]

\* Flowing, pulled, cut, put back or delivered past the buffer, the bytes reach
\* the consumer in the order of the source; and `length', which decides when to ask
\* and when to end, agrees with what is still buffered.  Only the complex case of
\* read(n), over several chunks, may break it, when it takes the chunks for numbers
\* (misread); it does not break it when it raises.
InOrder ==
    misread \/ /\ PlucksBytes
               /\ length = IF objectMode THEN Len(buffer) ELSE Len(FlattenSeq(buffer))

\* 'end' is emitted once, after the source has ended and every byte was consumed
\* (or a read has lost some).
EndAfterData ==
    [][ ends' # ends => ends = 0 /\ eof /\ (misread \/ Len(delivered) = sourced) ]_vars

\* The source is asked for more only when it owes no answer and has not ended.
Asks == stack' # <<>> /\ Head(stack') = FrameOf("source") /\ Len(stack') > Len(stack)
OneRead == [][ Asks => ~io /\ ~readableEnded ]_vars

\* A consumer that has never let the stream flow, and does not keep up, stops the
\* source: a chunk that was asked for below the mark, and one that a read() asked
\* for before it emptied the buffer, is all that is ever above the mark.
Largest == CHOOSE k \in ChunkSizes : \A j \in ChunkSizes : j <= k
Backpressure == flowing = "unset" => length < highWaterMark + 2 * Largest

\* No wakeup is lost: a stream left flowing delivers everything and ends, and a
\* consumer that reads on every 'readable' until nil gets everything and 'end'.
FlowEnds == <>[](flowing = "on") => <>(ends = 1)
PullEnds == readableListening ~> ends = 1
ReachesEnd == FlowEnds /\ PullEnds
=============================================================================

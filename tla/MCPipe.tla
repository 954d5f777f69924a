------------------------------- MODULE MCPipe -------------------------------
(***************************************************************************)
(* Pipe for TLC.  User code either pipes, or consumes the source alone:    *)
(* then the properties of MCReadable are about the same steps.             *)
(***************************************************************************)
EXTENDS MCReadable, Pipe

\* What is piped arrives: all that the source has delivered was written to the
\* destination, in order, and goes to its sink in order and once; the destination
\* never keeps more than a chunk beyond its mark, and finishes after the last byte.
PipeWhole ==
    /\ PipeTypeOK
    /\ piping =>
       /\ delivered = FlattenSeq(sent) \o chunk
       /\ \A i \in DOMAIN handed : handed[i] = i
       /\ wLength < SinkMark + Largest * ((pipeCalls + 1) \div 2)
       /\ finishes > 0 => /\ finishes = 1 /\ eof /\ Len(delivered) = sourced
                          /\ Len(handed) = Len(sent)

\* A destination that stays piped gets everything and its end: no drain is missed.
PipeArrives == pipeCalls % 2 = 1 ~> finishes = 1 \/ pipeCalls % 2 = 0
=============================================================================

----------------------------- MODULE NetSocket -----------------------------
(***************************************************************************)
(* core/lua/net.lua: a TCP socket, between its writing half and libuv.     *)
(*                                                                         *)
(* The writing half is a WriteQueue: it hands one chunk at a time to       *)
(* uv.write and keeps the others until the callback.  finish() asks libuv  *)
(* for the shutdown at once and ends the writing half only in the callback *)
(* of the shutdown; libuv shuts down as soon as its own queue is empty.    *)
(* destroy() may come at any time: between finish() and its callback,      *)
(* before the answers to the name query and to the connection, inside the  *)
(* callback of a write, or in a listener of 'lookup', which is emitted     *)
(* between the check of `destroyed' and the connection.                    *)
(***************************************************************************)
EXTENDS Integers, Sequences

CONSTANTS MaxWrites     \* bound: chunks written

ASSUME SocketAssumption == MaxWrites \in Nat

NoChunk == 0
Chunks  == 1 .. MaxWrites
FIN     == -1

VARIABLES
    stage,          \* where connect() is, see Stages
    handle,         \* uv_tcp_t: open, closing, closed
    destroyed,
    accepted,       \* chunks written so far
    buffer,         \* chunks the writing half keeps
    request,        \* the uv_write_t: its chunk and state
    shutdown,       \* uv_shutdown_t: none, asked, done
    ending,         \* Duplex.finish was called
    finished,       \* 'finish' was emitted
    inCallbacks,    \* uv__stream_io, between uv__write_callbacks and uv__drain
    peer,           \* open; ended: EOF was read; done: 'end' was emitted
    wire,           \* observed: what the peer gets
    promised,       \* observed: chunks accepted before finish()
    closes,         \* observed: 'close' events
    misused         \* observed: what was called on a handle that was closing

socketVars == <<stage, handle, destroyed, accepted, buffer, request, shutdown, ending,
                finished, inCallbacks, peer, wire, promised, closes, misused>>

\* lookup: the name query is asked; resolved: a listener of 'lookup' runs.  What
\* libuv refuses at once is not looked at by connect(): unopened without a socket,
\* stalled with one that is not connected.  aborted: an assertion of libuv has
\* ended the process.
Stages == {"new", "lookup", "resolved", "connecting", "connected",
           "failed", "unopened", "stalled", "aborted"}

\* The states of a write: lost when uv.write refused it, for then its callback
\* is never called; queued in libuv; sent or failed when its callback is due.
NoRequest == [chunk |-> NoChunk, state |-> "none"]

SocketInit ==
    /\ stage = "new" /\ handle = "open" /\ destroyed = FALSE
    /\ accepted = 0 /\ buffer = <<>> /\ request = NoRequest
    /\ shutdown = "none" /\ ending = FALSE /\ finished = FALSE
    /\ inCallbacks = FALSE /\ peer = "open"
    /\ wire = <<>> /\ promised = [chunks |-> 0, safe |-> TRUE]
    /\ closes = 0 /\ misused = {}

-----------------------------------------------------------------------------
(* uv_write, uv_close. *)
HasFd == handle = "open" /\ stage \in {"connecting", "connected", "stalled"}

\* The kernel takes a chunk, or is full, or refuses it, as it does after the
\* shutdown and on a socket that is not connected.
CanSend == stage = "connected" /\ shutdown # "done"

Transmit(chunk) ==
    \/ /\ CanSend
       /\ request' = [chunk |-> chunk, state |-> "sent"]
       /\ wire' = Append(wire, chunk)
    \/ /\ request' = [chunk |-> chunk, state |-> "failed"]
       /\ UNCHANGED wire
    \/ /\ CanSend
       /\ request' = [chunk |-> chunk, state |-> "queued"]
       /\ UNCHANGED wire

\* Socket:_write
HandOver(chunk) ==
    IF HasFd /\ stage # "connecting" THEN Transmit(chunk)
    ELSE /\ request' = [chunk |-> chunk, state |-> IF HasFd THEN "queued" ELSE "lost"]
         /\ UNCHANGED wire

\* Socket:destroy.  Errors are reported in an immediate.
AlreadyDestroyed == destroyed

\* A call that a handle which is closing may not get.
Uses(call) == misused' = IF handle = "open" THEN misused ELSE misused \cup {call}

DestroySocket ==
    IF AlreadyDestroyed THEN UNCHANGED <<destroyed, handle, misused>>
    ELSE /\ destroyed' = TRUE
         /\ handle' = "closing"
         /\ Uses("close")

-----------------------------------------------------------------------------
(* User code: from the loop, in the callback of a write, or a listener of  *)
(* 'lookup'.                                                               *)
InUse == stage \notin {"new", "aborted"}

\* The name query may be refused at once.
Connect ==
    /\ stage = "new" /\ ~destroyed
    /\ stage' \in {"lookup", "unopened"}
    /\ UNCHANGED <<handle, destroyed, accepted, buffer, request, shutdown, ending, finished,
                   inCallbacks, peer, wire, promised, closes, misused>>

Write ==
    /\ InUse /\ ~ending
    /\ accepted < MaxWrites
    /\ accepted' = accepted + 1
    /\ IF request = NoRequest THEN HandOver(accepted + 1) /\ UNCHANGED buffer
       ELSE buffer' = Append(buffer, accepted + 1) /\ UNCHANGED <<request, wire>>
    /\ UNCHANGED <<stage, handle, destroyed, shutdown, ending, finished, inCallbacks, peer,
                   promised, closes, misused>>

\* finish(): the callback of a shutdown that libuv refuses is never called.
FinishSocket ==
    /\ InUse
    /\ IF destroyed THEN ending' = TRUE /\ UNCHANGED <<shutdown, promised>>
       ELSE IF HasFd /\ shutdown = "none"
       THEN /\ shutdown' = "asked"
            /\ promised' = [chunks |-> accepted,
                            safe |-> Len(buffer) = 0 \/ (Len(buffer) = 1 /\ ~inCallbacks)]
            /\ UNCHANGED ending
       ELSE UNCHANGED <<ending, shutdown, promised>>
    /\ UNCHANGED <<stage, handle, destroyed, accepted, buffer, request, finished, inCallbacks,
                   peer, wire, closes, misused>>

Destroy ==
    /\ InUse
    /\ DestroySocket
    /\ UNCHANGED <<stage, accepted, buffer, request, shutdown, ending, finished, inCallbacks,
                   peer, wire, promised, closes>>

-----------------------------------------------------------------------------
(* The loop. *)
\* The answer to the name query, up to the event 'lookup'.
Gone == destroyed

LookupAnswered ==
    /\ stage = "lookup" /\ ~inCallbacks
    /\ IF Gone THEN stage' = "failed" /\ UNCHANGED misused
       ELSE stage' = "resolved" /\ Uses("answer")
    /\ UNCHANGED <<handle, destroyed, accepted, buffer, request, shutdown, ending, finished,
                   inCallbacks, peer, wire, promised, closes>>

\* The listeners of 'lookup' have returned: uv.tcp_connect, whose error is not
\* looked at.  A handle that is closing gets a socket all the same: its end meets
\* an assertion of libuv, or, when the connection was refused at once, the socket
\* is left open.
ConnectTo ==
    /\ stage = "resolved"
    /\ stage' \in IF handle = "open" THEN {"connecting", "stalled", "unopened"}
                  ELSE {"aborted", "failed"}
    /\ Uses("connect")
    /\ UNCHANGED <<handle, destroyed, accepted, buffer, request, shutdown, ending, finished,
                   inCallbacks, peer, wire, promised, closes>>

Failing == DestroySocket

LookupFails ==
    /\ stage = "lookup" /\ ~inCallbacks
    /\ stage' = "failed"
    /\ Failing
    /\ UNCHANGED <<accepted, buffer, request, shutdown, ending, finished, inCallbacks, peer,
                   wire, promised, closes>>

Connected ==
    /\ stage = "connecting" /\ handle = "open"
    /\ stage' = "connected"
    /\ UNCHANGED <<handle, destroyed, accepted, buffer, request, shutdown, ending, finished,
                   inCallbacks, peer, wire, promised, closes, misused>>

\* The writes that libuv has queued fail with the connection.
ConnectFails ==
    /\ stage = "connecting" /\ handle = "open"
    /\ stage' = "failed"
    /\ Failing
    /\ request' = IF request.state = "queued" THEN NoRequest ELSE request
    /\ UNCHANGED <<accepted, buffer, shutdown, ending, finished, inCallbacks, peer, wire,
                   promised, closes>>

\* uv__stream_io, first part: what is queued is sent if the kernel has room.
SendQueued ==
    /\ stage = "connected" /\ handle = "open" /\ ~inCallbacks
    /\ request.state = "queued"
    /\ Transmit(request.chunk)
    /\ UNCHANGED <<stage, handle, destroyed, accepted, buffer, shutdown, ending, finished,
                   inCallbacks, peer, promised, closes, misused>>

\* The callback of a write: the writing half hands the next chunk over.  A
\* failed one destroys the socket, and the writing half stops.
NextChunk == Head(buffer)

WriteDone ==
    /\ stage \in {"connected", "stalled"} /\ handle = "open" /\ ~inCallbacks
    /\ inCallbacks' = TRUE
    /\ \/ /\ request.state = "sent" /\ buffer # <<>>
          /\ HandOver(NextChunk)
          /\ buffer' = Tail(buffer)
          /\ UNCHANGED <<destroyed, handle, misused>>
       \/ /\ request.state = "sent" /\ buffer = <<>>
          /\ request' = NoRequest
          /\ UNCHANGED <<destroyed, handle, misused, wire, buffer>>
       \/ /\ request.state = "failed"
          /\ request' = NoRequest
          /\ DestroySocket
          /\ UNCHANGED <<wire, buffer>>
    /\ UNCHANGED <<stage, accepted, shutdown, ending, finished, peer, promised, closes>>

\* POLLOUT without a write: asked for by the shutdown.
PollOut ==
    /\ stage \in {"connected", "stalled"} /\ handle = "open" /\ ~inCallbacks
    /\ shutdown = "asked" /\ request.state \in {"none", "lost"}
    /\ inCallbacks' = TRUE
    /\ UNCHANGED <<stage, handle, destroyed, accepted, buffer, request, shutdown, ending,
                   finished, peer, wire, promised, closes, misused>>

\* uv__drain.  The callback of the shutdown is Duplex.finish, also if the
\* connection is broken and there is no FIN.
\* Variant: it does not wait for the writes in the queue.
Drains_Early == TRUE
Drains == request.state # "queued"

Drain ==
    /\ inCallbacks
    /\ inCallbacks' = FALSE
    /\ IF Drains /\ shutdown = "asked" /\ handle = "open"
       THEN /\ shutdown' = "done" /\ ending' = TRUE
            /\ wire' = IF request.state = "failed" \/ stage = "stalled" THEN wire
                       ELSE Append(wire, FIN)
       ELSE UNCHANGED <<shutdown, wire, ending>>
    /\ UNCHANGED <<stage, handle, destroyed, accepted, buffer, request, finished, peer,
                   promised, closes, misused>>

\* The writing half emits 'finish'; _onSocketFinish.
EmitFinish ==
    /\ InUse /\ ending /\ ~finished /\ request = NoRequest /\ buffer = <<>>
    /\ finished' = TRUE
    /\ IF stage = "connected" /\ (peer = "done" \/ destroyed)
       THEN DestroySocket ELSE UNCHANGED <<destroyed, handle, misused>>
    /\ UNCHANGED <<stage, accepted, buffer, request, shutdown, ending, inCallbacks, peer,
                   wire, promised, closes>>

ReadEOF ==
    /\ stage = "connected" /\ handle = "open" /\ ~inCallbacks
    /\ peer = "open"
    /\ peer' = "ended"
    /\ UNCHANGED <<stage, handle, destroyed, accepted, buffer, request, shutdown, ending,
                   finished, inCallbacks, wire, promised, closes, misused>>

\* _onSocketEnd
EmitEnd ==
    /\ peer = "ended" /\ ~inCallbacks
    /\ peer' = "done"
    /\ DestroySocket
    /\ UNCHANGED <<stage, accepted, buffer, request, shutdown, ending, finished, inCallbacks,
                   wire, promised, closes>>

\* uv__stream_destroy: connect, write and shutdown are answered; then _onClose.
HandleClosed ==
    /\ handle = "closing" /\ ~inCallbacks /\ stage \notin {"resolved", "aborted"}
    /\ handle' = "closed"
    /\ closes' = closes + 1
    /\ stage' = IF stage = "connecting" THEN "failed" ELSE stage
    /\ \/ /\ request.state = "sent" /\ buffer # <<>>
          /\ HandOver(Head(buffer))
          /\ buffer' = Tail(buffer)
       \/ /\ request.state # "sent" \/ buffer = <<>>
          /\ request' = IF request.state = "lost" THEN request ELSE NoRequest
          /\ UNCHANGED <<buffer, wire>>
    /\ IF shutdown = "asked" THEN shutdown' = "done" /\ ending' = TRUE
       ELSE UNCHANGED <<shutdown, ending>>
    /\ UNCHANGED <<destroyed, accepted, finished, inCallbacks, peer, promised, misused>>

SocketLoop ==
    \/ LookupAnswered \/ ConnectTo \/ LookupFails \/ Connected \/ ConnectFails
    \/ SendQueued \/ WriteDone \/ PollOut \/ Drain \/ HandleClosed

SocketNext ==
    \/ Connect \/ Write \/ FinishSocket \/ Destroy
    \/ EmitFinish \/ ReadEOF \/ EmitEnd
    \/ SocketLoop

SocketSpec == SocketInit /\ [][SocketNext]_socketVars

\* libuv answers name queries and connections and calls back, and the kernel gets
\* room at last for what is queued (these steps are bounded in number).  The peer
\* need not end.
SocketFairness == WF_socketVars(SocketLoop)

-----------------------------------------------------------------------------
SocketTypeOK ==
    /\ stage \in Stages
    /\ handle \in {"open", "closing", "closed"}
    /\ {destroyed, ending, finished, inCallbacks} \subseteq BOOLEAN
    /\ misused \subseteq {"answer", "connect", "close"}
    /\ accepted \in 0 .. MaxWrites /\ buffer \in Seq(Chunks)
    /\ request \in [chunk : Chunks \cup {NoChunk},
                    state : {"none", "lost", "queued", "sent", "failed"}]
    /\ shutdown \in {"none", "asked", "done"}
    /\ peer \in {"open", "ended", "done"}
    /\ wire \in Seq(Chunks \cup {FIN})
    /\ promised \in [chunks : 0 .. MaxWrites, safe : BOOLEAN]
    /\ closes \in 0 .. 1

\* The peer gets the chunks in the order of the writes, without a gap, and
\* nothing after the FIN.
WireInOrder ==
    \A k \in DOMAIN wire : wire[k] = k \/ (wire[k] = FIN /\ k = Len(wire))

Sent(n) == \A chunk \in 1 .. n : \E k \in DOMAIN wire : wire[k] = chunk
FinSent == \E k \in DOMAIN wire : wire[k] = FIN

\* What finish() promises: the FIN comes after all that was written before it.
\* Violated: the writing half may keep more than libuv knows of.  (A write
\* before the answer to the name query is lost in any case.)
FinAfterData == FinSent /\ request.state # "lost" => Sent(promised.chunks)

\* The promise is kept when no chunk waited at finish(), or one and finish() was
\* not called by the callback of a write.
FinAfterLast ==
    FinSent /\ request.state # "lost" /\ promised.safe => Sent(promised.chunks)

\* The handle is closed once, whenever destroy() comes and how often, and used no
\* more, but by the connection that a listener of 'lookup' did not want any more;
\* 'close' is emitted once, at the end.
ClosedOnce ==
    /\ misused \subseteq {"connect"}
    /\ closes <= 1 /\ (closes = 1 => destroyed /\ handle = "closed")

\* What is written, shut down, destroyed and closed in any order stays in order.
SocketSound == WireInOrder /\ FinAfterLast /\ ClosedOnce

\* A connection that libuv did not refuse at once is made or the socket is
\* destroyed, and a socket that is destroyed emits 'close'.
ConnectSettles ==
    (stage = "lookup") ~>
       (stage \in {"connected", "stalled", "unopened", "aborted"} \/ closes = 1)
DestroyCloses  == destroyed ~> (closes = 1 \/ stage = "aborted")

\* A shutdown that libuv has taken is done.
ShutdownEnds == (shutdown = "asked") ~> (shutdown = "done")

=============================================================================

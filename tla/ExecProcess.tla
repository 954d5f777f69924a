---------------------------- MODULE ExecProcess ----------------------------
(***************************************************************************)
(* core/lua/child_process.lua: exec on top of spawn, for one command.      *)
(*                                                                         *)
(* spawn counts the exit and the closing of the three pipes and emits      *)
(* 'close' on the child after the last of them.  exec waits for two        *)
(* things, the end of stdout and 'close'; its timer and a too long output  *)
(* emit the 'close' events themselves.  The order of the events depends on *)
(* who has the pipes: a command may close its output and go on, and may    *)
(* leave a process behind that keeps stdout and stderr open.               *)
(***************************************************************************)
EXTENDS Integers, Sequences

CONSTANTS
    MaxOutput,      \* bound: chunks written to each of stdout and stderr
    MaxBuffer       \* options.maxBuffer, in chunks

ASSUME ExecAssumption == MaxOutput \in Nat /\ MaxBuffer \in Nat

Outputs == {"stdout", "stderr"}
Stdio   == Outputs \cup {"stdin"}
NoCode  == -1       \* a handler that is called without a code
Failed  == -127

VARIABLES
    command,        \* none, running, exited (a zombie), reaped, or failed
    code,           \* childProcess.exitCode, or what it will be
    writers,        \* who has the other end of stdout and stderr
    unread,         \* chunks in each pipe
    length,         \* stdoutLen, stderrLen
    stdio,          \* the sockets: open, ended (EOF was read), closing, closed
    immediates,     \* what setImmediate has queued
    child           \* the counters and flags of spawn and exec, childProcess.signal

execVars == <<command, code, writers, unread, length, stdio, immediates, child>>

\* The things exec waits for: the end of stdout and 'close'.
\* Variant: one is enough.
Awaited_One == 1
Awaited == 2

\* The ways a command ends: with a code, or by a signal, and then libuv gives the
\* code 0 and the signal.
Endings == {[code |-> 0, signal |-> FALSE], [code |-> 1, signal |-> FALSE],
            [code |-> 0, signal |-> TRUE]}

ExecInit ==
    /\ command = "none"
    /\ \E writing \in {{"command"}, {"command", "other"}} :
          writers = [s \in Outputs |-> writing]
    /\ unread = [s \in Outputs |-> 0] /\ length = [s \in Outputs |-> 0]
    /\ stdio = [s \in Stdio |-> "open"]
    /\ immediates = <<>>
    /\ \E timed \in BOOLEAN, ending \in Endings :
          /\ code = ending.code
          /\ child = [closesGot |-> 4, counting |-> Stdio, closes |-> 0,
                      closeOnce |-> TRUE, called |-> Awaited, exited |-> FALSE,
                      timer |-> timed, killed |-> FALSE, signal |-> ending.signal,
                      results |-> <<>>]

-----------------------------------------------------------------------------
(* The handlers, as functions of the record child. *)

\* _exitHandler, and the callback.
\* Variant: `exited' is not looked at.
Done_Never(c) == FALSE
Done(c) == c.exited

ExitHandler(c, status) ==
    LET d == [c EXCEPT !.timer = FALSE, !.called = IF Done(c) THEN @ ELSE @ - 1]
    IN IF Done(c) \/ d.called > 0 THEN d
       ELSE [d EXCEPT !.exited = TRUE,
                      !.results = Append(@, IF status = 0 THEN "success" ELSE "error")]

\* 'close' of the child: _onClose is a once listener, and takes the code only, so
\* that the signal is dropped.
ChildClose(c, status) ==
    LET d == [c EXCEPT !.closes = @ + 1]
    IN IF d.closeOnce THEN ExitHandler([d EXCEPT !.closeOnce = FALSE], status) ELSE d

IsLast(c) == c.closesGot = 0

MaybeClose(c) ==
    LET d == [c EXCEPT !.closesGot = @ - 1]
    IN IF IsLast(d) THEN ChildClose(d, code) ELSE d

\* 'close' of a socket: a once listener that counts.
Counted(c, s) == c.counting \ {s}

SocketClose(c, s) ==
    IF s \in c.counting THEN MaybeClose([c EXCEPT !.counting = Counted(c, s)]) ELSE c

\* _kill: the process is not signalled.
KillChild(c) ==
    LET closed == ChildClose(SocketClose(SocketClose(c, "stdout"), "stderr"), 1)
    IN ExitHandler([closed EXCEPT !.killed = TRUE], 1)

-----------------------------------------------------------------------------
(* The processes, outside. *)
Spawn ==
    /\ command = "none"
    /\ command' = "running"
    /\ UNCHANGED <<code, writers, unread, length, stdio, immediates, child>>

\* The pipes were not opened, or the new process had them and ended: it could not
\* execute the command.
SpawnFails ==
    /\ command = "none"
    /\ command' = "failed"
    /\ immediates' = <<"failed">>
    /\ \/ UNCHANGED writers
       \/ writers' = [s \in Outputs |-> {}]
    /\ UNCHANGED <<code, unread, length, stdio, child>>

Writes(s) ==
    /\ command # "none" /\ command # "failed"
    /\ writers[s] # {}
    /\ length[s] + unread[s] < MaxOutput
    /\ unread' = [unread EXCEPT ![s] = @ + 1]
    /\ UNCHANGED <<command, code, writers, length, stdio, immediates, child>>

\* A process closes some outputs, the command possibly while it goes on.
Closes(who, outputs) ==
    writers' = [s \in Outputs |-> IF s \in outputs THEN writers[s] \ {who} ELSE writers[s]]

CloseOutput(who, outputs) ==
    /\ command # "none" /\ command # "failed"
    /\ Closes(who, outputs)
    /\ UNCHANGED <<command, code, unread, length, stdio, immediates, child>>

\* The command ends, by itself or by a signal.
Exits ==
    /\ command = "running"
    /\ command' = "exited"
    /\ Closes("command", Outputs)
    /\ UNCHANGED <<code, unread, length, stdio, immediates, child>>

-----------------------------------------------------------------------------
(* The loop. *)
\* The 'data' listeners of exec.
TooLong(n) == n > MaxBuffer

Read(s) ==
    /\ stdio[s] = "open" /\ unread[s] > 0
    /\ unread' = [unread EXCEPT ![s] = @ - 1]
    /\ length' = [length EXCEPT ![s] = @ + 1]
    /\ child' = IF TooLong(length'[s]) THEN KillChild(child) ELSE child
    /\ UNCHANGED <<command, code, writers, stdio, immediates>>

AtEnd(s) == unread[s] = 0 /\ writers[s] = {}

\* The stream emits 'end' in an immediate.  exec starts to read in an immediate
\* too, which comes after that of a spawn that failed.
StdioEOF(s) ==
    /\ stdio[s] = "open" /\ AtEnd(s)
    /\ command = "failed" => code = Failed
    /\ stdio' = [stdio EXCEPT ![s] = "ended"]
    /\ immediates' = Append(immediates, s)
    /\ UNCHANGED <<command, code, writers, unread, length, child>>

\* _onExit.  libuv handles SIGCHLD after all that can be read: the pipes that
\* nobody else holds have ended.
OnExit ==
    /\ command = "exited"
    /\ \A s \in Outputs : stdio[s] = "open" => ~AtEnd(s) /\ unread[s] = 0
    /\ command' = "reaped"
    /\ child' = MaybeClose(child)
    /\ immediates' = Append(immediates, "cleanup")
    /\ UNCHANGED <<code, writers, unread, length, stdio>>

Destroyed(sockets) ==
    [s \in Stdio |-> IF s \in sockets /\ stdio[s] \in {"open", "ended"}
                     THEN "closing" ELSE stdio[s]]

\* 'end' of stdout or stderr: exec's listener, then the socket destroys itself.
StdioEnd(s) ==
    /\ child' = IF s = "stdout" THEN ExitHandler(child, NoCode) ELSE child
    /\ stdio' = Destroyed({s})
    /\ UNCHANGED code

\* _cleanup
Cleaned == Stdio

Cleanup ==
    /\ stdio' = Destroyed(Cleaned)
    /\ UNCHANGED <<child, code>>

\* Nobody listens to the 'error' that a failed spawn emits.
Immediate ==
    /\ immediates # <<>>
    /\ LET first == Head(immediates)
       IN \/ /\ first \in Outputs
             /\ StdioEnd(first)
             /\ immediates' = Tail(immediates)
          \/ /\ first = "cleanup"
             /\ Cleanup
             /\ immediates' = Tail(immediates)
          \/ /\ first = "failed"
             /\ code' = Failed
             /\ immediates' = Append(Tail(immediates), "cleanup")
             /\ child' = MaybeClose(child)
             /\ UNCHANGED stdio
    /\ UNCHANGED <<command, writers, unread, length>>

SocketCloses(s) ==
    /\ stdio[s] = "closing"
    /\ stdio' = [stdio EXCEPT ![s] = "closed"]
    /\ child' = SocketClose(child, s)
    /\ UNCHANGED <<command, code, writers, unread, length, immediates>>

TimesOut ==
    /\ command # "none"
    /\ child.timer
    /\ child' = KillChild(child)
    /\ UNCHANGED <<command, code, writers, unread, length, stdio, immediates>>

ExecLoop ==
    \/ OnExit \/ Immediate \/ TimesOut
    \/ \E s \in Outputs : Read(s) \/ StdioEOF(s)
    \/ \E s \in Stdio : SocketCloses(s)

ExecNext ==
    \/ Spawn \/ SpawnFails \/ Exits
    \/ \E outputs \in SUBSET Outputs, who \in {"command", "other"} : CloseOutput(who, outputs)
    \/ \E s \in Outputs : Writes(s)
    \/ ExecLoop

ExecSpec == ExecInit /\ [][ExecNext]_execVars

\* The loop turns (its steps are bounded in number).  Processes need not exit.
ExecFairness == WF_execVars(ExecLoop)

-----------------------------------------------------------------------------
ExecTypeOK ==
    /\ command \in {"none", "running", "exited", "reaped", "failed"}
    /\ code \in {0, 1, Failed}
    /\ writers \in [Outputs -> SUBSET {"command", "other"}]
    /\ unread \in [Outputs -> 0 .. MaxOutput] /\ length \in [Outputs -> 0 .. MaxOutput]
    /\ stdio \in [Stdio -> {"open", "ended", "closing", "closed"}]
    /\ immediates \in Seq(Outputs \cup {"cleanup", "failed"})
    /\ child.closesGot \in 0 .. 4 /\ child.counting \subseteq Stdio
    /\ child.called \in 0 .. 2 /\ child.signal \in BOOLEAN

\* A command that is reported as successful has ended, with the code 0, and all that
\* it wrote to stdout before was handed over.  A death by a signal has the code 0 too,
\* and _onClose drops the signal: the command may have been killed.
SuccessIsWhole ==
    child.results = <<"success">> =>
       /\ command = "reaped" /\ code = 0
       /\ stdio["stdout"] # "open" /\ unread["stdout"] = 0

\* 'close' of the child comes once, after the exit and after the last pipe; only
\* a kill emits more of them, and earlier.
CloseIsLast ==
    ~child.killed =>
       /\ child.closes <= 1
       /\ child.closes = 1 => command # "running" /\ \A s \in Stdio : stdio[s] = "closed"

\* What exec and the child report has happened.
ExecTruthful == SuccessIsWhole /\ CloseIsLast

\* exec calls back once the command has ended, if no process it left behind
\* still has stdout then.  (It may never call back for a command that could not be
\* spawned: stdout is destroyed, and the end that exec waits for does not come.)
ExecAnswers ==
    (command = "exited" /\ writers["stdout"] = {}) ~> child.results # <<>>

\* exec calls back once, whichever way and in whichever order the end of stdout,
\* the closes, the timer and a too long output come.
ExecPromise ==
    INSTANCE OneAnswer WITH
        Requests <- {"exec"},
        waiting  <- IF command # "none" /\ child.results = <<>> THEN {"exec"} ELSE {},
        answers  <- [r \in {"exec"} |-> Len(child.results)]
ExecAnswersOnce == ExecPromise!Spec /\ ExecAnswers
=============================================================================

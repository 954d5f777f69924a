------------------------------ MODULE MCParts ------------------------------
(***************************************************************************)
(* The small parts of the runtime for TLC: one behaviour runs one of them, *)
(* chosen at the start, and the others stay in their initial states.       *)
(***************************************************************************)
EXTENDS IdleTimers, Emitter, RpcCall, ExecProcess, NetSocket, Promises

CONSTANT Parts  \* the parts to run, of those named in PartsNext

VARIABLE part

partsVars == <<part, idleVars, emitterVars, rpcVars, execVars, socketVars, promiseVars>>

PartsInit ==
    /\ part \in Parts
    /\ IdleInit /\ EmitterInit /\ RpcInit /\ SocketInit /\ PromisesInit
    /\ ExecInit
    /\ part # "exec" =>
          code = 0 /\ ~child.signal /\ ~child.timer /\ writers["stdout"] = {"command"}

PartsNext ==
    /\ UNCHANGED part
    /\ \/ /\ part = "timers" /\ IdleNext
          /\ UNCHANGED <<emitterVars, rpcVars, execVars, socketVars, promiseVars>>
       \/ /\ part = "emitter" /\ EmitterNext
          /\ UNCHANGED <<idleVars, rpcVars, execVars, socketVars, promiseVars>>
       \/ /\ part = "rpc" /\ RpcNext
          /\ UNCHANGED <<idleVars, emitterVars, execVars, socketVars, promiseVars>>
       \/ /\ part = "exec" /\ ExecNext
          /\ UNCHANGED <<idleVars, emitterVars, rpcVars, socketVars, promiseVars>>
       \/ /\ part = "socket" /\ SocketNext
          /\ UNCHANGED <<idleVars, emitterVars, rpcVars, execVars, promiseVars>>
       \/ /\ part = "promises" /\ PromisesNext
          /\ UNCHANGED <<idleVars, emitterVars, rpcVars, execVars, socketVars>>

PartsSpec == PartsInit /\ [][PartsNext]_partsVars

\* Each part under its own fairness; nothing that is fair is enabled in the
\* initial states of the parts that do not run.
PartsFairSpec ==
    /\ PartsSpec
    /\ IdleFairness /\ RpcFairness /\ ExecFairness /\ SocketFairness /\ PromisesFairness

-----------------------------------------------------------------------------
\* The variables of all parts have their types; a list links an item once.
PartsTypeOK ==
    /\ IdleTypeOK /\ EmitterTypeOK /\ RpcTypeOK /\ ExecTypeOK /\ SocketTypeOK
    /\ PromisesTypeOK
=============================================================================

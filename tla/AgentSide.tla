----------------------------- MODULE AgentSide -----------------------------
(***************************************************************************)
(* What runs beside an agent: the emitter of the TypeScript SDK, traced    *)
(* functions, the transport of the Python SDK, and the MCP proxy.  They    *)
(* share no variables; each property reads those of one of them, and what  *)
(* the others do meanwhile is stuttering to it: an instance explores one   *)
(* of them at a time (area), the others in one of their initial states.    *)
(***************************************************************************)
EXTENDS Emitter, Trace, PyTransport, McpProxy

VARIABLE area

agentVars == <<emitterVars, traceVars, pyVars, proxyVars, area>>

AgentInit ==
    /\ EmitterInit /\ TraceInit /\ PyInit /\ ProxyInit
    /\ area \in {"emitter", "trace", "python", "proxy"}
    /\ area # "emitter" => ~wrapped /\ exit.handler = "none"
    /\ area # "trace" => sdk = "ts"
    /\ area # "proxy" => proxy = "stdio"

AgentNext ==
    /\ UNCHANGED area
    /\ \/ area = "emitter" /\ EmitterNext /\ UNCHANGED <<traceVars, pyVars, proxyVars>>
       \/ area = "trace" /\ TraceNext /\ UNCHANGED <<emitterVars, pyVars, proxyVars>>
       \/ area = "python" /\ PyNext /\ UNCHANGED <<emitterVars, traceVars, proxyVars>>
       \/ area = "proxy" /\ ProxyNext /\ UNCHANGED <<emitterVars, traceVars, pyVars>>

AgentSpec == AgentInit /\ [][AgentNext]_agentVars
==============================================================================

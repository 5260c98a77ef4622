------------------------------ MODULE McpProxy ------------------------------
(***************************************************************************)
(* The MCP proxy (adapters/mcp/blamr_proxy.py) between an MCP client and   *)
(* an MCP server: two threads relay the lines of each side, and the        *)
(* answers to tools/call become hops of one run; or (sse) one request is   *)
(* posted to an HTTP server.                                               *)
(*                                                                         *)
(* Tool calls are numbered in the order of the requests, which is also the *)
(* order of their hop indexes.  Both sides number their own requests, so   *)
(* that a request of the server may have the id of one of the client.      *)
(***************************************************************************)
EXTENDS Naturals, Sequences, Functions

CONSTANTS
    Ids,            \* ids of JSON-RPC requests
    MaxToolCalls    \* bound: tools/call requests of the client

ASSUME ProxyAssumption == MaxToolCalls \in Nat

VARIABLES
    proxy,       \* "stdio" or "sse"
    pendingCall, \* session.pending: the call each id waits for
    toolCalls,   \* the ids of the calls so far (session.hop_index)
    unanswered,  \* calls the server works on
    answers,     \* answers relayed to the client: the call, and whether an error
    hopsOut,     \* hops emitted: the call, and the kind of message they describe
    proxyFailed, \* session.failed
    runStatus,   \* the status given to complete_run(), or "open"
    ended,       \* the proxy returned, or died of an exception
    mistaken     \* history: calls whose id a request of the server had meanwhile

proxyVars == <<proxy, pendingCall, toolCalls, unanswered, answers, hopsOut,
               proxyFailed, runStatus, ended, mistaken>>

ToolCalls == DOMAIN toolCalls

ProxyInit ==
    /\ proxy \in {"stdio", "sse"}
    /\ pendingCall = [id \in {} |-> 0] /\ toolCalls = <<>>
    /\ unanswered = {} /\ answers = {} /\ hopsOut = {} /\ mistaken = {}
    /\ proxyFailed = FALSE /\ ended = FALSE
    /\ runStatus = "open"

Relaying == proxy = "stdio" /\ ~ended

\* session.pending[id] = call.
Pend(id, c) == [i \in DOMAIN pendingCall \cup {id} |-> IF i = id THEN c ELSE pendingCall[i]]

\* A tools/call of the client: a hop index is taken, the call remembered.
\* Its ids are unique among its requests that wait.
ClientCalls(id) ==
    /\ Relaying
    /\ Len(toolCalls) < MaxToolCalls
    /\ \A c \in unanswered : toolCalls[c] # id
    /\ LET c == Len(toolCalls) + 1
       IN /\ toolCalls' = Append(toolCalls, id)
          /\ pendingCall' = Pend(id, c)
          /\ unanswered' = unanswered \cup {c}
    /\ UNCHANGED <<proxy, answers, hopsOut, proxyFailed, runStatus, ended, mistaken>>

\* _emit_tool_edge(), for a message of the server with an id that is pending.
Peek(id) == pendingCall
Forget(id) == Restrict(pendingCall, DOMAIN pendingCall \ {id})
EmitToolEdge(id, message) ==
    IF id \in DOMAIN pendingCall
    THEN /\ hopsOut' = hopsOut \cup {[call |-> pendingCall[id], kind |-> message.kind]}
         /\ proxyFailed' = (proxyFailed \/ message.error)
         /\ pendingCall' = Forget(id)
    ELSE UNCHANGED <<hopsOut, proxyFailed, pendingCall>>

ServerAnswers(c) ==
    /\ Relaying /\ c \in unanswered
    /\ \E error \in BOOLEAN :
         /\ EmitToolEdge(toolCalls[c], [kind |-> "answer", error |-> error])
         /\ answers' = answers \cup {[call |-> c, error |-> error, open |-> runStatus = "open"]}
    /\ unanswered' = unanswered \ {c}
    /\ UNCHANGED <<proxy, toolCalls, runStatus, ended, mistaken>>

\* A request of the server, such as sampling/createMessage: not an error.
ServerRequests(id) ==
    /\ Relaying
    /\ id \in DOMAIN pendingCall
    /\ EmitToolEdge(id, [kind |-> "request", error |-> FALSE])
    /\ mistaken' = mistaken \cup {pendingCall[id]}
    /\ UNCHANGED <<proxy, toolCalls, unanswered, answers, runStatus, ended>>

\* Both pipes are closed, or the user interrupts: the run is completed.  After
\* an interrupt the threads go on until the server has ended.
Status == IF proxyFailed THEN "failed" ELSE "success"
CompleteProxied ==
    /\ Relaying /\ runStatus = "open"
    /\ runStatus' = Status
    /\ ended' \in BOOLEAN
    /\ UNCHANGED <<proxy, pendingCall, toolCalls, unanswered, answers, hopsOut, proxyFailed, mistaken>>

ServerEnds ==
    /\ Relaying /\ runStatus # "open"
    /\ ended' = TRUE
    /\ UNCHANGED <<proxy, pendingCall, toolCalls, unanswered, answers, hopsOut, proxyFailed, runStatus, mistaken>>

\* run_sse_proxy(): an HTTP error or an answer that is no JSON fails the run;
\* a server that is not reached raises.
PostMessage(id) ==
    /\ proxy = "sse" /\ ~ended
    /\ \E tool, httpError, toolError \in BOOLEAN :
         /\ runStatus' = IF httpError \/ (tool /\ toolError) THEN "failed" ELSE "success"
         /\ proxyFailed' = (runStatus' = "failed")
         /\ toolCalls' = IF tool THEN <<id>> ELSE <<>>
         /\ hopsOut' = IF tool THEN {[call |-> 1, kind |-> "answer"]} ELSE {}
         /\ answers' = IF tool THEN {[call |-> 1, error |-> toolError, open |-> TRUE]} ELSE {}
    /\ ended' = TRUE
    /\ UNCHANGED <<proxy, pendingCall, unanswered, mistaken>>

Unreachable ==
    /\ proxy = "sse" /\ ~ended
    /\ ended' = TRUE
    /\ UNCHANGED <<proxy, pendingCall, toolCalls, unanswered, answers, hopsOut, proxyFailed, runStatus, mistaken>>

ProxyNext ==
    \/ \E id \in Ids : ClientCalls(id) \/ ServerRequests(id) \/ PostMessage(id)
    \/ \E c \in ToolCalls : ServerAnswers(c)
    \/ CompleteProxied \/ ServerEnds \/ Unreachable

ProxySpec == ProxyInit /\ [][ProxyNext]_proxyVars

(***************************************************************************)
(* Properties.                                                             *)
(***************************************************************************)
\* A tool call the client has the answer of has one hop, made of its answer; of
\* the calls whose id a request of the server used meanwhile, the hop is made
\* of that request.  A run is completed as a success only if each tool error
\* relayed before was that of such a call.
ProxiedCallsHaveHops ==
    /\ \A a \in answers :
         {h.kind : h \in {g \in hopsOut : g.call = a.call}}
           = {IF a.call \in mistaken THEN "request" ELSE "answer"}
    /\ runStatus = "success" => \A a \in answers : a.error /\ a.open => a.call \in mistaken
=============================================================================

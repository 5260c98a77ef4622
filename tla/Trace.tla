------------------------------- MODULE Trace -------------------------------
(***************************************************************************)
(* Traced functions: blamrTrace() and runTraced() of the TypeScript SDK    *)
(* (packages/sdk-ts/src/trace.ts, lineage.ts) and blamr_trace of the       *)
(* Python SDK (packages/sdk-py/src/blamr_sdk/trace.py, lineage.py).        *)
(*                                                                         *)
(* Each call pushes a frame, runs the function, emits a hop and pops.  In  *)
(* TypeScript there is one stack for the whole process, calls wait for     *)
(* each other at any depth, and a function need not wait for the calls it  *)
(* made: it may be over before them, and what it started may still make    *)
(* calls.  In Python each thread has its stack, and a call blocks its      *)
(* caller.  A value stands for the call that returned it.                  *)
(***************************************************************************)
EXTENDS Naturals, Sequences, FiniteSets, SequencesExt, TLC

CONSTANTS
    MaxTraced,    \* bound: traced calls
    Agents,       \* agents of the options
    DefaultAgent  \* the agent of the emitter

ASSUME TraceAssumption == MaxTraced \in Nat /\ DefaultAgent \notin Agents

VARIABLES
    sdk,         \* "ts" or "py"
    calls,       \* the calls so far, in the order they began; root is history:
                 \* the outermost call around this one
    stack,       \* _trace_stack of each thread; traceStack is that of thread 0
    registry,    \* HopLineageRegistry objects: the values each one knows
    overlapped   \* history: a call began while another one was on top, or from a
                 \* function that was over, or was over before one that it made

traceVars == <<sdk, calls, stack, registry, overlapped>>

TracedCalls == DOMAIN calls
Active == {c \in TracedCalls : calls[c].pc # "done"}
Returned == {c \in TracedCalls : calls[c].pc = "done" /\ ~calls[c].threw}

\* The caller of a call, 0 for none; the thread it runs in.
Parent(c) == calls[c].parent
Thread(p, c) == IF sdk = "ts" THEN 0 ELSE IF p = 0 THEN c ELSE calls[p].thread

CallerAgent(c) == IF Parent(c) = 0 THEN DefaultAgent ELSE calls[Parent(c)].agent

\* The frame on top, or one of the emitter itself when the stack is empty.
Top(s) == IF s = <<>> THEN [call |-> 0, agent |-> DefaultAgent, registry |-> 0] ELSE Last(s)

\* parentAgent() without the option fromAgent: TypeScript asks when the frame
\* of the call itself has been pushed, Python before.
TopAgent(c) == Top(stack[calls[c].thread]).agent
ParentAgent(c) == IF sdk = "ts" THEN TopAgent(c) ELSE calls[c].caller

-----------------------------------------------------------------------------
TraceInit ==
    /\ sdk \in {"ts", "py"}
    /\ calls = <<>>
    /\ stack = [t \in 0..MaxTraced |-> <<>>]
    /\ registry = [c \in 1..MaxTraced |-> {}]
    /\ overlapped = FALSE

\* A call with some of the values returned so far, from the function of a call
\* (in TypeScript also from what it left running) or from outside of any.
CanCall(c) == sdk = "ts" \/ calls[c].pc = "body"
Enter ==
    /\ Len(calls) < MaxTraced
    /\ \E p \in {0} \cup {c \in TracedCalls : CanCall(c)}, agent \in Agents, args \in SUBSET Returned :
         LET c == Len(calls) + 1
             thread == Thread(p, c)
             top == Top(stack[thread])
             reg == IF top.registry = 0 THEN c ELSE top.registry
         IN /\ sdk = "py" => \A d \in Active : Parent(d) = p => p = 0
            /\ calls' = Append(calls,
                 [pc |-> "body", parent |-> p, thread |-> thread, agent |-> agent, args |-> args,
                  caller |-> top.agent, sources |-> args \cap registry[reg],
                  root |-> IF p = 0 THEN c ELSE calls[p].root, from |-> DefaultAgent, threw |-> FALSE])
            /\ stack' = [stack EXCEPT ![thread] = Append(@, [call |-> c, agent |-> agent, registry |-> reg])]
            /\ overlapped' = (overlapped \/ top.call # p \/ (p # 0 /\ calls[p].pc # "body"))
    /\ UNCHANGED <<sdk, registry>>

\* The function is over, with a value or an exception: the hop is emitted.
Emit(c) ==
    /\ calls[c].pc = "body"
    /\ sdk = "py" => \A d \in Active : Parent(d) # c
    /\ overlapped' = (overlapped \/ \E d \in Active : Parent(d) = c)
    /\ \E threw \in BOOLEAN :
         calls' = [calls EXCEPT ![c].pc = IF threw THEN "leave" ELSE "emitted",
                                ![c].threw = threw, ![c].from = ParentAgent(c)]
    /\ UNCHANGED <<sdk, stack, registry>>

\* register() of the result, with the frame that is now on top.
Register(c) ==
    /\ calls[c].pc = "emitted"
    /\ LET reg == Top(stack[calls[c].thread]).registry
       IN registry' = IF reg = 0 THEN registry ELSE [registry EXCEPT ![reg] = @ \cup {c}]
    /\ calls' = [calls EXCEPT ![c].pc = "leave"]
    /\ UNCHANGED <<sdk, stack, overlapped>>

\* finally: the last frame goes, whosever it is.
PopReturned(c) == IF calls[c].threw THEN stack[calls[c].thread] ELSE Front(stack[calls[c].thread])
PopLast(c) == Front(stack[calls[c].thread])
Leave(c) ==
    /\ calls[c].pc = "leave"
    /\ stack' = [stack EXCEPT ![calls[c].thread] = PopLast(c)]
    /\ calls' = [calls EXCEPT ![c].pc = "done"]
    /\ UNCHANGED <<sdk, registry, overlapped>>

TraceNext == Enter \/ \E c \in TracedCalls : Emit(c) \/ Register(c) \/ Leave(c)

TraceSpec == TraceInit /\ [][TraceNext]_traceVars

(***************************************************************************)
(* Properties.                                                             *)
(***************************************************************************)
\* Whatever overlaps and whatever throws, there is a frame for each call that
\* is not over.  While no calls overlap in TypeScript, and always in Python, a
\* hop names the values it got as sources exactly when they were returned
\* within the same outermost call; and in Python from_agent is the caller.
TracesNest ==
    /\ \A t \in DOMAIN stack : Len(stack[t]) = Cardinality({c \in Active : calls[c].thread = t})
    /\ \A c \in TracedCalls :
         /\ sdk = "py" \/ ~overlapped =>
              calls[c].sources = {a \in calls[c].args : calls[a].root = calls[c].root}
         /\ sdk = "py" /\ calls[c].pc # "body" => calls[c].from = CallerAgent(c)

\* The wrappers of both languages give a hop the agent of its caller as
\* from_agent, at least while no calls overlap ("parent->child topology",
\* docs/INSTALL.md:310).
HopsNameCallers ==
    ~overlapped => \A c \in TracedCalls : calls[c].pc # "body" => calls[c].from = CallerAgent(c)
=============================================================================

------------------------------ MODULE Emitter ------------------------------
(***************************************************************************)
(* BlamrEmitter of the TypeScript SDK (packages/sdk-ts/src/index.ts): one  *)
(* emitter shared by the asynchronous tasks of a process.  A task runs     *)
(* without interruption from one await to the next.                        *)
(*                                                                         *)
(* The emitter is either created by the program, which then calls its      *)
(* methods, or is the hidden one of wrapClient (wrapped), which only the   *)
(* wrapped LLM client and the exit handlers use: client.blamr creates      *)
(* another emitter at each access.  send() returns at once and flush() is  *)
(* a wait here; what they do is the subject of Transport.                  *)
(*                                                                         *)
(* Runs are numbered; 0 is no run.  LLM calls are numbered; 0 is no call,  *)
(* or usage the provider has not reported.                                 *)
(***************************************************************************)
EXTENDS Integers, Sequences, ConfidenceGate

CONSTANTS
    Tasks,          \* the tasks of the program
    Confidences,    \* confidences of hops
    AcceptLevel,    \* workflowConfig.confidence_accept_level, or Absent
    GateMode,       \* workflowConfig.confidence_gate_mode
    MaxRuns,        \* bound: runs started
    MaxOperations,  \* bound: operations started by tasks
    Finalizer       \* the task of the exit handlers

ASSUME EmitterAssumption ==
    /\ Confidences \subseteq 0..100
    /\ AcceptLevel \in 0..100 \cup {Absent} /\ GateMode \in GateModes
    /\ MaxRuns \in Nat /\ MaxOperations \in Nat
    /\ Finalizer \notin Tasks

VARIABLES
    wrapped,      \* whether this is the emitter of wrapClient
    state,        \* BlamrState, and its epoch: the number of startRun() calls
    usage,        \* providerUsageQueue
    work,         \* what each task waits for
    sent,         \* edges given to the transport, in order
    completions,  \* requests for /runs/<run>/complete that were answered
    operations,   \* operations started so far, which also numbers LLM calls
    exit,         \* the exit handlers and the process
    begun,        \* history: runs started, as a number
    replaced      \* history: runs that another startRun() took the place of

emitterVars ==
    <<wrapped, state, usage, work, sent, completions, operations, exit, begun, replaced>>

Runs == 0..MaxRuns
AllTasks == Tasks \cup {Finalizer}
NoWork == [pc |-> "idle"]
BlamrState == [run |-> 0, hopIndex |-> 0, hops |-> <<>>, epoch |-> 0]

(***************************************************************************)
(* startRun(): a new state object.  Without an id a fresh one is made.     *)
(***************************************************************************)
NewState(r) == [run |-> r, hopIndex |-> 0, hops |-> <<>>, epoch |-> state.epoch + 1]
Fresh == begun + 1

Begin(r) ==
    /\ r <= MaxRuns
    /\ begun' = Max({begun, r})
    /\ replaced' = replaced \cup ({state.run} \ {0, r})

\* The state after "if (!runId) startRun()".
Running == IF state.run = 0 THEN NewState(Fresh) ELSE state
EnsureRun == IF state.run = 0 THEN Begin(Fresh) ELSE UNCHANGED <<begun, replaced>>

(***************************************************************************)
(* emitEdge(): explicit is the hop index the caller gives, or Absent; own  *)
(* the LLM call whose tokens the caller gives; priced, that the caller     *)
(* gives a cost.  Without tokens the oldest recorded usage leaves the      *)
(* queue; enrichEdgeTelemetry() uses it when there is no cost either.      *)
(***************************************************************************)
Consumes(own) == own = 0 /\ usage # <<>>
ConsumePeeks(own) == usage
ConsumeUsage(own) == IF Consumes(own) THEN Tail(usage) ELSE usage

EmitEdge(explicit, conf, own, priced) ==
    LET s == Running
        index == Otherwise(explicit, s.hopIndex)
    IN /\ EnsureRun
       /\ state' = [s EXCEPT !.hopIndex = Max({@, index + 1}),
                             !.hops = Append(@, [index |-> index, conf |-> conf])]
       /\ sent' = Append(sent, [run |-> s.run, epoch |-> s.epoch, conf |-> conf, own |-> own,
                                attached |-> IF Consumes(own) /\ ~priced THEN Head(usage) ELSE 0])

(***************************************************************************)
(* resolveRunOutcome().                                                    *)
(***************************************************************************)
LastHopOnly == IF state.hops = <<>> THEN <<>> ELSE <<state.hops[Len(state.hops)]>>
GateHops == state.hops
RunOutcome(businessFailed, skipGate) ==
    IF \/ businessFailed
       \/ /\ ~skipGate /\ AcceptLevel # Absent /\ state.hops # <<>>
          /\ ~EvaluateGate(AcceptLevel, GateMode, GateHops).passed
    THEN "failed" ELSE "success"

-----------------------------------------------------------------------------
EmitterInit ==
    /\ wrapped \in BOOLEAN
    /\ state = BlamrState
    /\ usage = <<>> /\ sent = <<>> /\ completions = {}
    /\ work = [t \in AllTasks |-> NoWork]
    /\ operations = 0 /\ begun = 0 /\ replaced = {}
    \* autoCompleteRun is an option of wrapClient.
    /\ exit \in {[alive |-> TRUE, handler |-> h, interrupted |-> FALSE, failed |-> FALSE] :
                   h \in IF wrapped THEN {"armed", "none"} ELSE {"none"}}

\* A task starts an operation; the exit handlers run when no task is left.
Operate(t) ==
    /\ exit.alive /\ exit.handler \in {"armed", "none"}
    /\ t \in Tasks /\ work[t] = NoWork
    /\ operations < MaxOperations
    /\ operations' = operations + 1
    /\ UNCHANGED <<wrapped, exit>>

Wait(t, w) == work' = [work EXCEPT ![t] = w]
Done(t) == Wait(t, NoWork)

StartRun(t) ==
    /\ Operate(t) /\ ~wrapped
    /\ \E r \in 1..Fresh : Begin(r) /\ state' = NewState(r)
    /\ UNCHANGED <<work, usage, sent, completions>>

\* What markHandoff() writes (the next to_agent and confidence_in) is left out.
MarkHandoff(t) ==
    /\ Operate(t) /\ ~wrapped
    /\ EnsureRun /\ state' = Running
    /\ UNCHANGED <<work, usage, sent, completions>>

RecordProviderUsage(t) ==
    /\ Operate(t) /\ ~wrapped
    /\ usage' = Append(usage, operations')
    /\ UNCHANGED <<state, begun, replaced, work, sent, completions>>

EmitOwnEdge(t) ==
    /\ Operate(t) /\ ~wrapped
    /\ \E explicit \in {Absent, 0}, conf \in Confidences, own \in {0, operations'}, priced \in BOOLEAN :
         EmitEdge(explicit, conf, own, priced) /\ usage' = ConsumeUsage(own)
    /\ UNCHANGED <<work, completions>>

\* create() of a wrapped client, up to the call of the provider.
CallProvider(t) ==
    /\ Operate(t) /\ wrapped
    /\ EnsureRun /\ state' = Running
    /\ \E api \in {"openai", "anthropic"} :
         Wait(t, [pc |-> "provider", api |-> api, call |-> operations'])
    /\ UNCHANGED <<usage, sent, completions>>

\* The answer: its usage is recorded.  A streamed answer reports none.
ProviderAnswers(t) ==
    /\ exit.alive /\ work[t].pc = "provider"
    /\ \E reported \in {0, work[t].call} :
         /\ usage' = Append(usage, reported)
         /\ IF work[t].api = "openai"
            THEN Wait(t, [pc |-> "signals", own |-> reported]) ELSE Done(t)
    /\ UNCHANGED <<wrapped, state, begun, replaced, sent, completions, operations, exit>>

\* An error of the provider goes to the caller: there is no hop.
ProviderFails(t) ==
    /\ exit.alive /\ work[t].pc = "provider"
    /\ Done(t)
    /\ UNCHANGED <<wrapped, state, usage, begun, replaced, sent, completions, operations, exit>>

\* emitLlmHop(), after the import of its helpers.
EmitLlmHop(t) ==
    /\ exit.alive /\ work[t].pc = "signals"
    /\ \E conf \in Confidences : EmitEdge(Absent, conf, work[t].own, FALSE)
    /\ usage' = ConsumeUsage(work[t].own)
    /\ Done(t)
    /\ UNCHANGED <<wrapped, completions, operations, exit>>

\* completeRun() judges the hops, and waits for the flush.
Judge(t, businessFailed, skipGate) ==
    /\ state.run # 0
    /\ Wait(t, [pc |-> "flush", status |-> RunOutcome(businessFailed, skipGate),
                gated |-> ~skipGate, judged |-> state.run, posted |-> 0, forgot |-> 0,
                epoch |-> state.epoch, edges |-> Len(sent)])
    /\ UNCHANGED <<state, usage, sent, completions, begun, replaced>>

CompleteRun(t) ==
    /\ Operate(t) /\ ~wrapped
    /\ \E businessFailed, skipGate \in BOOLEAN : Judge(t, businessFailed, skipGate)

\* The run in the address is read when the flush is over.
Post(t) ==
    /\ exit.alive /\ work[t].pc = "flush"
    /\ Wait(t, [work[t] EXCEPT !.pc = "post", !.posted = state.run])
    /\ UNCHANGED <<wrapped, state, usage, sent, completions, operations, exit, begun, replaced>>

\* The answer, of whatever status: the run of the emitter is cleared.
PostAnswered(t) ==
    /\ exit.alive /\ work[t].pc = "post"
    /\ completions' = completions \cup {[work[t] EXCEPT !.forgot = state.run]}
    /\ state' = [state EXCEPT !.run = 0]
    /\ Done(t)
    /\ UNCHANGED <<wrapped, usage, sent, operations, exit, begun, replaced>>

\* An error of the flush or of the request: the run stays.
RunClearedAnyway == 0
RunAfterFailure == state.run
PostFails(t) ==
    /\ exit.alive /\ work[t].pc \in {"flush", "post"}
    /\ state' = [state EXCEPT !.run = RunAfterFailure]
    /\ exit' = [exit EXCEPT !.failed = @ \/ t = Finalizer]
    /\ Done(t)
    /\ UNCHANGED <<wrapped, usage, sent, completions, operations, begun, replaced>>

\* The process has nothing left to do: beforeExit, once, then the end.
BeforeExit ==
    /\ exit.alive /\ exit.handler = "armed"
    /\ \A t \in Tasks : work[t] = NoWork
    /\ exit' = [exit EXCEPT !.handler = "ran"]
    /\ IF state.run = 0 THEN UNCHANGED <<state, usage, sent, completions, begun, replaced, work>>
       ELSE Judge(Finalizer, FALSE, FALSE)
    /\ UNCHANGED <<wrapped, operations>>

Exit ==
    /\ exit.alive /\ exit.handler # "armed"
    /\ \A t \in AllTasks : work[t] = NoWork
    /\ exit' = [exit EXCEPT !.alive = FALSE]
    /\ UNCHANGED <<wrapped, state, usage, work, sent, completions, operations, begun, replaced>>

\* SIGINT starts completeRun() and ends the process at once.
Interrupt ==
    /\ exit.alive
    /\ exit' = [exit EXCEPT !.alive = FALSE, !.interrupted = TRUE]
    /\ UNCHANGED <<wrapped, state, usage, work, sent, completions, operations, begun, replaced>>

EmitterNext ==
    \/ \E t \in AllTasks :
         \/ StartRun(t) \/ MarkHandoff(t) \/ RecordProviderUsage(t) \/ EmitOwnEdge(t)
         \/ CallProvider(t) \/ ProviderAnswers(t) \/ ProviderFails(t) \/ EmitLlmHop(t)
         \/ CompleteRun(t) \/ Post(t) \/ PostAnswered(t) \/ PostFails(t)
    \/ BeforeExit \/ Exit \/ Interrupt

EmitterSpec == EmitterInit /\ [][EmitterNext]_emitterVars

(***************************************************************************)
(* Properties.                                                             *)
(***************************************************************************)
\* Every run that was started and is not the current one was replaced by
\* another startRun(), or a request to complete it was answered, or it began
\* while a task waited for the answer about another run and was forgotten with
\* it.  The exit handler leaves a run open only when it is cut off by a signal
\* or its request fails.
RunsAccounted ==
    /\ \A r \in 1..begun :
         \/ r = state.run
         \/ r \in replaced
         \/ \E c \in completions : r = c.posted \/ (r = c.forgot /\ c.judged # r)
    /\ ~exit.alive /\ exit.handler # "none" /\ state.run # 0 => exit.interrupted \/ exit.failed

\* The tokens of an LLM call are counted by at most two edges, and by two only
\* when its own hop has them and another edge, without tokens, takes the usage
\* that was recorded for the same call and not consumed.
OnlyHopRecounted ==
    \A i, j \in DOMAIN sent :
      i < j => /\ sent[i].own # 0 => sent[i].own # sent[j].own
               /\ sent[i].attached # 0 => sent[j].attached # sent[i].attached

\* In mode min, a run completed as a success under the gate has a hop below the
\* accept level only when the hop was emitted after the gate had judged, while
\* the flush was awaited, or under another start of the run, or when the run
\* itself began in that wait.
SuccessOverLowHop ==
    GateMode = "min" =>
      \A c \in completions :
        c.status = "success" /\ c.gated =>
          \A i \in DOMAIN sent :
            sent[i].run = c.posted /\ sent[i].conf < AcceptLevel =>
              i > c.edges \/ sent[i].epoch # c.epoch
=============================================================================

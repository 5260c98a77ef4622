# Verification of blamr

TLA+ models of blamr, the TLC configurations that check them and the TLAPS
proofs about them. blamr watches multi-agent AI workflows: agents emit one
*causal edge* per hop, a pipeline stores the edges, and when a run completes it
computes which agent is to blame for a failure.

```
 agent ── SDK transport ──HTTP──> ingest ──> edges.raw ──────> edge writer ──> ClickHouse causal_edges
   │       (memory, disk)           │                            │                 │ read
   │                                │                            └─ goal in Redis  │
   └─ completeRun() ───HTTP─────────┴──> runs.completed ─> aggregator              v
                                                 └─> blame.needed ─> blame processor ──> Postgres
                                                                        └─> blame.completed, Redis
                                              API (REST, SSE) <── Postgres, ClickHouse, Redis
                                              dashboard <── API
```

Run everything in this directory: `tlc -config X.cfg M`, `tlapm M.tla`.
`PROJECT.json` lists the runs, the source lines of every definition, the
hazards, the theorems and the findings.

* [Inventory](#inventory): the parts of the system and what is hard about them
* [Modules](#modules) and how their state and actions correspond to the code
* [Runs](#runs): instances, bounds, properties, fairness
* [Findings](#findings): where documentation and code disagree
* [Proofs](#proofs): what is proved, and how
* [Not modelled](#not-modelled)

## Inventory

| Component (source) | State | Operations | Hard behaviours | What makes it correct |
|---|---|---|---|---|
| TypeScript SDK transport (`packages/sdk-ts/src/transport.ts`) | memory queue, batch in flight, two timers, a directory of JSONL files | `send`, `flush`, `close`, timers, spill, prune | overlapping flushes and scans, lost answers, full or failing disk, exit | nothing vanishes unaccounted; memory keeps order; only the disk queue repeats; flush returns |
| SDK emitter (`packages/sdk-ts/src/index.ts`) | current run, hop index, hops, queue of LLM usage, exit handlers | `startRun`, `markHandoff`, `emitEdge`, `completeRun`, `attachRun`, wrapped clients | the run is read and cleared after awaits; tasks share one queue of usage | a run that was started is completed or replaced; tokens are counted once |
| Tracing (`trace.ts`, `lineage.ts`, `sdk-py/.../trace.py`) | stack of calls, registries of values | `blamrTrace`, `runTraced` | concurrent asynchronous calls, calls that outlive who made them, exceptions | a call's parent is its caller; sources are values of the same call tree |
| Python SDK transport (`packages/sdk-py`) | queue, files, two threads | `send`, `flush`, `close` | two threads and the program write and scan the files; lost answers; exit while the queue is not empty | order and single delivery but for the disk; a failed POST is kept |
| MCP proxy (`adapters/mcp/blamr_proxy.py`) | pending calls by request id | two pump threads | ids that both sides use, exit with calls pending | one hop per answered call, made of its answer |
| Edge writer (`apps/workers/src/workers.service.ts`) | buffer, timer, inserts under way, consumer offset | `eachMessage`, `flush`, join | unawaited timer flushes, put-back after an error, offsets committed before the insert | an edge handed over is kept until stored; duplicates only for a known reason |
| Run aggregator (same file) | consumer offset | `eachMessage` | redelivery of a message already sent | every completion is forwarded |
| Blame processor (`apps/workers/src/blame-processor.service.ts`) | consumer offset, two Postgres rows per run | `eachMessage` → `processRun`, two upserts, announcement | late edges, errors between the upserts, a replica that goes on after a rebalance | the two rows agree and converge to the last completion; an announced report exists |
| What the processor computes (`packages/types`, `blame`, `ml`) | none | gate, layout, chain, weights, hints, fusion | boundaries, parallel hops, rounding, the gate evaluated in two places | one root; weight is moved and not made; SDK and worker agree on the status |
| Semantic drift (`packages/semantic`) | run goal in Redis | enrichment at flush and at processing | check-then-set of the goal with awaits in between | all hops are measured against one goal |
| Rust blame engine (`packages/engine`) | walk queue, scores | one request | cycles | the walk ends; shares add up |
| Ingest (`apps/ingest/src`) | key cache, counters | `POST /edges`, `POST /runs/:id/complete` | stale cache, lost answers | a revoked key is refused in the end |
| API accounts (`apps/api/src/modules/users`, `auth`) | users, workspaces, members, invites, tokens | register, log in, invite, accept, change role, remove, switch | check-then-act across queries, no transactions | a workspace keeps an admin; an invite is used once; an account has a workspace |
| API keys (`keys`, `workspace`, `auth/api-key.guard.ts`) | keys, two cache entries per key | create, revoke, rotate, authenticate | cache keys that differ, a fill that crosses a revocation, partial rotation | revocation takes effect; a rotated key has a successor |
| API settings (`workspace`) | one JSON document per workspace | read, merge, save; bootstrap | lost updates | a field nobody named stays |
| Hop replay (`packages/replay`, `runs.service.ts`) | stored replays | counterfactual and LLM replay | hops named by an index that siblings share | what is replayed unedited is what was recorded |
| Dashboard (`apps/web/src`) | session, answers shown, requests under way, address and history, open panels | hooks, feed, settings form, wizard, navigation, page of a run | answers out of order, switches of workspace, back and reload, cards that React keeps | what is shown belongs to the workspace, the query and the run it is shown for |
| Live feed (`live-publisher.ts`, `live.controller.ts`, `useLiveFeed.ts`) | subscriptions, latest events | publish, subscribe, show | no replay; a switch of workspace | events shown are of the workspace |
| Workflows, agents, metrics, webhooks of the API | tables | single queries | none | |
| Samples, training, deployment, marketing site | | | | |

Components interact by HTTP (SDK → ingest, dashboard → API), by Kafka topics
keyed by workspace (`edges.raw`) or by run (the others), by rows in ClickHouse
and Postgres, by keys and publications of Redis.

## Modules

| Module | Models | In |
|---|---|---|
| `Outbox` | what a delivery queue promises (abstract) | refined by `Transport`, `EdgeWriter` |
| `Transport` | class `BlamrTransport`, asynchronous mode | own runs, `MCReports` |
| `ConsumerGroup` | one partition seen by a kafkajs group (external) | `EdgeWriter`, `BlamePipeline` |
| `EdgeWriter` | `ClickHouseWriterService` | own run |
| `BlamePipeline` | `RunAggregatorService`, `BlameProcessorService`: control | own runs, `MCAgentSide` |
| `ConfidenceGate` | the gate: SDK and workers evaluate the same rule | `Emitter`, `Reporting` |
| `Emitter` | `BlamrEmitter`, wrapped clients, exit handlers | `AgentSide` |
| `Trace` | traced functions, TypeScript and Python | `AgentSide` |
| `PyTransport` | transport of the Python SDK | `AgentSide` |
| `McpProxy` | the MCP proxy | `AgentSide` |
| `Accounts`, `Settings` | services of the API that write | `MCAgentSide` |
| `ApiKeys` | keys, their caches, rotation | `MCConsole` |
| `CausalEdges`, `BlameScores`, `DriftHints` | operators on the edges of a run | `Reporting` |
| `Reporting` | `processRun()`: data; replays of a stored report | `Reports` |
| `RunGoal` | the goal in Redis between flushes and processing | `Reports` |
| `Topology`, `Explanations`, `HopReplay` | diagrams, explanations, one LLM replay | `RunDetailView` |
| `RunDetailView` | the page of a run and its replay panels | `Reports` |
| `Dashboard` | session, hooks, feed, settings form, wizard | `Console` |
| `PageRoute` | pages, addresses, browser history | `Console` |
| `BlameEngine` | the Rust engine | `Console` |
| `SequenceRanges` | lemmas on the elements of sequences | proof modules |
| `*_proofs` | theorems about the module of that name; `AgentSide_proofs`, `Console_proofs` and `Reports_proofs` about the modules it composes, `ApiServices_proofs` about `Accounts`, `ApiKeys` and `Settings` |
| `MCAgentSide`, `MCReports`, `MCConsole` | instances for TLC of `AgentSide`, `Reports` and `Console` with other modules | own runs | |

Definitions named "Variant of ..." are the changed forms of code used to see that
each property can fail; no specification uses them.

`AgentSide`, `Reports` and `Console` put components side by side that **share no
variables**. Each property reads the variables of one of them, to which the steps
of the others are stuttering. The product of their states would only repeat that,
so an instance picks in `area` the component whose steps it explores, while the
others stay in an initial state. An area may also confine its component further
(for instance, the dashboard's lists with no run open); each such conjunct is in
the composing module with the constants of the instance. The three `MC` modules do
the same once more (`part`): one run of TLC explores `AgentSide`, `Accounts`,
`Settings` and `BlamePipeline`, one `Reports` and `Transport`, and one `Console` and
`ApiKeys`, one after the other; which are explored together says nothing about the
system. A component that stays in its initial state has no fair action to take
there, so that no liveness property holds for want of fair behaviours.
Components that do interact are in one module: the aggregator, the topic and the
replicas of the processor in `BlamePipeline`; session, hooks and wizard in
`Dashboard`; the page with the API's replays in `RunDetailView`; the edge
writer's flushes, the processor and Redis in `RunGoal`; the API, the ingest and
their cache in `ApiKeys`; SDK, workers and settings in `Reporting`.

### Transport

A request is the number of its `send()`. `memory`, `timer` and `closed` are the
fields of the class. `batch` is what `flushMemory()` spliced and has not
finished, its head being in flight, and `owner` is who runs it, so that
`this.flushing` is `owner # None`. `disk` maps a file to its lines. Each run of
`flushDiskToNetwork()` is a `scan`: the files still to read, the file it reads,
and the lines it has still to send, the head being in flight. Runs started by
the interval (`Ticks`) overlap each other and those of `flush()` callers. A
step goes from one await to the next, as JavaScript runs it: `Send`,
`TimerFire`, `Flush`, `Close`, `MemoryPost` (the answer to a POST of
`flushMemory`, with the spill and the end of the batch), `Tick`, `DiskPost`
(the answer to a POST of a scan, with the unlink and the reading of the next
file) and `Restart`. A POST ends `ok`, `lostReply` (the ingest has it, the
client sees an error) or `fail`; the ingest may refuse some requests for ever
(`Rejected`); file operations may fail (`DiskFails`).

Abstracted: the size of a file is its number of lines; two files made in the
same millisecond keep the order of their creation; an append or a read is all
or nothing; an empty `queueDir` behaves as a disk that always fails; two
processes do not share a queue directory.

### EdgeWriter

An edge is its offset. `buffer` and `timer` are the fields of the service;
`inserting` has one entry for the flush that the message handler waits for and
one for each timer flush under way. `FlushEnd` is the end of the awaits of
`flush()`, enrichment and insert taken as one, with the three outcomes above.
`Commit`, `Rejoin` and `Exit` are what the broker and the process may do.
`fromBeginning: false` is modelled: a group without a committed offset starts
from the end of the partition, so that edges published before are lost.
A rebalance while the handler waits for its insert is left out here; what a
consumer does that lost its partition during a message is in `BlamePipeline`.

### BlamePipeline

A completion is its position in `runs.completed`; an edge is its hop index.
`aggregator` is the relay, `handler` what each replica of the processor does:
`fetch`, `saveRun`, `saveReport`, `announce`, one step per await. A row is the
event it was made from, the edges used and whether the run failed, including
the confidence gate. `layout` is the part of the run's row that only the first
insert sets. A replica that loses the partition (`Lose`) goes on with its
message while another takes over. Groups have committed before (`Resuming`):
skipping by `fromBeginning: false` is studied in `EdgeWriter`. A committed
offset only matters to a consumer that joins, so that it is chosen when one
leaves.

### The agent's side: Emitter, Trace, PyTransport, McpProxy

`Emitter`: an emitter shared by asynchronous tasks. A task runs from one await
to the next; `work` says what each waits for. Runs and LLM calls are numbered. `state`
is the object of the class, `usage` its queue of provider usage, `exit` the two
exit handlers. `wrapped` is the hidden emitter that `wrapClient()` makes, which
the program cannot reach: only wrapped calls and the exit handlers use it. The
transport is `send()` that returns at once and `flush()` that is a wait; what
these do is `Transport`. The gate is `ConfidenceGate`, in whole percents.

`Trace`: in TypeScript one `traceStack` for the process, and calls that wait for
each other at any depth or not at all: a function may be over before the traced
calls it made, and what it left running may make more. In Python there is a stack
per thread and a call blocks its caller (`sdk` picks one); the contexts that
asyncio copies for its tasks are left out. A value stands for the call that
returned it. A call enters, emits its hop, registers its value and leaves, and may
throw instead. `overlapped` remembers that calls did not nest.

`PyTransport`: the three that handle requests — the sender thread (`poster`),
the thread that posts files again, and the program in `flush()` and `close()` —
step by step between lock operations and requests. A request that finds memory
full, in the program, or whose POST raised, in the sender thread, goes through
`enqueue()`: the files are listed under the lock (`ListToPrune`), their sizes are
asked for, which raises when a scan has removed one (`StatRaises`), the oldest are
deleted and the file is created (`CreateFile`), and the line is written
(`WriteFile`). Any other error of the body or of the file system is
`EnqueueRaises`, at each of these points and with whatever part of the line is
left. No scan takes the lock: it may read, and remove, a file that is still empty
(`text` says what a file holds). A POST that raises (`Raises`) may have reached
ingest. `Kill` is the end of the process with daemon threads.

`McpProxy`: two pumps, one step per line relayed. `pendingCall` is
`session.pending`; both sides number their own requests, so that a request of
the server can have the id of a call that waits.

### The API: Accounts, ApiKeys, Settings

A request goes from one database or cache call to the next; concurrent requests
interleave there, no service uses transactions, and a query may fail
(`MaxErrors`, `MaxKeyErrors`). `Accounts` has every request that writes, with the unique
constraints of the tables and with tokens, which keep the role they were issued
with. `ApiKeys` has a key's row and its two cache entries: the ingest caches
under the prefix, the API under the key id, and a revocation deletes the latter.
`Settings` has the JSON column, `updateSettings` as read, merge and save, and
the row that each API process makes sure of when it starts.

### Reports: what the processor computes, and how it is shown

`Reporting` has `processRun()` with its data: an SDK completes a run under its
gate, some edges are missing when they are fetched, hints and ML change or judge
them, the gate is resolved and evaluated again, shares are computed, fused,
ranked and stored, and a report is replayed with another output or with none
changed. Every await that brings data from elsewhere is a step with any answer.
`CausalEdges` has layout and chain, `BlameScores` the shares, `DriftHints` what
models say. Integers stand for the code's floating-point numbers: weights in
thousandths, truncated where the code divides, shares in tenths of a percent, as
the code rounds them. Embeddings and the classifier are external: their answers
are attributes of an edge, or chosen. Texts are kinds (`json`, `error`, `blank`,
...), told apart as the code's tests on them do.

`RunGoal` has the passes over a run's edges that look for its goal in Redis, one
step per await: flushes of the edge writer, the blame processor, and the ML that
sets the goal without looking. `Topology` has the columns of both diagrams;
`Explanations` which sentence is chosen for a hop, by each of the four views, of
its own context; `HopReplay` provider, messages, context and result of an LLM
replay. `RunDetailView` composes these with the page: the address, the fetch,
the tabs, the cards of hops that React keeps when another run has one with the
same key, their panels, and the requests of the API, answered in any order.

### Console: Dashboard, PageRoute, BlameEngine

`Dashboard`: a step is an event and the effects React runs after it.
`requests` has, per hook, those under way, each with the token it was sent
with; `content` what is shown, of whom and of what; `feed`, `form` and `wizard`
are the components that keep data of a workspace. A token names a workspace;
it changes by a switch or by signing in.

`PageRoute`: the page that `AuthenticatedApp` holds and the history of the
browser with the addresses pushed; the parts of an address are encoded and
decoded (`Encoded`, an injective function; no id is the mark of a missing one). Going back and forward and
reloading read the page back.

`BlameEngine`: one request with any small graph; `Visit` takes a node off the
queue of `backward_bfs`, `Sample` is an iteration of the Monte Carlo estimate,
with any permutation, `Respond` the report. Scores are in ten-thousandths and
stop at `ScoreLimit`, where the code's grow on.

## Runs

| Run | Instance | Shows |
|---|---|---|
| `Transport_liveness.cfg` | 2 overlapping interval runs, one refused request, 1 restart; 29,606 states | flush returns, an armed timer drains memory, deliverable files drain |
| `Transport_FlushDrains.cfg` | violation | `flush()` returns while a timer's batch is in flight |
| `Transport_MemoryDrains.cfg` | violation | a request pushed during a flush stays in memory |
| `EdgeWriter.cfg` | 3 edges, flush at 2 (both ways to flush happen), 2 overlapping timer flushes, 1 rebalance, 1 exit; 141,408 states | repeats have a cause, all edges settle, refinement of `Outbox` |
| `BlamePipeline_liveness.cfg` | 1 hop, sends and writes that fail; 93,254 states | every completion ends in a report or is given up |
| `BlamePipeline_LoadsAllEdges.cfg` | violation | a report made from part of a run's edges |
| `MCAgentSide.cfg` | SDKs and proxy: 2 tasks, 3 runs, 4 operations, confidences under and over the level, gate `min`; 3 traced calls; 3 Python requests with memory for 2 and a disk for 1, 1 POST that raises, 1 error of `enqueue()`; 2 ids, 3 tool calls. API: 3 persons, 2 slugs, 2 clients, 3 requests, 1 error; 2 fields, 1 workflow, 2 editors, 3 edits. Pipeline: 1 run of 2 hops, the last one weak, gate `final`, 2 completions, 2 replicas, 2 reads, all outcomes, 1 loss. 3,151,971 states | SDKs and proxy under overlap; accounts and settings without transactions; a run's two rows agree, converge, cover what had landed |
| `MCReports.cfg` | Reports: 8 shapes of hops, up to 3 per run, 1 missing edge; 3 passes in 2 slots; all small paths and three special runs, 2 visits, 2 panels, 2 calls. Transport: 3 requests, queue of 3 (a spill of the whole queue happens), disk of 1 line (pruning happens), 1 interval run, 1 caller, all outcomes, failing disk, 1 restart. 648,696 states | data of a report and of its page; order, repeats, what a lone flush does, refinement of `Outbox` |
| `MCConsole.cfg` | Console: 2 workspaces, one empty, 2 queries, 2 runs, 3 requests; history of 3; 3 agents, 3 edges, 1 iteration. Keys: 3 keys, 2 managers, 1 caller, 1 error. 178,600 states | dashboard, addresses, engine, keys |
| `Trace_HopsNameCallers.cfg` | violation | a TypeScript hop whose `from_agent` is its own agent |
| `PyTransport_FailedPosts.cfg` | violation | a failed POST whose file a scan removes before it is written; no error, room on the disk |
| `BlameEngine_SuccessHasNoRoot.cfg` | violation | a success of two agents with a root |

What each property says, in short. Most have the form *this goes wrong only
for one of these reasons*: the code does let it go wrong, and the property
bounds how.

* `Transport`. `ImplementsOutbox`: what stops being queued has been delivered or
  given up, and nothing else is delivered. `UnspilledInOrder`:
  requests that never touched the disk arrive in order. `RepeatsWereSpilled`:
  only the disk queue repeats. `FlushAloneDrains`: a `flush()` that found no
  other `flushMemory()` has drained memory on its return. `FlushReturns`,
  `ArmedTimerDrains`, `DiskDrains`: liveness.
* `EdgeWriter`. `RepeatsExplained`: two rows mean a refused insert or a
  redelivery. `ImplementsOutbox`: an edge is to be fetched, buffered or being
  inserted until it is stored or given up. `EdgesSettle`: every edge is stored,
  lost with the process, or waits as a refused one.
* `BlamePipeline`. `RowsAgree`: the two rows of a run come from the same event
  and edges, and what was announced is there. `Converged`: when all is handled,
  they are those of the last completion. `NoStaleOverwrite`: a row goes back
  only after a redelivery. `CoversLanded`: a report misses no edge that had
  landed when the completion was forwarded. `CompletionsSettle`: liveness.
* `Emitter`. `RunsAccounted`: a run that was started is current, answered,
  replaced, or forgotten in the wait for another one's completion; at exit it is
  left open only by a signal or a failed request. `OnlyHopRecounted`: an LLM
  call's tokens are counted twice only by its own hop and one other.
  `SuccessOverLowHop`: a success passes a hop under the level only when that
  was emitted after the gate had judged.
* `Trace`. `TracesNest`: a frame for each call under way; without overlap, and
  always in Python, sources are values of the same outermost call; in Python
  `from_agent` is the caller. `HopsNameCallers` claims the latter of both
  languages.
* `PyTransport`. `DisorderWasSpilled`: repeats and overtaking need a file, also
  when answers are lost. `LossExplained`: while the process lives a request is lost
  only by pruning, by an error of `enqueue()`, or by a scan of the files during
  `enqueue()`. `FailedPostsAreQueued` claims that nothing is lost when there is
  room and no error.
* `McpProxy`. `ProxiedCallsHaveHops`: an answered call has one hop made of its
  answer, unless a request of the server used its id; a success hides no error.
* `Accounts`. `AdminLostByOverlap`, `DuplicateInvites`, `StrandedExplained`: the
  last admin goes, an invite is doubled, an account has no workspace only by an
  overlap or an error. `ApiKeys`. `RevokedIsRefused` (liveness): whatever fill of
  the cache crosses a revocation, the key is refused in the end.
  `RotatedHasSuccessor`: one error costs at most one key. `Settings`.
  `ForeignFieldKept`: a setting an update does not name changes only when it
  overwrites a change made after its read.
* `Reporting`. `VerdictsAgree`: a success of the SDK is reported as failed only
  for the named differences between the two evaluations of the gate.
  `ShiftsConserve`: moving weight makes none, but for edges of three sources or
  more. `OneRoot`: ranked shares that add up, one root of a failure, none of a
  success. `NoChangeNoDiff`: a replay that changes nothing shows no difference,
  but for named reasons. `RunGoal`. `GoalExplained`: one goal for all hops unless
  passes overlapped or the key expired.
* `RunDetailView`. `ViewsAgree`: the places of the page tell the same of a hop.
  `PanelIsHome`: a panel shows and asks with what belongs to its run and hop.
  `ReplaysAreFaithful`: provider and text of an unedited replay are the hop's.
* `Dashboard`. `ShownIsCurrent`: a page at rest shows what its query, run and
  workspace say. `SavedAtHome`: profiles are saved to the workspace they came
  from. `PageRoute`. `AddressRestores`: an address leads back to what was on
  show. `BlameEngine`. `WalkEnds` (liveness): where no cycle leads to the terminal
  a request is answered, however often agents are visited again, with shares that
  add up. `SuccessHasNoRoot` claims that a success has no root.

**Bounds.** The interesting conflicts are between two flushes, two scans, two
batches, two completions, two replicas, two requests, two editors or two
panels, and one failure or exit at each point; the instances have one more
request, edge or call than the limit that makes the code spill, prune, flush or
wait. `Accounts` has three persons and three requests because losing the last
admin takes two admins that act on each other, and a doubled invite needs a third
person. `Reports` has the shapes of hops that the rules of the
code tell apart, and three of them in a run, because rules look at a hop, the one
before and a sibling. `Console` has as many agents and edges as a cycle beside a
path to the terminal needs. A second loss in `BlamePipeline` did not fit; what
is proved holds for every number of losses.

**Stopping.** `CHECK_DEADLOCK FALSE` stands where the bounds or the end of a
process stop the system: all requests made, the program ended, the walk
answered.

**Fairness.** `Transport`: timers fire and POSTs end (the runtime promises
both); `DiskDrains` also assumes that the ingest accepts, in the end, a request
that is re-sent again and again, unless it refuses it for what it is. Sending,
flushing, closing and exiting are never assumed. `EdgeWriter`: the process
starts, messages are handed over, timers fire, inserts end, and an insert that
is tried for ever succeeds. `BlamePipeline`: a free partition finds a replica,
messages are handed over, awaits end, and a send that kafkajs retries for ever
succeeds; no edge has to land and no write of the processor has to succeed.
`ApiKeys`: a check that was begun ends, and a cache entry expires, as its
lifetime says; nobody has to revoke, and an invalidation may never come.
`BlameEngine`: the engine runs on. The rebalances, exits and errors are bounded,
which stands for "finitely many".

## Findings

Five statements of the documentation and one of a test do not hold of the code;
`PROJECT.json` quotes them.

1. `flush()` does not drain the memory queue when a timer's flush is in flight
   (`transport.ts:107`), so that `completeRun()` may signal the completion of a
   run before its edges have left the process.
2. The background timer is swallowed by a flush in progress
   (`transport.ts:101`): what was enqueued meanwhile waits for another `send()`.
3. The blame processor does not load all edges of a run: it stops at the first
   read that returns any (`blame-processor.service.ts:111`), and without
   semantic drift the aggregator does not wait (`workers.service.ts:128`).
4. The TypeScript wrappers do not give a hop its caller: `parentAgent()` is asked
   when the frame of the call itself has been pushed (`trace.ts:117`), so that
   without overlap `from_agent` is the agent of the hop. Python asks before.
5. A failed POST of the Python SDK may be in no queue: a scan takes no lock, finds
   the new file empty and unlinks it before the line is written
   (`transport.py:169`).
6. A success has a root: the test for "no root" (`blame.rs:104`) asks for shares
   that are all under 1%, and the shares are scaled to 100%. A test of the same
   file (line 254) asserts the opposite of a success of two agents.

Beside these, `brd.md:284` has the Rust engine take a run and return a report. It
does not if a cycle leads to the terminal, as an edge of an agent to itself is one:
the walk queues agents that it has visited (`graph.rs:78`), and nothing keeps cycles
out. `WalkEnds` is therefore about graphs in which none does.

The hazards of `PROJECT.json` name what else the models show to be possible: each
"only for" above is a way in which the code does get there.

## Proofs

Proved by `tlapm` with SMT, Zenon and, for the last, temporal step, LS4. Every
theorem is about the specification that TLC checks, for all values of its
constants; assumptions are those named in the component, which TLC evaluates in
its runs.

| Module | Assumes | Theorems | States the property |
|---|---|---|---|
| `Transport_proofs` | `TransportAssumption` | `TypeCorrect`, `Refinement`, `ArrivesInOrder`, `OnlyDiskRepeats`, `LoneFlushDrains` | `TypeOK`, `ImplementsOutbox`, `UnspilledInOrder`, `RepeatsWereSpilled`, `FlushAloneDrains` |
| `EdgeWriter_proofs` | `EdgeWriterAssumption` | `WriterTypeCorrect`, `RepeatsAreExplained`, `WriterRefinement` | `TypeOK`, `RepeatsExplained`, `ImplementsOutbox` |
| `BlamePipeline_proofs` | `BlamePipelineAssumption` | `RowsAlwaysAgree`, `ReportsCoverLanded`, `QuietRowsConverged`, `RowsMoveForward` | `RowsAgree`, `CoversLanded`, `Converged`, `NoStaleOverwrite` |
| `AgentSide_proofs` | `EmitterAssumption`, `TraceAssumption`, `PyAssumption` | `EveryRunAccounted`, `TokensCountedOnce`, `SuccessesAreJudged`, `CallsNest`, `DiskCausesDisorder`, `LossesHaveReasons`, `CallsHaveHops`, `AgentSideApart` | `RunsAccounted`, `OnlyHopRecounted`, `SuccessOverLowHop`, `TracesNest`, `DisorderWasSpilled`, `LossExplained`, `ProxiedCallsHaveHops` |
| `ApiServices_proofs` | `AccountsAssumption`, `ApiKeysAssumption` | `InvitesDoubleOnlySo`, `ErrorsStrand`, `LastAdminOvertaken`, `RotationReplaces`, `SettingsKept` | `DuplicateInvites`, `StrandedExplained`, `AdminLostByOverlap`, `RotatedHasSuccessor`, `ForeignFieldKept` |
| `Console_proofs` | `DashboardAssumption`, `RouteAssumption` | `PagesShowTheirs`, `ProfilesSavedAtHome`, `AddressesRestore`, `ConsoleApart` | `ShownIsCurrent`, `SavedAtHome`, `AddressRestores` |
| `Reports_proofs` | `GoalAssumption`, `DetailAssumption`, `ReportingAssumption` | `OneGoal`, `PanelsAtHome`, `ReplaysFaithful`, `ReportingNoChangeNoDiff`, `ReportingShiftsConserve`, `ReportingOneRoot`, `ReportingVerdictsAgree`, `ViewsAlike`, `ReportsApart` | `GoalExplained`, `PanelIsHome`, `ReplaysAreFaithful`, `NoChangeNoDiff`, `ShiftsConserve`, `OneRoot`, `VerdictsAgree`, `ViewsAgree` |
| `SequenceRanges` | nothing | lemmas on the elements of sequences | |

**`Transport_proofs`.** The inductive invariant `IInv` is
`TypeOK /\ ScanInv /\ Conserved` (`Inductive`). `Conserved` says that every request
is queued, delivered or given up and nothing else is delivered; it is what the
steps of `Outbox` need, and not inductive alone: when the last line of a scan is accepted its file is unlinked, or the
scan ends because another scan or the pruning has removed the file under it, and
nothing is lost only because of what the scan had read. `ScanInv` says that:
while its file is there, a scan has delivered those of the file's lines that it
no longer holds; once the file is gone, the lines it still holds have been
delivered or given up. Both need the types, for instance that nothing is in
flight when nobody owns the batch. The refinement follows step by step: an
action accepts one request, delivers at most one, or only discards; the lemma
`QueueStep` turns that into a step of `Outbox`.

The second half of the module adds, on top of `Inductive`, that batch and memory
form one line (`InLine`): both increasing, the batch before memory, and what
arrived without the disk before both; that what is read from files was written
to them (`FromDisk`); and what a flush has taken by the time it waits (`Taken`).
Order cannot be proved from what arrived alone: it is kept because a timer and a
`flush()` never own a batch at the same time.

**`EdgeWriter_proofs`.** `Copies` says that an edge in two places, twice in
one of them, or held and stored, was refused or fetched again (`Named`);
`PastAccounted` that every offset the group will not hand over again is held,
stored or given up. The second depends on what a consumer that joins would be
given (`Past`), which is why a rebalance without a committed offset loses edges.
Both, with the types, imply the repeats' explanation and every step of `Outbox`.

**`BlamePipeline_proofs`.** None of the four properties is inductive. The
invariant has five layers, each proved with those above it: *Base*, types and
offsets; *Lands*, what was read had landed; *Rows*, while no replica lost the
partition in the middle of a message, the owner alone is at work, on the last
message it took, and the rows it has written are what it computed; *Order*, while
nothing was repeated, `blame.needed` is increasing and the rows are older than
every message to come; *Progress*, what the aggregator has passed is in
`blame.needed` with nothing older behind it, and the last message of a run that
was handled is what its rows show. `Converged` needs the last three together:
the last message of a run is that of its last completion, and it is what the
rows show. A well-founded argument on offsets (`Greatest`) finds that message.

**`AgentSide_proofs`.** Of the emitter, first the gate alone: `PassedMin` says of `EvaluateGate`
in mode `min` that a run which passes has no hop below the accept level, for any
hops; that takes the least of a set of numbers, which exists by a well-founded
argument (`MinOfNats`). The invariant then has a layer per property over the
types: *Tokens*, a recorded usage is of a call whose usage no edge was given yet,
and the tokens a task holds are of a call without a hop; *Judging*, what a task
waits with was judged over every edge of that start of the run there was;
*Accounting*, a task that posts the completion of one run after having judged
another leaves the latter accounted for; *Finalizing*, when the exit handler has
run no task works, and a run is left only while it is being completed.

Of traced calls, `FramesCount` is an invariant whatever overlaps: a thread has
as many frames as calls that are not over. What a hop is told needs more: while
calls nest (`Nested`: always in Python, and in TypeScript until two overlapped
or one outlived the call that made it) the frames of a thread are its calls,
each made by the one below it, and only the top one is past its body
(`ChainOf`); hence the frame that `pop()` takes is the call's own. `calls`
carries the outermost call of each (`root`), so that no recursion is left: a
call has the root of its parent. Of the Python transport, the order of what
never had a file has to be kept across the requests that landed, the one in hand
and the queue (`InTurn`), and what scans hold had a file (`OnDisk`). That a
request is somewhere or has a reason not to be (`Whereabouts`) rests on what is
true between `CreateFile` and `WriteFile`: the thread that holds the lock still
has the request, and a scan beside it is on record (`LockHeld`); a file that is
blank at any other time is of a request with a reason (`BlankFiles`). Of the
proxy, the pending ids are those of the calls without an answer that were not
mistaken (`Matched`), and a call has its hop before its answer only if it was
(`HopsMade`).

**`ApiServices_proofs`.** Two of the properties count: one error costs at most one
account, and one key. `CountBound` turns that into a step: a step without an
error only shrinks the set, one with an error adds an element. For accounts that
needs what requests and rows have to do with each other: *Numbered*, each request
has a number of its own; *Rows*, rows of one number are of one user and workspace,
and a request that is to write has not counted a last admin; *Invites*, among the
invites that the check of another had seen was one that has expired; *Alone*, the
count. `LastAdminOvertaken` is about a step: a removal
that nobody overtook still reads the admins it has counted. `SettingsKept` needs
no more than an entry per editor (`EditorsKnown`): an update works on what it
read, which is either the row as it is or behind it.

**`Console_proofs`.** `ShownIsCurrent` speaks of pages with nothing under way; its
invariant (`Current`) has to speak of the others. A request for a page or a run
(`PagesRight`) is right as long as it is not cancelled. A hook's request need not
be: only the newest is (`HooksRight`), and only once the user is who the token
says, so that `TakeUser` must ask anew — which is right because a switch is never
to the user's own workspace (`Switches`). The wizard is not misled while all
metrics, asked for or shown, are of the token's workspace (`MetersRight`), which
ends with a switch. As every event ends in `Effects`, `CurrentStep` says once what
an event must leave for these to hold after its effects. `RouteIInv` says of every
entry of the history that its address is one that the code makes of a page, and
reads as what was on show if addresses can say that; the lemmas before it go
through the addresses that `HashOf` builds.

**`Reports_proofs`.** `GoalExplained` is about what was measured; its invariant
(`GoalInv`) is about what will be: while no passes overlapped there is one, and
as long as there is no goal, the first input that any pass had is the next one
of that pass, which is what it will set. `PanelIsHome` needs that no two panels
share an id, that the calls under way are of the run and card they were made for,
and that the API, which looks a hop up by its index, finds one at the index of the
card (`HopAskedFound`, of the first edge that passes a test). `ReplaysAreFaithful`
is a fact about each row when it is made (`RowProvided`, `RowSays`), kept by what
an unedited panel asks with being the input of its hop (`FromPanel`). It takes
`DetailAssumption`: keys are of the three providers the code knows, only an
input that is JSON is read as a conversation, the hops of a run come in the order
of their index, and `Alphabet` has a place for everyone who sends.

The properties of `Reporting` speak of what sorts and folds over the hops of a run
give. Most of their proof is about no state at all. `Ranks` says of any order that
tells things apart that taking the thing of rank *n* at place *n* lists each thing
once and in that order; with it every sort of the code is a list of known members
(`SortedByHop`, `RankedList`, `CollapsedAre`). `FoldExists` and `Folded` say once
that a fold of the community modules is an iteration over the sets `1..k`, by a
well-founded argument; each fold of the model then has a lemma that says what it
does step by step, of which the conserved or bounded quantity is an invariant
(`TotalExcept`). On these stand `LineageIs` and `ParallelIs`, what a
shift takes from whom; `PortionsSum`, that shares rounded to tenths add up to the
whole but for a tenth each; and `FusedRows` and its like, what ranking, mixing
and explaining leave alone.

The invariant, `ReportingInv`, then ties the stages together. *HopsInv*: the hops
are in order and no two have the same id. *FlagsInv*: what an SDK reported as a
success had passed its gate, and hints have cut nothing before they are made.
*EdgesInv*: the edges are derived from recorded hops (`Derived`: which fields hints
and reconciliation may change, and only then), and the ML's shares are of the
agents of these edges and add up to 1000. *ReportInv*: the rows are what
`Rows` makes of those edges, but for reasons that an LLM has replaced, and the
verdict is the gate's. None of the properties is inductive alone: `OneRoot` says
nothing of edges, and `VerdictsAgree` compares a report with a gate that was
evaluated several stages before, on hops some of which are gone. Its proof finds,
for each mode of the gate, a hop that both measured (`GatePasses`, `SameMeasure`).
`NoChangeNoDiff` compares rows made on two paths, of which each is shown to be
those of the stored hops (`NothingToShow`). It takes `ReportingAssumption`: an
edge's numbers are fractions, as the SDKs' signals are (`Edge`; the ingest takes
any numbers, of which nothing is proved), ids name one edge, and the classifier
answers with a class and a percentage.

`OneRoot` promises that shares add up only if some hop had influence: the proof
failed without that. If all influence scores are 0 then so are all weights, and
every share is 0, which no hop of the instance shows.

`ViewsAgree` has two halves. The diagrams agree because the columns are a fold
over the hops by index and name (`ColumnSteps`) that in an orderly run keeps every
agent that acts in the column of its first index (`OrderlyStep`), and in a single
file gives each hop's agents columns of their own (`FileStep`, `FileEnds`); a run
that is called linear and in which each hop goes on from the last is a single file
(`LinearFiled`). The explanations agree because, of an index analysed with one
result, the first and the last analysis are the same (`OneClass`), and where none
found drift no sentence but one depends on the class (`ExplainedAlike`).

`AgentSideApart`, `ConsoleApart` and `ReportsApart` say that every
behaviour of the composition that `AgentSide`, `Console` or `Reports` defines is one of each component, so that
what is proved of a component holds of it; of `RunDetailView` that is said but for
the area in which only the views of made-up runs (`MCPaths`) are compared.

**Only model-checked.** Liveness under fairness and `ENABLED`, which are out of
the prover's reach: `FlushReturns`, `ArmedTimerDrains`, `DiskDrains`,
`EdgesSettle`, `CompletionsSettle`, `RevokedIsRefused`, `WalkEnds`. Every safety
property that a run checks is proved.

## Not modelled

* *Ingest*: the rate limit per minute. The hash chain starts again with every
  request (`ingest.controller.ts:60`), whatever edges of the run came before:
  no property of a chain over requests is left to check.
* The counter of calls of a key (`api-key.guard.ts:66`), which is written back
  from a value read before an await: concurrent calls lose counts, and nothing
  depends on it.
* Edge ids made of the time in milliseconds (`sdk-ts/src/index.ts:302`): two
  edges of one millisecond get one id. Models number edges; that ids differ is
  assumed wherever an edge is named by one.
* A client that subscribes to the stream of a run after its announcement waits
  for ever (`runs.controller.ts:112`). The stream keeps no state to relate that to.
* Signal scorers, prices of LLM calls, feature extraction, embeddings, LLM
  calls and model training: functions of texts and of numbers, without state.
  One of them was met on the way: `cost.ts` finds a price by substring, so that
  the first entry that is part of a model's name wins.
* API of workflows, agents, metrics and webhooks: each operation is a single
  statement. Nothing in the repository delivers to the webhooks.
* The LangGraph, CrewAI and other adapters only wrap calls of the SDKs.
* Redis' publications and the event streams keep nothing but their subscribers;
  the dashboard's end of them is in `Dashboard`.
* Rendering, styles, static pages, samples, deployment.

What would come next: larger rosters of replicas with two losses for
`CompletionsSettle`, `Reporting` with weights in the code's floating-point
numbers, and the safety half of `BlameEngine` (its shares add up, one is the root)
as a theorem, for which its weights have to become functions on sets of paths.

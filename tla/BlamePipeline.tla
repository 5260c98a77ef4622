--------------------------- MODULE BlamePipeline ---------------------------
(***************************************************************************)
(* From a completed run to its blame report: RunAggregatorService          *)
(* (apps/workers/src/workers.service.ts) forwards each message of          *)
(* runs.completed to blame.needed, and BlameProcessorService               *)
(* (apps/workers/src/blame-processor.service.ts) reads the run's edges     *)
(* from ClickHouse, decides the run's status, writes workflow_runs and     *)
(* then blame_reports, and announces the report.                           *)
(*                                                                         *)
(* Every await that reads or writes shared state is a step of its own.     *)
(* A run's messages share a partition of both topics (the key is run_id):  *)
(* one partition of each is modelled, read by several replicas of the      *)
(* workers, of which one is assigned the partition at a time.  A replica   *)
(* that loses the partition while it handles a message goes on with it.    *)
(*                                                                         *)
(* An edge is its hop index.  How it gets into ClickHouse is the subject   *)
(* of EdgeWriter; here it lands at any time, before or after the run's     *)
(* completion is published.                                                *)
(*                                                                         *)
(* autoCommit stores an offset now and then.  Only a consumer that joins   *)
(* reads it, so that it is chosen when a replica leaves: any offset        *)
(* between the last one it had joined at and the messages it has handled.  *)
(***************************************************************************)
EXTENDS ConsumerGroup, Sequences, FiniteSets, FiniteSetsExt

CONSTANTS
  RunIds,       \* run ids
  Hops,         \* hop indexes of a run, a set of naturals
  Weak,         \* hops whose confidence_out is below the accept level
  RunGate,      \* the run's gate: "none", "final" or "min"
  MaxEvents,    \* bound: completions the ingest publishes
  MaxAttempts,  \* reads of fetchEdges() before it gives up (15 in the code)
  Replicas,     \* instances of the workers
  Outcomes,     \* how a write may end, a subset of AllOutcomes
  MaxLosses     \* bound: exits, lost assignments and ambiguous sends in all

AllOutcomes == {"ok", "lostReply", "fail"}
None        == "none"
Event       == 1..MaxEvents

ASSUME BlamePipelineAssumption ==
  /\ Hops \subseteq Nat /\ IsFiniteSet(Hops)
  /\ Weak \subseteq Hops
  /\ RunGate \in {"none", "final", "min"}
  /\ MaxEvents \in Nat /\ MaxLosses \in Nat
  /\ MaxAttempts \in Nat \ {0}
  /\ None \notin Replicas
  /\ Outcomes \subseteq AllOutcomes

VARIABLES
  edges,      \* run -> hops with a row in causal_edges
  completed,  \* runs.completed: the events, in order
  aggregator, \* group "run-aggregator"; `busy` while a message is handled
  needed,     \* blame.needed: event numbers, in order
  group,      \* the consumer group "blame-processor"
  owner,      \* the replica that is assigned the partition, or None
  handler,    \* replica -> the message it is handling
  runRow,     \* workflow_runs
  layout,     \* workflow_runs: the hops its layout and complexity show
  reportRow,  \* blame_reports
  announced,  \* blame.completed: pairs of run and event
  covers,     \* history: event -> hops that had landed when it was forwarded
  dropped,    \* history: events whose processing was given up
  cut,        \* history: runs whose last processing ended between its writes
  repeats,    \* history: some message was, or may have been, delivered again
  contended,  \* history: a replica lost the partition while it was busy
  losses

topics  == <<completed, needed>>
rows    == <<runRow, layout, reportRow>>
history == <<covers, dropped, cut, repeats, contended, losses>>
vars == <<edges, topics, aggregator, group, owner, handler, rows, announced, history>>

-----------------------------------------------------------------------------
NoMessage == [stage |-> "idle", event |-> 0, attempt |-> 0, used |-> {}]
NoRow     == [event |-> 0, used |-> {}, failed |-> FALSE]

RunOf(i) == completed[i].run

(* evaluateConfidenceGate() over the hops that were read: the last one, or *)
(* every one, must reach the accept level.                                 *)
GateFails(used) ==
  \/ RunGate = "final" /\ Max(used) \in Weak
  \/ RunGate = "min" /\ used \cap Weak # {}

(* What computeFromEdges() makes of an event and the edges read for it: a  *)
(* gate that fails turns a success into a failure.                         *)
RowFor(i, used) ==
  [event |-> i, used |-> used, failed |-> completed[i].failed \/ GateFails(used)]

(* A group that has committed offsets before, in a deployment that has     *)
(* been running (what happens before the first commit is in EdgeWriter).   *)
Resuming == [NewGroup EXCEPT !.durable = TRUE]

(* The offset the broker has stored when the consumer of g leaves, while   *)
(* it handles a message or not.                                            *)
Stored(g, busy) == {g} \cup Commits(g, IF busy THEN g.next - 1 ELSE g.next)

Init ==
  /\ edges = [r \in RunIds |-> {}]
  /\ completed = <<>> /\ needed = <<>>
  /\ aggregator = [up |-> FALSE, busy |-> FALSE, group |-> Resuming]
  /\ group = Resuming
  /\ owner = None
  /\ handler = [w \in Replicas |-> NoMessage]
  /\ runRow = [r \in RunIds |-> NoRow] /\ reportRow = [r \in RunIds |-> NoRow]
  /\ layout = [r \in RunIds |-> {}]
  /\ announced = {}
  /\ covers = [i \in Event |-> {}]
  /\ dropped = {} /\ cut = {}
  /\ repeats = FALSE /\ contended = FALSE
  /\ losses = 0

-----------------------------------------------------------------------------
(* The edge writer stores an edge of the run, in any order.                *)
Land(r, h) ==
  /\ h \notin edges[r]
  /\ edges' = [edges EXCEPT ![r] = @ \cup {h}]
  /\ UNCHANGED <<topics, aggregator, group, owner, handler, rows, announced,
                 history>>

(* The ingest publishes a completion.  A run may be completed again: the   *)
(* SDK keeps the run id when the call throws.                              *)
Complete(r, failed) ==
  /\ Len(completed) < MaxEvents
  /\ completed' = Append(completed, [run |-> r, failed |-> failed])
  /\ UNCHANGED <<edges, needed, aggregator, group, owner, handler, rows,
                 announced, history>>

-----------------------------------------------------------------------------
(* The aggregator joins its group.                                         *)
AggregatorJoin ==
  /\ ~aggregator.up
  /\ aggregator' = [up |-> TRUE, busy |-> FALSE,
                    group |-> Joined(aggregator.group, Len(completed))]
  /\ UNCHANGED <<edges, topics, group, owner, handler, rows, announced, history>>

(* eachMessage begins, and sleeps for the settle time if there is one.     *)
AggregatorTake ==
  /\ aggregator.up /\ ~aggregator.busy
  /\ aggregator.group.next < Len(completed)
  /\ aggregator' = [aggregator EXCEPT !.busy = TRUE,
                                      !.group = Fetched(aggregator.group)]
  /\ UNCHANGED <<edges, topics, group, owner, handler, rows, announced, history>>

(* Variant of Forward: an error of the send is caught and forgotten.       *)
ForwardUnchecked(o) ==
  LET i == aggregator.group.next IN
  /\ aggregator.busy
  /\ aggregator' = [aggregator EXCEPT !.busy = FALSE]
  /\ \/ o # "fail" /\ needed' = Append(needed, i)
                   /\ covers' = [covers EXCEPT ![i] = edges[RunOf(i)]]
     \/ o = "fail" /\ UNCHANGED <<needed, covers>>
  /\ UNCHANGED <<edges, completed, group, owner, handler, rows, announced,
                 dropped, cut, repeats, contended, losses>>

(* The send to blame.needed ends.  An error makes eachMessage throw, and   *)
(* kafkajs hands it the message again, whether or not it was sent.         *)
Forward(o) ==
  LET i == aggregator.group.next IN
  /\ aggregator.busy
  /\ \/ o = "ok" /\ aggregator' = [aggregator EXCEPT !.busy = FALSE]
                 /\ UNCHANGED repeats
     \/ /\ o # "ok"
        /\ aggregator' = [aggregator EXCEPT !.busy = FALSE,
                                            !.group = Refetch(aggregator.group)]
        /\ repeats' = TRUE
  /\ \/ o # "lostReply" /\ UNCHANGED losses
     \/ o = "lostReply" /\ losses < MaxLosses /\ losses' = losses + 1
  /\ \/ /\ o # "fail"
        /\ needed' = Append(needed, i)
        /\ covers' = [covers EXCEPT ![i] = IF i \in Range(needed) THEN @
                                           ELSE edges[RunOf(i)]]
     \/ o = "fail" /\ UNCHANGED <<needed, covers>>
  /\ UNCHANGED <<edges, completed, group, owner, handler, rows, announced,
                 dropped, cut, contended>>

(* The aggregator exits, or loses its assignment between two messages.     *)
AggregatorExit ==
  /\ aggregator.up
  /\ losses < MaxLosses
  /\ losses' = losses + 1
  /\ repeats' = TRUE
  /\ \E g \in Stored(aggregator.group, aggregator.busy) :
       aggregator' = [up |-> FALSE, busy |-> FALSE, group |-> g]
  /\ UNCHANGED <<edges, topics, group, owner, handler, rows, announced,
                 covers, dropped, cut, contended>>
-----------------------------------------------------------------------------
Free(w)         == handler[w] = NoMessage
Doing(w, stage) == handler[w].stage = stage
Now(w)          == RunOf(handler[w].event)
Result(w)       == RowFor(handler[w].event, handler[w].used)
Go(w, stage)    == handler' = [handler EXCEPT ![w].stage = stage]
Finish(w)       == handler' = [handler EXCEPT ![w] = NoMessage]

(* eachMessage swallows whatever processRun() throws: the message counts   *)
(* as handled.                                                             *)
GiveUp(w) == Finish(w) /\ dropped' = dropped \cup {handler[w].event}

(* A replica joins the group and is assigned the partition.                *)
Join(w) ==
  /\ owner = None
  /\ owner' = w
  /\ group' = Joined(group, Len(needed))
  /\ UNCHANGED <<edges, topics, aggregator, handler, rows, announced, history>>

(* Variant of Take: a run's messages are not keyed, and every replica is   *)
(* handed some of them.                                                    *)
TakeUnkeyed(w) ==
  /\ owner # None /\ Free(w)
  /\ group.next < Len(needed)
  /\ group' = Fetched(group)
  /\ handler' = [handler EXCEPT ![w] =
                   [NoMessage EXCEPT !.stage = "fetch", !.event = needed[group.next + 1]]]
  /\ UNCHANGED <<edges, topics, aggregator, owner, rows, announced, history>>

(* eachMessage begins with the next message.                               *)
Take(w) ==
  /\ owner = w /\ Free(w)
  /\ group.next < Len(needed)
  /\ group' = Fetched(group)
  /\ handler' = [handler EXCEPT ![w] =
                   [NoMessage EXCEPT !.stage = "fetch", !.event = needed[group.next + 1]]]
  /\ UNCHANGED <<edges, topics, aggregator, owner, rows, announced, history>>

(* Variant of FetchEdges: some of the edges are read.                      *)
FetchSome(w) ==
  /\ Doing(w, "fetch")
  /\ \E some \in SUBSET edges[Now(w)] :
       some # {} /\ handler' = [handler EXCEPT ![w].stage = "saveRun", ![w].used = some]
  /\ UNCHANGED <<edges, topics, aggregator, group, owner, rows, announced,
                 history>>

(* One read of fetchEdges(): it returns as soon as there is any edge, and  *)
(* the run is skipped when there is none at the last attempt.              *)
FetchEdges(w) ==
  LET found == edges[Now(w)]
      tries == handler[w].attempt + 1 IN
  /\ Doing(w, "fetch")
  /\ \/ /\ found # {}
        /\ handler' = [handler EXCEPT ![w].stage = "saveRun", ![w].used = found]
        /\ UNCHANGED dropped
     \/ /\ found = {} /\ tries < MaxAttempts
        /\ handler' = [handler EXCEPT ![w].attempt = tries]
        /\ UNCHANGED dropped
     \/ found = {} /\ tries = MaxAttempts /\ GiveUp(w)
  /\ UNCHANGED <<edges, topics, aggregator, group, owner, rows, announced,
                 covers, cut, repeats, contended, losses>>

(* A read of fetchEdges() that throws.                                     *)
FetchFails(w) ==
  /\ Doing(w, "fetch") /\ "fail" \in Outcomes
  /\ GiveUp(w)
  /\ UNCHANGED <<edges, topics, aggregator, group, owner, rows, announced,
                 covers, cut, repeats, contended, losses>>

(* The upsert of workflow_runs, at the end of enrichment and analysis; a   *)
(* row that is there already keeps its layout and complexity.  An error    *)
(* anywhere since the fetch ends the processing.                           *)
SaveRun(w, o) ==
  /\ Doing(w, "saveRun")
  /\ IF o = "fail" THEN UNCHANGED <<runRow, layout>>
     ELSE /\ runRow' = [runRow EXCEPT ![Now(w)] = Result(w)]
          /\ layout' = [layout EXCEPT ![Now(w)] =
                          IF runRow[Now(w)] = NoRow THEN handler[w].used ELSE @]
  /\ cut' = IF o = "lostReply" THEN cut \cup {Now(w)} ELSE cut
  /\ \/ o = "ok" /\ Go(w, "saveReport") /\ UNCHANGED dropped
     \/ o # "ok" /\ GiveUp(w)
  /\ UNCHANGED <<edges, topics, aggregator, group, owner, reportRow, announced,
                 covers, repeats, contended, losses>>

(* Variant of SaveReport: the edges are read again for the report.         *)
SaveReportAnew(w, o) ==
  /\ Doing(w, "saveReport") /\ o = "ok"
  /\ reportRow' = [reportRow EXCEPT ![Now(w)] =
                     RowFor(handler[w].event, edges[Now(w)])]
  /\ Go(w, "announce")
  /\ UNCHANGED <<edges, topics, aggregator, group, owner, runRow, layout,
                 announced, history>>
(* The upsert of blame_reports.                                            *)
SaveReport(w, o) ==
  /\ Doing(w, "saveReport")
  /\ IF o = "fail" THEN UNCHANGED reportRow
     ELSE reportRow' = [reportRow EXCEPT ![Now(w)] = Result(w)]
  /\ cut' = IF o = "fail" THEN cut \cup {Now(w)} ELSE cut \ {Now(w)}
  /\ \/ o = "ok" /\ Go(w, "announce") /\ UNCHANGED dropped
     \/ o # "ok" /\ GiveUp(w)
  /\ UNCHANGED <<edges, topics, aggregator, group, owner, runRow, layout,
                 announced, covers, repeats, contended, losses>>

(* The send to blame.completed, and the publication on Redis after it.     *)
Announce(w, o) ==
  /\ Doing(w, "announce")
  /\ announced' = IF o = "fail" THEN announced
                  ELSE announced \cup {[run |-> Now(w), event |-> handler[w].event]}
  /\ Finish(w)
  /\ UNCHANGED <<edges, topics, aggregator, group, owner, rows, history>>

(* The broker takes the partition away: the session timed out, or a        *)
(* rebalance.  A message being handled is not interrupted.                 *)
Lose ==
  /\ owner # None
  /\ losses < MaxLosses
  /\ losses' = losses + 1
  /\ repeats' = TRUE
  /\ contended' = (contended \/ ~Free(owner))
  /\ owner' = None
  /\ group' \in Stored(group, ~Free(owner))
  /\ UNCHANGED <<edges, topics, aggregator, handler, rows, announced,
                 covers, dropped, cut>>

(* A replica exits, wherever it is.                                        *)
ReplicaExit(w) ==
  /\ owner = w \/ ~Free(w)
  /\ losses < MaxLosses
  /\ losses' = losses + 1
  /\ repeats' = TRUE
  /\ \/ owner = w /\ owner' = None /\ group' \in Stored(group, ~Free(w))
     \/ owner # w /\ UNCHANGED <<owner, group>>
  /\ cut' = IF Doing(w, "saveReport") THEN cut \cup {Now(w)} ELSE cut
  /\ Finish(w)
  /\ UNCHANGED <<edges, topics, aggregator, rows, announced,
                 covers, dropped, contended>>

Process(w) ==
  \/ Join(w) \/ Take(w) \/ FetchEdges(w) \/ FetchFails(w)
  \/ \E o \in Outcomes : SaveRun(w, o) \/ SaveReport(w, o) \/ Announce(w, o)

Next ==
  \/ \E r \in RunIds, h \in Hops : Land(r, h)
  \/ \E r \in RunIds, failed \in BOOLEAN : Complete(r, failed)
  \/ AggregatorJoin \/ AggregatorTake \/ AggregatorExit
  \/ \E o \in Outcomes : Forward(o)
  \/ \E w \in Replicas : Process(w) \/ ReplicaExit(w)
  \/ Lose

Spec == Init /\ [][Next]_vars

(* Some replica always joins a group without an owner, kafkajs hands over  *)
(* messages, and every await ends; a send that is retried succeeds in the  *)
(* end.  Nothing makes an edge land, a run complete or an offset commit.   *)
Fairness ==
  /\ WF_vars(AggregatorJoin) /\ WF_vars(AggregatorTake)
  /\ WF_vars(\E o \in Outcomes : Forward(o)) /\ SF_vars(Forward("ok"))
  /\ WF_vars(\E w \in Replicas : Join(w))
  /\ \A w \in Replicas : WF_vars(Process(w))

FairSpec == Spec /\ Fairness

-----------------------------------------------------------------------------
(* A run's two rows were computed from the same event and the same edges,  *)
(* among them all that the layout kept from the first write shows, except  *)
(* between the two writes of a processing, after one that failed or exited *)
(* there, and where two replicas processed at the same time.  Whoever      *)
(* hears of a report finds it: it is at least as new as what was           *)
(* announced, unless a message was delivered again since.                  *)
RowsAgree ==
  /\ \A r \in RunIds :
       \/ runRow[r] = reportRow[r] /\ layout[r] \subseteq reportRow[r].used
       \/ r \in cut \/ contended
       \/ \E w \in Replicas : Doing(w, "saveReport") /\ Now(w) = r
  /\ \A a \in announced :
       /\ reportRow[a.run] # NoRow
       /\ ~repeats => reportRow[a.run].event >= a.event

Quiet ==
  /\ aggregator.up /\ ~aggregator.busy
  /\ aggregator.group.next = Len(completed)
  /\ owner # None /\ group.next = Len(needed)
  /\ \A w \in Replicas : Free(w)

LastEvent(r) == Max({i \in 1..Len(completed) : RunOf(i) = r} \cup {0})

(* When everything published has been handled, a run's row and its report  *)
(* are those of its last completion, however often messages were delivered *)
(* again on the way, unless processing that event was given up.            *)
Converged ==
  Quiet /\ ~contended =>
    \A r \in RunIds : \/ LastEvent(r) \in dropped
                    \/ /\ runRow[r].event = LastEvent(r)
                       /\ reportRow[r].event = LastEvent(r)

(* A run's row goes back to an earlier completion only after a message was *)
(* delivered again.                                                        *)
NoStaleOverwrite ==
  [][\A r \in RunIds : runRow'[r].event < runRow[r].event => repeats]_vars

(* A report misses no edge that had landed when the aggregator forwarded   *)
(* the completion.                                                         *)
CoversLanded ==
  \A r \in RunIds : reportRow[r] # NoRow =>
    covers[reportRow[r].event] \subseteq reportRow[r].used

(* The monitoring guide's claim for the processor: it loads all edges of   *)
(* the run.  It fails when one lands late: the processor stops waiting as  *)
(* soon as it finds any edge, and with semantic drift off the aggregator   *)
(* does not wait at all.                                                   *)
LoadsAllEdges == \A r \in RunIds : reportRow[r] # NoRow => reportRow[r].used = Hops

(* Every completion is processed: at some time its run's report is written *)
(* from it or from a later one, or it is given up, because no edge landed  *)
(* or a step of it failed.  (The report need not stay: a replica that lost *)
(* the partition may still overwrite it with an earlier one.)              *)
CompletionsSettle ==
  \A i \in Event :
    <>(i <= Len(completed)) =>
      <>(\/ i \in dropped
         \/ i <= Len(completed) /\ reportRow[RunOf(i)].event >= i)
=============================================================================

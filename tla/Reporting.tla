----------------------------- MODULE Reporting -----------------------------
(***************************************************************************)
(* The data of a blame report, from the hops an SDK recorded to the rows   *)
(* BlameProcessorService.processRun() stores                               *)
(* (apps/workers/src/blame-processor.service.ts).  BlamePipeline has the   *)
(* same handler with its messages and failures and without its data; here  *)
(* one run is completed and processed once, and every await that brings    *)
(* data from elsewhere (the edges, the embeddings, the classifier, the     *)
(* LLM) is a step with any of its answers.                                 *)
(***************************************************************************)
EXTENDS BlameScores, DriftHints, ConfidenceGate

CONSTANTS
    Shapes,      \* the edges that a run is made of
    MaxHops,     \* bound: edges of a run
    MaxMissing,  \* bound: edges that are not in ClickHouse when it is read
    Alpha,       \* the weight of the ML shares in the fusion, in percent
    Answers,     \* what the classifier may say of a hop: [label, top]
    Shares,      \* tenths of a percent that the ML may give an agent
    Profiles,    \* a workspace's profile of the workflow: [level, mode]
    EventGates,  \* what a completion says of the gate: [level, mode]
    DefaultLevels \* default_confidence_accept_level of a workspace

\* A mode that is not given.
Open == "open"
ModeOr(mode, default) == IF mode = Open THEN default ELSE mode

NoProfile == [level |-> Absent, mode |-> Open]
Threshold == 20   \* intent_drift_threshold

ASSUME ReportingAssumption ==
    /\ MaxHops \in Nat \ {0} /\ MaxMissing \in Nat /\ Alpha \in 0..100
    /\ Shapes \subseteq Edge /\ \A e, f \in Shapes : e.id = f.id => e = f
    /\ Answers \subseteq [label : DriftTypes, top : Percent] /\ Shares \subseteq Nat

VARIABLES
    stage,     \* how far the run is: running, completed, fetched, hinted,
               \* analysed, computed, stored, replayed
    hops,      \* the edges the SDK recorded and sent
    settings,  \* the workspace: its default level and its profile
    env,       \* the workers' environment: mutate and ml
    event,     \* the completion: failed, skipped, level, mode
    edges,     \* the edges processRun() works on
    cut,       \* history: hints lowered a confidence
    shares,    \* the ML's share per agent, or <<>> without ML
    report,    \* the rows of workflow_runs and blame_reports
    shown      \* what a replay answers: the agents whose share differs, and
               \* what the replay was

reportingVars == <<stage, hops, settings, env, event, edges, cut, shares, report, shown>>

\* Every run there is: some of the shapes, by hop.
RunsOf(S) ==
    {s \in UNION {[1..n -> S] : n \in 1..Cardinality(S)} :
        /\ {s[i] : i \in DOMAIN s} = S
        /\ \A i, j \in DOMAIN s : i < j => s[i] # s[j] /\ s[i].hop <= s[j].hop}

ReportingInit ==
    /\ stage = "running"
    /\ \E S \in {T \in SUBSET Shapes : IsFiniteSet(T) /\ Cardinality(T) \in 1..MaxHops} :
            hops = CHOOSE s \in RunsOf(S) : TRUE
    /\ settings \in [default : DefaultLevels, profile : Profiles]
    /\ env \in [mutate : BOOLEAN, ml : BOOLEAN]
    /\ event = [failed |-> FALSE, skipped |-> FALSE, level |-> Absent, mode |-> Open]
    /\ edges = <<>> /\ cut = FALSE /\ shares = <<>>
    /\ report = [failed |-> FALSE, rows |-> <<>>, chain |-> <<>>, confidence |-> "high",
                 layout |-> "linear", complexity |-> "Simple"]
    /\ shown = [diff |-> {}, hop |-> 0, updated |-> 0, edited |-> FALSE]

-----------------------------------------------------------------------------
GateHops(list) == [i \in DOMAIN list |-> [index |-> list[i].hop, conf |-> list[i].cout]]

\* resolveRunOutcome() and completeRun() of the SDK: a gate that fails turns
\* a success into a failure, unless the caller skips it (endRun()).
Complete(failed, skipped, gate) ==
    LET passed == EvaluateGate(gate.level, ModeOr(gate.mode, "final"), GateHops(hops)).passed IN
    /\ stage = "running"
    /\ stage' = "completed"
    /\ event' = [failed |-> failed \/ (~skipped /\ gate.level # Absent /\ ~passed),
                 skipped |-> skipped, level |-> gate.level, mode |-> gate.mode]
    /\ UNCHANGED <<hops, settings, env, edges, cut, shares, report, shown>>

\* fetchEdges(): what has been stored, hops of one index in any order.
Fetch(S) ==
    /\ stage = "completed"
    /\ edges' \in RunsOf(S)
    /\ stage' = "fetched"
    /\ UNCHANGED <<hops, settings, env, event, cut, shares, report, shown>>

\* enrichEdgesWithSemanticDrift(): without embeddings there is no drift to
\* measure.
DriftSemantically(embeds) ==
    LET goal == \E i \in DOMAIN edges : edges[i].input # "blank" IN
    /\ stage = "fetched"
    /\ stage' = "hinted"
    /\ edges' = IF embeds THEN SemanticDrift(edges, goal, Threshold, env.mutate) ELSE edges
    /\ cut' = (\E i \in DOMAIN edges : edges'[i].cout # edges[i].cout)
    /\ UNCHANGED <<hops, settings, env, event, shares, report, shown>>

\* analyzeRunWithMl(), when it is enabled and its bundle is there, and the
\* confidences that follow from the edges it leaves: one hop at most is
\* suspect to the classifier, the others are sound.
AnalyseWithMl(embeds, suspect, answer, incident, faults) ==
    LET answers == [h \in {e.hop : e \in Shapes} |->
                        IF h = suspect THEN answer ELSE [label |-> "none", top |-> 90]]
        run == AnalyzeRun(edges, answers, incident, embeds, Threshold, env.mutate)
    IN /\ stage = "hinted" /\ env.ml
       /\ stage' = "analysed"
       /\ edges' = Reconcile(BoostInfluence(run.edges, run.hops))
       /\ cut' = (cut \/ \E i \in DOMAIN edges : run.edges[i].cout # edges[i].cout)
       /\ shares' = faults
       /\ UNCHANGED <<hops, settings, env, event, report, shown>>

GoOnWithoutMl ==
    /\ stage = "hinted" /\ ~env.ml
    /\ stage' = "analysed"
    /\ edges' = Reconcile(edges)
    /\ UNCHANGED <<hops, settings, env, event, cut, shares, report, shown>>

-----------------------------------------------------------------------------
\* Variant of ResolveGate: the workspace's profile wins over the event.
ResolveProfileFirst(ws, ev) ==
    LET p == ws.profile IN
    [level |-> Otherwise(p.level, Otherwise(ev.level, Otherwise(ws.default, DefaultAcceptLevel))),
     mode |-> ModeOr(p.mode, ModeOr(ev.mode, "final")),
     platform |-> ws.default = Absent /\ p.level = Absent]

\* resolveWorkflowGate() as processRun() calls it, with both keys of the
\* event present: they hide the profile's, so that a profile's mode counts
\* only next to a level of its own.
ResolveGate(ws, ev) ==
    LET own == ws.profile.level # Absent
        level == IF own THEN ws.profile.level ELSE Otherwise(ws.default, DefaultAcceptLevel)
        mode == IF own THEN ModeOr(ws.profile.mode, ModeOr(ev.mode, "final"))
                ELSE ModeOr(ev.mode, "final")
    IN [level |-> Otherwise(ev.level, level),
        mode |-> ModeOr(ev.mode, mode),
        platform |-> ~own /\ ws.default = Absent]

\* The status of the report: what the event says, unless the gate is
\* evaluated again and fails.
Verdict ==
    LET gate == ResolveGate(settings, event)
        evaluated == event.level # Absent \/ ~gate.platform
    IN \/ event.failed
       \/ evaluated /\ ~EvaluateGate(gate.level, gate.mode, GateHops(edges)).passed

\* The gate, computeFromEdges(), the fusion of a failed run, and the roles
\* once more, over all edges.
Compute ==
    /\ stage = "analysed"
    /\ stage' = "computed"
    /\ \E failed \in {Verdict} : \E ruled \in {RuleBlames(edges, failed)} :
         \E rows \in {IF failed /\ shares # <<>>
                      THEN Enrich(Fuse(ruled, shares, Alpha), edges, TRUE) ELSE ruled} :
            report' = [failed |-> failed, rows |-> rows,
                       chain |-> PropagationChain(rows, failed),
                       confidence |-> BlameConfidence(rows),
                       layout |-> InferLayout(CollapseRetryStorms(edges)),
                       complexity |-> Complexity(Cardinality(AgentsOf(edges)))]
    /\ UNCHANGED <<hops, settings, env, event, edges, cut, shares, shown>>

\* enrichBlameReasonsWithLlm(), of a failed run: the LLM replaces the reasons
\* of the agents it names, or none when it fails or answers something else;
\* then the report is stored.
Explain(named) ==
    LET Told(r) == IF r.agent \in named THEN [r EXCEPT !.reason = "llm"] ELSE r IN
    /\ stage = "computed"
    /\ stage' = "stored"
    /\ ~report.failed => named = {}
    /\ report' = [report EXCEPT !.rows = [i \in DOMAIN @ |-> Told(@[i])]]
    /\ UNCHANGED <<hops, settings, env, event, edges, cut, shares, shown>>

-----------------------------------------------------------------------------
\* persistReconciledEdges(): an update for each edge in turn, of every stored
\* row of its hop and sender.  ClickHouse carries them out later: so many
\* have been when the edges are read again.  Edges that landed late are not
\* among their rows.
StoredEdges(updated) ==
    LET processed == {edges[i].id : i \in DOMAIN edges}
        Updates(e) == {i \in 1..updated : edges[i].hop = e.hop /\ edges[i].from = e.from}
        Stored(e) == IF e.id \notin processed \/ Updates(e) = {} THEN e
                     ELSE [e EXCEPT !.cin = edges[Max(Updates(e))].cin]
    IN Listed([i \in DOMAIN hops |-> Stored(hops[i])])

ShareOf(rows, a) ==
    LET mine == {i \in DOMAIN rows : rows[i].agent = a}
    IN IF mine = {} THEN 0 ELSE rows[CHOOSE i \in mine : TRUE].pct

\* Variant of Patched: every hop is patched.
PatchedAll(list, e, output) ==
    Listed([i \in DOMAIN list |-> [list[i] EXCEPT !.output = output]])

\* The output of a hop is replaced in every edge that has its index.
Patched(list, e, output) ==
    LET Patch(f) == IF f.hop = e.hop THEN [f EXCEPT !.output = output] ELSE f
    IN Listed([i \in DOMAIN list |-> Patch(list[i])])

\* RunsService.replayBlame() of the API, and replayHopLlm() with its blame:
\* what the report would be with another output of a hop, an edited one or
\* one that an LLM gave, against the report that is stored.  The panel sends
\* the output of its hop when nothing was edited.
Replay(e, output, updated) ==
    /\ stage = "stored"
    /\ stage' = "replayed"
    /\ \E patched \in {Patched(StoredEdges(updated), e, output)} :
         \E counterfactual \in {RuleBlames(patched, report.failed)} :
            shown' = [diff |-> {a \in AgentsOf(hops) :
                                  ShareOf(report.rows, a) # ShareOf(counterfactual, a)},
                      hop |-> e.hop, updated |-> updated, edited |-> output # e.output]
    /\ UNCHANGED <<hops, settings, env, event, edges, cut, shares, report>>

Senders(list) == {list[i].from : i \in DOMAIN list}

\* softmaxAgents(): the senders share everything, the others have nothing.
Faults(list) ==
    {f \in [AgentsOf(list) -> Shares \cup {0}] :
        /\ \A a \in AgentsOf(list) : f[a] = 0 <=> a \notin Senders(list)
        /\ Total(f) = 1000}

ReportingNext ==
    \/ \E failed, skipped \in BOOLEAN, gate \in EventGates : Complete(failed, skipped, gate)
    \/ \E S \in SUBSET {hops[i] : i \in DOMAIN hops} :
          S # {} /\ Cardinality(S) >= Len(hops) - MaxMissing /\ Fetch(S)
    \/ \E embeds \in BOOLEAN : DriftSemantically(embeds)
    \/ \E embeds, incident \in BOOLEAN, answer \in Answers,
          suspect \in {edges[i].hop : i \in DOMAIN edges}, faults \in Faults(edges) :
            AnalyseWithMl(embeds, suspect, answer, incident, faults)
    \/ GoOnWithoutMl
    \/ Compute
    \/ \E named \in {{}, {report.rows[i].agent : i \in DOMAIN report.rows}} : Explain(named)
    \/ \E i \in DOMAIN hops, updated \in {0, Len(edges)} :
          \E output \in {hops[i].output, "text"} : Replay(hops[i], output, updated)

ReportingSpec == ReportingInit /\ [][ReportingNext]_reportingVars

-----------------------------------------------------------------------------
Reported == stage \in {"computed", "stored", "replayed"}

\* An SDK and the workers judge a run by the same rule (evaluateConfidenceGate)
\* from different places: a run that its SDK completed as a success is
\* reported as failed only if the SDK did not evaluate the gate, if the
\* workspace's profile counts the weakest hop where the event leaves the mode
\* open, if hints were allowed to lower confidences, if an edge was missing,
\* or if several hops share the last index, of which either may come last.
\* What the SDK reported as failed stays failed.
VerdictsAgree ==
    Reported =>
        /\ event.failed => report.failed
        /\ report.failed /\ ~event.failed =>
            \/ event.skipped
            \/ event.level = Absent /\ settings # [default |-> Absent, profile |-> NoProfile]
            \/ event.mode = Open /\ settings.profile.level # Absent /\ settings.profile.mode = "min"
            \/ cut /\ env.mutate
            \/ Len(edges) < Len(hops)
            \/ \E i, j \in DOMAIN hops : i # j /\ hops[i].hop = hops[j].hop
                                          /\ \A k \in DOMAIN hops : hops[k].hop <= hops[i].hop

\* Lineage and parallel propagation move weight between agents and make none:
\* the total is the same before and after both, and greater only if an edge
\* names three sources or more (each takes 35% of what there was at first).
\* It is never less.
ShiftsConserve ==
    stage = "analysed" =>
        LET used == CollapseRetryStorms(edges)
            base == BlameWeights(used, TRUE)
            shifted == LineageShift(used, base)
            known == {i \in DOMAIN used : Len(used[i].sources) >= 3}
        IN /\ Total(shifted) >= Total(base)
           /\ Total(shifted) > Total(base) => known # {}
           /\ Total(ParallelShift(used, shifted)) = Total(shifted)

\* The report names one root: every agent of the run has a row, the rows are
\* ranked and add up to 100% but for rounding if any hop had influence, the
\* first and only the first is the root of a failed run, and it originated the
\* fault unless it has less than 5% and did nothing wrong.  Its reason is that
\* of a root if no ML took part.  A success has no root and no chain.
OneRoot ==
    Reported =>
        LET rows == report.rows
            n == Len(rows)
            sum == Total([i \in 1..n |-> rows[i].pct])
            used == CollapseRetryStorms(edges)
        IN /\ {rows[i].agent : i \in 1..n} = AgentsOf(edges) /\ n = Cardinality(AgentsOf(edges))
           /\ \A i \in 1..(n - 1) : rows[i].pct >= rows[i + 1].pct
           /\ (\E i \in DOMAIN used : used[i].infl > 0) => sum - 1000 \in -n..n
           /\ \A i \in 1..n : rows[i].root <=> report.failed /\ i = 1
           /\ report.failed =>
                /\ \/ rows[1].role = "originator"
                   \/ rows[1].pct < 50 /\ ~AgentContext(rows[1].agent, edges).selfBad
                /\ shares = <<>> => rows[1].reason \in RootReasons \cup {"llm"}
           /\ ~report.failed => report.chain = <<>>

\* A replay that changes nothing shows no difference, although the two sides
\* are made differently: unless the ML took part in the report, hints were
\* written into the edges, edges landed late, an update of the stored edges
\* was still to come (or two of one row disagreed), or several edges share the
\* index of a hop, of which a replay patches all.
NoChangeNoDiff ==
    stage = "replayed" /\ ~shown.edited /\ shown.diff # {} =>
        \/ shares # <<>>
        \/ env.mutate /\ \E i \in DOMAIN edges :
                            <<edges[i].delta, edges[i].cout>>
                              # <<ById(hops, edges[i].id).delta, ById(hops, edges[i].id).cout>>
        \/ Len(edges) < Len(hops)
        \/ \E i, j \in DOMAIN hops : i # j /\ hops[i].hop = hops[j].hop
        \/ shown.updated < Len(edges)
==============================================================================

----------------------------- MODULE BlameScores -----------------------------
(***************************************************************************)
(* How the blame of a run is shared among its agents:                      *)
(* packages/blame/src/compute-blame.ts, what blame-enrichment.ts adds to   *)
(* it, and the fusion with the ML scores in packages/ml/src/fusion.ts.     *)
(* Shares are in tenths of a percent, as the code rounds them; weights are *)
(* integers, the fractions the code moves about truncated.                 *)
(***************************************************************************)
EXTENDS CausalEdges

\* Two hops of a retry storm: same agents, same output, same confidence.
SameHop(e, f) ==
    e.from = f.from /\ e.to = f.to /\ e.output = f.output /\ e.cout = f.cout

\* collapseRetryStorms(): of three or more equal hops the first is kept.
\* Equal hops are grouped where the first of them stands, then sorted by hop.
CollapseRetryStorms(edges) ==
    LET Group(i) == {j \in DOMAIN edges : SameHop(edges[i], edges[j])}
        First(i) == CHOOSE j \in Group(i) : \A k \in Group(i) : j <= k
        kept == {i \in DOMAIN edges : Cardinality(Group(i)) < 3 \/ i = First(i)}
        Earlier(i, j) ==
            \/ edges[i].hop < edges[j].hop
            \/ edges[i].hop = edges[j].hop /\ First(i) < First(j)
            \/ edges[i].hop = edges[j].hop /\ First(i) = First(j) /\ i < j
        order == InOrder(kept, Earlier)
    IN [n \in DOMAIN order |-> edges[order[n]]]

-----------------------------------------------------------------------------
\* nullOutputFaultBoost().
Boost(e) ==
    (IF EmptyPreview(e.output) THEN 150 ELSE 0)
      + (IF e.output = "error" THEN 120 ELSE 0)
      + (IF BadInput(e.input) /\ ~IntroducedBad(e) THEN 40 ELSE 0)

\* What a hop weighs, in ten-thousandths.
HopWeight(e, failed) ==
    e.infl * (IF failed THEN 3 * Harm(e) + 2 * Drop(e) + 2 * Inflation(e) + Boost(e) + 5
                        ELSE 50)

\* blameWeights(): the receiver carries the weight of a hop, a sender that
\* is another agent 15% more of it.
BlameWeights(edges, failed) ==
    LET Add(w, e) ==
            LET hop == HopWeight(e, failed)
                received == [w EXCEPT ![e.to] = @ + hop]
            IN IF e.from = e.to THEN received
               ELSE [received EXCEPT ![e.from] = @ + (hop * 15) \div 100]
    IN FoldLeft(Add, [a \in AgentsOf(edges) |-> 0], ByHop(edges))

\* byId: the last of the edges that have the id.
Known(edges, id) == \E i \in DOMAIN edges : edges[i].id = id
ById(edges, id) ==
    edges[CHOOSE i \in DOMAIN edges :
            edges[i].id = id /\ \A j \in DOMAIN edges : edges[j].id = id => j <= i]

\* Variant of Move: the sender keeps what the receiver gets.
MoveCopied(w, from, to, amount) == [w EXCEPT ![to] = @ + amount]

\* `amount` goes from one agent to another, and no weight falls below zero.
Move(w, from, to, amount) ==
    LET taken == [w EXCEPT ![from] = AtLeast(0, @ - amount)]
    IN [taken EXCEPT ![to] = @ + amount]

\* applyLineageWeights(): each known source of a hop takes 35% of what its
\* sender weighed before the first of them.
LineageShift(edges, weights) ==
    LET FromSources(w, e) ==
            LET shift == (w[e.from] * 35) \div 100
                Take(v, id) == IF Known(edges, id) THEN Move(v, e.from, ById(edges, id).from, shift)
                               ELSE v
            IN IF w[e.from] <= 0 THEN w ELSE FoldLeft(Take, w, e.sources)
    IN FoldLeft(FromSources, weights, edges)

\* applyParallelPropagation(): of the hops at one index, one that was handed
\* bad input passes 25% of its receiver's weight to each that went wrong.
ParallelShift(edges, weights) ==
    LET size == Len(edges)
        pairs == [n \in 1..(size * size) |-> <<1 + (n - 1) \div size, 1 + ((n - 1) % size)>>]
        Poisoned(target, sibling) ==
            /\ sibling.hop = target.hop /\ sibling.id # target.id
            /\ BadInput(target.input) /\ IntroducedBad(sibling)
            /\ sibling.to # target.to
        Take(w, p) ==
            LET target == edges[p[1]]
                sibling == edges[p[2]]
            IN IF Poisoned(target, sibling)
               THEN Move(w, target.to, sibling.to, (w[target.to] * 25) \div 100)
               ELSE w
    IN FoldLeft(Take, weights, pairs)

\* The weights a report is made of.
FinalWeights(edges, failed) ==
    LET base == BlameWeights(edges, failed)
        shifted == LineageShift(edges, base)
    IN CASE ~failed -> base
         [] failed /\ InferLayout(edges) = "linear" -> shifted
         [] OTHER -> ParallelShift(edges, shifted)

Total(w) == FoldFunction(LAMBDA x, y : x + y, 0, w)

\* Math.round() of n / d.
Rounded(n, d) == (2 * n + d) \div (2 * d)

-----------------------------------------------------------------------------
\* What makes an agent's role: its own hop, and what it was handed.
AgentContext(agent, edges) ==
    LET sorted == ByHop(edges)
        sent == \E i \in DOMAIN sorted : sorted[i].from = agent
        edge == FirstEdge(sorted, LAMBDA e : IF sent THEN e.from = agent ELSE e.to = agent)
        last == sorted[Len(sorted)]
        prior == {i \in DOMAIN sorted : sorted[i].hop < edge.hop}
        latest == sorted[CHOOSE i \in prior : \A j \in prior : j <= i]
    IN [edge |-> edge,
        selfBad |-> IntroducedBad(edge),
        upstreamBad |->
            \/ BadInput(edge.input)
            \/ \E i \in DOMAIN edge.sources : /\ Known(edges, edge.sources[i])
                                             /\ IntroducedBad(ById(edges, edge.sources[i]))
            \/ edge.hop > 0 /\ prior # {} /\ IntroducedBad(latest),
        terminal |-> agent \in {last.to, last.from}]

\* classifyBlameRole().
BlameRole(pct, root, failed, ctx) ==
    CASE ~failed -> IF pct >= 150 THEN "propagator" ELSE "clean"
      [] failed /\ pct < 50 /\ ~ctx.selfBad -> "clean"
      [] failed /\ (pct >= 50 \/ ctx.selfBad)
           -> CASE root \/ (ctx.selfBad /\ ~ctx.upstreamBad) -> "originator"
                [] ~root /\ ctx.selfBad /\ ctx.upstreamBad ->
                     IF ctx.terminal THEN "manifestor" ELSE "propagator"
                [] OTHER -> IF ctx.upstreamBad \/ pct >= 100 THEN "propagator" ELSE "clean"

\* detectFailureMode(), but for the words it looks for in the texts.
FailureMode(e) ==
    IF e.output = "error" /\ e.call # "llm" THEN "tool_failure"
    ELSE IF EmptyPreview(e.output) THEN "premature_termination"
    ELSE IF BadInput(e.input) /\ IntroducedBad(e) /\ e.output # "error" THEN "bad_input_propagation"
    ELSE IF Inflation(e) > 0 THEN "confidence_inflation"
    ELSE IF e.delta <= -20 THEN "intent_drift" ELSE "unknown"

\* enrichAgentBlames(): every row gets its role and its mode again.
Enrich(rows, edges, failed) ==
    LET Enriched(r) ==
            LET ctx == AgentContext(r.agent, edges)
            IN [r EXCEPT !.role = BlameRole(r.pct, r.root, failed, ctx),
                         !.mode = FailureMode(ctx.edge)]
    IN Listed([i \in DOMAIN rows |-> Enriched(rows[i])])

\* buildPropagationChain(): a fault, at most three propagators, the ends.
PropagationChain(rows, failed) ==
    LET Agents(Test(_)) ==
            LET chosen == SelectSeq(rows, Test) IN [i \in DOMAIN chosen |-> chosen[i].agent]
        originators == Agents(LAMBDA r : r.role = "originator")
        propagators == Agents(LAMBDA r : r.role = "propagator" /\ r.pct >= 80)
        manifestors == Agents(LAMBDA r : r.role = "manifestor")
        fault == IF originators = <<>> /\ rows # <<>> THEN <<rows[1].agent>> ELSE originators
    IN IF failed THEN fault \o SubSeq(propagators, 1, AtMost(3, Len(propagators))) \o manifestors
       ELSE <<>>

\* computeBlameConfidence(): how far the first agent is from the second.
BlameConfidence(rows) ==
    IF Len(rows) < 2 \/ rows[1].pct - rows[2].pct >= 250 THEN "high"
    ELSE IF rows[1].pct - rows[2].pct >= 100 THEN "medium" ELSE "ambiguous"

-----------------------------------------------------------------------------
RootReasons == {"empty", "mismatch", "drift", "drop", "overstated", "primary"}

\* reasonFor(): the sentence a row is given, by its kind.
Reason(agent, pct, root, failed, edges) ==
    LET sends == \E i \in DOMAIN edges : edges[i].from = agent
        e == FirstEdge(edges, LAMBDA f : f.from = agent)
        harm == IF sends THEN Harm(e) ELSE 0
        drop == IF sends THEN Drop(e) ELSE 0
        inflation == IF sends THEN Inflation(e) ELSE 0
        correct == harm < 8 /\ drop < 5 /\ inflation = 0
        rootReason ==
            CASE sends /\ EmptyPreview(e.output) -> "empty"
              [] ~(sends /\ EmptyPreview(e.output)) /\ harm >= 20 ->
                   IF drop >= 5 THEN "mismatch" ELSE "drift"
              [] OTHER -> IF drop >= 5 THEN "drop"
                          ELSE IF inflation > 0 THEN "overstated" ELSE "primary"
    IN CASE ~failed -> IF pct < 200 THEN "bounds" ELSE "carried"
         [] failed /\ root -> rootReason
         [] failed /\ ~root /\ correct /\ pct < 200 -> "correct"
         [] OTHER -> IF inflation > 0 THEN "inflated"
                     ELSE IF pct > 150 THEN "propagated" ELSE "minimal"

\* The first row is the root cause of a run that failed.
MarkRoot(rows, failed) ==
    [i \in DOMAIN rows |-> [rows[i] EXCEPT !.root = failed /\ i = 1]]

Ranked(rows) == StableSort(rows, LAMBDA r, s : r.pct > s.pct)

\* computeFromEdges(): the rows of the report.
RuleBlames(all, failed) ==
    LET edges == CollapseRetryStorms(all)
        agents == OrderedAgents(edges)
        weights == FinalWeights(edges, failed)
        total == IF Total(weights) = 0 THEN 1 ELSE Total(weights)
        Row(a) == [agent |-> a, pct |-> Rounded(weights[a] * 1000, total), root |-> FALSE,
                   inflated |-> Inflation(AgentContext(a, edges).edge) > 0,
                   reason |-> "none", role |-> "none", mode |-> "unknown"]
        marked == MarkRoot(Ranked([i \in DOMAIN agents |-> Row(agents[i])]), failed)
        Explained(r) == [r EXCEPT !.reason = Reason(r.agent, r.pct, r.root, failed, edges)]
        explained == Listed([i \in DOMAIN marked |-> Explained(marked[i])])
    IN Enrich(explained, edges, failed)

\* Variant of Fuse: the rows keep the order of the rules.
FuseUnsorted(rows, shares, alpha) ==
    MarkRoot([i \in DOMAIN rows |->
        [rows[i] EXCEPT !.pct = Rounded((100 - alpha) * @ + alpha * shares[rows[i].agent], 100)]], TRUE)

\* fuseBlameScores() of a run that failed: the ML shares (0 for an agent that
\* sends nothing) are mixed in, the rows ranked and the root marked again.
\* A reason stays as the rules gave it.
Fuse(rows, shares, alpha) ==
    LET Mixed(r) == [r EXCEPT !.pct = Rounded((100 - alpha) * r.pct + alpha * shares[r.agent], 100)]
    IN MarkRoot(Ranked([i \in DOMAIN rows |-> Mixed(rows[i])]), TRUE)
==============================================================================

----------------------------- MODULE DriftHints -----------------------------
(***************************************************************************)
(* What the models say about the hops of a run before it is blamed: the    *)
(* semantic drift of packages/semantic/src/drift.ts and the drift          *)
(* classes of packages/ml/src/inference.ts.  The embeddings and the        *)
(* classifier are external: their answers are the attributes simIn and     *)
(* simGoal of an edge, and a prediction [label, top] per hop, where top is *)
(* the highest probability in percent.  Words in workflow ids decide the   *)
(* domain: `incident` says that it is the incident domain.                 *)
(***************************************************************************)
EXTENDS CausalEdges

DriftTypes == {"none", "domain_mismatch", "retrieval_miss", "severity_underrate",
               "confidence_inflation", "propagation", "format_error"}
NoHint == 101
Lowest(a, b) == IF b < a THEN b ELSE a

-----------------------------------------------------------------------------
\* The lowest similarity applyDrift() measures: a tool's output against its
\* input, and what follows the first hop against the goal of the run.
Similarity(e, goal) ==
    LET in == IF e.call # "llm" /\ e.input # "blank" THEN e.simIn ELSE NoHint
        out == IF goal /\ e.hop > 0 THEN e.simGoal ELSE NoHint
    IN IF e.output = "blank" THEN NoHint ELSE Lowest(in, out)

\* A hint, a similarity, when the harm reaches the workspace's threshold.
SemanticHint(e, goal, threshold) ==
    IF 100 - Similarity(e, goal) >= threshold THEN Similarity(e, goal) ELSE NoHint

\* BLAMR_MUTATE_EDGES: only then an edge's own numbers give way to a hint.
Lower(e, delta, ceiling, mutate) ==
    IF mutate THEN [e EXCEPT !.delta = Lowest(@, delta), !.cout = Lowest(@, ceiling)] ELSE e

\* enrichEdgesWithSemanticDrift(): the edges afterwards.
SemanticDrift(edges, goal, threshold, mutate) ==
    [i \in DOMAIN edges |->
        LET hint == SemanticHint(edges[i], goal, threshold)
        IN IF hint = NoHint THEN edges[i] ELSE Lower(edges[i], hint - 100, hint, mutate)]

-----------------------------------------------------------------------------
Prediction(label, severity, top) == [label |-> label, severity |-> severity, top |-> top]

\* predictDrift(): the severity of the class that was found, f being the hop
\* whose features were classified.
Classified(answer, f) ==
    Prediction(answer.label,
               IF answer.label = "none" THEN 100 - answer.top
               ELSE AtMost(100, (answer.top * (100 + Harm(f))) \div 100),
               answer.top)

\* applyRulePrior(): plain telemetry overrules the classifier.
RulePrior(f, simIn, pred, incident, structured) ==
    LET tool == f.call = "tool" IN
    IF structured /\ Harm(f) >= 28 /\ tool
      THEN LET severity == AtMost(100, (Harm(f) * 115) \div 100)
           IN Prediction("domain_mismatch", severity, AtLeast(severity, 100 - severity))
    ELSE IF Harm(f) >= 18 /\ tool /\ simIn < 45
      THEN Prediction("retrieval_miss", AtMost(100, (Harm(f) * 110) \div 100), 75)
    ELSE IF pred.top >= 72 /\ pred.label # "none" THEN pred
    ELSE IF incident /\ Harm(f) >= 22 /\ ~tool /\ Drop(f) >= 8
      THEN Prediction("severity_underrate", Harm(f), 70)
    ELSE IF Inflation(f) > 0 /\ Harm(f) >= 15
      THEN Prediction("confidence_inflation", AtMost(100, Harm(f) + Inflation(f)), 65)
    ELSE IF Harm(f) >= 12 /\ pred.label = "none"
      THEN Prediction("propagation", Harm(f), AtLeast(Harm(f), 100 - Harm(f)))
    ELSE pred

\* refineDriftPrediction(): common false positives; before is the output of
\* the hop before ("blank" when there is none).
Refine(e, pred, incident, before, simGoal) ==
    LET structured == JsonPreview(before) \/ JsonPreview(e.input)
        tool == e.call # "llm"
        Relabelled(label) ==
            Prediction(label, pred.severity,
                       AtLeast(pred.severity, AtLeast(pred.top, 100 - pred.severity)))
        domestic == IF incident \/ pred.label # "severity_underrate" THEN pred.label
                    ELSE IF e.output = "hedged" THEN "retrieval_miss" ELSE "propagation"
        label == IF domestic # "domain_mismatch" THEN domestic
                 ELSE IF structured
                   THEN IF tool /\ JsonPreview(before) /\ e.cites THEN "retrieval_miss" ELSE domestic
                 ELSE IF ~PlainPreview(e.output) THEN domestic
                 ELSE IF simGoal < 50 THEN "retrieval_miss" ELSE "propagation"
    IN CASE pred.label = "format_error" /\ e.output # "blank" ->
              IF simGoal < 55 /\ e.hop > 0
              THEN Prediction(IF tool THEN "retrieval_miss" ELSE "propagation",
                              Lowest(pred.severity, 50), AtLeast(20, Lowest(pred.severity, 50)))
              ELSE Prediction("none", Lowest(pred.severity, 8), 85)
         [] pred.label # "format_error" /\ label # pred.label -> Relabelled(label)
         [] OTHER -> pred

\* severityToIntentDelta() and severityToConfidenceCeiling().
DriftDelta(severity, label) ==
    LET base == -8 - (severity * 55) \div 100
    IN CASE label = "none" \/ severity < 5 -> -2
         [] label = "domain_mismatch" /\ severity >= 5 -> AtLeast(-95, base - 15)
         [] label = "retrieval_miss" /\ severity >= 5 -> AtLeast(-90, base - 10)
         [] label = "severity_underrate" /\ severity >= 5 -> AtLeast(-85, base - 12)
         [] OTHER -> AtLeast(-80, base)

DriftCeiling(severity, label) ==
    IF label = "none" \/ severity < 5 THEN 100
    ELSE AtLeast(15, 100 - (severity * (IF label = "confidence_inflation" THEN 35 ELSE 65)) \div 100)

\* The least top probability a hint is applied with.
MinDriftConfidence == 42

Applies(e, pred, threshold) ==
    /\ pred.top >= MinDriftConfidence
    /\ pred.label # "none"
    /\ pred.severity >= threshold \/ Harm(e) >= threshold
    /\ pred.label = "format_error" => e.hop # 0 /\ e.output = "blank"

\* analyzeRunWithMl(): the hops in turn, each with the features of the FIRST
\* edge at its index, which an earlier hint may have lowered.  `answers` is
\* what the classifier says per index, `embeds` that there are embeddings.
AnalyzeRun(all, answers, incident, embeds, threshold, mutate) ==
    LET Step(run, i) ==
            LET e == run.edges[i]
                f == FirstEdge(run.edges, LAMBDA g : g.hop = e.hop)
                follows == \E j \in DOMAIN run.edges : run.edges[j].hop = e.hop - 1
                before == IF follows
                          THEN FirstEdge(run.edges, LAMBDA g : g.hop = e.hop - 1).output
                          ELSE "blank"
                simIn == IF ~embeds \/ "blank" \in {e.input, e.output} THEN 50 ELSE e.simIn
                simGoal == IF embeds /\ "blank" \notin {ByHop(all)[1].input, e.output}
                           THEN e.simGoal ELSE 50
                structured == JsonPreview(before) \/ JsonPreview(e.input)
                prior == RulePrior(f, simIn, Classified(answers[e.hop], f), incident, structured)
                pred == Refine(e, prior, incident, before, simGoal)
                lowered == Lower(e, DriftDelta(pred.severity, pred.label),
                                 DriftCeiling(pred.severity, pred.label), mutate)
            IN [edges |-> IF Applies(e, pred, threshold)
                          THEN [run.edges EXCEPT ![i] = lowered] ELSE run.edges,
                hops |-> Append(run.hops, [hop |-> e.hop, agent |-> e.from,
                                           label |-> pred.label, severity |-> pred.severity])]
        sorted == ByHop(all)
    IN FoldLeft(Step, [edges |-> sorted, hops |-> <<>>], [i \in DOMAIN sorted |-> i])

\* boostInfluenceFromMl(): a hop that drifted counts more; of hops at one
\* index the first is boosted, once for each of them.
BoostInfluence(edges, hops) ==
    LET Boosted(list, h) ==
            LET i == CHOOSE j \in DOMAIN list :
                        list[j].hop = h.hop /\ \A k \in 1..(j - 1) : list[k].hop # h.hop
            IN IF h.label = "none" \/ h.severity < 30 THEN list
               ELSE [list EXCEPT ![i].infl = AtMost(100, (@ * (400 + h.severity)) \div 400)]
    IN FoldLeft(Boosted, edges, hops)
==============================================================================

---------------------------- MODULE Explanations ----------------------------
(***************************************************************************)
(* Why a hop's confidence and intent are what they are, as the dashboard   *)
(* tells it (apps/web/src/utils/signal-explain.ts).  A sentence is its     *)
(* kind: which one is chosen depends on the hop, the hop before, the       *)
(* drift class and the domain of the workflow.  Besides what an edge has,  *)
(* a hop has a drift class and its score (`drift`, `score`), and the       *)
(* fields of its JSON output (`fields`; "category" stands for intent and   *)
(* domain too, "lookup" for runbook and policy_id).  A context is          *)
(* [prior, goal, incident], prior being <<>> or the hop before.            *)
(***************************************************************************)
EXTENDS CausalEdges

Unlabelled == "unlabelled"
NoMl == [label |-> Unlabelled, score |-> 0]

Tool(h) == h.call # "llm"
Hedges(h) == h.output = "hedged"
HasField(h, f) == h.output = "json" /\ f \in h.fields
PriorHas(ctx, f) == \E i \in DOMAIN ctx.prior : HasField(ctx.prior[i], f)
\* categoriesAligned().
Aligned(h, ctx) == PriorHas(ctx, "category") /\ h.input # "blank" /\ h.cites

\* isIncidentContext(): the profile's domain, or what the workflow's id says.
Incident(id, profile) == (IF profile # Unlabelled THEN profile ELSE id) = "incident"

\* contextForHop(): the hop before is the first whose index is one less.
ContextFor(hops, h, incident) ==
    LET sorted == ByHop(hops)
        before == SelectSeq(sorted, LAMBDA e : e.hop = h.hop - 1)
    IN [prior |-> IF before = <<>> THEN <<>> ELSE <<before[1]>>,
        goal |-> sorted[1].input # "blank",
        incident |-> incident]

\* effectiveConfidenceIn().
ConfIn(h, ctx) == IF ctx.prior = <<>> THEN h.cin ELSE ctx.prior[1].cout

-----------------------------------------------------------------------------
\* displayDriftType(): no class where the telemetry speaks against it.
DisplayDrift(h, ctx, ml) ==
    LET raw == IF ml.label # Unlabelled THEN ml.label ELSE h.drift
    IN CASE raw \in {Unlabelled, "none"} \/ (raw = "format_error" /\ JsonPreview(h.output)) -> Unlabelled
         [] raw = "severity_underrate" /\ ~ctx.incident ->
              IF Hedges(h) THEN "retrieval_miss" ELSE "propagation"
         [] raw = "domain_mismatch" /\ Tool(h) /\ Aligned(h, ctx) -> "retrieval_miss"
         [] OTHER -> raw

Score(h, ml) == IF ml.label # Unlabelled THEN ml.score ELSE h.score

\* driftJustification().
Why(type, h, ctx) ==
    CASE type = "severity_underrate" /\ ~ctx.incident -> IF Hedges(h) THEN "cautious" ELSE "partial"
      [] type = "severity_underrate" /\ ctx.incident ->
           IF PriorHas(ctx, "category") /\ HasField(h, "severity") THEN "rated too low" ELSE "underrated"
      [] type = "domain_mismatch" ->
           IF Tool(h) /\ Aligned(h, ctx) THEN "not the detail"
           ELSE IF PriorHas(ctx, "category") /\ (HasField(h, "category") \/ HasField(h, "topic"))
             THEN "another topic"
           ELSE IF ctx.goal THEN "off the topic" ELSE "diverged"
      [] type = "retrieval_miss" ->
           IF ctx.goal /\ Tool(h) THEN "not the answer"
           ELSE IF HasField(h, "service") \/ HasField(h, "lookup") THEN "weak match" ELSE "missed"
      [] type = "format_error" -> IF JsonPreview(h.output) THEN "structured" ELSE "unstructured"
      [] type = "propagation" -> "doubt carried on"
      [] OTHER -> type

-----------------------------------------------------------------------------
Fall(h, ctx) == ConfIn(h, ctx) - h.cout
Excess(h, ctx) == h.cout - ConfIn(h, ctx) - 15

\* buildConfidenceSummary().
ConfidenceSummary(h, ctx, ml) ==
    LET drop == Fall(h, ctx)
        type == DisplayDrift(h, ctx, ml)
        rated == PriorHas(ctx, "category") /\ HasField(h, "severity") /\ ctx.incident
        steady == drop \in -1..1 /\ Excess(h, ctx) <= 0
        stated == HasField(h, "confidence")
        capped == h.cout - (100 + h.delta) \in -2..2 /\ h.delta < -15
    IN CASE steady -> IF h.hop = 0 /\ stated THEN "first step"
                      ELSE IF ctx.prior # <<>> THEN "kept" ELSE "steady"
         [] ~steady /\ drop >= 5 ->
              IF type # Unlabelled /\ Score(h, ml) >= 25 THEN Why(type, h, ctx)
              ELSE IF h.delta < -8 /\ rated THEN "category gap"
              ELSE IF capped THEN "capped by intent" ELSE "less sure"
         [] ~steady /\ drop < 5 ->
              IF Excess(h, ctx) > 0 THEN "overconfident"
              ELSE IF stated /\ ctx.prior # <<>> THEN "stated" ELSE "moved"

\* buildConfidenceFactors().
ConfidenceFactors(h, ctx, ml) ==
    LET drop == Fall(h, ctx)
        type == DisplayDrift(h, ctx, ml)
        upstream == h.hop # 0 /\ ctx.prior # <<>>
        severity == HasField(h, "severity") /\ ctx.incident
        If(condition, factor) == IF condition THEN {factor} ELSE {}
    IN UNION {
        If(h.hop = 0, "baseline"),
        If(upstream, "received"),
        If(upstream /\ ConfIn(h, ctx) - h.cin \notin -2..2, "stored otherwise"),
        If(upstream /\ PriorHas(ctx, "category"), "labeled upstream"),
        If(drop >= 2, IF drop < 8 THEN "small drop" ELSE "drop"),
        If(HasField(h, "confidence"), "stated"),
        If(severity, IF PriorHas(ctx, "category") THEN "severity against category" ELSE "severity"),
        If(Hedges(h), "hedges"),
        If(h.delta < -8, "ceiling"),
        If(type # Unlabelled, Why(type, h, ctx)),
        If(type = Unlabelled /\ ctx.goal /\ h.hop > 0 /\ drop >= 5, "low similarity"),
        If(Excess(h, ctx) > 0, "overconfident"),
        If(Tool(h), "stricter scoring"),
        {"handed on"}}

\* explainIntentPreserved() and buildIntentSummary().
IntentPct(h) == AtLeast(0, AtMost(100, 100 + h.delta))

IntentSummary(h, ctx, ml) ==
    LET type == DisplayDrift(h, ctx, ml)
    IN CASE Harm(h) < 5 -> "on track"
         [] Harm(h) >= 5 /\ ml.label \notin {Unlabelled, "none"} /\ type # Unlabelled -> Why(type, h, ctx)
         [] OTHER -> IF PriorHas(ctx, "category") /\ HasField(h, "severity") THEN "not as expected"
                     ELSE IF ctx.goal THEN "partly matched"
                     ELSE IF IntentPct(h) >= 65 THEN "mostly matched" ELSE "diverged"

\* buildIntentFactors().
IntentFactors(h, ctx, ml) ==
    LET type == DisplayDrift(h, ctx, ml)
        If(condition, factor) == IF condition THEN {factor} ELSE {}
    IN UNION {
        {"measure", "handed on"},
        If(ctx.goal /\ h.hop > 0, "goal"),
        If(h.input # "blank", "input"),
        If(h.output # "blank", "output"),
        If(PriorHas(ctx, "category"), "labeled upstream"),
        If(HasField(h, "severity"), "severity"),
        If(Harm(h) >= 8 /\ ml.label = Unlabelled, "lost meaning"),
        If(ml.label \notin {Unlabelled, "none"} /\ type # Unlabelled, Why(type, h, ctx))}

\* explainConfidenceChange() and explainIntentPreserved().
Explained(h, ctx, ml) ==
    [confidence |-> ConfidenceSummary(h, ctx, ml),
     confidenceFactors |-> ConfidenceFactors(h, ctx, ml),
     pct |-> IntentPct(h),
     intent |-> IntentSummary(h, ctx, ml),
     intentFactors |-> IntentFactors(h, ctx, ml)]
==============================================================================

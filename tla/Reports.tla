------------------------------- MODULE Reports -------------------------------
(***************************************************************************)
(* Instances of Reporting, in three areas, of RunGoal, which a report      *)
(* draws on, and of RunDetailView, which shows it: see AgentSide for how   *)
(* areas are explored.                                                     *)
(***************************************************************************)
EXTENDS Reporting, RunGoal, RunDetailView

Hop(id, hop, from, to) ==
    [id |-> id, hop |-> hop, from |-> from, to |-> to, cin |-> 90, cout |-> 90,
     delta |-> 0, infl |-> 80, call |-> "llm", input |-> "text", output |-> "text",
     sources |-> <<>>, simIn |-> 80, simGoal |-> 80, cites |-> FALSE]

\* A first hop that answers in JSON; a tool that errs, and a sibling of it
\* that is handed nothing; a hop with three sources that overstates; three
\* hops of a retry storm; a last hop that forgets the goal, and a sibling of
\* it that hedges.
MCShapes ==
    {[Hop(1, 0, "a", "b") EXCEPT !.output = "json", !.cin = 95],
     [Hop(2, 1, "b", "c") EXCEPT !.call = "tool", !.output = "error", !.cout = 60, !.delta = -30,
                                 !.simIn = 30, !.cites = TRUE, !.sources = <<1>>],
     [Hop(3, 1, "c", "c") EXCEPT !.input = "null", !.infl = 40, !.cout = 75],
     [Hop(4, 2, "c", "a") EXCEPT !.sources = <<1, 2, 1, 3>>, !.cin = 50, !.delta = -18, !.output = "blank"],
     [Hop(5, 1, "b", "a") EXCEPT !.cout = 65, !.call = "mcp"],
     [Hop(6, 2, "b", "a") EXCEPT !.cout = 65, !.delta = -25, !.input = "error"],
     [Hop(7, 3, "b", "a") EXCEPT !.cout = 65],
     [Hop(8, 3, "c", "b") EXCEPT !.simGoal = 40, !.cin = 60, !.delta = -13, !.output = "hedged"]}

\* The classes whose handling differs, found with more or less certainty.
MCAnswers == [label : {"domain_mismatch", "format_error"}, top : {60}]
                \cup {[label |-> "severity_underrate", top |-> 40]}

Gate(level, mode) == [level |-> level, mode |-> mode]
MCProfiles == {NoProfile, Gate(90, "min")}
MCDefaultLevels == {Absent, 80}
MCEventGates == {NoProfile, Gate(70, Open), Gate(70, "min")}

-----------------------------------------------------------------------------
DetailHop(id, hop, from, to) ==
    Hop(id, hop, from, to) @@ [drift |-> Unlabelled, score |-> 0, fields |-> {}, chat |-> <<>>,
                               model |-> "gpt"]
Row(hop, label, score) == [hop |-> hop, label |-> label, score |-> score]

\* Runs of up to three hops between three agents, for the diagrams.
MCPaths == {p \in UNION {[1..n -> [from : {"a", "b", "c"}, to : {"a", "b", "c"}, hop : 0..3]] : n \in 1..3} :
              /\ p[1].hop = 0 /\ p[1].from = "a" /\ p[1].to # "c"
              /\ \A i \in 1..(Len(p) - 1) : p[i + 1].hop - p[i].hop \in 0..(4 - Len(p))}

\* A triage that goes wrong in every way the explanations know of; a support
\* case with two hops at one index; and a run with hops like theirs.
MCTriage ==
    <<[DetailHop(1, 0, "a", "b") EXCEPT !.input = "json", !.chat = <<"system", "human", "tool">>,
                                        !.output = "json", !.fields = {"category", "confidence"}],
      [DetailHop(2, 1, "b", "c") EXCEPT !.call = "tool", !.cout = 60, !.delta = -30, !.cites = TRUE,
                                        !.output = "json", !.fields = {"service"}],
      [DetailHop(3, 2, "c", "b") EXCEPT !.cin = 60, !.cout = 45, !.delta = -25, !.output = "json",
                                        !.fields = {"severity", "topic"}, !.model = "claude"],
      [DetailHop(4, 3, "d", "a") EXCEPT !.cin = 45, !.cout = 80, !.delta = -10, !.output = "hedged"]>>
MCSupport ==
    <<[DetailHop(5, 0, "a", "b") EXCEPT !.model = "qwen"],
      [DetailHop(6, 1, "b", "d") EXCEPT !.cout = 70, !.delta = -20, !.output = "hedged", !.input = "json"],
      [DetailHop(7, 1, "c", "d") EXCEPT !.cout = 72, !.delta = -12, !.call = "mcp", !.output = "error"]>>
MCSimilar ==
    <<[DetailHop(8, 0, "a", "b") EXCEPT !.input = "blank", !.cin = 95, !.cout = 84, !.delta = -18],
      [DetailHop(9, 1, "b", "a") EXCEPT !.cin = 84, !.cout = 84, !.model = "claude"]>>

Named(name) == <<[from |-> name, to |-> name, hop |-> 0]>>
Triage == Named("triage")
Support == Named("support")
Similar == Named("similar")
MCSpecial == {Triage, Support, Similar}
MCHopsOf(r) ==
    CASE r = Triage -> MCTriage [] r = Support -> MCSupport [] r = Similar -> MCSimilar
      [] OTHER -> [i \in DOMAIN r |-> DetailHop(i, r[i].hop, r[i].from, r[i].to)]
MCAnalysisOf(r) ==
    CASE r = Triage -> <<Row(0, "format_error", 60), Row(1, "domain_mismatch", 40),
                               Row(2, "severity_underrate", 30), Row(3, "none", 5)>>
      [] r = Support -> <<Row(1, "severity_underrate", 30), Row(1, "retrieval_miss", 20)>>
      [] OTHER -> <<>>
MCDomainOf(r) ==
    CASE r = Triage -> [id |-> "incident", profile |-> "support"]
      [] r = Support -> [id |-> "generic", profile |-> "incident"]
      [] OTHER -> [id |-> "generic", profile |-> Unlabelled]
MCFamiliesOf == [m \in {"gpt", "claude", "qwen", "llama"} |->
    CASE m = "gpt" -> {"openai"} [] m = "claude" -> {"anthropic"} [] m = "llama" -> {"groq"}
      [] OTHER -> {}]
MCAlphabet == <<"a", "b", "c", "d">>
MCRequests == {[input |-> "blank", messages |-> <<>>, model |-> NoModel],
               [input |-> "edited", messages |-> <<>>, model |-> "claude"],
               [input |-> "edited", messages |-> <<"system", "tool">>, model |-> NoModel]}

VARIABLE area

Plain == settings = [default |-> Absent, profile |-> NoProfile]

\* Gates are combined with hints, and the ML and the replays with completions
\* without a gate.
ReportsInit ==
    /\ ReportingInit /\ GoalInit
    /\ area \in {"gate", "models", "replay", "goal", "views", "panels", "replays"}
    /\ DetailInit
    /\ area \notin {"panels", "replays"} => keys = {}
    /\ area = "panels" => keys = {"openai"}
    /\ area = "gate" => ~env.ml /\ Len(hops) <= 2
    /\ area = "models" => env.ml /\ Plain /\ (env.mutate => Len(hops) <= 2)
    /\ area = "replay" => Plain /\ Len(hops) <= 2 /\ (env.ml => Len(hops) = 1)
    /\ area \in {"goal", "views", "panels", "replays"} => Len(hops) = 1 /\ hops[1].id = 1 /\ ~env.mutate /\ ~env.ml /\ Plain

ReportsNext ==
    /\ UNCHANGED area
    /\ \/ /\ area \in {"gate", "models", "replay"}
          /\ area # "replay" => stage # "stored"
          /\ ReportingNext
          /\ area \in {"models", "replay"} => ~event'.skipped /\ event'.level = Absent
          /\ UNCHANGED <<goalVars, detailVars>>
       \/ area = "goal" /\ GoalNext /\ UNCHANGED <<reportingVars, detailVars>>
       \/ /\ area = "views" /\ UNCHANGED <<reportingVars, goalVars>>
          /\ \/ \E r \in MCPaths \cup MCSpecial : visits = 0 /\ Visit(r, TRUE)
             \/ \E blamed, profiled \in BOOLEAN :
                  /\ address \in MCPaths => ~blamed /\ ~profiled
                  /\ Fetched(blamed, profiled)
       \/ /\ area \in {"panels", "replays"} /\ DetailNext /\ UNCHANGED <<reportingVars, goalVars>>
          /\ detail'.run # NoRun => detail'.blamed /\ detail'.profiled
          /\ area = "panels" => /\ address' \in {NoRun, IF visits' = 1 THEN Support ELSE Similar}
                                /\ \A c \in DOMAIN cards' : ~cards'[c].edited
                                /\ \A k \in calls' : k.panel # 0
                                /\ \A k \in calls' : k.stage = "answered" => k.result.status # "error"
          /\ area = "replays" => address' # NoRun /\ visits' <= 1 /\ opens' <= 1 /\ asked' <= 1

reportsVars == <<area, reportingVars, goalVars, detailVars>>

ReportsSpec == ReportsInit /\ [][ReportsNext]_reportsVars
=============================================================================

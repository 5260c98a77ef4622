------------------------------ MODULE Console ------------------------------
(***************************************************************************)
(* Instances of Dashboard, in four areas, of PageRoute and of BlameEngine: *)
(* see AgentSide for how areas are explored.  The areas of Dashboard        *)
(* differ in what may be open and in what may happen to a session.         *)
(***************************************************************************)
EXTENDS Dashboard, PageRoute, BlameEngine

MCEncoded == [i \in Ids |-> IF i = "r/2" THEN "r%2F2" ELSE i]
MCAgentRows == {[workflow |-> "w1", agent |-> "r/2", latest |-> l] : l \in {"r1", NoId}}

VARIABLE area

consoleVars == <<dashboardVars, routeVars, engineVars, area>>

ViewsOf ==
    [lists |-> {None, "list", "monitor"}, detail |-> {None, "detail"},
     settings |-> {None, "settings", "monitor"}, wizard |-> {None, "monitor"}]

\* The areas that start signed in end with the session.
ConsoleInit ==
    /\ DashboardInit /\ RouteInit /\ EngineInit
    /\ area \in DOMAIN ViewsOf \cup {"route", "engine"}
    /\ page.query = "q1" /\ page.run = "r1"
    /\ area = "wizard" => session.token # "w1" /\ wizard.done \in {{}, {"w2"}}
    /\ area # "wizard" => session.token = "w1" /\ wizard.done = Workspaces
    /\ area # "engine" => run = CHOOSE r \in EngineRuns : TRUE

DashboardArea ==
    /\ area \in DOMAIN ViewsOf
    /\ area # "wizard" => session.at # "out"
    /\ DashboardNext
    /\ page'.view \in ViewsOf[area]
    /\ IF area = "wizard" THEN switching'.to # "w2"
       ELSE switching'.to # "w1" /\ feed'.events = {} /\ wizard' = wizard
    /\ area # "lists" => page'.query = page.query
    /\ area # "detail" => page'.run = page.run
    /\ Len(requests'.metrics) + Len(requests'.runs) <= 2
    /\ area # "lists" => Len(requests'.runs) <= 1 /\ Len(requests'.metrics) <= 1

EngineArea == area = "engine" /\ EngineNext

ConsoleNext ==
    /\ UNCHANGED area
    /\ \/ DashboardArea /\ UNCHANGED <<routeVars, engineVars>>
       \/ area = "route" /\ RouteNext /\ UNCHANGED <<dashboardVars, engineVars>>
       \/ EngineArea /\ UNCHANGED <<dashboardVars, routeVars>>

\* One task computes a report, and nothing makes it wait.
EngineFairness == WF_engineVars(EngineArea)

ConsoleSpec == ConsoleInit /\ [][ConsoleNext]_consoleVars /\ EngineFairness
==============================================================================

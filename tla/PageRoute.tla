----------------------------- MODULE PageRoute -----------------------------
(***************************************************************************)
(* Where the dashboard is: the page that AuthenticatedApp holds            *)
(* (apps/web/src/App.tsx) and the addresses that it pushes to the          *)
(* browser's history (app-routing.ts).  An address is the hash's parts.    *)
(* The browser may go back and forward and reload.                         *)
(***************************************************************************)
EXTENDS Naturals, Sequences, SequencesExt

CONSTANTS
    Ids,        \* of runs, workflows and agents
    Encoded,    \* the encoding of an id in an address
    AgentRows,  \* of the agents' table: [workflow, agent, latest]
    MaxHistory  \* bound: entries of the history

NoId == "-"

ASSUME RouteAssumption ==
    /\ MaxHistory \in Nat
    /\ DOMAIN Encoded = Ids
    /\ \A i, j \in Ids : Encoded[i] = Encoded[j] => i = j
    /\ \A i \in Ids : NoId \notin {i, Encoded[i]}
    /\ AgentRows \subseteq [workflow : Ids, agent : Ids, latest : Ids \cup {NoId}]
Filters == {"all", "failed", "success"}
Places == {"monitor", "workflows", "agents", "connect", "settings", "users"}
Scope(workflow, agent) == [workflow |-> workflow, agent |-> agent]
Unscoped == Scope(NoId, NoId)

VARIABLES
    at,       \* the page: view, filter, run, scope, whence the detail was
              \* opened, its tab, the list's page and the highlighted entry
    history,  \* the addresses pushed, with what was on show when their event
              \* was done, and whether they were its last
    position  \* the current one

routeVars == <<at, history, position>>

NavOf(view, filter) ==
    CASE view = "list" /\ filter = "failed" -> "na-fail"
      [] view = "list" /\ filter = "success" -> "na-ok"
      [] view = "list" /\ filter = "all" -> "na-all"
      [] view = "detail" -> "na-all"
      [] OTHER -> view

HashOf(view, run, filter, scope) ==
    CASE view = "detail" -> <<"executions", Encoded[run]>>
      [] view = "list" /\ NoId \notin {scope.workflow, scope.agent} ->
             <<"executions", "agent", Encoded[scope.workflow], Encoded[scope.agent]>>
      [] view = "list" /\ NoId \in {scope.workflow, scope.agent} /\ filter # "all" ->
             <<"executions", filter>>
      [] view = "list" /\ NoId \in {scope.workflow, scope.agent} /\ filter = "all" ->
             <<"executions">>
      [] OTHER -> <<view>>

Decoded(part) == CHOOSE i \in Ids : Encoded[i] = part

\* parseAppRoute() and runFilterFromHash(): the run's part is not decoded.
Parse(hash) ==
    LET second == IF Len(hash) > 1 THEN hash[2] ELSE NoId
        scoped == second = "agent" /\ Len(hash) = 4
    IN [view   |-> IF hash[1] # "executions" THEN hash[1]
                   ELSE IF scoped \/ second \in {NoId, "failed", "success"} THEN "list" ELSE "detail",
        run    |-> IF scoped \/ second \in {"failed", "success"} THEN NoId ELSE second,
        filter |-> IF second \in {"failed", "success"} THEN second ELSE "all",
        scope  |-> IF scoped THEN Scope(Decoded(hash[3]), Decoded(hash[4])) ELSE Unscoped]

\* What is on show, as far as an address may say it.
OnShow(page) ==
    [view   |-> page.view,
     run    |-> IF page.view = "detail" THEN page.run ELSE NoId,
     filter |-> IF page.view = "list" THEN page.filter ELSE "all",
     scope  |-> IF page.view = "list" THEN page.scope ELSE Unscoped]

-----------------------------------------------------------------------------

Opened(route) ==
    [view |-> route.view, filter |-> route.filter, run |-> route.run, scope |-> route.scope,
     source |-> "list", tab |-> "graph", number |-> 1, nav |-> NavOf(route.view, route.filter)]

RouteInit ==
    /\ at = Opened(Parse(<<"monitor">>))
    /\ history = <<[hash |-> <<"monitor">>, shown |-> OnShow(at), last |-> TRUE]>>
    /\ position = 1

\* An event leaves page p and pushes addresses.
Push(p, hashes) ==
    /\ at' = p
    /\ position' = position + Len(hashes)
    /\ position' <= MaxHistory
    /\ history' = SubSeq(history, 1, position)
                  \o [i \in DOMAIN hashes |->
                        [hash |-> hashes[i], shown |-> OnShow(p), last |-> i = Len(hashes)]]

\* setView() to a page that is neither the list nor a detail.
GoTo(view) ==
    /\ view \in Places
    /\ Push([at EXCEPT !.view = view, !.scope = Unscoped, !.run = NoId, !.nav = NavOf(view, @)],
            <<HashOf(view, NoId, at.filter, Unscoped)>>)

\* setView('detail').
OpenRun(run, source, scope, tab) ==
    Push([at EXCEPT !.view = "detail", !.run = run, !.source = source, !.scope = scope,
                    !.tab = tab, !.nav = NavOf("list", at.filter)],
         <<HashOf("detail", run, at.filter, Unscoped)>>)

Listed(filter, scope) ==
    [at EXCEPT !.view = "list", !.filter = filter, !.run = NoId, !.scope = scope, !.number = 1,
               !.nav = NavOf("list", filter)]

\* goList() with a scope.
ListScoped(filter, scope) ==
    Push(Listed(filter, scope), <<HashOf("list", NoId, filter, scope)>>)

\* goList() without one: the scope stays and the address has none.
ListAsIs(filter) ==
    Push(Listed(filter, at.scope), <<HashOf("list", NoId, filter, Unscoped)>>)

\* goExecutions() of the sidebar: goList() with the old filter and again.
Executions(filter) ==
    Push(Listed(filter, at.scope),
         <<HashOf("list", NoId, at.filter, Unscoped), HashOf("list", NoId, filter, Unscoped)>>)

\* Typing in the sidebar's search, on a page without one.
Search == at.view \in Places \ {"workflows", "agents"} /\ ListAsIs(at.filter)

\* The list's filter and the banner that clears its scope.
ChangeFilter(filter) ==
    at.view = "list" /\ (ListScoped(filter, at.scope) \/ ListScoped(at.filter, Unscoped))

\* handleRunSelect(), from the overview, the workflows or the list.
SelectRun(run) ==
    /\ at.view \in {"monitor", "workflows", "list"}
    /\ OpenRun(run, IF at.view = "monitor" THEN "monitor" ELSE "list", at.scope, "graph")

\* handleWorkflowSelect().
SelectWorkflow(workflow) ==
    /\ at.view \in {"monitor", "workflows", "agents"}
    /\ ListScoped("all", Scope(workflow, NoId))

\* handleAgentSelect() and handleAgentViewAllRuns().
SelectAgent(row, all) ==
    /\ at.view = "agents"
    /\ IF row.latest = NoId \/ all THEN ListScoped("all", Scope(row.workflow, row.agent))
       ELSE OpenRun(row.latest, "agents", Scope(row.workflow, row.agent), "trace")

\* handleBack().
Back ==
    /\ at.view = "detail"
    /\ \/ at.source \in {"monitor", "agents"} /\ GoTo(at.source)
       \/ at.source = "list" /\ ListScoped(at.filter, at.scope)

Turn ==
    \/ /\ at.view = "list" /\ at' = [at EXCEPT !.number = 3 - @] /\ UNCHANGED <<history, position>>
    \/ /\ at.view = "detail" /\ at' = [at EXCEPT !.tab = IF @ = "graph" THEN "trace" ELSE "graph"]
       /\ UNCHANGED <<history, position>>

\* Variant of Synced: the filter on show stays.
SyncedFilter(route) ==
    [at EXCEPT !.view = route.view,
               !.run = IF route.view = "detail" THEN route.run ELSE NoId,
               !.scope = IF route.view = "detail" THEN @ ELSE route.scope,
               !.nav = NavOf(IF route.view = "detail" THEN "list" ELSE route.view, route.filter)]

\* syncFromHash(): a detail leaves the list's scope.  The list starts over when
\* its filter or scope changed.
Synced(route) ==
    LET scope == IF route.view = "detail" THEN at.scope ELSE route.scope
    IN [at EXCEPT !.view = route.view, !.filter = route.filter,
                  !.run = IF route.view = "detail" THEN route.run ELSE NoId,
                  !.scope = scope,
                  !.number = IF <<route.filter, scope>> = <<at.filter, at.scope>> THEN @ ELSE 1,
                  !.nav = NavOf(IF route.view = "detail" THEN "list" ELSE route.view, route.filter)]

\* popstate.
Traverse(to) ==
    /\ to \in DOMAIN history \ {position}
    /\ position' = to
    /\ at' = Synced(Parse(history[to].hash))
    /\ UNCHANGED history

Reload ==
    /\ at' = Opened(Parse(history[position].hash))
    /\ UNCHANGED <<history, position>>

RouteNext ==
    \/ \E view \in Places : GoTo(view)
    \/ \E filter \in Filters : ListAsIs(filter) \/ Executions(filter) \/ ChangeFilter(filter)
    \/ Search \/ Back \/ Turn \/ Reload
    \/ \E id \in Ids : SelectRun(id) \/ SelectWorkflow(id)
    \/ \E row \in AgentRows, all \in BOOLEAN : SelectAgent(row, all)
    \/ \E to \in DOMAIN history : Traverse(to)

RouteSpec == RouteInit /\ [][RouteNext]_routeVars

-----------------------------------------------------------------------------

\* What an address cannot say: a filter beside a scope, a workflow without an
\* agent, a scope kept by a list that was opened without one, and a run whose id
\* needs encoding or is taken for a filter.
Unsaid(entry) ==
    LET s == entry.shown
        scoped == s.view = "list" /\ s.scope # Unscoped
    IN \/ scoped /\ s.filter # "all"
       \/ scoped /\ Len(entry.hash) < 4
       \/ s.view = "detail" /\ Encoded[s.run] \in {"failed", "success"}
       \/ s.view = "detail" /\ Encoded[s.run] # s.run

\* The page is what was on show when its address was pushed, also when the
\* browser's buttons or a reload led there, for as much of it as addresses can
\* say; the first of the two that the sidebar pushes was never on show.
AddressRestores ==
    LET entry == history[position]
    IN entry.last /\ ~Unsaid(entry) => OnShow(at) = entry.shown
=============================================================================

------------------------------ MODULE Topology ------------------------------
(***************************************************************************)
(* The two diagrams of a run (apps/web/src/utils/topology.ts): the causal  *)
(* graph, one column per hop index (CausalGraph.tsx), and the workflow     *)
(* topology, one column per agent's place (WorkflowTopology.tsx).  Hops    *)
(* are edges in the order of their index.  A layer is [hop, agents]; the   *)
(* order of the agents of a layer and coordinates are left out: a place is *)
(* the number of a column.                                                 *)
(***************************************************************************)
EXTENDS CausalEdges

CONSTANT Alphabet   \* the agents in the order of their names

SendersOf(hops) == {hops[i].from : i \in DOMAIN hops}
Indices(hops) == {hops[i].hop : i \in DOMAIN hops}
SmallestOf(S) == CHOOSE n \in S : \A m \in S : n <= m
LargestOf(S) == CHOOSE n \in S : \A m \in S : m <= n

With(f, a, value) == [b \in DOMAIN f \cup {a} |-> IF b = a THEN value ELSE f[b]]
ZeroOr(f, a) == IF a \in DOMAIN f THEN f[a] ELSE 0

-----------------------------------------------------------------------------
\* computeAgentColumns(): a sender goes to its first index, or further left
\* where it was handed something before; a receiver to the right of whoever
\* hands over to it, however far left it sent.
AgentColumns(hops) ==
    LET Place(col, e) ==
            LET sent == With(col, e.from, IF e.from \in DOMAIN col THEN AtMost(e.hop, col[e.from])
                                          ELSE e.hop)
            IN With(sent, e.to, AtLeast(IF e.from = e.to THEN e.hop ELSE e.hop + 1, ZeroOr(sent, e.to)))
        Rank(a) == CHOOSE i \in DOMAIN Alphabet : Alphabet[i] = a
        Before(e, f) == e.hop < f.hop \/ (e.hop = f.hop /\ Rank(e.from) < Rank(f.from))
    IN FoldLeft(Place, <<>>, StableSort(hops, Before))

\* buildLayers(): the columns that have agents, each with the least index
\* that an agent of it sent at; agents without a hop join the last.
Layers(hops, agents) ==
    LET col == AgentColumns(hops)
        used == {col[a] : a \in DOMAIN col}
        columns == IF used = {} /\ agents # {} THEN {0} ELSE used
        IndicesAt(c) == {hops[i].hop : i \in {j \in DOMAIN hops : col[hops[j].from] = c}}
        Extra(c) == IF c = LargestOf(columns) THEN agents \ DOMAIN col ELSE {}
    IN [c \in columns |->
            [hop |-> IF IndicesAt(c) = {} THEN c ELSE SmallestOf(IndicesAt(c)),
             agents |-> {a \in DOMAIN col : col[a] = c} \cup Extra(c)]]

\* buildWorkflowTopology(), with inferLayoutFromEdges(), which repeats
\* inferLayout().
WorkflowTopology(hops, layout, agents) ==
    LET layers == Layers(hops, agents) IN
    [layout |-> IF layout = "none" THEN InferLayout(hops) ELSE layout,
     layers |-> layers,
     hopCount |-> Cardinality(Indices(hops)),
     agentCount |-> Cardinality(DOMAIN AgentColumns(hops) \cup agents),
     width |-> LargestOf({Cardinality(layers[c].agents) : c \in DOMAIN layers} \cup {1})]

-----------------------------------------------------------------------------
\* isVirtualGraphAgent(): it receives and never sends.
Virtual(a, hops) ==
    a \notin SendersOf(hops) /\ \E i \in DOMAIN hops : hops[i].to = a /\ hops[i].from # a

\* buildGraphLayers(): one for each index.
GraphLayers(hops) ==
    [h \in Indices(hops) |->
        {a \in SendersOf(hops) : /\ ~Virtual(a, hops)
                                 /\ \E i \in DOMAIN hops : hops[i].from = a /\ hops[i].hop = h}]

VisibleAgents(hops) == UNION {GraphLayers(hops)[h] : h \in Indices(hops)}

\* Whom a hop points at: its receiver, or those who send next if the
\* receiver is not drawn.
Targets(hops, e) ==
    IF e.to \in VisibleAgents(hops) THEN {e.to}
    ELSE {a \in VisibleAgents(hops) :
            \E i \in DOMAIN hops : hops[i].from = a /\ hops[i].hop = e.hop + 1}

\* buildGraphEdges(): one arrow for each pair, as wide as the influence of
\* its first hop.
GraphEdges(hops) ==
    {[from |-> hops[p[1]].from, to |-> p[2], infl |-> hops[p[1]].infl] :
        p \in {q \in (DOMAIN hops) \X VisibleAgents(hops) :
            LET e == hops[q[1]] IN
            /\ e.from \in VisibleAgents(hops) /\ e.from # q[2] /\ q[2] \in Targets(hops, e)
            /\ \A j \in 1..(q[1] - 1) : hops[j].from = e.from => q[2] \notin Targets(hops, hops[j])}}

\* computeNodePositions(): an agent of several layers is put where the last
\* of them is.
GraphPlace(hops, a) == LargestOf({h \in Indices(hops) : a \in GraphLayers(hops)[h]})

\* The labels of an agent in the two diagrams: "hop n" above its node, from
\* the first of its hops, and "Hop n" above its column.
NodeLabel(hops, a) == FirstEdge(hops, LAMBDA e : e.from = a).hop
ColumnLabel(hops, agents, a) ==
    LET layers == Layers(hops, agents)
    IN layers[CHOOSE c \in DOMAIN layers : a \in layers[c].agents].hop

-----------------------------------------------------------------------------
\* Every agent that acts does so, for the first time, right after whatever it
\* was handed.
Orderly(hops) ==
    \A i \in DOMAIN hops :
        LET e == hops[i] IN
        e.to \in SendersOf(hops) => NodeLabel(hops, e.to) = IF e.from = e.to THEN e.hop ELSE e.hop + 1

\* The two diagrams of an orderly run have each agent at the same hop, and the
\* arrows of the graph go forward if nobody acts at two indices; and a run
\* that is called linear, each hop going on from the last, has a single file
\* of columns.
DiagramsAgree(hops, layout) ==
    LET agents == AgentsOf(hops)
        once == \A i, j \in DOMAIN hops : hops[i].from = hops[j].from => hops[i].hop = hops[j].hop
        chained == \A i \in 2..Len(hops) : hops[i].from = hops[i - 1].to
        topology == WorkflowTopology(hops, layout, agents)
    IN /\ Orderly(hops) =>
            \A a \in SendersOf(hops) : NodeLabel(hops, a) = ColumnLabel(hops, agents, a)
       /\ Orderly(hops) /\ once =>
            \A g \in GraphEdges(hops) : GraphPlace(hops, g.from) < GraphPlace(hops, g.to)
       /\ topology.layout = "linear" /\ chained => topology.width = 1
=============================================================================

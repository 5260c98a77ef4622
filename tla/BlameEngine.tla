----------------------------- MODULE BlameEngine -----------------------------
(***************************************************************************)
(* The Rust blame engine (packages/engine/src: graph.rs, shapley.rs,       *)
(* blame.rs): a walk from the terminal agent back along the edges, a       *)
(* Monte Carlo estimate of every agent's Shapley value from the scores of  *)
(* the walk, and a report.  One request is served, with any small graph.   *)
(*                                                                         *)
(* An edge is [from, to, infl, gain]: influence and confidence gained, in  *)
(* percent.  Scores and values are in ten-thousandths, truncated; scores   *)
(* stop at ScoreLimit, where the code's grow on.                           *)
(***************************************************************************)
EXTENDS Integers, SequencesExt

CONSTANTS
    EngineAgents, \* agents of a run
    MaxEdges,     \* bound: edges of a graph
    Influences,   \* influence scores of edges
    Gains,        \* gains of edges
    Iterations,   \* permutations that are sampled (1000 in the code)
    ScoreLimit    \* bound on scores

ASSUME EngineAssumption ==
    MaxEdges \in Nat /\ Iterations \in Nat \ {0} /\ Influences \cup Gains \subseteq 0..100

Unnamed == "unnamed"

VARIABLES
    run,     \* the request: agents in order, edges, whether it is a success
    phase,   \* "walk", "sample" or "answered"
    queue,   \* backward_bfs: agents to visit
    odd,     \* whether it made an odd number of visits: each one is a step, if it
             \* changes nothing else
    scores,  \* backward_bfs: agent -> score, of those that were reached
    sampled, \* iterations done
    sums,    \* shapley_sums
    answer   \* the BlameReport: shares, root and its share

engineVars == <<run, phase, queue, odd, scores, sampled, sums, answer>>

\* Requests: any graph of few edges, its agents and edges in some order.
EngineRuns ==
    LET all == [from : EngineAgents, to : EngineAgents, infl : Influences, gain : Gains]
    IN {[agents |-> SetToSeq(EngineAgents), edges |-> SetToSeq(E), success |-> success] :
            E \in {F \in SUBSET all : Cardinality(F) \in 1..MaxEdges}, success \in BOOLEAN}

\* build_graph(): the terminal is the last agent that an edge leads to.
Terminal ==
    LET led == {i \in DOMAIN run.agents : \E j \in DOMAIN run.edges : run.edges[j].to = run.agents[i]}
    IN run.agents[CHOOSE i \in led : \A j \in led : j <= i]

Nobody == [a \in EngineAgents |-> 0]

EngineInit ==
    /\ run \in EngineRuns
    /\ phase = "walk"
    /\ queue = <<Terminal>> /\ odd = FALSE
    /\ scores = [Nobody EXCEPT ![Terminal] = 10000]
    /\ sampled = 0 /\ sums = Nobody
    /\ answer = [root |-> Unnamed, pct |-> 0, shares |-> Nobody]

\* Variant of Enqueue: the other end of the edge is queued.
EnqueueTo(list, e) == IF Contains(list, e.to) THEN list ELSE Append(list, e.to)

\* A predecessor is queued unless it waits already, be it visited or not.
Enqueue(list, e) == IF Contains(list, e.from) THEN list ELSE Append(list, e.from)

\* backward_bfs(): the next agent passes its score on to its predecessors.
Visit ==
    LET node == Head(queue)
        incoming == SelectSeq(run.edges, LAMBDA e : e.to = node)
        Add(f, e) == [f EXCEPT ![e.from] =
                        LET sum == @ + (scores[node] * e.infl) \div 100
                        IN IF sum > ScoreLimit THEN ScoreLimit ELSE sum]
    IN /\ phase = "walk" /\ queue # <<>>
       /\ scores' = FoldLeft(Add, scores, incoming)
       /\ queue' = FoldLeft(Enqueue, Tail(queue), incoming)
       /\ odd' = ~odd
       /\ UNCHANGED <<run, phase, sampled, sums, answer>>

EndWalk ==
    /\ phase = "walk" /\ queue = <<>>
    /\ phase' = "sample"
    /\ UNCHANGED <<run, queue, odd, scores, sampled, sums, answer>>

Sum(f) == FoldFunction(LAMBDA x, y : x + y, 0, f)

\* coalition_value().
Value(coalition) ==
    LET Edge(v, e) == v + (IF e.from \notin coalition THEN 0
                           ELSE IF e.to \in coalition THEN 100 * e.infl ELSE 50 * e.infl)
        part == [a \in EngineAgents |-> IF a \in coalition THEN (scores[a] * 10000) \div Sum(scores) ELSE 0]
    IN IF coalition = {} THEN 0 ELSE FoldLeft(Edge, 0, run.edges) + Sum(part)

\* compute_shapley(): one permutation, the agents joining in its order.  An
\* agent on its own has everything.
Sample(perm) ==
    LET Before(i) == {perm[j] : j \in 1..(i - 1)}
        Marginal(i) == LET m == Value(Before(i) \cup {perm[i]}) - Value(Before(i))
                       IN IF m < 0 THEN 0 ELSE m
    IN /\ phase = "sample" /\ sampled < Iterations
       /\ sampled' = sampled + 1
       /\ sums' = FoldLeft(LAMBDA f, i : [f EXCEPT ![perm[i]] = @ + Marginal(i)], sums,
                           [i \in DOMAIN perm |-> i])
       /\ UNCHANGED <<run, phase, queue, odd, scores, answer>>

\* compute_confidence_deltas(): the most an agent's hops gained.
Gain(a) ==
    LET gains == {run.edges[i].gain : i \in {j \in DOMAIN run.edges : run.edges[j].from = a}}
    IN Max(gains \cup {0})

\* identify_root_cause(): the agent with the most share and gain together, of
\* several any (a hash map's order); none for a success without a share of
\* 1%.  Its share need not be the greatest.
Respond(root) ==
    LET shares == [a \in EngineAgents |-> (sums[a] * 1000) \div Sum(sums)]
        healthy == run.success /\ \A a \in EngineAgents : shares[a] < 10
        Combined(a) == shares[a] + 10 * Gain(a)
    IN /\ phase = "sample" /\ sampled = Iterations
       /\ phase' = "answered"
       /\ IF healthy THEN root = Unnamed
          ELSE root # Unnamed /\ \A a \in EngineAgents : Combined(a) <= Combined(root)
       /\ answer' = [root |-> root, pct |-> IF healthy THEN 0 ELSE shares[root], shares |-> shares]
       /\ UNCHANGED <<run, queue, odd, scores, sampled, sums>>

EngineNext ==
    \/ Visit \/ EndWalk
    \/ \E perm \in SetToSeqs(EngineAgents) : Sample(perm)
    \/ \E root \in EngineAgents \cup {Unnamed} : Respond(root)

EngineSpec == EngineInit /\ [][EngineNext]_engineVars

-----------------------------------------------------------------------------
\* No cycle leads to the terminal: its predecessors, and theirs, can be
\* ranked so that every edge goes down.
WalkCanEnd ==
    \E behind \in SUBSET EngineAgents :
        /\ Terminal \in behind
        /\ \A i \in DOMAIN run.edges : run.edges[i].to \in behind => run.edges[i].from \in behind
        /\ \E rank \in [behind -> 1..Cardinality(behind)] :
              \A i \in DOMAIN run.edges :
                  LET e == run.edges[i] IN e.to \in behind => rank[e.from] > rank[e.to]

\* The report of a graph in which no cycle leads to the terminal comes, however
\* often agents are visited again, and gives out everything: the shares are
\* together 100% but for truncation.
WalkEnds ==
    WalkCanEnd =>
        <>(phase = "answered" /\ Sum(answer.shares) \in (1000 - Cardinality(EngineAgents))..1000)

\* A success has no root, or one with less than 1% (the test
\* test_success_run_no_root in packages/engine/src/blame.rs).
SuccessHasNoRoot ==
    run.success /\ phase = "answered" => answer.root = Unnamed \/ answer.pct < 10
==============================================================================

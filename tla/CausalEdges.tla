----------------------------- MODULE CausalEdges -----------------------------
(***************************************************************************)
(* The edges of a run as the workers see them, and what is read off their  *)
(* topology: packages/types/src/edge-chain.ts, layout.ts and the preview   *)
(* tests of packages/blame/src/blame-enrichment.ts.                        *)
(*                                                                         *)
(* An edge is a record: id, hop (hop_index), from, to, cin and cout        *)
(* (confidences), delta (intent_delta), infl (influence_score), call       *)
(* (call_type), input and output (previews), sources (source_hop_ids, in   *)
(* order), and what the models make of its texts: simIn and simGoal (how   *)
(* similar the output is to the input and to the run's goal) and cites     *)
(* (the input repeats the category of the hop before).  Fractions are in   *)
(* percent.  A preview is its kind; a missing one has been stored as ''.   *)
(***************************************************************************)
EXTENDS Integers, FiniteSets, SequencesExt

\* `braces` stands for {}, `null` for the words null and none and for [].
Previews == {"blank", "text", "hedged", "json", "braces", "null", "error"}

EmptyPreview(p) == p \in {"blank", "braces", "null"}
BadInput(p) == p \in {"braces", "null", "error"}
JsonPreview(p) == p \in {"json", "braces"}
PlainPreview(p) == p \in {"text", "hedged", "null", "error"}

Percent == 0..100
\* An edge whose numbers are fractions, as the signals of the SDKs are.
Edge == [id : Nat, hop : Nat, from : STRING, to : STRING, cin : Percent, cout : Percent,
         delta : -100..100, infl : Percent, call : STRING, input : Previews, output : Previews,
         sources : Seq(Nat), simIn : Percent, simGoal : Percent, cites : BOOLEAN]

AtLeast(low, n) == IF n < low THEN low ELSE n
AtMost(high, n) == IF n > high THEN high ELSE n

\* The list itself; \o makes TLC work out its members once.
Listed(s) == <<>> \o s

\* The members of a set in an order that tells any two of them apart: each
\* has as many before it as come earlier.
InOrder(S, Earlier(_, _)) ==
    Listed([n \in 1..Cardinality(S) |->
                CHOOSE i \in S : Cardinality({j \in S : Earlier(j, i)}) = n - 1])

\* A sort that keeps the order of what compares equal, as Array.sort does.
StableSort(s, Before(_, _)) ==
    LET Earlier(i, j) == Before(s[i], s[j]) \/ (~Before(s[j], s[i]) /\ i < j)
        order == InOrder(DOMAIN s, Earlier)
    IN [n \in DOMAIN s |-> s[order[n]]]

ByHop(edges) == StableSort(edges, LAMBDA e, f : e.hop < f.hop)

\* The first of the edges that passes the test; the caller knows there is one.
FirstEdge(edges, Test(_)) ==
    edges[CHOOSE i \in DOMAIN edges :
            Test(edges[i]) /\ \A j \in 1..(i - 1) : ~Test(edges[j])]

AgentsOf(edges) == UNION {{edges[i].from, edges[i].to} : i \in DOMAIN edges}

\* Agents in the order the hops name them, the sender before the receiver.
OrderedAgents(edges) ==
    LET Add(list, a) == IF a \in {list[i] : i \in DOMAIN list} THEN list ELSE Append(list, a)
    IN FoldLeft(LAMBDA list, e : Add(Add(list, e.from), e.to), <<>>, ByHop(edges))

Harm(e) == AtLeast(0, -e.delta)
Drop(e) == AtLeast(0, e.cin - e.cout)
Inflation(e) == AtLeast(0, e.cout - e.cin - 15)

\* introducedBadOutput(): the hop itself went wrong.
IntroducedBad(e) ==
    e.output = "error" \/ EmptyPreview(e.output) \/ Harm(e) >= 20 \/ Drop(e) >= 12

-----------------------------------------------------------------------------
LowestOut(edges, S) ==
    edges[CHOOSE i \in S : \A j \in S : edges[i].cout <= edges[j].cout].cout

\* reconcileEdgeConfidenceChain(): confidence_in comes from the hops that led
\* to the edge, or from the hop before when the run forks or goes on there.
ConfidenceIn(edges, i) ==
    LET e == edges[i]
        AtHop(h) == {j \in DOMAIN edges : edges[j].hop = h}
        earlier == {j \in DOMAIN edges : edges[j].hop < e.hop}
        leading == {j \in earlier : edges[j].to = e.from}
        previous == {j \in earlier : \A k \in earlier : edges[k].hop <= edges[j].hop}
    IN CASE earlier = {} -> e.cin
         [] leading # {} -> LowestOut(edges, leading)
         [] leading = {} /\ earlier # {}
              /\ (Cardinality(AtHop(e.hop)) > 1 \/ Cardinality(previous) = 1)
            -> LowestOut(edges, previous)
         [] OTHER -> e.cin

Reconcile(edges) == [i \in DOMAIN edges |-> [edges[i] EXCEPT !.cin = ConfidenceIn(edges, i)]]

\* inferLayout().
InferLayout(edges) ==
    LET D == DOMAIN edges
        fork == \E i, j \in D : i # j /\ edges[i].from = edges[j].from
        join == \E i, j \in D : /\ i # j /\ edges[i].to = edges[j].to
                                /\ edges[i].from # edges[i].to
                                /\ edges[j].from # edges[j].to
    IN CASE Len(edges) <= 1 -> "linear"
         [] Len(edges) > 1 /\ \E i, j \in D : /\ edges[i].hop = edges[j].hop
                                              /\ edges[i].from # edges[j].from -> "parallel"
         [] OTHER -> IF ~fork /\ ~join /\ \A i \in D : ByHop(edges)[i].hop = i - 1
                     THEN "linear" ELSE "dag"

\* The bucket the number of agents falls into.
Complexity(n) ==
    CASE n <= 2 -> "Simple" [] n = 3 -> "Moderate" [] n = 4 -> "Moderate+"
      [] n \in {5, 6} -> "Complex" [] OTHER -> "Advanced"
==============================================================================

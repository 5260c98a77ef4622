------------------------- MODULE BlamePipeline_proofs -------------------------
(***************************************************************************)
(* What holds of the blame pipeline for every number of runs, hops,        *)
(* replicas, completions and losses, under BlamePipelineAssumption alone:  *)
(* a run's two rows agree (RowsAgree), a report covers what had landed     *)
(* (CoversLanded), a row goes back only after a repetition                 *)
(* (NoStaleOverwrite), and when nothing is left to do every row is that of *)
(* the run's last completion (Converged).                                  *)
(*                                                                         *)
(* None of the four is inductive.  The invariant has five layers, each     *)
(* proved with the help of those above it:                                 *)
(*   Base      types, offsets within the logs, and that every row and      *)
(*             every handler refers to a completion that was forwarded;    *)
(*   Lands     what was read, shown or covered had landed;                 *)
(*   Rows      while no replica lost the partition in the middle of a      *)
(*             message, the owner alone is at work, on the last message    *)
(*             it took, and its rows are what it computed;                 *)
(*   Order     while nothing was repeated, blame.needed is increasing and  *)
(*             the rows are older than every message not yet taken;        *)
(*   Progress  whatever the aggregator has passed is in blame.needed with  *)
(*             nothing older behind it, and the last message of a run that *)
(*             was handled is what its rows show.                          *)
(***************************************************************************)
EXTENDS BlamePipeline, SequenceRanges, WellFoundedInduction, TLAPS

(* How many completions the aggregator, and messages the processor, have   *)
(* handled; a consumer that joins resumes there or before.                 *)
Relayed ==
  IF ~aggregator.up THEN aggregator.group.committed
  ELSE IF aggregator.busy THEN aggregator.group.next - 1 ELSE aggregator.group.next
Processed ==
  IF owner = None THEN group.committed
  ELSE IF Free(owner) THEN group.next ELSE group.next - 1

(* The stages of a handler, and what it keeps of a message.                *)
Stages == {"idle", "fetch", "saveRun", "saveReport", "announce"}
Message == [stage : Stages, event : Nat, attempt : Nat, used : SUBSET Hops]

(* The types of the variables that the other parts speak of.               *)
Types ==
  /\ edges \in [RunIds -> SUBSET Hops]
  /\ completed \in Seq([run : RunIds, failed : BOOLEAN]) /\ Len(completed) <= MaxEvents
  /\ needed \in Seq(1..Len(completed))
  /\ aggregator \in [up : BOOLEAN, busy : BOOLEAN, group : Group]
  /\ group \in Group
  /\ owner \in Replicas \cup {None}
  /\ handler \in [Replicas -> Message]
  /\ runRow = [r \in RunIds |-> runRow[r]] /\ reportRow = [r \in RunIds |-> reportRow[r]]
  /\ layout \in [RunIds -> SUBSET Hops]
  /\ covers \in [Event -> SUBSET Hops]
  /\ announced \subseteq [run : RunIds, event : Event]
  /\ repeats \in BOOLEAN /\ contended \in BOOLEAN

(* Offsets stay within the logs, and behind what has been handled.         *)
Offsets ==
  /\ aggregator.group.durable /\ aggregator.group.committed <= Relayed
  /\ aggregator.group.committed <= Len(completed)
  /\ aggregator.up => aggregator.group.next <= Len(completed)
  /\ aggregator.busy => aggregator.up
  /\ group.durable /\ group.committed <= Len(needed)
  /\ owner # None => group.committed <= group.next /\ group.next <= Len(needed)
  /\ contended => repeats

(* A busy handler, and a row that was written, refer to a completion that  *)
(* was forwarded, the row to one of its own run.                           *)
Sources ==
  /\ \A w \in Replicas :
       IF Doing(w, "idle") THEN Free(w) ELSE handler[w].event \in Range(needed)
  /\ \A r \in RunIds :
       /\ runRow[r] # NoRow =>
            runRow[r].event \in Range(needed) /\ RunOf(runRow[r].event) = r
       /\ reportRow[r] # NoRow =>
            reportRow[r].event \in Range(needed) /\ RunOf(reportRow[r].event) = r

(* What is shown, covered or read had landed, and what was read holds what *)
(* its message covers.                                                     *)
Landing ==
  /\ \A r \in RunIds : layout[r] \subseteq edges[r]
  /\ \A i \in Range(needed) : covers[i] \subseteq edges[RunOf(i)]
  /\ \A w \in Replicas : Doing(w, "saveRun") \/ Doing(w, "saveReport") =>
       covers[handler[w].event] \subseteq handler[w].used /\ handler[w].used \subseteq edges[Now(w)]

(* Unless a replica lost the partition while it was busy, only the owner   *)
(* is, with the last message it took, and what it wrote is in the rows.    *)
Alone ==
  ~contended => \A w \in Replicas : ~Doing(w, "idle") =>
    /\ w = owner
    /\ group.committed < group.next /\ handler[w].event = needed[group.next]
    /\ Doing(w, "saveRun") \/ Doing(w, "saveReport") => layout[Now(w)] \subseteq handler[w].used
    /\ Doing(w, "saveReport") => runRow[Now(w)] = Result(w)
    /\ Doing(w, "announce") => runRow[Now(w)] = Result(w) /\ reportRow[Now(w)] = Result(w)

(* A report that is about to be announced exists.                          *)
Found == \A w \in Replicas : Doing(w, "announce") => reportRow[Now(w)] # NoRow

(* While nothing was repeated, the messages are in order and those not yet *)
(* taken are newer than the rows.                                          *)
InOrder ==
  ~repeats =>
    /\ ~aggregator.up => needed = <<>> /\ aggregator.group.committed = 0
    /\ owner = None => group.next = 0 /\ group.committed = 0
    /\ \A p \in 1..Len(needed) : needed[p] <= Relayed
    /\ \A p, q \in 1..Len(needed) : p < q => needed[p] < needed[q]
    /\ \A r \in RunIds, p \in 1..Len(needed) :
         group.next < p => runRow[r].event < needed[p] /\ reportRow[r].event < needed[p]
    /\ \A r \in RunIds, w \in Replicas : ~Doing(w, "idle") =>
         runRow[r].event <= handler[w].event /\ reportRow[r].event <= handler[w].event

(* A completion that the aggregator has passed is in blame.needed, and     *)
(* from there on nothing older is.                                         *)
Relaying ==
  \A i \in 1..Relayed : \E p \in 1..Len(needed) :
    needed[p] = i /\ \A q \in p..Len(needed) : needed[q] >= i

(* The last handled message of a run, when none of that run follows, is    *)
(* what its rows show, unless it was given up.                             *)
Reached ==
  ~contended => \A p \in 1..Len(needed) :
    LET r == RunOf(needed[p]) IN
    /\ p <= Processed
    /\ \A q \in (p + 1)..Len(needed) : RunOf(needed[q]) # r
    => \/ needed[p] \in dropped
       \/ runRow[r].event = needed[p] /\ reportRow[r].event = needed[p]

Base == Types /\ Offsets /\ Sources

-----------------------------------------------------------------------------
(* Base: the facts each step needs of the state before, then the steps.    *)
LEMMA Elements == ASSUME NEW S, NEW s \in Seq(S), NEW i \in 1..Len(s) PROVE s[i] \in S
  OBVIOUS

LEMMA NeededFacts ==
  ASSUME Types
  PROVE  /\ Len(needed) \in Nat /\ Len(completed) \in Nat
         /\ Range(needed) \subseteq 1..Len(completed)
         /\ \A p \in 1..Len(needed) : needed[p] \in Range(needed)
         /\ \A i \in Range(needed) : \E p \in 1..Len(needed) : needed[p] = i
         /\ \A i \in 1..Len(completed) : i \in Event /\ RunOf(i) \in RunIds
<1>1. /\ needed \in Seq(1..Len(completed)) /\ completed \in Seq([run : RunIds, failed : BOOLEAN])
      /\ Len(completed) <= MaxEvents
  BY DEF Types
<1>2. Range(needed) \subseteq 1..Len(completed) BY <1>1, RangeType
<1>3. \A i \in 1..Len(completed) : completed[i] \in [run : RunIds, failed : BOOLEAN]
  BY <1>1, Elements
<1>4. \A i \in 1..Len(completed) : completed[i].run \in RunIds BY <1>3
<1>5. \A i \in 1..Len(completed) : i \in Event BY <1>1, BlamePipelineAssumption DEF Event
<1> QED BY <1>1, <1>2, <1>4, <1>5 DEF RunOf, Range

(* What a handler is after a step of its replica, and the others.          *)
LEMMA HandlerSteps ==
  ASSUME Types, NEW w \in Replicas
  PROVE  /\ \A stage \in Stages : Go(w, stage) =>
              /\ handler' \in [Replicas -> Message]
              /\ handler'[w].stage = stage /\ handler'[w].event = handler[w].event
              /\ handler'[w].used = handler[w].used
              /\ \A v \in Replicas \ {w} : handler'[v] = handler[v]
         /\ Finish(w) =>
              /\ handler' \in [Replicas -> Message] /\ handler'[w] = NoMessage
              /\ \A v \in Replicas \ {w} : handler'[v] = handler[v]
<1>1. handler \in [Replicas -> Message] BY DEF Types
<1>2. ASSUME NEW stage \in Stages, Go(w, stage)
      PROVE  /\ handler' \in [Replicas -> Message]
             /\ handler'[w].stage = stage /\ handler'[w].event = handler[w].event
             /\ handler'[w].used = handler[w].used
             /\ \A v \in Replicas \ {w} : handler'[v] = handler[v]
  BY <1>1, <1>2 DEF Go, Message
<1>3. ASSUME Finish(w)
      PROVE  /\ handler' \in [Replicas -> Message] /\ handler'[w] = NoMessage
             /\ \A v \in Replicas \ {w} : handler'[v] = handler[v]
  <2>1. NoMessage \in Message BY DEF NoMessage, Message, Stages
  <2> QED BY <1>1, <1>3, <2>1 DEF Finish
<1> QED BY <1>2, <1>3

LEMMA StoredFacts ==
  ASSUME NEW g \in Group, NEW busy \in BOOLEAN, NEW h \in Stored(g, busy)
  PROVE  /\ h \in Group /\ h.next = g.next /\ g.committed <= h.committed
         /\ g.durable => h.durable
         /\ \/ h.committed = g.committed
            \/ h.committed <= IF busy THEN g.next - 1 ELSE g.next
<1>1. CASE h = g BY <1>1 DEF Group
<1> DEFINE done == IF busy THEN g.next - 1 ELSE g.next
<1>2. g.next \in Nat /\ g.committed \in Nat /\ done \in Int BY DEF Group
<1>3. ASSUME NEW n \in (g.committed + 1)..done, h = [g EXCEPT !.committed = n, !.durable = TRUE]
      PROVE  /\ h \in Group /\ h.next = g.next /\ g.committed <= h.committed
             /\ h.durable /\ h.committed <= done
  <2>1. n \in Nat /\ g.committed <= n /\ n <= done BY <1>2
  <2>2. h.committed = n /\ h.durable /\ h.next = g.next /\ h \in Group
    BY <1>3, <2>1 DEF Group
  <2> QED BY <2>1, <2>2
<1>4. h = g \/ \E n \in (g.committed + 1)..done : h = [g EXCEPT !.committed = n, !.durable = TRUE]
  BY DEF Stored, Commits
<1> QED BY <1>1, <1>3, <1>4

(* Who steps without touching what Base is about, or what it sees.         *)
LEMMA LandBase == ASSUME Base, NEW r \in RunIds, NEW h \in Hops, Land(r, h) PROVE Base'
<1>1. /\ edges' \in [RunIds -> SUBSET Hops]
      /\ UNCHANGED <<topics, aggregator, group, owner, handler, rows, announced, history>>
  BY DEF Land, Base, Types
<1> QED BY <1>1 DEF Base, Types, Offsets, Sources, Relayed, topics, rows, history, Doing, Free, Now, RunOf

LEMMA CompleteBase ==
  ASSUME Base, NEW r \in RunIds, NEW failed \in BOOLEAN, Complete(r, failed) PROVE Base'
<1>1. /\ completed' = Append(completed, [run |-> r, failed |-> failed])
      /\ Len(completed) < MaxEvents
      /\ UNCHANGED <<edges, needed, aggregator, group, owner, handler, rows, announced, history>>
  BY DEF Complete
<1>2. /\ completed' \in Seq([run : RunIds, failed : BOOLEAN]) /\ Len(completed') = Len(completed) + 1
      /\ Len(completed) \in Nat
      /\ \A i \in 1..Len(completed) : completed'[i] = completed[i]
  BY <1>1 DEF Base, Types
<1>3. needed' \in Seq(1..Len(completed'))
  <2>1. needed \in Seq(1..Len(completed)) BY DEF Base, Types
  <2>2. \A p \in 1..Len(needed) : needed[p] \in 1..Len(completed') BY <1>2, <2>1, Elements
  <2> QED BY <1>1, <2>1, <2>2
<1>4. Types' BY <1>1, <1>2, <1>3, BlamePipelineAssumption DEF Base, Types, rows, history
<1>5. Offsets' BY <1>1, <1>2 DEF Base, Types, Offsets, Relayed, Group, history
<1>6. Sources'
  <2>1. \A i \in Range(needed) : RunOf(i)' = RunOf(i)
    BY <1>2, NeededFacts DEF Base, RunOf
  <2>2. UNCHANGED <<needed, handler, runRow, reportRow>> BY <1>1 DEF rows
  <2> QED BY <2>1, <2>2 DEF Base, Sources, Doing, Free
<1> QED BY <1>4, <1>5, <1>6 DEF Base

LEMMA AggregatorBase ==
  ASSUME Base, AggregatorJoin \/ AggregatorTake \/ AggregatorExit PROVE Base'
<1>1. /\ UNCHANGED <<edges, topics, group, owner, handler, rows, announced, covers, dropped, cut, contended>>
      /\ (repeats => repeats') /\ repeats' \in BOOLEAN
  BY DEF AggregatorJoin, AggregatorTake, AggregatorExit, history, Base, Types
<1>2. Sources' BY <1>1 DEF Base, Sources, topics, rows, Doing, Free, RunOf
<1>3. ASSUME aggregator' \in [up : BOOLEAN, busy : BOOLEAN, group : Group],
             aggregator'.group.durable, aggregator'.group.committed <= Relayed',
             aggregator'.group.committed <= Len(completed),
             aggregator'.up => aggregator'.group.next <= Len(completed),
             aggregator'.busy => aggregator'.up
      PROVE  Base'
  <2>1. Types' BY <1>1, <1>3 DEF Base, Types, topics, rows
  <2>2. UNCHANGED <<group, owner, needed, completed, contended>> BY <1>1 DEF topics
  <2>3. contended' => repeats' BY <1>1 DEF Base, Offsets
  <2>4. Offsets' BY <1>3, <2>2, <2>3 DEF Base, Offsets
  <2> QED BY <1>2, <2>1, <2>4 DEF Base
<1> DEFINE g == aggregator.group
<1>4. aggregator \in [up : BOOLEAN, busy : BOOLEAN, group : Group] /\ g \in Group
  BY DEF Base, Types
<1>5. /\ g.durable /\ g.committed <= Relayed /\ g.committed <= Len(completed)
      /\ aggregator.up => g.next <= Len(completed)
      /\ Len(completed) \in Nat
  BY NeededFacts DEF Base, Offsets
<1>6. CASE AggregatorJoin
  <2>1. /\ aggregator' = [up |-> TRUE, busy |-> FALSE, group |-> Joined(g, Len(completed))]
        /\ Joined(g, Len(completed)) = [g EXCEPT !.next = g.committed, !.committed = g.committed]
    BY <1>5, <1>6 DEF AggregatorJoin, Joined
  <2>2. Joined(g, Len(completed)) \in Group BY <1>4, <2>1 DEF Group
  <2>3. /\ aggregator'.up /\ ~aggregator'.busy /\ aggregator'.group = Joined(g, Len(completed))
        /\ Relayed' = g.committed /\ aggregator'.group.committed = g.committed
        /\ aggregator'.group.durable /\ aggregator'.group.next = g.committed
    BY <1>4, <1>5, <2>1 DEF Relayed, Group
  <2>4. g.committed <= g.committed BY <1>4 DEF Group
  <2> QED BY <1>3, <1>5, <2>1, <2>2, <2>3, <2>4
<1>7. CASE AggregatorTake
  <2>1. /\ aggregator' = [aggregator EXCEPT !.busy = TRUE, !.group = Fetched(g)]
        /\ aggregator.up /\ ~aggregator.busy /\ g.next < Len(completed)
        /\ Fetched(g) = [g EXCEPT !.next = g.next + 1]
    BY <1>7 DEF AggregatorTake, Fetched
  <2>2. Fetched(g) \in Group BY <1>4, <2>1 DEF Group
  <2>3. /\ aggregator'.up /\ aggregator'.busy /\ aggregator'.group = Fetched(g)
        /\ aggregator' \in [up : BOOLEAN, busy : BOOLEAN, group : Group]
    BY <1>4, <2>1, <2>2
  <2>4. /\ Fetched(g).committed = g.committed /\ Fetched(g).durable = g.durable
        /\ Fetched(g).next = g.next + 1 /\ g.next \in Nat
    BY <1>4, <2>1 DEF Group
  <2>5. Relayed' = aggregator'.group.next - 1 BY <2>3 DEF Relayed
  <2>6. Relayed = g.next BY <2>1 DEF Relayed
  <2>7. aggregator'.group.next - 1 = g.next BY <2>3, <2>4
  <2>8. g.next + 1 <= Len(completed) BY <1>5, <2>1, <2>4
  <2> QED BY <1>3, <1>5, <2>3, <2>4, <2>5, <2>6, <2>7, <2>8
<1>8. CASE AggregatorExit
  <2>1. PICK h \in Stored(g, aggregator.busy) : aggregator' = [up |-> FALSE, busy |-> FALSE, group |-> h]
    BY <1>8 DEF AggregatorExit
  <2>2. aggregator.up BY <1>8 DEF AggregatorExit
  <2>3. h \in Group /\ h.durable /\ h.committed <= Len(completed)
    BY <1>4, <1>5, <2>2, StoredFacts DEF Group
  <2> QED BY <1>3, <2>1, <2>3 DEF Relayed, Group
<1> QED BY <1>6, <1>7, <1>8
(* The completion that is forwarded is one of the log, and needed grows.   *)
LEMMA ForwardFacts ==
  ASSUME Base, NEW o \in Outcomes, Forward(o)
  PROVE  LET i == aggregator.group.next IN
         /\ aggregator.up /\ aggregator.busy /\ i \in 1..Len(completed) /\ Relayed = i - 1
         /\ \/ o = "ok" /\ Relayed' = i /\ repeats' = repeats
            \/ o # "ok" /\ Relayed' = i - 1 /\ repeats'
         /\ aggregator'.up /\ ~aggregator'.busy
         /\ aggregator' \in [up : BOOLEAN, busy : BOOLEAN, group : Group]
         /\ aggregator'.group.committed = aggregator.group.committed
         /\ aggregator'.group.durable /\ aggregator'.group.next = Relayed'
         /\ \/ /\ o # "fail"
               /\ needed' = Append(needed, i) /\ Range(needed') = Range(needed) \cup {i}
               /\ Len(needed') = Len(needed) + 1 /\ needed'[Len(needed) + 1] = i
               /\ \A p \in 1..Len(needed) : needed'[p] = needed[p]
            \/ o = "fail" /\ needed' = needed
         /\ needed' \in Seq(1..Len(completed))
<1> DEFINE g == aggregator.group
           i == g.next
<1>1. /\ aggregator \in [up : BOOLEAN, busy : BOOLEAN, group : Group] /\ g \in Group
      /\ needed \in Seq(1..Len(completed)) /\ aggregator.busy
  BY DEF Base, Types, Forward
<1>2. /\ aggregator.up /\ g.committed <= Relayed /\ i <= Len(completed) /\ g.durable
      /\ Relayed = i - 1
  BY <1>1 DEF Base, Offsets, Relayed
<1>3. i \in 1..Len(completed)
  <2>1. i \in Nat /\ g.committed \in Nat /\ Len(completed) \in Nat BY <1>1, NeededFacts DEF Group, Base
  <2> QED BY <1>2, <2>1
<1>4. \/ o = "ok" /\ aggregator' = [aggregator EXCEPT !.busy = FALSE] /\ repeats' = repeats
      \/ /\ o # "ok" /\ aggregator' = [aggregator EXCEPT !.busy = FALSE, !.group = Refetch(g)]
         /\ repeats'
  BY DEF Forward
<1>5. /\ aggregator'.up /\ ~aggregator'.busy
      /\ aggregator' \in [up : BOOLEAN, busy : BOOLEAN, group : Group]
      /\ aggregator'.group.committed = g.committed /\ aggregator'.group.durable
      /\ \/ o = "ok" /\ aggregator'.group.next = i /\ repeats' = repeats
         \/ o # "ok" /\ aggregator'.group.next = i - 1 /\ repeats'
  <2>1. Refetch(g) = [g EXCEPT !.next = i - 1] /\ i - 1 \in Nat BY <1>3 DEF Refetch
  <2>2. Refetch(g) \in Group BY <1>1, <2>1 DEF Group
  <2>3. CASE o = "ok" BY <1>1, <1>2, <1>4, <2>3
  <2>4. CASE o # "ok"
    <3>1. aggregator' = [aggregator EXCEPT !.busy = FALSE, !.group = Refetch(g)] /\ repeats'
      BY <1>4, <2>4
    <3>2. /\ Refetch(g).committed = g.committed /\ Refetch(g).durable = g.durable
          /\ Refetch(g).next = i - 1
      BY <1>1, <2>1 DEF Group
    <3> QED BY <1>1, <1>2, <2>2, <2>4, <3>1, <3>2
  <2> QED BY <2>3, <2>4
<1>6. Relayed' = aggregator'.group.next BY <1>5 DEF Relayed
<1>7. /\ \/ /\ o # "fail"
            /\ needed' = Append(needed, i) /\ Range(needed') = Range(needed) \cup {i}
            /\ Len(needed') = Len(needed) + 1 /\ needed'[Len(needed) + 1] = i
            /\ \A p \in 1..Len(needed) : needed'[p] = needed[p]
         \/ o = "fail" /\ needed' = needed
      /\ needed' \in Seq(1..Len(completed))
  <2>1. (o # "fail" /\ needed' = Append(needed, i)) \/ (o = "fail" /\ needed' = needed)
    BY DEF Forward
  <2>2. /\ Append(needed, i) \in Seq(1..Len(completed))
        /\ Range(Append(needed, i)) = Range(needed) \cup {i}
    BY <1>1, <1>3, RangeAppend
  <2>3. /\ Len(Append(needed, i)) = Len(needed) + 1 /\ Append(needed, i)[Len(needed) + 1] = i
        /\ \A p \in 1..Len(needed) : Append(needed, i)[p] = needed[p]
    BY <1>1, <1>3
  <2> QED BY <1>1, <2>1, <2>2, <2>3
<1> QED BY <1>1, <1>2, <1>3, <1>5, <1>6, <1>7

LEMMA ForwardBase == ASSUME Base, NEW o \in Outcomes, Forward(o) PROVE Base'
<1> DEFINE i == aggregator.group.next
<1>1. /\ UNCHANGED <<edges, completed, group, owner, handler, rows, announced, dropped, cut, contended>>
      /\ covers' = covers \/ covers' = [covers EXCEPT ![i] = IF i \in Range(needed) THEN @
                                                           ELSE edges[RunOf(i)]]
  BY DEF Forward
<1>2. /\ Range(needed) \subseteq Range(needed') /\ Len(needed) <= Len(needed')
      /\ Len(needed) \in Nat
  BY ForwardFacts, NeededFacts DEF Base
<1>3. covers' \in [Event -> SUBSET Hops]
  <2>1. i \in Event /\ RunOf(i) \in RunIds BY ForwardFacts, NeededFacts DEF Base
  <2> QED BY <1>1, <2>1 DEF Base, Types
<1>4. repeats' \in BOOLEAN /\ (repeats => repeats') BY ForwardFacts DEF Base, Types
<1>5. Types'
  <2>1. aggregator' \in [up : BOOLEAN, busy : BOOLEAN, group : Group] /\ needed' \in Seq(1..Len(completed))
    BY ForwardFacts
  <2> QED BY <1>1, <1>3, <1>4, <2>1 DEF Base, Types, rows
<1>6. Offsets'
  <2>1. /\ aggregator'.group.durable /\ aggregator'.group.committed <= Relayed'
        /\ aggregator'.group.committed <= Len(completed)
        /\ aggregator'.up /\ aggregator'.group.next <= Len(completed)
    <3>1. aggregator.group.committed <= Relayed /\ aggregator.group.committed <= Len(completed)
          /\ aggregator.group \in Group
      BY DEF Base, Offsets, Types
    <3> QED BY <3>1, ForwardFacts DEF Group
  <2>2. contended' => repeats' BY <1>1, <1>4 DEF Base, Offsets
  <2>3. UNCHANGED <<group, owner, completed>> BY <1>1
  <2>4. group \in Group /\ Len(needed') \in Nat BY ForwardFacts DEF Base, Types
  <2> QED BY <1>2, <2>1, <2>2, <2>3, <2>4 DEF Base, Offsets, Group
<1>7. Sources'
  BY <1>1, <1>2 DEF Base, Sources, rows, Doing, Free, RunOf
<1> QED BY <1>5, <1>6, <1>7 DEF Base

(* What a step of the processor must establish.                            *)
LEMMA ProcessorBase ==
  ASSUME Base, UNCHANGED <<edges, topics, aggregator, covers>>,
         handler' \in [Replicas -> Message], group' \in Group, owner' \in Replicas \cup {None},
         runRow' = [r \in RunIds |-> runRow'[r]], reportRow' = [r \in RunIds |-> reportRow'[r]],
         layout' \in [RunIds -> SUBSET Hops], announced' \subseteq [run : RunIds, event : Event],
         repeats' \in BOOLEAN, contended' \in BOOLEAN, contended' => repeats',
         group'.durable, group'.committed <= Len(needed),
         owner' # None => group'.committed <= group'.next /\ group'.next <= Len(needed),
         Sources'
  PROVE  Base'
<1>1. Types' BY DEF Base, Types, topics
<1>2. Offsets' BY DEF Base, Offsets, topics, Relayed
<1> QED BY <1>1, <1>2 DEF Base
LEMMA Busy ==
  ASSUME Base, NEW w \in Replicas, ~Doing(w, "idle")
  PROVE  /\ handler[w].event \in Range(needed) /\ handler[w].event \in Event
         /\ handler[w].event \in 1..Len(completed) /\ Now(w) \in RunIds
         /\ handler[w] \in Message
<1>1. handler[w].event \in Range(needed) BY DEF Base, Sources
<1> QED BY <1>1, NeededFacts DEF Base, Types, Now

(* A handler is idle, or handles a message that was forwarded.             *)
LEMMA SourcesKept ==
  ASSUME Base, NEW w \in Replicas, UNCHANGED topics,
         \A v \in Replicas \ {w} : handler'[v] = handler[v],
         IF Doing(w, "idle")' THEN handler'[w] = NoMessage ELSE handler'[w].event \in Range(needed),
         \A r \in RunIds :
           /\ runRow'[r] # runRow[r] => ~Doing(w, "idle") /\ r = Now(w) /\ runRow'[r] = Result(w)
           /\ reportRow'[r] # reportRow[r] => ~Doing(w, "idle") /\ r = Now(w) /\ reportRow'[r] = Result(w)
  PROVE  Sources'
<1>1. UNCHANGED <<needed, completed>> BY DEF topics
<1>2. \A v \in Replicas : IF Doing(v, "idle")' THEN Free(v)' ELSE handler'[v].event \in Range(needed)
  BY DEF Base, Sources, Doing, Free
<1>3. Result(w).event = handler[w].event BY DEF Result, RowFor
<1>4. ~Doing(w, "idle") => handler[w].event \in Range(needed) BY DEF Base, Sources
<1>5. \A r \in RunIds :
        /\ runRow'[r] # NoRow => runRow'[r].event \in Range(needed) /\ RunOf(runRow'[r].event) = r
        /\ reportRow'[r] # NoRow => reportRow'[r].event \in Range(needed) /\ RunOf(reportRow'[r].event) = r
  BY <1>3, <1>4 DEF Base, Sources, Now
<1> QED BY <1>1, <1>2, <1>5 DEF Sources, RunOf

LEMMA JoinBase == ASSUME Base, NEW w \in Replicas, Join(w) PROVE Base'
<1>1. /\ group' = Joined(group, Len(needed)) /\ owner' = w
      /\ UNCHANGED <<edges, topics, aggregator, handler, rows, announced, history>>
  BY DEF Join
<1>2. group \in Group /\ group.durable /\ group.committed <= Len(needed)
  BY DEF Base, Types, Offsets
<1>3. group' = [group EXCEPT !.next = group.committed, !.committed = group.committed]
  BY <1>1, <1>2 DEF Joined
<1>4. /\ group' \in Group /\ group'.durable /\ group'.committed = group.committed
      /\ group'.next = group.committed /\ group.committed <= group.committed
  <2>1. group.committed \in Nat BY <1>2 DEF Group
  <2>2. group' \in Group BY <1>2, <1>3, <2>1 DEF Group
  <2>3. group'.durable = group.durable /\ group'.committed = group.committed /\ group'.next = group.committed
    BY <1>2, <1>3 DEF Group
  <2> QED BY <1>2, <2>1, <2>2, <2>3
<1>5. Sources' BY <1>1 DEF Base, Sources, topics, rows, Doing, Free, RunOf
<1>6. /\ repeats' \in BOOLEAN /\ contended' \in BOOLEAN /\ (contended' => repeats')
      /\ UNCHANGED <<covers, runRow, reportRow, layout>>
  BY <1>1 DEF history, rows, Base, Types, Offsets
<1> QED BY <1>1, <1>2, <1>4, <1>5, <1>6, ProcessorBase DEF Base, Types

LEMMA TakeFacts ==
  ASSUME Base, NEW w \in Replicas, Take(w)
  PROVE  /\ owner = w /\ Doing(w, "idle") /\ Free(w)
         /\ group \in Group /\ group' \in Group /\ group'.next = group.next + 1
         /\ group'.committed = group.committed /\ group'.durable
         /\ group.committed <= group.next /\ group.next + 1 \in 1..Len(needed)
         /\ handler' \in [Replicas -> Message]
         /\ handler'[w].stage = "fetch" /\ handler'[w].event = needed[group.next + 1]
         /\ \A v \in Replicas \ {w} : handler'[v] = handler[v]
         /\ UNCHANGED <<edges, topics, aggregator, owner, rows, announced, history>>
<1>1. /\ owner = w /\ Free(w) /\ group.next < Len(needed) /\ group' = Fetched(group)
      /\ handler' = [handler EXCEPT ![w] =
                       [NoMessage EXCEPT !.stage = "fetch", !.event = needed[group.next + 1]]]
      /\ UNCHANGED <<edges, topics, aggregator, owner, rows, announced, history>>
  BY DEF Take
<1>2. /\ group \in Group /\ group.durable /\ handler \in [Replicas -> Message]
      /\ group.committed <= group.next
  BY <1>1, BlamePipelineAssumption DEF Base, Types, Offsets
<1>3. Doing(w, "idle") BY <1>1 DEF Free, Doing, NoMessage
<1>4. group' = [group EXCEPT !.next = group.next + 1] BY <1>1 DEF Fetched
<1>5. /\ group' \in Group /\ group'.next = group.next + 1
      /\ group'.committed = group.committed /\ group'.durable
  BY <1>2, <1>4 DEF Group
<1>6. group.next + 1 \in 1..Len(needed)
  BY <1>1, <1>2, NeededFacts DEF Base, Group
<1>7. needed[group.next + 1] \in Nat BY <1>6, NeededFacts DEF Base
<1> DEFINE m == [NoMessage EXCEPT !.stage = "fetch", !.event = needed[group.next + 1]]
<1>8. m \in Message /\ m.stage = "fetch" /\ m.event = needed[group.next + 1]
  BY <1>7 DEF NoMessage, Message, Stages
<1> QED BY <1>1, <1>2, <1>3, <1>5, <1>6, <1>8

LEMMA TakeBase == ASSUME Base, NEW w \in Replicas, Take(w) PROVE Base'
<1>1. needed[group.next + 1] \in Range(needed) BY TakeFacts, NeededFacts DEF Base
<1>2. /\ UNCHANGED <<covers, runRow, reportRow, layout>> /\ UNCHANGED topics
      /\ repeats' \in BOOLEAN /\ contended' \in BOOLEAN /\ (contended' => repeats')
  BY TakeFacts DEF history, rows, Base, Types, Offsets
<1>3. Sources' BY <1>1, <1>2, TakeFacts, SourcesKept DEF Doing
<1>4. /\ group'.committed <= Len(needed)
      /\ owner' # None => group'.committed <= group'.next /\ group'.next <= Len(needed)
  BY TakeFacts DEF Group, Base, Offsets
<1> QED BY <1>2, <1>3, <1>4, TakeFacts, ProcessorBase DEF Base, Types
(* A read: the edges are taken, or it is tried again, or given up.         *)
LEMMA FetchFacts ==
  ASSUME Base, NEW w \in Replicas, FetchEdges(w) \/ FetchFails(w)
  PROVE  /\ Doing(w, "fetch")
         /\ handler' \in [Replicas -> Message]
         /\ \A v \in Replicas \ {w} : handler'[v] = handler[v]
         /\ \/ /\ handler'[w].stage = "saveRun" /\ handler'[w].event = handler[w].event
               /\ handler'[w].used = edges[Now(w)] /\ dropped' = dropped
            \/ /\ handler'[w].stage = "fetch" /\ handler'[w].event = handler[w].event
               /\ dropped' = dropped
            \/ handler'[w] = NoMessage /\ dropped' = dropped \cup {handler[w].event}
         /\ UNCHANGED <<edges, topics, aggregator, group, owner, rows, announced,
                        covers, cut, repeats, contended, losses>>
<1>1. /\ Doing(w, "fetch")
      /\ UNCHANGED <<edges, topics, aggregator, group, owner, rows, announced,
                     covers, cut, repeats, contended, losses>>
  BY DEF FetchEdges, FetchFails
<1>2. handler \in [Replicas -> Message] /\ handler[w] \in Message /\ edges \in [RunIds -> SUBSET Hops]
  BY DEF Base, Types
<1>3. ~Doing(w, "idle") BY <1>1 DEF Doing
<1>4. edges[Now(w)] \in SUBSET Hops BY <1>2, <1>3, Busy
<1>5. ASSUME handler' = [handler EXCEPT ![w].stage = "saveRun", ![w].used = edges[Now(w)]]
      PROVE  /\ handler' \in [Replicas -> Message]
             /\ \A v \in Replicas \ {w} : handler'[v] = handler[v]
             /\ handler'[w].stage = "saveRun" /\ handler'[w].event = handler[w].event
             /\ handler'[w].used = edges[Now(w)]
  BY <1>2, <1>4, <1>5 DEF Message, Stages
<1>6. ASSUME handler' = [handler EXCEPT ![w].attempt = handler[w].attempt + 1]
      PROVE  /\ handler' \in [Replicas -> Message]
             /\ \A v \in Replicas \ {w} : handler'[v] = handler[v]
             /\ handler'[w].stage = "fetch" /\ handler'[w].event = handler[w].event
  BY <1>1, <1>2, <1>6 DEF Message, Doing
<1>7. CASE GiveUp(w) BY <1>1, <1>7, HandlerSteps DEF GiveUp, Base
<1>8. \/ /\ handler' = [handler EXCEPT ![w].stage = "saveRun", ![w].used = edges[Now(w)]]
         /\ dropped' = dropped
      \/ /\ handler' = [handler EXCEPT ![w].attempt = handler[w].attempt + 1]
         /\ dropped' = dropped
      \/ GiveUp(w)
  BY DEF FetchEdges, FetchFails
<1> QED BY <1>1, <1>5, <1>6, <1>7, <1>8

LEMMA FetchBase ==
  ASSUME Base, NEW w \in Replicas, FetchEdges(w) \/ FetchFails(w) PROVE Base'
<1>1. ~Doing(w, "idle") BY FetchFacts DEF Doing
<1>2. /\ UNCHANGED <<runRow, reportRow, layout>> /\ UNCHANGED topics
      /\ UNCHANGED <<edges, topics, aggregator, covers>>
      /\ UNCHANGED <<group, owner, announced, repeats, contended>>
  BY FetchFacts DEF rows
<1>3. IF Doing(w, "idle")' THEN handler'[w] = NoMessage ELSE handler'[w].event \in Range(needed)
  BY <1>1, FetchFacts, Busy DEF Doing, NoMessage
<1>4. Sources' BY <1>2, <1>3, FetchFacts, SourcesKept
<1>5. handler' \in [Replicas -> Message] BY FetchFacts
<1> QED BY <1>2, <1>4, <1>5, ProcessorBase DEF Base, Types, Offsets

(* A write of the processor, or the announcement, with what it writes.     *)
LEMMA WriteFacts ==
  ASSUME Base, NEW w \in Replicas, NEW o \in Outcomes,
         SaveRun(w, o) \/ SaveReport(w, o) \/ Announce(w, o)
  PROVE  /\ ~Doing(w, "idle")
         /\ handler' \in [Replicas -> Message]
         /\ \A v \in Replicas \ {w} : handler'[v] = handler[v]
         /\ \/ /\ o = "ok" /\ ~Doing(w, "announce") /\ dropped' = dropped
               /\ handler'[w].stage = (IF Doing(w, "saveRun") THEN "saveReport" ELSE "announce")
               /\ handler'[w].event = handler[w].event /\ handler'[w].used = handler[w].used
            \/ /\ o # "ok" /\ ~Doing(w, "announce")
               /\ handler'[w] = NoMessage /\ dropped' = dropped \cup {handler[w].event}
            \/ /\ Doing(w, "announce")
               /\ handler'[w] = NoMessage /\ dropped' = dropped
         /\ UNCHANGED <<edges, topics, aggregator, group, owner, covers, repeats, contended, losses>>
<1>1. Base /\ Types BY DEF Base
<1>2. CASE SaveRun(w, o)
  <2>1. /\ Doing(w, "saveRun")
        /\ (o = "ok" /\ Go(w, "saveReport") /\ dropped' = dropped) \/ (o # "ok" /\ GiveUp(w))
        /\ UNCHANGED <<edges, topics, aggregator, group, owner, covers, repeats, contended, losses>>
    BY <1>2 DEF SaveRun
  <2>2. ~Doing(w, "idle") /\ ~Doing(w, "announce") BY <2>1 DEF Doing
  <2> QED BY <1>1, <2>1, <2>2, HandlerSteps DEF GiveUp, Stages
<1>3. CASE SaveReport(w, o)
  <2>1. /\ Doing(w, "saveReport")
        /\ (o = "ok" /\ Go(w, "announce") /\ dropped' = dropped) \/ (o # "ok" /\ GiveUp(w))
        /\ UNCHANGED <<edges, topics, aggregator, group, owner, covers, repeats, contended, losses>>
    BY <1>3 DEF SaveReport
  <2>2. ~Doing(w, "idle") /\ ~Doing(w, "announce") /\ ~Doing(w, "saveRun") BY <2>1 DEF Doing
  <2> QED BY <1>1, <2>1, <2>2, HandlerSteps DEF GiveUp, Stages
<1>4. CASE Announce(w, o)
  <2>1. /\ Doing(w, "announce") /\ Finish(w) /\ dropped' = dropped
        /\ UNCHANGED <<edges, topics, aggregator, group, owner, covers, repeats, contended, losses>>
    BY <1>4 DEF Announce, history
  <2>2. ~Doing(w, "idle") BY <2>1 DEF Doing
  <2> QED BY <1>1, <2>1, <2>2, HandlerSteps
<1> QED BY <1>2, <1>3, <1>4

(* What each write does to the rows.                                       *)
LEMMA SaveRunRows ==
  ASSUME Base, NEW w \in Replicas, NEW o \in Outcomes, SaveRun(w, o)
  PROVE  /\ Doing(w, "saveRun")
         /\ runRow' = [r \in RunIds |-> runRow'[r]] /\ layout' \in [RunIds -> SUBSET Hops]
         /\ UNCHANGED <<reportRow, announced>>
         /\ \A r \in RunIds \ {Now(w)} : runRow'[r] = runRow[r] /\ layout'[r] = layout[r]
         /\ \/ o = "fail" /\ UNCHANGED <<runRow, layout>>
            \/ /\ o # "fail" /\ runRow'[Now(w)] = Result(w)
               /\ layout'[Now(w)] = IF runRow[Now(w)] = NoRow THEN handler[w].used ELSE layout[Now(w)]
         /\ cut' = IF o = "lostReply" THEN cut \cup {Now(w)} ELSE cut
<1>1. /\ Doing(w, "saveRun") /\ UNCHANGED <<reportRow, announced>>
      /\ cut' = IF o = "lostReply" THEN cut \cup {Now(w)} ELSE cut
      /\ \/ o = "fail" /\ UNCHANGED <<runRow, layout>>
         \/ /\ o # "fail" /\ runRow' = [runRow EXCEPT ![Now(w)] = Result(w)]
            /\ layout' = [layout EXCEPT ![Now(w)] =
                            IF runRow[Now(w)] = NoRow THEN handler[w].used ELSE layout[Now(w)]]
  BY DEF SaveRun
<1>2. ~Doing(w, "idle") BY <1>1 DEF Doing
<1>3. Now(w) \in RunIds /\ handler[w].used \in SUBSET Hops BY <1>2, Busy DEF Message
<1>4. /\ runRow = [r \in RunIds |-> runRow[r]] /\ layout \in [RunIds -> SUBSET Hops]
  BY DEF Base, Types
<1>5. CASE o = "fail" BY <1>1, <1>4, <1>5
<1>6. CASE o # "fail" BY <1>1, <1>3, <1>4, <1>6
<1> QED BY <1>5, <1>6

LEMMA SaveReportRows ==
  ASSUME Base, NEW w \in Replicas, NEW o \in Outcomes, SaveReport(w, o)
  PROVE  /\ Doing(w, "saveReport")
         /\ reportRow' = [r \in RunIds |-> reportRow'[r]]
         /\ UNCHANGED <<runRow, layout, announced>>
         /\ \A r \in RunIds \ {Now(w)} : reportRow'[r] = reportRow[r]
         /\ \/ o = "fail" /\ UNCHANGED reportRow /\ cut' = cut \cup {Now(w)}
            \/ o # "fail" /\ reportRow'[Now(w)] = Result(w) /\ cut' = cut \ {Now(w)}
<1>1. /\ Doing(w, "saveReport") /\ UNCHANGED <<runRow, layout, announced>>
      /\ \/ o = "fail" /\ UNCHANGED reportRow /\ cut' = cut \cup {Now(w)}
         \/ /\ o # "fail" /\ cut' = cut \ {Now(w)}
            /\ reportRow' = [reportRow EXCEPT ![Now(w)] = Result(w)]
  BY DEF SaveReport
<1>2. ~Doing(w, "idle") BY <1>1 DEF Doing
<1>3. Now(w) \in RunIds BY <1>2, Busy
<1>4. reportRow = [r \in RunIds |-> reportRow[r]] BY DEF Base, Types
<1>5. CASE o = "fail" BY <1>1, <1>4, <1>5
<1>6. CASE o # "fail" BY <1>1, <1>3, <1>4, <1>6
<1> QED BY <1>5, <1>6

LEMMA AnnounceRows ==
  ASSUME Base, NEW w \in Replicas, NEW o \in Outcomes, Announce(w, o)
  PROVE  /\ Doing(w, "announce") /\ UNCHANGED <<rows, runRow, reportRow, layout, cut>>
         /\ announced' \subseteq announced \cup {[run |-> Now(w), event |-> handler[w].event]}
  BY DEF Announce, rows, history

LEMMA WriteBase ==
  ASSUME Base, NEW w \in Replicas, NEW o \in Outcomes,
         SaveRun(w, o) \/ SaveReport(w, o) \/ Announce(w, o)
  PROVE  Base'
<1>1. ~Doing(w, "idle") /\ Now(w) \in RunIds /\ handler[w].event \in Event
  BY WriteFacts, Busy
<1>2. /\ runRow' = [r \in RunIds |-> runRow'[r]] /\ reportRow' = [r \in RunIds |-> reportRow'[r]]
      /\ layout' \in [RunIds -> SUBSET Hops]
      /\ announced' \subseteq announced \cup {[run |-> Now(w), event |-> handler[w].event]}
      /\ \A r \in RunIds :
           /\ runRow'[r] # runRow[r] => ~Doing(w, "idle") /\ r = Now(w) /\ runRow'[r] = Result(w)
           /\ reportRow'[r] # reportRow[r] => ~Doing(w, "idle") /\ r = Now(w) /\ reportRow'[r] = Result(w)
  <2>1. CASE SaveRun(w, o) BY <1>1, <2>1, SaveRunRows DEF Base, Types
  <2>2. CASE SaveReport(w, o) BY <1>1, <2>2, SaveReportRows DEF Base, Types
  <2>3. CASE Announce(w, o) BY <1>1, <2>3, AnnounceRows DEF Base, Types
  <2> QED BY <2>1, <2>2, <2>3
<1>3. announced' \subseteq [run : RunIds, event : Event]
  BY <1>1, <1>2 DEF Base, Types
<1>4. IF Doing(w, "idle")' THEN handler'[w] = NoMessage ELSE handler'[w].event \in Range(needed)
  BY <1>1, WriteFacts, Busy DEF Doing, NoMessage
<1>5. /\ UNCHANGED <<edges, topics, aggregator, covers>> /\ UNCHANGED topics
      /\ UNCHANGED <<group, owner, repeats, contended>>
      /\ handler' \in [Replicas -> Message]
      /\ \A v \in Replicas \ {w} : handler'[v] = handler[v]
  BY WriteFacts
<1>6. Sources' BY <1>2, <1>4, <1>5, SourcesKept
<1> QED BY <1>2, <1>3, <1>5, <1>6, ProcessorBase DEF Base, Types, Offsets

(* A replica leaves: the broker has stored what it had handled, or less.   *)
LEMMA LeaveFacts ==
  ASSUME Base, owner # None, group' \in Stored(group, ~Free(owner))
  PROVE  /\ group' \in Group /\ group'.durable
         /\ group.committed <= group'.committed /\ group'.committed <= Len(needed)
         /\ group'.committed = group.committed \/ group'.committed <= Processed
<1>1. /\ group \in Group /\ group.durable /\ group.committed <= Len(needed)
      /\ group.committed <= group.next /\ group.next <= Len(needed)
  BY DEF Base, Types, Offsets
<1>2. /\ group' \in Group /\ group'.durable /\ group.committed <= group'.committed
      /\ \/ group'.committed = group.committed
         \/ group'.committed <= IF ~Free(owner) THEN group.next - 1 ELSE group.next
  BY <1>1, StoredFacts
<1>3. Processed = IF ~Free(owner) THEN group.next - 1 ELSE group.next BY DEF Processed
<1>4. group.next \in Nat /\ group'.committed \in Nat /\ Len(needed) \in Nat
  BY <1>1, <1>2, NeededFacts DEF Group, Base
<1> QED BY <1>1, <1>2, <1>3, <1>4

LEMMA LoseBase == ASSUME Base, Lose PROVE Base'
<1>1. /\ owner # None /\ owner' = None /\ group' \in Stored(group, ~Free(owner)) /\ repeats'
      /\ contended' = (contended \/ ~Free(owner)) /\ repeats' = TRUE
      /\ UNCHANGED <<edges, topics, aggregator, handler, rows, announced, covers, dropped, cut>>
  BY DEF Lose
<1>2. Sources' BY <1>1 DEF Base, Sources, topics, rows, Doing, Free, RunOf
<1>3. /\ repeats' \in BOOLEAN /\ contended' \in BOOLEAN /\ (contended' => repeats')
      /\ UNCHANGED <<runRow, reportRow, layout>>
  BY <1>1 DEF rows
<1> QED BY <1>1, <1>2, <1>3, LeaveFacts, ProcessorBase DEF Base, Types

LEMMA ExitFacts ==
  ASSUME Base, NEW w \in Replicas, ReplicaExit(w)
  PROVE  /\ \/ owner = w /\ owner' = None /\ group' \in Stored(group, ~Free(owner))
            \/ owner # w /\ ~Free(w) /\ UNCHANGED <<owner, group>>
         /\ cut' = IF Doing(w, "saveReport") THEN cut \cup {Now(w)} ELSE cut
         /\ handler' \in [Replicas -> Message] /\ handler'[w] = NoMessage /\ repeats' = TRUE
         /\ \A v \in Replicas \ {w} : handler'[v] = handler[v]
         /\ UNCHANGED <<edges, topics, aggregator, rows, announced, covers, dropped, contended>>
  BY HandlerSteps DEF ReplicaExit, Base

LEMMA ExitBase == ASSUME Base, NEW w \in Replicas, ReplicaExit(w) PROVE Base'
<1>1. UNCHANGED <<runRow, reportRow, layout>> /\ UNCHANGED topics
  BY ExitFacts DEF rows
<1>2. Sources'
  <2>1. handler'[w] = NoMessage /\ \A v \in Replicas \ {w} : handler'[v] = handler[v] BY ExitFacts
  <2>2. Doing(w, "idle")' BY <2>1 DEF Doing, NoMessage
  <2> QED BY <1>1, <2>1, <2>2, SourcesKept
<1>3. repeats' \in BOOLEAN /\ contended' \in BOOLEAN /\ (contended' => repeats')
  BY ExitFacts DEF Base, Types
<1>4. /\ group' \in Group /\ owner' \in Replicas \cup {None} /\ group'.durable
      /\ group'.committed <= Len(needed)
      /\ owner' # None => group'.committed <= group'.next /\ group'.next <= Len(needed)
  <2>1. CASE owner = w BY <2>1, ExitFacts, LeaveFacts, BlamePipelineAssumption
  <2>2. CASE owner # w BY <2>2, ExitFacts DEF Base, Types, Offsets
  <2> QED BY <2>1, <2>2
<1> QED BY <1>1, <1>2, <1>3, <1>4, ExitFacts, ProcessorBase DEF Base, Types

LEMMA InitBase == Init => Base
<1> SUFFICES ASSUME Init PROVE Base OBVIOUS
<1>1. NewGroup \in Group /\ Resuming \in Group /\ Resuming.durable
      /\ Resuming.committed = 0 /\ Resuming.next = 0
  BY DEF NewGroup, Group, Resuming
<1>2. NoMessage \in Message /\ NoMessage.stage = "idle" BY DEF NoMessage, Message, Stages
<1>3. /\ completed = <<>> /\ needed = <<>> /\ Len(completed) = 0 /\ Len(needed) = 0
      /\ completed \in Seq([run : RunIds, failed : BOOLEAN]) /\ needed \in Seq(1..Len(completed))
  BY DEF Init
<1>4. /\ aggregator = [up |-> FALSE, busy |-> FALSE, group |-> Resuming] /\ group = Resuming
      /\ owner = None /\ handler = [w \in Replicas |-> NoMessage]
      /\ runRow = [r \in RunIds |-> NoRow] /\ reportRow = [r \in RunIds |-> NoRow]
      /\ edges = [r \in RunIds |-> {}] /\ layout = [r \in RunIds |-> {}]
      /\ covers = [i \in Event |-> {}] /\ announced = {}
      /\ repeats = FALSE /\ contended = FALSE
  BY DEF Init
<1>5. Types
  <2>1. aggregator \in [up : BOOLEAN, busy : BOOLEAN, group : Group] BY <1>1, <1>4
  <2>2. handler \in [Replicas -> Message] BY <1>2, <1>4
  <2>3. /\ edges \in [RunIds -> SUBSET Hops] /\ layout \in [RunIds -> SUBSET Hops]
        /\ covers \in [Event -> SUBSET Hops]
        /\ runRow = [r \in RunIds |-> runRow[r]] /\ reportRow = [r \in RunIds |-> reportRow[r]]
    BY <1>4
  <2>4. Len(completed) <= MaxEvents BY <1>3, BlamePipelineAssumption
  <2> QED BY <1>1, <1>3, <1>4, <2>1, <2>2, <2>3, <2>4 DEF Types
<1>6. Offsets BY <1>1, <1>3, <1>4 DEF Offsets, Relayed
<1>7. Sources BY <1>2, <1>4 DEF Sources, Doing, Free
<1> QED BY <1>5, <1>6, <1>7 DEF Base

LEMMA NextBase == Base /\ [Next]_vars => Base'
<1> SUFFICES ASSUME Base, [Next]_vars PROVE Base' OBVIOUS
<1>1. ASSUME NEW r \in RunIds, NEW h \in Hops, Land(r, h) PROVE Base' BY <1>1, LandBase
<1>2. ASSUME NEW r \in RunIds, NEW failed \in BOOLEAN, Complete(r, failed) PROVE Base'
  BY <1>2, CompleteBase
<1>3. CASE AggregatorJoin \/ AggregatorTake \/ AggregatorExit BY <1>3, AggregatorBase
<1>4. ASSUME NEW o \in Outcomes, Forward(o) PROVE Base' BY <1>4, ForwardBase
<1>5. ASSUME NEW w \in Replicas, Process(w) PROVE Base'
  BY <1>5, JoinBase, TakeBase, FetchBase, WriteBase DEF Process
<1>6. ASSUME NEW w \in Replicas, ReplicaExit(w) PROVE Base' BY <1>6, ExitBase
<1>7. CASE Lose BY <1>7, LoseBase
<1>8. CASE UNCHANGED vars
  BY <1>8 DEF vars, topics, rows, history, Base, Types, Offsets, Sources, Relayed, Doing, Free, RunOf
<1> QED BY <1>1, <1>2, <1>3, <1>4, <1>5, <1>6, <1>7, <1>8 DEF Next
-----------------------------------------------------------------------------
(* Lands: the edges a step reads are there, and edges are never taken away. *)
Lands == Landing /\ CoversLanded

LEMMA LandLands ==
  ASSUME Base, Lands, NEW q \in RunIds, NEW h \in Hops, Land(q, h) PROVE Lands'
<1>1. /\ \A r \in RunIds : edges[r] \subseteq edges'[r]
      /\ UNCHANGED <<needed, completed, handler, layout, reportRow, covers>>
  BY DEF Land, Base, Types, topics, rows, history
<1>2. \A i \in Range(needed) : RunOf(i) \in RunIds BY NeededFacts DEF Base
<1>3. \A w \in Replicas : Doing(w, "saveRun") \/ Doing(w, "saveReport") => Now(w) \in RunIds
  BY Busy DEF Doing
<1>4. Landing'
  <2>1. \A r \in RunIds : layout'[r] \subseteq edges'[r] BY <1>1 DEF Lands, Landing
  <2>2. \A i \in Range(needed) : covers[i] \subseteq edges'[RunOf(i)]
    BY <1>1, <1>2 DEF Lands, Landing
  <2>3. \A w \in Replicas : Doing(w, "saveRun") \/ Doing(w, "saveReport") =>
          covers[handler[w].event] \subseteq handler[w].used /\ handler[w].used \subseteq edges'[Now(w)]
    BY <1>1, <1>3 DEF Lands, Landing
  <2> QED BY <1>1, <2>1, <2>2, <2>3 DEF Landing, Doing, Now, RunOf
<1>5. CoversLanded' BY <1>1 DEF Lands, CoversLanded
<1> QED BY <1>4, <1>5 DEF Lands

LEMMA CompleteLands ==
  ASSUME Base, Lands, NEW q \in RunIds, NEW failed \in BOOLEAN, Complete(q, failed) PROVE Lands'
<1>1. /\ completed' = Append(completed, [run |-> q, failed |-> failed])
      /\ UNCHANGED <<edges, needed, handler, layout, reportRow, covers>>
  BY DEF Complete, rows, history
<1>2. \A i \in 1..Len(completed) : RunOf(i)' = RunOf(i)
  <2>1. completed \in Seq([run : RunIds, failed : BOOLEAN]) BY DEF Base, Types
  <2>2. \A i \in 1..Len(completed) : completed'[i] = completed[i] BY <1>1, <2>1
  <2> QED BY <2>2 DEF RunOf
<1>3. \A i \in Range(needed) : RunOf(i)' = RunOf(i) BY <1>2, NeededFacts DEF Base
<1>4. \A w \in Replicas : Doing(w, "saveRun") \/ Doing(w, "saveReport") => Now(w)' = Now(w)
  BY <1>1, <1>2, Busy DEF Doing, Now
<1> QED BY <1>1, <1>3, <1>4 DEF Lands, Landing, CoversLanded, Doing

(* A completion is forwarded with what had landed, the first time.         *)
LEMMA ForwardLands == ASSUME Base, Lands, NEW o \in Outcomes, Forward(o) PROVE Lands'
<1> DEFINE i == aggregator.group.next
<1>1. /\ UNCHANGED <<edges, completed, handler, layout, reportRow>>
      /\ \/ /\ o # "fail"
            /\ covers' = [covers EXCEPT ![i] = IF i \in Range(needed) THEN @ ELSE edges[RunOf(i)]]
         \/ o = "fail" /\ covers' = covers
  BY DEF Forward, rows
<1>2. /\ i \in Event /\ Range(needed') = Range(needed) \cup (IF o = "fail" THEN {} ELSE {i})
      /\ covers \in [Event -> SUBSET Hops]
  BY ForwardFacts, NeededFacts DEF Base, Types
<1>3. \A j \in Range(needed) : covers'[j] = covers[j]
  <2>1. \A j \in Range(needed) : j \in Event BY NeededFacts DEF Base
  <2> QED BY <1>1, <1>2, <2>1
<1>4. o # "fail" /\ i \notin Range(needed) => covers'[i] = edges[RunOf(i)]
  BY <1>1, <1>2
<1>5. \A j \in Range(needed') : covers'[j] \subseteq edges[RunOf(j)]
  BY <1>2, <1>3, <1>4 DEF Lands, Landing
<1>6. \A w \in Replicas : Doing(w, "saveRun") \/ Doing(w, "saveReport") =>
        handler[w].event \in Range(needed)
  BY Busy DEF Doing
<1>7. Landing'
  <2>1. \A w \in Replicas : Doing(w, "saveRun") \/ Doing(w, "saveReport") =>
          covers'[handler[w].event] \subseteq handler[w].used /\ handler[w].used \subseteq edges[Now(w)]
    BY <1>3, <1>6 DEF Lands, Landing
  <2> QED BY <1>1, <1>5, <2>1 DEF Lands, Landing, Doing, Now, RunOf
<1>8. CoversLanded'
  <2>1. \A r \in RunIds : reportRow[r] # NoRow => reportRow[r].event \in Range(needed)
    BY DEF Base, Sources
  <2> QED BY <1>1, <1>3, <2>1 DEF Lands, CoversLanded
<1> QED BY <1>7, <1>8 DEF Lands

(* A step of one replica: it must have read what it goes on with, and      *)
(* write what it has read.                                                 *)
LEMMA LandsKept ==
  ASSUME Base, Lands, NEW w \in Replicas, UNCHANGED <<edges, topics, covers>>,
         \A v \in Replicas \ {w} : handler'[v] = handler[v],
         Doing(w, "saveRun")' \/ Doing(w, "saveReport")' =>
           /\ ~Doing(w, "idle") /\ handler'[w].event = handler[w].event
           /\ \/ handler'[w].used = edges[Now(w)]
              \/ handler'[w].used = handler[w].used /\ (Doing(w, "saveRun") \/ Doing(w, "saveReport")),
         \A r \in RunIds :
           /\ layout'[r] # layout[r] => Doing(w, "saveRun") /\ r = Now(w) /\ layout'[r] = handler[w].used
           /\ reportRow'[r] # reportRow[r] => Doing(w, "saveReport") /\ r = Now(w) /\ reportRow'[r] = Result(w)
  PROVE  Lands'
<1>1. UNCHANGED <<needed, completed>> BY DEF topics
<1>2. \A r \in RunIds : layout'[r] \subseteq edges[r] BY DEF Lands, Landing
<1>3. ~Doing(w, "idle") => covers[handler[w].event] \subseteq edges[Now(w)]
  BY Busy DEF Lands, Landing, Now
<1>4. Doing(w, "saveRun")' \/ Doing(w, "saveReport")' =>
        covers[handler'[w].event] \subseteq handler'[w].used /\ handler'[w].used \subseteq edges[RunOf(handler'[w].event)]
  BY <1>3 DEF Lands, Landing, Now
<1>5. \A v \in Replicas \ {w} : Doing(v, "saveRun")' \/ Doing(v, "saveReport")' =>
        covers[handler'[v].event] \subseteq handler'[v].used /\ handler'[v].used \subseteq edges[RunOf(handler'[v].event)]
  BY DEF Lands, Landing, Doing, Now
<1>6. Landing' BY <1>1, <1>2, <1>4, <1>5 DEF Lands, Landing, Now, RunOf
<1>7. Result(w).event = handler[w].event /\ Result(w).used = handler[w].used BY DEF Result, RowFor
<1>8. CoversLanded' BY <1>7 DEF Lands, Landing, CoversLanded
<1> QED BY <1>6, <1>8 DEF Lands

LEMMA ProcessorLands ==
  ASSUME Base, Lands, NEW w \in Replicas, Take(w) \/ FetchEdges(w) \/ FetchFails(w) \/ ReplicaExit(w)
  PROVE  Lands'
<1>1. CASE Take(w)
  BY <1>1, TakeFacts, LandsKept DEF Doing, rows, history
<1>2. CASE FetchEdges(w) \/ FetchFails(w)
  <2>1. UNCHANGED <<layout, reportRow>> /\ UNCHANGED <<edges, topics, covers>>
    BY <1>2, FetchFacts DEF rows
  <2>2. \A v \in Replicas \ {w} : handler'[v] = handler[v] BY <1>2, FetchFacts
  <2>3. Doing(w, "saveRun")' \/ Doing(w, "saveReport")' =>
          /\ ~Doing(w, "idle") /\ handler'[w].event = handler[w].event
          /\ handler'[w].used = edges[Now(w)]
    BY <1>2, FetchFacts DEF Doing, NoMessage
  <2> QED BY <2>1, <2>2, <2>3, LandsKept
<1>3. CASE ReplicaExit(w)
  <2>1. UNCHANGED <<layout, reportRow>> /\ UNCHANGED <<edges, topics, covers>>
    BY <1>3, ExitFacts DEF rows
  <2>2. handler'[w] = NoMessage /\ \A v \in Replicas \ {w} : handler'[v] = handler[v]
    BY <1>3, ExitFacts
  <2>3. ~(Doing(w, "saveRun")' \/ Doing(w, "saveReport")') BY <2>2 DEF Doing, NoMessage
  <2> QED BY <2>1, <2>2, <2>3, LandsKept
<1> QED BY <1>1, <1>2, <1>3

LEMMA WriteLands ==
  ASSUME Base, Lands, NEW w \in Replicas, NEW o \in Outcomes,
         SaveRun(w, o) \/ SaveReport(w, o) \/ Announce(w, o)
  PROVE  Lands'
<1>1. /\ UNCHANGED <<edges, topics, covers>>
      /\ \A v \in Replicas \ {w} : handler'[v] = handler[v]
  BY WriteFacts
<1>2. Doing(w, "saveRun")' \/ Doing(w, "saveReport")' =>
        /\ Doing(w, "saveRun") /\ ~Doing(w, "idle") /\ handler'[w].event = handler[w].event
        /\ handler'[w].used = handler[w].used
  BY WriteFacts DEF Doing, NoMessage
<1>3. \A r \in RunIds :
        /\ layout'[r] # layout[r] => Doing(w, "saveRun") /\ r = Now(w) /\ layout'[r] = handler[w].used
        /\ reportRow'[r] # reportRow[r] => Doing(w, "saveReport") /\ r = Now(w) /\ reportRow'[r] = Result(w)
  <2>1. CASE SaveRun(w, o) BY <2>1, SaveRunRows
  <2>2. CASE SaveReport(w, o) BY <2>2, SaveReportRows
  <2>3. CASE Announce(w, o) BY <2>3, AnnounceRows
  <2> QED BY <2>1, <2>2, <2>3
<1> QED BY <1>1, <1>2, <1>3, LandsKept

LEMMA InitLands == Init => Lands
<1> SUFFICES ASSUME Init PROVE Lands OBVIOUS
<1>1. needed = <<>> /\ Range(needed) = {} BY RangeEmpty DEF Init
<1>2. \A w \in Replicas : handler[w].stage = "idle" BY DEF Init, NoMessage
<1>3. \A r \in RunIds : layout[r] = {} /\ reportRow[r] = NoRow BY DEF Init
<1>4. Landing BY <1>1, <1>2, <1>3 DEF Landing, Doing
<1>5. CoversLanded BY <1>3 DEF CoversLanded
<1> QED BY <1>4, <1>5 DEF Lands

LEMMA NextLands == Base /\ Lands /\ [Next]_vars => Lands'
<1> SUFFICES ASSUME Base, Lands, [Next]_vars PROVE Lands' OBVIOUS
<1>1. ASSUME NEW r \in RunIds, NEW h \in Hops, Land(r, h) PROVE Lands' BY <1>1, LandLands
<1>2. ASSUME NEW r \in RunIds, NEW failed \in BOOLEAN, Complete(r, failed) PROVE Lands'
  BY <1>2, CompleteLands
<1>3. ASSUME NEW o \in Outcomes, Forward(o) PROVE Lands' BY <1>3, ForwardLands
<1>4. ASSUME NEW w \in Replicas, Process(w), ~Join(w) PROVE Lands'
  BY <1>4, ProcessorLands, WriteLands DEF Process
<1>5. ASSUME NEW w \in Replicas, ReplicaExit(w) PROVE Lands' BY <1>5, ProcessorLands
<1>6. ASSUME UNCHANGED <<edges, completed, needed, handler, runRow, layout, reportRow, covers>> PROVE Lands'
  BY <1>6 DEF Lands, Landing, CoversLanded, Doing, Now, RunOf
<1>7. AggregatorJoin \/ AggregatorTake \/ AggregatorExit \/ Lose \/ UNCHANGED vars
        \/ (\E w \in Replicas : Join(w)) =>
        UNCHANGED <<edges, completed, needed, handler, runRow, layout, reportRow, covers>>
  BY DEF AggregatorJoin, AggregatorTake, AggregatorExit, Lose, Join, vars, topics, rows, history
<1> QED BY <1>1, <1>2, <1>3, <1>4, <1>5, <1>6, <1>7 DEF Next
-----------------------------------------------------------------------------
(* The two rows of a run, without what was announced.                      *)
Paired ==
  \A r \in RunIds :
    \/ runRow[r] = reportRow[r] /\ layout[r] \subseteq reportRow[r].used
    \/ r \in cut \/ contended
    \/ \E w \in Replicas : Doing(w, "saveReport") /\ Now(w) = r

Rows == Alone /\ Found /\ Paired

LEMMA WrittenRow ==
  ASSUME Base, NEW w \in Replicas, ~Doing(w, "idle")
  PROVE  /\ Result(w) # NoRow /\ Result(w).event = handler[w].event
         /\ Result(w).used = handler[w].used
<1>1. Result(w).event = handler[w].event /\ Result(w).used = handler[w].used
  BY DEF Result, RowFor
<1>2. handler[w].event # 0 BY Busy, BlamePipelineAssumption DEF Event
<1> QED BY <1>1, <1>2 DEF NoRow

(* Completions that are added change nothing for those that are handled.   *)
LEMMA CompleteRows ==
  ASSUME Base, Rows, NEW q \in RunIds, NEW failed \in BOOLEAN, Complete(q, failed) PROVE Rows'
<1>1. /\ completed' = Append(completed, [run |-> q, failed |-> failed])
      /\ UNCHANGED <<edges, needed, handler, runRow, layout, reportRow, cut, contended, owner, group>>
  BY DEF Complete, rows, history
<1>2. \A i \in 1..Len(completed) : completed'[i] = completed[i]
  <2>1. completed \in Seq([run : RunIds, failed : BOOLEAN]) BY DEF Base, Types
  <2> QED BY <1>1, <2>1
<1>3. \A w \in Replicas : ~Doing(w, "idle") => Now(w)' = Now(w) /\ Result(w)' = Result(w)
  BY <1>1, <1>2, Busy DEF Doing, Now, RunOf, Result, RowFor
<1>4. \A w \in Replicas : (Doing(w, "saveRun") \/ Doing(w, "saveReport") \/ Doing(w, "announce")) => ~Doing(w, "idle")
  BY DEF Doing
<1> QED BY <1>1, <1>3, <1>4 DEF Rows, Alone, Found, Paired, Doing

(* New messages, and the coming and going of the aggregator.               *)
LEMMA ForwardRows == ASSUME Base, Rows, NEW o \in Outcomes, Forward(o) PROVE Rows'
<1>1. UNCHANGED <<completed, handler, runRow, layout, reportRow, cut, contended, owner, group>>
  BY DEF Forward, rows
<1>2. \A p \in 1..Len(needed) : needed'[p] = needed[p] BY ForwardFacts
<1>3. ~contended => \A w \in Replicas : ~Doing(w, "idle") => group.next \in 1..Len(needed)
  <2>1. owner # None => group.next <= Len(needed) BY DEF Base, Offsets
  <2>2. \A w \in Replicas : w # None BY BlamePipelineAssumption
  <2>3. group \in Group /\ Len(needed) \in Nat BY NeededFacts DEF Base, Types
  <2> QED BY <2>1, <2>2, <2>3 DEF Rows, Alone, Group
<1> QED BY <1>1, <1>2, <1>3 DEF Rows, Alone, Found, Paired, Doing, Now, RunOf, Result, RowFor

LEMMA JoinRows == ASSUME Base, Rows, NEW w \in Replicas, Join(w) PROVE Rows'
<1>1. /\ owner = None
      /\ UNCHANGED <<completed, handler, runRow, layout, reportRow, cut, contended>>
  BY DEF Join, topics, rows, history
<1>2. ~contended => \A v \in Replicas : Doing(v, "idle")
  BY <1>1, BlamePipelineAssumption DEF Rows, Alone
<1> QED BY <1>1, <1>2 DEF Rows, Alone, Found, Paired, Doing, Now, RunOf, Result, RowFor

LEMMA TakeRows == ASSUME Base, Rows, NEW w \in Replicas, Take(w) PROVE Rows'
<1>1. /\ UNCHANGED <<completed, needed, runRow, layout, reportRow, cut, contended, owner>>
      /\ owner = w /\ Doing(w, "idle")
  BY TakeFacts DEF topics, rows, history
<1>2. /\ \A v \in Replicas \ {w} : handler'[v] = handler[v]
      /\ handler'[w].stage = "fetch" /\ handler'[w].event = needed[group'.next]
      /\ group'.committed < group'.next
  BY TakeFacts DEF Group
<1>3. ~contended => \A v \in Replicas \ {w} : Doing(v, "idle")
  BY <1>1 DEF Rows, Alone
<1>4. Alone' BY <1>1, <1>2, <1>3 DEF Alone, Doing
<1>5. Found' BY <1>1, <1>2 DEF Rows, Found, Doing, Now, RunOf
<1>6. Paired' BY <1>1, <1>2 DEF Rows, Paired, Doing, Now, RunOf
<1> QED BY <1>4, <1>5, <1>6 DEF Rows

(* What is read holds all that the layout shows.                           *)
LEMMA FetchRows ==
  ASSUME Base, Lands, Rows, NEW w \in Replicas, FetchEdges(w) \/ FetchFails(w) PROVE Rows'
<1>1. /\ UNCHANGED <<completed, needed, runRow, layout, reportRow, cut, contended, owner, group>>
      /\ Doing(w, "fetch") /\ \A v \in Replicas \ {w} : handler'[v] = handler[v]
  BY FetchFacts DEF topics, rows
<1>2. \/ /\ handler'[w].stage \in {"saveRun", "fetch"} /\ handler'[w].event = handler[w].event
         /\ handler'[w].stage = "saveRun" => handler'[w].used = edges[Now(w)]
      \/ handler'[w].stage = "idle"
  BY FetchFacts DEF NoMessage
<1>3. ~Doing(w, "idle") /\ ~Doing(w, "announce") /\ ~Doing(w, "saveReport") BY <1>1 DEF Doing
<1>4. layout[Now(w)] \subseteq edges[Now(w)] BY <1>3, Busy DEF Lands, Landing
<1>5. Alone' BY <1>1, <1>2, <1>3, <1>4 DEF Rows, Alone, Doing, Now, RunOf, Result, RowFor
<1>6. Found' BY <1>1, <1>2 DEF Rows, Found, Doing, Now, RunOf
<1>7. Paired' BY <1>1, <1>2, <1>3 DEF Rows, Paired, Doing, Now, RunOf
<1> QED BY <1>5, <1>6, <1>7 DEF Rows
(* What the steps of a replica do not change for the others.               *)
LEMMA SameForOthers ==
  ASSUME Base, NEW w \in Replicas, UNCHANGED topics,
         \A v \in Replicas \ {w} : handler'[v] = handler[v]
  PROVE  \A v \in Replicas \ {w} :
           /\ Now(v)' = Now(v) /\ Result(v)' = Result(v)
           /\ \A stage \in Stages : Doing(v, stage)' <=> Doing(v, stage)
  BY DEF topics, Now, RunOf, Result, RowFor, Doing

LEMMA SaveRunKeeps ==
  ASSUME Base, Rows, NEW w \in Replicas, NEW o \in Outcomes, SaveRun(w, o) PROVE Rows'
<1>1. /\ UNCHANGED topics /\ UNCHANGED <<completed, needed, contended, owner, group, reportRow>>
      /\ \A v \in Replicas \ {w} : handler'[v] = handler[v]
      /\ Doing(w, "saveRun") /\ ~Doing(w, "idle") /\ ~Doing(w, "announce") /\ ~Doing(w, "saveReport")
  BY WriteFacts, SaveRunRows DEF topics, Doing
<1>2. \/ /\ o = "ok" /\ handler'[w].stage = "saveReport"
         /\ Now(w)' = Now(w) /\ Result(w)' = Result(w) /\ handler'[w].used = handler[w].used
         /\ handler'[w].event = handler[w].event
      \/ o # "ok" /\ handler'[w].stage = "idle"
  BY <1>1, WriteFacts DEF NoMessage, Now, RunOf, Result, RowFor
<1>3. /\ \A r \in RunIds \ {Now(w)} : runRow'[r] = runRow[r] /\ layout'[r] = layout[r]
      /\ \/ o = "fail" /\ UNCHANGED <<runRow, layout>>
         \/ /\ o # "fail" /\ runRow'[Now(w)] = Result(w)
            /\ layout'[Now(w)] = IF runRow[Now(w)] = NoRow THEN handler[w].used ELSE layout[Now(w)]
      /\ cut' = IF o = "lostReply" THEN cut \cup {Now(w)} ELSE cut
      /\ Now(w) \in RunIds /\ o \in AllOutcomes
  BY <1>1, SaveRunRows, Busy, BlamePipelineAssumption
<1>4. Alone'
  <2> SUFFICES ASSUME ~contended, NEW v \in Replicas, ~Doing(v, "idle")'
               PROVE  /\ v = owner
                      /\ group.committed < group.next /\ handler'[v].event = needed[group.next]
                      /\ Doing(v, "saveRun")' \/ Doing(v, "saveReport")' => layout'[Now(v)'] \subseteq handler'[v].used
                      /\ Doing(v, "saveReport")' => runRow'[Now(v)'] = Result(v)'
                      /\ Doing(v, "announce")' => runRow'[Now(v)'] = Result(v)' /\ reportRow'[Now(v)'] = Result(v)'
    BY <1>1 DEF Alone
  <2>1. v = w /\ o = "ok" /\ w = owner
    BY <1>1, <1>2 DEF Rows, Alone, Doing
  <2>2. layout'[Now(w)] \subseteq handler[w].used
    BY <1>1, <1>3, <2>1 DEF Rows, Alone
  <2>3. group.committed < group.next /\ handler[w].event = needed[group.next]
    BY <1>1 DEF Rows, Alone
  <2> QED BY <1>2, <1>3, <2>1, <2>2, <2>3 DEF Doing
<1>5. Found' BY <1>1, <1>2 DEF Rows, Found, Doing, Now, RunOf
<1>6. Paired'
  <2> SUFFICES ASSUME NEW r \in RunIds, ~contended
               PROVE  \/ runRow'[r] = reportRow[r] /\ layout'[r] \subseteq reportRow[r].used
                      \/ r \in cut'
                      \/ \E v \in Replicas : Doing(v, "saveReport")' /\ Now(v)' = r
    BY <1>1 DEF Paired
  <2>1. CASE r = Now(w) /\ o # "fail"
    BY <1>2, <1>3, <2>1 DEF AllOutcomes, Doing
  <2>2. CASE r # Now(w) \/ o = "fail"
    <3>1. runRow'[r] = runRow[r] /\ layout'[r] = layout[r] /\ (r \in cut => r \in cut')
      BY <1>3, <2>2
    <3>2. \A v \in Replicas : Doing(v, "saveReport") => Doing(v, "saveReport")' /\ Now(v)' = Now(v)
      BY <1>1, SameForOthers DEF Stages
    <3> QED BY <3>1, <3>2 DEF Rows, Paired
  <2> QED BY <2>1, <2>2
<1> QED BY <1>4, <1>5, <1>6 DEF Rows

LEMMA SaveReportKeeps ==
  ASSUME Base, Rows, NEW w \in Replicas, NEW o \in Outcomes, SaveReport(w, o) PROVE Rows'
<1>1. /\ UNCHANGED topics /\ UNCHANGED <<completed, needed, contended, owner, group, runRow, layout>>
      /\ \A v \in Replicas \ {w} : handler'[v] = handler[v]
      /\ Doing(w, "saveReport") /\ ~Doing(w, "idle") /\ ~Doing(w, "announce") /\ ~Doing(w, "saveRun")
  BY WriteFacts, SaveReportRows DEF topics, Doing
<1>2. \/ /\ o = "ok" /\ handler'[w].stage = "announce"
         /\ Now(w)' = Now(w) /\ Result(w)' = Result(w) /\ handler'[w].event = handler[w].event
      \/ o # "ok" /\ handler'[w].stage = "idle"
  BY <1>1, WriteFacts DEF NoMessage, Now, RunOf, Result, RowFor
<1>3. /\ \A r \in RunIds \ {Now(w)} : reportRow'[r] = reportRow[r]
      /\ \/ o = "fail" /\ UNCHANGED reportRow /\ cut' = cut \cup {Now(w)}
         \/ o # "fail" /\ reportRow'[Now(w)] = Result(w) /\ cut' = cut \ {Now(w)}
      /\ Now(w) \in RunIds /\ Result(w) # NoRow /\ Result(w).used = handler[w].used
  BY <1>1, SaveReportRows, Busy, WrittenRow
<1>4. ~contended =>
        /\ w = owner /\ group.committed < group.next /\ handler[w].event = needed[group.next]
        /\ runRow[Now(w)] = Result(w) /\ layout[Now(w)] \subseteq handler[w].used
  BY <1>1 DEF Rows, Alone
<1>5. Alone'
  <2> SUFFICES ASSUME ~contended, NEW v \in Replicas, ~Doing(v, "idle")'
               PROVE  /\ v = owner
                      /\ group.committed < group.next /\ handler'[v].event = needed[group.next]
                      /\ Doing(v, "announce")'
                      /\ runRow[Now(v)'] = Result(v)' /\ reportRow'[Now(v)'] = Result(v)'
    BY <1>1 DEF Alone, Doing
  <2>1. v = w /\ o = "ok" BY <1>1, <1>2, <1>4 DEF Rows, Alone, Doing
  <2> QED BY <1>2, <1>3, <1>4, <2>1 DEF Doing
<1>6. Found'
  <2> SUFFICES ASSUME NEW v \in Replicas, Doing(v, "announce")' PROVE reportRow'[Now(v)'] # NoRow
    BY DEF Found
  <2>1. CASE v = w BY <1>2, <1>3, <2>1 DEF Doing
  <2>2. CASE v # w
    <3>1. Doing(v, "announce") /\ Now(v)' = Now(v) BY <1>1, <2>2, SameForOthers DEF Stages
    <3>2. reportRow[Now(v)] # NoRow /\ Now(v) \in RunIds BY <3>1, Busy DEF Rows, Found, Doing
    <3> QED BY <1>3, <3>1, <3>2
  <2> QED BY <2>1, <2>2
<1>7. Paired'
  <2> SUFFICES ASSUME NEW r \in RunIds, ~contended
               PROVE  \/ runRow[r] = reportRow'[r] /\ layout[r] \subseteq reportRow'[r].used
                      \/ r \in cut'
                      \/ \E v \in Replicas : Doing(v, "saveReport")' /\ Now(v)' = r
    BY <1>1 DEF Paired
  <2>1. CASE r = Now(w) BY <1>3, <1>4, <2>1
  <2>2. CASE r # Now(w)
    <3>1. \A v \in Replicas : Doing(v, "saveReport") /\ Now(v) = r => Doing(v, "saveReport")' /\ Now(v)' = Now(v)
      BY <1>1, <2>2, SameForOthers DEF Stages
    <3> QED BY <1>3, <2>2, <3>1 DEF Rows, Paired
  <2> QED BY <2>1, <2>2
<1> QED BY <1>5, <1>6, <1>7 DEF Rows

LEMMA AnnounceKeeps ==
  ASSUME Base, Rows, NEW w \in Replicas, NEW o \in Outcomes, Announce(w, o) PROVE Rows'
<1>1. /\ UNCHANGED topics /\ UNCHANGED <<completed, needed, contended, owner, group, runRow, reportRow, layout, cut>>
      /\ \A v \in Replicas \ {w} : handler'[v] = handler[v]
      /\ Doing(w, "announce") /\ handler'[w].stage = "idle"
  BY WriteFacts, AnnounceRows DEF topics, NoMessage
<1>2. ~Doing(w, "saveReport") BY <1>1 DEF Doing
<1>3. Alone' BY <1>1 DEF Rows, Alone, Doing, Now, RunOf, Result, RowFor
<1>4. Found' BY <1>1 DEF Rows, Found, Doing, Now, RunOf
<1>5. Paired' BY <1>1, <1>2 DEF Rows, Paired, Doing, Now, RunOf
<1> QED BY <1>3, <1>4, <1>5 DEF Rows

LEMMA LoseRows == ASSUME Base, Rows, Lose PROVE Rows'
<1>1. /\ contended' = (contended \/ ~Free(owner))
      /\ UNCHANGED <<completed, needed, handler, runRow, reportRow, layout, cut>>
  BY DEF Lose, topics, rows
<1>2. ~contended' => ~contended /\ \A v \in Replicas : Doing(v, "idle")
  <2>1. Free(owner) => owner \notin Replicas \/ Doing(owner, "idle") BY DEF Free, Doing, NoMessage
  <2> QED BY <1>1, <2>1 DEF Rows, Alone
<1>3. Alone' BY <1>1, <1>2 DEF Alone, Doing
<1>4. Found' BY <1>1 DEF Rows, Found, Doing, Now, RunOf
<1>5. Paired' BY <1>1, <1>2 DEF Rows, Paired, Doing, Now, RunOf
<1> QED BY <1>3, <1>4, <1>5 DEF Rows

LEMMA ExitRows == ASSUME Base, Rows, NEW w \in Replicas, ReplicaExit(w) PROVE Rows'
<1>1. /\ UNCHANGED topics /\ UNCHANGED <<completed, needed, contended, runRow, reportRow, layout>>
      /\ \A v \in Replicas \ {w} : handler'[v] = handler[v]
      /\ handler'[w].stage = "idle" /\ (owner = w \/ ~Free(w))
      /\ cut' = IF Doing(w, "saveReport") THEN cut \cup {Now(w)} ELSE cut
  <2>1. /\ UNCHANGED topics /\ UNCHANGED rows /\ UNCHANGED contended
        /\ handler'[w] = NoMessage /\ \A v \in Replicas \ {w} : handler'[v] = handler[v]
        /\ cut' = IF Doing(w, "saveReport") THEN cut \cup {Now(w)} ELSE cut
    BY ExitFacts
  <2>2. owner = w \/ ~Free(w) BY DEF ReplicaExit
  <2> QED BY <2>1, <2>2 DEF topics, rows, NoMessage
<1>2. ~Free(w) => ~Doing(w, "idle") BY DEF Base, Sources
<1>3. ~contended => \A v \in Replicas : handler'[v].stage = "idle"
  BY <1>1, <1>2 DEF Rows, Alone, Doing
<1>4. Alone' BY <1>1, <1>3 DEF Alone, Doing
<1>5. Found' BY <1>1 DEF Rows, Found, Doing, Now, RunOf
<1>6. Paired' BY <1>1 DEF Rows, Paired, Doing, Now, RunOf
<1> QED BY <1>4, <1>5, <1>6 DEF Rows

LEMMA InitRows == Init => Rows
<1> SUFFICES ASSUME Init PROVE Rows OBVIOUS
<1>1. \A w \in Replicas : handler[w].stage = "idle" BY DEF Init, NoMessage
<1>2. \A r \in RunIds : runRow[r] = reportRow[r] /\ layout[r] = {} BY DEF Init
<1> QED BY <1>1, <1>2 DEF Rows, Alone, Found, Paired, Doing

LEMMA NextRows == Base /\ Lands /\ Rows /\ [Next]_vars => Rows'
<1> SUFFICES ASSUME Base, Lands, Rows, [Next]_vars PROVE Rows' OBVIOUS
<1>1. ASSUME UNCHANGED <<completed, needed, handler, runRow, layout, reportRow, cut, contended, owner, group>>
      PROVE  Rows'
  BY <1>1 DEF Rows, Alone, Found, Paired, Doing, Now, RunOf, Result, RowFor
<1>2. AggregatorJoin \/ AggregatorTake \/ AggregatorExit \/ UNCHANGED vars
        \/ (\E r \in RunIds, h \in Hops : Land(r, h)) =>
        UNCHANGED <<completed, needed, handler, runRow, layout, reportRow, cut, contended, owner, group>>
  BY DEF AggregatorJoin, AggregatorTake, AggregatorExit, Land, vars, topics, rows, history
<1>3. ASSUME NEW r \in RunIds, NEW failed \in BOOLEAN, Complete(r, failed) PROVE Rows'
  BY <1>3, CompleteRows
<1>4. ASSUME NEW o \in Outcomes, Forward(o) PROVE Rows' BY <1>4, ForwardRows
<1>5. ASSUME NEW w \in Replicas, Process(w) PROVE Rows'
  BY <1>5, JoinRows, TakeRows, FetchRows, SaveRunKeeps, SaveReportKeeps, AnnounceKeeps DEF Process
<1>6. ASSUME NEW w \in Replicas, ReplicaExit(w) PROVE Rows' BY <1>6, ExitRows
<1>7. CASE Lose BY <1>7, LoseRows
<1> QED BY <1>1, <1>2, <1>3, <1>4, <1>5, <1>6, <1>7 DEF Next
-----------------------------------------------------------------------------
(* What was announced can be found, at least as new as it was announced.   *)
AnnouncedFound ==
  \A a \in announced :
    /\ reportRow[a.run] # NoRow
    /\ ~repeats => reportRow[a.run].event >= a.event

Order == InOrder /\ AnnouncedFound

(* The events of the rows are numbers of forwarded messages, or zero.      *)
LEMMA RowEvents ==
  ASSUME Base, NEW r \in RunIds
  PROVE  /\ runRow[r].event \in Nat /\ reportRow[r].event \in Nat
         /\ runRow[r].event = 0 \/ runRow[r].event \in Range(needed)
         /\ reportRow[r].event = 0 \/ reportRow[r].event \in Range(needed)
<1>1. NoRow.event = 0 BY DEF NoRow
<1>2. \A i \in Range(needed) : i \in Nat BY NeededFacts DEF Base
<1> QED BY <1>1, <1>2 DEF Base, Sources

(* While nothing was repeated, only the owner handles a message, and it is *)
(* the last one that was taken.                                            *)
LEMMA Current ==
  ASSUME Base, Rows, ~repeats, NEW w \in Replicas, ~Doing(w, "idle")
  PROVE  /\ w = owner /\ group.next \in 1..Len(needed)
         /\ handler[w].event = needed[group.next]
         /\ \A v \in Replicas \ {w} : Doing(v, "idle")
<1>1. ~contended BY DEF Base, Offsets
<1>2. w = owner /\ group.committed < group.next /\ handler[w].event = needed[group.next]
  BY <1>1 DEF Rows, Alone
<1>3. \A v \in Replicas \ {w} : Doing(v, "idle") BY <1>1, <1>2 DEF Rows, Alone
<1>4. group.next <= Len(needed) BY <1>2, BlamePipelineAssumption DEF Base, Offsets
<1>5. group.next \in Nat /\ group.committed \in Nat /\ Len(needed) \in Nat
  BY NeededFacts DEF Base, Types, Group
<1> QED BY <1>2, <1>3, <1>4, <1>5

LEMMA ForwardOrder ==
  ASSUME Base, Rows, Order, NEW o \in Outcomes, Forward(o) PROVE Order'
<1> DEFINE i == aggregator.group.next
<1>1. UNCHANGED <<handler, runRow, reportRow, announced, owner, group>>
  BY DEF Forward, rows
<1>2. repeats => repeats' BY ForwardFacts
<1>3. AnnouncedFound' BY <1>1, <1>2 DEF Order, AnnouncedFound
<1>4. SUFFICES ASSUME ~repeats' PROVE InOrder' BY <1>3 DEF Order, InOrder
<1>5. /\ ~repeats /\ aggregator'.up /\ Relayed = i - 1 /\ Relayed' = i /\ i \in Nat
      /\ Len(needed') = Len(needed) + 1 /\ needed'[Len(needed) + 1] = i
      /\ \A p \in 1..Len(needed) : needed'[p] = needed[p]
  <2>1. o = "ok" BY <1>4, ForwardFacts
  <2> QED BY <1>2, <1>4, <2>1, ForwardFacts
<1>6. Len(needed) \in Nat /\ \A p \in 1..Len(needed) : needed[p] \in Nat
  BY NeededFacts DEF Base
<1>7. /\ owner = None => group.next = 0 /\ group.committed = 0
      /\ \A p \in 1..Len(needed) : needed[p] <= i - 1
      /\ \A p, q \in 1..Len(needed) : p < q => needed[p] < needed[q]
      /\ \A r \in RunIds, p \in 1..Len(needed) :
           group.next < p => runRow[r].event < needed[p] /\ reportRow[r].event < needed[p]
      /\ \A r \in RunIds, w \in Replicas : ~Doing(w, "idle") =>
           runRow[r].event <= handler[w].event /\ reportRow[r].event <= handler[w].event
  BY <1>5 DEF Order, InOrder
<1> DEFINE n == Len(needed)
<1>8. \A p \in 1..Len(needed') : needed'[p] <= i
  <2> SUFFICES ASSUME NEW p \in 1..(n + 1) PROVE needed'[p] <= i BY <1>5
  <2>1. CASE p = n + 1 BY <1>5, <2>1
  <2>2. CASE p # n + 1
    <3>1. p \in 1..n BY <1>6, <2>2
    <3>2. needed'[p] = needed[p] /\ needed[p] <= i - 1 /\ needed[p] \in Nat BY <1>5, <1>6, <1>7, <3>1
    <3> QED BY <1>5, <3>2
  <2> QED BY <2>1, <2>2
<1>9. \A p, q \in 1..Len(needed') : p < q => needed'[p] < needed'[q]
  <2> SUFFICES ASSUME NEW p \in 1..(n + 1), NEW q \in 1..(n + 1), p < q
               PROVE  needed'[p] < needed'[q]
    BY <1>5
  <2>1. p \in 1..n BY <1>6
  <2>2. needed'[p] = needed[p] /\ needed[p] <= i - 1 /\ needed[p] \in Nat BY <1>5, <1>6, <1>7, <2>1
  <2>3. CASE q = n + 1
    <3>1. needed'[q] = i BY <1>5, <2>3
    <3> QED BY <1>5, <2>2, <3>1
  <2>4. CASE q # n + 1
    <3>1. q \in 1..n BY <1>6, <2>4
    <3>2. needed'[q] = needed[q] /\ needed[p] < needed[q] BY <1>5, <1>7, <2>1, <3>1
    <3> QED BY <2>2, <3>2
  <2> QED BY <2>3, <2>4
<1>10. \A r \in RunIds : runRow[r].event < i /\ reportRow[r].event < i
  <2>1. \A j \in Range(needed) : j <= i - 1 /\ j \in Nat
    BY <1>6, <1>7, NeededFacts DEF Base
  <2>2. i >= 1 BY ForwardFacts
  <2>3. ASSUME NEW r \in RunIds PROVE runRow[r].event < i /\ reportRow[r].event < i
    <3>1. /\ runRow[r].event = 0 \/ runRow[r].event \in Range(needed)
          /\ reportRow[r].event = 0 \/ reportRow[r].event \in Range(needed)
      BY RowEvents
    <3> QED BY <1>5, <2>1, <2>2, <3>1
  <2> QED BY <2>3
<1>11. \A r \in RunIds, p \in 1..Len(needed') :
         group.next < p => runRow[r].event < needed'[p] /\ reportRow[r].event < needed'[p]
  <2> SUFFICES ASSUME NEW r \in RunIds, NEW p \in 1..Len(needed'), group.next < p
               PROVE  runRow[r].event < needed'[p] /\ reportRow[r].event < needed'[p]
    OBVIOUS
  <2>1. CASE p = Len(needed) + 1 BY <1>5, <1>10, <2>1
  <2>2. CASE p # Len(needed) + 1
    <3>1. p \in 1..Len(needed) BY <1>5, <1>6, <2>2
    <3> QED BY <1>5, <1>7, <3>1
  <2> QED BY <2>1, <2>2
<1> QED BY <1>1, <1>5, <1>7, <1>8, <1>9, <1>11 DEF InOrder, Doing

(* The steps that change none of what is in order.                         *)
LEMMA OrderSame ==
  ASSUME Order, UNCHANGED <<needed, handler, runRow, reportRow, announced, owner, repeats>>,
         group'.next = group.next, group'.committed = group.committed,
         aggregator' = aggregator
  PROVE  Order'
BY DEF Order, InOrder, AnnouncedFound, Relayed, Doing

LEMMA RepeatsOrder ==
  ASSUME Order, repeats', UNCHANGED <<reportRow, announced>> PROVE Order'
BY DEF Order, InOrder, AnnouncedFound

LEMMA AggregatorOrder ==
  ASSUME Base, Order, AggregatorJoin \/ AggregatorTake \/ AggregatorExit PROVE Order'
<1>1. UNCHANGED <<needed, handler, runRow, reportRow, announced, owner, group>>
  BY DEF AggregatorJoin, AggregatorTake, AggregatorExit, topics, rows
<1>2. CASE AggregatorExit BY <1>1, <1>2, RepeatsOrder DEF AggregatorExit
<1>3. CASE AggregatorJoin \/ AggregatorTake
  <2>1. repeats' = repeats /\ aggregator'.up
    <3>1. aggregator \in [up : BOOLEAN, busy : BOOLEAN, group : Group] BY DEF Base, Types
    <3>2. CASE AggregatorJoin BY <3>2 DEF AggregatorJoin, history
    <3>3. CASE AggregatorTake BY <3>1, <3>3 DEF AggregatorTake, history
    <3> QED BY <1>3, <3>2, <3>3
  <2>2. AnnouncedFound' BY <1>1, <2>1 DEF Order, AnnouncedFound
  <2>3. SUFFICES ASSUME ~repeats PROVE InOrder' BY <2>1, <2>2 DEF Order, InOrder
  <2>4. \A p \in 1..Len(needed) : needed[p] <= Relayed'
    <3>1. CASE AggregatorJoin
      <4>1. needed = <<>> BY <2>3, <3>1 DEF Order, InOrder, AggregatorJoin
      <4> QED BY <4>1
    <3>2. CASE AggregatorTake
      <4>1. /\ aggregator' = [aggregator EXCEPT !.busy = TRUE, !.group = Fetched(aggregator.group)]
            /\ aggregator.up /\ ~aggregator.busy
            /\ aggregator \in [up : BOOLEAN, busy : BOOLEAN, group : Group]
        BY <3>2 DEF AggregatorTake, Base, Types
      <4>2. /\ aggregator'.busy /\ aggregator'.group = Fetched(aggregator.group)
            /\ Fetched(aggregator.group).next = aggregator.group.next + 1
            /\ aggregator.group.next \in Nat
        BY <4>1 DEF Fetched, Group
      <4>3. Relayed = aggregator.group.next BY <4>1 DEF Relayed
      <4>4. Relayed' = aggregator'.group.next - 1 BY <2>1, <4>2 DEF Relayed
      <4>5. Relayed' = Relayed BY <4>2, <4>3, <4>4
      <4> QED BY <2>3, <4>5 DEF Order, InOrder
    <3> QED BY <1>3, <3>1, <3>2
  <2> QED BY <1>1, <2>1, <2>3, <2>4 DEF Order, InOrder, Doing
<1> QED BY <1>2, <1>3

LEMMA LandOrder ==
  ASSUME Base, Order, (\E r \in RunIds, h \in Hops : Land(r, h)) \/ UNCHANGED vars
                        \/ \E r \in RunIds, failed \in BOOLEAN : Complete(r, failed)
  PROVE  Order'
<1>1. /\ UNCHANGED <<needed, handler, runRow, reportRow, announced, owner, repeats>>
      /\ UNCHANGED <<group, aggregator>>
  BY DEF Land, Complete, vars, topics, rows, history
<1> QED BY <1>1, OrderSame

(* Before anything is repeated a replica joins once, at the start.         *)
LEMMA JoinOrder == ASSUME Base, Order, NEW w \in Replicas, Join(w) PROVE Order'
<1>1. /\ UNCHANGED <<needed, handler, runRow, reportRow, announced, repeats, aggregator>>
      /\ owner = None /\ owner' = w /\ w # None /\ group' = Joined(group, Len(needed))
  BY BlamePipelineAssumption DEF Join, topics, rows, history
<1>2. AnnouncedFound' BY <1>1 DEF Order, AnnouncedFound
<1>3. ASSUME ~repeats PROVE InOrder'
  <2>1. group \in Group /\ group.durable /\ group.next = 0 /\ group.committed = 0
    BY <1>1, <1>3 DEF Base, Types, Offsets, Order, InOrder
  <2>2. group'.next = group.next BY <1>1, <2>1 DEF Joined, Group
  <2> QED BY <1>1, <1>3, <2>2 DEF Order, InOrder, Relayed, Doing
<1>4. ASSUME repeats PROVE InOrder' BY <1>1, <1>4 DEF InOrder
<1> QED BY <1>2, <1>3, <1>4 DEF Order

(* The next message is newer than what the rows were computed from.        *)
LEMMA TakeOrder == ASSUME Base, Rows, Order, NEW w \in Replicas, Take(w) PROVE Order'
<1>1. /\ UNCHANGED <<needed, runRow, reportRow, announced, repeats, aggregator, owner>>
      /\ owner = w /\ w # None /\ Doing(w, "idle")
  BY TakeFacts, BlamePipelineAssumption DEF topics, rows, history
<1>2. AnnouncedFound' BY <1>1 DEF Order, AnnouncedFound
<1>3. ASSUME ~repeats PROVE InOrder'
  <2>1. /\ group'.next = group.next + 1 /\ group.next \in Nat
        /\ group.next + 1 \in 1..Len(needed) /\ Len(needed) \in Nat
    BY TakeFacts, NeededFacts DEF Group, Base
  <2>2. handler'[w].event = needed[group.next + 1] BY TakeFacts
  <2>3. \A v \in Replicas \ {w} : ~Doing(v, "idle")' => FALSE
    <3>1. \A v \in Replicas \ {w} : Doing(v, "idle") BY <1>1, <1>3, Current
    <3> QED BY <3>1, TakeFacts DEF Doing
  <2>4. \A p \in 1..Len(needed) : group'.next < p => group.next < p BY <2>1
  <2>5. \A r \in RunIds, p \in 1..Len(needed) :
          group.next < p => runRow[r].event < needed[p] /\ reportRow[r].event < needed[p]
    BY <1>3 DEF Order, InOrder
  <2>6. \A r \in RunIds : /\ runRow[r].event <= needed[group.next + 1]
                        /\ reportRow[r].event <= needed[group.next + 1]
    <3>1. group.next < group.next + 1 /\ needed[group.next + 1] \in Nat
      BY <2>1, NeededFacts DEF Base
    <3>2. ASSUME NEW r \in RunIds
          PROVE  runRow[r].event <= needed[group.next + 1] /\ reportRow[r].event <= needed[group.next + 1]
      <4>1. runRow[r].event \in Nat /\ reportRow[r].event \in Nat BY RowEvents
      <4>2. /\ runRow[r].event < needed[group.next + 1]
            /\ reportRow[r].event < needed[group.next + 1]
        BY <2>1, <2>5, <3>1
      <4> QED BY <3>1, <4>1, <4>2
    <3> QED BY <3>2
  <2>7. \A r \in RunIds, v \in Replicas : ~Doing(v, "idle")' =>
          runRow[r].event <= handler'[v].event /\ reportRow[r].event <= handler'[v].event
    BY <2>2, <2>3, <2>6
  <2>8. \A r \in RunIds, p \in 1..Len(needed) :
          group'.next < p => runRow[r].event < needed[p] /\ reportRow[r].event < needed[p]
    BY <2>4, <2>5
  <2> QED BY <1>1, <1>3, <2>7, <2>8 DEF Order, InOrder, Relayed
<1>4. ASSUME repeats PROVE InOrder' BY <1>1, <1>4 DEF InOrder
<1> QED BY <1>2, <1>3, <1>4 DEF Order

LEMMA FetchOrder ==
  ASSUME Base, Order, NEW w \in Replicas, FetchEdges(w) \/ FetchFails(w) PROVE Order'
<1>1. /\ UNCHANGED <<needed, runRow, reportRow, announced, repeats, aggregator, owner, group>>
      /\ ~Doing(w, "idle") /\ \A v \in Replicas \ {w} : handler'[v] = handler[v]
  BY FetchFacts DEF topics, rows, Doing
<1>2. Doing(w, "idle")' \/ handler'[w].event = handler[w].event
  BY FetchFacts DEF Doing, NoMessage
<1> QED BY <1>1, <1>2 DEF Order, InOrder, AnnouncedFound, Relayed, Doing

(* What a handler writes is the newest completion that has been taken.     *)
LEMMA WriteOrder ==
  ASSUME Base, Rows, Order, NEW w \in Replicas, NEW o \in Outcomes,
         SaveRun(w, o) \/ SaveReport(w, o) \/ Announce(w, o)
  PROVE  Order'
<1> DEFINE e == handler[w].event
<1>1. /\ UNCHANGED <<needed, repeats, aggregator, owner, group>>
      /\ ~Doing(w, "idle") /\ \A v \in Replicas \ {w} : handler'[v] = handler[v]
      /\ Doing(w, "idle")' \/ handler'[w].event = e
  BY WriteFacts DEF topics, Doing, NoMessage
<1>2. /\ Result(w) # NoRow /\ Result(w).event = e /\ e \in Nat /\ Now(w) \in RunIds
  BY <1>1, WrittenRow, Busy, NeededFacts DEF Base
<1>3. /\ \A r \in RunIds : runRow'[r] = runRow[r] \/ runRow'[r].event = e
      /\ \A r \in RunIds : reportRow'[r] = reportRow[r] \/ (reportRow'[r] # NoRow /\ reportRow'[r].event = e)
      /\ announced' \subseteq announced \cup (IF Doing(w, "announce") THEN {[run |-> Now(w), event |-> e]} ELSE {})
      /\ Doing(w, "announce") => reportRow' = reportRow
  <2>1. CASE SaveRun(w, o) BY <1>2, <2>1, SaveRunRows DEF Doing
  <2>2. CASE SaveReport(w, o) BY <1>2, <2>2, SaveReportRows DEF Doing
  <2>3. CASE Announce(w, o) BY <2>3, AnnounceRows
  <2> QED BY <2>1, <2>2, <2>3
<1>4. ASSUME ~repeats
      PROVE  /\ \A r \in RunIds : runRow'[r].event <= e /\ reportRow'[r].event <= e
             /\ \A r \in RunIds : reportRow[r].event <= reportRow'[r].event
             /\ \A p \in 1..Len(needed) : group.next < p => e < needed[p]
             /\ \A v \in Replicas \ {w} : Doing(v, "idle")
             /\ Doing(w, "announce") => reportRow[Now(w)].event = e
  <2>1. \A r \in RunIds : /\ runRow[r].event <= e /\ reportRow[r].event <= e
                        /\ runRow[r].event \in Nat /\ reportRow[r].event \in Nat
    BY <1>1, <1>4, RowEvents DEF Order, InOrder
  <2>2. \A r \in RunIds : runRow'[r].event <= e /\ reportRow'[r].event <= e
    BY <1>2, <1>3, <2>1
  <2>3. \A r \in RunIds : reportRow[r].event <= reportRow'[r].event
    BY <1>2, <1>3, <2>1
  <2>4. /\ group.next \in 1..Len(needed) /\ e = needed[group.next]
        /\ \A v \in Replicas \ {w} : Doing(v, "idle")
    BY <1>1, <1>4, Current
  <2>5. \A p \in 1..Len(needed) : group.next < p => e < needed[p]
    BY <1>4, <2>4 DEF Order, InOrder
  <2>6. ~contended BY <1>4 DEF Base, Offsets
  <2>7. Doing(w, "announce") => reportRow[Now(w)].event = e
    BY <1>1, <1>2, <2>6 DEF Rows, Alone
  <2> QED BY <2>2, <2>3, <2>4, <2>5, <2>7
<1>5. AnnouncedFound'
  <2> SUFFICES ASSUME NEW a \in announced'
               PROVE  reportRow'[a.run] # NoRow /\ (~repeats => reportRow'[a.run].event >= a.event)
    BY <1>1 DEF AnnouncedFound
  <2>1. CASE a \in announced
    <3>1. a.run \in RunIds /\ a.event \in Nat
      BY <2>1, BlamePipelineAssumption DEF Base, Types, Event
    <3>2. reportRow[a.run] # NoRow /\ (~repeats => reportRow[a.run].event >= a.event)
      BY <2>1 DEF Order, AnnouncedFound
    <3>3. reportRow'[a.run] # NoRow BY <1>3, <3>1, <3>2
    <3>4. ASSUME ~repeats PROVE reportRow'[a.run].event >= a.event
      <4>1. reportRow[a.run].event \in Nat BY <3>1, RowEvents
      <4>2. reportRow'[a.run].event \in Nat BY <1>2, <1>3, <3>1, <4>1
      <4>3. reportRow[a.run].event <= reportRow'[a.run].event BY <1>4, <3>1, <3>4
      <4> QED BY <3>1, <3>2, <3>4, <4>1, <4>2, <4>3
    <3> QED BY <3>3, <3>4
  <2>2. CASE a \notin announced
    <3>1. Doing(w, "announce") /\ a.run = Now(w) /\ a.event = e /\ reportRow' = reportRow
      BY <1>3, <2>2
    <3>2. reportRow[Now(w)] # NoRow BY <3>1 DEF Rows, Found
    <3>3. ~repeats => reportRow[Now(w)].event >= e BY <1>2, <1>4, <3>1
    <3> QED BY <3>1, <3>2, <3>3
  <2> QED BY <2>1, <2>2
<1>6. ASSUME ~repeats PROVE InOrder'
  <2>1. \A v \in Replicas : ~Doing(v, "idle")' => handler'[v].event = e
    BY <1>1, <1>4, <1>6 DEF Doing
  <2>2. \A r \in RunIds, v \in Replicas : ~Doing(v, "idle")' =>
          runRow'[r].event <= handler'[v].event /\ reportRow'[r].event <= handler'[v].event
    BY <1>4, <1>6, <2>1
  <2>3. \A r \in RunIds, p \in 1..Len(needed) :
          group.next < p => runRow'[r].event < needed[p] /\ reportRow'[r].event < needed[p]
    <3> SUFFICES ASSUME NEW r \in RunIds, NEW p \in 1..Len(needed), group.next < p
                 PROVE  runRow'[r].event < needed[p] /\ reportRow'[r].event < needed[p]
      OBVIOUS
    <3>1. e < needed[p] /\ runRow'[r].event <= e /\ reportRow'[r].event <= e BY <1>4, <1>6
    <3>2. needed[p] \in Nat BY NeededFacts DEF Base
    <3>3. runRow'[r].event \in Nat /\ reportRow'[r].event \in Nat
      BY <1>2, <1>3, RowEvents
    <3> QED BY <1>2, <3>1, <3>2, <3>3
  <2> QED BY <1>1, <1>6, <2>2, <2>3 DEF Order, InOrder, Relayed
<1>7. ASSUME repeats PROVE InOrder' BY <1>1, <1>7 DEF InOrder
<1> QED BY <1>5, <1>6, <1>7 DEF Order

LEMMA LeaveOrder ==
  ASSUME Base, Order, Lose \/ \E w \in Replicas : ReplicaExit(w) PROVE Order'
<1>1. CASE Lose BY <1>1, RepeatsOrder DEF Lose, rows
<1>2. ASSUME NEW w \in Replicas, ReplicaExit(w) PROVE Order'
  <2>1. repeats' /\ UNCHANGED rows /\ UNCHANGED announced BY <1>2, ExitFacts
  <2> QED BY <2>1, RepeatsOrder DEF rows
<1> QED BY <1>1, <1>2

LEMMA InitOrder == Init => Order
<1> SUFFICES ASSUME Init PROVE Order OBVIOUS
<1>1. \A w \in Replicas : handler[w].stage = "idle" BY DEF Init, NoMessage
<1>2. /\ needed = <<>> /\ announced = {} /\ Resuming.committed = 0 /\ Resuming.next = 0
      /\ aggregator.group = Resuming /\ group = Resuming
  BY DEF Init, Resuming, NewGroup
<1> QED BY <1>1, <1>2 DEF Order, InOrder, AnnouncedFound, Doing

LEMMA NextOrder == Base /\ Rows /\ Order /\ [Next]_vars => Order'
<1> SUFFICES ASSUME Base, Rows, Order, [Next]_vars PROVE Order' OBVIOUS
<1>1. CASE (\E r \in RunIds, h \in Hops : Land(r, h)) \/ UNCHANGED vars
             \/ \E r \in RunIds, failed \in BOOLEAN : Complete(r, failed)
  BY <1>1, LandOrder
<1>2. CASE AggregatorJoin \/ AggregatorTake \/ AggregatorExit BY <1>2, AggregatorOrder
<1>3. ASSUME NEW o \in Outcomes, Forward(o) PROVE Order' BY <1>3, ForwardOrder
<1>4. ASSUME NEW w \in Replicas, Process(w) PROVE Order'
  BY <1>4, JoinOrder, TakeOrder, FetchOrder, WriteOrder DEF Process
<1>5. CASE Lose \/ \E w \in Replicas : ReplicaExit(w) BY <1>5, LeaveOrder
<1> QED BY <1>1, <1>2, <1>3, <1>4, <1>5 DEF Next
-----------------------------------------------------------------------------
(* Progress: nothing that was published is lost on the way to the rows.    *)
Progress == Relaying /\ Reached

(* How far the aggregator is only goes back where it may be sent again,    *)
(* and what it sends is put after all of that.                             *)
LEMMA ForwardProgress ==
  ASSUME Base, Progress, NEW o \in Outcomes, Forward(o) PROVE Progress'
<1> DEFINE i == aggregator.group.next
           n == Len(needed)
<1>1. /\ UNCHANGED <<completed, handler, runRow, reportRow, owner, group, dropped, contended>>
      /\ i \in Nat /\ Relayed = i - 1 /\ n \in Nat
      /\ (o = "ok" /\ Relayed' = i) \/ (o # "ok" /\ Relayed' = i - 1)
  <2>1. UNCHANGED <<completed, handler, runRow, reportRow, owner, group, dropped, contended>>
    BY DEF Forward, rows
  <2>2. i \in 1..Len(completed) /\ Relayed = i - 1 BY ForwardFacts
  <2>3. (o = "ok" /\ Relayed' = i) \/ (o # "ok" /\ Relayed' = i - 1) BY ForwardFacts
  <2> QED BY <2>1, <2>2, <2>3, NeededFacts DEF Base
<1>2. /\ n <= Len(needed') /\ \A p \in 1..n : needed'[p] = needed[p] /\ needed[p] \in Nat
      /\ \/ o = "fail" /\ Len(needed') = n
         \/ Len(needed') = n + 1 /\ needed'[n + 1] = i
  BY <1>1, ForwardFacts, NeededFacts DEF Base
<1>3. Relaying'
  <2> SUFFICES ASSUME NEW j \in 1..Relayed'
               PROVE  \E p \in 1..Len(needed') :
                        needed'[p] = j /\ \A q \in p..Len(needed') : needed'[q] >= j
    BY DEF Relaying
  <2>1. j \in Nat /\ j <= i BY <1>1
  <2>2. CASE j = i
    <3>1. Len(needed') = n + 1 /\ needed'[n + 1] = i BY <1>1, <1>2, <2>2
    <3>2. \A q \in (n + 1)..Len(needed') : needed'[q] >= j BY <1>1, <2>2, <3>1
    <3>3. n + 1 \in 1..Len(needed') BY <1>1, <3>1
    <3> QED BY <2>2, <3>1, <3>2, <3>3
  <2>3. CASE j # i
    <3>1. j \in 1..Relayed BY <1>1, <2>1, <2>3
    <3>2. PICK p \in 1..n : needed[p] = j /\ \A q \in p..n : needed[q] >= j
      BY <3>1 DEF Progress, Relaying
    <3>3. ASSUME NEW q \in p..Len(needed') PROVE needed'[q] >= j
      <4>1. CASE q \in 1..n
        <5>1. q \in p..n BY <1>1, <4>1
        <5> QED BY <1>2, <3>2, <4>1, <5>1
      <4>2. CASE q \notin 1..n
        <5>1. q = n + 1 /\ needed'[q] = i BY <1>1, <1>2, <4>2
        <5> QED BY <1>1, <2>1, <5>1
      <4> QED BY <4>1, <4>2
    <3>4. p \in 1..Len(needed') /\ needed'[p] = j BY <1>1, <1>2, <3>2
    <3> QED BY <3>3, <3>4
  <2> QED BY <2>2, <2>3
<1>4. Reached'
  <2> SUFFICES ASSUME ~contended, NEW p \in 1..Len(needed'), p <= Processed,
                      \A q \in (p + 1)..Len(needed') : RunOf(needed'[q]) # RunOf(needed'[p])
               PROVE  \/ needed'[p] \in dropped
                      \/ /\ runRow[RunOf(needed'[p])].event = needed'[p]
                         /\ reportRow[RunOf(needed'[p])].event = needed'[p]
    BY <1>1 DEF Reached, Processed, Free, RunOf
  <2>1. p \in 1..n
    <3>1. Processed <= n
      <4>1. group \in Group /\ group.committed <= n /\ (owner # None => group.next <= n)
        BY DEF Base, Types, Offsets
      <4> QED BY <1>1, <4>1 DEF Processed, Group
    <3>2. Processed \in Int
      <4>1. group \in Group BY DEF Base, Types
      <4> QED BY <4>1 DEF Processed, Group
    <3> QED BY <1>1, <3>1, <3>2
  <2>2. \A q \in (p + 1)..n : RunOf(needed[q]) # RunOf(needed[p])
    BY <1>1, <1>2, <2>1
  <2> QED BY <1>2, <2>1, <2>2 DEF Progress, Reached
<1> QED BY <1>3, <1>4 DEF Progress

LEMMA AggregatorProgress ==
  ASSUME Base, Progress, AggregatorJoin \/ AggregatorTake \/ AggregatorExit PROVE Progress'
<1>1. UNCHANGED <<completed, needed, handler, runRow, reportRow, owner, group, dropped, contended>>
  BY DEF AggregatorJoin, AggregatorTake, AggregatorExit, topics, rows, history
<1>2. Reached' BY <1>1 DEF Progress, Reached, Processed, Free, RunOf
<1> DEFINE g == aggregator.group
<1>3. /\ aggregator \in [up : BOOLEAN, busy : BOOLEAN, group : Group] /\ g \in Group
      /\ g.durable /\ g.committed <= Relayed
  BY DEF Base, Types, Offsets
<1>4. g.next \in Nat /\ g.committed \in Nat /\ Relayed \in Int
  BY <1>3 DEF Group, Relayed
<1>5. Relayed' <= Relayed /\ Relayed' \in Int
  <2>1. CASE AggregatorJoin
    <3>1. aggregator'.up /\ ~aggregator'.busy /\ aggregator'.group = Joined(g, Len(completed))
      BY <2>1 DEF AggregatorJoin
    <3>2. Joined(g, Len(completed)).next = g.committed BY <1>3 DEF Joined, Group
    <3>3. Relayed' = g.committed BY <3>1, <3>2 DEF Relayed
    <3> QED BY <1>3, <1>4, <3>3
  <2>2. CASE AggregatorTake
    <3>1. /\ aggregator' = [aggregator EXCEPT !.busy = TRUE, !.group = Fetched(g)]
          /\ aggregator.up /\ ~aggregator.busy /\ Fetched(g).next = g.next + 1
      BY <1>3, <2>2 DEF AggregatorTake, Fetched, Group
    <3>2. aggregator'.up /\ aggregator'.busy /\ aggregator'.group.next = g.next + 1
      BY <1>3, <3>1
    <3>3. Relayed' = aggregator'.group.next - 1 /\ Relayed = g.next BY <3>1, <3>2 DEF Relayed
    <3> QED BY <1>4, <3>2, <3>3
  <2>3. CASE AggregatorExit
    <3>1. PICK h \in Stored(g, aggregator.busy) : aggregator' = [up |-> FALSE, busy |-> FALSE, group |-> h]
      BY <2>3 DEF AggregatorExit
    <3>2. aggregator.up BY <2>3 DEF AggregatorExit
    <3>3. /\ h \in Group
          /\ h.committed = g.committed \/ h.committed <= IF aggregator.busy THEN g.next - 1 ELSE g.next
      BY <1>3, StoredFacts
    <3>4. Relayed = IF aggregator.busy THEN g.next - 1 ELSE g.next BY <3>2 DEF Relayed
    <3>5. Relayed' = h.committed BY <3>1 DEF Relayed
    <3>6. h.committed \in Nat BY <3>3 DEF Group
    <3> QED BY <1>3, <1>4, <3>3, <3>4, <3>5, <3>6
  <2> QED BY <2>1, <2>2, <2>3
<1>6. Relaying'
  <2>1. \A i \in 1..Relayed' : i \in 1..Relayed BY <1>4, <1>5
  <2> QED BY <1>1, <2>1 DEF Progress, Relaying
<1> QED BY <1>2, <1>6 DEF Progress

(* A consumer resumes where it was or before.                              *)
LEMMA CommittedBefore ==
  ASSUME Base, Rows, ~contended PROVE group.committed <= Processed
<1>1. /\ group \in Group /\ (owner # None => group.committed <= group.next)
      /\ owner \in Replicas \cup {None}
  BY DEF Base, Types, Offsets
<1>2. group.committed \in Nat /\ group.next \in Nat BY <1>1 DEF Group
<1>3. CASE owner = None BY <1>2, <1>3 DEF Processed
<1>4. CASE owner # None /\ Free(owner) BY <1>1, <1>2, <1>4 DEF Processed
<1>5. CASE owner # None /\ ~Free(owner)
  <2>1. owner \in Replicas /\ ~Doing(owner, "idle") BY <1>1, <1>5 DEF Base, Sources
  <2>2. group.committed < group.next BY <2>1 DEF Rows, Alone
  <2> QED BY <1>2, <1>5, <2>2 DEF Processed
<1> QED BY <1>3, <1>4, <1>5

(* What must hold of a step that publishes and forwards nothing: whatever  *)
(* counts as handled after it did before, or its processing is done.       *)
LEMMA ReachedKept ==
  ASSUME Base, Progress, UNCHANGED <<needed, completed, aggregator>>, dropped \subseteq dropped',
         ~contended' => ~contended,
         ~contended' => \A p \in 1..Len(needed) :
           /\ p <= Processed'
           /\ \A q \in (p + 1)..Len(needed) : RunOf(needed[q]) # RunOf(needed[p])
           => \/ needed[p] \in dropped'
              \/ /\ runRow'[RunOf(needed[p])].event = needed[p]
                 /\ reportRow'[RunOf(needed[p])].event = needed[p]
              \/ /\ p <= Processed
                 /\ runRow'[RunOf(needed[p])] = runRow[RunOf(needed[p])]
                 /\ reportRow'[RunOf(needed[p])] = reportRow[RunOf(needed[p])]
  PROVE  Progress'
<1>1. Relaying' BY DEF Progress, Relaying, Relayed
<1>2. Reached'
  <2> SUFFICES ASSUME ~contended', NEW p \in 1..Len(needed), p <= Processed',
                      \A q \in (p + 1)..Len(needed) : RunOf(needed[q]) # RunOf(needed[p])
               PROVE  \/ needed[p] \in dropped'
                      \/ /\ runRow'[RunOf(needed[p])].event = needed[p]
                         /\ reportRow'[RunOf(needed[p])].event = needed[p]
    BY DEF Reached, RunOf
  <2>1. CASE /\ p <= Processed
             /\ runRow'[RunOf(needed[p])] = runRow[RunOf(needed[p])]
             /\ reportRow'[RunOf(needed[p])] = reportRow[RunOf(needed[p])]
    BY <2>1 DEF Progress, Reached
  <2> QED BY <2>1
<1> QED BY <1>1, <1>2 DEF Progress

LEMMA JoinProgress == ASSUME Base, Progress, NEW w \in Replicas, Join(w) PROVE Progress'
<1>1. /\ UNCHANGED <<needed, completed, aggregator, handler, runRow, reportRow, dropped, contended>>
      /\ owner = None /\ owner' = w /\ w # None /\ group' = Joined(group, Len(needed))
  BY BlamePipelineAssumption DEF Join, topics, rows, history
<1>2. /\ group \in Group /\ group.durable /\ Processed = group.committed /\ group.committed \in Nat
  BY <1>1 DEF Base, Types, Offsets, Processed, Group
<1>3. group'.next = group.committed BY <1>1, <1>2 DEF Joined, Group
<1>4. Processed' <= Processed /\ Processed' \in Int
  BY <1>1, <1>2, <1>3 DEF Processed
<1>5. \A p \in 1..Len(needed) : p <= Processed' => p <= Processed BY <1>2, <1>4
<1> QED BY <1>1, <1>5, ReachedKept

LEMMA TakeProgress == ASSUME Base, Progress, NEW w \in Replicas, Take(w) PROVE Progress'
<1>1. /\ UNCHANGED <<needed, completed, aggregator, runRow, reportRow, dropped, contended>>
      /\ owner = w /\ owner' = w /\ w # None /\ Free(w)
  BY TakeFacts, BlamePipelineAssumption DEF topics, rows, history
<1>2. group'.next = group.next + 1 /\ group.next \in Nat /\ ~Free(w)'
  BY TakeFacts DEF Group, Free, NoMessage
<1>3. Processed = group.next /\ Processed' = group'.next - 1
  BY <1>1, <1>2 DEF Processed
<1>4. Processed' = Processed BY <1>2, <1>3
<1> QED BY <1>1, <1>4, ReachedKept

(* The step of a busy handler: it goes on, or the message is handled.      *)
LEMMA BusyProgress ==
  ASSUME Base, Rows, Progress, NEW w \in Replicas, ~Doing(w, "idle"),
         UNCHANGED <<needed, completed, aggregator, owner, group, contended>>, dropped \subseteq dropped',
         \A v \in Replicas \ {w} : handler'[v] = handler[v],
         Doing(w, "idle")' =>
           \/ handler[w].event \in dropped'
           \/ Doing(w, "announce") /\ UNCHANGED <<runRow, reportRow>>,
         \A r \in RunIds \ {Now(w)} : runRow'[r] = runRow[r] /\ reportRow'[r] = reportRow[r]
  PROVE  Progress'
<1> SUFFICES ASSUME ~contended, NEW p \in 1..Len(needed), p <= Processed',
                    \A q \in (p + 1)..Len(needed) : RunOf(needed[q]) # RunOf(needed[p])
             PROVE  \/ needed[p] \in dropped'
                    \/ /\ runRow'[RunOf(needed[p])].event = needed[p]
                       /\ reportRow'[RunOf(needed[p])].event = needed[p]
                    \/ /\ p <= Processed
                       /\ runRow'[RunOf(needed[p])] = runRow[RunOf(needed[p])]
                       /\ reportRow'[RunOf(needed[p])] = reportRow[RunOf(needed[p])]
  BY ReachedKept
<1> DEFINE m == group.next
<1>1. /\ w = owner /\ handler[w].event = needed[m]
      /\ Doing(w, "announce") => runRow[Now(w)] = Result(w) /\ reportRow[Now(w)] = Result(w)
      /\ group.committed < m
  BY DEF Rows, Alone
<1>2. ~Free(w) /\ w # None BY BlamePipelineAssumption DEF Free, Doing, NoMessage
<1>3. /\ Processed = m - 1 /\ m \in Nat
      /\ Processed' = IF Free(w)' THEN m ELSE m - 1
  <2>1. group \in Group BY DEF Base, Types
  <2> QED BY <1>1, <1>2, <2>1 DEF Processed, Group, Free
<1>4. m <= Len(needed) /\ Len(needed) \in Nat
  BY <1>1, <1>2, NeededFacts DEF Base, Offsets
<1>5. CASE p = m
  <2>1. Free(w)' BY <1>3, <1>5
  <2>2. Doing(w, "idle")' BY <2>1 DEF Free, Doing, NoMessage
  <2>3. CASE handler[w].event \in dropped' BY <1>1, <1>5, <2>3
  <2>4. CASE Doing(w, "announce") /\ UNCHANGED <<runRow, reportRow>>
    <3>1. Result(w).event = needed[m] BY <1>1, WrittenRow
    <3>2. Now(w) = RunOf(needed[p]) BY <1>1, <1>5 DEF Now
    <3> QED BY <1>1, <1>5, <2>4, <3>1, <3>2
  <2> QED BY <2>2, <2>3, <2>4
<1>6. CASE p # m
  <2>1. p <= m - 1 BY <1>3, <1>6
  <2>2. m \in (p + 1)..Len(needed) BY <1>3, <1>4, <2>1
  <2>3. RunOf(needed[p]) # Now(w) BY <1>1, <2>2 DEF Now
  <2>4. RunOf(needed[p]) \in RunIds BY NeededFacts DEF Base
  <2> QED BY <1>3, <2>1, <2>3, <2>4
<1> QED BY <1>5, <1>6

LEMMA FetchProgress ==
  ASSUME Base, Rows, Progress, NEW w \in Replicas, FetchEdges(w) \/ FetchFails(w) PROVE Progress'
<1>1. /\ UNCHANGED <<needed, completed, aggregator, owner, group, contended, runRow, reportRow>>
      /\ ~Doing(w, "idle") /\ \A v \in Replicas \ {w} : handler'[v] = handler[v]
  BY FetchFacts DEF Doing, topics, rows
<1>2. /\ dropped \subseteq dropped'
      /\ Doing(w, "idle")' => handler[w].event \in dropped'
  BY FetchFacts DEF Doing
<1> QED BY <1>1, <1>2, BusyProgress

LEMMA WriteProgress ==
  ASSUME Base, Rows, Progress, NEW w \in Replicas, NEW o \in Outcomes,
         SaveRun(w, o) \/ SaveReport(w, o) \/ Announce(w, o)
  PROVE  Progress'
<1>1. /\ UNCHANGED <<needed, completed, aggregator, owner, group, contended>>
      /\ ~Doing(w, "idle") /\ \A v \in Replicas \ {w} : handler'[v] = handler[v]
  BY WriteFacts DEF topics
<1>2. /\ dropped \subseteq dropped'
      /\ Doing(w, "idle")' => handler[w].event \in dropped' \/ Doing(w, "announce")
  BY WriteFacts DEF Doing
<1>3. /\ \A r \in RunIds \ {Now(w)} : runRow'[r] = runRow[r] /\ reportRow'[r] = reportRow[r]
      /\ Doing(w, "announce") => UNCHANGED <<runRow, reportRow>>
  <2>1. CASE SaveRun(w, o) BY <2>1, SaveRunRows DEF Doing
  <2>2. CASE SaveReport(w, o) BY <2>2, SaveReportRows DEF Doing
  <2>3. CASE Announce(w, o) BY <2>3, AnnounceRows
  <2> QED BY <2>1, <2>2, <2>3
<1> QED BY <1>1, <1>2, <1>3, BusyProgress

LEMMA LeaveProgress ==
  ASSUME Base, Rows, Progress, Lose \/ \E w \in Replicas : ReplicaExit(w) PROVE Progress'
<1>1. /\ UNCHANGED <<needed, completed, aggregator, runRow, reportRow, dropped>>
      /\ ~contended' => ~contended
  <2>1. CASE Lose BY <2>1 DEF Lose, topics, rows
  <2>2. ASSUME NEW w \in Replicas, ReplicaExit(w)
        PROVE  /\ UNCHANGED <<needed, completed, aggregator, runRow, reportRow, dropped>>
               /\ ~contended' => ~contended
    BY <2>2, ExitFacts DEF topics, rows
  <2> QED BY <2>1, <2>2
<1>2. ~contended' =>
        owner # None /\ owner' = None /\ group' \in Stored(group, ~Free(owner))
  <2>1. CASE Lose BY <2>1 DEF Lose
  <2>2. ASSUME NEW w \in Replicas, ReplicaExit(w), ~contended'
        PROVE  owner # None /\ owner' = None /\ group' \in Stored(group, ~Free(owner))
    <3>1. ~Free(w) => w = owner
      BY <1>1, <2>2 DEF Base, Sources, Rows, Alone
    <3> QED BY <2>2, <3>1, ExitFacts, BlamePipelineAssumption
  <2> QED BY <2>1, <2>2
<1>3. ~contended' => Processed' <= Processed /\ Processed \in Int /\ Processed' \in Int
  <2> SUFFICES ASSUME ~contended' PROVE Processed' <= Processed /\ Processed \in Int /\ Processed' \in Int
    OBVIOUS
  <2>1. /\ group' \in Group /\ (group'.committed = group.committed \/ group'.committed <= Processed)
        /\ Processed' = group'.committed
    BY <1>2, LeaveFacts DEF Processed
  <2>2. group.committed <= Processed BY <1>1, CommittedBefore
  <2>3. group \in Group BY DEF Base, Types
  <2> QED BY <2>1, <2>2, <2>3 DEF Group, Processed
<1>4. ~contended' => \A p \in 1..Len(needed) : p <= Processed' => p <= Processed
  BY <1>3
<1> QED BY <1>1, <1>4, ReachedKept

LEMMA CompleteProgress ==
  ASSUME Base, Progress, NEW r \in RunIds, NEW failed \in BOOLEAN, Complete(r, failed) PROVE Progress'
<1>1. /\ completed' = Append(completed, [run |-> r, failed |-> failed])
      /\ UNCHANGED <<needed, aggregator, group, owner, handler, runRow, reportRow, dropped, contended>>
  BY DEF Complete, rows, history
<1>2. \A i \in 1..Len(completed) : completed'[i] = completed[i]
  <2>1. completed \in Seq([run : RunIds, failed : BOOLEAN]) BY DEF Base, Types
  <2> QED BY <1>1, <2>1
<1>3. \A p \in 1..Len(needed) : RunOf(needed[p])' = RunOf(needed[p])
  BY <1>1, <1>2, NeededFacts DEF Base, RunOf
<1>4. Relaying' BY <1>1 DEF Progress, Relaying, Relayed
<1>5. Reached'
  <2>1. \A p \in 1..Len(needed) : \A q \in (p + 1)..Len(needed) : q \in 1..Len(needed)
    BY NeededFacts DEF Base
  <2> QED BY <1>1, <1>3, <2>1 DEF Progress, Reached, Processed, Free
<1> QED BY <1>4, <1>5 DEF Progress

LEMMA InitProgress == Init => Progress
<1> SUFFICES ASSUME Init PROVE Progress OBVIOUS
<1>1. needed = <<>> /\ Relayed = 0 BY DEF Init, Relayed, Resuming, NewGroup
<1> QED BY <1>1 DEF Progress, Relaying, Reached

LEMMA NextProgress == Base /\ Rows /\ Progress /\ [Next]_vars => Progress'
<1> SUFFICES ASSUME Base, Rows, Progress, [Next]_vars PROVE Progress' OBVIOUS
<1>1. ASSUME UNCHANGED <<completed, needed, aggregator, handler, runRow, reportRow, owner, group, dropped, contended>>
      PROVE  Progress'
  BY <1>1 DEF Progress, Relaying, Reached, Relayed, Processed, Free, RunOf
<1>2. UNCHANGED vars \/ (\E r \in RunIds, h \in Hops : Land(r, h)) =>
        UNCHANGED <<completed, needed, aggregator, handler, runRow, reportRow, owner, group, dropped, contended>>
  BY DEF Land, vars, topics, rows, history
<1>3. ASSUME NEW r \in RunIds, NEW failed \in BOOLEAN, Complete(r, failed) PROVE Progress'
  BY <1>3, CompleteProgress
<1>4. CASE AggregatorJoin \/ AggregatorTake \/ AggregatorExit BY <1>4, AggregatorProgress
<1>5. ASSUME NEW o \in Outcomes, Forward(o) PROVE Progress' BY <1>5, ForwardProgress
<1>6. ASSUME NEW w \in Replicas, Process(w) PROVE Progress'
  BY <1>6, JoinProgress, TakeProgress, FetchProgress, WriteProgress DEF Process
<1>7. CASE Lose \/ \E w \in Replicas : ReplicaExit(w) BY <1>7, LeaveProgress
<1> QED BY <1>1, <1>2, <1>3, <1>4, <1>5, <1>6, <1>7 DEF Next
-----------------------------------------------------------------------------
(* A set of naturals that has a bound has a greatest element.              *)
LEMMA Greatest ==
  ASSUME NEW n \in Nat, NEW T \in SUBSET (0..n), T # {}
  PROVE  \E m \in T : \A k \in T : m >= k
<1> DEFINE less == OpToRel(<, Nat)
           U    == {k \in Nat : n - k \in T}
<1>1. IsWellFoundedOn(less, Nat) BY NatLessThanWellFounded, Zenon
<1>2. \A x, y \in Nat : y < x => <<y, x>> \in less BY Zenon DEF OpToRel
<1> HIDE DEF less
<1>3. U \subseteq Nat /\ U # {}
  <2>1. PICK t \in T : TRUE OBVIOUS
  <2>2. n - t \in Nat /\ n - (n - t) = t BY <2>1
  <2> QED BY <2>1, <2>2
<1>4. PICK x \in U : \A y \in U : ~(<<y, x>> \in less)
  <2> HIDE DEF U
  <2> QED BY <1>1, <1>3, WFMin
<1>5. \A k \in T : n - x >= k
  <2> SUFFICES ASSUME NEW k \in T PROVE n - x >= k OBVIOUS
  <2>1. n - k \in U /\ n - k \in Nat OBVIOUS
  <2>2. ~(n - k < x) BY <1>2, <1>4, <2>1
  <2> QED BY <2>2
<1> QED BY <1>5

(* The last completion of a run is the greatest of its numbers.            *)
LEMMA LastEventFacts ==
  ASSUME Types, NEW r \in RunIds
  PROVE  /\ LastEvent(r) \in 0..Len(completed)
         /\ LastEvent(r) # 0 => RunOf(LastEvent(r)) = r
         /\ \A i \in 1..Len(completed) : RunOf(i) = r => i <= LastEvent(r)
<1> DEFINE S == {i \in 1..Len(completed) : RunOf(i) = r} \cup {0}
<1>1. Len(completed) \in Nat BY NeededFacts
<1>2. S \in SUBSET (0..Len(completed)) /\ S # {} BY <1>1
<1>3. \E m \in S : \A k \in S : m >= k BY <1>1, <1>2, Greatest
<1>4. LastEvent(r) = CHOOSE x \in S : \A y \in S : x >= y BY DEF LastEvent, Max
<1>5. LastEvent(r) \in S /\ \A k \in S : LastEvent(r) >= k
  <2> HIDE DEF S
  <2> QED BY <1>3, <1>4
<1>6. \A i \in 1..Len(completed) : RunOf(i) = r => i <= LastEvent(r)
  <2> SUFFICES ASSUME NEW i \in 1..Len(completed), RunOf(i) = r PROVE i <= LastEvent(r)
    OBVIOUS
  <2>1. i \in S /\ LastEvent(r) \in Nat /\ i \in Nat BY <1>1, <1>5
  <2> QED BY <1>5, <2>1
<1> QED BY <1>1, <1>5, <1>6

(* When all is handled, the last message of each run was its last          *)
(* completion, and it has left its mark.                                   *)
LEMMA ProgressConverges == ASSUME Base, Progress PROVE Converged
<1> SUFFICES ASSUME Quiet, ~contended, NEW r \in RunIds
             PROVE  \/ LastEvent(r) \in dropped
                    \/ runRow[r].event = LastEvent(r) /\ reportRow[r].event = LastEvent(r)
  BY DEF Converged
<1> DEFINE last == LastEvent(r)
<1>1. Relayed = Len(completed) /\ Processed = Len(needed)
  <2>1. /\ aggregator.up /\ ~aggregator.busy /\ aggregator.group.next = Len(completed)
        /\ owner # None /\ group.next = Len(needed) /\ \A w \in Replicas : Free(w)
    BY DEF Quiet
  <2>2. owner \in Replicas BY <2>1 DEF Base, Types
  <2> QED BY <2>1, <2>2 DEF Relayed, Processed
<1>2. /\ last \in 0..Len(completed) /\ (last # 0 => RunOf(last) = r)
      /\ \A i \in 1..Len(completed) : RunOf(i) = r => i <= last
  BY LastEventFacts DEF Base
<1>3. /\ Len(needed) \in Nat /\ Len(completed) \in Nat
      /\ \A p \in 1..Len(needed) : needed[p] \in 1..Len(completed)
      /\ Range(needed) \subseteq 1..Len(completed)
  BY NeededFacts DEF Base
<1>4. CASE last = 0
  <2>1. \A i \in Range(needed) : RunOf(i) # r BY <1>2, <1>3, <1>4
  <2>2. runRow[r] = NoRow /\ reportRow[r] = NoRow BY <2>1 DEF Base, Sources
  <2> QED BY <1>4, <2>2 DEF NoRow
<1>5. CASE last # 0
  <2>1. last \in 1..Relayed BY <1>1, <1>2, <1>3, <1>5
  <2>2. PICK p \in 1..Len(needed) : needed[p] = last /\ \A q \in p..Len(needed) : needed[q] >= last
    BY <2>1 DEF Progress, Relaying
  <2> DEFINE T == {q \in 1..Len(needed) : RunOf(needed[q]) = r}
  <2>3. T \in SUBSET (0..Len(needed)) /\ p \in T BY <1>2, <1>3, <1>5, <2>2
  <2>4. PICK m \in T : \A k \in T : m >= k BY <1>3, <2>3, Greatest
  <2>5. needed[m] = last
    <3>1. m \in p..Len(needed) /\ m \in 1..Len(needed) /\ p \in Nat BY <1>3, <2>2, <2>3, <2>4
    <3>2. needed[m] >= last /\ needed[m] <= last /\ needed[m] \in Nat BY <1>2, <1>3, <2>2, <2>4, <3>1
    <3> QED BY <1>2, <1>3, <3>2
  <2>6. \A q \in (m + 1)..Len(needed) : RunOf(needed[q]) # RunOf(needed[m])
    <3> SUFFICES ASSUME NEW q \in (m + 1)..Len(needed), RunOf(needed[q]) = r PROVE FALSE
      BY <2>4
    <3>1. q \in T /\ m \in Nat /\ q \in Nat /\ q > m BY <1>3, <2>4
    <3> QED BY <2>4, <3>1
  <2>7. m \in 1..Len(needed) /\ m <= Processed /\ RunOf(needed[m]) = r BY <1>1, <1>3, <2>4
  <2> QED BY <2>5, <2>6, <2>7 DEF Progress, Reached
<1> QED BY <1>4, <1>5
-----------------------------------------------------------------------------
(* The inductive invariant, and what follows from it.                      *)
IInv == Base /\ Lands /\ Rows /\ Order /\ Progress

(* The five layers hold in every state of the pipeline.                    *)
THEOREM PipelineInductive == Spec => []IInv
<1>1. Init => IInv BY InitBase, InitLands, InitRows, InitOrder, InitProgress DEF IInv
<1>2. IInv /\ [Next]_vars => IInv' BY NextBase, NextLands, NextRows, NextOrder, NextProgress DEF IInv
<1> QED BY <1>1, <1>2, PTL DEF Spec

(* The two rows of a run agree and announced reports are found: upserts of *)
(* workflow_runs and blame_reports by one replica at a time.               *)
THEOREM RowsAlwaysAgree == Spec => []RowsAgree
<1>1. IInv => RowsAgree BY DEF IInv, Rows, Order, Paired, AnnouncedFound, RowsAgree
<1> QED BY <1>1, PipelineInductive, PTL

(* A report misses no edge that was in ClickHouse when the aggregator      *)
(* forwarded the completion.                                               *)
THEOREM ReportsCoverLanded == Spec => []CoversLanded
<1>1. IInv => CoversLanded BY DEF IInv, Lands
<1> QED BY <1>1, PipelineInductive, PTL

(* When both consumers are idle at the end of their logs, each run shows   *)
(* its last completion, whatever exits and repetitions came before.        *)
THEOREM QuietRowsConverged == Spec => []Converged
<1>1. IInv => Converged BY ProgressConverges DEF IInv
<1> QED BY <1>1, PipelineInductive, PTL

(* The upsert of workflow_runs replaces a newer completion by an older one *)
(* only after a message was delivered again.                               *)
THEOREM RowsMoveForward == Spec => NoStaleOverwrite
<1> DEFINE Forwards == \A r \in RunIds : runRow'[r].event < runRow[r].event => repeats
<1>1. IInv /\ [Next]_vars => [Forwards]_vars
  <2> SUFFICES ASSUME IInv, [Next]_vars, NEW r \in RunIds, ~repeats
               PROVE  ~(runRow'[r].event < runRow[r].event)
    OBVIOUS
  <2>1. runRow[r].event \in Nat BY RowEvents DEF IInv
  <2>2. ASSUME NEW w \in Replicas, NEW o \in Outcomes, SaveRun(w, o)
        PROVE  ~(runRow'[r].event < runRow[r].event)
    <3>1. Base /\ Order /\ Doing(w, "saveRun") BY <2>2 DEF IInv, SaveRun
    <3>2. ~Doing(w, "idle") BY <3>1 DEF Doing
    <3>3. runRow'[r] = runRow[r] \/ runRow'[r] = Result(w)
      BY <2>2, <3>1, SaveRunRows
    <3>4. runRow[r].event <= handler[w].event BY <3>1, <3>2 DEF Order, InOrder
    <3>5. Result(w).event = handler[w].event /\ handler[w].event \in Nat
      BY <3>1, <3>2, WrittenRow, Busy, NeededFacts DEF Base
    <3> QED BY <2>1, <3>3, <3>4, <3>5
  <2>3. ASSUME runRow' = runRow PROVE ~(runRow'[r].event < runRow[r].event)
    BY <2>1, <2>3
  <2>4. (\E w \in Replicas, o \in Outcomes : SaveRun(w, o)) \/ runRow' = runRow
    BY DEF Next, vars, rows, history, topics, Process, Land, Complete, AggregatorJoin, AggregatorTake, AggregatorExit,
           Forward, Join, Take, FetchEdges, FetchFails, SaveReport, Announce, ReplicaExit, Lose
  <2> QED BY <2>2, <2>3, <2>4
<1> QED BY <1>1, PipelineInductive, PTL DEF Spec, NoStaleOverwrite
===============================================================================

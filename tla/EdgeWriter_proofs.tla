------------------------- MODULE EdgeWriter_proofs -------------------------
(***************************************************************************)
(* Theorems about EdgeWriter, for any number of edges, rebalances, exits   *)
(* and timer flushes that overlap, and any size of the buffer.  The        *)
(* inductive invariant joins to TypeOK where the copies of an edge may be  *)
(* and up to which offset every edge is accounted for.                     *)
(***************************************************************************)
EXTENDS EdgeWriter, SequenceRanges, TLAPS

(* Edges that may have more than one copy.                                 *)
Named == refused \cup refetched

(* An edge that is in two places, in one of them twice, or stored and      *)
(* still held, was refused or fetched again; what is held was fetched.     *)
Copies ==
  /\ Held \cup stored \subseteq seen
  /\ Held \cap stored \subseteq Named
  /\ Twice(buffer) \subseteq Named
  /\ \A f \in Flushes :
       /\ Twice(inserting[f]) \subseteq Named
       /\ Range(buffer) \cap Range(inserting[f]) \subseteq Named
       /\ \A g \in Flushes \ {f} : Range(inserting[g]) \cap Range(inserting[f]) \subseteq Named

(* The last message the group will not be handed again, by what is known   *)
(* now: a consumer that joins without an offset starts at the end.         *)
Past == IF up THEN group.next ELSE IF group.durable THEN group.committed ELSE produced

(* Every edge up to there is held, stored or given up.                     *)
PastAccounted == 1..Past \subseteq Held \cup stored \cup lost

IInv == TypeOK /\ Copies /\ PastAccounted /\ RepeatsExplained

Preserved == IInv' /\ [Queue!Next]_(Queue!outbox)
-----------------------------------------------------------------------------
(* Of two sequences in a row, what is there twice is twice in the second,  *)
(* or in the first.                                                        *)
LEMMA TwiceConcat ==
  ASSUME NEW S, NEW s \in Seq(S), NEW t \in Seq(S)
  PROVE  Twice(s \o t) \subseteq Range(s) \cup Twice(t)
<1> DEFINE u == s \o t
           m == Len(s)
           n == Len(t)
<1>1. /\ u \in Seq(S) /\ m \in Nat /\ n \in Nat /\ Len(u) = m + n
      /\ DOMAIN u = 1..(m + n) /\ DOMAIN s = 1..m /\ DOMAIN t = 1..n
      /\ \A i \in 1..m : u[i] = s[i]
      /\ \A i \in 1..n : u[m + i] = t[i]
  OBVIOUS
<1>2. \A i \in 1..(m + n) : i \in 1..m \/ (i - m \in 1..n /\ u[i] = t[i - m])
  <2> SUFFICES ASSUME NEW i \in 1..(m + n), i \notin 1..m PROVE i - m \in 1..n /\ u[i] = t[i - m]
    OBVIOUS
  <2>1. i - m \in 1..n /\ m + (i - m) = i BY <1>1
  <2> QED BY <1>1, <2>1
<1>3. ASSUME NEW x \in Twice(u), x \notin Range(s) PROVE x \in Twice(t)
  <2>1. PICK j, k \in 1..(m + n) : k # j /\ u[j] = x /\ u[k] = x
    BY <1>1 DEF Twice
  <2>2. j \notin 1..m /\ k \notin 1..m
    BY <1>1, <1>3, <2>1 DEF Range
  <2>3. /\ j - m \in 1..n /\ k - m \in 1..n /\ t[j - m] = x /\ t[k - m] = x
    BY <1>2, <2>1, <2>2
  <2>4. j - m # k - m
    BY <1>1, <2>1
  <2> QED BY <1>1, <2>3, <2>4 DEF Twice
<1> QED BY <1>3

(* What is appended is there twice only if it was there.                   *)
LEMMA TwiceAppend ==
  ASSUME NEW S, NEW s \in Seq(S), NEW x \in S
  PROVE  Twice(Append(s, x)) \subseteq Twice(s) \cup (Range(s) \cap {x})
<1> DEFINE t == Append(s, x)
           n == Len(s)
<1>1. /\ n \in Nat /\ DOMAIN t = 1..(n + 1) /\ DOMAIN s = 1..n
      /\ \A i \in 1..n : t[i] = s[i]
      /\ t[n + 1] = x
  OBVIOUS
<1> SUFFICES ASSUME NEW y \in Twice(t) PROVE y \in Twice(s) \cup (Range(s) \cap {x})
  OBVIOUS
<1>2. PICK j, k \in 1..(n + 1) : k # j /\ t[j] = y /\ t[k] = y
  BY <1>1 DEF Twice
<1> HIDE DEF t
<1>3. CASE j \in 1..n /\ k \in 1..n
  BY <1>1, <1>2, <1>3 DEF Twice
<1>4. CASE j \in 1..n /\ k = n + 1
  BY <1>1, <1>2, <1>4 DEF Range
<1>5. CASE j = n + 1 /\ k \in 1..n
  BY <1>1, <1>2, <1>5 DEF Range
<1> QED BY <1>1, <1>2, <1>3, <1>4, <1>5

LEMMA TwiceEmpty == Twice(<<>>) = {}
BY DEF Twice
-----------------------------------------------------------------------------
(* What is in the buffer and the batches, before and after a step.         *)
LEMMA HeldFacts ==
  ASSUME TypeOK
  PROVE  /\ Range(buffer) \subseteq Held /\ \A f \in Flushes : Range(inserting[f]) \subseteq Held
         /\ Held \subseteq Edge /\ Handler \in Flushes /\ \A f \in Timers : f \in Flushes
<1>1. Range(buffer) \subseteq Edge /\ \A f \in Flushes : Range(inserting[f]) \subseteq Edge
  BY RangeType DEF TypeOK
<1> QED BY <1>1 DEF Held, Flushes

(* Steps that neither hold nor fetch anything new keep the copies.         *)
LEMMA SameCopies ==
  ASSUME Copies, UNCHANGED <<buffer, inserting, stored, refused, refetched, seen>>
  PROVE  Copies' /\ Held' = Held
BY DEF Copies, Held, Named, Twice, Range

(* A step that accepts nothing, stores what was pending and gives up what  *)
(* was pending is one of the outbox, or none.                              *)
LEMMA QueueStep ==
  ASSUME NEW D \in SUBSET Pending, NEW L \in SUBSET Pending,
         UNCHANGED produced, stored' = stored \cup D, lost' = lost \cup L,
         Pending' \subseteq Pending, Pending \ Pending' \subseteq stored' \cup lost'
  PROVE  [Queue!Next]_(Queue!outbox)
<1>1. (1..produced)' = 1..produced \cup {}
  OBVIOUS
<1>2. Queue!Step({}, D, L)
  BY <1>1 DEF Queue!Step
<1>3. CASE D = {}
  BY <1>2, <1>3 DEF Queue!Next, Queue!Discard
<1>4. CASE D # {}
  <2>1. D \in (SUBSET Pending) \ {{}} BY <1>4
  <2> QED BY <1>2, <2>1 DEF Queue!Next, Queue!Deliver
<1> QED BY <1>3, <1>4
-----------------------------------------------------------------------------
LEMMA PublishStep == ASSUME IInv, Publish PROVE Preserved
<1> USE DEF IInv
<1>1. /\ produced < MaxEdges /\ produced' = produced + 1
      /\ lost' = IF up \/ group.durable THEN lost ELSE lost \cup {produced + 1}
      /\ UNCHANGED <<group, up, buffer, timer, inserting, stored, repeated, refused,
                     seen, refetched, rejoins, exits>>
  BY DEF Publish, process, table, fetches
<1>2. MaxEdges \in Nat /\ produced \in 0..MaxEdges /\ group.next \in Nat /\ group.committed \in Nat
  BY EdgeWriterAssumption DEF TypeOK, Group
<1>3. Copies' /\ Held' = Held
  BY <1>1, SameCopies
<1>4. produced' \in 0..MaxEdges /\ produced' \in Edge
  BY <1>1, <1>2 DEF Edge
<1>5. TypeOK'
  BY <1>1, <1>2, <1>3, <1>4 DEF TypeOK
<1>6. PastAccounted'
  <2>1. CASE up \/ group.durable
    BY <1>1, <1>3, <2>1 DEF PastAccounted, Past
  <2>2. CASE ~up /\ ~group.durable
    <3>1. 1..produced' = 1..produced \cup {produced'} BY <1>1, <1>2
    <3> QED BY <1>1, <1>3, <2>2, <3>1 DEF PastAccounted, Past
  <2> QED BY <2>1, <2>2
<1>7. RepeatsExplained'
  BY <1>1 DEF RepeatsExplained
<1>8. [Queue!Next]_(Queue!outbox)
  <2> DEFINE r == produced + 1
             L == IF up \/ group.durable THEN {} ELSE {r}
  <2>1. r \in Edge \ (1..produced) /\ 1..produced' = 1..produced \cup {r}
    BY <1>1, <1>2 DEF Edge
  <2>2. Ahead' = IF up \/ group.durable THEN Ahead \cup {r} ELSE {}
    <3>1. group.committed + 1 <= r BY <1>2 DEF TypeOK
    <3>2. (group.committed + 1)..r = ((group.committed + 1)..produced) \cup {r}
      BY <1>2, <3>1
    <3> QED BY <1>1, <3>2 DEF Ahead
  <2>3. Pending' \subseteq Pending \cup {r} /\ (Pending \cup {r}) \ Pending' \subseteq lost'
    BY <1>1, <1>3, <2>2 DEF Pending, Ahead
  <2>4. L \in SUBSET (Pending \cup {r}) /\ lost' = lost \cup L
    BY <1>1
  <2>5. Queue!Step({r}, {}, L)
    BY <1>1, <2>1, <2>3, <2>4 DEF Queue!Step
  <2> HIDE DEF L, r
  <2> QED BY <2>1, <2>4, <2>5 DEF Queue!Next, Queue!Accept
<1> QED BY <1>3, <1>5, <1>6, <1>7, <1>8 DEF Preserved

(* What joining does to the group.                                         *)
LEMMA JoinedFacts ==
  ASSUME TypeOK
  PROVE  LET g == Joined(group, produced)
             at == IF group.durable THEN group.committed ELSE produced
         IN  /\ g \in Group /\ g.next = at /\ g.committed = at /\ g.durable = group.durable
             /\ at <= produced /\ at \in Nat
<1> DEFINE at == IF group.durable THEN group.committed ELSE produced
           g == [[group EXCEPT !.next = at] EXCEPT !.committed = at]
<1>1. produced \in Nat /\ group \in Group /\ group.committed \in Nat /\ group.next \in Nat
      /\ group.committed <= group.next /\ group.next <= produced
  BY DEF TypeOK, Group
<1>2. at \in Nat /\ at <= produced
  BY <1>1
<1>3. Joined(group, produced) = g
  BY DEF Joined
<1> HIDE DEF at
<1>4. g \in Group /\ g.next = at /\ g.committed = at /\ g.durable = group.durable
  BY <1>1, <1>2 DEF Group
<1> QED BY <1>2, <1>3, <1>4 DEF at

LEMMA StartStep == ASSUME IInv, Start PROVE Preserved
<1> USE DEF IInv
<1>1. /\ ~up /\ up' = TRUE /\ group' = Joined(group, produced)
      /\ UNCHANGED <<produced, buffer, timer, inserting, stored, repeated, refused,
                     seen, refetched, lost, rejoins, exits>>
  BY DEF Start, process, table, fetches
<1>2. Copies' /\ Held' = Held
  BY <1>1, SameCopies
<1>3. group' \in Group /\ group'.committed <= group'.next /\ group'.next <= produced'
      /\ group'.next = Past /\ group'.committed = Past /\ group'.durable = group.durable
  BY <1>1, JoinedFacts DEF Past, Group
<1>4. TypeOK'
  BY <1>1, <1>2, <1>3 DEF TypeOK
<1>5. PastAccounted' /\ RepeatsExplained'
  BY <1>1, <1>2, <1>3 DEF PastAccounted, Past, RepeatsExplained
<1>6. Ahead' = Ahead
  <2>1. CASE group.durable
    BY <1>1, <1>3, <2>1 DEF Ahead, Past
  <2>2. CASE ~group.durable
    <3>1. produced \in Nat BY DEF TypeOK
    <3>2. Ahead' = (produced + 1)..produced BY <1>1, <1>3, <2>2 DEF Ahead, Past
    <3>3. (produced + 1)..produced = {} BY <3>1
    <3> QED BY <1>1, <2>2, <3>2, <3>3 DEF Ahead
  <2> QED BY <2>1, <2>2
<1>7. [Queue!Next]_(Queue!outbox)
  BY <1>1, <1>2, <1>6 DEF Pending, Queue!outbox
<1> QED BY <1>2, <1>4, <1>5, <1>7 DEF Preserved

LEMMA EachMessageStep == ASSUME IInv, EachMessage PROVE Preserved
<1> USE DEF IInv
<1> DEFINE e == group.next + 1
           b == Append(buffer, e)
<1>1. /\ up /\ inserting[Handler] = <<>> /\ e <= produced
      /\ group' = Fetched(group)
      /\ seen' = seen \cup {e}
      /\ refetched' = IF e \in seen THEN refetched \cup {e} ELSE refetched
      /\ UNCHANGED <<produced, up, stored, repeated, refused, lost, rejoins, exits>>
  BY DEF EachMessage, Waiting, table
<1>2. \/ buffer' = <<>> /\ timer' = FALSE /\ inserting' = [inserting EXCEPT ![Handler] = b]
      \/ buffer' = b /\ timer' = TRUE /\ inserting' = inserting
  BY DEF EachMessage, BeginFlush, ArmTimer
<1>3. /\ group \in Group /\ group.next \in Nat /\ group.committed \in Nat /\ produced \in Nat
      /\ MaxEdges \in Nat /\ produced <= MaxEdges /\ group.committed <= group.next
  BY EdgeWriterAssumption DEF TypeOK, Group
<1>4. /\ group' \in Group /\ group'.next = e /\ group'.committed = group.committed
      /\ group'.durable = group.durable
  BY <1>1, <1>3 DEF Fetched, Group
<1>5. e \in Edge /\ e \in Nat
  BY <1>1, <1>3 DEF Edge
<1>6. buffer \in Seq(Edge) /\ inserting \in [Flushes -> Seq(Edge)] /\ Handler \in Flushes
  BY HeldFacts DEF TypeOK
<1>7. b \in Seq(Edge) \ {<<>>} /\ Range(b) = Range(buffer) \cup {e}
      /\ Twice(b) \subseteq Twice(buffer) \cup (Range(buffer) \cap {e})
  BY <1>5, <1>6, RangeAppend, TwiceAppend
<1> HIDE DEF e, b
<1>8. Held' = Held \cup {e}
  <2>1. CASE buffer' = <<>> /\ inserting' = [inserting EXCEPT ![Handler] = b]
    <3>1. Range(buffer') = {} BY <2>1, RangeEmpty
    <3>2. inserting'[Handler] = b /\ \A f \in Flushes \ {Handler} : inserting'[f] = inserting[f]
      BY <1>6, <2>1
    <3>3. Range(inserting[Handler]) = {} BY <1>1, RangeEmpty
    <3>4. Held' = Range(b) \cup UNION {Range(inserting[f]) : f \in Flushes \ {Handler}}
      BY <1>6, <3>1, <3>2 DEF Held
    <3>5. Held = Range(buffer) \cup UNION {Range(inserting[f]) : f \in Flushes \ {Handler}}
      BY <1>6, <3>3 DEF Held
    <3> QED BY <1>7, <3>4, <3>5
  <2>2. CASE buffer' = b /\ inserting' = inserting
    BY <1>7, <2>2 DEF Held
  <2> QED BY <1>2, <2>1, <2>2
<1>9. Named \subseteq Named' /\ (e \in Held \cup stored => e \in Named')
  BY <1>1 DEF Named, Copies
<1>10. Copies'
  <2>1. Held' \cup stored' \subseteq seen' /\ Held' \cap stored' \subseteq Named'
    BY <1>1, <1>8, <1>9 DEF Copies
  <2>2. Range(buffer) \subseteq Held /\ \A f \in Flushes : Range(inserting[f]) \subseteq Held
    BY HeldFacts
  <2>3. Twice(b) \subseteq Named'
    BY <1>7, <1>9, <2>2 DEF Copies
  <2>4. \A f \in Flushes : Range(b) \cap Range(inserting[f]) \subseteq Named'
    BY <1>7, <1>9, <2>2 DEF Copies
  <2>5. CASE buffer' = <<>> /\ inserting' = [inserting EXCEPT ![Handler] = b]
    <3>1. inserting'[Handler] = b /\ \A f \in Flushes \ {Handler} : inserting'[f] = inserting[f]
      BY <1>6, <2>5
    <3>2. Range(buffer') = {} /\ Twice(buffer') = {} BY <2>5, RangeEmpty, TwiceEmpty
    <3>3. \A f \in Flushes : Twice(inserting'[f]) \subseteq Named'
      BY <1>9, <2>3, <3>1 DEF Copies
    <3>4. \A f \in Flushes, g \in Flushes :
            f # g => Range(inserting'[g]) \cap Range(inserting'[f]) \subseteq Named'
      BY <1>9, <2>4, <3>1 DEF Copies
    <3> QED BY <2>1, <3>2, <3>3, <3>4 DEF Copies
  <2>6. CASE buffer' = b /\ inserting' = inserting
    BY <1>9, <2>1, <2>3, <2>4, <2>6 DEF Copies
  <2> QED BY <1>2, <2>5, <2>6
<1>11. TypeOK'
  <2>1. buffer' \in Seq(Edge) /\ inserting' \in [Flushes -> Seq(Edge)]
        /\ timer' \in BOOLEAN /\ (timer' => buffer' # <<>>)
    <3>1. <<>> \in Seq(Edge) /\ b \in Seq(Edge) /\ b # <<>>
      BY <1>7
    <3> QED BY <1>2, <1>6, <3>1
  <2>2. group' \in Group /\ group'.committed <= group'.next /\ group'.next <= produced'
    BY <1>1, <1>3, <1>4 DEF e
  <2>3. refused' \subseteq seen' /\ refetched' \subseteq seen' /\ seen' \subseteq Edge
    BY <1>1, <1>5 DEF TypeOK
  <2> QED BY <1>1, <2>1, <2>2, <2>3 DEF TypeOK
<1>12. PastAccounted'
  <2>1. 1..e = 1..group.next \cup {e} BY <1>3 DEF e
  <2> QED BY <1>1, <1>4, <1>8, <2>1 DEF PastAccounted, Past
<1>13. RepeatsExplained'
  BY <1>1 DEF RepeatsExplained
<1>14. Pending' = Pending
  <2>1. Ahead' = Ahead /\ e \in Ahead
    <3>1. e \in (group.committed + 1)..produced BY <1>1, <1>3 DEF e
    <3> QED BY <1>1, <1>4, <3>1 DEF Ahead
  <2> QED BY <1>8, <2>1 DEF Pending
<1>15. [Queue!Next]_(Queue!outbox)
  BY <1>1, <1>14 DEF Queue!outbox
<1> QED BY <1>10, <1>11, <1>12, <1>13, <1>15 DEF Preserved
-----------------------------------------------------------------------------
LEMMA TimerFireStep == ASSUME IInv, NEW f \in Timers, TimerFire(f) PROVE Preserved
<1> USE DEF IInv
<1>1. /\ timer /\ inserting[f] = <<>>
      /\ timer' = FALSE /\ buffer' = <<>> /\ inserting' = [inserting EXCEPT ![f] = buffer]
      /\ UNCHANGED <<produced, group, up, stored, repeated, refused, seen, refetched,
                     lost, rejoins, exits>>
  BY DEF TimerFire, BeginFlush, table, fetches
<1>2. buffer \in Seq(Edge) /\ inserting \in [Flushes -> Seq(Edge)] /\ f \in Flushes
  BY HeldFacts DEF TypeOK
<1>3. inserting'[f] = buffer /\ \A g \in Flushes \ {f} : inserting'[g] = inserting[g]
  BY <1>1, <1>2
<1>4. Range(buffer') = {} /\ Twice(buffer') = {} /\ Range(inserting[f]) = {}
  BY <1>1, RangeEmpty, TwiceEmpty
<1>5. Held' = Held
  <2>1. Held' = Range(buffer) \cup UNION {Range(inserting[g]) : g \in Flushes \ {f}}
    BY <1>2, <1>3, <1>4 DEF Held
  <2>2. Held = Range(buffer) \cup UNION {Range(inserting[g]) : g \in Flushes \ {f}}
    BY <1>2, <1>4 DEF Held
  <2> QED BY <2>1, <2>2
<1>6. Copies'
  <2>1. \A g \in Flushes : Twice(inserting'[g]) \subseteq Named'
    BY <1>1, <1>3 DEF Copies, Named
  <2>2. \A g, h \in Flushes : g # h => Range(inserting'[g]) \cap Range(inserting'[h]) \subseteq Named'
    BY <1>1, <1>3 DEF Copies, Named
  <2>3. Held' \cup stored' \subseteq seen' /\ Held' \cap stored' \subseteq Named'
    BY <1>1, <1>5 DEF Copies, Named
  <2> QED BY <1>4, <2>1, <2>2, <2>3 DEF Copies
<1>7. TypeOK'
  <2>1. <<>> \in Seq(Edge)
    OBVIOUS
  <2>2. inserting' \in [Flushes -> Seq(Edge)] /\ buffer' \in Seq(Edge)
    BY <1>1, <1>2, <2>1
  <2> QED BY <1>1, <1>5, <2>2 DEF TypeOK
<1>8. PastAccounted' /\ RepeatsExplained'
  BY <1>1, <1>5 DEF PastAccounted, Past, RepeatsExplained
<1>9. [Queue!Next]_(Queue!outbox)
  BY <1>1, <1>5 DEF Pending, Ahead, Queue!outbox
<1> QED BY <1>6, <1>7, <1>8, <1>9 DEF Preserved

LEMMA FlushEndStep ==
  ASSUME IInv, NEW f \in Flushes, NEW o \in Outcomes, FlushEnd(f, o) PROVE Preserved
<1> USE DEF IInv
<1> DEFINE batch == inserting[f]
<1>1. /\ batch # <<>> /\ inserting' = [inserting EXCEPT ![f] = <<>>]
      /\ \/ /\ o # "fail"
            /\ stored' = stored \cup Range(batch)
            /\ repeated' = repeated \cup (stored \cap Range(batch)) \cup Twice(batch)
         \/ o = "fail" /\ UNCHANGED <<stored, repeated>>
      /\ \/ o = "ok" /\ UNCHANGED <<buffer, refused>>
         \/ o # "ok" /\ buffer' = batch \o buffer /\ refused' = refused \cup Range(batch)
      /\ UNCHANGED <<produced, group, up, timer, seen, refetched, lost, rejoins, exits>>
  BY DEF FlushEnd, PutBack, fetches
<1>2. buffer \in Seq(Edge) /\ inserting \in [Flushes -> Seq(Edge)] /\ batch \in Seq(Edge)
  BY DEF TypeOK
<1>3. inserting'[f] = <<>> /\ \A g \in Flushes \ {f} : inserting'[g] = inserting[g]
  BY <1>1, <1>2
<1>4. /\ batch \o buffer \in Seq(Edge) /\ batch \o buffer # <<>>
      /\ Range(batch \o buffer) = Range(batch) \cup Range(buffer)
      /\ Twice(batch \o buffer) \subseteq Range(batch) \cup Twice(buffer)
  BY <1>1, <1>2, RangeConcat, TwiceConcat
<1>5. Range(inserting'[f]) = {} /\ Twice(inserting'[f]) = {}
  BY <1>3, RangeEmpty, TwiceEmpty
<1>6. Range(batch) \subseteq Held /\ Range(buffer) \subseteq Held /\ Held \subseteq Edge
  BY HeldFacts
<1> DEFINE others == UNION {Range(inserting[g]) : g \in Flushes \ {f}}
<1>7. Held = Range(buffer) \cup Range(batch) \cup others /\ Held' = Range(buffer') \cup others
  <2>1. Held = Range(buffer) \cup Range(batch) \cup others
    BY DEF Held
  <2>2. Held' = Range(buffer') \cup others
    BY <1>3, <1>5 DEF Held
  <2> QED BY <2>1, <2>2
<1>8. /\ Twice(batch) \subseteq Named /\ Twice(buffer) \subseteq Named
      /\ Range(buffer) \cap Range(batch) \subseteq Named
      /\ others \cap Range(batch) \subseteq Named /\ Held \cap stored \subseteq Named
  <2>1. \A g \in Flushes \ {f} : Range(inserting[g]) \cap Range(batch) \subseteq Named
    BY DEF Copies
  <2> QED BY <2>1 DEF Copies
<1>9. Named \subseteq Named'
  BY <1>1 DEF Named
<1>10. \/ buffer' = buffer /\ o = "ok"
       \/ /\ buffer' = batch \o buffer /\ o # "ok"
          /\ Range(batch) \subseteq Named'
  BY <1>1 DEF Named
<1> HIDE DEF batch, others
<1>11. Held' \subseteq Held /\ Held \subseteq Held' \cup stored'
       /\ (o # "ok" => Held' = Held)
  BY <1>1, <1>4, <1>7, <1>10
<1>12. stored' \subseteq stored \cup Range(batch) /\ stored \subseteq stored'
  BY <1>1
<1>13. Copies'
  <2>1. Held' \cup stored' \subseteq seen'
    BY <1>1, <1>6, <1>11, <1>12 DEF Copies
  <2>2. Held' \cap stored' \subseteq Named'
    BY <1>7, <1>8, <1>9, <1>10, <1>11, <1>12
  <2>3. Twice(buffer') \subseteq Named'
    BY <1>4, <1>8, <1>9, <1>10
  <2>4. \A g \in Flushes : Twice(inserting'[g]) \subseteq Named'
    BY <1>3, <1>5, <1>9 DEF Copies
  <2>5. \A g \in Flushes : Range(buffer') \cap Range(inserting'[g]) \subseteq Named'
    BY <1>3, <1>4, <1>5, <1>9, <1>10 DEF Copies
  <2>6. \A g, h \in Flushes : g # h => Range(inserting'[g]) \cap Range(inserting'[h]) \subseteq Named'
    BY <1>3, <1>5, <1>9 DEF Copies
  <2> QED BY <2>1, <2>2, <2>3, <2>4, <2>5, <2>6 DEF Copies
<1>14. RepeatsExplained'
  BY <1>1, <1>6, <1>8, <1>9 DEF RepeatsExplained, Named
<1>15. TypeOK'
  <2>1. <<>> \in Seq(Edge)
    OBVIOUS
  <2>2. inserting' \in [Flushes -> Seq(Edge)] /\ buffer' \in Seq(Edge)
    BY <1>1, <1>2, <1>4, <1>10, <2>1
  <2>3. timer' => buffer' # <<>>
    BY <1>1, <1>4, <1>10 DEF TypeOK
  <2>4. stored' \subseteq Edge /\ repeated' \subseteq stored' /\ refused' \subseteq seen'
    <3>1. Twice(batch) \subseteq Range(batch) BY DEF Twice, Range
    <3> QED BY <1>1, <1>6, <3>1 DEF TypeOK, Copies
  <2>5. ~up' => Held' = {}
    BY <1>1, <1>11 DEF TypeOK
  <2> QED BY <1>1, <2>2, <2>3, <2>4, <2>5 DEF TypeOK
<1>16. PastAccounted'
  BY <1>1, <1>11, <1>12 DEF PastAccounted, Past
<1>17. [Queue!Next]_(Queue!outbox)
  <2> DEFINE D == IF o = "fail" THEN {} ELSE Range(batch)
  <2>1. Ahead' = Ahead BY <1>1 DEF Ahead
  <2>2. Pending' \subseteq Pending /\ Pending \ Pending' \subseteq stored' \cup lost'
    BY <1>11, <2>1 DEF Pending
  <2>3. D \in SUBSET Pending BY <1>6 DEF Pending
  <2>4. stored' = stored \cup D /\ lost' = lost \cup {} /\ UNCHANGED produced BY <1>1
  <2>5. {} \in SUBSET Pending OBVIOUS
  <2> HIDE DEF D
  <2> QED BY <2>2, <2>3, <2>4, <2>5, QueueStep
<1> QED BY <1>13, <1>14, <1>15, <1>16, <1>17 DEF Preserved

LEMMA CommitStep == ASSUME IInv, Commit PROVE Preserved
<1> USE DEF IInv
<1>1. /\ up /\ UNCHANGED <<produced, up, buffer, timer, inserting, stored, repeated, refused,
                           seen, refetched, lost, rejoins, exits>>
      /\ group' \in Commits(group, IF Waiting THEN group.next - 1 ELSE group.next)
  BY DEF Commit, process, table, fetches
<1>2. /\ group \in Group /\ group.next \in Nat /\ group.committed \in Nat /\ produced \in Nat
      /\ group.committed <= group.next /\ group.next <= produced
  BY DEF TypeOK, Group
<1>3. PICK n \in (group.committed + 1)..(IF Waiting THEN group.next - 1 ELSE group.next) :
        group' = [group EXCEPT !.committed = n, !.durable = TRUE]
  BY <1>1 DEF Commits
<1>4. n \in Nat /\ n <= group.next /\ group.committed < n
  BY <1>2, <1>3
<1>5. group' \in Group /\ group'.next = group.next /\ group'.committed = n /\ group'.durable
  BY <1>2, <1>3, <1>4 DEF Group
<1>6. Copies' /\ Held' = Held
  BY <1>1, SameCopies
<1>7. TypeOK'
  BY <1>1, <1>2, <1>4, <1>5, <1>6 DEF TypeOK
<1>8. PastAccounted' /\ RepeatsExplained'
  BY <1>1, <1>5, <1>6 DEF PastAccounted, Past, RepeatsExplained
<1>9. [Queue!Next]_(Queue!outbox)
  <2>1. Ahead = (group.committed + 1)..produced /\ Ahead' = (n + 1)..produced
    BY <1>1, <1>5 DEF Ahead
  <2>2. Ahead' \subseteq Ahead /\ Ahead \ Ahead' \subseteq 1..group.next
    BY <1>2, <1>4, <2>1
  <2>3. 1..group.next \subseteq Held \cup stored \cup lost
    BY <1>1 DEF PastAccounted, Past
  <2>4. Pending' \subseteq Pending /\ Pending \ Pending' \subseteq stored' \cup lost'
    BY <1>1, <1>6, <2>2, <2>3 DEF Pending
  <2>5. stored' = stored \cup {} /\ lost' = lost \cup {} /\ UNCHANGED produced BY <1>1
  <2>6. {} \in SUBSET Pending OBVIOUS
  <2> QED BY <2>4, <2>5, <2>6, QueueStep
<1> QED BY <1>6, <1>7, <1>8, <1>9 DEF Preserved

LEMMA RejoinStep == ASSUME IInv, Rejoin PROVE Preserved
<1> USE DEF IInv
<1>1. /\ up /\ rejoins < MaxRejoins /\ rejoins' = rejoins + 1
      /\ group' = Joined(group, produced)
      /\ lost' = IF group.durable THEN lost ELSE lost \cup ((group.next + 1)..produced)
      /\ UNCHANGED <<produced, up, buffer, timer, inserting, stored, repeated, refused,
                     seen, refetched, exits>>
  BY DEF Rejoin, process, table, fetches
<1>2. /\ group.next \in Nat /\ group.committed \in Nat /\ produced \in Nat
      /\ produced <= MaxEdges /\ MaxEdges \in Nat
      /\ group.committed <= group.next /\ group.next <= produced
  BY EdgeWriterAssumption DEF TypeOK, Group
<1>3. Copies' /\ Held' = Held
  BY <1>1, SameCopies
<1>4. /\ group' \in Group /\ group'.committed <= group'.next /\ group'.next <= produced'
      /\ group'.next = IF group.durable THEN group.committed ELSE produced
      /\ group'.committed = group'.next /\ group'.durable = group.durable
  BY <1>1, JoinedFacts DEF Group
<1>5. (group.next + 1)..produced \subseteq Edge
  BY <1>2 DEF Edge
<1>6. TypeOK'
  <2>1. rejoins' \in 0..MaxRejoins BY <1>1, EdgeWriterAssumption DEF TypeOK
  <2> QED BY <1>1, <1>3, <1>4, <1>5, <2>1 DEF TypeOK
<1>7. PastAccounted'
  <2>1. 1..group.next \subseteq Held \cup stored \cup lost
    BY <1>1 DEF PastAccounted, Past
  <2>2. CASE group.durable
    <3>1. 1..group.committed \subseteq 1..group.next BY <1>2
    <3> QED BY <1>1, <1>3, <1>4, <2>1, <2>2, <3>1 DEF PastAccounted, Past
  <2>3. CASE ~group.durable
    <3>1. 1..produced \subseteq 1..group.next \cup ((group.next + 1)..produced) BY <1>2
    <3> QED BY <1>1, <1>3, <1>4, <2>1, <2>3, <3>1 DEF PastAccounted, Past
  <2> QED BY <2>2, <2>3
<1>8. RepeatsExplained'
  BY <1>1 DEF RepeatsExplained
<1>9. [Queue!Next]_(Queue!outbox)
  <2>1. Ahead = (group.committed + 1)..produced
    BY <1>1 DEF Ahead
  <2> DEFINE L == IF group.durable THEN {} ELSE (group.next + 1)..produced
  <2>2. L \in SUBSET Pending
    <3>1. (group.next + 1)..produced \subseteq (group.committed + 1)..produced BY <1>2
    <3> QED BY <2>1, <3>1 DEF Pending
  <2>3. lost' = lost \cup L BY <1>1
  <2>4. Ahead' \subseteq Ahead /\ Ahead \ Ahead' \subseteq (1..group.next) \cup L
    <3>1. CASE group.durable
      BY <1>1, <1>4, <2>1, <3>1 DEF Ahead
    <3>2. CASE ~group.durable
      <4>1. Ahead' = (produced + 1)..produced BY <1>1, <1>4, <3>2 DEF Ahead
      <4>2. (produced + 1)..produced = {} BY <1>2
      <4>3. (group.committed + 1)..produced \subseteq 1..group.next \cup ((group.next + 1)..produced)
        BY <1>2
      <4> QED BY <2>1, <3>2, <4>1, <4>2, <4>3
    <3> QED BY <3>1, <3>2
  <2>5. 1..group.next \subseteq Held \cup stored \cup lost
    BY <1>1 DEF PastAccounted, Past
  <2> HIDE DEF L
  <2>6. Pending' \subseteq Pending /\ Pending \ Pending' \subseteq stored' \cup lost'
    BY <1>1, <1>3, <2>3, <2>4, <2>5 DEF Pending
  <2>7. stored' = stored \cup {} BY <1>1
  <2> QED BY <1>1, <2>2, <2>3, <2>6, <2>7, QueueStep
<1> QED BY <1>3, <1>6, <1>7, <1>8, <1>9 DEF Preserved

LEMMA ExitStep == ASSUME IInv, Exit PROVE Preserved
<1> USE DEF IInv
<1>1. /\ up /\ exits < MaxExits /\ exits' = exits + 1 /\ up' = FALSE
      /\ buffer' = <<>> /\ timer' = FALSE /\ inserting' = [f \in Flushes |-> <<>>]
      /\ lost' = lost \cup (Pending \ (Redelivered(group, produced) \cup stored))
      /\ UNCHANGED <<produced, group, stored, repeated, refused, seen, refetched, rejoins>>
  BY DEF Exit, table, fetches
<1>2. /\ group.next \in Nat /\ group.committed \in Nat /\ produced \in Nat
      /\ produced <= MaxEdges /\ MaxEdges \in Nat
      /\ group.committed <= group.next /\ group.next <= produced
  BY EdgeWriterAssumption DEF TypeOK, Group
<1>3. /\ Range(buffer') = {} /\ Twice(buffer') = {}
      /\ \A f \in Flushes : Range(inserting'[f]) = {} /\ Twice(inserting'[f]) = {}
  BY <1>1, RangeEmpty, TwiceEmpty
<1>4. Held' = {}
  BY <1>3 DEF Held
<1>5. Copies'
  BY <1>1, <1>3, <1>4 DEF Copies, Named
<1>6. Redelivered(group, produced) = IF group.durable THEN (group.committed + 1)..produced ELSE {}
  BY DEF Redelivered
<1>7. Ahead = (group.committed + 1)..produced /\ Ahead' = Redelivered(group, produced)
  BY <1>1, <1>6 DEF Ahead
<1>8. 1..group.next \subseteq Held \cup stored \cup lost
  BY <1>1 DEF PastAccounted, Past
<1>9. Pending \subseteq Edge
  BY <1>2, <1>7, HeldFacts DEF Pending, Edge
<1>10. TypeOK'
  <2>1. <<>> \in Seq(Edge)
    OBVIOUS
  <2>2. exits' \in 0..MaxExits BY <1>1, EdgeWriterAssumption DEF TypeOK
  <2>3. lost' \subseteq Edge BY <1>1, <1>9 DEF TypeOK
  <2>4. buffer' \in Seq(Edge) /\ inserting' \in [Flushes -> Seq(Edge)]
    BY <1>1, <2>1
  <2> QED BY <1>1, <1>4, <2>2, <2>3, <2>4 DEF TypeOK
<1>11. PastAccounted'
  <2>1. CASE group.durable
    <3>1. 1..group.committed \subseteq 1..group.next
          /\ (1..group.committed) \cap ((group.committed + 1)..produced) = {}
      BY <1>2
    <3>2. 1..group.committed \subseteq stored \cup lost'
      BY <1>1, <1>6, <1>8, <2>1, <3>1 DEF Pending
    <3> QED BY <1>1, <1>4, <2>1, <3>2 DEF PastAccounted, Past
  <2>2. CASE ~group.durable
    <3>1. 1..produced \subseteq 1..group.next \cup ((group.committed + 1)..produced)
      BY <1>2
    <3>2. 1..produced \subseteq stored \cup lost'
      BY <1>1, <1>6, <1>7, <1>8, <2>2, <3>1 DEF Pending
    <3> QED BY <1>1, <1>4, <2>2, <3>2 DEF PastAccounted, Past
  <2> QED BY <2>1, <2>2
<1>12. RepeatsExplained'
  BY <1>1 DEF RepeatsExplained
<1>13. [Queue!Next]_(Queue!outbox)
  <2> DEFINE L == Pending \ (Redelivered(group, produced) \cup stored)
  <2>1. Pending' \subseteq Pending
    BY <1>4, <1>6, <1>7 DEF Pending
  <2>2. Pending \ Pending' \subseteq stored' \cup lost'
    BY <1>1, <1>4, <1>7 DEF Pending
  <2>3. L \in SUBSET Pending /\ lost' = lost \cup L /\ stored' = stored \cup {}
    BY <1>1
  <2> HIDE DEF L
  <2> QED BY <1>1, <2>1, <2>2, <2>3, QueueStep
<1> QED BY <1>5, <1>10, <1>11, <1>12, <1>13 DEF Preserved
-----------------------------------------------------------------------------
LEMMA InitStep == Init => IInv /\ Queue!Init
<1> SUFFICES ASSUME Init PROVE IInv /\ Queue!Init
  OBVIOUS
<1>1. /\ Range(buffer) = {} /\ Twice(buffer) = {}
      /\ \A f \in Flushes : Range(inserting[f]) = {} /\ Twice(inserting[f]) = {}
  BY RangeEmpty, TwiceEmpty DEF Init
<1>2. Held = {} /\ Ahead = {} /\ 1..produced = {}
  BY <1>1 DEF Init, Held, Ahead, NewGroup
<1>3. Copies /\ RepeatsExplained
  BY <1>1, <1>2 DEF Init, Copies, Named, RepeatsExplained
<1>4. PastAccounted
  BY <1>2 DEF Init, NewGroup, PastAccounted, Past
<1>5. TypeOK
  <2>1. MaxEdges \in Nat /\ MaxRejoins \in Nat /\ MaxExits \in Nat
    BY EdgeWriterAssumption
  <2>2. <<>> \in Seq(Edge)
    OBVIOUS
  <2>3. group \in Group /\ group.committed <= group.next /\ group.next <= produced
    BY DEF Init, NewGroup, Group
  <2>4. inserting \in [Flushes -> Seq(Edge)] /\ buffer \in Seq(Edge)
    BY <2>2 DEF Init
  <2>5. /\ produced = 0 /\ rejoins = 0 /\ exits = 0 /\ up = FALSE /\ timer = FALSE
        /\ stored = {} /\ repeated = {} /\ refused = {} /\ seen = {} /\ refetched = {} /\ lost = {}
    BY DEF Init
  <2>6. produced \in 0..MaxEdges /\ rejoins \in 0..MaxRejoins /\ exits \in 0..MaxExits
    BY <2>1, <2>5
  <2>7. up \in BOOLEAN /\ timer \in BOOLEAN /\ (timer => buffer # <<>>) /\ (~up => Held = {})
    BY <1>2, <2>5
  <2> QED BY <2>3, <2>4, <2>5, <2>6, <2>7 DEF TypeOK
<1>6. Queue!Init
  BY <1>2 DEF Init, Queue!Init, Pending
<1> QED BY <1>3, <1>4, <1>5, <1>6 DEF IInv

LEMMA NextStep == IInv /\ [Next]_vars => IInv' /\ [Queue!Next]_(Queue!outbox)
<1> SUFFICES ASSUME IInv, [Next]_vars PROVE Preserved
  BY DEF Preserved
<1>1. CASE Publish BY <1>1, PublishStep
<1>2. CASE Start BY <1>2, StartStep
<1>3. CASE EachMessage BY <1>3, EachMessageStep
<1>4. ASSUME NEW f \in Timers, TimerFire(f) PROVE Preserved
  BY <1>4, TimerFireStep
<1>5. ASSUME NEW f \in Flushes, NEW o \in Outcomes, FlushEnd(f, o) PROVE Preserved
  BY <1>5, FlushEndStep
<1>6. CASE Commit BY <1>6, CommitStep
<1>7. CASE Rejoin BY <1>7, RejoinStep
<1>8. CASE Exit BY <1>8, ExitStep
<1>9. CASE UNCHANGED vars
  <2>1. UNCHANGED <<produced, group, up, buffer, timer, inserting, stored, repeated, refused,
                    seen, refetched, lost, rejoins, exits>>
    BY <1>9 DEF vars, process, table, fetches
  <2>2. Copies' /\ Held' = Held
    BY <2>1, SameCopies DEF IInv
  <2>3. TypeOK'
    BY <2>1, <2>2 DEF IInv, TypeOK
  <2>4. PastAccounted' /\ RepeatsExplained'
    BY <2>1, <2>2 DEF IInv, PastAccounted, Past, RepeatsExplained
  <2>5. UNCHANGED Queue!outbox
    BY <2>1, <2>2 DEF Pending, Ahead, Queue!outbox
  <2> QED BY <2>2, <2>3, <2>4, <2>5 DEF Preserved, IInv
<1> QED BY <1>1, <1>2, <1>3, <1>4, <1>5, <1>6, <1>7, <1>8, <1>9 DEF Next

(* The inductive invariant: the variables keep their types, a copy of an   *)
(* edge too many has a cause, and what the group will not be handed again  *)
(* is held by the process, stored, or given up.                            *)
THEOREM Inductive == Spec => []IInv
BY InitStep, NextStep, PTL DEF Spec

(* Every state of the writer is well typed; in particular a timer that is  *)
(* set finds edges in the buffer, and a process that is down holds none.   *)
THEOREM WriterTypeCorrect == Spec => []TypeOK
<1>1. IInv => TypeOK BY DEF IInv
<1> QED BY <1>1, Inductive, PTL

(* An edge has two rows in causal_edges only after an insert that reported *)
(* an error, or because Kafka delivered its message twice: overlapping     *)
(* flushes, the put-back and restarts make no other.                       *)
THEOREM RepeatsAreExplained == Spec => []RepeatsExplained
<1>1. IInv => RepeatsExplained BY DEF IInv
<1> QED BY <1>1, Inductive, PTL

(* The writer, with its timers, overlapping inserts, offsets committed     *)
(* early, rebalances and exits, implements an at-least-once outbox: an     *)
(* edge is to be fetched, in the buffer or being inserted until it has a   *)
(* row or its last copy was given up.                                      *)
THEOREM WriterRefinement == Spec => ImplementsOutbox
BY InitStep, NextStep, Inductive, PTL DEF Spec, ImplementsOutbox, Queue!Spec
=============================================================================

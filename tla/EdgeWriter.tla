----------------------------- MODULE EdgeWriter -----------------------------
(***************************************************************************)
(* ClickHouseWriterService of apps/workers/src/workers.service.ts: it      *)
(* consumes edges.raw, collects edges in a buffer, and inserts the buffer  *)
(* into ClickHouse when it is full (the message handler waits for that) or *)
(* when a timer fires (nothing waits for that, so that inserts overlap).   *)
(*                                                                         *)
(* An edge is the number of its message in the partition: edges.raw is     *)
(* keyed by workspace, so that a workspace's edges share one partition.    *)
(* Semantic enrichment and the insert are awaited in turn inside one try   *)
(* block, after the batch has left the buffer; they are one wait here,     *)
(* with one outcome.                                                       *)
(***************************************************************************)
EXTENDS ConsumerGroup, Sequences, FiniteSets, Functions

CONSTANTS
  MaxEdges,     \* bound: messages in the partition
  Limit,        \* edges that make the handler flush (1000 in the code)
  Timers,       \* bound: timer flushes whose insert may be under way at once
  Outcomes,     \* how an insert may end, a subset of AllOutcomes
  MaxRejoins,   \* bound: rebalances while the process lives
  MaxExits      \* bound: how often the process exits

AllOutcomes == {"ok", "lostReply", "fail"}
Handler     == "handler"
Edge        == 1..MaxEdges
Flushes     == {Handler} \cup Timers

ASSUME EdgeWriterAssumption ==
  /\ MaxEdges \in Nat
  /\ Limit \in Nat \ {0}
  /\ Handler \notin Timers
  /\ Outcomes \subseteq AllOutcomes
  /\ MaxRejoins \in Nat
  /\ MaxExits \in Nat

VARIABLES
  produced,   \* number of messages in the partition
  group,      \* the consumer group "clickhouse-writer"
  up,         \* the worker process runs and is subscribed
  buffer,     \* this.buffer
  timer,      \* this.flushTimer is set
  inserting,  \* per flush() under way: its batch
  stored,     \* edges with a row in causal_edges
  repeated,   \* history: edges with more than one row
  refused,    \* history: edges of a batch whose insert ended in an error
  refetched,  \* history: edges handed to the handler more than once
  seen,       \* history: edges handed to the handler
  lost,       \* history: edges a copy of which was given up
  rejoins, exits

process == <<buffer, timer, inserting>>
table   == <<stored, repeated, refused>>
fetches == <<seen, refetched>>
vars == <<produced, group, up, process, table, fetches, lost, rejoins, exits>>

-----------------------------------------------------------------------------
Waiting   == inserting[Handler] # <<>>

(* Elements that a sequence has at more than one place.                    *)
Twice(s) == {s[i] : i \in {j \in DOMAIN s : \E k \in DOMAIN s : k # j /\ s[k] = s[j]}}

Held      == Range(buffer) \cup UNION {Range(inserting[f]) : f \in Flushes}

(* Messages the group may yet be handed, now, after a rebalance or after a *)
(* restart.                                                                *)
Ahead == IF up \/ group.durable THEN (group.committed + 1)..produced ELSE {}

Pending == Held \cup Ahead

(* Variant of BeginFlush: the batch is copied and not spliced out of the   *)
(* buffer.                                                                 *)
BeginCopied(f, b) ==
  timer' = FALSE /\ buffer' = b /\ inserting' = [inserting EXCEPT ![f] = b]
(* flush() up to its first await, for the edges b: the timer is cleared    *)
(* and the whole buffer becomes a batch.                                   *)
BeginFlush(f, b) ==
  /\ timer' = FALSE
  /\ buffer' = <<>>
  /\ inserting' = [inserting EXCEPT ![f] = b]

(* Variant of ArmTimer: nothing is scheduled.                              *)
NoTimer == UNCHANGED timer

(* The 500 ms timer is set, unless it is already.                          *)
ArmTimer == timer' = TRUE

(* Variant of PutBack: the batch is dropped.                               *)
DropBatch(batch) == UNCHANGED buffer

(* An insert that failed: its edges go before those that came since.       *)
PutBack(batch) == buffer' = batch \o buffer

Init ==
  /\ produced = 0
  /\ group = NewGroup
  /\ up = FALSE
  /\ buffer = <<>>
  /\ timer = FALSE
  /\ inserting = [f \in Flushes |-> <<>>]
  /\ stored = {} /\ repeated = {} /\ refused = {}
  /\ seen = {} /\ refetched = {}
  /\ lost = {}
  /\ rejoins = 0 /\ exits = 0

(* The ingest publishes an edge.  While no consumer runs and the group has *)
(* no offset, nobody will ever read it.                                    *)
Publish ==
  /\ produced < MaxEdges
  /\ produced' = produced + 1
  /\ lost' = IF up \/ group.durable THEN lost ELSE lost \cup {produced + 1}
  /\ UNCHANGED <<group, up, process, table, fetches, rejoins, exits>>

(* onModuleInit(): the process starts and joins the group.                 *)
Start ==
  /\ ~up
  /\ up' = TRUE
  /\ group' = Joined(group, produced)
  /\ UNCHANGED <<produced, process, table, fetches, lost, rejoins, exits>>

(* eachMessage: push the edge; flush a full buffer and wait for it, or arm *)
(* the 500 ms timer unless it is armed.                                    *)
EachMessage ==
  LET e == group.next + 1
      b == Append(buffer, e) IN
  /\ up /\ ~Waiting /\ e <= produced
  /\ group' = Fetched(group)
  /\ seen' = seen \cup {e}
  /\ refetched' = IF e \in seen THEN refetched \cup {e} ELSE refetched
  /\ \/ Len(b) >= Limit /\ BeginFlush(Handler, b)
     \/ Len(b) < Limit /\ buffer' = b /\ ArmTimer /\ UNCHANGED inserting
  /\ UNCHANGED <<produced, up, table, lost, rejoins, exits>>

(* The timer fires and flush() begins, whatever else is being inserted.    *)
(* (A set timer finds edges, by TypeOK: flush() never returns at once.)    *)
TimerFire(f) ==
  /\ timer /\ inserting[f] = <<>>
  /\ BeginFlush(f, buffer)
  /\ UNCHANGED <<produced, group, up, table, fetches, lost, rejoins, exits>>

(* The insert ends.  An error puts the batch back in front of the buffer,  *)
(* and nothing arms the timer; the rows may be there all the same.         *)
FlushEnd(f, o) ==
  LET batch == inserting[f] IN
  /\ batch # <<>>
  /\ inserting' = [inserting EXCEPT ![f] = <<>>]
  /\ \/ /\ o # "fail"
        /\ stored' = stored \cup Range(batch)
        /\ repeated' = repeated \cup (stored \cap Range(batch)) \cup Twice(batch)
     \/ o = "fail" /\ UNCHANGED <<stored, repeated>>
  /\ \/ o = "ok" /\ UNCHANGED <<buffer, refused>>
     \/ o # "ok" /\ PutBack(batch) /\ refused' = refused \cup Range(batch)
  /\ UNCHANGED <<produced, group, up, timer, fetches, lost, rejoins, exits>>

(* Messages up to `done` are resolved: eachMessage has returned from them. *)
Commit ==
  /\ up
  /\ group' \in Commits(group, IF Waiting THEN group.next - 1 ELSE group.next)
  /\ UNCHANGED <<produced, up, process, table, fetches, lost, rejoins, exits>>

(* A rebalance: the consumer joins again and goes on from the committed    *)
(* offset, with the buffer of before.  Without one it skips to the end.    *)
Rejoin ==
  /\ up /\ ~Waiting /\ rejoins < MaxRejoins
  /\ rejoins' = rejoins + 1
  /\ group' = Joined(group, produced)
  /\ lost' = IF group.durable THEN lost
             ELSE lost \cup ((group.next + 1)..produced)
  /\ UNCHANGED <<produced, up, process, table, fetches, exits>>

(* The process exits.  What it holds is gone, and only what lies beyond    *)
(* the committed offset will be fetched again.                             *)
Exit ==
  /\ up /\ exits < MaxExits
  /\ exits' = exits + 1
  /\ up' = FALSE
  /\ buffer' = <<>>
  /\ timer' = FALSE
  /\ inserting' = [f \in Flushes |-> <<>>]
  /\ lost' = lost \cup (Pending \ (Redelivered(group, produced) \cup stored))
  /\ UNCHANGED <<produced, group, table, fetches, rejoins>>

Next ==
  \/ Publish
  \/ Start
  \/ EachMessage
  \/ \E f \in Timers : TimerFire(f)
  \/ \E f \in Flushes, o \in Outcomes : FlushEnd(f, o)
  \/ Commit
  \/ Rejoin
  \/ Exit

Spec == Init /\ [][Next]_vars

(* The runtime starts the process, hands over messages, fires due timers,  *)
(* ends inserts, and ClickHouse accepts a batch that is tried forever.     *)
Fairness ==
  /\ WF_vars(Start)
  /\ WF_vars(EachMessage)
  /\ \A f \in Timers : WF_vars(TimerFire(f))
  /\ \A f \in Flushes : WF_vars(\E o \in Outcomes : FlushEnd(f, o))
  /\ \A f \in Flushes : SF_vars(FlushEnd(f, "ok"))

FairSpec == Spec /\ Fairness

-----------------------------------------------------------------------------
TypeOK ==
  /\ produced \in 0..MaxEdges
  /\ group \in Group
  /\ group.committed <= group.next /\ group.next <= produced
  /\ up \in BOOLEAN /\ timer \in BOOLEAN
  /\ buffer \in Seq(Edge)
  /\ inserting \in [Flushes -> Seq(Edge)]
  /\ ~up => Held = {}
  /\ timer => buffer # <<>>
  /\ stored \subseteq Edge /\ repeated \subseteq stored
  /\ refused \subseteq seen /\ refetched \subseteq seen
  /\ seen \subseteq Edge /\ lost \subseteq Edge
  /\ rejoins \in 0..MaxRejoins /\ exits \in 0..MaxExits

(* The writer implements an outbox: an edge the ingest has published is to *)
(* be fetched, in the buffer or being inserted, until it has a row or its  *)
(* last copy was given up with the process.                                *)
Queue == INSTANCE Outbox WITH Request   <- Edge,
                              accepted  <- 1..produced,
                              pending   <- Pending,
                              delivered <- stored

ImplementsOutbox == Queue!Spec

(* An edge has two rows only after an insert that reported an error, or    *)
(* because Kafka delivered its message twice.                              *)
RepeatsExplained == repeated \subseteq refused \cup refetched

(* Every edge is stored or given up, or waits, refused before and with no  *)
(* timer, for the next message to arm one.                                 *)
Stranded(e) == e \in Range(buffer) \cap refused /\ ~timer
EdgesSettle ==
  \A e \in Edge : (e <= produced) ~> (e \in stored \cup lost \/ Stranded(e))
=============================================================================

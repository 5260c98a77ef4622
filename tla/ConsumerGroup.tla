--------------------------- MODULE ConsumerGroup ---------------------------
(***************************************************************************)
(* One partition of a Kafka topic as its consumer group sees it, the way   *)
(* the workers use kafkajs: eachMessage, one message at a time, autoCommit, *)
(* and subscribe({ fromBeginning: false }).  The log itself belongs to the *)
(* module that uses the group; messages are numbered 1, 2, ...             *)
(*                                                                         *)
(* A group is a record:                                                    *)
(*   next       how many messages have been handed to eachMessage          *)
(*   committed  the offset a consumer that joins now would resume from     *)
(*   durable    whether the broker has stored any offset of the group      *)
(***************************************************************************)
EXTENDS Naturals

Group    == [next : Nat, committed : Nat, durable : BOOLEAN]
NewGroup == [next |-> 0, committed |-> 0, durable |-> FALSE]

(* A consumer joins, or joins again after a rebalance: it resumes from the *)
(* committed offset, and without one from the end of the log.              *)
Joined(g, end) ==
  LET at == IF g.durable THEN g.committed ELSE end
  IN  [g EXCEPT !.next = at, !.committed = at]

(* eachMessage is called with the next message.                            *)
Fetched(g) == [g EXCEPT !.next = @ + 1]

(* eachMessage threw: the message is not resolved and is fetched again.    *)
Refetch(g) == [g EXCEPT !.next = @ - 1]

(* autoCommit stores the offset of some message that eachMessage has       *)
(* returned from; `done` messages have been handled.                       *)
Commits(g, done) ==
  {[g EXCEPT !.committed = n, !.durable = TRUE] : n \in (g.committed + 1)..done}

(* The messages a consumer that joins now would be handed.                 *)
Redelivered(g, end) == IF g.durable THEN (g.committed + 1)..end ELSE {}
=============================================================================

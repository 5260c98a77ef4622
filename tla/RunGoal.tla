------------------------------ MODULE RunGoal ------------------------------
(***************************************************************************)
(* The goal that the hops of a run are measured against, a key of Redis    *)
(* (apps/workers/src/drift-cache.ts) that is read and set edge by edge     *)
(* with an await in between: by every flush of the edge writer, by the     *)
(* blame processor (packages/semantic/src/drift.ts), and by the ML, which  *)
(* sets it without looking (packages/ml/src/inference.ts).  Flushes        *)
(* overlap, and so do replicas.  A goal is the hop whose input it is.      *)
(***************************************************************************)
EXTENDS Integers

CONSTANTS
    Hops,       \* hop indexes of the run
    WithInput,  \* hops that have an input preview
    Slots,      \* passes over edges that may be under way at once
    MaxPasses   \* bound: passes in all

ASSUME GoalAssumption ==
    Hops \subseteq Nat /\ WithInput \subseteq Hops /\ MaxPasses \in Nat

NoGoal == -1
GoalHop == 0   \* goal_hop_index, when no profile says otherwise

VARIABLES
    goal,        \* the value of run:<id>:goal, or NoGoal
    pass,        \* slot -> the pass under way
    passes,      \* number of passes begun
    unflushed,   \* hops the edge writer has not taken yet
    measured,    \* history: what hops were measured against, and whether the
                 \* ML had set the goal by then
    first,       \* history: the lowest hop with an input of the first pass with one
    mlSet,       \* history: the ML has set the goal
    overlapped,  \* history: two passes were under way at once
    expired      \* history: the key has expired

goalHistory == <<measured, first, mlSet, overlapped, expired>>
goalVars == <<goal, pass, passes, unflushed, goalHistory>>

\* A pass: its batch, the edges yet to look for a goal with, those yet to
\* read it for, and what was read.
NoPass == [kind |-> "none", step |-> "get", batch |-> {}, todo |-> {}, edges |-> {}, read |-> {}]

GoalInit ==
    /\ goal = NoGoal
    /\ pass = [s \in Slots |-> NoPass]
    /\ passes = 0
    /\ unflushed = Hops
    /\ measured = {} /\ first = NoGoal
    /\ mlSet = FALSE /\ overlapped = FALSE /\ expired = FALSE

\* Edges are sorted by their hops, and taken in that order.
LowestHop(S) == CHOOSE h \in S : \A g \in S : h <= g

\* A pass begins: a flush takes edges of its buffer, the blame processor
\* those it has read.
BeginPass(s, kind, S) ==
    LET inputs == S \cap WithInput IN
    /\ pass[s] = NoPass /\ passes < MaxPasses
    /\ passes' = passes + 1
    /\ pass' = [pass EXCEPT ![s] =
                    [NoPass EXCEPT !.kind = kind, !.batch = S, !.todo = inputs, !.edges = S]]
    /\ unflushed' = IF kind = "flush" THEN unflushed \ S ELSE unflushed
    /\ overlapped' = (overlapped \/ \E t \in Slots \ {s} : pass[t] # NoPass)
    /\ first' = IF first = NoGoal /\ inputs # {} THEN LowestHop(inputs) ELSE first
    /\ UNCHANGED <<goal, measured, mlSet, expired>>

FlushEdges(s) == \E S \in SUBSET unflushed \ {{}} : BeginPass(s, "flush", S)
BlameEdges(s) == unflushed # Hops /\ BeginPass(s, "blame", Hops \ unflushed)

\* Variant of GoalMissing: the goal is set whatever is there.
GoalIgnored == TRUE

GoalMissing == goal = NoGoal

\* cache.getRunGoal() for the next edge with an input.
GetGoal(s) ==
    /\ pass[s].step = "get" /\ pass[s].todo # {}
    /\ pass' = IF GoalMissing THEN [pass EXCEPT ![s].step = "set"]
               ELSE [pass EXCEPT ![s].todo = @ \ {LowestHop(@)}]
    /\ UNCHANGED <<goal, passes, unflushed, goalHistory>>

\* cache.setRunGoal(), after a get that found none.
SetGoal(s) ==
    /\ pass[s].step = "set"
    /\ goal' = LowestHop(pass[s].todo)
    /\ pass' = [pass EXCEPT ![s].step = "get", ![s].todo = @ \ {LowestHop(@)}]
    /\ UNCHANGED <<passes, unflushed, goalHistory>>

\* The goal is read again for every edge that is to be measured.
ReadGoal(s) ==
    /\ pass[s].step = "get" /\ pass[s].todo = {} /\ pass[s].edges # {}
    /\ pass' = [pass EXCEPT ![s].edges = @ \ {LowestHop(@)},
                            ![s].read = @ \cup {[goal |-> goal, ml |-> mlSet]}]
    /\ UNCHANGED <<goal, passes, unflushed, goalHistory>>

\* embedTexts() answers, and the outputs are measured, or it fails and they
\* are not.  A flush then inserts its edges or puts them back; the blame
\* processor turns to the ML.
Measure(s, embedded, inserted) ==
    LET p == pass[s]
        analysed == p.kind = "blame" /\ GoalHop \in p.batch \cap WithInput
    IN /\ p # NoPass /\ p.step = "get" /\ p.todo = {} /\ p.edges = {}
       /\ measured' = IF embedded THEN measured \cup p.read ELSE measured
       /\ unflushed' = IF p.kind = "flush" /\ ~inserted THEN unflushed \cup p.batch ELSE unflushed
       /\ pass' = [pass EXCEPT ![s] = IF analysed THEN [p EXCEPT !.step = "ml"] ELSE NoPass]
       /\ UNCHANGED <<goal, passes, first, mlSet, overlapped, expired>>

\* buildEmbeddingMap(): the input of the goal hop becomes the goal.
MlSetsGoal(s) ==
    /\ pass[s].step = "ml"
    /\ goal' = GoalHop /\ mlSet' = TRUE
    /\ pass' = [pass EXCEPT ![s] = NoPass]
    /\ UNCHANGED <<passes, unflushed, measured, first, overlapped, expired>>

\* The key lives for a day after it was set.
ExpireGoal ==
    /\ goal # NoGoal /\ ~expired
    /\ goal' = NoGoal /\ expired' = TRUE
    /\ UNCHANGED <<pass, passes, unflushed, measured, first, mlSet, overlapped>>

GoalNext ==
    \/ \E s \in Slots :
        \/ FlushEdges(s) \/ BlameEdges(s) \/ GetGoal(s) \/ SetGoal(s) \/ ReadGoal(s)
        \/ \E embedded, inserted \in BOOLEAN : Measure(s, embedded, inserted)
        \/ MlSetsGoal(s)
    \/ ExpireGoal

GoalSpec == GoalInit /\ [][GoalNext]_goalVars

-----------------------------------------------------------------------------
\* The hops of a run are measured against one goal, the first input that the
\* first pass with an input had, or the goal hop's once the ML has set that:
\* unless passes overlapped, of which two may each find no goal and set one,
\* or the goal expired.  (It is not the input of the run if the flush that
\* came first did not have the first hop.)
GoalExplained ==
    ~overlapped /\ ~expired =>
        \A m \in measured : m.goal \in {NoGoal, IF m.ml THEN GoalHop ELSE first}
==============================================================================

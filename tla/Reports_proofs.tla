--------------------------- MODULE Reports_proofs ---------------------------
(***************************************************************************)
(* Theorems of RunGoal, of RunDetailView with HopReplay, and of Reporting  *)
(* with BlameScores, DriftHints and ConfidenceGate; and that the run of    *)
(* Reports explores them.                                                  *)
(*                                                                         *)
(* Those of Reporting rest on ReportingInv: the hops of a run are in hop   *)
(* order and each of them there once (HopsInv); a run its SDK completed as *)
(* a success passed its gate, and nothing is cut before the hints          *)
(* (FlagsInv); the edges the report is made from are hops that were        *)
(* recorded, with what the hints and the ML may have changed of them, and  *)
(* the ML's shares are of the agents there and sum to 1000 (EdgesInv); and *)
(* the rows of a report are those that its edges give (ReportInv).  What   *)
(* the rows are worth is shown apart from any state, by lemmas about the   *)
(* operators, from the sort by hop to the mixed shares.                    *)
(*                                                                         *)
(* That the places of a run's page agree (ViewsAgree) is about the columns *)
(* of its agents: in an orderly run an agent stands in the column of its   *)
(* first index, and a single file has a column for each.                   *)
(***************************************************************************)
EXTENDS Reports, SequenceTheorems, FiniteSetTheorems, WellFoundedInduction, TLAPS

(* A set of numbers has a lowest one.                                      *)
LEMMA LowestIndex ==
  ASSUME NEW S \in SUBSET Nat, S # {}
  PROVE  \E x \in S : \A y \in S : x <= y
<1> DEFINE less == OpToRel(<, Nat)
<1>1. IsWellFoundedOn(less, Nat) BY NatLessThanWellFounded, Zenon
<1>2. \A x, y \in Nat : y < x => <<y, x>> \in less BY Zenon DEF OpToRel
<1> HIDE DEF less
<1>3. PICK x \in S : \A y \in S : ~(<<y, x>> \in less)
  <2>1. \E x \in S : \A y \in S : ~(<<y, x>> \in less) BY <1>1, WFMin, Zenon
  <2> QED BY <2>1
<1>4. \A y \in S : x \in Nat /\ y \in Nat /\ ~(y < x) BY <1>2, <1>3
<1> QED BY <1>3, <1>4

-----------------------------------------------------------------------------
(* What LowestHop() chooses is there.                                      *)
LEMMA LowestOfHops ==
  ASSUME NEW S \in SUBSET Nat, S # {}
  PROVE  LowestHop(S) \in S
  BY LowestIndex DEF LowestHop

(* Every pass has a type, one that is to set a goal has an input left for  *)
(* it, and the ML only follows where there is a goal hop.                  *)
Goals == Hops \cup {NoGoal}
Pass == [kind : {"none", "flush", "blame"}, step : {"get", "set", "ml"}, batch : SUBSET Hops,
         todo : SUBSET WithInput, edges : SUBSET Hops, read : SUBSET [goal : Goals, ml : BOOLEAN]]

GoalTypes ==
  /\ goal \in Goals /\ first \in Goals
  /\ pass \in [Slots -> Pass]
  /\ unflushed \in SUBSET Hops
  /\ mlSet \in BOOLEAN /\ overlapped \in BOOLEAN /\ expired \in BOOLEAN
  /\ \A s \in Slots : /\ pass[s].step = "ml" => GoalHop \in Hops
                      /\ pass[s].step = "set" => pass[s].todo # {}

(* While passes do not overlap there is one; and the goal, until there is  *)
(* one, will be the first input of the first pass that has any.            *)
Lone == \A s, t \in Slots : pass[s] # NoPass /\ pass[t] # NoPass => s = t
Right(m) == m.goal \in {NoGoal, IF m.ml THEN GoalHop ELSE first}
GoalRight ==
  /\ goal \in {NoGoal, IF mlSet THEN GoalHop ELSE first}
  /\ mlSet => goal = GoalHop
  /\ goal = NoGoal /\ first # NoGoal => \E s \in Slots : pass[s].todo # {}
  /\ \A s \in Slots :
       /\ pass[s].step = "set" => goal = NoGoal
       /\ goal = NoGoal /\ pass[s].todo # {} => first = LowestHop(pass[s].todo)
       /\ \A m \in pass[s].read : Right(m)
  /\ \A m \in measured : Right(m)

(* The inductive invariant of RunGoal: what holds always, what while no    *)
(* passes overlapped, and what if nothing expired either.                  *)
GoalInv ==
  /\ GoalTypes
  /\ ~overlapped => Lone
  /\ ~overlapped /\ ~expired => GoalRight

(* It holds at first.                                                      *)
LEMMA InitGoal == GoalInit => GoalInv
<1> SUFFICES ASSUME GoalInit PROVE GoalInv OBVIOUS
<1>1. GoalTypes BY GoalAssumption DEF GoalInit, GoalTypes, Pass, NoPass, Goals
<1>2. Lone BY DEF GoalInit, Lone
<1>3. GoalRight BY DEF GoalInit, GoalRight, NoPass
<1> QED BY <1>1, <1>2, <1>3 DEF GoalInv

(* A pass begins, with the edges it takes.                                 *)
LEMMA BeginStep ==
  ASSUME GoalInv, NEW s \in Slots, NEW kind \in {"flush", "blame"}, NEW S \in SUBSET Hops,
         BeginPass(s, kind, S)
  PROVE  GoalInv'
<1> DEFINE inputs == S \cap WithInput
           p == [NoPass EXCEPT !.kind = kind, !.batch = S, !.todo = inputs, !.edges = S]
<1>1. /\ pass[s] = NoPass
      /\ pass' = [pass EXCEPT ![s] = p]
      /\ unflushed' \in SUBSET Hops
      /\ overlapped' = (overlapped \/ \E t \in Slots \ {s} : pass[t] # NoPass)
      /\ first' = IF first = NoGoal /\ inputs # {} THEN LowestHop(inputs) ELSE first
      /\ UNCHANGED <<goal, measured, mlSet, expired>>
  BY DEF BeginPass, GoalInv, GoalTypes
<1>2. p \in Pass /\ p.step = "get" /\ p.todo = inputs /\ p.read = {}
  BY DEF Pass, NoPass
<1>3. inputs # {} => LowestHop(inputs) \in inputs
  BY LowestOfHops, GoalAssumption
<1> HIDE DEF p
<1>4. pass' \in [Slots -> Pass] /\ pass'[s] = p /\ \A t \in Slots : t # s => pass'[t] = pass[t]
  BY <1>1, <1>2 DEF GoalInv, GoalTypes
<1>5. GoalTypes'
  <2>1. first' \in Goals BY <1>1, <1>3, GoalAssumption DEF GoalInv, GoalTypes, Goals
  <2>2. \A t \in Slots : /\ pass'[t].step = "ml" => GoalHop \in Hops
                         /\ pass'[t].step = "set" => pass'[t].todo # {}
    BY <1>2, <1>4 DEF GoalInv, GoalTypes
  <2>3. overlapped' \in BOOLEAN
    <3> DEFINE others == \E t \in Slots \ {s} : pass[t] # NoPass
    <3>1. overlapped' = (overlapped \/ others) BY <1>1
    <3> HIDE DEF others
    <3> QED BY <3>1 DEF GoalInv, GoalTypes
  <2> QED BY <1>1, <1>4, <2>1, <2>2, <2>3 DEF GoalInv, GoalTypes
<1>6. ~overlapped' => Lone' BY <1>1, <1>4 DEF GoalInv, Lone
<1>7. ASSUME ~overlapped', ~expired' PROVE GoalRight'
  <2>1. GoalRight /\ \A t \in Slots : t # s => pass[t] = NoPass BY <1>1, <1>7 DEF GoalInv
  <2>2. NoPass.todo = {} /\ NoPass.step = "get" /\ NoPass.read = {} BY DEF NoPass
  <2>3. goal = NoGoal => first = NoGoal BY <1>1, <2>1, <2>2 DEF GoalRight
  <2>4. goal = NoGoal => ~mlSet BY <2>1 DEF GoalRight, GoalHop, NoGoal
  <2>5. first' = first \/ first = NoGoal BY <1>1
  <2>6. \A m \in measured : Right(m)' BY <1>1, <2>1, <2>5 DEF GoalRight, Right
  <2>7. goal' \in {NoGoal, IF mlSet' THEN GoalHop ELSE first'} BY <1>1, <2>1, <2>5 DEF GoalRight
  <2>8. \A t \in Slots : t # s => pass'[t] = NoPass BY <1>4, <2>1
  <2>9. goal' = NoGoal /\ first' # NoGoal => pass'[s].todo # {} BY <1>1, <1>2, <1>4, <2>3
  <2>10. goal' = NoGoal /\ inputs # {} => first' = LowestHop(inputs) BY <1>1, <2>3
  <2> QED BY <1>1, <1>2, <1>4, <2>1, <2>2, <2>6, <2>7, <2>8, <2>9, <2>10 DEF GoalRight
<1> QED BY <1>5, <1>6, <1>7 DEF GoalInv

(* A pass goes on, and all else stays but what is measured.                *)
LEMMA PassStep ==
  ASSUME GoalInv, NEW s \in Slots, NEW p \in Pass, pass[s] # NoPass,
         pass' = [pass EXCEPT ![s] = p],
         UNCHANGED <<goal, first, mlSet, overlapped, expired>>,
         unflushed' \in SUBSET Hops,
         p.step = "ml" => GoalHop \in Hops,
         p.step = "set" => goal = NoGoal /\ p.todo # {},
         goal # NoGoal \/ p.todo = pass[s].todo,
         \A m \in p.read : m \in pass[s].read \/ m = [goal |-> goal, ml |-> mlSet],
         \A m \in measured' : m \in measured \/ m \in pass[s].read
  PROVE  GoalInv'
<1>1. pass' \in [Slots -> Pass] /\ pass'[s] = p /\ \A t \in Slots : t # s => pass'[t] = pass[t]
  BY DEF GoalInv, GoalTypes
<1>2. GoalTypes' BY <1>1 DEF GoalInv, GoalTypes
<1>3. ~overlapped' => Lone' BY <1>1 DEF GoalInv, Lone
<1>4. ASSUME ~overlapped', ~expired' PROVE GoalRight'
  <2>1. GoalRight BY <1>4 DEF GoalInv
  <2>2. \A m : Right(m)' <=> Right(m) BY DEF Right
  <2>3. Right([goal |-> goal, ml |-> mlSet]) BY <2>1 DEF Right, GoalRight
  <2>4. \A m \in p.read : Right(m) BY <2>1, <2>3 DEF GoalRight
  <2>5. \A m \in measured' : Right(m) BY <2>1 DEF GoalRight
  <2>6. \A t \in Slots : goal = NoGoal => pass'[t].todo = pass[t].todo BY <1>1
  <2>7. \A t \in Slots : \A m \in pass'[t].read : Right(m) BY <1>1, <2>1, <2>4 DEF GoalRight
  <2>8. \A t \in Slots : pass'[t].step = "set" => goal' = NoGoal
    <3> SUFFICES ASSUME NEW t \in Slots, pass'[t].step = "set" PROVE goal = NoGoal OBVIOUS
    <3>1. CASE t = s BY <1>1, <3>1
    <3>2. CASE t # s BY <1>1, <2>1, <3>2 DEF GoalRight
    <3> QED BY <3>1, <3>2
  <2>9. goal' \in {NoGoal, IF mlSet' THEN GoalHop ELSE first'} /\ (mlSet' => goal' = GoalHop)
    BY <2>1 DEF GoalRight
  <2>10. goal' = NoGoal /\ first' # NoGoal => \E t \in Slots : pass'[t].todo # {}
    BY <2>1, <2>6 DEF GoalRight
  <2>11. \A t \in Slots : goal' = NoGoal /\ pass'[t].todo # {} => first' = LowestHop(pass'[t].todo)
    BY <2>1, <2>6 DEF GoalRight
  <2> QED BY <2>2, <2>5, <2>7, <2>8, <2>9, <2>10, <2>11 DEF GoalRight
<1> QED BY <1>2, <1>3, <1>4 DEF GoalInv

(* Every step keeps it.                                                    *)
LEMMA NextGoal == GoalInv /\ [GoalNext]_goalVars => GoalInv'
<1> SUFFICES ASSUME GoalInv, [GoalNext]_goalVars PROVE GoalInv' OBVIOUS
<1>1. ASSUME NEW s \in Slots, FlushEdges(s) PROVE GoalInv'
  <2>1. PICK S \in SUBSET unflushed \ {{}} : BeginPass(s, "flush", S) BY <1>1 DEF FlushEdges
  <2>2. S \in SUBSET Hops BY DEF GoalInv, GoalTypes
  <2> QED BY <2>1, <2>2, BeginStep
<1>2. ASSUME NEW s \in Slots, BlameEdges(s) PROVE GoalInv'
  <2>1. Hops \ unflushed \in SUBSET Hops BY DEF GoalInv
  <2> QED BY <1>2, <2>1, BeginStep DEF BlameEdges
<1>3. ASSUME NEW s \in Slots, GetGoal(s) PROVE GoalInv'
  <2>1. pass[s] \in Pass /\ pass[s].step = "get" /\ pass[s].todo # {} /\ pass[s] # NoPass
    BY <1>3 DEF GetGoal, GoalInv, GoalTypes, NoPass
  <2>2. UNCHANGED <<goal, first, mlSet, overlapped, expired, measured, unflushed>>
    BY <1>3 DEF GetGoal, goalHistory
  <2>3. unflushed' \in SUBSET Hops BY <2>2 DEF GoalInv, GoalTypes
  <2>4. CASE goal = NoGoal
    <3> DEFINE p == [pass[s] EXCEPT !.step = "set"]
    <3>1. pass' = [pass EXCEPT ![s] = p] BY <1>3, <2>4 DEF GetGoal, GoalMissing
    <3>2. p \in Pass /\ p.step = "set" /\ p.todo = pass[s].todo /\ p.read = pass[s].read
      BY <2>1 DEF Pass
    <3> HIDE DEF p
    <3> QED BY <2>1, <2>2, <2>3, <2>4, <3>1, <3>2, PassStep
  <2>5. CASE goal # NoGoal
    <3> DEFINE p == [pass[s] EXCEPT !.todo = @ \ {LowestHop(@)}]
    <3>1. pass' = [pass EXCEPT ![s] = p] BY <1>3, <2>5 DEF GetGoal, GoalMissing
    <3>2. p \in Pass /\ p.step = "get" /\ p.read = pass[s].read BY <2>1 DEF Pass
    <3> HIDE DEF p
    <3> QED BY <2>1, <2>2, <2>3, <2>5, <3>1, <3>2, PassStep
  <2> QED BY <2>4, <2>5
<1>4. ASSUME NEW s \in Slots, SetGoal(s) PROVE GoalInv'
  <2> DEFINE p == [pass[s] EXCEPT !.step = "get", !.todo = @ \ {LowestHop(@)}]
  <2>0. pass \in [Slots -> Pass] /\ pass[s].step = "set" /\ NoPass.step = "get"
    BY <1>4 DEF SetGoal, GoalInv, GoalTypes, NoPass
  <2>1. /\ pass[s] \in Pass /\ pass[s].step = "set" /\ pass[s] # NoPass
        /\ goal' = LowestHop(pass[s].todo)
        /\ pass' = [pass EXCEPT ![s] = p]
        /\ UNCHANGED <<first, mlSet, overlapped, expired, measured, unflushed>>
    <3>1. pass' = [pass EXCEPT ![s] = p] BY <1>4, <2>0 DEF SetGoal, Pass
    <3> HIDE DEF p
    <3> QED BY <1>4, <2>0, <3>1 DEF SetGoal, goalHistory
  <2>2. p \in Pass /\ p.step = "get" /\ p.read = pass[s].read BY <2>1 DEF Pass
  <2> HIDE DEF p
  <2>3. pass' \in [Slots -> Pass] /\ pass'[s] = p /\ \A t \in Slots : t # s => pass'[t] = pass[t]
    BY <2>1, <2>2 DEF GoalInv, GoalTypes
  <2>4. pass[s].todo # {} /\ pass[s].todo \in SUBSET WithInput BY <2>1 DEF GoalInv, GoalTypes, Pass
  <2>5. goal' \in Hops /\ goal' # NoGoal
    <3>1. LowestHop(pass[s].todo) \in pass[s].todo BY <2>4, LowestOfHops, GoalAssumption
    <3>2. goal' \in Hops BY <2>1, <2>4, <3>1, GoalAssumption
    <3>3. \A h \in Hops : h # -1 BY GoalAssumption
    <3> QED BY <3>2, <3>3 DEF NoGoal
  <2>6. GoalTypes' BY <2>1, <2>2, <2>3, <2>5 DEF GoalInv, GoalTypes, Goals
  <2>7. ~overlapped' => Lone' BY <2>1, <2>3 DEF GoalInv, Lone
  <2>8. ASSUME ~overlapped', ~expired' PROVE GoalRight'
    <3>1. GoalRight /\ Lone BY <2>1, <2>8 DEF GoalInv
    <3>2. goal = NoGoal /\ goal' = first BY <2>1, <2>4, <3>1 DEF GoalRight
    <3>3. ~mlSet BY <3>1, <3>2 DEF GoalRight, NoGoal, GoalHop
    <3>4. \A m : Right(m)' <=> Right(m) BY <2>1 DEF Right
    <3>5. \A t \in Slots : t # s => pass'[t] = NoPass BY <2>1, <2>3, <3>1 DEF Lone
    <3>6. NoPass.step = "get" /\ NoPass.read = {} BY DEF NoPass
    <3>7. \A t \in Slots : pass'[t].step # "set" /\ \A m \in pass'[t].read : Right(m)
      BY <2>2, <2>3, <3>1, <3>5, <3>6 DEF GoalRight
    <3>8. \A m \in measured' : Right(m) BY <2>1, <3>1 DEF GoalRight
    <3> QED BY <2>1, <2>5, <3>2, <3>3, <3>4, <3>7, <3>8 DEF GoalRight
  <2> QED BY <2>6, <2>7, <2>8 DEF GoalInv
<1>5. ASSUME NEW s \in Slots, ReadGoal(s) PROVE GoalInv'
  <2> DEFINE m == [goal |-> goal, ml |-> mlSet]
             p == [pass[s] EXCEPT !.edges = @ \ {LowestHop(@)}, !.read = @ \cup {m}]
  <2>0. pass \in [Slots -> Pass] /\ pass[s].edges # {} /\ NoPass.edges = {}
    BY <1>5 DEF ReadGoal, GoalInv, GoalTypes, NoPass
  <2>1. /\ pass[s] \in Pass /\ pass[s].step = "get" /\ pass[s].edges # {} /\ pass[s] # NoPass
        /\ pass' = [pass EXCEPT ![s] = p]
        /\ UNCHANGED <<goal, first, mlSet, overlapped, expired, measured, unflushed>>
    <3>1. pass' = [pass EXCEPT ![s] = p] BY <1>5, <2>0 DEF ReadGoal, Pass
    <3> HIDE DEF p
    <3> QED BY <1>5, <2>0, <3>1 DEF ReadGoal, goalHistory
  <2>2. m \in [goal : Goals, ml : BOOLEAN] /\ unflushed' \in SUBSET Hops BY <2>1 DEF GoalInv, GoalTypes
  <2> HIDE DEF m
  <2>3. p \in Pass /\ p.step = "get" /\ p.todo = pass[s].todo /\ p.read = pass[s].read \cup {m}
    BY <2>1, <2>2 DEF Pass
  <2> HIDE DEF p
  <2>4. \A n \in p.read : n \in pass[s].read \/ n = [goal |-> goal, ml |-> mlSet] BY <2>3 DEF m
  <2> QED BY <2>1, <2>2, <2>3, <2>4, PassStep
<1>6. ASSUME NEW s \in Slots, NEW embedded \in BOOLEAN, NEW inserted \in BOOLEAN,
             Measure(s, embedded, inserted)
      PROVE  GoalInv'
  <2> DEFINE analysed == pass[s].kind = "blame" /\ GoalHop \in pass[s].batch \cap WithInput
             p == IF analysed THEN [pass[s] EXCEPT !.step = "ml"] ELSE NoPass
  <2>1. /\ pass[s] \in Pass /\ pass[s].step = "get" /\ pass[s].todo = {} /\ pass[s] # NoPass
        /\ pass' = [pass EXCEPT ![s] = p]
        /\ measured' = IF embedded THEN measured \cup pass[s].read ELSE measured
        /\ unflushed' = IF pass[s].kind = "flush" /\ ~inserted THEN unflushed \cup pass[s].batch
                        ELSE unflushed
        /\ UNCHANGED <<goal, first, mlSet, overlapped, expired>>
    BY <1>6 DEF Measure, GoalInv, GoalTypes
  <2>2. unflushed' \in SUBSET Hops BY <2>1 DEF GoalInv, GoalTypes, Pass
  <2>3. /\ p \in Pass /\ p.todo = {} /\ p.step # "set" /\ (p.step = "ml" => GoalHop \in Hops)
        /\ \A m \in p.read : m \in pass[s].read
    <3>1. CASE analysed BY <2>1, <3>1 DEF Pass
    <3>2. CASE ~analysed BY <3>2 DEF Pass, NoPass
    <3> QED BY <3>1, <3>2
  <2>4. \A m \in measured' : m \in measured \/ m \in pass[s].read BY <2>1
  <2> HIDE DEF p
  <2> QED BY <2>1, <2>2, <2>3, <2>4, PassStep
<1>7. ASSUME NEW s \in Slots, MlSetsGoal(s) PROVE GoalInv'
  <2>1. /\ pass[s].step = "ml" /\ goal' = GoalHop /\ mlSet' = TRUE
        /\ pass' = [pass EXCEPT ![s] = NoPass]
        /\ UNCHANGED <<unflushed, measured, first, overlapped, expired>>
    BY <1>7 DEF MlSetsGoal
  <2>2. NoPass \in Pass /\ NoPass.step = "get" /\ NoPass.read = {} /\ NoPass.todo = {} BY DEF Pass, NoPass
  <2>3. pass' \in [Slots -> Pass] /\ pass'[s] = NoPass /\ \A t \in Slots : t # s => pass'[t] = pass[t]
    BY <2>1, <2>2 DEF GoalInv, GoalTypes
  <2>4. GoalHop \in Hops /\ GoalHop # NoGoal BY <2>1 DEF GoalInv, GoalTypes, GoalHop, NoGoal
  <2>5. GoalTypes' BY <2>1, <2>2, <2>3, <2>4 DEF GoalInv, GoalTypes, Goals
  <2>6. ~overlapped' => Lone' BY <2>1, <2>3 DEF GoalInv, Lone
  <2>7. ASSUME ~overlapped', ~expired' PROVE GoalRight'
    <3>1. GoalRight /\ Lone BY <2>1, <2>7 DEF GoalInv
    <3>2. \A t \in Slots : pass'[t] = NoPass BY <2>1, <2>2, <2>3, <3>1 DEF Lone
    <3>3. \A m : Right(m)' <=> Right(m) BY <2>1 DEF Right
    <3>4. \A m \in measured' : Right(m) BY <2>1, <3>1 DEF GoalRight
    <3> QED BY <2>1, <2>2, <2>4, <3>2, <3>3, <3>4 DEF GoalRight
  <2> QED BY <2>5, <2>6, <2>7 DEF GoalInv
<1>8. CASE ExpireGoal
  BY <1>8 DEF ExpireGoal, GoalInv, GoalTypes, Goals, Lone
<1>9. CASE UNCHANGED goalVars
  <2>1. UNCHANGED <<goal, pass, unflushed, measured, first, mlSet, overlapped, expired>>
    BY <1>9 DEF goalVars, goalHistory
  <2> QED BY <2>1 DEF GoalInv, GoalTypes, Lone, GoalRight, Right
<1> QED BY <1>1, <1>2, <1>3, <1>4, <1>5, <1>6, <1>7, <1>8, <1>9 DEF GoalNext

(* The passes over the edges of a run, with the awaits between their steps *)
(* (drift-cache.ts, drift.ts and inference.ts), keep GoalInv.              *)
THEOREM GoalInvariant == GoalSpec => []GoalInv
  BY InitGoal, NextGoal, PTL DEF GoalSpec

(* GoalExplained: one goal per run, getRunGoal() and setRunGoal() being    *)
(* apart, unless passes overlapped or the key expired.                     *)
THEOREM OneGoal == GoalSpec => []GoalExplained
<1>1. GoalInv => GoalExplained BY DEF GoalInv, GoalRight, Right, GoalExplained
<1> QED BY <1>1, GoalInvariant, PTL

-----------------------------------------------------------------------------
(* The API finds an edge that has the index of the card's hop.             *)
LEMMA HopAskedListed ==
  ASSUME NEW k, k.run \in RunsShown, k.card \in CardsOf(k.run)
  PROVE  \E i \in DOMAIN HopsOf(k.run) : HopAsked(k) = HopsOf(k.run)[i] /\ HopsOf(k.run)[i].hop = k.card[1]
<1> DEFINE hs == HopsOf(k.run)
           S == {i \in DOMAIN hs : hs[i].hop = k.card[1]}
<1>1. Len(hs) \in Nat /\ DOMAIN hs = 1..Len(hs) BY DetailAssumption
<1>2. k.run # NoRun BY DetailAssumption
<1>3. S # {} BY <1>2 DEF CardsOf, Card
<1>4. S \in SUBSET Nat BY <1>1
<1>5. PICK x \in S : \A y \in S : x <= y BY <1>3, <1>4, LowestIndex
<1>6. \E i \in DOMAIN hs : hs[i].hop = k.card[1] /\ \A j \in 1..(i - 1) : ~(hs[j].hop = k.card[1])
  <2>1. x \in 1..Len(hs) BY <1>1, <1>5
  <2>2. \A j \in 1..(x - 1) : j \in 1..Len(hs) /\ ~(x <= j) BY <1>1, <2>1
  <2> QED BY <1>1, <1>5, <2>1, <2>2
<1> HIDE DEF hs
<1> QED BY <1>6 DEF HopAsked, FirstEdge, hs

(* It has a card of its own in the run.                                    *)
LEMMA HopAskedFound ==
  ASSUME NEW k, k.run \in RunsShown, k.card \in CardsOf(k.run)
  PROVE  /\ HopAsked(k).hop = k.card[1]
         /\ Card(HopAsked(k)) \in CardsOf(k.run)
<1>1. k.run # NoRun BY DetailAssumption
<1> QED BY <1>1, HopAskedListed DEF CardsOf

(* What is merged in hides nothing.                                        *)
LEMMA JoinedField ==
  ASSUME NEW f, NEW g, NEW x \in DOMAIN f
  PROVE  Joined(f, g)[x] = f[x]
  BY DEF Joined

(* The inductive invariant of RunDetailView.  A panel has an id of its own *)
(* and, if it did not move, nothing of another run; a call belongs to the  *)
(* run and the card it was made for, and so does what it answered.         *)
CardFields == {"id", "from", "edited", "moved", "busy", "blame", "llm"}
CallFields == {"id", "panel", "card", "run", "kind", "request", "from", "stage", "result"}

OfCard(a, c) == a.agent = c[2] \/ \E h \in CardsOf(a.run) : h[1] = c[1] /\ h # c
PanelTyped(p, n) == DOMAIN p = CardFields /\ p.id \in 1..n /\ p.moved \in BOOLEAN
Home(p, r, ks) ==
  p.moved \/ /\ p.from = r
             /\ p.blame.run \in {NoRun, r} /\ p.llm.run \in {NoRun, r}
             /\ \A k \in ks : k.panel = p.id => k.run = r /\ k.from = r
Recorded(p, c, rs) == p.llm # NoAnswer => p.llm \in rs /\ OfCard(p.llm, c)
CallRight(k, n, rs) ==
  /\ DOMAIN k = CallFields /\ k.panel \in 0..n
  /\ k.run \in RunsShown /\ k.card \in CardsOf(k.run)
  /\ k.kind \in {"blame", "llm"}
  /\ k.kind = "blame" => k.stage # "answered" /\ (k.stage = "done" => k.result.run = k.run)
  /\ k.kind = "llm" /\ k.stage \in {"answered", "done"} => k.result.run = k.run /\ OfCard(k.result, k.card)
  /\ k.kind = "llm" /\ k.stage = "done" => k.result \in rs

PanelsInv ==
  /\ opens \in Nat
  /\ address \in RunsShown \cup {NoRun} /\ (fetching => address # NoRun)
  /\ detail.run \in RunsShown \cup {NoRun}
  /\ DOMAIN cards \subseteq CardsOf(detail.run)
  /\ \A c \in DOMAIN cards :
       /\ PanelTyped(cards[c], opens)
       /\ Home(cards[c], detail.run, calls)
       /\ Recorded(cards[c], c, replays)
  /\ \A c, d \in DOMAIN cards : cards[c].id = cards[d].id => c = d
  /\ \A k \in calls : CallRight(k, opens, replays)

(* It holds at first.                                                      *)
LEMMA InitPanels == DetailInit => PanelsInv
<1> SUFFICES ASSUME DetailInit PROVE PanelsInv OBVIOUS
<1>1. DOMAIN cards = {} BY DEF DetailInit
<1> QED BY <1>1 DEF DetailInit, PanelsInv, NoDetail, CardsOf

(* The panels stay as they are, or fewer of them, and so do the calls.     *)
LEMMA FewerPanels ==
  ASSUME PanelsInv, UNCHANGED <<calls, replays, opens>>,
         address' \in RunsShown \cup {NoRun}, fetching' => address' # NoRun,
         detail'.run \in RunsShown \cup {NoRun},
         DOMAIN cards' \subseteq DOMAIN cards, DOMAIN cards' \subseteq CardsOf(detail'.run),
         \A c \in DOMAIN cards' : cards'[c] = cards[c],
         detail'.run = detail.run
  PROVE  PanelsInv'
  BY DEF PanelsInv

(* Every step keeps it.                                                    *)
LEMMA NextPanels == PanelsInv /\ [DetailNext]_detailVars => PanelsInv'
<1> SUFFICES ASSUME PanelsInv, [DetailNext]_detailVars PROVE PanelsInv' OBVIOUS
<1>1. ASSUME NEW r \in RunsShown, NEW listed \in BOOLEAN, Visit(r, listed) PROVE PanelsInv'
  <2>1. r # NoRun BY DetailAssumption
  <2> QED BY <1>1, <2>1 DEF Visit, PanelsInv
<1>2. CASE Leave
  <2>1. DOMAIN cards' = {} /\ detail'.run = NoRun BY <1>2 DEF Leave, NoDetail
  <2> QED BY <1>2, <2>1 DEF Leave, PanelsInv
<1>3. ASSUME NEW blamed \in BOOLEAN, NEW profiled \in BOOLEAN, Fetched(blamed, profiled) PROVE PanelsInv'
  <2>1. detail'.run = address /\ UNCHANGED <<address, calls, replays, opens>> /\ ~fetching'
    BY <1>3 DEF Fetched
  <2>2. DOMAIN cards' \subseteq DOMAIN cards /\ DOMAIN cards' \subseteq CardsOf(address) BY <1>3 DEF Fetched
  <2>3. ASSUME NEW c \in DOMAIN cards'
        PROVE /\ PanelTyped(cards'[c], opens) /\ cards'[c].id = cards[c].id
              /\ Home(cards'[c], address, calls)
              /\ Recorded(cards'[c], c, replays)
    <3>1. cards'[c] = [cards[c] EXCEPT !.moved = @ \/ detail.run # address] BY <1>3, <2>3 DEF Fetched
    <3>2. /\ DOMAIN cards[c] = CardFields /\ cards[c].id \in 1..opens /\ cards[c].moved \in BOOLEAN
          /\ Home(cards[c], detail.run, calls) /\ Recorded(cards[c], c, replays)
      BY <2>2, <2>3 DEF PanelsInv, PanelTyped
    <3> DEFINE gone == cards[c].moved \/ detail.run # address
    <3>3. gone \in BOOLEAN BY <3>2
    <3>4. ASSUME NEW p, NEW q, DOMAIN p = CardFields, NEW b, q = [p EXCEPT !.moved = b]
          PROVE /\ DOMAIN q = CardFields /\ q.moved = b /\ q.id = p.id /\ q.from = p.from
                /\ q.blame = p.blame /\ q.llm = p.llm
      BY <3>4 DEF CardFields
    <3>5. cards'[c] = [cards[c] EXCEPT !.moved = gone] BY <3>1
    <3> HIDE DEF gone
    <3>6. /\ DOMAIN cards'[c] = CardFields /\ cards'[c].moved = gone /\ cards'[c].id = cards[c].id
          /\ cards'[c].from = cards[c].from /\ cards'[c].blame = cards[c].blame
          /\ cards'[c].llm = cards[c].llm
      BY <3>2, <3>4, <3>5
    <3>7. PanelTyped(cards'[c], opens) BY <3>2, <3>3, <3>6 DEF PanelTyped
    <3>8. Recorded(cards'[c], c, replays) BY <3>2, <3>6 DEF Recorded
    <3>9. Home(cards'[c], address, calls)
      <4>1. CASE gone BY <3>6, <4>1 DEF Home
      <4>2. CASE ~gone
        <5>1. ~cards[c].moved /\ detail.run = address BY <4>2 DEF gone
        <5> QED BY <3>2, <3>6, <5>1 DEF Home
      <4> QED BY <4>1, <4>2
    <3> QED BY <3>6, <3>7, <3>8, <3>9
  <2> QED BY <2>1, <2>2, <2>3 DEF PanelsInv
<1>4. CASE FetchFailed
  <2>1. DOMAIN cards' = {} /\ detail'.run = NoRun BY <1>4 DEF FetchFailed, NoDetail
  <2> QED BY <1>4, <2>1 DEF FetchFailed, PanelsInv
<1>5. ASSUME NEW t \in {"graph", "trace"}, ShowTab(t) PROVE PanelsInv'
  <2>1. DOMAIN cards' = {} BY <1>5 DEF ShowTab
  <2> QED BY <1>5, <2>1 DEF ShowTab, PanelsInv
<1>6. ASSUME NEW c \in CardsOf(detail.run), OpenCard(c) PROVE PanelsInv'
  <2> DEFINE p == [id |-> opens + 1, from |-> detail.run, edited |-> FALSE, moved |-> FALSE,
                   busy |-> {}, blame |-> NoAnswer, llm |-> NoAnswer]
  <2>1. /\ opens' = opens + 1 /\ c \notin DOMAIN cards
        /\ DOMAIN cards' = DOMAIN cards \cup {c}
        /\ cards'[c] = p /\ \A d \in DOMAIN cards : cards'[d] = cards[d]
        /\ UNCHANGED <<address, fetching, detail, calls, replays>>
    BY <1>6 DEF OpenCard, With
  <2>2. /\ DOMAIN p = CardFields /\ p.id = opens' /\ p.moved = FALSE /\ p.from = detail.run
        /\ p.blame = NoAnswer /\ p.llm = NoAnswer
    BY <2>1 DEF CardFields
  <2> HIDE DEF p
  <2>3. opens \in Nat /\ opens' \in Nat BY <2>1 DEF PanelsInv
  <2>4. \A k \in calls : CallRight(k, opens', replays) /\ k.panel # p.id
    BY <2>1, <2>2, <2>3 DEF PanelsInv, CallRight
  <2>5. PanelTyped(p, opens')
    <3>1. p.id \in 1..opens' BY <2>1, <2>2, <2>3
    <3>2. p.moved \in BOOLEAN BY <2>2, Zenon
    <3> QED BY <2>2, <3>1, <3>2 DEF PanelTyped
  <2>6. Home(p, detail.run, calls) BY <2>2, <2>4 DEF Home, NoAnswer
  <2>7. Recorded(p, c, replays) BY <2>2 DEF Recorded
  <2>8. \A d \in DOMAIN cards : PanelTyped(cards[d], opens') /\ cards[d].id # p.id
    BY <2>1, <2>2, <2>3 DEF PanelsInv, PanelTyped
  <2> QED BY <1>6, <2>1, <2>3, <2>4, <2>5, <2>6, <2>7, <2>8 DEF PanelsInv
<1>7. ASSUME NEW c \in DOMAIN cards, CloseCard(c) PROVE PanelsInv'
  BY <1>7, FewerPanels DEF CloseCard, PanelsInv
<1>8. ASSUME NEW c \in DOMAIN cards, Edit(c) PROVE PanelsInv'
  <2>1. /\ DOMAIN cards' = DOMAIN cards
        /\ \A d \in DOMAIN cards : d # c => cards'[d] = cards[d]
        /\ cards'[c] = [cards[c] EXCEPT !.edited = TRUE, !.from = detail.run]
        /\ UNCHANGED <<address, fetching, detail, calls, replays, opens>>
    BY <1>8 DEF Edit
  <2>2. PanelTyped(cards[c], opens) /\ Home(cards[c], detail.run, calls) /\ Recorded(cards[c], c, replays)
    BY DEF PanelsInv
  <2>3. /\ DOMAIN cards'[c] = CardFields /\ cards'[c].moved = cards[c].moved /\ cards'[c].id = cards[c].id
        /\ cards'[c].from = detail.run /\ cards'[c].blame = cards[c].blame /\ cards'[c].llm = cards[c].llm
    BY <2>1, <2>2 DEF PanelTyped, CardFields
  <2>4. PanelTyped(cards'[c], opens) BY <2>2, <2>3 DEF PanelTyped
  <2>5. Home(cards'[c], detail.run, calls) BY <2>2, <2>3 DEF Home
  <2>6. Recorded(cards'[c], c, replays) BY <2>2, <2>3 DEF Recorded
  <2>7. \A d \in DOMAIN cards :
          /\ PanelTyped(cards'[d], opens) /\ cards'[d].id = cards[d].id
          /\ Home(cards'[d], detail.run, calls) /\ Recorded(cards'[d], d, replays)
    BY <2>1, <2>3, <2>4, <2>5, <2>6 DEF PanelsInv
  <2> QED BY <2>1, <2>7 DEF PanelsInv
<1>9. ASSUME NEW c \in DOMAIN cards, NEW kind \in {"blame", "llm"}, Ask(c, kind) PROVE PanelsInv'
  <2>1. PICK request : calls' = calls \cup {Call(cards[c].id, c, detail.run, kind, request, cards[c].from)}
    BY <1>9 DEF Ask, AskFrom
  <2> DEFINE k == Call(cards[c].id, c, detail.run, kind, request, cards[c].from)
  <2>2. /\ DOMAIN cards' = DOMAIN cards
        /\ \A d \in DOMAIN cards : d # c => cards'[d] = cards[d]
        /\ cards'[c] = [cards[c] EXCEPT !.busy = @ \cup {kind}]
        /\ UNCHANGED <<address, fetching, detail, replays, opens>>
    BY <1>9 DEF Ask, AskFrom
  <2>3. PanelTyped(cards[c], opens) /\ Home(cards[c], detail.run, calls) /\ Recorded(cards[c], c, replays)
    BY DEF PanelsInv
  <2>4. /\ DOMAIN cards'[c] = CardFields /\ cards'[c].moved = cards[c].moved /\ cards'[c].id = cards[c].id
        /\ cards'[c].from = cards[c].from /\ cards'[c].blame = cards[c].blame /\ cards'[c].llm = cards[c].llm
    BY <2>2, <2>3 DEF PanelTyped, CardFields
  <2>5. /\ DOMAIN k = CallFields /\ k.panel = cards[c].id /\ k.card = c
        /\ k.run = detail.run /\ k.kind = kind /\ k.from = cards[c].from /\ k.stage = "asked"
    BY DEF Call, CallFields
  <2>6. calls' = calls \cup {k} BY <2>1
  <2> HIDE DEF k
  <2>7. opens \in Nat /\ c \in CardsOf(detail.run) BY DEF PanelsInv
  <2>8. detail.run \in RunsShown BY <2>7 DEF CardsOf, PanelsInv
  <2>9. CallRight(k, opens, replays) BY <2>3, <2>5, <2>7, <2>8 DEF CallRight, PanelTyped
  <2>10. PanelTyped(cards'[c], opens) BY <2>3, <2>4 DEF PanelTyped
  <2>11. Home(cards'[c], detail.run, calls') BY <2>3, <2>4, <2>5, <2>6 DEF Home
  <2>12. Recorded(cards'[c], c, replays) BY <2>3, <2>4 DEF Recorded
  <2>13. \A d \in DOMAIN cards : d # c => Home(cards[d], detail.run, calls')
    BY <2>5, <2>6 DEF Home, PanelsInv
  <2>14. \A d \in DOMAIN cards :
          /\ PanelTyped(cards'[d], opens) /\ cards'[d].id = cards[d].id
          /\ Home(cards'[d], detail.run, calls') /\ Recorded(cards'[d], d, replays)
    BY <2>2, <2>4, <2>10, <2>11, <2>12, <2>13 DEF PanelsInv
  <2> QED BY <2>2, <2>6, <2>9, <2>14 DEF PanelsInv
<1>10. ASSUME NEW r \in RunsShown, NEW c \in CardsOf(r), NEW request \in Requests, AskApi(r, c, request)
       PROVE PanelsInv'
  <2> DEFINE k == Call(0, c, r, "llm", request, r)
  <2>1. calls' = calls \cup {k} /\ UNCHANGED <<address, fetching, detail, cards, replays, opens>>
    BY <1>10 DEF AskApi
  <2>2. /\ DOMAIN k = CallFields /\ k.panel = 0 /\ k.card = c /\ k.run = r
        /\ k.kind = "llm" /\ k.stage = "asked"
    BY DEF Call, CallFields
  <2> HIDE DEF k
  <2>3. CallRight(k, opens, replays) BY <2>2 DEF CallRight, PanelsInv
  <2>4. \A d \in DOMAIN cards : Home(cards[d], detail.run, calls')
    BY <2>1, <2>2 DEF Home, PanelTyped, PanelsInv
  <2> QED BY <2>1, <2>3, <2>4 DEF PanelsInv
<1>11. ASSUME NEW k \in calls, NEW reply \in {"text", "failed"}, Answer(k, reply) PROVE PanelsInv'
  <2>1. PICK s, a : /\ calls' = (calls \ {k}) \cup {[k EXCEPT !.stage = s, !.result = a]}
                    /\ k.kind = "blame" => s = "done" /\ a.run = k.run
                    /\ k.kind = "llm" => \/ s = "refused"
                                         \/ s = "answered" /\ a.run = k.run /\ a.agent = HopAsked(k).from
    <3> DEFINE ra == [run |-> k.run, hop |-> k.card[1]]
               asks == [id |-> k.id, run |-> k.run, agent |-> HopAsked(k).from, from |-> k.from,
                        panel |-> k.panel, request |-> k.request]
               rb == Joined(asks, ReplayResult(HopsOf(k.run), HopAsked(k), k.request, keys, reply))
               refused == k.kind = "llm" /\ ~Replayable(HopAsked(k))
               s == IF refused THEN "refused" ELSE IF k.kind = "blame" THEN "done" ELSE "answered"
               a == IF refused THEN NoAnswer ELSE IF k.kind = "blame" THEN ra ELSE rb
    <3>1. calls' = (calls \ {k}) \cup {[k EXCEPT !.stage = s, !.result = a]} BY <1>11 DEF Answer
    <3>2. rb.run = k.run /\ rb.agent = HopAsked(k).from
      <4>1. /\ "run" \in DOMAIN asks /\ "agent" \in DOMAIN asks
            /\ asks.run = k.run /\ asks.agent = HopAsked(k).from
        OBVIOUS
      <4> HIDE DEF asks
      <4> QED BY <4>1, JoinedField
    <3>3. ra.run = k.run OBVIOUS
    <3> HIDE DEF ra, rb
    <3>4. k.kind = "blame" => s = "done" /\ a = ra OBVIOUS
    <3>5. k.kind = "llm" => s = "refused" \/ (s = "answered" /\ a = rb) OBVIOUS
    <3> HIDE DEF s, a
    <3> QED BY <3>1, <3>2, <3>3, <3>4, <3>5
  <2>2. UNCHANGED <<address, fetching, detail, cards, replays, opens>> BY <1>11 DEF Answer
  <2> DEFINE l == [k EXCEPT !.stage = s, !.result = a]
  <2>3. CallRight(k, opens, replays) BY DEF PanelsInv
  <2>4. /\ DOMAIN l = CallFields /\ l.panel = k.panel /\ l.card = k.card /\ l.run = k.run /\ l.kind = k.kind
        /\ l.from = k.from /\ l.stage = s /\ l.result = a
    BY <2>3 DEF CallRight, CallFields
  <2>5. calls' = (calls \ {k}) \cup {l} BY <2>1
  <2> HIDE DEF l
  <2>6. a.run = k.run /\ a.agent = HopAsked(k).from => OfCard(a, k.card)
    <3> SUFFICES ASSUME a.run = k.run, a.agent = HopAsked(k).from PROVE OfCard(a, k.card) OBVIOUS
    <3>1. HopAsked(k).hop = k.card[1] /\ Card(HopAsked(k)) \in CardsOf(k.run)
      BY <2>3, HopAskedFound DEF CallRight
    <3>2. Card(HopAsked(k))[1] = k.card[1] /\ Card(HopAsked(k))[2] = a.agent BY <3>1 DEF Card
    <3>3. CASE a.agent = k.card[2] BY <3>3 DEF OfCard
    <3>4. CASE a.agent # k.card[2]
      <4>1. Card(HopAsked(k)) # k.card BY <3>2, <3>4
      <4> QED BY <3>1, <3>2, <4>1 DEF OfCard
    <3> QED BY <3>3, <3>4
  <2>7. CallRight(l, opens, replays) BY <2>1, <2>3, <2>4, <2>6 DEF CallRight
  <2>8. \A d \in DOMAIN cards : Home(cards[d], detail.run, calls')
    BY <2>4, <2>5 DEF Home, PanelsInv
  <2> QED BY <2>2, <2>5, <2>7, <2>8 DEF PanelsInv
<1>12. ASSUME NEW k \in calls, NEW saved \in BOOLEAN, Save(k, saved) PROVE PanelsInv'
  <2> DEFINE s == IF saved THEN "done" ELSE "refused"
             a == IF saved THEN k.result ELSE NoAnswer
             l == [k EXCEPT !.stage = s, !.result = a]
  <2>1. calls' = (calls \ {k}) \cup {l} /\ k.stage = "answered"
    BY <1>12 DEF Save
  <2>2. UNCHANGED <<address, fetching, detail, cards, opens>>
        /\ replays \subseteq replays' /\ (saved => k.result \in replays') BY <1>12 DEF Save
  <2>3. CallRight(k, opens, replays) BY DEF PanelsInv
  <2>4. /\ DOMAIN l = CallFields /\ l.panel = k.panel /\ l.card = k.card /\ l.run = k.run /\ l.kind = k.kind
        /\ l.from = k.from /\ l.stage = s /\ l.result = a
    BY <2>3 DEF CallRight, CallFields
  <2> HIDE DEF l
  <2>5. CallRight(l, opens, replays') BY <2>1, <2>2, <2>3, <2>4 DEF CallRight
  <2>6. \A d \in DOMAIN cards : Home(cards[d], detail.run, calls')
    BY <2>1, <2>4 DEF Home, PanelsInv
  <2>7. \A m \in calls : CallRight(m, opens, replays') BY <2>2 DEF CallRight, PanelsInv
  <2>8. \A d \in DOMAIN cards : Recorded(cards[d], d, replays') BY <2>2 DEF Recorded, PanelsInv
  <2> QED BY <2>1, <2>2, <2>5, <2>6, <2>7, <2>8 DEF PanelsInv
<1>13. ASSUME NEW k \in calls, Return(k) PROVE PanelsInv'
  <2>1. calls' = calls \ {k} /\ UNCHANGED <<address, fetching, detail, replays, opens>> BY <1>13 DEF Return
  <2>2. CallRight(k, opens, replays) BY DEF PanelsInv
  <2>3. \A d \in DOMAIN cards : Home(cards[d], detail.run, calls')
    BY <2>1 DEF Home, PanelsInv
  <2>4. CASE ~(k.card \in DOMAIN cards /\ cards[k.card].id = k.panel)
    <3>1. cards' = cards BY <1>13, <2>4 DEF Return
    <3> QED BY <2>1, <2>3, <3>1 DEF PanelsInv
  <2>5. CASE k.card \in DOMAIN cards /\ cards[k.card].id = k.panel
    <3> DEFINE c == k.card
               p == cards[c]
               b == IF k.kind = "blame" /\ k.stage = "done" THEN k.result ELSE p.blame
               m == IF k.kind = "llm" /\ k.stage = "done" THEN k.result ELSE p.llm
               q == [p EXCEPT !.busy = @ \ {k.kind}, !.blame = b, !.llm = m]
    <3>1. PanelTyped(p, opens) /\ Home(p, detail.run, calls) /\ Recorded(p, c, replays)
      BY <2>5 DEF PanelsInv
    <3>2. DOMAIN p = CardFields BY <3>1 DEF PanelTyped
    <3>3. /\ DOMAIN cards' = DOMAIN cards
          /\ \A d \in DOMAIN cards : d # c => cards'[d] = cards[d]
          /\ cards'[c] = q
      BY <1>13, <2>5, <3>2 DEF Return, CardFields
    <3>4. /\ DOMAIN q = CardFields /\ q.moved = p.moved /\ q.id = p.id
          /\ q.from = p.from /\ q.blame = b /\ q.llm = m
      BY <3>2 DEF CardFields
    <3> HIDE DEF q
    <3>5. PanelTyped(q, opens) BY <3>1, <3>4 DEF PanelTyped
    <3>6. Home(q, detail.run, calls')
      <4>1. CASE p.moved BY <3>4, <4>1 DEF Home
      <4>2. CASE ~p.moved
        <5>1. k.run = detail.run BY <2>5, <3>1, <4>2 DEF Home
        <5>2. b.run \in {NoRun, detail.run} /\ m.run \in {NoRun, detail.run}
          BY <2>2, <3>1, <4>2, <5>1 DEF Home, CallRight
        <5> HIDE DEF b, m
        <5> QED BY <2>1, <3>1, <3>4, <4>2, <5>2 DEF Home
      <4> QED BY <4>1, <4>2
    <3>7. Recorded(q, c, replays) BY <2>2, <3>1, <3>4 DEF Recorded, CallRight
    <3> QED BY <2>1, <2>3, <2>5, <3>3, <3>4, <3>5, <3>6, <3>7 DEF PanelsInv
  <2> QED BY <2>4, <2>5
<1>14. CASE UNCHANGED detailVars
  BY <1>14 DEF detailVars, PanelsInv
<1> QED
  BY <1>1, <1>2, <1>3, <1>4, <1>5, <1>6, <1>7, <1>8, <1>9, <1>10, <1>11, <1>12, <1>13, <1>14 DEF DetailNext

(* The page of a run, its panels and the replays under way                 *)
(* (RunDetailView.tsx) keep PanelsInv.                                     *)
THEOREM PanelsInvariant == DetailSpec => []PanelsInv
  BY InitPanels, NextPanels, PTL DEF DetailSpec

(* PanelIsHome: a panel shows what belongs to its run and its hop, however *)
(* late an answer comes and however the page went on meanwhile.            *)
THEOREM PanelsAtHome == DetailSpec => []PanelIsHome
<1>1. PanelsInv => PanelIsHome BY DEF PanelsInv, PanelIsHome, Home, Recorded, OfCard
<1> QED BY <1>1, PanelsInvariant, PTL

-----------------------------------------------------------------------------
(* What is merged in is there, where it is not hidden.                     *)
LEMMA JoinedOther ==
  ASSUME NEW f, NEW g, NEW x \in DOMAIN g, x \notin DOMAIN f
  PROVE  Joined(f, g)[x] = g[x]
  BY DEF Joined

(* The row that executeHopReplay() makes.                                  *)
LEMMA ResultRow ==
  ASSUME NEW es, NEW h, NEW request, NEW ks, NEW reply
  PROVE  /\ DOMAIN ReplayResult(es, h, request, ks, reply) =
               {"hop", "model", "provider", "input", "body", "status"}
         /\ ReplayResult(es, h, request, ks, reply).hop = h.hop
         /\ ReplayMessages(request, h) = <<>> => ReplayResult(es, h, request, ks, reply).input = "blank"
         /\ ReplayMessages(request, h) # <<>> =>
              LET wanted == IF request.model # NoModel THEN request.model ELSE h.model
                  name == ProviderFor(wanted, ks).name
              IN /\ ReplayResult(es, h, request, ks, reply).model = ModelCalled(request, h, ks)
                 /\ ReplayResult(es, h, request, ks, reply).provider = name
                 /\ ReplayResult(es, h, request, ks, reply).body =
                      RequestBody(name, ReplayMessages(request, h), ParentContext(es, h))
<1> DEFINE ms == ReplayMessages(request, h)
           wanted == IF request.model # NoModel THEN request.model ELSE h.model
           provider == ProviderFor(wanted, ks)
           none == [hop |-> h.hop, model |-> h.model, provider |-> provider.name, input |-> "blank",
                    body |-> RequestBody("none", <<>>, <<>>), status |-> "error"]
           body == RequestBody(provider.name, ms, ParentContext(es, h))
           some == [hop |-> h.hop, model |-> ModelCalled(request, h, ks), provider |-> provider.name,
                    input |-> NewInput(request, ms),
                    body |-> body,
                    status |-> ReplayStatus(h.output, reply)]
<1>1. ReplayResult(es, h, request, ks, reply) = IF ms = <<>> THEN none ELSE some BY DEF ReplayResult
<1>2. CASE ms = <<>>
  <2>1. ReplayResult(es, h, request, ks, reply) = none BY <1>1, <1>2
  <2> HIDE DEF ms, provider, body
  <2>2. DOMAIN none = {"hop", "model", "provider", "input", "body", "status"} OBVIOUS
  <2>3. none.hop = h.hop /\ none.input = "blank" OBVIOUS
  <2> HIDE DEF none, some
  <2> QED BY <1>2, <2>1, <2>2, <2>3 DEF ms
<1>3. CASE ms # <<>>
  <2>1. ReplayResult(es, h, request, ks, reply) = some BY <1>1, <1>3
  <2> HIDE DEF ms, provider, body
  <2>2. DOMAIN some = {"hop", "model", "provider", "input", "body", "status"} OBVIOUS
  <2>3. /\ some.hop = h.hop /\ some.model = ModelCalled(request, h, ks)
        /\ some.provider = provider.name /\ some.body = body
    OBVIOUS
  <2> HIDE DEF none, some
  <2> QED BY <1>3, <2>1, <2>2, <2>3 DEF ms, provider, body
<1> QED BY <1>2, <1>3

(* The provider of a model, of the keys that there may be.                 *)
LEMMA FirstProvider ==
  ASSUME NEW model, NEW ks \in SUBSET {"openai", "anthropic", "groq"}
  PROVE  /\ ks = {} => /\ ProviderFor(model, ks).name = "local"
                       /\ ProviderFor(model, ks).effective =
                            IF FamiliesOf[model] # {} THEN LocalModel ELSE model
         /\ ks # {} => /\ ProviderFor(model, ks).name \in ks /\ ProviderFor(model, ks).name # "local"
                       /\ ProviderFor(model, ks).effective = model
                       /\ ks \cap FamiliesOf[model] # {} =>
                            ProviderFor(model, ks).name \in FamiliesOf[model]
<1> DEFINE own == ks \cap FamiliesOf[model]
           eligible == IF own # {} THEN own ELSE ks
           Firsts(S) == {i \in DOMAIN Providers : Providers[i] \in S
                           /\ \A j \in 1..(i - 1) : Providers[j] \notin S}
<1>1. CASE ks = {} BY <1>1 DEF ProviderFor
<1>2. CASE ks # {}
  <2>1. eligible # {} /\ eligible \subseteq ks /\ (own # {} => eligible \subseteq FamiliesOf[model])
    BY <1>2
  <2>2. /\ DOMAIN Providers = 1..3
        /\ Providers[1] = "openai" /\ Providers[2] = "anthropic" /\ Providers[3] = "groq"
    BY DEF Providers
  <2>3. ProviderFor(model, ks) =
          [name |-> Providers[CHOOSE i \in Firsts(eligible) : TRUE], effective |-> model]
    BY <1>2 DEF ProviderFor
  <2> HIDE DEF own, eligible
  <2>4. Firsts(eligible) # {}
    <3>1. CASE "openai" \in eligible
      <4>1. 1 \in Firsts(eligible) BY <2>2, <3>1
      <4> QED BY <4>1
    <3>2. CASE "openai" \notin eligible /\ "anthropic" \in eligible
      <4>1. 2 \in Firsts(eligible) BY <2>2, <3>2
      <4> QED BY <4>1
    <3>3. CASE "openai" \notin eligible /\ "anthropic" \notin eligible
      <4>1. "groq" \in eligible BY <2>1, <3>3
      <4>2. 3 \in Firsts(eligible) BY <2>2, <3>3, <4>1
      <4> QED BY <4>2
    <3> QED BY <3>1, <3>2, <3>3
  <2>5. Providers[CHOOSE i \in Firsts(eligible) : TRUE] \in eligible BY <2>4
  <2> HIDE DEF Firsts
  <2>6. ProviderFor(model, ks).name \in eligible /\ ProviderFor(model, ks).effective = model BY <2>3, <2>5
  <2> QED BY <1>2, <2>1, <2>6 DEF own
<1> QED BY <1>1, <1>2

(* The two parts of ReplaysAreFaithful, of one row; and the inductive      *)
(* invariant: a row is faithful before it is saved, for what its panel     *)
(* asks with is the input of a hop, or edited.                             *)
HopAt(r, n) == FirstEdge(HopsOf(r), LAMBDA e : e.hop = n)

ProviderFits(r) ==
  LET h == HopAt(r.run, r.hop)
      wanted == IF r.request.model # NoModel THEN r.request.model ELSE h.model
  IN \/ r.provider \in FamiliesOf[r.model]
     \/ r.provider = "local" /\ r.model = LocalModel
     \/ FamiliesOf[wanted] \cap keys = {} /\ (r.provider = "local" => FamiliesOf[r.model] = {})
     \/ r.provider = "local" /\ r.request.model # NoModel

SaysRecorded(r) ==
  LET h == HopAt(r.run, r.hop) IN
  r.panel # 0 /\ r.request.input # "edited" /\ r.from = r.run =>
     \/ r.body.turns = (IF ParentContext(HopsOf(r.run), h) = <<>> \/ r.provider = "anthropic"
                        THEN <<>> ELSE <<Said("system", "context")>>)
                       \o <<Said("user", "recorded")>>
     \/ h.input = "json"
     \/ \E c \in CardsOf(r.run) : c[1] = r.hop /\ c # Card(h)

Faithful(r) == r.input # "blank" => ProviderFits(r) /\ SaysRecorded(r)

FromPanel(k) ==
  /\ k.request.messages = <<>> /\ k.request.model = NoModel
  /\ k.request.input = "edited" \/ k.request.input = InputField(HopOf(k.from, k.card))

RowsInv ==
  /\ keys \in KeySets
  /\ \A r \in replays : Faithful(r)
  /\ \A k \in calls :
       /\ k.kind = "llm" /\ k.stage = "answered" => Faithful(k.result)
       /\ k.panel # 0 => FromPanel(k)

(* The row that Answer() makes of a call.                                  *)
AnswerRow(k, reply) ==
  Joined([id |-> k.id, run |-> k.run, agent |-> HopAsked(k).from, from |-> k.from,
          panel |-> k.panel, request |-> k.request],
         ReplayResult(HopsOf(k.run), HopAsked(k), k.request, keys, reply))

(* What is in it.                                                          *)
LEMMA RowFields ==
  ASSUME NEW k, NEW reply, k.run \in RunsShown, k.card \in CardsOf(k.run)
  PROVE  /\ AnswerRow(k, reply).run = k.run /\ AnswerRow(k, reply).from = k.from
         /\ AnswerRow(k, reply).panel = k.panel /\ AnswerRow(k, reply).request = k.request
         /\ AnswerRow(k, reply).hop = k.card[1]
         /\ HopAt(k.run, AnswerRow(k, reply).hop) = HopAsked(k)
         /\ ReplayMessages(k.request, HopAsked(k)) = <<>> => AnswerRow(k, reply).input = "blank"
         /\ ReplayMessages(k.request, HopAsked(k)) # <<>> =>
              LET wanted == IF k.request.model # NoModel THEN k.request.model ELSE HopAsked(k).model
                  name == ProviderFor(wanted, keys).name
              IN /\ AnswerRow(k, reply).model = ModelCalled(k.request, HopAsked(k), keys)
                 /\ AnswerRow(k, reply).provider = name
                 /\ AnswerRow(k, reply).body =
                      RequestBody(name, ReplayMessages(k.request, HopAsked(k)),
                                  ParentContext(HopsOf(k.run), HopAsked(k)))
<1> DEFINE f == [id |-> k.id, run |-> k.run, agent |-> HopAsked(k).from, from |-> k.from,
                 panel |-> k.panel, request |-> k.request]
           g == ReplayResult(HopsOf(k.run), HopAsked(k), k.request, keys, reply)
<1>1. /\ DOMAIN f = {"id", "run", "agent", "from", "panel", "request"}
      /\ f.run = k.run /\ f.from = k.from /\ f.panel = k.panel /\ f.request = k.request
  OBVIOUS
<1>2. AnswerRow(k, reply) = Joined(f, g) BY DEF AnswerRow
<1> HIDE DEF f
<1>3. DOMAIN g = {"hop", "model", "provider", "input", "body", "status"} BY ResultRow
<1>4. g.hop = k.card[1]
  <2>1. g.hop = HopAsked(k).hop BY ResultRow
  <2> QED BY <2>1, HopAskedFound
<1> HIDE DEF g
<1>5. /\ Joined(f, g).run = k.run /\ Joined(f, g).from = k.from
      /\ Joined(f, g).panel = k.panel /\ Joined(f, g).request = k.request
  BY <1>1, JoinedField
<1>6. /\ Joined(f, g).hop = g.hop /\ Joined(f, g).model = g.model /\ Joined(f, g).provider = g.provider
      /\ Joined(f, g).input = g.input /\ Joined(f, g).body = g.body
  <2>1. \A x \in DOMAIN g : x \notin DOMAIN f BY <1>1, <1>3
  <2> QED BY <1>3, <2>1, JoinedOther
<1>7. HopAt(k.run, k.card[1]) = HopAsked(k) BY DEF HopAsked, HopAt
<1>8. HopAt(k.run, AnswerRow(k, reply).hop) = HopAsked(k)
  <2>1. AnswerRow(k, reply).hop = k.card[1] BY <1>2, <1>4, <1>6
  <2> QED BY <1>7, <2>1
<1> DEFINE ms == ReplayMessages(k.request, HopAsked(k))
<1>9. ms = <<>> => g.input = "blank" BY ResultRow DEF g
<1>10. ms # <<>> =>
         LET wanted == IF k.request.model # NoModel THEN k.request.model ELSE HopAsked(k).model
             name == ProviderFor(wanted, keys).name
         IN /\ g.model = ModelCalled(k.request, HopAsked(k), keys)
            /\ g.provider = name
            /\ g.body = RequestBody(name, ms, ParentContext(HopsOf(k.run), HopAsked(k)))
  BY ResultRow DEF g
<1> HIDE DEF ms
<1> QED BY <1>2, <1>4, <1>5, <1>6, <1>8, <1>9, <1>10 DEF ms


(* It went to a provider that has the model.                               *)
LEMMA RowProvided ==
  ASSUME RowsInv, NEW k, NEW reply, k.run \in RunsShown, k.card \in CardsOf(k.run),
         AnswerRow(k, reply).input # "blank"
  PROVE  ProviderFits(AnswerRow(k, reply))
<1> DEFINE h == HopAsked(k)
           wanted == IF k.request.model # NoModel THEN k.request.model ELSE h.model
           r == AnswerRow(k, reply)
           name == ProviderFor(wanted, keys).name
<1>1. ReplayMessages(k.request, h) # <<>> BY RowFields
<1>2. /\ r.run = k.run /\ r.request = k.request
      /\ HopAt(k.run, r.hop) = h
      /\ r.model = ModelCalled(k.request, h, keys) /\ r.provider = name
  BY <1>1, RowFields
<1>3. keys \in SUBSET {"openai", "anthropic", "groq"} BY DetailAssumption DEF RowsInv
<1>4. r.model = IF k.request.model # NoModel THEN k.request.model
                ELSE ProviderFor(h.model, keys).effective
  BY <1>2 DEF ModelCalled
<1>5. HopAt(r.run, r.hop) = h BY <1>2
<1> HIDE DEF r, h
<1>6. \/ r.provider \in FamiliesOf[r.model]
      \/ r.provider = "local" /\ r.model = LocalModel
      \/ FamiliesOf[wanted] \cap keys = {} /\ (r.provider = "local" => FamiliesOf[r.model] = {})
      \/ r.provider = "local" /\ r.request.model # NoModel
  <2>1. CASE keys = {}
    <3>1. r.provider = "local" BY <1>2, <1>3, <2>1, FirstProvider
    <3>2. CASE k.request.model # NoModel BY <1>2, <3>1, <3>2
    <3>3. CASE k.request.model = NoModel
      <4>1. r.model = IF FamiliesOf[h.model] # {} THEN LocalModel ELSE h.model
        BY <1>3, <1>4, <2>1, <3>3, FirstProvider
      <4> QED BY <2>1, <3>1, <3>3, <4>1
    <3> QED BY <3>2, <3>3
  <2>2. CASE keys # {}
    <3>1. r.provider # "local" BY <1>2, <1>3, <2>2, FirstProvider
    <3>2. r.model = wanted BY <1>3, <1>4, <2>2, FirstProvider
    <3>3. keys \cap FamiliesOf[wanted] # {} => r.provider \in FamiliesOf[wanted]
      BY <1>2, <1>3, <2>2, FirstProvider
    <3> HIDE DEF wanted
    <3> QED BY <3>1, <3>2, <3>3
  <2> QED BY <2>1, <2>2
<1>7. ProviderFits(r) BY <1>2, <1>5, <1>6 DEF ProviderFits
<1> QED BY <1>7 DEF r

(* With one hop at its index, the hop of a card is the hop of the index.   *)
LEMMA AloneAtIndex ==
  ASSUME NEW k, k.run \in RunsShown, k.card \in CardsOf(k.run),
         \A c \in CardsOf(k.run) : c[1] = k.card[1] => c = Card(HopAsked(k))
  PROVE  HopOf(k.run, k.card) = HopAsked(k)
<1> DEFINE hs == HopsOf(k.run)
<1>1. k.run # NoRun /\ Len(hs) \in Nat /\ DOMAIN hs = 1..Len(hs) BY DetailAssumption
<1>2. \A i \in DOMAIN hs : Card(hs[i]) \in CardsOf(k.run) BY <1>1 DEF CardsOf
<1>3. k.card = Card(HopAsked(k)) OBVIOUS
<1>4. \A i \in DOMAIN hs : hs[i].hop = k.card[1] <=> Card(hs[i]) = k.card
  <2> TAKE i \in DOMAIN hs
  <2>1. Card(hs[i])[1] = hs[i].hop BY DEF Card
  <2>2. hs[i].hop = k.card[1] => Card(hs[i]) = k.card BY <1>2, <1>3, <2>1
  <2> QED BY <2>1, <2>2
<1> HIDE DEF hs
<1>5. \A i \in DOMAIN hs : \A j \in 1..(i - 1) : j \in DOMAIN hs BY <1>1
<1>6. \A i \in DOMAIN hs :
        (hs[i].hop = k.card[1] /\ \A j \in 1..(i - 1) : ~(hs[j].hop = k.card[1]))
          <=> (Card(hs[i]) = k.card /\ \A j \in 1..(i - 1) : ~(Card(hs[j]) = k.card))
  BY <1>4, <1>5
<1>7. (CHOOSE i \in DOMAIN hs : hs[i].hop = k.card[1] /\ \A j \in 1..(i - 1) : ~(hs[j].hop = k.card[1]))
        = (CHOOSE i \in DOMAIN hs : Card(hs[i]) = k.card /\ \A j \in 1..(i - 1) : ~(Card(hs[j]) = k.card))
  BY <1>6
<1> QED BY <1>7 DEF HopOf, HopAsked, FirstEdge, hs

(* What a provider is told when what was recorded is asked again.          *)
LEMMA TurnsSaid ==
  ASSUME NEW request, NEW h, NEW name, NEW context,
         request.messages = <<>>, h.chat = <<>>, request.input = "recorded"
  PROVE  RequestBody(name, ReplayMessages(request, h), context).turns =
           (IF context = <<>> \/ name = "anthropic" THEN <<>> ELSE <<Said("system", "context")>>)
             \o <<Said("user", "recorded")>>
<1> DEFINE m == <<Said("user", "recorded")>>
<1>1. OriginalMessages(h) = <<>> BY DEF OriginalMessages
<1>2. ReplayMessages(request, h) = m BY <1>1 DEF ReplayMessages
<1>3. DOMAIN m = {1} /\ m[1].role = "user" BY DEF Said
<1>4. <<>> \o m = m OBVIOUS
<1> HIDE DEF m
<1>5. CASE name = "anthropic"
  <2>1. RequestBody(name, m, context).turns = m BY <1>3, <1>5 DEF RequestBody, SaidAs
  <2> QED BY <1>2, <1>4, <1>5, <2>1 DEF m
<1>6. CASE name # "anthropic"
  <2>1. RequestBody(name, m, context).turns =
          (IF context = <<>> THEN <<>> ELSE <<Said("system", "context")>>) \o m
    BY <1>6 DEF RequestBody
  <2> QED BY <1>2, <1>6, <2>1 DEF m
<1> QED BY <1>5, <1>6

(* An unedited panel replays what was recorded.                            *)
LEMMA RowSays ==
  ASSUME NEW k, NEW reply, k.run \in RunsShown, k.card \in CardsOf(k.run),
         k.panel # 0 => FromPanel(k), AnswerRow(k, reply).input # "blank"
  PROVE  SaysRecorded(AnswerRow(k, reply))
<1> DEFINE h == HopAsked(k)
           r == AnswerRow(k, reply)
           context == ParentContext(HopsOf(k.run), h)
<1>1. ReplayMessages(k.request, h) # <<>> BY RowFields
<1>2. PICK name :
        /\ r.run = k.run /\ r.request = k.request /\ r.hop = k.card[1]
        /\ r.panel = k.panel /\ r.from = k.from
        /\ HopAt(k.run, r.hop) = h
        /\ r.provider = name
        /\ r.body = RequestBody(name, ReplayMessages(k.request, h), context)
  BY <1>1, RowFields
<1> SUFFICES SaysRecorded(r) OBVIOUS
<1> HIDE DEF r
<1> SUFFICES ASSUME k.panel # 0, k.request.input # "edited", k.from = k.run, h.input # "json",
                    \A c \in CardsOf(k.run) : c[1] = k.card[1] => c = Card(h)
             PROVE  r.body.turns = (IF context = <<>> \/ name = "anthropic"
                                    THEN <<>> ELSE <<Said("system", "context")>>)
                                   \o <<Said("user", "recorded")>>
  BY <1>2 DEF SaysRecorded
<1>3. HopOf(k.run, k.card) = h BY AloneAtIndex
<1>4. k.request.messages = <<>> /\ k.request.input = InputField(h) BY <1>3 DEF FromPanel
<1>5. h.chat = <<>>
  <2>1. PICK i \in DOMAIN HopsOf(k.run) : h = HopsOf(k.run)[i] BY HopAskedListed
  <2> QED BY <2>1, DetailAssumption
<1>6. h.input # "blank"
  <2> SUFFICES ASSUME h.input = "blank" PROVE FALSE OBVIOUS
  <2>1. k.request.input = "blank" BY <1>4 DEF InputField
  <2>2. OriginalMessages(h) = <<>> BY <1>5 DEF OriginalMessages
  <2>3. ReplayMessages(k.request, h) = <<>> BY <1>4, <2>1, <2>2 DEF ReplayMessages
  <2> QED BY <1>1, <2>3
<1>7. k.request.input = "recorded" BY <1>4, <1>6 DEF InputField
<1> QED BY <1>2, <1>4, <1>5, <1>7, TurnsSaid


(* The invariant holds at first.                                           *)
LEMMA InitRows == DetailInit => RowsInv
  BY DEF DetailInit, RowsInv

(* A call moves on, and a row may come of what it answered.                *)
LEMMA CallStep ==
  ASSUME RowsInv, NEW k \in calls, NEW l,
         calls' = (calls \ {k}) \cup {l}, keys' = keys,
         l.panel = k.panel, FromPanel(k) => FromPanel(l),
         l.kind = "llm" /\ l.stage = "answered" => Faithful(l.result),
         \A r \in replays' : r \in replays \/ Faithful(r)
  PROVE  RowsInv'
<1>1. \A r : Faithful(r)' <=> Faithful(r)
  BY DEF Faithful, ProviderFits, SaysRecorded
<1> QED BY <1>1 DEF RowsInv

(* Every step keeps it.                                                    *)
LEMMA NextRows == PanelsInv /\ RowsInv /\ [DetailNext]_detailVars => RowsInv'
<1> SUFFICES ASSUME PanelsInv, RowsInv, [DetailNext]_detailVars PROVE RowsInv' OBVIOUS
<1>1. \A r : keys' = keys => (Faithful(r)' <=> Faithful(r))
  BY DEF Faithful, ProviderFits, SaysRecorded
<1>2. CASE UNCHANGED <<calls, replays, keys>> BY <1>1, <1>2 DEF RowsInv
<1>3. ASSUME NEW c \in DOMAIN cards, NEW kind \in {"blame", "llm"}, Ask(c, kind) PROVE RowsInv'
  <2> DEFINE text == IF cards[c].edited THEN "edited" ELSE InputField(HopOf(cards[c].from, c))
             request == [input |-> text, messages |-> <<>>, model |-> NoModel]
             k == Call(cards[c].id, c, detail.run, kind, request, cards[c].from)
  <2>1. calls' = calls \cup {k} /\ UNCHANGED <<replays, keys>> BY <1>3 DEF Ask, AskFrom
  <2>2. k.request = request /\ k.from = cards[c].from /\ k.card = c /\ k.stage = "asked" BY DEF Call
  <2>3. request.input = text /\ request.messages = <<>> /\ request.model = NoModel OBVIOUS
  <2> HIDE DEF k, request
  <2>4. FromPanel(k) BY <2>2, <2>3 DEF FromPanel
  <2> QED BY <1>1, <2>1, <2>2, <2>4 DEF RowsInv
<1>4. ASSUME NEW r \in RunsShown, NEW c \in CardsOf(r), NEW request \in Requests, AskApi(r, c, request)
      PROVE RowsInv'
  <2> DEFINE k == Call(0, c, r, "llm", request, r)
  <2>1. calls' = calls \cup {k} /\ UNCHANGED <<replays, keys>> BY <1>4 DEF AskApi
  <2>2. k.panel = 0 /\ k.stage = "asked" BY DEF Call
  <2> HIDE DEF k
  <2> QED BY <1>1, <2>1, <2>2 DEF RowsInv
<1>5. ASSUME NEW k \in calls, NEW reply \in {"text", "failed"}, Answer(k, reply) PROVE RowsInv'
  <2> DEFINE refused == k.kind = "llm" /\ ~Replayable(HopAsked(k))
             s == IF refused THEN "refused" ELSE IF k.kind = "blame" THEN "done" ELSE "answered"
             a == IF refused THEN NoAnswer
                  ELSE IF k.kind = "blame" THEN [run |-> k.run, hop |-> k.card[1]] ELSE AnswerRow(k, reply)
             l == [k EXCEPT !.stage = s, !.result = a]
  <2>1. calls' = (calls \ {k}) \cup {l} /\ UNCHANGED <<replays, keys>>
    BY <1>5 DEF Answer, AnswerRow
  <2>2. k.kind = "llm" => s = "refused" \/ (s = "answered" /\ a = AnswerRow(k, reply)) OBVIOUS
  <2> HIDE DEF s, a
  <2>3. CallRight(k, opens, replays) BY DEF PanelsInv
  <2>4. /\ l.panel = k.panel /\ l.card = k.card /\ l.kind = k.kind /\ l.request = k.request
        /\ l.from = k.from /\ l.stage = s /\ l.result = a
    BY <2>3 DEF CallRight, CallFields
  <2> HIDE DEF l
  <2>5. FromPanel(k) => FromPanel(l) BY <2>4 DEF FromPanel
  <2>6. AnswerRow(k, reply).input # "blank" =>
          ProviderFits(AnswerRow(k, reply)) /\ SaysRecorded(AnswerRow(k, reply))
    BY <2>3, RowProvided, RowSays DEF RowsInv, CallRight
  <2>7. l.kind = "llm" /\ l.stage = "answered" => Faithful(l.result)
    BY <2>2, <2>4, <2>6 DEF Faithful
  <2> QED BY <2>1, <2>4, <2>5, <2>7, CallStep
<1>6. ASSUME NEW k \in calls, NEW saved \in BOOLEAN, Save(k, saved) PROVE RowsInv'
  <2> DEFINE s == IF saved THEN "done" ELSE "refused"
             a == IF saved THEN k.result ELSE NoAnswer
             l == [k EXCEPT !.stage = s, !.result = a]
  <2>1. calls' = (calls \ {k}) \cup {l} /\ k.stage = "answered" /\ keys' = keys
    BY <1>6 DEF Save
  <2>2. s # "answered" OBVIOUS
  <2> HIDE DEF s, a
  <2>3. CallRight(k, opens, replays) BY DEF PanelsInv
  <2>4. /\ l.panel = k.panel /\ l.card = k.card /\ l.request = k.request
        /\ l.from = k.from /\ l.stage = s
    BY <2>3 DEF CallRight, CallFields
  <2> HIDE DEF l
  <2>5. FromPanel(k) => FromPanel(l) BY <2>4 DEF FromPanel
  <2>6. Faithful(k.result) BY <2>1, <2>3 DEF RowsInv, CallRight
  <2>7. \A r \in replays' : r \in replays \/ Faithful(r) BY <1>6, <2>6 DEF Save
  <2> QED BY <2>1, <2>2, <2>4, <2>5, <2>7, CallStep
<1>7. ASSUME NEW k \in calls, Return(k) PROVE RowsInv'
  <2>1. calls' = calls \ {k} /\ UNCHANGED <<replays, keys>> BY <1>7 DEF Return
  <2> QED BY <1>1, <2>1 DEF RowsInv
<1>8. CASE UNCHANGED detailVars BY <1>2, <1>8 DEF detailVars
<1>9. ASSUME NEW r, NEW listed, Visit(r, listed) PROVE RowsInv' BY <1>2, <1>9 DEF Visit
<1>10. CASE Leave BY <1>2, <1>10 DEF Leave
<1>11. ASSUME NEW blamed, NEW profiled, Fetched(blamed, profiled) PROVE RowsInv' BY <1>2, <1>11 DEF Fetched
<1>12. CASE FetchFailed BY <1>2, <1>12 DEF FetchFailed
<1>13. ASSUME NEW t, ShowTab(t) PROVE RowsInv' BY <1>2, <1>13 DEF ShowTab
<1>14. ASSUME NEW c, OpenCard(c) PROVE RowsInv' BY <1>2, <1>14 DEF OpenCard
<1>15. ASSUME NEW c, CloseCard(c) \/ Edit(c) PROVE RowsInv' BY <1>2, <1>15 DEF CloseCard, Edit
<1> QED
  BY <1>3, <1>4, <1>5, <1>6, <1>7, <1>8, <1>9, <1>10, <1>11, <1>12, <1>13, <1>14, <1>15 DEF DetailNext

(* Every row of hop_llm_replays, and every answer that waits to be saved,  *)
(* is faithful (packages/replay/src and RunsService.replayHopLlm()).       *)
THEOREM RowsInvariant == DetailSpec => []RowsInv
  BY InitRows, NextRows, PanelsInvariant, PTL DEF DetailSpec

(* ReplaysAreFaithful: a replay goes to a provider that has the model, and *)
(* an unedited one says what was recorded.                                 *)
THEOREM ReplaysFaithful == DetailSpec => []ReplaysAreFaithful
<1>1. RowsInv => ReplaysAreFaithful
  BY DEF RowsInv, Faithful, ProviderFits, SaysRecorded, HopAt, ReplaysAreFaithful
<1> QED BY <1>1, RowsInvariant, PTL

(* Induction on numbers, with what is to be shown as a set.                *)
LEMMA Counting ==
  ASSUME NEW n \in Nat, NEW S, 0 \in S, \A k \in 0..(n - 1) : k \in S => k + 1 \in S
  PROVE  0..n \subseteq S
<1> DEFINE bad == (0..n) \ S
<1> SUFFICES ASSUME bad # {} PROVE FALSE OBVIOUS
<1>1. PICK x \in bad : \A y \in bad : x <= y
  <2>1. bad \in SUBSET Nat OBVIOUS
  <2> QED BY <2>1, LowestIndex
<1>2. x \in 0..n /\ x \notin S /\ x # 0 OBVIOUS
<1>3. x - 1 \in 0..(n - 1) /\ x - 1 \in 0..n /\ ~(x <= x - 1) BY <1>2
<1>4. x - 1 \notin bad BY <1>1, <1>3
<1>5. (x - 1) + 1 \in S BY <1>3, <1>4
<1> QED BY <1>2, <1>5

(* A set of numbers up to m has a highest one.                             *)
LEMMA Highest ==
  ASSUME NEW m \in Nat, NEW T \in SUBSET (1..m), T # {}
  PROVE  Max(T) \in T /\ \A y \in T : Max(T) >= y
<1> DEFINE down == {m - x : x \in T}
<1>1. down \in SUBSET Nat /\ down # {}
  <2>1. \A x \in T : m - x \in Nat OBVIOUS
  <2> QED BY <2>1
<1> HIDE DEF down
<1>2. PICK d \in down : \A y \in down : d <= y BY <1>1, LowestIndex
<1>3. PICK x \in T : d = m - x BY <1>2 DEF down
<1>4. \A y \in T : x >= y
  <2> TAKE y \in T
  <2>1. d <= m - y BY <1>2 DEF down
  <2> QED BY <1>3, <2>1
<1> QED BY <1>3, <1>4 DEF Max

(* An iteration over the sets of indices of s, as the folds of the         *)
(* community modules make it: by op, from base, as long as what it comes   *)
(* to is in V.                                                             *)
Iterates(iter, n, V, op, base, s) ==
  /\ iter[{}] = base
  /\ \A T \in SUBSET (1..n) : T # {} /\ iter[T \ {Max(T)}] \in V
                                => iter[T] = op[<<iter[T \ {Max(T)}], s[Max(T)]>>]

Iteration(g, n, V, op, base, s) ==
  g \in [SUBSET (1..n) -> V] /\ Iterates(g, n, V, op, base, s)

(* There is one.                                                           *)
LEMMA FoldExists ==
  ASSUME NEW n \in Nat, NEW V, NEW E, NEW op \in [V \X E -> V], NEW base \in V, NEW s, \A i \in 1..n : s[i] \in E
  PROVE  \E g : Iteration(g, n, V, op, base, s)
<1> DEFINE Runs(m) == \E g \in [SUBSET (1..m) -> V] : \A T \in SUBSET (1..m) :
                        g[T] = IF T = {} THEN base ELSE op[<<g[T \ {Max(T)}], s[Max(T)]>>]
           good == {m \in 0..n : Runs(m)}
<1>1. Runs(0)
  <2>1. SUBSET (1..0) = {{}} OBVIOUS
  <2>2. [T \in SUBSET (1..0) |-> base] \in [SUBSET (1..0) -> V] OBVIOUS
  <2> QED BY <2>1, <2>2
<1>2. ASSUME NEW m \in 0..(n - 1), Runs(m) PROVE Runs(m + 1)
  <2>1. PICK g \in [SUBSET (1..m) -> V] : \A T \in SUBSET (1..m) :
            g[T] = IF T = {} THEN base ELSE op[<<g[T \ {Max(T)}], s[Max(T)]>>]
    BY <1>2
  <2> DEFINE h == [T \in SUBSET (1..(m + 1)) |->
                     IF m + 1 \in T THEN op[<<g[T \ {m + 1}], s[m + 1]>>] ELSE g[T]]
  <2>2. m + 1 \in 1..n /\ m \in Nat /\ 1..m \subseteq 1..(m + 1) OBVIOUS
  <2>3. \A T \in SUBSET (1..(m + 1)) : /\ T \ {m + 1} \in SUBSET (1..m)
                                      /\ m + 1 \notin T => T \in SUBSET (1..m)
    OBVIOUS
  <2>4. h \in [SUBSET (1..(m + 1)) -> V]
    <3> SUFFICES ASSUME NEW T \in SUBSET (1..(m + 1))
                 PROVE  (IF m + 1 \in T THEN op[<<g[T \ {m + 1}], s[m + 1]>>] ELSE g[T]) \in V
      OBVIOUS
    <3>1. g[T \ {m + 1}] \in V BY <2>3
    <3>2. s[m + 1] \in E BY <2>2
    <3>3. op[<<g[T \ {m + 1}], s[m + 1]>>] \in V BY <3>1, <3>2
    <3>4. m + 1 \notin T => g[T] \in V BY <2>3
    <3> QED BY <3>3, <3>4
  <2>5. ASSUME NEW T \in SUBSET (1..(m + 1))
        PROVE  h[T] = IF T = {} THEN base ELSE op[<<h[T \ {Max(T)}], s[Max(T)]>>]
    <3>1. CASE T = {} BY <2>1, <3>1
    <3>2. CASE m + 1 \in T
      <4>1. m + 1 \in Nat /\ T # {} BY <2>2, <3>2
      <4>2. Max(T) \in T /\ Max(T) >= m + 1 BY <3>2, <4>1, Highest
      <4>3. Max(T) = m + 1
        <5>1. Max(T) \in 1..(m + 1) BY <4>2
        <5> QED BY <2>2, <4>2, <5>1
      <4>4. h[T \ {m + 1}] = g[T \ {m + 1}] BY <2>3, <2>2
      <4> QED BY <3>2, <4>3, <4>4
    <3>3. CASE T # {} /\ m + 1 \notin T
      <4>1. T \in SUBSET (1..m) BY <2>3, <3>3
      <4>2. Max(T) \in T BY <2>2, <3>3, <4>1, Highest
      <4>3. h[T] = g[T] /\ h[T \ {Max(T)}] = g[T \ {Max(T)}] BY <2>2, <3>3, <4>1
      <4> QED BY <2>1, <3>3, <4>1, <4>3
    <3> QED BY <3>1, <3>2, <3>3
  <2> HIDE DEF h
  <2> QED BY <2>4, <2>5
<1> HIDE DEF Runs
<1>3. 0..n \subseteq good
  <2>1. 0 \in good BY <1>1
  <2>2. \A k \in 0..(n - 1) : k \in good => k + 1 \in good BY <1>2
  <2> HIDE DEF good
  <2> QED BY <2>1, <2>2, Counting
<1>6. Runs(n) BY <1>3
<1>4. PICK g \in [SUBSET (1..n) -> V] : \A T \in SUBSET (1..n) :
            g[T] = IF T = {} THEN base ELSE op[<<g[T \ {Max(T)}], s[Max(T)]>>]
  BY <1>6 DEF Runs
<1>5. {} \in SUBSET (1..n) OBVIOUS
<1>7. Iteration(g, n, V, op, base, s) BY <1>4, <1>5 DEF Iterates, Iteration
<1> QED BY <1>7

(* The indices up to k, for a fold.                                        *)
LEMMA UpTo ==
  ASSUME NEW n \in Nat, NEW k \in 1..n
  PROVE  /\ 1..k \in SUBSET (1..n) /\ 1..k # {} /\ Max(1..k) = k
         /\ (1..k) \ {k} = 1..(k - 1) /\ 1..(k - 1) \in SUBSET (1..n)
<1>1. 1..k \in SUBSET (1..k) /\ k \in Nat /\ k \in 1..k OBVIOUS
<1>2. Max(1..k) \in 1..k /\ Max(1..k) >= k BY <1>1, Highest
<1>3. Max(1..k) = k BY <1>2
<1> QED BY <1>1, <1>3

(* A function on 1..n is the list it is.                                   *)
LEMMA ListedIs ==
  ASSUME NEW n \in Nat, NEW f, f = [i \in 1..n |-> f[i]]
  PROVE  Listed(f) = f /\ f \in Seq({f[i] : i \in 1..n}) /\ Len(f) = n
<1>1. f \in Seq({f[i] : i \in 1..n}) OBVIOUS
<1>2. <<>> \o f = f BY <1>1, ConcatEmptySeq
<1>3. Len(f) = n BY <1>1
<1> QED BY <1>1, <1>2, <1>3 DEF Listed

(* The numbers up to n are n numbers.                                      *)
LEMMA SizeUpTo == ASSUME NEW n \in Nat PROVE IsFiniteSet(1..n) /\ Cardinality(1..n) = n
BY FS_Interval

(* A total order R on S, and ranks that follow it.                         *)
Ordered(S, R) ==
  /\ \A i, j \in S : i # j => <<i, j>> \in R \/ <<j, i>> \in R
  /\ \A i \in S : <<i, i>> \notin R
  /\ \A i, j, k \in S : <<i, j>> \in R /\ <<j, k>> \in R => <<i, k>> \in R
RankedBy(S, n, R, rank) ==
  /\ \A i \in S : rank[i] \in 0..(n - 1)
  /\ \A i, j \in S : <<i, j>> \in R => rank[i] < rank[j]

(* The n-th of a list has rank n - 1, if there is one.                     *)
TakenByRank(S, n, rank, order) ==
  \A k \in 1..n : \A i \in S : rank[i] = k - 1 => order[k] \in S /\ rank[order[k]] = k - 1

(* The list has every member of S once, in the order R.                    *)
Lists(S, n, R, order) ==
  /\ \A k \in 1..n : order[k] \in S
  /\ \A i \in S : \E k \in 1..n : order[k] = i
  /\ \A k, l \in 1..n : k < l <=> <<order[k], order[l]>> \in R
  /\ \A k, l \in 1..n : order[k] = order[l] => k = l

(* A set whose members have different ranks, listed by rank.               *)
LEMMA RankedList ==
  ASSUME NEW S, IsFiniteSet(S), NEW n \in Nat, n = Cardinality(S), NEW R, Ordered(S, R),
         NEW rank, RankedBy(S, n, R, rank), NEW order, TakenByRank(S, n, rank, order)
  PROVE  Lists(S, n, R, order)
<1> DEFINE place == [i \in S |-> rank[i] + 1]
<1>1. \A i \in S : rank[i] \in 0..(n - 1) /\ rank[i] \in Int BY DEF RankedBy
<1>2. \A i, j \in S : rank[i] = rank[j] => i = j
  <2> SUFFICES ASSUME NEW i \in S, NEW j \in S, rank[i] = rank[j], i # j PROVE FALSE OBVIOUS
  <2>1. rank[i] < rank[j] \/ rank[j] < rank[i] BY DEF RankedBy, Ordered
  <2> QED BY <1>1, <2>1
<1>3. place \in [S -> 1..n] BY <1>1
<1>4. \A i, j \in S : place[i] = place[j] => i = j
  <2> TAKE i, j \in S
  <2>1. rank[i] + 1 = rank[j] + 1 => rank[i] = rank[j] BY <1>1
  <2> QED BY <1>2, <2>1
<1>5. \A k \in 1..n : \E i \in S : place[i] = k
  <2> HIDE DEF place
  <2>1. place \in Injection(S, 1..n) BY <1>3, <1>4 DEF Injection, IsInjective
  <2>2. IsFiniteSet(1..n) /\ Cardinality(1..n) = n BY FS_Interval
  <2>3. place \in Surjection(S, 1..n) BY <2>1, <2>2, FS_Injection
  <2> QED BY <2>3 DEF Surjection
<1>6. \A k \in 1..n : \E i \in S : rank[i] = k - 1
  <2> TAKE k \in 1..n
  <2>1. PICK i \in S : rank[i] + 1 = k BY <1>5
  <2> QED BY <1>1, <2>1
<1>7. \A k \in 1..n : order[k] \in S /\ rank[order[k]] = k - 1 BY <1>6 DEF TakenByRank
<1>8. \A i \in S : \E k \in 1..n : order[k] = i
  <2> TAKE i \in S
  <2>1. rank[i] + 1 \in 1..n /\ (rank[i] + 1) - 1 = rank[i] BY <1>1
  <2>2. rank[order[rank[i] + 1]] = rank[i] /\ order[rank[i] + 1] \in S BY <1>7, <2>1
  <2>3. order[rank[i] + 1] = i BY <1>2, <2>2
  <2> QED BY <2>1, <2>3
<1>9. \A k, l \in 1..n : order[k] = order[l] => k = l
  <2> TAKE k, l \in 1..n
  <2>1. rank[order[k]] = k - 1 /\ rank[order[l]] = l - 1 BY <1>7
  <2> QED BY <2>1
<1>10. \A k, l \in 1..n : k < l <=> <<order[k], order[l]>> \in R
  <2> TAKE k, l \in 1..n
  <2>1. /\ order[k] \in S /\ order[l] \in S
        /\ rank[order[k]] = k - 1 /\ rank[order[l]] = l - 1
    BY <1>7
  <2>2. <<order[k], order[l]>> \in R => k - 1 < l - 1 BY <2>1 DEF RankedBy
  <2>3. <<order[l], order[k]>> \in R => l - 1 < k - 1 BY <2>1 DEF RankedBy
  <2>4. k # l => <<order[k], order[l]>> \in R \/ <<order[l], order[k]>> \in R
    BY <1>9, <2>1 DEF Ordered
  <2> QED BY <2>2, <2>3, <2>4
<1> QED BY <1>7, <1>8, <1>9, <1>10 DEF Lists

(* The members of a set in the order of their ranks, the numbers of those  *)
(* that come earlier.                                                      *)
LEMMA Ranks ==
  ASSUME NEW S, IsFiniteSet(S), NEW n, n = Cardinality(S), NEW R, Ordered(S, R),
         NEW rank, \A i \in S : rank[i] = Cardinality({j \in S : <<j, i>> \in R}),
         NEW order, TakenByRank(S, n, rank, order)
  PROVE  Lists(S, n, R, order)
<1> DEFINE before(i) == {j \in S : <<j, i>> \in R}
<1>1. n \in Nat BY FS_CardinalityType
<1>2. \A i \in S : IsFiniteSet(before(i)) /\ Cardinality(before(i)) \in Nat
  <2> TAKE i \in S
  <2>1. before(i) \in SUBSET S OBVIOUS
  <2>2. IsFiniteSet(before(i)) BY <2>1, FS_Subset
  <2> QED BY <2>2, FS_CardinalityType
<1>3. \A i \in S : Cardinality(before(i)) \in 0..(n - 1)
  <2> TAKE i \in S
  <2>1. before(i) \in SUBSET S /\ before(i) # S BY DEF Ordered
  <2> HIDE DEF before
  <2>2. Cardinality(before(i)) <= n /\ Cardinality(before(i)) # n BY <2>1, FS_Subset
  <2>3. Cardinality(before(i)) \in Nat BY <1>2
  <2> QED BY <1>1, <2>2, <2>3
<1>4. \A i, j \in S : <<i, j>> \in R => Cardinality(before(i)) < Cardinality(before(j))
  <2> SUFFICES ASSUME NEW i \in S, NEW j \in S, <<i, j>> \in R
               PROVE  Cardinality(before(i)) < Cardinality(before(j))
    OBVIOUS
  <2>1. before(i) \in SUBSET before(j) BY DEF Ordered
  <2>2. i \in before(j) /\ i \notin before(i) BY DEF Ordered
  <2>3. before(i) # before(j) BY <2>2
  <2> HIDE DEF before
  <2>4. Cardinality(before(i)) <= Cardinality(before(j)) /\ Cardinality(before(i)) # Cardinality(before(j))
    BY <1>2, <2>1, <2>3, FS_Subset
  <2> QED BY <1>2, <2>4
<1>5. \A i \in S : rank[i] = Cardinality(before(i)) OBVIOUS
<1> HIDE DEF before
<1>6. RankedBy(S, n, R, rank) BY <1>3, <1>4, <1>5 DEF RankedBy
<1> QED BY <1>1, <1>6, RankedList

-----------------------------------------------------------------------------
(* SortByHop().                                                            *)

(* A list whose members have numbers as hops.                              *)
Hopped(s) == \A i \in 1..Len(s) : s[i].hop \in Int

(* ByHop() takes the members of a list by their ranks.                     *)
RankByHop(s) ==
  [i \in DOMAIN s |->
     Cardinality({j \in DOMAIN s : s[j].hop < s[i].hop \/ (~(s[i].hop < s[j].hop) /\ j < i)})]

(* SortByHop() puts the edge of rank k - 1 in place k.                     *)
LEMMA HopRanks ==
  ASSUME NEW W, NEW s \in Seq(W)
  PROVE  \E p : /\ p = [k \in 1..Len(s) |-> p[k]]
                /\ \A k, i \in 1..Len(s) : RankByHop(s)[i] = k - 1 =>
                     p[k] \in 1..Len(s) /\ RankByHop(s)[p[k]] = k - 1
                /\ ByHop(s) = [k \in 1..Len(s) |-> s[p[k]]]
<1> DEFINE n == Len(s)
           e(k) == CHOOSE i \in DOMAIN s :
                     Cardinality({j \in DOMAIN s : s[j].hop < s[i].hop \/ (~(s[i].hop < s[j].hop) /\ j < i)})
                       = k - 1
           q == [k \in 1..Cardinality(DOMAIN s) |-> e(k)]
<1>1. n \in Nat /\ DOMAIN s = 1..n OBVIOUS
<1>2. Cardinality(DOMAIN s) = n BY <1>1, SizeUpTo
<1>3. ByHop(s) = [k \in DOMAIN s |-> s[Listed(q)[k]]] BY DEF ByHop, StableSort, InOrder
<1>4. \A k \in 1..n : q[k] = CHOOSE i \in DOMAIN s : RankByHop(s)[i] = k - 1 BY <1>2 DEF RankByHop
<1>5. PICK p : p = q OBVIOUS
<1>6. DOMAIN q = 1..n BY <1>2
<1> HIDE DEF e
<1>61. q = [k \in DOMAIN q |-> q[k]] OBVIOUS
<1> HIDE DEF q
<1>7. p = [k \in 1..n |-> p[k]] BY <1>5, <1>6, <1>61
<1>8. Listed(p) = p BY <1>1, <1>7, ListedIs
<1>9. ByHop(s) = [k \in 1..n |-> s[p[k]]] BY <1>1, <1>3, <1>5, <1>8
<1>10. \A k, i \in 1..n : RankByHop(s)[i] = k - 1 => p[k] \in 1..n /\ RankByHop(s)[p[k]] = k - 1
  BY <1>1, <1>4, <1>5
<1> QED BY <1>7, <1>9, <1>10

(* The order p in which ByHop() takes the members of a list.               *)
HopOrder(p, s) ==
  /\ p \in [1..Len(s) -> 1..Len(s)]
  /\ ByHop(s) = [k \in 1..Len(s) |-> s[p[k]]]
  /\ \A i \in 1..Len(s) : \E k \in 1..Len(s) : p[k] = i
  /\ \A k, l \in 1..Len(s) :
       k < l <=> s[p[k]].hop < s[p[l]].hop \/ (s[p[k]].hop = s[p[l]].hop /\ p[k] < p[l])
  /\ \A k, l \in 1..Len(s) : p[k] = p[l] => k = l

(* There is one.                                                           *)
LEMMA SortedByHop ==
  ASSUME NEW W, NEW s \in Seq(W), Hopped(s)
  PROVE  \E p : HopOrder(p, s)
<1> DEFINE n == Len(s)
           Earlier(i, j) == s[i].hop < s[j].hop \/ (~(s[j].hop < s[i].hop) /\ i < j)
           R == {q \in (1..n) \X (1..n) : Earlier(q[1], q[2])}
<1>1. n \in Nat /\ DOMAIN s = 1..n OBVIOUS
<1>2. IsFiniteSet(1..n) /\ Cardinality(1..n) = n BY <1>1, SizeUpTo
<1>3. \A i, j \in 1..n : <<i, j>> \in R <=> Earlier(i, j) OBVIOUS
<1>4. RankByHop(s) = [i \in 1..n |-> Cardinality({j \in 1..n : <<j, i>> \in R})]
  <2>1. \A i \in 1..n : {j \in 1..n : <<j, i>> \in R} = {j \in 1..n : Earlier(j, i)} BY <1>3
  <2> HIDE DEF R
  <2> QED BY <1>1, <2>1 DEF RankByHop
<1>5. \A i, j \in 1..n : Earlier(i, j) <=> s[i].hop < s[j].hop \/ (s[i].hop = s[j].hop /\ i < j)
  <2> TAKE i, j \in 1..n
  <2>1. s[i].hop \in Int /\ s[j].hop \in Int BY DEF Hopped
  <2> QED BY <2>1
<1> HIDE DEF R
<1>6. \A i, j \in 1..n : i # j => <<i, j>> \in R \/ <<j, i>> \in R
  <2> TAKE i, j \in 1..n
  <2>1. s[i].hop \in Int /\ s[j].hop \in Int BY DEF Hopped
  <2> QED BY <1>3, <2>1
<1>7. \A i \in 1..n : <<i, i>> \notin R
  <2> TAKE i \in 1..n
  <2>1. s[i].hop \in Int BY DEF Hopped
  <2> QED BY <1>3, <2>1
<1>8. \A i, j, k \in 1..n : <<i, j>> \in R /\ <<j, k>> \in R => <<i, k>> \in R
  <2> TAKE i, j, k \in 1..n
  <2>1. s[i].hop \in Int /\ s[j].hop \in Int /\ s[k].hop \in Int BY DEF Hopped
  <2> QED BY <1>3, <2>1
<1> HIDE DEF Earlier
<1>9. PICK p : /\ p = [k \in 1..n |-> p[k]]
               /\ \A k, i \in 1..n : RankByHop(s)[i] = k - 1 => p[k] \in 1..n /\ RankByHop(s)[p[k]] = k - 1
               /\ ByHop(s) = [k \in 1..n |-> s[p[k]]]
  BY HopRanks
<1>10. Lists(1..n, n, R, p)
  <2>1. Ordered(1..n, R) BY <1>6, <1>7, <1>8 DEF Ordered
  <2>2. TakenByRank(1..n, n, RankByHop(s), p) BY <1>9 DEF TakenByRank
  <2>3. \A i \in 1..n : RankByHop(s)[i] = Cardinality({j \in 1..n : <<j, i>> \in R}) BY <1>4
  <2> HIDE DEF n
  <2> QED BY <1>2, <2>1, <2>2, <2>3, Ranks
<1>11. \A k, l \in 1..n : k < l <=> Earlier(p[k], p[l]) BY <1>3, <1>10 DEF Lists
<1>12. \A k, l \in 1..n :
         k < l <=> s[p[k]].hop < s[p[l]].hop \/ (s[p[k]].hop = s[p[l]].hop /\ p[k] < p[l])
  BY <1>5, <1>10, <1>11 DEF Lists
<1>13. p \in [1..n -> 1..n] BY <1>9, <1>10 DEF Lists
<1> QED BY <1>9, <1>10, <1>12, <1>13 DEF Lists, HopOrder

(* A list that is sorted stays as it is.                                   *)
LEMMA SortedStays ==
  ASSUME NEW W, NEW s \in Seq(W), Hopped(s),
         \A i, j \in 1..Len(s) : i < j => s[i].hop <= s[j].hop
  PROVE  ByHop(s) = s
<1> DEFINE n == Len(s)
           Earlier(i, j) == s[i].hop < s[j].hop \/ (~(s[j].hop < s[i].hop) /\ i < j)
<1>1. n \in Nat /\ DOMAIN s = 1..n /\ s = [k \in 1..n |-> s[k]] OBVIOUS
<1>2. \A i, j \in 1..n : Earlier(i, j) <=> i < j
  <2> TAKE i, j \in 1..n
  <2>1. s[i].hop \in Int /\ s[j].hop \in Int BY DEF Hopped
  <2>2. i < j => s[i].hop <= s[j].hop OBVIOUS
  <2>3. j < i => s[j].hop <= s[i].hop OBVIOUS
  <2> QED BY <2>1, <2>2, <2>3
<1>3. \A i \in 1..n : RankByHop(s)[i] = i - 1
  <2> TAKE i \in 1..n
  <2>1. {j \in 1..n : Earlier(j, i)} = {j \in 1..n : j < i} BY <1>2
  <2>2. {j \in 1..n : j < i} = 1..(i - 1) BY <1>1
  <2>3. i - 1 \in Nat BY <1>1
  <2>4. Cardinality(1..(i - 1)) = i - 1 BY <2>3, SizeUpTo
  <2>5. RankByHop(s)[i] = Cardinality({j \in 1..n : Earlier(j, i)}) BY <1>1 DEF RankByHop
  <2> QED BY <2>1, <2>2, <2>4, <2>5
<1>4. PICK p : /\ p = [k \in 1..n |-> p[k]]
               /\ \A k, i \in 1..n : RankByHop(s)[i] = k - 1 => p[k] \in 1..n /\ RankByHop(s)[p[k]] = k - 1
               /\ ByHop(s) = [k \in 1..n |-> s[p[k]]]
  BY HopRanks
<1>5. \A k \in 1..n : p[k] = k
  <2> TAKE k \in 1..n
  <2>1. RankByHop(s)[k] = k - 1 BY <1>3
  <2>2. p[k] \in 1..n /\ RankByHop(s)[p[k]] = k - 1 BY <1>4, <2>1
  <2>3. RankByHop(s)[p[k]] = p[k] - 1 BY <1>3, <2>2
  <2> QED BY <1>1, <2>2, <2>3
<1> QED BY <1>1, <1>4, <1>5

-----------------------------------------------------------------------------
(* The folds of the model.                                                 *)

(* A fold comes to r, step by step.                                        *)
FoldsTo(r, n, V, op, base, s) ==
  \E h \in [0..n -> V] : /\ h[0] = base /\ h[n] = r
                         /\ \A k \in 1..n : h[k] = op[<<h[k - 1], s[k]>>]

(* A fold over the indices 1..n comes to a value of V, by way of values of *)
(* V: one for every prefix.                                                *)
LEMMA Folded ==
  ASSUME NEW n \in Nat, NEW V, NEW E, NEW op \in [V \X E -> V], NEW base \in V,
         NEW s, \A i \in 1..n : s[i] \in E, NEW iter, Iterates(iter, n, V, op, base, s)
  PROVE  FoldsTo(iter[1..n], n, V, op, base, s)
<1> DEFINE good == {m \in 0..n : iter[1..m] \in V}
           h == [m \in 0..n |-> iter[1..m]]
<1>1. 1..0 = {} OBVIOUS
<1>2. 0 \in good BY <1>1 DEF Iterates
<1>3. ASSUME NEW k \in 1..n, iter[1..(k - 1)] \in V
      PROVE  iter[1..k] = op[<<iter[1..(k - 1)], s[k]>>] /\ iter[1..k] \in V
  <2>1. /\ 1..k \in SUBSET (1..n) /\ 1..k # {} /\ Max(1..k) = k /\ (1..k) \ {k} = 1..(k - 1)
    BY UpTo
  <2>2. iter[1..k] = op[<<iter[1..(k - 1)], s[k]>>] BY <1>3, <2>1 DEF Iterates
  <2> QED BY <1>3, <2>2
<1>4. \A k \in 0..(n - 1) : k \in good => k + 1 \in good
  <2> TAKE k \in 0..(n - 1)
  <2>1. k + 1 \in 1..n /\ (k + 1) - 1 = k /\ k + 1 \in 0..n OBVIOUS
  <2>2. iter[1..k] \in V => iter[1..(k + 1)] \in V BY <1>3, <2>1
  <2> QED BY <2>1, <2>2
<1>5. 0..n \subseteq good
  <2> HIDE DEF good
  <2> QED BY <1>2, <1>4, Counting
<1>6. \A k \in 0..n : iter[1..k] \in V BY <1>5
<1>7. h \in [0..n -> V] BY <1>6
<1>8. \A k \in 1..n : h[k] = op[<<h[k - 1], s[k]>>]
  <2> TAKE k \in 1..n
  <2>1. k - 1 \in 0..n /\ k \in 0..n OBVIOUS
  <2>2. iter[1..k] = op[<<iter[1..(k - 1)], s[k]>>] BY <1>3, <1>6, <2>1
  <2> QED BY <2>1, <2>2
<1>9. h[0] = base /\ h[n] = iter[1..n] BY <1>1 DEF Iterates
<1> HIDE DEF h
<1> QED BY <1>7, <1>8, <1>9 DEF FoldsTo

(* The weights of the agents A, and what HopWeight() says of a hop.        *)
Bearer(A) ==
  [id : Nat, hop : Nat, from : A, to : A, cin : Nat, cout : Nat, delta : Int, infl : Nat,
   call : STRING, input : Previews, output : Previews, sources : Seq(Nat), simIn : Percent,
   simGoal : Percent, cites : BOOLEAN]

-----------------------------------------------------------------------------
(* buildBlameWeights().                                                    *)

(* A hop weighs no less than nothing.                                      *)
LEMMA WeightNat == ASSUME NEW A, NEW e \in Bearer(A), NEW failed \in BOOLEAN
  PROVE HopWeight(e, failed) \in Nat
<1>1. /\ e.infl \in Nat /\ e.delta \in Int /\ e.cin \in Int /\ e.cout \in Int BY DEF Bearer
<1>2. Harm(e) \in Nat /\ Drop(e) \in Nat /\ Inflation(e) \in Nat
  BY <1>1 DEF Harm, Drop, Inflation, AtLeast
<1>3. Boost(e) \in Nat BY DEF Boost
<1> DEFINE f == IF failed THEN 3 * Harm(e) + 2 * Drop(e) + 2 * Inflation(e) + Boost(e) + 5
                        ELSE 50
<1>4. f \in Nat BY <1>2, <1>3
<1> HIDE DEF f
<1>5. e.infl * f \in Nat BY <1>1, <1>4
<1> QED BY <1>5 DEF f, HopWeight

(* One step of blameWeights().                                             *)
Weighed(w, e, failed) ==
  LET hop == HopWeight(e, failed)
      received == [w EXCEPT ![e.to] = @ + hop]
  IN IF e.from = e.to THEN received
     ELSE [received EXCEPT ![e.from] = @ + (hop * 15) \div 100]

(* An edge adds to the weights of its agents and leaves them numbers.      *)
LEMMA WeighedType ==
  ASSUME NEW A, NEW e \in Bearer(A), NEW failed \in BOOLEAN, NEW w \in [A -> Nat]
  PROVE  Weighed(w, e, failed) \in [A -> Nat]
<1> DEFINE hop == HopWeight(e, failed)
           r == [w EXCEPT ![e.to] = @ + hop]
<1>1. hop \in Nat BY WeightNat
<1>2. e.from \in A /\ e.to \in A BY DEF Bearer
<1> HIDE DEF hop
<1>3. r \in [A -> Nat] BY <1>1, <1>2
<1>4. (hop * 15) \div 100 \in Nat BY <1>1
<1> HIDE DEF r
<1>5. [r EXCEPT ![e.from] = @ + (hop * 15) \div 100] \in [A -> Nat] BY <1>2, <1>3, <1>4
<1> QED BY <1>3, <1>5 DEF Weighed, r, hop

(* BlameWeights() adds up what the edges weigh, in hop order, from         *)
(* nothing.                                                                *)
LEMMA BlameWeightsAre ==
  ASSUME NEW es, NEW failed \in BOOLEAN, NEW n \in Nat,
         ByHop(es) \in [1..n -> Bearer(AgentsOf(es))]
  PROVE  FoldsTo(BlameWeights(es, failed), n, [AgentsOf(es) -> Nat],
                 [p \in [AgentsOf(es) -> Nat] \X Bearer(AgentsOf(es)) |-> Weighed(p[1], p[2], failed)],
                 [a \in AgentsOf(es) |-> 0], ByHop(es))
<1> DEFINE A == AgentsOf(es)
           s == ByHop(es)
           V == [A -> Nat]
           E == Bearer(A)
           op == [p \in V \X E |-> Weighed(p[1], p[2], failed)]
           base == [a \in A |-> 0]
           F(it) == [T \in SUBSET (DOMAIN s) |->
                       IF T = {} THEN base ELSE Weighed(it[T \ {Max(T)}], s[Max(T)], failed)]
           iter == CHOOSE it : it = F(it)
<1>1. DOMAIN s = 1..n OBVIOUS
<1>2. BlameWeights(es, failed) = iter[DOMAIN s]
  BY DEF BlameWeights, FoldLeft, MapThenFoldSet, Weighed
<1>3. base \in V OBVIOUS
<1>4. op \in [V \X E -> V] BY WeighedType
<1>5. \A w \in V, e \in E : op[<<w, e>>] = Weighed(w, e, failed) OBVIOUS
<1>6. \A i \in 1..n : s[i] \in E OBVIOUS
<1> HIDE DEF op, base, V, E, s
<1>7. \E it : it = F(it)
  <2>1. PICK g : Iteration(g, n, V, op, base, s)
    BY <1>3, <1>4, <1>6, FoldExists
  <2>2. ASSUME NEW T \in SUBSET (1..n), T # {}
        PROVE  g[T] = Weighed(g[T \ {Max(T)}], s[Max(T)], failed)
    <3>1. Max(T) \in T BY <2>2, Highest
    <3>2. g[T \ {Max(T)}] \in V /\ s[Max(T)] \in E BY <1>6, <2>1, <3>1 DEF Iteration
    <3> QED BY <1>5, <2>1, <2>2, <3>2 DEF Iteration, Iterates
  <2>3. g = F(g) BY <1>1, <2>1, <2>2 DEF Iteration, Iterates
  <2> HIDE DEF F
  <2> QED BY <2>3
<1>8. iter = F(iter) BY <1>7
<1> HIDE DEF iter
<1>9. Iterates(iter, n, V, op, base, s)
  <2>1. iter[{}] = base BY <1>8
  <2>2. ASSUME NEW T \in SUBSET (1..n), T # {}, iter[T \ {Max(T)}] \in V
        PROVE  iter[T] = op[<<iter[T \ {Max(T)}], s[Max(T)]>>]
    <3>1. Max(T) \in T BY <2>2, Highest
    <3>2. s[Max(T)] \in E BY <1>6, <3>1
    <3>3. iter[T] = Weighed(iter[T \ {Max(T)}], s[Max(T)], failed) BY <1>1, <1>8, <2>2
    <3> QED BY <1>5, <2>2, <3>2, <3>3
  <2> QED BY <2>1, <2>2 DEF Iterates
<1>10. FoldsTo(iter[1..n], n, V, op, base, s) BY <1>3, <1>4, <1>6, <1>9, Folded
<1> QED BY <1>1, <1>2, <1>10 DEF op, base, V, E, s

-----------------------------------------------------------------------------
(* Sums of weights.                                                        *)

(* What a finite set has by growing from nothing.                          *)
LEMMA Growing ==
  ASSUME NEW A, IsFiniteSet(A), NEW G, {} \in G,
         \A T \in SUBSET A : \A x \in A \ T : T \in G => T \cup {x} \in G
  PROVE  SUBSET A \subseteq G
<1> DEFINE n == Cardinality(A)
           good == {k \in 0..n : \A T \in SUBSET A : Cardinality(T) = k => T \in G}
<1>1. n \in Nat BY FS_CardinalityType
<1>2. \A T \in SUBSET A : IsFiniteSet(T) /\ Cardinality(T) \in 0..n
  <2> TAKE T \in SUBSET A
  <2>1. IsFiniteSet(T) /\ Cardinality(T) <= n BY FS_Subset
  <2>2. Cardinality(T) \in Nat BY <2>1, FS_CardinalityType
  <2> QED BY <1>1, <2>1, <2>2
<1>3. 0 \in good
  <2>1. \A T \in SUBSET A : Cardinality(T) = 0 => T = {} BY <1>2, FS_EmptySet
  <2>2. \A T \in SUBSET A : Cardinality(T) = 0 => T \in G BY <2>1
  <2>3. 0 \in 0..n BY <1>1
  <2> HIDE DEF n
  <2> QED BY <2>2, <2>3
<1>4. ASSUME NEW k \in 0..(n - 1), k \in good PROVE k + 1 \in good
  <2>1. SUFFICES ASSUME NEW T \in SUBSET A, Cardinality(T) = k + 1 PROVE T \in G
    BY <1>1
  <2>2. T # {}
    <3>1. k \in Nat /\ k + 1 # 0 BY <1>1
    <3>2. Cardinality({}) = 0 BY FS_EmptySet
    <3> QED BY <2>1, <3>1, <3>2
  <2>3. PICK x \in T : TRUE BY <2>2
  <2>4. Cardinality(T \ {x}) = Cardinality(T) - 1 BY <1>2, <2>3, FS_RemoveElement
  <2>5. Cardinality(T \ {x}) = k /\ T \ {x} \in SUBSET A /\ x \in A \ (T \ {x}) BY <2>1, <2>4
  <2>6. T \ {x} \in G BY <1>4, <2>5
  <2>7. (T \ {x}) \cup {x} = T BY <2>3
  <2> QED BY <2>5, <2>6, <2>7
<1>5. 0..n \subseteq good
  <2> HIDE DEF good
  <2> QED BY <1>1, <1>3, <1>4, Counting
<1> QED BY <1>2, <1>5

(* Sums of the weights w over the sets of agents, whatever the order.      *)
Sums(g, A, w) ==
  /\ \A T \in SUBSET A : g[T] \in Int
  /\ g[{}] = 0
  /\ \A T \in SUBSET A : \A x \in T : g[T] = w[x] + g[T \ {x}]

(* Sums in the order c chooses.                                            *)
SumsBy(g, A, w, c) ==
  /\ g[{}] = 0
  /\ \A T \in SUBSET A : T # {} => g[T] = w[c[T]] + g[T \ {c[T]}]

(* There are the sums over the sets of agents, however the next agent is   *)
(* picked.                                                                 *)
LEMMA SumExists ==
  ASSUME NEW A, IsFiniteSet(A), NEW w, \A a \in A : w[a] \in Int,
         NEW c, \A T \in SUBSET A : T # {} => c[T] \in T
  PROVE  \E g : g = [T \in SUBSET A |-> g[T]] /\ SumsBy(g, A, w, c)
<1> DEFINE n == Cardinality(A)
           Upto(k) == {T \in SUBSET A : Cardinality(T) <= k}
           Runs(k) == \E g \in [Upto(k) -> Int] :
                        /\ g[{}] = 0
                        /\ \A T \in Upto(k) : T # {} => g[T] = w[c[T]] + g[T \ {c[T]}]
           good == {k \in 0..n : Runs(k)}
<1>1. n \in Nat BY FS_CardinalityType
<1>2. \A T \in SUBSET A : IsFiniteSet(T) /\ Cardinality(T) \in 0..n
  <2> TAKE T \in SUBSET A
  <2>1. IsFiniteSet(T) /\ Cardinality(T) <= n BY FS_Subset
  <2>2. Cardinality(T) \in Nat BY <2>1, FS_CardinalityType
  <2> QED BY <1>1, <2>1, <2>2
<1>3. Cardinality({}) = 0 BY FS_EmptySet
<1>4. \A T \in SUBSET A : T # {} => /\ T \ {c[T]} \in SUBSET A
                                    /\ Cardinality(T \ {c[T]}) = Cardinality(T) - 1
  BY <1>2, FS_RemoveElement
<1>5. Runs(0)
  <2>1. \A T \in SUBSET A : Cardinality(T) <= 0 <=> T = {}
    <3> TAKE T \in SUBSET A
    <3>1. Cardinality(T) = 0 <=> T = {} BY <1>2, FS_EmptySet
    <3>2. Cardinality(T) \in 0..n BY <1>2
    <3> QED BY <1>1, <3>1, <3>2
  <2>2. Upto(0) = {{}} BY <2>1
  <2> DEFINE zero == [T \in {{}} |-> 0]
  <2>3. zero \in [{{}} -> Int] /\ zero[{}] = 0 OBVIOUS
  <2>4. \A T \in {{}} : T # {} => zero[T] = w[c[T]] + zero[T \ {c[T]}] OBVIOUS
  <2> HIDE DEF Upto, zero
  <2> QED BY <2>2, <2>3, <2>4
<1>6. ASSUME NEW k \in 0..(n - 1), Runs(k) PROVE Runs(k + 1)
  <2>1. PICK g \in [Upto(k) -> Int] :
                        /\ g[{}] = 0
                        /\ \A T \in Upto(k) : T # {} => g[T] = w[c[T]] + g[T \ {c[T]}]
    BY <1>6
  <2> DEFINE h == [T \in Upto(k + 1) |-> IF T \in Upto(k) THEN g[T] ELSE w[c[T]] + g[T \ {c[T]}]]
  <2>2. \A T \in Upto(k + 1) : T # {} => T \ {c[T]} \in Upto(k)
    <3> SUFFICES ASSUME NEW T \in SUBSET A, Cardinality(T) <= k + 1, T # {}
                 PROVE  Cardinality(T \ {c[T]}) <= k
      BY <1>4
    <3>1. Cardinality(T) \in 0..n BY <1>2
    <3> QED BY <1>4, <3>1
  <2>3. {} \in Upto(k) /\ Upto(k) \subseteq Upto(k + 1)
    <3>1. \A T \in SUBSET A : Cardinality(T) <= k => Cardinality(T) <= k + 1
      <4> TAKE T \in SUBSET A
      <4>1. Cardinality(T) \in 0..n BY <1>2
      <4> QED BY <4>1
    <3> QED BY <1>3, <3>1
  <2> HIDE DEF Upto
  <2>4. \A T \in Upto(k + 1) : T \in Upto(k) \/ T # {} BY <2>3
  <2>5. Upto(k + 1) \subseteq SUBSET A BY DEF Upto
  <2>6. h \in [Upto(k + 1) -> Int]
    <3> SUFFICES ASSUME NEW T \in Upto(k + 1)
                 PROVE  (IF T \in Upto(k) THEN g[T] ELSE w[c[T]] + g[T \ {c[T]}]) \in Int
      OBVIOUS
    <3>1. CASE T \in Upto(k) BY <3>1
    <3>2. CASE T \notin Upto(k)
      <4>1. c[T] \in A /\ g[T \ {c[T]}] \in Int BY <2>2, <2>4, <2>5, <3>2
      <4> QED BY <3>2, <4>1
    <3> QED BY <3>1, <3>2
  <2>7. ASSUME NEW T \in Upto(k + 1), T # {} PROVE h[T] = w[c[T]] + h[T \ {c[T]}]
    <3>1. T \ {c[T]} \in Upto(k) /\ T \ {c[T]} \in Upto(k + 1) BY <2>2, <2>3, <2>7
    <3>2. h[T \ {c[T]}] = g[T \ {c[T]}] BY <3>1
    <3>3. h[T] = w[c[T]] + g[T \ {c[T]}] BY <2>1, <2>7
    <3> QED BY <3>2, <3>3
  <2>8. h[{}] = 0 BY <2>1, <2>3
  <2> HIDE DEF h
  <2> QED BY <2>6, <2>7, <2>8
<1> HIDE DEF Runs
<1>7. 0..n \subseteq good
  <2>1. 0 \in good BY <1>1, <1>5
  <2>2. \A k \in 0..(n - 1) : k \in good => k + 1 \in good BY <1>1, <1>6
  <2> HIDE DEF good
  <2> QED BY <1>1, <2>1, <2>2, Counting
<1>8. Runs(n) BY <1>1, <1>7
<1>9. Upto(n) = SUBSET A BY <1>1, <1>2
<1> HIDE DEF Upto
<1>10. PICK g \in [Upto(n) -> Int] :
                        /\ g[{}] = 0
                        /\ \A T \in Upto(n) : T # {} => g[T] = w[c[T]] + g[T \ {c[T]}]
  BY <1>8 DEF Runs
<1>11. g = [T \in SUBSET A |-> g[T]] BY <1>9, <1>10
<1>12. SumsBy(g, A, w, c) BY <1>9, <1>10 DEF SumsBy
<1> QED BY <1>11, <1>12

(* The order makes no difference.                                          *)
LEMMA SumsAnyhow ==
  ASSUME NEW A, IsFiniteSet(A), NEW w, \A a \in A : w[a] \in Int,
         NEW c, \A T \in SUBSET A : T # {} => c[T] \in T, NEW g, SumsBy(g, A, w, c)
  PROVE  Sums(g, A, w)
<1> DEFINE n == Cardinality(A)
           good == {k \in 0..n : \A T \in SUBSET A : Cardinality(T) <= k =>
                                    g[T] \in Int /\ \A x \in T : g[T] = w[x] + g[T \ {x}]}
<1>1. n \in Nat BY FS_CardinalityType
<1>2. \A T \in SUBSET A : IsFiniteSet(T) /\ Cardinality(T) \in 0..n
  <2> TAKE T \in SUBSET A
  <2>1. IsFiniteSet(T) /\ Cardinality(T) <= n BY FS_Subset
  <2>2. Cardinality(T) \in Nat BY <2>1, FS_CardinalityType
  <2> QED BY <1>1, <2>1, <2>2
<1>3. 0 \in good
  <2>1. \A T \in SUBSET A : Cardinality(T) <= 0 => T = {}
    <3> TAKE T \in SUBSET A
    <3>1. Cardinality(T) = 0 => T = {} BY <1>2, FS_EmptySet
    <3>2. Cardinality(T) \in Nat BY <1>1, <1>2
    <3> QED BY <3>1, <3>2
  <2>2. \A T \in SUBSET A : Cardinality(T) <= 0 =>
                                    g[T] \in Int /\ \A x \in T : g[T] = w[x] + g[T \ {x}]
    <3> SUFFICES g[{}] \in Int /\ \A x \in {} : g[{}] = w[x] + g[{} \ {x}] BY <2>1
    <3> QED BY DEF SumsBy
  <2>3. 0 \in 0..n BY <1>1
  <2> HIDE DEF n
  <2> QED BY <2>2, <2>3
<1>4. ASSUME NEW k \in 0..(n - 1), k \in good PROVE k + 1 \in good
  <2>1. SUFFICES ASSUME NEW T \in SUBSET A, Cardinality(T) <= k + 1, T # {}
                 PROVE  g[T] \in Int /\ \A x \in T : g[T] = w[x] + g[T \ {x}]
    <3>1. g[{}] \in Int BY DEF SumsBy
    <3>2. k + 1 \in 0..n BY <1>1
    <3> QED BY <3>1, <3>2
  <2> DEFINE y == c[T]
  <2>2. y \in T /\ g[T] = w[y] + g[T \ {y}] BY <2>1 DEF SumsBy
  <2> HIDE DEF y
  <2>3. \A x \in T : T \ {x} \in SUBSET A /\ Cardinality(T \ {x}) <= k
    <3> TAKE x \in T
    <3>1. Cardinality(T \ {x}) = Cardinality(T) - 1 BY <1>2, FS_RemoveElement
    <3>2. k \in Nat /\ Cardinality(T) \in Nat BY <1>1, <1>2
    <3> QED BY <2>1, <3>1, <3>2
  <2>4. \A x \in T : g[T \ {x}] \in Int /\ w[x] \in Int BY <1>4, <2>3
  <2>5. ASSUME NEW x \in T, x # y PROVE g[T] = w[x] + g[T \ {x}]
    <3>1. y \in T \ {x} /\ x \in T \ {y} BY <2>2, <2>5
    <3>2. g[T \ {x}] = w[y] + g[(T \ {x}) \ {y}] BY <1>4, <2>3, <3>1
    <3>3. g[T \ {y}] = w[x] + g[(T \ {y}) \ {x}] BY <1>4, <2>2, <2>3, <3>1
    <3> DEFINE rest == (T \ {y}) \ {x}
    <3>4. (T \ {x}) \ {y} = rest OBVIOUS
    <3>5. g[rest] \in Int
      <4>1. T \ {y} \in SUBSET A /\ rest \in SUBSET (T \ {y}) /\ rest \in SUBSET A OBVIOUS
      <4> HIDE DEF rest
      <4>2. Cardinality(rest) <= Cardinality(T \ {y}) /\ Cardinality(rest) \in Nat
        <5>1. IsFiniteSet(T \ {y}) BY <1>2, <4>1
        <5> QED BY <1>1, <1>2, <4>1, <5>1, FS_Subset
      <4>3. Cardinality(T \ {y}) <= k /\ Cardinality(T \ {y}) \in Nat BY <1>1, <1>2, <2>2, <2>3, <4>1
      <4>4. Cardinality(rest) <= k BY <1>1, <4>2, <4>3
      <4> QED BY <1>4, <4>1, <4>4
    <3>7. g[T \ {x}] = w[y] + g[rest] /\ g[T \ {y}] = w[x] + g[rest] BY <3>2, <3>3, <3>4
    <3> HIDE DEF rest
    <3>6. w[x] \in Int /\ w[y] \in Int BY <2>2, <2>4
    <3> QED BY <2>2, <3>5, <3>6, <3>7
  <2>6. g[T] \in Int BY <2>2, <2>4
  <2> QED BY <2>2, <2>5, <2>6
<1>5. 0..n \subseteq good
  <2> HIDE DEF good
  <2> QED BY <1>1, <1>3, <1>4, Counting
<1>6. n \in good BY <1>1, <1>5
<1>7. \A T \in SUBSET A : Cardinality(T) <= n BY <1>1, <1>2
<1>8. \A T \in SUBSET A : g[T] \in Int /\ \A x \in T : g[T] = w[x] + g[T \ {x}] BY <1>6, <1>7
<1> QED BY <1>8 DEF Sums, SumsBy

(* Total() is the sum over all agents.                                     *)
LEMMA TotalIs ==
  ASSUME NEW w, IsFiniteSet(DOMAIN w), \A a \in DOMAIN w : w[a] \in Int
  PROVE  \E g : Sums(g, DOMAIN w, w) /\ Total(w) = g[DOMAIN w]
<1> DEFINE A == DOMAIN w
           F(it) == [T \in SUBSET (DOMAIN w) |->
                       IF T = {} THEN 0 ELSE w[CHOOSE x \in T : TRUE] + it[T \ {CHOOSE x \in T : TRUE}]]
           iter == CHOOSE it : it = F(it)
           c == [T \in SUBSET A |-> CHOOSE x \in T : TRUE]
<1>1. Total(w) = iter[DOMAIN w] BY DEF Total, FoldFunction, FoldFunctionOnSet, MapThenFoldSet
<1>2. \A T \in SUBSET A : T # {} => c[T] \in T OBVIOUS
<1>3. \A T \in SUBSET A : c[T] = CHOOSE x \in T : TRUE OBVIOUS
<1> HIDE DEF c
<1>4. \E it : it = F(it)
  <2>1. PICK g : g = [T \in SUBSET A |-> g[T]] /\ SumsBy(g, A, w, c) BY <1>2, SumExists
  <2>2. g = [T \in SUBSET A |->
               IF T = {} THEN 0 ELSE w[CHOOSE x \in T : TRUE] + g[T \ {CHOOSE x \in T : TRUE}]]
    BY <1>3, <2>1 DEF SumsBy
  <2> QED BY <2>2
<1>5. iter = F(iter) BY <1>4
<1> HIDE DEF iter
<1>6. SumsBy(iter, A, w, c) BY <1>3, <1>5 DEF SumsBy
<1>7. Sums(iter, A, w) BY <1>2, <1>6, SumsAnyhow
<1> QED BY <1>1, <1>7

(* Sums of weights that are the same but for one agent.                    *)
LEMMA SumsOfOne ==
  ASSUME NEW A, IsFiniteSet(A), NEW w, NEW u, NEW a \in A, \A b \in A : b # a => u[b] = w[b],
         \A b \in A : w[b] \in Int /\ u[b] \in Int,
         NEW g, Sums(g, A, w), NEW h, Sums(h, A, u)
  PROVE  h[A] = g[A] - w[a] + u[a]
<1> DEFINE B == A \ {a}
           G == {T \in SUBSET B : h[T] = g[T]}
<1>1. IsFiniteSet(B) BY FS_RemoveElement
<1>2. {} \in G BY DEF Sums
<1>3. \A T \in SUBSET B : \A x \in B \ T : T \in G => T \cup {x} \in G
  <2> TAKE T \in SUBSET B
  <2> TAKE x \in B \ T
  <2>1. (T \cup {x}) \ {x} = T /\ T \cup {x} \in SUBSET A /\ x \in A /\ x # a OBVIOUS
  <2>2. g[T \cup {x}] = w[x] + g[T] /\ h[T \cup {x}] = u[x] + h[T] BY <2>1 DEF Sums
  <2>3. u[x] = w[x] BY <2>1
  <2> QED BY <2>2, <2>3
<1>4. SUBSET B \subseteq G
  <2> HIDE DEF G, B
  <2> QED BY <1>1, <1>2, <1>3, Growing
<1>5. h[B] = g[B] BY <1>4
<1>6. g[A] = w[a] + g[B] /\ h[A] = u[a] + h[B] BY DEF Sums
<1>7. g[B] \in Int BY DEF Sums
<1> HIDE DEF B
<1> QED BY <1>5, <1>6, <1>7

(* Changing one weight changes the total by as much.                       *)
LEMMA TotalExcept ==
  ASSUME NEW A, IsFiniteSet(A), NEW w \in [A -> Int], NEW a \in A, NEW v \in Int
  PROVE  /\ Total(w) \in Int
         /\ Total([w EXCEPT ![a] = v]) = Total(w) - w[a] + v
<1> DEFINE u == [w EXCEPT ![a] = v]
<1>1. u \in [A -> Int] /\ DOMAIN u = A /\ DOMAIN w = A OBVIOUS
<1>2. u[a] = v /\ \A b \in A : b # a => u[b] = w[b] OBVIOUS
<1> HIDE DEF u
<1>3. PICK g : Sums(g, A, w) /\ Total(w) = g[A] BY <1>1, TotalIs
<1>4. PICK h : Sums(h, A, u) /\ Total(u) = h[A] BY <1>1, TotalIs
<1>5. h[A] = g[A] - w[a] + u[a] BY <1>1, <1>2, <1>3, <1>4, SumsOfOne
<1>6. g[A] \in Int BY <1>3 DEF Sums
<1> QED BY <1>2, <1>3, <1>4, <1>5, <1>6 DEF u

(* A sum of weights is a weight, at least that of each agent.              *)
LEMMA TotalNat ==
  ASSUME NEW A, IsFiniteSet(A), NEW w \in [A -> Nat]
  PROVE  Total(w) \in Nat /\ \A a \in A : Total(w) >= w[a]
<1>1. DOMAIN w = A /\ \A a \in A : w[a] \in Int OBVIOUS
<1>2. PICK g : Sums(g, A, w) /\ Total(w) = g[A] BY <1>1, TotalIs
<1> DEFINE G == {T \in SUBSET A : g[T] \in Nat}
<1>3. {} \in G BY <1>2 DEF Sums
<1>4. \A T \in SUBSET A : \A x \in A \ T : T \in G => T \cup {x} \in G
  <2> TAKE T \in SUBSET A
  <2> TAKE x \in A \ T
  <2>1. (T \cup {x}) \ {x} = T /\ T \cup {x} \in SUBSET A /\ x \in A OBVIOUS
  <2>2. g[T \cup {x}] = w[x] + g[T] BY <1>2, <2>1 DEF Sums
  <2>3. w[x] \in Nat OBVIOUS
  <2> QED BY <2>1, <2>2, <2>3
<1>5. SUBSET A \subseteq G
  <2> HIDE DEF G
  <2> QED BY <1>3, <1>4, Growing
<1>6. \A a \in A : g[A] = w[a] + g[A \ {a}] /\ g[A \ {a}] \in Nat /\ w[a] \in Nat
  BY <1>2, <1>5 DEF Sums
<1>7. g[A] \in Nat BY <1>5
<1>8. \A a \in A : g[A] >= w[a]
  <2> TAKE a \in A
  <2>1. g[A] = w[a] + g[A \ {a}] /\ g[A \ {a}] \in Nat /\ w[a] \in Nat BY <1>6
  <2> QED BY <2>1
<1> QED BY <1>2, <1>7, <1>8

(* Weights u after an amount went from an agent to another: never less in  *)
(* all, and more only if there was less than the amount.                   *)
Kept(u, w, A, from, amount) ==
  /\ u \in [A -> Nat]
  /\ Total(u) >= Total(w)
  /\ amount <= w[from] => Total(u) = Total(w)
  /\ u[from] >= w[from] - amount

(* Move() takes no more than there is from one agent, and keeps the total. *)
LEMMA MoveKeeps ==
  ASSUME NEW A, IsFiniteSet(A), NEW w \in [A -> Nat], NEW from \in A, NEW to \in A, NEW amount \in Nat
  PROVE  Kept(Move(w, from, to, amount), w, A, from, amount)
<1> DEFINE left == IF w[from] < amount THEN 0 ELSE w[from] - amount
           v == [w EXCEPT ![from] = left]
           u == [v EXCEPT ![to] = v[to] + amount]
<1>1. w[from] \in Nat OBVIOUS
<1>2. left \in Nat /\ left >= w[from] - amount /\ (amount <= w[from] => left = w[from] - amount)
  BY <1>1
<1>3. AtLeast(0, w[from] - amount) = left BY <1>1 DEF AtLeast
<1> HIDE DEF left
<1>4. v \in [A -> Nat] /\ v[from] = left /\ \A a \in A : a # from => v[a] = w[a] BY <1>2
<1>5. w \in [A -> Int] /\ v \in [A -> Int] /\ left \in Int BY <1>2, <1>4
<1>6. Total(v) = Total(w) - w[from] + left /\ Total(w) \in Int
  <2>1. Total([w EXCEPT ![from] = left]) = Total(w) - w[from] + left /\ Total(w) \in Int
    <3> HIDE DEF v
    <3> QED BY <1>5, TotalExcept
  <2> QED BY <2>1 DEF v
<1> HIDE DEF v
<1>7. v[to] + amount \in Nat BY <1>4
<1>8. u \in [A -> Nat] BY <1>4, <1>7
<1>9. v[to] + amount \in Int /\ v[to] \in Nat BY <1>4
<1>10. Total(u) = Total(v) - v[to] + (v[to] + amount) /\ Total(v) \in Int
  <2> DEFINE x == v[to] + amount
  <2>1. x \in Int BY <1>9
  <2> HIDE DEF x
  <2>2. Total([v EXCEPT ![to] = x]) = Total(v) - v[to] + x /\ Total(v) \in Int
    BY <1>5, <2>1, TotalExcept
  <2> QED BY <2>2 DEF x
<1>11. Move(w, from, to, amount) = u BY <1>3 DEF Move, v
<1>12. \A a \in A : u[a] >= v[a]
  <2> TAKE a \in A
  <2>1. v[a] \in Nat /\ v[to] \in Nat BY <1>4
  <2> QED BY <1>4, <2>1
<1> HIDE DEF u
<1>14. u[from] >= w[from] - amount
  <2>1. u[from] \in Nat BY <1>8
  <2> QED BY <1>1, <1>2, <1>4, <1>12, <2>1
<1>15. Total(u) >= Total(w) BY <1>1, <1>2, <1>6, <1>9, <1>10
<1>16. amount <= w[from] => Total(u) = Total(w) BY <1>1, <1>2, <1>6, <1>9, <1>10
<1> QED BY <1>8, <1>11, <1>14, <1>15, <1>16 DEF Kept

-----------------------------------------------------------------------------
(* applyLineageWeights().                                                  *)

(* One step of applyLineageWeights() for a hop e, and of its inner loop.   *)
ToSource(v, e, id, shift, es) ==
  IF Known(es, id) THEN Move(v, e.from, ById(es, id).from, shift) ELSE v
ToSources(w, e, es) ==
  IF w[e.from] <= 0 THEN w
  ELSE FoldLeft(LAMBDA v, id : ToSource(v, e, id, (w[e.from] * 35) \div 100, es), w, e.sources)

(* The hop byId has for a known id is one of them.                         *)
LEMMA ByIdThere ==
  ASSUME NEW W, NEW es \in Seq(W), NEW id, Known(es, id)
  PROVE  \E i \in 1..Len(es) : ById(es, id) = es[i] /\ es[i].id = id
<1> DEFINE S == {i \in 1..Len(es) : es[i].id = id}
<1>1. Len(es) \in Nat /\ DOMAIN es = 1..Len(es) OBVIOUS
<1>2. S \in SUBSET (1..Len(es)) /\ S # {} BY <1>1 DEF Known
<1>3. Max(S) \in S /\ \A j \in S : j <= Max(S)
  <2> HIDE DEF S
  <2>1. Max(S) \in S /\ \A j \in S : Max(S) >= j BY <1>1, <1>2, Highest
  <2>2. S \subseteq Int BY <1>2
  <2> QED BY <2>1, <2>2
<1>4. PICK m : m = Max(S) OBVIOUS
<1>5. m \in DOMAIN es /\ es[m].id = id /\ \A j \in DOMAIN es : es[j].id = id => j <= m
  BY <1>1, <1>3, <1>4
<1> DEFINE c == CHOOSE i \in DOMAIN es :
            es[i].id = id /\ \A j \in DOMAIN es : es[j].id = id => j <= i
<1>6. c \in DOMAIN es /\ es[c].id = id BY <1>5
<1>7. ById(es, id) = es[c] BY DEF ById
<1> HIDE DEF c
<1> QED BY <1>1, <1>6, <1>7

(* What is moved to a source comes from the hop's agent; the total is      *)
(* kept.                                                                   *)
LEMMA ToSourceType ==
  ASSUME NEW A, IsFiniteSet(A), NEW es \in Seq(Bearer(A)), NEW e \in Bearer(A), NEW shift \in Nat,
         NEW id, NEW v \in [A -> Nat]
  PROVE  Kept(ToSource(v, e, id, shift, es), v, A, e.from, shift)
<1>1. e.from \in A BY DEF Bearer
<1>2. CASE Known(es, id)
  <2>1. PICK i \in 1..Len(es) : ById(es, id) = es[i] BY <1>2, ByIdThere
  <2>2. es[i] \in Bearer(A) OBVIOUS
  <2>3. es[i].from \in A BY <2>2 DEF Bearer
  <2>4. PICK to \in A, from \in A : to = es[i].from /\ from = e.from BY <1>1, <2>3
  <2>5. ToSource(v, e, id, shift, es) = Move(v, from, to, shift) BY <1>2, <2>1, <2>4 DEF ToSource
  <2>6. Kept(Move(v, from, to, shift), v, A, from, shift) BY MoveKeeps
  <2> QED BY <2>4, <2>5, <2>6
<1>3. CASE ~Known(es, id)
  <2>1. ToSource(v, e, id, shift, es) = v BY <1>3 DEF ToSource
  <2>2. v[e.from] \in Nat /\ Total(v) \in Nat BY <1>1, TotalNat
  <2> QED BY <2>1, <2>2 DEF Kept
<1> QED BY <1>2, <1>3

(* The inner loop is a fold over the sources.                              *)
LEMMA ToSourcesAre ==
  ASSUME NEW A, IsFiniteSet(A), NEW es \in Seq(Bearer(A)), NEW e \in Bearer(A), NEW shift \in Nat,
         NEW n \in Nat, NEW ids \in [1..n -> Nat], NEW v \in [A -> Nat]
  PROVE  FoldsTo(FoldLeft(LAMBDA u, id : ToSource(u, e, id, shift, es), v, ids), n, [A -> Nat],
                 [p \in ([A -> Nat]) \X (Nat) |-> ToSource(p[1], e, p[2], shift, es)], v, ids)
<1> DEFINE s == ids
           V == [A -> Nat]
           E == Nat
           op == [p \in V \X E |-> ToSource(p[1], e, p[2], shift, es)]
           base == v
           F(it) == [T \in SUBSET (DOMAIN s) |->
                       IF T = {} THEN base ELSE ToSource(it[T \ {Max(T)}], e, s[Max(T)], shift, es)]
           iter == CHOOSE it : it = F(it)
<1>1. DOMAIN s = 1..n OBVIOUS
<1>2. FoldLeft(LAMBDA u, id : ToSource(u, e, id, shift, es), v, ids) = iter[DOMAIN s]
  BY DEF FoldLeft, MapThenFoldSet
<1>3. base \in V OBVIOUS
<1>4. op \in [V \X E -> V] BY ToSourceType DEF Kept
<1>5. \A u \in V, id \in E : op[<<u, id>>] = ToSource(u, e, id, shift, es) OBVIOUS
<1>6. \A i \in 1..n : s[i] \in E OBVIOUS
<1> HIDE DEF op, base, V, E, s
<1>7. \E it : it = F(it)
  <2>1. PICK g : Iteration(g, n, V, op, base, s) BY <1>3, <1>4, <1>6, FoldExists
  <2>2. ASSUME NEW T \in SUBSET (1..n), T # {}
        PROVE  g[T] = ToSource(g[T \ {Max(T)}], e, s[Max(T)], shift, es)
    <3>1. Max(T) \in T BY <2>2, Highest
    <3>2. g[T \ {Max(T)}] \in V /\ s[Max(T)] \in E BY <1>6, <2>1, <3>1 DEF Iteration
    <3> QED BY <1>5, <2>1, <2>2, <3>2 DEF Iteration, Iterates
  <2>3. g = F(g) BY <1>1, <2>1, <2>2 DEF Iteration, Iterates
  <2> HIDE DEF F
  <2> QED BY <2>3
<1>8. iter = F(iter) BY <1>7
<1> HIDE DEF iter
<1>9. Iterates(iter, n, V, op, base, s)
  <2>1. iter[{}] = base BY <1>8
  <2>2. ASSUME NEW T \in SUBSET (1..n), T # {}, iter[T \ {Max(T)}] \in V
        PROVE  iter[T] = op[<<iter[T \ {Max(T)}], s[Max(T)]>>]
    <3>1. Max(T) \in T BY <2>2, Highest
    <3>2. s[Max(T)] \in E BY <1>6, <3>1
    <3>3. iter[T] = ToSource(iter[T \ {Max(T)}], e, s[Max(T)], shift, es) BY <1>1, <1>8, <2>2
    <3> QED BY <1>5, <2>2, <3>2, <3>3
  <2> QED BY <2>1, <2>2 DEF Iterates
<1>10. FoldsTo(iter[1..n], n, V, op, base, s) BY <1>3, <1>4, <1>6, <1>9, Folded
<1> QED BY <1>1, <1>2, <1>10 DEF op, base, V, E, s

(* A hop's sources take nothing from the whole, and add to it only if      *)
(* there are three or more.                                                *)
LEMMA ToSourcesType ==
  ASSUME NEW A, IsFiniteSet(A), NEW es \in Seq(Bearer(A)), NEW e \in Bearer(A), NEW w \in [A -> Nat]
  PROVE  /\ ToSources(w, e, es) \in [A -> Nat]
         /\ Total(ToSources(w, e, es)) >= Total(w)
         /\ Len(e.sources) <= 2 => Total(ToSources(w, e, es)) = Total(w)
<1>1. e.from \in A /\ e.sources \in Seq(Nat) BY DEF Bearer
<1>2. w[e.from] \in Nat /\ Total(w) \in Nat BY <1>1, TotalNat
<1>3. CASE w[e.from] <= 0 BY <1>2, <1>3 DEF ToSources
<1>4. CASE ~(w[e.from] <= 0)
  <2> DEFINE shift == (w[e.from] * 35) \div 100
             n == Len(e.sources)
             V == [A -> Nat]
             op == [p \in V \X Nat |-> ToSource(p[1], e, p[2], shift, es)]
             r == FoldLeft(LAMBDA v, id : ToSource(v, e, id, shift, es), w, e.sources)
  <2>1. ToSources(w, e, es) = r BY <1>4 DEF ToSources
  <2>2. shift \in Nat /\ 2 * shift <= w[e.from] BY <1>2
  <2>3. n \in Nat BY <1>1
  <2> HIDE DEF shift
  <2>4. FoldsTo(r, n, V, op, w, e.sources)
    <3>1. e.sources \in [1..n -> Nat] BY <1>1
    <3> HIDE DEF n
    <3> QED BY <2>2, <2>3, <3>1, ToSourcesAre
  <2> HIDE DEF r
  <2>5. PICK h \in [0..n -> V] : /\ h[0] = w /\ h[n] = r
                                 /\ \A k \in 1..n : h[k] = op[<<h[k - 1], e.sources[k]>>]
    BY <2>4 DEF FoldsTo
  <2>6. \A k \in 1..n : /\ h[k - 1] \in V /\ h[k - 1] \in [A -> Nat]
                        /\ h[k] = ToSource(h[k - 1], e, e.sources[k], shift, es)
    <3> TAKE k \in 1..n
    <3>1. k - 1 \in 0..n /\ e.sources[k] \in Nat BY <1>1, <2>3
    <3>2. h[k - 1] \in V BY <3>1
    <3> QED BY <2>5, <3>1, <3>2
  <2> HIDE DEF op, n
  <2>7. \A k \in 1..n : /\ Total(h[k]) >= Total(h[k - 1]) /\ Total(h[k]) \in Nat /\ Total(h[k - 1]) \in Nat
                        /\ shift <= h[k - 1][e.from] => Total(h[k]) = Total(h[k - 1])
                        /\ h[k][e.from] >= h[k - 1][e.from] - shift
    <3> TAKE k \in 1..n
    <3> DEFINE v == h[k - 1]
               u == ToSource(v, e, e.sources[k], shift, es)
    <3>1. v \in [A -> Nat] /\ h[k] = u BY <2>6
    <3> HIDE DEF v
    <3>2. Kept(u, v, A, e.from, shift) BY <2>2, <3>1, ToSourceType
    <3> HIDE DEF u
    <3>3. Total(u) \in Nat /\ Total(v) \in Nat BY <3>1, <3>2, TotalNat DEF Kept
    <3> QED BY <3>1, <3>2, <3>3 DEF v, Kept
  <2>8. Total(r) >= Total(w)
    <3> DEFINE good == {k \in 0..n : Total(h[k]) >= Total(w)}
    <3>1. 0 \in good BY <1>2, <2>3, <2>5
    <3>2. \A k \in 0..(n - 1) : k \in good => k + 1 \in good
      <4> SUFFICES ASSUME NEW k \in 0..(n - 1), Total(h[k]) >= Total(w) PROVE k + 1 \in good OBVIOUS
      <4>1. k + 1 \in 1..n /\ (k + 1) - 1 = k /\ k + 1 \in 0..n BY <2>3
      <4>2. Total(h[k + 1]) >= Total(h[k]) /\ Total(h[k + 1]) \in Nat /\ Total(h[k]) \in Nat BY <2>7, <4>1
      <4> QED BY <1>2, <4>1, <4>2
    <3>3. 0..n \subseteq good
      <4> HIDE DEF good
      <4> QED BY <2>3, <3>1, <3>2, Counting
    <3>4. n \in 0..n BY <2>3
    <3> QED BY <2>5, <3>3, <3>4
  <2>9. ASSUME n <= 2 PROVE Total(r) = Total(w)
    <3>1. n \in {0, 1, 2} BY <2>3, <2>9
    <3>2. CASE n = 0 BY <2>5, <3>2
    <3>3. n >= 1 => Total(h[1]) = Total(w) /\ h[1][e.from] >= w[e.from] - shift
      <4> HAVE n >= 1
      <4>1. 1 \in 1..n /\ 1 - 1 = 0 BY <2>3
      <4>2. shift <= w[e.from] BY <1>2, <2>2
      <4> QED BY <2>5, <2>7, <4>1, <4>2
    <3>4. CASE n = 1 BY <2>5, <3>3, <3>4
    <3>5. CASE n = 2
      <4>1. 2 \in 1..n /\ 2 - 1 = 1 /\ 1 \in 0..n BY <3>5
      <4>2. h[1] \in [A -> Nat] BY <2>6, <4>1
      <4>3. h[1][e.from] \in Nat BY <1>1, <4>2
      <4>4. shift <= h[1][e.from] BY <1>2, <2>2, <3>3, <3>5, <4>3
      <4> QED BY <2>5, <2>7, <3>3, <3>5, <4>1, <4>4
    <3> QED BY <3>1, <3>2, <3>4, <3>5
  <2>10. r \in [A -> Nat]
    <3>1. n \in 0..n BY <2>3
    <3> QED BY <2>5, <3>1
  <2> QED BY <2>1, <2>8, <2>9, <2>10 DEF n
<1> QED BY <1>3, <1>4

-----------------------------------------------------------------------------
(* Parallel hops.                                                          *)

(* Division, as Math.round() and the pairs of hops need it.                *)
LEMMA Division ==
  ASSUME NEW m \in Int, NEW d \in Nat, d > 0
  PROVE  /\ m \div d \in Int /\ d * (m \div d) <= m /\ m < d * (m \div d) + d
         /\ m % d \in 0..(d - 1)
OBVIOUS

(* A common factor does not decide which product is the lower one.         *)
LEMMA Products ==
  ASSUME NEW a \in Int, NEW b \in Int, NEW d \in Nat, d > 0, d * a < d * b
  PROVE  a < b
OBVIOUS

(* How often a sum grew over the steps of a fold: a chain of totals.       *)
LEMMA Chained ==
  ASSUME NEW n \in Nat, NEW t, \A k \in 0..n : t[k] \in Nat, \A k \in 1..n : t[k] >= t[k - 1]
  PROVE  /\ t[n] >= t[0] /\ \A k \in 0..n : t[n] >= t[k]
         /\ (\A k \in 1..n : t[k] = t[k - 1]) => t[n] = t[0]
<1>1. \A k \in 0..(n - 1) : k + 1 \in 1..n /\ (k + 1) - 1 = k /\ k + 1 \in 0..n /\ k \in 0..n
  OBVIOUS
<1>2. \A j \in 0..n : t[n] >= t[j]
  <2> TAKE j \in 0..n
  <2> DEFINE good == {k \in 0..n : k >= j => t[k] >= t[j]}
  <2>1. 0 \in good OBVIOUS
  <2>2. \A k \in 0..(n - 1) : k \in good => k + 1 \in good
    <3> TAKE k \in 0..(n - 1)
    <3>1. t[k + 1] >= t[k] /\ t[k + 1] \in Nat /\ t[k] \in Nat /\ t[j] \in Nat BY <1>1
    <3> QED BY <1>1, <3>1
  <2>3. 0..n \subseteq good
    <3> HIDE DEF good
    <3> QED BY <2>1, <2>2, Counting
  <2> QED BY <2>3
<1>3. ASSUME \A k \in 1..n : t[k] = t[k - 1] PROVE t[n] = t[0]
  <2> DEFINE good == {k \in 0..n : t[k] = t[0]}
  <2>1. 0 \in good OBVIOUS
  <2>2. \A k \in 0..(n - 1) : k \in good => k + 1 \in good BY <1>1, <1>3
  <2>3. 0..n \subseteq good
    <3> HIDE DEF good
    <3> QED BY <2>1, <2>2, Counting
  <2> QED BY <2>3
<1> QED BY <1>2, <1>3

(* applyLineageWeights() is a fold over the hops.                          *)
LEMMA LineageIs ==
  ASSUME NEW A, IsFiniteSet(A), NEW es \in Seq(Bearer(A)), NEW n \in Nat, n = Len(es),
         NEW w0 \in [A -> Nat]
  PROVE  FoldsTo(LineageShift(es, w0), n, [A -> Nat],
                 [p \in ([A -> Nat]) \X (Bearer(A)) |-> ToSources(p[1], p[2], es)], w0, es)
<1> DEFINE s == es
           V == [A -> Nat]
           E == Bearer(A)
           op == [p \in V \X E |-> ToSources(p[1], p[2], es)]
           base == w0
           F(it) == [T \in SUBSET (DOMAIN s) |->
                       IF T = {} THEN base ELSE ToSources(it[T \ {Max(T)}], s[Max(T)], es)]
           iter == CHOOSE it : it = F(it)
<1>1. DOMAIN s = 1..n OBVIOUS
<1>2. LineageShift(es, w0) = iter[DOMAIN s]
  BY DEF LineageShift, FoldLeft, MapThenFoldSet, ToSources, ToSource
<1>3. base \in V OBVIOUS
<1>4. op \in [V \X E -> V] BY ToSourcesType
<1>5. \A w \in V, e \in E : op[<<w, e>>] = ToSources(w, e, es) OBVIOUS
<1>6. \A i \in 1..n : s[i] \in E OBVIOUS
<1> HIDE DEF op, base, V, E, s
<1>7. \E it : it = F(it)
  <2>1. PICK g : Iteration(g, n, V, op, base, s) BY <1>3, <1>4, <1>6, FoldExists
  <2>2. ASSUME NEW T \in SUBSET (1..n), T # {}
        PROVE  g[T] = ToSources(g[T \ {Max(T)}], s[Max(T)], es)
    <3>1. Max(T) \in T BY <2>2, Highest
    <3>2. g[T \ {Max(T)}] \in V /\ s[Max(T)] \in E BY <1>6, <2>1, <3>1 DEF Iteration
    <3> QED BY <1>5, <2>1, <2>2, <3>2 DEF Iteration, Iterates
  <2>3. g = F(g) BY <1>1, <2>1, <2>2 DEF Iteration, Iterates
  <2> HIDE DEF F
  <2> QED BY <2>3
<1>8. iter = F(iter) BY <1>7
<1> HIDE DEF iter
<1>9. Iterates(iter, n, V, op, base, s)
  <2>1. iter[{}] = base BY <1>8
  <2>2. ASSUME NEW T \in SUBSET (1..n), T # {}, iter[T \ {Max(T)}] \in V
        PROVE  iter[T] = op[<<iter[T \ {Max(T)}], s[Max(T)]>>]
    <3>1. Max(T) \in T BY <2>2, Highest
    <3>2. s[Max(T)] \in E BY <1>6, <3>1
    <3>3. iter[T] = ToSources(iter[T \ {Max(T)}], s[Max(T)], es) BY <1>1, <1>8, <2>2
    <3> QED BY <1>5, <2>2, <3>2, <3>3
  <2> QED BY <2>1, <2>2 DEF Iterates
<1>10. FoldsTo(iter[1..n], n, V, op, base, s) BY <1>3, <1>4, <1>6, <1>9, Folded
<1> QED BY <1>1, <1>2, <1>10 DEF op, base, V, E, s

(* It keeps the whole, but for hops with three sources or more.            *)
LEMMA LineageKeeps ==
  ASSUME NEW A, IsFiniteSet(A), NEW es \in Seq(Bearer(A)), NEW w \in [A -> Nat]
  PROVE  /\ LineageShift(es, w) \in [A -> Nat]
         /\ Total(LineageShift(es, w)) >= Total(w)
         /\ (\A i \in 1..Len(es) : Len(es[i].sources) <= 2)
              => Total(LineageShift(es, w)) = Total(w)
<1> DEFINE n == Len(es)
           V == [A -> Nat]
           op == [p \in V \X Bearer(A) |-> ToSources(p[1], p[2], es)]
           r == LineageShift(es, w)
<1>1. n \in Nat OBVIOUS
<1>2. FoldsTo(r, n, V, op, w, es)
  <2> HIDE DEF n
  <2> QED BY <1>1, LineageIs DEF n
<1> HIDE DEF r
<1>3. PICK h \in [0..n -> V] : /\ h[0] = w /\ h[n] = r
                               /\ \A k \in 1..n : h[k] = op[<<h[k - 1], es[k]>>]
  BY <1>2 DEF FoldsTo
<1>4. \A k \in 1..n : h[k - 1] \in V /\ es[k] \in Bearer(A) /\ h[k] = ToSources(h[k - 1], es[k], es)
  <2> TAKE k \in 1..n
  <2>1. k - 1 \in 0..n /\ es[k] \in Bearer(A) BY <1>1
  <2>2. h[k - 1] \in V BY <2>1
  <2> QED BY <1>3, <2>1, <2>2
<1> DEFINE t == [k \in 0..n |-> Total(h[k])]
<1>5. \A k \in 0..n : t[k] \in Nat
  <2> TAKE k \in 0..n
  <2>1. h[k] \in [A -> Nat] OBVIOUS
  <2> QED BY <2>1, TotalNat
<1>6. \A k \in 1..n : t[k] >= t[k - 1] /\ (Len(es[k].sources) <= 2 => t[k] = t[k - 1])
  <2> TAKE k \in 1..n
  <2>1. PICK v \in [A -> Nat], e \in Bearer(A) : v = h[k - 1] /\ e = es[k] BY <1>4
  <2>2. h[k] = ToSources(v, e, es) BY <1>4, <2>1
  <2>3. /\ Total(ToSources(v, e, es)) >= Total(v)
        /\ Len(e.sources) <= 2 => Total(ToSources(v, e, es)) = Total(v)
    BY ToSourcesType
  <2>4. k - 1 \in 0..n /\ k \in 0..n BY <1>1
  <2> QED BY <2>1, <2>2, <2>3, <2>4
<1>7. t[0] = Total(w) /\ t[n] = Total(r) BY <1>1, <1>3
<1>8. r \in [A -> Nat] BY <1>1, <1>3
<1> HIDE DEF n, t, op
<1>9. t[n] >= t[0] /\ ((\A k \in 1..n : t[k] = t[k - 1]) => t[n] = t[0])
  BY <1>1, <1>5, <1>6, Chained
<1>10. (\A k \in 1..n : Len(es[k].sources) <= 2) => t[n] = t[0] BY <1>6, <1>9
<1> QED BY <1>7, <1>8, <1>9, <1>10 DEF r, n

(* One step of applyParallelPropagation(), for a pair of hops.             *)
ToSibling(w, p, es) ==
  LET target == es[p[1]]
      sibling == es[p[2]]
  IN IF /\ sibling.hop = target.hop /\ sibling.id # target.id
        /\ BadInput(target.input) /\ IntroducedBad(sibling)
        /\ sibling.to # target.to
     THEN Move(w, target.to, sibling.to, (w[target.to] * 25) \div 100)
     ELSE w

(* What is moved between parallel hops keeps the total.                    *)
LEMMA ToSiblingType ==
  ASSUME NEW A, IsFiniteSet(A), NEW es \in Seq(Bearer(A)), NEW n \in Nat, n = Len(es),
         NEW p \in (1..n) \X (1..n), NEW w \in [A -> Nat]
  PROVE  ToSibling(w, p, es) \in [A -> Nat] /\ Total(ToSibling(w, p, es)) = Total(w)
<1>1. es[p[1]] \in Bearer(A) /\ es[p[2]] \in Bearer(A) OBVIOUS
<1>2. PICK from \in A, to \in A : from = es[p[1]].to /\ to = es[p[2]].to BY <1>1 DEF Bearer
<1> DEFINE amount == (w[from] * 25) \div 100
<1>3. w[from] \in Nat OBVIOUS
<1>4. amount \in Nat /\ amount <= w[from] BY <1>3
<1>5. ToSibling(w, p, es) \in {w, Move(w, from, to, amount)} BY <1>2 DEF ToSibling
<1> HIDE DEF amount
<1>6. Kept(Move(w, from, to, amount), w, A, from, amount) BY <1>4, MoveKeeps
<1> QED BY <1>4, <1>5, <1>6 DEF Kept

(* The pairs are pairs of hops.                                            *)
LEMMA PairsAre ==
  ASSUME NEW n \in Nat, NEW k \in 1..(n * n)
  PROVE  <<1 + (k - 1) \div n, 1 + ((k - 1) % n)>> \in (1..n) \X (1..n)
<1>1. n * n \in Nat OBVIOUS
<1>2. n > 0
  <2> SUFFICES ASSUME n = 0 PROVE FALSE OBVIOUS
  <2>1. n * n = 0 OBVIOUS
  <2> QED BY <2>1
<1> DEFINE q == (k - 1) \div n
           r == (k - 1) % n
<1>3. k - 1 \in Int /\ k - 1 >= 0 /\ k - 1 < n * n BY <1>1
<1>4. q \in Int /\ n * q <= k - 1 /\ k - 1 < n * q + n /\ r \in 0..(n - 1) BY <1>2, <1>3, Division
<1> HIDE DEF q, r
<1>5. n * q < n * n BY <1>3, <1>4
<1>6. q < n BY <1>2, <1>4, <1>5, Products
<1>7. n * q + n = n * (q + 1) /\ n * 0 = 0 BY <1>4
<1>8. n * 0 < n * (q + 1) BY <1>3, <1>4, <1>7
<1>9. 0 < q + 1
  <2>1. q + 1 \in Int BY <1>4
  <2> QED BY <1>2, <1>8, <2>1, Products
<1>10. 1 + q \in 1..n /\ 1 + r \in 1..n BY <1>4, <1>6, <1>9
<1> QED BY <1>10 DEF q, r

(* applyParallelPropagation() is a fold over the pairs.                    *)
LEMMA ParallelIs ==
  ASSUME NEW A, IsFiniteSet(A), NEW es \in Seq(Bearer(A)), NEW n \in Nat, n = Len(es),
         NEW m \in Nat, m = n * n, NEW w0 \in [A -> Nat]
  PROVE  FoldsTo(ParallelShift(es, w0), m, [A -> Nat],
                 [p \in ([A -> Nat]) \X ((1..n) \X (1..n)) |-> ToSibling(p[1], p[2], es)], w0,
                 [k \in 1..(Len(es) * Len(es)) |-> <<1 + (k - 1) \div Len(es), 1 + ((k - 1) % Len(es))>>])
<1> DEFINE s == [k \in 1..(Len(es) * Len(es)) |-> <<1 + (k - 1) \div Len(es), 1 + ((k - 1) % Len(es))>>]
           V == [A -> Nat]
           E == (1..n) \X (1..n)
           op == [p \in V \X E |-> ToSibling(p[1], p[2], es)]
           base == w0
           F(it) == [T \in SUBSET (DOMAIN s) |->
                       IF T = {} THEN base ELSE ToSibling(it[T \ {Max(T)}], s[Max(T)], es)]
           iter == CHOOSE it : it = F(it)
<1>1. DOMAIN s = 1..m OBVIOUS
<1>2. ParallelShift(es, w0) = iter[DOMAIN s]
  BY DEF ParallelShift, FoldLeft, MapThenFoldSet, ToSibling
<1>3. base \in V OBVIOUS
<1>4. op \in [V \X E -> V] BY ToSiblingType
<1>5. \A w \in V, p \in E : op[<<w, p>>] = ToSibling(w, p, es) OBVIOUS
<1>6. \A i \in 1..m : s[i] \in E BY PairsAre
<1> HIDE DEF op, base, V, E, s
<1>7. \E it : it = F(it)
  <2>1. PICK g : Iteration(g, m, V, op, base, s) BY <1>3, <1>4, <1>6, FoldExists
  <2>2. ASSUME NEW T \in SUBSET (1..m), T # {}
        PROVE  g[T] = ToSibling(g[T \ {Max(T)}], s[Max(T)], es)
    <3>1. Max(T) \in T BY <2>2, Highest
    <3>2. g[T \ {Max(T)}] \in V /\ s[Max(T)] \in E BY <1>6, <2>1, <3>1 DEF Iteration
    <3> QED BY <1>5, <2>1, <2>2, <3>2 DEF Iteration, Iterates
  <2>3. g = F(g) BY <1>1, <2>1, <2>2 DEF Iteration, Iterates
  <2> HIDE DEF F
  <2> QED BY <2>3
<1>8. iter = F(iter) BY <1>7
<1> HIDE DEF iter
<1>9. Iterates(iter, m, V, op, base, s)
  <2>1. iter[{}] = base BY <1>8
  <2>2. ASSUME NEW T \in SUBSET (1..m), T # {}, iter[T \ {Max(T)}] \in V
        PROVE  iter[T] = op[<<iter[T \ {Max(T)}], s[Max(T)]>>]
    <3>1. Max(T) \in T BY <2>2, Highest
    <3>2. s[Max(T)] \in E BY <1>6, <3>1
    <3>3. iter[T] = ToSibling(iter[T \ {Max(T)}], s[Max(T)], es) BY <1>1, <1>8, <2>2
    <3> QED BY <1>5, <2>2, <3>2, <3>3
  <2> QED BY <2>1, <2>2 DEF Iterates
<1>10. FoldsTo(iter[1..m], m, V, op, base, s) BY <1>3, <1>4, <1>6, <1>9, Folded
<1> QED BY <1>1, <1>2, <1>10 DEF op, base, V, E, s

(* It keeps the whole.                                                     *)
LEMMA ParallelKeeps ==
  ASSUME NEW A, IsFiniteSet(A), NEW es \in Seq(Bearer(A)), NEW w \in [A -> Nat]
  PROVE  ParallelShift(es, w) \in [A -> Nat] /\ Total(ParallelShift(es, w)) = Total(w)
<1>1. PICK n \in Nat : n = Len(es) OBVIOUS
<1>2. PICK m \in Nat : m = n * n OBVIOUS
<1> DEFINE V == [A -> Nat]
           P == (1..n) \X (1..n)
           op == [p \in V \X P |-> ToSibling(p[1], p[2], es)]
           r == ParallelShift(es, w)
           s == [k \in 1..(Len(es) * Len(es)) |->
                   <<1 + (k - 1) \div Len(es), 1 + ((k - 1) % Len(es))>>]
<1>3. FoldsTo(r, m, V, op, w, s) BY <1>1, <1>2, ParallelIs
<1>4. \A k \in 1..m : s[k] \in P BY <1>1, <1>2, PairsAre
<1> HIDE DEF r, s
<1>5. PICK h \in [0..m -> V] : /\ h[0] = w /\ h[m] = r
                               /\ \A k \in 1..m : h[k] = op[<<h[k - 1], s[k]>>]
  BY <1>3 DEF FoldsTo
<1>6. \A k \in 1..m : h[k - 1] \in V /\ h[k] = ToSibling(h[k - 1], s[k], es)
  <2> TAKE k \in 1..m
  <2>1. k - 1 \in 0..m /\ s[k] \in P BY <1>4
  <2>2. h[k - 1] \in V BY <2>1
  <2> HIDE DEF P
  <2> QED BY <1>5, <2>1, <2>2
<1> DEFINE t == [k \in 0..m |-> Total(h[k])]
<1>7. \A k \in 0..m : t[k] \in Nat
  <2> TAKE k \in 0..m
  <2>1. h[k] \in [A -> Nat] OBVIOUS
  <2> QED BY <2>1, TotalNat
<1>8. \A k \in 1..m : t[k] = t[k - 1]
  <2> TAKE k \in 1..m
  <2>1. PICK v \in [A -> Nat], p \in P : v = h[k - 1] /\ p = s[k] BY <1>4, <1>6
  <2>2. h[k] = ToSibling(v, p, es) BY <1>6, <2>1
  <2>3. Total(ToSibling(v, p, es)) = Total(v) BY <1>1, <2>1, ToSiblingType
  <2>4. k - 1 \in 0..m /\ k \in 0..m OBVIOUS
  <2> QED BY <2>1, <2>2, <2>3, <2>4
<1>9. t[0] = Total(w) /\ t[m] = Total(r) BY <1>5
<1>10. r \in [A -> Nat] BY <1>5
<1> HIDE DEF t, op
<1>11. \A k \in 1..m : t[k] >= t[k - 1]
  <2> TAKE k \in 1..m
  <2>1. t[k] = t[k - 1] /\ k \in 0..m BY <1>8
  <2>2. t[k] \in Nat BY <1>7, <2>1
  <2> QED BY <2>1, <2>2
<1>12. t[m] = t[0] BY <1>7, <1>8, <1>11, Chained
<1> QED BY <1>9, <1>10, <1>12 DEF r

-----------------------------------------------------------------------------
(* The weights of a run.                                                   *)

(* A hop's weight is in the sum of the weights from then on.               *)
LEMMA WeighedTotal ==
  ASSUME NEW A, IsFiniteSet(A), NEW e \in Bearer(A), NEW failed \in BOOLEAN, NEW w \in [A -> Nat]
  PROVE  /\ Total(Weighed(w, e, failed)) >= Total(w) + HopWeight(e, failed)
         /\ Total(Weighed(w, e, failed)) \in Nat /\ Total(w) \in Nat
<1>1. PICK hop \in Nat : hop = HopWeight(e, failed) BY WeightNat
<1>2. PICK from \in A, to \in A : from = e.from /\ to = e.to BY DEF Bearer
<1> DEFINE x == w[to] + hop
           r == [w EXCEPT ![to] = x]
           y == r[from] + (hop * 15) \div 100
           u == [r EXCEPT ![from] = y]
<1>3. x \in Nat /\ w[to] \in Nat OBVIOUS
<1> HIDE DEF x
<1>4. r \in [A -> Nat] BY <1>3
<1>5. Total(r) = Total(w) - w[to] + x /\ Total(w) \in Int
  <2>1. w \in [A -> Int] /\ x \in Int BY <1>3
  <2> QED BY <2>1, TotalExcept
<1>6. Total(r) = Total(w) + hop BY <1>3, <1>5 DEF x
<1> HIDE DEF r
<1>7. y \in Nat /\ y >= r[from] /\ r[from] \in Nat
  <2>1. (hop * 15) \div 100 \in Nat /\ r[from] \in Nat BY <1>4
  <2> QED BY <2>1
<1> HIDE DEF y
<1>8. Total(u) = Total(r) - r[from] + y /\ Total(r) \in Int
  <2>1. r \in [A -> Int] /\ y \in Int BY <1>4, <1>7
  <2> QED BY <2>1, TotalExcept
<1>9. Total(u) >= Total(r) BY <1>7, <1>8
<1>10. u \in [A -> Nat] BY <1>4, <1>7
<1> HIDE DEF u
<1>11. Total(u) \in Nat /\ Total(r) \in Nat /\ Total(w) \in Nat BY <1>4, <1>10, TotalNat
<1>12. Weighed(w, e, failed) = IF from = to THEN r ELSE u BY <1>1, <1>2 DEF Weighed, u, r, x, y
<1> QED BY <1>1, <1>6, <1>9, <1>11, <1>12

(* A hop with influence has weight.                                        *)
LEMMA WeightPositive ==
  ASSUME NEW A, NEW e \in Bearer(A), NEW failed \in BOOLEAN, e.infl > 0
  PROVE  HopWeight(e, failed) > 0
<1>1. /\ e.infl \in Nat /\ e.delta \in Int /\ e.cin \in Int /\ e.cout \in Int BY DEF Bearer
<1>2. Harm(e) \in Nat /\ Drop(e) \in Nat /\ Inflation(e) \in Nat
  BY <1>1 DEF Harm, Drop, Inflation, AtLeast
<1>3. Boost(e) \in Nat BY DEF Boost
<1> DEFINE f == IF failed THEN 3 * Harm(e) + 2 * Drop(e) + 2 * Inflation(e) + Boost(e) + 5
                        ELSE 50
<1>4. f \in Nat /\ f > 0 BY <1>2, <1>3
<1> HIDE DEF f
<1>5. e.infl * f > 0 BY <1>1, <1>4
<1> QED BY <1>5 DEF f, HopWeight

(* A run has finitely many agents, and its hops are theirs.                *)
LEMMA AgentsFinite ==
  ASSUME NEW W, NEW es \in Seq(W)
  PROVE  IsFiniteSet(AgentsOf(es))
<1> DEFINE n == Len(es)
           pairs == {{es[i].from, es[i].to} : i \in 1..n}
           f == [i \in 1..n |-> {es[i].from, es[i].to}]
<1>1. n \in Nat /\ DOMAIN es = 1..n OBVIOUS
<1>2. AgentsOf(es) = UNION pairs BY <1>1 DEF AgentsOf
<1>3. f \in Surjection(1..n, pairs) BY DEF Surjection
<1> HIDE DEF f
<1>4. IsFiniteSet(1..n) BY <1>1, SizeUpTo
<1>5. \A T \in pairs : IsFiniteSet(T)
  <2> TAKE T \in pairs
  <2>1. PICK a, b : T = {a, b} OBVIOUS
  <2>2. IsFiniteSet({a}) /\ {a} \cup {b} = {a, b} BY FS_Singleton
  <2>3. IsFiniteSet({a} \cup {b}) BY <2>2, FS_AddElement
  <2> QED BY <2>1, <2>2, <2>3
<1> HIDE DEF pairs, n
<1>6. IsFiniteSet(pairs) BY <1>3, <1>4, FS_Surjection
<1> QED BY <1>2, <1>5, <1>6, FS_UNION

(* The hops by index are those there are.                                  *)
LEMMA ByHopMembers ==
  ASSUME NEW A, NEW es \in Seq(Bearer(A))
  PROVE  /\ ByHop(es) \in Seq(Bearer(A)) /\ Len(ByHop(es)) = Len(es)
         /\ DOMAIN ByHop(es) = 1..Len(es)
         /\ ByHop(es) \in [1..Len(es) -> Bearer(A)]
         /\ \A i \in 1..Len(es) : \E k \in 1..Len(es) : ByHop(es)[k] = es[i]
         /\ \A k \in 1..Len(es) : \E i \in 1..Len(es) : ByHop(es)[k] = es[i]
<1>1. \A i \in 1..Len(es) : es[i] \in Bearer(A) OBVIOUS
<1>2. Hopped(es)
  <2> SUFFICES ASSUME NEW i \in 1..Len(es) PROVE es[i].hop \in Int BY DEF Hopped
  <2>1. es[i].hop \in Nat BY <1>1 DEF Bearer
  <2> QED BY <2>1
<1>3. PICK p : HopOrder(p, es) BY <1>2, SortedByHop
<1>4. PICK n \in Nat : n = Len(es) OBVIOUS
<1>5. /\ p \in [1..n -> 1..n] /\ ByHop(es) = [k \in 1..n |-> es[p[k]]]
      /\ \A i \in 1..n : \E k \in 1..n : p[k] = i
  BY <1>3, <1>4 DEF HopOrder
<1>7. \A k \in 1..n : p[k] \in 1..n /\ ByHop(es)[k] = es[p[k]] BY <1>5
<1>8. ByHop(es) \in [1..n -> Bearer(A)]
  <2>1. \A k \in 1..n : es[p[k]] \in Bearer(A) BY <1>1, <1>4, <1>7
  <2> QED BY <1>5, <2>1
<1>9. \A i \in 1..n : \E k \in 1..n : ByHop(es)[k] = es[i]
  <2> TAKE i \in 1..n
  <2>1. PICK k \in 1..n : p[k] = i BY <1>5
  <2>2. ByHop(es)[k] = es[p[k]] BY <1>7
  <2> QED BY <2>1, <2>2
<1>6. ByHop(es) \in Seq(Bearer(A)) /\ Len(ByHop(es)) = n BY <1>8
<1>10. DOMAIN ByHop(es) = 1..n BY <1>8
<1> QED BY <1>4, <1>6, <1>7, <1>8, <1>9, <1>10

(* The weights of the hops, and something if any hop had influence.        *)
LEMMA WeightsKeep ==
  ASSUME NEW A, NEW es \in Seq(Bearer(A)), A = AgentsOf(es), NEW failed \in BOOLEAN
  PROVE  /\ BlameWeights(es, failed) \in [A -> Nat]
         /\ (\E i \in 1..Len(es) : es[i].infl > 0) => Total(BlameWeights(es, failed)) > 0
<1> DEFINE V == [A -> Nat]
           op == [p \in V \X Bearer(A) |-> Weighed(p[1], p[2], failed)]
           base == [a \in A |-> 0]
           s == ByHop(es)
           r == BlameWeights(es, failed)
<1>1. PICK n \in Nat : n = Len(es) OBVIOUS
<1>2. s \in [1..n -> Bearer(A)] BY <1>1, ByHopMembers
<1>3. FoldsTo(r, n, V, op, base, s) BY <1>2, BlameWeightsAre
<1>4. IsFiniteSet(A) BY AgentsFinite
<1>5. \A i \in 1..n : \E k \in 1..n : s[k] = es[i] BY <1>1, ByHopMembers
<1> HIDE DEF r, s
<1>6. PICK h \in [0..n -> V] : /\ h[0] = base /\ h[n] = r
                               /\ \A k \in 1..n : h[k] = op[<<h[k - 1], s[k]>>]
  BY <1>3 DEF FoldsTo
<1>7. \A k \in 1..n : h[k - 1] \in V /\ s[k] \in Bearer(A) /\ h[k] = Weighed(h[k - 1], s[k], failed)
  <2> TAKE k \in 1..n
  <2>1. k - 1 \in 0..n /\ s[k] \in Bearer(A) BY <1>2
  <2>2. h[k - 1] \in V BY <2>1
  <2> QED BY <1>6, <2>1, <2>2
<1> DEFINE t == [k \in 0..n |-> Total(h[k])]
<1>8. \A k \in 0..n : t[k] \in Nat
  <2> TAKE k \in 0..n
  <2>1. h[k] \in [A -> Nat] OBVIOUS
  <2> QED BY <1>4, <2>1, TotalNat
<1>9. \A k \in 1..n : t[k] >= t[k - 1] + HopWeight(s[k], failed)
  <2> TAKE k \in 1..n
  <2>1. PICK v \in [A -> Nat], e \in Bearer(A) : v = h[k - 1] /\ e = s[k] BY <1>7
  <2>2. h[k] = Weighed(v, e, failed) BY <1>7, <2>1
  <2>3. Total(Weighed(v, e, failed)) >= Total(v) + HopWeight(e, failed) BY <1>4, WeighedTotal
  <2>4. k - 1 \in 0..n /\ k \in 0..n OBVIOUS
  <2> QED BY <2>1, <2>2, <2>3, <2>4
<1>10. r \in [A -> Nat] BY <1>6
<1>11. t[n] = Total(r) BY <1>6
<1> HIDE DEF t, op, base
<1>12. \A k \in 1..n : HopWeight(s[k], failed) \in Nat BY <1>7, WeightNat
<1>13. \A k \in 1..n : t[k] >= t[k - 1]
  <2> TAKE k \in 1..n
  <2>1. k - 1 \in 0..n /\ k \in 0..n OBVIOUS
  <2>2. t[k] \in Nat /\ t[k - 1] \in Nat /\ HopWeight(s[k], failed) \in Nat BY <1>8, <1>12, <2>1
  <2> QED BY <1>9, <2>2
<1>14. \A k \in 0..n : t[n] >= t[k] BY <1>8, <1>13, Chained
<1>15. ASSUME NEW i \in 1..n, es[i].infl > 0 PROVE t[n] > 0
  <2>1. PICK k \in 1..n : s[k] = es[i] BY <1>5
  <2>2. HopWeight(s[k], failed) > 0 BY <1>7, <1>15, <2>1, WeightPositive
  <2>3. k - 1 \in 0..n /\ k \in 0..n /\ n \in 0..n OBVIOUS
  <2>4. t[k] \in Nat /\ t[k - 1] \in Nat /\ t[n] \in Nat /\ HopWeight(s[k], failed) \in Nat
    BY <1>8, <1>12, <2>3
  <2> QED BY <1>9, <1>14, <2>2, <2>3, <2>4
<1> QED BY <1>1, <1>10, <1>11, <1>15 DEF r

(* And so those a report is made of.                                       *)
LEMMA FinalKeeps ==
  ASSUME NEW A, NEW es \in Seq(Bearer(A)), A = AgentsOf(es), NEW failed \in BOOLEAN
  PROVE  /\ FinalWeights(es, failed) \in [A -> Nat]
         /\ (\E i \in 1..Len(es) : es[i].infl > 0) => Total(FinalWeights(es, failed)) > 0
<1>2. IsFiniteSet(A) BY AgentsFinite
<1>3. PICK base \in [A -> Nat] : base = BlameWeights(es, failed) BY WeightsKeep
<1>4. (\E i \in 1..Len(es) : es[i].infl > 0) => Total(base) > 0 BY <1>3, WeightsKeep
<1>5. PICK shifted \in [A -> Nat] : shifted = LineageShift(es, base) /\ Total(shifted) >= Total(base)
  BY <1>2, LineageKeeps
<1>6. PICK last \in [A -> Nat] : last = ParallelShift(es, shifted) /\ Total(last) = Total(shifted)
  BY <1>2, ParallelKeeps
<1>7. Total(base) \in Nat /\ Total(shifted) \in Nat BY <1>2, TotalNat
<1>8. FinalWeights(es, failed) \in {base, shifted, last} BY <1>3, <1>5, <1>6 DEF FinalWeights
<1>9. Total(base) > 0 => Total(shifted) > 0 /\ Total(last) > 0 BY <1>5, <1>6, <1>7
<1>10. FinalWeights(es, failed) \in [A -> Nat] BY <1>8
<1>11. Total(base) > 0 => Total(FinalWeights(es, failed)) > 0 BY <1>8, <1>9
<1> QED BY <1>4, <1>10, <1>11

-----------------------------------------------------------------------------
(* The agents of a run.                                                    *)

(* Lists that name nobody twice, and the step of orderedAgents().          *)
Distinct(A) == {l \in Seq(A) : \A i, j \in 1..Len(l) : l[i] = l[j] => i = j}
Names(l) == {l[i] : i \in DOMAIN l}
AddAgent(list, a) == IF a \in {list[i] : i \in DOMAIN list} THEN list ELSE Append(list, a)

(* An agent is added to the list of agents once.                           *)
LEMMA AddAgentType ==
  ASSUME NEW A, NEW l \in Distinct(A), NEW a \in A
  PROVE  AddAgent(l, a) \in Distinct(A) /\ Names(AddAgent(l, a)) = Names(l) \cup {a}
<1>1. l \in Seq(A) /\ \A i, j \in 1..Len(l) : l[i] = l[j] => i = j BY DEF Distinct
<1>2. PICK n \in Nat : n = Len(l) /\ DOMAIN l = 1..n BY <1>1
<1>3. CASE a \in Names(l)
  <2>1. AddAgent(l, a) = l BY <1>3 DEF AddAgent, Names
  <2> QED BY <1>3, <2>1
<1>4. CASE a \notin Names(l)
  <2> DEFINE m == Append(l, a)
  <2>1. AddAgent(l, a) = m BY <1>4 DEF AddAgent, Names
  <2>2. /\ m \in Seq(A) /\ Len(m) = n + 1 /\ DOMAIN m = 1..(n + 1) /\ m[n + 1] = a
        /\ \A i \in 1..n : m[i] = l[i]
    BY <1>1, <1>2
  <2> HIDE DEF m
  <2>3. \A i \in 1..n : l[i] # a BY <1>2, <1>4 DEF Names
  <2>4. \A i \in 1..(n + 1) : i \in 1..n \/ i = n + 1 OBVIOUS
  <2>5. ASSUME NEW i \in 1..(n + 1), NEW j \in 1..(n + 1), m[i] = m[j] PROVE i = j
    BY <1>1, <1>2, <2>2, <2>3, <2>4, <2>5
  <2>6. m \in Distinct(A) BY <2>2, <2>5 DEF Distinct
  <2>7. Names(m) = Names(l) \cup {a}
    <3>1. \A x \in Names(m) : x \in Names(l) \/ x = a BY <1>2, <2>2, <2>4 DEF Names
    <3>2. \A x \in Names(l) : x \in Names(m)
      <4> TAKE x \in Names(l)
      <4>1. PICK i \in 1..n : x = l[i] BY <1>2 DEF Names
      <4>2. i \in 1..(n + 1) /\ m[i] = x BY <2>2, <4>1
      <4> QED BY <2>2, <4>2 DEF Names
    <3>3. a \in Names(m)
      <4>1. n + 1 \in 1..(n + 1) OBVIOUS
      <4> QED BY <2>2, <4>1 DEF Names
    <3> QED BY <3>1, <3>2, <3>3
  <2> QED BY <2>1, <2>6, <2>7
<1> QED BY <1>3, <1>4

AddAgents(list, e) == AddAgent(AddAgent(list, e.from), e.to)

(* A hop adds its two agents to the list.                                  *)
LEMMA AddAgentsType ==
  ASSUME NEW A, NEW l \in Distinct(A), NEW e \in Bearer(A)
  PROVE  /\ AddAgents(l, e) \in Distinct(A)
         /\ Names(AddAgents(l, e)) = Names(l) \cup {e.from, e.to}
<1>1. PICK a \in A, b \in A : a = e.from /\ b = e.to BY DEF Bearer
<1>2. PICK m \in Distinct(A) : m = AddAgent(l, a) /\ Names(m) = Names(l) \cup {a} BY AddAgentType
<1>3. AddAgent(m, b) \in Distinct(A) /\ Names(AddAgent(m, b)) = Names(m) \cup {b} BY AddAgentType
<1>4. AddAgents(l, e) = AddAgent(m, b) BY <1>1, <1>2 DEF AddAgents
<1> QED BY <1>1, <1>2, <1>3, <1>4

(* orderedAgents() is a fold over the hops by index.                       *)
LEMMA AgentsAre ==
  ASSUME NEW A, NEW es, NEW n \in Nat, ByHop(es) \in [1..n -> Bearer(A)]
  PROVE  FoldsTo(OrderedAgents(es), n, Distinct(A),
                 [p \in (Distinct(A)) \X (Bearer(A)) |-> AddAgents(p[1], p[2])], <<>>, ByHop(es))
<1> DEFINE s == ByHop(es)
           V == Distinct(A)
           E == Bearer(A)
           op == [p \in V \X E |-> AddAgents(p[1], p[2])]
           base == <<>>
           F(it) == [T \in SUBSET (DOMAIN s) |->
                       IF T = {} THEN base ELSE AddAgents(it[T \ {Max(T)}], s[Max(T)])]
           iter == CHOOSE it : it = F(it)
<1>1. DOMAIN s = 1..n OBVIOUS
<1>2. OrderedAgents(es) = iter[DOMAIN s]
  BY DEF OrderedAgents, FoldLeft, MapThenFoldSet, AddAgents, AddAgent
<1>3. base \in V BY DEF Distinct
<1>4. op \in [V \X E -> V] BY AddAgentsType
<1>5. \A l \in V, e \in E : op[<<l, e>>] = AddAgents(l, e) OBVIOUS
<1>6. \A i \in 1..n : s[i] \in E OBVIOUS
<1> HIDE DEF op, base, V, E, s
<1>7. \E it : it = F(it)
  <2>1. PICK g : Iteration(g, n, V, op, base, s) BY <1>3, <1>4, <1>6, FoldExists
  <2>2. ASSUME NEW T \in SUBSET (1..n), T # {}
        PROVE  g[T] = AddAgents(g[T \ {Max(T)}], s[Max(T)])
    <3>1. Max(T) \in T BY <2>2, Highest
    <3>2. g[T \ {Max(T)}] \in V /\ s[Max(T)] \in E BY <1>6, <2>1, <3>1 DEF Iteration
    <3> QED BY <1>5, <2>1, <2>2, <3>2 DEF Iteration, Iterates
  <2>3. g = F(g) BY <1>1, <2>1, <2>2 DEF Iteration, Iterates
  <2> HIDE DEF F
  <2> QED BY <2>3
<1>8. iter = F(iter) BY <1>7
<1> HIDE DEF iter
<1>9. Iterates(iter, n, V, op, base, s)
  <2>1. iter[{}] = base BY <1>8
  <2>2. ASSUME NEW T \in SUBSET (1..n), T # {}, iter[T \ {Max(T)}] \in V
        PROVE  iter[T] = op[<<iter[T \ {Max(T)}], s[Max(T)]>>]
    <3>1. Max(T) \in T BY <2>2, Highest
    <3>2. s[Max(T)] \in E BY <1>6, <3>1
    <3>3. iter[T] = AddAgents(iter[T \ {Max(T)}], s[Max(T)]) BY <1>1, <1>8, <2>2
    <3> QED BY <1>5, <2>2, <3>2, <3>3
  <2> QED BY <2>1, <2>2 DEF Iterates
<1>10. FoldsTo(iter[1..n], n, V, op, base, s) BY <1>3, <1>4, <1>6, <1>9, Folded
<1> QED BY <1>1, <1>2, <1>10 DEF op, base, V, E, s

(* It names every agent once.                                              *)
LEMMA AgentsListed ==
  ASSUME NEW A, NEW es \in Seq(Bearer(A)), A = AgentsOf(es)
  PROVE  OrderedAgents(es) \in Distinct(A) /\ Names(OrderedAgents(es)) = A
<1> DEFINE V == Distinct(A)
           op == [p \in V \X Bearer(A) |-> AddAgents(p[1], p[2])]
           s == ByHop(es)
           r == OrderedAgents(es)
<1>1. PICK n \in Nat : n = Len(es) OBVIOUS
<1>2. s \in [1..n -> Bearer(A)] BY <1>1, ByHopMembers
<1>3. FoldsTo(r, n, V, op, <<>>, s) BY <1>2, AgentsAre
<1>4. \A i \in 1..n : \E k \in 1..n : s[k] = es[i] BY <1>1, ByHopMembers
<1> HIDE DEF r, s
<1>5. PICK h \in [0..n -> V] : /\ h[0] = <<>> /\ h[n] = r
                               /\ \A k \in 1..n : h[k] = op[<<h[k - 1], s[k]>>]
  BY <1>3 DEF FoldsTo
<1>6. \A k \in 1..n : h[k - 1] \in V /\ s[k] \in Bearer(A) /\ h[k] = AddAgents(h[k - 1], s[k])
  <2> TAKE k \in 1..n
  <2>1. k - 1 \in 0..n /\ s[k] \in Bearer(A) BY <1>2
  <2>2. h[k - 1] \in V BY <2>1
  <2> HIDE DEF V
  <2> QED BY <1>5, <2>1, <2>2
<1>7. r \in Distinct(A) BY <1>5
<1>8. \A k \in 1..n : Names(h[k]) = Names(h[k - 1]) \cup {s[k].from, s[k].to}
  BY <1>6, AddAgentsType
<1> HIDE DEF op, V
<1>9. \A j \in 1..n : {s[j].from, s[j].to} \subseteq Names(r)
  <2> TAKE j \in 1..n
  <2> DEFINE good == {k \in 0..n : k >= j => {s[j].from, s[j].to} \subseteq Names(h[k])}
  <2>1. 0 \in good OBVIOUS
  <2>2. \A k \in 0..(n - 1) : k \in good => k + 1 \in good
    <3> TAKE k \in 0..(n - 1)
    <3>1. k + 1 \in 1..n /\ (k + 1) - 1 = k /\ k + 1 \in 0..n OBVIOUS
    <3>2. Names(h[k + 1]) = Names(h[k]) \cup {s[k + 1].from, s[k + 1].to} BY <1>8, <3>1
    <3>3. k + 1 >= j => k >= j \/ j = k + 1 OBVIOUS
    <3> QED BY <3>1, <3>2, <3>3
  <2>3. 0..n \subseteq good
    <3> HIDE DEF good
    <3> QED BY <2>1, <2>2, Counting
  <2> QED BY <1>5, <2>3
<1>10. A \subseteq Names(r)
  <2> SUFFICES ASSUME NEW a \in A PROVE a \in Names(r) OBVIOUS
  <2>1. PICK i \in 1..n : a \in {es[i].from, es[i].to}
    <3>1. DOMAIN es = 1..n BY <1>1
    <3> QED BY <3>1 DEF AgentsOf
  <2>2. PICK k \in 1..n : s[k] = es[i] BY <1>4
  <2> QED BY <1>9, <2>1, <2>2
<1>11. Names(r) \subseteq A BY <1>7 DEF Names, Distinct
<1> QED BY <1>7, <1>10, <1>11 DEF r

(* As many as there are agents.                                            *)
LEMMA DistinctSize ==
  ASSUME NEW A, NEW l \in Distinct(A), Names(l) = A
  PROVE  Len(l) = Cardinality(A)
<1>1. PICK n \in Nat : n = Len(l) /\ DOMAIN l = 1..n /\ l \in [1..n -> A] BY DEF Distinct
<1>2. \A i, j \in 1..n : l[i] = l[j] => i = j BY <1>1 DEF Distinct
<1>3. l \in Surjection(1..n, A) BY <1>1 DEF Surjection, Names
<1>4. l \in Injection(1..n, A) BY <1>1, <1>2 DEF Injection, IsInjective
<1>5. IsFiniteSet(1..n) /\ Cardinality(1..n) = n BY SizeUpTo
<1> QED BY <1>1, <1>3, <1>4, <1>5, FS_Surjection

-----------------------------------------------------------------------------
(* collapseRetryStorms().                                                  *)

(* The groups of equal hops, their first, and the hops that are kept.      *)
Storm(es, i) == {j \in DOMAIN es : SameHop(es[i], es[j])}
StormStart(es, i) == CHOOSE j \in Storm(es, i) : \A k \in Storm(es, i) : j <= k
KeptHops(es) == {i \in DOMAIN es : Cardinality(Storm(es, i)) < 3 \/ i = StormStart(es, i)}
StormEarlier(es, i, j) ==
  \/ es[i].hop < es[j].hop
  \/ es[i].hop = es[j].hop /\ StormStart(es, i) < StormStart(es, j)
  \/ es[i].hop = es[j].hop /\ StormStart(es, i) = StormStart(es, j) /\ i < j
StormOrder(es) == {q \in KeptHops(es) \X KeptHops(es) : StormEarlier(es, q[1], q[2])}

(* The order q in which m hops are kept.                                   *)
Collapses(q, m, es) ==
  /\ Lists(KeptHops(es), m, StormOrder(es), q)
  /\ CollapseRetryStorms(es) = [k \in 1..m |-> es[q[k]]]

(* Every hop is a repetition of the first one that is the same.            *)
LEMMA StormStarts ==
  ASSUME NEW W, NEW es \in Seq(W), NEW i \in DOMAIN es
  PROVE  /\ StormStart(es, i) \in DOMAIN es /\ SameHop(es[i], es[StormStart(es, i)])
         /\ StormStart(es, i) \in Nat
         /\ \A k \in DOMAIN es : SameHop(es[i], es[k]) => StormStart(es, i) <= k
<1>1. DOMAIN es \subseteq Nat OBVIOUS
<1>2. i \in Storm(es, i) /\ Storm(es, i) \in SUBSET Nat BY <1>1 DEF Storm, SameHop
<1>3. \E j \in Storm(es, i) : \A k \in Storm(es, i) : j <= k
  <2> DEFINE S == Storm(es, i)
  <2>1. S # {} /\ S \in SUBSET Nat BY <1>2
  <2> HIDE DEF S
  <2>2. \E j \in S : \A k \in S : j <= k BY <2>1, LowestIndex
  <2> QED BY <2>2 DEF S
<1>4. /\ StormStart(es, i) \in Storm(es, i)
      /\ \A k \in Storm(es, i) : StormStart(es, i) <= k
  BY <1>3 DEF StormStart
<1> QED BY <1>1, <1>4 DEF Storm

(* The first of a group is the first of it for all of them.                *)
LEMMA StormStartKept ==
  ASSUME NEW W, NEW es \in Seq(W), NEW i \in DOMAIN es
  PROVE  StormStart(es, i) \in KeptHops(es)
<1> DEFINE j == StormStart(es, i)
<1>1. j \in DOMAIN es /\ SameHop(es[i], es[j]) BY StormStarts
<1>2. Storm(es, j) = Storm(es, i) BY <1>1 DEF Storm, SameHop
<1>3. StormStart(es, j) = j BY <1>2 DEF StormStart
<1> QED BY <1>1, <1>3 DEF KeptHops

(* The hops CollapseRetryStorms() keeps are in a strict total order: by    *)
(* hop, and by place.                                                      *)
LEMMA StormOrdered ==
  ASSUME NEW W, NEW es \in Seq(W), \A i \in 1..Len(es) : es[i].hop \in Int
  PROVE  Ordered(KeptHops(es), StormOrder(es))
<1> DEFINE S == KeptHops(es)
<1>1. S \subseteq DOMAIN es /\ DOMAIN es = 1..Len(es) BY DEF KeptHops
<1>2. \A i \in S : i \in Nat /\ es[i].hop \in Int /\ StormStart(es, i) \in Nat
  <2> TAKE i \in S
  <2>1. i \in DOMAIN es BY <1>1
  <2> QED BY <1>1, <2>1, StormStarts
<1>3. \A i, j \in S : <<i, j>> \in StormOrder(es) <=> StormEarlier(es, i, j) BY DEF StormOrder
<1> HIDE DEF S
<1>4. \A i, j \in S : i # j => <<i, j>> \in StormOrder(es) \/ <<j, i>> \in StormOrder(es)
  BY <1>2, <1>3 DEF StormEarlier
<1>5. \A i \in S : <<i, i>> \notin StormOrder(es) BY <1>2, <1>3 DEF StormEarlier
<1>6. \A i, j, k \in S : <<i, j>> \in StormOrder(es) /\ <<j, k>> \in StormOrder(es)
                            => <<i, k>> \in StormOrder(es)
  <2> TAKE i, j, k \in S
  <2> DEFINE fi == StormStart(es, i)
             fj == StormStart(es, j)
             fk == StormStart(es, k)
  <2>1. /\ es[i].hop \in Int /\ es[j].hop \in Int /\ es[k].hop \in Int
        /\ fi \in Nat /\ fj \in Nat /\ fk \in Nat /\ i \in Nat /\ j \in Nat /\ k \in Nat
    BY <1>2
  <2> HIDE DEF fi, fj, fk
  <2>2. SUFFICES ASSUME StormEarlier(es, i, j), StormEarlier(es, j, k)
                 PROVE  StormEarlier(es, i, k)
    BY <1>3
  <2>3. \/ es[i].hop < es[j].hop
        \/ es[i].hop = es[j].hop /\ (fi < fj \/ (fi = fj /\ i < j))
    BY <2>2 DEF StormEarlier, fi, fj
  <2>4. \/ es[j].hop < es[k].hop
        \/ es[j].hop = es[k].hop /\ (fj < fk \/ (fj = fk /\ j < k))
    BY <2>2 DEF StormEarlier, fj, fk
  <2>5. \/ es[i].hop < es[k].hop
        \/ es[i].hop = es[k].hop /\ (fi < fk \/ (fi = fk /\ i < k))
    BY <2>1, <2>3, <2>4
  <2> QED BY <2>5 DEF StormEarlier, fi, fk
<1> QED BY <1>4, <1>5, <1>6 DEF Ordered, S

(* What collapsing keeps, in order.                                        *)
LEMMA CollapsedAre ==
  ASSUME NEW W, NEW es \in Seq(W), \A i \in 1..Len(es) : es[i].hop \in Int
  PROVE  \E m \in Nat : \E q : Collapses(q, m, es)
<1> DEFINE S == KeptHops(es)
           R == StormOrder(es)
           rank == [i \in S |-> Cardinality({j \in S : <<j, i>> \in R})]
           e(k) == CHOOSE i \in S : Cardinality({j \in S : StormEarlier(es, j, i)}) = k - 1
           q == [k \in 1..Cardinality(S) |-> e(k)]
<1>1. IsFiniteSet(S) /\ Cardinality(S) \in Nat
  <2>1. S \in SUBSET (1..Len(es)) /\ Len(es) \in Nat BY DEF KeptHops
  <2>2. IsFiniteSet(1..Len(es)) BY <2>1, SizeUpTo
  <2> HIDE DEF S
  <2>3. IsFiniteSet(S) BY <2>1, <2>2, FS_Subset
  <2> QED BY <2>3, FS_CardinalityType
<1>2. PICK m \in Nat : m = Cardinality(S) BY <1>1
<1>3. \A i, j \in S : <<i, j>> \in R <=> StormEarlier(es, i, j) BY DEF StormOrder
<1>4. \A i \in S : rank[i] = Cardinality({j \in S : StormEarlier(es, j, i)})
  <2> TAKE i \in S
  <2>1. {j \in S : <<j, i>> \in R} = {j \in S : StormEarlier(es, j, i)} BY <1>3
  <2> HIDE DEF S, R
  <2> QED BY <2>1
<1>5. CollapseRetryStorms(es) = [k \in DOMAIN Listed(q) |-> es[Listed(q)[k]]]
  BY DEF CollapseRetryStorms, InOrder, KeptHops, Storm, StormStart, StormEarlier
<1>6. \A k \in 1..m : q[k] = CHOOSE i \in S : Cardinality({j \in S : StormEarlier(es, j, i)}) = k - 1
  BY <1>2
<1>7. \A k \in 1..m : \A i \in S : rank[i] = k - 1 => q[k] \in S /\ rank[q[k]] = k - 1
  <2> HIDE DEF q, rank, S
  <2> TAKE k \in 1..m
  <2> TAKE i \in S
  <2> HAVE rank[i] = k - 1
  <2>1. Cardinality({j \in S : StormEarlier(es, j, i)}) = k - 1 BY <1>4
  <2>2. q[k] \in S /\ Cardinality({j \in S : StormEarlier(es, j, q[k])}) = k - 1 BY <1>6, <2>1
  <2> QED BY <1>4, <2>2
<1> HIDE DEF e
<1>8. DOMAIN q = 1..m BY <1>2
<1>9. q = [k \in DOMAIN q |-> q[k]] OBVIOUS
<1>10. PICK p : p = q OBVIOUS
<1> HIDE DEF q
<1>11. p = [k \in 1..m |-> p[k]] BY <1>8, <1>9, <1>10
<1>12. Listed(p) = p /\ DOMAIN p = 1..m BY <1>8, <1>10, <1>11, ListedIs
<1>13. CollapseRetryStorms(es) = [k \in 1..m |-> es[p[k]]] BY <1>5, <1>10, <1>12
<1>14. TakenByRank(S, m, rank, p) BY <1>7, <1>10 DEF TakenByRank
<1>15. \A i \in S : rank[i] = Cardinality({j \in S : <<j, i>> \in R}) OBVIOUS
<1>16. Ordered(S, R) BY StormOrdered
<1> HIDE DEF S, R, rank
<1>17. Lists(S, m, R, p) BY <1>1, <1>2, <1>14, <1>15, <1>16, Ranks
<1>18. Collapses(p, m, es) BY <1>13, <1>17 DEF Collapses, S, R
<1> QED BY <1>18

(* Collapsing keeps hops, in order, and the agents.                        *)
LEMMA CollapsedType ==
  ASSUME NEW A, NEW es \in Seq(Bearer(A)), A = AgentsOf(es)
  PROVE  /\ CollapseRetryStorms(es) \in Seq(Bearer(A))
         /\ AgentsOf(CollapseRetryStorms(es)) = A
         /\ \A i, j \in 1..Len(CollapseRetryStorms(es)) :
              i < j => CollapseRetryStorms(es)[i].hop <= CollapseRetryStorms(es)[j].hop
<1> DEFINE c == CollapseRetryStorms(es)
<1>1. DOMAIN es = 1..Len(es) /\ \A i \in DOMAIN es : es[i] \in Bearer(A) OBVIOUS
<1>2. \A i \in 1..Len(es) : es[i].hop \in Int
  <2> TAKE i \in 1..Len(es)
  <2>1. es[i].hop \in Nat BY <1>1 DEF Bearer
  <2> QED BY <2>1
<1>30. PICK m \in Nat : \E q : Collapses(q, m, es) BY <1>2, CollapsedAre
<1>3. PICK q : Collapses(q, m, es) BY <1>30
<1>4. /\ c = [k \in 1..m |-> es[q[k]]]
      /\ \A k \in 1..m : q[k] \in KeptHops(es)
      /\ \A i \in KeptHops(es) : \E k \in 1..m : q[k] = i
      /\ \A k, l \in 1..m : k < l <=> <<q[k], q[l]>> \in StormOrder(es)
  BY <1>3 DEF Collapses, Lists
<1> HIDE DEF c
<1>5. \A k \in 1..m : q[k] \in DOMAIN es BY <1>4 DEF KeptHops
<1>6. \A k \in 1..m : c[k] = es[q[k]] /\ c[k] \in Bearer(A) BY <1>1, <1>4, <1>5
<1>7. c \in [1..m -> Bearer(A)] BY <1>4, <1>6
<1>8. c \in Seq(Bearer(A)) /\ Len(c) = m /\ DOMAIN c = 1..m BY <1>7
<1>9. AgentsOf(c) = A
  <2>1. ASSUME NEW a \in AgentsOf(c) PROVE a \in A
    <3>1. PICK k \in 1..m : a \in {c[k].from, c[k].to} BY <1>8, <2>1 DEF AgentsOf
    <3> QED BY <1>6, <3>1 DEF Bearer
  <2>2. ASSUME NEW a \in A PROVE a \in AgentsOf(c)
    <3>1. PICK i \in DOMAIN es : a \in {es[i].from, es[i].to} BY <2>2 DEF AgentsOf
    <3>2. PICK j : j = StormStart(es, i) OBVIOUS
    <3>3. j \in KeptHops(es) /\ SameHop(es[i], es[j]) BY <3>2, StormStarts, StormStartKept
    <3>4. PICK k \in 1..m : q[k] = j BY <1>4, <3>3
    <3>5. c[k].from = es[i].from /\ c[k].to = es[i].to BY <1>6, <3>3, <3>4 DEF SameHop
    <3> QED BY <1>8, <3>1, <3>5 DEF AgentsOf
  <2> QED BY <2>1, <2>2
<1>10. ASSUME NEW k \in 1..m, NEW l \in 1..m, k < l PROVE c[k].hop <= c[l].hop
  <2>1. <<q[k], q[l]>> \in StormOrder(es) BY <1>4, <1>10
  <2>2. StormEarlier(es, q[k], q[l]) BY <2>1 DEF StormOrder
  <2>3. es[q[k]].hop <= es[q[l]].hop BY <1>1, <1>2, <1>5, <2>2 DEF StormEarlier
  <2> QED BY <1>6, <2>3
<1> QED BY <1>8, <1>9, <1>10 DEF c

-----------------------------------------------------------------------------
(* The hop an agent is judged by.                                          *)

(* Whether an agent is judged by a hop: one it sends, or if it sends none  *)
(* one it receives.                                                        *)
Sends(es, a) == \E i \in DOMAIN es : es[i].from = a
Turn(e, a, sent) == IF sent THEN e.from = a ELSE e.to = a

(* It is the first of them.                                                *)
LEMMA ContextEdge ==
  ASSUME NEW es, ByHop(es) = es, NEW a, NEW i \in DOMAIN es, DOMAIN es \subseteq Nat,
         Turn(es[i], a, Sends(es, a)), \A j \in 1..(i - 1) : ~Turn(es[j], a, Sends(es, a)),
         \A j \in DOMAIN es : 1..(j - 1) \subseteq DOMAIN es /\ j >= 1
  PROVE  /\ AgentContext(a, es).edge = es[i]
         /\ AgentContext(a, es).selfBad = IntroducedBad(es[i])
<1> DEFINE sent == \E j \in DOMAIN es : es[j].from = a
           c == CHOOSE j \in DOMAIN es :
                  /\ (IF sent THEN es[j].from = a ELSE es[j].to = a)
                  /\ \A l \in 1..(j - 1) : ~(IF sent THEN es[l].from = a ELSE es[l].to = a)
<1>1. AgentContext(a, es).edge = es[c] /\ AgentContext(a, es).selfBad = IntroducedBad(es[c])
  BY DEF AgentContext, FirstEdge
<1>2. sent = Sends(es, a) BY DEF Sends
<1>3. c = i
  <2> HIDE DEF sent
  <2>1. \A j \in DOMAIN es : Turn(es[j], a, sent) <=> (IF sent THEN es[j].from = a ELSE es[j].to = a)
    BY DEF Turn
  <2>2. /\ c \in DOMAIN es
        /\ (IF sent THEN es[c].from = a ELSE es[c].to = a)
        /\ \A l \in 1..(c - 1) : ~(IF sent THEN es[l].from = a ELSE es[l].to = a)
    BY <1>2, <2>1
  <2> HIDE DEF c
  <2>3. ~(c < i)
    <3> SUFFICES ASSUME c < i PROVE FALSE OBVIOUS
    <3>1. c \in 1..(i - 1) BY <2>2
    <3> QED BY <1>2, <2>1, <2>2, <3>1
  <2>4. ~(i < c)
    <3> SUFFICES ASSUME i < c PROVE FALSE OBVIOUS
    <3>1. i \in 1..(c - 1) BY <2>2
    <3> QED BY <1>2, <2>1, <2>2, <3>1
  <2> QED BY <2>2, <2>3, <2>4
<1> QED BY <1>1, <1>3

(* Hops in order, and the first of them an agent is judged by.             *)
InHopOrder(es) == \A i, j \in 1..Len(es) : i < j => es[i].hop <= es[j].hop

(* Hops in hop order stay where they are when they are sorted.             *)
LEMMA OrderedStays ==
  ASSUME NEW A, NEW es \in Seq(Bearer(A)), InHopOrder(es)
  PROVE  ByHop(es) = es
<1>1. Hopped(es)
  <2> SUFFICES ASSUME NEW i \in 1..Len(es) PROVE es[i].hop \in Int BY DEF Hopped
  <2>1. es[i] \in Bearer(A) OBVIOUS
  <2>2. es[i].hop \in Nat BY <2>1 DEF Bearer
  <2> QED BY <2>2
<1> QED BY <1>1, SortedStays DEF InHopOrder

FirstTurn(es, a, i) ==
  /\ i \in DOMAIN es /\ Turn(es[i], a, Sends(es, a))
  /\ \A j \in DOMAIN es : Turn(es[j], a, Sends(es, a)) => i <= j

(* An agent of the run has a first turn.                                   *)
LEMMA FirstTurnExists ==
  ASSUME NEW A, NEW es \in Seq(Bearer(A)), NEW a \in AgentsOf(es)
  PROVE  \E i : FirstTurn(es, a, i)
<1> DEFINE S == {i \in DOMAIN es : Turn(es[i], a, Sends(es, a))}
<1>1. S \in SUBSET Nat OBVIOUS
<1>2. PICK j \in DOMAIN es : a \in {es[j].from, es[j].to} BY DEF AgentsOf
<1>3. S # {}
  <2>1. CASE Sends(es, a) BY <2>1 DEF Turn, Sends
  <2>2. CASE ~Sends(es, a) BY <1>2, <2>2 DEF Turn, Sends
  <2> QED BY <2>1, <2>2
<1>4. \E x \in S : \A y \in S : x <= y
  <2> HIDE DEF S
  <2> QED BY <1>1, <1>3, LowestIndex
<1> QED BY <1>4 DEF FirstTurn

(* An agent's context is taken from its first turn.                        *)
LEMMA FirstTurnContext ==
  ASSUME NEW A, NEW es \in Seq(Bearer(A)), InHopOrder(es), NEW a, NEW i, FirstTurn(es, a, i)
  PROVE  /\ AgentContext(a, es).edge = es[i]
         /\ AgentContext(a, es).selfBad = IntroducedBad(es[i])
<1>1. ByHop(es) = es BY OrderedStays
<1>2. PICK n \in Nat : DOMAIN es = 1..n OBVIOUS
<1>3. i \in 1..n /\ Turn(es[i], a, Sends(es, a)) BY <1>2 DEF FirstTurn
<1>4. \A j \in 1..(i - 1) : ~Turn(es[j], a, Sends(es, a))
  <2> TAKE j \in 1..(i - 1)
  <2>1. j \in 1..n /\ ~(i <= j) BY <1>3
  <2> QED BY <1>2, <2>1 DEF FirstTurn
<1>5. DOMAIN es \subseteq Nat BY <1>2
<1>6. \A j \in DOMAIN es : 1..(j - 1) \subseteq DOMAIN es /\ j >= 1 BY <1>2
<1> QED BY <1>1, <1>2, <1>3, <1>4, <1>5, <1>6, ContextEdge

(* It is kept when retries are collapsed.                                  *)
LEMMA SameContext ==
  ASSUME NEW A, NEW es \in Seq(Bearer(A)), A = AgentsOf(es), InHopOrder(es), NEW a \in A
  PROVE  /\ AgentContext(a, CollapseRetryStorms(es)).edge = AgentContext(a, es).edge
         /\ AgentContext(a, CollapseRetryStorms(es)).selfBad = AgentContext(a, es).selfBad
<1> DEFINE c == CollapseRetryStorms(es)
<1>1. DOMAIN es = 1..Len(es) /\ \A i \in DOMAIN es : es[i] \in Bearer(A) OBVIOUS
<1>2. \A i \in 1..Len(es) : es[i].hop \in Int
  <2> TAKE i \in 1..Len(es)
  <2>1. es[i].hop \in Nat BY <1>1 DEF Bearer
  <2> QED BY <2>1
<1>30. PICK m \in Nat : \E q : Collapses(q, m, es) BY <1>2, CollapsedAre
<1>3. PICK q : Collapses(q, m, es) BY <1>30
<1>4. /\ c = [k \in 1..m |-> es[q[k]]]
      /\ \A k \in 1..m : q[k] \in KeptHops(es)
      /\ \A i \in KeptHops(es) : \E k \in 1..m : q[k] = i
      /\ \A k, l \in 1..m : k < l <=> <<q[k], q[l]>> \in StormOrder(es)
      /\ \A k, l \in 1..m : q[k] = q[l] => k = l
  BY <1>3 DEF Collapses, Lists
<1>5. c \in Seq(Bearer(A)) /\ InHopOrder(c) BY CollapsedType DEF InHopOrder
<1> HIDE DEF c
<1>6. \A k \in 1..m : q[k] \in DOMAIN es /\ c[k] = es[q[k]] BY <1>4 DEF KeptHops
<1>7. DOMAIN c = 1..m BY <1>4
<1>8. Sends(c, a) = Sends(es, a)
  <2>1. ASSUME NEW i \in DOMAIN es, es[i].from = a PROVE Sends(c, a)
    <3>1. PICK j : j = StormStart(es, i) OBVIOUS
    <3>2. j \in KeptHops(es) /\ SameHop(es[i], es[j]) BY <3>1, StormStarts, StormStartKept
    <3>3. PICK k \in 1..m : q[k] = j BY <1>4, <3>2
    <3> QED BY <1>6, <1>7, <2>1, <3>2, <3>3 DEF SameHop, Sends
  <2>2. ASSUME NEW k \in 1..m, c[k].from = a PROVE Sends(es, a) BY <1>6, <2>2 DEF Sends
  <2> QED BY <1>7, <2>1, <2>2 DEF Sends
<1>9. PICK i : FirstTurn(es, a, i) BY FirstTurnExists
<1> DEFINE sent == Sends(es, a)
<1>10. /\ i \in DOMAIN es /\ Turn(es[i], a, sent)
       /\ \A j \in DOMAIN es : Turn(es[j], a, sent) => i <= j
  BY <1>9 DEF FirstTurn
<1> HIDE DEF sent
<1>11. \A j \in DOMAIN es : /\ StormStart(es, j) \in DOMAIN es /\ StormStart(es, j) <= j
                            /\ Turn(es[j], a, sent) => Turn(es[StormStart(es, j)], a, sent)
  <2> TAKE j \in DOMAIN es
  <2>1. StormStart(es, j) \in DOMAIN es /\ SameHop(es[j], es[StormStart(es, j)])
    BY StormStarts
  <2>2. StormStart(es, j) <= j BY StormStarts DEF SameHop
  <2> QED BY <2>1, <2>2 DEF SameHop, Turn
<1>12. StormStart(es, i) = i
  <2>1. StormStart(es, i) \in DOMAIN es /\ StormStart(es, i) <= i /\ i <= StormStart(es, i)
    BY <1>10, <1>11
  <2> QED BY <1>1, <1>10, <2>1
<1>13. PICK k \in 1..m : q[k] = i
  <2>1. i \in KeptHops(es) BY <1>10, <1>12 DEF KeptHops
  <2> QED BY <1>4, <2>1
<1>14. ASSUME NEW l \in 1..m, Turn(c[l], a, sent) PROVE k <= l
  <2> SUFFICES ASSUME l < k PROVE FALSE OBVIOUS
  <2> DEFINE j == q[l]
  <2>1. <<j, i>> \in StormOrder(es) BY <1>4, <1>13
  <2>2. StormEarlier(es, j, i) BY <2>1 DEF StormOrder
  <2>3. j \in DOMAIN es /\ Turn(es[j], a, sent) BY <1>6, <1>14
  <2> HIDE DEF j
  <2>4. i <= j /\ i <= StormStart(es, j) BY <1>10, <1>11, <2>3
  <2>5. es[i].hop <= es[j].hop
    <3>1. i = j \/ i < j BY <1>1, <1>10, <2>3, <2>4
    <3> QED BY <1>1, <1>2, <1>10, <2>3, <3>1 DEF InHopOrder
  <2>6. /\ es[i].hop \in Int /\ es[j].hop \in Int /\ i \in Nat /\ j \in Nat
        /\ StormStart(es, j) \in Nat
    BY <1>1, <1>2, <1>10, <1>11, <2>3
  <2> QED BY <1>12, <2>2, <2>4, <2>5, <2>6 DEF StormEarlier
<1>15. FirstTurn(c, a, k)
  <2>1. Turn(c[k], a, sent) BY <1>6, <1>10, <1>13
  <2> QED BY <1>7, <1>8, <1>14, <2>1 DEF FirstTurn, sent
<1>16. c[k] = es[i] BY <1>6, <1>13
<1>17. AgentContext(a, c).edge = c[k] /\ AgentContext(a, c).selfBad = IntroducedBad(c[k])
  BY <1>5, <1>15, FirstTurnContext
<1>18. AgentContext(a, es).edge = es[i] /\ AgentContext(a, es).selfBad = IntroducedBad(es[i])
  BY <1>9, FirstTurnContext
<1> QED BY <1>16, <1>17, <1>18 DEF c

-----------------------------------------------------------------------------
(* The rows of a report, ranked and marked.                                *)

(* A list whose members have numbers as shares.                            *)
Scored(s) == \A i \in 1..Len(s) : s[i].pct \in Int

(* Ranked() takes the members of a list by their ranks.                    *)
RankByPct(s) ==
  [i \in DOMAIN s |->
     Cardinality({j \in DOMAIN s : s[j].pct > s[i].pct \/ (~(s[i].pct > s[j].pct) /\ j < i)})]

(* Sorting by share puts the row of rank k - 1 in place k.                 *)
LEMMA PctRanks ==
  ASSUME NEW W, NEW s \in Seq(W)
  PROVE  \E p : /\ p = [k \in 1..Len(s) |-> p[k]]
                /\ \A k, i \in 1..Len(s) : RankByPct(s)[i] = k - 1 =>
                     p[k] \in 1..Len(s) /\ RankByPct(s)[p[k]] = k - 1
                /\ Ranked(s) = [k \in 1..Len(s) |-> s[p[k]]]
<1> DEFINE n == Len(s)
           e(k) == CHOOSE i \in DOMAIN s :
                     Cardinality({j \in DOMAIN s : s[j].pct > s[i].pct \/ (~(s[i].pct > s[j].pct) /\ j < i)})
                       = k - 1
           q == [k \in 1..Cardinality(DOMAIN s) |-> e(k)]
<1>1. n \in Nat /\ DOMAIN s = 1..n OBVIOUS
<1>2. Cardinality(DOMAIN s) = n BY <1>1, SizeUpTo
<1>3. Ranked(s) = [k \in DOMAIN s |-> s[Listed(q)[k]]] BY DEF Ranked, StableSort, InOrder
<1>4. \A k \in 1..n : q[k] = CHOOSE i \in DOMAIN s : RankByPct(s)[i] = k - 1 BY <1>2 DEF RankByPct
<1>5. PICK p : p = q OBVIOUS
<1>6. DOMAIN q = 1..n BY <1>2
<1> HIDE DEF e
<1>61. q = [k \in DOMAIN q |-> q[k]] OBVIOUS
<1> HIDE DEF q
<1>7. p = [k \in 1..n |-> p[k]] BY <1>5, <1>6, <1>61
<1>8. Listed(p) = p BY <1>1, <1>7, ListedIs
<1>9. Ranked(s) = [k \in 1..n |-> s[p[k]]] BY <1>1, <1>3, <1>5, <1>8
<1>10. \A k, i \in 1..n : RankByPct(s)[i] = k - 1 => p[k] \in 1..n /\ RankByPct(s)[p[k]] = k - 1
  BY <1>1, <1>4, <1>5
<1> QED BY <1>7, <1>9, <1>10

(* The order p in which Ranked() takes the members of a list.              *)
PctOrder(p, s) ==
  /\ p \in [1..Len(s) -> 1..Len(s)]
  /\ Ranked(s) = [k \in 1..Len(s) |-> s[p[k]]]
  /\ \A i \in 1..Len(s) : \E k \in 1..Len(s) : p[k] = i
  /\ \A k, l \in 1..Len(s) :
       k < l <=> s[p[k]].pct > s[p[l]].pct \/ (s[p[k]].pct = s[p[l]].pct /\ p[k] < p[l])
  /\ \A k, l \in 1..Len(s) : p[k] = p[l] => k = l

(* There is one.                                                           *)
LEMMA SortedByPct ==
  ASSUME NEW W, NEW s \in Seq(W), Scored(s)
  PROVE  \E p : PctOrder(p, s)
<1> DEFINE n == Len(s)
           Earlier(i, j) == s[i].pct > s[j].pct \/ (~(s[j].pct > s[i].pct) /\ i < j)
           R == {q \in (1..n) \X (1..n) : Earlier(q[1], q[2])}
<1>1. n \in Nat /\ DOMAIN s = 1..n OBVIOUS
<1>2. IsFiniteSet(1..n) /\ Cardinality(1..n) = n BY <1>1, SizeUpTo
<1>3. \A i, j \in 1..n : <<i, j>> \in R <=> Earlier(i, j) OBVIOUS
<1>4. RankByPct(s) = [i \in 1..n |-> Cardinality({j \in 1..n : <<j, i>> \in R})]
  <2>1. \A i \in 1..n : {j \in 1..n : <<j, i>> \in R} = {j \in 1..n : Earlier(j, i)} BY <1>3
  <2> HIDE DEF R
  <2> QED BY <1>1, <2>1 DEF RankByPct
<1>5. \A i, j \in 1..n : Earlier(i, j) <=> s[i].pct > s[j].pct \/ (s[i].pct = s[j].pct /\ i < j)
  <2> TAKE i, j \in 1..n
  <2>1. s[i].pct \in Int /\ s[j].pct \in Int BY DEF Scored
  <2> QED BY <2>1
<1> HIDE DEF R
<1>6. \A i, j \in 1..n : i # j => <<i, j>> \in R \/ <<j, i>> \in R
  <2> TAKE i, j \in 1..n
  <2>1. s[i].pct \in Int /\ s[j].pct \in Int BY DEF Scored
  <2> QED BY <1>3, <2>1
<1>7. \A i \in 1..n : <<i, i>> \notin R
  <2> TAKE i \in 1..n
  <2>1. s[i].pct \in Int BY DEF Scored
  <2> QED BY <1>3, <2>1
<1>8. \A i, j, k \in 1..n : <<i, j>> \in R /\ <<j, k>> \in R => <<i, k>> \in R
  <2> TAKE i, j, k \in 1..n
  <2>1. s[i].pct \in Int /\ s[j].pct \in Int /\ s[k].pct \in Int BY DEF Scored
  <2> QED BY <1>3, <2>1
<1> HIDE DEF Earlier
<1>9. PICK p : /\ p = [k \in 1..n |-> p[k]]
               /\ \A k, i \in 1..n : RankByPct(s)[i] = k - 1 => p[k] \in 1..n /\ RankByPct(s)[p[k]] = k - 1
               /\ Ranked(s) = [k \in 1..n |-> s[p[k]]]
  BY PctRanks
<1>10. Lists(1..n, n, R, p)
  <2>1. Ordered(1..n, R) BY <1>6, <1>7, <1>8 DEF Ordered
  <2>2. TakenByRank(1..n, n, RankByPct(s), p) BY <1>9 DEF TakenByRank
  <2>3. \A i \in 1..n : RankByPct(s)[i] = Cardinality({j \in 1..n : <<j, i>> \in R}) BY <1>4
  <2> HIDE DEF n
  <2> QED BY <1>2, <2>1, <2>2, <2>3, Ranks
<1>11. \A k, l \in 1..n : k < l <=> Earlier(p[k], p[l]) BY <1>3, <1>10 DEF Lists
<1>12. \A k, l \in 1..n :
         k < l <=> s[p[k]].pct > s[p[l]].pct \/ (s[p[k]].pct = s[p[l]].pct /\ p[k] < p[l])
  BY <1>5, <1>10, <1>11 DEF Lists
<1>13. p \in [1..n -> 1..n] BY <1>9, <1>10 DEF Lists
<1> QED BY <1>9, <1>10, <1>12, <1>13 DEF Lists, PctOrder


(* The rows of a report on the agents A, each with its share by P.         *)
Words == RootReasons \cup {"none", "llm", "bounds", "carried", "correct", "inflated", "propagated", "minimal"}
BlameRoles == {"none", "propagator", "clean", "originator", "manifestor"}
Modes == {"tool_failure", "premature_termination", "bad_input_propagation", "confidence_inflation",
          "intent_drift", "unknown"}
BlameRow(A) == [agent : A, pct : Int, root : BOOLEAN, inflated : BOOLEAN, reason : Words,
           role : BlameRoles, mode : Modes]
RowsFor(rows, A, P) ==
  /\ rows \in Seq(BlameRow(A))
  /\ \A i, j \in 1..Len(rows) : rows[i].agent = rows[j].agent => i = j
  /\ \A a \in A : \E i \in 1..Len(rows) : rows[i].agent = a
  /\ \A i \in 1..Len(rows) : rows[i].pct = P[rows[i].agent]
Descending(rows) == \A i, j \in 1..Len(rows) : i < j => rows[i].pct >= rows[j].pct

(* The same rows but for what is not the agent and the share.              *)
LEMMA RowsAlike ==
  ASSUME NEW A, NEW P, NEW rows, RowsFor(rows, A, P), NEW n \in Nat, n = Len(rows),
         NEW new \in [1..n -> BlameRow(A)],
         \A i \in 1..n : new[i].agent = rows[i].agent /\ new[i].pct = rows[i].pct
  PROVE  RowsFor(new, A, P) /\ Len(new) = n /\ (Descending(rows) => Descending(new))
<1>1. new \in Seq(BlameRow(A)) /\ Len(new) = n OBVIOUS
<1> QED BY <1>1 DEF RowsFor, Descending

(* Ranking the rows.                                                       *)
LEMMA RankedRows ==
  ASSUME NEW A, NEW P, NEW rows, RowsFor(rows, A, P)
  PROVE  RowsFor(Ranked(rows), A, P) /\ Descending(Ranked(rows)) /\ Len(Ranked(rows)) = Len(rows)
<1>1. rows \in Seq(BlameRow(A)) BY DEF RowsFor
<1>2. PICK n \in Nat : n = Len(rows) BY <1>1
<1>3. \A i \in 1..n : rows[i] \in BlameRow(A) /\ rows[i].pct \in Int
  <2> TAKE i \in 1..n
  <2>1. rows[i] \in BlameRow(A) BY <1>1, <1>2
  <2> QED BY <2>1 DEF BlameRow
<1>4. PICK p : PctOrder(p, rows) BY <1>1, <1>2, <1>3, SortedByPct DEF Scored
<1>5. /\ p \in [1..n -> 1..n] /\ Ranked(rows) = [k \in 1..n |-> rows[p[k]]]
      /\ \A i \in 1..n : \E k \in 1..n : p[k] = i
      /\ \A k, l \in 1..n : p[k] = p[l] => k = l
      /\ \A k, l \in 1..n :
           k < l <=> rows[p[k]].pct > rows[p[l]].pct \/ (rows[p[k]].pct = rows[p[l]].pct /\ p[k] < p[l])
  BY <1>2, <1>4 DEF PctOrder
<1> DEFINE r == Ranked(rows)
<1>6. \A k \in 1..n : p[k] \in 1..n /\ r[k] = rows[p[k]] BY <1>5
<1>7. r \in [1..n -> BlameRow(A)] BY <1>3, <1>5, <1>6
<1>8. r \in Seq(BlameRow(A)) /\ Len(r) = n BY <1>7
<1> HIDE DEF r
<1>9. \A i, j \in 1..n : r[i].agent = r[j].agent => i = j
  <2> TAKE i, j \in 1..n
  <2> HAVE r[i].agent = r[j].agent
  <2>1. rows[p[i]].agent = rows[p[j]].agent /\ p[i] \in 1..n /\ p[j] \in 1..n BY <1>6
  <2>2. p[i] = p[j] BY <1>2, <2>1 DEF RowsFor
  <2> QED BY <1>5, <2>2
<1>10. \A a \in A : \E i \in 1..n : r[i].agent = a
  <2> TAKE a \in A
  <2>1. PICK j \in 1..n : rows[j].agent = a BY <1>2 DEF RowsFor
  <2>2. PICK k \in 1..n : p[k] = j BY <1>5
  <2> QED BY <1>6, <2>1, <2>2
<1>11. \A i \in 1..n : r[i].pct = P[r[i].agent] BY <1>2, <1>6 DEF RowsFor
<1>12. \A i, j \in 1..n : i < j => r[i].pct >= r[j].pct
  <2> TAKE i, j \in 1..n
  <2> HAVE i < j
  <2>1. rows[p[i]].pct > rows[p[j]].pct \/ rows[p[i]].pct = rows[p[j]].pct BY <1>5
  <2>2. rows[p[i]].pct \in Int /\ rows[p[j]].pct \in Int BY <1>3, <1>6
  <2> QED BY <1>6, <2>1, <2>2
<1> QED BY <1>2, <1>8, <1>9, <1>10, <1>11, <1>12 DEF r, RowsFor, Descending

(* The root is marked.                                                     *)
Rooted(rows, n, failed) == \A i \in 1..n : rows[i].root <=> failed /\ i = 1

(* MarkRoot() marks the first row, and only if the run failed; it changes  *)
(* nothing else of a row.                                                  *)
LEMMA MarkedRows ==
  ASSUME NEW A, NEW P, NEW rows, RowsFor(rows, A, P), Descending(rows), NEW failed \in BOOLEAN
  PROVE  /\ RowsFor(MarkRoot(rows, failed), A, P) /\ Descending(MarkRoot(rows, failed))
         /\ Len(MarkRoot(rows, failed)) = Len(rows)
         /\ Rooted(MarkRoot(rows, failed), Len(rows), failed)
<1>1. PICK n \in Nat : n = Len(rows) /\ DOMAIN rows = 1..n BY DEF RowsFor
<1> DEFINE m == MarkRoot(rows, failed)
<1>2. m = [i \in 1..n |-> [rows[i] EXCEPT !.root = failed /\ i = 1]] BY <1>1 DEF MarkRoot
<1>3. \A i \in 1..n : rows[i] \in BlameRow(A) BY <1>1 DEF RowsFor
<1>4. ASSUME NEW i \in 1..n
      PROVE  /\ m[i] \in BlameRow(A) /\ m[i].agent = rows[i].agent /\ m[i].pct = rows[i].pct
             /\ m[i].root = (failed /\ i = 1)
  <2> DEFINE b == failed /\ i = 1
  <2>1. b \in BOOLEAN OBVIOUS
  <2>2. m[i] = [rows[i] EXCEPT !.root = b] BY <1>2
  <2>3. rows[i] \in BlameRow(A) BY <1>3
  <2> HIDE DEF m, b
  <2>4. /\ m[i] \in BlameRow(A) /\ m[i].agent = rows[i].agent /\ m[i].pct = rows[i].pct /\ m[i].root = b
    BY <2>1, <2>2, <2>3 DEF BlameRow
  <2> QED BY <2>4 DEF b
<1>5. m = [i \in 1..n |-> m[i]] BY <1>2
<1> HIDE DEF m
<1>6. m \in [1..n -> BlameRow(A)] BY <1>4, <1>5
<1>7. RowsFor(m, A, P) /\ Len(m) = n /\ Descending(m) BY <1>1, <1>4, <1>6, RowsAlike
<1>8. Rooted(m, n, failed) BY <1>4 DEF Rooted
<1> QED BY <1>1, <1>7, <1>8 DEF m

-----------------------------------------------------------------------------
(* Roles.                                                                  *)

(* classifyBlameRole() knows a role for every row; a root that went wrong  *)
(* or has 5% originated the fault.                                         *)
LEMMA RoleOfRow ==
  ASSUME NEW pct \in Int, NEW root \in BOOLEAN, NEW failed \in BOOLEAN, NEW ctx,
         ctx.selfBad \in BOOLEAN, ctx.upstreamBad \in BOOLEAN, ctx.terminal \in BOOLEAN
  PROVE  /\ BlameRole(pct, root, failed, ctx) \in BlameRoles
         /\ failed /\ root => \/ BlameRole(pct, root, failed, ctx) = "originator"
                              \/ pct < 50 /\ ~ctx.selfBad
<1>1. CASE ~failed BY <1>1 DEF BlameRole, BlameRoles
<1>2. CASE failed /\ pct < 50 /\ ~ctx.selfBad BY <1>2 DEF BlameRole, BlameRoles
<1>3. CASE failed /\ (pct >= 50 \/ ctx.selfBad)
  <2>0. ~(failed /\ pct < 50 /\ ~ctx.selfBad) BY <1>3
  <2>1. CASE root \/ (ctx.selfBad /\ ~ctx.upstreamBad) BY <1>3, <2>0, <2>1 DEF BlameRole, BlameRoles
  <2>2. CASE ~root /\ ctx.selfBad /\ ctx.upstreamBad BY <1>3, <2>0, <2>2 DEF BlameRole, BlameRoles
  <2>3. CASE ~(root \/ (ctx.selfBad /\ ~ctx.upstreamBad)) /\ ~(~root /\ ctx.selfBad /\ ctx.upstreamBad)
    BY <1>3, <2>0, <2>3 DEF BlameRole, BlameRoles
  <2> QED BY <2>1, <2>2, <2>3
<1> QED BY <1>1, <1>2, <1>3

Guilty(role, pct, ctx) == role = "originator" \/ (pct < 50 /\ ~ctx.selfBad)
Judged(ctx) == ctx.selfBad \in BOOLEAN /\ ctx.upstreamBad \in BOOLEAN /\ ctx.terminal \in BOOLEAN

(* The role of the first row of a failed run is that of a guilty agent, by *)
(* its context.                                                            *)
LEMMA RoleOfRoot ==
  ASSUME NEW pct \in Int, NEW ctx, Judged(ctx), NEW r, r = BlameRole(pct, TRUE, TRUE, ctx)
  PROVE  Guilty(r, pct, ctx)
<1>1. CASE pct < 50 /\ ~ctx.selfBad BY <1>1 DEF Guilty
<1>2. CASE pct >= 50 \/ ctx.selfBad
  BY <1>2 DEF BlameRole, Guilty, Judged
<1>3. (pct < 50 /\ ~ctx.selfBad) \/ (pct >= 50 \/ ctx.selfBad) OBVIOUS
<1> QED BY <1>1, <1>2, <1>3

(* What an agent's context says is yes or no.                              *)
LEMMA ContextBooleans ==
  ASSUME NEW a, NEW es
  PROVE  /\ AgentContext(a, es).selfBad \in BOOLEAN /\ AgentContext(a, es).upstreamBad \in BOOLEAN
         /\ AgentContext(a, es).terminal \in BOOLEAN
BY DEF AgentContext, IntroducedBad

(* A failure mode is one of those the reports know.                        *)
LEMMA ModeOfRow == ASSUME NEW e PROVE FailureMode(e) \in Modes
BY DEF FailureMode, Modes

(* reasonFor() has a sentence for every row, of its own for the root.      *)
LEMMA ReasonOfRow ==
  ASSUME NEW a, NEW pct \in Int, NEW root \in BOOLEAN, NEW failed \in BOOLEAN, NEW es
  PROVE  /\ Reason(a, pct, root, failed, es) \in Words
         /\ failed /\ root => Reason(a, pct, root, failed, es) \in RootReasons
<1> DEFINE e == es[CHOOSE i \in DOMAIN es :
                        es[i].from = a /\ \A j \in 1..(i - 1) : ~(es[j].from = a)]
           sends == \E i \in DOMAIN es : es[i].from = a
           harm == IF sends THEN Harm(e) ELSE 0
           drop == IF sends THEN Drop(e) ELSE 0
           inflation == IF sends THEN Inflation(e) ELSE 0
           correct == harm < 8 /\ drop < 5 /\ inflation = 0
           empty == EmptyPreview(e.output)
           rootReason ==
            CASE sends /\ empty -> "empty"
              [] ~(sends /\ empty) /\ harm >= 20 ->
                   IF drop >= 5 THEN "mismatch" ELSE "drift"
              [] OTHER -> IF drop >= 5 THEN "drop"
                          ELSE IF inflation > 0 THEN "overstated" ELSE "primary"
<1>1. Reason(a, pct, root, failed, es) =
        CASE ~failed -> IF pct < 200 THEN "bounds" ELSE "carried"
         [] failed /\ root -> rootReason
         [] failed /\ ~root /\ correct /\ pct < 200 -> "correct"
         [] OTHER -> IF inflation > 0 THEN "inflated"
                     ELSE IF pct > 150 THEN "propagated" ELSE "minimal"
  BY DEF Reason, FirstEdge
<1>2. empty \in BOOLEAN /\ sends \in BOOLEAN BY DEF EmptyPreview
<1>3. rootReason \in RootReasons
  <2> HIDE DEF e, sends, harm, drop, inflation, empty
  <2>1. CASE sends /\ empty BY <2>1 DEF RootReasons
  <2>2. CASE ~(sends /\ empty) /\ harm >= 20 BY <2>2 DEF RootReasons
  <2>3. CASE ~(sends /\ empty) /\ ~(harm >= 20) BY <2>3 DEF RootReasons
  <2> QED BY <2>1, <2>2, <2>3
<1>4. rootReason \in Words BY <1>3 DEF Words
<1> HIDE DEF e, sends, harm, drop, inflation, empty, rootReason, correct
<1>5. CASE ~failed BY <1>1, <1>5 DEF Words
<1>6. CASE failed /\ root BY <1>1, <1>3, <1>4, <1>6
<1>7. CASE failed /\ ~root BY <1>1, <1>7 DEF Words
<1> QED BY <1>5, <1>6, <1>7

(* enrichAgentBlames() leaves the agents, the shares and the root as they  *)
(* are and gives each row its role.                                        *)
Roled(new, rows, n, es, failed) ==
  \A i \in 1..n :
    /\ new[i].agent = rows[i].agent /\ new[i].pct = rows[i].pct
    /\ new[i].root = rows[i].root /\ new[i].reason = rows[i].reason
    /\ new[i].role = BlameRole(rows[i].pct, rows[i].root, failed, AgentContext(rows[i].agent, es))

(* Enrich() keeps the rows' agents, shares and order, and gives each its   *)
(* role.                                                                   *)
LEMMA EnrichedRows ==
  ASSUME NEW A, NEW P, NEW rows, RowsFor(rows, A, P), Descending(rows), NEW failed \in BOOLEAN,
         NEW es, NEW n \in Nat, n = Len(rows)
  PROVE  /\ RowsFor(Enrich(rows, es, failed), A, P) /\ Descending(Enrich(rows, es, failed))
         /\ Len(Enrich(rows, es, failed)) = n
         /\ Roled(Enrich(rows, es, failed), rows, n, es, failed)
<1>1. DOMAIN rows = 1..n BY DEF RowsFor
<1> DEFINE role(r) == BlameRole(r.pct, r.root, failed, AgentContext(r.agent, es))
           mode(r) == FailureMode(AgentContext(r.agent, es).edge)
           e(i) == [rows[i] EXCEPT !.role = role(rows[i]), !.mode = mode(rows[i])]
           q == [i \in DOMAIN rows |-> e(i)]
<1>2. Enrich(rows, es, failed) = Listed(q) BY DEF Enrich
<1>3. \A i \in 1..n : rows[i] \in BlameRow(A) BY <1>1 DEF RowsFor
<1>4. ASSUME NEW i \in 1..n
      PROVE  /\ e(i) \in BlameRow(A) /\ e(i).agent = rows[i].agent /\ e(i).pct = rows[i].pct
             /\ e(i).root = rows[i].root /\ e(i).reason = rows[i].reason /\ e(i).role = role(rows[i])
  <2>1. PICK r : r = rows[i] OBVIOUS
  <2>2. r \in BlameRow(A) BY <1>3, <2>1
  <2>3. r.pct \in Int /\ r.root \in BOOLEAN BY <2>2 DEF BlameRow
  <2>4. PICK x \in BlameRoles : x = role(r)
    <3>1. PICK ctx : ctx = AgentContext(r.agent, es) OBVIOUS
    <3>2. ctx.selfBad \in BOOLEAN /\ ctx.upstreamBad \in BOOLEAN /\ ctx.terminal \in BOOLEAN
      BY <3>1, ContextBooleans
    <3>3. BlameRole(r.pct, r.root, failed, ctx) \in BlameRoles BY <2>3, <3>2, RoleOfRow
    <3> QED BY <3>1, <3>3
  <2>5. PICK y \in Modes : y = mode(r) BY ModeOfRow
  <2>6. e(i) = [r EXCEPT !.role = x, !.mode = y] BY <2>1, <2>4, <2>5
  <2>61. x = role(rows[i]) BY <2>1, <2>4
  <2> HIDE DEF e, role, mode
  <2>7. /\ e(i) \in BlameRow(A) /\ e(i).agent = r.agent /\ e(i).pct = r.pct
        /\ e(i).root = r.root /\ e(i).reason = r.reason /\ e(i).role = x
    BY <2>2, <2>4, <2>5, <2>6 DEF BlameRow
  <2> QED BY <2>1, <2>61, <2>7
<1>5. q = [i \in 1..n |-> e(i)] BY <1>1
<1> HIDE DEF e
<1>6. q \in [1..n -> BlameRow(A)] /\ \A i \in 1..n : q[i] = e(i) BY <1>4, <1>5
<1> HIDE DEF q
<1>7. q = [i \in 1..n |-> q[i]] BY <1>6
<1>8. Listed(q) = q BY <1>7, ListedIs
<1>9. RowsFor(q, A, P) /\ Len(q) = n /\ Descending(q)
  <2>1. \A i \in 1..n : q[i].agent = rows[i].agent /\ q[i].pct = rows[i].pct BY <1>4, <1>6
  <2> QED BY <1>6, <2>1, RowsAlike
<1>10. Roled(q, rows, n, es, failed) BY <1>4, <1>6 DEF Roled
<1> QED BY <1>2, <1>8, <1>9, <1>10

-----------------------------------------------------------------------------
(* Shares and reasons.                                                     *)

(* The shares of the weights, and the total they are shares of.            *)
Whole(w) == IF Total(w) = 0 THEN 1 ELSE Total(w)
Portions(w) == [a \in DOMAIN w |-> Rounded(w[a] * 1000, Whole(w))]

(* A rounded quotient is a number.                                         *)
LEMMA RoundedInt == ASSUME NEW n \in Int, NEW d \in Nat, d > 0 PROVE Rounded(n, d) \in Int
BY DEF Rounded

(* Shares are numbers, of a whole that is not 0.                           *)
LEMMA PortionsInt ==
  ASSUME NEW A, IsFiniteSet(A), NEW w \in [A -> Nat]
  PROVE  /\ Whole(w) \in Nat /\ Whole(w) > 0 /\ DOMAIN Portions(w) = A
         /\ \A a \in A : Portions(w)[a] = Rounded(w[a] * 1000, Whole(w)) /\ Portions(w)[a] \in Int
<1>1. Total(w) \in Nat BY TotalNat
<1>2. Whole(w) \in Nat /\ Whole(w) > 0 BY <1>1 DEF Whole
<1>3. PICK t \in Nat : t = Whole(w) /\ t > 0 BY <1>2
<1>4. Portions(w) = [a \in A |-> Rounded(w[a] * 1000, t)] BY <1>3 DEF Portions
<1>5. ASSUME NEW a \in A PROVE Rounded(w[a] * 1000, t) \in Int
  <2>1. PICK n \in Int : n = w[a] * 1000 OBVIOUS
  <2>2. Rounded(n, t) \in Int BY <1>3, RoundedInt
  <2> QED BY <2>1, <2>2
<1> QED BY <1>2, <1>3, <1>4, <1>5

(* The root of a report, and what makes it one.                            *)
Originated(row, es) ==
  row.role = "originator" \/ (row.pct < 50 /\ ~AgentContext(row.agent, es).selfBad)
Blamed(rows, es, failed) ==
  /\ Rooted(rows, Len(rows), failed)
  /\ failed /\ Len(rows) > 0 => Originated(rows[1], es)

(* reasonFor() gives each row its reason, and the rows are as they were.   *)
Worded(new, rows, n, es, failed) ==
  \A i \in 1..n :
    /\ new[i].agent = rows[i].agent /\ new[i].pct = rows[i].pct
    /\ new[i].root = rows[i].root
    /\ new[i].reason = Reason(rows[i].agent, rows[i].pct, rows[i].root, failed, es)
WithReasons(rows, es, failed) ==
  Listed([i \in DOMAIN rows |->
    [rows[i] EXCEPT !.reason = Reason(rows[i].agent, rows[i].pct, rows[i].root, failed, es)]])

(* WithReasons() keeps the rows' agents, shares and order, and gives each  *)
(* its words.                                                              *)
LEMMA ExplainedRows ==
  ASSUME NEW A, NEW P, NEW rows, RowsFor(rows, A, P), Descending(rows), NEW failed \in BOOLEAN,
         NEW es, NEW n \in Nat, n = Len(rows)
  PROVE  /\ RowsFor(WithReasons(rows, es, failed), A, P)
         /\ Descending(WithReasons(rows, es, failed))
         /\ Len(WithReasons(rows, es, failed)) = n
         /\ Worded(WithReasons(rows, es, failed), rows, n, es, failed)
<1>1. DOMAIN rows = 1..n BY DEF RowsFor
<1> DEFINE e(i) == [rows[i] EXCEPT !.reason = Reason(rows[i].agent, rows[i].pct, rows[i].root, failed, es)]
           q == [i \in DOMAIN rows |-> e(i)]
<1>2. WithReasons(rows, es, failed) = Listed(q) BY DEF WithReasons
<1>3. \A i \in 1..n : rows[i] \in BlameRow(A) BY <1>1 DEF RowsFor
<1>4. ASSUME NEW i \in 1..n
      PROVE  /\ e(i) \in BlameRow(A) /\ e(i).agent = rows[i].agent /\ e(i).pct = rows[i].pct
             /\ e(i).root = rows[i].root
             /\ e(i).reason = Reason(rows[i].agent, rows[i].pct, rows[i].root, failed, es)
  <2>1. PICK r : r = rows[i] OBVIOUS
  <2>2. r \in BlameRow(A) BY <1>3, <2>1
  <2>3. r.pct \in Int /\ r.root \in BOOLEAN BY <2>2 DEF BlameRow
  <2>4. PICK x \in Words : x = Reason(r.agent, r.pct, r.root, failed, es) BY <2>3, ReasonOfRow
  <2>5. x = Reason(rows[i].agent, rows[i].pct, rows[i].root, failed, es) BY <2>1, <2>4
  <2>6. e(i) = [r EXCEPT !.reason = x] BY <2>1, <2>5
  <2> HIDE DEF e
  <2>7. /\ e(i) \in BlameRow(A) /\ e(i).agent = r.agent /\ e(i).pct = r.pct /\ e(i).root = r.root
        /\ e(i).reason = x
    BY <2>2, <2>4, <2>6 DEF BlameRow
  <2> QED BY <2>1, <2>5, <2>7
<1>5. q = [i \in 1..n |-> e(i)] BY <1>1
<1> HIDE DEF e
<1>6. q \in [1..n -> BlameRow(A)] /\ \A i \in 1..n : q[i] = e(i) BY <1>4, <1>5
<1> HIDE DEF q
<1>7. q = [i \in 1..n |-> q[i]] BY <1>6
<1>8. Listed(q) = q BY <1>7, ListedIs
<1>9. RowsFor(q, A, P) /\ Len(q) = n /\ Descending(q)
  <2>1. \A i \in 1..n : q[i].agent = rows[i].agent /\ q[i].pct = rows[i].pct BY <1>4, <1>6
  <2> QED BY <1>6, <2>1, RowsAlike
<1>10. Worded(q, rows, n, es, failed) BY <1>4, <1>6 DEF Worded
<1> QED BY <1>2, <1>8, <1>9, <1>10

(* A row for each agent, with its share of the weights w.                  *)
RowsOf(c, w) ==
  LET agents == OrderedAgents(c) IN
  [i \in DOMAIN agents |->
     [agent |-> agents[i], pct |-> Rounded(w[agents[i]] * 1000, Whole(w)), root |-> FALSE,
      inflated |-> Inflation(AgentContext(agents[i], c).edge) > 0,
      reason |-> "none", role |-> "none", mode |-> "unknown"]]

(* The first rows have every agent of the run once, with its share.        *)
LEMMA FirstRows ==
  ASSUME NEW A, NEW c \in Seq(Bearer(A)), A = AgentsOf(c), NEW w \in [A -> Nat]
  PROVE  RowsFor(RowsOf(c, w), A, Portions(w)) /\ Len(RowsOf(c, w)) = Cardinality(A)
<1>1. PICK l : l = OrderedAgents(c) OBVIOUS
<1>2. l \in Distinct(A) /\ Names(l) = A BY <1>1, AgentsListed
<1>3. Len(l) = Cardinality(A) BY <1>2, DistinctSize
<1>4. PICK n \in Nat : n = Len(l) /\ DOMAIN l = 1..n BY <1>2 DEF Distinct
<1>5. \A i \in 1..n : l[i] \in A BY <1>2, <1>4 DEF Distinct
<1> DEFINE e(i) == [agent |-> l[i], pct |-> Rounded(w[l[i]] * 1000, Whole(w)), root |-> FALSE,
                    inflated |-> Inflation(AgentContext(l[i], c).edge) > 0,
                    reason |-> "none", role |-> "none", mode |-> "unknown"]
           q == [i \in 1..n |-> e(i)]
<1>6. RowsOf(c, w) = q BY <1>1, <1>4 DEF RowsOf
<1>7. ASSUME NEW i \in 1..n
      PROVE  e(i) \in BlameRow(A) /\ e(i).agent = l[i] /\ e(i).pct = Portions(w)[l[i]]
  <2>1. PICK a \in A : a = l[i] BY <1>5
  <2>2. IsFiniteSet(A) BY AgentsFinite
  <2>3. PICK x \in Int : x = Portions(w)[a] /\ x = Rounded(w[a] * 1000, Whole(w)) BY <2>2, PortionsInt
  <2>31. \A y : (y > 0) \in BOOLEAN OBVIOUS
  <2>4. PICK b \in BOOLEAN : b = (Inflation(AgentContext(l[i], c).edge) > 0)
    <3>1. PICK y : y = Inflation(AgentContext(l[i], c).edge) OBVIOUS
    <3> QED BY <2>31, <3>1
  <2>5. e(i) = [agent |-> a, pct |-> x, root |-> FALSE, inflated |-> b,
                reason |-> "none", role |-> "none", mode |-> "unknown"]
    BY <2>1, <2>3, <2>4
  <2> HIDE DEF e
  <2>6. e(i) \in BlameRow(A) BY <2>5 DEF BlameRow, Words, BlameRoles, Modes
  <2>7. e(i).agent = a /\ e(i).pct = x BY <2>5
  <2> QED BY <2>1, <2>3, <2>6, <2>7
<1> HIDE DEF e
<1>8. q \in [1..n -> BlameRow(A)] /\ \A i \in 1..n : q[i] = e(i) BY <1>7
<1>9. q \in Seq(BlameRow(A)) /\ Len(q) = n BY <1>8
<1> HIDE DEF q
<1>10. \A i, j \in 1..n : q[i].agent = q[j].agent => i = j
  <2>1. \A i, j \in 1..n : l[i] = l[j] => i = j BY <1>2, <1>4 DEF Distinct
  <2> QED BY <1>7, <1>8, <2>1
<1>11. \A a \in A : \E i \in 1..n : q[i].agent = a BY <1>2, <1>4, <1>7, <1>8 DEF Names
<1>12. \A i \in 1..n : q[i].pct = Portions(w)[q[i].agent] BY <1>7, <1>8
<1>13. RowsFor(q, A, Portions(w)) BY <1>9, <1>10, <1>11, <1>12 DEF RowsFor
<1> QED BY <1>3, <1>4, <1>6, <1>9, <1>13

(* computeFromEdges(): a ranked row for each agent, the first of them the  *)
(* root of a run that failed, with a reason of its own.                    *)
LEMMA RuledRows ==
  ASSUME NEW A, NEW es \in Seq(Bearer(A)), A = AgentsOf(es), InHopOrder(es),
         NEW failed \in BOOLEAN, NEW n \in Nat, n = Cardinality(A)
  PROVE  /\ RowsFor(RuleBlames(es, failed), A,
                    Portions(FinalWeights(CollapseRetryStorms(es), failed)))
         /\ Descending(RuleBlames(es, failed)) /\ Len(RuleBlames(es, failed)) = n
         /\ Blamed(RuleBlames(es, failed), es, failed)
         /\ failed /\ n > 0 => RuleBlames(es, failed)[1].reason \in RootReasons
<1>1. PICK c : c = CollapseRetryStorms(es) OBVIOUS
<1>2. c \in Seq(Bearer(A)) /\ AgentsOf(c) = A BY <1>1, CollapsedType
<1>3. PICK w \in [A -> Nat] : w = FinalWeights(c, failed) BY <1>2, FinalKeeps
<1>4. PICK P : P = Portions(w) OBVIOUS
<1>5. RuleBlames(es, failed) =
        Enrich(WithReasons(MarkRoot(Ranked(RowsOf(c, w)), failed), c, failed), c, failed)
  BY <1>1, <1>3 DEF RuleBlames, WithReasons, RowsOf, Whole
<1>6. PICK raw : raw = RowsOf(c, w) OBVIOUS
<1>7. RowsFor(raw, A, P) /\ Len(raw) = n BY <1>2, <1>4, <1>6, FirstRows
<1>8. PICK ranked : ranked = Ranked(raw) OBVIOUS
<1>9. RowsFor(ranked, A, P) /\ Descending(ranked) /\ Len(ranked) = n BY <1>7, <1>8, RankedRows
<1>10. PICK marked : marked = MarkRoot(ranked, failed) OBVIOUS
<1>11. RowsFor(marked, A, P) /\ Descending(marked) /\ Len(marked) = n /\ Rooted(marked, n, failed)
  BY <1>9, <1>10, MarkedRows
<1>12. PICK worded : worded = WithReasons(marked, c, failed) OBVIOUS
<1>13. /\ RowsFor(worded, A, P) /\ Descending(worded) /\ Len(worded) = n
       /\ Worded(worded, marked, n, c, failed)
  BY <1>11, <1>12, ExplainedRows
<1>14. PICK r : r = RuleBlames(es, failed) OBVIOUS
<1>15. r = Enrich(worded, c, failed) BY <1>5, <1>6, <1>8, <1>10, <1>12, <1>14
<1>16. /\ RowsFor(r, A, P) /\ Descending(r) /\ Len(r) = n /\ Roled(r, worded, n, c, failed)
  BY <1>13, <1>15, EnrichedRows
<1>17. Rooted(r, n, failed) BY <1>11, <1>13, <1>16 DEF Rooted, Worded, Roled
<1>18. ASSUME failed, n > 0 PROVE Originated(r[1], es) /\ r[1].reason \in RootReasons
  <2>1. 1 \in 1..n BY <1>18
  <2>2. /\ worded[1] \in BlameRow(A) /\ r[1] \in BlameRow(A) /\ marked[1] \in BlameRow(A)
    BY <1>11, <1>13, <1>16, <2>1 DEF RowsFor
  <2>3. /\ worded[1].pct \in Int /\ worded[1].root \in BOOLEAN /\ marked[1].pct \in Int
        /\ marked[1].root \in BOOLEAN /\ r[1].agent \in A
    BY <2>2 DEF BlameRow
  <2>4. worded[1].root = TRUE /\ marked[1].root = TRUE /\ r[1].root = TRUE
    BY <1>11, <1>13, <1>17, <1>18, <2>1, <2>3 DEF Rooted, Worded
  <2>5. r[1].agent = worded[1].agent /\ r[1].pct = worded[1].pct
    BY <1>16, <2>1 DEF Roled
  <2>6. r[1].reason \in RootReasons
    <3>1. r[1].reason = Reason(marked[1].agent, marked[1].pct, marked[1].root, failed, c)
      BY <1>13, <1>16, <2>1 DEF Worded, Roled
    <3>2. PICK x \in Int, b \in BOOLEAN : x = marked[1].pct /\ b = marked[1].root BY <2>3
    <3>3. b BY <2>4, <3>2
    <3>4. Reason(marked[1].agent, x, b, failed, c) \in RootReasons BY <1>18, <3>3, ReasonOfRow
    <3> QED BY <3>1, <3>2, <3>4
  <2>7. PICK ctx : ctx = AgentContext(worded[1].agent, c) OBVIOUS
  <2>8. ctx.selfBad \in BOOLEAN /\ ctx.upstreamBad \in BOOLEAN /\ ctx.terminal \in BOOLEAN
    BY <2>7, ContextBooleans
  <2>9. r[1].role = BlameRole(worded[1].pct, worded[1].root, failed, ctx)
    BY <1>16, <2>1, <2>7 DEF Roled
  <2>10. r[1].role = "originator" \/ (worded[1].pct < 50 /\ ~ctx.selfBad)
    <3>1. PICK x \in Int, b \in BOOLEAN : x = worded[1].pct /\ b = worded[1].root BY <2>3
    <3>2. b BY <2>4, <3>1
    <3>3. r[1].role = BlameRole(x, TRUE, TRUE, ctx) BY <1>18, <2>4, <2>9, <3>1, <3>2
    <3>4. Judged(ctx) BY <2>8 DEF Judged
    <3>5. Guilty(r[1].role, x, ctx) BY <3>3, <3>4, RoleOfRoot
    <3> QED BY <3>1, <3>5 DEF Guilty
  <2>11. ctx.selfBad = AgentContext(r[1].agent, es).selfBad
    BY <1>1, <2>3, <2>5, <2>7, SameContext
  <2> QED BY <2>5, <2>6, <2>10, <2>11 DEF Originated
<1>19. Blamed(r, es, failed) BY <1>16, <1>17, <1>18 DEF Blamed
<1> QED BY <1>1, <1>3, <1>4, <1>14, <1>16, <1>18, <1>19

-----------------------------------------------------------------------------
(* Sums of shares, rounded and mixed.                                      *)

(* Multiplication distributes.                                             *)
LEMMA Distributes ==
  ASSUME NEW a \in Int, NEW b \in Int, NEW c \in Int
  PROVE  a * (b + c) = a * b + a * c /\ (b + 1) * a = b * a + a /\ a * b \in Int /\ 0 * a = 0 /\ a * 0 = 0
OBVIOUS

(* The sum with one more agent.                                            *)
LEMMA SumsAdd ==
  ASSUME NEW A, NEW g, NEW w, Sums(g, A, w), NEW T \in SUBSET A, NEW x \in A \ T
  PROVE  g[T \cup {x}] = w[x] + g[T] /\ g[T] \in Int /\ g[T \cup {x}] \in Int
<1>1. PICK U \in SUBSET A : U = T \cup {x} OBVIOUS
<1>2. x \in U /\ U \ {x} = T BY <1>1
<1>3. g[U] = w[x] + g[U \ {x}] BY <1>2 DEF Sums
<1>4. g[U] \in Int /\ g[T] \in Int BY DEF Sums
<1> QED BY <1>1, <1>2, <1>3, <1>4

(* Sums of mixtures are mixtures of sums.                                  *)
LEMMA Mixing ==
  ASSUME NEW c \in Int, NEW d \in Int, NEW a \in Int, NEW b \in Int, NEW x \in Int, NEW y \in Int
  PROVE  (c * a + d * b) + (c * x + d * y) = c * (a + x) + d * (b + y)
<1>1. c * (a + x) = c * a + c * x /\ d * (b + y) = d * b + d * y BY Distributes
<1>2. c * a \in Int /\ c * x \in Int /\ d * b \in Int /\ d * y \in Int BY Distributes
<1> QED BY <1>1, <1>2

(* Sums of numbers that are each within b of each other, but for factors.  *)
Near(x, y, c, d, b) == c * x - d * y \in (-b)..b

Numbers(p, A) == \A a \in A : p[a] \in Int
AllNear(p, u, A, c, d, b) == \A a \in A : Near(p[a], u[a], c, d, b)

(* If each of n numbers is within b of the other's multiple, the sums are  *)
(* within n * b.                                                           *)
LEMMA SumsClose ==
  ASSUME NEW A, IsFiniteSet(A), NEW p, NEW u, Numbers(p, A), Numbers(u, A),
         NEW c \in Int, NEW d \in Int, NEW b \in Nat, AllNear(p, u, A, c, d, b),
         NEW g, Sums(g, A, p), NEW h, Sums(h, A, u), NEW t, t = Cardinality(A) * b
  PROVE  Near(g[A], h[A], c, d, t)
<1> DEFINE G == {T \in SUBSET A : /\ IsFiniteSet(T)
                                  /\ c * g[T] - d * h[T] \in (-(Cardinality(T) * b))..(Cardinality(T) * b)}
<1>1. {} \in G
  <2>1. IsFiniteSet({}) /\ Cardinality({}) = 0 BY FS_EmptySet
  <2>2. g[{}] = 0 /\ h[{}] = 0 BY DEF Sums
  <2>3. c * 0 = 0 /\ d * 0 = 0 /\ 0 * b = 0 BY Distributes
  <2>4. 0 - 0 \in (-0)..0 OBVIOUS
  <2> QED BY <2>1, <2>2, <2>3, <2>4
<1>2. \A T \in SUBSET A : \A x \in A \ T : T \in G => T \cup {x} \in G
  <2> SUFFICES ASSUME NEW T \in SUBSET A, NEW x \in A \ T, T \in G PROVE T \cup {x} \in G OBVIOUS
  <2>1. (T \cup {x}) \ {x} = T /\ T \cup {x} \in SUBSET A /\ x \in A OBVIOUS
  <2>2. g[T \cup {x}] = p[x] + g[T] /\ h[T \cup {x}] = u[x] + h[T] /\ g[T] \in Int /\ h[T] \in Int
    BY SumsAdd
  <2>3. IsFiniteSet(T) /\ c * g[T] - d * h[T] \in (-(Cardinality(T) * b))..(Cardinality(T) * b) OBVIOUS
  <2>4. IsFiniteSet(T \cup {x}) /\ Cardinality(T \cup {x}) = Cardinality(T) + 1 BY <2>3, FS_AddElement
  <2>5. PICK k \in Nat : k = Cardinality(T) BY <2>3, FS_CardinalityType
  <2>6. c * p[x] - d * u[x] \in (-b)..b /\ p[x] \in Int /\ u[x] \in Int BY DEF Near, AllNear, Numbers
  <2>7. /\ c * (p[x] + g[T]) = c * p[x] + c * g[T] /\ d * (u[x] + h[T]) = d * u[x] + d * h[T]
        /\ (k + 1) * b = k * b + b
    BY <2>2, <2>6, Distributes
  <2>8. /\ c * p[x] \in Int /\ c * g[T] \in Int /\ d * u[x] \in Int /\ d * h[T] \in Int /\ k * b \in Int
    BY <2>2, <2>6, Distributes
  <2>9. c * (p[x] + g[T]) - d * (u[x] + h[T]) \in (-((k + 1) * b))..((k + 1) * b)
    BY <2>3, <2>5, <2>6, <2>7, <2>8
  <2> QED BY <2>1, <2>2, <2>4, <2>5, <2>9
<1>3. SUBSET A \subseteq G
  <2> HIDE DEF G
  <2> QED BY <1>1, <1>2, Growing
<1> QED BY <1>3 DEF Near

(* A sum of sums.                                                          *)
Mixes(z, x, y, c, d) == z = c * x + d * y
AllMix(m, p, u, A, c, d) == \A a \in A : Mixes(m[a], p[a], u[a], c, d)

(* The sum of the mixed shares is the mixture of the sums.                 *)
LEMMA SumsMix ==
  ASSUME NEW A, IsFiniteSet(A), NEW p, NEW u, Numbers(p, A), Numbers(u, A),
         NEW c \in Int, NEW d \in Int, NEW m, AllMix(m, p, u, A, c, d),
         NEW g, Sums(g, A, p), NEW h, Sums(h, A, u), NEW k, Sums(k, A, m)
  PROVE  Mixes(k[A], g[A], h[A], c, d)
<1> DEFINE G == {T \in SUBSET A : k[T] = c * g[T] + d * h[T]}
<1>1. {} \in G
  <2>1. c * 0 = 0 /\ d * 0 = 0 BY Distributes
  <2> QED BY <2>1 DEF Sums
<1>2. \A T \in SUBSET A : \A x \in A \ T : T \in G => T \cup {x} \in G
  <2> SUFFICES ASSUME NEW T \in SUBSET A, NEW x \in A \ T, T \in G PROVE T \cup {x} \in G OBVIOUS
  <2>1. (T \cup {x}) \ {x} = T /\ T \cup {x} \in SUBSET A /\ x \in A OBVIOUS
  <2>4. k[T] = c * g[T] + d * h[T] OBVIOUS
  <2> HIDE DEF G
  <2>20. g[T \cup {x}] = p[x] + g[T] /\ g[T] \in Int BY SumsAdd
  <2>21. h[T \cup {x}] = u[x] + h[T] /\ h[T] \in Int BY SumsAdd
  <2>2. /\ g[T \cup {x}] = p[x] + g[T] /\ h[T \cup {x}] = u[x] + h[T] /\ g[T] \in Int /\ h[T] \in Int
    BY <2>20, <2>21
  <2>3. k[T \cup {x}] = m[x] + k[T] /\ k[T] \in Int BY SumsAdd
  <2>5. p[x] \in Int /\ u[x] \in Int /\ m[x] = c * p[x] + d * u[x] BY DEF Mixes, AllMix, Numbers
  <2>6. (c * p[x] + d * u[x]) + (c * g[T] + d * h[T]) = c * (p[x] + g[T]) + d * (u[x] + h[T])
    BY <2>2, <2>5, Mixing
  <2>7. k[T \cup {x}] = c * g[T \cup {x}] + d * h[T \cup {x}] BY <2>2, <2>3, <2>4, <2>5, <2>6
  <2> QED BY <2>7 DEF G
<1>3. SUBSET A \subseteq G
  <2> HIDE DEF G
  <2> QED BY <1>1, <1>2, Growing
<1> QED BY <1>3 DEF Mixes

(* A sum over the rows is one over their agents.                           *)
Pairs(f, S, A) ==
  /\ f \in [S -> A] /\ \A i, j \in S : f[i] = f[j] => i = j
  /\ \A a \in A : \E i \in S : f[i] = a

(* Summed over the rows, each agent's number is counted once.              *)
LEMMA SumsOfRows ==
  ASSUME NEW A, NEW S, IsFiniteSet(S), NEW f, Pairs(f, S, A),
         NEW p, NEW v, \A i \in S : v[i] = p[f[i]],
         NEW g, Sums(g, S, v), NEW h, Sums(h, A, p)
  PROVE  g[S] = h[A]
<1> DEFINE Of(T) == {f[i] : i \in T}
           G == {T \in SUBSET S : g[T] = h[Of(T)]}
<1>0. f \in [S -> A] /\ (\A i, j \in S : f[i] = f[j] => i = j) /\ Of(S) = A BY DEF Pairs
<1>1. {} \in G
  <2>1. Of({}) = {} OBVIOUS
  <2> QED BY <2>1 DEF Sums
<1>2. \A T \in SUBSET S : \A x \in S \ T : T \in G => T \cup {x} \in G
  <2> SUFFICES ASSUME NEW T \in SUBSET S, NEW x \in S \ T, T \in G PROVE T \cup {x} \in G OBVIOUS
  <2>1. (T \cup {x}) \ {x} = T /\ T \cup {x} \in SUBSET S /\ x \in S OBVIOUS
  <2>2. Of(T \cup {x}) \ {f[x]} = Of(T) /\ f[x] \in Of(T \cup {x}) /\ Of(T \cup {x}) \in SUBSET A BY <1>0
  <2>3. g[T \cup {x}] = v[x] + g[T] /\ g[T] = h[Of(T)] BY <2>1 DEF Sums
  <2> HIDE DEF Of
  <2>31. PICK U \in SUBSET A : U = Of(T \cup {x}) BY <2>2
  <2>4. h[U] = p[f[x]] + h[U \ {f[x]}] BY <2>2, <2>31 DEF Sums
  <2> QED BY <2>1, <2>2, <2>3, <2>31, <2>4
<1>3. SUBSET S \subseteq G
  <2> HIDE DEF G
  <2> QED BY <1>1, <1>2, Growing
<1> QED BY <1>0, <1>3

(* Multiplying by a number keeps an order.                                 *)
LEMMA Monotone ==
  ASSUME NEW d \in Nat, NEW a \in Int, NEW b \in Int, a <= b
  PROVE  d * a <= d * b
OBVIOUS

(* The bound on the sum of rounded shares, divided by the whole.           *)
LEMMA Scaled ==
  ASSUME NEW s \in Int, NEW t \in Nat, t > 0, NEW n \in Nat, NEW c, c = 2 * t, NEW b, b = n * t,
         Near(s, t, c, 2000, b)
  PROVE  2 * s - 2000 \in (-n)..n
<1>0. (2 * t) * s - 2000 * t \in (-(n * t))..(n * t) BY DEF Near
<1>1. (2 * t) * s = t * (2 * s) /\ n * t = t * n /\ t * (2 * s) \in Int /\ t * n \in Int OBVIOUS
<1>2. ~(2 * s >= 2000 + n + 1)
  <2> SUFFICES ASSUME 2 * s >= 2000 + n + 1 PROVE FALSE OBVIOUS
  <2>1. t * (2000 + n + 1) <= t * (2 * s) BY Monotone
  <2>2. t * (2000 + n + 1) = 2000 * t + t * n + t OBVIOUS
  <2> QED BY <1>0, <1>1, <2>1, <2>2
<1>3. ~(2 * s + n + 1 <= 2000)
  <2> SUFFICES ASSUME 2 * s + n + 1 <= 2000 PROVE FALSE OBVIOUS
  <2>1. t * (2 * s + n + 1) <= t * 2000 BY Monotone
  <2>2. t * (2 * s + n + 1) = t * (2 * s) + t * n + t OBVIOUS
  <2> QED BY <1>0, <1>1, <2>1, <2>2
<1> QED BY <1>2, <1>3

(* The shares add up to 100% but for rounding.                             *)
Counts(P, A) == DOMAIN P = A /\ \A a \in A : P[a] \in Int
NearWhole(P, n) == 2 * Total(P) - 2000 \in (-n)..n
Summed(t, n) == t - 1000 \in (-n)..n

(* Rounded shares of n agents sum to 1000 but for n halves.                *)
LEMMA PortionsSum ==
  ASSUME NEW A, IsFiniteSet(A), NEW w \in [A -> Nat], Total(w) > 0, NEW n \in Nat, n = Cardinality(A)
  PROVE  NearWhole(Portions(w), n)
<1>1. PICK t \in Nat : t = Total(w) /\ t = Whole(w) /\ t > 0 BY TotalNat DEF Whole
<1>2. PICK p : p = Portions(w) OBVIOUS
<1>3. DOMAIN p = A /\ \A a \in A : p[a] = Rounded(w[a] * 1000, t) /\ p[a] \in Int
  BY <1>1, <1>2, PortionsInt
<1>4. PICK g : Sums(g, A, p) /\ Total(p) = g[A] BY <1>3, TotalIs
<1>5. PICK h : Sums(h, A, w) /\ Total(w) = h[A] BY TotalIs
<1>6. PICK c \in Int : c = 2 * t OBVIOUS
<1>7. AllNear(p, w, A, c, 2000, t)
  <2> SUFFICES \A a \in A : Near(p[a], w[a], c, 2000, t) BY DEF AllNear
  <2> TAKE a \in A
  <2>1. PICK m \in Int : m = 2 * (w[a] * 1000) + t /\ p[a] = m \div c
    <3>1. w[a] \in Nat OBVIOUS
    <3> QED BY <1>3, <1>6, <3>1 DEF Rounded
  <2>2. c \in Nat /\ c > 0 BY <1>1, <1>6
  <2>3. c * (m \div c) <= m /\ m < c * (m \div c) + c BY <2>2, Division
  <2>4. c * p[a] \in Int BY <1>3, Distributes
  <2>5. w[a] \in Nat OBVIOUS
  <2> QED BY <1>6, <2>1, <2>3, <2>4, <2>5 DEF Near
<1>8. Numbers(p, A) /\ Numbers(w, A) BY <1>3 DEF Numbers
<1>81. PICK b \in Nat : b = n * t OBVIOUS
<1>9. Near(g[A], h[A], c, 2000, b) BY <1>81, <1>4, <1>5, <1>7, <1>8, SumsClose
<1>10. PICK s \in Int : s = g[A] BY <1>4 DEF Sums
<1>100. h[A] = t BY <1>1, <1>5
<1>101. Near(s, t, c, 2000, b) BY <1>9, <1>10, <1>100
<1>11. 2 * s - 2000 \in (-n)..n BY <1>1, <1>6, <1>81, <1>101, Scaled
<1> QED BY <1>2, <1>4, <1>10, <1>11 DEF NearWhole

(* The rows add up to what their agents have.                              *)
LEMMA RowsSum ==
  ASSUME NEW A, IsFiniteSet(A), NEW P, Counts(P, A),
         NEW rows, RowsFor(rows, A, P), NEW n \in Nat, n = Len(rows)
  PROVE  Total([i \in 1..n |-> rows[i].pct]) = Total(P)
<1>0. DOMAIN P = A /\ \A a \in A : P[a] \in Int BY DEF Counts
<1> DEFINE v == [i \in 1..n |-> rows[i].pct]
           f == [i \in 1..n |-> rows[i].agent]
<1>1. \A i \in 1..n : rows[i] \in BlameRow(A) /\ rows[i].agent \in A /\ rows[i].pct = P[rows[i].agent]
  <2> TAKE i \in 1..n
  <2>1. rows[i] \in BlameRow(A) BY DEF RowsFor
  <2> QED BY <2>1 DEF RowsFor, BlameRow
<1>2. f \in [1..n -> A] /\ \A i, j \in 1..n : f[i] = f[j] => i = j BY <1>1 DEF RowsFor
<1>3. {f[i] : i \in 1..n} = A BY <1>1 DEF RowsFor
<1>4. \A i \in 1..n : v[i] = P[f[i]] /\ v[i] \in Int BY <1>0, <1>1
<1>5. DOMAIN v = 1..n OBVIOUS
<1>6. IsFiniteSet(1..n) BY SizeUpTo
<1> HIDE DEF v, f
<1>7. PICK g : Sums(g, 1..n, v) /\ Total(v) = g[1..n] BY <1>4, <1>5, <1>6, TotalIs
<1>8. PICK h : Sums(h, A, P) /\ Total(P) = h[A] BY <1>0, TotalIs
<1>9. PICK S : S = 1..n OBVIOUS
<1>10. Pairs(f, S, A) BY <1>2, <1>3, <1>9 DEF Pairs
<1>11. g[S] = h[A] BY <1>4, <1>6, <1>7, <1>8, <1>9, <1>10, SumsOfRows
<1>12. g[1..n] = h[A] BY <1>9, <1>11
<1> QED BY <1>7, <1>8, <1>12 DEF v

(* The fusion keeps the sum.                                               *)
Mixed(P, sh, alpha) == [a \in DOMAIN P |-> Rounded((100 - alpha) * P[a] + alpha * sh[a], 100)]

MixedShares(q, A, P, sh, alpha) ==
  /\ DOMAIN q = A
  /\ \A a \in A : q[a] = Rounded((100 - alpha) * P[a] + alpha * sh[a], 100) /\ q[a] \in Int

(* The mixture of rule and ML shares is a number for each agent.           *)
LEMMA MixedInt ==
  ASSUME NEW A, NEW P, Counts(P, A), NEW sh \in [A -> Nat], NEW alpha \in 0..100
  PROVE  MixedShares(Mixed(P, sh, alpha), A, P, sh, alpha)
<1>1. ASSUME NEW a \in A PROVE Rounded((100 - alpha) * P[a] + alpha * sh[a], 100) \in Int
  <2>1. P[a] \in Int /\ sh[a] \in Int /\ alpha \in Int /\ 100 - alpha \in Int BY DEF Counts
  <2>2. PICK x \in Int : x = (100 - alpha) * P[a] BY <2>1, Distributes
  <2>3. PICK y \in Int : y = alpha * sh[a] BY <2>1, Distributes
  <2>4. PICK z \in Int : z = x + y OBVIOUS
  <2>5. Rounded(z, 100) \in Int BY RoundedInt
  <2> QED BY <2>2, <2>3, <2>4, <2>5
<1> QED BY <1>1 DEF Mixed, MixedShares, Counts

(* Mixed shares of n agents sum to 1000 but for 2n halves, if the ML's sum *)
(* to 1000.                                                                *)
LEMMA MixedSum ==
  ASSUME NEW A, IsFiniteSet(A), NEW n \in Nat, n = Cardinality(A),
         NEW P, Counts(P, A), NearWhole(P, n),
         NEW sh \in [A -> Nat], Total(sh) = 1000, NEW alpha \in 0..100
  PROVE  Summed(Total(Mixed(P, sh, alpha)), n)
<1>0. DOMAIN P = A /\ (\A a \in A : P[a] \in Int) /\ 2 * Total(P) - 2000 \in (-n)..n
  BY DEF Counts, NearWhole
<1>1. PICK q : q = Mixed(P, sh, alpha) OBVIOUS
<1>2. /\ DOMAIN q = A
      /\ \A a \in A : q[a] = Rounded((100 - alpha) * P[a] + alpha * sh[a], 100) /\ q[a] \in Int
  <2>1. MixedShares(q, A, P, sh, alpha) BY <1>1, MixedInt
  <2> QED BY <2>1 DEF MixedShares
<1>3. PICK c \in Int : c = 100 - alpha OBVIOUS
<1> DEFINE m == [a \in A |-> c * P[a] + alpha * sh[a]]
<1>5. \A a \in A : m[a] = c * P[a] + alpha * sh[a] /\ m[a] \in Int
  <2> TAKE a \in A
  <2>1. P[a] \in Int /\ sh[a] \in Int /\ alpha \in Int BY <1>0
  <2>2. c * P[a] \in Int /\ alpha * sh[a] \in Int BY <2>1, Distributes
  <2> QED BY <2>2
<1>6. DOMAIN m = A OBVIOUS
<1> HIDE DEF m
<1>7. PICK g : Sums(g, A, P) /\ Total(P) = g[A] BY <1>0, TotalIs
<1>8. DOMAIN sh = A /\ \A a \in A : sh[a] \in Int OBVIOUS
<1>9. PICK h : Sums(h, A, sh) /\ Total(sh) = h[A] BY <1>8, TotalIs
<1>10. PICK k : Sums(k, A, m) /\ Total(m) = k[A] BY <1>5, <1>6, TotalIs
<1>11. PICK l : Sums(l, A, q) /\ Total(q) = l[A] BY <1>2, TotalIs
<1>12. alpha \in Int /\ Numbers(P, A) /\ Numbers(sh, A) BY <1>0, <1>8 DEF Numbers
<1>121. AllMix(m, P, sh, A, c, alpha) BY <1>5 DEF Mixes, AllMix
<1>122. Mixes(k[A], g[A], h[A], c, alpha) BY <1>121, <1>7, <1>9, <1>10, <1>12, SumsMix
<1>13. k[A] = c * g[A] + alpha * h[A] BY <1>122 DEF Mixes
<1>14. AllNear(q, m, A, 200, 2, 100)
  <2> SUFFICES \A a \in A : Near(q[a], m[a], 200, 2, 100) BY DEF AllNear
  <2> TAKE a \in A
  <2>1. PICK x \in Int : x = m[a] BY <1>5
  <2>2. q[a] = (2 * x + 100) \div 200
    <3>1. q[a] = Rounded(x, 100) BY <1>2, <1>3, <1>5, <2>1
    <3> QED BY <3>1 DEF Rounded
  <2> QED BY <2>1, <2>2 DEF Near
<1>15. Numbers(q, A) /\ Numbers(m, A) BY <1>2, <1>5 DEF Numbers
<1>151. PICK b \in Nat : b = n * 100 OBVIOUS
<1>152. Near(l[A], k[A], 200, 2, b) BY <1>10, <1>11, <1>14, <1>15, <1>151, SumsClose
<1>16. 200 * l[A] - 2 * k[A] \in (-(n * 100))..(n * 100) BY <1>151, <1>152 DEF Near
<1>17. l[A] \in Int /\ g[A] \in Int /\ h[A] = 1000 BY <1>7, <1>9, <1>11 DEF Sums
<1>18. 2 * (c * g[A]) \in (c * 2000 - c * n)..(c * 2000 + c * n)
  <2>1. PICK s \in Int : s = g[A] BY <1>17
  <2>2. 2 * s <= 2000 + n /\ 2000 - n <= 2 * s BY <1>0, <1>7, <2>1
  <2>3. c \in Nat BY <1>3
  <2>4. c * (2 * s) <= c * (2000 + n) /\ c * (2000 - n) <= c * (2 * s) BY <2>2, <2>3, Monotone
  <2>5. c * (2 * s) = 2 * (c * s) /\ c * (2000 + n) = c * 2000 + c * n /\ c * (2000 - n) = c * 2000 - c * n
    OBVIOUS
  <2>6. c * s \in Int /\ c * n \in Int BY Distributes
  <2> QED BY <2>1, <2>4, <2>5, <2>6
<1>19. c * n <= 100 * n /\ c * n \in Int
  <2>1. c <= 100 BY <1>3
  <2>2. n * c <= n * 100 BY <2>1, Monotone
  <2>3. n * c = c * n /\ c * n \in Int OBVIOUS
  <2> QED BY <2>2, <2>3
<1>20. c * g[A] \in Int BY <1>17, Distributes
<1>21. l[A] - 1000 \in (-n)..n
  <2>1. PICK x \in Int : x = c * g[A] BY <1>20
  <2>2. k[A] = x + alpha * 1000 BY <1>13, <1>17, <2>1
  <2>3. c * 2000 = (100 - alpha) * 2000 BY <1>3
  <2>4. PICK y \in Int : y = c * n BY <1>19
  <2>5. 2 * x \in ((100 - alpha) * 2000 - y)..((100 - alpha) * 2000 + y) BY <1>18, <2>1, <2>3, <2>4
  <2>6. y <= 100 * n BY <1>19, <2>4
  <2> QED BY <1>16, <1>17, <2>2, <2>5, <2>6
<1> QED BY <1>1, <1>11, <1>21 DEF Summed

-----------------------------------------------------------------------------
(* The rows a report has in the end.                                       *)

FirstIsRoot(rows, n) == \A i \in 1..n : rows[i].root <=> i = 1
RootedRows(rows, A, P, n) ==
  RowsFor(rows, A, P) /\ Descending(rows) /\ Len(rows) = n /\ FirstIsRoot(rows, n)
BlamedRows(rows, A, P, n, es) ==
  RootedRows(rows, A, P, n) /\ (n > 0 => Originated(rows[1], es))

(* Of a failed run, rows whose first alone is the root are Rooted.         *)
LEMMA RootedIfFirst ==
  ASSUME NEW rows, NEW n, NEW failed, failed = TRUE, FirstIsRoot(rows, n)
  PROVE  Rooted(rows, n, failed)
<1>1. Rooted(rows, n, TRUE) BY DEF Rooted, FirstIsRoot
<1> QED BY <1>1

(* fuseBlameScores() mixes the shares and ranks the rows again.            *)
LEMMA FusedRows ==
  ASSUME NEW A, NEW P, Counts(P, A), NEW rows, RowsFor(rows, A, P), NEW n \in Nat, n = Len(rows),
         NEW sh \in [A -> Nat], NEW alpha \in 0..100,
         NEW f, f = Fuse(rows, sh, alpha), NEW Q, Q = Mixed(P, sh, alpha)
  PROVE  RootedRows(f, A, Q, n)
<1>1. DOMAIN rows = 1..n BY DEF RowsFor
<1>3. \A a \in A : Q[a] = Rounded((100 - alpha) * P[a] + alpha * sh[a], 100) /\ Q[a] \in Int
  <2>1. MixedShares(Q, A, P, sh, alpha) BY MixedInt
  <2> QED BY <2>1 DEF MixedShares
<1> DEFINE e(i) == [rows[i] EXCEPT !.pct = Rounded((100 - alpha) * rows[i].pct + alpha * sh[rows[i].agent], 100)]
           q == [i \in DOMAIN rows |-> e(i)]
<1>4. Fuse(rows, sh, alpha) = MarkRoot(Ranked(q), TRUE) BY DEF Fuse
<1>5. ASSUME NEW i \in 1..n
      PROVE  e(i) \in BlameRow(A) /\ e(i).agent = rows[i].agent /\ e(i).pct = Q[rows[i].agent]
  <2>1. PICK r : r = rows[i] OBVIOUS
  <2>2. r \in BlameRow(A) /\ r.pct = P[r.agent] BY <1>1, <2>1 DEF RowsFor
  <2>3. r.agent \in A BY <2>2 DEF BlameRow
  <2>4. PICK x \in Int : x = Q[r.agent] BY <1>3, <2>3
  <2>5. x = Rounded((100 - alpha) * r.pct + alpha * sh[r.agent], 100) BY <1>3, <2>2, <2>3, <2>4
  <2>6. e(i) = [r EXCEPT !.pct = x] BY <2>1, <2>5
  <2> HIDE DEF e
  <2>7. e(i) \in BlameRow(A) /\ e(i).agent = r.agent /\ e(i).pct = x BY <2>2, <2>6 DEF BlameRow
  <2> QED BY <2>1, <2>4, <2>7
<1>6. q = [i \in 1..n |-> e(i)] BY <1>1
<1> HIDE DEF e
<1>7. q \in [1..n -> BlameRow(A)] /\ \A i \in 1..n : q[i] = e(i) BY <1>5, <1>6
<1> HIDE DEF q
<1>8. q \in Seq(BlameRow(A)) /\ Len(q) = n BY <1>7
<1>9. RowsFor(q, A, Q)
  <2>1. \A i, j \in 1..n : q[i].agent = q[j].agent => i = j
    <3>1. \A i, j \in 1..n : rows[i].agent = rows[j].agent => i = j BY DEF RowsFor
    <3> QED BY <1>5, <1>7, <3>1
  <2>2. \A a \in A : \E i \in 1..n : q[i].agent = a
    <3>1. \A a \in A : \E i \in 1..n : rows[i].agent = a BY DEF RowsFor
    <3> QED BY <1>5, <1>7, <3>1
  <2>3. \A i \in 1..n : q[i].pct = Q[q[i].agent] BY <1>5, <1>7
  <2> QED BY <1>8, <2>1, <2>2, <2>3 DEF RowsFor
<1>10. PICK ranked : ranked = Ranked(q) OBVIOUS
<1>11. RowsFor(ranked, A, Q) /\ Descending(ranked) /\ Len(ranked) = n BY <1>8, <1>9, <1>10, RankedRows
<1>12. PICK b \in BOOLEAN : b = TRUE OBVIOUS
<1>121. f = MarkRoot(ranked, b) BY <1>4, <1>10, <1>12
<1>122. RowsFor(f, A, Q) /\ Descending(f) /\ Len(f) = n /\ Rooted(f, n, b)
  BY <1>11, <1>121, MarkedRows
<1>13. RowsFor(f, A, Q) /\ Descending(f) /\ Len(f) = n /\ FirstIsRoot(f, n)
  BY <1>12, <1>122 DEF Rooted, FirstIsRoot
<1> QED BY <1>13 DEF RootedRows

(* The rows a report is stored with, with and without the ML.              *)
Rows(es, failed, sh, alpha) ==
  IF failed /\ sh # <<>> THEN Enrich(Fuse(RuleBlames(es, failed), sh, alpha), es, TRUE)
  ELSE RuleBlames(es, failed)

(* Enriched again for a failed run, the first row is still the root, with  *)
(* a guilty role.                                                          *)
LEMMA EnrichedRoot ==
  ASSUME NEW A, NEW P, NEW rows, NEW es, NEW n \in Nat, RootedRows(rows, A, P, n),
         NEW r, r = Enrich(rows, es, TRUE)
  PROVE  BlamedRows(r, A, P, n, es)
<1>1. RowsFor(rows, A, P) /\ Descending(rows) /\ n = Len(rows) /\ FirstIsRoot(rows, n) BY DEF RootedRows
<1>2. RowsFor(r, A, P) /\ Descending(r) /\ Len(r) = n /\ Roled(r, rows, n, es, TRUE)
  BY <1>1, EnrichedRows
<1>3. FirstIsRoot(r, n) BY <1>1, <1>2 DEF FirstIsRoot, Roled
<1>4. ASSUME n > 0 PROVE Originated(r[1], es)
  <2>1. 1 \in 1..n BY <1>4
  <2>2. rows[1] \in BlameRow(A) BY <1>1, <2>1 DEF RowsFor
  <2>3. rows[1].pct \in Int /\ rows[1].root \in BOOLEAN BY <2>2 DEF BlameRow
  <2>4. rows[1].root = TRUE BY <1>1, <2>1, <2>3 DEF FirstIsRoot
  <2>5. r[1].agent = rows[1].agent /\ r[1].pct = rows[1].pct BY <1>2, <2>1 DEF Roled
  <2>6. PICK ctx : ctx = AgentContext(rows[1].agent, es) OBVIOUS
  <2>7. Judged(ctx) BY <2>6, ContextBooleans DEF Judged
  <2>8. PICK x \in Int : x = rows[1].pct BY <2>3
  <2>9. r[1].role = BlameRole(x, TRUE, TRUE, ctx) BY <1>2, <2>1, <2>4, <2>6, <2>8 DEF Roled
  <2>10. Guilty(r[1].role, x, ctx) BY <2>7, <2>9, RoleOfRoot
  <2> QED BY <2>5, <2>6, <2>8, <2>10 DEF Guilty, Originated
<1> QED BY <1>2, <1>3, <1>4 DEF BlamedRows, RootedRows

(* All that OneRoot says of the rows.                                      *)
Influence(c) == \E i \in DOMAIN c : c[i].infl > 0
RowsAdd(rows, n, c) == Influence(c) => Summed(Total([i \in 1..n |-> rows[i].pct]), n)

(* What a report says of its rows, and what the ML may say of the agents.  *)
SharesOf(sh, A) == sh = <<>> \/ (sh \in [A -> Nat] /\ Total(sh) = 1000)
SoundRows(rows, es, failed, sh, A, n) ==
  /\ \E P : RowsFor(rows, A, P)
  /\ Descending(rows) /\ Len(rows) = n /\ Blamed(rows, es, failed)
  /\ failed /\ n > 0 /\ sh = <<>> => rows[1].reason \in RootReasons
  /\ RowsAdd(rows, n, CollapseRetryStorms(es))

(* The rows of a report: one for each agent, highest share first, the      *)
(* first one the root of a failed run, the shares summing to 1000 but for  *)
(* rounding.                                                               *)
LEMMA ReportRows ==
  ASSUME NEW A, NEW es \in Seq(Bearer(A)), A = AgentsOf(es), InHopOrder(es),
         NEW failed \in BOOLEAN, NEW n \in Nat, n = Cardinality(A), NEW alpha \in 0..100,
         NEW sh, SharesOf(sh, A),
         NEW rows, rows = Rows(es, failed, sh, alpha)
  PROVE  SoundRows(rows, es, failed, sh, A, n)
<1> SUFFICES /\ \E P : RowsFor(rows, A, P)
             /\ Descending(rows) /\ Len(rows) = n /\ Blamed(rows, es, failed)
             /\ failed /\ n > 0 /\ sh = <<>> => rows[1].reason \in RootReasons
             /\ RowsAdd(rows, n, CollapseRetryStorms(es))
  BY DEF SoundRows
<1>0. sh = <<>> \/ (sh \in [A -> Nat] /\ Total(sh) = 1000) BY DEF SharesOf
<1> USE <1>0
<1>1. PICK c : c = CollapseRetryStorms(es) OBVIOUS
<1>2. c \in Seq(Bearer(A)) /\ AgentsOf(c) = A BY <1>1, CollapsedType
<1>3. PICK w \in [A -> Nat] : w = FinalWeights(c, failed) BY <1>2, FinalKeeps
<1>4. PICK P : P = Portions(w) OBVIOUS
<1>5. PICK ruled : ruled = RuleBlames(es, failed) OBVIOUS
<1>6. /\ RowsFor(ruled, A, P) /\ Descending(ruled) /\ Len(ruled) = n /\ Blamed(ruled, es, failed)
      /\ failed /\ n > 0 => ruled[1].reason \in RootReasons
  BY <1>1, <1>3, <1>4, <1>5, RuledRows
<1>7. IsFiniteSet(A) BY AgentsFinite
<1>8. Counts(P, A) BY <1>4, <1>7, PortionsInt DEF Counts
<1>9. ASSUME Influence(c) PROVE NearWhole(P, n)
  <2>1. \E i \in 1..Len(c) : c[i].infl > 0 BY <1>2, <1>9 DEF Influence
  <2>2. Total(w) > 0 BY <1>2, <1>3, <2>1, FinalKeeps
  <2> QED BY <1>4, <1>7, <2>2, PortionsSum
<1>10. Total(P) \in Int
  <2>1. PICK h : Sums(h, A, P) /\ Total(P) = h[A] BY <1>7, <1>8, TotalIs DEF Counts
  <2> QED BY <2>1 DEF Sums
<1>11. CASE failed /\ sh # <<>>
  <2>1. sh \in [A -> Nat] /\ Total(sh) = 1000 BY <1>11
  <2>2. PICK fused : fused = Fuse(ruled, sh, alpha) OBVIOUS
  <2>3. PICK Q : Q = Mixed(P, sh, alpha) OBVIOUS
  <2>4. RootedRows(fused, A, Q, n) BY <1>6, <1>8, <2>1, <2>2, <2>3, FusedRows
  <2>5. rows = Enrich(fused, es, TRUE) BY <1>5, <1>11, <2>2 DEF Rows
  <2>60. BlamedRows(rows, A, Q, n, es) BY <2>4, <2>5, EnrichedRoot
  <2>6. /\ RowsFor(rows, A, Q) /\ Descending(rows) /\ Len(rows) = n /\ FirstIsRoot(rows, n)
        /\ n > 0 => Originated(rows[1], es)
    BY <2>60 DEF BlamedRows, RootedRows
  <2>61. Rooted(rows, n, failed)
    <3>1. failed = TRUE BY <1>11
    <3>2. FirstIsRoot(rows, n) BY <2>6
    <3> QED BY <3>1, <3>2, RootedIfFirst
  <2>62. Blamed(rows, es, failed) BY <2>6, <2>61 DEF Blamed
  <2>7. ASSUME Influence(c) PROVE Summed(Total([i \in 1..n |-> rows[i].pct]), n)
    <3>1. NearWhole(P, n) BY <1>9, <2>7
    <3>2. Summed(Total(Q), n) BY <1>7, <1>8, <2>1, <2>3, <3>1, MixedSum
    <3>3. Counts(Q, A)
      <4>1. MixedShares(Q, A, P, sh, alpha) BY <1>8, <2>1, <2>3, MixedInt
      <4> QED BY <4>1 DEF MixedShares, Counts
    <3>4. Total([i \in 1..n |-> rows[i].pct]) = Total(Q) BY <1>7, <2>6, <3>3, RowsSum
    <3> QED BY <3>2, <3>4
  <2>8. RowsAdd(rows, n, c) BY <2>7 DEF RowsAdd
  <2> QED BY <1>1, <1>11, <2>6, <2>62, <2>8
<1>12. CASE ~(failed /\ sh # <<>>)
  <2>1. rows = ruled BY <1>5, <1>12 DEF Rows
  <2>2. ASSUME Influence(c) PROVE Summed(Total([i \in 1..n |-> rows[i].pct]), n)
    <3>1. 2 * Total(P) - 2000 \in (-n)..n BY <1>9, <2>2 DEF NearWhole
    <3>3. Total([i \in 1..n |-> rows[i].pct]) = Total(P) BY <1>6, <1>7, <1>8, <2>1, RowsSum
    <3>4. PICK t \in Int : t = Total(P) BY <1>10
    <3>5. t - 1000 \in (-n)..n BY <3>1, <3>4
    <3> QED BY <3>3, <3>4, <3>5 DEF Summed
  <2>3. RowsAdd(rows, n, c) BY <2>2 DEF RowsAdd
  <2> QED BY <1>1, <1>6, <2>1, <2>3
<1> QED BY <1>11, <1>12

-----------------------------------------------------------------------------
(* What the hints may change of an edge.                                   *)

(* The same hop, and the same hop with its own numbers.                    *)
Alike(e, f) ==
  /\ e.id = f.id /\ e.hop = f.hop /\ e.from = f.from /\ e.to = f.to /\ e.call = f.call
  /\ e.input = f.input /\ e.output = f.output /\ e.sources = f.sources /\ e.simIn = f.simIn
  /\ e.simGoal = f.simGoal /\ e.cites = f.cites
Reworked(new, old, X, mutate) ==
  /\ new \in Seq(Bearer(X)) /\ Len(new) = Len(old)
  /\ \A i \in 1..Len(old) : /\ Alike(new[i], old[i])
                            /\ ~mutate => new[i].delta = old[i].delta /\ new[i].cout = old[i].cout
Weighty(new, old) == \A i \in 1..Len(old) : new[i].infl = old[i].infl

Lowered(r, e, X, m) ==
  /\ r \in Bearer(X) /\ Alike(r, e) /\ (~m => r.delta = e.delta /\ r.cout = e.cout)
  /\ r.infl = e.infl

(* Lower() changes an edge's drift and confidence, and only if edges may   *)
(* be changed.                                                             *)
LEMMA LowerType ==
  ASSUME NEW X, NEW e \in Bearer(X), NEW d \in Int, NEW c \in Nat, NEW m \in BOOLEAN,
         NEW r, r = Lower(e, d, c, m)
  PROVE  Lowered(r, e, X, m)
<1>1. CASE m
  <2>1. e.delta \in Int /\ e.cout \in Nat BY DEF Bearer
  <2>2. PICK x \in Int : x = Lowest(e.delta, d) BY <2>1 DEF Lowest
  <2>3. PICK y \in Nat : y = Lowest(e.cout, c) BY <2>1 DEF Lowest
  <2>4. r = [e EXCEPT !.delta = x, !.cout = y] BY <1>1, <2>2, <2>3 DEF Lower
  <2>5. r \in Bearer(X) BY <2>2, <2>3, <2>4 DEF Bearer
  <2>6. Alike(r, e) /\ r.infl = e.infl BY <2>4 DEF Alike, Bearer
  <2> QED BY <1>1, <2>5, <2>6 DEF Lowered
<1>2. CASE ~m BY <1>2 DEF Lower, Alike, Lowered
<1> QED BY <1>1, <1>2

(* Semantic drift changes nothing but the drift and the confidences.       *)
LEMMA DriftReworks ==
  ASSUME NEW X, NEW es \in Seq(Bearer(X)), NEW aim \in BOOLEAN, NEW threshold \in Nat, threshold > 0,
         NEW m \in BOOLEAN, NEW r, r = SemanticDrift(es, aim, threshold, m)
  PROVE  Reworked(r, es, X, m) /\ Weighty(r, es)
<1>1. PICK n \in Nat : n = Len(es) /\ DOMAIN es = 1..n OBVIOUS
<1> DEFINE hint(i) == SemanticHint(es[i], aim, threshold)
           e(i) == IF hint(i) = NoHint THEN es[i] ELSE Lower(es[i], hint(i) - 100, hint(i), m)
<1>2. r = [i \in 1..n |-> e(i)] BY <1>1 DEF SemanticDrift
<1>3. ASSUME NEW i \in 1..n
      PROVE  /\ e(i) \in Bearer(X) /\ Alike(e(i), es[i])
             /\ (~m => e(i).delta = es[i].delta /\ e(i).cout = es[i].cout) /\ e(i).infl = es[i].infl
  <2>1. es[i] \in Bearer(X) BY <1>1
  <2>2. es[i].simIn \in Nat /\ es[i].simGoal \in Nat
    <3>1. \A f \in Bearer(X) : f.simIn \in Percent /\ f.simGoal \in Percent BY DEF Bearer
    <3>2. PICK f \in Bearer(X) : f = es[i] BY <2>1
    <3>3. f.simIn \in 0..100 /\ f.simGoal \in 0..100 BY <3>1 DEF Percent
    <3>31. \A x \in 0..100 : x \in Nat OBVIOUS
    <3>4. f.simIn \in Nat BY <3>3, <3>31
    <3>5. f.simGoal \in Nat BY <3>3, <3>31
    <3> QED BY <3>2, <3>4, <3>5
  <2>3. hint(i) \in Nat BY <2>2 DEF SemanticHint, Similarity, Lowest, NoHint
  <2> HIDE DEF hint
  <2>4. CASE hint(i) = NoHint BY <2>1, <2>4 DEF Alike
  <2>5. CASE hint(i) # NoHint
    <3>1. PICK x : x = e(i) OBVIOUS
    <3>2. PICK c \in Nat : c = hint(i) BY <2>3
    <3>3. PICK d \in Int : d = c - 100 OBVIOUS
    <3>4. PICK f \in Bearer(X) : f = es[i] BY <2>1
    <3>5. x = Lower(f, d, c, m) BY <2>5, <3>1, <3>2, <3>3, <3>4
    <3>6. Lowered(x, f, X, m) BY <3>5, LowerType
    <3> QED BY <3>1, <3>4, <3>6 DEF Lowered
  <2> QED BY <2>4, <2>5
<1> HIDE DEF e
<1>4. r \in [1..n -> Bearer(X)] /\ \A i \in 1..n : r[i] = e(i) BY <1>2, <1>3
<1>5. r \in Seq(Bearer(X)) /\ Len(r) = n BY <1>4
<1> QED BY <1>1, <1>3, <1>4, <1>5 DEF Reworked, Weighty

(* Reconciling the chain changes nothing but the confidences handed on.    *)
LEMMA LowestOutNat ==
  ASSUME NEW X, NEW es \in Seq(Bearer(X)), NEW S \in SUBSET DOMAIN es, S # {}
  PROVE  LowestOut(es, S) \in Nat
<1> DEFINE C == {es[i].cout : i \in S}
<1>1. \A i \in S : es[i].cout \in Nat
  <2> TAKE i \in S
  <2>1. es[i] \in Bearer(X) OBVIOUS
  <2> QED BY <2>1 DEF Bearer
<1>2. PICK c \in C : \A d \in C : c <= d
  <2>1. C \in SUBSET Nat /\ C # {} BY <1>1
  <2> HIDE DEF C
  <2> QED BY <2>1, LowestIndex
<1>3. \E i \in S : \A j \in S : es[i].cout <= es[j].cout BY <1>2
<1> QED BY <1>1, <1>3 DEF LowestOut

(* The confidence a hop is given is a number.                              *)
LEMMA ConfidenceInNat ==
  ASSUME NEW X, NEW es \in Seq(Bearer(X)), NEW i \in DOMAIN es
  PROVE  ConfidenceIn(es, i) \in Nat
<1> DEFINE e == es[i]
           AtHop(h) == {j \in DOMAIN es : es[j].hop = h}
           earlier == {j \in DOMAIN es : es[j].hop < e.hop}
           leading == {j \in earlier : es[j].to = e.from}
           previous == {j \in earlier : \A k \in earlier : es[k].hop <= es[j].hop}
           b == Cardinality(AtHop(e.hop)) > 1 \/ Cardinality(previous) = 1
<1>0. PICK r : r = ConfidenceIn(es, i) OBVIOUS
<1>1. r = CASE earlier = {} -> e.cin
            [] leading # {} -> LowestOut(es, leading)
            [] leading = {} /\ earlier # {} /\ b -> LowestOut(es, previous)
            [] OTHER -> e.cin
  BY <1>0 DEF ConfidenceIn
<1>2. \A j \in DOMAIN es : es[j] \in Bearer(X) OBVIOUS
<1>3. e.cin \in Nat BY <1>2 DEF Bearer
<1>4. leading # {} => LowestOut(es, leading) \in Nat BY LowestOutNat
<1>5. previous # {} => LowestOut(es, previous) \in Nat BY LowestOutNat
<1>6. earlier # {} => previous # {}
  <2> SUFFICES ASSUME earlier # {} PROVE previous # {} OBVIOUS
  <2>1. \A j \in DOMAIN es : es[j].hop \in Nat
    <3> TAKE j \in DOMAIN es
    <3> QED BY <1>2 DEF Bearer
  <2>2. IsFiniteSet(earlier)
    <3>1. IsFiniteSet(DOMAIN es) BY SizeUpTo
    <3> QED BY <3>1, FS_Subset
  <2> DEFINE C == {e.hop - es[j].hop : j \in earlier}
  <2>3. C \in SUBSET Nat /\ C # {} BY <2>1
  <2>4. PICK c \in C : \A d \in C : c <= d
    <3> HIDE DEF C
    <3> QED BY <2>3, LowestIndex
  <2>5. PICK j \in earlier : c = e.hop - es[j].hop BY <2>4
  <2>6. \A k \in earlier : es[k].hop <= es[j].hop
    <3> TAKE k \in earlier
    <3>1. e.hop - es[j].hop <= e.hop - es[k].hop BY <2>4, <2>5
    <3>2. es[j].hop \in Nat /\ es[k].hop \in Nat /\ e.hop \in Nat BY <2>1
    <3> HIDE DEF e
    <3> QED BY <3>1, <3>2
  <2> QED BY <2>6
<1>61. leading # {} => earlier # {} OBVIOUS
<1> HIDE DEF earlier, leading, previous, e, b
<1>7. CASE earlier = {} BY <1>1, <1>3, <1>61, <1>7, <1>0
<1>8. CASE earlier # {} /\ leading # {} BY <1>1, <1>4, <1>8, <1>0
<1>9. CASE earlier # {} /\ leading = {} /\ b BY <1>1, <1>5, <1>6, <1>9, <1>0
<1>10. CASE earlier # {} /\ leading = {} /\ ~b BY <1>1, <1>3, <1>10, <1>0
<1> QED BY <1>7, <1>8, <1>9, <1>10

(* Reconcile() changes no more of an edge than what it says of drift:      *)
(* places, agents, confidences and influence stay.                         *)
LEMMA ReconcileReworks ==
  ASSUME NEW X, NEW es \in Seq(Bearer(X)), NEW r, r = Reconcile(es)
  PROVE  Reworked(r, es, X, FALSE) /\ Weighty(r, es)
<1>1. PICK n \in Nat : n = Len(es) /\ DOMAIN es = 1..n OBVIOUS
<1> DEFINE e(i) == [es[i] EXCEPT !.cin = ConfidenceIn(es, i)]
<1>2. r = [i \in 1..n |-> e(i)] BY <1>1 DEF Reconcile
<1>3. ASSUME NEW i \in 1..n
      PROVE  /\ e(i) \in Bearer(X) /\ Alike(e(i), es[i])
             /\ e(i).delta = es[i].delta /\ e(i).cout = es[i].cout /\ e(i).infl = es[i].infl
  <2>1. PICK f \in Bearer(X) : f = es[i] BY <1>1
  <2>2. PICK c \in Nat : c = ConfidenceIn(es, i) BY <1>1, ConfidenceInNat
  <2>3. e(i) = [f EXCEPT !.cin = c] BY <2>1, <2>2
  <2> HIDE DEF e
  <2>4. e(i) \in Bearer(X) BY <2>3 DEF Bearer
  <2>5. /\ Alike(e(i), f) /\ e(i).delta = f.delta /\ e(i).cout = f.cout /\ e(i).infl = f.infl
    BY <2>3 DEF Alike, Bearer
  <2> QED BY <2>1, <2>4, <2>5
<1> HIDE DEF e
<1>4. r \in [1..n -> Bearer(X)] /\ \A i \in 1..n : r[i] = e(i) BY <1>2, <1>3
<1>5. r \in Seq(Bearer(X)) /\ Len(r) = n BY <1>4
<1> QED BY <1>1, <1>3, <1>4, <1>5 DEF Reworked, Weighty

-----------------------------------------------------------------------------
(* What the hints are made of.                                             *)

(* What the classifier says, and what the rules make of it.                *)
MlAnswer == [label : DriftTypes, top : Percent]
Predicted == [label : DriftTypes, severity : Nat, top : Int]
Hint(X) == [hop : Nat, agent : X, label : DriftTypes, severity : Nat]

(* What the hints are computed from are numbers.                           *)
LEMMA HopNumbers ==
  ASSUME NEW X, NEW f \in Bearer(X)
  PROVE  Harm(f) \in Nat /\ Drop(f) \in Nat /\ Inflation(f) \in Nat
<1>1. f.delta \in Int /\ f.cin \in Nat /\ f.cout \in Nat BY DEF Bearer
<1> QED BY <1>1 DEF Harm, Drop, Inflation, AtLeast

(* A prediction has a label, a severity and a score.                       *)
LEMMA PredictionType ==
  ASSUME NEW label \in DriftTypes, NEW severity \in Nat, NEW top \in Int
  PROVE  Prediction(label, severity, top) \in Predicted
BY DEF Prediction, Predicted

(* A severity is a number.                                                 *)
LEMMA Hundredths ==
  ASSUME NEW n \in Nat
  PROVE  AtMost(100, n \div 100) \in Nat
<1>1. n \div 100 \in Nat OBVIOUS
<1> QED BY <1>1 DEF AtMost

(* The classifier's answer is a prediction.                                *)
LEMMA ClassifiedType ==
  ASSUME NEW X, NEW f \in Bearer(X), NEW answer \in MlAnswer
  PROVE  Classified(answer, f) \in Predicted
<1>1. PICK l \in DriftTypes, t \in 0..100 : answer.label = l /\ answer.top = t BY DEF MlAnswer, Percent
<1>2. PICK h \in Nat : h = Harm(f) BY HopNumbers
<1>3. PICK p \in Nat : p = t * (100 + h) OBVIOUS
<1>4. PICK s \in Nat : s = IF l = "none" THEN 100 - t ELSE AtMost(100, (t * (100 + h)) \div 100)
  BY <1>3, Hundredths
<1>5. Classified(answer, f) = Prediction(l, s, t) BY <1>1, <1>2, <1>4 DEF Classified
<1>6. t \in Int OBVIOUS
<1> QED BY <1>5, <1>6, PredictionType

(* The rules make a prediction of a prediction.                            *)
LEMMA RulePriorType ==
  ASSUME NEW X, NEW f \in Bearer(X), NEW sim, NEW pred \in Predicted, NEW incident \in BOOLEAN,
         NEW structured \in BOOLEAN
  PROVE  RulePrior(f, sim, pred, incident, structured) \in Predicted
<1>1. PICK h \in Nat, d \in Nat, i \in Nat : h = Harm(f) /\ d = Drop(f) /\ i = Inflation(f)
  BY HopNumbers
<1>2. PICK a \in Nat : a = AtMost(100, (h * 115) \div 100)
  <2>1. PICK k \in Nat : k = h * 115 OBVIOUS
  <2>2. AtMost(100, k \div 100) \in Nat BY <2>1, Hundredths
  <2> QED BY <2>1, <2>2
<1>3. PICK b \in Nat : b = AtMost(100, (h * 110) \div 100)
  <2>1. PICK k \in Nat : k = h * 110 OBVIOUS
  <2>2. AtMost(100, k \div 100) \in Nat BY <2>1, Hundredths
  <2> QED BY <2>1, <2>2
<1>4. PICK c \in Nat : c = AtMost(100, h + i) BY DEF AtMost
<1>5. AtLeast(a, 100 - a) \in Int /\ AtLeast(h, 100 - h) \in Int BY DEF AtLeast
<1>6. \A q \in {"domain_mismatch", "retrieval_miss", "severity_underrate", "confidence_inflation",
                "propagation"} : q \in DriftTypes
  BY DEF DriftTypes
<1>7. /\ Prediction("domain_mismatch", a, AtLeast(a, 100 - a)) \in Predicted
      /\ Prediction("retrieval_miss", b, 75) \in Predicted
      /\ Prediction("severity_underrate", h, 70) \in Predicted
      /\ Prediction("confidence_inflation", c, 65) \in Predicted
      /\ Prediction("propagation", h, AtLeast(h, 100 - h)) \in Predicted
  BY <1>5, <1>6, PredictionType
<1>8. RulePrior(f, sim, pred, incident, structured) \in
        {Prediction("domain_mismatch", a, AtLeast(a, 100 - a)), Prediction("retrieval_miss", b, 75),
         Prediction("severity_underrate", h, 70), Prediction("confidence_inflation", c, 65),
         Prediction("propagation", h, AtLeast(h, 100 - h)), pred}
  BY <1>1, <1>2, <1>3, <1>4 DEF RulePrior
<1> QED BY <1>7, <1>8

(* Refining a prediction makes a prediction.                               *)
LEMMA RefineType ==
  ASSUME NEW e, NEW pred \in Predicted, NEW incident \in BOOLEAN, NEW before, NEW sim
  PROVE  Refine(e, pred, incident, before, sim) \in Predicted
<1>1. PICK l \in DriftTypes, s \in Nat, t \in Int : pred.label = l /\ pred.severity = s /\ pred.top = t
  BY DEF Predicted
<1>2. \A q \in {"retrieval_miss", "propagation", "none"} : q \in DriftTypes BY DEF DriftTypes
<1>3. PICK x \in Nat : x = Lowest(s, 50) BY DEF Lowest
<1>4. PICK y \in Nat : y = Lowest(s, 8) BY DEF Lowest
<1>5. AtLeast(20, x) \in Int BY DEF AtLeast
<1>6. PICK z \in Int : z = AtLeast(s, AtLeast(t, 100 - s)) BY DEF AtLeast
<1> DEFINE structured == JsonPreview(before) \/ JsonPreview(e.input)
           tool == e.call # "llm"
           domestic == IF incident \/ l # "severity_underrate" THEN l
                       ELSE IF e.output = "hedged" THEN "retrieval_miss" ELSE "propagation"
           label == IF domestic # "domain_mismatch" THEN domestic
                    ELSE IF structured
                      THEN IF tool /\ JsonPreview(before) /\ e.cites THEN "retrieval_miss" ELSE domestic
                    ELSE IF ~PlainPreview(e.output) THEN domestic
                    ELSE IF sim < 50 THEN "retrieval_miss" ELSE "propagation"
           again == IF tool THEN "retrieval_miss" ELSE "propagation"
           late == sim < 55 /\ e.hop > 0
<1>7. domestic \in DriftTypes BY <1>2
<1>8. label \in DriftTypes BY <1>2, <1>7
<1>9. again \in DriftTypes BY <1>2
<1>10. Refine(e, pred, incident, before, sim) =
         CASE l = "format_error" /\ e.output # "blank" ->
              IF late THEN Prediction(again, x, AtLeast(20, x)) ELSE Prediction("none", y, 85)
         [] l # "format_error" /\ label # l -> Prediction(label, s, z)
         [] OTHER -> pred
  BY <1>1, <1>3, <1>4, <1>6 DEF Refine
<1>11. /\ Prediction(again, x, AtLeast(20, x)) \in Predicted /\ Prediction("none", y, 85) \in Predicted
       /\ Prediction(label, s, z) \in Predicted
  <2> HIDE DEF again, label
  <2> QED BY <1>2, <1>5, <1>8, <1>9, PredictionType
<1> HIDE DEF again, label, late
<1>12. CASE l = "format_error" /\ e.output # "blank" BY <1>10, <1>11, <1>12
<1>13. CASE l # "format_error" /\ label # l BY <1>10, <1>11, <1>13
<1>14. CASE ~(l = "format_error" /\ e.output # "blank") /\ ~(l # "format_error" /\ label # l)
  BY <1>10, <1>11, <1>14
<1> QED BY <1>12, <1>13, <1>14

(* How far and how low a confidence may be cut are numbers.                *)
LEMMA DriftNumbers ==
  ASSUME NEW s \in Nat, NEW l
  PROVE  DriftDelta(s, l) \in Int /\ DriftCeiling(s, l) \in Nat
<1>1. PICK b \in Int : b = -8 - (s * 55) \div 100 OBVIOUS
<1>2. AtLeast(-95, b - 15) \in Int /\ AtLeast(-90, b - 10) \in Int /\ AtLeast(-85, b - 12) \in Int
      /\ AtLeast(-80, b) \in Int
  BY DEF AtLeast
<1>3. DriftDelta(s, l) \in {-2, AtLeast(-95, b - 15), AtLeast(-90, b - 10), AtLeast(-85, b - 12), AtLeast(-80, b)}
  <2>1. CASE l = "none" \/ s < 5 BY <1>1, <2>1 DEF DriftDelta
  <2>2. CASE l = "domain_mismatch" /\ s >= 5 BY <1>1, <2>2 DEF DriftDelta
  <2>3. CASE l = "retrieval_miss" /\ s >= 5 BY <1>1, <2>3 DEF DriftDelta
  <2>4. CASE l = "severity_underrate" /\ s >= 5 BY <1>1, <2>4 DEF DriftDelta
  <2>5. CASE ~(l = "none" \/ s < 5) /\ l \notin {"domain_mismatch", "retrieval_miss", "severity_underrate"}
    BY <1>1, <2>5 DEF DriftDelta
  <2> QED BY <2>1, <2>2, <2>3, <2>4, <2>5
<1>4. DriftCeiling(s, l) \in Nat
  <2>1. \A c \in {35, 65} : AtLeast(15, 100 - (s * c) \div 100) \in Nat BY DEF AtLeast
  <2> QED BY <2>1 DEF DriftCeiling
<1> QED BY <1>2, <1>3, <1>4

(* The first hop at an index there is.                                     *)
FirstAt(es, h) ==
  es[CHOOSE i \in DOMAIN es : es[i].hop = h /\ \A j \in 1..(i - 1) : ~(es[j].hop = h)]

(* The first edge of a hop that is there is an edge.                       *)
LEMMA FirstAtThere ==
  ASSUME NEW X, NEW es \in Seq(Bearer(X)), NEW i \in DOMAIN es
  PROVE  FirstAt(es, es[i].hop) \in Bearer(X)
<1>1. PICK h : h = es[i].hop OBVIOUS
<1>2. PICK n \in Nat : DOMAIN es = 1..n OBVIOUS
<1> DEFINE S == {j \in 1..n : es[j].hop = h}
<1>3. S \in SUBSET Nat /\ S # {} BY <1>1, <1>2
<1>4. PICK x \in S : \A y \in S : x <= y
  <2> HIDE DEF S
  <2> QED BY <1>3, LowestIndex
<1>5. \A j \in 1..(x - 1) : ~(es[j].hop = h)
  <2> TAKE j \in 1..(x - 1)
  <2>1. j \in 1..n /\ ~(x <= j) BY <1>4
  <2> QED BY <1>4, <2>1
<1>6. \E j \in DOMAIN es : es[j].hop = h /\ \A k \in 1..(j - 1) : ~(es[k].hop = h) BY <1>2, <1>4, <1>5
<1>7. \A j \in DOMAIN es : es[j] \in Bearer(X) OBVIOUS
<1>8. FirstAt(es, h) \in Bearer(X) BY <1>6, <1>7 DEF FirstAt
<1> QED BY <1>1, <1>8

-----------------------------------------------------------------------------
(* analyzeRunWithMl() on all hops.                                         *)

(* The runs analyzeRunWithMl() goes through, and one step of it.           *)
Runs(all, X, m) ==
  {run \in [edges : Seq(Bearer(X)), hops : Seq(Hint(X))] : Reworked(run.edges, all, X, m)}
Analysed(run, i, all, answers, incident, embeds, threshold, mutate) ==
  LET e == run.edges[i]
      f == FirstEdge(run.edges, LAMBDA g : g.hop = e.hop)
      follows == \E j \in DOMAIN run.edges : run.edges[j].hop = e.hop - 1
      before == IF follows
                THEN FirstEdge(run.edges, LAMBDA g : g.hop = e.hop - 1).output
                ELSE "blank"
      simIn == IF ~embeds \/ "blank" \in {e.input, e.output} THEN 50 ELSE e.simIn
      simGoal == IF embeds /\ "blank" \notin {ByHop(all)[1].input, e.output}
                 THEN e.simGoal ELSE 50
      structured == JsonPreview(before) \/ JsonPreview(e.input)
      prior == RulePrior(f, simIn, Classified(answers[e.hop], f), incident, structured)
      pred == Refine(e, prior, incident, before, simGoal)
      lowered == Lower(e, DriftDelta(pred.severity, pred.label),
                       DriftCeiling(pred.severity, pred.label), mutate)
  IN [edges |-> IF Applies(e, pred, threshold)
                THEN [run.edges EXCEPT ![i] = lowered] ELSE run.edges,
      hops |-> Append(run.hops, [hop |-> e.hop, agent |-> e.from,
                                 label |-> pred.label, severity |-> pred.severity])]

AnswersFor(answers, all) == \A i \in 1..Len(all) : answers[all[i].hop] \in MlAnswer

(* A function on 1..n is a sequence of n elements.                         *)
LEMMA ListType ==
  ASSUME NEW V, NEW n \in Nat, NEW r \in [1..n -> V]
  PROVE  r \in Seq(V) /\ Len(r) = n /\ DOMAIN r = 1..n
OBVIOUS

(* It writes over one hop at most.                                         *)
LEMMA WritesOne ==
  ASSUME NEW X, NEW m \in BOOLEAN, NEW all, NEW n \in Nat, n = Len(all), NEW es, Reworked(es, all, X, m),
         NEW i \in 1..n, NEW d, Lowered(d, es[i], X, m), NEW r, r = [es EXCEPT ![i] = d]
  PROVE  Reworked(r, all, X, m)
<1>1. es \in [1..n -> Bearer(X)] BY DEF Reworked
<1>2. d \in Bearer(X) BY DEF Lowered
<1>3. r \in [1..n -> Bearer(X)] BY <1>1, <1>2
<1>4. r \in Seq(Bearer(X)) /\ Len(r) = n BY <1>3, ListType
<1>5. r[i] = d /\ \A j \in 1..n : j # i => r[j] = es[j] BY <1>1
<1>6. \A j \in 1..n : /\ Alike(es[j], all[j])
                      /\ ~m => es[j].delta = all[j].delta /\ es[j].cout = all[j].cout
  BY DEF Reworked
<1>7. Alike(d, all[i]) /\ (~m => d.delta = all[i].delta /\ d.cout = all[i].cout)
  BY <1>6 DEF Lowered, Alike
<1> QED BY <1>4, <1>5, <1>6, <1>7 DEF Reworked

(* A hop analysed leaves a run of reworked edges, with a hint more.        *)
LEMMA AnalysedType ==
  ASSUME NEW X, NEW m \in BOOLEAN, NEW all \in Seq(Bearer(X)), NEW n \in Nat, n = Len(all),
         NEW run \in Runs(all, X, m), NEW i \in 1..n, NEW answers, AnswersFor(answers, all),
         NEW incident \in BOOLEAN, NEW embeds, NEW threshold
  PROVE  Analysed(run, i, all, answers, incident, embeds, threshold, m) \in Runs(all, X, m)
<1> DEFINE es == run.edges
           e == es[i]
           f == FirstEdge(es, LAMBDA g : g.hop = e.hop)
           follows == \E j \in DOMAIN es : es[j].hop = e.hop - 1
           b == IF follows THEN FirstEdge(es, LAMBDA g : g.hop = e.hop - 1).output ELSE "blank"
           sim == IF ~embeds \/ "blank" \in {e.input, e.output} THEN 50 ELSE e.simIn
           aim == IF embeds /\ "blank" \notin {ByHop(all)[1].input, e.output} THEN e.simGoal ELSE 50
           structured == JsonPreview(b) \/ JsonPreview(e.input)
           p == RulePrior(f, sim, Classified(answers[e.hop], f), incident, structured)
           q == Refine(e, p, incident, b, aim)
           low == Lower(e, DriftDelta(q.severity, q.label), DriftCeiling(q.severity, q.label), m)
           r == IF Applies(e, q, threshold) THEN [es EXCEPT ![i] = low] ELSE es
           h == [hop |-> e.hop, agent |-> e.from, label |-> q.label, severity |-> q.severity]
<1>1. Analysed(run, i, all, answers, incident, embeds, threshold, m) = [edges |-> r, hops |-> Append(run.hops, h)]
  BY DEF Analysed
<1>2. PICK hs \in Seq(Hint(X)) : hs = run.hops BY DEF Runs
<1>3. es \in Seq(Bearer(X)) /\ Reworked(es, all, X, m) /\ DOMAIN es = 1..n BY DEF Runs, Reworked
<1>4. e \in Bearer(X) BY <1>3
<1>5. f = FirstAt(es, e.hop) BY DEF FirstEdge, FirstAt
<1>6. f \in Bearer(X)
  <2> HIDE DEF f, es
  <2> QED BY <1>3, <1>5, FirstAtThere
<1>7. structured \in BOOLEAN OBVIOUS
<1>8. answers[e.hop] \in MlAnswer
  <2>1. e.hop = all[i].hop BY <1>3 DEF Reworked, Alike
  <2> QED BY <2>1 DEF AnswersFor
<1> HIDE DEF f, es, e, b, sim, aim, structured, p, q, low, r, h
<1>9. PICK c \in Predicted : c = Classified(answers[e.hop], f) BY <1>6, <1>8, ClassifiedType
<1>10. p \in Predicted
  <2>1. p = RulePrior(f, sim, c, incident, structured) BY <1>9 DEF p
  <2> QED BY <1>6, <1>7, <2>1, RulePriorType
<1>11. q \in Predicted BY <1>10, RefineType DEF q
<1>12. PICK s \in Nat, l \in DriftTypes : s = q.severity /\ l = q.label BY <1>11 DEF Predicted
<1>13. PICK d \in Int, k \in Nat : d = DriftDelta(s, l) /\ k = DriftCeiling(s, l) BY DriftNumbers
<1>14. low = Lower(e, d, k, m) BY <1>12, <1>13 DEF low
<1>15. Lowered(low, e, X, m) BY <1>4, <1>14, LowerType
<1>17. Reworked(r, all, X, m)
  <2>1. PICK x : x = [es EXCEPT ![i] = low] OBVIOUS
  <2>2. Lowered(low, es[i], X, m) BY <1>15 DEF e
  <2>3. Reworked(x, all, X, m) BY <1>3, <2>1, <2>2, WritesOne
  <2>4. r = IF Applies(e, q, threshold) THEN x ELSE es BY <2>1 DEF r
  <2> QED BY <1>3, <2>3, <2>4
<1>19. h \in Hint(X)
  <2>1. e.hop \in Nat /\ e.from \in X BY <1>4 DEF Bearer
  <2>2. h = [hop |-> e.hop, agent |-> e.from, label |-> l, severity |-> s] BY <1>12 DEF h
  <2> QED BY <2>1, <2>2 DEF Hint
<1>20. Append(hs, h) \in Seq(Hint(X)) BY <1>19
<1>21. Analysed(run, i, all, answers, incident, embeds, threshold, m) = [edges |-> r, hops |-> Append(hs, h)]
  BY <1>1, <1>2
<1>22. r \in Seq(Bearer(X)) BY <1>17 DEF Reworked
<1> QED BY <1>17, <1>20, <1>21, <1>22 DEF Runs

(* analyzeRunWithMl() is a fold over the hops.                             *)
LEMMA AnalyzeRunIs ==
  ASSUME NEW X, NEW m \in BOOLEAN, NEW all \in Seq(Bearer(X)), NEW n \in Nat, n = Len(all),
         ByHop(all) = all, NEW answers, AnswersFor(answers, all),
         NEW incident \in BOOLEAN, NEW embeds, NEW threshold
  PROVE  AnalyzeRun(all, answers, incident, embeds, threshold, m) \in Runs(all, X, m)
<1> DEFINE s == [i \in DOMAIN ByHop(all) |-> i]
           V == Runs(all, X, m)
           E == 1..n
           op == [p \in V \X E |-> Analysed(p[1], p[2], all, answers, incident, embeds, threshold, m)]
           base == [edges |-> ByHop(all), hops |-> <<>>]
           F(it) == [T \in SUBSET (DOMAIN s) |->
                       IF T = {} THEN base ELSE Analysed(it[T \ {Max(T)}], s[Max(T)], all, answers, incident, embeds, threshold, m)]
           iter == CHOOSE it : it = F(it)
<1>1. DOMAIN s = 1..n OBVIOUS
<1>2. AnalyzeRun(all, answers, incident, embeds, threshold, m) = iter[DOMAIN s]
  BY DEF AnalyzeRun, FoldLeft, MapThenFoldSet, Analysed
<1>3. base \in V 
  <2>1. Reworked(all, all, X, m) BY DEF Reworked, Alike
  <2> QED BY <2>1 DEF Runs, Reworked
<1>4. op \in [V \X E -> V] BY AnalysedType
<1>5. \A w \in V, k \in E : op[<<w, k>>] = Analysed(w, k, all, answers, incident, embeds, threshold, m) OBVIOUS
<1>6. \A i \in 1..n : s[i] \in E OBVIOUS
<1> HIDE DEF op, base, V, E, s
<1>7. \E it : it = F(it)
  <2>1. PICK g : Iteration(g, n, V, op, base, s) BY <1>3, <1>4, <1>6, FoldExists
  <2>2. ASSUME NEW T \in SUBSET (1..n), T # {}
        PROVE  g[T] = Analysed(g[T \ {Max(T)}], s[Max(T)], all, answers, incident, embeds, threshold, m)
    <3>1. Max(T) \in T BY <2>2, Highest
    <3>2. g[T \ {Max(T)}] \in V /\ s[Max(T)] \in E BY <1>6, <2>1, <3>1 DEF Iteration
    <3> QED BY <1>5, <2>1, <2>2, <3>2 DEF Iteration, Iterates
  <2>3. g = F(g) BY <1>1, <2>1, <2>2 DEF Iteration, Iterates
  <2> HIDE DEF F
  <2> QED BY <2>3
<1>8. iter = F(iter) BY <1>7
<1> HIDE DEF iter
<1>9. Iterates(iter, n, V, op, base, s)
  <2>1. iter[{}] = base BY <1>8
  <2>2. ASSUME NEW T \in SUBSET (1..n), T # {}, iter[T \ {Max(T)}] \in V
        PROVE  iter[T] = op[<<iter[T \ {Max(T)}], s[Max(T)]>>]
    <3>1. Max(T) \in T BY <2>2, Highest
    <3>2. s[Max(T)] \in E BY <1>6, <3>1
    <3>3. iter[T] = Analysed(iter[T \ {Max(T)}], s[Max(T)], all, answers, incident, embeds, threshold, m)
      BY <1>1, <1>8, <2>2
    <3> QED BY <1>5, <2>2, <3>2, <3>3
  <2> QED BY <2>1, <2>2 DEF Iterates
<1>10. FoldsTo(iter[1..n], n, V, op, base, s) BY <1>3, <1>4, <1>6, <1>9, Folded
<1>11. iter[1..n] \in V
  <2>1. n \in 0..n OBVIOUS
  <2> QED BY <1>10, <2>1 DEF FoldsTo
<1> QED BY <1>1, <1>2, <1>11 DEF V

(* AnalyzeRun() keeps the places and agents of the edges; without mutate   *)
(* it keeps their confidences too.                                         *)
LEMMA AnalyzeRunReworks ==
  ASSUME NEW X, NEW m \in BOOLEAN, NEW all \in Seq(Bearer(X)), InHopOrder(all),
         NEW answers, AnswersFor(answers, all), NEW incident \in BOOLEAN, NEW embeds, NEW threshold,
         NEW r, r = AnalyzeRun(all, answers, incident, embeds, threshold, m)
  PROVE  Reworked(r.edges, all, X, m) /\ r.hops \in Seq(Hint(X))
<1>1. PICK n \in Nat : n = Len(all) OBVIOUS
<1>2. ByHop(all) = all BY OrderedStays
<1>4. r \in Runs(all, X, m) BY <1>1, <1>2, AnalyzeRunIs
<1> QED BY <1>4 DEF Runs

-----------------------------------------------------------------------------
(* The classifier's influence.                                             *)

(* One step of boostInfluence(): a hop the classifier blames gains weight. *)
Boosted(list, h) ==
  LET i == CHOOSE j \in DOMAIN list :
              list[j].hop = h.hop /\ \A k \in 1..(j - 1) : list[k].hop # h.hop
  IN IF h.label = "none" \/ h.severity < 30 THEN list
     ELSE [list EXCEPT ![i].infl = AtMost(100, (@ * (400 + h.severity)) \div 400)]

Boosts(all, X) == {list \in Seq(Bearer(X)) : Reworked(list, all, X, FALSE)}

(* Work upon work is work.                                                 *)
LEMMA ReworkedTwice ==
  ASSUME NEW X, NEW m \in BOOLEAN, NEW a, NEW b, NEW c, NEW n \in Nat, n = Len(a),
         Reworked(b, a, X, FALSE), Reworked(c, b, X, m)
  PROVE  Reworked(c, a, X, m)
<1>1. Len(b) = n /\ c \in Seq(Bearer(X)) /\ Len(c) = n BY DEF Reworked
<1>2. \A i \in 1..n : /\ Alike(b[i], a[i])
                      /\ b[i].delta = a[i].delta /\ b[i].cout = a[i].cout
  BY DEF Reworked
<1>3. \A i \in 1..n : /\ Alike(c[i], b[i])
                      /\ ~m => c[i].delta = b[i].delta /\ c[i].cout = b[i].cout
  BY <1>1 DEF Reworked
<1>4. \A i \in 1..n : Alike(c[i], a[i]) BY <1>2, <1>3 DEF Alike
<1>5. \A i \in 1..n : ~m => c[i].delta = a[i].delta /\ c[i].cout = a[i].cout
  BY <1>2, <1>3
<1> QED BY <1>1, <1>4, <1>5 DEF Reworked

(* A hint added keeps the list one of reworked edges.                      *)
LEMMA BoostedType ==
  ASSUME NEW X, NEW all \in Seq(Bearer(X)), NEW n \in Nat, n = Len(all),
         NEW list \in Boosts(all, X), NEW h \in Hint(X)
  PROVE  Boosted(list, h) \in Boosts(all, X)
<1> DEFINE i == CHOOSE j \in DOMAIN list :
                   list[j].hop = h.hop /\ \A k \in 1..(j - 1) : list[k].hop # h.hop
           r == [list EXCEPT ![i].infl = AtMost(100, (@ * (400 + h.severity)) \div 400)]
<1>1. Boosted(list, h) = IF h.label = "none" \/ h.severity < 30 THEN list ELSE r BY DEF Boosted
<1>2. list \in [1..n -> Bearer(X)] /\ Reworked(list, all, X, FALSE) BY DEF Boosts, Reworked
<1> HIDE DEF i
<1>3. CASE i \notin 1..n
  <2>1. r = list BY <1>2, <1>3
  <2> QED BY <1>1, <2>1
<1>4. CASE i \in 1..n
  <2>1. PICK f \in Bearer(X) : f = list[i] BY <1>2, <1>4
  <2>2. f.infl \in Nat BY DEF Bearer
  <2>3. h.severity \in Nat BY DEF Hint
  <2>4. PICK p \in Nat : p = f.infl * (400 + h.severity)
    <3>1. \A x, y \in Nat : x * (400 + y) \in Nat OBVIOUS
    <3> QED BY <2>2, <2>3, <3>1
  <2>5. PICK q \in Nat : q = AtMost(100, p \div 400) BY DEF AtMost
  <2>6. PICK d : d = [f EXCEPT !.infl = q] OBVIOUS
  <2>7. r = [list EXCEPT ![i] = d] BY <1>2, <1>4, <2>1, <2>4, <2>5, <2>6
  <2>8. d \in Bearer(X) BY <2>6 DEF Bearer
  <2>9. Alike(d, f) /\ d.delta = f.delta /\ d.cout = f.cout BY <2>6 DEF Alike, Bearer
  <2> HIDE DEF r
  <2>10. r \in [1..n -> Bearer(X)] BY <1>2, <2>7, <2>8
  <2>11. r \in Seq(Bearer(X)) /\ Len(r) = n BY <2>10, ListType
  <2>12. \A j \in 1..n : r[j] = IF j = i THEN d ELSE list[j] BY <1>2, <2>7
  <2>13. Len(list) = n BY <1>2 DEF Reworked
  <2>14. Reworked(r, list, X, FALSE)
    <3>1. \A j \in 1..n : Alike(r[j], list[j])
      BY <2>1, <2>9, <2>12 DEF Alike
    <3>2. \A j \in 1..n : r[j].delta = list[j].delta /\ r[j].cout = list[j].cout
      BY <2>1, <2>9, <2>12
    <3> QED BY <2>11, <2>13, <3>1, <3>2 DEF Reworked
  <2>15. PICK b \in BOOLEAN : b = FALSE OBVIOUS
  <2>16. Reworked(r, list, X, b) BY <2>14, <2>15
  <2>17. Reworked(r, all, X, b) BY <1>2, <2>16, ReworkedTwice
  <2>18. r \in Boosts(all, X) BY <2>11, <2>15, <2>17 DEF Boosts
  <2> QED BY <1>1, <2>18
<1> QED BY <1>3, <1>4

(* boostInfluence() is a fold over the predictions.                        *)
LEMMA BoostsOnly ==
  ASSUME NEW X, NEW all \in Seq(Bearer(X)), NEW said \in Seq(Hint(X))
  PROVE  BoostInfluence(all, said) \in Boosts(all, X)
<1> DEFINE s == said
           V == Boosts(all, X)
           E == Hint(X)
           op == [p \in V \X E |-> Boosted(p[1], p[2])]
           base == all
           F(it) == [T \in SUBSET (DOMAIN s) |->
                       IF T = {} THEN base ELSE Boosted(it[T \ {Max(T)}], s[Max(T)])]
           iter == CHOOSE it : it = F(it)
<1>0. Len(said) \in Nat OBVIOUS
<1>1. DOMAIN s = 1..Len(said) OBVIOUS
<1>2. BoostInfluence(all, said) = iter[DOMAIN s]
  BY DEF BoostInfluence, FoldLeft, MapThenFoldSet, Boosted
<1>3. base \in V BY DEF Boosts, Reworked, Alike
<1>4. op \in [V \X E -> V] 
  <2>1. PICK n \in Nat : n = Len(all) OBVIOUS
  <2> QED BY <2>1, BoostedType
<1>5. \A w \in V, h \in E : op[<<w, h>>] = Boosted(w, h) OBVIOUS
<1>6. \A i \in 1..Len(said) : s[i] \in E OBVIOUS
<1> HIDE DEF op, base, V, E, s
<1>7. \E it : it = F(it)
  <2>1. PICK g : Iteration(g, Len(said), V, op, base, s) BY <1>0, <1>3, <1>4, <1>6, FoldExists
  <2>2. ASSUME NEW T \in SUBSET (1..Len(said)), T # {}
        PROVE  g[T] = Boosted(g[T \ {Max(T)}], s[Max(T)])
    <3>1. Max(T) \in T BY <1>0, <2>2, Highest
    <3>2. g[T \ {Max(T)}] \in V /\ s[Max(T)] \in E BY <1>6, <2>1, <3>1 DEF Iteration
    <3> QED BY <1>5, <2>1, <2>2, <3>2 DEF Iteration, Iterates
  <2>3. g = F(g) BY <1>1, <2>1, <2>2 DEF Iteration, Iterates
  <2> HIDE DEF F
  <2> QED BY <2>3
<1>8. iter = F(iter) BY <1>7
<1> HIDE DEF iter
<1>9. Iterates(iter, Len(said), V, op, base, s)
  <2>1. iter[{}] = base BY <1>8
  <2>2. ASSUME NEW T \in SUBSET (1..Len(said)), T # {}, iter[T \ {Max(T)}] \in V
        PROVE  iter[T] = op[<<iter[T \ {Max(T)}], s[Max(T)]>>]
    <3>1. Max(T) \in T BY <1>0, <2>2, Highest
    <3>2. s[Max(T)] \in E BY <1>6, <3>1
    <3>3. iter[T] = Boosted(iter[T \ {Max(T)}], s[Max(T)]) BY <1>1, <1>8, <2>2
    <3> QED BY <1>5, <2>2, <3>2, <3>3
  <2> QED BY <2>1, <2>2 DEF Iterates
<1>10. FoldsTo(iter[1..Len(said)], Len(said), V, op, base, s) BY <1>3, <1>4, <1>6, <1>9, <1>0, Folded
<1>11. iter[1..Len(said)] \in V
  <2>1. Len(said) \in 0..Len(said) BY <1>0
  <2> QED BY <1>10, <2>1 DEF FoldsTo
<1> QED BY <1>1, <1>2, <1>11 DEF V

-----------------------------------------------------------------------------
(* The edges of a run and those a worker has fetched.                      *)

(* The edges of a run: by hop, at least one, and each of them once.        *)
HopList(list) == list \in Seq(Bearer(STRING)) /\ Len(list) > 0 /\ InHopOrder(list)
Unlike(list) == \A i, j \in 1..Len(list) : list[i].id = list[j].id => i = j
Members(list) == {list[i] : i \in DOMAIN list}

(* The edges of the instance have agents and numbers.                      *)
LEMMA ShapesBear == \A e \in Shapes : e \in Bearer(STRING)
<1> SUFFICES ASSUME NEW e \in Shapes PROVE e \in Bearer(STRING) OBVIOUS
<1>1. e \in Edge BY ReportingAssumption
<1>2. \A x \in 0..100 : x \in Nat OBVIOUS
<1>3. e.cin \in Nat /\ e.cout \in Nat /\ e.infl \in Nat BY <1>1, <1>2 DEF Edge, Percent
<1>4. \A x \in (-100)..100 : x \in Int OBVIOUS
<1>5. e.delta \in Int BY <1>1, <1>4 DEF Edge
<1> HIDE DEF Previews, Percent
<1> QED BY <1>1, <1>3, <1>5 DEF Edge, Bearer

(* The runs of a set of edges: its edges, each once, in hop order.         *)
LEMMA RunsAre ==
  ASSUME NEW S \in SUBSET Shapes, S # {}, NEW list \in RunsOf(S)
  PROVE  HopList(list) /\ Unlike(list) /\ Members(list) = S
<1>1. PICK n \in 1..Cardinality(S) : list \in [1..n -> S] BY DEF RunsOf
<1>2. /\ Members(list) = S
      /\ \A i, j \in DOMAIN list : i < j => list[i] # list[j] /\ list[i].hop <= list[j].hop
  BY DEF RunsOf, Members
<1>3. n \in Nat /\ n > 0 /\ DOMAIN list = 1..n /\ list \in Seq(S) /\ Len(list) = n BY <1>1
<1>4. \A i \in 1..n : list[i] \in Shapes /\ list[i] \in Bearer(STRING) BY <1>1, ShapesBear
<1>5. list \in [1..n -> Bearer(STRING)] BY <1>1, <1>4
<1>6. list \in Seq(Bearer(STRING)) BY <1>3, <1>5, ListType
<1>7. InHopOrder(list) BY <1>2, <1>3 DEF InHopOrder
<1>8. Unlike(list)
  <2> SUFFICES ASSUME NEW i \in 1..n, NEW j \in 1..n, list[i].id = list[j].id PROVE i = j
    BY <1>3 DEF Unlike
  <2>1. list[i] = list[j] BY <1>4, ReportingAssumption
  <2>2. ~(i < j) /\ ~(j < i) BY <1>2, <1>3, <2>1
  <2> QED BY <1>3, <2>2
<1> QED BY <1>2, <1>3, <1>6, <1>7, <1>8 DEF HopList

(* There is a run of any edges: the sort makes one of them.                *)
LEMMA RunsThere ==
  ASSUME NEW S \in SUBSET Shapes, IsFiniteSet(S), S # {}
  PROVE  RunsOf(S) # {}
<1>1. PICK n \in Nat : n = Cardinality(S) /\ ExistsBijection(1..n, S) BY FS_CardinalityType
<1>2. PICK b \in Bijection(1..n, S) : TRUE BY <1>1 DEF ExistsBijection
<1>3. /\ b \in [1..n -> S] /\ \A e \in S : \E i \in 1..n : b[i] = e
      /\ \A i, j \in 1..n : b[i] = b[j] => i = j
  BY <1>2 DEF Bijection, Injection, Surjection, IsInjective
<1>4. b \in Seq(S) /\ Len(b) = n /\ DOMAIN b = 1..n BY <1>3, ListType
<1>5. \A i \in 1..n : b[i].hop \in Int
  <2> TAKE i \in 1..n
  <2>1. b[i] \in Bearer(STRING) BY <1>3, ShapesBear
  <2> QED BY <2>1 DEF Bearer
<1>6. PICK p : HopOrder(p, b)
  <2>1. Hopped(b) BY <1>4, <1>5 DEF Hopped
  <2> QED BY <1>4, <2>1, SortedByHop
<1> DEFINE r == [k \in 1..n |-> b[p[k]]]
<1>7. p \in [1..n -> 1..n] /\ (\A i \in 1..n : \E k \in 1..n : p[k] = i)
  BY <1>4, <1>6 DEF HopOrder
<1>8. \A k, l \in 1..n :
        k < l <=> b[p[k]].hop < b[p[l]].hop \/ (b[p[k]].hop = b[p[l]].hop /\ p[k] < p[l])
  BY <1>4, <1>6 DEF HopOrder
<1>9. r \in [1..n -> S] /\ DOMAIN r = 1..n BY <1>3, <1>7
<1>10. {r[i] : i \in DOMAIN r} = S
  <2>1. \A e \in S : \E k \in 1..n : r[k] = e
    <3> TAKE e \in S
    <3>1. PICK i \in 1..n : b[i] = e BY <1>3
    <3>2. PICK k \in 1..n : p[k] = i BY <1>7
    <3> QED BY <3>1, <3>2
  <2> HIDE DEF r
  <2> QED BY <1>9, <2>1
<1>11. \A i, j \in DOMAIN r : i < j => r[i] # r[j] /\ r[i].hop <= r[j].hop
  <2> SUFFICES ASSUME NEW i \in 1..n, NEW j \in 1..n, i < j PROVE r[i] # r[j] /\ r[i].hop <= r[j].hop
    OBVIOUS
  <2>1. p[i] \in 1..n /\ p[j] \in 1..n BY <1>7
  <2>2. b[p[i]].hop \in Int /\ b[p[j]].hop \in Int BY <1>5, <2>1
  <2>3. b[p[i]].hop < b[p[j]].hop \/ (b[p[i]].hop = b[p[j]].hop /\ p[i] < p[j]) BY <1>8
  <2>4. p[i] # p[j] BY <2>1, <2>2, <2>3
  <2>5. b[p[i]] # b[p[j]] BY <1>3, <2>1, <2>4
  <2> QED BY <2>2, <2>3, <2>5
<1>12. n \in 1..Cardinality(S)
  <2>1. n # 0 BY <1>1, FS_EmptySet
  <2> QED BY <1>1, <2>1
<1> HIDE DEF r
<1>13. r \in RunsOf(S) BY <1>9, <1>10, <1>11, <1>12 DEF RunsOf
<1> QED BY <1>13

(* Each of the edges is one of the hops, no two the same.                  *)
Picks(f, m, n) == f \in [1..m -> 1..n] /\ \A i, j \in 1..m : f[i] = f[j] => i = j

(* A list of n different places of n has every place.                      *)
LEMMA PicksAll ==
  ASSUME NEW n \in Nat, NEW f, Picks(f, n, n)
  PROVE  \A k \in 1..n : \E i \in 1..n : f[i] = k
<1>1. f \in Injection(1..n, 1..n) BY DEF Picks, Injection, IsInjective
<1>2. IsFiniteSet(1..n) BY SizeUpTo
<1>3. f \in Surjection(1..n, 1..n) BY <1>1, <1>2, FS_Injection
<1> QED BY <1>3 DEF Surjection

(* Which picks them in order picks the first, the second and so on.        *)
LEMMA PicksEach ==
  ASSUME NEW n \in Nat, NEW f, Picks(f, n, n), \A i, j \in 1..n : i < j => f[i] < f[j]
  PROVE  \A i \in 1..n : f[i] = i
<1> DEFINE bad == {i \in 1..n : f[i] # i}
<1> SUFFICES ASSUME bad # {} PROVE FALSE OBVIOUS
<1>1. PICK i \in bad : \A j \in bad : i <= j
  <2>1. bad \in SUBSET Nat OBVIOUS
  <2> HIDE DEF bad
  <2> QED BY <2>1, LowestIndex
<1>2. \A k \in 1..n : f[k] \in 1..n BY DEF Picks
<1>3. PICK k \in 1..n : f[k] = i BY PicksAll
<1>4. \A j \in 1..n : j < i => f[j] = j BY <1>1
<1>5. k # i /\ ~(k < i) BY <1>1, <1>3, <1>4
<1>6. i < k BY <1>5
<1>7. f[i] < i BY <1>3, <1>6
<1>8. f[i] \in 1..n /\ f[f[i]] = f[i] BY <1>2, <1>4, <1>7
<1>9. f[i] = i BY <1>2, <1>8 DEF Picks
<1> QED BY <1>1, <1>9

(* An edge as the worker has it and the hop it came from.                  *)
Matches(e, h, mutate, lowered, ml) ==
  /\ Alike(e, h)
  /\ ~mutate => e.delta = h.delta /\ e.cout = h.cout
  /\ ~lowered => e.cout = h.cout
  /\ ~ml => e.infl = h.infl
Derived(list, all, mutate, lowered, ml) ==
  /\ HopList(list)
  /\ \E f \in [1..Len(list) -> 1..Len(all)] :
       /\ Picks(f, Len(list), Len(all))
       /\ \A i \in 1..Len(list) : Matches(list[i], all[f[i]], mutate, lowered, ml)

(* The edges that are fetched are hops.                                    *)
LEMMA FetchDerives ==
  ASSUME NEW all, HopList(all), NEW S \in SUBSET Shapes, S # {}, S \subseteq Members(all),
         NEW list \in RunsOf(S), NEW m, NEW c, NEW l
  PROVE  Derived(list, all, m, c, l)
<1>1. HopList(list) /\ Unlike(list) /\ Members(list) = S BY RunsAre
<1>2. PICK n \in Nat : n = Len(list) /\ DOMAIN list = 1..n BY <1>1 DEF HopList
<1>3. PICK k \in Nat : k = Len(all) /\ DOMAIN all = 1..k BY DEF HopList
<1> DEFINE f == [i \in 1..n |-> CHOOSE j \in 1..k : all[j] = list[i]]
<1>4. ASSUME NEW i \in 1..n PROVE f[i] \in 1..k /\ all[f[i]] = list[i]
  <2>1. list[i] \in Members(list) BY <1>2 DEF Members
  <2>2. \E j \in 1..k : all[j] = list[i] BY <1>1, <1>3, <2>1 DEF Members
  <2> QED BY <2>2
<1>5. f \in [1..n -> 1..k] BY <1>4
<1> HIDE DEF f
<1>6. Picks(f, n, k)
  <2> SUFFICES ASSUME NEW i \in 1..n, NEW j \in 1..n, f[i] = f[j] PROVE i = j BY <1>5 DEF Picks
  <2>1. list[i] = list[j] BY <1>4
  <2> QED BY <1>1, <1>2, <2>1 DEF Unlike
<1>7. \A i \in 1..n : Matches(list[i], all[f[i]], m, c, l) BY <1>4 DEF Matches, Alike
<1> QED BY <1>1, <1>2, <1>3, <1>5, <1>6, <1>7 DEF Derived

Steady(new, old) == \A i \in DOMAIN old : new[i].cout = old[i].cout

(* What is reworked still comes from the hops.                             *)
LEMMA ReworkDerives ==
  ASSUME NEW all, NEW old, NEW m \in BOOLEAN, NEW c \in BOOLEAN, NEW l \in BOOLEAN,
         Derived(old, all, m, c, l), NEW new, Reworked(new, old, STRING, m), NEW d \in BOOLEAN,
         ~d => ~c, ~d => Steady(new, old), NEW k \in BOOLEAN, ~k => ~l, ~k => Weighty(new, old)
  PROVE  Derived(new, all, m, d, k)
<1>1. HopList(old) BY DEF Derived
<1>2. PICK n \in Nat : n = Len(old) /\ DOMAIN old = 1..n BY <1>1 DEF HopList
<1>3. PICK f \in [1..n -> 1..Len(all)] :
        /\ Picks(f, n, Len(all)) /\ \A i \in 1..n : Matches(old[i], all[f[i]], m, c, l)
  BY <1>2 DEF Derived
<1>4. /\ new \in Seq(Bearer(STRING)) /\ Len(new) = n
      /\ \A i \in 1..n : /\ Alike(new[i], old[i])
                         /\ ~m => new[i].delta = old[i].delta /\ new[i].cout = old[i].cout
  BY <1>2 DEF Reworked
<1>5. InHopOrder(new)
  <2>1. \A i \in 1..n : new[i].hop = old[i].hop BY <1>4 DEF Alike
  <2> QED BY <1>1, <1>2, <1>4, <2>1 DEF InHopOrder, HopList
<1>6. HopList(new) BY <1>1, <1>2, <1>4, <1>5 DEF HopList
<1>7. \A i \in 1..n : Matches(new[i], all[f[i]], m, d, k)
  <2> TAKE i \in 1..n
  <2>1. Matches(old[i], all[f[i]], m, c, l) BY <1>3
  <2>2. Alike(new[i], all[f[i]]) BY <1>4, <2>1 DEF Matches, Alike
  <2>3. ~m => new[i].delta = all[f[i]].delta /\ new[i].cout = all[f[i]].cout
    BY <1>4, <2>1 DEF Matches
  <2>4. ~d => new[i].cout = all[f[i]].cout BY <1>2, <2>1 DEF Matches, Steady
  <2>5. ~k => new[i].infl = all[f[i]].infl BY <1>2, <2>1 DEF Matches, Weighty
  <2> QED BY <2>2, <2>3, <2>4, <2>5 DEF Matches
<1> QED BY <1>3, <1>4, <1>6, <1>7 DEF Derived

(* Reworked edges have the agents they had.                                *)
LEMMA SameAgents ==
  ASSUME NEW X, NEW old \in Seq(X), NEW Y, NEW m, NEW new, Reworked(new, old, Y, m)
  PROVE  AgentsOf(new) = AgentsOf(old)
<1>1. PICK n \in Nat : n = Len(old) /\ DOMAIN old = 1..n OBVIOUS
<1>2. DOMAIN new = 1..n BY <1>1 DEF Reworked
<1>3. \A i \in 1..n : new[i].from = old[i].from /\ new[i].to = old[i].to
  BY <1>1 DEF Reworked, Alike
<1> QED BY <1>1, <1>2, <1>3 DEF AgentsOf

(* The hops by the agents they are between.                                *)
LEMMA BornByAgents ==
  ASSUME NEW list, HopList(list), NEW A, A = AgentsOf(list)
  PROVE  list \in Seq(Bearer(A)) /\ IsFiniteSet(A) /\ A # {} /\ Cardinality(A) \in Nat \ {0}
<1>1. PICK n \in Nat : n = Len(list) /\ DOMAIN list = 1..n /\ n > 0 BY DEF HopList
<1>2. \A i \in 1..n : list[i] \in Bearer(A)
  <2> TAKE i \in 1..n
  <2>1. list[i] \in Bearer(STRING) BY <1>1 DEF HopList
  <2>2. list[i].from \in A /\ list[i].to \in A BY <1>1 DEF AgentsOf
  <2> QED BY <2>1, <2>2 DEF Bearer
<1>3. list = [i \in 1..n |-> list[i]] BY <1>1 DEF HopList
<1>4. list \in [1..n -> Bearer(A)] BY <1>2, <1>3
<1>5. list \in Seq(Bearer(A)) BY <1>4, ListType
<1>6. list[1].from \in A BY <1>1 DEF AgentsOf
<1>7. IsFiniteSet(A) BY <1>5, AgentsFinite
<1>8. Cardinality(A) \in Nat /\ Cardinality(A) # 0 BY <1>6, <1>7, FS_CardinalityType, FS_EmptySet
<1> QED BY <1>5, <1>6, <1>7, <1>8

-----------------------------------------------------------------------------
(* The inductive invariant of Reporting.                                   *)

(* Rows as they were, but for the reasons an LLM has replaced.             *)
Retold(rows, was) ==
  /\ DOMAIN rows = DOMAIN was /\ Len(rows) = Len(was)
  /\ \A i \in DOMAIN was :
       /\ rows[i].agent = was[i].agent /\ rows[i].pct = was[i].pct
       /\ rows[i].root = was[i].root /\ rows[i].role = was[i].role
       /\ rows[i].reason = was[i].reason \/ rows[i].reason = "llm"

Passes(level, mode) == EvaluateGate(level, ModeOr(mode, "final"), GateHops(hops)).passed

HopsInv == HopList(hops) /\ Unlike(hops) /\ Members(hops) \subseteq Shapes
FlagsInv ==
  /\ env \in [mutate : BOOLEAN, ml : BOOLEAN] /\ cut \in BOOLEAN
  /\ stage \in {"running", "completed", "fetched"} => ~cut
  /\ event.failed \in BOOLEAN
  /\ stage # "running" => event.failed \/ event.skipped \/ event.level = Absent
                            \/ Passes(event.level, event.mode)
EdgesInv ==
  /\ stage \in {"running", "completed", "fetched", "hinted"} => shares = <<>>
  /\ shares = <<>> \/ (shares \in [AgentsOf(edges) -> Nat] /\ Total(shares) = 1000)
  /\ stage \notin {"running", "completed"} => Derived(edges, hops, env.mutate, cut, shares # <<>>)
ReportInv ==
  /\ report = [failed |-> report.failed, rows |-> report.rows, chain |-> report.chain,
               confidence |-> report.confidence, layout |-> report.layout,
               complexity |-> report.complexity]
  /\ Reported => /\ report.failed = Verdict /\ report.failed \in BOOLEAN
                 /\ Retold(report.rows, Rows(edges, report.failed, shares, Alpha))
                 /\ ~report.failed => report.chain = <<>>
  /\ stage = "computed" => report.rows = Rows(edges, report.failed, shares, Alpha)
ReportingInv == HopsInv /\ FlagsInv /\ EdgesInv /\ ReportInv /\ NoChangeNoDiff

(* A run that has not completed has no report.                             *)
LEMMA InitInv == ReportingInit => ReportingInv
<1> SUFFICES ASSUME ReportingInit PROVE ReportingInv OBVIOUS
<1>1. HopsInv
  <2>1. PICK S \in SUBSET Shapes : /\ IsFiniteSet(S) /\ Cardinality(S) \in 1..MaxHops
                                   /\ hops = CHOOSE s \in RunsOf(S) : TRUE
    BY DEF ReportingInit
  <2>2. S # {} BY <2>1, FS_EmptySet
  <2>3. hops \in RunsOf(S) BY <2>1, <2>2, RunsThere
  <2> QED BY <2>2, <2>3, RunsAre DEF HopsInv
<1>2. FlagsInv BY DEF FlagsInv, ReportingInit
<1>3. EdgesInv BY DEF EdgesInv, ReportingInit
<1>4. ReportInv BY DEF ReportInv, ReportingInit, Reported
<1>5. NoChangeNoDiff BY DEF NoChangeNoDiff, ReportingInit
<1> QED BY <1>1, <1>2, <1>3, <1>4, <1>5 DEF ReportingInv

(* Completing a run keeps the invariant.                                   *)
LEMMA CompleteKeeps ==
  ASSUME ReportingInv, NEW failed \in BOOLEAN, NEW skipped \in BOOLEAN, NEW gate,
         Complete(failed, skipped, gate)
  PROVE  ReportingInv'
<1> USE DEF Complete
<1>1. HopsInv' BY DEF ReportingInv, HopsInv
<1>2. FlagsInv' BY DEF ReportingInv, FlagsInv, Passes
<1>3. EdgesInv' BY DEF ReportingInv, EdgesInv
<1>4. ReportInv' BY DEF ReportingInv, ReportInv, Reported
<1>5. NoChangeNoDiff' BY DEF NoChangeNoDiff
<1> QED BY <1>1, <1>2, <1>3, <1>4, <1>5 DEF ReportingInv

(* Fetching the stored edges keeps the invariant.                          *)
LEMMA FetchKeeps ==
  ASSUME ReportingInv, NEW S \in SUBSET Members(hops), S # {}, Fetch(S)
  PROVE  ReportingInv'
<1>1. HopsInv' BY DEF ReportingInv, HopsInv, Fetch
<1>2. FlagsInv' BY DEF ReportingInv, FlagsInv, Passes, Fetch
<1>3. EdgesInv'
  <2>1. edges' \in RunsOf(S) /\ stage' = "fetched" BY DEF Fetch
  <2>2. HopList(hops) /\ S \in SUBSET Shapes BY DEF ReportingInv, HopsInv
  <2>3. PICK m, c, l : m = env.mutate /\ c = cut /\ l = (shares # <<>>) OBVIOUS
  <2>4. Derived(edges', hops, m, c, l) BY <2>1, <2>2, FetchDerives
  <2>5. shares = <<>> /\ UNCHANGED <<shares, env, cut, hops>> BY DEF ReportingInv, EdgesInv, Fetch
  <2> QED BY <2>1, <2>3, <2>4, <2>5 DEF EdgesInv
<1>4. ReportInv' BY DEF ReportingInv, ReportInv, Reported, Fetch
<1>5. NoChangeNoDiff' BY DEF NoChangeNoDiff, Fetch
<1> QED BY <1>1, <1>2, <1>3, <1>4, <1>5 DEF ReportingInv

(* The semantic hints keep the invariant: they lower confidences, and say  *)
(* so, only if they may.                                                   *)
LEMMA DriftKeeps ==
  ASSUME ReportingInv, NEW embeds \in BOOLEAN, DriftSemantically(embeds)
  PROVE  ReportingInv'
<1> USE DEF DriftSemantically
<1>1. HopsInv' BY DEF ReportingInv, HopsInv
<1>2. FlagsInv'
  <2>1. cut' \in BOOLEAN /\ stage' = "hinted" /\ UNCHANGED <<hops, env, event>> OBVIOUS
  <2>2. stage # "running" OBVIOUS
  <2> QED BY <2>1, <2>2 DEF ReportingInv, FlagsInv, Passes
<1>3. EdgesInv'
  <2>1. PICK m \in BOOLEAN : m = env.mutate BY DEF ReportingInv, FlagsInv
  <2>2. PICK c \in BOOLEAN : c = cut /\ ~c BY DEF ReportingInv, FlagsInv
  <2>3. PICK d \in BOOLEAN : d = cut' /\ (d <=> \E i \in DOMAIN edges : edges'[i].cout # edges[i].cout)
    OBVIOUS
  <2>4. PICK l \in BOOLEAN : l = (shares # <<>>) /\ ~l BY DEF ReportingInv, EdgesInv
  <2>5. Derived(edges, hops, m, c, l) BY <2>1, <2>2, <2>4 DEF ReportingInv, EdgesInv
  <2>6. Reworked(edges', edges, STRING, m) /\ Weighty(edges', edges)
    <3>1. edges \in Seq(Bearer(STRING)) BY <2>5 DEF Derived, HopList
    <3>2. PICK aim \in BOOLEAN : aim = (\E i \in DOMAIN edges : edges[i].input # "blank") OBVIOUS
    <3>3. CASE embeds
      <4>1. edges' = SemanticDrift(edges, aim, Threshold, m) BY <2>1, <3>2, <3>3
      <4>2. Threshold \in Nat /\ Threshold > 0 BY DEF Threshold
      <4> QED BY <3>1, <4>1, <4>2, DriftReworks
    <3>4. CASE ~embeds
      <4>1. edges' = edges BY <3>4
      <4> QED BY <3>1, <4>1 DEF Reworked, Alike, Weighty
    <3> QED BY <3>3, <3>4
  <2>7. Derived(edges', hops, m, d, l)
    <3> HIDE DEF DriftSemantically
    <3> PICK es : es = edges' OBVIOUS
    <3>1. (~d => ~c) /\ (~d => Steady(es, edges)) BY <2>2, <2>3 DEF Steady
    <3>0. PICK k \in BOOLEAN : k = l OBVIOUS
    <3>2. (~k => ~l) /\ (~k => Weighty(es, edges)) BY <2>6, <3>0
    <3>3. Reworked(es, edges, STRING, m) BY <2>6
    <3>4. Derived(es, hops, m, d, k) BY <2>5, <3>1, <3>2, <3>3, ReworkDerives
    <3> QED BY <3>0, <3>4
  <2>8. shares = <<>> /\ UNCHANGED <<shares, env, hops>> BY DEF ReportingInv, EdgesInv
  <2> QED BY <2>1, <2>3, <2>4, <2>7, <2>8 DEF EdgesInv
<1>4. ReportInv' BY DEF ReportingInv, ReportInv, Reported
<1>5. NoChangeNoDiff' BY DEF NoChangeNoDiff
<1> QED BY <1>1, <1>2, <1>3, <1>4, <1>5 DEF ReportingInv

(* The edges after one that was reworked is reconciled.                    *)
LEMMA ReconcileDerives ==
  ASSUME NEW all, NEW old, NEW m \in BOOLEAN, NEW c \in BOOLEAN, NEW l \in BOOLEAN,
         Derived(old, all, m, c, l), NEW new, new = Reconcile(old)
  PROVE  Derived(new, all, m, c, l) /\ AgentsOf(new) = AgentsOf(old)
<1>1. old \in Seq(Bearer(STRING)) BY DEF Derived, HopList
<1>2. PICK b \in BOOLEAN : b = FALSE OBVIOUS
<1>3. Reworked(new, old, STRING, b) /\ Weighty(new, old) BY <1>1, <1>2, ReconcileReworks
<1>4. PICK n \in Nat : n = Len(old) /\ DOMAIN old = 1..n BY <1>1
<1>5. Reworked(new, old, STRING, m) /\ Steady(new, old) BY <1>2, <1>3, <1>4 DEF Reworked, Steady
<1>6. PICK d \in BOOLEAN, k \in BOOLEAN : d = c /\ k = l OBVIOUS
<1>7. (~d => ~c) /\ (~d => Steady(new, old)) /\ (~k => ~l) /\ (~k => Weighty(new, old))
  BY <1>3, <1>5, <1>6
<1>8. Derived(new, all, m, d, k) BY <1>5, <1>7, ReworkDerives
<1>9. AgentsOf(new) = AgentsOf(old) BY <1>1, <1>5, SameAgents
<1> QED BY <1>6, <1>8, <1>9

(* Going on without the ML keeps the invariant.                            *)
LEMMA GoOnKeeps == ASSUME ReportingInv, GoOnWithoutMl PROVE ReportingInv'
<1>1. HopsInv' BY DEF ReportingInv, HopsInv, GoOnWithoutMl
<1>2. FlagsInv' BY DEF ReportingInv, FlagsInv, Passes, GoOnWithoutMl
<1>3. EdgesInv'
  <2>1. PICK m \in BOOLEAN : m = env.mutate BY DEF ReportingInv, FlagsInv
  <2>2. PICK c \in BOOLEAN : c = cut BY DEF ReportingInv, FlagsInv
  <2>3. shares = <<>> BY DEF ReportingInv, EdgesInv, GoOnWithoutMl
  <2>4. PICK l \in BOOLEAN : l = (shares # <<>>) BY <2>3
  <2>5. Derived(edges, hops, m, c, l) BY <2>1, <2>2, <2>4 DEF ReportingInv, EdgesInv, GoOnWithoutMl
  <2>6. PICK es : es = edges' /\ es = Reconcile(edges) BY DEF GoOnWithoutMl
  <2>7. Derived(es, hops, m, c, l) BY <2>5, <2>6, ReconcileDerives
  <2>8. stage' = "analysed" /\ UNCHANGED <<shares, env, hops, cut>> BY DEF GoOnWithoutMl
  <2> QED BY <2>1, <2>2, <2>3, <2>4, <2>6, <2>7, <2>8 DEF EdgesInv
<1>4. ReportInv' BY DEF ReportingInv, ReportInv, Reported, GoOnWithoutMl
<1>5. NoChangeNoDiff' BY DEF NoChangeNoDiff, GoOnWithoutMl
<1> QED BY <1>1, <1>2, <1>3, <1>4, <1>5 DEF ReportingInv

AnalysisIs(run, old, answers, incident, embeds, threshold, m) ==
  run = AnalyzeRun(old, answers, incident, embeds, threshold, m)
DerivedByMl(list, old, all, mutate, lowered) ==
  Derived(list, all, mutate, lowered, TRUE) /\ AgentsOf(list) = AgentsOf(old)
Ended(new, run) == new = Reconcile(BoostInfluence(run.edges, run.hops))

(* What analyzeRunWithMl() and boostInfluence() make of the edges.         *)
LEMMA AnalysisDerives ==
  ASSUME NEW all, NEW old, NEW m \in BOOLEAN, NEW c \in BOOLEAN, NEW l \in BOOLEAN,
         Derived(old, all, m, c, l), NEW answers, AnswersFor(answers, old),
         NEW incident \in BOOLEAN, NEW embeds, NEW threshold,
         NEW run, AnalysisIs(run, old, answers, incident, embeds, threshold, m), NEW new, Ended(new, run),
         NEW d \in BOOLEAN, ~d => ~c, ~d => Steady(run.edges, old)
  PROVE  DerivedByMl(new, old, all, m, d)
<1>1. old \in Seq(Bearer(STRING)) /\ InHopOrder(old) BY DEF Derived, HopList
<1>2. PICK n \in Nat : n = Len(old) /\ DOMAIN old = 1..n BY <1>1
<1>3. PICK es, said : es = run.edges /\ said = run.hops OBVIOUS
<1>4. Reworked(es, old, STRING, m) /\ said \in Seq(Hint(STRING)) BY <1>1, <1>3, AnalyzeRunReworks DEF AnalysisIs
<1>5. es \in Seq(Bearer(STRING)) /\ Len(es) = n BY <1>2, <1>4 DEF Reworked
<1>6. PICK boosted : boosted = BoostInfluence(es, said) OBVIOUS
<1>7. Reworked(boosted, es, STRING, FALSE) BY <1>4, <1>5, <1>6, BoostsOnly DEF Boosts
<1>8. PICK b \in BOOLEAN : b = FALSE OBVIOUS
<1>9. Reworked(boosted, old, STRING, m)
  <2>1. Reworked(boosted, es, STRING, b) BY <1>7, <1>8
  <2>2. \A i \in 1..n : Alike(boosted[i], old[i])
    BY <1>2, <1>4, <1>5, <1>7 DEF Reworked, Alike
  <2>3. \A i \in 1..n : ~m => boosted[i].delta = old[i].delta /\ boosted[i].cout = old[i].cout
    BY <1>2, <1>4, <1>5, <1>7 DEF Reworked
  <2>4. boosted \in Seq(Bearer(STRING)) /\ Len(boosted) = n BY <1>5, <1>7 DEF Reworked
  <2> QED BY <1>2, <2>2, <2>3, <2>4 DEF Reworked
<1>10. ~d => Steady(boosted, old) BY <1>2, <1>3, <1>5, <1>7 DEF Steady, Reworked
<1>101. PICK k \in BOOLEAN : k = TRUE OBVIOUS
<1>11. (~k => ~l) /\ (~k => Weighty(boosted, old)) BY <1>101
<1>12. Derived(boosted, all, m, d, k) BY <1>9, <1>10, <1>11, ReworkDerives
<1>13. new = Reconcile(boosted) BY <1>3, <1>6 DEF Ended
<1>14. AgentsOf(boosted) = AgentsOf(old) BY <1>1, <1>9, SameAgents
<1>15. Derived(new, all, m, d, k) /\ AgentsOf(new) = AgentsOf(boosted)
  BY <1>12, <1>13, ReconcileDerives
<1> QED BY <1>101, <1>14, <1>15 DEF DerivedByMl

(* The ML's answers keep the invariant: there is a share for every agent,  *)
(* and the edges are reworked as they may be.                              *)
LEMMA AnalyseKeeps ==
  ASSUME ReportingInv, NEW embeds \in BOOLEAN, NEW suspect, NEW answer \in Answers,
         NEW incident \in BOOLEAN, NEW faults \in Faults(edges),
         AnalyseWithMl(embeds, suspect, answer, incident, faults)
  PROVE  ReportingInv'
<1>1. HopsInv' BY DEF ReportingInv, HopsInv, AnalyseWithMl
<1>2. FlagsInv'
  <2>1. cut' \in BOOLEAN /\ stage' = "analysed" /\ UNCHANGED <<hops, env, event>>
    BY DEF AnalyseWithMl, ReportingInv, FlagsInv
  <2>2. stage # "running" BY DEF AnalyseWithMl
  <2> QED BY <2>1, <2>2 DEF ReportingInv, FlagsInv, Passes
<1>3. EdgesInv'
  <2> DEFINE H == {e.hop : e \in Shapes}
             ans == [h \in H |-> IF h = suspect THEN answer ELSE [label |-> "none", top |-> 90]]
             run == AnalyzeRun(edges, ans, incident, embeds, Threshold, env.mutate)
  <2>0. PICK answers : answers = ans OBVIOUS
  <2>1. /\ stage = "hinted" /\ stage' = "analysed" /\ UNCHANGED <<hops, env>> /\ shares' = faults
        /\ edges' = Reconcile(BoostInfluence(run.edges, run.hops))
        /\ cut' = (cut \/ \E i \in DOMAIN edges : run.edges[i].cout # edges[i].cout)
    BY DEF AnalyseWithMl
  <2>2. PICK m \in BOOLEAN : m = env.mutate BY DEF ReportingInv, FlagsInv
  <2>3. PICK c \in BOOLEAN : c = cut BY DEF ReportingInv, FlagsInv
  <2>4. shares = <<>> BY <2>1 DEF ReportingInv, EdgesInv
  <2>5. PICK l \in BOOLEAN : l = (shares # <<>>) BY <2>4
  <2>6. Derived(edges, hops, m, c, l) BY <2>1, <2>2, <2>3, <2>5 DEF ReportingInv, EdgesInv
  <2>7. HopList(edges) BY <2>6 DEF Derived
  <2>8. AnswersFor(answers, edges)
    <3> SUFFICES ASSUME NEW i \in 1..Len(edges) PROVE ans[edges[i].hop] \in MlAnswer
      BY <2>0 DEF AnswersFor
    <3>1. PICK f \in [1..Len(edges) -> 1..Len(hops)] : Alike(edges[i], hops[f[i]])
      BY <2>6 DEF Derived, Matches
    <3>2. f[i] \in DOMAIN hops BY DEF ReportingInv, HopsInv, HopList
    <3>3. hops[f[i]] \in Shapes BY <3>2 DEF ReportingInv, HopsInv, Members
    <3>4. edges[i].hop = hops[f[i]].hop BY <3>1 DEF Alike
    <3>5. edges[i].hop \in H BY <3>3, <3>4
    <3>6. answer \in MlAnswer BY ReportingAssumption DEF MlAnswer
    <3>7. [label |-> "none", top |-> 90] \in MlAnswer BY DEF MlAnswer, DriftTypes, Percent
    <3> HIDE DEF H
    <3> QED BY <3>5, <3>6, <3>7
  <2> HIDE DEF ans, H
  <2>9. PICK r : r = run OBVIOUS
  <2>10. r = AnalyzeRun(edges, answers, incident, embeds, Threshold, m) BY <2>0, <2>2, <2>9
  <2>11. PICK es : es = edges' /\ es = Reconcile(BoostInfluence(r.edges, r.hops)) BY <2>1, <2>9
  <2>12. cut' = (cut \/ \E i \in DOMAIN edges : r.edges[i].cout # edges[i].cout) BY <2>1, <2>9
  <2>13. PICK d \in BOOLEAN : d = cut' BY <2>12
  <2>14. (~d => ~c) /\ (~d => Steady(r.edges, edges)) BY <2>3, <2>12, <2>13 DEF Steady
  <2>15. faults \in [AgentsOf(edges) -> Nat] /\ Total(faults) = 1000
    <3>1. PICK A : A = AgentsOf(edges) OBVIOUS
    <3>2. faults \in [A -> Shares \cup {0}] /\ Total(faults) = 1000 BY <3>1 DEF Faults
    <3>3. Shares \cup {0} \subseteq Nat BY ReportingAssumption
    <3>4. faults \in [A -> Nat] BY <3>2, <3>3
    <3> QED BY <3>1, <3>2, <3>4
  <2>16. AgentsOf(edges) # {} BY <2>7, BornByAgents
  <2>17. faults # <<>> BY <2>15, <2>16
  <2>18. PICK k \in BOOLEAN : k = (faults # <<>>) /\ k = TRUE BY <2>17
  <2> HIDE DEF run
  <2>19. Derived(es, hops, m, d, k) /\ AgentsOf(es) = AgentsOf(edges)
    <3>0. PICK old, t, all : old = edges /\ t = Threshold /\ all = hops OBVIOUS
    <3>1. /\ Derived(old, all, m, c, l) /\ AnswersFor(answers, old)
          /\ AnalysisIs(r, old, answers, incident, embeds, t, m) /\ Ended(es, r)
      BY <2>6, <2>8, <2>10, <2>11, <3>0 DEF AnalysisIs, Ended
    <3>2. (~d => ~c) /\ (~d => Steady(r.edges, old)) BY <2>14, <3>0
    <3>3. Derived(es, all, m, d, k) /\ AgentsOf(es) = AgentsOf(old)
      <4>1. DerivedByMl(es, old, all, m, d)
        BY <3>1, <3>2, AnalysisDerives
      <4> QED BY <2>18, <4>1 DEF DerivedByMl
    <3> QED BY <3>0, <3>3
  <2>20. Derived(edges, hops, env.mutate, cut, shares # <<>>)'
    BY <2>1, <2>2, <2>11, <2>13, <2>18, <2>19
  <2>21. (shares \in [AgentsOf(edges) -> Nat] /\ Total(shares) = 1000)'
    BY <2>1, <2>11, <2>15, <2>19
  <2> QED BY <2>1, <2>20, <2>21 DEF EdgesInv
<1>4. ReportInv' BY DEF ReportingInv, ReportInv, Reported, AnalyseWithMl
<1>5. NoChangeNoDiff' BY DEF NoChangeNoDiff, AnalyseWithMl
<1> QED BY <1>1, <1>2, <1>3, <1>4, <1>5 DEF ReportingInv

(* Computing the report keeps the invariant.                               *)
LEMMA ComputeKeeps == ASSUME ReportingInv, Compute PROVE ReportingInv'
<1>1. HopsInv' BY DEF ReportingInv, HopsInv, Compute
<1>2. FlagsInv' BY DEF ReportingInv, FlagsInv, Passes, Compute
<1>3. EdgesInv' BY DEF ReportingInv, EdgesInv, Compute
<1>4. ReportInv'
  <2>1. PICK failed, ruled, rows :
          /\ failed = Verdict /\ ruled = RuleBlames(edges, failed)
          /\ rows = IF failed /\ shares # <<>>
                    THEN Enrich(Fuse(ruled, shares, Alpha), edges, TRUE) ELSE ruled
          /\ report' = [failed |-> failed, rows |-> rows,
                        chain |-> PropagationChain(rows, failed),
                        confidence |-> BlameConfidence(rows),
                        layout |-> InferLayout(CollapseRetryStorms(edges)),
                        complexity |-> Complexity(Cardinality(AgentsOf(edges)))]
    BY DEF Compute
  <2>2. stage' = "computed" /\ UNCHANGED <<settings, event, edges, shares>> BY DEF Compute
  <2>3. rows = Rows(edges, failed, shares, Alpha) BY <2>1 DEF Rows
  <2>4. PICK x, y, z, t : /\ x = PropagationChain(rows, failed) /\ y = BlameConfidence(rows)
                          /\ z = InferLayout(CollapseRetryStorms(edges))
                          /\ t = Complexity(Cardinality(AgentsOf(edges)))
    OBVIOUS
  <2>5. report' = [failed |-> failed, rows |-> rows, chain |-> x, confidence |-> y, layout |-> z,
                   complexity |-> t]
    BY <2>1, <2>4
  <2>6. Verdict \in BOOLEAN BY DEF Verdict, ReportingInv, FlagsInv
  <2>7. Verdict' = Verdict BY <2>2 DEF Verdict
  <2>8. ~failed => x = <<>> BY <2>4 DEF PropagationChain
  <2>9. Retold(rows, rows) BY DEF Retold
  <2>10. /\ report'.failed = failed /\ report'.rows = rows /\ report'.chain = x
         /\ report' = [failed |-> report'.failed, rows |-> report'.rows, chain |-> report'.chain,
                       confidence |-> report'.confidence, layout |-> report'.layout,
                       complexity |-> report'.complexity]
    BY <2>5
  <2>11. (report.rows = Rows(edges, report.failed, shares, Alpha))' BY <2>2, <2>3, <2>10
  <2>12. Retold(report.rows, Rows(edges, report.failed, shares, Alpha))' BY <2>9, <2>10, <2>11
  <2>13. report'.failed = Verdict' /\ report'.failed \in BOOLEAN BY <2>1, <2>6, <2>7, <2>10
  <2> QED BY <2>8, <2>10, <2>11, <2>12, <2>13 DEF ReportInv
<1>5. NoChangeNoDiff' BY DEF NoChangeNoDiff, Compute
<1> QED BY <1>1, <1>2, <1>3, <1>4, <1>5 DEF ReportingInv

(* What is known of the rows, from the edges and the shares alone.         *)
Ready(es, sh) ==
  /\ HopList(es) /\ (sh = <<>> \/ (sh \in [AgentsOf(es) -> Nat] /\ Total(sh) = 1000))

(* The rows of the report that is due are sound, and there are some.       *)
LEMMA RowsOfReport ==
  ASSUME NEW es, NEW sh, Ready(es, sh), NEW failed \in BOOLEAN,
         NEW rows, rows = Rows(es, failed, sh, Alpha), NEW A, A = AgentsOf(es),
         NEW n \in Nat, n = Cardinality(A)
  PROVE  SoundRows(rows, es, failed, sh, A, n) /\ n > 0
<1>1. es \in Seq(Bearer(A)) /\ n > 0 BY BornByAgents DEF Ready
<1>2. InHopOrder(es) BY DEF Ready, HopList
<1>3. PICK alpha \in 0..100 : alpha = Alpha BY ReportingAssumption
<1>4. SharesOf(sh, A) BY DEF Ready, SharesOf
<1>5. rows = Rows(es, failed, sh, alpha) BY <1>3
<1>6. SoundRows(rows, es, failed, sh, A, n) BY <1>1, <1>2, <1>4, <1>5, ReportRows
<1> QED BY <1>1, <1>6

(* Explaining a report keeps the invariant.                                *)
LEMMA ExplainKeeps == ASSUME ReportingInv, NEW named, Explain(named) PROVE ReportingInv'
<1>1. HopsInv' BY DEF ReportingInv, HopsInv, Explain
<1>2. FlagsInv' BY DEF ReportingInv, FlagsInv, Passes, Explain
<1>3. EdgesInv' BY DEF ReportingInv, EdgesInv, Explain
<1>4. ReportInv'
  <2> DEFINE ToldBy(r) == IF r.agent \in named THEN [r EXCEPT !.reason = "llm"] ELSE r
             was == report.rows
  <2>1. /\ stage = "computed" /\ stage' = "stored" /\ UNCHANGED <<settings, event, edges, shares>>
        /\ report' = [report EXCEPT !.rows = [i \in DOMAIN was |-> ToldBy(was[i])]]
    BY DEF Explain
  <2>2. report = [failed |-> report.failed, rows |-> report.rows, chain |-> report.chain,
                  confidence |-> report.confidence, layout |-> report.layout,
                  complexity |-> report.complexity]
    BY DEF ReportingInv, ReportInv
  <2>3. was = Rows(edges, report.failed, shares, Alpha) BY <2>1 DEF ReportingInv, ReportInv
  <2>4. report.failed \in BOOLEAN /\ report.failed = Verdict /\ (~report.failed => report.chain = <<>>)
    BY <2>1 DEF ReportingInv, ReportInv, Reported
  <2>5. PICK A : A = AgentsOf(edges) OBVIOUS
  <2>6. was \in Seq(BlameRow(A))
    <3>1. Ready(edges, shares) BY <2>1 DEF Ready, ReportingInv, EdgesInv, Derived
    <3>2. Cardinality(A) \in Nat BY <2>5, <3>1, BornByAgents DEF Ready
    <3>3. PICK n \in Nat : n = Cardinality(A) BY <3>2
    <3>4. SoundRows(was, edges, report.failed, shares, A, n)
      BY <2>3, <2>4, <2>5, <3>1, <3>3, RowsOfReport
    <3> QED BY <3>4 DEF SoundRows, RowsFor
  <2>7. PICK n \in Nat : n = Len(was) /\ DOMAIN was = 1..n BY <2>6
  <2>8. PICK rows : rows = [i \in DOMAIN was |-> ToldBy(was[i])] OBVIOUS
  <2>9. ASSUME NEW i \in 1..n
        PROVE  /\ rows[i].agent = was[i].agent /\ rows[i].pct = was[i].pct
               /\ rows[i].root = was[i].root /\ rows[i].role = was[i].role
               /\ rows[i].reason = was[i].reason \/ rows[i].reason = "llm"
    <3>1. PICK r \in BlameRow(A) : r = was[i] BY <2>6, <2>7
    <3>2. rows[i] = IF r.agent \in named THEN [r EXCEPT !.reason = "llm"] ELSE r
      BY <2>7, <2>8, <3>1
    <3> QED BY <3>1, <3>2 DEF BlameRow
  <2>10. DOMAIN rows = 1..n /\ Len(rows) = n BY <2>7, <2>8
  <2>11. Retold(rows, was) BY <2>7, <2>9, <2>10 DEF Retold
  <2>12. report' = [report EXCEPT !.rows = rows] BY <2>1, <2>8
  <2> HIDE DEF ToldBy, was
  <2>13. report' = [failed |-> report.failed, rows |-> rows, chain |-> report.chain,
                    confidence |-> report.confidence, layout |-> report.layout,
                    complexity |-> report.complexity]
    BY <2>2, <2>12
  <2>14. /\ report'.failed = report.failed /\ report'.rows = rows /\ report'.chain = report.chain
         /\ report' = [failed |-> report'.failed, rows |-> report'.rows, chain |-> report'.chain,
                       confidence |-> report'.confidence, layout |-> report'.layout,
                       complexity |-> report'.complexity]
    BY <2>13
  <2>15. Retold(report.rows, Rows(edges, report.failed, shares, Alpha))'
    BY <2>1, <2>3, <2>11, <2>14
  <2>16. Verdict' = Verdict BY <2>1 DEF Verdict
  <2>17. stage' # "computed" BY <2>1
  <2> QED BY <2>4, <2>14, <2>15, <2>16, <2>17 DEF ReportInv
<1>5. NoChangeNoDiff' BY DEF NoChangeNoDiff, Explain
<1> QED BY <1>1, <1>2, <1>3, <1>4, <1>5 DEF ReportingInv

-----------------------------------------------------------------------------
(* Replays that change nothing.                                            *)

(* The hops have their index for themselves.                               *)
Alone(list) == \A i, j \in DOMAIN list : list[i].hop = list[j].hop => i = j

(* Nothing is missing among hops that have an index each: then the worker  *)
(* has them in the order they were recorded.                               *)
LEMMA SamePlaces ==
  ASSUME NEW all, HopList(all), Alone(all), NEW list, NEW m, NEW c, NEW l,
         Derived(list, all, m, c, l), Len(list) >= Len(all)
  PROVE  Len(list) = Len(all) /\ \A i \in DOMAIN all : Matches(list[i], all[i], m, c, l)
<1>1. HopList(list) BY DEF Derived
<1>2. PICK n \in Nat : n = Len(list) /\ DOMAIN list = 1..n BY <1>1 DEF HopList
<1>3. PICK k \in Nat : k = Len(all) /\ DOMAIN all = 1..k BY DEF HopList
<1>4. PICK f \in [1..n -> 1..k] :
        Picks(f, n, k) /\ \A i \in 1..n : Matches(list[i], all[f[i]], m, c, l)
  BY <1>2, <1>3 DEF Derived
<1>5. n = k
  <2>1. f \in Injection(1..n, 1..k) BY <1>4 DEF Picks, Injection, IsInjective
  <2>2. Cardinality(1..n) <= Cardinality(1..k) BY <2>1, SizeUpTo, FS_Injection
  <2>3. n <= k BY <2>2, SizeUpTo
  <2> QED BY <1>2, <1>3, <2>3
<1>6. \A i \in 1..n : list[i].hop = all[f[i]].hop /\ f[i] \in 1..k BY <1>4 DEF Matches, Alike
<1>7. \A i \in 1..k : all[i].hop \in Nat
  <2> TAKE i \in 1..k
  <2>1. all[i] \in Bearer(STRING) BY <1>3 DEF HopList
  <2> QED BY <2>1 DEF Bearer
<1>8. ASSUME NEW i \in 1..n, NEW j \in 1..n, i < j PROVE f[i] < f[j]
  <2>1. list[i].hop <= list[j].hop BY <1>1, <1>2, <1>8 DEF HopList, InHopOrder
  <2>2. all[f[i]].hop <= all[f[j]].hop BY <1>6, <2>1
  <2>3. f[i] # f[j] BY <1>4, <1>8 DEF Picks
  <2>4. ~(f[j] < f[i])
    <3> SUFFICES ASSUME f[j] < f[i] PROVE FALSE OBVIOUS
    <3>1. all[f[j]].hop <= all[f[i]].hop BY <1>3, <1>6 DEF HopList, InHopOrder
    <3>2. all[f[j]].hop = all[f[i]].hop BY <1>6, <1>7, <2>2, <3>1
    <3> QED BY <1>3, <1>6, <2>3, <3>2 DEF Alone
  <2> QED BY <1>6, <2>3, <2>4
<1>9. \A i \in 1..n : f[i] = i BY <1>4, <1>5, <1>8, PicksEach
<1> QED BY <1>2, <1>3, <1>4, <1>5, <1>9

(* The hop with an id, when no other has it.                               *)
LEMMA OneById ==
  ASSUME NEW all, HopList(all), Unlike(all), NEW i \in DOMAIN all, NEW id, id = all[i].id
  PROVE  ById(all, id) = all[i]
<1>1. DOMAIN all = 1..Len(all) BY DEF HopList
<1>2. \A j \in DOMAIN all : all[j].id = id => j = i BY <1>1 DEF Unlike
<1>3. i <= i BY <1>1 DEF HopList
<1>4. (CHOOSE j \in DOMAIN all :
         all[j].id = id /\ \A k \in DOMAIN all : all[k].id = id => k <= j) = i
  BY <1>2, <1>3
<1> QED BY <1>4 DEF ById

(* The highest of one number.                                              *)
LEMMA OnlyMember == ASSUME NEW i \in Int PROVE Max({i}) = i
BY DEF Max

(* A record of a hop is all of its fields.                                 *)
LEMMA AllFields ==
  ASSUME NEW X, NEW e \in Bearer(X), NEW h \in Bearer(X), Alike(e, h), e.delta = h.delta,
         e.cout = h.cout, e.infl = h.infl
  PROVE  [h EXCEPT !.cin = e.cin] = e
<1> HIDE DEF Previews, Percent
<1> QED BY DEF Bearer, Alike

(* Nothing was written over the hops that is not in the stored edges.      *)
Unmarked(list, all) ==
  \A i \in DOMAIN list : /\ list[i].delta = ById(all, list[i].id).delta
                         /\ list[i].cout = ById(all, list[i].id).cout

(* The updates carried out, the stored edges are those of the worker.      *)
LEMMA StoredAre ==
  ASSUME HopList(hops), Unlike(hops), Alone(hops), NEW c,
         Derived(edges, hops, env.mutate, c, FALSE), Len(edges) >= Len(hops),
         env.mutate => Unmarked(edges, hops)
  PROVE  StoredEdges(Len(edges)) = edges
<1>1. HopList(edges) BY DEF Derived
<1>2. /\ Len(edges) = Len(hops)
      /\ \A i \in DOMAIN hops : Matches(edges[i], hops[i], env.mutate, c, FALSE)
  BY SamePlaces
<1>3. PICK n \in Nat : n = Len(edges) /\ DOMAIN edges = 1..n /\ DOMAIN hops = 1..n
  BY <1>1, <1>2 DEF HopList
<1> DEFINE processed == {edges[i].id : i \in DOMAIN edges}
           Updates(e) == {i \in 1..Len(edges) : edges[i].hop = e.hop /\ edges[i].from = e.from}
           Stored(e) == IF e.id \notin processed \/ Updates(e) = {} THEN e
                        ELSE [e EXCEPT !.cin = edges[Max(Updates(e))].cin]
           r == [i \in DOMAIN hops |-> Stored(hops[i])]
<1>4. StoredEdges(Len(edges)) = Listed(r) BY DEF StoredEdges
<1>5. ASSUME NEW i \in 1..n PROVE Stored(hops[i]) = edges[i]
  <2>1. Matches(edges[i], hops[i], env.mutate, c, FALSE) BY <1>2, <1>3
  <2>2. Alike(edges[i], hops[i]) /\ edges[i].infl = hops[i].infl BY <2>1 DEF Matches
  <2>3. hops[i].id \in processed BY <1>3, <2>2 DEF Alike
  <2>4. Updates(hops[i]) = {i}
    <3>1. \A j \in 1..n : edges[j].hop = hops[j].hop /\ edges[j].from = hops[j].from
      BY <1>2, <1>3 DEF Matches, Alike
    <3>2. \A j \in 1..n : edges[j].hop = hops[i].hop => j = i BY <1>3, <3>1 DEF Alone
    <3> QED BY <1>3, <3>1, <3>2
  <2>5. Max({i}) = i BY OnlyMember
  <2>6. Stored(hops[i]) = [hops[i] EXCEPT !.cin = edges[i].cin] BY <2>3, <2>4, <2>5
  <2>7. edges[i].delta = hops[i].delta /\ edges[i].cout = hops[i].cout
    <3>1. CASE ~env.mutate BY <2>1, <3>1 DEF Matches
    <3>2. CASE env.mutate
      <4>1. edges[i].id = hops[i].id BY <2>2 DEF Alike
      <4>2. ById(hops, edges[i].id) = hops[i] BY <1>3, <4>1, OneById
      <4> QED BY <1>3, <3>2, <4>2 DEF Unmarked
    <3> QED BY <3>1, <3>2
  <2>8. edges[i] \in Bearer(STRING) /\ hops[i] \in Bearer(STRING) BY <1>1, <1>3 DEF HopList
  <2>9. [hops[i] EXCEPT !.cin = edges[i].cin] = edges[i] BY <2>2, <2>7, <2>8, AllFields
  <2> QED BY <2>6, <2>9
<1> HIDE DEF Stored
<1>6. r = [i \in 1..n |-> edges[i]] BY <1>3, <1>5
<1>7. edges = [i \in 1..n |-> edges[i]] BY <1>1, <1>3 DEF HopList
<1> HIDE DEF r
<1>8. r = edges BY <1>6, <1>7
<1>9. Listed(edges) = edges BY <1>3, <1>7, ListedIs
<1> QED BY <1>4, <1>8, <1>9

(* A hop patched with the output it has is the hop.                        *)
LEMMA PatchedAre ==
  ASSUME NEW list, HopList(list), NEW e,
         \A i \in DOMAIN list : list[i].hop = e.hop => list[i].output = e.output
  PROVE  Patched(list, e, e.output) = list
<1>1. PICK n \in Nat : n = Len(list) /\ DOMAIN list = 1..n BY DEF HopList
<1>2. list = [i \in 1..n |-> list[i]] BY <1>1 DEF HopList
<1> DEFINE Patch(f) == IF f.hop = e.hop THEN [f EXCEPT !.output = e.output] ELSE f
           r == [i \in DOMAIN list |-> Patch(list[i])]
<1>3. Patched(list, e, e.output) = Listed(r) BY DEF Patched
<1>4. ASSUME NEW i \in 1..n PROVE Patch(list[i]) = list[i]
  <2>1. PICK f \in Bearer(STRING) : f = list[i] BY <1>1 DEF HopList
  <2>2. f.hop = e.hop => f.output = e.output BY <1>1, <2>1
  <2>3. [f EXCEPT !.output = f.output] = f BY DEF Bearer
  <2> QED BY <2>1, <2>2, <2>3
<1> HIDE DEF Patch
<1>5. r = [i \in 1..n |-> list[i]] BY <1>1, <1>4
<1> HIDE DEF r
<1>6. Listed(list) = list BY <1>1, <1>2, ListedIs
<1> QED BY <1>2, <1>3, <1>5, <1>6

(* An agent's share is that of its row, or none.                           *)
LEMMA ShareIs ==
  ASSUME NEW rows, NEW a, NEW mine, mine = {i \in DOMAIN rows : rows[i].agent = a}
  PROVE  ShareOf(rows, a) = IF mine = {} THEN 0 ELSE rows[CHOOSE i \in mine : TRUE].pct
<1> DEFINE own == {i \in DOMAIN rows : rows[i].agent = a}
<1>1. ShareOf(rows, a) = IF own = {} THEN 0 ELSE rows[CHOOSE i \in own : TRUE].pct
  BY DEF ShareOf
<1>2. own = mine OBVIOUS
<1> HIDE DEF own
<1> QED BY <1>1, <1>2

(* Rows that are told anew have the shares they had.                       *)
LEMMA SameShares ==
  ASSUME NEW rows, NEW was, Retold(rows, was), NEW a
  PROVE  ShareOf(rows, a) = ShareOf(was, a)
<1>1. {i \in DOMAIN rows : rows[i].agent = a} = {i \in DOMAIN was : was[i].agent = a} BY DEF Retold
<1>2. PICK mine : mine = {i \in DOMAIN was : was[i].agent = a} OBVIOUS
<1>3. mine = {i \in DOMAIN rows : rows[i].agent = a} BY <1>1, <1>2
<1>4. PICK x : x = CHOOSE j \in mine : TRUE OBVIOUS
<1>5. ShareOf(rows, a) = IF mine = {} THEN 0 ELSE rows[x].pct BY <1>3, <1>4, ShareIs
<1>6. ShareOf(was, a) = IF mine = {} THEN 0 ELSE was[x].pct BY <1>2, <1>4, ShareIs
<1>7. mine # {} => x \in mine BY <1>4
<1>8. mine # {} => rows[x].pct = was[x].pct BY <1>2, <1>7 DEF Retold
<1> QED BY <1>5, <1>6, <1>8

(* A replay that changes nothing computes the rows the report has.         *)
LEMMA NothingToShow ==
  ASSUME ReportingInv, stage = "stored", shares = <<>>, Alone(hops), Len(edges) >= Len(hops),
         env.mutate => Unmarked(edges, hops), NEW e \in Members(hops),
         NEW patched, patched = Patched(StoredEdges(Len(edges)), e, e.output),
         NEW counterfactual, counterfactual = RuleBlames(patched, report.failed), NEW a
  PROVE  ShareOf(report.rows, a) = ShareOf(counterfactual, a)
<1>1. HopList(hops) /\ Unlike(hops) BY DEF ReportingInv, HopsInv
<1>2. PICK c : c = cut OBVIOUS
<1>3. Derived(edges, hops, env.mutate, c, FALSE)
  <2>1. PICK l : l = (shares # <<>>) /\ l = FALSE OBVIOUS
  <2>2. Derived(edges, hops, env.mutate, c, l) BY <1>2, <2>1 DEF ReportingInv, EdgesInv
  <2> QED BY <2>1, <2>2
<1>4. StoredEdges(Len(edges)) = edges BY <1>1, <1>3, StoredAre
<1>5. HopList(edges) BY <1>3 DEF Derived
<1>6. \A i \in DOMAIN edges : edges[i].hop = e.hop => edges[i].output = e.output
  <2>1. /\ Len(edges) = Len(hops)
        /\ \A i \in DOMAIN hops : Matches(edges[i], hops[i], env.mutate, c, FALSE)
    BY <1>1, <1>3, SamePlaces
  <2>2. DOMAIN edges = DOMAIN hops BY <1>1, <1>5, <2>1 DEF HopList
  <2>3. PICK k \in DOMAIN hops : e = hops[k] BY DEF Members
  <2> SUFFICES ASSUME NEW i \in DOMAIN hops, edges[i].hop = e.hop PROVE edges[i].output = e.output
    BY <2>2
  <2>4. edges[i].hop = hops[i].hop /\ edges[i].output = hops[i].output BY <2>1 DEF Matches, Alike
  <2>5. i = k BY <2>3, <2>4 DEF Alone
  <2> QED BY <2>3, <2>4, <2>5
<1>7. Patched(edges, e, e.output) = edges BY <1>5, <1>6, PatchedAre
<1>8. counterfactual = RuleBlames(edges, report.failed) BY <1>4, <1>7
<1>9. counterfactual = Rows(edges, report.failed, shares, Alpha) BY <1>8 DEF Rows
<1>10. Retold(report.rows, counterfactual) BY <1>9 DEF ReportingInv, ReportInv, Reported
<1> QED BY <1>10, SameShares

(* A replay keeps the invariant: where it changed nothing it shows no      *)
(* difference.                                                             *)
LEMMA ReplayKeeps ==
  ASSUME ReportingInv, NEW e \in Members(hops), NEW output, NEW updated \in {0, Len(edges)},
         Replay(e, output, updated)
  PROVE  ReportingInv'
<1>1. HopsInv' BY DEF ReportingInv, HopsInv, Replay
<1>2. FlagsInv' BY DEF ReportingInv, FlagsInv, Passes, Replay
<1>3. EdgesInv' BY DEF ReportingInv, EdgesInv, Replay
<1>4. ReportInv'
  <2>1. /\ stage = "stored" /\ stage' = "replayed"
        /\ UNCHANGED <<hops, settings, env, event, edges, cut, shares, report>>
    BY DEF Replay
  <2>2. Verdict' = Verdict BY <2>1 DEF Verdict
  <2> QED BY <2>1, <2>2 DEF ReportingInv, ReportInv, Reported
<1>5. NoChangeNoDiff'
  <2>1. PICK patched, counterfactual :
          /\ patched = Patched(StoredEdges(updated), e, output)
          /\ counterfactual = RuleBlames(patched, report.failed)
          /\ shown' = [diff |-> {a \in AgentsOf(hops) :
                                  ShareOf(report.rows, a) # ShareOf(counterfactual, a)},
                       hop |-> e.hop, updated |-> updated, edited |-> output # e.output]
    BY DEF Replay
  <2>2. stage = "stored" /\ UNCHANGED <<hops, env, edges, shares>> BY DEF Replay
  <2>3. shown'.updated = updated /\ (shown'.edited <=> output # e.output) BY <2>1
  <2>4. shown'.diff = {a \in AgentsOf(hops) : ShareOf(report.rows, a) # ShareOf(counterfactual, a)}
    BY <2>1
  <2>5. Len(edges) \in Nat /\ Len(hops) \in Nat
    BY <2>2 DEF ReportingInv, HopsInv, EdgesInv, Derived, HopList
  <2>6. ASSUME ~shown'.edited, shares = <<>>, env.mutate => Unmarked(edges, hops),
               Len(edges) >= Len(hops), Alone(hops), updated >= Len(edges)
        PROVE  shown'.diff = {}
    <3>1. output = e.output BY <2>3, <2>6
    <3>2. updated = Len(edges) BY <2>5, <2>6
    <3>3. patched = Patched(StoredEdges(Len(edges)), e, e.output) BY <2>1, <3>1, <3>2
    <3>4. counterfactual = RuleBlames(patched, report.failed) BY <2>1
    <3>5. \A a : ShareOf(report.rows, a) = ShareOf(counterfactual, a)
      BY <2>2, <2>6, <3>3, <3>4, NothingToShow
    <3> QED BY <2>4, <3>5
  <2>7. (\E i \in DOMAIN edges : <<edges[i].delta, edges[i].cout>>
           # <<ById(hops, edges[i].id).delta, ById(hops, edges[i].id).cout>>) <=> ~Unmarked(edges, hops)
    BY DEF Unmarked
  <2>8. (\E i, j \in DOMAIN hops : i # j /\ hops[i].hop = hops[j].hop) <=> ~Alone(hops) BY DEF Alone
  <2> SUFFICES ASSUME (~shown.edited /\ shown.diff # {})',
                      shares = <<>>, env.mutate => Unmarked(edges, hops), ~(Len(edges) < Len(hops)),
                      Alone(hops), ~(updated < Len(edges))
               PROVE  FALSE
    BY <2>2, <2>3, <2>7, <2>8 DEF NoChangeNoDiff
  <2>9. Len(edges) >= Len(hops) /\ updated >= Len(edges) BY <2>5
  <2> QED BY <2>6, <2>9
<1> QED BY <1>1, <1>2, <1>3, <1>4, <1>5 DEF ReportingInv

(* ReportingInv holds throughout: what a stage leaves is what the next one *)
(* needs.                                                                  *)
THEOREM ReportingInvariant == ReportingSpec => []ReportingInv
<1>1. ReportingInit => ReportingInv BY InitInv
<1>2. ReportingInv /\ [ReportingNext]_reportingVars => ReportingInv'
  <2> SUFFICES ASSUME ReportingInv, [ReportingNext]_reportingVars PROVE ReportingInv' OBVIOUS
  <2>1. ASSUME NEW failed \in BOOLEAN, NEW skipped \in BOOLEAN, NEW gate \in EventGates,
               Complete(failed, skipped, gate)
        PROVE  ReportingInv'
    BY <2>1, CompleteKeeps
  <2>2. ASSUME NEW S \in SUBSET {hops[i] : i \in DOMAIN hops}, S # {}, Fetch(S) PROVE ReportingInv'
    BY <2>2, FetchKeeps DEF Members
  <2>3. ASSUME NEW embeds \in BOOLEAN, DriftSemantically(embeds) PROVE ReportingInv'
    BY <2>3, DriftKeeps
  <2>4. ASSUME NEW embeds \in BOOLEAN, NEW incident \in BOOLEAN, NEW answer \in Answers, NEW suspect,
               NEW faults \in Faults(edges), AnalyseWithMl(embeds, suspect, answer, incident, faults)
        PROVE  ReportingInv'
    BY <2>4, AnalyseKeeps
  <2>5. CASE GoOnWithoutMl BY <2>5, GoOnKeeps
  <2>6. CASE Compute BY <2>6, ComputeKeeps
  <2>7. ASSUME NEW named, Explain(named) PROVE ReportingInv' BY <2>7, ExplainKeeps
  <2>8. ASSUME NEW i \in DOMAIN hops, NEW updated \in {0, Len(edges)}, NEW output,
               Replay(hops[i], output, updated)
        PROVE  ReportingInv'
    <3>1. hops[i] \in Members(hops) BY DEF Members
    <3> QED BY <2>8, <3>1, ReplayKeeps
  <2>9. CASE UNCHANGED reportingVars
    <3>1. HopsInv' BY <2>9 DEF reportingVars, ReportingInv, HopsInv
    <3>2. FlagsInv' BY <2>9 DEF reportingVars, ReportingInv, FlagsInv, Passes
    <3>3. EdgesInv' BY <2>9 DEF reportingVars, ReportingInv, EdgesInv
    <3>4. ReportInv' BY <2>9 DEF reportingVars, ReportingInv, ReportInv, Reported, Verdict
    <3>5. NoChangeNoDiff' BY <2>9 DEF reportingVars, ReportingInv, NoChangeNoDiff
    <3> QED BY <3>1, <3>2, <3>3, <3>4, <3>5 DEF ReportingInv
  <2> QED BY <2>1, <2>2, <2>3, <2>4, <2>5, <2>6, <2>7, <2>8, <2>9 DEF ReportingNext
<1> QED BY <1>1, <1>2, PTL DEF ReportingSpec

(* NoChangeNoDiff: a replay that changes nothing shows no difference, but  *)
(* for the reasons the property lists.                                     *)
THEOREM ReportingNoChangeNoDiff == ReportingSpec => []NoChangeNoDiff
<1>1. ReportingInv => NoChangeNoDiff BY DEF ReportingInv
<1> QED BY <1>1, ReportingInvariant, PTL

-----------------------------------------------------------------------------
(* Blame is moved and not made; one root.                                  *)

Conserved(used, base, shifted, last) ==
  /\ Total(shifted) >= Total(base)
  /\ Total(shifted) > Total(base) => {i \in DOMAIN used : Len(used[i].sources) >= 3} # {}
  /\ Total(last) = Total(shifted)

(* Neither shift loses weight; only lineage makes any, and only where an   *)
(* edge names three sources or more.                                       *)
LEMMA ShiftsOf ==
  ASSUME NEW es, HopList(es), NEW used, used = CollapseRetryStorms(es),
         NEW b \in BOOLEAN, NEW base, base = BlameWeights(used, b), NEW shifted, shifted = LineageShift(used, base),
         NEW last, last = ParallelShift(used, shifted)
  PROVE  Conserved(used, base, shifted, last)
<1>1. PICK A : A = AgentsOf(es) OBVIOUS
<1>2. es \in Seq(Bearer(A)) /\ IsFiniteSet(A) BY <1>1, BornByAgents
<1>3. used \in Seq(Bearer(A)) /\ AgentsOf(used) = A BY <1>1, <1>2, CollapsedType
<1>5. BlameWeights(used, b) \in [A -> Nat] BY <1>3, WeightsKeep
<1>6. base \in [A -> Nat] BY <1>5
<1>61. /\ LineageShift(used, base) \in [A -> Nat]
       /\ Total(LineageShift(used, base)) >= Total(base)
       /\ (\A i \in 1..Len(used) : Len(used[i].sources) <= 2)
            => Total(LineageShift(used, base)) = Total(base)
  BY <1>2, <1>3, <1>6, LineageKeeps
<1>7. shifted \in [A -> Nat] /\ Total(shifted) >= Total(base) BY <1>61
<1>71. (\A i \in 1..Len(used) : Len(used[i].sources) <= 2) => Total(shifted) = Total(base) BY <1>61
<1>72. ParallelShift(used, shifted) \in [A -> Nat] /\ Total(ParallelShift(used, shifted)) = Total(shifted)
  BY <1>2, <1>3, <1>7, ParallelKeeps
<1>8. Total(last) = Total(shifted) BY <1>72
<1>9. Total(shifted) \in Nat /\ Total(base) \in Nat BY <1>2, <1>6, <1>7, TotalNat
<1>10. ASSUME Total(shifted) > Total(base) PROVE {i \in DOMAIN used : Len(used[i].sources) >= 3} # {}
  <2>0. Total(shifted) # Total(base) BY <1>9, <1>10
  <2>1. PICK i \in 1..Len(used) : ~(Len(used[i].sources) <= 2) BY <1>71, <2>0
  <2>2. i \in DOMAIN used /\ used[i] \in Bearer(A) BY <1>3
  <2>3. Len(used[i].sources) \in Nat BY <2>2 DEF Bearer
  <2> QED BY <2>1, <2>2, <2>3
<1> QED BY <1>7, <1>8, <1>10 DEF Conserved

(* ShiftsConserve: applyLineageWeights() and applyParallelPropagation()    *)
(* move weight and make none, but for edges with three sources or more.    *)
THEOREM ReportingShiftsConserve == ReportingSpec => []ShiftsConserve
<1>1. ReportingInv => ShiftsConserve
  <2> SUFFICES ASSUME ReportingInv, stage = "analysed" PROVE ShiftsConserve
    BY DEF ShiftsConserve
  <2>1. HopList(edges) BY DEF ReportingInv, EdgesInv, Derived
  <2>0. PICK b \in BOOLEAN : b = TRUE OBVIOUS
  <2>2. PICK used, base, shifted, last :
          /\ used = CollapseRetryStorms(edges) /\ base = BlameWeights(used, b)
          /\ shifted = LineageShift(used, base) /\ last = ParallelShift(used, shifted)
    OBVIOUS
  <2>3. Conserved(used, base, shifted, last) BY <2>1, <2>2, ShiftsOf
  <2> QED BY <2>0, <2>2, <2>3 DEF ShiftsConserve, Conserved
<1> QED BY <1>1, ReportingInvariant, PTL

(* One root where there is a report to show.                               *)
LEMMA RootOfReport == ASSUME ReportingInv, Reported PROVE OneRoot
<1> DEFINE rows == report.rows
           failed == report.failed
<1>1. PICK was : was = Rows(edges, failed, shares, Alpha) OBVIOUS
<1>2. Retold(rows, was) /\ failed \in BOOLEAN /\ (~failed => report.chain = <<>>)
  BY <1>1 DEF ReportingInv, ReportInv
<1>3. PICK A : A = AgentsOf(edges) OBVIOUS
<1>4. Ready(edges, shares) BY DEF Ready, Reported, ReportingInv, EdgesInv, Derived
<1>5. PICK n \in Nat : n = Cardinality(A) BY <1>3, <1>4, BornByAgents DEF Ready
<1>6. SoundRows(was, edges, failed, shares, A, n) /\ n > 0
  BY <1>1, <1>2, <1>3, <1>4, <1>5, RowsOfReport
<1>7. PICK P : RowsFor(was, A, P) BY <1>6 DEF SoundRows
<1>8. was \in Seq(BlameRow(A)) /\ Len(was) = n /\ DOMAIN was = 1..n BY <1>6, <1>7 DEF SoundRows, RowsFor
<1>9. /\ DOMAIN rows = 1..n /\ Len(rows) = n
      /\ \A i \in 1..n : /\ rows[i].agent = was[i].agent /\ rows[i].pct = was[i].pct
                         /\ rows[i].root = was[i].root /\ rows[i].role = was[i].role
                         /\ rows[i].reason = was[i].reason \/ rows[i].reason = "llm"
  BY <1>2, <1>8 DEF Retold
<1> HIDE DEF rows, failed
<1>10. {rows[i].agent : i \in 1..n} = A
  <2>1. \A i \in 1..n : rows[i].agent \in A
    <3> TAKE i \in 1..n
    <3>1. was[i] \in BlameRow(A) BY <1>8
    <3> QED BY <1>9, <3>1 DEF BlameRow
  <2>2. \A a \in A : \E i \in 1..n : rows[i].agent = a BY <1>7, <1>8, <1>9 DEF RowsFor
  <2> QED BY <2>1, <2>2
<1>11. \A i \in 1..(n - 1) : rows[i].pct >= rows[i + 1].pct
  <2> TAKE i \in 1..(n - 1)
  <2>1. i \in 1..n /\ i + 1 \in 1..n /\ i < i + 1 OBVIOUS
  <2>2. was[i].pct >= was[i + 1].pct BY <1>6, <1>8, <2>1 DEF SoundRows, Descending
  <2> QED BY <1>9, <2>1, <2>2
<1>12. PICK used : used = CollapseRetryStorms(edges) OBVIOUS
<1>13. (\E i \in DOMAIN used : used[i].infl > 0)
         => Total([i \in 1..n |-> rows[i].pct]) - 1000 \in (-n)..n
  <2>1. [i \in 1..n |-> rows[i].pct] = [i \in 1..n |-> was[i].pct] BY <1>9
  <2>2. RowsAdd(was, n, used) BY <1>6, <1>12 DEF SoundRows
  <2>3. PICK t : t = Total([i \in 1..n |-> was[i].pct]) OBVIOUS
  <2>4. Influence(used) => Summed(t, n) BY <2>2, <2>3 DEF RowsAdd
  <2>5. Total([i \in 1..n |-> rows[i].pct]) = t BY <2>1, <2>3
  <2> QED BY <2>4, <2>5 DEF Influence, Summed
<1>14. \A i \in 1..n : rows[i].root <=> failed /\ i = 1
  BY <1>6, <1>8, <1>9 DEF SoundRows, Blamed, Rooted
<1>15. ASSUME failed
       PROVE  /\ \/ rows[1].role = "originator"
                 \/ rows[1].pct < 50 /\ ~AgentContext(rows[1].agent, edges).selfBad
              /\ shares = <<>> => rows[1].reason \in RootReasons \cup {"llm"}
  <2>1. 1 \in 1..n BY <1>6
  <2>2. Originated(was[1], edges) BY <1>6, <1>8, <1>15 DEF SoundRows, Blamed
  <2>3. Originated(rows[1], edges) BY <1>9, <2>1, <2>2 DEF Originated
  <2>4. shares = <<>> => was[1].reason \in RootReasons BY <1>6, <1>15 DEF SoundRows
  <2> QED BY <1>9, <2>1, <2>3, <2>4 DEF Originated
<1>16. ~failed => report.chain = <<>> BY <1>2
<1> QED BY <1>3, <1>5, <1>9, <1>10, <1>11, <1>12, <1>13, <1>14, <1>15, <1>16 DEF OneRoot, rows, failed

(* OneRoot: every agent has a row, ranked, of 100% but for rounding; a     *)
(* failed run has one root, its first row, which is to blame, and a        *)
(* success none.                                                           *)
THEOREM ReportingOneRoot == ReportingSpec => []OneRoot
<1>1. ReportingInv => OneRoot BY RootOfReport DEF OneRoot
<1> QED BY <1>1, ReportingInvariant, PTL

-----------------------------------------------------------------------------
(* Two verdicts on a run.                                                  *)

MeasuredConf(mode, list) == GateHops(list)[MeasuredHop(mode, GateHops(list))].conf

(* The hops a gate reads are the edges, in hop order.                      *)
LEMMA GateOf ==
  ASSUME NEW list, HopList(list)
  PROVE  /\ DOMAIN GateHops(list) = 1..Len(list) /\ Len(list) \in Nat /\ Len(list) > 0
         /\ \A i \in 1..Len(list) :
              /\ GateHops(list)[i].index = list[i].hop /\ GateHops(list)[i].conf = list[i].cout
              /\ list[i].hop \in Nat /\ list[i].cout \in Nat
         /\ \A i, j \in 1..Len(list) : i < j => list[i].hop <= list[j].hop
<1>1. Len(list) \in Nat /\ DOMAIN list = 1..Len(list) /\ Len(list) > 0 BY DEF HopList
<1>2. \A i \in 1..Len(list) : list[i].hop \in Nat /\ list[i].cout \in Nat
  <2> TAKE i \in 1..Len(list)
  <2>1. list[i] \in Bearer(STRING) BY <1>1 DEF HopList
  <2> QED BY <2>1 DEF Bearer
<1>3. \A i, j \in 1..Len(list) : i < j => list[i].hop <= list[j].hop BY DEF HopList, InHopOrder
<1> QED BY <1>1, <1>2, <1>3 DEF GateHops

(* A gate passes if the confidence it measures is no lower than the level  *)
(* it accepts.                                                             *)
LEMMA GatePasses ==
  ASSUME NEW list, HopList(list), NEW level, NEW mode
  PROVE  EvaluateGate(level, mode, GateHops(list)).passed
           = (MeasuredConf(mode, list) >= Otherwise(level, DefaultAcceptLevel))
<1>1. GateHops(list) # <<>>
  <2>1. 1 \in DOMAIN GateHops(list) BY GateOf
  <2> QED BY <2>1
<1> QED BY <1>1 DEF EvaluateGate, MeasuredConf

(* Every mode but one measures the last hop.                               *)
LEMMA FinalMeasure ==
  ASSUME NEW list, HopList(list), NEW mode, mode # "min"
  PROVE  MeasuredConf(mode, list) = list[Len(list)].cout
<1>1. PICK g : g = GateHops(list) OBVIOUS
<1>2. PICK n \in Nat : n = Len(list) /\ n > 0 /\ DOMAIN g = 1..n BY <1>1, GateOf
<1>3. \A i \in 1..n : g[i].index = list[i].hop /\ g[i].conf = list[i].cout /\ list[i].hop \in Nat
  BY <1>1, <1>2, GateOf
<1>4. \A i \in 1..n : list[i].hop <= list[n].hop
  <2> TAKE i \in 1..n
  <2>1. i < n => list[i].hop <= list[n].hop BY <1>2, GateOf
  <2>2. list[n].hop \in Nat BY <1>2, <1>3
  <2> QED BY <1>2, <2>1, <2>2
<1> DEFINE I == {g[i].index : i \in DOMAIN g}
<1>5. Max(I) = list[n].hop
  <2>1. list[n].hop \in I /\ \A x \in I : x \in Nat /\ x <= list[n].hop BY <1>2, <1>3, <1>4
  <2> HIDE DEF I
  <2>2. \A x \in I : (\A y \in I : x >= y) => x = list[n].hop BY <2>1
  <2>3. \A y \in I : list[n].hop >= y BY <2>1
  <2> QED BY <2>1, <2>2, <2>3 DEF Max
<1> DEFINE L == {i \in DOMAIN g : g[i].index = Max(I)}
<1>6. Max(L) = n
  <2>1. n \in L /\ \A x \in L : x \in 1..n BY <1>2, <1>3, <1>5
  <2> HIDE DEF L
  <2>2. \A x \in L : (\A y \in L : x >= y) => x = n BY <2>1
  <2>3. \A y \in L : n >= y BY <2>1
  <2> QED BY <2>1, <2>2, <2>3 DEF Max
<1>7. FinalHop(g) = n BY <1>6 DEF FinalHop
<1>8. MeasuredHop(mode, g) = n BY <1>7 DEF MeasuredHop
<1> QED BY <1>1, <1>2, <1>3, <1>8 DEF MeasuredConf

(* The other one measures a weakest hop.                                   *)
LEMMA WeakMeasure ==
  ASSUME NEW list, HopList(list)
  PROVE  \E i \in DOMAIN list : /\ MeasuredConf("min", list) = list[i].cout
                                /\ \A j \in DOMAIN list : list[i].cout <= list[j].cout
<1>1. PICK g : g = GateHops(list) OBVIOUS
<1>2. PICK n \in Nat : n = Len(list) /\ n > 0 /\ DOMAIN g = 1..n BY <1>1, GateOf
<1>20. DOMAIN list = 1..n BY <1>2 DEF HopList
<1>3. \A i \in 1..n : /\ g[i].index = list[i].hop /\ g[i].conf = list[i].cout
                      /\ list[i].hop \in Nat /\ list[i].cout \in Nat
  BY <1>1, <1>2, GateOf
<1> DEFINE C == {g[i].conf : i \in DOMAIN g}
<1>4. PICK c \in C : \A d \in C : c <= d
  <2>1. C \in SUBSET Nat /\ C # {} BY <1>2, <1>3
  <2> HIDE DEF C
  <2> QED BY <2>1, LowestIndex
<1>5. Min(C) = c
  <2>1. C \in SUBSET Nat BY <1>2, <1>3
  <2> HIDE DEF C
  <2>2. \A x \in C : (\A y \in C : x <= y) => x = c BY <1>4, <2>1
  <2> QED BY <1>4, <2>2 DEF Min
<1> DEFINE weak == {i \in DOMAIN g : g[i].conf = Min(C)}
           Before(i, j) == \/ g[i].index < g[j].index
                           \/ g[i].index = g[j].index /\ i < j
<1>6. PICK w \in weak : \A j \in weak : w <= j
  <2>0. PICK k \in 1..n : g[k].conf = c BY <1>2, <1>4
  <2>01. k \in weak BY <1>2, <1>5, <2>0
  <2>02. \A x \in weak : x \in 1..n BY <1>2
  <2> HIDE DEF weak
  <2>1. weak \in SUBSET Nat /\ weak # {} BY <2>01, <2>02
  <2> QED BY <2>1, LowestIndex
<1>7. \A j \in weak \ {w} : Before(w, j)
  <2> TAKE j \in weak \ {w}
  <2>1. w \in 1..n /\ j \in 1..n BY <1>2
  <2>2. w < j BY <1>6, <2>1
  <2>3. list[w].hop <= list[j].hop BY <1>2, <2>1, <2>2, GateOf
  <2> QED BY <1>3, <2>1, <2>2, <2>3
<1>8. PICK i : i = WeakestHop(g) OBVIOUS
<1>9. i = CHOOSE k \in weak : \A j \in weak \ {k} : Before(k, j) BY <1>8 DEF WeakestHop
<1>10. i \in weak
  <2> HIDE DEF weak, Before
  <2> QED BY <1>6, <1>7, <1>9
<1>11. i \in 1..n /\ list[i].cout = c BY <1>2, <1>3, <1>5, <1>10
<1>12. MeasuredConf("min", list) = list[i].cout BY <1>1, <1>3, <1>8, <1>11 DEF MeasuredConf, MeasuredHop
<1>13. \A j \in 1..n : c <= list[j].cout BY <1>2, <1>3, <1>4
<1> QED BY <1>11, <1>12, <1>13, <1>20

(* One hop has the last index.                                             *)
LastAlone(list) ==
  ~ \E i, j \in DOMAIN list : i # j /\ list[i].hop = list[j].hop
                               /\ \A k \in DOMAIN list : list[k].hop <= list[i].hop

(* The two sides measure the same confidence.                              *)
LEMMA SameMeasure ==
  ASSUME NEW all, HopList(all), NEW list, NEW m, NEW c, NEW l, Derived(list, all, m, c, l),
         ~m \/ ~c, ~(Len(list) < Len(all)), LastAlone(all), NEW p, NEW q,
         p = q \/ (p # "min" /\ q # "min")
  PROVE  MeasuredConf(p, list) = MeasuredConf(q, all)
<1>1. HopList(list) BY DEF Derived
<1>2. PICK n \in Nat : n = Len(list) /\ DOMAIN list = 1..n /\ n > 0 BY <1>1 DEF HopList
<1>3. PICK k \in Nat : k = Len(all) /\ DOMAIN all = 1..k /\ k > 0 BY DEF HopList
<1>4. PICK f \in [1..n -> 1..k] :
        Picks(f, n, k) /\ \A i \in 1..n : Matches(list[i], all[f[i]], m, c, l)
  BY <1>2, <1>3 DEF Derived
<1>5. n = k
  <2>1. f \in Injection(1..n, 1..k) BY <1>4 DEF Picks, Injection, IsInjective
  <2>2. Cardinality(1..n) <= Cardinality(1..k) BY <2>1, SizeUpTo, FS_Injection
  <2>3. n <= k BY <2>2, SizeUpTo
  <2> QED BY <1>2, <1>3, <2>3
<1>6. \A i \in 1..n : /\ f[i] \in 1..n /\ list[i].hop = all[f[i]].hop
                      /\ list[i].cout = all[f[i]].cout
  BY <1>4, <1>5 DEF Matches, Alike
<1>7. \A j \in 1..n : \E i \in 1..n : f[i] = j BY <1>4, <1>5, PicksAll
<1>8. \A i \in 1..n : /\ list[i].hop \in Nat /\ list[i].cout \in Nat
                      /\ all[i].hop \in Nat /\ all[i].cout \in Nat
  BY <1>1, <1>2, <1>3, <1>5, GateOf
<1>9. ASSUME p # "min", q # "min" PROVE MeasuredConf(p, list) = MeasuredConf(q, all)
  <2>1. MeasuredConf(p, list) = list[n].cout BY <1>1, <1>2, <1>9, FinalMeasure
  <2>2. MeasuredConf(q, all) = all[n].cout BY <1>3, <1>5, <1>9, FinalMeasure
  <2>3. PICK j \in 1..n : f[j] = n BY <1>2, <1>7
  <2>4. \A i \in 1..n : list[i].hop <= list[n].hop /\ all[i].hop <= all[n].hop
    <3> TAKE i \in 1..n
    <3>1. i < n => list[i].hop <= list[n].hop BY <1>1, <1>2, GateOf
    <3>2. i < n => all[i].hop <= all[n].hop BY <1>3, <1>5, GateOf
    <3> QED BY <1>2, <1>8, <3>1, <3>2
  <2>5. n \in 1..n BY <1>2
  <2>6. all[f[n]].hop = all[n].hop
    <3>1. all[f[n]].hop <= all[n].hop BY <1>6, <2>4, <2>5
    <3>2. list[j].hop = all[n].hop BY <1>6, <2>3
    <3>3. all[n].hop <= all[f[n]].hop BY <1>6, <2>4, <2>5, <3>2
    <3>4. all[n].hop \in Nat /\ all[f[n]].hop \in Nat BY <1>6, <1>8, <2>5
    <3> QED BY <3>1, <3>3, <3>4
  <2>7. f[n] = n
    <3> SUFFICES ASSUME f[n] # n PROVE FALSE OBVIOUS
    <3>1. n \in DOMAIN all /\ f[n] \in DOMAIN all BY <1>3, <1>5, <1>6, <2>5
    <3>2. \A i \in DOMAIN all : all[i].hop <= all[n].hop BY <1>3, <1>5, <2>4
    <3> QED BY <2>6, <3>1, <3>2 DEF LastAlone
  <2> QED BY <1>6, <2>1, <2>2, <2>5, <2>7
<1>10. ASSUME p = "min", q = "min" PROVE MeasuredConf(p, list) = MeasuredConf(q, all)
  <2>1. PICK i \in 1..n : /\ MeasuredConf(p, list) = list[i].cout
                          /\ \A j \in 1..n : list[i].cout <= list[j].cout
    BY <1>1, <1>2, <1>10, WeakMeasure
  <2>2. PICK j \in 1..n : /\ MeasuredConf(q, all) = all[j].cout
                          /\ \A h \in 1..n : all[j].cout <= all[h].cout
    BY <1>3, <1>5, <1>10, WeakMeasure
  <2>3. PICK h \in 1..n : f[h] = j BY <1>7
  <2>4. list[i].cout <= list[h].cout /\ list[h].cout = all[j].cout BY <1>6, <2>1, <2>3
  <2>5. all[j].cout <= all[f[i]].cout /\ all[f[i]].cout = list[i].cout BY <1>6, <2>2
  <2>6. PICK a \in Nat, b \in Nat : a = list[i].cout /\ b = all[j].cout BY <1>8
  <2>7. a <= b BY <2>4, <2>6
  <2>8. b <= a BY <2>5, <2>6
  <2>9. a = b BY <2>7, <2>8
  <2> QED BY <2>1, <2>2, <2>6, <2>9
<1> QED BY <1>9, <1>10

(* The mode that processRun() measures by, next to the one of the SDK.     *)
LEMMA ModesOf ==
  ASSUME NEW ws, NEW ev, ev.level # Absent,
         ~(ev.mode = Open /\ ws.profile.level # Absent /\ ws.profile.mode = "min"),
         NEW p, p = ResolveGate(ws, ev).mode, NEW q, q = ModeOr(ev.mode, "final")
  PROVE  ResolveGate(ws, ev).level = ev.level /\ (p = q \/ (p # "min" /\ q # "min"))
<1>1. ResolveGate(ws, ev).level = ev.level BY DEF ResolveGate, Otherwise
<1>2. p = ModeOr(ev.mode, IF ws.profile.level # Absent
                          THEN ModeOr(ws.profile.mode, ModeOr(ev.mode, "final"))
                          ELSE ModeOr(ev.mode, "final"))
  BY DEF ResolveGate
<1>3. CASE ev.mode # Open BY <1>1, <1>2, <1>3 DEF ModeOr
<1>4. CASE ev.mode = Open
  <2>1. q = "final" BY <1>4 DEF ModeOr
  <2>2. p # "min" BY <1>2, <1>4 DEF ModeOr
  <2> QED BY <1>1, <2>1, <2>2
<1> QED BY <1>3, <1>4

(* The verdicts agree where there is a report.                             *)
LEMMA VerdictsOf == ASSUME ReportingInv, Reported PROVE VerdictsAgree
<1>1. (report.failed <=> Verdict) /\ event.failed \in BOOLEAN
  BY DEF ReportingInv, ReportInv, FlagsInv
<1>2. event.failed => report.failed BY <1>1 DEF Verdict
<1>3. ASSUME report.failed, ~event.failed, ~event.skipped,
             ~(event.level = Absent /\ settings # [default |-> Absent, profile |-> NoProfile]),
             ~(event.mode = Open /\ settings.profile.level # Absent /\ settings.profile.mode = "min"),
             ~(cut /\ env.mutate), ~(Len(edges) < Len(hops)), LastAlone(hops)
      PROVE  FALSE
  <2> DEFINE gate == ResolveGate(settings, event)
  <2>1. /\ event.level # Absent \/ ~gate.platform
        /\ ~EvaluateGate(gate.level, gate.mode, GateHops(edges)).passed
    BY <1>1, <1>3 DEF Verdict
  <2>2. event.level # Absent
    <3> SUFFICES ASSUME event.level = Absent PROVE FALSE OBVIOUS
    <3>1. settings = [default |-> Absent, profile |-> [level |-> Absent, mode |-> Open]]
      BY <1>3 DEF NoProfile
    <3>2. settings.profile.level = Absent /\ settings.default = Absent BY <3>1
    <3>3. gate.platform BY <3>2 DEF ResolveGate
    <3> QED BY <2>1, <3>3
  <2>3. PICK p, q : p = gate.mode /\ q = ModeOr(event.mode, "final") OBVIOUS
  <2>4. gate.level = event.level /\ (p = q \/ (p # "min" /\ q # "min"))
    BY <1>3, <2>2, <2>3, ModesOf
  <2>5. Passes(event.level, event.mode)
    BY <1>3, <2>2 DEF ReportingInv, FlagsInv, Reported
  <2>6. EvaluateGate(event.level, q, GateHops(hops)).passed BY <2>3, <2>5 DEF Passes
  <2>7. ~EvaluateGate(event.level, p, GateHops(edges)).passed BY <2>1, <2>3, <2>4
  <2>8. HopList(hops) BY DEF ReportingInv, HopsInv
  <2>9. PICK m, c, l : m = env.mutate /\ c = cut /\ l = (shares # <<>>) OBVIOUS
  <2>10. Derived(edges, hops, m, c, l) BY <2>9 DEF Reported, ReportingInv, EdgesInv
  <2>11. HopList(edges) BY <2>10 DEF Derived
  <2>12. ~m \/ ~c BY <1>3, <2>9
  <2>13. MeasuredConf(p, edges) = MeasuredConf(q, hops) BY <1>3, <2>4, <2>8, <2>10, <2>12, SameMeasure
  <2>14. MeasuredConf(q, hops) >= Otherwise(event.level, DefaultAcceptLevel) BY <2>6, <2>8, GatePasses
  <2>15. ~(MeasuredConf(p, edges) >= Otherwise(event.level, DefaultAcceptLevel))
    BY <2>7, <2>11, GatePasses
  <2> QED BY <2>13, <2>14, <2>15
<1> QED BY <1>2, <1>3 DEF VerdictsAgree, LastAlone

(* VerdictsAgree: the SDK's verdict on a run and its report's differ only  *)
(* for the reasons the property lists.                                     *)
THEOREM ReportingVerdictsAgree == ReportingSpec => []VerdictsAgree
<1>1. ReportingInv => VerdictsAgree BY VerdictsOf DEF VerdictsAgree
<1> QED BY <1>1, ReportingInvariant, PTL

-----------------------------------------------------------------------------
(* The diagrams of a run: the order in which the hops are placed.          *)

(* The order in which computeAgentColumns() takes the hops: by index, and  *)
(* by the names of those that act.                                         *)
NameRank(a) == CHOOSE i \in DOMAIN Alphabet : Alphabet[i] = a
ActsBefore(e, f) == e.hop < f.hop \/ (e.hop = f.hop /\ NameRank(e.from) < NameRank(f.from))
Acting(es) == StableSort(es, ActsBefore)
Sorted(s) ==
  /\ \A i \in 1..Len(s) : s[i].hop \in Nat /\ NameRank(s[i].from) \in Int
  /\ \A i, j \in 1..Len(s) : i < j => s[i].hop <= s[j].hop
Goes(s, i, j) == ActsBefore(s[i], s[j]) \/ (~ActsBefore(s[j], s[i]) /\ i < j)
RankByName(s) == [i \in DOMAIN s |-> Cardinality({j \in DOMAIN s : Goes(s, j, i)})]

(* It puts the hop of rank k - 1 in place k.                               *)
LEMMA ActingRanks ==
  ASSUME NEW W, NEW s \in Seq(W)
  PROVE  \E p : /\ p = [k \in 1..Len(s) |-> p[k]]
                /\ \A k, i \in 1..Len(s) : RankByName(s)[i] = k - 1 =>
                     p[k] \in 1..Len(s) /\ RankByName(s)[p[k]] = k - 1
                /\ Acting(s) = [k \in 1..Len(s) |-> s[p[k]]]
<1> DEFINE n == Len(s)
           e(k) == CHOOSE i \in DOMAIN s : Cardinality({j \in DOMAIN s : Goes(s, j, i)}) = k - 1
           q == [k \in 1..Cardinality(DOMAIN s) |-> e(k)]
<1>1. n \in Nat /\ DOMAIN s = 1..n OBVIOUS
<1>2. Cardinality(DOMAIN s) = n BY <1>1, SizeUpTo
<1>3. Acting(s) = [k \in DOMAIN s |-> s[Listed(q)[k]]] BY DEF Acting, StableSort, InOrder, Goes
<1>4. \A k \in 1..n : q[k] = CHOOSE i \in DOMAIN s : RankByName(s)[i] = k - 1 BY <1>2 DEF RankByName
<1>5. PICK p : p = q OBVIOUS
<1>6. DOMAIN q = 1..n BY <1>2
<1> HIDE DEF e
<1>61. q = [k \in DOMAIN q |-> q[k]] OBVIOUS
<1> HIDE DEF q
<1>7. p = [k \in 1..n |-> p[k]] BY <1>5, <1>6, <1>61
<1>8. Listed(p) = p BY <1>1, <1>7, ListedIs
<1>9. Acting(s) = [k \in 1..n |-> s[p[k]]] BY <1>1, <1>3, <1>5, <1>8
<1>10. \A k, i \in 1..n : RankByName(s)[i] = k - 1 => p[k] \in 1..n /\ RankByName(s)[p[k]] = k - 1
  BY <1>1, <1>4, <1>5
<1> QED BY <1>7, <1>9, <1>10

(* The order p in which the hops are taken.                                *)
ActingOrder(p, s) ==
  /\ p \in [1..Len(s) -> 1..Len(s)]
  /\ Acting(s) = [k \in 1..Len(s) |-> s[p[k]]]
  /\ \A i \in 1..Len(s) : \E k \in 1..Len(s) : p[k] = i
  /\ \A k, l \in 1..Len(s) : k < l => s[p[k]].hop <= s[p[l]].hop

(* There is one.                                                           *)
LEMMA ActingInOrder ==
  ASSUME NEW W, NEW s \in Seq(W), Sorted(s)
  PROVE  \E p : ActingOrder(p, s)
<1> DEFINE n == Len(s)
           R == {q \in (1..n) \X (1..n) : Goes(s, q[1], q[2])}
<1>1. n \in Nat /\ DOMAIN s = 1..n OBVIOUS
<1>2. IsFiniteSet(1..n) /\ Cardinality(1..n) = n BY <1>1, SizeUpTo
<1>3. \A i, j \in 1..n : <<i, j>> \in R <=> Goes(s, i, j) OBVIOUS
<1>4. RankByName(s) = [i \in 1..n |-> Cardinality({j \in 1..n : <<j, i>> \in R})]
  <2>1. \A i \in 1..n : {j \in 1..n : <<j, i>> \in R} = {j \in 1..n : Goes(s, j, i)} BY <1>3
  <2> HIDE DEF R
  <2> QED BY <1>1, <2>1 DEF RankByName
<1>5. \A i \in 1..n : s[i].hop \in Int /\ NameRank(s[i].from) \in Int BY DEF Sorted
<1> DEFINE less(i, j) == s[i].hop < s[j].hop \/ (s[i].hop = s[j].hop /\
                           (NameRank(s[i].from) < NameRank(s[j].from)
                              \/ (NameRank(s[i].from) = NameRank(s[j].from) /\ i < j)))
<1>51. \A i, j \in 1..n : <<i, j>> \in R <=> less(i, j)
  <2> TAKE i, j \in 1..n
  <2>1. s[i].hop \in Int /\ s[j].hop \in Int /\ NameRank(s[i].from) \in Int /\ NameRank(s[j].from) \in Int BY <1>5
  <2>2. PICK a \in Int, b \in Int, c \in Int, d \in Int :
          a = s[i].hop /\ b = s[j].hop /\ c = NameRank(s[i].from) /\ d = NameRank(s[j].from)
    BY <2>1
  <2>3. Goes(s, i, j) <=> a < b \/ (a = b /\ c < d) \/ (~(b < a \/ (b = a /\ d < c)) /\ i < j)
    BY <2>2 DEF Goes, ActsBefore
  <2>4. less(i, j) <=> a < b \/ (a = b /\ (c < d \/ (c = d /\ i < j))) BY <2>2
  <2>5. Goes(s, i, j) <=> less(i, j)
    <3> HIDE DEF less
    <3> QED BY <2>3, <2>4
  <2> QED BY <1>3, <2>5
<1> HIDE DEF R
<1>6. \A i, j \in 1..n : i # j => <<i, j>> \in R \/ <<j, i>> \in R BY <1>5, <1>51
<1>7. \A i \in 1..n : <<i, i>> \notin R BY <1>5, <1>51
<1>8. \A i, j, k \in 1..n : <<i, j>> \in R /\ <<j, k>> \in R => <<i, k>> \in R
  <2> TAKE i, j, k \in 1..n
  <2>1. s[i].hop \in Int /\ s[j].hop \in Int /\ s[k].hop \in Int BY <1>5
  <2>2. NameRank(s[i].from) \in Int /\ NameRank(s[j].from) \in Int /\ NameRank(s[k].from) \in Int BY <1>5
  <2> QED BY <1>51, <2>1, <2>2
<1>9. PICK p : /\ p = [k \in 1..n |-> p[k]]
               /\ \A k, i \in 1..n : RankByName(s)[i] = k - 1 => p[k] \in 1..n /\ RankByName(s)[p[k]] = k - 1
               /\ Acting(s) = [k \in 1..n |-> s[p[k]]]
  BY ActingRanks
<1>10. Lists(1..n, n, R, p)
  <2>1. Ordered(1..n, R) BY <1>6, <1>7, <1>8 DEF Ordered
  <2>2. TakenByRank(1..n, n, RankByName(s), p) BY <1>9 DEF TakenByRank
  <2>3. \A i \in 1..n : RankByName(s)[i] = Cardinality({j \in 1..n : <<j, i>> \in R}) BY <1>4
  <2> HIDE DEF n
  <2> QED BY <1>2, <2>1, <2>2, <2>3, Ranks
<1>11. \A k, l \in 1..n : k < l => s[p[k]].hop <= s[p[l]].hop
  <2> TAKE k, l \in 1..n
  <2>1. p[k] \in 1..n /\ p[l] \in 1..n BY <1>10 DEF Lists
  <2>2. k < l => less(p[k], p[l]) BY <1>10, <1>51, <2>1 DEF Lists
  <2> QED BY <1>5, <2>1, <2>2
<1>13. p \in [1..n -> 1..n] BY <1>9, <1>10 DEF Lists
<1> QED BY <1>9, <1>10, <1>11, <1>13 DEF Lists, ActingOrder

(* Where every hop has an index of its own the order is the recorded one.  *)
LEMMA ActingStays ==
  ASSUME NEW W, NEW s \in Seq(W), Sorted(s),
         \A i, j \in 1..Len(s) : i < j => s[i].hop < s[j].hop
  PROVE  Acting(s) = s
<1> DEFINE n == Len(s)
<1>1. n \in Nat /\ DOMAIN s = 1..n /\ s = [k \in 1..n |-> s[k]] OBVIOUS
<1>2. \A i, j \in 1..n : Goes(s, i, j) <=> i < j
  <2> TAKE i, j \in 1..n
  <2>1. s[i].hop \in Int /\ s[j].hop \in Int BY DEF Sorted
  <2>2. i < j => s[i].hop < s[j].hop OBVIOUS
  <2>3. j < i => s[j].hop < s[i].hop OBVIOUS
  <2>4. i < j \/ j < i \/ i = j OBVIOUS
  <2>5. CASE i < j
    <3>1. s[i].hop < s[j].hop BY <2>2, <2>5
    <3> QED BY <2>1, <2>5, <3>1 DEF Goes, ActsBefore
  <2>6. CASE j < i
    <3>1. s[j].hop < s[i].hop BY <2>3, <2>6
    <3> QED BY <2>1, <2>6, <3>1 DEF Goes, ActsBefore
  <2>7. CASE i = j
    <3>1. NameRank(s[i].from) \in Int BY DEF Sorted
    <3> QED BY <2>1, <2>7, <3>1 DEF Goes, ActsBefore
  <2> QED BY <2>4, <2>5, <2>6, <2>7
<1>3. \A i \in 1..n : RankByName(s)[i] = i - 1
  <2> TAKE i \in 1..n
  <2>1. {j \in 1..n : Goes(s, j, i)} = {j \in 1..n : j < i} BY <1>2
  <2>2. {j \in 1..n : j < i} = 1..(i - 1) BY <1>1
  <2>3. i - 1 \in Nat BY <1>1
  <2>4. Cardinality(1..(i - 1)) = i - 1 BY <2>3, SizeUpTo
  <2>5. RankByName(s)[i] = Cardinality({j \in 1..n : Goes(s, j, i)}) BY <1>1 DEF RankByName
  <2> QED BY <2>1, <2>2, <2>4, <2>5
<1>4. PICK p : /\ p = [k \in 1..n |-> p[k]]
               /\ \A k, i \in 1..n : RankByName(s)[i] = k - 1 => p[k] \in 1..n /\ RankByName(s)[p[k]] = k - 1
               /\ Acting(s) = [k \in 1..n |-> s[p[k]]]
  BY ActingRanks
<1>5. \A k \in 1..n : p[k] = k
  <2> TAKE k \in 1..n
  <2>1. RankByName(s)[k] = k - 1 BY <1>3
  <2>2. p[k] \in 1..n /\ RankByName(s)[p[k]] = k - 1 BY <1>4, <2>1
  <2>3. RankByName(s)[p[k]] = p[k] - 1 BY <1>3, <2>2
  <2> QED BY <1>1, <2>2, <2>3
<1> QED BY <1>1, <1>4, <1>5

-----------------------------------------------------------------------------
(* computeAgentColumns().                                                  *)

(* Some of the agents A with their columns, and the step of                *)
(* computeAgentColumns() for a hop.                                        *)
Columns(A) == UNION {[D -> Nat] : D \in SUBSET A}
Sent(col, e) ==
  With(col, e.from, IF e.from \in DOMAIN col THEN AtMost(e.hop, col[e.from]) ELSE e.hop)
PlaceOf(col, e) ==
  With(Sent(col, e), e.to, AtLeast(IF e.from = e.to THEN e.hop ELSE e.hop + 1, ZeroOr(Sent(col, e), e.to)))
Actors(W, A) == \A e \in W : e.from \in A /\ e.to \in A /\ e.hop \in Nat

(* What a hop does to the columns.                                         *)
Moved(new, col, e) ==
  /\ DOMAIN new = DOMAIN col \cup {e.from, e.to}
  /\ \A b \in DOMAIN col : b \notin {e.from, e.to} => new[b] = col[b]
  /\ e.from # e.to =>
       /\ e.from \in DOMAIN col => new[e.from] = AtMost(e.hop, col[e.from])
       /\ e.from \notin DOMAIN col => new[e.from] = e.hop
       /\ e.to \in DOMAIN col => new[e.to] = AtLeast(e.hop + 1, col[e.to])
       /\ e.to \notin DOMAIN col => new[e.to] = e.hop + 1
  /\ e.from = e.to => new[e.to] = e.hop

(* Columns stay columns.                                                   *)
LEMMA PlaceMoves ==
  ASSUME NEW A, NEW W, Actors(W, A), NEW col \in Columns(A), NEW e \in W
  PROVE  PlaceOf(col, e) \in Columns(A) /\ Moved(PlaceOf(col, e), col, e)
<1> DEFINE sent == Sent(col, e)
           new == PlaceOf(col, e)
<1>1. e.from \in A /\ e.to \in A /\ e.hop \in Nat BY DEF Actors
<1>2. PICK D \in SUBSET A : col \in [D -> Nat] BY DEF Columns
<1>3. PICK x \in Nat : /\ x = IF e.from \in DOMAIN col THEN AtMost(e.hop, col[e.from]) ELSE e.hop
                       /\ x <= e.hop
  BY <1>1, <1>2 DEF AtMost
<1>4. /\ DOMAIN sent = D \cup {e.from} /\ sent[e.from] = x
      /\ \A b \in D : b # e.from => sent[b] = col[b]
  <2>1. PICK a, f : a = e.from /\ f = col OBVIOUS
  <2>2. sent = With(f, a, x) BY <1>3, <2>1 DEF Sent
  <2>3. /\ DOMAIN With(f, a, x) = DOMAIN f \cup {a} /\ With(f, a, x)[a] = x
        /\ \A b \in DOMAIN f : b # a => With(f, a, x)[b] = f[b]
    BY DEF With
  <2> QED BY <1>2, <2>1, <2>2, <2>3
<1> HIDE DEF sent
<1>5. \A b \in DOMAIN sent : sent[b] \in Nat BY <1>2, <1>4
<1>6. PICK z \in Nat : z = ZeroOr(sent, e.to) BY <1>5 DEF ZeroOr
<1>7. PICK y \in Nat : y = IF e.from = e.to THEN e.hop ELSE e.hop + 1 BY <1>1
<1>8. PICK w \in Nat : w = AtLeast(y, z) BY DEF AtLeast
<1>9. new = With(sent, e.to, w) BY <1>6, <1>7, <1>8 DEF PlaceOf, sent
<1> HIDE DEF new
<1>10. /\ DOMAIN new = D \cup {e.from, e.to} /\ new[e.to] = w
       /\ \A b \in D \cup {e.from} : b # e.to => new[b] = sent[b]
       /\ new = [b \in D \cup {e.from, e.to} |-> new[b]]
  <2>1. PICK a, f : a = e.to /\ f = sent OBVIOUS
  <2>2. new = With(f, a, w) BY <1>9, <2>1
  <2>3. /\ DOMAIN With(f, a, w) = DOMAIN f \cup {a} /\ With(f, a, w)[a] = w
        /\ \A b \in DOMAIN f : b # a => With(f, a, w)[b] = f[b]
        /\ With(f, a, w) = [b \in DOMAIN f \cup {a} |-> With(f, a, w)[b]]
    BY DEF With
  <2>4. DOMAIN f \cup {a} = D \cup {e.from, e.to} BY <1>4, <2>1
  <2>5. new = [b \in D \cup {e.from, e.to} |-> new[b]] BY <2>2, <2>3, <2>4
  <2> QED BY <1>4, <2>1, <2>2, <2>3, <2>4, <2>5
<1>11. \A b \in D \cup {e.from, e.to} : new[b] \in Nat BY <1>4, <1>5, <1>10
<1>12. new \in Columns(A)
  <2>1. PICK G \in SUBSET A : G = D \cup {e.from, e.to} BY <1>1
  <2>2. new \in [G -> Nat] BY <1>10, <1>11, <2>1
  <2> QED BY <2>2 DEF Columns
<1>13. \A b \in DOMAIN col : b \notin {e.from, e.to} => new[b] = col[b] BY <1>2, <1>4, <1>10
<1>14. ASSUME e.from # e.to
       PROVE  /\ e.from \in DOMAIN col => new[e.from] = AtMost(e.hop, col[e.from])
              /\ e.from \notin DOMAIN col => new[e.from] = e.hop
              /\ e.to \in DOMAIN col => new[e.to] = AtLeast(e.hop + 1, col[e.to])
              /\ e.to \notin DOMAIN col => new[e.to] = e.hop + 1
  <2>1. new[e.from] = x BY <1>4, <1>10, <1>14
  <2>2. y = e.hop + 1 BY <1>7, <1>14
  <2>3. z = IF e.to \in D THEN col[e.to] ELSE 0 BY <1>4, <1>6, <1>14 DEF ZeroOr
  <2>4. e.to \notin D => w = e.hop + 1 BY <1>1, <1>8, <2>2, <2>3 DEF AtLeast
  <2>5. e.to \in D => w = AtLeast(e.hop + 1, col[e.to]) BY <1>8, <2>2, <2>3
  <2> QED BY <1>2, <1>3, <1>10, <2>1, <2>4, <2>5
<1>15. ASSUME e.from = e.to PROVE new[e.to] = e.hop
  <2>1. z = x BY <1>4, <1>6, <1>15 DEF ZeroOr
  <2>2. w = e.hop BY <1>1, <1>3, <1>7, <1>8, <1>15, <2>1 DEF AtLeast
  <2> QED BY <1>10, <2>2
<1>16. DOMAIN new = DOMAIN col \cup {e.from, e.to} BY <1>2, <1>10
<1>17. Moved(new, col, e) BY <1>13, <1>14, <1>15, <1>16 DEF Moved
<1> QED BY <1>12, <1>17 DEF new

(* The columns are a fold over the hops in that order.                     *)
LEMMA ColumnsAre ==
  ASSUME NEW A, NEW W, Actors(W, A), NEW es, NEW n \in Nat, Acting(es) \in [1..n -> W]
  PROVE  FoldsTo(AgentColumns(es), n, Columns(A),
                 [p \in (Columns(A)) \X W |-> PlaceOf(p[1], p[2])], <<>>, Acting(es))
<1> DEFINE s == Acting(es)
           V == Columns(A)
           op == [p \in V \X W |-> PlaceOf(p[1], p[2])]
           base == <<>>
           F(it) == [T \in SUBSET (DOMAIN s) |->
                       IF T = {} THEN base ELSE PlaceOf(it[T \ {Max(T)}], s[Max(T)])]
           iter == CHOOSE it : it = F(it)
<1>1. DOMAIN s = 1..n OBVIOUS
<1>2. AgentColumns(es) = iter[DOMAIN s]
  BY DEF AgentColumns, FoldLeft, MapThenFoldSet, PlaceOf, Sent, Acting, ActsBefore, NameRank
<1>3. base \in V
  <2>1. {} \in SUBSET A /\ base \in [{} -> Nat] OBVIOUS
  <2> QED BY <2>1 DEF Columns
<1>4. op \in [V \X W -> V] BY PlaceMoves
<1>5. \A l \in V, e \in W : op[<<l, e>>] = PlaceOf(l, e) OBVIOUS
<1>6. \A i \in 1..n : s[i] \in W OBVIOUS
<1> HIDE DEF op, base, V, s
<1>7. \E it : it = F(it)
  <2>1. PICK g : Iteration(g, n, V, op, base, s) BY <1>3, <1>4, <1>6, FoldExists
  <2>2. ASSUME NEW T \in SUBSET (1..n), T # {}
        PROVE  g[T] = PlaceOf(g[T \ {Max(T)}], s[Max(T)])
    <3>1. Max(T) \in T BY <2>2, Highest
    <3>2. g[T \ {Max(T)}] \in V /\ s[Max(T)] \in W BY <1>6, <2>1, <3>1 DEF Iteration
    <3> QED BY <1>5, <2>1, <2>2, <3>2 DEF Iteration, Iterates
  <2>3. g = F(g) BY <1>1, <2>1, <2>2 DEF Iteration, Iterates
  <2> HIDE DEF F
  <2> QED BY <2>3
<1>8. iter = F(iter) BY <1>7
<1> HIDE DEF iter
<1>9. Iterates(iter, n, V, op, base, s)
  <2>1. iter[{}] = base BY <1>8
  <2>2. ASSUME NEW T \in SUBSET (1..n), T # {}, iter[T \ {Max(T)}] \in V
        PROVE  iter[T] = op[<<iter[T \ {Max(T)}], s[Max(T)]>>]
    <3>1. Max(T) \in T BY <2>2, Highest
    <3>2. s[Max(T)] \in W BY <1>6, <3>1
    <3>3. iter[T] = PlaceOf(iter[T \ {Max(T)}], s[Max(T)]) BY <1>1, <1>8, <2>2
    <3> QED BY <1>5, <2>2, <3>2, <3>3
  <2> QED BY <2>1, <2>2 DEF Iterates
<1>10. FoldsTo(iter[1..n], n, V, op, base, s) BY <1>3, <1>4, <1>6, <1>9, Folded
<1> QED BY <1>1, <1>2, <1>10 DEF op, base, V, s

(* Step by step: the columns after each hop.                               *)
Stepwise(h, es, n, A) ==
  /\ h \in [0..n -> Columns(A)] /\ DOMAIN h[0] = {} /\ h[n] = AgentColumns(es)
  /\ \A k \in 1..n : Moved(h[k], h[k - 1], Acting(es)[k])

(* There are such steps.                                                   *)
LEMMA ColumnSteps ==
  ASSUME NEW A, NEW W, Actors(W, A), NEW es, NEW n \in Nat, Acting(es) \in [1..n -> W]
  PROVE  \E h : Stepwise(h, es, n, A)
<1> DEFINE V == Columns(A)
           s == Acting(es)
           r == AgentColumns(es)
<1>1. PICK op : op = [p \in V \X W |-> PlaceOf(p[1], p[2])] OBVIOUS
<1>2. PICK base : base = <<>> OBVIOUS
<1>3. FoldsTo(r, n, V, op, base, s) BY <1>1, <1>2, ColumnsAre
<1>4. \A l \in V, e \in W : op[<<l, e>>] = PlaceOf(l, e) BY <1>1
<1>41. DOMAIN base = {} BY <1>2
<1>42. \A k \in 1..n : s[k] \in W OBVIOUS
<1> HIDE DEF V, s, r
<1>5. PICK h \in [0..n -> V] : h[0] = base /\ h[n] = r /\ \A k \in 1..n : h[k] = op[<<h[k - 1], s[k]>>]
  BY <1>3 DEF FoldsTo
<1>6. \A k \in 1..n : Moved(h[k], h[k - 1], s[k])
  <2> TAKE k \in 1..n
  <2>1. h[k - 1] \in V /\ s[k] \in W BY <1>42, <1>5
  <2>2. h[k] = PlaceOf(h[k - 1], s[k]) BY <1>4, <1>5, <2>1
  <2>3. Moved(PlaceOf(h[k - 1], s[k]), h[k - 1], s[k]) BY <2>1, PlaceMoves DEF V
  <2> QED BY <2>2, <2>3
<1> QED BY <1>41, <1>5, <1>6 DEF Stepwise, V, s, r

(* The label of a node is the least index at which its agent acts.         *)
LEMMA LabelLeast ==
  ASSUME NEW W, NEW es \in Seq(W), Sorted(es), NEW a \in SendersOf(es)
  PROVE  /\ NodeLabel(es, a) \in Nat
         /\ \E i \in 1..Len(es) : es[i].from = a /\ es[i].hop = NodeLabel(es, a)
         /\ \A j \in 1..Len(es) : es[j].from = a => NodeLabel(es, a) <= es[j].hop
<1> DEFINE n == Len(es)
           S == {i \in 1..n : es[i].from = a}
<1>1. n \in Nat /\ DOMAIN es = 1..n OBVIOUS
<1>2. S \in SUBSET Nat /\ S # {} BY <1>1 DEF SendersOf
<1>3. PICK x \in S : \A y \in S : x <= y BY <1>2, LowestIndex
<1>4. \A j \in 1..(x - 1) : ~(es[j].from = a)
  <2> TAKE j \in 1..(x - 1)
  <2>1. j \in 1..n /\ ~(x <= j) BY <1>1, <1>3
  <2> QED BY <1>3, <2>1
<1>5. \E i \in DOMAIN es : es[i].from = a /\ \A j \in 1..(i - 1) : ~(es[j].from = a)
  BY <1>1, <1>3, <1>4
<1>6. PICK i \in DOMAIN es : /\ NodeLabel(es, a) = es[i].hop /\ es[i].from = a
                             /\ \A j \in 1..(i - 1) : ~(es[j].from = a)
  BY <1>5 DEF NodeLabel, FirstEdge
<1>7. \A j \in 1..n : es[j].from = a => es[i].hop <= es[j].hop
  <2> SUFFICES ASSUME NEW j \in 1..n, es[j].from = a PROVE es[i].hop <= es[j].hop OBVIOUS
  <2>1. ~(j < i) BY <1>1, <1>6
  <2>2. es[i].hop \in Nat /\ (i < j => es[i].hop <= es[j].hop) BY <1>1 DEF Sorted
  <2> QED BY <1>1, <2>1, <2>2
<1>8. es[i].hop \in Nat BY <1>1 DEF Sorted
<1> QED BY <1>1, <1>6, <1>7, <1>8

(* The hops taken in that order are all the hops.                          *)
LEMMA ActingMembers ==
  ASSUME NEW W, NEW es \in Seq(W), NEW p, ActingOrder(p, es), NEW n \in Nat, n = Len(es)
  PROVE  /\ Acting(es) \in [1..n -> W]
         /\ \A k \in 1..n : p[k] \in 1..n /\ Acting(es)[k] = es[p[k]]
         /\ \A i \in 1..n : \E k \in 1..n : p[k] = i
<1>1. \A i \in 1..n : es[i] \in W OBVIOUS
<1>2. p \in [1..n -> 1..n] /\ Acting(es) = [k \in 1..n |-> es[p[k]]] BY DEF ActingOrder
<1> QED BY <1>1, <1>2 DEF ActingOrder

(* The columns have the agents of the hops, and an agent that acts in an   *)
(* orderly run has the column of its label.                                *)
AtLabels(col, es) == \A b \in DOMAIN col : b \in SendersOf(es) => col[b] = NodeLabel(es, b)

(* A hop keeps that in an orderly run.                                     *)
LEMMA OrderlyStep ==
  ASSUME NEW W, NEW es \in Seq(W), Sorted(es), Orderly(es), NEW i \in 1..Len(es),
         NEW col, AtLabels(col, es), NEW new, Moved(new, col, es[i]),
         es[i].from \notin DOMAIN col => es[i].hop = NodeLabel(es, es[i].from)
  PROVE  AtLabels(new, es)
<1> DEFINE e == es[i]
<1>1. DOMAIN es = 1..Len(es) OBVIOUS
<1>2. e.from \in SendersOf(es) BY <1>1 DEF SendersOf
<1>3. PICK m \in Nat : m = NodeLabel(es, e.from) /\ m <= e.hop BY <1>2, LabelLeast
<1>4. e.hop \in Nat BY DEF Sorted
<1>5. e.to \in SendersOf(es) => NodeLabel(es, e.to) = IF e.from = e.to THEN e.hop ELSE e.hop + 1
  BY <1>1 DEF Orderly
<1> HIDE DEF e
<1>6. SUFFICES ASSUME NEW b \in DOMAIN new, b \in SendersOf(es) PROVE new[b] = NodeLabel(es, b)
  BY DEF AtLabels
<1>7. Moved(new, col, e) BY DEF e
<1>8. e.from \notin DOMAIN col => e.hop = m BY <1>3 DEF e
<1>9. CASE b \notin {e.from, e.to} BY <1>6, <1>7, <1>9 DEF Moved, AtLabels
<1>10. CASE b = e.to /\ e.from = e.to BY <1>5, <1>6, <1>7, <1>10 DEF Moved
<1>11. CASE b = e.to /\ e.from # e.to
  <2>1. NodeLabel(es, b) = e.hop + 1 BY <1>5, <1>6, <1>11
  <2>2. e.to \in DOMAIN col => col[e.to] = e.hop + 1 BY <1>6, <1>11, <2>1 DEF AtLabels
  <2>3. AtLeast(e.hop + 1, e.hop + 1) = e.hop + 1 BY DEF AtLeast
  <2> QED BY <1>7, <1>11, <2>1, <2>2, <2>3 DEF Moved
<1>12. CASE b = e.from /\ e.from # e.to
  <2>1. e.from \in DOMAIN col => col[e.from] = m BY <1>2, <1>3 DEF AtLabels
  <2>2. AtMost(e.hop, m) = m BY <1>3, <1>4 DEF AtMost
  <2> QED BY <1>3, <1>7, <1>8, <1>12, <2>1, <2>2 DEF Moved
<1> QED BY <1>9, <1>10, <1>11, <1>12

(* The agent of the k-th hop taken is not in D, those of the hops before  *)
(* are.                                                                    *)
NotYet(es, p, k, D) ==
  (\A j \in 1..(k - 1) : es[p[j]].from \in D) /\ es[p[k]].from \notin D

(* An agent that is not there yet has not acted, and acts now for the      *)
(* first time.                                                             *)
LEMMA ActsFirst ==
  ASSUME NEW W, NEW es \in Seq(W), Sorted(es), NEW p, ActingOrder(p, es), NEW n \in Nat, n = Len(es),
         NEW k \in 1..n, NEW D, NotYet(es, p, k, D)
  PROVE  es[p[k]].hop = NodeLabel(es, es[p[k]].from)
<1>1. /\ \A j \in 1..n : p[j] \in 1..n
      /\ \A i \in 1..n : \E j \in 1..n : p[j] = i
  BY DEF ActingOrder
<1>2. PICK e : e = es[p[k]] OBVIOUS
<1>3. p[k] \in 1..n /\ DOMAIN es = 1..n BY <1>1
<1>4. e.from \in SendersOf(es) BY <1>2, <1>3 DEF SendersOf
<1>5. PICK m \in Nat : /\ m = NodeLabel(es, e.from)
                       /\ \E i \in 1..n : es[i].from = e.from /\ es[i].hop = m
                       /\ \A j \in 1..n : es[j].from = e.from => m <= es[j].hop
  BY <1>4, LabelLeast
<1>6. PICK i \in 1..n : es[i].from = e.from /\ es[i].hop = m BY <1>5
<1>7. PICK l \in 1..n : p[l] = i BY <1>1
<1>8. l \notin 1..(k - 1) BY <1>2, <1>6, <1>7 DEF NotYet
<1>9. l = k \/ k < l BY <1>8
<1>10. e.hop <= m
  <2>1. k < l => es[p[k]].hop <= es[p[l]].hop BY DEF ActingOrder
  <2> QED BY <1>2, <1>5, <1>6, <1>7, <1>9, <2>1
<1>11. m <= e.hop BY <1>2, <1>3, <1>5
<1>12. e.hop \in Nat BY <1>2, <1>3 DEF Sorted
<1> QED BY <1>2, <1>5, <1>10, <1>11, <1>12

-----------------------------------------------------------------------------
(* The columns of the agents.                                              *)

(* The agents of the first k hops taken.                                   *)
Among(D, s, k) ==
  /\ \A j \in 1..k : s[j].from \in D /\ s[j].to \in D
  /\ \A b \in D : \E j \in 1..k : b \in {s[j].from, s[j].to}

(* The columns have the agents of the run, at the labels of those that act *)
(* if the run is orderly.                                                  *)
LEMMA OrderlyColumns ==
  ASSUME NEW W, NEW A, Actors(W, A), NEW es \in Seq(W), Sorted(es)
  PROVE  /\ DOMAIN AgentColumns(es) = AgentsOf(es)
         /\ Orderly(es) => AtLabels(AgentColumns(es), es)
<1> DEFINE s == Acting(es)
<1>1. PICK n \in Nat : n = Len(es) /\ DOMAIN es = 1..n OBVIOUS
<1>2. PICK p : ActingOrder(p, es) BY ActingInOrder
<1>3. /\ s \in [1..n -> W]
      /\ \A k \in 1..n : p[k] \in 1..n /\ s[k] = es[p[k]]
      /\ \A i \in 1..n : \E k \in 1..n : p[k] = i
  BY <1>1, <1>2, ActingMembers
<1>4. PICK h : Stepwise(h, es, n, A) BY <1>3, ColumnSteps
<1>5. /\ DOMAIN h[0] = {} /\ h[n] = AgentColumns(es)
      /\ \A k \in 1..n : Moved(h[k], h[k - 1], s[k])
  BY <1>4 DEF Stepwise
<1> HIDE DEF s
<1> DEFINE there == {k \in 0..n : Among(DOMAIN h[k], s, k)}
<1>6. 0..n \subseteq there
  <2>1. 0 \in there BY <1>5 DEF Among
  <2>2. \A k \in 0..(n - 1) : k \in there => k + 1 \in there
    <3> SUFFICES ASSUME NEW k \in 0..(n - 1), k \in there PROVE k + 1 \in there OBVIOUS
    <3>1. k + 1 \in 1..n /\ (k + 1) - 1 = k /\ k + 1 \in 0..n OBVIOUS
    <3>2. DOMAIN h[k + 1] = DOMAIN h[k] \cup {s[k + 1].from, s[k + 1].to} BY <1>5, <3>1 DEF Moved
    <3>3. Among(DOMAIN h[k], s, k) OBVIOUS
    <3>4. \A j \in 1..(k + 1) : j \in 1..k \/ j = k + 1 OBVIOUS
    <3>5. \A j \in 1..k : j \in 1..(k + 1) OBVIOUS
    <3>6. k + 1 \in 1..(k + 1) OBVIOUS
    <3>7. Among(DOMAIN h[k + 1], s, k + 1) BY <3>2, <3>3, <3>4, <3>5, <3>6 DEF Among
    <3> QED BY <3>1, <3>7
  <2> HIDE DEF there
  <2> QED BY <2>1, <2>2, Counting
<1>7. \A k \in 0..n : Among(DOMAIN h[k], s, k) BY <1>6
<1> HIDE DEF there
<1>8. DOMAIN AgentColumns(es) = AgentsOf(es)
  <2>1. Among(DOMAIN h[n], s, n) BY <1>7
  <2>2. ASSUME NEW b \in DOMAIN h[n] PROVE b \in AgentsOf(es)
    <3>1. PICK j \in 1..n : b \in {s[j].from, s[j].to} BY <2>1 DEF Among
    <3>2. PICK i \in 1..n : s[j] = es[i] BY <1>3
    <3> QED BY <1>1, <3>1, <3>2 DEF AgentsOf
  <2>3. ASSUME NEW b \in AgentsOf(es) PROVE b \in DOMAIN h[n]
    <3>1. PICK i \in 1..n : b \in {es[i].from, es[i].to} BY <1>1 DEF AgentsOf
    <3>2. PICK k \in 1..n : p[k] = i BY <1>3
    <3>3. s[k] = es[i] BY <1>3, <3>2
    <3>4. s[k].from \in DOMAIN h[n] /\ s[k].to \in DOMAIN h[n] BY <2>1 DEF Among
    <3> QED BY <3>1, <3>3, <3>4
  <2> QED BY <1>5, <2>2, <2>3
<1>9. ASSUME Orderly(es) PROVE AtLabels(AgentColumns(es), es)
  <2> DEFINE good == {k \in 0..n : AtLabels(h[k], es)}
  <2>1. 0 \in good BY <1>5 DEF AtLabels
  <2>2. \A k \in 0..(n - 1) : k \in good => k + 1 \in good
    <3> SUFFICES ASSUME NEW k \in 0..(n - 1), k \in good PROVE k + 1 \in good OBVIOUS
    <3>1. k + 1 \in 1..n /\ (k + 1) - 1 = k /\ k + 1 \in 0..n OBVIOUS
    <3>2. PICK m \in 1..n : m = k + 1 BY <3>1
    <3>3. Moved(h[m], h[k], s[m]) BY <1>5, <3>1, <3>2
    <3>4. AtLabels(h[k], es) OBVIOUS
    <3>5. Among(DOMAIN h[k], s, k) BY <1>7
    <3>6. PICK i \in 1..n : i = p[m] /\ s[m] = es[i] BY <1>3
    <3>7. es[i].from \notin DOMAIN h[k] => es[i].hop = NodeLabel(es, es[i].from)
      <4> SUFFICES ASSUME es[i].from \notin DOMAIN h[k] PROVE es[i].hop = NodeLabel(es, es[i].from)
        OBVIOUS
      <4>1. PICK D : D = DOMAIN h[k] OBVIOUS
      <4>2. \A j \in 1..(m - 1) : es[p[j]].from \in D
        <5> TAKE j \in 1..(m - 1)
        <5>1. j \in 1..n /\ j \in 1..k BY <3>1, <3>2
        <5> QED BY <1>3, <3>5, <4>1, <5>1 DEF Among
      <4>3. es[p[m]].from \notin D BY <3>6, <4>1
      <4>4. NotYet(es, p, m, D) BY <4>2, <4>3 DEF NotYet
      <4>5. es[p[m]].hop = NodeLabel(es, es[p[m]].from) BY <1>1, <1>2, <4>4, ActsFirst
      <4> QED BY <3>6, <4>5
    <3>8. PICK col, new : col = h[k] /\ new = h[m] OBVIOUS
    <3>9. AtLabels(new, es)
      <4>1. Moved(new, col, es[i]) /\ AtLabels(col, es) BY <3>3, <3>4, <3>6, <3>8
      <4>2. es[i].from \notin DOMAIN col => es[i].hop = NodeLabel(es, es[i].from) BY <3>7, <3>8
      <4>3. i \in 1..Len(es) BY <1>1
      <4> QED BY <1>9, <4>1, <4>2, <4>3, OrderlyStep
    <3> QED BY <3>1, <3>2, <3>8, <3>9
  <2> HIDE DEF good
  <2>3. 0..n \subseteq good BY <2>1, <2>2, Counting
  <2> QED BY <1>5, <2>3 DEF good
<1> QED BY <1>8, <1>9

(* The layers: the columns that agents have, each with those agents.       *)
IndicesIn(es, col, c) == {es[i].hop : i \in {j \in DOMAIN es : col[es[j].from] = c}}
Layered(layers, es, col) ==
  /\ DOMAIN layers = {col[b] : b \in DOMAIN col}
  /\ \A c \in DOMAIN layers :
       /\ layers[c].agents = {b \in DOMAIN col : col[b] = c}
       /\ layers[c].hop = IF IndicesIn(es, col, c) = {} THEN c ELSE SmallestOf(IndicesIn(es, col, c))

(* They are the layers that the topology computes.                         *)
LEMMA LayersAre ==
  ASSUME NEW es, NEW col, col = AgentColumns(es), NEW agents, agents = DOMAIN col
  PROVE  Layered(Layers(es, agents), es, col)
<1> DEFINE used == {col[b] : b \in DOMAIN col}
           columns == IF used = {} /\ agents # {} THEN {0} ELSE used
           Extra(c) == IF c = LargestOf(columns) THEN agents \ DOMAIN col ELSE {}
           layers == [c \in columns |->
                        [hop |-> IF IndicesIn(es, col, c) = {} THEN c ELSE SmallestOf(IndicesIn(es, col, c)),
                         agents |-> {b \in DOMAIN col : col[b] = c} \cup Extra(c)]]
<1>1. Layers(es, agents) = layers BY DEF Layers, IndicesIn
<1>2. columns = used
  <2>1. used = {} => agents = {} OBVIOUS
  <2> QED BY <2>1
<1>3. \A c : Extra(c) = {} OBVIOUS
<1> HIDE DEF Extra, columns
<1>4. DOMAIN layers = used BY <1>2
<1>5. \A c \in used : /\ layers[c].agents = {b \in DOMAIN col : col[b] = c}
                      /\ layers[c].hop = IF IndicesIn(es, col, c) = {} THEN c ELSE SmallestOf(IndicesIn(es, col, c))
  BY <1>2, <1>3
<1> HIDE DEF layers
<1>6. Layered(layers, es, col) BY <1>4, <1>5 DEF Layered
<1> QED BY <1>1, <1>6

(* The smallest of a set of numbers that has it.                           *)
LEMMA SmallestIs ==
  ASSUME NEW S \in SUBSET Int, NEW c \in S, \A x \in S : c <= x
  PROVE  SmallestOf(S) = c
<1>1. \E n \in S : \A m \in S : n <= m OBVIOUS
<1>2. PICK n \in S : n = SmallestOf(S) /\ \A m \in S : n <= m BY <1>1 DEF SmallestOf
<1>3. n <= c /\ c <= n /\ n \in Int /\ c \in Int BY <1>2
<1> QED BY <1>2, <1>3

(* The two labels of an agent that acts in an orderly run.                 *)
LEMMA LabelsAgree ==
  ASSUME NEW W, NEW A, Actors(W, A), NEW es \in Seq(W), Sorted(es), Orderly(es),
         NEW a \in SendersOf(es)
  PROVE  NodeLabel(es, a) = ColumnLabel(es, AgentsOf(es), a)
<1>1. PICK col : col = AgentColumns(es) OBVIOUS
<1>2. PICK agents : agents = AgentsOf(es) OBVIOUS
<1>3. agents = DOMAIN col /\ AtLabels(col, es) BY <1>1, <1>2, OrderlyColumns
<1>4. PICK layers : layers = Layers(es, agents) OBVIOUS
<1>5. Layered(layers, es, col) BY <1>1, <1>3, <1>4, LayersAre
<1>6. DOMAIN es = 1..Len(es) OBVIOUS
<1>7. \A b \in SendersOf(es) : b \in DOMAIN col /\ col[b] = NodeLabel(es, b)
  <2> TAKE b \in SendersOf(es)
  <2>1. b \in agents BY <1>2 DEF SendersOf, AgentsOf
  <2> QED BY <1>3, <2>1 DEF AtLabels
<1>8. PICK c : c = col[a] /\ c = NodeLabel(es, a) /\ c \in DOMAIN layers BY <1>5, <1>7 DEF Layered
<1>9. PICK S : S = IndicesIn(es, col, c) OBVIOUS
<1>10. c \in S
  <2>1. PICK i \in 1..Len(es) : es[i].from = a /\ es[i].hop = c BY <1>8, LabelLeast
  <2> QED BY <1>6, <1>8, <1>9, <2>1 DEF IndicesIn
<1>11. \A x \in S : x \in Int /\ c <= x
  <2> TAKE x \in S
  <2>1. PICK j \in 1..Len(es) : x = es[j].hop /\ col[es[j].from] = c BY <1>6, <1>9 DEF IndicesIn
  <2>2. es[j].from \in SendersOf(es) BY <1>6 DEF SendersOf
  <2>3. PICK b \in SendersOf(es) : b = es[j].from BY <2>2
  <2>4. NodeLabel(es, b) <= es[j].hop BY <2>3, LabelLeast
  <2>5. NodeLabel(es, b) = c BY <1>7, <2>1, <2>3
  <2>6. es[j].hop \in Int BY DEF Sorted
  <2> QED BY <2>1, <2>4, <2>5, <2>6
<1>12. SmallestOf(S) = c
  <2>1. S \in SUBSET Int BY <1>11
  <2> QED BY <1>10, <1>11, <2>1, SmallestIs
<1>13. layers[c].hop = c BY <1>5, <1>8, <1>9, <1>10, <1>12 DEF Layered
<1>14. \A d \in DOMAIN layers : a \in layers[d].agents <=> d = c BY <1>5, <1>7, <1>8 DEF Layered
<1>15. (CHOOSE d \in DOMAIN layers : a \in layers[d].agents) = c BY <1>8, <1>14
<1> QED BY <1>2, <1>4, <1>8, <1>13, <1>15 DEF ColumnLabel

(* An agent that acts at one index is placed there.                        *)
Once(es) == \A i, j \in DOMAIN es : es[i].from = es[j].from => es[i].hop = es[j].hop

(* So the graph has it in the column of its index.                         *)
LEMMA PlacedOnce ==
  ASSUME NEW W, NEW es \in Seq(W), Sorted(es), Once(es), NEW i \in DOMAIN es
  PROVE  GraphPlace(es, es[i].from) = es[i].hop
<1>1. PICK a, h : a = es[i].from /\ h = es[i].hop OBVIOUS
<1>2. h \in Int /\ h \in Indices(es)
  <2>1. i \in 1..Len(es) OBVIOUS
  <2> QED BY <1>1, <2>1 DEF Sorted, Indices
<1>3. a \in SendersOf(es) BY <1>1 DEF SendersOf
<1>4. \A x \in Indices(es) : a \in GraphLayers(es)[x] <=> x = h
  <2> TAKE x \in Indices(es)
  <2>1. a \in GraphLayers(es)[x] <=> \E j \in DOMAIN es : es[j].from = a /\ es[j].hop = x
    BY <1>3 DEF GraphLayers, Virtual
  <2> QED BY <1>1, <2>1 DEF Once
<1>5. {x \in Indices(es) : a \in GraphLayers(es)[x]} = {h} BY <1>2, <1>4
<1>6. LargestOf({h}) = h BY <1>2 DEF LargestOf
<1> QED BY <1>1, <1>5, <1>6 DEF GraphPlace

(* The arrows of an orderly run go forward, if nobody acts at two indices. *)
LEMMA ArrowsForward ==
  ASSUME NEW W, NEW es \in Seq(W), Sorted(es), Orderly(es), Once(es), NEW g \in GraphEdges(es)
  PROVE  GraphPlace(es, g.from) < GraphPlace(es, g.to)
<1>1. PICK i \in DOMAIN es, t \in VisibleAgents(es) :
        g.from = es[i].from /\ g.to = t /\ es[i].from # t /\ t \in Targets(es, es[i])
  BY DEF GraphEdges
<1>2. DOMAIN es = 1..Len(es) OBVIOUS
<1>3. PICK e : e = es[i] OBVIOUS
<1>4. e.hop \in Nat BY <1>2, <1>3 DEF Sorted
<1>5. GraphPlace(es, g.from) = e.hop BY <1>1, <1>3, PlacedOnce
<1>6. \E j \in DOMAIN es : es[j].from = t /\ es[j].hop = e.hop + 1
  <2>1. CASE t = e.to
    <3>1. t \in SendersOf(es) BY <1>1 DEF VisibleAgents, GraphLayers
    <3>2. NodeLabel(es, t) = e.hop + 1 BY <1>1, <1>3, <2>1, <3>1 DEF Orderly
    <3>3. PICK j \in 1..Len(es) : es[j].from = t /\ es[j].hop = NodeLabel(es, t)
      BY <3>1, LabelLeast
    <3> QED BY <1>2, <3>2, <3>3
  <2>2. CASE t # e.to BY <1>1, <1>3, <2>2 DEF Targets
  <2> QED BY <2>1, <2>2
<1>7. PICK j \in DOMAIN es : es[j].from = t /\ es[j].hop = e.hop + 1 BY <1>6
<1>8. GraphPlace(es, es[j].from) = es[j].hop BY PlacedOnce
<1> QED BY <1>1, <1>4, <1>5, <1>7, <1>8

-----------------------------------------------------------------------------
(* Linear runs.                                                            *)

(* A single file: each hop goes on from the last, at the next index, and   *)
(* nobody acts twice or is handed over to twice.                           *)
Filed(es, n) ==
  /\ \A i \in 1..n : es[i].hop = es[1].hop + (i - 1)
  /\ \A i \in 1..(n - 1) : es[i + 1].from = es[i].to
  /\ \A i, j \in 1..n : es[i].from = es[j].from => i = j
  /\ \A i, j \in 1..n : es[i].to = es[j].to /\ i # j => es[i].from = es[i].to \/ es[j].from = es[j].to

(* The columns after k hops, but the last: of the first m that act.        *)
InFile(col, es, m) ==
  /\ DOMAIN col = {es[i].from : i \in 1..m}
  /\ \A i \in 1..m : col[es[i].from] = es[1].hop + (i - 1)

Single(col) == \A b, c \in DOMAIN col : col[b] = col[c] => b = c

(* A hop before the last one.                                              *)
LEMMA FileStep ==
  ASSUME NEW es, NEW n \in Nat, Filed(es, n), NEW h0 \in Nat, h0 = es[1].hop,
         NEW k \in 1..(n - 1), NEW m \in 0..n, m = (IF k = 1 THEN 0 ELSE k),
         NEW col, InFile(col, es, m), NEW new, Moved(new, col, es[k])
  PROVE  InFile(new, es, k + 1)
<1> DEFINE f == [i \in 1..n |-> es[i].from]
<1>1. PICK a, b, x : a = es[k].from /\ b = es[k].to /\ x = es[k].hop OBVIOUS
<1>2. k \in 1..n /\ k + 1 \in 1..n /\ k # k + 1 OBVIOUS
<1>3. x = h0 + (k - 1) /\ b = f[k + 1] /\ a = f[k] BY <1>1, <1>2 DEF Filed
<1>4. \A i, j \in 1..n : f[i] = f[j] => i = j BY DEF Filed
<1>6. \A i \in 1..n : f[i] = es[i].from OBVIOUS
<1> HIDE DEF f
<1>50. \A i \in 1..m : i \in 1..n OBVIOUS
<1>51. \A i \in 1..m : f[i] = es[i].from BY <1>50, <1>6
<1>52. {es[i].from : i \in 1..m} = {f[i] : i \in 1..m} BY <1>51
<1>53. DOMAIN col = {f[i] : i \in 1..m} BY <1>52 DEF InFile
<1>54. \A i \in 1..m : col[f[i]] = h0 + (i - 1) BY <1>51 DEF InFile
<1>5. DOMAIN col = {f[i] : i \in 1..m} /\ \A i \in 1..m : col[f[i]] = h0 + (i - 1) BY <1>53, <1>54
<1>7. a # b BY <1>2, <1>3, <1>4
<1>8. b \notin DOMAIN col
  <2>1. \A i \in 1..m : i \in 1..n /\ i # k + 1 OBVIOUS
  <2> QED BY <1>2, <1>3, <1>4, <1>5, <2>1
<1>9. /\ DOMAIN new = DOMAIN col \cup {a, b}
      /\ \A c \in DOMAIN col : c \notin {a, b} => new[c] = col[c]
      /\ a \in DOMAIN col => new[a] = AtMost(x, col[a])
      /\ a \notin DOMAIN col => new[a] = x
      /\ new[b] = x + 1
  BY <1>1, <1>7, <1>8 DEF Moved
<1>10. new[a] = x
  <2>1. CASE k = 1
    <3>1. \A i \in 1..m : FALSE BY <2>1
    <3> QED BY <1>5, <1>9, <3>1
  <2>2. CASE k # 1
    <3>1. k \in 1..m BY <2>2
    <3>2. a \in DOMAIN col /\ col[a] = x BY <1>3, <1>5, <3>1
    <3> QED BY <1>9, <3>2 DEF AtMost
  <2> QED BY <2>1, <2>2
<1>11. DOMAIN new = {f[i] : i \in 1..(k + 1)}
  <2>1. \A i \in 1..m : i \in 1..(k + 1) OBVIOUS
  <2>2. k \in 1..(k + 1) /\ k + 1 \in 1..(k + 1) OBVIOUS
  <2>3. \A i \in 1..(k + 1) : i \in 1..m \/ i = k \/ i = k + 1 OBVIOUS
  <2> QED BY <1>3, <1>5, <1>9, <2>1, <2>2, <2>3
<1>12. \A i \in 1..(k + 1) : new[f[i]] = h0 + (i - 1)
  <2> TAKE i \in 1..(k + 1)
  <2>1. CASE i = k + 1 BY <1>3, <1>9, <2>1
  <2>2. CASE i = k BY <1>3, <1>10, <2>2
  <2>3. CASE i # k /\ i # k + 1
    <3>1. i \in 1..m /\ i \in 1..n BY <2>3
    <3>2. f[i] \in DOMAIN col /\ f[i] \notin {a, b} BY <1>2, <1>3, <1>4, <1>5, <2>3, <3>1
    <3> QED BY <1>5, <1>9, <3>1, <3>2
  <2> QED BY <2>1, <2>2, <2>3
<1>13. \A i \in 1..(k + 1) : i \in 1..n OBVIOUS
<1>14. \A i \in 1..(k + 1) : f[i] = es[i].from BY <1>6, <1>13
<1>15. {es[i].from : i \in 1..(k + 1)} = {f[i] : i \in 1..(k + 1)} BY <1>14
<1>16. \A i \in 1..(k + 1) : new[es[i].from] = es[1].hop + (i - 1) BY <1>12, <1>14
<1>17. DOMAIN new = {es[i].from : i \in 1..(k + 1)} BY <1>11, <1>15
<1> QED BY <1>16, <1>17 DEF InFile

(* The last hop.                                                           *)
LEMMA FileEnds ==
  ASSUME NEW es, NEW n \in Nat, n > 0, Filed(es, n), NEW h0 \in Nat, h0 = es[1].hop,
         NEW m \in 0..n, m = (IF n = 1 THEN 0 ELSE n),
         NEW col, InFile(col, es, m), NEW new, Moved(new, col, es[n])
  PROVE  Single(new)
<1> DEFINE f == [i \in 1..n |-> es[i].from]
<1>1. PICK a, t, x : a = es[n].from /\ t = es[n].to /\ x = es[n].hop OBVIOUS
<1>2. n \in 1..n OBVIOUS
<1>3. x = h0 + (n - 1) /\ a = f[n] BY <1>1, <1>2 DEF Filed
<1>4. \A i, j \in 1..n : f[i] = f[j] => i = j BY DEF Filed
<1>6. \A i \in 1..n : f[i] = es[i].from OBVIOUS
<1> HIDE DEF f
<1>50. \A i \in 1..m : i \in 1..n OBVIOUS
<1>51. \A i \in 1..m : f[i] = es[i].from BY <1>50, <1>6
<1>52. {es[i].from : i \in 1..m} = {f[i] : i \in 1..m} BY <1>51
<1>53. DOMAIN col = {f[i] : i \in 1..m} BY <1>52 DEF InFile
<1>54. \A i \in 1..m : col[f[i]] = h0 + (i - 1) BY <1>51 DEF InFile
<1>5. DOMAIN col = {f[i] : i \in 1..m} /\ \A i \in 1..m : col[f[i]] = h0 + (i - 1) BY <1>53, <1>54
<1>7. /\ DOMAIN new = DOMAIN col \cup {a, t}
      /\ \A c \in DOMAIN col : c \notin {a, t} => new[c] = col[c]
      /\ a # t => /\ a \in DOMAIN col => new[a] = AtMost(x, col[a])
                  /\ a \notin DOMAIN col => new[a] = x
                  /\ t \in DOMAIN col => new[t] = AtLeast(x + 1, col[t])
                  /\ t \notin DOMAIN col => new[t] = x + 1
      /\ a = t => new[t] = x
  BY <1>1 DEF Moved
<1>8. \A b \in DOMAIN new : b # t => \E i \in 1..n : b = f[i] BY <1>2, <1>3, <1>5, <1>7
<1>9. \A i \in 1..n : i \in 1..m \/ i = n OBVIOUS
<1>10. new[a] = x
  <2>1. CASE a = t BY <1>7, <2>1
  <2>2. CASE a # t
    <3>1. CASE n = 1
      <4>1. \A i \in 1..m : FALSE BY <3>1
      <4> QED BY <1>5, <1>7, <2>2, <4>1
    <3>2. CASE n # 1
      <4>1. n \in 1..m BY <3>2
      <4>2. a \in DOMAIN col /\ col[a] = x BY <1>3, <1>5, <4>1
      <4> QED BY <1>7, <2>2, <4>2 DEF AtMost
    <3> QED BY <3>1, <3>2
  <2> QED BY <2>1, <2>2
<1>11. \A i \in 1..n : f[i] # t \/ a = t => new[f[i]] = h0 + (i - 1)
  <2> SUFFICES ASSUME NEW i \in 1..n, f[i] # t \/ a = t PROVE new[f[i]] = h0 + (i - 1) OBVIOUS
  <2>1. CASE i = n BY <1>3, <1>10, <2>1
  <2>2. CASE i # n
    <3>1. i \in 1..m BY <1>9, <2>2
    <3>2. f[i] # a BY <1>2, <1>3, <1>4, <2>2
    <3>3. f[i] \in DOMAIN col /\ f[i] \notin {a, t} BY <1>5, <3>1, <3>2
    <3> QED BY <1>5, <1>7, <3>1, <3>3
  <2> QED BY <2>1, <2>2
<1>12. ASSUME a # t, NEW j \in 1..n, t = f[j] PROVE j = 1 /\ j # n
  <2>1. j # n BY <1>3, <1>12
  <2>2. SUFFICES ASSUME j # 1 PROVE FALSE BY <2>1
  <2>3. j - 1 \in 1..(n - 1) /\ j - 1 \in 1..n /\ (j - 1) + 1 = j /\ j - 1 # n /\ j # j - 1 BY <2>1, <2>2
  <2>4. es[j - 1].to = es[j].from BY <2>3 DEF Filed
  <2>5. es[j - 1].to = t BY <1>6, <1>12, <2>4
  <2>6. es[j - 1].from = t BY <1>1, <1>2, <1>12, <2>3, <2>5 DEF Filed
  <2>7. f[j - 1] = f[j] BY <1>6, <1>12, <2>3, <2>6
  <2> QED BY <1>4, <2>3, <2>7
<1>13. a # t => new[t] = h0 + n
  <2> SUFFICES ASSUME a # t PROVE new[t] = h0 + n OBVIOUS
  <2>1. CASE t \notin DOMAIN col BY <1>3, <1>7, <2>1
  <2>2. CASE t \in DOMAIN col
    <3>1. PICK j \in 1..m : t = f[j] BY <1>5, <2>2
    <3>2. j \in 1..n OBVIOUS
    <3>3. j = 1 BY <1>12, <3>1, <3>2
    <3>4. col[t] = h0 BY <1>5, <3>1, <3>3
    <3>5. new[t] = AtLeast(x + 1, h0) BY <1>7, <2>2, <3>4
    <3> QED BY <1>3, <3>5 DEF AtLeast
  <2> QED BY <2>1, <2>2
<1>14. SUFFICES ASSUME NEW b \in DOMAIN new, NEW c \in DOMAIN new, new[b] = new[c], b # c PROVE FALSE
  BY DEF Single
<1>15. CASE a = t
  <2>1. t = f[n] BY <1>3, <1>15
  <2>2. PICK i \in 1..n, j \in 1..n : b = f[i] /\ c = f[j] BY <1>2, <1>8, <2>1
  <2>3. h0 + (i - 1) = h0 + (j - 1) BY <1>11, <1>14, <1>15, <2>2
  <2>4. i = j BY <2>3
  <2> QED BY <1>14, <2>2, <2>4
<1>16. ASSUME a # t, NEW u \in DOMAIN new, u # t PROVE \E i \in 1..n : u = f[i] /\ new[u] = h0 + (i - 1)
  BY <1>8, <1>11, <1>16
<1>17. CASE a # t /\ b # t /\ c # t
  <2>1. PICK i \in 1..n, j \in 1..n : b = f[i] /\ c = f[j] /\ new[b] = h0 + (i - 1) /\ new[c] = h0 + (j - 1)
    BY <1>16, <1>17
  <2>2. i = j BY <1>14, <2>1
  <2> QED BY <1>14, <2>1, <2>2
<1>18. CASE a # t /\ b = t /\ c # t
  <2>1. PICK j \in 1..n : new[c] = h0 + (j - 1) BY <1>16, <1>18
  <2>2. h0 + n = h0 + (j - 1) BY <1>13, <1>14, <1>18, <2>1
  <2> QED BY <2>2
<1>19. CASE a # t /\ b # t /\ c = t
  <2>1. PICK j \in 1..n : new[b] = h0 + (j - 1) BY <1>16, <1>19
  <2>2. h0 + n = h0 + (j - 1) BY <1>13, <1>14, <1>19, <2>1
  <2> QED BY <2>2
<1> QED BY <1>14, <1>15, <1>17, <1>18, <1>19

(* Every agent of a single file has a column to itself.                    *)
LEMMA FiledColumns ==
  ASSUME NEW W, NEW A, Actors(W, A), NEW es \in Seq(W), Sorted(es), NEW n \in Nat, n = Len(es), n > 0,
         Filed(es, n)
  PROVE  Single(AgentColumns(es))
<1>1. DOMAIN es = 1..n /\ \A i \in 1..n : es[i] \in W OBVIOUS
<1>2. PICK h0 \in Nat : h0 = es[1].hop
  <2>1. 1 \in 1..n OBVIOUS
  <2> QED BY <2>1 DEF Sorted
<1>3. Acting(es) = es
  <2>1. \A i, j \in 1..Len(es) : i < j => es[i].hop < es[j].hop
    <3> TAKE i, j \in 1..Len(es)
    <3>1. es[i].hop = h0 + (i - 1) /\ es[j].hop = h0 + (j - 1) BY <1>2 DEF Filed
    <3> QED BY <3>1
  <2> QED BY <2>1, ActingStays
<1>4. es \in [1..n -> W] BY <1>1
<1>5. PICK h : Stepwise(h, es, n, A) BY <1>3, <1>4, ColumnSteps
<1>6. /\ DOMAIN h[0] = {} /\ h[n] = AgentColumns(es)
      /\ \A k \in 1..n : Moved(h[k], h[k - 1], es[k])
  BY <1>3, <1>5 DEF Stepwise
<1> DEFINE good == {k \in 0..(n - 1) : InFile(h[k], es, IF k = 0 THEN 0 ELSE k + 1)}
<1>7. 0 \in good
  <2>1. {es[i].from : i \in 1..0} = {} OBVIOUS
  <2>2. InFile(h[0], es, 0) BY <1>6, <2>1 DEF InFile
  <2> QED BY <2>2
<1>8. \A k \in 0..((n - 1) - 1) : k \in good => k + 1 \in good
  <2> SUFFICES ASSUME NEW k \in 0..((n - 1) - 1), k \in good PROVE k + 1 \in good OBVIOUS
  <2>1. PICK l \in 1..(n - 1) : l = k + 1 OBVIOUS
  <2>2. PICK m \in 0..n : m = (IF l = 1 THEN 0 ELSE l) BY <2>1
  <2>3. m = IF k = 0 THEN 0 ELSE k + 1 BY <2>1, <2>2
  <2>4. l \in 1..n /\ l - 1 = k BY <2>1
  <2>5. PICK col, new : col = h[k] /\ new = h[l] OBVIOUS
  <2>6. InFile(col, es, m) BY <2>3, <2>5
  <2>7. Moved(new, col, es[l]) BY <1>6, <2>4, <2>5
  <2>8. InFile(new, es, l + 1) BY <1>2, <2>2, <2>6, <2>7, FileStep
  <2>9. l \in 0..(n - 1) /\ l # 0 OBVIOUS
  <2> QED BY <2>1, <2>5, <2>8, <2>9
<1> HIDE DEF good
<1>9. n - 1 \in good
  <2>1. n - 1 \in Nat /\ n - 1 \in 0..(n - 1) OBVIOUS
  <2> QED BY <1>7, <1>8, <2>1, Counting
<1>10. PICK m \in 0..n : m = IF n = 1 THEN 0 ELSE n OBVIOUS
<1>11. InFile(h[n - 1], es, m)
  <2>1. m = IF n - 1 = 0 THEN 0 ELSE (n - 1) + 1 BY <1>10
  <2> QED BY <1>9, <2>1 DEF good
<1>12. PICK col, new : col = h[n - 1] /\ new = h[n] OBVIOUS
<1>13. InFile(col, es, m) /\ Moved(new, col, es[n]) BY <1>6, <1>11, <1>12
<1>14. Single(new) BY <1>2, <1>10, <1>13, FileEnds
<1> QED BY <1>6, <1>12, <1>14

(* Hops that go on from one another in a run that is called linear.        *)
HandedOn(es) == \A i \in 2..Len(es) : es[i].from = es[i - 1].to

(* They are a single file.                                                 *)
LEMMA LinearFiled ==
  ASSUME NEW W, NEW es \in Seq(W), Sorted(es), NEW n \in Nat, n = Len(es), n > 0,
         HandedOn(es), InferLayout(es) = "linear"
  PROVE  Filed(es, n)
<1>1. DOMAIN es = 1..n OBVIOUS
<1>2. \A i \in 1..n : es[i].hop \in Nat BY DEF Sorted
<1>3. \A i \in 1..(n - 1) : es[i + 1].from = es[i].to
  <2> TAKE i \in 1..(n - 1)
  <2>1. i + 1 \in 2..n /\ (i + 1) - 1 = i OBVIOUS
  <2> QED BY <2>1 DEF HandedOn
<1>4. CASE n = 1
  <2>1. \A i \in 1..n : i = 1 BY <1>4
  <2>2. \A i \in 1..n : es[i].hop = es[1].hop + (i - 1) BY <1>2, <2>1
  <2> QED BY <1>3, <2>1, <2>2 DEF Filed
<1>5. CASE n # 1
  <2>0. n > 1 BY <1>5
  <2>1. ByHop(es) = es
    <3>1. Hopped(es) BY DEF Sorted, Hopped
    <3>2. \A i, j \in 1..Len(es) : i < j => es[i].hop <= es[j].hop BY DEF Sorted
    <3> QED BY <3>1, <3>2, SortedStays
  <2>2. /\ \A i, j \in 1..n : ~(i # j /\ es[i].from = es[j].from)
        /\ \A i, j \in 1..n : ~(/\ i # j /\ es[i].to = es[j].to
                                /\ es[i].from # es[i].to /\ es[j].from # es[j].to)
        /\ \A i \in 1..n : es[i].hop = i - 1
    BY <1>1, <2>0, <2>1 DEF InferLayout
  <2>3. 1 \in 1..n OBVIOUS
  <2>4. \A i \in 1..n : es[i].hop = es[1].hop + (i - 1) BY <2>2, <2>3
  <2> QED BY <1>3, <2>2, <2>4 DEF Filed
<1> QED BY <1>4, <1>5

(* The width of a topology whose agents each have a column.                *)
LEMMA OneWide ==
  ASSUME NEW es, NEW layout, NEW col, col = AgentColumns(es), NEW agents, agents = DOMAIN col, Single(col)
  PROVE  WorkflowTopology(es, layout, agents).width = 1
<1>1. PICK layers : layers = Layers(es, agents) OBVIOUS
<1>2. Layered(layers, es, col) BY <1>1, LayersAre
<1>3. \A c \in DOMAIN layers : Cardinality(layers[c].agents) = 1
  <2> TAKE c \in DOMAIN layers
  <2>1. PICK b \in DOMAIN col : c = col[b] BY <1>2 DEF Layered
  <2>2. layers[c].agents = {d \in DOMAIN col : col[d] = c} BY <1>2 DEF Layered
  <2>3. layers[c].agents = {b} BY <2>1, <2>2 DEF Single
  <2> QED BY <2>3, FS_Singleton
<1>4. {Cardinality(layers[c].agents) : c \in DOMAIN layers} \cup {1} = {1} BY <1>3
<1>5. LargestOf({1}) = 1 BY DEF LargestOf
<1>6. WorkflowTopology(es, layout, agents).width
        = LargestOf({Cardinality(layers[c].agents) : c \in DOMAIN layers} \cup {1})
  BY <1>1 DEF WorkflowTopology
<1> QED BY <1>4, <1>5, <1>6

(* The diagrams of a run agree.                                            *)
LEMMA Agreeing ==
  ASSUME NEW W, NEW A, Actors(W, A), NEW es \in Seq(W), Sorted(es)
  PROVE  DiagramsAgree(es, "none")
<1>1. PICK n \in Nat : n = Len(es) OBVIOUS
<1>0. DOMAIN es = 1..n BY <1>1
<1>2. PICK agents : agents = AgentsOf(es) OBVIOUS
<1>3. PICK col : col = AgentColumns(es) OBVIOUS
<1>4. agents = DOMAIN col BY <1>2, <1>3, OrderlyColumns
<1>5. ASSUME InferLayout(es) = "linear", HandedOn(es)
      PROVE  WorkflowTopology(es, "none", agents).width = 1
  <2>1. Single(col)
    <3>1. CASE n = 0
      <4>1. agents = {}
        <5>1. DOMAIN es = {} BY <1>1, <3>1, <1>0
        <5> QED BY <1>2, <5>1 DEF AgentsOf
      <4> QED BY <1>4, <4>1 DEF Single
    <3>2. CASE n # 0
      <4>1. Filed(es, n) BY <1>1, <1>5, <3>2, LinearFiled
      <4> QED BY <1>1, <1>3, <3>2, <4>1, FiledColumns
    <3> QED BY <3>1, <3>2
  <2> QED BY <1>3, <1>4, <2>1, OneWide
<1>6. WorkflowTopology(es, "none", agents).layout = InferLayout(es) BY DEF WorkflowTopology
<1>7. Orderly(es) => \A a \in SendersOf(es) : NodeLabel(es, a) = ColumnLabel(es, agents, a)
  BY <1>2, LabelsAgree
<1>8. Orderly(es) /\ Once(es) =>
        \A g \in GraphEdges(es) : GraphPlace(es, g.from) < GraphPlace(es, g.to)
  BY ArrowsForward
<1> QED BY <1>2, <1>5, <1>6, <1>7, <1>8 DEF DiagramsAgree, HandedOn, Once

-----------------------------------------------------------------------------
(* The page of a run.                                                      *)

(* The hops of the trace and the class that was analysed for them.         *)
ClassOf(d, x) ==
  LET rows == Analysis(d)
      mine == {i \in DOMAIN rows : rows[i].hop = x}
  IN IF mine = {} THEN NoMl
     ELSE [label |-> rows[LargestOf(mine)].label, score |-> rows[LargestOf(mine)].score]
Traced(es, d) ==
  /\ DOMAIN es = 1..Len(HopsOf(d.run))
  /\ \A i \in DOMAIN es :
       LET h == HopsOf(d.run)[i] IN
       /\ es[i].hop = h.hop /\ es[i].from = h.from /\ es[i].to = h.to
       /\ es[i].drift = ClassOf(d, h.hop).label /\ es[i].score = ClassOf(d, h.hop).score

(* The hops of the trace are these.                                        *)
LEMMA TraceIs ==
  ASSUME NEW d, d.run \in RunsShown
  PROVE  TraceHops(d) = [i \in DOMAIN HopsOf(d.run) |-> TraceHops(d)[i]] /\ Traced(TraceHops(d), d)
<1> DEFINE hs == HopsOf(d.run)
           t(h) == [h EXCEPT !.drift = ClassOf(d, h.hop).label, !.score = ClassOf(d, h.hop).score]
<1>1. TraceHops(d) = [i \in DOMAIN hs |-> t(hs[i])] BY DEF TraceHops, ClassOf
<1>2. DOMAIN hs = 1..Len(hs) BY DetailAssumption
<1>3. ASSUME NEW i \in DOMAIN hs
      PROVE  /\ t(hs[i]).hop = hs[i].hop /\ t(hs[i]).from = hs[i].from /\ t(hs[i]).to = hs[i].to
             /\ t(hs[i]).drift = ClassOf(d, hs[i].hop).label /\ t(hs[i]).score = ClassOf(d, hs[i].hop).score
  <2>1. {"hop", "from", "to", "drift", "score"} \subseteq DOMAIN hs[i] BY DetailAssumption
  <2> HIDE DEF hs
  <2> QED BY <2>1
<1> HIDE DEF t, hs
<1>4. Traced(TraceHops(d), d) BY <1>1, <1>2, <1>3 DEF Traced, hs
<1>5. TraceHops(d) = [i \in DOMAIN hs |-> TraceHops(d)[i]] BY <1>1
<1> QED BY <1>4, <1>5 DEF hs

(* They are sorted, and the diagrams agree on them.                        *)
LEMMA TraceAgrees ==
  ASSUME NEW d, d.run \in RunsShown
  PROVE  DiagramsAgree(TraceHops(d), "none")
<1>1. PICK es : es = TraceHops(d) OBVIOUS
<1>2. PICK n \in Nat : n = Len(HopsOf(d.run)) /\ DOMAIN HopsOf(d.run) = 1..n BY DetailAssumption
<1>3. /\ es = [i \in 1..n |-> es[i]]
      /\ \A i \in 1..n : es[i].hop = HopsOf(d.run)[i].hop /\ es[i].from = HopsOf(d.run)[i].from
  BY <1>1, <1>2, TraceIs DEF Traced
<1>4. PICK W : W = {es[i] : i \in 1..n} OBVIOUS
<1>5. PICK A : A = {es[i].from : i \in 1..n} \cup {es[i].to : i \in 1..n} OBVIOUS
<1>6. es \in Seq(W) /\ Len(es) = n
  <2>1. es \in [1..n -> W] BY <1>3, <1>4
  <2> QED BY <2>1
<1>7. \A i \in 1..n : /\ HopsOf(d.run)[i].hop \in Nat
                      /\ \E k \in DOMAIN Alphabet : Alphabet[k] = HopsOf(d.run)[i].from
  BY <1>2, DetailAssumption
<1>8. Actors(W, A) BY <1>3, <1>4, <1>5, <1>7 DEF Actors
<1>9. \A i \in 1..n : NameRank(es[i].from) \in Int
  <2> TAKE i \in 1..n
  <2>1. \E k \in DOMAIN Alphabet : Alphabet[k] = es[i].from BY <1>3, <1>7
  <2>2. NameRank(es[i].from) \in DOMAIN Alphabet BY <2>1 DEF NameRank
  <2> QED BY <2>2, DetailAssumption
<1>10. \A i, j \in 1..n : i < j => es[i].hop <= es[j].hop
  <2> TAKE i, j \in 1..n
  <2>1. i < j => HopsOf(d.run)[i].hop <= HopsOf(d.run)[j].hop BY <1>2, DetailAssumption
  <2> QED BY <1>3, <2>1
<1>11. Sorted(es) BY <1>3, <1>6, <1>7, <1>9, <1>10 DEF Sorted
<1> QED BY <1>1, <1>6, <1>8, <1>11, Agreeing

(* An index that was analysed with one result has that one everywhere.     *)
Twice(d, x) == \E i, j \in DOMAIN Analysis(d) :
                 Analysis(d)[i].hop = x /\ Analysis(d)[j].hop = x /\ Analysis(d)[i] # Analysis(d)[j]

(* Then its first analysis says what its last one does.                    *)
LEMMA OneClass ==
  ASSUME NEW d, d.run \in RunsShown, NEW h, ~Twice(d, h.hop)
  PROVE  FirstMl(d, h) = ClassOf(d, h.hop)
<1> DEFINE rows == Analysis(d)
           mine == {i \in DOMAIN rows : rows[i].hop = h.hop}
<1>1. PICK m \in Nat : DOMAIN rows = 1..m
  <2>1. CASE d.blamed BY <2>1, DetailAssumption DEF Analysis
  <2>2. CASE ~d.blamed
    <3>1. DOMAIN rows = 1..0 BY <2>2 DEF Analysis
    <3> QED BY <3>1
  <2> QED BY <2>1, <2>2
<1>2. CASE mine = {} BY <1>2 DEF FirstMl, ClassOf
<1>3. CASE mine # {}
  <2>1. mine \in SUBSET (1..m) /\ mine \in SUBSET Nat BY <1>1
  <2>2. SmallestOf(mine) \in mine
    <3> HIDE DEF mine
    <3>1. \E x \in mine : \A y \in mine : x <= y BY <1>3, <2>1, LowestIndex
    <3> QED BY <3>1 DEF SmallestOf
  <2>3. LargestOf(mine) \in mine
    <3> HIDE DEF mine
    <3>1. Max(mine) \in mine /\ \A y \in mine : Max(mine) >= y BY <1>1, <1>3, <2>1, Highest
    <3>2. \E x \in mine : \A y \in mine : y <= x BY <2>1, <3>1
    <3> QED BY <3>2 DEF LargestOf
  <2>4. rows[SmallestOf(mine)] = rows[LargestOf(mine)] BY <2>2, <2>3 DEF Twice
  <2>5. FirstMl(d, h) = [label |-> rows[SmallestOf(mine)].label, score |-> rows[SmallestOf(mine)].score]
    BY <1>3 DEF FirstMl
  <2>6. ClassOf(d, h.hop) = [label |-> rows[LargestOf(mine)].label, score |-> rows[LargestOf(mine)].score]
    BY <1>3 DEF ClassOf
  <2> QED BY <2>4, <2>5, <2>6
<1> QED BY <1>2, <1>3

(* Where no drift was found nothing is told of its kind.                   *)
LEMMA Undrifted ==
  ASSUME NEW h, NEW ctx, NEW ml, h.drift \in {Unlabelled, "none"}, ml.label \in {Unlabelled, h.drift}
  PROVE  DisplayDrift(h, ctx, ml) = Unlabelled
<1>1. (IF ml.label # Unlabelled THEN ml.label ELSE h.drift) = h.drift OBVIOUS
<1>2. h.drift \notin {"severity_underrate", "domain_mismatch"} BY DEF Unlabelled
<1> QED BY <1>1, <1>2 DEF DisplayDrift

(* Then the confidence is told of alike whatever the class.                *)
LEMMA ConfidenceAlike ==
  ASSUME NEW h, NEW ctx, NEW m1, NEW m2,
         DisplayDrift(h, ctx, m1) = Unlabelled, DisplayDrift(h, ctx, m2) = Unlabelled
  PROVE  /\ ConfidenceSummary(h, ctx, m1) = ConfidenceSummary(h, ctx, m2)
         /\ ConfidenceFactors(h, ctx, m1) = ConfidenceFactors(h, ctx, m2)
         /\ IntentSummary(h, ctx, m1) = IntentSummary(h, ctx, m2)
<1>1. ConfidenceSummary(h, ctx, m1) = ConfidenceSummary(h, ctx, m2) BY DEF ConfidenceSummary
<1>2. ConfidenceFactors(h, ctx, m1) = ConfidenceFactors(h, ctx, m2) BY DEF ConfidenceFactors
<1>3. IntentSummary(h, ctx, m1) = IntentSummary(h, ctx, m2) BY DEF IntentSummary
<1> QED BY <1>1, <1>2, <1>3

(* What is told of the intent, besides that meaning was lost.              *)
Heard(h, ctx) ==
  LET If(condition, factor) == IF condition THEN {factor} ELSE {}
  IN UNION {
      {"measure", "handed on"},
      If(ctx.goal /\ h.hop > 0, "goal"),
      If(h.input # "blank", "input"),
      If(h.output # "blank", "output"),
      If(PriorHas(ctx, "category"), "labeled upstream"),
      If(HasField(h, "severity"), "severity")}
Lost(h, ml) == IF Harm(h) >= 8 /\ ml.label = Unlabelled THEN {"lost meaning"} ELSE {}

(* They are the factors of a hop without drift.                            *)
LEMMA IntentHeard ==
  ASSUME NEW h, NEW ctx, NEW ml, DisplayDrift(h, ctx, ml) = Unlabelled
  PROVE  /\ IntentFactors(h, ctx, ml) = Heard(h, ctx) \cup Lost(h, ml)
         /\ "lost meaning" \notin Heard(h, ctx)
<1>1. IntentFactors(h, ctx, ml) = Heard(h, ctx) \cup Lost(h, ml) BY DEF IntentFactors, Heard, Lost
<1>2. "lost meaning" \notin Heard(h, ctx) BY DEF Heard
<1> QED BY <1>1, <1>2

(* What the class of the hop itself and that of its card tell.             *)
Silent(h) == IF h.drift = "none" /\ Harm(h) >= 8 THEN {"lost meaning"} ELSE {}

(* They tell the same, but for that.                                       *)
LEMMA ExplainedAlike ==
  ASSUME NEW h, NEW ctx, NEW ml, ml.label = h.drift, ml = [label |-> h.drift, score |-> h.score]
  PROVE  Explained(h, ctx, ml) = [Explained(h, ctx, CardMl(h)) EXCEPT !.intentFactors = @ \ Silent(h)]
<1>1. CASE h.drift \notin {Unlabelled, "none"}
  <2>1. CardMl(h) = ml /\ Silent(h) = {} BY <1>1 DEF CardMl, Silent
  <2>2. [Explained(h, ctx, ml) EXCEPT !.intentFactors = @ \ {}] = Explained(h, ctx, ml) BY DEF Explained
  <2> QED BY <2>1, <2>2
<1>2. CASE h.drift \in {Unlabelled, "none"}
  <2>1. CardMl(h).label = Unlabelled BY <1>2 DEF CardMl, NoMl
  <2>2. DisplayDrift(h, ctx, ml) = Unlabelled /\ DisplayDrift(h, ctx, CardMl(h)) = Unlabelled
    BY <1>2, <2>1, Undrifted
  <2>3. /\ IntentFactors(h, ctx, ml) = Heard(h, ctx) \cup Lost(h, ml)
        /\ IntentFactors(h, ctx, CardMl(h)) = Heard(h, ctx) \cup Lost(h, CardMl(h))
        /\ "lost meaning" \notin Heard(h, ctx)
    BY <2>2, IntentHeard
  <2>4. Lost(h, ml) = Lost(h, CardMl(h)) \ Silent(h) BY <1>2, <2>1 DEF Lost, Silent, Unlabelled
  <2>5. Silent(h) \subseteq {"lost meaning"} BY DEF Silent
  <2>6. IntentFactors(h, ctx, ml) = IntentFactors(h, ctx, CardMl(h)) \ Silent(h)
    BY <2>3, <2>4, <2>5
  <2>7. /\ ConfidenceSummary(h, ctx, ml) = ConfidenceSummary(h, ctx, CardMl(h))
        /\ ConfidenceFactors(h, ctx, ml) = ConfidenceFactors(h, ctx, CardMl(h))
        /\ IntentSummary(h, ctx, ml) = IntentSummary(h, ctx, CardMl(h))
    BY <2>2, ConfidenceAlike
  <2> QED BY <2>6, <2>7 DEF Explained
<1> QED BY <1>1, <1>2

(* The hop whose details are shown of an agent is one of the trace's.      *)
ShownOf(es, a) == FirstEdge(es, LAMBDA e : e.from = a)

(* It has the class that was analysed for its index.                       *)
LEMMA ShownHop ==
  ASSUME NEW d, d.run \in RunsShown, NEW es, es = TraceHops(d), NEW a \in SendersOf(es)
  PROVE  [label |-> ShownOf(es, a).drift, score |-> ShownOf(es, a).score] = ClassOf(d, ShownOf(es, a).hop)
<1>1. PICK n \in Nat : n = Len(HopsOf(d.run)) BY DetailAssumption
<1>2. DOMAIN es = 1..n /\ \A i \in 1..n : /\ es[i].hop = HopsOf(d.run)[i].hop
                                           /\ es[i].drift = ClassOf(d, es[i].hop).label
                                           /\ es[i].score = ClassOf(d, es[i].hop).score
  BY <1>1, TraceIs DEF Traced
<1> DEFINE S == {i \in 1..n : es[i].from = a}
<1>3. S \in SUBSET Nat /\ S # {} BY <1>2 DEF SendersOf
<1>4. PICK x \in S : \A y \in S : x <= y BY <1>3, LowestIndex
<1>5. \A j \in 1..(x - 1) : ~(es[j].from = a)
  <2> TAKE j \in 1..(x - 1)
  <2>1. j \in 1..n /\ ~(x <= j) BY <1>1, <1>4
  <2> QED BY <1>4, <2>1
<1>6. \E i \in DOMAIN es : es[i].from = a /\ \A j \in 1..(i - 1) : ~(es[j].from = a)
  BY <1>2, <1>4, <1>5
<1>7. PICK i \in DOMAIN es : ShownOf(es, a) = es[i]
  BY <1>6 DEF FirstEdge, ShownOf
<1>8. \A y : ClassOf(d, y) = [label |-> ClassOf(d, y).label, score |-> ClassOf(d, y).score]
  <2>1. NoMl = [label |-> NoMl.label, score |-> NoMl.score] BY DEF NoMl
  <2> QED BY <2>1 DEF ClassOf
<1>9. [label |-> es[i].drift, score |-> es[i].score] = ClassOf(d, es[i].hop) BY <1>2, <1>7, <1>8
<1> QED BY <1>7, <1>9

(* The places of the page agree on a run that is on show.                  *)
Agreed(d) ==
  LET es == TraceHops(d)
      rows == Analysis(d)
  IN /\ DiagramsAgree(es, "none")
     /\ \A a \in SendersOf(es) :
         LET h == FirstEdge(es, LAMBDA e : e.from = a)
             card == CardTells(d, h)
             twice == \E i, j \in DOMAIN rows :
                         rows[i].hop = h.hop /\ rows[j].hop = h.hop /\ rows[i] # rows[j]
             unsaid == IF h.drift = "none" /\ Harm(h) >= 8 THEN {"lost meaning"} ELSE {}
         IN /\ twice \/ TooltipTells(d, h) = Brief(card)
            /\ \/ PanelTells(d, h) = [card EXCEPT !.intentFactors = @ \ unsaid]
               \/ twice \/ InDomain(d, Profile(d)) # InDomain(d, Unlabelled)

(* A hop with one class is told of alike.                                  *)
LEMMA ToldAlike ==
  ASSUME NEW d, d.run \in RunsShown, NEW h, ~Twice(d, h.hop),
         [label |-> h.drift, score |-> h.score] = ClassOf(d, h.hop)
  PROVE  /\ TooltipTells(d, h) = Brief(CardTells(d, h))
         /\ InDomain(d, Profile(d)) = InDomain(d, Unlabelled) =>
              PanelTells(d, h) = [CardTells(d, h) EXCEPT !.intentFactors = @ \ Silent(h)]
<1>1. PICK ml : ml = FirstMl(d, h) OBVIOUS
<1>2. ml = [label |-> h.drift, score |-> h.score] /\ ml.label = h.drift
  <2>1. ml = [label |-> h.drift, score |-> h.score] BY <1>1, OneClass
  <2> QED BY <2>1
<1>3. \A ctx : Explained(h, ctx, ml) = [Explained(h, ctx, CardMl(h)) EXCEPT !.intentFactors = @ \ Silent(h)]
  BY <1>2, ExplainedAlike
<1>4. Told(d, h, Profile(d), ml) = [CardTells(d, h) EXCEPT !.intentFactors = @ \ Silent(h)]
  BY <1>3 DEF Told, CardTells
<1>5. TooltipTells(d, h) = Brief(CardTells(d, h))
  <2>1. PICK c : c = CardTells(d, h) OBVIOUS
  <2>2. DOMAIN c = {"confidence", "confidenceFactors", "pct", "intent", "intentFactors"}
    BY <2>1 DEF CardTells, Told, Explained
  <2>3. Brief([c EXCEPT !.intentFactors = @ \ Silent(h)]) = Brief(c) BY <2>2 DEF Brief
  <2> QED BY <1>1, <1>4, <2>1, <2>3 DEF TooltipTells
<1>6. ASSUME InDomain(d, Profile(d)) = InDomain(d, Unlabelled)
      PROVE  PanelTells(d, h) = [CardTells(d, h) EXCEPT !.intentFactors = @ \ Silent(h)]
  <2>1. PanelTells(d, h) = Told(d, h, Profile(d), ml) BY <1>1, <1>6 DEF PanelTells, Told
  <2> QED BY <1>4, <2>1
<1> QED BY <1>5, <1>6

(* They do on every run.                                                   *)
LEMMA RunAgreed == ASSUME NEW d, d.run \in RunsShown PROVE Agreed(d)
<1>1. PICK es : es = TraceHops(d) OBVIOUS
<1>2. DiagramsAgree(es, "none") BY <1>1, TraceAgrees
<1>3. ASSUME NEW a \in SendersOf(es), NEW h, h = ShownOf(es, a), ~Twice(d, h.hop)
      PROVE  /\ TooltipTells(d, h) = Brief(CardTells(d, h))
             /\ \/ PanelTells(d, h) = [CardTells(d, h) EXCEPT !.intentFactors = @ \ Silent(h)]
                \/ InDomain(d, Profile(d)) # InDomain(d, Unlabelled)
  <2>1. [label |-> ShownOf(es, a).drift, score |-> ShownOf(es, a).score] = ClassOf(d, ShownOf(es, a).hop)
    BY <1>1, <1>3, ShownHop
  <2>2. [label |-> h.drift, score |-> h.score] = ClassOf(d, h.hop) BY <1>3, <2>1
  <2> QED BY <1>3, <2>2, ToldAlike
<1> QED BY <1>1, <1>2, <1>3 DEF Agreed, Twice, Silent, ShownOf

(* ViewsAgree: the diagrams of the run on show agree on where its agents   *)
(* are, and the trace, the tooltip and the panel of the graph explain its  *)
(* hops alike, with the exceptions that ViewsAgree names                   *)
(* (apps/web/src/views/RunDetailView.tsx, components/CausalGraph.tsx).     *)
THEOREM ViewsAlike == DetailSpec => []ViewsAgree
<1>1. PanelsInv => ViewsAgree
  <2> SUFFICES ASSUME PanelsInv, detail.run # NoRun PROVE Agreed(detail) BY DEF ViewsAgree, Agreed
  <2>1. detail.run \in RunsShown BY DEF PanelsInv
  <2> QED BY <2>1, RunAgreed
<1> QED BY <1>1, PanelsInvariant, PTL

-----------------------------------------------------------------------------
(* The areas of Reports are apart: a report, the goal and, but for the     *)
(* area that only looks at runs made up for their diagrams, the page of a  *)
(* run take the steps of their own specifications, of which the theorems   *)
(* above are.                                                              *)
THEOREM ReportsApart ==
  ReportsSpec => ReportingSpec /\ GoalSpec /\ (area # "views" => DetailSpec)
<1>1. ReportsInit => ReportingInit /\ GoalInit /\ DetailInit BY DEF ReportsInit
<1>2. [ReportsNext]_reportsVars => [ReportingNext]_reportingVars
  <2> SUFFICES ASSUME [ReportsNext]_reportsVars PROVE [ReportingNext]_reportingVars OBVIOUS
  <2>1. CASE ReportingNext BY <2>1
  <2>2. CASE UNCHANGED reportingVars BY <2>2
  <2> QED BY <2>1, <2>2 DEF ReportsNext, reportsVars
<1>3. [ReportsNext]_reportsVars => [GoalNext]_goalVars
  <2> SUFFICES ASSUME [ReportsNext]_reportsVars PROVE [GoalNext]_goalVars OBVIOUS
  <2>1. CASE GoalNext BY <2>1
  <2>2. CASE UNCHANGED goalVars BY <2>2
  <2> QED BY <2>1, <2>2 DEF ReportsNext, reportsVars
<1>4. [ReportsNext]_reportsVars /\ area # "views" => [DetailNext]_detailVars
  <2> SUFFICES ASSUME [ReportsNext]_reportsVars, area # "views" PROVE [DetailNext]_detailVars OBVIOUS
  <2>1. CASE DetailNext BY <2>1
  <2>2. CASE UNCHANGED detailVars BY <2>2
  <2> QED BY <2>1, <2>2 DEF ReportsNext, reportsVars
<1>5. [ReportsNext]_reportsVars /\ area # "views" => (area # "views")'
  BY DEF ReportsNext, reportsVars
<1> QED BY <1>1, <1>2, <1>3, <1>4, <1>5, PTL DEF ReportsSpec, ReportingSpec, GoalSpec, DetailSpec
=============================================================================

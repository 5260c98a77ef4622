--------------------------- MODULE AgentSide_proofs ---------------------------
(*************************************************************************)
(* Theorems about what runs beside an agent, for any tasks, confidences, *)
(* agents and ids, any accept level and any number of runs, calls and    *)
(* requests.  Of the emitter: each run that was started has an end, tokens*)
(* are counted by their own hop and at most one other, and a success passes*)
(* over no low hop that was there when the gate judged.  Of traced calls:*)
(* frames and sources are right while calls nest.  Of the Python transport:*)
(* only the disk disorders or repeats, and what is lost has its reason.  *)
(* Of the MCP proxy: each answered call has its hop, and no error of     *)
(* another call is passed over.                                          *)
(*************************************************************************)
EXTENDS AgentSide, FiniteSetTheorems, SequenceTheorems, WellFoundedInduction, TLAPS

(*************************************************************************)
(* The emitter.  The first lemmas are about the gate alone; the invariant*)
(* has a part for each of the three properties, on top of the types.     *)
(*************************************************************************)
(* A nonempty set of naturals has a least element, which is its Min.       *)
LEMMA MinOfNats ==
  ASSUME NEW T \in SUBSET Nat, T # {}
  PROVE  Min(T) \in T /\ \A k \in T : Min(T) <= k
<1> DEFINE less == OpToRel(<, Nat)
<1>1. IsWellFoundedOn(less, Nat) BY NatLessThanWellFounded, Zenon
<1>2. \A x, y \in Nat : y < x => <<y, x>> \in less BY Zenon DEF OpToRel
<1> HIDE DEF less
<1>3. PICK x \in T : \A y \in T : ~(<<y, x>> \in less)
  <2>1. \E x \in T : \A y \in T : ~(<<y, x>> \in less) BY <1>1, WFMin, Zenon
  <2> QED BY <2>1
<1>4. \A k \in T : x \in Nat /\ k \in Nat /\ ~(k < x) BY <1>2, <1>3
<1>5. \A k \in T : x <= k BY <1>4
<1> QED BY <1>3, <1>5 DEF Min

LEMMA MaxOfTwo ==
  ASSUME NEW a \in Nat, NEW b \in Nat
  PROVE  Max({a, b}) \in Nat /\ Max({a, b}) = IF a >= b THEN a ELSE b
BY DEF Max

(* A hop as the gate sees it.                                              *)
GateHop == [index : Nat, conf : Nat]

(* WeakestHop() has an answer, and no hop is below it.                     *)
LEMMA WeakestIsLowest ==
  ASSUME NEW h \in Seq(GateHop), h # <<>>
  PROVE  /\ WeakestHop(h) \in DOMAIN h
         /\ \A i \in DOMAIN h : h[WeakestHop(h)].conf <= h[i].conf
<1> DEFINE confs  == {h[i].conf : i \in DOMAIN h}
           lowest == Min(confs)
           weak   == {i \in DOMAIN h : h[i].conf = lowest}
           before(i, j) == h[i].index < h[j].index \/ (h[i].index = h[j].index /\ i < j)
           first  == Min({h[i].index : i \in weak})
           early  == {i \in weak : h[i].index = first}
<1>1. DOMAIN h \subseteq Nat /\ 1 \in DOMAIN h OBVIOUS
<1>2. \A i \in DOMAIN h : h[i].conf \in Nat /\ h[i].index \in Nat
  <2> TAKE i \in DOMAIN h
  <2>1. h[i] \in GateHop OBVIOUS
  <2> QED BY <2>1 DEF GateHop
<1>3. confs \in SUBSET Nat /\ confs # {} BY <1>1, <1>2
<1>4. lowest \in confs /\ \A k \in confs : lowest <= k BY <1>3, MinOfNats
<1> HIDE DEF confs, lowest
<1>5. \A i \in DOMAIN h : lowest <= h[i].conf BY <1>4 DEF confs
<1>6. weak \subseteq DOMAIN h /\ weak # {} BY <1>4 DEF confs
<1>7. {h[i].index : i \in weak} \in SUBSET Nat /\ {h[i].index : i \in weak} # {} BY <1>2, <1>6
<1>8. first \in {h[i].index : i \in weak} /\ \A i \in weak : first <= h[i].index
  <2> DEFINE indices == {h[i].index : i \in weak}
  <2>1. indices \in SUBSET Nat /\ indices # {} BY <1>7
  <2> HIDE DEF indices
  <2>2. Min(indices) \in indices /\ \A k \in indices : Min(indices) <= k BY <2>1, MinOfNats
  <2> QED BY <2>2 DEF indices
<1> HIDE DEF first
<1>9. early \in SUBSET Nat /\ early # {} BY <1>1, <1>6, <1>8
<1>10. Min(early) \in early /\ \A j \in early : Min(early) <= j BY <1>9, MinOfNats
<1>11. \A j \in weak \ {Min(early)} : before(Min(early), j)
  <2> TAKE j \in weak \ {Min(early)}
  <2> DEFINE i == Min(early)
  <2>1. /\ i \in weak /\ h[i].index = first /\ first <= h[j].index
        /\ i \in Nat /\ j \in Nat /\ i # j
        /\ (j \in early => i <= j)
        /\ first \in Nat /\ h[j].index \in Nat
    BY <1>1, <1>2, <1>6, <1>8, <1>10
  <2>2. CASE h[j].index = first
    <3>1. i < j BY <2>1, <2>2
    <3> QED BY <2>1, <2>2, <3>1
  <2>3. CASE h[j].index # first
    <3>1. h[i].index < h[j].index BY <2>1, <2>3
    <3> QED BY <3>1
  <2> QED BY <2>2, <2>3
<1>12. \E i \in weak : \A j \in weak \ {i} : before(i, j) BY <1>10, <1>11
<1>13. WeakestHop(h) = CHOOSE i \in weak : \A j \in weak \ {i} : before(i, j)
  BY DEF WeakestHop, lowest, confs
<1>14. WeakestHop(h) \in weak BY <1>12, <1>13
<1> QED BY <1>5, <1>14

(* A gate in mode min that is passed has no hop below the level.           *)
LEMMA PassedMin ==
  ASSUME NEW level \in Nat, NEW h \in Seq(GateHop),
         EvaluateGate(level, "min", h).passed
  PROVE  \A i \in DOMAIN h : h[i].conf >= level
<1>1. CASE h = <<>> BY <1>1
<1>2. CASE h # <<>>
  <2>1. EvaluateGate(level, "min", h).passed = (h[WeakestHop(h)].conf >= level)
    BY <1>2 DEF EvaluateGate, MeasuredHop, Otherwise, Absent
  <2>2. WeakestHop(h) \in DOMAIN h /\ \A i \in DOMAIN h : h[WeakestHop(h)].conf <= h[i].conf
    BY <1>2, WeakestIsLowest
  <2>3. \A i \in DOMAIN h : h[i].conf \in Nat
    <3> TAKE i \in DOMAIN h
    <3>1. h[i] \in GateHop OBVIOUS
    <3> QED BY <3>1 DEF GateHop
  <2> TAKE i \in DOMAIN h
  <2>4. h[WeakestHop(h)].conf <= h[i].conf /\ h[WeakestHop(h)].conf >= level BY <2>1, <2>2
  <2>5. h[WeakestHop(h)].conf \in Nat /\ h[i].conf \in Nat BY <2>2, <2>3
  <2> QED BY <2>4, <2>5
<1> QED BY <1>1, <1>2
-----------------------------------------------------------------------------
(* The states of the emitter.  A task that waits for the provider has a    *)
(* call, one that is about to emit that call's hop its tokens, and one     *)
(* that completes a run what the gate judged.                              *)
State == [run : Nat, hopIndex : Nat, hops : Seq(GateHop), epoch : Nat]
Edge == [run : Nat, epoch : Nat, conf : Nat, own : Nat, attached : Nat]
Completing ==
  [pc : {"flush", "post"}, status : {"success", "failed"}, gated : BOOLEAN, judged : Nat,
   posted : Nat, forgot : Nat, epoch : Nat, edges : Nat]
Work ==
  {NoWork} \cup [pc : {"provider"}, api : {"openai", "anthropic"}, call : Nat]
           \cup [pc : {"signals"}, own : Nat] \cup Completing

EmitterTypes ==
  /\ state \in State
  /\ usage \in Seq(Nat)
  /\ work \in [AllTasks -> Work]
  /\ sent \in Seq(Edge)
  /\ completions \subseteq Completing
  /\ operations \in Nat /\ begun \in Nat
  /\ exit \in [alive : BOOLEAN, handler : {"armed", "none", "ran"},
              interrupted : BOOLEAN, failed : BOOLEAN]

(* The LLM call whose answer task t waits for, and the one whose tokens it *)
(* has and has not emitted: 0 if there is none.                            *)
CallOf(t) == IF work[t].pc = "provider" THEN work[t].call ELSE 0
OwnOf(t)  == IF work[t].pc = "signals" THEN work[t].own ELSE 0

(* Calls are numbered by operations; the usage that is recorded is of      *)
(* different calls, of which no edge has been given the usage, and the     *)
(* tokens that tasks have are of different calls, of which there is no     *)
(* hop.                                                                    *)
Tokens ==
  /\ \A i \in DOMAIN usage : usage[i] <= operations
  /\ \A i, j \in DOMAIN usage : i < j /\ usage[i] # 0 => usage[i] # usage[j]
  /\ \A i \in DOMAIN sent : sent[i].own <= operations /\ sent[i].attached <= operations
  /\ \A i \in DOMAIN sent, j \in DOMAIN usage : sent[i].attached # 0 => sent[i].attached # usage[j]
  /\ \A t \in AllTasks : CallOf(t) <= operations /\ OwnOf(t) <= operations
  /\ \A t \in AllTasks : CallOf(t) # 0 =>
       /\ \A j \in DOMAIN usage : usage[j] # CallOf(t)
       /\ \A i \in DOMAIN sent : sent[i].own # CallOf(t) /\ sent[i].attached # CallOf(t)
       /\ \A u \in AllTasks : OwnOf(u) # CallOf(t) /\ (u # t => CallOf(u) # CallOf(t))
  /\ \A t \in AllTasks : OwnOf(t) # 0 =>
       /\ \A i \in DOMAIN sent : sent[i].own # OwnOf(t)
       /\ \A u \in AllTasks \ {t} : OwnOf(u) # OwnOf(t)
  /\ OnlyHopRecounted

(* Each edge of the present start of a run is a hop the gate will see.     *)
Seen(edges, s) ==
  \A i \in DOMAIN edges :
    /\ edges[i].epoch <= s.epoch
    /\ edges[i].epoch = s.epoch => \E j \in DOMAIN s.hops : s.hops[j].conf = edges[i].conf

(* What is under way to complete a run, or has, as a success under the     *)
(* gate in mode min: each edge that was there when the gate judged, of the *)
(* same start of a run, reaches the level.                                 *)
Sound(w, edges) ==
  /\ w.edges <= Len(edges)
  /\ GateMode = "min" /\ w.status = "success" /\ w.gated =>
       \A i \in DOMAIN edges :
         i <= w.edges /\ edges[i].epoch = w.epoch => edges[i].conf >= AcceptLevel

Judging ==
  /\ Seen(sent, state)
  /\ \A t \in AllTasks : work[t].pc \in {"flush", "post"} => Sound(work[t], sent)
  /\ \A c \in completions : Sound(c, sent)

(* Run r was replaced, or completed, or forgotten with another.            *)
Accounted(r, over, cs) ==
  r \in over \/ \E c \in cs : r = c.posted \/ (r = c.forgot /\ c.judged # r)

(* The runs that are judged were started, and when the run of the request  *)
(* is another than the one judged, the latter has its end already.         *)
Accounting ==
  /\ state.run \in 0..begun
  /\ \A r \in 1..begun : r = state.run \/ Accounted(r, replaced, completions)
  /\ \A t \in AllTasks : work[t].pc \in {"flush", "post"} => work[t].judged \in 1..begun
  /\ \A t \in AllTasks : work[t].pc = "post" =>
       work[t].posted = work[t].judged \/ Accounted(work[t].judged, replaced, completions)

(* Once the exit handler ran, no task works, and a run is left only while  *)
(* the handler waits for its completion, or when that failed.              *)
Finalizing ==
  /\ work[Finalizer].pc \in {"idle", "flush", "post"}
  /\ work[Finalizer] # NoWork => exit.handler = "ran"
  /\ exit.handler = "ran" =>
       /\ \A t \in Tasks : work[t] = NoWork
       /\ state.run = 0 \/ exit.failed \/ work[Finalizer].pc \in {"flush", "post"}
  /\ ~exit.alive /\ exit.handler # "none" /\ state.run # 0 => exit.interrupted \/ exit.failed

EmitterInv == EmitterTypes /\ Tokens /\ Judging /\ Accounting /\ Finalizing
-----------------------------------------------------------------------------
(* startRun() leaves a fresh state of one of the runs.                     *)
LEMMA BeginTypes ==
  ASSUME EmitterTypes, NEW r \in Nat, Begin(r)
  PROVE  begun' \in Nat /\ NewState(r) \in State
<1>1. state.epoch \in Nat BY DEF EmitterTypes, State
<1>2. NewState(r) \in State BY <1>1 DEF NewState, State
<1>3. begun \in Nat BY DEF EmitterTypes
<1>4. Max({begun, r}) \in Nat BY <1>3, MaxOfTwo
<1> QED BY <1>2, <1>4 DEF Begin

(* The state "if (!runId) startRun()" leaves.                              *)
LEMMA RunningTypes ==
  ASSUME EmitterTypes, EnsureRun
  PROVE  /\ begun' \in Nat /\ Running \in State
         /\ state.run # 0 => Running = state /\ begun' = begun /\ replaced' = replaced
         /\ state.run = 0 =>
              Running = NewState(begun + 1) /\ Running.epoch = state.epoch + 1 /\ Begin(begun + 1)
<1>1. CASE state.run = 0
  <2>1. Begin(begun + 1) BY <1>1 DEF EnsureRun, Fresh
  <2>2. begun + 1 \in Nat BY DEF EmitterTypes
  <2>3. begun' \in Nat /\ NewState(begun + 1) \in State BY <2>1, <2>2, BeginTypes
  <2>4. Running = NewState(begun + 1) BY <1>1 DEF Running, Fresh
  <2>5. NewState(begun + 1).epoch = state.epoch + 1 BY DEF NewState
  <2> QED BY <1>1, <2>1, <2>3, <2>4, <2>5
<1>2. CASE state.run # 0 BY <1>2 DEF EnsureRun, Running, EmitterTypes
<1> QED BY <1>1, <1>2

(* emitEdge() sends one edge, of the run as it then is, and adds its hop   *)
(* to those the gate will see.                                             *)
LEMMA EmitFacts ==
  ASSUME EmitterTypes, NEW explicit \in {Absent, 0}, NEW conf \in Confidences,
         NEW own \in Nat, NEW priced \in BOOLEAN, EmitEdge(explicit, conf, own, priced)
  PROVE  /\ EnsureRun /\ begun' \in Nat
         /\ state' \in State /\ state'.run = Running.run /\ state'.epoch = Running.epoch
         /\ \A j \in DOMAIN Running.hops :
              \E k \in DOMAIN state'.hops : state'.hops[k].conf = Running.hops[j].conf
         /\ \E k \in DOMAIN state'.hops : state'.hops[k].conf = conf
         /\ \E e \in Edge :
              /\ sent' = Append(sent, e)
              /\ e.epoch = Running.epoch /\ e.conf = conf /\ e.own = own
              /\ e.attached # 0 => own = 0 /\ usage # <<>> /\ e.attached = Head(usage)
<1> DEFINE s == Running
           index == Otherwise(explicit, s.hopIndex)
           h == [index |-> index, conf |-> conf]
           e == [run |-> s.run, epoch |-> s.epoch, conf |-> conf, own |-> own,
                 attached |-> IF Consumes(own) /\ ~priced THEN Head(usage) ELSE 0]
<1>1. /\ EnsureRun
      /\ state' = [s EXCEPT !.hopIndex = Max({s.hopIndex, index + 1}), !.hops = Append(s.hops, h)]
      /\ sent' = Append(sent, e)
  BY DEF EmitEdge
<1>2. begun' \in Nat /\ s \in State BY <1>1, RunningTypes
<1> HIDE DEF s
<1>3. s.run \in Nat /\ s.hopIndex \in Nat /\ s.hops \in Seq(GateHop) /\ s.epoch \in Nat
  BY <1>2 DEF State
<1>4. index \in Nat BY <1>3 DEF Otherwise, Absent
<1>5. conf \in Nat BY EmitterAssumption
<1>6. h \in GateHop BY <1>4, <1>5 DEF GateHop
<1>7. Max({s.hopIndex, index + 1}) \in Nat BY <1>3, <1>4, MaxOfTwo
<1> HIDE DEF h, index
<1>8. /\ state' \in State /\ state'.run = s.run /\ state'.epoch = s.epoch
      /\ state'.hops = Append(s.hops, h)
  <2> DEFINE hops == Append(s.hops, h)
             next == Max({s.hopIndex, index + 1})
  <2>1. hops \in Seq(GateHop) /\ next \in Nat BY <1>3, <1>6, <1>7
  <2>2. state' = [s EXCEPT !.hopIndex = next, !.hops = hops] BY <1>1
  <2> HIDE DEF hops, next
  <2>3. state' \in State /\ state'.run = s.run /\ state'.epoch = s.epoch /\ state'.hops = hops
    BY <1>2, <2>1, <2>2 DEF State
  <2> QED BY <2>3 DEF hops
<1>9. /\ \A j \in DOMAIN s.hops : j \in DOMAIN state'.hops /\ state'.hops[j] = s.hops[j]
      /\ Len(s.hops) + 1 \in DOMAIN state'.hops /\ state'.hops[Len(s.hops) + 1] = h
  BY <1>3, <1>6, <1>8
<1>10. h.conf = conf BY DEF h
<1>11. usage \in Seq(Nat) BY DEF EmitterTypes
<1>12. usage # <<>> => Head(usage) \in Nat BY <1>11
<1>13. e \in Edge BY <1>3, <1>5, <1>12 DEF Edge, Consumes
<1>14. /\ e.epoch = s.epoch /\ e.conf = conf /\ e.own = own
       /\ e.attached # 0 => own = 0 /\ usage # <<>> /\ e.attached = Head(usage)
  BY DEF Consumes
<1> HIDE DEF e
<1> QED BY <1>1, <1>2, <1>8, <1>9, <1>10, <1>13, <1>14 DEF s
-----------------------------------------------------------------------------
LEMMA ConsumeTypes ==
  ASSUME EmitterTypes, NEW own
  PROVE  ConsumeUsage(own) \in Seq(Nat)
BY DEF EmitterTypes, ConsumeUsage, Consumes

(* What a task waits for stays one of the kinds.                           *)
LEMMA WaitTypes ==
  ASSUME EmitterTypes, NEW t \in AllTasks, NEW w \in Work, Wait(t, w)
  PROVE  work' \in [AllTasks -> Work] /\ work'[t] = w /\ \A u \in AllTasks \ {t} : work'[u] = work[u]
<1>1. work \in [AllTasks -> Work] BY DEF EmitterTypes
<1> HIDE DEF Work
<1> QED BY <1>1 DEF Wait

LEMMA NoWorkTypes == NoWork \in Work /\ NoWork.pc = "idle"
BY DEF Work, NoWork

(* What a task that completes a run has.                                   *)
LEMMA CompletingTypes ==
  ASSUME EmitterTypes, NEW t \in AllTasks, work[t].pc \in {"flush", "post"}
  PROVE  work[t] \in Completing
<1>1. work[t] \in Work BY DEF EmitterTypes
<1> QED BY <1>1 DEF Work, NoWork

LEMMA ProviderTypes ==
  ASSUME EmitterTypes, NEW t \in AllTasks, work[t].pc = "provider"
  PROVE  work[t].call \in Nat
<1>1. work[t] \in Work BY DEF EmitterTypes
<1> QED BY <1>1 DEF Work, NoWork, Completing

LEMMA SignalsTypes ==
  ASSUME EmitterTypes, NEW t \in AllTasks, work[t].pc = "signals"
  PROVE  work[t].own \in Nat
<1>1. work[t] \in Work BY DEF EmitterTypes
<1> QED BY <1>1 DEF Work, NoWork, Completing

(* The gate's verdict, as completeRun() keeps it while it waits.           *)
LEMMA JudgeTypes ==
  ASSUME EmitterTypes, NEW t \in AllTasks, NEW b \in BOOLEAN, NEW skip \in BOOLEAN,
         Judge(t, b, skip)
  PROVE  /\ work'[t] \in Completing /\ work'[t].pc = "flush"
         /\ work'[t].edges = Len(sent) /\ work'[t].epoch = state.epoch
         /\ work'[t].status = RunOutcome(b, skip) /\ work'[t].gated = ~skip
         /\ work' \in [AllTasks -> Work]
         /\ \A u \in AllTasks \ {t} : work'[u] = work[u]
<1> DEFINE w == [pc |-> "flush", status |-> RunOutcome(b, skip),
                gated |-> ~skip, judged |-> state.run, posted |-> 0, forgot |-> 0,
                epoch |-> state.epoch, edges |-> Len(sent)]
<1>1. state.run \in Nat /\ state.epoch \in Nat /\ Len(sent) \in Nat BY DEF EmitterTypes, State
<1>2. RunOutcome(b, skip) \in {"success", "failed"} BY DEF RunOutcome
<1>3. w \in Completing BY <1>1, <1>2 DEF Completing
<1>4. /\ w.edges = Len(sent) /\ w.epoch = state.epoch /\ w.pc = "flush"
      /\ w.status = RunOutcome(b, skip) /\ w.gated = ~skip
  OBVIOUS
<1>5. w \in Work BY <1>3 DEF Work
<1>6. Wait(t, w) BY DEF Judge
<1> HIDE DEF w
<1> QED BY <1>3, <1>4, <1>5, <1>6, WaitTypes

LEMMA InitTypes == EmitterInit => EmitterTypes
<1> SUFFICES ASSUME EmitterInit PROVE EmitterTypes OBVIOUS
<1>1. state \in State BY DEF EmitterInit, BlamrState, State
<1>2. work \in [AllTasks -> Work] BY NoWorkTypes DEF EmitterInit
<1>3. exit \in [alive : BOOLEAN, handler : {"armed", "none", "ran"}, interrupted : BOOLEAN, failed : BOOLEAN]
  <2>1. PICK h \in {"armed", "none"} :
          exit = [alive |-> TRUE, handler |-> h, interrupted |-> FALSE, failed |-> FALSE]
    BY DEF EmitterInit
  <2> QED BY <2>1
<1> QED BY <1>1, <1>2, <1>3 DEF EmitterTypes, EmitterInit

(* The types are kept by every step.                                       *)
LEMMA NextTypes ==
  ASSUME EmitterTypes, [EmitterNext]_emitterVars PROVE EmitterTypes'
<1> USE DEF EmitterTypes
<1> DEFINE Exits == [alive : BOOLEAN, handler : {"armed", "none", "ran"},
                     interrupted : BOOLEAN, failed : BOOLEAN]
<1>1. ASSUME NEW t \in AllTasks, StartRun(t) PROVE EmitterTypes'
  <2>1. PICK r \in 1..Fresh : Begin(r) /\ state' = NewState(r) BY <1>1 DEF StartRun
  <2>2. r \in Nat BY <2>1 DEF Fresh
  <2>3. begun' \in Nat /\ state' \in State BY <2>1, <2>2, BeginTypes
  <2>4. UNCHANGED <<work, usage, sent, completions, exit>> /\ operations' = operations + 1
    BY <1>1 DEF StartRun, Operate
  <2> QED BY <2>3, <2>4
<1>2. ASSUME NEW t \in AllTasks, MarkHandoff(t) PROVE EmitterTypes'
  <2>1. EnsureRun /\ state' = Running BY <1>2 DEF MarkHandoff
  <2>2. begun' \in Nat /\ state' \in State BY <2>1, RunningTypes
  <2>3. UNCHANGED <<work, usage, sent, completions, exit>> /\ operations' = operations + 1
    BY <1>2 DEF MarkHandoff, Operate
  <2> QED BY <2>2, <2>3
<1>3. ASSUME NEW t \in AllTasks, RecordProviderUsage(t) PROVE EmitterTypes'
  BY <1>3 DEF RecordProviderUsage, Operate
<1>4. ASSUME NEW t \in AllTasks, EmitOwnEdge(t) PROVE EmitterTypes'
  <2>1. operations' = operations + 1 /\ UNCHANGED <<exit, work, completions>>
    BY <1>4 DEF EmitOwnEdge, Operate
  <2>2. PICK explicit \in {Absent, 0}, conf \in Confidences, own \in {0, operations'}, priced \in BOOLEAN :
          EmitEdge(explicit, conf, own, priced) /\ usage' = ConsumeUsage(own)
    BY <1>4 DEF EmitOwnEdge
  <2>3. own \in Nat BY <2>1
  <2>4. usage' \in Seq(Nat) BY <2>2, ConsumeTypes
  <2>5. begun' \in Nat /\ state' \in State /\ \E e \in Edge : sent' = Append(sent, e)
    BY <2>2, <2>3, EmitFacts
  <2>6. sent' \in Seq(Edge) BY <2>5
  <2> QED BY <2>1, <2>4, <2>5, <2>6
<1>5. ASSUME NEW t \in AllTasks, CallProvider(t) PROVE EmitterTypes'
  <2>1. EnsureRun /\ state' = Running BY <1>5 DEF CallProvider
  <2>2. begun' \in Nat /\ state' \in State BY <2>1, RunningTypes
  <2>3. UNCHANGED <<usage, sent, completions, exit>> /\ operations' = operations + 1
    BY <1>5 DEF CallProvider, Operate
  <2>4. PICK api \in {"openai", "anthropic"} : Wait(t, [pc |-> "provider", api |-> api, call |-> operations'])
    BY <1>5 DEF CallProvider
  <2>5. [pc |-> "provider", api |-> api, call |-> operations'] \in Work BY <2>3 DEF Work
  <2>6. work' \in [AllTasks -> Work] BY <2>4, <2>5, WaitTypes
  <2> QED BY <2>2, <2>3, <2>6
<1>6. ASSUME NEW t \in AllTasks, ProviderAnswers(t) PROVE EmitterTypes'
  <2>1. work[t].call \in Nat BY <1>6, ProviderTypes DEF ProviderAnswers
  <2>2. PICK reported \in {0, work[t].call} :
          /\ usage' = Append(usage, reported)
          /\ IF work[t].api = "openai" THEN Wait(t, [pc |-> "signals", own |-> reported]) ELSE Done(t)
    BY <1>6 DEF ProviderAnswers
  <2>3. reported \in Nat BY <2>1
  <2>4. [pc |-> "signals", own |-> reported] \in Work BY <2>3 DEF Work
  <2>5. work' \in [AllTasks -> Work] BY <2>2, <2>4, WaitTypes, NoWorkTypes DEF Done
  <2>6. usage' \in Seq(Nat) BY <2>2, <2>3
  <2> QED BY <1>6, <2>5, <2>6 DEF ProviderAnswers
<1>7. ASSUME NEW t \in AllTasks, ProviderFails(t) PROVE EmitterTypes'
  <2>1. work' \in [AllTasks -> Work] BY <1>7, WaitTypes, NoWorkTypes DEF ProviderFails, Done
  <2> QED BY <1>7, <2>1 DEF ProviderFails
<1>8. ASSUME NEW t \in AllTasks, EmitLlmHop(t) PROVE EmitterTypes'
  <2>1. work[t].own \in Nat BY <1>8, SignalsTypes DEF EmitLlmHop
  <2>2. PICK conf \in Confidences : EmitEdge(Absent, conf, work[t].own, FALSE) BY <1>8 DEF EmitLlmHop
  <2>3. begun' \in Nat /\ state' \in State /\ \E e \in Edge : sent' = Append(sent, e)
    BY <2>1, <2>2, EmitFacts
  <2>4. sent' \in Seq(Edge) BY <2>3
  <2>5. usage' \in Seq(Nat) BY <1>8, ConsumeTypes DEF EmitLlmHop
  <2>6. work' \in [AllTasks -> Work] BY <1>8, WaitTypes, NoWorkTypes DEF EmitLlmHop, Done
  <2> QED BY <1>8, <2>3, <2>4, <2>5, <2>6 DEF EmitLlmHop
<1>9. ASSUME NEW t \in AllTasks, CompleteRun(t) PROVE EmitterTypes'
  <2>1. PICK b \in BOOLEAN, skip \in BOOLEAN : Judge(t, b, skip) BY <1>9 DEF CompleteRun
  <2>2. work' \in [AllTasks -> Work] BY <2>1, JudgeTypes
  <2> QED BY <1>9, <2>1, <2>2 DEF CompleteRun, Operate, Judge
<1>10. ASSUME NEW t \in AllTasks, Post(t) PROVE EmitterTypes'
  <2> DEFINE w == [work[t] EXCEPT !.pc = "post", !.posted = state.run]
  <2>1. work[t] \in Completing BY <1>10, CompletingTypes DEF Post
  <2>2. state.run \in Nat BY DEF State
  <2>3. w \in Work BY <2>1, <2>2 DEF Completing, Work
  <2>4. Wait(t, w) BY <1>10 DEF Post
  <2> HIDE DEF w
  <2>5. work' \in [AllTasks -> Work] BY <2>3, <2>4, WaitTypes
  <2> QED BY <1>10, <2>5 DEF Post
<1>11. ASSUME NEW t \in AllTasks, PostAnswered(t) PROVE EmitterTypes'
  <2>1. work[t] \in Completing BY <1>11, CompletingTypes DEF PostAnswered
  <2>2. state.run \in Nat BY DEF State
  <2>3. [work[t] EXCEPT !.forgot = state.run] \in Completing BY <2>1, <2>2 DEF Completing
  <2>4. work' \in [AllTasks -> Work] BY <1>11, WaitTypes, NoWorkTypes DEF PostAnswered, Done
  <2>5. state' \in State BY <1>11 DEF PostAnswered, State
  <2>6. completions' \subseteq Completing BY <1>11, <2>3 DEF PostAnswered
  <2> QED BY <1>11, <2>4, <2>5, <2>6 DEF PostAnswered
<1>12. ASSUME NEW t \in AllTasks, PostFails(t) PROVE EmitterTypes'
  <2>1. work' \in [AllTasks -> Work] BY <1>12, WaitTypes, NoWorkTypes DEF PostFails, Done
  <2>2. state' \in State BY <1>12 DEF PostFails, RunAfterFailure, State
  <2>3. exit' \in Exits BY <1>12 DEF PostFails
  <2> QED BY <1>12, <2>1, <2>2, <2>3 DEF PostFails
<1>13. ASSUME BeforeExit PROVE EmitterTypes'
  <2>1. exit' \in Exits BY <1>13 DEF BeforeExit
  <2>2. Finalizer \in AllTasks BY DEF AllTasks
  <2>3. work' \in [AllTasks -> Work] BY <1>13, <2>2, JudgeTypes DEF BeforeExit
  <2> QED BY <1>13, <2>1, <2>3 DEF BeforeExit, Judge
<1>14. ASSUME Exit \/ Interrupt PROVE EmitterTypes'
  <2>1. exit' \in Exits BY <1>14 DEF Exit, Interrupt
  <2> QED BY <1>14, <2>1 DEF Exit, Interrupt
<1>15. ASSUME UNCHANGED emitterVars PROVE EmitterTypes'
  BY <1>15 DEF emitterVars
<1> QED
  BY <1>1, <1>2, <1>3, <1>4, <1>5, <1>6, <1>7, <1>8, <1>9, <1>10, <1>11, <1>12, <1>13, <1>14, <1>15
  DEF EmitterNext
-----------------------------------------------------------------------------
(* A task forgets its call or its tokens, or keeps them.                   *)
Forgets(t) == CallOf(t)' \in {0, CallOf(t)} /\ OwnOf(t)' \in {0, OwnOf(t)}

LEMMA CallTypes ==
  ASSUME EmitterTypes, NEW t \in AllTasks PROVE CallOf(t) \in Nat /\ OwnOf(t) \in Nat
BY ProviderTypes, SignalsTypes DEF CallOf, OwnOf

(* Steps that record no usage and emit no edge.                            *)
LEMMA TokensQuiet ==
  ASSUME EmitterTypes, EmitterTypes', Tokens,
         usage' = usage, sent' = sent, operations' >= operations,
         \A t \in AllTasks : Forgets(t)
  PROVE  Tokens'
<1>1. operations \in Nat /\ operations' \in Nat BY DEF EmitterTypes
<1>2. \A i \in DOMAIN usage : usage[i] \in Nat BY DEF EmitterTypes
<1>3. \A i \in DOMAIN sent : sent[i].own \in Nat /\ sent[i].attached \in Nat
  <2> TAKE i \in DOMAIN sent
  <2>1. sent[i] \in Edge BY DEF EmitterTypes
  <2> QED BY <2>1 DEF Edge
<1>4. \A t \in AllTasks : CallOf(t) \in Nat /\ OwnOf(t) \in Nat BY CallTypes
<1>5. OnlyHopRecounted' BY DEF Tokens, OnlyHopRecounted
<1>6. \A t \in AllTasks : CallOf(t)' <= operations' /\ OwnOf(t)' <= operations'
  BY <1>1, <1>4 DEF Tokens, Forgets
<1>7. \A i \in DOMAIN usage : usage[i] <= operations' BY <1>1, <1>2 DEF Tokens
<1>8. \A i \in DOMAIN sent : sent[i].own <= operations' /\ sent[i].attached <= operations'
  BY <1>1, <1>3 DEF Tokens
<1> HIDE DEF OnlyHopRecounted, CallOf, OwnOf
<1> QED BY <1>5, <1>6, <1>7, <1>8 DEF Tokens, Forgets

(* Usage of a call that no task waits for any more is added.               *)
LEMMA TokensRecord ==
  ASSUME EmitterTypes, EmitterTypes', Tokens,
         NEW c \in Nat, c <= operations', usage' = Append(usage, c), sent' = sent,
         operations' >= operations,
         c # 0 => /\ \A j \in DOMAIN usage : usage[j] # c
                  /\ \A i \in DOMAIN sent : sent[i].attached # c
                  /\ \A t \in AllTasks : CallOf(t)' # c,
         \A t \in AllTasks : CallOf(t)' \in {0, CallOf(t)},
         \A t \in AllTasks : OwnOf(t)' # 0 =>
           /\ OwnOf(t)' <= operations'
           /\ \A i \in DOMAIN sent : sent[i].own # OwnOf(t)'
           /\ \A u \in AllTasks : CallOf(u)' # OwnOf(t)'
           /\ \A u \in AllTasks \ {t} : OwnOf(u)' # OwnOf(t)'
  PROVE  Tokens'
<1>1. operations \in Nat /\ operations' \in Nat BY DEF EmitterTypes
<1>2. \A j \in DOMAIN usage' : \/ j \in DOMAIN usage /\ usage'[j] = usage[j]
                               \/ j = Len(usage) + 1 /\ usage'[j] = c
  BY DEF EmitterTypes
<1>3. DOMAIN usage = 1..Len(usage) /\ DOMAIN usage' = 1..(Len(usage) + 1) /\ Len(usage) \in Nat
  BY DEF EmitterTypes
<1>4. \A i \in DOMAIN usage : usage[i] \in Nat BY DEF EmitterTypes
<1>5. \A i \in DOMAIN sent : sent[i].own \in Nat /\ sent[i].attached \in Nat
  <2> TAKE i \in DOMAIN sent
  <2>1. sent[i] \in Edge BY DEF EmitterTypes
  <2> QED BY <2>1 DEF Edge
<1>6. \A t \in AllTasks : CallOf(t) \in Nat BY CallTypes
<1> HIDE DEF CallOf, OwnOf
<1>7. \A i \in DOMAIN usage' : usage'[i] <= operations' BY <1>1, <1>2, <1>4 DEF Tokens
<1>8. \A i, j \in DOMAIN usage' : i < j /\ usage'[i] # 0 => usage'[i] # usage'[j]
  BY <1>2, <1>3 DEF Tokens
<1>9. \A i \in DOMAIN sent : sent[i].own <= operations' /\ sent[i].attached <= operations'
  BY <1>1, <1>5 DEF Tokens
<1>10. \A i \in DOMAIN sent, j \in DOMAIN usage' : sent[i].attached # 0 => sent[i].attached # usage'[j]
  BY <1>2 DEF Tokens
<1>11. \A t \in AllTasks : CallOf(t)' <= operations' /\ OwnOf(t)' <= operations'
  BY <1>1, <1>6 DEF Tokens
<1>12. \A t \in AllTasks : CallOf(t)' # 0 =>
         /\ \A j \in DOMAIN usage' : usage'[j] # CallOf(t)'
         /\ \A i \in DOMAIN sent : sent[i].own # CallOf(t)' /\ sent[i].attached # CallOf(t)'
         /\ \A u \in AllTasks : OwnOf(u)' # CallOf(t)' /\ (u # t => CallOf(u)' # CallOf(t)')
  BY <1>2 DEF Tokens
<1>13. OnlyHopRecounted' BY DEF Tokens, OnlyHopRecounted
<1> HIDE DEF OnlyHopRecounted
<1> QED BY <1>7, <1>8, <1>9, <1>10, <1>11, <1>12, <1>13 DEF Tokens

(* An edge is emitted with tokens of its own, or with the oldest usage.    *)
LEMMA TokensEmit ==
  ASSUME EmitterTypes, EmitterTypes', Tokens,
         NEW own \in Nat, NEW e \in Edge, sent' = Append(sent, e), e.own = own,
         e.attached # 0 => own = 0 /\ usage # <<>> /\ e.attached = Head(usage),
         usage' = ConsumeUsage(own), own <= operations', operations' >= operations,
         \A t \in AllTasks : Forgets(t),
         own # 0 => /\ \A i \in DOMAIN sent : sent[i].own # own
                    /\ \A t \in AllTasks : CallOf(t)' # own /\ OwnOf(t)' # own
  PROVE  Tokens'
<1>1. operations \in Nat /\ operations' \in Nat BY DEF EmitterTypes
<1>2. /\ DOMAIN sent = 1..Len(sent) /\ DOMAIN sent' = 1..(Len(sent) + 1) /\ Len(sent) \in Nat
      /\ \A i \in DOMAIN sent' : \/ i \in DOMAIN sent /\ sent'[i] = sent[i]
                                 \/ i = Len(sent) + 1 /\ sent'[i] = e
  BY DEF EmitterTypes
<1>3. \A i \in DOMAIN sent : sent[i].own \in Nat /\ sent[i].attached \in Nat
  <2> TAKE i \in DOMAIN sent
  <2>1. sent[i] \in Edge BY DEF EmitterTypes
  <2> QED BY <2>1 DEF Edge
<1> DEFINE d == IF own = 0 /\ usage # <<>> THEN 1 ELSE 0
<1>4. /\ d \in Nat
      /\ \A j \in DOMAIN usage' : j + d \in DOMAIN usage /\ usage'[j] = usage[j + d]
      /\ e.attached # 0 => d = 1 /\ 1 \in DOMAIN usage /\ e.attached = usage[1]
  <2>1. usage \in Seq(Nat) BY DEF EmitterTypes
  <2>2. CASE own = 0 /\ usage # <<>>
    <3>1. usage' = Tail(usage) /\ d = 1 BY <2>2 DEF ConsumeUsage, Consumes
    <3>2. /\ Len(usage) \in Nat \ {0} /\ DOMAIN usage = 1..Len(usage) /\ Head(usage) = usage[1]
          /\ DOMAIN Tail(usage) = 1..(Len(usage) - 1)
          /\ \A j \in 1..(Len(usage) - 1) : Tail(usage)[j] = usage[j + 1]
      BY <2>1, <2>2
    <3>3. \A j \in 1..(Len(usage) - 1) : j + 1 \in 1..Len(usage) BY <3>2
    <3>4. 1 \in 1..Len(usage) BY <3>2
    <3> HIDE DEF d
    <3> QED BY <3>1, <3>2, <3>3, <3>4
  <2>3. CASE ~(own = 0 /\ usage # <<>>)
    <3>1. usage' = usage /\ d = 0 BY <2>3 DEF ConsumeUsage, Consumes
    <3>2. \A j \in DOMAIN usage : j + 0 = j BY <2>1
    <3> HIDE DEF d
    <3> QED BY <2>3, <3>1, <3>2
  <2> QED BY <2>2, <2>3
<1> HIDE DEF d
<1>5. DOMAIN usage \subseteq Nat \ {0} /\ DOMAIN usage' \subseteq Nat \ {0} BY DEF EmitterTypes
<1>6. \A i \in DOMAIN usage : usage[i] \in Nat BY DEF EmitterTypes
<1>7. \A t \in AllTasks : CallOf(t) \in Nat /\ OwnOf(t) \in Nat BY CallTypes
<1>8. e.attached \in Nat BY DEF Edge
<1> HIDE DEF CallOf, OwnOf
<1>9. \A i \in DOMAIN usage' : usage'[i] <= operations' BY <1>1, <1>4, <1>6 DEF Tokens
<1>10. \A i, j \in DOMAIN usage' : i < j /\ usage'[i] # 0 => usage'[i] # usage'[j]
  <2> TAKE i, j \in DOMAIN usage'
  <2>1. i + d < j + d <=> i < j BY <1>4, <1>5
  <2> QED BY <1>4, <2>1 DEF Tokens
<1>11. \A i \in DOMAIN sent' : sent'[i].own <= operations' /\ sent'[i].attached <= operations'
  <2>1. \A i \in DOMAIN sent : sent[i].own <= operations' /\ sent[i].attached <= operations'
    BY <1>1, <1>3 DEF Tokens
  <2>2. e.attached <= operations'
    <3>1. CASE e.attached = 0 BY <1>1, <3>1
    <3>2. CASE e.attached # 0
      <4>1. e.attached <= operations BY <1>4, <3>2 DEF Tokens
      <4> QED BY <1>1, <1>8, <4>1
    <3> QED BY <3>1, <3>2
  <2> QED BY <1>2, <2>1, <2>2
<1>12. \A j \in DOMAIN usage' : e.attached # 0 => e.attached # usage'[j]
  <2> SUFFICES ASSUME NEW j \in DOMAIN usage', e.attached # 0 PROVE usage[1] # usage[j + 1]
    BY <1>4
  <2>1. 1 < j + 1 BY <1>5
  <2> QED BY <1>4, <2>1 DEF Tokens
<1>13. \A i \in DOMAIN sent', j \in DOMAIN usage' : sent'[i].attached # 0 => sent'[i].attached # usage'[j]
  <2>1. \A i \in DOMAIN sent, j \in DOMAIN usage' : sent[i].attached # 0 => sent[i].attached # usage'[j]
    BY <1>4 DEF Tokens
  <2> QED BY <1>2, <1>12, <2>1
<1>14. \A t \in AllTasks : CallOf(t)' <= operations' /\ OwnOf(t)' <= operations'
  BY <1>1, <1>7 DEF Tokens, Forgets
<1>15. ASSUME NEW t \in AllTasks, CallOf(t)' # 0
       PROVE  /\ \A j \in DOMAIN usage' : usage'[j] # CallOf(t)'
              /\ \A i \in DOMAIN sent' : sent'[i].own # CallOf(t)' /\ sent'[i].attached # CallOf(t)'
              /\ \A u \in AllTasks : OwnOf(u)' # CallOf(t)' /\ (u # t => CallOf(u)' # CallOf(t)')
  <2>1. CallOf(t)' = CallOf(t) BY <1>15 DEF Forgets
  <2>2. \A j \in DOMAIN usage' : usage'[j] # CallOf(t)' BY <1>4, <1>15, <2>1 DEF Tokens
  <2>3. e.own # CallOf(t)' /\ e.attached # CallOf(t)' BY <1>4, <1>15, <2>1 DEF Tokens
  <2>4. \A i \in DOMAIN sent : sent[i].own # CallOf(t)' /\ sent[i].attached # CallOf(t)'
    BY <1>15, <2>1 DEF Tokens
  <2>5. \A u \in AllTasks : OwnOf(u)' # CallOf(t)' /\ (u # t => CallOf(u)' # CallOf(t)')
    BY <1>15, <2>1 DEF Tokens, Forgets
  <2> QED BY <1>2, <2>2, <2>3, <2>4, <2>5
<1>16. ASSUME NEW t \in AllTasks, OwnOf(t)' # 0
       PROVE  /\ \A i \in DOMAIN sent' : sent'[i].own # OwnOf(t)'
              /\ \A u \in AllTasks \ {t} : OwnOf(u)' # OwnOf(t)'
  <2>1. OwnOf(t)' = OwnOf(t) BY <1>16 DEF Forgets
  <2>2. \A i \in DOMAIN sent : sent[i].own # OwnOf(t)' BY <1>16, <2>1 DEF Tokens
  <2>3. \A u \in AllTasks \ {t} : OwnOf(u)' # OwnOf(t)' BY <1>16, <2>1 DEF Tokens, Forgets
  <2> QED BY <1>2, <1>16, <2>2, <2>3
<1>17. OnlyHopRecounted'
  <2>1. \A i \in DOMAIN sent : /\ sent[i].own # 0 => sent[i].own # e.own
                               /\ sent[i].attached # 0 => e.attached # sent[i].attached
    BY <1>4 DEF Tokens
  <2>2. \A i, j \in DOMAIN sent' : i < j => i \in DOMAIN sent /\ sent'[i] = sent[i]
    BY <1>2
  <2> QED BY <1>2, <2>1, <2>2 DEF Tokens, OnlyHopRecounted
<1> HIDE DEF OnlyHopRecounted
<1> QED BY <1>9, <1>10, <1>11, <1>13, <1>14, <1>15, <1>16, <1>17 DEF Tokens

(* No task works on a call that it did not work on before.                 *)
LEMMA NothingNew ==
  ASSUME EmitterTypes
  PROVE  /\ work' = work => \A u \in AllTasks : Forgets(u)
         /\ \A t \in AllTasks, w \in Work :
              Wait(t, w) /\ w.pc \notin {"provider", "signals"} => \A u \in AllTasks : Forgets(u)
<1>1. work' = work => \A u \in AllTasks : Forgets(u) BY DEF Forgets, CallOf, OwnOf
<1>2. ASSUME NEW t \in AllTasks, NEW w \in Work, Wait(t, w), w.pc \notin {"provider", "signals"}
      PROVE  \A u \in AllTasks : Forgets(u)
  <2>1. work'[t] = w /\ \A u \in AllTasks \ {t} : work'[u] = work[u] BY <1>2, WaitTypes
  <2> HIDE DEF Work
  <2> QED BY <1>2, <2>1 DEF Forgets, CallOf, OwnOf
<1> QED BY <1>1, <1>2

(* A new LLM call is of a number that nothing has yet.                     *)
LEMMA TokensCall ==
  ASSUME EmitterTypes, EmitterTypes', Tokens, NEW t \in AllTasks, NEW w \in Work, Wait(t, w),
         w.pc = "provider", w.call = operations', operations' = operations + 1,
         usage' = usage, sent' = sent
  PROVE  Tokens'
<1>1. operations \in Nat BY DEF EmitterTypes
<1>2. work'[t] = w /\ \A u \in AllTasks \ {t} : work'[u] = work[u] BY WaitTypes
<1>3. /\ CallOf(t)' = operations + 1 /\ OwnOf(t)' = 0
      /\ \A u \in AllTasks \ {t} : CallOf(u)' = CallOf(u) /\ OwnOf(u)' = OwnOf(u)
  BY <1>2 DEF CallOf, OwnOf
<1>4. \A u \in AllTasks : /\ CallOf(u) \in Nat /\ CallOf(u) <= operations
                          /\ OwnOf(u) \in Nat /\ OwnOf(u) <= operations
  BY CallTypes DEF Tokens
<1>5. \A i \in DOMAIN usage : usage[i] \in Nat /\ usage[i] <= operations BY DEF EmitterTypes, Tokens
<1>6. \A i \in DOMAIN sent : /\ sent[i].own \in Nat /\ sent[i].own <= operations
                             /\ sent[i].attached \in Nat /\ sent[i].attached <= operations
  <2> TAKE i \in DOMAIN sent
  <2>1. sent[i] \in Edge BY DEF EmitterTypes
  <2> QED BY <2>1 DEF Edge, Tokens
<1> HIDE DEF CallOf, OwnOf, Work
<1>7. OnlyHopRecounted' BY DEF Tokens, OnlyHopRecounted
<1> HIDE DEF OnlyHopRecounted
<1>8. /\ \A i \in DOMAIN usage : usage[i] <= operations'
      /\ \A i \in DOMAIN sent : sent[i].own <= operations' /\ sent[i].attached <= operations'
      /\ \A u \in AllTasks : CallOf(u)' <= operations' /\ OwnOf(u)' <= operations'
  BY <1>1, <1>3, <1>4, <1>5, <1>6
<1>9. ASSUME NEW u \in AllTasks, CallOf(u)' # 0
      PROVE  /\ \A j \in DOMAIN usage : usage[j] # CallOf(u)'
             /\ \A i \in DOMAIN sent : sent[i].own # CallOf(u)' /\ sent[i].attached # CallOf(u)'
             /\ \A v \in AllTasks : OwnOf(v)' # CallOf(u)' /\ (v # u => CallOf(v)' # CallOf(u)')
  <2>1. CASE u = t
    <3>1. CallOf(u)' = operations + 1 BY <1>3, <2>1
    <3>2. \A j \in DOMAIN usage : usage[j] # operations + 1 BY <1>1, <1>5
    <3>3. \A i \in DOMAIN sent : sent[i].own # operations + 1 /\ sent[i].attached # operations + 1
      BY <1>1, <1>6
    <3>4. \A v \in AllTasks : /\ OwnOf(v)' # operations + 1
                              /\ v # t => CallOf(v)' # operations + 1
      BY <1>1, <1>3, <1>4
    <3> QED BY <2>1, <3>1, <3>2, <3>3, <3>4
  <2>2. CASE u # t
    <3>1. CallOf(u)' = CallOf(u) /\ CallOf(u) # 0 /\ CallOf(u) # operations + 1
      BY <1>1, <1>3, <1>4, <1>9, <2>2
    <3> QED BY <1>3, <2>2, <3>1 DEF Tokens
  <2> QED BY <2>1, <2>2
<1>10. ASSUME NEW u \in AllTasks, OwnOf(u)' # 0
       PROVE  /\ \A i \in DOMAIN sent : sent[i].own # OwnOf(u)'
              /\ \A v \in AllTasks \ {u} : OwnOf(v)' # OwnOf(u)'
  <2>1. u # t /\ OwnOf(u)' = OwnOf(u) BY <1>3, <1>10
  <2> QED BY <1>3, <1>10, <2>1 DEF Tokens
<1> QED BY <1>7, <1>8, <1>9, <1>10 DEF Tokens

LEMMA InitTokens == EmitterInit => Tokens
<1> SUFFICES ASSUME EmitterInit PROVE Tokens OBVIOUS
<1>1. usage = <<>> /\ sent = <<>> /\ operations = 0 BY DEF EmitterInit
<1>2. \A t \in AllTasks : CallOf(t) = 0 /\ OwnOf(t) = 0
  BY DEF EmitterInit, NoWork, CallOf, OwnOf
<1> QED BY <1>1, <1>2 DEF Tokens, OnlyHopRecounted

(* Each step keeps the tokens apart.                                       *)
LEMMA NextTokens ==
  ASSUME EmitterTypes, EmitterTypes', Tokens, [EmitterNext]_emitterVars PROVE Tokens'
<1>0. operations \in Nat /\ operations + 1 >= operations BY DEF EmitterTypes
<1>1. ASSUME NEW t \in AllTasks, StartRun(t) \/ MarkHandoff(t) PROVE Tokens'
  <2>1. UNCHANGED <<work, usage, sent>> /\ operations' = operations + 1
    BY <1>1 DEF StartRun, MarkHandoff, Operate
  <2> QED BY <1>0, <2>1, NothingNew, TokensQuiet
<1>2. ASSUME NEW t \in AllTasks, RecordProviderUsage(t) PROVE Tokens'
  <2>1. /\ UNCHANGED <<work, sent>> /\ operations' = operations + 1
        /\ usage' = Append(usage, operations')
    BY <1>2 DEF RecordProviderUsage, Operate
  <2>2. \A u \in AllTasks : CallOf(u)' = CallOf(u) /\ OwnOf(u)' = OwnOf(u)
    BY <2>1 DEF CallOf, OwnOf
  <2>3. \A u \in AllTasks : /\ CallOf(u) \in Nat /\ CallOf(u) <= operations
                            /\ OwnOf(u) \in Nat /\ OwnOf(u) <= operations
    BY CallTypes DEF Tokens
  <2>4. \A i \in DOMAIN usage : usage[i] \in Nat /\ usage[i] <= operations BY DEF EmitterTypes, Tokens
  <2>5. \A i \in DOMAIN sent : sent[i].attached \in Nat /\ sent[i].attached <= operations
    <3> TAKE i \in DOMAIN sent
    <3>1. sent[i] \in Edge BY DEF EmitterTypes
    <3> QED BY <3>1 DEF Edge, Tokens
  <2> HIDE DEF CallOf, OwnOf
  <2>6. operations' \in Nat /\ operations' <= operations' BY <1>0, <2>1
  <2>7. /\ \A j \in DOMAIN usage : usage[j] # operations'
        /\ \A i \in DOMAIN sent : sent[i].attached # operations'
        /\ \A u \in AllTasks : CallOf(u)' # operations'
    BY <1>0, <2>1, <2>2, <2>3, <2>4, <2>5
  <2>8. ASSUME NEW u \in AllTasks, OwnOf(u)' # 0
        PROVE  /\ OwnOf(u)' <= operations'
               /\ \A i \in DOMAIN sent : sent[i].own # OwnOf(u)'
               /\ \A v \in AllTasks : CallOf(v)' # OwnOf(u)'
               /\ \A v \in AllTasks \ {u} : OwnOf(v)' # OwnOf(u)'
    <3>1. OwnOf(u)' <= operations' BY <1>0, <2>1, <2>2, <2>3
    <3> QED BY <2>2, <2>8, <3>1 DEF Tokens
  <2> QED BY <1>0, <2>1, <2>2, <2>6, <2>7, <2>8, TokensRecord
<1>3. ASSUME NEW t \in AllTasks, EmitOwnEdge(t) PROVE Tokens'
  <2>1. operations' = operations + 1 /\ work' = work BY <1>3 DEF EmitOwnEdge, Operate
  <2>2. PICK explicit \in {Absent, 0}, conf \in Confidences, own \in {0, operations'}, priced \in BOOLEAN :
          EmitEdge(explicit, conf, own, priced) /\ usage' = ConsumeUsage(own)
    BY <1>3 DEF EmitOwnEdge
  <2>3. own \in Nat /\ own <= operations' BY <1>0, <2>1
  <2>4. PICK e \in Edge : /\ sent' = Append(sent, e) /\ e.own = own
                          /\ e.attached # 0 => own = 0 /\ usage # <<>> /\ e.attached = Head(usage)
    BY <2>2, <2>3, EmitFacts
  <2>5. own # 0 => /\ \A i \in DOMAIN sent : sent[i].own # own
                   /\ \A u \in AllTasks : CallOf(u)' # own /\ OwnOf(u)' # own
    <3> SUFFICES ASSUME own = operations + 1
                 PROVE  /\ \A i \in DOMAIN sent : sent[i].own # own
                        /\ \A u \in AllTasks : CallOf(u)' # own /\ OwnOf(u)' # own
      BY <2>1
    <3>1. \A u \in AllTasks : CallOf(u)' = CallOf(u) /\ OwnOf(u)' = OwnOf(u)
      BY <2>1 DEF CallOf, OwnOf
    <3>2. \A u \in AllTasks : /\ CallOf(u) \in Nat /\ CallOf(u) <= operations
                              /\ OwnOf(u) \in Nat /\ OwnOf(u) <= operations
      BY CallTypes DEF Tokens
    <3>3. \A i \in DOMAIN sent : sent[i].own \in Nat /\ sent[i].own <= operations
      <4> TAKE i \in DOMAIN sent
      <4>1. sent[i] \in Edge BY DEF EmitterTypes
      <4> QED BY <4>1 DEF Edge, Tokens
    <3> HIDE DEF CallOf, OwnOf
    <3> QED BY <1>0, <3>1, <3>2, <3>3
  <2>6. \A u \in AllTasks : Forgets(u) BY <2>1, NothingNew
  <2>7. operations' >= operations BY <1>0, <2>1
  <2>8. usage' = ConsumeUsage(own) BY <2>2
  <2> QED BY <2>3, <2>4, <2>5, <2>6, <2>7, <2>8, TokensEmit
<1>4. ASSUME NEW t \in AllTasks, CallProvider(t) PROVE Tokens'
  <2>1. UNCHANGED <<usage, sent>> /\ operations' = operations + 1 BY <1>4 DEF CallProvider, Operate
  <2>2. PICK api \in {"openai", "anthropic"} : Wait(t, [pc |-> "provider", api |-> api, call |-> operations'])
    BY <1>4 DEF CallProvider
  <2> DEFINE w == [pc |-> "provider", api |-> api, call |-> operations']
  <2>3. w \in Work BY <1>0, <2>1 DEF Work
  <2>4. Wait(t, w) /\ w.pc = "provider" /\ w.call = operations' BY <2>2
  <2> HIDE DEF w
  <2> QED BY <2>1, <2>3, <2>4, TokensCall
<1>5. ASSUME NEW t \in AllTasks, ProviderAnswers(t) PROVE Tokens'
  <2>1. work[t].pc = "provider" /\ UNCHANGED <<sent, operations>> BY <1>5 DEF ProviderAnswers
  <2>2. PICK reported \in {0, work[t].call} :
          /\ usage' = Append(usage, reported)
          /\ IF work[t].api = "openai" THEN Wait(t, [pc |-> "signals", own |-> reported]) ELSE Done(t)
    BY <1>5 DEF ProviderAnswers
  <2>3. reported \in {0, CallOf(t)} BY <2>1 DEF CallOf
  <2>4. reported \in Nat BY <2>3, CallTypes
  <2>5. [pc |-> "signals", own |-> reported] \in Work BY <2>4 DEF Work
  <2>6. /\ CallOf(t)' = 0 /\ OwnOf(t)' \in {0, reported}
        /\ \A u \in AllTasks \ {t} : CallOf(u)' = CallOf(u) /\ OwnOf(u)' = OwnOf(u)
    <3>1. CASE Wait(t, [pc |-> "signals", own |-> reported])
      <4>1. work'[t] = [pc |-> "signals", own |-> reported] /\ \A u \in AllTasks \ {t} : work'[u] = work[u]
        BY <2>5, <3>1, WaitTypes
      <4> QED BY <4>1 DEF CallOf, OwnOf
    <3>2. CASE Done(t)
      <4>1. work'[t] = NoWork /\ \A u \in AllTasks \ {t} : work'[u] = work[u]
        BY <3>2, WaitTypes, NoWorkTypes DEF Done
      <4> QED BY <4>1 DEF CallOf, OwnOf, NoWork
    <3> QED BY <2>2, <3>1, <3>2
  <2>7. /\ OwnOf(t) = 0
        /\ \A u \in AllTasks : CallOf(u) <= operations /\ OwnOf(u) <= operations
    BY <2>1 DEF OwnOf, Tokens
  <2> HIDE DEF CallOf, OwnOf
  <2>8. reported # 0 => /\ \A j \in DOMAIN usage : usage[j] # reported
                        /\ \A i \in DOMAIN sent : sent[i].own # reported /\ sent[i].attached # reported
                        /\ \A u \in AllTasks : OwnOf(u) # reported /\ (u # t => CallOf(u) # reported)
    BY <2>3 DEF Tokens
  <2>9. reported <= operations BY <1>0, <2>3, <2>7
  <2>10. \A u \in AllTasks : CallOf(u)' \in {0, CallOf(u)} BY <2>6
  <2>11. reported # 0 => \A u \in AllTasks : CallOf(u)' # reported BY <2>6, <2>8
  <2>12. ASSUME NEW u \in AllTasks, OwnOf(u)' # 0
         PROVE  /\ OwnOf(u)' <= operations'
                /\ \A i \in DOMAIN sent : sent[i].own # OwnOf(u)'
                /\ \A v \in AllTasks : CallOf(v)' # OwnOf(u)'
                /\ \A v \in AllTasks \ {u} : OwnOf(v)' # OwnOf(u)'
    <3>1. CASE u = t
      <4>1. OwnOf(u)' = reported /\ reported # 0 BY <2>6, <2>12, <3>1
      <4> QED BY <2>1, <2>6, <2>8, <2>9, <2>11, <3>1, <4>1
    <3>2. CASE u # t
      <4>1. OwnOf(u)' = OwnOf(u) BY <2>6, <3>2
      <4>2. OwnOf(t)' # OwnOf(u) BY <2>6, <2>8, <2>12, <4>1
      <4>3. \A v \in AllTasks : CallOf(v)' # OwnOf(u)
        BY <2>6, <2>12, <4>1 DEF Tokens
      <4> QED BY <2>1, <2>6, <2>7, <2>12, <4>1, <4>2, <4>3 DEF Tokens
    <3> QED BY <3>1, <3>2
  <2>13. operations' >= operations /\ reported <= operations' BY <1>0, <2>1, <2>9
  <2> QED BY <2>1, <2>2, <2>4, <2>8, <2>10, <2>11, <2>12, <2>13, TokensRecord
<1>6. ASSUME NEW t \in AllTasks, ProviderFails(t) \/ PostAnswered(t) \/ PostFails(t) PROVE Tokens'
  <2>1. Wait(t, NoWork) /\ UNCHANGED <<usage, sent, operations>>
    BY <1>6 DEF ProviderFails, PostAnswered, PostFails, Done
  <2>2. \A u \in AllTasks : Forgets(u) BY <2>1, NothingNew, NoWorkTypes
  <2>3. operations' >= operations BY <1>0, <2>1
  <2> QED BY <2>1, <2>2, <2>3, TokensQuiet
<1>7. ASSUME NEW t \in AllTasks, EmitLlmHop(t) PROVE Tokens'
  <2>1. PICK conf \in Confidences : EmitEdge(Absent, conf, work[t].own, FALSE) BY <1>7 DEF EmitLlmHop
  <2> DEFINE own == OwnOf(t)
  <2>2. own = work[t].own /\ own \in Nat BY <1>7, CallTypes DEF EmitLlmHop, OwnOf
  <2>3. UNCHANGED operations /\ usage' = ConsumeUsage(own) /\ Wait(t, NoWork)
    BY <1>7, <2>2 DEF EmitLlmHop, Done
  <2>4. PICK e \in Edge : /\ sent' = Append(sent, e) /\ e.own = own
                          /\ e.attached # 0 => own = 0 /\ usage # <<>> /\ e.attached = Head(usage)
    <3>1. EmitEdge(Absent, conf, own, FALSE) BY <2>1, <2>2
    <3> HIDE DEF own
    <3>2. \E explicit \in {Absent, 0}, priced \in BOOLEAN : EmitEdge(explicit, conf, own, priced) BY <3>1
    <3>3. PICK explicit \in {Absent, 0}, priced \in BOOLEAN : EmitEdge(explicit, conf, own, priced) BY <3>2
    <3> QED BY <2>2, <3>3, EmitFacts
  <2>5. \A u \in AllTasks : Forgets(u) BY <2>3, NothingNew, NoWorkTypes
  <2>6. OwnOf(t)' = 0
    <3>1. work'[t] = NoWork BY <2>3, WaitTypes, NoWorkTypes
    <3> QED BY <3>1 DEF OwnOf, NoWork
  <2>7. own <= operations' /\ operations' >= operations BY <1>0, <2>3 DEF Tokens
  <2>8. own # 0 => /\ \A i \in DOMAIN sent : sent[i].own # own
                   /\ \A u \in AllTasks : CallOf(u)' # own /\ OwnOf(u)' # own
    <3> HIDE DEF CallOf, OwnOf
    <3> QED BY <2>5, <2>6 DEF Tokens, Forgets
  <2> HIDE DEF own
  <2> QED BY <2>2, <2>3, <2>4, <2>5, <2>7, <2>8, TokensEmit
<1>8. ASSUME NEW t \in AllTasks, NEW b \in BOOLEAN, NEW skip \in BOOLEAN, Judge(t, b, skip),
             operations' \in {operations, operations + 1}
      PROVE  Tokens'
  <2>1. UNCHANGED <<usage, sent>> BY <1>8 DEF Judge
  <2>2. /\ work'[t] \in Completing /\ work'[t].pc = "flush"
        /\ \A u \in AllTasks \ {t} : work'[u] = work[u]
    BY <1>8, JudgeTypes
  <2>3. \A u \in AllTasks : Forgets(u) BY <2>2 DEF Forgets, CallOf, OwnOf
  <2>4. operations' >= operations BY <1>0, <1>8
  <2> QED BY <2>1, <2>3, <2>4, TokensQuiet
<1>9. ASSUME NEW t \in AllTasks, CompleteRun(t) PROVE Tokens'
  <2>1. operations' = operations + 1 BY <1>9 DEF CompleteRun, Operate
  <2>2. PICK b \in BOOLEAN, skip \in BOOLEAN : Judge(t, b, skip) BY <1>9 DEF CompleteRun
  <2> QED BY <1>8, <2>1, <2>2
<1>10. ASSUME NEW t \in AllTasks, Post(t) PROVE Tokens'
  <2> DEFINE w == [work[t] EXCEPT !.pc = "post", !.posted = state.run]
  <2>1. work[t] \in Completing BY <1>10, CompletingTypes DEF Post
  <2>2. state.run \in Nat BY DEF EmitterTypes, State
  <2>3. w \in Work /\ w.pc = "post" BY <2>1, <2>2 DEF Completing, Work
  <2>4. Wait(t, w) /\ UNCHANGED <<usage, sent, operations>> BY <1>10 DEF Post
  <2> HIDE DEF w
  <2>5. \A u \in AllTasks : Forgets(u) BY <2>3, <2>4, NothingNew
  <2>6. operations' >= operations BY <1>0, <2>4
  <2> QED BY <2>4, <2>5, <2>6, TokensQuiet
<1>11. ASSUME BeforeExit PROVE Tokens'
  <2>1. Finalizer \in AllTasks /\ operations' = operations BY <1>11 DEF AllTasks, BeforeExit
  <2>2. CASE Judge(Finalizer, FALSE, FALSE) BY <1>8, <2>1, <2>2
  <2>3. CASE UNCHANGED <<usage, sent, work>>
    <3>1. operations' >= operations BY <1>0, <2>1
    <3> QED BY <2>3, <3>1, NothingNew, TokensQuiet
  <2> QED BY <1>11, <2>2, <2>3 DEF BeforeExit
<1>12. ASSUME Exit \/ Interrupt \/ UNCHANGED emitterVars PROVE Tokens'
  <2>1. UNCHANGED <<usage, sent, work, operations>> BY <1>12 DEF Exit, Interrupt, emitterVars
  <2>2. operations' >= operations BY <1>0, <2>1
  <2> QED BY <2>1, <2>2, NothingNew, TokensQuiet
<1> QED
  BY <1>1, <1>2, <1>3, <1>4, <1>5, <1>6, <1>7, <1>9, <1>10, <1>11, <1>12 DEF EmitterNext

-----------------------------------------------------------------------------
(* More edges disturb no verdict.                                          *)
LEMMA SoundKept ==
  ASSUME NEW edges \in Seq(Edge), NEW e \in Edge, NEW w \in Completing, Sound(w, edges)
  PROVE  Sound(w, Append(edges, e))
<1>1. /\ w.edges \in Nat /\ Len(edges) \in Nat /\ Len(Append(edges, e)) = Len(edges) + 1
      /\ \A i \in DOMAIN Append(edges, e) :
           i <= Len(edges) => i \in DOMAIN edges /\ Append(edges, e)[i] = edges[i]
  BY DEF Completing
<1>2. \A i \in DOMAIN Append(edges, e) : i \in Nat OBVIOUS
<1>3. w.edges <= Len(edges) BY DEF Sound
<1>4. \A i \in DOMAIN Append(edges, e) :
        i <= w.edges => i \in DOMAIN edges /\ Append(edges, e)[i] = edges[i]
  BY <1>1, <1>2, <1>3
<1>5. w.edges <= Len(Append(edges, e)) BY <1>1, <1>3
<1> QED BY <1>4, <1>5 DEF Sound

(* The verdicts of a step that sends at most one edge.                     *)
LEMMA JudgingKept ==
  ASSUME EmitterTypes, EmitterTypes', Seen(sent', state'),
         sent' = sent \/ \E e \in Edge : sent' = Append(sent, e),
         \A t \in AllTasks : work'[t].pc \in {"flush", "post"} => Sound(work'[t], sent),
         \A c \in completions' : Sound(c, sent)
  PROVE  Judging'
<1>1. \A t \in AllTasks : work'[t].pc \in {"flush", "post"} => work'[t] \in Completing
  <2> TAKE t \in AllTasks
  <2>1. work'[t] \in Work BY DEF EmitterTypes
  <2> QED BY <2>1 DEF Work, NoWork
<1>2. \A w \in Completing : Sound(w, sent) => Sound(w, sent')
  <2>1. sent \in Seq(Edge) BY DEF EmitterTypes
  <2> QED BY <2>1, SoundKept
<1>3. completions' \subseteq Completing BY DEF EmitterTypes
<1> QED BY <1>1, <1>2, <1>3 DEF Judging

(* The gate's verdict is sound when it is reached.                         *)
LEMMA JudgeSound ==
  ASSUME EmitterTypes, Judging, NEW t \in AllTasks, NEW b \in BOOLEAN, NEW skip \in BOOLEAN,
         Judge(t, b, skip)
  PROVE  Sound(work'[t], sent)
<1>1. /\ work'[t].edges = Len(sent) /\ work'[t].epoch = state.epoch
      /\ work'[t].status = RunOutcome(b, skip) /\ work'[t].gated = ~skip
  BY JudgeTypes
<1>2. Len(sent) \in Nat /\ DOMAIN sent = 1..Len(sent) BY DEF EmitterTypes
<1>3. ASSUME GateMode = "min", RunOutcome(b, skip) = "success", ~skip,
             NEW i \in DOMAIN sent, sent[i].epoch = state.epoch
      PROVE  sent[i].conf >= AcceptLevel
  <2>1. PICK j \in DOMAIN state.hops : state.hops[j].conf = sent[i].conf
    BY <1>3 DEF Judging, Seen
  <2>2. state.hops \in Seq(GateHop) BY DEF EmitterTypes, State
  <2>3. CASE AcceptLevel = Absent
    <3>1. sent[i] \in Edge BY <1>3 DEF EmitterTypes
    <3>2. sent[i].conf \in Nat BY <3>1 DEF Edge
    <3> QED BY <2>3, <3>2 DEF Absent
  <2>4. CASE AcceptLevel # Absent
    <3>1. AcceptLevel \in Nat BY <2>4, EmitterAssumption
    <3>2. state.hops # <<>> BY <2>1
    <3>3. EvaluateGate(AcceptLevel, "min", state.hops).passed
      BY <1>3, <2>4, <3>2 DEF RunOutcome, GateHops
    <3>4. state.hops[j].conf >= AcceptLevel BY <2>2, <3>1, <3>3, PassedMin
    <3> QED BY <2>1, <3>4
  <2> QED BY <2>3, <2>4
<1>4. Len(sent) <= Len(sent) BY <1>2
<1> QED BY <1>1, <1>3, <1>4 DEF Sound

(* A new start of a run has no edge.                                       *)
LEMMA SeenRunning ==
  ASSUME EmitterTypes, Judging
  PROVE  /\ \A r \in Nat : Seen(sent, NewState(r))
         /\ Seen(sent, Running)
<1>1. state.epoch \in Nat BY DEF EmitterTypes, State
<1>2. \A i \in DOMAIN sent : sent[i].epoch \in Nat /\ sent[i].epoch <= state.epoch
  <2> TAKE i \in DOMAIN sent
  <2>1. sent[i] \in Edge BY DEF EmitterTypes
  <2> QED BY <2>1 DEF Edge, Judging, Seen
<1>3. ASSUME NEW r \in Nat PROVE Seen(sent, NewState(r))
  <2>1. NewState(r).epoch = state.epoch + 1 BY DEF NewState
  <2>2. \A i \in DOMAIN sent : sent[i].epoch <= NewState(r).epoch /\ sent[i].epoch # NewState(r).epoch
    BY <1>1, <1>2, <2>1
  <2> QED BY <2>2 DEF Seen
<1>4. begun + 1 \in Nat BY DEF EmitterTypes
<1>5. Seen(sent, state) BY DEF Judging
<1>6. Running = state \/ Running = NewState(begun + 1) BY DEF Running, Fresh
<1> QED BY <1>3, <1>4, <1>5, <1>6

(* An edge that is emitted is of the present start, and a hop of it.       *)
LEMMA SeenEmit ==
  ASSUME EmitterTypes, Judging, NEW explicit \in {Absent, 0}, NEW conf \in Confidences,
         NEW own \in Nat, NEW priced \in BOOLEAN, EmitEdge(explicit, conf, own, priced)
  PROVE  Seen(sent', state') /\ \E e \in Edge : sent' = Append(sent, e)
<1>0. \E e \in Edge :
        /\ sent' = Append(sent, e)
        /\ e.epoch = Running.epoch /\ e.conf = conf /\ e.own = own
        /\ e.attached # 0 => own = 0 /\ usage # <<>> /\ e.attached = Head(usage)
  BY EmitFacts, SMTT(60)
<1>1. PICK e \in Edge : sent' = Append(sent, e) /\ e.epoch = Running.epoch /\ e.conf = conf
  BY <1>0
<1>2. /\ state'.epoch = Running.epoch /\ state' \in State
      /\ \A j \in DOMAIN Running.hops :
           \E k \in DOMAIN state'.hops : state'.hops[k].conf = Running.hops[j].conf
      /\ \E k \in DOMAIN state'.hops : state'.hops[k].conf = conf
  BY EmitFacts
<1>3. Seen(sent, Running) BY SeenRunning
<1>4. \A i \in DOMAIN sent' : \/ i \in DOMAIN sent /\ sent'[i] = sent[i]
                              \/ sent'[i] = e
  BY <1>1 DEF EmitterTypes
<1>5. state'.epoch <= state'.epoch BY <1>2 DEF State
<1>6. ASSUME NEW i \in DOMAIN sent'
      PROVE  /\ sent'[i].epoch <= state'.epoch
             /\ sent'[i].epoch = state'.epoch =>
                  \E j \in DOMAIN state'.hops : state'.hops[j].conf = sent'[i].conf
  <2>1. CASE i \in DOMAIN sent /\ sent'[i] = sent[i] BY <1>2, <1>3, <2>1 DEF Seen
  <2>2. CASE sent'[i] = e BY <1>1, <1>2, <1>5, <2>2
  <2> QED BY <1>4, <2>1, <2>2
<1> QED BY <1>1, <1>6 DEF Seen

LEMMA InitJudging == EmitterInit => Judging
<1> SUFFICES ASSUME EmitterInit PROVE Judging OBVIOUS
<1>1. sent = <<>> /\ completions = {} BY DEF EmitterInit
<1>2. \A t \in AllTasks : work[t].pc = "idle" BY DEF EmitterInit, NoWork
<1> QED BY <1>1, <1>2 DEF Judging, Seen

(* The verdicts are kept by every step.                                    *)
LEMMA NextJudging ==
  ASSUME EmitterTypes, EmitterTypes', Judging, [EmitterNext]_emitterVars PROVE Judging'
<1>0. /\ Seen(sent, state) /\ \A c \in completions : Sound(c, sent)
      /\ \A u \in AllTasks : work[u].pc \in {"flush", "post"} => Sound(work[u], sent)
  BY DEF Judging
<1>1. ASSUME NEW t \in AllTasks, NEW w \in Work, Wait(t, w), w.pc \notin {"flush", "post"}
      PROVE  \A u \in AllTasks : work'[u].pc \in {"flush", "post"} => Sound(work'[u], sent)
  <2>1. work'[t] = w /\ \A u \in AllTasks \ {t} : work'[u] = work[u] BY <1>1, WaitTypes
  <2> HIDE DEF Work
  <2> QED BY <1>0, <1>1, <2>1
<1>2. ASSUME NEW t \in AllTasks, NEW b \in BOOLEAN, NEW skip \in BOOLEAN, Judge(t, b, skip)
      PROVE  Judging'
  <2>1. UNCHANGED <<state, sent, completions>> BY <1>2 DEF Judge
  <2>2. Sound(work'[t], sent) /\ \A u \in AllTasks \ {t} : work'[u] = work[u]
    BY <1>2, JudgeTypes, JudgeSound
  <2>3. \A u \in AllTasks : work'[u].pc \in {"flush", "post"} => Sound(work'[u], sent) BY <1>0, <2>2
  <2> QED BY <1>0, <2>1, <2>3, JudgingKept
<1>3. ASSUME NEW t \in AllTasks, StartRun(t) PROVE Judging'
  <2>1. UNCHANGED <<work, sent, completions>> BY <1>3 DEF StartRun
  <2>2. PICK r \in 1..Fresh : state' = NewState(r) BY <1>3 DEF StartRun
  <2>3. r \in Nat BY <2>2 DEF EmitterTypes, Fresh
  <2>4. Seen(sent', state') BY <2>1, <2>2, <2>3, SeenRunning
  <2> QED BY <1>0, <2>1, <2>4, JudgingKept
<1>4. ASSUME NEW t \in AllTasks, MarkHandoff(t) PROVE Judging'
  <2>1. UNCHANGED <<work, sent, completions>> /\ state' = Running BY <1>4 DEF MarkHandoff
  <2>2. Seen(sent', state') BY <2>1, SeenRunning
  <2> QED BY <1>0, <2>1, <2>2, JudgingKept
<1>5. ASSUME NEW t \in AllTasks, RecordProviderUsage(t) PROVE Judging'
  <2>1. UNCHANGED <<work, sent, completions, state>> BY <1>5 DEF RecordProviderUsage
  <2> QED BY <1>0, <2>1, JudgingKept
<1>6. ASSUME NEW t \in AllTasks, EmitOwnEdge(t) PROVE Judging'
  <2>1. UNCHANGED <<work, completions>> /\ operations' = operations + 1 BY <1>6 DEF EmitOwnEdge, Operate
  <2>2. PICK explicit \in {Absent, 0}, conf \in Confidences, own \in {0, operations'}, priced \in BOOLEAN :
          EmitEdge(explicit, conf, own, priced)
    BY <1>6 DEF EmitOwnEdge
  <2>3. own \in Nat BY <2>1, <2>2 DEF EmitterTypes
  <2>4. Seen(sent', state') /\ \E e \in Edge : sent' = Append(sent, e) BY <2>2, <2>3, SeenEmit
  <2> QED BY <1>0, <2>1, <2>4, JudgingKept
<1>7. ASSUME NEW t \in AllTasks, CallProvider(t) PROVE Judging'
  <2>1. UNCHANGED <<sent, completions>> /\ state' = Running /\ operations' = operations + 1
    BY <1>7 DEF CallProvider, Operate
  <2>2. PICK api \in {"openai", "anthropic"} : Wait(t, [pc |-> "provider", api |-> api, call |-> operations'])
    BY <1>7 DEF CallProvider
  <2> DEFINE w == [pc |-> "provider", api |-> api, call |-> operations']
  <2>3. w \in Work /\ w.pc = "provider" BY <2>1 DEF Work, EmitterTypes
  <2>4. Wait(t, w) BY <2>2
  <2> HIDE DEF w
  <2>5. \A u \in AllTasks : work'[u].pc \in {"flush", "post"} => Sound(work'[u], sent) BY <1>1, <2>3, <2>4
  <2>6. Seen(sent', state') BY <2>1, SeenRunning
  <2> QED BY <1>0, <2>1, <2>5, <2>6, JudgingKept
<1>8. ASSUME NEW t \in AllTasks, ProviderAnswers(t) PROVE Judging'
  <2>1. UNCHANGED <<sent, completions, state>> BY <1>8 DEF ProviderAnswers
  <2>2. work[t].call \in Nat BY <1>8, ProviderTypes DEF ProviderAnswers
  <2>3. PICK reported \in {0, work[t].call} :
          Wait(t, [pc |-> "signals", own |-> reported]) \/ Wait(t, NoWork)
    BY <1>8 DEF ProviderAnswers, Done
  <2> DEFINE w == [pc |-> "signals", own |-> reported]
  <2>4. w \in Work /\ w.pc = "signals" BY <2>2, <2>3 DEF Work
  <2>5. Wait(t, w) \/ Wait(t, NoWork) BY <2>3
  <2> HIDE DEF w
  <2>6. \A u \in AllTasks : work'[u].pc \in {"flush", "post"} => Sound(work'[u], sent)
    BY <1>1, <2>4, <2>5, NoWorkTypes
  <2> QED BY <1>0, <2>1, <2>6, JudgingKept
<1>9. ASSUME NEW t \in AllTasks, ProviderFails(t) PROVE Judging'
  <2>1. UNCHANGED <<sent, completions, state>> /\ Wait(t, NoWork) BY <1>9 DEF ProviderFails, Done
  <2>2. \A u \in AllTasks : work'[u].pc \in {"flush", "post"} => Sound(work'[u], sent)
    BY <1>1, <2>1, NoWorkTypes
  <2> QED BY <1>0, <2>1, <2>2, JudgingKept
<1>10. ASSUME NEW t \in AllTasks, EmitLlmHop(t) PROVE Judging'
  <2>1. UNCHANGED completions /\ Wait(t, NoWork) BY <1>10 DEF EmitLlmHop, Done
  <2>2. PICK own \in Nat : own = work[t].own BY <1>10, SignalsTypes DEF EmitLlmHop
  <2>3. PICK conf \in Confidences, explicit \in {Absent, 0}, priced \in BOOLEAN :
          EmitEdge(explicit, conf, own, priced)
    BY <1>10, <2>2 DEF EmitLlmHop
  <2>4. Seen(sent', state') /\ \E e \in Edge : sent' = Append(sent, e) BY <2>3, SeenEmit
  <2>5. \A u \in AllTasks : work'[u].pc \in {"flush", "post"} => Sound(work'[u], sent)
    BY <1>1, <2>1, NoWorkTypes
  <2> QED BY <1>0, <2>1, <2>4, <2>5, JudgingKept
<1>11. ASSUME NEW t \in AllTasks, CompleteRun(t) PROVE Judging'
  BY <1>2, <1>11 DEF CompleteRun
<1>12. ASSUME NEW t \in AllTasks, Post(t) PROVE Judging'
  <2>1. UNCHANGED <<sent, completions, state>> BY <1>12 DEF Post
  <2> DEFINE w == [work[t] EXCEPT !.pc = "post", !.posted = state.run]
  <2>2. work[t] \in Completing /\ Sound(work[t], sent) BY <1>0, <1>12, CompletingTypes DEF Post
  <2>3. state.run \in Nat BY DEF EmitterTypes, State
  <2>4. /\ w \in Work /\ w.edges = work[t].edges /\ w.status = work[t].status
        /\ w.gated = work[t].gated /\ w.epoch = work[t].epoch
    BY <2>2, <2>3 DEF Completing, Work
  <2>5. Wait(t, w) BY <1>12 DEF Post
  <2> HIDE DEF w
  <2>6. work'[t] = w /\ \A u \in AllTasks \ {t} : work'[u] = work[u] BY <2>4, <2>5, WaitTypes
  <2>7. Sound(w, sent) BY <2>2, <2>4 DEF Sound
  <2>8. \A u \in AllTasks : work'[u].pc \in {"flush", "post"} => Sound(work'[u], sent) BY <1>0, <2>6, <2>7
  <2> QED BY <1>0, <2>1, <2>8, JudgingKept
<1>13. ASSUME NEW t \in AllTasks, PostAnswered(t) PROVE Judging'
  <2>1. sent' = sent /\ Wait(t, NoWork) /\ state' = [state EXCEPT !.run = 0] BY <1>13 DEF PostAnswered, Done
  <2> DEFINE c == [work[t] EXCEPT !.forgot = state.run]
  <2>2. work[t] \in Completing /\ Sound(work[t], sent) BY <1>0, <1>13, CompletingTypes DEF PostAnswered
  <2>3. /\ c.edges = work[t].edges /\ c.status = work[t].status
        /\ c.gated = work[t].gated /\ c.epoch = work[t].epoch
    BY <2>2 DEF Completing
  <2>4. completions' = completions \cup {c} BY <1>13 DEF PostAnswered
  <2> HIDE DEF c
  <2>5. Sound(c, sent) BY <2>2, <2>3 DEF Sound
  <2>6. \A u \in AllTasks : work'[u].pc \in {"flush", "post"} => Sound(work'[u], sent)
    BY <1>1, <2>1, NoWorkTypes
  <2>7. Seen(sent', state')
    <3>1. state'.epoch = state.epoch /\ state'.hops = state.hops BY <2>1 DEF EmitterTypes, State
    <3> QED BY <1>0, <2>1, <3>1 DEF Seen
  <2> QED BY <1>0, <2>1, <2>4, <2>5, <2>6, <2>7, JudgingKept
<1>14. ASSUME NEW t \in AllTasks, PostFails(t) PROVE Judging'
  <2>1. UNCHANGED <<sent, completions>> /\ Wait(t, NoWork) /\ state' = [state EXCEPT !.run = state.run]
    BY <1>14 DEF PostFails, RunAfterFailure, Done
  <2>2. \A u \in AllTasks : work'[u].pc \in {"flush", "post"} => Sound(work'[u], sent)
    BY <1>1, <2>1, NoWorkTypes
  <2>3. Seen(sent', state')
    <3>1. state'.epoch = state.epoch /\ state'.hops = state.hops BY <2>1 DEF EmitterTypes, State
    <3> QED BY <1>0, <2>1, <3>1 DEF Seen
  <2> QED BY <1>0, <2>1, <2>2, <2>3, JudgingKept
<1>15. ASSUME BeforeExit PROVE Judging'
  <2>1. Finalizer \in AllTasks BY DEF AllTasks
  <2>2. CASE Judge(Finalizer, FALSE, FALSE) BY <1>2, <2>1, <2>2
  <2>3. CASE UNCHANGED <<state, sent, completions, work>> BY <1>0, <2>3, JudgingKept
  <2> QED BY <1>15, <2>2, <2>3 DEF BeforeExit
<1>16. ASSUME Exit \/ Interrupt \/ UNCHANGED emitterVars PROVE Judging'
  <2>1. UNCHANGED <<state, sent, completions, work>> BY <1>16 DEF Exit, Interrupt, emitterVars
  <2> QED BY <1>0, <2>1, JudgingKept
<1> QED
  BY <1>3, <1>4, <1>5, <1>6, <1>7, <1>8, <1>9, <1>10, <1>11, <1>12, <1>13, <1>14, <1>15, <1>16
  DEF EmitterNext

-----------------------------------------------------------------------------
(* A run that has its end keeps it.                                        *)
LEMMA AccountedStays ==
  ASSUME NEW r, NEW over, NEW cs, NEW moreOver, NEW moreCs, over \subseteq moreOver, cs \subseteq moreCs,
         Accounted(r, over, cs)
  PROVE  Accounted(r, moreOver, moreCs)
BY DEF Accounted

(* startRun() gives each run but the one it starts an end.                 *)
LEMMA BeginAccounts ==
  ASSUME EmitterTypes, Accounting, NEW r \in Nat, r # 0, r <= begun + 1, Begin(r)
  PROVE  /\ begun' >= begun /\ replaced \subseteq replaced'
         /\ r \in 0..begun'
         /\ \A q \in 1..begun' : q = r \/ Accounted(q, replaced', completions)
<1>1. begun \in Nat /\ state.run \in Nat BY DEF EmitterTypes, State
<1>2. begun' = Max({begun, r}) /\ replaced' = replaced \cup ({state.run} \ {0, r}) BY DEF Begin
<1>3. begun' = (IF begun >= r THEN begun ELSE r) /\ begun' \in Nat BY <1>1, <1>2, MaxOfTwo
<1>4. begun' >= begun /\ r \in 0..begun' BY <1>1, <1>3
<1>5. replaced \subseteq replaced' BY <1>2
<1>6. ASSUME NEW q \in 1..begun', q # r PROVE Accounted(q, replaced', completions)
  <2>1. q \in 1..begun BY <1>1, <1>3, <1>6
  <2>2. CASE q = state.run BY <1>2, <1>6, <2>1, <2>2 DEF Accounted
  <2>3. CASE q # state.run
    <3>1. Accounted(q, replaced, completions) BY <2>1, <2>3 DEF Accounting
    <3> QED BY <1>5, <3>1, AccountedStays
  <2> QED BY <2>2, <2>3
<1> QED BY <1>4, <1>5, <1>6

(* "if (!runId) startRun()" too.                                           *)
LEMMA EnsureAccounts ==
  ASSUME EmitterTypes, Accounting, EnsureRun
  PROVE  /\ begun' >= begun /\ replaced \subseteq replaced'
         /\ Running.run \in 0..begun'
         /\ \A q \in 1..begun' : q = Running.run \/ Accounted(q, replaced', completions)
<1>1. begun \in Nat BY DEF EmitterTypes
<1>2. CASE state.run = 0
  <2>1. Begin(begun + 1) /\ Running = NewState(begun + 1) BY <1>2, RunningTypes
  <2>2. Running.run = begun + 1 BY <2>1 DEF NewState
  <2>3. begun + 1 \in Nat /\ begun + 1 # 0 /\ begun + 1 <= begun + 1 BY <1>1
  <2> QED BY <2>1, <2>2, <2>3, BeginAccounts
<1>3. CASE state.run # 0
  <2>1. Running = state /\ begun' = begun /\ replaced' = replaced BY <1>3, RunningTypes
  <2> QED BY <1>1, <2>1 DEF Accounting
<1> QED BY <1>2, <1>3

(* The steps that keep or renew what is waited for.                        *)
LEMMA AccountingKept ==
  ASSUME EmitterTypes, EmitterTypes', Accounting,
         begun' >= begun, replaced \subseteq replaced', completions \subseteq completions',
         state'.run \in 0..begun',
         \A q \in 1..begun' : q = state'.run \/ Accounted(q, replaced', completions'),
         \A t \in AllTasks : work'[t].pc \in {"flush", "post"} =>
           /\ work'[t].judged \in 1..begun
           /\ work'[t].pc = "post" => \/ work'[t].posted = work'[t].judged
                                      \/ Accounted(work'[t].judged, replaced, completions)
  PROVE  Accounting'
<1>1. begun \in Nat /\ begun' \in Nat BY DEF EmitterTypes
<1>2. \A t \in AllTasks : work'[t].pc \in {"flush", "post"} => work'[t].judged \in 1..begun'
  BY <1>1
<1>3. ASSUME NEW t \in AllTasks, work'[t].pc = "post"
      PROVE  work'[t].posted = work'[t].judged \/ Accounted(work'[t].judged, replaced', completions')
  BY <1>3, AccountedStays
<1> QED BY <1>2, <1>3 DEF Accounting

LEMMA InitAccounting == EmitterInit => Accounting
<1> SUFFICES ASSUME EmitterInit PROVE Accounting OBVIOUS
<1>1. state.run = 0 /\ begun = 0 BY DEF EmitterInit, BlamrState
<1>2. \A t \in AllTasks : work[t].pc = "idle" BY DEF EmitterInit, NoWork
<1> QED BY <1>1, <1>2 DEF Accounting

(* Every step accounts for the run it ends or leaves.                      *)
LEMMA NextAccounting ==
  ASSUME EmitterTypes, EmitterTypes', Accounting, [EmitterNext]_emitterVars PROVE Accounting'
<1> DEFINE Waits == \A t \in AllTasks : work'[t].pc \in {"flush", "post"} =>
                      /\ work'[t].judged \in 1..begun
                      /\ work'[t].pc = "post" => \/ work'[t].posted = work'[t].judged
                                                 \/ Accounted(work'[t].judged, replaced, completions)
<1>0. /\ begun \in Nat /\ begun >= begun /\ state.run \in 0..begun
      /\ \A q \in 1..begun : q = state.run \/ Accounted(q, replaced, completions)
  BY DEF EmitterTypes, Accounting
<1>1. work' = work => Waits BY DEF Accounting
<1>2. ASSUME NEW t \in AllTasks, NEW w \in Work, Wait(t, w), w.pc \notin {"flush", "post"}
      PROVE  Waits
  <2>1. work'[t] = w /\ \A u \in AllTasks \ {t} : work'[u] = work[u] BY <1>2, WaitTypes
  <2> HIDE DEF Work
  <2> QED BY <1>2, <2>1 DEF Accounting
<1>3. ASSUME NEW t \in AllTasks, NEW b \in BOOLEAN, NEW skip \in BOOLEAN, Judge(t, b, skip)
      PROVE  Accounting'
  <2>1. UNCHANGED <<state, completions, begun, replaced>> /\ state.run # 0 BY <1>3 DEF Judge
  <2>2. work'[t].pc = "flush" /\ \A u \in AllTasks \ {t} : work'[u] = work[u] BY <1>3, JudgeTypes
  <2>3. work'[t].judged = state.run
    <3>1. work \in [AllTasks -> Work] BY DEF EmitterTypes
    <3> HIDE DEF Work
    <3> QED BY <1>3, <3>1 DEF Judge, Wait
  <2>4. Waits BY <1>0, <2>1, <2>2, <2>3 DEF Accounting
  <2> HIDE DEF Waits
  <2>5. Waits /\ begun' >= begun /\ state'.run \in 0..begun' BY <1>0, <2>1, <2>4
  <2> QED BY <1>0, <2>1, <2>5, AccountingKept DEF Waits
<1> HIDE DEF Waits
<1>4. ASSUME NEW t \in AllTasks, StartRun(t) PROVE Accounting'
  <2>1. UNCHANGED <<work, completions>> BY <1>4 DEF StartRun
  <2>2. PICK r \in 1..Fresh : Begin(r) /\ state' = NewState(r) BY <1>4 DEF StartRun
  <2>3. r \in Nat /\ r # 0 /\ r <= begun + 1 BY <1>0, <2>2 DEF Fresh
  <2>4. state'.run = r BY <2>2 DEF NewState
  <2>5. /\ begun' >= begun /\ replaced \subseteq replaced' /\ state'.run \in 0..begun'
        /\ \A q \in 1..begun' : q = state'.run \/ Accounted(q, replaced', completions')
    BY <2>1, <2>2, <2>3, <2>4, BeginAccounts
  <2> QED BY <1>1, <2>1, <2>5, AccountingKept DEF Waits
<1>5. ASSUME EnsureRun, state'.run = Running.run, UNCHANGED completions, Waits PROVE Accounting'
  <2>1. /\ begun' >= begun /\ replaced \subseteq replaced' /\ state'.run \in 0..begun'
        /\ \A q \in 1..begun' : q = state'.run \/ Accounted(q, replaced', completions')
    BY <1>5, EnsureAccounts
  <2> QED BY <1>5, <2>1, AccountingKept DEF Waits
<1>6. ASSUME NEW t \in AllTasks, MarkHandoff(t) PROVE Accounting'
  BY <1>1, <1>5, <1>6 DEF MarkHandoff
<1>7. ASSUME NEW t \in AllTasks, CallProvider(t) PROVE Accounting'
  <2>1. EnsureRun /\ state' = Running /\ UNCHANGED completions /\ operations' = operations + 1
    BY <1>7 DEF CallProvider, Operate
  <2>2. PICK api \in {"openai", "anthropic"} : Wait(t, [pc |-> "provider", api |-> api, call |-> operations'])
    BY <1>7 DEF CallProvider
  <2> DEFINE w == [pc |-> "provider", api |-> api, call |-> operations']
  <2>3. w \in Work /\ w.pc = "provider" BY <2>1 DEF Work, EmitterTypes
  <2>4. Wait(t, w) BY <2>2
  <2> HIDE DEF w
  <2> QED BY <1>2, <1>5, <2>1, <2>3, <2>4
<1>8. ASSUME NEW t \in AllTasks, EmitOwnEdge(t) PROVE Accounting'
  <2>1. UNCHANGED <<work, completions>> /\ operations' = operations + 1 BY <1>8 DEF EmitOwnEdge, Operate
  <2>2. PICK explicit \in {Absent, 0}, conf \in Confidences, own \in {0, operations'}, priced \in BOOLEAN :
          EmitEdge(explicit, conf, own, priced)
    BY <1>8 DEF EmitOwnEdge
  <2>3. own \in Nat BY <2>1, <2>2 DEF EmitterTypes
  <2>4. EnsureRun /\ state'.run = Running.run BY <2>2, <2>3, EmitFacts
  <2> QED BY <1>1, <1>5, <2>1, <2>4
<1>9. ASSUME NEW t \in AllTasks, EmitLlmHop(t) PROVE Accounting'
  <2>1. UNCHANGED completions /\ Wait(t, NoWork) BY <1>9 DEF EmitLlmHop, Done
  <2>2. PICK own \in Nat : own = work[t].own BY <1>9, SignalsTypes DEF EmitLlmHop
  <2>3. PICK conf \in Confidences, explicit \in {Absent, 0}, priced \in BOOLEAN :
          EmitEdge(explicit, conf, own, priced)
    BY <1>9, <2>2 DEF EmitLlmHop
  <2>4. EnsureRun /\ state'.run = Running.run BY <2>3, EmitFacts
  <2> QED BY <1>2, <1>5, <2>1, <2>4, NoWorkTypes
<1>10. ASSUME UNCHANGED <<begun, replaced, completions>>, state'.run = state.run, Waits PROVE Accounting'
  <2>1. begun' >= begun /\ state'.run \in 0..begun' BY <1>0, <1>10
  <2> QED BY <1>0, <1>10, <2>1, AccountingKept DEF Waits
<1>11. ASSUME NEW t \in AllTasks, RecordProviderUsage(t) PROVE Accounting'
  BY <1>1, <1>10, <1>11 DEF RecordProviderUsage
<1>12. ASSUME NEW t \in AllTasks, ProviderAnswers(t) PROVE Accounting'
  <2>1. UNCHANGED <<state, begun, replaced, completions>> BY <1>12 DEF ProviderAnswers
  <2>2. work[t].call \in Nat BY <1>12, ProviderTypes DEF ProviderAnswers
  <2>3. PICK reported \in {0, work[t].call} :
          Wait(t, [pc |-> "signals", own |-> reported]) \/ Wait(t, NoWork)
    BY <1>12 DEF ProviderAnswers, Done
  <2> DEFINE w == [pc |-> "signals", own |-> reported]
  <2>4. w \in Work /\ w.pc = "signals" BY <2>2, <2>3 DEF Work
  <2>5. Wait(t, w) \/ Wait(t, NoWork) BY <2>3
  <2> HIDE DEF w
  <2>6. Waits BY <1>2, <2>4, <2>5, NoWorkTypes
  <2> QED BY <1>10, <2>1, <2>6
<1>13. ASSUME NEW t \in AllTasks, ProviderFails(t) \/ PostFails(t) PROVE Accounting'
  <2>1. Wait(t, NoWork) /\ UNCHANGED <<begun, replaced, completions>>
    BY <1>13 DEF ProviderFails, PostFails, Done
  <2>2. state'.run = state.run BY <1>13 DEF ProviderFails, PostFails, RunAfterFailure, EmitterTypes, State
  <2>3. Waits BY <1>2, <2>1, NoWorkTypes
  <2> QED BY <1>10, <2>1, <2>2, <2>3
<1>14. ASSUME NEW t \in AllTasks, CompleteRun(t) PROVE Accounting'
  BY <1>3, <1>14 DEF CompleteRun
<1>15. ASSUME NEW t \in AllTasks, Post(t) PROVE Accounting'
  <2>1. UNCHANGED <<state, begun, replaced, completions>> BY <1>15 DEF Post
  <2> DEFINE w == [work[t] EXCEPT !.pc = "post", !.posted = state.run]
  <2>2. work[t] \in Completing /\ work[t].judged \in 1..begun
    BY <1>15, CompletingTypes DEF Post, Accounting
  <2>3. state.run \in Nat BY DEF EmitterTypes, State
  <2>4. w \in Work /\ w.pc = "post" /\ w.posted = state.run /\ w.judged = work[t].judged
    BY <2>2, <2>3 DEF Completing, Work
  <2>5. Wait(t, w) BY <1>15 DEF Post
  <2> HIDE DEF w
  <2>6. work'[t] = w /\ \A u \in AllTasks \ {t} : work'[u] = work[u] BY <2>4, <2>5, WaitTypes
  <2>7. w.posted = w.judged \/ Accounted(w.judged, replaced, completions) BY <1>0, <2>2, <2>4
  <2>8. Waits BY <2>2, <2>4, <2>6, <2>7 DEF Waits, Accounting
  <2> QED BY <1>10, <2>1, <2>8
<1>16. ASSUME NEW t \in AllTasks, PostAnswered(t) PROVE Accounting'
  <2>1. /\ Wait(t, NoWork) /\ state'.run = 0 /\ begun' = begun /\ replaced' = replaced
        /\ work[t].pc = "post"
    BY <1>16 DEF PostAnswered, Done, EmitterTypes, State
  <2> DEFINE c == [work[t] EXCEPT !.forgot = state.run]
  <2>2. completions' = completions \cup {c} BY <1>16 DEF PostAnswered
  <2>3. work[t] \in Completing BY <2>1, CompletingTypes
  <2>4. c.forgot = state.run /\ c.posted = work[t].posted /\ c.judged = work[t].judged
    BY <2>3 DEF Completing
  <2> HIDE DEF c
  <2>5. ASSUME NEW q \in 1..begun' PROVE Accounted(q, replaced', completions')
    <3>1. CASE Accounted(q, replaced, completions) BY <2>1, <2>2, <3>1, AccountedStays
    <3>2. CASE ~Accounted(q, replaced, completions)
      <4>1. q = state.run BY <1>0, <2>1, <2>5, <3>2
      <4>2. work[t].judged = q => work[t].posted = q BY <2>1, <3>2 DEF Accounting
      <4>3. q = c.posted \/ (q = c.forgot /\ c.judged # q) BY <2>4, <4>1, <4>2
      <4> QED BY <2>2, <4>3 DEF Accounted
    <3> QED BY <3>1, <3>2
  <2>6. Waits BY <1>2, <2>1, NoWorkTypes
  <2>7. begun' >= begun /\ state'.run \in 0..begun' BY <1>0, <2>1
  <2>8. replaced \subseteq replaced' /\ completions \subseteq completions' BY <2>1, <2>2
  <2> QED BY <2>5, <2>6, <2>7, <2>8, AccountingKept DEF Waits
<1>17. ASSUME BeforeExit PROVE Accounting'
  <2>1. Finalizer \in AllTasks BY DEF AllTasks
  <2>2. CASE Judge(Finalizer, FALSE, FALSE) BY <1>3, <2>1, <2>2
  <2>3. CASE UNCHANGED <<state, completions, begun, replaced, work>> BY <1>1, <1>10, <2>3
  <2> QED BY <1>17, <2>2, <2>3 DEF BeforeExit
<1>18. ASSUME Exit \/ Interrupt \/ UNCHANGED emitterVars PROVE Accounting'
  <2>1. UNCHANGED <<state, completions, begun, replaced, work>> BY <1>18 DEF Exit, Interrupt, emitterVars
  <2> QED BY <1>1, <1>10, <2>1
<1> QED
  BY <1>4, <1>6, <1>7, <1>8, <1>9, <1>11, <1>12, <1>13, <1>14, <1>15, <1>16, <1>17, <1>18
  DEF EmitterNext

-----------------------------------------------------------------------------
LEMMA InitFinalizing == EmitterInit => Finalizing
<1> SUFFICES ASSUME EmitterInit PROVE Finalizing OBVIOUS
<1>1. PICK h \in {"armed", "none"} :
        exit = [alive |-> TRUE, handler |-> h, interrupted |-> FALSE, failed |-> FALSE]
  BY DEF EmitterInit
<1>2. work[Finalizer] = NoWork /\ NoWork.pc = "idle" BY DEF EmitterInit, AllTasks, NoWork
<1> QED BY <1>1, <1>2 DEF Finalizing

(* The tasks of the program work only until the exit handler runs, and the *)
(* handler only completes a run.                                           *)
LEMMA NextFinalizing ==
  ASSUME EmitterTypes, EmitterTypes', Finalizing, [EmitterNext]_emitterVars PROVE Finalizing'
<1>0. /\ Finalizer \in AllTasks /\ Tasks \subseteq AllTasks /\ Finalizer \notin Tasks
      /\ NoWork.pc = "idle"
  BY EmitterAssumption DEF AllTasks, NoWork
<1>1. ASSUME NEW t \in Tasks, exit.handler # "ran", UNCHANGED exit, exit.alive,
             \A u \in AllTasks \ {t} : work'[u] = work[u]
      PROVE  Finalizing'
  BY <1>0, <1>1 DEF Finalizing
<1>2. ASSUME NEW t \in AllTasks, NEW w \in Work, Wait(t, w)
      PROVE  work'[t] = w /\ \A u \in AllTasks \ {t} : work'[u] = work[u]
  BY <1>2, WaitTypes
<1>3. ASSUME NEW t \in AllTasks, Operate(t), \A u \in AllTasks \ {t} : work'[u] = work[u]
      PROVE  Finalizing'
  BY <1>1, <1>3 DEF Operate
<1>4. ASSUME NEW t \in AllTasks,
             StartRun(t) \/ MarkHandoff(t) \/ RecordProviderUsage(t) \/ EmitOwnEdge(t)
      PROVE  Finalizing'
  BY <1>3, <1>4 DEF StartRun, MarkHandoff, RecordProviderUsage, EmitOwnEdge
<1>5. ASSUME NEW t \in AllTasks, CallProvider(t) PROVE Finalizing'
  <2>1. operations' \in Nat BY DEF EmitterTypes
  <2>2. PICK api \in {"openai", "anthropic"} : Wait(t, [pc |-> "provider", api |-> api, call |-> operations'])
    BY <1>5 DEF CallProvider
  <2>3. [pc |-> "provider", api |-> api, call |-> operations'] \in Work BY <2>1 DEF Work
  <2> QED BY <1>2, <1>3, <1>5, <2>2, <2>3 DEF CallProvider
<1>6. ASSUME NEW t \in AllTasks, work[t].pc \in {"provider", "signals"}
      PROVE  t \in Tasks /\ exit.handler # "ran"
  <2>1. t # Finalizer /\ t \in Tasks BY <1>6 DEF Finalizing, AllTasks
  <2>2. work[t] # NoWork BY <1>0, <1>6
  <2> QED BY <2>1, <2>2 DEF Finalizing
<1>7. ASSUME NEW t \in AllTasks, ProviderAnswers(t) PROVE Finalizing'
  <2>1. exit.alive /\ UNCHANGED exit /\ work[t].pc = "provider" BY <1>7 DEF ProviderAnswers
  <2>2. work[t].call \in Nat BY <2>1, ProviderTypes
  <2>3. PICK reported \in {0, work[t].call} :
          Wait(t, [pc |-> "signals", own |-> reported]) \/ Wait(t, NoWork)
    BY <1>7 DEF ProviderAnswers, Done
  <2>4. [pc |-> "signals", own |-> reported] \in Work BY <2>2, <2>3 DEF Work
  <2>5. \A u \in AllTasks \ {t} : work'[u] = work[u] BY <1>2, <2>3, <2>4, NoWorkTypes
  <2> QED BY <1>1, <1>6, <2>1, <2>5
<1>8. ASSUME NEW t \in AllTasks, ProviderFails(t) \/ EmitLlmHop(t) PROVE Finalizing'
  <2>1. /\ exit.alive /\ UNCHANGED exit /\ work[t].pc \in {"provider", "signals"} /\ Wait(t, NoWork)
    BY <1>8 DEF ProviderFails, EmitLlmHop, Done
  <2>2. \A u \in AllTasks \ {t} : work'[u] = work[u] BY <1>2, <2>1, NoWorkTypes
  <2> QED BY <1>1, <1>6, <2>1, <2>2
<1>9. ASSUME NEW t \in AllTasks, CompleteRun(t) PROVE Finalizing'
  <2>1. PICK b \in BOOLEAN, skip \in BOOLEAN : Judge(t, b, skip) BY <1>9 DEF CompleteRun
  <2>2. \A u \in AllTasks \ {t} : work'[u] = work[u] BY <2>1, JudgeTypes
  <2> QED BY <1>3, <1>9, <2>2 DEF CompleteRun
<1>10. ASSUME NEW t \in AllTasks, Post(t) PROVE Finalizing'
  <2>1. UNCHANGED <<exit, state>> /\ exit.alive /\ work[t].pc = "flush" BY <1>10 DEF Post
  <2> DEFINE w == [work[t] EXCEPT !.pc = "post", !.posted = state.run]
  <2>2. work[t] \in Completing BY <2>1, CompletingTypes
  <2>3. state.run \in Nat BY DEF EmitterTypes, State
  <2>4. w \in Work /\ w.pc = "post" BY <2>2, <2>3 DEF Completing, Work
  <2>5. Wait(t, w) BY <1>10 DEF Post
  <2> HIDE DEF w
  <2>6. work'[t] = w /\ \A u \in AllTasks \ {t} : work'[u] = work[u] BY <1>2, <2>4, <2>5
  <2>7. work[t] # NoWork BY <1>0, <2>1
  <2> QED BY <1>0, <2>1, <2>4, <2>6, <2>7 DEF Finalizing
<1>11. ASSUME NEW t \in AllTasks, PostAnswered(t) PROVE Finalizing'
  <2>1. /\ UNCHANGED exit /\ exit.alive /\ work[t].pc = "post" /\ Wait(t, NoWork)
        /\ state' = [state EXCEPT !.run = 0]
    BY <1>11 DEF PostAnswered, Done
  <2>2. state'.run = 0 BY <2>1 DEF EmitterTypes, State
  <2>3. work'[t] = NoWork /\ \A u \in AllTasks \ {t} : work'[u] = work[u] BY <1>2, <2>1, NoWorkTypes
  <2> QED BY <1>0, <2>1, <2>2, <2>3 DEF Finalizing
<1>12. ASSUME NEW t \in AllTasks, PostFails(t) PROVE Finalizing'
  <2>1. /\ exit' = [exit EXCEPT !.failed = exit.failed \/ t = Finalizer] /\ exit.alive
        /\ work[t].pc \in {"flush", "post"} /\ Wait(t, NoWork)
        /\ state' = [state EXCEPT !.run = state.run]
    BY <1>12 DEF PostFails, RunAfterFailure, Done
  <2>2. state'.run = state.run BY <2>1 DEF EmitterTypes, State
  <2>3. work'[t] = NoWork /\ \A u \in AllTasks \ {t} : work'[u] = work[u] BY <1>2, <2>1, NoWorkTypes
  <2>4. /\ exit'.handler = exit.handler /\ exit'.alive = exit.alive
        /\ exit'.failed = (exit.failed \/ t = Finalizer)
    BY <2>1 DEF EmitterTypes
  <2>5. CASE t = Finalizer
    <3>1. exit'.failed BY <2>4, <2>5
    <3>2. exit.handler = "ran" BY <1>0, <2>1, <2>5 DEF Finalizing
    <3> QED BY <1>0, <2>1, <2>3, <2>4, <2>5, <3>1, <3>2 DEF Finalizing
  <2>6. CASE t # Finalizer
    <3>1. t \in Tasks /\ work[t] # NoWork BY <1>0, <2>1, <2>6 DEF AllTasks
    <3>2. exit.handler # "ran" BY <3>1 DEF Finalizing
    <3> QED BY <1>0, <2>1, <2>3, <2>4, <2>6, <3>2 DEF Finalizing
  <2> QED BY <2>5, <2>6
<1>13. ASSUME BeforeExit PROVE Finalizing'
  <2>1. /\ exit.alive /\ \A u \in Tasks : work[u] = NoWork
        /\ exit' = [exit EXCEPT !.handler = "ran"]
    BY <1>13 DEF BeforeExit
  <2>2. exit'.handler = "ran" /\ exit'.alive BY <2>1 DEF EmitterTypes
  <2>3. CASE state.run = 0
    <3>1. UNCHANGED <<state, work>> BY <1>13, <2>3 DEF BeforeExit
    <3> QED BY <2>1, <2>2, <2>3, <3>1 DEF Finalizing
  <2>4. CASE state.run # 0
    <3>1. Judge(Finalizer, FALSE, FALSE) BY <1>13, <2>4 DEF BeforeExit
    <3>2. work'[Finalizer].pc = "flush" /\ \A u \in AllTasks \ {Finalizer} : work'[u] = work[u]
      BY <1>0, <3>1, JudgeTypes
    <3> QED BY <1>0, <2>1, <2>2, <3>2 DEF Finalizing
  <2> QED BY <2>3, <2>4
<1>14. ASSUME Exit PROVE Finalizing'
  <2>1. /\ UNCHANGED <<state, work>> /\ exit' = [exit EXCEPT !.alive = FALSE]
        /\ exit.handler # "armed" /\ work[Finalizer] = NoWork
    BY <1>0, <1>14 DEF Exit
  <2>2. /\ exit'.handler = exit.handler /\ exit'.failed = exit.failed
        /\ exit.handler \in {"armed", "none", "ran"}
    BY <2>1 DEF EmitterTypes
  <2> QED BY <1>0, <2>1, <2>2 DEF Finalizing
<1>15. ASSUME Interrupt PROVE Finalizing'
  <2>1. UNCHANGED <<state, work>> /\ exit' = [exit EXCEPT !.alive = FALSE, !.interrupted = TRUE]
    BY <1>15 DEF Interrupt
  <2>2. exit'.handler = exit.handler /\ exit'.failed = exit.failed /\ exit'.interrupted
    BY <2>1 DEF EmitterTypes
  <2> QED BY <2>1, <2>2 DEF Finalizing
<1>16. ASSUME UNCHANGED emitterVars PROVE Finalizing'
  BY <1>16 DEF emitterVars, Finalizing
<1> QED
  BY <1>4, <1>5, <1>7, <1>8, <1>9, <1>10, <1>11, <1>12, <1>13, <1>14, <1>15, <1>16 DEF EmitterNext
-----------------------------------------------------------------------------
(* The inductive invariant holds in every state of every emitter.          *)
THEOREM EmitterInvariant == EmitterSpec => []EmitterInv
<1>1. EmitterInit => EmitterInv
  BY InitTypes, InitTokens, InitJudging, InitAccounting, InitFinalizing DEF EmitterInv
<1>2. EmitterInv /\ [EmitterNext]_emitterVars => EmitterInv'
  BY NextTypes, NextTokens, NextJudging, NextAccounting, NextFinalizing DEF EmitterInv
<1> QED BY <1>1, <1>2, PTL DEF EmitterSpec

(* startRun() and completeRun() lose no run: each run that was started is  *)
(* the current one, was replaced by another startRun(), or a request to    *)
(* complete it was answered, or it was forgotten with the run whose answer *)
(* a task waited for; and the exit handlers leave a run open only when     *)
(* they are cut off or fail.                                               *)
THEOREM EveryRunAccounted == EmitterSpec => []RunsAccounted
<1>1. EmitterInv => RunsAccounted BY DEF EmitterInv, Accounting, Accounted, Finalizing, RunsAccounted
<1> QED BY <1>1, EmitterInvariant, PTL

(* The tokens of an LLM call are on its own hop and at most one other,     *)
(* which emitEdge() gave the usage that the call's hop did not consume.    *)
THEOREM TokensCountedOnce == EmitterSpec => []OnlyHopRecounted
<1>1. EmitterInv => OnlyHopRecounted BY DEF EmitterInv, Tokens
<1> QED BY <1>1, EmitterInvariant, PTL

(* completeRun() reports a success under the gate in mode min over a hop   *)
(* below the accept level only when the hop came after the gate judged, or *)
(* belongs to another start of the run.                                    *)
THEOREM SuccessesAreJudged == EmitterSpec => []SuccessOverLowHop
<1>1. ASSUME EmitterInv PROVE SuccessOverLowHop
  <2>1. SUFFICES ASSUME GateMode = "min", NEW c \in completions, c.status = "success", c.gated,
                        NEW i \in DOMAIN sent, sent[i].conf < AcceptLevel
                 PROVE  i > c.edges \/ sent[i].epoch # c.epoch
    BY DEF SuccessOverLowHop
  <2>2. Sound(c, sent) /\ c \in Completing BY <1>1 DEF EmitterInv, Judging, EmitterTypes
  <2>3. sent[i] \in Edge /\ i \in Nat BY <1>1 DEF EmitterInv, EmitterTypes
  <2>4. sent[i].conf \in Nat /\ c.edges \in Nat BY <2>2, <2>3 DEF Edge, Completing
  <2>5. AcceptLevel \in Int BY EmitterAssumption DEF Absent
  <2>6. ~(sent[i].conf >= AcceptLevel) BY <2>1, <2>4, <2>5
  <2>7. ~(i <= c.edges /\ sent[i].epoch = c.epoch) BY <2>1, <2>2, <2>6 DEF Sound
  <2> QED BY <2>3, <2>4, <2>7
<1> QED BY <1>1, EmitterInvariant, PTL

(*************************************************************************)
(* Traced functions.  What a hop is told of its sources and its caller is*)
(* right because the frames of a thread are a chain: each call was made by*)
(* the one below it, and only the top one is past its body.              *)
(*************************************************************************)
Threads == 0..MaxTraced
Callers == Agents \cup {DefaultAgent}
Frame == [call : Nat \ {0}, agent : Agents, registry : 1..MaxTraced]
CallRecord ==
  [pc : {"body", "emitted", "leave", "done"}, parent : Nat, thread : Threads, agent : Agents,
   args : SUBSET Nat, caller : Callers, sources : SUBSET Nat, root : 1..MaxTraced,
   from : Callers, threw : BOOLEAN]

(* What a call has from its beginning.                                     *)
Begun(c) ==
  /\ calls[c].thread <= c /\ calls[c].parent < c
  /\ sdk = "ts" => calls[c].thread = 0
  /\ \A a \in calls[c].args : a \in TracedCalls

TraceTypes ==
  /\ sdk \in {"ts", "py"}
  /\ calls \in Seq(CallRecord) /\ Len(calls) <= MaxTraced
  /\ stack \in [Threads -> Seq(Frame)]
  /\ registry \in [1..MaxTraced -> SUBSET Nat]
  /\ overlapped \in BOOLEAN
  /\ \A c \in TracedCalls : Begun(c)

(* A frame for each call that is not over.                                 *)
ActiveIn(t) == {c \in Active : calls[c].thread = t}
FramesCount == \A t \in Threads : Len(stack[t]) = Cardinality(ActiveIn(t))

(* The frames of a thread are its calls that are not over, each made by    *)
(* the one below it, of which only the top one may be past its body.       *)
ChainOf(t) ==
  \A i \in DOMAIN stack[t] :
    /\ stack[t][i].call \in ActiveIn(t)
    /\ stack[t][i].agent = calls[stack[t][i].call].agent
    /\ stack[t][i].registry = calls[stack[t][i].call].root
    /\ i < Len(stack[t]) => /\ calls[stack[t][i].call].pc = "body"
                            /\ calls[stack[t][i + 1].call].parent = stack[t][i].call
OnStack(c) == \E i \in DOMAIN stack[calls[c].thread] : stack[calls[c].thread][i].call = c

(* A registry has what was returned within its outermost call.             *)
Registers(r) ==
  registry[r] = {a \in TracedCalls : calls[a].root = r /\ ~calls[a].threw /\ calls[a].pc \in {"leave", "done"}}

Told(c) ==
  /\ calls[c].sources = {a \in calls[c].args : calls[a].root = calls[c].root}
  /\ calls[c].caller = CallerAgent(c)
  /\ sdk = "py" /\ calls[c].pc # "body" => calls[c].from = CallerAgent(c)
  /\ calls[c].pc = "emitted" => ~calls[c].threw

Nested == sdk = "py" \/ ~overlapped
Nesting ==
  /\ \A t \in Threads : ChainOf(t)
  /\ \A c \in Active : OnStack(c)
  /\ \A r \in 1..MaxTraced : Registers(r)
  /\ \A c \in TracedCalls : Told(c)

TraceInv == TraceTypes /\ FramesCount /\ (Nested => Nesting)

LEMMA InitTrace == TraceInit => TraceInv
<1> SUFFICES ASSUME TraceInit PROVE TraceInv OBVIOUS
<1>1. calls = <<>> /\ TracedCalls = {} /\ Active = {} BY DEF TraceInit, TracedCalls, Active
<1>2. TraceTypes BY <1>1, TraceAssumption DEF TraceInit, TraceTypes, Threads
<1>3. FramesCount
  <2>1. \A t \in Threads : ActiveIn(t) = {} /\ Len(stack[t]) = 0 BY <1>1 DEF ActiveIn, TraceInit, Threads
  <2> QED BY <2>1, FS_EmptySet DEF FramesCount
<1>4. Nesting
  BY <1>1 DEF Nesting, ChainOf, Registers, TraceInit, Threads
<1> QED BY <1>2, <1>3, <1>4 DEF TraceInv

LEMMA ActiveFinite ==
  ASSUME TraceTypes, NEW t
  PROVE  IsFiniteSet(ActiveIn(t)) /\ Cardinality(ActiveIn(t)) \in Nat
<1>1. IsFiniteSet(1..Len(calls)) BY FS_Interval DEF TraceTypes
<1>2. ActiveIn(t) \subseteq 1..Len(calls) BY DEF ActiveIn, Active, TracedCalls, TraceTypes
<1> QED BY <1>1, <1>2, FS_Subset, FS_CardinalityType

LEMMA TracedTypes ==
  ASSUME TraceTypes
  PROVE  /\ TracedCalls = 1..Len(calls) /\ Len(calls) \in Nat
         /\ \A c \in TracedCalls :
              /\ calls[c] \in CallRecord /\ Begun(c)
              /\ calls[c].thread \in Threads /\ calls[c].parent \in Nat /\ calls[c].root \in 1..MaxTraced
              /\ calls[c].agent \in Agents /\ calls[c].caller \in Callers
<1>1. TracedCalls = 1..Len(calls) /\ Len(calls) \in Nat BY DEF TraceTypes, TracedCalls
<1>2. \A c \in TracedCalls : calls[c] \in CallRecord /\ Begun(c) BY <1>1 DEF TraceTypes
<1>3. \A c \in TracedCalls :
        /\ calls[c].thread \in Threads /\ calls[c].parent \in Nat /\ calls[c].root \in 1..MaxTraced
        /\ calls[c].agent \in Agents /\ calls[c].caller \in Callers
  BY <1>2 DEF CallRecord
<1> QED BY <1>1, <1>2, <1>3

(* While calls nest, a call that is not over and waits for no other is on  *)
(* top of its stack, and no other frame is its.                            *)
LEMMA OnTop ==
  ASSUME TraceTypes, Nesting, NEW c \in Active,
         calls[c].pc # "body" \/ \A d \in Active : Parent(d) # c
  PROVE  LET s == stack[calls[c].thread]
         IN  /\ s # <<>> /\ Len(s) \in DOMAIN s /\ Top(s) = s[Len(s)] /\ Top(s).call = c
             /\ Top(s).agent = calls[c].agent /\ Top(s).registry = calls[c].root
             /\ \A i \in DOMAIN s : i # Len(s) => s[i].call # c
<1> DEFINE t == calls[c].thread
           s == stack[t]
<1>1. t \in Threads /\ s \in Seq(Frame) BY TracedTypes DEF TraceTypes, Active
<1>2. ChainOf(t) /\ OnStack(c) BY <1>1 DEF Nesting
<1>3. \A i \in DOMAIN s : s[i].call = c => i = Len(s)
  <2> SUFFICES ASSUME NEW i \in DOMAIN s, s[i].call = c, i # Len(s) PROVE FALSE OBVIOUS
  <2>1. i < Len(s) /\ i + 1 \in DOMAIN s BY <1>1
  <2>2. calls[c].pc = "body" /\ calls[s[i + 1].call].parent = c BY <1>2, <2>1 DEF ChainOf
  <2>3. s[i + 1].call \in Active BY <1>2, <2>1 DEF ChainOf, ActiveIn
  <2> QED BY <2>2, <2>3 DEF Parent
<1>4. PICK i \in DOMAIN s : s[i].call = c BY <1>2 DEF OnStack
<1>5. i = Len(s) BY <1>3, <1>4
<1>6. s # <<>> /\ Top(s) = s[Len(s)] BY <1>1, <1>4 DEF Top, Last
<1>7. s[i].agent = calls[c].agent /\ s[i].registry = calls[c].root BY <1>2, <1>4 DEF ChainOf
<1> QED BY <1>3, <1>4, <1>5, <1>6, <1>7

LEMMA EnterStep == ASSUME TraceInv, Enter PROVE TraceInv'
<1>1. PICK p \in {0} \cup {c \in TracedCalls : CanCall(c)}, agent \in Agents, args \in SUBSET Returned :
         LET c == Len(calls) + 1
             thread == Thread(p, c)
             top == Top(stack[thread])
             reg == IF top.registry = 0 THEN c ELSE top.registry
         IN /\ sdk = "py" => \A d \in Active : Parent(d) = p => p = 0
            /\ calls' = Append(calls,
                 [pc |-> "body", parent |-> p, thread |-> thread, agent |-> agent, args |-> args,
                  caller |-> top.agent, sources |-> args \cap registry[reg],
                  root |-> IF p = 0 THEN c ELSE calls[p].root, from |-> DefaultAgent, threw |-> FALSE])
            /\ stack' = [stack EXCEPT ![thread] = Append(@, [call |-> c, agent |-> agent, registry |-> reg])]
            /\ overlapped' = (overlapped \/ top.call # p \/ (p # 0 /\ calls[p].pc # "body"))
  BY DEF Enter
<1> DEFINE c == Len(calls) + 1
           thread == Thread(p, c)
           s == stack[thread]
           top == Top(s)
           reg == IF top.registry = 0 THEN c ELSE top.registry
           call == [pc |-> "body", parent |-> p, thread |-> thread, agent |-> agent, args |-> args,
                    caller |-> top.agent, sources |-> args \cap registry[reg],
                    root |-> IF p = 0 THEN c ELSE calls[p].root, from |-> DefaultAgent, threw |-> FALSE]
           frame == [call |-> c, agent |-> agent, registry |-> reg]
<1>2. /\ sdk = "py" => \A d \in Active : Parent(d) = p => p = 0
      /\ calls' = Append(calls, call)
      /\ stack' = [stack EXCEPT ![thread] = Append(@, frame)]
      /\ overlapped' = (overlapped \/ top.call # p \/ (p # 0 /\ calls[p].pc # "body"))
      /\ UNCHANGED <<sdk, registry>>
      /\ c <= MaxTraced
  <2>1. Len(calls) \in Nat /\ Len(calls) < MaxTraced BY DEF Enter, TraceInv, TraceTypes
  <2>2. UNCHANGED <<sdk, registry>> BY DEF Enter
  <2> QED BY <1>1, <2>1, <2>2, TraceAssumption
<1>3. /\ c \in 1..MaxTraced /\ Len(calls) \in Nat /\ TracedCalls = 1..Len(calls)
      /\ p \in Nat /\ p < c
      /\ p # 0 => /\ p \in TracedCalls /\ calls[p] \in CallRecord /\ Begun(p)
                  /\ calls[p].thread \in Threads /\ calls[p].root \in 1..MaxTraced
  <2>1. Len(calls) \in Nat /\ TracedCalls = 1..Len(calls) BY TracedTypes DEF TraceInv
  <2>2. c \in 1..MaxTraced BY <1>2, <2>1
  <2>3. p # 0 => p \in TracedCalls OBVIOUS
  <2>4. p \in Nat /\ p < c BY <2>1, <2>3
  <2> QED BY <2>1, <2>2, <2>3, <2>4, TracedTypes DEF TraceInv
<1>4. thread \in Threads /\ thread <= c /\ (sdk = "ts" => thread = 0)
  <2>1. CASE sdk = "ts" BY <1>3, <2>1, TraceAssumption DEF Thread, Threads
  <2>2. CASE sdk # "ts" /\ p = 0 BY <1>3, <2>2, TraceAssumption DEF Thread, Threads
  <2>3. CASE sdk # "ts" /\ p # 0
    <3>1. thread = calls[p].thread BY <2>3 DEF Thread
    <3>2. calls[p].thread <= p /\ calls[p].thread \in Nat BY <1>3, <2>3 DEF Begun, Threads
    <3> QED BY <1>3, <2>3, <3>1, <3>2
  <2> QED BY <2>1, <2>2, <2>3
<1>5. s \in Seq(Frame) BY <1>4 DEF TraceInv, TraceTypes
<1>6. /\ top.agent \in Callers /\ reg \in 1..MaxTraced
      /\ s # <<>> => top = s[Len(s)] /\ Len(s) \in DOMAIN s /\ reg = top.registry /\ top.call # 0
      /\ s = <<>> => top.call = 0 /\ reg = c /\ top.agent = DefaultAgent
  <2>1. CASE s = <<>> BY <1>3, <2>1 DEF Top, Callers
  <2>2. CASE s # <<>>
    <3>1. top = s[Len(s)] /\ Len(s) \in DOMAIN s /\ top \in Frame BY <1>5, <2>2 DEF Top, Last
    <3> QED BY <2>2, <3>1, TraceAssumption DEF Frame, Callers
  <2> QED BY <2>1, <2>2
<1>7. args \subseteq 1..Len(calls) BY <1>3 DEF Returned
<1>8. call \in CallRecord /\ frame \in Frame
  <2>1. call.root \in 1..MaxTraced BY <1>3
  <2>2. args \in SUBSET Nat /\ args \cap registry[reg] \in SUBSET Nat
    <3>1. \A a \in args : a \in Nat BY <1>3, <1>7
    <3> QED BY <3>1
  <2>3. call.from \in Callers BY DEF Callers
  <2>4. call \in CallRecord BY <1>3, <1>4, <1>6, <2>1, <2>2, <2>3 DEF CallRecord
  <2>5. frame \in Frame BY <1>3, <1>6 DEF Frame
  <2> QED BY <2>4, <2>5
<1>15. /\ call.pc = "body" /\ call.parent = p /\ call.thread = thread /\ call.agent = agent /\ call.args = args
       /\ call.caller = top.agent /\ call.sources = args \cap registry[reg] /\ call.threw = FALSE
       /\ call.root = IF p = 0 THEN c ELSE calls[p].root
       /\ frame.call = c /\ frame.agent = agent /\ frame.registry = reg
  OBVIOUS
<1>16. c = Len(calls) + 1 /\ s = stack[thread] OBVIOUS
<1> HIDE DEF c, thread, s, call, frame, reg, top
<1> USE <1>16
<1>9. /\ calls' \in Seq(CallRecord) /\ Len(calls') = c /\ TracedCalls' = TracedCalls \cup {c} /\ c \notin TracedCalls
      /\ calls'[c] = call /\ \A d \in TracedCalls : calls'[d] = calls[d]
  BY <1>2, <1>3, <1>8 DEF TraceInv, TraceTypes, TracedCalls
<1>10. /\ stack' \in [Threads -> Seq(Frame)]
       /\ stack'[thread] = Append(s, frame) /\ \A t \in Threads : t # thread => stack'[t] = stack[t]
  BY <1>2, <1>4, <1>5, <1>8 DEF TraceInv, TraceTypes
<1>11. Active' = Active \cup {c} /\ c \notin Active
  BY <1>9, <1>15 DEF Active
<1>12. TraceTypes'
  <2>1. ASSUME NEW d, d = c PROVE Begun(d)' BY <2>1, <1>2, <1>3, <1>4, <1>7, <1>9, <1>15 DEF Begun
  <2>2. \A d \in TracedCalls : Begun(d)' BY <1>2, <1>9 DEF Begun, TraceInv, TraceTypes
  <2>3. overlapped' \in BOOLEAN BY <1>2 DEF TraceInv, TraceTypes
  <2>4. \A d \in TracedCalls' : Begun(d)' BY <1>9, <2>1, <2>2
  <2> QED BY <1>2, <1>9, <1>10, <2>3, <2>4 DEF TraceInv, TraceTypes
<1>13. FramesCount'
  <2> SUFFICES ASSUME NEW t \in Threads PROVE Len(stack'[t]) = Cardinality(ActiveIn(t)') BY DEF FramesCount
  <2>1. IsFiniteSet(ActiveIn(t)) /\ Cardinality(ActiveIn(t)) \in Nat /\ Len(stack[t]) = Cardinality(ActiveIn(t))
    BY ActiveFinite DEF TraceInv, FramesCount
  <2>2. CASE t = thread
    <3>1. ActiveIn(t)' = ActiveIn(t) \cup {c} /\ c \notin ActiveIn(t)
      BY <1>9, <1>11, <2>2, <1>15 DEF ActiveIn, Active
    <3>2. Cardinality(ActiveIn(t) \cup {c}) = Cardinality(ActiveIn(t)) + 1 BY <2>1, <3>1, FS_AddElement
    <3>3. Len(Append(s, frame)) = Len(s) + 1 BY <1>5
    <3> QED BY <1>10, <2>1, <2>2, <3>1, <3>2, <3>3
  <2>3. CASE t # thread
    <3>1. ActiveIn(t)' = ActiveIn(t) BY <1>9, <1>11, <2>3, <1>15 DEF ActiveIn, Active
    <3> QED BY <1>10, <2>1, <2>3, <3>1
  <2> QED BY <2>2, <2>3
<1>14. ASSUME Nested' PROVE Nesting'
  <2>1. Nested /\ Nesting BY <1>2, <1>14 DEF TraceInv, Nested
  <2>8. p # 0 => calls[p].pc = "body" /\ p \in Active
    <3>1. sdk = "ts" => ~overlapped' BY <1>2, <1>14 DEF Nested
    <3>2. p # 0 => calls[p].pc = "body"
      BY <1>2, <3>1 DEF CanCall, TraceInv, TraceTypes
    <3> QED BY <3>2 DEF Active
  <2>2. top.call = p
    <3>1. CASE sdk = "ts" BY <1>2, <1>14, <3>1 DEF Nested
    <3>2. CASE sdk = "py" /\ p = 0
      <4>1. thread = c BY <3>2 DEF Thread, thread
      <4>2. s = <<>>
        <5> SUFFICES ASSUME s # <<>> PROVE FALSE OBVIOUS
        <5>1. s[Len(s)].call \in ActiveIn(thread) BY <1>4, <1>6, <2>1 DEF Nesting, ChainOf
        <5>2. \A d \in Active : calls[d].thread <= d /\ d <= Len(calls)
          BY <1>3, TracedTypes DEF TraceInv, Begun, Active
        <5>3. s[Len(s)].call \in Active /\ calls[s[Len(s)].call].thread = c BY <4>1, <5>1 DEF ActiveIn
        <5>4. s[Len(s)].call \in Nat BY <1>3, <5>3 DEF Active
        <5> QED BY <1>3, <5>2, <5>3, <5>4
      <4> QED BY <1>6, <3>2, <4>2
    <3>3. CASE sdk = "py" /\ p # 0
      <4>1. thread = calls[p].thread /\ p \in Active BY <2>8, <3>3 DEF Thread, thread
      <4>2. \A d \in Active : Parent(d) # p BY <1>2, <3>3
      <4>3. Top(s).call = p BY <2>1, <4>1, <4>2, OnTop DEF TraceInv, s
      <4> QED BY <4>3 DEF top
    <3> QED BY <3>1, <3>2, <3>3 DEF TraceInv, TraceTypes
  <2>3. /\ p = 0 <=> s = <<>>
        /\ p # 0 => top.agent = calls[p].agent /\ reg = calls[p].root /\ calls[p].pc = "body" /\ p \in ActiveIn(thread)
        /\ reg = call.root
    <3>1. p = 0 <=> s = <<>> BY <1>6, <2>2
    <3>2. ASSUME p # 0 PROVE top.agent = calls[p].agent /\ reg = calls[p].root /\ p \in ActiveIn(thread)
      <4>1. ChainOf(thread) BY <1>4, <2>1 DEF Nesting
      <4> QED BY <1>6, <2>2, <3>1, <3>2, <4>1 DEF ChainOf
    <3>3. p # 0 => calls[p].pc = "body" BY <2>8
    <3>4. reg = call.root BY <1>6, <3>1, <3>2, <1>15
    <3> QED BY <3>1, <3>2, <3>3, <3>4
  <2>4. ASSUME NEW t \in Threads PROVE ChainOf(t)'
    <3>1. ChainOf(t) BY <2>1 DEF Nesting
    <3>2. \A d \in ActiveIn(t) : d \in ActiveIn(t)' /\ calls'[d] = calls[d]
      BY <1>9, <1>11 DEF ActiveIn, Active
    <3>3. CASE t # thread
      <4>1. stack'[t] = stack[t] /\ stack[t] \in Seq(Frame) BY <1>10, <3>3 DEF TraceInv, TraceTypes
      <4>2. \A i \in DOMAIN stack[t] : i < Len(stack[t]) => i + 1 \in DOMAIN stack[t] BY <4>1
      <4> QED BY <3>1, <3>2, <4>1, <4>2 DEF ChainOf
    <3>4. CASE t = thread
      <4>1. /\ DOMAIN stack'[t] = DOMAIN s \cup {Len(s) + 1} /\ Len(stack'[t]) = Len(s) + 1
            /\ stack'[t][Len(s) + 1] = frame
            /\ \A i \in DOMAIN s : stack'[t][i] = s[i] /\ i < Len(s) + 1 /\ i \in Nat /\ (i < Len(s) => i + 1 \in DOMAIN s)
            /\ \A i \in DOMAIN s : i < Len(s) \/ i = Len(s)
        BY <1>5, <1>10, <3>4
      <4>2. c \in ActiveIn(t)' /\ frame.call = c /\ frame.agent = calls'[c].agent /\ frame.registry = calls'[c].root
        BY <1>9, <1>11, <2>3, <3>4, <1>15 DEF ActiveIn
      <4>3. s # <<>> => s[Len(s)].call = p /\ calls'[c].parent = p /\ calls'[p].pc = "body"
        BY <1>6, <1>9, <2>2, <2>3, <3>2, <3>4, <1>15
      <4> SUFFICES ASSUME NEW i \in DOMAIN stack'[t]
                   PROVE  /\ stack'[t][i].call \in ActiveIn(t)'
                          /\ stack'[t][i].agent = calls'[stack'[t][i].call].agent
                          /\ stack'[t][i].registry = calls'[stack'[t][i].call].root
                          /\ i < Len(stack'[t]) => /\ calls'[stack'[t][i].call].pc = "body"
                                                   /\ calls'[stack'[t][i + 1].call].parent = stack'[t][i].call
        BY DEF ChainOf
      <4>4. CASE i = Len(s) + 1 BY <1>5, <4>1, <4>2, <4>4
      <4>5. CASE i \in DOMAIN s /\ i < Len(s)
        <5>1. s[i].call \in ActiveIn(t) /\ s[i + 1].call \in ActiveIn(t) BY <3>1, <3>4, <4>1, <4>5 DEF ChainOf
        <5>2. /\ s[i].agent = calls[s[i].call].agent /\ s[i].registry = calls[s[i].call].root
              /\ calls[s[i].call].pc = "body" /\ calls[s[i + 1].call].parent = s[i].call
          BY <3>1, <3>4, <4>5 DEF ChainOf
        <5>3. calls'[s[i].call] = calls[s[i].call] /\ calls'[s[i + 1].call] = calls[s[i + 1].call]
              /\ s[i].call \in ActiveIn(t)'
          BY <3>2, <5>1
        <5>4. stack'[t][i] = s[i] /\ stack'[t][i + 1] = s[i + 1] BY <4>1, <4>5
        <5> QED BY <5>2, <5>3, <5>4
      <4>6. CASE i \in DOMAIN s /\ i = Len(s)
        <5>1. s[i].call \in ActiveIn(t) /\ s # <<>> BY <1>5, <3>1, <3>4, <4>6 DEF ChainOf
        <5>2. s[i].agent = calls[s[i].call].agent /\ s[i].registry = calls[s[i].call].root
          BY <3>1, <3>4, <4>6 DEF ChainOf
        <5>3. calls'[s[i].call] = calls[s[i].call] /\ s[i].call \in ActiveIn(t)' BY <3>2, <5>1
        <5>4. stack'[t][i] = s[i] /\ stack'[t][i + 1] = frame BY <4>1, <4>6
        <5> QED BY <4>2, <4>3, <4>6, <5>1, <5>2, <5>3, <5>4
      <4> QED BY <4>1, <4>4, <4>5, <4>6
    <3> QED BY <3>3, <3>4
  <2>5. ASSUME NEW d \in Active' PROVE OnStack(d)'
    <3>1. CASE d = c
      <4>1. calls'[d].thread = thread BY <1>9, <3>1, <1>15
      <4>2. Len(s) + 1 \in DOMAIN stack'[thread] /\ stack'[thread][Len(s) + 1] = frame BY <1>5, <1>10
      <4> QED BY <3>1, <4>1, <4>2, <1>15 DEF OnStack
    <3>2. CASE d # c
      <4>1. d \in Active /\ calls'[d] = calls[d] /\ calls[d].thread \in Threads
        BY <1>9, <1>11, <3>2, TracedTypes DEF Active, TraceInv
      <4>2. PICK i \in DOMAIN stack[calls[d].thread] : stack[calls[d].thread][i].call = d
        BY <2>1, <4>1 DEF Nesting, OnStack
      <4>3. CASE calls[d].thread # thread BY <1>10, <4>1, <4>2, <4>3 DEF OnStack
      <4>4. CASE calls[d].thread = thread
        <5>1. i \in DOMAIN stack'[thread] /\ stack'[thread][i] = s[i] BY <1>5, <1>10, <4>2, <4>4
        <5> QED BY <4>1, <4>2, <4>4, <5>1 DEF OnStack
      <4> QED BY <4>3, <4>4
    <3> QED BY <3>1, <3>2
  <2>6. ASSUME NEW r \in 1..MaxTraced PROVE Registers(r)'
    <3>1. Registers(r) BY <2>1 DEF Nesting
    <3> QED BY <1>2, <1>9, <3>1, <1>15 DEF Registers
  <2>7. ASSUME NEW d \in TracedCalls' PROVE Told(d)'
    <3>1. CASE d # c
      <4>1. Told(d) /\ Begun(d) /\ d \in TracedCalls BY <1>9, <2>1, <3>1 DEF Nesting, TraceInv, TraceTypes
      <4>2. /\ calls'[d] = calls[d] /\ \A a \in calls[d].args : calls'[a] = calls[a]
            /\ calls[d].parent # 0 => calls'[calls[d].parent] = calls[calls[d].parent]
        <5>1. calls[d] \in CallRecord BY <4>1 DEF TraceInv, TraceTypes, TracedCalls
        <5>2. calls[d].parent # 0 => calls[d].parent \in TracedCalls
          BY <1>3, <4>1, <5>1 DEF Begun, CallRecord
        <5> QED BY <1>9, <4>1, <5>2 DEF Begun
      <4> QED BY <1>2, <4>1, <4>2 DEF Told, CallerAgent, Parent
    <3>2. CASE d = c
      <4>1. Registers(reg) BY <1>6, <2>1 DEF Nesting
      <4>2. args \cap registry[reg] = {a \in args : calls[a].root = reg} BY <4>1 DEF Registers, Returned
      <4>3. calls'[c].sources = {a \in args : calls'[a].root = calls'[c].root}
        <5>1. \A a \in args : calls'[a] = calls[a] BY <1>3, <1>7, <1>9
        <5>2. calls'[c].sources = args \cap registry[reg] /\ calls'[c].root = reg BY <1>9, <1>15, <2>3
        <5> QED BY <4>2, <5>1, <5>2
      <4>4. calls'[c].caller = CallerAgent(d)'
        <5>1. calls'[d].parent = p /\ calls'[d].caller = top.agent BY <1>9, <1>15, <3>2
        <5>2. p # 0 => calls'[p] = calls[p] BY <1>3, <1>9
        <5> QED BY <1>6, <2>3, <3>2, <5>1, <5>2 DEF CallerAgent, Parent
      <4> QED BY <1>9, <3>2, <4>3, <4>4, <1>15 DEF Told
    <3> QED BY <3>1, <3>2
  <2> QED BY <2>4, <2>5, <2>6, <2>7 DEF Nesting
<1> QED BY <1>12, <1>13, <1>14 DEF TraceInv

(* A call that goes on keeps what it had from its beginning.               *)
GoesOn(c, call) ==
  /\ c \in TracedCalls /\ call \in CallRecord
  /\ calls' = [calls EXCEPT ![c] = call]
  /\ call.parent = calls[c].parent /\ call.thread = calls[c].thread /\ call.agent = calls[c].agent
  /\ call.args = calls[c].args /\ call.sources = calls[c].sources /\ call.caller = calls[c].caller
  /\ call.root = calls[c].root
  /\ sdk' = sdk

LEMMA GoesOnFacts ==
  ASSUME TraceTypes, NEW c, NEW call, GoesOn(c, call)
  PROVE  /\ calls' \in Seq(CallRecord) /\ Len(calls') = Len(calls) /\ TracedCalls' = TracedCalls
         /\ calls'[c] = call /\ \A d \in TracedCalls : d # c => calls'[d] = calls[d]
         /\ \A d \in TracedCalls : Begun(d)' /\ CallerAgent(d)' = CallerAgent(d)
         /\ \A d \in TracedCalls :
              /\ calls'[d].parent = calls[d].parent /\ calls'[d].thread = calls[d].thread
              /\ calls'[d].agent = calls[d].agent /\ calls'[d].root = calls[d].root
              /\ calls'[d].args = calls[d].args /\ calls'[d].sources = calls[d].sources
              /\ calls'[d].caller = calls[d].caller
<1>1. c \in 1..Len(calls) /\ calls \in Seq(CallRecord) /\ call \in CallRecord /\ TracedCalls = 1..Len(calls)
  BY TracedTypes DEF GoesOn, TraceTypes
<1>2. /\ calls' \in Seq(CallRecord) /\ Len(calls') = Len(calls) /\ TracedCalls' = TracedCalls
      /\ calls'[c] = call /\ \A d \in TracedCalls : d # c => calls'[d] = calls[d]
  BY <1>1 DEF GoesOn, TracedCalls
<1>3. ASSUME NEW d \in TracedCalls
      PROVE  /\ calls'[d].parent = calls[d].parent /\ calls'[d].thread = calls[d].thread
             /\ calls'[d].agent = calls[d].agent /\ calls'[d].root = calls[d].root
             /\ calls'[d].args = calls[d].args /\ calls'[d].sources = calls[d].sources
             /\ calls'[d].caller = calls[d].caller
  BY <1>2 DEF GoesOn
<1>4. \A d \in TracedCalls : Begun(d)' BY <1>2, <1>3, TracedTypes DEF Begun, GoesOn
<1>5. \A d \in TracedCalls : CallerAgent(d)' = CallerAgent(d)
  <2> SUFFICES ASSUME NEW d \in TracedCalls PROVE CallerAgent(d)' = CallerAgent(d) OBVIOUS
  <2>1. calls[d].parent # 0 => calls[d].parent \in TracedCalls
    BY TracedTypes DEF Begun
  <2> QED BY <1>3, <2>1 DEF CallerAgent, Parent
<1> QED BY <1>2, <1>3, <1>4, <1>5

(* A call goes on, and no frame comes or goes.                             *)
LEMMA GoesOnStep ==
  ASSUME TraceInv, NEW c \in Active, NEW call, GoesOn(c, call), call.pc # "done",
         stack' = stack, registry' \in [1..MaxTraced -> SUBSET Nat], overlapped' \in BOOLEAN,
         Nested' => Nested /\ (calls[c].pc # "body" \/ \A d \in Active : Parent(d) # c),
         Nested => /\ \A r \in 1..MaxTraced : Registers(r)'
                   /\ Told(c)'
  PROVE  TraceInv'
<1>1. /\ calls' \in Seq(CallRecord) /\ Len(calls') = Len(calls) /\ TracedCalls' = TracedCalls
      /\ calls'[c] = call /\ \A d \in TracedCalls : d # c => calls'[d] = calls[d]
      /\ \A d \in TracedCalls : Begun(d)' /\ CallerAgent(d)' = CallerAgent(d)
      /\ \A d \in TracedCalls :
           /\ calls'[d].parent = calls[d].parent /\ calls'[d].thread = calls[d].thread
           /\ calls'[d].agent = calls[d].agent /\ calls'[d].root = calls[d].root
           /\ calls'[d].args = calls[d].args /\ calls'[d].sources = calls[d].sources
           /\ calls'[d].caller = calls[d].caller
  BY GoesOnFacts DEF TraceInv
<1>2. sdk' = sdk BY DEF GoesOn
<1>3. Active' = Active BY <1>1 DEF Active
<1>4. \A t : ActiveIn(t)' = ActiveIn(t) BY <1>1, <1>3 DEF ActiveIn, Active
<1>5. TraceTypes' BY <1>1, <1>2 DEF TraceInv, TraceTypes
<1>6. FramesCount' BY <1>4 DEF TraceInv, FramesCount
<1>7. ASSUME Nested' PROVE Nesting'
  <2>1. /\ Nested /\ Nesting
        /\ calls[c].pc # "body" \/ \A d \in Active : Parent(d) # c
    BY <1>7 DEF TraceInv
  <2>2. ASSUME NEW t \in Threads PROVE ChainOf(t)'
    <3>1. ChainOf(t) /\ stack[t] \in Seq(Frame) BY <2>1 DEF Nesting, TraceInv, TraceTypes
    <3>2. \A i \in DOMAIN stack[t] :
            /\ stack[t][i].call \in TracedCalls
            /\ i < Len(stack[t]) => i + 1 \in DOMAIN stack[t] /\ stack[t][i].call # c
      <4> SUFFICES ASSUME NEW i \in DOMAIN stack[t]
                   PROVE  /\ stack[t][i].call \in TracedCalls
                          /\ i < Len(stack[t]) => i + 1 \in DOMAIN stack[t] /\ stack[t][i].call # c
        OBVIOUS
      <4>1. stack[t][i].call \in ActiveIn(t) BY <3>1 DEF ChainOf
      <4>2. i < Len(stack[t]) => i + 1 \in DOMAIN stack[t] BY <3>1
      <4>3. i < Len(stack[t]) => stack[t][i].call # c
        <5> SUFFICES ASSUME i < Len(stack[t]), stack[t][i].call = c PROVE FALSE OBVIOUS
        <5>1. calls[c].thread = t BY <4>1 DEF ActiveIn
        <5>2. \A j \in DOMAIN stack[t] : j # Len(stack[t]) => stack[t][j].call # c
          BY <2>1, <5>1, OnTop DEF TraceInv
        <5>3. i # Len(stack[t]) BY <3>1
        <5> QED BY <5>2, <5>3
      <4> QED BY <4>1, <4>2, <4>3 DEF ActiveIn, Active
    <3>3. \A i \in DOMAIN stack[t] : i < Len(stack[t]) => stack[t][i + 1].call \in TracedCalls BY <3>2
    <3> SUFFICES ASSUME NEW i \in DOMAIN stack'[t]
                 PROVE  /\ stack'[t][i].call \in ActiveIn(t)'
                        /\ stack'[t][i].agent = calls'[stack'[t][i].call].agent
                        /\ stack'[t][i].registry = calls'[stack'[t][i].call].root
                        /\ i < Len(stack'[t]) => /\ calls'[stack'[t][i].call].pc = "body"
                                                 /\ calls'[stack'[t][i + 1].call].parent = stack'[t][i].call
      BY DEF ChainOf
    <3>4. i \in DOMAIN stack[t] /\ stack'[t] = stack[t] OBVIOUS
    <3>5. stack[t][i].call \in ActiveIn(t)' BY <1>4, <3>1, <3>4 DEF ChainOf
    <3>6. stack[t][i].agent = calls'[stack[t][i].call].agent /\ stack[t][i].registry = calls'[stack[t][i].call].root
      BY <1>1, <3>1, <3>2, <3>4 DEF ChainOf
    <3>7. i < Len(stack[t]) => calls'[stack[t][i].call].pc = "body" BY <1>1, <3>1, <3>2, <3>4 DEF ChainOf
    <3>8. i < Len(stack[t]) => calls'[stack[t][i + 1].call].parent = stack[t][i].call
      BY <1>1, <3>1, <3>3, <3>4 DEF ChainOf
    <3> QED BY <3>4, <3>5, <3>6, <3>7, <3>8
  <2>3. ASSUME NEW d \in Active' PROVE OnStack(d)'
    <3>1. OnStack(d) /\ d \in TracedCalls BY <1>3, <2>1 DEF Nesting, Active
    <3> QED BY <1>1, <3>1 DEF OnStack
  <2>4. ASSUME NEW d \in TracedCalls' PROVE Told(d)'
    <3>1. CASE d = c BY <2>1, <3>1
    <3>2. CASE d # c
      <4>1. Told(d) /\ d \in TracedCalls BY <1>1, <2>1 DEF Nesting
      <4>2. \A a \in calls[d].args : calls'[a].root = calls[a].root
        BY <1>1, <4>1, TracedTypes DEF TraceInv, Begun
      <4> QED BY <1>1, <1>2, <3>2, <4>1, <4>2 DEF Told
    <3> QED BY <3>1, <3>2
  <2> QED BY <2>1, <2>2, <2>3, <2>4 DEF Nesting
<1> QED BY <1>5, <1>6, <1>7 DEF TraceInv

LEMMA EmitTrace == ASSUME TraceInv, NEW c \in TracedCalls, Emit(c) PROVE TraceInv'
<1>1. PICK threw \in BOOLEAN :
        calls' = [calls EXCEPT ![c].pc = IF threw THEN "leave" ELSE "emitted",
                               ![c].threw = threw, ![c].from = ParentAgent(c)]
  BY DEF Emit
<1> DEFINE pc == IF threw THEN "leave" ELSE "emitted"
           from == ParentAgent(c)
           call == [calls[c] EXCEPT !.pc = pc, !.threw = threw, !.from = from]
<1>2. /\ calls[c].pc = "body" /\ c \in Active
      /\ sdk = "py" => \A d \in Active : Parent(d) # c
      /\ overlapped' = (overlapped \/ \E d \in Active : Parent(d) = c)
      /\ UNCHANGED <<sdk, stack, registry>>
  BY DEF Emit, Active
<1>3. calls[c] \in CallRecord /\ calls[c].thread \in Threads /\ stack[calls[c].thread] \in Seq(Frame)
      /\ calls[c].caller \in Callers
  BY TracedTypes DEF TraceInv, TraceTypes
<1>4. from \in Callers
  <2>1. CASE stack[calls[c].thread] = <<>>
    BY <1>3, <2>1 DEF ParentAgent, TopAgent, Top, Callers
  <2>2. CASE stack[calls[c].thread] # <<>>
    <3>1. Last(stack[calls[c].thread]) \in Frame BY <1>3, <2>2 DEF Last
    <3> QED BY <1>3, <2>2, <3>1 DEF ParentAgent, TopAgent, Top, Callers, Frame
  <2> QED BY <2>1, <2>2
<1>5. pc \in {"leave", "emitted"} OBVIOUS
<1>6. calls' = [calls EXCEPT ![c] = call] BY <1>1, Zenon
<1> HIDE DEF from, pc
<1>7. /\ call \in CallRecord /\ call.pc = pc /\ call.threw = threw /\ call.from = from
      /\ call.parent = calls[c].parent /\ call.thread = calls[c].thread /\ call.agent = calls[c].agent
      /\ call.args = calls[c].args /\ call.sources = calls[c].sources /\ call.caller = calls[c].caller
      /\ call.root = calls[c].root
  BY <1>3, <1>4, <1>5 DEF CallRecord
<1> HIDE DEF call
<1>8. GoesOn(c, call) BY <1>2, <1>6, <1>7 DEF GoesOn
<1>9. /\ TracedCalls' = TracedCalls
      /\ calls'[c] = call /\ \A d \in TracedCalls : d # c => calls'[d] = calls[d]
      /\ \A d \in TracedCalls : CallerAgent(d)' = CallerAgent(d) /\ calls'[d].root = calls[d].root
  BY <1>8, GoesOnFacts DEF TraceInv
<1>10. ASSUME Nested PROVE (\A r \in 1..MaxTraced : Registers(r)') /\ Told(c)'
  <2>1. Nesting BY <1>10 DEF TraceInv
  <2>2. \A r \in 1..MaxTraced : Registers(r)'
    <3> SUFFICES ASSUME NEW r \in 1..MaxTraced PROVE Registers(r)' OBVIOUS
    <3>1. Registers(r) BY <2>1 DEF Nesting
    <3>2. \A a \in TracedCalls :
            (~calls'[a].threw /\ calls'[a].pc \in {"leave", "done"}) = (~calls[a].threw /\ calls[a].pc \in {"leave", "done"})
      <4>1. ~threw => pc = "emitted" BY DEF pc
      <4> QED BY <1>2, <1>5, <1>7, <1>9, <4>1
    <3> QED BY <1>2, <1>9, <3>1, <3>2 DEF Registers
  <2>3. Told(c)'
    <3>1. Told(c) BY <2>1 DEF Nesting
    <3>2. sdk = "py" => from = CallerAgent(c) BY <3>1 DEF from, ParentAgent, Told
    <3>3. \A a \in calls[c].args : calls'[a].root = calls[a].root
      BY <1>9, TracedTypes DEF TraceInv, Begun
    <3>4. pc = "emitted" => ~threw BY DEF pc
    <3> QED BY <1>2, <1>7, <1>9, <3>1, <3>2, <3>3, <3>4 DEF Told
  <2> QED BY <2>2, <2>3
<1>11. registry' \in [1..MaxTraced -> SUBSET Nat] BY <1>2 DEF TraceInv, TraceTypes
<1>12. call.pc # "done" BY <1>5, <1>7
<1>13. Nested' => Nested /\ \A d \in Active : Parent(d) # c BY <1>2 DEF Nested
<1>14. overlapped' \in BOOLEAN BY <1>2 DEF TraceInv, TraceTypes
<1> QED BY <1>2, <1>8, <1>10, <1>11, <1>12, <1>13, <1>14, GoesOnStep

LEMMA RegisterTrace == ASSUME TraceInv, NEW c \in TracedCalls, Register(c) PROVE TraceInv'
<1> DEFINE reg == Top(stack[calls[c].thread]).registry
           call == [calls[c] EXCEPT !.pc = "leave"]
<1>1. /\ calls[c].pc = "emitted" /\ c \in Active
      /\ registry' = IF reg = 0 THEN registry ELSE [registry EXCEPT ![reg] = @ \cup {c}]
      /\ calls' = [calls EXCEPT ![c] = call]
      /\ UNCHANGED <<sdk, stack, overlapped>>
  BY DEF Register, Active
<1>2. calls[c] \in CallRecord /\ c \in Nat BY TracedTypes DEF TraceInv
<1> HIDE DEF reg
<1>3. /\ call \in CallRecord /\ call.pc = "leave" /\ call.threw = calls[c].threw /\ call.from = calls[c].from
      /\ call.parent = calls[c].parent /\ call.thread = calls[c].thread /\ call.agent = calls[c].agent
      /\ call.args = calls[c].args /\ call.sources = calls[c].sources /\ call.caller = calls[c].caller
      /\ call.root = calls[c].root
  BY <1>2 DEF CallRecord
<1> HIDE DEF call
<1>4. GoesOn(c, call) BY <1>1, <1>3 DEF GoesOn
<1>5. /\ TracedCalls' = TracedCalls
      /\ calls'[c] = call /\ \A d \in TracedCalls : d # c => calls'[d] = calls[d]
      /\ \A d \in TracedCalls : CallerAgent(d)' = CallerAgent(d) /\ calls'[d].root = calls[d].root
  BY <1>4, GoesOnFacts DEF TraceInv
<1>6. registry' \in [1..MaxTraced -> SUBSET Nat] BY <1>1, <1>2 DEF TraceInv, TraceTypes
<1>7. ASSUME Nested PROVE (\A r \in 1..MaxTraced : Registers(r)') /\ Told(c)'
  <2>1. Nesting BY <1>7 DEF TraceInv
  <2>2. reg = calls[c].root /\ reg \in 1..MaxTraced
    BY <1>1, <2>1, OnTop, TracedTypes DEF TraceInv, reg
  <2>3. \A r \in 1..MaxTraced : Registers(r)'
    <3> SUFFICES ASSUME NEW r \in 1..MaxTraced PROVE Registers(r)' OBVIOUS
    <3>1. Registers(r) BY <2>1 DEF Nesting
    <3>2. registry' = [registry EXCEPT ![reg] = @ \cup {c}] BY <1>1, <2>2
    <3>3. registry'[r] = IF r = reg THEN registry[r] \cup {c} ELSE registry[r]
      BY <2>2, <3>2 DEF TraceInv, TraceTypes
    <3>4. calls'[c].root = reg /\ calls'[c].pc = "leave" /\ calls'[c].threw = calls[c].threw
      BY <1>3, <1>5, <2>2
    <3>5. ~calls[c].threw BY <1>1, <2>1 DEF Nesting, Told
    <3> QED BY <1>1, <1>5, <3>1, <3>3, <3>4, <3>5 DEF Registers
  <2>4. Told(c)'
    <3>1. Told(c) BY <2>1 DEF Nesting
    <3>2. \A a \in calls[c].args : calls'[a].root = calls[a].root
      BY <1>5, TracedTypes DEF TraceInv, Begun
    <3> QED BY <1>1, <1>3, <1>5, <3>1, <3>2 DEF Told
  <2> QED BY <2>3, <2>4
<1>8. overlapped' \in BOOLEAN /\ (Nested' => Nested) BY <1>1 DEF Nested, TraceInv, TraceTypes
<1> QED BY <1>1, <1>3, <1>4, <1>6, <1>7, <1>8, GoesOnStep

(* The frame that goes is that of the call, if calls nest.                 *)
LEMMA LeaveTrace == ASSUME TraceInv, NEW c \in TracedCalls, Leave(c) PROVE TraceInv'
<1> DEFINE thread == calls[c].thread
           s == stack[thread]
           call == [calls[c] EXCEPT !.pc = "done"]
<1>1. /\ calls[c].pc = "leave" /\ c \in Active
      /\ stack' = [stack EXCEPT ![thread] = Front(s)]
      /\ calls' = [calls EXCEPT ![c] = call]
      /\ UNCHANGED <<sdk, registry, overlapped>>
  BY DEF Leave, PopLast, Active
<1>2. calls[c] \in CallRecord /\ thread \in Threads /\ s \in Seq(Frame)
  BY TracedTypes DEF TraceInv, TraceTypes
<1>3. /\ call \in CallRecord /\ call.pc = "done" /\ call.threw = calls[c].threw /\ call.from = calls[c].from
      /\ call.parent = calls[c].parent /\ call.thread = calls[c].thread /\ call.agent = calls[c].agent
      /\ call.args = calls[c].args /\ call.sources = calls[c].sources /\ call.caller = calls[c].caller
      /\ call.root = calls[c].root
  BY <1>2 DEF CallRecord
<1> HIDE DEF call
<1>4. GoesOn(c, call) BY <1>1, <1>3 DEF GoesOn
<1>5. /\ calls' \in Seq(CallRecord) /\ Len(calls') = Len(calls) /\ TracedCalls' = TracedCalls
      /\ calls'[c] = call /\ \A d \in TracedCalls : d # c => calls'[d] = calls[d]
      /\ \A d \in TracedCalls : Begun(d)' /\ CallerAgent(d)' = CallerAgent(d)
      /\ \A d \in TracedCalls :
           /\ calls'[d].parent = calls[d].parent /\ calls'[d].thread = calls[d].thread
           /\ calls'[d].agent = calls[d].agent /\ calls'[d].root = calls[d].root
           /\ calls'[d].args = calls[d].args /\ calls'[d].sources = calls[d].sources
           /\ calls'[d].caller = calls[d].caller
  BY <1>4, GoesOnFacts DEF TraceInv
<1>6. Active' = Active \ {c} BY <1>3, <1>5 DEF Active
<1>7. \A t : ActiveIn(t)' = ActiveIn(t) \ {c} BY <1>5, <1>6 DEF ActiveIn, Active
<1>8. s # <<>>
  <2>1. c \in ActiveIn(thread) BY <1>1 DEF ActiveIn
  <2>2. IsFiniteSet(ActiveIn(thread)) /\ Len(s) = Cardinality(ActiveIn(thread))
    BY <1>2, ActiveFinite DEF TraceInv, FramesCount
  <2>3. Cardinality(ActiveIn(thread)) # 0 BY <2>1, <2>2, FS_EmptySet
  <2> QED BY <2>2, <2>3
<1>9. /\ Front(s) \in Seq(Frame) /\ Len(Front(s)) = Len(s) - 1 /\ Len(s) \in Nat \ {0}
      /\ \A i \in DOMAIN Front(s) : i \in DOMAIN s /\ Front(s)[i] = s[i] /\ i # Len(s)
      /\ \A i \in DOMAIN s : i # Len(s) => i \in DOMAIN Front(s)
  BY <1>2, <1>8 DEF Front
<1> HIDE DEF s
<1>10. /\ stack' \in [Threads -> Seq(Frame)]
       /\ stack'[thread] = Front(s) /\ \A t \in Threads : t # thread => stack'[t] = stack[t]
  BY <1>1, <1>2, <1>9 DEF TraceInv, TraceTypes
<1>11. TraceTypes' BY <1>1, <1>5, <1>10 DEF TraceInv, TraceTypes
<1>12. FramesCount'
  <2> SUFFICES ASSUME NEW t \in Threads PROVE Len(stack'[t]) = Cardinality(ActiveIn(t)') BY DEF FramesCount
  <2>1. IsFiniteSet(ActiveIn(t)) /\ Len(stack[t]) = Cardinality(ActiveIn(t))
    BY ActiveFinite DEF TraceInv, FramesCount
  <2>2. CASE t = thread
    <3>1. c \in ActiveIn(t) BY <1>1, <2>2 DEF ActiveIn
    <3>2. Cardinality(ActiveIn(t) \ {c}) = Cardinality(ActiveIn(t)) - 1 BY <2>1, <3>1, FS_RemoveElement
    <3> QED BY <1>7, <1>9, <1>10, <2>1, <2>2, <3>2 DEF s
  <2>3. CASE t # thread
    <3>1. ActiveIn(t) \ {c} = ActiveIn(t) BY <2>3 DEF ActiveIn
    <3> QED BY <1>7, <1>10, <2>1, <2>3, <3>1
  <2> QED BY <2>2, <2>3
<1>13. ASSUME Nested' PROVE Nesting'
  <2>1. Nested /\ Nesting BY <1>1, <1>13 DEF TraceInv, Nested
  <2>2. s[Len(s)].call = c /\ \A i \in DOMAIN s : i # Len(s) => s[i].call # c
    BY <1>1, <2>1, OnTop DEF TraceInv, s
  <2>3. \A t \in Threads : ChainOf(t) /\ stack[t] \in Seq(Frame) BY <2>1 DEF Nesting, TraceInv, TraceTypes
  <2>4. ASSUME NEW t \in Threads PROVE ChainOf(t)'
    <3>1. \A i \in DOMAIN stack'[t] :
            /\ i \in DOMAIN stack[t] /\ stack'[t][i] = stack[t][i] /\ stack[t][i].call # c
            /\ i < Len(stack'[t]) => i < Len(stack[t]) /\ i + 1 \in DOMAIN stack'[t]
      <4>1. CASE t = thread
        <5>1. stack[t] = s /\ stack'[t] = Front(s) BY <1>10, <4>1 DEF s
        <5>2. \A i \in DOMAIN Front(s) : i < Len(Front(s)) => i < Len(s) /\ i + 1 \in DOMAIN Front(s)
          BY <1>9
        <5> QED BY <1>9, <2>2, <5>1, <5>2
      <4>2. CASE t # thread
        <5>1. stack'[t] = stack[t] BY <1>10, <4>2
        <5>2. \A i \in DOMAIN stack[t] : i < Len(stack[t]) => i + 1 \in DOMAIN stack[t] BY <2>3
        <5>3. \A i \in DOMAIN stack[t] : stack[t][i].call \in ActiveIn(t) BY <2>3 DEF ChainOf
        <5>4. c \notin ActiveIn(t) BY <4>2 DEF ActiveIn
        <5> QED BY <5>1, <5>2, <5>3, <5>4
      <4> QED BY <4>1, <4>2
    <3> SUFFICES ASSUME NEW i \in DOMAIN stack'[t]
                 PROVE  /\ stack'[t][i].call \in ActiveIn(t)'
                        /\ stack'[t][i].agent = calls'[stack'[t][i].call].agent
                        /\ stack'[t][i].registry = calls'[stack'[t][i].call].root
                        /\ i < Len(stack'[t]) => /\ calls'[stack'[t][i].call].pc = "body"
                                                 /\ calls'[stack'[t][i + 1].call].parent = stack'[t][i].call
      BY DEF ChainOf
    <3>2. /\ stack[t][i].call \in ActiveIn(t)
          /\ stack[t][i].agent = calls[stack[t][i].call].agent
          /\ stack[t][i].registry = calls[stack[t][i].call].root
          /\ i < Len(stack[t]) => /\ calls[stack[t][i].call].pc = "body"
                                  /\ calls[stack[t][i + 1].call].parent = stack[t][i].call
      BY <2>3, <3>1 DEF ChainOf
    <3>3. stack[t][i].call \in TracedCalls /\ calls'[stack[t][i].call] = calls[stack[t][i].call]
      BY <1>5, <3>1, <3>2 DEF ActiveIn, Active
    <3>4. i < Len(stack'[t]) => /\ stack'[t][i + 1] = stack[t][i + 1] /\ i + 1 \in DOMAIN stack[t]
                                /\ stack[t][i + 1].call # c
      BY <3>1
    <3>5. i < Len(stack'[t]) => stack[t][i + 1].call \in TracedCalls
      BY <2>3, <3>4 DEF ChainOf, ActiveIn, Active
    <3>6. i < Len(stack'[t]) => calls'[stack[t][i + 1].call] = calls[stack[t][i + 1].call]
      BY <1>5, <3>4, <3>5
    <3>7. stack'[t][i].call \in ActiveIn(t)' BY <1>7, <3>1, <3>2
    <3>8. stack'[t][i].agent = calls'[stack'[t][i].call].agent /\ stack'[t][i].registry = calls'[stack'[t][i].call].root
      BY <3>1, <3>2, <3>3
    <3>9. i < Len(stack'[t]) => /\ calls'[stack'[t][i].call].pc = "body"
                                /\ calls'[stack'[t][i + 1].call].parent = stack'[t][i].call
      BY <3>1, <3>2, <3>3, <3>4, <3>6
    <3> QED BY <3>7, <3>8, <3>9
  <2>5. ASSUME NEW d \in Active' PROVE OnStack(d)'
    <3>1. d \in Active /\ d # c /\ d \in TracedCalls /\ calls'[d].thread = calls[d].thread BY <1>5, <1>6 DEF Active
    <3>2. calls[d].thread \in Threads BY <3>1, TracedTypes DEF TraceInv
    <3>3. PICK i \in DOMAIN stack[calls[d].thread] : stack[calls[d].thread][i].call = d
      BY <2>1, <3>1 DEF Nesting, OnStack
    <3>4. CASE calls[d].thread # thread BY <1>10, <3>1, <3>2, <3>3, <3>4 DEF OnStack
    <3>5. CASE calls[d].thread = thread
      <4>1. i \in DOMAIN s /\ s[i].call = d BY <3>3, <3>5 DEF s
      <4>2. i # Len(s) BY <2>2, <3>1, <4>1
      <4>3. i \in DOMAIN Front(s) /\ Front(s)[i].call = d BY <1>9, <4>1, <4>2
      <4> QED BY <1>10, <3>1, <3>5, <4>3 DEF OnStack
    <3> QED BY <3>4, <3>5
  <2>6. ASSUME NEW r \in 1..MaxTraced PROVE Registers(r)'
    <3>1. Registers(r) BY <2>1 DEF Nesting
    <3>2. \A a \in TracedCalls : (calls'[a].pc \in {"leave", "done"}) = (calls[a].pc \in {"leave", "done"})
      BY <1>1, <1>3, <1>5
    <3>3. \A a \in TracedCalls : calls'[a].threw = calls[a].threw BY <1>3, <1>5
    <3> QED BY <1>1, <1>5, <3>1, <3>2, <3>3 DEF Registers
  <2>7. ASSUME NEW d \in TracedCalls' PROVE Told(d)'
    <3>1. Told(d) /\ d \in TracedCalls BY <1>5, <2>1 DEF Nesting
    <3>2. \A a \in calls[d].args : calls'[a].root = calls[a].root
      BY <1>5, <3>1, TracedTypes DEF TraceInv, Begun
    <3>3. /\ calls'[d].from = calls[d].from /\ (calls'[d].pc # "body" => calls[d].pc # "body")
          /\ calls'[d].pc = "emitted" => calls[d].pc = "emitted" /\ calls'[d].threw = calls[d].threw
      BY <1>1, <1>3, <1>5, <3>1
    <3> QED BY <1>1, <1>5, <3>1, <3>2, <3>3 DEF Told
  <2> QED BY <2>4, <2>5, <2>6, <2>7 DEF Nesting
<1> QED BY <1>11, <1>12, <1>13 DEF TraceInv

LEMMA NextTrace == TraceInv /\ [TraceNext]_traceVars => TraceInv'
<1> SUFFICES ASSUME TraceInv, [TraceNext]_traceVars PROVE TraceInv' OBVIOUS
<1>1. CASE Enter BY <1>1, EnterStep
<1>2. ASSUME NEW c \in TracedCalls, Emit(c) PROVE TraceInv' BY <1>2, EmitTrace
<1>3. ASSUME NEW c \in TracedCalls, Register(c) PROVE TraceInv' BY <1>3, RegisterTrace
<1>4. ASSUME NEW c \in TracedCalls, Leave(c) PROVE TraceInv' BY <1>4, LeaveTrace
<1>5. CASE UNCHANGED traceVars
  <2>1. /\ UNCHANGED <<sdk, calls, stack, registry, overlapped>>
    BY <1>5 DEF traceVars
  <2>2. TracedCalls' = TracedCalls /\ Active' = Active BY <2>1 DEF TracedCalls, Active
  <2>3. \A t : ActiveIn(t)' = ActiveIn(t) BY <2>1, <2>2 DEF ActiveIn
  <2>4. TraceTypes' /\ FramesCount' BY <2>1, <2>2, <2>3 DEF TraceInv, TraceTypes, FramesCount, Begun
  <2>5. Nested' => Nesting'
    BY <2>1, <2>2, <2>3 DEF TraceInv, Nested, Nesting, ChainOf, OnStack, Registers, Told, CallerAgent, Parent
  <2> QED BY <2>4, <2>5 DEF TraceInv
<1> QED BY <1>1, <1>2, <1>3, <1>4, <1>5 DEF TraceNext

(* The frames of every thread are counted right in every state; while calls*)
(* nest, which in TypeScript is the case until one begins out of turn or   *)
(* ends before a call it made, the frames are a chain and the registries   *)
(* and what hops are told are right.                                       *)
THEOREM TraceInvariant == TraceSpec => []TraceInv
  BY InitTrace, NextTrace, PTL DEF TraceSpec

(* blamrTrace() and blamr_trace have a frame for each call that is not     *)
(* over, whatever overlaps and throws, and whichever ends first; while no  *)
(* calls overlap, and always in Python, a hop names as sources just the    *)
(* values it got that were returned within the same outermost call; and in *)
(* Python from_agent is the agent of the caller.                           *)
THEOREM CallsNest == TraceSpec => []TracesNest
<1>1. ASSUME TraceInv PROVE TracesNest
  <2>1. \A t \in DOMAIN stack : Len(stack[t]) = Cardinality({c \in Active : calls[c].thread = t})
    BY <1>1 DEF TraceInv, TraceTypes, FramesCount, ActiveIn
  <2>2. Nested =>
         \A c \in TracedCalls :
           /\ calls[c].sources = {a \in calls[c].args : calls[a].root = calls[c].root}
           /\ sdk = "py" /\ calls[c].pc # "body" => calls[c].from = CallerAgent(c)
    BY <1>1 DEF TraceInv, Nesting, Told
  <2> QED BY <2>1, <2>2 DEF TracesNest, Nested
<1> QED BY <1>1, TraceInvariant, PTL

(*************************************************************************)
(* The transport of the Python SDK.  What never had a file is in the order*)
(* of send() across the requests that landed, the one in the hands of the*)
(* posting thread and the queue in memory; the scans of the files only   *)
(* land what had a file (InTurn).  A request that is nowhere has its     *)
(* reason (Whereabouts), because the only files without a line that a    *)
(* scan removes are those an error left and those of an enqueue() that   *)
(* the scan ran beside (BlankFiles, LockHeld).                           *)
(*************************************************************************)
(* It is not the mark of close(), and has not had a file.                  *)
Unspilled(r) == r # 0 /\ r \notin spilled

Contents == {"nothing", "part", "line"}

PyTypes ==
  /\ pySent \in 0..MaxSent
  /\ program \in {"run", "spill", "complete", "flushComplete", "flushClose", "ended"}
  /\ program = "spill" => pySent # 0
  /\ pyMem \in Seq(Nat) /\ pyDisk \in Seq(Nat) /\ landed \in Seq(Nat)
  /\ text \in [1..MaxSent -> Contents]
  /\ writer \in [by : Writers \cup {"none"}, pc : {"list", "prune", "write"}, listed : Seq(Nat)]
  /\ writer.pc \in {"prune", "write"} <=> Writing
  /\ poster \in [pc : {"check", "get", "post", "spill", "stopped"}, item : Nat]
  /\ poster.pc \in {"post", "spill"} <=> poster.item # 0
  /\ scan \in [Scanners -> [on : BOOLEAN, files : Seq(Nat), reading : Nat, got : Contents]]
  /\ spilled \subseteq 1..pySent

(* A file, listed, read or not, holds what was spilled.                    *)
OnDisk ==
  /\ \A r \in Nat : Contains(pyDisk, r) => r \in spilled
  /\ \A s \in Scanners :
       /\ \A r \in Nat : Contains(scan[s].files, r) => r \in spilled
       /\ scan[s].reading # 0 => scan[s].reading \in spilled
       /\ scan[s].got # "nothing" => scan[s].reading # 0
       /\ scan[s].files # <<>> \/ scan[s].reading # 0 => scan[s].on

SentBefore ==
  /\ \A i \in DOMAIN pyMem : pyMem[i] <= pySent
  /\ poster.item <= pySent
  /\ \A i \in DOMAIN landed : landed[i] # 0 /\ landed[i] <= pySent

(* What has had no file is in its order: landed, with the poster, in memory.*)
MemInTurn ==
  /\ \A i, j \in DOMAIN pyMem : i < j /\ Unspilled(pyMem[i]) /\ Unspilled(pyMem[j]) => pyMem[i] < pyMem[j]
  /\ \A i \in DOMAIN pyMem : Unspilled(poster.item) /\ Unspilled(pyMem[i]) => poster.item < pyMem[i]
  /\ \A i \in DOMAIN landed, j \in DOMAIN pyMem :
       Unspilled(landed[i]) /\ Unspilled(pyMem[j]) => landed[i] < pyMem[j]

(* A request whose post raised may have landed, one to be posted has not.  *)
LandedInTurn ==
  /\ \A i \in DOMAIN landed : Unspilled(landed[i]) /\ Unspilled(poster.item) =>
       landed[i] <= poster.item /\ (poster.pc = "post" => landed[i] < poster.item)
  /\ \A i, j \in DOMAIN landed : i < j /\ Unspilled(landed[i]) /\ Unspilled(landed[j]) => landed[i] < landed[j]

InTurn == SentBefore /\ MemInTurn /\ LandedInTurn

PyOrder == PyTypes /\ OnDisk /\ InTurn

(* The thread that holds the lock has the request; a scan that runs beside *)
(* it is on record, and alone makes a listed or a created file go.         *)
LockHeld == Writing =>
  /\ writer.by \in Writers /\ Spilling(writer.by)
  /\ (\E s \in Scanners : scan[s].on) => InHand(writer.by) \in raced
  /\ writer.pc = "prune" /\ FileIsGone => InHand(writer.by) \in raced
  /\ writer.pc = "write" => Contains(pyDisk, InHand(writer.by)) \/ InHand(writer.by) \in raced

(* A file without the whole line is about to get it, or has its reason, and*)
(* so has one that was read with nothing in it.                            *)
BlankFiles ==
  /\ \A r \in 1..pySent : Contains(pyDisk, r) /\ text[r] # "line" =>
       r \in broken \cup raced \/ (writer.pc = "write" /\ r = InHand(writer.by))
  /\ \A s \in Scanners : scan[s].reading # 0 /\ scan[s].got = "nothing" => scan[s].reading \in broken \cup raced

(* A request is somewhere, or has its reason.                              *)
Whereabouts == \A r \in 1..pySent : Kept(r) \/ r \in pruned \cup broken \cup raced

Explained == LockHeld /\ BlankFiles /\ Whereabouts

PyInv == PyOrder /\ (Alive => Explained)

(* What a queue or a list of files has after an element came or went.      *)
LEMMA AppendHas ==
  ASSUME NEW q \in Seq(Nat), NEW x \in Nat
  PROVE  /\ Append(q, x) \in Seq(Nat)
         /\ \A y \in Nat : Contains(Append(q, x), y) <=> Contains(q, y) \/ y = x
<1>1. /\ Append(q, x) \in Seq(Nat) /\ Len(Append(q, x)) = Len(q) + 1 /\ Len(q) \in Nat
      /\ \A i \in 1..Len(q) : Append(q, x)[i] = q[i]
      /\ Append(q, x)[Len(q) + 1] = x
  BY AppendProperties
<1>2. \A i \in 1..(Len(q) + 1) : i \in 1..Len(q) \/ i = Len(q) + 1 BY <1>1
<1>3. 1..Len(q) \subseteq 1..(Len(q) + 1) /\ Len(q) + 1 \in 1..(Len(q) + 1) BY <1>1
<1> QED BY <1>1, <1>2, <1>3 DEF Contains

LEMMA AppendAt ==
  ASSUME NEW q \in Seq(Nat), NEW x \in Nat
  PROVE  /\ Append(q, x) \in Seq(Nat)
         /\ DOMAIN Append(q, x) = DOMAIN q \cup {Len(q) + 1}
         /\ \A i \in DOMAIN q : Append(q, x)[i] = q[i] /\ i < Len(q) + 1 /\ i \in Nat
         /\ Append(q, x)[Len(q) + 1] = x
<1>1. /\ Append(q, x) \in Seq(Nat) /\ Len(Append(q, x)) = Len(q) + 1 /\ Len(q) \in Nat
      /\ \A i \in 1..Len(q) : Append(q, x)[i] = q[i]
      /\ Append(q, x)[Len(q) + 1] = x
  BY AppendProperties
<1>2. DOMAIN q = 1..Len(q) /\ DOMAIN Append(q, x) = 1..(Len(q) + 1) BY <1>1
<1>3. 1..(Len(q) + 1) = 1..Len(q) \cup {Len(q) + 1} BY <1>1
<1>4. \A i \in 1..Len(q) : i < Len(q) + 1 /\ i \in Nat BY <1>1
<1> QED BY <1>1, <1>2, <1>3, <1>4

LEMMA TailHas ==
  ASSUME NEW q \in Seq(Nat), q # <<>>
  PROVE  /\ Tail(q) \in Seq(Nat) /\ Head(q) \in Nat
         /\ \A y \in Nat : Contains(q, y) <=> Contains(Tail(q), y) \/ y = Head(q)
<1>1. /\ Tail(q) \in Seq(Nat) /\ Len(Tail(q)) = Len(q) - 1 /\ Len(q) \in Nat \ {0}
      /\ Head(q) \in Nat /\ Head(q) = q[1]
      /\ \A i \in 1..Len(Tail(q)) : Tail(q)[i] = q[i + 1]
  BY HeadTailProperties
<1>2. \A i \in 1..Len(q) : i = 1 \/ (i - 1 \in 1..Len(Tail(q)) /\ Tail(q)[i - 1] = q[i]) BY <1>1
<1>3. \A i \in 1..Len(Tail(q)) : i + 1 \in 1..Len(q) BY <1>1
<1>4. 1 \in 1..Len(q) BY <1>1
<1> QED BY <1>1, <1>2, <1>3, <1>4 DEF Contains

LEMMA RestHas ==
  ASSUME NEW n \in 0..Len(pyDisk), pyDisk \in Seq(Nat)
  PROVE  /\ Rest(n) \in Seq(Nat)
         /\ \A y \in Nat : Contains(Rest(n), y) => Contains(pyDisk, y)
         /\ \A y \in Nat : Contains(pyDisk, y) => Contains(Rest(n), y) \/ y \in {pyDisk[i] : i \in 1..n}
<1>1. /\ Rest(n) \in Seq(Nat) /\ Len(Rest(n)) = Len(pyDisk) - n /\ Len(pyDisk) \in Nat /\ n \in Nat
      /\ \A i \in 1..(Len(pyDisk) - n) : Rest(n)[i] = pyDisk[n + i]
  BY DEF Rest
<1>2. \A i \in 1..(Len(pyDisk) - n) : n + i \in 1..Len(pyDisk) BY <1>1
<1>3. \A i \in 1..Len(pyDisk) : i \in 1..n \/ (i - n \in 1..(Len(pyDisk) - n) /\ Rest(n)[i - n] = pyDisk[i]) BY <1>1
<1>4. \A y \in Nat : Contains(Rest(n), y) => Contains(pyDisk, y) BY <1>1, <1>2 DEF Contains
<1>5. \A y \in Nat : Contains(pyDisk, y) => Contains(Rest(n), y) \/ y \in {pyDisk[i] : i \in 1..n}
  <2> SUFFICES ASSUME NEW i \in 1..Len(pyDisk), i \notin 1..n PROVE Contains(Rest(n), pyDisk[i]) BY DEF Contains
  <2>1. i - n \in 1..(Len(pyDisk) - n) /\ Rest(n)[i - n] = pyDisk[i] BY <1>3
  <2> QED BY <1>1, <2>1 DEF Contains
<1> QED BY <1>1, <1>4, <1>5

LEMMA RemoveFirstHas ==
  ASSUME NEW d \in Seq(Nat), NEW r \in Nat
  PROVE  /\ RemoveFirst(d, r) \in Seq(Nat)
         /\ \A y \in Nat : Contains(RemoveFirst(d, r), y) => Contains(d, y)
         /\ \A y \in Nat : y # r /\ Contains(d, y) => Contains(RemoveFirst(d, r), y)
<1>1. CASE \E i \in 1..Len(d) : d[i] = r
  <2> DEFINE I == {i \in 1..Len(d) : d[i] = r}
             m == Min(I)
             before == SubSeq(d, 1, m - 1)
             after == SubSeq(d, m + 1, Len(d))
  <2>1. m \in 1..Len(d) /\ d[m] = r
    <3>1. I # {} /\ I \subseteq Nat BY <1>1
    <3>2. m \in I BY <3>1, MinOfNats
    <3> QED BY <3>2
  <2>2. RemoveFirst(d, r) = before \o after BY <1>1 DEF RemoveFirst, SelectInSeq, RemoveAt
  <2> HIDE DEF m
  <2>3. /\ before \in Seq(Nat) /\ Len(before) = m - 1
        /\ after \in Seq(Nat) /\ Len(after) = Len(d) - m /\ Len(d) \in Nat
        /\ \A i \in 1..(m - 1) : before[i] = d[i]
        /\ \A i \in 1..(Len(d) - m) : after[i] = d[m + i]
    BY <2>1
  <2> DEFINE rest == before \o after
  <2> HIDE DEF before, after
  <2>4. /\ rest \in Seq(Nat) /\ Len(rest) = Len(d) - 1
        /\ \A i \in 1..(m - 1) : rest[i] = d[i]
        /\ \A i \in m..(Len(d) - 1) : rest[i] = d[i + 1]
    <3>1. /\ rest \in Seq(Nat) /\ Len(rest) = Len(before) + Len(after)
          /\ \A i \in 1..Len(rest) : rest[i] = IF i <= Len(before) THEN before[i] ELSE after[i - Len(before)]
      <4>1. before \in Seq(Nat) /\ after \in Seq(Nat) BY <2>3
      <4>2. /\ before \o after \in Seq(Nat) /\ Len(before \o after) = Len(before) + Len(after)
            /\ \A i \in 1..Len(before) + Len(after) :
                 (before \o after)[i] = IF i <= Len(before) THEN before[i] ELSE after[i - Len(before)]
        BY <4>1, ConcatProperties
      <4> QED BY <4>2
    <3>2. Len(rest) = Len(d) - 1 BY <2>1, <2>3, <3>1
    <3>3. \A i \in 1..(m - 1) : i \in 1..Len(rest) /\ i <= Len(before) BY <2>1, <2>3, <3>2
    <3>4. \A i \in m..(Len(d) - 1) : /\ i \in 1..Len(rest) /\ ~(i <= Len(before))
                                    /\ i - Len(before) \in 1..(Len(d) - m) /\ m + (i - Len(before)) = i + 1
      BY <2>1, <2>3, <3>2
    <3> HIDE DEF rest
    <3> QED BY <2>3, <3>1, <3>2, <3>3, <3>4
  <2> HIDE DEF rest
  <2>5. \A i \in 1..(Len(d) - 1) : \/ i \in 1..(m - 1) /\ i \in 1..Len(d)
                                   \/ i \in m..(Len(d) - 1) /\ i + 1 \in 1..Len(d)
    BY <2>1, <2>3
  <2>6. \A i \in 1..Len(d) : \/ i = m
                             \/ i \in 1..(m - 1) /\ i \in 1..(Len(d) - 1)
                             \/ i - 1 \in m..(Len(d) - 1) /\ i - 1 \in 1..(Len(d) - 1) /\ (i - 1) + 1 = i
    BY <2>1, <2>3
  <2>7. \A y \in Nat : Contains(rest, y) => Contains(d, y) BY <2>4, <2>5 DEF Contains
  <2>8. \A y \in Nat : y # r /\ Contains(d, y) => Contains(rest, y)
    <3> SUFFICES ASSUME NEW i \in 1..Len(d), d[i] # r PROVE Contains(rest, d[i]) BY DEF Contains
    <3>1. CASE i \in 1..(m - 1) /\ i \in 1..(Len(d) - 1) BY <2>4, <3>1 DEF Contains
    <3>2. CASE i - 1 \in m..(Len(d) - 1) /\ i - 1 \in 1..(Len(d) - 1) /\ (i - 1) + 1 = i
      <4>1. rest[i - 1] = d[i] BY <2>4, <3>2
      <4> QED BY <2>4, <3>2, <4>1 DEF Contains
    <3> QED BY <2>1, <2>6, <3>1, <3>2
  <2> QED BY <2>2, <2>4, <2>7, <2>8 DEF rest
<1>2. CASE ~\E i \in 1..Len(d) : d[i] = r BY <1>2 DEF RemoveFirst
<1> QED BY <1>1, <1>2

LEMMA InitPy == PyInit => PyInv
<1> SUFFICES ASSUME PyInit PROVE PyInv OBVIOUS
<1> USE DEF PyInit
<1>1. PyTypes BY PyAssumption DEF PyTypes, Writing, NoScan, Scanners, NoWriter, AtRest, Contents, Writers
<1>2. OnDisk BY DEF OnDisk, NoScan, Scanners, Contains
<1>3. InTurn BY DEF InTurn, SentBefore, MemInTurn, LandedInTurn, Unspilled, AtRest
<1>4. Explained
  BY DEF Explained, LockHeld, BlankFiles, Whereabouts, Writing, NoWriter, NoScan, Scanners
<1> QED BY <1>1, <1>2, <1>3, <1>4 DEF PyInv, PyOrder

(* The queue in memory and what landed stay; the poster goes on or rests.  *)
LEMMA OrderKept ==
  ASSUME PyOrder, UNCHANGED <<pyMem, landed, pySent>>, spilled \subseteq spilled',
         poster'.item \in {poster.item, 0}, poster'.pc = "post" => poster' = poster
  PROVE  InTurn'
<1>1. \A r : Unspilled(r)' => Unspilled(r) BY DEF Unspilled
<1>2. poster'.item # 0 => poster'.item = poster.item BY DEF PyOrder, PyTypes
<1>3. Unspilled(poster.item)' => Unspilled(poster.item) BY <1>1, <1>2 DEF Unspilled
<1>4. SentBefore' BY DEF PyOrder, PyTypes, InTurn, SentBefore
<1>5. MemInTurn' BY <1>1, <1>2, <1>3 DEF PyOrder, InTurn, MemInTurn, Unspilled
<1>6. LandedInTurn' BY <1>1, <1>2, <1>3 DEF PyOrder, InTurn, LandedInTurn, Unspilled
<1> QED BY <1>4, <1>5, <1>6 DEF InTurn

(* The request that is posted lands, or one that has a file.               *)
LEMMA OrderLanded ==
  ASSUME PyOrder, NEW r, landed' = Append(landed, r), UNCHANGED <<pyMem, pySent, spilled>>,
         poster'.item \in {poster.item, 0}, poster'.pc = "post" => poster' = poster,
         r \in spilled \/ (r = poster.item /\ poster.pc = "post" /\ poster'.pc # "post")
  PROVE  /\ landed' \in Seq(Nat) /\ InTurn'
         /\ \A x \in Nat : Contains(landed', x) <=> Contains(landed, x) \/ x = r
<1>1. r \in 1..pySent /\ r \in Nat
  <2>1. pySent \in Nat /\ spilled \subseteq 1..pySent BY DEF PyOrder, PyTypes
  <2>2. poster.item \in Nat /\ poster.item <= pySent BY DEF PyOrder, PyTypes, InTurn, SentBefore
  <2>3. poster.pc = "post" => poster.item # 0 BY DEF PyOrder, PyTypes
  <2>4. CASE r \in spilled BY <2>1, <2>4
  <2>5. CASE r = poster.item /\ poster.pc = "post"
    <3>1. r \in Nat /\ r <= pySent /\ r # 0 BY <2>2, <2>3, <2>5
    <3> QED BY <2>1, <3>1
  <2> QED BY <2>4, <2>5
<1>2. /\ landed' \in Seq(Nat)
      /\ DOMAIN landed' = DOMAIN landed \cup {Len(landed) + 1}
      /\ \A i \in DOMAIN landed : landed'[i] = landed[i] /\ i < Len(landed) + 1 /\ i \in Nat
      /\ landed'[Len(landed) + 1] = r
  <2>1. landed \in Seq(Nat) BY DEF PyOrder, PyTypes
  <2> QED BY <1>1, <2>1, AppendAt
<1>3. \A x : Unspilled(x)' = Unspilled(x) BY DEF Unspilled
<1>4. Unspilled(poster.item)' => poster'.item = poster.item /\ Unspilled(poster.item) BY DEF Unspilled
<1>5. \A x \in Nat : Contains(landed', x) <=> Contains(landed, x) \/ x = r
  BY <1>1, AppendHas DEF PyOrder, PyTypes
<1>6. Unspilled(r) => r = poster.item /\ poster.pc = "post" /\ poster'.pc # "post" BY DEF Unspilled
<1>7. SentBefore' BY <1>1, <1>2 DEF PyOrder, PyTypes, InTurn, SentBefore
<1>8. MemInTurn'
  BY <1>2, <1>3, <1>4, <1>6 DEF PyOrder, InTurn, MemInTurn, Unspilled
<1>9. LandedInTurn'
  <2>1. \A i \in DOMAIN landed' : Unspilled(landed'[i]) /\ Unspilled(poster'.item) =>
          landed'[i] <= poster'.item /\ (poster'.pc = "post" => landed'[i] < poster'.item)
    <3> SUFFICES ASSUME NEW i \in DOMAIN landed', Unspilled(landed'[i]), Unspilled(poster'.item)
                 PROVE  landed'[i] <= poster'.item /\ (poster'.pc = "post" => landed'[i] < poster'.item)
      OBVIOUS
    <3>1. poster'.item = poster.item /\ Unspilled(poster.item) BY DEF Unspilled
    <3>2. CASE i \in DOMAIN landed BY <1>2, <3>1, <3>2 DEF PyOrder, InTurn, LandedInTurn
    <3>3. CASE i = Len(landed) + 1 BY <1>1, <1>2, <1>6, <3>1, <3>3
    <3> QED BY <1>2, <3>2, <3>3
  <2>2. \A i, j \in DOMAIN landed' : i < j /\ Unspilled(landed'[i]) /\ Unspilled(landed'[j]) => landed'[i] < landed'[j]
    <3> SUFFICES ASSUME NEW i \in DOMAIN landed', NEW j \in DOMAIN landed', i < j,
                        Unspilled(landed'[i]), Unspilled(landed'[j])
                 PROVE  landed'[i] < landed'[j]
      OBVIOUS
    <3>1. i \in DOMAIN landed BY <1>2
    <3>2. CASE j \in DOMAIN landed BY <1>2, <3>1, <3>2 DEF PyOrder, InTurn, LandedInTurn
    <3>3. CASE j = Len(landed) + 1
      <4>1. r = poster.item /\ poster.pc = "post" /\ Unspilled(poster.item) /\ landed'[j] = r
        BY <1>2, <1>6, <3>3
      <4> QED BY <1>2, <3>1, <4>1 DEF PyOrder, InTurn, LandedInTurn
    <3> QED BY <1>2, <3>2, <3>3
  <2> QED BY <1>3, <2>1, <2>2 DEF LandedInTurn
<1> QED BY <1>2, <1>5, <1>7, <1>8, <1>9 DEF InTurn

(* What becomes of a thread's request when its enqueue() returns.          *)
LEMMA ReturnFacts ==
  ASSUME PyTypes, NEW t \in Writers, Spilling(t), EnqueueReturns(t)
  PROVE  /\ writer' = NoWriter /\ poster' \in {poster, AtRest} /\ program' \in {program, "run"}
         /\ poster'.item \in {poster.item, 0} /\ (poster'.pc = "post" => poster' = poster)
         /\ \A r \in 1..pySent : poster.item = r \/ (program = "spill" /\ r = pySent) =>
              r = InHand(t) \/ poster'.item = r \/ (program' = "spill" /\ r = pySent)
  BY DEF EnqueueReturns, Writers, InHand, AtRest

LEMMA RequestFacts ==
  ASSUME PyOrder, NEW t \in Writers, Spilling(t)
  PROVE  InHand(t) \in 1..pySent /\ InHand(t) \in 1..MaxSent /\ InHand(t) \in Nat
  BY PyAssumption DEF PyOrder, PyTypes, InTurn, SentBefore, InHand, Spilling, Writers

(* A request that is with ingest, in memory or in the hands of a thread.   *)
InFlight(r) ==
  Contains(landed, r) \/ Contains(pyMem, r) \/ poster.item = r \/ (program = "spill" /\ r = pySent)

(* Steps that leave the files, the lock and the scans alone.               *)
LEMMA FilesKept ==
  ASSUME PyOrder, Explained, UNCHANGED <<pyDisk, text, writer, scan, pySent, pruned, broken, raced>>,
         Writing => InHand(writer.by)' = InHand(writer.by) /\ Spilling(writer.by)',
         \A r \in 1..pySent : InFlight(r) => InFlight(r)'
  PROVE  Explained'
<1>1. LockHeld' BY DEF Explained, LockHeld, Writing, FileIsGone
<1>2. BlankFiles'
  <2>1. writer.pc = "write" => Writing BY DEF PyOrder, PyTypes
  <2> QED BY <2>1 DEF Explained, BlankFiles
<1>3. Whereabouts' BY DEF Explained, Whereabouts, Kept, InFlight
<1> QED BY <1>1, <1>2, <1>3 DEF Explained

LEMMA SendStep == ASSUME PyInv, Send PROVE PyInv'
<1>1. /\ pySent' = pySent + 1 /\ pySent \in Nat /\ pySent < MaxSent /\ Alive
      /\ program \in {"run", "complete"}
      /\ UNCHANGED <<pyDisk, text, writer, poster, scan, landed, spilled, pruned, broken, raced>>
      /\ \/ pyMem' = Append(pyMem, pySent + 1) /\ program' = "run"
         \/ pyMem' = pyMem /\ program' = "spill"
  BY DEF Send, disk, fates, Alive, PyInv, PyOrder, PyTypes
<1>2. pyMem \in Seq(Nat) /\ pySent + 1 \in Nat BY <1>1 DEF PyInv, PyOrder, PyTypes
<1>3. /\ pyMem' \in Seq(Nat)
      /\ \A r \in Nat : Contains(pyMem, r) => Contains(pyMem', r)
      /\ Contains(pyMem', pySent + 1) \/ program' = "spill"
  <2>1. /\ Append(pyMem, pySent + 1) \in Seq(Nat)
        /\ \A r \in Nat : Contains(Append(pyMem, pySent + 1), r) <=> Contains(pyMem, r) \/ r = pySent + 1
    BY <1>2, AppendHas
  <2> QED BY <1>1, <1>2, <2>1
<1>4. PyTypes'
  <2>1. pySent' \in 0..MaxSent /\ pySent' # 0 BY <1>1, PyAssumption
  <2>2. spilled \subseteq 1..pySent' BY <1>1 DEF PyInv, PyOrder, PyTypes
  <2> QED BY <1>1, <1>3, <2>1, <2>2 DEF PyInv, PyOrder, PyTypes, Writing
<1>5. OnDisk' BY <1>1 DEF PyInv, PyOrder, OnDisk
<1>6. InTurn'
  <2>1. CASE pyMem' = pyMem
    <3>1. SentBefore' BY <1>1, <2>1 DEF PyInv, PyOrder, PyTypes, InTurn, SentBefore
    <3>2. MemInTurn' BY <1>1, <2>1 DEF PyInv, PyOrder, InTurn, MemInTurn, Unspilled
    <3>3. LandedInTurn' BY <1>1 DEF PyInv, PyOrder, InTurn, LandedInTurn, Unspilled
    <3> QED BY <3>1, <3>2, <3>3 DEF InTurn
  <2>2. CASE pyMem' = Append(pyMem, pySent + 1)
    <3>1. /\ DOMAIN pyMem' = DOMAIN pyMem \cup {Len(pyMem) + 1}
          /\ \A i \in DOMAIN pyMem : pyMem'[i] = pyMem[i] /\ i < Len(pyMem) + 1 /\ i \in Nat
          /\ pyMem'[Len(pyMem) + 1] = pySent + 1
      BY <1>2, <2>2, AppendAt
    <3>2. SentBefore' BY <1>1, <3>1 DEF PyInv, PyOrder, PyTypes, InTurn, SentBefore
    <3>3. MemInTurn'
      <4>1. /\ \A i \in DOMAIN pyMem : pyMem[i] < pySent + 1
            /\ poster.item < pySent + 1
            /\ \A i \in DOMAIN landed : landed[i] < pySent + 1
        <5>1. SentBefore /\ poster.item \in Nat /\ landed \in Seq(Nat) BY DEF PyInv, PyOrder, PyTypes, InTurn
        <5>2. /\ \A i \in DOMAIN pyMem : pyMem[i] \in Nat
              /\ \A i \in DOMAIN landed : landed[i] \in Nat
          BY <1>2, <5>1
        <5>3. \A n \in Nat : n <= pySent => n < pySent + 1 BY <1>1
        <5> QED BY <5>1, <5>2, <5>3 DEF SentBefore
      <4>2. MemInTurn BY DEF PyInv, PyOrder, InTurn
      <4>3. UNCHANGED <<landed, poster, spilled>> BY <1>1
      <4>4. \A i \in DOMAIN pyMem : i # Len(pyMem) + 1 /\ ~(Len(pyMem) + 1 < i)
        BY <1>2, <3>1
      <4>5. Len(pyMem) + 1 \in Nat BY <1>2
      <4>6. \A i, j \in DOMAIN pyMem' :
              i < j /\ Unspilled(pyMem'[i]) /\ Unspilled(pyMem'[j]) => pyMem'[i] < pyMem'[j]
        <5>1. ~(Len(pyMem) + 1 < Len(pyMem) + 1) BY <4>5
        <5> QED BY <3>1, <4>1, <4>2, <4>4, <5>1 DEF MemInTurn
      <4>7. \A i \in DOMAIN pyMem' :
              Unspilled(poster.item) /\ Unspilled(pyMem'[i]) => poster.item < pyMem'[i]
        BY <3>1, <4>1, <4>2 DEF MemInTurn
      <4>8. \A i \in DOMAIN landed, j \in DOMAIN pyMem' :
              Unspilled(landed[i]) /\ Unspilled(pyMem'[j]) => landed[i] < pyMem'[j]
        BY <3>1, <4>1, <4>2 DEF MemInTurn
      <4> QED BY <4>3, <4>6, <4>7, <4>8 DEF MemInTurn, Unspilled
    <3>4. LandedInTurn' BY <1>1 DEF PyInv, PyOrder, InTurn, LandedInTurn, Unspilled
    <3> QED BY <3>2, <3>3, <3>4 DEF InTurn
  <2> QED BY <1>1, <2>1, <2>2
<1>7. Explained'
  <2>1. Explained BY <1>1 DEF PyInv
  <2>2. Writing => writer.by = "poster" /\ Spilling("poster") /\ InHand(writer.by)' = InHand(writer.by)
    BY <1>1, <2>1 DEF Explained, LockHeld, Writers, Spilling, InHand
  <2>3. LockHeld'
    <3>1. Spilling("poster")' = Spilling("poster") /\ Writing' = Writing BY <1>1 DEF Spilling, Writing
    <3> QED BY <1>1, <2>1, <2>2, <3>1 DEF Explained, LockHeld, FileIsGone, Writers
  <2>4. \A r \in 1..pySent' : r \in 1..pySent \/ r = pySent + 1 BY <1>1
  <2>5. ~Contains(pyDisk, pySent + 1)
    <3>1. pySent + 1 \notin 1..pySent BY <1>1
    <3> QED BY <1>2, <3>1 DEF PyInv, PyOrder, PyTypes, OnDisk
  <2>6. BlankFiles'
    <3>1. writer.pc = "write" => Writing BY DEF PyInv, PyOrder, PyTypes
    <3> QED BY <1>1, <2>1, <2>2, <2>4, <2>5, <3>1 DEF Explained, BlankFiles
  <2>7. Whereabouts'
    <3>1. \A r \in 1..pySent : Kept(r) => Kept(r)' BY <1>1, <1>3 DEF Kept
    <3>2. \A r : r = pySent + 1 => Kept(r)' BY <1>1, <1>3 DEF Kept
    <3>3. \A r \in 1..pySent : Kept(r) \/ r \in pruned \cup broken \cup raced BY <2>1 DEF Explained, Whereabouts
    <3>4. \A r \in 1..pySent' : Kept(r)' \/ r \in pruned \cup broken \cup raced BY <2>4, <3>1, <3>2, <3>3
    <3> QED BY <1>1, <3>4 DEF Whereabouts
  <2> QED BY <2>3, <2>6, <2>7 DEF Explained
<1> QED BY <1>4, <1>5, <1>6, <1>7 DEF PyInv, PyOrder

LEMMA CloseStep == ASSUME PyInv, Close PROVE PyInv'
<1>1. /\ UNCHANGED <<pyDisk, text, writer, poster, scan, pySent, landed, spilled, pruned, broken, raced>>
      /\ program = "run" /\ program' = "flushClose" /\ Alive
      /\ pyMem' = pyMem \/ pyMem' = Append(pyMem, 0)
  BY DEF Close, disk, fates, Alive
<1>2. /\ pyMem' \in Seq(Nat) /\ pyMem \in Seq(Nat)
      /\ \A r \in Nat : Contains(pyMem, r) => Contains(pyMem', r)
  <2>1. pyMem \in Seq(Nat) BY DEF PyInv, PyOrder, PyTypes
  <2>2. /\ Append(pyMem, 0) \in Seq(Nat)
        /\ \A r \in Nat : Contains(Append(pyMem, 0), r) <=> Contains(pyMem, r) \/ r = 0
    BY <2>1, AppendHas
  <2> QED BY <1>1, <2>1, <2>2
<1>3. PyTypes' BY <1>1, <1>2 DEF PyInv, PyOrder, PyTypes, Writing
<1>4. OnDisk' BY <1>1 DEF PyInv, PyOrder, OnDisk
<1>5. InTurn'
  <2>1. CASE pyMem' = pyMem
    BY <1>1, <2>1 DEF PyInv, PyOrder, InTurn, SentBefore, MemInTurn, LandedInTurn, Unspilled
  <2>2. CASE pyMem' = Append(pyMem, 0)
    <3>1. /\ DOMAIN pyMem' = DOMAIN pyMem \cup {Len(pyMem) + 1}
          /\ \A i \in DOMAIN pyMem : pyMem'[i] = pyMem[i] /\ i < Len(pyMem) + 1 /\ i \in Nat
          /\ pyMem'[Len(pyMem) + 1] = 0
      BY <1>2, <2>2
    <3>2. SentBefore' BY <1>1, <3>1 DEF PyInv, PyOrder, PyTypes, InTurn, SentBefore
    <3>3. MemInTurn' BY <1>1, <3>1 DEF PyInv, PyOrder, InTurn, MemInTurn, Unspilled
    <3>4. LandedInTurn' BY <1>1 DEF PyInv, PyOrder, InTurn, LandedInTurn, Unspilled
    <3> QED BY <3>2, <3>3, <3>4 DEF InTurn
  <2> QED BY <1>1, <2>1, <2>2
<1>6. Explained'
  <2>1. Explained BY <1>1 DEF PyInv
  <2>2. Writing => InHand(writer.by)' = InHand(writer.by) /\ Spilling(writer.by)'
    BY <1>1, <2>1 DEF Explained, LockHeld, Writers, Spilling, InHand
  <2>3. \A r \in 1..pySent : InFlight(r) => InFlight(r)' BY <1>1, <1>2 DEF InFlight
  <2> QED BY <1>1, <2>1, <2>2, <2>3, FilesKept DEF PyInv
<1> QED BY <1>3, <1>4, <1>5, <1>6 DEF PyInv, PyOrder

LEMMA GetItemStep == ASSUME PyInv, GetItem PROVE PyInv'
<1>1. /\ UNCHANGED <<pyDisk, text, writer, scan, program, pySent, landed, spilled, pruned, broken, raced>>
      /\ Alive /\ poster.pc = "get" /\ poster.item = 0 /\ pyMem \in Seq(Nat)
  BY DEF GetItem, disk, fates, PyInv, PyOrder, PyTypes
<1>2. /\ poster' \in [pc : {"check", "get", "post", "spill", "stopped"}, item : Nat]
      /\ poster'.pc \in {"post", "spill"} <=> poster'.item # 0
      /\ pyMem' \in Seq(Nat)
      /\ \A r \in Nat : r # 0 /\ Contains(pyMem, r) => Contains(pyMem', r) \/ poster'.item = r
  <2>1. CASE pyMem = <<>>
    BY <1>1, <2>1 DEF GetItem, PyInv, PyOrder, PyTypes
  <2>2. CASE pyMem # <<>>
    <3>1. /\ pyMem' = Tail(pyMem)
          /\ poster' = IF Head(pyMem) = 0 THEN [pc |-> "stopped", item |-> 0] ELSE [pc |-> "post", item |-> Head(pyMem)]
      BY <2>2 DEF GetItem
    <3>2. /\ Tail(pyMem) \in Seq(Nat) /\ Head(pyMem) \in Nat
          /\ \A r \in Nat : Contains(pyMem, r) => Contains(Tail(pyMem), r) \/ r = Head(pyMem)
      BY <1>1, <2>2, TailHas
    <3> QED BY <3>1, <3>2
  <2> QED BY <2>1, <2>2
<1>3. PyTypes' BY <1>1, <1>2 DEF PyInv, PyOrder, PyTypes, Writing
<1>4. OnDisk' BY <1>1 DEF PyInv, PyOrder, OnDisk
<1>5. InTurn'
  <2>1. CASE pyMem = <<>>
    <3>1. pyMem' = pyMem /\ poster'.item = 0 BY <1>1, <2>1 DEF GetItem, PyInv, PyOrder, PyTypes
    <3> QED BY <1>1, <3>1 DEF PyInv, PyOrder, InTurn, SentBefore, MemInTurn, LandedInTurn, Unspilled
  <2>2. CASE pyMem # <<>>
    <3>1. /\ pyMem' = Tail(pyMem) /\ poster'.item = Head(pyMem)
          /\ 1 \in DOMAIN pyMem /\ pyMem[1] = Head(pyMem)
          /\ \A i \in DOMAIN pyMem' : i + 1 \in DOMAIN pyMem /\ pyMem'[i] = pyMem[i + 1] /\ 1 < i + 1 /\ i \in Nat
      BY <1>1, <2>2 DEF GetItem
    <3>2. SentBefore' BY <1>1, <3>1 DEF PyInv, PyOrder, InTurn, SentBefore
    <3>3. MemInTurn' BY <1>1, <3>1 DEF PyInv, PyOrder, InTurn, MemInTurn, Unspilled
    <3>4. LandedInTurn'
      <4>1. \A i \in DOMAIN landed : landed[i] \in Nat BY DEF PyInv, PyOrder, PyTypes
      <4> QED BY <1>1, <1>2, <3>1, <4>1 DEF PyInv, PyOrder, InTurn, MemInTurn, LandedInTurn, Unspilled
    <3> QED BY <3>2, <3>3, <3>4 DEF InTurn
  <2> QED BY <2>1, <2>2
<1>6. Explained'
  <2>1. Explained BY <1>1 DEF PyInv
  <2>2. Writing => InHand(writer.by)' = InHand(writer.by) /\ Spilling(writer.by)'
    BY <1>1, <2>1 DEF Explained, LockHeld, Writers, Spilling, InHand
  <2>3. \A r \in 1..pySent : InFlight(r) => InFlight(r)'
    <3>1. \A r \in 1..pySent : r \in Nat /\ r # 0 BY DEF PyInv, PyOrder, PyTypes
    <3> QED BY <1>1, <1>2, <3>1 DEF InFlight
  <2> QED BY <1>1, <2>1, <2>2, <2>3, FilesKept DEF PyInv
<1> QED BY <1>3, <1>4, <1>5, <1>6 DEF PyInv, PyOrder

LEMMA PostedStep == ASSUME PyInv, Posted PROVE PyInv'
<1>1. /\ landed' = Append(landed, poster.item) /\ poster' = AtRest /\ poster.pc = "post" /\ Alive
      /\ UNCHANGED <<pyMem, pyDisk, text, writer, scan, program, pySent, spilled, pruned, broken, raced>>
  BY DEF Posted, disk, fates
<1>2. /\ landed' \in Seq(Nat) /\ InTurn'
      /\ \A x \in Nat : Contains(landed', x) <=> Contains(landed, x) \/ x = poster.item
  BY <1>1, OrderLanded DEF PyInv, AtRest
<1>3. PyTypes' BY <1>1, <1>2 DEF PyInv, PyOrder, PyTypes, Writing, AtRest
<1>4. OnDisk' BY <1>1 DEF PyInv, PyOrder, OnDisk
<1>5. Explained'
  <2>1. Explained BY <1>1 DEF PyInv
  <2>2. Writing => InHand(writer.by)' = InHand(writer.by) /\ Spilling(writer.by)'
    BY <1>1, <2>1 DEF Explained, LockHeld, Writers, Spilling, InHand
  <2>3. \A r \in 1..pySent : InFlight(r) => InFlight(r)'
    <3>1. \A r \in 1..pySent : r \in Nat /\ r # 0 BY DEF PyInv, PyOrder, PyTypes
    <3> QED BY <1>1, <1>2, <3>1 DEF InFlight
  <2> QED BY <1>1, <2>1, <2>2, <2>3, FilesKept DEF PyInv
<1> QED BY <1>2, <1>3, <1>4, <1>5 DEF PyInv, PyOrder

LEMMA PostRaisesStep == ASSUME PyInv, PostRaises PROVE PyInv'
<1>1. /\ landed' \in {landed, Append(landed, poster.item)} /\ poster' = [poster EXCEPT !.pc = "spill"]
      /\ poster.pc = "post" /\ Alive
      /\ UNCHANGED <<pyMem, pyDisk, text, writer, scan, program, pySent, spilled, pruned, broken, raced>>
  BY DEF PostRaises, Raises, KeepRefused, disk, fates
<1>2. /\ poster' \in [pc : {"check", "get", "post", "spill", "stopped"}, item : Nat]
      /\ poster'.pc = "spill" /\ poster'.item = poster.item /\ poster.item # 0
  BY <1>1 DEF PyInv, PyOrder, PyTypes
<1>3. landed' \in Seq(Nat) /\ InTurn' /\ \A x \in Nat : Contains(landed, x) => Contains(landed', x)
  <2>1. CASE landed' = landed BY <1>1, <1>2, <2>1, OrderKept DEF PyInv, PyOrder, PyTypes
  <2>2. CASE landed' = Append(landed, poster.item) BY <1>1, <1>2, <2>2, OrderLanded DEF PyInv
  <2> QED BY <1>1, <2>1, <2>2
<1>4. PyTypes' BY <1>1, <1>2, <1>3 DEF PyInv, PyOrder, PyTypes, Writing
<1>5. OnDisk' BY <1>1 DEF PyInv, PyOrder, OnDisk
<1>6. Explained'
  <2>1. Explained BY <1>1 DEF PyInv
  <2>2. Writing => InHand(writer.by)' = InHand(writer.by) /\ Spilling(writer.by)'
    BY <1>1, <2>1 DEF Explained, LockHeld, Writers, Spilling, InHand
  <2>3. \A r \in 1..pySent : InFlight(r) => InFlight(r)'
    <3>1. \A r \in 1..pySent : r \in Nat BY DEF PyInv, PyOrder, PyTypes
    <3> QED BY <1>1, <1>2, <1>3, <3>1 DEF InFlight
  <2> QED BY <1>1, <2>1, <2>2, <2>3, FilesKept DEF PyInv
<1> QED BY <1>3, <1>4, <1>5, <1>6 DEF PyInv, PyOrder

(* Steps of which only the state of the poster or of the program tells.    *)
LEMMA QuietStep == ASSUME PyInv, StartComplete \/ Kill \/ CheckStop \/ UNCHANGED pyVars PROVE PyInv'
<1>1. /\ UNCHANGED <<pyMem, pyDisk, text, writer, scan, pySent, landed, spilled, pruned, broken, raced>>
      /\ \/ poster' = poster /\ program = "run" /\ program' = "flushComplete"
         \/ poster' = poster /\ program' = "ended"
         \/ /\ program' = program /\ poster.pc = "check"
            /\ \E pc \in {"get", "stopped"} : poster' = [poster EXCEPT !.pc = pc]
         \/ poster' = poster /\ program' = program
  <2>1. CASE StartComplete BY <2>1 DEF StartComplete, disk, fates
  <2>2. CASE Kill BY <2>2 DEF Kill, disk, fates
  <2>3. CASE CheckStop BY <2>3 DEF CheckStop, disk, fates
  <2>4. CASE UNCHANGED pyVars BY <2>4 DEF pyVars, disk, fates
  <2> QED BY <2>1, <2>2, <2>3, <2>4
<1>2. /\ poster' \in [pc : {"check", "get", "post", "spill", "stopped"}, item : Nat]
      /\ poster'.item = poster.item /\ (poster'.pc \in {"post", "spill"} => poster' = poster)
      /\ poster'.pc \in {"post", "spill"} <=> poster'.item # 0
      /\ poster.pc = "spill" => poster' = poster
  BY <1>1 DEF PyInv, PyOrder, PyTypes
<1>3. PyTypes' BY <1>1, <1>2 DEF PyInv, PyOrder, PyTypes, Writing
<1>4. OnDisk' BY <1>1 DEF PyInv, PyOrder, OnDisk
<1>5. InTurn' BY <1>1, <1>2, OrderKept DEF PyInv
<1>6. Alive' => Explained'
  <2> SUFFICES ASSUME Alive' PROVE Explained' OBVIOUS
  <2>1. Explained /\ (program = "spill" => program' = "spill") BY <1>1 DEF PyInv, Alive
  <2>2. Writing => InHand(writer.by)' = InHand(writer.by) /\ Spilling(writer.by)'
    BY <1>1, <1>2, <2>1 DEF Explained, LockHeld, Writers, Spilling, InHand
  <2>3. \A r \in 1..pySent : InFlight(r) => InFlight(r)' BY <1>1, <1>2, <2>1 DEF InFlight
  <2> QED BY <1>1, <2>1, <2>2, <2>3, FilesKept DEF PyInv
<1> QED BY <1>3, <1>4, <1>5, <1>6 DEF PyInv, PyOrder

(* enqueue() takes the lock: what it lists is there.                       *)
LEMMA ListStep == ASSUME PyInv, NEW t \in Writers, ListToPrune(t) PROVE PyInv'
<1>1. /\ Alive /\ Spilling(t) /\ ~Writing
      /\ writer' = [by |-> t, pc |-> "prune", listed |-> pyDisk]
      /\ raced' = IF \E s \in Scanners : scan[s].on THEN raced \cup {InHand(t)} ELSE raced
      /\ UNCHANGED <<pyMem, pyDisk, text, poster, scan, program, pySent, landed, spilled, pruned, broken>>
  BY DEF ListToPrune
<1>2. /\ writer'.by = t /\ writer'.pc = "prune" /\ writer'.listed = pyDisk /\ Writing'
      /\ writer' \in [by : Writers \cup {"none"}, pc : {"list", "prune", "write"}, listed : Seq(Nat)]
  BY <1>1 DEF PyInv, PyOrder, PyTypes, Writing, Writers
<1>3. PyTypes' BY <1>1, <1>2 DEF PyInv, PyOrder, PyTypes
<1>4. OnDisk' BY <1>1 DEF PyInv, PyOrder, OnDisk
<1>5. InTurn' BY <1>1, OrderKept DEF PyInv
<1>6. Explained'
  <2>1. Explained BY <1>1 DEF PyInv
  <2>2. ~FileIsGone'
    <3>1. \A i \in DOMAIN pyDisk : Contains(pyDisk, pyDisk[i]) BY DEF PyInv, PyOrder, PyTypes, Contains
    <3> QED BY <1>1, <1>2, <3>1 DEF FileIsGone
  <2>3. InHand(t)' = InHand(t) /\ Spilling(t)' BY <1>1 DEF InHand, Spilling
  <2>4. LockHeld'
    <3>1. InHand(writer.by)' = InHand(t) /\ Spilling(writer.by)' BY <1>2, <2>3 DEF InHand, Spilling
    <3> QED BY <1>1, <1>2, <2>2, <3>1 DEF LockHeld
  <2>5. BlankFiles'
    <3>1. writer.pc # "write" BY <1>1 DEF PyInv, PyOrder, PyTypes
    <3> QED BY <1>1, <2>1, <3>1 DEF Explained, BlankFiles
  <2>6. Whereabouts' BY <1>1, <2>1 DEF Explained, Whereabouts, Kept
  <2> QED BY <2>4, <2>5, <2>6 DEF Explained
<1> QED BY <1>3, <1>4, <1>5, <1>6 DEF PyInv, PyOrder

(* enqueue() returns without having created or changed a file.             *)
LEMMA GivesUpStep ==
  ASSUME PyInv, Alive, NEW t \in Writers, Spilling(t), NEW n \in 0..Len(pyDisk),
         pyDisk' = Rest(n), pruned' = pruned \cup {pyDisk[i] : i \in 1..n},
         UNCHANGED <<pyMem, text, scan, pySent, landed, spilled, raced>>,
         broken \subseteq broken', InHand(t) \in broken' \cup raced,
         EnqueueReturns(t), writer.by = t, writer.pc = "prune"
  PROVE  PyInv'
<1>1. /\ writer' = NoWriter /\ poster' \in {poster, AtRest} /\ program' \in {program, "run"}
      /\ poster'.item \in {poster.item, 0} /\ (poster'.pc = "post" => poster' = poster)
      /\ \A r \in 1..pySent : poster.item = r \/ (program = "spill" /\ r = pySent) =>
           r = InHand(t) \/ poster'.item = r \/ (program' = "spill" /\ r = pySent)
  BY ReturnFacts DEF PyInv, PyOrder
<1>2. /\ Rest(n) \in Seq(Nat)
      /\ \A y \in Nat : Contains(Rest(n), y) => Contains(pyDisk, y)
      /\ \A y \in Nat : Contains(pyDisk, y) => Contains(Rest(n), y) \/ y \in {pyDisk[i] : i \in 1..n}
  BY RestHas DEF PyInv, PyOrder, PyTypes
<1>3. PyTypes' BY <1>1, <1>2 DEF PyInv, PyOrder, PyTypes, Writing, NoWriter, AtRest
<1>4. OnDisk' BY <1>2 DEF PyInv, PyOrder, OnDisk
<1>5. InTurn' BY <1>1, OrderKept DEF PyInv
<1>6. Explained'
  <2>1. Explained BY DEF PyInv
  <2>2. \A r \in 1..pySent : r \in Nat BY DEF PyInv, PyOrder, PyTypes
  <2>3. LockHeld' BY <1>1 DEF LockHeld, Writing, NoWriter
  <2>4. BlankFiles'
    <3>1. \A r \in 1..pySent : Contains(pyDisk, r) /\ text[r] # "line" => r \in broken \cup raced
      BY <2>1 DEF Explained, BlankFiles
    <3> QED BY <1>2, <2>1, <2>2, <3>1 DEF Explained, BlankFiles
  <2>5. Whereabouts'
    <3> SUFFICES ASSUME NEW r \in 1..pySent, r \notin pruned' \cup broken' \cup raced PROVE Kept(r)'
      BY DEF Whereabouts
    <3>1. Kept(r) /\ r # InHand(t) BY <2>1 DEF Explained, Whereabouts
    <3>2. Contains(pyDisk, r) => Contains(pyDisk', r) BY <1>2, <2>2
    <3> QED BY <1>1, <3>1, <3>2 DEF Kept
  <2> QED BY <2>3, <2>4, <2>5 DEF Explained
<1> QED BY <1>3, <1>4, <1>5, <1>6 DEF PyInv, PyOrder

LEMMA StatRaisesStep == ASSUME PyInv, NEW t \in Writers, StatRaises(t) PROVE PyInv'
<1>1. /\ Alive /\ writer.by = t /\ writer.pc = "prune" /\ FileIsGone /\ EnqueueReturns(t)
      /\ UNCHANGED <<pyMem, pyDisk, text, scan, pySent, landed, spilled, pruned, broken, raced>>
  BY DEF StatRaises, fates
<1>2. Spilling(t) /\ InHand(t) \in raced
  BY <1>1 DEF PyInv, PyOrder, PyTypes, Explained, LockHeld
<1>3. pyDisk \in Seq(Nat) BY DEF PyInv, PyOrder, PyTypes
<1>4. 0 \in 0..Len(pyDisk) /\ Rest(0) = pyDisk /\ {pyDisk[i] : i \in 1..0} = {}
  BY <1>3 DEF Rest
<1> QED BY <1>1, <1>2, <1>4, GivesUpStep

(* The file is created, and is empty until it is written.                  *)
LEMMA CreateFileStep == ASSUME PyInv, NEW t \in Writers, CreateFile(t) PROVE PyInv'
<1>1. PICK n \in 0..Len(pyDisk) : Prune(n) /\ pyDisk' = Append(Rest(n), InHand(t))
  BY DEF CreateFile
<1>2. /\ Alive /\ writer.by = t /\ writer.pc = "prune"
      /\ pruned' = pruned \cup {pyDisk[i] : i \in 1..n}
      /\ text' = [text EXCEPT ![InHand(t)] = "nothing"]
      /\ writer' = [writer EXCEPT !.pc = "write"]
      /\ spilled' = spilled \cup {InHand(t)}
      /\ UNCHANGED <<pyMem, poster, scan, program, pySent, landed, broken, raced>>
  BY <1>1 DEF CreateFile, Prune
<1>3. Writing /\ Spilling(t) /\ Explained
  BY <1>2 DEF PyInv, PyOrder, PyTypes, Explained, LockHeld
<1> DEFINE q == InHand(t)
<1>4. q \in 1..pySent /\ q \in 1..MaxSent /\ q \in Nat BY <1>3, RequestFacts DEF PyInv
<1>5. /\ Rest(n) \in Seq(Nat)
      /\ \A y \in Nat : Contains(Rest(n), y) => Contains(pyDisk, y)
      /\ \A y \in Nat : Contains(pyDisk, y) => Contains(Rest(n), y) \/ y \in {pyDisk[i] : i \in 1..n}
  BY RestHas DEF PyInv, PyOrder, PyTypes
<1>6. /\ Append(Rest(n), q) \in Seq(Nat)
      /\ \A y \in Nat : Contains(Append(Rest(n), q), y) <=> Contains(Rest(n), y) \/ y = q
  BY <1>4, <1>5, AppendHas
<1>7. q' = q /\ Spilling(t)' BY <1>2, <1>3 DEF InHand, Spilling
<1>8. /\ writer' \in [by : Writers \cup {"none"}, pc : {"list", "prune", "write"}, listed : Seq(Nat)]
      /\ writer'.by = t /\ writer'.pc = "write" /\ Writing'
  BY <1>2, <1>3 DEF PyInv, PyOrder, PyTypes, Writing
<1>9. text' \in [1..MaxSent -> Contents] /\ \A r \in 1..MaxSent : r # q => text'[r] = text[r]
  BY <1>2, <1>4 DEF PyInv, PyOrder, PyTypes, Contents
<1> HIDE DEF q
<1>10. /\ pyDisk' \in Seq(Nat)
       /\ \A y \in Nat : Contains(pyDisk', y) => Contains(pyDisk, y) \/ y = q
       /\ \A y \in Nat : Contains(pyDisk, y) => Contains(pyDisk', y) \/ y \in pruned'
       /\ Contains(pyDisk', q)
  BY <1>1, <1>2, <1>4, <1>5, <1>6 DEF q
<1>11. spilled' = spilled \cup {q} BY <1>2 DEF q
<1>12. PyTypes' BY <1>2, <1>4, <1>8, <1>9, <1>10, <1>11 DEF PyInv, PyOrder, PyTypes
<1>13. OnDisk' BY <1>2, <1>10, <1>11 DEF PyInv, PyOrder, OnDisk
<1>14. InTurn' BY <1>2, OrderKept DEF PyInv
<1>15. Explained'
  <2>1. \A r \in 1..pySent : r \in Nat /\ r \in 1..MaxSent BY PyAssumption DEF PyInv, PyOrder, PyTypes
  <2>2. InHand(writer.by)' = q /\ Spilling(writer.by)' BY <1>7, <1>8 DEF q, InHand, Spilling
  <2>3. LockHeld' BY <1>2, <1>3, <1>8, <1>10, <2>2 DEF Explained, LockHeld, q
  <2>4. BlankFiles'
    <3>1. \A r \in 1..pySent : Contains(pyDisk, r) /\ text[r] # "line" => r \in broken \cup raced
      BY <1>2, <1>3 DEF Explained, BlankFiles
    <3> QED BY <1>2, <1>3, <1>8, <1>9, <1>10, <2>1, <2>2, <3>1 DEF Explained, BlankFiles
  <2>5. Kept(q)' BY <1>2, <1>3, <1>7 DEF Kept, q, InHand, Spilling, Writers
  <2>6. Whereabouts'
    <3> SUFFICES ASSUME NEW r \in 1..pySent, r \notin pruned' \cup broken \cup raced PROVE Kept(r)'
      BY <1>2 DEF Whereabouts
    <3>1. Kept(r) BY <1>2, <1>3 DEF Explained, Whereabouts
    <3>2. CASE r = q BY <1>7, <2>5, <3>2
    <3>3. CASE r # q
      <4>1. text'[r] = text[r] /\ (Contains(pyDisk, r) => Contains(pyDisk', r)) BY <1>9, <1>10, <2>1, <3>3
      <4> QED BY <1>2, <3>1, <4>1 DEF Kept
    <3> QED BY <3>2, <3>3
  <2> QED BY <2>3, <2>4, <2>6 DEF Explained
<1> QED BY <1>12, <1>13, <1>14, <1>15 DEF PyInv, PyOrder

(* enqueue() returns with the line in the file, or with an error.          *)
LEMMA WritesStep ==
  ASSUME PyInv, Alive, NEW t \in Writers, NEW left \in Contents, writer.by = t, writer.pc = "write",
         text' = [text EXCEPT ![InHand(t)] = left], EnqueueReturns(t),
         UNCHANGED <<pyMem, pyDisk, scan, pySent, landed, spilled, pruned, raced>>,
         broken \subseteq broken', left = "line" \/ InHand(t) \in broken'
  PROVE  PyInv'
<1>1. Writing /\ Spilling(t) /\ Explained BY DEF PyInv, PyOrder, PyTypes, Explained, LockHeld
<1>2. /\ writer' = NoWriter /\ poster' \in {poster, AtRest} /\ program' \in {program, "run"}
      /\ poster'.item \in {poster.item, 0} /\ (poster'.pc = "post" => poster' = poster)
      /\ \A r \in 1..pySent : poster.item = r \/ (program = "spill" /\ r = pySent) =>
           r = InHand(t) \/ poster'.item = r \/ (program' = "spill" /\ r = pySent)
  BY <1>1, ReturnFacts DEF PyInv, PyOrder
<1> DEFINE q == InHand(t)
<1>3. q \in 1..pySent /\ q \in 1..MaxSent /\ q \in Nat BY <1>1, RequestFacts DEF PyInv
<1>4. /\ text' \in [1..MaxSent -> Contents] /\ text'[q] = left
      /\ \A r \in 1..MaxSent : r # q => text'[r] = text[r]
  BY <1>3 DEF PyInv, PyOrder, PyTypes
<1>5. PyTypes' BY <1>2, <1>4 DEF PyInv, PyOrder, PyTypes, Writing, NoWriter, AtRest
<1>6. OnDisk' BY DEF PyInv, PyOrder, OnDisk
<1>7. InTurn' BY <1>2, OrderKept DEF PyInv
<1>8. Explained'
  <2>1. \A r \in 1..pySent : r \in 1..MaxSent BY PyAssumption DEF PyInv, PyOrder, PyTypes
  <2>2. LockHeld' BY <1>2 DEF LockHeld, Writing, NoWriter
  <2>3. BlankFiles'
    <3>1. \A r \in 1..pySent : Contains(pyDisk, r) /\ text[r] # "line" /\ r # q => r \in broken \cup raced
      BY <1>1 DEF Explained, BlankFiles
    <3>2. \A r \in 1..pySent : Contains(pyDisk, r) /\ text'[r] # "line" => r \in broken' \cup raced
      BY <1>4, <2>1, <3>1
    <3> QED BY <1>1, <3>2 DEF Explained, BlankFiles
  <2>4. Whereabouts'
    <3> SUFFICES ASSUME NEW r \in 1..pySent, r \notin pruned \cup broken' \cup raced PROVE Kept(r)'
      BY DEF Whereabouts
    <3>1. Kept(r) BY <1>1 DEF Explained, Whereabouts
    <3>2. CASE r = q
      <4>1. Contains(pyDisk, r) /\ text'[r] = "line" BY <1>1, <1>4, <3>2 DEF Explained, LockHeld
      <4> QED BY <4>1 DEF Kept
    <3>3. CASE r # q
      <4>1. text'[r] = text[r] BY <1>4, <2>1, <3>3
      <4> QED BY <1>2, <3>1, <3>3, <4>1 DEF Kept
    <3> QED BY <3>2, <3>3
  <2> QED BY <2>2, <2>3, <2>4 DEF Explained
<1> QED BY <1>5, <1>6, <1>7, <1>8 DEF PyInv, PyOrder

LEMMA WriteFileStep == ASSUME PyInv, NEW t \in Writers, WriteFile(t) PROVE PyInv'
<1>1. "line" \in Contents BY DEF Contents
<1> QED BY <1>1, WritesStep DEF WriteFile, fates

(* enqueue() gives the request up before it takes the lock.                *)
LEMMA NoJsonStep ==
  ASSUME PyInv, Alive, NEW t \in Writers, Spilling(t), writer.by # t,
         UNCHANGED <<pyMem, pyDisk, text, writer, scan, pySent, landed, spilled, pruned, raced>>,
         broken' = broken \cup {InHand(t)},
         IF t = "program" THEN program' = "run" /\ poster' = poster ELSE poster' = AtRest /\ program' = program
  PROVE  PyInv'
<1>1. /\ poster' \in {poster, AtRest} /\ program' \in {program, "run"}
      /\ poster'.item \in {poster.item, 0} /\ (poster'.pc = "post" => poster' = poster)
      /\ \A r \in 1..pySent : poster.item = r \/ (program = "spill" /\ r = pySent) =>
           r = InHand(t) \/ poster'.item = r \/ (program' = "spill" /\ r = pySent)
  BY DEF PyInv, PyOrder, PyTypes, Writers, InHand, Spilling, AtRest
<1>2. PyTypes' BY <1>1 DEF PyInv, PyOrder, PyTypes, Writing, AtRest
<1>3. OnDisk' BY DEF PyInv, PyOrder, OnDisk
<1>4. InTurn' BY <1>1, OrderKept DEF PyInv
<1>5. Explained'
  <2>1. Explained BY DEF PyInv
  <2>2. Writing => InHand(writer.by)' = InHand(writer.by) /\ Spilling(writer.by)'
    BY <2>1 DEF Explained, LockHeld, Writers, Spilling, InHand
  <2>3. LockHeld' BY <2>1, <2>2 DEF Explained, LockHeld, Writing, FileIsGone
  <2>4. BlankFiles'
    <3>1. writer.pc = "write" => Writing BY DEF PyInv, PyOrder, PyTypes
    <3> QED BY <2>1, <2>2, <3>1 DEF Explained, BlankFiles
  <2>5. Whereabouts' BY <1>1, <2>1 DEF Explained, Whereabouts, Kept
  <2> QED BY <2>3, <2>4, <2>5 DEF Explained
<1> QED BY <1>2, <1>3, <1>4, <1>5 DEF PyInv, PyOrder

LEMMA EnqueueRaisesStep == ASSUME PyInv, NEW t \in Writers, EnqueueRaises(t) PROVE PyInv'
<1>1. /\ Alive /\ Spilling(t) /\ broken' = broken \cup {InHand(t)}
      /\ UNCHANGED <<pyMem, scan, pySent, landed, spilled, raced>>
  BY DEF EnqueueRaises
<1>2. CASE /\ writer.by # t /\ UNCHANGED <<pyDisk, text, pruned, writer>>
           /\ IF t = "program" THEN program' = "run" /\ UNCHANGED poster
              ELSE poster' = AtRest /\ UNCHANGED program
  BY <1>1, <1>2, NoJsonStep
<1>3. CASE /\ writer.by = t /\ writer.pc = "prune"
           /\ \E n \in 0..Len(pyDisk) : Prune(n) /\ pyDisk' = Rest(n)
           /\ EnqueueReturns(t) /\ UNCHANGED text
  <2>1. PICK n \in 0..Len(pyDisk) : Prune(n) /\ pyDisk' = Rest(n) BY <1>3
  <2>2. pruned' = pruned \cup {pyDisk[i] : i \in 1..n} BY <2>1 DEF Prune
  <2> QED BY <1>1, <1>3, <2>1, <2>2, GivesUpStep
<1>4. CASE /\ writer.by = t /\ writer.pc = "write"
           /\ \E left \in Contents : text' = [text EXCEPT ![InHand(t)] = left]
           /\ EnqueueReturns(t) /\ UNCHANGED <<pyDisk, pruned>>
  <2>1. PICK left \in Contents : text' = [text EXCEPT ![InHand(t)] = left] BY <1>4
  <2> QED BY <1>1, <1>4, <2>1, WritesStep
<1> QED BY <1>2, <1>3, <1>4 DEF EnqueueRaises, Contents

(* A scan takes the list of the files.                                     *)
LEMMA StartScanStep ==
  ASSUME PyInv, Alive, NEW s \in Scanners, StartScan(s), program' = program PROVE PyInv'
<1>1. /\ scan' = [scan EXCEPT ![s] = [on |-> TRUE, files |-> pyDisk, reading |-> 0, got |-> "nothing"]]
      /\ raced' = IF Writing THEN raced \cup {InHand(writer.by)} ELSE raced
      /\ UNCHANGED <<pyMem, pyDisk, text, writer, poster, pySent, landed, spilled, pruned, broken>>
  BY DEF StartScan, disk
<1>2. PyTypes' BY <1>1 DEF PyInv, PyOrder, PyTypes, Writing, Contents
<1>3. \A u \in Scanners : scan'[u] = IF u = s THEN [on |-> TRUE, files |-> pyDisk, reading |-> 0, got |-> "nothing"]
                                    ELSE scan[u]
  BY <1>1 DEF PyInv, PyOrder, PyTypes
<1>4. OnDisk' BY <1>1, <1>3 DEF PyInv, PyOrder, OnDisk
<1>5. InTurn' BY <1>1, OrderKept DEF PyInv
<1>6. Explained'
  <2>1. Explained BY DEF PyInv
  <2>2. InHand(writer.by)' = InHand(writer.by) /\ Spilling(writer.by)' = Spilling(writer.by)
    BY <1>1 DEF InHand, Spilling
  <2>3. LockHeld' BY <1>1, <2>1, <2>2 DEF Explained, LockHeld, Writing, FileIsGone
  <2>4. BlankFiles' BY <1>1, <1>3, <2>1, <2>2 DEF Explained, BlankFiles
  <2>5. Whereabouts' BY <1>1, <2>1 DEF Explained, Whereabouts, Kept
  <2> QED BY <2>3, <2>4, <2>5 DEF Explained
<1> QED BY <1>2, <1>4, <1>5, <1>6 DEF PyInv, PyOrder

LEMMA EndScanStep ==
  ASSUME PyInv, Alive, NEW s \in Scanners, EndScan(s),
         program' = program \/ (program # "spill" /\ program' \in {"complete", "ended"}),
         UNCHANGED <<pyMem, pyDisk, text, writer, poster, pySent, landed, spilled, pruned, broken, raced>>
  PROVE  PyInv'
<1>1. scan' = [scan EXCEPT ![s] = NoScan] BY DEF EndScan
<1>2. PyTypes' BY <1>1 DEF PyInv, PyOrder, PyTypes, Writing, Contents, NoScan
<1>3. \A u \in Scanners : scan'[u] = IF u = s THEN NoScan ELSE scan[u] BY <1>1 DEF PyInv, PyOrder, PyTypes
<1>4. OnDisk' BY <1>3 DEF PyInv, PyOrder, OnDisk, NoScan, Contains
<1>5. InTurn' BY <1>1, OrderKept DEF PyInv
<1>6. Explained'
  <2>1. Explained BY DEF PyInv
  <2>2. Writing => InHand(writer.by)' = InHand(writer.by) /\ Spilling(writer.by)'
    BY <2>1 DEF Explained, LockHeld, InHand, Spilling
  <2>3. \A u \in Scanners : scan'[u].on => scan[u].on BY <1>3 DEF NoScan
  <2>4. LockHeld' BY <2>1, <2>2, <2>3 DEF Explained, LockHeld, Writing, FileIsGone
  <2>5. BlankFiles'
    <3>1. writer.pc = "write" => Writing BY DEF PyInv, PyOrder, PyTypes
    <3> QED BY <1>3, <2>1, <2>2, <3>1 DEF Explained, BlankFiles, NoScan
  <2>6. Whereabouts' BY <2>1 DEF Explained, Whereabouts, Kept
  <2> QED BY <2>4, <2>5, <2>6 DEF Explained
<1> QED BY <1>2, <1>4, <1>5, <1>6 DEF PyInv, PyOrder

LEMMA ReadFileStep == ASSUME PyInv, NEW s \in Scanners, ReadFile(s) PROVE PyInv'
<1> DEFINE f == Head(scan[s].files)
           there == Contains(pyDisk, f)
           read == [scan[s] EXCEPT !.files = Tail(@), !.reading = IF there THEN f ELSE 0,
                                   !.got = IF there THEN text[f] ELSE "nothing"]
<1>1. /\ scan' = [scan EXCEPT ![s] = read] /\ Alive
      /\ UNCHANGED <<pyMem, pyDisk, text, writer, poster, program, pySent, landed, spilled, pruned, broken, raced>>
      /\ scan[s].files # <<>>
  BY DEF ReadFile, disk, fates
<1>2. /\ scan[s] \in [on : BOOLEAN, files : Seq(Nat), reading : Nat, got : Contents]
      /\ scan[s].on
  BY <1>1 DEF PyInv, PyOrder, PyTypes, OnDisk
<1>3. /\ Tail(scan[s].files) \in Seq(Nat) /\ f \in Nat /\ Contains(scan[s].files, f)
      /\ \A y \in Nat : Contains(Tail(scan[s].files), y) => Contains(scan[s].files, y)
  BY <1>1, <1>2, TailHas
<1>4. f \in spilled /\ f \in 1..pySent /\ f \in 1..MaxSent /\ f # 0
  <2>1. f \in spilled BY <1>3 DEF PyInv, PyOrder, OnDisk
  <2>2. f \in 1..pySent BY <2>1 DEF PyInv, PyOrder, PyTypes
  <2> QED BY <2>1, <2>2, PyAssumption DEF PyInv, PyOrder, PyTypes
<1>5. text[f] \in Contents BY <1>4 DEF PyInv, PyOrder, PyTypes
<1> HIDE DEF f, there
<1>6. /\ read \in [on : BOOLEAN, files : Seq(Nat), reading : Nat, got : Contents]
      /\ read.on /\ read.files = Tail(scan[s].files)
      /\ read.reading = IF there THEN f ELSE 0
      /\ read.got = IF there THEN text[f] ELSE "nothing"
  BY <1>2, <1>3, <1>5 DEF Contents
<1> HIDE DEF read
<1>7. scan' \in [Scanners -> [on : BOOLEAN, files : Seq(Nat), reading : Nat, got : Contents]]
      /\ \A u \in Scanners : scan'[u] = IF u = s THEN read ELSE scan[u]
  BY <1>1, <1>6 DEF PyInv, PyOrder, PyTypes
<1>8. PyTypes' BY <1>1, <1>7 DEF PyInv, PyOrder, PyTypes, Writing
<1>9. OnDisk' BY <1>1, <1>3, <1>4, <1>6, <1>7 DEF PyInv, PyOrder, OnDisk
<1>10. InTurn' BY <1>1, OrderKept DEF PyInv
<1>11. Explained'
  <2>1. Explained BY <1>1 DEF PyInv
  <2>2. InHand(writer.by)' = InHand(writer.by) /\ Spilling(writer.by)' = Spilling(writer.by)
    BY <1>1 DEF InHand, Spilling
  <2>3. \A u \in Scanners : scan'[u].on => scan[u].on BY <1>2, <1>7
  <2>4. LockHeld' BY <1>1, <2>1, <2>2, <2>3 DEF Explained, LockHeld, Writing, FileIsGone
  <2>5. read.reading # 0 /\ read.got = "nothing" => read.reading \in broken \cup raced
    <3> SUFFICES ASSUME read.reading # 0, read.got = "nothing" PROVE f \in broken \cup raced BY <1>6
    <3>1. there /\ text[f] = "nothing" BY <1>6
    <3>2. f \in broken \cup raced \/ (writer.pc = "write" /\ f = InHand(writer.by))
      BY <1>4, <2>1, <3>1 DEF Explained, BlankFiles, there
    <3>3. writer.pc = "write" => Writing BY DEF PyInv, PyOrder, PyTypes
    <3>4. writer.pc = "write" => InHand(writer.by) \in raced BY <1>2, <2>1, <3>3 DEF Explained, LockHeld
    <3> QED BY <3>2, <3>4
  <2>6. BlankFiles' BY <1>1, <1>7, <2>1, <2>2, <2>5 DEF Explained, BlankFiles
  <2>7. Whereabouts' BY <1>1, <2>1 DEF Explained, Whereabouts, Kept
  <2> QED BY <2>4, <2>6, <2>7 DEF Explained
<1> QED BY <1>8, <1>9, <1>10, <1>11 DEF PyInv, PyOrder

(* A scan has posted, removed or left the file it read.                    *)
LEMMA NextFileStep ==
  ASSUME PyInv, Alive, NEW s \in Scanners, NextFile(s), scan[s].reading # 0,
         landed' \in {landed, Append(landed, scan[s].reading)}, pyDisk' = pyDisk \/ UnlinkFile(s),
         UNCHANGED <<pyMem, text, writer, poster, program, pySent, spilled, pruned, broken, raced>>,
         pyDisk' = pyDisk \/ landed' # landed \/ scan[s].got = "nothing"
  PROVE  PyInv'
<1> DEFINE r == scan[s].reading
<1>1. /\ r \in spilled /\ r \in Nat /\ scan[s].on
      /\ landed \in Seq(Nat) /\ pyDisk \in Seq(Nat)
  BY DEF PyInv, PyOrder, PyTypes, OnDisk
<1>2. /\ landed' \in Seq(Nat) /\ InTurn'
      /\ \A x \in Nat : Contains(landed, x) => Contains(landed', x)
      /\ landed' # landed => Contains(landed', r)
  <2>1. CASE landed' = landed BY <1>1, <2>1, OrderKept DEF PyInv
  <2>2. CASE landed' = Append(landed, r)
    <3>1. /\ landed' \in Seq(Nat) /\ InTurn'
          /\ \A x \in Nat : Contains(landed', x) <=> Contains(landed, x) \/ x = r
      BY <1>1, <2>2, OrderLanded DEF PyInv
    <3> QED BY <1>1, <3>1
  <2> QED BY <2>1, <2>2
<1>3. /\ pyDisk' \in Seq(Nat)
      /\ \A y \in Nat : Contains(pyDisk', y) => Contains(pyDisk, y)
      /\ \A y \in Nat : y # r /\ Contains(pyDisk, y) => Contains(pyDisk', y)
  <2>1. /\ RemoveFirst(pyDisk, r) \in Seq(Nat)
        /\ \A y \in Nat : Contains(RemoveFirst(pyDisk, r), y) => Contains(pyDisk, y)
        /\ \A y \in Nat : y # r /\ Contains(pyDisk, y) => Contains(RemoveFirst(pyDisk, r), y)
    BY <1>1, RemoveFirstHas
  <2> QED BY <1>1, <2>1 DEF UnlinkFile
<1>4. /\ scan' \in [Scanners -> [on : BOOLEAN, files : Seq(Nat), reading : Nat, got : Contents]]
      /\ \A u \in Scanners : /\ scan'[u].on = scan[u].on /\ scan'[u].files = scan[u].files
                             /\ scan'[u] = scan[u] \/ (scan'[u].reading = 0 /\ scan'[u].got = "nothing")
      /\ scan'[s].reading = 0
  BY DEF NextFile, PyInv, PyOrder, PyTypes, Contents
<1>5. PyTypes' BY <1>2, <1>3, <1>4 DEF PyInv, PyOrder, PyTypes, Writing
<1>6. OnDisk' BY <1>3, <1>4 DEF PyInv, PyOrder, OnDisk
<1>7. Explained'
  <2>1. Explained BY DEF PyInv
  <2>2. InHand(writer.by)' = InHand(writer.by) /\ Spilling(writer.by)' = Spilling(writer.by)
    BY DEF InHand, Spilling
  <2>3. \A y \in 1..pySent : y \in Nat BY DEF PyInv, PyOrder, PyTypes
  <2>4. LockHeld'
    <3>1. Writing => InHand(writer.by) \in raced BY <1>1, <2>1 DEF Explained, LockHeld
    <3> QED BY <1>4, <2>1, <2>2, <3>1 DEF Explained, LockHeld, Writing
  <2>5. BlankFiles' BY <1>3, <1>4, <2>1, <2>2, <2>3 DEF Explained, BlankFiles
  <2>6. Whereabouts'
    <3> SUFFICES ASSUME NEW y \in 1..pySent, y \notin pruned \cup broken \cup raced PROVE Kept(y)'
      BY DEF Whereabouts
    <3>1. Kept(y) BY <2>1 DEF Explained, Whereabouts
    <3>2. CASE y # r BY <1>2, <1>3, <2>3, <3>1, <3>2 DEF Kept
    <3>3. CASE y = r /\ pyDisk' = pyDisk BY <1>2, <2>3, <3>1, <3>3 DEF Kept
    <3>4. CASE y = r /\ landed' # landed BY <1>2, <3>4 DEF Kept
    <3>5. CASE y = r /\ scan[s].got = "nothing" BY <2>1, <3>5 DEF Explained, BlankFiles
    <3> QED BY <3>2, <3>3, <3>4, <3>5
  <2> QED BY <2>4, <2>5, <2>6 DEF Explained
<1> QED BY <1>2, <1>5, <1>6, <1>7 DEF PyInv, PyOrder

LEMMA FilePostedStep == ASSUME PyInv, NEW s \in Scanners, FilePosted(s) PROVE PyInv'
<1>1. scan[s].reading # 0 BY DEF FilePosted, PyInv, PyOrder, OnDisk
<1>2. landed' # landed
  <2>1. landed \in Seq(Nat) /\ scan[s].reading \in Nat BY DEF PyInv, PyOrder, PyTypes
  <2>2. Len(landed') = Len(landed) + 1 /\ Len(landed) \in Nat BY <2>1, AppendProperties DEF FilePosted
  <2> QED BY <2>2
<1> QED BY <1>1, <1>2, NextFileStep DEF FilePosted, fates

LEMMA FileRaisesStep == ASSUME PyInv, NEW s \in Scanners, FileRaises(s) PROVE PyInv'
<1>1. scan[s].reading # 0 BY DEF FileRaises, PyInv, PyOrder, OnDisk
<1>2. landed' \in {landed, Append(landed, scan[s].reading)} BY DEF FileRaises, Raises
<1> QED BY <1>1, <1>2, NextFileStep DEF FileRaises, KeepFile, fates

LEMMA NextPy == PyInv /\ [PyNext]_pyVars => PyInv'
<1> SUFFICES ASSUME PyInv, [PyNext]_pyVars PROVE PyInv' OBVIOUS
<1>1. CASE Send BY <1>1, SendStep
<1>2. CASE StartComplete \/ Kill \/ CheckStop \/ UNCHANGED pyVars BY <1>2, QuietStep
<1>3. CASE Close BY <1>3, CloseStep
<1>4. CASE Waited
  <2>1. "program" \in Scanners BY DEF Scanners
  <2>2. Alive /\ StartScan("program") /\ program' = program BY <1>4 DEF Waited, StartScan, Alive
  <2> QED BY <2>1, <2>2, StartScanStep
<1>5. CASE Flushed
  <2>1. "program" \in Scanners BY DEF Scanners
  <2>2. /\ Alive /\ EndScan("program") /\ program # "spill" /\ program' \in {"complete", "ended"}
        /\ UNCHANGED <<pyMem, pyDisk, text, writer, poster, pySent, landed, spilled, pruned, broken, raced>>
    BY <1>5 DEF Flushed, Alive, disk, fates
  <2> QED BY <2>1, <2>2, EndScanStep
<1>6. ASSUME NEW t \in Writers, ListToPrune(t) \/ StatRaises(t) \/ CreateFile(t) \/ WriteFile(t) \/ EnqueueRaises(t)
      PROVE  PyInv'
  BY <1>6, ListStep, StatRaisesStep, CreateFileStep, WriteFileStep, EnqueueRaisesStep
<1>7. CASE GetItem BY <1>7, GetItemStep
<1>8. CASE Posted BY <1>8, PostedStep
<1>9. CASE PostRaises BY <1>9, PostRaisesStep
<1>10. CASE FlusherWakes
  <2>1. "flusher" \in Scanners BY DEF Scanners
  <2>2. Alive /\ StartScan("flusher") /\ program' = program BY <1>10 DEF FlusherWakes, StartScan
  <2> QED BY <2>1, <2>2, StartScanStep
<1>11. CASE FlusherDone
  <2>1. "flusher" \in Scanners BY DEF Scanners
  <2>2. /\ Alive /\ EndScan("flusher") /\ program' = program
        /\ UNCHANGED <<pyMem, pyDisk, text, writer, poster, pySent, landed, spilled, pruned, broken, raced>>
    BY <1>11 DEF FlusherDone, disk, fates
  <2> QED BY <2>1, <2>2, EndScanStep
<1>12. ASSUME NEW s \in Scanners, ReadFile(s) PROVE PyInv' BY <1>12, ReadFileStep
<1>13. ASSUME NEW s \in Scanners, FilePosted(s) PROVE PyInv' BY <1>13, FilePostedStep
<1>14. ASSUME NEW s \in Scanners, EmptyFileRemoved(s) PROVE PyInv'
  BY <1>14, NextFileStep DEF EmptyFileRemoved, fates
<1>15. ASSUME NEW s \in Scanners, FileRaises(s) PROVE PyInv' BY <1>15, FileRaisesStep
<1> QED BY <1>1, <1>2, <1>3, <1>4, <1>5, <1>6, <1>7, <1>8, <1>9, <1>10, <1>11, <1>12, <1>13, <1>14, <1>15 DEF PyNext

(* What has had no file is in the order of send(), and a request that is   *)
(* nowhere has its reason, in every state.                                 *)
THEOREM PyInvariant == PySpec => []PyInv
  BY InitPy, NextPy, PTL DEF PySpec

(* send(), _run_loop() and _flush_disk_once() let a request reach ingest   *)
(* twice or after a later one only when one of the two had a file: also    *)
(* when posts raise whose requests ingest had accepted.                    *)
THEOREM DiskCausesDisorder == PySpec => []DisorderWasSpilled
<1>1. ASSUME PyInv PROVE DisorderWasSpilled
  <2> SUFFICES ASSUME NEW i \in DOMAIN landed, NEW j \in DOMAIN landed, i < j, landed[j] <= landed[i]
               PROVE  landed[i] \in spilled \/ landed[j] \in spilled
    BY DEF DisorderWasSpilled
  <2>1. landed[i] \in Nat \ {0} /\ landed[j] \in Nat \ {0}
    <3>1. landed[i] \in Nat /\ landed[j] \in Nat BY <1>1 DEF PyInv, PyOrder, PyTypes
    <3>2. landed[i] # 0 /\ landed[j] # 0 BY <1>1 DEF PyInv, PyOrder, InTurn, SentBefore
    <3> QED BY <3>1, <3>2
  <2> QED BY <1>1, <2>1 DEF PyInv, PyOrder, InTurn, LandedInTurn, Unspilled
<1> QED BY <1>1, PyInvariant, PTL

(* While the process lives, a request that is not with ingest, in memory,  *)
(* in the hands of a thread or whole in a file was pruned, met an error of *)
(* enqueue(), or had its enqueue() run beside a scan of the files.         *)
THEOREM LossesHaveReasons == PySpec => []LossExplained
<1>1. PyInv => LossExplained BY DEF PyInv, Explained, Whereabouts, LossExplained
<1> QED BY <1>1, PyInvariant, PTL

(*************************************************************************)
(* The MCP proxy.  An answer finds its call only because the pending ids *)
(* are those of the calls without an answer that were not taken for a    *)
(* request (Matched), and a call has its hop before it has its answer only*)
(* in the latter case (HopsMade).                                        *)
(*************************************************************************)
Hop(c, kind) == [call |-> c, kind |-> kind]

ProxyTypes ==
  /\ toolCalls \in Seq(Ids)
  /\ unanswered \subseteq 1..Len(toolCalls)
  /\ mistaken \subseteq 1..Len(toolCalls)
  /\ pendingCall = [id \in DOMAIN pendingCall |-> pendingCall[id]]
  /\ proxyFailed \in BOOLEAN
  /\ proxy = "sse" => unanswered = {} /\ mistaken = {} /\ DOMAIN pendingCall = {}

(* The pending ids are those of the calls that wait and were not mistaken. *)
Matched ==
  /\ \A id \in DOMAIN pendingCall :
       pendingCall[id] \in unanswered \ mistaken /\ toolCalls[pendingCall[id]] = id
  /\ \A c \in unanswered \ mistaken : toolCalls[c] \in DOMAIN pendingCall
  /\ \A c, d \in unanswered : toolCalls[c] = toolCalls[d] => c = d

(* A hop is that of a mistaken call, made of a request, or that of a call  *)
(* that has its answer, made of it.                                        *)
HopsMade ==
  /\ \A h \in hopsOut :
       \/ h.call \in mistaken /\ h = Hop(h.call, "request")
       \/ /\ h.call \in (1..Len(toolCalls)) \ (mistaken \cup unanswered)
          /\ h = Hop(h.call, "answer")
  /\ \A c \in mistaken : Hop(c, "request") \in hopsOut
  /\ \A a \in answers :
       /\ a.call \in (1..Len(toolCalls)) \ unanswered
       /\ a.call \notin mistaken => Hop(a.call, "answer") \in hopsOut

(* What fails the run: the error of an answer that was taken for one.      *)
ErrorsCount ==
  /\ \A a \in answers : a.error /\ a.call \notin mistaken => proxyFailed
  /\ runStatus = "success" =>
       \A a \in answers : a.error /\ a.open => a.call \in mistaken

ProxyInv == ProxyTypes /\ Matched /\ HopsMade /\ ErrorsCount

-----------------------------------------------------------------------------
LEMMA InitProxy == ProxyInit => ProxyInv
<1> SUFFICES ASSUME ProxyInit PROVE ProxyInv OBVIOUS
<1>1. DOMAIN pendingCall = {} /\ pendingCall = [id \in DOMAIN pendingCall |-> pendingCall[id]]
  BY DEF ProxyInit
<1>2. ProxyTypes
  <2>1. toolCalls \in Seq(Ids) BY DEF ProxyInit
  <2>2. unanswered = {} /\ mistaken = {} /\ proxyFailed \in BOOLEAN BY DEF ProxyInit
  <2> QED BY <1>1, <2>1, <2>2 DEF ProxyTypes
<1>3. Matched BY <1>1 DEF ProxyInit, Matched
<1> QED BY <1>2, <1>3 DEF ProxyInit, ProxyInv, HopsMade, ErrorsCount

(* A new call takes an id that no waiting call has, and so no pending one. *)
LEMMA ClientCallsStep == ASSUME ProxyInv, NEW id \in Ids, ClientCalls(id) PROVE ProxyInv'
<1> DEFINE c == Len(toolCalls) + 1
<1>1. /\ toolCalls' = Append(toolCalls, id) /\ pendingCall' = Pend(id, c)
      /\ unanswered' = unanswered \cup {c}
      /\ \A d \in unanswered : toolCalls[d] # id
      /\ proxy = "stdio"
      /\ UNCHANGED <<proxy, answers, hopsOut, proxyFailed, runStatus, mistaken>>
  BY DEF ClientCalls, Relaying
<1>2. /\ toolCalls \in Seq(Ids) /\ toolCalls' \in Seq(Ids) /\ Len(toolCalls') = c
      /\ toolCalls'[c] = id /\ \A d \in 1..Len(toolCalls) : toolCalls'[d] = toolCalls[d]
      /\ c \in Nat \ {0} /\ Len(toolCalls) \in Nat
  BY <1>1 DEF ProxyInv, ProxyTypes
<1>3. /\ DOMAIN pendingCall' = DOMAIN pendingCall \cup {id}
      /\ pendingCall'[id] = c
      /\ \A i \in DOMAIN pendingCall \ {id} : pendingCall'[i] = pendingCall[i]
      /\ pendingCall' = [i \in DOMAIN pendingCall' |-> pendingCall'[i]]
  BY <1>1 DEF Pend
<1>4. c \notin 1..Len(toolCalls) /\ 1..Len(toolCalls') = (1..Len(toolCalls)) \cup {c}
  BY <1>2
<1> HIDE DEF c
<1>5. ProxyTypes'
  BY <1>1, <1>2, <1>3, <1>4 DEF ProxyInv, ProxyTypes
<1>6. Matched'
  <2>1. c \notin mistaken /\ c \notin unanswered BY <1>4 DEF ProxyInv, ProxyTypes
  <2>2. \A d \in unanswered : toolCalls'[d] = toolCalls[d] /\ toolCalls'[d] # id
    BY <1>1, <1>2 DEF ProxyInv, ProxyTypes
  <2>3. \A i \in DOMAIN pendingCall :
          /\ pendingCall[i] \in unanswered \ mistaken
          /\ toolCalls'[pendingCall[i]] = i /\ i # id
    BY <2>2 DEF ProxyInv, Matched
  <2>4. \A i \in DOMAIN pendingCall' :
          pendingCall'[i] \in unanswered' \ mistaken' /\ toolCalls'[pendingCall'[i]] = i
    BY <1>1, <1>2, <1>3, <2>1, <2>3
  <2>5. \A d \in unanswered' \ mistaken' : toolCalls'[d] \in DOMAIN pendingCall'
    BY <1>1, <1>2, <1>3, <2>2 DEF ProxyInv, Matched
  <2>6. \A d, e \in unanswered' : toolCalls'[d] = toolCalls'[e] => d = e
    <3>1. \A d, e \in unanswered : toolCalls[d] = toolCalls[e] => d = e BY DEF ProxyInv, Matched
    <3>2. \A d \in unanswered : toolCalls'[d] # toolCalls'[c] BY <1>2, <2>2
    <3>3. \A d \in unanswered' : d # c => d \in unanswered /\ toolCalls'[d] = toolCalls[d]
      BY <1>1, <2>2
    <3> SUFFICES ASSUME NEW d \in unanswered', NEW e \in unanswered', toolCalls'[d] = toolCalls'[e]
                 PROVE  d = e
      OBVIOUS
    <3>4. CASE d # c /\ e # c BY <3>1, <3>3, <3>4
    <3>5. CASE d = c \/ e = c
      <4>1. d # c => toolCalls'[d] # toolCalls'[c] BY <3>2, <3>3
      <4>2. e # c => toolCalls'[e] # toolCalls'[c] BY <3>2, <3>3
      <4> QED BY <3>5, <4>1, <4>2
    <3> QED BY <3>4, <3>5
  <2> QED BY <2>4, <2>5, <2>6 DEF Matched
<1>7. HopsMade' BY <1>1, <1>4 DEF ProxyInv, HopsMade
<1>8. ErrorsCount' BY <1>1 DEF ProxyInv, ErrorsCount
<1> QED BY <1>5, <1>6, <1>7, <1>8 DEF ProxyInv

(* The answer of a call that was not mistaken finds it, and that of one    *)
(* that was finds nothing.                                                 *)
LEMMA ServerAnswersStep == ASSUME ProxyInv, NEW c, ServerAnswers(c) PROVE ProxyInv'
<1> DEFINE id == toolCalls[c]
<1>1. PICK error \in BOOLEAN :
        /\ EmitToolEdge(id, [kind |-> "answer", error |-> error])
        /\ answers' = answers \cup {[call |-> c, error |-> error, open |-> runStatus = "open"]}
  BY DEF ServerAnswers
<1>2. /\ c \in unanswered /\ unanswered' = unanswered \ {c} /\ proxy = "stdio"
      /\ UNCHANGED <<proxy, toolCalls, runStatus, mistaken>>
  BY DEF ServerAnswers, Relaying
<1>3. c \in 1..Len(toolCalls) BY <1>2 DEF ProxyInv, ProxyTypes
<1> DEFINE a == [call |-> c, error |-> error, open |-> runStatus = "open"]
<1>4. a.call = c /\ a.error = error /\ a.open = (runStatus = "open") OBVIOUS
<1>5. CASE c \in mistaken
  <2>1. id \notin DOMAIN pendingCall
    BY <1>2, <1>5 DEF ProxyInv, Matched
  <2>2. UNCHANGED <<hopsOut, proxyFailed, pendingCall>>
    BY <1>1, <2>1 DEF EmitToolEdge
  <2>3. ProxyTypes' BY <1>2, <2>2 DEF ProxyInv, ProxyTypes
  <2>4. Matched' BY <1>2, <1>5, <2>2 DEF ProxyInv, Matched
  <2>5. HopsMade' BY <1>1, <1>2, <1>3, <1>4, <1>5, <2>2 DEF ProxyInv, HopsMade
  <2>6. ErrorsCount' BY <1>1, <1>2, <1>4, <1>5, <2>2 DEF ProxyInv, ErrorsCount
  <2> QED BY <2>3, <2>4, <2>5, <2>6 DEF ProxyInv
<1>6. CASE c \notin mistaken
  <2>1. id \in DOMAIN pendingCall /\ pendingCall[id] = c
    BY <1>2, <1>6 DEF ProxyInv, Matched
  <2>2. /\ hopsOut' = hopsOut \cup {Hop(c, "answer")}
        /\ proxyFailed' = (proxyFailed \/ error)
        /\ pendingCall' = [i \in DOMAIN pendingCall \ {id} |-> pendingCall[i]]
    BY <1>1, <2>1 DEF EmitToolEdge, Forget, Restrict, Hop
  <2>3. ProxyTypes' BY <1>2, <2>2 DEF ProxyInv, ProxyTypes
  <2>4. Matched' BY <1>2, <2>1, <2>2 DEF ProxyInv, Matched
  <2>5. HopsMade'
    <3>1. Hop(c, "answer").call = c BY DEF Hop
    <3> QED BY <1>1, <1>2, <1>3, <1>4, <1>6, <2>2, <3>1 DEF ProxyInv, HopsMade
  <2>6. ErrorsCount' BY <1>1, <1>2, <1>4, <2>2 DEF ProxyInv, ErrorsCount
  <2> QED BY <2>3, <2>4, <2>5, <2>6 DEF ProxyInv
<1> QED BY <1>5, <1>6

(* A request of the server with a pending id is taken for that answer.     *)
LEMMA ServerRequestsStep == ASSUME ProxyInv, NEW id \in Ids, ServerRequests(id) PROVE ProxyInv'
<1> DEFINE c == pendingCall[id]
<1>1. /\ id \in DOMAIN pendingCall /\ proxy = "stdio"
      /\ hopsOut' = hopsOut \cup {Hop(c, "request")}
      /\ proxyFailed' = (proxyFailed \/ FALSE)
      /\ pendingCall' = [i \in DOMAIN pendingCall \ {id} |-> pendingCall[i]]
      /\ mistaken' = mistaken \cup {c}
      /\ UNCHANGED <<proxy, toolCalls, unanswered, answers, runStatus>>
  BY DEF ServerRequests, Relaying, EmitToolEdge, Forget, Restrict, Hop
<1>2. c \in unanswered \ mistaken /\ toolCalls[c] = id /\ c \in 1..Len(toolCalls)
  BY <1>1 DEF ProxyInv, Matched, ProxyTypes
<1>3. \A d \in unanswered \ mistaken : toolCalls[d] = id => d = c
  BY <1>2 DEF ProxyInv, Matched
<1> HIDE DEF c
<1>4. ProxyTypes' BY <1>1, <1>2 DEF ProxyInv, ProxyTypes
<1>5. Matched' BY <1>1, <1>2, <1>3 DEF ProxyInv, Matched
<1>6. HopsMade'
  <2>1. Hop(c, "request").call = c BY DEF Hop
  <2> QED BY <1>1, <1>2, <2>1 DEF ProxyInv, HopsMade
<1>7. ErrorsCount' BY <1>1 DEF ProxyInv, ErrorsCount, ProxyTypes
<1> QED BY <1>4, <1>5, <1>6, <1>7 DEF ProxyInv

LEMMA CompleteStep == ASSUME ProxyInv, CompleteProxied PROVE ProxyInv'
<1>1. /\ runStatus' = Status
      /\ UNCHANGED <<proxy, pendingCall, toolCalls, unanswered, answers, hopsOut, proxyFailed, mistaken>>
  BY DEF CompleteProxied
<1>2. ErrorsCount' BY <1>1 DEF ProxyInv, ErrorsCount, Status
<1> QED BY <1>1, <1>2 DEF ProxyInv, ProxyTypes, Matched, HopsMade

(* The one message of the other mode: its call, if it is one, is answered. *)
LEMMA PostMessageStep == ASSUME ProxyInv, NEW id \in Ids, PostMessage(id) PROVE ProxyInv'
<1>1. PICK tool, httpError, toolError \in BOOLEAN :
        /\ runStatus' = IF httpError \/ (tool /\ toolError) THEN "failed" ELSE "success"
        /\ proxyFailed' = (runStatus' = "failed")
        /\ toolCalls' = IF tool THEN <<id>> ELSE <<>>
        /\ hopsOut' = IF tool THEN {Hop(1, "answer")} ELSE {}
        /\ answers' = IF tool THEN {[call |-> 1, error |-> toolError, open |-> TRUE]} ELSE {}
  BY DEF PostMessage, Hop
<1>2. /\ UNCHANGED <<proxy, pendingCall, unanswered, mistaken>>
      /\ unanswered = {} /\ mistaken = {} /\ DOMAIN pendingCall = {}
  BY DEF PostMessage, ProxyInv, ProxyTypes
<1>3. ProxyTypes' BY <1>1, <1>2 DEF ProxyInv, ProxyTypes
<1>4. Matched' BY <1>2 DEF ProxyInv, Matched
<1>5. HopsMade'
  <2>1. tool => Len(toolCalls') = 1 BY <1>1
  <2>2. Hop(1, "answer").call = 1 BY DEF Hop
  <2> QED BY <1>1, <1>2, <2>1, <2>2 DEF HopsMade
<1>6. ErrorsCount' BY <1>1, <1>2 DEF ErrorsCount
<1> QED BY <1>3, <1>4, <1>5, <1>6 DEF ProxyInv

LEMMA NextProxy == ProxyInv /\ [ProxyNext]_proxyVars => ProxyInv'
<1> SUFFICES ASSUME ProxyInv, [ProxyNext]_proxyVars PROVE ProxyInv' OBVIOUS
<1>1. ASSUME NEW id \in Ids, ClientCalls(id) PROVE ProxyInv' BY <1>1, ClientCallsStep
<1>2. ASSUME NEW id \in Ids, ServerRequests(id) PROVE ProxyInv' BY <1>2, ServerRequestsStep
<1>3. ASSUME NEW id \in Ids, PostMessage(id) PROVE ProxyInv' BY <1>3, PostMessageStep
<1>4. ASSUME NEW c \in ToolCalls, ServerAnswers(c) PROVE ProxyInv' BY <1>4, ServerAnswersStep
<1>5. CASE CompleteProxied BY <1>5, CompleteStep
<1>6. CASE ServerEnds \/ Unreachable \/ UNCHANGED proxyVars
  BY <1>6 DEF ServerEnds, Unreachable, proxyVars, ProxyInv, ProxyTypes, Matched, HopsMade, ErrorsCount
<1> QED BY <1>1, <1>2, <1>3, <1>4, <1>5, <1>6 DEF ProxyNext

-----------------------------------------------------------------------------
(* The pending table matches the calls in flight, each answer relayed has  *)
(* its hop, and an error that was not taken for a request fails the run.   *)
THEOREM ProxyInvariant == ProxySpec => []ProxyInv
  BY InitProxy, NextProxy, PTL DEF ProxySpec

(* Every answered tool call has one hop in the trace of the run, made of   *)
(* its answer unless a request of the server used its id meanwhile, and    *)
(* the run is completed as a success only if every tool error relayed      *)
(* before was that of such a call: _handle_server_line of the MCP proxy,   *)
(* for any ids in flight.                                                  *)
THEOREM CallsHaveHops == ProxySpec => []ProxiedCallsHaveHops
<1>1. ASSUME ProxyInv PROVE ProxiedCallsHaveHops
  <2>1. ASSUME NEW a \in answers
        PROVE  {h.kind : h \in {g \in hopsOut : g.call = a.call}}
                 = {IF a.call \in mistaken THEN "request" ELSE "answer"}
    <3> DEFINE kind == IF a.call \in mistaken THEN "request" ELSE "answer"
    <3>1. Hop(a.call, kind) \in hopsOut BY <1>1 DEF ProxyInv, HopsMade
    <3>2. \A g \in hopsOut : g.call = a.call => g = Hop(a.call, kind)
      BY <1>1 DEF ProxyInv, HopsMade
    <3>3. Hop(a.call, kind).call = a.call /\ Hop(a.call, kind).kind = kind BY DEF Hop
    <3> QED BY <3>1, <3>2, <3>3
  <2> QED BY <1>1, <2>1 DEF ProxyInv, ErrorsCount, ProxiedCallsHaveHops
<1> QED BY <1>1, ProxyInvariant, PTL

-----------------------------------------------------------------------------
(* Side by side: each behaviour of the instance is one of the emitter, one *)
(* of traced calls, one of the transport and one of the proxy.             *)
THEOREM AgentSideApart == AgentSpec => EmitterSpec /\ TraceSpec /\ PySpec /\ ProxySpec
<1>1. AgentInit => EmitterInit /\ TraceInit /\ PyInit /\ ProxyInit BY DEF AgentInit
<1>2. [AgentNext]_agentVars =>
        [EmitterNext]_emitterVars /\ [TraceNext]_traceVars /\ [PyNext]_pyVars /\ [ProxyNext]_proxyVars
  BY DEF AgentNext, agentVars
<1> QED BY <1>1, <1>2, PTL DEF AgentSpec, EmitterSpec, TraceSpec, PySpec, ProxySpec
==============================================================================

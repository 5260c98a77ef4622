--------------------------- MODULE ConfidenceGate ---------------------------
(***************************************************************************)
(* The confidence gate of packages/types/src/confidence-gate.ts: whether   *)
(* the hops of a run reach the accept level.  A confidence is a number of  *)
(* 0..100 (the code's 0..1, in percent); the texts of reasons are left out.*)
(***************************************************************************)
EXTENDS Integers, Sequences, FiniteSetsExt

\* An optional value that is missing (undefined or null in the code).
Absent == -1

DefaultAcceptLevel == 70
GateModes == {"final", "min"}
Otherwise(value, default) == IF value = Absent THEN default ELSE value

\* The position of the hop a mode measures: the first of the weakest hops,
\* or the last of those with the highest index (the sort is stable).
WeakestHop(hops) ==
    LET Before(i, j) ==
            \/ hops[i].index < hops[j].index
            \/ hops[i].index = hops[j].index /\ i < j
        lowest == Min({hops[i].conf : i \in DOMAIN hops})
        weak == {i \in DOMAIN hops : hops[i].conf = lowest}
    IN CHOOSE i \in weak : \A j \in weak \ {i} : Before(i, j)

FinalHop(hops) ==
    LET last == Max({hops[i].index : i \in DOMAIN hops})
    IN Max({i \in DOMAIN hops : hops[i].index = last})

MeasuredHop(mode, hops) ==
    IF mode = "min" THEN WeakestHop(hops) ELSE FinalHop(hops)

\* evaluateConfidenceGate(): a run without hops passes.
EvaluateGate(acceptLevel, mode, hops) ==
    LET level == Otherwise(acceptLevel, DefaultAcceptLevel)
        hop == hops[MeasuredHop(mode, hops)]
    IN IF hops = <<>>
       THEN [passed |-> TRUE, level |-> level, measured |-> 100, failing |-> Absent]
       ELSE [passed |-> hop.conf >= level, level |-> level, measured |-> hop.conf,
             failing |-> IF hop.conf < level THEN hop.index ELSE Absent]
==============================================================================

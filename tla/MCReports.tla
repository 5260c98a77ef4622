----------------------------- MODULE MCReports -----------------------------
(***************************************************************************)
(* Instances of Reports and of Transport, which share no variables: as in  *)
(* AgentSide, one of them is explored at a time (part), the other in an    *)
(* initial state.                                                          *)
(***************************************************************************)
EXTENDS Reports, Transport

VARIABLE part

MCInit ==
    /\ ReportsInit /\ Init
    /\ part \in {"reports", "transport"}
    /\ part = "transport" => area = "goal"

MCNext ==
    /\ UNCHANGED part
    /\ \/ part = "reports" /\ ReportsNext /\ UNCHANGED vars
       \/ part = "transport" /\ Next /\ UNCHANGED reportsVars

MCSpec == MCInit /\ [][MCNext]_<<reportsVars, vars, part>>
==============================================================================

----------------------------- MODULE MCConsole -----------------------------
(***************************************************************************)
(* Instances of Console and of ApiKeys, which share no variables: as in    *)
(* AgentSide, one of them is explored at a time (part), the other in an    *)
(* initial state, where nothing that is fair can happen.                   *)
(***************************************************************************)
EXTENDS Console, ApiKeys

VARIABLE part

MCInit ==
    /\ ConsoleInit /\ KeysInit
    /\ part \in {"console", "keys"}
    /\ part = "keys" => area = "route"

MCNext ==
    /\ UNCHANGED part
    /\ \/ part = "console" /\ ConsoleNext /\ UNCHANGED keyVars
       \/ part = "keys" /\ KeysNext /\ UNCHANGED consoleVars

MCSpec ==
    /\ MCInit /\ [][MCNext]_<<consoleVars, keyVars, part>>
    /\ EngineFairness /\ KeysFairness
==============================================================================

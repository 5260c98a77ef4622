---------------------------- MODULE MCAgentSide ----------------------------
(***************************************************************************)
(* Instances of AgentSide and of three modules of the server: Accounts,    *)
(* Settings and BlamePipeline.  The four share no variables: as in         *)
(* AgentSide, one of them is explored at a time (part), the others in an   *)
(* initial state.                                                          *)
(***************************************************************************)
EXTENDS AgentSide, Accounts, Settings, BlamePipeline

VARIABLE part

sideVars == <<agentVars, accountsVars, settingsVars, vars, part>>

SideInit ==
    /\ AgentInit /\ AccountsInit /\ SettingsInit /\ Init
    /\ part \in {"agent", "accounts", "settings", "pipeline"}
    /\ part # "agent" => area = "python"

SideNext ==
    /\ UNCHANGED part
    /\ \/ part = "agent" /\ AgentNext /\ UNCHANGED <<accountsVars, settingsVars, vars>>
       \/ part = "accounts" /\ AccountsNext /\ UNCHANGED <<agentVars, settingsVars, vars>>
       \/ part = "settings" /\ SettingsNext /\ UNCHANGED <<agentVars, accountsVars, vars>>
       \/ part = "pipeline" /\ Next /\ UNCHANGED <<agentVars, accountsVars, settingsVars>>

SideSpec == SideInit /\ [][SideNext]_sideVars
==============================================================================

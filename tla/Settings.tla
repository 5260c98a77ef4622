------------------------------ MODULE Settings ------------------------------
(***************************************************************************)
(* The settings of a workspace, one JSON column: updateSettings of the API *)
(* (read, merge, save), the row that every API process makes sure of when  *)
(* it starts, and what a worker loads.                                     *)
(*                                                                         *)
(* A setting is a field with a value; the field configs holds a profile    *)
(* per workflow and is merged workflow by workflow.                        *)
(***************************************************************************)
EXTENDS Naturals

CONSTANTS
    Fields,       \* the fields other than workflow_configs
    Workflows,    \* the workflows that may have a profile
    Values,       \* the values of fields and profiles
    DefaultValue, \* of every field
    Editors,      \* requests and starting processes at the same time
    MaxEdits      \* bound: updates in all

ASSUME SettingsAssumption == DefaultValue \in Values /\ MaxEdits \in Nat

VARIABLES
    exists,    \* there is a row for the workspace
    settings,  \* its settings: fields and configs, both partial
    edit,      \* per editor: its patch, what it read, where it is
    edits      \* updates started

settingsVars == <<exists, settings, edit, edits>>

Partial(D) == UNION {[S -> Values] : S \in SUBSET D}
Nothing == [f \in {} |-> DefaultValue]
Defaults == [f \in Fields |-> DefaultValue]      \* DEFAULT_WORKSPACE_SETTINGS
Document(fields, configs) == [fields |-> fields, configs |-> configs]
NoEdit == [pc |-> "idle"]

\* What BootstrapService saves for the default workspace.
BootstrapSettings == Document(Defaults, [w \in Workflows |-> DefaultValue])

SettingsInit ==
    /\ exists = FALSE
    /\ settings = Document(Nothing, Nothing)
    /\ edit = [e \in Editors |-> NoEdit]
    /\ edits = 0

\* {...under, ...over}.
Spread(under, over) ==
    [x \in DOMAIN under \cup DOMAIN over |-> IF x \in DOMAIN over THEN over[x] ELSE under[x]]

\* Variant of Merge: the defaults win over what is stored.
MergeDefaults(doc, patch) ==
    Document(Spread(Spread(doc.fields, Defaults), patch.fields), Spread(doc.configs, patch.configs))

Merge(doc, patch) ==
    Document(Spread(Spread(Defaults, doc.fields), patch.fields), Spread(doc.configs, patch.configs))

StartUpdate(e) ==
    /\ edit[e] = NoEdit
    /\ edits < MaxEdits
    /\ edits' = edits + 1
    /\ \E fields \in Partial(Fields), configs \in Partial(Workflows) :
         edit' = [edit EXCEPT ![e] = [pc |-> "get", patch |-> Document(fields, configs)]]
    /\ UNCHANGED <<exists, settings>>

Get(e) ==
    /\ edit[e].pc = "get"
    /\ edit' = [edit EXCEPT ![e] =
          IF exists THEN [pc |-> "save", patch |-> @.patch, base |-> settings] ELSE NoEdit]
    /\ UNCHANGED <<exists, settings, edits>>

\* The whole document is written.
SaveSettings(e) ==
    /\ edit[e].pc = "save"
    /\ settings' = Merge(edit[e].base, edit[e].patch)
    /\ edit' = [edit EXCEPT ![e] = NoEdit]
    /\ UNCHANGED <<exists, edits>>

\* onModuleInit of a starting process.
StartProcess(e) ==
    /\ edit[e] = NoEdit
    /\ edits < MaxEdits
    /\ edits' = edits + 1
    /\ edit' = [edit EXCEPT ![e] = [pc |-> "findDefault"]]
    /\ UNCHANGED <<exists, settings>>

FindDefault(e) ==
    /\ edit[e].pc = "findDefault"
    /\ edit' = [edit EXCEPT ![e] = IF exists THEN NoEdit ELSE [pc |-> "saveDefault"]]
    /\ UNCHANGED <<exists, settings, edits>>

\* save() inserts the row or, when another process was faster, overwrites it.
SaveDefault(e) ==
    /\ edit[e].pc = "saveDefault"
    /\ exists' = TRUE
    /\ settings' = BootstrapSettings
    /\ edit' = [edit EXCEPT ![e] = NoEdit]
    /\ UNCHANGED edits

SettingsNext ==
    \E e \in Editors :
      \/ StartUpdate(e) \/ Get(e) \/ SaveSettings(e)
      \/ StartProcess(e) \/ FindDefault(e) \/ SaveDefault(e)

SettingsSpec == SettingsInit /\ [][SettingsNext]_settingsVars

(***************************************************************************)
(* Properties.                                                             *)
(***************************************************************************)
\* The value a worker sees for a field or a workflow.
Seen(doc, x) ==
    IF x \in Fields THEN Spread(Defaults, doc.fields)[x]
    ELSE IF x \in DOMAIN doc.configs THEN doc.configs[x] ELSE "none"

\* The editor acts on a state of the row that is no longer the present one.
Behind(e) ==
    \/ edit[e].pc = "save" /\ edit[e].base # settings
    \/ edit[e].pc = "saveDefault" /\ exists

\* A setting changes only when an update names it, or when the update (or the
\* start of a process) overwrites a change made after it had read the row:
\* the update of another field is lost that way.
ForeignFieldKept ==
    [][\A x \in Fields \cup Workflows :
         exists /\ Seen(settings', x) # Seen(settings, x) =>
           \E e \in Editors :
             /\ edit[e].pc \in {"save", "saveDefault"} /\ edit'[e] # edit[e]
             /\ \/ Behind(e)
                \/ /\ edit[e].pc = "save"
                   /\ x \in DOMAIN edit[e].patch.fields \cup DOMAIN edit[e].patch.configs]_settingsVars
==============================================================================

-------------------------- MODULE ApiServices_proofs --------------------------
(***************************************************************************)
(* Theorems about the services of the API, for any people, workspaces,     *)
(* keys, settings, requests at a time and errors.                          *)
(*                                                                         *)
(* Accounts and keys: a request ends in an error between any two of its    *)
(* calls, and one error leaves at most one account without a workspace and *)
(* one rotated key without a successor: each proof counts, in a set that a *)
(* step without an error only shrinks and one with an error grows by one.  *)
(* For accounts this needs what the rows and the numbers of requests have  *)
(* to do with each other.                                                  *)
(*                                                                         *)
(* Settings: no type is needed but that there is an entry per editor: an   *)
(* update works on what it read, and either that is the row as it is, or   *)
(* it is behind.                                                           *)
(***************************************************************************)
EXTENDS Accounts, ApiKeys, Settings, FiniteSetTheorems, TLAPS

(* What is counted grows by one element with each error, and else shrinks. *)
LEMMA CountBound ==
  ASSUME NEW S, NEW n \in Nat, IsFiniteSet(S), Cardinality(S) <= n, NEW T, NEW m \in Nat,
         \/ T \subseteq S /\ m = n
         \/ (\E x : T \subseteq S \cup {x}) /\ m = n + 1
  PROVE  IsFiniteSet(T) /\ Cardinality(T) <= m
<1>1. Cardinality(S) \in Nat BY FS_CardinalityType
<1>2. CASE T \subseteq S /\ m = n
  <2>1. IsFiniteSet(T) /\ Cardinality(T) <= Cardinality(S) BY <1>2, FS_Subset
  <2>2. Cardinality(T) \in Nat BY <2>1, FS_CardinalityType
  <2> QED BY <1>1, <1>2, <2>1, <2>2
<1>3. CASE (\E x : T \subseteq S \cup {x}) /\ m = n + 1
  <2>1. PICK x : T \subseteq S \cup {x} BY <1>3
  <2>2. /\ IsFiniteSet(S \cup {x})
        /\ Cardinality(S \cup {x}) = IF x \in S THEN Cardinality(S) ELSE Cardinality(S) + 1
    BY FS_AddElement
  <2>3. IsFiniteSet(T) /\ Cardinality(T) <= Cardinality(S \cup {x}) BY <2>1, <2>2, FS_Subset
  <2>4. Cardinality(T) \in Nat BY <2>3, FS_CardinalityType
  <2> QED BY <1>1, <1>3, <2>2, <2>3, <2>4
<1> QED BY <1>2, <1>3

(***************************************************************************)
(* Settings.                                                               *)
(***************************************************************************)
EditorsKnown == edit = [e \in Editors |-> edit[e]]

(* The step's effect on the settings, for the update or the start e.       *)
NamedChange(x) ==
  exists /\ Seen(settings', x) # Seen(settings, x) =>
    \E e \in Editors :
      /\ edit[e].pc \in {"save", "saveDefault"} /\ edit'[e] # edit[e]
      /\ \/ Behind(e)
         \/ /\ edit[e].pc = "save"
            /\ x \in DOMAIN edit[e].patch.fields \cup DOMAIN edit[e].patch.configs

(* Merging a patch that does not name x leaves x as it is seen: what is    *)
(* not stored is seen as its default, before and after it is stored.       *)
LEMMA UnnamedKept ==
  ASSUME NEW doc, NEW patch, NEW x \in Fields \cup Workflows,
         x \notin DOMAIN patch.fields, x \notin DOMAIN patch.configs
  PROVE  Seen(Merge(doc, patch), x) = Seen(doc, x)
<1>1. CASE x \in Fields
  <2>1. Seen(Merge(doc, patch), x) =
          Spread(Defaults, Spread(Spread(Defaults, doc.fields), patch.fields))[x]
    BY <1>1 DEF Seen, Merge, Document
  <2>2. @ = Spread(Defaults, doc.fields)[x]
    BY <1>1 DEF Spread, Defaults
  <2> QED BY <1>1, <2>1, <2>2 DEF Seen
<1>2. CASE x \notin Fields
  <2>1. Spread(doc.configs, patch.configs) =
          [w \in DOMAIN doc.configs \cup DOMAIN patch.configs |->
             IF w \in DOMAIN patch.configs THEN patch.configs[w] ELSE doc.configs[w]]
    BY DEF Spread
  <2>2. (x \in DOMAIN Spread(doc.configs, patch.configs)) <=> x \in DOMAIN doc.configs
    BY <2>1
  <2>3. x \in DOMAIN doc.configs => Spread(doc.configs, patch.configs)[x] = doc.configs[x]
    BY <2>1
  <2> QED BY <1>2, <2>2, <2>3 DEF Seen, Merge, Document
<1> QED BY <1>1, <1>2

(* The entries of the other editors are not touched, whoever steps.        *)
LEMMA EditorsStep == EditorsKnown /\ [SettingsNext]_settingsVars => EditorsKnown'
  BY DEF EditorsKnown, SettingsNext, settingsVars, StartUpdate, Get, SaveSettings,
         StartProcess, FindDefault, SaveDefault

LEMMA ChangeStep ==
  ASSUME EditorsKnown, [SettingsNext]_settingsVars, NEW x \in Fields \cup Workflows
  PROVE  NamedChange(x)
<1> SUFFICES ASSUME exists, Seen(settings', x) # Seen(settings, x)
             PROVE  \E e \in Editors :
                      /\ edit[e].pc \in {"save", "saveDefault"} /\ edit'[e] # edit[e]
                      /\ \/ Behind(e)
                         \/ /\ edit[e].pc = "save"
                            /\ x \in DOMAIN edit[e].patch.fields \cup DOMAIN edit[e].patch.configs
  BY DEF NamedChange
<1>1. settings' # settings
  BY DEF Seen
<1>2. PICK e \in Editors : SaveSettings(e) \/ SaveDefault(e)
  BY <1>1 DEF SettingsNext, settingsVars, StartUpdate, Get, StartProcess, FindDefault
<1>3. edit'[e] = NoEdit
  BY <1>2 DEF EditorsKnown, SaveSettings, SaveDefault
<1>4. CASE SaveSettings(e)
  <2>1. edit[e].pc = "save" /\ settings' = Merge(edit[e].base, edit[e].patch)
    BY <1>4 DEF SaveSettings
  <2>2. edit'[e] # edit[e] BY <1>3, <2>1 DEF NoEdit
  <2>3. CASE Behind(e) BY <2>1, <2>2, <2>3
  <2>4. CASE ~Behind(e)
    <3>1. settings' = Merge(settings, edit[e].patch) BY <2>1, <2>4 DEF Behind
    <3>2. x \in DOMAIN edit[e].patch.fields \cup DOMAIN edit[e].patch.configs
      BY <3>1, UnnamedKept
    <3> QED BY <2>1, <2>2, <3>2
  <2> QED BY <2>3, <2>4
<1>5. CASE SaveDefault(e)
  <2>1. edit[e].pc = "saveDefault" BY <1>5 DEF SaveDefault
  <2>2. edit'[e] # edit[e] BY <1>3, <2>1 DEF NoEdit
  <2> QED BY <2>1, <2>2 DEF Behind
<1> QED BY <1>2, <1>4, <1>5

-----------------------------------------------------------------------------
(* A setting that an update does not name changes only when that update,   *)
(* or the bootstrap of a starting process, overwrites a change made after  *)
(* it had read the row: WorkspaceService.updateSettings and                *)
(* BootstrapService, with any number of requests at the same time.         *)
THEOREM SettingsKept == SettingsSpec => ForeignFieldKept
<1>1. SettingsInit => EditorsKnown BY DEF SettingsInit, EditorsKnown
<1>2. SettingsSpec => []EditorsKnown
  BY <1>1, EditorsStep, PTL DEF SettingsSpec
<1>3. EditorsKnown /\ [SettingsNext]_settingsVars =>
        [\A x \in Fields \cup Workflows : NamedChange(x)]_settingsVars
  BY ChangeStep
<1> QED BY <1>2, <1>3, PTL DEF SettingsSpec, ForeignFieldKept, NamedChange

(***************************************************************************)
(* Keys.                                                                   *)
(***************************************************************************)
ManageRecord ==
  [pc : {"idle", "list", "next", "find", "update", "invalidate", "save"},
   op : {"none", "create", "revoke", "rotate"}, key : Keys \cup {NoKey}, todo : SUBSET Keys]

(* Keys that a rotation revoked and that have no successor, and whose      *)
(* rotation is not about to make one.                                      *)
InRotation(k) == \E m \in Managers : manage[m].op = "rotate" /\ manage[m].key = k
Bare == {k \in rotated : (\A j \in Keys : origin[j] # k) /\ ~InRotation(k)}

(* Where a management request may be: a rotation is at a key of its list,  *)
(* and leaves it only when it has a successor.                             *)
RequestOk(m) ==
  /\ manage[m].pc \in {"list", "next"} => manage[m].op = "rotate"
  /\ manage[m].pc \in {"find", "update", "invalidate"} =>
       manage[m].op \in {"revoke", "rotate"} /\ manage[m].key \in Keys
  /\ manage[m].pc = "save" => manage[m].op \in {"create", "rotate"}
  /\ manage[m].pc = "list" \/ manage[m].op = "create" => manage[m].key = NoKey
  /\ manage[m].pc = "next" =>
       manage[m].key = NoKey \/ \E j \in Keys : origin[j] = manage[m].key

KeysIInv ==
  /\ origin = [k \in Keys |-> origin[k]] /\ keys = [k \in Keys |-> keys[k]]
  /\ manage \in [Managers -> ManageRecord]
  /\ rotated \subseteq Keys
  /\ \A k \in Keys : keys[k] = "none" => origin[k] = NoKey
  /\ \A m \in Managers : RequestOk(m)
  /\ keyErrors \in Nat
  /\ IsFiniteSet(Bare) /\ Cardinality(Bare) <= keyErrors

(* At most one key loses its rotation, and none its successor.             *)
LEMMA BareBound ==
  ASSUME KeysIInv, keyErrors' \in Nat,
         \/ Bare' \subseteq Bare /\ keyErrors' = keyErrors
         \/ (\E x : Bare' \subseteq Bare \cup {x}) /\ keyErrors' = keyErrors + 1
  PROVE  IsFiniteSet(Bare') /\ Cardinality(Bare') <= keyErrors'
<1>1. IsFiniteSet(Bare) /\ Cardinality(Bare) <= keyErrors /\ keyErrors \in Nat BY DEF KeysIInv
<1> HIDE DEF Bare
<1> QED BY <1>1, CountBound

LEMMA KeysInitInv == KeysInit => KeysIInv
<1> SUFFICES ASSUME KeysInit PROVE KeysIInv OBVIOUS
<1>1. rotated = {} /\ keyErrors = 0 BY DEF KeysInit
<1>2. /\ manage \in [Managers -> ManageRecord]
      /\ \A m \in Managers : manage[m] = Free
  BY DEF KeysInit, ManageRecord, Free
<1>3. \A m \in Managers : RequestOk(m) BY <1>1, <1>2 DEF RequestOk, Free
<1>4. origin = [k \in Keys |-> NoKey] BY DEF KeysInit
<1>5. keys = [k \in Keys |-> keys[k]] BY DEF KeysInit
<1>6. Bare = {} BY <1>1 DEF Bare
<1>7. IsFiniteSet(Bare) /\ Cardinality(Bare) = 0 BY <1>6, FS_EmptySet
<1> QED BY <1>1, <1>2, <1>3, <1>4, <1>5, <1>7 DEF KeysIInv

LEMMA KeysStep == KeysIInv /\ [KeysNext]_keyVars => KeysIInv'
<1> SUFFICES ASSUME KeysIInv, [KeysNext]_keyVars PROVE KeysIInv' OBVIOUS
<1>0. /\ origin = [k \in Keys |-> origin[k]] /\ keys = [k \in Keys |-> keys[k]]
      /\ manage \in [Managers -> ManageRecord]
      /\ rotated \subseteq Keys /\ keyErrors \in Nat
      /\ \A k \in Keys : keys[k] = "none" => origin[k] = NoKey
      /\ \A m \in Managers : RequestOk(m)
  BY DEF KeysIInv
<1>1. ASSUME UNCHANGED <<keys, origin, manage, keyErrors, rotated>> PROVE KeysIInv'
  BY <1>1 DEF KeysIInv, RequestOk, Bare, InRotation
<1>2. ASSUME NEW m \in Managers, NEW r \in ManageRecord, manage' = [manage EXCEPT ![m] = r]
      PROVE  /\ manage' \in [Managers -> ManageRecord]
             /\ manage'[m] = r /\ \A n \in Managers \ {m} : manage'[n] = manage[n]
  <2> HIDE DEF ManageRecord
  <2> QED BY <1>0, <1>2
<1>3. \A m \in Managers : manage[m] \in ManageRecord BY <1>0
\* Steps of a manager that touch no key.
<1>4. ASSUME NEW m \in Managers, NEW r \in ManageRecord, manage' = [manage EXCEPT ![m] = r],
             UNCHANGED <<keys, origin, rotated, keyErrors>>, RequestOk(m)',
             manage[m].op = "rotate" /\ manage[m].key \in rotated =>
               \/ r.op = "rotate" /\ r.key = manage[m].key
               \/ \E j \in Keys : origin[j] = manage[m].key
      PROVE  KeysIInv'
  <2>1. /\ manage' \in [Managers -> ManageRecord]
        /\ manage'[m] = r /\ \A n \in Managers \ {m} : manage'[n] = manage[n]
    BY <1>2, <1>4
  <2>2. Bare' \subseteq Bare BY <1>4, <2>1 DEF Bare, InRotation
  <2>3. \A n \in Managers : RequestOk(n)' BY <1>0, <1>4, <2>1 DEF RequestOk
  <2>4. IsFiniteSet(Bare') /\ Cardinality(Bare') <= keyErrors' BY <1>0, <1>4, <2>2, BareBound
  <2> HIDE DEF ManageRecord, Bare
  <2> QED BY <1>0, <1>4, <2>1, <2>3, <2>4 DEF KeysIInv
<1>5. ASSUME NEW m \in Managers, StartManaging(m) PROVE KeysIInv'
  <2>1. manage[m] = Free /\ UNCHANGED <<keys, origin, rotated, keyErrors>> BY <1>5 DEF StartManaging
  <2>2. PICK r : /\ manage' = [manage EXCEPT ![m] = r]
                 /\ \/ \E k \in Keys : r = [pc |-> "find", op |-> "revoke", key |-> k, todo |-> {}]
                    \/ r = [pc |-> "save", op |-> "create", key |-> NoKey, todo |-> {}]
                    \/ r = [pc |-> "list", op |-> "rotate", key |-> NoKey, todo |-> {}]
    BY <1>5 DEF StartManaging
  <2>3. r \in ManageRecord BY <2>2 DEF ManageRecord
  <2>4. manage'[m] = r BY <1>2, <2>2, <2>3
  <2>5. RequestOk(m)' BY <2>2, <2>4 DEF RequestOk
  <2>6. manage[m].op # "rotate" BY <2>1 DEF Free
  <2> QED BY <1>4, <2>1, <2>2, <2>3, <2>5, <2>6
<1>6. ASSUME NEW m \in Managers, ListActive(m) PROVE KeysIInv'
  <2> DEFINE r == [manage[m] EXCEPT !.pc = "next", !.todo = Active]
  <2>1. manage' = [manage EXCEPT ![m] = r] /\ UNCHANGED <<keys, origin, rotated, keyErrors>>
    BY <1>6 DEF ListActive
  <2>2. r \in ManageRecord /\ r.key = manage[m].key /\ r.op = manage[m].op /\ r.pc = "next"
    BY <1>3 DEF ManageRecord, Active
  <2>3. manage[m].key = NoKey /\ manage[m].op = "rotate"
    BY <1>0, <1>6 DEF ListActive, RequestOk
  <2>4. manage[m].key \notin rotated BY <1>0, <2>3, ApiKeysAssumption
  <2> HIDE DEF r
  <2>5. manage'[m] = r BY <1>2, <2>1, <2>2
  <2>6. RequestOk(m)' BY <2>1, <2>2, <2>3, <2>4, <2>5 DEF RequestOk
  <2> QED BY <1>4, <2>1, <2>2, <2>4, <2>6
<1>7. Free \in ManageRecord /\ Free.op = "none" /\ Free.pc = "idle" BY DEF Free, ManageRecord
<1>8. ASSUME NEW m \in Managers, manage' = [manage EXCEPT ![m] = Free] PROVE RequestOk(m)'
  <2>1. manage'[m] = Free BY <1>2, <1>7, <1>8
  <2> QED BY <1>7, <2>1 DEF RequestOk
<1>9. ASSUME NEW m \in Managers, NextKey(m) PROVE KeysIInv'
  <2>1. manage[m].pc = "next" /\ UNCHANGED <<keys, origin, rotated, keyErrors>> BY <1>9 DEF NextKey
  <2>2. manage[m].op = "rotate" /\ manage[m].key \in rotated => \E j \in Keys : origin[j] = manage[m].key
    BY <1>0, <2>1, ApiKeysAssumption DEF RequestOk
  <2>3. CASE manage' = [manage EXCEPT ![m] = Free] BY <1>4, <1>7, <1>8, <2>1, <2>2, <2>3
  <2>4. ASSUME NEW k \in manage[m].todo,
               manage' = [manage EXCEPT ![m].pc = "find", ![m].key = k, ![m].todo = @ \ {k}]
        PROVE  KeysIInv'
    <3> DEFINE r == [manage[m] EXCEPT !.pc = "find", !.key = k, !.todo = @ \ {k}]
    <3>1. manage' = [manage EXCEPT ![m] = r] BY <2>4
    <3>2. r \in ManageRecord /\ r.op = manage[m].op /\ r.pc = "find" /\ r.key = k /\ k \in Keys
      BY <1>3 DEF ManageRecord
    <3>3. manage[m].op = "rotate" BY <1>0, <2>1 DEF RequestOk
    <3> HIDE DEF r
    <3>4. manage'[m] = r BY <1>2, <3>1, <3>2
    <3>5. RequestOk(m)' BY <3>2, <3>3, <3>4 DEF RequestOk
    <3> QED BY <1>4, <2>1, <2>2, <3>1, <3>2, <3>5
  <2> QED BY <1>9, <2>3, <2>4 DEF NextKey

<1>10. ASSUME NEW m \in Managers, FindRow(m) PROVE KeysIInv'
  <2> DEFINE r == [manage[m] EXCEPT !.pc = "update"]
  <2>1. manage' = [manage EXCEPT ![m] = r] /\ UNCHANGED <<keys, origin, rotated, keyErrors>>
    BY <1>10 DEF FindRow
  <2>2. r \in ManageRecord /\ r.key = manage[m].key /\ r.op = manage[m].op /\ r.pc = "update"
    BY <1>3 DEF ManageRecord
  <2> HIDE DEF r
  <2>3. manage'[m] = r BY <1>2, <2>1, <2>2
  <2>4. RequestOk(m)' BY <1>0, <1>10, <2>2, <2>3 DEF FindRow, RequestOk
  <2> QED BY <1>4, <2>1, <2>2, <2>4
<1>11. ASSUME NEW m \in Managers, MarkRevoked(m) PROVE KeysIInv'
  <2> DEFINE r == [manage[m] EXCEPT !.pc = "invalidate"]
             k == manage[m].key
  <2>1. /\ manage' = [manage EXCEPT ![m] = r] /\ UNCHANGED <<origin, keyErrors>>
        /\ keys' = [keys EXCEPT ![k] = "revoked"]
        /\ rotated' = IF manage[m].op = "rotate" THEN rotated \cup {k} ELSE rotated
    BY <1>11 DEF MarkRevoked
  <2>2. r \in ManageRecord /\ r.key = k /\ r.op = manage[m].op /\ r.pc = "invalidate"
    BY <1>3 DEF ManageRecord
  <2>3. k \in Keys /\ manage[m].op \in {"revoke", "rotate"} BY <1>0, <1>11 DEF MarkRevoked, RequestOk
  <2> HIDE DEF r, k
  <2>4. /\ manage' \in [Managers -> ManageRecord]
        /\ manage'[m] = r /\ \A n \in Managers \ {m} : manage'[n] = manage[n]
    BY <1>2, <2>1, <2>2
  <2>5. /\ rotated' \subseteq Keys /\ keys' = [j \in Keys |-> keys'[j]]
        /\ \A j \in Keys : keys'[j] = "none" => origin'[j] = NoKey
    BY <1>0, <2>1, <2>3
  <2>6. Bare' \subseteq Bare BY <2>1, <2>2, <2>4 DEF Bare, InRotation, k
  <2>7. ASSUME NEW n \in Managers PROVE RequestOk(n)'
    <3>1. CASE n = m BY <2>2, <2>3, <2>4, <3>1 DEF RequestOk
    <3>2. CASE n # m
      <4>1. manage'[n] = manage[n] /\ RequestOk(n) BY <1>0, <2>4, <3>2
      <4> QED BY <2>1, <4>1 DEF RequestOk
    <3> QED BY <3>1, <3>2
  <2>8. IsFiniteSet(Bare') /\ Cardinality(Bare') <= keyErrors' BY <1>0, <2>1, <2>6, BareBound
  <2> HIDE DEF ManageRecord, Bare
  <2> QED BY <1>0, <2>1, <2>4, <2>5, <2>7, <2>8 DEF KeysIInv
<1>12. ASSUME NEW m \in Managers, Invalidate(m) PROVE KeysIInv'
  <2>1. /\ manage' = [manage EXCEPT ![m] = AfterRevoke(m)]
        /\ UNCHANGED <<keys, origin, rotated, keyErrors>> /\ manage[m].pc = "invalidate"
    BY <1>12 DEF Invalidate
  <2>2. CASE manage[m].op # "rotate" BY <1>4, <1>7, <1>8, <2>1, <2>2 DEF AfterRevoke
  <2>3. CASE manage[m].op = "rotate"
    <3> DEFINE r == [manage[m] EXCEPT !.pc = "save"]
    <3>1. manage' = [manage EXCEPT ![m] = r] BY <2>1, <2>3 DEF AfterRevoke
    <3>2. r \in ManageRecord /\ r.key = manage[m].key /\ r.op = "rotate" /\ r.pc = "save"
      BY <1>3, <2>3 DEF ManageRecord
    <3> HIDE DEF r
    <3>3. manage'[m] = r BY <1>2, <3>1, <3>2
    <3>4. RequestOk(m)' BY <3>2, <3>3 DEF RequestOk
    <3> QED BY <1>4, <2>1, <3>1, <3>2, <3>4
  <2> QED BY <2>2, <2>3
<1>13. ASSUME NEW m \in Managers, SaveKey(m) PROVE KeysIInv'
  <2> DEFINE key == manage[m].key
             r == IF manage[m].op = "rotate" THEN [manage[m] EXCEPT !.pc = "next"] ELSE Free
  <2>1. PICK k \in Keys : /\ keys[k] = "none" /\ keys' = [keys EXCEPT ![k] = "active"]
                          /\ origin' = [origin EXCEPT ![k] = key]
    BY <1>13 DEF SaveKey
  <2>2. manage' = [manage EXCEPT ![m] = r] /\ UNCHANGED <<rotated, keyErrors>> /\ manage[m].pc = "save"
    BY <1>13 DEF SaveKey
  <2>3. r \in ManageRecord BY <1>3, <1>7 DEF ManageRecord
  <2>4. origin'[k] = key /\ \A j \in Keys : j # k => origin'[j] = origin[j] BY <1>0, <2>1
  <2>5. \A x : x # NoKey /\ (\E j \in Keys : origin[j] = x) => \E j \in Keys : origin'[j] = x
    BY <1>0, <2>1, <2>4
  <2>6. \/ manage[m].op = "rotate" /\ r.op = "rotate" /\ r.key = key /\ r.pc = "next"
        \/ manage[m].op = "create" /\ r = Free /\ key = NoKey
    BY <1>0, <1>3, <2>2 DEF RequestOk, ManageRecord
  <2> HIDE DEF r, key
  <2>7. /\ manage' \in [Managers -> ManageRecord]
        /\ manage'[m] = r /\ \A n \in Managers \ {m} : manage'[n] = manage[n]
    BY <1>2, <2>2, <2>3
  <2>8. Bare' \subseteq Bare
    <3> SUFFICES ASSUME NEW x \in Bare' PROVE x \in Bare OBVIOUS
    <3>1. x \in rotated /\ (\A j \in Keys : origin'[j] # x) /\ ~InRotation(x)' BY <2>2 DEF Bare
    <3>2. x # NoKey BY <1>0, <3>1, ApiKeysAssumption
    <3>3. \A j \in Keys : origin[j] # x BY <2>5, <3>1, <3>2
    <3>4. key # x BY <2>4, <3>1
    <3>5. ~InRotation(x) BY <2>7, <3>1, <3>4 DEF InRotation, key
    <3> QED BY <3>1, <3>3, <3>5 DEF Bare
  <2>9. ASSUME NEW n \in Managers PROVE RequestOk(n)'
    <3>1. CASE n = m BY <1>7, <2>1, <2>4, <2>6, <2>7, <3>1 DEF RequestOk
    <3>2. CASE n # m
      <4>1. manage'[n] = manage[n] /\ RequestOk(n) BY <1>0, <2>7, <3>2
      <4> QED BY <2>5, <4>1 DEF RequestOk
    <3> QED BY <3>1, <3>2
  <2>10. /\ keys' = [j \in Keys |-> keys'[j]] /\ origin' = [j \in Keys |-> origin'[j]]
         /\ \A j \in Keys : keys'[j] = "none" => origin'[j] = NoKey
    BY <1>0, <2>1
  <2>11. IsFiniteSet(Bare') /\ Cardinality(Bare') <= keyErrors' BY <1>0, <2>2, <2>8, BareBound
  <2> HIDE DEF ManageRecord, Bare
  <2> QED BY <1>0, <2>2, <2>7, <2>9, <2>10, <2>11 DEF KeysIInv
<1>14. ASSUME NEW m \in Managers, KeyError(m) PROVE KeysIInv'
  <2>1. /\ manage' = [manage EXCEPT ![m] = Free] /\ keyErrors' = keyErrors + 1
        /\ UNCHANGED <<keys, origin, rotated>>
    BY <1>14 DEF KeyError
  <2>2. /\ manage' \in [Managers -> ManageRecord]
        /\ manage'[m] = Free /\ \A n \in Managers \ {m} : manage'[n] = manage[n]
    BY <1>2, <1>7, <2>1
  <2>3. Bare' \subseteq Bare \cup {manage[m].key} BY <2>1, <2>2 DEF Bare, InRotation
  <2>4. \A n \in Managers : RequestOk(n)' BY <1>0, <1>8, <2>1, <2>2 DEF RequestOk
  <2>5. keyErrors' \in Nat BY <1>0, <2>1
  <2>6. IsFiniteSet(Bare') /\ Cardinality(Bare') <= keyErrors' BY <2>1, <2>3, <2>5, BareBound
  <2> HIDE DEF ManageRecord, Bare
  <2> QED BY <1>0, <2>1, <2>2, <2>4, <2>5, <2>6 DEF KeysIInv
<1> QED
  BY <1>1, <1>5, <1>6, <1>9, <1>10, <1>11, <1>12, <1>13, <1>14
  DEF KeysNext, keyVars, callVars, Present, Check, LookUp, FindKey, Fill, ExpirePrefix, ExpireKeyId

(* A key that a rotation revoked has a successor unless its rotation is    *)
(* still to make it or ended in an error: KeysService.rotateKeys(), one    *)
(* key lost at most for each error, with any number of requests.           *)
THEOREM RotationReplaces == KeysSpec => []RotatedHasSuccessor
<1>1. KeysIInv => RotatedHasSuccessor
  BY DEF KeysIInv, RotatedHasSuccessor, Bare, InRotation
<1>2. KeysSpec => []KeysIInv BY KeysInitInv, KeysStep, PTL DEF KeysSpec
<1> QED BY <1>1, <1>2, PTL

(***************************************************************************)
(* Accounts.                                                               *)
(***************************************************************************)
(* A request that will insert a membership, under its own number; one that *)
(* has read the row it is to write; one that is about to insert.           *)
Inserting(r) == r.op \in {"registerTenant", "createUser", "registerUser"} /\ r.pc # "accept"
HasRow(r) == r.op \in {"updateRole", "removeMember"} /\ r.pc \in {"count", "save", "delete"}
Saving(r) == r.pc \in {"saveWorkspace", "saveMember"}

(* What a request carries, by its operation and where it is.               *)
Shape(r) ==
  /\ {"op", "pc"} \subseteq DOMAIN r
  /\ r.op # "idle" => "id" \in DOMAIN r
  /\ r.op \in {"registerTenant", "createUser", "inviteUser"} => {"email", "ws"} \subseteq DOMAIN r
  /\ r.op = "registerUser" /\ r.pc # "findInvite" => {"email", "ws"} \subseteq DOMAIN r
  /\ r.op \in {"updateRole", "removeMember"} => {"ws", "target"} \subseteq DOMAIN r
  /\ HasRow(r) => {"row", "seen"} \subseteq DOMAIN r
  /\ r.pc = "saveInvite" => r.op = "inviteUser" /\ "seen" \in DOMAIN r
  /\ Saving(r) => Inserting(r)

(* The last number given, and the requests: each has a number of its own.  *)
LastId == Cardinality(Founders) + issued
Numbered ==
  /\ req = [c \in Clients |-> req[c]]
  /\ issued \in Nat /\ errors \in Nat
  /\ \A c \in Clients :
       /\ Shape(req[c])
       /\ req[c].op = "idle" => req[c] = Idle
       /\ req[c].op # "idle" => req[c].id \in Nat /\ req[c].id <= LastId
       /\ \A d \in Clients \ {c} : req[c].op # "idle" /\ req[d].op # "idle" => req[c].id # req[d].id

(* The rows of members there are, in the table or read.  Rows of one       *)
(* number are of one user and workspace.                                   *)
KnownRows == members \cup {req[c].row : c \in {d \in Clients : HasRow(req[d])}}
RowOk(m) == DOMAIN m = {"id", "user", "ws", "role"} /\ m.id \in Nat /\ m.id <= LastId
Rows ==
  /\ \A m \in KnownRows :
       /\ RowOk(m)
       /\ \A n \in KnownRows : m.id = n.id => m.user = n.user /\ m.ws = n.ws
       /\ \A c \in Clients : Inserting(req[c]) => m.id # req[c].id
  /\ \A c \in Clients : HasRow(req[c]) =>
       /\ req[c].row.user = req[c].target /\ req[c].row.ws = req[c].ws
       /\ req[c].pc \in {"save", "delete"} => req[c].seen = {} \/ ~LastAdmin(req[c].seen)

(* An invite that was checked while others were pending: one of those had  *)
(* expired, and its number is not given again.                             *)
ExpiredAmong(seen, id) ==
  seen = {} \/ \E p \in seen :
    /\ p # id /\ p \in Nat /\ p <= LastId
    /\ \A i \in invites : i.id = p => i.expired
    /\ \A c \in Clients : req[c].op = "inviteUser" => req[c].id # p
InviteFields == {"id", "email", "ws", "role", "accepted", "expired", "seen"}
Invites ==
  /\ \A i \in invites :
       /\ DOMAIN i = InviteFields /\ i.id \in Nat /\ i.id <= LastId
       /\ \A j \in invites : i.id = j.id => i = j
       /\ ExpiredAmong(i.seen, i.id)
       /\ \A c \in Clients : req[c].op = "inviteUser" => req[c].id # i.id
  /\ \A c \in Clients : req[c].pc = "saveInvite" => ExpiredAmong(req[c].seen, req[c].id)

Alone == IsFiniteSet(Stranded \ beaten) /\ Cardinality(Stranded \ beaten) <= errors

AccountsIInv == Numbered /\ Rows /\ Invites /\ Alone

-----------------------------------------------------------------------------
(* What a step of the request of c does to each part of the state.         *)
Others(c) ==
  req' = [d \in Clients |-> req'[d]] /\ \A d \in Clients \ {c} : req'[d] = req[d]

Moved(c) ==
  /\ Others(c) /\ UNCHANGED <<issued, errors>>
  /\ req[c].op # "idle"
  /\ \/ req'[c] = Idle
     \/ Shape(req'[c]) /\ req'[c].op = req[c].op /\ req'[c].id = req[c].id

Old(row) == {m \in members : m.id = row.id}
RowsStep(c) ==
  /\ Inserting(req'[c]) => Inserting(req[c])
  /\ HasRow(req'[c]) =>
       /\ \/ HasRow(req[c]) /\ req'[c].row = req[c].row
          \/ req'[c].row \in members
       /\ req'[c].row.user = req'[c].target /\ req'[c].row.ws = req'[c].ws
       /\ req'[c].pc \in {"save", "delete"} => req'[c].seen = {} \/ ~LastAdmin(req'[c].seen)
  /\ \/ UNCHANGED <<members, removed>>
     \/ /\ Inserting(req[c]) /\ ~Inserting(req'[c]) /\ removed' = removed
        /\ \E role : members' = members \cup
                       {[id |-> req[c].id, user |-> req[c].email, ws |-> req[c].ws, role |-> role]}
     \/ /\ req[c].op = "updateRole" /\ req[c].pc = "save" /\ removed' = removed
        /\ \E role : members' = (members \ Old(req[c].row)) \cup {[req[c].row EXCEPT !.role = role]}
     \/ /\ req[c].op = "removeMember" /\ req[c].pc = "delete"
        /\ members' = members \ Old(req[c].row) /\ removed' = removed \cup Old(req[c].row)

InvitesKept ==
  /\ \A j \in invites' :
       /\ DOMAIN j = InviteFields
       /\ \E i \in invites : i.id = j.id /\ i.seen = j.seen /\ (i.expired => j.expired)
       /\ \A k \in invites' : j.id = k.id => j = k
InvitesStep(c) ==
  /\ req'[c].pc = "saveInvite" =>
       req'[c].seen = {} \/ \E i \in invites : i.id \in req'[c].seen /\ i.expired
  /\ \/ InvitesKept
     \/ /\ req[c].pc = "saveInvite" /\ req'[c] = Idle
        /\ \E i : /\ invites' = invites \cup {i} /\ DOMAIN i = InviteFields
                  /\ i.id = req[c].id /\ i.seen = req[c].seen

UsersStep(c) ==
  /\ \A u \in users' : u \in users \/ (Saving(req'[c]) /\ req'[c].email = u)
  /\ beaten \subseteq beaten'
  /\ Saving(req[c]) => \/ Saving(req'[c]) /\ req'[c].email = req[c].email
                       \/ req[c].email \in beaten'
                       \/ \E m \in members' : m.user = req[c].email

Stepped(c) == Moved(c) /\ RowsStep(c) /\ InvitesStep(c) /\ UsersStep(c)

(* The three ways a step leaves the record of its request.                 *)
LEMMA Records ==
  ASSUME Numbered, NEW c \in Clients
  PROVE  /\ Answer(c) => Others(c) /\ req'[c] = Idle
         /\ \A x : At(c, x) =>
              /\ Others(c) /\ DOMAIN req'[c] = DOMAIN req[c] /\ req'[c].pc = x
              /\ \A f \in DOMAIN req[c] \ {"pc"} : req'[c][f] = req[c][f]
         /\ \A more : Read(c, more) =>
              /\ Others(c) /\ DOMAIN req'[c] = DOMAIN req[c] \cup DOMAIN more
              /\ \A f \in DOMAIN more : req'[c][f] = more[f]
              /\ \A f \in DOMAIN req[c] \ DOMAIN more : req'[c][f] = req[c][f]
<1>1. req = [d \in Clients |-> req[d]] /\ "pc" \in DOMAIN req[c] BY DEF Numbered, Shape
<1>2. Answer(c) => Others(c) /\ req'[c] = Idle BY <1>1 DEF Answer, Others
<1>3. ASSUME NEW x, At(c, x)
      PROVE  /\ Others(c) /\ DOMAIN req'[c] = DOMAIN req[c] /\ req'[c].pc = x
             /\ \A f \in DOMAIN req[c] \ {"pc"} : req'[c][f] = req[c][f]
  <2>1. Others(c) BY <1>1, <1>3 DEF At, Others
  <2>2. req'[c] = [req[c] EXCEPT !.pc = x] BY <1>1, <1>3 DEF At
  <2> DEFINE r == req[c]
  <2>3. "pc" \in DOMAIN r BY <1>1
  <2>4. req'[c] = [r EXCEPT !.pc = x] BY <2>2
  <2> HIDE DEF r
  <2>5. DOMAIN req'[c] = DOMAIN r /\ req'[c].pc = x BY <2>3, <2>4
  <2>6. \A f \in DOMAIN r \ {"pc"} : req'[c][f] = r[f] BY <2>4
  <2> QED BY <2>1, <2>5, <2>6 DEF r
<1>4. ASSUME NEW more, Read(c, more)
      PROVE  /\ Others(c) /\ DOMAIN req'[c] = DOMAIN req[c] \cup DOMAIN more
             /\ \A f \in DOMAIN more : req'[c][f] = more[f]
             /\ \A f \in DOMAIN req[c] \ DOMAIN more : req'[c][f] = req[c][f]
  <2>1. Others(c) /\ req'[c] = Extend(req[c], more) BY <1>1, <1>4 DEF Read, Others
  <2> QED BY <2>1 DEF Extend
<1> QED BY <1>2, <1>3, <1>4

LEMMA SameInvites ==
  ASSUME Invites, invites' = invites PROVE InvitesKept
BY DEF Invites, InvitesKept

(* The request ends, and touches no table of rows.                         *)
LEMMA EndStep ==
  ASSUME Numbered, Invites, NEW c \in Clients, req[c].op # "idle", Answer(c),
         UNCHANGED <<users, members, invites, issued, errors, removed>>, beaten \subseteq beaten',
         Saving(req[c]) => \/ req[c].email \in beaten'
                           \/ \E m \in members : m.user = req[c].email
  PROVE  Stepped(c)
<1>1. Others(c) /\ req'[c] = Idle BY Records
<1>2. ~Inserting(Idle) /\ ~HasRow(Idle) /\ ~Saving(Idle) /\ Idle.pc # "saveInvite"
  BY DEF Inserting, HasRow, Saving, Idle
<1>3. InvitesKept BY SameInvites
<1> HIDE DEF Inserting, HasRow, Saving, Idle
<1> QED BY <1>1, <1>2, <1>3 DEF Stepped, Moved, RowsStep, InvitesStep, UsersStep

LEMMA RefuseStep ==
  ASSUME Numbered, Invites, NEW c \in Clients, req[c].op # "idle", Refuse(c),
         UNCHANGED <<issued, errors, removed>>,
         Saving(req[c]) => \E m \in members : m.user = req[c].email
  PROVE  Stepped(c)
BY EndStep DEF Refuse, tables

(* The request goes on with its next call, and no row is written.          *)
LEMMA ProceedStep ==
  ASSUME Numbered, Invites, NEW c \in Clients, NEW x, At(c, x),
         UNCHANGED <<members, invites, issued, errors, removed>>, beaten \subseteq beaten',
         req[c].op \notin {"idle", "updateRole", "removeMember"},
         req[c].pc \notin {"findInvite", "accept"} \/ req[c].op = "revokeInvite",
         x \notin {"saveInvite", "accept"},
         x \in {"saveWorkspace", "saveMember"} => Inserting(req[c]),
         Saving(req[c]) => x = "saveMember",
         \A u \in users' : u \in users \/ (x \in {"saveWorkspace", "saveMember"} /\ req[c].email = u)
  PROVE  Stepped(c)
<1>1. /\ Others(c) /\ DOMAIN req'[c] = DOMAIN req[c] /\ req'[c].pc = x
      /\ \A f \in DOMAIN req[c] \ {"pc"} : req'[c][f] = req[c][f]
  BY Records
<1>2. Shape(req[c]) BY DEF Numbered
<1>3. req'[c].op = req[c].op /\ req'[c].id = req[c].id BY <1>1, <1>2 DEF Shape
<1>4. Inserting(req[c]) => req'[c].email = req[c].email
  BY <1>1, <1>2 DEF Shape, Inserting
<1>5. /\ Inserting(req'[c]) => Inserting(req[c])
      /\ ~HasRow(req'[c])
      /\ Saving(req'[c]) <=> x \in {"saveWorkspace", "saveMember"}
      /\ req'[c].pc # "saveInvite"
  BY <1>1, <1>3 DEF Inserting, HasRow, Saving
<1>6. Shape(req'[c]) BY <1>1, <1>2, <1>3, <1>5 DEF Shape, Inserting
<1>7. Moved(c) BY <1>1, <1>3, <1>6 DEF Moved
<1>8. RowsStep(c) BY <1>5 DEF RowsStep
<1>9. InvitesStep(c) BY <1>5, SameInvites DEF InvitesStep
<1>10. UsersStep(c)
  <2>1. Saving(req[c]) => Inserting(req[c]) BY <1>2 DEF Shape
  <2> QED BY <1>4, <1>5, <2>1 DEF UsersStep
<1> QED BY <1>7, <1>8, <1>9, <1>10 DEF Stepped

(* The new membership takes the number of the request that makes it.       *)
LEMMA InsertStep ==
  ASSUME Numbered, Invites, NEW c \in Clients, NEW role,
         Inserting(req[c]), req[c].pc = "saveMember",
         InsertMember(c, req[c].email, req[c].ws, role),
         UNCHANGED <<users, invites, issued, errors, removed, beaten>>,
         Answer(c) \/ (req[c].op = "registerUser" /\ At(c, "accept"))
  PROVE  Stepped(c)
<1>1. members' = members \cup {[id |-> req[c].id, user |-> req[c].email, ws |-> req[c].ws, role |-> role]}
  BY DEF InsertMember
<1>2. Shape(req[c]) BY DEF Numbered
<1>3. /\ Others(c) /\ ~Inserting(req'[c]) /\ ~HasRow(req'[c]) /\ req'[c].pc # "saveInvite"
      /\ req'[c] = Idle \/ (Shape(req'[c]) /\ req'[c].op = req[c].op /\ req'[c].id = req[c].id)
  <2>1. CASE Answer(c)
    <3>1. Others(c) /\ req'[c] = Idle BY <2>1, Records
    <3> QED BY <3>1 DEF Inserting, HasRow, Idle
  <2>2. CASE req[c].op = "registerUser" /\ At(c, "accept")
    <3>1. /\ Others(c) /\ DOMAIN req'[c] = DOMAIN req[c] /\ req'[c].pc = "accept"
          /\ \A f \in DOMAIN req[c] \ {"pc"} : req'[c][f] = req[c][f]
      BY <2>2, Records
    <3>2. req'[c].op = req[c].op /\ req'[c].id = req[c].id BY <1>2, <2>2, <3>1 DEF Shape
    <3>3. Shape(req'[c]) BY <1>2, <2>2, <3>1, <3>2 DEF Shape, HasRow, Saving, Inserting
    <3> QED BY <2>2, <3>1, <3>2, <3>3 DEF HasRow, Inserting
  <2> QED BY <2>1, <2>2
<1>4. Moved(c) BY <1>3 DEF Moved, Inserting
<1>5. RowsStep(c)
  <2>1. \E any : members' = members \cup
                  {[id |-> req[c].id, user |-> req[c].email, ws |-> req[c].ws, role |-> any]}
    BY <1>1
  <2> HIDE DEF Inserting, HasRow
  <2> QED BY <1>3, <2>1 DEF RowsStep
<1>6. InvitesStep(c) BY <1>3, SameInvites DEF InvitesStep
<1>7. UsersStep(c)
  <2> DEFINE new == [id |-> req[c].id, user |-> req[c].email, ws |-> req[c].ws, role |-> role]
  <2>1. new \in members' /\ new.user = req[c].email BY <1>1
  <2>2. \E m \in members' : m.user = req[c].email BY <2>1
  <2> HIDE DEF new
  <2>3. ~Saving(req'[c])
    <3>1. req'[c].pc \in {"idle", "accept"} BY Records DEF Idle
    <3> QED BY <3>1 DEF Saving
  <2> QED BY <2>2, <2>3 DEF UsersStep
<1> QED BY <1>4, <1>5, <1>6, <1>7 DEF Stepped

(* The reads of a role change or a removal.                                *)
LEMMA ReadRowStep ==
  ASSUME Numbered, Invites, NEW c \in Clients, req[c].op \in {"updateRole", "removeMember"},
         NEW m \in Memberships(req[c].target, req[c].ws), NEW x \in {"count", "save", "delete"},
         Read(c, [pc |-> x, row |-> m, seen |-> {}]), req[c].pc = "findMember",
         UNCHANGED <<users, members, invites, issued, errors, removed, beaten>>
  PROVE  Stepped(c)
<1> DEFINE more == [pc |-> x, row |-> m, seen |-> {}]
<1>1. /\ DOMAIN more = {"pc", "row", "seen"}
      /\ more["pc"] = x /\ more["row"] = m /\ more["seen"] = {}
  OBVIOUS
<1>2. Read(c, more) OBVIOUS
<1> HIDE DEF more
<1>3. /\ Others(c) /\ DOMAIN req'[c] = DOMAIN req[c] \cup {"pc", "row", "seen"}
      /\ req'[c].pc = x /\ req'[c].row = m /\ req'[c].seen = {}
      /\ \A f \in DOMAIN req[c] \ {"pc", "row", "seen"} : req'[c][f] = req[c][f]
  BY <1>1, <1>2, Records
<1>4. Shape(req[c]) BY DEF Numbered
<1>5. req'[c].op = req[c].op /\ req'[c].id = req[c].id /\ req'[c].target = req[c].target /\ req'[c].ws = req[c].ws
  BY <1>3, <1>4 DEF Shape
<1>6. ~Inserting(req'[c]) /\ HasRow(req'[c]) /\ ~Saving(req'[c]) /\ ~Saving(req[c])
  BY <1>3, <1>5 DEF Inserting, HasRow, Saving
<1>7. Shape(req'[c]) BY <1>3, <1>4, <1>5, <1>6 DEF Shape
<1>8. m \in members /\ m.user = req[c].target /\ m.ws = req[c].ws BY DEF Memberships
<1>9. Moved(c) BY <1>3, <1>5, <1>7 DEF Moved
<1>10. RowsStep(c) BY <1>3, <1>5, <1>6, <1>8 DEF RowsStep
<1>11. InvitesStep(c) BY <1>3, SameInvites DEF InvitesStep
<1>12. UsersStep(c) BY <1>6 DEF UsersStep
<1> QED BY <1>9, <1>10, <1>11, <1>12 DEF Stepped

LEMMA CountStep ==
  ASSUME Numbered, Invites, Rows, NEW c \in Clients, req[c].op \in {"updateRole", "removeMember"},
         NEW x \in {"save", "delete"}, NEW admins, ~LastAdmin(admins),
         Read(c, [pc |-> x, seen |-> admins]), req[c].pc = "count",
         UNCHANGED <<users, members, invites, issued, errors, removed, beaten>>
  PROVE  Stepped(c)
<1> DEFINE more == [pc |-> x, seen |-> admins]
<1>1. DOMAIN more = {"pc", "seen"} /\ more["pc"] = x /\ more["seen"] = admins OBVIOUS
<1>2. Read(c, more) OBVIOUS
<1> HIDE DEF more
<1>3. /\ Others(c) /\ DOMAIN req'[c] = DOMAIN req[c] \cup {"pc", "seen"}
      /\ req'[c].pc = x /\ req'[c].seen = admins
      /\ \A f \in DOMAIN req[c] \ {"pc", "seen"} : req'[c][f] = req[c][f]
  BY <1>1, <1>2, Records
<1>4. Shape(req[c]) /\ HasRow(req[c]) BY DEF Numbered, HasRow
<1>5. /\ req'[c].op = req[c].op /\ req'[c].id = req[c].id /\ req'[c].target = req[c].target
      /\ req'[c].ws = req[c].ws /\ req'[c].row = req[c].row
  BY <1>3, <1>4 DEF Shape
<1>6. ~Inserting(req'[c]) /\ HasRow(req'[c]) /\ ~Saving(req'[c]) /\ ~Saving(req[c])
  BY <1>3, <1>5 DEF Inserting, HasRow, Saving
<1>7. Shape(req'[c]) BY <1>3, <1>4, <1>5, <1>6 DEF Shape
<1>8. req[c].row.user = req[c].target /\ req[c].row.ws = req[c].ws BY <1>4 DEF Rows
<1>9. Moved(c) BY <1>3, <1>5, <1>7 DEF Moved
<1>10. RowsStep(c) BY <1>3, <1>4, <1>5, <1>6, <1>8 DEF RowsStep
<1>11. InvitesStep(c) BY <1>3, SameInvites DEF InvitesStep
<1>12. UsersStep(c) BY <1>6 DEF UsersStep
<1> QED BY <1>9, <1>10, <1>11, <1>12 DEF Stepped

(* A read that neither writes a row nor is of a member's row.              *)
LEMMA LookStep ==
  ASSUME Numbered, Invites, NEW c \in Clients, NEW more, Read(c, more),
         "pc" \in DOMAIN more, DOMAIN more \cap {"op", "id"} = {},
         UNCHANGED <<users, members, invites, issued, errors, removed, beaten>>,
         \/ req[c].op = "login" /\ more["pc"] = "issue"
         \/ /\ req[c].op = "registerUser" /\ req[c].pc = "findInvite"
            /\ more["pc"] = "findUser" /\ {"email", "ws"} \subseteq DOMAIN more
         \/ /\ req[c].op = "inviteUser" /\ more["pc"] = "saveInvite" /\ "seen" \in DOMAIN more
            /\ more["seen"] = {} \/ \E i \in invites : i.id \in more["seen"] /\ i.expired
  PROVE  Stepped(c)
<1>1. /\ Others(c) /\ DOMAIN req'[c] = DOMAIN req[c] \cup DOMAIN more
      /\ \A f \in DOMAIN more : req'[c][f] = more[f]
      /\ \A f \in DOMAIN req[c] \ DOMAIN more : req'[c][f] = req[c][f]
  BY Records
<1>2. Shape(req[c]) BY DEF Numbered
<1>3. req'[c].op = req[c].op /\ req'[c].id = req[c].id /\ req'[c].pc = more["pc"]
  BY <1>1, <1>2 DEF Shape
<1>4. /\ Inserting(req'[c]) => Inserting(req[c])
      /\ ~HasRow(req'[c]) /\ ~Saving(req'[c]) /\ ~Saving(req[c])
  BY <1>2, <1>3 DEF Shape, Inserting, HasRow, Saving
<1>5. Shape(req'[c]) BY <1>1, <1>2, <1>3, <1>4 DEF Shape
<1>6. Moved(c) BY <1>1, <1>3, <1>5 DEF Moved
<1>7. RowsStep(c) BY <1>4 DEF RowsStep
<1>8. InvitesStep(c)
  <2>1. req'[c].pc = "saveInvite" => req'[c].seen = more["seen"] /\ req[c].op = "inviteUser"
    BY <1>1, <1>3
  <2> QED BY <1>3, <2>1, SameInvites DEF InvitesStep
<1>9. UsersStep(c) BY <1>4 DEF UsersStep
<1> QED BY <1>6, <1>7, <1>8, <1>9 DEF Stepped

-----------------------------------------------------------------------------
(* The handlers, call by call.                                             *)
LEMMA RegisterTenantStep ==
  ASSUME Numbered, Invites, NEW c \in Clients, RegisterTenant(c) PROVE Stepped(c)
<1>1. req[c].op = "registerTenant" /\ UNCHANGED <<issued, errors, removed>> BY DEF RegisterTenant
<1>2. CASE req[c].pc \in {"findUser", "findSlug", "saveUser"} /\ Refuse(c)
  BY <1>1, <1>2, RefuseStep DEF Saving
<1>3. CASE /\ req[c].pc \in {"findUser", "findSlug"}
           /\ \E x \in {"findSlug", "saveUser"} : Proceed(c, x)
  BY <1>1, <1>3, ProceedStep DEF Proceed, tables, Saving
<1>4. CASE /\ req[c].pc = "saveUser" /\ InsertUser(req[c].email) /\ At(c, "saveWorkspace")
           /\ UNCHANGED <<workspaces, members, invites, tokens, beaten>>
  <2>1. /\ \A u \in users' : u \in users \/ req[c].email = u
        /\ Inserting(req[c]) /\ ~Saving(req[c])
    BY <1>1, <1>4 DEF InsertUser, Inserting, Saving
  <2> QED BY <1>1, <1>4, <2>1, ProceedStep
<1>5. CASE /\ req[c].pc = "saveWorkspace" /\ beaten' = beaten \cup {req[c].email}
           /\ Answer(c) /\ UNCHANGED tables
  BY <1>1, <1>5, EndStep DEF tables
<1>6. CASE /\ req[c].pc = "saveWorkspace" /\ At(c, "saveMember")
           /\ UNCHANGED <<users, members, invites, tokens, beaten>>
  <2>1. Inserting(req[c]) BY <1>1, <1>6 DEF Inserting
  <2> QED BY <1>1, <1>6, <2>1, ProceedStep
<1>7. CASE /\ req[c].pc = "saveMember" /\ InsertMember(c, req[c].email, req[c].ws, "admin")
           /\ Answer(c) /\ UNCHANGED <<users, workspaces, invites, beaten>>
  <2>1. Inserting(req[c]) BY <1>1, <1>7 DEF Inserting
  <2> QED BY <1>1, <1>7, <2>1, InsertStep
<1> QED BY <1>2, <1>3, <1>4, <1>5, <1>6, <1>7 DEF RegisterTenant

LEMMA LoginStep ==
  ASSUME Numbered, Invites, NEW c \in Clients, Login(c) PROVE Stepped(c)
<1>1. req[c].op = "login" /\ UNCHANGED <<issued, errors, removed>> BY DEF Login
<1>2. CASE req[c].pc \in {"findUser", "findMember"} /\ Refuse(c)
  BY <1>1, <1>2, RefuseStep DEF Saving
<1>3. CASE req[c].pc = "findUser" /\ Proceed(c, "findMember")
  BY <1>1, <1>3, ProceedStep DEF Proceed, tables, Saving
<1>4. CASE /\ req[c].pc = "findMember" /\ UNCHANGED <<tables, beaten>>
           /\ \E w, role : Read(c, [pc |-> "issue", ws |-> w, role |-> role])
  <2>1. PICK w, role : Read(c, [pc |-> "issue", ws |-> w, role |-> role]) BY <1>4
  <2> DEFINE more == [pc |-> "issue", ws |-> w, role |-> role]
  <2>2. DOMAIN more = {"pc", "ws", "role"} /\ more["pc"] = "issue" /\ Read(c, more) BY <2>1
  <2> HIDE DEF more
  <2> QED BY <1>1, <1>4, <2>2, LookStep DEF tables
<1>5. CASE req[c].pc = "issue" /\ Answer(c) /\ UNCHANGED <<users, workspaces, members, invites, beaten>>
  BY <1>1, <1>5, EndStep DEF Saving
<1> QED BY <1>2, <1>3, <1>4, <1>5 DEF Login

LEMMA SwitchWorkspaceStep ==
  ASSUME Numbered, Invites, NEW c \in Clients, SwitchWorkspace(c) PROVE Stepped(c)
<1>1. req[c].op = "switchWorkspace" /\ UNCHANGED <<issued, errors, removed>> BY DEF SwitchWorkspace
<1>2. CASE req[c].pc = "findUser" /\ Proceed(c, "findMember")
  BY <1>1, <1>2, ProceedStep DEF Proceed, tables, Saving
<1>3. CASE req[c].pc = "findMember" /\ Refuse(c) BY <1>1, <1>3, RefuseStep DEF Saving
<1>4. CASE req[c].pc = "findMember" /\ Answer(c) /\ UNCHANGED <<users, workspaces, members, invites, beaten>>
  BY <1>1, <1>4, EndStep DEF Saving
<1> QED BY <1>2, <1>3, <1>4 DEF SwitchWorkspace

LEMMA CreateUserStep ==
  ASSUME Numbered, Invites, NEW c \in Clients, CreateUser(c) PROVE Stepped(c)
<1>1. req[c].op = "createUser" /\ UNCHANGED <<issued, errors, removed>> BY DEF CreateUser
<1>2. CASE req[c].pc \in {"findMember", "saveUser"} /\ Refuse(c)
  BY <1>1, <1>2, RefuseStep DEF Saving
<1>3. CASE /\ req[c].pc \in {"findUser", "findMember"}
           /\ \E x \in {"findMember", "saveUser", "saveMember"} : Proceed(c, x)
  BY <1>1, <1>3, ProceedStep DEF Proceed, tables, Saving, Inserting
<1>4. CASE /\ req[c].pc = "saveUser" /\ InsertUser(req[c].email) /\ At(c, "saveMember")
           /\ UNCHANGED <<workspaces, members, invites, tokens, beaten>>
  <2>1. /\ \A u \in users' : u \in users \/ req[c].email = u
        /\ Inserting(req[c]) /\ ~Saving(req[c])
    BY <1>1, <1>4 DEF InsertUser, Inserting, Saving
  <2> QED BY <1>1, <1>4, <2>1, ProceedStep
<1>5. CASE req[c].pc = "saveMember" /\ Memberships(req[c].email, req[c].ws) # {} /\ Refuse(c)
  <2>1. \E m \in members : m.user = req[c].email BY <1>5 DEF Memberships
  <2> QED BY <1>1, <1>5, <2>1, RefuseStep
<1>6. CASE /\ req[c].pc = "saveMember" /\ InsertMember(c, req[c].email, req[c].ws, req[c].role)
           /\ Answer(c) /\ UNCHANGED <<users, workspaces, invites, tokens, beaten>>
  <2>1. Inserting(req[c]) BY <1>1, <1>6 DEF Inserting
  <2> QED BY <1>1, <1>6, <2>1, InsertStep
<1> QED BY <1>2, <1>3, <1>4, <1>5, <1>6 DEF CreateUser

LEMMA RegisterUserStep ==
  ASSUME Numbered, Invites, NEW c \in Clients, RegisterUser(c) PROVE Stepped(c)
<1>1. req[c].op = "registerUser" /\ UNCHANGED <<issued, errors, removed>> BY DEF RegisterUser
<1>2. CASE req[c].pc \in {"findInvite", "findMember", "saveUser"} /\ Refuse(c)
  BY <1>1, <1>2, RefuseStep DEF Saving
<1>3. CASE /\ req[c].pc = "findInvite" /\ UNCHANGED <<tables, beaten>>
           /\ \E i \in invites :
                Read(c, [pc |-> "findUser", email |-> i.email, ws |-> i.ws, role |-> i.role])
  <2>1. PICK i \in invites : Read(c, [pc |-> "findUser", email |-> i.email, ws |-> i.ws, role |-> i.role])
    BY <1>3
  <2> DEFINE more == [pc |-> "findUser", email |-> i.email, ws |-> i.ws, role |-> i.role]
  <2>2. DOMAIN more = {"pc", "email", "ws", "role"} /\ more["pc"] = "findUser" /\ Read(c, more) BY <2>1
  <2> HIDE DEF more
  <2> QED BY <1>1, <1>3, <2>2, LookStep DEF tables
<1>4. CASE /\ req[c].pc \in {"findUser", "findMember"}
           /\ \E x \in {"findMember", "saveUser", "saveMember"} : Proceed(c, x)
  BY <1>1, <1>4, ProceedStep DEF Proceed, tables, Saving, Inserting
<1>5. CASE /\ req[c].pc = "saveUser" /\ InsertUser(req[c].email) /\ At(c, "saveMember")
           /\ UNCHANGED <<workspaces, members, invites, tokens, beaten>>
  <2>1. /\ \A u \in users' : u \in users \/ req[c].email = u
        /\ Inserting(req[c]) /\ ~Saving(req[c])
    BY <1>1, <1>5 DEF InsertUser, Inserting, Saving
  <2> QED BY <1>1, <1>5, <2>1, ProceedStep
<1>6. CASE req[c].pc = "saveMember" /\ Memberships(req[c].email, req[c].ws) # {} /\ Refuse(c)
  <2>1. \E m \in members : m.user = req[c].email BY <1>6 DEF Memberships
  <2> QED BY <1>1, <1>6, <2>1, RefuseStep
<1>7. CASE /\ req[c].pc = "saveMember" /\ InsertMember(c, req[c].email, req[c].ws, req[c].role)
           /\ At(c, "accept") /\ UNCHANGED <<users, workspaces, invites, tokens, beaten>>
  <2>1. Inserting(req[c]) BY <1>1, <1>7 DEF Inserting
  <2> QED BY <1>1, <1>7, <2>1, InsertStep
<1>8. CASE /\ req[c].pc = "accept" /\ Answer(c) /\ UNCHANGED <<users, workspaces, members, beaten>>
           /\ invites' = {IF i.id = req[c].invite THEN [i EXCEPT !.accepted = TRUE] ELSE i : i \in invites}
  <2>1. Others(c) /\ req'[c] = Idle BY <1>8, Records
  <2>2. ~Inserting(Idle) /\ ~HasRow(Idle) /\ ~Saving(Idle) /\ ~Saving(req[c]) /\ Idle.pc # "saveInvite"
    BY <1>8 DEF Inserting, HasRow, Saving, Idle
  <2>3. \A i \in invites : DOMAIN i = InviteFields /\ \A j \in invites : i.id = j.id => i = j
    BY DEF Invites
  <2>4. ASSUME NEW i \in invites, NEW j, j = IF i.id = req[c].invite THEN [i EXCEPT !.accepted = TRUE] ELSE i
        PROVE  DOMAIN j = InviteFields /\ j.id = i.id /\ j.seen = i.seen /\ j.expired = i.expired
    <3>1. DOMAIN i = InviteFields BY <2>3
    <3>2. {"id", "seen", "expired"} \subseteq DOMAIN i /\ DOMAIN j = DOMAIN i
      BY <2>4, <3>1 DEF InviteFields
    <3>3. \A f \in DOMAIN i \ {"accepted"} : j[f] = i[f] BY <2>4
    <3> QED BY <3>1, <3>2, <3>3
  <2>5. \A j \in invites' : \E i \in invites :
          j = IF i.id = req[c].invite THEN [i EXCEPT !.accepted = TRUE] ELSE i
    BY <1>8
  <2>6. InvitesKept
    <3>1. ASSUME NEW j \in invites'
          PROVE  /\ DOMAIN j = InviteFields
                 /\ \E i \in invites : i.id = j.id /\ i.seen = j.seen /\ (i.expired => j.expired)
      BY <2>4, <2>5
    <3>2. ASSUME NEW j \in invites', NEW k \in invites', j.id = k.id PROVE j = k
      <4>1. PICK i \in invites : j = IF i.id = req[c].invite THEN [i EXCEPT !.accepted = TRUE] ELSE i
        BY <2>5
      <4>2. PICK l \in invites : k = IF l.id = req[c].invite THEN [l EXCEPT !.accepted = TRUE] ELSE l
        BY <2>5
      <4>3. i.id = l.id BY <2>4, <3>2, <4>1, <4>2
      <4>4. i = l BY <2>3, <4>3
      <4> QED BY <4>1, <4>2, <4>4
    <3> QED BY <3>1, <3>2 DEF InvitesKept
  <2> HIDE DEF Inserting, HasRow, Saving, Idle
  <2> QED BY <1>1, <1>8, <2>1, <2>2, <2>6 DEF Stepped, Moved, RowsStep, InvitesStep, UsersStep
<1> QED BY <1>2, <1>3, <1>4, <1>5, <1>6, <1>7, <1>8 DEF RegisterUser

LEMMA InviteUserStep ==
  ASSUME Numbered, Invites, NEW c \in Clients, InviteUser(c) PROVE Stepped(c)
<1>1. req[c].op = "inviteUser" /\ UNCHANGED <<issued, errors, removed>> BY DEF InviteUser
<1>2. CASE req[c].pc \in {"findMember", "findPending"} /\ Refuse(c)
  BY <1>1, <1>2, RefuseStep DEF Saving
<1>3. CASE req[c].pc = "findMember" /\ Proceed(c, "findPending")
  BY <1>1, <1>3, ProceedStep DEF Proceed, tables, Saving
<1>4. CASE LET pending == Pending(req[c].ws, req[c].email) IN
           /\ pending = {} \/ \E i \in pending : ~Blocks(i)
           /\ Read(c, [pc |-> "saveInvite", seen |-> {i.id : i \in pending}])
           /\ UNCHANGED <<tables, beaten>>
  <2> DEFINE pending == Pending(req[c].ws, req[c].email)
             ids == {i.id : i \in pending}
             more == [pc |-> "saveInvite", seen |-> ids]
  <2>1. pending \subseteq invites BY DEF Pending
  <2>2. ids = {} \/ \E i \in invites : i.id \in ids /\ i.expired BY <1>4, <2>1 DEF Blocks
  <2>3. Read(c, more) /\ UNCHANGED <<tables, beaten>> BY <1>4
  <2> HIDE DEF ids
  <2>4. DOMAIN more = {"pc", "seen"} /\ more["pc"] = "saveInvite" /\ more["seen"] = ids OBVIOUS
  <2> HIDE DEF more
  <2> QED BY <1>1, <2>2, <2>3, <2>4, LookStep DEF tables
<1>5. CASE /\ req[c].pc = "saveInvite" /\ Answer(c)
           /\ UNCHANGED <<users, workspaces, members, tokens, beaten>>
           /\ invites' = invites \cup
                {[id |-> req[c].id, email |-> req[c].email, ws |-> req[c].ws, role |-> req[c].role,
                  accepted |-> FALSE, expired |-> FALSE, seen |-> req[c].seen]}
  <2>1. Others(c) /\ req'[c] = Idle BY <1>5, Records
  <2>2. ~Inserting(Idle) /\ ~HasRow(Idle) /\ ~Saving(Idle) /\ ~Saving(req[c]) /\ Idle.pc # "saveInvite"
    BY <1>5 DEF Inserting, HasRow, Saving, Idle
  <2>3. \E i : /\ invites' = invites \cup {i} /\ DOMAIN i = InviteFields
               /\ i.id = req[c].id /\ i.seen = req[c].seen
    <3> DEFINE new == [id |-> req[c].id, email |-> req[c].email, ws |-> req[c].ws, role |-> req[c].role,
                       accepted |-> FALSE, expired |-> FALSE, seen |-> req[c].seen]
    <3>1. DOMAIN new = InviteFields /\ new.id = req[c].id /\ new.seen = req[c].seen BY DEF InviteFields
    <3>2. invites' = invites \cup {new} BY <1>5
    <3> HIDE DEF new
    <3> QED BY <3>1, <3>2
  <2> HIDE DEF Inserting, HasRow, Saving, Idle
  <2> QED BY <1>1, <1>5, <2>1, <2>2, <2>3 DEF Stepped, Moved, RowsStep, InvitesStep, UsersStep
<1> QED BY <1>2, <1>3, <1>4, <1>5 DEF InviteUser

LEMMA RevokeInviteStep ==
  ASSUME Numbered, Invites, NEW c \in Clients, RevokeInvite(c) PROVE Stepped(c)
<1>1. req[c].op = "revokeInvite" /\ UNCHANGED <<issued, errors, removed>> BY DEF RevokeInvite
<1>2. CASE req[c].pc = "findInvite" /\ Refuse(c) BY <1>1, <1>2, RefuseStep DEF Saving
<1>3. CASE req[c].pc = "findInvite" /\ Proceed(c, "delete")
  BY <1>1, <1>3, ProceedStep DEF Proceed, tables, Saving
<1>4. CASE /\ req[c].pc = "delete" /\ Answer(c) /\ invites' = {i \in invites : i.id # req[c].invite}
           /\ UNCHANGED <<users, workspaces, members, tokens, beaten>>
  <2>1. Others(c) /\ req'[c] = Idle BY <1>4, Records
  <2>2. ~Inserting(Idle) /\ ~HasRow(Idle) /\ ~Saving(Idle) /\ ~Saving(req[c]) /\ Idle.pc # "saveInvite"
    BY <1>4 DEF Inserting, HasRow, Saving, Idle
  <2>3. InvitesKept BY <1>4 DEF Invites, InvitesKept
  <2> HIDE DEF Inserting, HasRow, Saving, Idle
  <2> QED BY <1>1, <1>4, <2>1, <2>2, <2>3 DEF Stepped, Moved, RowsStep, InvitesStep, UsersStep
<1> QED BY <1>2, <1>3, <1>4 DEF RevokeInvite

LEMMA UpdateRoleStep ==
  ASSUME Numbered, Rows, Invites, NEW c \in Clients, UpdateRole(c) PROVE Stepped(c)
<1>1. req[c].op = "updateRole" /\ UNCHANGED <<issued, errors, removed>> BY DEF UpdateRole
<1>2. CASE req[c].pc \in {"findMember", "count", "save"} /\ Refuse(c)
  BY <1>1, <1>2, RefuseStep DEF Saving
<1>3. CASE /\ req[c].pc = "findMember" /\ UNCHANGED <<tables, beaten>>
           /\ \E m \in Memberships(req[c].target, req[c].ws), x \in {"count", "save"} :
                Read(c, [pc |-> x, row |-> m, seen |-> {}])
  BY <1>1, <1>3, ReadRowStep DEF tables
<1>4. CASE /\ req[c].pc = "count" /\ ~LastAdmin(Admins(req[c].ws)) /\ UNCHANGED <<tables, beaten>>
           /\ Read(c, [pc |-> "save", seen |-> Admins(req[c].ws)])
  BY <1>1, <1>4, CountStep DEF tables
<1>5. CASE /\ req[c].pc = "save" /\ Answer(c)
           /\ members' = (members \ Old(req[c].row)) \cup {[req[c].row EXCEPT !.role = req[c].role]}
           /\ UNCHANGED <<users, workspaces, invites, tokens, beaten>>
  <2>1. Others(c) /\ req'[c] = Idle BY <1>5, Records
  <2>2. ~Inserting(Idle) /\ ~HasRow(Idle) /\ ~Saving(Idle) /\ Idle.pc # "saveInvite" /\ ~Saving(req[c])
    BY <1>5 DEF Inserting, HasRow, Saving, Idle
  <2>3. \E role : members' = (members \ Old(req[c].row)) \cup {[req[c].row EXCEPT !.role = role]}
    BY <1>5
  <2>4. InvitesKept BY <1>5, SameInvites
  <2> HIDE DEF Inserting, HasRow, Saving, Idle
  <2>5. RowsStep(c) BY <1>1, <1>5, <2>1, <2>2, <2>3 DEF RowsStep
  <2> QED BY <1>1, <1>5, <2>1, <2>2, <2>4, <2>5 DEF Stepped, Moved, InvitesStep, UsersStep
<1> QED
  <2>1. \A m : \E x \in {"count", "save"} :
          x = (IF m.role = "admin" /\ req[c].role # "admin" THEN "count" ELSE "save")
    OBVIOUS
  <2> QED BY <1>2, <1>3, <1>4, <1>5, <2>1 DEF UpdateRole, Old

LEMMA RemoveMemberStep ==
  ASSUME Numbered, Rows, Invites, NEW c \in Clients, RemoveMember(c) PROVE Stepped(c)
<1>1. req[c].op = "removeMember" /\ UNCHANGED <<issued, errors>> BY DEF RemoveMember
<1>2. CASE req[c].pc \in {"findMember", "count"} /\ Refuse(c) /\ UNCHANGED removed
  BY <1>1, <1>2, RefuseStep DEF Saving
<1>3. CASE /\ req[c].pc = "findMember" /\ UNCHANGED <<tables, beaten, removed>>
           /\ \E m \in Memberships(req[c].target, req[c].ws), x \in {"count", "delete"} :
                Read(c, [pc |-> x, row |-> m, seen |-> {}])
  BY <1>1, <1>3, ReadRowStep DEF tables
<1>4. CASE /\ req[c].pc = "count" /\ ~LastAdmin(Admins(req[c].ws)) /\ UNCHANGED <<tables, beaten, removed>>
           /\ Read(c, [pc |-> "delete", seen |-> Admins(req[c].ws)])
  BY <1>1, <1>4, CountStep DEF tables
<1>5. CASE /\ req[c].pc = "delete" /\ Answer(c)
           /\ members' = members \ Old(req[c].row) /\ removed' = removed \cup Old(req[c].row)
           /\ UNCHANGED <<users, workspaces, invites, tokens, beaten>>
  <2>1. Others(c) /\ req'[c] = Idle BY <1>5, Records
  <2>2. ~Inserting(Idle) /\ ~HasRow(Idle) /\ ~Saving(Idle) /\ Idle.pc # "saveInvite" /\ ~Saving(req[c])
    BY <1>5 DEF Inserting, HasRow, Saving, Idle
  <2>3. InvitesKept BY <1>5, SameInvites
  <2> HIDE DEF Inserting, HasRow, Saving, Idle
  <2>4. RowsStep(c) BY <1>1, <1>5, <2>1, <2>2 DEF RowsStep
  <2> QED BY <1>1, <1>5, <2>1, <2>2, <2>3, <2>4 DEF Stepped, Moved, InvitesStep, UsersStep
<1> QED
  <2>1. \A m : \E x \in {"count", "delete"} : x = (IF m.role = "admin" THEN "count" ELSE "delete")
    OBVIOUS
  <2> QED BY <1>2, <1>3, <1>4, <1>5, <2>1 DEF RemoveMember, Old

-----------------------------------------------------------------------------
(* The founders get the numbers up to their count, one each.               *)
LEMMA AccountsInitInv == AccountsInit => AccountsIInv
<1> SUFFICES ASSUME AccountsInit PROVE AccountsIInv OBVIOUS
<1> DEFINE n == Cardinality(Founders)
           Injective(f) == \A u, v \in Founders : f[u] = f[v] => u = v
           rank == CHOOSE f \in [Founders -> 1..n] : Injective(f)
           Row(u) == [id |-> rank[u], user |-> u, ws |-> FirstSlug, role |-> "admin"]
<1>1. IsFiniteSet(Founders) /\ n \in Nat
  <2>1. IsFiniteSet(Founders) BY AccountsAssumption, FS_Subset
  <2> QED BY <2>1, FS_CardinalityType
<1>2. rank \in [Founders -> 1..n] /\ Injective(rank)
  <2>1. PICK g : g \in Bijection(1..n, Founders)
    BY <1>1, FS_CardinalityType DEF ExistsBijection
  <2>2. g \in [1..n -> Founders] /\ \A u \in Founders : \E i \in 1..n : g[i] = u
    BY <2>1 DEF Bijection, Injection, Surjection
  <2> DEFINE f == [u \in Founders |-> CHOOSE i \in 1..n : g[i] = u]
  <2>3. \A u \in Founders : f[u] \in 1..n /\ g[f[u]] = u BY <2>2
  <2>4. f \in [Founders -> 1..n] /\ Injective(f)
    <3>1. f \in [Founders -> 1..n]
      <4> HIDE DEF n
      <4> QED BY <2>3
    <3> HIDE DEF f
    <3>2. Injective(f) BY <2>3
    <3> QED BY <3>1, <3>2
  <2> HIDE DEF f, Injective, n
  <2> QED BY <2>4
<1>3. members = {Row(u) : u \in Founders} BY DEF AccountsInit
<1>4. /\ users = Founders /\ invites = {} /\ req = [c \in Clients |-> Idle]
      /\ issued = 0 /\ errors = 0 /\ removed = {} /\ beaten = {}
  BY DEF AccountsInit
<1>5. LastId = n BY <1>1, <1>4 DEF LastId
<1> HIDE DEF n, rank
<1>6. Shape(Idle) /\ Idle.op = "idle" /\ ~HasRow(Idle) /\ ~Inserting(Idle) /\ Idle.pc # "saveInvite"
  BY DEF Shape, Idle, HasRow, Inserting, Saving
<1> HIDE DEF Idle
<1>7. Numbered BY <1>4, <1>6 DEF Numbered
<1>8. Rows
  <2>1. KnownRows = members BY <1>4, <1>6 DEF KnownRows
  <2>2. \A u \in Founders :
          /\ DOMAIN Row(u) = {"id", "user", "ws", "role"} /\ Row(u).id = rank[u]
          /\ Row(u).user = u /\ Row(u).ws = FirstSlug
    OBVIOUS
  <2>3. \A u \in Founders : rank[u] \in Nat /\ rank[u] <= n BY <1>1, <1>2
  <2> HIDE DEF Row, Inserting, HasRow
  <2>4. \A u \in Founders : RowOk(Row(u)) BY <1>5, <2>2, <2>3 DEF RowOk
  <2>5. \A m, k \in members : m.id = k.id => m.user = k.user /\ m.ws = k.ws
    BY <1>2, <1>3, <2>2
  <2> HIDE DEF Injective
  <2> QED BY <1>3, <1>4, <1>6, <2>1, <2>4, <2>5 DEF Rows
<1>9. Invites BY <1>4, <1>6 DEF Invites
<1>10. Alone
  <2>1. \A u \in Founders : Row(u) \in members /\ Row(u).user = u BY <1>3
  <2> HIDE DEF Row
  <2>2. Stranded \ beaten = {} BY <1>4, <2>1 DEF Stranded
  <2> QED BY <1>4, <2>2, FS_EmptySet DEF Alone
<1> QED BY <1>7, <1>8, <1>9, <1>10 DEF AccountsIInv

-----------------------------------------------------------------------------
(* The steps that are not of a handler: a request comes in, or dies.       *)
Asked(c) ==
  /\ Others(c) /\ req[c] = Idle /\ Shape(req'[c])
  /\ req'[c].op # "idle" /\ req'[c].id = LastId + 1 /\ issued' = issued + 1
  /\ req'[c].pc \in {"findUser", "findInvite", "findMember"}
  /\ UNCHANGED <<users, members, invites, errors, removed, beaten>>
Dead(c) ==
  /\ Others(c) /\ req[c] # Idle /\ req'[c] = Idle /\ errors' = errors + 1
  /\ UNCHANGED <<users, members, invites, issued, removed, beaten>>
Expired ==
  InvitesKept /\ UNCHANGED <<users, members, req, issued, errors, removed, beaten>>

LEMMA Requests ==
  ASSUME NEW r \in AuthRequests \cup UsersRequests
  PROVE  /\ "op" \in DOMAIN r /\ r.op # "idle"
         /\ r.op \in {"registerTenant", "createUser", "inviteUser"} => {"email", "ws"} \subseteq DOMAIN r
         /\ r.op \in {"updateRole", "removeMember"} => {"ws", "target"} \subseteq DOMAIN r
<1>1. CASE r \in [op : {"registerTenant"}, email : Emails, ws : Slugs] BY <1>1
<1>2. CASE r \in [op : {"login"}, email : Emails] BY <1>2
<1>3. CASE r \in [op : {"registerUser"}, invite : {i.id : i \in invites}] BY <1>3
<1>4. ASSUME NEW t \in tokens, r \in [op : {"switchWorkspace"}, email : {t.user}, ws : workspaces]
      PROVE  "op" \in DOMAIN r /\ r.op = "switchWorkspace"
  BY <1>4
<1>5. ASSUME NEW t \in tokens, r \in AdminRequests(t)
      PROVE  /\ "op" \in DOMAIN r /\ r.op # "idle" /\ r.op # "registerTenant"
             /\ r.op \in {"createUser", "inviteUser"} => {"email", "ws"} \subseteq DOMAIN r
             /\ r.op \in {"updateRole", "removeMember"} => {"ws", "target"} \subseteq DOMAIN r
  <2>1. CASE r \in [op : {"createUser", "inviteUser"}, ws : {t.ws}, email : Emails, role : Role]
    BY <2>1
  <2>2. CASE r \in [op : {"updateRole"}, ws : {t.ws}, target : Emails, role : Role, actor : {t.user}]
    BY <2>2
  <2>3. CASE r \in [op : {"removeMember"}, ws : {t.ws}, target : Emails, actor : {t.user}]
    BY <2>3
  <2>4. CASE r \in [op : {"revokeInvite"}, ws : {t.ws}, invite : {i.id : i \in invites}]
    BY <2>4
  <2> QED BY <1>5, <2>1, <2>2, <2>3, <2>4 DEF AdminRequests
<1>6. \/ r \in [op : {"registerTenant"}, email : Emails, ws : Slugs]
      \/ r \in [op : {"login"}, email : Emails]
      \/ r \in [op : {"registerUser"}, invite : {i.id : i \in invites}]
      \/ \E t \in tokens : r \in [op : {"switchWorkspace"}, email : {t.user}, ws : workspaces]
      \/ \E t \in tokens : r \in AdminRequests(t)
  BY DEF AuthRequests, UsersRequests
<1> QED BY <1>1, <1>2, <1>3, <1>4, <1>5, <1>6

LEMMA RequestStep ==
  ASSUME Numbered, NEW c \in Clients, Request(c) PROVE Asked(c)
<1> DEFINE more(r) == [pc |-> FirstCall(r), id |-> Cardinality(Founders) + issued + 1]
<1>1. PICK r \in AuthRequests \cup UsersRequests : req' = [req EXCEPT ![c] = Extend(r, more(r))]
  BY DEF Request
<1>2. /\ "op" \in DOMAIN r /\ r.op # "idle"
      /\ r.op \in {"registerTenant", "createUser", "inviteUser"} => {"email", "ws"} \subseteq DOMAIN r
      /\ r.op \in {"updateRole", "removeMember"} => {"ws", "target"} \subseteq DOMAIN r
  BY Requests
<1>3. /\ DOMAIN more(r) = {"pc", "id"} /\ more(r)["pc"] = FirstCall(r)
      /\ more(r)["id"] = Cardinality(Founders) + issued + 1
  OBVIOUS
<1> HIDE DEF more
<1>4. Others(c) /\ req'[c] = Extend(r, more(r)) BY <1>1 DEF Numbered, Others
<1>5. /\ DOMAIN req'[c] = DOMAIN r \cup {"pc", "id"}
      /\ req'[c].pc = FirstCall(r) /\ req'[c].id = Cardinality(Founders) + issued + 1
      /\ \A f \in DOMAIN r \ {"pc", "id"} : req'[c][f] = r[f]
  BY <1>3, <1>4 DEF Extend
<1>6. req'[c].op = r.op BY <1>2, <1>5
<1>7. /\ FirstCall(r) \in {"findUser", "findInvite", "findMember"}
      /\ r.op = "registerUser" => FirstCall(r) = "findInvite"
  BY DEF FirstCall
<1>8. Shape(req'[c]) BY <1>2, <1>5, <1>6, <1>7 DEF Shape, HasRow, Saving
<1>9. req'[c].id = LastId + 1 BY <1>5 DEF LastId
<1> QED BY <1>2, <1>4, <1>5, <1>6, <1>7, <1>8, <1>9 DEF Asked, Request, tables

LEMMA ExpireStep == ASSUME Invites, Expire PROVE Expired
<1>1. PICK i \in invites : invites' = (invites \ {i}) \cup {[i EXCEPT !.expired = TRUE]}
  BY DEF Expire
<1> DEFINE k == [i EXCEPT !.expired = TRUE]
<1>2. \A j \in invites : DOMAIN j = InviteFields /\ \A l \in invites : j.id = l.id => j = l
  BY DEF Invites
<1>3. DOMAIN k = InviteFields /\ k.id = i.id /\ k.seen = i.seen /\ k.expired
  BY <1>2 DEF InviteFields
<1> HIDE DEF k
<1>4. invites' = (invites \ {i}) \cup {k} BY <1>1 DEF k
<1>5. InvitesKept BY <1>2, <1>3, <1>4 DEF InvitesKept
<1> QED BY <1>5 DEF Expire, Expired

(* Every step is one of these.                                             *)
LEMMA Steps ==
  ASSUME AccountsIInv, [AccountsNext]_accountsVars
  PROVE  \/ Expired
         \/ \E c \in Clients : Asked(c) \/ Dead(c) \/ Stepped(c)
<1>1. Numbered /\ Rows /\ Invites BY DEF AccountsIInv
<1>2. CASE UNCHANGED accountsVars
  BY <1>1, <1>2, SameInvites DEF accountsVars, tables, Expired
<1>3. ASSUME NEW c \in Clients, Die(c) PROVE Dead(c)
  BY <1>1, <1>3, Records DEF Die, Dead, tables
<1>4. CASE Expire BY <1>1, <1>4, ExpireStep
<1>5. ASSUME NEW c \in Clients,
             \/ RegisterTenant(c) \/ Login(c) \/ SwitchWorkspace(c) \/ RegisterUser(c)
             \/ CreateUser(c) \/ InviteUser(c)
             \/ UpdateRole(c) \/ RemoveMember(c) \/ RevokeInvite(c)
      PROVE  Stepped(c)
  BY <1>1, <1>5, RegisterTenantStep, LoginStep, SwitchWorkspaceStep, RegisterUserStep,
     CreateUserStep, InviteUserStep, UpdateRoleStep, RemoveMemberStep, RevokeInviteStep
<1> QED BY <1>1, <1>2, <1>3, <1>4, <1>5, RequestStep DEF AccountsNext

-----------------------------------------------------------------------------
(* Each part of the invariant is kept.                                     *)
LEMMA FoundersCount == Cardinality(Founders) \in Nat
<1>1. IsFiniteSet(Founders) BY AccountsAssumption, FS_Subset
<1> QED BY <1>1, FS_CardinalityType

LEMMA NumberedNext ==
  ASSUME Numbered, NEW c \in Clients, Asked(c) \/ Dead(c) \/ Stepped(c)
  PROVE  Numbered' /\ LastId <= LastId'
<1>1. Cardinality(Founders) \in Nat /\ LastId \in Nat BY FoundersCount DEF LastId, Numbered
<1>2. Shape(Idle) /\ Idle.op = "idle" BY DEF Shape, Idle, HasRow, Inserting, Saving
<1>3. /\ req' = [d \in Clients |-> req'[d]] /\ \A d \in Clients \ {c} : req'[d] = req[d]
      /\ \A d \in Clients : Shape(req[d])
      /\ issued \in Nat /\ errors \in Nat
  BY DEF Numbered, Asked, Dead, Stepped, Moved, Others
<1>4. CASE Asked(c)
  <2>1. /\ LastId' = LastId + 1 /\ issued' \in Nat /\ errors' \in Nat
    BY <1>1, <1>3, <1>4 DEF LastId, Asked
  <2>2. /\ Shape(req'[c]) /\ req'[c].op # "idle" /\ req'[c].id = LastId + 1 BY <1>4 DEF Asked
  <2> HIDE DEF Shape, LastId, Idle
  <2> QED BY <1>1, <1>3, <2>1, <2>2 DEF Numbered
<1>5. CASE Dead(c) \/ Stepped(c)
  <2>1. /\ LastId' = LastId /\ issued' \in Nat /\ errors' \in Nat
    BY <1>3, <1>5 DEF LastId, Dead, Stepped, Moved
  <2>2. \/ req'[c] = Idle
        \/ req[c].op # "idle" /\ Shape(req'[c]) /\ req'[c].op = req[c].op /\ req'[c].id = req[c].id
    BY <1>5 DEF Dead, Stepped, Moved
  <2> HIDE DEF Shape, LastId, Idle
  <2> QED BY <1>1, <1>2, <1>3, <2>1, <2>2 DEF Numbered
<1> QED BY <1>4, <1>5

LEMMA RowsNext ==
  ASSUME Numbered, Rows, NEW c \in Clients, Asked(c) \/ Dead(c) \/ Stepped(c)
  PROVE  Rows'
<1>1. LastId \in Nat /\ LastId' \in Nat /\ LastId <= LastId' /\ Numbered'
  <2>1. Numbered' /\ LastId <= LastId' BY NumberedNext
  <2>2. issued \in Nat /\ issued' \in Nat BY <2>1 DEF Numbered
  <2> QED BY <2>1, <2>2, FoundersCount DEF LastId
<1>2. \A d \in Clients \ {c} : req'[d] = req[d] BY DEF Asked, Dead, Stepped, Moved, Others
<1>3. ~Inserting(Idle) /\ ~HasRow(Idle) BY DEF Inserting, HasRow, Idle
<1>4. HasRow(req'[c]) =>
        /\ Stepped(c)
        /\ (HasRow(req[c]) /\ req'[c].row = req[c].row) \/ req'[c].row \in members
        /\ req'[c].row.user = req'[c].target /\ req'[c].row.ws = req'[c].ws
        /\ req'[c].pc \in {"save", "delete"} => req'[c].seen = {} \/ ~LastAdmin(req'[c].seen)
  <2>1. Asked(c) => ~HasRow(req'[c]) BY DEF Asked, HasRow
  <2>2. Dead(c) => ~HasRow(req'[c]) BY <1>3 DEF Dead
  <2> HIDE DEF HasRow, LastAdmin
  <2> QED BY <2>1, <2>2 DEF Stepped, RowsStep
<1>5. \A d \in Clients : Inserting(req'[d]) =>
        /\ \/ Inserting(req[d]) /\ req'[d].id = req[d].id
           \/ Asked(c) /\ req'[d].id = LastId + 1
        /\ d # c \/ Asked(c) \/ Stepped(c)
  <2>1. Dead(c) => ~Inserting(req'[c]) BY <1>3 DEF Dead
  <2>2. Stepped(c) /\ Inserting(req'[c]) => Inserting(req[c]) /\ req'[c].id = req[c].id
    <3> HIDE DEF Inserting
    <3> QED BY <1>3 DEF Stepped, Moved, RowsStep
  <2>3. Asked(c) => req'[c].id = LastId + 1 BY DEF Asked
  <2> HIDE DEF Inserting
  <2> QED BY <1>2, <2>1, <2>2, <2>3
<1> DEFINE Fresh(m) ==
             /\ RowOk(m) /\ m.id = req[c].id
             /\ Inserting(req[c]) /\ ~Inserting(req'[c])
             /\ m \in members' /\ \A n \in members' : n \in members \/ n = m
           Akin(m) == RowOk(m) /\ \E k \in KnownRows : m.id = k.id /\ m.user = k.user /\ m.ws = k.ws
<1>6. \A m \in KnownRows : Akin(m) BY DEF Rows
<1>7. \A m \in members' : Akin(m) \/ (Stepped(c) /\ Fresh(m))
  <2>1. CASE Asked(c) \/ Dead(c) \/ members' \subseteq members
    BY <1>6, <2>1 DEF Asked, Dead, KnownRows
  <2>2. ASSUME NEW role, Stepped(c), Inserting(req[c]), ~Inserting(req'[c]),
               members' = members \cup
                 {[id |-> req[c].id, user |-> req[c].email, ws |-> req[c].ws, role |-> role]}
        PROVE  \A m \in members' : Akin(m) \/ (Stepped(c) /\ Fresh(m))
    <3> DEFINE new == [id |-> req[c].id, user |-> req[c].email, ws |-> req[c].ws, role |-> role]
    <3>1. DOMAIN new = {"id", "user", "ws", "role"} /\ new.id = req[c].id OBVIOUS
    <3>2. members' = members \cup {new} BY <2>2
    <3> HIDE DEF new
    <3>3. req[c].id \in Nat /\ req[c].id <= LastId BY <2>2 DEF Numbered, Inserting
    <3>4. RowOk(new) BY <3>1, <3>3 DEF RowOk
    <3> HIDE DEF Akin
    <3> QED BY <1>6, <2>2, <3>1, <3>2, <3>4 DEF KnownRows
  <2>3. ASSUME NEW role, Stepped(c), HasRow(req[c]),
               members' = (members \ Old(req[c].row)) \cup {[req[c].row EXCEPT !.role = role]}
        PROVE  \A m \in members' : Akin(m)
    <3> DEFINE row == req[c].row
               new == [row EXCEPT !.role = role]
    <3>1. row \in KnownRows BY <2>3 DEF KnownRows
    <3>2. RowOk(row) BY <3>1 DEF Rows
    <3>3. members' \subseteq members \cup {new} BY <2>3
    <3> HIDE DEF row
    <3>4. /\ DOMAIN new = {"id", "user", "ws", "role"}
          /\ new.id = row.id /\ new.user = row.user /\ new.ws = row.ws
      BY <3>2 DEF RowOk
    <3> HIDE DEF new
    <3>5. RowOk(new) BY <3>2, <3>4 DEF RowOk
    <3>6. Akin(new) BY <3>1, <3>4, <3>5
    <3> HIDE DEF Akin
    <3> QED BY <1>6, <3>3, <3>6 DEF KnownRows
  <2>4. req[c].op = "updateRole" /\ req[c].pc = "save" => HasRow(req[c]) BY DEF HasRow
  <2> HIDE DEF Akin, Fresh, Inserting, HasRow
  <2> QED BY <2>1, <2>2, <2>3, <2>4 DEF Stepped, RowsStep
<1>8. \A d \in Clients : HasRow(req'[d]) => req'[d].row \in KnownRows
  BY <1>2, <1>4 DEF KnownRows
<1>9. \A m \in KnownRows' : Akin(m) \/ (Stepped(c) /\ Fresh(m))
  <2>1. \A m \in KnownRows' : m \in members' \/ m \in KnownRows
    BY <1>8 DEF KnownRows
  <2> HIDE DEF Akin, Fresh
  <2> QED BY <1>6, <1>7, <2>1
<1>10. ASSUME NEW m \in KnownRows', NEW k \in KnownRows', m.id = k.id
       PROVE  m.user = k.user /\ m.ws = k.ws
  <2>1. \A a, b \in KnownRows : a.id = b.id => a.user = b.user /\ a.ws = b.ws BY DEF Rows
  <2>2. \A a \in KnownRows : Inserting(req[c]) => a.id # req[c].id BY DEF Rows
  <2>3. CASE Akin(m) /\ Akin(k) BY <1>10, <2>1, <2>3
  <2>4. CASE Fresh(m) /\ Fresh(k)
    <3>1. m = k
      <4>1. m \notin members BY <2>2, <2>4 DEF KnownRows
      <4> QED BY <2>4, <4>1
    <3> QED BY <3>1
  <2>5. CASE Akin(m) /\ Fresh(k) BY <1>10, <2>2, <2>5
  <2>6. CASE Fresh(m) /\ Akin(k) BY <1>10, <2>2, <2>6
  <2> HIDE DEF Akin, Fresh
  <2> QED BY <1>9, <2>3, <2>4, <2>5, <2>6
<1>11. ASSUME NEW m \in KnownRows', NEW d \in Clients, Inserting(req'[d]) PROVE m.id # req'[d].id
  <2>1. m.id \in Nat /\ m.id <= LastId
    <3>1. RowOk(m) BY <1>9
    <3> QED BY <3>1 DEF RowOk
  <2>2. CASE Asked(c) /\ req'[d].id = LastId + 1 BY <1>1, <2>1, <2>2
  <2>3. CASE Inserting(req[d]) /\ req'[d].id = req[d].id
    <3>1. CASE Akin(m) BY <2>3, <3>1 DEF Rows
    <3>2. CASE Fresh(m)
      <4>1. d # c BY <1>11, <3>2
      <4> QED BY <2>3, <3>2, <4>1 DEF Numbered, Inserting
    <3> HIDE DEF Akin, Fresh
    <3> QED BY <1>9, <3>1, <3>2
  <2> QED BY <1>5, <1>11, <2>2, <2>3
<1>12. ASSUME NEW d \in Clients, HasRow(req'[d])
       PROVE  /\ req'[d].row.user = req'[d].target /\ req'[d].row.ws = req'[d].ws
              /\ req'[d].pc \in {"save", "delete"} => req'[d].seen = {} \/ ~LastAdmin(req'[d].seen)
  BY <1>2, <1>4, <1>12 DEF Rows
<1>13. ASSUME NEW m \in KnownRows' PROVE RowOk(m)'
  <2>1. RowOk(m) BY <1>9
  <2> QED BY <1>1, <2>1 DEF RowOk
<1> HIDE DEF Akin, Fresh, Inserting, HasRow, RowOk
<1> QED BY <1>10, <1>11, <1>12, <1>13 DEF Rows, LastAdmin

(* A number that is given is never given again.                            *)
LEMMA AmongKept ==
  ASSUME Numbered, Invites, NEW c \in Clients, Asked(c) \/ Dead(c) \/ Stepped(c)
  PROVE  \A seen, id : ExpiredAmong(seen, id) => ExpiredAmong(seen, id)'
<1> SUFFICES ASSUME NEW seen, NEW id, ExpiredAmong(seen, id) PROVE ExpiredAmong(seen, id)'
  OBVIOUS
<1> SUFFICES ASSUME seen # {} PROVE ExpiredAmong(seen, id)' BY DEF ExpiredAmong
<1>1. LastId <= LastId' /\ Numbered' BY NumberedNext
<1>2. LastId \in Nat /\ LastId' \in Nat
  <2>1. issued \in Nat /\ issued' \in Nat BY <1>1 DEF Numbered
  <2> QED BY <2>1, FoundersCount DEF LastId
<1>3. PICK p \in seen :
        /\ p # id /\ p \in Nat /\ p <= LastId
        /\ \A i \in invites : i.id = p => i.expired
        /\ \A d \in Clients : req[d].op = "inviteUser" => req[d].id # p
  BY DEF ExpiredAmong
<1>4. ASSUME NEW j \in invites', j.id = p PROVE j.expired
  <2>1. CASE invites' = invites BY <1>3, <1>4, <2>1
  <2>2. CASE InvitesKept BY <1>3, <1>4, <2>2 DEF InvitesKept
  <2>3. ASSUME NEW i, invites' = invites \cup {i}, i.id = req[c].id, req[c].pc = "saveInvite"
        PROVE  j.expired
    <3>1. req[c].op = "inviteUser" BY <2>3 DEF Numbered, Shape
    <3>2. j # i BY <1>3, <1>4, <2>3, <3>1
    <3> QED BY <1>3, <1>4, <2>3, <3>2
  <2>4. Asked(c) \/ Dead(c) => invites' = invites BY DEF Asked, Dead
  <2> QED BY <2>1, <2>2, <2>3, <2>4 DEF Stepped, InvitesStep
<1>5. ASSUME NEW d \in Clients, req'[d].op = "inviteUser" PROVE req'[d].id # p
  <2>1. CASE d # c BY <1>3, <1>5, <2>1 DEF Asked, Dead, Stepped, Moved, Others
  <2>2. CASE d = c
    <3>1. CASE Asked(c)
      <4>1. req'[c].id = LastId + 1 BY <3>1 DEF Asked
      <4> QED BY <1>2, <1>3, <2>2, <4>1
    <3>2. req'[c] # Idle BY <1>5, <2>2 DEF Idle
    <3>3. CASE Stepped(c) BY <1>3, <1>5, <2>2, <3>2, <3>3 DEF Stepped, Moved
    <3>4. CASE Dead(c) BY <3>2, <3>4 DEF Dead
    <3> QED BY <3>1, <3>3, <3>4
  <2> QED BY <2>1, <2>2
<1>6. p <= LastId' BY <1>1, <1>2, <1>3
<1> HIDE DEF LastId
<1> QED BY <1>3, <1>4, <1>5, <1>6 DEF ExpiredAmong

LEMMA InvitesNext ==
  ASSUME Numbered, Invites, NEW c \in Clients, Asked(c) \/ Dead(c) \/ Stepped(c)
  PROVE  Invites'
<1>1. LastId <= LastId' /\ Numbered' BY NumberedNext
<1>2. LastId \in Nat /\ LastId' \in Nat
  <2>1. issued \in Nat /\ issued' \in Nat BY <1>1 DEF Numbered
  <2> QED BY <2>1, FoundersCount DEF LastId
<1>3. \A seen, id : ExpiredAmong(seen, id) => ExpiredAmong(seen, id)' BY AmongKept
<1>4. \A d \in Clients : \/ req'[d] = Idle
                         \/ Asked(c) /\ d = c
                         \/ d # c /\ req'[d] = req[d]
                         \/ d = c /\ Stepped(c) /\ req'[d].op = req[d].op /\ req'[d].id = req[d].id
  <2>1. \A d \in Clients \ {c} : req'[d] = req[d] BY DEF Asked, Dead, Stepped, Moved, Others
  <2> QED BY <2>1 DEF Dead, Stepped, Moved
<1>5. Idle.op = "idle" /\ Idle.pc = "idle" BY DEF Idle
<1>6. ASSUME NEW d \in Clients, req'[d].op = "inviteUser"
      PROVE  \/ req[d].op = "inviteUser" /\ req'[d].id = req[d].id
             \/ Asked(c) /\ req'[d].id = LastId + 1
  BY <1>4, <1>5, <1>6 DEF Asked
<1>7. \/ InvitesKept
      \/ /\ Stepped(c) /\ req[c].pc = "saveInvite" /\ req'[c] = Idle
         /\ \E i : /\ invites' = invites \cup {i} /\ DOMAIN i = InviteFields
                   /\ i.id = req[c].id /\ i.seen = req[c].seen
  BY SameInvites DEF Asked, Dead, Stepped, InvitesStep
<1>8. ASSUME NEW i \in invites
      PROVE  /\ DOMAIN i = InviteFields /\ i.id \in Nat /\ i.id <= LastId /\ i.id <= LastId'
             /\ \A j \in invites : i.id = j.id => i = j
             /\ ExpiredAmong(i.seen, i.id) /\ ExpiredAmong(i.seen, i.id)'
             /\ \A d \in Clients : req[d].op = "inviteUser" => req[d].id # i.id
             /\ \A d \in Clients : req'[d].op = "inviteUser" => req'[d].id # i.id
  <2>1. /\ DOMAIN i = InviteFields /\ i.id \in Nat /\ i.id <= LastId
        /\ \A j \in invites : i.id = j.id => i = j
        /\ ExpiredAmong(i.seen, i.id)
        /\ \A d \in Clients : req[d].op = "inviteUser" => req[d].id # i.id
    BY DEF Invites
  <2> HIDE DEF LastId
  <2>2. i.id <= LastId' BY <1>1, <1>2, <2>1
  <2>3. ExpiredAmong(i.seen, i.id)' BY <1>3, <2>1
  <2>4. ASSUME NEW d \in Clients, req'[d].op = "inviteUser" PROVE req'[d].id # i.id
    BY <1>1, <1>2, <1>6, <2>1, <2>4
  <2> QED BY <2>1, <2>2, <2>3, <2>4
<1>9. ASSUME NEW j \in invites'
      PROVE  /\ DOMAIN j = InviteFields /\ j.id \in Nat /\ j.id <= LastId'
             /\ \A k \in invites' : j.id = k.id => j = k
             /\ ExpiredAmong(j.seen, j.id)'
             /\ \A d \in Clients : req'[d].op = "inviteUser" => req'[d].id # j.id
  <2> HIDE DEF LastId, ExpiredAmong, InviteFields
  <2>1. CASE InvitesKept
    <3>1. /\ DOMAIN j = InviteFields /\ \A k \in invites' : j.id = k.id => j = k
      BY <2>1 DEF InvitesKept
    <3>2. PICK i \in invites : i.id = j.id /\ i.seen = j.seen BY <2>1 DEF InvitesKept
    <3>3. ExpiredAmong(j.seen, j.id)' BY <1>3, <1>8, <3>2
    <3> QED BY <1>8, <3>1, <3>2, <3>3
  <2>2. ASSUME NEW i, invites' = invites \cup {i}, DOMAIN i = InviteFields,
               i.id = req[c].id, i.seen = req[c].seen,
               Stepped(c), req[c].pc = "saveInvite", req'[c] = Idle
        PROVE  /\ DOMAIN j = InviteFields /\ j.id \in Nat /\ j.id <= LastId'
               /\ \A k \in invites' : j.id = k.id => j = k
               /\ ExpiredAmong(j.seen, j.id)'
               /\ \A d \in Clients : req'[d].op = "inviteUser" => req'[d].id # j.id
    <3>1. req[c].op = "inviteUser" BY <2>2 DEF Numbered, Shape
    <3>2. ExpiredAmong(i.seen, i.id)
      <4>1. ExpiredAmong(req[c].seen, req[c].id) BY <2>2 DEF Invites
      <4> QED BY <2>2, <4>1
    <3>3. ExpiredAmong(i.seen, i.id)' BY <1>3, <3>2
    <3>4. i.id \in Nat /\ i.id <= LastId'
      <4>1. i.id \in Nat /\ i.id <= LastId BY <2>2, <3>1 DEF Numbered
      <4> QED BY <1>1, <1>2, <4>1
    <3>5. \A d \in Clients : req'[d].op = "inviteUser" => req'[d].id # i.id
      <4>1. \A d \in Clients : req'[d].op = "inviteUser" => d # c /\ req[d].op = "inviteUser" /\ req'[d].id = req[d].id
        BY <1>4, <1>5, <2>2 DEF Stepped, Moved, Others
      <4> QED BY <2>2, <3>1, <4>1 DEF Numbered
    <3>6. \A k \in invites : k.id # i.id BY <1>8, <2>2, <3>1
    <3>7. CASE j = i BY <2>2, <3>3, <3>4, <3>5, <3>6, <3>7
    <3>8. CASE j \in invites BY <1>8, <2>2, <3>6, <3>8
    <3> QED BY <2>2, <3>7, <3>8
  <2> QED BY <1>7, <2>1, <2>2
<1>10. ASSUME NEW d \in Clients, req'[d].pc = "saveInvite"
       PROVE  ExpiredAmong(req[d].seen, req[d].id)'
  <2>1. req'[d].op = "inviteUser" BY <1>1, <1>10 DEF Numbered, Shape
  <2>2. ~Asked(c) \/ d # c BY <1>10 DEF Asked
  <2>3. PICK s, x : s = req'[d].seen /\ x = req'[d].id OBVIOUS
  <2>4. ExpiredAmong(s, x)
    <3>1. CASE d # c
      <4>1. req[d] = req'[d] BY <1>4, <1>5, <1>10, <3>1
      <4> QED BY <1>10, <2>3, <4>1 DEF Invites
    <3>2. CASE d = c
      <4>1. Stepped(c) /\ req[c].op = "inviteUser" /\ req'[c].id = req[c].id
        BY <1>4, <1>5, <2>1, <2>2, <3>2
      <4>2. s = {} \/ \E i \in invites : i.id \in s /\ i.expired
        BY <1>10, <2>3, <3>2, <4>1 DEF Stepped, InvitesStep
      <4> QED BY <1>8, <2>3, <3>2, <4>1, <4>2 DEF ExpiredAmong
    <3> QED BY <3>1, <3>2
  <2>5. ExpiredAmong(s, x)' BY <1>3, <2>4
  <2> QED BY <2>3, <2>5 DEF ExpiredAmong
<1> HIDE DEF LastId, ExpiredAmong, InviteFields
<1> QED BY <1>9, <1>10 DEF Invites

(* The accounts left alone, but for those of a step.                       *)
LEMMA AloneNext ==
  ASSUME Numbered, Rows, Rows', Alone, NEW c \in Clients, Asked(c) \/ Dead(c) \/ Stepped(c)
  PROVE  Alone'
<1>1. \A d \in Clients \ {c} : req'[d] = req[d] BY DEF Asked, Dead, Stepped, Moved, Others
<1>2. errors \in Nat BY DEF Numbered
<1>3. ASSUME Stepped(c), NEW u \in Stranded' \ beaten' PROVE u \in Stranded \ beaten
  <2>1. /\ u \in users' /\ u \notin beaten'
        /\ \A m \in members' \cup removed' : m.user # u
        /\ \A d \in Clients : Saving(req'[d]) => req'[d].email # u
    BY <1>3 DEF Stranded, Saving
  <2>2. u \in users /\ u \notin beaten
    <3> HIDE DEF Saving
    <3> QED BY <1>3, <2>1 DEF Stepped, UsersStep
  <2>3. ASSUME NEW d \in Clients, Saving(req[d]) PROVE req[d].email # u
    <3> HIDE DEF Saving
    <3>1. CASE d # c BY <1>1, <2>1, <2>3, <3>1
    <3>2. CASE d = c BY <1>3, <2>1, <2>3, <3>2 DEF Stepped, UsersStep
    <3> QED BY <3>1, <3>2
  <2>4. removed \subseteq removed' BY <1>3 DEF Stepped, RowsStep
  <2>5. ASSUME NEW m \in members, m.user = u PROVE FALSE
    <3>1. m \notin members' /\ m \notin removed' BY <2>1, <2>5
    <3>2. ASSUME NEW role, HasRow(req[c]),
                 members' = (members \ Old(req[c].row)) \cup {[req[c].row EXCEPT !.role = role]}
          PROVE  FALSE
      <4> DEFINE row == req[c].row
                 new == [row EXCEPT !.role = role]
      <4>1. m \in KnownRows /\ row \in KnownRows BY <3>2 DEF KnownRows
      <4>2. m.id = row.id BY <3>1, <3>2 DEF Old
      <4>3. row.user = u BY <2>5, <4>1, <4>2 DEF Rows
      <4>4. "user" \in DOMAIN row BY <4>1 DEF Rows, RowOk
      <4>5. new \in members' BY <3>2
      <4> HIDE DEF row
      <4>6. new.user = row.user BY <4>4
      <4> HIDE DEF new
      <4> QED BY <2>1, <4>3, <4>5, <4>6
    <3>3. req[c].op = "updateRole" /\ req[c].pc = "save" => HasRow(req[c]) BY DEF HasRow
    <3> HIDE DEF HasRow, Inserting
    <3> QED BY <1>3, <3>1, <3>2, <3>3 DEF Stepped, RowsStep, Old
  <2> QED BY <2>1, <2>2, <2>3, <2>4, <2>5 DEF Stranded, Saving
<1>4. ASSUME Asked(c), NEW u \in Stranded' \ beaten' PROVE u \in Stranded \ beaten
  <2>1. Idle.pc = "idle" BY DEF Idle
  <2>2. \A d \in Clients : req[d].pc \in {"saveWorkspace", "saveMember"} => req'[d] = req[d]
    BY <1>1, <1>4, <2>1 DEF Asked
  <2> QED BY <1>4, <2>2 DEF Stranded, Asked
<1>5. ASSUME Dead(c), NEW u \in Stranded' \ beaten' PROVE u \in (Stranded \ beaten) \cup {req[c].email}
  BY <1>1, <1>5 DEF Stranded, Dead
<1> DEFINE S == Stranded \ beaten
           T == Stranded' \ beaten'
<1>6. \/ T \subseteq S /\ errors' = errors
      \/ T \subseteq S \cup {req[c].email} /\ errors' = errors + 1
  <2> HIDE DEF S, T
  <2>1. errors' = errors \/ Dead(c) BY DEF Asked, Stepped, Moved
  <2>2. Dead(c) => errors' = errors + 1 BY DEF Dead
  <2> QED BY <1>3, <1>4, <1>5, <2>1, <2>2 DEF S, T
<1>7. IsFiniteSet(S) /\ Cardinality(S) <= errors BY DEF Alone
<1>8. errors' \in Nat BY <1>2, <1>6
<1> HIDE DEF S, T
<1>9. IsFiniteSet(T) /\ Cardinality(T) <= errors'
  BY <1>2, <1>6, <1>7, <1>8, CountBound
<1> QED BY <1>9 DEF Alone, T

LEMMA AccountsStep ==
  ASSUME AccountsIInv, [AccountsNext]_accountsVars PROVE AccountsIInv'
<1>1. CASE Expired
  <2>1. Numbered'
    <3>1. req' = req /\ issued' = issued /\ errors' = errors /\ LastId' = LastId
      BY <1>1 DEF Expired, LastId
    <3>2. Numbered BY DEF AccountsIInv
    <3>3. \A c \in Clients : Shape(req[c])' BY <3>1, <3>2 DEF Numbered, Shape, HasRow, Saving, Inserting
    <3> HIDE DEF LastId
    <3> QED BY <3>1, <3>2, <3>3 DEF Numbered
  <2>2. Rows' BY <1>1 DEF AccountsIInv, Rows, KnownRows, RowOk, LastId, LastAdmin, Expired
  <2>3. Alone' BY <1>1 DEF AccountsIInv, Alone, Stranded, Expired
  <2>4. Invites'
    <3>1. LastId' = LastId /\ req' = req BY <1>1 DEF LastId, Expired
    <3>2. \A seen, id : ExpiredAmong(seen, id) => ExpiredAmong(seen, id)'
      BY <1>1, <3>1 DEF Expired, InvitesKept, ExpiredAmong
    <3>3. ASSUME NEW j \in invites'
          PROVE  /\ DOMAIN j = InviteFields /\ j.id \in Nat /\ j.id <= LastId'
                 /\ \A k \in invites' : j.id = k.id => j = k
                 /\ ExpiredAmong(j.seen, j.id)'
                 /\ \A d \in Clients : req'[d].op = "inviteUser" => req'[d].id # j.id
      <4> HIDE DEF LastId, ExpiredAmong, InviteFields
      <4>1. PICK i \in invites : i.id = j.id /\ i.seen = j.seen
        BY <1>1 DEF Expired, InvitesKept
      <4>2. ExpiredAmong(j.seen, j.id) BY <4>1 DEF AccountsIInv, Invites
      <4>3. ExpiredAmong(j.seen, j.id)' BY <3>2, <4>2
      <4> QED BY <1>1, <3>1, <4>1, <4>3 DEF AccountsIInv, Invites, Expired, InvitesKept
    <3>4. ASSUME NEW d \in Clients, req'[d].pc = "saveInvite"
          PROVE  ExpiredAmong(req[d].seen, req[d].id)'
      <4>1. PICK s, x : s = req[d].seen /\ x = req[d].id OBVIOUS
      <4>2. ExpiredAmong(s, x)' BY <3>1, <3>2, <3>4, <4>1 DEF AccountsIInv, Invites
      <4> QED BY <3>1, <4>1, <4>2 DEF ExpiredAmong
    <3> HIDE DEF LastId, ExpiredAmong, InviteFields
    <3> QED BY <3>3, <3>4 DEF Invites
  <2> QED BY <2>1, <2>2, <2>3, <2>4 DEF AccountsIInv
<1>2. ASSUME NEW c \in Clients, Asked(c) \/ Dead(c) \/ Stepped(c) PROVE AccountsIInv'
  <2>1. Numbered /\ Rows /\ Invites /\ Alone BY DEF AccountsIInv
  <2>2. Numbered' BY <1>2, <2>1, NumberedNext
  <2>3. Rows' BY <1>2, <2>1, RowsNext
  <2>4. Invites' BY <1>2, <2>1, InvitesNext
  <2>5. Alone' BY <1>2, <2>1, <2>3, AloneNext
  <2> QED BY <2>2, <2>3, <2>4, <2>5 DEF AccountsIInv
<1> QED BY <1>1, <1>2, Steps

-----------------------------------------------------------------------------
LEMMA AccountsInvariant == AccountsSpec => []AccountsIInv
<1>1. AccountsIInv /\ [AccountsNext]_accountsVars => AccountsIInv' BY AccountsStep
<1> QED BY <1>1, AccountsInitInv, PTL DEF AccountsSpec

(* Two valid invites of one person to one workspace: the second was        *)
(* checked before the first was saved, or while an expired one was still   *)
(* there for findOne() to return: UsersService.inviteUser().               *)
THEOREM InvitesDoubleOnlySo == AccountsSpec => []DuplicateInvites
<1>1. AccountsIInv => DuplicateInvites
  BY DEF AccountsIInv, Invites, ExpiredAmong, DuplicateInvites
<1> QED BY <1>1, AccountsInvariant, PTL

(* As many accounts without a workspace as errors, but for those whose     *)
(* slug was taken while they registered: AuthService.registerTenant() and  *)
(* registerUser(), UsersService.createUser(), which save the user before   *)
(* the membership, with any number of requests.                            *)
THEOREM ErrorsStrand == AccountsSpec => []StrandedExplained
<1>1. AccountsIInv => StrandedExplained BY DEF AccountsIInv, Alone, StrandedExplained
<1> QED BY <1>1, AccountsInvariant, PTL

(* The last admin of a workspace goes only where another request came      *)
(* between the reads of the role change or removal and its write:          *)
(* UsersService.updateRole() and removeMember().                           *)
THEOREM LastAdminOvertaken == AccountsSpec => AdminLostByOverlap
<1> DEFINE Lost(w) == Admins(w) # {} /\ Admins(w)' = {}
<1>1. ASSUME AccountsIInv, [AccountsNext]_accountsVars, NEW w \in Slugs, Lost(w)
      PROVE  \E c \in Clients : Overtaken(c, w)
  <2>1. \E m \in members : m.ws = w /\ m.role = "admin" BY <1>1 DEF Admins
  <2>2. \A m \in members' : ~(m.ws = w /\ m.role = "admin") BY <1>1 DEF Admins
  <2>3. PICK c \in Clients : Stepped(c) /\ ~(members \subseteq members')
    BY <1>1, <2>1, <2>2, Steps DEF Expired, Asked, Dead
  <2>4. /\ req[c].op \in {"updateRole", "removeMember"} /\ req[c].pc \in {"save", "delete"}
        /\ members \ Old(req[c].row) \subseteq members'
    BY <2>3 DEF Stepped, RowsStep
  <2> SUFFICES ASSUME ~Overtaken(c, w) PROVE FALSE OBVIOUS
  <2> DEFINE row == req[c].row
  <2>5. HasRow(req[c]) /\ row \in KnownRows BY <2>4 DEF HasRow, KnownRows
  <2>6. /\ row.ws = req[c].ws
        /\ req[c].seen = {} \/ ~LastAdmin(req[c].seen)
        /\ \A m \in members : m.id = row.id => m.user = row.user /\ m.ws = row.ws
    BY <1>1, <2>4, <2>5 DEF AccountsIInv, Rows, KnownRows
  <2>7. ASSUME NEW m \in members, m.ws = w, m.role = "admin"
        PROVE  m.user = row.user /\ row.ws = w
    <3>1. m \in Old(row) BY <2>2, <2>4, <2>7
    <3> QED BY <2>6, <2>7, <3>1 DEF Old
  <2>8. req[c].ws = w BY <2>1, <2>6, <2>7
  <2>9. req[c].seen = Admins(w) BY <2>4, <2>8 DEF Overtaken
  <2>10. ~LastAdmin(Admins(w)) BY <1>1, <2>6, <2>9
  <2>11. Admins(w) = {row.user}
    <3>1. Admins(w) \subseteq {row.user} BY <2>7 DEF Admins
    <3> QED BY <1>1, <3>1
  <2> HIDE DEF row
  <2>12. Cardinality({row.user}) = 1 BY FS_Singleton
  <2> QED BY <2>10, <2>11, <2>12 DEF LastAdmin
<1>2. AccountsIInv /\ [AccountsNext]_accountsVars =>
        [\A w \in Slugs : Lost(w) => \E c \in Clients : Overtaken(c, w)]_accountsVars
  BY <1>1
<1>3. [][AccountsNext]_accountsVars /\ []AccountsIInv => AdminLostByOverlap
  BY <1>2, PTL DEF AdminLostByOverlap
<1> QED BY <1>3, AccountsInvariant, PTL DEF AccountsSpec
==============================================================================

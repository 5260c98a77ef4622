------------------------------ MODULE ApiKeys ------------------------------
(***************************************************************************)
(* API keys: their rows in Postgres, the two entries the cache may hold    *)
(* for a key, the checks made by the ingest and by the API, and the        *)
(* requests that create, revoke and rotate keys.  A request runs from one  *)
(* await to the next.                                                      *)
(*                                                                         *)
(* Of a raw key only its prefix (first 14 characters) and its key_id are   *)
(* used as cache keys; keys differ in both.  The ingest fills the entry of *)
(* the prefix, the API that of the key_id; both look up the prefix.        *)
(***************************************************************************)
EXTENDS Naturals, FiniteSets, TLC

CONSTANTS
    Keys,          \* the keys that can ever be made
    FirstKeys,     \* those that exist at first
    Callers,       \* requests to be authenticated, at the same time
    Managers,      \* requests that manage keys, at the same time
    MaxManaged,    \* bound: requests that manage keys in all
    MaxKeyErrors,  \* bound: of these, requests that end in an error half way
    NoKey          \* no key

ASSUME ApiKeysAssumption ==
    /\ FirstKeys \subseteq Keys /\ NoKey \notin Keys
    /\ MaxManaged \in Nat /\ MaxKeyErrors \in Nat

VARIABLES
    keys,       \* table api_keys: the status of each key, "none" if there is no row
    origin,     \* history: the key that a rotation replaced by this one
    byPrefix,   \* keys with an entry apikey:<prefix> in the cache
    byKeyId,    \* keys with an entry apikey:<key_id> in the cache
    call,       \* per caller: where its check is
    manage,     \* per manager: where its request is
    managed,    \* management requests made
    keyErrors,  \* management requests that ended in an error
    rotated     \* history: keys revoked by a rotation

keyVars == <<keys, origin, byPrefix, byKeyId, call, manage, managed, keyErrors, rotated>>
callVars == <<keys, origin, manage, managed, keyErrors, rotated>>

Active == {k \in Keys : keys[k] = "active"}
NoCall == [pc |-> "idle", key |-> NoKey, by |-> "none"]
Free == [pc |-> "idle", op |-> "none", key |-> NoKey, todo |-> {}]

KeysInit ==
    /\ keys = [k \in Keys |-> IF k \in FirstKeys THEN "active" ELSE "none"]
    /\ origin = [k \in Keys |-> NoKey]
    /\ byPrefix = {}
    /\ byKeyId = {}
    /\ call = [c \in Callers |-> NoCall]
    /\ manage = [m \in Managers |-> Free]
    /\ managed = 0
    /\ keyErrors = 0
    /\ rotated = {}

(***************************************************************************)
(* Authentication.  by says who checks: the ingest (validateApiKey) or the *)
(* API (ApiKeyGuard).  Accepted or refused, the caller returns to idle.    *)
(***************************************************************************)
Go(c, pc) == call' = [call EXCEPT ![c].pc = pc]
Answered(c) == call' = [call EXCEPT ![c] = NoCall]

Present(c) ==
    /\ call[c] = NoCall
    /\ \E k \in Keys, by \in {"ingest", "api"} :
         /\ keys[k] # "none"
         /\ call' = [call EXCEPT ![c] = [pc |-> "cache", key |-> k, by |-> by]]
    /\ UNCHANGED <<callVars, byPrefix, byKeyId>>

\* Only active keys are put into the cache.
LookUp(c) ==
    /\ call[c].pc = "cache"
    /\ IF call[c].key \in byPrefix THEN Answered(c) ELSE Go(c, "find")
    /\ UNCHANGED <<callVars, byPrefix, byKeyId>>

\* Variant of Acceptable: the row must exist, whatever its status.
AcceptableAnyStatus(k) == keys[k] # "none"

\* The row of the key is there and active.
Acceptable(k) == keys[k] = "active"

FindKey(c) ==
    /\ call[c].pc = "find"
    /\ IF Acceptable(call[c].key) THEN Go(c, "fill") ELSE Answered(c)
    /\ UNCHANGED <<callVars, byPrefix, byKeyId>>

\* The API also counts the call; the count is of no consequence here.
Fill(c) ==
    /\ call[c].pc = "fill"
    /\ \/ call[c].by = "ingest" /\ byPrefix' = byPrefix \cup {call[c].key} /\ UNCHANGED byKeyId
       \/ call[c].by = "api" /\ byKeyId' = byKeyId \cup {call[c].key} /\ UNCHANGED byPrefix
    /\ Answered(c)
    /\ UNCHANGED callVars

\* setex: an entry lives for 600 seconds, whether it is used or not.
ExpirePrefix(k) ==
    /\ k \in byPrefix
    /\ byPrefix' = byPrefix \ {k}
    /\ UNCHANGED <<callVars, byKeyId, call>>

ExpireKeyId(k) ==
    /\ k \in byKeyId
    /\ byKeyId' = byKeyId \ {k}
    /\ UNCHANGED <<callVars, byPrefix, call>>

(***************************************************************************)
(* Management.                                                             *)
(***************************************************************************)
StartManaging(m) ==
    /\ manage[m] = Free
    /\ managed < MaxManaged
    /\ managed' = managed + 1
    /\ \/ \E k \in Keys :
            /\ keys[k] # "none"
            /\ manage' = [manage EXCEPT ![m] = [pc |-> "find", op |-> "revoke", key |-> k, todo |-> {}]]
       \/ manage' = [manage EXCEPT ![m] = [pc |-> "save", op |-> "create", key |-> NoKey, todo |-> {}]]
       \/ manage' = [manage EXCEPT ![m] = [pc |-> "list", op |-> "rotate", key |-> NoKey, todo |-> {}]]
    /\ UNCHANGED <<keys, origin, byPrefix, byKeyId, call, keyErrors, rotated>>

\* rotateKeys: the keys active now are revoked and replaced one after another.
ListActive(m) ==
    /\ manage[m].pc = "list"
    /\ manage' = [manage EXCEPT ![m].pc = "next", ![m].todo = Active]
    /\ UNCHANGED <<keys, origin, byPrefix, byKeyId, call, managed, keyErrors, rotated>>

NextKey(m) ==
    /\ manage[m].pc = "next"
    /\ \/ manage[m].todo = {} /\ manage' = [manage EXCEPT ![m] = Free]
       \/ \E k \in manage[m].todo :
            manage' = [manage EXCEPT ![m].pc = "find", ![m].key = k, ![m].todo = @ \ {k}]
    /\ UNCHANGED <<keys, origin, byPrefix, byKeyId, call, managed, keyErrors, rotated>>

\* KeysService.revoke, alone or from a rotation: find, update, invalidate.
FindRow(m) ==
    /\ manage[m].pc = "find"
    /\ manage' = [manage EXCEPT ![m].pc = "update"]
    /\ UNCHANGED <<keys, origin, byPrefix, byKeyId, call, managed, keyErrors, rotated>>

MarkRevoked(m) ==
    /\ manage[m].pc = "update"
    /\ keys' = [keys EXCEPT ![manage[m].key] = "revoked"]
    /\ rotated' = IF manage[m].op = "rotate" THEN rotated \cup {manage[m].key} ELSE rotated
    /\ manage' = [manage EXCEPT ![m].pc = "invalidate"]
    /\ UNCHANGED <<origin, byPrefix, byKeyId, call, managed, keyErrors>>

\* Variant of AfterRevoke: a rotation goes on without making the new key.
AfterRevokeNext(m) == IF manage[m].op = "rotate" THEN [manage[m] EXCEPT !.pc = "next"] ELSE Free

\* A rotation then makes the new key.
AfterRevoke(m) == IF manage[m].op = "rotate" THEN [manage[m] EXCEPT !.pc = "save"] ELSE Free

Invalidate(m) ==
    /\ manage[m].pc = "invalidate"
    /\ byKeyId' = byKeyId \ {manage[m].key}
    /\ manage' = [manage EXCEPT ![m] = AfterRevoke(m)]
    /\ UNCHANGED <<keys, origin, byPrefix, call, managed, keyErrors, rotated>>

\* KeysService.create
SaveKey(m) ==
    /\ manage[m].pc = "save"
    /\ \E k \in Keys :
         /\ keys[k] = "none"
         /\ keys' = [keys EXCEPT ![k] = "active"]
         /\ origin' = [origin EXCEPT ![k] = manage[m].key]
    /\ manage' = [manage EXCEPT ![m] = IF @.op = "rotate" THEN [@ EXCEPT !.pc = "next"] ELSE Free]
    /\ UNCHANGED <<byPrefix, byKeyId, call, managed, keyErrors, rotated>>

KeyError(m) ==
    /\ manage[m] # Free
    /\ keyErrors < MaxKeyErrors
    /\ keyErrors' = keyErrors + 1
    /\ manage' = [manage EXCEPT ![m] = Free]
    /\ UNCHANGED <<keys, origin, byPrefix, byKeyId, call, managed, rotated>>

Check(c) == LookUp(c) \/ FindKey(c) \/ Fill(c)

KeysNext ==
    \/ \E c \in Callers : Present(c) \/ Check(c)
    \/ \E k \in Keys : ExpirePrefix(k) \/ ExpireKeyId(k)
    \/ \E m \in Managers :
         \/ StartManaging(m) \/ ListActive(m) \/ NextKey(m) \/ FindRow(m)
         \/ MarkRevoked(m) \/ Invalidate(m) \/ SaveKey(m) \/ KeyError(m)

\* A check under way ends; an entry of the cache expires.
KeysFairness ==
    /\ \A c \in Callers : WF_keyVars(Check(c))
    /\ \A k \in Keys : WF_keyVars(ExpirePrefix(k) \/ ExpireKeyId(k))

KeysSpec == KeysInit /\ [][KeysNext]_keyVars /\ KeysFairness

(***************************************************************************)
(* Properties.                                                             *)
(***************************************************************************)
\* Accepting a revoked key ends: whatever stale entry the cache holds, and
\* however the fill of one crossed the revocation, from some time on the key
\* is refused by the ingest and by the API.
RevokedIsRefused ==
    \A k \in Keys :
      keys[k] = "revoked" ~>
        [](k \notin byPrefix /\ \A c \in Callers : ~(call[c].key = k /\ call[c].pc = "fill"))

\* A key revoked by a rotation has a successor, unless that rotation is still
\* about to make it or ended in an error: one error costs at most one key.
RotatedHasSuccessor ==
    Cardinality({k \in rotated :
        /\ \A j \in Keys : origin[j] # k
        /\ \A m \in Managers : ~(manage[m].op = "rotate" /\ manage[m].key = k)}) <= keyErrors
==============================================================================

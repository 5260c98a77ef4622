------------------------------ MODULE Accounts ------------------------------
(***************************************************************************)
(* Users, workspaces, members and invites of the API (AuthService and      *)
(* UsersService).  A request runs from one database call to the next; the  *)
(* calls of concurrent requests interleave, there are no transactions, and *)
(* a request may end in an error between any two of its calls.             *)
(*                                                                         *)
(* A user is an email address, a workspace its slug: both are unique in    *)
(* the database.  A wrong password ends a request as an error does.        *)
(***************************************************************************)
EXTENDS Naturals, FiniteSets

CONSTANTS
    Emails,        \* the people there are
    Slugs,         \* the workspaces there may be
    Clients,       \* requests that run at the same time
    Founders,      \* the admins of the first workspace
    FirstSlug,     \* the first workspace
    MaxRequests,   \* bound: requests made in all
    MaxErrors      \* bound: requests that end in an error half way

ASSUME AccountsAssumption ==
    /\ Founders \subseteq Emails
    /\ FirstSlug \in Slugs
    /\ IsFiniteSet(Emails)
    /\ MaxRequests \in Nat /\ MaxErrors \in Nat

VARIABLES
    users,       \* table users
    workspaces,  \* table workspaces
    members,     \* table workspace_members
    invites,     \* table workspace_invites
    tokens,      \* access tokens in the hands of users
    req,         \* the request each client waits for
    issued,      \* requests made so far, which also numbers the rows
    errors,      \* requests that ended in an error half way
    removed,     \* history: rows deleted from members
    beaten       \* history: users whose new slug was taken during the request

tables == <<users, workspaces, members, invites, tokens>>
accountsVars == <<tables, req, issued, errors, removed, beaten>>

(***************************************************************************)
(* Rows.  Rows are numbered in the order of their creation, so that the    *)
(* number stands for the id, joined_at and created_at.  The roles member   *)
(* and viewer have the same rights here.                                   *)
(***************************************************************************)
Role == {"admin", "member"}
MemberRow == [id : Nat, user : Emails, ws : Slugs, role : Role]
\* seen: history, the invites that were pending when this one was checked.
InviteRow == [id : Nat, email : Emails, ws : Slugs, role : Role,
              accepted : BOOLEAN, expired : BOOLEAN, seen : SUBSET Nat]
JwtPayload == [user : Emails, ws : Slugs, role : Role]

Idle == [op |-> "idle", pc |-> "idle"]
Extend(r, more) ==
    [f \in DOMAIN r \cup DOMAIN more |-> IF f \in DOMAIN more THEN more[f] ELSE r[f]]

\* An admin of a workspace; a member of it.
Admins(w) == {m.user : m \in {n \in members : n.ws = w /\ n.role = "admin"}}
Memberships(u, w) == {m \in members : m.user = u /\ m.ws = w}
Pending(w, u) == {i \in invites : i.ws = w /\ i.email = u /\ ~i.accepted}
InviteOf(id) == CHOOSE i \in invites : i.id = id

(***************************************************************************)
(* What the two controllers let through.                                   *)
(***************************************************************************)
AuthRequests ==
    [op : {"registerTenant"}, email : Emails, ws : Slugs]
    \cup [op : {"login"}, email : Emails]
    \cup [op : {"registerUser"}, invite : {i.id : i \in invites}]
    \cup UNION {[op : {"switchWorkspace"}, email : {t.user}, ws : workspaces] : t \in tokens}

\* JwtAuthGuard trusts the workspace and the role written in the token;
\* RolesGuard asks for the role admin.
AdminRequests(t) ==
    [op : {"createUser", "inviteUser"}, ws : {t.ws}, email : Emails, role : Role]
    \cup [op : {"updateRole"}, ws : {t.ws}, target : Emails, role : Role, actor : {t.user}]
    \cup [op : {"removeMember"}, ws : {t.ws}, target : Emails, actor : {t.user}]
    \cup [op : {"revokeInvite"}, ws : {t.ws}, invite : {i.id : i \in invites}]

UsersRequests == UNION {AdminRequests(t) : t \in {u \in tokens : u.role = "admin"}}

FirstCall(r) ==
    CASE r.op \in {"registerTenant", "login", "createUser", "switchWorkspace"} -> "findUser"
      [] r.op \in {"registerUser", "revokeInvite"} -> "findInvite"
      [] OTHER -> "findMember"

\* No demoting or removing oneself: refused before the first call.
OnOneself(r) ==
    \/ r.op = "updateRole" /\ r.target = r.actor /\ r.role # "admin"
    \/ r.op = "removeMember" /\ r.target = r.actor

AccountsInit ==
    /\ users = Founders
    /\ workspaces = {FirstSlug}
    /\ LET rank == CHOOSE f \in [Founders -> 1..Cardinality(Founders)] :
                      \A u, v \in Founders : f[u] = f[v] => u = v IN
       members = {[id |-> rank[u], user |-> u, ws |-> FirstSlug, role |-> "admin"] : u \in Founders}
    /\ invites = {}
    /\ tokens = {[user |-> u, ws |-> FirstSlug, role |-> "admin"] : u \in Founders}
    /\ req = [c \in Clients |-> Idle]
    /\ issued = 0
    /\ errors = 0
    /\ removed = {}
    /\ beaten = {}

\* The row a request creates has the number of the request.
Request(c) ==
    /\ issued < MaxRequests
    /\ req[c] = Idle
    /\ \E r \in AuthRequests \cup UsersRequests :
         /\ ~OnOneself(r)
         /\ req' = [req EXCEPT ![c] =
                Extend(r, [pc |-> FirstCall(r), id |-> Cardinality(Founders) + issued + 1])]
    /\ issued' = issued + 1
    /\ UNCHANGED <<tables, errors, removed, beaten>>

Answer(c) == req' = [req EXCEPT ![c] = Idle]
At(c, pc) == req' = [req EXCEPT ![c].pc = pc]
Read(c, more) == req' = [req EXCEPT ![c] = Extend(@, more)]

\* A call fails, or the process stops: nothing before it is undone.
Die(c) ==
    /\ errors < MaxErrors
    /\ req[c] # Idle
    /\ Answer(c)
    /\ errors' = errors + 1
    /\ UNCHANGED <<tables, issued, removed, beaten>>

Expire ==
    \E i \in invites :
      /\ ~i.expired
      /\ invites' = (invites \ {i}) \cup {[i EXCEPT !.expired = TRUE]}
      /\ UNCHANGED <<users, workspaces, members, tokens, req, issued, errors, removed, beaten>>

(***************************************************************************)
(* Calls that several handlers make.                                       *)
(***************************************************************************)
\* Variant of InsertMember: the row is built but not saved.
InsertMemberUnsaved(c, user, ws, role) ==
    /\ Memberships(user, ws) = {}
    /\ members' = members

\* memberRepo.save of a new row: one membership per user and workspace.
InsertMember(c, user, ws, role) ==
    /\ Memberships(user, ws) = {}
    /\ members' = members \cup {[id |-> req[c].id, user |-> user, ws |-> ws, role |-> role]}

InsertUser(user) ==
    /\ user \notin users
    /\ users' = users \cup {user}

IssueToken(user, ws, role) ==
    tokens' = tokens \cup {[user |-> user, ws |-> ws, role |-> role]}

\* A violated constraint or a failed check ends the request.
Refuse(c) ==
    /\ Answer(c)
    /\ UNCHANGED <<tables, beaten>>
Proceed(c, pc) ==
    /\ At(c, pc)
    /\ UNCHANGED <<tables, beaten>>

(***************************************************************************)
(* AuthService.                                                            *)
(***************************************************************************)
RegisterTenant(c) ==
    LET r == req[c] IN
    /\ r.op = "registerTenant"
    /\ \/ r.pc = "findUser" /\ r.email \in users /\ Refuse(c)
       \/ r.pc = "findUser" /\ r.email \notin users /\ Proceed(c, "findSlug")
       \/ r.pc = "findSlug" /\ r.ws \in workspaces /\ Refuse(c)
       \/ r.pc = "findSlug" /\ r.ws \notin workspaces /\ Proceed(c, "saveUser")
       \/ r.pc = "saveUser" /\ r.email \in users /\ Refuse(c)
       \/ /\ r.pc = "saveUser"
          /\ InsertUser(r.email)
          /\ At(c, "saveWorkspace")
          /\ UNCHANGED <<workspaces, members, invites, tokens, beaten>>
       \/ /\ r.pc = "saveWorkspace"
          /\ r.ws \in workspaces
          /\ beaten' = beaten \cup {r.email}
          /\ Answer(c)
          /\ UNCHANGED tables
       \/ /\ r.pc = "saveWorkspace"
          /\ r.ws \notin workspaces
          /\ workspaces' = workspaces \cup {r.ws}
          /\ At(c, "saveMember")
          /\ UNCHANGED <<users, members, invites, tokens, beaten>>
       \/ /\ r.pc = "saveMember"
          /\ InsertMember(c, r.email, r.ws, "admin")
          /\ IssueToken(r.email, r.ws, "admin")
          /\ Answer(c)
          /\ UNCHANGED <<users, workspaces, invites, beaten>>
    /\ UNCHANGED <<issued, errors, removed>>

\* The membership of longest standing decides the workspace.
Login(c) ==
    LET r == req[c]
        mine == {m \in members : m.user = r.email}
        first == CHOOSE m \in mine : \A n \in mine : m.id <= n.id IN
    /\ r.op = "login"
    /\ \/ r.pc = "findUser" /\ r.email \notin users /\ Refuse(c)
       \/ r.pc = "findUser" /\ r.email \in users /\ Proceed(c, "findMember")
       \/ r.pc = "findMember" /\ mine = {} /\ Refuse(c)
       \/ /\ r.pc = "findMember"
          /\ mine # {}
          /\ Read(c, [pc |-> "issue", ws |-> first.ws, role |-> first.role])
          /\ UNCHANGED <<tables, beaten>>
       \/ /\ r.pc = "issue"
          /\ IssueToken(r.email, r.ws, r.role)
          /\ Answer(c)
          /\ UNCHANGED <<users, workspaces, members, invites, beaten>>
    /\ UNCHANGED <<issued, errors, removed>>

SwitchWorkspace(c) ==
    LET r == req[c] IN
    /\ r.op = "switchWorkspace"
    /\ \/ r.pc = "findUser" /\ Proceed(c, "findMember")   \* users are never deleted
       \/ r.pc = "findMember" /\ Memberships(r.email, r.ws) = {} /\ Refuse(c)
       \/ /\ r.pc = "findMember"
          /\ \E m \in Memberships(r.email, r.ws) : IssueToken(r.email, r.ws, m.role)
          /\ Answer(c)
          /\ UNCHANGED <<users, workspaces, members, invites, beaten>>
    /\ UNCHANGED <<issued, errors, removed>>

\* The invite is checked first, marked accepted last.
RegisterUser(c) ==
    LET r == req[c]
        found == {i \in invites : i.id = r.invite} IN
    /\ r.op = "registerUser"
    /\ \/ r.pc = "findInvite" /\ (\A i \in found : i.accepted \/ i.expired) /\ Refuse(c)
       \/ /\ r.pc = "findInvite"
          /\ \E i \in found :
               /\ ~i.accepted /\ ~i.expired
               /\ Read(c, [pc |-> "findUser", email |-> i.email, ws |-> i.ws, role |-> i.role])
          /\ UNCHANGED <<tables, beaten>>
       \/ r.pc = "findUser" /\ r.email \in users /\ Proceed(c, "findMember")
       \/ r.pc = "findUser" /\ r.email \notin users /\ Proceed(c, "saveUser")
       \/ r.pc = "findMember" /\ Memberships(r.email, r.ws) # {} /\ Refuse(c)
       \/ r.pc = "findMember" /\ Memberships(r.email, r.ws) = {} /\ Proceed(c, "saveMember")
       \/ r.pc = "saveUser" /\ r.email \in users /\ Refuse(c)
       \/ /\ r.pc = "saveUser"
          /\ InsertUser(r.email)
          /\ At(c, "saveMember")
          /\ UNCHANGED <<workspaces, members, invites, tokens, beaten>>
       \/ r.pc = "saveMember" /\ Memberships(r.email, r.ws) # {} /\ Refuse(c)
       \/ /\ r.pc = "saveMember"
          /\ InsertMember(c, r.email, r.ws, r.role)
          /\ At(c, "accept")
          /\ UNCHANGED <<users, workspaces, invites, tokens, beaten>>
       \/ /\ r.pc = "accept"       \* an update by id: of no row, when it was revoked
          /\ invites' = {IF i.id = r.invite THEN [i EXCEPT !.accepted = TRUE] ELSE i : i \in invites}
          /\ IssueToken(r.email, r.ws, r.role)
          /\ Answer(c)
          /\ UNCHANGED <<users, workspaces, members, beaten>>
    /\ UNCHANGED <<issued, errors, removed>>

(***************************************************************************)
(* UsersService.                                                           *)
(***************************************************************************)
CreateUser(c) ==
    LET r == req[c] IN
    /\ r.op = "createUser"
    /\ \/ r.pc = "findUser" /\ r.email \in users /\ Proceed(c, "findMember")
       \/ r.pc = "findUser" /\ r.email \notin users /\ Proceed(c, "saveUser")
       \/ r.pc = "findMember" /\ Memberships(r.email, r.ws) # {} /\ Refuse(c)
       \/ r.pc = "findMember" /\ Memberships(r.email, r.ws) = {} /\ Proceed(c, "saveMember")
       \/ r.pc = "saveUser" /\ r.email \in users /\ Refuse(c)
       \/ /\ r.pc = "saveUser"
          /\ InsertUser(r.email)
          /\ At(c, "saveMember")
          /\ UNCHANGED <<workspaces, members, invites, tokens, beaten>>
       \/ r.pc = "saveMember" /\ Memberships(r.email, r.ws) # {} /\ Refuse(c)
       \/ /\ r.pc = "saveMember"
          /\ InsertMember(c, r.email, r.ws, r.role)
          /\ Answer(c)
          /\ UNCHANGED <<users, workspaces, invites, tokens, beaten>>
    /\ UNCHANGED <<issued, errors, removed>>

\* Variant of Blocks: no pending invite stands in the way.
BlocksNot(i) == FALSE

\* findOne returns any one of the pending invites, and an expired one does not
\* stand in the way.
Blocks(i) == ~i.expired

InviteUser(c) ==
    LET r == req[c]
        pending == Pending(r.ws, r.email) IN
    /\ r.op = "inviteUser"
    /\ \/ r.pc = "findMember" /\ Memberships(r.email, r.ws) # {} /\ Refuse(c)
       \/ r.pc = "findMember" /\ Memberships(r.email, r.ws) = {} /\ Proceed(c, "findPending")
       \/ r.pc = "findPending" /\ (\E i \in pending : Blocks(i)) /\ Refuse(c)
       \/ /\ r.pc = "findPending"
          /\ pending = {} \/ \E i \in pending : ~Blocks(i)
          /\ Read(c, [pc |-> "saveInvite", seen |-> {i.id : i \in pending}])
          /\ UNCHANGED <<tables, beaten>>
       \/ /\ r.pc = "saveInvite"
          /\ invites' = invites \cup
                {[id |-> r.id, email |-> r.email, ws |-> r.ws, role |-> r.role,
                  accepted |-> FALSE, expired |-> FALSE, seen |-> r.seen]}
          /\ Answer(c)
          /\ UNCHANGED <<users, workspaces, members, tokens, beaten>>
    /\ UNCHANGED <<issued, errors, removed>>

\* Variant of LastAdmin: the last admin does not count.
NoAdmin(admins) == admins = {}

\* "Cannot remove the last admin": adminCount <= 1.
LastAdmin(admins) == Cardinality(admins) <= 1

\* The member is read (row), the admins are counted (seen) if it is one, the
\* row is written.  save() of a row that is gone inserts it again, unless the
\* user has another membership by then.
UpdateRole(c) ==
    LET r == req[c]
        mine == Memberships(r.target, r.ws)
        old == {m \in members : m.id = r.row.id} IN
    /\ r.op = "updateRole"
    /\ \/ r.pc = "findMember" /\ mine = {} /\ Refuse(c)
       \/ /\ r.pc = "findMember"
          /\ \E m \in mine :
               Read(c, [pc |-> IF m.role = "admin" /\ r.role # "admin" THEN "count" ELSE "save",
                        row |-> m, seen |-> {}])
          /\ UNCHANGED <<tables, beaten>>
       \/ r.pc = "count" /\ LastAdmin(Admins(r.ws)) /\ Refuse(c)
       \/ /\ r.pc = "count"
          /\ ~LastAdmin(Admins(r.ws))
          /\ Read(c, [pc |-> "save", seen |-> Admins(r.ws)])
          /\ UNCHANGED <<tables, beaten>>
       \/ r.pc = "save" /\ old = {} /\ mine # {} /\ Refuse(c)
       \/ /\ r.pc = "save"
          /\ old # {} \/ mine = {}
          /\ members' = (members \ old) \cup {[r.row EXCEPT !.role = r.role]}
          /\ Answer(c)
          /\ UNCHANGED <<users, workspaces, invites, tokens, beaten>>
    /\ UNCHANGED <<issued, errors, removed>>

RemoveMember(c) ==
    LET r == req[c]
        mine == Memberships(r.target, r.ws)
        old == {m \in members : m.id = r.row.id} IN
    /\ r.op = "removeMember"
    /\ \/ r.pc = "findMember" /\ mine = {} /\ Refuse(c) /\ UNCHANGED removed
       \/ /\ r.pc = "findMember"
          /\ \E m \in mine :
               Read(c, [pc |-> IF m.role = "admin" THEN "count" ELSE "delete",
                        row |-> m, seen |-> {}])
          /\ UNCHANGED <<tables, beaten, removed>>
       \/ r.pc = "count" /\ LastAdmin(Admins(r.ws)) /\ Refuse(c) /\ UNCHANGED removed
       \/ /\ r.pc = "count"
          /\ ~LastAdmin(Admins(r.ws))
          /\ Read(c, [pc |-> "delete", seen |-> Admins(r.ws)])
          /\ UNCHANGED <<tables, beaten, removed>>
       \/ /\ r.pc = "delete"
          /\ members' = members \ old
          /\ removed' = removed \cup old
          /\ Answer(c)
          /\ UNCHANGED <<users, workspaces, invites, tokens, beaten>>
    /\ UNCHANGED <<issued, errors>>

RevokeInvite(c) ==
    LET r == req[c] IN
    /\ r.op = "revokeInvite"
    /\ \/ r.pc = "findInvite" /\ (\A i \in invites : i.id = r.invite => i.ws # r.ws) /\ Refuse(c)
       \/ /\ r.pc = "findInvite"
          /\ \E i \in invites : i.id = r.invite /\ i.ws = r.ws
          /\ Proceed(c, "delete")
       \/ /\ r.pc = "delete"
          /\ invites' = {i \in invites : i.id # r.invite}
          /\ Answer(c)
          /\ UNCHANGED <<users, workspaces, members, tokens, beaten>>
    /\ UNCHANGED <<issued, errors, removed>>

AccountsNext ==
    \/ Expire
    \/ \E c \in Clients :
         \/ Request(c) \/ Die(c)
         \/ RegisterTenant(c) \/ Login(c) \/ SwitchWorkspace(c) \/ RegisterUser(c)
         \/ CreateUser(c) \/ InviteUser(c)
         \/ UpdateRole(c) \/ RemoveMember(c) \/ RevokeInvite(c)

AccountsSpec == AccountsInit /\ [][AccountsNext]_accountsVars

(***************************************************************************)
(* Properties.                                                             *)
(***************************************************************************)
\* What a role change or a removal read is no longer so when it writes.
Overtaken(c, w) ==
    /\ req[c].op \in {"updateRole", "removeMember"}
    /\ req[c].ws = w
    /\ req[c].pc \in {"save", "delete"}
    /\ req[c].row \notin members \/ req[c].seen # Admins(w)

\* A workspace loses its last admin only by a request that another one
\* overtook between its reads and its write: counting the admins and writing
\* the row are separate calls (updateRole, removeMember).
AdminLostByOverlap ==
    [][\A w \in Slugs :
         Admins(w) # {} /\ Admins(w)' = {} => \E c \in Clients : Overtaken(c, w)]_accountsVars

\* Two invites of one person to one workspace are both valid only if the
\* second was checked before the first was saved, or when an expired invite,
\* which the check may find instead, was still there.
DuplicateInvites ==
    \A i, j \in invites :
      /\ i.id # j.id /\ i.ws = j.ws /\ i.email = j.email
      /\ ~i.accepted /\ ~j.accepted /\ ~i.expired /\ ~j.expired
      => \/ i.id \notin j.seen /\ j.id \notin i.seen
         \/ \E k \in (i.seen \cup j.seen) \ {i.id, j.id} : TRUE

\* Someone without any membership, past or present, and without a request
\* under way that will give one: no login, and the address is taken.
Stranded ==
    {u \in users :
       /\ \A m \in members \cup removed : m.user # u
       /\ \A c \in Clients : req[c].pc \in {"saveWorkspace", "saveMember"} => req[c].email # u}

\* An account without a workspace is the work of an error half way through a
\* registration, one account for each error, or of two registrations that
\* wanted the same slug at the same time.
StrandedExplained == Cardinality(Stranded \ beaten) <= errors
==============================================================================

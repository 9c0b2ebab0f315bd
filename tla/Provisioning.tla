---------------------------- MODULE Provisioning ----------------------------
(***************************************************************************)
(* Who may do what: organizations, accounts, roles and their permissions.  *)
(* The requests of modules/organization, modules/rbac and the part of      *)
(* modules/user that grants roles, and the seeding command of              *)
(* database/seeds, over the tables organizations, users, roles,            *)
(* role_permissions and user_roles.                                        *)
(*                                                                         *)
(* No request runs in a transaction: what a handler does between two       *)
(* awaits is one step, and other handlers run in between. A failed         *)
(* statement ends its request and leaves what the earlier ones wrote. All  *)
(* roles have organizationId NULL: POST /roles and the seeds pass none.    *)
(* The system roles are those the seeds create; a PUT /roles/:id whose     *)
(* body sets isSystem is left out.                                         *)
(***************************************************************************)
EXTENDS Integers, FiniteSets

CONSTANTS
  Proc,          \* request handlers of all the replicas, and the seeding command
  User,          \* accounts, by their unique e-mail
  Org,           \* organizations, by their unique slug
  Role,          \* rows of roles
  Admin,         \* the account the seeds create
  DefaultRole,   \* the roles the seeds create
  SuperRole, OrgAdminRole, \* two of them: super_admin and org_admin
  Perm,          \* permissions
  Name,          \* names of roles
  Ref,           \* bound on the ids and names the requests about accounts use
  NameOf,        \* the names of the default roles
  DefaultPerm,   \* their permissions
  None,          \* no role, no name, no organization, no account
  MaxRequests    \* bound on the requests served

ASSUME ProcAssumption == IsFiniteSet(Proc) /\ Proc # {}
ASSUME SeedAssumption ==
  /\ Admin \in User
  /\ DefaultRole \subseteq Role /\ {SuperRole, OrgAdminRole} \subseteq DefaultRole
  /\ NameOf \in [DefaultRole -> Name]
  /\ \A r, s \in DefaultRole : NameOf[r] = NameOf[s] => r = s
  /\ DefaultPerm \in [DefaultRole -> SUBSET Perm]
  /\ {"user:manage", "organization:manage"} \subseteq Perm
ASSUME NoneAssumption == None \notin Role \cup Name \cup Org \cup User \cup {"absent"}
ASSUME KindAssumption ==
  /\ {"absent", "unborn", "gone"} \cap (Org \cup Name) = {}
  /\ Role \cap Name = {}
ASSUME BoundAssumption == MaxRequests \in Nat /\ Ref \subseteq Role \cup Name

VARIABLES
  orgs,      \* the organizations there are
  member,    \* users.organization_id, "absent" when there is no such account
  name,      \* roles.name, "unborn" before the row is inserted, "gone" after its deletion
  perms,     \* role_permissions: the permissions of each role
  grants,    \* user_roles: <<user, role, organization or None>>
  pc,        \* the statement a handler runs next, or its last answer
  req,       \* the request it serves
  found,     \* the role it resolved
  left,      \* the rows it has yet to delete, or the roles it has yet to seed
  loaded,    \* organization_id of the account it holds
  since,     \* for the properties: the rows inserted since its request began
  alone,     \* for the properties: no other request ran at the same time
  served     \* the number of requests so far

tables == <<orgs, member, name, perms, grants>>
locals == <<found, left, loaded>>
vars == <<orgs, member, name, perms, grants, pc, req, found, left, loaded,
          since, alone, served>>

Grant == User \X Role \X (Org \cup {None})
RolePerm == Role \X Perm

Kind == {"createOrg", "createUser", "updateUser", "assign", "remove", "setPerms",
         "createRole", "updateRole", "deleteRole", "invite", "seed"}

\* A role is referred to by its id or by its name.
Request == [kind: Kind, user: User \cup {None}, org: Org \cup {None},
            role: Role \cup Name \cup {None}, name: Name \cup {None}, perms: SUBSET Perm]

NoReq == [kind |-> "seed", user |-> None, org |-> None, role |-> None, name |-> None,
          perms |-> {}]

Answers == {"ok", "error"}

Steps == Answers \cup {"idle", "org.find", "org.insert", "user.find", "user.insert",
          "role.byName", "roles.list", "roles.remove", "assign.role", "assign.existing", "assign.insert",
          "user.load", "user.save", "grant.delete", "perms.role", "perms.delete",
          "perms.insert", "role.find", "role.insert", "role.load", "role.save",
          "role.remove", "seed.role", "seed.delete", "seed.insert", "seed.admin",
          "seed.user", "seed.grant"}

\* The tables and the handlers' local state have their types.
TypeOK ==
  /\ orgs \in SUBSET Org
  /\ member \in [User -> Org \cup {None, "absent"}]
  /\ name \in [Role -> Name \cup {"unborn", "gone"}]
  /\ perms \in [Role -> SUBSET Perm]
  /\ grants \in SUBSET Grant
  /\ pc \in [Proc -> Steps]
  /\ req \in [Proc -> Request]
  /\ found \in [Proc -> Role \cup {None}]
  /\ left \in [Proc -> (SUBSET Grant) \cup (SUBSET Role)]
  /\ loaded \in [Proc -> Org \cup {None, "absent"}]
  /\ since \in [Proc -> SUBSET (Grant \cup RolePerm)]
  /\ alone \in [Proc -> BOOLEAN]
  /\ served \in 0..MaxRequests

Exists(r) == name[r] \in Name
Known == {r \in Role : name[r] # "unborn"}
Busy(p) == pc[p] \notin Answers \cup {"idle"}
RowsOf(u) == {g \in grants : g[1] = u}
PermRows(r, S) == {<<r, x>> : x \in S}

\* rbac.repository: what the roles of an account allow, in whatever organization.
Effective(u) == UNION {perms[g[2]] : g \in RowsOf(u)}

\* JwtStrategy and RbacGuard let a request in when its sender holds the permission
\* the route asks for, and look at it once. The routes of users ask for an account.
Admitted(k) ==
  \E u \in User :
    /\ member[u] # "absent"
    /\ CASE k \in {"createOrg", "invite"} -> "organization:manage" \in Effective(u)
         [] k \in {"createUser", "updateUser"} -> TRUE
         [] OTHER -> "user:manage" \in Effective(u)

Seeded ==
  /\ member = [u \in User |-> IF u = Admin THEN None ELSE "absent"]
  /\ name = [r \in Role |-> IF r \in DefaultRole THEN NameOf[r] ELSE "unborn"]
  /\ perms = [r \in Role |-> IF r \in DefaultRole THEN DefaultPerm[r] ELSE {}]
  /\ grants = {<<Admin, SuperRole, None>>}

Empty ==
  /\ member = [u \in User |-> "absent"]
  /\ name = [r \in Role |-> "unborn"]
  /\ perms = [r \in Role |-> {}]
  /\ grants = {}

Init ==
  /\ Seeded \/ Empty
  /\ orgs = {}
  /\ pc = [p \in Proc |-> "idle"]
  /\ req = [p \in Proc |-> NoReq]
  /\ found = [p \in Proc |-> None]
  /\ left = [p \in Proc |-> {}]
  /\ loaded = [p \in Proc |-> "absent"]
  /\ since = [p \in Proc |-> {}]
  /\ alone = [p \in Proc |-> FALSE]
  /\ served = 0

-----------------------------------------------------------------------------
\* Steps of handlers.

At(p, step) == pc[p] = step /\ UNCHANGED served

Goto(p, step) == pc' = [pc EXCEPT ![p] = step] /\ UNCHANGED <<req, alone>>

Continues(p, step) == Goto(p, step) /\ UNCHANGED locals

\* Rows are inserted; every request that goes on sees them as newer than itself.
Writes(rows) ==
  since' = [q \in Proc |-> IF pc'[q] \in Answers \cup {"idle"} THEN {}
                           ELSE since[q] \cup rows]

\* The handler answers, or dies, and holds nothing any more.
Ends(p, last) ==
  /\ pc' = [pc EXCEPT ![p] = last]
  /\ req' = [req EXCEPT ![p] = NoReq]
  /\ alone' = [alone EXCEPT ![p] = FALSE]
  /\ found' = [found EXCEPT ![p] = None]
  /\ left' = [left EXCEPT ![p] = {}]
  /\ loaded' = [loaded EXCEPT ![p] = "absent"]

First(q) ==
  CASE q.kind \in {"createOrg", "invite"} -> "org.find"
    [] q.kind = "createUser" -> "user.find"
    [] q.kind = "updateUser" ->
         \* a role is reassigned when the request has one; an id needs no look-up
         IF q.role = None THEN "user.load"
         ELSE IF q.role \in Role THEN "roles.list" ELSE "role.byName"
    [] q.kind = "assign" -> "assign.role"
    [] q.kind = "remove" -> "grant.delete"
    [] q.kind = "setPerms" -> "perms.role"
    [] q.kind = "createRole" -> "role.find"
    [] q.kind \in {"updateRole", "deleteRole"} -> "role.load"
    [] q.kind = "seed" -> "seed.role"

Start(p, q) ==
  /\ ~Busy(p)
  /\ served < MaxRequests /\ served' = served + 1
  /\ pc' = [pc EXCEPT ![p] = First(q)]
  /\ req' = [req EXCEPT ![p] = q]
  /\ found' = [found EXCEPT ![p] = IF q.role \in Role THEN q.role ELSE None]
  /\ left' = [left EXCEPT ![p] = IF q.kind = "seed" THEN DefaultRole ELSE {}]
  /\ alone' = [o \in Proc |-> o = p /\ \A b \in Proc : ~Busy(b)]
  /\ UNCHANGED <<tables, loaded, since>>

-----------------------------------------------------------------------------
\* Requests, as their controllers pass them on.

Ask(p, k) == Admitted(k) /\ ~Busy(p)

\* POST /organizations/with-admin: the account becomes the organization's admin.
AskCreateOrg(p, o, u) ==
  Ask(p, "createOrg") /\ Start(p, [NoReq EXCEPT !.kind = "createOrg", !.org = o, !.user = u])

\* POST /users; the dashboard refers to roles by their names.
AskCreateUser(p, u, r, o) ==
  /\ Ask(p, "createUser")
  /\ Start(p, [NoReq EXCEPT !.kind = "createUser", !.user = u, !.role = r, !.org = o])

\* PUT /users/:id
AskUpdateUser(p, u, r) ==
  /\ Ask(p, "updateUser")
  /\ Start(p, [NoReq EXCEPT !.kind = "updateUser", !.user = u, !.role = r])

\* POST and DELETE /users/:userId/roles, which pass no organization.
AskAssign(p, u, r) ==
  \E k \in {"assign", "remove"} :
    Ask(p, k) /\ Start(p, [NoReq EXCEPT !.kind = k, !.user = u, !.role = r])

\* POST /roles/:id/permissions
AskSetPerms(p, r, S) ==
  Ask(p, "setPerms") /\ Start(p, [NoReq EXCEPT !.kind = "setPerms", !.role = r, !.perms = S])

\* POST /roles, PUT and DELETE /roles/:id
AskCreateRole(p, n) ==
  Ask(p, "createRole") /\ Start(p, [NoReq EXCEPT !.kind = "createRole", !.name = n])
AskUpdateRole(p, r, n) ==
  Ask(p, "updateRole") /\ Start(p, [NoReq EXCEPT !.kind = "updateRole", !.role = r, !.name = n])
AskDeleteRole(p, r) ==
  Ask(p, "deleteRole") /\ Start(p, [NoReq EXCEPT !.kind = "deleteRole", !.role = r])

\* POST /organizations/:id/invite
AskInvite(p, o, u) ==
  Ask(p, "invite") /\ Start(p, [NoReq EXCEPT !.kind = "invite", !.org = o, !.user = u])

\* The seeding command, run again on a database in use or not; one at a time.
RunSeeds(p) ==
  /\ ~Busy(p) /\ \A q \in Proc : ~(Busy(q) /\ req[q].kind = "seed")
  /\ Start(p, [NoReq EXCEPT !.kind = "seed"])

-----------------------------------------------------------------------------
\* organization.service.ts

\* The look-up of the slug or, for an invitation, of the organization.
FindOrg(p) ==
  /\ At(p, "org.find")
  /\ IF (req[p].org \in orgs) = (req[p].kind = "invite")
     THEN Continues(p, IF req[p].kind = "invite" THEN "user.load" ELSE "org.insert")
     ELSE Ends(p, "error")
  /\ Writes({}) /\ UNCHANGED tables

\* The unique index on slug refuses the second of two.
InsertOrg(p) ==
  /\ At(p, "org.insert")
  /\ IF req[p].org \in orgs THEN Ends(p, "error") /\ UNCHANGED orgs
     ELSE orgs' = orgs \cup {req[p].org} /\ Continues(p, "user.find")
  /\ Writes({}) /\ UNCHANGED <<member, name, perms, grants>>

-----------------------------------------------------------------------------
\* user.service.ts

\* create and createOrgAdmin look the e-mail up ...
FindUser(p) ==
  /\ At(p, "user.find")
  /\ IF member[req[p].user] # "absent" THEN Ends(p, "error") ELSE Continues(p, "user.insert")
  /\ Writes({}) /\ UNCHANGED tables

\* Mutant: the account is saved before it joins its organization.
InsertLoner(p) ==
  /\ At(p, "user.insert")
  /\ LET u == req[p].user IN
     IF member[u] # "absent" \/ req[p].org \notin orgs \cup {None}
     THEN Ends(p, "error") /\ UNCHANGED member
     ELSE /\ member' = [member EXCEPT ![u] = None]
          /\ loaded' = [loaded EXCEPT ![p] = None]
          /\ Goto(p, IF req[p].kind = "createOrg" THEN "role.byName"
                     ELSE IF req[p].role = None THEN "user.save"
                     ELSE IF req[p].role \in Role THEN "assign.role" ELSE "role.byName")
          /\ UNCHANGED <<found, left>>
  /\ Writes({}) /\ UNCHANGED <<orgs, name, perms, grants>>

\* ... and insert the account, unless its e-mail is taken by now or there is no such
\* organization. createOrgAdmin then takes the role named org_admin.
InsertUser(p) ==
  /\ At(p, "user.insert")
  /\ LET u == req[p].user IN
     IF member[u] # "absent" \/ req[p].org \notin orgs \cup {None}
     THEN Ends(p, "error") /\ UNCHANGED member
     ELSE /\ member' = [member EXCEPT ![u] = req[p].org]
          /\ loaded' = [loaded EXCEPT ![p] = req[p].org]
          /\ Goto(p, IF req[p].kind = "createOrg" THEN "role.byName"
                     ELSE IF req[p].role = None THEN "user.save"
                     ELSE IF req[p].role \in Role THEN "assign.role" ELSE "role.byName")
          /\ UNCHANGED <<found, left>>
  /\ Writes({}) /\ UNCHANGED <<orgs, name, perms, grants>>

\* update and inviteMember load the account, ...
LoadUser(p) ==
  /\ At(p, "user.load")
  /\ IF member[req[p].user] = "absent" THEN Ends(p, "error")
     ELSE /\ Goto(p, "user.save")
          /\ loaded' = [loaded EXCEPT
               ![p] = IF req[p].kind = "invite" THEN req[p].org ELSE member[req[p].user]]
          /\ UNCHANGED <<found, left>>
  /\ Writes({}) /\ UNCHANGED tables

\* ... and save what they hold; so does createUser, for the verification token. A save
\* writes the columns that differ from the row: a stale organization comes back.
SaveUser(p) ==
  /\ At(p, "user.save")
  /\ member' = [member EXCEPT ![req[p].user] = loaded[p]]
  /\ Ends(p, "ok")
  /\ Writes({}) /\ UNCHANGED <<orgs, name, perms, grants>>

-----------------------------------------------------------------------------
\* Granting roles: rbac.service.ts, user.controller.ts

\* getRoleByName takes a role with that name, of several any one. Without it
\* createWithAdmin is done; elsewhere the name is then taken for an id.
RoleByName(p) ==
  /\ At(p, "role.byName")
  /\ LET n == IF req[p].kind = "createOrg" THEN NameOf[OrgAdminRole] ELSE req[p].role
         named == {r \in Role : name[r] = n}
         next == IF req[p].kind = "updateUser" THEN "roles.list" ELSE "assign.role"
     IN \/ \E r \in named :
             found' = [found EXCEPT ![p] = r] /\ Goto(p, next) /\ UNCHANGED <<left, loaded>>
        \/ /\ named = {}
           /\ IF req[p].kind = "createOrg" THEN Ends(p, "ok") ELSE Continues(p, next)
  /\ Writes({}) /\ UNCHANGED tables

\* updateUser lists the roles the account has, ...
ListRoles(p) ==
  /\ At(p, "roles.list")
  /\ left' = [left EXCEPT ![p] = RowsOf(req[p].user)]
  /\ Goto(p, "roles.remove") /\ UNCHANGED <<found, loaded>>
  /\ Writes({}) /\ UNCHANGED tables

\* ... deletes them one by one ...
RemoveListed(p) ==
  /\ At(p, "roles.remove")
  /\ \/ \E g \in left[p] :
          /\ grants' = grants \ {g}
          /\ left' = [left EXCEPT ![p] = @ \ {g}]
          /\ Goto(p, "roles.remove") /\ UNCHANGED <<found, loaded>>
     \/ left[p] = {} /\ Continues(p, "assign.role") /\ UNCHANGED grants
  /\ Writes({}) /\ UNCHANGED <<orgs, member, name, perms>>

\* ... and assigns the new one. assignRoleToUser loads the role ...
AssignRole(p) ==
  /\ At(p, "assign.role")
  /\ IF found[p] # None /\ Exists(found[p]) THEN Continues(p, "assign.existing")
     ELSE Ends(p, "error")
  /\ Writes({}) /\ UNCHANGED tables

\* Only the two that create the account pass an organization.
Assigned(p) ==
  <<req[p].user, found[p],
    IF req[p].kind \in {"createOrg", "createUser"} THEN req[p].org ELSE None>>

AfterAssign(p) ==
  IF req[p].kind = "createUser" THEN Continues(p, "user.save")
  ELSE IF req[p].kind = "updateUser" THEN Continues(p, "user.load")
  ELSE Ends(p, "ok")

\* ... and its row, if the account has the role already ...
AssignExisting(p) ==
  /\ At(p, "assign.existing")
  /\ IF Assigned(p) \in grants THEN AfterAssign(p) ELSE Continues(p, "assign.insert")
  /\ Writes({}) /\ UNCHANGED tables

\* Mutant: no foreign key to roles.
InsertLoose(p) ==
  /\ At(p, "assign.insert")
  /\ LET g == Assigned(p) IN
     IF member[g[1]] = "absent" \/ (g[3] # None /\ g \in grants)
     THEN Ends(p, "error") /\ Writes({}) /\ UNCHANGED grants
     ELSE grants' = grants \cup {g} /\ AfterAssign(p) /\ Writes({g})
  /\ UNCHANGED <<orgs, member, name, perms>>

\* ... and inserts it. The foreign keys need the account and the role, and the unique
\* index refuses a second row; a NULL organization is never equal to another, so the
\* rows without one are not refused and two of them count as one here.
AssignInsert(p) ==
  /\ At(p, "assign.insert")
  /\ LET g == Assigned(p) IN
     IF \/ member[g[1]] = "absent" \/ ~Exists(g[2])
        \/ g[3] # None /\ g \in grants
     THEN Ends(p, "error") /\ Writes({}) /\ UNCHANGED grants
     ELSE grants' = grants \cup {g} /\ AfterAssign(p) /\ Writes({g})
  /\ UNCHANGED <<orgs, member, name, perms>>

\* removeRoleFromUser
DeleteGrant(p) ==
  /\ At(p, "grant.delete")
  /\ grants' = grants \ {<<req[p].user, req[p].role, None>>}
  /\ Ends(p, "ok")
  /\ Writes({}) /\ UNCHANGED <<orgs, member, name, perms>>

-----------------------------------------------------------------------------
\* The permissions of a role: rbac.service.ts, roles.seed.ts

\* assignPermissionsToRole loads the role, ...
PermsRole(p) ==
  /\ At(p, "perms.role")
  /\ IF Exists(req[p].role) THEN Continues(p, "perms.delete") ELSE Ends(p, "error")
  /\ Writes({}) /\ UNCHANGED tables

\* Mutant: only the permissions about to be inserted are deleted.
DeleteAsked(p) ==
  /\ At(p, "perms.delete")
  /\ perms' = [perms EXCEPT ![req[p].role] = @ \ req[p].perms]
  /\ Continues(p, "perms.insert")
  /\ Writes({}) /\ UNCHANGED <<orgs, member, name, grants>>

\* ... deletes its permissions ...
PermsDelete(p) ==
  /\ At(p, "perms.delete")
  /\ perms' = [perms EXCEPT ![req[p].role] = {}]
  /\ Continues(p, "perms.insert")
  /\ Writes({}) /\ UNCHANGED <<orgs, member, name, grants>>

\* ... and inserts the new ones in one statement: all of them, or none when the role
\* is gone or another request has inserted one of them.
PermsInsert(p) ==
  /\ At(p, "perms.insert")
  /\ LET r == req[p].role  S == req[p].perms IN
     IF S # {} /\ (~Exists(r) \/ S \cap perms[r] # {})
     THEN Ends(p, "error") /\ Writes({}) /\ UNCHANGED perms
     ELSE /\ perms' = [perms EXCEPT ![r] = @ \cup S]
          /\ Ends(p, "ok") /\ Writes(PermRows(r, S))
  /\ UNCHANGED <<orgs, member, name, grants>>

-----------------------------------------------------------------------------
\* Roles: rbac.service.ts

FindRole(p) ==
  /\ At(p, "role.find")
  /\ IF \E r \in Role : name[r] = req[p].name THEN Ends(p, "error")
     ELSE Continues(p, "role.insert")
  /\ Writes({}) /\ UNCHANGED tables

\* No index makes names unique. The role gets a fresh id.
InsertRole(p) ==
  /\ At(p, "role.insert")
  /\ \E r \in Role \ DefaultRole :
       name[r] = "unborn" /\ name' = [name EXCEPT ![r] = req[p].name]
  /\ Ends(p, "ok")
  /\ Writes({}) /\ UNCHANGED <<orgs, member, perms, grants>>

\* updateRole and deleteRole refuse the system roles.
LoadRole(p) ==
  /\ At(p, "role.load")
  /\ IF Exists(req[p].role) /\ req[p].role \notin DefaultRole
     THEN Continues(p, IF req[p].kind = "updateRole" THEN "role.save" ELSE "role.remove")
     ELSE Ends(p, "error")
  /\ Writes({}) /\ UNCHANGED tables

\* The role takes the new name, whoever has it already. Saving a role that was deleted
\* meanwhile inserts it again.
SaveRole(p) ==
  /\ At(p, "role.save")
  /\ name' = [name EXCEPT ![req[p].role] = req[p].name]
  /\ Ends(p, "ok")
  /\ Writes({}) /\ UNCHANGED <<orgs, member, perms, grants>>

\* Mutant: the row stays, marked.
MarkRole(p) ==
  /\ At(p, "role.remove")
  /\ name' = [name EXCEPT ![req[p].role] = "deleted"]
  /\ Ends(p, "ok")
  /\ Writes({}) /\ UNCHANGED <<orgs, member, perms, grants>>

\* The deletion cascades to the role's permissions and to the accounts that have it.
RemoveRole(p) ==
  /\ At(p, "role.remove")
  /\ LET r == req[p].role IN
     /\ name' = [name EXCEPT ![r] = "gone"]
     /\ perms' = [perms EXCEPT ![r] = {}]
     /\ grants' = {g \in grants : g[2] # r}
  /\ Ends(p, "ok")
  /\ Writes({}) /\ UNCHANGED <<orgs, member>>

-----------------------------------------------------------------------------
\* database/seeds: every default role in turn, then the administrator.

SeedRole(p) ==
  /\ At(p, "seed.role")
  /\ \/ \E r \in left[p] :
          /\ name' = [name EXCEPT ![r] = NameOf[r]]
          /\ found' = [found EXCEPT ![p] = r]
          /\ left' = [left EXCEPT ![p] = @ \ {r}]
          /\ Goto(p, "seed.delete") /\ UNCHANGED loaded
     \/ left[p] = {} /\ Continues(p, "seed.admin") /\ UNCHANGED name
  /\ Writes({}) /\ UNCHANGED <<orgs, member, perms, grants>>

SeedDelete(p) ==
  /\ At(p, "seed.delete")
  /\ perms' = [perms EXCEPT ![found[p]] = {}]
  /\ Continues(p, "seed.insert")
  /\ Writes({}) /\ UNCHANGED <<orgs, member, name, grants>>

\* A collision with another request ends the command.
SeedInsert(p) ==
  /\ At(p, "seed.insert")
  /\ LET r == found[p]  S == DefaultPerm[r] IN
     IF S \cap perms[r] # {} THEN Ends(p, "error") /\ Writes({}) /\ UNCHANGED perms
     ELSE /\ perms' = [perms EXCEPT ![r] = @ \cup S]
          /\ Continues(p, "seed.role") /\ Writes(PermRows(r, S))
  /\ UNCHANGED <<orgs, member, name, grants>>

\* Mutant: the account is inserted without a look.
SeedBlindly(p) ==
  /\ At(p, "seed.admin")
  /\ Continues(p, "seed.user")
  /\ Writes({}) /\ UNCHANGED tables

\* An administrator that exists is left as he is, with or without the role.
SeedAdmin(p) ==
  /\ At(p, "seed.admin")
  /\ IF member[Admin] = "absent" THEN Continues(p, "seed.user") ELSE Ends(p, "ok")
  /\ Writes({}) /\ UNCHANGED tables

SeedUser(p) ==
  /\ At(p, "seed.user")
  /\ IF member[Admin] # "absent" THEN Ends(p, "error") /\ UNCHANGED member
     ELSE member' = [member EXCEPT ![Admin] = None] /\ Continues(p, "seed.grant")
  /\ Writes({}) /\ UNCHANGED <<orgs, name, perms, grants>>

SeedGrant(p) ==
  /\ At(p, "seed.grant")
  /\ grants' = grants \cup {<<Admin, SuperRole, None>>}
  /\ Ends(p, "ok")
  /\ Writes({<<Admin, SuperRole, None>>}) /\ UNCHANGED <<orgs, member, name, perms>>

-----------------------------------------------------------------------------

\* A replica stops, the command is interrupted, or the database cannot be reached.
Crash(p) ==
  /\ Busy(p) /\ UNCHANGED served
  /\ Ends(p, "idle")
  /\ Writes({}) /\ UNCHANGED tables

Begin(p) ==
  \/ \E o \in Org, u \in User : AskCreateOrg(p, o, u) \/ AskInvite(p, o, u)
  \/ \E u \in User, r \in ((Known \cup Name) \cap Ref) \cup {None} :
       AskUpdateUser(p, u, r) \/ \E o \in Org \cup {None} : AskCreateUser(p, u, r, o)
  \/ \E n \in Name : AskCreateRole(p, n)
  \/ \E r \in Known :
       \/ \E u \in User : AskAssign(p, u, r)
       \/ \E S \in SUBSET Perm : AskSetPerms(p, r, S)
       \/ \E n \in Name : AskUpdateRole(p, r, n)
       \/ AskDeleteRole(p, r)
  \/ RunSeeds(p)

Proceed(p) ==
  \/ FindOrg(p) \/ InsertOrg(p) \/ FindUser(p) \/ InsertUser(p) \/ LoadUser(p) \/ SaveUser(p)
  \/ RoleByName(p) \/ ListRoles(p) \/ RemoveListed(p)
  \/ AssignRole(p) \/ AssignExisting(p) \/ AssignInsert(p) \/ DeleteGrant(p)
  \/ PermsRole(p) \/ PermsDelete(p) \/ PermsInsert(p)
  \/ FindRole(p) \/ InsertRole(p) \/ LoadRole(p) \/ SaveRole(p) \/ RemoveRole(p)
  \/ SeedRole(p) \/ SeedDelete(p) \/ SeedInsert(p)
  \/ SeedAdmin(p) \/ SeedUser(p) \/ SeedGrant(p)

\* All the requests of the bound have been served.
Rest ==
  /\ served = MaxRequests /\ \A p \in Proc : ~Busy(p)
  /\ UNCHANGED vars

Next == Rest \/ \E p \in Proc : Begin(p) \/ Proceed(p) \/ Crash(p)

Spec == Init /\ [][Next]_vars

-----------------------------------------------------------------------------
\* Properties.

\* A role that was deleted, or not made yet, gives nobody anything, although requests
\* that loaded it before go on to grant it, to fill it or to save it again.
AbsentRolesGrantNothing ==
  \A r \in Role : ~Exists(r) => perms[r] = {} /\ \A g \in grants : g[2] # r

\* The roles of an account after a step.
RowsAfter(u) == {g \in grants' : g[1] = u}

\* The role a request means, by its id or its name.
Means(ref, r) == r = ref \/ name'[r] = ref

\* What a request is answered "ok" for.
Fulfilled(q) ==
  CASE q.kind = "createOrg" ->
         /\ q.org \in orgs' /\ member'[q.user] = q.org
         /\ LET admins == {r \in Role : name'[r] = NameOf[OrgAdminRole]} IN
            admins = {} \/ \E r \in admins : <<q.user, r, q.org>> \in grants'
    [] q.kind = "createUser" ->
         /\ member'[q.user] = q.org
         /\ q.role = None \/ \E r \in Role : Means(q.role, r) /\ RowsAfter(q.user) = {<<q.user, r, q.org>>}
    [] q.kind = "updateUser" ->
         q.role = None \/ \E r \in Role : Means(q.role, r) /\ RowsAfter(q.user) = {<<q.user, r, None>>}
    [] q.kind = "assign" -> <<q.user, q.role, None>> \in grants'
    [] q.kind = "remove" -> <<q.user, q.role, None>> \notin grants'
    [] q.kind = "setPerms" -> perms'[q.role] = q.perms
    [] q.kind = "createRole" -> \E r \in Role : {s \in Role : name'[s] = q.name} = {r}
    [] q.kind = "updateRole" -> name'[q.role] = q.name
    [] q.kind = "deleteRole" -> name'[q.role] = "gone"
    [] q.kind = "invite" -> member'[q.user] = q.org
    [] q.kind = "seed" ->
         /\ \A r \in DefaultRole : name'[r] = NameOf[r] /\ perms'[r] = DefaultPerm[r]
         /\ member'[Admin] # "absent"

\* Whatever earlier requests that failed, died or collided have left behind, a request
\* that ran with no other beside it and was answered "ok" did all it was asked: an
\* organization has its administrator, an account exactly the role it was given, a role
\* exactly its permissions.
AloneAsAsked == [][\A p \in Proc : Busy(p) /\ alone[p] /\ pc'[p] = "ok" => Fulfilled(req[p])]_vars

\* An error answer may have taken roles and permissions away half way, but without
\* another request beside it, it has given none.
ErrorGrantsNothing ==
  [][\A p \in Proc : Busy(p) /\ alone[p] /\ pc'[p] = "error" =>
       since[p] = {} /\ UNCHANGED <<grants, perms>>]_vars

\* A replacement of an account's roles or of a role's permissions, among any others,
\* leaves nothing that was there before it began.
NothingOlderSurvives ==
  [][\A p \in Proc : Busy(p) /\ pc'[p] = "ok" =>
       LET q == req[p] IN
       /\ q.kind = "setPerms" => PermRows(q.role, perms'[q.role] \cap perms[q.role]) \subseteq since[p]
       /\ q.kind = "updateUser" /\ q.role # None => RowsAfter(q.user) \subseteq since[p]]_vars

=============================================================================

-------------------------- MODULE ProvisioningProofs --------------------------
(***************************************************************************)
(* Theorems about Provisioning, for any number of handlers, accounts,      *)
(* organizations, roles, permissions and requests.                         *)
(***************************************************************************)
EXTENDS Provisioning, TLAPS

NotBusy == Answers \cup {"idle"}

\* Which requests come to a statement.
Serves(step, k) ==
  \/ step = "org.find" /\ k \in {"createOrg", "invite"}
  \/ step = "org.insert" /\ k = "createOrg"
  \/ step \in {"user.find", "user.insert"} /\ k \in {"createOrg", "createUser"}
  \/ step = "user.load" /\ k \in {"updateUser", "invite"}
  \/ step = "user.save" /\ k \in {"createUser", "updateUser", "invite"}
  \/ step = "role.byName" /\ k \in {"createOrg", "createUser", "updateUser"}
  \/ step \in {"roles.list", "roles.remove"} /\ k = "updateUser"
  \/ /\ step \in {"assign.role", "assign.existing", "assign.insert"}
     /\ k \in {"createOrg", "createUser", "updateUser", "assign"}
  \/ step = "grant.delete" /\ k = "remove"
  \/ step \in {"perms.role", "perms.delete", "perms.insert"} /\ k = "setPerms"
  \/ step \in {"role.find", "role.insert"} /\ k = "createRole"
  \/ step = "role.load" /\ k \in {"updateRole", "deleteRole"}
  \/ step = "role.save" /\ k = "updateRole"
  \/ step = "role.remove" /\ k = "deleteRole"
  \/ /\ step \in {"seed.role", "seed.delete", "seed.insert", "seed.admin", "seed.user", "seed.grant"}
     /\ k = "seed"

\* What a request names.
WellFormed(q) ==
  /\ q.kind \in {"assign", "remove", "setPerms", "updateRole", "deleteRole"} => q.role \in Role
  /\ q.kind \in {"createRole", "updateRole"} => q.name \in Name
  /\ q.kind \in {"createOrg", "invite"} => q.org \in Org
  /\ q.kind \in {"createOrg", "createUser", "updateUser", "assign", "remove", "invite"} => q.user \in User

\* What a handler that serves something knows.
Coherent(p) ==
  /\ pc[p] \notin NotBusy => Serves(pc[p], req[p].kind) /\ WellFormed(req[p])
  /\ pc[p] \in {"role.byName", "roles.list", "roles.remove",
                "assign.role", "assign.existing", "assign.insert"}
       => (req[p].kind = "updateUser" => req[p].role # None)
  /\ pc[p] \in {"assign.existing", "assign.insert"} => found[p] \in Role
  /\ pc[p] \in {"role.save", "role.remove"} => req[p].role \notin DefaultRole

\* The seeding command has made the roles it has left behind.
SeedKnows(p) ==
  /\ pc[p] \in {"seed.role", "seed.delete", "seed.insert"}
       => left[p] \subseteq DefaultRole /\ \A r \in DefaultRole \ left[p] : Exists(r)
  /\ pc[p] \in {"seed.delete", "seed.insert"} => found[p] \in DefaultRole \ left[p]
  /\ pc[p] \in {"seed.admin", "seed.user", "seed.grant"} => \A r \in DefaultRole : Exists(r)

HandlersOK == \A p \in Proc : Coherent(p) /\ SeedKnows(p)

IndInv == TypeOK /\ HandlersOK /\ AbsentRolesGrantNothing

-----------------------------------------------------------------------------
\* How a handler moves.

LocalTypes ==
  /\ pc \in [Proc -> Steps]
  /\ req \in [Proc -> Request]
  /\ found \in [Proc -> Role \cup {None}]
  /\ left \in [Proc -> (SUBSET Grant) \cup (SUBSET Role)]
  /\ loaded \in [Proc -> Org \cup {None, "absent"}]
  /\ alone \in [Proc -> BOOLEAN]

\* Every other handler stays where it is.
Others(p) ==
  \A q \in Proc \ {p} :
    pc'[q] = pc[q] /\ req'[q] = req[q] /\ found'[q] = found[q] /\ left'[q] = left[q]

\* The request a handler has when it has none is a request.
LEMMA NoReqTyped == NoReq \in Request
  BY DEF NoReq, Request, Kind

\* A handler that goes on with its request.
LEMMA GotoMoves ==
  ASSUME TypeOK, NEW p \in Proc, NEW step \in Steps, Goto(p, step)
  PROVE  /\ pc' \in [Proc -> Steps] /\ req' \in [Proc -> Request] /\ alone' \in [Proc -> BOOLEAN]
         /\ pc'[p] = step /\ req'[p] = req[p] /\ alone'[p] = alone[p]
         /\ \A q \in Proc \ {p} : pc'[q] = pc[q] /\ req'[q] = req[q]
  BY DEF TypeOK, Goto

\* A handler that goes on with all it holds.
LEMMA ContinuesMoves ==
  ASSUME TypeOK, NEW p \in Proc, NEW step \in Steps, Continues(p, step)
  PROVE  /\ LocalTypes' /\ Others(p)
         /\ pc'[p] = step /\ req'[p] = req[p] /\ found'[p] = found[p] /\ left'[p] = left[p]
  BY GotoMoves DEF TypeOK, Continues, LocalTypes, Others, locals

\* A handler that answers or dies.
LEMMA EndsMoves ==
  ASSUME TypeOK, NEW p \in Proc, NEW last \in NotBusy, Ends(p, last)
  PROVE  LocalTypes' /\ Others(p) /\ pc'[p] = last
<1>1. last \in Steps
  BY DEF NotBusy, Steps, Answers
<1>2. {} \in SUBSET Grant
  OBVIOUS
<1> QED BY <1>1, <1>2, NoReqTyped DEF TypeOK, Ends, LocalTypes, Others

\* The rows inserted since a request began, after a step.
LEMMA WritesTyped ==
  ASSUME TypeOK, NEW rows \in SUBSET (Grant \cup RolePerm), Writes(rows)
  PROVE  /\ since' \in [Proc -> SUBSET (Grant \cup RolePerm)]
         /\ \A q \in Proc : since'[q] = IF pc'[q] \in NotBusy THEN {} ELSE since[q] \cup rows
  BY DEF TypeOK, Writes, NotBusy

\* A handler that takes a request.
LEMMA StartMoves ==
  ASSUME TypeOK, NEW p \in Proc, NEW q \in Request, Start(p, q)
  PROVE  /\ LocalTypes' /\ Others(p)
         /\ pc'[p] = First(q) /\ req'[p] = q /\ pc[p] \in NotBusy
         /\ q.kind = "seed" => left'[p] = DefaultRole
<1>1. First(q) \in Steps
  BY DEF First, Steps, Request, Kind
<1>2. DefaultRole \in SUBSET Role /\ {} \in SUBSET Role
  BY SeedAssumption
<1>3. pc[p] \in NotBusy
  BY DEF Start, Busy, NotBusy
<1>4. left' \in [Proc -> (SUBSET Grant) \cup (SUBSET Role)]
  BY <1>2 DEF Start, TypeOK
<1> QED BY <1>1, <1>3, <1>4 DEF TypeOK, Start, LocalTypes, Others

\* Every request names what it should.
LEMMA BeginStarts ==
  ASSUME NEW p \in Proc, Begin(p)
  PROVE  \E q \in Request : Start(p, q) /\ WellFormed(q)
<1> USE NoReqTyped DEF NoReq, Request, Kind, WellFormed
<1>1. Known \subseteq Role
  BY DEF Known
<1>2. ASSUME NEW o \in Org, NEW u \in User, AskCreateOrg(p, o, u) \/ AskInvite(p, o, u)
      PROVE  \E q \in Request : Start(p, q) /\ WellFormed(q)
  <2> DEFINE a == [NoReq EXCEPT !.kind = "createOrg", !.org = o, !.user = u]
             b == [NoReq EXCEPT !.kind = "invite", !.org = o, !.user = u]
  <2>1. a \in Request /\ WellFormed(a) /\ b \in Request /\ WellFormed(b)
    OBVIOUS
  <2> HIDE DEF a, b
  <2> QED BY <1>2, <2>1, Zenon DEF AskCreateOrg, AskInvite, a, b
<1>3. ASSUME NEW u \in User, NEW r \in ((Known \cup Name) \cap Ref) \cup {None},
             AskUpdateUser(p, u, r) \/ \E o \in Org \cup {None} : AskCreateUser(p, u, r, o)
      PROVE  \E q \in Request : Start(p, q) /\ WellFormed(q)
  <2> DEFINE a == [NoReq EXCEPT !.kind = "updateUser", !.user = u, !.role = r]
             b(o) == [NoReq EXCEPT !.kind = "createUser", !.user = u, !.role = r, !.org = o]
  <2>1. r \in Role \cup Name \cup {None}
    BY <1>1
  <2>2. a \in Request /\ WellFormed(a)
    BY <2>1
  <2>3. \A o \in Org \cup {None} : b(o) \in Request /\ WellFormed(b(o))
    BY <2>1
  <2> HIDE DEF a, b
  <2> QED BY <1>3, <2>2, <2>3, Zenon DEF AskUpdateUser, AskCreateUser, a, b
<1>4. ASSUME NEW n \in Name, AskCreateRole(p, n)
      PROVE  \E q \in Request : Start(p, q) /\ WellFormed(q)
  <2> DEFINE a == [NoReq EXCEPT !.kind = "createRole", !.name = n]
  <2>1. a \in Request /\ WellFormed(a)
    OBVIOUS
  <2> HIDE DEF a
  <2> QED BY <1>4, <2>1, Zenon DEF AskCreateRole, a
<1>5. ASSUME NEW r \in Known, NEW u \in User, AskAssign(p, u, r)
      PROVE  \E q \in Request : Start(p, q) /\ WellFormed(q)
  <2> DEFINE a(k) == [NoReq EXCEPT !.kind = k, !.user = u, !.role = r]
  <2>1. \A k \in {"assign", "remove"} : a(k) \in Request /\ WellFormed(a(k))
    BY <1>1
  <2> HIDE DEF a
  <2> QED BY <1>5, <2>1, Zenon DEF AskAssign, a
<1>6. ASSUME NEW r \in Known, NEW S \in SUBSET Perm, AskSetPerms(p, r, S)
      PROVE  \E q \in Request : Start(p, q) /\ WellFormed(q)
  <2> DEFINE a == [NoReq EXCEPT !.kind = "setPerms", !.role = r, !.perms = S]
  <2>1. a \in Request /\ WellFormed(a)
    BY <1>1
  <2> HIDE DEF a
  <2> QED BY <1>6, <2>1, Zenon DEF AskSetPerms, a
<1>7. ASSUME NEW r \in Known, NEW n \in Name, AskUpdateRole(p, r, n)
      PROVE  \E q \in Request : Start(p, q) /\ WellFormed(q)
  <2> DEFINE a == [NoReq EXCEPT !.kind = "updateRole", !.role = r, !.name = n]
  <2>1. a \in Request /\ WellFormed(a)
    BY <1>1
  <2> HIDE DEF a
  <2> QED BY <1>7, <2>1, Zenon DEF AskUpdateRole, a
<1>8. ASSUME NEW r \in Known, AskDeleteRole(p, r)
      PROVE  \E q \in Request : Start(p, q) /\ WellFormed(q)
  <2> DEFINE a == [NoReq EXCEPT !.kind = "deleteRole", !.role = r]
  <2>1. a \in Request /\ WellFormed(a)
    BY <1>1
  <2> HIDE DEF a
  <2> QED BY <1>8, <2>1, Zenon DEF AskDeleteRole, a
<1>9. ASSUME RunSeeds(p)
      PROVE  \E q \in Request : Start(p, q) /\ WellFormed(q)
  <2> DEFINE a == [NoReq EXCEPT !.kind = "seed"]
  <2>1. a \in Request /\ WellFormed(a)
    OBVIOUS
  <2> HIDE DEF a
  <2> QED BY <1>9, <2>1, Zenon DEF RunSeeds, a
<1> HIDE DEF NoReq, Request, Kind, WellFormed
<1> QED BY <1>2, <1>3, <1>4, <1>5, <1>6, <1>7, <1>8, <1>9, Zenon DEF Begin

-----------------------------------------------------------------------------
\* What the steps write.

\* The steps that write no table, and those that end their request at the most.
Quiet(p) ==
  \/ FindOrg(p) \/ FindUser(p) \/ LoadUser(p) \/ RoleByName(p) \/ ListRoles(p)
  \/ AssignRole(p) \/ AssignExisting(p) \/ PermsRole(p) \/ FindRole(p) \/ LoadRole(p)
  \/ SeedAdmin(p) \/ Crash(p)

\* The steps that write orgs or member.
WritesAccounts(p) == InsertOrg(p) \/ InsertUser(p) \/ SaveUser(p) \/ SeedUser(p)

\* The steps that write names.
WritesNames(p) == InsertRole(p) \/ SaveRole(p) \/ RemoveRole(p) \/ SeedRole(p)

\* The steps that delete rows of the two relations or insert into them.
WritesRows(p) ==
  \/ RemoveListed(p) \/ DeleteGrant(p) \/ PermsDelete(p) \/ SeedDelete(p)
  \/ AssignInsert(p) \/ SeedGrant(p) \/ PermsInsert(p) \/ SeedInsert(p)

\* The steps of Next, sorted by what they write.
LEMMA StepCases ==
  ASSUME [Next]_vars
  PROVE  \/ \E p \in Proc : Begin(p)
         \/ \E p \in Proc : Quiet(p)
         \/ \E p \in Proc : WritesAccounts(p)
         \/ \E p \in Proc : WritesNames(p)
         \/ \E p \in Proc : WritesRows(p)
         \/ UNCHANGED vars
  BY Zenon DEF Next, Rest, Proceed, Quiet, WritesAccounts, WritesNames, WritesRows

-----------------------------------------------------------------------------
\* The local state after each step.

Local(p) == LocalTypes' /\ Others(p) /\ Coherent(p)' /\ SeedKnows(p)'

SeedSteps == {"seed.role", "seed.delete", "seed.insert", "seed.admin", "seed.user", "seed.grant"}

\* A handler that ends has nothing to know.
LEMMA EndsLocal ==
  ASSUME TypeOK, NEW p \in Proc, NEW last \in NotBusy, Ends(p, last)
  PROVE  Local(p) /\ pc'[p] \in NotBusy
<1>1. LocalTypes' /\ Others(p) /\ pc'[p] = last
  BY EndsMoves
<1>2. Coherent(p)' /\ SeedKnows(p)'
  BY <1>1 DEF Coherent, SeedKnows, NotBusy, Answers
<1> QED BY <1>1, <1>2 DEF Local

\* A handler that goes on, outside the seeds.
LEMMA ContinuesLocal ==
  ASSUME TypeOK, NEW p \in Proc, Coherent(p), pc[p] \notin NotBusy,
         NEW step \in Steps \ SeedSteps, Continues(p, step),
         Serves(step, req[p].kind),
         step \in {"role.byName", "roles.list", "roles.remove",
                   "assign.role", "assign.existing", "assign.insert"}
           => (req[p].kind = "updateUser" => req[p].role # None),
         step \in {"assign.existing", "assign.insert"} => found[p] \in Role,
         step \in {"role.save", "role.remove"} => req[p].role \notin DefaultRole
  PROVE  Local(p)
<1>1. /\ LocalTypes' /\ Others(p)
      /\ pc'[p] = step /\ req'[p] = req[p] /\ found'[p] = found[p]
  BY ContinuesMoves
<1>2. WellFormed(req[p])
  BY DEF Coherent
<1>3. Coherent(p)'
  BY <1>1, <1>2 DEF Coherent
<1>4. SeedKnows(p)'
  BY <1>1 DEF SeedKnows, SeedSteps
<1> QED BY <1>1, <1>3, <1>4 DEF Local

\* A handler that has assigned a role, or found it assigned.
LEMMA AfterAssignLocal ==
  ASSUME TypeOK, NEW p \in Proc, Coherent(p),
         pc[p] \in {"assign.existing", "assign.insert"}, AfterAssign(p)
  PROVE  Local(p)
<1>1. req[p].kind \in {"createOrg", "createUser", "updateUser", "assign"} /\ pc[p] \notin NotBusy
  BY DEF Coherent, Serves, NotBusy, Answers
<1>2. CASE req[p].kind = "createUser"
  BY <1>1, <1>2, ContinuesLocal DEF AfterAssign, Serves, Steps, SeedSteps
<1>3. CASE req[p].kind = "updateUser"
  BY <1>1, <1>3, ContinuesLocal DEF AfterAssign, Serves, Steps, SeedSteps
<1>4. CASE req[p].kind \in {"createOrg", "assign"}
  BY <1>4, EndsLocal DEF AfterAssign, NotBusy, Answers
<1> QED BY <1>1, <1>2, <1>3, <1>4

\* Statements that only read.
LEMMA QuietLocal ==
  ASSUME IndInv, NEW p \in Proc, Quiet(p)
  PROVE  Local(p) /\ Writes({}) /\ UNCHANGED tables
<1> USE DEF At
<1>0. TypeOK /\ Coherent(p) /\ SeedKnows(p)
  BY DEF IndInv, HandlersOK
<1>1. CASE FindOrg(p)
  <2>1. pc[p] = "org.find" /\ pc[p] \notin NotBusy
    BY <1>1 DEF FindOrg, NotBusy, Answers
  <2>2. CASE Ends(p, "error")
    BY <1>0, <1>1, <2>2, EndsLocal DEF FindOrg, NotBusy, Answers
  <2>3. CASE req[p].kind = "invite" /\ Continues(p, "user.load")
    BY <1>0, <1>1, <2>1, <2>3, ContinuesLocal DEF FindOrg, Serves, Steps, SeedSteps
  <2>4. CASE req[p].kind # "invite" /\ Continues(p, "org.insert")
    <3>1. req[p].kind = "createOrg"
      BY <1>0, <2>1, <2>4 DEF Coherent, Serves
    <3> QED BY <1>0, <1>1, <2>1, <2>4, <3>1, ContinuesLocal DEF FindOrg, Serves, Steps, SeedSteps
  <2> QED BY <1>1, <2>2, <2>3, <2>4 DEF FindOrg
<1>2. CASE FindUser(p)
  <2>1. pc[p] = "user.find" /\ pc[p] \notin NotBusy
    BY <1>2 DEF FindUser, NotBusy, Answers
  <2>2. req[p].kind \in {"createOrg", "createUser"}
    BY <1>0, <2>1 DEF Coherent, Serves
  <2>3. CASE Ends(p, "error")
    BY <1>0, <1>2, <2>3, EndsLocal DEF FindUser, NotBusy, Answers
  <2>4. CASE Continues(p, "user.insert")
    BY <1>0, <1>2, <2>1, <2>2, <2>4, ContinuesLocal DEF FindUser, Serves, Steps, SeedSteps
  <2> QED BY <1>2, <2>3, <2>4 DEF FindUser
<1>3. CASE LoadUser(p)
  <2>1. pc[p] = "user.load" /\ pc[p] \notin NotBusy
    BY <1>3 DEF LoadUser, NotBusy, Answers
  <2>2. req[p].kind \in {"updateUser", "invite"} /\ req[p].user \in User /\ WellFormed(req[p])
    BY <1>0, <2>1 DEF Coherent, Serves, WellFormed
  <2>3. CASE member[req[p].user] = "absent"
    BY <1>0, <1>3, <2>3, EndsLocal DEF LoadUser, NotBusy, Answers
  <2>4. CASE member[req[p].user] # "absent"
    <3>1. /\ Goto(p, "user.save") /\ UNCHANGED <<found, left>>
          /\ loaded' = [loaded EXCEPT
               ![p] = IF req[p].kind = "invite" THEN req[p].org ELSE member[req[p].user]]
      BY <1>3, <2>4 DEF LoadUser
    <3>2. req[p].org \in Org \cup {None} /\ member[req[p].user] \in Org \cup {None, "absent"}
      BY <1>0, <2>2 DEF TypeOK, Request
    <3>3. loaded' \in [Proc -> Org \cup {None, "absent"}]
      BY <1>0, <3>1, <3>2 DEF TypeOK
    <3>4. LocalTypes' /\ Others(p) /\ pc'[p] = "user.save" /\ req'[p] = req[p]
      BY <1>0, <3>1, <3>3, GotoMoves DEF TypeOK, LocalTypes, Others, Steps
    <3>5. Coherent(p)' /\ SeedKnows(p)'
      BY <2>2, <3>4 DEF Coherent, SeedKnows, Serves, NotBusy, Answers
    <3> QED BY <1>3, <3>4, <3>5 DEF LoadUser, Local
  <2> QED BY <2>3, <2>4
<1>4. CASE RoleByName(p)
  <2>1. pc[p] = "role.byName" /\ pc[p] \notin NotBusy
    BY <1>4 DEF RoleByName, NotBusy, Answers
  <2>2. /\ req[p].kind \in {"createOrg", "createUser", "updateUser"} /\ WellFormed(req[p])
        /\ req[p].kind = "updateUser" => req[p].role # None
    BY <1>0, <2>1 DEF Coherent, Serves
  <2>0. Writes({}) /\ UNCHANGED tables
    BY <1>4 DEF RoleByName
  <2> DEFINE next == IF req[p].kind = "updateUser" THEN "roles.list" ELSE "assign.role"
  <2>3. next \in Steps \ SeedSteps /\ Serves(next, req[p].kind)
    BY <2>2 DEF Steps, SeedSteps, Serves
  <2>4. \/ \E r \in Role : found' = [found EXCEPT ![p] = r] /\ Goto(p, next) /\ UNCHANGED <<left, loaded>>
        \/ Ends(p, "ok")
        \/ Continues(p, next)
    BY <1>4, Zenon DEF RoleByName
  <2> HIDE DEF next
  <2>5. ASSUME NEW r \in Role, found' = [found EXCEPT ![p] = r], Goto(p, next), UNCHANGED <<left, loaded>>
        PROVE  Local(p)
    <3>1. LocalTypes' /\ Others(p) /\ pc'[p] = next /\ req'[p] = req[p] /\ found'[p] = r
      BY <1>0, <2>3, <2>5, GotoMoves DEF TypeOK, LocalTypes, Others
    <3>2. next \notin {"role.save", "role.remove"}
      BY DEF next
    <3>3. Coherent(p)' /\ SeedKnows(p)'
      BY <2>2, <2>3, <3>1, <3>2 DEF Coherent, SeedKnows, SeedSteps
    <3> QED BY <3>1, <3>3 DEF Local
  <2>6. CASE Ends(p, "ok")
    BY <1>0, <2>6, <2>0, EndsLocal DEF NotBusy, Answers
  <2>7. CASE Continues(p, next)
    <3>1. next \notin {"role.save", "role.remove", "assign.existing", "assign.insert"}
      BY DEF next
    <3> QED BY <1>0, <2>1, <2>2, <2>3, <2>7, <2>0, <3>1, ContinuesLocal
  <2> QED BY <2>4, <2>5, <2>6, <2>7, <2>0
<1>5. CASE ListRoles(p)
  <2>1. pc[p] = "roles.list"
    BY <1>5 DEF ListRoles
  <2>2. req[p].kind = "updateUser" /\ WellFormed(req[p]) /\ req[p].role # None
    BY <1>0, <2>1 DEF Coherent, Serves, NotBusy, Answers
  <2>3. left' \in [Proc -> (SUBSET Grant) \cup (SUBSET Role)]
    <3>1. RowsOf(req[p].user) \in SUBSET Grant
      BY <1>0 DEF RowsOf, TypeOK
    <3> QED BY <1>0, <1>5, <3>1 DEF TypeOK, ListRoles
  <2>4. LocalTypes' /\ Others(p) /\ pc'[p] = "roles.remove" /\ req'[p] = req[p]
    BY <1>0, <1>5, <2>3, GotoMoves DEF TypeOK, LocalTypes, Others, ListRoles, Steps
  <2>5. Coherent(p)' /\ SeedKnows(p)'
    BY <2>2, <2>4 DEF Coherent, SeedKnows, Serves
  <2> QED BY <1>5, <2>4, <2>5 DEF ListRoles, Local
<1>6. CASE AssignRole(p)
  <2>1. pc[p] = "assign.role" /\ pc[p] \notin NotBusy
    BY <1>6 DEF AssignRole, NotBusy, Answers
  <2>2. /\ req[p].kind \in {"createOrg", "createUser", "updateUser", "assign"}
        /\ req[p].kind = "updateUser" => req[p].role # None
    BY <1>0, <2>1 DEF Coherent, Serves
  <2>3. CASE Ends(p, "error")
    BY <1>0, <1>6, <2>3, EndsLocal DEF AssignRole, NotBusy, Answers
  <2>4. CASE found[p] # None /\ Continues(p, "assign.existing")
    <3>1. found[p] \in Role
      BY <1>0, <2>4 DEF TypeOK
    <3> QED BY <1>0, <1>6, <2>1, <2>2, <2>4, <3>1, ContinuesLocal DEF AssignRole, Serves, Steps, SeedSteps
  <2> QED BY <1>6, <2>3, <2>4 DEF AssignRole
<1>7. CASE AssignExisting(p)
  <2>1. pc[p] = "assign.existing" /\ pc[p] \notin NotBusy
    BY <1>7 DEF AssignExisting, NotBusy, Answers
  <2>2. /\ req[p].kind \in {"createOrg", "createUser", "updateUser", "assign"}
        /\ req[p].kind = "updateUser" => req[p].role # None
        /\ found[p] \in Role
    BY <1>0, <2>1 DEF Coherent, Serves
  <2>3. CASE AfterAssign(p)
    BY <1>0, <1>7, <2>1, <2>3, AfterAssignLocal DEF AssignExisting
  <2>4. CASE Continues(p, "assign.insert")
    BY <1>0, <1>7, <2>1, <2>2, <2>4, ContinuesLocal DEF AssignExisting, Serves, Steps, SeedSteps
  <2> QED BY <1>7, <2>3, <2>4 DEF AssignExisting
<1>8. CASE PermsRole(p)
  <2>1. pc[p] = "perms.role" /\ pc[p] \notin NotBusy
    BY <1>8 DEF PermsRole, NotBusy, Answers
  <2>2. req[p].kind = "setPerms"
    BY <1>0, <2>1 DEF Coherent, Serves
  <2>3. CASE Ends(p, "error")
    BY <1>0, <1>8, <2>3, EndsLocal DEF PermsRole, NotBusy, Answers
  <2>4. CASE Continues(p, "perms.delete")
    BY <1>0, <1>8, <2>1, <2>2, <2>4, ContinuesLocal DEF PermsRole, Serves, Steps, SeedSteps
  <2> QED BY <1>8, <2>3, <2>4 DEF PermsRole
<1>9. CASE FindRole(p)
  <2>1. pc[p] = "role.find" /\ pc[p] \notin NotBusy
    BY <1>9 DEF FindRole, NotBusy, Answers
  <2>2. req[p].kind = "createRole"
    BY <1>0, <2>1 DEF Coherent, Serves
  <2>3. CASE Ends(p, "error")
    BY <1>0, <1>9, <2>3, EndsLocal DEF FindRole, NotBusy, Answers
  <2>4. CASE Continues(p, "role.insert")
    BY <1>0, <1>9, <2>1, <2>2, <2>4, ContinuesLocal DEF FindRole, Serves, Steps, SeedSteps
  <2> QED BY <1>9, <2>3, <2>4 DEF FindRole
<1>10. CASE LoadRole(p)
  <2>1. pc[p] = "role.load" /\ pc[p] \notin NotBusy
    BY <1>10 DEF LoadRole, NotBusy, Answers
  <2>2. req[p].kind \in {"updateRole", "deleteRole"}
    BY <1>0, <2>1 DEF Coherent, Serves
  <2>3. CASE Ends(p, "error")
    BY <1>0, <1>10, <2>3, EndsLocal DEF LoadRole, NotBusy, Answers
  <2>4. CASE /\ req[p].role \notin DefaultRole
             /\ req[p].kind = "updateRole" /\ Continues(p, "role.save")
    BY <1>0, <1>10, <2>1, <2>4, ContinuesLocal DEF LoadRole, Serves, Steps, SeedSteps
  <2>5. CASE /\ req[p].role \notin DefaultRole
             /\ req[p].kind = "deleteRole" /\ Continues(p, "role.remove")
    BY <1>0, <1>10, <2>1, <2>5, ContinuesLocal DEF LoadRole, Serves, Steps, SeedSteps
  <2> QED BY <1>10, <2>2, <2>3, <2>4, <2>5 DEF LoadRole
<1>11. CASE SeedAdmin(p)
  <2>1. pc[p] = "seed.admin" /\ pc[p] \notin NotBusy
    BY <1>11 DEF SeedAdmin, NotBusy, Answers
  <2>2. CASE Ends(p, "ok")
    BY <1>0, <1>11, <2>2, EndsLocal DEF SeedAdmin, NotBusy, Answers
  <2>3. CASE Continues(p, "seed.user")
    <3>1. LocalTypes' /\ Others(p) /\ pc'[p] = "seed.user" /\ req'[p] = req[p]
      BY <1>0, <2>3, ContinuesMoves DEF Steps
    <3>2. Coherent(p)'
      BY <1>0, <2>1, <3>1 DEF Coherent, Serves
    <3>3. SeedKnows(p)'
      BY <1>0, <1>11, <2>1, <3>1 DEF SeedKnows, SeedAdmin, tables, Exists
    <3> QED BY <1>11, <3>1, <3>2, <3>3 DEF SeedAdmin, Local
  <2> QED BY <1>11, <2>2, <2>3 DEF SeedAdmin
<1>12. CASE Crash(p)
  BY <1>0, <1>12, EndsLocal DEF Crash, NotBusy
<1> QED BY <1>1, <1>2, <1>3, <1>4, <1>5, <1>6, <1>7, <1>8, <1>9, <1>10, <1>11, <1>12 DEF Quiet

\* Statements that write orgs or member.
LEMMA AccountsLocal ==
  ASSUME IndInv, NEW p \in Proc, WritesAccounts(p)
  PROVE  /\ Local(p) /\ Writes({}) /\ UNCHANGED <<name, perms, grants>>
         /\ orgs' \in SUBSET Org /\ member' \in [User -> Org \cup {None, "absent"}]
<1> USE DEF At
<1>0. TypeOK /\ Coherent(p) /\ SeedKnows(p)
  BY DEF IndInv, HandlersOK
<1>1. CASE InsertOrg(p)
  <2>1. pc[p] = "org.insert" /\ pc[p] \notin NotBusy
    BY <1>1 DEF InsertOrg, NotBusy, Answers
  <2>2. req[p].kind = "createOrg" /\ req[p].org \in Org
    BY <1>0, <2>1 DEF Coherent, Serves, WellFormed
  <2>3. Local(p)
    <3>1. CASE Ends(p, "error")
      BY <1>0, <3>1, EndsLocal DEF NotBusy, Answers
    <3>2. CASE Continues(p, "user.find")
      BY <1>0, <2>1, <2>2, <3>2, ContinuesLocal DEF Serves, Steps, SeedSteps
    <3> QED BY <1>1, <3>1, <3>2 DEF InsertOrg
  <2> QED BY <1>0, <1>1, <2>2, <2>3 DEF InsertOrg, TypeOK
<1>2. CASE InsertUser(p)
  <2>1. pc[p] = "user.insert" /\ pc[p] \notin NotBusy
    BY <1>2 DEF InsertUser, NotBusy, Answers
  <2>2. /\ req[p].kind \in {"createOrg", "createUser"} /\ WellFormed(req[p])
        /\ req[p].org \in Org \cup {None}
    BY <1>0, <2>1 DEF Coherent, Serves, TypeOK, Request
  <2> DEFINE next == IF req[p].kind = "createOrg" THEN "role.byName"
                     ELSE IF req[p].role = None THEN "user.save"
                     ELSE IF req[p].role \in Role THEN "assign.role" ELSE "role.byName"
  <2>3. /\ next \in Steps \ SeedSteps /\ Serves(next, req[p].kind)
        /\ next \in {"role.byName", "user.save", "assign.role"}
    BY <2>2 DEF Steps, SeedSteps, Serves
  <2>4. \/ Ends(p, "error") /\ UNCHANGED member
        \/ /\ member' = [member EXCEPT ![req[p].user] = req[p].org]
           /\ loaded' = [loaded EXCEPT ![p] = req[p].org]
           /\ Goto(p, next) /\ UNCHANGED <<found, left>>
    BY <1>2, Zenon DEF InsertUser
  <2> HIDE DEF next
  <2>5. CASE Ends(p, "error") /\ UNCHANGED member
    BY <1>0, <1>2, <2>5, EndsLocal DEF NotBusy, Answers, InsertUser, TypeOK
  <2>6. CASE /\ member' = [member EXCEPT ![req[p].user] = req[p].org]
             /\ loaded' = [loaded EXCEPT ![p] = req[p].org]
             /\ Goto(p, next) /\ UNCHANGED <<found, left>>
    <3>1. LocalTypes' /\ Others(p) /\ pc'[p] = next /\ req'[p] = req[p]
      BY <1>0, <2>2, <2>3, <2>6, GotoMoves DEF TypeOK, LocalTypes, Others
    <3>2. Coherent(p)' /\ SeedKnows(p)'
      BY <2>2, <2>3, <3>1 DEF Coherent, SeedKnows
    <3>3. member' \in [User -> Org \cup {None, "absent"}]
      BY <1>0, <2>2, <2>6 DEF TypeOK
    <3> QED BY <1>0, <1>2, <3>1, <3>2, <3>3 DEF InsertUser, Local, TypeOK
  <2> QED BY <2>4, <2>5, <2>6
<1>3. CASE SaveUser(p)
  <2>1. Local(p)
    BY <1>0, <1>3, EndsLocal DEF SaveUser, NotBusy, Answers
  <2>2. loaded[p] \in Org \cup {None, "absent"}
    BY <1>0 DEF TypeOK
  <2> QED BY <1>0, <1>3, <2>1, <2>2 DEF SaveUser, TypeOK
<1>4. CASE SeedUser(p)
  <2>1. pc[p] = "seed.user" /\ pc[p] \notin NotBusy
    BY <1>4 DEF SeedUser, NotBusy, Answers
  <2>2. CASE Ends(p, "error") /\ UNCHANGED member
    BY <1>0, <1>4, <2>2, EndsLocal DEF NotBusy, Answers, SeedUser, TypeOK
  <2>3. CASE member' = [member EXCEPT ![Admin] = None] /\ Continues(p, "seed.grant")
    <3>1. LocalTypes' /\ Others(p) /\ pc'[p] = "seed.grant" /\ req'[p] = req[p]
      BY <1>0, <2>3, ContinuesMoves DEF Steps
    <3>2. Coherent(p)'
      BY <1>0, <2>1, <3>1 DEF Coherent, Serves
    <3>3. SeedKnows(p)'
      BY <1>0, <1>4, <2>1, <3>1 DEF SeedKnows, SeedUser, Exists
    <3> QED BY <1>0, <1>4, <2>3, <3>1, <3>2, <3>3 DEF SeedUser, Local, TypeOK
  <2> QED BY <1>4, <2>2, <2>3 DEF SeedUser
<1> QED BY <1>1, <1>2, <1>3, <1>4 DEF WritesAccounts

\* Statements that write names: a role is made, renamed or, with its rows, deleted.
LEMMA NamesLocal ==
  ASSUME IndInv, NEW p \in Proc, WritesNames(p)
  PROVE  /\ Local(p) /\ Writes({}) /\ UNCHANGED <<orgs, member>>
         /\ \/ UNCHANGED <<name, perms, grants>>
            \/ /\ \E r \in Role, n \in Name : name' = [name EXCEPT ![r] = n]
               /\ UNCHANGED <<perms, grants>>
            \/ \E r \in Role \ DefaultRole :
                 /\ name' = [name EXCEPT ![r] = "gone"]
                 /\ perms' = [perms EXCEPT ![r] = {}]
                 /\ grants' = {g \in grants : g[2] # r}
<1> USE DEF At
<1>0. TypeOK /\ Coherent(p) /\ SeedKnows(p)
  BY DEF IndInv, HandlersOK
<1>1. CASE InsertRole(p)
  <2>1. pc[p] = "role.insert"
    BY <1>1 DEF InsertRole
  <2>2. req[p].name \in Name
    BY <1>0, <2>1 DEF Coherent, Serves, WellFormed, NotBusy, Answers
  <2>3. Local(p)
    BY <1>0, <1>1, EndsLocal DEF InsertRole, NotBusy, Answers
  <2>4. \E r \in Role, n \in Name : name' = [name EXCEPT ![r] = n]
    BY <1>1, <2>2, Zenon DEF InsertRole
  <2> QED BY <1>1, <2>3, <2>4 DEF InsertRole
<1>2. CASE SaveRole(p)
  <2>1. pc[p] = "role.save"
    BY <1>2 DEF SaveRole
  <2>2. req[p].name \in Name /\ req[p].role \in Role
    BY <1>0, <2>1 DEF Coherent, Serves, WellFormed, NotBusy, Answers
  <2>3. Local(p)
    BY <1>0, <1>2, EndsLocal DEF SaveRole, NotBusy, Answers
  <2>4. \E r \in Role, n \in Name : name' = [name EXCEPT ![r] = n]
    BY <1>2, <2>2, Zenon DEF SaveRole
  <2> QED BY <1>2, <2>3, <2>4 DEF SaveRole
<1>3. CASE RemoveRole(p)
  <2>1. pc[p] = "role.remove"
    BY <1>3 DEF RemoveRole
  <2>2. req[p].role \in Role \ DefaultRole
    BY <1>0, <2>1 DEF Coherent, Serves, WellFormed, NotBusy, Answers
  <2>3. Local(p)
    BY <1>0, <1>3, EndsLocal DEF RemoveRole, NotBusy, Answers
  <2>4. \E r \in Role \ DefaultRole :
          /\ name' = [name EXCEPT ![r] = "gone"]
          /\ perms' = [perms EXCEPT ![r] = {}]
          /\ grants' = {g \in grants : g[2] # r}
    BY <1>3, <2>2, Zenon DEF RemoveRole
  <2> QED BY <1>3, <2>3, <2>4 DEF RemoveRole
<1>4. CASE SeedRole(p)
  <2>1. pc[p] = "seed.role" /\ req[p].kind = "seed" /\ WellFormed(req[p])
    BY <1>0, <1>4 DEF SeedRole, Coherent, Serves, NotBusy, Answers
  <2>2. left[p] \subseteq DefaultRole /\ \A r \in DefaultRole \ left[p] : Exists(r)
    BY <1>0, <2>1 DEF SeedKnows
  <2>3. Writes({}) /\ UNCHANGED <<orgs, member, perms, grants>>
    BY <1>4 DEF SeedRole
  <2>4. CASE left[p] = {} /\ Continues(p, "seed.admin") /\ UNCHANGED name
    <3>1. LocalTypes' /\ Others(p) /\ pc'[p] = "seed.admin" /\ req'[p] = req[p]
      BY <1>0, <2>4, ContinuesMoves DEF Steps
    <3>2. Coherent(p)'
      BY <2>1, <3>1 DEF Coherent, Serves
    <3>3. SeedKnows(p)'
      BY <2>2, <2>4, <3>1 DEF SeedKnows, Exists
    <3> QED BY <2>3, <2>4, <3>1, <3>2, <3>3 DEF Local
  <2>5. ASSUME NEW r \in left[p],
               name' = [name EXCEPT ![r] = NameOf[r]],
               found' = [found EXCEPT ![p] = r],
               left' = [left EXCEPT ![p] = @ \ {r}],
               Goto(p, "seed.delete"), UNCHANGED loaded
        PROVE  /\ Local(p)
               /\ \E s \in Role, n \in Name : name' = [name EXCEPT ![s] = n]
    <3>1. r \in DefaultRole /\ r \in Role /\ NameOf[r] \in Name
      BY <2>2, SeedAssumption
    <3>2. left[p] \ {r} \in SUBSET Role
      BY <2>2, SeedAssumption
    <3>3. LocalTypes' /\ Others(p) /\ pc'[p] = "seed.delete" /\ req'[p] = req[p]
      BY <1>0, <2>5, <3>1, <3>2, GotoMoves DEF TypeOK, LocalTypes, Others, Steps
    <3>4. found'[p] = r /\ left'[p] = left[p] \ {r}
      BY <1>0, <2>5 DEF TypeOK
    <3>5. \A s \in DefaultRole \ left'[p] : Exists(s)'
      BY <1>0, <2>2, <2>5, <3>1, <3>4, SeedAssumption DEF Exists, TypeOK
    <3>6. Coherent(p)' /\ SeedKnows(p)'
      BY <2>1, <2>2, <3>1, <3>3, <3>4, <3>5 DEF Coherent, Serves, SeedKnows
    <3>7. \E s \in Role, n \in Name : name' = [name EXCEPT ![s] = n]
      BY <2>5, <3>1, Zenon
    <3> QED BY <3>3, <3>6, <3>7 DEF Local
  <2> QED BY <1>4, <2>3, <2>4, <2>5 DEF SeedRole
<1> QED BY <1>1, <1>2, <1>3, <1>4 DEF WritesNames

\* What a statement does to the two relations, and what it is remembered to insert.
DropsGrants == grants' \subseteq grants /\ UNCHANGED perms /\ Writes({})
DropsPerms(r) == UNCHANGED grants /\ perms' = [perms EXCEPT ![r] = {}] /\ Writes({})
AddsGrant(g) == Exists(g[2]) /\ grants' = grants \cup {g} /\ UNCHANGED perms /\ Writes({g})
AddsPerms(r, S) ==
  /\ S = {} \/ Exists(r)
  /\ perms' = [perms EXCEPT ![r] = @ \cup S] /\ UNCHANGED grants /\ Writes(PermRows(r, S))

\* Statements that write the relations.
LEMMA RowsLocal ==
  ASSUME IndInv, NEW p \in Proc, WritesRows(p)
  PROVE  /\ Local(p) /\ UNCHANGED <<orgs, member, name>>
         /\ \/ DropsGrants
            \/ \E r \in Role : DropsPerms(r)
            \/ \E g \in Grant : AddsGrant(g)
            \/ \E r \in Role, S \in SUBSET Perm : AddsPerms(r, S)
<1> USE DEF At
<1>0. TypeOK /\ Coherent(p) /\ SeedKnows(p)
  BY DEF IndInv, HandlersOK
<1>1. CASE RemoveListed(p)
  <2>1. pc[p] = "roles.remove" /\ pc[p] \notin NotBusy
    BY <1>1 DEF RemoveListed, NotBusy, Answers
  <2>2. req[p].kind = "updateUser" /\ WellFormed(req[p]) /\ req[p].role # None
    BY <1>0, <2>1 DEF Coherent, Serves
  <2>3. Writes({}) /\ UNCHANGED <<orgs, member, name, perms>>
    BY <1>1 DEF RemoveListed
  <2>4. CASE left[p] = {} /\ Continues(p, "assign.role") /\ UNCHANGED grants
    <3>1. Local(p)
      BY <1>0, <2>1, <2>2, <2>4, ContinuesLocal DEF Serves, Steps, SeedSteps
    <3> QED BY <2>3, <2>4, <3>1 DEF DropsGrants
  <2>5. ASSUME NEW g \in left[p], grants' = grants \ {g}, left' = [left EXCEPT ![p] = @ \ {g}],
               Goto(p, "roles.remove"), UNCHANGED <<found, loaded>>
        PROVE  Local(p)
    <3>1. left[p] \ {g} \in (SUBSET Grant) \cup (SUBSET Role)
      BY <1>0 DEF TypeOK
    <3>2. LocalTypes' /\ Others(p) /\ pc'[p] = "roles.remove" /\ req'[p] = req[p]
      BY <1>0, <2>5, <3>1, GotoMoves DEF TypeOK, LocalTypes, Others, Steps
    <3>3. Coherent(p)' /\ SeedKnows(p)'
      BY <2>2, <3>2 DEF Coherent, Serves, SeedKnows
    <3> QED BY <3>2, <3>3 DEF Local
  <2> QED BY <1>1, <2>3, <2>4, <2>5 DEF RemoveListed, DropsGrants
<1>2. CASE DeleteGrant(p)
  <2>1. Local(p)
    BY <1>0, <1>2, EndsLocal DEF DeleteGrant, NotBusy, Answers
  <2> QED BY <1>2, <2>1 DEF DeleteGrant, DropsGrants
<1>3. CASE PermsDelete(p)
  <2>1. pc[p] = "perms.delete" /\ pc[p] \notin NotBusy
    BY <1>3 DEF PermsDelete, NotBusy, Answers
  <2>2. req[p].kind = "setPerms" /\ req[p].role \in Role
    BY <1>0, <2>1 DEF Coherent, Serves, WellFormed
  <2>3. Local(p)
    BY <1>0, <1>3, <2>1, <2>2, ContinuesLocal DEF PermsDelete, Serves, Steps, SeedSteps
  <2>4. DropsPerms(req[p].role)
    BY <1>3 DEF PermsDelete, DropsPerms
  <2> QED BY <1>3, <2>2, <2>3, <2>4 DEF PermsDelete
<1>4. CASE SeedDelete(p)
  <2>1. pc[p] = "seed.delete" /\ pc[p] \notin NotBusy
    BY <1>4 DEF SeedDelete, NotBusy, Answers
  <2>2. found[p] \in DefaultRole \ left[p] /\ found[p] \in Role
    BY <1>0, <2>1, SeedAssumption DEF SeedKnows
  <2>3. /\ LocalTypes' /\ Others(p) /\ pc'[p] = "seed.insert" /\ req'[p] = req[p]
        /\ found'[p] = found[p] /\ left'[p] = left[p]
    BY <1>0, <1>4, ContinuesMoves DEF SeedDelete, Steps
  <2>4. Coherent(p)'
    BY <1>0, <2>1, <2>3 DEF Coherent, Serves
  <2>5. SeedKnows(p)'
    BY <1>0, <1>4, <2>1, <2>3 DEF SeedKnows, SeedDelete, Exists
  <2>6. DropsPerms(found[p])
    BY <1>4 DEF SeedDelete, DropsPerms
  <2> QED BY <1>4, <2>2, <2>3, <2>4, <2>5, <2>6 DEF SeedDelete, Local
<1>5. CASE AssignInsert(p)
  <2>1. pc[p] = "assign.insert" /\ pc[p] \notin NotBusy
    BY <1>5 DEF AssignInsert, NotBusy, Answers
  <2>2. /\ found[p] \in Role /\ req[p].user \in User
        /\ req[p].org \in Org \cup {None}
    BY <1>0, <2>1 DEF Coherent, Serves, WellFormed, TypeOK, Request
  <2>3. Assigned(p) \in Grant /\ Assigned(p)[2] = found[p]
    BY <2>2 DEF Assigned, Grant
  <2>4. CASE Ends(p, "error") /\ Writes({}) /\ UNCHANGED grants
    BY <1>0, <1>5, <2>4, EndsLocal DEF AssignInsert, NotBusy, Answers, DropsGrants
  <2>5. CASE /\ Exists(Assigned(p)[2]) /\ grants' = grants \cup {Assigned(p)}
             /\ AfterAssign(p) /\ Writes({Assigned(p)})
    <3>1. Local(p)
      BY <1>0, <2>1, <2>5, AfterAssignLocal
    <3>2. AddsGrant(Assigned(p))
      BY <1>5, <2>5 DEF AssignInsert, AddsGrant
    <3> QED BY <1>5, <2>3, <3>1, <3>2 DEF AssignInsert
  <2> QED BY <1>5, <2>4, <2>5 DEF AssignInsert
<1>6. CASE SeedGrant(p)
  <2>1. pc[p] = "seed.grant"
    BY <1>6 DEF SeedGrant
  <2>2. Exists(SuperRole)
    BY <1>0, <2>1, SeedAssumption DEF SeedKnows
  <2>3. Local(p)
    BY <1>0, <1>6, EndsLocal DEF SeedGrant, NotBusy, Answers
  <2>4. <<Admin, SuperRole, None>> \in Grant /\ AddsGrant(<<Admin, SuperRole, None>>)
    BY <1>6, <2>2, SeedAssumption DEF SeedGrant, AddsGrant, Grant
  <2> QED BY <1>6, <2>3, <2>4 DEF SeedGrant
<1>7. CASE PermsInsert(p)
  <2>1. pc[p] = "perms.insert" /\ pc[p] \notin NotBusy
    BY <1>7 DEF PermsInsert, NotBusy, Answers
  <2>2. req[p].role \in Role /\ req[p].perms \in SUBSET Perm
    BY <1>0, <2>1 DEF Coherent, Serves, WellFormed, TypeOK, Request
  <2>3. Local(p)
    BY <1>0, <1>7, EndsLocal DEF PermsInsert, NotBusy, Answers
  <2>4. DropsGrants \/ AddsPerms(req[p].role, req[p].perms)
    BY <1>7 DEF PermsInsert, DropsGrants, AddsPerms
  <2> QED BY <1>7, <2>2, <2>3, <2>4 DEF PermsInsert
<1>8. CASE SeedInsert(p)
  <2>1. pc[p] = "seed.insert" /\ pc[p] \notin NotBusy
    BY <1>8 DEF SeedInsert, NotBusy, Answers
  <2>2. /\ found[p] \in DefaultRole \ left[p] /\ found[p] \in Role
        /\ left[p] \subseteq DefaultRole /\ \A r \in DefaultRole \ left[p] : Exists(r)
        /\ DefaultPerm[found[p]] \in SUBSET Perm
    BY <1>0, <2>1, SeedAssumption DEF SeedKnows
  <2>3. UNCHANGED <<orgs, member, name, grants>>
    BY <1>8 DEF SeedInsert
  <2>4. CASE Ends(p, "error") /\ Writes({}) /\ UNCHANGED perms
    BY <1>0, <2>3, <2>4, EndsLocal DEF NotBusy, Answers, DropsGrants
  <2>5. CASE /\ perms' = [perms EXCEPT ![found[p]] = @ \cup DefaultPerm[found[p]]]
             /\ Continues(p, "seed.role") /\ Writes(PermRows(found[p], DefaultPerm[found[p]]))
    <3>1. /\ LocalTypes' /\ Others(p) /\ pc'[p] = "seed.role" /\ req'[p] = req[p]
          /\ left'[p] = left[p]
      BY <1>0, <2>5, ContinuesMoves DEF Steps
    <3>2. Coherent(p)'
      BY <1>0, <2>1, <3>1 DEF Coherent, Serves
    <3>3. SeedKnows(p)'
      BY <2>2, <2>3, <3>1 DEF SeedKnows, Exists
    <3>4. AddsPerms(found[p], DefaultPerm[found[p]])
      BY <2>2, <2>3, <2>5 DEF AddsPerms
    <3> QED BY <2>2, <2>3, <3>1, <3>2, <3>3, <3>4 DEF Local
  <2> QED BY <1>8, <2>4, <2>5 DEF SeedInsert
<1> QED BY <1>1, <1>2, <1>3, <1>4, <1>5, <1>6, <1>7, <1>8 DEF WritesRows

\* Requests begin at a statement that serves them.
LEMMA BeginLocal ==
  ASSUME IndInv, NEW p \in Proc, Begin(p)
  PROVE  Local(p) /\ UNCHANGED <<orgs, member, name, perms, grants, since>> /\ pc[p] \in NotBusy
<1>0. TypeOK
  BY DEF IndInv
<1>1. PICK q \in Request : Start(p, q) /\ WellFormed(q)
  BY BeginStarts
<1>2. /\ LocalTypes' /\ Others(p) /\ pc'[p] = First(q) /\ req'[p] = q /\ pc[p] \in NotBusy
      /\ q.kind = "seed" => left'[p] = DefaultRole
  BY <1>0, <1>1, StartMoves
<1>3. UNCHANGED <<orgs, member, name, perms, grants, since>>
  BY <1>1 DEF Start, tables
<1>4. Serves(First(q), q.kind)
  BY DEF First, Serves, Request, Kind
<1>5. First(q) \notin {"assign.existing", "assign.insert", "role.save", "role.remove"}
  BY DEF First, Request, Kind
<1>6. q.kind = "updateUser" /\ First(q) # "user.load" => q.role # None
  BY DEF First
<1>7. Coherent(p)'
  BY <1>1, <1>2, <1>4, <1>5, <1>6 DEF Coherent
<1>8. First(q) \notin SeedSteps \/ (First(q) = "seed.role" /\ q.kind = "seed")
  BY DEF First, SeedSteps, Request, Kind
<1>9. SeedKnows(p)'
  BY <1>2, <1>8 DEF SeedKnows, SeedSteps
<1> QED BY <1>2, <1>3, <1>7, <1>9 DEF Local

-----------------------------------------------------------------------------
\* The invariant.

\* Every kind of step, by what it does to the tables.
LEMMA Effects ==
  ASSUME IndInv, [Next]_vars
  PROVE  \/ /\ UNCHANGED <<name, perms, grants>>
            /\ UNCHANGED since \/ Writes({})
         \/ /\ Writes({})
            /\ \/ /\ \E r \in Role, n \in Name : name' = [name EXCEPT ![r] = n]
                  /\ UNCHANGED <<perms, grants>>
               \/ \E r \in Role \ DefaultRole :
                    /\ name' = [name EXCEPT ![r] = "gone"]
                    /\ perms' = [perms EXCEPT ![r] = {}]
                    /\ grants' = {g \in grants : g[2] # r}
         \/ /\ UNCHANGED name
            /\ \/ DropsGrants
               \/ \E r \in Role : DropsPerms(r)
               \/ \E g \in Grant : AddsGrant(g)
               \/ \E r \in Role, S \in SUBSET Perm : AddsPerms(r, S)
<1>1. CASE \E p \in Proc : Begin(p)
  BY <1>1, BeginLocal
<1>2. CASE \E p \in Proc : Quiet(p)
  BY <1>2, QuietLocal DEF tables
<1>3. CASE \E p \in Proc : WritesAccounts(p)
  BY <1>3, AccountsLocal
<1>4. ASSUME NEW p \in Proc, WritesNames(p)
      PROVE  /\ Writes({})
             /\ \/ UNCHANGED <<name, perms, grants>>
                \/ /\ \E r \in Role, n \in Name : name' = [name EXCEPT ![r] = n]
                   /\ UNCHANGED <<perms, grants>>
                \/ \E r \in Role \ DefaultRole :
                     /\ name' = [name EXCEPT ![r] = "gone"]
                     /\ perms' = [perms EXCEPT ![r] = {}]
                     /\ grants' = {g \in grants : g[2] # r}
  BY <1>4, NamesLocal
<1>5. ASSUME NEW p \in Proc, WritesRows(p)
      PROVE  /\ UNCHANGED name
             /\ \/ DropsGrants
                \/ \E r \in Role : DropsPerms(r)
                \/ \E g \in Grant : AddsGrant(g)
                \/ \E r \in Role, S \in SUBSET Perm : AddsPerms(r, S)
  BY <1>5, RowsLocal
<1>6. CASE UNCHANGED vars
  BY <1>6 DEF vars
<1> QED BY <1>1, <1>2, <1>3, <1>4, <1>5, <1>6, StepCases, Zenon

\* A default role that was made stays.
LEMMA DefaultStays ==
  ASSUME IndInv, [Next]_vars, NEW r \in DefaultRole, Exists(r)
  PROVE  Exists(r)'
<1>1. r \in Role /\ name \in [Role -> Name \cup {"unborn", "gone"}]
  BY SeedAssumption DEF IndInv, TypeOK
<1>2. \/ UNCHANGED name
      \/ \E s \in Role, n \in Name : name' = [name EXCEPT ![s] = n]
      \/ \E s \in Role \ DefaultRole : name' = [name EXCEPT ![s] = "gone"]
  BY Effects
<1> QED BY <1>1, <1>2 DEF Exists

\* Rows of the two relations belong to roles there are.
LEMMA AbsentStep ==
  ASSUME IndInv, [Next]_vars
  PROVE  AbsentRolesGrantNothing'
<1>0. /\ name \in [Role -> Name \cup {"unborn", "gone"}] /\ perms \in [Role -> SUBSET Perm]
      /\ grants \in SUBSET Grant
      /\ \A r \in Role : ~Exists(r) => perms[r] = {} /\ \A g \in grants : g[2] # r
  BY DEF IndInv, TypeOK, AbsentRolesGrantNothing
<1>1. CASE UNCHANGED <<name, perms, grants>>
  BY <1>0, <1>1 DEF AbsentRolesGrantNothing, Exists
<1>2. CASE /\ \E r \in Role, n \in Name : name' = [name EXCEPT ![r] = n]
           /\ UNCHANGED <<perms, grants>>
  <2>1. \A r \in Role : ~Exists(r)' => ~Exists(r)
    BY <1>0, <1>2 DEF Exists
  <2> QED BY <1>0, <1>2, <2>1 DEF AbsentRolesGrantNothing
<1>3. ASSUME NEW r \in Role \ DefaultRole,
             name' = [name EXCEPT ![r] = "gone"],
             perms' = [perms EXCEPT ![r] = {}],
             grants' = {g \in grants : g[2] # r}
      PROVE  AbsentRolesGrantNothing'
  <2>1. \A s \in Role : s # r => name'[s] = name[s] /\ perms'[s] = perms[s]
    BY <1>0, <1>3
  <2>2. perms'[r] = {}
    BY <1>0, <1>3
  <2> QED BY <1>0, <1>3, <2>1, <2>2 DEF AbsentRolesGrantNothing, Exists
<1>4. CASE UNCHANGED name /\ DropsGrants
  BY <1>0, <1>4 DEF AbsentRolesGrantNothing, Exists, DropsGrants
<1>5. ASSUME UNCHANGED name, NEW r \in Role, DropsPerms(r)
      PROVE  AbsentRolesGrantNothing'
  BY <1>0, <1>5 DEF AbsentRolesGrantNothing, Exists, DropsPerms
<1>6. ASSUME UNCHANGED name, NEW g \in Grant, AddsGrant(g)
      PROVE  AbsentRolesGrantNothing'
  BY <1>0, <1>6 DEF AbsentRolesGrantNothing, Exists, AddsGrant
<1>7. ASSUME UNCHANGED name, NEW r \in Role, NEW S \in SUBSET Perm, AddsPerms(r, S)
      PROVE  AbsentRolesGrantNothing'
  BY <1>0, <1>7 DEF AbsentRolesGrantNothing, Exists, AddsPerms
<1> QED BY <1>1, <1>2, <1>3, <1>4, <1>5, <1>6, <1>7, Effects, Zenon

\* One handler moves, with what its next statement needs, or none does.
LEMMA MoverLocal ==
  ASSUME IndInv, [Next]_vars
  PROVE  \/ \E p \in Proc : Local(p)
         \/ UNCHANGED vars
  BY BeginLocal, QuietLocal, AccountsLocal, NamesLocal, RowsLocal, StepCases, Zenon

\* Handlers keep what they know.
LEMMA HandlersStep ==
  ASSUME IndInv, [Next]_vars
  PROVE  HandlersOK' /\ LocalTypes'
<1>1. CASE UNCHANGED vars
  BY <1>1 DEF vars, IndInv, TypeOK, HandlersOK, LocalTypes, Coherent, SeedKnows, Exists
<1>2. ASSUME NEW p \in Proc, Local(p)
      PROVE  HandlersOK' /\ LocalTypes'
  <2>1. LocalTypes' /\ Others(p) /\ Coherent(p)' /\ SeedKnows(p)'
    BY <1>2 DEF Local
  <2>2. ASSUME NEW q \in Proc, q # p PROVE Coherent(q)' /\ SeedKnows(q)'
    <3>1. Coherent(q) /\ SeedKnows(q)
      BY DEF IndInv, HandlersOK
    <3>2. pc'[q] = pc[q] /\ req'[q] = req[q] /\ found'[q] = found[q] /\ left'[q] = left[q]
      BY <2>1, <2>2 DEF Others
    <3>3. \A r \in DefaultRole : Exists(r) => Exists(r)'
      BY DefaultStays
    <3>4. Coherent(q)'
      BY <3>1, <3>2 DEF Coherent
    <3> QED BY <3>1, <3>2, <3>3, <3>4 DEF SeedKnows
  <2> QED BY <2>1, <2>2 DEF HandlersOK
<1> QED BY <1>1, <1>2, MoverLocal

\* A step writes rows of the right types.
LEMMA TablesTyped ==
  ASSUME IndInv, [Next]_vars
  PROVE  /\ orgs' \in SUBSET Org /\ member' \in [User -> Org \cup {None, "absent"}]
         /\ name' \in [Role -> Name \cup {"unborn", "gone"}] /\ perms' \in [Role -> SUBSET Perm]
         /\ grants' \in SUBSET Grant
         /\ since' \in [Proc -> SUBSET (Grant \cup RolePerm)]
<1>0. TypeOK
  BY DEF IndInv
<1>1. orgs' \in SUBSET Org /\ member' \in [User -> Org \cup {None, "absent"}]
  <2>1. \/ UNCHANGED <<orgs, member>>
        \/ orgs' \in SUBSET Org /\ member' \in [User -> Org \cup {None, "absent"}]
    BY BeginLocal, QuietLocal, AccountsLocal, NamesLocal, RowsLocal, StepCases DEF tables, vars
  <2> QED BY <1>0, <2>1 DEF TypeOK
<1>2. /\ name' \in [Role -> Name \cup {"unborn", "gone"}] /\ perms' \in [Role -> SUBSET Perm]
      /\ grants' \in SUBSET Grant
  BY <1>0, Effects DEF TypeOK, DropsGrants, DropsPerms, AddsGrant, AddsPerms
<1>3. UNCHANGED since \/ \E rows \in SUBSET (Grant \cup RolePerm) : Writes(rows)
  <2>1. \A r \in Role : \A S \in SUBSET Perm : PermRows(r, S) \in SUBSET (Grant \cup RolePerm)
    BY DEF PermRows, RolePerm
  <2> QED BY <2>1, Effects DEF DropsGrants, DropsPerms, AddsGrant, AddsPerms
<1>4. since' \in [Proc -> SUBSET (Grant \cup RolePerm)]
  BY <1>0, <1>3, WritesTyped DEF TypeOK
<1> QED BY <1>1, <1>2, <1>4

\* The number of requests stays within its bound.
LEMMA ServedStep ==
  ASSUME TypeOK, [Next]_vars
  PROVE  served' \in 0..MaxRequests
<1>1. ASSUME NEW p \in Proc, Begin(p) PROVE served' \in 0..MaxRequests
  <2>1. \E q \in Request : Start(p, q)
    BY <1>1, BeginStarts
  <2> QED BY <2>1, BoundAssumption DEF Start, TypeOK
<1>2. ASSUME NEW p \in Proc, Proceed(p) \/ Crash(p) PROVE UNCHANGED served
  BY <1>2 DEF Proceed, Crash, At, FindOrg, InsertOrg, FindUser, InsertUser, LoadUser, SaveUser,
     RoleByName, ListRoles, RemoveListed, AssignRole, AssignExisting, AssignInsert, DeleteGrant,
     PermsRole, PermsDelete, PermsInsert, FindRole, InsertRole, LoadRole, SaveRole, RemoveRole,
     SeedRole, SeedDelete, SeedInsert, SeedAdmin, SeedUser, SeedGrant
<1>3. CASE UNCHANGED vars
  BY <1>3 DEF vars, TypeOK
<1> QED BY <1>1, <1>2, <1>3 DEF Next, Rest, TypeOK

\* The initial states.
LEMMA InitInv == Init => IndInv
<1> SUFFICES ASSUME Init PROVE IndInv
  OBVIOUS
<1>1. /\ member \in [User -> Org \cup {None, "absent"}]
      /\ name \in [Role -> Name \cup {"unborn", "gone"}] /\ perms \in [Role -> SUBSET Perm]
      /\ grants \in SUBSET Grant
  BY SeedAssumption DEF Init, Seeded, Empty, Grant
<1>2. LocalTypes /\ orgs \in SUBSET Org
  BY NoReqTyped DEF Init, LocalTypes, Steps
<1>3. since \in [Proc -> SUBSET (Grant \cup RolePerm)] /\ served \in 0..MaxRequests
  BY BoundAssumption DEF Init
<1>4. HandlersOK
  BY DEF Init, HandlersOK, Coherent, SeedKnows, NotBusy
<1>5. AbsentRolesGrantNothing
  <2>1. CASE Seeded
    BY <2>1, SeedAssumption DEF Seeded, AbsentRolesGrantNothing, Exists
  <2>2. CASE Empty
    BY <2>2 DEF Empty, AbsentRolesGrantNothing
  <2> QED BY <2>1, <2>2 DEF Init
<1> QED BY <1>1, <1>2, <1>3, <1>4, <1>5 DEF IndInv, TypeOK, LocalTypes

\* Every step keeps the invariant.
LEMMA InvStep == IndInv /\ [Next]_vars => IndInv'
<1> SUFFICES ASSUME IndInv, [Next]_vars PROVE IndInv'
  OBVIOUS
<1>1. TypeOK'
  BY HandlersStep, TablesTyped, ServedStep DEF IndInv, TypeOK, LocalTypes
<1> QED BY <1>1, HandlersStep, AbsentStep DEF IndInv

\* The tables and what the handlers hold keep their types, a handler is only at
\* statements of the request it serves, and it holds what they need.
THEOREM TypeCorrect == Spec => [](TypeOK /\ HandlersOK)
<1>1. IndInv => TypeOK /\ HandlersOK
  BY DEF IndInv
<1> QED BY InitInv, InvStep, <1>1, PTL DEF Spec

\* A role that is gone, or not made yet, has no permissions and nobody has it, although
\* requests that loaded it before go on to grant it and to fill it.
THEOREM AbsentTheorem == Spec => []AbsentRolesGrantNothing
<1>1. IndInv => AbsentRolesGrantNothing
  BY DEF IndInv
<1> QED BY InitInv, InvStep, <1>1, PTL DEF Spec

-----------------------------------------------------------------------------
\* Replacements leave nothing older than themselves.

\* What a handler that is replacing rows knows about those that are there: after its
\* deletions they are newer than its request, and so they are until it ends.
Older(p) ==
  /\ pc[p] = "perms.insert" => PermRows(req[p].role, perms[req[p].role]) \subseteq since[p]
  /\ pc[p] = "roles.remove" => RowsOf(req[p].user) \subseteq since[p] \cup left[p]
  /\ /\ pc[p] \in {"assign.role", "assign.existing", "assign.insert", "user.load", "user.save"}
     /\ req[p].kind = "updateUser" /\ req[p].role # None
    => RowsOf(req[p].user) \subseteq since[p]

OlderInv == \A p \in Proc : Older(p)

\* A handler that goes on remembers every row inserted since.
LEMMA Recorded ==
  ASSUME IndInv, [Next]_vars, NEW q \in Proc, pc'[q] \notin NotBusy
  PROVE  /\ since[q] \subseteq since'[q] /\ grants' \ grants \subseteq since'[q]
         /\ \A r \in Role : PermRows(r, perms'[r] \ perms[r]) \subseteq since'[q]
<1>0. TypeOK
  BY DEF IndInv
<1>1. ASSUME NEW rows \in SUBSET (Grant \cup RolePerm), Writes(rows)
      PROVE  since'[q] = since[q] \cup rows
  BY <1>0, <1>1, WritesTyped
<1>2. CASE UNCHANGED <<perms, grants>> /\ (UNCHANGED since \/ Writes({}))
  BY <1>1, <1>2 DEF PermRows
<1>3. CASE \E r \in Role : Writes({}) /\ perms' = [perms EXCEPT ![r] = {}] /\ grants' \subseteq grants
  BY <1>0, <1>1, <1>3 DEF PermRows, TypeOK
<1>4. CASE DropsGrants
  BY <1>1, <1>4 DEF PermRows, DropsGrants
<1>5. ASSUME NEW g \in Grant, AddsGrant(g)
      PROVE  /\ since[q] \subseteq since'[q] /\ grants' \ grants \subseteq since'[q]
             /\ \A r \in Role : PermRows(r, perms'[r] \ perms[r]) \subseteq since'[q]
  BY <1>1, <1>5 DEF PermRows, AddsGrant
<1>6. ASSUME NEW r \in Role, NEW S \in SUBSET Perm, AddsPerms(r, S)
      PROVE  /\ since[q] \subseteq since'[q] /\ grants' \ grants \subseteq since'[q]
             /\ \A t \in Role : PermRows(t, perms'[t] \ perms[t]) \subseteq since'[q]
  <2>1. PermRows(r, S) \in SUBSET (Grant \cup RolePerm)
    BY DEF PermRows, RolePerm
  <2>2. since'[q] = since[q] \cup PermRows(r, S)
    BY <1>1, <1>6, <2>1 DEF AddsPerms
  <2>3. \A t \in Role : perms'[t] = IF t = r THEN perms[t] \cup S ELSE perms[t]
    BY <1>0, <1>6 DEF AddsPerms, TypeOK
  <2> QED BY <1>6, <2>2, <2>3 DEF AddsPerms, PermRows
<1>7. \/ UNCHANGED <<perms, grants>> /\ (UNCHANGED since \/ Writes({}))
      \/ \E r \in Role : Writes({}) /\ perms' = [perms EXCEPT ![r] = {}] /\ grants' \subseteq grants
      \/ DropsGrants
      \/ \E g \in Grant : AddsGrant(g)
      \/ \E r \in Role, S \in SUBSET Perm : AddsPerms(r, S)
  <2>1. \A r : {g \in grants : g[2] # r} \subseteq grants
    OBVIOUS
  <2> QED BY <2>1, Effects DEF DropsPerms
<1> QED BY <1>2, <1>3, <1>4, <1>5, <1>6, <1>7, Zenon

\* A handler at the same statement, with the same request, still knows it.
LEMMA OlderStays ==
  ASSUME IndInv, [Next]_vars, NEW q \in Proc, Older(q), pc[q] \notin NotBusy,
         pc'[q] = pc[q], req'[q] = req[q], left'[q] = left[q]
  PROVE  Older(q)'
<1>1. /\ since[q] \subseteq since'[q] /\ grants' \ grants \subseteq since'[q]
      /\ \A r \in Role : PermRows(r, perms'[r] \ perms[r]) \subseteq since'[q]
  BY Recorded
<1>2. RowsOf(req[q].user)' \subseteq RowsOf(req[q].user) \cup since'[q]
  BY <1>1 DEF RowsOf
<1>3. pc[q] = "perms.insert" => req[q].role \in Role
  BY DEF IndInv, HandlersOK, Coherent, Serves, WellFormed, NotBusy, Answers
<1>4. \A r \in Role : PermRows(r, perms'[r]) \subseteq PermRows(r, perms[r]) \cup since'[q]
  BY <1>1 DEF PermRows
<1> QED BY <1>1, <1>2, <1>3, <1>4 DEF Older

Chain == {"assign.role", "assign.existing", "assign.insert", "user.load", "user.save"}

\* The rest of a reassignment deletes nothing and inserts what is remembered.
LEMMA OlderChain ==
  ASSUME IndInv, [Next]_vars, NEW p \in Proc, Older(p),
         pc[p] \in Chain, pc'[p] \in Chain, req'[p] = req[p]
  PROVE  Older(p)'
<1>1. pc'[p] \notin NotBusy
  BY DEF Chain, NotBusy, Answers
<1>2. since[p] \subseteq since'[p] /\ grants' \ grants \subseteq since'[p]
  BY <1>1, Recorded
<1>3. RowsOf(req[p].user)' \subseteq RowsOf(req[p].user) \cup since'[p]
  BY <1>2 DEF RowsOf
<1> QED BY <1>2, <1>3 DEF Older, Chain

\* A handler that is not replacing rows, or has ended, need not know.
LEMMA OlderElsewhere ==
  ASSUME NEW p \in Proc, pc'[p] \notin {"perms.insert", "roles.remove"},
         pc'[p] \notin Chain \/ req'[p].kind # "updateUser" \/ req'[p].role = None
  PROVE  Older(p)'
  BY DEF Older, Chain

\* Where the steps of a handler take it.
LEMMA OlderMover ==
  ASSUME IndInv, [Next]_vars, NEW p \in Proc, Older(p), Begin(p) \/ Proceed(p) \/ Crash(p)
  PROVE  Older(p)'
<1> USE DEF At, Chain
<1>0. TypeOK /\ Coherent(p) /\ pc \in [Proc -> Steps] /\ req \in [Proc -> Request]
  BY DEF IndInv, HandlersOK, TypeOK
<1>1. CASE Begin(p)
  <2>1. PICK q \in Request : Start(p, q)
    BY <1>1, BeginStarts
  <2>2. pc'[p] = First(q) /\ req'[p] = q
    BY <1>0, <2>1, StartMoves
  <2>3. First(q) \notin {"perms.insert", "roles.remove"}
    BY DEF First, Request, Kind
  <2>4. First(q) \notin Chain \/ q.kind # "updateUser" \/ q.role = None
    BY DEF First, Request, Kind
  <2> QED BY <2>2, <2>3, <2>4, OlderElsewhere
<1>2. CASE \E last \in NotBusy : Ends(p, last)
  <2>1. pc'[p] \in NotBusy
    BY <1>0, <1>2, EndsMoves
  <2> QED BY <2>1, OlderElsewhere DEF NotBusy, Answers
<1>3. CASE \E step \in {"org.insert", "user.find", "user.insert", "perms.delete",
                        "role.insert", "role.save", "role.remove", "seed.delete", "seed.insert",
                        "seed.role", "seed.admin", "seed.user", "seed.grant"} : Goto(p, step)
  <2>1. pc'[p] \notin Chain \cup {"perms.insert", "roles.remove"}
    BY <1>0, <1>3 DEF Goto
  <2> QED BY <2>1, OlderElsewhere
<1>4. CASE FindOrg(p)
  <2>1. CASE req[p].kind = "invite" /\ Goto(p, "user.load")
    BY <1>0, <2>1, OlderElsewhere DEF Goto
  <2> QED BY <1>2, <1>3, <1>4, <2>1 DEF FindOrg, Continues, NotBusy, Answers
<1>5. CASE InsertUser(p)
  <2>1. req[p].kind # "updateUser"
    BY <1>0, <1>5 DEF InsertUser, Coherent, Serves, NotBusy, Answers
  <2>2. CASE \E step \in {"role.byName", "user.save", "assign.role"} : Goto(p, step)
    BY <1>0, <2>1, <2>2, OlderElsewhere DEF Goto
  <2> QED BY <1>2, <1>5, <2>2 DEF InsertUser, NotBusy, Answers
<1>6. CASE LoadUser(p)
  <2>1. CASE Goto(p, "user.save")
    BY <1>0, <1>6, <2>1, OlderChain DEF Goto, LoadUser
  <2> QED BY <1>2, <1>6, <2>1 DEF LoadUser, NotBusy, Answers
<1>7. CASE RoleByName(p)
  <2>1. CASE req[p].kind = "updateUser" /\ Goto(p, "roles.list")
    BY <1>0, <2>1, OlderElsewhere DEF Goto
  <2>2. CASE req[p].kind # "updateUser" /\ Goto(p, "assign.role")
    BY <1>0, <2>2, OlderElsewhere DEF Goto
  <2>3. \/ Ends(p, "ok")
        \/ req[p].kind = "updateUser" /\ Goto(p, "roles.list")
        \/ req[p].kind # "updateUser" /\ Goto(p, "assign.role")
    BY <1>7, Zenon DEF RoleByName, Continues
  <2> QED BY <1>2, <2>1, <2>2, <2>3 DEF NotBusy, Answers
<1>8. CASE ListRoles(p)
  <2>1. pc'[p] = "roles.remove" /\ req'[p] = req[p] /\ left'[p] = RowsOf(req[p].user)
    BY <1>0, <1>8 DEF ListRoles, Goto, TypeOK
  <2>2. UNCHANGED grants
    BY <1>8 DEF ListRoles, tables
  <2>3. RowsOf(req[p].user)' = left'[p]
    BY <2>1, <2>2 DEF RowsOf
  <2> QED BY <2>1, <2>3 DEF Older
<1>9. CASE RemoveListed(p)
  <2>1. RowsOf(req[p].user) \subseteq since[p] \cup left[p]
    BY <1>9 DEF RemoveListed, Older
  <2>2. CASE left[p] = {} /\ Continues(p, "assign.role") /\ UNCHANGED grants
    <3>1. pc'[p] = "assign.role" /\ req'[p] = req[p]
      BY <1>0, <2>2 DEF Continues, Goto
    <3>2. since[p] \subseteq since'[p]
      BY <3>1, Recorded DEF NotBusy, Answers
    <3>3. RowsOf(req[p].user)' = RowsOf(req[p].user)
      BY <2>2, <3>1 DEF RowsOf
    <3> QED BY <2>1, <2>2, <3>1, <3>2, <3>3 DEF Older
  <2>3. ASSUME NEW g \in left[p], grants' = grants \ {g}, left' = [left EXCEPT ![p] = @ \ {g}],
               Goto(p, "roles.remove")
        PROVE  Older(p)'
    <3>1. pc'[p] = "roles.remove" /\ req'[p] = req[p] /\ left'[p] = left[p] \ {g}
      BY <1>0, <2>3 DEF Goto, TypeOK
    <3>2. since[p] \subseteq since'[p]
      BY <3>1, Recorded DEF NotBusy, Answers
    <3>3. RowsOf(req[p].user)' \subseteq RowsOf(req[p].user) \ {g}
      BY <2>3, <3>1 DEF RowsOf
    <3> QED BY <2>1, <3>1, <3>2, <3>3 DEF Older
  <2> QED BY <1>9, <2>2, <2>3 DEF RemoveListed
<1>10. CASE AssignRole(p)
  <2>1. CASE Goto(p, "assign.existing")
    BY <1>0, <1>10, <2>1, OlderChain DEF Goto, AssignRole
  <2> QED BY <1>2, <1>10, <2>1 DEF AssignRole, Continues, NotBusy, Answers
<1>11. CASE AssignExisting(p)
  <2>1. CASE \E step \in {"assign.insert", "user.save", "user.load"} : Goto(p, step)
    BY <1>0, <1>11, <2>1, OlderChain DEF Goto, AssignExisting
  <2> QED BY <1>2, <1>11, <2>1 DEF AssignExisting, AfterAssign, Continues, NotBusy, Answers
<1>12. CASE AssignInsert(p)
  <2>1. CASE \E step \in {"user.save", "user.load"} : Goto(p, step)
    BY <1>0, <1>12, <2>1, OlderChain DEF Goto, AssignInsert
  <2> QED BY <1>2, <1>12, <2>1 DEF AssignInsert, AfterAssign, Continues, NotBusy, Answers
<1>13. CASE PermsDelete(p)
  <2>1. pc'[p] = "perms.insert" /\ req'[p] = req[p]
    BY <1>0, <1>13 DEF PermsDelete, Continues, Goto
  <2>2. req[p].role \in Role
    BY <1>0, <1>13 DEF PermsDelete, Coherent, Serves, WellFormed, NotBusy, Answers
  <2>3. perms'[req[p].role] = {}
    BY <1>0, <1>13, <2>2 DEF PermsDelete, TypeOK
  <2>4. PermRows(req[p].role, perms[req[p].role])' = {}
    BY <2>1, <2>3 DEF PermRows
  <2> QED BY <2>1, <2>4 DEF Older
<1>14. CASE InsertOrg(p) \/ FindUser(p) \/ PermsRole(p) \/ FindRole(p) \/ LoadRole(p)
            \/ SeedRole(p) \/ SeedDelete(p) \/ SeedInsert(p) \/ SeedAdmin(p) \/ SeedUser(p)
  BY <1>2, <1>3, <1>14 DEF InsertOrg, FindUser, PermsRole, FindRole, LoadRole,
     SeedRole, SeedDelete, SeedInsert, SeedAdmin, SeedUser, Continues, NotBusy, Answers
<1>15. CASE SaveUser(p) \/ DeleteGrant(p) \/ PermsInsert(p) \/ InsertRole(p) \/ SaveRole(p)
            \/ RemoveRole(p) \/ SeedGrant(p) \/ Crash(p)
  BY <1>2, <1>15 DEF SaveUser, DeleteGrant, PermsInsert, InsertRole, SaveRole, RemoveRole,
     SeedGrant, Crash, NotBusy, Answers
<1> QED BY <1>1, <1>4, <1>5, <1>6, <1>7, <1>8, <1>9, <1>10, <1>11, <1>12, <1>13, <1>14, <1>15
        DEF Proceed

\* The statements after which a request is answered "ok".
LEMMA AnswersOk ==
  ASSUME IndInv, NEW p \in Proc, Begin(p) \/ Proceed(p) \/ Crash(p),
         pc[p] \notin NotBusy, pc'[p] = "ok"
  PROVE  /\ pc[p] \in {"user.save", "role.byName", "assign.existing", "assign.insert",
                       "grant.delete", "perms.insert", "role.insert", "role.save",
                       "role.remove", "seed.admin", "seed.grant"}
         /\ pc[p] \in {"role.byName", "assign.existing", "assign.insert"}
              => req[p].kind \in {"createOrg", "assign"}
         /\ pc[p] = "user.save" => UNCHANGED grants
<1> USE DEF At
<1>0. TypeOK /\ Coherent(p) /\ pc \in [Proc -> Steps]
  BY DEF IndInv, HandlersOK, TypeOK
<1>1. ~Begin(p)
  BY BeginLocal
<1>2. \A step : Goto(p, step) => step = "ok"
  BY <1>0 DEF Goto
<1>3. \A last : Ends(p, last) => last = "ok"
  BY <1>0 DEF Ends
<1> USE DEF Continues
<1>4. ~FindOrg(p) /\ ~InsertOrg(p) /\ ~FindUser(p) /\ ~LoadUser(p) /\ ~ListRoles(p) /\ ~AssignRole(p)
  BY <1>2, <1>3 DEF FindOrg, InsertOrg, FindUser, LoadUser, ListRoles, AssignRole
<1>5. ~PermsRole(p) /\ ~PermsDelete(p) /\ ~FindRole(p) /\ ~LoadRole(p)
  BY <1>2, <1>3 DEF PermsRole, PermsDelete, FindRole, LoadRole
<1>6. ~SeedRole(p) /\ ~SeedDelete(p) /\ ~SeedInsert(p) /\ ~SeedUser(p) /\ ~Crash(p) /\ ~RemoveListed(p)
  BY <1>2, <1>3 DEF SeedRole, SeedDelete, SeedInsert, SeedUser, Crash, RemoveListed
<1>7. ~InsertUser(p)
  BY <1>2, <1>3 DEF InsertUser
<1>8. CASE SaveUser(p)
  BY <1>8 DEF SaveUser
<1>9. CASE RoleByName(p)
  <2>1. pc[p] = "role.byName"
    BY <1>9 DEF RoleByName
  <2>2. req[p].kind = "createOrg"
    BY <1>2, <1>9 DEF RoleByName
  <2> QED BY <2>1, <2>2
<1>10. CASE AssignExisting(p) \/ AssignInsert(p)
  <2>1. pc[p] \in {"assign.existing", "assign.insert"}
    BY <1>10 DEF AssignExisting, AssignInsert
  <2>2. req[p].kind \in {"createOrg", "createUser", "updateUser", "assign"}
    BY <1>0, <2>1 DEF Coherent, Serves, NotBusy, Answers
  <2>3. req[p].kind \notin {"createUser", "updateUser"}
    BY <1>2, <1>3, <1>10 DEF AssignExisting, AssignInsert, AfterAssign
  <2> QED BY <2>1, <2>2, <2>3
<1>11. CASE DeleteGrant(p) \/ PermsInsert(p) \/ InsertRole(p) \/ SaveRole(p) \/ RemoveRole(p)
            \/ SeedAdmin(p) \/ SeedGrant(p)
  BY <1>11 DEF DeleteGrant, PermsInsert, InsertRole, SaveRole, RemoveRole, SeedAdmin, SeedGrant
<1> QED BY <1>1, <1>4, <1>5, <1>6, <1>7, <1>8, <1>9, <1>10, <1>11, Zenon DEF Proceed

\* The handler that goes from serving to an answer is the one that moves.
LEMMA Mover ==
  ASSUME IndInv, [Next]_vars, NEW p \in Proc, pc'[p] # pc[p]
  PROVE  Begin(p) \/ Proceed(p) \/ Crash(p)
<1>1. \A q \in Proc : Local(q) => \A r \in Proc \ {q} : pc'[r] = pc[r]
  BY DEF Local, Others
<1>2. \A q \in Proc : Begin(q) \/ Proceed(q) \/ Crash(q) => Local(q)
  BY BeginLocal, QuietLocal, AccountsLocal, NamesLocal, RowsLocal
     DEF Proceed, Quiet, WritesAccounts, WritesNames, WritesRows
<1>3. ~UNCHANGED vars /\ ~Rest
  BY DEF vars, Rest
<1> QED BY <1>1, <1>2, <1>3 DEF Next

\* The knowledge is kept by all.
LEMMA OlderStep ==
  ASSUME IndInv, OlderInv, [Next]_vars
  PROVE  OlderInv'
<1> SUFFICES ASSUME NEW p \in Proc PROVE Older(p)'
  BY DEF OlderInv
<1>1. Older(p)
  BY DEF OlderInv
<1>2. CASE Begin(p) \/ Proceed(p) \/ Crash(p)
  BY <1>1, <1>2, OlderMover
<1>3. CASE ~(Begin(p) \/ Proceed(p) \/ Crash(p))
  <2>1. /\ pc'[p] = pc[p] /\ req'[p] = req[p] /\ left'[p] = left[p]
    <3>1. CASE UNCHANGED vars
      BY <3>1 DEF vars
    <3>2. ASSUME NEW q \in Proc, q # p, Begin(q) \/ Proceed(q) \/ Crash(q)
          PROVE  pc'[p] = pc[p] /\ req'[p] = req[p] /\ left'[p] = left[p]
      <4>1. Local(q)
        BY <3>2, BeginLocal, QuietLocal, AccountsLocal, NamesLocal, RowsLocal
           DEF Proceed, Quiet, WritesAccounts, WritesNames, WritesRows
      <4> QED BY <3>2, <4>1 DEF Local, Others
    <3> QED BY <1>3, <3>1, <3>2, Zenon DEF Next, Rest
  <2>2. CASE pc[p] \in NotBusy
    BY <2>1, <2>2, OlderElsewhere DEF NotBusy, Answers, Chain
  <2>3. CASE pc[p] \notin NotBusy
    BY <1>1, <2>1, <2>3, OlderStays
  <2> QED BY <2>2, <2>3
<1> QED BY <1>2, <1>3

\* An answer "ok" leaves nothing older than its request.
LEMMA NothingOlderStep ==
  ASSUME IndInv, OlderInv, [Next]_vars, NEW p \in Proc, Busy(p), pc'[p] = "ok"
  PROVE  LET q == req[p] IN
         /\ q.kind = "setPerms" => PermRows(q.role, perms'[q.role] \cap perms[q.role]) \subseteq since[p]
         /\ q.kind = "updateUser" /\ q.role # None => RowsAfter(q.user) \subseteq since[p]
<1>1. pc[p] \notin NotBusy /\ Older(p) /\ Coherent(p)
  BY DEF Busy, NotBusy, OlderInv, IndInv, HandlersOK
<1>2. Begin(p) \/ Proceed(p) \/ Crash(p)
  BY <1>1, Mover DEF NotBusy, Answers
<1>3. /\ pc[p] \in {"user.save", "role.byName", "assign.existing", "assign.insert",
                    "grant.delete", "perms.insert", "role.insert", "role.save",
                    "role.remove", "seed.admin", "seed.grant"}
      /\ pc[p] \in {"role.byName", "assign.existing", "assign.insert"}
           => req[p].kind \in {"createOrg", "assign"}
      /\ pc[p] = "user.save" => UNCHANGED grants
  BY <1>1, <1>2, AnswersOk
<1>4. ASSUME req[p].kind = "setPerms"
      PROVE  PermRows(req[p].role, perms'[req[p].role] \cap perms[req[p].role]) \subseteq since[p]
  <2>1. pc[p] = "perms.insert"
    BY <1>1, <1>3, <1>4 DEF Coherent, Serves
  <2> QED BY <1>1, <2>1 DEF Older, PermRows
<1>5. ASSUME req[p].kind = "updateUser", req[p].role # None
      PROVE  RowsAfter(req[p].user) \subseteq since[p]
  <2>1. pc[p] = "user.save"
    BY <1>1, <1>3, <1>5 DEF Coherent, Serves
  <2> QED BY <1>1, <1>3, <1>5, <2>1 DEF Older, RowsAfter, RowsOf
<1> QED BY <1>4, <1>5

\* A replacement of an account's roles or of a role's permissions that is answered "ok"
\* leaves none of the rows that were there before it began, whatever ran beside it.
THEOREM NothingOlderTheorem == Spec => NothingOlderSurvives
<1>1. Init => OlderInv
  BY DEF Init, OlderInv, Older
<1>2. IndInv /\ OlderInv /\ [Next]_vars => OlderInv'
  BY OlderStep
<1>3. IndInv /\ OlderInv /\ [Next]_vars =>
        [\A p \in Proc : Busy(p) /\ pc'[p] = "ok" =>
           LET q == req[p] IN
           /\ q.kind = "setPerms" => PermRows(q.role, perms'[q.role] \cap perms[q.role]) \subseteq since[p]
           /\ q.kind = "updateUser" /\ q.role # None => RowsAfter(q.user) \subseteq since[p]]_vars
  BY NothingOlderStep
<1> QED BY InitInv, InvStep, <1>1, <1>2, <1>3, PTL DEF Spec, NothingOlderSurvives

-----------------------------------------------------------------------------
\* A request without another beside it gives nothing when it fails.

\* A request that runs alone has inserted rows only where it cannot fail any more, and
\* what it has found out still holds.
Lone(p) ==
  /\ pc[p] \in NotBusy => since[p] = {}
  /\ alone[p] =>
       /\ \A q \in Proc \ {p} : pc[q] \in NotBusy
       /\ \/ since[p] = {}
          \/ pc[p] \in {"user.save"} \cup SeedSteps
          \/ pc[p] = "user.load" /\ member[req[p].user] # "absent"
       /\ pc[p] = "seed.insert" => perms[found[p]] = {}
       /\ pc[p] = "seed.user" => member[Admin] = "absent"

LoneInv == \A p \in Proc : Lone(p)

\* A handler that goes on is serving a request; one that is alone stays so by its own steps.
LEMMA ProceedAlone ==
  ASSUME IndInv, NEW p \in Proc, Proceed(p) \/ Crash(p)
  PROVE  /\ pc[p] \notin NotBusy
         /\ \E b \in BOOLEAN : alone' = [alone EXCEPT ![p] = b]
         /\ alone'[p] => alone[p]
<1>0. alone \in [Proc -> BOOLEAN]
  BY DEF IndInv, TypeOK
<1>1. pc[p] \notin NotBusy
  BY DEF Proceed, Crash, Busy, At, NotBusy, Answers, FindOrg, InsertOrg, FindUser, InsertUser, LoadUser,
     SaveUser, RoleByName, ListRoles, RemoveListed, AssignRole, AssignExisting, AssignInsert,
     DeleteGrant, PermsRole, PermsDelete, PermsInsert, FindRole, InsertRole, LoadRole, SaveRole,
     RemoveRole, SeedRole, SeedDelete, SeedInsert, SeedAdmin, SeedUser, SeedGrant
<1>2. \/ UNCHANGED alone
      \/ alone' = [alone EXCEPT ![p] = FALSE]
  <2> USE DEF Goto, Ends, Continues
  <2>1. CASE FindOrg(p) \/ InsertOrg(p) \/ FindUser(p) \/ InsertUser(p) \/ LoadUser(p) \/ SaveUser(p)
    BY <2>1 DEF FindOrg, InsertOrg, FindUser, InsertUser, LoadUser, SaveUser
  <2>2. CASE RoleByName(p)
    BY <2>2 DEF RoleByName
  <2>3. CASE ListRoles(p) \/ RemoveListed(p) \/ AssignRole(p) \/ AssignExisting(p)
             \/ AssignInsert(p) \/ DeleteGrant(p)
    BY <2>3 DEF ListRoles, RemoveListed, AssignRole, AssignExisting, AssignInsert, DeleteGrant,
       AfterAssign
  <2>4. CASE PermsRole(p) \/ PermsDelete(p) \/ PermsInsert(p) \/ FindRole(p) \/ InsertRole(p)
             \/ LoadRole(p) \/ SaveRole(p) \/ RemoveRole(p)
    BY <2>4 DEF PermsRole, PermsDelete, PermsInsert, FindRole, InsertRole, LoadRole, SaveRole,
       RemoveRole
  <2>5. CASE SeedRole(p) \/ SeedDelete(p) \/ SeedInsert(p) \/ SeedAdmin(p) \/ SeedUser(p)
             \/ SeedGrant(p) \/ Crash(p)
    BY <2>5 DEF SeedRole, SeedDelete, SeedInsert, SeedAdmin, SeedUser, SeedGrant, Crash
  <2> QED BY <2>1, <2>2, <2>3, <2>4, <2>5 DEF Proceed
<1>3. CASE UNCHANGED alone
  <2>1. alone' = [alone EXCEPT ![p] = alone[p]] /\ alone[p] \in BOOLEAN
    BY <1>0, <1>3
  <2> QED BY <1>1, <1>3, <2>1
<1>4. CASE alone' = [alone EXCEPT ![p] = FALSE]
  BY <1>0, <1>1, <1>4
<1> QED BY <1>2, <1>3, <1>4

\* Once another handler moves, no request is alone.
LEMMA OthersNotAlone ==
  ASSUME IndInv, LoneInv, NEW p \in Proc, NEW q \in Proc, q # p,
         Begin(p) \/ Proceed(p) \/ Crash(p)
  PROVE  ~alone'[q]
<1>1. CASE Begin(p)
  <2>1. \E a \in Request : Start(p, a)
    BY <1>1, BeginStarts
  <2> QED BY <2>1 DEF Start
<1>2. CASE Proceed(p) \/ Crash(p)
  <2>1. pc[p] \notin NotBusy /\ \E b \in BOOLEAN : alone' = [alone EXCEPT ![p] = b]
    BY <1>2, ProceedAlone
  <2>2. ~alone[q]
    BY <2>1 DEF LoneInv, Lone
  <2> QED BY <2>1, <2>2 DEF IndInv, TypeOK
<1> QED BY <1>1, <1>2

\* A handler that serves nothing has inserted nothing.
LEMMA IdleClean ==
  ASSUME IndInv, LoneInv, [Next]_vars, NEW q \in Proc, pc'[q] \in NotBusy
  PROVE  since'[q] = {}
<1>0. TypeOK /\ Lone(q)
  BY DEF IndInv, LoneInv
<1>1. ASSUME NEW rows \in SUBSET (Grant \cup RolePerm), Writes(rows)
      PROVE  since'[q] = {}
  BY <1>0, <1>1, WritesTyped
<1>2. CASE \E p \in Proc : Begin(p)
  <2>1. PICK p \in Proc : Begin(p)
    BY <1>2
  <2>2. Local(p) /\ UNCHANGED since /\ pc[p] \in NotBusy
    BY <2>1, BeginLocal
  <2>3. pc[q] \in NotBusy
    BY <2>2 DEF Local, Others
  <2> QED BY <1>0, <2>2, <2>3 DEF Lone
<1>3. CASE UNCHANGED vars
  BY <1>0, <1>3 DEF vars, Lone
<1>4. ASSUME NEW p \in Proc, Quiet(p) \/ WritesAccounts(p) \/ WritesNames(p)
      PROVE  Writes({})
  BY <1>4, QuietLocal, AccountsLocal, NamesLocal
<1>5. ASSUME NEW p \in Proc, WritesRows(p)
      PROVE  \E rows \in SUBSET (Grant \cup RolePerm) : Writes(rows)
  <2>1. \A r \in Role : \A S \in SUBSET Perm : PermRows(r, S) \in SUBSET (Grant \cup RolePerm)
    BY DEF PermRows, RolePerm
  <2> QED BY <1>5, <2>1, RowsLocal DEF DropsGrants, DropsPerms, AddsGrant, AddsPerms
<1> QED BY <1>1, <1>2, <1>3, <1>4, <1>5, StepCases

\* What a request that is alone knows, apart from being alone.
Clean(p) ==
  /\ \/ since[p] = {}
     \/ pc[p] \in {"user.save"} \cup SeedSteps
     \/ pc[p] = "user.load" /\ member[req[p].user] # "absent"
  /\ pc[p] = "seed.insert" => perms[found[p]] = {}
  /\ pc[p] = "seed.user" => member[Admin] = "absent"

\* The steps of a request that is alone and goes on.
LEMMA CleanMover ==
  ASSUME IndInv, LoneInv, [Next]_vars, NEW p \in Proc, Proceed(p), alone[p], pc'[p] \notin NotBusy
  PROVE  Clean(p)'
<1> USE DEF At
<1>0. /\ TypeOK /\ Coherent(p) /\ SeedKnows(p) /\ Clean(p)
      /\ pc \in [Proc -> Steps] /\ req \in [Proc -> Request]
  BY DEF IndInv, HandlersOK, TypeOK, LoneInv, Lone, Clean
<1>1. Writes({}) => since'[p] = since[p]
  <2>1. Writes({}) => since'[p] = since[p] \cup {}
    BY DEF Writes, NotBusy
  <2> QED BY <2>1
<1>2. \A last \in NotBusy : ~Ends(p, last)
  BY <1>0, EndsMoves
<1>3. ~Ends(p, "ok") /\ ~Ends(p, "error")
  BY <1>2 DEF NotBusy, Answers
<1>4. ASSUME Writes({}), NEW step \in Steps \ SeedSteps, Goto(p, step),
             pc[p] \notin {"user.save", "user.load"} \cup SeedSteps
      PROVE  Clean(p)'
  <2>1. since'[p] = {}
    BY <1>0, <1>1, <1>4 DEF Clean
  <2>2. pc'[p] \notin SeedSteps
    BY <1>0, <1>4 DEF Goto
  <2> QED BY <2>1, <2>2 DEF Clean, SeedSteps
<1>5. CASE FindOrg(p) \/ InsertOrg(p) \/ FindUser(p)
  BY <1>3, <1>4, <1>5 DEF FindOrg, InsertOrg, FindUser, Continues, Steps, SeedSteps
<1>6. CASE InsertUser(p)
  <2>1. \E step \in {"role.byName", "user.save", "assign.role"} : Goto(p, step)
    BY <1>3, <1>6 DEF InsertUser
  <2> QED BY <1>4, <1>6, <2>1 DEF InsertUser, Steps, SeedSteps
<1>7. CASE LoadUser(p)
  <2>1. Goto(p, "user.save")
    BY <1>3, <1>7 DEF LoadUser
  <2>2. pc'[p] = "user.save"
    BY <1>0, <2>1 DEF Goto
  <2> QED BY <2>2 DEF Clean
<1>8. CASE RoleByName(p)
  <2>1. Goto(p, "roles.list") \/ Goto(p, "assign.role")
    BY <1>3, <1>8, Zenon DEF RoleByName, Continues
  <2> QED BY <1>4, <1>8, <2>1 DEF RoleByName, Steps, SeedSteps
<1>9. CASE ListRoles(p) \/ AssignRole(p) \/ PermsRole(p) \/ PermsDelete(p) \/ FindRole(p) \/ LoadRole(p)
  BY <1>3, <1>4, <1>9 DEF ListRoles, AssignRole, PermsRole, PermsDelete, FindRole, LoadRole, Continues,
     Steps, SeedSteps
<1>10. CASE RemoveListed(p)
  <2>1. Goto(p, "roles.remove") \/ Goto(p, "assign.role")
    BY <1>10 DEF RemoveListed, Continues
  <2> QED BY <1>4, <1>10, <2>1 DEF RemoveListed, Steps, SeedSteps
<1>11. CASE AssignExisting(p)
  <2>1. Goto(p, "assign.insert") \/ Goto(p, "user.save") \/ Goto(p, "user.load")
    BY <1>3, <1>11 DEF AssignExisting, AfterAssign, Continues
  <2> QED BY <1>4, <1>11, <2>1 DEF AssignExisting, Steps, SeedSteps
<1>12. CASE AssignInsert(p)
  <2>1. Goto(p, "user.save") \/ Goto(p, "user.load")
    BY <1>3, <1>12 DEF AssignInsert, AfterAssign, Continues
  <2>2. pc'[p] \in {"user.save", "user.load"} /\ req'[p] = req[p]
    BY <1>0, <2>1 DEF Goto
  <2>3. member'[req[p].user] # "absent"
    BY <1>3, <1>12 DEF AssignInsert, Assigned
  <2> QED BY <2>2, <2>3 DEF Clean
<1>13. CASE SeedRole(p)
  <2>1. Goto(p, "seed.delete") \/ Goto(p, "seed.admin")
    BY <1>13 DEF SeedRole, Continues
  <2>2. pc'[p] \in {"seed.delete", "seed.admin"}
    BY <1>0, <2>1 DEF Goto
  <2> QED BY <2>2 DEF Clean, SeedSteps
<1>14. CASE SeedDelete(p)
  <2>1. pc'[p] = "seed.insert" /\ found'[p] = found[p] /\ found[p] \in Role
    BY <1>0, <1>14, SeedAssumption DEF SeedDelete, Continues, Goto, locals, SeedKnows
  <2>2. perms'[found[p]] = {}
    BY <1>0, <1>14, <2>1 DEF SeedDelete, TypeOK
  <2> QED BY <2>1, <2>2 DEF Clean, SeedSteps
<1>15. CASE SeedInsert(p)
  <2>1. Goto(p, "seed.role")
    BY <1>3, <1>15 DEF SeedInsert, Continues
  <2>2. pc'[p] = "seed.role"
    BY <1>0, <2>1 DEF Goto
  <2> QED BY <2>2 DEF Clean, SeedSteps
<1>16. CASE SeedAdmin(p)
  <2>1. Goto(p, "seed.user") /\ member[Admin] = "absent" /\ UNCHANGED member
    BY <1>3, <1>16 DEF SeedAdmin, Continues, tables
  <2>2. pc'[p] = "seed.user"
    BY <1>0, <2>1 DEF Goto
  <2> QED BY <2>1, <2>2 DEF Clean, SeedSteps
<1>17. CASE SeedUser(p)
  <2>1. Goto(p, "seed.grant")
    BY <1>3, <1>17 DEF SeedUser, Continues
  <2>2. pc'[p] = "seed.grant"
    BY <1>0, <2>1 DEF Goto
  <2> QED BY <2>2 DEF Clean, SeedSteps
<1>18. ~(SaveUser(p) \/ DeleteGrant(p) \/ PermsInsert(p) \/ InsertRole(p) \/ SaveRole(p)
         \/ RemoveRole(p) \/ SeedGrant(p))
  BY <1>3 DEF SaveUser, DeleteGrant, PermsInsert, InsertRole, SaveRole, RemoveRole, SeedGrant
<1> QED BY <1>5, <1>6, <1>7, <1>8, <1>9, <1>10, <1>11, <1>12, <1>13, <1>14, <1>15, <1>16, <1>17, <1>18
        DEF Proceed

\* The knowledge is kept by all.
LEMMA LoneStep ==
  ASSUME IndInv, LoneInv, [Next]_vars
  PROVE  LoneInv'
<1> SUFFICES ASSUME NEW p \in Proc PROVE Lone(p)'
  BY DEF LoneInv
<1>0. TypeOK /\ Lone(p)
  BY DEF IndInv, LoneInv
<1>1. pc'[p] \in NotBusy => since'[p] = {}
  BY IdleClean
<1>2. CASE UNCHANGED vars
  BY <1>0, <1>2 DEF vars, Lone
<1>3. ASSUME NEW q \in Proc, q # p, Begin(q) \/ Proceed(q) \/ Crash(q)
      PROVE  Lone(p)'
  BY <1>1, <1>3, OthersNotAlone DEF Lone
<1>4. CASE Begin(p)
  <2>1. PICK a \in Request : Start(p, a)
    BY <1>4, BeginStarts
  <2>2. Local(p) /\ since'[p] = since[p] /\ pc[p] \in NotBusy
    BY <1>4, BeginLocal
  <2>3. alone'[p] => \A q \in Proc \ {p} : pc[q] \in NotBusy
    BY <2>1 DEF Start, Busy, NotBusy
  <2>4. pc'[p] = First(a)
    BY <1>0, <2>1, StartMoves
  <2>5. pc'[p] \notin {"seed.insert", "seed.user"}
    BY <2>4 DEF First, Request, Kind
  <2> QED BY <1>0, <2>2, <2>3, <2>5 DEF Lone, Local, Others
<1>5. CASE Proceed(p) \/ Crash(p)
  <2>1. alone'[p] => alone[p]
    BY <1>5, ProceedAlone
  <2>2. Local(p)
    BY <1>5, BeginLocal, QuietLocal, AccountsLocal, NamesLocal, RowsLocal
       DEF Proceed, Quiet, WritesAccounts, WritesNames, WritesRows
  <2>3. alone'[p] => \A q \in Proc \ {p} : pc'[q] \in NotBusy
    BY <1>0, <2>1, <2>2 DEF Lone, Local, Others
  <2>4. CASE pc'[p] \in NotBusy
    BY <1>1, <2>3, <2>4 DEF Lone, NotBusy, Answers
  <2>5. CASE pc'[p] \notin NotBusy
    <3>1. ~Crash(p)
      BY <1>0, <2>5, EndsMoves DEF Crash, NotBusy
    <3>2. alone'[p] => Clean(p)'
      BY <1>5, <2>1, <2>5, <3>1, CleanMover
    <3> QED BY <2>3, <2>5, <3>2 DEF Lone, Clean
  <2> QED BY <2>4, <2>5
<1> QED BY <1>2, <1>3, <1>4, <1>5 DEF Next, Rest

\* A failure of a request that is alone comes before it has given anything.
LEMMA ErrorStep ==
  ASSUME IndInv, LoneInv, [Next]_vars, NEW p \in Proc, Busy(p), alone[p], pc'[p] = "error"
  PROVE  since[p] = {} /\ UNCHANGED <<grants, perms>>
<1> USE DEF At
<1>0. /\ TypeOK /\ Coherent(p) /\ SeedKnows(p) /\ Clean(p)
      /\ pc \in [Proc -> Steps] /\ req \in [Proc -> Request] /\ pc[p] \notin NotBusy
  BY DEF IndInv, HandlersOK, TypeOK, LoneInv, Lone, Clean, Busy, NotBusy
<1>1. Begin(p) \/ Proceed(p) \/ Crash(p)
  BY <1>0, Mover DEF NotBusy, Answers
<1>2. ~Begin(p) /\ ~Crash(p)
  BY <1>0, BeginLocal DEF Crash, Ends
<1>3. \A step : Goto(p, step) => step = "error"
  BY <1>0 DEF Goto
<1>4. \A last : Ends(p, last) => last = "error"
  BY <1>0 DEF Ends
<1> USE DEF Continues, SeedSteps
<1>5. CASE FindOrg(p) \/ FindUser(p) \/ AssignRole(p) \/ PermsRole(p) \/ FindRole(p) \/ LoadRole(p)
           \/ AssignExisting(p) \/ ListRoles(p)
  <2>1. pc[p] \notin {"user.save", "user.load"} \cup SeedSteps
    BY <1>5 DEF FindOrg, FindUser, AssignRole, PermsRole, FindRole, LoadRole, AssignExisting, ListRoles
  <2>2. UNCHANGED <<grants, perms>>
    BY <1>5 DEF FindOrg, FindUser, AssignRole, PermsRole, FindRole, LoadRole, AssignExisting,
       ListRoles, tables
  <2> QED BY <1>0, <2>1, <2>2 DEF Clean
<1>6. CASE InsertOrg(p) \/ InsertUser(p)
  <2>1. pc[p] \in {"org.insert", "user.insert"} /\ UNCHANGED <<grants, perms>>
    BY <1>6 DEF InsertOrg, InsertUser
  <2> QED BY <1>0, <2>1 DEF Clean
<1>7. CASE LoadUser(p)
  <2>1. pc[p] = "user.load" /\ UNCHANGED <<grants, perms>>
    BY <1>7 DEF LoadUser, tables
  <2>2. member[req[p].user] = "absent"
    BY <1>3, <1>7 DEF LoadUser
  <2> QED BY <1>0, <2>1, <2>2 DEF Clean
<1>8. CASE RoleByName(p)
  <2>1. pc[p] = "role.byName" /\ UNCHANGED <<grants, perms>>
    BY <1>8 DEF RoleByName, tables
  <2> QED BY <1>0, <2>1 DEF Clean
<1>9. CASE AssignInsert(p)
  <2>1. pc[p] = "assign.insert" /\ UNCHANGED <<grants, perms>>
    BY <1>3, <1>4, <1>9 DEF AssignInsert, AfterAssign
  <2> QED BY <1>0, <2>1 DEF Clean
<1>10. CASE PermsInsert(p)
  <2>1. pc[p] = "perms.insert" /\ UNCHANGED <<grants, perms>>
    BY <1>4, <1>10 DEF PermsInsert
  <2> QED BY <1>0, <2>1 DEF Clean
<1>11. CASE SeedInsert(p)
  <2>1. pc[p] = "seed.insert" /\ DefaultPerm[found[p]] \cap perms[found[p]] # {}
    BY <1>3, <1>11 DEF SeedInsert
  <2> QED BY <1>0, <2>1 DEF Clean
<1>12. CASE SeedUser(p)
  <2>1. pc[p] = "seed.user" /\ member[Admin] # "absent"
    BY <1>3, <1>12 DEF SeedUser
  <2> QED BY <1>0, <2>1 DEF Clean
<1>13. ~(SaveUser(p) \/ DeleteGrant(p) \/ InsertRole(p) \/ SaveRole(p) \/ RemoveRole(p) \/ SeedGrant(p))
  BY <1>4 DEF SaveUser, DeleteGrant, InsertRole, SaveRole, RemoveRole, SeedGrant
<1>14. ~(RemoveListed(p) \/ PermsDelete(p) \/ SeedRole(p) \/ SeedDelete(p) \/ SeedAdmin(p))
  BY <1>3, <1>4 DEF RemoveListed, PermsDelete, SeedRole, SeedDelete, SeedAdmin
<1> QED BY <1>1, <1>2, <1>5, <1>6, <1>7, <1>8, <1>9, <1>10, <1>11, <1>12, <1>13, <1>14 DEF Proceed

\* A request that ran with no other beside it and failed may have taken roles or
\* permissions away; it has given none.
THEOREM ErrorTheorem == Spec => ErrorGrantsNothing
<1>1. Init => LoneInv
  BY DEF Init, LoneInv, Lone
<1>2. IndInv /\ LoneInv /\ [Next]_vars => LoneInv'
  BY LoneStep
<1>3. IndInv /\ LoneInv /\ [Next]_vars =>
        [\A p \in Proc : Busy(p) /\ alone[p] /\ pc'[p] = "error" =>
           since[p] = {} /\ UNCHANGED <<grants, perms>>]_vars
  BY ErrorStep
<1> QED BY InitInv, InvStep, <1>1, <1>2, <1>3, PTL DEF Spec, ErrorGrantsNothing

-----------------------------------------------------------------------------
\* A request without another beside it does all it was asked.

Assigning == {"assign.role", "assign.existing", "assign.insert"}

\* Whoever holds a role has an account, now and when what handlers hold is written.
Accounted(p) ==
  /\ pc[p] = "user.save" => loaded[p] # "absent"
  /\ pc[p] \in {"role.byName"} \cup Assigning /\ req[p].kind = "createUser" => loaded[p] # "absent"
  /\ pc[p] = "seed.grant" => member[Admin] # "absent"

AccountsOK ==
  /\ \A g \in grants : member[g[1]] # "absent"
  /\ \A p \in Proc : Accounted(p)

\* createWithAdmin: the organization, its administrator and then his role.
KnowsOrg(p) ==
  LET q == req[p] IN
  /\ pc[p] \notin {"org.find", "org.insert"} => q.org \in orgs
  /\ pc[p] \in {"role.byName"} \cup Assigning => member[q.user] = q.org
  /\ pc[p] \in Assigning => found[p] \in Role /\ name[found[p]] = NameOf[OrgAdminRole]

\* createUser and updateUser: the account has no role, then the one asked for.
Given(p, o) ==
  LET q == req[p] IN
  \/ q.role = None
  \/ found[p] \in Role /\ RowsOf(q.user) = {<<q.user, found[p], o>>}

KnowsRole(p) ==
  LET q == req[p] IN
  found[p] \in Role => found[p] = q.role \/ name[found[p]] = q.role

KnowsNewUser(p) ==
  LET q == req[p] IN
  /\ KnowsRole(p)
  /\ pc[p] \in {"role.byName"} \cup Assigning => RowsOf(q.user) = {}
  /\ pc[p] \in {"role.byName", "user.save"} \cup Assigning => loaded[p] = q.org
  /\ pc[p] = "user.save" => Given(p, q.org)

KnowsUser(p) ==
  LET q == req[p] IN
  /\ KnowsRole(p)
  /\ pc[p] = "roles.remove" => RowsOf(q.user) \subseteq left[p]
  /\ pc[p] \in Assigning => RowsOf(q.user) = {}
  /\ pc[p] \in {"user.load", "user.save"} => Given(p, None)

\* The seeds: the roles that are behind are as they should be.
Made(r) == name[r] = NameOf[r] /\ perms[r] = DefaultPerm[r]

KnowsSeeds(p) ==
  /\ pc[p] = "seed.role" => \A r \in DefaultRole \ left[p] : Made(r)
  /\ pc[p] \in {"seed.delete", "seed.insert"} =>
       /\ \A r \in DefaultRole \ (left[p] \cup {found[p]}) : Made(r)
       /\ name[found[p]] = NameOf[found[p]]
  /\ pc[p] = "seed.insert" => perms[found[p]] = {}
  /\ pc[p] \in {"seed.admin", "seed.user", "seed.grant"} => \A r \in DefaultRole : Made(r)

\* The rest hold one thing each.
KnowsRest(p) ==
  LET q == req[p] IN
  /\ q.kind = "invite" /\ pc[p] = "user.save" => loaded[p] = q.org
  /\ q.kind = "assign" /\ pc[p] \in Assigning => found[p] = q.role
  /\ pc[p] = "perms.insert" => perms[q.role] = {}
  /\ pc[p] = "role.insert" => \A r \in Role : name[r] # q.name

Knows(p) ==
  /\ req[p].kind = "createOrg"  => KnowsOrg(p)
  /\ req[p].kind = "createUser" => KnowsNewUser(p)
  /\ req[p].kind = "updateUser" => KnowsUser(p)
  /\ req[p].kind = "seed"       => KnowsSeeds(p)
  /\ KnowsRest(p)

AskedInv == AccountsOK /\ \A p \in Proc : Busy(p) /\ alone[p] => Knows(p)

-----------------------------------------------------------------------------
\* Accounts, roles and what handlers hold.

\* A step of a handler that goes on, and one that ends it.
LEMMA Goes ==
  ASSUME TypeOK, NEW p \in Proc, NEW step, Goto(p, step)
  PROVE  pc'[p] = step /\ req'[p] = req[p]
  BY DEF TypeOK, Goto

LEMMA Ended ==
  ASSUME TypeOK, NEW p \in Proc, NEW last, Ends(p, last)
  PROVE  pc'[p] = last
  BY DEF TypeOK, Ends

\* What a handler holds of an account no other handler touches.
LEMMA LoadedStays ==
  ASSUME IndInv, NEW p \in Proc, Begin(p) \/ Proceed(p) \/ Crash(p), NEW q \in Proc, q # p
  PROVE  loaded'[q] = loaded[q]
<1>1. CASE Begin(p)
  <2>1. \E a \in Request : Start(p, a)
    BY <1>1, BeginStarts
  <2> QED BY <2>1 DEF Start
<1>2. CASE Proceed(p) \/ Crash(p)
  <2> USE DEF Goto, Ends, Continues, locals
  <2>0. loaded \in [Proc -> Org \cup {None, "absent"}]
    BY DEF IndInv, TypeOK
  <2>1. CASE FindOrg(p) \/ InsertOrg(p) \/ FindUser(p) \/ InsertUser(p) \/ LoadUser(p) \/ SaveUser(p)
    BY <2>0, <2>1 DEF FindOrg, InsertOrg, FindUser, InsertUser, LoadUser, SaveUser
  <2>2. CASE RoleByName(p)
    BY <2>0, <2>2 DEF RoleByName
  <2>3. CASE ListRoles(p) \/ RemoveListed(p) \/ AssignRole(p) \/ AssignExisting(p)
             \/ AssignInsert(p) \/ DeleteGrant(p)
    BY <2>0, <2>3 DEF ListRoles, RemoveListed, AssignRole, AssignExisting, AssignInsert, DeleteGrant,
       AfterAssign
  <2>4. CASE PermsRole(p) \/ PermsDelete(p) \/ PermsInsert(p) \/ FindRole(p) \/ InsertRole(p)
             \/ LoadRole(p) \/ SaveRole(p) \/ RemoveRole(p)
    BY <2>0, <2>4 DEF PermsRole, PermsDelete, PermsInsert, FindRole, InsertRole, LoadRole, SaveRole,
       RemoveRole
  <2>5. CASE SeedRole(p) \/ SeedDelete(p) \/ SeedInsert(p) \/ SeedAdmin(p) \/ SeedUser(p)
             \/ SeedGrant(p) \/ Crash(p)
    BY <2>0, <2>5 DEF SeedRole, SeedDelete, SeedInsert, SeedAdmin, SeedUser, SeedGrant, Crash
  <2> QED BY <1>2, <2>1, <2>2, <2>3, <2>4, <2>5 DEF Proceed
<1> QED BY <1>1, <1>2

\* An organization an account may be given is one.
LEMMA OrgPresent ==
  ASSUME TypeOK, NEW o \in orgs \cup {None}
  PROVE  o \in Org \cup {None} /\ o # "absent"
  BY NoneAssumption, KindAssumption DEF TypeOK

\* No statement deletes an account.
LEMMA MemberStays ==
  ASSUME IndInv, AccountsOK, [Next]_vars, NEW u \in User, member[u] # "absent"
  PROVE  member'[u] # "absent"
<1>0. TypeOK /\ member \in [User -> Org \cup {None, "absent"}]
  BY DEF IndInv, TypeOK
<1>1. ASSUME UNCHANGED member PROVE member'[u] # "absent"
  BY <1>1
<1>2. CASE \E p \in Proc : Begin(p) \/ Quiet(p) \/ WritesNames(p) \/ WritesRows(p)
  BY <1>1, <1>2, BeginLocal, QuietLocal, NamesLocal, RowsLocal DEF tables
<1>3. ASSUME NEW p \in Proc, WritesAccounts(p) PROVE member'[u] # "absent"
  <2>1. CASE InsertOrg(p)
    BY <1>1, <2>1 DEF InsertOrg
  <2>2. CASE InsertUser(p)
    <3>1. UNCHANGED member
          \/ (req[p].org \in orgs \cup {None} /\ member' = [member EXCEPT ![req[p].user] = req[p].org])
      BY <2>2 DEF InsertUser
    <3> QED BY <1>0, <1>1, <3>1, OrgPresent
  <2>3. CASE SaveUser(p)
    <3>1. member' = [member EXCEPT ![req[p].user] = loaded[p]] /\ loaded[p] # "absent"
      BY <2>3 DEF SaveUser, At, AccountsOK, Accounted
    <3> QED BY <1>0, <3>1
  <2>4. CASE SeedUser(p)
    BY <1>0, <1>1, <2>4, NoneAssumption DEF SeedUser
  <2> QED BY <1>3, <2>1, <2>2, <2>3, <2>4 DEF WritesAccounts
<1>4. CASE UNCHANGED vars
  BY <1>1, <1>4 DEF vars
<1> QED BY <1>2, <1>3, <1>4, StepCases

\* A row that gives a role is inserted for an account there is.
LEMMA GrantsAccounted ==
  ASSUME IndInv, AccountsOK, [Next]_vars, NEW g \in grants'
  PROVE  member'[g[1]] # "absent"
<1>1. ASSUME g \in grants PROVE member'[g[1]] # "absent"
  <2>1. g[1] \in User /\ member[g[1]] # "absent"
    BY <1>1 DEF IndInv, TypeOK, Grant, AccountsOK
  <2> QED BY <2>1, MemberStays
<1>2. CASE \E p \in Proc : Begin(p) \/ Quiet(p) \/ WritesAccounts(p)
  BY <1>1, <1>2, BeginLocal, QuietLocal, AccountsLocal DEF tables
<1>3. CASE \E p \in Proc : WritesNames(p)
  <2>1. grants' \subseteq grants
    BY <1>3, NamesLocal
  <2> QED BY <1>1, <2>1
<1>4. ASSUME NEW p \in Proc, WritesRows(p) PROVE member'[g[1]] # "absent"
  <2>1. CASE RemoveListed(p) \/ DeleteGrant(p)
    BY <1>1, <2>1 DEF RemoveListed, DeleteGrant
  <2>2. CASE PermsDelete(p) \/ SeedDelete(p) \/ PermsInsert(p) \/ SeedInsert(p)
    BY <1>1, <2>2 DEF PermsDelete, SeedDelete, PermsInsert, SeedInsert
  <2>3. CASE AssignInsert(p)
    BY <1>1, <2>3 DEF AssignInsert
  <2>4. CASE SeedGrant(p)
    <3>1. member[Admin] # "absent" /\ member' = member /\ grants' = grants \cup {<<Admin, SuperRole, None>>}
      BY <2>4 DEF SeedGrant, At, AccountsOK, Accounted
    <3> QED BY <1>1, <3>1
  <2> QED BY <1>4, <2>1, <2>2, <2>3, <2>4 DEF WritesRows
<1>5. CASE UNCHANGED vars
  BY <1>1, <1>5 DEF vars
<1> QED BY <1>2, <1>3, <1>4, <1>5, StepCases

\* What a handler holds of an account as it goes on.
LEMMA AccountedMover ==
  ASSUME IndInv, AccountsOK, [Next]_vars, NEW p \in Proc, Proceed(p), pc'[p] \notin NotBusy
  PROVE  Accounted(p)'
<1> USE DEF At
<1>0. /\ TypeOK /\ Coherent(p) /\ Accounted(p)
      /\ pc \in [Proc -> Steps] /\ loaded \in [Proc -> Org \cup {None, "absent"}]
  BY DEF IndInv, HandlersOK, TypeOK, AccountsOK
<1>1. ~Ends(p, "ok") /\ ~Ends(p, "error")
  BY <1>0, Ended DEF NotBusy, Answers
<1>2. ASSUME NEW step, Goto(p, step),
             step \notin {"user.save", "role.byName", "seed.grant"} \cup Assigning
      PROVE  Accounted(p)'
  BY <1>0, <1>2, Goes DEF Accounted
<1>3. ASSUME NEW step, Goto(p, step), step # "seed.grant", loaded'[p] # "absent"
      PROVE  Accounted(p)'
  BY <1>0, <1>3, Goes DEF Accounted
<1>4. ASSUME NEW step, Goto(p, step), step \in Assigning,
             req[p].kind = "createUser" => loaded[p] # "absent", loaded'[p] = loaded[p]
      PROVE  Accounted(p)'
  BY <1>0, <1>4, Goes DEF Accounted, Assigning
<1> USE DEF Continues
<1>5. CASE FindOrg(p) \/ InsertOrg(p) \/ FindUser(p)
  BY <1>1, <1>2, <1>5 DEF FindOrg, InsertOrg, FindUser, Assigning
<1>6. CASE InsertUser(p)
  <2>1. /\ \E step \in {"role.byName", "user.save", "assign.role"} : Goto(p, step)
        /\ loaded'[p] = req[p].org /\ req[p].org \in orgs \cup {None}
    BY <1>0, <1>1, <1>6 DEF InsertUser
  <2> QED BY <1>0, <1>3, <2>1, OrgPresent
<1>7. CASE LoadUser(p)
  <2>1. /\ Goto(p, "user.save")
        /\ loaded'[p] = IF req[p].kind = "invite" THEN req[p].org ELSE member[req[p].user]
        /\ member[req[p].user] # "absent"
    BY <1>0, <1>1, <1>7 DEF LoadUser
  <2>2. req[p].kind = "invite" => req[p].org # "absent"
    BY <1>0, <1>7, KindAssumption DEF LoadUser, Coherent, WellFormed, NotBusy, Answers
  <2> QED BY <1>3, <2>1, <2>2
<1>8. CASE RoleByName(p)
  <2>1. /\ Goto(p, "roles.list") \/ Goto(p, "assign.role")
        /\ loaded'[p] = loaded[p] /\ pc[p] = "role.byName"
    BY <1>1, <1>8 DEF RoleByName, locals
  <2> QED BY <1>0, <1>2, <1>4, <2>1 DEF Accounted, Assigning
<1>9. CASE ListRoles(p) \/ PermsRole(p) \/ PermsDelete(p) \/ FindRole(p) \/ LoadRole(p)
  BY <1>1, <1>2, <1>9 DEF ListRoles, PermsRole, PermsDelete, FindRole, LoadRole, Assigning
<1>10. CASE RemoveListed(p)
  <2>1. /\ Goto(p, "roles.remove") \/ Goto(p, "assign.role")
        /\ loaded'[p] = loaded[p] /\ pc[p] = "roles.remove"
    BY <1>10 DEF RemoveListed, locals
  <2>2. req[p].kind = "updateUser"
    BY <1>0, <2>1 DEF Coherent, Serves, NotBusy, Answers
  <2> QED BY <1>2, <1>4, <2>1, <2>2 DEF Assigning
<1>11. CASE AssignRole(p)
  <2>1. Goto(p, "assign.existing") /\ loaded'[p] = loaded[p] /\ pc[p] = "assign.role"
    BY <1>1, <1>11 DEF AssignRole, locals
  <2> QED BY <1>0, <1>4, <2>1 DEF Accounted, Assigning
<1>12. CASE AssignExisting(p) \/ AssignInsert(p)
  <2>1. /\ \/ Goto(p, "assign.insert")
           \/ Goto(p, "user.save") /\ req[p].kind = "createUser"
           \/ Goto(p, "user.load")
        /\ loaded'[p] = loaded[p] /\ pc[p] \in {"assign.existing", "assign.insert"}
    BY <1>1, <1>12 DEF AssignExisting, AssignInsert, AfterAssign, locals
  <2>2. req[p].kind = "createUser" => loaded[p] # "absent"
    BY <1>0, <2>1 DEF Accounted, Assigning
  <2>3. CASE Goto(p, "user.load")
    BY <1>2, <2>3 DEF Assigning
  <2>4. CASE Goto(p, "assign.insert")
    BY <1>4, <2>1, <2>2, <2>4 DEF Assigning
  <2>5. CASE Goto(p, "user.save") /\ req[p].kind = "createUser"
    BY <1>3, <2>1, <2>2, <2>5
  <2> QED BY <2>1, <2>3, <2>4, <2>5
<1>13. CASE SeedRole(p) \/ SeedDelete(p) \/ SeedInsert(p) \/ SeedAdmin(p)
  BY <1>1, <1>2, <1>13 DEF SeedRole, SeedDelete, SeedInsert, SeedAdmin, Assigning
<1>14. CASE SeedUser(p)
  <2>1. Goto(p, "seed.grant") /\ member' = [member EXCEPT ![Admin] = None]
    BY <1>1, <1>14 DEF SeedUser
  <2>2. member'[Admin] # "absent"
    BY <2>1, NoneAssumption, SeedAssumption DEF IndInv, TypeOK
  <2>3. pc'[p] = "seed.grant"
    BY <1>0, <2>1, Goes
  <2> QED BY <2>2, <2>3 DEF Accounted, Assigning
<1>15. ~(SaveUser(p) \/ DeleteGrant(p) \/ PermsInsert(p) \/ InsertRole(p) \/ SaveRole(p)
         \/ RemoveRole(p) \/ SeedGrant(p))
  BY <1>1 DEF SaveUser, DeleteGrant, PermsInsert, InsertRole, SaveRole, RemoveRole, SeedGrant
<1> QED BY <1>5, <1>6, <1>7, <1>8, <1>9, <1>10, <1>11, <1>12, <1>13, <1>14, <1>15 DEF Proceed

\* Whoever holds a role has an account, whatever runs.
LEMMA AccountsStep ==
  ASSUME IndInv, AccountsOK, [Next]_vars
  PROVE  AccountsOK'
<1>0. TypeOK /\ \A p \in Proc : Accounted(p)
  BY DEF IndInv, AccountsOK
<1>1. CASE UNCHANGED vars
  BY <1>1 DEF vars, AccountsOK, Accounted
<1>2. ASSUME NEW p \in Proc, Begin(p) \/ Proceed(p) \/ Crash(p), NEW q \in Proc PROVE Accounted(q)'
  <2>1. CASE q # p
    <3>1. Local(p)
      BY <1>2, BeginLocal, QuietLocal, AccountsLocal, NamesLocal, RowsLocal
         DEF Proceed, Quiet, WritesAccounts, WritesNames, WritesRows
    <3>2. pc'[q] = pc[q] /\ req'[q] = req[q] /\ loaded'[q] = loaded[q]
      BY <1>2, <2>1, <3>1, LoadedStays DEF Local, Others
    <3>3. Admin \in User
      BY SeedAssumption
    <3> QED BY <1>0, <3>2, <3>3, MemberStays DEF Accounted
  <2>2. CASE q = p /\ Begin(p)
    <3>1. PICK a \in Request : Start(p, a)
      BY <2>2, BeginStarts
    <3>2. pc'[p] = First(a) /\ req'[p] = a
      BY <1>0, <3>1, StartMoves
    <3>3. /\ First(a) \notin {"user.save", "seed.grant"} \cup Assigning \/ a.kind = "assign"
          /\ First(a) = "assign.role" \/ First(a) \notin {"user.save", "seed.grant"} \cup Assigning
          /\ First(a) = "role.byName" => a.kind = "updateUser"
      BY DEF First, Request, Kind, Assigning
    <3> QED BY <2>2, <3>2, <3>3 DEF Accounted, Assigning
  <2>3. CASE q = p /\ (Proceed(p) \/ Crash(p))
    <3>1. CASE pc'[p] \in NotBusy
      BY <2>3, <3>1 DEF Accounted, Assigning, NotBusy, Answers
    <3>2. CASE pc'[p] \notin NotBusy
      <4>1. ~Crash(p)
        BY <1>0, <3>2, Ended DEF Crash, NotBusy
      <4> QED BY <2>3, <3>2, <4>1, AccountedMover
    <3> QED BY <3>1, <3>2
  <2> QED BY <1>2, <2>1, <2>2, <2>3
<1>3. (\A g \in grants : member[g[1]] # "absent")'
  BY GrantsAccounted
<1> QED BY <1>1, <1>2, <1>3 DEF Next, Rest, AccountsOK

-----------------------------------------------------------------------------
\* What each kind of request knows as it goes on, and at its answer.

\* The statements of each kind of request.
LEMMA KindSteps ==
  ASSUME IndInv, NEW p \in Proc, Proceed(p)
  PROVE  LET k == req[p].kind IN
         /\ WellFormed(req[p]) /\ k \in Kind
         /\ k = "createOrg" => \/ FindOrg(p) \/ InsertOrg(p) \/ FindUser(p) \/ InsertUser(p) \/ RoleByName(p)
                               \/ AssignRole(p) \/ AssignExisting(p) \/ AssignInsert(p)
         /\ k = "createUser" => \/ FindUser(p) \/ InsertUser(p) \/ RoleByName(p) \/ SaveUser(p)
                                \/ AssignRole(p) \/ AssignExisting(p) \/ AssignInsert(p)
         /\ k = "updateUser" => \/ RoleByName(p) \/ ListRoles(p) \/ RemoveListed(p) \/ AssignRole(p)
                                \/ AssignExisting(p) \/ AssignInsert(p) \/ LoadUser(p) \/ SaveUser(p)
         /\ k = "assign" => AssignRole(p) \/ AssignExisting(p) \/ AssignInsert(p)
         /\ k = "remove" => DeleteGrant(p)
         /\ k = "setPerms" => PermsRole(p) \/ PermsDelete(p) \/ PermsInsert(p)
         /\ k = "createRole" => FindRole(p) \/ InsertRole(p)
         /\ k = "updateRole" => LoadRole(p) \/ SaveRole(p)
         /\ k = "deleteRole" => LoadRole(p) \/ RemoveRole(p)
         /\ k = "invite" => FindOrg(p) \/ LoadUser(p) \/ SaveUser(p)
         /\ k = "seed" => \/ SeedRole(p) \/ SeedDelete(p) \/ SeedInsert(p)
                          \/ SeedAdmin(p) \/ SeedUser(p) \/ SeedGrant(p)
<1>1. TypeOK /\ Coherent(p) /\ pc[p] \notin NotBusy
  BY ProceedAlone DEF IndInv, HandlersOK
<1>2. Serves(pc[p], req[p].kind) /\ WellFormed(req[p]) /\ req[p].kind \in Kind
  BY <1>1 DEF Coherent, TypeOK, Request
<1>3. /\ FindOrg(p) => pc[p] = "org.find"
      /\ InsertOrg(p) => pc[p] = "org.insert"
      /\ FindUser(p) => pc[p] = "user.find"
      /\ InsertUser(p) => pc[p] = "user.insert"
      /\ LoadUser(p) => pc[p] = "user.load"
      /\ SaveUser(p) => pc[p] = "user.save"
      /\ RoleByName(p) => pc[p] = "role.byName"
      /\ ListRoles(p) => pc[p] = "roles.list"
      /\ RemoveListed(p) => pc[p] = "roles.remove"
      /\ AssignRole(p) => pc[p] = "assign.role"
      /\ AssignExisting(p) => pc[p] = "assign.existing"
      /\ AssignInsert(p) => pc[p] = "assign.insert"
      /\ DeleteGrant(p) => pc[p] = "grant.delete"
  BY DEF At, FindOrg, InsertOrg, FindUser, InsertUser, LoadUser, SaveUser, RoleByName, ListRoles,
     RemoveListed, AssignRole, AssignExisting, AssignInsert, DeleteGrant
<1>4. /\ PermsRole(p) => pc[p] = "perms.role"
      /\ PermsDelete(p) => pc[p] = "perms.delete"
      /\ PermsInsert(p) => pc[p] = "perms.insert"
      /\ FindRole(p) => pc[p] = "role.find"
      /\ InsertRole(p) => pc[p] = "role.insert"
      /\ LoadRole(p) => pc[p] = "role.load"
      /\ SaveRole(p) => pc[p] = "role.save"
      /\ RemoveRole(p) => pc[p] = "role.remove"
      /\ SeedRole(p) => pc[p] = "seed.role"
      /\ SeedDelete(p) => pc[p] = "seed.delete"
      /\ SeedInsert(p) => pc[p] = "seed.insert"
      /\ SeedAdmin(p) => pc[p] = "seed.admin"
      /\ SeedUser(p) => pc[p] = "seed.user"
      /\ SeedGrant(p) => pc[p] = "seed.grant"
  BY DEF At, PermsRole, PermsDelete, PermsInsert, FindRole, InsertRole, LoadRole, SaveRole, RemoveRole,
     SeedRole, SeedDelete, SeedInsert, SeedAdmin, SeedUser, SeedGrant
<1> QED BY <1>2, <1>3, <1>4 DEF Proceed, Serves

\* A handler that serves a request: it goes on, it fails, or it has done what it was asked.
Serving(p, K) == (pc'[p] = "ok" => Fulfilled(req[p])) /\ (pc'[p] \notin NotBusy => K)

\* A handler that fails has nothing to show.
LEMMA Failed ==
  ASSUME TypeOK, NEW p \in Proc, Ends(p, "error")
  PROVE  pc'[p] \in NotBusy /\ pc'[p] # "ok"
  BY Ended DEF NotBusy, Answers

\* createWithAdmin, step by step.
LEMMA OrgMover ==
  ASSUME IndInv, NEW p \in Proc, Proceed(p), req[p].kind = "createOrg", KnowsOrg(p)
  PROVE  Serving(p, KnowsOrg(p)')
<1> USE DEF Continues, locals, tables, At
<1> DEFINE q == req[p]
<1>0. /\ TypeOK /\ q.user \in User /\ member \in [User -> Org \cup {None, "absent"}]
      /\ found \in [Proc -> Role \cup {None}]
  BY KindSteps DEF IndInv, TypeOK, WellFormed
<1> HIDE DEF q
<1>1. ASSUME NEW step, Goto(p, step), step \notin {"role.byName"} \cup Assigning,
             step = "org.insert" \/ q.org \in orgs', step # "ok"
      PROVE  Serving(p, KnowsOrg(p)')
  BY <1>0, <1>1, Goes DEF Serving, KnowsOrg, q
<1>2. ASSUME NEW step \in Assigning, Goto(p, step), UNCHANGED <<orgs, member, name>>,
             pc[p] \in Assigning, found'[p] = found[p]
      PROVE  Serving(p, KnowsOrg(p)')
  BY <1>0, <1>2, Goes DEF Serving, KnowsOrg, Assigning, NotBusy, Answers
<1>3. ASSUME Ends(p, "ok"), UNCHANGED <<orgs, member, name>>, pc[p] \in Assigning,
             <<q.user, found[p], q.org>> \in grants'
      PROVE  Serving(p, KnowsOrg(p)')
  <2>1. q.org \in orgs /\ member[q.user] = q.org /\ found[p] \in Role /\ name[found[p]] = NameOf[OrgAdminRole]
    BY <1>3 DEF KnowsOrg, Assigning, q
  <2>2. Fulfilled(q)
    BY <1>3, <2>1 DEF Fulfilled, q
  <2> QED BY <1>0, <1>3, <2>2, Ended DEF Serving, q, NotBusy, Answers
<1>4. CASE FindOrg(p)
  BY <1>0, <1>1, <1>4, Failed DEF Serving, FindOrg, Assigning
<1>5. CASE InsertOrg(p)
  BY <1>0, <1>1, <1>5, Failed DEF Serving, InsertOrg, Assigning, q
<1>6. CASE FindUser(p)
  <2>1. q.org \in orgs'
    BY <1>6 DEF FindUser, KnowsOrg, Assigning, q
  <2> QED BY <1>0, <1>1, <1>6, <2>1, Failed DEF Serving, FindUser, Assigning
<1>7. CASE InsertUser(p)
  <2>1. CASE Ends(p, "error")
    BY <1>0, <2>1, Failed DEF Serving
  <2>2. CASE ~Ends(p, "error")
    <3>1. Goto(p, "role.byName") /\ member' = [member EXCEPT ![q.user] = q.org] /\ orgs' = orgs
      BY <1>7, <2>2 DEF InsertUser, q
    <3>2. member'[q.user] = q.org /\ q.org \in orgs'
      BY <1>0, <1>7, <3>1 DEF KnowsOrg, InsertUser, q
    <3> QED BY <1>0, <3>1, <3>2, Goes DEF Serving, KnowsOrg, Assigning, q
  <2> QED BY <2>1, <2>2
<1>8. CASE RoleByName(p)
  <2>0. q.org \in orgs /\ member[q.user] = q.org /\ UNCHANGED <<orgs, member, name>>
    BY <1>8 DEF KnowsOrg, RoleByName, q
  <2>1. CASE Ends(p, "ok") /\ {r \in Role : name[r] = NameOf[OrgAdminRole]} = {}
    <3>1. Fulfilled(q)
      BY <2>0, <2>1 DEF Fulfilled, q
    <3> QED BY <1>0, <2>1, <3>1, Ended DEF Serving, q, NotBusy, Answers
  <2>2. ASSUME NEW r \in Role, name[r] = NameOf[OrgAdminRole],
               found' = [found EXCEPT ![p] = r], Goto(p, "assign.role")
        PROVE  Serving(p, KnowsOrg(p)')
    <3>1. found'[p] = r
      BY <1>0, <2>2
    <3> QED BY <1>0, <2>0, <2>2, <3>1, Goes DEF Serving, KnowsOrg, q
  <2> QED BY <1>8, <2>1, <2>2 DEF RoleByName
<1>9. CASE AssignRole(p)
  BY <1>0, <1>2, <1>9, Failed DEF Serving, AssignRole, Assigning
<1>10. CASE AssignExisting(p)
  BY <1>2, <1>3, <1>10 DEF AssignExisting, Assigning, AfterAssign, Assigned, q
<1>11. CASE AssignInsert(p)
  BY <1>0, <1>3, <1>11, Failed DEF Serving, AssignInsert, Assigning, AfterAssign, Assigned, q
<1> QED BY <1>4, <1>5, <1>6, <1>7, <1>8, <1>9, <1>10, <1>11, KindSteps

\* Creating an account, step by step.
LEMMA NewUserMover ==
  ASSUME IndInv, AccountsOK, NEW p \in Proc, Proceed(p), req[p].kind = "createUser", KnowsNewUser(p)
  PROVE  Serving(p, KnowsNewUser(p)')
<1> USE DEF Continues, locals, tables, At
<1> DEFINE q == req[p]
<1>0. /\ TypeOK /\ q.user \in User /\ member \in [User -> Org \cup {None, "absent"}]
      /\ found \in [Proc -> Role \cup {None}] /\ loaded \in [Proc -> Org \cup {None, "absent"}]
      /\ pc[p] \notin NotBusy /\ Coherent(p)
  BY KindSteps, ProceedAlone DEF IndInv, HandlersOK, TypeOK, WellFormed
<1> HIDE DEF q
<1>1. KnowsRole(p)
  BY DEF KnowsNewUser
<1>2. ASSUME UNCHANGED <<name, found>>, NEW step, Goto(p, step), step # "ok",
             step \notin {"role.byName", "user.save"} \cup Assigning
      PROVE  Serving(p, KnowsNewUser(p)')
  BY <1>0, <1>1, <1>2, Goes DEF Serving, KnowsNewUser, KnowsRole, q
<1>3. ASSUME NEW step \in {"role.byName"} \cup Assigning, Goto(p, step), KnowsRole(p)',
             grants' = grants, loaded'[p] = q.org, RowsOf(q.user) = {}
      PROVE  Serving(p, KnowsNewUser(p)')
  <2>1. pc'[p] = step /\ req'[p] = q /\ step # "user.save" /\ step # "ok"
    BY <1>0, <1>3, Goes DEF q, Assigning
  <2>2. RowsOf(q.user)' = {}
    BY <1>3, <2>1 DEF RowsOf, q
  <2> QED BY <1>3, <2>1, <2>2 DEF Serving, KnowsNewUser, q
<1>4. ASSUME Goto(p, "user.save"), UNCHANGED <<name, found>>, loaded'[p] = q.org, Given(p, q.org)'
      PROVE  Serving(p, KnowsNewUser(p)')
  <2>1. pc'[p] = "user.save" /\ req'[p] = q
    BY <1>0, <1>4, Goes DEF q
  <2> QED BY <1>1, <1>4, <2>1 DEF Serving, KnowsNewUser, KnowsRole, Assigning, q
<1>5. CASE FindUser(p)
  BY <1>0, <1>2, <1>5, Failed DEF Serving, FindUser, Assigning
<1>6. CASE InsertUser(p)
  <2>1. CASE Ends(p, "error")
    BY <1>0, <2>1, Failed DEF Serving
  <2>2. CASE ~Ends(p, "error")
    <3>1. /\ member[q.user] = "absent" /\ UNCHANGED <<name, found, grants>>
          /\ loaded' = [loaded EXCEPT ![p] = q.org]
          /\ \/ Goto(p, "role.byName") \/ Goto(p, "assign.role")
             \/ Goto(p, "user.save") /\ q.role = None
      BY <1>6, <2>2 DEF InsertUser, q
    <3>2. RowsOf(q.user) = {}
      BY <3>1 DEF AccountsOK, RowsOf
    <3>3. KnowsRole(p)' /\ loaded'[p] = q.org
      BY <1>0, <1>1, <3>1, Goes DEF KnowsRole
    <3>4. CASE Goto(p, "role.byName") \/ Goto(p, "assign.role")
      BY <1>3, <3>1, <3>2, <3>3, <3>4 DEF Assigning
    <3>5. CASE Goto(p, "user.save") /\ q.role = None
      <4>1. Given(p, q.org)'
        BY <1>0, <3>5, Goes DEF Given, q
      <4> QED BY <1>4, <3>1, <3>3, <3>5, <4>1
    <3> QED BY <3>1, <3>4, <3>5
  <2> QED BY <2>1, <2>2
<1>7. CASE RoleByName(p)
  <2>1. /\ UNCHANGED <<name, grants>> /\ Goto(p, "assign.role") /\ loaded'[p] = loaded[p]
        /\ \/ found' = found
           \/ \E r \in Role : found' = [found EXCEPT ![p] = r] /\ name[r] = q.role
    BY <1>7 DEF RoleByName, q
  <2>2. KnowsRole(p)'
    BY <1>0, <1>1, <2>1, Goes DEF KnowsRole, q
  <2>3. loaded[p] = q.org /\ RowsOf(q.user) = {}
    BY <1>7 DEF RoleByName, KnowsNewUser, q
  <2> QED BY <1>3, <2>1, <2>2, <2>3 DEF Assigning
<1>8. ASSUME pc[p] \in Assigning, UNCHANGED <<name, found, grants, loaded>>,
             NEW step \in Assigning, Goto(p, step)
      PROVE  Serving(p, KnowsNewUser(p)')
  <2>1. loaded[p] = q.org /\ RowsOf(q.user) = {}
    BY <1>8 DEF KnowsNewUser, q
  <2>2. KnowsRole(p)'
    BY <1>0, <1>1, <1>8, Goes DEF KnowsRole
  <2> QED BY <1>3, <1>8, <2>1, <2>2
<1>9. CASE AssignRole(p)
  BY <1>0, <1>8, <1>9, Failed DEF Serving, AssignRole, Assigning
<1>10. CASE AssignExisting(p)
  <2>1. pc[p] \in Assigning /\ RowsOf(q.user) = {}
    BY <1>10 DEF AssignExisting, KnowsNewUser, Assigning, q
  <2>2. Assigned(p) \notin grants
    BY <2>1 DEF Assigned, RowsOf, q
  <2> QED BY <1>8, <1>10, <2>1, <2>2 DEF AssignExisting, Assigning
<1>11. CASE AssignInsert(p)
  <2>1. CASE Ends(p, "error")
    BY <1>0, <2>1, Failed DEF Serving
  <2>2. CASE ~Ends(p, "error")
    <3>1. /\ grants' = grants \cup {<<q.user, found[p], q.org>>}
          /\ Goto(p, "user.save") /\ UNCHANGED <<name, found, loaded>> /\ pc[p] = "assign.insert"
      BY <1>11, <2>2 DEF AssignInsert, AfterAssign, Assigned, q
    <3>2. loaded[p] = q.org /\ RowsOf(q.user) = {} /\ found[p] \in Role
      BY <1>0, <3>1 DEF KnowsNewUser, Coherent, Assigning, q
    <3>3. RowsAfter(q.user) = {<<q.user, found[p], q.org>>}
      BY <3>1, <3>2 DEF RowsOf, RowsAfter
    <3>4. Given(p, q.org)'
      BY <1>0, <3>1, <3>2, <3>3, Goes DEF Given, RowsOf, RowsAfter, q
    <3> QED BY <1>4, <3>1, <3>2, <3>4
  <2> QED BY <2>1, <2>2
<1>12. CASE SaveUser(p)
  <2>1. /\ member' = [member EXCEPT ![q.user] = loaded[p]] /\ Ends(p, "ok")
        /\ UNCHANGED <<name, grants>> /\ pc[p] = "user.save"
    BY <1>12 DEF SaveUser, q
  <2>2. member'[q.user] = q.org /\ Given(p, q.org)
    BY <1>0, <2>1 DEF KnowsNewUser, q
  <2>3. q.role = None \/ \E r \in Role : Means(q.role, r) /\ RowsAfter(q.user) = {<<q.user, r, q.org>>}
    BY <1>1, <2>1, <2>2 DEF Given, KnowsRole, Means, RowsAfter, RowsOf, q
  <2>4. Fulfilled(q)
    BY <2>2, <2>3 DEF Fulfilled, q
  <2> QED BY <1>0, <2>1, <2>4, Ended DEF Serving, NotBusy, Answers, q
<1> QED BY <1>5, <1>6, <1>7, <1>9, <1>10, <1>11, <1>12, KindSteps

\* Updating an account, step by step.
LEMMA UserMover ==
  ASSUME IndInv, NEW p \in Proc, Proceed(p), req[p].kind = "updateUser", KnowsUser(p)
  PROVE  Serving(p, KnowsUser(p)')
<1> USE DEF Continues, locals, tables, At
<1> DEFINE q == req[p]
<1>0. /\ TypeOK /\ q.user \in User
      /\ found \in [Proc -> Role \cup {None}] /\ left \in [Proc -> (SUBSET Grant) \cup (SUBSET Role)]
      /\ pc[p] \notin NotBusy /\ Coherent(p)
  BY KindSteps, ProceedAlone DEF IndInv, HandlersOK, TypeOK, WellFormed
<1> HIDE DEF q
<1>1. KnowsRole(p)
  BY DEF KnowsUser
<1>2. ASSUME UNCHANGED <<name, found, grants>>, NEW step \in {"assign.existing", "assign.insert"},
             pc[p] \in Assigning, Goto(p, step)
      PROVE  Serving(p, KnowsUser(p)')
  BY <1>0, <1>1, <1>2, Goes DEF Serving, KnowsUser, KnowsRole, RowsOf, Assigning
<1>3. CASE RoleByName(p)
  <2>1. /\ name' = name /\ Goto(p, "roles.list")
        /\ \/ found' = found
           \/ \E r \in Role : found' = [found EXCEPT ![p] = r] /\ name[r] = q.role
    BY <1>3 DEF RoleByName, q
  <2> QED BY <1>0, <1>1, <2>1, Goes DEF Serving, KnowsUser, KnowsRole, Assigning, q
<1>4. CASE ListRoles(p)
  <2>1. /\ UNCHANGED <<name, found, grants>> /\ Goto(p, "roles.remove")
        /\ left' = [left EXCEPT ![p] = RowsOf(q.user)]
    BY <1>4 DEF ListRoles, q
  <2>2. left'[p] = RowsOf(q.user)
    BY <1>0, <2>1
  <2> QED BY <1>0, <1>1, <2>1, <2>2, Goes DEF Serving, KnowsUser, KnowsRole, RowsOf, Assigning, q
<1>5. CASE RemoveListed(p)
  <2>0. RowsOf(q.user) \subseteq left[p] /\ UNCHANGED <<name, found>>
    BY <1>5 DEF RemoveListed, KnowsUser, q
  <2>1. ASSUME NEW g \in left[p], grants' = grants \ {g}, left' = [left EXCEPT ![p] = @ \ {g}],
               Goto(p, "roles.remove")
        PROVE  Serving(p, KnowsUser(p)')
    <3>1. RowsAfter(q.user) \subseteq left'[p]
      BY <1>0, <2>0, <2>1 DEF RowsOf, RowsAfter
    <3> QED BY <1>0, <1>1, <2>0, <2>1, <3>1, Goes
            DEF Serving, KnowsUser, KnowsRole, RowsOf, RowsAfter, Assigning, q
  <2>2. CASE left[p] = {} /\ Goto(p, "assign.role") /\ grants' = grants
    BY <1>0, <1>1, <2>0, <2>2, Goes DEF Serving, KnowsUser, KnowsRole, RowsOf, Assigning, q
  <2> QED BY <1>5, <2>1, <2>2 DEF RemoveListed
<1>6. CASE AssignRole(p)
  BY <1>0, <1>2, <1>6, Failed DEF Serving, AssignRole, Assigning
<1>7. CASE AssignExisting(p)
  <2>1. pc[p] \in Assigning /\ RowsOf(q.user) = {}
    BY <1>7 DEF AssignExisting, KnowsUser, Assigning, q
  <2>2. Assigned(p) \notin grants
    BY <2>1 DEF Assigned, RowsOf, q
  <2> QED BY <1>2, <1>7, <2>1, <2>2 DEF AssignExisting
<1>8. CASE AssignInsert(p)
  <2>1. CASE Ends(p, "error")
    BY <1>0, <2>1, Failed DEF Serving
  <2>2. CASE ~Ends(p, "error")
    <3>1. /\ grants' = grants \cup {<<q.user, found[p], None>>}
          /\ Goto(p, "user.load") /\ UNCHANGED <<name, found>> /\ pc[p] = "assign.insert"
      BY <1>8, <2>2 DEF AssignInsert, AfterAssign, Assigned, q
    <3>2. RowsOf(q.user) = {} /\ found[p] \in Role
      BY <1>0, <3>1 DEF KnowsUser, Coherent, Assigning, q
    <3>3. RowsAfter(q.user) = {<<q.user, found[p], None>>}
      BY <3>1, <3>2 DEF RowsOf, RowsAfter
    <3> QED BY <1>0, <1>1, <3>1, <3>2, <3>3, Goes
            DEF Serving, KnowsUser, KnowsRole, Given, RowsOf, RowsAfter, Assigning, q
  <2> QED BY <2>1, <2>2
<1>9. CASE LoadUser(p)
  <2>1. CASE Ends(p, "error")
    BY <1>0, <2>1, Failed DEF Serving
  <2>2. CASE ~Ends(p, "error")
    <3>1. UNCHANGED <<name, found, grants>> /\ Given(p, None) /\ Goto(p, "user.save")
      BY <1>9, <2>2 DEF LoadUser, KnowsUser, q
    <3> QED BY <1>0, <1>1, <3>1, Goes DEF Serving, KnowsUser, KnowsRole, Given, RowsOf, Assigning, q
  <2> QED BY <2>1, <2>2
<1>10. CASE SaveUser(p)
  <2>1. Ends(p, "ok") /\ UNCHANGED <<name, grants>> /\ Given(p, None)
    BY <1>10 DEF SaveUser, KnowsUser, q
  <2>2. q.role = None \/ \E r \in Role : Means(q.role, r) /\ RowsAfter(q.user) = {<<q.user, r, None>>}
    BY <1>1, <2>1 DEF Given, KnowsRole, Means, RowsAfter, RowsOf, q
  <2>3. Fulfilled(q)
    BY <2>2 DEF Fulfilled, q
  <2> QED BY <1>0, <2>1, <2>3, Ended DEF Serving, NotBusy, Answers, q
<1> QED BY <1>3, <1>4, <1>5, <1>6, <1>7, <1>8, <1>9, <1>10, KindSteps

\* The seeds, step by step.
LEMMA SeedsMover ==
  ASSUME IndInv, AccountsOK, NEW p \in Proc, Proceed(p), req[p].kind = "seed", KnowsSeeds(p)
  PROVE  Serving(p, KnowsSeeds(p)')
<1> USE DEF Continues, locals, tables, At
<1>0. /\ TypeOK /\ SeedKnows(p) /\ Accounted(p) /\ DefaultRole \subseteq Role
      /\ name \in [Role -> Name \cup {"unborn", "gone"}] /\ perms \in [Role -> SUBSET Perm]
      /\ found \in [Proc -> Role \cup {None}] /\ left \in [Proc -> (SUBSET Grant) \cup (SUBSET Role)]
  BY SeedAssumption DEF IndInv, HandlersOK, AccountsOK, TypeOK
<1>1. ASSUME \A r \in DefaultRole : Made(r), UNCHANGED <<name, perms>>,
             NEW step \in {"seed.admin", "seed.user", "seed.grant"}, Goto(p, step)
      PROVE  Serving(p, KnowsSeeds(p)')
  BY <1>0, <1>1, Goes DEF Serving, KnowsSeeds, Made
<1>2. ASSUME \A r \in DefaultRole : Made(r), UNCHANGED <<name, perms>>, member'[Admin] # "absent",
             Ends(p, "ok")
      PROVE  Serving(p, KnowsSeeds(p)')
  <2>1. Fulfilled(req[p])
    BY <1>2 DEF Fulfilled, Made
  <2> QED BY <1>0, <1>2, <2>1, Ended DEF Serving, NotBusy, Answers
<1>3. CASE SeedRole(p)
  <2>0. \A r \in DefaultRole \ left[p] : Made(r)
    BY <1>3 DEF SeedRole, KnowsSeeds
  <2>1. CASE left[p] = {} /\ Goto(p, "seed.admin") /\ UNCHANGED <<name, perms>>
    BY <1>1, <2>0, <2>1
  <2>2. ASSUME NEW r \in left[p], name' = [name EXCEPT ![r] = NameOf[r]], perms' = perms,
               found' = [found EXCEPT ![p] = r], left' = [left EXCEPT ![p] = @ \ {r}],
               Goto(p, "seed.delete")
        PROVE  Serving(p, KnowsSeeds(p)')
    <3>1. r \in DefaultRole
      BY <1>0, <1>3 DEF SeedRole, SeedKnows
    <3>2. found'[p] = r /\ left'[p] = left[p] \ {r} /\ name'[r] = NameOf[r]
          /\ \A s \in DefaultRole \ {r} : name'[s] = name[s]
      BY <1>0, <2>2, <3>1
    <3> QED BY <1>0, <2>0, <2>2, <3>1, <3>2, Goes DEF Serving, KnowsSeeds, Made
  <2> QED BY <1>3, <2>1, <2>2 DEF SeedRole
<1>4. CASE SeedDelete(p)
  <2>1. /\ perms' = [perms EXCEPT ![found[p]] = {}] /\ Goto(p, "seed.insert")
        /\ UNCHANGED <<name, found, left>> /\ pc[p] = "seed.delete"
    BY <1>4 DEF SeedDelete
  <2>2. found[p] \in DefaultRole /\ perms'[found[p]] = {}
        /\ \A s \in DefaultRole \ {found[p]} : perms'[s] = perms[s]
    BY <1>0, <2>1 DEF SeedKnows
  <2> QED BY <1>0, <2>1, <2>2, Goes DEF Serving, KnowsSeeds, Made
<1>5. CASE SeedInsert(p)
  <2>1. CASE Ends(p, "error")
    BY <1>0, <2>1, Failed DEF Serving
  <2>2. CASE ~Ends(p, "error")
    <3>1. /\ perms' = [perms EXCEPT ![found[p]] = @ \cup DefaultPerm[found[p]]] /\ Goto(p, "seed.role")
          /\ UNCHANGED <<name, found, left>> /\ pc[p] = "seed.insert"
      BY <1>5, <2>2 DEF SeedInsert
    <3>2. /\ found[p] \in DefaultRole /\ perms'[found[p]] = DefaultPerm[found[p]]
          /\ \A s \in DefaultRole \ {found[p]} : perms'[s] = perms[s]
      BY <1>0, <3>1 DEF SeedKnows, KnowsSeeds
    <3>3. \A s \in DefaultRole \ left[p] : Made(s)'
      BY <3>1, <3>2 DEF KnowsSeeds, Made
    <3> QED BY <1>0, <3>1, <3>3, Goes DEF Serving, KnowsSeeds
  <2> QED BY <2>1, <2>2
<1>6. CASE SeedAdmin(p)
  BY <1>1, <1>2, <1>6 DEF SeedAdmin, KnowsSeeds
<1>7. CASE SeedUser(p)
  BY <1>0, <1>1, <1>7, Failed DEF Serving, SeedUser, KnowsSeeds
<1>8. CASE SeedGrant(p)
  BY <1>0, <1>2, <1>8 DEF SeedGrant, KnowsSeeds, Accounted
<1> QED BY <1>3, <1>4, <1>5, <1>6, <1>7, <1>8, KindSteps

\* The requests that hold one thing or none, step by step.
LEMMA RestMover ==
  ASSUME IndInv, NEW p \in Proc, Proceed(p), KnowsRest(p),
         req[p].kind \notin {"createOrg", "createUser", "updateUser", "seed"}
  PROVE  Serving(p, KnowsRest(p)')
<1> USE DEF Continues, locals, tables, At
<1> DEFINE q == req[p]
<1>0. /\ TypeOK /\ WellFormed(q)
      /\ member \in [User -> Org \cup {None, "absent"}] /\ name \in [Role -> Name \cup {"unborn", "gone"}]
      /\ perms \in [Role -> SUBSET Perm] /\ loaded \in [Proc -> Org \cup {None, "absent"}]
  BY KindSteps DEF IndInv, TypeOK
<1> HIDE DEF q
<1>1. ASSUME Ends(p, "ok"), Fulfilled(q) PROVE Serving(p, KnowsRest(p)')
  BY <1>0, <1>1, Ended DEF Serving, NotBusy, Answers, q
<1>2. ASSUME Ends(p, "error") PROVE Serving(p, KnowsRest(p)')
  BY <1>0, <1>2, Failed DEF Serving
<1>3. ASSUME NEW step, Goto(p, step),
             step \notin {"ok", "user.save", "perms.insert", "role.insert"} \cup Assigning
      PROVE  Serving(p, KnowsRest(p)')
  BY <1>0, <1>3, Goes DEF Serving, KnowsRest
<1>4. CASE q.kind = "assign"
  <2>1. /\ pc[p] \in Assigning /\ found[p] = q.role
        /\ AssignRole(p) \/ AssignExisting(p) \/ AssignInsert(p)
    BY <1>4, KindSteps DEF KnowsRest, AssignRole, AssignExisting, AssignInsert, Assigning, q
  <2>2. ASSUME NEW step \in {"assign.existing", "assign.insert"}, Goto(p, step), found' = found
        PROVE  Serving(p, KnowsRest(p)')
    BY <1>0, <1>4, <2>1, <2>2, Goes DEF Serving, KnowsRest, q
  <2>3. ASSUME Ends(p, "ok"), <<q.user, q.role, None>> \in grants' PROVE Serving(p, KnowsRest(p)')
    BY <1>1, <1>4, <2>3 DEF Fulfilled
  <2> QED BY <1>2, <1>4, <2>1, <2>2, <2>3
          DEF AssignRole, AssignExisting, AssignInsert, AfterAssign, Assigned, q
<1>5. CASE q.kind = "remove"
  <2>1. Ends(p, "ok") /\ grants' = grants \ {<<q.user, q.role, None>>}
    BY <1>5, KindSteps DEF DeleteGrant, q
  <2> QED BY <1>1, <1>5, <2>1 DEF Fulfilled
<1>6. CASE q.kind = "setPerms"
  <2>0. (PermsRole(p) \/ PermsDelete(p) \/ PermsInsert(p)) /\ q.role \in Role
    BY <1>0, <1>6, KindSteps DEF WellFormed, q
  <2>1. CASE PermsRole(p)
    BY <1>2, <1>3, <2>1 DEF PermsRole, Assigning
  <2>2. CASE PermsDelete(p)
    <3>1. Goto(p, "perms.insert") /\ perms' = [perms EXCEPT ![q.role] = {}]
      BY <2>2 DEF PermsDelete, q
    <3>2. perms'[q.role] = {}
      BY <1>0, <2>0, <3>1
    <3> QED BY <1>0, <1>6, <3>1, <3>2, Goes DEF Serving, KnowsRest, Assigning, q
  <2>3. CASE PermsInsert(p) /\ ~Ends(p, "error")
    <3>1. Ends(p, "ok") /\ perms' = [perms EXCEPT ![q.role] = @ \cup q.perms] /\ perms[q.role] = {}
      BY <2>3 DEF PermsInsert, KnowsRest, q
    <3>2. perms'[q.role] = q.perms
      BY <1>0, <2>0, <3>1
    <3> QED BY <1>1, <1>6, <3>1, <3>2 DEF Fulfilled
  <2> QED BY <1>2, <2>0, <2>1, <2>2, <2>3
<1>7. CASE q.kind = "createRole"
  <2>1. CASE FindRole(p) /\ ~Ends(p, "error")
    <3>1. Goto(p, "role.insert") /\ name' = name /\ \A r \in Role : name[r] # q.name
      BY <2>1 DEF FindRole, q
    <3> QED BY <1>0, <1>7, <3>1, Goes DEF Serving, KnowsRest, Assigning, q
  <2>2. CASE InsertRole(p)
    <3>1. /\ Ends(p, "ok") /\ \A s \in Role : name[s] # q.name
          /\ \E r \in Role : name' = [name EXCEPT ![r] = q.name]
      BY <2>2 DEF InsertRole, KnowsRest, q
    <3>2. PICK r \in Role : name' = [name EXCEPT ![r] = q.name]
      BY <3>1
    <3>3. {s \in Role : name'[s] = q.name} = {r}
      BY <1>0, <3>1, <3>2
    <3> QED BY <1>1, <1>7, <3>1, <3>3 DEF Fulfilled
  <2> QED BY <1>2, <1>7, <2>1, <2>2, KindSteps DEF q
<1>8. CASE q.kind \in {"updateRole", "deleteRole"}
  <2>0. q.role \in Role
    BY <1>0, <1>8 DEF WellFormed
  <2>1. CASE LoadRole(p)
    BY <1>2, <1>3, <2>1 DEF LoadRole, Assigning
  <2>2. CASE SaveRole(p) /\ q.kind = "updateRole"
    <3>1. Ends(p, "ok") /\ name' = [name EXCEPT ![q.role] = q.name]
      BY <2>2 DEF SaveRole, q
    <3>2. name'[q.role] = q.name
      BY <1>0, <2>0, <3>1
    <3> QED BY <1>1, <2>2, <3>1, <3>2 DEF Fulfilled
  <2>3. CASE RemoveRole(p) /\ q.kind = "deleteRole"
    <3>1. Ends(p, "ok") /\ name' = [name EXCEPT ![q.role] = "gone"]
      BY <2>3 DEF RemoveRole, q
    <3>2. name'[q.role] = "gone"
      BY <1>0, <2>0, <3>1
    <3> QED BY <1>1, <2>3, <3>1, <3>2 DEF Fulfilled
  <2> QED BY <1>8, <2>1, <2>2, <2>3, KindSteps DEF q
<1>9. CASE q.kind = "invite"
  <2>0. (FindOrg(p) \/ LoadUser(p) \/ SaveUser(p)) /\ q.user \in User
    BY <1>0, <1>9, KindSteps DEF WellFormed, q
  <2>1. CASE FindOrg(p)
    BY <1>2, <1>3, <1>9, <2>1 DEF FindOrg, Assigning, q
  <2>2. CASE LoadUser(p) /\ ~Ends(p, "error")
    <3>1. Goto(p, "user.save") /\ loaded' = [loaded EXCEPT ![p] = q.org]
      BY <1>9, <2>2 DEF LoadUser, q
    <3>2. loaded'[p] = q.org
      BY <1>0, <3>1
    <3> QED BY <1>0, <1>9, <3>1, <3>2, Goes DEF Serving, KnowsRest, Assigning, q
  <2>3. CASE SaveUser(p)
    <3>1. Ends(p, "ok") /\ member' = [member EXCEPT ![q.user] = loaded[p]] /\ loaded[p] = q.org
      BY <1>9, <2>3 DEF SaveUser, KnowsRest, q
    <3>2. member'[q.user] = q.org
      BY <1>0, <2>0, <3>1
    <3> QED BY <1>1, <1>9, <3>1, <3>2 DEF Fulfilled
  <2> QED BY <1>2, <2>0, <2>1, <2>2, <2>3
<1> QED BY <1>4, <1>5, <1>6, <1>7, <1>8, <1>9, KindSteps DEF Kind, q

-----------------------------------------------------------------------------
\* Together.

\* A handler that goes on keeps its request.
LEMMA KeepsRequest ==
  ASSUME IndInv, NEW p \in Proc, Proceed(p), pc'[p] \notin NotBusy
  PROVE  req'[p] = req[p]
<1> USE DEF Continues, locals
<1>0. TypeOK /\ ~Ends(p, "ok") /\ ~Ends(p, "error")
  BY Ended DEF IndInv, NotBusy, Answers
<1>1. ASSUME NEW step, Goto(p, step) PROVE req'[p] = req[p]
  BY <1>1 DEF Goto
<1>2. CASE FindOrg(p) \/ InsertOrg(p) \/ FindUser(p) \/ InsertUser(p) \/ LoadUser(p) \/ SaveUser(p)
  BY <1>0, <1>1, <1>2 DEF FindOrg, InsertOrg, FindUser, InsertUser, LoadUser, SaveUser
<1>3. CASE RoleByName(p)
  BY <1>0, <1>1, <1>3 DEF RoleByName
<1>4. CASE ListRoles(p) \/ RemoveListed(p) \/ AssignRole(p) \/ AssignExisting(p)
           \/ AssignInsert(p) \/ DeleteGrant(p)
  BY <1>0, <1>1, <1>4 DEF ListRoles, RemoveListed, AssignRole, AssignExisting, AssignInsert, DeleteGrant,
     AfterAssign
<1>5. CASE PermsRole(p) \/ PermsDelete(p) \/ PermsInsert(p) \/ FindRole(p) \/ InsertRole(p)
           \/ LoadRole(p) \/ SaveRole(p) \/ RemoveRole(p)
  BY <1>0, <1>1, <1>5 DEF PermsRole, PermsDelete, PermsInsert, FindRole, InsertRole, LoadRole, SaveRole,
     RemoveRole
<1>6. CASE SeedRole(p) \/ SeedDelete(p) \/ SeedInsert(p) \/ SeedAdmin(p) \/ SeedUser(p) \/ SeedGrant(p)
  BY <1>0, <1>1, <1>6 DEF SeedRole, SeedDelete, SeedInsert, SeedAdmin, SeedUser, SeedGrant
<1> QED BY <1>2, <1>3, <1>4, <1>5, <1>6 DEF Proceed

\* A request of any kind, as it goes on and at its answer.
LEMMA KnowsMover ==
  ASSUME IndInv, AccountsOK, [Next]_vars, NEW p \in Proc, Proceed(p), Knows(p)
  PROVE  Serving(p, Knows(p)')
<1>1. Coherent(p)'
  BY HandlersStep DEF HandlersOK
<1>2. /\ req[p].kind = "createOrg"  => Serving(p, KnowsOrg(p)')
      /\ req[p].kind = "createUser" => Serving(p, KnowsNewUser(p)')
      /\ req[p].kind = "updateUser" => Serving(p, KnowsUser(p)')
      /\ req[p].kind = "seed"       => Serving(p, KnowsSeeds(p)')
      /\ req[p].kind \notin {"createOrg", "createUser", "updateUser", "seed"} => Serving(p, KnowsRest(p)')
  BY OrgMover, NewUserMover, UserMover, SeedsMover, RestMover DEF Knows
<1>3. ASSUME pc'[p] \notin NotBusy PROVE Knows(p)'
  <2>1. req'[p] = req[p]
    BY <1>3, KeepsRequest
  <2>2. req[p].kind \in {"createOrg", "createUser", "updateUser", "seed"} => KnowsRest(p)'
    BY <1>1, <1>3, <2>1 DEF Coherent, Serves, KnowsRest, Assigning
  <2> QED BY <1>2, <1>3, <2>1, <2>2 DEF Knows, Serving
<1> QED BY <1>2, <1>3 DEF Serving

\* A request that begins knows what it needs, which is hardly anything.
LEMMA KnowsFirst ==
  ASSUME IndInv, NEW p \in Proc, Begin(p)
  PROVE  Knows(p)'
<1>1. PICK a \in Request : Start(p, a) /\ WellFormed(a)
  BY BeginStarts
<1>2. /\ pc'[p] = First(a) /\ req'[p] = a /\ (a.kind = "seed" => left'[p] = DefaultRole)
      /\ found' = [found EXCEPT ![p] = IF a.role \in Role THEN a.role ELSE None]
  BY <1>1, StartMoves DEF IndInv, Start
<1>3. found'[p] = IF a.role \in Role THEN a.role ELSE None
  BY <1>2 DEF IndInv, TypeOK
<1>4. None \notin Role
  BY NoneAssumption
<1>5. a.kind = "createOrg" => KnowsOrg(p)'
  BY <1>2 DEF First, KnowsOrg, Assigning
<1>6. a.kind = "createUser" => KnowsNewUser(p)'
  BY <1>2, <1>3, <1>4 DEF First, KnowsNewUser, KnowsRole, Assigning
<1>7. a.kind = "updateUser" => KnowsUser(p)'
  BY <1>2, <1>3, <1>4 DEF First, KnowsUser, KnowsRole, Given, Assigning
<1>8. a.kind = "seed" => KnowsSeeds(p)'
  BY <1>2 DEF First, KnowsSeeds
<1>9. KnowsRest(p)'
  <2>1. First(a) \notin {"user.save", "perms.insert", "role.insert"}
    BY DEF First, Request, Kind
  <2> QED BY <1>1, <1>2, <1>3, <2>1 DEF KnowsRest, WellFormed
<1> QED BY <1>2, <1>5, <1>6, <1>7, <1>8, <1>9 DEF Knows

\* The knowledge is kept by all.
LEMMA AskedStep ==
  ASSUME IndInv, LoneInv, AskedInv, [Next]_vars
  PROVE  AskedInv'
<1>1. AccountsOK'
  BY AccountsStep DEF AskedInv
<1>2. ASSUME NEW p \in Proc, Busy(p)', alone'[p] PROVE Knows(p)'
  <2>0. pc'[p] \notin NotBusy
    BY <1>2 DEF Busy, NotBusy
  <2>1. CASE UNCHANGED vars
    BY <1>2, <2>1 DEF vars, AskedInv, Busy, Knows, KnowsOrg, KnowsNewUser, KnowsUser, KnowsSeeds,
       KnowsRest, KnowsRole, Given, RowsOf, Made
  <2>2. ASSUME NEW q \in Proc, q # p, Begin(q) \/ Proceed(q) \/ Crash(q) PROVE Knows(p)'
    BY <1>2, <2>2, OthersNotAlone
  <2>3. CASE Begin(p)
    BY <2>3, KnowsFirst
  <2>4. CASE Proceed(p)
    <3>1. alone[p] /\ Busy(p)
      BY <1>2, <2>4, ProceedAlone DEF Busy, NotBusy
    <3> QED BY <2>0, <2>4, <3>1, KnowsMover DEF AskedInv, Serving
  <2>5. ~Crash(p)
    BY <2>0, Ended DEF Crash, NotBusy, IndInv
  <2> QED BY <2>1, <2>2, <2>3, <2>4, <2>5 DEF Next, Rest
<1> QED BY <1>1, <1>2 DEF AskedInv

\* A request that is alone and is answered "ok" has done what it was asked.
LEMMA AnswerStep ==
  ASSUME IndInv, AskedInv, [Next]_vars, NEW p \in Proc, Busy(p), alone[p], pc'[p] = "ok"
  PROVE  Fulfilled(req[p])
<1>1. pc'[p] # pc[p]
  BY DEF Busy, Answers
<1>2. ~Begin(p) /\ ~Crash(p)
  BY BeginLocal, Ended DEF Crash, Busy, NotBusy, IndInv
<1>3. Proceed(p)
  BY <1>1, <1>2, Mover
<1> QED BY <1>3, KnowsMover DEF AskedInv, Serving

\* A request that ran with no other beside it and was answered "ok" did all it was
\* asked, whatever earlier requests that failed, died or collided have left behind.
THEOREM AloneTheorem == Spec => AloneAsAsked
<1>1. Init => LoneInv
  BY DEF Init, LoneInv, Lone, NotBusy, Answers
<1>2. IndInv /\ LoneInv /\ [Next]_vars => LoneInv'
  BY LoneStep
<1>3. Init => AskedInv
  <2> SUFFICES ASSUME Init PROVE AskedInv
    OBVIOUS
  <2>1. \A g \in grants : member[g[1]] # "absent"
    BY NoneAssumption, SeedAssumption DEF Init, Seeded, Empty
  <2>2. \A p \in Proc : pc[p] = "idle"
    BY DEF Init
  <2> QED BY <2>1, <2>2 DEF AskedInv, AccountsOK, Accounted, Assigning, Busy
<1>4. IndInv /\ LoneInv /\ AskedInv /\ [Next]_vars => AskedInv'
  BY AskedStep
<1>5. IndInv /\ AskedInv /\ [Next]_vars =>
        [\A p \in Proc : Busy(p) /\ alone[p] /\ pc'[p] = "ok" => Fulfilled(req[p])]_vars
  BY AnswerStep
<1> QED BY InitInv, InvStep, <1>1, <1>2, <1>3, <1>4, <1>5, PTL DEF Spec, AloneAsAsked
=============================================================================

------------------------------- MODULE Sessions -------------------------------
(***************************************************************************)
(* One account and its login sessions: modules/auth/auth.service.ts, and   *)
(* what modules/user and modules/admin do to the same two tables.          *)
(*                                                                         *)
(* A session is a refresh token: refreshTokens ends the row it was given   *)
(* and inserts the next one. Accounts share no rows, so one account shows  *)
(* every interference. As in Licensing, a handler is one step per awaited  *)
(* statement, and save() of the user row it loaded writes back every       *)
(* column, whatever other handlers wrote to them since.                    *)
(***************************************************************************)
EXTENDS Integers, FiniteSets

CONSTANTS
  Proc,        \* request handlers, of all the replicas
  Password,    \* the passwords the account may be given
  MaxSessions, \* users.max_sessions, which no code changes
  MaxIssued,   \* bound on the sessions ever opened
  NoRow,       \* no user row
  NoReq        \* the handler serves no request

ASSUME ProcAssumption == IsFiniteSet(Proc) /\ Proc # {}
ASSUME BoundAssumption == MaxSessions \in Nat \ {0} /\ MaxIssued \in Nat

\* Sessions in the order of their created_at; 0 is no session.
SessionId == 1..MaxIssued

Status == {"PENDING_VERIFICATION", "ACTIVE", "SUSPENDED", "DEACTIVATED"}
Locked == {"SUSPENDED", "DEACTIVATED"}

\* The columns of users that decide who gets in: verify and reset say whether a
\* usable email-verification token and password-reset token are stored.
Row == [status: Status, password: Password, verify: BOOLEAN, reset: BOOLEAN]

\* What a handler holds between two awaits: the user row it loaded, with its
\* own changes, the session it works on and the password that opened it.
Request == [row: Row \cup {NoRow}, sid: 0..MaxIssued, opener: Password \cup {NoRow}]

ASSUME NoneAssumption == NoRow \notin Row \cup Password /\ NoReq \notin Request

VARIABLES
  user,        \* the row of the account
  session,     \* its sessions: unissued, live, lapsed (expires_at has passed) or ended
  parent,      \* the session whose token was exchanged for this one; 0 for a login
  opener,      \* the password of the login a session descends from
  pc,          \* the statement a handler runs next
  req          \* what it holds

vars == <<user, session, parent, opener, pc, req>>

\* The handlers that hold a changed user row; the first three then end the sessions.
LockSaves == {"reset.save", "suspend.save", "deactivate.save"}
PlainSaves == {"register.save", "login.save", "forgot.save", "verify.save", "update.save",
               "activate.save"}
LoginSteps == {"login.count", "login.oldest", "login.evict", "login.insert"}
EndSteps == {"refresh.expire", "logout.save", "revokeSession.save"}
Rotation == {"refresh.user", "refresh.rotate", "refresh.insert"}
Steps == LockSaves \cup PlainSaves \cup LoginSteps \cup EndSteps \cup Rotation
           \cup {"idle", "logoutAll"}

\* The tables and the handlers' local state have their types.
TypeOK ==
  /\ user \in Row \cup {NoRow}
  /\ session \in [SessionId -> {"none", "live", "lapsed", "ended"}]
  /\ parent \in [SessionId -> 0..MaxIssued]
  /\ opener \in [SessionId -> Password \cup {NoRow}]
  /\ pc \in [Proc -> Steps]
  /\ req \in [Proc -> Request \cup {NoReq}]

Issued == {s \in SessionId : session[s] # "none"}
\* is_active, which an expired session keeps until a refresh meets it.
Active == {s \in SessionId : session[s] \in {"live", "lapsed"}}
Children(s) == {c \in Issued : parent[c] = s}

Init ==
  /\ user = NoRow
  /\ session = [s \in SessionId |-> "none"]
  /\ parent = [s \in SessionId |-> 0]
  /\ opener = [s \in SessionId |-> NoRow]
  /\ pc = [p \in Proc |-> "idle"]
  /\ req = [p \in Proc |-> NoReq]

-----------------------------------------------------------------------------
\* Control of a handler.

tables == <<user, session, parent, opener>>

Await(p, step, r) ==
  /\ pc' = [pc EXCEPT ![p] = step]
  /\ req' = [req EXCEPT ![p] = r]

Goto(p, step) == Await(p, step, req[p])

Done(p) == Await(p, "idle", NoReq)

Holding(row) == [row |-> row, sid |-> 0, opener |-> NoRow]

\* A request that loads the user row, or changes the row it loaded.
Loads(p, step, row) ==
  /\ pc[p] = "idle" /\ user # NoRow
  /\ Await(p, step, Holding(row))
  /\ UNCHANGED tables

\* Mutant: a status no query of active sessions knows.
EndAsExpired(ss) ==
  session' = [s \in SessionId |-> IF s \in ss \cap Active THEN "expired" ELSE session[s]]

End(ss) ==
  session' = [s \in SessionId |-> IF s \in ss \cap Active THEN "ended" ELSE session[s]]

Open(p, from) ==
  \E s \in SessionId \ Issued :
    /\ \A t \in SessionId : t < s => t \in Issued
    /\ session' = [session EXCEPT ![s] = "live"]
    /\ parent' = [parent EXCEPT ![s] = from]
    /\ opener' = [opener EXCEPT ![s] = req[p].opener]

-----------------------------------------------------------------------------
\* The account.

\* register, and createUser of the administrator: the user is inserted, then
\* saved again with the verification token.
Register(p) ==
  /\ pc[p] = "idle" /\ user = NoRow
  /\ \E pw \in Password :
       LET row == [status |-> "PENDING_VERIFICATION", password |-> pw,
                   verify |-> FALSE, reset |-> FALSE]
       IN  /\ user' = row
           /\ Await(p, "register.save", Holding([row EXCEPT !.verify = TRUE]))
  /\ UNCHANGED <<session, parent, opener>>

CreateOrgAdmin(p) ==
  /\ pc[p] = "idle" /\ user = NoRow
  /\ \E pw \in Password :
       user' = [status |-> "ACTIVE", password |-> pw, verify |-> FALSE, reset |-> FALSE]
  /\ UNCHANGED <<session, parent, opener, pc, req>>

VerifyLoad(p) ==
  /\ user # NoRow /\ user.verify
  /\ Loads(p, "verify.save", [user EXCEPT !.status = "ACTIVE", !.verify = FALSE])

\* An administrator's activateUser.
ActivateLoad(p) == Loads(p, "activate.save", [user EXCEPT !.status = "ACTIVE"])

\* update, updateAvatar and inviteMember change columns nobody here looks at and
\* write the others back.
UpdateLoad(p) == Loads(p, "update.save", user)

ForgotLoad(p) == Loads(p, "forgot.save", [user EXCEPT !.reset = TRUE])

SaveUser(p) ==
  /\ pc[p] \in PlainSaves
  /\ user' = req[p].row
  /\ Done(p)
  /\ UNCHANGED <<session, parent, opener>>

\* resetPassword, suspendUser and deactivate save the user, then end the sessions.
ResetLoad(p) ==
  /\ user # NoRow /\ user.reset
  /\ \E pw \in Password : Loads(p, "reset.save", [user EXCEPT !.password = pw, !.reset = FALSE])

SuspendLoad(p) == Loads(p, "suspend.save", [user EXCEPT !.status = "SUSPENDED"])

DeactivateLoad(p) == Loads(p, "deactivate.save", [user EXCEPT !.status = "DEACTIVATED"])

SaveLocked(p) ==
  /\ pc[p] \in LockSaves
  /\ user' = req[p].row
  /\ Goto(p, "logoutAll")
  /\ UNCHANGED <<session, parent, opener>>

\* The user's own logout-all request: JwtStrategy.validate lets it in.
LogoutAllLoad(p) ==
  /\ user # NoRow /\ user.status = "ACTIVE"
  /\ Loads(p, "logoutAll", user)

LogoutAll(p) ==
  /\ pc[p] = "logoutAll"
  /\ End(SessionId)
  /\ Done(p)
  /\ UNCHANGED <<user, parent, opener>>

-----------------------------------------------------------------------------
\* login.

\* Mutant: the status of the account is not looked at.
LoginAnyStatus(p) ==
  \E pw \in Password :
    /\ pc[p] = "idle" /\ user # NoRow /\ pw = user.password
    /\ Await(p, "login.count", [row |-> user, sid |-> 0, opener |-> pw])
    /\ UNCHANGED tables

\* Mutant: the password is not compared.
LoginAnyPassword(p) ==
  \E pw \in Password :
    /\ pc[p] = "idle" /\ user # NoRow /\ user.status = "ACTIVE"
    /\ Await(p, "login.count", [row |-> user, sid |-> 0, opener |-> pw])
    /\ UNCHANGED tables

LoginLoad(p) ==
  \E pw \in Password :
    /\ pc[p] = "idle" /\ user # NoRow /\ user.status = "ACTIVE" /\ pw = user.password
    /\ Await(p, "login.count", [row |-> user, sid |-> 0, opener |-> pw])
    /\ UNCHANGED tables

\* Mutant: one session too many.
LoginCountOffByOne(p) ==
  /\ pc[p] = "login.count"
  /\ Goto(p, IF Cardinality(Active) > MaxSessions THEN "login.oldest" ELSE "login.insert")
  /\ UNCHANGED tables

\* validateConcurrentSessions: at the limit, the oldest active session goes.
LoginCount(p) ==
  /\ pc[p] = "login.count"
  /\ Goto(p, IF Cardinality(Active) >= MaxSessions THEN "login.oldest" ELSE "login.insert")
  /\ UNCHANGED tables

LoginOldest(p) ==
  /\ pc[p] = "login.oldest"
  /\ \/ /\ Active = {}
        /\ Goto(p, "login.insert")
     \/ \E s \in Active :
          /\ \A t \in Active : s <= t
          /\ Await(p, "login.evict", [req[p] EXCEPT !.sid = s])
  /\ UNCHANGED tables

LoginEvict(p) ==
  /\ pc[p] = "login.evict"
  /\ End({req[p].sid})
  /\ Await(p, "login.insert", [req[p] EXCEPT !.sid = 0])
  /\ UNCHANGED <<user, parent, opener>>

\* The session is inserted; last_login_at is then set by a save of the row that
\* login loaded.
LoginInsert(p) ==
  /\ pc[p] = "login.insert"
  /\ Open(p, 0)
  /\ Goto(p, "login.save")
  /\ UNCHANGED user

-----------------------------------------------------------------------------
\* refreshTokens, logout and revokeSession.

\* Mutant: is_active is not part of the query.
RefreshAnySession(p, s) ==
  /\ pc[p] = "idle" /\ s \in Issued
  /\ Await(p, IF session[s] = "lapsed" THEN "refresh.expire" ELSE "refresh.user",
           [row |-> NoRow, sid |-> s, opener |-> opener[s]])
  /\ UNCHANGED tables

RefreshLoad(p, s) ==
  /\ pc[p] = "idle" /\ s \in Active
  /\ Await(p, IF session[s] = "lapsed" THEN "refresh.expire" ELSE "refresh.user",
           [row |-> NoRow, sid |-> s, opener |-> opener[s]])
  /\ UNCHANGED tables

\* Mutant: a locked account is served.
RefreshAnyUser(p) ==
  /\ pc[p] = "refresh.user"
  /\ Goto(p, "refresh.rotate")
  /\ UNCHANGED tables

RefreshUser(p) ==
  /\ pc[p] = "refresh.user"
  /\ IF user.status \in Locked THEN Done(p) ELSE Goto(p, "refresh.rotate")
  /\ UNCHANGED tables

\* Mutant: the new session is inserted first; the old one is left to a later save.
RefreshKeepsOld(p) ==
  /\ pc[p] = "refresh.rotate"
  /\ Goto(p, "refresh.insert")
  /\ UNCHANGED tables

RefreshRotate(p) ==
  /\ pc[p] = "refresh.rotate"
  /\ End({req[p].sid})
  /\ Goto(p, "refresh.insert")
  /\ UNCHANGED <<user, parent, opener>>

RefreshInsert(p) ==
  /\ pc[p] = "refresh.insert"
  /\ Open(p, req[p].sid)
  /\ Done(p)
  /\ UNCHANGED user

LogoutLoad(p, s) ==
  /\ pc[p] = "idle" /\ s \in Active
  /\ Await(p, "logout.save", [row |-> NoRow, sid |-> s, opener |-> NoRow])
  /\ UNCHANGED tables

RevokeSessionLoad(p, s) ==
  /\ pc[p] = "idle" /\ user # NoRow /\ user.status = "ACTIVE" /\ s \in Issued
  /\ Await(p, "revokeSession.save", [row |-> NoRow, sid |-> s, opener |-> NoRow])
  /\ UNCHANGED tables

EndSession(p) ==
  /\ pc[p] \in EndSteps
  /\ End({req[p].sid})
  /\ Done(p)
  /\ UNCHANGED <<user, parent, opener>>

-----------------------------------------------------------------------------
\* Seven days pass since the session was opened.
Lapse(s) ==
  /\ session[s] = "live"
  /\ session' = [session EXCEPT ![s] = "lapsed"]
  /\ UNCHANGED <<user, parent, opener, pc, req>>

\* A statement fails or the replica dies: the rest of the handler is lost.
Crash(p) ==
  /\ pc[p] # "idle"
  /\ Done(p)
  /\ UNCHANGED tables

Begin(p) ==
  \/ Register(p) \/ CreateOrgAdmin(p) \/ VerifyLoad(p) \/ ActivateLoad(p) \/ UpdateLoad(p)
  \/ ForgotLoad(p) \/ ResetLoad(p) \/ SuspendLoad(p) \/ DeactivateLoad(p)
  \/ LogoutAllLoad(p) \/ LoginLoad(p)
  \/ \E s \in SessionId : RefreshLoad(p, s) \/ LogoutLoad(p, s) \/ RevokeSessionLoad(p, s)

Proceed(p) ==
  \/ SaveUser(p) \/ SaveLocked(p) \/ LogoutAll(p)
  \/ LoginCount(p) \/ LoginOldest(p) \/ LoginEvict(p) \/ LoginInsert(p)
  \/ RefreshUser(p) \/ RefreshRotate(p) \/ RefreshInsert(p) \/ EndSession(p)

Undisturbed ==
  \/ \E p \in Proc : Begin(p) \/ Proceed(p)
  \/ \E s \in SessionId : Lapse(s)

Next == Undisturbed \/ \E p \in Proc : Crash(p)

Spec == Init /\ [][Next]_vars

\* Every handler runs to its end.
UndisturbedSpec == Init /\ [][Undisturbed]_vars
-----------------------------------------------------------------------------
\* Properties.

\* A token that was exchanged is no longer good, so a client that presents it
\* again, concurrent requests apart, is refused.
ExchangedTokenIsOver == \A s \in SessionId : Children(s) # {} => session[s] = "ended"

\* refreshTokens finds the session active, then ends it, with two awaits between:
\* concurrent requests may exchange one token several times, but once each.
ExchangesBounded == \A s \in SessionId : Cardinality(Children(s)) <= Cardinality(Proc)

\* The session was ended and no request that still found it active is in flight.
Dead(s) ==
  /\ session[s] = "ended"
  /\ \A p \in Proc : pc[p] \in Rotation => req[p].sid # s

\* A dead token stays dead: no stale save of its session revives it and no
\* request exchanges it, whatever ended it (rotation, logout, eviction, expiry,
\* a reset or a lock).
DeadTokenStaysDead ==
  [][\A s \in SessionId : Dead(s) => Dead(s)' /\ Children(s)' = Children(s)]_vars

\* The handler may still open a session or write back a row of a user not locked.
MayUnlock(p) ==
  \/ pc[p] \in LockSaves \cup PlainSaves \cup LoginSteps /\ req[p].row.status \notin Locked
  \/ pc[p] \in {"refresh.rotate", "refresh.insert"}

\* The account is suspended or deactivated, and every request in flight saw that.
LockedOut == user # NoRow /\ user.status \in Locked /\ \A p \in Proc : ~MayUnlock(p)

\* A locked-out account opens no session, and stays so until someone reactivates
\* it: an administrator, or an email-verification token that was never used.
LockHolds ==
  [][LockedOut => /\ Issued' = Issued
                  /\ \/ LockedOut'
                     \/ \E p \in Proc : pc[p] = "idle" /\ pc'[p] \in {"activate.save", "verify.save"}]_vars

\* Nothing in flight or active was opened with pw, or would make it the password.
Forgotten(pw) ==
  /\ user # NoRow /\ user.password # pw
  /\ \A s \in Active : opener[s] # pw
  /\ \A p \in Proc :
       /\ pc[p] \in LockSaves \cup PlainSaves \cup LoginSteps => req[p].row.password # pw
       /\ pc[p] \in LoginSteps \cup Rotation => req[p].opener # pw

\* A password that was replaced and forgotten opens no session again, directly or
\* by the exchange of an older token, until a reset chooses it.
OldPasswordShutOut ==
  [][\A pw \in Password : Forgotten(pw) =>
       \/ Forgotten(pw)'
       \/ \E p \in Proc : pc[p] = "idle" /\ pc'[p] = "reset.save" /\ req'[p].row.password = pw]_vars
-----------------------------------------------------------------------------
\* What a login session promises.

Contract == INSTANCE SessionContract WITH
  Session <- SessionId,
  status <- IF user = NoRow THEN "none" ELSE user.status,
  active <- Active,
  ended <- {s \in SessionId : session[s] = "ended"},
  exchanged <- {s \in SessionId : Children(s) # {}}

\* Handlers that never overlap implement the contract: no session beyond the
\* limit or for an account that is locked, no token exchanged twice, crashes
\* between two statements of a handler included.
ImplementsContract == Contract!Spec
=============================================================================

---------------------------- MODULE SessionsProofs ----------------------------
(***************************************************************************)
(* Theorems about Sessions, for any number of handlers, passwords and      *)
(* sessions; and that it implements SessionContract where requests are     *)
(* served one at a time.                                                   *)
(***************************************************************************)
EXTENDS Sessions, FiniteSetTheorems, TLAPS

\* Each step of a handler finds what the steps before it loaded.
Coherent(p) ==
  /\ pc[p] # "idle" => req[p] \in Request
  /\ pc[p] \in LockSaves \cup PlainSaves \cup LoginSteps => req[p].row \in Row
  /\ pc[p] \in LoginSteps => req[p].row.status = "ACTIVE"
  /\ pc[p] \in Rotation => req[p].sid \in Issued
  /\ pc[p] = "refresh.insert" => session[req[p].sid] = "ended"

HandlerOK == \A p \in Proc : Coherent(p)

IndInv == TypeOK /\ HandlerOK /\ ExchangedTokenIsOver

-----------------------------------------------------------------------------
\* What the steps do to the sessions.

\* A login or a refresh opens the next session.
Opens(p, from) ==
  \E s \in SessionId \ Issued :
    /\ session' = [session EXCEPT ![s] = "live"]
    /\ parent' = [parent EXCEPT ![s] = from]
    /\ opener' = [opener EXCEPT ![s] = req[p].opener]

Lapses(s) == session[s] = "live" /\ session' = [session EXCEPT ![s] = "lapsed"]

\* The steps of Next, sorted by what they do to the sessions.
LEMMA SessionWrites ==
  ASSUME [Next]_vars
  PROVE  \/ UNCHANGED <<session, parent, opener>>
         \/ \E ss : End(ss) /\ UNCHANGED <<parent, opener>>
         \/ \E s \in SessionId : Lapses(s) /\ UNCHANGED <<parent, opener>>
         \/ \E p \in Proc : pc[p] = "login.insert" /\ Opens(p, 0)
         \/ \E p \in Proc : pc[p] = "refresh.insert" /\ Opens(p, req[p].sid) /\ Done(p)
<1>1. ASSUME NEW p \in Proc, Begin(p) PROVE UNCHANGED <<session, parent, opener>>
  BY <1>1 DEF Begin, Register, CreateOrgAdmin, VerifyLoad, ActivateLoad, UpdateLoad, ForgotLoad,
     ResetLoad, SuspendLoad, DeactivateLoad, LogoutAllLoad, LoginLoad, RefreshLoad, LogoutLoad,
     RevokeSessionLoad, Loads, tables
<1>2. ASSUME NEW p \in Proc,
             \/ SaveUser(p) \/ SaveLocked(p) \/ LoginCount(p) \/ LoginOldest(p)
             \/ RefreshUser(p) \/ Crash(p)
      PROVE  UNCHANGED <<session, parent, opener>>
  BY <1>2 DEF SaveUser, SaveLocked, LoginCount, LoginOldest, RefreshUser, Crash, tables
<1>3. ASSUME NEW p \in Proc, LogoutAll(p) \/ LoginEvict(p) \/ RefreshRotate(p) \/ EndSession(p)
      PROVE  \E ss : End(ss) /\ UNCHANGED <<parent, opener>>
  BY <1>3, Zenon DEF LogoutAll, LoginEvict, RefreshRotate, EndSession
<1>4. ASSUME NEW p \in Proc, LoginInsert(p)
      PROVE  pc[p] = "login.insert" /\ Opens(p, 0)
  BY <1>4, Zenon DEF LoginInsert, Open, Opens
<1>5. ASSUME NEW p \in Proc, RefreshInsert(p)
      PROVE  pc[p] = "refresh.insert" /\ Opens(p, req[p].sid) /\ Done(p)
  BY <1>5, Zenon DEF RefreshInsert, Open, Opens
<1>6. ASSUME NEW s \in SessionId, Lapse(s)
      PROVE  Lapses(s) /\ UNCHANGED <<parent, opener>>
  BY <1>6, Zenon DEF Lapse, Lapses
<1>7. CASE UNCHANGED vars
  BY <1>7 DEF vars
<1> QED BY <1>1, <1>2, <1>3, <1>4, <1>5, <1>6, <1>7, Zenon DEF Next, Undisturbed, Proceed

\* An ended session stays ended and an issued one issued.
LEMMA EndedStays ==
  ASSUME TypeOK, [Next]_vars, NEW s \in SessionId
  PROVE  /\ session[s] = "ended" => session'[s] = "ended"
         /\ s \in Issued => s \in Issued'
<1>1. CASE UNCHANGED <<session, parent, opener>>
  BY <1>1 DEF Issued
<1>2. ASSUME NEW ss, End(ss)
      PROVE  (session[s] = "ended" => session'[s] = "ended") /\ (s \in Issued => s \in Issued')
  BY <1>2 DEF End, Active, Issued, TypeOK
<1>3. ASSUME NEW t \in SessionId, Lapses(t)
      PROVE  (session[s] = "ended" => session'[s] = "ended") /\ (s \in Issued => s \in Issued')
  BY <1>3 DEF Lapses, Issued, TypeOK
<1>4. ASSUME NEW p \in Proc, NEW from, Opens(p, from)
      PROVE  (session[s] = "ended" => session'[s] = "ended") /\ (s \in Issued => s \in Issued')
  BY <1>4 DEF Opens, Issued, TypeOK
<1> QED BY <1>1, <1>2, <1>3, <1>4, SessionWrites, Zenon

-----------------------------------------------------------------------------
\* The handlers' local state.

Local ==
  /\ pc \in [Proc -> Steps]
  /\ req \in [Proc -> Request \cup {NoReq}]
  /\ HandlerOK

\* A handler that does not move keeps what it needs, whatever the others do.
LEMMA CoherentStays ==
  ASSUME IndInv, [Next]_vars, NEW q \in Proc, pc'[q] = pc[q], req'[q] = req[q]
  PROVE  Coherent(q)'
<1>1. Coherent(q)
  BY DEF IndInv, HandlerOK
<1>2. pc[q] \in Rotation => req[q].sid \in SessionId
  BY <1>1 DEF Coherent, Issued
<1>3. pc[q] \in Rotation => req[q].sid \in Issued'
  BY <1>1, <1>2, EndedStays DEF IndInv, Coherent
<1>4. pc[q] = "refresh.insert" => session'[req[q].sid] = "ended"
  BY <1>1, <1>2, EndedStays DEF IndInv, Coherent, Rotation
<1> QED BY <1>1, <1>3, <1>4 DEF Coherent

\* A handler that awaits step with all that step needs.
LEMMA AwaitLocal ==
  ASSUME IndInv, [Next]_vars, NEW p \in Proc, NEW step \in Steps, NEW r \in Request,
         Await(p, step, r),
         step \in LockSaves \cup PlainSaves \cup LoginSteps => r.row \in Row,
         step \in LoginSteps => r.row.status = "ACTIVE",
         step \in Rotation => r.sid \in Issued',
         step = "refresh.insert" => session'[r.sid] = "ended"
  PROVE  Local'
<1>1. pc' \in [Proc -> Steps] /\ req' \in [Proc -> Request \cup {NoReq}]
  BY DEF Await, IndInv, TypeOK
<1>2. ASSUME NEW q \in Proc PROVE Coherent(q)'
  <2>1. CASE q = p
    <3>1. pc'[q] = step /\ req'[q] = r
      BY <2>1 DEF Await, IndInv, TypeOK
    <3> QED BY <3>1 DEF Coherent
  <2>2. CASE q # p
    BY <2>2, CoherentStays DEF Await, IndInv, TypeOK
  <2> QED BY <2>1, <2>2
<1> QED BY <1>1, <1>2 DEF Local, HandlerOK

\* A handler that ends.
LEMMA DoneLocal ==
  ASSUME IndInv, [Next]_vars, NEW p \in Proc, Done(p)
  PROVE  Local'
<1>1. pc' \in [Proc -> Steps] /\ req' \in [Proc -> Request \cup {NoReq}]
  BY DEF Done, Await, IndInv, TypeOK, Steps
<1>2. ASSUME NEW q \in Proc PROVE Coherent(q)'
  <2>1. CASE q = p
    <3>1. pc'[q] = "idle"
      BY <2>1 DEF Done, Await, IndInv, TypeOK
    <3> QED BY <3>1 DEF Coherent, LockSaves, PlainSaves, LoginSteps, Rotation
  <2>2. CASE q # p
    BY <2>2, CoherentStays DEF Done, Await, IndInv, TypeOK
  <2> QED BY <2>1, <2>2
<1> QED BY <1>1, <1>2 DEF Local, HandlerOK

\* No handler moves.
LEMMA StillLocal ==
  ASSUME IndInv, [Next]_vars, UNCHANGED <<pc, req>>
  PROVE  Local'
<1>1. \A q \in Proc : Coherent(q)'
  BY CoherentStays
<1> QED BY <1>1 DEF Local, HandlerOK, IndInv, TypeOK

\* A handler that loads the user row and will save it, changed or not.
LEMMA LoadsLocal ==
  ASSUME IndInv, [Next]_vars, NEW p \in Proc,
         NEW step \in LockSaves \cup PlainSaves \cup {"logoutAll"}, NEW row \in Row,
         Await(p, step, Holding(row))
  PROVE  Local'
<1>1. Holding(row) \in Request /\ Holding(row).row = row
  BY BoundAssumption DEF Holding, Request
<1>2. /\ step \in Steps
      /\ step \notin LoginSteps \cup Rotation
  BY DEF Steps, LockSaves, PlainSaves, LoginSteps, Rotation
<1>3. step # "refresh.insert"
  BY <1>2 DEF Rotation
<1> QED BY <1>1, <1>2, <1>3, AwaitLocal

\* A handler that goes on with the request it holds.
LEMMA GotoLocal ==
  ASSUME IndInv, [Next]_vars, NEW p \in Proc, pc[p] # "idle", NEW step \in Steps,
         Goto(p, step),
         step \in LockSaves \cup PlainSaves \cup LoginSteps => pc[p] \in LoginSteps,
         step \in Rotation => pc[p] \in Rotation,
         step = "refresh.insert" => session'[req[p].sid] = "ended"
  PROVE  Local'
<1>1. Coherent(p)
  BY DEF IndInv, HandlerOK
<1>2. req[p] \in Request /\ Await(p, step, req[p])
  BY <1>1 DEF Coherent, Goto
<1>3. step \in LockSaves \cup PlainSaves \cup LoginSteps => req[p].row \in Row
  BY <1>1 DEF Coherent
<1>4. step \in LoginSteps => req[p].row.status = "ACTIVE"
  BY <1>1 DEF Coherent
<1>5. step \in Rotation => req[p].sid \in Issued'
  BY <1>1, EndedStays DEF Coherent, Issued, IndInv
<1> QED BY <1>2, <1>3, <1>4, <1>5, AwaitLocal

-----------------------------------------------------------------------------
\* The local state after each kind of step.

\* Requests that load the user row.
LEMMA AccountLoadStep ==
  ASSUME IndInv, [Next]_vars, NEW p \in Proc,
         \/ VerifyLoad(p) \/ ActivateLoad(p) \/ UpdateLoad(p) \/ ForgotLoad(p)
         \/ ResetLoad(p) \/ SuspendLoad(p) \/ DeactivateLoad(p) \/ LogoutAllLoad(p)
  PROVE  Local'
<1>0. user # NoRow
  BY DEF VerifyLoad, ActivateLoad, UpdateLoad, ForgotLoad, ResetLoad, SuspendLoad,
     DeactivateLoad, LogoutAllLoad, Loads
<1>1. user \in Row
  BY <1>0 DEF IndInv, TypeOK
<1>2. PICK step \in LockSaves \cup PlainSaves \cup {"logoutAll"}, row \in Row :
        Await(p, step, Holding(row))
  <2>1. CASE VerifyLoad(p)
    <3>1. [user EXCEPT !.status = "ACTIVE", !.verify = FALSE] \in Row
      BY <1>1 DEF Row, Status
    <3> QED BY <2>1, <3>1, Zenon DEF VerifyLoad, Loads, PlainSaves
  <2>2. CASE ActivateLoad(p)
    <3>1. [user EXCEPT !.status = "ACTIVE"] \in Row
      BY <1>1 DEF Row, Status
    <3> QED BY <2>2, <3>1, Zenon DEF ActivateLoad, Loads, PlainSaves
  <2>3. CASE UpdateLoad(p)
    BY <1>1, <2>3, Zenon DEF UpdateLoad, Loads, PlainSaves
  <2>4. CASE ForgotLoad(p)
    <3>1. [user EXCEPT !.reset = TRUE] \in Row
      BY <1>1 DEF Row
    <3> QED BY <2>4, <3>1, Zenon DEF ForgotLoad, Loads, PlainSaves
  <2>5. CASE ResetLoad(p)
    <3>1. \A pw \in Password : [user EXCEPT !.password = pw, !.reset = FALSE] \in Row
      BY <1>1 DEF Row
    <3> QED BY <2>5, <3>1, Zenon DEF ResetLoad, Loads, LockSaves
  <2>6. CASE SuspendLoad(p)
    <3>1. [user EXCEPT !.status = "SUSPENDED"] \in Row
      BY <1>1 DEF Row, Status
    <3> QED BY <2>6, <3>1, Zenon DEF SuspendLoad, Loads, LockSaves
  <2>7. CASE DeactivateLoad(p)
    <3>1. [user EXCEPT !.status = "DEACTIVATED"] \in Row
      BY <1>1 DEF Row, Status
    <3> QED BY <2>7, <3>1, Zenon DEF DeactivateLoad, Loads, LockSaves
  <2>8. CASE LogoutAllLoad(p)
    BY <1>1, <2>8, Zenon DEF LogoutAllLoad, Loads
  <2> QED BY <2>1, <2>2, <2>3, <2>4, <2>5, <2>6, <2>7, <2>8, Zenon
<1> QED BY <1>2, LoadsLocal

\* Requests that load a session.
LEMMA SessionLoadStep ==
  ASSUME IndInv, [Next]_vars, NEW p \in Proc, NEW s \in SessionId,
         RefreshLoad(p, s) \/ LogoutLoad(p, s) \/ RevokeSessionLoad(p, s)
  PROVE  Local'
<1>1. /\ [row |-> NoRow, sid |-> s, opener |-> opener[s]] \in Request
      /\ [row |-> NoRow, sid |-> s, opener |-> NoRow] \in Request
  BY BoundAssumption DEF Request, SessionId, IndInv, TypeOK
<1>2. PICK step \in EndSteps \cup {"refresh.user"}, r \in Request :
        Await(p, step, r) /\ r.sid = s /\ (step = "refresh.user" => s \in Active)
  BY <1>1 DEF RefreshLoad, LogoutLoad, RevokeSessionLoad, EndSteps
<1>3. /\ step \in Steps
      /\ step \notin LockSaves \cup PlainSaves \cup LoginSteps
      /\ step # "refresh.insert"
      /\ step \in Rotation => step = "refresh.user"
  BY DEF EndSteps, Steps, LockSaves, PlainSaves, LoginSteps, Rotation
<1>4. s \in Active => s \in Issued'
  BY EndedStays DEF IndInv, Active, Issued
<1> QED BY <1>2, <1>3, <1>4, AwaitLocal

\* Steps of login.
LEMMA LoginStep ==
  ASSUME IndInv, [Next]_vars, NEW p \in Proc,
         \/ LoginLoad(p) \/ LoginCount(p) \/ LoginOldest(p) \/ LoginEvict(p) \/ LoginInsert(p)
  PROVE  Local'
<1> USE DEF LoginSteps, PlainSaves, LockSaves, Rotation, Steps
<1>1. CASE LoginLoad(p)
  <2>1. PICK pw \in Password :
          /\ user # NoRow /\ user.status = "ACTIVE"
          /\ Await(p, "login.count", [row |-> user, sid |-> 0, opener |-> pw])
    BY <1>1, Zenon DEF LoginLoad
  <2>2. user \in Row
    BY <2>1 DEF IndInv, TypeOK
  <2>3. [row |-> user, sid |-> 0, opener |-> pw] \in Request
    BY <2>2, BoundAssumption DEF Request
  <2> QED BY <2>1, <2>2, <2>3, AwaitLocal
<1>2. CASE LoginCount(p)
  BY <1>2, GotoLocal DEF LoginCount
<1>3. CASE LoginOldest(p)
  <2>1. Coherent(p) /\ pc[p] = "login.oldest"
    BY <1>3 DEF IndInv, HandlerOK, LoginOldest
  <2>2. CASE Goto(p, "login.insert")
    BY <2>1, <2>2, GotoLocal
  <2>3. CASE \E s \in Active : Await(p, "login.evict", [req[p] EXCEPT !.sid = s])
    <3>1. PICK s \in Active : Await(p, "login.evict", [req[p] EXCEPT !.sid = s])
      BY <2>3
    <3> DEFINE r == [req[p] EXCEPT !.sid = s]
    <3>2. r \in Request /\ r.row \in Row /\ r.row.status = "ACTIVE"
      BY <2>1, BoundAssumption DEF Coherent, Request, Active, SessionId
    <3> HIDE DEF r
    <3>3. Await(p, "login.evict", r)
      BY <3>1 DEF r
    <3> QED BY <3>2, <3>3, AwaitLocal
  <2> QED BY <1>3, <2>2, <2>3, Zenon DEF LoginOldest
<1>4. CASE LoginEvict(p)
  <2>1. Coherent(p) /\ pc[p] = "login.evict"
    BY <1>4 DEF IndInv, HandlerOK, LoginEvict
  <2> DEFINE r == [req[p] EXCEPT !.sid = 0]
  <2>2. r \in Request /\ r.row \in Row /\ r.row.status = "ACTIVE"
    BY <2>1, BoundAssumption DEF Coherent, Request
  <2>3. Await(p, "login.insert", r)
    BY <1>4 DEF LoginEvict
  <2> HIDE DEF r
  <2> QED BY <2>2, <2>3, AwaitLocal
<1>5. CASE LoginInsert(p)
  BY <1>5, GotoLocal DEF LoginInsert
<1> QED BY <1>1, <1>2, <1>3, <1>4, <1>5

\* Steps of refreshTokens.
LEMMA RefreshStep ==
  ASSUME IndInv, [Next]_vars, NEW p \in Proc, RefreshUser(p) \/ RefreshRotate(p) \/ RefreshInsert(p)
  PROVE  Local'
<1> USE DEF LoginSteps, PlainSaves, LockSaves, Rotation, Steps
<1>1. CASE RefreshUser(p)
  BY <1>1, DoneLocal, GotoLocal DEF RefreshUser
<1>2. CASE RefreshRotate(p)
  <2>1. Coherent(p)
    BY DEF IndInv, HandlerOK
  <2>2. session'[req[p].sid] = "ended"
    BY <1>2, <2>1 DEF RefreshRotate, Coherent, End, Issued, Active, IndInv, TypeOK
  <2> QED BY <1>2, <2>2, GotoLocal DEF RefreshRotate
<1>3. CASE RefreshInsert(p)
  BY <1>3, DoneLocal DEF RefreshInsert
<1> QED BY <1>1, <1>2, <1>3

\* Registration inserts a row and goes on to save it again.
LEMMA RegisterStep ==
  ASSUME IndInv, [Next]_vars, NEW p \in Proc, Register(p) \/ CreateOrgAdmin(p)
  PROVE  Local' /\ user' \in Row
<1>1. CASE Register(p)
  <2>1. PICK pw \in Password :
          LET row == [status |-> "PENDING_VERIFICATION", password |-> pw,
                      verify |-> FALSE, reset |-> FALSE]
          IN  /\ user' = row
              /\ Await(p, "register.save", Holding([row EXCEPT !.verify = TRUE]))
    BY <1>1, Zenon DEF Register
  <2> DEFINE row == [status |-> "PENDING_VERIFICATION", password |-> pw,
                     verify |-> FALSE, reset |-> FALSE]
             held == [row EXCEPT !.verify = TRUE]
  <2>2. row \in Row /\ held \in Row
    BY DEF Row, Status
  <2> HIDE DEF row
  <2>3. user' = row /\ Await(p, "register.save", Holding(held))
    BY <2>1 DEF row
  <2> HIDE DEF held
  <2>4. Local'
    BY <2>2, <2>3, LoadsLocal DEF PlainSaves
  <2> QED BY <2>2, <2>3, <2>4
<1>2. CASE CreateOrgAdmin(p)
  <2>1. user' \in Row
    BY <1>2 DEF CreateOrgAdmin, Row, Status
  <2> QED BY <1>2, <2>1, StillLocal DEF CreateOrgAdmin
<1> QED BY <1>1, <1>2

\* Steps that save a user row, or end sessions.
LEMMA SaveStep ==
  ASSUME IndInv, [Next]_vars, NEW p \in Proc,
         SaveUser(p) \/ SaveLocked(p) \/ LogoutAll(p) \/ EndSession(p) \/ Crash(p)
  PROVE  Local' /\ user' \in Row \cup {NoRow}
<1>0. Coherent(p) /\ user \in Row \cup {NoRow}
  BY DEF IndInv, HandlerOK, TypeOK
<1>1. CASE SaveUser(p)
  BY <1>0, <1>1, DoneLocal DEF SaveUser, Coherent
<1>2. CASE SaveLocked(p)
  <2>1. pc[p] # "idle" /\ req[p].row \in Row
    BY <1>0, <1>2 DEF SaveLocked, Coherent, LockSaves
  <2>2. Local'
    BY <1>2, <2>1, GotoLocal
       DEF SaveLocked, Steps, LockSaves, PlainSaves, LoginSteps, Rotation
  <2> QED BY <1>2, <2>1, <2>2 DEF SaveLocked
<1>3. CASE LogoutAll(p)
  BY <1>0, <1>3, DoneLocal DEF LogoutAll
<1>4. CASE EndSession(p)
  BY <1>0, <1>4, DoneLocal DEF EndSession
<1>5. CASE Crash(p)
  BY <1>0, <1>5, DoneLocal DEF Crash, tables
<1> QED BY <1>1, <1>2, <1>3, <1>4, <1>5

\* Steps that leave the user row alone.
Elsewhere(p) ==
  \/ VerifyLoad(p) \/ ActivateLoad(p) \/ UpdateLoad(p) \/ ForgotLoad(p)
  \/ ResetLoad(p) \/ SuspendLoad(p) \/ DeactivateLoad(p) \/ LogoutAllLoad(p)
  \/ \E s \in SessionId : RefreshLoad(p, s) \/ LogoutLoad(p, s) \/ RevokeSessionLoad(p, s)
  \/ LoginLoad(p) \/ LoginCount(p) \/ LoginOldest(p) \/ LoginEvict(p) \/ LoginInsert(p)
  \/ RefreshUser(p) \/ RefreshRotate(p) \/ RefreshInsert(p)

\* The steps that leave the user row alone.
LEMMA ElsewhereWrites ==
  ASSUME NEW p \in Proc, Elsewhere(p)
  PROVE  user' = user
  BY Zenon DEF Elsewhere, VerifyLoad, ActivateLoad, UpdateLoad, ForgotLoad, ResetLoad,
     SuspendLoad, DeactivateLoad, LogoutAllLoad, Loads, tables, RefreshLoad, LogoutLoad,
     RevokeSessionLoad, LoginLoad, LoginCount, LoginOldest, LoginEvict, LoginInsert,
     RefreshUser, RefreshRotate, RefreshInsert

\* The steps of Next, sorted by what they do to the account.
LEMMA StepCases ==
  ASSUME [Next]_vars
  PROVE  \/ \E p \in Proc : Register(p) \/ CreateOrgAdmin(p)
         \/ \E p \in Proc : SaveUser(p) \/ SaveLocked(p) \/ LogoutAll(p) \/ EndSession(p) \/ Crash(p)
         \/ \E p \in Proc : Elsewhere(p)
         \/ UNCHANGED <<user, pc, req>>
<1>1. ASSUME NEW s \in SessionId, Lapse(s) PROVE UNCHANGED <<user, pc, req>>
  BY <1>1 DEF Lapse
<1>2. CASE UNCHANGED vars
  BY <1>2 DEF vars
<1> QED BY <1>1, <1>2, Zenon DEF Next, Undisturbed, Begin, Proceed, Elsewhere

\* Every step keeps the handlers' local state and the type of the user row.
LEMMA LocalStep ==
  ASSUME IndInv, [Next]_vars
  PROVE  Local' /\ user' \in Row \cup {NoRow}
<1>1. user \in Row \cup {NoRow}
  BY DEF IndInv, TypeOK
<1>2. ASSUME NEW p \in Proc, Elsewhere(p) PROVE Local' /\ user' \in Row \cup {NoRow}
  BY <1>1, <1>2, ElsewhereWrites, AccountLoadStep, SessionLoadStep, LoginStep, RefreshStep, Zenon
     DEF Elsewhere
<1> QED BY <1>1, <1>2, RegisterStep, SaveStep, StillLocal, StepCases, Zenon

-----------------------------------------------------------------------------
\* The tables.

\* Every step keeps the types of the session table.
LEMMA SessionType ==
  ASSUME IndInv, [Next]_vars
  PROVE  /\ session' \in [SessionId -> {"none", "live", "lapsed", "ended"}]
         /\ parent' \in [SessionId -> 0..MaxIssued]
         /\ opener' \in [SessionId -> Password \cup {NoRow}]
<1> USE DEF IndInv, TypeOK
<1>1. CASE UNCHANGED <<session, parent, opener>>
  BY <1>1
<1>2. ASSUME NEW ss, End(ss), UNCHANGED <<parent, opener>>
      PROVE session' \in [SessionId -> {"none", "live", "lapsed", "ended"}]
  BY <1>2 DEF End
<1>3. ASSUME NEW s \in SessionId, Lapses(s)
      PROVE session' \in [SessionId -> {"none", "live", "lapsed", "ended"}]
  BY <1>3 DEF Lapses
<1>4. ASSUME NEW p \in Proc, NEW from \in 0..MaxIssued, pc[p] # "idle", Opens(p, from)
      PROVE  /\ session' \in [SessionId -> {"none", "live", "lapsed", "ended"}]
             /\ parent' \in [SessionId -> 0..MaxIssued]
             /\ opener' \in [SessionId -> Password \cup {NoRow}]
  <2>1. req[p].opener \in Password \cup {NoRow}
    BY <1>4 DEF HandlerOK, Coherent, Request
  <2> QED BY <1>4, <2>1 DEF Opens
<1>5. ASSUME NEW p \in Proc, pc[p] = "refresh.insert" PROVE req[p].sid \in 0..MaxIssued
  BY <1>5 DEF HandlerOK, Coherent, Request
<1>6. 0 \in 0..MaxIssued
  BY BoundAssumption
<1>7. CASE \E p \in Proc : pc[p] = "login.insert" /\ Opens(p, 0)
  BY <1>4, <1>6, <1>7
<1>8. CASE \E p \in Proc : pc[p] = "refresh.insert" /\ Opens(p, req[p].sid) /\ Done(p)
  BY <1>4, <1>5, <1>8
<1> QED BY <1>1, <1>2, <1>3, <1>7, <1>8, SessionWrites

\* What an opening does to the descendants of a session.
LEMMA OpensWrites ==
  ASSUME IndInv, NEW p \in Proc, NEW from \in 0..MaxIssued, Opens(p, from)
  PROVE  \E c \in SessionId \ Issued :
           /\ Issued' = Issued \cup {c}
           /\ \A s \in SessionId :
                Children(s)' = IF s = from THEN Children(s) \cup {c} ELSE Children(s)
<1>1. PICK c \in SessionId \ Issued :
        /\ session' = [session EXCEPT ![c] = "live"]
        /\ parent' = [parent EXCEPT ![c] = from]
  BY DEF Opens
<1>2. Issued' = Issued \cup {c}
  BY <1>1 DEF Issued, IndInv, TypeOK
<1>3. \A s \in SessionId :
        Children(s)' = IF s = from THEN Children(s) \cup {c} ELSE Children(s)
  BY <1>1, <1>2 DEF Children, Issued, IndInv, TypeOK
<1> QED BY <1>1, <1>2, <1>3

\* Only an opening adds a descendant.
LEMMA ChildrenWrites ==
  ASSUME IndInv, [Next]_vars
  PROVE  \/ \A s \in SessionId : Children(s)' = Children(s)
         \/ \E p \in Proc : pc[p] = "login.insert" /\ Opens(p, 0)
         \/ \E p \in Proc : pc[p] = "refresh.insert" /\ Opens(p, req[p].sid) /\ Done(p)
<1>1. CASE UNCHANGED <<session, parent, opener>>
  BY <1>1 DEF Children, Issued
<1>2. ASSUME NEW ss, End(ss), UNCHANGED <<parent, opener>>
      PROVE  \A s \in SessionId : Children(s)' = Children(s)
  BY <1>2 DEF End, Children, Issued, Active, IndInv, TypeOK
<1>3. ASSUME NEW t \in SessionId, Lapses(t), UNCHANGED <<parent, opener>>
      PROVE  \A s \in SessionId : Children(s)' = Children(s)
  BY <1>3 DEF Lapses, Children, Issued, IndInv, TypeOK
<1> QED BY <1>1, <1>2, <1>3, SessionWrites, Zenon

\* A session has descendants only once it has ended.
LEMMA ExchangedStep ==
  ASSUME IndInv, [Next]_vars
  PROVE  ExchangedTokenIsOver'
<1> SUFFICES ASSUME NEW s \in SessionId, Children(s)' # {}
             PROVE  session'[s] = "ended"
  BY DEF ExchangedTokenIsOver
<1>1. CASE Children(s)' = Children(s)
  BY <1>1, EndedStays DEF IndInv, ExchangedTokenIsOver
<1>2. ASSUME NEW p \in Proc, pc[p] = "login.insert", Opens(p, 0) PROVE session'[s] = "ended"
  <2>1. Children(s)' = Children(s)
    BY <1>2, OpensWrites, BoundAssumption DEF SessionId
  <2> QED BY <2>1, <1>1
<1>3. ASSUME NEW p \in Proc, pc[p] = "refresh.insert", Opens(p, req[p].sid)
      PROVE  session'[s] = "ended"
  <2>1. Coherent(p)
    BY DEF IndInv, HandlerOK
  <2>2. req[p].sid \in 0..MaxIssued
    BY <1>3, <2>1 DEF Coherent, Request
  <2>3. CASE s = req[p].sid
    BY <1>3, <2>1, <2>3, EndedStays DEF Coherent, IndInv
  <2>4. CASE s # req[p].sid
    BY <1>1, <1>3, <2>2, <2>4, OpensWrites
  <2> QED BY <2>3, <2>4
<1> QED BY <1>1, <1>2, <1>3, ChildrenWrites, Zenon

\* The invariant holds at first.
LEMMA InitInv ==
  ASSUME Init
  PROVE  IndInv
  BY BoundAssumption DEF Init, IndInv, TypeOK, HandlerOK, Coherent, ExchangedTokenIsOver,
     Children, Issued, Steps, LockSaves, PlainSaves, LoginSteps, Rotation

\* Every step keeps the invariant.
LEMMA NextInv ==
  ASSUME IndInv, [Next]_vars
  PROVE  IndInv'
  BY LocalStep, SessionType, ExchangedStep DEF IndInv, TypeOK, Local

\* The invariant holds.
LEMMA Invariance == Spec => []IndInv
  BY InitInv, NextInv, PTL DEF Spec

\* The tables and the handlers' local state always have their types.
THEOREM TypeCorrect == Spec => []TypeOK
<1>1. IndInv => TypeOK
  BY DEF IndInv
<1> QED BY <1>1, Invariance, PTL

\* A token that was exchanged is over, however many requests presented it.
THEOREM ExchangedTheorem == Spec => []ExchangedTokenIsOver
<1>1. IndInv => ExchangedTokenIsOver
  BY DEF IndInv
<1> QED BY <1>1, Invariance, PTL

-----------------------------------------------------------------------------
\* Who works on the exchange of a token.

Exchangers(s) == {p \in Proc : pc[p] \in Rotation /\ req[p].sid = s}

\* A handler that is not served by refreshTokens.
Leaves(p) == \E step \in Steps \ Rotation : \E r : Await(p, step, r)

\* The steps of Next, sorted by what they do to the exchanges.
LEMMA MoveCases ==
  ASSUME [Next]_vars
  PROVE  \/ UNCHANGED <<pc, req>>
         \/ \E p \in Proc, s \in SessionId : RefreshLoad(p, s)
         \/ \E p \in Proc : RefreshUser(p) \/ RefreshRotate(p)
         \/ \E p \in Proc : Leaves(p)
<1>0. /\ LockSaves \cup PlainSaves \cup LoginSteps \cup EndSteps \subseteq Steps \ Rotation
      /\ "idle" \in Steps \ Rotation /\ "logoutAll" \in Steps \ Rotation
  BY DEF Steps, LockSaves, PlainSaves, LoginSteps, EndSteps, Rotation
<1>1. /\ {"register.save", "verify.save", "activate.save", "update.save", "forgot.save",
          "login.save"} \subseteq Steps \ Rotation
      /\ {"reset.save", "suspend.save", "deactivate.save"} \subseteq Steps \ Rotation
      /\ {"login.count", "login.oldest", "login.evict", "login.insert"} \subseteq Steps \ Rotation
      /\ {"logout.save", "revokeSession.save"} \subseteq Steps \ Rotation
  BY <1>0 DEF LockSaves, PlainSaves, LoginSteps, EndSteps
<1>2. ASSUME NEW p \in Proc, NEW step \in Steps \ Rotation, NEW row, Loads(p, step, row)
      PROVE  Leaves(p)
  BY <1>2, Zenon DEF Loads, Leaves
<1>3. ASSUME NEW p \in Proc, Done(p) PROVE Leaves(p)
  BY <1>0, <1>3, Zenon DEF Done, Leaves
<1>4. ASSUME NEW p \in Proc, NEW step \in Steps \ Rotation, Goto(p, step) PROVE Leaves(p)
  BY <1>4, Zenon DEF Goto, Leaves
<1>5. ASSUME NEW p \in Proc, NEW step \in Steps \ Rotation, NEW r, Await(p, step, r)
      PROVE  Leaves(p)
  BY <1>5, Zenon DEF Leaves
<1>6. ASSUME NEW p \in Proc, Register(p) PROVE Leaves(p)
  <2>1. PICK r : Await(p, "register.save", r)
    BY <1>6, Zenon DEF Register
  <2> QED BY <1>1, <1>5, <2>1
<1>7. ASSUME NEW p \in Proc, CreateOrgAdmin(p) PROVE UNCHANGED <<pc, req>>
  BY <1>7 DEF CreateOrgAdmin
<1>8. ASSUME NEW p \in Proc,
             \/ VerifyLoad(p) \/ ActivateLoad(p) \/ UpdateLoad(p) \/ ForgotLoad(p)
             \/ ResetLoad(p) \/ SuspendLoad(p) \/ DeactivateLoad(p) \/ LogoutAllLoad(p)
      PROVE  Leaves(p)
  <2>1. PICK step \in {"verify.save", "activate.save", "update.save", "forgot.save", "reset.save",
                       "suspend.save", "deactivate.save", "logoutAll"} :
          \E row : Loads(p, step, row)
    BY <1>8, Zenon DEF VerifyLoad, ActivateLoad, UpdateLoad, ForgotLoad, ResetLoad, SuspendLoad,
       DeactivateLoad, LogoutAllLoad
  <2> QED BY <1>0, <1>1, <1>2, <2>1
<1>9. ASSUME NEW p \in Proc,
             \/ LoginLoad(p) \/ LoginCount(p) \/ LoginOldest(p) \/ LoginEvict(p) \/ LoginInsert(p)
      PROVE  Leaves(p)
  <2>1. PICK step \in {"login.count", "login.oldest", "login.evict", "login.insert", "login.save"} :
          \E r : Await(p, step, r)
    <3>1. CASE LoginLoad(p)
      BY <3>1, Zenon DEF LoginLoad
    <3>2. CASE LoginCount(p)
      BY <3>2 DEF LoginCount, Goto
    <3>3. CASE LoginOldest(p) \/ LoginEvict(p) \/ LoginInsert(p)
      BY <3>3, Zenon DEF LoginOldest, LoginEvict, LoginInsert, Goto
    <3> QED BY <1>9, <3>1, <3>2, <3>3
  <2> QED BY <1>1, <1>5, <2>1
<1>10. ASSUME NEW p \in Proc, NEW s \in SessionId, LogoutLoad(p, s) \/ RevokeSessionLoad(p, s)
       PROVE  Leaves(p)
  <2>1. PICK step \in {"logout.save", "revokeSession.save"} : \E r : Await(p, step, r)
    BY <1>10, Zenon DEF LogoutLoad, RevokeSessionLoad
  <2> QED BY <1>1, <1>5, <2>1
<1>11. ASSUME NEW p \in Proc,
              \/ SaveUser(p) \/ SaveLocked(p) \/ LogoutAll(p) \/ EndSession(p)
              \/ RefreshInsert(p) \/ Crash(p)
       PROVE  Leaves(p)
  BY <1>0, <1>3, <1>4, <1>11, Zenon
     DEF SaveUser, SaveLocked, LogoutAll, EndSession, RefreshInsert, Crash
<1>12. ASSUME NEW s \in SessionId, Lapse(s) PROVE UNCHANGED <<pc, req>>
  BY <1>12 DEF Lapse
<1>13. CASE UNCHANGED vars
  BY <1>13 DEF vars
<1> QED BY <1>6, <1>7, <1>8, <1>9, <1>10, <1>11, <1>12, <1>13, Zenon
    DEF Next, Undisturbed, Begin, Proceed

\* A handler takes up a token only while its session is active, and keeps to it.
LEMMA ExchangerStep ==
  ASSUME IndInv, [Next]_vars, NEW p \in Proc, pc'[p] \in Rotation
  PROVE  \/ pc[p] \in Rotation /\ req'[p].sid = req[p].sid
         \/ pc[p] = "idle" /\ req'[p].sid \in Active
<1> USE DEF IndInv, TypeOK
<1>1. CASE UNCHANGED <<pc, req>>
  BY <1>1
<1>2. ASSUME NEW q \in Proc, NEW s \in SessionId, RefreshLoad(q, s)
      PROVE  \/ pc[p] \in Rotation /\ req'[p].sid = req[p].sid
             \/ pc[p] = "idle" /\ req'[p].sid \in Active
  BY <1>2 DEF RefreshLoad, Await
<1>3. ASSUME NEW q \in Proc, RefreshUser(q) \/ RefreshRotate(q)
      PROVE  pc[p] \in Rotation /\ req'[p].sid = req[p].sid
  BY <1>3 DEF RefreshUser, RefreshRotate, Goto, Done, Await, Rotation
<1>4. ASSUME NEW q \in Proc, Leaves(q)
      PROVE  pc[p] \in Rotation /\ req'[p].sid = req[p].sid
  BY <1>4 DEF Leaves, Await
<1> QED BY <1>1, <1>2, <1>3, <1>4, MoveCases, Zenon

\* Nobody but a refresh that still found it active exchanges a token.
LEMMA DeadStep ==
  ASSUME IndInv, [Next]_vars, NEW s \in SessionId, Dead(s)
  PROVE  Dead(s)' /\ Children(s)' = Children(s)
<1>1. session'[s] = "ended"
  BY EndedStays DEF Dead, IndInv
<1>2. ASSUME NEW p \in Proc, pc'[p] \in Rotation PROVE req'[p].sid # s
  BY <1>2, ExchangerStep DEF Dead, Active
<1>3. ASSUME NEW p \in Proc, pc[p] = "login.insert", Opens(p, 0)
      PROVE  Children(s)' = Children(s)
  BY <1>3, OpensWrites, BoundAssumption DEF SessionId
<1>4. ASSUME NEW p \in Proc, pc[p] = "refresh.insert", Opens(p, req[p].sid)
      PROVE  Children(s)' = Children(s)
  <2>1. req[p].sid \in 0..MaxIssued /\ req[p].sid # s
    BY <1>4 DEF Dead, Rotation, IndInv, HandlerOK, Coherent, Request
  <2> QED BY <1>4, <2>1, OpensWrites
<1>5. Children(s)' = Children(s)
  BY <1>3, <1>4, ChildrenWrites, Zenon
<1> QED BY <1>1, <1>2, <1>5 DEF Dead

\* A token whose session was ended, by whatever, is good for nothing once the
\* requests that found it active are through.
THEOREM DeadTheorem == Spec => DeadTokenStaysDead
<1>1. IndInv /\ [Next]_vars =>
        [\A s \in SessionId : Dead(s) => Dead(s)' /\ Children(s)' = Children(s)]_vars
  BY DeadStep
<1> QED BY <1>1, Invariance, PTL DEF Spec, DeadTokenStaysDead

-----------------------------------------------------------------------------
\* How often a token is exchanged.

\* Each handler working on the exchange of a token may add one descendant.
ExchangeRoom ==
  \A s \in SessionId : Cardinality(Children(s)) + Cardinality(Exchangers(s)) <= Cardinality(Proc)

\* Descendants and handlers are finite sets.
LEMMA Finite ==
  /\ \A S \in SUBSET SessionId : IsFiniteSet(S) /\ Cardinality(S) \in Nat
  /\ \A S \in SUBSET Proc : /\ IsFiniteSet(S) /\ Cardinality(S) \in Nat
                            /\ Cardinality(S) <= Cardinality(Proc)
<1>1. IsFiniteSet(SessionId)
  BY FS_Interval, BoundAssumption DEF SessionId
<1>2. ASSUME NEW S \in SUBSET SessionId PROVE IsFiniteSet(S) /\ Cardinality(S) \in Nat
  BY <1>1, FS_Subset, FS_CardinalityType
<1>3. ASSUME NEW S \in SUBSET Proc
      PROVE  IsFiniteSet(S) /\ Cardinality(S) \in Nat /\ Cardinality(S) <= Cardinality(Proc)
  BY ProcAssumption, FS_Subset, FS_CardinalityType
<1> QED BY <1>2, <1>3

\* A handler joins the exchangers of an active session, which has no descendant, and
\* leaves them by adding one or by giving up.
LEMMA ExchangeRoomStep ==
  ASSUME IndInv, ExchangeRoom, [Next]_vars
  PROVE  ExchangeRoom'
<1> SUFFICES ASSUME NEW s \in SessionId
             PROVE  Cardinality(Children(s)') + Cardinality(Exchangers(s)') <= Cardinality(Proc)
  BY DEF ExchangeRoom
<1> DEFINE Goal == Cardinality(Children(s)') + Cardinality(Exchangers(s)') <= Cardinality(Proc)
<1>1. /\ Children(s) \in SUBSET SessionId /\ Exchangers(s) \in SUBSET Proc
      /\ Children(s)' \in SUBSET SessionId /\ Exchangers(s)' \in SUBSET Proc
  BY DEF Children, Issued, Exchangers
<1>2. Cardinality(Proc) \in Nat
  BY ProcAssumption, FS_CardinalityType
<1>3. Cardinality(Children(s)) + Cardinality(Exchangers(s)) <= Cardinality(Proc)
  BY DEF ExchangeRoom
<1>4. CASE Children(s)' = Children(s)
  <2>1. CASE Children(s) = {}
    BY <1>1, <1>2, <1>4, <2>1, Finite, FS_EmptySet
  <2>2. CASE Children(s) # {}
    <3>1. session[s] = "ended"
      BY <2>2 DEF IndInv, ExchangedTokenIsOver
    <3>2. Exchangers(s)' \subseteq Exchangers(s)
      BY <3>1, ExchangerStep DEF Exchangers, Active
    <3>3. Cardinality(Exchangers(s)') <= Cardinality(Exchangers(s))
      BY <1>1, <3>2, Finite, FS_Subset
    <3> QED BY <1>1, <1>2, <1>3, <1>4, <3>3, Finite
  <2> QED BY <2>1, <2>2
<1>5. ASSUME NEW p \in Proc, pc[p] = "login.insert", Opens(p, 0) PROVE Goal
  <2>1. Children(s)' = Children(s)
    BY <1>5, OpensWrites, BoundAssumption DEF SessionId
  <2> QED BY <1>4, <2>1
<1>6. ASSUME NEW p \in Proc, pc[p] = "refresh.insert", Opens(p, req[p].sid), Done(p)
      PROVE  Goal
  <2>1. Coherent(p) /\ pc[p] = "refresh.insert"
    BY <1>6 DEF IndInv, HandlerOK
  <2>2. req[p].sid \in 0..MaxIssued
    BY <2>1 DEF Coherent, Request
  <2>3. CASE s # req[p].sid
    BY <1>4, <1>6, <2>2, <2>3, OpensWrites
  <2>4. CASE s = req[p].sid
    <3>1. PICK c \in SessionId \ Issued : Children(s)' = Children(s) \cup {c}
      BY <1>6, <2>2, <2>4, OpensWrites
    <3>2. c \notin Children(s)
      BY DEF Children
    <3>3. p \in Exchangers(s)
      BY <2>1, <2>4 DEF Exchangers, Rotation
    <3>4. session[s] = "ended" /\ pc'[p] = "idle"
      BY <1>6, <2>1, <2>4 DEF Coherent, Done, Await, IndInv, TypeOK
    <3>5. Exchangers(s)' \subseteq Exchangers(s) \ {p}
      BY <3>4, ExchangerStep DEF Exchangers, Active, Rotation
    <3>6. Cardinality(Children(s)') = Cardinality(Children(s)) + 1
      BY <1>1, <3>1, <3>2, Finite, FS_AddElement
    <3>7. Cardinality(Exchangers(s) \ {p}) = Cardinality(Exchangers(s)) - 1
      BY <1>1, <3>3, Finite, FS_RemoveElement
    <3>8. Cardinality(Exchangers(s)') <= Cardinality(Exchangers(s) \ {p})
      BY <1>1, <3>5, Finite, FS_Subset
    <3> QED BY <1>1, <1>2, <1>3, <3>6, <3>7, <3>8, Finite
  <2> QED BY <2>3, <2>4
<1> QED BY <1>4, <1>5, <1>6, ChildrenWrites, Zenon

\* Overlapping refreshes may exchange one token several times, but never more often
\* than there are handlers.
THEOREM ExchangesTheorem == Spec => []ExchangesBounded
<1>1. Init => ExchangeRoom
  <2> SUFFICES ASSUME Init, NEW s \in SessionId
               PROVE  Cardinality(Children(s)) + Cardinality(Exchangers(s)) <= Cardinality(Proc)
    BY DEF ExchangeRoom
  <2>1. Children(s) = {} /\ Exchangers(s) = {}
    BY DEF Init, Children, Issued, Exchangers, Rotation
  <2> QED BY <2>1, FS_EmptySet, FS_CardinalityType, ProcAssumption
<1>2. ExchangeRoom => ExchangesBounded
  <2> SUFFICES ASSUME ExchangeRoom, NEW s \in SessionId
               PROVE  Cardinality(Children(s)) <= Cardinality(Proc)
    BY DEF ExchangesBounded
  <2>1. Children(s) \in SUBSET SessionId /\ Exchangers(s) \in SUBSET Proc
    BY DEF Children, Issued, Exchangers
  <2> QED BY <2>1, Finite, FS_CardinalityType, ProcAssumption DEF ExchangeRoom
<1> QED BY <1>1, <1>2, ExchangeRoomStep, Invariance, PTL DEF Spec

-----------------------------------------------------------------------------
\* What a handler holds after a step, as far as locks and passwords go.

\* It begins a request that holds the user row ...
TakesUser(p) ==
  /\ pc[p] = "idle" /\ req'[p].row.password = user.password
  /\ \/ pc'[p] \in {"verify.save", "activate.save"}
     \/ pc'[p] \in {"update.save", "forgot.save", "logoutAll"} /\ req'[p].row.status = user.status
     \/ pc'[p] \in {"suspend.save", "deactivate.save"} /\ req'[p].row.status \in Locked

\* ... or a reset, that will change the password ...
TakesReset(p) ==
  pc[p] = "idle" /\ pc'[p] = "reset.save" /\ req'[p].row.status = user.status

\* ... or a login with the password of the day ...
TakesLogin(p) ==
  /\ pc[p] = "idle" /\ pc'[p] = "login.count" /\ user.status = "ACTIVE"
  /\ req'[p].row = user /\ req'[p].opener = user.password

\* ... or one that holds a session.
TakesSession(p) ==
  /\ pc[p] = "idle"
  /\ \/ pc'[p] = "refresh.user" /\ \E s \in Active : req'[p].opener = opener[s]
     \/ pc'[p] \in EndSteps

\* It goes on with the request it holds.
GoesOn(p) ==
  \/ /\ pc[p] \in LoginSteps /\ pc'[p] \in LoginSteps \cup {"login.save"}
     /\ req'[p].row = req[p].row /\ req'[p].opener = req[p].opener
  \/ pc[p] = "refresh.user" /\ user.status \notin Locked /\ pc'[p] = "refresh.rotate" /\ req'[p] = req[p]
  \/ pc[p] = "refresh.rotate" /\ pc'[p] = "refresh.insert" /\ req'[p] = req[p]
  \/ pc[p] \in LockSaves /\ pc'[p] = "logoutAll"

Stays(p) == pc'[p] = pc[p] /\ req'[p] = req[p]

Moves(p) ==
  \/ Stays(p) \/ pc'[p] = "idle"
  \/ TakesUser(p) \/ TakesReset(p) \/ TakesLogin(p) \/ TakesSession(p) \/ GoesOn(p)

\* Requests that load the user row.
LEMMA UserMoves ==
  ASSUME IndInv, user # NoRow, NEW p \in Proc,
         \/ VerifyLoad(p) \/ ActivateLoad(p) \/ UpdateLoad(p) \/ ForgotLoad(p)
         \/ SuspendLoad(p) \/ DeactivateLoad(p) \/ LogoutAllLoad(p)
  PROVE  TakesUser(p)
<1>1. user \in Row
  BY DEF IndInv, TypeOK
<1>2. ASSUME NEW step \in Steps, NEW row, Loads(p, step, row)
      PROVE  pc[p] = "idle" /\ pc'[p] = step /\ req'[p].row = row
  BY <1>2 DEF Loads, Await, Holding, IndInv, TypeOK
<1>3. /\ {"verify.save", "activate.save", "update.save", "forgot.save", "suspend.save",
          "deactivate.save", "logoutAll"} \subseteq Steps
      /\ {"SUSPENDED", "DEACTIVATED"} \subseteq Locked
  BY DEF Steps, PlainSaves, LockSaves, Locked
<1>4. CASE VerifyLoad(p)
  <2>1. pc[p] = "idle" /\ pc'[p] = "verify.save"
          /\ req'[p].row = [user EXCEPT !.status = "ACTIVE", !.verify = FALSE]
    BY <1>2, <1>3, <1>4 DEF VerifyLoad
  <2> QED BY <1>1, <2>1 DEF TakesUser, Row
<1>5. CASE ActivateLoad(p)
  <2>1. pc[p] = "idle" /\ pc'[p] = "activate.save" /\ req'[p].row = [user EXCEPT !.status = "ACTIVE"]
    BY <1>2, <1>3, <1>5 DEF ActivateLoad
  <2> QED BY <1>1, <2>1 DEF TakesUser, Row
<1>6. CASE UpdateLoad(p) \/ LogoutAllLoad(p)
  <2>1. pc[p] = "idle" /\ pc'[p] \in {"update.save", "logoutAll"} /\ req'[p].row = user
    BY <1>2, <1>3, <1>6 DEF UpdateLoad, LogoutAllLoad
  <2> QED BY <1>1, <2>1 DEF TakesUser, Row
<1>7. CASE ForgotLoad(p)
  <2>1. pc[p] = "idle" /\ pc'[p] = "forgot.save" /\ req'[p].row = [user EXCEPT !.reset = TRUE]
    BY <1>2, <1>3, <1>7 DEF ForgotLoad
  <2> QED BY <1>1, <2>1 DEF TakesUser, Row
<1>8. CASE SuspendLoad(p)
  <2>1. pc[p] = "idle" /\ pc'[p] = "suspend.save" /\ req'[p].row = [user EXCEPT !.status = "SUSPENDED"]
    BY <1>2, <1>3, <1>8 DEF SuspendLoad
  <2> QED BY <1>1, <1>3, <2>1 DEF TakesUser, Row
<1>9. CASE DeactivateLoad(p)
  <2>1. pc[p] = "idle" /\ pc'[p] = "deactivate.save"
          /\ req'[p].row = [user EXCEPT !.status = "DEACTIVATED"]
    BY <1>2, <1>3, <1>9 DEF DeactivateLoad
  <2> QED BY <1>1, <1>3, <2>1 DEF TakesUser, Row
<1> QED BY <1>4, <1>5, <1>6, <1>7, <1>8, <1>9

\* Every step, seen by any handler.
LEMMA MovesStep ==
  ASSUME IndInv, [Next]_vars, user # NoRow, NEW p \in Proc
  PROVE  Moves(p)
<1>0. /\ user \in Row
      /\ pc \in [Proc -> Steps] /\ req \in [Proc -> Request \cup {NoReq}]
  BY DEF IndInv, TypeOK
<1>1. ASSUME NEW q \in Proc, q # p, NEW step, NEW r, Await(q, step, r) PROVE Stays(p)
  BY <1>0, <1>1 DEF Await, Stays
<1>2. ASSUME NEW q \in Proc, q # p, Begin(q) \/ Proceed(q) \/ Crash(q) PROVE Stays(p)
  <2>1. CASE CreateOrgAdmin(q)
    BY <2>1 DEF CreateOrgAdmin, Stays
  <2>2. CASE ~CreateOrgAdmin(q)
    <3>1. \E step, r : Await(q, step, r)
      BY <1>2, <2>2, Zenon DEF Begin, Register, VerifyLoad, ActivateLoad, UpdateLoad, ForgotLoad,
         ResetLoad, SuspendLoad, DeactivateLoad, LogoutAllLoad, LoginLoad, RefreshLoad, LogoutLoad,
         RevokeSessionLoad, Loads, Proceed, SaveUser, SaveLocked, LogoutAll, LoginCount,
         LoginOldest, LoginEvict, LoginInsert, RefreshUser, RefreshRotate, RefreshInsert,
         EndSession, Crash, Goto, Done
    <3> QED BY <1>1, <1>2, <3>1
  <2> QED BY <2>1, <2>2
<1>3. CASE ResetLoad(p)
  <2>1. PICK pw \in Password : Loads(p, "reset.save", [user EXCEPT !.password = pw, !.reset = FALSE])
    BY <1>3, Zenon DEF ResetLoad
  <2> QED BY <1>0, <2>1 DEF Loads, Await, Holding, Row, TakesReset, Moves
<1>4. CASE LoginLoad(p)
  BY <1>0, <1>4 DEF LoginLoad, Await, TakesLogin, Moves
<1>5. ASSUME NEW s \in SessionId, RefreshLoad(p, s) \/ LogoutLoad(p, s) \/ RevokeSessionLoad(p, s)
      PROVE  TakesSession(p)
  BY <1>0, <1>5 DEF RefreshLoad, LogoutLoad, RevokeSessionLoad, Await, TakesSession, EndSteps
<1>6. CASE LoginCount(p) \/ LoginOldest(p) \/ LoginEvict(p) \/ LoginInsert(p)
  <2>1. pc[p] \in LoginSteps /\ req[p] \in Request
    BY <1>6 DEF LoginCount, LoginOldest, LoginEvict, LoginInsert, LoginSteps, IndInv, HandlerOK,
       Coherent
  <2>2. ASSUME NEW step \in LoginSteps \cup {"login.save"}, NEW r, Await(p, step, r),
               r.row = req[p].row, r.opener = req[p].opener
        PROVE  Moves(p)
    BY <1>0, <2>1, <2>2 DEF Await, GoesOn, Moves
  <2>3. ASSUME NEW s PROVE /\ [req[p] EXCEPT !.sid = s].row = req[p].row
                           /\ [req[p] EXCEPT !.sid = s].opener = req[p].opener
    BY <2>1 DEF Request
  <2>4. {"login.count", "login.oldest", "login.evict", "login.insert"} \subseteq LoginSteps
    BY DEF LoginSteps
  <2>5. CASE LoginCount(p) \/ LoginInsert(p)
    BY <2>2, <2>4, <2>5 DEF LoginCount, LoginInsert, Goto
  <2>6. CASE LoginOldest(p) \/ LoginEvict(p)
    BY <2>2, <2>3, <2>4, <2>6, Zenon DEF LoginOldest, LoginEvict, Goto
  <2> QED BY <1>6, <2>5, <2>6
<1>7. CASE RefreshUser(p) \/ RefreshRotate(p)
  BY <1>0, <1>7 DEF RefreshUser, RefreshRotate, Goto, Done, Await, GoesOn, Moves
<1>8. CASE SaveLocked(p)
  BY <1>0, <1>8 DEF SaveLocked, Goto, Await, GoesOn, Moves
<1>9. CASE SaveUser(p) \/ LogoutAll(p) \/ RefreshInsert(p) \/ EndSession(p) \/ Crash(p)
  BY <1>0, <1>9 DEF SaveUser, LogoutAll, RefreshInsert, EndSession, Crash, Done, Await, Moves
<1>10. ~Register(p) /\ ~CreateOrgAdmin(p)
  BY DEF Register, CreateOrgAdmin
<1>11. ASSUME NEW s \in SessionId, Lapse(s) PROVE Stays(p)
  BY <1>11 DEF Lapse, Stays
<1>12. CASE UNCHANGED vars
  BY <1>12 DEF vars, Stays, Moves
<1>13. CASE Begin(p) \/ Proceed(p) \/ Crash(p)
  BY <1>3, <1>4, <1>5, <1>6, <1>7, <1>8, <1>9, <1>10, <1>13, UserMoves, Zenon
     DEF Begin, Proceed, Moves
<1> QED BY <1>2, <1>11, <1>12, <1>13, Zenon DEF Next, Undisturbed, Moves

-----------------------------------------------------------------------------
\* Locked accounts.

\* The user row after a step: a saved one, or as before.
LEMMA UserWrites ==
  ASSUME IndInv, [Next]_vars, user # NoRow
  PROVE  \/ user' = user
         \/ \E p \in Proc : pc[p] \in LockSaves \cup PlainSaves /\ req[p].row \in Row /\ user' = req[p].row
<1>1. ASSUME NEW p \in Proc, pc[p] \in LockSaves \cup PlainSaves PROVE req[p].row \in Row
  BY <1>1 DEF IndInv, HandlerOK, Coherent
<1>2. ASSUME NEW p \in Proc, SaveUser(p) \/ SaveLocked(p) \/ LogoutAll(p) \/ EndSession(p) \/ Crash(p)
      PROVE  \/ user' = user
             \/ pc[p] \in LockSaves \cup PlainSaves /\ user' = req[p].row
  BY <1>2 DEF SaveUser, SaveLocked, LogoutAll, EndSession, Crash, tables
<1>3. ASSUME NEW p \in Proc PROVE ~Register(p) /\ ~CreateOrgAdmin(p)
  BY DEF Register, CreateOrgAdmin
<1> QED BY <1>1, <1>2, <1>3, ElsewhereWrites, StepCases, Zenon

\* A handler that could not unlock a locked account cannot after its next step,
\* unless that begins an activation or a verification.
LEMMA StillLocked ==
  ASSUME IndInv, [Next]_vars, LockedOut, NEW p \in Proc,
         ~(pc[p] = "idle" /\ pc'[p] \in {"activate.save", "verify.save"})
  PROVE  ~MayUnlock(p)'
<1>1. ~MayUnlock(p) /\ user # NoRow /\ user.status \in Locked /\ user.status # "ACTIVE"
  BY DEF LockedOut, Locked
<1>2. pc[p] \notin LoginSteps
  BY <1>1 DEF MayUnlock, IndInv, HandlerOK, Coherent, Locked
<1>3. Moves(p)
  BY <1>1, MovesStep
<1>4. CASE Stays(p)
  BY <1>1, <1>4 DEF Stays, MayUnlock
<1>5. CASE pc'[p] \in EndSteps \cup {"idle", "logoutAll", "refresh.user"}
  BY <1>5 DEF MayUnlock, EndSteps, LockSaves, PlainSaves, LoginSteps
<1>6. CASE TakesUser(p)
  BY <1>1, <1>5, <1>6 DEF TakesUser, MayUnlock
<1>7. CASE TakesReset(p)
  BY <1>1, <1>7 DEF TakesReset, MayUnlock
<1>8. CASE TakesLogin(p)
  BY <1>1, <1>8 DEF TakesLogin
<1>9. CASE TakesSession(p)
  BY <1>5, <1>9 DEF TakesSession
<1>10. CASE GoesOn(p)
  BY <1>1, <1>2, <1>5, <1>10 DEF GoesOn, MayUnlock
<1> QED BY <1>3, <1>4, <1>5, <1>6, <1>7, <1>8, <1>9, <1>10 DEF Moves

\* A step of a locked-out account opens no session and, unless it begins an
\* activation or a verification, leaves it locked out.
LEMMA LockStep ==
  ASSUME IndInv, [Next]_vars, LockedOut
  PROVE  /\ Issued' = Issued
         /\ \/ LockedOut'
            \/ \E p \in Proc : pc[p] = "idle" /\ pc'[p] \in {"activate.save", "verify.save"}
<1>1. user # NoRow /\ user.status \in Locked /\ \A p \in Proc : ~MayUnlock(p)
  BY DEF LockedOut
<1>2. Issued' = Issued
  <2>1. CASE UNCHANGED <<session, parent, opener>>
    BY <2>1 DEF Issued
  <2>2. ASSUME NEW ss, End(ss) PROVE Issued' = Issued
    BY <2>2 DEF End, Issued, Active, IndInv, TypeOK
  <2>3. ASSUME NEW s \in SessionId, Lapses(s) PROVE Issued' = Issued
    BY <2>3 DEF Lapses, Issued, IndInv, TypeOK
  <2>4. ASSUME NEW p \in Proc PROVE pc[p] # "login.insert" /\ pc[p] # "refresh.insert"
    BY <1>1 DEF MayUnlock, IndInv, HandlerOK, Coherent, LoginSteps, Locked
  <2> QED BY <2>1, <2>2, <2>3, <2>4, SessionWrites, Zenon
<1>3. user' # NoRow /\ user'.status \in Locked
  BY <1>1, UserWrites, NoneAssumption DEF MayUnlock
<1> QED BY <1>2, <1>3, StillLocked DEF LockedOut

\* A suspended or deactivated account that every request in flight saw locked opens
\* no session and stays locked until it is activated or verified.
THEOREM LockTheorem == Spec => LockHolds
<1>1. IndInv /\ [Next]_vars =>
        [LockedOut => /\ Issued' = Issued
                      /\ \/ LockedOut'
                         \/ \E p \in Proc : pc[p] = "idle" /\ pc'[p] \in {"activate.save", "verify.save"}]_vars
  BY LockStep
<1> QED BY <1>1, Invariance, PTL DEF Spec, LockHolds

-----------------------------------------------------------------------------
\* Forgotten passwords.

\* What handler p holds has nothing of password pw.
Free(p, pw) ==
  /\ pc[p] \in LockSaves \cup PlainSaves \cup LoginSteps => req[p].row.password # pw
  /\ pc[p] \in LoginSteps \cup Rotation => req[p].opener # pw

\* A handler free of a forgotten password stays so, unless it begins a reset to it.
LEMMA StillFree ==
  ASSUME IndInv, [Next]_vars, NEW pw \in Password, Forgotten(pw), NEW p \in Proc,
         ~(pc[p] = "idle" /\ pc'[p] = "reset.save" /\ req'[p].row.password = pw)
  PROVE  Free(p, pw)'
<1>1. /\ Free(p, pw) /\ user # NoRow /\ user.password # pw
      /\ \A s \in Active : opener[s] # pw
  BY DEF Forgotten, Free
<1>2. Moves(p)
  BY <1>1, MovesStep
<1>3. CASE Stays(p)
  BY <1>1, <1>3 DEF Stays, Free
<1>4. CASE pc'[p] \in EndSteps \cup {"idle", "logoutAll"}
  BY <1>4 DEF Free, EndSteps, LockSaves, PlainSaves, LoginSteps, Rotation
<1>5. CASE TakesUser(p)
  BY <1>1, <1>5 DEF TakesUser, Free, LoginSteps, Rotation
<1>6. CASE TakesReset(p)
  BY <1>6 DEF TakesReset, Free, LoginSteps, Rotation
<1>7. CASE TakesLogin(p)
  BY <1>1, <1>7 DEF TakesLogin, Free
<1>8. CASE TakesSession(p)
  BY <1>1, <1>4, <1>8 DEF TakesSession, Free, LockSaves, PlainSaves, LoginSteps
<1>9. CASE GoesOn(p)
  BY <1>1, <1>4, <1>9 DEF GoesOn, Free, LockSaves, PlainSaves, LoginSteps, Rotation
<1> QED BY <1>2, <1>3, <1>4, <1>5, <1>6, <1>7, <1>8, <1>9 DEF Moves

\* A forgotten password stays forgotten, unless a reset to it begins.
LEMMA ForgottenStep ==
  ASSUME IndInv, [Next]_vars, NEW pw \in Password, Forgotten(pw)
  PROVE  \/ Forgotten(pw)'
         \/ \E p \in Proc : pc[p] = "idle" /\ pc'[p] = "reset.save" /\ req'[p].row.password = pw
<1>1. /\ user # NoRow /\ user.password # pw
      /\ \A s \in Active : opener[s] # pw
      /\ \A p \in Proc : Free(p, pw)
  BY DEF Forgotten, Free
<1>2. user' # NoRow /\ user'.password # pw
  BY <1>1, UserWrites, NoneAssumption DEF Free
<1>3. \A s \in Active' : opener'[s] # pw
  <2>1. CASE UNCHANGED <<session, parent, opener>>
    BY <1>1, <2>1 DEF Active
  <2>2. ASSUME NEW ss, End(ss), UNCHANGED <<parent, opener>> PROVE \A s \in Active' : opener'[s] # pw
    BY <1>1, <2>2 DEF End, Active, IndInv, TypeOK
  <2>3. ASSUME NEW t \in SessionId, Lapses(t), UNCHANGED <<parent, opener>>
        PROVE  \A s \in Active' : opener'[s] # pw
    BY <1>1, <2>3 DEF Lapses, Active, IndInv, TypeOK
  <2>4. ASSUME NEW p \in Proc, pc[p] \in {"login.insert", "refresh.insert"}, NEW from, Opens(p, from)
        PROVE  \A s \in Active' : opener'[s] # pw
    <3>1. req[p].opener # pw
      BY <1>1, <2>4 DEF Free, LoginSteps, Rotation
    <3> QED BY <1>1, <2>4, <3>1 DEF Opens, Active, IndInv, TypeOK
  <2>5. CASE \E p \in Proc : pc[p] = "login.insert" /\ Opens(p, 0)
    BY <2>4, <2>5
  <2>6. CASE \E p \in Proc : pc[p] = "refresh.insert" /\ Opens(p, req[p].sid)
    BY <2>4, <2>6
  <2> QED BY <2>1, <2>2, <2>3, <2>5, <2>6, SessionWrites, Zenon
<1> QED BY <1>2, <1>3, StillFree DEF Forgotten, Free

\* A password that was replaced, and that nothing in flight or active descends from,
\* opens no session until a reset chooses it again.
THEOREM PasswordTheorem == Spec => OldPasswordShutOut
<1>1. IndInv /\ [Next]_vars =>
        [\A pw \in Password : Forgotten(pw) =>
           \/ Forgotten(pw)'
           \/ \E p \in Proc : pc[p] = "idle" /\ pc'[p] = "reset.save" /\ req'[p].row.password = pw]_vars
  BY ForgottenStep
<1> QED BY <1>1, Invariance, PTL DEF Spec, OldPasswordShutOut
-----------------------------------------------------------------------------
\* The contract, for requests that are served one at a time.

OneAtATime == \A p, q \in Proc : p = q

\* What the only handler knows of the tables.
Current(p) ==
  /\ pc[p] \in LoginSteps => user.status = "ACTIVE"
  /\ pc[p] = "login.evict" => req[p].sid \in Active
  /\ pc[p] \in {"refresh.user", "refresh.rotate"} => req[p].sid \in Active
  /\ pc[p] \in {"refresh.rotate", "refresh.insert"} => user.status \notin Locked
  /\ pc[p] = "refresh.insert" => Children(req[p].sid) = {}
  /\ pc[p] \in {"login.insert", "refresh.insert"} => Cardinality(Active) < MaxSessions

\* Without an account there is nothing, and the limit holds.
Bounded ==
  /\ user = NoRow => Issued = {} /\ \A p \in Proc : pc[p] = "idle"
  /\ Cardinality(Active) <= MaxSessions

Served == Bounded /\ \A p \in Proc : Current(p)

\* The refinement mapping, and what the steps of the contract are under it.

Standing == IF user = NoRow THEN "none" ELSE user.status
Over == {s \in SessionId : session[s] = "ended"}
Exchanged == {s \in SessionId : Children(s) # {}}

\* A step of the contract or none.
Allowed == Contract!Next \/ UNCHANGED Contract!vars

\* The account gets a row, or another one.
LEMMA UserAllowed ==
  ASSUME TypeOK, user' \in Row, UNCHANGED <<session, parent>>,
         user = NoRow => user'.status \in {"PENDING_VERIFICATION", "ACTIVE"}
  PROVE  Allowed
<1>1. user # NoRow => user \in Row
  BY DEF TypeOK
<1>2. user' # NoRow /\ user'.status \in Status
  BY NoneAssumption DEF Row
<1>3. \A row \in Row : row.status \in Status /\ row.status # "none"
  BY DEF Row, Status
<1>4. Standing' = user'.status /\ (Standing = "none" => user = NoRow)
  BY <1>1, <1>2, <1>3 DEF Standing
<1>5. Active' = Active /\ Over' = Over /\ Exchanged' = Exchanged
  BY DEF Active, Over, Exchanged, Children, Issued
<1>6. Contract!SetStatus
  BY <1>2, <1>4, <1>5 DEF Contract!SetStatus, Standing, Over, Exchanged, Status
<1> QED BY <1>6 DEF Allowed, Contract!Next

\* A step that changes none of the tables, or lets a session lapse, is none of the
\* contract's.
LEMMA NoneAllowed ==
  ASSUME TypeOK, UNCHANGED <<user, parent>>,
         session' = session \/ \E s \in SessionId : Lapses(s)
  PROVE  Allowed /\ Active' = Active /\ Issued' = Issued
         /\ \A s \in SessionId : Children(s)' = Children(s)
<1>1. \A s \in SessionId : /\ session'[s] = "ended" <=> session[s] = "ended"
                           /\ session'[s] = "none" <=> session[s] = "none"
                           /\ session'[s] \in {"live", "lapsed"} <=> session[s] \in {"live", "lapsed"}
  BY DEF TypeOK, Lapses
<1>2. Active' = Active /\ Over' = Over /\ Issued' = Issued
  BY <1>1 DEF Active, Over, Issued
<1>3. \A s \in SessionId : Children(s)' = Children(s)
  BY <1>2 DEF Children
<1>4. Exchanged' = Exchanged
  BY <1>3 DEF Exchanged
<1>5. UNCHANGED Contract!vars
  BY <1>2, <1>4 DEF Contract!vars, Over, Exchanged
<1> QED BY <1>2, <1>3, <1>5 DEF Allowed

\* Some sessions end.
LEMMA EndAllowed ==
  ASSUME TypeOK, NEW ss, End(ss), UNCHANGED <<user, parent>>
  PROVE  Allowed /\ Active' = Active \ ss /\ Issued' = Issued
         /\ \A s \in SessionId : Children(s)' = Children(s)
<1>1. /\ \A s \in SessionId : session'[s] = IF s \in ss \cap Active THEN "ended" ELSE session[s]
      /\ Active \subseteq SessionId
  BY DEF End, Active
<1>2. Active' = Active \ ss /\ Over' = Over \cup (ss \cap Active)
  BY <1>1 DEF Active, Over
<1>3. Issued' = Issued
  BY <1>1 DEF Issued, Active
<1>4. \A s \in SessionId : Children(s)' = Children(s)
  BY <1>3 DEF Children
<1>5. Exchanged' = Exchanged /\ Standing' = Standing
  BY <1>4 DEF Exchanged, Standing
<1>6. CASE ss \cap Active = {}
  <2>1. UNCHANGED Contract!vars
    BY <1>2, <1>5, <1>6 DEF Contract!vars, Over, Exchanged, Standing
  <2> QED BY <1>2, <1>3, <1>4, <2>1 DEF Allowed
<1>7. CASE ss \cap Active # {}
  <2>1. PICK es \in SUBSET Active : es = ss \cap Active
    OBVIOUS
  <2>2. Contract!End(es)
    BY <1>2, <1>5, <1>7, <2>1 DEF Contract!End, Over, Exchanged, Standing
  <2> QED BY <1>2, <1>3, <1>4, <2>2 DEF Allowed, Contract!Next
<1> QED BY <1>6, <1>7

\* The contract counts as Sessions does.
LEMMA SameCount == ASSUME NEW S PROVE Contract!Cardinality(S) = Cardinality(S)
  BY Zenon DEF Contract!Cardinality, Cardinality

\* A login opens a session, or a refresh exchanges one that it ended.
LEMMA OpenAllowed ==
  ASSUME IndInv, NEW p \in Proc, NEW from \in 0..MaxIssued, Opens(p, from),
         user' = user, user # NoRow, Cardinality(Active) < MaxSessions,
         \/ from = 0 /\ user.status = "ACTIVE"
         \/ /\ from # 0 /\ session[from] = "ended" /\ Children(from) = {}
            /\ user.status \notin Locked
  PROVE  Allowed /\ Cardinality(Active') <= MaxSessions
<1>1. PICK c \in SessionId \ Issued :
        /\ session' = [session EXCEPT ![c] = "live"]
        /\ parent' = [parent EXCEPT ![c] = from]
  BY DEF Opens
<1>2. /\ TypeOK /\ user \in Row /\ session[c] = "none"
      /\ Active \in SUBSET SessionId /\ MaxSessions \in Nat
  BY <1>1, BoundAssumption DEF IndInv, TypeOK, Issued, Active
<1>3. \A s \in SessionId : session'[s] = IF s = c THEN "live" ELSE session[s]
  BY <1>1, <1>2 DEF TypeOK
<1>4. Active' = Active \cup {c} /\ Over' = Over /\ c \notin Active \cup Over
  BY <1>2, <1>3 DEF Active, Over
<1>5. Cardinality(Active') <= MaxSessions
  BY <1>2, <1>4, Finite, FS_AddElement
<1>6. Contract!OpenOne(c)
  BY <1>4, <1>5, SameCount DEF Contract!OpenOne, Over
<1>7. Issued' = Issued \cup {c}
  BY <1>2, <1>3 DEF Issued
<1>8. \A s \in SessionId : Children(s)' = IF s = from THEN Children(s) \cup {c} ELSE Children(s)
  BY <1>1, <1>2, <1>7 DEF Children, Issued, TypeOK
<1>9. CASE from = 0
  <2>1. Exchanged' = Exchanged
    BY <1>8, <1>9, BoundAssumption DEF Exchanged, SessionId
  <2>2. Contract!Login(c)
    BY <1>6, <1>9, <2>1 DEF Contract!Login, Exchanged
  <2> QED BY <1>1, <1>5, <2>2 DEF Allowed, Contract!Next
<1>10. CASE from # 0
  <2>1. from \in SessionId /\ from \in Over \ Exchanged
    BY <1>10, BoundAssumption DEF SessionId, Over, Exchanged
  <2>2. Exchanged' = Exchanged \cup {from}
    BY <1>8, <2>1 DEF Exchanged
  <2>3. Standing \notin {"none", "SUSPENDED", "DEACTIVATED"}
    BY <1>2, <1>10 DEF Standing, Locked, Row, Status
  <2>4. Contract!Exchange(from, c)
    BY <1>6, <2>1, <2>2, <2>3 DEF Contract!Exchange, Exchanged, Over, Standing
  <2> QED BY <1>1, <1>5, <2>1, <2>4 DEF Allowed, Contract!Next
<1> QED BY <1>9, <1>10
-----------------------------------------------------------------------------
\* What the only handler knows stays true.

\* The statements that are neither of a login nor of a rotation.
Plain == Steps \ (LoginSteps \cup Rotation)

LEMMA PlainSteps ==
  /\ LockSaves \cup PlainSaves \cup EndSteps \cup {"idle", "logoutAll"} \subseteq Plain
  /\ {"register.save", "login.save", "forgot.save", "verify.save", "update.save", "activate.save",
      "reset.save", "suspend.save", "deactivate.save", "logout.save", "revokeSession.save",
      "refresh.expire"} \subseteq Plain
  BY DEF Plain, Steps, LoginSteps, Rotation, LockSaves, PlainSaves, EndSteps

\* The limit holds on while sessions only end.
LEMMA StillBounded ==
  ASSUME Bounded, user' # NoRow, Active' \subseteq Active
  PROVE  Bounded'
<1>1. Active \in SUBSET SessionId /\ Cardinality(Active) \in Nat /\ Cardinality(Active') \in Nat
  BY Finite DEF Active
<1>2. Cardinality(Active') <= Cardinality(Active)
  BY <1>1, Finite, FS_Subset
<1> QED BY <1>1, <1>2, BoundAssumption DEF Bounded

\* A handler that needs to know nothing.
LEMMA PlainServed ==
  ASSUME OneAtATime, IndInv, Bounded, NEW p \in Proc, NEW step \in Plain, NEW r, Await(p, step, r),
         user' # NoRow, Active' \subseteq Active
  PROVE  Served'
<1>1. \A q \in Proc : pc'[q] = step
  BY DEF OneAtATime, Await, IndInv, TypeOK
<1>2. \A q \in Proc : Current(q)'
  BY <1>1 DEF Current, Plain, LoginSteps, Rotation
<1> QED BY <1>2, StillBounded DEF Served

\* Requests that load the user row and then save it or end sessions.
LEMMA AccountLoadServed ==
  ASSUME OneAtATime, IndInv, Served, NEW p \in Proc,
         \/ VerifyLoad(p) \/ ActivateLoad(p) \/ UpdateLoad(p) \/ ForgotLoad(p) \/ ResetLoad(p)
         \/ SuspendLoad(p) \/ DeactivateLoad(p) \/ LogoutAllLoad(p)
  PROVE  Allowed /\ Served'
<1>1. PICK step \in Plain : \E row : Loads(p, step, row)
  BY PlainSteps, Zenon DEF VerifyLoad, ActivateLoad, UpdateLoad, ForgotLoad, ResetLoad,
     SuspendLoad, DeactivateLoad, LogoutAllLoad
<1>2. PICK r : Await(p, step, r) /\ user # NoRow /\ UNCHANGED <<user, session, parent>>
  BY <1>1 DEF Loads, tables
<1>3. Allowed /\ Active' = Active
  BY <1>2, NoneAllowed DEF IndInv
<1> QED BY <1>2, <1>3, PlainServed DEF Served

\* Requests that find a session to end.
LEMMA SessionLoadServed ==
  ASSUME OneAtATime, IndInv, Served, NEW p \in Proc, NEW s \in SessionId,
         LogoutLoad(p, s) \/ RevokeSessionLoad(p, s)
  PROVE  Allowed /\ Served'
<1>1. PICK step \in Plain : \E r : Await(p, step, r)
  BY PlainSteps, Zenon DEF LogoutLoad, RevokeSessionLoad
<1>2. s \in Issued /\ UNCHANGED <<user, session, parent>>
  BY DEF LogoutLoad, RevokeSessionLoad, tables, Active, Issued
<1>3. user # NoRow
  BY <1>2 DEF Served, Bounded
<1>4. Allowed /\ Active' = Active
  BY <1>2, NoneAllowed DEF IndInv
<1> QED BY <1>1, <1>2, <1>3, <1>4, PlainServed DEF Served

\* The account is created, by registration or with an organization.
LEMMA CreateServed ==
  ASSUME OneAtATime, IndInv, Served, NEW p \in Proc, Register(p) \/ CreateOrgAdmin(p)
  PROVE  Allowed /\ Served'
<1>1. /\ user = NoRow /\ UNCHANGED <<session, parent>>
      /\ \E pw \in Password, st \in {"PENDING_VERIFICATION", "ACTIVE"} :
           user' = [status |-> st, password |-> pw, verify |-> FALSE, reset |-> FALSE]
  BY Zenon DEF Register, CreateOrgAdmin
<1>2. user' \in Row /\ user'.status \in {"PENDING_VERIFICATION", "ACTIVE"}
  BY <1>1 DEF Row, Status
<1>3. Allowed /\ user' # NoRow
  BY <1>1, <1>2, UserAllowed, NoneAssumption DEF IndInv
<1>4. Active' = Active
  BY <1>1 DEF Active
<1>5. CASE Register(p)
  <2>1. \E r : Await(p, "register.save", r)
    BY <1>5, Zenon DEF Register
  <2> QED BY <1>3, <1>4, <2>1, PlainSteps, PlainServed DEF Served
<1>6. CASE CreateOrgAdmin(p)
  <2>1. \A q \in Proc : pc'[q] = "idle"
    BY <1>1, <1>6 DEF CreateOrgAdmin, Served, Bounded
  <2>2. \A q \in Proc : Current(q)'
    BY <2>1 DEF Current, LoginSteps, Rotation
  <2> QED BY <1>3, <1>4, <2>2, StillBounded DEF Served
<1> QED BY <1>5, <1>6

\* The last statements of a handler: a saved row, ended sessions, or a crash.
LEMMA LastServed ==
  ASSUME OneAtATime, IndInv, Served, NEW p \in Proc,
         SaveUser(p) \/ SaveLocked(p) \/ LogoutAll(p) \/ EndSession(p) \/ Crash(p)
  PROVE  Allowed /\ Served'
<1>1. PICK step \in Plain : \E r : Await(p, step, r)
  BY PlainSteps, Zenon DEF SaveUser, SaveLocked, LogoutAll, EndSession, Crash, Done, Goto
<1>2. pc[p] # "idle" /\ parent' = parent
  BY DEF SaveUser, SaveLocked, LogoutAll, EndSession, Crash, LockSaves, PlainSaves, EndSteps, tables
<1>3. user # NoRow /\ user \in Row
  BY <1>2 DEF Served, Bounded, IndInv, TypeOK
<1>4. CASE SaveUser(p) \/ SaveLocked(p)
  <2>1. user' \in Row /\ session' = session
    BY <1>4 DEF SaveUser, SaveLocked, IndInv, HandlerOK, Coherent
  <2>2. Allowed /\ user' # NoRow /\ Active' = Active
    BY <1>2, <1>3, <2>1, UserAllowed, NoneAssumption DEF IndInv, Active
  <2> QED BY <1>1, <2>2, PlainServed DEF Served
<1>5. CASE LogoutAll(p) \/ EndSession(p)
  <2>1. PICK ss : End(ss) /\ user' = user
    BY <1>5, Zenon DEF LogoutAll, EndSession
  <2>2. Allowed /\ Active' = Active \ ss
    BY <1>2, <2>1, EndAllowed DEF IndInv
  <2> QED BY <1>1, <1>3, <2>1, <2>2, PlainServed DEF Served
<1>6. CASE Crash(p)
  <2>1. Allowed /\ Active' = Active /\ user' = user
    BY <1>6, NoneAllowed DEF Crash, tables, IndInv
  <2> QED BY <1>1, <1>3, <2>1, PlainServed DEF Served
<1> QED BY <1>4, <1>5, <1>6

\* login, up to the insert: the account stays active, and a session is evicted where
\* there is no room.
LEMMA LoginServed ==
  ASSUME OneAtATime, IndInv, Served, NEW p \in Proc,
         LoginLoad(p) \/ LoginCount(p) \/ LoginOldest(p) \/ LoginEvict(p)
  PROVE  Allowed /\ Served'
<1>1. user' = user /\ parent' = parent
  BY DEF LoginLoad, LoginCount, LoginOldest, LoginEvict, tables
<1>2. user # NoRow /\ user.status = "ACTIVE"
  BY DEF LoginLoad, LoginCount, LoginOldest, LoginEvict, Served, Bounded, Current, LoginSteps
<1>3. /\ Active \in SUBSET SessionId /\ Cardinality(Active) \in Nat /\ MaxSessions \in Nat \ {0}
      /\ Cardinality(Active) <= MaxSessions
  BY Finite, BoundAssumption DEF Active, Served, Bounded
<1>4. CASE LoginLoad(p) \/ LoginCount(p) \/ LoginOldest(p)
  <2>1. session' = session
    BY <1>4 DEF LoginLoad, LoginCount, LoginOldest, tables
  <2>2. Allowed /\ Active' = Active
    BY <1>1, <2>1, NoneAllowed DEF IndInv
  <2>3. CASE LoginLoad(p)
    <3>1. \A q \in Proc : pc'[q] = "login.count"
      BY <2>3 DEF LoginLoad, Await, OneAtATime, IndInv, TypeOK
    <3> QED BY <1>1, <1>2, <2>2, <3>1, StillBounded DEF Served, Current, Rotation
  <2>4. CASE LoginCount(p)
    <3>1. \A q \in Proc : pc'[q] = IF Cardinality(Active) >= MaxSessions THEN "login.oldest"
                                  ELSE "login.insert"
      BY <2>4 DEF LoginCount, Goto, Await, OneAtATime, IndInv, TypeOK
    <3> QED BY <1>1, <1>2, <1>3, <2>2, <3>1, StillBounded DEF Served, Current, Rotation
  <2>5. CASE LoginOldest(p)
    <3>1. \A q \in Proc : \/ pc'[q] = "login.insert" /\ Active = {}
                          \/ pc'[q] = "login.evict" /\ req'[q].sid \in Active
      <4>1. CASE Active = {} /\ Goto(p, "login.insert")
        BY <4>1 DEF Goto, Await, OneAtATime, IndInv, TypeOK
      <4>2. ASSUME NEW s \in Active, Await(p, "login.evict", [req[p] EXCEPT !.sid = s])
            PROVE  \A q \in Proc : pc'[q] = "login.evict" /\ req'[q].sid = s
        <5>1. req[p] \in Request
          BY <2>5 DEF LoginOldest, IndInv, HandlerOK, Coherent
        <5> QED BY <4>2, <5>1 DEF Await, OneAtATime, IndInv, TypeOK, Request
      <4> QED BY <2>5, <4>1, <4>2 DEF LoginOldest
    <3>2. Active = {} => Cardinality(Active) = 0
      BY FS_EmptySet
    <3> QED BY <1>1, <1>2, <1>3, <2>2, <3>1, <3>2, StillBounded DEF Served, Current, Rotation
  <2> QED BY <1>4, <2>3, <2>4, <2>5
<1>5. CASE LoginEvict(p)
  <2>1. End({req[p].sid}) /\ req[p].sid \in Active
    BY <1>5 DEF LoginEvict, Served, Current
  <2>2. Allowed /\ Active' = Active \ {req[p].sid}
    BY <1>1, <2>1, EndAllowed DEF IndInv
  <2>3. Cardinality(Active') < MaxSessions
    BY <1>3, <2>1, <2>2, Finite, FS_RemoveElement
  <2>4. \A q \in Proc : pc'[q] = "login.insert"
    BY <1>5 DEF LoginEvict, Await, OneAtATime, IndInv, TypeOK
  <2> QED BY <1>1, <1>2, <2>2, <2>3, <2>4, StillBounded DEF Served, Current, Rotation
<1> QED BY <1>4, <1>5

\* refreshTokens, up to the insert: the session it took was active, and its end makes
\* room for the next.
LEMMA RefreshServed ==
  ASSUME OneAtATime, IndInv, Served, NEW p \in Proc,
         (\E s \in SessionId : RefreshLoad(p, s)) \/ RefreshUser(p) \/ RefreshRotate(p)
  PROVE  Allowed /\ Served'
<1>1. user' = user /\ parent' = parent
  BY DEF RefreshLoad, RefreshUser, RefreshRotate, tables
<1>2. user # NoRow
  BY DEF RefreshLoad, RefreshUser, RefreshRotate, Served, Bounded, Active, Issued
<1>3. CASE \E s \in SessionId : RefreshLoad(p, s)
  <2>1. PICK s \in Active, r \in Request, step \in {"refresh.expire", "refresh.user"} :
          Await(p, step, r) /\ r.sid = s /\ session' = session
    <3>1. PICK s \in SessionId : RefreshLoad(p, s)
      BY <1>3
    <3>2. [row |-> NoRow, sid |-> s, opener |-> opener[s]] \in Request
      BY DEF IndInv, TypeOK, Request, SessionId
    <3>3. [row |-> NoRow, sid |-> s, opener |-> opener[s]].sid = s
      OBVIOUS
    <3> QED BY <3>1, <3>2, <3>3 DEF RefreshLoad, tables
  <2>2. Allowed /\ Active' = Active
    BY <1>1, <2>1, NoneAllowed DEF IndInv
  <2>3. \A q \in Proc : pc'[q] = step /\ req'[q] = r
    BY <2>1 DEF Await, OneAtATime, IndInv, TypeOK
  <2> QED BY <1>1, <1>2, <2>1, <2>2, <2>3, StillBounded DEF Served, Current, LoginSteps
<1>4. CASE RefreshUser(p)
  <2>1. session' = session /\ req[p].sid \in Active
    BY <1>4 DEF RefreshUser, tables, Served, Current
  <2>2. Allowed /\ Active' = Active
    BY <1>1, <2>1, NoneAllowed DEF IndInv
  <2>3. CASE user.status \in Locked
    BY <1>1, <1>2, <1>4, <2>2, <2>3, PlainSteps, PlainServed DEF RefreshUser, Done, Served
  <2>4. CASE user.status \notin Locked
    <3>1. \A q \in Proc : pc'[q] = "refresh.rotate" /\ req'[q] = req[p]
      BY <1>4, <2>4 DEF RefreshUser, Goto, Await, OneAtATime, IndInv, TypeOK
    <3> QED BY <1>1, <1>2, <2>1, <2>2, <2>4, <3>1, StillBounded DEF Served, Current, LoginSteps
  <2> QED BY <2>3, <2>4
<1>5. CASE RefreshRotate(p)
  <2>1. /\ End({req[p].sid}) /\ req[p].sid \in Active /\ user.status \notin Locked
        /\ Goto(p, "refresh.insert")
    BY <1>5 DEF RefreshRotate, Served, Current
  <2>2. /\ Allowed /\ Active' = Active \ {req[p].sid}
        /\ \A s \in SessionId : Children(s)' = Children(s)
    BY <1>1, <2>1, EndAllowed DEF IndInv
  <2>3. Children(req[p].sid) = {} /\ Children(req[p].sid)' = {}
    <3>1. req[p].sid \in SessionId /\ session[req[p].sid] # "ended"
      BY <2>1 DEF Active
    <3>2. req'[p] = req[p]
      BY <2>1 DEF Goto, Await, IndInv, TypeOK
    <3>3. Children(req[p].sid) = {}
      BY <3>1 DEF IndInv, ExchangedTokenIsOver
    <3>4. PICK s \in SessionId : s = req[p].sid
      BY <3>1
    <3> QED BY <2>2, <3>2, <3>3, <3>4 DEF Children
  <2>4. Cardinality(Active') < MaxSessions
    <3>1. Active \in SUBSET SessionId /\ Cardinality(Active) \in Nat /\ MaxSessions \in Nat
      BY Finite, BoundAssumption DEF Active
    <3> QED BY <2>1, <2>2, <3>1, Finite, FS_RemoveElement DEF Served, Bounded
  <2>5. \A q \in Proc : q = p /\ pc'[q] = "refresh.insert" /\ req'[q] = req[p]
    BY <2>1 DEF Goto, Await, OneAtATime, IndInv, TypeOK
  <2> QED BY <1>1, <1>2, <2>1, <2>2, <2>3, <2>4, <2>5, StillBounded DEF Served, Current, LoginSteps
<1> QED BY <1>3, <1>4, <1>5

\* The insert of a login, and of a refresh.
LEMMA InsertServed ==
  ASSUME OneAtATime, IndInv, Served, NEW p \in Proc, LoginInsert(p) \/ RefreshInsert(p)
  PROVE  Allowed /\ Served'
<1>1. user' = user /\ user # NoRow /\ Cardinality(Active) < MaxSessions
  BY DEF LoginInsert, RefreshInsert, Served, Bounded, Current
<1>2. Allowed /\ Cardinality(Active') <= MaxSessions
  <2>1. CASE LoginInsert(p)
    <3>1. Opens(p, 0) /\ user.status = "ACTIVE"
      BY <2>1, Zenon DEF LoginInsert, Open, Opens, Served, Current, LoginSteps
    <3> QED BY <1>1, <3>1, OpenAllowed, BoundAssumption
  <2>2. CASE RefreshInsert(p)
    <3>1. Opens(p, req[p].sid) /\ pc[p] = "refresh.insert"
      BY <2>2, Zenon DEF RefreshInsert, Open, Opens
    <3>2. /\ req[p].sid \in SessionId /\ session[req[p].sid] = "ended"
          /\ Children(req[p].sid) = {} /\ user.status \notin Locked
      BY <3>1 DEF IndInv, HandlerOK, Coherent, Rotation, Issued, Served, Current
    <3>3. PICK from \in SessionId : from = req[p].sid
      BY <3>2
    <3> QED BY <1>1, <3>1, <3>2, <3>3, OpenAllowed, BoundAssumption DEF SessionId
  <2> QED BY <2>1, <2>2
<1>3. \A q \in Proc : pc'[q] \in {"login.save", "idle"}
  BY DEF LoginInsert, RefreshInsert, Goto, Done, Await, OneAtATime, IndInv, TypeOK
<1>4. \A q \in Proc : Current(q)'
  BY <1>3 DEF Current, LoginSteps, Rotation
<1> QED BY <1>1, <1>2, <1>4 DEF Served, Bounded

\* Time passes, or others than the account are busy.
LEMMA QuietServed ==
  ASSUME IndInv, Served, (\E s \in SessionId : Lapse(s)) \/ UNCHANGED vars
  PROVE  Allowed /\ Served'
<1>1. UNCHANGED <<user, parent, pc, req>> /\ (session' = session \/ \E s \in SessionId : Lapses(s))
  BY DEF Lapse, Lapses, vars
<1>2. /\ Allowed /\ Active' = Active /\ Issued' = Issued
      /\ \A s \in SessionId : Children(s)' = Children(s)
  BY <1>1, NoneAllowed DEF IndInv
<1>3. ASSUME NEW p \in Proc PROVE Current(p)'
  <2>1. pc[p] = "refresh.insert" => req[p].sid \in SessionId
    BY DEF IndInv, HandlerOK, Coherent, Rotation, Issued
  <2>2. pc[p] = "refresh.insert" => Children(req[p].sid)' = Children(req[p].sid)
    BY <1>1, <1>2, <2>1 DEF Children
  <2> QED BY <1>1, <1>2, <2>2 DEF Served, Current
<1> QED BY <1>1, <1>2, <1>3 DEF Served, Bounded

\* Every step is one of the contract or none, and what the handler knows stays true.
LEMMA StepServed ==
  ASSUME OneAtATime, IndInv, Served, [Next]_vars
  PROVE  Allowed /\ Served'
<1>1. ASSUME NEW p \in Proc, Begin(p)
      PROVE  Allowed /\ Served'
  BY <1>1, CreateServed, AccountLoadServed, SessionLoadServed, LoginServed, RefreshServed, Zenon
     DEF Begin
<1>2. ASSUME NEW p \in Proc, Proceed(p)
      PROVE  Allowed /\ Served'
  BY <1>2, LastServed, LoginServed, RefreshServed, InsertServed, Zenon DEF Proceed
<1>3. ASSUME NEW p \in Proc, Crash(p)
      PROVE  Allowed /\ Served'
  BY <1>3, LastServed, Zenon
<1> QED BY <1>1, <1>2, <1>3, QuietServed, Zenon DEF Next, Undisturbed

\* It all begins without account and sessions.
LEMMA InitServed == Init => Contract!Init /\ Served
<1> SUFFICES ASSUME Init PROVE Contract!Init /\ Served
  OBVIOUS
<1>1. Active = {} /\ Issued = {} /\ Over = {} /\ Exchanged = {}
  BY DEF Init, Active, Issued, Over, Exchanged, Children
<1>2. Contract!Init
  BY <1>1 DEF Init, Contract!Init, Over, Exchanged
<1>3. Served
  BY <1>1, FS_EmptySet, BoundAssumption DEF Init, Served, Bounded, Current, LoginSteps, Rotation
<1> QED BY <1>2, <1>3

\* Requests that are served one at a time, and may die between any two of their
\* statements, implement the contract.
THEOREM ContractTheorem == ASSUME OneAtATime PROVE Spec => ImplementsContract
<1>1. IndInv /\ Served /\ [Next]_vars => [Contract!Next]_Contract!vars /\ Served'
  BY StepServed DEF Allowed
<1> QED BY <1>1, InitServed, Invariance, PTL DEF Spec, ImplementsContract, Contract!Spec
=============================================================================

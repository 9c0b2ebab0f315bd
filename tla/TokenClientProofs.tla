------------------------- MODULE TokenClientProofs -------------------------
(***************************************************************************)
(* Proofs about TokenClient: what holds of any number of tabs, with any    *)
(* number of calls each, whatever is lost and in whatever order it comes.  *)
(***************************************************************************)
EXTENDS TokenClient, FiniteSetTheorems, TLAPS

(* A tab that refreshes has one leader; one that does not waits for        *)
(* nothing.                                                                *)
LeaderOK(t) ==
  /\ tab[t].isRefreshing => /\ tab[t].presented # 0
                            /\ \E c \in Call : Leaders(t) = {c}
  /\ ~tab[t].isRefreshing => /\ tab[t].presented = 0
                             /\ tab[t].answer = Unanswered
                             /\ Leaders(t) = {} /\ Queued(t) = {}

(* What is stored, presented, answered or spent has been issued. *)
IssuedOK == /\ stored <= issued
            /\ \A t \in Tab : /\ tab[t].presented <= issued
                              /\ tab[t].answer \in Pair => tab[t].answer <= issued
                              /\ \A pair \in spent[t] : pair <= issued

(* A pair that was answered and is not stored yet is nobody else's. *)
AnswerOK(t) == tab[t].answer \in Pair =>
                 /\ tab[t].answer # stored
                 /\ \A u \in Tab : /\ tab[t].answer # tab[u].presented
                                   /\ tab[t].answer \notin spent[u]
                                   /\ u # t => tab[t].answer # tab[u].answer

(* No tab finds a pair in localStorage that it was given another for. *)
StoredOK(t) == stored \notin spent[t] /\ tab[t].presented \notin spent[t]

OverOK == over => stored = 0 /\ Quiet

IndInv == /\ TypeOK /\ IssuedOK /\ OverOK
          /\ \A t \in Tab : LeaderOK(t) /\ AnswerOK(t) /\ StoredOK(t)

-----------------------------------------------------------------------------
(* The records of calls and tabs. *)

CallState == [pc : {"idle", "sent", "denied", "leading", "queued"},
              token : 0..MaxPairs, retry : BOOLEAN, profile : BOOLEAN]

TabState == [user : BOOLEAN, isRefreshing : BOOLEAN, presented : 0..MaxPairs,
             answer : Pair \cup {Unanswered, Refused},
             leaving : BOOLEAN, out : 0..MaxPairs]

(* A call is changed into another. *)
LEMMA BecomesTyped ==
  ASSUME TypeOK, NEW t \in Tab, NEW c \in Call, NEW r \in CallState, Becomes(t, c, r)
  PROVE  /\ call' \in [Tab -> [Call -> CallState]]
         /\ call'[t][c] = r
         /\ \A u \in Tab, d \in Call : <<u, d>> # <<t, c>> => call'[u][d] = call[u][d]
BY DEF Becomes, TypeOK, CallState

(* The records the actions write. *)
LEMMA RecordsTyped ==
  ASSUME stored \in 0..MaxPairs
  PROVE  /\ Idle \in CallState /\ Idle.pc = "idle"
         /\ \A p \in BOOLEAN : Sent(p) \in CallState /\ Sent(p).pc = "sent"
         /\ SignedOut \in TabState
<1>1. 0 \in 0..MaxPairs
  BY BoundAssumption
<1>2. Idle \in CallState /\ Idle.pc = "idle"
  BY <1>1 DEF Idle, CallState
<1>3. ASSUME NEW p \in BOOLEAN PROVE Sent(p) \in CallState /\ Sent(p).pc = "sent"
  BY <1>1 DEF Idle, Sent, CallState
<1>4. SignedOut \in TabState
  BY <1>1 DEF SignedOut, TabState
<1>5. Idle \in CallState /\ Idle.pc = "idle" /\ SignedOut \in TabState
  BY <1>2, <1>4
<1>6. \A p \in BOOLEAN : Sent(p) \in CallState /\ Sent(p).pc = "sent"
  BY <1>3
<1> QED
  BY <1>5, <1>6, Zenon

(* No client is signed in and nothing is issued. *)
LEMMA InitInv == Init => IndInv
<1> SUFFICES ASSUME Init PROVE IndInv
  OBVIOUS
<1>1. TypeOK
  <2>1. 0 \in 0..MaxPairs /\ stored = 0
    BY BoundAssumption DEF Init
  <2>2. Idle \in CallState /\ SignedOut \in TabState
    BY <2>1, RecordsTyped
  <2> QED BY <2>1, <2>2 DEF Init, TypeOK, CallState, TabState
<1>2. \A t \in Tab : Leaders(t) = {} /\ Queued(t) = {}
  BY DEF Init, Leaders, Queued, Idle
<1>3. \A t \in Tab : tab[t] = SignedOut /\ spent[t] = {}
  BY DEF Init
<1>4. Unanswered \notin Pair
  BY AnswerAssumption, BoundAssumption DEF Pair
<1> QED
  BY <1>1, <1>2, <1>3, <1>4 DEF Init, IndInv, IssuedOK, OverOK, Quiet, LeaderOK, AnswerOK, StoredOK, SignedOut

-----------------------------------------------------------------------------
(* Types. *)

(* A pair that is issued is one of the bound. *)
LEMMA IssueTyped ==
  ASSUME TypeOK, NEW gone, Issue(gone)
  PROVE  /\ issued' = issued + 1 /\ issued' \in Pair /\ issued' \in 0..MaxPairs
         /\ alive' \subseteq Pair /\ fresh' \subseteq Pair
<1>1. issued \in 0..MaxPairs /\ alive \subseteq Pair /\ fresh \subseteq Pair
  BY DEF TypeOK
<1>2. issued' = issued + 1 /\ issued < MaxPairs
  BY DEF Issue
<1>3. issued + 1 \in Pair /\ issued + 1 \in 0..MaxPairs
  BY <1>1, <1>2, BoundAssumption DEF Pair
<1> QED
  BY <1>1, <1>2, <1>3 DEF Issue

(* Steps on calls and on the user that is shown. *)
LEMMA CallsTyped ==
  ASSUME TypeOK, NEW t \in Tab, NEW c \in Call,
         \/ Ask(t, c) \/ Answered(t, c) \/ Fails(t, c) \/ Deny(t, c)
         \/ GiveUp(t, c) \/ Queue(t, c) \/ Expired(t, c) \/ Lead(t, c)
  PROVE  TypeOK'
<1>0. /\ tab \in [Tab -> TabState] /\ call \in [Tab -> [Call -> CallState]]
      /\ call[t][c] \in CallState /\ tab[t] \in TabState
      /\ stored \in 0..MaxPairs /\ 0 \in 0..MaxPairs
  BY BoundAssumption DEF TypeOK, TabState, CallState
<1>1. UNCHANGED <<issued, alive, fresh, spent, over>>
  BY DEF Ask, Answered, Fails, Deny, GiveUp, Queue, Expired, Lead
<1>2. stored' \in 0..MaxPairs
  BY <1>0 DEF Ask, Answered, Fails, Deny, GiveUp, Queue, Expired, Lead, Forget
<1>3. tab' \in [Tab -> TabState]
  <2>1. ASSUME NEW b \in BOOLEAN PROVE [tab[t] EXCEPT !.user = b] \in TabState
    BY <1>0 DEF TabState
  <2>2. [tab[t] EXCEPT !.isRefreshing = TRUE, !.presented = stored] \in TabState
    BY <1>0 DEF TabState
  <2>3. \/ tab' = tab
        \/ tab' = [tab EXCEPT ![t].isRefreshing = TRUE, ![t].presented = stored]
        \/ \E b \in BOOLEAN : tab' = [tab EXCEPT ![t].user = b]
    <3>1. tab[t].user \in BOOLEAN /\ call[t][c].profile \in BOOLEAN
      BY <1>0 DEF TabState, CallState
    <3>2. (tab[t].user \/ call[t][c].profile) \in BOOLEAN /\ FALSE \in BOOLEAN
      OBVIOUS
    <3> QED
      BY <3>2 DEF Ask, Answered, Fails, Deny, GiveUp, Queue, Expired, Lead, Forget
  <2> QED
    BY <1>0, <2>1, <2>2, <2>3
<1>4. call' \in [Tab -> [Call -> CallState]]
  <2>1. \E r \in CallState : Becomes(t, c, r)
    <3>1. CASE Ask(t, c)
      BY <1>0, <3>1, RecordsTyped DEF Ask
    <3>2. CASE Answered(t, c) \/ Fails(t, c) \/ GiveUp(t, c) \/ Expired(t, c)
      BY <1>0, <3>2, RecordsTyped DEF Answered, Fails, GiveUp, Expired
    <3>3. CASE Deny(t, c)
      <4>1. [call[t][c] EXCEPT !.pc = "denied", !.token = 0] \in CallState
        BY <1>0 DEF CallState
      <4> QED BY <3>3, <4>1 DEF Deny
    <3>4. CASE Queue(t, c)
      <4>1. [call[t][c] EXCEPT !.pc = "queued"] \in CallState
        BY <1>0 DEF CallState
      <4> QED BY <3>4, <4>1 DEF Queue
    <3>5. CASE Lead(t, c)
      <4>1. [call[t][c] EXCEPT !.pc = "leading", !.retry = TRUE] \in CallState
        BY <1>0 DEF CallState
      <4> QED BY <3>5, <4>1 DEF Lead
    <3> QED BY <3>1, <3>2, <3>3, <3>4, <3>5
  <2> QED BY <2>1, BecomesTyped
<1> QED
  BY <1>1, <1>2, <1>3, <1>4 DEF TypeOK, TabState, CallState

(* Logins, logouts, loads and the steps of the backend. *)
LEMMA TabsTyped ==
  ASSUME TypeOK, NEW t \in Tab,
         \/ Load(t) \/ LoginFails(t) \/ Logout(t) \/ LoggedOut(t)
         \/ ServeLogout(t) \/ \E c \in Call : Login(t, c)
  PROVE  TypeOK'
<1>0. /\ tab \in [Tab -> TabState] /\ call \in [Tab -> [Call -> CallState]]
      /\ tab[t] \in TabState
      /\ stored \in 0..MaxPairs /\ 0 \in 0..MaxPairs /\ alive \subseteq Pair
  BY BoundAssumption DEF TypeOK, TabState, CallState
<1>1. CASE Load(t)
  <2>1. tab' \in [Tab -> TabState]
    BY <1>0, <1>1, RecordsTyped DEF Load
  <2>2. call' \in [Tab -> [Call -> CallState]]
    <3>1. Idle \in CallState /\ Sent(TRUE) \in CallState
      BY <1>0, RecordsTyped
    <3>2. PICK c \in Call :
            call' = [call EXCEPT ![t] = [d \in Call |->
                       IF d = c /\ stored # 0 THEN Sent(TRUE) ELSE Idle]]
      BY <1>1 DEF Load
    <3>3. [d \in Call |-> IF d = c /\ stored # 0 THEN Sent(TRUE) ELSE Idle] \in [Call -> CallState]
      BY <3>1
    <3> QED BY <1>0, <3>2, <3>3
  <2>3. spent' \in [Tab -> SUBSET Pair]
    BY <1>1 DEF Load, TypeOK
  <2> QED BY <1>1, <2>1, <2>2, <2>3 DEF Load, TypeOK, TabState, CallState
<1>2. CASE LoginFails(t)
  <2>1. [tab[t] EXCEPT !.user = FALSE] \in TabState
    BY <1>0 DEF TabState
  <2>2. tab' \in [Tab -> TabState] /\ stored' \in 0..MaxPairs
    BY <1>0, <1>2, <2>1 DEF LoginFails, Forget
  <2> QED BY <1>2, <2>2 DEF LoginFails, TypeOK, TabState
<1>3. CASE Logout(t)
  <2>1. [tab[t] EXCEPT !.leaving = TRUE, !.out = stored] \in TabState
    BY <1>0 DEF TabState
  <2>2. tab' \in [Tab -> TabState]
    BY <1>0, <1>3, <2>1 DEF Logout
  <2> QED BY <1>3, <2>2 DEF Logout, TypeOK, TabState
<1>4. CASE LoggedOut(t)
  <2>1. [tab[t] EXCEPT !.user = FALSE, !.leaving = FALSE, !.out = 0] \in TabState
    BY <1>0 DEF TabState
  <2>2. tab' \in [Tab -> TabState] /\ stored' \in 0..MaxPairs /\ over' \in BOOLEAN
    BY <1>0, <1>4, <2>1 DEF LoggedOut, TypeOK, Quiet
  <2> QED BY <1>4, <2>2 DEF LoggedOut, TypeOK, TabState
<1>5. CASE ServeLogout(t)
  <2>1. [tab[t] EXCEPT !.out = 0] \in TabState
    BY <1>0 DEF TabState
  <2>2. tab' \in [Tab -> TabState] /\ alive' \subseteq Pair
    BY <1>0, <1>5, <2>1 DEF ServeLogout
  <2> QED BY <1>5, <2>2 DEF ServeLogout, TypeOK, TabState
<1>6. ASSUME NEW c \in Call, Login(t, c) PROVE TypeOK'
  <2>1. issued' = issued + 1 /\ issued' \in 0..MaxPairs /\ alive' \subseteq Pair /\ fresh' \subseteq Pair
    BY <1>6, IssueTyped DEF Login
  <2>2. [tab[t] EXCEPT !.user = TRUE] \in TabState
    BY <1>0 DEF TabState
  <2>3. tab' \in [Tab -> TabState]
    BY <1>0, <1>6, <2>2 DEF Login
  <2>4. [Sent(TRUE) EXCEPT !.token = issued + 1] \in CallState
    BY <1>0, <2>1, RecordsTyped DEF CallState
  <2>5. call' \in [Tab -> [Call -> CallState]]
    BY <1>6, <2>4, BecomesTyped DEF Login
  <2>6. stored' \in 0..MaxPairs /\ over' \in BOOLEAN /\ spent' = spent
    BY <1>6, <2>1 DEF Login
  <2> QED BY <2>1, <2>3, <2>5, <2>6 DEF TypeOK, TabState, CallState
<1> QED BY <1>1, <1>2, <1>3, <1>4, <1>5, <1>6

(* The refresh. *)
LEMMA RefreshTyped ==
  ASSUME TypeOK, NEW t \in Tab,
         Exchange(t) \/ Refreshed(t) \/ RefreshRefused(t) \/ RefreshLost(t),
         Refreshed(t) => tab[t].presented # 0
  PROVE  TypeOK'
<1>0. /\ tab \in [Tab -> TabState] /\ call \in [Tab -> [Call -> CallState]]
      /\ tab[t] \in TabState /\ \A c \in Call : call[t][c] \in CallState
      /\ stored \in 0..MaxPairs /\ 0 \in 0..MaxPairs /\ Pair \subseteq 0..MaxPairs
  BY BoundAssumption DEF TypeOK, TabState, CallState, Pair
<1>1. CASE Exchange(t)
  <2>1. CASE tab[t].presented \in alive
    <3>1. issued' = issued + 1 /\ issued' \in Pair /\ issued' \in 0..MaxPairs
          /\ alive' \subseteq Pair /\ fresh' \subseteq Pair
      BY <1>1, <2>1, IssueTyped DEF Exchange
    <3>2. [tab[t] EXCEPT !.answer = issued + 1] \in TabState
      BY <1>0, <3>1 DEF TabState
    <3>3. tab' \in [Tab -> TabState]
      BY <1>0, <1>1, <2>1, <3>2 DEF Exchange
    <3> QED BY <1>1, <3>1, <3>3 DEF Exchange, TypeOK, TabState
  <2>2. CASE tab[t].presented \notin alive
    <3>1. [tab[t] EXCEPT !.answer = Refused] \in TabState
      BY <1>0 DEF TabState
    <3>2. tab' \in [Tab -> TabState]
      BY <1>0, <1>1, <2>2, <3>1 DEF Exchange
    <3> QED BY <1>1, <2>2, <3>2 DEF Exchange, TypeOK, TabState
  <2> QED BY <2>1, <2>2
<1>2. ASSUME NEW b \in BOOLEAN PROVE Settled(t, b) \in TabState
  BY <1>0 DEF Settled, TabState
<1>3. CASE Refreshed(t)
  <2>1. tab' \in [Tab -> TabState]
    <3>1. tab[t].user \in BOOLEAN
      BY <1>0 DEF TabState
    <3> QED BY <1>0, <1>2, <1>3, <3>1 DEF Refreshed
  <2>2. tab[t].answer \in 0..MaxPairs /\ stored' \in 0..MaxPairs
    BY <1>0, <1>3 DEF Refreshed
  <2>3. \A c \in Call : [call[t][c] EXCEPT !.pc = "sent", !.token = tab[t].answer] \in CallState
    BY <1>0, <2>2 DEF CallState
  <2>4. call' \in [Tab -> [Call -> CallState]]
    BY <1>0, <1>3, <2>3 DEF Refreshed, Resume
  <2>5. tab[t].presented \in Pair
    BY <1>0, <1>3, BoundAssumption DEF Pair, TabState
  <2>6. spent' \in [Tab -> SUBSET Pair]
    BY <1>3, <2>5 DEF Refreshed, TypeOK
  <2> QED BY <1>3, <2>1, <2>2, <2>4, <2>6 DEF Refreshed, TypeOK, TabState, CallState
<1>4. CASE RefreshRefused(t) \/ RefreshLost(t)
  <2>1. tab[t].user \in BOOLEAN /\ FALSE \in BOOLEAN
    BY <1>0 DEF TabState
  <2>2. tab' \in [Tab -> TabState]
    BY <1>0, <1>2, <1>4, <2>1 DEF RefreshRefused, RefreshLost
  <2>3. call' \in [Tab -> [Call -> CallState]]
    <3>1. Idle \in CallState
      BY <1>0, RecordsTyped
    <3>2. [c \in Call |-> IF c \in Queued(t) \cup Leaders(t) THEN Idle ELSE call[t][c]]
            \in [Call -> CallState]
      BY <1>0, <3>1
    <3> QED BY <1>0, <1>4, <3>2 DEF RefreshRefused, RefreshLost, Reject
  <2>4. stored' \in 0..MaxPairs
    BY <1>0, <1>4 DEF RefreshRefused, RefreshLost
  <2> QED
    BY <1>4, <2>2, <2>3, <2>4 DEF RefreshRefused, RefreshLost, TypeOK, TabState, CallState
<1> QED BY <1>1, <1>3, <1>4

-----------------------------------------------------------------------------
(* The invariant is kept. *)

(* What a tab's refresh is about. *)
SameRefresh(t) == /\ tab'[t].isRefreshing = tab[t].isRefreshing
                  /\ tab'[t].presented = tab[t].presented
                  /\ tab'[t].answer = tab[t].answer

(* Its leader is the same, and calls wait that waited, or more of them.    *)
SameCalls(t) == /\ Leaders(t)' = Leaders(t)
                /\ Queued(t)' = Queued(t) \/ tab[t].isRefreshing

(* A tab with the same refresh and the same calls stays in order. *)
LEMMA LeaderKept ==
  ASSUME NEW t \in Tab, LeaderOK(t), SameRefresh(t), SameCalls(t)
  PROVE  LeaderOK(t)'
BY DEF LeaderOK, SameRefresh, SameCalls

(* A call that neither led nor waited, and that leads none now and waits   *)
(* only for a refresh that is under way, changes nothing for the others.   *)
LEMMA BystanderStep ==
  ASSUME TypeOK, NEW t \in Tab, NEW c \in Call, NEW r \in CallState,
         Becomes(t, c, r), call[t][c].pc \notin {"leading", "queued"}, r.pc # "leading",
         r.pc = "queued" => tab[t].isRefreshing, NEW u \in Tab
  PROVE  SameCalls(u)
<1>1. \A d \in Call : call'[u][d].pc = "leading" <=> call[u][d].pc = "leading"
  BY BecomesTyped
<1>2. \/ \A d \in Call : call'[u][d].pc = "queued" <=> call[u][d].pc = "queued"
      \/ tab[u].isRefreshing
  BY BecomesTyped
<1> QED BY <1>1, <1>2 DEF SameCalls, Leaders, Queued

(* Steps that are no part of a refresh: they may take the stored pair away *)
(* and nothing else, and make calls wait for a refresh that is under way.  *)
Aside == /\ UNCHANGED <<issued, spent>>
         /\ stored' \in {stored, 0}
         /\ over' => over \/ (stored' = 0 /\ Quiet)
         /\ \A t \in Tab : SameRefresh(t) /\ SameCalls(t)

(* They keep the invariant. *)
LEMMA AsideKeeps ==
  ASSUME IndInv, Aside, TypeOK' PROVE IndInv'
<1>1. \A t \in Tab : LeaderOK(t)'
  BY LeaderKept DEF IndInv, Aside
<1>2. 0 \notin Pair /\ (\A t \in Tab : spent[t] \subseteq Pair) /\ 0 <= issued
  BY DEF IndInv, TypeOK, Pair
<1>3. UNCHANGED <<issued, spent>> /\ stored' \in {stored, 0}
  BY DEF Aside
<1>4. \A t \in Tab : /\ tab'[t].presented = tab[t].presented
                     /\ tab'[t].answer = tab[t].answer
                     /\ tab'[t].isRefreshing = tab[t].isRefreshing
  BY DEF Aside, SameRefresh
<1>5. IssuedOK'
  BY <1>2, <1>3, <1>4 DEF IndInv, IssuedOK
<1>6. ASSUME NEW t \in Tab PROVE AnswerOK(t)' /\ StoredOK(t)'
  <2>1. AnswerOK(t) /\ StoredOK(t) /\ 0 \notin spent[t]
    BY <1>2 DEF IndInv
  <2>2. AnswerOK(t)'
    BY <1>2, <1>3, <1>4, <2>1 DEF AnswerOK
  <2> QED BY <1>3, <1>4, <2>1, <2>2 DEF StoredOK
<1>7. OverOK'
  <2>1. OverOK
    BY DEF IndInv
  <2>2. over' => over \/ (stored' = 0 /\ Quiet)
    BY DEF Aside
  <2> QED BY <1>3, <1>4, <2>1, <2>2 DEF OverOK, Quiet
<1> QED BY <1>1, <1>5, <1>6, <1>7 DEF IndInv

(* Calls that are sent, answered, refused, given up or made to wait. *)
LEMMA CallsAside ==
  ASSUME IndInv, NEW t \in Tab, NEW c \in Call,
         \/ Ask(t, c) \/ Answered(t, c) \/ Fails(t, c) \/ Deny(t, c)
         \/ GiveUp(t, c) \/ Queue(t, c) \/ Expired(t, c)
  PROVE  Aside
<1>0. /\ TypeOK /\ tab \in [Tab -> TabState] /\ tab[t] \in TabState
      /\ stored \in 0..MaxPairs /\ call[t][c] \in CallState /\ 0 \in 0..MaxPairs
  BY BoundAssumption DEF IndInv, TypeOK, TabState, CallState
<1>1. UNCHANGED <<issued, spent, over>> /\ stored' \in {stored, 0}
  BY DEF Ask, Answered, Fails, Deny, GiveUp, Queue, Expired, Forget
<1>2. \A u \in Tab : SameRefresh(u)
  <2>1. tab' = tab \/ \E b : tab' = [tab EXCEPT ![t].user = b]
    BY DEF Ask, Answered, Fails, Deny, GiveUp, Queue, Expired, Forget
  <2> QED BY <1>0, <2>1 DEF SameRefresh, TabState
<1>3. call[t][c].pc \notin {"leading", "queued"}
  BY DEF Ask, Vacant, Answered, Fails, Deny, GiveUp, Queue, Expired, Denied
<1>4. \E r \in CallState : /\ Becomes(t, c, r) /\ r.pc # "leading"
                           /\ r.pc = "queued" => tab[t].isRefreshing
  <2>1. CASE Ask(t, c)
    <3>1. Sent(FALSE) \in CallState /\ Sent(FALSE).pc = "sent"
      BY <1>0, RecordsTyped
    <3> QED BY <2>1, <3>1 DEF Ask
  <2>2. CASE Answered(t, c) \/ Fails(t, c) \/ GiveUp(t, c) \/ Expired(t, c)
    <3>1. Idle \in CallState /\ Idle.pc = "idle"
      BY <1>0, RecordsTyped
    <3> QED BY <2>2, <3>1 DEF Answered, Fails, GiveUp, Expired
  <2>3. CASE Deny(t, c)
    <3> DEFINE r == [call[t][c] EXCEPT !.pc = "denied", !.token = 0]
    <3>1. r \in CallState /\ r.pc = "denied"
      BY <1>0 DEF CallState
    <3> QED BY <2>3, <3>1 DEF Deny
  <2>4. CASE Queue(t, c)
    <3> DEFINE r == [call[t][c] EXCEPT !.pc = "queued"]
    <3>1. r \in CallState /\ r.pc = "queued"
      BY <1>0 DEF CallState
    <3> QED BY <2>4, <3>1 DEF Queue
  <2> QED BY <2>1, <2>2, <2>3, <2>4
<1>5. ASSUME NEW u \in Tab PROVE SameCalls(u)
  <2>1. PICK r \in CallState : /\ Becomes(t, c, r) /\ r.pc # "leading"
                               /\ r.pc = "queued" => tab[t].isRefreshing
    BY <1>4
  <2> QED BY <1>0, <1>3, <2>1, BystanderStep
<1> QED BY <1>1, <1>2, <1>5 DEF Aside

(* Logins that fail, logouts, and what happens at the backend. *)
LEMMA TabsAside ==
  ASSUME IndInv,
         \/ \E t \in Tab : LoginFails(t) \/ Logout(t) \/ LoggedOut(t) \/ ServeLogout(t)
         \/ \E pair \in Pair : ExpireAccess(pair) \/ EndSession(pair)
  PROVE  Aside
<1>0. tab \in [Tab -> TabState]
  BY DEF IndInv, TypeOK, TabState
<1>1. UNCHANGED <<issued, spent, call>> /\ stored' \in {stored, 0}
  BY DEF LoginFails, Logout, LoggedOut, ServeLogout, ExpireAccess, EndSession, Forget
<1>2. over' => over \/ (stored' = 0 /\ Quiet)
  BY DEF LoginFails, Logout, LoggedOut, ServeLogout, ExpireAccess, EndSession
<1>3. \A u \in Tab : SameRefresh(u)
  <2>1. CASE UNCHANGED tab
    BY <2>1 DEF SameRefresh
  <2>2. ASSUME NEW t \in Tab, LoginFails(t) \/ Logout(t) \/ LoggedOut(t) \/ ServeLogout(t)
        PROVE  \A u \in Tab : SameRefresh(u)
    <3>1. CASE LoginFails(t)
      BY <1>0, <3>1 DEF LoginFails, Forget, SameRefresh, TabState
    <3>2. CASE Logout(t)
      BY <1>0, <3>2 DEF Logout, SameRefresh, TabState
    <3>3. CASE LoggedOut(t)
      BY <1>0, <3>3 DEF LoggedOut, SameRefresh, TabState
    <3>4. CASE ServeLogout(t)
      BY <1>0, <3>4 DEF ServeLogout, SameRefresh, TabState
    <3> QED BY <2>2, <3>1, <3>2, <3>3, <3>4
  <2>3. (\E pair \in Pair : ExpireAccess(pair) \/ EndSession(pair)) => UNCHANGED tab
    BY DEF ExpireAccess, EndSession
  <2> QED BY <2>1, <2>2, <2>3
<1>4. \A u \in Tab : SameCalls(u)
  BY <1>1 DEF SameCalls, Leaders, Queued
<1> QED BY <1>1, <1>2, <1>3, <1>4 DEF Aside

-----------------------------------------------------------------------------
(* The steps of a refresh, logins and loads. *)

(* What the invariant says of the numbers of pairs, in one place. *)
LEMMA PairFacts ==
  ASSUME IndInv
  PROVE  /\ 0 \notin Pair /\ Unanswered \notin Pair /\ Refused \notin Pair
         /\ issued \in Nat /\ stored \in Nat /\ stored <= issued
         /\ \A t \in Tab : /\ spent[t] \subseteq Pair /\ tab[t].presented \in Nat
                            /\ tab[t] \in TabState
                            /\ 0 \notin spent[t] /\ issued + 1 \notin spent[t]
                            /\ tab[t].presented <= issued
                            /\ tab[t].answer # issued + 1
<1>1. 0 \notin Pair /\ Unanswered \notin Pair /\ Refused \notin Pair
  BY AnswerAssumption, BoundAssumption DEF Pair
<1>2. issued \in Nat /\ stored \in Nat /\ stored <= issued
  BY BoundAssumption DEF IndInv, TypeOK, IssuedOK
<1>3. ASSUME NEW t \in Tab
      PROVE  /\ spent[t] \subseteq Pair /\ tab[t].presented \in Nat
             /\ tab[t] \in TabState
             /\ 0 \notin spent[t] /\ issued + 1 \notin spent[t]
             /\ tab[t].presented <= issued
             /\ tab[t].answer # issued + 1
  <2>1. /\ spent[t] \subseteq Pair /\ tab[t].presented \in 0..MaxPairs
        /\ tab[t] \in TabState
    BY DEF IndInv, TypeOK, TabState
  <2>2. \A pair \in spent[t] : pair <= issued
    BY DEF IndInv, IssuedOK
  <2>3. tab[t].presented <= issued /\ (tab[t].answer \in Pair => tab[t].answer <= issued)
    BY DEF IndInv, IssuedOK
  <2>4. tab[t].answer \in Pair \cup {Unanswered, Refused}
    BY <2>1 DEF TabState
  <2>5. issued + 1 # Unanswered /\ issued + 1 # Refused
    BY <1>2, AnswerAssumption
  <2> QED BY <1>1, <1>2, <2>1, <2>2, <2>3, <2>4, <2>5, BoundAssumption DEF Pair
<1> QED BY <1>1, <1>2, <1>3

(* A tab that is loaded forgets its refresh; the others go on. *)
LEMMA LoadKeeps ==
  ASSUME IndInv, NEW t \in Tab, Load(t), TypeOK' PROVE IndInv'
<1>0. /\ tab \in [Tab -> TabState] /\ call \in [Tab -> [Call -> CallState]]
      /\ stored \in 0..MaxPairs /\ spent \in [Tab -> SUBSET Pair]
  BY DEF IndInv, TypeOK, TabState, CallState
<1>1. /\ UNCHANGED <<stored, issued, over>>
      /\ tab'[t] = SignedOut /\ spent'[t] = {}
      /\ \A u \in Tab \ {t} : tab'[u] = tab[u] /\ spent'[u] = spent[u]
  BY <1>0 DEF Load
<1>2. Leaders(t)' = {} /\ Queued(t)' = {}
  <2>1. Idle.pc = "idle" /\ Sent(TRUE).pc = "sent"
    BY <1>0, RecordsTyped
  <2>2. \A d \in Call : call'[t][d] \in {Idle, Sent(TRUE)}
    BY <1>0 DEF Load
  <2> QED BY <2>1, <2>2 DEF Leaders, Queued
<1>3. \A u \in Tab \ {t} : Leaders(u)' = Leaders(u) /\ Queued(u)' = Queued(u)
  <2>1. \A u \in Tab \ {t} : call'[u] = call[u]
    BY <1>0 DEF Load
  <2> QED BY <2>1 DEF Leaders, Queued
<1>4. /\ ~tab'[t].isRefreshing /\ tab'[t].presented = 0 /\ tab'[t].answer = Unanswered
  BY <1>1 DEF SignedOut
<1>5. ASSUME NEW u \in Tab PROVE LeaderOK(u)'
  <2>1. CASE u = t
    BY <1>2, <1>4, <2>1 DEF LeaderOK
  <2>2. CASE u # t
    BY <1>1, <1>3, <2>2 DEF IndInv, LeaderOK
  <2> QED BY <2>1, <2>2
<1>6. IssuedOK'
  <2>1. IssuedOK
    BY DEF IndInv
  <2> QED BY <1>1, <1>4, <2>1, PairFacts DEF IssuedOK
<1>7. ASSUME NEW u \in Tab PROVE AnswerOK(u)' /\ StoredOK(u)'
  <2>1. AnswerOK(u) /\ StoredOK(u)
    BY DEF IndInv
  <2> QED BY <1>1, <1>4, <2>1, PairFacts DEF AnswerOK, StoredOK
<1>8. OverOK'
  <2>1. OverOK
    BY DEF IndInv
  <2> QED BY <1>1, <1>4, <2>1 DEF OverOK, Quiet
<1> QED BY <1>5, <1>6, <1>7, <1>8 DEF IndInv

(* A login stores a pair that is new. *)
LEMMA LoginKeeps ==
  ASSUME IndInv, NEW t \in Tab, NEW c \in Call, Login(t, c), TypeOK' PROVE IndInv'
<1>0. TypeOK /\ tab \in [Tab -> TabState] /\ stored \in 0..MaxPairs /\ call[t][c].pc = "idle"
  BY DEF IndInv, TypeOK, TabState, Login, Vacant
<1>1. issued' = issued + 1 /\ issued' \in 0..MaxPairs /\ stored' = issued + 1
      /\ spent' = spent /\ ~over'
  BY <1>0, IssueTyped DEF Login
<1>2. \A u \in Tab : SameRefresh(u)
  BY <1>0 DEF Login, SameRefresh, TabState
<1>3. ASSUME NEW u \in Tab PROVE SameCalls(u)
  <2>1. Sent(TRUE) \in CallState /\ Sent(TRUE).pc = "sent"
    BY <1>0, RecordsTyped
  <2> DEFINE r == [Sent(TRUE) EXCEPT !.token = issued + 1]
  <2>2. r \in CallState /\ r.pc = "sent"
    BY <1>1, <2>1 DEF CallState
  <2>3. Becomes(t, c, r)
    BY DEF Login
  <2> QED BY <1>0, <2>2, <2>3, BystanderStep
<1>4. ASSUME NEW u \in Tab PROVE LeaderOK(u)'
  BY <1>2, <1>3, LeaderKept DEF IndInv
<1>5. \A u \in Tab : tab'[u].presented = tab[u].presented /\ tab'[u].answer = tab[u].answer
  BY <1>2 DEF SameRefresh
<1>6. IssuedOK'
  <2>1. IssuedOK
    BY DEF IndInv
  <2> QED BY <1>1, <1>5, <2>1, PairFacts DEF IssuedOK, Pair
<1>7. ASSUME NEW u \in Tab PROVE AnswerOK(u)' /\ StoredOK(u)'
  <2>1. AnswerOK(u) /\ StoredOK(u)
    BY DEF IndInv
  <2> QED BY <1>1, <1>5, <2>1, PairFacts DEF AnswerOK, StoredOK
<1> QED BY <1>1, <1>4, <1>6, <1>7 DEF IndInv, OverOK

(* The first call that is refused leads, with a pair the tab has not spent. *)
LEMMA LeadKeeps ==
  ASSUME IndInv, NEW t \in Tab, NEW c \in Call, Lead(t, c), TypeOK' PROVE IndInv'
<1>0. /\ TypeOK /\ tab \in [Tab -> TabState] /\ call[t][c] \in CallState
      /\ LeaderOK(t) /\ ~tab[t].isRefreshing /\ stored # 0
  BY DEF IndInv, TypeOK, TabState, CallState, Lead
<1>1. /\ UNCHANGED <<stored, issued, spent, over>>
      /\ tab'[t].isRefreshing /\ tab'[t].presented = stored /\ tab'[t].answer = Unanswered
      /\ \A u \in Tab \ {t} : tab'[u] = tab[u]
  BY <1>0 DEF Lead, TabState, LeaderOK
<1> DEFINE r == [call[t][c] EXCEPT !.pc = "leading", !.retry = TRUE]
<1>2. r \in CallState /\ r.pc = "leading" /\ Becomes(t, c, r)
  BY <1>0 DEF Lead, CallState
<1> HIDE DEF r
<1>3. /\ call'[t][c].pc = "leading"
      /\ \A u \in Tab, d \in Call : <<u, d>> # <<t, c>> => call'[u][d] = call[u][d]
  <2>1. /\ call'[t][c] = r
        /\ \A u \in Tab, d \in Call : <<u, d>> # <<t, c>> => call'[u][d] = call[u][d]
    BY <1>0, <1>2, BecomesTyped
  <2> QED BY <1>2, <2>1
<1>4. Leaders(t)' = {c}
  <2>1. Leaders(t) = {}
    BY <1>0 DEF LeaderOK
  <2> QED BY <1>3, <2>1 DEF Leaders
<1>5. \A u \in Tab \ {t} : Leaders(u)' = Leaders(u) /\ Queued(u)' = Queued(u)
  BY <1>3 DEF Leaders, Queued
<1>6. ASSUME NEW u \in Tab PROVE LeaderOK(u)'
  <2>1. CASE u = t
    BY <1>0, <1>1, <1>4, <2>1 DEF LeaderOK
  <2>2. CASE u # t
    BY <1>1, <1>5, <2>2 DEF IndInv, LeaderOK
  <2> QED BY <2>1, <2>2
<1>7. IssuedOK'
  <2>1. IssuedOK
    BY DEF IndInv
  <2> QED BY <1>1, <2>1, PairFacts DEF IssuedOK
<1>8. ASSUME NEW u \in Tab PROVE AnswerOK(u)' /\ StoredOK(u)'
  <2>1. AnswerOK(u) /\ StoredOK(u)
    BY DEF IndInv
  <2> QED BY <1>1, <2>1, PairFacts DEF AnswerOK, StoredOK
<1>9. OverOK'
  BY <1>0, <1>1 DEF IndInv, OverOK
<1> QED BY <1>6, <1>7, <1>8, <1>9 DEF IndInv

(* The backend answers with a pair nobody has, or refuses. *)
LEMMA ExchangeKeeps ==
  ASSUME IndInv, NEW t \in Tab, Exchange(t), TypeOK' PROVE IndInv'
<1>0. TypeOK /\ tab \in [Tab -> TabState] /\ LeaderOK(t) /\ tab[t].presented # 0
  BY DEF IndInv, TypeOK, TabState, Exchange
<1>1. /\ UNCHANGED <<stored, call, spent, over>>
      /\ issued' \in {issued, issued + 1}
      /\ \/ tab'[t].answer = issued + 1 /\ issued' = issued + 1
         \/ tab'[t].answer = Refused
      /\ tab'[t].isRefreshing = tab[t].isRefreshing /\ tab'[t].presented = tab[t].presented
      /\ \A u \in Tab \ {t} : tab'[u] = tab[u]
  BY <1>0 DEF Exchange, Issue, TabState
<1>2. \A u \in Tab : Leaders(u)' = Leaders(u) /\ Queued(u)' = Queued(u)
  BY <1>1 DEF Leaders, Queued
<1>3. ASSUME NEW u \in Tab PROVE LeaderOK(u)'
  <2>1. CASE u = t
    <3>1. tab[t].isRefreshing
      BY <1>0 DEF LeaderOK
    <3> QED BY <1>0, <1>1, <1>2, <2>1, <3>1 DEF LeaderOK
  <2>2. CASE u # t
    BY <1>1, <1>2, <2>2 DEF IndInv, LeaderOK
  <2> QED BY <2>1, <2>2
<1>4. IssuedOK'
  <2>1. IssuedOK
    BY DEF IndInv
  <2>2. \A pair \in Pair : pair <= issued => pair <= issued'
    BY <1>1, PairFacts DEF Pair
  <2>3. stored' <= issued'
    BY <1>1, PairFacts
  <2>4. ASSUME NEW u \in Tab
        PROVE  /\ tab'[u].presented <= issued'
               /\ tab'[u].answer \in Pair => tab'[u].answer <= issued'
               /\ \A pair \in spent'[u] : pair <= issued'
    <3>1. tab'[u].presented <= issued'
      BY <1>1, PairFacts
    <3>2. tab'[u].answer \in Pair => tab'[u].answer <= issued'
      BY <1>1, <2>1, <2>2, PairFacts DEF IssuedOK
    <3>3. \A pair \in spent'[u] : pair <= issued'
      BY <1>1, <2>1, <2>2, PairFacts DEF IssuedOK
    <3> QED BY <3>1, <3>2, <3>3
  <2> QED BY <2>3, <2>4 DEF IssuedOK
<1>5. ASSUME NEW u \in Tab PROVE AnswerOK(u)'
  <2>1. AnswerOK(u) /\ AnswerOK(t)
    BY DEF IndInv
  <2> QED BY <1>1, <2>1, PairFacts DEF AnswerOK
<1>6. ASSUME NEW u \in Tab PROVE StoredOK(u)'
  BY <1>1 DEF IndInv, StoredOK
<1>7. OverOK'
  BY <1>1 DEF IndInv, OverOK, Quiet
<1> QED BY <1>3, <1>4, <1>5, <1>6, <1>7 DEF IndInv

(* A refresh that ends leaves neither a leader nor calls that wait. *)
LEMMA SettledLeads ==
  ASSUME IndInv, NEW t \in Tab, NEW user, tab' = [tab EXCEPT ![t] = Settled(t, user)],
         Reject(t) \/ Resume(t), NEW u \in Tab
  PROVE  /\ LeaderOK(u)'
         /\ ~tab'[t].isRefreshing /\ tab'[t].presented = 0 /\ tab'[t].answer = Unanswered
         /\ u # t => tab'[u] = tab[u]
<1>0. /\ tab \in [Tab -> TabState] /\ call \in [Tab -> [Call -> CallState]]
      /\ stored \in 0..MaxPairs
  BY DEF IndInv, TypeOK, TabState, CallState
<1>1. /\ ~tab'[t].isRefreshing /\ tab'[t].presented = 0 /\ tab'[t].answer = Unanswered
      /\ u # t => tab'[u] = tab[u]
  BY <1>0 DEF Settled, TabState
<1>2. Leaders(t)' = {} /\ Queued(t)' = {}
  <2>1. Idle.pc = "idle"
    BY DEF Idle
  <2>2. \A c \in Call : [call[t][c] EXCEPT !.pc = "sent", !.token = tab[t].answer].pc = "sent"
    BY <1>0 DEF CallState
  <2>3. ASSUME NEW c \in Call PROVE call'[t][c].pc \notin {"leading", "queued"}
    <3>1. CASE c \in Queued(t) \cup Leaders(t)
      <4>1. \/ call'[t][c] = Idle
            \/ call'[t][c] = [call[t][c] EXCEPT !.pc = "sent", !.token = tab[t].answer]
        BY <1>0, <3>1 DEF Reject, Resume
      <4> QED BY <2>1, <2>2, <4>1
    <3>2. CASE c \notin Queued(t) \cup Leaders(t)
      <4>1. call'[t][c] = call[t][c]
        <5>1. CASE Reject(t)
          BY <1>0, <3>2, <5>1 DEF Reject
        <5>2. CASE Resume(t)
          BY <1>0, <3>2, <5>2 DEF Resume
        <5> QED BY <5>1, <5>2
      <4> QED BY <3>2, <4>1 DEF Leaders, Queued
    <3> QED BY <3>1, <3>2
  <2> QED BY <2>3 DEF Leaders, Queued
<1>3. u # t => Leaders(u)' = Leaders(u) /\ Queued(u)' = Queued(u)
  <2>1. u # t => call'[u] = call[u]
    BY <1>0 DEF Reject, Resume
  <2> QED BY <2>1 DEF Leaders, Queued
<1>4. CASE u = t
  BY <1>1, <1>2, <1>4 DEF LeaderOK
<1>5. CASE u # t
  BY <1>1, <1>3, <1>5 DEF IndInv, LeaderOK
<1> QED BY <1>1, <1>4, <1>5

(* The refresh was refused, or its answer is lost. *)
LEMMA RejectKeeps ==
  ASSUME IndInv, NEW t \in Tab, RefreshRefused(t) \/ RefreshLost(t), TypeOK' PROVE IndInv'
<1>1. UNCHANGED <<issued, spent, over>> /\ stored' \in {stored, 0}
  BY DEF RefreshRefused, RefreshLost
<1>2. PICK user : tab' = [tab EXCEPT ![t] = Settled(t, user)]
  BY DEF RefreshRefused, RefreshLost
<1>3. Reject(t)
  BY DEF RefreshRefused, RefreshLost
<1>4. ASSUME NEW u \in Tab
      PROVE  /\ LeaderOK(u)'
             /\ ~tab'[t].isRefreshing /\ tab'[t].presented = 0 /\ tab'[t].answer = Unanswered
             /\ u # t => tab'[u] = tab[u]
  BY <1>2, <1>3, SettledLeads
<1>5. IssuedOK'
  <2>1. IssuedOK
    BY DEF IndInv
  <2> QED BY <1>1, <1>4, <2>1, PairFacts DEF IssuedOK
<1>6. ASSUME NEW u \in Tab PROVE AnswerOK(u)' /\ StoredOK(u)'
  <2>1. AnswerOK(u) /\ StoredOK(u)
    BY DEF IndInv
  <2>2. tab'[u].answer \in Pair => u # t /\ tab'[u].answer = tab[u].answer
    BY <1>4, PairFacts
  <2> QED BY <1>1, <1>4, <2>1, <2>2, PairFacts DEF AnswerOK, StoredOK
<1>7. OverOK'
  BY <1>1, <1>4 DEF IndInv, OverOK, Quiet
<1> QED BY <1>4, <1>5, <1>6, <1>7 DEF IndInv

(* The answer is stored: it is spent by nobody, nor by this tab. *)
LEMMA RefreshedKeeps ==
  ASSUME IndInv, NEW t \in Tab, Refreshed(t), TypeOK' PROVE IndInv'
<1>0. /\ spent \in [Tab -> SUBSET Pair] /\ tab[t].answer \in Pair
      /\ LeaderOK(t) /\ AnswerOK(t) /\ StoredOK(t)
  BY DEF IndInv, TypeOK, Refreshed
<1>1. /\ UNCHANGED <<issued, over>> /\ stored' = tab[t].answer
      /\ spent'[t] = spent[t] \cup {tab[t].presented}
      /\ \A u \in Tab \ {t} : spent'[u] = spent[u]
  BY <1>0 DEF Refreshed
<1>2. tab' = [tab EXCEPT ![t] = Settled(t, tab[t].user)] /\ Resume(t)
  BY DEF Refreshed
<1>3. tab[t].isRefreshing
  BY <1>0, PairFacts DEF LeaderOK
<1>4. ASSUME NEW u \in Tab
      PROVE  /\ LeaderOK(u)'
             /\ ~tab'[t].isRefreshing /\ tab'[t].presented = 0 /\ tab'[t].answer = Unanswered
             /\ u # t => tab'[u] = tab[u]
  BY <1>2, SettledLeads
<1>5. IssuedOK'
  <2>1. IssuedOK
    BY DEF IndInv
  <2>2. stored' <= issued'
    BY <1>0, <1>1, <2>1 DEF IssuedOK
  <2> QED BY <1>1, <1>4, <2>1, <2>2, PairFacts DEF IssuedOK
<1>6. ASSUME NEW u \in Tab PROVE AnswerOK(u)'
  <2>1. AnswerOK(u)
    BY DEF IndInv
  <2>2. CASE tab'[u].answer \notin Pair
    BY <2>2 DEF AnswerOK
  <2>3. CASE tab'[u].answer \in Pair
    <3>1. u # t /\ tab'[u].answer = tab[u].answer
      BY <1>4, <2>3, PairFacts
    <3>2. tab[u].answer # stored'
      BY <1>0, <1>1, <2>1, <2>3, <3>1 DEF AnswerOK
    <3>3. ASSUME NEW v \in Tab
          PROVE  /\ tab[u].answer # tab'[v].presented /\ tab[u].answer \notin spent'[v]
                 /\ v # u => tab[u].answer # tab'[v].answer
      BY <1>1, <1>4, <2>1, <2>3, <3>1, PairFacts DEF AnswerOK
    <3> QED BY <3>1, <3>2, <3>3 DEF AnswerOK
  <2> QED BY <2>2, <2>3
<1>7. ASSUME NEW u \in Tab PROVE StoredOK(u)'
  <2>1. StoredOK(u)
    BY DEF IndInv
  <2>2. tab[t].answer # tab[t].presented /\ tab[t].answer \notin spent[u]
    BY <1>0 DEF AnswerOK
  <2>3. tab[t].presented # 0
    BY <1>0, <1>3 DEF LeaderOK
  <2> QED BY <1>1, <1>4, <2>1, <2>2, <2>3, PairFacts DEF StoredOK
<1>8. OverOK'
  BY <1>1, <1>3 DEF IndInv, OverOK, Quiet
<1> QED BY <1>4, <1>5, <1>6, <1>7, <1>8 DEF IndInv

-----------------------------------------------------------------------------
(* Every step keeps the invariant. *)
LEMMA InvStep == IndInv /\ [Next]_vars => IndInv'
<1> SUFFICES ASSUME IndInv, [Next]_vars PROVE IndInv'
  OBVIOUS
<1>0. TypeOK
  BY DEF IndInv
<1>1. CASE UNCHANGED vars
  <2>1. Aside /\ TypeOK'
    BY <1>0, <1>1 DEF vars, Aside, SameRefresh, SameCalls, Leaders, Queued, TypeOK
  <2> QED BY <2>1, AsideKeeps
<1>2. ASSUME NEW t \in Tab, LoginFails(t) \/ Logout(t) \/ LoggedOut(t) \/ ServeLogout(t)
      PROVE  IndInv'
  BY <1>0, <1>2, TabsTyped, TabsAside, AsideKeeps
<1>3. ASSUME NEW t \in Tab, Load(t) PROVE IndInv'
  BY <1>0, <1>3, TabsTyped, LoadKeeps
<1>4. ASSUME NEW t \in Tab, Exchange(t) \/ Refreshed(t) \/ RefreshRefused(t) \/ RefreshLost(t)
      PROVE  IndInv'
  <2>1. Refreshed(t) => tab[t].presented # 0
    BY PairFacts DEF IndInv, LeaderOK, Refreshed
  <2>2. TypeOK'
    BY <1>0, <1>4, <2>1, RefreshTyped
  <2> QED BY <1>4, <2>2, ExchangeKeeps, RefreshedKeeps, RejectKeeps
<1>5. ASSUME NEW t \in Tab, NEW c \in Call, Login(t, c) PROVE IndInv'
  BY <1>0, <1>5, TabsTyped, LoginKeeps
<1>6. ASSUME NEW t \in Tab, NEW c \in Call, Lead(t, c) PROVE IndInv'
  BY <1>0, <1>6, CallsTyped, LeadKeeps
<1>7. ASSUME NEW t \in Tab, NEW c \in Call,
             \/ Ask(t, c) \/ Answered(t, c) \/ Fails(t, c) \/ Deny(t, c)
             \/ GiveUp(t, c) \/ Queue(t, c) \/ Expired(t, c)
      PROVE  IndInv'
  BY <1>0, <1>7, CallsTyped, CallsAside, AsideKeeps
<1>8. ASSUME NEW pair \in Pair, ExpireAccess(pair) \/ EndSession(pair) PROVE IndInv'
  <2>1. TypeOK'
    BY <1>0, <1>8 DEF ExpireAccess, EndSession, TypeOK
  <2> QED BY <1>8, <2>1, TabsAside, AsideKeeps
<1> QED BY <1>1, <1>2, <1>3, <1>4, <1>5, <1>6, <1>7, <1>8 DEF Next

(* The tables of the tabs have their types. *)
THEOREM TypeCorrect == Spec => []TypeOK
<1>1. IndInv => TypeOK
  BY DEF IndInv
<1> QED BY InitInv, InvStep, <1>1, PTL DEF Spec

(* However many calls of however many tabs are refused: a call waits only  *)
(* for a refresh that is under way, which exactly one call has asked for.  *)
THEOREM QueueTheorem == Spec => []QueueHasLeader
<1>1. IndInv => QueueHasLeader
  <2> SUFFICES ASSUME IndInv, NEW t \in Tab
               PROVE  /\ Queued(t) # {} => tab[t].isRefreshing
                      /\ tab[t].isRefreshing => /\ tab[t].presented # 0
                                                /\ Cardinality(Leaders(t)) = 1
    BY DEF QueueHasLeader
  <2>1. LeaderOK(t)
    BY DEF IndInv
  <2>2. \A c \in Call : Cardinality({c}) = 1
    BY FS_Singleton
  <2> QED BY <2>1, <2>2 DEF LeaderOK
<1> QED BY InitInv, InvStep, <1>1, PTL DEF Spec

(* No tab presents a refresh token for which it was itself given another.  *)
(* Another tab may: a pair whose exchange was answered to nobody stays     *)
(* stored, as far as the browser knows a good one.                         *)
THEOREM SpentTheorem == Spec => []SpentOnce
<1>1. IndInv => SpentOnce
  BY DEF IndInv, StoredOK, SpentOnce
<1> QED BY InitInv, InvStep, <1>1, PTL DEF Spec

(* After a logout that removed the tokens while no tab had a refresh under *)
(* way, none are stored until someone logs in.  (With one under way they   *)
(* may be: its answer stores a pair.)                                      *)
THEOREM LogoutTheorem == Spec => []LogoutIsFinal
<1>1. IndInv => LogoutIsFinal
  BY DEF IndInv, OverOK, LogoutIsFinal
<1> QED BY InitInv, InvStep, <1>1, PTL DEF Spec

=============================================================================

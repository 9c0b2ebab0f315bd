---------------------------- MODULE TokenClient ----------------------------
(***************************************************************************)
(* The dashboard's session: dashboard/src/api/client.ts, whose interceptor *)
(* refreshes the tokens when a call is refused with 401, and the state of  *)
(* context/AuthContext.tsx, in several tabs that share one localStorage.   *)
(*                                                                         *)
(*  - Tokens come in pairs, an access and a refresh token, which are       *)
(*    issued, stored and removed together; a pair is its number.           *)
(*  - stored is the pair in localStorage, 0 for none.                      *)
(*  - alive are the pairs whose refresh token the backend exchanges, fresh *)
(*    those whose access token it accepts.  (How it comes to that is in    *)
(*    Sessions.  An exchange is one step here.)                            *)
(*  - call[t][c] is what became of call c of tab t: it is "sent" with an   *)
(*    access token; "denied", the 401 on its way; it is "leading" the      *)
(*    refresh of its tab, or "queued" for it.  Any other answer, and a     *)
(*    network error, makes it "idle".                                      *)
(*  - tab[t] is whether a user is shown (user), client.ts's isRefreshing,  *)
(*    the refresh token its leader presented (0: none) and the answer to   *)
(*    that, and whether a logout is under way (leaving) that is to end     *)
(*    pair `out`.                                                          *)
(***************************************************************************)
EXTENDS Naturals, FiniteSets

CONSTANTS
  Tab,
  Call,        \* bound: calls a tab has under way at once
  MaxBusy,     \* bound: calls of all tabs under way at once
  MaxPairs,    \* bound: pairs ever issued
  Unanswered, Refused

ASSUME AnswerAssumption == {Unanswered, Refused} \cap Nat = {}
ASSUME BoundAssumption  == MaxPairs \in Nat /\ MaxBusy \in Nat

VARIABLES stored, issued, alive, fresh, tab, call,
  spent,       \* history: pairs whose exchange was answered to a tab since it was loaded
  over         \* history: since the last login, a tab has signed out while no
               \* tab was refreshing

vars == <<stored, issued, alive, fresh, tab, call, spent, over>>

Pair == 1..MaxPairs

Idle      == [pc |-> "idle", token |-> 0, retry |-> FALSE, profile |-> FALSE]
Sent(p)   == [Idle EXCEPT !.pc = "sent", !.token = stored, !.profile = p]
SignedOut == [user |-> FALSE, isRefreshing |-> FALSE, presented |-> 0,
              answer |-> Unanswered, leaving |-> FALSE, out |-> 0]

Init == /\ stored = 0 /\ issued = 0 /\ alive = {} /\ fresh = {}
        /\ tab  = [t \in Tab |-> SignedOut]
        /\ call = [t \in Tab |-> [c \in Call |-> Idle]]
        /\ spent = [t \in Tab |-> {}]
        /\ over = FALSE

-----------------------------------------------------------------------------
(* The calls of a tab that wait for its refresh. *)
Queued(t)  == {c \in Call : call[t][c].pc = "queued"}
Leaders(t) == {c \in Call : call[t][c].pc = "leading"}

Busy == {tc \in Tab \X Call : call[tc[1]][tc[2]].pc # "idle"}

Vacant(t, c) == call[t][c].pc = "idle" /\ Cardinality(Busy) < MaxBusy

Becomes(t, c, r) == call' = [call EXCEPT ![t][c] = r]

Quiet == \A t \in Tab : ~tab[t].isRefreshing

(* logoutState, of AuthContext; localStorage is that of all tabs.          *)
Forget(t) == /\ stored' = 0
             /\ tab' = [tab EXCEPT ![t].user = FALSE]

(* The backend issues the next pair. *)
Issue(gone) == /\ issued < MaxPairs
               /\ issued' = issued + 1
               /\ alive'  = (alive \ gone) \cup {issued + 1}
               /\ fresh'  = fresh \cup {issued + 1}

-----------------------------------------------------------------------------
(* A tab is opened or loaded again: the effect of AuthContext asks for the *)
(* profile, with the tokens it finds.                                      *)
Load(t) ==
  /\ tab' = [tab EXCEPT ![t] = SignedOut]
  /\ \E c \in Call :
       call' = [call EXCEPT ![t] = [d \in Call |->
                  IF d = c /\ stored # 0 THEN Sent(TRUE) ELSE Idle]]
  /\ spent' = [spent EXCEPT ![t] = {}]
  /\ UNCHANGED <<stored, issued, alive, fresh, over>>

(* login: the pair is stored, and the profile asked for; a login that is   *)
(* refused forgets the pair of every tab.                                  *)
Login(t, c) ==
  /\ ~tab[t].user /\ Vacant(t, c)
  /\ Issue({})
  /\ stored' = issued + 1
  /\ tab' = [tab EXCEPT ![t].user = TRUE]
  /\ Becomes(t, c, [Sent(TRUE) EXCEPT !.token = issued + 1])
  /\ over' = FALSE
  /\ UNCHANGED spent

LoginFails(t) == /\ ~tab[t].user
                 /\ Forget(t)
                 /\ UNCHANGED <<issued, alive, fresh, call, spent, over>>

(* logout notifies the backend, if it can, and forgets the pair. *)
Logout(t) == /\ tab[t].user /\ ~tab[t].leaving
             /\ tab' = [tab EXCEPT ![t].leaving = TRUE, ![t].out = stored]
             /\ UNCHANGED <<stored, issued, alive, fresh, call, spent, over>>

(* Mutant: the pair is forgotten only if the backend could be told. *)
LoggedOutIfTold(t) ==
  /\ tab[t].leaving
  /\ stored' = IF tab[t].out = 0 THEN 0 ELSE stored
  /\ tab' = [tab EXCEPT ![t].user = FALSE, ![t].leaving = FALSE, ![t].out = 0]
  /\ over' = (over \/ Quiet)
  /\ UNCHANGED <<issued, alive, fresh, call, spent>>

LoggedOut(t) == /\ tab[t].leaving
                /\ stored' = 0
                /\ tab' = [tab EXCEPT ![t].user = FALSE, ![t].leaving = FALSE,
                                      ![t].out = 0]
                /\ over' = (over \/ Quiet)
                /\ UNCHANGED <<issued, alive, fresh, call, spent>>

-----------------------------------------------------------------------------
(* The request interceptor attaches the token that is stored, if any. *)
Ask(t, c) == /\ tab[t].user /\ ~tab[t].leaving
             /\ Vacant(t, c)
             /\ Becomes(t, c, Sent(FALSE))
             /\ UNCHANGED <<stored, issued, alive, fresh, tab, spent, over>>

Answered(t, c) ==
  /\ call[t][c].pc = "sent" /\ call[t][c].token \in fresh
  /\ Becomes(t, c, Idle)
  /\ tab' = [tab EXCEPT ![t].user = @ \/ call[t][c].profile]
  /\ UNCHANGED <<stored, issued, alive, fresh, spent, over>>

(* Mutant: a call that failed is never used again. *)
FailsForGood(t, c) ==
  /\ call[t][c].pc \in {"sent", "denied"}
  /\ Becomes(t, c, [Idle EXCEPT !.pc = "failed"])
  /\ UNCHANGED <<stored, issued, alive, fresh, tab, spent, over>>

(* A network error, or an answer that is lost. *)
Fails(t, c) == /\ call[t][c].pc \in {"sent", "denied"}
               /\ Becomes(t, c, Idle)
               /\ UNCHANGED <<stored, issued, alive, fresh, tab, spent, over>>

Deny(t, c) == /\ call[t][c].pc = "sent" /\ call[t][c].token \notin fresh
              /\ Becomes(t, c, [call[t][c] EXCEPT !.pc = "denied", !.token = 0])
              /\ UNCHANGED <<stored, issued, alive, fresh, tab, spent, over>>

-----------------------------------------------------------------------------
(* The response interceptor, on a 401. *)

Denied(t, c) == call[t][c].pc = "denied"

(* A call is refreshed for once; fetchProfile then signs out. *)
GiveUp(t, c) == /\ Denied(t, c) /\ call[t][c].retry
                /\ Becomes(t, c, Idle)
                /\ IF call[t][c].profile THEN Forget(t) ELSE UNCHANGED <<stored, tab>>
                /\ UNCHANGED <<issued, alive, fresh, spent, over>>

Queue(t, c) == /\ Denied(t, c) /\ ~call[t][c].retry /\ tab[t].isRefreshing
               /\ Becomes(t, c, [call[t][c] EXCEPT !.pc = "queued"])
               /\ UNCHANGED <<stored, issued, alive, fresh, tab, spent, over>>

Expired(t, c) == /\ Denied(t, c) /\ ~call[t][c].retry /\ ~tab[t].isRefreshing
                 /\ stored = 0
                 /\ Forget(t)
                 /\ Becomes(t, c, Idle)
                 /\ UNCHANGED <<issued, alive, fresh, spent, over>>

Lead(t, c) == /\ Denied(t, c) /\ ~call[t][c].retry /\ ~tab[t].isRefreshing
              /\ stored # 0
              /\ tab' = [tab EXCEPT ![t].isRefreshing = TRUE, ![t].presented = stored]
              /\ Becomes(t, c, [call[t][c] EXCEPT !.pc = "leading", !.retry = TRUE])
              /\ UNCHANGED <<stored, issued, alive, fresh, spent, over>>

-----------------------------------------------------------------------------
(* The refresh. *)

Exchange(t) ==
  /\ tab[t].presented # 0 /\ tab[t].answer = Unanswered
  /\ IF tab[t].presented \in alive
     THEN /\ Issue({tab[t].presented})
          /\ tab' = [tab EXCEPT ![t].answer = issued + 1]
     ELSE /\ tab' = [tab EXCEPT ![t].answer = Refused]
          /\ UNCHANGED <<issued, alive, fresh>>
  /\ UNCHANGED <<stored, call, spent, over>>

Settled(t, user) ==
  [tab[t] EXCEPT !.isRefreshing = FALSE, !.presented = 0, !.answer = Unanswered,
                 !.user = user]

(* processQueue *)
Reject(t) == call' = [call EXCEPT ![t] = [c \in Call |->
                        IF c \in Queued(t) \cup Leaders(t) THEN Idle ELSE call[t][c]]]

(* The calls that waited and the one that led are sent again. *)
Resume(t) == call' = [call EXCEPT ![t] = [c \in Call |->
                        IF c \in Queued(t) \cup Leaders(t)
                        THEN [call[t][c] EXCEPT !.pc = "sent", !.token = tab[t].answer]
                        ELSE call[t][c]]]

(* Mutant: the new pair is used and not stored. *)
RefreshedInMemory(t) ==
  /\ tab[t].answer \in Pair
  /\ Resume(t)
  /\ tab' = [tab EXCEPT ![t] = Settled(t, tab[t].user)]
  /\ spent' = [spent EXCEPT ![t] = @ \cup {tab[t].presented}]
  /\ UNCHANGED <<stored, issued, alive, fresh, over>>

Refreshed(t) ==
  /\ tab[t].answer \in Pair
  /\ stored' = tab[t].answer
  /\ Resume(t)
  /\ tab' = [tab EXCEPT ![t] = Settled(t, tab[t].user)]
  /\ spent' = [spent EXCEPT ![t] = @ \cup {tab[t].presented}]
  /\ UNCHANGED <<issued, alive, fresh, over>>

RefreshRefused(t) ==
  /\ tab[t].answer = Refused
  /\ stored' = 0
  /\ tab' = [tab EXCEPT ![t] = Settled(t, FALSE)]
  /\ Reject(t)
  /\ UNCHANGED <<issued, alive, fresh, spent, over>>

(* Mutant: the queue is not told of a network error. *)
LostToLeaderOnly(t) ==
  /\ tab[t].isRefreshing
  /\ tab' = [tab EXCEPT ![t] = Settled(t, tab[t].user)]
  /\ call' = [call EXCEPT ![t] = [c \in Call |->
                IF c \in Leaders(t) THEN Idle ELSE call[t][c]]]
  /\ UNCHANGED <<stored, issued, alive, fresh, spent, over>>

(* The exchange may have taken place; the pair is kept all the same. *)
RefreshLost(t) ==
  /\ tab[t].isRefreshing
  /\ tab' = [tab EXCEPT ![t] = Settled(t, tab[t].user)]
  /\ Reject(t)
  /\ UNCHANGED <<stored, issued, alive, fresh, spent, over>>

-----------------------------------------------------------------------------
(* The backend: a logout arrives; an access token expires; a session ends. *)
ServeLogout(t) == /\ tab[t].out # 0
                  /\ alive' = alive \ {tab[t].out}
                  /\ tab' = [tab EXCEPT ![t].out = 0]
                  /\ UNCHANGED <<stored, issued, fresh, call, spent, over>>

ExpireAccess(pair) == /\ pair \in fresh
                      /\ fresh' = fresh \ {pair}
                      /\ UNCHANGED <<stored, issued, alive, tab, call, spent, over>>

EndSession(pair) == /\ pair \in alive
                    /\ alive' = alive \ {pair}
                    /\ UNCHANGED <<stored, issued, fresh, tab, call, spent, over>>

-----------------------------------------------------------------------------
Next == \/ \E t \in Tab : \/ Load(t) \/ LoginFails(t) \/ Logout(t) \/ LoggedOut(t)
                          \/ Exchange(t) \/ Refreshed(t) \/ RefreshRefused(t)
                          \/ RefreshLost(t) \/ ServeLogout(t)
                          \/ \E c \in Call : \/ Login(t, c) \/ Ask(t, c)
                                             \/ Answered(t, c) \/ Fails(t, c)
                                             \/ Deny(t, c) \/ GiveUp(t, c)
                                             \/ Queue(t, c) \/ Expired(t, c)
                                             \/ Lead(t, c)
        \/ \E pair \in Pair : ExpireAccess(pair) \/ EndSession(pair)

Spec == Init /\ [][Next]_vars

TypeOK ==
  /\ stored \in 0..MaxPairs /\ issued \in 0..MaxPairs
  /\ alive \subseteq Pair /\ fresh \subseteq Pair
  /\ tab \in [Tab -> [user : BOOLEAN, isRefreshing : BOOLEAN, presented : 0..MaxPairs,
                      answer : Pair \cup {Unanswered, Refused},
                      leaving : BOOLEAN, out : 0..MaxPairs]]
  /\ call \in [Tab -> [Call -> [pc : {"idle", "sent", "denied", "leading", "queued"},
                                token : 0..MaxPairs, retry : BOOLEAN,
                                profile : BOOLEAN]]]
  /\ spent \in [Tab -> SUBSET Pair]
  /\ over \in BOOLEAN

(* A call waits for a refresh only while one is under way, which one call  *)
(* of its tab has asked for and will hear of.                              *)
QueueHasLeader ==
  \A t \in Tab : /\ Queued(t) # {} => tab[t].isRefreshing
                 /\ tab[t].isRefreshing => /\ tab[t].presented # 0
                                           /\ Cardinality(Leaders(t)) = 1

(* However many calls of a tab are refused, and however late they hear of  *)
(* it, the tab presents no refresh token whose exchange it was answered:   *)
(* it is signed out by another tab, a lost answer or the backend, never by *)
(* itself.                                                                 *)
SpentOnce == \A t \in Tab : tab[t].presented \notin spent[t]

(* Once a tab has logged out, while none was refreshing, no tab has tokens *)
(* until someone logs in: calls that are refused later on do not bring     *)
(* them back.                                                              *)
LogoutIsFinal == over => stored = 0

=============================================================================

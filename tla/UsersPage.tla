----------------------------- MODULE UsersPage -----------------------------
(***************************************************************************)
(* dashboard/src/pages/UsersPage.tsx with its table (DataTable.tsx) and    *)
(* its two forms (CreateUserModal.tsx, EditUserModal.tsx).                 *)
(*                                                                         *)
(*  - server[a] is the status of account a, as the backend has it.         *)
(*  - ui.users are the rows of the table, as a function from ids to        *)
(*    statuses.  The rows are those of a page of accounts, or the demo     *)
(*    list that stands in for them when they cannot be fetched.            *)
(*  - ui.search is the term typed, as the set of ids whose e-mail or name  *)
(*    contains it.                                                         *)
(*  - ui.form[m] is whether form m is open and its parent says `loading`   *)
(*    (creatingUser, updatingUser).  Banners and fields are left out, and  *)
(*    so are clicks that change nothing else.                              *)
(*                                                                         *)
(* The accounts that the backend lists have no role (UserResponseDto       *)
(* exposes a column the entity does not have); those of the demo list      *)
(* have.  Both the search and the edit form call role.toLowerCase(): on a  *)
(* row of the backend that throws while React renders, nothing catches it  *)
(* and the whole console is unmounted (ui = Crashed).                      *)
(***************************************************************************)
EXTENDS Calls

CONSTANTS
  Account, Demo,  \* ids of the accounts and of the demo list
  PageOf,         \* [Account -> page the backend lists it on]
  Term,           \* search terms, each the set of ids it matches
  MaxTimer        \* bound: timeouts of one kind a form has pending

Id     == Account \cup Demo
Form   == {"create", "edit"}
Status == {"ACTIVE", "SUSPENDED", "DEACTIVATED"}
Pages  == {PageOf[a] : a \in Account}
Acts   == {"suspend", "activate", "deactivate"}

(* The accounts the backend lists on a page. *)
Listable(p) == {a \in Account : PageOf[a] = p}

(* useState of the page. *)
Hooks == [users |-> <<>>, page |-> 1, shown |-> None, mixed |-> FALSE,
          loading |-> TRUE, search |-> Id, actionLoadingId |-> None,
          editingUser |-> None,
          form |-> [m \in Form |-> [open |-> FALSE, loading |-> FALSE]]]

Crashed == [crashed |-> TRUE]

NoTimers == [m \in Form |-> [close |-> 0, gone |-> 0]]

(* The first render, whose effect fetches page 1. *)
Mounted == {[ui |-> Hooks, net |-> <<Listing(1)>>, timer |-> NoTimers,
             server |-> [a \in Account |-> "ACTIVE"]]}

(* A timeout is pending that closes the form. *)
Closing(m) == timer[m].close + timer[m].gone > 0

(* A form's request: the function that awaits it belongs to the render of  *)
(* the click, and so does the page it will fetch afterwards.  `own` and    *)
(* `closing` are history fields: the form has not been opened again since, *)
(* and it was about to close when the request was sent.                    *)
FormCall(m, id) == [kind |-> m, of |-> id, page |-> ui.page, own |-> TRUE,
                    closing |-> Closing(m), answer |-> Waiting]

-----------------------------------------------------------------------------
(* What is on the screen. *)

(* filteredUsers looks at the role of the rows no earlier clause matched.  *)
RoleMissing(h) == /\ DOMAIN h.users \subseteq Account
                  /\ ~(DOMAIN h.users \subseteq h.search)

(* New hooks and requests; hooks that throw when rendered end the page.    *)
Shown(h, asked, throws) ==
  /\ ui'    = IF throws THEN Crashed ELSE h
  /\ net'   = IF throws THEN <<>> ELSE asked
  /\ timer' = IF throws THEN NoTimers ELSE timer
  /\ UNCHANGED server

Render(h, asked) == Shown(h, asked, RoleMissing(h))

(* The forms cover the page; the table hides its rows while it loads. *)
Uncovered == \A m \in Form : ~ui.form[m].open
Rows      == IF Uncovered /\ ~ui.loading THEN DOMAIN ui.users \cap ui.search ELSE {}

(* The buttons of a row: edit; suspend or activate, and deactivate. *)
CanEdit(r) == r \in Rows /\ ui.actionLoadingId # r
CanAct(r)  == CanEdit(r) /\ ui.users[r] # "DEACTIVATED"

(* The pagination: the demo list has one page, and so no buttons for it. *)
CanTurn(p) == /\ Uncovered
              /\ DOMAIN ui.users \cap Account # {}
              /\ p \in Pages \ {ui.page}

(* A form's buttons are disabled while its parent says `loading`. *)
CanUse(m) == ui.form[m].open /\ ~ui.form[m].loading

-----------------------------------------------------------------------------
(* The table. *)

(* fetchUsers, with the page that the render it belongs to sees. *)
Fetching(h, p) == [h EXCEPT !.loading = TRUE, !.mixed = Mixes(p, h.page)]

Refresh == /\ Uncovered
           /\ Send(Listing(ui.page))
           /\ ui' = Fetching(ui, ui.page)
           /\ UNCHANGED <<timer, server>>

(* Mutant: the effect does not depend on the page. *)
TurnOnly(p) == /\ CanTurn(p)
               /\ ui' = [ui EXCEPT !.page = p]
               /\ UNCHANGED <<net, timer, server>>

Turn(p) == /\ CanTurn(p)
           /\ Send(Listing(p))
           /\ ui' = Fetching([ui EXCEPT !.page = p], p)
           /\ UNCHANGED <<timer, server>>

(* Each answer is shown as it comes, whatever page the table is on by now. *)
Table(i, rows, of) == Render([ui EXCEPT !.users = rows, !.shown = of,
                                        !.loading = FALSE],
                             RemoveAt(net, i))

Listed(i) == /\ Is(i, {"list"})
             /\ net[i].answer = Done
             /\ Table(i, net[i].rows, net[i].of)

(* getFallbackUsers *)
ListFails(i) == Is(i, {"list"}) /\ Table(i, [d \in Demo |-> "ACTIVE"], None)

Search(term) == /\ Uncovered
                /\ term # ui.search
                /\ Render([ui EXCEPT !.search = term], net)

(* toggleUserStatus, deactivateUser *)
Ask(r, act) == /\ Send(Call(act, r))
               /\ ui' = [ui EXCEPT !.actionLoadingId = r]
               /\ UNCHANGED <<timer, server>>

(* Mutant: the button to activate works for a deactivated row too. *)
ToggleAnyRow(r) == /\ CanEdit(r)
                   /\ Ask(r, IF ui.users[r] = "ACTIVE" THEN "suspend" ELSE "activate")

Toggle(r) == /\ CanAct(r)
             /\ Ask(r, IF ui.users[r] = "ACTIVE" THEN "suspend" ELSE "activate")

Deactivate(r) == CanAct(r) /\ Ask(r, "deactivate")

(* Mutant: statuses in lower case, as licenses have them. *)
AfterInLowerCase(act) == CASE act = "suspend"    -> "suspended"
                           [] act = "activate"   -> "active"
                           [] act = "deactivate" -> "deactivated"

After(act) == CASE act = "suspend"    -> "SUSPENDED"
                [] act = "activate"   -> "ACTIVE"
                [] act = "deactivate" -> "DEACTIVATED"

(* The row is updated if it is still there, and every row's buttons work   *)
(* again: there is one actionLoadingId for all of them.                    *)
Acted(i) == /\ Is(i, Acts)
            /\ net[i].answer = Done
            /\ ui' = [ui EXCEPT
                 !.users = [r \in DOMAIN ui.users |->
                              IF r = net[i].of THEN After(net[i].kind) ELSE ui.users[r]],
                 !.actionLoadingId = None]
            /\ Receive(i)
            /\ UNCHANGED <<timer, server>>

ActFails(i) == /\ Is(i, Acts)
               /\ ui' = [ui EXCEPT !.actionLoadingId = None]
               /\ Receive(i)
               /\ UNCHANGED <<timer, server>>

-----------------------------------------------------------------------------
(* The forms. *)

Disown(m) == [i \in InFlight |->
                IF Is(i, {m}) THEN [net[i] EXCEPT !.own = FALSE] ELSE net[i]]

OpenCreate == /\ Uncovered
              /\ ui' = [ui EXCEPT !.form["create"].open = TRUE]
              /\ net' = Disown("create")
              /\ UNCHANGED <<timer, server>>

EditOpen(r) == [ui EXCEPT !.form["edit"].open = TRUE, !.editingUser = r]

(* openEditModal and the effect of the form, where resolveRoleId throws    *)
(* for a row without a role.                                               *)
OpenEdit(r) == CanEdit(r) /\ Shown(EditOpen(r), Disown("edit"), r \in Account)

FadeOut(m) == /\ timer[m].gone < MaxTimer
              /\ timer' = [timer EXCEPT ![m].gone = @ + 1]
              /\ UNCHANGED <<ui, net, server>>

(* Mutant: the form can be closed while it saves. *)
CloseAnyTime(m) == ui.form[m].open /\ FadeOut(m)

(* handleClose: the form is gone 250 ms later, and can be used until then. *)
Close(m) == CanUse(m) /\ FadeOut(m)

(* handleSubmit up to the answer.  A saved form can be submitted again     *)
(* until it closes.                                                        *)
Submit(m) ==
  /\ CanUse(m)
  /\ timer[m].close < MaxTimer
  /\ Send(FormCall(m, IF m = "edit" THEN ui.editingUser ELSE None))
  /\ ui' = [ui EXCEPT !.form[m].loading = TRUE]
  /\ UNCHANGED <<timer, server>>

(* The form closes itself 1500 ms after it was saved; the table is fetched *)
(* as the function saw it when the form was submitted.                     *)
Saved(i) ==
  LET m == net[i].kind
  IN  /\ Is(i, Form)
      /\ net[i].answer = Done
      /\ ui' = [Fetching(ui, net[i].page) EXCEPT !.form[m].loading = FALSE]
      /\ timer' = [timer EXCEPT ![m].close = @ + 1]
      /\ ReceiveAndSend(i, Listing(net[i].page))
      /\ UNCHANGED server

SaveFails(i) == /\ Is(i, Form)
                /\ ui' = [ui EXCEPT !.form[net[i].kind].loading = FALSE]
                /\ Receive(i)
                /\ UNCHANGED <<timer, server>>

(* The two timeouts act on the form as it is when they fire. *)
FireClose(m) == /\ timer[m].close > 0
                /\ timer[m].gone < MaxTimer
                /\ timer' = [timer EXCEPT ![m].close = @ - 1, ![m].gone = @ + 1]
                /\ UNCHANGED <<ui, net, server>>

FireGone(m) == /\ timer[m].gone > 0
               /\ timer' = [timer EXCEPT ![m].gone = @ - 1]
               /\ ui' = [ui EXCEPT !.form[m].open = FALSE,
                                   !.editingUser = IF m = "edit" THEN None ELSE @]
               /\ UNCHANGED <<net, server>>

-----------------------------------------------------------------------------
(* The backend: UserController and AdminController. *)

ServeList(i) == /\ Is(i, {"list"})
                /\ net[i].answer = Waiting
                /\ net' = [net EXCEPT ![i].answer = Done,
                             ![i].rows = [a \in Listable(net[i].of) |-> server[a]]]
                /\ UNCHANGED <<ui, timer, server>>

ServeAct(i) == /\ Is(i, Acts)
               /\ Served(i, IF net[i].of \in Account THEN Done ELSE Refused)
               /\ server' = [a \in Account |-> IF a = net[i].of
                                               THEN After(net[i].kind) ELSE server[a]]
               /\ UNCHANGED <<ui, timer>>

(* A new account is none of Account; a demo account cannot be updated. *)
ServeSave(i) == /\ Is(i, Form)
                /\ \E answer \in {Done, Refused} :
                     /\ (answer = Done) => (net[i].of \notin Demo)
                     /\ Served(i, answer)
                /\ UNCHANGED <<ui, timer, server>>

-----------------------------------------------------------------------------
Click == \/ Refresh \/ OpenCreate
         \/ \E p \in Pages : Turn(p)
         \/ \E term \in Term : Search(term)
         \/ \E r \in Id : Toggle(r) \/ Deactivate(r) \/ OpenEdit(r)
         \/ \E m \in Form : Close(m) \/ Submit(m)

Answer == \E i \in InFlight : \/ Listed(i) \/ ListFails(i)
                              \/ Acted(i) \/ ActFails(i)
                              \/ Saved(i) \/ SaveFails(i)

Timeout == \E m \in Form : FireClose(m) \/ FireGone(m)

Serve == \E i \in InFlight : ServeList(i) \/ ServeAct(i) \/ ServeSave(i)

Next == ui # Crashed /\ (Click \/ Answer \/ Timeout \/ Serve)

Numbers == Pages \cup {1}

(* The rows are those of the question they are the answer to, or demo      *)
(* rows: nothing that happens to one of them lets in another.              *)
RowsFit(rows, of) == rows \subseteq Listable(of) \/ (of = None /\ rows \subseteq Demo)

HooksType ==
  {h \in [users : Tables(Id, Status), page : Numbers, shown : Numbers \cup {None},
          mixed : BOOLEAN, loading : BOOLEAN, search : Term \cup {Id},
          actionLoadingId : Id \cup {None}, editingUser : Id \cup {None},
          form : [Form -> [open : BOOLEAN, loading : BOOLEAN]]] :
     RowsFit(DOMAIN h.users, h.shown)}

CallType ==
  {c \in Listings(Numbers, Tables(Account, Status)) : DOMAIN c.rows \subseteq Listable(c.of)}
    \cup Requests(Acts, Id)
    \cup [kind : Form, of : Id \cup {None}, page : Numbers, own : BOOLEAN,
          closing : BOOLEAN, answer : Answers]

TypeOK ==
  /\ server \in [Account -> Status]
  /\ timer \in [Form -> [close : 0..MaxTimer, gone : 0..MaxTimer]]
  /\ net \in Seq(CallType)
  /\ ui \in HooksType \cup {Crashed}

(* A request outlives the opening of the form it was sent from, and shows  *)
(* its error in the next one, only if the form was already about to close  *)
(* when it was sent: on its way out after Cancel, or within 1.5 s of an    *)
(* earlier success.                                                        *)
OnlyClosingFormsLeaveCalls ==
  \A i \in InFlight : Is(i, Form) /\ ~net[i].own => net[i].closing

(* An account that is deactivated, as every row and every answer under way *)
(* says, stays so whatever the console does: no button revives it, and no  *)
(* request that would is left.  (Before that, one may be: actionLoadingId  *)
(* is reset by the answer about another row.)                              *)
KnownDeactivated(a) ==
  /\ server[a] = "DEACTIVATED"
  /\ a \in DOMAIN ui.users => ui.users[a] = "DEACTIVATED"
  /\ \A i \in InFlight :
       /\ Is(i, Acts) => net[i].of # a
       /\ Is(i, {"list"}) /\ a \in DOMAIN net[i].rows => net[i].rows[a] = "DEACTIVATED"

DeactivatedStays == ui # Crashed /\ ui' # Crashed =>
                      \A a \in Account : KnownDeactivated(a) => KnownDeactivated(a)'

=============================================================================

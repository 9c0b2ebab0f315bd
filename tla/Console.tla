------------------------------ MODULE Console ------------------------------
(***************************************************************************)
(* The dashboard's routes: App.tsx, ProtectedRoute.tsx, Sidebar.tsx,       *)
(* LoginPage.tsx and the permissions of AuthContext.tsx, with the pages    *)
(* that are mounted behind them.                                           *)
(*                                                                         *)
(*  - route is the path; "home" is the landing page, which keeps nothing   *)
(*    of the console.                                                      *)
(*  - user is who is signed in, from where the login page will go.         *)
(*  - ui, net, timer and server are those of the page that is mounted;     *)
(*    while none is, ui = None.  What a page leaves in flight is answered  *)
(*    to nobody.                                                           *)
(*                                                                         *)
(* Nothing of a page is left when another is mounted, so that going from   *)
(* one to another is taken as going by way of "home".  When and why a user *)
(* is signed out by the client is in TokenClient.                          *)
(***************************************************************************)
EXTENDS Naturals, Sequences

CONSTANTS
  None, MaxNet,
  User,           \* who may sign in
  Admin,          \* those with one of hasPermission's adminRoles
  PermOf,         \* [User -> permissions]
  Account, Demo, PageOf, Term, MaxTimer, License, Item, TypeOf

VARIABLES route, user, from, ui, net, timer, server

calls == <<ui, net, timer, server>>
vars  == <<route, user, from, calls>>

Users    == INSTANCE UsersPage
Licenses == INSTANCE LicensesPage
Contents == INSTANCE ContentPage
Audit    == INSTANCE AuditPage
Reports  == INSTANCE ReportPages

(* The load of an overview is three requests. *)
ASSUME BoundAssumption == MaxNet \in Nat \ {0, 1} /\ MaxTimer \in Nat

(* None is no user and no record; the demo list has ids of its own. *)
ASSUME NoneAssumption ==
  /\ None \notin User
  /\ None \notin Users!HooksType \cup {Users!Crashed} \cup Licenses!HooksType
                \cup Contents!HooksType \cup Audit!HooksType \cup Reports!HooksType

ASSUME DemoAssumption == Account \cap Demo = {}

-----------------------------------------------------------------------------
(* Who may go where. *)

(* requiredPerms of the routes. *)
Required == [dashboard |-> {"admin:access"},
             users     |-> {"user:read", "user:manage"},
             content   |-> {"content:read", "content:write"},
             licenses  |-> {"license:read", "license:manage"},
             audit     |-> {"audit:read"},
             revenue   |-> {"admin:access"},
             system    |-> {"admin:access"}]

Page == DOMAIN Required

HasPermission(u, perms) == u # None /\ (u \in Admin \/ PermOf[u] \cap perms # {})

MayVisit(u, r) == HasPermission(u, Required[r])

(* Mutant: whoever may see nothing is sent to the overview. *)
OverviewByDefault(u) ==
  CASE HasPermission(u, {"user:read", "user:manage"})       -> "users"
    [] HasPermission(u, {"content:read", "content:write"})  -> "content"
    [] HasPermission(u, {"license:read", "license:manage"}) -> "licenses"
    [] HasPermission(u, {"audit:read"})                     -> "audit"
    [] OTHER                                                -> "dashboard"

(* getDefaultRoute: the first that applies. *)
DefaultRoute(u) ==
  IF HasPermission(u, {"admin:access"}) THEN "dashboard"
  ELSE IF HasPermission(u, {"user:read", "user:manage"}) THEN "users"
  ELSE IF HasPermission(u, {"content:read", "content:write"}) THEN "content"
  ELSE IF HasPermission(u, {"license:read", "license:manage"}) THEN "licenses"
  ELSE IF HasPermission(u, {"audit:read"}) THEN "audit"
  ELSE "home"

(* navItems of the sidebar, with permissions of their own. *)
NavPerms == [dashboard |-> {"admin:access"},
             users     |-> {"user:read", "user:manage"},
             content   |-> {"content:read", "content:write"},
             licenses  |-> {"license:read", "license:manage"},
             audit     |-> {"audit:read"},
             revenue   |-> {"admin:access"},
             system    |-> {"admin:access"}]

NavItems(u) == {r \in DOMAIN NavPerms : HasPermission(u, NavPerms[r])}

-----------------------------------------------------------------------------
(* What is on the screen, with the requests its first effects send. *)
Screen == [ui |-> ui, net |-> net, timer |-> timer, server |-> server]

Blank == [ui |-> None, net |-> <<>>, timer |-> None, server |-> None]

Mounted(r) == CASE r = "users"    -> Users!Mounted
                [] r = "licenses" -> Licenses!Mounted
                [] r = "content"  -> Contents!Mounted
                [] r = "audit"    -> Audit!Mounted
                [] OTHER          -> Reports!Mounted(r)

PageNext == CASE route = "users"    -> Users!Next
              [] route = "licenses" -> Licenses!Next
              [] route = "content"  -> Contents!Next
              [] route = "audit"    -> Audit!Next
              [] OTHER              -> Reports!Next

Init == /\ route = "home" /\ user = None /\ from = "dashboard"
        /\ ui = None /\ net = <<>> /\ timer = None /\ server = None

(* u comes to r: the page is mounted if u may see it. *)
Arrive(u, r) == /\ route' = r
                /\ user' = u
                /\ from' = "dashboard"
                /\ \E s \in IF r \in Page /\ MayVisit(u, r) THEN Mounted(r) ELSE {Blank} :
                     ui' = s.ui /\ net' = s.net /\ timer' = s.timer /\ server' = s.server

OnPage == route \in Page /\ ui # None
Denied == route \in Page /\ ui = None

Work == OnPage /\ PageNext /\ UNCHANGED <<route, user, from>>

(* A link, or an address typed in. *)
Follow(r) == route = "home" /\ Arrive(user, r)

Leave == OnPage /\ ui # Users!Crashed /\ Arrive(user, "home")

(* The console is gone and the operator loads it again. *)
Reload == ui = Users!Crashed /\ Arrive(user, route)

(* ProtectedRoute: away from what one may not see, or to the login page. *)
Redirect == Denied /\ user # None /\ Arrive(user, DefaultRoute(user))

AskWho == /\ Denied /\ user = None
          /\ route' = "login" /\ from' = route
          /\ UNCHANGED <<user, calls>>

OpenLogin == route = "home" /\ Arrive(user, "login")

(* LoginPage: a login that succeeds, or someone who is signed in, goes on. *)
SignIn(u) == route = "login" /\ user \in {None, u} /\ Arrive(u, from)

(* The button of the sidebar, or a session that has expired. *)
SignOut == user # None /\ OnPage /\ ui # Users!Crashed /\ Arrive(None, route)

Next == \/ Work \/ Leave \/ Reload \/ Redirect \/ AskWho \/ OpenLogin \/ SignOut
        \/ \E r \in Page : Follow(r)
        \/ \E u \in User : SignIn(u)

Spec == Init /\ [][Next]_vars

-----------------------------------------------------------------------------
TypeOK ==
  /\ route \in Page \cup {"home", "login"}
  /\ user \in User \cup {None}
  /\ from \in Page
  /\ Len(net) <= MaxNet + 1
  /\ ~OnPage => Screen = Blank
  /\ OnPage  => CASE route = "users"    -> Users!TypeOK
                  [] route = "licenses" -> Licenses!TypeOK
                  [] route = "content"  -> Contents!TypeOK
                  [] route = "audit"    -> Audit!TypeOK
                  [] OTHER              -> Reports!TypeOK

(* Three tables say who may see what (App.tsx, AuthContext.tsx and         *)
(* Sidebar.tsx), and agree: neither a link of the sidebar nor a redirect   *)
(* leads to where one is redirected again, so that redirects never loop.   *)
(* (LoginPage goes back to the page that sent there, which the account     *)
(* that signed in may not visit: that way is not one of these.)            *)
LinksLead ==
  [][Denied' => ~Redirect /\ \A r \in NavItems(user) : ~Follow(r)]_vars

(* Whatever the order in which answers arrive and whatever was done to the *)
(* rows in between, a table shows rows that the backend gave for one page  *)
(* number and filter, or rows of the demo list, never of both (a row the   *)
(* page made up aside).  And when no listing is under way, that page       *)
(* number and filter are the ones on the screen.                           *)
(*                                                                         *)
(* Two things it does not say: the demo list, which stands in for a        *)
(* listing that failed, is the same whatever the filter; and listings that *)
(* were sent while another was under way, or by a function of an earlier   *)
(* render, may leave the answer to another question (no page numbers its   *)
(* requests).                                                              *)
TableIsAsked ==
  OnPage /\ ui # Users!Crashed =>
    CASE route = "users"    -> /\ Users!RowsFit(DOMAIN ui.users, ui.shown)
                               /\ Users!TableIsAsked(ui.page)
      [] route = "licenses" -> /\ Licenses!RowsFit(DOMAIN ui.licenses, ui.shown)
                               /\ Licenses!TableIsAsked(ui.statusFilter)
      [] route = "content"  -> /\ Contents!RowsFit(DOMAIN ui.content, ui.shown)
                               /\ Contents!TableIsAsked(ui.filter)
      [] route = "audit"    -> /\ Audit!RowsFit(ui.logs, ui.shown)
                               /\ Audit!TableIsAsked(ui.actionFilter)
      [] OTHER              -> TRUE

(* The drawer, the preview and the inspector show the details of the row   *)
(* they are about or none; but for a drawer that was opened while the      *)
(* details of another row were still on their way.                         *)
PanelIsAsked ==
  OnPage /\ route \in {"licenses", "content", "audit"} => Licenses!PanelIsAsked

(* The properties of single pages, stated in their modules. *)
OnlyClosingFormsLeaveCalls ==
  OnPage /\ route = "users" => Users!OnlyClosingFormsLeaveCalls

DeactivatedForGood ==
  [][OnPage /\ OnPage' /\ route = "users" => Users!DeactivatedStays]_vars

DocumentHiddenWithoutFocus ==
  OnPage /\ route = "content" => Contents!DocumentHiddenWithoutFocus

SimulationAnnounced ==
  OnPage /\ route \in {"dashboard", "revenue", "system"} => Reports!SimulationAnnounced

=============================================================================

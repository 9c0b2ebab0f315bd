--------------------------- MODULE ConsoleProofs ---------------------------
(***************************************************************************)
(* Theorems about Console, for any number of users, accounts, licenses,    *)
(* items and requests in flight: the page of users, then the routes, whose *)
(* inductive invariant is Inv.                                             *)
(***************************************************************************)
EXTENDS PagesProofs

-----------------------------------------------------------------------------
(* The forms of UsersPage.  What its invariants rest on: a form has one    *)
(* request under way at most, and says `loading` while it has; and one     *)
(* that neither was about to close when it was sent nor has been opened    *)
(* since is open and will stay so.                                         *)
Attached(c, form, pending) ==
  /\ form.loading /\ pending.close < MaxTimer
  /\ c.own \/ c.closing
  /\ ~c.closing => form.open /\ ~(pending.close + pending.gone > 0)

Formed(s, form, pending) ==
  /\ \A i, j \in DOMAIN s : s[i].kind \in Users!Form /\ s[j].kind = s[i].kind => i = j
  /\ \A i \in DOMAIN s :
       s[i].kind \in Users!Form => Attached(s[i], form[s[i].kind], pending[s[i].kind])

(* No request of form m is under way; two functions differ at m only.      *)
Idle(s, m) == \A i \in DOMAIN s : s[i].kind # m

OthersSame(m, f, g) == \A n \in Users!Form \ {m} : g[n] = f[n]

\* When a form gets its answer it has no request left.
LEMMA FormsReceive ==
  ASSUME NEW S, NEW s \in Seq(S), NEW i \in DOMAIN s,
         NEW form, NEW pending, Formed(s, form, pending)
  PROVE  /\ Formed(Without(s, i), form, pending)
         /\ s[i].kind \in Users!Form => Idle(Without(s, i), s[i].kind)
<1>1. \A j \in DOMAIN Without(s, i) :
        Old(i, j) \in DOMAIN s \ {i} /\ Without(s, i)[j] = s[Old(i, j)]
  BY Removed
<1>2. DOMAIN Without(s, i) \subseteq Int
  BY Removed
<1>3. \A j, k \in DOMAIN Without(s, i) : Old(i, j) = Old(i, k) => j = k
  BY <1>2 DEF Old
<1> QED BY <1>1, <1>3, Zenon DEF Formed, Idle

\* A request that is no form's does not touch the forms.
LEMMA FormsSend ==
  ASSUME NEW S, NEW s \in Seq(S), NEW c \in S,
         NEW form, NEW pending, Formed(s, form, pending),
         c.kind \notin Users!Form
  PROVE  Formed(Append(s, c), form, pending)
<1>1. \A j \in DOMAIN Append(s, c) :
        (j \in DOMAIN s /\ Append(s, c)[j] = s[j]) \/ Append(s, c)[j] = c
  OBVIOUS
<1> QED BY <1>1, Zenon DEF Formed

(* A form without requests may change. *)
LEMMA FormsChange ==
  ASSUME NEW s, NEW form, NEW pending, Formed(s, form, pending),
         NEW m, Idle(s, m),
         NEW form2, NEW pending2,
         OthersSame(m, form, form2), OthersSame(m, pending, pending2)
  PROVE  Formed(s, form2, pending2)
BY DEF Formed, Idle, OthersSame

\* What the backend does to a request the forms do not see.
LEMMA FormsServe ==
  ASSUME NEW s, NEW t, NEW form, NEW pending,
         Formed(s, form, pending), DOMAIN t = DOMAIN s,
         \A i \in DOMAIN s :
           /\ t[i].kind = s[i].kind /\ t[i].of = s[i].of
           /\ t[i].kind \in Users!Form => t[i].own = s[i].own /\ t[i].closing = s[i].closing
  PROVE  Formed(t, form, pending)
BY DEF Formed, Attached

-----------------------------------------------------------------------------
(* The inductive invariant: of the page that is mounted, what its          *)
(* properties rest on.                                                     *)
UsersInv ==
  /\ Users!TypeOK
  /\ \/ ui = Users!Crashed /\ net = <<>>
     \/ /\ ui \in Users!HooksType
        /\ Tabled(net, ui.mixed, ui.shown, ui.page)
        /\ Formed(net, ui.form, timer)

PageInv == CASE route = "users"    -> UsersInv
             [] route = "licenses" -> LicensesInv
             [] route = "content"  -> ContentInv
             [] route = "audit"    -> AuditInv
             [] OTHER              -> ReportsInv

Inv ==
  /\ route \in Page \cup {"home", "login"}
  /\ user \in User \cup {None}
  /\ from \in Page
  /\ Len(net) <= MaxNet + 1
  /\ ~OnPage => Screen = Blank
  /\ OnPage => PageInv
-----------------------------------------------------------------------------
(* UsersPage: what its actions do to its hooks. *)

TimerType == [Users!Form -> [close : 0..MaxTimer, gone : 0..MaxTimer]]

\* The page as it is until it crashes.
UsersAlive ==
  /\ ui \in Users!HooksType
  /\ net \in Seq(Users!CallType) /\ Len(net) <= MaxNet + 1
  /\ timer \in TimerType
  /\ server \in [Account -> Users!Status]
  /\ Tabled(net, ui.mixed, ui.shown, ui.page)
  /\ Formed(net, ui.form, timer)

UsersOK == UsersInv /\ Len(net) <= MaxNet + 1

\* A page that has not crashed is in order.
LEMMA AliveOK == UsersAlive => UsersOK
BY DEF UsersAlive, UsersOK, UsersInv, Users!TypeOK, TimerType

\* The converse, of a page in order.
LEMMA OKAlive == UsersOK /\ ui # Users!Crashed => UsersAlive
BY DEF UsersAlive, UsersOK, UsersInv, Users!TypeOK, TimerType

\* A page that throws is gone, and its requests and timeouts with it; any
\* other goes on.
LEMMA UsersShown ==
  ASSUME UsersAlive, NEW h, NEW asked, NEW throws, Users!Shown(h, asked, throws),
         ~throws => /\ h \in Users!HooksType
                    /\ asked \in Seq(Users!CallType) /\ Len(asked) <= MaxNet + 1
                    /\ Tabled(asked, h.mixed, h.shown, h.page)
                    /\ Formed(asked, h.form, timer)
  PROVE  UsersOK'
<1>1. CASE throws
  <2>1. /\ ui' = Users!Crashed /\ net' = <<>> /\ timer' = Users!NoTimers
        /\ server' = server
    BY <1>1 DEF Users!Shown
  <2>2. timer' \in TimerType
    BY <2>1, BoundAssumption DEF TimerType, Users!NoTimers
  <2>3. net' \in Seq(Users!CallType) /\ Len(net') <= MaxNet + 1
    BY <2>1, BoundAssumption
  <2> QED BY <2>1, <2>2, <2>3 DEF UsersAlive, UsersOK, UsersInv, Users!TypeOK, TimerType
<1>2. CASE ~throws
  <2>1. ui' = h /\ net' = asked /\ timer' = timer /\ server' = server
    BY <1>2 DEF Users!Shown
  <2> QED BY <1>2, <2>1 DEF UsersAlive, UsersOK, UsersInv, Users!TypeOK, TimerType
<1> QED BY <1>1, <1>2

\* The type of a request in flight, spelled out.
LEMMA UsersCalls ==
  ASSUME UsersAlive, NEW i \in Users!InFlight
  PROVE  /\ i \in DOMAIN net /\ net[i] \in Users!CallType
         /\ net[i].kind \in {"list"} \cup Users!Acts \cup Users!Form
         /\ net[i].kind = "list" =>
              /\ net[i].of \in Users!Numbers
              /\ net[i].rows \in Users!Tables(Account, Users!Status)
              /\ DOMAIN net[i].rows \subseteq Users!Listable(net[i].of)
              /\ net[i] \in Users!Listings(Users!Numbers, Users!Tables(Account, Users!Status))
         /\ net[i].kind \in Users!Acts => net[i].of \in Users!Id
         /\ net[i].kind \in Users!Form =>
              /\ net[i].page \in Users!Numbers
              /\ net[i] \in [kind : Users!Form, of : Users!Id \cup {None},
                             page : Users!Numbers, own : BOOLEAN, closing : BOOLEAN,
                             answer : Users!Answers]
<1>1. net \in Seq(Users!CallType) /\ i \in DOMAIN net
  BY DEF UsersAlive, Users!InFlight
<1>2. net[i] \in Users!CallType
  BY <1>1, InSequence
<1> QED BY <1>1, <1>2 DEF Users!CallType, Users!Listings, Users!Requests, Users!Acts, Users!Form

\* The type of a new listing.
LEMMA UsersListing ==
  ASSUME NEW p \in Users!Numbers
  PROVE  LET c == Users!Listing(p)
         IN  c \in Users!CallType /\ c.kind = "list" /\ c.of = p
<1>1. <<>> \in Users!Tables(Account, Users!Status)
  BY EmptyTable
<1> QED BY <1>1 DEF Users!CallType, Users!Listings, Users!Listing, Users!Answers, Users!Waiting

\* fetchUsers
LEMMA UsersFetching ==
  ASSUME NEW h \in Users!HooksType, NEW p
  PROVE  LET g == Users!Fetching(h, p)
         IN  /\ g \in Users!HooksType
             /\ p # h.page \/ SomeListing(net) => g.mixed
             /\ g.page = h.page /\ g.shown = h.shown /\ g.users = h.users
             /\ g.form = h.form
BY DEF Users!HooksType, Users!Fetching, Users!Mixes, Users!Asking, Users!InFlight, Users!Is,
       SomeListing

-----------------------------------------------------------------------------
(* UsersPage: its table. *)

\* A new fetch of the page h is on.
LEMMA UsersFetches ==
  ASSUME UsersAlive, NEW h \in Users!HooksType,
         h.form = ui.form,
         Users!Send(Users!Listing(h.page)), ui' = Users!Fetching(h, h.page),
         UNCHANGED <<timer, server>>
  PROVE  UsersOK'
<1> DEFINE c == Users!Listing(h.page)
           g == Users!Fetching(h, h.page)
<1>1. h.page \in Users!Numbers
  BY DEF Users!HooksType
<1>2. c \in Users!CallType /\ c.kind = "list" /\ c.of = h.page
  BY <1>1, UsersListing
<1>3. /\ g \in Users!HooksType /\ (SomeListing(net) => g.mixed)
      /\ g.page = h.page /\ g.shown = h.shown
      /\ g.form = ui.form
  BY UsersFetching
<1>4. net' = Append(net, c) /\ Len(net) < MaxNet /\ ui' = g
  BY DEF Users!Send
<1> HIDE DEF c, g
<1>5. /\ net \in Seq(Users!CallType)
      /\ Formed(net, ui.form, timer)
  BY DEF UsersAlive
<1>6. Tabled(Append(net, c), g.mixed, g.shown, g.page)
  BY <1>2, <1>3, <1>5, TableAsks
<1>7. Formed(Append(net, c), ui.form, timer)
  BY <1>2, <1>5, FormsSend DEF Users!Form
<1>8. net' \in Seq(Users!CallType) /\ Len(net') <= MaxNet + 1
  BY <1>2, <1>4, <1>5, BoundAssumption
<1> QED BY <1>3, <1>4, <1>6, <1>7, <1>8
        DEF UsersAlive, UsersOK, UsersInv, Users!TypeOK, TimerType

\* The pager.
LEMMA UsersTurn ==
  ASSUME UsersAlive, NEW p \in Users!Pages, Users!Turn(p)
  PROVE  UsersOK'
<1> DEFINE h == [ui EXCEPT !.page = p]
<1>1. /\ h \in Users!HooksType /\ h.page = p
      /\ h.form = ui.form
  BY DEF UsersAlive, Users!HooksType, Users!Numbers
<1>2. /\ Users!Send(Users!Listing(p)) /\ ui' = Users!Fetching(h, p)
      /\ UNCHANGED <<timer, server>>
  BY DEF Users!Turn
<1> HIDE DEF h
<1> QED BY <1>1, <1>2, UsersFetches

\* Rows arrive, of the backend or of the demo list.
LEMMA UsersTable ==
  ASSUME UsersAlive, NEW i \in Users!InFlight, net[i].kind = "list",
         NEW rows \in Users!Tables(Users!Id, Users!Status),
         NEW of \in {None, net[i].of}, Users!RowsFit(DOMAIN rows, of),
         Users!Table(i, rows, of)
  PROVE  UsersOK'
<1> DEFINE h == [ui EXCEPT !.users = rows, !.shown = of, !.loading = FALSE]
<1>1. net[i].of \in Users!Numbers /\ i \in DOMAIN net
  BY UsersCalls
<1>2. /\ h \in Users!HooksType
      /\ h.page = ui.page /\ h.mixed = ui.mixed /\ h.shown = of
      /\ h.form = ui.form
  BY <1>1 DEF UsersAlive, Users!HooksType
<1>3. Users!Shown(h, Without(net, i), Users!RoleMissing(h))
  BY DEF Users!Table, Users!Render, Users!RemoveAt, Without
<1> HIDE DEF h
<1>4. /\ net \in Seq(Users!CallType) /\ Len(net) <= MaxNet + 1
      /\ Tabled(net, ui.mixed, ui.shown, ui.page)
      /\ Formed(net, ui.form, timer)
  BY DEF UsersAlive
<1>5. i \in 1..Len(net) /\ MaxNet \in Nat
  BY <1>1, <1>4, BoundAssumption
<1>6. Without(net, i) \in Seq(Users!CallType) /\ Len(Without(net, i)) = Len(net) - 1
  BY <1>4, <1>5, Removed
<1>7. Len(Without(net, i)) <= MaxNet + 1
  BY <1>4, <1>5, <1>6
<1>8. Tabled(Without(net, i), ui.mixed, of, ui.page)
  BY <1>1, <1>4, TableReceives
<1>9. Formed(Without(net, i), ui.form, timer)
  BY <1>1, <1>4, FormsReceive
<1>10. /\ Tabled(Without(net, i), h.mixed, h.shown, h.page)
       /\ Formed(Without(net, i), h.form, timer)
  BY <1>2, <1>8, <1>9
<1> QED BY <1>2, <1>3, <1>6, <1>7, <1>10, UsersShown

\* A listing of accounts is answered or fails.
LEMMA UsersListed ==
  ASSUME UsersAlive, NEW i \in Users!InFlight, Users!Listed(i) \/ Users!ListFails(i)
  PROVE  UsersOK'
<1>1. net[i].kind = "list"
  BY DEF Users!Listed, Users!ListFails, Users!Is
<1>2. CASE Users!Listed(i)
  <2>1. net[i].rows \in Users!Tables(Users!Id, Users!Status)
    BY <1>1, UsersCalls, TableType DEF Users!Id
  <2>2. Users!RowsFit(DOMAIN net[i].rows, net[i].of)
    BY <1>1, UsersCalls DEF Users!RowsFit
  <2>3. Users!Table(i, net[i].rows, net[i].of)
    BY <1>2 DEF Users!Listed
  <2> QED BY <1>1, <2>1, <2>2, <2>3, UsersTable
<1>3. CASE Users!ListFails(i)
  <2> DEFINE rows == [d \in Demo |-> "ACTIVE"]
  <2>1. rows \in Users!Tables(Users!Id, Users!Status)
    BY TableType DEF Users!Id, Users!Status
  <2>2. Users!RowsFit(DOMAIN rows, None)
    BY DEF Users!RowsFit
  <2>3. Users!Table(i, rows, None)
    BY <1>3 DEF Users!ListFails
  <2> HIDE DEF rows
  <2> QED BY <1>1, <2>1, <2>2, <2>3, UsersTable
<1> QED BY <1>2, <1>3

\* The search of accounts.
LEMMA UsersSearch ==
  ASSUME UsersAlive, NEW term \in Term, Users!Search(term)
  PROVE  UsersOK'
<1> DEFINE h == [ui EXCEPT !.search = term]
<1>1. /\ h \in Users!HooksType
      /\ h.page = ui.page /\ h.mixed = ui.mixed /\ h.shown = ui.shown
      /\ h.form = ui.form
  BY DEF UsersAlive, Users!HooksType
<1>2. Users!Shown(h, net, Users!RoleMissing(h))
  BY DEF Users!Search, Users!Render
<1> HIDE DEF h
<1> QED BY <1>1, <1>2, UsersShown DEF UsersAlive

\* Toggle and Deactivate.
LEMMA UsersAsk ==
  ASSUME UsersAlive, NEW r \in Users!Id, NEW act \in Users!Acts, Users!Ask(r, act)
  PROVE  UsersOK'
<1> DEFINE c == Users!Call(act, r)
<1>1. c \in Users!CallType /\ c.kind \notin {"list"} \cup Users!Form
  BY DEF Users!CallType, Users!Requests, Users!Call, Users!Answers, Users!Waiting,
         Users!Acts, Users!Form
<1>2. net' = Append(net, c) /\ Len(net) < MaxNet /\ timer' = timer /\ server' = server
  BY DEF Users!Ask, Users!Send
<1> HIDE DEF c
<1>3. /\ net \in Seq(Users!CallType)
      /\ Tabled(net, ui.mixed, ui.shown, ui.page)
      /\ Formed(net, ui.form, timer)
  BY DEF UsersAlive
<1>4. /\ ui' \in Users!HooksType
      /\ ui'.mixed = ui.mixed /\ ui'.shown = ui.shown /\ ui'.page = ui.page
      /\ ui'.form = ui.form
  BY DEF Users!Ask, UsersAlive, Users!HooksType
<1>5. Tabled(Append(net, c), ui.mixed, ui.shown, ui.page)
  BY <1>1, <1>3, TableSends
<1>6. Formed(Append(net, c), ui.form, timer)
  BY <1>1, <1>3, FormsSend
<1>7. net' \in Seq(Users!CallType) /\ Len(net') <= MaxNet + 1
  BY <1>1, <1>2, <1>3, BoundAssumption
<1>8. UsersAlive'
  BY <1>2, <1>4, <1>5, <1>6, <1>7 DEF UsersAlive
<1> QED BY <1>8 DEF UsersAlive, UsersOK, UsersInv, Users!TypeOK, TimerType

\* Acted and ActFails.
LEMMA UsersActed ==
  ASSUME UsersAlive, NEW i \in Users!InFlight, Users!Acted(i) \/ Users!ActFails(i)
  PROVE  UsersOK'
<1> DEFINE rest == Without(net, i)
<1>1. /\ i \in DOMAIN net /\ net[i].kind \in Users!Acts
      /\ net' = rest /\ timer' = timer /\ server' = server
  BY UsersCalls DEF Users!Acted, Users!ActFails, Users!Is, Users!Receive, Users!RemoveAt, Without
<1> HIDE DEF rest
<1>2. ui.users \in Users!Tables(Users!Id, Users!Status) /\ ui \in Users!HooksType
  BY DEF UsersAlive, Users!HooksType
<1>3. \E rows \in Users!Tables(Users!Id, Users!Status) :
        /\ DOMAIN rows = DOMAIN ui.users
        /\ ui' = [ui EXCEPT !.users = rows, !.actionLoadingId = None]
  <2>1. CASE Users!ActFails(i)
    BY <1>2, <2>1 DEF Users!ActFails, Users!HooksType
  <2>2. CASE Users!Acted(i)
    <3> DEFINE rows == [r \in DOMAIN ui.users |->
                          IF r = net[i].of THEN Users!After(net[i].kind) ELSE ui.users[r]]
    <3>1. Users!After(net[i].kind) \in Users!Status
      BY <1>1 DEF Users!After, Users!Acts, Users!Status
    <3>2. /\ DOMAIN ui.users \subseteq Users!Id
          /\ ui.users \in [DOMAIN ui.users -> Users!Status]
      BY <1>2, TableType
    <3>3. DOMAIN rows \subseteq Users!Id /\ rows \in [DOMAIN rows -> Users!Status]
      BY <3>1, <3>2
    <3>4. /\ ui' = [ui EXCEPT !.users = rows, !.actionLoadingId = None]
          /\ DOMAIN rows = DOMAIN ui.users
      BY <2>2 DEF Users!Acted
    <3> HIDE DEF rows
    <3> QED BY <3>3, <3>4, TableType
  <2> QED BY <2>1, <2>2
<1>4. /\ ui' \in Users!HooksType
      /\ ui'.mixed = ui.mixed /\ ui'.shown = ui.shown /\ ui'.page = ui.page
      /\ ui'.form = ui.form
  BY <1>2, <1>3 DEF Users!HooksType
<1>5. /\ net \in Seq(Users!CallType) /\ Len(net) <= MaxNet + 1
      /\ Tabled(net, ui.mixed, ui.shown, ui.page)
      /\ Formed(net, ui.form, timer)
  BY DEF UsersAlive
<1>6. i \in 1..Len(net) /\ MaxNet \in Nat
  BY <1>1, <1>5, BoundAssumption
<1>7. rest \in Seq(Users!CallType) /\ Len(rest) = Len(net) - 1
  BY <1>5, <1>6, Removed DEF rest
<1>8. net' \in Seq(Users!CallType) /\ Len(net') <= MaxNet + 1
  BY <1>1, <1>5, <1>6, <1>7
<1>9. net[i].kind # "list"
  BY <1>1 DEF Users!Acts
<1>10. Tabled(rest, ui.mixed, ui.shown, ui.page)
  BY <1>1, <1>5, <1>9, TableReceives DEF rest
<1>11. Formed(rest, ui.form, timer)
  BY <1>1, <1>5, FormsReceive DEF rest
<1>12. UsersAlive'
  BY <1>1, <1>4, <1>8, <1>10, <1>11 DEF UsersAlive
<1> QED BY <1>12 DEF UsersAlive, UsersOK, UsersInv, Users!TypeOK, TimerType

-----------------------------------------------------------------------------
(* UsersPage: its forms. *)

\* Requests of form m may no longer be its own.
Disowned(s, t, m) ==
  /\ DOMAIN t = DOMAIN s
  /\ \A i \in DOMAIN s : /\ t[i].kind = s[i].kind /\ t[i].of = s[i].of
                         /\ s[i].kind \in Users!Form => t[i].closing = s[i].closing
                         /\ s[i].kind # m => t[i] = s[i]

\* An opening form has no request but of those that were about to close.
LEMMA FormsOpen ==
  ASSUME NEW s, NEW form, NEW pending, Formed(s, form, pending),
         NEW m \in Users!Form, ~form[m].open,
         NEW t, Disowned(s, t, m),
         NEW form2, OthersSame(m, form, form2),
         form2[m].loading = form[m].loading
  PROVE  Formed(t, form2, pending)
<1>1. ASSUME NEW i \in DOMAIN t, t[i].kind \in Users!Form
      PROVE  Attached(t[i], form2[t[i].kind], pending[t[i].kind])
  <2>1. /\ Attached(s[i], form[s[i].kind], pending[s[i].kind])
        /\ t[i].kind = s[i].kind /\ t[i].of = s[i].of
        /\ t[i].closing = s[i].closing
    BY <1>1 DEF Formed, Disowned
  <2>2. CASE s[i].kind # m
    BY <1>1, <2>1, <2>2 DEF Disowned, OthersSame
  <2>3. CASE s[i].kind = m
    BY <1>1, <2>1, <2>3 DEF Attached
  <2> QED BY <2>2, <2>3
<1>2. \A i, j \in DOMAIN t : t[i].kind \in Users!Form /\ t[j].kind = t[i].kind => i = j
  BY DEF Formed, Disowned
<1> QED BY <1>1, <1>2, Zenon DEF Formed

\* What `Disown` is to the requests in flight.
LEMMA UsersDisown ==
  ASSUME UsersAlive, NEW m \in Users!Form
  PROVE  LET t == Users!Disown(m)
         IN  t \in Seq(Users!CallType) /\ Len(t) = Len(net) /\ Disowned(net, t, m)
<1> DEFINE t == Users!Disown(m)
<1>1. net \in Seq(Users!CallType) /\ DOMAIN net = 1..Len(net) /\ Len(net) \in Nat
  BY DEF UsersAlive
<1>2. t = [i \in DOMAIN net |-> IF net[i].kind = m THEN [net[i] EXCEPT !.own = FALSE]
                                                   ELSE net[i]]
  BY DEF Users!Disown, Users!Is, Users!InFlight
<1>3. ASSUME NEW i \in DOMAIN net
      PROVE  /\ t[i] \in Users!CallType
             /\ t[i].kind = net[i].kind /\ t[i].of = net[i].of
             /\ net[i].kind \in Users!Form => t[i].closing = net[i].closing
             /\ net[i].kind # m => t[i] = net[i]
  <2>1. CASE net[i].kind # m
    <3>1. t[i] = net[i]
      BY <1>2, <2>1
    <3> QED BY <2>1, <3>1, UsersCalls DEF Users!InFlight
  <2>2. CASE net[i].kind = m
    <3>1. t[i] = [net[i] EXCEPT !.own = FALSE]
      BY <1>2, <2>2
    <3>2. net[i] \in [kind : Users!Form, of : Users!Id \cup {None},
                      page : Users!Numbers, own : BOOLEAN, closing : BOOLEAN,
                      answer : Users!Answers]
      BY <2>2, UsersCalls DEF Users!InFlight
    <3> HIDE DEF t
    <3> QED BY <2>2, <3>1, <3>2 DEF Users!CallType
  <2> QED BY <2>1, <2>2
<1>4. DOMAIN t = 1..Len(net)
  BY <1>1, <1>2
<1>5. t = [i \in 1..Len(net) |-> t[i]]
  BY <1>1, <1>2
<1> HIDE DEF t
<1>6. t \in Seq(Users!CallType) /\ Len(t) = Len(net)
  BY <1>1, <1>3, <1>4, <1>5
<1> QED BY <1>1, <1>3, <1>4, <1>6 DEF t, Disowned

\* The page opens form m, or crashes over it.
LEMMA UsersOpen ==
  ASSUME UsersAlive, NEW m \in Users!Form, ~ui.form[m].open,
         NEW h \in Users!HooksType,
         h.page = ui.page, h.mixed = ui.mixed, h.shown = ui.shown,
         OthersSame(m, ui.form, h.form), h.form[m].loading = ui.form[m].loading,
         NEW throws, Users!Shown(h, Users!Disown(m), throws)
  PROVE  UsersOK'
<1> DEFINE t == Users!Disown(m)
<1>1. t \in Seq(Users!CallType) /\ Len(t) = Len(net) /\ Disowned(net, t, m)
  BY UsersDisown
<1>2. Users!Shown(h, t, throws)
  OBVIOUS
<1> HIDE DEF t
<1>3. /\ net \in Seq(Users!CallType) /\ Len(net) <= MaxNet + 1
      /\ Tabled(net, ui.mixed, ui.shown, ui.page)
      /\ Formed(net, ui.form, timer)
      /\ ui.form \in [Users!Form -> [open : BOOLEAN, loading : BOOLEAN]]
  BY DEF UsersAlive, Users!HooksType
<1>4. Tabled(t, h.mixed, h.shown, h.page)
  BY <1>1, <1>3, TableServes DEF Disowned
<1>5. ASSUME ~throws PROVE Formed(t, h.form, timer)
  <2>1. Formed(net, ui.form, timer) /\ Disowned(net, t, m)
    BY <1>1, <1>3
  <2> QED BY <2>1, FormsOpen
<1>6. Len(t) <= MaxNet + 1
  BY <1>1, <1>3
<1> QED BY <1>1, <1>2, <1>4, <1>5, <1>6, UsersShown

\* What opening a form, with b = TRUE, is to the hooks.
Opened(h, m, b) == [h EXCEPT !.form[m].open = b]

\* A form that is opened changes nothing else.
LEMMA FormOpened ==
  ASSUME NEW h \in Users!HooksType, NEW m \in Users!Form, NEW b \in BOOLEAN,
         NEW e, e = Opened(h, m, b)
  PROVE  /\ e \in Users!HooksType
         /\ e.mixed = h.mixed /\ e.page = h.page /\ e.shown = h.shown
         /\ e.form[m].loading = h.form[m].loading
         /\ OthersSame(m, h.form, e.form)
<1>1. h.form \in [Users!Form -> [open : BOOLEAN, loading : BOOLEAN]]
  BY DEF Users!HooksType
<1>2. e.form = [h.form EXCEPT ![m].open = b] /\ e = [h EXCEPT !.form = e.form]
  BY DEF Users!HooksType, Opened
<1>3. e.form[m] = [h.form[m] EXCEPT !.open = b]
  BY <1>1, <1>2
<1>4. h.form[m] \in [open : BOOLEAN, loading : BOOLEAN]
  BY <1>1
<1>5. e.form[m].loading = h.form[m].loading
  BY <1>3, <1>4
<1>6. OthersSame(m, h.form, e.form)
  BY <1>1, <1>2 DEF OthersSame
<1>7. e \in Users!HooksType
  BY DEF Users!HooksType, Opened
<1>8. /\ e.mixed = h.mixed /\ e.page = h.page /\ e.shown = h.shown
  BY DEF Users!HooksType, Opened
<1> QED BY <1>5, <1>6, <1>7, <1>8

\* The two buttons that open a form.
LEMMA UsersOpens ==
  ASSUME UsersAlive, Users!OpenCreate \/ \E r \in Users!Id : Users!OpenEdit(r)
  PROVE  UsersOK'
<1>1. /\ ui \in Users!HooksType
      /\ "create" \in Users!Form /\ "edit" \in Users!Form
  BY DEF UsersAlive, Users!Form
<1> DEFINE b == TRUE
           e(m) == Opened(ui, m, b)
<1>0. b \in BOOLEAN
  OBVIOUS
<1>2. CASE Users!OpenCreate
  <2> DEFINE h == e("create")
             throws == FALSE
  <2>1. ~ui.form["create"].open
    BY <1>1, <1>2 DEF Users!OpenCreate, Users!Uncovered
  <2>2. Users!Shown(h, Users!Disown("create"), throws)
    BY <1>2 DEF Users!OpenCreate, Users!Shown, Opened
  <2> HIDE DEF b
  <2>3. h = Opened(ui, "create", b)
    OBVIOUS
  <2> HIDE DEF e, h, throws
  <2> QED BY <1>0, <1>1, <2>1, <2>2, <2>3, FormOpened, UsersOpen
<1>3. ASSUME NEW r \in Users!Id, Users!OpenEdit(r) PROVE UsersOK'
  <2> DEFINE f == e("edit")
             h == [f EXCEPT !.editingUser = r]
             throws == r \in Account
  <2>1. ~ui.form["edit"].open
    BY <1>1, <1>3 DEF Users!OpenEdit, Users!CanEdit, Users!Rows, Users!Uncovered
  <2>2. Users!Shown(h, Users!Disown("edit"), throws)
    <3>1. Users!EditOpen(r) = h
      BY DEF Users!EditOpen, Opened
    <3> HIDE DEF h
    <3> QED BY <1>3, <3>1 DEF Users!OpenEdit
  <2> HIDE DEF b
  <2>3. f = Opened(ui, "edit", b)
    OBVIOUS
  <2> HIDE DEF e, f
  <2>4. /\ f \in Users!HooksType
        /\ f.mixed = ui.mixed /\ f.page = ui.page /\ f.shown = ui.shown
        /\ f.form["edit"].loading = ui.form["edit"].loading
        /\ OthersSame("edit", ui.form, f.form)
    BY <1>0, <1>1, <2>3, FormOpened
  <2>5. /\ h \in Users!HooksType
        /\ h.page = f.page /\ h.mixed = f.mixed /\ h.shown = f.shown
        /\ h.form = f.form
    BY <2>4 DEF Users!HooksType
  <2> HIDE DEF h, throws
  <2> QED BY <1>1, <2>1, <2>2, <2>4, <2>5, UsersOpen
<1> QED BY <1>2, <1>3

\* A form that can be used has no request.
LEMMA FormsIdle ==
  ASSUME NEW s, NEW form, NEW pending, Formed(s, form, pending),
         NEW m \in Users!Form, ~form[m].loading
  PROVE  Idle(s, m)
BY DEF Formed, Attached, Idle

\* A form is submitted.
LEMMA FormsSubmit ==
  ASSUME NEW S, NEW s \in Seq(S), NEW form, NEW pending,
         Formed(s, form, pending),
         NEW m \in Users!Form, Idle(s, m),
         form[m].open, pending[m].close < MaxTimer,
         NEW c \in S, c.kind = m, c.own, c.closing = (pending[m].close + pending[m].gone > 0),
         NEW form2, OthersSame(m, form, form2),
         form2[m].loading, form2[m].open
  PROVE  Formed(Append(s, c), form2, pending)
<1> DEFINE t == Append(s, c)
<1>1. /\ DOMAIN t = 1..Len(s) + 1 /\ Len(s) \in Nat /\ t[Len(s) + 1] = c
      /\ \A i \in 1..Len(s) : i \in DOMAIN s /\ t[i] = s[i]
  OBVIOUS
<1> HIDE DEF t
<1>2. ASSUME NEW i \in DOMAIN t, t[i].kind \in Users!Form
      PROVE  Attached(t[i], form2[t[i].kind], pending[t[i].kind])
  <2>1. CASE i \in 1..Len(s)
    BY <1>1, <1>2, <2>1 DEF Formed, OthersSame, Idle
  <2>2. CASE i = Len(s) + 1
    BY <1>1, <2>2 DEF Attached
  <2> QED BY <1>1, <2>1, <2>2
<1>3. ASSUME NEW i \in DOMAIN t, NEW j \in DOMAIN t,
             t[i].kind \in Users!Form, t[j].kind = t[i].kind
      PROVE  i = j
  <2>1. CASE i \in 1..Len(s) /\ j \in 1..Len(s)
    BY <1>1, <1>3, <2>1 DEF Formed
  <2>2. CASE i = Len(s) + 1 \/ j = Len(s) + 1
    BY <1>1, <1>3, <2>2 DEF Idle
  <2> QED BY <1>1, <2>1, <2>2
<1>4. Formed(t, form2, pending)
  BY <1>2, <1>3, Zenon DEF Formed
<1> QED BY <1>4 DEF t

\* The timeouts of a form that is closing.
LEMMA FormsClosing ==
  ASSUME NEW s, NEW form, NEW pending, Formed(s, form, pending),
         NEW m \in Users!Form, pending[m].close + pending[m].gone > 0,
         NEW form2, NEW pending2,
         OthersSame(m, form, form2), OthersSame(m, pending, pending2),
         form2[m].loading = form[m].loading,
         pending[m].close < MaxTimer => pending2[m].close < MaxTimer
  PROVE  Formed(s, form2, pending2)
<1>1. ASSUME NEW i \in DOMAIN s, s[i].kind \in Users!Form
      PROVE  Attached(s[i], form2[s[i].kind], pending2[s[i].kind])
  <2>1. Attached(s[i], form[s[i].kind], pending[s[i].kind])
    BY <1>1 DEF Formed
  <2>2. CASE s[i].kind # m
    BY <1>1, <2>1, <2>2 DEF OthersSame
  <2>3. CASE s[i].kind = m
    BY <2>1, <2>3 DEF Attached
  <2> QED BY <2>2, <2>3
<1> QED BY <1>1, Zenon DEF Formed

\* What setting a form's `loading` is to the hooks.
Says(h, m, b) == [h EXCEPT !.form[m].loading = b]

\* A form that says it loads or does not changes nothing else.
LEMMA FormSays ==
  ASSUME NEW h \in Users!HooksType, NEW m \in Users!Form, NEW b \in BOOLEAN,
         NEW e, e = Says(h, m, b)
  PROVE  /\ e \in Users!HooksType
         /\ e.mixed = h.mixed /\ e.page = h.page /\ e.shown = h.shown
         /\ e.form[m].loading = b /\ e.form[m].open = h.form[m].open
         /\ OthersSame(m, h.form, e.form)
<1>1. h.form \in [Users!Form -> [open : BOOLEAN, loading : BOOLEAN]]
  BY DEF Users!HooksType
<1>2. e.form = [h.form EXCEPT ![m].loading = b] /\ e = [h EXCEPT !.form = e.form]
  BY DEF Users!HooksType, Says
<1>3. e.form[m] = [h.form[m] EXCEPT !.loading = b]
  BY <1>1, <1>2
<1>4. h.form[m] \in [open : BOOLEAN, loading : BOOLEAN]
  BY <1>1
<1>5. e.form[m].loading = b /\ e.form[m].open = h.form[m].open
  BY <1>3, <1>4
<1>6. OthersSame(m, h.form, e.form)
  BY <1>1, <1>2 DEF OthersSame
<1>7. e \in Users!HooksType
  BY DEF Users!HooksType, Says
<1>8. /\ e.mixed = h.mixed /\ e.page = h.page /\ e.shown = h.shown
  BY DEF Users!HooksType, Says
<1> QED BY <1>5, <1>6, <1>7, <1>8

\* What the end of a form is to the hooks.
Gone(h, m, x) == [h EXCEPT !.form[m].open = FALSE, !.editingUser = x]

\* A form that is gone changes nothing else.
LEMMA FormGone ==
  ASSUME NEW h \in Users!HooksType, NEW m \in Users!Form, NEW x \in Users!Id \cup {None},
         NEW e, e = Gone(h, m, x)
  PROVE  /\ e \in Users!HooksType
         /\ e.mixed = h.mixed /\ e.page = h.page /\ e.shown = h.shown
         /\ ~e.form[m].open /\ e.form[m].loading = h.form[m].loading
         /\ OthersSame(m, h.form, e.form)
<1>1. h.form \in [Users!Form -> [open : BOOLEAN, loading : BOOLEAN]]
  BY DEF Users!HooksType
<1>2. e.form = [h.form EXCEPT ![m].open = FALSE]
  BY DEF Users!HooksType, Gone
<1>3. e.form[m] = [h.form[m] EXCEPT !.open = FALSE]
  BY <1>1, <1>2
<1>4. h.form[m] \in [open : BOOLEAN, loading : BOOLEAN]
  BY <1>1
<1>5. ~e.form[m].open /\ e.form[m].loading = h.form[m].loading
  BY <1>3, <1>4
<1>6. OthersSame(m, h.form, e.form)
  BY <1>1, <1>2 DEF OthersSame
<1>7. e \in Users!HooksType
  BY DEF Users!HooksType, Gone
<1>8. /\ e.mixed = h.mixed /\ e.page = h.page /\ e.shown = h.shown
  BY DEF Users!HooksType, Gone
<1> QED BY <1>5, <1>6, <1>7, <1>8

\* What the actions do to the timeouts of form m.
LEMMA TimerSet ==
  ASSUME NEW t \in TimerType, NEW m \in Users!Form, NEW u,
         \/ t[m].gone < MaxTimer /\ u = [t EXCEPT ![m].gone = @ + 1]
         \/ t[m].close < MaxTimer /\ u = [t EXCEPT ![m].close = @ + 1]
         \/ t[m].gone > 0 /\ u = [t EXCEPT ![m].gone = @ - 1]
         \/ /\ t[m].close > 0 /\ t[m].gone < MaxTimer
            /\ u = [t EXCEPT ![m].close = @ - 1, ![m].gone = @ + 1]
  PROVE  /\ u \in TimerType
         /\ OthersSame(m, t, u)
         /\ t[m].close \in Nat /\ t[m].gone \in Nat
<1>1. /\ t[m] \in [close : 0..MaxTimer, gone : 0..MaxTimer] /\ MaxTimer \in Nat
      /\ t \in [Users!Form -> [close : 0..MaxTimer, gone : 0..MaxTimer]]
  BY BoundAssumption DEF TimerType
<1>2. ASSUME NEW r \in [close : 0..MaxTimer, gone : 0..MaxTimer], u = [t EXCEPT ![m] = r]
      PROVE  u \in TimerType /\ u[m] = r /\ \A n \in Users!Form \ {m} : u[n] = t[n]
  BY <1>1, <1>2 DEF TimerType
<1>3. CASE t[m].gone < MaxTimer /\ u = [t EXCEPT ![m].gone = @ + 1]
  <2> DEFINE r == [t[m] EXCEPT !.gone = @ + 1]
  <2>1. r \in [close : 0..MaxTimer, gone : 0..MaxTimer]
    BY <1>1, <1>3
  <2>2. u = [t EXCEPT ![m] = r]
    BY <1>3
  <2> HIDE DEF r
  <2>3. u \in TimerType /\ u[m] = r /\ \A n \in Users!Form \ {m} : u[n] = t[n]
    BY <1>2, <2>1, <2>2, Zenon
  <2> QED BY <1>1, <2>3 DEF OthersSame
<1>4. CASE t[m].close < MaxTimer /\ u = [t EXCEPT ![m].close = @ + 1]
  <2> DEFINE r == [t[m] EXCEPT !.close = @ + 1]
  <2>1. r \in [close : 0..MaxTimer, gone : 0..MaxTimer]
    BY <1>1, <1>4
  <2>2. u = [t EXCEPT ![m] = r]
    BY <1>4
  <2> HIDE DEF r
  <2>3. u \in TimerType /\ u[m] = r /\ \A n \in Users!Form \ {m} : u[n] = t[n]
    BY <1>2, <2>1, <2>2, Zenon
  <2> QED BY <1>1, <2>3 DEF OthersSame
<1>5. CASE t[m].gone > 0 /\ u = [t EXCEPT ![m].gone = @ - 1]
  <2> DEFINE r == [t[m] EXCEPT !.gone = @ - 1]
  <2>1. r \in [close : 0..MaxTimer, gone : 0..MaxTimer]
    BY <1>1, <1>5
  <2>2. u = [t EXCEPT ![m] = r]
    BY <1>5
  <2> HIDE DEF r
  <2>3. u \in TimerType /\ u[m] = r /\ \A n \in Users!Form \ {m} : u[n] = t[n]
    BY <1>2, <2>1, <2>2, Zenon
  <2> QED BY <1>1, <2>3 DEF OthersSame
<1>6. CASE /\ t[m].close > 0 /\ t[m].gone < MaxTimer
           /\ u = [t EXCEPT ![m].close = @ - 1, ![m].gone = @ + 1]
  <2> DEFINE r == [t[m] EXCEPT !.close = @ - 1, !.gone = @ + 1]
  <2>1. r \in [close : 0..MaxTimer, gone : 0..MaxTimer]
    BY <1>1, <1>6
  <2>2. u = [t EXCEPT ![m] = r]
    BY <1>1, <1>6
  <2> HIDE DEF r
  <2>3. u \in TimerType /\ u[m] = r /\ \A n \in Users!Form \ {m} : u[n] = t[n]
    BY <1>2, <2>1, <2>2, Zenon
  <2> QED BY <1>1, <2>3 DEF OthersSame
<1> QED BY <1>3, <1>4, <1>5, <1>6

\* Close, FireClose and FireGone.
LEMMA UsersClose ==
  ASSUME UsersAlive, NEW m \in Users!Form,
         Users!Close(m) \/ Users!FireClose(m) \/ Users!FireGone(m)
  PROVE  UsersOK'
<1>1. /\ ui \in Users!HooksType /\ timer \in TimerType
      /\ ui.editingUser \in Users!Id \cup {None}
      /\ Formed(net, ui.form, timer)
  BY DEF UsersAlive, Users!HooksType
<1>2. net' = net /\ server' = server
  BY DEF Users!Close, Users!FadeOut, Users!FireClose, Users!FireGone
<1>3. /\ timer' \in TimerType
      /\ OthersSame(m, timer, timer')
      /\ timer[m].close \in Nat /\ timer[m].gone \in Nat
  BY <1>1, TimerSet DEF Users!Close, Users!FadeOut, Users!FireClose, Users!FireGone
<1>4. CASE Users!Close(m)
  <2>1. ui' = ui /\ ~ui.form[m].loading
    BY <1>4 DEF Users!Close, Users!FadeOut, Users!CanUse
  <2>2. Idle(net, m)
    BY <1>1, <2>1, FormsIdle
  <2>3. OthersSame(m, ui.form, ui.form)
    BY DEF OthersSame
  <2>4. Formed(net, ui.form, timer')
    BY <1>1, <1>3, <2>2, <2>3, FormsChange
  <2> QED BY <1>2, <1>3, <2>1, <2>4 DEF UsersAlive, UsersOK, UsersInv, Users!TypeOK, TimerType
<1>5. CASE Users!FireClose(m)
  <2>1. ui' = ui /\ timer[m].close > 0
    BY <1>5 DEF Users!FireClose
  <2>2. timer[m].close < MaxTimer => timer'[m].close < MaxTimer
    <3> DEFINE r == [timer[m] EXCEPT !.close = @ - 1, !.gone = @ + 1]
    <3>1. timer[m] \in [close : 0..MaxTimer, gone : 0..MaxTimer]
      BY <1>1 DEF TimerType
    <3>2. r.close = timer[m].close - 1
      BY <3>1
    <3>3. timer' = [timer EXCEPT ![m] = r]
      BY <1>1, <1>5 DEF Users!FireClose, TimerType
    <3> HIDE DEF r
    <3>4. timer'[m] = r
      BY <1>1, <3>3 DEF TimerType
    <3> QED BY <1>3, <3>2, <3>4, BoundAssumption
  <2>3. timer[m].close + timer[m].gone > 0
    BY <1>3, <2>1
  <2>4. OthersSame(m, ui.form, ui.form)
    BY DEF OthersSame
  <2>5. Formed(net, ui.form, timer')
    BY <1>1, <1>3, <2>2, <2>3, <2>4, FormsClosing
  <2> QED BY <1>2, <1>3, <2>1, <2>5 DEF UsersAlive, UsersOK, UsersInv, Users!TypeOK, TimerType
<1>6. CASE Users!FireGone(m)
  <2> DEFINE x == IF m = "edit" THEN None ELSE ui.editingUser
  <2>1. timer[m].gone > 0
    BY <1>6 DEF Users!FireGone
  <2>2. ui' = Gone(ui, m, x)
    BY <1>1, <1>6 DEF Users!FireGone, Users!HooksType, Gone
  <2>3. x \in Users!Id \cup {None}
    BY <1>1
  <2> HIDE DEF x
  <2>4. /\ ui' \in Users!HooksType
        /\ ui'.mixed = ui.mixed /\ ui'.page = ui.page /\ ui'.shown = ui.shown
        /\ ~ui'.form[m].open /\ ui'.form[m].loading = ui.form[m].loading
        /\ OthersSame(m, ui.form, ui'.form)
    BY <1>1, <2>2, <2>3, FormGone
  <2>5. timer[m].close < MaxTimer => timer'[m].close < MaxTimer
    <3> DEFINE r == [timer[m] EXCEPT !.gone = @ - 1]
    <3>1. timer[m] \in [close : 0..MaxTimer, gone : 0..MaxTimer]
      BY <1>1 DEF TimerType
    <3>2. r.close = timer[m].close
      BY <3>1
    <3>3. timer' = [timer EXCEPT ![m] = r]
      BY <1>6 DEF Users!FireGone
    <3> HIDE DEF r
    <3>4. timer'[m] = r
      BY <1>1, <3>3 DEF TimerType
    <3> QED BY <3>2, <3>4
  <2>6. timer[m].close + timer[m].gone > 0
    BY <1>3, <2>1
  <2>7. Formed(net, ui'.form, timer')
    BY <1>1, <1>3, <2>4, <2>5, <2>6, FormsClosing
  <2>8. UsersAlive'
    BY <1>2, <1>3, <2>4, <2>7 DEF UsersAlive
  <2> QED BY <2>8 DEF UsersAlive, UsersOK, UsersInv, Users!TypeOK, TimerType
<1> QED BY <1>4, <1>5, <1>6

\* handleSubmit, of both forms.
LEMMA UsersSubmit ==
  ASSUME UsersAlive, NEW m \in Users!Form, Users!Submit(m)
  PROVE  UsersOK'
<1> DEFINE c == Users!FormCall(m, IF m = "edit" THEN ui.editingUser ELSE None)
<1>1. /\ ui \in Users!HooksType
      /\ net \in Seq(Users!CallType) /\ Len(net) \in Nat
      /\ Tabled(net, ui.mixed, ui.shown, ui.page)
      /\ Formed(net, ui.form, timer)
  BY DEF UsersAlive
<1>2. /\ ui.form[m].open /\ ~ui.form[m].loading /\ timer[m].close < MaxTimer
      /\ net' = Append(net, c) /\ Len(net) < MaxNet
      /\ ui' = Says(ui, m, TRUE)
      /\ timer' = timer /\ server' = server
  BY DEF Users!Submit, Users!CanUse, Users!Send, Says
<1>3. ui.page \in Users!Numbers /\ ui.editingUser \in Users!Id \cup {None}
  BY <1>1 DEF Users!HooksType
<1>4. Users!Closing(m) \in BOOLEAN
  BY DEF Users!Closing
<1>5. /\ c \in Users!CallType /\ c.kind = m /\ c.own
      /\ c.closing = (timer[m].close + timer[m].gone > 0)
  BY <1>3, <1>4 DEF Users!CallType, Users!FormCall, Users!Closing, Users!Answers, Users!Waiting
<1> HIDE DEF c
<1>6. /\ ui' \in Users!HooksType
      /\ ui'.mixed = ui.mixed /\ ui'.page = ui.page /\ ui'.shown = ui.shown
      /\ ui'.form[m].loading /\ ui'.form[m].open = ui.form[m].open
      /\ OthersSame(m, ui.form, ui'.form)
  <2> DEFINE b == TRUE
  <2>1. b \in BOOLEAN /\ ui' = Says(ui, m, b)
    BY <1>2
  <2> HIDE DEF b
  <2>2. /\ ui' \in Users!HooksType
        /\ ui'.mixed = ui.mixed /\ ui'.page = ui.page /\ ui'.shown = ui.shown
        /\ ui'.form[m].loading = b /\ ui'.form[m].open = ui.form[m].open
        /\ OthersSame(m, ui.form, ui'.form)
    BY <1>1, <2>1, FormSays
  <2> QED BY <2>2 DEF b
<1>7. Idle(net, m)
  BY <1>1, <1>2, FormsIdle
<1>8. ui'.form[m].open
  BY <1>2, <1>6
<1>9. Formed(Append(net, c), ui'.form, timer)
  BY <1>1, <1>2, <1>5, <1>6, <1>7, <1>8, FormsSubmit
<1>10. Tabled(Append(net, c), ui.mixed, ui.shown, ui.page)
  BY <1>1, <1>5, TableSends DEF Users!Form
<1>11. net' \in Seq(Users!CallType) /\ Len(net') <= MaxNet + 1
  BY <1>1, <1>2, <1>5, BoundAssumption
<1>12. UsersAlive'
  BY <1>2, <1>6, <1>9, <1>10, <1>11 DEF UsersAlive
<1> QED BY <1>12 DEF UsersAlive, UsersOK, UsersInv, Users!TypeOK, TimerType

\* A form is told that it has saved.
LEMMA UsersSaved ==
  ASSUME UsersAlive, NEW i \in Users!InFlight, Users!Saved(i)
  PROVE  UsersOK'
<1> DEFINE m    == net[i].kind
           c    == Users!Listing(net[i].page)
           g    == Users!Fetching(ui, net[i].page)
           rest == Without(net, i)
<1>1. /\ ui \in Users!HooksType /\ timer \in TimerType
      /\ net \in Seq(Users!CallType) /\ Len(net) <= MaxNet + 1
      /\ Tabled(net, ui.mixed, ui.shown, ui.page)
      /\ Formed(net, ui.form, timer)
  BY DEF UsersAlive
<1>2. /\ i \in DOMAIN net /\ m \in Users!Form
      /\ ui' = Says(g, m, FALSE)
      /\ timer' = [timer EXCEPT ![m].close = @ + 1]
      /\ net' = Append(rest, c) /\ server' = server
  BY UsersCalls DEF Users!Saved, Users!Is, Users!ReceiveAndSend, Users!RemoveAt, Without, Says
<1>3. net[i].page \in Users!Numbers
  BY <1>2, UsersCalls
<1>4. c \in Users!CallType /\ c.kind = "list" /\ c.of = net[i].page
  BY <1>3, UsersListing
<1>5. /\ g \in Users!HooksType
      /\ net[i].page # ui.page \/ SomeListing(net) => g.mixed
      /\ g.page = ui.page /\ g.shown = ui.shown
      /\ g.form = ui.form
  BY <1>1, UsersFetching
<1> HIDE DEF c, g
<1>6. /\ ui' \in Users!HooksType
      /\ ui'.mixed = g.mixed /\ ui'.page = g.page /\ ui'.shown = g.shown
      /\ ui'.form[m].open = g.form[m].open
      /\ OthersSame(m, g.form, ui'.form)
  <2> DEFINE b == FALSE
  <2>1. b \in BOOLEAN /\ ui' = Says(g, m, b) /\ m \in Users!Form
    BY <1>2
  <2> HIDE DEF b, m
  <2>2. /\ ui' \in Users!HooksType
        /\ ui'.mixed = g.mixed /\ ui'.page = g.page /\ ui'.shown = g.shown
        /\ ui'.form[m].loading = b /\ ui'.form[m].open = g.form[m].open
        /\ OthersSame(m, g.form, ui'.form)
    BY <1>5, <2>1, FormSays
  <2> QED BY <2>2
<1>7. Attached(net[i], ui.form[m], timer[m])
  BY <1>1, <1>2 DEF Formed
<1>8. /\ timer' \in TimerType /\ OthersSame(m, timer, timer')
  BY <1>1, <1>2, <1>7, TimerSet DEF Attached
<1>9. Append(rest, c) \in Seq(Users!CallType) /\ Len(Append(rest, c)) = Len(net)
  BY <1>1, <1>2, <1>4, Replaced DEF rest
<1>10. Tabled(Append(rest, c), g.mixed, g.shown, g.page)
  BY <1>1, <1>2, <1>4, <1>5, TableAsksAgain DEF rest
<1>11. Formed(rest, ui.form, timer) /\ Idle(rest, m)
  BY <1>1, <1>2, FormsReceive DEF rest
<1>12. OthersSame(m, ui.form, ui'.form)
  BY <1>5, <1>6
<1>13. Formed(rest, ui'.form, timer')
  <2> HIDE DEF m, rest
  <2> QED BY <1>8, <1>11, <1>12, FormsChange
<1>14. rest \in Seq(Users!CallType)
  BY <1>1, <1>2, Removed DEF rest
<1> HIDE DEF rest
<1>15. Formed(Append(rest, c), ui'.form, timer')
  BY <1>4, <1>13, <1>14, FormsSend DEF Users!Form
<1>16. UsersAlive'
  BY <1>1, <1>2, <1>5, <1>6, <1>8, <1>9, <1>10, <1>15 DEF UsersAlive
<1> QED BY <1>16 DEF UsersAlive, UsersOK, UsersInv, Users!TypeOK, TimerType

\* A form is told that it has not.
LEMMA UsersSaveFails ==
  ASSUME UsersAlive, NEW i \in Users!InFlight, Users!SaveFails(i)
  PROVE  UsersOK'
<1> DEFINE m    == net[i].kind
           rest == Without(net, i)
<1>1. /\ ui \in Users!HooksType
      /\ net \in Seq(Users!CallType) /\ Len(net) <= MaxNet + 1
      /\ Tabled(net, ui.mixed, ui.shown, ui.page)
      /\ Formed(net, ui.form, timer)
  BY DEF UsersAlive
<1>2. /\ i \in DOMAIN net /\ m \in Users!Form
      /\ ui' = Says(ui, m, FALSE)
      /\ net' = rest /\ timer' = timer /\ server' = server
  BY UsersCalls DEF Users!SaveFails, Users!Is, Users!Receive, Users!RemoveAt, Without, Says
<1>3. /\ ui' \in Users!HooksType
      /\ ui'.mixed = ui.mixed /\ ui'.page = ui.page /\ ui'.shown = ui.shown
      /\ ui'.form[m].open = ui.form[m].open
      /\ OthersSame(m, ui.form, ui'.form)
  <2> DEFINE b == FALSE
  <2>1. b \in BOOLEAN /\ ui' = Says(ui, m, b) /\ m \in Users!Form
    BY <1>2
  <2> HIDE DEF b, m
  <2>2. /\ ui' \in Users!HooksType
        /\ ui'.mixed = ui.mixed /\ ui'.page = ui.page /\ ui'.shown = ui.shown
        /\ ui'.form[m].loading = b /\ ui'.form[m].open = ui.form[m].open
        /\ OthersSame(m, ui.form, ui'.form)
    BY <1>1, <2>1, FormSays
  <2> QED BY <2>2
<1>4. Formed(rest, ui.form, timer) /\ Idle(rest, m)
  BY <1>1, <1>2, FormsReceive DEF rest
<1>5. OthersSame(m, timer, timer)
  BY DEF OthersSame
<1>6. Formed(rest, ui'.form, timer)
  <2> HIDE DEF m, rest
  <2> QED BY <1>3, <1>4, <1>5, FormsChange
<1>7. net[i].kind # "list"
  BY <1>2 DEF Users!Form
<1>8. Tabled(rest, ui.mixed, ui.shown, ui.page)
  BY <1>1, <1>2, <1>7, TableReceives DEF rest
<1>9. i \in 1..Len(net) /\ MaxNet \in Nat
  BY <1>1, <1>2, BoundAssumption
<1>10. rest \in Seq(Users!CallType) /\ Len(rest) = Len(net) - 1
  BY <1>1, <1>9, Removed DEF rest
<1> HIDE DEF rest
<1>11. Len(rest) <= MaxNet + 1
  BY <1>1, <1>9, <1>10
<1>12. UsersAlive'
  BY <1>1, <1>2, <1>3, <1>6, <1>8, <1>10, <1>11 DEF UsersAlive
<1> QED BY <1>12 DEF UsersAlive, UsersOK, UsersInv, Users!TypeOK, TimerType

\* The backend.
LEMMA UsersServes ==
  ASSUME UsersAlive, NEW i \in Users!InFlight, NEW c \in Users!CallType,
         c.kind = net[i].kind, c.of = net[i].of,
         c.kind \in Users!Form => c.own = net[i].own /\ c.closing = net[i].closing,
         net' = [net EXCEPT ![i] = c],
         UNCHANGED <<ui, timer>>, server' \in [Account -> Users!Status]
  PROVE  UsersOK'
<1>1. /\ net \in Seq(Users!CallType) /\ Len(net) <= MaxNet + 1
      /\ Tabled(net, ui.mixed, ui.shown, ui.page)
      /\ Formed(net, ui.form, timer)
  BY DEF UsersAlive
<1>2. i \in DOMAIN net
  BY UsersCalls
<1>3. /\ net' \in Seq(Users!CallType) /\ Len(net') = Len(net)
      /\ DOMAIN net' = DOMAIN net
      /\ \A k \in DOMAIN net : net'[k] = IF k = i THEN c ELSE net[k]
  BY <1>1, <1>2
<1>4. Tabled(net', ui.mixed, ui.shown, ui.page)
  BY <1>1, <1>3, TableServes
<1>5. Formed(net', ui.form, timer)
  <2>1. \A k \in DOMAIN net :
          /\ net'[k].kind = net[k].kind /\ net'[k].of = net[k].of
          /\ net'[k].kind \in Users!Form =>
               net'[k].own = net[k].own /\ net'[k].closing = net[k].closing
    BY <1>3
  <2> QED BY <1>1, <1>3, <2>1, FormsServe
<1>6. UsersAlive'
  BY <1>1, <1>3, <1>4, <1>5 DEF UsersAlive
<1> QED BY <1>6 DEF UsersAlive, UsersOK, UsersInv, Users!TypeOK, TimerType

\* Every way the backend serves a request of the page.
LEMMA UsersServed ==
  ASSUME UsersAlive, NEW i \in Users!InFlight,
         Users!ServeList(i) \/ Users!ServeAct(i) \/ Users!ServeSave(i)
  PROVE  UsersOK'
<1>1. server \in [Account -> Users!Status] /\ net[i] \in Users!CallType
  BY UsersCalls DEF UsersAlive
<1>2. CASE Users!ServeList(i)
  <2> DEFINE rows == [a \in Users!Listable(net[i].of) |-> server[a]]
             c    == [net[i] EXCEPT !.answer = Users!Done, !.rows = rows]
  <2>1. /\ net[i].kind = "list"
        /\ net[i] \in Users!Listings(Users!Numbers, Users!Tables(Account, Users!Status))
    BY <1>2, UsersCalls DEF Users!ServeList, Users!Is
  <2>2. /\ rows \in Users!Tables(Account, Users!Status)
        /\ DOMAIN rows \subseteq Users!Listable(net[i].of)
    BY <1>1, TableType DEF Users!Listable
  <2>3. /\ net' = [net EXCEPT ![i] = c] /\ ui' = ui /\ timer' = timer /\ server' = server
    BY <1>2 DEF Users!ServeList
  <2> HIDE DEF rows
  <2>4. c \in Users!CallType /\ c.kind = net[i].kind /\ c.of = net[i].of
    BY <2>1, <2>2 DEF Users!Listings, Users!CallType, Users!Answers, Users!Done
  <2>5. c.kind \notin Users!Form
    BY <2>1, <2>4 DEF Users!Form
  <2> HIDE DEF c
  <2> QED BY <1>1, <2>3, <2>4, <2>5, UsersServes
<1>3. ASSUME NEW answer \in Users!Answers,
             net' = [net EXCEPT ![i].answer = answer], net[i].kind # "list",
             UNCHANGED <<ui, timer>>, server' \in [Account -> Users!Status]
      PROVE  UsersOK'
  <2> DEFINE c == [net[i] EXCEPT !.answer = answer]
  <2>1. /\ c \in Users!CallType /\ c.kind = net[i].kind /\ c.of = net[i].of
        /\ c.kind \in Users!Form => c.own = net[i].own /\ c.closing = net[i].closing
    <3>1. CASE net[i].kind \in Users!Form
      BY <3>1, UsersCalls DEF Users!CallType
    <3>2. CASE net[i].kind \in Users!Acts
      <4>1. net[i] \in Users!Requests(Users!Acts, Users!Id)
        BY <1>1, <3>2 DEF Users!CallType, Users!Listings, Users!Acts, Users!Form
      <4> QED BY <3>2, <4>1 DEF Users!CallType, Users!Requests, Users!Acts, Users!Form
    <3> QED BY <1>3, <3>1, <3>2, UsersCalls
  <2>2. net' = [net EXCEPT ![i] = c]
    BY <1>3
  <2> HIDE DEF c
  <2> QED BY <1>3, <2>1, <2>2, UsersServes
<1>4. CASE Users!ServeAct(i)
  <2> DEFINE answer == IF net[i].of \in Account THEN Users!Done ELSE Users!Refused
  <2>1. /\ net' = [net EXCEPT ![i].answer = answer] /\ UNCHANGED <<ui, timer>>
        /\ net[i].kind \in Users!Acts
        /\ server' = [a \in Account |-> IF a = net[i].of
                                        THEN Users!After(net[i].kind) ELSE server[a]]
    BY <1>4 DEF Users!ServeAct, Users!Served, Users!Is
  <2>2. answer \in Users!Answers
    BY DEF Users!Answers, Users!Done, Users!Refused
  <2>3. Users!After(net[i].kind) \in Users!Status
    BY <2>1 DEF Users!After, Users!Acts, Users!Status
  <2>4. server' \in [Account -> Users!Status]
    BY <1>1, <2>1, <2>3
  <2>5. net[i].kind # "list"
    BY <2>1 DEF Users!Acts
  <2> HIDE DEF answer
  <2> QED BY <1>3, <2>1, <2>2, <2>4, <2>5
<1>5. CASE Users!ServeSave(i)
  <2>1. PICK answer \in {Users!Done, Users!Refused} : Users!Served(i, answer)
    BY <1>5 DEF Users!ServeSave
  <2>2. /\ answer \in Users!Answers /\ net' = [net EXCEPT ![i].answer = answer]
        /\ UNCHANGED <<ui, timer, server>> /\ net[i].kind # "list"
    BY <1>5, <2>1 DEF Users!Answers, Users!Served, Users!ServeSave, Users!Is, Users!Form
  <2> QED BY <1>1, <1>3, <2>2
<1> QED BY <1>2, <1>4, <1>5

\* Every step of UsersPage keeps its invariant.
LEMMA UsersStep ==
  ASSUME UsersInv, Len(net) <= MaxNet + 1, Users!Next
  PROVE  UsersInv' /\ Len(net') <= MaxNet + 1
<1>1. UsersAlive
  BY OKAlive DEF UsersOK, Users!Next
<1>2. CASE Users!Refresh
  <2>1. ui \in Users!HooksType
    BY <1>1 DEF UsersAlive
  <2> QED BY <1>1, <1>2, <2>1, UsersFetches DEF Users!Refresh, UsersOK
<1>3. CASE Users!OpenCreate \/ \E r \in Users!Id : Users!OpenEdit(r)
  BY <1>1, <1>3, UsersOpens DEF UsersOK
<1>4. ASSUME NEW p \in Users!Pages, Users!Turn(p) PROVE UsersOK'
  BY <1>1, <1>4, UsersTurn
<1>5. ASSUME NEW term \in Term, Users!Search(term) PROVE UsersOK'
  BY <1>1, <1>5, UsersSearch
<1>6. ASSUME NEW r \in Users!Id, Users!Toggle(r) \/ Users!Deactivate(r) PROVE UsersOK'
  <2>1. \E act \in Users!Acts : Users!Ask(r, act)
    BY <1>6 DEF Users!Toggle, Users!Deactivate, Users!Acts
  <2> QED BY <1>1, <2>1, UsersAsk
<1>7. ASSUME NEW m \in Users!Form,
             Users!Close(m) \/ Users!FireClose(m) \/ Users!FireGone(m)
      PROVE  UsersOK'
  BY <1>1, <1>7, UsersClose
<1>8. ASSUME NEW m \in Users!Form, Users!Submit(m) PROVE UsersOK'
  BY <1>1, <1>8, UsersSubmit
<1>9. ASSUME NEW i \in Users!InFlight, Users!Listed(i) \/ Users!ListFails(i) PROVE UsersOK'
  BY <1>1, <1>9, UsersListed
<1>10. ASSUME NEW i \in Users!InFlight, Users!Acted(i) \/ Users!ActFails(i) PROVE UsersOK'
  BY <1>1, <1>10, UsersActed
<1>11. ASSUME NEW i \in Users!InFlight, Users!Saved(i) \/ Users!SaveFails(i) PROVE UsersOK'
  BY <1>1, <1>11, UsersSaved, UsersSaveFails
<1>12. ASSUME NEW i \in Users!InFlight,
              Users!ServeList(i) \/ Users!ServeAct(i) \/ Users!ServeSave(i)
       PROVE  UsersOK'
  BY <1>1, <1>12, UsersServed
<1>13. UsersOK'
  BY <1>2, <1>3, <1>4, <1>5, <1>6, <1>7, <1>8, <1>9, <1>10, <1>11, <1>12
     DEF Users!Next, Users!Click, Users!Answer, Users!Timeout, Users!Serve, UsersOK
<1> QED BY <1>13 DEF UsersOK

-----------------------------------------------------------------------------
(* UsersPage: what is known to be deactivated stays so.                    *)

\* No request under way revives account a, and no answer shows it alive.
Spares(s, a) ==
  \A i \in DOMAIN s :
    /\ s[i].kind \in Users!Acts => s[i].of # a
    /\ s[i].kind = "list" /\ a \in DOMAIN s[i].rows => s[i].rows[a] = "DEACTIVATED"

\* The rows on the screen do not show it alive.
Hides(rows, a) == a \in DOMAIN rows => rows[a] = "DEACTIVATED"

\* What is known of an account, part by part.
LEMMA KnownParts ==
  ASSUME NEW a
  PROVE  Users!KnownDeactivated(a) <=>
           server[a] = "DEACTIVATED" /\ Hides(ui.users, a) /\ Spares(net, a)
BY DEF Users!KnownDeactivated, Hides, Spares, Users!InFlight, Users!Is

\* An answer that arrives leaves no more requests that would revive it.
LEMMA SparesRest ==
  ASSUME NEW S, NEW s \in Seq(S), NEW i \in DOMAIN s, NEW a, Spares(s, a)
  PROVE  Spares(Without(s, i), a)
<1>1. \A j \in DOMAIN Without(s, i) :
        Old(i, j) \in DOMAIN s \ {i} /\ Without(s, i)[j] = s[Old(i, j)]
  BY Removed
<1> QED BY <1>1, Zenon DEF Spares

\* Nor does a new one that is not about it.
LEMMA SparesNew ==
  ASSUME NEW S, NEW s \in Seq(S), NEW c, NEW a, Spares(s, a),
         c.kind \in Users!Acts => c.of # a,
         c.kind = "list" => a \notin DOMAIN c.rows
  PROVE  Spares(Append(s, c), a)
<1> DEFINE t == Append(s, c)
<1>1. /\ DOMAIN t = 1..Len(s) + 1 /\ Len(s) \in Nat /\ t[Len(s) + 1] = c
      /\ \A i \in 1..Len(s) : i \in DOMAIN s /\ t[i] = s[i]
  OBVIOUS
<1> HIDE DEF t
<1>2. ASSUME NEW i \in DOMAIN t
      PROVE  /\ t[i].kind \in Users!Acts => t[i].of # a
             /\ t[i].kind = "list" /\ a \in DOMAIN t[i].rows => t[i].rows[a] = "DEACTIVATED"
  <2>1. CASE i \in 1..Len(s)
    BY <1>1, <2>1 DEF Spares
  <2>2. CASE i = Len(s) + 1
    BY <1>1, <2>2
  <2> QED BY <1>1, <2>1, <2>2
<1>3. Spares(t, a)
  BY <1>2 DEF Spares
<1> QED BY <1>3 DEF t

\* A new listing has no rows yet.
LEMMA SparesListing ==
  ASSUME NEW p, NEW a
  PROVE  LET c == Users!Listing(p)
         IN  c.kind = "list" /\ a \notin DOMAIN c.rows /\ c.kind \notin Users!Acts
BY DEF Users!Listing, Users!Acts

\* Fetches, clicks on a row and answers, as the rows and requests go.
LEMMA DeactivatedClicks ==
  ASSUME UsersAlive, NEW a \in Account, Hides(ui.users, a), Spares(net, a),
         Users!Click, ui' # Users!Crashed
  PROVE  server' = server /\ Hides(ui'.users, a) /\ Spares(net', a)
<1> DEFINE Goal == server' = server /\ Hides(ui'.users, a) /\ Spares(net', a)
<1>1. ui \in Users!HooksType /\ net \in Seq(Users!CallType)
  BY DEF UsersAlive
<1>2. ASSUME NEW h \in Users!HooksType, h.users = ui.users, NEW p, NEW q,
             Users!Send(Users!Listing(p)), ui' = Users!Fetching(h, q), server' = server
      PROVE  Goal
  <2>1. ui'.users = ui.users
    BY <1>2, UsersFetching
  <2>2. net' = Append(net, Users!Listing(p))
    BY <1>2 DEF Users!Send
  <2>3. Spares(net', a)
    BY <1>1, <2>2, SparesNew, SparesListing
  <2> QED BY <1>2, <2>1, <2>3
<1>3. CASE Users!Refresh
  BY <1>1, <1>2, <1>3 DEF Users!Refresh
<1>4. ASSUME NEW p \in Users!Pages, Users!Turn(p) PROVE Goal
  <2> DEFINE h == [ui EXCEPT !.page = p]
  <2>1. h \in Users!HooksType /\ h.users = ui.users
    BY <1>1 DEF Users!HooksType, Users!Numbers
  <2>2. Users!Send(Users!Listing(p)) /\ ui' = Users!Fetching(h, p) /\ server' = server
    BY <1>4 DEF Users!Turn
  <2> HIDE DEF h
  <2> QED BY <1>2, <2>1, <2>2
<1>5. ASSUME NEW m \in Users!Form, net' = Users!Disown(m) PROVE Spares(net', a)
  <2>1. Disowned(net, net', m)
    BY <1>5, UsersDisown
  <2> QED BY <2>1 DEF Spares, Disowned, Users!Acts, Users!Form
<1>6. CASE Users!OpenCreate
  <2>1. /\ net' = Users!Disown("create") /\ "create" \in Users!Form
        /\ server' = server /\ ui' = [ui EXCEPT !.form["create"].open = TRUE]
    BY <1>6 DEF Users!OpenCreate, Users!Form
  <2>2. ui'.users = ui.users
    BY <1>1, <2>1 DEF Users!HooksType
  <2> QED BY <1>5, <2>1, <2>2
<1>7. ASSUME NEW r \in Users!Id, Users!OpenEdit(r) PROVE Goal
  <2>1. /\ net' = Users!Disown("edit") /\ "edit" \in Users!Form
        /\ server' = server /\ ui' = Users!EditOpen(r)
    BY <1>7 DEF Users!OpenEdit, Users!Shown, Users!Form
  <2>2. ui'.users = ui.users
    BY <1>1, <2>1 DEF Users!EditOpen, Users!HooksType
  <2> QED BY <1>5, <2>1, <2>2
<1>8. ASSUME NEW term \in Term, Users!Search(term) PROVE Goal
  <2>1. ui' = [ui EXCEPT !.search = term] /\ net' = net /\ server' = server
    BY <1>8 DEF Users!Search, Users!Render, Users!Shown
  <2>2. ui'.users = ui.users
    BY <1>1, <2>1 DEF Users!HooksType
  <2> QED BY <2>1, <2>2
<1>9. ASSUME NEW r \in Users!Id, Users!Toggle(r) \/ Users!Deactivate(r) PROVE Goal
  <2>1. PICK act : Users!Ask(r, act)
    BY <1>9 DEF Users!Toggle, Users!Deactivate
  <2>2. r # a
    BY <1>9 DEF Users!Toggle, Users!Deactivate, Users!CanAct, Users!CanEdit, Users!Rows, Hides
  <2>3. net' = Append(net, Users!Call(act, r)) /\ server' = server
    BY <2>1 DEF Users!Ask, Users!Send
  <2>4. act # "list"
    BY <1>9, <2>1 DEF Users!Toggle, Users!Deactivate, Users!Ask, Users!Send, Users!Call
  <2>5. Spares(net', a)
    BY <1>1, <2>2, <2>3, <2>4, SparesNew DEF Users!Call
  <2>6. ui'.users = ui.users
    BY <1>1, <2>1 DEF Users!Ask, Users!HooksType
  <2> QED BY <2>3, <2>5, <2>6
<1>10. ASSUME NEW m \in Users!Form, Users!Close(m) PROVE Goal
  BY <1>10 DEF Users!Close, Users!FadeOut
<1>11. ASSUME NEW m \in Users!Form, Users!Submit(m) PROVE Goal
  <2>1. PICK id : /\ Users!Send(Users!FormCall(m, id))
                  /\ ui' = [ui EXCEPT !.form[m].loading = TRUE] /\ server' = server
    BY <1>11 DEF Users!Submit
  <2>2. net' = Append(net, Users!FormCall(m, id))
    BY <2>1 DEF Users!Send
  <2>3. m \notin Users!Acts /\ m # "list"
    BY DEF Users!Form, Users!Acts
  <2>4. Spares(net', a)
    BY <1>1, <2>2, <2>3, SparesNew DEF Users!FormCall
  <2>5. ui'.users = ui.users
    BY <1>1, <2>1 DEF Users!HooksType
  <2> QED BY <2>1, <2>4, <2>5
<1> QED BY <1>3, <1>4, <1>6, <1>7, <1>8, <1>9, <1>10, <1>11 DEF Users!Click

\* Every answer to the page leaves an account that is known to be deactivated so.
LEMMA DeactivatedAnswers ==
  ASSUME UsersAlive, NEW a \in Account, Hides(ui.users, a), Spares(net, a),
         Users!Answer, ui' # Users!Crashed
  PROVE  server' = server /\ Hides(ui'.users, a) /\ Spares(net', a)
<1> DEFINE Goal == server' = server /\ Hides(ui'.users, a) /\ Spares(net', a)
<1>1. ui \in Users!HooksType /\ net \in Seq(Users!CallType)
  BY DEF UsersAlive
<1>2. ASSUME NEW i \in Users!InFlight PROVE i \in DOMAIN net /\ Spares(Without(net, i), a)
  BY <1>1, SparesRest DEF Users!InFlight
<1>3. ASSUME NEW i \in Users!InFlight, NEW rows, NEW of, Users!Table(i, rows, of),
             Hides(rows, a)
      PROVE  Goal
  <2>1. /\ ui' = [ui EXCEPT !.users = rows, !.shown = of, !.loading = FALSE]
        /\ net' = Without(net, i) /\ server' = server
    BY <1>3 DEF Users!Table, Users!Render, Users!Shown, Users!RemoveAt, Without
  <2>2. ui'.users = rows
    BY <1>1, <2>1 DEF Users!HooksType
  <2> QED BY <1>2, <1>3, <2>1, <2>2
<1>4. ASSUME NEW i \in Users!InFlight, Users!Listed(i) PROVE Goal
  <2>1. Hides(net[i].rows, a)
    BY <1>2, <1>4 DEF Users!Listed, Users!Is, Hides, Spares
  <2> QED BY <1>3, <1>4, <2>1 DEF Users!Listed
<1>5. ASSUME NEW i \in Users!InFlight, Users!ListFails(i) PROVE Goal
  <2> DEFINE rows == [d \in Demo |-> "ACTIVE"]
  <2>1. Hides(rows, a)
    BY DemoAssumption DEF Hides
  <2>2. Users!Table(i, rows, None)
    BY <1>5 DEF Users!ListFails
  <2> HIDE DEF rows
  <2> QED BY <1>3, <2>1, <2>2
<1>6. ASSUME NEW i \in Users!InFlight, Users!Acted(i) PROVE Goal
  <2> DEFINE rows == [r \in DOMAIN ui.users |->
                        IF r = net[i].of THEN Users!After(net[i].kind) ELSE ui.users[r]]
  <2>1. /\ ui' = [ui EXCEPT !.users = rows, !.actionLoadingId = None]
        /\ net' = Without(net, i) /\ server' = server
    BY <1>6 DEF Users!Acted, Users!Receive, Users!RemoveAt, Without
  <2>2. net[i].of # a
    BY <1>2, <1>6 DEF Users!Acted, Users!Is, Spares
  <2>3. Hides(rows, a)
    BY <2>2 DEF Hides
  <2> HIDE DEF rows
  <2>4. ui'.users = rows
    BY <1>1, <2>1 DEF Users!HooksType
  <2> QED BY <1>2, <2>1, <2>3, <2>4
<1>7. ASSUME NEW i \in Users!InFlight, Users!ActFails(i) \/ Users!SaveFails(i) PROVE Goal
  <2>1. net' = Without(net, i) /\ server' = server
    BY <1>7 DEF Users!ActFails, Users!SaveFails, Users!Receive, Users!RemoveAt, Without
  <2>2. ui'.users = ui.users
    BY <1>1, <1>7 DEF Users!ActFails, Users!SaveFails, Users!HooksType
  <2> QED BY <1>2, <2>1, <2>2
<1>8. ASSUME NEW i \in Users!InFlight, Users!Saved(i) PROVE Goal
  <2> DEFINE g == Users!Fetching(ui, net[i].page)
             c == Users!Listing(net[i].page)
             m == net[i].kind
  <2>1. /\ ui' = [g EXCEPT !.form[m].loading = FALSE]
        /\ net' = Append(Without(net, i), c) /\ server' = server
    BY <1>8 DEF Users!Saved, Users!ReceiveAndSend, Users!RemoveAt, Without
  <2>2. g \in Users!HooksType /\ g.users = ui.users
    BY <1>1, UsersFetching
  <2>3. c.kind = "list" /\ a \notin DOMAIN c.rows /\ c.kind \notin Users!Acts
    BY SparesListing
  <2>4. Without(net, i) \in Seq(Users!CallType)
    BY <1>1, <1>2, Removed
  <2> HIDE DEF g, c, m
  <2>5. ui'.users = ui.users
    BY <2>1, <2>2 DEF Users!HooksType
  <2>6. Spares(Append(Without(net, i), c), a)
    BY <1>2, <2>3, <2>4, SparesNew
  <2> QED BY <2>1, <2>5, <2>6
<1> QED BY <1>4, <1>5, <1>6, <1>7, <1>8 DEF Users!Answer

\* So does every way the backend serves a request.
LEMMA DeactivatedServes ==
  ASSUME UsersAlive, NEW a \in Account, server[a] = "DEACTIVATED", Spares(net, a),
         NEW i \in Users!InFlight,
         Users!ServeList(i) \/ Users!ServeAct(i) \/ Users!ServeSave(i)
  PROVE  server'[a] = "DEACTIVATED" /\ ui' = ui /\ Spares(net', a)
<1>1. /\ i \in DOMAIN net /\ net \in Seq(Users!CallType)
      /\ net[i] \in Users!CallType
  BY UsersCalls DEF UsersAlive
<1>2. CASE Users!ServeList(i)
  <2> DEFINE rows == [b \in Users!Listable(net[i].of) |-> server[b]]
             c    == [net[i] EXCEPT !.answer = Users!Done, !.rows = rows]
  <2>1. /\ net[i].kind = "list" /\ ui' = ui /\ server' = server
        /\ net' = [net EXCEPT ![i] = c]
    BY <1>2 DEF Users!ServeList, Users!Is
  <2>2. net[i] \in Users!Listings(Users!Numbers, Users!Tables(Account, Users!Status))
    BY <2>1, UsersCalls
  <2>3. a \in DOMAIN rows => rows[a] = "DEACTIVATED"
    OBVIOUS
  <2> HIDE DEF rows
  <2>4. c.kind = "list" /\ c.rows = rows
    BY <2>1, <2>2 DEF Users!Listings
  <2> HIDE DEF c
  <2>5. Spares(net', a)
    BY <1>1, <2>1, <2>3, <2>4 DEF Spares, Users!Acts
  <2> QED BY <2>1, <2>5
<1>3. ASSUME NEW answer, net' = [net EXCEPT ![i].answer = answer], net[i].kind # "list"
      PROVE  Spares(net', a)
  <2> DEFINE c == [net[i] EXCEPT !.answer = answer]
  <2>1. c.kind = net[i].kind /\ c.of = net[i].of
    BY <1>1 DEF Users!CallType, Users!Listings, Users!Requests
  <2>2. net' = [net EXCEPT ![i] = c]
    BY <1>3
  <2> HIDE DEF c
  <2> QED BY <1>1, <1>3, <2>1, <2>2 DEF Spares
<1>4. CASE Users!ServeAct(i)
  <2>1. /\ net[i].kind \in Users!Acts /\ ui' = ui
        /\ server' = [b \in Account |-> IF b = net[i].of
                                        THEN Users!After(net[i].kind) ELSE server[b]]
    BY <1>4 DEF Users!ServeAct, Users!Is
  <2>2. PICK answer : net' = [net EXCEPT ![i].answer = answer]
    BY <1>4 DEF Users!ServeAct, Users!Served
  <2>3. net[i].of # a /\ net[i].kind # "list"
    BY <1>1, <2>1 DEF Spares, Users!Acts
  <2>4. server'[a] = "DEACTIVATED"
    BY <2>1, <2>3
  <2> QED BY <1>3, <2>1, <2>2, <2>3, <2>4
<1>5. CASE Users!ServeSave(i)
  <2>1. PICK answer : net' = [net EXCEPT ![i].answer = answer]
    BY <1>5 DEF Users!ServeSave, Users!Served
  <2>2. ui' = ui /\ server' = server /\ net[i].kind # "list"
    BY <1>5 DEF Users!ServeSave, Users!Is, Users!Form
  <2> QED BY <1>3, <2>1, <2>2
<1> QED BY <1>2, <1>4, <1>5

\* Whatever the page does, an account known to be deactivated stays so.
LEMMA DeactivatedStep ==
  ASSUME UsersInv, Len(net) <= MaxNet + 1, Users!Next
  PROVE  Users!DeactivatedStays
<1>1. UsersAlive
  BY OKAlive DEF UsersOK, Users!Next
<1> SUFFICES ASSUME ui' # Users!Crashed, NEW a \in Account, Users!KnownDeactivated(a)
             PROVE  Users!KnownDeactivated(a)'
  BY DEF Users!DeactivatedStays
<1>2. server[a] = "DEACTIVATED" /\ Hides(ui.users, a) /\ Spares(net, a)
  BY KnownParts
<1>3. CASE Users!Click
  <2>1. server' = server /\ Hides(ui'.users, a) /\ Spares(net', a)
    BY <1>1, <1>2, <1>3, DeactivatedClicks
  <2> QED BY <1>2, <2>1 DEF Users!KnownDeactivated, Hides, Spares, Users!InFlight, Users!Is
<1>4. CASE Users!Answer
  <2>1. server' = server /\ Hides(ui'.users, a) /\ Spares(net', a)
    BY <1>1, <1>2, <1>4, DeactivatedAnswers
  <2> QED BY <1>2, <2>1 DEF Users!KnownDeactivated, Hides, Spares, Users!InFlight, Users!Is
<1>5. CASE Users!Timeout
  <2>1. net' = net /\ server' = server
    BY <1>5 DEF Users!Timeout, Users!FireClose, Users!FireGone
  <2>2. ui'.users = ui.users
    BY <1>1, <1>5 DEF Users!Timeout, Users!FireClose, Users!FireGone, UsersAlive, Users!HooksType
  <2> QED BY <1>2, <2>1, <2>2 DEF Users!KnownDeactivated, Hides, Spares, Users!InFlight, Users!Is
<1>6. CASE Users!Serve
  <2>1. server'[a] = "DEACTIVATED" /\ ui' = ui /\ Spares(net', a)
    BY <1>1, <1>2, <1>6, DeactivatedServes DEF Users!Serve
  <2> QED BY <1>2, <2>1 DEF Users!KnownDeactivated, Hides, Spares, Users!InFlight, Users!Is
<1> QED BY <1>3, <1>4, <1>5, <1>6 DEF Users!Next

-----------------------------------------------------------------------------
(* The pages when they are mounted.                                        *)

\* The hooks of a page are not the absence of one.
LEMMA NotNone ==
  /\ None \notin Users!HooksType /\ None # Users!Crashed
  /\ None \notin Licenses!HooksType /\ None \notin Contents!HooksType
  /\ None \notin Audit!HooksType /\ None \notin Reports!HooksType
BY NoneAssumption

\* One listing is under way, for the question the page opens with.
LEMMA OneListing ==
  ASSUME NEW S, NEW c \in S, c.kind = "list", NEW mixed, NEW shown, NEW q, c.of = q
  PROVE  /\ <<c>> \in Seq(S) /\ Len(<<c>>) <= MaxNet + 1
         /\ Tabled(<<c>>, mixed, shown, q)
         /\ Paneled(<<c>>, mixed, None, None)
<1>1. /\ DOMAIN <<c>> = {1} /\ <<c>>[1] = c /\ <<c>> \in Seq(S) /\ Len(<<c>>) = 1
  OBVIOUS
<1>2. Tabled(<<c>>, mixed, shown, q)
  <2>1. SomeListing(<<c>>)
    BY <1>1 DEF SomeListing
  <2> QED BY <1>1, <2>1 DEF Tabled
<1>3. Paneled(<<c>>, mixed, None, None)
  BY <1>1 DEF Paneled
<1>4. Len(<<c>>) <= MaxNet + 1
  BY <1>1, BoundAssumption
<1> QED BY <1>1, <1>2, <1>3, <1>4, Zenon

\* The page of users starts with its invariant.
LEMMA UsersMounted ==
  ASSUME NEW s \in Users!Mounted,
         ui' = s.ui, net' = s.net, timer' = s.timer, server' = s.server
  PROVE  UsersInv' /\ Len(net') <= MaxNet + 1 /\ ui' # None
<1> DEFINE c == Users!Listing(1)
<1>1. /\ ui' = Users!Hooks /\ net' = <<c>> /\ timer' = Users!NoTimers
      /\ server' = [a \in Account |-> "ACTIVE"]
  BY DEF Users!Mounted
<1>2. c \in Users!CallType /\ c.kind = "list" /\ c.of = 1
  BY UsersListing DEF Users!Numbers
<1> HIDE DEF c
<1>3. /\ net' \in Seq(Users!CallType) /\ Len(net') <= MaxNet + 1
  BY <1>1, <1>2, OneListing
<1>4. /\ ui' \in Users!HooksType
      /\ ui'.page = 1
      /\ ~ui'.form["edit"].open
  BY <1>1, EmptyTable DEF Users!Hooks, Users!HooksType, Users!Numbers, Users!Form, Users!RowsFit
<1>5. timer' \in TimerType
  BY <1>1, BoundAssumption DEF TimerType, Users!NoTimers
<1>6. server' \in [Account -> Users!Status]
  BY <1>1 DEF Users!Status
<1>7. DOMAIN net' = {1} /\ net'[1].kind \notin Users!Form
  BY <1>1, <1>2 DEF Users!Form
<1>8. Formed(net', ui'.form, timer')
  BY <1>4, <1>7 DEF Formed
<1>9. Tabled(net', ui'.mixed, ui'.shown, ui'.page)
  BY <1>1, <1>2, <1>4, OneListing
<1> QED BY <1>3, <1>4, <1>5, <1>6, <1>8, <1>9, NotNone DEF UsersInv, Users!TypeOK, TimerType

\* The page of licenses starts with its invariant.
LEMMA LicensesMounted ==
  ASSUME NEW s \in Licenses!Mounted,
         ui' = s.ui, net' = s.net, timer' = s.timer, server' = s.server
  PROVE  LicensesInv' /\ Len(net') <= MaxNet + 1 /\ ui' # None
<1> DEFINE c == Licenses!Listing("")
<1>1. s = [ui |-> Licenses!Hooks, net |-> <<c>>, timer |-> None,
           server |-> [l \in License |-> "active"]]
  BY Zenon DEF Licenses!Mounted
<1>2. c \in Licenses!CallType /\ c.kind = "list" /\ c.of = ""
  <2>1. <<>> \in Licenses!Tables(License, Licenses!Status) /\ DOMAIN <<>> = {}
    BY EmptyTable
  <2>2. /\ c \in Licenses!Listings(Licenses!Filter, Licenses!Tables(License, Licenses!Status))
        /\ c.rows = <<>> /\ c.kind = "list" /\ c.of = ""
    BY <2>1 DEF Licenses!Listings, Licenses!Listing, Licenses!Filter, Licenses!Answers,
                Licenses!Waiting
  <2> HIDE DEF c
  <2> QED BY <2>1, <2>2 DEF Licenses!CallType
<1> HIDE DEF c
<1>3. /\ ui' = Licenses!Hooks /\ net' = <<c>>
      /\ server' = [l \in License |-> "active"]
  BY <1>1
<1>4. /\ net' \in Seq(Licenses!CallType) /\ Len(net') <= MaxNet + 1
  BY <1>2, <1>3, OneListing
<1>5. /\ ui' \in Licenses!HooksType
      /\ ui'.statusFilter = ""
      /\ ui'.panel.shown = None /\ ui'.panel.subject = None /\ ~ui'.panel.open
  <2> DEFINE h == Licenses!Hooks
  <2>1. h \in Licenses!HooksType
    <3>1. Licenses!RowsFit(DOMAIN <<>>, None)
      BY DEF Licenses!RowsFit
    <3>2. h.licenses = <<>> /\ h.shown = None
      BY DEF Licenses!Hooks
    <3> QED BY <3>1, <3>2, EmptyTable
            DEF Licenses!Hooks, Licenses!HooksType, Licenses!Filter, Licenses!ClosedPanel, Licenses!Panels
  <2>2. h.statusFilter = "" /\ h.panel = Licenses!ClosedPanel
    BY DEF Licenses!Hooks
  <2>3. LET p == Licenses!ClosedPanel
        IN  p.shown = None /\ p.subject = None /\ ~p.open
    BY DEF Licenses!ClosedPanel
  <2>4. ui' = h
    BY <1>3
  <2> HIDE DEF h
  <2> QED BY <2>1, <2>2, <2>3, <2>4
<1>6. server' \in [License -> {"active", "revoked"}]
  BY <1>3
<1>7. /\ Tabled(net', ui'.mixed, ui'.shown, ui'.statusFilter)
      /\ Paneled(net', ui'.panel.mixed, ui'.panel.subject, ui'.panel.shown)
  <2>1. \A mixed, shown : /\ Tabled(<<c>>, mixed, shown, "")
                          /\ Paneled(<<c>>, mixed, None, None)
    BY <1>2, OneListing, Zenon
  <2> QED BY <1>3, <1>5, <2>1
<1> QED BY <1>4, <1>5, <1>6, <1>7, NotNone DEF LicensesInv, Licenses!TypeOK, PanelInv

\* The page of content starts with its invariant.
LEMMA ContentMounted ==
  ASSUME NEW s \in Contents!Mounted,
         ui' = s.ui, net' = s.net, timer' = s.timer, server' = s.server
  PROVE  ContentInv' /\ Len(net') <= MaxNet + 1 /\ ui' # None
<1> DEFINE c == Contents!Listing("")
<1>1. PICK stored \in [Item -> Contents!Stored] :
        s = [ui |-> Contents!Hooks, net |-> <<c>>, timer |-> None, server |-> stored]
  BY Zenon DEF Contents!Mounted
<1>2. c \in Contents!CallType /\ c.kind = "list" /\ c.of = ""
  BY ContentListing DEF Contents!Filter
<1> HIDE DEF c
<1>3. /\ ui' = Contents!Hooks /\ net' = <<c>>
      /\ server' \in [Item -> Contents!Stored]
  BY <1>1
<1>4. /\ net' \in Seq(Contents!CallType) /\ Len(net') <= MaxNet + 1
  BY <1>2, <1>3, OneListing
<1>5. /\ ui' \in Contents!HooksType
      /\ ui'.filter = ""
      /\ ui'.panel.shown = None /\ ui'.panel.subject = None /\ ~ui'.panel.open
  <2> DEFINE h == Contents!Hooks
  <2>1. h \in Contents!HooksType
    <3>1. Contents!RowsFit(DOMAIN <<>>, None)
      BY DEF Contents!RowsFit
    <3>2. h.content = <<>> /\ h.shown = None
      BY DEF Contents!Hooks
    <3> QED BY <3>1, <3>2, EmptyTable
            DEF Contents!Hooks, Contents!HooksType, Contents!Filter, Contents!ClosedPanel, Contents!Panels
  <2>2. h.filter = "" /\ h.panel = Contents!ClosedPanel
    BY DEF Contents!Hooks
  <2>3. LET p == Contents!ClosedPanel
        IN  p.shown = None /\ p.subject = None /\ ~p.open
    BY DEF Contents!ClosedPanel
  <2>4. ui' = h
    BY <1>3
  <2> HIDE DEF h
  <2> QED BY <2>1, <2>2, <2>3, <2>4
<1>6. /\ Tabled(net', ui'.mixed, ui'.shown, ui'.filter)
      /\ Paneled(net', ui'.panel.mixed, ui'.panel.subject, ui'.panel.shown)
  <2>1. \A mixed, shown : /\ Tabled(<<c>>, mixed, shown, "")
                          /\ Paneled(<<c>>, mixed, None, None)
    BY <1>2, OneListing, Zenon
  <2> QED BY <1>3, <1>5, <2>1
<1> QED BY <1>3, <1>4, <1>5, <1>6, NotNone
        DEF ContentInv, CatalogInv, Contents!TypeOK, PanelInv, Contents!DocumentHiddenWithoutFocus

\* The page of audit records starts with its invariant.
LEMMA AuditMounted ==
  ASSUME NEW s \in Audit!Mounted,
         ui' = s.ui, net' = s.net, timer' = s.timer, server' = s.server
  PROVE  AuditInv' /\ Len(net') <= MaxNet + 1 /\ ui' # None
<1> DEFINE c == Audit!Listing("")
           S == Audit!Listings(Audit!Filter, {<<>>})
<1>1. s = [ui |-> Audit!Hooks, net |-> <<c>>, timer |-> None, server |-> {}]
  BY Zenon DEF Audit!Mounted
<1>2. c \in S /\ c.kind = "list" /\ c.of = ""
  BY DEF Audit!Listings, Audit!Listing, Audit!Filter, Audit!Answers, Audit!Waiting
<1> HIDE DEF c, S
<1>3. ui' = Audit!Hooks /\ net' = <<c>> /\ server' = {}
  BY <1>1
<1>4. /\ net' \in Seq(S) /\ Len(net') <= MaxNet + 1
  BY <1>2, <1>3, OneListing
<1>5. /\ ui' \in Audit!HooksType
      /\ ui'.actionFilter = ""
      /\ ui'.panel.shown = None /\ ui'.panel.subject = None /\ ~ui'.panel.open
  <2> DEFINE h == Audit!Hooks
  <2>1. h \in Audit!HooksType
    BY DEF Audit!Hooks, Audit!HooksType, Audit!Filter,
       Audit!ClosedPanel, Audit!Panels, Audit!RowsFit
  <2>2. h.actionFilter = "" /\ h.panel = Audit!ClosedPanel
    BY DEF Audit!Hooks
  <2>3. LET p == Audit!ClosedPanel
        IN  p.shown = None /\ p.subject = None /\ ~p.open
    BY DEF Audit!ClosedPanel
  <2>4. ui' = h
    BY <1>3
  <2> HIDE DEF h
  <2> QED BY <2>1, <2>2, <2>3, <2>4
<1>6. /\ Tabled(net', ui'.mixed, ui'.shown, ui'.actionFilter)
      /\ Paneled(net', ui'.panel.mixed, ui'.panel.subject, ui'.panel.shown)
  <2>1. \A mixed, shown : /\ Tabled(<<c>>, mixed, shown, "")
                          /\ Paneled(<<c>>, mixed, None, None)
    BY <1>2, OneListing, Zenon
  <2> QED BY <1>3, <1>5, <2>1
<1> QED BY <1>3, <1>4, <1>5, <1>6, NotNone DEF AuditInv, Audit!TypeOK, PanelInv, S

\* The pages with figures start with their invariant: three requests are
\* under way on the overview, one on each of the others.
LEMMA ReportsMounted ==
  ASSUME NEW page \in Reports!Page, NEW s \in Reports!Mounted(page),
         ui' = s.ui, net' = s.net, timer' = s.timer, server' = s.server
  PROVE  ReportsInv' /\ Len(net') <= MaxNet + 1 /\ ui' # None
<1> DEFINE parts == Reports!Parts(page)
<1>1. /\ ui' = Reports!Hooks(page)
      /\ net' = [n \in DOMAIN parts |-> Reports!Ask(parts[n])]
  BY DEF Reports!Mounted
<1>2. PICK k \in 1..3 : DOMAIN parts = 1..k
  <2>1. CASE page = "dashboard"
    BY <2>1 DEF Reports!Parts
  <2>2. CASE page = "revenue" \/ page = "system"
    BY <2>2 DEF Reports!Parts
  <2> QED BY <2>1, <2>2 DEF Reports!Page
<1>3. \A n \in 1..k : Reports!Ask(parts[n]) \in ReportsCalls(page)
  BY <1>2 DEF Reports!PartsOf, Reports!Ask, Reports!Call, ReportsCalls, Reports!Requests,
              Reports!Answers, Reports!Waiting
<1> HIDE DEF parts
<1>4. net' = [n \in 1..k |-> Reports!Ask(parts[n])]
  BY <1>1, <1>2
<1>5. net' \in Seq(ReportsCalls(page)) /\ Len(net') = k
  BY <1>3, <1>4
<1>6. Len(net') <= MaxNet + 1
  BY <1>2, <1>5, BoundAssumption
<1>7. /\ ui' \in Reports!HooksOf(page) /\ ui'.page = page
      /\ ui'.settled = {} /\ ui'.loading
  BY <1>1 DEF Reports!Hooks, Reports!HooksOf
<1>8. ui' \in Reports!HooksType
  BY <1>7, ReportsTyped
<1> QED BY <1>5, <1>6, <1>7, <1>8, NotNone
        DEF ReportsInv, Reports!TypeOK, ReportsCalls, Reports!SimulationAnnounced

-----------------------------------------------------------------------------
(* The routes.                                                             *)

\* The routes that need a permission.
LEMMA Pages7 == Page = {"dashboard", "users", "content", "licenses", "audit", "revenue", "system"}
BY DEF Page, Required

\* Those with no page of their own module show figures.
LEMMA ReportPages3 ==
  ASSUME NEW r \in Page, r \notin {"users", "content", "licenses", "audit"}
  PROVE  r \in Reports!Page
BY Pages7 DEF Reports!Page

\* A page is mounted where its user may go.
LEMMA MountedInv ==
  ASSUME NEW u, NEW r \in Page, MayVisit(u, r), Arrive(u, r)
  PROVE  PageInv' /\ Len(net') <= MaxNet + 1 /\ ui' # None
<1>1. PICK s \in Mounted(r) :
        ui' = s.ui /\ net' = s.net /\ timer' = s.timer /\ server' = s.server
  BY DEF Arrive
<1>2. route' = r
  BY DEF Arrive
<1>3. CASE r = "users"
  <2>1. s \in Users!Mounted
    BY <1>3 DEF Mounted
  <2> QED BY <1>1, <1>2, <1>3, <2>1, UsersMounted DEF PageInv
<1>4. CASE r = "licenses"
  <2>1. s \in Licenses!Mounted
    BY <1>4 DEF Mounted
  <2> QED BY <1>1, <1>2, <1>4, <2>1, LicensesMounted DEF PageInv
<1>5. CASE r = "content"
  <2>1. s \in Contents!Mounted
    BY <1>5 DEF Mounted
  <2> QED BY <1>1, <1>2, <1>5, <2>1, ContentMounted DEF PageInv
<1>6. CASE r = "audit"
  <2>1. s \in Audit!Mounted
    BY <1>6 DEF Mounted
  <2> QED BY <1>1, <1>2, <1>6, <2>1, AuditMounted DEF PageInv
<1>7. CASE r \notin {"users", "content", "licenses", "audit"}
  <2>1. s \in Reports!Mounted(r) /\ r \in Reports!Page
    BY <1>7, ReportPages3 DEF Mounted
  <2> QED BY <1>1, <1>2, <1>7, <2>1, ReportsMounted DEF PageInv
<1> QED BY <1>3, <1>4, <1>5, <1>6, <1>7

\* Whoever arrives anywhere, the invariant holds there.
LEMMA Arrived ==
  ASSUME NEW u \in User \cup {None}, NEW r \in Page \cup {"home", "login"}, Arrive(u, r)
  PROVE  Inv'
<1>1. route' = r /\ user' = u /\ from' = "dashboard" /\ "dashboard" \in Page
  BY Pages7 DEF Arrive
<1>2. CASE r \in Page /\ MayVisit(u, r)
  <2>1. PageInv' /\ Len(net') <= MaxNet + 1 /\ ui' # None
    BY <1>2, MountedInv
  <2> QED BY <1>1, <1>2, <2>1 DEF Inv, OnPage
<1>3. CASE ~(r \in Page /\ MayVisit(u, r))
  <2>1. ui' = None /\ net' = <<>> /\ timer' = None /\ server' = None
    BY <1>3 DEF Arrive, Blank
  <2> QED BY <1>1, <2>1, BoundAssumption DEF Inv, OnPage, Screen, Blank
<1> QED BY <1>2, <1>3

\* The page that is mounted takes a step.
LEMMA Worked ==
  ASSUME Inv, Work
  PROVE  Inv'
<1>1. /\ OnPage /\ PageInv /\ PageNext /\ Len(net) <= MaxNet + 1
      /\ route' = route /\ user' = user /\ from' = from
      /\ route \in Page /\ user \in User \cup {None} /\ from \in Page
  BY DEF Inv, Work, OnPage
<1>2. ASSUME PageInv', Len(net') <= MaxNet + 1, ui' # None
      PROVE  Inv'
  BY <1>1, <1>2 DEF Inv, OnPage
<1>3. CASE route = "users"
  <2>1. UsersInv /\ Users!Next
    BY <1>1, <1>3 DEF PageInv, PageNext
  <2>2. UsersInv' /\ Len(net') <= MaxNet + 1
    BY <1>1, <2>1, UsersStep
  <2>3. ui' # None
    BY <2>2, NotNone DEF UsersInv, Users!TypeOK
  <2> QED BY <1>1, <1>2, <1>3, <2>2, <2>3 DEF PageInv
<1>4. CASE route = "licenses"
  <2>1. LicensesInv /\ Licenses!Next
    BY <1>1, <1>4 DEF PageInv, PageNext
  <2>2. LicensesInv' /\ Len(net') <= MaxNet + 1
    BY <1>1, <2>1, LicensesStep
  <2>3. ui' # None
    BY <2>2, NotNone DEF LicensesInv, Licenses!TypeOK
  <2> QED BY <1>1, <1>2, <1>4, <2>2, <2>3 DEF PageInv
<1>5. CASE route = "content"
  <2>1. ContentInv /\ Contents!Next
    BY <1>1, <1>5 DEF PageInv, PageNext
  <2>2. ContentInv' /\ Len(net') <= MaxNet + 1
    BY <1>1, <2>1, ContentStep
  <2>3. ui' # None
    BY <2>2, NotNone DEF ContentInv, CatalogInv, Contents!TypeOK
  <2> QED BY <1>1, <1>2, <1>5, <2>2, <2>3 DEF PageInv
<1>6. CASE route = "audit"
  <2>1. AuditInv /\ Audit!Next
    BY <1>1, <1>6 DEF PageInv, PageNext
  <2>2. AuditInv' /\ Len(net') <= MaxNet + 1
    BY <1>1, <2>1, AuditStep
  <2>3. ui' # None
    BY <2>2, NotNone DEF AuditInv, Audit!TypeOK
  <2> QED BY <1>1, <1>2, <1>6, <2>2, <2>3 DEF PageInv
<1>7. CASE route \notin {"users", "content", "licenses", "audit"}
  <2>1. ReportsInv /\ Reports!Next
    BY <1>1, <1>7 DEF PageInv, PageNext
  <2>2. ReportsInv' /\ Len(net') <= MaxNet + 1
    BY <1>1, <2>1, ReportsStep
  <2>3. ui' # None
    BY <2>2, NotNone DEF ReportsInv, Reports!TypeOK
  <2> QED BY <1>1, <1>2, <1>7, <2>2, <2>3 DEF PageInv
<1> QED BY <1>3, <1>4, <1>5, <1>6, <1>7

\* The login page.
LEMMA Asked ==
  ASSUME Inv, AskWho
  PROVE  Inv'
<1>1. /\ route' = "login" /\ from' = route /\ user' = user
      /\ ui' = ui /\ net' = net /\ timer' = timer /\ server' = server
      /\ ui = None /\ route \in Page
  BY DEF AskWho, Denied, calls
<1>2. Screen = Blank /\ ~OnPage'
  BY <1>1, Pages7 DEF Inv, OnPage
<1>3. Screen' = Blank
  BY <1>1, <1>2 DEF Screen
<1> QED BY <1>1, <1>2, <1>3 DEF Inv, Blank

\* getDefaultRoute leads to a page one may see, or to the landing page.
LEMMA DefaultPage ==
  ASSUME NEW u
  PROVE  \/ DefaultRoute(u) = "home"
         \/ DefaultRoute(u) \in Page /\ MayVisit(u, DefaultRoute(u))
BY Pages7 DEF DefaultRoute, MayVisit, Required

\* The console starts on the landing page.
LEMMA InvInit == Init => Inv
BY Pages7, BoundAssumption DEF Init, Inv, OnPage, Screen, Blank

\* Every step of the console keeps the invariant.
LEMMA InvStep == Inv /\ [Next]_vars => Inv'
<1> SUFFICES ASSUME Inv, [Next]_vars PROVE Inv'
  OBVIOUS
<1>1. /\ route \in Page \cup {"home", "login"} /\ user \in User \cup {None} /\ from \in Page
  BY DEF Inv
<1>2. CASE Work
  BY <1>2, Worked
<1>3. CASE Leave \/ Reload \/ OpenLogin
  BY <1>1, <1>3, Arrived DEF Leave, Reload, OpenLogin
<1>4. CASE Redirect
  BY <1>1, <1>4, Arrived, DefaultPage DEF Redirect
<1>5. CASE AskWho
  BY <1>5, Asked
<1>6. CASE SignOut
  BY <1>1, <1>6, Arrived DEF SignOut
<1>7. ASSUME NEW r \in Page, Follow(r) PROVE Inv'
  BY <1>1, <1>7, Arrived DEF Follow
<1>8. ASSUME NEW u \in User, SignIn(u) PROVE Inv'
  BY <1>1, <1>8, Arrived DEF SignIn
<1>9. CASE UNCHANGED vars
  BY <1>9 DEF vars, calls, Inv, OnPage, Screen, Blank, PageInv,
     UsersInv, LicensesInv, ContentInv, CatalogInv, AuditInv, ReportsInv, PanelInv,
     Users!TypeOK, Licenses!TypeOK, Contents!TypeOK, Audit!TypeOK, Reports!TypeOK,
     Contents!DocumentHiddenWithoutFocus, Reports!SimulationAnnounced, Reports!Shows
<1> QED BY <1>2, <1>3, <1>4, <1>5, <1>6, <1>7, <1>8, <1>9 DEF Next

\* The invariant holds throughout.
LEMMA InvAlways == Spec => []Inv
<1> QED BY InvInit, InvStep, PTL DEF Spec
-----------------------------------------------------------------------------
(* What follows from the invariant.                                        *)

\* Every state is well typed: hooks, requests and the backend's rows of the page
\* that is mounted, and no page keeps more than MaxNet + 1 requests in flight.
THEOREM TypeCorrect == Spec => []TypeOK
<1>1. Inv => TypeOK
  <2> SUFFICES ASSUME Inv PROVE TypeOK
    OBVIOUS
  <2>1. OnPage /\ route = "users" => Users!TypeOK
    BY DEF Inv, PageInv, UsersInv
  <2>2. OnPage /\ route = "licenses" => Licenses!TypeOK
    BY DEF Inv, PageInv, LicensesInv
  <2>3. OnPage /\ route = "content" => Contents!TypeOK
    BY DEF Inv, PageInv, ContentInv, CatalogInv
  <2>4. OnPage /\ route = "audit" => Audit!TypeOK
    BY DEF Inv, PageInv, AuditInv
  <2>5. OnPage /\ route \notin {"users", "content", "licenses", "audit"} => Reports!TypeOK
    BY DEF Inv, PageInv, ReportsInv
  <2> QED BY <2>1, <2>2, <2>3, <2>4, <2>5 DEF Inv, TypeOK
<1> QED BY <1>1, InvAlways, PTL

\* A table in order shows what was asked or the answer to nothing, unless it waits
\* or says otherwise.
LEMMA Shown ==
  ASSUME NEW q, Tabled(net, ui.mixed, ui.shown, q)
  PROVE  \/ \E i \in DOMAIN net : net[i].kind = "list"
         \/ ui.mixed
         \/ ui.shown \in {None, q}
BY DEF Tabled, SomeListing

\* The rows of a table are the backend's for one page number and filter or those
\* of the demo list, never of both, whatever was done to them since; and when no
\* listing is under way, in whatever order the answers arrived, that page number and
\* filter are the ones on the screen, but for listings that were mixed.  A listing
\* that failed shows the demo list, whatever the filter.
THEOREM TableTheorem == Spec => []TableIsAsked
<1>1. ASSUME Inv PROVE TableIsAsked
  <2>1. CASE OnPage /\ route = "users" /\ ui # Users!Crashed
    <3>1. Tabled(net, ui.mixed, ui.shown, ui.page) /\ ui \in Users!HooksType
      BY <1>1, <2>1 DEF Inv, PageInv, UsersInv
    <3>2. Users!RowsFit(DOMAIN ui.users, ui.shown)
      BY <3>1 DEF Users!HooksType
    <3> QED BY <2>1, <3>1, <3>2, Shown
            DEF TableIsAsked, Users!TableIsAsked, Users!Asking, Users!InFlight, Users!Is
  <2>2. CASE OnPage /\ ui # Users!Crashed /\ route = "licenses"
    <3>1. Tabled(net, ui.mixed, ui.shown, ui.statusFilter) /\ ui \in Licenses!HooksType
      BY <1>1, <2>2 DEF Inv, PageInv, LicensesInv, Licenses!TypeOK
    <3>2. Licenses!RowsFit(DOMAIN ui.licenses, ui.shown)
      BY <3>1 DEF Licenses!HooksType
    <3> QED BY <2>2, <3>1, <3>2, Shown
            DEF TableIsAsked, Licenses!TableIsAsked, Licenses!Asking, Licenses!InFlight, Licenses!Is
  <2>3. CASE OnPage /\ ui # Users!Crashed /\ route = "content"
    <3>1. Tabled(net, ui.mixed, ui.shown, ui.filter) /\ ui \in Contents!HooksType
      BY <1>1, <2>3 DEF Inv, PageInv, ContentInv, CatalogInv, Contents!TypeOK
    <3>2. Contents!RowsFit(DOMAIN ui.content, ui.shown)
      BY <3>1 DEF Contents!HooksType
    <3> QED BY <2>3, <3>1, <3>2, Shown
            DEF TableIsAsked, Contents!TableIsAsked, Contents!Asking, Contents!InFlight, Contents!Is
  <2>4. CASE OnPage /\ ui # Users!Crashed /\ route = "audit"
    <3>1. Tabled(net, ui.mixed, ui.shown, ui.actionFilter) /\ ui \in Audit!HooksType
      BY <1>1, <2>4 DEF Inv, PageInv, AuditInv, Audit!TypeOK
    <3>2. Audit!RowsFit(ui.logs, ui.shown)
      BY <3>1 DEF Audit!HooksType
    <3> QED BY <2>4, <3>1, <3>2, Shown
            DEF TableIsAsked, Audit!TableIsAsked, Audit!Asking, Audit!InFlight, Audit!Is
  <2>5. CASE ~(OnPage /\ ui # Users!Crashed /\ route \in {"users", "content", "licenses", "audit"})
    BY <2>5 DEF TableIsAsked
  <2> QED BY <2>1, <2>2, <2>3, <2>4, <2>5
<1> QED BY <1>1, InvAlways, PTL

\* A drawer, a preview or an inspector shows the details of its own row or none,
\* whichever answers arrive late.
THEOREM PanelTheorem == Spec => []PanelIsAsked
<1>1. ASSUME Inv PROVE PanelIsAsked
  <2>1. ASSUME OnPage, route \in {"licenses", "content", "audit"}
        PROVE  Paneled(net, ui.panel.mixed, ui.panel.subject, ui.panel.shown)
    BY <1>1, <2>1 DEF Inv, PageInv, LicensesInv, ContentInv, CatalogInv, AuditInv, PanelInv
  <2> QED BY <2>1 DEF PanelIsAsked, Licenses!PanelIsAsked, Paneled
<1> QED BY <1>1, InvAlways, PTL

\* On the page of users, an invariant of its forms holds unless it has crashed,
\* when it has no request left.
LEMMA FormsHold ==
  ASSUME Inv, OnPage, route = "users"
  PROVE  \A i \in DOMAIN net :
           net[i].kind \in Users!Form =>
             Attached(net[i], ui.form[net[i].kind], timer[net[i].kind])
BY DEF Inv, PageInv, UsersInv, Formed

\* Only a form that was about to close leaves its request to a later opening.
THEOREM ClosingFormsTheorem == Spec => []OnlyClosingFormsLeaveCalls
<1>1. Inv => OnlyClosingFormsLeaveCalls
  BY FormsHold DEF OnlyClosingFormsLeaveCalls, Users!OnlyClosingFormsLeaveCalls,
     Users!InFlight, Users!Is, Attached
<1> QED BY <1>1, InvAlways, PTL

\* A confidential document is not shown while the window has no focus.
THEOREM HiddenTheorem == Spec => []DocumentHiddenWithoutFocus
<1>1. Inv => DocumentHiddenWithoutFocus
  BY DEF Inv, PageInv, ContentInv, DocumentHiddenWithoutFocus
<1> QED BY <1>1, InvAlways, PTL

\* While RevenuePage or SystemPage shows simulated figures, it says so or has a load
\* under way. Nothing is said of DashboardPage, which never says so.
THEOREM SimulationTheorem == Spec => []SimulationAnnounced
<1>1. Inv => SimulationAnnounced
  BY DEF Inv, PageInv, ReportsInv, SimulationAnnounced
<1> QED BY <1>1, InvAlways, PTL

\* Arriving where one may be mounts a page.
LEMMA NeverDenied ==
  ASSUME NEW u, NEW r, Arrive(u, r), r \in Page => MayVisit(u, r)
  PROVE  ~Denied'
<1>1. route' = r
  BY DEF Arrive
<1>2. CASE r \in Page
  BY <1>1, <1>2, MountedInv DEF Denied
<1>3. CASE r \notin Page
  BY <1>1, <1>3 DEF Denied
<1> QED BY <1>2, <1>3

\* Neither a redirect nor a link of the sidebar leads to where one is redirected
\* again: the routes, the default route and the sidebar agree on who may see what.
THEOREM LinksTheorem == Spec => LinksLead
<1>1. ASSUME Denied', Redirect PROVE FALSE
  <2>1. DefaultRoute(user) \in Page => MayVisit(user, DefaultRoute(user))
    BY DefaultPage, Pages7
  <2> QED BY <1>1, <2>1, NeverDenied DEF Redirect
<1>2. ASSUME Denied', NEW r \in NavItems(user), Follow(r) PROVE FALSE
  <2>1. MayVisit(user, r)
    BY DEF NavItems, NavPerms, MayVisit, Required
  <2> QED BY <1>2, <2>1, NeverDenied DEF Follow
<1>3. [Next]_vars => [Denied' => ~Redirect /\ \A r \in NavItems(user) : ~Follow(r)]_vars
  BY <1>1, <1>2
<1> QED BY <1>3, PTL DEF Spec, LinksLead

\* Whoever is signed out arrives at no page.
LEMMA NobodyArrives ==
  ASSUME NEW r, Arrive(None, r)
  PROVE  ~OnPage'
BY DEF Arrive, MayVisit, HasPermission, Blank, OnPage

\* An account that is known to be deactivated stays so whatever the console does,
\* for as long as the page is mounted.
THEOREM DeactivatedTheorem == Spec => DeactivatedForGood
<1>1. ASSUME Inv, OnPage, OnPage', route = "users", Next PROVE Users!DeactivatedStays
  <2>1. CASE Work
    <3>1. UsersInv /\ Users!Next /\ Len(net) <= MaxNet + 1
      BY <1>1, <2>1 DEF Work, PageNext, Inv, PageInv
    <3> QED BY <3>1, DeactivatedStep
  <2>2. CASE Leave
    BY <1>1, <2>2, Pages7 DEF Leave, Arrive, OnPage
  <2>3. CASE Reload
    BY <2>3 DEF Reload, Users!DeactivatedStays
  <2>4. CASE SignOut
    BY <1>1, <2>4, NobodyArrives DEF SignOut
  <2>5. ~(Redirect \/ AskWho)
    BY <1>1 DEF Redirect, AskWho, OnPage, Denied
  <2>6. ~(OpenLogin \/ (\E r \in Page : Follow(r)) \/ (\E u \in User : SignIn(u)))
    BY <1>1 DEF OpenLogin, Follow, SignIn
  <2> QED BY <1>1, <2>1, <2>2, <2>3, <2>4, <2>5, <2>6 DEF Next
<1>2. Inv /\ [Next]_vars => [OnPage /\ OnPage' /\ route = "users" => Users!DeactivatedStays]_vars
  BY <1>1
<1> QED BY <1>2, InvAlways, PTL DEF Spec, DeactivatedForGood

=============================================================================

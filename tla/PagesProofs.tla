---------------------------- MODULE PagesProofs ----------------------------
(***************************************************************************)
(* What the pages of the dashboard but that of users preserve, for any     *)
(* number of rows and requests: what their tables and panels have in       *)
(* common, then each page, whose invariant every step of it keeps.         *)
(* ConsoleProofs goes on to the page of users and to the console.          *)
(***************************************************************************)
EXTENDS Console, SequenceTheorems, FiniteSetTheorems, TLAPS

-----------------------------------------------------------------------------
(* The requests in flight: where request j of the rest was before request  *)
(* i was answered, and where request k went.                               *)
Old(i, j) == IF j < i THEN j ELSE j + 1
New(i, k) == IF k < i THEN k ELSE k - 1

\* What a sequence holds is of its type.
LEMMA InSequence ==
  ASSUME NEW S, NEW s \in Seq(S), NEW i \in DOMAIN s
  PROVE  s[i] \in S
OBVIOUS

\* The requests before and after the one that is answered.
LEMMA Pieces ==
  ASSUME NEW S, NEW s \in Seq(S), NEW i \in 1..Len(s)
  PROVE  /\ SubSeq(s, 1, i-1) \in Seq(S)
         /\ Len(SubSeq(s, 1, i-1)) = i - 1
         /\ \A j \in 1..i-1 : SubSeq(s, 1, i-1)[j] = s[j]
         /\ SubSeq(s, i+1, Len(s)) \in Seq(S)
         /\ Len(SubSeq(s, i+1, Len(s))) = Len(s) - i
         /\ \A j \in 1..Len(s) - i : SubSeq(s, i+1, Len(s))[j] = s[i + j]
OBVIOUS

Without(s, i) == SubSeq(s, 1, i-1) \o SubSeq(s, i+1, Len(s))

\* Each request that is left is one of the others.
LEMMA Removed ==
  ASSUME NEW S, NEW s \in Seq(S), NEW i \in 1..Len(s)
  PROVE  /\ Without(s, i) \in Seq(S)
         /\ Len(Without(s, i)) = Len(s) - 1
         /\ \A j \in 1..Len(Without(s, i)) :
               Old(i, j) \in 1..Len(s) \ {i} /\ Without(s, i)[j] = s[Old(i, j)]
<1> DEFINE a == SubSeq(s, 1, i-1)
           b == SubSeq(s, i+1, Len(s))
           t == Without(s, i)
<1>1. /\ a \in Seq(S) /\ Len(a) = i - 1
      /\ b \in Seq(S) /\ Len(b) = Len(s) - i
      /\ \A j \in 1..i-1 : a[j] = s[j]
      /\ \A j \in 1..Len(s) - i : b[j] = s[i + j]
  BY Pieces
<1>2. t = a \o b
  BY DEF Without
<1> HIDE DEF a, b, t
<1>3. /\ t \in Seq(S)
      /\ Len(t) = Len(a) + Len(b)
      /\ \A j \in 1..Len(a) + Len(b) : t[j] = IF j <= Len(a) THEN a[j] ELSE b[j - Len(a)]
  BY <1>1, <1>2, ConcatProperties
<1>4. Len(t) = Len(s) - 1
  BY <1>1, <1>3
<1>5. ASSUME NEW j \in 1..Len(t)
      PROVE  Old(i, j) \in 1..Len(s) \ {i} /\ t[j] = s[Old(i, j)]
  <2>1. CASE j < i
    BY <1>1, <1>3, <1>4, <2>1 DEF Old
  <2>2. CASE ~(j < i)
    <3>1. t[j] = b[j - (i - 1)]
      BY <1>1, <1>3, <1>4, <2>2
    <3>2. j - (i - 1) \in 1..Len(s) - i /\ i + (j - (i - 1)) = j + 1
      BY <1>4, <2>2
    <3> QED BY <1>1, <1>4, <2>2, <3>1, <3>2, SMTT(20) DEF Old
  <2> QED BY <2>1, <2>2
<1> QED BY <1>3, <1>4, <1>5 DEF t

\* Each of the others is left.
LEMMA Moved ==
  ASSUME NEW S, NEW s \in Seq(S), NEW i \in DOMAIN s, NEW k \in DOMAIN s \ {i}
  PROVE  /\ New(i, k) \in DOMAIN Without(s, i)
         /\ Without(s, i)[New(i, k)] = s[k]
<1>1. /\ New(i, k) \in 1..Len(s) - 1
      /\ Old(i, New(i, k)) = k
  BY DEF Old, New
<1> QED BY <1>1, Removed

\* A request is answered and another sent: each that is left is one of the
\* others or the new one, which is last.
LEMMA Replaced ==
  ASSUME NEW S, NEW s \in Seq(S), NEW i \in DOMAIN s, NEW c \in S
  PROVE  LET t == Append(Without(s, i), c)
         IN  /\ t \in Seq(S)
             /\ Len(t) = Len(s)
             /\ t[Len(s)] = c
             /\ \A j \in DOMAIN t \ {Len(s)} :
                   /\ Old(i, j) \in DOMAIN s \ {i}
                   /\ t[j] = s[Old(i, j)]
             /\ \A k \in DOMAIN s \ {i} :
                   New(i, k) \in DOMAIN t /\ t[New(i, k)] = s[k]
<1> DEFINE w == Without(s, i)
<1>1. /\ w \in Seq(S) /\ Len(w) = Len(s) - 1
      /\ \A j \in 1..Len(w) : Old(i, j) \in DOMAIN s \ {i} /\ w[j] = s[Old(i, j)]
  BY Removed
<1>2. \A k \in DOMAIN s \ {i} : New(i, k) \in DOMAIN w /\ w[New(i, k)] = s[k]
  BY Moved
<1> HIDE DEF w
<1> QED BY <1>1, <1>2, SMTT(30) DEF w

-----------------------------------------------------------------------------
(* Tables.  What TableIsAsked rests on: unless listings were mixed, those  *)
(* under way ask what the screen asks, and one is or its answer is shown,  *)
(* or none.                                                                *)
SomeListing(s) == \E k \in DOMAIN s : s[k].kind = "list"

Tabled(s, mixed, shown, q) ==
  \/ mixed
  \/ /\ \A k \in DOMAIN s : s[k].kind = "list" => s[k].of = q
     /\ SomeListing(s) \/ shown \in {None, q}

\* An answer that arrives is shown, or is not about the table.
LEMMA TableReceives ==
  ASSUME NEW S, NEW s \in Seq(S), NEW i \in DOMAIN s,
         NEW mixed, NEW shown, NEW q, Tabled(s, mixed, shown, q)
  PROVE  /\ s[i].kind = "list" => /\ Tabled(Without(s, i), mixed, s[i].of, q)
                                  /\ Tabled(Without(s, i), mixed, None, q)
         /\ s[i].kind # "list" => Tabled(Without(s, i), mixed, shown, q)
<1>1. \A j \in DOMAIN Without(s, i) :
        Old(i, j) \in DOMAIN s \ {i} /\ Without(s, i)[j] = s[Old(i, j)]
  BY Removed
<1>2. \A k \in DOMAIN s \ {i} :
        New(i, k) \in DOMAIN Without(s, i) /\ Without(s, i)[New(i, k)] = s[k]
  BY Moved
<1> QED BY <1>1, <1>2, Zenon DEF Tabled, SomeListing

\* A request of another kind does not touch the table.
LEMMA TableSends ==
  ASSUME NEW S, NEW s \in Seq(S), NEW c \in S,
         NEW mixed, NEW shown, NEW q, Tabled(s, mixed, shown, q), c.kind # "list"
  PROVE  Tabled(Append(s, c), mixed, shown, q)
<1>1. /\ \A j \in DOMAIN Append(s, c) : j \in DOMAIN s \/ Append(s, c)[j] = c
      /\ \A k \in DOMAIN s : k \in DOMAIN Append(s, c) /\ Append(s, c)[k] = s[k]
  OBVIOUS
<1> QED BY <1>1 DEF Tabled, SomeListing

\* A listing that is sent asks what the screen asks and is the only one, or the
\* table says that listings were mixed.
LEMMA TableAsks ==
  ASSUME NEW S, NEW s \in Seq(S), NEW c \in S, NEW mixed, NEW shown, NEW q,
         c.kind = "list", c.of # q \/ SomeListing(s) => mixed
  PROVE  Tabled(Append(s, c), mixed, shown, q)
<1>1. /\ \A j \in DOMAIN Append(s, c) :
           \/ j \in DOMAIN s /\ Append(s, c)[j] = s[j]
           \/ Append(s, c)[j] = c
      /\ \E j \in DOMAIN Append(s, c) : Append(s, c)[j] = c
  <2>1. Len(s) + 1 \in DOMAIN Append(s, c)
    OBVIOUS
  <2> QED BY <2>1
<1> QED BY <1>1, Zenon DEF Tabled, SomeListing

\* The same for a listing that is sent when an answer arrives.
LEMMA TableAsksAgain ==
  ASSUME NEW S, NEW s \in Seq(S), NEW i \in DOMAIN s, NEW c \in S,
         NEW mixed, NEW shown, NEW q, c.kind = "list", c.of # q \/ SomeListing(s) => mixed
  PROVE  Tabled(Append(Without(s, i), c), mixed, shown, q)
<1>1. Without(s, i) \in Seq(S)
  BY Removed
<1>2. SomeListing(Without(s, i)) => SomeListing(s)
  BY Removed DEF SomeListing
<1> QED BY <1>1, <1>2, TableAsks

\* What the backend does to a request, of the table or not, the table does not see.
LEMMA TableServes ==
  ASSUME NEW s, NEW t, NEW mixed, NEW shown, NEW q, Tabled(s, mixed, shown, q),
         DOMAIN t = DOMAIN s,
         \A k \in DOMAIN s : t[k].kind = s[k].kind /\ t[k].of = s[k].of
  PROVE  Tabled(t, mixed, shown, q)
BY DEF Tabled, SomeListing

-----------------------------------------------------------------------------
(* Panels.  What PanelIsAsked rests on: unless details were mixed, those   *)
(* shown and those under way are of the row the panel is about.            *)
Paneled(s, mixed, subject, shown) ==
  \/ mixed
  \/ /\ shown \in {None, subject}
     /\ \A k \in DOMAIN s : s[k].kind = "detail" => s[k].of = subject

\* The details that arrive are those of the row the panel is about.
LEMMA PanelReceives ==
  ASSUME NEW S, NEW s \in Seq(S), NEW i \in DOMAIN s,
         NEW mixed, NEW subject, NEW shown, Paneled(s, mixed, subject, shown)
  PROVE  /\ Paneled(Without(s, i), mixed, subject, shown)
         /\ s[i].kind = "detail" => Paneled(Without(s, i), mixed, subject, s[i].of)
<1>1. \A j \in DOMAIN Without(s, i) :
        Old(i, j) \in DOMAIN s \ {i} /\ Without(s, i)[j] = s[Old(i, j)]
  BY Removed
<1> QED BY <1>1, Zenon DEF Paneled

\* A request of another kind does not touch the panel.
LEMMA PanelSends ==
  ASSUME NEW S, NEW s \in Seq(S), NEW c \in S,
         NEW mixed, NEW subject, NEW shown, Paneled(s, mixed, subject, shown),
         c.kind # "detail"
  PROVE  Paneled(Append(s, c), mixed, subject, shown)
<1>1. \A j \in DOMAIN Append(s, c) :
        (j \in DOMAIN s /\ Append(s, c)[j] = s[j]) \/ Append(s, c)[j] = c
  OBVIOUS
<1> QED BY <1>1 DEF Paneled

\* A panel that opens waits for the details of its own row alone, or says that
\* it does not.
LEMMA PanelAsks ==
  ASSUME NEW S, NEW s \in Seq(S), NEW c \in S, NEW mixed,
         (\E k \in DOMAIN s : s[k].kind = "detail") => mixed
  PROVE  Paneled(Append(s, c), mixed, c.of, None)
<1>1. \A j \in DOMAIN Append(s, c) :
        (j \in DOMAIN s /\ Append(s, c)[j] = s[j]) \/ Append(s, c)[j] = c
  OBVIOUS
<1> QED BY <1>1 DEF Paneled

\* What the backend does to a request the panel does not see.
LEMMA PanelServes ==
  ASSUME NEW s, NEW t, NEW mixed, NEW subject, NEW shown, Paneled(s, mixed, subject, shown),
         DOMAIN t = DOMAIN s,
         \A k \in DOMAIN s : t[k].kind = s[k].kind /\ t[k].of = s[k].of
  PROVE  Paneled(t, mixed, subject, shown)
BY DEF Paneled

-----------------------------------------------------------------------------
(* The invariants of the pages: what their properties rest on.             *)
PanelInv(rows) ==
  /\ Paneled(net, ui.panel.mixed, ui.panel.subject, ui.panel.shown)
  /\ ui.panel.open => ui.panel.subject \in rows

LicensesInv ==
  /\ Licenses!TypeOK
  /\ Tabled(net, ui.mixed, ui.shown, ui.statusFilter)
  /\ PanelInv(Licenses!Id)

CatalogInv ==
  /\ Contents!TypeOK
  /\ Tabled(net, ui.mixed, ui.shown, ui.filter)
  /\ PanelInv(Contents!Id)

ContentInv == CatalogInv /\ Contents!DocumentHiddenWithoutFocus

AuditInv ==
  /\ Audit!TypeOK
  /\ Tabled(net, ui.mixed, ui.shown, ui.actionFilter)
  /\ PanelInv(Demo)

ReportsInv ==
  /\ Reports!TypeOK
  /\ ui.page # "dashboard" => ui.settled = {}
  /\ Reports!SimulationAnnounced

-----------------------------------------------------------------------------
(* What an action may do to the requests of a page, its table and its      *)
(* panel.  S is the type of its requests, rows that of its rows, and q the *)
(* question on the screen.                                                 *)

TableSame == ui'.mixed = ui.mixed /\ ui'.shown = ui.shown

(* The panel is as it was, or closed, or shows less. *)
PanelSame == /\ ui'.panel.mixed = ui.panel.mixed
             /\ ui'.panel.subject = ui.panel.subject
             /\ ui'.panel.shown \in {ui.panel.shown, None}
             /\ ui'.panel.open => ui.panel.open

\* A panel that is kept or closed is about the same row.
LEMMA PanelKept ==
  ASSUME NEW rows, PanelInv(rows), PanelSame,
         Paneled(net', ui.panel.mixed, ui.panel.subject, ui.panel.shown)
  PROVE  PanelInv(rows)'
BY DEF PanelInv, PanelSame, Paneled

\* The page sends a request that is neither a listing nor for details.
LEMMA Sends ==
  ASSUME NEW S, net \in Seq(S), NEW c \in S, c.kind \notin {"list", "detail"},
         net' = Append(net, c),
         NEW q, Tabled(net, ui.mixed, ui.shown, q), TableSame,
         NEW rows, PanelInv(rows), PanelSame
  PROVE  /\ net' \in Seq(S) /\ Len(net') = Len(net) + 1
         /\ Tabled(net', ui'.mixed, ui'.shown, q)
         /\ PanelInv(rows)'
<1>1. c.kind # "list" /\ c.kind # "detail"
  OBVIOUS
<1>2. Tabled(net', ui.mixed, ui.shown, q)
  BY <1>1, TableSends
<1>3. Paneled(net', ui.panel.mixed, ui.panel.subject, ui.panel.shown)
  BY <1>1, PanelSends DEF PanelInv
<1>4. net' \in Seq(S) /\ Len(net') = Len(net) + 1
  OBVIOUS
<1> QED BY <1>2, <1>3, <1>4, PanelKept DEF TableSame

\* The page sends a listing.
LEMMA Asks ==
  ASSUME NEW S, net \in Seq(S), NEW c \in S, c.kind = "list",
         net' = Append(net, c),
         NEW q, c.of # q \/ SomeListing(net) => ui'.mixed,
         NEW rows, PanelInv(rows), PanelSame
  PROVE  /\ net' \in Seq(S) /\ Len(net') = Len(net) + 1
         /\ Tabled(net', ui'.mixed, ui'.shown, q)
         /\ PanelInv(rows)'
<1>1. Tabled(net', ui'.mixed, ui'.shown, q)
  BY TableAsks
<1>2. Paneled(net', ui.panel.mixed, ui.panel.subject, ui.panel.shown)
  BY PanelSends DEF PanelInv
<1>3. net' \in Seq(S) /\ Len(net') = Len(net) + 1
  OBVIOUS
<1> QED BY <1>1, <1>2, <1>3, PanelKept

\* The page gets an answer and sends a listing.
LEMMA AsksAgain ==
  ASSUME NEW S, net \in Seq(S), NEW i \in DOMAIN net, NEW c \in S, c.kind = "list",
         net' = Append(Without(net, i), c),
         NEW q, c.of # q \/ SomeListing(net) => ui'.mixed,
         NEW rows, PanelInv(rows), PanelSame
  PROVE  /\ net' \in Seq(S) /\ Len(net') = Len(net)
         /\ Tabled(net', ui'.mixed, ui'.shown, q)
         /\ PanelInv(rows)'
<1>1. Tabled(net', ui'.mixed, ui'.shown, q)
  BY TableAsksAgain
<1>2. Paneled(net', ui.panel.mixed, ui.panel.subject, ui.panel.shown)
  <2>1. Paneled(Without(net, i), ui.panel.mixed, ui.panel.subject, ui.panel.shown)
    BY PanelReceives DEF PanelInv
  <2>2. Without(net, i) \in Seq(S)
    BY Removed
  <2> QED BY <2>1, <2>2, PanelSends
<1>3. net' \in Seq(S) /\ Len(net') = Len(net)
  BY Replaced
<1> QED BY <1>1, <1>2, <1>3, PanelKept

\* The page gets an answer that is not the details of a row.
LEMMA Receives ==
  ASSUME NEW S, net \in Seq(S), NEW i \in DOMAIN net, net' = Without(net, i),
         NEW q, Tabled(net, ui.mixed, ui.shown, q), ui'.mixed = ui.mixed,
         IF net[i].kind = "list" THEN ui'.shown \in {None, net[i].of}
                                 ELSE ui'.shown = ui.shown,
         NEW rows, PanelInv(rows), PanelSame
  PROVE  /\ net' \in Seq(S) /\ Len(net') = Len(net) - 1
         /\ Tabled(net', ui'.mixed, ui'.shown, q)
         /\ PanelInv(rows)'
<1>1. Tabled(net', ui'.mixed, ui'.shown, q)
  BY TableReceives
<1>2. Paneled(net', ui.panel.mixed, ui.panel.subject, ui.panel.shown)
  BY PanelReceives DEF PanelInv
<1>3. net' \in Seq(S) /\ Len(net') = Len(net) - 1
  BY Removed
<1> QED BY <1>1, <1>2, <1>3, PanelKept

\* The backend serves a request.
LEMMA Serves ==
  ASSUME NEW S, net \in Seq(S), NEW i \in DOMAIN net, NEW c \in S,
         c.kind = net[i].kind, c.of = net[i].of,
         net' = [net EXCEPT ![i] = c],
         NEW q, Tabled(net, ui.mixed, ui.shown, q), TableSame,
         NEW rows, PanelInv(rows), PanelSame
  PROVE  /\ net' \in Seq(S) /\ Len(net') = Len(net)
         /\ Tabled(net', ui'.mixed, ui'.shown, q)
         /\ PanelInv(rows)'
<1>1. /\ net' \in Seq(S) /\ Len(net') = Len(net) /\ DOMAIN net' = DOMAIN net
      /\ \A k \in DOMAIN net : net'[k].kind = net[k].kind /\ net'[k].of = net[k].of
  OBVIOUS
<1>2. Tabled(net', ui.mixed, ui.shown, q)
  BY <1>1, TableServes
<1>3. Paneled(net', ui.panel.mixed, ui.panel.subject, ui.panel.shown)
  BY <1>1, PanelServes DEF PanelInv
<1> QED BY <1>1, <1>2, <1>3, PanelKept DEF TableSame

(* A panel is opened on the row a new request asks about. *)
PanelOpens(row) ==
  /\ ui'.panel.subject = row /\ ui'.panel.shown = None
  /\ (\E k \in DOMAIN net : net[k].kind = "detail") => ui'.panel.mixed

\* The page opens its panel and asks for the details of a row.
LEMMA Opens ==
  ASSUME NEW S, net \in Seq(S), NEW rows, NEW c \in S, c.kind = "detail", c.of \in rows,
         net' = Append(net, c),
         NEW q, Tabled(net, ui.mixed, ui.shown, q), TableSame, PanelOpens(c.of)
  PROVE  /\ net' \in Seq(S) /\ Len(net') = Len(net) + 1
         /\ Tabled(net', ui'.mixed, ui'.shown, q)
         /\ PanelInv(rows)'
<1>1. Tabled(net', ui.mixed, ui.shown, q)
  BY TableSends
<1>2. Paneled(net', ui'.panel.mixed, c.of, None)
  BY PanelAsks DEF PanelOpens
<1>3. net' \in Seq(S) /\ Len(net') = Len(net) + 1
  OBVIOUS
<1> QED BY <1>1, <1>2, <1>3 DEF TableSame, PanelOpens, PanelInv

\* The page gets an answer, and asks for the details of the row again.
LEMMA OpensAgain ==
  ASSUME NEW S, net \in Seq(S), NEW rows, NEW i \in DOMAIN net, net[i].kind # "list",
         NEW c \in S, c.kind = "detail", c.of \in rows,
         net' = Append(Without(net, i), c),
         NEW q, Tabled(net, ui.mixed, ui.shown, q), TableSame, PanelOpens(c.of)
  PROVE  /\ net' \in Seq(S) /\ Len(net') = Len(net)
         /\ Tabled(net', ui'.mixed, ui'.shown, q)
         /\ PanelInv(rows)'
<1>1. Without(net, i) \in Seq(S) /\ Tabled(Without(net, i), ui.mixed, ui.shown, q)
  BY Removed, TableReceives
<1>2. Tabled(net', ui.mixed, ui.shown, q)
  BY <1>1, TableSends
<1>3. (\E k \in DOMAIN Without(net, i) : Without(net, i)[k].kind = "detail")
        => ui'.panel.mixed
  <2>1. \A j \in DOMAIN Without(net, i) :
          Old(i, j) \in DOMAIN net \ {i} /\ Without(net, i)[j] = net[Old(i, j)]
    BY Removed
  <2> QED BY <2>1 DEF PanelOpens
<1>4. Paneled(net', ui'.panel.mixed, c.of, None)
  BY <1>1, <1>3, PanelAsks
<1>5. net' \in Seq(S) /\ Len(net') = Len(net)
  BY Replaced
<1> QED BY <1>2, <1>4, <1>5 DEF TableSame, PanelOpens, PanelInv

(* The details of a row arrive. *)
LEMMA Details ==
  ASSUME NEW S, net \in Seq(S), NEW i \in DOMAIN net, net' = Without(net, i),
         net[i].kind = "detail",
         NEW q, Tabled(net, ui.mixed, ui.shown, q), TableSame,
         NEW rows, PanelInv(rows),
         ui'.panel.mixed = ui.panel.mixed, ui'.panel.subject = ui.panel.subject,
         ui'.panel.open = ui.panel.open, ui'.panel.shown = net[i].of
  PROVE  /\ net' \in Seq(S) /\ Len(net') = Len(net) - 1
         /\ Tabled(net', ui'.mixed, ui'.shown, q)
         /\ PanelInv(rows)'
<1>1. Tabled(net', ui.mixed, ui.shown, q)
  BY TableReceives
<1>2. Paneled(net', ui.panel.mixed, ui.panel.subject, net[i].of)
  BY PanelReceives DEF PanelInv
<1>3. net' \in Seq(S) /\ Len(net') = Len(net) - 1
  BY Removed
<1> QED BY <1>1, <1>2, <1>3 DEF TableSame, PanelInv

-----------------------------------------------------------------------------
(* AuditPage. *)

\* fetchLogs, by any of the filters and buttons.
LEMMA AuditRefetches ==
  ASSUME AuditInv, NEW h \in Audit!HooksType, h.panel = ui.panel, Audit!Refetch(h)
  PROVE  AuditInv' /\ Len(net') = Len(net) + 1 /\ Len(net) < MaxNet
<1> DEFINE S == Audit!Listings(Audit!Filter, {<<>>})
           c == Audit!Listing(h.actionFilter)
<1>1. net \in Seq(S)
  BY DEF AuditInv, Audit!TypeOK
<1>2. c \in S /\ c.kind = "list" /\ c.of = h.actionFilter
  BY DEF Audit!HooksType, Audit!Listings, Audit!Listing, Audit!Answers, Audit!Waiting
<1>3. net' = Append(net, c) /\ Len(net) < MaxNet /\ server' = server
  BY DEF Audit!Refetch, Audit!Send
<1>4. /\ ui' \in Audit!HooksType
      /\ ui'.mixed = SomeListing(net)
      /\ ui'.actionFilter = h.actionFilter
      /\ ui'.panel = ui.panel
  BY DEF Audit!HooksType, Audit!Refetch, Audit!Mixes, Audit!Asking, Audit!InFlight,
         Audit!Is, SomeListing
<1> HIDE DEF c
<1>5. /\ net' \in Seq(S) /\ Len(net') = Len(net) + 1
      /\ Tabled(net', ui'.mixed, ui'.shown, ui'.actionFilter)
      /\ PanelInv(Demo)'
  BY <1>1, <1>2, <1>3, <1>4, Asks DEF AuditInv, PanelSame
<1> QED BY <1>3, <1>4, <1>5 DEF AuditInv, Audit!TypeOK

\* A listing of audit records is answered or fails.
LEMMA AuditAnswered ==
  ASSUME AuditInv, NEW i \in Audit!InFlight, NEW rows \in SUBSET Demo,
         NEW of \in {None, net[i].of}, Audit!RowsFit(rows, of), Audit!Table(i, rows, of)
  PROVE  AuditInv' /\ Len(net') = Len(net) - 1
<1> DEFINE S == Audit!Listings(Audit!Filter, {<<>>})
<1>1. net \in Seq(S) /\ i \in DOMAIN net /\ server' = server
  BY DEF AuditInv, Audit!TypeOK, Audit!InFlight, Audit!Table
<1>2. net[i].kind = "list" /\ net[i].of \in Audit!Filter
  <2>1. net[i] \in S
    BY <1>1, InSequence
  <2> QED BY <2>1 DEF Audit!Listings
<1>3. net' = Without(net, i)
  BY DEF Audit!Table, Audit!Receive, Audit!RemoveAt, Without
<1>4. /\ ui' \in Audit!HooksType
      /\ ui'.mixed = ui.mixed
      /\ ui'.actionFilter = ui.actionFilter
      /\ ui'.shown \in {None, net[i].of}
      /\ ui'.panel = ui.panel
  BY <1>2 DEF AuditInv, Audit!TypeOK, Audit!HooksType, Audit!Table
<1>5. /\ net' \in Seq(S) /\ Len(net') = Len(net) - 1
      /\ Tabled(net', ui'.mixed, ui'.shown, ui'.actionFilter)
      /\ PanelInv(Demo)'
  BY <1>1, <1>2, <1>3, <1>4, Receives DEF AuditInv, PanelSame
<1> QED BY <1>1, <1>4, <1>5 DEF AuditInv, Audit!TypeOK

\* The backend serves a listing.
LEMMA AuditServed ==
  ASSUME AuditInv, NEW i \in Audit!InFlight, Audit!ServeList(i)
  PROVE  AuditInv' /\ Len(net') = Len(net)
<1> DEFINE S == Audit!Listings(Audit!Filter, {<<>>})
           c == [net[i] EXCEPT !.answer = Audit!Done]
<1>1. net \in Seq(S) /\ i \in DOMAIN net
  BY DEF AuditInv, Audit!TypeOK, Audit!InFlight
<1>2. net[i] \in S
  BY <1>1, InSequence
<1>3. c \in S /\ c.kind = net[i].kind /\ c.of = net[i].of
  BY <1>2 DEF Audit!Listings, Audit!Answers, Audit!Done
<1>4. net' = [net EXCEPT ![i] = c] /\ ui' = ui /\ server' = server
  BY DEF Audit!ServeList, Audit!Served
<1> HIDE DEF c
<1>5. /\ net' \in Seq(S) /\ Len(net') = Len(net)
      /\ Tabled(net', ui'.mixed, ui'.shown, ui.actionFilter)
      /\ PanelInv(Demo)'
  BY <1>1, <1>3, <1>4, Serves DEF AuditInv, PanelSame, TableSame
<1> QED BY <1>4, <1>5 DEF AuditInv, Audit!TypeOK

\* Every step of AuditPage keeps its invariant.
LEMMA AuditStep ==
  ASSUME AuditInv, Len(net) <= MaxNet + 1, Audit!Next
  PROVE  AuditInv' /\ Len(net') <= MaxNet + 1
<1>1. /\ ui \in Audit!HooksType
      /\ net \in Seq(Audit!Listings(Audit!Filter, {<<>>}))
      /\ Len(net) \in Nat /\ MaxNet \in Nat
  BY BoundAssumption DEF AuditInv, Audit!TypeOK
<1>2. CASE Audit!Refresh
  BY <1>1, <1>2, AuditRefetches DEF Audit!Refresh
<1>3. ASSUME NEW f \in Audit!Filter, Audit!SetFilter(f)
      PROVE  AuditInv' /\ Len(net') <= MaxNet + 1
  <2> DEFINE h == [ui EXCEPT !.actionFilter = f]
  <2>1. h \in Audit!HooksType /\ h.panel = ui.panel
    BY <1>1 DEF Audit!HooksType
  <2>2. Audit!Refetch(h)
    BY <1>3 DEF Audit!SetFilter
  <2> HIDE DEF h
  <2> QED BY <1>1, <2>1, <2>2, AuditRefetches
<1>4. ASSUME NEW r \in Demo, Audit!Inspect(r)
      PROVE  AuditInv' /\ Len(net') <= MaxNet + 1
  <2> DEFINE p == [Audit!ClosedPanel EXCEPT !.open = TRUE, !.subject = r, !.shown = r]
  <2>1. p \in Audit!Panels(Demo) /\ p.subject = r /\ p.shown = r
    BY DEF Audit!ClosedPanel, Audit!Panels
  <2>2. ui' = [ui EXCEPT !.panel = p] /\ UNCHANGED <<net, server>>
    BY <1>4 DEF Audit!Inspect
  <2> HIDE DEF p
  <2>3. /\ ui' \in Audit!HooksType /\ ui'.panel = p
        /\ ui'.mixed = ui.mixed /\ ui'.shown = ui.shown
        /\ ui'.actionFilter = ui.actionFilter
    BY <1>1, <2>1, <2>2 DEF Audit!HooksType
  <2>4. \A k \in DOMAIN net : net[k].kind # "detail"
    <3>1. \A k \in DOMAIN net : net[k] \in Audit!Listings(Audit!Filter, {<<>>})
      BY <1>1, InSequence
    <3> QED BY <3>1 DEF Audit!Listings
  <2>5. PanelInv(Demo)'
    BY <2>1, <2>2, <2>3, <2>4 DEF PanelInv, Paneled
  <2> QED BY <2>2, <2>3, <2>5 DEF AuditInv, Audit!TypeOK
<1>5. CASE Audit!CloseInspector
  <2>1. /\ ui' \in Audit!HooksType
        /\ ui'.panel.subject = ui.panel.subject /\ ui'.panel.shown = ui.panel.shown
        /\ ui'.panel.mixed = ui.panel.mixed /\ ~ui'.panel.open
        /\ ui'.mixed = ui.mixed /\ ui'.shown = ui.shown
        /\ ui'.actionFilter = ui.actionFilter
    BY <1>1, <1>5 DEF Audit!CloseInspector, Audit!HooksType, Audit!Panels
  <2>2. UNCHANGED <<net, server>>
    BY <1>5 DEF Audit!CloseInspector
  <2> QED BY <2>1, <2>2 DEF AuditInv, Audit!TypeOK, PanelInv
<1>6. ASSUME NEW i \in Audit!InFlight, Audit!Listed(i) \/ Audit!ListFails(i)
      PROVE  AuditInv' /\ Len(net') <= MaxNet + 1
  <2>1. server \in SUBSET Demo
    BY DEF AuditInv, Audit!TypeOK
  <2>2. Audit!RowsFit(server, net[i].of) /\ Audit!RowsFit(Demo, None)
    BY DEF AuditInv, Audit!TypeOK, Audit!RowsFit
  <2> QED BY <1>1, <1>6, <2>1, <2>2, AuditAnswered DEF Audit!Listed, Audit!ListFails
<1>7. ASSUME NEW i \in Audit!InFlight, Audit!ServeList(i)
      PROVE  AuditInv' /\ Len(net') <= MaxNet + 1
  BY <1>1, <1>7, AuditServed
<1> QED BY <1>2, <1>3, <1>4, <1>5, <1>6, <1>7 DEF Audit!Next

-----------------------------------------------------------------------------
(* LicensesPage. *)

\* The tables of three pages are typed alike.
LEMMA TableType ==
  ASSUME NEW ids, NEW statuses, NEW f
  PROVE  LET typed == DOMAIN f \subseteq ids /\ f \in [DOMAIN f -> statuses]
         IN  /\ f \in Users!Tables(ids, statuses) <=> typed
             /\ f \in Licenses!Tables(ids, statuses) <=> typed
             /\ f \in Contents!Tables(ids, statuses) <=> typed
BY DEF Users!Tables, Licenses!Tables, Contents!Tables

\* A table without rows is typed.
LEMMA EmptyTable ==
  ASSUME NEW ids, NEW statuses
  PROVE  /\ <<>> \in Users!Tables(ids, statuses)
         /\ <<>> \in Licenses!Tables(ids, statuses)
         /\ <<>> \in Contents!Tables(ids, statuses)
<1>1. <<>> \in [{} -> statuses] /\ {} \in SUBSET ids
  OBVIOUS
<1>2. <<>> \in UNION {[rows -> statuses] : rows \in SUBSET ids}
  BY <1>1, Zenon
<1> QED BY <1>2, Zenon DEF Users!Tables, Licenses!Tables, Contents!Tables

\* The type of a request in flight, spelled out.
LEMMA LicensesCalls ==
  ASSUME LicensesInv, NEW i \in Licenses!InFlight
  PROVE  /\ net \in Seq(Licenses!CallType)
         /\ i \in DOMAIN net
         /\ net[i] \in Licenses!CallType
         /\ net[i].kind \in {"list", "detail", "revoke", "issue", "kill"}
         /\ net[i].kind = "list" =>
              /\ net[i].of \in Licenses!Filter
              /\ net[i].rows \in Licenses!Tables(License, Licenses!Status)
              /\ DOMAIN net[i].rows \subseteq Licenses!Listable(net[i].of)
              /\ net[i] \in Licenses!Listings(Licenses!Filter,
                                              Licenses!Tables(License, Licenses!Status))
         /\ net[i].kind = "detail" => net[i].of \in Licenses!Id
         /\ net[i].kind \in {"revoke", "issue"} =>
              /\ net[i].question \in Licenses!Filter
              /\ net[i].of \in Licenses!Id \cup {None}
         /\ net[i].kind = "kill" => net[i].of \in Licenses!Id
<1>1. net \in Seq(Licenses!CallType) /\ i \in DOMAIN net
  BY DEF LicensesInv, Licenses!TypeOK, Licenses!InFlight
<1>2. net[i] \in Licenses!CallType
  BY <1>1, InSequence
<1> QED BY <1>1, <1>2 DEF Licenses!CallType, Licenses!Listings, Licenses!Requests

\* A request that was served has the type it had.
LEMMA LicensesAnswered ==
  ASSUME NEW c \in Licenses!CallType
  PROVE  LET d == [c EXCEPT !.answer = Licenses!Done]
         IN  d \in Licenses!CallType /\ d.kind = c.kind /\ d.of = c.of
BY DEF Licenses!CallType, Licenses!Listings, Licenses!Requests, Licenses!Answers, Licenses!Done

\* fetchLicenses, by the filters and buttons.
LEMMA LicensesRefetches ==
  ASSUME LicensesInv, NEW h \in Licenses!HooksType, h.panel = ui.panel, Licenses!Refetch(h)
  PROVE  LicensesInv' /\ Len(net') = Len(net) + 1 /\ Len(net) < MaxNet
<1> DEFINE c == Licenses!Listing(h.statusFilter)
<1>1. net \in Seq(Licenses!CallType)
  BY DEF LicensesInv, Licenses!TypeOK
<1>2. c \in Licenses!CallType /\ c.kind = "list" /\ c.of = h.statusFilter
  <2>1. <<>> \in Licenses!Tables(License, Licenses!Status)
    BY EmptyTable
  <2> QED BY <2>1 DEF Licenses!CallType, Licenses!HooksType, Licenses!Listings,
                      Licenses!Listing, Licenses!Answers, Licenses!Waiting
<1>3. net' = Append(net, c) /\ Len(net) < MaxNet /\ server' = server
  BY DEF Licenses!Refetch, Licenses!Send
<1>4. /\ ui' \in Licenses!HooksType
      /\ ui'.mixed = SomeListing(net)
      /\ ui'.statusFilter = h.statusFilter
      /\ ui'.panel = ui.panel
  BY DEF Licenses!HooksType, Licenses!Refetch, Licenses!Fetching, Licenses!Mixes,
         Licenses!Asking, Licenses!InFlight, Licenses!Is, SomeListing
<1> HIDE DEF c
<1>5. /\ net' \in Seq(Licenses!CallType) /\ Len(net') = Len(net) + 1
      /\ Tabled(net', ui'.mixed, ui'.shown, ui'.statusFilter)
      /\ PanelInv(Licenses!Id)'
  BY <1>1, <1>2, <1>3, <1>4, Asks DEF LicensesInv, PanelSame
<1> QED BY <1>3, <1>4, <1>5 DEF LicensesInv, Licenses!TypeOK

\* A listing of licenses is answered or fails.
LEMMA LicensesTable ==
  ASSUME LicensesInv, NEW i \in Licenses!InFlight, net[i].kind = "list",
         NEW rows \in Licenses!Tables(Licenses!Id, Licenses!Status),
         NEW of \in {None, net[i].of}, Licenses!RowsFit(DOMAIN rows, of),
         Licenses!Table(i, rows, of)
  PROVE  LicensesInv' /\ Len(net') = Len(net) - 1
<1>1. net' = Without(net, i) /\ server' = server
  BY DEF Licenses!Table, Licenses!Receive, Licenses!RemoveAt, Without
<1>2. /\ ui' \in Licenses!HooksType
      /\ ui'.mixed = ui.mixed /\ ui'.shown \in {None, net[i].of}
      /\ ui'.statusFilter = ui.statusFilter
      /\ ui'.panel = ui.panel
  BY LicensesCalls DEF LicensesInv, Licenses!TypeOK, Licenses!HooksType, Licenses!Table
<1>3. /\ net' \in Seq(Licenses!CallType) /\ Len(net') = Len(net) - 1
      /\ Tabled(net', ui'.mixed, ui'.shown, ui'.statusFilter)
      /\ PanelInv(Licenses!Id)'
  BY <1>1, <1>2, LicensesCalls, Receives DEF LicensesInv, PanelSame
<1> QED BY <1>1, <1>2, <1>3 DEF LicensesInv, Licenses!TypeOK

(* Revoke, Issue and Kill. *)
LEMMA LicensesSends ==
  ASSUME LicensesInv, NEW c \in Licenses!CallType, c.kind \notin {"list", "detail"},
         Licenses!Send(c), ui' \in Licenses!HooksType, TableSame, PanelSame,
         ui'.statusFilter = ui.statusFilter, server' = server
  PROVE  LicensesInv' /\ Len(net') = Len(net) + 1 /\ Len(net) < MaxNet
<1>1. net' = Append(net, c) /\ Len(net) < MaxNet
  BY DEF Licenses!Send
<1>2. net \in Seq(Licenses!CallType)
  BY DEF LicensesInv, Licenses!TypeOK
<1>3. /\ net' \in Seq(Licenses!CallType) /\ Len(net') = Len(net) + 1
      /\ Tabled(net', ui'.mixed, ui'.shown, ui'.statusFilter)
      /\ PanelInv(Licenses!Id)'
  BY <1>1, <1>2, Sends DEF LicensesInv
<1> QED BY <1>1, <1>3 DEF LicensesInv, Licenses!TypeOK

(* RevokeFails, IssueFails and KillFails. *)
LEMMA LicensesReceives ==
  ASSUME LicensesInv, NEW i \in Licenses!InFlight, net[i].kind # "list",
         Licenses!Receive(i), ui' \in Licenses!HooksType, TableSame, PanelSame,
         ui'.statusFilter = ui.statusFilter, server' = server
  PROVE  LicensesInv' /\ Len(net') = Len(net) - 1
<1>1. net' = Without(net, i)
  BY DEF Licenses!Receive, Licenses!RemoveAt, Without
<1>2. /\ net' \in Seq(Licenses!CallType) /\ Len(net') = Len(net) - 1
      /\ Tabled(net', ui'.mixed, ui'.shown, ui'.statusFilter)
      /\ PanelInv(Licenses!Id)'
  BY <1>1, LicensesCalls, Receives DEF LicensesInv, TableSame
<1> QED BY <1>1, <1>2 DEF LicensesInv, Licenses!TypeOK

(* Revoked and Issued. *)
LEMMA LicensesAsksAgain ==
  ASSUME LicensesInv, NEW i \in Licenses!InFlight, net[i].kind \in {"revoke", "issue"},
         Licenses!ReceiveAndSend(i, Licenses!Listing(net[i].question)),
         ui' \in Licenses!HooksType, PanelSame,
         net[i].question # ui.statusFilter \/ SomeListing(net) => ui'.mixed,
         ui'.statusFilter = ui.statusFilter, server' = server
  PROVE  LicensesInv' /\ Len(net') = Len(net)
<1> DEFINE c == Licenses!Listing(net[i].question)
<1>1. net' = Append(Without(net, i), c)
  BY DEF Licenses!ReceiveAndSend, Licenses!RemoveAt, Without
<1>2. c \in Licenses!CallType /\ c.kind = "list" /\ c.of = net[i].question
  <2>1. <<>> \in Licenses!Tables(License, Licenses!Status)
    BY EmptyTable
  <2>2. net[i].question \in Licenses!Filter
    BY LicensesCalls
  <2> QED BY <2>1, <2>2 DEF Licenses!CallType, Licenses!Listings,
                            Licenses!Listing, Licenses!Answers, Licenses!Waiting
<1> HIDE DEF c
<1>3. /\ net' \in Seq(Licenses!CallType) /\ Len(net') = Len(net)
      /\ Tabled(net', ui'.mixed, ui'.shown, ui'.statusFilter)
      /\ PanelInv(Licenses!Id)'
  BY <1>1, <1>2, LicensesCalls, AsksAgain DEF LicensesInv
<1> QED BY <1>1, <1>3 DEF LicensesInv, Licenses!TypeOK

(* OpenIssue, CloseIssue and CloseDrawer. *)
LEMMA LicensesStays ==
  ASSUME LicensesInv, ui' \in Licenses!HooksType, TableSame, PanelSame,
         ui'.statusFilter = ui.statusFilter, UNCHANGED <<net, server>>
  PROVE  LicensesInv' /\ Len(net') = Len(net)
BY PanelKept DEF LicensesInv, Licenses!TypeOK, TableSame, PanelInv

\* The backend serves a request.
LEMMA LicensesServes ==
  ASSUME LicensesInv, NEW i \in Licenses!InFlight, NEW c \in Licenses!CallType,
         c.kind = net[i].kind, c.of = net[i].of, net' = [net EXCEPT ![i] = c],
         ui' = ui, server' \in [License -> {"active", "revoked"}]
  PROVE  LicensesInv' /\ Len(net') = Len(net)
<1>1. /\ net' \in Seq(Licenses!CallType) /\ Len(net') = Len(net)
      /\ Tabled(net', ui'.mixed, ui'.shown, ui'.statusFilter)
      /\ PanelInv(Licenses!Id)'
  BY LicensesCalls, Serves DEF LicensesInv, PanelSame, TableSame
<1> QED BY <1>1 DEF LicensesInv, Licenses!TypeOK

(* The drawer. *)
LEMMA LicensesInspecting ==
  ASSUME NEW r \in Licenses!Id
  PROVE  LET c == Licenses!Call("detail", r)
         IN  c \in Licenses!CallType /\ c.kind = "detail" /\ c.of = r
BY DEF Licenses!Call, Licenses!CallType, Licenses!Requests, Licenses!Answers, Licenses!Waiting

\* The page changes its drawer alone.
LEMMA LicensesPanel ==
  ASSUME LicensesInv, NEW p \in Licenses!Panels(Licenses!Id), ui' = [ui EXCEPT !.panel = p]
  PROVE  /\ ui' \in Licenses!HooksType /\ ui'.panel = p
         /\ TableSame /\ ui'.statusFilter = ui.statusFilter
BY DEF LicensesInv, Licenses!TypeOK, Licenses!HooksType, TableSame

\* The drawer as it opens.
LEMMA LicensesOpened ==
  ASSUME NEW r \in Licenses!Id
  PROVE  LET p == Licenses!Inspecting(r)
         IN  /\ p \in Licenses!Panels(Licenses!Id)
             /\ p.subject = r /\ p.shown = None
             /\ (\E k \in DOMAIN net : net[k].kind = "detail") => p.mixed
BY DEF Licenses!Inspecting, Licenses!Panels, Licenses!Asking, Licenses!InFlight, Licenses!Is

\* openInspector
LEMMA LicensesInspect ==
  ASSUME LicensesInv, NEW r \in Licenses!Id, Licenses!Inspect(r)
  PROVE  LicensesInv' /\ Len(net') = Len(net) + 1 /\ Len(net) < MaxNet
<1> DEFINE c == Licenses!Call("detail", r)
           p == Licenses!Inspecting(r)
<1>1. net' = Append(net, c) /\ Len(net) < MaxNet /\ server' = server
  BY DEF Licenses!Inspect, Licenses!Send
<1>2. ui' = [ui EXCEPT !.panel = p]
  BY DEF Licenses!Inspect
<1>3. c \in Licenses!CallType /\ c.kind = "detail" /\ c.of = r
  BY LicensesInspecting
<1>4. /\ p \in Licenses!Panels(Licenses!Id)
      /\ p.subject = r /\ p.shown = None
      /\ (\E k \in DOMAIN net : net[k].kind = "detail") => p.mixed
  BY LicensesOpened
<1> HIDE DEF c, p
<1>5. /\ ui' \in Licenses!HooksType /\ ui'.panel = p
      /\ TableSame /\ ui'.statusFilter = ui.statusFilter
  BY <1>2, <1>4, LicensesPanel
<1>6. net \in Seq(Licenses!CallType)
  BY DEF LicensesInv, Licenses!TypeOK
<1>7. PanelOpens(c.of)
  BY <1>3, <1>4, <1>5 DEF PanelOpens
<1>8. /\ net' \in Seq(Licenses!CallType) /\ Len(net') = Len(net) + 1
      /\ Tabled(net', ui'.mixed, ui'.shown, ui'.statusFilter)
      /\ PanelInv(Licenses!Id)'
  BY <1>1, <1>3, <1>5, <1>6, <1>7, Opens DEF LicensesInv
<1> QED BY <1>1, <1>5, <1>8 DEF LicensesInv, Licenses!TypeOK

\* A device was killed: the drawer asks for its details again.
LEMMA LicensesKilled ==
  ASSUME LicensesInv, NEW i \in Licenses!InFlight, Licenses!Killed(i)
  PROVE  LicensesInv' /\ Len(net') = Len(net)
<1> DEFINE c == Licenses!Call("detail", net[i].of)
           p == Licenses!Inspecting(net[i].of)
<1>1. net' = Append(Without(net, i), c) /\ server' = server /\ net[i].kind = "kill"
  BY DEF Licenses!Killed, Licenses!ReceiveAndSend, Licenses!RemoveAt, Without, Licenses!Is
<1>2. ui' = [ui EXCEPT !.panel = p]
  BY DEF Licenses!Killed
<1>3. net[i].of \in Licenses!Id /\ net \in Seq(Licenses!CallType) /\ i \in DOMAIN net
  BY <1>1, LicensesCalls
<1>4. c \in Licenses!CallType /\ c.kind = "detail" /\ c.of = net[i].of
  BY <1>3, LicensesInspecting
<1>5. /\ p \in Licenses!Panels(Licenses!Id)
      /\ p.subject = net[i].of /\ p.shown = None
      /\ (\E k \in DOMAIN net : net[k].kind = "detail") => p.mixed
  BY <1>3, LicensesOpened
<1> HIDE DEF c, p
<1>6. /\ ui' \in Licenses!HooksType /\ ui'.panel = p
      /\ TableSame /\ ui'.statusFilter = ui.statusFilter
  BY <1>2, <1>5, LicensesPanel
<1>7. PanelOpens(c.of)
  BY <1>4, <1>5, <1>6 DEF PanelOpens
<1>8. /\ net' \in Seq(Licenses!CallType) /\ Len(net') = Len(net)
      /\ Tabled(net', ui'.mixed, ui'.shown, ui'.statusFilter)
      /\ PanelInv(Licenses!Id)'
  BY <1>1, <1>3, <1>4, <1>6, <1>7, OpensAgain DEF LicensesInv
<1> QED BY <1>1, <1>6, <1>8 DEF LicensesInv, Licenses!TypeOK

\* The details of a license arrive, or fail to.
LEMMA LicensesInspected ==
  ASSUME LicensesInv, NEW i \in Licenses!InFlight, Licenses!Inspected(i)
  PROVE  LicensesInv' /\ Len(net') = Len(net) - 1
<1> DEFINE p == Licenses!Detailed(i)
<1>1. /\ net' = Without(net, i) /\ server' = server /\ net[i].kind = "detail"
      /\ ui' = [ui EXCEPT !.panel = p]
  BY DEF Licenses!Inspected, Licenses!Receive, Licenses!RemoveAt, Without, Licenses!Is
<1>2. net[i].of \in Licenses!Id /\ net \in Seq(Licenses!CallType) /\ i \in DOMAIN net
  BY <1>1, LicensesCalls
<1>3. /\ p \in Licenses!Panels(Licenses!Id)
      /\ p.mixed = ui.panel.mixed /\ p.subject = ui.panel.subject
      /\ p.open = ui.panel.open /\ p.shown = net[i].of
  BY <1>2 DEF LicensesInv, Licenses!TypeOK, Licenses!HooksType, Licenses!Panels,
              Licenses!Detailed
<1> HIDE DEF p
<1>4. /\ ui' \in Licenses!HooksType /\ ui'.panel = p
      /\ TableSame /\ ui'.statusFilter = ui.statusFilter
  BY <1>1, <1>3, LicensesPanel
<1>5. /\ net' \in Seq(Licenses!CallType) /\ Len(net') = Len(net) - 1
      /\ Tabled(net', ui'.mixed, ui'.shown, ui'.statusFilter)
      /\ PanelInv(Licenses!Id)'
  BY <1>1, <1>2, <1>3, <1>4, Details DEF LicensesInv
<1> QED BY <1>1, <1>4, <1>5 DEF LicensesInv, Licenses!TypeOK

\* The answer that a device was not killed.
LEMMA LicensesKillFails ==
  ASSUME LicensesInv, NEW i \in Licenses!InFlight, Licenses!KillFails(i)
  PROVE  LicensesInv' /\ Len(net') = Len(net) - 1
<1>1. Licenses!Receive(i) /\ server' = server /\ net[i].kind # "list"
  BY DEF Licenses!KillFails, Licenses!Is
<1>2. /\ ui' \in Licenses!HooksType
      /\ TableSame /\ PanelSame /\ ui'.statusFilter = ui.statusFilter
  BY DEF LicensesInv, Licenses!TypeOK, Licenses!KillFails, Licenses!HooksType,
         Licenses!Panels, TableSame, PanelSame
<1> QED BY <1>1, <1>2, LicensesReceives

(* The table and the form. *)
LEMMA LicensesRevoked ==
  ASSUME LicensesInv, NEW i \in Licenses!InFlight,
         Licenses!Revoked(i) \/ Licenses!Issued(i)
  PROVE  LicensesInv' /\ Len(net') = Len(net)
<1>1. /\ net[i].kind \in {"revoke", "issue"} /\ server' = server
      /\ Licenses!ReceiveAndSend(i, Licenses!Listing(net[i].question))
  BY DEF Licenses!Revoked, Licenses!Issued, Licenses!Is
<1> DEFINE h == Licenses!Fetching(ui, net[i].question)
<1>2. /\ h \in Licenses!HooksType /\ h.panel = ui.panel
      /\ h.statusFilter = ui.statusFilter
      /\ net[i].question # ui.statusFilter \/ SomeListing(net) => h.mixed
  BY DEF LicensesInv, Licenses!TypeOK, Licenses!Fetching, Licenses!HooksType, Licenses!Mixes,
         Licenses!Asking, Licenses!InFlight, Licenses!Is, SomeListing
<1>3. \/ ui' = [h EXCEPT !.actioningId = None]
      \/ ui' = [h EXCEPT !.isIssueOpen = FALSE, !.loading = FALSE]
  BY DEF Licenses!Revoked, Licenses!Issued, Licenses!Cleared
<1> HIDE DEF h
<1>4. /\ ui' \in Licenses!HooksType /\ ui'.panel = h.panel
      /\ ui'.statusFilter = h.statusFilter /\ ui'.mixed = h.mixed
  BY <1>2, <1>3 DEF Licenses!HooksType
<1>5. PanelSame
  BY <1>2, <1>4 DEF PanelSame
<1> QED BY <1>1, <1>2, <1>4, <1>5, LicensesAsksAgain

\* A revocation or an issue fails.
LEMMA LicensesFails ==
  ASSUME LicensesInv, NEW i \in Licenses!InFlight,
         Licenses!RevokeFails(i) \/ Licenses!IssueFails(i)
  PROVE  LicensesInv' /\ Len(net') = Len(net) - 1
<1> DEFINE revoked == [r \in DOMAIN ui.licenses |->
                         IF r = net[i].of THEN "REVOKED" ELSE ui.licenses[r]]
           issued  == [r \in DOMAIN ui.licenses \cup {Licenses!Simulated} |->
                         IF r = Licenses!Simulated THEN "ACTIVE" ELSE ui.licenses[r]]
<1>1. Licenses!Receive(i) /\ server' = server /\ net[i].kind # "list"
  BY DEF Licenses!RevokeFails, Licenses!IssueFails, Licenses!Is
<1>2. ui \in Licenses!HooksType
  BY DEF LicensesInv, Licenses!TypeOK
<1>3. /\ DOMAIN ui.licenses \subseteq Licenses!Id
      /\ ui.licenses \in [DOMAIN ui.licenses -> Licenses!Status]
  <2>1. ui.licenses \in Licenses!Tables(Licenses!Id, Licenses!Status)
    BY <1>2 DEF Licenses!HooksType
  <2> QED BY <2>1, TableType
<1>4. /\ revoked \in Licenses!Tables(Licenses!Id, Licenses!Status)
      /\ issued \in Licenses!Tables(Licenses!Id, Licenses!Status)
  BY <1>3, TableType DEF Licenses!Status, Licenses!Id
<1>5. \/ ui' = [ui EXCEPT !.licenses = revoked, !.actioningId = None]
      \/ ui' = [[ui EXCEPT !.isIssueOpen = FALSE, !.loading = FALSE]
                  EXCEPT !.licenses = issued]
  BY DEF Licenses!RevokeFails, Licenses!IssueFails, Licenses!Cleared
<1>8. /\ Licenses!RowsFit(DOMAIN revoked, ui.shown)
      /\ Licenses!RowsFit(DOMAIN issued, ui.shown)
  <2>1. Licenses!RowsFit(DOMAIN ui.licenses, ui.shown)
    BY <1>2 DEF Licenses!HooksType
  <2> QED BY <2>1 DEF Licenses!RowsFit
<1> HIDE DEF revoked, issued
<1>6. /\ ui' \in Licenses!HooksType /\ ui'.panel = ui.panel
      /\ TableSame /\ ui'.statusFilter = ui.statusFilter
  BY <1>2, <1>4, <1>5, <1>8 DEF Licenses!HooksType, TableSame
<1>7. PanelSame
  BY <1>6 DEF PanelSame
<1> QED BY <1>1, <1>6, <1>7, LicensesReceives

\* Every way the backend serves a request of the page.
LEMMA LicensesServed ==
  ASSUME LicensesInv, NEW i \in Licenses!InFlight,
         Licenses!ServeList(i) \/ Licenses!ServeRevoke(i) \/ Licenses!ServeOther(i)
  PROVE  LicensesInv' /\ Len(net') = Len(net)
<1> DEFINE d == [net[i] EXCEPT !.answer = Licenses!Done]
           e == [net[i] EXCEPT !.answer = Licenses!Done, !.rows = server]
<1>1. /\ net[i] \in Licenses!CallType /\ ui' = ui
      /\ server \in [License -> {"active", "revoked"}]
  BY LicensesCalls DEF LicensesInv, Licenses!TypeOK, Licenses!ServeList,
                       Licenses!ServeRevoke, Licenses!ServeOther
<1>2. CASE Licenses!ServeList(i)
  <2>1. /\ net[i] \in Licenses!Listings(Licenses!Filter,
                                        Licenses!Tables(License, Licenses!Status))
        /\ net[i].of = ""
    BY <1>2, LicensesCalls DEF Licenses!ServeList, Licenses!Is
  <2>2. /\ server \in Licenses!Tables(License, Licenses!Status)
        /\ DOMAIN server \subseteq Licenses!Listable("")
    BY <1>1, TableType DEF Licenses!Status, Licenses!Listable
  <2>3. /\ e \in Licenses!CallType
        /\ e.kind = net[i].kind /\ e.of = net[i].of
    BY <2>1, <2>2 DEF Licenses!Listings, Licenses!CallType, Licenses!Answers, Licenses!Done
  <2>4. net' = [net EXCEPT ![i] = e] /\ server' = server
    BY <1>2 DEF Licenses!ServeList
  <2> HIDE DEF e
  <2> QED BY <1>1, <2>3, <2>4, LicensesServes
<1>3. CASE Licenses!ServeRevoke(i) \/ Licenses!ServeOther(i)
  <2>1. d \in Licenses!CallType /\ d.kind = net[i].kind /\ d.of = net[i].of
    BY <1>1, LicensesAnswered
  <2>2. /\ net' = [net EXCEPT ![i] = d]
        /\ server' \in [License -> {"active", "revoked"}]
    BY <1>1, <1>3 DEF Licenses!ServeRevoke, Licenses!ServeOther, Licenses!Served
  <2> HIDE DEF d
  <2> QED BY <1>1, <2>1, <2>2, LicensesServes
<1> QED BY <1>2, <1>3

\* Every step of LicensesPage keeps its invariant.
LEMMA LicensesStep ==
  ASSUME LicensesInv, Len(net) <= MaxNet + 1, Licenses!Next
  PROVE  LicensesInv' /\ Len(net') <= MaxNet + 1
<1> DEFINE Goal == LicensesInv' /\ Len(net') <= MaxNet + 1
<1>1. /\ ui \in Licenses!HooksType /\ net \in Seq(Licenses!CallType)
      /\ server \in [License -> {"active", "revoked"}]
      /\ Len(net) \in Nat /\ MaxNet \in Nat
  BY BoundAssumption DEF LicensesInv, Licenses!TypeOK
<1>2. CASE Licenses!Refresh
  BY <1>1, <1>2, LicensesRefetches DEF Licenses!Refresh
<1>3. ASSUME NEW f \in Licenses!Filter, Licenses!SetFilter(f)
      PROVE  Goal
  <2> DEFINE h == [ui EXCEPT !.statusFilter = f]
  <2>1. h \in Licenses!HooksType /\ h.panel = ui.panel
    BY <1>1 DEF Licenses!HooksType
  <2>2. Licenses!Refetch(h)
    BY <1>3 DEF Licenses!SetFilter
  <2> HIDE DEF h
  <2> QED BY <1>1, <2>1, <2>2, LicensesRefetches
<1>4. CASE Licenses!OpenIssue \/ Licenses!CloseIssue
  <2>1. /\ ui' \in Licenses!HooksType
        /\ TableSame /\ PanelSame /\ ui'.statusFilter = ui.statusFilter
    BY <1>1, <1>4 DEF Licenses!OpenIssue, Licenses!CloseIssue, Licenses!HooksType,
                      TableSame, PanelSame
  <2>2. UNCHANGED <<net, server>>
    BY <1>4 DEF Licenses!OpenIssue, Licenses!CloseIssue
  <2> QED BY <1>1, <2>1, <2>2, LicensesStays
<1>5. CASE Licenses!CloseDrawer
  <2>1. /\ ui' \in Licenses!HooksType
        /\ TableSame /\ PanelSame /\ ui'.statusFilter = ui.statusFilter
    BY <1>1, <1>5 DEF Licenses!CloseDrawer, Licenses!HooksType, Licenses!Panels,
                      TableSame, PanelSame
  <2>2. UNCHANGED <<net, server>>
    BY <1>5 DEF Licenses!CloseDrawer
  <2> QED BY <1>1, <2>1, <2>2, LicensesStays
<1>6. CASE Licenses!Issue
  <2> DEFINE c == [kind |-> "issue", of |-> None, question |-> ui.statusFilter,
                   answer |-> Licenses!Waiting]
  <2>1. c \in Licenses!CallType /\ c.kind \notin {"list", "detail"}
    BY <1>1 DEF Licenses!CallType, Licenses!HooksType, Licenses!Answers, Licenses!Waiting
  <2>2. /\ ui' \in Licenses!HooksType
        /\ TableSame /\ PanelSame /\ ui'.statusFilter = ui.statusFilter
    BY <1>1, <1>6 DEF Licenses!Issue, Licenses!HooksType, TableSame, PanelSame
  <2>3. Licenses!Send(c) /\ server' = server
    BY <1>6 DEF Licenses!Issue
  <2> HIDE DEF c
  <2> QED BY <1>1, <2>1, <2>2, <2>3, LicensesSends
<1>7. CASE Licenses!Kill
  <2> DEFINE c == [kind |-> "kill", of |-> ui.panel.subject, from |-> ui.panel.shown,
                   answer |-> Licenses!Waiting]
  <2>1. ui.panel.subject \in Licenses!Id /\ ui.panel.shown \in Licenses!Id
    BY <1>1, <1>7 DEF Licenses!Kill, Licenses!CanKill, LicensesInv, PanelInv,
                      Licenses!HooksType, Licenses!Panels
  <2>2. c \in Licenses!CallType /\ c.kind \notin {"list", "detail"}
    BY <2>1 DEF Licenses!CallType, Licenses!Answers, Licenses!Waiting
  <2>3. Licenses!Send(c) /\ ui' = ui /\ server' = server
    BY <1>7 DEF Licenses!Kill
  <2> HIDE DEF c
  <2> QED BY <1>1, <2>2, <2>3, LicensesSends DEF TableSame, PanelSame
<1>8. ASSUME NEW r \in Licenses!Id, Licenses!Revoke(r)
      PROVE  Goal
  <2>1. /\ Licenses!RevokeCall(r) \in Licenses!CallType
        /\ Licenses!RevokeCall(r).kind \notin {"list", "detail"}
    BY <1>1 DEF Licenses!CallType, Licenses!RevokeCall, Licenses!HooksType,
                Licenses!Answers, Licenses!Waiting
  <2>2. /\ ui' \in Licenses!HooksType
        /\ TableSame /\ PanelSame /\ ui'.statusFilter = ui.statusFilter
    BY <1>1, <1>8 DEF Licenses!Revoke, Licenses!HooksType, TableSame, PanelSame
  <2>3. Licenses!Send(Licenses!RevokeCall(r)) /\ server' = server
    BY <1>8 DEF Licenses!Revoke
  <2> QED BY <1>1, <2>1, <2>2, <2>3, LicensesSends
<1>9. ASSUME NEW r \in Licenses!Id, Licenses!Inspect(r)
      PROVE  Goal
  BY <1>1, <1>9, LicensesInspect
<1>10. ASSUME NEW i \in Licenses!InFlight, Licenses!Listed(i)
       PROVE  Goal
  <2>1. net[i].kind = "list" /\ Licenses!Table(i, net[i].rows, net[i].of)
    BY <1>10 DEF Licenses!Listed, Licenses!Is
  <2>2. /\ net[i].rows \in Licenses!Tables(Licenses!Id, Licenses!Status)
        /\ Licenses!RowsFit(DOMAIN net[i].rows, net[i].of)
    BY <2>1, LicensesCalls, TableType DEF Licenses!Id, Licenses!RowsFit
  <2> QED BY <1>1, <2>1, <2>2, LicensesTable
<1>11. ASSUME NEW i \in Licenses!InFlight, Licenses!ListFails(i)
       PROVE  Goal
  <2> DEFINE rows == [d \in Demo |-> "ACTIVE"]
  <2>1. net[i].kind = "list" /\ Licenses!Table(i, rows, None)
    BY <1>11 DEF Licenses!ListFails, Licenses!Is
  <2>2. /\ rows \in Licenses!Tables(Licenses!Id, Licenses!Status)
        /\ Licenses!RowsFit(DOMAIN rows, None)
    BY TableType DEF Licenses!Id, Licenses!Status, Licenses!RowsFit
  <2> HIDE DEF rows
  <2> QED BY <1>1, <2>1, <2>2, LicensesTable
<1>12. ASSUME NEW i \in Licenses!InFlight,
              \/ Licenses!Revoked(i) \/ Licenses!Issued(i) \/ Licenses!RevokeFails(i)
              \/ Licenses!IssueFails(i) \/ Licenses!Killed(i) \/ Licenses!KillFails(i)
              \/ Licenses!Inspected(i)
       PROVE  Goal
  BY <1>1, <1>12, LicensesRevoked, LicensesFails, LicensesKilled, LicensesKillFails,
     LicensesInspected
<1>13. ASSUME NEW i \in Licenses!InFlight,
              Licenses!ServeList(i) \/ Licenses!ServeRevoke(i) \/ Licenses!ServeOther(i)
       PROVE  Goal
  BY <1>1, <1>13, LicensesServed
<1> QED BY <1>2, <1>3, <1>4, <1>5, <1>6, <1>7, <1>8, <1>9, <1>10, <1>11, <1>12, <1>13
     DEF Licenses!Next, Licenses!Click, Licenses!Answer, Licenses!Serve

-----------------------------------------------------------------------------
(* ContentPage. *)

\* The type of a request in flight, spelled out.
LEMMA ContentCalls ==
  ASSUME CatalogInv, NEW i \in Contents!InFlight
  PROVE  /\ net \in Seq(Contents!CallType)
         /\ i \in DOMAIN net
         /\ net[i] \in Contents!CallType
         /\ net[i].kind = "list" =>
              /\ net[i].of \in Contents!Filter
              /\ net[i].rows \in Contents!Tables(Item, Contents!Stored)
              /\ DOMAIN net[i].rows \subseteq Contents!Listable(net[i].of)
              /\ net[i] \in Contents!Listings(Contents!Filter,
                                              Contents!Tables(Item, Contents!Stored))
         /\ net[i].kind = "detail" => net[i].of \in Contents!Id
         /\ net[i].kind \in Contents!Acts \cup {"upload"} =>
              net[i].filter \in Contents!Filter /\ net[i].kind # "list"
<1>1. net \in Seq(Contents!CallType) /\ i \in DOMAIN net
  BY DEF CatalogInv, Contents!TypeOK, Contents!InFlight
<1>2. net[i] \in Contents!CallType
  BY <1>1, InSequence
<1> QED BY <1>1, <1>2 DEF Contents!CallType, Contents!Listings, Contents!Requests,
                         Contents!Acts

\* A request that was served has the type it had.
LEMMA ContentAnswered ==
  ASSUME NEW c \in Contents!CallType
  PROVE  LET d == [c EXCEPT !.answer = Contents!Done]
         IN  d \in Contents!CallType /\ d.kind = c.kind /\ d.of = c.of
BY DEF Contents!CallType, Contents!Listings, Contents!Requests, Contents!Answers, Contents!Done

\* The type of a new listing.
LEMMA ContentListing ==
  ASSUME NEW q \in Contents!Filter
  PROVE  LET c == Contents!Listing(q)
         IN  c \in Contents!CallType /\ c.kind = "list" /\ c.of = q
<1>1. <<>> \in Contents!Tables(Item, Contents!Stored)
  BY EmptyTable
<1> QED BY <1>1 DEF Contents!CallType, Contents!Listings, Contents!Listing,
                    Contents!Answers, Contents!Waiting

\* fetchContent, by the filters and buttons.
LEMMA ContentRefetches ==
  ASSUME CatalogInv, NEW h \in Contents!HooksType, h.panel = ui.panel, Contents!Refetch(h)
  PROVE  CatalogInv' /\ Len(net') = Len(net) + 1 /\ Len(net) < MaxNet
<1> DEFINE c == Contents!Listing(h.filter)
<1>1. net \in Seq(Contents!CallType) /\ h.filter \in Contents!Filter
  BY DEF CatalogInv, Contents!TypeOK, Contents!HooksType
<1>2. c \in Contents!CallType /\ c.kind = "list" /\ c.of = h.filter
  BY <1>1, ContentListing
<1>3. net' = Append(net, c) /\ Len(net) < MaxNet /\ server' = server
  BY DEF Contents!Refetch, Contents!Send
<1>4. /\ ui' \in Contents!HooksType
      /\ ui'.mixed = SomeListing(net)
      /\ ui'.filter = h.filter
      /\ ui'.panel = ui.panel
  BY DEF Contents!HooksType, Contents!Refetch, Contents!Fetching, Contents!Mixes,
         Contents!Asking, Contents!InFlight, Contents!Is, SomeListing
<1> HIDE DEF c
<1>5. /\ net' \in Seq(Contents!CallType) /\ Len(net') = Len(net) + 1
      /\ Tabled(net', ui'.mixed, ui'.shown, ui'.filter)
      /\ PanelInv(Contents!Id)'
  BY <1>1, <1>2, <1>3, <1>4, Asks DEF CatalogInv, PanelSame
<1> QED BY <1>3, <1>4, <1>5 DEF CatalogInv, Contents!TypeOK

\* A listing of content is answered or fails.
LEMMA ContentCatalog ==
  ASSUME CatalogInv, NEW i \in Contents!InFlight, net[i].kind = "list",
         NEW cards \in Contents!Tables(Contents!Id, Contents!Stored \cup Contents!Local),
         NEW of \in {None, net[i].of}, Contents!RowsFit(DOMAIN cards, of),
         Contents!Catalog(i, cards, of)
  PROVE  CatalogInv' /\ Len(net') = Len(net) - 1
<1>1. net' = Without(net, i) /\ server' = server
  BY DEF Contents!Catalog, Contents!Receive, Contents!RemoveAt, Without
<1>2. /\ ui' \in Contents!HooksType
      /\ ui'.mixed = ui.mixed /\ ui'.shown \in {None, net[i].of}
      /\ ui'.filter = ui.filter
      /\ ui'.panel = ui.panel
  BY ContentCalls DEF CatalogInv, Contents!TypeOK, Contents!HooksType, Contents!Catalog
<1>3. /\ net' \in Seq(Contents!CallType) /\ Len(net') = Len(net) - 1
      /\ Tabled(net', ui'.mixed, ui'.shown, ui'.filter)
      /\ PanelInv(Contents!Id)'
  BY <1>1, <1>2, ContentCalls, Receives DEF CatalogInv, PanelSame
<1> QED BY <1>1, <1>2, <1>3 DEF CatalogInv, Contents!TypeOK

(* Publish, Archive, Delete and Upload. *)
LEMMA ContentSends ==
  ASSUME CatalogInv, NEW kind \in Contents!Acts \cup {"upload"}, NEW r \in Contents!Id \cup {None},
         Contents!Send([kind |-> kind, of |-> r, filter |-> ui.filter,
                        answer |-> Contents!Waiting]),
         ui' \in Contents!HooksType, TableSame, PanelSame,
         ui'.filter = ui.filter, server' = server
  PROVE  CatalogInv' /\ Len(net') = Len(net) + 1 /\ Len(net) < MaxNet
<1> DEFINE c == [kind |-> kind, of |-> r, filter |-> ui.filter, answer |-> Contents!Waiting]
<1>1. net' = Append(net, c) /\ Len(net) < MaxNet
  BY DEF Contents!Send
<1>2. net \in Seq(Contents!CallType) /\ ui.filter \in Contents!Filter
  BY DEF CatalogInv, Contents!TypeOK, Contents!HooksType
<1>3. c \in Contents!CallType /\ c.kind \notin {"list", "detail"}
  BY <1>2 DEF Contents!CallType, Contents!Answers, Contents!Waiting, Contents!Acts
<1> HIDE DEF c
<1>4. /\ net' \in Seq(Contents!CallType) /\ Len(net') = Len(net) + 1
      /\ Tabled(net', ui'.mixed, ui'.shown, ui'.filter)
      /\ PanelInv(Contents!Id)'
  BY <1>1, <1>2, <1>3, Sends DEF CatalogInv
<1> QED BY <1>1, <1>4 DEF CatalogInv, Contents!TypeOK

(* ActFails and UploadFails. *)
LEMMA ContentReceives ==
  ASSUME CatalogInv, NEW i \in Contents!InFlight, net[i].kind # "list",
         Contents!Receive(i), ui' \in Contents!HooksType, TableSame, PanelSame,
         ui'.filter = ui.filter, server' = server
  PROVE  CatalogInv' /\ Len(net') = Len(net) - 1
<1>1. net' = Without(net, i)
  BY DEF Contents!Receive, Contents!RemoveAt, Without
<1>2. /\ net' \in Seq(Contents!CallType) /\ Len(net') = Len(net) - 1
      /\ Tabled(net', ui'.mixed, ui'.shown, ui'.filter)
      /\ PanelInv(Contents!Id)'
  BY <1>1, ContentCalls, Receives DEF CatalogInv, TableSame
<1> QED BY <1>1, <1>2 DEF CatalogInv, Contents!TypeOK

(* Acted and Uploaded. *)
LEMMA ContentDone ==
  ASSUME CatalogInv, NEW i \in Contents!InFlight,
         Contents!Acted(i) \/ Contents!Uploaded(i)
  PROVE  CatalogInv' /\ Len(net') = Len(net)
<1> DEFINE c == Contents!Listing(net[i].filter)
           h == Contents!Fetching(ui, net[i].filter)
<1>1. /\ net[i].kind \in Contents!Acts \cup {"upload"} /\ server' = server
      /\ net' = Append(Without(net, i), c)
  BY DEF Contents!Acted, Contents!Uploaded, Contents!Is, Contents!ReceiveAndSend,
         Contents!RemoveAt, Without
<1>2. c \in Contents!CallType /\ c.kind = "list" /\ c.of = net[i].filter
  <2>1. net[i].filter \in Contents!Filter
    BY <1>1, ContentCalls
  <2> QED BY <2>1, ContentListing
<1>3. /\ h \in Contents!HooksType /\ h.panel = ui.panel /\ h.filter = ui.filter
      /\ net[i].filter # ui.filter \/ SomeListing(net) => h.mixed
  BY DEF CatalogInv, Contents!TypeOK, Contents!Fetching, Contents!HooksType, Contents!Mixes,
         Contents!Asking, Contents!InFlight, Contents!Is, SomeListing
<1>4. ui' = h \/ ui' = [h EXCEPT !.isUploadOpen = FALSE, !.uploading = FALSE]
  BY DEF Contents!Acted, Contents!Uploaded
<1> HIDE DEF c, h
<1>5. /\ ui' \in Contents!HooksType /\ ui'.panel = h.panel
      /\ ui'.filter = h.filter /\ ui'.mixed = h.mixed
  BY <1>3, <1>4 DEF Contents!HooksType
<1>6. PanelSame
  BY <1>3, <1>5 DEF PanelSame
<1>7. /\ net' \in Seq(Contents!CallType) /\ Len(net') = Len(net)
      /\ Tabled(net', ui'.mixed, ui'.shown, ui'.filter)
      /\ PanelInv(Contents!Id)'
  BY <1>1, <1>2, <1>3, <1>5, <1>6, ContentCalls, AsksAgain DEF CatalogInv
<1> QED BY <1>1, <1>5, <1>7 DEF CatalogInv, Contents!TypeOK

\* An action on a card or an upload fails.
LEMMA ContentFails ==
  ASSUME CatalogInv, NEW i \in Contents!InFlight,
         Contents!ActFails(i) \/ Contents!UploadFails(i)
  PROVE  CatalogInv' /\ Len(net') = Len(net) - 1
<1> DEFINE T == Contents!Tables(Contents!Id, Contents!Stored \cup Contents!Local)
           acted == Contents!Simulate(ui.content, net[i].of, net[i].kind)
           uploaded == [c \in DOMAIN ui.content \cup {Contents!Simulated} |->
                          IF c = Contents!Simulated THEN "TRANSCODING" ELSE ui.content[c]]
<1>1. Contents!Receive(i) /\ server' = server /\ net[i].kind # "list"
  BY DEF Contents!ActFails, Contents!UploadFails, Contents!Is, Contents!Acts
<1>2. ui \in Contents!HooksType
  BY DEF CatalogInv, Contents!TypeOK
<1>3. /\ DOMAIN ui.content \subseteq Contents!Id
      /\ ui.content \in [DOMAIN ui.content -> Contents!Stored \cup Contents!Local]
  <2>1. ui.content \in T
    BY <1>2 DEF Contents!HooksType
  <2> QED BY <2>1, TableType
<1>4. acted \in T
  BY <1>3, TableType DEF Contents!Simulate, Contents!Local
<1>5. uploaded \in T
  BY <1>3, TableType DEF Contents!Id, Contents!Local
<1>6. \/ ui' = [ui EXCEPT !.content = acted]
      \/ ui' = [ui EXCEPT !.content = uploaded, !.isUploadOpen = FALSE, !.uploading = FALSE]
  BY DEF Contents!ActFails, Contents!UploadFails
<1>9. /\ Contents!RowsFit(DOMAIN acted, ui.shown)
      /\ Contents!RowsFit(DOMAIN uploaded, ui.shown)
  <2>1. Contents!RowsFit(DOMAIN ui.content, ui.shown)
    BY <1>2 DEF Contents!HooksType
  <2>2. DOMAIN acted \subseteq DOMAIN ui.content
    BY DEF Contents!Simulate
  <2>3. DOMAIN uploaded = DOMAIN ui.content \cup {Contents!Simulated}
    OBVIOUS
  <2> QED BY <2>1, <2>2, <2>3 DEF Contents!RowsFit
<1> HIDE DEF T, acted, uploaded
<1>7. /\ ui' \in Contents!HooksType /\ ui'.panel = ui.panel
      /\ TableSame /\ ui'.filter = ui.filter
  BY <1>2, <1>4, <1>5, <1>6, <1>9 DEF Contents!HooksType, TableSame, T
<1>8. PanelSame
  BY <1>7 DEF PanelSame
<1> QED BY <1>1, <1>7, <1>8, ContentReceives

\* Actions without a request.
LEMMA ContentStays ==
  ASSUME CatalogInv, ui' \in Contents!HooksType, TableSame, PanelSame,
         ui'.filter = ui.filter, UNCHANGED <<net, server>>
  PROVE  CatalogInv' /\ Len(net') = Len(net)
BY PanelKept DEF CatalogInv, Contents!TypeOK, TableSame, PanelInv

\* The preview is opened.
LEMMA ContentPreview ==
  ASSUME CatalogInv, NEW r \in Contents!Id, Contents!Preview(r)
  PROVE  CatalogInv' /\ Len(net') = Len(net) + 1 /\ Len(net) < MaxNet
<1> DEFINE c == Contents!Call("detail", r)
           p == Contents!Inspecting(r)
<1>1. /\ net' = Append(net, c) /\ Len(net) < MaxNet /\ server' = server
      /\ ui' = [ui EXCEPT !.panel = p, !.isBlurred = FALSE]
  BY DEF Contents!Preview, Contents!Send
<1>2. c \in Contents!CallType /\ c.kind = "detail" /\ c.of = r
  BY DEF Contents!Call, Contents!CallType, Contents!Requests, Contents!Answers,
         Contents!Waiting
<1>3. /\ p \in Contents!Panels(Contents!Id) /\ p.subject = r /\ p.shown = None
      /\ (\E k \in DOMAIN net : net[k].kind = "detail") => p.mixed
  BY DEF Contents!Inspecting, Contents!Panels, Contents!Asking, Contents!InFlight,
         Contents!Is
<1> HIDE DEF c, p
<1>4. /\ ui' \in Contents!HooksType /\ ui'.panel = p
      /\ TableSame /\ ui'.filter = ui.filter
  BY <1>1, <1>3 DEF CatalogInv, Contents!TypeOK, Contents!HooksType, TableSame
<1>5. PanelOpens(c.of)
  BY <1>2, <1>3, <1>4 DEF PanelOpens
<1>6. net \in Seq(Contents!CallType)
  BY DEF CatalogInv, Contents!TypeOK
<1>7. /\ net' \in Seq(Contents!CallType) /\ Len(net') = Len(net) + 1
      /\ Tabled(net', ui'.mixed, ui'.shown, ui'.filter)
      /\ PanelInv(Contents!Id)'
  BY <1>1, <1>2, <1>4, <1>5, <1>6, Opens DEF CatalogInv
<1> QED BY <1>1, <1>4, <1>7 DEF CatalogInv, Contents!TypeOK

\* The details of the content that is previewed arrive, or fail to.
LEMMA ContentPreviewed ==
  ASSUME CatalogInv, NEW i \in Contents!InFlight, Contents!Previewed(i)
  PROVE  CatalogInv' /\ Len(net') = Len(net) - 1
<1> DEFINE p == Contents!Detailed(i)
<1>1. /\ net' = Without(net, i) /\ server' = server /\ net[i].kind = "detail"
      /\ ui' = [ui EXCEPT !.panel = p]
  BY DEF Contents!Previewed, Contents!Receive, Contents!RemoveAt, Without, Contents!Is
<1>2. net[i].of \in Contents!Id /\ net \in Seq(Contents!CallType) /\ i \in DOMAIN net
  BY <1>1, ContentCalls
<1>3. /\ p \in Contents!Panels(Contents!Id)
      /\ p.mixed = ui.panel.mixed /\ p.subject = ui.panel.subject
      /\ p.open = ui.panel.open /\ p.shown = net[i].of
  BY <1>2 DEF CatalogInv, Contents!TypeOK, Contents!HooksType, Contents!Panels,
              Contents!Detailed
<1> HIDE DEF p
<1>4. /\ ui' \in Contents!HooksType /\ ui'.panel = p
      /\ TableSame /\ ui'.filter = ui.filter
  BY <1>1, <1>3 DEF CatalogInv, Contents!TypeOK, Contents!HooksType, TableSame
<1>5. /\ net' \in Seq(Contents!CallType) /\ Len(net') = Len(net) - 1
      /\ Tabled(net', ui'.mixed, ui'.shown, ui'.filter)
      /\ PanelInv(Contents!Id)'
  BY <1>1, <1>2, <1>3, <1>4, Details DEF CatalogInv
<1> QED BY <1>1, <1>4, <1>5 DEF CatalogInv, Contents!TypeOK

\* The backend serves a request.
LEMMA ContentServes ==
  ASSUME CatalogInv, NEW i \in Contents!InFlight, NEW c \in Contents!CallType,
         c.kind = net[i].kind, c.of = net[i].of, net' = [net EXCEPT ![i] = c],
         ui' = ui, server' \in [Item -> Contents!Stored]
  PROVE  CatalogInv' /\ Len(net') = Len(net)
<1>1. /\ net' \in Seq(Contents!CallType) /\ Len(net') = Len(net)
      /\ Tabled(net', ui'.mixed, ui'.shown, ui'.filter)
      /\ PanelInv(Contents!Id)'
  BY ContentCalls, Serves DEF CatalogInv, PanelSame, TableSame
<1> QED BY <1>1 DEF CatalogInv, Contents!TypeOK

\* Every way the backend serves a request of the page.
LEMMA ContentServed ==
  ASSUME CatalogInv, NEW i \in Contents!InFlight,
         Contents!ServeList(i) \/ Contents!ServeAct(i) \/ Contents!ServeUpload(i)
  PROVE  CatalogInv' /\ Len(net') = Len(net)
<1> DEFINE d == [net[i] EXCEPT !.answer = Contents!Done]
           e == [net[i] EXCEPT !.answer = Contents!Done, !.rows = server]
<1>1. /\ net[i] \in Contents!CallType /\ ui' = ui
      /\ server \in [Item -> Contents!Stored]
  BY ContentCalls DEF CatalogInv, Contents!TypeOK, Contents!ServeList,
                      Contents!ServeAct, Contents!ServeUpload
<1>2. CASE Contents!ServeList(i)
  <2>1. /\ net[i] \in Contents!Listings(Contents!Filter, Contents!Tables(Item, Contents!Stored))
        /\ net[i].of = ""
    BY <1>2, ContentCalls DEF Contents!ServeList, Contents!Is
  <2>2. /\ server \in Contents!Tables(Item, Contents!Stored)
        /\ DOMAIN server \subseteq Contents!Listable("")
    BY <1>1, TableType DEF Contents!Listable
  <2>3. /\ e \in Contents!CallType
        /\ e.kind = net[i].kind /\ e.of = net[i].of
    BY <2>1, <2>2 DEF Contents!Listings, Contents!CallType, Contents!Answers, Contents!Done
  <2>4. net' = [net EXCEPT ![i] = e] /\ server' = server
    BY <1>2 DEF Contents!ServeList
  <2> HIDE DEF e
  <2> QED BY <1>1, <2>3, <2>4, ContentServes
<1>3. CASE Contents!ServeAct(i) \/ Contents!ServeUpload(i)
  <2>1. d \in Contents!CallType /\ d.kind = net[i].kind /\ d.of = net[i].of
    BY <1>1, ContentAnswered
  <2>2. /\ net' = [net EXCEPT ![i] = d]
        /\ server' \in [Item -> Contents!Stored]
    BY <1>1, <1>3 DEF Contents!ServeAct, Contents!ServeUpload, Contents!Served,
                      Contents!Stored
  <2> HIDE DEF d
  <2> QED BY <1>1, <2>1, <2>2, ContentServes
<1> QED BY <1>2, <1>3

(* The shield over the preview, and the focus of the window. *)
LEMMA ContentShield ==
  ASSUME ui \in Contents!HooksType,
         \/ Contents!LoseFocus \/ Contents!GetFocus
         \/ Contents!PrintScreen \/ Contents!Resume
  PROVE  \E f \in BOOLEAN, b \in BOOLEAN : ui' = [ui EXCEPT !.focused = f, !.isBlurred = b]
<1>1. ui.focused \in BOOLEAN /\ ui.isBlurred \in BOOLEAN
  BY DEF Contents!HooksType
<1>2. CASE Contents!LoseFocus
  BY <1>2 DEF Contents!LoseFocus
<1>3. CASE Contents!GetFocus
  BY <1>3 DEF Contents!GetFocus
<1>4. CASE Contents!PrintScreen \/ Contents!Resume
  <2>1. \E b \in BOOLEAN : ui' = [ui EXCEPT !.isBlurred = b]
    BY <1>4 DEF Contents!PrintScreen, Contents!Resume
  <2>2. \A b \in BOOLEAN :
          [ui EXCEPT !.isBlurred = b] = [ui EXCEPT !.focused = ui.focused, !.isBlurred = b]
    BY DEF Contents!HooksType
  <2> QED BY <1>1, <2>1, <2>2
<1> QED BY <1>2, <1>3, <1>4

\* Every step of ContentPage keeps the invariant of its requests.
LEMMA CatalogStep ==
  ASSUME CatalogInv, Len(net) <= MaxNet + 1, Contents!Next
  PROVE  CatalogInv' /\ Len(net') <= MaxNet + 1
<1> DEFINE Goal == CatalogInv' /\ Len(net') <= MaxNet + 1
<1>1. /\ ui \in Contents!HooksType /\ net \in Seq(Contents!CallType)
      /\ Len(net) \in Nat /\ MaxNet \in Nat
  BY BoundAssumption DEF CatalogInv, Contents!TypeOK
<1>2. CASE Contents!Refresh
  BY <1>1, <1>2, ContentRefetches DEF Contents!Refresh
<1>3. ASSUME NEW f \in Contents!Filter, Contents!SetFilter(f)
      PROVE  Goal
  <2> DEFINE h == [ui EXCEPT !.filter = f]
  <2>1. h \in Contents!HooksType /\ h.panel = ui.panel
    BY <1>1 DEF Contents!HooksType
  <2>2. Contents!Refetch(h)
    BY <1>3 DEF Contents!SetFilter
  <2> HIDE DEF h
  <2> QED BY <1>1, <2>1, <2>2, ContentRefetches
<1>4. CASE Contents!OpenUpload \/ Contents!CloseUpload
  <2>1. /\ ui' \in Contents!HooksType
        /\ TableSame /\ PanelSame /\ ui'.filter = ui.filter
    BY <1>1, <1>4 DEF Contents!OpenUpload, Contents!CloseUpload, Contents!HooksType,
                      TableSame, PanelSame
  <2>2. UNCHANGED <<net, server>>
    BY <1>4 DEF Contents!OpenUpload, Contents!CloseUpload
  <2> QED BY <1>1, <2>1, <2>2, ContentStays
<1>5. CASE Contents!ClosePreview
  <2>1. /\ ui' \in Contents!HooksType
        /\ TableSame /\ PanelSame /\ ui'.filter = ui.filter
    BY <1>1, <1>5 DEF Contents!ClosePreview, Contents!HooksType, Contents!Panels,
                      TableSame, PanelSame
  <2>2. UNCHANGED <<net, server>>
    BY <1>5 DEF Contents!ClosePreview
  <2> QED BY <1>1, <2>1, <2>2, ContentStays
<1>6. CASE \/ Contents!LoseFocus \/ Contents!GetFocus \/ Contents!PrintScreen
           \/ Contents!Resume
  <2>1. PICK f \in BOOLEAN, b \in BOOLEAN : ui' = [ui EXCEPT !.focused = f, !.isBlurred = b]
    BY <1>1, <1>6, ContentShield
  <2>2. /\ ui' \in Contents!HooksType
        /\ TableSame /\ PanelSame /\ ui'.filter = ui.filter
    BY <1>1, <2>1 DEF Contents!HooksType, TableSame, PanelSame
  <2>3. UNCHANGED <<net, server>>
    BY <1>6 DEF Contents!LoseFocus, Contents!GetFocus, Contents!PrintScreen, Contents!Resume
  <2> QED BY <1>1, <2>2, <2>3, ContentStays
<1>7. CASE Contents!Upload
  <2>1. /\ ui' \in Contents!HooksType
        /\ TableSame /\ PanelSame /\ ui'.filter = ui.filter
    BY <1>1, <1>7 DEF Contents!Upload, Contents!HooksType, TableSame, PanelSame
  <2>2. /\ server' = server
        /\ Contents!Send([kind |-> "upload", of |-> None, filter |-> ui.filter,
                          answer |-> Contents!Waiting])
    BY <1>7 DEF Contents!Upload
  <2> QED BY <1>1, <2>1, <2>2, ContentSends
<1>8. ASSUME NEW r \in Contents!Id,
             Contents!Publish(r) \/ Contents!Archive(r) \/ Contents!Delete(r)
      PROVE  Goal
  <2>1. PICK act \in Contents!Acts : Contents!Ask(r, act)
    BY <1>8 DEF Contents!Publish, Contents!Archive, Contents!Delete, Contents!Acts
  <2>2. TableSame /\ PanelSame /\ ui' = ui /\ server' = server
    BY <2>1 DEF Contents!Ask, TableSame, PanelSame
  <2>3. Contents!Send([kind |-> act, of |-> r, filter |-> ui.filter,
                      answer |-> Contents!Waiting])
    BY <2>1 DEF Contents!Ask
  <2> QED BY <1>1, <2>2, <2>3, ContentSends
<1>9. ASSUME NEW r \in Contents!Id, Contents!Preview(r)
      PROVE  Goal
  BY <1>1, <1>9, ContentPreview
<1>10. ASSUME NEW i \in Contents!InFlight, Contents!Listed(i)
       PROVE  Goal
  <2>1. net[i].kind = "list" /\ Contents!Catalog(i, net[i].rows, net[i].of)
    BY <1>10 DEF Contents!Listed, Contents!Is
  <2>2. net[i].rows \in Contents!Tables(Contents!Id, Contents!Stored \cup Contents!Local)
    BY <2>1, ContentCalls, TableType DEF Contents!Id
  <2>3. Contents!RowsFit(DOMAIN net[i].rows, net[i].of)
    BY <2>1, ContentCalls DEF Contents!RowsFit
  <2>4. CatalogInv' /\ Len(net') = Len(net) - 1
    BY <2>1, <2>2, <2>3, ContentCatalog
  <2> QED BY <1>1, <2>4
<1>11. ASSUME NEW i \in Contents!InFlight, Contents!ListFails(i)
       PROVE  Goal
  <2> DEFINE cards == [d \in Demo |-> "ENCRYPTED"]
  <2>1. net[i].kind = "list" /\ Contents!Catalog(i, cards, None)
    BY <1>11 DEF Contents!ListFails, Contents!Is
  <2>2. /\ cards \in Contents!Tables(Contents!Id, Contents!Stored \cup Contents!Local)
        /\ Contents!RowsFit(DOMAIN cards, None)
    BY TableType DEF Contents!Id, Contents!Local, Contents!RowsFit
  <2> HIDE DEF cards
  <2>3. CatalogInv' /\ Len(net') = Len(net) - 1
    BY <2>1, <2>2, ContentCatalog
  <2> QED BY <1>1, <2>3
<1>12. ASSUME NEW i \in Contents!InFlight,
              \/ Contents!Acted(i) \/ Contents!ActFails(i)
              \/ Contents!Uploaded(i) \/ Contents!UploadFails(i)
              \/ Contents!Previewed(i)
       PROVE  Goal
  BY <1>1, <1>12, ContentDone, ContentFails, ContentPreviewed
<1>13. ASSUME NEW i \in Contents!InFlight,
              Contents!ServeList(i) \/ Contents!ServeAct(i) \/ Contents!ServeUpload(i)
       PROVE  Goal
  BY <1>1, <1>13, ContentServed
<1> QED BY <1>2, <1>3, <1>4, <1>5, <1>6, <1>7, <1>8, <1>9, <1>10, <1>11, <1>12, <1>13
     DEF Contents!Next, Contents!Click, Contents!Answer, Contents!Serve

\* Every step hides the document, or leaves the window with its focus.
LEMMA ContentHidden ==
  ASSUME ContentInv, Contents!Next
  PROVE  Contents!DocumentHiddenWithoutFocus'
<1> DEFINE Same == /\ ui'.panel.open = ui.panel.open /\ ui'.panel.subject = ui.panel.subject
                   /\ ui'.focused = ui.focused /\ ui'.isBlurred = ui.isBlurred
           Hidden == Contents!DocumentHiddenWithoutFocus
<1>1. ui \in Contents!HooksType /\ Hidden
  BY DEF ContentInv, CatalogInv, Contents!TypeOK
<1>2. ASSUME Same PROVE Hidden'
  BY <1>1, <1>2 DEF Contents!DocumentHiddenWithoutFocus
<1>3. ASSUME NEW h, Contents!Refetch(h), h \in Contents!HooksType,
             h.panel = ui.panel, h.focused = ui.focused, h.isBlurred = ui.isBlurred
      PROVE  Same
  BY <1>3 DEF Contents!Refetch, Contents!Fetching, Contents!HooksType
<1>4. CASE Contents!Refresh
  BY <1>1, <1>2, <1>3, <1>4 DEF Contents!Refresh
<1>5. ASSUME NEW f \in Contents!Filter, Contents!SetFilter(f) PROVE Hidden'
  <2> DEFINE h == [ui EXCEPT !.filter = f]
  <2>1. /\ h \in Contents!HooksType
        /\ h.panel = ui.panel /\ h.focused = ui.focused /\ h.isBlurred = ui.isBlurred
    BY <1>1 DEF Contents!HooksType
  <2>2. Contents!Refetch(h)
    BY <1>5 DEF Contents!SetFilter
  <2> HIDE DEF h
  <2> QED BY <1>2, <1>3, <2>1, <2>2
<1>6. CASE Contents!OpenUpload \/ Contents!CloseUpload \/ Contents!Upload
  BY <1>1, <1>2, <1>6 DEF Contents!OpenUpload, Contents!CloseUpload, Contents!Upload,
                          Contents!HooksType
<1>7. CASE Contents!ClosePreview
  <2>1. ~ui'.panel.open
    BY <1>1, <1>7 DEF Contents!ClosePreview, Contents!HooksType, Contents!Panels
  <2> QED BY <2>1 DEF Contents!DocumentHiddenWithoutFocus
<1>8. CASE Contents!LoseFocus
  <2>1. /\ ui'.panel = ui.panel
        /\ Contents!Shielded => ui'.isBlurred
    BY <1>1, <1>8 DEF Contents!LoseFocus, Contents!HooksType
  <2> QED BY <2>1 DEF Contents!DocumentHiddenWithoutFocus, Contents!Shielded
<1>9. CASE Contents!GetFocus
  <2>1. ui'.focused
    BY <1>1, <1>9 DEF Contents!GetFocus, Contents!HooksType
  <2> QED BY <2>1 DEF Contents!DocumentHiddenWithoutFocus
<1>10. CASE Contents!PrintScreen
  <2>1. ui'.isBlurred
    BY <1>1, <1>10 DEF Contents!PrintScreen, Contents!HooksType
  <2> QED BY <2>1 DEF Contents!DocumentHiddenWithoutFocus
<1>11. CASE Contents!Resume
  <2>1. /\ ui'.panel = ui.panel /\ ui'.focused = ui.focused
        /\ ui.focused \/ TypeOf[ui.panel.subject] = "video"
    BY <1>1, <1>11 DEF Contents!Resume, Contents!Previewing, Contents!HooksType
  <2> QED BY <2>1 DEF Contents!DocumentHiddenWithoutFocus
<1>12. ASSUME NEW r \in Contents!Id,
              Contents!Publish(r) \/ Contents!Archive(r) \/ Contents!Delete(r)
       PROVE  Hidden'
  BY <1>2, <1>12 DEF Contents!Publish, Contents!Archive, Contents!Delete, Contents!Ask
<1>13. ASSUME NEW r \in Contents!Id, Contents!Preview(r) PROVE Hidden'
  <2>1. ui.focused
    BY <1>13 DEF Contents!Preview, Contents!CanWatch, Contents!Cards, Contents!Uncovered
  <2>2. ui'.focused
    BY <1>1, <1>13, <2>1 DEF Contents!Preview, Contents!HooksType
  <2> QED BY <2>2 DEF Contents!DocumentHiddenWithoutFocus
<1>14. ASSUME NEW i \in Contents!InFlight, Contents!Listed(i) \/ Contents!ListFails(i)
       PROVE  Hidden'
  <2>1. PICK cards, of : Contents!Catalog(i, cards, of)
    BY <1>14 DEF Contents!Listed, Contents!ListFails
  <2> QED BY <1>1, <1>2, <2>1 DEF Contents!Catalog, Contents!HooksType
<1>15. ASSUME NEW i \in Contents!InFlight, Contents!Acted(i) \/ Contents!Uploaded(i)
       PROVE  Hidden'
  <2> DEFINE h == Contents!Fetching(ui, net[i].filter)
  <2>1. /\ h \in Contents!HooksType
        /\ h.panel = ui.panel /\ h.focused = ui.focused /\ h.isBlurred = ui.isBlurred
    BY <1>1 DEF Contents!Fetching, Contents!HooksType, Contents!Mixes
  <2>2. ui' = h \/ ui' = [h EXCEPT !.isUploadOpen = FALSE, !.uploading = FALSE]
    BY <1>15 DEF Contents!Acted, Contents!Uploaded
  <2> HIDE DEF h
  <2>3. /\ ui'.panel = h.panel /\ ui'.focused = h.focused /\ ui'.isBlurred = h.isBlurred
    BY <2>1, <2>2 DEF Contents!HooksType
  <2> QED BY <1>2, <2>1, <2>3
<1>16. ASSUME NEW i \in Contents!InFlight, Contents!ActFails(i) \/ Contents!UploadFails(i)
       PROVE  Hidden'
  <2>1. \E cards : \/ ui' = [ui EXCEPT !.content = cards]
                   \/ ui' = [ui EXCEPT !.content = cards, !.isUploadOpen = FALSE,
                                       !.uploading = FALSE]
    BY <1>16 DEF Contents!ActFails, Contents!UploadFails
  <2>2. /\ ui'.panel = ui.panel /\ ui'.focused = ui.focused
        /\ ui'.isBlurred = ui.isBlurred
    BY <1>1, <2>1 DEF Contents!HooksType
  <2> QED BY <1>2, <2>2
<1>17. ASSUME NEW i \in Contents!InFlight, Contents!Previewed(i) PROVE Hidden'
  <2>1. Same
    BY <1>1, <1>17 DEF Contents!Previewed, Contents!Detailed, Contents!HooksType,
                       Contents!Panels
  <2> QED BY <1>2, <2>1
<1>18. ASSUME NEW i \in Contents!InFlight,
              Contents!ServeList(i) \/ Contents!ServeAct(i) \/ Contents!ServeUpload(i)
       PROVE  Hidden'
  BY <1>2, <1>18 DEF Contents!ServeList, Contents!ServeAct, Contents!ServeUpload
<1> QED BY <1>4, <1>5, <1>6, <1>7, <1>8, <1>9, <1>10, <1>11, <1>12, <1>13, <1>14, <1>15,
           <1>16, <1>17, <1>18
     DEF Contents!Next, Contents!Click, Contents!Answer, Contents!Serve

\* Every step of ContentPage keeps its invariant.
LEMMA ContentStep ==
  ASSUME ContentInv, Len(net) <= MaxNet + 1, Contents!Next
  PROVE  ContentInv' /\ Len(net') <= MaxNet + 1
BY CatalogStep, ContentHidden DEF ContentInv

-----------------------------------------------------------------------------
(* DashboardPage, RevenuePage and SystemPage. *)

\* What each page loads.
LEMMA ReportsParts ==
  /\ \A page \in Reports!Page :
       /\ Reports!Parts(page)[1] \in Reports!PartsOf(page)
       /\ page # "dashboard" => Len(Reports!Parts(page)) = 1
  /\ Reports!PartsOf("system") = {"health"}
<1>1. /\ Reports!Parts("dashboard") = <<"stats", "users", "content">>
      /\ Reports!Parts("revenue") = <<"revenue">>
      /\ Reports!Parts("system") = <<"health">>
  BY DEF Reports!Parts
<1>2. /\ Reports!Parts("dashboard")[1] \in Reports!PartsOf("dashboard")
      /\ Reports!Parts("revenue")[1] \in Reports!PartsOf("revenue")
      /\ Reports!Parts("system")[1] \in Reports!PartsOf("system")
  BY <1>1 DEF Reports!PartsOf
<1>3. Len(Reports!Parts("revenue")) = 1 /\ Len(Reports!Parts("system")) = 1
  BY <1>1
<1>4. Reports!PartsOf("system") = {"health"}
  BY <1>1 DEF Reports!PartsOf
<1> QED BY <1>2, <1>3, <1>4 DEF Reports!Page

\* The pages count as FiniteSets does.
LEMMA ReportsCount == ASSUME NEW x PROVE Reports!Cardinality({x}) = 1
<1>1. Reports!Cardinality({x}) = Cardinality({x})
  BY Zenon DEF Reports!Cardinality, Cardinality
<1> QED BY <1>1, FS_Singleton

\* The type of a page, spelled out.
LEMMA ReportsTyped ==
  ASSUME NEW h
  PROVE  h \in Reports!HooksType <=>
           \E page \in Reports!Page : h \in Reports!HooksOf(page)
BY DEF Reports!HooksType

ReportsCalls(page) ==
  Reports!Requests({"load"}, Reports!PartsOf(page))
    \cup Reports!Requests({"poll"}, Reports!PartsOf(page) \cap {"health"})

\* Every step of the pages with figures keeps their invariant.
LEMMA ReportsStep ==
  ASSUME ReportsInv, Len(net) <= MaxNet + 1, Reports!Next
  PROVE  ReportsInv' /\ Len(net') <= MaxNet + 1
<1>1. PICK page \in Reports!Page : ui \in Reports!HooksOf(page)
  BY ReportsTyped DEF ReportsInv, Reports!TypeOK
<1>2. ui.page = page
  BY <1>1 DEF Reports!HooksOf
<1>3. /\ net \in Seq(ReportsCalls(page))
      /\ Len(net) \in Nat /\ MaxNet \in Nat
  BY <1>2, BoundAssumption DEF ReportsInv, Reports!TypeOK, ReportsCalls
<1>4. ASSUME ui' \in Reports!HooksOf(page), net' \in Seq(ReportsCalls(page)),
             page # "dashboard" => ui'.settled = {},
             \/ Len(net') = Len(net) - 1
             \/ Len(net') = Len(net) + 1 /\ Len(net) < MaxNet,
             Reports!SimulationAnnounced'
      PROVE  ReportsInv' /\ Len(net') <= MaxNet + 1
  <2>1. ui'.page = page /\ ui' \in Reports!HooksType
    BY <1>4, ReportsTyped DEF Reports!HooksOf
  <2>2. Len(net') <= MaxNet + 1
    BY <1>3, <1>4
  <2> QED BY <1>4, <2>1, <2>2 DEF ReportsInv, Reports!TypeOK, ReportsCalls
<1>5. CASE Reports!Refresh
  <2> DEFINE c == Reports!Ask(Reports!Parts(ui.page)[1])
  <2>1. c \in ReportsCalls(page)
    BY <1>2, ReportsParts DEF Reports!Ask, Reports!Call, ReportsCalls, Reports!Requests,
                              Reports!Answers, Reports!Waiting
  <2>2. net' = Append(net, c) /\ Len(net) < MaxNet
    BY <1>5 DEF Reports!Refresh, Reports!Send
  <2>3. /\ ui' \in Reports!HooksOf(page)
        /\ ui'.settled = ui.settled /\ ui'.loading
    BY <1>1, <1>5 DEF Reports!Refresh, Reports!HooksOf
  <2> HIDE DEF c
  <2>4. net' \in Seq(ReportsCalls(page)) /\ Len(net') = Len(net) + 1
    BY <1>3, <2>1, <2>2
  <2> QED BY <1>2, <1>4, <2>2, <2>3, <2>4 DEF ReportsInv, Reports!SimulationAnnounced
<1>6. CASE Reports!Poll
  <2> DEFINE c == Reports!Call("poll", "health")
  <2>1. c \in ReportsCalls(page)
    BY <1>2, <1>6, ReportsParts
       DEF Reports!Poll, Reports!Call, ReportsCalls, Reports!Requests, Reports!Answers, Reports!Waiting
  <2>2. net' = Append(net, c) /\ Len(net) < MaxNet /\ ui' = ui
    BY <1>6 DEF Reports!Poll, Reports!Send
  <2> HIDE DEF c
  <2>3. net' \in Seq(ReportsCalls(page)) /\ Len(net') = Len(net) + 1
    BY <1>3, <2>1, <2>2
  <2> QED BY <1>1, <1>2, <1>4, <2>2, <2>3
         DEF ReportsInv, Reports!SimulationAnnounced, Reports!Shows
<1>7. ASSUME NEW i \in Reports!InFlight, Reports!Receive(i)
      PROVE  net' \in Seq(ReportsCalls(page)) /\ Len(net') = Len(net) - 1
  <2>1. net' = Without(net, i) /\ i \in 1..Len(net)
    BY <1>3, <1>7 DEF Reports!Receive, Reports!RemoveAt, Without, Reports!InFlight
  <2> QED BY <1>3, <2>1, Removed
<1>8. ASSUME NEW i \in Reports!InFlight, Reports!Polled(i)
      PROVE  ReportsInv' /\ Len(net') <= MaxNet + 1
  <2>1. "health" \in Reports!PartsOf(page)
    <3>1. net[i] \in ReportsCalls(page)
      BY <1>3, InSequence DEF Reports!InFlight
    <3> QED BY <1>8, <3>1 DEF ReportsCalls, Reports!Requests, Reports!Polled, Reports!Is
  <2>2. /\ ui' \in Reports!HooksOf(page)
        /\ ui'.settled = ui.settled /\ ui'.figures = {<<"health", "live">>}
    BY <1>1, <1>8, <2>1 DEF Reports!Polled, Reports!HooksOf, Reports!Figures
  <2> QED BY <1>2, <1>4, <1>7, <1>8, <2>2
         DEF ReportsInv, Reports!SimulationAnnounced, Reports!Shows, Reports!Polled
<1>9. ASSUME NEW i \in Reports!InFlight, Reports!PollFails(i)
      PROVE  ReportsInv' /\ Len(net') <= MaxNet + 1
  BY <1>1, <1>2, <1>4, <1>7, <1>9
     DEF ReportsInv, Reports!SimulationAnnounced, Reports!Shows, Reports!PollFails
<1>10. ASSUME NEW i \in Reports!InFlight, NEW figures \in Reports!Figures,
              Reports!Loaded(i, figures)
       PROVE  ReportsInv' /\ Len(net') <= MaxNet + 1
  <2> DEFINE all == ui.settled \cup {<<net[i].of, figures>>}
  <2>1. net[i].of \in Reports!PartsOf(page)
    <3>1. net[i] \in ReportsCalls(page)
      BY <1>3, InSequence DEF Reports!InFlight
    <3> QED BY <1>10, <3>1 DEF ReportsCalls, Reports!Requests, Reports!Loaded, Reports!Is
  <2>2. all \in SUBSET (Reports!PartsOf(page) \X Reports!Figures)
    BY <1>1, <2>1 DEF Reports!HooksOf
  <2>3. CASE ui' = [ui EXCEPT !.settled = all] /\ Reports!Cardinality(all) < Len(Reports!Parts(page))
    <3>1. page = "dashboard"
      <4>1. SUFFICES ASSUME page # "dashboard" PROVE FALSE
        OBVIOUS
      <4>2. all = {<<net[i].of, figures>>}
        BY <1>2, <4>1 DEF ReportsInv
      <4>3. Reports!Cardinality(all) = 1
        BY <4>2, ReportsCount
      <4>4. Len(Reports!Parts(page)) = 1
        BY <4>1, ReportsParts
      <4> QED BY <2>3, <4>3, <4>4
    <3> HIDE DEF all
    <3>2. ui' \in Reports!HooksOf(page) /\ ui'.page = page
      BY <1>1, <1>2, <2>2, <2>3 DEF Reports!HooksOf
    <3> QED BY <1>4, <1>7, <1>10, <3>1, <3>2 DEF Reports!SimulationAnnounced, Reports!Loaded
  <2>4. CASE ui' = [ui EXCEPT !.settled = {}, !.figures = all, !.loading = FALSE,
                              !.error = @ \/ (figures = "simulated"
                                                 /\ ui.page # "dashboard")]
    <3>1. /\ ui' \in Reports!HooksOf(page) /\ ui'.page = page
          /\ ui'.settled = {} /\ ui'.figures = all
          /\ figures = "simulated" /\ page # "dashboard" => ui'.error
      BY <1>1, <1>2, <2>2, <2>4 DEF Reports!HooksOf
    <3>2. page # "dashboard" => all = {<<net[i].of, figures>>}
      BY <1>2 DEF ReportsInv
    <3>3. Reports!SimulationAnnounced'
      BY <3>1, <3>2 DEF Reports!SimulationAnnounced, Reports!Shows
    <3> QED BY <1>4, <1>7, <1>10, <3>1, <3>3 DEF Reports!Loaded
  <2> QED BY <1>2, <1>10, <2>3, <2>4 DEF Reports!Loaded
<1> QED BY <1>5, <1>6, <1>8, <1>9, <1>10 DEF Reports!Next

=============================================================================

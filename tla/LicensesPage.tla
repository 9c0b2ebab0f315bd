---------------------------- MODULE LicensesPage ----------------------------
(***************************************************************************)
(* dashboard/src/pages/LicensesPage.tsx with DataTable.tsx and Modal.tsx.  *)
(*                                                                         *)
(*  - server[l] is the status of license l.  The backend writes statuses   *)
(*    in lower case, the page compares with upper case, and so does its    *)
(*    filter, which Postgres refuses as a value of the enum.  (The table   *)
(*    has one page here: pagination is in UsersPage.)                      *)
(*  - ui.licenses are the rows of the table: those of the backend, those   *)
(*    of the demo list, or a license the page made up because issuing it   *)
(*    failed.                                                              *)
(*  - ui.isIssueOpen is the form that issues a license, whose fields are   *)
(*    left out, ui.panel the drawer with the devices of one, ui.panel.shown*)
(*    the license they are of.                                             *)
(***************************************************************************)
EXTENDS Calls

CONSTANTS License, Demo    \* ids of the licenses and of the demo list

Simulated == "lic-simulated"    \* id of the rows the page makes up
Id     == License \cup Demo \cup {Simulated}
Filter == {"", "REVOKED"}
Status == {"active", "revoked", "ACTIVE", "REVOKED"}

(* The licenses the backend lists for a filter. *)
Listable(f) == IF f = "" THEN License ELSE {}

Hooks == [licenses |-> <<>>, statusFilter |-> "", shown |-> None, mixed |-> FALSE,
          loading |-> TRUE, actioningId |-> None,
          isIssueOpen |-> FALSE, panel |-> ClosedPanel]

Mounted == {[ui |-> Hooks, net |-> <<Listing("")>>, timer |-> None,
             server |-> [l \in License |-> "active"]]}

-----------------------------------------------------------------------------
(* What is on the screen: Modal.tsx covers the page. *)

Uncovered == ~ui.isIssueOpen /\ ~ui.panel.open
Rows      == IF Uncovered /\ ~ui.loading THEN DOMAIN ui.licenses ELSE {}

CanRevoke(r) == r \in Rows /\ ui.actioningId # r /\ ui.licenses[r] # "REVOKED"

(* Neither the fields of the form nor its button is ever disabled. *)
CanIssue == ui.isIssueOpen

(* The drawer lists the devices it has, each with a button.                *)
CanKill == ui.panel.open /\ ~ui.panel.loading /\ ui.panel.shown # None

-----------------------------------------------------------------------------
(* The table. *)

(* fetchLicenses, with the question that the render it belongs to sees. *)
Fetching(h, q) == [h EXCEPT !.loading = TRUE, !.mixed = Mixes(q, h.statusFilter)]

Refetch(h) == /\ Send(Listing(h.statusFilter))
              /\ ui' = Fetching(h, h.statusFilter)
              /\ UNCHANGED <<timer, server>>

Refresh == Uncovered /\ Refetch(ui)

SetFilter(f) == /\ Uncovered
                /\ f # ui.statusFilter
                /\ Refetch([ui EXCEPT !.statusFilter = f])

Table(i, rows, of) == /\ ui' = [ui EXCEPT !.licenses = rows, !.shown = of,
                                          !.loading = FALSE]
                      /\ Receive(i)
                      /\ UNCHANGED <<timer, server>>

Listed(i) == /\ Is(i, {"list"})
             /\ net[i].answer = Done
             /\ Table(i, net[i].rows, net[i].of)

(* getFallbackLicenses, whatever the filter. *)
ListFails(i) == Is(i, {"list"}) /\ Table(i, [d \in Demo |-> "ACTIVE"], None)

-----------------------------------------------------------------------------
(* Revoking. *)

RevokeCall(r) == [kind |-> "revoke", of |-> r, question |-> ui.statusFilter,
                  answer |-> Waiting]

Revoke(r) == /\ CanRevoke(r)
             /\ Send(RevokeCall(r))
             /\ ui' = [ui EXCEPT !.actioningId = r]
             /\ UNCHANGED <<timer, server>>

(* revokeLicense fetches what the screen asked for when it was called. *)
Revoked(i) == /\ Is(i, {"revoke"})
              /\ net[i].answer = Done
              /\ ui' = [Fetching(ui, net[i].question) EXCEPT !.actioningId = None]
              /\ ReceiveAndSend(i, Listing(net[i].question))
              /\ UNCHANGED <<timer, server>>

(* A revocation that failed is shown as one that did not. *)
RevokeFails(i) == /\ Is(i, {"revoke"})
                  /\ ui' = [ui EXCEPT
                       !.licenses = [r \in DOMAIN ui.licenses |->
                                       IF r = net[i].of THEN "REVOKED" ELSE ui.licenses[r]],
                       !.actioningId = None]
                  /\ Receive(i)
                  /\ UNCHANGED <<timer, server>>

-----------------------------------------------------------------------------
(* The form. *)

OpenIssue == /\ Uncovered
             /\ ui' = [ui EXCEPT !.isIssueOpen = TRUE]
             /\ UNCHANGED <<net, timer, server>>

CloseIssue == /\ CanIssue
              /\ ui' = [ui EXCEPT !.isIssueOpen = FALSE]
              /\ UNCHANGED <<net, timer, server>>

(* issueLicenseSubmit: a request under way does not prevent another, and   *)
(* setLoading is that of the table.                                        *)
Issue == /\ CanIssue
         /\ Send([kind |-> "issue", of |-> None, question |-> ui.statusFilter,
                  answer |-> Waiting])
         /\ ui' = [ui EXCEPT !.loading = TRUE]
         /\ UNCHANGED <<timer, server>>

(* Every answer closes the form and clears it, whichever opening of it is  *)
(* on the screen.  (The table is fetched, but its `finally` says that it   *)
(* does not load.)                                                         *)
Cleared(h) == [h EXCEPT !.isIssueOpen = FALSE,
                        !.loading = FALSE]

Issued(i) == /\ Is(i, {"issue"})
             /\ net[i].answer = Done
             /\ ui' = Cleared(Fetching(ui, net[i].question))
             /\ ReceiveAndSend(i, Listing(net[i].question))
             /\ UNCHANGED <<timer, server>>

IssueFails(i) == /\ Is(i, {"issue"})
                 /\ ui' = [Cleared(ui) EXCEPT
                      !.licenses = [r \in DOMAIN ui.licenses \cup {Simulated} |->
                                      IF r = Simulated THEN "ACTIVE" ELSE ui.licenses[r]]]
                 /\ Receive(i)
                 /\ UNCHANGED <<timer, server>>

-----------------------------------------------------------------------------
(* The drawer. *)

(* Mutant: the devices of the last license are left in the drawer. *)
InspectOnTop(r) == /\ r \in Rows
                   /\ Send(Call("detail", r))
                   /\ ui' = [ui EXCEPT !.panel = [Inspecting(r) EXCEPT
                                                    !.shown = ui.panel.shown]]
                   /\ UNCHANGED <<timer, server>>

Inspect(r) == /\ r \in Rows
              /\ Send(Call("detail", r))
              /\ ui' = [ui EXCEPT !.panel = Inspecting(r)]
              /\ UNCHANGED <<timer, server>>

(* The devices the backend has, or the one that stands in for them. *)
Inspected(i) == /\ Is(i, {"detail"})
                /\ ui' = [ui EXCEPT !.panel = Detailed(i)]
                /\ Receive(i)
                /\ UNCHANGED <<timer, server>>

CloseDrawer == /\ ui.panel.open
               /\ ui' = [ui EXCEPT !.panel.open = FALSE]
               /\ UNCHANGED <<net, timer, server>>

(* forceDeactivateDevice names the selected license and the device on      *)
(* display; `from` is the license whose device that is.                    *)
Kill == /\ CanKill
        /\ Send([kind |-> "kill", of |-> ui.panel.subject, from |-> ui.panel.shown,
                 answer |-> Waiting])
        /\ UNCHANGED <<ui, timer, server>>

(* The answer opens the drawer again, on the license it was about. *)
Killed(i) == /\ Is(i, {"kill"})
             /\ net[i].answer = Done
             /\ ui' = [ui EXCEPT !.panel = Inspecting(net[i].of)]
             /\ ReceiveAndSend(i, Call("detail", net[i].of))
             /\ UNCHANGED <<timer, server>>

(* A failure says "Deactivation complete" and takes the device off the     *)
(* list.                                                                   *)
KillFails(i) == /\ Is(i, {"kill"})
                /\ ui' = [ui EXCEPT !.panel.shown =
                                      IF @ = net[i].from THEN None ELSE @]
                /\ Receive(i)
                /\ UNCHANGED <<timer, server>>

-----------------------------------------------------------------------------
(* The backend: LicenseController. *)

(* A status in upper case is no value of the column: the query throws. *)
ServeList(i) == /\ Is(i, {"list"})
                /\ net[i].answer = Waiting
                /\ net[i].of = ""
                /\ net' = [net EXCEPT ![i].answer = Done,
                                         ![i].rows = server]
                /\ UNCHANGED <<ui, timer, server>>

ServeRevoke(i) == /\ Is(i, {"revoke"})
                  /\ net[i].of \in License
                  /\ Served(i, Done)
                  /\ server' = [server EXCEPT ![net[i].of] = "revoked"]
                  /\ UNCHANGED <<ui, timer>>

(* The license issued is none of License.  A device can be killed that is  *)
(* one of the license and still active.                                    *)
ServeOther(i) == /\ Is(i, {"issue", "kill"})
                 /\ Is(i, {"kill"}) => net[i].of \in License /\ net[i].from = net[i].of
                 /\ Served(i, Done)
                 /\ UNCHANGED <<ui, timer, server>>

-----------------------------------------------------------------------------
Click == \/ Refresh \/ OpenIssue \/ CloseIssue \/ Issue \/ CloseDrawer \/ Kill
         \/ \E f \in Filter : SetFilter(f)
         \/ \E r \in Id : Revoke(r) \/ Inspect(r)

Answer == \E i \in InFlight : \/ Listed(i) \/ ListFails(i)
                              \/ Revoked(i) \/ RevokeFails(i)
                              \/ Issued(i) \/ IssueFails(i)
                              \/ Killed(i) \/ KillFails(i)
                              \/ Inspected(i)

Serve == \E i \in InFlight : ServeList(i) \/ ServeRevoke(i) \/ ServeOther(i)

Next == Click \/ Answer \/ Serve

(* The rows are those of the question they are the answer to, or demo      *)
(* rows; and the one the page made up.                                     *)
RowsFit(rows, of) ==
  LET given == rows \ {Simulated}
  IN  given \subseteq Listable(of) \/ (of = None /\ given \subseteq Demo)

HooksType ==
  {h \in [licenses : Tables(Id, Status), statusFilter : Filter,
          shown : Filter \cup {None}, mixed : BOOLEAN, loading : BOOLEAN,
          actioningId : Id \cup {None}, isIssueOpen : BOOLEAN, panel : Panels(Id)] :
     RowsFit(DOMAIN h.licenses, h.shown)}

CallType ==
  {c \in Listings(Filter, Tables(License, Status)) : DOMAIN c.rows \subseteq Listable(c.of)}
    \cup Requests({"detail"}, Id)
    \cup [kind : {"revoke", "issue"}, of : Id \cup {None}, question : Filter,
          answer : Answers]
    \cup [kind : {"kill"}, of : Id, from : Id, answer : Answers]

TypeOK ==
  /\ server \in [License -> {"active", "revoked"}]
  /\ net \in Seq(CallType)
  /\ ui \in HooksType

=============================================================================

----------------------------- MODULE AuditPage -----------------------------
(***************************************************************************)
(* dashboard/src/pages/AuditPage.tsx with DataTable.tsx and Modal.tsx.     *)
(*                                                                         *)
(* Nothing in the backend calls AuditService.createLog, so that its table  *)
(* is empty: the rows on the screen are none or the demo list, one page of *)
(* them.  ui.panel is the inspector; it shows the row that was clicked.    *)
(* The search is local and left out, but that submitting it fetches.       *)
(***************************************************************************)
EXTENDS Calls

CONSTANT Demo           \* ids of the demo list

Filter == {"", "USER_LOGIN"}

Hooks == [logs |-> {}, actionFilter |-> "", shown |-> None, mixed |-> FALSE,
          loading |-> TRUE, panel |-> ClosedPanel]

Mounted == {[ui |-> Hooks, net |-> <<Listing("")>>, timer |-> None, server |-> {}]}

Rows == IF ui.loading THEN {} ELSE ui.logs

-----------------------------------------------------------------------------
(* fetchLogs, with the question that the render it belongs to sees. *)
Refetch(h) == /\ Send(Listing(h.actionFilter))
              /\ ui' = [h EXCEPT !.loading = TRUE,
                                 !.mixed = Mixes(h.actionFilter, h.actionFilter)]
              /\ UNCHANGED <<timer, server>>

(* The button, and handleSearchSubmit. *)
Refresh == ~ui.panel.open /\ Refetch(ui)

SetFilter(f) == /\ ~ui.panel.open
                /\ f # ui.actionFilter
                /\ Refetch([ui EXCEPT !.actionFilter = f])

Table(i, rows, of) == /\ ui' = [ui EXCEPT !.logs = rows, !.shown = of,
                                          !.loading = FALSE]
                      /\ Receive(i)
                      /\ UNCHANGED <<timer, server>>

Listed(i) == net[i].answer = Done /\ Table(i, server, net[i].of)

(* getFallbackLogs, whatever the filter. *)
ListFails(i) == Table(i, Demo, None)

(* openLogDetails; closing keeps the row. *)
Inspect(r) == /\ ~ui.panel.open
              /\ r \in Rows
              /\ ui' = [ui EXCEPT !.panel = [ClosedPanel EXCEPT
                          !.open = TRUE, !.subject = r, !.shown = r]]
              /\ UNCHANGED <<net, timer, server>>

CloseInspector == /\ ui.panel.open
                  /\ ui' = [ui EXCEPT !.panel.open = FALSE]
                  /\ UNCHANGED <<net, timer, server>>

(* AuditService.findAll *)
ServeList(i) == Served(i, Done) /\ UNCHANGED <<ui, timer, server>>

-----------------------------------------------------------------------------
Next == \/ Refresh \/ CloseInspector
        \/ \E f \in Filter : SetFilter(f)
        \/ \E r \in Demo : Inspect(r)
        \/ \E i \in InFlight : Listed(i) \/ ListFails(i) \/ ServeList(i)

(* The backend's answer to any filter is empty. *)
RowsFit(rows, of) == rows = {} \/ (of = None /\ rows \subseteq Demo)

HooksType ==
  {h \in [logs : SUBSET Demo, actionFilter : Filter, shown : Filter \cup {None},
          mixed : BOOLEAN, loading : BOOLEAN, panel : Panels(Demo)] :
     RowsFit(h.logs, h.shown)}

TypeOK ==
  /\ server = {}
  /\ net \in Seq(Listings(Filter, {<<>>}))
  /\ ui \in HooksType

=============================================================================

------------------------------- MODULE Calls -------------------------------
(***************************************************************************)
(* What the pages of the dashboard have in common.  A page is a component  *)
(* of React: its hooks are the record `ui`, its pending setTimeout calls   *)
(* `timer`.  `net` holds the requests it sent and has no answer to, in the *)
(* order it sent them; each is served by the backend, whose rows the page  *)
(* is about are `server`, and answered, in any order.  A request carries   *)
(* what the function that sent it closes over.                             *)
(*                                                                         *)
(* The answer of a request that was served may be lost, and one that was   *)
(* not served may fail: to the page both are the same rejected promise.    *)
(***************************************************************************)
EXTENDS Naturals, Sequences, SequencesExt

CONSTANTS
  None,       \* null
  MaxNet      \* bound: requests a page has in flight at once

VARIABLES ui, net, timer, server

calls == <<ui, net, timer, server>>

(* The answer of a request: nobody has served it, it was refused, or done. *)
Waiting == "waiting"
Refused == "refused"
Done    == "done"
Answers == {Waiting, Refused, Done}

Call(kind, of) == [kind |-> kind, of |-> of, answer |-> Waiting]

(* Requests of such kinds that are about one of `of`. *)
Requests(kinds, of) == [kind : kinds, of : of, answer : Answers]

InFlight  == DOMAIN net
Is(i, kinds) == net[i].kind \in kinds
Asking(kinds) == \E i \in InFlight : Is(i, kinds)

(* The page sends a request, gets an answer, gets one and sends another.   *)
Send(call) == /\ Len(net) < MaxNet
              /\ net' = Append(net, call)

Receive(i) == net' = RemoveAt(net, i)

ReceiveAndSend(i, call) == net' = Append(RemoveAt(net, i), call)

(* The backend serves request i. *)
Served(i, answer) == /\ net[i].answer = Waiting
                     /\ net' = [net EXCEPT ![i].answer = answer]

-----------------------------------------------------------------------------
(* A table.  Its rows come from a listing, which asks for the rows that    *)
(* fit a question: a page number, filters.  ui.shown is a history field,   *)
(* the question whose answer is shown: None at first, and when a listing   *)
(* failed and the page shows its demo list instead.                        *)

Listing(q) == [kind |-> "list", of |-> q, rows |-> <<>>, answer |-> Waiting]

(* What a table may show, and the listings that may be under way. *)
Tables(ids, statuses) == UNION {[rows -> statuses] : rows \in SUBSET ids}

Listings(questions, tables) ==
  [kind : {"list"}, of : questions, rows : tables, answer : Answers]

(* History: the listing sent last was sent while another was under way, or *)
(* by a function that closes over a question the screen no longer has.     *)
Mixes(q, question) == q # question \/ Asking({"list"})

(* What the table shows, once nothing is under way, is the answer to what  *)
(* the screen asks, or to nothing; unless listings were mixed: answers are *)
(* not told apart, the last to arrive wins.                                *)
TableIsAsked(question) ==
  Asking({"list"}) \/ ui.mixed \/ ui.shown \in {None, question}

-----------------------------------------------------------------------------
(* A panel: a dialog about one row, whose details are asked for when it    *)
(* opens.  `shown` is the row the details are of, `mixed` a history field  *)
(* as above.                                                               *)

ClosedPanel == [open |-> FALSE, subject |-> None, shown |-> None,
                loading |-> FALSE, mixed |-> FALSE]

Inspecting(row) == [open |-> TRUE, subject |-> row, shown |-> None,
                    loading |-> TRUE, mixed |-> Asking({"detail"})]

Detailed(i) == [ui.panel EXCEPT !.shown = net[i].of, !.loading = FALSE]

PanelIsAsked == ui.panel.shown \in {None, ui.panel.subject} \/ ui.panel.mixed

Panels(rows) == [open : BOOLEAN, subject : rows \cup {None}, shown : rows \cup {None},
                 loading : BOOLEAN, mixed : BOOLEAN]

=============================================================================

---------------------------- MODULE ReportPages ----------------------------
(***************************************************************************)
(* The pages of the dashboard that show figures: DashboardPage.tsx,        *)
(* RevenuePage.tsx and SystemPage.tsx.  Figures are live, or simulated if  *)
(* they cannot be fetched; `error` is the banner that says so.             *)
(*                                                                         *)
(*  - ui.page says which of the three it is.                               *)
(*  - ui.figures are the figures shown, ui.settled those of a load under   *)
(*    way: Promise.all of DashboardPage waits for three requests.          *)
(*                                                                         *)
(* server and timer play no part: the figures are those of the moment, and *)
(* the interval of SystemPage may fire whenever it likes.                  *)
(***************************************************************************)
EXTENDS Calls, FiniteSets

Page == {"dashboard", "revenue", "system"}

(* What a load asks for. *)
Parts(page) == CASE page = "dashboard" -> <<"stats", "users", "content">>
                 [] page = "revenue"   -> <<"revenue">>
                 [] page = "system"    -> <<"health">>

Figures == {"live", "simulated"}

Hooks(page) == [page |-> page, figures |-> {}, settled |-> {},
                loading |-> TRUE, error |-> FALSE]

Ask(part) == Call("load", part)

Mounted(page) == {[ui |-> Hooks(page),
                   net |-> [n \in DOMAIN Parts(page) |-> Ask(Parts(page)[n])],
                   timer |-> None, server |-> None]}

(* What is on the screen: a loader while the first figures are awaited, on *)
(* RevenuePage while any are.  DashboardPage has no button to refresh.     *)
CanRefresh == \/ ui.page = "revenue" /\ ~ui.loading
              \/ ui.page = "system"  /\ (ui.loading => ui.figures # {})

-----------------------------------------------------------------------------
(* fetchRevenue, fetchHealth *)
Refresh == /\ CanRefresh
           /\ Send(Ask(Parts(ui.page)[1]))
           /\ ui' = [ui EXCEPT !.loading = TRUE, !.error = FALSE]
           /\ UNCHANGED <<timer, server>>

(* The interval of SystemPage, every 5 s. *)
Poll == /\ ui.page = "system"
        /\ Send(Call("poll", "health"))
        /\ UNCHANGED <<ui, timer, server>>

(* A request of a load is answered or fails.  On DashboardPage each has a  *)
(* catch of its own, and that around them never runs.                      *)
Loaded(i, figures) ==
  LET all == ui.settled \cup {<<net[i].of, figures>>}
  IN  /\ Is(i, {"load"})
      /\ ui' = IF Cardinality(all) < Len(Parts(ui.page))
               THEN [ui EXCEPT !.settled = all]
               ELSE [ui EXCEPT !.settled = {}, !.figures = all, !.loading = FALSE,
                               !.error = @ \/ (figures = "simulated"
                                                 /\ ui.page # "dashboard")]
      /\ Receive(i)
      /\ UNCHANGED <<timer, server>>

Polled(i) == /\ Is(i, {"poll"})
             /\ ui' = [ui EXCEPT !.figures = {<<"health", "live">>}]
             /\ Receive(i)
             /\ UNCHANGED <<timer, server>>

(* Mutant: a poll that fails falls back as a load does. *)
PollFallsBack(i) == /\ Is(i, {"poll"})
                    /\ ui' = [ui EXCEPT !.figures = {<<"health", "simulated">>}]
                    /\ Receive(i)
                    /\ UNCHANGED <<timer, server>>

PollFails(i) == Is(i, {"poll"}) /\ Receive(i) /\ UNCHANGED <<ui, timer, server>>

-----------------------------------------------------------------------------
Next == \/ Refresh \/ Poll
        \/ \E i \in InFlight : \/ Polled(i) \/ PollFails(i)
                               \/ \E figures \in Figures : Loaded(i, figures)

Shows(figures) == \E f \in ui.figures : f[2] = figures

PartsOf(page) == {Parts(page)[n] : n \in DOMAIN Parts(page)}

(* What page may show, and ask for. *)
HooksOf(page) ==
  [page : {page}, figures : SUBSET (PartsOf(page) \X Figures),
   settled : SUBSET (PartsOf(page) \X Figures), loading : BOOLEAN, error : BOOLEAN]

HooksType == UNION {HooksOf(page) : page \in Page}

TypeOK ==
  /\ ui \in HooksType
  /\ net \in Seq(Requests({"load"}, PartsOf(ui.page))
                   \cup Requests({"poll"}, PartsOf(ui.page) \cap {"health"}))

(* On RevenuePage and SystemPage simulated figures never pass for live     *)
(* ones: in whatever order loads and polls are answered, the banner is up  *)
(* while such figures are shown, but for a load under way, which took it   *)
(* down.  (On DashboardPage it is never up.)                               *)
SimulationAnnounced ==
  Shows("simulated") /\ ui.page # "dashboard" => ui.error \/ ui.loading

=============================================================================

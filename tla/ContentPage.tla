---------------------------- MODULE ContentPage ----------------------------
(***************************************************************************)
(* dashboard/src/pages/ContentPage.tsx with Modal.tsx.                     *)
(*                                                                         *)
(*  - server[c] is the status of item c.  As for licenses, a filter is no  *)
(*    value of the column it is compared with.  (The two filters act       *)
(*    alike and are one; the search goes along with every listing and is   *)
(*    left out.)                                                           *)
(*  - ui.content are the cards: the items, the demo list, or an item the   *)
(*    page made up because its upload failed.                              *)
(*  - ui.panel is the preview, ui.isBlurred the shield over it.            *)
(*    ui.focused is not a hook: the window has the focus.                  *)
(***************************************************************************)
EXTENDS Calls

CONSTANTS
  Item, Demo,   \* ids of the items and of the demo list
  TypeOf        \* [Item \cup Demo -> {"video", "audio", "document"}]

Simulated == "sim-upload"       \* id of the cards the page makes up
Id     == Item \cup Demo \cup {Simulated}
Filter == {"", "ENCRYPTED"}

(* Statuses of the backend, and statuses only the page has. *)
Stored == {"draft", "published", "archived"}
Local  == {"RAW", "TRANSCODING", "ENCRYPTED"}

(* The items the backend lists for a filter. *)
Listable(f) == IF f = "" THEN Item ELSE {}

Hooks == [content |-> <<>>, filter |-> "", shown |-> None, mixed |-> FALSE,
          loading |-> TRUE, isUploadOpen |-> FALSE, uploading |-> FALSE,
          panel |-> ClosedPanel, isBlurred |-> FALSE, focused |-> TRUE]

Mounted == {[ui |-> Hooks, net |-> <<Listing("")>>, timer |-> None, server |-> stored] :
               stored \in [Item -> Stored]}

-----------------------------------------------------------------------------
(* What is on the screen.  Clicks need the focus; Modal.tsx covers the     *)
(* page.                                                                   *)

Uncovered == ui.focused /\ ~ui.isUploadOpen /\ ~ui.panel.open
Cards     == IF Uncovered /\ ~ui.loading THEN DOMAIN ui.content ELSE {}

CanPublish(r) == r \in Cards /\ ui.content[r] \in {"RAW", "draft"}
CanWatch(r)   == r \in Cards /\ ui.content[r] \in {"ENCRYPTED", "published"}
CanUpload     == ui.focused /\ ui.isUploadOpen /\ ~ui.uploading

(* The content of the preview is rendered, for one of these types. *)
Previewing(types) == ui.panel.open /\ ~ui.panel.loading /\ TypeOf[ui.panel.subject] \in types

-----------------------------------------------------------------------------
(* The catalog. *)

(* fetchContent, with the filter that the render it belongs to sees. *)
Fetching(h, q) == [h EXCEPT !.loading = TRUE, !.mixed = Mixes(q, h.filter)]

Refetch(h) == /\ Send(Listing(h.filter))
              /\ ui' = Fetching(h, h.filter)
              /\ UNCHANGED <<timer, server>>

Refresh == Uncovered /\ Refetch(ui)

SetFilter(f) == Uncovered /\ f # ui.filter /\ Refetch([ui EXCEPT !.filter = f])

Catalog(i, cards, of) == /\ ui' = [ui EXCEPT !.content = cards, !.shown = of,
                                             !.loading = FALSE]
                         /\ Receive(i)
                         /\ UNCHANGED <<timer, server>>

Listed(i) == /\ Is(i, {"list"})
             /\ net[i].answer = Done
             /\ Catalog(i, net[i].rows, net[i].of)

(* getFallbackContent, whatever the filter. *)
ListFails(i) == Is(i, {"list"}) /\ Catalog(i, [d \in Demo |-> "ENCRYPTED"], None)

-----------------------------------------------------------------------------
(* publishAsset, archiveAsset, deleteAsset: no button is disabled while a  *)
(* request is under way.                                                   *)

Acts == {"publish", "archive", "delete"}

Ask(r, act) == /\ Send([kind |-> act, of |-> r, filter |-> ui.filter,
                        answer |-> Waiting])
               /\ UNCHANGED <<ui, timer, server>>

Publish(r) == CanPublish(r) /\ Ask(r, "publish")
Archive(r) == CanWatch(r)   /\ Ask(r, "archive")
Delete(r)  == r \in Cards   /\ Ask(r, "delete")

Acted(i) == /\ Is(i, Acts)
            /\ net[i].answer = Done
            /\ ui' = Fetching(ui, net[i].filter)
            /\ ReceiveAndSend(i, Listing(net[i].filter))
            /\ UNCHANGED <<timer, server>>

(* A request that failed is shown as one that did not. *)
Simulate(cards, r, act) ==
  IF act = "delete" THEN [c \in DOMAIN cards \ {r} |-> cards[c]]
  ELSE [c \in DOMAIN cards |->
          IF c # r THEN cards[c]
          ELSE IF act = "publish" THEN "ENCRYPTED" ELSE "RAW"]

ActFails(i) == /\ Is(i, Acts)
               /\ ui' = [ui EXCEPT !.content = Simulate(@, net[i].of, net[i].kind)]
               /\ Receive(i)
               /\ UNCHANGED <<timer, server>>

-----------------------------------------------------------------------------
(* The upload form. *)

OpenUpload == /\ Uncovered
              /\ ui' = [ui EXCEPT !.isUploadOpen = TRUE]
              /\ UNCHANGED <<net, timer, server>>

CloseUpload == /\ ui.focused /\ ui.isUploadOpen
               /\ ui' = [ui EXCEPT !.isUploadOpen = FALSE]
               /\ UNCHANGED <<net, timer, server>>

Upload == /\ CanUpload
          /\ Send([kind |-> "upload", of |-> None, filter |-> ui.filter,
                   answer |-> Waiting])
          /\ ui' = [ui EXCEPT !.uploading = TRUE]
          /\ UNCHANGED <<timer, server>>

(* Every answer closes the form, whichever opening of it is on the screen. *)
Uploaded(i) == /\ Is(i, {"upload"})
               /\ net[i].answer = Done
               /\ ui' = [Fetching(ui, net[i].filter) EXCEPT !.isUploadOpen = FALSE,
                                                            !.uploading = FALSE]
               /\ ReceiveAndSend(i, Listing(net[i].filter))
               /\ UNCHANGED <<timer, server>>

UploadFails(i) ==
  /\ Is(i, {"upload"})
  /\ ui' = [ui EXCEPT !.content = [c \in DOMAIN @ \cup {Simulated} |->
                                     IF c = Simulated THEN "TRANSCODING" ELSE @[c]],
                      !.isUploadOpen = FALSE, !.uploading = FALSE]
  /\ Receive(i)
  /\ UNCHANGED <<timer, server>>

-----------------------------------------------------------------------------
(* The preview and its shield. *)

Preview(r) == /\ CanWatch(r)
              /\ Send(Call("detail", r))
              /\ ui' = [ui EXCEPT !.panel = Inspecting(r), !.isBlurred = FALSE]
              /\ UNCHANGED <<timer, server>>

(* The configuration the backend answers, or the one that stands in.       *)
Previewed(i) == /\ Is(i, {"detail"})
                /\ ui' = [ui EXCEPT !.panel = Detailed(i)]
                /\ Receive(i)
                /\ UNCHANGED <<timer, server>>

ClosePreview == /\ ui.focused /\ ui.panel.open
                /\ ui' = [ui EXCEPT !.panel.open = FALSE, !.isBlurred = FALSE]
                /\ UNCHANGED <<net, timer, server>>

(* Mutant: the effect is for videos only. *)
ShieldedVideo == ui.panel.open /\ TypeOf[ui.panel.subject] = "video"

(* The effect listens to the window while one of these is open. *)
Shielded == ui.panel.open /\ TypeOf[ui.panel.subject] \in {"document", "video"}

(* The window loses and gets the focus.  (While nothing is open that makes *)
(* no difference but that nobody clicks.)                                  *)
LoseFocus == /\ ui.panel.open /\ ui.focused
             /\ ui' = [ui EXCEPT !.focused = FALSE, !.isBlurred = @ \/ Shielded]
             /\ UNCHANGED <<net, timer, server>>

GetFocus == /\ ~ui.focused
            /\ ui' = [ui EXCEPT !.focused = TRUE, !.isBlurred = @ /\ ~Shielded]
            /\ UNCHANGED <<net, timer, server>>

PrintScreen == /\ ui.focused /\ Shielded
               /\ ui' = [ui EXCEPT !.isBlurred = TRUE]
               /\ UNCHANGED <<net, timer, server>>

(* A click on the shield; a video that starts, which a media key does      *)
(* without the focus.                                                      *)
Resume == /\ ui.isBlurred
          /\ \/ ui.focused /\ Previewing({"document", "video"})
             \/ Previewing({"video"})
          /\ ui' = [ui EXCEPT !.isBlurred = FALSE]
          /\ UNCHANGED <<net, timer, server>>

-----------------------------------------------------------------------------
(* The backend: ContentController, StreamingController. *)

ServeList(i) == /\ Is(i, {"list"})
                /\ net[i].answer = Waiting
                /\ net[i].of = ""
                /\ net' = [net EXCEPT ![i].answer = Done, ![i].rows = server]
                /\ UNCHANGED <<ui, timer, server>>

(* publishContent refuses an item that is not a draft (or processing);     *)
(* deleteContent archives.                                                 *)
ServeAct(i) == /\ Is(i, Acts)
               /\ net[i].of \in Item
               /\ Is(i, {"publish"}) => server[net[i].of] = "draft"
               /\ Served(i, Done)
               /\ server' = [server EXCEPT ![net[i].of] =
                               IF Is(i, {"publish"}) THEN "published" ELSE "archived"]
               /\ UNCHANGED <<ui, timer>>

ServeUpload(i) == /\ Is(i, {"upload"})
                  /\ Served(i, Done)
                  /\ UNCHANGED <<ui, timer, server>>

-----------------------------------------------------------------------------
Click == \/ Refresh \/ OpenUpload \/ CloseUpload \/ Upload \/ ClosePreview
         \/ LoseFocus \/ GetFocus \/ PrintScreen \/ Resume
         \/ \E f \in Filter : SetFilter(f)
         \/ \E r \in Id : Publish(r) \/ Archive(r) \/ Delete(r) \/ Preview(r)

Answer == \E i \in InFlight : \/ Listed(i) \/ ListFails(i)
                              \/ Acted(i) \/ ActFails(i)
                              \/ Uploaded(i) \/ UploadFails(i)
                              \/ Previewed(i)

Serve == \E i \in InFlight : ServeList(i) \/ ServeAct(i) \/ ServeUpload(i)

Next == Click \/ Answer \/ Serve

(* The cards are those of the question they are the answer to, or demo     *)
(* cards; and the one the page made up.                                    *)
RowsFit(cards, of) ==
  LET given == cards \ {Simulated}
  IN  given \subseteq Listable(of) \/ (of = None /\ given \subseteq Demo)

HooksType ==
  {h \in [content : Tables(Id, Stored \cup Local), filter : Filter,
          shown : Filter \cup {None}, mixed : BOOLEAN, loading : BOOLEAN,
          isUploadOpen : BOOLEAN, uploading : BOOLEAN,
          panel : Panels(Id), isBlurred : BOOLEAN, focused : BOOLEAN] :
     RowsFit(DOMAIN h.content, h.shown)}

CallType ==
  {c \in Listings(Filter, Tables(Item, Stored)) : DOMAIN c.rows \subseteq Listable(c.of)}
    \cup Requests({"detail"}, Id)
    \cup [kind : Acts \cup {"upload"}, of : Id \cup {None}, filter : Filter,
          answer : Answers]

TypeOK ==
  /\ server \in [Item -> Stored]
  /\ net \in Seq(CallType)
  /\ ui \in HooksType

(* A document is hidden whenever the window has no focus, from the moment  *)
(* its preview opens to the moment it closes ("Viewer will instantly blank *)
(* if focus is lost"), whatever is answered in between.  A video is not: a *)
(* media key resumes it.                                                   *)
DocumentHiddenWithoutFocus ==
  ui.panel.open /\ TypeOf[ui.panel.subject] = "document" /\ ~ui.focused => ui.isBlurred

=============================================================================

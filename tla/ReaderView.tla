------------------------------ MODULE ReaderView ------------------------------
(***************************************************************************)
(* What a reader shows of a PDF (apps/gpui-pdf-reader/src/reader.rs,        *)
(* reader/search.rs, reader/references.rs and reader/toc.rs): tiles, the    *)
(* text of pages, a copy, jumps along links and contents, link cards and     *)
(* the search, with the timers of the window thread and the events of the    *)
(* document adapter.                                                        *)
(*                                                                         *)
(* rd is the PdfReader, wk the adapter as its commands and events show it    *)
(* (DocumentAdapter has its inside), inbox the events on their way.  A       *)
(* handler of the window thread is one step.  A command takes effect when it *)
(* is sent: what the adapter does before it takes the command from its       *)
(* mailbox it could have done before the command was sent.                   *)
(*                                                                         *)
(* A tile is a page at a zoom.  Positions of the viewport are Spots.  Pixel  *)
(* sizes, wording, animation and painting are left out.                      *)
(***************************************************************************)
EXTENDS Integers, FiniteSets, Sequences, FiniteSetsExt

CONSTANTS
  Pages,        \* the pages of a document, 0..n
  Zooms,        \* zoom levels
  Spots,        \* positions of the viewport, each the page at its top
  Span,         \* Span[spot] = [visible, near]: the pages shown and prefetched
  Links,        \* Links[l] = [external, source, target, cites]
  Hits,         \* Hits[q]: the pages where the query q is found
  Retained,     \* tiles kept by the idle trim
  ReadingUses,  \* what the user does: [kinds, calls, outcomes, allocations]
  InboxLimit    \* bound: events on their way

VARIABLES rd, wk, inbox, habits

viewVars == <<rd, wk, inbox, habits>>

None == "none"
NoPage == -1
NoCopy == [next |-> 0, last |-> -1]
NoImage == [rev |-> -1, link |-> None, gen |-> 0]
NoPreview == [rev |-> -1, link |-> None, appearance |-> None]
Resting == {"BackgroundCold", "Suspended"}
Painted == {"ForegroundInteractive", "ForegroundVisible"}

Tile(p, z) == [page |-> p, zoom |-> z]

\* SearchState::default
NoSearchYet == [rev |-> 0, query |-> None, order |-> {}, active |-> NoPage,
                complete |-> FALSE, failed |-> FALSE]

Allocation(activity, slots, tiles, texts) ==
  [activity |-> activity, slots |-> slots, tiles |-> tiles, texts |-> texts]

\* PdfReader::new: everything the constructor sets
NewReader ==
  [gen |-> 0, status |-> "empty", document |-> FALSE, calls |-> 0,
   allocation |-> Allocation("ForegroundInteractive", TRUE, 2, 2), prefetch |-> TRUE,
   spot |-> Min(Spots), zoom |-> Min(Zooms), theme |-> "light", appearance |-> "light",
   rendered |-> {}, pending |-> {}, failed |-> {}, demanded |-> {}, textDemanded |-> {},
   debounce |-> None, zoomTask |-> FALSE,
   trimmed |-> FALSE, trimTask |-> FALSE, asleep |-> FALSE, sleepTask |-> FALSE,
   text |-> {}, textFrom |-> {}, textPending |-> {}, copy |-> NoCopy,
   toLink |-> None, toEntry |-> NoPage,
   card |-> None, onSource |-> FALSE, onCard |-> FALSE, hover |-> None,
   hoverTimer |-> FALSE,
   image |-> NoImage, imageRev |-> 0, scientific |-> FALSE,
   search |-> NoSearchYet, searchTask |-> FALSE]

NoSearch == [rev |-> -1, query |-> None, next |-> 0, total |-> 0, cancelled |-> FALSE]

NewWorker ==
  [up |-> TRUE, gen |-> 0, session |-> "none", opened |-> FALSE, background |-> TRUE,
   tiles |-> {}, texts |-> {}, soon |-> {}, explicit |-> {}, preview |-> NoPreview,
   job |-> NoSearch, analysis |-> FALSE,
   lost |-> FALSE, stopped |-> FALSE]

ViewInit ==
  /\ habits \in ReadingUses
  /\ rd = NewReader
  /\ wk = NewWorker
  /\ inbox = <<>>

-----------------------------------------------------------------------------
(* Commands to the adapter.  A state of the handlers is s = [r, w, out]: the *)
(* reader, the adapter and the events it sends at once.                      *)

HasSession(s) == s.w.session = "open"
MineW(s) == s.w.gen = s.r.gen
Told(s, w) == [s EXCEPT !.w = IF s.w.up /\ MineW(s) THEN w ELSE @]

\* PdfWorker::open: the token of an older open is cancelled, the rest reset
SendOpen(s) ==
  [s EXCEPT !.w = IF s.w.up
                  THEN [NewWorker EXCEPT !.gen = s.r.gen, !.session = "opening"]
                  ELSE @]

\* SetBackgroundEnabled; pause_background gives up visible text that is not due
SendBackground(s, enabled) ==
  Told(s, [s.w EXCEPT !.background = enabled, !.soon = IF enabled THEN @ ELSE {}])

\* PdfWorker::hibernate cancels the search and all engine work
SendHibernate(s) ==
  Told(s, [s.w EXCEPT !.session = "asleep", !.background = FALSE, !.tiles = {},
                      !.texts = {}, !.soon = {}, !.explicit = {}, !.preview = NoPreview,
                      !.job = IF @ = NoSearch THEN NoSearch ELSE [@ EXCEPT !.cancelled = TRUE],
                      !.lost = @ \/ s.w.explicit # {},
                      !.stopped = @ \/ s.w.job # NoSearch])

SendResume(s) ==
  Told(s, IF s.w.session = "asleep" THEN [s.w EXCEPT !.session = "opening"] ELSE s.w)

SendViewport(s, tiles, texts) ==
  Told(s, [s.w EXCEPT
    !.tiles = IF HasSession(s) THEN {[tile |-> t, appearance |-> s.r.appearance] : t \in tiles}
              ELSE {},
    !.texts = {},
    !.soon = IF s.w.opened THEN texts ELSE {}])

\* ExtractText and EnsureTextPages replace each other, CancelExplicitText both;
\* without a session they are dropped.  History: lost tells that text somebody may
\* wait for was given up for another request or never asked for, stopped that
\* hibernation cancelled a search.
SendExplicit(s, pages) ==
  Told(s, [s.w EXCEPT !.explicit = IF HasSession(s) THEN pages ELSE {},
                      !.lost = @ \/ ~HasSession(s) \/ ~(s.w.explicit \subseteq pages)])

\* cancel_searches_before
SendCancelSearch(s) == Told(s, [s.w EXCEPT !.job = NoSearch])

SendSearch(s) ==
  IF ~s.w.up THEN s
  ELSE IF ~HasSession(s)
  THEN [s EXCEPT !.out = Append(@, [event |-> "searchfailed", gen |-> s.r.gen,
                                    rev |-> s.r.search.rev])]
  ELSE Told(s, [s.w EXCEPT !.job = [rev |-> s.r.search.rev, query |-> s.r.search.query,
                                    next |-> 0, total |-> 0, cancelled |-> FALSE],
                          !.stopped = FALSE])

SendPreview(s, link) ==
  IF ~s.w.up \/ ~MineW(s) THEN s
  ELSE IF ~HasSession(s)
  THEN [s EXCEPT !.w.preview = NoPreview,
                 !.out = Append(@, [event |-> "previewfailed", gen |-> s.r.gen,
                                    rev |-> s.r.imageRev])]
  ELSE [s EXCEPT !.w.preview = [rev |-> s.r.imageRev, link |-> link,
                                appearance |-> s.r.appearance]]

-----------------------------------------------------------------------------
(* Tiles *)

Cached(s) == {c.tile : c \in s.r.rendered}
VisibleNow(s) == {d.tile : d \in {d \in s.r.demanded : d.visible}}

\* mark_cache_active
MarkActive(s) == [s EXCEPT !.r.trimmed = FALSE, !.r.trimTask = FALSE]

\* resource_cache_limits, effective_tile_cache_limits
TileLimit(s) ==
  LET limit == IF s.r.allocation.activity \in Resting THEN 0 ELSE s.r.allocation.tiles
  IN IF s.r.trimmed THEN Min({limit, Retained}) ELSE limit
TextLimit(s) ==
  IF s.r.allocation.activity \in Resting THEN 0 ELSE s.r.allocation.texts

\* drop_all_images
DropImages(s) == [s EXCEPT !.r.rendered = {}, !.r.image = NoImage]

Failing(s) == [s EXCEPT !.r.status = "error"]

\* schedule_idle_cache_trim
ScheduleTrim(s) ==
  [s EXCEPT !.r.trimTask = @ \/ (~s.r.trimmed /\ s.r.allocation.activity \notin Resting)]

Away(s, t) == IF t.page > s.r.spot THEN t.page - s.r.spot ELSE s.r.spot - t.page

\* Visible tiles are never evicted
Protected(s) == VisibleNow(s)

\* evict_distant_tiles: tiles of another zoom go once the page is complete, then
\* the excess, stale zooms and distant pages first.
Evict(s) ==
  LET zooms == {d.tile.zoom : d \in s.r.demanded}
      stale(t) == t.page \in {d.tile.page : d \in s.r.demanded} /\ t.zoom \notin zooms
      exact == {p \in Pages :
                  LET shown == {t \in VisibleNow(s) : t.page = p}
                  IN shown # {} /\ shown \subseteq Cached(s)}
      kept == {c \in s.r.rendered : ~(c.tile.page \in exact /\ stale(c.tile))}
      excess == Cardinality(kept) - TileLimit(s)
      candidates == {c \in kept : c.tile \notin Protected(s)}
      before(c, d) == \/ stale(c.tile) /\ ~stale(d.tile)
                      \/ /\ stale(c.tile) = stale(d.tile)
                         /\ Away(s, c.tile) > Away(s, d.tile)
      evicted ==
        IF excess <= 0 THEN {}
        ELSE CHOOSE gone \in SUBSET candidates :
               /\ Cardinality(gone) = Min({excess, Cardinality(candidates)})
               /\ \A c \in gone, d \in candidates \ gone : ~before(d, c)
  IN ScheduleTrim([s EXCEPT !.r.rendered = kept \ evicted])

\* plan_tiles and text_pages of the viewport controller
Planned(s) ==
  {[tile |-> Tile(p, s.r.zoom), visible |-> TRUE] : p \in Span[s.r.spot].visible}
    \cup (IF s.r.prefetch
          THEN {[tile |-> Tile(p, s.r.zoom), visible |-> FALSE] : p \in Span[s.r.spot].near}
          ELSE {})
TextPlanned(s) ==
  {p \in Span[s.r.spot].visible :
     Cardinality({q \in Span[s.r.spot].visible : q < p}) < TextLimit(s)}

MayRequest(s) ==
  /\ s.r.status = "ready"
  /\ ~s.r.asleep
  /\ s.r.allocation.activity \notin Resting
  /\ s.r.debounce # "waiting"
  /\ s.r.document

\* request_visible_tiles: a new demand is sent only when what is wanted changed
Request(s) ==
  LET changed == Planned(s) # s.r.demanded \/ TextPlanned(s) # s.r.textDemanded
      missing == {d.tile : d \in Planned(s)} \ Cached(s)
      texts == TextPlanned(s) \ s.r.text
  IN IF ~MayRequest(s) THEN s
     ELSE IF ~changed THEN [s EXCEPT !.r.debounce = None]
     ELSE IF s.w.up
     THEN LET t == SendViewport(MarkActive(s), missing, texts)
          IN [t EXCEPT !.r.debounce = None, !.r.pending = missing, !.r.failed = {},
                       !.r.demanded = Planned(s), !.r.textDemanded = TextPlanned(s)]
     ELSE Failing([MarkActive(s) EXCEPT !.r.debounce = None, !.r.pending = {}])

\* The demands forgotten, so that the next request sends all of them
Forget(s) == [s EXCEPT !.r.demanded = {}, !.r.pending = {}]
ForgetText(s) == [Forget(s) EXCEPT !.r.textDemanded = {}, !.r.textPending = {}]

MutSyncAppearance(s) ==
  IF s.r.theme = s.r.appearance THEN s
  ELSE Request(DropImages([s EXCEPT !.r.appearance = s.r.theme]))

\* synchronize_render_appearance
SyncAppearance(s) ==
  IF s.r.theme = s.r.appearance THEN s
  ELSE Request(Forget(DropImages([s EXCEPT !.r.appearance = s.r.theme])))

-----------------------------------------------------------------------------
(* Text, copies and jumps *)

\* evict_distant_text: pages in view and the ends of a link on a card stay
EvictText(s) ==
  LET link == IF s.r.card # None THEN s.r.card ELSE s.r.toLink
      held == IF link = None \/ (link # None /\ Links[link].external) THEN {}
              ELSE {Links[link].source, Links[link].target}
      candidates == s.r.text \ (s.r.textDemanded \cup held)
      excess == Cardinality(s.r.text) - TextLimit(s)
      far(p) == Away(s, Tile(p, s.r.zoom))
  IN IF excess <= 0 THEN s
     ELSE [s EXCEPT !.r.text = @ \
             (CHOOSE gone \in SUBSET candidates :
                /\ Cardinality(gone) = Min({excess, Cardinality(candidates)})
                /\ \A p \in gone, q \in candidates \ gone : far(q) <= far(p))]

\* continue_pending_copy: the pages at hand are copied, the next one is asked
\* for unless it is pending already.
ContinueCopy(s) ==
  LET missing == (s.r.copy.next..s.r.copy.last) \ s.r.text
      page == Min(missing)
  IN IF s.r.copy = NoCopy THEN s
     ELSE IF missing = {} THEN [s EXCEPT !.r.copy = NoCopy]
     ELSE IF page \in s.r.textPending THEN [s EXCEPT !.r.copy.next = page]
     ELSE IF s.w.up
     THEN [SendExplicit(s, {page}) EXCEPT !.r.copy.next = page,
                                          !.r.textPending = @ \cup {page}]
     ELSE Failing([s EXCEPT !.r.copy = NoCopy])

\* perform_document_jump: the viewport scrolls there, frames ask for the tiles
Jump(s, page) == [s EXCEPT !.r.spot = page]

Resolved(s, link) == {Links[link].source, Links[link].target} \subseteq s.r.text

\* request_internal_link_text
MissingText(s, link) == {Links[link].source, Links[link].target} \ s.r.text
RequestLinkText(s, link) ==
  IF Links[link].external \/ MissingText(s, link) = {} \/ ~s.w.up THEN s
  ELSE [SendExplicit(s, MissingText(s, link)) EXCEPT
          !.r.textPending = @ \cup MissingText(s, link)]

\* request_destination_preview
RequestImage(s, link) ==
  IF Links[link].external THEN s
  ELSE SendPreview([s EXCEPT !.r.imageRev = @ + 1], link)

\* request_scholarly_for_link; the lookup of a citation is the executor's
RequestCard(s) ==
  IF s.r.card = None \/ ~s.r.scientific THEN s
  ELSE IF Links[s.r.card].cites THEN s ELSE RequestImage(s, s.r.card)

\* complete_pending_link_navigation
CompleteLink(s) ==
  IF s.r.toLink = None THEN s
  ELSE IF ~Resolved(s, s.r.toLink) THEN s
  ELSE Jump([s EXCEPT !.r.toLink = None], Links[s.r.toLink].target)

\* complete_pending_toc_navigation
CompleteEntry(s, page) ==
  IF s.r.toEntry # page THEN s ELSE Jump([s EXCEPT !.r.toEntry = NoPage], page)

-----------------------------------------------------------------------------
(* Calls of the user and of the application *)

Start == [r |-> rd, w |-> wk, out |-> <<>>]

Becomes(s) ==
  /\ rd' = s.r
  /\ wk' = s.w
  /\ inbox' = inbox \o s.out
  /\ UNCHANGED habits

UserCall(kind) ==
  /\ kind \in habits.kinds
  /\ rd.calls < habits.calls
Counted == [Start EXCEPT !.r.calls = @ + 1]

\* begin_open_path; worker_hibernated stays as it is
BeginOpenPath(s) ==
  LET r == [s.r EXCEPT
        !.gen = @ + 1, !.status = "loading", !.document = FALSE, !.scientific = FALSE,
        !.rendered = {}, !.image = NoImage, !.imageRev = @ + 1, !.text = {}, !.textFrom = {},
        !.pending = {}, !.demanded = {}, !.textDemanded = {},
        !.debounce = None, !.zoomTask = FALSE, !.textPending = {}, !.copy = NoCopy,
        !.search = NoSearchYet, !.searchTask = FALSE,
        !.card = None, !.onSource = FALSE, !.onCard = FALSE, !.hover = None,
        !.hoverTimer = FALSE, !.toLink = None, !.toEntry = NoPage]
      opening == SendOpen([s EXCEPT !.r = r])
  IN IF s.w.up THEN opening ELSE Failing(opening)
OpenPath == UserCall("open") /\ Becomes(BeginOpenPath(Counted))

\* scroll_by, panning and jumps of the viewport
Scroll ==
  /\ UserCall("scroll")
  /\ \E spot \in Spots \ {rd.spot} : Becomes(Request([Counted EXCEPT !.r.spot = spot]))

\* zoom_at, fit_width, defer_render_after_zoom: the old demand is withdrawn at
\* the beginning of a burst, the new one waits for the end of the debounce.
Zoom ==
  /\ UserCall("zoom")
  /\ rd.document
  /\ \E zoom \in Zooms \ {rd.zoom} :
       LET s == [Counted EXCEPT !.r.zoom = zoom]
           cleared == SendViewport([Forget(s) EXCEPT !.r.textDemanded = {}], {}, {})
           armed(t) == [t EXCEPT !.r.debounce = "waiting", !.r.zoomTask = TRUE]
       IN Becomes(IF rd.debounce # None THEN armed(s)
                  ELSE IF wk.up THEN armed(cleared) ELSE Failing(cleared))

\* The theme of the application changes; readers notice when they are painted.
ChangeTheme ==
  /\ UserCall("theme")
  /\ Becomes([Counted EXCEPT !.r.theme = IF @ = "light" THEN "dark" ELSE "light"])

\* schedule_resource_hibernation, cancel_resource_hibernation
ScheduleSleep(s) == [s EXCEPT !.r.sleepTask = @ \/ ~s.r.asleep]
CancelSleep(s) == [s EXCEPT !.r.sleepTask = FALSE]

\* apply_resource_allocation: the reader rests, or wakes and asks again
Rest(s) ==
  LET quiet == IF s.r.status = "ready" THEN SendViewport(s, {}, {}) ELSE s
      bare == DropImages([ForgetText(quiet) EXCEPT !.r.text = {}, !.r.textFrom = {},
                                                 !.r.trimTask = FALSE])
  IN IF s.r.allocation.activity = "Suspended" THEN ScheduleSleep(bare)
     ELSE CancelSleep(bare)

WakeUp(s) ==
  LET awake == CancelSleep(s)
  IN IF s.r.asleep /\ ~s.w.up THEN Failing(awake)
     ELSE Request(EvictText(Evict(
            IF s.r.asleep THEN [SendResume(awake) EXCEPT !.r.asleep = FALSE] ELSE awake)))

Allocate ==
  /\ UserCall("allocate")
  /\ \E a \in habits.allocations \ {rd.allocation} :
       LET s == MarkActive([Counted EXCEPT
                  !.r.allocation = a,
                  !.r.prefetch = a.activity = "ForegroundInteractive" /\ a.slots])
           t == SendBackground(s, a.activity \in {"ForegroundInteractive", "BackgroundWarm"})
       IN Becomes(IF a.activity \in Resting THEN Rest(t) ELSE WakeUp(t))

\* copy_selection: explicit text is latest-wins, so what is pending is forgotten
Copy ==
  /\ UserCall("copy")
  /\ rd.document
  /\ \E first, last \in Pages :
       /\ first <= last
       /\ LET s == SendExplicit(Counted, {})
          IN Becomes(ContinueCopy([s EXCEPT !.r.textPending = {},
                                            !.r.copy = [next |-> first, last |-> last]]))

\* activate_document_link
ActivateLink ==
  /\ UserCall("link")
  /\ rd.document
  /\ \E link \in DOMAIN Links :
       /\ ~Links[link].external
       /\ Becomes(IF Resolved(Counted, link)
                  THEN Jump([Counted EXCEPT !.r.toLink = None], Links[link].target)
                  ELSE IF wk.up
                  THEN [RequestLinkText(Counted, link) EXCEPT !.r.toLink = link]
                  ELSE Jump([Counted EXCEPT !.r.toLink = None], Links[link].target))

\* activate_toc_entry
ActivateEntry ==
  /\ UserCall("entry")
  /\ rd.document
  /\ \E page \in Pages :
       LET s == [Counted EXCEPT !.r.toEntry = page]
       IN Becomes(IF page \in rd.text THEN Jump([Counted EXCEPT !.r.toEntry = NoPage], page)
                  ELSE IF page \in rd.textPending THEN s
                  ELSE IF wk.up
                  THEN [SendExplicit(s, {page}) EXCEPT !.r.textPending = @ \cup {page}]
                  ELSE Jump([Counted EXCEPT !.r.toEntry = NoPage], page))

-----------------------------------------------------------------------------
(* Link cards *)

\* cancel_pending_link_hover: the revision makes a timer that runs ineffective
CancelHover(s) == [s EXCEPT !.r.hover = None, !.r.hoverTimer = FALSE]

\* show_link_preview
ShowCard(s, link) ==
  LET r == [CancelHover(s).r EXCEPT !.onSource = TRUE, !.card = link,
                                    !.image = IF s.r.card = link THEN @ ELSE NoImage]
  IN RequestCard(RequestLinkText([s EXCEPT !.r = r], link))

\* dismiss_link_preview
Dismiss(s) ==
  [CancelHover(s) EXCEPT !.r.onSource = FALSE, !.r.onCard = FALSE, !.r.card = None,
                         !.r.image = NoImage]

\* What may settle besides a link: nothing under the pointer, or the pointer gone
\* from the document or the card (schedule_link_preview_clear)
Nowhere == "nowhere"
Gone == "gone"

\* schedule_stable_link_hover: each candidate gets one timer; a candidate that
\* stays the same, at its place, gets no other
Settle(s, candidate, moved) ==
  IF s.r.hover = candidate /\ ~moved THEN s
  ELSE [s EXCEPT !.r.hover = candidate, !.r.hoverTimer = TRUE]

\* on_mouse_move over a link, or over nothing
PointAt ==
  /\ UserCall("point")
  /\ rd.document
  /\ \E target \in DOMAIN Links \cup {Nowhere}, moved \in BOOLEAN :
       Becomes(IF rd.card = None
               THEN IF target = Nowhere THEN Counted ELSE ShowCard(Counted, target)
               ELSE IF target = rd.card
               THEN CancelHover([Counted EXCEPT !.r.onSource = TRUE])
               ELSE Settle([Counted EXCEPT !.r.onSource = FALSE], target, moved))

\* on_document_hover: the pointer is no longer on the document, or the card is
\* in front of it
LeaveDocument ==
  /\ "point" \in habits.kinds
  /\ rd.document /\ (rd.onSource \/ rd.hover # Gone)
  /\ Becomes(Settle([Start EXCEPT !.r.onSource = FALSE], Gone, FALSE))

\* set_link_card_hovered
EnterCard ==
  /\ UserCall("point")
  /\ rd.card # None /\ ~rd.onCard
  /\ Becomes(CancelHover([Counted EXCEPT !.r.onCard = TRUE]))
LeaveCard ==
  /\ rd.onCard
  /\ "point" \in habits.kinds
  /\ Becomes(Settle([Start EXCEPT !.r.onCard = FALSE], Gone, FALSE))

\* The timer of schedule_stable_link_hover goes off once.  On the card it is
\* spent, and its candidate stays
HoverTimer ==
  /\ rd.hoverTimer
  /\ Becomes(IF rd.onCard THEN [Start EXCEPT !.r.hoverTimer = FALSE]
             ELSE IF rd.hover \in DOMAIN Links THEN ShowCard(Start, rd.hover)
             ELSE IF ~rd.onSource THEN Dismiss(Start) ELSE CancelHover(Start))

-----------------------------------------------------------------------------
(* Search *)

\* set_search_query: the search follows when the debounce ends
SetQuery ==
  /\ UserCall("query")
  /\ \E query \in DOMAIN Hits \cup {None} :
       /\ query # rd.search.query
       /\ LET s == SendCancelSearch([Counted EXCEPT
                     !.r.search = [NoSearchYet EXCEPT !.rev = rd.search.rev + 1,
                                                      !.query = query,
                                                      !.complete = query = None]])
          IN Becomes([s EXCEPT !.r.searchTask = query # None])

SearchTimer ==
  /\ rd.searchTask
  /\ LET s == [Start EXCEPT !.r.searchTask = FALSE]
     IN Becomes(IF wk.up THEN SendSearch(s) ELSE [s EXCEPT !.r.search.complete = TRUE])

\* reset_search
ResetSearch ==
  /\ UserCall("query")
  /\ rd.search.query # None
  /\ LET s == SendCancelSearch([Counted EXCEPT
                !.r.search = [NoSearchYet EXCEPT !.rev = rd.search.rev + 1,
                                                 !.complete = TRUE]])
     IN Becomes([s EXCEPT !.r.searchTask = FALSE])

\* activate_search_match
Activate(s, page) == Jump([s EXCEPT !.r.search.active = page], page)

\* next_search_match_id, navigate_search
Following(order, active, forward) ==
  LET after == {p \in order : p > active}
      ahead == {p \in order : p < active}
  IN IF active = NoPage THEN IF forward THEN Min(order) ELSE Max(order)
     ELSE IF forward THEN IF after # {} THEN Min(after) ELSE Min(order)
     ELSE IF ahead # {} THEN Max(ahead) ELSE Max(order)
NavigateSearch ==
  /\ UserCall("match")
  /\ rd.search.order # {}
  /\ \E forward \in BOOLEAN :
       Becomes(Activate(Counted, Following(rd.search.order, rd.search.active, forward)))

-----------------------------------------------------------------------------
(* handle_worker_event *)

HandleResumed(s) == Request(ForgetText(s))

\* Opened: everything of the previous document is gone, the page is fitted
HandleOpened(s, e) ==
  LET r == [DropImages(s).r EXCEPT
        !.document = TRUE, !.text = {}, !.textFrom = {}, !.pending = {}, !.demanded = {},
        !.textDemanded = {}, !.debounce = None, !.zoomTask = FALSE, !.textPending = {},
        !.copy = NoCopy, !.onSource = FALSE, !.onCard = FALSE, !.card = None,
        !.imageRev = @ + 1, !.hover = None, !.toLink = None, !.status = "ready",
        !.spot = Min(Spots), !.zoom = Min(Zooms)]
  IN IF e.valid THEN Request([s EXCEPT !.r = r])
     ELSE Failing([DropImages(s) EXCEPT !.r.document = TRUE])

MutHandleTile(s, e) ==
  LET inserted == [MarkActive(s) EXCEPT
        !.r.pending = @ \ {e.tile},
        !.r.rendered = {c \in @ : c.tile # e.tile}
                         \cup {[tile |-> e.tile, gen |-> e.doc, appearance |-> e.appearance]}]
  IN Request(Evict(inserted))

\* TileRendered of the current appearance
HandleTile(s, e) ==
  LET inserted == [MarkActive(s) EXCEPT
        !.r.pending = @ \ {e.tile},
        !.r.rendered = {c \in @ : c.tile # e.tile}
                         \cup {[tile |-> e.tile, gen |-> e.doc, appearance |-> e.appearance]}]
  IN IF e.appearance # s.r.appearance THEN s
     ELSE IF e.valid THEN Request(Evict(inserted))
     ELSE Failing([MarkActive(s) EXCEPT !.r.pending = @ \ {e.tile}])

HandleTileFailed(s, e) ==
  IF e.appearance # s.r.appearance THEN s
  ELSE [s EXCEPT !.r.pending = @ \ {e.tile}, !.r.failed = @ \cup {e.tile}]

\* PreviewRendered, PreviewFailed of the newest revision
HandlePreview(s, e) ==
  IF e.rev # s.r.imageRev \/ e.appearance # s.r.appearance THEN s
  ELSE [s EXCEPT !.r.image = [rev |-> e.rev, link |-> e.link, gen |-> e.doc]]
HandlePreviewFailed(s, e) ==
  IF e.rev # s.r.imageRev THEN s ELSE [s EXCEPT !.r.image = NoImage]

\* TextExtracted and TextFailed: the page has its text, whoever waits goes on
HandleText(s, e) ==
  LET known == [s EXCEPT !.r.text = @ \cup {e.page}, !.r.textFrom = @ \cup {e.doc},
                         !.r.textPending = @ \ {e.page}]
  IN EvictText(RequestCard(CompleteLink(CompleteEntry(ContinueCopy(known), e.page))))

HandleResults(s, e) ==
  IF e.rev # s.r.search.rev THEN s ELSE [s EXCEPT !.r.search.order = @ \cup {e.page}]

\* SearchFinished activates the first match unless one is active
HandleFinished(s, e) ==
  LET done == [s EXCEPT !.r.search.complete = TRUE]
  IN IF e.rev # s.r.search.rev THEN s
     ELSE IF s.r.search.active = NoPage /\ s.r.search.order # {}
     THEN Activate(done, Min(s.r.search.order)) ELSE done

HandleSearchFailed(s, e) ==
  IF e.rev # s.r.search.rev THEN s
  ELSE [s EXCEPT !.r.search.complete = TRUE, !.r.search.failed = TRUE]

HandleAnalysis(s) == RequestCard([s EXCEPT !.r.scientific = TRUE])

HandleError(s) ==
  Failing([ForgetText(s) EXCEPT !.r.debounce = None, !.r.zoomTask = FALSE,
                                !.r.copy = NoCopy])

\* An event of another generation is dropped.
Handled(s, e) ==
  CASE e.gen # s.r.gen -> s
    [] e.event = "resumed" -> HandleResumed(s)
    [] e.event = "opened" -> HandleOpened(s, e)
    [] e.event = "tile" -> HandleTile(s, e)
    [] e.event = "tilefailed" -> HandleTileFailed(s, e)
    [] e.event = "preview" -> HandlePreview(s, e)
    [] e.event = "previewfailed" -> HandlePreviewFailed(s, e)
    [] e.event = "text" -> HandleText(s, e)
    [] e.event = "results" -> HandleResults(s, e)
    [] e.event = "finished" -> HandleFinished(s, e)
    [] e.event = "searchfailed" -> HandleSearchFailed(s, e)
    [] e.event = "analysis" -> HandleAnalysis(s)
    [] e.event = "error" -> HandleError(s)

HandleWorkerEvent ==
  LET s == Handled(Start, Head(inbox)) IN
  /\ inbox # <<>>
  /\ rd' = s.r
  /\ wk' = s.w
  /\ inbox' = Tail(inbox) \o s.out
  /\ UNCHANGED habits

-----------------------------------------------------------------------------
(* Timers and frames of the window thread *)

\* The deadline of the zoom debounce passes before its timer runs.
DebounceOver ==
  /\ rd.debounce = "waiting"
  /\ Becomes([Start EXCEPT !.r.debounce = "over"])

ZoomTimer ==
  /\ rd.zoomTask
  /\ Becomes(Request([Start EXCEPT !.r.zoomTask = FALSE, !.r.debounce = None]))

\* With tiles pending the timer is armed again.
TrimTimer ==
  /\ rd.trimTask
  /\ rd.pending = {}
  /\ Becomes(Evict([Start EXCEPT !.r.trimTask = FALSE, !.r.trimmed = TRUE]))

SleepTimer ==
  /\ rd.sleepTask
  /\ LET s == CancelSleep(Start)
     IN Becomes(IF wk.up /\ rd.allocation.activity = "Suspended" /\ ~rd.asleep
                THEN [SendHibernate(s) EXCEPT !.r.asleep = TRUE] ELSE s)

\* Render::render of a reader that is on screen
Frame ==
  LET s == Request(SyncAppearance(Start)) IN
  /\ rd.allocation.activity \in Painted
  /\ s # Start
  /\ Becomes(s)

-----------------------------------------------------------------------------
(* The adapter *)

Emit(w, events) ==
  /\ Len(inbox) + Len(events) <= InboxLimit
  /\ wk.up
  /\ wk' = w
  /\ inbox' = inbox \o events
  /\ UNCHANGED <<rd, habits>>

\* SupervisorEvent::Opened and OpenFailed
FinishOpen ==
  /\ wk.session = "opening"
  /\ \/ /\ "failed" \in habits.outcomes
        /\ Emit([wk EXCEPT !.session = "none"], <<[event |-> "error", gen |-> wk.gen]>>)
     \/ /\ wk.opened
        /\ Emit([wk EXCEPT !.session = "open"], <<[event |-> "resumed", gen |-> wk.gen]>>)
     \/ /\ ~wk.opened
        /\ \E valid \in IF "invalid" \in habits.outcomes THEN BOOLEAN ELSE {TRUE} :
             Emit([wk EXCEPT !.session = "open", !.opened = TRUE, !.analysis = TRUE],
                  <<[event |-> "opened", gen |-> wk.gen, valid |-> valid]>>)

RenderTile ==
  \E d \in wk.tiles, outcome \in habits.outcomes :
    Emit([wk EXCEPT !.tiles = @ \ {d}],
         <<[event |-> IF outcome = "failed" THEN "tilefailed" ELSE "tile", gen |-> wk.gen,
            doc |-> wk.gen, tile |-> d.tile, appearance |-> d.appearance,
            valid |-> outcome = "good"]>>)

\* schedule_visible_text_if_due
TextDue ==
  /\ wk.soon # {}
  /\ Emit([wk EXCEPT !.soon = {}, !.texts = IF wk.session = "open" THEN wk.soon ELSE {}],
          <<>>)

ExtractText ==
  \E page \in wk.texts \cup wk.explicit :
    \/ /\ page \in wk.texts
       /\ Emit([wk EXCEPT !.texts = @ \ {page}],
               <<[event |-> "text", gen |-> wk.gen, doc |-> wk.gen, page |-> page]>>)
    \/ /\ page \in wk.explicit
       /\ Emit([wk EXCEPT !.explicit = @ \ {page}],
               <<[event |-> "text", gen |-> wk.gen, doc |-> wk.gen, page |-> page]>>)

RenderPreview ==
  /\ wk.preview # NoPreview
  /\ \E outcome \in habits.outcomes :
       Emit([wk EXCEPT !.preview = NoPreview],
            <<[event |-> IF outcome = "failed" THEN "previewfailed" ELSE "preview",
               gen |-> wk.gen, doc |-> wk.gen, rev |-> wk.preview.rev,
               link |-> wk.preview.link, appearance |-> wk.preview.appearance]>>)

Background == wk.background /\ wk.session = "open"

\* drive_search, process_search_page: a page without a match is not reported
SearchPage ==
  LET page == wk.job.next
      found == page \in Hits[wk.job.query]
      job == [wk.job EXCEPT !.next = @ + 1, !.total = IF found THEN @ + 1 ELSE @]
      last == page = Max(Pages)
      report == IF found THEN <<[event |-> "results", gen |-> wk.gen, rev |-> job.rev,
                                 page |-> page]>> ELSE <<>>
      finish == IF last THEN <<[event |-> "finished", gen |-> wk.gen, rev |-> job.rev,
                                total |-> job.total]>> ELSE <<>>
  IN
  /\ Background
  /\ wk.job # NoSearch
  /\ IF wk.job.cancelled THEN Emit([wk EXCEPT !.job = NoSearch], <<>>)
     ELSE Emit([wk EXCEPT !.job = IF last THEN NoSearch ELSE job], report \o finish)

\* drive_scientific
FinishAnalysis ==
  /\ Background
  /\ wk.analysis
  /\ Emit([wk EXCEPT !.analysis = FALSE], <<[event |-> "analysis", gen |-> wk.gen]>>)

\* The thread of the adapter ends; sends fail from then on.
WorkerEnds ==
  /\ "end" \in habits.kinds
  /\ wk.up
  /\ wk' = [wk EXCEPT !.up = FALSE]
  /\ UNCHANGED <<rd, inbox, habits>>

-----------------------------------------------------------------------------
UserStep ==
  \/ OpenPath \/ Scroll \/ Zoom \/ ChangeTheme \/ Allocate \/ Copy \/ ActivateLink
  \/ ActivateEntry \/ PointAt \/ LeaveDocument \/ EnterCard \/ LeaveCard
  \/ SetQuery \/ ResetSearch \/ NavigateSearch

ViewMachine ==
  \/ HandleWorkerEvent \/ DebounceOver \/ ZoomTimer \/ TrimTimer \/ SleepTimer \/ Frame
  \/ HoverTimer \/ SearchTimer
  \/ FinishOpen \/ RenderTile \/ TextDue \/ ExtractText \/ RenderPreview
  \/ SearchPage \/ FinishAnalysis

ViewNext == UserStep \/ ViewMachine \/ WorkerEnds

ViewSpec == ViewInit /\ [][ViewNext]_viewVars

-----------------------------------------------------------------------------
(* Properties *)

(* What is on screen belongs to the document and the appearance that are      *)
(* shown: no tile, text or link image of another document, theme or link,     *)
(* with events of earlier demands arriving late, and the matches in the list  *)
(* are those of the query.  When a search is reported finished its total is   *)
(* the length of the list, as handle_worker_event asserts.                    *)
ViewIsCurrent ==
  /\ \A c \in rd.rendered : c.gen = rd.gen /\ c.appearance = rd.appearance
  /\ rd.textFrom \subseteq {rd.gen}
  /\ (rd.card # None /\ rd.image.rev = rd.imageRev) =>
        Links[rd.card].external \/ Links[rd.card].cites
          \/ (rd.image.link = rd.card /\ rd.image.gen = rd.gen)
  /\ rd.search.order # {} => rd.search.order \subseteq Hits[rd.search.query]
  /\ (rd.search.query # None /\ rd.search.complete /\ ~rd.search.failed /\ wk.up) =>
        rd.search.order = Hits[rd.search.query]
  /\ (inbox # <<>> /\ Head(inbox).event = "finished" /\ Head(inbox).gen = rd.gen
        /\ Head(inbox).rev = rd.search.rev) =>
        Head(inbox).total = Cardinality(rd.search.order)

Shown == rd.status = "ready" /\ rd.allocation.activity \notin Resting /\ wk.up

\* No step of ViewMachine is possible
AtRest ==
  /\ inbox = <<>>
  /\ rd.debounce # "waiting" /\ ~rd.zoomTask /\ ~rd.sleepTask /\ ~rd.searchTask
  /\ rd.trimTask => rd.pending # {}
  /\ ~rd.hoverTimer
  /\ wk.session # "opening" /\ wk.preview = NoPreview
  /\ wk.tiles = {} /\ wk.texts \cup wk.soon \cup wk.explicit = {}
  /\ Background => (wk.job = NoSearch /\ ~wk.analysis)
  /\ rd.allocation.activity \in Painted => Request(SyncAppearance(Start)) = Start

(* Nobody waits for nothing: with no event, timer or work outstanding, every  *)
(* tile in view is rendered or has failed, after changes of zoom, theme,      *)
(* allocation and document, evictions and hibernation; a copy has ended and a  *)
(* jump along a link or an entry has taken place, unless a later request or   *)
(* hibernation took their text away; a search has ended unless hibernation    *)
(* cancelled it; a card the pointer has left is closed, unless the timer that *)
(* closes it went off while the pointer was on the card: then the candidate   *)
(* stays, and leaving the card starts no other.                               *)
NobodyWaits ==
  (Shown /\ AtRest) =>
    /\ \A p \in Span[rd.spot].visible :
         Tile(p, rd.zoom) \in {c.tile : c \in rd.rendered} \cup rd.failed
    /\ (rd.copy = NoCopy /\ rd.toLink = None /\ rd.toEntry = NoPage) \/ wk.lost
    /\ rd.search.query = None \/ rd.search.complete \/ wk.stopped \/ ~wk.background
    /\ rd.card = None \/ rd.onSource \/ rd.onCard \/ rd.hover = Gone
=============================================================================

------------------------------ MODULE Workspace ------------------------------
(* The workspace: the application host's registry of windows, views, paths and
   resource participants (application_host.rs, key-workspace-core), and the
   windows with their tabs and splits (workspace_window.rs).

   The same facts are kept three times: a window knows its tabs, the host knows
   which window has which view and which path, and the resource registry knows
   the views as participants.  Everything runs on the user interface thread and
   each callback is one action, but a callback changes the three through many
   calls, some of them while a window is on GPUI's update stack and cannot be
   reached through its handle.  Each method is an operator from the state of the
   application to its next state, under the method's name; resource allocations
   computed on the way are sent at the end, when the callback's effects are
   flushed.

   A document is its path, a reader is its slot: whether it has an unsaved comment
   draft, and the allocation it holds.  Allocations have one dimension, the worker
   slots; memory is assumed to meet every target.  Titles, docks, split ratios and
   animations are left out. *)
EXTENDS ResourceAllocator, FiniteSets, TLC

CONSTANTS
  System,        \* SystemResources
  Startups       \* command lines and what is done with them: [paths, separate (windows
                 \* instead of tabs, debug builds only), opens (the paths the user picks),
                 \* views, tabs, drafts (how many may come to be)]

VARIABLES
  windows,     \* open windows: [window -> [tabs, active, asks]]
  slots,       \* contents of the tabs: [view -> [kind, item, draft, given, rebuilt]]
  app,        \* ApplicationHost
  registry,    \* ResourceRegistry: [view -> [kind, activity, allocation]]
  ids,         \* IdGenerator, and drafts begun
  key,         \* the window the platform has activated
  todo         \* command line still to be opened

workVars == <<windows, slots, app, registry, ids, key, todo>>

NoWindow == 0
NoView == 0
NoFile == "no file"
NoPlace == [window |-> NoWindow, view |-> NoView]
NoAllocation == [activity |-> "none", slots |-> 0]

\* PdfReader::new: what a reader assumes until it is told
Assumed == [activity |-> "ForegroundInteractive", slots |-> 2]

Without(f, S) == Restrict(f, DOMAIN f \ S)
With(f, x, e) == [y \in DOMAIN f \cup {x} |-> IF y = x THEN e ELSE f[y]]

ViewsOf(tab) == ToSet(tab.views)
WindowViews(win) == UNION {ViewsOf(win.tabs[i]) : i \in DOMAIN win.tabs}
ActiveTab(win) == win.tabs[win.active]
ActiveView(win) == ActiveTab(win).active
IsSplit(tab) == Len(tab.place) = 2
TabOf(win, v) == CHOOSE i \in DOMAIN win.tabs : v \in ViewsOf(win.tabs[i])
TabAt(win, t) == {i \in DOMAIN win.tabs : win.tabs[i].id = t}
The(S) == CHOOSE x \in S : TRUE

\* WorkspaceTab::single
Single(t, v) == [id |-> t, views |-> <<v>>, place |-> <<v>>, active |-> v]

\* The application, as the methods pass it on; sends are the deferred allocations
Application == [windows |-> windows, slots |-> slots, app |-> app, registry |-> registry,
        ids |-> ids, sends |-> <<>>]

-----------------------------------------------------------------------------
(* Resource participants *)

\* refresh_activity_levels, for the view at index i of view_mru
ActivityOf(h, i) ==
  CASE h.mru[i] = h.active -> "ForegroundInteractive"
    [] h.mru[i] # h.active /\ h.mru[i] \in h.visible -> "ForegroundVisible"
    [] h.mru[i] \notin h.visible \cup {h.active} /\ i <= 2 -> "BackgroundWarm"
    [] h.mru[i] \notin h.visible \cup {h.active} /\ i \in {3, 4} -> "BackgroundCold"
    [] OTHER -> "Suspended"

RefreshActivityLevels(s) ==
  [s EXCEPT !.registry =
     [v \in DOMAIN @ |->
        LET at == {i \in DOMAIN s.app.mru : s.app.mru[i] = v}
        IN IF at = {} THEN @[v] ELSE [@[v] EXCEPT !.activity = ActivityOf(s.app, The(at))]]]

\* resource_profile, worker slots
Participant(p) ==
  [activity |-> p.activity, minimum |-> 0, target |-> IF p.kind = "Pdf" THEN 2 ELSE 0,
   weight |-> IF p.kind = "Pdf" THEN 3 ELSE 1, suspendable |-> TRUE]

\* reconcile_resource_targets, with the plan for the views in their order: the
\* changed allocations are sent, each to the window that has its view
SendTargets(s, order, plan) ==
  LET At(v) == {w \in DOMAIN s.app.records : v \in DOMAIN s.app.records[w].views}
      New(i) == s.registry[order[i]].allocation # plan[i] /\ At(order[i]) # {}
      changed == SelectSeq([i \in DOMAIN order |-> i], New)
  IN [s EXCEPT
        !.sends = @ \o [i \in DOMAIN changed |->
                          [window |-> The(At(order[changed[i]])), view |-> order[changed[i]],
                           allocation |-> plan[changed[i]]]],
        !.registry = [v \in DOMAIN @ |->
                        [@[v] EXCEPT !.allocation = plan[The({i \in DOMAIN order : order[i] = v})]]]]

\* ResourceRegistry::reconcile: a plan of the budget for the participants
ReconcileInOrder(s, order) ==
  LET Planned(shares) == [i \in DOMAIN order |->
                            [activity |-> s.registry[order[i]].activity, slots |-> shares[i]]]
  IN SendTargets(s, order,
       Planned(AllocateDimension(WorkerBudget(s.app.mode, System),
                                 [i \in DOMAIN order |-> Participant(s.registry[order[i]])])))

ReconcileTargets(s) == ReconcileInOrder(s, SetToSortSeq(DOMAIN s.registry, <))

\* apply_resource_targets of one target, after the callback of window `on`
AppliedTarget(s, on, send) ==
  IF /\ send.window \in DOMAIN s.windows
     /\ send.view \in WindowViews(s.windows[send.window])
     /\ s.slots[send.view].kind = "Pdf"
  THEN [s EXCEPT !.slots[send.view].given = send.allocation,
                 !.slots[send.view].rebuilt = FALSE]
  ELSE s

\* The callback returns: its deferred effects run, then the state is visible
Returns(s, on) ==
  LET Send(t, send) == AppliedTarget(t, on, send)
      end == FoldLeft(Send, s, s.sends)
  IN /\ windows' = end.windows /\ slots' = end.slots /\ app' = end.app
     /\ registry' = end.registry /\ ids' = end.ids

-----------------------------------------------------------------------------
(* The host's registrations *)

ToFront(seq, v) == <<v>> \o SelectSeq(seq, LAMBDA x : x # v)
ToBack(seq, v) == Append(SelectSeq(seq, LAMBDA x : x # v), v)

\* set_active_views
SetActiveViews(s, v, visible) ==
  RefreshActivityLevels(
    [s EXCEPT !.app.active = v, !.app.visible = visible \cup {v},
              !.app.mru = ToFront(@, v)])

ActivateViews(s, v, visible) == ReconcileTargets(SetActiveViews(s, v, visible))

\* select_workspace_tab_views
SelectTabViews(s, w, v, visible) ==
  ActivateViews(IF w \in DOMAIN s.app.records
                THEN [s EXCEPT !.app.records[w].active = v] ELSE s, v, visible)

\* register_view_path and register_participant
RegisterView(s, w, v, kind, item) ==
  RefreshActivityLevels(
    [s EXCEPT
       !.app.paths = IF item = NoFile THEN @ ELSE With(@, item, [window |-> w, view |-> v]),
       !.registry = With(@, v, [kind |-> kind, activity |-> "BackgroundWarm",
                                allocation |-> IF v \in DOMAIN @ THEN @[v].allocation
                                               ELSE NoAllocation]),
       !.app.mru = ToBack(@, v)])

\* insert_window and register_view
InsertWindow(s, w, v, kind, item) ==
  RegisterView([s EXCEPT !.app.records = With(@, w, [views |-> v :> item, active |-> v])],
               w, v, kind, item)

AddToWindow(s, w, v, kind, item) ==
  RegisterView([s EXCEPT !.app.records[w].views = With(@, v, item),
                         !.app.records[w].active = v], w, v, kind, item)

\* What is registered under a view that goes
ForgetPaths(paths, v) == RestrictValues(paths, LAMBDA p : p.view # v)

\* remove_workspace_view
RemoveView(s, w, v, next) ==
  LET gone == [s EXCEPT
                 !.app.records[w] = [views |-> Without(@.views, {v}), active |-> next],
                 !.app.paths = ForgetPaths(@, v),
                 !.app.settings = IF @.view = v THEN NoPlace ELSE @,
                 !.registry = Without(@, {v}),
                 !.app.mru = SelectSeq(@, LAMBDA x : x # v),
                 !.app.visible = @ \ {v},
                 !.app.active = IF @ = v THEN next ELSE @]
  IN ReconcileTargets(RefreshActivityLevels(gone))

\* Mutant: the path of a moved view still leads to the old window
MutTransferRegistration(s, from, to, v) ==
  [s EXCEPT !.app.records =
     [@ EXCEPT ![from] = [views |-> Without(@.views, {v}),
                          active |-> IF @.active = v THEN NoView ELSE @.active],
               ![to] = [views |-> With(@.views, v, s.app.records[from].views[v]), active |-> v]]]

\* transfer_workspace_view_registration
TransferRegistration(s, from, to, v) ==
  [s EXCEPT
     !.app.records =
       [@ EXCEPT ![from] = [views |-> Without(@.views, {v}),
                            active |-> IF @.active = v THEN NoView ELSE @.active],
                 ![to] = [views |-> With(@.views, v, s.app.records[from].views[v]), active |-> v]],
     !.app.paths = [p \in DOMAIN @ |-> IF @[p].view = v THEN [@[p] EXCEPT !.window = to] ELSE @[p]],
     !.app.settings = IF @.view = v THEN [window |-> to, view |-> v] ELSE @]

\* prune_closed_windows
PruneClosedWindows(s) ==
  LET kept == Restrict(s.app.records, DOMAIN s.app.records \cap DOMAIN s.windows)
      gone == UNION {DOMAIN s.app.records[w].views : w \in DOMAIN s.app.records \ DOMAIN kept}
      Kept(v) == \E w \in DOMAIN kept : v \in DOMAIN kept[w].views
  IN RefreshActivityLevels(
       [s EXCEPT !.app.records = kept,
                 !.registry = Without(@, gone),
                 !.app.mru = SelectSeq(@, LAMBDA x : x \notin gone),
                 !.app.visible = @ \ gone,
                 !.app.paths = RestrictValues(@, LAMBDA p : p.window \in DOMAIN kept),
                 !.app.settings =
                   IF @.window \in DOMAIN kept /\ @.view \in DOMAIN kept[@.window].views
                   THEN @ ELSE NoPlace,
                 !.app.active = IF Kept(@) THEN @ ELSE NoView])

-----------------------------------------------------------------------------
(* Windows *)

\* finish_tab_activation
FinishTabActivation(s, w) ==
  LET tab == ActiveTab(s.windows[w])
  IN SelectTabViews(s, w, tab.active, ToSet(tab.place))

\* activate_tab_index
ActivateTabIndex(s, w, i) ==
  FinishTabActivation([s EXCEPT !.windows[w].active = i], w)

\* activate_tab and activate_tab_view
ActivateTab(s, w, v) ==
  IF v \in WindowViews(s.windows[w])
  THEN LET i == TabOf(s.windows[w], v)
       IN ActivateTabIndex([s EXCEPT !.windows[w].tabs[i].active = v], w, i)
  ELSE s

\* A new slot; the constructor of a reader takes over the window's close question
NewSlot(s, w, v, kind, item) ==
  [s EXCEPT
     !.slots = With(@, v, [kind |-> kind, item |-> item, draft |-> FALSE,
                           given |-> IF kind = "Pdf" THEN Assumed ELSE NoAllocation,
                           rebuilt |-> FALSE]),
     !.windows[w].asks = IF kind = "Pdf" THEN v ELSE @]

\* new_pdf and new_settings, insert_window, activate_workspace_view
OpenWindow(s, kind, item) ==
  LET w == s.ids.window
      v == s.ids.view
      built == [s EXCEPT !.windows = With(@, w, [tabs |-> <<Single(s.ids.tab, v)>>,
                                                 active |-> 1, asks |-> NoView]),
                         !.ids = [@ EXCEPT !.window = @ + 1, !.view = @ + 1, !.tab = @ + 1]]
  IN ActivateViews(InsertWindow(NewSlot(built, w, v, kind, item), w, v, kind, item), v, {v})

\* add_pdf_tab and add_settings_tab, then register_view and activate_workspace_view:
\* the tab is activated before the host knows its view
AddTab(s, w, kind, item) ==
  LET v == s.ids.view
      tabs == Append(s.windows[w].tabs, Single(s.ids.tab, v))
      added == [s EXCEPT !.windows[w].tabs = tabs, !.windows[w].active = Len(tabs),
                         !.ids = [@ EXCEPT !.view = @ + 1, !.tab = @ + 1]]
  IN ActivateViews(
       AddToWindow(FinishTabActivation(NewSlot(added, w, v, kind, item), w), w, v, kind, item),
       v, {v})

\* open_pdf into the reader in front, which takes the identity v of the view the
\* host believes to be in front; a Settings tab is left as it is
OpenInto(s, w, v, item) ==
  LET i == s.windows[w].active
      front == ActiveView(s.windows[w])
  IN IF s.slots[front].kind = "Pdf"
     THEN [s EXCEPT !.slots = With(Without(@, {front}), v, [s.slots[front] EXCEPT !.item = item]),
                    !.windows[w].tabs[i] =
                      [@ EXCEPT !.views = ReplaceAll(@, front, v), !.active = v, !.place = <<v>>]]
     ELSE s

\* empty_pdf_window
EmptyPdfWindow(s, w) ==
  LET rec == s.app.records[w]
  IN rec.active \in DOMAIN rec.views /\ rec.views[rec.active] = NoFile

\* open_pdf_from_workspace
OpenPdf(s, w, item) ==
  IF item \in DOMAIN s.app.paths
  THEN ActivateTab(s, s.app.paths[item].window, s.app.paths[item].view)
  ELSE IF EmptyPdfWindow(s, w)
  THEN LET v == s.app.records[w].active
       IN [OpenInto(s, w, v, item) EXCEPT
             !.app.records[w].views[v] = item,
             !.app.paths = With(@, item, [window |-> w, view |-> v]),
             !.ids.view = @ + 1]
  ELSE AddTab(s, w, "Pdf", item)

\* open_settings_window, dispatched in window w, which is on the update stack: a
\* call through the handle of w itself fails, and only a warning is shown
OpenSettingsFrom(s, w) ==
  LET known == s.app.settings
      at == {x \in DOMAIN s.app.records : s.app.active \in DOMAIN s.app.records[x].views}
      used == [s EXCEPT !.ids.view = @ + 1]
      Add(x) == LET added == AddTab(s, x, "Settings", NoFile)
                IN [added EXCEPT !.app.settings = [window |-> x, view |-> s.ids.view]]
      opened == OpenWindow(s, "Settings", NoFile)
  IN CASE known # NoPlace /\ known.window = w -> s
       [] known # NoPlace /\ known.window # w -> ActivateTab(s, known.window, known.view)
       [] known = NoPlace /\ w \in at -> used
       [] known = NoPlace /\ w \notin at /\ at # {} -> Add(The(at))
       [] OTHER -> [opened EXCEPT !.app.settings =
                                    [window |-> s.ids.window, view |-> s.ids.view]]

-----------------------------------------------------------------------------
(* Splits *)

\* split_with_tab
SplitWithTab(s, w, i) ==
  LET win == s.windows[w]
      other == win.tabs[i]
      tab == [ActiveTab(win) EXCEPT !.views = @ \o other.views,
                                    !.place = <<ActiveView(win), other.active>>]
  IN IF i = win.active \/ IsSplit(ActiveTab(win)) \/ IsSplit(other) THEN s
     ELSE FinishTabActivation(
            [s EXCEPT !.windows[w].tabs = RemoveAt(ReplaceAt(@, win.active, tab), i),
                      !.windows[w].active = IF i < @ THEN @ - 1 ELSE @], w)

\* swap_split_views
SwapSplitViews(s, w) ==
  LET win == s.windows[w]
  IN IF IsSplit(ActiveTab(win))
     THEN FinishTabActivation([s EXCEPT !.windows[w].tabs[win.active].place = Reverse(@)], w)
     ELSE s

\* separate_split: the view that is not active goes into a tab beside
SeparateSplit(s, w) ==
  LET win == s.windows[w]
      tab == ActiveTab(win)
      first == tab.active # tab.place[1]
      apart == IF first THEN tab.place[1] ELSE tab.place[2]
      kept == [s EXCEPT !.windows[w].tabs[win.active] =
                          [@ EXCEPT !.views = SelectSeq(@, LAMBDA x : x # apart),
                                    !.place = <<tab.active>>]]
  IN FinishTabActivation(
       [kept EXCEPT
          !.windows[w].tabs = InsertAt(@, IF first THEN win.active ELSE win.active + 1,
                                       Single(s.ids.tab, apart)),
          !.windows[w].active = IF first THEN @ + 1 ELSE @,
          !.ids.tab = @ + 1], w)

\* close_split_view
CloseSplit(s, w, v) ==
  LET i == s.windows[w].active
      other == The(ToSet(s.windows[w].tabs[i].place) \ {v})
      left == [s EXCEPT !.slots = Without(@, {v}),
                        !.windows[w].tabs[i] = [@ EXCEPT !.views = SelectSeq(@, LAMBDA x : x # v),
                                                         !.place = <<other>>, !.active = other]]
  IN IF s.slots[v].draft THEN s ELSE FinishTabActivation(RemoveView(left, w, v, other), w)

-----------------------------------------------------------------------------
(* Closing and moving tabs *)

\* active_index_after_close, indices from one
ActiveAfterClose(count, active, closed) ==
  CASE closed < active -> active - 1
    [] closed >= active /\ active > count - 1 -> count - 1
    [] OTHER -> active

Drafts(s, views) == {v \in views : s.slots[v].draft}

\* Mutant: only the draft of the view in front holds a tab back
MutHeld(s, tab) == s.slots[tab.active].draft

\* close_tab and take_tab_for_transfer: a draft in any view of a tab holds it back
Held(s, tab) == Drafts(s, ViewsOf(tab)) # {}

\* remove_window, and the prune of the observer of closed windows
CloseWindow(s, w) ==
  ReconcileTargets(PruneClosedWindows(
    [s EXCEPT !.slots = Without(@, WindowViews(s.windows[w])), !.windows = Without(@, {w})]))

\* close_tab
CloseTab(s, w, i) ==
  LET win == s.windows[w]
      views == win.tabs[i].views
      left == [s EXCEPT !.windows[w] = [@ EXCEPT !.tabs = RemoveAt(@, i),
                                                 !.active = ActiveAfterClose(Len(win.tabs), @, i)],
                        !.slots = Without(@, ToSet(views))]
      Gone(t, v) == RemoveView(t, w, v, ActiveView(left.windows[w]))
  IN IF Held(s, win.tabs[i]) THEN s
     ELSE IF Len(win.tabs) = 1 THEN CloseWindow(s, w)
     ELSE FinishTabActivation(FoldLeft(Gone, left, views), w)

\* reorder_destination, indices from one; insertion is the gap before which to insert
ReorderDestination(count, source, insertion) ==
  IF insertion > source THEN Min({insertion - 1, count}) ELSE Min({insertion, count})

\* reorder_tab: the same tab stays active, wherever it is now
ReorderTab(s, w, t, insertion) ==
  LET win == s.windows[w]
      source == The(TabAt(win, t))
      to == ReorderDestination(Len(win.tabs), source, Min({insertion, Len(win.tabs) + 1}))
      tabs == InsertAt(RemoveAt(win.tabs, source), to, win.tabs[source])
  IN IF TabAt(win, t) = {} \/ source = to THEN s
     ELSE [s EXCEPT !.windows[w] =
             [@ EXCEPT !.tabs = tabs, !.active = The(TabAt([tabs |-> tabs], ActiveTab(win).id))]]

\* take_tab_for_transfer of a tab that is not held back
TakeTab(s, w, i) ==
  LET win == s.windows[w]
      left == [s EXCEPT !.windows[w] = [@ EXCEPT !.tabs = RemoveAt(@, i),
                                                 !.active = ActiveAfterClose(Len(win.tabs), @, i)]]
  IN IF Len(win.tabs) = 1 THEN left ELSE FinishTabActivation(left, w)

\* rebuild_transferred_content: a new reader for each document, in the new window
Rebuild(s, w, v) ==
  IF s.slots[v].kind = "Pdf"
  THEN [s EXCEPT !.slots[v] = [@ EXCEPT !.given = Assumed, !.draft = FALSE, !.rebuilt = TRUE],
                 !.windows[w].asks = v]
  ELSE s

\* handle_tab_drop: a window whose last tab was taken is removed
CloseIfEmpty(s, w) == IF s.windows[w].tabs = <<>> THEN CloseWindow(s, w) ELSE s

\* handle_tab_drop, with a tab that was taken out of another window
PlaceTab(s, w, from, tab, at) ==
  LET Move(t, v) == TransferRegistration(t, from, w, v)
      Renew(t, v) == Rebuild(t, w, v)
      moved == FoldLeft(Renew, FoldLeft(Move, s, tab.views), tab.views)
  IN CloseIfEmpty(
       FinishTabActivation(
         [moved EXCEPT !.windows[w] = [@ EXCEPT !.tabs = InsertAt(@, at, tab), !.active = at]], w),
       from)

TransferTab(s, w, from, i, insertion) ==
  LET tab == s.windows[from].tabs[i]
      at == Min({insertion, Len(s.windows[w].tabs) + 1})
  IN IF Held(s, tab) THEN s ELSE PlaceTab(TakeTab(s, from, i), w, from, tab, at)

\* handle_tab_drop
DropTab(s, w, from, t, insertion) ==
  CASE from = w -> ReorderTab(s, w, t, insertion)
    [] from # w /\ from \in DOMAIN s.windows /\ TabAt(s.windows[from], t) # {} ->
         TransferTab(s, w, from, The(TabAt(s.windows[from], t)), insertion)
    [] OTHER -> s

\* split_from_drop, on the side of the tab in front that it was dropped on
OnSide(s, w, left) ==
  IF left /\ IsSplit(ActiveTab(s.windows[w])) THEN SwapSplitViews(s, w) ELSE s

\* split_from_drop, the dropped tab being in this window: when it is a split, the
\* target becomes the tab in front and nothing else happens
SplitHere(s, w, t, target, left) ==
  LET source == TabAt(s.windows[w], t)
      front == [s EXCEPT !.windows[w].active = The(TabAt(s.windows[w], target))]
  IN IF source = {} THEN s ELSE OnSide(SplitWithTab(front, w, The(source)), w, left)

\* split_from_drop
SplitFromDrop(s, w, from, t, left) ==
  IF IsSplit(ActiveTab(s.windows[w])) THEN s
  ELSE SplitHere(IF from = w THEN s ELSE DropTab(s, w, from, t, Len(s.windows[w].tabs) + 1),
                 w, t, ActiveTab(s.windows[w]).id, left)

-----------------------------------------------------------------------------
(* Callbacks *)

WorkInit ==
  /\ windows = <<>> /\ slots = <<>> /\ registry = <<>>
  /\ app = [records |-> <<>>, paths |-> <<>>, settings |-> NoPlace, active |-> NoView,
             visible |-> {}, mru |-> <<>>, mode |-> "Auto"]
  /\ ids = [window |-> 1, view |-> 1, tab |-> 1, drafts |-> 0]
  /\ key = NoWindow
  /\ todo \in Startups

\* main: the first path, or none, opens a window, the others tabs or windows
Start ==
  /\ todo.paths # <<>>
  /\ LET item == Head(todo.paths)
         s == Application
     IN Returns(CASE item \in DOMAIN app.paths ->
                       ActivateTab(s, app.paths[item].window, app.paths[item].view)
                  [] item \notin DOMAIN app.paths /\ (DOMAIN windows = {} \/ todo.separate) ->
                       OpenWindow(s, "Pdf", item)
                  [] OTHER -> OpenPdf(s, 1, item), NoWindow)
  /\ todo' = [todo EXCEPT !.paths = Tail(@)]
  /\ UNCHANGED key

\* A callback in window w
Callback(s, w) == todo.paths = <<>> /\ Returns(s, w) /\ UNCHANGED todo

MayCreate == ids.view <= todo.views /\ ids.tab <= todo.tabs

\* The platform's activation callbacks: activation_changed
Resigns ==
  /\ key \in DOMAIN windows
  /\ LET v == ActiveView(windows[key])
     IN Callback(ReconcileTargets(IF app.active = v
                           THEN [Application EXCEPT !.registry[v].activity = "ForegroundIdle"]
                           ELSE Application), key)
  /\ key' = NoWindow

Becomes ==
  \E w \in DOMAIN windows :
    /\ key = NoWindow
    /\ Callback(ActivateViews(Application, ActiveView(windows[w]), ToSet(ActiveTab(windows[w]).place)), w)
    /\ key' = w

\* A path comes back from the picker, in whatever window asked for it
PathPicked ==
  \E w \in DOMAIN windows, item \in todo.opens :
    MayCreate /\ Callback(OpenPdf(Application, w, item), w) /\ UNCHANGED key

SettingsAsked ==
  key \in DOMAIN windows /\ MayCreate /\ Callback(OpenSettingsFrom(Application, key), key) /\ UNCHANGED key

\* set_resource_mode, on the Settings page
ModeChosen ==
  \E mode \in {"Saver", "Performance"} :
    /\ key \in DOMAIN windows /\ slots[ActiveView(windows[key])].kind = "Settings"
    /\ Callback(ReconcileTargets([Application EXCEPT !.app.mode = mode]), key) /\ UNCHANGED key

TabClicked ==
  /\ key \in DOMAIN windows
  /\ \E v \in WindowViews(windows[key]) :
       /\ v # ActiveView(windows[key])
       /\ Callback(ActivateTab(Application, key, v), key)
  /\ UNCHANGED key

TabClosed ==
  /\ key \in DOMAIN windows
  /\ \E i \in DOMAIN windows[key].tabs : Callback(CloseTab(Application, key, i), key)
  /\ key' = IF key \in DOMAIN windows' THEN key ELSE NoWindow

TabDropped ==
  \E w, from \in DOMAIN windows :
    /\ \E i \in DOMAIN windows[from].tabs, insertion \in 1..(Len(windows[w].tabs) + 1) :
         Callback(DropTab(Application, w, from, windows[from].tabs[i].id, insertion), w)
    /\ key' = IF key \in DOMAIN windows' THEN key ELSE NoWindow

TabDroppedOnEdge ==
  \E w, from \in DOMAIN windows, left \in BOOLEAN :
    /\ \E i \in DOMAIN windows[from].tabs :
         Callback(SplitFromDrop(Application, w, from, windows[from].tabs[i].id, left), w)
    /\ key' = IF key \in DOMAIN windows' THEN key ELSE NoWindow

SplitMenu ==
  /\ key \in DOMAIN windows
  /\ \/ \E i \in DOMAIN windows[key].tabs : Callback(SplitWithTab(Application, key, i), key)
     \/ IsSplit(ActiveTab(windows[key])) /\ Callback(SwapSplitViews(Application, key), key)
     \/ /\ IsSplit(ActiveTab(windows[key])) /\ ids.tab <= todo.tabs
        /\ Callback(SeparateSplit(Application, key), key)
     \/ /\ IsSplit(ActiveTab(windows[key]))
        /\ \E v \in ToSet(ActiveTab(windows[key]).place) : Callback(CloseSplit(Application, key, v), key)
  /\ UNCHANGED key

\* The close button: should_close_window of the reader that was built last in this
\* window, if it is still there
WindowClosed ==
  \E w \in DOMAIN windows :
    /\ ~(windows[w].asks \in WindowViews(windows[w]) /\ slots[windows[w].asks].draft)
    /\ Callback(CloseWindow(Application, w), w)
    /\ key' = IF key = w THEN NoWindow ELSE key

\* The reader in front begins a comment, saves or discards it
DraftBegun ==
  /\ key \in DOMAIN windows /\ ids.drafts < todo.drafts
  /\ LET v == ActiveView(windows[key])
     IN /\ slots[v].kind = "Pdf" /\ slots[v].item # NoFile /\ ~slots[v].draft
        /\ Callback([Application EXCEPT !.slots[v].draft = TRUE, !.ids.drafts = @ + 1], key)
  /\ UNCHANGED key

DraftEnded ==
  /\ key \in DOMAIN windows
  /\ LET v == ActiveView(windows[key])
     IN slots[v].draft /\ Callback([Application EXCEPT !.slots[v].draft = FALSE], key)
  /\ UNCHANGED key

WorkNext ==
  \/ Start \/ Resigns \/ Becomes \/ PathPicked \/ SettingsAsked \/ ModeChosen
  \/ TabClicked \/ TabClosed \/ TabDropped \/ TabDroppedOnEdge \/ SplitMenu
  \/ WindowClosed \/ DraftBegun \/ DraftEnded

WorkSpec == WorkInit /\ [][WorkNext]_workVars

-----------------------------------------------------------------------------
(* Properties *)

\* The tabs of a window: its active tab exists, a tab shows one view or two, shows
\* exactly the views it owns, and the view in front is one of them (active_slot
\* panics otherwise); no view has two places.
LayoutSupported ==
  /\ \A w \in DOMAIN windows :
       /\ windows[w].active \in DOMAIN windows[w].tabs
       /\ \A i \in DOMAIN windows[w].tabs :
            LET tab == windows[w].tabs[i]
            IN /\ Len(tab.place) \in 1..2 /\ Len(tab.views) = Len(tab.place)
               /\ ToSet(tab.place) = ToSet(tab.views) /\ Cardinality(ToSet(tab.place)) = Len(tab.place)
               /\ tab.active \in ToSet(tab.place)
       /\ \A i, j \in DOMAIN windows[w].tabs :
            i # j => ViewsOf(windows[w].tabs[i]) \cap ViewsOf(windows[w].tabs[j]) = {}
  /\ \A w, x \in DOMAIN windows : w # x => WindowViews(windows[w]) \cap WindowViews(windows[x]) = {}

\* The three records of which views there are agree after every callback: the
\* windows' tabs, the host's registrations (with the order of use), and the
\* participants of the resource registry; and the active view is one of them.
RegistrationsAgree ==
  /\ DOMAIN app.records = DOMAIN windows
  /\ \A w \in DOMAIN windows :
       /\ DOMAIN app.records[w].views = WindowViews(windows[w])
       /\ app.records[w].active \in WindowViews(windows[w])
  /\ DOMAIN slots = UNION {WindowViews(windows[w]) : w \in DOMAIN windows}
  /\ DOMAIN registry = DOMAIN slots
  /\ ToSet(app.mru) = DOMAIN slots /\ Len(app.mru) = Cardinality(DOMAIN slots)
  /\ app.active \in DOMAIN slots \cup {NoView} /\ app.visible \subseteq DOMAIN slots

\* Opening a document that is open brings its view to the front wherever it is: a
\* document has one view, its path leads to the window and view that show it, and no
\* path leads to a view that is gone (opening such a path would do nothing).
DocumentsOpenOnce ==
  /\ \A v \in DOMAIN slots :
       slots[v].item # NoFile =>
         slots[v].item \in DOMAIN app.paths /\ app.paths[slots[v].item].view = v
  /\ \A p \in DOMAIN app.paths :
       /\ app.paths[p].window \in DOMAIN windows
       /\ app.paths[p].view \in WindowViews(windows[app.paths[p].window])

\* Every reader works with the allocation the coordinator has recorded for it, and
\* the recorded worker slots fit the budget of the mode; only a reader that a
\* transfer has just rebuilt may still work with the constructor's assumption.
AllocationsArrive ==
  /\ \A v \in DOMAIN slots :
       slots[v].kind = "Pdf" /\ ~slots[v].rebuilt => slots[v].given = registry[v].allocation
  /\ MapThenSumSet(LAMBDA v : registry[v].allocation.slots, DOMAIN registry)
       <= WorkerBudget(app.mode, System)

\* No tab, split or transfer operation takes an unsaved draft away: while a window
\* stays open, a view of it with a draft is neither closed nor moved, which would
\* rebuild its reader (close_tab, close_split_view and take_tab_for_transfer ask).
DraftsHoldTabs ==
  [][\A w \in DOMAIN windows \cap DOMAIN windows' :
       Drafts(Application, WindowViews(windows[w])) \subseteq WindowViews(windows'[w])]_workVars

\* After every callback the windows, the host and the resource registry tell the
\* same story: where each view is, which document it shows, what it may use.
WorkspaceAgrees ==
  LayoutSupported /\ RegistrationsAgree /\ DocumentsOpenOnce /\ AllocationsArrive
=============================================================================

--------------------------- MODULE DocumentAdapter ---------------------------
(* The orchestration thread of one document (apps/gpui-pdf-reader/src/        *)
(* backend/worker.rs) between the reader on the UI thread (PdfWorker in      *)
(* backend/client.rs) and the shared PDF engine (EngineSupervisor).          *)
(*                                                                           *)
(* Commands of the reader and events of the engine share one bounded         *)
(* mailbox, with at most one engine event in it; the adapter answers over a  *)
(* channel of one event, on which it blocks.  The engine is modelled by what *)
(* a document client can see of it: commands are served in order, work of a  *)
(* closed generation is discarded, work cancelled while it runs is reported  *)
(* as cancelled, and events it cannot deliver wait in order.  A client call  *)
(* and its command are one step here; EngineSupervisor takes them apart.     *)
(*                                                                           *)
(* Document generations number the documents too: generation g opens         *)
(* document g, and hibernation reopens it under a new engine generation.     *)
EXTENDS Integers, FiniteSets, Sequences, SequencesExt

CONSTANTS
  Scenario,         \* the calls a behaviour may use, and how many of them:
                    \* records with fields calls, opens, limit, pages (of
                    \* its documents) and fresh (the engine's Attached is
                    \* still on its way)
  MailboxCapacity,  \* DOCUMENT_MAILBOX_CAPACITY
  CachedPages       \* CachePolicy::text_pages

ASSUME AdapterAssumption ==
  /\ MailboxCapacity \in Nat \ {0}
  /\ CachedPages \in Nat \ {0}
  /\ \A s \in Scenario : s.opens \in Nat /\ s.limit \in Nat /\ s.pages \in Nat \ {0}

VARIABLES
  uses,       \* the scenario
  \* the reader
  reader,     \* what the reader has asked for and been told
  slot,       \* WorkerCancellations: the live token of each kind of call
  \* the channels
  mailbox, routed, uiEvents, shutdown, uiGone,
  \* the adapter
  adapterPc, st,
  outgoing,   \* events the current handler still has to send
  deferred,   \* engine calls it makes after them
  \* the engine's view of this document
  engine, engineOut

readerVars == <<reader, slot>>
adapterVars == <<adapterPc, st, outgoing, deferred>>
engineVars == <<engine, engineOut>>
docVars == <<uses, readerVars, mailbox, routed, uiEvents, shutdown, uiGone,
             adapterVars, engineVars>>

PageCount == uses.pages
Page == 0..(PageCount - 1)
OneShot == {"render", "preview", "copy", "visible"}
WorkClasses == OneShot \cup {"search", "analysis"}
NoSession == [doc |-> 0, gen |-> 0]
NoSearch == [gen |-> 0, rev |-> 0, next |-> 0, token |-> 0, waiting |-> FALSE]
NoAnalysis == [gen |-> 0, next |-> 0, waiting |-> FALSE, docs |-> {}]

-----------------------------------------------------------------------------
(* The engine, as a document client sees it *)

NewEngine == [doc |-> 0, gen |-> 0, opens |-> 0, opening |-> {}, work |-> {},
              running |-> {}, live |-> {}, token |-> 0]

Open(g) == [op |-> "open", doc |-> g]
Close == [op |-> "close"]
Replace(class, demands) == [op |-> "replace", class |-> class, demands |-> demands]
NoCall == [op |-> "none"]

\* What a handler calls: the classes it cancels, then a call; where the code calls
\* replace and then cancels another class, the order makes no difference.
Calls(classes, call) == [cancel |-> classes, call |-> call]
Cancel(classes) == Calls(classes, NoCall)
NoCalls == Cancel({})

\* PdfDocumentClient::cancel: the tokens are cancelled at once.  The owner serves
\* the command before it picks its next work, dropping queued work without an
\* event, so it is served here at once as well; only what runs meanwhile can
\* tell the difference.
Cancelled(e, classes) ==
  [e EXCEPT !.live = {t \in @ : t[1] \notin classes},
            !.work = {w \in @ : w.class \notin classes}]

\* PdfDocumentClient::open, close, replace_*
Called(e, command) ==
  LET fresh == e.token + 1
      class == command.class
      Closed == [e EXCEPT !.doc = 0, !.gen = 0, !.work = {}, !.opening = {}, !.live = {}]
  IN
  CASE command.op = "open" ->
         [Closed EXCEPT !.opening = {[class |-> "open", doc |-> command.doc, token |-> fresh]},
                        !.live = {<<"open", fresh>>}, !.token = fresh]
    [] command.op = "close" -> Closed
    [] command.op = "replace" ->
         [Cancelled(e, {class}) EXCEPT
            !.live = @ \cup {<<class, fresh>>},
            !.work = @ \cup {[class |-> class, key |-> k, token |-> fresh] : k \in command.demands},
            !.token = fresh]
    [] command.op = "none" -> e

\* Makes the calls; a Close is confirmed.
CallAll(calls) ==
  /\ engine' = Called(Cancelled(engine, calls.cancel), calls.call)
  /\ engineOut' = IF calls.call.op = "close" THEN Append(engineOut, [event |-> "closed"])
                  ELSE engineOut

\* next_runnable: a document is served only when no event of it waits.
StartWork ==
  /\ engine.running = {}
  /\ engineOut = <<>>
  /\ \E w \in engine.opening \cup engine.work :
       engine' = [engine EXCEPT !.running = {w}, !.work = @ \ {w}, !.opening = @ \ {w}]
  /\ UNCHANGED <<uses, readerVars, mailbox, routed, uiEvents, shutdown, uiGone,
                 adapterVars, engineOut>>

IsLive(w) == <<w.class, w.token>> \in engine.live

EndWork(next, event) ==
  /\ engine' = [next EXCEPT !.running = {}]
  /\ engineOut' = Append(engineOut, event)
  /\ UNCHANGED <<uses, readerVars, mailbox, routed, uiEvents, shutdown, uiGone, adapterVars>>

\* process_open
FinishOpen ==
  \E w \in engine.running :
    LET g == engine.opens + 1
        begun == [engine EXCEPT !.opens = g]
        Report(event) == [event |-> event, doc |-> w.doc, gen |-> g]
    IN
    /\ w.class = "open"
    /\ \/ IsLive(w) /\ EndWork([begun EXCEPT !.doc = w.doc, !.gen = g], Report("opened"))
       \/ IsLive(w) /\ EndWork(begun, Report("openfailed"))
       \/ ~IsLive(w) /\ EndWork(begun, Report("opencancelled"))

\* execute_render, execute_text, execute_preview: a demand of another
\* generation is discarded, a cancelled one reported as cancelled; the adapter
\* treats both alike.
FinishWork ==
  \E w \in engine.running :
    /\ w.class # "open"
    /\ \E outcome \in IF IsLive(w) /\ w.key.gen = engine.gen
                      THEN {"ready", "failed"} ELSE {"cancelled"} :
         EndWork(engine, [event |-> outcome, class |-> w.class, key |-> w.key,
                          doc |-> engine.doc])

MutRoute ==
  /\ engineOut # <<>>
  /\ adapterPc # "stopped"
  /\ Len(mailbox) < MailboxCapacity
  /\ routed' = TRUE
  /\ mailbox' = Append(mailbox, Head(engineOut))
  /\ engineOut' = Tail(engineOut)
  /\ UNCHANGED <<uses, readerVars, uiEvents, shutdown, uiGone, adapterVars, engine>>

\* The closure given to attach_routed: one engine event in the mailbox at a
\* time.  The owner keeps what is refused and retries.
Route ==
  /\ engineOut # <<>>
  /\ adapterPc # "stopped"
  /\ ~routed
  /\ Len(mailbox) < MailboxCapacity
  /\ routed' = TRUE
  /\ mailbox' = Append(mailbox, Head(engineOut))
  /\ engineOut' = Tail(engineOut)
  /\ UNCHANGED <<uses, readerVars, uiEvents, shutdown, uiGone, adapterVars, engine>>

-----------------------------------------------------------------------------
(* The reader's calls (PdfWorker) *)

Offer(command) == mailbox' = IF Len(mailbox) < MailboxCapacity
                             THEN Append(mailbox, command) ELSE mailbox
Accepted == Len(mailbox) < MailboxCapacity

\* A call other than open: its tokens, its engine calls, then its command,
\* which a full mailbox refuses.
ReaderCall(name, newSlot, calls, command, newReader) ==
  /\ name \in uses.calls
  /\ ~shutdown
  /\ reader.gen > 0
  /\ reader.calls < uses.limit
  /\ slot' = newSlot
  /\ CallAll(calls)
  /\ Offer(command)
  /\ reader' = [newReader EXCEPT !.calls = @ + 1]
  /\ UNCHANGED <<uses, routed, uiEvents, shutdown, uiGone, adapterVars>>

Token == reader.calls + 1
Fresh(kind) == [slot EXCEPT ![kind] = Token]
NoTokens == [kind \in {"render", "preview", "copy", "search"} |-> 0]

ReaderOpen ==
  LET g == reader.gen + 1 IN
  /\ ~shutdown
  /\ g <= uses.opens
  /\ slot' = NoTokens
  /\ CallAll(Calls({}, Close))
  /\ Offer([command |-> "open", gen |-> g])
  /\ reader' = [reader EXCEPT !.gen = g, !.loading = Accepted, !.shown = 0,
                              !.searching = 0, !.debounce = FALSE, !.analysed = FALSE,
                              !.background = TRUE, !.asleep = FALSE]
  /\ UNCHANGED <<uses, routed, uiEvents, shutdown, uiGone, adapterVars>>

SetBackgroundEnabled ==
  \E enabled \in BOOLEAN :
    ReaderCall("background", slot, NoCalls,
      [command |-> "background", gen |-> reader.gen, enabled |-> enabled],
      [reader EXCEPT !.background = IF Accepted THEN enabled ELSE @])

\* The reader hibernates a document once; if refused it stays as it is.
Hibernate ==
  /\ ~reader.asleep
  /\ ReaderCall("hibernate", [slot EXCEPT !["copy"] = 0, !["search"] = 0],
       Cancel(WorkClasses),
       [command |-> "hibernate", gen |-> reader.gen],
       [reader EXCEPT !.asleep = Accepted, !.background = @ /\ ~Accepted, !.shown = 0,
                      !.searching = 0, !.loading = FALSE])

Resume ==
  /\ reader.asleep
  /\ ReaderCall("resume", slot, NoCalls, [command |-> "resume", gen |-> reader.gen],
                [reader EXCEPT !.asleep = ~Accepted])

\* The demand for the visible pages; "blank" is the empty one that a reader
\* sends when it is suspended.
RenderViewport ==
  \E call \in {"viewport", "blank"} :
    ReaderCall(call, Fresh("render"), Cancel({"render", "visible"}),
      [command |-> "viewport", gen |-> reader.gen,
       pages |-> IF call = "blank" THEN {} ELSE {0}, token |-> Token], reader)

RenderPreview ==
  ReaderCall("preview", Fresh("preview"), Cancel({"preview"}),
    [command |-> "preview", gen |-> reader.gen, pages |-> {0}, token |-> Token], reader)

ExtractText ==
  ReaderCall("copy", Fresh("copy"), Cancel({"copy"}),
    [command |-> "copy", gen |-> reader.gen, pages |-> {0}, token |-> Token], reader)

EnsureTextPages ==
  LET token == IF slot["copy"] = 0 THEN Token ELSE slot["copy"] IN
  ReaderCall("ensure", [slot EXCEPT !["copy"] = token], NoCalls,
    [command |-> "copy", gen |-> reader.gen, pages |-> Page, token |-> token], reader)

CancelExplicitText ==
  ReaderCall("cancelcopy", [slot EXCEPT !["copy"] = 0], Cancel({"copy"}),
    [command |-> "cancelcopy", gen |-> reader.gen], reader)

\* The debounced search of the newest revision.  It is owed an end if the
\* reader was shown its document before.
Search ==
  /\ reader.debounce
  /\ ReaderCall("search", Fresh("search"), Cancel({"search"}),
    [command |-> "search", gen |-> reader.gen, rev |-> reader.rev, token |-> Token],
    [reader EXCEPT !.debounce = FALSE,
                   !.searching = IF Accepted /\ reader.shown = reader.gen
                                 THEN reader.rev ELSE 0])

\* set_search_query and reset_search: a new revision; the search for a query
\* that is not empty follows when its debounce ends.
CancelSearch ==
  \E follows \in BOOLEAN :
    ReaderCall("cancelsearch", [slot EXCEPT !["search"] = 0], Cancel({"search"}),
      [command |-> "cancelsearch", gen |-> reader.gen, rev |-> reader.rev + 1],
      [reader EXCEPT !.rev = @ + 1, !.searching = 0, !.debounce = follows])

\* handle_worker_event, as far as the properties need it
Receive ==
  LET e == Head(uiEvents)
      mine == "gen" \in DOMAIN e /\ e.gen = reader.gen
  IN
  /\ uiEvents # <<>>
  /\ ~uiGone
  /\ uiEvents' = Tail(uiEvents)
  /\ reader' =
       CASE mine /\ e.event = "opened" ->
              [reader EXCEPT !.shown = IF reader.asleep THEN @ ELSE e.doc,
                             !.loading = @ /\ e.doc # e.gen]
         [] mine /\ e.event = "error" -> [reader EXCEPT !.loading = @ /\ e.doc # e.gen]
         [] mine /\ e.event \in {"finished", "searchfailed"} /\ e.rev = reader.searching ->
              [reader EXCEPT !.searching = 0]
         [] mine /\ e.event = "analysis" -> [reader EXCEPT !.analysed = TRUE]
         [] OTHER -> reader
  /\ UNCHANGED <<uses, slot, mailbox, routed, shutdown, uiGone, adapterVars, engineVars>>

\* WorkerLifetime::drop, and the end of the event receiver
DropWorker ==
  /\ "drop" \in uses.calls
  /\ ~shutdown
  /\ shutdown' = TRUE
  /\ Offer([command |-> "shutdown"])
  /\ UNCHANGED <<uses, readerVars, routed, uiEvents, uiGone, adapterVars, engineVars>>

DropReceiver ==
  /\ shutdown /\ ~uiGone
  /\ uiGone' = TRUE
  /\ UNCHANGED <<uses, readerVars, mailbox, routed, uiEvents, shutdown, adapterVars, engineVars>>

-----------------------------------------------------------------------------
(* The adapter: WorkerState and its handlers *)

NewState ==
  [gen |-> 0, session |-> NoSession, cache |-> [p \in Page |-> 0],
   latest |-> 0, search |-> NoSearch, analysis |-> NoAnalysis,
   visible |-> {}, due |-> FALSE, pending |-> {}, requests |-> 0,
   background |-> TRUE, hibernated |-> FALSE, resuming |-> FALSE, hasOpened |-> FALSE]

MutResetForOpen(g) ==
  [NewState EXCEPT !.gen = g, !.requests = st.requests, !.cache = st.cache]

\* WorkerState::reset_for_open; request identifiers are unique anyway.
ResetForOpen(g) == [NewState EXCEPT !.gen = g, !.requests = st.requests]

Dropping(s, classes) == [s EXCEPT !.pending = {d \in @ : d.class \notin classes}]

\* WorkerState::pause_background, and the cancellations it makes
Paused(s) == [Dropping(s, {"search", "analysis"}) EXCEPT
                !.background = FALSE, !.visible = {}, !.due = FALSE,
                !.search.waiting = FALSE, !.analysis.waiting = FALSE]
PauseClasses == {"search", "analysis"}

\* session.*_demand for the pages, registered as pending
Demanded(s, class, pages, rev) ==
  LET Key(p) == [gen |-> s.session.gen,
                 id |-> s.requests + Cardinality({q \in pages : q <= p})]
  IN [s EXCEPT !.pending = @ \cup
                  {[class |-> class, key |-> Key(p), gen |-> s.gen, page |-> p, rev |-> rev] :
                     p \in pages},
               !.requests = @ + Cardinality(pages)]
DemandKeys(s, class) == {d.key : d \in {d \in s.pending : d.class = class}}

\* run_worker looks at the shutdown flag after every input and step.
GoOn(pc) == IF shutdown /\ pc = "drain" THEN "stopped" ELSE pc

\* The end of a handler: the new state, the events it sends and the engine
\* calls it makes after them.  A full channel blocks it in between.
Continue(s, events, calls, pc) ==
  /\ st' = s
  /\ outgoing' = events
  /\ adapterPc' = IF events = <<>> THEN GoOn(pc) ELSE pc
  /\ IF events = <<>>
     THEN deferred' = NoCalls /\ CallAll(calls)
     ELSE deferred' = calls /\ UNCHANGED engineVars
  /\ UNCHANGED <<uses, readerVars, uiEvents, shutdown, uiGone>>

\* events.send: blocks while the reader has not taken the last event
SendEvent ==
  /\ outgoing # <<>>
  /\ uiEvents = <<>> /\ ~uiGone
  /\ uiEvents' = <<Head(outgoing)>>
  /\ outgoing' = Tail(outgoing)
  /\ IF Tail(outgoing) = <<>>
     THEN /\ CallAll(deferred) /\ deferred' = NoCalls
          /\ adapterPc' = GoOn(adapterPc)
     ELSE UNCHANGED <<engineVars, deferred, adapterPc>>
  /\ UNCHANGED <<uses, readerVars, mailbox, routed, shutdown, uiGone, st>>

\* The receiver has gone: run_worker returns.
SendFails ==
  /\ outgoing # <<>>
  /\ uiGone
  /\ adapterPc' = "stopped"
  /\ outgoing' = <<>> /\ deferred' = NoCalls
  /\ UNCHANGED <<uses, readerVars, mailbox, routed, uiEvents, shutdown, uiGone, st, engineVars>>

\* schedule_text_pages: cached pages are published, the others demanded.
ScheduleTextPages(s, class, pages, pc) ==
  LET cleared == Dropping(s, {class})
      cached == {p \in pages : s.cache[p] # 0}
      demanded == Demanded(cleared, class, pages \ cached, 0)
      Publish(p) == [event |-> "text", gen |-> s.gen, doc |-> s.cache[p]]
  IN IF s.session = NoSession
     THEN Continue(cleared, <<>>, NoCalls, pc)
     ELSE \E order \in [1..Cardinality(cached) -> cached] :
            /\ \A m, n \in DOMAIN order : m < n => order[m] < order[n]
            /\ Continue(demanded, [n \in DOMAIN order |-> Publish(order[n])],
                        Calls({}, Replace(class, DemandKeys(demanded, class))), pc)

Live(kind, token) == slot[kind] = token

-----------------------------------------------------------------------------
(* accept_command *)

Take(input) ==
  /\ adapterPc \in {"drain", "wait"}
  /\ outgoing = <<>>
  /\ mailbox # <<>>
  /\ input = Head(mailbox)
  /\ mailbox' = Tail(mailbox)
  /\ routed' = (routed /\ "event" \notin DOMAIN input)

\* The command at the head of the mailbox, if it is for the current document
TakeCommand(name) ==
  /\ mailbox # <<>>
  /\ "command" \in DOMAIN Head(mailbox)
  /\ Head(mailbox).command = name
  /\ Take(Head(mailbox))
Command == Head(mailbox)
ForMe == Command.gen = st.gen
Ignore == Continue(st, <<>>, NoCalls, "drain")

AcceptShutdown ==
  /\ TakeCommand("shutdown")
  /\ adapterPc' = "stopped"
  /\ UNCHANGED <<uses, readerVars, uiEvents, shutdown, uiGone, st, outgoing, deferred, engineVars>>

\* The token of an Open is the document's: a newer open has cancelled it.
AcceptOpen ==
  /\ TakeCommand("open")
  /\ IF Command.gen # reader.gen THEN Ignore
     ELSE Continue(ResetForOpen(Command.gen), <<>>, Calls({}, Open(Command.gen)), "drain")

AcceptBackground ==
  /\ TakeCommand("background")
  /\ \/ ~ForMe /\ Ignore
     \/ ForMe /\ Command.enabled
          /\ Continue([st EXCEPT !.background = TRUE], <<>>, NoCalls, "drain")
     \/ ForMe /\ ~Command.enabled /\ Continue(Paused(st), <<>>, Cancel(PauseClasses), "drain")

AcceptHibernate ==
  /\ TakeCommand("hibernate")
  /\ \/ ~ForMe /\ Ignore
     \/ ForMe /\ Continue([Paused(st) EXCEPT !.session = NoSession, !.cache = NewState.cache,
                                             !.pending = {}, !.hibernated = TRUE,
                                             !.resuming = FALSE],
                          <<>>, Calls(PauseClasses, Close), "drain")

AcceptResume ==
  /\ TakeCommand("resume")
  /\ IF ForMe /\ st.hibernated
     THEN Continue([st EXCEPT !.resuming = st.hasOpened, !.hibernated = FALSE],
                   <<>>, Calls({}, Open(st.gen)), "drain")
     ELSE Ignore

\* replace_render_viewport, then the visible text is put off
AcceptViewport ==
  LET cleared == Dropping(st, {"render", "visible"})
      demanded == Demanded(cleared, "render", Command.pages, 0)
      open == st.session # NoSession
      next == IF open THEN demanded ELSE cleared
      call == IF open THEN Replace("render", DemandKeys(demanded, "render")) ELSE NoCall
  IN
  /\ TakeCommand("viewport")
  /\ IF ForMe /\ Live("render", Command.token)
     THEN Continue([next EXCEPT !.visible = Command.pages, !.due = FALSE], <<>>,
                   Calls({"visible"}, call), "drain")
     ELSE Ignore

AcceptPreview ==
  LET demanded == Demanded(Dropping(st, {"preview"}), "preview", Command.pages, 0)
  IN
  /\ TakeCommand("preview")
  /\ \/ ~(ForMe /\ Live("preview", Command.token)) /\ Ignore
     \/ /\ ForMe /\ Live("preview", Command.token) /\ st.session = NoSession
        /\ Continue(Dropping(st, {"preview"}),
                    <<[event |-> "previewfailed", gen |-> st.gen, doc |-> st.gen]>>, NoCalls, "drain")
     \/ /\ ForMe /\ Live("preview", Command.token) /\ st.session # NoSession
        /\ Continue(demanded, <<>>, Calls({}, Replace("preview", DemandKeys(demanded, "preview"))), "drain")

AcceptCopy ==
  /\ TakeCommand("copy")
  /\ IF ForMe /\ Live("copy", Command.token) THEN ScheduleTextPages(st, "copy", Command.pages, "drain")
     ELSE Ignore

AcceptCancelCopy ==
  /\ TakeCommand("cancelcopy")
  /\ IF ForMe THEN Continue(Dropping(st, {"copy"}), <<>>, Cancel({"copy"}), "drain")
     ELSE Ignore

\* accept_search_demand
AcceptSearch ==
  LET c == Command
      job == [gen |-> c.gen, rev |-> c.rev, next |-> 0, token |-> c.token, waiting |-> FALSE]
  IN
  /\ TakeCommand("search")
  /\ \/ ~Live("search", c.token) /\ Ignore
     \/ /\ Live("search", c.token) /\ st.session = NoSession
        /\ Continue(st, <<[event |-> "searchfailed", gen |-> c.gen, rev |-> c.rev]>>, NoCalls, "drain")
     \/ /\ Live("search", c.token) /\ st.session # NoSession
        /\ ~(ForMe /\ c.rev > st.latest) /\ Ignore
     \/ /\ Live("search", c.token) /\ st.session # NoSession
        /\ ForMe /\ c.rev > st.latest
        /\ Continue([Dropping(st, {"search"}) EXCEPT !.latest = c.rev, !.search = job],
                    <<>>, Cancel({"search"}), "drain")

\* cancel_searches_before; the text demand is dropped whatever the generation.
AcceptCancelSearch ==
  LET c == Command
      advance == ForMe /\ c.rev - 1 >= st.latest
      dropped == Dropping(st, {"search"})
  IN
  /\ TakeCommand("cancelsearch")
  /\ Continue(IF advance
              THEN [dropped EXCEPT !.latest = c.rev - 1,
                                   !.search = IF @.rev < c.rev THEN NoSearch ELSE @]
              ELSE dropped,
              <<>>, Cancel({"search"}), "drain")

-----------------------------------------------------------------------------
(* accept_supervisor_event *)

TakeEvent(events) ==
  /\ mailbox # <<>>
  /\ "event" \in DOMAIN Head(mailbox)
  /\ Head(mailbox).event \in events
  /\ Take(Head(mailbox))
Event == Head(mailbox)

AcceptAttached ==
  /\ TakeEvent({"attached"})
  /\ Continue(st, <<[event |-> "ready"]>>, NoCalls, "drain")

\* The event's own generation is not looked at.
AcceptOpened ==
  LET opened == [st EXCEPT !.session = [doc |-> Event.doc, gen |-> Event.gen],
                           !.hasOpened = TRUE]
      Report(event) == <<[event |-> event, gen |-> st.gen, doc |-> Event.doc]>>
  IN
  /\ TakeEvent({"opened"})
  /\ \/ st.gen = 0 /\ Ignore
     \/ /\ st.gen # 0 /\ st.resuming
        /\ Continue([opened EXCEPT !.resuming = FALSE], Report("resumed"), NoCalls, "drain")
     \/ /\ st.gen # 0 /\ ~st.resuming
        /\ Continue([opened EXCEPT !.analysis = [NoAnalysis EXCEPT !.gen = st.gen]],
                    Report("opened"), NoCalls, "drain")

AcceptOpenFailed ==
  /\ TakeEvent({"openfailed"})
  /\ Continue(st, <<[event |-> "error", gen |-> st.gen, doc |-> Event.doc]>>, NoCalls, "drain")

AcceptSilent == TakeEvent({"opencancelled", "closed"}) /\ Ignore

\* The pending entry of a result, if there is one
Matching == {d \in st.pending : d.key = Event.key}
Settled == [st EXCEPT !.pending = @ \ Matching]
ForClass(classes) == Event.class \in classes /\ Matching # {}
Demand == CHOOSE d \in st.pending : d.key = Event.key

\* Unknown demands are dropped; a cancelled or discarded one is forgotten.
AcceptUnknown ==
  /\ TakeEvent({"ready", "failed", "cancelled"})
  /\ Matching = {} \/ Event.event = "cancelled"
  /\ Continue(Settled, <<>>, NoCalls, "drain")

AcceptRaster ==
  /\ TakeEvent({"ready", "failed"})
  /\ ForClass({"render", "preview"})
  /\ Continue(Settled, <<[event |-> IF Event.event = "ready" THEN "raster" ELSE "rasterfailed",
                          gen |-> Demand.gen, doc |-> Event.doc]>>, NoCalls, "drain")

\* cache_completed_text and evict_text_cache: the pages farthest from the new
\* one go; a page that is cached already keeps its text.
Cached(s, page, doc) ==
  LET held == {p \in Page : s.cache[p] # 0} \cup {page}
      Distance(p) == IF p > page THEN p - page ELSE page - p
      Kept == {k \in SUBSET held :
                 /\ page \in k
                 /\ Cardinality(k) = IF Cardinality(held) < CachedPages
                                     THEN Cardinality(held) ELSE CachedPages
                 /\ \A p \in k, q \in held \ k : Distance(p) <= Distance(q)}
  IN IF s.cache[page] # 0 THEN {s}
     ELSE {[s EXCEPT !.cache = [p \in Page |-> IF p = page THEN doc
                                               ELSE IF p \in k THEN s.cache[p] ELSE 0]] :
             k \in Kept}

AcceptText ==
  /\ TakeEvent({"ready", "failed"})
  /\ ForClass({"copy", "visible"})
  /\ \E s \in Cached(Settled, Demand.page, Event.doc) :
       Continue(s, <<[event |-> IF Event.event = "ready" THEN "text" ELSE "textfailed",
                      gen |-> Demand.gen, doc |-> Event.doc]>>, NoCalls, "drain")

\* process_search_page: the page may have matches and may exhaust the limits
\* on results, which ends the search.
SearchPage(s, page, doc) ==
  LET job == s.search
      Results == [event |-> "results", gen |-> job.gen, rev |-> job.rev, doc |-> doc]
      Finished == [event |-> "finished", gen |-> job.gen, rev |-> job.rev]
  IN IF job = NoSearch \/ job.next # page \/ ~Live("search", job.token)
     THEN {[state |-> s, events |-> <<>>]}
     ELSE {LET over == stop \/ page + 1 >= PageCount
           IN [state |-> [s EXCEPT !.search = IF over THEN NoSearch ELSE [job EXCEPT !.next = page + 1]],
               events |-> (IF hits THEN <<Results>> ELSE <<>>)
                          \o (IF over THEN <<Finished>> ELSE <<>>)] :
             stop \in BOOLEAN, hits \in BOOLEAN}

Awaited == st.search.gen = Demand.gen /\ st.search.rev = Demand.rev

AcceptSearchText ==
  /\ TakeEvent({"ready"})
  /\ ForClass({"search"})
  /\ \E s \in Cached(Settled, Demand.page, Event.doc) :
       IF ~Awaited THEN Continue(s, <<>>, NoCalls, "drain")
       ELSE \E r \in SearchPage([s EXCEPT !.search.waiting = FALSE], Demand.page,
                                s.cache[Demand.page]) :
              Continue(r.state, r.events, NoCalls, "drain")

MutFailureKeepsWaiting ==
  /\ TakeEvent({"failed"})
  /\ ForClass({"search"})
  /\ \E s \in Cached(Settled, Demand.page, Event.doc) :
       IF ~Awaited THEN Continue(s, <<>>, NoCalls, "drain")
       ELSE Continue([s EXCEPT !.search.next = Demand.page + 1],
                     <<[event |-> "warning", gen |-> Demand.gen, rev |-> Demand.rev]>>,
                     NoCalls, "drain")

\* handle_text_failure: the page is skipped with a warning.
AcceptSearchFailure ==
  /\ TakeEvent({"failed"})
  /\ ForClass({"search"})
  /\ \E s \in Cached(Settled, Demand.page, Event.doc) :
       IF ~Awaited THEN Continue(s, <<>>, NoCalls, "drain")
       ELSE Continue([s EXCEPT !.search.waiting = FALSE,
                               !.search.next = IF @ > Demand.page + 1 THEN @ ELSE Demand.page + 1],
                     <<[event |-> "warning", gen |-> Demand.gen, rev |-> Demand.rev]>>,
                     NoCalls, "drain")

\* ingest_scientific_page
Ingested(s, page, doc) ==
  IF s.analysis = NoAnalysis \/ s.analysis.next # page THEN s
  ELSE [s EXCEPT !.analysis.next = page + 1, !.analysis.docs = @ \cup {doc}]

\* Ready and failed alike: a failed page is ingested empty.
AcceptAnalysisText ==
  /\ TakeEvent({"ready", "failed"})
  /\ ForClass({"analysis"})
  /\ \E s \in Cached(Settled, Demand.page, Event.doc) :
       Continue(IF Event.event = "ready" /\ s.analysis.gen # Demand.gen THEN s
                ELSE Ingested([s EXCEPT !.analysis.waiting = FALSE], Demand.page,
                              s.cache[Demand.page]),
                <<>>, NoCalls, "drain")

-----------------------------------------------------------------------------
(* The rest of run_worker's loop *)

Between(pc) == adapterPc = pc /\ outgoing = <<>>

DrainEmpty ==
  /\ Between("drain")
  /\ mailbox = <<>>
  /\ Continue(st, <<>>, NoCalls, "visible")
  /\ UNCHANGED <<mailbox, routed>>

\* schedule_visible_text_if_due; the delay may have passed, and has when the
\* wait for it timed out.
VisibleTextNotDue ==
  /\ Between("visible")
  /\ ~st.due
  /\ Continue(st, <<>>, NoCalls, "drive")
  /\ UNCHANGED <<mailbox, routed>>

VisibleTextDue ==
  LET taken == [st EXCEPT !.visible = {}, !.due = FALSE] IN
  /\ Between("visible")
  /\ st.visible # {}
  /\ ScheduleTextPages(taken, "visible", st.visible, "drive")
  /\ UNCHANGED <<mailbox, routed>>

CanDrive == st.background /\ ~st.hibernated /\ st.session # NoSession
Searching == st.search # NoSearch /\ ~st.search.waiting

\* drive_search
DriveSearch ==
  LET job == st.search
      demanded == Demanded(st, "search", {job.next}, job.rev)
      waiting == [demanded EXCEPT !.search.waiting = TRUE]
  IN
  /\ Between("drive") /\ CanDrive /\ Searching
  /\ \/ /\ ~Live("search", job.token)
        /\ Continue([st EXCEPT !.search = NoSearch], <<>>, NoCalls, "drain")
     \/ /\ Live("search", job.token) /\ job.next >= PageCount
        /\ Continue([st EXCEPT !.search = NoSearch],
                    <<[event |-> "finished", gen |-> job.gen, rev |-> job.rev]>>, NoCalls, "drain")
     \/ /\ Live("search", job.token) /\ job.next < PageCount /\ st.cache[job.next] # 0
        /\ \E r \in SearchPage(st, job.next, st.cache[job.next]) :
             Continue(r.state, r.events, NoCalls, "drain")
     \/ /\ Live("search", job.token) /\ job.next < PageCount /\ st.cache[job.next] = 0
        /\ Continue(waiting, <<>>, Calls({}, Replace("search", DemandKeys(waiting, "search"))), "analyse")
  /\ UNCHANGED <<mailbox, routed>>

\* drive_scientific, once drive_search has made no progress
DriveAnalysis ==
  LET job == st.analysis
      demanded == Demanded(st, "analysis", {job.next}, 0)
      waiting == [demanded EXCEPT !.analysis.waiting = TRUE]
  IN
  /\ Between("analyse") \/ (Between("drive") /\ CanDrive /\ ~Searching)
  /\ job # NoAnalysis /\ ~job.waiting
  /\ \/ /\ job.next >= PageCount
        /\ Continue([st EXCEPT !.analysis = NoAnalysis],
                    <<[event |-> "analysis", gen |-> job.gen, docs |-> job.docs]>>, NoCalls, "drain")
     \/ /\ job.next < PageCount /\ st.cache[job.next] # 0
        /\ Continue(Ingested(st, job.next, st.cache[job.next]), <<>>, NoCalls, "drain")
     \/ /\ job.next < PageCount /\ st.cache[job.next] = 0
        /\ Continue(waiting, <<>>, Calls({}, Replace("analysis", DemandKeys(waiting, "analysis"))), "wait")
  /\ UNCHANGED <<mailbox, routed>>

NothingToDrive ==
  /\ \/ Between("drive") /\ (~CanDrive \/ ~Searching)
     \/ Between("analyse")
  /\ (adapterPc = "drive" /\ ~CanDrive) \/ st.analysis = NoAnalysis \/ st.analysis.waiting
  /\ Continue(st, <<>>, NoCalls, "wait")
  /\ UNCHANGED <<mailbox, routed>>

\* recv_timeout ends when the visible text is due.
WaitTimeout ==
  /\ Between("wait")
  /\ st.visible # {}
  /\ Continue([st EXCEPT !.due = TRUE], <<>>, NoCalls, "drain")
  /\ UNCHANGED <<mailbox, routed>>

-----------------------------------------------------------------------------
DocInit ==
  /\ uses \in Scenario
  /\ reader = [gen |-> 0, rev |-> 0, shown |-> 0, searching |-> 0, debounce |-> FALSE,
               loading |-> FALSE, analysed |-> FALSE, background |-> TRUE,
               asleep |-> FALSE, calls |-> 0]
  /\ slot = NoTokens
  /\ mailbox = <<>> /\ routed = FALSE /\ uiEvents = <<>>
  /\ shutdown = FALSE /\ uiGone = FALSE
  /\ adapterPc = "drain" /\ st = NewState /\ outgoing = <<>> /\ deferred = NoCalls
  /\ engine = NewEngine
  /\ engineOut = IF uses.fresh THEN <<[event |-> "attached"]>> ELSE <<>>

ReaderStep ==
  \/ ReaderOpen \/ SetBackgroundEnabled \/ Hibernate \/ Resume \/ RenderViewport
  \/ RenderPreview \/ ExtractText \/ EnsureTextPages \/ CancelExplicitText
  \/ Search \/ CancelSearch \/ DropWorker \/ DropReceiver

AcceptCommand ==
  \/ AcceptShutdown \/ AcceptOpen \/ AcceptBackground \/ AcceptHibernate \/ AcceptResume
  \/ AcceptViewport \/ AcceptPreview \/ AcceptCopy \/ AcceptCancelCopy
  \/ AcceptSearch \/ AcceptCancelSearch

AcceptSupervisorEvent ==
  \/ AcceptAttached \/ AcceptOpened \/ AcceptOpenFailed \/ AcceptSilent \/ AcceptUnknown
  \/ AcceptRaster \/ AcceptText \/ AcceptSearchText \/ AcceptSearchFailure
  \/ AcceptAnalysisText

AdapterStep ==
  \/ AcceptCommand \/ AcceptSupervisorEvent \/ SendEvent \/ SendFails
  \/ DrainEmpty \/ VisibleTextNotDue \/ VisibleTextDue
  \/ DriveSearch \/ DriveAnalysis \/ NothingToDrive \/ WaitTimeout

EngineStep == StartWork \/ FinishOpen \/ FinishWork \/ Route

DocNext == ReaderStep \/ Receive \/ AdapterStep \/ EngineStep
DocSpec == DocInit /\ [][DocNext]_docVars

\* The adapter thread and the engine run and the reader takes its events.
\* None of them runs forever without a call, so together is enough.
DocFairSpec == DocSpec /\ WF_docVars(Receive \/ AdapterStep \/ EngineStep)

-----------------------------------------------------------------------------
(* Properties *)

DocTypeOK ==
  /\ reader.gen \in 0..uses.opens /\ reader.shown \in 0..uses.opens
  /\ reader.calls \in 0..uses.limit
  /\ slot \in [{"render", "preview", "copy", "search"} -> 0..uses.limit]
  /\ Len(mailbox) <= MailboxCapacity
  /\ Len(uiEvents) <= 1
  /\ adapterPc \in {"drain", "visible", "drive", "analyse", "wait", "stopped"}
  /\ st.gen \in 0..uses.opens
  /\ st.cache \in [Page -> 0..uses.opens]
  /\ st.search.next \in 0..PageCount /\ st.analysis.next \in 0..PageCount
  /\ \A d \in st.pending : d.class \in WorkClasses /\ d.page \in Page /\ d.key.id \in 1..st.requests
  /\ \A w \in engine.work : w.class \in WorkClasses

ToReader == ToSet(outgoing) \cup ToSet(uiEvents)

(* Tiles, previews, text and search results that reach the reader under a    *)
(* generation were made from the document of that generation, and so was     *)
(* every page an analysis took in and the cache holds: whatever the engine   *)
(* still had under way when the document was replaced, hibernated or resumed.*)
NoForeignContent ==
  /\ \A e \in ToReader :
       /\ e.event \in {"raster", "text", "results"} => e.doc = e.gen
       /\ e.event = "analysis" => e.docs \subseteq {e.gen}
  /\ \A p \in Page : st.cache[p] \in {0, st.gen}

(* "Preserve the old one-event raster back-pressure": at most one engine     *)
(* event is in the mailbox, and the flag is set exactly while one is.        *)
OneEventRouted ==
  Cardinality({i \in DOMAIN mailbox : "event" \in DOMAIN mailbox[i]}) = IF routed THEN 1 ELSE 0

(* "Stale successes and failures are both discarded" (README): a document    *)
(* reported to the reader as opened, resumed or failed to open is the one it *)
(* is reported for.                                                          *)
OpenReportsAreOwn ==
  \A e \in ToReader : e.event \in {"opened", "resumed", "error"} => e.doc = e.gen

(* A document the reader opens is shown or reported as failed, whatever was  *)
(* still running for the one before, unless the reader moves on.             *)
OpenSettles ==
  reader.loading ~> (~reader.loading \/ shutdown)

(* A search the reader asked for on a document it was shown ends, with       *)
(* pages that fail, pages that are evicted and demands that are cancelled on *)
(* the way, unless it is cancelled or the background work stays disabled.    *)
SearchEnds ==
  (reader.searching # 0 /\ reader.background)
    ~> (reader.searching = 0 \/ ~reader.background \/ shutdown)

(* The analysis of a document the reader was shown completes, also when it   *)
(* was paused and enabled again.                                             *)
AnalysisEnds ==
  (reader.shown # 0 /\ reader.shown = reader.gen /\ reader.background)
    ~> (reader.analysed \/ reader.shown # reader.gen \/ ~reader.background \/ shutdown)

(* "The flag guarantees a full mailbox cannot strand the orchestration       *)
(* thread": after the last handle has gone the thread ends.                  *)
AdapterStops == shutdown ~> (adapterPc = "stopped")

(* Whatever the reader has asked for comes to an end, and so does the        *)
(* adapter: opens, searches, the analysis of the document and the thread.    *)
JobsEnd == OpenSettles /\ SearchEnds /\ AnalysisEnds /\ AdapterStops
=============================================================================

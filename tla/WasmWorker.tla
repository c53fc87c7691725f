----------------------------- MODULE WasmWorker -----------------------------
(* The worker thread of a WebAssembly extension and its mailbox
   (crates/key-extension-wasm/src/worker.rs), with the callers on the user
   interface thread: the host's calls of the proxy (host.rs) and the reader's
   synchronisation loop, which drains results, settles an upgrade that is being
   activated and decides whether to run again (reader.rs, app_extensions.rs,
   extension_packages.rs).

   The worker holds the mailbox lock to take a command, to count it out, and to
   store its result, and runs the guest in between; so do the three reads of the
   synchronisation loop.  Each of these is a step.  What a guest does is free:
   it may fail, and an event may answer with effects.  Only the worker ever waits
   on the condition variable, every change it waits for notifies it, and a wait
   is the guard of its step.  An event is its number and its coalescing key. *)
EXTENDS Integers, Sequences, FiniteSets, SequencesExt

CONSTANTS
  MaxPendingEvents,    \* limits().maximum_pending_events
  MaxPendingResults,   \* limits().maximum_pending_results
  DrainLimit,          \* results one tick takes
  EventLimit,          \* events of a behaviour
  CancelLimit          \* suspensions and document barriers of a behaviour

VARIABLES
  proxy,   \* WasmWorkerExtension: active, suspended, closed
  mail,    \* MailboxState
  hand,    \* the worker thread
  sync,    \* the synchronisation loop of the reader
  sent,    \* events so far
  barred,  \* cancellations so far
  owed     \* accepted events of the current work that no tick has drained

wasmVars == <<proxy, mail, hand, sync, sent, barred, owed>>

\* event_coalescing_key: snapshots and capabilities coalesce, commands do not
Keys == {"view", "caps"}

NoCommand == [kind |-> "none", life |-> 0, work |-> 0, id |-> 0, key |-> "none"]

\* WorkerCommand; the work is 0 where the code has none
WorkerCommand(kind, life, work) == [NoCommand EXCEPT !.kind = kind, !.life = life, !.work = work]

IsEvent(c) == c.kind = "event"

\* The guest's answer; only these of an event without effects may be replaced
Outcomes(c) ==
  [ok : BOOLEAN, effects : IF IsEvent(c) THEN BOOLEAN ELSE {FALSE}]

\* WorkerResult::coalescing_key
ResultKey(r) ==
  IF IsEvent(r) /\ r.key \in Keys /\ r.ok /\ ~r.effects THEN r.key ELSE "none"

\* trailing_command_match and trailing_result_match: the entries at the end of
\* `s` that are of the same work and coalesce, and among them one with this key
TrailingMatch(s, life, work, key, Key(_)) ==
  {i \in DOMAIN s :
     /\ Key(s[i]) = key
     /\ \A j \in i .. Len(s) :
          s[j].life = life /\ s[j].work = work /\ Key(s[j]) # "none"}

\* Mutant: a command of the user is no barrier to coalescing
MutCommandKey(c) == IF IsEvent(c) THEN c.key ELSE "none"

CommandKey(c) == IF IsEvent(c) /\ c.key \in Keys THEN c.key ELSE "none"

IsCurrent(r) == r.life = mail.life /\ (r.work = 0 \/ r.work = mail.work)

-----------------------------------------------------------------------------
(* The proxy, on the user interface thread *)

\* pending_deferred_work
PendingWork == IF mail.alive THEN Len(mail.commands) + Len(mail.results) + mail.inFlight ELSE 0

\* Mutant: the limit is tested off by one
MutMailed(m, event) ==
  LET same == TrailingMatch(m.commands, m.life, m.work, event.key, CommandKey)
      full == Len(SelectSeq(m.commands, IsEvent)) > MaxPendingEvents
  IN IF event.key \in Keys /\ same # {}
     THEN [m EXCEPT !.commands = Append(RemoveAt(@, CHOOSE i \in same : TRUE), event)]
     ELSE IF full THEN m ELSE [m EXCEPT !.commands = Append(@, event)]

\* enqueue_event: a coalescing event replaces the last of its key and goes to
\* the end; at the limit an event is refused
Mailed(m, event) ==
  LET same == TrailingMatch(m.commands, m.life, m.work, event.key, CommandKey)
      full == Len(SelectSeq(m.commands, IsEvent)) >= MaxPendingEvents
  IN IF event.key \in Keys /\ same # {}
     THEN [m EXCEPT !.commands = Append(RemoveAt(@, CHOOSE i \in same : TRUE), event)]
     ELSE IF full THEN m ELSE [m EXCEPT !.commands = Append(@, event)]

\* handle_event of an active component, with the event at the head of the host's
\* queue: the mailbox, and the events that are owed, after it
EventOf(key) == [WorkerCommand("event", mail.life, mail.work) EXCEPT !.id = sent + 1, !.key = key]

Accepted(key) == Mailed(mail, EventOf(key)) # mail

OwedAfter(key) ==
  IF Accepted(key) THEN owed \cup {[id |-> sent + 1, key |-> key, effects |-> FALSE]} ELSE owed

\* The bound on events: those delivered and those in the host's queue
MayEnqueue == sent + Len(sync.queue) < EventLimit

Running == proxy.active /\ ~proxy.suspended

\* ExtensionSnapshotDispatch::request: only the reader that is the active view runs
Scheduled(s) == [s EXCEPT !.timer = IF s.reader THEN "armed" ELSE @]

\* begin_lifecycle, called by ExtensionHost::activate for the candidate of an
\* upgrade, which then announces the capabilities to every active component
BeginLifecycle ==
  /\ sync.at = "free" /\ sync.reader /\ ~proxy.active /\ ~proxy.closed
  /\ proxy' = [proxy EXCEPT !.active = TRUE]
  /\ mail' = [mail EXCEPT !.life = @ + 1, !.work = @ + 1, !.results = <<>>,
                          !.commands = <<WorkerCommand("activate", mail.life + 1, 0)>>]
  /\ sync' = [sync EXCEPT !.at = "install", !.queue = <<"caps">>]
  /\ owed' = {}
  /\ UNCHANGED <<hand, sent, barred>>

\* The end of the upgrade: it stays provisional while the worker has work
BeginUpgrade ==
  /\ sync.at = "install"
  /\ sync' = [Scheduled(sync) EXCEPT
       !.at = "free", !.upgrade = IF PendingWork > 0 THEN "activating" ELSE "done"]
  /\ UNCHANGED <<proxy, mail, hand, sent, barred, owed>>

\* cancel_event_generation
Cancelled(m, suspends) ==
  [m EXCEPT !.work = @ + 1,
            !.commands = SelectSeq(@, LAMBDA c : ~IsEvent(c))
                         \o (IF suspends THEN <<WorkerCommand("suspend", m.life, m.work + 1)>>
                             ELSE <<>>),
            !.results = SelectSeq(@, LAMBDA r : r.work = 0)]

CancelEvents(suspends) ==
  /\ proxy.active /\ barred < CancelLimit
  /\ mail' = Cancelled(mail, suspends)
  /\ barred' = barred + 1
  /\ owed' = {}

\* invalidate_document_scope, when a document is opened: the host's queue is
\* cleared and every worker's events are cancelled
DocumentBarrier ==
  /\ sync.at = "free" /\ sync.reader /\ CancelEvents(FALSE)
  /\ sync' = [sync EXCEPT !.queue = <<>>]
  /\ UNCHANGED <<proxy, hand, sent>>

\* activate_extension_scope: another reader, or one at all, becomes the active
\* view; it is a barrier too, and runs the loop
ActivateReader ==
  /\ sync.at = "free"
  /\ \/ CancelEvents(FALSE)
     \/ ~proxy.active /\ ~sync.reader /\ UNCHANGED <<mail, barred, owed>>
  /\ sync' = [sync EXCEPT !.queue = <<>>, !.reader = TRUE, !.timer = "armed"]
  /\ UNCHANGED <<proxy, hand, sent>>

\* A view without a reader, such as the settings, becomes the active one
LeaveReader ==
  /\ sync.at = "free" /\ sync.reader
  /\ sync' = [sync EXCEPT !.reader = FALSE]
  /\ UNCHANGED <<proxy, mail, hand, sent, barred, owed>>

\* suspend of the host, also for repeated violations
WorkerSuspend ==
  /\ sync.at = "free" /\ ~proxy.suspended
  /\ CancelEvents(TRUE)
  /\ proxy' = [proxy EXCEPT !.suspended = TRUE]
  /\ sync' = [sync EXCEPT !.queue = <<>>]
  /\ UNCHANGED <<hand, sent>>

WorkerResume ==
  /\ sync.at = "free" /\ proxy.active /\ proxy.suspended /\ MayEnqueue
  /\ proxy' = [proxy EXCEPT !.suspended = FALSE]
  /\ mail' = [mail EXCEPT !.commands = Append(@, WorkerCommand("resume", mail.life, 0))]
  /\ sync' = [sync EXCEPT !.queue = Append(@, "caps")]
  /\ UNCHANGED <<hand, sent, barred, owed>>

\* close_without_waiting, of unload and of Drop
ClosedMail(m) ==
  [m EXCEPT !.life = @ + 1, !.work = @ + 1, !.results = <<>>, !.closed = TRUE,
            !.commands = <<WorkerCommand("unload", m.life + 1, 0)>>]

ClosedProxy == [active |-> FALSE, suspended |-> FALSE, closed |-> TRUE]

WorkerUnload ==
  /\ sync.at = "free" /\ ~proxy.closed
  /\ proxy' = ClosedProxy
  /\ mail' = ClosedMail(mail)
  /\ sync' = [sync EXCEPT !.queue = <<>>]
  /\ owed' = {}
  /\ UNCHANGED <<hand, sent, barred>>

-----------------------------------------------------------------------------
(* The synchronisation loop: invoke_extension_command, flush_extension_snapshots *)

\* A command of the user is delivered by a tick of its own; afterwards the loop
\* is scheduled if work is pending
UserCommand ==
  /\ sync.at = "free" /\ sync.reader /\ Running /\ MayEnqueue
  /\ sync' = [sync EXCEPT !.at = "drain", !.flush = FALSE, !.queue = Append(@, "command")]
  /\ UNCHANGED <<proxy, mail, hand, sent, barred, owed>>

\* Anything the reader does that changes a snapshot schedules the loop; so does a
\* change of another extension, which also announces the capabilities
SnapshotsChange ==
  /\ sync.at = "free" /\ sync.reader
  /\ \/ sync.timer # "armed" /\ sync' = Scheduled(sync)
     \/ /\ Running /\ MayEnqueue
        /\ sync' = Scheduled([sync EXCEPT !.queue = Append(@, "caps")])
  /\ UNCHANGED <<proxy, mail, hand, sent, barred, owed>>

\* The timer of the loop.  It does nothing unless the reader is the active view.
\* publish_snapshots enqueues what changed; it fails while the host's queue is
\* full, and then neither ticks nor runs again.  Without anything to deliver, and
\* without work, it does not tick.
Publish ==
  /\ sync.at = "free" /\ sync.timer = "armed"
  /\ \E changed \in {<<>>, <<"view">>} :
       LET heard == [sync EXCEPT !.timer = "off", !.queue = @ \o changed]
           ticks == [heard EXCEPT !.at = "drain", !.flush = TRUE]
       IN /\ changed # <<>> => sync.reader /\ Running /\ MayEnqueue
          /\ \/ ~sync.reader /\ sync' = heard
             \/ sync.reader /\ sync' \in {ticks, [heard EXCEPT !.timer = "refused"]}
             \/ /\ sync.reader /\ heard.queue = <<>> /\ PendingWork = 0
                /\ sync' = [ticks EXCEPT !.at = "settle"]
  /\ UNCHANGED <<proxy, mail, hand, sent, barred, owed>>

\* A drained result answers its event and those it has replaced
Settles(r, a) ==
  r.id = a.id \/ (r.key = a.key /\ a.key \in Keys /\ ~a.effects /\ a.id < r.id)

\* drain_deferred_updates and apply_deferred_adapter_update: a failed activation
\* or resume closes the adapter (fail_deferred_runtime), repeated failures of
\* events suspend it
DrainResults ==
  /\ sync.at = "drain"
  /\ LET count  == IF Len(mail.results) < DrainLimit THEN Len(mail.results) ELSE DrainLimit
         taken  == SubSeq(mail.results, 1, count)
         good   == SelectSeq(taken, IsCurrent)
         rest   == [mail EXCEPT !.results = SubSeq(@, count + 1, Len(@))]
         ended  == \E r \in ToSet(good) : ~IsEvent(r) /\ ~r.ok
         failed == \E r \in ToSet(good) : IsEvent(r) /\ ~r.ok
         proven == \E r \in ToSet(good) : r.kind = "activate" /\ r.ok
     IN \E struck \in {FALSE, failed /\ Running /\ barred < CancelLimit} :
          /\ mail' = CASE ended -> ClosedMail(rest) [] struck /\ ~ended -> Cancelled(rest, TRUE)
                        [] OTHER -> rest
          /\ proxy' = IF ended THEN ClosedProxy ELSE [proxy EXCEPT !.suspended = @ \/ struck]
          /\ owed' = IF ended \/ struck THEN {}
                     ELSE {a \in owed : \A r \in ToSet(good) : ~Settles(r, a)}
          /\ barred' = IF struck /\ ~ended THEN barred + 1 ELSE barred
          /\ sync' = [sync EXCEPT
               !.at = "deliver", !.budget = DrainLimit - count,
               !.queue = IF ended \/ struck THEN <<>> ELSE @,
               !.upgrade = IF @ = "activating" /\ proven THEN "proven" ELSE @]
  /\ UNCHANGED <<hand, sent>>

\* process_tick hands the component one event of the host's queue.  An event that
\* is refused is a violation, and repeated violations suspend
DeliverEvent ==
  /\ sync.at = "deliver" /\ sync.queue # <<>> /\ sync.budget > 0
  /\ LET key == Head(sync.queue)
     IN \E struck \in {FALSE, ~Accepted(key) /\ barred < CancelLimit} :
          /\ mail' = IF struck THEN Cancelled(mail, TRUE) ELSE Mailed(mail, EventOf(key))
          /\ proxy' = [proxy EXCEPT !.suspended = struck]
          /\ owed' = IF struck THEN {} ELSE OwedAfter(key)
          /\ barred' = IF struck THEN barred + 1 ELSE barred
          /\ sync' = [sync EXCEPT !.queue = IF struck THEN <<>> ELSE Tail(@), !.budget = @ - 1]
  /\ sent' = sent + 1
  /\ UNCHANGED hand

\* The end of the tick counts what is left (deferred_events)
EndTick ==
  /\ sync.at = "deliver" /\ (sync.queue = <<>> \/ sync.budget = 0)
  /\ sync' = [sync EXCEPT !.at = IF sync.flush THEN "settle" ELSE "rearm", !.budget = 0,
                          !.left = sync.flush /\ (sync.queue # <<>> \/ PendingWork > 0)]
  /\ UNCHANGED <<proxy, mail, hand, sent, barred, owed>>

\* settle_activating_upgrades: an upgrade without pending work is committed if
\* its extension is active, and rolled back otherwise, which unloads it
Settle ==
  /\ sync.at = "settle"
  /\ LET decided == sync.upgrade \in {"activating", "proven"} /\ (proxy.closed \/ PendingWork = 0)
         undone  == decided /\ ~Running
     IN /\ sync' = [sync EXCEPT
             !.at = "rearm", !.queue = IF undone THEN <<>> ELSE @,
             !.upgrade = IF decided THEN "done" ELSE @]
        /\ proxy' = IF undone THEN ClosedProxy ELSE proxy
        /\ mail' = IF undone /\ ~proxy.closed THEN ClosedMail(mail) ELSE mail
        /\ owed' = IF undone THEN {} ELSE owed
  /\ UNCHANGED <<hand, sent, barred>>

\* Mutant: only a call in flight runs the loop again
MutRearm ==
  /\ sync.at = "rearm"
  /\ sync' = [IF mail.inFlight > 0 THEN Scheduled(sync) ELSE sync EXCEPT
                 !.at = "free", !.flush = FALSE, !.left = FALSE]
  /\ UNCHANGED <<proxy, mail, hand, sent, barred, owed>>

\* deferred_events, has_pending_extension_work
Rearm ==
  /\ sync.at = "rearm"
  /\ LET works == sync.left \/ sync.queue # <<>> \/ PendingWork > 0
     IN sync' = [IF works THEN Scheduled(sync) ELSE sync EXCEPT
                   !.at = "free", !.flush = FALSE, !.left = FALSE]
  /\ UNCHANGED <<proxy, mail, hand, sent, barred, owed>>

-----------------------------------------------------------------------------
(* The worker thread *)

WorkerTake ==
  /\ hand.pc = "loop" /\ mail.commands # <<>>
  /\ hand' = [hand EXCEPT !.pc = "guest", !.command = Head(mail.commands)]
  /\ mail' = [mail EXCEPT !.commands = Tail(@), !.inFlight = @ + 1]
  /\ UNCHANGED <<proxy, sync, sent, barred, owed>>

\* execute_worker_command up to the end of the call, then in_flight is counted
\* down.  Without an instance an event or a resumption fails.  A panic of the
\* worker is a failure (panic_result).
WorkerFinish ==
  /\ hand.pc = "guest"
  /\ \E o \in Outcomes(hand.command) :
       LET c == hand.command
           r == [kind |-> c.kind, life |-> c.life, work |-> c.work, id |-> c.id,
                 key |-> c.key, ok |-> o.ok, effects |-> o.effects]
       IN /\ o.effects => o.ok
          /\ c.kind \in {"event", "resume"} /\ ~hand.loaded => ~o.ok
          /\ c.kind \in {"suspend", "unload"} => o.ok
          /\ hand' = [hand EXCEPT
               !.result = IF c.kind \in {"suspend", "unload"} THEN NoCommand ELSE r,
               !.pc = CASE c.kind = "suspend" -> "loop"
                        [] c.kind = "unload" -> "exit"
                        [] OTHER -> "retain",
               !.loaded = CASE c.kind = "activate" -> o.ok
                            [] c.kind = "unload" -> FALSE
                            [] OTHER -> @,
               !.command = NoCommand]
          /\ owed' = IF o.effects
                     THEN {IF a.id = c.id THEN [a EXCEPT !.effects = TRUE] ELSE a : a \in owed}
                     ELSE owed
  /\ mail' = [mail EXCEPT !.inFlight = @ - 1]
  /\ UNCHANGED <<proxy, sync, sent, barred>>

MayStore(r) == IsCurrent(r) /\ ~mail.closed

\* Mutant: a result that waited for room is stored whatever happened meanwhile
MutStored(r, woken) ==
  IF woken \/ MayStore(r) THEN Append(mail.results, r) ELSE mail.results

\* The end of retain_worker_result, under the lock
Stored(r, woken) == IF MayStore(r) THEN Append(mail.results, r) ELSE mail.results

\* retain_worker_result: replace a result of the same key at the end, else wait
\* while the results are full and this one is still wanted
WorkerRetain ==
  /\ hand.pc \in {"retain", "wait"}
  /\ LET r    == hand.result
         same == IF hand.pc = "retain" /\ ResultKey(r) # "none"
                 THEN TrailingMatch(mail.results, r.life, r.work, ResultKey(r), ResultKey)
                 ELSE {}
         full == Len(mail.results) >= MaxPendingResults /\ MayStore(r)
         done == [hand EXCEPT !.pc = "loop", !.result = NoCommand]
     IN \/ /\ same # {}
           /\ mail' = [mail EXCEPT !.results = Append(RemoveAt(@, CHOOSE i \in same : TRUE), r)]
           /\ hand' = done
        \/ /\ same = {} /\ full /\ hand.pc = "retain"
           /\ hand' = [hand EXCEPT !.pc = "wait"]
           /\ UNCHANGED mail
        \/ /\ same = {} /\ ~full
           /\ mail' = [mail EXCEPT !.results = Stored(r, hand.pc = "wait")]
           /\ hand' = done
  /\ UNCHANGED <<proxy, sync, sent, barred, owed>>

WorkerExit ==
  /\ hand.pc = "exit"
  /\ hand' = [hand EXCEPT !.pc = "gone"]
  /\ mail' = [mail EXCEPT !.alive = FALSE, !.commands = <<>>, !.inFlight = 0]
  /\ UNCHANGED <<proxy, sync, sent, barred, owed>>

-----------------------------------------------------------------------------

\* WasmWorkerExtension::spawn for a candidate of an upgrade
WasmInit ==
  /\ proxy = [active |-> FALSE, suspended |-> FALSE, closed |-> FALSE]
  /\ mail = [life |-> 0, work |-> 0, commands |-> <<>>, results |-> <<>>,
             inFlight |-> 0, closed |-> FALSE, alive |-> TRUE]
  /\ hand = [pc |-> "loop", command |-> NoCommand, result |-> NoCommand, loaded |-> FALSE]
  /\ sync = [at |-> "free", reader |-> TRUE, timer |-> "off", flush |-> FALSE,
             left |-> FALSE, queue |-> <<>>, budget |-> 0, upgrade |-> "none"]
  /\ sent = 0 /\ barred = 0 /\ owed = {}

WorkerThread == WorkerTake \/ WorkerFinish \/ WorkerRetain \/ WorkerExit

SyncLoop == BeginUpgrade \/ Publish \/ DrainResults \/ DeliverEvent \/ EndTick \/ Settle \/ Rearm

WasmNext ==
  \/ WorkerThread \/ SyncLoop
  \/ UserCommand \/ SnapshotsChange \/ LeaveReader \/ ActivateReader
  \/ BeginLifecycle \/ DocumentBarrier \/ WorkerSuspend \/ WorkerResume \/ WorkerUnload

WasmSpec == WasmInit /\ [][WasmNext]_wasmVars

\* The thread runs; a scheduled synchronisation runs (its timer is 24 ms)
WasmFairness == WF_wasmVars(WorkerThread) /\ WF_wasmVars(SyncLoop)

WasmFairSpec == WasmSpec /\ WasmFairness

-----------------------------------------------------------------------------
(* Properties *)

\* The mailbox is bounded on both sides: a slow guest cannot pile up events and a
\* slow host cannot pile up results (enqueue_event, retain_worker_result).
WorkerTypeOK ==
  /\ Len(SelectSeq(mail.commands, IsEvent)) <= MaxPendingEvents
  /\ Len(mail.results) <= MaxPendingResults
  /\ mail.inFlight \in {0, 1}
  /\ hand.pc \in {"loop", "guest", "retain", "wait", "exit", "gone"}
  /\ sync.at \in {"free", "install", "drain", "deliver", "settle", "rearm"}
  /\ sync.timer \in {"off", "armed", "refused"}
  /\ sync.upgrade \in {"none", "activating", "proven", "done"}
  /\ sent \in 0 .. EventLimit /\ barred \in 0 .. CancelLimit

\* No result of work that was cancelled by a suspension, a document barrier or
\* a closing stays for the host, whatever the worker was doing meanwhile
\* (cancel_event_generation, retain_worker_result).
ResultsAreCurrent == \A i \in DOMAIN mail.results : IsCurrent(mail.results[i])

\* The events that have an id in the worker's stages, oldest first
EventIds ==
  LET Ids_(s) == LET events == SelectSeq(s, IsEvent)
                 IN [i \in DOMAIN events |-> events[i].id]
  IN Ids_(mail.results) \o Ids_(<<hand.result, hand.command>>) \o Ids_(mail.commands)

\* Coalescing never reorders: results, the event in hand and the queued events
\* are in the order in which the host delivered them.
EventsInOrder ==
  \A i, j \in DOMAIN EventIds : i < j => EventIds[i] < EventIds[j]

\* Coalescing loses nothing that counts: an accepted event of the current work is
\* still on its way, unless a later event of its key replaced it; never across a
\* command, which would see what came after it, and never once its guest asked
\* for an effect.
NothingCounts(a) ==
  /\ a.key \in Keys /\ ~a.effects
  /\ \E b \in owed :
       /\ b.key = a.key /\ b.id > a.id
       /\ \A c \in owed : c.id \in a.id .. b.id => c.key \in Keys

OwedIsOnItsWay ==
  \A a \in owed : a.id \in ToSet(EventIds) \/ NothingCounts(a)

\* A closed worker ends, also when it is blocked on results nobody drains or in
\* the middle of an event (close_without_waiting; closing is final).
WorkerExits == []<>(proxy.closed => ~mail.alive)

\* Every event that was queued is executed, replaced or cancelled: a worker
\* blocked on full results is released by the synchronisation loop, so that the
\* queue does not keep one for ever.  The loop stops while no reader is the active
\* view and when a full queue refuses a snapshot; nobody waits otherwise.
EventsAreTaken ==
  []<>(SelectSeq(mail.commands, IsEvent) = <<>> \/ ~sync.reader \/ sync.timer = "refused")

\* "Commits durable package state only after a Wasm upgrade has actually crossed
\* its worker boundary" (settle_package_activations): an upgrade that is settled
\* before its activation has been reported is rolled back.
CommitsAfterActivation ==
  [][sync.upgrade = "activating" /\ sync.at = "settle" /\ sync.upgrade' = "done" => proxy'.closed]_wasmVars

\* The mailbox neither loses, reorders nor revives work, and stays bounded.
MailboxFaithful == WorkerTypeOK /\ ResultsAreCurrent /\ EventsInOrder /\ OwedIsOnItsWay

\* Neither side of the mailbox waits for the other for ever.
MailboxMoves == WorkerExits /\ EventsAreTaken
=============================================================================

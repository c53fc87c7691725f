# Verification of the PDF reader

This directory holds TLA+ models of the stateful parts of the reader, the TLC
configurations that check them on small instances, and TLAPS proofs of what is
true of five of them for every instance. Every definition is translated from the
Rust source; `PROJECT.json` maps each one to the lines it models.

## 1. The system and its parts

The workspace is a desktop PDF reader. The application
(`apps/gpui-pdf-reader`) is built on crates that each own one concern. What
they have in common is a pattern: a long-lived thread or actor owns a resource,
callers on other threads send it commands over a queue, it answers over bounded
channels, and *generations*, *revisions* and *cancellation tokens* tell the
answers that still matter from the ones that do not.

| Part | State | Operations | Talks to | What is hard about it |
|---|---|---|---|---|
| **Latest-wins scheduler** `key-pdf-runtime/scheduler.rs` | `queued`, `in_flight`, `latest`, next revision | `schedule`, `pop_next`, `finish`, `cancel`, `clear_pending` | callers and workers | three maps that must agree; late and repeated completions; limits reached with a key both queued and running |
| **Engine supervisor** `key-pdf-runtime/supervisor.rs` | per document: session, pending work by key, held-back events, tokens; the rotation | attach, open, close, replace, cancel, detach, shutdown; the owner loop | clients on several threads, the PDF engine, bounded event routes | tokens taken under a mutex but commands sent after it; cancellation during an engine call; full routes; eviction; fairness between documents; joining on drop |
| **Document adapter** `apps/.../backend/` | desired state, search, analysis, cached text, the engine session | `WorkerCommand`s in, supervisor events out | reader, supervisor | one mailbox for both sides, a flag that lets one event in, stale `Opened`, jobs that wait for demands somebody cancels, hibernation |
| **Reader: what is shown** `reader.rs`, `reader/*.rs` | tiles, text, zoom, theme, copy, jumps, link cards, search, timers | user commands, worker events, frames | document adapter | events of earlier demands, requests dropped on many paths, "pending" sets that only an event clears |
| **Reader: annotations** `reader.rs`, `reader/comments.rs` | generation, annotations, saved/enqueued/failed revisions, the open that waits | open, edit, save, handle an answer | annotation service | stale answers, retries, leaving a document with unsaved edits |
| **Annotation service** `key-sidecar-store/service.rs` | lanes, ready queue, per-client event queues, leases | load, save, drop, diagnostics, shutdown; the actor loop | readers, the sidecar store | refused commands, coalescing, backpressure, a lease outside the mailbox, drain on shutdown |
| **Sidecar store** `key-sidecar-store/json.rs`, `memory.rs` | one snapshot per PDF | load, compare-and-save | file system, other processes | concurrent writers, a failure between two steps, a PDF that changes under the lock |
| **Editor core** `key-editor-core` | text with styles and block kinds, selection, composition | edit, compose, format, write and read Markdown | comment editor | parallel structures, an incremental size, an escape for every ambiguity |
| **Extension host** `key-extension-host` | lifecycles, capabilities, event queue, pending effects, breaker | install, activate, suspend, resume, unload, tick, complete | extensions, application | cascades in the middle of a tick, late completions, document barriers, feedback |
| **WebAssembly worker** `key-extension-wasm/worker.rs` | mailbox shared with a thread, lifecycle and work numbers | enqueue, suspend, resume, cancel, drain | extension host, Wasmtime | results of an earlier life, coalescing across barriers, full results, what is pending between two locks |
| **Packages and registry** `extension_packages.rs`, `app_extensions.rs`, `extension_registry.rs` | installed package, grants, durable entry, upgrade under way | review, install, enable, permit, upgrade, settle, remove, restore | extension host, disk | authority over changes of source, failed writes, rollback, restarts |
| **Capability bridge** `pdf_capability_bridge.rs` | snapshots of the live document, revisions, waiting jump, overlays | publish, read, navigate, overlay | reader, extensions | handles of an earlier document, revisions that must name one content |
| **Reference executor** `extensions/key-reference`, `key-safe-http/cache.rs` | per-document queues, ready scopes, cache ledger, sessions | hover, open, close, take, publish, balance | worker threads, network | cancellation racing with workers, fairness, counts that must agree |
| **Workspace** `application_host.rs`, `workspace_window.rs`, `key-workspace-core` | windows, tabs, splits; registrations; participants and allocations | open, close, split, move, activate | windows, readers | the same fact kept three times, callbacks that cannot reach their own window |
| **Resource allocator** `key-workspace-core/resources.rs` | none | allocate | workspace | rounding, caps and weights |
| **Safe HTTP** `key-safe-http` | rate history, permits, cache tiers | fetch, insert, purge | network, disk | limits under concurrency |
| **Extension storage** `key-sidecar-store/extension.rs` | key-value file with revisions | get, put, delete | disk | compare-and-swap, quota |

Painting, PDFium, file formats, signatures and parsers keep no state of their
own over time or are foreign code; `PROJECT.json` lists them as not modelled,
with the reason.

What makes each part correct:

- *scheduler*: what would be published is exactly what nobody cancelled, once,
  and nothing that still counts is stuck;
- *supervisor*: a client reads the history of one document at a time, is told
  of success only for what it still wants, and neither a slow nor a vanished
  client harms another;
- *adapter*: content reaches the reader only under the document it was made
  from, and what the reader asked for ends;
- *reader*: what is on screen is of the current document and appearance, and
  with nothing outstanding nothing is missing; an edit is never silently lost,
  neither by leaving the document nor by another writer;
- *annotation service*: every accepted command is executed and answered in
  order, and dropping a client or the service ends in bounded work;
- *sidecar store*: a save happens in one step or not at all;
- *editor*: what can be typed can be stored, and is read back as it was written;
- *extensions*: authority is backed by what the user granted to this very
  content, nothing of an earlier document reaches an extension, feedback ends;
- *worker, executor*: nothing is lost, revived or reordered, nobody waits for
  ever;
- *workspace*: windows, host and registry tell the same story, drafts stay.

The hazards list in `PROJECT.json` says where in the code each of these can go
wrong and which property would notice.

## 2. Modules

| Module | Models | Checked by |
|---|---|---|
| `LatestWins` | the abstract promise of a latest-wins scheduler | `ImplementsLatestWins` |
| `LatestWinsQueue` | `scheduler.rs` | `MCLibraries`, `LatestWinsQueueProofs` |
| `LatestWinsQueueProofs` | theorems about `LatestWinsQueue` | TLAPS |
| `EngineSupervisor` | `supervisor.rs`, with the parts of `session.rs` and `cancellation.rs` it uses | `MCThreads`, `MCEngineSupervisor`, `MCApplication`, `EngineSupervisorProofs` |
| `EngineSupervisorProofs` | theorems about `EngineSupervisor` | TLAPS |
| `DocumentAdapter` | `backend/worker.rs`, `backend/client.rs` | `MCDocumentAdapter`, `DocumentAdapterProofs` |
| `DocumentAdapterProofs` | theorems about `DocumentAdapter` | TLAPS |
| `AnnotationService` | `service.rs` and the store's compare-and-save | `MCAnnotationService`, `AnnotationServiceProofs` |
| `AnnotationServiceProofs` | theorems about `AnnotationService` | TLAPS |
| `AnnotationSession` | the reader's use of the service; extends `AnnotationService`, so the two run together | `MCReader`, `AnnotationSessionProofs` |
| `AnnotationSessionProofs` | theorems about `AnnotationSession` | TLAPS |
| `ReaderView` | the rest of the reader, with the adapter as the reader sees it | `MCReader` |
| `AnnotationStore` | the abstract store, `memory.rs` | `SavesAreAtomic` |
| `SidecarStore` | `json.rs` | `MCLibraries`, `SidecarStoreProofs` |
| `SidecarStoreProofs` | `SidecarStore` implements `AnnotationStore` | TLAPS |
| `RichText` | `key-editor-core` | `MCLibraries` |
| `ExtensionHost` | `host.rs` and the reader's effect loop | `MCApplication` |
| `WasmWorker` | `worker.rs`, the host's ticks for it and the reader's synchronisation loop | `MCThreads`, `MCWasmWorker` |
| `PackageManager` | packages, registry, restoration | `MCApplication`, `PackageManagerProofs` |
| `PackageManagerProofs` | theorem about `PackageManager` | TLAPS |
| `CapabilityBridge` | `pdf_capability_bridge.rs` | `MCApplication`, `CapabilityBridgeProofs` |
| `CapabilityBridgeProofs` | theorems about `CapabilityBridge` | TLAPS |
| `ReferenceExecutor` | executor, both clients, the document cache | `MCApplication` |
| `ResourceAllocator` | `resources.rs` | `MCApplication`, and `Workspace` uses it |
| `Workspace` | host, windows, resource registry | `MCApplication` |

`MCLibraries`, `MCThreads`, `MCReader` and `MCApplication` are sums: a variable `focus` says
which part a behaviour is about, and the others keep their initial state. The
parts of a sum meet only through callers that each part already treats as free,
so that running them side by side would multiply states and add no behaviour.
Where two components do share state they are composed in one specification:
`AnnotationSession` with `AnnotationService`, the effect loop with the host, the
synchronisation loop with the worker, readers with the executor and its cache,
windows with the host and the allocator.

The `Mut...` operators in the modules are the plausible bugs that `PROJECT.json`
lists as mutants: each is a variant of the definition that follows it, no
specification uses one, and each makes one property fail.

### LatestWinsQueue

The maps of the queue are functions from keys, with revision 0 for "no entry".
Each accepted demand has a fresh revision and a `CancellationSource` of its own,
so a token *is* its revision and `cancelled` is a set of revisions. `issued`
keeps every `ScheduledDemand` ever handed to a worker, so that a worker may
report at any later time, twice, or after its key has been popped again
(`FinishUnknown`). `schedule` is four actions, one per result: replaced, queued,
queued after an eviction, rejected. `reported` and `published` are history
variables.

### EngineSupervisor

A client call is two steps, as in the code: `Enter...` is what happens under the
`ClientCancellations` mutex (cancel and register tokens), `SendCall` the send
after it is released; another thread's call may come between. The owner thread
is the variable `pc`:

    drain -> (insert -> drain)* -> flush -> start -> engine -> drain
                                      \-> idle -> drain

`drain` accepts one command per step, `insert` adds one piece of a replacement
per step, because a client can cancel a token between two of them; `flush` sends
held-back events one at a time, because a receiver can take one, or go away, in
between; `start` and `engine` are the token checks before and after the engine
call. Flushing the last event and selecting work are one step: `next_runnable`
reads only the owner's state. Waiting with `recv_timeout` is `idle`; the command
that ends the wait is taken by the `drain` that follows.

Sessions are generation numbers and tokens are call numbers, both per document.
Render, text and preview work are one kind of work: `execute_render`,
`execute_text` and `execute_preview` have the same control flow and differ in
payload. The engine call succeeds, fails or observes its token. Descriptors,
rasters and text are not modelled.

History variables: `told` (the last document change the client has received) and
`overtaken` (for the rotation's fairness).

### DocumentAdapter

Commands of the reader and events of the engine share one bounded mailbox. The
event route's flag (`routed`) is set by the engine's thread before it tries the
mailbox and cleared by the adapter after it has taken the event. `adapterPc`
follows the loop of `run_worker`: drain the mailbox, send the visible work that
is due, drive the search, drive the analysis, wait. A handler that publishes
blocks on a channel of one event: `outgoing` is what it still has to send and
`deferred` the engine calls it makes afterwards, and nothing else of the thread
runs meanwhile. The engine is what a document client sees of `EngineSupervisor`:
commands in order, work of a closed generation discarded, cancelled work
reported as cancelled, undeliverable events held back in order; a client call
and its command are one step here. Each document is its generation, so "content
of another document" is visible in every event and cached page. What a handler
calls is a record (`Calls`): the classes it cancels, then at most one other call.
Where the code replaces one class and then cancels another, the two commute.

### AnnotationService

`pc` follows `run_service`: top (block, or go on when a lane is ready), drain
the mailbox one command at a time, reap the leases one lane at a time, flush the
event queues, select a lane, run `process_one` against the store, reply to
diagnostics, end. The lease is an atomic flag read only by the reaping step, so a client
can save and be dropped between the last look at the mailbox and that read.
Every client has one lane, as `attach` creates them together.

`store` maps a path to a snapshot: a revision and a set of marks. `Writable` is
the check of `compare_and_save`; the load, comparison and rename happen under
the store's lock and are one step. Any load or save may fail. `ForeignSave` is
another process writing the same sidecar, the one external definition.

Accepted commands are numbered (`serial`, `handled`, `answered`); the code does
not do that, and the properties are about these numbers. Two branches of the code
do not appear: `process_one` returns early for a lane that is missing or empty,
which the invariant `ReadyAgrees` excludes, and `Disconnected` from the mailbox cannot happen
while `ServiceInner` holds a sender and joins the actor before it drops it.

### AnnotationSession

Adds the reader's variables to those of the service and binds the service's
client actions to the reader's handlers: `Submit` occurs only inside
`OpenDirty`, `Opened`, `Edit` and `SaveAgain`, and `Receive` only inside
`handle_annotation_event`. `Opened` stands for the arrival of
`WorkerEvent::Opened` for the current generation. Editing is one action that
adds a new mark: highlights, comments and their deletion share the path
"bump the revision, persist". The reader stays open: what closing it does to its
commands is a question about dropping the client, asked of `AnnotationService`.

### ReaderView

`rd` is the `PdfReader`, `wk` the adapter as its commands and events show it,
`inbox` the events on their way. Every handler of the window thread is one step:
`HandleWorkerEvent` dispatches on the event as `handle_worker_event` does, with a
definition per event and its tests of generation, appearance and revision in the
code's order; `Frame` is what `render` does before it paints (synchronise the
appearance, request what is missing). Timers are flags; the hover timer of a
link card fires once and is started only where the code starts one, so a
candidate may be left without it. A command takes effect
when it is sent. A tile is a page at a zoom; positions of the viewport are
`Spots`, each with its visible and near pages. `wk.lost`, `wk.stopped` and the
stamps on cached contents are history variables: they say that an outstanding
request was taken away by a later one, or by hibernation (section 6).

### AnnotationStore and SidecarStore

`AnnotationStore` is the store in memory, one step per call under its mutex,
with `seen`, what a caller has loaded or saved last, and a machine that may
bring back an older entry the disk had. `SidecarStore` takes `compare_and_save`
apart: open, lock, check, compare, check again, write the temporary file,
rename, sync and answer, each a step between which others may act. The lock is
on the file, not on the path. A process may end at every step (the lock goes
with the descriptor), the machine may fail and lose a rename the directory sync
did not reach; other programs edit the PDF in place or put another in its place.
An equal length, modification time and page count is taken for equal content, as
`revalidate_file` does without hashing (`json.rs:190`): the model has only
contents. The refinement mapping reads the entry from the sidecar file, the
settled entry from the disk, and counts a call as answered once the file is
renamed.

`AnnotationService` uses the store as one step, which is what the refinement
justifies.

### RichText

The text is a sequence of characters with their styles, so the code's style runs
are the maximal stretches of one style, and replacing a range is concatenation;
block kinds stay a separate sequence, as in the code, because keeping the two in
step is what can go wrong. `Encoded`, `Markdown` and `Size` translate the writer
and the separate computation of its size; `Parsed`, `Contents` and `Read` the
parser, with recursive functions over positions. A character is one byte, one
UTF-16 unit and one grapheme. Every command is an action; a command whose result
is too large changes nothing.

### ExtensionHost

The host is single threaded and its methods call each other deeply: a violation
suspends, a suspension reconciles the capabilities of the others, which suspends
more of them and broadcasts, which may overflow the queue, which is a violation.
Each method is an operator from the host's state to its next state under the
method's name, so that an action is the whole cascade. A tick runs code of
extensions, whose answers are free, and is several steps; nothing else of the
thread comes between them. Deferred adapters keep their calls and have finished
some prefix of them when a tick drains them. Causes, effects and snapshots carry
the document they come from as history.

### WasmWorker

The worker holds the mailbox lock to take a command, to count it out and to
store its result, and runs the guest in between: four steps of `hand.pc`, and a
wait for room that closing, suspending, cancelling and draining end. `sync` is
the thread of the user interface. It holds the host's queue of events for this
extension (`queue`), the timer of the reader's loop (`timer`: off, armed, or
refused when a snapshot did not fit into the host's queue, after which the code
returns without running again) and the place in a run of the loop: publish
snapshots, drain results, deliver events one by one with what is left of the
tick's budget, settle an upgrade, decide whether to run again. Each look at the
mailbox is a step. `activate` announces the capabilities to the candidate itself,
so an event waits for it in the host's queue; opening a document and activating
another reader are barriers that clear this queue and cancel the worker's events.
With a view that has no reader in front the loop does nothing. An event the
mailbox refuses, and failures of the guest, may suspend the extension. `owed` is
a history variable: the accepted events of the current work that no tick has
drained.

### PackageManager

One extension with its sources, its runtime state, its registry entry in memory
and on disk, the preview under review and `intent`, a history of what the user
has confirmed, granted and switched. A write of the registry succeeds, fails, or
fails with the new file left behind; the process may end between two calls and
the source may change at any time.

### CapabilityBridge

Every method is one step under the bridge's lock. `document` is the
`ActiveDocument`: its snapshots by kind and page, the next revision, the waiting
jump, overlays. `view` is what the reader publishes from, `seen` one reading an
extension has kept, against which later readings are compared. A snapshot
carries the PDF it was made from as history.

### ReferenceExecutor

Readers open, close and hover; worker threads take jobs in turn from the scopes,
run a provider, insert a file, look whether they are cancelled, publish, send
and balance the caches. An image that cannot be had, or is purged before its path
is looked up, leaves an answer without an image. Changing a generation cancels the token, clears the
queue and purges the cache in three steps, as three locks. Providers answer,
fail, or panic.

### ResourceAllocator and Workspace

`AllocateDimension` is the allocator for one dimension of the budget.
`PlanIsRight` compares its result, for every budget and crowd of the instance,
with what a plan promises: the shares sum up to the smaller of the budget and the
targets, and nobody is brought towards its target while another lacks its
minimum. `Workspace` keeps the windows, the host's records and
the resource registry as the three places they are in the code; each callback is
one action made of the methods it calls, in their order, and allocations
computed on the way are sent at its end.

## 3. Runs

| Run | Instance | Shows |
|---|---|---|
| `libraries` | *queue*: 3 keys, 2 priorities, capacity 2, 2 workers, 4 revisions. *sidecar*: 2 writers, 2 PDFs, 2 revisions, 1 failure, 1 change of the PDF. *text*: 3 commands on a heading and an empty list item, size 16. *reading*: all lines of up to 2 characters in every mixture of styles and all of up to 3 characters that look like a prefix | the invariants of the queue, the refinement of `LatestWins`, and that every demand settles; `SavesAreAtomic`; `TextSound` |
| `supervisor_race` | 1 document, UI and adapter thread, 3 calls, route of 1 | the owner's tables agree (`OwnerConsistent`), order of the event stream, no success report for unwanted work, the owner joins |
| `threads` | *supervisor*: 2 documents, one never reads. *worker*: an upgrade, 2 queued events, 2 results, 3 events in all, 2 per tick, 1 cancellation | round robin among equals, the other document settles; `MailboxFaithful`, `MailboxMoves` |
| `supervisor_domains` | 2 classes at capacity | **violation**, finding 1 |
| `annotations_lane` | 1 client, mailbox of 1, 3 calls of 3 kinds, 1 diagnostics call | complete and ordered answers, nothing forgotten, shutdown drains, diagnostics after cleanup, cleanup completes |
| `annotations_share` | 2 clients, mailbox of 1, one never reads and may be dropped | lanes, ready queue and ready set agree; the reading client is answered |
| `annotations_drop` | 1 client, 1 save | **violation**, finding 2 |
| `session` | *annotations*: 1 reader, 2 documents, 2 generations, 3 commands, an own mark and a foreign one. *view*: 2 pages, 2 zooms, an internal, a citation and a web link, 2 queries, 2 events on their way, 8 habits of 2 or 3 calls | "clean" means stored, edits are kept, the waiting open settles; `ViewIsCurrent`, `NobodyWaits` |
| `adapter` | 11 scenarios of a few kinds of calls, mailbox of 2, 1 cached page | one event routed, no foreign content, jobs end |
| `adapter_opened` | 2 opens | **violation**, finding 3 |
| `application` | seven parts, below | `WorkspaceAgrees`, `DraftsHoldTabs`, `PlanIsRight`, `HostConsistent`, `UserDecides`, `LookupsConsistent`, `WorkersFinish`, `BridgeFaithful`, `EvictionSparesTheUrgent` |
| `wasm_commit` | the worker of `threads` | **violation**, finding 4 |

The parts of `application`:

- *workspace*: five starting points: an empty window that opens two documents;
  three tabs of which two name one document, with a draft; three tabs with a
  draft; two windows with a draft and the settings; two windows with the same
  document named twice. A machine with 16 GiB and 8 processors.
- *allocator*: budgets 0, 1, 2, 3, 5 and every crowd of up to two participants,
  and selected crowds of three.
- *host*: a chain of three extensions, each offering what the next requires, the
  last one deferred, the first one bundled; queue of 4, 2 events per tick, 1 per cause, 2 effects per
  event, depth 1, suspension at the second violation, four scenarios.
- *packages*: 2 contents, 2 paths, 1 change of a source, 4 calls.
- *executor*: 2 documents, 2 web links and a paper, 2 workers, queue of 2, 1
  file, four plans of what is read.
- *bridge*: a PDF of two pages whose contents have an untitled entry and one
  beyond the limit, one that cannot be described, 2 generations, 3
  publications.
- *queue of the supervisor*: 1 document, 2 classes, 2 pending entries, 3 calls
  with a repeated key and mixed priorities.

### Bounds

`MaxRevision`, `RevisionLimit`, `MaxCalls`, `MaxInspections`, `MaxGeneration`,
`EditLimit`, `CallLimit`, `EventLimit`, `CancelLimit`, `ChainLimit`,
`FailureLimit`, `SwapLimit`, `GenerationLimit`, `PublishLimit`, `InboxLimit` and
the limits in scenarios are the only bounds that the code does not have; the
others are policies, made small. They are chosen so that the case each property
is about occurs:

- *queue*: with capacity 2 and three keys a third demand evicts or is rejected;
  four revisions let one key be queued, popped, replaced while it runs, evicted
  and its old worker report.
- *sidecar*: two writers that load the same revision and both save, one of them
  a second time; a failure at each step; a change of the PDF at each step.
- *text*: three commands are compose, select or delete, and format or break a
  line; size 16 refuses what grows further. The shortest ambiguities of Markdown
  are two or three characters long.
- *supervisor*: three calls are open-replace-close, open-open-replace from the
  old session, and open-replace-cancel, each spread over two threads; a route
  of one is full after one event, so a second is held back. Capacity needs
  batches of different classes, one of them with a repeated key, around an open.
- *annotation service*: a client is saturated with one event in the channel and
  one pending, a mailbox of one refuses `Wake` whenever a command waits.
- *session*: one document loaded, edited, saved and left for another takes two
  loads and a save; the second document lets old answers arrive late. The view's
  habits pair the commands that interfere: zoom with theme, copy with links,
  search with hibernation, and so on.
- *adapter*: two opens, or one with a search over two pages of which one is
  cached, or a hibernation and its end; each scenario combines kinds of calls
  that use the same fields.
- *worker*: with a limit of two queued events the third is refused; three are also
  what it takes to coalesce, or not, across a command between two of a key. Two
  results let a result replace one at the end or stand behind a barrier, and the
  third waits; a tick of two ends with events left over when it has drained a
  result. Each of these cases has a mutant: the limit off by one, a command that
  is no barrier, a result stored after it was cancelled.
- *application*: each limit is reached or passed by one.

Deadlock is checked where nothing may stop: `supervisor_race` and the annotation
service. Elsewhere (`libraries`, `threads`, `supervisor_domains`,
`session`, both adapter runs, `application`) callers that stay have used up
their calls, and a part that waits for them waits for ever, which the program
may do; what must not wait is said by `JobsEnd`, `NobodyWaits`, `MailboxMoves`,
`WorkersFinish` and the other liveness properties.

### Fairness

- The owner and actor threads run, and an engine or store call returns:
  `WF(OwnerStep)`, `WF(ActorStep)`. Both loops are unconditional and both
  threads sleep only in `recv`/`recv_timeout`, where the models have no step.
- A call that has begun gets to its send, a drop that has begun sends `Detach`,
  `Wake` or `Shutdown`: straight-line code on a running thread.
- Only the clients in `Steady` read their events. The application's forwarding
  tasks do; all other clients are under no obligation, so that the liveness of
  a steady one is shown against neighbours that never read.
- *queue*: a worker pops when it may and reports what it popped, once or more
  often (`WF(Work)`). Nothing is assumed of callers.
- *adapter*: as long as the reader's event task, the adapter or the engine can
  step, one of them does: one `WF` over the three.
- *worker*: the worker thread runs, and the reader's loop runs again when it was
  armed (a timer of 24 ms). The loop is not always armed: it stops while the
  active view is not a reader and when a snapshot is refused, until something
  else arms it, and `EventsAreTaken` claims nothing for these states.
- *executor*: some runnable thread runs (one `WF` over all machine steps);
  providers return because requests have timeouts.
- `NobodyWaits` needs none: it is an invariant over states in which nothing is
  outstanding. The workspace, the allocator, the host, packages, the bridge, the sidecar
  store and the text have safety properties only.

No strong fairness is used, and nothing is assumed of clients starting calls.

## 4. Proofs

Eight modules hold theorems. Each is checked by TLAPS for every value of the
constants that the named assumptions allow; the inductive invariants were first
checked by TLC on the instances of the runs.

| Theorem | Statement | Invariant |
|---|---|---|
| `TypeCorrect` | `Spec => []TypeOK` | `TypeOK` |
| `GateCorrect` | `Spec => [](GateMatchesTokens /\ RevisionsOwned)` | `IInv` |
| `WorkersAccounted` | `Spec => []IssuedAccounted` | `AInv` |
| `LimitsHold` | `Spec => []WithinLimits` | `LInv` |
| `QueueRefines` | `Spec => ImplementsLatestWins` | `IInv` |
| `OwnerAlwaysConsistent` | `Spec => []OwnerConsistent` | `SupervisorInv` |
| `StreamAlwaysInOrder` | `Spec => []StreamInOrder` | `SupervisorInv` |
| `ReportsAlwaysWanted` | `Spec => ReportsAreWanted` | `SupervisorInv` |
| `EvictionAlwaysSpares` | `Spec => EvictionSparesTheUrgent` | `SupervisorInv` |
| `RotationAlwaysFair` | `Spec => []RotationIsFair` | `SupervisorInv`, `FairInv` |
| `StoreRefines` | `Swaps = {} => (SidecarSpec => SavesAreAtomic)` | `SidecarInv` |
| `UserAlwaysDecides` | `PkgSpec => []UserDecides` | `PackageInv` |
| `ReadinessAgrees` | `Spec => []ReadyAgrees` | `ServiceInv` |
| `NothingIsForgotten` | `Spec => []NothingForgotten` | `ServiceInv` |
| `AnswersAreComplete` | `Spec => []AnswersComplete` | `ServiceInv` |
| `ShutdownDrainsCalls` | `Spec => []ShutdownDrains` | `ServiceInv` |
| `DiagnosticsComeAfterCleanup` | `Spec => DiagnosticsAfterCleanup` | `ServiceInv` |
| `CleanIsStored` | `SessionSpec => []CleanMeansStored` | `SessionInv` |
| `EditsStay` | `SessionSpec => EditsAreKept` | `SessionInv` |
| `ContentIsOwn` | `DocSpec => []NoForeignContent` | `AdapterInv` |
| `OneEventIsRouted` | `DocSpec => []OneEventRouted` | `AdapterInv` |
| `HandlesShowOneDocument` | `BridgeSpec => []BridgeFaithful` | `BridgeInv` |

### The queue (`LatestWinsQueueProofs`)

`GateMatchesTokens` alone is not inductive. Cancelling the demand of a key
cancels a token *by revision*; without knowing that a revision names one piece
of work this could silence another key. Replacing a running demand moves the
gate to the queue; if the queued revision could already be cancelled, gate and
tokens would part. So the invariant is

    IInv == TypeOK /\ GateMatchesTokens /\ RevisionsOwned

where `RevisionsOwned` says that revisions in use are below `nextRevision`, that
no two entries share one, that a queued revision is not cancelled and is newer
than what its key runs or has published, and that a running demand with a
successor has been told to stop. The proof has one step per action;
`EnqueueKeepsGate` is the common part of the three ways a demand enters the
queue, and one step treats `cancel` and `clear_pending` alike, as emptying a
set of keys.

`AInv` adds that what a worker was handed is older than what its key has queued
(`IssuedOld`): a popped demand is then new, so it cannot count as reported
already. `LInv` adds the two limits the code tests; that `latest` stays within
their sum, which the code relies on and never tests, follows from
`GateMatchesTokens`. For the refinement, `IInv` makes the abstract demands equal
to `latest`, and each action is shown to be one abstract step or none.

Assumptions: `KeyAssumption` (finitely many keys; used by `LimitsHold`) and
`BoundsAssumption` (the bounds are natural numbers, `max_in_flight` is not zero).

### The supervisor (`EngineSupervisorProofs`)

For any finite set of documents, any threads, classes and batches of work, any
capacities and any number of calls:

    SupervisorInv == TypeInv /\ CallsAddressed /\ RotationInv /\ TokenInv
                       /\ QueueInv /\ StreamInv

- `RotationInv`: the rotation lists the attached documents once each, which
  needs that an attach is sent once and before anything else of its document.
- `TokenInv`: the token of a demand is registered or cancelled, wherever the
  demand is: in a call that has not been sent, in the mailbox, half inserted,
  pending, or at the engine. A demand that is not cancelled is therefore wanted,
  which is `ReportsAreWanted`: the owner tests for cancellation and never looks
  at what is registered.
- `QueueInv`: one entry per key, at most `MaxPending` of them, a waiting open at
  the highest priority. `replace_class` picks its victim by priority and
  sequence; that a least entry exists is proved by well-founded induction
  (`LeastExists`), and that it is never an open follows from the priorities.
- `StreamInv`: the order of events. A result is in order because of the session
  its work was demanded of, and the demand names that session because the client
  had received it. `Served(d, g)` is what a client that has received `g` can rely
  on: as long as the owner still has `g`, nothing on its way to the client
  changes the document. `Demands` says so of every place a demand can be in, and
  `RouteOpenings`, `HeldOpenings`, `RouteResults`, `HeldResults` say what the two
  queues of events may hold. `StreamKept` proves the preservation once, for what
  a step can do to one document's events (`Moves`: push, hold back, clear, flush,
  receive, ...); `ClientMoves` and `OwnerMoves` show that every action is one of
  these for every document.
- `FairInv`: the times a document was passed over and its place in the rotation
  add up to at most the number of documents. `RotationIsFair` bounds the first
  summand only and is not inductive: nothing in it says that a document that is
  passed over moves forward.

Assumptions: `PolicyAssumption` (capacities are not zero, as `SupervisorPolicy`
makes them), `BoundAssumption`, `DocAssumption` (finitely many documents),
`UsesAssumption`, and `WorkAssumption` (priorities are at most
`DemandPriority::INTERACTIVE`, the greatest value there is).

### The sidecar store (`SidecarStoreProofs`)

`compare_and_save` implements the one-step store in memory, for any writers,
PDFs, revisions, crashes, power failures and changes of the PDF. The rename is
the step that maps to the abstract save, opening the PDF to the call, refusals,
crashes, flushes and power failures to themselves, and everything between to no
step. The invariant says that the lock is held from the first check to the answer
(`LocksHeld`), that the file at the path has
another content than any other file somebody saves for (`FilesApart`), that what
was compared still holds for a writer whose file is at the path
(`ComparisonStands`), and that a revision names one set of annotations
(`RevisionsNameSets`). The hypothesis `Swaps = {}` excludes the two windows of
section 6 and nothing else: with either of them TLC finds the refinement
violated, so it cannot be dropped. Assumption: `SidecarAssumption`.

### The packages (`PackageManagerProofs`)

`UserDecides` speaks of what is active and of what the registry would restore. A
rollback brings back a version from the upgrade that is settling, a restart one
from the registry's file, a failed write leaves file and memory apart.
`PackageInv` therefore says of each place a package can be in (manager, upgrade,
both copies of the registry entry) that its content was confirmed and its
permissions were granted to that content, that something runs or can be rolled
back to only if the user wants it, and that after a write reported as done the
file agrees with the wish. There is one lemma per method of the manager and one
per action. Assumption: `PackageAssumption` (0 stands for no content; every
content declares its required and optional permissions).

### The annotation service (`AnnotationServiceProofs`)

For any finite set of clients, any paths, edits and calls, any capacities and any
number of calls and questions:

    ServiceInv == TypeInv /\ ClientInv /\ ShutdownInv /\ LaneInv /\ LiveInv
                    /\ GoneInv /\ OrderInv /\ AnswerInv

- `ClientInv`: a client's attachment is sent once and before anything else that
  names it, and the actor has nothing of a client before it takes the attachment.
  Without it a second lane could come into being with calls in the first.
- `ShutdownInv`: the shutdown message is the last one; when it is taken the
  mailbox is empty and every lane closes. Replies and the end come only with no
  lane ready.
- `LaneInv`: `ReadyAgrees`, with what it needs. `ReadyAgrees` excepts the lane at
  work, whose flag is off while it still has operations; `process_one` turns it on
  again by what remains. A lane is closing exactly when its last operation is a
  `Detach` (or that is at work), a closing lane has no sink, and only a client with
  a sink has events held back. So the `Detach` removes everything at once and
  nothing is scheduled behind it.
- `LiveInv`: only the inspection of dropped leases and the shutdown close lanes.
- `GoneInv`: what a question calls gone is closing once reaping is over; with no
  lane ready it is gone at the reply. This gives `DiagnosticsAfterCleanup`.
- `OrderInv`: the serials at work, in the lane and in the mailbox increase in this
  order above the last one executed (`CallsOrdered`), and the newest is among them
  (`NewestKept`). `Extends` is what coalescing does to a lane: a call goes behind
  the others or in the place of a save that is older. `ShutdownDrains` follows with
  `ShutdownInv` and `LaneInv`.
- `AnswerInv`: the answers of a listening client follow one another up to the last
  call executed (`InStep`), and there is room for one more while its operation is
  at work, because `select` passes over a lane whose events are held back at the
  limit. `AnswersComplete` bounds what is held back and does not say this.

Each part has a lemma for what clients and environment do and one for the steps of
the actor, and `Scheduling`, `Selecting`, `Calling`, `ClosesLanes` say once what
the loop's helpers do to the lanes. `NothingForgotten` speaks of a client's places
in one line of job, lane and mailbox; `InTheLine` cuts the line into the three.
Assumptions: `CapacityAssumption` (the capacities are not zero),
`ClientAssumption` (finitely many clients), `CallAssumption` (a call is a load or
a save with a generation, a path and, for a save, the revision expected and the
snapshot).

### The session (`AnnotationSessionProofs`)

For any readers, PDFs and edits, with the service and its other constants as above:

    SessionInv == ServiceInv /\ ReaderTypes /\ \A c \in Client : SessionPart(c)

`ReaderStep` uses of the service what any client may (`SessionIsAny`), so
`ServiceInv` carries over. `SessionPart` adds, for each reader, what holds of its
calls wherever they are (mailbox, lane, at work) and of the answers on their way:

- `CallOk` of a save: it was made in the generation and for the path of its lane,
  and covers the disk (`Covers`): *while* the sidecar still has the revision the
  lane observed last, the snapshot to be written has all its marks. The condition
  on the revision is what makes this survive saves of others: they only raise the
  revision, and `save_sidecar_if` then refuses. `InOrder` adds that later saves
  have the marks of earlier ones, so that a save that is written leaves those
  behind it covering the disk; a save coalesced away is of no further use.
- `CallOk` of a load: the reader is still loading and nothing was asked after it.
  So when its answer arrives nothing else is on its way (`LastAnswer`), and an
  answer of a document left long ago cannot be taken for one of this.
- `EventOk`: an answer of the document shown tells of an earlier state of its
  annotations that is on disk. An answer can be lost, repeated saves make several
  of the same revision, and the reader keeps the highest; `SavedOnDisk` shows that
  what it then takes for saved is.
- `ReadyInv`: `CleanMeansStored` for one reader and, until the service shuts down,
  that the document shown covers the disk, so that the next save will. A shutdown
  removes the lane but accepts no more saves.

`Aside` carries all this through a step in which the reader takes no part. What a
step may do to calls is `CallsKept` (they move, change the revision expected or
go), to answers `Piece` (some go) or one more behind (`StreamGrows`).
`LoadExecuted` and `SaveExecuted` are the two operations of the store.
`EditsStay` then follows for the store from `DiskNext`, for a document that is left
from `ReadyInv` and `SavedOnDisk`, the two ways into `begin_open_path`.

A reader that leaves is dropped by `DropClient`, which is no step of the session;
what then may get lost is the second finding. No further assumptions.

### The capability bridge (`CapabilityBridgeProofs`)

    BridgeInv == liveGeneration > 0 /\ LiveInv /\ SeenInv   (and the types)

`BridgeFaithful` compares a reading an extension remembers with what it could read
now, and is not inductive: nothing in it keeps the next snapshot from getting the
revision remembered, or the next document the generation. `LiveInv` says that a
live document is of the file the reader shows, of a generation issued, and that
every snapshot has a revision below the next one; `SeenInv` that the reading is of
a generation issued and, while that document is live, of a revision given away.
All the reader's publishing and all navigation are `Grown`: each snapshot is the
one it was or one of a revision nobody had, and the generation stays
(`ShelfGrown`). `LinksOk` counts the revisions of the pages `publish_live_links`
goes through. Assumption: `BridgeAssumption` (files have a number of pages, and
"none" is not one of them).

### The document adapter (`DocumentAdapterProofs`)

    AdapterInv == ReaderOk /\ StateOk(st) /\ EngineOk(engine, ...) /\ QueuesInv
                  /\ ReportsInv /\ DeferredInv /\ RoutedInv

`NoForeignContent` speaks of what has been sent and cached, and neither says why
the next answer is of the document. An answer in the mailbox, or held back by the
engine, may well be of an earlier document; what `EventOk` says is that it is of
the current one *if a demand still waits for it*. That is kept for two reasons.
`request` numbers only grow, so a demand made later cannot be answered by an event
that is already under way (`Follows`, `EventFollows`); and `reset_for_open` forgets
every demand, so after it the condition is empty (`EventForgotten`). That the
engine's next answer is of the document is `EngineOk`: while a generation is open
it is the document's, and of the opens under way only the one whose token is live
is (`OpeningOk`), which is why opening the next document makes the invariant true
of it without waiting for the engine. `FinishWork` then needs the comparison of
generations that the code makes in `current_session`.

Each handler is `Handled`: it has taken a message or left the mailbox alone
(`BoxTaken`), its state follows the one before, it sends what is of the document and
makes calls that are in order. `AcceptOpen` alone is not, as its state does not
follow. `RoutedInv` names the place of the one event in the mailbox, as counting
alone would not survive the removal of the head. Assumption: `AdapterAssumption`
(positive capacities, documents with at least one page).

TLC evaluates the assumptions in the runs whose modules extend these modules.

### Only model-checked

- *Liveness* (`EveryDemandSettles`, `OwnerJoins`, `SteadyDocumentsSettle`,
  `CleanupCompletes`, `SteadyClientsAnswered`, `WaitingOpenSettles`, `JobsEnd`,
  `MailboxMoves`, `WorkersFinish`): the prover has no support for fairness and
  `ENABLED`.
- `TextSound`, `PlanIsRight`: what recursive functions over a text, and folds over
  the participants, compute needs induction over data.
- `WorkspaceAgrees`, `DraftsHoldTabs`, `HostConsistent`, `LookupsConsistent`: the
  cascades behind these are recursive operators or folds over sequences.
- `OpenReportsAreOwn` does not hold (the third finding).
- `ViewIsCurrent`, `NobodyWaits`, `MailboxFaithful`: no proof has been written.

## 5. Findings

1. **Replacement domains are not independent at capacity**
   (`supervisor_domains`, `supervisor.rs:645`). `replace_class` evicts the least
   urgent entry over *all* classes and cancels the token its whole batch shares.
   The comment on `WorkClass` says that replacing one domain does not cancel
   another. Below capacity it holds.
2. **A save accepted before its client is dropped can be lost**
   (`annotations_drop`, `service.rs:585`). The actor finds the mailbox empty;
   the client saves and is dropped; `reap_detached` sees the lease and closes
   the lane; the save, ingested in the next round, is filtered out because the
   lane is closing. The comment in `AnnotationServiceClient::drop` says that the
   lease is observed after draining the commands accepted before the drop.
3. **The `Opened` of an earlier document is reported as the current one's**
   (`adapter_opened`, `backend/worker.rs:462`). The adapter publishes it with
   its own generation and path and does not compare the session of the event.
   The README says that stale successes and failures are both discarded.
4. **An upgrade can be committed before its activation is reported**
   (`wasm_commit`, `key-extension-wasm/worker.rs:449`). The worker counts a
   command out of `in_flight` under one lock and stores its result under the
   next; in between no work is pending, and `settle_package_activations` commits
   and saves the upgrade, also one whose activation failed. What usually hides
   this is the capabilities event that the activation announces: the next tick
   delivers it, and it counts as work. Activating a reader takes it back
   (`invalidate_document_scope` clears the host's queue) and schedules the loop
   that settles. In the trace the upgrade begins with work pending, the worker
   ends the call, the reader is activated, and the loop finds nothing to deliver
   and nothing pending.

## 6. Observations

Met while modelling, by counterexamples of stronger properties or by reading;
no run is kept for them, and the properties above are stated so as to allow
them.

*Scheduler, service, adapter*

- `service.rs:406`: with three lanes and a saturated one at the front, a
  document is served twice in a row while a peer waits, contrary to the comment
  above; nobody starves.
- `hibernate` refused by a full mailbox has already cancelled the engine's work;
  two quick cycles of hibernation can publish `Resumed` for a stale session.
- `supervisor.rs:458`: a `cancel` of the UI thread that registers before and is
  sent after the adapter's newer `replace` drops what was just asked for.

*Reader and adapter together* (`wk.lost`, `wk.stopped` in `ReaderView`)

- Hovering or following an internal link, and jumps along the contents, replace
  the explicit text a copy waits for without clearing `text_pending`; a copy over
  several pages then waits for ever, against the comment at `reader.rs:4308`.
  Conversely a copy takes away the text a jump waits for.
- Explicit text requested while the adapter has no session is dropped, and
  `Resumed` does not repeat it.
- Hibernation cancels a running search without `SearchFinished`; the search
  stays incomplete after the document has been resumed.
- Becoming `ForegroundVisible` drops visible text that is not due yet; if the
  demanded signature does not change it is not requested again.
- After a change of theme the image of an open link card is not requested again.
- A link card can stay open after the pointer has left it. The timer that closes
  it fires once; when that happens with the pointer on the card it does nothing
  and keeps its candidate (`reader/references.rs:924`), and leaving the card then
  starts none because the same candidate is still there
  (`references.rs:905`). `NobodyWaits` excepts this state (`rd.hover = Gone`).

*Sidecar store* (`Swaps` in `SidecarStore`)

- An identical PDF put in place of the locked one while a save is under way, or
  another one that is then edited to be identical, gives two savers two locks, and
  one update is lost (`Swaps = {"copy"}`; the second way was met in the proof of
  `StoreRefines`).
- Another PDF put in place between the last check and the rename (`json.rs:141`)
  gets its sidecar overwritten (`Swaps = {"late"}`), against the comment at
  `json.rs:184`. Both windows are a few instructions and a sync long.

*Editor*

- A paragraph that begins with the sign of a heading or a quotation is not
  escaped, and code that begins or ends with a backtick runs into its fence;
  they do not come back as written. `TextSound` says that nothing else is lost.
- `insert_newline` over a selection of several lines whose cursor is at the end
  of a heading resets the kind of an unrelated line.

*Extensions*

- A snapshot of a deferred extension is applied without looking again at its
  permissions (`host.rs:1405`); the reader's effect loop can leave (`reader.rs:3146`)
  with accepted effects of others unexecuted.
- Finding 4's window also leaves the synchronisation loop unarmed
  (`reader.rs:3004`).
- An upgrade to the content already installed that asks for permissions stores the
  extension as disabled before anything is approved (`app_extensions.rs:546`).
  The entry stays so while the new instance starts and after a rollback: it runs,
  and is not started again by the next launch.
- Disabling, or changing a permission, while an upgrade is being activated saves
  the new content's hash under the old path, and the next start refuses it
  (`app_extensions.rs:807`); a denial after a failed activation is undone by the
  rollback.
- `NavigationReceipt.viewport_revision` counts other numbers than viewport
  snapshots do; text the reader has evicted stays in the bridge until the document
  closes.
- An evicted document's running lookup inserts a file that the ledger no longer
  counts; a provider that panics leaves its lookup loading.
- `client.rs:290` of the HTTP client reads the clock before it takes the lock
  of the history, so a delayed caller's slot carries an old time.
- A refused ephemeral `put` of the extension storage removes the earlier value.

*Workspace* (separate windows exist in debug builds)

- Opening a PDF from an active settings tab, with two windows, registers its
  path to the settings view and never opens it; opening the settings from the
  window that holds the active view fails.
- Closing a window asks only the most recently built reader about its draft.
- A reader rebuilt by a transfer keeps the constructor's allocation if the
  recorded one did not change (`rebuilt` in `AllocationsArrive`).
- A split tab dropped from another window becomes active without the rest of
  the activation (`workspace_window.rs:895`).
- In saver mode on up to 8 processors background views with lower numbers take
  the worker slots and the view in use gets none; the test at
  `resources.rs:398`, "interactive participants win constrained capacity", looks
  at memory only.

## 7. Not modelled

- *PDFium, Wasmtime, GPUI*: foreign; their calls succeed, fail or are cancelled.
- *Painting, layout, input, animation, key bindings* (`key-ui-*`, `key-pdf-gpui`,
  `key-editor-gpui`, `key-extension-gpui`, most of `reader/render.rs`,
  `reader/references.rs` and `workspace_window.rs`): geometry and drawing without
  protocol. Most of the source's lines are of this kind.
- *File formats, signatures, parsers* (`key-extension-package`, scientific
  analysis, providers): pure functions of bytes.
- *Extension storage and the limits of the HTTP client*: the application does
  not use the first yet; the second is a mutex around a history and semaphores
  (the observations above come from reading it). The memory tier of the cache is
  not used.
- *Memory and network dimensions of allocations* in `Workspace`: the allocator
  treats every dimension alike.

## 8. Plan

1. Proofs: `MailboxFaithful` of the worker, `ViewIsCurrent` of the reader.
2. `DocumentAdapter` on top of `EngineSupervisor` instead of its client's view,
   which would cover the remaining hazard without a property (`supervisor.rs:458`).
3. The HTTP client's rate limit and the extension storage, once the application
   uses them.

## 9. Running

    tlc -workers 2 -config MCLibraries.cfg MCLibraries
    tlapm EngineSupervisorProofs.tla

and likewise for the other runs of `PROJECT.json`, each of which takes up to
four minutes, and the other `...Proofs` modules. The proofs about the supervisor
and the annotation service take six minutes each, those about the session five, the
others less than two.

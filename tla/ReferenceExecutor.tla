-------------------------- MODULE ReferenceExecutor --------------------------
(* The process-wide executor of link previews and scholarly lookups
   (extensions/key-reference/src/executor.rs), its two clients
   (link_preview.rs, scholarly.rs), the ephemeral document cache
   (crates/key-safe-http/src/cache.rs) and the readers that call them.

   One document scope per reader.  The user interface thread opens, closes and
   hovers; worker threads take jobs in turn from the scopes, run a provider,
   and balance the caches.  Every lock is held within one step: changing the
   generation cancels the token, then clears the queue, then purges the cache;
   a provider checks for cancellation before it inserts a file and again before
   it sends the event.  A token is cancelled exactly when its scope has moved
   on, so a job is its document, its generation and the item it looks up.
   reconcile is one step: an insertion it overlaps is followed by the inserting
   worker's own reconcile.  A file counts 1; the memory tier is not used. *)
EXTENDS Integers, Sequences, FiniteSets, SequencesExt, FiniteSetsExt

CONSTANTS
  Docs,            \* open readers
  Webs, Papers,    \* links and references
  Workers,
  QueueCapacity,   \* queue_capacity
  FileLimit,       \* cache_file_bytes
  Plans            \* what readers and providers do: see plan

VARIABLES
  plan,     \* of this behaviour: how many documents each reader opens, what
            \* they mention, whether readers close, what providers answer
  reader,   \* per reader: generation, whether the document is open, its sessions
  scope,    \* GenerationState::generation of each scope, 0 for none
  fair,     \* FairQueue
  ledger,   \* CacheLedger::records, least recently touched first
  files,    \* the cache of each document and generation: items with a file
  crew,     \* worker threads
  turn,       \* the rest of begin_generation or cancel_and_purge
  inbox,    \* events of each reader
  passed,   \* jobs taken from other scopes while this one was ready
  lost      \* lookups whose provider panicked

execVars == <<plan, reader, scope, fair, ledger, files, crew, turn, inbox, passed, lost>>

Items == Webs \cup Papers

NoLookup == [doc |-> "none", gen |-> 0, item |-> "none"]

IdleWorker == [pc |-> "take", job |-> NoLookup, result |-> "none"]

Untouched == [i \in Items |-> [state |-> "none", gen |-> 0]]

IsCancelled(j) == scope[j.doc] # j.gen

Awaits == {d \in Docs : fair.jobs[d] # <<>>}

\* Who keeps the cache of document d and generation g
CacheAlive(d, g) ==
  \/ reader[d].cache = g
  \/ \E j \in ToSet(fair.jobs[d]) \cup {crew[w].job : w \in Workers} :
       j.doc = d /\ j.gen = g /\ j.item \in Webs

\* Files of a cache that has not been dropped
FilesOf(d, g) == IF g > 0 /\ CacheAlive(d, g) THEN files[d][g] ELSE {}

-----------------------------------------------------------------------------
(* FairQueue, under its lock *)

\* submit is refused when the queue is closed or full
HasRoom(q) == ~q.closed /\ q.queued < QueueCapacity

\* submit
Submitted(q, j) ==
  [q EXCEPT !.jobs[j.doc] = Append(@, j),
            !.ready = IF q.jobs[j.doc] = <<>> THEN Append(@, j.doc) ELSE @,
            !.queued = @ + 1]

\* take, of a scope that is ready
Taken(q) ==
  LET d == Head(q.ready)
  IN [q EXCEPT !.jobs[d] = Tail(@),
               !.ready = IF Len(q.jobs[d]) > 1 THEN Append(Tail(@), d) ELSE Tail(@),
               !.queued = @ - 1]

\* cancel_scope
WithoutScope(q, d) ==
  [q EXCEPT !.jobs[d] = <<>>, !.ready = SelectSeq(@, LAMBDA e : e # d),
            !.queued = @ - Len(q.jobs[d])]

\* close
ClosedQueue(q) ==
  [jobs |-> [d \in Docs |-> <<>>], ready |-> <<>>, queued |-> 0, closed |-> TRUE]

-----------------------------------------------------------------------------
(* CacheLedger *)

Unlisted(l, d) == SelectSeq(l, LAMBDA r : r.doc # d)

Listed(l, d) == {r.gen : r \in {x \in ToSet(l) : x.doc = d}}

\* Mutant: the cache of the job's own scope is never given up
MutReconciled(d) ==
  LET live == SelectSeq(ledger, LAMBDA r : CacheAlive(r.doc, r.gen))
      mine == SelectSeq(live, LAMBDA r : r.doc = d)
      rest == Unlisted(live, d)
      Size(s) == FoldSeq(LAMBDA r, n : n + Cardinality(files[r.doc][r.gen]), 0, s)
      cut  == Min({k \in 0 .. Len(rest) : k = Len(rest)
                     \/ Size(SubSeq(rest, k + 1, Len(rest)) \o mine) <= FileLimit})
  IN [kept |-> SubSeq(rest, cut + 1, Len(rest)) \o mine, gone |-> ToSet(SubSeq(rest, 1, cut))]

\* reconcile(Some(d)): forget dropped caches, touch the record of d, and purge
\* the least recently touched until the rest fits
Reconciled(d) ==
  LET live == SelectSeq(ledger, LAMBDA r : CacheAlive(r.doc, r.gen))
      mine == SelectSeq(live, LAMBDA r : r.doc = d)
      all  == Unlisted(live, d) \o mine
      Size(s) == FoldSeq(LAMBDA r, n : n + Cardinality(files[r.doc][r.gen]), 0, s)
      cut  == Min({k \in 0 .. Len(all) : Size(SubSeq(all, k + 1, Len(all))) <= FileLimit})
  IN [kept |-> SubSeq(all, cut + 1, Len(all)), gone |-> ToSet(SubSeq(all, 1, cut))]

-----------------------------------------------------------------------------
(* The user interface thread *)

\* begin_open_path: a new generation; the sessions of the old one are dropped.
\* The scope is told first, in begin_generation up to its unlock.
BeginDocument(d) ==
  /\ turn.at = "free" /\ ~reader[d].closed /\ reader[d].gen < plan.opens[d]
  /\ reader' = [reader EXCEPT ![d] =
       [@ EXCEPT !.gen = @ + 1, !.open = FALSE, !.cache = 0, !.session = Untouched]]
  /\ scope' = [scope EXCEPT ![d] = reader[d].gen + 1]
  /\ turn' = [at |-> "queue", doc |-> d]
  /\ UNCHANGED <<fair, ledger, files, crew, inbox, passed, lost>>

\* The last handle of the scope is dropped with its reader: cancel_and_purge
CloseReader(d) ==
  /\ plan.closes /\ turn.at = "free" /\ ~reader[d].closed
  /\ reader' = [reader EXCEPT ![d] =
       [@ EXCEPT !.closed = TRUE, !.open = FALSE, !.cache = 0, !.session = Untouched]]
  /\ scope' = [scope EXCEPT ![d] = 0]
  /\ turn' = [at |-> "queue", doc |-> d]
  /\ UNCHANGED <<fair, ledger, files, crew, inbox, passed, lost>>

CancelScope ==
  /\ turn.at = "queue"
  /\ fair' = WithoutScope(fair, turn.doc)
  /\ turn' = [turn EXCEPT !.at = "purge"]
  /\ passed' = [passed EXCEPT ![turn.doc] = 0]
  /\ UNCHANGED <<reader, scope, ledger, files, crew, inbox, lost>>

PurgeScope ==
  /\ turn.at = "purge"
  /\ ledger' = Unlisted(ledger, turn.doc)
  /\ files' = [g \in Docs |->
       [n \in DOMAIN files[g] |->
          IF g = turn.doc /\ n \in Listed(ledger, g) THEN {} ELSE files[g][n]]]
  /\ turn' = [turn EXCEPT !.at = "free"]
  /\ UNCHANGED <<reader, scope, fair, crew, inbox, passed, lost>>

\* The Opened event of the reader's document makes a preview session, unless
\* its directory cannot be created
DocumentOpened(d) ==
  /\ turn.at = "free" /\ ~reader[d].closed /\ reader[d].gen > 0 /\ ~reader[d].open
  /\ \E made \in BOOLEAN :
       reader' = [reader EXCEPT ![d] =
         [@ EXCEPT !.open = TRUE, !.cache = IF made THEN reader[d].gen ELSE 0]]
  /\ UNCHANGED <<scope, fair, ledger, files, crew, turn, inbox, passed, lost>>

\* request_website and ScholarlySession::request: once per session; a preview
\* registers the session's cache first, and only a reference remembers that the
\* queue refused it
RequestItem(d, item) ==
  /\ turn.at = "free" /\ reader[d].open /\ item \in plan.mentions[d]
  /\ reader[d].session[item].state = "none"
  /\ item \in Webs => reader[d].cache > 0
  /\ scope[d] = reader[d].gen
  /\ LET job == [doc |-> d, gen |-> reader[d].gen, item |-> item]
         accepted == HasRoom(fair)
         state == IF accepted THEN "loading" ELSE IF item \in Papers THEN "failed" ELSE "none"
         old   == Listed(ledger, d) \ {reader[d].cache}
     IN /\ fair' = IF accepted THEN Submitted(fair, job) ELSE fair
        /\ reader' = [reader EXCEPT ![d].session[item] =
             [state |-> state, gen |-> reader[d].gen]]
        /\ IF item \in Webs
           THEN /\ ledger' = Append(Unlisted(ledger, d), [doc |-> d, gen |-> reader[d].cache])
                /\ files' = [files EXCEPT ![d] =
                     [n \in DOMAIN @ |-> IF n \in old THEN {} ELSE @[n]]]
           ELSE UNCHANGED <<ledger, files>>
  /\ UNCHANGED <<scope, crew, turn, inbox, passed, lost>>

\* The listeners and apply: an event of another generation, or without a
\* session, is dropped
Applied(r, e) ==
  IF e.gen = r.gen /\ ~r.closed /\ (e.item \in Webs => r.cache > 0)
  THEN [r EXCEPT !.session[e.item] = [state |-> e.result, gen |-> e.gen]] ELSE r

ReceiveEvent(d) ==
  /\ turn.at = "free" /\ inbox[d] # <<>>
  /\ reader' = [reader EXCEPT ![d] = Applied(@, Head(inbox[d]))]
  /\ inbox' = [inbox EXCEPT ![d] = Tail(@)]
  /\ UNCHANGED <<scope, fair, ledger, files, crew, turn, passed, lost>>

\* Drop of ExecutorInner: the last scope and the last handle are gone.  (The
\* application uses the global executor, whose last handle is never dropped.)
DropExecutor ==
  /\ turn.at = "free" /\ ~fair.closed /\ \A d \in Docs : reader[d].closed
  /\ fair' = ClosedQueue(fair)
  /\ UNCHANGED <<reader, scope, ledger, files, crew, turn, inbox, passed, lost>>

-----------------------------------------------------------------------------
(* worker_loop *)

\* The task does nothing if its token is cancelled
Executed(j) ==
  IF IsCancelled(j) THEN [pc |-> "balance", job |-> [j EXCEPT !.item = "none"], result |-> "none"]
  ELSE [pc |-> "fetch", job |-> j, result |-> "none"]

\* take ends when the queue is closed
Ends == fair.ready = <<>> /\ fair.closed

\* take waits for a job; the task's first look at its token is part of the step
TakeJob(w) ==
  /\ crew[w].pc = "take"
  /\ \/ /\ fair.ready # <<>>
        /\ crew' = [crew EXCEPT ![w] = Executed(Head(fair.jobs[Head(fair.ready)]))]
        /\ fair' = Taken(fair)
        /\ passed' = [d \in Docs |->
             IF d = Head(fair.ready) \/ d \notin Awaits THEN 0 ELSE passed[d] + 1]
     \/ /\ Ends
        /\ crew' = [crew EXCEPT ![w].pc = "ended"]
        /\ UNCHANGED <<fair, passed>>
  /\ UNCHANGED <<reader, scope, ledger, files, turn, inbox, lost>>

\* The task and what it holds are dropped before the caches are balanced
Step(w, pc, result) ==
  crew' = [crew EXCEPT ![w] =
    [@ EXCEPT !.pc = pc, !.result = result,
              !.job = IF pc = "balance" THEN [@ EXCEPT !.item = "none"] ELSE @]]

\* The provider: it fails, answers without an image, comes to insert_file (which
\* checks the token before it takes the lock; without the image the answer is good
\* all the same), or panics
FetchItem(w) ==
  LET j == crew[w].job
  IN /\ crew[w].pc = "fetch"
     /\ \/ \E r \in {"failed", "ready"} \cap plan.answers :
             Step(w, "publish", r) /\ UNCHANGED lost
        \/ /\ "image" \in plan.answers /\ j.item \in Webs
           /\ IF IsCancelled(j) THEN Step(w, "publish", "ready")
                               ELSE Step(w, "insert", "none")
           /\ UNCHANGED lost
        \/ /\ "panic" \in plan.answers
           /\ Step(w, "balance", "none") /\ lost' = lost \cup {j}
     /\ UNCHANGED <<reader, scope, fair, ledger, files, turn, inbox, passed>>

\* replace_entry under the lock of the cache (its own quota is never reached)
InsertFile(w) ==
  LET j == crew[w].job
  IN /\ crew[w].pc = "insert"
     /\ files' = [files EXCEPT ![j.doc][j.gen] = @ \cup {j.item}]
     /\ Step(w, "lookup", "none")
     /\ UNCHANGED <<reader, scope, fair, ledger, turn, inbox, passed, lost>>

\* The path of the file is looked up again: if it was purged meanwhile the
\* preview is ready without its image
LookupFile(w) ==
  LET j == crew[w].job
  IN /\ crew[w].pc = "lookup"
     /\ Step(w, "publish", IF j.item \in files[j.doc][j.gen] THEN "pictured" ELSE "ready")
     /\ UNCHANGED <<reader, scope, fair, ledger, files, turn, inbox, passed, lost>>

\* Mutant: failures are not told
MutToPublish(w) ==
  IF IsCancelled(crew[w].job) \/ crew[w].result = "failed" THEN "balance" ELSE "send"

\* The second check of the token
ToPublish(w) == IF IsCancelled(crew[w].job) THEN "balance" ELSE "send"

CheckPublish(w) ==
  /\ crew[w].pc = "publish"
  /\ Step(w, ToPublish(w), crew[w].result)
  /\ UNCHANGED <<reader, scope, fair, ledger, files, turn, inbox, passed, lost>>

SendItem(w) ==
  LET j == crew[w].job
  IN /\ crew[w].pc = "send"
     /\ inbox' = IF reader[j.doc].closed THEN inbox
                 ELSE [inbox EXCEPT ![j.doc] = Append(@,
                        [gen |-> j.gen, item |-> j.item, result |-> crew[w].result])]
     /\ Step(w, "balance", "none")
     /\ UNCHANGED <<reader, scope, fair, ledger, files, turn, passed, lost>>

\* cache.reconcile(Some(scope))
Balance(w) ==
  /\ crew[w].pc = "balance"
  /\ crew' = [crew EXCEPT ![w] = IdleWorker]
  /\ LET r == Reconciled(crew[w].job.doc)
     IN /\ ledger' = r.kept
        /\ files' = [d \in Docs |-> [n \in DOMAIN files[d] |->
             IF [doc |-> d, gen |-> n] \in r.gone THEN {} ELSE files[d][n]]]
  /\ UNCHANGED <<reader, scope, fair, turn, inbox, passed, lost>>

-----------------------------------------------------------------------------

ExecInit ==
  /\ plan \in Plans
  /\ reader = [d \in Docs |-> [gen |-> 0, open |-> FALSE, closed |-> FALSE,
                               cache |-> 0, session |-> Untouched]]
  /\ scope = [d \in Docs |-> 0]
  /\ fair = [jobs |-> [d \in Docs |-> <<>>], ready |-> <<>>, queued |-> 0, closed |-> FALSE]
  /\ ledger = <<>>
  /\ files = [d \in Docs |-> [g \in 1 .. plan.opens[d] |-> {}]]
  /\ crew = [w \in Workers |-> IdleWorker]
  /\ turn = [at |-> "free", doc |-> "none"]
  /\ inbox = [d \in Docs |-> <<>>]
  /\ passed = [d \in Docs |-> 0]
  /\ lost = {}

WorkerSteps(w) ==
  \/ TakeJob(w) \/ FetchItem(w) \/ InsertFile(w) \/ LookupFile(w)
  \/ CheckPublish(w) \/ SendItem(w) \/ Balance(w)

UiSteps == CancelScope \/ PurgeScope \/ \E d \in Docs : ReceiveEvent(d)

ExecNext ==
  /\ \/ \E w \in Workers : WorkerSteps(w)
     \/ UiSteps
     \/ \E d \in Docs : BeginDocument(d) \/ CloseReader(d) \/ DocumentOpened(d)
     \/ \E d \in Docs, item \in Items : RequestItem(d, item)
     \/ DropExecutor
  /\ UNCHANGED plan

ExecSpec == ExecInit /\ [][ExecNext]_execVars

\* Some thread that can run does, and a provider returns (its connection has
\* timeouts)
Machine == (UiSteps \/ \E w \in Workers : WorkerSteps(w)) /\ UNCHANGED plan

ExecFairSpec == ExecSpec /\ WF_execVars(Machine)

-----------------------------------------------------------------------------
(* Properties *)

\* The queue is bounded, and every scope has at most one record in the ledger.
ExecTypeOK ==
  /\ \A d \in Docs :
       /\ reader[d].gen \in 0 .. plan.opens[d] /\ reader[d].cache \in {0, reader[d].gen}
       /\ \A i \in Items : reader[d].session[i].state
            \in {"none", "loading", "ready", "failed"}
                 \cup (IF i \in Webs THEN {"pictured"} ELSE {})
       /\ Len(SelectSeq(ledger, LAMBDA r : r.doc = d)) <= 1
  /\ fair.queued \in 0 .. QueueCapacity
  /\ \A w \in Workers : crew[w].pc \in {"take", "fetch", "insert", "lookup",
                                        "publish", "send", "balance", "ended"}
  /\ turn.at \in {"free", "queue", "purge"}

\* The three parts of the queue agree whatever cancellations and workers do to
\* it: the count is that of the jobs, every scope with jobs is ready exactly
\* once (take panics on a ready scope without a queue), and once the user
\* interface thread is done with a cancellation no cancelled job is queued.
QueueIsExact ==
  /\ fair.queued = FoldFunctionOnSet(+, 0, [d \in Docs |-> Len(fair.jobs[d])], Docs)
  /\ ToSet(fair.ready) = Awaits /\ Len(fair.ready) = Cardinality(Awaits)
  /\ \A d \in Docs : turn # [at |-> "queue", doc |-> d] =>
       \A i \in DOMAIN fair.jobs[d] : fair.jobs[d][i].gen = scope[d]

\* "Jobs are dispatched round-robin by document scope": while a document has a
\* job waiting, no other document is served twice.
DocumentsTakeTurns == \A d \in Docs : passed[d] < Cardinality(Docs)

\* What a session shows was looked up for its own document, although the events
\* of an earlier one can be sent after it was cancelled.
NoForeignPreview ==
  \A d \in Docs, i \in Items :
    reader[d].session[i].state # "none" => reader[d].session[i].gen = reader[d].gen

ListedFiles == FoldSeq(LAMBDA r, n : n + Cardinality(FilesOf(r.doc, r.gen)), 0, ledger)

CrewBusy == {w \in Workers : crew[w].pc \notin {"take", "ended"}}

\* The caches the ledger knows fit its limit when the workers are idle, whatever
\* was registered, purged or dropped while they ran.
ListedFit == CrewBusy = {} /\ Awaits = {} => ListedFiles <= FileLimit

\* Lookups end, with the provider's answer or with their document: again and
\* again nothing is loading, but for a lookup whose provider panicked (the worker
\* survives, but nobody is told).
LookupsEnd ==
  []<>(\A d \in Docs, i \in Items :
         reader[d].session[i].state = "loading"
           => [doc |-> d, gen |-> reader[d].gen, item |-> i] \in lost)

\* Dropping the executor, which is final, ends its workers, also those inside a
\* provider.
CrewEnds == []<>(fair.closed => \A w \in Workers : crew[w].pc = "ended")

\* Queue, ledger and sessions agree, and documents share the workers in turn.
LookupsConsistent ==
  ExecTypeOK /\ QueueIsExact /\ DocumentsTakeTurns /\ NoForeignPreview /\ ListedFit

\* The worker threads get everything done, and end when they are told to.
WorkersFinish == LookupsEnd /\ CrewEnds
=============================================================================

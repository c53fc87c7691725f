-------------------------- MODULE EngineSupervisor --------------------------
(***************************************************************************)
(* key_pdf_runtime::supervisor (crates/key-pdf-runtime/src/supervisor.rs):  *)
(* one owner thread runs the PDF engine for every open document.            *)
(*                                                                         *)
(*   client threads --commands (FIFO)--> owner --route (bounded)--> client   *)
(*                                                                         *)
(* A DocumentClient call has two steps: under the client's mutex it cancels *)
(* and registers cancellation tokens, then, with the mutex released, it     *)
(* sends its command.  The owner drains commands, flushes pending events,   *)
(* picks one piece of work and calls the engine; the tokens can be          *)
(* cancelled by a client at any moment, also during the engine call.        *)
(*                                                                         *)
(* Tokens and generations are numbered per document.  A token is shared by  *)
(* every piece of work of the call that registered it.                      *)
(***************************************************************************)
EXTENDS Integers, Sequences, FiniteSets

CONSTANTS
  Doc,           \* SupervisorDocumentId
  Thread,        \* the threads that hold clones of a document's client
  Class,         \* WorkClass
  Batch,         \* the work lists replace may be called with: sequences of
                 \*   [page, priority]
  Interactive,   \* DemandPriority::INTERACTIVE, the priority of an open
  Uses,          \* Uses[t]: the calls thread t makes, of Operation
  Leaving,       \* the documents whose client or receiver may go away
  Steady,        \* the documents whose receiver keeps reading its route
  MaxPending,    \* policy.max_pending_per_document
  RouteCapacity, \* policy.event_channel_capacity
  MaxCalls       \* bound: client calls per document

Operation == {"open", "close", "replace", "cancel"}

ASSUME PolicyAssumption ==   \* SupervisorPolicy::new
  MaxPending \in Nat \ {0} /\ RouteCapacity \in Nat \ {0}
ASSUME BoundAssumption == MaxCalls \in Nat
ASSUME DocAssumption == IsFiniteSet(Doc)
ASSUME UsesAssumption ==
  Uses \in [Thread -> SUBSET Operation] /\ Leaving \subseteq Doc /\ Steady \subseteq Doc

VARIABLES
  \* The clients.
  client,        \* client[d]: "unattached", "live", "dropping", "dropped"
  openToken,     \* ClientCancellations.open, 0 for None
  classToken,    \* ClientCancellations.classes: classToken[d][c], 0 for none
  call,          \* call[d][t]: the command a thread is about to send, or Idle
  calls,         \* calls[d]: calls made so far; the last token registered
  session,       \* session[d]: generation of the last Opened received, or 0
  told,          \* history, told[d]: the last change of document the client
                 \*   received: the generation opened, or 0
  handle,        \* "held", "released", "shutdown": the EngineSupervisor handle
  \* Shared between threads.
  cancelled,     \* cancelled[d]: the cancelled tokens
  commands,      \* the mpsc channel to the owner
  route,         \* route[d]: events sent and not received
  listening,     \* listening[d]: the receiver of the route exists
  \* The owner thread.
  pc,            \* what the owner does next
  documents,     \* the keys of the documents map
  rotation,      \* rotation: VecDeque<SupervisorDocumentId>
  active,        \* sessions.current(): generation, 0 for none
  nextGeneration,
  opened,        \* opened[d]: document, handle and descriptor are Some
  pending,       \* pending[d]: set of PendingWork, one per key
  nextSequence,
  pendingEvents, \* pending_events
  flushing,      \* the documents flush_pending_events has not finished
  job,           \* the batch being inserted or the work being executed
  \* History.
  overtaken      \* overtaken[d]: work run for others since d has had work
                 \*   to run that is as urgent as theirs

clientVars == <<client, openToken, classToken, call, calls, session, told, handle>>
sharedVars == <<cancelled, commands, route, listening>>
docVars == <<documents, rotation, active, nextGeneration, opened, pending,
             nextSequence, pendingEvents>>
ownerVars == <<pc, docVars, flushing, job, overtaken>>
vars == <<clientVars, sharedVars, ownerVars>>

Idle == [op |-> "idle"]
NoJob == [doc |-> "none"]
NoClass == "none"
OpenKey == <<NoClass, 0>>

ASSUME WorkAssumption ==   \* DemandPriority::INTERACTIVE is the greatest priority
  /\ NoClass \notin Class
  /\ Interactive \in Nat
  /\ \A work \in Batch : work \in Seq([page : Nat, priority : 0..Interactive])

Event(kind, gen, token) == [kind |-> kind, gen |-> gen, token |-> token]
\* Events about the work of a generation, and events that change it.
Results == {"ready", "failed", "nodocument", "cancelled"}
Changes == {"opened", "openfailed", "opencancelled", "closed"}
Announced(event) == IF event.kind = "opened" THEN event.gen ELSE 0

Init ==
  /\ client = [d \in Doc |-> "unattached"]
  /\ openToken = [d \in Doc |-> 0]
  /\ classToken = [d \in Doc |-> [c \in Class |-> 0]]
  /\ call = [d \in Doc |-> [t \in Thread |-> Idle]]
  /\ calls = [d \in Doc |-> 0]
  /\ session = [d \in Doc |-> 0]
  /\ told = [d \in Doc |-> 0]
  /\ handle = "held"
  /\ cancelled = [d \in Doc |-> {}]
  /\ commands = <<>>
  /\ route = [d \in Doc |-> <<>>]
  /\ listening = [d \in Doc |-> TRUE]
  /\ pc = "drain"
  /\ documents = {}
  /\ rotation = <<>>
  /\ active = [d \in Doc |-> 0]
  /\ nextGeneration = [d \in Doc |-> 1]
  /\ opened = [d \in Doc |-> FALSE]
  /\ pending = [d \in Doc |-> {}]
  /\ nextSequence = [d \in Doc |-> 1]
  /\ pendingEvents = [d \in Doc |-> <<>>]
  /\ flushing = {}
  /\ job = NoJob
  /\ overtaken = [d \in Doc |-> 0]

-----------------------------------------------------------------------------
(* The client side *)

Send(command) == commands' = Append(commands, command)

\* attach_routed
Attach(d) ==
  /\ handle = "held"
  /\ client[d] = "unattached"
  /\ client' = [client EXCEPT ![d] = "live"]
  /\ Send([op |-> "attach", doc |-> d])
  /\ UNCHANGED <<openToken, classToken, call, calls, session, told, handle,
                 cancelled, route, listening, ownerVars>>

\* ClientCancellations::cancel_all: the tokens it cancels.
Registered(d) == ({openToken[d]} \cup {classToken[d][c] : c \in Class}) \ {0}

\* A thread enters a call; under the mutex it numbers and registers a token.
Enter(d, t, op, command) ==
  /\ client[d] = "live"
  /\ op \in Uses[t]
  /\ call[d][t] = Idle
  /\ calls[d] < MaxCalls
  /\ calls' = [calls EXCEPT ![d] = @ + 1]
  /\ call' = [call EXCEPT ![d][t] = command]
  /\ UNCHANGED <<client, session, told, handle, commands, route, listening, ownerVars>>

\* DocumentClient::open, up to the send
EnterOpen(d, t) ==
  LET token == calls[d] + 1 IN
  /\ Enter(d, t, "open", [op |-> "open", doc |-> d, token |-> token])
  /\ cancelled' = [cancelled EXCEPT ![d] = @ \cup Registered(d)]
  /\ openToken' = [openToken EXCEPT ![d] = token]
  /\ classToken' = [classToken EXCEPT ![d] = [c \in Class |-> 0]]

\* DocumentClient::close, up to the send
EnterClose(d, t) ==
  /\ Enter(d, t, "close", [op |-> "close", doc |-> d])
  /\ cancelled' = [cancelled EXCEPT ![d] = @ \cup Registered(d)]
  /\ openToken' = [openToken EXCEPT ![d] = 0]
  /\ classToken' = [classToken EXCEPT ![d] = [c \in Class |-> 0]]

\* DocumentClient::replace, up to the send.  The demands carry the generation
\* of the session the client last received.
EnterReplace(d, t, c, work) ==
  LET token == calls[d] + 1 IN
  /\ session[d] # 0
  /\ Enter(d, t, "replace", [op |-> "replace", doc |-> d, class |-> c,
                             work |-> work, token |-> token, gen |-> session[d]])
  /\ cancelled' = [cancelled EXCEPT ![d] = @ \cup ({classToken[d][c]} \ {0})]
  /\ classToken' = [classToken EXCEPT ![d][c] = token]
  /\ UNCHANGED openToken

\* DocumentClient::cancel, up to the send
EnterCancel(d, t, c) ==
  /\ Enter(d, t, "cancel", [op |-> "cancel", doc |-> d, class |-> c])
  /\ cancelled' = [cancelled EXCEPT ![d] = @ \cup ({classToken[d][c]} \ {0})]
  /\ classToken' = [classToken EXCEPT ![d][c] = 0]
  /\ UNCHANGED openToken

\* DocumentClient::send
SendCall(d, t) ==
  /\ call[d][t] # Idle
  /\ Send(call[d][t])
  /\ call' = [call EXCEPT ![d][t] = Idle]
  /\ UNCHANGED <<client, openToken, classToken, calls, session, told, handle,
                 cancelled, route, listening, ownerVars>>

\* DocumentClientInner::drop, when the last clone goes: no call is in progress.
DropClient(d) ==
  /\ d \in Leaving
  /\ client[d] = "live"
  /\ \A t \in Thread : call[d][t] = Idle
  /\ client' = [client EXCEPT ![d] = "dropping"]
  /\ cancelled' = [cancelled EXCEPT ![d] = @ \cup Registered(d)]
  /\ openToken' = [openToken EXCEPT ![d] = 0]
  /\ classToken' = [classToken EXCEPT ![d] = [c \in Class |-> 0]]
  /\ UNCHANGED <<call, calls, session, told, handle, commands, route, listening, ownerVars>>

SendDetach(d) ==
  /\ client[d] = "dropping"
  /\ client' = [client EXCEPT ![d] = "dropped"]
  /\ Send([op |-> "detach", doc |-> d])
  /\ UNCHANGED <<openToken, classToken, call, calls, session, told, handle,
                 cancelled, route, listening, ownerVars>>

\* The receiver of a route takes an event; Opened hands it the session.
Receive(d) ==
  /\ listening[d]
  /\ route[d] # <<>>
  /\ route' = [route EXCEPT ![d] = Tail(@)]
  /\ session' = [session EXCEPT ![d] = IF Head(route[d]).kind = "opened"
                                       THEN Head(route[d]).gen ELSE @]
  /\ told' = [told EXCEPT ![d] = IF Head(route[d]).kind \in Changes
                                 THEN Announced(Head(route[d])) ELSE @]
  /\ UNCHANGED <<client, openToken, classToken, call, calls, handle,
                 cancelled, commands, listening, ownerVars>>

StopListening(d) ==
  /\ d \in Leaving
  /\ client[d] # "unattached"
  /\ listening[d]
  /\ listening' = [listening EXCEPT ![d] = FALSE]
  /\ route' = [route EXCEPT ![d] = <<>>]
  /\ UNCHANGED <<clientVars, cancelled, commands, ownerVars>>

DropHandle ==
  /\ handle = "held"
  /\ handle' = "released"
  /\ UNCHANGED <<client, openToken, classToken, call, calls, session, told,
                 sharedVars, ownerVars>>

MutForgetShutdown ==
  /\ handle = "released"
  /\ \A d \in Doc : client[d] \in {"unattached", "dropped"}
  /\ handle' = "shutdown"
  /\ UNCHANGED <<client, openToken, classToken, call, calls, session, told,
                 sharedVars, ownerVars>>

\* SupervisorInner::drop: the last handle or client has gone.
SendShutdown ==
  /\ handle = "released"
  /\ \A d \in Doc : client[d] \in {"unattached", "dropped"}
  /\ handle' = "shutdown"
  /\ Send([op |-> "shutdown"])
  /\ UNCHANGED <<client, openToken, classToken, call, calls, session, told,
                 cancelled, route, listening, ownerVars>>

-----------------------------------------------------------------------------
(* The owner: accept_command, from drain_commands or from the idle recv *)

Accept(op) ==
  /\ pc \in {"drain", "idle"}
  /\ commands # <<>>
  /\ Head(commands).op = op
  /\ commands' = Tail(commands)
  /\ UNCHANGED <<clientVars, route, listening, flushing, overtaken>>

Tokens(S) == {w.token : w \in S}
OfClass(d, c) == {w \in pending[d] : w.key[1] = c}
Push(d, event) == pendingEvents' = [pendingEvents EXCEPT ![d] = Append(@, event)]

\* ManagedDocument::cancel_and_clear, leaving the set S of work pending.
CancelAndClear(d, S) ==
  /\ active' = [active EXCEPT ![d] = 0]
  /\ pending' = [pending EXCEPT ![d] = S]
  /\ cancelled' = [cancelled EXCEPT ![d] = @ \cup Tokens(pending[d])]
  /\ opened' = [opened EXCEPT ![d] = FALSE]

\* rotation.retain: the other entries, in their order.  A document is in the
\* rotation at most once (RotationComplete).
Retained(s, d) ==
  LET at == {i \in DOMAIN s : s[i] = d}
      n  == CHOOSE i \in at : TRUE
  IN IF at = {} THEN s ELSE SubSeq(s, 1, n - 1) \o SubSeq(s, n + 1, Len(s))

\* documents.remove(id), with ManagedDocument::drop, and rotation.retain
RemoveDocument(d) ==
  /\ documents' = documents \ {d}
  /\ rotation' = Retained(rotation, d)
  /\ CancelAndClear(d, {})
  /\ pendingEvents' = [pendingEvents EXCEPT ![d] = <<>>]
  /\ UNCHANGED <<nextGeneration, nextSequence>>

AcceptAttach ==
  LET d == Head(commands).doc IN
  /\ Accept("attach")
  /\ documents' = documents \cup {d}
  /\ rotation' = Append(rotation, d)
  /\ Push(d, Event("attached", 0, 0))
  /\ pc' = "drain"
  /\ UNCHANGED <<cancelled, active, nextGeneration, opened, pending, nextSequence, job>>

AcceptOpen ==
  LET d == Head(commands).doc IN
  /\ Accept("open")
  /\ IF d \in documents
       THEN /\ CancelAndClear(d, {[key |-> OpenKey, sequence |-> nextSequence[d],
                                   priority |-> Interactive,
                                   token |-> Head(commands).token, gen |-> 0]})
            /\ nextSequence' = [nextSequence EXCEPT ![d] = @ + 1]
       ELSE UNCHANGED <<cancelled, active, opened, pending, nextSequence>>
  /\ pc' = "drain"
  /\ UNCHANGED <<documents, rotation, nextGeneration, pendingEvents, job>>

AcceptClose ==
  LET d == Head(commands).doc IN
  /\ Accept("close")
  /\ IF d \in documents
       THEN CancelAndClear(d, {}) /\ Push(d, Event("closed", active[d], 0))
       ELSE UNCHANGED <<cancelled, active, opened, pending, pendingEvents>>
  /\ pc' = "drain"
  /\ UNCHANGED <<documents, rotation, nextGeneration, nextSequence, job>>

\* Replace: replace_class first drops and cancels the class's pending work.
AcceptReplace ==
  LET command == Head(commands)
      d == command.doc
      old == OfClass(d, command.class)
  IN
  /\ Accept("replace")
  /\ IF d \in documents
       THEN /\ pending' = [pending EXCEPT ![d] = @ \ old]
            /\ cancelled' = [cancelled EXCEPT ![d] = @ \cup Tokens(old)]
            /\ job' = [doc |-> d, class |-> command.class, work |-> command.work,
                       token |-> command.token, gen |-> command.gen, rejected |-> 0]
            /\ pc' = "insert"
       ELSE /\ pc' = "drain"
            /\ UNCHANGED <<pending, cancelled, job>>
  /\ UNCHANGED <<documents, rotation, active, nextGeneration, opened,
                 nextSequence, pendingEvents>>

Least(S) == {w \in S : \A v \in S : \/ w.priority < v.priority
                                    \/ w.priority = v.priority /\ w.sequence <= v.sequence}
Greatest(S) == {w \in S : \A v \in S : \/ v.priority < w.priority
                                       \/ v.priority = w.priority /\ v.sequence <= w.sequence}

\* Over capacity the least (priority, sequence) goes, an open excepted.  One
\* removal is enough: before the insertion the map is within its capacity.
MutEvictGreatest(S) ==
  IF Cardinality(S) > MaxPending THEN Greatest({w \in S : w.key # OpenKey}) ELSE {}
Evicted(S) ==
  IF Cardinality(S) > MaxPending
    THEN Least({w \in S : w.key # OpenKey}) ELSE {}

\* replace_class, one turn of its loop
InsertWork ==
  /\ pc = "insert"
  /\ job.work # <<>>
  /\ LET d == job.doc
         w == Head(job.work)
         new == [key |-> <<job.class, w.page>>, sequence |-> nextSequence[d],
                 priority |-> w.priority, token |-> job.token, gen |-> job.gen]
         previous == {v \in pending[d] : v.key = new.key}
         grown == (pending[d] \ previous) \cup {new}
         lost == Evicted(grown)
     IN /\ pending' = [pending EXCEPT ![d] = grown \ lost]
        /\ cancelled' = [cancelled EXCEPT ![d] = @ \cup Tokens(previous \cup lost)]
        /\ nextSequence' = [nextSequence EXCEPT ![d] = @ + 1]
        /\ job' = [job EXCEPT !.work = Tail(@),
                              !.rejected = @ + Cardinality(lost)]
  /\ UNCHANGED <<clientVars, commands, route, listening, pc, documents, rotation,
                 active, nextGeneration, opened, pendingEvents, flushing, overtaken>>

\* Replace: the count of evicted work becomes a WorkRejected event.
InsertDone ==
  /\ pc = "insert"
  /\ job.work = <<>>
  /\ IF job.rejected > 0
       THEN Push(job.doc, Event("rejected", 0, job.token))
       ELSE UNCHANGED pendingEvents
  /\ pc' = "drain"
  /\ job' = NoJob
  /\ UNCHANGED <<clientVars, sharedVars, documents, rotation, active,
                 nextGeneration, opened, pending, nextSequence, flushing, overtaken>>

AcceptCancelClass ==
  LET d == Head(commands).doc
      old == OfClass(d, Head(commands).class)
  IN
  /\ Accept("cancel")
  /\ IF d \in documents
       THEN /\ pending' = [pending EXCEPT ![d] = @ \ old]
            /\ cancelled' = [cancelled EXCEPT ![d] = @ \cup Tokens(old)]
       ELSE UNCHANGED <<pending, cancelled>>
  /\ pc' = "drain"
  /\ UNCHANGED <<documents, rotation, active, nextGeneration, opened,
                 nextSequence, pendingEvents, job>>

AcceptDetach ==
  /\ Accept("detach")
  /\ RemoveDocument(Head(commands).doc)
  /\ pc' = "drain"
  /\ UNCHANGED job

\* Shutdown ends run_owner, which drops the documents map.
AcceptShutdown ==
  /\ Accept("shutdown")
  /\ documents' = {}
  /\ rotation' = <<>>
  /\ active' = [d \in Doc |-> 0]
  /\ opened' = [d \in Doc |-> FALSE]
  /\ cancelled' = [d \in Doc |-> cancelled[d] \cup Tokens(pending[d])]
  /\ pending' = [d \in Doc |-> {}]
  /\ pendingEvents' = [d \in Doc |-> <<>>]
  /\ pc' = "stopped"
  /\ UNCHANGED <<nextGeneration, nextSequence, job>>

\* drain_commands sees the channel empty.
DrainEmpty ==
  /\ pc = "drain"
  /\ commands = <<>>
  /\ pc' = "flush"
  /\ flushing' = documents
  /\ UNCHANGED <<clientVars, sharedVars, docVars, job, overtaken>>

-----------------------------------------------------------------------------
(* The owner: flush_pending_events and next_runnable *)

FlushStep(d) ==
  /\ pc = "flush"
  /\ d \in flushing
  /\ UNCHANGED <<clientVars, commands, listening, pc, job, overtaken>>

\* The route takes the next event.
MutFlushNewest(d) ==
  /\ FlushStep(d)
  /\ pendingEvents[d] # <<>> /\ listening[d] /\ Len(route[d]) < RouteCapacity
  /\ LET n == Len(pendingEvents[d]) IN
     /\ route' = [route EXCEPT ![d] = Append(@, pendingEvents[d][n])]
     /\ pendingEvents' = [pendingEvents EXCEPT ![d] = SubSeq(@, 1, n - 1)]
  /\ UNCHANGED <<cancelled, documents, rotation, active, nextGeneration, opened,
                 pending, nextSequence, flushing>>

FlushSent(d) ==
  /\ FlushStep(d)
  /\ pendingEvents[d] # <<>> /\ listening[d] /\ Len(route[d]) < RouteCapacity
  /\ route' = [route EXCEPT ![d] = Append(@, Head(pendingEvents[d]))]
  /\ pendingEvents' = [pendingEvents EXCEPT ![d] = Tail(@)]
  /\ UNCHANGED <<cancelled, documents, rotation, active, nextGeneration, opened,
                 pending, nextSequence, flushing>>

\* The events are all sent, or the route is full and the event goes back.
FlushLeave(d) ==
  /\ FlushStep(d)
  /\ pendingEvents[d] = <<>> \/ (listening[d] /\ Len(route[d]) >= RouteCapacity)
  /\ flushing' = flushing \ {d}
  /\ UNCHANGED <<route, cancelled, docVars>>

\* The route is disconnected; nothing sees the map before the loop ends, so
\* the document can be removed at once.
FlushDisconnected(d) ==
  /\ FlushStep(d)
  /\ pendingEvents[d] # <<>> /\ ~listening[d]
  /\ flushing' = flushing \ {d}
  /\ RemoveDocument(d)
  /\ UNCHANGED route

\* highest_pending_priority, of a document that has some
Best(d) == (CHOOSE w \in Greatest(pending[d]) : TRUE).priority
MutRunnable == {d \in documents : pending[d] # {}}
Runnable == {d \in documents : pendingEvents[d] = <<>> /\ pending[d] # {}}
MutUrgent == {d \in Runnable :
                \A e \in documents : pending[e] = {} \/ Best(e) <= Best(d)}
Urgent == {d \in Runnable : \A e \in Runnable : Best(e) <= Best(d)}

\* The rotation after the first n entries were moved to the back.
MutRotated(n) == rotation
Rotated(n) == SubSeq(rotation, n + 1, Len(rotation)) \o SubSeq(rotation, 1, n)

\* next_runnable finds the n-th entry; pop_next takes its greatest
\* (priority, sequence).
PickWork(n) ==
  LET d == rotation[n] IN
  /\ pc = "flush" /\ flushing = {}
  /\ d \in Urgent
  /\ \A i \in 1..(n - 1) : rotation[i] \notin Urgent
  /\ rotation' = Rotated(n)
  /\ \E w \in Greatest(pending[d]) :
       /\ pending' = [pending EXCEPT ![d] = @ \ {w}]
       /\ job' = [doc |-> d, work |-> w]
  /\ pc' = "start"
  /\ overtaken' = [e \in Doc |-> IF e \in Urgent \ {d} THEN overtaken[e] + 1 ELSE 0]
  /\ UNCHANGED <<clientVars, sharedVars, documents, active, nextGeneration,
                 opened, nextSequence, pendingEvents, flushing>>

NothingRunnable ==
  /\ pc = "flush" /\ flushing = {}
  /\ Urgent = {}
  /\ pc' = "idle"
  /\ UNCHANGED <<clientVars, sharedVars, docVars, flushing, job, overtaken>>

\* recv_timeout(IDLE_EVENT_RETRY) expires: only with events waiting.
IdleTimeout ==
  /\ pc = "idle"
  /\ \E d \in documents : pendingEvents[d] # <<>>
  /\ pc' = "drain"
  /\ UNCHANGED <<clientVars, sharedVars, docVars, flushing, job, overtaken>>

-----------------------------------------------------------------------------
(* The owner: process_work.  The three execute_ functions differ in the     *)
(* engine function they call and in the payload of Ready.                   *)

IsOpen == job.work.key = OpenKey
TokenCancelled == job.work.token \in cancelled[job.doc]
Current == active[job.doc] = job.work.gen

\* process_open up to the engine call: the old document goes, a session begins.
StartOpen ==
  LET d == job.doc IN
  /\ pc = "start" /\ IsOpen
  /\ opened' = [opened EXCEPT ![d] = FALSE]
  /\ active' = [active EXCEPT ![d] = nextGeneration[d]]
  /\ nextGeneration' = [nextGeneration EXCEPT ![d] = @ + 1]
  /\ pc' = "engine"
  /\ UNCHANGED <<clientVars, sharedVars, documents, rotation, pending,
                 nextSequence, pendingEvents, flushing, job, overtaken>>

EndJob(kind) ==
  /\ Push(job.doc, Event(kind, IF IsOpen THEN active[job.doc] ELSE job.work.gen,
                         job.work.token))
  /\ pc' = "drain"
  /\ job' = NoJob
  /\ UNCHANGED <<clientVars, sharedVars, documents, rotation, active,
                 nextGeneration, pending, nextSequence, flushing, overtaken>>

\* engine.open returned, and a client cancelled it before the check after it.
OpenCancelled ==
  /\ pc = "engine" /\ IsOpen
  /\ TokenCancelled
  /\ EndJob("opencancelled")
  /\ UNCHANGED opened

OpenSucceeded ==
  /\ pc = "engine" /\ IsOpen
  /\ ~TokenCancelled
  /\ opened' = [opened EXCEPT ![job.doc] = TRUE]
  /\ EndJob("opened")

\* The session stays current without a document.
OpenFailed ==
  /\ pc = "engine" /\ IsOpen
  /\ ~TokenCancelled
  /\ EndJob("openfailed")
  /\ UNCHANGED opened

WorkDiscarded ==
  /\ pc = "start" /\ ~IsOpen
  /\ ~Current
  /\ EndJob("discarded")
  /\ UNCHANGED opened

\* Cancelled before the engine call, or during it.
WorkCancelled ==
  /\ \/ pc = "start" /\ ~IsOpen /\ Current
     \/ pc = "engine" /\ ~IsOpen
  /\ TokenCancelled
  /\ EndJob("cancelled")
  /\ UNCHANGED opened

StartWork ==
  /\ pc = "start" /\ ~IsOpen /\ Current
  /\ ~TokenCancelled
  /\ opened[job.doc]
  /\ pc' = "engine"
  /\ UNCHANGED <<clientVars, sharedVars, docVars, flushing, job, overtaken>>

MutReadyAnyway ==
  /\ pc = "engine" /\ ~IsOpen
  /\ EndJob("ready")
  /\ UNCHANGED opened

WorkReady ==
  /\ pc = "engine" /\ ~IsOpen
  /\ ~TokenCancelled
  /\ EndJob("ready")
  /\ UNCHANGED opened

\* An engine error or an output of the wrong size; before the engine call, a
\* page the document does not have, or RuntimeFailure::NoDocument.
WorkFailed ==
  /\ \/ pc = "engine" /\ ~IsOpen
     \/ pc = "start" /\ ~IsOpen /\ Current
  /\ ~TokenCancelled
  /\ EndJob(IF opened[job.doc] THEN "failed" ELSE "nodocument")
  /\ UNCHANGED opened

-----------------------------------------------------------------------------
ClientStep ==
  \/ \E d \in Doc :
       \/ Attach(d) \/ DropClient(d) \/ SendDetach(d)
       \/ Receive(d) \/ StopListening(d)
       \/ \E t \in Thread :
            \/ EnterOpen(d, t) \/ EnterClose(d, t) \/ SendCall(d, t)
            \/ \E c \in Class : \/ EnterCancel(d, t, c)
                                \/ \E b \in Batch : EnterReplace(d, t, c, b)
  \/ DropHandle \/ SendShutdown

AcceptStep ==
  \/ AcceptAttach \/ AcceptOpen \/ AcceptClose \/ AcceptReplace
  \/ AcceptCancelClass \/ AcceptDetach \/ AcceptShutdown

OwnerStep ==
  \/ AcceptStep \/ InsertWork \/ InsertDone \/ DrainEmpty
  \/ \E d \in Doc : FlushSent(d) \/ FlushLeave(d) \/ FlushDisconnected(d)
  \/ \E n \in 1..Len(rotation) : PickWork(n)
  \/ NothingRunnable \/ IdleTimeout
  \/ StartOpen \/ OpenCancelled \/ OpenSucceeded \/ OpenFailed
  \/ WorkDiscarded \/ WorkCancelled \/ StartWork \/ WorkReady \/ WorkFailed

\* run_owner has returned and been joined.
Stopped == pc = "stopped" /\ UNCHANGED vars

Next == ClientStep \/ OwnerStep \/ Stopped
Spec == Init /\ [][Next]_vars

\* The owner thread runs and engine calls return; a call in progress gets to
\* its send; a Steady document reads its route.
Fairness ==
  /\ WF_vars(OwnerStep)
  /\ WF_vars(SendShutdown)
  /\ \A d \in Doc : /\ WF_vars(SendDetach(d))
                    /\ \A t \in Thread : WF_vars(SendCall(d, t))
  /\ \A d \in Steady : WF_vars(Receive(d))
FairSpec == Spec /\ Fairness

-----------------------------------------------------------------------------
(* Properties *)

Command ==
  [op : {"attach", "close", "detach"}, doc : Doc]
    \cup [op : {"open"}, doc : Doc, token : 1..MaxCalls]
    \cup [op : {"cancel"}, doc : Doc, class : Class]
    \cup [op : {"replace"}, doc : Doc, class : Class, work : Batch,
          token : 1..MaxCalls, gen : Nat \ {0}]
    \cup [op : {"shutdown"}]
Work == [key : {OpenKey} \cup (Class \X Nat), sequence : Nat, priority : 0..Interactive,
         token : 1..MaxCalls, gen : Nat]
EventType == [kind : Results \cup Changes \cup {"attached", "rejected", "discarded"},
              gen : Nat, token : 0..MaxCalls]

TypeOK ==
  /\ client \in [Doc -> {"unattached", "live", "dropping", "dropped"}]
  /\ openToken \in [Doc -> 0..MaxCalls]
  /\ classToken \in [Doc -> [Class -> 0..MaxCalls]]
  /\ \A d \in Doc, t \in Thread : call[d][t] = Idle \/ call[d][t] \in Command
  /\ calls \in [Doc -> 0..MaxCalls]
  /\ session \in [Doc -> Nat]
  /\ told \in [Doc -> Nat]
  /\ handle \in {"held", "released", "shutdown"}
  /\ cancelled \in [Doc -> SUBSET (1..MaxCalls)]
  /\ \A i \in DOMAIN commands : commands[i] \in Command
  /\ \A d \in Doc : \A i \in DOMAIN route[d] : route[d][i] \in EventType
  /\ listening \in [Doc -> BOOLEAN]
  /\ pc \in {"drain", "insert", "flush", "start", "engine", "idle", "stopped"}
  /\ documents \subseteq Doc
  /\ active \in [Doc -> Nat]
  /\ nextGeneration \in [Doc -> Nat \ {0}]
  /\ opened \in [Doc -> BOOLEAN]
  /\ \A d \in Doc : \A w \in pending[d] : w \in Work
  /\ nextSequence \in [Doc -> Nat \ {0}]
  /\ \A d \in Doc : \A i \in DOMAIN pendingEvents[d] : pendingEvents[d][i] \in EventType
  /\ flushing \subseteq documents

\* Everything on its way to the client of d.
Stream(d) == route[d] \o pendingEvents[d]

(* What a client reads is the history of one document at a time: a result    *)
(* (Ready, Failed, Cancelled) always belongs to the generation announced by  *)
(* the last Opened before it, with no Closed, OpenFailed or OpenCancelled in  *)
(* between, and generations only grow.  This is what lets the adapter drop   *)
(* every stale result by comparing generations, with events held back in     *)
(* pending_events and in the route across opens and closes.                  *)
StreamInOrder ==
  \A d \in Doc :
    LET s == Stream(d)
        Before(j) == {i \in 1..(j - 1) : s[i].kind \in Changes}
        InForce(j) == IF Before(j) = {} THEN told[d]
                      ELSE Announced(s[CHOOSE i \in Before(j) : \A h \in Before(j) : h <= i])
    IN \A j \in DOMAIN s :
         /\ s[j].kind \in Results => s[j].gen = InForce(j)
         /\ s[j].kind = "opened" =>
              \A i \in 1..(j - 1) : s[i].gen < s[j].gen /\ session[d] < s[j].gen

(* RuntimeFailure::NoDocument never reaches a client that mints its demands  *)
(* from the sessions it was given.                                           *)
NeverWithoutDocument ==
  \A d \in Doc : \A j \in DOMAIN Stream(d) : Stream(d)[j].kind # "nodocument"

(* The owner holds back at most one result per document, as the first of its *)
(* pending events: a route that is full cannot make rasters pile up.         *)
OneRasterHeld ==
  \A d \in Doc : \A i \in DOMAIN pendingEvents[d] :
    pendingEvents[d][i].kind \in Results \cup {"discarded", "opened"} => i = 1

(* A document's queue stays within max_pending_per_document, with one entry  *)
(* per key, also when an open waits in it.                                   *)
PendingBounded ==
  \A d \in Doc : /\ Cardinality(pending[d]) <= MaxPending
                 /\ \A v, w \in pending[d] : v.key = w.key => v = w

(* At capacity the owner gives up the work that matters least: what a        *)
(* replacement evicts is no more urgent than anything it leaves, and a        *)
(* waiting open is never given up, although it counts against the capacity;  *)
(* and it gives up enough of it.                                             *)
EvictionSparesTheUrgent ==
  [][/\ PendingBounded'
     /\ pc = "insert" =>
       \A w \in pending[job.doc] \ pending'[job.doc] :
         /\ w.key # OpenKey
         /\ (\E v \in pending'[job.doc] : v.key = w.key)
            \/ \A v \in pending'[job.doc] : w.priority <= v.priority]_vars

(* The rotation lists every attached document once: none is lost or served   *)
(* twice, whatever order attach, detach and disconnection come in.           *)
RotationComplete ==
  /\ {rotation[i] : i \in DOMAIN rotation} = documents
  /\ \A i, j \in DOMAIN rotation : rotation[i] = rotation[j] => i = j

(* Round robin: a document whose best work is as urgent as what the engine   *)
(* runs waits for at most one piece of work of each other document.          *)
RotationIsFair == \A d \in Doc : overtaken[d] < Cardinality(Doc)

(* The owner reports a document opened, an open failed, work ready or failed *)
(* only for the call that its client still has registered: what was replaced, *)
(* cancelled, closed or reopened under the client's mutex before the owner's  *)
(* check is never reported as a success, although the command that says so   *)
(* may not have been sent yet.                                               *)
ReportsAreWanted ==
  [][\A d \in Doc :
       Len(pendingEvents'[d]) > Len(pendingEvents[d]) =>
         LET event == pendingEvents'[d][Len(pendingEvents'[d])]
         IN event.kind \in {"opened", "openfailed", "ready", "failed"} =>
              event.token \in Registered(d)]_vars

(* "Replacing one viewport does not cancel explicit copy/search work;        *)
(* replacing a preview does not cancel tiles" (the comment on WorkClass):    *)
(* serving a replacement cancels no token of another class.                  *)
DomainsAreIndependent ==
  [][pc = "insert" =>
       \A w \in pending[job.doc] :
         w.key[1] # job.class /\ w.token \in cancelled'[job.doc]
           => w.token \in cancelled[job.doc]]_vars

(* A document that reads its route gets all its work done and all its events *)
(* delivered, whatever its neighbours do: one that never reads, with its     *)
(* route full and urgent work queued, blocks only itself.                    *)
SteadyDocumentsSettle ==
  \A d \in Steady :
    (pending[d] # {} \/ pendingEvents[d] # <<>>)
      ~> (pending[d] = {} /\ pendingEvents[d] = <<>>)

(* SupervisorInner::drop joins the owner: after the last handle and client   *)
(* have gone the owner stops, also with a route full and work queued.        *)
OwnerJoins == (handle = "shutdown") ~> (pc = "stopped")

(* The owner's tables agree with each other, whatever order attaching,       *)
(* opening, detaching and disconnection come in: no attached document drops  *)
(* out of the rotation, no demand runs without its document, and a full      *)
(* route holds back one raster.                                              *)
OwnerConsistent == TypeOK /\ NeverWithoutDocument /\ OneRasterHeld /\ RotationComplete
=============================================================================

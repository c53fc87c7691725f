-------------------------- MODULE AnnotationService --------------------------
(***************************************************************************)
(* key_sidecar_store::service (crates/key-sidecar-store/src/service.rs):    *)
(* one actor thread loads and saves the annotations of every open document. *)
(*                                                                         *)
(*   clients --mailbox (bounded)--> actor --events (bounded)--> clients      *)
(*                                    |                                     *)
(*                                  store (compare and save)                *)
(*                                                                         *)
(* Every client has one document lane, so a client stands for its lane too. *)
(* A client never blocks: load and save are refused when the mailbox is     *)
(* full, and dropping a client only sets its lease and tries to wake the    *)
(* actor.  The commands a client has had accepted are numbered (serial),    *)
(* which the code does not do; the properties are about those numbers.      *)
(***************************************************************************)
EXTENDS Integers, SequencesExt, FiniteSets

CONSTANTS
  Client,            \* AnnotationClientId, and its AnnotationDocumentId
  Path,              \* PDF paths
  Mark,              \* the edits an annotation set may contain
  Call,              \* the load and save calls the clients make
  Foreign,           \* the edits other processes make, each once per path
  Leaving,           \* the clients that may be dropped or stop listening
  Steady,            \* the clients that keep reading their events
  MailboxCapacity,   \* COMMAND_CAPACITY
  EventCapacity,     \* EVENT_CAPACITY
  PendingCapacity,   \* PENDING_EVENT_CAPACITY
  MaxCalls,          \* bound: accepted calls per client
  MaxInspections     \* bound: calls of diagnostics

ASSUME CapacityAssumption ==
  /\ MailboxCapacity \in Nat \ {0}
  /\ EventCapacity \in Nat \ {0}
  /\ PendingCapacity \in Nat \ {0}
ASSUME ClientAssumption ==
  IsFiniteSet(Client) /\ Leaving \subseteq Client /\ Steady \subseteq Client
ASSUME MarkAssumption == Foreign \subseteq Mark

\* AnnotationSet: its revision and the edits it contains.
Snapshot == [revision : Nat, marks : SUBSET Mark]
Empty == [revision |-> 0, marks |-> {}]
NoPath == "none"
NoRevision == -1

\* A load or a save as a client asks for it
LoadRequest == [op : {"load"}, gen : Nat, path : Path]
SaveRequest == [op : {"save"}, gen : Nat, path : Path, expected : Nat, snap : Snapshot]
ASSUME CallAssumption == MaxCalls \in Nat /\ Call \subseteq LoadRequest \cup SaveRequest

VARIABLES
  \* The clients and the owner of the service.
  client,       \* client[c]: "unattached", "live", "dropping" (its lease is
                \*   set), "dropped"
  serial,       \* history, serial[c]: commands accepted from c
  lastSave,     \* history, lastSave[c]: the serial of its last accepted save
  answered,     \* history, answered[c]: serial of the last event received
  handle,       \* "held", "released", "shutdown": the AnnotationService
  asked,        \* history: calls of diagnostics so far
  \* The channels and the disk.
  mailbox,
  events,       \* events[c]: flume channel
  listening,    \* listening[c]: the receiver exists
  store,        \* store[p]: the sidecar's snapshot
  \* run_service
  pc,
  sinks,        \* the keys of clients: HashMap<_, ClientSink>
  pending,      \* pending[c]: ClientSink.pending
  documents,    \* the keys of documents: HashMap<_, DocumentLane>
  lane,         \* lane[c]: DocumentLane
  ready,
  readySet,
  reaping,      \* the lanes reap_detached has yet to look at
  inspections,  \* the callers of diagnostics waiting for a reply
  shuttingDown,
  lastServed,   \* last_served, a set with at most one client
  job,          \* the lane and operation process_one has taken
  handled       \* history, handled[c]: serial of the last command executed

clientVars == <<client, serial, lastSave, answered, handle, asked>>
channelVars == <<mailbox, events, listening>>
laneVars == <<sinks, pending, documents, lane, ready, readySet>>
actorVars == <<pc, laneVars, reaping, inspections, shuttingDown, lastServed, job, handled>>
vars == <<clientVars, channelVars, store, actorVars>>

NewLane == [ops |-> <<>>, scheduled |-> FALSE, closing |-> FALSE,
            gen |-> 0, path |-> NoPath, observed |-> NoRevision]
NoJob == [op |-> [op |-> "none"]]
Detach == [op |-> "detach"]

Init ==
  /\ client = [c \in Client |-> "unattached"]
  /\ serial = [c \in Client |-> 0]
  /\ lastSave = [c \in Client |-> 0]
  /\ answered = [c \in Client |-> 0]
  /\ handle = "held"
  /\ asked = 0
  /\ mailbox = <<>>
  /\ events = [c \in Client |-> <<>>]
  /\ listening = [c \in Client |-> TRUE]
  /\ store = [p \in Path |-> Empty]
  /\ pc = "top"
  /\ sinks = {}
  /\ pending = [c \in Client |-> <<>>]
  /\ documents = {}
  /\ lane = [c \in Client |-> NewLane]
  /\ ready = <<>>
  /\ readySet = {}
  /\ reaping = {}
  /\ inspections = {}
  /\ shuttingDown = FALSE
  /\ lastServed = {}
  /\ job = NoJob
  /\ handled = [c \in Client |-> 0]

-----------------------------------------------------------------------------
(* The clients *)

Room == Len(mailbox) < MailboxCapacity
Post(command) == Room /\ mailbox' = Append(mailbox, command)

\* AnnotationService::attach; its send blocks until the mailbox has room.
Attach(c) ==
  /\ handle = "held"
  /\ client[c] = "unattached"
  /\ Post([op |-> "attach", client |-> c])
  /\ client' = [client EXCEPT ![c] = "live"]
  /\ UNCHANGED <<serial, lastSave, answered, handle, asked, events, listening,
                 store, actorVars>>

\* submit: load and save are accepted while the service lives and has room.
\* A refused call changes nothing here.
CanSubmit(c) == client[c] = "live" /\ handle = "held" /\ Room
Numbered(c, request) ==
  IF request.op = "load"
    THEN [op |-> "load", client |-> c, serial |-> serial[c] + 1,
          gen |-> request.gen, path |-> request.path]
    ELSE [op |-> "save", client |-> c, serial |-> serial[c] + 1,
          gen |-> request.gen, path |-> request.path,
          expected |-> request.expected, snap |-> request.snap]
Submit(c, request) ==
  /\ CanSubmit(c)
  /\ serial[c] < MaxCalls
  /\ Post(Numbered(c, request))
  /\ serial' = [serial EXCEPT ![c] = @ + 1]
  /\ lastSave' = [lastSave EXCEPT ![c] = IF request.op = "save" THEN serial[c] + 1 ELSE @]
  /\ UNCHANGED <<client, answered, handle, asked, events, listening, store, actorVars>>

\* AnnotationServiceClient::drop sets the lease,
DropClient(c) ==
  /\ c \in Leaving
  /\ client[c] = "live"
  /\ client' = [client EXCEPT ![c] = "dropping"]
  /\ UNCHANGED <<serial, lastSave, answered, handle, asked, channelVars, store, actorVars>>

\* and then sends Wake, if the service lives and there is room.
SendWake(c) ==
  /\ client[c] = "dropping"
  /\ client' = [client EXCEPT ![c] = "dropped"]
  /\ mailbox' = IF handle = "held" /\ Room
                  THEN Append(mailbox, [op |-> "wake"]) ELSE mailbox
  /\ UNCHANGED <<serial, lastSave, answered, handle, asked, events, listening,
                 store, actorVars>>

\* The client takes an event.
Receive(c) ==
  /\ listening[c]
  /\ events[c] # <<>>
  /\ events' = [events EXCEPT ![c] = Tail(@)]
  /\ answered' = [answered EXCEPT ![c] = Head(events[c]).serial]
  /\ UNCHANGED <<client, serial, lastSave, handle, asked, mailbox, listening,
                 store, actorVars>>

StopListening(c) ==
  /\ c \in Leaving
  /\ client[c] # "unattached"
  /\ listening[c]
  /\ listening' = [listening EXCEPT ![c] = FALSE]
  /\ events' = [events EXCEPT ![c] = <<>>]
  /\ UNCHANGED <<clientVars, mailbox, store, actorVars>>

\* diagnostics: the request notes the clients already dropped.
Inspect ==
  /\ handle = "held"
  /\ asked < MaxInspections
  /\ Post([op |-> "inspect", gone |-> {c \in Client : client[c] \in {"dropping", "dropped"}}])
  /\ asked' = asked + 1
  /\ UNCHANGED <<client, serial, lastSave, answered, handle, events, listening,
                 store, actorVars>>

\* ServiceInner::drop: the last handle goes, clients can no longer upgrade
\* theirs, then Shutdown is sent with a blocking send.
ReleaseHandle ==
  /\ handle = "held"
  /\ handle' = "released"
  /\ UNCHANGED <<client, serial, lastSave, answered, asked, channelVars, store, actorVars>>

SendShutdown ==
  /\ handle = "released"
  /\ Post([op |-> "shutdown"])
  /\ handle' = "shutdown"
  /\ UNCHANGED <<client, serial, lastSave, answered, asked, events, listening,
                 store, actorVars>>

\* Another process edits and saves with the same compare_and_save, under the
\* same lock: a write based on an older snapshot never gets through.
ForeignSave(p, m) ==
  /\ m \notin store[p].marks
  /\ store' = [store EXCEPT ![p] = [revision |-> @.revision + 1, marks |-> @.marks \cup {m}]]
  /\ UNCHANGED <<clientVars, channelVars, actorVars>>

-----------------------------------------------------------------------------
(* run_service, the top of the loop *)

IdleActor == /\ ready = <<>> /\ inspections = {} /\ ~shuttingDown
             /\ \A c \in sinks : pending[c] = <<>>

\* recv blocks an idle actor; the command it returns is drained with the rest.
Top ==
  /\ pc = "top"
  /\ IdleActor => mailbox # <<>>
  /\ pc' = "drain"
  /\ UNCHANGED <<clientVars, channelVars, store, laneVars, reaping, inspections,
                 shuttingDown, lastServed, job, handled>>

\* The lanes of the set S are scheduled, in the order a HashMap gives them;
\* L are the lanes without their scheduled flag.
Schedule(S, L) ==
  LET new == {c \in S : ~L[c].scheduled /\ c \notin readySet} IN
  /\ \E order \in SetToSeqs(new) : ready' = ready \o order
  /\ readySet' = readySet \cup new
  /\ lane' = [c \in Client |-> IF c \in new THEN [L[c] EXCEPT !.scheduled = TRUE]
                                            ELSE L[c]]

Ingest(op) ==
  /\ pc = "drain"
  /\ mailbox # <<>>
  /\ Head(mailbox).op = op
  /\ mailbox' = Tail(mailbox)
  /\ UNCHANGED <<clientVars, events, listening, store, pc, reaping, lastServed,
                 job, handled>>

IngestAttach ==
  LET c == Head(mailbox).client IN
  /\ Ingest("attach")
  /\ sinks' = sinks \cup {c}
  /\ documents' = documents \cup {c}
  /\ lane' = [lane EXCEPT ![c] = NewLane]
  /\ UNCHANGED <<pending, ready, readySet, inspections, shuttingDown>>

\* The lane a load or save finds: closing lanes are filtered out.
Open(c) == c \in documents /\ ~lane[c].closing

IngestLoad ==
  LET command == Head(mailbox)
      c == command.client
  IN
  /\ Ingest("load")
  /\ IF Open(c) THEN Schedule({c}, [lane EXCEPT ![c].ops = Append(@, command)])
                ELSE UNCHANGED <<lane, ready, readySet>>
  /\ UNCHANGED <<sinks, pending, documents, inspections, shuttingDown>>

\* A save replaces the snapshot of the lane's last operation when that is an
\* older save of the same generation and path; that one keeps its expected
\* revision.
Coalesces(ops, command) ==
  /\ ops # <<>>
  /\ Last(ops).op = "save"
  /\ Last(ops).gen = command.gen
  /\ Last(ops).path = command.path
  /\ command.snap.revision >= Last(ops).snap.revision

MutKeepOlderSave(ops, command) ==
  IF Coalesces(ops, command) THEN ops ELSE Append(ops, command)

WithSave(ops, command) ==
  IF Coalesces(ops, command)
    THEN Append(Front(ops), [command EXCEPT !.expected = Last(ops).expected])
    ELSE Append(ops, command)

IngestSave ==
  LET command == Head(mailbox)
      c == command.client
  IN
  /\ Ingest("save")
  /\ IF Open(c) THEN Schedule({c}, [lane EXCEPT ![c].ops = WithSave(@, command)])
                ELSE UNCHANGED <<lane, ready, readySet>>
  /\ UNCHANGED <<sinks, pending, documents, inspections, shuttingDown>>

IngestInspect ==
  /\ Ingest("inspect")
  /\ inspections' = inspections \cup {Head(mailbox)}
  /\ UNCHANGED <<laneVars, shuttingDown>>

IngestWake ==
  /\ Ingest("wake")
  /\ UNCHANGED <<laneVars, inspections, shuttingDown>>

\* What becomes of a lane that starts to close.
MutCloseAtOnce(S) ==
  [c \in Client |-> IF c \in S
                      THEN [lane[c] EXCEPT !.closing = TRUE, !.ops = <<Detach>>]
                      ELSE lane[c]]
Closed(S) ==
  [c \in Client |-> IF c \in S
                      THEN [lane[c] EXCEPT !.closing = TRUE, !.ops = Append(@, Detach)]
                      ELSE lane[c]]

IngestShutdown ==
  LET S == {c \in documents : ~lane[c].closing} IN
  /\ Ingest("shutdown")
  /\ shuttingDown' = TRUE
  /\ sinks' = {}
  /\ pending' = [c \in Client |-> <<>>]
  /\ Schedule(S, Closed(S))
  /\ UNCHANGED <<documents, inspections>>

DrainEmpty ==
  /\ pc = "drain"
  /\ mailbox = <<>>
  /\ pc' = "reap"
  /\ reaping' = documents
  /\ UNCHANGED <<clientVars, channelVars, store, laneVars, inspections,
                 shuttingDown, lastServed, job, handled>>

-----------------------------------------------------------------------------
(* run_service: reap_detached, flush_all_clients and the choice of a lane *)

MutReapNothing(c) ==
  /\ pc = "reap"
  /\ c \in reaping
  /\ reaping' = reaping \ {c}
  /\ UNCHANGED <<clientVars, channelVars, store, pc, laneVars, inspections,
                 shuttingDown, lastServed, job, handled>>

\* reap_detached looks at one lane.
Reap(c) ==
  /\ pc = "reap"
  /\ c \in reaping
  /\ reaping' = reaping \ {c}
  /\ IF client[c] \in {"dropping", "dropped"} /\ ~lane[c].closing
       THEN /\ sinks' = sinks \ {c}
            /\ pending' = [pending EXCEPT ![c] = <<>>]
            /\ Schedule({c}, Closed({c}))
       ELSE UNCHANGED <<sinks, pending, lane, ready, readySet>>
  /\ UNCHANGED <<clientVars, channelVars, store, pc, documents, inspections,
                 shuttingDown, lastServed, job, handled>>

ReapDone ==
  /\ pc = "reap"
  /\ reaping = {}
  /\ pc' = "select"
  /\ UNCHANGED <<clientVars, channelVars, store, laneVars, reaping, inspections,
                 shuttingDown, lastServed, job, handled>>

\* flush_sink sends pending events until the channel is full.
Flushable(c) == LET room == EventCapacity - Len(events[c])
                IN IF Len(pending[c]) < room THEN Len(pending[c]) ELSE room
Disconnected == {c \in sinks : pending[c] # <<>> /\ ~listening[c]}
Unsent(c) == IF c \in Disconnected THEN <<>>
             ELSE SubSeq(pending[c], Flushable(c) + 1, Len(pending[c]))
Sent(c) == IF c \in Disconnected THEN events[c]
           ELSE events[c] \o SubSeq(pending[c], 1, Flushable(c))

\* flush_all_clients.  The flush that client_can_accept_event repeats finds
\* nothing more to send: what a client reads in between, it may as well have
\* read before.
FlushAll ==
  /\ sinks' = sinks \ Disconnected
  /\ pending' = [c \in Client |-> Unsent(c)]
  /\ events' = [c \in Client |-> Sent(c)]

\* client_can_accept_event, or the lane is closing

MutGlobalBackpressure(c) ==
  \A d \in sinks \ Disconnected : Len(Unsent(d)) < PendingCapacity

Eligible(c) ==
  \/ lane[c].closing
  \/ c \notin sinks \ Disconnected
  \/ Len(Unsent(c)) < PendingCapacity

\* The lane served last goes behind the others.
Rotation == IF Len(ready) > 1 /\ Head(ready) \in lastServed
              THEN Append(Tail(ready), Head(ready)) ELSE ready

\* The first eligible lane of the rotation; the ones before it go to the back.
\* process_one takes the lane's first operation: a ready lane exists and has
\* one (ReadyAgrees).
Select ==
  /\ pc = "select"
  /\ \E n \in DOMAIN Rotation :
       LET c == Rotation[n] IN
       /\ Eligible(c)
       /\ \A i \in 1..(n - 1) : ~Eligible(Rotation[i])
       /\ ready' = SubSeq(Rotation, n + 1, Len(Rotation)) \o SubSeq(Rotation, 1, n - 1)
       /\ readySet' = readySet \ {c}
       /\ lane' = [lane EXCEPT ![c].scheduled = FALSE, ![c].ops = Tail(@)]
       /\ job' = [client |-> c, op |-> Head(lane[c].ops)]
  /\ FlushAll
  /\ pc' = "store"
  /\ UNCHANGED <<clientVars, mailbox, listening, store, documents, reaping,
                 inspections, shuttingDown, lastServed, handled>>

\* No lane can be served.  recv_timeout comes back to the top of the loop, with
\* a command, which the drain would have taken next, or without one.
Wait ==
  /\ pc = "select"
  /\ \A c \in ToSet(ready) : ~Eligible(c)
  /\ FlushAll
  /\ pc' = IF /\ ready # <<>> \/ \E c \in sinks' : pending'[c] # <<>>
              /\ ~shuttingDown
             THEN "top" ELSE "reply"
  /\ ready' = Rotation
  /\ UNCHANGED <<clientVars, mailbox, listening, store, documents, lane, readySet,
                 reaping, inspections, shuttingDown, lastServed, job, handled>>

\* The callers of diagnostics get their reply, and a service shutting down ends.
MutReplyEarly ==
  /\ pc \in {"reply", "reap"}
  /\ inspections' = {}
  /\ pc' = IF pc = "reap" THEN "reap" ELSE IF shuttingDown THEN "stopped" ELSE "top"
  /\ UNCHANGED <<clientVars, channelVars, store, laneVars, reaping, shuttingDown,
                 lastServed, job, handled>>

Reply ==
  /\ pc = "reply"
  /\ inspections' = {}
  /\ pc' = IF shuttingDown THEN "stopped" ELSE "top"
  /\ UNCHANGED <<clientVars, channelVars, store, laneVars, reaping, shuttingDown,
                 lastServed, job, handled>>

-----------------------------------------------------------------------------
(* process_one *)

Event(kind, snap) ==
  [kind |-> kind, serial |-> job.op.serial, gen |-> job.op.gen, snap |-> snap]

MutDropWhenFull(event) ==
  LET c == job.client IN
  /\ events' = IF c \in sinks /\ listening[c] /\ Len(events[c]) < EventCapacity
                 THEN [events EXCEPT ![c] = Append(@, event)] ELSE events
  /\ UNCHANGED <<sinks, pending>>

\* send_event: to the channel when nothing is pending and it has room.
SendEvent(event) ==
  LET c == job.client
      first == pending[c] = <<>>
      room == Len(events[c]) < EventCapacity
  IN
  /\ sinks' = IF first /\ ~listening[c] THEN sinks \ {c} ELSE sinks
  /\ events' = IF c \in sinks /\ first /\ listening[c] /\ room
                 THEN [events EXCEPT ![c] = Append(@, event)] ELSE events
  /\ pending' = IF c \in sinks /\ (~first \/ (listening[c] /\ ~room))
                  THEN [pending EXCEPT ![c] = Append(@, event)] ELSE pending

MutFinishForgets(op, l) ==
  /\ pc = "store"
  /\ job.op.op = op
  /\ lane' = [lane EXCEPT ![job.client] = l]
  /\ handled' = [handled EXCEPT ![job.client] = job.op.serial]
  /\ lastServed' = {job.client}
  /\ job' = NoJob
  /\ pc' = "top"
  /\ UNCHANGED <<clientVars, mailbox, listening, documents, reaping, inspections,
                 shuttingDown, ready, readySet>>

\* The end of process_one: l is the lane, with its remaining operations.
Finish(op, l) ==
  LET c == job.client
      again == l.ops # <<>>
  IN
  /\ pc = "store"
  /\ job.op.op = op
  /\ ready' = IF again THEN Append(ready, c) ELSE ready
  /\ readySet' = IF again THEN readySet \cup {c} ELSE readySet
  /\ lane' = [lane EXCEPT ![c] = [l EXCEPT !.scheduled = again]]
  /\ handled' = [handled EXCEPT ![c] = job.op.serial]
  /\ lastServed' = {c}
  /\ job' = NoJob
  /\ pc' = "top"
  /\ UNCHANGED <<clientVars, mailbox, listening, documents, reaping, inspections,
                 shuttingDown>>

JobLane == lane[job.client]
Activated(observed) ==
  [JobLane EXCEPT !.gen = job.op.gen, !.path = job.op.path, !.observed = observed]

LoadSucceeded ==
  /\ job.op.op = "load"
  /\ Finish("load", Activated(store[job.op.path].revision))
  /\ SendEvent(Event("loaded", store[job.op.path]))
  /\ UNCHANGED store

\* An unreadable or invalid sidecar, or a PDF that changed under its name.
LoadFailed ==
  /\ job.op.op = "load"
  /\ Finish("load", Activated(NoRevision))
  /\ SendEvent(Event("loadfailed", Empty))
  /\ UNCHANGED store

Stale == \/ JobLane.gen # 0 /\ JobLane.gen # job.op.gen
         \/ JobLane.path # NoPath /\ JobLane.path # job.op.path

SaveStale ==
  /\ job.op.op = "save"
  /\ Stale
  /\ Finish("save", JobLane)
  /\ SendEvent(Event("savefailed", job.op.snap))
  /\ UNCHANGED store

\* compare_and_save, under the lock on the PDF and with an atomic replacement
Expected == IF JobLane.observed # NoRevision THEN JobLane.observed ELSE job.op.expected

MutWritable(p, snap) == snap.revision >= store[p].revision
Writable(p, snap) ==
  /\ store[p].revision = Expected
  /\ snap.revision >= store[p].revision
  /\ snap.revision = store[p].revision => snap = store[p]

SaveWritten ==
  /\ job.op.op = "save"
  /\ ~Stale
  /\ Writable(job.op.path, job.op.snap)
  /\ store' = [store EXCEPT ![job.op.path] = job.op.snap]
  /\ Finish("save", Activated(job.op.snap.revision))
  /\ SendEvent(Event("saved", job.op.snap))

\* A conflict, or an I/O error before the replacement.
SaveFailed ==
  /\ job.op.op = "save"
  /\ ~Stale
  /\ Finish("save", Activated(JobLane.observed))
  /\ SendEvent(Event("savefailed", job.op.snap))
  /\ UNCHANGED store

\* Detach: neither the sink nor the lane comes back.
DetachLane ==
  LET c == job.client IN
  /\ pc = "store"
  /\ job.op.op = "detach"
  /\ sinks' = sinks \ {c}
  /\ pending' = [pending EXCEPT ![c] = <<>>]
  /\ documents' = documents \ {c}
  /\ lane' = [lane EXCEPT ![c] = NewLane]
  /\ lastServed' = {c}
  /\ job' = NoJob
  /\ pc' = "top"
  /\ UNCHANGED <<clientVars, channelVars, store, ready, readySet, reaping,
                 inspections, shuttingDown, handled>>

-----------------------------------------------------------------------------
\* The steps of the environment that no client's own logic decides.
Environment ==
  \/ \E c \in Client : Attach(c) \/ SendWake(c) \/ StopListening(c)
  \/ Inspect \/ ReleaseHandle \/ SendShutdown
  \/ \E p \in Path, m \in Foreign : ForeignSave(p, m)

ClientStep ==
  \E c \in Client : \/ DropClient(c) \/ Receive(c)
                    \/ \E request \in Call : Submit(c, request)

IngestStep ==
  \/ IngestAttach \/ IngestLoad \/ IngestSave \/ IngestInspect \/ IngestWake
  \/ IngestShutdown

StoreStep ==
  \/ LoadSucceeded \/ LoadFailed
  \/ SaveStale \/ SaveWritten \/ SaveFailed \/ DetachLane

ActorStep ==
  \/ Top \/ IngestStep \/ DrainEmpty
  \/ (\E c \in Client : Reap(c)) \/ ReapDone
  \/ Select \/ Wait \/ Reply
  \/ StoreStep

\* run_service has returned.
Stopped == pc = "stopped" /\ UNCHANGED vars

Next == Environment \/ ClientStep \/ ActorStep \/ Stopped
Spec == Init /\ [][Next]_vars

\* The actor thread runs and store calls return; drops and the send of
\* Shutdown get on once begun; a Steady client reads its events.
Fairness ==
  /\ WF_vars(ActorStep)
  /\ WF_vars(SendShutdown)
  /\ \A c \in Client : WF_vars(SendWake(c))
  /\ \A c \in Steady : WF_vars(Receive(c))
FairSpec == Spec /\ Fairness

-----------------------------------------------------------------------------
(* Properties *)


TypeOK ==
  /\ client \in [Client -> {"unattached", "live", "dropping", "dropped"}]
  /\ serial \in [Client -> 0..MaxCalls]
  /\ lastSave \in [Client -> 0..MaxCalls]
  /\ answered \in [Client -> 0..MaxCalls]
  /\ handled \in [Client -> 0..MaxCalls]
  /\ handle \in {"held", "released", "shutdown"}
  /\ asked \in 0..MaxInspections
  /\ Len(mailbox) <= MailboxCapacity
  /\ \A c \in Client : Len(events[c]) <= EventCapacity
  /\ listening \in [Client -> BOOLEAN]
  /\ store \in [Path -> Snapshot]
  /\ pc \in {"top", "drain", "reap", "select", "store", "reply", "stopped"}
  /\ sinks \subseteq Client
  /\ documents \subseteq Client
  /\ \A c \in Client : /\ lane[c].scheduled \in BOOLEAN
                       /\ lane[c].closing \in BOOLEAN
                       /\ lane[c].gen \in Nat
                       /\ lane[c].path \in Path \cup {NoPath}
                       /\ lane[c].observed \in Nat \cup {NoRevision}
  /\ reaping \subseteq documents
  /\ shuttingDown \in BOOLEAN
  /\ lastServed \in SUBSET Client

(* No lost wakeup and no double turn: the queue of ready lanes, the set that  *)
(* guards it, the scheduled flags and the queued operations always say the   *)
(* same, through coalescing, reaping and shutdown.                           *)
ReadyAgrees ==
  /\ \A i, j \in DOMAIN ready : ready[i] = ready[j] => i = j
  /\ ToSet(ready) = readySet
  /\ readySet = {c \in documents : lane[c].scheduled}
  /\ \A c \in documents : job = NoJob \/ job.client # c =>
       (lane[c].ops # <<>> <=> lane[c].scheduled)
  /\ pc = "store" => job.client \in documents

(* "process_one() is admitted only while this bounded queue has room": the   *)
(* events held back for a client that does not read stay within              *)
(* PENDING_EVENT_CAPACITY.                                                   *)
PendingBounded == \A c \in Client : Len(pending[c]) <= PendingCapacity

Serials(s) == [i \in DOMAIN s |-> s[i].serial]
Increasing(s) == \A i, j \in DOMAIN s : i < j => s[i] < s[j]
Stream(c) == Serials(events[c] \o pending[c])

(* The service never drops an answer: while a client listens, the answers on *)
(* their way to it are in the order of its calls and end with the answer to  *)
(* the last call that was executed, however full its channel is; and what is *)
(* held back stays within its bound.                                         *)
AnswersComplete ==
  /\ PendingBounded
  /\ \A c \in sinks : listening[c] =>
      LET s == <<answered[c]>> \o Stream(c)
      IN Increasing(s) /\ s[Len(s)] = handled[c]

(* What is still to be executed, in the order in which a client's calls will  *)
(* be, and the places of the calls of c in it.                                *)
Taken(c) == IF job # NoJob /\ job.client = c THEN <<job.op>> ELSE <<>>
Line(c) == Taken(c) \o lane[c].ops \o mailbox
Places(c) == {i \in DOMAIN Line(c) : /\ Line(c)[i].op \in {"load", "save"}
                                     /\ Line(c)[i].client = c}
InLine(c, n) == \E i \in Places(c) : Line(c)[i].serial = n

(* No accepted call of a client that is not dropped is forgotten or overtaken *)
(* by an older one: the newest accepted call has been executed or is queued. *)
(* A coalesced save is covered by the newer snapshot.                        *)
NothingForgotten ==
  \A c \in Client :
    client[c] = "live" =>
      /\ \A i \in Places(c) : Line(c)[i].serial \in (handled[c] + 1)..serial[c]
      /\ \A i, j \in Places(c) : i < j => Line(c)[i].serial < Line(c)[j].serial
      /\ serial[c] = handled[c] \/ InLine(c, serial[c])

(* "Shutdown is ordered after every command already accepted ... so the actor *)
(* drains pending saves before joining."                                     *)
ShutdownDrains ==
  pc = "stopped" => \A c \in Client : client[c] = "live" => handled[c] = serial[c]

(* "The reply is sent only after every command accepted before this call     *)
(* (including detach cleanup) is applied."                                   *)
DiagnosticsAfterCleanup ==
  [][\A request \in inspections \ inspections' :
       /\ request.gone \cap documents = {}
       /\ \A c \in documents : lane[c].ops = <<>> /\ job = NoJob]_vars

(* "If the mailbox is full, the actor is already guaranteed to wake and       *)
(* observe the lease after draining commands accepted before this drop": a    *)
(* save accepted before its client is dropped is executed.                   *)
AcceptedSavesSurviveDrop ==
  \A c \in Client : lastSave[c] <= handled[c] \/ InLine(c, lastSave[c])

(* The lane of a dropped client goes away, although the Wake may have been   *)
(* refused and its events are never read.                                    *)
DroppedLanesGoAway ==
  \A c \in Client :
    (client[c] = "dropped" /\ c \in documents) ~> c \notin documents

(* A client that reads its events gets an answer to its newest call, although *)
(* a neighbour that never reads has its channel and pending queue full.      *)
SteadyClientsAnswered ==
  \A c \in Steady :
    (answered[c] # serial[c])
      ~> (answered[c] = serial[c] \/ client[c] # "live" \/ handle # "held")

(* ServiceInner::drop joins the actor: it always ends. *)
ActorJoins == (handle # "held") ~> (pc = "stopped")

(* Cleaning up needs nobody's help: lanes of dropped clients go away and the *)
(* service ends, with refused Wakes, full mailboxes and clients that do not  *)
(* read.                                                                     *)
CleanupCompletes == DroppedLanesGoAway /\ ActorJoins
=============================================================================

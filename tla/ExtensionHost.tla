---------------------------- MODULE ExtensionHost ----------------------------
(* The extension host (crates/key-extension-host/src/host.rs) with the loop
   of the reader that executes the effects the host accepts (reader.rs,
   app_extensions.rs).

   The host is single threaded: every method runs to its end, and methods call
   each other deeply (a violation suspends, a suspension reconciles the
   capabilities of the others, which suspends more of them and broadcasts,
   which may overflow the queue, which is a violation).  Each method is an
   operator from the host's state to its next state, under the method's name.
   process_tick runs code of the extensions, whose answers are free, so a tick
   is several steps of the model; nothing else of the user interface thread
   runs between them, nor between the steps of the reader's effect loop.

   An adapter is inline or deferred.  A deferred one (the WebAssembly worker,
   module WasmWorker) keeps the calls it was given, in order, and has finished
   some prefix of them when a tick drains it; at its limit it refuses an event.
   Coalescing in that mailbox only shortens the sequence, and is left to
   WasmWorker: this model refuses some events the worker would coalesce.

   Data is abstracted: a cause is its root and its depth, an effect is a call
   that passes or fails validation, the state of an extension is the document
   whose snapshot it retains.  Causes, effects and snapshots carry the document
   they come from, which the code does not keep. *)
EXTENDS Integers, Sequences, FiniteSets, SequencesExt, FiniteSetsExt

CONSTANTS
  Packages,            \* the extension ids, as a sequence in their order
  Manifest,            \* [id -> [requires, optional, provides, needs, bundled, deferred]]
  HostOffers,          \* capabilities the application registers
  MaxQueued,           \* HostConfig::maximum_queued_events
  EventsPerTick,       \* HostConfig::maximum_events_per_tick
  EventsPerCause,      \* HostConfig::maximum_events_per_cause_per_tick
  EffectsPerEvent,     \* HostConfig::maximum_effects_per_event
  DispatchDepth,       \* HostConfig::maximum_dispatch_depth
  ViolationLimit,      \* HostConfig::violations_before_suspension
  MailboxEvents,       \* event limit of a deferred adapter
  ChainLimit,          \* MAX_COMPLETION_CHAIN of the reader
  HostUses             \* what the user does and what it may set off: [calls, kinds, answers, start, ticks]

VARIABLES
  host,    \* ExtensionHost
  run,     \* the tick under way
  loop,    \* the effect loop of the reader
  doc,     \* the document generation of the reader
  uses,    \* operations the user may still perform
  ticks    \* ticks since the last of them

hostVars == <<host, run, loop, doc, uses, ticks>>

Ids == ToSet(Packages)

NoRun == [phase |-> "idle", results |-> <<>>, events |-> <<>>, budget |-> 0,
          causes |-> <<>>, report |-> <<>>]

\* A handler that succeeds and asks for nothing
Silent == [error |-> FALSE, effects |-> <<>>]

NoLoop == [todo |-> <<>>, steps |-> 0]

-----------------------------------------------------------------------------
(* Capabilities *)

Offers(h) ==
  h.offers \cup UNION {Manifest[e].provides : e \in {x \in Ids : h.state[x] = "Active"}}

\* resolve_capabilities: the required ones must all be offered
Resolvable(h, e) == Manifest[e].requires \subseteq Offers(h)

Resolve(h, e) == Manifest[e].requires \cup (Manifest[e].optional \cap Offers(h))

-----------------------------------------------------------------------------
(* The queue, violations, suspension and reconciliation call one another *)

RECURSIVE Violate(_, _), Suspended(_, _), Reconcile(_), Broadcast(_), Enqueue(_, _)

\* enqueue_event_internal; events queued during a tick wait for the next one
Enqueue(h, event) ==
  IF h.state[event.to] = "None" THEN h
  ELSE IF event.depth > DispatchDepth \/ Len(h.queue) >= MaxQueued
    THEN Violate(h, event.to)
  ELSE [h EXCEPT !.queue = Append(@, event)]

\* record_violation
Violate(h, e) ==
  IF h.gen[e] = 0 THEN h
  ELSE LET counted == [h EXCEPT !.violations[e] = @ + 1]
       IN IF counted.violations[e] >= ViolationLimit /\ h.state[e] = "Active"
          THEN Suspended(counted, e)
          ELSE counted

\* The queue and the pending effects without those of one extension
WithoutWork(h, e) ==
  [h EXCEPT !.queue = SelectSeq(@, LAMBDA event : event.to # e),
            !.pending = {p \in @ : p.owner # e}]

\* cancel_deferred_events: lifecycle calls stay with the adapter
OnlyLifecycle(calls) == SelectSeq(calls, LAMBDA call : call.kind # "event")

\* The body of suspend, for an active extension
Suspended(h, e) ==
  Broadcast(Reconcile(
    [WithoutWork(h, e) EXCEPT !.state[e] = "Suspended",
                              !.calls[e] = OnlyLifecycle(@)]))

\* reconcile_active_capabilities: all are resolved before any is suspended
Reconcile(h) ==
  LET active  == SelectSeq(Packages, LAMBDA e : h.state[e] = "Active")
      failing == SelectSeq(active, LAMBDA e : ~Resolvable(h, e))
      updated == [h EXCEPT !.granted = [e \in Ids |->
                    IF h.state[e] = "Active" /\ Resolvable(h, e)
                    THEN Resolve(h, e) ELSE h.granted[e]]]
  IN FoldLeft(LAMBDA g, e : IF g.state[e] = "Active" THEN Suspended(g, e) ELSE g,
              updated, failing)

HostEvent(e, kind, root, stamp) ==
  [to |-> e, kind |-> kind, root |-> root, depth |-> 0, effect |-> 0,
   fresh |-> TRUE, doc |-> stamp]

\* The names of causes matter only by equality: take one that is not in use
FreshRoot(h) ==
  Min((1 .. Cardinality(Ids) + Len(h.queue) + Cardinality(h.pending) + 1)
      \ ({h.queue[i].root : i \in DOMAIN h.queue} \cup {p.root : p \in h.pending}))

\* broadcast_capability_changes
Broadcast(h) ==
  FoldLeft(LAMBDA g, e : Enqueue(g, HostEvent(e, "capabilities", FreshRoot(g), 0)),
           h, SelectSeq(Packages, LAMBDA e : h.state[e] = "Active"))

-----------------------------------------------------------------------------
(* Lifecycle operations *)

\* check_dependencies: every required dependency is active
DependenciesActive(h, e) == \A d \in Manifest[e].needs : h.state[d] = "Active"

SafeModeAllows(h, e) == h.safe => Manifest[e].bundled

\* The guards of activate and resume up to the callback of the adapter
MayStart(h, e) ==
  /\ SafeModeAllows(h, e)
  /\ DependenciesActive(h, e)
  /\ Resolvable(h, e)

\* activate: Disabled and Failed fall back to Validated before the checks
Activated(h, e, outcome) ==
  LET ready == [h EXCEPT !.state[e] = "Validated"]
  IN IF ~MayStart(ready, e) THEN ready
     ELSE IF outcome = "error"
       THEN [ready EXCEPT !.state[e] = "Failed", !.next = @ + 1]
     ELSE Broadcast(
       [ready EXCEPT !.state[e] = "Active",
                     !.gen[e] = h.next,
                     !.next = @ + 1,
                     !.granted[e] = Resolve(ready, e),
                     !.violations[e] = 0,
                     !.retained[e] = 0,
                     !.calls[e] = IF Manifest[e].deferred
                                  THEN <<[kind |-> "activation"]>> ELSE <<>>])

\* resume keeps the generation and the violations
Resumed(h, e, outcome) ==
  LET ready == [h EXCEPT !.granted[e] = Resolve(h, e)]
  IN IF ~MayStart(h, e) THEN h
     ELSE IF outcome = "error" THEN ready
     ELSE Broadcast([ready EXCEPT !.state[e] = "Active",
                                  !.calls[e] = IF Manifest[e].deferred
                                               THEN Append(@, [kind |-> "resume"]) ELSE @])

\* The runtime of an extension is dropped: its adapter closes
WithoutRuntime(h, e) ==
  [h EXCEPT !.gen[e] = 0, !.granted[e] = {}, !.violations[e] = 0,
            !.retained[e] = 0, !.calls[e] = <<>>]

\* unload
Unloaded(h, e) ==
  IF h.state[e] = "Disabled" THEN h
  ELSE Broadcast(Reconcile(
         [WithoutWork(WithoutRuntime(h, e), e) EXCEPT !.state[e] = "Disabled"]))

\* remove: permissions and settings go with the record
Removed(h, e) ==
  [Unloaded(h, e) EXCEPT !.state[e] = "None", !.permitted[e] = FALSE]

\* fail_deferred_runtime
FailDeferred(h, e) ==
  Broadcast(Reconcile(
    [WithoutWork(WithoutRuntime(h, e), e) EXCEPT !.state[e] = "Failed"]))

\* set_safe_mode: the extensions to suspend are listed first
SafeMode(h, enabled) ==
  FoldLeft(LAMBDA g, e : IF g.state[e] = "Active" THEN Suspended(g, e) ELSE g,
           [h EXCEPT !.safe = enabled],
           SelectSeq(Packages, LAMBDA e :
             enabled /\ h.state[e] = "Active" /\ ~Manifest[e].bundled))

\* Mutant: events already with a deferred adapter survive
MutInvalidated(h) ==
  [h EXCEPT !.queue = <<>>, !.pending = {}, !.retained = [e \in Ids |-> 0]]

\* invalidate_document_scope
Invalidated(h) ==
  [h EXCEPT !.queue = <<>>, !.pending = {},
            !.calls = [e \in Ids |-> OnlyLifecycle(@[e])],
            !.retained = [e \in Ids |-> 0]]

\* set_permission_decision with purge_snapshot_namespaces_for_permission
Permitted(h, e, granted) ==
  [h EXCEPT !.permitted[e] = granted,
            !.retained[e] = IF granted THEN @ ELSE 0]

-----------------------------------------------------------------------------
(* Effects *)

\* An answer of an extension names the effects it asks for; "bad" ones fail the
\* checks of validate_effect, a call needs the optional capability it names
Valid(h, e, gen, what) ==
  /\ what # "bad"
  /\ h.gen[e] = gen
  /\ what = "call" => Manifest[e].optional \subseteq h.granted[e]

\* Effect ids are never reused (as the extensions of the repository choose
\* them), so any id that nobody refers to can stand for the next one
FreshEffect(h, accepted) ==
  Min((1 .. Cardinality(h.pending) + Len(h.queue) + Len(accepted) + Len(loop.todo)
            + Len(run.events) + 1)
      \ ({p.id : p \in h.pending} \cup {h.queue[i].effect : i \in DOMAIN h.queue}
         \cup {accepted[i].id : i \in DOMAIN accepted}
         \cup {loop.todo[i].id : i \in DOMAIN loop.todo}
         \cup {run.events[i].effect : i \in DOMAIN run.events}))

\* queue_effect_result and queue_completed_effect: the answer is a child of the
\* event that asked for the effect
AnswerEffect(h, p) ==
  IF h.gen[p.owner] # p.gen THEN h
  ELSE IF p.depth >= DispatchDepth THEN Violate(h, p.owner)
  ELSE Enqueue(h, [to |-> p.owner, kind |-> "completed", root |-> p.root,
                   depth |-> p.depth + 1, effect |-> p.id, fresh |-> TRUE,
                   doc |-> p.doc])

\* One request of an update: rejected, coalesced with an equal effect accepted in
\* this batch, or accepted
ArbitrateOne(s, event, gen, what) ==
  LET e     == event.to
      id    == FreshEffect(s.host, s.accepted)
      entry == [owner |-> e, id |-> id, gen |-> gen, root |-> event.root,
                depth |-> event.depth, doc |-> doc]
      equal == {i \in DOMAIN s.accepted :
                  s.accepted[i].owner = e /\ s.accepted[i].gen = gen
                  /\ s.accepted[i].what = what}
  IN IF ~Valid(s.host, e, gen, what)
     THEN [s EXCEPT !.host = AnswerEffect(@, entry)]
     ELSE LET kept == [s EXCEPT !.host.pending = @ \cup {entry}]
          IN IF equal # {}
             THEN [kept EXCEPT !.accepted[Min(equal)].followers = Append(@, id)]
             ELSE [kept EXCEPT !.accepted = Append(@,
                     [owner |-> e, gen |-> gen, id |-> id, what |-> what,
                      followers |-> <<>>])]

\* arbitrate_update_internal: too many effects are a violation, and the first
\* ones are arbitrated all the same
Arbitrate(h, accepted, event, gen, effects) ==
  FoldLeft(LAMBDA s, what : ArbitrateOne(s, event, gen, what),
           [host |-> IF Len(effects) > EffectsPerEvent THEN Violate(h, event.to) ELSE h,
            accepted |-> accepted],
           SubSeq(effects, 1, Min({Len(effects), EffectsPerEvent})))

\* complete_effect: the leader and the followers that are still pending
Complete(h, effect) ==
  LET Named(g, id) == {p \in g.pending : p.owner = effect.owner /\ p.id = id}
      Answer(g, id) ==
        LET removed == [g EXCEPT !.pending = @ \ Named(g, id)]
        IN IF Named(g, id) = {} THEN g
           ELSE AnswerEffect(removed,
                  [(CHOOSE p \in Named(g, id) : TRUE) EXCEPT !.gen = effect.gen])
  IN IF \A p \in Named(h, effect.id) : p.gen = effect.gen
     THEN IF Named(h, effect.id) = {} THEN h
          ELSE FoldLeft(Answer, h, <<effect.id>> \o effect.followers)
     ELSE [h EXCEPT !.pending = @ \ Named(h, effect.id)]

StillPending(h, effect) ==
  \E p \in h.pending : p.owner = effect.owner /\ p.id = effect.id
                       /\ p.gen = effect.gen

-----------------------------------------------------------------------------
(* process_tick *)

AllDue(h) == [h EXCEPT !.queue = [i \in DOMAIN @ |-> [@[i] EXCEPT !.fresh = FALSE]]]

\* Events that wait: pending_event_count
Waiting(h) ==
  Len(h.queue) + FoldLeft(LAMBDA n, e : n + Len(h.calls[e]), 0, Packages)

\* drain_deferred_adapter_updates: the first `ready` calls of each deferred
\* adapter are finished, and at most EventsPerTick are taken in all
Drained(h, ready) ==
  LET finished == FoldLeft(LAMBDA s, e :
        s \o [i \in 1 .. ready[e] |-> [of |-> e, call |-> h.calls[e][i]]],
        <<>>, Packages)
  IN SubSeq(finished, 1, Min({Len(finished), EventsPerTick}))

TakenFrom(results, e) == Len(SelectSeq(results, LAMBDA r : r.of = e))

\* A tick starts on the host `h`
TickFrom(h, number) ==
  \E ready \in [Ids -> 0 .. EventsPerTick] :
    /\ \A e \in Ids : ready[e] <= Len(h.calls[e])
    /\ LET results == Drained(h, ready) IN
       /\ host' = [AllDue(h) EXCEPT !.calls = [e \in Ids |->
                     SubSeq(@[e], TakenFrom(results, e) + 1, Len(@[e]))]]
       /\ run' = [NoRun EXCEPT !.phase = "results", !.results = results,
                               !.budget = EventsPerTick - Len(results)]
    /\ ticks' = number

\* replace_snapshot_state
Retain(h, event) ==
  IF event.kind = "snapshot" /\ h.gen[event.to] # 0
  THEN [h EXCEPT !.retained[event.to] = event.doc] ELSE h

\* The update of an event is applied: its effects, then the snapshot
Update(h, event, answer) ==
  LET judged == Arbitrate(h, run.report, event, h.gen[event.to], answer)
  IN [host |-> Retain(judged.host, event), accepted |-> judged.accepted]

\* apply_deferred_adapter_update for the next drained result
ApplyResult(answer) ==
  /\ run.phase = "results" /\ run.results # <<>>
  /\ LET e    == Head(run.results).of
         call == Head(run.results).call
         done == [run EXCEPT !.results = Tail(@)]
         kept == host' = host /\ run' = done
         judged == IF answer.error THEN Violate(host, e) ELSE host
         next == Update(judged, call.event, IF answer.error THEN <<>> ELSE answer.effects)
     IN \/ /\ call.kind # "event" /\ answer.error
           /\ host.state[e] \in {"Active", "Suspended"}
           /\ host' = FailDeferred(host, e)
           /\ run' = done
        \/ call.kind # "event" /\ answer = Silent /\ kept
        \/ call.kind = "event" /\ host.state[e] # "Active" /\ answer = Silent /\ kept
        \/ /\ call.kind = "event" /\ host.state[e] = "Active"
           /\ judged.state[e] # "Active"
           /\ host' = judged /\ run' = done
        \/ /\ call.kind = "event" /\ host.state[e] = "Active"
           /\ judged.state[e] = "Active"
           /\ host' = next.host
           /\ run' = [done EXCEPT !.report = next.accepted]
  /\ UNCHANGED <<loop, doc, uses, ticks>>

Positions(s, chosen) ==
  LET order == SetToSortSeq(chosen, LAMBDA i, j : i < j)
  IN [i \in DOMAIN order |-> s[order[i]]]

\* The events that are due and fit the budget, in order; the rest stays queued
HostSelect ==
  /\ run.phase = "results" /\ run.results = <<>>
  /\ LET due    == {i \in DOMAIN host.queue : ~host.queue[i].fresh}
         chosen == {i \in due : Cardinality({j \in due : j <= i}) <= run.budget}
     IN /\ host' = [host EXCEPT !.queue = Positions(@, DOMAIN @ \ chosen)]
        /\ run' = [run EXCEPT !.phase = "events", !.events = Positions(host.queue, chosen)]
  /\ UNCHANGED <<loop, doc, uses, ticks>>

Authorized(h, event) == event.kind = "snapshot" => h.permitted[event.to]

\* One selected event
HostDeliver(answer) ==
  /\ run.phase = "events" /\ run.events # <<>>
  /\ LET event  == Head(run.events)
         e      == event.to
         seen   == Append(run.causes, <<e, event.root>>)
         done   == [run EXCEPT !.events = Tail(@), !.causes = seen]
         count  == Len(SelectSeq(seen, LAMBDA c : c = <<e, event.root>>))
         full   == Len(SelectSeq(host.calls[e], LAMBDA c : c.kind = "event"))
                     >= MailboxEvents
         failed == answer.error \/ Manifest[e].deferred
         judged == IF failed THEN Violate(host, e) ELSE host
         next   == Update(judged, event, IF failed THEN <<>> ELSE answer.effects)
     IN \/ /\ count > EventsPerCause /\ answer = Silent
           /\ host' = Violate(host, e) /\ run' = done
        \/ /\ count <= EventsPerCause /\ answer = Silent
           /\ host.state[e] # "Active" \/ ~Authorized(host, event)
           /\ host' = host /\ run' = done
        \/ /\ count <= EventsPerCause
           /\ host.state[e] = "Active" /\ Authorized(host, event)
           /\ IF Manifest[e].deferred /\ ~full
              THEN /\ answer = Silent
                   /\ host' = [host EXCEPT !.calls[e] =
                                 Append(@, [kind |-> "event", event |-> event])]
                   /\ run' = done
              ELSE /\ Manifest[e].deferred => answer = Silent
                   /\ host' = next.host
                   /\ run' = [done EXCEPT !.report = next.accepted]
  /\ UNCHANGED <<loop, doc, uses, ticks>>

\* The tick returns: its report goes to the effect loop
EndTick ==
  /\ run.phase = "events" /\ run.events = <<>>
  /\ run' = NoRun
  /\ loop' = [loop EXCEPT !.todo = @ \o run.report]
  /\ UNCHANGED <<host, doc, uses, ticks>>

-----------------------------------------------------------------------------
(* The reader: execute_extension_effects *)

Busy == run.phase # "idle" \/ loop.todo # <<>>

\* One effect of the loop is executed and completed, and the host ticks.  An
\* effect that is not pending any more ends the loop with what is left of it.
ExecuteEffect ==
  /\ run.phase = "idle" /\ loop.todo # <<>>
  /\ UNCHANGED <<doc, uses>>
  /\ LET effect == Head(loop.todo)
     IN IF loop.steps >= ChainLimit
        THEN loop' = NoLoop /\ UNCHANGED <<host, run, ticks>>
        ELSE IF StillPending(host, effect)
        THEN /\ TickFrom(Complete(host, effect), ticks + 1)
             /\ loop' = [todo |-> Tail(loop.todo), steps |-> loop.steps + 1]
        ELSE /\ host' = Complete(host, effect)
             /\ loop' = NoLoop /\ UNCHANGED <<run, ticks>>

\* The loop ended
EndLoop ==
  /\ ~Busy /\ loop # NoLoop
  /\ loop' = NoLoop
  /\ UNCHANGED <<host, run, doc, uses, ticks>>

Free == ~Busy /\ loop = NoLoop

HostUse(kind) ==
  /\ Free /\ uses.calls > 0 /\ kind \in uses.kinds
  /\ uses' = [uses EXCEPT !.calls = @ - 1]

-----------------------------------------------------------------------------
(* What the user and the package manager do *)

\* invoke_command, then process_tick
HostCommand ==
  \E e \in Ids :
    /\ HostUse("command")
    /\ host.state[e] # "None"
    /\ IF Len(host.queue) >= MaxQueued
       THEN host' = Violate(host, e) /\ ticks' = 0 /\ UNCHANGED run
       ELSE TickFrom(Enqueue(host, HostEvent(e, "command", FreshRoot(host), doc)), 1)
    /\ UNCHANGED <<loop, doc>>

\* publish_snapshots with a changed snapshot: to every authorised runtime; the
\* first one that finds the queue full ends it without a tick
HostPublish ==
  /\ HostUse("snapshot")
  /\ LET targets == SelectSeq(Packages, LAMBDA e : host.gen[e] # 0 /\ host.permitted[e])
         room    == MaxQueued - Len(host.queue)
         Send(g, e) == Enqueue(g, HostEvent(e, "snapshot", FreshRoot(g), doc))
     IN IF Len(targets) > room
        THEN /\ host' = FoldLeft(Send, host, SubSeq(targets, 1, room + 1))
             /\ ticks' = 0 /\ UNCHANGED run
        ELSE TickFrom(FoldLeft(Send, host, targets), 1)
  /\ UNCHANGED <<loop, doc>>

\* publish_snapshots with nothing new: a tick while something waits (a tick that
\* finds no event and no finished result changes nothing)
IdleTick ==
  /\ Free /\ Waiting(host) > 0
  /\ TickFrom(host, ticks + 1)
  /\ host.queue # <<>> \/ run'.results # <<>>
  /\ UNCHANGED <<loop, doc, uses>>

\* An operation of the host that is a method without a tick
Operate(kind, next) ==
  /\ HostUse(kind)
  /\ host' = next
  /\ ticks' = 0
  /\ UNCHANGED <<run, loop, doc>>

HostInstall == \E e \in Ids :
  /\ host.state[e] = "None"
  /\ Operate("install", [host EXCEPT !.state[e] = "Validated"])

HostActivate == \E e \in Ids, outcome \in {"ok", "error"} :
  /\ host.state[e] \in {"Validated", "Disabled", "Failed"}
  /\ Operate("activate", Activated(host, e, outcome))

HostSuspend == \E e \in Ids :
  /\ host.state[e] = "Active"
  /\ Operate("suspend", Suspended(host, e))

HostResume == \E e \in Ids, outcome \in {"ok", "error"} :
  /\ host.state[e] = "Suspended"
  /\ Operate("resume", Resumed(host, e, outcome))

HostUnload == \E e \in Ids :
  /\ host.state[e] # "None"
  /\ Operate("unload", Unloaded(host, e))

HostRemove == \E e \in Ids :
  /\ host.state[e] # "None"
  /\ Operate("remove", Removed(host, e))

SetSafeMode == \E enabled \in BOOLEAN : Operate("safe", SafeMode(host, enabled))

SetPermission == \E e \in Ids, granted \in BOOLEAN :
  Operate("permission", Permitted(host, e, granted))

\* register_host_capability and remove_host_capability
HostOffer == \E c \in HostOffers, present \in BOOLEAN :
  Operate("offer", Broadcast(Reconcile(
    [host EXCEPT !.offers = IF present THEN @ \cup {c} ELSE @ \ {c}])))

\* The reader moves to another document
OpenDocument ==
  /\ HostUse("document")
  /\ host' = Invalidated(host)
  /\ doc' = doc + 1
  /\ ticks' = 0
  /\ UNCHANGED <<run, loop>>

-----------------------------------------------------------------------------

\* The application has started its packages in their order
Started(active) ==
  [state |-> [e \in Ids |-> IF e \in active THEN "Active" ELSE "Validated"],
   gen |-> [e \in Ids |-> IF e \in active THEN 1 ELSE 0],
   granted |-> [e \in Ids |-> IF e \in active
                 THEN Manifest[e].requires \cup Manifest[e].optional ELSE {}],
   violations |-> [e \in Ids |-> 0],
   calls |-> [e \in Ids |-> <<>>],
   retained |-> [e \in Ids |-> 0],
   permitted |-> [e \in Ids |-> TRUE],
   queue |-> <<>>, pending |-> {}, offers |-> HostOffers, next |-> 2, safe |-> FALSE]

HostInit ==
  /\ uses \in HostUses
  /\ host = Started(uses.start)
  /\ run = NoRun
  /\ loop = NoLoop
  /\ doc = 1
  /\ ticks = 0

Answered == \E answer \in uses.answers : ApplyResult(answer) \/ HostDeliver(answer)

\* The steps of the user interface thread that no user asks for
HostWork ==
  \/ Answered \/ HostSelect \/ EndTick
  \/ ExecuteEffect \/ EndLoop \/ IdleTick

HostNext ==
  \/ HostWork
  \/ HostCommand \/ HostPublish \/ OpenDocument
  \/ HostInstall \/ HostActivate \/ HostSuspend \/ HostResume
  \/ HostUnload \/ HostRemove
  \/ SetSafeMode \/ SetPermission \/ HostOffer

HostSpec == HostInit /\ [][HostNext]_hostVars

-----------------------------------------------------------------------------
(* Properties *)

\* Every field has its type and the queue never exceeds its limit
\* (enqueue_event_internal).
HostTypeOK ==
  /\ \A e \in Ids :
       /\ host.state[e] \in {"None", "Validated", "Active", "Suspended", "Disabled", "Failed"}
       /\ host.gen[e] < host.next
       /\ host.gen[e] # 0 <=> host.state[e] \in {"Active", "Suspended"}
       /\ ~Manifest[e].deferred => host.calls[e] = <<>>
       /\ Len(SelectSeq(host.calls[e], LAMBDA c : c.kind = "event")) <= MailboxEvents
  /\ Len(host.queue) <= MaxQueued
  /\ run.phase \in {"idle", "results", "events"}
  /\ loop.steps <= ChainLimit
  /\ doc \in Nat \ {0}

\* Whatever was suspended, unloaded, removed or failed, and however deep the
\* cascade went (reconcile_active_capabilities), an active extension holds the
\* capabilities it requires and none that nobody offers any more.
AuthorityIsBacked ==
  \A e \in Ids : host.state[e] = "Active" =>
    /\ Manifest[e].requires \subseteq host.granted[e]
    /\ host.granted[e] \subseteq Offers(host)

\* No third-party extension is active in safe mode, by any path
\* (set_safe_mode, activate, resume).
SafeModeHolds ==
  host.safe => \A e \in Ids : host.state[e] = "Active" => Manifest[e].bundled

\* A pending effect belongs to the generation of its extension that is loaded
\* now: no effect outlives unload, failure or replacement of its runtime.
PendingIsOwned == \A p \in host.pending : host.gen[p.owner] = p.gen

\* Nothing of an earlier document reaches an extension or stays in its state:
\* invalidate_document_scope "establishes a document-state barrier".
BarrierHolds ==
  LET Current(stamp) == stamp \in {0, doc} IN
  /\ \A i \in DOMAIN host.queue : Current(host.queue[i].doc)
  /\ \A i \in DOMAIN run.events : Current(run.events[i].doc)
  /\ \A e \in Ids :
       /\ Current(host.retained[e])
       /\ \A i \in DOMAIN host.calls[e] :
            host.calls[e][i].kind = "event" => Current(host.calls[e][i].event.doc)
  /\ \A p \in host.pending : Current(p.doc)

\* Feedback dies out: extensions that answer every event with more effects run
\* into the depth limit or are suspended (child_cause, record_violation), so
\* that what one operation sets off is over after a bounded number of ticks.
FeedbackEnds == ticks <= uses.ticks

\* The host's records agree after every step of every cascade: authority is
\* backed, pending effects are owned, safe mode and the document barrier hold, and
\* feedback dies out.
HostConsistent ==
  HostTypeOK /\ AuthorityIsBacked /\ SafeModeHolds /\ PendingIsOwned /\ BarrierHolds
    /\ FeedbackEnds
=============================================================================

-------------------------- MODULE LatestWinsQueue ---------------------------
(***************************************************************************)
(* key_pdf_runtime::LatestWinsQueue (crates/key-pdf-runtime/src/            *)
(* scheduler.rs): the bounded, de-duplicating demand scheduler with         *)
(* cooperative cancellation and a publication gate.                         *)
(*                                                                         *)
(* Every accepted demand gets a fresh revision and a CancellationSource of  *)
(* its own, so a token is identified here with its revision.  A worker      *)
(* keeps the ScheduledDemand it popped and may report it finished at any    *)
(* later time, more than once.                                              *)
(***************************************************************************)
EXTENDS Integers, FiniteSets

CONSTANTS
  Key,          \* the demand keys (K: Clone + Eq + Hash)
  Priority,     \* DemandPriority, an ordered newtype over an integer
  Capacity,     \* capacity: usize
  MaxInFlight,  \* max_in_flight: usize, non-zero
  MaxRevision   \* bound: the revisions a run allocates

ASSUME KeyAssumption == IsFiniteSet(Key)
ASSUME PriorityAssumption == Priority \subseteq Int
ASSUME BoundsAssumption ==
  Capacity \in Nat /\ MaxInFlight \in Nat \ {0} /\ MaxRevision \in Nat

VARIABLES
  nextRevision, \* next_revision
  queued,       \* queued: key -> [revision, priority], revision 0 if absent
  inFlight,     \* in_flight: key -> revision, 0 if absent
  latest,       \* latest: key -> revision, 0 if absent
  cancelled,    \* the revisions whose CancellationSource is cancelled
  issued,       \* the ScheduledDemands handed to workers
  reported,     \* history: those a worker has called finish with
  published     \* history: the revision last published for each key, or 0

vars == <<nextRevision, queued, inFlight, latest, cancelled, issued, reported,
          published>>

NotQueued == [revision |-> 0, priority |-> 0]        \* no entry
Queued == [revision : 1..MaxRevision, priority : Priority] \cup {NotQueued}
Present == {k \in Key : queued[k].revision # 0}      \* queued.keys()
Running == {k \in Key : inFlight[k] # 0}             \* in_flight.keys()

\* The order of the sort key (priority, revision).
Before(a, b) == \/ queued[a].priority < queued[b].priority
                \/ /\ queued[a].priority = queued[b].priority
                   /\ queued[a].revision <= queued[b].revision

\* The token of a map entry, as the set of revisions to cancel.
TokenOf(r) == {r} \ {0}

Absent(k) == [queued EXCEPT ![k] = NotQueued]

Init == \* with_max_in_flight
  /\ nextRevision = 1
  /\ queued = [k \in Key |-> NotQueued]
  /\ inFlight = [k \in Key |-> 0]
  /\ latest = [k \in Key |-> 0]
  /\ cancelled = {}
  /\ issued = {}
  /\ reported = {}
  /\ published = [k \in Key |-> 0]

-----------------------------------------------------------------------------
(* schedule.  The demand enters with the next revision, the key's running   *)
(* demand is cancelled and the publication gate moves to the new revision.  *)

MutRevisionZero(k, p, q, l, c) ==
  /\ nextRevision <= MaxRevision
  /\ nextRevision' = nextRevision + 1
  /\ queued' = [q EXCEPT ![k] = [revision |-> nextRevision - 1, priority |-> p]]
  /\ latest' = [l EXCEPT ![k] = nextRevision - 1]
  /\ cancelled' = cancelled \cup c \cup TokenOf(inFlight[k])
  /\ UNCHANGED <<inFlight, issued, reported, published>>

Enqueue(k, p, q, l, c) ==
  /\ nextRevision <= MaxRevision
  /\ nextRevision' = nextRevision + 1
  /\ queued' = [q EXCEPT ![k] = [revision |-> nextRevision, priority |-> p]]
  /\ latest' = [l EXCEPT ![k] = nextRevision]
  /\ cancelled' = cancelled \cup c \cup TokenOf(inFlight[k])
  /\ UNCHANGED <<inFlight, issued, reported, published>>

\* ScheduleOutcome::Replaced
ScheduleReplaced(k, p) ==
  /\ Capacity # 0
  /\ k \in Present
  /\ Enqueue(k, p, queued, latest, TokenOf(queued[k].revision))

MutNoCapacityTest(k, p) ==
  /\ Capacity # 0
  /\ k \notin Present
  /\ Enqueue(k, p, queued, latest, {})

\* ScheduleOutcome::Queued
ScheduleQueued(k, p) ==
  /\ Capacity # 0
  /\ k \notin Present
  /\ Cardinality(Present) < Capacity
  /\ Enqueue(k, p, queued, latest, {})

\* The candidate of a full queue: its least (priority, revision).
EvictionKey(e) == e \in Present /\ \A j \in Present : Before(e, j)

\* ScheduleOutcome::Evicted
ScheduleEvicted(k, p, e) ==
  /\ Capacity # 0
  /\ k \notin Present
  /\ Cardinality(Present) >= Capacity
  /\ EvictionKey(e)
  /\ p >= queued[e].priority
  /\ Enqueue(k, p, Absent(e),
             IF latest[e] = queued[e].revision
               THEN [latest EXCEPT ![e] = 0] ELSE latest,
             TokenOf(queued[e].revision))

\* ScheduleOutcome::Rejected
ScheduleRejected(k, p) ==
  /\ \/ Capacity = 0
     \/ /\ k \notin Present
        /\ Cardinality(Present) >= Capacity
        /\ \E e \in Key : EvictionKey(e) /\ p < queued[e].priority
  /\ UNCHANGED vars

-----------------------------------------------------------------------------
\* The candidates of pop_next: a key with a demand running is passed over.
MutPoppable == Present
Poppable == Present \ Running

PopNext(k) ==
  /\ Cardinality(Running) < MaxInFlight
  /\ k \in Poppable
  /\ \A j \in Poppable : Before(j, k)
  /\ queued' = Absent(k)
  /\ inFlight' = [inFlight EXCEPT ![k] = queued[k].revision]
  /\ issued' = issued \cup {[key |-> k, revision |-> queued[k].revision]}
  /\ UNCHANGED <<nextRevision, latest, cancelled, reported, published>>

\* CompletionDisposition::Publish
MutPublishAny(d) ==
  /\ inFlight[d.key] = d.revision
  /\ inFlight' = [inFlight EXCEPT ![d.key] = 0]
  /\ latest' = [latest EXCEPT ![d.key] = 0]
  /\ published' = [published EXCEPT ![d.key] = d.revision]
  /\ reported' = reported \cup {d}
  /\ UNCHANGED <<nextRevision, queued, cancelled, issued>>

FinishPublish(d) ==
  /\ inFlight[d.key] = d.revision
  /\ inFlight' = [inFlight EXCEPT ![d.key] = 0]
  /\ latest[d.key] = d.revision
  /\ latest' = [latest EXCEPT ![d.key] = 0]
  /\ published' = [published EXCEPT ![d.key] = d.revision]
  /\ reported' = reported \cup {d}
  /\ UNCHANGED <<nextRevision, queued, cancelled, issued>>

\* CompletionDisposition::Stale
MutStaleKeepsSlot(d) ==
  /\ inFlight[d.key] = d.revision
  /\ latest[d.key] # d.revision
  /\ reported' = reported \cup {d}
  /\ UNCHANGED <<nextRevision, queued, inFlight, latest, cancelled, issued, published>>

FinishStale(d) ==
  /\ inFlight[d.key] = d.revision
  /\ inFlight' = [inFlight EXCEPT ![d.key] = 0]
  /\ latest[d.key] # d.revision
  /\ reported' = reported \cup {d}
  /\ UNCHANGED <<nextRevision, queued, latest, cancelled, issued, published>>

\* CompletionDisposition::Unknown
FinishUnknown(d) ==
  /\ inFlight[d.key] # d.revision
  /\ reported' = reported \cup {d}
  /\ UNCHANGED <<nextRevision, queued, inFlight, latest, cancelled, issued, published>>

Cancel(k) ==
  /\ latest' = [latest EXCEPT ![k] = 0]
  /\ cancelled' = cancelled \cup TokenOf(inFlight[k])
                            \cup TokenOf(queued[k].revision)
  /\ queued' = Absent(k)
  /\ UNCHANGED <<nextRevision, inFlight, issued, reported, published>>

MutClearKeepsGate ==
  /\ cancelled' = cancelled \cup {inFlight[k] : k \in Running}
                            \cup {queued[k].revision : k \in Present}
  /\ queued' = [k \in Key |-> NotQueued]
  /\ UNCHANGED <<nextRevision, inFlight, latest, issued, reported, published>>

ClearPending ==
  /\ latest' = [k \in Key |-> 0]
  /\ cancelled' = cancelled \cup {inFlight[k] : k \in Running}
                            \cup {queued[k].revision : k \in Present}
  /\ queued' = [k \in Key |-> NotQueued]
  /\ UNCHANGED <<nextRevision, inFlight, issued, reported, published>>

Schedule(k, p) == \/ ScheduleReplaced(k, p)
                  \/ ScheduleQueued(k, p)
                  \/ \E e \in Key : ScheduleEvicted(k, p, e)
                  \/ ScheduleRejected(k, p)

Finish(d) == FinishPublish(d) \/ FinishStale(d) \/ FinishUnknown(d)

Next == \/ \E k \in Key, p \in Priority : Schedule(k, p)
        \/ \E k \in Key : PopNext(k)
        \/ \E d \in issued : Finish(d)
        \/ \E k \in Key : Cancel(k)
        \/ ClearPending

Spec == Init /\ [][Next]_vars

\* A worker that is idle pops, and reports what it popped.
Work == \/ \E k \in Key : PopNext(k)
        \/ \E d \in issued : FinishPublish(d) \/ FinishStale(d)
FairSpec == Spec /\ WF_vars(Work)

-----------------------------------------------------------------------------
TypeOK ==
  /\ nextRevision \in 1..(MaxRevision + 1)
  /\ queued \in [Key -> Queued]
  /\ inFlight \in [Key -> 0..MaxRevision]
  /\ latest \in [Key -> 0..MaxRevision]
  /\ cancelled \subseteq 1..MaxRevision
  /\ issued \subseteq [key : Key, revision : 1..MaxRevision]
  /\ reported \subseteq issued
  /\ published \in [Key -> 0..MaxRevision]

(* The revision of the work for k that nobody has cancelled: the queued one, *)
(* or else the running one while its token is live.                          *)
Live(k) == IF k \in Present THEN queued[k].revision
           ELSE IF inFlight[k] \in cancelled THEN 0
           ELSE inFlight[k]

(* The publication gate and the tokens tell the same story: the revision     *)
(* whose result would be published for k is exactly the one whose token is   *)
(* still live.  A worker is never told to stop work that would be published, *)
(* never left running for a result that would be dropped, and `latest` never *)
(* keeps an entry for work that is gone.                                     *)
GateMatchesTokens == \A k \in Key : latest[k] = Live(k)

(* `queued` and `in_flight` stay within the limits given to                  *)
(* with_max_in_flight, and `latest` within the sum it is allocated for.      *)
WithinLimits ==
  /\ Cardinality(Present) <= Capacity
  /\ Cardinality(Running) <= MaxInFlight
  /\ Cardinality({k \in Key : latest[k] # 0}) <= Capacity + MaxInFlight

(* `in_flight` holds exactly the demands that workers have and have not      *)
(* reported: no key is handed to a second worker while the first has it, no  *)
(* slot is freed by the report of another demand or kept after its own, so   *)
(* max_in_flight bounds the workers really at work.                          *)
IssuedAccounted ==
  issued \ reported = {[key |-> k, revision |-> inFlight[k]] : k \in Running}

(* Every revision names one piece of work: it is never reused, never shared  *)
(* by two keys or by a key's queued and running demand, what is queued is    *)
(* newer than what the key runs or has published, and a running demand that  *)
(* something newer waits for has been told to stop.                          *)
RevisionsOwned ==
  /\ \A k \in Key : /\ queued[k].revision < nextRevision
                    /\ inFlight[k] < nextRevision
                    /\ published[k] < nextRevision
  /\ \A r \in cancelled : r < nextRevision
  /\ \A k \in Present : /\ queued[k].revision \notin cancelled
                        /\ inFlight[k] < queued[k].revision
                        /\ published[k] < queued[k].revision
                        /\ inFlight[k] = 0 \/ inFlight[k] \in cancelled
  /\ \A k \in Running : inFlight[k] \in cancelled \/ published[k] < inFlight[k]
  /\ \A j, k \in Key : j # k =>
       /\ j \in Present => /\ queued[j].revision # queued[k].revision
                           /\ queued[j].revision # inFlight[k]
       /\ j \in Running => inFlight[j] # inFlight[k]

(* Refinement: seen through the live tokens, every call of the queue is a    *)
(* demand, a withdrawal, a publication of the demand that counts, or         *)
(* invisible.                                                                *)
Abstract == INSTANCE LatestWins WITH
  demand <- [k \in Key |-> Live(k)], Revision <- 1..MaxRevision
ImplementsLatestWins == Abstract!Spec

(* Once callers stop demanding, every demand still wanted is published or    *)
(* withdrawn, although a key whose old demand is still running is skipped.   *)
EveryDemandSettles ==
  \A k \in Key : (latest[k] # 0) ~> (latest[k] = 0)
=============================================================================

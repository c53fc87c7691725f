----------------------- MODULE LatestWinsQueueProofs ------------------------
(***************************************************************************)
(* Proofs about LatestWinsQueue for every set of keys and priorities, every *)
(* capacity, every number of workers and every number of revisions.         *)
(***************************************************************************)
EXTENDS LatestWinsQueue, FiniteSetTheorems, TLAPS

(* The queue's type invariant holds for every reachable state. *)
LEMMA TypeInit == Init => TypeOK
BY BoundsAssumption DEF Init, TypeOK, Queued, NotQueued

(* A schedule that enters the queue keeps the types. *)
LEMMA TypeEnqueue ==
  ASSUME TypeOK, NEW k \in Key, NEW p \in Priority,
         NEW q \in [Key -> Queued], NEW l \in [Key -> 0..MaxRevision],
         NEW c \in SUBSET (1..MaxRevision), Enqueue(k, p, q, l, c)
  PROVE  TypeOK'
<1> USE BoundsAssumption
<1>1. nextRevision \in 1..MaxRevision
  BY DEF TypeOK, Enqueue
<1>2. nextRevision' \in 1..(MaxRevision + 1)
  BY <1>1 DEF Enqueue
<1>3. [revision |-> nextRevision, priority |-> p] \in Queued
  BY <1>1 DEF Queued
<1>4. queued' \in [Key -> Queued] /\ latest' \in [Key -> 0..MaxRevision]
  BY <1>1, <1>3 DEF Enqueue
<1>5. TokenOf(inFlight[k]) \subseteq 1..MaxRevision
  BY DEF TokenOf, TypeOK
<1>6. cancelled' \subseteq 1..MaxRevision
  BY <1>5 DEF Enqueue, TypeOK
<1> QED
  BY <1>2, <1>4, <1>6 DEF Enqueue, TypeOK

(* Reading a queue entry: what Queued says of it. *)
LEMMA QueuedEntry ==
  ASSUME TypeOK, NEW k \in Key
  PROVE  /\ queued[k] \in Queued
         /\ queued[k].revision \in 0..MaxRevision
         /\ k \in Present => queued[k].revision \in 1..MaxRevision
         /\ k \in Present => queued[k].priority \in Priority
         /\ TokenOf(queued[k].revision) \subseteq 1..MaxRevision
         /\ TokenOf(inFlight[k]) \subseteq 1..MaxRevision
         /\ Absent(k) \in [Key -> Queued]
<1>1. queued[k] \in Queued
  BY DEF TypeOK
<1>2. queued[k].revision \in 0..MaxRevision
  BY <1>1, BoundsAssumption DEF Queued, NotQueued
<1>3. k \in Present => queued[k].revision \in 1..MaxRevision
  BY <1>2 DEF Present
<1>4. k \in Present => queued[k].priority \in Priority
  BY <1>1 DEF Queued, NotQueued, Present
<1>5. TokenOf(queued[k].revision) \subseteq 1..MaxRevision
  BY <1>2, BoundsAssumption DEF TokenOf
<1>6. TokenOf(inFlight[k]) \subseteq 1..MaxRevision
  BY BoundsAssumption DEF TokenOf, TypeOK
<1>7. Absent(k) \in [Key -> Queued]
  BY DEF Absent, TypeOK, Queued
<1> QED BY <1>1, <1>2, <1>3, <1>4, <1>5, <1>6, <1>7

(* Every step keeps the types. *)
LEMMA TypeNext == TypeOK /\ [Next]_vars => TypeOK'
<1> SUFFICES ASSUME TypeOK, [Next]_vars PROVE TypeOK'
  OBVIOUS
<1> USE BoundsAssumption
<1>1. ASSUME NEW k \in Key, NEW p \in Priority, ScheduleReplaced(k, p) PROVE TypeOK'
  <2>1. TokenOf(queued[k].revision) \in SUBSET (1..MaxRevision)
    BY QueuedEntry
  <2>2. queued \in [Key -> Queued] /\ latest \in [Key -> 0..MaxRevision]
    BY DEF TypeOK
  <2> QED BY <1>1, <2>1, <2>2, TypeEnqueue DEF ScheduleReplaced
<1>2. ASSUME NEW k \in Key, NEW p \in Priority, ScheduleQueued(k, p) PROVE TypeOK'
  <2>1. queued \in [Key -> Queued] /\ latest \in [Key -> 0..MaxRevision]
    BY DEF TypeOK
  <2> QED BY <1>2, <2>1, TypeEnqueue DEF ScheduleQueued
<1>3. ASSUME NEW k \in Key, NEW p \in Priority, NEW e \in Key,
             ScheduleEvicted(k, p, e)
      PROVE TypeOK'
  <2> DEFINE l == IF latest[e] = queued[e].revision
                    THEN [latest EXCEPT ![e] = 0] ELSE latest
  <2>1. l \in [Key -> 0..MaxRevision]
    BY DEF TypeOK
  <2>2. TokenOf(queued[e].revision) \in SUBSET (1..MaxRevision)
        /\ Absent(e) \in [Key -> Queued]
    BY QueuedEntry
  <2>3. Enqueue(k, p, Absent(e), l, TokenOf(queued[e].revision))
    BY <1>3 DEF ScheduleEvicted
  <2> HIDE DEF l
  <2> QED BY <2>1, <2>2, <2>3, TypeEnqueue
<1>4. ASSUME NEW k \in Key, PopNext(k) PROVE TypeOK'
  <2>1. k \in Present
    BY <1>4 DEF PopNext, Poppable
  <2>2. Absent(k) \in [Key -> Queued] /\ queued[k].revision \in 1..MaxRevision
    BY <2>1, QueuedEntry
  <2>3. inFlight' \in [Key -> 0..MaxRevision]
    BY <1>4, <2>2 DEF PopNext, TypeOK
  <2>4. issued' \subseteq [key : Key, revision : 1..MaxRevision]
    BY <1>4, <2>2 DEF PopNext, TypeOK
  <2> QED BY <1>4, <2>2, <2>3, <2>4 DEF PopNext, TypeOK
<1>5. ASSUME NEW d \in issued, Finish(d) PROVE TypeOK'
  <2>1. d.key \in Key /\ d.revision \in 1..MaxRevision
    BY DEF TypeOK
  <2>2. CASE FinishPublish(d)
    <3>1. /\ inFlight' \in [Key -> 0..MaxRevision]
          /\ latest' \in [Key -> 0..MaxRevision]
      BY <2>1, <2>2 DEF FinishPublish, TypeOK
    <3>2. published' \in [Key -> 0..MaxRevision]
      BY <2>1, <2>2 DEF FinishPublish, TypeOK
    <3>3. reported' \subseteq issued'
      BY <2>2 DEF FinishPublish, TypeOK
    <3> QED BY <2>2, <3>1, <3>2, <3>3 DEF FinishPublish, TypeOK
  <2>3. CASE FinishStale(d)
    <3>1. inFlight' \in [Key -> 0..MaxRevision]
      BY <2>1, <2>3 DEF FinishStale, TypeOK
    <3> QED BY <2>3, <3>1 DEF FinishStale, TypeOK
  <2>4. CASE FinishUnknown(d)
    BY <2>4 DEF FinishUnknown, TypeOK, vars
  <2> QED BY <1>5, <2>2, <2>3, <2>4 DEF Finish
<1>6. ASSUME NEW k \in Key, Cancel(k) PROVE TypeOK'
  <2>1. /\ TokenOf(queued[k].revision) \subseteq 1..MaxRevision
        /\ TokenOf(inFlight[k]) \subseteq 1..MaxRevision
        /\ Absent(k) \in [Key -> Queued]
    BY QueuedEntry
  <2>2. cancelled' \subseteq 1..MaxRevision
    BY <1>6, <2>1 DEF Cancel, TypeOK
  <2>3. latest' \in [Key -> 0..MaxRevision]
    BY <1>6 DEF Cancel, TypeOK
  <2> QED BY <1>6, <2>1, <2>2, <2>3 DEF Cancel, TypeOK
<1>7. CASE ClearPending
  <2>1. {inFlight[k] : k \in Running} \subseteq 1..MaxRevision
    BY DEF Running, TypeOK
  <2>2. {queued[k].revision : k \in Present} \subseteq 1..MaxRevision
    BY QueuedEntry DEF Present
  <2>3. cancelled' \subseteq 1..MaxRevision
    BY <1>7, <2>1, <2>2 DEF ClearPending, TypeOK
  <2>4. queued' \in [Key -> Queued] /\ latest' \in [Key -> 0..MaxRevision]
    BY <1>7 DEF ClearPending, Queued
  <2> QED BY <1>7, <2>3, <2>4 DEF ClearPending, TypeOK
<1>8. CASE UNCHANGED vars
  BY <1>8 DEF TypeOK, vars
<1>9. ASSUME NEW k \in Key, NEW p \in Priority, ScheduleRejected(k, p) PROVE TypeOK'
  BY <1>9 DEF ScheduleRejected, TypeOK, vars
<1> QED BY <1>1, <1>2, <1>3, <1>4, <1>5, <1>6, <1>7, <1>8, <1>9 DEF Next, Schedule

(* TypeOK holds in every reachable state. *)
THEOREM TypeCorrect == Spec => []TypeOK
BY TypeInit, TypeNext, PTL DEF Spec
-----------------------------------------------------------------------------
(* The inductive invariant: GateMatchesTokens needs to know that a token     *)
(* belongs to one piece of work and that superseded work is cancelled.       *)
IInv == TypeOK /\ GateMatchesTokens /\ RevisionsOwned

LEMMA IInvInit == Init => IInv
<1> SUFFICES ASSUME Init PROVE IInv
  OBVIOUS
<1>1. Present = {} /\ Running = {}
  BY DEF Init, Present, Running, NotQueued
<1>2. GateMatchesTokens
  BY <1>1 DEF Init, GateMatchesTokens, Live
<1>3. RevisionsOwned
  BY <1>1 DEF Init, RevisionsOwned, NotQueued
<1> QED BY <1>2, <1>3, TypeInit DEF IInv

(* The three ways a demand can enter the queue differ in what they remove:   *)
(* e is the evicted key, or k itself when no other key loses its demand.     *)
LEMMA EnqueueKeepsGate ==
  ASSUME IInv, TypeOK', NEW k \in Key, NEW p \in Priority, NEW e \in Key,
         NEW q \in [Key -> Queued], NEW l \in [Key -> 0..MaxRevision], NEW c,
         \A j \in Key \ {k, e} : q[j] = queued[j] /\ l[j] = latest[j],
         e # k => e \in Present /\ q[e] = NotQueued /\ l[e] = 0,
         c \subseteq {queued[e].revision} \ {0},
         Enqueue(k, p, q, l, c)
  PROVE  GateMatchesTokens' /\ RevisionsOwned'
<1> USE BoundsAssumption DEF IInv
<1>1. nextRevision \in 1..MaxRevision /\ nextRevision' = nextRevision + 1
  BY DEF TypeOK, Enqueue
<1>2. /\ queued'[k].revision = nextRevision
      /\ latest'[k] = nextRevision
      /\ k \in Present'
  BY <1>1 DEF Enqueue, Present
<1>3. \A j \in Key \ {k, e} : /\ queued'[j] = queued[j]
                              /\ latest'[j] = latest[j]
                              /\ j \in Present' <=> j \in Present
  BY DEF Enqueue, Present
<1>4. e # k => /\ queued'[e].revision = 0 /\ latest'[e] = 0
               /\ e \notin Present' /\ e \in Present
  BY DEF Enqueue, Present, NotQueued
<1>5. cancelled' = cancelled \cup c \cup TokenOf(inFlight[k])
      /\ inFlight' = inFlight /\ published' = published /\ Running' = Running
  BY DEF Enqueue, Running
<1>6. \A j \in Key : queued[j].revision \in 0..MaxRevision
                    /\ inFlight[j] \in 0..MaxRevision
                    /\ published[j] \in 0..MaxRevision
  BY QueuedEntry DEF TypeOK
<1>7. \A r \in cancelled' : r \in cancelled \/ r = queued[e].revision \/ r = inFlight[k]
  BY <1>5 DEF TokenOf
<1>8. 0 \notin cancelled
  BY DEF TypeOK
<1>9. GateMatchesTokens'
  <2> SUFFICES ASSUME NEW j \in Key PROVE latest'[j] = Live(j)'
    BY DEF GateMatchesTokens
  <2>1. CASE j = k
    BY <1>2, <2>1 DEF Live
  <2>2. CASE j # k /\ j = e
    <3>1. inFlight[j] = 0 \/ inFlight[j] \in cancelled
      BY <1>4, <2>2 DEF RevisionsOwned
    <3> QED BY <3>1, <1>4, <1>5, <2>2 DEF Live
  <2>3. CASE j # k /\ j # e
    <3>1. latest'[j] = Live(j)
      BY <1>3, <2>3 DEF GateMatchesTokens
    <3>2. CASE j \in Present
      BY <3>1, <3>2, <1>3, <2>3 DEF Live
    <3>3. CASE j \notin Present
      <4>1. inFlight[j] # 0 => inFlight[j] # inFlight[k]
        BY <2>3 DEF RevisionsOwned, Running
      <4>2. inFlight[j] # 0 => inFlight[j] # queued[e].revision
        BY <2>3, <1>6 DEF RevisionsOwned, Present
      <4>3. inFlight[j] # 0 => (inFlight'[j] \in cancelled' <=> inFlight[j] \in cancelled)
        BY <4>1, <4>2, <1>5, <1>7
      <4>4. 0 \notin cancelled'
        BY <1>5, <1>8 DEF TokenOf
      <4> QED BY <3>1, <3>3, <4>3, <4>4, <1>3, <1>5, <2>3 DEF Live
    <3> QED BY <3>2, <3>3
  <2> QED BY <2>1, <2>2, <2>3
<1>10. RevisionsOwned'
  <2>1. \A j \in Key : \/ j = k /\ queued'[j].revision = nextRevision
                       \/ j # k /\ queued'[j].revision = 0
                       \/ j # k /\ queued'[j].revision = queued[j].revision
    <3> TAKE j \in Key
    <3>1. CASE j = k
      BY <3>1, <1>2
    <3>2. CASE j # k /\ j = e
      BY <3>2, <1>4
    <3>3. CASE j # k /\ j # e
      BY <3>3, <1>3
    <3> QED BY <3>1, <3>2, <3>3
  <2>2. \A j \in Key : /\ queued'[j].revision < nextRevision'
                       /\ inFlight'[j] < nextRevision'
                       /\ published'[j] < nextRevision'
    BY <2>1, <1>1, <1>5, <1>6 DEF RevisionsOwned
  <2>3. \A r \in cancelled' : r < nextRevision'
    <3>1. \A r \in cancelled : r \in Nat /\ r < nextRevision
      BY DEF RevisionsOwned, TypeOK
    <3> QED BY <3>1, <1>1, <1>6, <1>7 DEF RevisionsOwned
  <2>4. ASSUME NEW j \in Present'
        PROVE  /\ queued'[j].revision \notin cancelled'
               /\ inFlight'[j] < queued'[j].revision
               /\ published'[j] < queued'[j].revision
               /\ inFlight'[j] = 0 \/ inFlight'[j] \in cancelled'
    <3> j \in Key
      BY DEF Present
    <3>1. CASE j = k
      <4>1. nextRevision \notin cancelled'
        <5>1. nextRevision \notin cancelled
          BY <1>1 DEF RevisionsOwned
        <5> QED BY <5>1, <1>1, <1>6, <1>7 DEF RevisionsOwned
      <4>2. inFlight[k] = 0 \/ inFlight[k] \in cancelled'
        BY <1>5 DEF TokenOf
      <4> QED BY <3>1, <4>1, <4>2, <1>2, <1>5 DEF RevisionsOwned
    <3>2. CASE j # k
      <4>1. j # e /\ j \in Present /\ queued'[j] = queued[j]
        BY <3>2, <1>3, <1>4
      <4>2. queued[j].revision # queued[e].revision /\ queued[j].revision # inFlight[k]
        BY <3>2, <4>1 DEF RevisionsOwned
      <4>3. queued[j].revision \notin cancelled
        BY <4>1 DEF RevisionsOwned
      <4>4. queued'[j].revision \notin cancelled'
        BY <4>1, <4>2, <4>3, <1>7
      <4> QED BY <4>1, <4>4, <1>5 DEF RevisionsOwned
    <3> QED BY <3>1, <3>2
  <2>5. \A j \in Running' : inFlight'[j] \in cancelled' \/ published'[j] < inFlight'[j]
    BY <1>5 DEF RevisionsOwned
  <2>6. ASSUME NEW i \in Key, NEW j \in Key, i # j
        PROVE  /\ i \in Present' => /\ queued'[i].revision # queued'[j].revision
                                    /\ queued'[i].revision # inFlight'[j]
               /\ i \in Running' => inFlight'[i] # inFlight'[j]
    <3>1. i \in Running' => inFlight'[i] # inFlight'[j]
      BY <2>6, <1>5 DEF RevisionsOwned
    <3>2. CASE i = k
      BY <2>6, <3>1, <3>2, <2>1, <1>1, <1>2, <1>5, <1>6 DEF RevisionsOwned
    <3>3. CASE i # k
      <4> SUFFICES ASSUME i \in Present'
                   PROVE  /\ queued'[i].revision # queued'[j].revision
                          /\ queued'[i].revision # inFlight'[j]
        BY <3>1
      <4>1. i # e /\ i \in Present /\ queued'[i] = queued[i]
        BY <3>3, <1>3, <1>4
      <4>2. queued[i].revision # 0 /\ queued[i].revision < nextRevision
        BY <4>1 DEF Present, RevisionsOwned
      <4>3. /\ queued[i].revision # queued[j].revision
            /\ queued[i].revision # inFlight[j]
        BY <2>6, <4>1 DEF RevisionsOwned
      <4>4. queued[i].revision # nextRevision
        BY <4>2, <1>1, <1>6
      <4> QED BY <4>1, <4>2, <4>3, <4>4, <2>1, <1>5
    <3> QED BY <3>2, <3>3
  <2> HIDE DEF IInv
  <2> QED BY <2>2, <2>3, <2>4, <2>5, <2>6 DEF RevisionsOwned
<1> QED BY <1>9, <1>10

(* Every call keeps the inductive invariant. *)
LEMMA IInvNext == IInv /\ [Next]_vars => IInv'
<1> SUFFICES ASSUME IInv, [Next]_vars PROVE IInv'
  OBVIOUS
<1>0. TypeOK /\ TypeOK'
  BY TypeNext DEF IInv
<1> SUFFICES GateMatchesTokens' /\ RevisionsOwned'
  BY <1>0 DEF IInv
<1> USE BoundsAssumption
<1>r. \A j \in Key : /\ queued[j].revision \in 0..MaxRevision
                     /\ inFlight[j] \in 0..MaxRevision
                     /\ published[j] \in 0..MaxRevision
  BY <1>0, QueuedEntry DEF TypeOK
<1>c. 0 \notin cancelled
  BY <1>0 DEF TypeOK
<1>1. ASSUME NEW k \in Key, NEW p \in Priority, ScheduleReplaced(k, p)
      PROVE  GateMatchesTokens' /\ RevisionsOwned'
  <2>1. TokenOf(queued[k].revision) \subseteq {queued[k].revision} \ {0}
    BY DEF TokenOf
  <2>2. queued \in [Key -> Queued] /\ latest \in [Key -> 0..MaxRevision]
    BY <1>0 DEF TypeOK
  <2>3. Enqueue(k, p, queued, latest, TokenOf(queued[k].revision))
    BY <1>1 DEF ScheduleReplaced
  <2> QED BY <1>0, <2>1, <2>2, <2>3, EnqueueKeepsGate
<1>2. ASSUME NEW k \in Key, NEW p \in Priority, ScheduleQueued(k, p)
      PROVE  GateMatchesTokens' /\ RevisionsOwned'
  <2>1. queued \in [Key -> Queued] /\ latest \in [Key -> 0..MaxRevision]
    BY <1>0 DEF TypeOK
  <2>2. Enqueue(k, p, queued, latest, {})
    BY <1>2 DEF ScheduleQueued
  <2> QED BY <1>0, <2>1, <2>2, EnqueueKeepsGate
<1>3. ASSUME NEW k \in Key, NEW p \in Priority, NEW e \in Key,
             ScheduleEvicted(k, p, e)
      PROVE  GateMatchesTokens' /\ RevisionsOwned'
  <2> DEFINE l == IF latest[e] = queued[e].revision
                    THEN [latest EXCEPT ![e] = 0] ELSE latest
  <2>1. e \in Present /\ k \notin Present
    BY <1>3 DEF ScheduleEvicted, EvictionKey
  <2>2. latest[e] = queued[e].revision
    BY <2>1 DEF IInv, GateMatchesTokens, Live
  <2>3. /\ l \in [Key -> 0..MaxRevision]
        /\ l[e] = 0
        /\ \A j \in Key \ {k, e} : l[j] = latest[j]
    BY <1>0, <2>2 DEF TypeOK
  <2>4. /\ Absent(e) \in [Key -> Queued]
        /\ Absent(e)[e] = NotQueued
        /\ \A j \in Key \ {k, e} : Absent(e)[j] = queued[j]
    BY <1>0 DEF Absent, TypeOK, Queued
  <2>5. TokenOf(queued[e].revision) \subseteq {queued[e].revision} \ {0}
    BY DEF TokenOf
  <2>6. Enqueue(k, p, Absent(e), l, TokenOf(queued[e].revision))
    BY <1>3 DEF ScheduleEvicted
  <2> HIDE DEF l
  <2> QED BY <1>0, <2>1, <2>3, <2>4, <2>5, <2>6, EnqueueKeepsGate
<1>4. ASSUME NEW k \in Key, PopNext(k)
      PROVE  GateMatchesTokens' /\ RevisionsOwned'
  <2>1. k \in Present /\ k \notin Running /\ inFlight[k] = 0
    BY <1>4 DEF PopNext, Poppable, Running
  <2>2. /\ queued'[k].revision = 0 /\ k \notin Present'
        /\ inFlight'[k] = queued[k].revision
        /\ \A j \in Key \ {k} : /\ queued'[j] = queued[j]
                                /\ inFlight'[j] = inFlight[j]
                                /\ j \in Present' <=> j \in Present
                                /\ j \in Running' <=> j \in Running
    BY <1>0, <1>4 DEF PopNext, Absent, TypeOK, Present, Running, NotQueued
  <2>3. /\ latest' = latest /\ cancelled' = cancelled
        /\ published' = published /\ nextRevision' = nextRevision
    BY <1>4 DEF PopNext
  <2>4. /\ queued[k].revision \notin cancelled
        /\ published[k] < queued[k].revision
        /\ queued[k].revision < nextRevision
    BY <2>1 DEF IInv, RevisionsOwned
  <2>5. GateMatchesTokens'
    BY <2>1, <2>2, <2>3, <2>4 DEF IInv, GateMatchesTokens, Live
  <2>6. RevisionsOwned'
    <3>1. \A j \in Key : /\ queued'[j].revision < nextRevision'
                         /\ inFlight'[j] < nextRevision'
                         /\ published'[j] < nextRevision'
      <4> TAKE j \in Key
      <4>1. CASE j = k
        BY <4>1, <1>0, <1>r, <2>2, <2>3, <2>4 DEF IInv, RevisionsOwned, TypeOK
      <4>2. CASE j # k
        BY <4>2, <2>2, <2>3 DEF IInv, RevisionsOwned
      <4> QED BY <4>1, <4>2
    <3>2. \A r \in cancelled' : r < nextRevision'
      BY <2>3 DEF IInv, RevisionsOwned
    <3>3. \A j \in Present' : j # k /\ j \in Present /\ j \in Key
      BY <2>2 DEF Present
    <3>4. \A j \in Present' : /\ queued'[j].revision \notin cancelled'
                              /\ inFlight'[j] < queued'[j].revision
                              /\ published'[j] < queued'[j].revision
                              /\ inFlight'[j] = 0 \/ inFlight'[j] \in cancelled'
      BY <3>3, <2>2, <2>3 DEF IInv, RevisionsOwned
    <3>5. \A j \in Running' : inFlight'[j] \in cancelled' \/ published'[j] < inFlight'[j]
      <4> SUFFICES ASSUME NEW j \in Running'
                   PROVE  inFlight'[j] \in cancelled' \/ published'[j] < inFlight'[j]
        OBVIOUS
      <4>1. j \in Key
        BY DEF Running
      <4>2. CASE j = k
        BY <4>2, <2>2, <2>3, <2>4
      <4>3. CASE j # k
        BY <4>1, <4>3, <2>2, <2>3 DEF IInv, RevisionsOwned
      <4> QED BY <4>2, <4>3
    <3>6. ASSUME NEW i \in Key, NEW j \in Key, i # j
          PROVE  /\ i \in Present' => /\ queued'[i].revision # queued'[j].revision
                                      /\ queued'[i].revision # inFlight'[j]
                 /\ i \in Running' => inFlight'[i] # inFlight'[j]
      <4>1. i \in Present => /\ queued[i].revision # queued[j].revision
                             /\ queued[i].revision # inFlight[j]
                             /\ queued[i].revision # 0
        BY <3>6 DEF IInv, RevisionsOwned, Present
      <4>2. i \in Running => inFlight[i] # inFlight[j]
        BY <3>6 DEF IInv, RevisionsOwned
      <4>3. j \in Present => queued[j].revision # inFlight[i]
        BY <3>6 DEF IInv, RevisionsOwned
      <4>4. CASE i = k
        BY <3>6, <4>4, <4>1, <4>2, <4>3, <2>1, <2>2
      <4>5. CASE j = k
        BY <3>6, <4>5, <4>1, <4>2, <4>3, <2>1, <2>2
      <4>6. CASE i # k /\ j # k
        BY <3>6, <4>6, <4>1, <4>2, <4>3, <2>2
      <4> QED BY <4>4, <4>5, <4>6
    <3> QED BY <3>1, <3>2, <3>4, <3>5, <3>6 DEF RevisionsOwned
  <2> QED BY <2>5, <2>6
<1>5. ASSUME NEW d \in issued, FinishPublish(d) \/ FinishStale(d)
      PROVE  GateMatchesTokens' /\ RevisionsOwned'
  <2> DEFINE k == d.key
  <2>1. k \in Key /\ d.revision \in 1..MaxRevision
    BY <1>0 DEF TypeOK
  <2>2. inFlight[k] = d.revision /\ k \in Running
    BY <1>5, <2>1 DEF FinishPublish, FinishStale, Running
  <2>3. /\ inFlight'[k] = 0 /\ k \notin Running'
        /\ \A j \in Key \ {k} : /\ inFlight'[j] = inFlight[j]
                                /\ j \in Running' <=> j \in Running
    BY <1>0, <1>5, <2>1 DEF FinishPublish, FinishStale, TypeOK, Running
  <2>4. /\ queued' = queued /\ Present' = Present
        /\ cancelled' = cancelled /\ nextRevision' = nextRevision
    BY <1>5 DEF FinishPublish, FinishStale, Present
  <2>5. \A j \in Key \ {k} : latest'[j] = latest[j] /\ published'[j] = published[j]
    BY <1>0, <1>5, <2>1 DEF FinishPublish, FinishStale, TypeOK
  <2>6. \/ /\ latest[k] = inFlight[k] /\ latest'[k] = 0
           /\ published'[k] = inFlight[k]
        \/ /\ latest[k] # inFlight[k] /\ latest'[k] = latest[k]
           /\ published'[k] = published[k]
    BY <1>0, <1>5, <2>1, <2>2 DEF FinishPublish, FinishStale, TypeOK
  <2> HIDE DEF k
  <2>7. k \in Present => /\ inFlight[k] \in cancelled
                         /\ latest[k] = queued[k].revision
                         /\ latest[k] # inFlight[k]
                         /\ queued[k].revision \notin cancelled
    BY <2>1, <2>2, <1>r DEF IInv, GateMatchesTokens, Live, RevisionsOwned, Running
  <2>8. GateMatchesTokens'
    <3> SUFFICES ASSUME NEW j \in Key PROVE latest'[j] = Live(j)'
      BY DEF GateMatchesTokens
    <3>1. latest[j] = Live(j)
      BY DEF IInv, GateMatchesTokens
    <3>2. CASE j # k
      BY <3>1, <3>2, <2>3, <2>4, <2>5 DEF Live
    <3>3. CASE j = k /\ k \in Present
      BY <3>3, <2>4, <2>6, <2>7 DEF Live
    <3>4. CASE j = k /\ k \notin Present
      BY <3>1, <3>4, <2>3, <2>4, <2>6 DEF Live
    <3> QED BY <3>2, <3>3, <3>4
  <2>9. RevisionsOwned'
    <3>1. \A j \in Key : /\ queued'[j].revision < nextRevision'
                         /\ inFlight'[j] < nextRevision'
                         /\ published'[j] < nextRevision'
      BY <1>0, <1>r, <2>1, <2>3, <2>4, <2>5, <2>6 DEF IInv, RevisionsOwned, TypeOK
    <3>2. \A r \in cancelled' : r < nextRevision'
      BY <2>4 DEF IInv, RevisionsOwned
    <3>3. ASSUME NEW j \in Present'
          PROVE  /\ queued'[j].revision \notin cancelled'
                 /\ inFlight'[j] < queued'[j].revision
                 /\ published'[j] < queued'[j].revision
                 /\ inFlight'[j] = 0 \/ inFlight'[j] \in cancelled'
      <4>1. j \in Key /\ j \in Present
        BY <2>4 DEF Present
      <4>2. CASE j = k
        BY <4>1, <4>2, <1>r, <2>3, <2>4, <2>6, <2>7 DEF IInv, RevisionsOwned, Present
      <4>3. CASE j # k
        BY <4>1, <4>3, <2>3, <2>4, <2>5 DEF IInv, RevisionsOwned
      <4> QED BY <4>2, <4>3
    <3>4. \A j \in Running' : inFlight'[j] \in cancelled' \/ published'[j] < inFlight'[j]
      <4> SUFFICES ASSUME NEW j \in Running'
                   PROVE  inFlight'[j] \in cancelled' \/ published'[j] < inFlight'[j]
        OBVIOUS
      <4>1. j \in Key /\ j # k
        BY <2>3 DEF Running
      <4> QED BY <4>1, <2>3, <2>4, <2>5 DEF IInv, RevisionsOwned
    <3>5. ASSUME NEW i \in Key, NEW j \in Key, i # j
          PROVE  /\ i \in Present' => /\ queued'[i].revision # queued'[j].revision
                                      /\ queued'[i].revision # inFlight'[j]
                 /\ i \in Running' => inFlight'[i] # inFlight'[j]
      <4>1. i \in Present => /\ queued[i].revision # queued[j].revision
                             /\ queued[i].revision # inFlight[j]
                             /\ queued[i].revision # 0
        BY <3>5 DEF IInv, RevisionsOwned, Present
      <4>2. i \in Running => inFlight[i] # inFlight[j] /\ inFlight[i] # 0
        BY <3>5 DEF IInv, RevisionsOwned, Running
      <4> QED BY <4>1, <4>2, <2>3, <2>4
    <3> QED BY <3>1, <3>2, <3>3, <3>4, <3>5 DEF RevisionsOwned
  <2> QED BY <2>8, <2>9
<1>6. ASSUME NEW K \in SUBSET Key,
             /\ inFlight' = inFlight /\ published' = published
             /\ nextRevision' = nextRevision,
             \A j \in Key \ K : queued'[j] = queued[j] /\ latest'[j] = latest[j],
             \A j \in K : queued'[j] = NotQueued /\ latest'[j] = 0,
             \A j \in K : inFlight[j] = 0 \/ inFlight[j] \in cancelled',
             cancelled \subseteq cancelled',
             \A r \in cancelled' \ cancelled : \E j \in K :
               r # 0 /\ (r = inFlight[j] \/ r = queued[j].revision)
      PROVE  GateMatchesTokens' /\ RevisionsOwned'
  <2>1. /\ Running' = Running
        /\ \A j \in Key : j \in Present' <=> j \in Present \ K
    BY <1>6 DEF Running, Present, NotQueued
  <2>2. \A j \in Key \ K : inFlight[j] \in cancelled' <=> inFlight[j] \in cancelled
    <3> SUFFICES ASSUME NEW j \in Key \ K, inFlight[j] \in cancelled' \ cancelled
                 PROVE  FALSE
      BY <1>6
    <3>1. PICK i \in K : /\ inFlight[j] # 0
                         /\ (inFlight[j] = inFlight[i] \/ inFlight[j] = queued[i].revision)
      BY <1>6
    <3> QED BY <3>1 DEF IInv, RevisionsOwned, Running, Present
  <2>3. \A j \in Key \ K : j \in Present => queued[j].revision \notin cancelled'
    <3> SUFFICES ASSUME NEW j \in Key \ K, j \in Present, queued[j].revision \in cancelled'
                 PROVE  FALSE
      OBVIOUS
    <3>1. queued[j].revision \notin cancelled
      BY DEF IInv, RevisionsOwned
    <3>2. PICK i \in K : queued[j].revision = inFlight[i]
                         \/ queued[j].revision = queued[i].revision
      BY <1>6, <3>1
    <3> QED BY <3>2 DEF IInv, RevisionsOwned
  <2>4. GateMatchesTokens'
    <3> SUFFICES ASSUME NEW j \in Key PROVE latest'[j] = Live(j)'
      BY DEF GateMatchesTokens
    <3>1. CASE j \in K
      BY <3>1, <2>1, <1>6 DEF Live
    <3>2. CASE j \notin K
      BY <3>2, <2>1, <2>2, <1>6 DEF Live, IInv, GateMatchesTokens
    <3> QED BY <3>1, <3>2
  <2>5. RevisionsOwned'
    <3>0. \A j \in Key : queued'[j].revision = 0 \/ queued'[j].revision = queued[j].revision
      BY <1>6 DEF NotQueued
    <3>1. \A j \in Key : /\ queued'[j].revision < nextRevision'
                         /\ inFlight'[j] < nextRevision'
                         /\ published'[j] < nextRevision'
      BY <3>0, <1>0, <1>6 DEF IInv, RevisionsOwned, TypeOK
    <3>2. \A r \in cancelled' : r < nextRevision'
      BY <1>6 DEF IInv, RevisionsOwned
    <3>3. ASSUME NEW j \in Present'
          PROVE  /\ queued'[j].revision \notin cancelled'
                 /\ inFlight'[j] < queued'[j].revision
                 /\ published'[j] < queued'[j].revision
                 /\ inFlight'[j] = 0 \/ inFlight'[j] \in cancelled'
      <4>1. j \in Key /\ j \in Present /\ j \notin K
        BY <2>1 DEF Present
      <4> QED BY <4>1, <2>3, <1>6 DEF IInv, RevisionsOwned
    <3>4. \A j \in Running' : inFlight'[j] \in cancelled' \/ published'[j] < inFlight'[j]
      BY <2>1, <1>6 DEF IInv, RevisionsOwned
    <3>5. ASSUME NEW i \in Key, NEW j \in Key, i # j
          PROVE  /\ i \in Present' => /\ queued'[i].revision # queued'[j].revision
                                      /\ queued'[i].revision # inFlight'[j]
                 /\ i \in Running' => inFlight'[i] # inFlight'[j]
      <4>1. i \in Present => /\ queued[i].revision # queued[j].revision
                             /\ queued[i].revision # inFlight[j]
                             /\ queued[i].revision # 0
        BY <3>5 DEF IInv, RevisionsOwned, Present
      <4>2. i \in Running => inFlight[i] # inFlight[j]
        BY <3>5 DEF IInv, RevisionsOwned
      <4> QED BY <4>1, <4>2, <3>0, <2>1, <1>6
    <3> QED BY <3>1, <3>2, <3>3, <3>4, <3>5 DEF RevisionsOwned
  <2> QED BY <2>4, <2>5
<1>7. ASSUME NEW k \in Key, Cancel(k) PROVE GateMatchesTokens' /\ RevisionsOwned'
  <2>1. /\ inFlight' = inFlight /\ published' = published
        /\ nextRevision' = nextRevision /\ cancelled \subseteq cancelled'
    BY <1>7 DEF Cancel
  <2>2. /\ \A j \in Key \ {k} : queued'[j] = queued[j] /\ latest'[j] = latest[j]
        /\ queued'[k] = NotQueued /\ latest'[k] = 0
    BY <1>0, <1>7 DEF Cancel, Absent, TypeOK
  <2>3. /\ inFlight[k] = 0 \/ inFlight[k] \in cancelled'
        /\ \A r \in cancelled' \ cancelled :
             r # 0 /\ (r = inFlight[k] \/ r = queued[k].revision)
    BY <1>7 DEF Cancel, TokenOf
  <2> DEFINE K == {k}
  <2>4. /\ \A j \in Key \ K : queued'[j] = queued[j] /\ latest'[j] = latest[j]
        /\ \A j \in K : queued'[j] = NotQueued /\ latest'[j] = 0
        /\ \A j \in K : inFlight[j] = 0 \/ inFlight[j] \in cancelled'
    BY <2>2, <2>3
  <2>5. \A r \in cancelled' \ cancelled : \E j \in K :
          r # 0 /\ (r = inFlight[j] \/ r = queued[j].revision)
    BY <2>3
  <2>6. K \in SUBSET Key
    OBVIOUS
  <2> HIDE DEF K
  <2> QED BY <2>1, <2>4, <2>5, <2>6, <1>6
<1>8. CASE ClearPending
  <2>1. /\ inFlight' = inFlight /\ published' = published
        /\ nextRevision' = nextRevision /\ cancelled \subseteq cancelled'
        /\ \A j \in Key : queued'[j] = NotQueued /\ latest'[j] = 0
    BY <1>8 DEF ClearPending
  <2>2. \A j \in Key : inFlight[j] = 0 \/ inFlight[j] \in cancelled'
    BY <1>8 DEF ClearPending, Running
  <2>3. \A r \in cancelled' \ cancelled : \E j \in Key :
          r # 0 /\ (r = inFlight[j] \/ r = queued[j].revision)
    BY <1>8 DEF ClearPending, Running, Present
  <2> QED BY <2>1, <2>2, <2>3, <1>6
<1>9. ASSUME UNCHANGED vars PROVE GateMatchesTokens' /\ RevisionsOwned'
  BY <1>9 DEF IInv, GateMatchesTokens, RevisionsOwned, Live, Present, Running, vars
<1>10. ASSUME NEW d \in issued, FinishUnknown(d)
       PROVE GateMatchesTokens' /\ RevisionsOwned'
  BY <1>10 DEF FinishUnknown, IInv, GateMatchesTokens, RevisionsOwned, Live, Present, Running
<1>11. ASSUME NEW k \in Key, NEW p \in Priority, ScheduleRejected(k, p)
       PROVE UNCHANGED vars
  BY <1>11 DEF ScheduleRejected
<1> QED BY <1>1, <1>2, <1>3, <1>4, <1>5, <1>7, <1>8, <1>9, <1>10, <1>11
        DEF Next, Schedule, Finish

(* For every queue, whatever its callers and workers do: the publication     *)
(* gate and the cancellation tokens agree (GateMatchesTokens), and every     *)
(* revision names one piece of work (RevisionsOwned).                        *)
THEOREM GateCorrect == Spec => [](GateMatchesTokens /\ RevisionsOwned)
<1>1. IInv => GateMatchesTokens /\ RevisionsOwned
  BY DEF IInv
<1> QED BY <1>1, IInvInit, IInvNext, PTL DEF Spec

-----------------------------------------------------------------------------
(* What a worker was handed is older than what its key has queued, so that   *)
(* a demand is never handed out, or taken for reported, a second time.       *)
IssuedOld ==
  \A d \in issued : /\ d.revision < nextRevision
                    /\ d.key \in Present => d.revision < queued[d.key].revision

(* The inductive invariant behind IssuedAccounted. *)
AInv == IInv /\ IssuedAccounted /\ IssuedOld

(* Scheduling touches neither the workers nor the slots they hold. *)
LEMMA EnqueueKeepsWorkers ==
  ASSUME AInv, NEW k \in Key, NEW p \in Priority,
         NEW q \in [Key -> Queued], NEW l, NEW c, Enqueue(k, p, q, l, c),
         \A j \in Key : q[j] = queued[j] \/ q[j] = NotQueued
  PROVE  IssuedAccounted' /\ IssuedOld'
<1> USE BoundsAssumption
<1>1. IssuedAccounted'
  BY DEF AInv, IssuedAccounted, Enqueue, Running
<1>2. ASSUME NEW d \in issued
      PROVE  /\ d.revision < nextRevision'
             /\ d.key \in Present' => d.revision < queued'[d.key].revision
  <2>1. /\ d.key \in Key /\ d.revision \in Int /\ nextRevision \in Int
        /\ d.revision < nextRevision /\ nextRevision' = nextRevision + 1
    BY DEF AInv, IInv, TypeOK, IssuedOld, Enqueue
  <2>2. CASE d.key = k
    BY <2>1, <2>2 DEF Enqueue
  <2>3. CASE d.key # k
    <3>1. queued'[d.key] = q[d.key]
      BY <2>1, <2>3 DEF Enqueue
    <3>2. d.key \in Present' => queued'[d.key] = queued[d.key] /\ d.key \in Present
      BY <2>1, <3>1 DEF Present, NotQueued
    <3> QED BY <2>1, <3>2 DEF AInv, IssuedOld
  <2> QED BY <2>2, <2>3
<1>3. issued' = issued
  BY DEF Enqueue
<1> QED BY <1>1, <1>2, <1>3 DEF IssuedOld

(* Withdrawing queued demands touches no worker either. *)
LEMMA WithdrawKeepsWorkers ==
  ASSUME AInv, UNCHANGED <<nextRevision, inFlight, issued, reported>>,
         \A j \in Key : queued'[j] = queued[j] \/ queued'[j] = NotQueued
  PROVE  IssuedAccounted' /\ IssuedOld'
<1>1. IssuedAccounted'
  BY DEF AInv, IssuedAccounted, Running
<1>2. \A j \in Present' : j \in Present /\ queued'[j] = queued[j]
  BY DEF Present, NotQueued
<1> QED BY <1>1, <1>2 DEF AInv, IssuedOld

LEMMA AInvInit == Init => AInv
<1> SUFFICES ASSUME Init PROVE IssuedAccounted /\ IssuedOld
  BY IInvInit DEF AInv
<1>1. Running = {}
  BY DEF Init, Running
<1> QED BY <1>1 DEF Init, IssuedAccounted, IssuedOld

(* Every step keeps in_flight and the workers' demands equal. *)
LEMMA AInvNext == AInv /\ [Next]_vars => AInv'
<1> SUFFICES ASSUME AInv, [Next]_vars PROVE IssuedAccounted' /\ IssuedOld'
  BY IInvNext DEF AInv
<1> USE BoundsAssumption
<1>0. TypeOK
  BY DEF AInv, IInv
<1>q. queued \in [Key -> Queued]
  BY <1>0 DEF TypeOK
<1>1. ASSUME NEW k \in Key, NEW p \in Priority,
             ScheduleReplaced(k, p) \/ ScheduleQueued(k, p)
      PROVE  IssuedAccounted' /\ IssuedOld'
  BY <1>1, <1>q, EnqueueKeepsWorkers DEF ScheduleReplaced, ScheduleQueued
<1>2. ASSUME NEW k \in Key, NEW p \in Priority, NEW e \in Key,
             ScheduleEvicted(k, p, e)
      PROVE  IssuedAccounted' /\ IssuedOld'
  <2>1. Absent(e) \in [Key -> Queued]
    BY <1>0, QueuedEntry
  <2>2. \A j \in Key : Absent(e)[j] = queued[j] \/ Absent(e)[j] = NotQueued
    BY <1>q DEF Absent
  <2> QED BY <1>2, <2>1, <2>2, EnqueueKeepsWorkers DEF ScheduleEvicted
<1>3. ASSUME NEW k \in Key, PopNext(k) PROVE IssuedAccounted' /\ IssuedOld'
  <2> DEFINE n == [key |-> k, revision |-> queued[k].revision]
  <2>1. /\ k \in Present /\ k \notin Running
        /\ queued[k].revision \in 1..MaxRevision
    BY <1>0, <1>3, QueuedEntry DEF PopNext, Poppable
  <2>2. n \notin issued /\ n \notin reported
    BY <1>0, <2>1 DEF AInv, IssuedOld, TypeOK
  <2>3. /\ issued' = issued \cup {n} /\ reported' = reported
        /\ nextRevision' = nextRevision
        /\ queued' = Absent(k)
        /\ inFlight' = [inFlight EXCEPT ![k] = queued[k].revision]
    BY <1>3 DEF PopNext
  <2>4. /\ \A j \in Key \ {k} : inFlight'[j] = inFlight[j] /\ queued'[j] = queued[j]
        /\ inFlight'[k] = queued[k].revision /\ queued'[k] = NotQueued
    BY <1>0, <2>3 DEF TypeOK, Absent
  <2>5. Running' = Running \cup {k}
    BY <2>1, <2>4 DEF Running
  <2>6. IssuedAccounted'
    <3>1. issued' \ reported' = (issued \ reported) \cup {n}
      BY <2>2, <2>3
    <3>2. {[key |-> j, revision |-> inFlight'[j]] : j \in Running'}
            = {[key |-> j, revision |-> inFlight[j]] : j \in Running} \cup {n}
      BY <2>1, <2>4, <2>5 DEF Running
    <3> QED BY <3>1, <3>2 DEF AInv, IssuedAccounted
  <2>7. n.revision < nextRevision
    BY <2>1 DEF AInv, IInv, RevisionsOwned
  <2>8. \A j \in Present' : j \in Present /\ j # k /\ queued'[j] = queued[j]
    BY <2>4 DEF Present, NotQueued
  <2>9. IssuedOld'
    BY <2>3, <2>7, <2>8 DEF AInv, IssuedOld
  <2> QED BY <2>6, <2>9
<1>4. ASSUME NEW d \in issued, FinishPublish(d) \/ FinishStale(d)
      PROVE  IssuedAccounted' /\ IssuedOld'
  <2>1. /\ d.key \in Key /\ d.revision \in 1..MaxRevision
        /\ d = [key |-> d.key, revision |-> d.revision]
    BY <1>0 DEF TypeOK
  <2>2. /\ inFlight[d.key] = d.revision
        /\ inFlight' = [inFlight EXCEPT ![d.key] = 0]
        /\ reported' = reported \cup {d} /\ issued' = issued
        /\ queued' = queued /\ nextRevision' = nextRevision
    BY <1>4 DEF FinishPublish, FinishStale
  <2>3. /\ \A j \in Key \ {d.key} : inFlight'[j] = inFlight[j]
        /\ inFlight'[d.key] = 0
    BY <1>0, <2>1, <2>2 DEF TypeOK
  <2>4. Running' = Running \ {d.key}
    BY <2>3 DEF Running
  <2>5. {[key |-> j, revision |-> inFlight'[j]] : j \in Running'}
          = {[key |-> j, revision |-> inFlight[j]] : j \in Running} \ {d}
    BY <2>1, <2>2, <2>3, <2>4 DEF Running
  <2>6. issued' \ reported' = (issued \ reported) \ {d}
    BY <2>2
  <2> QED BY <2>2, <2>5, <2>6 DEF AInv, IssuedAccounted, IssuedOld, Present
<1>5. ASSUME NEW d \in issued, FinishUnknown(d)
      PROVE  IssuedAccounted' /\ IssuedOld'
  <2>1. d \in reported
    <3>1. d \notin {[key |-> j, revision |-> inFlight[j]] : j \in Running}
      BY <1>5 DEF FinishUnknown
    <3> QED BY <3>1 DEF AInv, IssuedAccounted
  <2>2. reported' = reported
    BY <1>5, <2>1 DEF FinishUnknown
  <2> QED BY <1>5, <2>2 DEF FinishUnknown, AInv, IssuedAccounted, IssuedOld, Running, Present
<1>6. ASSUME NEW k \in Key, Cancel(k) PROVE IssuedAccounted' /\ IssuedOld'
  BY <1>6, <1>q, WithdrawKeepsWorkers DEF Cancel, Absent
<1>7. CASE ClearPending
  BY <1>7, WithdrawKeepsWorkers DEF ClearPending
<1>8. ASSUME UNCHANGED vars PROVE IssuedAccounted' /\ IssuedOld'
  BY <1>8 DEF vars, AInv, IssuedAccounted, IssuedOld, Running, Present
<1>9. ASSUME NEW k \in Key, NEW p \in Priority, ScheduleRejected(k, p)
      PROVE  UNCHANGED vars
  BY <1>9 DEF ScheduleRejected
<1> QED BY <1>1, <1>2, <1>3, <1>4, <1>5, <1>6, <1>7, <1>8, <1>9
        DEF Next, Schedule, Finish

(* For every queue: in_flight is exactly the set of demands that workers     *)
(* hold and have not reported, whatever is replaced, cancelled, reported     *)
(* late or reported twice (IssuedAccounted).                                 *)
THEOREM WorkersAccounted == Spec => []IssuedAccounted
<1>1. AInv => IssuedAccounted
  BY DEF AInv
<1> QED BY <1>1, AInvInit, AInvNext, PTL DEF Spec

-----------------------------------------------------------------------------
(* The two limits the code tests; the third follows from the gate. *)
Limits == Cardinality(Present) <= Capacity /\ Cardinality(Running) <= MaxInFlight
LInv == IInv /\ Limits

(* Present and Running are finite, so their cardinalities are numbers. *)
LEMMA FiniteMaps ==
  /\ IsFiniteSet(Present) /\ Cardinality(Present) \in Nat
  /\ IsFiniteSet(Running) /\ Cardinality(Running) \in Nat
<1>1. Present \in SUBSET Key /\ Running \in SUBSET Key
  BY DEF Present, Running
<1>2. IsFiniteSet(Present) /\ IsFiniteSet(Running)
  BY <1>1, KeyAssumption, FS_Subset
<1> QED BY <1>2, FS_CardinalityType

(* What scheduling does to the keys of the queue. *)
LEMMA EnqueuePresent ==
  ASSUME TypeOK, NEW k \in Key, NEW p \in Priority,
         NEW q \in [Key -> Queued], NEW l, NEW c, Enqueue(k, p, q, l, c)
  PROVE  /\ Present' = {j \in Key : q[j].revision # 0} \cup {k}
         /\ Running' = Running
<1>1. nextRevision # 0
  BY BoundsAssumption DEF TypeOK
<1>2. /\ queued'[k].revision = nextRevision
      /\ \A j \in Key \ {k} : queued'[j] = q[j]
  BY DEF Enqueue
<1> QED BY <1>1, <1>2 DEF Present, Running, Enqueue

LEMMA LInvInit == Init => LInv
<1> SUFFICES ASSUME Init PROVE Limits
  BY IInvInit DEF LInv
<1>1. Present = {} /\ Running = {}
  BY DEF Init, Present, Running, NotQueued
<1> QED BY <1>1, FS_EmptySet, BoundsAssumption DEF Limits

(* Every step keeps the queue and the workers within their limits. *)
LEMMA LInvNext == LInv /\ [Next]_vars => LInv'
<1> SUFFICES ASSUME LInv, [Next]_vars PROVE Limits'
  BY IInvNext DEF LInv
<1> USE BoundsAssumption
<1>0. TypeOK /\ queued \in [Key -> Queued] /\ Limits
  BY DEF LInv, IInv, TypeOK
<1>f. /\ IsFiniteSet(Present) /\ Cardinality(Present) \in Nat
      /\ IsFiniteSet(Running) /\ Cardinality(Running) \in Nat
  BY FiniteMaps
<1>1. ASSUME NEW k \in Key, NEW p \in Priority, ScheduleReplaced(k, p)
      PROVE  Limits'
  <2>1. Present' = Present \cup {k} /\ Running' = Running /\ k \in Present
    BY <1>0, <1>1, EnqueuePresent DEF ScheduleReplaced, Present
  <2>2. Present' = Present
    BY <2>1
  <2> QED BY <1>0, <2>1, <2>2 DEF Limits
<1>2. ASSUME NEW k \in Key, NEW p \in Priority, ScheduleQueued(k, p)
      PROVE  Limits'
  <2>1. Present' = Present \cup {k} /\ Running' = Running
    BY <1>0, <1>2, EnqueuePresent DEF ScheduleQueued, Present
  <2>2. Cardinality(Present \cup {k}) <= Cardinality(Present) + 1
    BY <1>f, FS_AddElement
  <2>3. Cardinality(Present) < Capacity
    BY <1>2 DEF ScheduleQueued
  <2>4. Cardinality(Present \cup {k}) \in Nat
    BY <1>f, FS_AddElement, FS_CardinalityType
  <2>5. Cardinality(Present \cup {k}) <= Capacity
    BY <1>f, <2>2, <2>3, <2>4
  <2> QED BY <1>0, <2>1, <2>5 DEF Limits
<1>3. ASSUME NEW k \in Key, NEW p \in Priority, NEW e \in Key,
             ScheduleEvicted(k, p, e)
      PROVE  Limits'
  <2>1. e \in Present
    BY <1>3 DEF ScheduleEvicted, EvictionKey
  <2>2. Absent(e) \in [Key -> Queued]
    BY <1>0, QueuedEntry
  <2>3. {j \in Key : Absent(e)[j].revision # 0} = Present \ {e}
    BY <1>0 DEF Absent, Present, NotQueued
  <2>4. Present' = (Present \ {e}) \cup {k} /\ Running' = Running
    BY <1>0, <1>3, <2>2, <2>3, EnqueuePresent DEF ScheduleEvicted
  <2>5. IsFiniteSet(Present \ {e}) /\ Cardinality(Present \ {e}) = Cardinality(Present) - 1
    BY <1>f, <2>1, FS_RemoveElement
  <2>6. \/ Cardinality((Present \ {e}) \cup {k}) = Cardinality(Present \ {e})
        \/ Cardinality((Present \ {e}) \cup {k}) = Cardinality(Present \ {e}) + 1
    BY <2>5, FS_AddElement
  <2>7. Cardinality((Present \ {e}) \cup {k}) <= Cardinality(Present)
    BY <1>f, <2>5, <2>6
  <2>8. /\ Cardinality((Present \ {e}) \cup {k}) \in Int
        /\ Cardinality(Present) <= Capacity
    BY <1>0, <1>f, <2>5, <2>6 DEF Limits
  <2>9. Cardinality((Present \ {e}) \cup {k}) <= Capacity
    BY <1>f, <2>7, <2>8
  <2> QED BY <1>0, <2>4, <2>9 DEF Limits
\* The remaining steps only remove keys from the queue.
<1>4. ASSUME Present' \subseteq Present PROVE Cardinality(Present)' <= Capacity
  <2>1. Present' \in SUBSET Present
    BY <1>4
  <2>2. IsFiniteSet(Present') /\ Cardinality(Present') <= Cardinality(Present)
    BY <1>f, <2>1, FS_Subset
  <2>3. Cardinality(Present') \in Nat
    BY <2>2, FS_CardinalityType
  <2> QED BY <1>0, <1>f, <2>2, <2>3 DEF Limits
<1>5. ASSUME NEW k \in Key, PopNext(k) PROVE Limits'
  <2>1. /\ \A j \in Key \ {k} : inFlight'[j] = inFlight[j] /\ queued'[j] = queued[j]
        /\ queued'[k] = NotQueued /\ k \in Present
        /\ inFlight'[k] = queued[k].revision
    BY <1>0, <1>5 DEF PopNext, Absent, TypeOK, Poppable
  <2>2. Present' \subseteq Present /\ Running' = Running \cup {k}
    BY <2>1 DEF Present, Running, NotQueued
  <2>3. /\ Cardinality(Running) < MaxInFlight
        /\ \/ Cardinality(Running \cup {k}) = Cardinality(Running)
           \/ Cardinality(Running \cup {k}) = Cardinality(Running) + 1
    BY <1>f, <1>5, FS_AddElement DEF PopNext
  <2>4. Cardinality(Running \cup {k}) <= MaxInFlight
    BY <1>f, <2>3
  <2> QED BY <1>4, <2>2, <2>4 DEF Limits
<1>6. ASSUME NEW d \in issued, FinishPublish(d) \/ FinishStale(d) PROVE Limits'
  <2>1. queued' = queued /\ inFlight' = [inFlight EXCEPT ![d.key] = 0]
    BY <1>6 DEF FinishPublish, FinishStale
  <2>2. Present' = Present /\ Running' \in SUBSET Running
    BY <1>0, <2>1 DEF Present, Running, TypeOK
  <2>3. IsFiniteSet(Running') /\ Cardinality(Running') <= Cardinality(Running)
    BY <1>f, <2>2, FS_Subset
  <2>4. Cardinality(Running') \in Nat
    BY <2>3, FS_CardinalityType
  <2>5. Cardinality(Running') <= MaxInFlight
    BY <1>0, <1>f, <2>3, <2>4 DEF Limits
  <2> QED BY <1>4, <2>2, <2>5 DEF Limits
<1>7. ASSUME NEW k \in Key, Cancel(k) PROVE Limits'
  <2>1. Present' \subseteq Present /\ Running' = Running
    BY <1>0, <1>7 DEF Cancel, Absent, Present, Running, NotQueued
  <2> QED BY <1>0, <1>4, <2>1 DEF Limits
<1>8. CASE ClearPending
  <2>1. Present' \subseteq Present /\ Running' = Running
    BY <1>8 DEF ClearPending, Present, Running, NotQueued
  <2> QED BY <1>0, <1>4, <2>1 DEF Limits
<1>9. ASSUME queued' = queued, inFlight' = inFlight PROVE Limits'
  BY <1>0, <1>9 DEF Limits, Present, Running
<1>10. ASSUME UNCHANGED vars PROVE Limits'
  BY <1>9, <1>10 DEF vars
<1>11. ASSUME NEW d \in issued, FinishUnknown(d) PROVE Limits'
  BY <1>9, <1>11 DEF FinishUnknown
<1>12. ASSUME NEW k \in Key, NEW p \in Priority, ScheduleRejected(k, p)
       PROVE  UNCHANGED vars
  BY <1>12 DEF ScheduleRejected
<1> QED BY <1>1, <1>2, <1>3, <1>5, <1>6, <1>7, <1>8, <1>10, <1>11, <1>12
        DEF Next, Schedule, Finish

(* For every queue: `queued` and `in_flight` stay within the limits given to *)
(* with_max_in_flight, and `latest` within their sum (WithinLimits).         *)
THEOREM LimitsHold == Spec => []WithinLimits
<1>1. LInv => WithinLimits
  <2> SUFFICES ASSUME LInv PROVE WithinLimits
    OBVIOUS
  <2> DEFINE L == {k \in Key : latest[k] # 0}
  <2>1. L \in SUBSET (Present \cup Running)
    BY DEF LInv, IInv, GateMatchesTokens, Live, Running
  <2>2. /\ IsFiniteSet(Present) /\ Cardinality(Present) \in Nat
        /\ IsFiniteSet(Running) /\ Cardinality(Running) \in Nat
    BY FiniteMaps
  <2>3. /\ IsFiniteSet(Present \cup Running)
        /\ Cardinality(Present \cup Running) =
             Cardinality(Present) + Cardinality(Running) - Cardinality(Present \cap Running)
    BY <2>2, FS_Union
  <2>4. Cardinality(Present \cap Running) \in Nat
    <3>1. (Present \cap Running) \in SUBSET Present
      OBVIOUS
    <3>2. IsFiniteSet(Present \cap Running)
      BY <2>2, <3>1, FS_Subset
    <3> QED BY <3>2, FS_CardinalityType
  <2>5. /\ IsFiniteSet(L) /\ Cardinality(L) <= Cardinality(Present \cup Running)
    BY <2>1, <2>3, FS_Subset
  <2>6. Cardinality(L) \in Nat
    BY <2>5, FS_CardinalityType
  <2>7. Cardinality(Present) <= Capacity /\ Cardinality(Running) <= MaxInFlight
    BY DEF LInv, Limits
  <2>8. Cardinality(L) <= Capacity + MaxInFlight
    BY <2>2, <2>3, <2>4, <2>5, <2>6, <2>7, BoundsAssumption
  <2> QED BY <2>7, <2>8 DEF WithinLimits
<1> QED BY <1>1, LInvInit, LInvNext, PTL DEF Spec

-----------------------------------------------------------------------------
(* Refinement.  In a state of IInv the abstract demands are just `latest`.   *)
Demands == [k \in Key |-> Live(k)]

LEMMA InitRefines == Init => Abstract!Init
<1> SUFFICES ASSUME Init PROVE Abstract!Init
  OBVIOUS
<1>1. \A k \in Key : Live(k) = 0
  BY DEF Init, Live, Present, NotQueued
<1> QED BY <1>1 DEF Init, Abstract!Init

(* Every call of the queue is a step of the abstract scheduler, or hidden.   *)
LEMMA NextRefines ==
  IInv /\ IInv' /\ [Next]_vars => [Abstract!Next]_<<Demands, published>>
<1> SUFFICES ASSUME IInv, IInv', [Next]_vars
             PROVE  Abstract!Next \/ (Demands' = Demands /\ published' = published)
  OBVIOUS
<1> USE BoundsAssumption
<1>1. Demands = latest
  BY DEF Demands, IInv, TypeOK, GateMatchesTokens
<1>2. Demands' = latest'
  BY DEF Demands, IInv, TypeOK, GateMatchesTokens
<1>3. ASSUME NEW k \in Key, NEW p \in Priority, NEW q, NEW lost \in Key, NEW c,
             NEW l \in [Key -> 0..MaxRevision], Enqueue(k, p, q, l, c),
             \A j \in Key \ {k} : l[j] = IF j = lost THEN 0 ELSE latest[j]
      PROVE  Abstract!Next
  <2>1. nextRevision \in 1..MaxRevision
    BY <1>3 DEF IInv, TypeOK, Enqueue
  <2>2. nextRevision > published[k]
    BY <2>1 DEF IInv, TypeOK, RevisionsOwned
  <2>3. latest[k] < nextRevision
    BY <2>1 DEF IInv, TypeOK, RevisionsOwned, GateMatchesTokens, Live
  <2>4. /\ latest' = [j \in Key |-> IF j = k THEN nextRevision
                                     ELSE IF j = lost THEN 0 ELSE latest[j]]
        /\ published' = published
    BY <1>3 DEF Enqueue
  <2>5. Abstract!Demand(k, nextRevision, lost)
    BY <1>1, <1>2, <2>1, <2>2, <2>3, <2>4 DEF Abstract!Demand, Demands, IInv, TypeOK
  <2> QED BY <2>1, <2>5 DEF Abstract!Next
<1>4. latest \in [Key -> 0..MaxRevision] /\ queued \in [Key -> Queued]
  BY DEF IInv, TypeOK
<1>5. ASSUME NEW k \in Key, NEW p \in Priority,
             ScheduleReplaced(k, p) \/ ScheduleQueued(k, p)
      PROVE  Abstract!Next
  <2>1. \A j \in Key \ {k} : latest[j] = IF j = k THEN 0 ELSE latest[j]
    OBVIOUS
  <2> QED BY <1>3, <1>4, <1>5, <2>1 DEF ScheduleReplaced, ScheduleQueued
<1>6. ASSUME NEW k \in Key, NEW p \in Priority, NEW e \in Key,
             ScheduleEvicted(k, p, e)
      PROVE  Abstract!Next
  <2> DEFINE l == IF latest[e] = queued[e].revision
                    THEN [latest EXCEPT ![e] = 0] ELSE latest
  <2>1. latest[e] = queued[e].revision
    BY <1>6 DEF ScheduleEvicted, EvictionKey, IInv, GateMatchesTokens, Live
  <2>2. /\ l \in [Key -> 0..MaxRevision]
        /\ \A j \in Key \ {k} : l[j] = IF j = e THEN 0 ELSE latest[j]
    BY <1>4, <2>1
  <2>3. Enqueue(k, p, Absent(e), l, TokenOf(queued[e].revision))
    BY <1>6 DEF ScheduleEvicted
  <2> HIDE DEF l
  <2> QED BY <1>3, <2>2, <2>3
<1>7. ASSUME NEW d \in issued, FinishPublish(d) PROVE Abstract!Next
  <2>1. d.key \in Key /\ d.revision \in 1..MaxRevision
    BY DEF IInv, TypeOK
  <2>2. /\ latest[d.key] # 0
        /\ published' = [published EXCEPT ![d.key] = latest[d.key]]
        /\ latest' = [latest EXCEPT ![d.key] = 0]
    BY <1>7, <2>1 DEF FinishPublish
  <2>3. /\ Demands[d.key] # 0
        /\ published' = [published EXCEPT ![d.key] = Demands[d.key]]
        /\ Demands' = [Demands EXCEPT ![d.key] = 0]
    BY <1>1, <1>2, <2>2
  <2>4. Abstract!Publish(d.key)
    BY <2>3 DEF Abstract!Publish, Demands
  <2> QED BY <2>1, <2>4 DEF Abstract!Next
<1>8. ASSUME NEW k \in Key, Cancel(k) PROVE Abstract!Next
  <2>1. Abstract!Withdraw({k})
    BY <1>1, <1>2, <1>4, <1>8 DEF Cancel, Abstract!Withdraw, Demands
  <2>2. {k} \in SUBSET Key
    OBVIOUS
  <2> QED BY <2>1, <2>2 DEF Abstract!Next
<1>9. CASE ClearPending
  <2>1. Abstract!Withdraw(Key)
    BY <1>1, <1>2, <1>9 DEF ClearPending, Abstract!Withdraw, Demands
  <2> QED BY <2>1 DEF Abstract!Next
<1>10. ASSUME latest' = latest, published' = published
       PROVE  Demands' = Demands /\ published' = published
  BY <1>1, <1>2, <1>10
<1>11. ASSUME NEW k \in Key, PopNext(k) PROVE latest' = latest /\ published' = published
  BY <1>11 DEF PopNext
<1>12. ASSUME NEW d \in issued, FinishStale(d) \/ FinishUnknown(d)
       PROVE  latest' = latest /\ published' = published
  BY <1>12 DEF FinishStale, FinishUnknown
<1>13. ASSUME NEW k \in Key, NEW p \in Priority, ScheduleRejected(k, p)
       PROVE  latest' = latest /\ published' = published
  BY <1>13 DEF ScheduleRejected, vars
<1>14. ASSUME UNCHANGED vars PROVE latest' = latest /\ published' = published
  BY <1>14 DEF vars
<1> QED BY <1>5, <1>6, <1>7, <1>8, <1>9, <1>10, <1>11, <1>12, <1>13, <1>14
        DEF Next, Schedule, Finish

(* The queue implements the abstract latest-wins scheduler, for every value  *)
(* of the constants (ImplementsLatestWins).                                  *)
THEOREM QueueRefines == Spec => ImplementsLatestWins
<1>1. Spec => []IInv
  BY IInvInit, IInvNext, PTL DEF Spec
<1>2. [Abstract!Next]_<<Demands, published>>
        => [Abstract!Next]_<<[k \in Key |-> Live(k)], published>>
  BY DEF Demands
<1> QED BY <1>1, <1>2, InitRefines, NextRefines, PTL
        DEF Spec, ImplementsLatestWins, Abstract!Spec
=============================================================================

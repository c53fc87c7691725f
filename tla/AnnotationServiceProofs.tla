---------------------- MODULE AnnotationServiceProofs ----------------------
(****************************************************************************)
(* Proofs about AnnotationService, for every set of clients, paths, marks    *)
(* and calls and every capacity.  ServiceInv is the inductive invariant, the *)
(* conjunction of eight parts:                                               *)
(*   TypeInv      the types, and when job and reaping are in use             *)
(*   ClientInv    a client is attached once, before it is named otherwise    *)
(*   ShutdownInv  nothing comes after the shutdown message, and every lane   *)
(*                closes once it is taken                                    *)
(*   LaneInv      the ready queue and the lanes agree; a Detach comes last   *)
(*   LiveInv      a live client keeps its lane until the service shuts down  *)
(*   GoneInv      what an inspection calls gone is closed before the answer  *)
(*   OrderInv     the calls of a client wait in their order and the newest   *)
(*                one is never lost                                          *)
(*   AnswerInv    the answers of a client wait in the order of its calls     *)
(* For each part there is a lemma for the initial states, one for the steps  *)
(* of clients and environment and one for the steps of the actor; some need  *)
(* other parts.  The theorems derive from the invariant what the runs check. *)
(****************************************************************************)
EXTENDS AnnotationService, SequenceTheorems, FiniteSetTheorems, TLAPS

-----------------------------------------------------------------------------
(* Types *)

Attachment == [op : {"attach"}, client : Client]
LoadCommand == [op : {"load"}, client : Client, serial : 1..MaxCalls, gen : Nat, path : Path]
SaveCommand == [op : {"save"}, client : Client, serial : 1..MaxCalls, gen : Nat, path : Path,
                expected : Nat, snap : Snapshot]
Inspection == [op : {"inspect"}, gone : SUBSET Client]
Message == Attachment \cup LoadCommand \cup SaveCommand \cup Inspection
             \cup [op : {"wake", "shutdown"}]
Operation == LoadCommand \cup SaveCommand \cup {Detach}
Lane == [ops : Seq(Operation), scheduled : BOOLEAN, closing : BOOLEAN,
         gen : Nat, path : Path \cup {NoPath}, observed : Nat \cup {NoRevision}]
EventRecord == [kind : {"loaded", "loadfailed", "saved", "savefailed"},
                serial : 1..MaxCalls, gen : Nat, snap : Snapshot]
Job == [client : Client, op : Operation]

\* What any client may do, whatever it asks for: the calls of Next are some of these
Request == LoadRequest \cup SaveRequest
AnyClientStep ==
  \E c \in Client : \/ DropClient(c) \/ Receive(c)
                    \/ \E request \in Request : Submit(c, request)
AnyNext == Environment \/ AnyClientStep \/ ActorStep \/ Stopped

TypeInv ==
  /\ client \in [Client -> {"unattached", "live", "dropping", "dropped"}]
  /\ serial \in [Client -> 0..MaxCalls]
  /\ answered \in [Client -> 0..MaxCalls]
  /\ handled \in [Client -> 0..MaxCalls]
  /\ handle \in {"held", "released", "shutdown"}
  /\ mailbox \in Seq(Message)
  /\ events \in [Client -> Seq(EventRecord)]
  /\ \A c \in Client : Len(events[c]) <= EventCapacity
  /\ listening \in [Client -> BOOLEAN]
  /\ store \in [Path -> Snapshot]
  /\ pc \in {"top", "drain", "reap", "select", "store", "reply", "stopped"}
  /\ sinks \in SUBSET Client
  /\ pending \in [Client -> Seq(EventRecord)]
  /\ documents \in SUBSET Client
  /\ lane \in [Client -> Lane]
  /\ ready \in Seq(Client)
  /\ readySet \in SUBSET Client
  /\ reaping \in SUBSET Client
  /\ inspections \in SUBSET Inspection
  /\ shuttingDown \in BOOLEAN
  /\ IF pc = "store" THEN job \in Job ELSE job = NoJob
  /\ pc # "reap" => reaping = {}

-----------------------------------------------------------------------------
(* Clients come and go *)

IsCall(m, c) == m.op \in {"load", "save"} /\ m.client = c
IsAttach(m, c) == m.op = "attach" /\ m.client = c
Names(m, c) == IsCall(m, c) \/ IsAttach(m, c) \/ (m.op = "inspect" /\ c \in m.gone)
Gone(c) == client[c] \in {"dropping", "dropped"}

\* The actor has yet to hear of the client
Fresh(c) == client[c] = "unattached" \/ \E i \in DOMAIN mailbox : IsAttach(mailbox[i], c)

\* A client is attached once and before it is named otherwise; what an inspection
\* calls gone is gone
ClientInv ==
  /\ \A c \in Client : client[c] = "unattached" =>
       serial[c] = 0 /\ \A i \in DOMAIN mailbox : ~Names(mailbox[i], c)
  /\ \A c \in Client : \A i, j \in DOMAIN mailbox :
       IsAttach(mailbox[i], c) /\ Names(mailbox[j], c) => i <= j
  /\ \A c \in Client : Fresh(c) =>
       /\ c \notin documents /\ handled[c] = 0 /\ answered[c] = 0 /\ events[c] = <<>>
       /\ \A r \in inspections : c \notin r.gone
  /\ \A i \in DOMAIN mailbox : mailbox[i].op = "inspect" => \A c \in mailbox[i].gone : Gone(c)
  /\ \A r \in inspections : \A c \in r.gone : Gone(c)

\* Shutdown is the last message, and then every lane closes
ShutdownInv ==
  /\ handle # "shutdown" => ~shuttingDown /\ \A i \in DOMAIN mailbox : mailbox[i].op # "shutdown"
  /\ \A i \in DOMAIN mailbox : mailbox[i].op = "shutdown" => i = Len(mailbox)
  /\ shuttingDown => mailbox = <<>> /\ \A c \in documents : lane[c].closing
  /\ pc = "stopped" => shuttingDown
  /\ pc \in {"reply", "stopped"} => ready = <<>>

-----------------------------------------------------------------------------
(* Lanes *)

AtWork(c) == pc = "store" /\ job.client = c

\* The last operation of a closing lane is its Detach, and no other lane has one
LaneClosing(c) ==
  /\ lane[c].closing =>
       /\ c \notin sinks
       /\ \/ lane[c].ops # <<>> /\ lane[c].ops[Len(lane[c].ops)].op = "detach"
          \/ AtWork(c) /\ job.op.op = "detach"
  /\ \A i \in DOMAIN lane[c].ops :
       IF lane[c].ops[i].op = "detach" THEN lane[c].closing /\ i = Len(lane[c].ops)
                                       ELSE lane[c].ops[i].client = c
  /\ AtWork(c) =>
       IF job.op.op = "detach" THEN lane[c].closing /\ lane[c].ops = <<>>
                               ELSE job.op.client = c

LaneInv ==
  /\ ReadyAgrees
  /\ pc = "store" => ~lane[job.client].scheduled
  /\ \A c \in Client \ documents : lane[c] = NewLane
  /\ \A c \in Client : LaneClosing(c)
  /\ sinks \subseteq documents /\ reaping \subseteq documents
  /\ \A c \in Client \ sinks : pending[c] = <<>>

\* A client that is not dropped keeps its lane until the service shuts down
LiveInv ==
  \A c \in Client : client[c] = "live" /\ ~Fresh(c) /\ ~shuttingDown
                      => c \in documents /\ ~lane[c].closing

\* What an inspection calls gone is closing once the leases have been looked at
GoneInv ==
  \A r \in inspections : \A c \in r.gone \cap documents :
    /\ pc = "reap" => c \in reaping \/ lane[c].closing
    /\ pc \in {"select", "reply"} => lane[c].closing

-----------------------------------------------------------------------------
(* The calls of a client *)

\* The calls of a client are executed in their order
CallsOrdered(c) ==
  LET ops == lane[c].ops IN
  /\ handled[c] <= serial[c]
  /\ \A i \in DOMAIN mailbox : IsCall(mailbox[i], c) =>
       /\ mailbox[i].serial \in (handled[c] + 1)..serial[c]
       /\ \A j \in DOMAIN mailbox :
            i < j /\ IsCall(mailbox[j], c) => mailbox[i].serial < mailbox[j].serial
  /\ \A i \in DOMAIN ops : ops[i].op # "detach" =>
       /\ ops[i].serial \in (handled[c] + 1)..serial[c]
       /\ \A j \in DOMAIN ops : i < j /\ ops[j].op # "detach" => ops[i].serial < ops[j].serial
       /\ \A j \in DOMAIN mailbox : IsCall(mailbox[j], c) => ops[i].serial < mailbox[j].serial
  /\ AtWork(c) /\ job.op.op # "detach" =>
       /\ job.op.serial \in (handled[c] + 1)..serial[c]
       /\ \A j \in DOMAIN ops : ops[j].op # "detach" => job.op.serial < ops[j].serial
       /\ \A j \in DOMAIN mailbox : IsCall(mailbox[j], c) => job.op.serial < mailbox[j].serial

\* The newest call of a client is executed or on its way
NewestKept(c) ==
  \/ serial[c] = handled[c]
  \/ \E i \in DOMAIN mailbox : IsCall(mailbox[i], c) /\ mailbox[i].serial = serial[c]
  \/ \E i \in DOMAIN lane[c].ops :
       lane[c].ops[i].op # "detach" /\ lane[c].ops[i].serial = serial[c]
  \/ AtWork(c) /\ job.op.op # "detach" /\ job.op.serial = serial[c]

OrderInv ==
  \A c \in Client : /\ CallsOrdered(c)
                    /\ client[c] = "live" => NewestKept(c)

-----------------------------------------------------------------------------
(* The answers to a client *)

Answers(c) == events[c] \o pending[c]

\* a: the answers on their way, from what the client has to what was executed
InStep(a, from, to) ==
  /\ \A i \in DOMAIN a : from < a[i].serial
  /\ \A i, j \in DOMAIN a : i < j => a[i].serial < a[j].serial
  /\ IF a = <<>> THEN from = to ELSE a[Len(a)].serial = to

AnswerInv ==
  \A c \in Client :
    /\ Len(pending[c]) <= PendingCapacity
    /\ AtWork(c) /\ c \in sinks => Len(pending[c]) < PendingCapacity
    /\ c \in sinks /\ listening[c] => InStep(Answers(c), answered[c], handled[c])

ServiceInv ==
  /\ TypeInv /\ ClientInv /\ ShutdownInv /\ LaneInv /\ LiveInv /\ GoneInv
  /\ OrderInv /\ AnswerInv

-----------------------------------------------------------------------------
(* Messages, operations and lanes, field by field *)

\* What a message holds, by its kind
LEMMA MessageFields ==
  ASSUME NEW m \in Message
  PROVE  /\ m.op \in {"attach", "load", "save", "inspect", "wake", "shutdown"}
         /\ m.op = "attach" => m.client \in Client
         /\ m.op = "load" => m \in LoadCommand
         /\ m.op = "save" => m \in SaveCommand
         /\ m.op = "inspect" => m \in Inspection /\ m.gone \in SUBSET Client
         /\ m.op \in {"load", "save"} =>
              /\ m \in Operation /\ m.client \in Client /\ m.serial \in 1..MaxCalls
              /\ m.gen \in Nat /\ m.path \in Path
<1>1. CASE m \in Attachment
  BY <1>1 DEF Attachment
<1>2. CASE m \in LoadCommand
  BY <1>2 DEF LoadCommand, Operation
<1>3. CASE m \in SaveCommand
  BY <1>3 DEF SaveCommand, Operation
<1>4. CASE m \in Inspection
  BY <1>4 DEF Inspection
<1>5. CASE m \in [op : {"wake", "shutdown"}]
  BY <1>5
<1> QED BY <1>1, <1>2, <1>3, <1>4, <1>5 DEF Message

\* What an operation holds, by its kind
LEMMA OperationFields ==
  ASSUME NEW m \in Operation
  PROVE  /\ m.op \in {"load", "save", "detach"}
         /\ m.op = "detach" => m = Detach
         /\ m.op = "save" => m \in SaveCommand /\ m.snap \in Snapshot /\ m.expected \in Nat
         /\ m.op # "detach" =>
              /\ m.client \in Client /\ m.serial \in 1..MaxCalls
              /\ m.gen \in Nat /\ m.path \in Path
<1>1. CASE m \in LoadCommand
  BY <1>1 DEF LoadCommand
<1>2. CASE m \in SaveCommand
  BY <1>2 DEF SaveCommand
<1>3. CASE m = Detach
  BY <1>3 DEF Detach
<1> QED BY <1>1, <1>2, <1>3 DEF Operation

\* Detach is an operation of a lane
LEMMA DetachIn == Detach \in Operation /\ Detach.op = "detach"
BY DEF Operation, Detach

\* The types of the fields of a lane
LEMMA LaneFields ==
  ASSUME NEW l \in Lane
  PROVE  /\ l.ops \in Seq(Operation) /\ l.scheduled \in BOOLEAN /\ l.closing \in BOOLEAN
         /\ l.gen \in Nat /\ l.path \in Path \cup {NoPath}
         /\ l.observed \in Nat \cup {NoRevision}
BY DEF Lane

\* The lane of a client that has just attached is open, empty and not scheduled
LEMMA NewLaneIn ==
  /\ NewLane \in Lane /\ NewLane.ops = <<>>
  /\ NewLane.scheduled = FALSE /\ NewLane.closing = FALSE
BY DEF NewLane, Lane

\* The record of a lane in terms of its fields
LEMMA LaneIs ==
  ASSUME NEW l \in Lane, NEW ops \in Seq(Operation), NEW scheduled \in BOOLEAN,
         NEW closing \in BOOLEAN
  PROVE  LET k == [l EXCEPT !.ops = ops, !.scheduled = scheduled, !.closing = closing]
         IN /\ k \in Lane /\ k.ops = ops /\ k.scheduled = scheduled /\ k.closing = closing
            /\ k.gen = l.gen /\ k.path = l.path /\ k.observed = l.observed
BY DEF Lane

\* A message put at the end of the mailbox
LEMMA Posting ==
  ASSUME mailbox \in Seq(Message), NEW m \in Message, mailbox' = Append(mailbox, m)
  PROVE  /\ mailbox' \in Seq(Message) /\ mailbox' # <<>> /\ Len(mailbox) \in Nat
         /\ Len(mailbox') = Len(mailbox) + 1
         /\ DOMAIN mailbox = 1..Len(mailbox) /\ DOMAIN mailbox' = 1..(Len(mailbox) + 1)
         /\ \A i \in DOMAIN mailbox : mailbox'[i] = mailbox[i]
         /\ mailbox'[Len(mailbox) + 1] = m
OBVIOUS

\* The first message is taken
LEMMA Taking ==
  ASSUME mailbox \in Seq(Message), mailbox # <<>>, mailbox' = Tail(mailbox)
  PROVE  /\ mailbox' \in Seq(Message) /\ Len(mailbox) \in Nat \ {0}
         /\ Len(mailbox') = Len(mailbox) - 1
         /\ Head(mailbox) = mailbox[1] /\ Head(mailbox) \in Message
         /\ DOMAIN mailbox = 1..Len(mailbox) /\ DOMAIN mailbox' = 1..(Len(mailbox) - 1)
         /\ \A i \in DOMAIN mailbox' : i + 1 \in DOMAIN mailbox /\ mailbox'[i] = mailbox[i + 1]
OBVIOUS

\* Every message of the mailbox has its type
LEMMA Messages ==
  ASSUME mailbox \in Seq(Message), NEW i \in DOMAIN mailbox
  PROVE  mailbox[i] \in Message /\ i \in 1..Len(mailbox) /\ Len(mailbox) \in Nat
OBVIOUS

-----------------------------------------------------------------------------
(* The order in which lanes become ready *)

\* No element of s is there twice
Distinct(s) == \A i, j \in DOMAIN s : s[i] = s[j] => i = j

\* SetToSeqs enumerates a set without repetition
LEMMA Enumerated ==
  ASSUME NEW T \in SUBSET Client, NEW order \in SetToSeqs(T)
  PROVE  order \in Seq(Client) /\ Distinct(order) /\ ToSet(order) = T
<1> DEFINE D == 1..Cardinality(T)
<1>1. IsFiniteSet(T) /\ Cardinality(T) \in Nat
  BY ClientAssumption, FS_Subset, FS_CardinalityType
<1>2. order \in [D -> T] /\ \A i, j \in D : i # j => order[i] # order[j]
  BY DEF SetToSeqs
<1>3. order \in Injection(D, T)
  BY <1>2 DEF Injection, IsInjective
<1>4. IsFiniteSet(D) /\ Cardinality(D) = Cardinality(T)
  BY <1>1, FS_Interval
<1>5. order \in Surjection(D, T)
  BY <1>1, <1>3, <1>4, FS_Injection
<1>6. ToSet(order) = T
  BY <1>2, <1>5 DEF Surjection, ToSet
<1>7. order \in Seq(Client)
  BY <1>1, <1>2
<1> QED BY <1>2, <1>6, <1>7 DEF Distinct

\* Two lists without repetition and without a common entry
LEMMA Joined ==
  ASSUME NEW s \in Seq(Client), NEW t \in Seq(Client)
  PROVE  /\ s \o t \in Seq(Client) /\ ToSet(s \o t) = ToSet(s) \cup ToSet(t)
         /\ Distinct(s) /\ Distinct(t) /\ ToSet(s) \cap ToSet(t) = {} => Distinct(s \o t)
<1> DEFINE u == s \o t
<1>1. /\ u \in Seq(Client) /\ Len(u) = Len(s) + Len(t)
      /\ Len(s) \in Nat /\ Len(t) \in Nat
      /\ DOMAIN u = 1..(Len(s) + Len(t)) /\ DOMAIN s = 1..Len(s) /\ DOMAIN t = 1..Len(t)
      /\ \A i \in DOMAIN u : u[i] = IF i <= Len(s) THEN s[i] ELSE t[i - Len(s)]
  BY ConcatProperties, LenProperties
<1> HIDE DEF u
<1>2. \A i \in DOMAIN s : i \in DOMAIN u /\ u[i] = s[i]
  BY <1>1
<1>3. \A i \in DOMAIN t : i + Len(s) \in DOMAIN u /\ u[i + Len(s)] = t[i]
  BY <1>1
<1>4. \A i \in DOMAIN u : u[i] \in ToSet(s) \cup ToSet(t)
  BY <1>1 DEF ToSet
<1>5. ToSet(u) = ToSet(s) \cup ToSet(t)
  BY <1>2, <1>3, <1>4 DEF ToSet
<1>6. ASSUME Distinct(s), Distinct(t), ToSet(s) \cap ToSet(t) = {} PROVE Distinct(u)
  <2> SUFFICES ASSUME NEW i \in DOMAIN u, NEW j \in DOMAIN u, u[i] = u[j] PROVE i = j
    BY DEF Distinct
  <2>1. CASE i <= Len(s) /\ j <= Len(s)
    BY <1>1, <1>6, <2>1 DEF Distinct
  <2>2. CASE ~(i <= Len(s)) /\ ~(j <= Len(s))
    <3>1. /\ i - Len(s) \in DOMAIN t /\ j - Len(s) \in DOMAIN t
          /\ t[i - Len(s)] = t[j - Len(s)]
      BY <1>1, <2>2
    <3>2. i - Len(s) = j - Len(s)
      BY <1>6, <3>1 DEF Distinct
    <3> QED BY <1>1, <3>2
  <2>3. CASE i <= Len(s) /\ ~(j <= Len(s))
    <3>1. i \in DOMAIN s /\ j - Len(s) \in DOMAIN t /\ s[i] = t[j - Len(s)]
      BY <1>1, <2>3
    <3>2. s[i] \in ToSet(s) /\ s[i] \in ToSet(t)
      BY <3>1 DEF ToSet
    <3> QED BY <1>6, <3>2
  <2>4. CASE ~(i <= Len(s)) /\ j <= Len(s)
    <3>1. j \in DOMAIN s /\ i - Len(s) \in DOMAIN t /\ s[j] = t[i - Len(s)]
      BY <1>1, <2>4
    <3>2. s[j] \in ToSet(s) /\ s[j] \in ToSet(t)
      BY <3>1 DEF ToSet
    <3> QED BY <1>6, <3>2
  <2> QED BY <2>1, <2>2, <2>3, <2>4
<1> QED BY <1>1, <1>5, <1>6 DEF u

\* The lanes of S that are to become ready in schedule_document
Unscheduled(S, L) == {c \in S : ~L[c].scheduled /\ c \notin readySet}

\* Schedule, for lanes L that differ from the old ones in S
LEMMA Scheduling ==
  ASSUME ready \in Seq(Client), readySet \in SUBSET Client,
         NEW S \in SUBSET Client, NEW L \in [Client -> Lane], Schedule(S, L)
  PROVE  /\ ready' \in Seq(Client) /\ readySet' = readySet \cup Unscheduled(S, L)
         /\ ToSet(ready') = ToSet(ready) \cup Unscheduled(S, L)
         /\ Distinct(ready) /\ ToSet(ready) = readySet => Distinct(ready')
         /\ lane' \in [Client -> Lane]
         /\ \A c \in Client :
              /\ lane'[c].ops = L[c].ops /\ lane'[c].closing = L[c].closing
              /\ lane'[c].scheduled = (L[c].scheduled \/ c \in Unscheduled(S, L))
              /\ c \notin S => lane'[c] = L[c]
<1> DEFINE T == Unscheduled(S, L)
<1>1. PICK order \in SetToSeqs(T) : ready' = ready \o order
  BY DEF Schedule, Unscheduled
<1>2. /\ readySet' = readySet \cup T
      /\ lane' = [c \in Client |-> IF c \in T THEN [L[c] EXCEPT !.scheduled = TRUE] ELSE L[c]]
  BY DEF Schedule, Unscheduled
<1>3. T \in SUBSET Client /\ T \subseteq S /\ T \cap readySet = {}
  BY DEF Unscheduled
<1> HIDE DEF T
<1>4. order \in Seq(Client) /\ Distinct(order) /\ ToSet(order) = T
  BY <1>1, <1>3, Enumerated
<1>5. ready' \in Seq(Client) /\ ToSet(ready') = ToSet(ready) \cup T
  BY <1>1, <1>4, Joined
<1>6. Distinct(ready) /\ ToSet(ready) = readySet => Distinct(ready')
  BY <1>1, <1>3, <1>4, Joined
<1>7. ASSUME NEW c \in Client
      PROVE  /\ lane'[c] \in Lane /\ lane'[c].ops = L[c].ops /\ lane'[c].closing = L[c].closing
             /\ lane'[c].scheduled = (L[c].scheduled \/ c \in T)
             /\ c \notin S => lane'[c] = L[c]
  <2>1. L[c] \in Lane
    OBVIOUS
  <2>2. CASE c \in T
    BY <1>2, <2>1, <2>2, <1>3, LaneFields DEF Lane
  <2>3. CASE c \notin T
    BY <1>2, <2>1, <2>3, LaneFields
  <2> QED BY <2>2, <2>3
<1>8. lane' \in [Client -> Lane]
  BY <1>2, <1>7
<1> QED BY <1>2, <1>5, <1>6, <1>7, <1>8 DEF T

\* A stretch of a list without repetition
LEMMA Stretch ==
  ASSUME NEW s \in Seq(Client), NEW m \in Nat \ {0}, NEW n \in 0..Len(s)
  PROVE  /\ SubSeq(s, m, n) \in Seq(Client)
         /\ ToSet(SubSeq(s, m, n)) = {s[i] : i \in m..n}
         /\ Distinct(s) => Distinct(SubSeq(s, m, n))
<1> DEFINE t == SubSeq(s, m, n)
<1>1. Len(s) \in Nat /\ DOMAIN s = 1..Len(s) /\ \A i \in m..n : i \in DOMAIN s /\ s[i] \in Client
  BY LenProperties, ElementOfSeq
<1>2. /\ t \in Seq(Client) /\ Len(t) = IF m <= n THEN n - m + 1 ELSE 0
      /\ \A i \in 1..(n - m + 1) : t[i] = s[m + i - 1]
  BY <1>1, SubSeqProperties
<1> HIDE DEF t
<1>3. DOMAIN t = 1..(n - m + 1)
  BY <1>2, LenProperties
<1>4. \A i \in DOMAIN t : m + i - 1 \in m..n /\ t[i] = s[m + i - 1]
  BY <1>2, <1>3
<1>5. \A i \in m..n : i - m + 1 \in DOMAIN t /\ t[i - m + 1] = s[i]
  <2> SUFFICES ASSUME NEW i \in m..n PROVE i - m + 1 \in DOMAIN t /\ t[i - m + 1] = s[i]
    OBVIOUS
  <2>1. i - m + 1 \in 1..(n - m + 1) /\ m + (i - m + 1) - 1 = i
    OBVIOUS
  <2> QED BY <1>3, <1>4, <2>1
<1>6. ToSet(t) = {s[i] : i \in m..n}
  <2>1. ASSUME NEW x \in ToSet(t) PROVE x \in {s[i] : i \in m..n}
    BY <1>4 DEF ToSet
  <2>2. ASSUME NEW x \in {s[i] : i \in m..n} PROVE x \in ToSet(t)
    <3>1. PICK i \in m..n : x = s[i]
      BY <2>2
    <3> QED BY <1>5, <3>1 DEF ToSet
  <2> QED BY <2>1, <2>2
<1>7. Distinct(s) => Distinct(t)
  <2> SUFFICES ASSUME Distinct(s), NEW i \in DOMAIN t, NEW j \in DOMAIN t, t[i] = t[j]
               PROVE  i = j
    BY DEF Distinct
  <2>1. /\ m + i - 1 \in DOMAIN s /\ m + j - 1 \in DOMAIN s
        /\ s[m + i - 1] = s[m + j - 1]
    BY <1>1, <1>4
  <2>2. m + i - 1 = m + j - 1
    BY <2>1 DEF Distinct
  <2> QED BY <1>3, <2>2
<1> QED BY <1>2, <1>6, <1>7 DEF t

\* What is left of a list when entry n goes and those before it move to the back
LEMMA TakenOut ==
  ASSUME NEW s \in Seq(Client), Distinct(s), NEW n \in DOMAIN s
  PROVE  LET t == SubSeq(s, n + 1, Len(s)) \o SubSeq(s, 1, n - 1)
         IN t \in Seq(Client) /\ Distinct(t) /\ ToSet(t) = ToSet(s) \ {s[n]}
<1> DEFINE u == SubSeq(s, n + 1, Len(s))
           v == SubSeq(s, 1, n - 1)
<1>1. Len(s) \in Nat /\ DOMAIN s = 1..Len(s) /\ n \in 1..Len(s)
  BY LenProperties
<1>2. u \in Seq(Client) /\ ToSet(u) = {s[i] : i \in (n + 1)..Len(s)} /\ Distinct(u)
  <2>1. n + 1 \in Nat \ {0} /\ Len(s) \in 0..Len(s)
    BY <1>1
  <2> QED BY <2>1, Stretch
<1>3. v \in Seq(Client) /\ ToSet(v) = {s[i] : i \in 1..(n - 1)} /\ Distinct(v)
  <2>1. 1 \in Nat \ {0} /\ n - 1 \in 0..Len(s)
    BY <1>1
  <2> QED BY <2>1, Stretch
<1> HIDE DEF u, v
<1>4. ToSet(u) \cap ToSet(v) = {}
  <2> SUFFICES ASSUME NEW x \in ToSet(u), x \in ToSet(v) PROVE FALSE
    OBVIOUS
  <2>1. PICK i \in (n + 1)..Len(s) : x = s[i]
    BY <1>2
  <2>2. PICK j \in 1..(n - 1) : x = s[j]
    BY <1>3
  <2>3. i \in DOMAIN s /\ j \in DOMAIN s /\ i # j
    BY <1>1
  <2> QED BY <2>1, <2>2, <2>3 DEF Distinct
<1>5. ToSet(u) \cup ToSet(v) = ToSet(s) \ {s[n]}
  <2>1. ASSUME NEW x \in ToSet(u) \cup ToSet(v) PROVE x \in ToSet(s) \ {s[n]}
    <3>1. PICK i \in DOMAIN s : x = s[i] /\ i # n
      <4>1. CASE x \in ToSet(u)
        <5>1. PICK i \in (n + 1)..Len(s) : x = s[i]
          BY <1>2, <4>1
        <5> QED BY <1>1, <5>1
      <4>2. CASE x \in ToSet(v)
        <5>1. PICK i \in 1..(n - 1) : x = s[i]
          BY <1>3, <4>2
        <5> QED BY <1>1, <5>1
      <4> QED BY <2>1, <4>1, <4>2
    <3> QED BY <1>1, <3>1 DEF Distinct, ToSet
  <2>2. ASSUME NEW x \in ToSet(s) \ {s[n]} PROVE x \in ToSet(u) \cup ToSet(v)
    <3>1. PICK i \in 1..Len(s) : x = s[i]
      BY <1>1 DEF ToSet
    <3>2. i \in (n + 1)..Len(s) \/ i \in 1..(n - 1)
      BY <1>1, <3>1
    <3> QED BY <1>2, <1>3, <3>1, <3>2
  <2> QED BY <2>1, <2>2
<1>6. u \o v \in Seq(Client) /\ Distinct(u \o v) /\ ToSet(u \o v) = ToSet(s) \ {s[n]}
  BY <1>2, <1>3, <1>4, <1>5, Joined
<1> QED BY <1>6 DEF u, v

\* The lane served last goes to the back
LEMMA Rotating ==
  ASSUME ready \in Seq(Client), Distinct(ready)
  PROVE  Rotation \in Seq(Client) /\ Distinct(Rotation) /\ ToSet(Rotation) = ToSet(ready)
<1>1. CASE Len(ready) > 1 /\ Head(ready) \in lastServed
  <2> DEFINE u == SubSeq(ready, 2, Len(ready))
             h == <<ready[1]>>
  <2>1. /\ Len(ready) \in Nat /\ DOMAIN ready = 1..Len(ready) /\ ready # <<>>
        /\ ready[1] \in Client /\ Head(ready) = ready[1]
    BY <1>1, LenProperties
  <2>2. Tail(ready) = u
    BY <2>1, TailIsSubSeq
  <2>3. u \in Seq(Client) /\ ToSet(u) = {ready[i] : i \in 2..Len(ready)} /\ Distinct(u)
    BY <2>1, Stretch
  <2>4. h \in Seq(Client) /\ ToSet(h) = {ready[1]} /\ Distinct(h)
    BY <2>1 DEF ToSet, Distinct
  <2>5. ToSet(u) \cap {ready[1]} = {} /\ ToSet(u) \cup {ready[1]} = ToSet(ready)
    <3>1. ToSet(u) \cap {ready[1]} = {}
      BY <2>1, <2>3 DEF Distinct
    <3>2. \A i \in DOMAIN ready : i = 1 \/ i \in 2..Len(ready)
      BY <2>1
    <3>3. \A i \in 2..Len(ready) : i \in DOMAIN ready
      BY <2>1
    <3> HIDE DEF u
    <3>4. ASSUME NEW x \in ToSet(u) \cup {ready[1]} PROVE x \in ToSet(ready)
      <4>1. 1 \in DOMAIN ready
        BY <1>1, <2>1
      <4> QED BY <2>3, <3>3, <3>4, <4>1 DEF ToSet
    <3>5. ASSUME NEW x \in ToSet(ready) PROVE x \in ToSet(u) \cup {ready[1]}
      <4>1. PICK i \in DOMAIN ready : x = ready[i]
        BY <3>5 DEF ToSet
      <4> QED BY <2>3, <3>2, <4>1
    <3> QED BY <3>1, <3>4, <3>5
  <2>6. Rotation = u \o h
    <3>1. Rotation = Append(u, ready[1])
      BY <1>1, <2>1, <2>2 DEF Rotation
    <3> HIDE DEF u
    <3> QED BY <2>1, <2>3, <3>1
  <2> HIDE DEF u, h
  <2> QED BY <2>3, <2>4, <2>5, <2>6, Joined
<1>2. CASE ~(Len(ready) > 1 /\ Head(ready) \in lastServed)
  BY <1>2 DEF Rotation
<1> QED BY <1>1, <1>2

-----------------------------------------------------------------------------
(* Answers *)

\* flush_all_clients: the answers on their way stay the same, in the same order
LEMMA Flushing ==
  ASSUME TypeInv, FlushAll
  PROVE  /\ sinks' = sinks \ Disconnected
         /\ events' \in [Client -> Seq(EventRecord)] /\ pending' \in [Client -> Seq(EventRecord)]
         /\ \A c \in Client :
              /\ pending'[c] = Unsent(c)
              /\ Len(events'[c]) <= EventCapacity /\ Len(pending'[c]) <= Len(pending[c])
              /\ pending[c] = <<>> => pending'[c] = <<>> /\ events'[c] = events[c]
              /\ c \in Disconnected => pending'[c] = <<>>
              /\ c \notin Disconnected => events'[c] \o pending'[c] = events[c] \o pending[c]
<1>1. sinks' = sinks \ Disconnected
  BY DEF FlushAll
<1>2. ASSUME NEW c \in Client
      PROVE  /\ pending'[c] = Unsent(c)
             /\ events'[c] \in Seq(EventRecord) /\ pending'[c] \in Seq(EventRecord)
             /\ Len(events'[c]) <= EventCapacity /\ Len(pending'[c]) <= Len(pending[c])
             /\ pending[c] = <<>> => pending'[c] = <<>> /\ events'[c] = events[c]
             /\ c \in Disconnected => pending'[c] = <<>>
             /\ c \notin Disconnected => events'[c] \o pending'[c] = events[c] \o pending[c]
  <2> DEFINE e == events[c]
             p == pending[c]
             n == Flushable(c)
  <2>1. /\ e \in Seq(EventRecord) /\ p \in Seq(EventRecord) /\ Len(e) <= EventCapacity
        /\ Len(e) \in Nat /\ Len(p) \in Nat
    BY DEF TypeInv
  <2>2. pending'[c] = Unsent(c) /\ events'[c] = Sent(c)
    BY DEF FlushAll
  <2>3. n \in 0..Len(p) /\ n + Len(e) <= EventCapacity
    <3>1. n = IF Len(p) < EventCapacity - Len(e) THEN Len(p) ELSE EventCapacity - Len(e)
      BY DEF Flushable
    <3> HIDE DEF e, p, n
    <3> QED BY <2>1, <3>1, CapacityAssumption
  <2>4. CASE c \in Disconnected
    <3>1. pending'[c] = <<>> /\ events'[c] = e /\ p # <<>>
      BY <2>2, <2>4 DEF Unsent, Sent, Disconnected
    <3>2. <<>> \in Seq(EventRecord) /\ Len(<<>>) = 0
      BY EmptySeq
    <3>3. Len(pending'[c]) <= Len(pending[c])
      BY <2>1, <3>1, <3>2
    <3> QED BY <2>1, <2>2, <2>4, <3>1, <3>2, <3>3
  <2>5. CASE c \notin Disconnected
    <3> DEFINE a == SubSeq(p, 1, n)
               b == SubSeq(p, n + 1, Len(p))
    <3>1. Unsent(c) = b /\ Sent(c) = e \o a
      BY <2>5 DEF Unsent, Sent
    <3> HIDE DEF e, p, n
    <3>2. /\ a \in Seq(EventRecord) /\ Len(a) = n
          /\ b \in Seq(EventRecord) /\ Len(b) = Len(p) - n
      BY <2>1, <2>3, SubSeqProperties
    <3>3. a \o b = p
      <4>1. 1 \in 1..(Len(p) + 1) /\ n \in (1 - 1)..Len(p) /\ Len(p) \in n..Len(p)
        BY <2>1, <2>3
      <4>2. a \o b = SubSeq(p, 1, Len(p))
        BY <2>1, <4>1, ConcatAdjacentSubSeq
      <4> QED BY <2>1, <4>2, SubSeqFull
    <3> HIDE DEF a, b
    <3>4. e \o a \in Seq(EventRecord) /\ Len(e \o a) = Len(e) + Len(a)
      BY <2>1, <3>2, ConcatProperties
    <3>5. (e \o a) \o b = e \o p
      <4>1. (e \o a) \o b = e \o (a \o b)
        BY <2>1, <3>2, ConcatAssociative, SMTT(30)
      <4> QED BY <3>3, <4>1
    <3>6. p = <<>> => a = <<>> /\ b = <<>>
      BY <2>1, <2>3, <3>2
    <3>7. a = <<>> => e \o a = e
      BY <2>1, ConcatEmptySeq
    <3> QED BY <2>1, <2>2, <2>3, <2>5, <3>1, <3>2, <3>4, <3>5, <3>6, <3>7 DEF e, p
  <2> QED BY <2>4, <2>5
<1>3. DOMAIN events' = Client /\ DOMAIN pending' = Client
      /\ events' = [c \in Client |-> events'[c]] /\ pending' = [c \in Client |-> pending'[c]]
  BY DEF FlushAll
<1>4. events' \in [Client -> Seq(EventRecord)] /\ pending' \in [Client -> Seq(EventRecord)]
  BY <1>2, <1>3
<1> QED BY <1>1, <1>2, <1>4

\* send_event: an answer goes behind those on their way
LEMMA Sending ==
  ASSUME TypeInv, NEW e \in EventRecord, job \in Job, SendEvent(e)
  PROVE  /\ sinks' \subseteq sinks /\ sinks \ {job.client} \subseteq sinks'
         /\ events' \in [Client -> Seq(EventRecord)] /\ pending' \in [Client -> Seq(EventRecord)]
         /\ \A c \in Client :
              /\ c # job.client \/ c \notin sinks => events'[c] = events[c] /\ pending'[c] = pending[c]
              /\ Len(events'[c]) <= EventCapacity
              /\ Len(pending'[c]) <= Len(pending[c]) + 1
              /\ c \in sinks \ sinks' => pending'[c] = <<>>
              /\ c = job.client /\ c \in sinks /\ listening[c] =>
                   events'[c] \o pending'[c] = Append(events[c] \o pending[c], e)
<1> DEFINE c == job.client
           ev == events[c]
           p == pending[c]
<1>1. c \in Client
  BY DEF Job
<1>2. /\ ev \in Seq(EventRecord) /\ p \in Seq(EventRecord) /\ Len(ev) <= EventCapacity
      /\ Len(ev) \in Nat /\ Len(p) \in Nat
      /\ events \in [Client -> Seq(EventRecord)] /\ pending \in [Client -> Seq(EventRecord)]
      /\ \A d \in Client : Len(events[d]) <= EventCapacity /\ Len(pending[d]) \in Nat
      /\ listening[c] \in BOOLEAN
  BY <1>1 DEF TypeInv
<1>3. /\ sinks' = IF p = <<>> /\ ~listening[c] THEN sinks \ {c} ELSE sinks
      /\ events' = IF c \in sinks /\ p = <<>> /\ listening[c] /\ Len(ev) < EventCapacity
                     THEN [events EXCEPT ![c] = Append(ev, e)] ELSE events
      /\ pending' = IF c \in sinks /\ (p # <<>> \/ (listening[c] /\ ~(Len(ev) < EventCapacity)))
                      THEN [pending EXCEPT ![c] = Append(p, e)] ELSE pending
  BY DEF SendEvent
<1> HIDE DEF c
<1>4. /\ Append(ev, e) \in Seq(EventRecord) /\ Len(Append(ev, e)) = Len(ev) + 1
      /\ Append(p, e) \in Seq(EventRecord) /\ Len(Append(p, e)) = Len(p) + 1
  BY <1>2
<1>5. /\ ev \o Append(p, e) = Append(ev \o p, e)
      /\ p = <<>> => Append(ev, e) \o p = Append(ev \o p, e)
  <2>1. p = <<>> => Append(ev, e) \o p = Append(ev, e) /\ ev \o p = ev
    BY <1>2, <1>4, ConcatEmptySeq
  <2> HIDE DEF ev, p
  <2>2. Append(p, e) = p \o <<e>> /\ <<e>> \in Seq(EventRecord) /\ ev \o p \in Seq(EventRecord)
    BY <1>2
  <2>3. Append(ev \o p, e) = (ev \o p) \o <<e>>
    BY <2>2
  <2>4. (ev \o p) \o <<e>> = ev \o (p \o <<e>>)
    BY <1>2, <2>2, ConcatAssociative
  <2> QED BY <2>1, <2>2, <2>3, <2>4
<1>6. /\ events'[c] \in {ev, Append(ev, e)} /\ pending'[c] \in {p, Append(p, e)}
      /\ events'[c] # ev => Len(ev) < EventCapacity
      /\ c \notin sinks => events'[c] = ev /\ pending'[c] = p
      /\ c \in sinks /\ listening[c] =>
           (events'[c] = ev /\ pending'[c] = Append(p, e))
             \/ (p = <<>> /\ events'[c] = Append(ev, e) /\ pending'[c] = p)
      /\ c \notin sinks' /\ c \in sinks => pending'[c] = <<>>
  BY <1>1, <1>2, <1>3
<1>7. \A d \in Client \ {c} : events'[d] = events[d] /\ pending'[d] = pending[d]
  BY <1>2, <1>3
<1>8. events' \in [Client -> Seq(EventRecord)] /\ pending' \in [Client -> Seq(EventRecord)]
  BY <1>2, <1>3, <1>4
<1>9. Len(events'[c]) <= EventCapacity /\ Len(pending'[c]) <= Len(p) + 1
  BY <1>2, <1>4, <1>6, CapacityAssumption
<1>10. c \in sinks /\ listening[c] => events'[c] \o pending'[c] = Append(ev \o p, e)
  BY <1>5, <1>6
<1>11. sinks' \subseteq sinks /\ sinks \ {c} \subseteq sinks'
  BY <1>3
<1>12. ASSUME NEW d \in Client
      PROVE   /\ d # c \/ d \notin sinks => events'[d] = events[d] /\ pending'[d] = pending[d]
              /\ Len(events'[d]) <= EventCapacity
              /\ Len(pending'[d]) <= Len(pending[d]) + 1
              /\ d \in sinks \ sinks' => pending'[d] = <<>>
              /\ d = c /\ d \in sinks /\ listening[d] =>
                   events'[d] \o pending'[d] = Append(events[d] \o pending[d], e)
  <2>1. CASE d = c
    BY <1>6, <1>9, <1>10, <2>1
  <2>2. CASE d # c
    <3>1. events'[d] = events[d] /\ pending'[d] = pending[d] /\ (d \in sinks => d \in sinks')
      BY <1>7, <1>11, <2>2
    <3> HIDE DEF ev, p
    <3> QED BY <1>2, <2>2, <3>1
  <2> QED BY <2>1, <2>2
<1> QED BY <1>8, <1>11, <1>12 DEF c

-----------------------------------------------------------------------------
(* What the steps do *)

\* Clients and their environment leave the actor alone, and the actor them
LEMMA Outside == Environment \/ AnyClientStep => UNCHANGED actorVars
<1>1. ASSUME NEW c \in Client, Attach(c) PROVE UNCHANGED actorVars
  BY <1>1 DEF Attach
<1>2. ASSUME NEW c \in Client, SendWake(c) PROVE UNCHANGED actorVars
  BY <1>2 DEF SendWake
<1>3. ASSUME NEW c \in Client, StopListening(c) PROVE UNCHANGED actorVars
  BY <1>3 DEF StopListening
<1>4. Inspect \/ ReleaseHandle \/ SendShutdown => UNCHANGED actorVars
  BY DEF Inspect, ReleaseHandle, SendShutdown
<1>5. ASSUME NEW p \in Path, NEW m \in Foreign, ForeignSave(p, m) PROVE UNCHANGED actorVars
  BY <1>5 DEF ForeignSave
<1>6. ASSUME NEW c \in Client, DropClient(c) PROVE UNCHANGED actorVars
  BY <1>6 DEF DropClient
<1>7. ASSUME NEW c \in Client, Receive(c) PROVE UNCHANGED actorVars
  BY <1>7 DEF Receive
<1>8. ASSUME NEW c \in Client, NEW request, Submit(c, request) PROVE UNCHANGED actorVars
  BY <1>8 DEF Submit
<1>9. Environment => UNCHANGED actorVars
  BY <1>1, <1>2, <1>3, <1>4, <1>5 DEF Environment
<1>10. AnyClientStep => UNCHANGED actorVars
  BY <1>6, <1>7, <1>8 DEF AnyClientStep
<1> QED BY <1>9, <1>10

\* The actor's own steps touch neither a client's calls nor its listening
LEMMA Inside == ActorStep => UNCHANGED <<clientVars, listening>>
<1>1. Top \/ DrainEmpty \/ ReapDone \/ Reply => UNCHANGED <<clientVars, listening>>
  BY DEF Top, DrainEmpty, ReapDone, Reply, channelVars
<1>2. IngestStep => UNCHANGED <<clientVars, listening>>
  BY DEF IngestStep, IngestAttach, IngestLoad, IngestSave, IngestInspect, IngestWake,
         IngestShutdown, Ingest
<1>3. ASSUME NEW c \in Client, Reap(c) PROVE UNCHANGED <<clientVars, listening>>
  BY <1>3 DEF Reap, channelVars
<1>4. Select \/ Wait => UNCHANGED <<clientVars, listening>>
  BY DEF Select, Wait
<1>5. StoreStep => UNCHANGED <<clientVars, listening>>
  BY DEF StoreStep, LoadSucceeded, LoadFailed, SaveStale, SaveWritten, SaveFailed, DetachLane,
         Finish, channelVars
<1> QED BY <1>1, <1>2, <1>3, <1>4, <1>5 DEF ActorStep

\* m is the call n, whatever revision it expects
SameCall(m, n) ==
  /\ m.op = n.op /\ m.client = n.client /\ m.serial = n.serial
  /\ m.gen = n.gen /\ m.path = n.path
  /\ n.op = "save" => m.snap = n.snap

\* ops are the operations old with the call m, which may have replaced the last one
Extends(ops, old, m) ==
  /\ ops # <<>> /\ Len(ops) \in {Len(old), Len(old) + 1}
  /\ \A i \in 1..(Len(ops) - 1) : ops[i] = old[i]
  /\ SameCall(ops[Len(ops)], m)
  /\ Len(ops) = Len(old) => old[Len(old)].op = "save"

\* A sequence of operations with one more at its end
LEMMA Appended ==
  ASSUME NEW s \in Seq(Operation), NEW m \in Operation
  PROVE  /\ Append(s, m) \in Seq(Operation) /\ Append(s, m) # <<>> /\ Len(s) \in Nat
         /\ Len(Append(s, m)) = Len(s) + 1 /\ DOMAIN s = 1..Len(s)
         /\ DOMAIN Append(s, m) = 1..(Len(s) + 1)
         /\ \A i \in 1..Len(s) : Append(s, m)[i] = s[i]
         /\ Append(s, m)[Len(s) + 1] = m
OBVIOUS

\* A save goes behind the operations of its lane, or in the place of the last
LEMMA SaveExtends ==
  ASSUME NEW old \in Seq(Operation), NEW m \in SaveCommand
  PROVE  WithSave(old, m) \in Seq(Operation) /\ Extends(WithSave(old, m), old, m)
<1>1. m \in Operation
  BY DEF Operation
<1>2. CASE Coalesces(old, m)
  <2> DEFINE k == [m EXCEPT !.expected = Last(old).expected]
             f == SubSeq(old, 1, Len(old) - 1)
  <2>1. old # <<>> /\ Last(old) = old[Len(old)] /\ old[Len(old)].op = "save"
    BY <1>2 DEF Coalesces, Last
  <2>2. Len(old) \in Nat \ {0} /\ DOMAIN old = 1..Len(old) /\ Last(old) \in Operation
    BY <2>1
  <2>3. Last(old).expected \in Nat
    BY <2>1, <2>2, OperationFields
  <2>4. /\ k \in SaveCommand
        /\ SameCall(k, m)
    BY <2>3 DEF SaveCommand, SameCall
  <2>5. WithSave(old, m) = Append(f, k)
    BY <1>2 DEF WithSave, Front
  <2> HIDE DEF k
  <2>6. \A i \in 1..(Len(old) - 1) : old[i] \in Operation
    BY <2>2
  <2>7. /\ f \in Seq(Operation) /\ Len(f) = Len(old) - 1
        /\ \A i \in 1..(Len(old) - 1) : f[i] = old[i]
    BY <2>2, <2>6, SubSeqProperties
  <2> HIDE DEF f
  <2>8. k \in Operation
    BY <2>4 DEF Operation
  <2>9. /\ Append(f, k) \in Seq(Operation) /\ Append(f, k) # <<>>
        /\ Len(Append(f, k)) = Len(old)
        /\ \A i \in 1..(Len(old) - 1) : Append(f, k)[i] = old[i]
        /\ Append(f, k)[Len(old)] = k
    <3>1. Len(f) + 1 = Len(old)
      BY <2>2, <2>7
    <3>2. /\ Append(f, k) \in Seq(Operation) /\ Append(f, k) # <<>>
          /\ Len(Append(f, k)) = Len(old)
          /\ \A i \in 1..Len(f) : Append(f, k)[i] = f[i]
          /\ Append(f, k)[Len(old)] = k
      BY <2>7, <2>8, <3>1, Appended
    <3> QED BY <2>7, <3>2
  <2> QED BY <2>1, <2>2, <2>4, <2>5, <2>9 DEF Extends, SameCall
<1>3. CASE ~Coalesces(old, m)
  <2>1. WithSave(old, m) = Append(old, m)
    BY <1>3 DEF WithSave
  <2> QED BY <1>1, <2>1, Appended DEF Extends, SameCall
<1> QED BY <1>2, <1>3

\* A load or save is taken from the mailbox into its lane
LEMMA Calling ==
  ASSUME TypeInv, IngestLoad \/ IngestSave
  PROVE  LET m == Head(mailbox)
             c == m.client
         IN /\ pc = "drain" /\ mailbox # <<>> /\ mailbox' = Tail(mailbox)
            /\ m.op \in {"load", "save"} /\ IsCall(m, c) /\ c \in Client /\ m \in Operation
            /\ UNCHANGED <<clientVars, events, listening, store, pc, reaping, lastServed,
                           job, handled, sinks, pending, documents, inspections, shuttingDown>>
            /\ Open(c) => \E ops \in Seq(Operation) :
                            /\ Extends(ops, lane[c].ops, m)
                            /\ Schedule({c}, [lane EXCEPT ![c].ops = ops])
            /\ ~Open(c) => UNCHANGED <<lane, ready, readySet>>
<1> DEFINE m == Head(mailbox)
           c == m.client
<1>1. /\ pc = "drain" /\ mailbox # <<>> /\ mailbox' = Tail(mailbox)
      /\ UNCHANGED <<clientVars, events, listening, store, pc, reaping, lastServed,
                     job, handled, sinks, pending, documents, inspections, shuttingDown>>
      /\ m.op \in {"load", "save"}
  BY DEF IngestLoad, IngestSave, Ingest
<1>2. m \in Message
  BY <1>1, Taking DEF TypeInv
<1>3. c \in Client /\ m \in Operation /\ IsCall(m, c)
  BY <1>1, <1>2, MessageFields DEF IsCall
<1>4. lane[c].ops \in Seq(Operation) /\ lane \in [Client -> Lane]
  BY <1>3, LaneFields DEF TypeInv
<1>5. CASE IngestLoad
  <2>1. Open(c) => Schedule({c}, [lane EXCEPT ![c].ops = Append(@, m)])
    BY <1>5 DEF IngestLoad
  <2>2. [lane EXCEPT ![c].ops = Append(@, m)] = [lane EXCEPT ![c].ops = Append(lane[c].ops, m)]
    BY <1>4
  <2>3. Append(lane[c].ops, m) \in Seq(Operation) /\ Extends(Append(lane[c].ops, m), lane[c].ops, m)
    BY <1>3, <1>4, Appended DEF Extends, SameCall
  <2>4. ~Open(c) => UNCHANGED <<lane, ready, readySet>>
    BY <1>5 DEF IngestLoad
  <2> QED BY <1>1, <1>3, <2>1, <2>2, <2>3, <2>4
<1>6. CASE IngestSave
  <2>1. Open(c) => Schedule({c}, [lane EXCEPT ![c].ops = WithSave(@, m)])
    BY <1>6 DEF IngestSave
  <2>2. [lane EXCEPT ![c].ops = WithSave(@, m)] = [lane EXCEPT ![c].ops = WithSave(lane[c].ops, m)]
    BY <1>4
  <2>3. m \in SaveCommand
    BY <1>2, <1>6, MessageFields DEF IngestSave, Ingest
  <2>4. /\ WithSave(lane[c].ops, m) \in Seq(Operation)
        /\ Extends(WithSave(lane[c].ops, m), lane[c].ops, m)
    BY <1>4, <2>3, SaveExtends
  <2>5. ~Open(c) => UNCHANGED <<lane, ready, readySet>>
    BY <1>6 DEF IngestSave
  <2> QED BY <1>1, <1>3, <2>1, <2>2, <2>4, <2>5
<1> QED BY <1>5, <1>6

\* The operations of one lane are replaced
LEMMA NewOps ==
  ASSUME lane \in [Client -> Lane], NEW c \in Client, NEW ops \in Seq(Operation)
  PROVE  LET L == [lane EXCEPT ![c].ops = ops]
         IN /\ L \in [Client -> Lane]
            /\ L[c].ops = ops /\ L[c].closing = lane[c].closing
            /\ L[c].scheduled = lane[c].scheduled
            /\ \A d \in Client \ {c} : L[d] = lane[d]
<1>1. lane[c] \in Lane
  OBVIOUS
<1>2. [lane[c] EXCEPT !.ops = ops] \in Lane
  BY <1>1 DEF Lane
<1>3. [lane EXCEPT ![c].ops = ops] = [lane EXCEPT ![c] = [lane[c] EXCEPT !.ops = ops]]
  OBVIOUS
<1> QED BY <1>1, <1>2, <1>3 DEF Lane

\* Lanes that start to close
LEMMA Closing ==
  ASSUME lane \in [Client -> Lane], NEW S \in SUBSET Client
  PROVE  /\ Closed(S) \in [Client -> Lane]
         /\ \A c \in Client : Closed(S)[c].scheduled = lane[c].scheduled
         /\ \A c \in S : /\ Closed(S)[c].ops = Append(lane[c].ops, Detach)
                         /\ Closed(S)[c].closing = TRUE
         /\ \A c \in Client \ S : Closed(S)[c] = lane[c]
<1>1. ASSUME NEW c \in S
      PROVE  LET k == [lane[c] EXCEPT !.closing = TRUE, !.ops = Append(@, Detach)]
             IN /\ k \in Lane /\ k.scheduled = lane[c].scheduled
                /\ k.ops = Append(lane[c].ops, Detach) /\ k.closing = TRUE
  <2>1. lane[c] \in Lane /\ lane[c].ops \in Seq(Operation)
    BY LaneFields
  <2>2. Append(lane[c].ops, Detach) \in Seq(Operation)
    BY <2>1, Appended, DetachIn
  <2> QED BY <2>1, <2>2 DEF Lane
<1>2. \A c \in Client : Closed(S)[c] = IF c \in S
         THEN [lane[c] EXCEPT !.closing = TRUE, !.ops = Append(@, Detach)] ELSE lane[c]
  BY DEF Closed
<1>3. Closed(S) = [c \in Client |-> Closed(S)[c]]
  BY DEF Closed
<1>4. \A c \in Client : Closed(S)[c] \in Lane
  BY <1>1, <1>2
<1>5. Closed(S) \in [Client -> Lane]
  BY <1>3, <1>4
<1> QED BY <1>1, <1>2, <1>5

\* select: a ready lane whose answers have room gives its first operation to work
LEMMA Selecting ==
  ASSUME TypeInv, LaneInv, Select
  PROVE  \E c \in documents :
           /\ pc = "select" /\ pc' = "store" /\ c \in Client
           /\ lane[c].scheduled /\ lane[c].ops # <<>> /\ Eligible(c)
           /\ ready' \in Seq(Client) /\ Distinct(ready') /\ ToSet(ready') = readySet'
           /\ readySet' = readySet \ {c}
           /\ lane' \in [Client -> Lane]
           /\ lane'[c].ops = Tail(lane[c].ops) /\ lane'[c].scheduled = FALSE
           /\ lane'[c].closing = lane[c].closing
           /\ \A d \in Client \ {c} : lane'[d] = lane[d]
           /\ job' = [client |-> c, op |-> lane[c].ops[1]] /\ job' \in Job
           /\ job'.client = c /\ job'.op = lane[c].ops[1] /\ FlushAll
           /\ UNCHANGED <<clientVars, mailbox, listening, store, documents, reaping,
                          inspections, shuttingDown, handled>>
<1>1. PICK n \in DOMAIN Rotation :
        LET c == Rotation[n] IN
        /\ Eligible(c)
        /\ ready' = SubSeq(Rotation, n + 1, Len(Rotation)) \o SubSeq(Rotation, 1, n - 1)
        /\ readySet' = readySet \ {c}
        /\ lane' = [lane EXCEPT ![c].scheduled = FALSE, ![c].ops = Tail(@)]
        /\ job' = [client |-> c, op |-> Head(lane[c].ops)]
  BY DEF Select
<1> DEFINE c == Rotation[n]
<1>2. /\ pc = "select" /\ pc' = "store" /\ FlushAll
      /\ UNCHANGED <<clientVars, mailbox, listening, store, documents, reaping,
                     inspections, shuttingDown, handled>>
  BY DEF Select
<1>3. ready \in Seq(Client) /\ Distinct(ready) /\ ToSet(ready) = readySet
  BY DEF TypeInv, LaneInv, ReadyAgrees, Distinct
<1>4. Rotation \in Seq(Client) /\ Distinct(Rotation) /\ ToSet(Rotation) = readySet
  BY <1>3, Rotating
<1>5. c \in readySet
  BY <1>4 DEF ToSet
<1>6. ready' \in Seq(Client) /\ Distinct(ready') /\ ToSet(ready') = readySet \ {c}
  BY <1>1, <1>4, TakenOut
<1>7. job = NoJob
  BY <1>2 DEF TypeInv
<1>8. c \in documents /\ lane[c].scheduled /\ lane[c].ops # <<>> /\ c \in Client
  BY <1>5, <1>7 DEF LaneInv, ReadyAgrees, TypeInv
<1>9. lane[c] \in Lane /\ lane[c].ops \in Seq(Operation) /\ lane \in [Client -> Lane]
  BY <1>8, LaneFields DEF TypeInv
<1> HIDE DEF c
<1>10. Tail(lane[c].ops) \in Seq(Operation) /\ lane[c].ops[1] \in Operation
       /\ Head(lane[c].ops) = lane[c].ops[1]
  BY <1>8, <1>9
<1> DEFINE k == [lane[c] EXCEPT !.scheduled = FALSE, !.ops = Tail(@)]
<1>11. /\ k \in Lane /\ k.ops = Tail(lane[c].ops) /\ k.scheduled = FALSE
       /\ k.closing = lane[c].closing
  BY <1>9, <1>10 DEF Lane
<1>12. lane' = [lane EXCEPT ![c] = k]
  BY <1>1, <1>8, <1>9 DEF c
<1> HIDE DEF k
<1>13. /\ lane' \in [Client -> Lane] /\ lane'[c] = k
       /\ \A d \in Client \ {c} : lane'[d] = lane[d]
  BY <1>8, <1>9, <1>11, <1>12
<1>14. /\ job' = [client |-> c, op |-> lane[c].ops[1]] /\ job' \in Job
       /\ job'.client = c /\ job'.op = lane[c].ops[1]
  BY <1>1, <1>8, <1>10 DEF c, Job
<1>15. Eligible(c) /\ readySet' = readySet \ {c}
  BY <1>1 DEF c
<1> QED BY <1>2, <1>6, <1>8, <1>11, <1>13, <1>14, <1>15

\* The outcomes of the operation the actor is executing
Execute == LoadSucceeded \/ LoadFailed \/ SaveStale \/ SaveWritten \/ SaveFailed

\* process_one of a load or save: an answer with its serial is sent, and the lane is
\* ready again if it has more to do
LEMMA Executing ==
  ASSUME TypeInv, Execute
  PROVE  LET c == job.client
             again == lane[c].ops # <<>>
         IN /\ pc = "store" /\ pc' = "top" /\ job \in Job /\ job' = NoJob /\ c \in Client
            /\ job.op.op # "detach" /\ job.op.serial \in 1..MaxCalls
            /\ ready' = (IF again THEN Append(ready, c) ELSE ready)
            /\ readySet' = (IF again THEN readySet \cup {c} ELSE readySet)
            /\ lane' \in [Client -> Lane]
            /\ lane'[c].ops = lane[c].ops /\ lane'[c].closing = lane[c].closing
            /\ lane'[c].scheduled = again
            /\ \A d \in Client \ {c} : lane'[d] = lane[d]
            /\ handled' = [handled EXCEPT ![c] = job.op.serial]
            /\ \E e \in EventRecord : e.serial = job.op.serial /\ SendEvent(e)
            /\ store' \in [Path -> Snapshot]
            /\ UNCHANGED <<clientVars, mailbox, listening, documents, reaping, inspections,
                           shuttingDown>>
<1> DEFINE c == job.client
           Result(l, e) ==
             /\ l \in Lane /\ l.ops = lane[c].ops /\ l.closing = lane[c].closing
             /\ e \in EventRecord /\ e.serial = job.op.serial /\ SendEvent(e)
             /\ Finish(job.op.op, l)
<1>1. pc = "store"
  BY DEF Execute, LoadSucceeded, LoadFailed, SaveStale, SaveWritten, SaveFailed, Finish
<1>2. job \in Job /\ c \in Client /\ job.op \in Operation
  BY <1>1 DEF TypeInv, Job
<1>3. job.op.op \in {"load", "save"}
  BY DEF Execute, LoadSucceeded, LoadFailed, SaveStale, SaveWritten, SaveFailed
<1>4. /\ job.op.serial \in 1..MaxCalls /\ job.op.gen \in Nat /\ job.op.path \in Path
      /\ job.op.op = "save" => job.op.snap \in Snapshot
  BY <1>2, <1>3, OperationFields
<1>5. lane[c] \in Lane /\ JobLane = lane[c] /\ lane \in [Client -> Lane]
      /\ lane[c].observed \in Nat \cup {NoRevision}
  BY <1>2, LaneFields DEF TypeInv, JobLane
<1>6. /\ store[job.op.path] \in Snapshot /\ store \in [Path -> Snapshot] /\ Empty \in Snapshot
      /\ \A s \in Snapshot : s.revision \in Nat
  BY <1>4 DEF TypeInv, Snapshot, Empty
<1> HIDE DEF c
<1>7. ASSUME NEW o \in Nat \cup {NoRevision}
      PROVE  /\ Activated(o) \in Lane /\ Activated(o).ops = lane[c].ops
             /\ Activated(o).closing = lane[c].closing
  BY <1>4, <1>5, <1>7 DEF Activated, Lane
<1>8. ASSUME NEW kind \in {"loaded", "loadfailed", "saved", "savefailed"}, NEW snap \in Snapshot
      PROVE  Event(kind, snap) \in EventRecord /\ Event(kind, snap).serial = job.op.serial
  BY <1>4 DEF Event, EventRecord
<1>9. /\ store' \in [Path -> Snapshot]
      /\ \E l, e : Result(l, e)
  <2>1. CASE LoadSucceeded
    <3>1. Result(Activated(store[job.op.path].revision), Event("loaded", store[job.op.path]))
      BY <1>6, <1>7, <1>8, <2>1 DEF LoadSucceeded
    <3> QED BY <1>6, <2>1, <3>1 DEF LoadSucceeded
  <2>2. CASE LoadFailed
    <3>1. Result(Activated(NoRevision), Event("loadfailed", Empty))
      BY <1>6, <1>7, <1>8, <2>2 DEF LoadFailed
    <3> QED BY <1>6, <2>2, <3>1 DEF LoadFailed
  <2>3. CASE SaveStale
    <3>1. Result(lane[c], Event("savefailed", job.op.snap))
      BY <1>4, <1>5, <1>8, <2>3 DEF SaveStale
    <3> QED BY <1>6, <2>3, <3>1 DEF SaveStale
  <2>4. CASE SaveWritten
    <3>1. job.op.snap \in Snapshot /\ job.op.snap.revision \in Nat
      BY <1>4, <1>6, <2>4 DEF SaveWritten
    <3>2. Result(Activated(job.op.snap.revision), Event("saved", job.op.snap))
      BY <1>7, <1>8, <2>4, <3>1 DEF SaveWritten
    <3>3. store' = [store EXCEPT ![job.op.path] = job.op.snap]
      BY <2>4 DEF SaveWritten
    <3> QED BY <1>6, <3>1, <3>2, <3>3
  <2>5. CASE SaveFailed
    <3>1. Result(Activated(lane[c].observed), Event("savefailed", job.op.snap))
      BY <1>4, <1>5, <1>7, <1>8, <2>5 DEF SaveFailed
    <3> QED BY <1>6, <2>5, <3>1 DEF SaveFailed
  <2> QED BY <2>1, <2>2, <2>3, <2>4, <2>5 DEF Execute
<1>10. PICK l, e : Result(l, e)
  BY <1>9
<1> DEFINE again == lane[c].ops # <<>>
           k == [l EXCEPT !.scheduled = again]
<1>11. /\ ready' = (IF again THEN Append(ready, c) ELSE ready)
       /\ readySet' = (IF again THEN readySet \cup {c} ELSE readySet)
       /\ lane' = [lane EXCEPT ![c] = k]
       /\ handled' = [handled EXCEPT ![c] = job.op.serial]
       /\ job' = NoJob /\ pc' = "top"
       /\ UNCHANGED <<clientVars, mailbox, listening, documents, reaping, inspections,
                      shuttingDown>>
  BY <1>10 DEF Finish, c
<1>12. k \in Lane /\ k.ops = lane[c].ops /\ k.closing = lane[c].closing /\ k.scheduled = again
  BY <1>10 DEF Lane
<1> HIDE DEF k
<1>13. /\ lane' \in [Client -> Lane] /\ lane'[c] = k
       /\ \A d \in Client \ {c} : lane'[d] = lane[d]
  BY <1>2, <1>5, <1>11, <1>12
<1>14. e \in EventRecord /\ e.serial = job.op.serial /\ SendEvent(e)
  BY <1>10
<1> QED BY <1>1, <1>2, <1>3, <1>4, <1>9, <1>11, <1>12, <1>13, <1>14 DEF c

-----------------------------------------------------------------------------
(* The types are kept *)

\* The service starts well typed
LEMMA TypeInit == Init => TypeInv
<1> SUFFICES ASSUME Init PROVE TypeInv
  OBVIOUS
<1>1. Empty \in Snapshot
  BY DEF Empty, Snapshot
<1>2. \A S : <<>> \in Seq(S) /\ Len(<<>>) = 0
  BY EmptySeq
<1>3. MaxCalls \in Nat /\ EventCapacity \in Nat
  BY CallAssumption, CapacityAssumption
<1>4. /\ lane \in [Client -> Lane] /\ store \in [Path -> Snapshot]
      /\ events \in [Client -> Seq(EventRecord)] /\ pending \in [Client -> Seq(EventRecord)]
      /\ \A c \in Client : Len(events[c]) <= EventCapacity
      /\ mailbox \in Seq(Message) /\ ready \in Seq(Client)
  BY <1>1, <1>2, <1>3, NewLaneIn DEF Init
<1>5. /\ serial \in [Client -> 0..MaxCalls] /\ answered \in [Client -> 0..MaxCalls]
      /\ handled \in [Client -> 0..MaxCalls]
  BY <1>3 DEF Init
<1> QED BY <1>4, <1>5 DEF Init, TypeInv

\* schedule_document leaves the lanes and the ready queue well typed
LEMMA ScheduleTypes ==
  ASSUME TypeInv, NEW S \in SUBSET Client, NEW L \in [Client -> Lane], Schedule(S, L)
  PROVE  lane' \in [Client -> Lane] /\ ready' \in Seq(Client) /\ readySet' \in SUBSET Client
<1>1. ready \in Seq(Client) /\ readySet \in SUBSET Client
  BY DEF TypeInv
<1>2. Unscheduled(S, L) \in SUBSET Client
  BY DEF Unscheduled
<1> QED BY <1>1, <1>2, Scheduling

\* The messages that clients post
LEMMA Posts ==
  /\ \A c \in Client : [op |-> "attach", client |-> c] \in Message
  /\ \A S \in SUBSET Client : [op |-> "inspect", gone |-> S] \in Message
  /\ [op |-> "wake"] \in Message /\ [op |-> "shutdown"] \in Message
BY DEF Message, Attachment, Inspection

\* A submitted call is a message with the next serial of its client
LEMMA SubmitPosts ==
  ASSUME TypeInv, NEW c \in Client, NEW request \in Request, serial[c] < MaxCalls
  PROVE  LET m == Numbered(c, request)
         IN /\ m \in Message /\ m.op \in {"load", "save"} /\ m.client = c
            /\ m.serial = serial[c] + 1
<1>1. serial[c] + 1 \in 1..MaxCalls
  BY CallAssumption DEF TypeInv
<1>2. CASE request \in LoadRequest
  <2>1. Numbered(c, request) = [op |-> "load", client |-> c, serial |-> serial[c] + 1,
                                gen |-> request.gen, path |-> request.path]
    BY <1>2 DEF Numbered, LoadRequest
  <2>2. Numbered(c, request) \in LoadCommand
    BY <1>1, <1>2, <2>1 DEF LoadCommand, LoadRequest
  <2> QED BY <2>1, <2>2 DEF Message
<1>3. CASE request \in SaveRequest
  <2>1. Numbered(c, request) = [op |-> "save", client |-> c, serial |-> serial[c] + 1,
                                gen |-> request.gen, path |-> request.path,
                                expected |-> request.expected, snap |-> request.snap]
    BY <1>3 DEF Numbered, SaveRequest
  <2>2. Numbered(c, request) \in SaveCommand
    BY <1>1, <1>3, <2>1 DEF SaveCommand, SaveRequest
  <2> QED BY <2>1, <2>2 DEF Message
<1> QED BY <1>2, <1>3 DEF Request

\* A call, an attachment, a drop or a file changed outside keeps the types
LEMMA TypeOutside == TypeInv /\ (Environment \/ AnyClientStep) => TypeInv'
<1> SUFFICES ASSUME TypeInv, Environment \/ AnyClientStep PROVE TypeInv'
  OBVIOUS
<1> DEFINE Rest == /\ client' \in [Client -> {"unattached", "live", "dropping", "dropped"}]
                   /\ serial' \in [Client -> 0..MaxCalls]
                   /\ answered' \in [Client -> 0..MaxCalls]
                   /\ handle' \in {"held", "released", "shutdown"}
                   /\ mailbox' \in Seq(Message)
                   /\ events' \in [Client -> Seq(EventRecord)]
                   /\ \A c \in Client : Len(events'[c]) <= EventCapacity
                   /\ listening' \in [Client -> BOOLEAN]
                   /\ store' \in [Path -> Snapshot]
<1>1. UNCHANGED actorVars
  BY Outside
<1>2. ASSUME NEW c \in Client, Attach(c) PROVE Rest
  BY <1>2, Posts, Posting DEF Attach, Post, TypeInv
<1>3. ASSUME NEW c \in Client, SendWake(c) PROVE Rest
  BY <1>3, Posts, Posting DEF SendWake, TypeInv
<1>4. ASSUME NEW c \in Client, StopListening(c) PROVE Rest
  <2>1. <<>> \in Seq(EventRecord) /\ Len(<<>>) = 0 /\ EventCapacity \in Nat
    BY EmptySeq, CapacityAssumption
  <2> QED BY <1>4, <2>1 DEF StopListening, TypeInv, clientVars
<1>5. ASSUME Inspect PROVE Rest
  BY <1>5, Posts, Posting DEF Inspect, Post, TypeInv
<1>6. ASSUME ReleaseHandle PROVE Rest
  BY <1>6 DEF ReleaseHandle, TypeInv, channelVars
<1>7. ASSUME SendShutdown PROVE Rest
  BY <1>7, Posts, Posting DEF SendShutdown, Post, TypeInv
<1>8. ASSUME NEW p \in Path, NEW m \in Foreign, ForeignSave(p, m) PROVE Rest
  <2>1. store[p] \in Snapshot /\ m \in Mark
    BY MarkAssumption DEF TypeInv
  <2>2. [revision |-> store[p].revision + 1, marks |-> store[p].marks \cup {m}] \in Snapshot
    BY <2>1 DEF Snapshot
  <2>3. store' = [store EXCEPT ![p] = [revision |-> store[p].revision + 1,
                                       marks |-> store[p].marks \cup {m}]]
    BY <1>8 DEF ForeignSave
  <2> QED BY <1>8, <2>2, <2>3 DEF ForeignSave, TypeInv, clientVars, channelVars
<1>9. ASSUME NEW c \in Client, DropClient(c) PROVE Rest
  BY <1>9 DEF DropClient, TypeInv, channelVars
<1>10. ASSUME NEW c \in Client, Receive(c) PROVE Rest
  <2>1. events[c] \in Seq(EventRecord) /\ events[c] # <<>> /\ Len(events[c]) <= EventCapacity
    BY <1>10 DEF Receive, TypeInv
  <2>2. /\ Tail(events[c]) \in Seq(EventRecord) /\ Len(Tail(events[c])) <= EventCapacity
        /\ Head(events[c]) \in EventRecord
    BY <2>1, CapacityAssumption
  <2>3. Head(events[c]).serial \in 0..MaxCalls
    BY <2>2, CallAssumption DEF EventRecord
  <2> QED BY <1>10, <2>2, <2>3 DEF Receive, TypeInv
<1>11. ASSUME NEW c \in Client, NEW request \in Request, Submit(c, request) PROVE Rest
  <2>1. Numbered(c, request) \in Message /\ mailbox' = Append(mailbox, Numbered(c, request))
    BY <1>11, SubmitPosts DEF Submit, Post
  <2>2. mailbox' \in Seq(Message)
    BY <2>1, Posting DEF TypeInv
  <2>3. serial' \in [Client -> 0..MaxCalls]
    BY <1>11, CallAssumption DEF Submit, TypeInv
  <2> QED BY <1>11, <2>2, <2>3 DEF Submit, TypeInv
<1>12. Rest
  <2> HIDE DEF Rest
  <2> QED BY <1>2, <1>3, <1>4, <1>5, <1>6, <1>7, <1>8, <1>9, <1>10, <1>11
          DEF Environment, AnyClientStep
<1> QED BY <1>1, <1>12 DEF TypeInv, actorVars, laneVars

\* The types of the actor's variables
ActorTypes ==
  /\ mailbox' \in Seq(Message)
  /\ events' \in [Client -> Seq(EventRecord)]
  /\ \A c \in Client : Len(events'[c]) <= EventCapacity
  /\ store' \in [Path -> Snapshot]
  /\ pc' \in {"top", "drain", "reap", "select", "store", "reply", "stopped"}
  /\ sinks' \in SUBSET Client
  /\ pending' \in [Client -> Seq(EventRecord)]
  /\ documents' \in SUBSET Client
  /\ lane' \in [Client -> Lane]
  /\ ready' \in Seq(Client)
  /\ readySet' \in SUBSET Client
  /\ reaping' \in SUBSET Client
  /\ inspections' \in SUBSET Inspection
  /\ shuttingDown' \in BOOLEAN
  /\ handled' \in [Client -> 0..MaxCalls]
  /\ IF pc' = "store" THEN job' \in Job ELSE job' = NoJob
  /\ pc' # "reap" => reaping' = {}

\* A step of the actor's loop keeps the types
LEMMA TypeActor == TypeInv /\ LaneInv /\ ActorStep => TypeInv'
<1> SUFFICES ASSUME TypeInv, LaneInv, ActorStep PROVE TypeInv'
  OBVIOUS
<1>1. UNCHANGED <<clientVars, listening>>
  BY Inside
<1>2. Top \/ DrainEmpty \/ ReapDone \/ Reply => ActorTypes
  BY DEF Top, DrainEmpty, ReapDone, Reply, ActorTypes, TypeInv, channelVars, laneVars
<1>3. ASSUME IngestAttach PROVE ActorTypes
  <2>1. mailbox # <<>> /\ mailbox' = Tail(mailbox) /\ Head(mailbox).op = "attach"
    BY <1>3 DEF IngestAttach, Ingest
  <2>2. Head(mailbox).client \in Client /\ mailbox' \in Seq(Message)
    BY <2>1, Taking, MessageFields DEF TypeInv
  <2> QED BY <1>3, <2>2, NewLaneIn DEF IngestAttach, Ingest, ActorTypes, TypeInv
<1>4. ASSUME IngestLoad \/ IngestSave PROVE ActorTypes
  <2> DEFINE m == Head(mailbox)
             c == m.client
  <2>1. /\ pc = "drain" /\ mailbox # <<>> /\ mailbox' = Tail(mailbox) /\ c \in Client
        /\ UNCHANGED <<events, store, pc, reaping, job, handled, sinks, pending, documents,
                       inspections, shuttingDown>>
        /\ Open(c) => \E ops \in Seq(Operation) : Schedule({c}, [lane EXCEPT ![c].ops = ops])
        /\ ~Open(c) => UNCHANGED <<lane, ready, readySet>>
    BY <1>4, Calling
  <2>2. mailbox' \in Seq(Message)
    BY <2>1, Taking DEF TypeInv
  <2>3. lane' \in [Client -> Lane] /\ ready' \in Seq(Client) /\ readySet' \in SUBSET Client
    <3>1. CASE Open(c)
      <4>1. PICK ops \in Seq(Operation) : Schedule({c}, [lane EXCEPT ![c].ops = ops])
        BY <2>1, <3>1
      <4> DEFINE L == [lane EXCEPT ![c].ops = ops]
      <4>2. L \in [Client -> Lane] /\ {c} \in SUBSET Client
        BY <2>1, NewOps DEF TypeInv
      <4>3. Schedule({c}, L)
        BY <4>1
      <4> HIDE DEF L, c
      <4> QED BY <4>2, <4>3, ScheduleTypes
    <3>2. CASE ~Open(c)
      BY <2>1, <3>2 DEF TypeInv
    <3> QED BY <3>1, <3>2
  <2> HIDE DEF c, m
  <2> QED BY <2>1, <2>2, <2>3 DEF ActorTypes, TypeInv
<1>5. ASSUME IngestInspect PROVE ActorTypes
  <2>1. mailbox # <<>> /\ mailbox' = Tail(mailbox) /\ Head(mailbox).op = "inspect"
    BY <1>5 DEF IngestInspect, Ingest
  <2>2. Head(mailbox) \in Inspection /\ mailbox' \in Seq(Message)
    BY <2>1, Taking, MessageFields DEF TypeInv
  <2> QED BY <1>5, <2>2 DEF IngestInspect, Ingest, ActorTypes, TypeInv, laneVars
<1>6. ASSUME IngestWake PROVE ActorTypes
  <2>1. mailbox' \in Seq(Message)
    BY <1>6, Taking DEF TypeInv, IngestWake, Ingest
  <2> QED BY <1>6, <2>1 DEF IngestWake, Ingest, ActorTypes, TypeInv, laneVars
<1>7. ASSUME IngestShutdown PROVE ActorTypes
  <2> DEFINE S == {c \in documents : ~lane[c].closing}
  <2>1. mailbox' \in Seq(Message)
    BY <1>7, Taking DEF TypeInv, IngestShutdown, Ingest
  <2>2. S \in SUBSET Client /\ Schedule(S, Closed(S))
    BY <1>7 DEF IngestShutdown, TypeInv
  <2> HIDE DEF S
  <2>3. Closed(S) \in [Client -> Lane]
    BY <2>2, Closing DEF TypeInv
  <2>4. lane' \in [Client -> Lane] /\ ready' \in Seq(Client) /\ readySet' \in SUBSET Client
    BY <2>2, <2>3, ScheduleTypes
  <2>5. pending' \in [Client -> Seq(EventRecord)]
    BY <1>7, EmptySeq DEF IngestShutdown
  <2> QED BY <1>7, <2>1, <2>4, <2>5 DEF IngestShutdown, Ingest, ActorTypes, TypeInv
<1>8. ASSUME NEW c \in Client, Reap(c) PROVE ActorTypes
  <2>1. lane' \in [Client -> Lane] /\ ready' \in Seq(Client) /\ readySet' \in SUBSET Client
    <3>1. CASE client[c] \in {"dropping", "dropped"} /\ ~lane[c].closing
      <4>1. Schedule({c}, Closed({c})) /\ {c} \in SUBSET Client
        BY <1>8, <3>1 DEF Reap
      <4>2. Closed({c}) \in [Client -> Lane]
        BY <4>1, Closing DEF TypeInv
      <4> QED BY <4>1, <4>2, ScheduleTypes
    <3>2. CASE ~(client[c] \in {"dropping", "dropped"} /\ ~lane[c].closing)
      BY <1>8, <3>2 DEF Reap, TypeInv
    <3> QED BY <3>1, <3>2
  <2>2. sinks' \in SUBSET Client /\ pending' \in [Client -> Seq(EventRecord)]
    <3>1. <<>> \in Seq(EventRecord)
      BY EmptySeq
    <3> QED BY <1>8, <3>1 DEF Reap, TypeInv
  <2> QED BY <1>8, <2>1, <2>2 DEF Reap, ActorTypes, TypeInv, channelVars
<1>9. ASSUME Select PROVE ActorTypes
  <2>1. PICK c \in documents :
           /\ pc = "select" /\ pc' = "store"
           /\ ready' \in Seq(Client) /\ readySet' = readySet \ {c}
           /\ lane' \in [Client -> Lane] /\ job' \in Job /\ FlushAll
           /\ UNCHANGED <<mailbox, store, documents, reaping, inspections, shuttingDown, handled>>
    BY <1>9, Selecting
  <2>2. /\ events' \in [Client -> Seq(EventRecord)] /\ pending' \in [Client -> Seq(EventRecord)]
        /\ \A d \in Client : Len(events'[d]) <= EventCapacity
        /\ sinks' = sinks \ Disconnected
    BY <2>1, Flushing
  <2> QED BY <2>1, <2>2 DEF ActorTypes, TypeInv
<1>10. ASSUME Wait PROVE ActorTypes
  <2>1. /\ events' \in [Client -> Seq(EventRecord)] /\ pending' \in [Client -> Seq(EventRecord)]
        /\ \A d \in Client : Len(events'[d]) <= EventCapacity
        /\ sinks' = sinks \ Disconnected
    BY <1>10, Flushing DEF Wait
  <2>2. ready' \in Seq(Client)
    <3>1. Distinct(ready)
      BY DEF LaneInv, ReadyAgrees, Distinct
    <3> QED BY <1>10, <3>1, Rotating DEF Wait, TypeInv
  <2> QED BY <1>10, <2>1, <2>2 DEF Wait, ActorTypes, TypeInv
<1>11. ASSUME Execute PROVE ActorTypes
  <2> DEFINE c == job.client
  <2>1. /\ pc = "store" /\ pc' = "top" /\ job \in Job /\ job' = NoJob /\ c \in Client
        /\ job.op.serial \in 1..MaxCalls
        /\ ready' \in {Append(ready, c), ready} /\ readySet' \in {readySet \cup {c}, readySet}
        /\ lane' \in [Client -> Lane]
        /\ handled' = [handled EXCEPT ![c] = job.op.serial]
        /\ \E e \in EventRecord : e.serial = job.op.serial /\ SendEvent(e)
        /\ store' \in [Path -> Snapshot]
        /\ UNCHANGED <<mailbox, documents, reaping, inspections, shuttingDown>>
    BY <1>11, Executing
  <2>2. PICK e \in EventRecord : SendEvent(e)
    BY <2>1
  <2>3. /\ events' \in [Client -> Seq(EventRecord)] /\ pending' \in [Client -> Seq(EventRecord)]
        /\ \A d \in Client : Len(events'[d]) <= EventCapacity
        /\ sinks' \subseteq sinks
    BY <2>1, <2>2, Sending
  <2> HIDE DEF c
  <2>4. ready' \in Seq(Client) /\ readySet' \in SUBSET Client
    <3>1. ready \in Seq(Client) /\ readySet \in SUBSET Client /\ c \in Client
      BY <2>1 DEF TypeInv
    <3>2. Append(ready, c) \in Seq(Client) /\ readySet \cup {c} \in SUBSET Client
      BY <3>1
    <3> QED BY <2>1, <3>1, <3>2
  <2>5. handled' \in [Client -> 0..MaxCalls]
    BY <2>1, CallAssumption DEF TypeInv
  <2> QED BY <2>1, <2>3, <2>4, <2>5 DEF ActorTypes, TypeInv
<1>12. ASSUME DetachLane PROVE ActorTypes
  BY <1>12, EmptySeq, NewLaneIn DEF DetachLane, ActorTypes, TypeInv, channelVars
<1>13. ActorTypes
  BY <1>2, <1>3, <1>4, <1>5, <1>6, <1>7, <1>8, <1>9, <1>10, <1>11, <1>12
     DEF ActorStep, IngestStep, StoreStep, Execute
<1> QED BY <1>1, <1>13 DEF TypeInv, ActorTypes, clientVars

\* Every step keeps the types
LEMMA TypeNext == TypeInv /\ LaneInv /\ [AnyNext]_vars => TypeInv'
<1>1. TypeInv /\ UNCHANGED vars => TypeInv'
  BY DEF TypeInv, vars, clientVars, channelVars, actorVars, laneVars
<1> QED BY <1>1, TypeOutside, TypeActor DEF AnyNext, Stopped

-----------------------------------------------------------------------------
(* Lanes and their turns are kept in agreement *)

\* A job is one of loading, saving or detaching
LEMMA JobFields ==
  ASSUME NEW j \in Job
  PROVE  /\ j # NoJob /\ j.client \in Client /\ j.op \in Operation
         /\ j.op.op \in {"load", "save", "detach"}
<1>1. j.client \in Client /\ j.op \in Operation
  BY DEF Job
<1>2. j.op.op \in {"load", "save", "detach"}
  BY <1>1, OperationFields
<1>3. NoJob.op.op = "none"
  BY DEF NoJob
<1> QED BY <1>1, <1>2, <1>3

\* ReadyAgrees with the lane at work in the place of the job
ReadyForm ==
  /\ Distinct(ready)
  /\ ToSet(ready) = readySet
  /\ readySet = {c \in documents : lane[c].scheduled}
  /\ \A c \in documents : ~AtWork(c) => (lane[c].ops # <<>> <=> lane[c].scheduled)
  /\ pc = "store" => job.client \in documents

\* While the actor executes an operation, its lane is the one that is not ready
LEMMA ReadySame == TypeInv => (ReadyAgrees <=> ReadyForm)
<1> SUFFICES ASSUME TypeInv PROVE ReadyAgrees <=> ReadyForm
  OBVIOUS
<1>1. pc = "store" => job # NoJob
  BY JobFields DEF TypeInv
<1>2. pc # "store" => job = NoJob
  BY DEF TypeInv
<1>3. \A c \in documents : (job = NoJob \/ job.client # c) <=> ~AtWork(c)
  BY <1>1, <1>2 DEF AtWork
<1> QED BY <1>3 DEF ReadyAgrees, ReadyForm, Distinct

\* Lanes are scheduled because they have something to do
LEMMA ScheduleKeeps ==
  ASSUME TypeInv, LaneInv, pc # "store", pc' # "store", UNCHANGED documents,
         NEW S \in SUBSET documents, NEW L \in [Client -> Lane], Schedule(S, L),
         \A c \in S : L[c].ops # <<>> /\ L[c].scheduled = lane[c].scheduled,
         \A c \in Client \ S : L[c] = lane[c]
  PROVE  /\ ReadyForm'
         /\ \A c \in Client \ documents' : lane'[c] = NewLane
<1>1. /\ ready \in Seq(Client) /\ readySet \in SUBSET Client /\ documents \in SUBSET Client
      /\ S \in SUBSET Client
  BY DEF TypeInv
<1>2. /\ Distinct(ready) /\ ToSet(ready) = readySet
      /\ readySet = {c \in documents : lane[c].scheduled}
      /\ \A c \in documents : lane[c].ops # <<>> <=> lane[c].scheduled
  BY ReadySame DEF LaneInv, ReadyForm, AtWork
<1> DEFINE T == Unscheduled(S, L)
<1>3. /\ readySet' = readySet \cup T /\ ToSet(ready') = ToSet(ready) \cup T /\ Distinct(ready')
      /\ \A c \in Client :
              /\ lane'[c].ops = L[c].ops
              /\ lane'[c].scheduled = (L[c].scheduled \/ c \in T)
              /\ c \notin S => lane'[c] = L[c]
  BY <1>1, <1>2, Scheduling
<1>4. T = {c \in S : ~lane[c].scheduled}
  BY <1>2 DEF Unscheduled
<1> HIDE DEF T
<1>5. \A c \in documents : lane'[c].scheduled = (lane[c].scheduled \/ c \in T)
  BY <1>1, <1>3
<1>6. readySet' = {c \in documents' : lane'[c].scheduled}
  BY <1>2, <1>3, <1>4, <1>5
<1>7. \A c \in documents : lane'[c].ops # <<>> <=> lane'[c].scheduled
  <2> SUFFICES ASSUME NEW c \in documents PROVE lane'[c].ops # <<>> <=> lane'[c].scheduled
    OBVIOUS
  <2>1. CASE c \in S
    BY <1>1, <1>3, <1>4, <2>1
  <2>2. CASE c \notin S
    BY <1>1, <1>2, <1>3, <1>4, <2>2
  <2> QED BY <2>1, <2>2
<1>8. \A c \in Client \ documents' : lane'[c] = NewLane
  BY <1>3 DEF LaneInv
<1> QED BY <1>2, <1>3, <1>6, <1>7, <1>8 DEF ReadyForm, AtWork

\* A lane that keeps its operations, while nobody is at work
LEMMA LaneStays ==
  ASSUME NEW c \in Client, LaneClosing(c), pc # "store", pc' # "store",
         lane'[c].ops = lane[c].ops, lane'[c].closing = lane[c].closing,
         c \in sinks' => c \in sinks
  PROVE  LaneClosing(c)'
BY DEF LaneClosing, AtWork

\* A lane that begins to close ends with its Detach
LEMMA LaneCloses ==
  ASSUME TypeInv, NEW c \in Client, LaneClosing(c), pc # "store", pc' # "store",
         ~lane[c].closing, lane'[c].ops = Append(lane[c].ops, Detach), lane'[c].closing = TRUE,
         c \notin sinks'
  PROVE  LaneClosing(c)'
<1> DEFINE s == lane[c].ops
<1>1. s \in Seq(Operation)
  BY LaneFields DEF TypeInv
<1>2. /\ Append(s, Detach) # <<>> /\ Len(s) \in Nat
      /\ Len(Append(s, Detach)) = Len(s) + 1 /\ DOMAIN s = 1..Len(s)
      /\ DOMAIN Append(s, Detach) = 1..(Len(s) + 1)
      /\ \A i \in 1..Len(s) : Append(s, Detach)[i] = s[i]
      /\ Append(s, Detach)[Len(s) + 1] = Detach
  BY <1>1, Appended, DetachIn
<1>3. \A i \in 1..Len(s) : s[i].op # "detach" /\ s[i].client = c
  BY <1>2 DEF LaneClosing
<1> DEFINE t == lane'[c].ops
<1>4. /\ t # <<>> /\ Len(t) = Len(s) + 1 /\ DOMAIN t = 1..(Len(s) + 1)
      /\ \A i \in 1..Len(s) : t[i] = s[i]
      /\ t[Len(s) + 1] = Detach
  BY <1>2
<1> HIDE DEF s, t
<1>5. \A i \in DOMAIN t : i \in 1..Len(s) \/ i = Len(s) + 1
  BY <1>2, <1>4
<1>6. \A i \in DOMAIN t : IF t[i].op = "detach" THEN i = Len(t) ELSE t[i].client = c
  BY <1>3, <1>4, <1>5, DetachIn
<1>7. t[Len(t)].op = "detach"
  BY <1>4, DetachIn
<1> QED BY <1>4, <1>6, <1>7 DEF LaneClosing, AtWork, t

\* A lane that is not closing gets a call
LEMMA LaneExtends ==
  ASSUME TypeInv, NEW c \in Client, LaneClosing(c), pc # "store", pc' # "store",
         ~lane[c].closing, lane'[c].closing = FALSE,
         lane'[c].ops \in Seq(Operation), NEW m, Extends(lane'[c].ops, lane[c].ops, m), IsCall(m, c)
  PROVE  LaneClosing(c)'
<1> DEFINE s == lane[c].ops
           t == lane'[c].ops
<1>1. s \in Seq(Operation) /\ Len(s) \in Nat /\ DOMAIN s = 1..Len(s)
  BY LaneFields DEF TypeInv
<1>2. \A i \in 1..Len(s) : s[i].op # "detach" /\ s[i].client = c
  BY <1>1 DEF LaneClosing
<1>3. /\ t # <<>> /\ Len(t) \in {Len(s), Len(s) + 1}
      /\ \A i \in 1..(Len(t) - 1) : t[i] = s[i]
      /\ t[Len(t)].op = m.op /\ t[Len(t)].client = m.client
  BY DEF Extends, SameCall
<1>4. Len(t) \in Nat /\ DOMAIN t = 1..Len(t)
  OBVIOUS
<1> HIDE DEF s, t
<1>5. \A i \in DOMAIN t : i = Len(t) \/ (i \in 1..(Len(t) - 1) /\ i \in 1..Len(s))
  <2>1. CASE Len(t) = Len(s)
    BY <1>1, <1>4, <2>1
  <2>2. CASE Len(t) = Len(s) + 1
    BY <1>1, <1>4, <2>2
  <2> QED BY <1>3, <2>1, <2>2
<1>6. \A i \in DOMAIN t : t[i].op # "detach" /\ t[i].client = c
  BY <1>2, <1>3, <1>5 DEF IsCall
<1> QED BY <1>6 DEF LaneClosing, AtWork, t

\* A lane whose first operation is taken
LEMMA LaneWorks ==
  ASSUME TypeInv, NEW c \in Client, LaneClosing(c), pc # "store", pc' = "store",
         lane[c].ops # <<>>, lane'[c].ops = Tail(lane[c].ops), lane'[c].closing = lane[c].closing,
         job'.client = c, job'.op = lane[c].ops[1], c \in sinks' => c \in sinks
  PROVE  LaneClosing(c)'
<1> DEFINE s == lane[c].ops
           t == lane'[c].ops
<1>1. s \in Seq(Operation) /\ s # <<>>
  BY LaneFields DEF TypeInv
<1>2. /\ Len(s) \in Nat \ {0} /\ DOMAIN s = 1..Len(s)
      /\ t \in Seq(Operation) /\ Len(t) = Len(s) - 1 /\ DOMAIN t = 1..(Len(s) - 1)
      /\ \A i \in 1..(Len(s) - 1) : t[i] = s[i + 1]
      /\ Len(s) = 1 => t = <<>>
      /\ Len(s) # 1 => t # <<>>
  <2>1. t = Tail(s)
    OBVIOUS
  <2> HIDE DEF s, t
  <2>2. /\ Len(s) \in Nat \ {0} /\ DOMAIN s = 1..Len(s)
        /\ t \in Seq(Operation) /\ Len(t) = Len(s) - 1 /\ DOMAIN t = 1..(Len(s) - 1)
        /\ \A i \in 1..(Len(s) - 1) : t[i] = s[i + 1]
    BY <1>1, <2>1
  <2>3. Len(s) = 1 => t = <<>>
    BY <2>2, EmptySeq
  <2>4. Len(s) # 1 => t # <<>>
    BY <2>2, EmptySeq
  <2> QED BY <2>2, <2>3, <2>4
<1>3. /\ lane[c].closing => c \notin sinks /\ s[Len(s)].op = "detach"
      /\ \A i \in DOMAIN s : IF s[i].op = "detach" THEN lane[c].closing /\ i = Len(s)
                                                  ELSE s[i].client = c
  BY DEF LaneClosing, AtWork
<1> HIDE DEF s, t
<1>4. Len(s) # 1 => t[Len(t)] = s[Len(s)]
  <2> SUFFICES ASSUME Len(s) # 1 PROVE t[Len(t)] = s[Len(s)]
    OBVIOUS
  <2>1. Len(s) - 1 \in 1..(Len(s) - 1) /\ (Len(s) - 1) + 1 = Len(s)
    BY <1>2
  <2> QED BY <1>2, <2>1
<1>5. \A i \in DOMAIN t : i + 1 \in DOMAIN s /\ t[i] = s[i + 1] /\ (i + 1 = Len(s) => i = Len(t))
  BY <1>2
<1>6. \A i \in DOMAIN t : IF t[i].op = "detach" THEN lane[c].closing /\ i = Len(t)
                                               ELSE t[i].client = c
  BY <1>3, <1>5
<1>7. IF s[1].op = "detach" THEN lane[c].closing /\ Len(s) = 1 ELSE s[1].client = c
  BY <1>2, <1>3
<1>8. lane[c].closing => (t # <<>> /\ t[Len(t)].op = "detach") \/ s[1].op = "detach"
  BY <1>2, <1>3, <1>4
<1>9. AtWork(c)' /\ job'.op = s[1] /\ lane'[c].ops = t
  BY DEF AtWork, s, t
<1>10. \A i \in DOMAIN t : IF t[i].op = "detach" THEN lane'[c].closing /\ i = Len(t)
                                                ELSE t[i].client = c
  BY <1>6
<1> QED BY <1>2, <1>3, <1>7, <1>8, <1>9, <1>10 DEF LaneClosing

\* The parts of LaneInv that are about more than one lane's operations
LaneRest ==
  /\ ReadyForm
  /\ pc = "store" => ~lane[job.client].scheduled
  /\ \A c \in Client \ documents : lane[c] = NewLane
  /\ sinks \subseteq documents /\ reaping \subseteq documents
  /\ \A c \in Client \ sinks : pending[c] = <<>>

\* LaneInv, with what is about one lane apart
LEMMA LaneParts == TypeInv => (LaneInv <=> LaneRest /\ \A c \in Client : LaneClosing(c))
BY ReadySame DEF LaneInv, LaneRest

\* Lanes begin to close
LEMMA ClosesLanes ==
  ASSUME TypeInv, LaneInv, pc # "store", pc' # "store", UNCHANGED documents,
         NEW S \in SUBSET documents, Schedule(S, Closed(S))
  PROVE  /\ ReadyForm'
         /\ \A c \in Client \ documents' : lane'[c] = NewLane
         /\ \A c \in S : lane'[c].ops = Append(lane[c].ops, Detach) /\ lane'[c].closing = TRUE
         /\ \A c \in Client \ S : lane'[c] = lane[c]
<1> DEFINE L == Closed(S)
<1>1. /\ ready \in Seq(Client) /\ readySet \in SUBSET Client /\ documents \in SUBSET Client
      /\ S \in SUBSET Client /\ lane \in [Client -> Lane]
  BY DEF TypeInv
<1>2. /\ L \in [Client -> Lane]
      /\ \A c \in Client : L[c].scheduled = lane[c].scheduled
      /\ \A c \in S : L[c].ops = Append(lane[c].ops, Detach) /\ L[c].closing = TRUE
      /\ \A c \in Client \ S : L[c] = lane[c]
  BY <1>1, Closing
<1>3. \A c \in S : L[c].ops # <<>>
  <2> SUFFICES ASSUME NEW c \in S PROVE L[c].ops # <<>>
    OBVIOUS
  <2>1. lane[c].ops \in Seq(Operation)
    BY <1>1, LaneFields
  <2> QED BY <1>2, <2>1, Appended, DetachIn
<1>4. Schedule(S, L)
  OBVIOUS
<1> HIDE DEF L
<1>5. ReadyForm' /\ \A c \in Client \ documents' : lane'[c] = NewLane
  BY <1>1, <1>2, <1>3, <1>4, ScheduleKeeps
<1>6. \A c \in Client : /\ lane'[c].ops = L[c].ops /\ lane'[c].closing = L[c].closing
                        /\ lane'[c].scheduled = (L[c].scheduled \/ c \in Unscheduled(S, L))
                        /\ c \notin S => lane'[c] = L[c]
  BY <1>1, <1>2, <1>4, Scheduling, Zenon
<1> QED BY <1>1, <1>2, <1>5, <1>6

\* No lane exists at the start
LEMMA LaneInit == Init => LaneInv
<1> SUFFICES ASSUME Init PROVE LaneInv
  OBVIOUS
<1>1. DOMAIN <<>> = {} /\ ToSet(<<>>) = {}
  BY DEF ToSet
<1>2. /\ ready = <<>> /\ readySet = {} /\ documents = {} /\ pc = "top" /\ sinks = {}
      /\ reaping = {} /\ lane = [c \in Client |-> NewLane] /\ pending = [c \in Client |-> <<>>]
  BY DEF Init
<1>3. ReadyAgrees
  BY <1>1, <1>2 DEF ReadyAgrees
<1>4. \A c \in Client : LaneClosing(c)
  BY <1>1, <1>2, NewLaneIn DEF LaneClosing, AtWork
<1> QED BY <1>2, <1>3, <1>4 DEF LaneInv

\* LaneParts, in the next state
LEMMA LanePartsNext ==
  TypeInv' => (LaneInv' <=> LaneRest' /\ \A c \in Client : LaneClosing(c)')
<1>1. TypeInv' => (LaneInv' <=> LaneRest' /\ (\A c \in Client : LaneClosing(c))')
  BY LaneParts, PTL
<1> QED BY <1>1

\* Steps that leave lanes, queue and sinks alone
LEMMA LaneQuiet ==
  ASSUME TypeInv, TypeInv', LaneInv, UNCHANGED laneVars, reaping' \subseteq documents,
         pc # "store" /\ pc' # "store"
  PROVE  LaneInv'
<1>1. LaneRest /\ \A c \in Client : LaneClosing(c)
  BY LaneParts
<1>2. LaneRest'
  BY <1>1 DEF LaneRest, ReadyForm, AtWork, laneVars
<1>3. \A c \in Client : LaneClosing(c)'
  BY <1>1 DEF LaneClosing, AtWork, laneVars
<1> QED BY <1>2, <1>3, LanePartsNext

\* attach gives a client the actor has not heard of its lane
LEMMA Attaching ==
  ASSUME TypeInv, ClientInv, LaneInv, IngestAttach
  PROVE  LET c == Head(mailbox).client
         IN /\ c \in Client /\ IsAttach(mailbox[1], c) /\ c \notin documents
            /\ mailbox # <<>> /\ mailbox' = Tail(mailbox) /\ 1 \in DOMAIN mailbox
            /\ pc = "drain" /\ pc' = "drain" /\ lane[c] = NewLane /\ UNCHANGED lane
            /\ sinks' = sinks \cup {c} /\ documents' = documents \cup {c}
            /\ UNCHANGED <<clientVars, events, listening, store, reaping, lastServed, job,
                           handled, pending, ready, readySet, inspections, shuttingDown>>
<1> DEFINE c == Head(mailbox).client
<1>1. /\ pc = "drain" /\ pc' = pc /\ mailbox # <<>> /\ mailbox' = Tail(mailbox)
      /\ Head(mailbox).op = "attach"
      /\ sinks' = sinks \cup {c} /\ documents' = documents \cup {c}
      /\ lane' = [lane EXCEPT ![c] = NewLane]
      /\ UNCHANGED <<clientVars, events, listening, store, reaping, lastServed, job,
                     handled, pending, ready, readySet, inspections, shuttingDown>>
  BY DEF IngestAttach, Ingest
<1>2. /\ Head(mailbox) = mailbox[1] /\ mailbox[1] \in Message /\ 1 \in DOMAIN mailbox
  BY <1>1, Taking DEF TypeInv
<1>3. c \in Client /\ IsAttach(mailbox[1], c)
  BY <1>1, <1>2, MessageFields DEF IsAttach
<1> HIDE DEF c
<1>4. c \notin documents
  BY <1>2, <1>3 DEF ClientInv, Fresh
<1>5. lane[c] = NewLane
  BY <1>3, <1>4 DEF LaneInv
<1>6. lane' = lane
  BY <1>1, <1>3, <1>5 DEF TypeInv
<1> QED BY <1>1, <1>2, <1>3, <1>4, <1>5, <1>6 DEF c

\* Attaching a client gives it a new lane and a sink
LEMMA LaneAttach ==
  ASSUME TypeInv, TypeInv', ClientInv, LaneInv, IngestAttach
  PROVE  LaneInv'
<1> DEFINE c == Head(mailbox).client
<1>1. /\ c \in Client /\ c \notin documents /\ pc = "drain" /\ pc' = "drain"
      /\ lane[c] = NewLane /\ UNCHANGED lane
      /\ sinks' = sinks \cup {c} /\ documents' = documents \cup {c}
      /\ UNCHANGED <<reaping, pending, ready, readySet>>
  BY Attaching
<1>2. LaneRest /\ \A d \in Client : LaneClosing(d)
  BY LaneParts
<1> HIDE DEF c
<1>3. ReadyForm'
  BY <1>1, <1>2, NewLaneIn DEF LaneRest, ReadyForm, AtWork
<1>4. LaneRest'
  BY <1>1, <1>2, <1>3 DEF LaneRest
<1>5. \A d \in Client : LaneClosing(d)'
  <2> SUFFICES ASSUME NEW d \in Client PROVE LaneClosing(d)'
    OBVIOUS
  <2>1. LaneClosing(d) /\ (lane[d].closing => d # c)
    BY <1>1, <1>2, NewLaneIn
  <2> QED BY <1>1, <2>1 DEF LaneClosing, AtWork
<1> QED BY <1>4, <1>5, LanePartsNext

\* A call that joins its lane, or replaces the waiting save there, schedules the lane once
LEMMA LaneCall ==
  ASSUME TypeInv, TypeInv', LaneInv, IngestLoad \/ IngestSave
  PROVE  LaneInv'
<1>1. PICK c \in Client, m \in Operation :
      /\ pc = "drain" /\ IsCall(m, c)
      /\ UNCHANGED <<pc, reaping, job, sinks, pending, documents>>
      /\ Open(c) => \E ops \in Seq(Operation) : /\ Extends(ops, lane[c].ops, m)
                                                /\ Schedule({c}, [lane EXCEPT ![c].ops = ops])
      /\ ~Open(c) => UNCHANGED <<lane, ready, readySet>>
  BY Calling
<1>2. LaneRest /\ \A d \in Client : LaneClosing(d)
  BY LaneParts
<1>3. CASE Open(c)
  <2>1. PICK ops \in Seq(Operation) : /\ Extends(ops, lane[c].ops, m)
                                      /\ Schedule({c}, [lane EXCEPT ![c].ops = ops])
    BY <1>1, <1>3
  <2> DEFINE L == [lane EXCEPT ![c].ops = ops]
  <2>2. /\ L \in [Client -> Lane] /\ L[c].ops = ops /\ L[c].closing = lane[c].closing
        /\ L[c].scheduled = lane[c].scheduled /\ \A d \in Client \ {c} : L[d] = lane[d]
    <3>1. lane \in [Client -> Lane] /\ c \in Client
      BY <1>1 DEF TypeInv
    <3> QED BY <3>1, NewOps, Zenon
  <2>3. Schedule({c}, L) /\ ops # <<>>
    BY <2>1 DEF Extends, SameCall
  <2> HIDE DEF L
  <2>4. {c} \in SUBSET documents /\ {c} \in SUBSET Client /\ ~lane[c].closing
    BY <1>1, <1>3 DEF Open
  <2>5. pc # "store" /\ pc' # "store" /\ UNCHANGED documents
    BY <1>1
  <2>6. \A d \in {c} : L[d].ops # <<>> /\ L[d].scheduled = lane[d].scheduled
    BY <2>2, <2>3
  <2>7. ReadyForm' /\ \A d \in Client \ documents' : lane'[d] = NewLane
    BY <2>2, <2>3, <2>4, <2>5, <2>6, ScheduleKeeps
  <2>8. ready \in Seq(Client) /\ readySet \in SUBSET Client
    BY DEF TypeInv
  <2>9. \A d \in Client : /\ lane'[d].ops = L[d].ops /\ lane'[d].closing = L[d].closing
                          /\ lane'[d].scheduled = (L[d].scheduled \/ d \in Unscheduled({c}, L))
                          /\ d \notin {c} => lane'[d] = L[d]
    BY <2>2, <2>3, <2>4, <2>8, Scheduling, Zenon
  <2>10. LaneClosing(c)'
    <3>1. /\ lane'[c].ops \in Seq(Operation) /\ Extends(lane'[c].ops, lane[c].ops, m)
          /\ lane'[c].closing = FALSE /\ LaneClosing(c)
      BY <1>1, <1>2, <2>1, <2>2, <2>4, <2>9, LaneFields DEF TypeInv
    <3> QED BY <1>1, <2>4, <2>5, <3>1, LaneExtends, Zenon
  <2>11. ASSUME NEW d \in Client, d # c PROVE LaneClosing(d)'
    <3>1. lane'[d] = lane[d] /\ LaneClosing(d) /\ (d \in sinks' => d \in sinks)
      BY <1>1, <1>2, <2>2, <2>9, <2>11
    <3> QED BY <2>5, <3>1, LaneStays
  <2>12. LaneRest'
    BY <1>1, <1>2, <2>5, <2>7 DEF LaneRest
  <2>13. \A d \in Client : LaneClosing(d)'
    BY <2>10, <2>11
  <2> QED BY <2>12, <2>13, LanePartsNext
<1>4. CASE ~Open(c)
  <2>1. UNCHANGED laneVars /\ reaping' \subseteq documents /\ pc # "store" /\ pc' # "store"
    BY <1>1, <1>2, <1>4 DEF laneVars, LaneRest
  <2> QED BY <2>1, LaneQuiet
<1> QED BY <1>3, <1>4

\* Lanes close, and their sinks go
LEMMA LaneClose ==
  ASSUME TypeInv, TypeInv', LaneInv, pc # "store", pc' # "store", UNCHANGED documents,
         NEW S \in SUBSET documents, Schedule(S, Closed(S)), \A c \in S : ~lane[c].closing,
         sinks' \subseteq sinks \ S, reaping' \subseteq documents,
         \A c \in Client \ sinks' : pending'[c] = <<>>
  PROVE  LaneInv'
<1>1. LaneRest /\ \A d \in Client : LaneClosing(d)
  BY LaneParts
<1>2. /\ ReadyForm'
      /\ \A c \in Client \ documents' : lane'[c] = NewLane
      /\ \A c \in S : lane'[c].ops = Append(lane[c].ops, Detach) /\ lane'[c].closing = TRUE
      /\ \A c \in Client \ S : lane'[c] = lane[c]
  BY ClosesLanes
<1>3. ASSUME NEW c \in Client PROVE LaneClosing(c)'
  <2>1. CASE c \in S
    BY <1>1, <1>2, <2>1, LaneCloses
  <2>2. CASE c \notin S
    BY <1>1, <1>2, <2>2, LaneStays
  <2> QED BY <2>1, <2>2
<1>4. LaneRest'
  BY <1>1, <1>2 DEF LaneRest
<1> QED BY <1>3, <1>4, LanePartsNext

\* select takes the first ready lane and its first operation
LEMMA LaneSelect ==
  ASSUME TypeInv, TypeInv', LaneInv, Select
  PROVE  LaneInv'
<1>1. LaneRest /\ \A d \in Client : LaneClosing(d)
  BY LaneParts
<1>2. PICK c \in documents :
           /\ pc = "select" /\ pc' = "store" /\ c \in Client
           /\ lane[c].scheduled /\ lane[c].ops # <<>>
           /\ Distinct(ready') /\ ToSet(ready') = readySet' /\ readySet' = readySet \ {c}
           /\ lane'[c].ops = Tail(lane[c].ops) /\ lane'[c].scheduled = FALSE
           /\ lane'[c].closing = lane[c].closing
           /\ \A d \in Client \ {c} : lane'[d] = lane[d]
           /\ job'.client = c /\ job'.op = lane[c].ops[1] /\ FlushAll
           /\ UNCHANGED <<documents, reaping>>
  BY Selecting
<1>3. /\ sinks' = sinks \ Disconnected
      /\ \A d \in Client : (pending[d] = <<>> => pending'[d] = <<>>)
                           /\ (d \in Disconnected => pending'[d] = <<>>)
  BY <1>2, Flushing
<1>4. documents \in SUBSET Client
  BY DEF TypeInv
<1>5. readySet' = {d \in documents' : lane'[d].scheduled}
  BY <1>1, <1>2, <1>4 DEF LaneRest, ReadyForm
<1>6. \A d \in documents' : ~AtWork(d)' => (lane'[d].ops # <<>> <=> lane'[d].scheduled)
  BY <1>1, <1>2, <1>4 DEF LaneRest, ReadyForm, AtWork
<1>7. ReadyForm'
  BY <1>2, <1>5, <1>6 DEF ReadyForm
<1>8. LaneRest'
  <2>1. \A d \in Client \ documents' : lane'[d] = NewLane
    BY <1>1, <1>2 DEF LaneRest
  <2>2. sinks' \subseteq documents' /\ reaping' \subseteq documents'
    BY <1>1, <1>2, <1>3 DEF LaneRest
  <2>3. \A d \in Client \ sinks' : pending'[d] = <<>>
    BY <1>1, <1>3 DEF LaneRest
  <2> QED BY <1>2, <1>7, <2>1, <2>2, <2>3 DEF LaneRest
<1>9. ASSUME NEW d \in Client PROVE LaneClosing(d)'
  <2>1. d \in sinks' => d \in sinks
    BY <1>3
  <2>2. CASE d = c
    BY <1>1, <1>2, <2>1, <2>2, LaneWorks
  <2>3. CASE d # c
    <3>1. lane'[d] = lane[d] /\ ~AtWork(d) /\ ~AtWork(d)' /\ LaneClosing(d)
      BY <1>1, <1>2, <2>3 DEF AtWork
    <3> QED BY <2>1, <3>1 DEF LaneClosing
  <2> QED BY <2>2, <2>3
<1> QED BY <1>8, <1>9, LanePartsNext

\* The actor that waits takes nothing from a lane
LEMMA LaneWait ==
  ASSUME TypeInv, TypeInv', LaneInv, Wait
  PROVE  LaneInv'
<1>1. LaneRest /\ \A d \in Client : LaneClosing(d)
  BY LaneParts
<1>2. /\ pc = "select" /\ pc' # "store" /\ ready' = Rotation /\ FlushAll
      /\ UNCHANGED <<documents, lane, readySet, reaping>>
  BY DEF Wait
<1>3. /\ sinks' = sinks \ Disconnected
      /\ \A d \in Client : (pending[d] = <<>> => pending'[d] = <<>>)
                           /\ (d \in Disconnected => pending'[d] = <<>>)
  BY <1>2, Flushing
<1>4. Distinct(ready') /\ ToSet(ready') = ToSet(ready)
  BY <1>1, <1>2, Rotating DEF LaneRest, ReadyForm, TypeInv
<1>5. ReadyForm'
  BY <1>1, <1>2, <1>4 DEF LaneRest, ReadyForm, AtWork
<1>6. LaneRest'
  <2>1. \A d \in Client \ documents' : lane'[d] = NewLane
    BY <1>1, <1>2 DEF LaneRest
  <2>2. sinks' \subseteq documents' /\ reaping' \subseteq documents'
    BY <1>1, <1>2, <1>3 DEF LaneRest
  <2>3. \A d \in Client \ sinks' : pending'[d] = <<>>
    BY <1>1, <1>3 DEF LaneRest
  <2> QED BY <1>2, <1>5, <2>1, <2>2, <2>3 DEF LaneRest
<1>7. ASSUME NEW d \in Client PROVE LaneClosing(d)'
  BY <1>1, <1>2, <1>3, LaneStays
<1> QED BY <1>6, <1>7, LanePartsNext

\* A load or a save executed puts its lane back in the ready queue if it has more to do
LEMMA LaneExecute ==
  ASSUME TypeInv, TypeInv', LaneInv, Execute
  PROVE  LaneInv'
<1>1. LaneRest /\ \A d \in Client : LaneClosing(d)
  BY LaneParts
<1>2. PICK c \in Client, e \in EventRecord :
        /\ c = job.client /\ pc = "store" /\ pc' = "top" /\ job \in Job /\ job.op.op # "detach"
        /\ ready' = (IF lane[c].ops # <<>> THEN Append(ready, c) ELSE ready)
        /\ readySet' = (IF lane[c].ops # <<>> THEN readySet \cup {c} ELSE readySet)
        /\ lane'[c].ops = lane[c].ops /\ lane'[c].closing = lane[c].closing
        /\ lane'[c].scheduled = (lane[c].ops # <<>>)
        /\ \A d \in Client \ {c} : lane'[d] = lane[d]
        /\ SendEvent(e) /\ UNCHANGED <<documents, reaping>>
  BY Executing
<1>3. /\ sinks' \subseteq sinks /\ sinks \ {c} \subseteq sinks'
      /\ \A d \in Client : d # c \/ d \notin sinks => pending'[d] = pending[d]
      /\ \A d \in Client : d \in sinks \ sinks' => pending'[d] = <<>>
  BY <1>2, Sending
<1>4. /\ ready \in Seq(Client) /\ Distinct(ready) /\ ToSet(ready) = readySet
      /\ readySet = {d \in documents : lane[d].scheduled} /\ c \in documents
      /\ ~lane[c].scheduled /\ documents \in SUBSET Client
  BY <1>1, <1>2 DEF LaneRest, ReadyForm, TypeInv
<1>5. Distinct(ready') /\ ToSet(ready') = readySet'
  <2>1. CASE lane[c].ops # <<>>
    <3>1. ready' = ready \o <<c>> /\ <<c>> \in Seq(Client)
      BY <1>2, <1>4, <2>1
    <3>2. ToSet(<<c>>) = {c} /\ Distinct(<<c>>)
      BY DEF ToSet, Distinct
    <3>3. ToSet(ready) \cap ToSet(<<c>>) = {}
      BY <1>4, <3>2
    <3>4. Distinct(ready') /\ ToSet(ready') = ToSet(ready) \cup ToSet(<<c>>)
      BY <1>4, <3>1, <3>2, <3>3, Joined
    <3> QED BY <1>2, <1>4, <2>1, <3>2, <3>4
  <2>2. CASE lane[c].ops = <<>>
    BY <1>2, <1>4, <2>2
  <2> QED BY <2>1, <2>2
<1>6. readySet' = {d \in documents' : lane'[d].scheduled}
  <2>1. \A d \in documents : lane'[d].scheduled = (IF d = c THEN lane[c].ops # <<>> ELSE lane[d].scheduled)
    BY <1>2, <1>4
  <2> QED BY <1>2, <1>4, <2>1
<1>7. \A d \in documents : lane'[d].ops # <<>> <=> lane'[d].scheduled
  BY <1>1, <1>2, <1>4 DEF LaneRest, ReadyForm, AtWork
<1>8. ReadyForm'
  BY <1>2, <1>5, <1>6, <1>7 DEF ReadyForm
<1>9. LaneRest'
  <2>1. \A d \in Client \ documents' : lane'[d] = NewLane
    BY <1>1, <1>2, <1>4 DEF LaneRest
  <2>2. sinks' \subseteq documents' /\ reaping' \subseteq documents'
    BY <1>1, <1>2, <1>3 DEF LaneRest
  <2>3. \A d \in Client \ sinks' : pending'[d] = <<>>
    BY <1>1, <1>3 DEF LaneRest
  <2> QED BY <1>2, <1>8, <2>1, <2>2, <2>3 DEF LaneRest
<1>10. ASSUME NEW d \in Client PROVE LaneClosing(d)'
  <2>1. (d \in sinks' => d \in sinks) /\ ~AtWork(d)' /\ LaneClosing(d)
    BY <1>1, <1>2, <1>3 DEF AtWork
  <2>2. ~(AtWork(d) /\ job.op.op = "detach")
    BY <1>2
  <2>3. lane'[d].ops = lane[d].ops /\ lane'[d].closing = lane[d].closing
    BY <1>2
  <2> QED BY <2>1, <2>2, <2>3 DEF LaneClosing
<1> QED BY <1>9, <1>10, LanePartsNext

\* The Detach of a lane removes it with everything the service keeps of its client
LEMMA LaneDetach ==
  ASSUME TypeInv, TypeInv', LaneInv, DetachLane
  PROVE  LaneInv'
<1>1. LaneRest /\ \A d \in Client : LaneClosing(d)
  BY LaneParts
<1>2. PICK c \in Client :
        /\ c = job.client /\ pc = "store" /\ pc' = "top" /\ job.op.op = "detach"
        /\ sinks' = sinks \ {c} /\ pending' = [pending EXCEPT ![c] = <<>>]
        /\ documents' = documents \ {c} /\ lane' = [lane EXCEPT ![c] = NewLane]
        /\ UNCHANGED <<ready, readySet, reaping>>
  BY JobFields DEF DetachLane, TypeInv
<1>3. /\ lane'[c] = NewLane /\ \A d \in Client \ {c} : lane'[d] = lane[d]
      /\ pending'[c] = <<>> /\ \A d \in Client \ {c} : pending'[d] = pending[d]
      /\ reaping = {} /\ documents \in SUBSET Client
  BY <1>2 DEF TypeInv
<1>4. ~lane[c].scheduled
  BY <1>1, <1>2 DEF LaneRest
<1>5. ReadyForm'
  <2>1. readySet' = {d \in documents' : lane'[d].scheduled}
    BY <1>1, <1>2, <1>3, <1>4 DEF LaneRest, ReadyForm
  <2>2. \A d \in documents' : lane'[d].ops # <<>> <=> lane'[d].scheduled
    BY <1>1, <1>2, <1>3 DEF LaneRest, ReadyForm, AtWork
  <2> QED BY <1>1, <1>2, <2>1, <2>2 DEF LaneRest, ReadyForm
<1>6. LaneRest'
  <2>1. \A d \in Client \ documents' : lane'[d] = NewLane
    BY <1>1, <1>2, <1>3 DEF LaneRest
  <2>2. sinks' \subseteq documents' /\ reaping' \subseteq documents'
    BY <1>1, <1>2, <1>3 DEF LaneRest
  <2>3. \A d \in Client \ sinks' : pending'[d] = <<>>
    BY <1>1, <1>2, <1>3 DEF LaneRest
  <2> QED BY <1>2, <1>5, <2>1, <2>2, <2>3 DEF LaneRest
<1>7. ASSUME NEW d \in Client PROVE LaneClosing(d)'
  <2>1. CASE d = c
    <3>1. lane'[d].closing = FALSE /\ lane'[d].ops = <<>> /\ ~AtWork(d)' /\ DOMAIN <<>> = {}
      BY <1>2, <1>3, <2>1, NewLaneIn DEF AtWork
    <3> QED BY <3>1 DEF LaneClosing
  <2>2. CASE d # c
    <3>1. lane'[d] = lane[d] /\ ~AtWork(d) /\ ~AtWork(d)' /\ LaneClosing(d)
          /\ (d \in sinks' => d \in sinks)
      BY <1>1, <1>2, <1>3, <2>2 DEF AtWork
    <3> QED BY <3>1 DEF LaneClosing
  <2> QED BY <2>1, <2>2
<1> QED BY <1>6, <1>7, LanePartsNext

\* Every step keeps the lanes and the ready queue in agreement
LEMMA LaneNext == TypeInv /\ TypeInv' /\ ClientInv /\ LaneInv /\ [AnyNext]_vars => LaneInv'
<1> SUFFICES ASSUME TypeInv, TypeInv', ClientInv, LaneInv, [AnyNext]_vars PROVE LaneInv'
  OBVIOUS
<1>1. LaneRest
  BY LaneParts
<1>2. CASE Environment \/ AnyClientStep \/ Stopped \/ UNCHANGED vars
  <2>1. UNCHANGED actorVars
    BY <1>2, Outside DEF Stopped, vars
  <2> QED BY <2>1 DEF LaneInv, ReadyAgrees, LaneClosing, AtWork, actorVars, laneVars
<1>3. CASE Top \/ DrainEmpty \/ ReapDone \/ Reply \/ IngestInspect \/ IngestWake
  <2>1. /\ UNCHANGED laneVars /\ pc # "store" /\ pc' # "store"
        /\ reaping' \in {reaping, documents}
    BY <1>3 DEF Top, DrainEmpty, ReapDone, Reply, IngestInspect, IngestWake, Ingest
  <2> QED BY <1>1, <2>1, LaneQuiet DEF LaneRest
<1>4. CASE IngestShutdown
  <2> DEFINE S == {c \in documents : ~lane[c].closing}
  <2>1. /\ pc # "store" /\ pc' # "store" /\ UNCHANGED <<documents, reaping>>
        /\ Schedule(S, Closed(S)) /\ sinks' = {} /\ pending' = [c \in Client |-> <<>>]
    BY <1>4 DEF IngestShutdown, Ingest
  <2>2. /\ S \in SUBSET documents /\ \A c \in S : ~lane[c].closing
        /\ sinks' \subseteq sinks \ S /\ reaping' \subseteq documents
        /\ \A c \in Client \ sinks' : pending'[c] = <<>>
    BY <1>1, <2>1 DEF LaneRest
  <2>3. PICK R \in SUBSET documents : R = S
    BY <2>2
  <2> HIDE DEF S
  <2> QED BY <2>1, <2>2, <2>3, LaneClose
<1>5. ASSUME NEW c \in Client, Reap(c) PROVE LaneInv'
  <2>1. /\ pc # "store" /\ pc' # "store" /\ UNCHANGED documents /\ c \in documents
        /\ reaping' \subseteq documents
    BY <1>1, <1>5 DEF Reap, LaneRest
  <2>2. CASE client[c] \in {"dropping", "dropped"} /\ ~lane[c].closing
    <3>1. /\ {c} \in SUBSET documents /\ \A d \in {c} : ~lane[d].closing
          /\ Schedule({c}, Closed({c})) /\ sinks' = sinks \ {c}
          /\ pending' = [pending EXCEPT ![c] = <<>>]
      BY <1>5, <2>1, <2>2 DEF Reap
    <3>2. \A d \in Client \ sinks' : pending'[d] = <<>>
      BY <1>1, <3>1 DEF LaneRest, TypeInv
    <3>3. sinks' \subseteq sinks \ {c}
      BY <3>1
    <3> QED BY <2>1, <3>1, <3>2, <3>3, LaneClose
  <2>3. CASE ~(client[c] \in {"dropping", "dropped"} /\ ~lane[c].closing)
    <3>1. UNCHANGED laneVars
      BY <1>5, <2>3 DEF Reap, laneVars
    <3> QED BY <2>1, <3>1, LaneQuiet
  <2> QED BY <2>2, <2>3
<1> QED BY <1>2, <1>3, <1>4, <1>5, LaneAttach, LaneCall, LaneSelect, LaneWait, LaneExecute,
           LaneDetach
        DEF AnyNext, ActorStep, IngestStep, StoreStep, Execute

-----------------------------------------------------------------------------
(* A client is attached once, and first *)

\* No client is attached at the start
LEMMA ClientInit == Init => ClientInv
<1> SUFFICES ASSUME Init PROVE ClientInv
  OBVIOUS
<1>1. /\ client = [c \in Client |-> "unattached"] /\ serial = [c \in Client |-> 0]
      /\ mailbox = <<>> /\ DOMAIN mailbox = {} /\ documents = {} /\ inspections = {}
      /\ handled = [c \in Client |-> 0] /\ answered = [c \in Client |-> 0]
      /\ events = [c \in Client |-> <<>>]
  BY DEF Init
<1> QED BY <1>1 DEF ClientInv

\* A message is posted
LEMMA ClientPosts ==
  ASSUME TypeInv, ClientInv, NEW m \in Message, mailbox' = Append(mailbox, m),
         UNCHANGED <<actorVars, events, answered>>,
         \A c \in Client : client'[c] = "unattached" =>
           client[c] = "unattached" /\ serial'[c] = serial[c] /\ ~Names(m, c),
         \A c \in Client : IsAttach(m, c) => client[c] = "unattached",
         \A c \in Client : Gone(c) => Gone(c)',
         m.op = "inspect" => \A c \in m.gone : Gone(c)'
  PROVE  ClientInv'
<1> DEFINE n == Len(mailbox)
<1>1. /\ n \in Nat /\ DOMAIN mailbox = 1..n /\ DOMAIN mailbox' = 1..(n + 1)
      /\ \A i \in 1..n : mailbox'[i] = mailbox[i]
      /\ mailbox'[n + 1] = m
  BY Posting DEF TypeInv
<1> HIDE DEF n
<1>2. \A i \in DOMAIN mailbox' : (i \in 1..n /\ mailbox'[i] = mailbox[i]) \/ (i = n + 1 /\ mailbox'[i] = m)
  BY <1>1
<1>3. UNCHANGED <<documents, handled, answered, events, inspections>>
  BY DEF actorVars, laneVars
<1>4. \A c \in Client : client'[c] = "unattached" =>
        serial'[c] = 0 /\ \A i \in DOMAIN mailbox' : ~Names(mailbox'[i], c)
  BY <1>1, <1>2 DEF ClientInv
<1>5. ASSUME NEW c \in Client, NEW i \in DOMAIN mailbox', NEW j \in DOMAIN mailbox',
             IsAttach(mailbox'[i], c), Names(mailbox'[j], c)
      PROVE  i <= j
  <2>1. CASE i \in 1..n /\ mailbox'[i] = mailbox[i] /\ j \in 1..n /\ mailbox'[j] = mailbox[j]
    BY <1>1, <1>5, <2>1 DEF ClientInv
  <2>2. CASE i \in 1..n /\ j = n + 1
    BY <1>1, <2>2
  <2>3. CASE i = n + 1 /\ mailbox'[i] = m /\ j \in 1..n /\ mailbox'[j] = mailbox[j]
    <3>1. client[c] = "unattached" /\ Names(mailbox[j], c)
      BY <1>5, <2>3
    <3> QED BY <1>1, <2>3, <3>1 DEF ClientInv
  <2>4. CASE i = n + 1 /\ j = n + 1
    BY <1>1, <2>4
  <2> QED BY <1>2, <2>1, <2>2, <2>3, <2>4
<1>6. ASSUME NEW c \in Client, Fresh(c)' PROVE Fresh(c)
  <2>1. CASE client'[c] = "unattached"
    BY <2>1 DEF Fresh
  <2>2. CASE \E i \in DOMAIN mailbox' : IsAttach(mailbox'[i], c)
    <3>1. PICK i \in DOMAIN mailbox' : IsAttach(mailbox'[i], c)
      BY <2>2
    <3> QED BY <1>1, <1>2, <3>1 DEF Fresh
  <2> QED BY <1>6, <2>1, <2>2 DEF Fresh
<1>7. \A c \in Client : Fresh(c)' =>
       /\ c \notin documents' /\ handled'[c] = 0 /\ answered'[c] = 0 /\ events'[c] = <<>>
       /\ \A r \in inspections' : c \notin r.gone
  BY <1>3, <1>6 DEF ClientInv
<1>8. \A i \in DOMAIN mailbox' : mailbox'[i].op = "inspect" => \A c \in mailbox'[i].gone : Gone(c)'
  <2> SUFFICES ASSUME NEW i \in DOMAIN mailbox', mailbox'[i].op = "inspect",
                      NEW c \in mailbox'[i].gone
               PROVE  Gone(c)'
    OBVIOUS
  <2>1. CASE i \in 1..n /\ mailbox'[i] = mailbox[i]
    <3>1. mailbox[i] \in Message /\ Gone(c)
      BY <1>1, <2>1 DEF ClientInv, TypeInv
    <3>2. c \in Client
      BY <2>1, <3>1, MessageFields
    <3> QED BY <3>1, <3>2
  <2>2. CASE mailbox'[i] = m
    BY <2>2
  <2> QED BY <1>2, <2>1, <2>2
<1>9. \A r \in inspections' : \A c \in r.gone : Gone(c)'
  <2> SUFFICES ASSUME NEW r \in inspections, NEW c \in r.gone PROVE Gone(c)'
    BY <1>3
  <2>1. Gone(c) /\ c \in Client
    BY DEF ClientInv, TypeInv, Inspection
  <2> QED BY <2>1
<1> QED BY <1>4, <1>5, <1>7, <1>8, <1>9 DEF ClientInv

\* The mailbox stays
LEMMA ClientStays ==
  ASSUME TypeInv, ClientInv, UNCHANGED <<actorVars, mailbox, serial>>,
         \A c \in Client : client'[c] = "unattached" => client[c] = "unattached",
         \A c \in Client : Gone(c) => Gone(c)',
         \A c \in Client : events[c] = <<>> => events'[c] = <<>> /\ answered'[c] = answered[c]
  PROVE  ClientInv'
<1>1. UNCHANGED <<documents, handled, inspections, mailbox, serial>>
  BY DEF actorVars, laneVars
<1>2. \A c \in Client : Fresh(c)' => Fresh(c)
  BY DEF Fresh
<1>3. \A c \in Client : Fresh(c)' =>
       /\ c \notin documents' /\ handled'[c] = 0 /\ answered'[c] = 0 /\ events'[c] = <<>>
       /\ \A r \in inspections' : c \notin r.gone
  BY <1>1, <1>2 DEF ClientInv
<1>4. \A i \in DOMAIN mailbox' : mailbox'[i].op = "inspect" => \A c \in mailbox'[i].gone : Gone(c)'
  <2> SUFFICES ASSUME NEW i \in DOMAIN mailbox, mailbox[i].op = "inspect", NEW c \in mailbox[i].gone
               PROVE  Gone(c)'
    BY <1>1
  <2>1. mailbox[i] \in Message /\ Gone(c)
    BY Messages DEF ClientInv, TypeInv
  <2>2. c \in Client
    BY <2>1, MessageFields
  <2> QED BY <2>1, <2>2
<1>5. \A r \in inspections' : \A c \in r.gone : Gone(c)'
  <2> SUFFICES ASSUME NEW r \in inspections, NEW c \in r.gone PROVE Gone(c)'
    BY <1>1
  <2>1. Gone(c) /\ c \in Client
    BY DEF ClientInv, TypeInv, Inspection
  <2> QED BY <2>1
<1> QED BY <1>1, <1>3, <1>4, <1>5 DEF ClientInv

\* What a client does keeps the order of its attachment and its other messages
LEMMA ClientOutside == TypeInv /\ ClientInv /\ (Environment \/ AnyClientStep) => ClientInv'
<1> SUFFICES ASSUME TypeInv, ClientInv, Environment \/ AnyClientStep PROVE ClientInv'
  OBVIOUS
<1> USE DEF Gone
<1>1. ASSUME NEW c \in Client, Attach(c) PROVE ClientInv'
  <2> DEFINE m == [op |-> "attach", client |-> c]
  <2>1. /\ client[c] = "unattached" /\ client' = [client EXCEPT ![c] = "live"]
        /\ mailbox' = Append(mailbox, m)
        /\ UNCHANGED <<actorVars, events, answered, serial>>
    BY <1>1 DEF Attach, Post
  <2>2. m \in Message /\ \A d : Names(m, d) => d = c
    BY Posts DEF Names, IsCall, IsAttach
  <2>3. m.op # "inspect" /\ \A d : IsAttach(m, d) => d = c
    BY DEF IsAttach
  <2> HIDE DEF m
  <2>4. /\ \A d \in Client : client'[d] = "unattached" =>
             client[d] = "unattached" /\ serial'[d] = serial[d] /\ ~Names(m, d)
        /\ \A d \in Client : IsAttach(m, d) => client[d] = "unattached"
        /\ \A d \in Client : Gone(d) => Gone(d)'
    BY <2>1, <2>2, <2>3 DEF TypeInv
  <2> QED BY <2>1, <2>2, <2>3, <2>4, ClientPosts
<1>2. ASSUME NEW c \in Client, SendWake(c) PROVE ClientInv'
  <2> DEFINE m == [op |-> "wake"]
  <2>1. /\ client[c] = "dropping" /\ client' = [client EXCEPT ![c] = "dropped"]
        /\ mailbox' \in {Append(mailbox, m), mailbox}
        /\ UNCHANGED <<actorVars, events, answered, serial>>
    BY <1>2 DEF SendWake
  <2>2. m \in Message /\ m.op # "inspect" /\ \A d : ~Names(m, d) /\ ~IsAttach(m, d)
    BY Posts DEF Names, IsCall, IsAttach
  <2> HIDE DEF m
  <2>3. /\ \A d \in Client : client'[d] = "unattached" => client[d] = "unattached"
        /\ \A d \in Client : Gone(d) => Gone(d)'
    BY <2>1 DEF TypeInv
  <2>4. CASE mailbox' = mailbox
    BY <2>1, <2>3, <2>4, ClientStays
  <2>5. CASE mailbox' = Append(mailbox, m)
    BY <2>1, <2>2, <2>3, <2>5, ClientPosts
  <2> QED BY <2>1, <2>4, <2>5
<1>3. ASSUME NEW c \in Client, StopListening(c) PROVE ClientInv'
  <2>1. /\ UNCHANGED <<actorVars, mailbox, serial, client, answered>>
        /\ events' = [events EXCEPT ![c] = <<>>]
    BY <1>3 DEF StopListening, clientVars
  <2>2. \A d \in Client : events[d] = <<>> => events'[d] = <<>>
    BY <2>1 DEF TypeInv
  <2> QED BY <2>1, <2>2, ClientStays
<1>4. ASSUME Inspect PROVE ClientInv'
  <2> DEFINE S == {c \in Client : client[c] \in {"dropping", "dropped"}}
             m == [op |-> "inspect", gone |-> S]
  <2>1. /\ mailbox' = Append(mailbox, m)
        /\ UNCHANGED <<actorVars, events, answered, serial, client>>
    BY <1>4 DEF Inspect, Post
  <2>2. /\ m \in Message /\ m.gone = S
        /\ \A d : (Names(m, d) => d \in S) /\ ~IsAttach(m, d)
    BY Posts DEF Names, IsCall, IsAttach
  <2>3. \A c \in S : Gone(c)'
    BY <2>1
  <2>4. \A c \in Client : client'[c] = "unattached" => ~Names(m, c)
    BY <2>1, <2>2
  <2> HIDE DEF m, S
  <2> QED BY <2>1, <2>2, <2>3, <2>4, ClientPosts
<1>5. ASSUME ReleaseHandle PROVE ClientInv'
  BY <1>5, ClientStays DEF ReleaseHandle, channelVars
<1>6. ASSUME SendShutdown PROVE ClientInv'
  <2> DEFINE m == [op |-> "shutdown"]
  <2>1. /\ mailbox' = Append(mailbox, m)
        /\ UNCHANGED <<actorVars, events, answered, serial, client>>
    BY <1>6 DEF SendShutdown, Post
  <2>2. m \in Message /\ m.op # "inspect" /\ \A d : ~Names(m, d) /\ ~IsAttach(m, d)
    BY Posts DEF Names, IsCall, IsAttach
  <2> HIDE DEF m
  <2> QED BY <2>1, <2>2, ClientPosts
<1>7. ASSUME NEW p \in Path, NEW m \in Foreign, ForeignSave(p, m) PROVE ClientInv'
  BY <1>7, ClientStays DEF ForeignSave, channelVars, clientVars
<1>8. ASSUME NEW c \in Client, DropClient(c) PROVE ClientInv'
  <2>1. /\ client[c] = "live" /\ client' = [client EXCEPT ![c] = "dropping"]
        /\ UNCHANGED <<actorVars, mailbox, serial, events, answered>>
    BY <1>8 DEF DropClient, channelVars
  <2>2. /\ \A d \in Client : client'[d] = "unattached" => client[d] = "unattached"
        /\ \A d \in Client : Gone(d) => Gone(d)'
    BY <2>1 DEF TypeInv
  <2> QED BY <2>1, <2>2, ClientStays
<1>9. ASSUME NEW c \in Client, Receive(c) PROVE ClientInv'
  <2>1. /\ UNCHANGED <<actorVars, mailbox, serial, client>> /\ events[c] # <<>>
        /\ \A d \in Client \ {c} : events'[d] = events[d] /\ answered'[d] = answered[d]
    BY <1>9 DEF Receive, TypeInv
  <2> QED BY <2>1, ClientStays
<1>10. ASSUME NEW c \in Client, NEW request \in Request, Submit(c, request) PROVE ClientInv'
  <2>1. PICK m \in Message : m.op \in {"load", "save"} /\ m.client = c /\ mailbox' = Append(mailbox, m)
    BY <1>10, SubmitPosts DEF Submit, Post
  <2>2. /\ client[c] = "live" /\ UNCHANGED <<actorVars, events, answered, client>>
        /\ \A d \in Client \ {c} : serial'[d] = serial[d]
    BY <1>10 DEF Submit, CanSubmit, TypeInv
  <2>3. m.op # "inspect" /\ \A d : (Names(m, d) => d = c) /\ ~IsAttach(m, d)
    BY <2>1 DEF Names, IsCall, IsAttach
  <2> QED BY <2>1, <2>2, <2>3, ClientPosts
<1> QED BY <1>1, <1>2, <1>3, <1>4, <1>5, <1>6, <1>7, <1>8, <1>9, <1>10
        DEF Environment, AnyClientStep

\* The actor takes nothing from the mailbox
LEMMA ClientRests ==
  ASSUME TypeInv, ClientInv, UNCHANGED <<clientVars, mailbox>>,
         documents' \subseteq documents, inspections' \subseteq inspections,
         \A c \in Client \ documents :
           handled'[c] = handled[c] /\ (events[c] = <<>> => events'[c] = <<>>)
  PROVE  ClientInv'
<1>1. UNCHANGED <<client, serial, answered, mailbox>>
  BY DEF clientVars
<1>2. \A c \in Client : Fresh(c)' <=> Fresh(c)
  BY <1>1 DEF Fresh
<1>3. \A c \in Client : Gone(c)' <=> Gone(c)
  BY <1>1 DEF Gone
<1>4. \A c \in Client : Fresh(c)' =>
       /\ c \notin documents' /\ handled'[c] = 0 /\ answered'[c] = 0 /\ events'[c] = <<>>
       /\ \A r \in inspections' : c \notin r.gone
  BY <1>1, <1>2 DEF ClientInv
<1>5. \A i \in DOMAIN mailbox' : mailbox'[i].op = "inspect" => \A c \in mailbox'[i].gone : Gone(c)'
  BY <1>1 DEF ClientInv, Gone
<1>6. \A r \in inspections' : \A c \in r.gone : Gone(c)'
  BY <1>1 DEF ClientInv, Gone
<1> QED BY <1>1, <1>4, <1>5, <1>6 DEF ClientInv

\* The actor takes the first message
LEMMA ClientTakes ==
  ASSUME TypeInv, ClientInv, UNCHANGED <<clientVars, handled, events>>,
         mailbox # <<>>, mailbox' = Tail(mailbox),
         \A c \in documents' \ documents : IsAttach(mailbox[1], c),
         inspections' = inspections \/ (mailbox[1].op = "inspect"
                                          /\ inspections' = inspections \cup {mailbox[1]})
  PROVE  ClientInv'
<1>1. UNCHANGED <<client, serial, answered>>
  BY DEF clientVars
<1>2. /\ 1 \in DOMAIN mailbox /\ DOMAIN mailbox = 1..Len(mailbox) /\ Len(mailbox) \in Nat
      /\ \A i \in DOMAIN mailbox' : i \in Nat \ {0} /\ i + 1 \in DOMAIN mailbox
                                    /\ mailbox'[i] = mailbox[i + 1]
  BY Taking DEF TypeInv
<1>3. ASSUME NEW c \in Client, Fresh(c)' PROVE Fresh(c) /\ ~Names(mailbox[1], c)
  <2>1. CASE client'[c] = "unattached"
    BY <1>1, <1>2, <2>1 DEF Fresh, ClientInv
  <2>2. CASE \E i \in DOMAIN mailbox' : IsAttach(mailbox'[i], c)
    <3>1. PICK i \in DOMAIN mailbox' : IsAttach(mailbox[i + 1], c)
      BY <1>2, <2>2
    <3>2. i \in Nat \ {0} /\ i + 1 \in DOMAIN mailbox /\ ~(i + 1 <= 1)
      BY <1>2, <3>1
    <3> QED BY <1>2, <3>1, <3>2 DEF Fresh, ClientInv
  <2> QED BY <1>3, <2>1, <2>2 DEF Fresh
<1>4. \A c \in Client : client'[c] = "unattached" =>
        serial'[c] = 0 /\ \A i \in DOMAIN mailbox' : ~Names(mailbox'[i], c)
  BY <1>1, <1>2 DEF ClientInv
<1>5. ASSUME NEW c \in Client, NEW i \in DOMAIN mailbox', NEW j \in DOMAIN mailbox',
             IsAttach(mailbox'[i], c), Names(mailbox'[j], c)
      PROVE  i <= j
  <2>1. i + 1 \in DOMAIN mailbox /\ j + 1 \in DOMAIN mailbox /\ i \in Nat /\ j \in Nat
        /\ IsAttach(mailbox[i + 1], c) /\ Names(mailbox[j + 1], c)
    BY <1>2, <1>5
  <2>2. i + 1 <= j + 1
    BY <2>1 DEF ClientInv
  <2> QED BY <2>1, <2>2
<1>6. ASSUME NEW c \in Client, Fresh(c)'
      PROVE  /\ c \notin documents' /\ handled'[c] = 0 /\ answered'[c] = 0 /\ events'[c] = <<>>
             /\ \A r \in inspections' : c \notin r.gone
  <2>1. Fresh(c) /\ ~Names(mailbox[1], c)
    BY <1>3, <1>6
  <2>2. c \notin documents' /\ handled'[c] = 0 /\ answered'[c] = 0 /\ events'[c] = <<>>
    BY <1>1, <2>1 DEF ClientInv, Names
  <2>3. \A r \in inspections' : c \notin r.gone
    BY <2>1 DEF ClientInv, Names
  <2> QED BY <2>2, <2>3
<1>7. \A i \in DOMAIN mailbox' : mailbox'[i].op = "inspect" => \A c \in mailbox'[i].gone : Gone(c)'
  BY <1>1, <1>2 DEF ClientInv, Gone
<1>8. \A r \in inspections' : \A c \in r.gone : Gone(c)'
  BY <1>1, <1>2 DEF ClientInv, Gone
<1> QED BY <1>4, <1>5, <1>6, <1>7, <1>8 DEF ClientInv

\* What is flushed or sent leaves the events of clients without a lane alone
LEMMA EventsStay ==
  ASSUME TypeInv, LaneInv, FlushAll \/ Execute, NEW c \in Client \ documents
  PROVE  events'[c] = events[c]
<1>1. c \notin sinks /\ pending[c] = <<>>
  BY DEF LaneInv
<1>2. CASE FlushAll
  BY <1>1, <1>2, Flushing
<1>3. CASE Execute
  <2>1. PICK e \in EventRecord : job \in Job /\ SendEvent(e)
    BY <1>3, Executing
  <2> QED BY <1>1, <2>1, Sending
<1> QED BY <1>2, <1>3

\* The actor, which takes messages in their order, keeps ClientInv
LEMMA ClientActor == TypeInv /\ ClientInv /\ LaneInv /\ ActorStep => ClientInv'
<1> SUFFICES ASSUME TypeInv, ClientInv, LaneInv, ActorStep PROVE ClientInv'
  OBVIOUS
<1>1. UNCHANGED clientVars
  BY Inside
<1>2. CASE Top \/ DrainEmpty \/ ReapDone \/ Reply
  <2>1. UNCHANGED <<mailbox, documents, handled, events>> /\ inspections' \subseteq inspections
    BY <1>2 DEF Top, DrainEmpty, ReapDone, Reply, channelVars, laneVars
  <2> QED BY <1>1, <2>1, ClientRests
<1>3. CASE IngestStep
  <2>1. mailbox # <<>> /\ mailbox' = Tail(mailbox) /\ UNCHANGED <<handled, events>>
    BY <1>3 DEF IngestStep, IngestAttach, IngestLoad, IngestSave, IngestInspect, IngestWake,
                IngestShutdown, Ingest
  <2>2. Head(mailbox) = mailbox[1]
    BY <2>1, Taking DEF TypeInv
  <2>3. \A c \in documents' \ documents : IsAttach(mailbox[1], c)
    BY <1>3, <2>2
       DEF IngestStep, IngestAttach, IngestLoad, IngestSave, IngestInspect, IngestWake,
           IngestShutdown, Ingest, IsAttach, laneVars
  <2>4. inspections' = inspections \/ (mailbox[1].op = "inspect"
                                         /\ inspections' = inspections \cup {mailbox[1]})
    BY <1>3, <2>2
       DEF IngestStep, IngestAttach, IngestLoad, IngestSave, IngestInspect, IngestWake,
           IngestShutdown, Ingest
  <2> QED BY <1>1, <2>1, <2>3, <2>4, ClientTakes
<1>4. ASSUME NEW c \in Client, Reap(c) PROVE ClientInv'
  <2>1. UNCHANGED <<mailbox, documents, handled, events, inspections>>
    BY <1>4 DEF Reap, channelVars
  <2> QED BY <1>1, <2>1, ClientRests
<1>5. CASE Select \/ Wait
  <2>1. UNCHANGED <<mailbox, documents, handled, inspections>> /\ FlushAll
    BY <1>5 DEF Select, Wait
  <2> QED BY <1>1, <2>1, EventsStay, ClientRests
<1>6. CASE Execute
  <2>1. UNCHANGED <<mailbox, documents, inspections>>
        /\ job.client \in Client /\ handled' = [handled EXCEPT ![job.client] = job.op.serial]
        /\ pc = "store"
    BY <1>6, Executing
  <2>2. job.client \in documents
    BY <2>1 DEF LaneInv, ReadyAgrees
  <2>3. \A c \in Client \ documents : handled'[c] = handled[c] /\ events'[c] = events[c]
    BY <1>6, <2>1, <2>2, EventsStay DEF TypeInv
  <2> QED BY <1>1, <2>1, <2>3, ClientRests
<1>7. CASE DetachLane
  <2>1. UNCHANGED <<mailbox, handled, inspections, events>> /\ documents' \subseteq documents
    BY <1>7 DEF DetachLane, channelVars
  <2> QED BY <1>1, <2>1, ClientRests
<1> QED BY <1>2, <1>3, <1>4, <1>5, <1>6, <1>7 DEF ActorStep, StoreStep, Execute

\* Every step keeps ClientInv
LEMMA ClientNext == TypeInv /\ ClientInv /\ LaneInv /\ [AnyNext]_vars => ClientInv'
<1> SUFFICES ASSUME TypeInv, ClientInv, LaneInv, [AnyNext]_vars PROVE ClientInv'
  OBVIOUS
<1>1. CASE Stopped \/ UNCHANGED vars
  BY <1>1 DEF Stopped, vars, clientVars, channelVars, actorVars, laneVars, ClientInv, Fresh, Gone
<1> QED BY <1>1, ClientOutside, ClientActor DEF AnyNext

-----------------------------------------------------------------------------
(* Closing, shutdown and the leases of dropped clients *)

\* A lane that is closing stays so until it goes
LEMMA ClosingStays ==
  ASSUME TypeInv, ClientInv, LaneInv, ActorStep,
         NEW c \in documents, c \in documents', lane[c].closing
  PROVE  lane'[c].closing
<1>1. c \in Client /\ documents \in SUBSET Client
  BY DEF TypeInv
<1>2. CASE Top \/ DrainEmpty \/ ReapDone \/ Reply \/ IngestInspect \/ IngestWake \/ Wait
  BY <1>2 DEF Top, DrainEmpty, ReapDone, Reply, IngestInspect, IngestWake, Wait, laneVars
<1>3. CASE IngestAttach
  BY <1>3, Attaching
<1>4. CASE IngestLoad \/ IngestSave
  <2>1. PICK d \in Client :
          /\ Open(d) => \E ops \in Seq(Operation) : Schedule({d}, [lane EXCEPT ![d].ops = ops])
          /\ ~Open(d) => UNCHANGED <<lane, ready, readySet>>
    BY <1>4, Calling
  <2>2. CASE Open(d)
    <3>1. PICK ops \in Seq(Operation) : Schedule({d}, [lane EXCEPT ![d].ops = ops])
      BY <2>1, <2>2
    <3> DEFINE L == [lane EXCEPT ![d].ops = ops]
    <3>2. lane \in [Client -> Lane] /\ ready \in Seq(Client) /\ readySet \in SUBSET Client
          /\ {d} \in SUBSET Client
      BY DEF TypeInv
    <3>3. L \in [Client -> Lane] /\ \A b \in Client \ {d} : L[b] = lane[b]
      BY <3>2, NewOps, Zenon
    <3>4. Schedule({d}, L) /\ c # d
      BY <2>2, <3>1 DEF Open
    <3> HIDE DEF L
    <3>5. \A b \in Client : /\ lane'[b].ops = L[b].ops /\ lane'[b].closing = L[b].closing
                            /\ lane'[b].scheduled = (L[b].scheduled \/ b \in Unscheduled({d}, L))
                            /\ b \notin {d} => lane'[b] = L[b]
      BY <3>2, <3>3, <3>4, Scheduling, Zenon
    <3> QED BY <1>1, <3>3, <3>4, <3>5
  <2> QED BY <2>1, <2>2
<1>5. CASE IngestShutdown
  <2>1. PICK S \in SUBSET documents :
          /\ S = {d \in documents : ~lane[d].closing} /\ Schedule(S, Closed(S))
          /\ pc # "store" /\ pc' # "store" /\ UNCHANGED documents
    BY <1>5 DEF IngestShutdown, Ingest
  <2>2. \A d \in Client \ S : lane'[d] = lane[d]
    BY <2>1, ClosesLanes
  <2> QED BY <1>1, <2>1, <2>2
<1>6. ASSUME NEW d \in Client, Reap(d) PROVE lane'[c].closing
  <2>1. CASE client[d] \in {"dropping", "dropped"} /\ ~lane[d].closing
    <3>1. /\ {d} \in SUBSET documents /\ Schedule({d}, Closed({d}))
          /\ pc # "store" /\ pc' # "store" /\ UNCHANGED documents
      BY <1>6, <2>1 DEF Reap, LaneInv
    <3>2. \A b \in Client \ {d} : lane'[b] = lane[b]
      BY <3>1, ClosesLanes
    <3> QED BY <1>1, <2>1, <3>2
  <2>2. CASE ~(client[d] \in {"dropping", "dropped"} /\ ~lane[d].closing)
    BY <1>6, <2>2 DEF Reap
  <2> QED BY <2>1, <2>2
<1>7. CASE Select
  <2>1. PICK d \in documents : d \in Client /\ lane'[d].closing = lane[d].closing
                               /\ \A b \in Client \ {d} : lane'[b] = lane[b]
    BY <1>7, Selecting
  <2> QED BY <1>1, <2>1
<1>8. CASE Execute
  <2>1. PICK d \in Client : lane'[d].closing = lane[d].closing
                            /\ \A b \in Client \ {d} : lane'[b] = lane[b]
    BY <1>8, Executing
  <2> QED BY <1>1, <2>1
<1>9. CASE DetachLane
  BY <1>1, <1>9 DEF DetachLane, TypeInv
<1> QED BY <1>2, <1>3, <1>4, <1>5, <1>6, <1>7, <1>8, <1>9
        DEF ActorStep, IngestStep, StoreStep, Execute

\* The service does not start shut down
LEMMA ShutdownInit == Init => ShutdownInv
<1> SUFFICES ASSUME Init PROVE ShutdownInv
  OBVIOUS
<1>1. mailbox = <<>> /\ DOMAIN mailbox = {} /\ ~shuttingDown /\ pc = "top"
  BY DEF Init
<1> QED BY <1>1 DEF ShutdownInv

\* Nothing is posted behind the shutdown message
LEMMA ShutdownOutside == TypeInv /\ ShutdownInv /\ (Environment \/ AnyClientStep) => ShutdownInv'
<1> SUFFICES ASSUME TypeInv, ShutdownInv, Environment \/ AnyClientStep PROVE ShutdownInv'
  OBVIOUS
<1>1. UNCHANGED <<pc, shuttingDown, documents, lane, ready>>
  BY Outside DEF actorVars, laneVars
<1> DEFINE Still == UNCHANGED mailbox /\ (handle' # "shutdown" => handle # "shutdown")
           Posted == \E m \in Message : /\ mailbox' = Append(mailbox, m) /\ handle # "shutdown"
                                        /\ m.op = "shutdown" => handle' = "shutdown"
<1>2. ASSUME Still PROVE ShutdownInv'
  BY <1>1, <1>2 DEF ShutdownInv
<1>3. ASSUME Posted PROVE ShutdownInv'
  <2>1. PICK m \in Message : /\ mailbox' = Append(mailbox, m) /\ handle # "shutdown"
                             /\ m.op = "shutdown" => handle' = "shutdown"
    BY <1>3
  <2>2. /\ Len(mailbox) \in Nat /\ Len(mailbox') = Len(mailbox) + 1
        /\ DOMAIN mailbox = 1..Len(mailbox) /\ DOMAIN mailbox' = 1..(Len(mailbox) + 1)
        /\ \A i \in DOMAIN mailbox : mailbox'[i] = mailbox[i]
        /\ mailbox'[Len(mailbox) + 1] = m
    BY <2>1, Posting DEF TypeInv
  <2>3. ~shuttingDown /\ \A i \in DOMAIN mailbox : mailbox[i].op # "shutdown"
    BY <2>1 DEF ShutdownInv
  <2>4. \A i \in DOMAIN mailbox' : mailbox'[i].op = "shutdown" => i = Len(mailbox') /\ m.op = "shutdown"
    <3>1. \A i \in DOMAIN mailbox' : i \in DOMAIN mailbox \/ i = Len(mailbox) + 1
      BY <2>2
    <3> QED BY <2>2, <2>3, <3>1
  <2>5. pc # "stopped"
    BY <2>3 DEF ShutdownInv
  <2> QED BY <1>1, <2>1, <2>3, <2>4, <2>5 DEF ShutdownInv
<1>4. ASSUME NEW c \in Client, Attach(c) PROVE Posted
  BY <1>4, Posts DEF Attach, Post
<1>5. ASSUME NEW c \in Client, SendWake(c) PROVE Still \/ Posted
  BY <1>5, Posts DEF SendWake
<1>6. ASSUME NEW c \in Client, StopListening(c) PROVE Still
  BY <1>6 DEF StopListening, clientVars
<1>7. ASSUME Inspect PROVE Posted
  <2> DEFINE m == [op |-> "inspect", gone |-> {c \in Client : client[c] \in {"dropping", "dropped"}}]
  <2>1. m \in Message /\ m.op # "shutdown" /\ mailbox' = Append(mailbox, m) /\ handle # "shutdown"
    BY <1>7, Posts DEF Inspect, Post
  <2> QED BY <2>1
<1>8. ReleaseHandle => Still
  BY DEF ReleaseHandle, channelVars
<1>9. SendShutdown => Posted
  BY Posts DEF SendShutdown, Post
<1>10. ASSUME NEW p \in Path, NEW m \in Foreign, ForeignSave(p, m) PROVE Still
  BY <1>10 DEF ForeignSave, channelVars, clientVars
<1>11. ASSUME NEW c \in Client, DropClient(c) PROVE Still
  BY <1>11 DEF DropClient, channelVars
<1>12. ASSUME NEW c \in Client, Receive(c) PROVE Still
  BY <1>12 DEF Receive
<1>13. ASSUME NEW c \in Client, NEW request \in Request, Submit(c, request) PROVE Posted
  <2>1. /\ Numbered(c, request) \in Message /\ Numbered(c, request).op # "shutdown"
        /\ mailbox' = Append(mailbox, Numbered(c, request)) /\ handle # "shutdown"
    BY <1>13, SubmitPosts DEF Submit, Post, CanSubmit
  <2> QED BY <2>1
<1>14. Still \/ Posted
  <2> HIDE DEF Still, Posted
  <2> QED BY <1>4, <1>5, <1>6, <1>7, <1>8, <1>9, <1>10, <1>11, <1>12, <1>13
          DEF Environment, AnyClientStep
<1> QED BY <1>2, <1>3, <1>14

\* Shutdown closes every lane, and the actor stops only when no lane is ready
LEMMA ShutdownActor == TypeInv /\ ClientInv /\ LaneInv /\ ShutdownInv /\ ActorStep => ShutdownInv'
<1> SUFFICES ASSUME TypeInv, ClientInv, LaneInv, ShutdownInv, ActorStep PROVE ShutdownInv'
  OBVIOUS
<1>1. UNCHANGED handle
  BY Inside DEF clientVars
<1>2. CASE IngestStep
  <2>1. /\ mailbox # <<>> /\ mailbox' = Tail(mailbox) /\ pc' = "drain"
        /\ IngestShutdown \/ UNCHANGED shuttingDown
    BY <1>2 DEF IngestStep, IngestAttach, IngestLoad, IngestSave, IngestInspect, IngestWake,
                IngestShutdown, Ingest
  <2>2. /\ mailbox' \in Seq(Message) /\ Len(mailbox) \in Nat \ {0} /\ Head(mailbox) = mailbox[1]
        /\ DOMAIN mailbox = 1..Len(mailbox) /\ DOMAIN mailbox' = 1..(Len(mailbox) - 1)
        /\ \A i \in DOMAIN mailbox' : i + 1 \in DOMAIN mailbox /\ mailbox'[i] = mailbox[i + 1]
    BY <2>1, Taking DEF TypeInv
  <2>3. Len(mailbox') = Len(mailbox) - 1
    BY <2>1, Taking DEF TypeInv
  <2>4. ~shuttingDown
    BY <2>1 DEF ShutdownInv
  <2>5. \A i \in DOMAIN mailbox' : mailbox'[i].op = "shutdown" => i = Len(mailbox')
    BY <2>2, <2>3 DEF ShutdownInv
  <2>6. handle' # "shutdown" => \A i \in DOMAIN mailbox' : mailbox'[i].op # "shutdown"
    BY <1>1, <2>2 DEF ShutdownInv
  <2>7. CASE IngestShutdown
    <3>1. mailbox[1].op = "shutdown" /\ 1 \in DOMAIN mailbox
      BY <2>2, <2>7 DEF IngestShutdown, Ingest
    <3>2. Len(mailbox) = 1 /\ handle = "shutdown"
      BY <3>1 DEF ShutdownInv
    <3>3. mailbox' = <<>>
      BY <2>2, <2>3, <3>2, EmptySeq
    <3>4. PICK S \in SUBSET documents :
            /\ S = {d \in documents : ~lane[d].closing} /\ Schedule(S, Closed(S))
            /\ pc # "store" /\ pc' # "store" /\ UNCHANGED documents
      BY <2>7 DEF IngestShutdown, Ingest
    <3>5. \A c \in S : lane'[c].closing = TRUE
      BY <3>4, ClosesLanes
    <3>6. \A c \in documents' : lane'[c].closing
      <4>1. \A c \in documents \ S : lane[c].closing
        BY <3>4
      <4> QED BY <3>4, <3>5, <4>1, ClosingStays
    <3> QED BY <1>1, <2>1, <2>5, <3>2, <3>3, <3>6 DEF ShutdownInv
  <2>8. CASE UNCHANGED shuttingDown
    BY <1>1, <2>1, <2>4, <2>5, <2>6, <2>8 DEF ShutdownInv
  <2> QED BY <2>1, <2>7, <2>8
<1>3. ASSUME UNCHANGED <<mailbox, shuttingDown>>, documents' \subseteq documents,
             pc' = "stopped" => shuttingDown, pc' \in {"reply", "stopped"} => ready' = <<>>
      PROVE  ShutdownInv'
  <2>1. \A c \in documents' : lane[c].closing => lane'[c].closing
    BY <1>3, ClosingStays
  <2> QED BY <1>1, <1>3, <2>1 DEF ShutdownInv
<1>4. CASE Top \/ DrainEmpty \/ ReapDone \/ Reply
  <2>1. /\ UNCHANGED <<mailbox, shuttingDown, documents, ready>>
        /\ pc' = "stopped" => shuttingDown
        /\ pc' \in {"reply", "stopped"} => pc = "reply"
    BY <1>4 DEF Top, DrainEmpty, ReapDone, Reply, laneVars, channelVars
  <2> QED BY <1>3, <2>1 DEF ShutdownInv
<1>5. ASSUME NEW c \in Client, Reap(c) PROVE ShutdownInv'
  <2>1. UNCHANGED <<mailbox, shuttingDown, documents>> /\ pc' = "reap"
    BY <1>5 DEF Reap, channelVars
  <2> QED BY <1>3, <2>1
<1>6. CASE Select \/ Execute \/ DetachLane
  <2>1. /\ UNCHANGED <<mailbox, shuttingDown>> /\ documents' \subseteq documents
        /\ pc' \in {"store", "top"}
    BY <1>6, Executing DEF Select, DetachLane, channelVars
  <2> QED BY <1>3, <2>1
<1>7. CASE Wait
  <2>1. /\ UNCHANGED <<mailbox, shuttingDown, documents>> /\ ready' = Rotation
        /\ pc' \in {"top", "reply"} /\ \A c \in ToSet(ready) : ~Eligible(c)
        /\ pc' = "reply" => ready = <<>> \/ shuttingDown
    BY <1>7 DEF Wait
  <2>2. shuttingDown => ready = <<>>
    <3> SUFFICES ASSUME shuttingDown, ready # <<>> PROVE FALSE
      OBVIOUS
    <3>1. ready \in Seq(Client) /\ ToSet(ready) = readySet /\ readySet \subseteq documents
      BY DEF TypeInv, LaneInv, ReadyAgrees
    <3>2. 1 \in DOMAIN ready
      BY <3>1
    <3>3. ready[1] \in ToSet(ready)
      BY <3>2 DEF ToSet
    <3>4. lane[ready[1]].closing
      BY <3>1, <3>3 DEF ShutdownInv
    <3> QED BY <2>1, <3>3, <3>4 DEF Eligible
  <2>3. ready = <<>> => Rotation = <<>>
    BY DEF Rotation
  <2>4. pc' \in {"reply", "stopped"} => ready' = <<>>
    BY <2>1, <2>2, <2>3
  <2> QED BY <1>3, <2>1, <2>4
<1> QED BY <1>2, <1>4, <1>5, <1>6, <1>7 DEF ActorStep, StoreStep, Execute

\* Every step keeps ShutdownInv
LEMMA ShutdownNext ==
  TypeInv /\ ClientInv /\ LaneInv /\ ShutdownInv /\ [AnyNext]_vars => ShutdownInv'
<1> SUFFICES ASSUME TypeInv, ClientInv, LaneInv, ShutdownInv, [AnyNext]_vars PROVE ShutdownInv'
  OBVIOUS
<1>1. CASE Stopped \/ UNCHANGED vars
  BY <1>1 DEF Stopped, vars, clientVars, channelVars, actorVars, laneVars, ShutdownInv
<1> QED BY <1>1, ShutdownOutside, ShutdownActor DEF AnyNext

\* No inspection is open at the start
LEMMA GoneInit == Init => GoneInv
BY DEF Init, GoneInv

\* The lanes of clients called gone are closed before an inspection is answered
LEMMA GoneNext == TypeInv /\ ClientInv /\ LaneInv /\ GoneInv /\ [AnyNext]_vars => GoneInv'
<1> SUFFICES ASSUME TypeInv, ClientInv, LaneInv, GoneInv, [AnyNext]_vars PROVE GoneInv'
  OBVIOUS
<1>1. CASE Environment \/ AnyClientStep \/ Stopped \/ UNCHANGED vars
  <2>1. UNCHANGED actorVars
    BY <1>1, Outside DEF Stopped, vars
  <2> QED BY <2>1 DEF GoneInv, actorVars, laneVars
<1>2. CASE Top \/ IngestStep \/ Reply \/ Select \/ StoreStep
  <2>1. pc' \notin {"reap", "select", "reply"}
    BY <1>2, Executing
       DEF Top, IngestStep, IngestAttach, IngestLoad, IngestSave, IngestInspect, IngestWake,
           IngestShutdown, Ingest, Reply, Select, StoreStep, Execute, DetachLane
  <2> QED BY <2>1 DEF GoneInv
<1>3. CASE DrainEmpty
  <2>1. pc' = "reap" /\ reaping' = documents /\ UNCHANGED documents
    BY <1>3 DEF DrainEmpty, laneVars
  <2> QED BY <2>1 DEF GoneInv
<1>4. CASE ReapDone \/ Wait
  <2>1. /\ UNCHANGED <<documents, lane, inspections>>
        /\ pc' \in {"select", "reply", "top"}
        /\ (pc = "reap" /\ reaping = {}) \/ pc = "select"
    BY <1>4 DEF ReapDone, Wait, laneVars
  <2> QED BY <2>1 DEF GoneInv
<1>5. ASSUME NEW d \in Client, Reap(d) PROVE GoneInv'
  <2>1. UNCHANGED <<documents, inspections>> /\ pc = "reap" /\ pc' = "reap" /\ reaping' = reaping \ {d}
        /\ d \in reaping
    BY <1>5 DEF Reap
  <2>2. ActorStep
    BY <1>5 DEF ActorStep
  <2> SUFFICES ASSUME NEW r \in inspections, NEW c \in r.gone \cap documents
               PROVE  c \in reaping' \/ lane'[c].closing
    BY <2>1 DEF GoneInv
  <2>3. c \in reaping \/ lane[c].closing
    BY <2>1 DEF GoneInv
  <2>4. lane[c].closing => lane'[c].closing
    BY <2>1, <2>2, ClosingStays
  <2>5. CASE c = d /\ ~lane[c].closing
    <3>1. client[d] \in {"dropping", "dropped"} /\ d \in documents
      BY <2>5 DEF ClientInv, Gone
    <3>2. /\ {d} \in SUBSET documents /\ Schedule({d}, Closed({d}))
          /\ pc # "store" /\ pc' # "store" /\ UNCHANGED documents
      BY <1>5, <2>1, <2>5, <3>1 DEF Reap
    <3>3. \A b \in {d} : lane'[b].closing = TRUE
      BY <3>2, ClosesLanes
    <3> QED BY <2>5, <3>3
  <2> QED BY <2>1, <2>3, <2>4, <2>5
<1> QED BY <1>1, <1>2, <1>3, <1>4, <1>5 DEF AnyNext, ActorStep

\* The lane of a live client stays open while the service is not shutting down
LEMMA OpenStays ==
  ASSUME TypeInv, ClientInv, LaneInv, ActorStep,
         NEW c \in documents, ~lane[c].closing, client[c] = "live", ~shuttingDown'
  PROVE  c \in documents' /\ ~lane'[c].closing
<1>1. /\ c \in Client /\ documents \in SUBSET Client
      /\ lane[c].closing = FALSE
  BY LaneFields DEF TypeInv
<1>2. CASE Top \/ DrainEmpty \/ ReapDone \/ Reply \/ IngestInspect \/ IngestWake \/ Wait
  BY <1>2 DEF Top, DrainEmpty, ReapDone, Reply, IngestInspect, IngestWake, Wait, laneVars
<1>3. CASE IngestAttach
  BY <1>3, Attaching
<1>4. CASE IngestLoad \/ IngestSave
  <2>1. PICK d \in Client :
          /\ UNCHANGED documents
          /\ Open(d) => \E ops \in Seq(Operation) : Schedule({d}, [lane EXCEPT ![d].ops = ops])
          /\ ~Open(d) => UNCHANGED <<lane, ready, readySet>>
    BY <1>4, Calling
  <2>2. CASE Open(d)
    <3>1. PICK ops \in Seq(Operation) : Schedule({d}, [lane EXCEPT ![d].ops = ops])
      BY <2>1, <2>2
    <3> DEFINE L == [lane EXCEPT ![d].ops = ops]
    <3>2. lane \in [Client -> Lane] /\ ready \in Seq(Client) /\ readySet \in SUBSET Client
          /\ {d} \in SUBSET Client
      BY DEF TypeInv
    <3>3. /\ L \in [Client -> Lane] /\ L[d].closing = lane[d].closing
          /\ \A b \in Client \ {d} : L[b] = lane[b]
      BY <3>2, NewOps, Zenon
    <3>4. Schedule({d}, L)
      BY <3>1
    <3> HIDE DEF L
    <3>5. \A b \in Client : /\ lane'[b].ops = L[b].ops /\ lane'[b].closing = L[b].closing
                            /\ lane'[b].scheduled = (L[b].scheduled \/ b \in Unscheduled({d}, L))
                            /\ b \notin {d} => lane'[b] = L[b]
      BY <3>2, <3>3, <3>4, Scheduling, Zenon
    <3> QED BY <1>1, <2>1, <3>3, <3>5
  <2> QED BY <2>1, <2>2
<1>5. CASE IngestShutdown
  BY <1>5 DEF IngestShutdown
<1>6. ASSUME NEW d \in Client, Reap(d) PROVE c \in documents' /\ ~lane'[c].closing
  <2>1. CASE client[d] \in {"dropping", "dropped"} /\ ~lane[d].closing
    <3>1. /\ {d} \in SUBSET documents /\ Schedule({d}, Closed({d}))
          /\ pc # "store" /\ pc' # "store" /\ UNCHANGED documents
      BY <1>6, <2>1 DEF Reap, LaneInv
    <3>2. \A b \in Client \ {d} : lane'[b] = lane[b]
      BY <3>1, ClosesLanes
    <3> QED BY <1>1, <2>1, <3>1, <3>2
  <2>2. CASE ~(client[d] \in {"dropping", "dropped"} /\ ~lane[d].closing)
    BY <1>6, <2>2 DEF Reap
  <2> QED BY <2>1, <2>2
<1>7. CASE Select
  <2>1. PICK d \in documents : d \in Client /\ lane'[d].closing = lane[d].closing
                               /\ UNCHANGED documents
                               /\ \A b \in Client \ {d} : lane'[b] = lane[b]
    BY <1>7, Selecting
  <2> QED BY <1>1, <2>1
<1>8. CASE Execute
  <2>1. PICK d \in Client : lane'[d].closing = lane[d].closing
                            /\ UNCHANGED documents
                            /\ \A b \in Client \ {d} : lane'[b] = lane[b]
    BY <1>8, Executing
  <2> QED BY <1>1, <2>1
<1>9. CASE DetachLane
  <2>1. pc = "store" /\ job.op.op = "detach" /\ job.client \in Client
    BY <1>9, JobFields DEF DetachLane, TypeInv
  <2>2. c # job.client
    BY <2>1 DEF LaneInv, LaneClosing, AtWork
  <2> QED BY <1>1, <1>9, <2>2 DEF DetachLane, TypeInv
<1> QED BY <1>2, <1>3, <1>4, <1>5, <1>6, <1>7, <1>8, <1>9
        DEF ActorStep, IngestStep, StoreStep, Execute

\* The actor hears of a client by its attachment
LEMMA FreshStays ==
  ASSUME TypeInv, mailbox # <<>>, mailbox' = Tail(mailbox), UNCHANGED client,
         NEW c \in Client, Fresh(c), ~IsAttach(mailbox[1], c)
  PROVE  Fresh(c)'
<1>1. CASE client[c] = "unattached"
  BY <1>1 DEF Fresh
<1>2. CASE \E i \in DOMAIN mailbox : IsAttach(mailbox[i], c)
  <2>1. PICK i \in DOMAIN mailbox : IsAttach(mailbox[i], c)
    BY <1>2
  <2>2. /\ Len(mailbox) \in Nat \ {0} /\ DOMAIN mailbox = 1..Len(mailbox)
        /\ DOMAIN mailbox' = 1..(Len(mailbox) - 1)
        /\ \A j \in DOMAIN mailbox' : mailbox'[j] = mailbox[j + 1]
    BY Taking DEF TypeInv
  <2>3. i - 1 \in DOMAIN mailbox' /\ (i - 1) + 1 = i
    BY <2>1, <2>2
  <2>4. mailbox'[i - 1] = mailbox[i]
    BY <2>2, <2>3
  <2> QED BY <2>1, <2>3, <2>4 DEF Fresh
<1> QED BY <1>1, <1>2 DEF Fresh

\* No client is live at the start
LEMMA LiveInit == Init => LiveInv
BY DEF Init, LiveInv

\* What a client does takes its lane away from no live client
LEMMA LiveOutside == TypeInv /\ LiveInv /\ (Environment \/ AnyClientStep) => LiveInv'
<1> SUFFICES ASSUME TypeInv, LiveInv, Environment \/ AnyClientStep PROVE LiveInv'
  OBVIOUS
<1>1. UNCHANGED <<shuttingDown, documents, lane>>
  BY Outside DEF actorVars, laneVars
<1> DEFINE Kept == \A c \in Client : client'[c] = "live" /\ ~Fresh(c)' => client[c] = "live" /\ ~Fresh(c)
<1>2. ASSUME NEW m \in Message, mailbox' = Append(mailbox, m)
      PROVE  \A c \in Client : (\E i \in DOMAIN mailbox : IsAttach(mailbox[i], c)) \/ IsAttach(m, c)
               => \E i \in DOMAIN mailbox' : IsAttach(mailbox'[i], c)
  <2>1. /\ Len(mailbox) \in Nat
        /\ DOMAIN mailbox = 1..Len(mailbox) /\ DOMAIN mailbox' = 1..(Len(mailbox) + 1)
        /\ \A i \in DOMAIN mailbox : mailbox'[i] = mailbox[i]
        /\ mailbox'[Len(mailbox) + 1] = m
    BY <1>2, Posting DEF TypeInv
  <2>2. Len(mailbox) + 1 \in DOMAIN mailbox' /\ \A i \in DOMAIN mailbox : i \in DOMAIN mailbox'
    BY <2>1
  <2> QED BY <2>1, <2>2
<1>3. ASSUME NEW c \in Client, Attach(c) PROVE Kept
  <2> DEFINE m == [op |-> "attach", client |-> c]
  <2>1. m \in Message /\ mailbox' = Append(mailbox, m) /\ IsAttach(m, c)
        /\ client' = [client EXCEPT ![c] = "live"]
    BY <1>3, Posts DEF Attach, Post, IsAttach
  <2> HIDE DEF m
  <2>2. \A d \in Client \ {c} : client'[d] = client[d]
    BY <2>1 DEF TypeInv
  <2>3. Fresh(c)'
    BY <1>2, <2>1 DEF Fresh
  <2>4. \A d \in Client \ {c} : Fresh(d) => Fresh(d)'
    BY <1>2, <2>1, <2>2 DEF Fresh
  <2> QED BY <2>2, <2>3, <2>4
<1>4. ASSUME \A c \in Client : client'[c] \in {"live", "unattached"} => client'[c] = client[c],
             mailbox' = mailbox \/ \E m \in Message : mailbox' = Append(mailbox, m)
      PROVE  Kept
  <2> SUFFICES ASSUME NEW c \in Client, client'[c] = "live", Fresh(c) PROVE Fresh(c)'
    BY <1>4
  <2>1. \E i \in DOMAIN mailbox : IsAttach(mailbox[i], c)
    BY <1>4 DEF Fresh
  <2>2. CASE mailbox' = mailbox
    BY <2>1, <2>2 DEF Fresh
  <2>3. CASE \E m \in Message : mailbox' = Append(mailbox, m)
    BY <1>2, <2>1, <2>3 DEF Fresh
  <2> QED BY <1>4, <2>2, <2>3
<1>5. ASSUME NEW c \in Client, SendWake(c) PROVE Kept
  <2>1. client' = [client EXCEPT ![c] = "dropped"]
        /\ (mailbox' = mailbox \/ \E m \in Message : mailbox' = Append(mailbox, m))
    BY <1>5, Posts DEF SendWake
  <2>2. \A d \in Client : client'[d] \in {"live", "unattached"} => client'[d] = client[d]
    BY <2>1 DEF TypeInv
  <2> QED BY <1>4, <2>1, <2>2
<1>6. ASSUME NEW c \in Client, DropClient(c) PROVE Kept
  <2>1. client' = [client EXCEPT ![c] = "dropping"] /\ UNCHANGED mailbox
    BY <1>6 DEF DropClient, channelVars
  <2>2. \A d \in Client : client'[d] \in {"live", "unattached"} => client'[d] = client[d]
    BY <2>1 DEF TypeInv
  <2> QED BY <1>4, <2>1, <2>2
<1>7. ASSUME UNCHANGED client, mailbox' = mailbox \/ \E m \in Message : mailbox' = Append(mailbox, m)
      PROVE Kept
  BY <1>4, <1>7
<1>8. ASSUME Inspect PROVE Kept
  <2> DEFINE m == [op |-> "inspect", gone |-> {c \in Client : client[c] \in {"dropping", "dropped"}}]
  <2>1. m \in Message /\ mailbox' = Append(mailbox, m) /\ UNCHANGED client
    BY <1>8, Posts DEF Inspect, Post
  <2> HIDE DEF Kept, m
  <2> QED BY <1>7, <2>1
<1>9. ASSUME SendShutdown PROVE Kept
  BY <1>7, <1>9, Posts DEF SendShutdown, Post
<1>10. ASSUME NEW c \in Client, NEW request \in Request, Submit(c, request) PROVE Kept
  <2>1. Numbered(c, request) \in Message /\ mailbox' = Append(mailbox, Numbered(c, request))
        /\ UNCHANGED client
    BY <1>10, SubmitPosts DEF Submit, Post
  <2> HIDE DEF Kept
  <2> QED BY <1>7, <2>1
<1>11. ASSUME NEW c \in Client, StopListening(c) \/ Receive(c) PROVE Kept
  <2>1. UNCHANGED <<client, mailbox>>
    BY <1>11 DEF StopListening, Receive, clientVars
  <2> QED BY <1>7, <2>1
<1>12. ASSUME ReleaseHandle \/ \E p \in Path, m \in Foreign : ForeignSave(p, m) PROVE Kept
  <2>1. UNCHANGED <<client, mailbox>>
    BY <1>12 DEF ReleaseHandle, ForeignSave, clientVars, channelVars
  <2> QED BY <1>7, <2>1
<1>13. Kept
  <2> HIDE DEF Kept
  <2> QED BY <1>3, <1>5, <1>6, <1>8, <1>9, <1>10, <1>11, <1>12 DEF Environment, AnyClientStep
<1> QED BY <1>1, <1>13 DEF LiveInv

\* The actor closes only the lanes of clients that are dropped, or all in a shutdown
LEMMA LiveActor == TypeInv /\ ClientInv /\ LaneInv /\ LiveInv /\ ActorStep => LiveInv'
<1> SUFFICES ASSUME TypeInv, ClientInv, LaneInv, LiveInv, ActorStep,
                    NEW c \in Client, client'[c] = "live", ~Fresh(c)', ~shuttingDown'
             PROVE  c \in documents' /\ ~lane'[c].closing
  BY DEF LiveInv
<1>1. UNCHANGED client
  BY Inside DEF clientVars
<1>2. CASE IngestStep
  <2>1. mailbox # <<>> /\ mailbox' = Tail(mailbox) /\ Head(mailbox) = mailbox[1]
        /\ (shuttingDown => shuttingDown')
    BY <1>2, Taking DEF IngestStep, IngestAttach, IngestLoad, IngestSave, IngestInspect, IngestWake,
                IngestShutdown, Ingest, TypeInv
  <2>2. CASE IsAttach(mailbox[1], c)
    <3>1. IngestAttach
      BY <1>2, <2>1, <2>2
         DEF IngestStep, IngestLoad, IngestSave, IngestInspect, IngestWake,
             IngestShutdown, Ingest, IsAttach
    <3>2. Head(mailbox).client = c
      BY <2>1, <2>2 DEF IsAttach
    <3>3. c \in documents' /\ lane'[c] = NewLane
      BY <3>1, <3>2, Attaching
    <3> QED BY <3>3, NewLaneIn
  <2>3. CASE ~IsAttach(mailbox[1], c)
    <3>1. ~Fresh(c)
      BY <1>1, <2>1, <2>3, FreshStays
    <3>2. c \in documents /\ ~lane[c].closing /\ client[c] = "live"
      BY <1>1, <2>1, <3>1 DEF LiveInv
    <3> QED BY <3>2, OpenStays
  <2> QED BY <2>2, <2>3
<1>3. CASE UNCHANGED <<mailbox, shuttingDown>>
  <2>1. ~Fresh(c)
    BY <1>1, <1>3 DEF Fresh
  <2>2. c \in documents /\ ~lane[c].closing /\ client[c] = "live"
    BY <1>1, <1>3, <2>1 DEF LiveInv
  <2> QED BY <2>2, OpenStays
<1>4. IngestStep \/ UNCHANGED <<mailbox, shuttingDown>>
  BY Executing DEF ActorStep, Top, DrainEmpty, Reap, ReapDone, Select, Wait, Reply, StoreStep, Execute,
         DetachLane, channelVars
<1> QED BY <1>2, <1>3, <1>4

\* Every step keeps LiveInv
LEMMA LiveNext == TypeInv /\ ClientInv /\ LaneInv /\ LiveInv /\ [AnyNext]_vars => LiveInv'
<1> SUFFICES ASSUME TypeInv, ClientInv, LaneInv, LiveInv, [AnyNext]_vars PROVE LiveInv'
  OBVIOUS
<1>1. CASE Stopped \/ UNCHANGED vars
  BY <1>1 DEF Stopped, vars, clientVars, channelVars, actorVars, laneVars, LiveInv, Fresh
<1> QED BY <1>1, LiveOutside, LiveActor DEF AnyNext

-----------------------------------------------------------------------------
(* The calls of a client stay in their order *)

\* No call is made at the start
LEMMA OrderInit == Init => OrderInv
<1> SUFFICES ASSUME Init PROVE OrderInv
  OBVIOUS
<1>1. /\ mailbox = <<>> /\ DOMAIN mailbox = {} /\ pc = "top"
      /\ serial = [c \in Client |-> 0] /\ handled = [c \in Client |-> 0]
      /\ lane = [c \in Client |-> NewLane]
  BY DEF Init
<1>2. \A c \in Client : lane[c].ops = <<>> /\ DOMAIN lane[c].ops = {}
  BY <1>1, NewLaneIn
<1> QED BY <1>1, <1>2 DEF OrderInv, CallsOrdered, NewestKept, AtWork

\* The numbers of a client's calls
LEMMA Numbers ==
  ASSUME TypeInv, NEW c \in Client
  PROVE  /\ serial[c] \in Nat /\ handled[c] \in Nat
         /\ lane[c].ops \in Seq(Operation) /\ Len(lane[c].ops) \in Nat
         /\ DOMAIN lane[c].ops = 1..Len(lane[c].ops)
         /\ Len(mailbox) \in Nat /\ DOMAIN mailbox = 1..Len(mailbox)
<1>1. lane[c] \in Lane /\ serial[c] \in Nat /\ handled[c] \in Nat
  BY CallAssumption DEF TypeInv
<1>2. lane[c].ops \in Seq(Operation) /\ mailbox \in Seq(Message)
  BY <1>1, LaneFields DEF TypeInv
<1> QED BY <1>1, <1>2, LenProperties

\* A message is posted
LEMMA OrderPosts ==
  ASSUME TypeInv, NEW c \in Client, CallsOrdered(c), NEW m \in Message,
         mailbox' = Append(mailbox, m), UNCHANGED actorVars,
         IF IsCall(m, c) THEN serial'[c] = serial[c] + 1 /\ m.serial = serial[c] + 1
                         ELSE serial'[c] = serial[c]
  PROVE  CallsOrdered(c)' /\ (NewestKept(c) \/ IsCall(m, c) => NewestKept(c)')
<1> DEFINE n == Len(mailbox)
           ops == lane[c].ops
           lo == handled[c] + 1
           hi == serial'[c]
<1>1. /\ n \in Nat /\ DOMAIN mailbox = 1..n /\ DOMAIN mailbox' = 1..(n + 1)
      /\ \A i \in 1..n : mailbox'[i] = mailbox[i]
      /\ mailbox'[n + 1] = m
  BY Posting DEF TypeInv
<1>2. /\ serial[c] \in Nat /\ handled[c] \in Nat /\ hi \in Nat /\ serial[c] <= hi
      /\ IsCall(m, c) => hi = serial[c] + 1 /\ m.serial = hi
      /\ handled[c] <= serial[c]
  BY Numbers DEF CallsOrdered
<1>3. UNCHANGED <<lane, handled, pc, job>> /\ (AtWork(c)' <=> AtWork(c))
  BY DEF actorVars, laneVars, AtWork
<1> HIDE DEF n
<1>4. /\ \A i \in 1..n : IsCall(mailbox[i], c) =>
           /\ mailbox[i].serial \in lo..serial[c]
           /\ \A j \in 1..n : i < j /\ IsCall(mailbox[j], c) => mailbox[i].serial < mailbox[j].serial
      /\ \A i \in DOMAIN ops : ops[i].op # "detach" =>
           /\ ops[i].serial \in lo..serial[c]
           /\ \A j \in DOMAIN ops : i < j /\ ops[j].op # "detach" => ops[i].serial < ops[j].serial
           /\ \A j \in 1..n : IsCall(mailbox[j], c) => ops[i].serial < mailbox[j].serial
      /\ AtWork(c) /\ job.op.op # "detach" =>
           /\ job.op.serial \in lo..serial[c]
           /\ \A j \in DOMAIN ops : ops[j].op # "detach" => job.op.serial < ops[j].serial
           /\ \A j \in 1..n : IsCall(mailbox[j], c) => job.op.serial < mailbox[j].serial
  BY <1>1 DEF CallsOrdered
<1>5. \A i \in DOMAIN mailbox' : (i \in 1..n /\ mailbox'[i] = mailbox[i]) \/ (i = n + 1 /\ mailbox'[i] = m)
  BY <1>1
<1> HIDE DEF ops, hi
<1>6. serial[c] < m.serial \/ ~IsCall(m, c)
  BY <1>2
<1>7. lo \in Nat /\ \A x \in lo..serial[c] : x \in lo..hi /\ (IsCall(m, c) => x < m.serial)
  BY <1>2
<1> HIDE DEF lo
<1>8. ASSUME NEW i \in DOMAIN mailbox', IsCall(mailbox'[i], c)
      PROVE  /\ mailbox'[i].serial \in lo..hi
             /\ \A j \in DOMAIN mailbox' :
                  i < j /\ IsCall(mailbox'[j], c) => mailbox'[i].serial < mailbox'[j].serial
  <2>1. CASE i \in 1..n /\ mailbox'[i] = mailbox[i]
    BY <1>4, <1>5, <1>7, <1>8, <2>1
  <2>2. CASE i = n + 1 /\ mailbox'[i] = m
    <3>1. m.serial \in lo..hi
      BY <1>2, <1>8, <2>2 DEF lo
    <3>2. \A j \in DOMAIN mailbox' : ~(i < j)
      BY <1>1, <2>2
    <3> QED BY <2>2, <3>1, <3>2
  <2> QED BY <1>5, <2>1, <2>2
<1>9. ASSUME NEW x \in lo..serial[c], \A j \in 1..n : IsCall(mailbox[j], c) => x < mailbox[j].serial
      PROVE  x \in lo..hi /\ \A j \in DOMAIN mailbox' : IsCall(mailbox'[j], c) => x < mailbox'[j].serial
  BY <1>5, <1>7, <1>9
<1>10. /\ \A i \in DOMAIN ops : ops[i].op # "detach" =>
           /\ ops[i].serial \in lo..hi
           /\ \A j \in DOMAIN ops : i < j /\ ops[j].op # "detach" => ops[i].serial < ops[j].serial
           /\ \A j \in DOMAIN mailbox' : IsCall(mailbox'[j], c) => ops[i].serial < mailbox'[j].serial
  BY <1>4, <1>9
<1>11. AtWork(c) /\ job.op.op # "detach" =>
           /\ job.op.serial \in lo..hi
           /\ \A j \in DOMAIN ops : ops[j].op # "detach" => job.op.serial < ops[j].serial
           /\ \A j \in DOMAIN mailbox' : IsCall(mailbox'[j], c) => job.op.serial < mailbox'[j].serial
  BY <1>4, <1>9
<1>12. ops = lane'[c].ops /\ lo = handled'[c] + 1 /\ hi = serial'[c]
  BY <1>3 DEF ops, lo, hi
<1>13. CallsOrdered(c)'
  <2>1. handled'[c] <= serial'[c]
    BY <1>2, <1>3 DEF hi
  <2> QED BY <1>3, <1>8, <1>10, <1>11, <1>12, <2>1 DEF CallsOrdered
<1>14. ASSUME NewestKept(c) \/ IsCall(m, c) PROVE NewestKept(c)'
  <2>1. CASE IsCall(m, c)
    <3>1. n + 1 \in DOMAIN mailbox' /\ IsCall(mailbox'[n + 1], c) /\ mailbox'[n + 1].serial = serial'[c]
      BY <1>1, <1>2, <2>1 DEF hi
    <3> QED BY <3>1 DEF NewestKept
  <2>2. CASE ~IsCall(m, c) /\ NewestKept(c)
    <3>1. serial'[c] = serial[c] /\ handled'[c] = handled[c] /\ lane'[c] = lane[c] /\ job' = job
      BY <1>3, <2>2
    <3>2. \A i \in DOMAIN mailbox : i \in DOMAIN mailbox' /\ mailbox'[i] = mailbox[i]
      BY <1>1
    <3> QED BY <1>3, <2>2, <3>1, <3>2 DEF NewestKept
  <2> QED BY <1>14, <2>1, <2>2
<1> QED BY <1>13, <1>14

\* A client's next call has the next serial and goes to the end of the mailbox
LEMMA OrderOutside == TypeInv /\ ClientInv /\ OrderInv /\ (Environment \/ AnyClientStep) => OrderInv'
<1> SUFFICES ASSUME TypeInv, ClientInv, OrderInv, Environment \/ AnyClientStep PROVE OrderInv'
  OBVIOUS
<1>1. UNCHANGED actorVars
  BY Outside
<1>2. UNCHANGED <<lane, handled, pc, job>>
  BY <1>1 DEF actorVars, laneVars
<1> DEFINE New(c) == client'[c] = "live" => client[c] = "live" \/ client[c] = "unattached"
           Still == UNCHANGED <<mailbox, serial>> /\ \A c \in Client : New(c)
           Posted(m) == /\ mailbox' = Append(mailbox, m)
                        /\ \A c \in Client :
                             /\ New(c)
                             /\ IF IsCall(m, c) THEN serial'[c] = serial[c] + 1 /\ m.serial = serial[c] + 1
                                                ELSE serial'[c] = serial[c]
<1>3. \A c \in Client : client[c] = "unattached" => NewestKept(c)
  BY DEF ClientInv, Fresh, NewestKept
<1>4. ASSUME Still PROVE OrderInv'
  <2>1. \A c \in Client : CallsOrdered(c)'
    BY <1>2, <1>4 DEF OrderInv, CallsOrdered, AtWork
  <2>2. ASSUME NEW c \in Client, client'[c] = "live" PROVE NewestKept(c)'
    <3>1. NewestKept(c)
      BY <1>3, <1>4, <2>2 DEF OrderInv
    <3> QED BY <1>2, <1>4, <3>1 DEF NewestKept, AtWork
  <2> QED BY <2>1, <2>2 DEF OrderInv
<1>5. ASSUME NEW m \in Message, Posted(m) PROVE OrderInv'
  <2> SUFFICES ASSUME NEW c \in Client PROVE CallsOrdered(c)' /\ (client'[c] = "live" => NewestKept(c)')
    BY DEF OrderInv
  <2>1. CallsOrdered(c)' /\ (NewestKept(c) \/ IsCall(m, c) => NewestKept(c)')
    <3>1. CallsOrdered(c)
      BY DEF OrderInv
    <3> QED BY <1>1, <1>5, <3>1, OrderPosts
  <2>2. client'[c] = "live" => NewestKept(c)
    BY <1>3, <1>5 DEF OrderInv
  <2> QED BY <2>1, <2>2
<1>6. ASSUME NEW c \in Client, Attach(c) PROVE OrderInv'
  <2> DEFINE m == [op |-> "attach", client |-> c]
  <2>1. m \in Message /\ mailbox' = Append(mailbox, m) /\ (\A d : ~IsCall(m, d)) /\ UNCHANGED serial
        /\ client[c] = "unattached" /\ client' = [client EXCEPT ![c] = "live"]
    BY <1>6, Posts DEF Attach, Post, IsCall
  <2> HIDE DEF m
  <2>2. \A d \in Client : New(d)
    BY <2>1 DEF TypeInv
  <2>3. Posted(m)
    BY <2>1, <2>2
  <2> HIDE DEF Posted
  <2> QED BY <1>5, <2>1, <2>3
<1>7. ASSUME NEW c \in Client, SendWake(c) PROVE OrderInv'
  <2> DEFINE m == [op |-> "wake"]
  <2>1. m \in Message /\ mailbox' \in {Append(mailbox, m), mailbox} /\ (\A d : ~IsCall(m, d)) /\ UNCHANGED serial
        /\ client' = [client EXCEPT ![c] = "dropped"]
    BY <1>7, Posts DEF SendWake, IsCall
  <2> HIDE DEF m
  <2>2. \A d \in Client : New(d)
    BY <2>1 DEF TypeInv
  <2>3. Posted(m) \/ Still
    BY <2>1, <2>2
  <2> HIDE DEF Posted, Still
  <2> QED BY <1>4, <1>5, <2>1, <2>3
<1>8. ASSUME Inspect PROVE OrderInv'
  <2> DEFINE m == [op |-> "inspect", gone |-> {c \in Client : client[c] \in {"dropping", "dropped"}}]
  <2>1. m \in Message /\ mailbox' = Append(mailbox, m) /\ (\A d : ~IsCall(m, d)) /\ UNCHANGED <<client, serial>>
    BY <1>8, Posts DEF Inspect, Post, IsCall
  <2> HIDE DEF m
  <2>2. Posted(m)
    BY <2>1
  <2> HIDE DEF Posted
  <2> QED BY <1>5, <2>1, <2>2
<1>9. ASSUME SendShutdown PROVE OrderInv'
  <2> DEFINE m == [op |-> "shutdown"]
  <2>1. m \in Message /\ mailbox' = Append(mailbox, m) /\ (\A d : ~IsCall(m, d)) /\ UNCHANGED <<client, serial>>
    BY <1>9, Posts DEF SendShutdown, Post, IsCall
  <2> HIDE DEF m
  <2>2. Posted(m)
    BY <2>1
  <2> HIDE DEF Posted
  <2> QED BY <1>5, <2>1, <2>2
<1>10. ASSUME NEW c \in Client, NEW request \in Request, Submit(c, request) PROVE OrderInv'
  <2> DEFINE m == Numbered(c, request)
  <2>1. /\ m \in Message /\ m.op \in {"load", "save"} /\ m.client = c /\ m.serial = serial[c] + 1
        /\ mailbox' = Append(mailbox, m) /\ UNCHANGED client
        /\ serial' = [serial EXCEPT ![c] = serial[c] + 1]
    BY <1>10, SubmitPosts DEF Submit, Post
  <2> HIDE DEF m
  <2>2. Posted(m)
    BY <2>1 DEF IsCall, TypeInv
  <2> HIDE DEF Posted
  <2> QED BY <1>5, <2>1, <2>2
<1>11. ASSUME NEW c \in Client, DropClient(c) PROVE Still
  <2>1. UNCHANGED <<mailbox, serial>> /\ client' = [client EXCEPT ![c] = "dropping"]
    BY <1>11 DEF DropClient, channelVars
  <2> QED BY <2>1 DEF TypeInv
<1>12. ASSUME NEW c \in Client, StopListening(c) \/ Receive(c) PROVE Still
  BY <1>12 DEF StopListening, Receive, clientVars
<1>13. ASSUME ReleaseHandle \/ \E p \in Path, m \in Foreign : ForeignSave(p, m) PROVE Still
  BY <1>13 DEF ReleaseHandle, ForeignSave, clientVars, channelVars
<1> HIDE DEF Still
<1> QED BY <1>4, <1>6, <1>7, <1>8, <1>9, <1>10, <1>11, <1>12, <1>13 DEF Environment, AnyClientStep

\* The mailbox without its first k messages
Shifted(k) ==
  /\ DOMAIN mailbox' = 1..(Len(mailbox) - k)
  /\ \A i \in DOMAIN mailbox' : i + k \in DOMAIN mailbox /\ mailbox'[i] = mailbox[i + k]

\* The lane of c keeps the calls it has
CallsStay(c) ==
  LET old == lane[c].ops
      new == lane'[c].ops
  IN /\ \A i \in DOMAIN new : new[i].op # "detach" => i \in DOMAIN old /\ new[i] = old[i]
     /\ \A i \in DOMAIN old : old[i].op # "detach" => i \in DOMAIN new /\ new[i] = old[i]

\* A step that leaves the calls of a client where they are keeps their order
LEMMA OrderKeeps ==
  ASSUME TypeInv, NEW c \in Client, CallsOrdered(c), NEW k \in {0, 1}, Shifted(k), CallsStay(c),
         serial'[c] = serial[c], handled'[c] = handled[c],
         AtWork(c)' => AtWork(c) /\ job' = job
  PROVE  /\ CallsOrdered(c)'
         /\ /\ NewestKept(c)
            /\ AtWork(c) /\ job.op.op # "detach" => AtWork(c)'
            /\ \A i \in DOMAIN mailbox : i <= k => ~IsCall(mailbox[i], c)
            => NewestKept(c)'
<1> DEFINE old == lane[c].ops
           new == lane'[c].ops
           N == (handled[c] + 1)..serial[c]
<1>1. /\ Len(mailbox) \in Nat /\ DOMAIN mailbox = 1..Len(mailbox)
      /\ DOMAIN old = 1..Len(old)
  BY Numbers
<1>2. /\ \A i \in DOMAIN mailbox' : i \in Nat /\ i + k \in DOMAIN mailbox /\ mailbox'[i] = mailbox[i + k]
      /\ \A i, j \in DOMAIN mailbox' : i < j => i + k < j + k
      /\ \A i \in DOMAIN mailbox : ~(i <= k) => i - k \in DOMAIN mailbox' /\ (i - k) + k = i
  BY <1>1 DEF Shifted
<1>3. /\ \A i \in DOMAIN new : new[i].op # "detach" => i \in DOMAIN old /\ new[i] = old[i]
      /\ \A i \in DOMAIN old : old[i].op # "detach" => i \in DOMAIN new /\ new[i] = old[i]
  BY DEF CallsStay
<1>4. /\ handled[c] <= serial[c]
      /\ \A i \in DOMAIN mailbox : IsCall(mailbox[i], c) =>
           /\ mailbox[i].serial \in N
           /\ \A j \in DOMAIN mailbox :
                i < j /\ IsCall(mailbox[j], c) => mailbox[i].serial < mailbox[j].serial
      /\ \A i \in DOMAIN old : old[i].op # "detach" =>
           /\ old[i].serial \in N
           /\ \A j \in DOMAIN old : i < j /\ old[j].op # "detach" => old[i].serial < old[j].serial
           /\ \A j \in DOMAIN mailbox : IsCall(mailbox[j], c) => old[i].serial < mailbox[j].serial
      /\ AtWork(c) /\ job.op.op # "detach" =>
           /\ job.op.serial \in N
           /\ \A j \in DOMAIN old : old[j].op # "detach" => job.op.serial < old[j].serial
           /\ \A j \in DOMAIN mailbox : IsCall(mailbox[j], c) => job.op.serial < mailbox[j].serial
  BY DEF CallsOrdered
<1> HIDE DEF old, new, N
<1>5. \A i \in DOMAIN mailbox' : IsCall(mailbox'[i], c) =>
           /\ mailbox'[i].serial \in N
           /\ \A j \in DOMAIN mailbox' :
                i < j /\ IsCall(mailbox'[j], c) => mailbox'[i].serial < mailbox'[j].serial
  BY <1>2, <1>4
<1>6. \A i \in DOMAIN new : new[i].op # "detach" =>
           /\ new[i].serial \in N
           /\ \A j \in DOMAIN new : i < j /\ new[j].op # "detach" => new[i].serial < new[j].serial
           /\ \A j \in DOMAIN mailbox' : IsCall(mailbox'[j], c) => new[i].serial < mailbox'[j].serial
  BY <1>2, <1>3, <1>4
<1>7. AtWork(c)' /\ job'.op.op # "detach" =>
           /\ job'.op.serial \in N
           /\ \A j \in DOMAIN new : new[j].op # "detach" => job'.op.serial < new[j].serial
           /\ \A j \in DOMAIN mailbox' : IsCall(mailbox'[j], c) => job'.op.serial < mailbox'[j].serial
  BY <1>2, <1>3, <1>4
<1>8. N = (handled'[c] + 1)..serial'[c]
  BY DEF N
<1>9. CallsOrdered(c)'
  BY <1>4, <1>5, <1>6, <1>7, <1>8 DEF CallsOrdered, new
<1>10. ASSUME NewestKept(c),
              AtWork(c) /\ job.op.op # "detach" => AtWork(c)',
              \A i \in DOMAIN mailbox : i <= k => ~IsCall(mailbox[i], c)
       PROVE  NewestKept(c)'
  <2>1. CASE serial[c] = handled[c]
    BY <2>1 DEF NewestKept
  <2>2. CASE \E i \in DOMAIN mailbox : IsCall(mailbox[i], c) /\ mailbox[i].serial = serial[c]
    <3>1. PICK i \in DOMAIN mailbox : IsCall(mailbox[i], c) /\ mailbox[i].serial = serial[c]
      BY <2>2
    <3>2. i - k \in DOMAIN mailbox' /\ mailbox'[i - k] = mailbox[i]
      BY <1>2, <1>10, <3>1
    <3> QED BY <3>1, <3>2 DEF NewestKept
  <2>3. CASE \E i \in DOMAIN old : old[i].op # "detach" /\ old[i].serial = serial[c]
    <3>1. \E i \in DOMAIN new : new[i].op # "detach" /\ new[i].serial = serial'[c]
      BY <1>3, <2>3
    <3> QED BY <3>1 DEF NewestKept, new
  <2>4. CASE AtWork(c) /\ job.op.op # "detach" /\ job.op.serial = serial[c]
    BY <1>10, <2>4 DEF NewestKept
  <2> QED BY <1>10, <2>1, <2>2, <2>3, <2>4 DEF NewestKept, old
<1> QED BY <1>9, <1>10

\* A call is taken from the mailbox into its lane
LEMMA OrderCalls ==
  ASSUME TypeInv, NEW c \in Client, CallsOrdered(c), Shifted(1), 1 \in DOMAIN mailbox,
         IsCall(mailbox[1], c), lane'[c].ops \in Seq(Operation),
         Extends(lane'[c].ops, lane[c].ops, mailbox[1]),
         serial'[c] = serial[c], handled'[c] = handled[c], ~AtWork(c), ~AtWork(c)',
         \A i \in DOMAIN lane[c].ops : lane[c].ops[i].op # "detach"
  PROVE  CallsOrdered(c)' /\ (NewestKept(c) => NewestKept(c)')
<1> DEFINE old == lane[c].ops
           new == lane'[c].ops
           m == mailbox[1]
           N == (handled[c] + 1)..serial[c]
<1>1. /\ Len(mailbox) \in Nat /\ DOMAIN mailbox = 1..Len(mailbox)
      /\ DOMAIN old = 1..Len(old) /\ Len(old) \in Nat
      /\ serial[c] \in Nat /\ handled[c] \in Nat
  BY Numbers
<1>2. /\ \A i \in DOMAIN mailbox' : i \in Nat /\ i + 1 \in DOMAIN mailbox /\ 1 < i + 1
                                    /\ mailbox'[i] = mailbox[i + 1]
      /\ \A i, j \in DOMAIN mailbox' : i < j => i + 1 < j + 1
      /\ \A i \in DOMAIN mailbox : i # 1 => i - 1 \in DOMAIN mailbox' /\ (i - 1) + 1 = i
  BY <1>1 DEF Shifted
<1>3. /\ new # <<>> /\ Len(new) \in {Len(old), Len(old) + 1} /\ Len(new) \in Nat
      /\ DOMAIN new = 1..Len(new)
      /\ \A i \in 1..(Len(new) - 1) : new[i] = old[i]
      /\ new[Len(new)].op = m.op /\ new[Len(new)].serial = m.serial
  BY DEF Extends, SameCall
<1>4. /\ handled[c] <= serial[c]
      /\ \A i \in DOMAIN mailbox : IsCall(mailbox[i], c) =>
           /\ mailbox[i].serial \in N
           /\ \A j \in DOMAIN mailbox :
                i < j /\ IsCall(mailbox[j], c) => mailbox[i].serial < mailbox[j].serial
      /\ \A i \in DOMAIN old : old[i].op # "detach" =>
           /\ old[i].serial \in N
           /\ \A j \in DOMAIN old : i < j /\ old[j].op # "detach" => old[i].serial < old[j].serial
           /\ \A j \in DOMAIN mailbox : IsCall(mailbox[j], c) => old[i].serial < mailbox[j].serial
  BY DEF CallsOrdered
<1>5. \A i \in DOMAIN old : old[i].op # "detach"
  OBVIOUS
<1>6. m.op \in {"load", "save"}
  BY DEF IsCall
<1>7. IsCall(mailbox[1], c) /\ m = mailbox[1]
  OBVIOUS
<1> HIDE DEF old, new, m
<1>8. /\ Len(new) \in DOMAIN new
      /\ \A i \in DOMAIN new : i = Len(new) \/ (i \in DOMAIN old /\ i < Len(new) /\ new[i] = old[i])
  <2>1. Len(new) # 0
    BY <1>3, EmptySeq, LenProperties DEF new
  <2>2. CASE Len(new) = Len(old)
    BY <1>1, <1>3, <2>1, <2>2
  <2>3. CASE Len(new) = Len(old) + 1
    BY <1>1, <1>3, <2>1, <2>3
  <2> QED BY <1>3, <2>2, <2>3, Zenon
<1>9. m.serial \in N /\ \A j \in DOMAIN mailbox' : IsCall(mailbox'[j], c) => m.serial < mailbox'[j].serial
  BY <1>2, <1>4, <1>7
<1>10. \A i \in DOMAIN old : old[i].serial < m.serial
  BY <1>4, <1>5, <1>7
<1> HIDE DEF N
<1>11. \A i \in DOMAIN mailbox' : IsCall(mailbox'[i], c) =>
           /\ mailbox'[i].serial \in N
           /\ \A j \in DOMAIN mailbox' :
                i < j /\ IsCall(mailbox'[j], c) => mailbox'[i].serial < mailbox'[j].serial
  BY <1>2, <1>4
<1>12. ASSUME NEW i \in DOMAIN new
       PROVE  /\ new[i].serial \in N
              /\ \A j \in DOMAIN new : i < j /\ new[j].op # "detach" => new[i].serial < new[j].serial
              /\ \A j \in DOMAIN mailbox' : IsCall(mailbox'[j], c) => new[i].serial < mailbox'[j].serial
  <2>1. CASE i = Len(new)
    <3> DEFINE n == Len(new)
    <3>3. n \in Nat /\ DOMAIN new = 1..n
      BY <1>3, Zenon
    <3>4. i = n
      BY <2>1
    <3> HIDE DEF n
    <3>1. \A j \in 1..n : ~(n < j)
      BY <3>3
    <3>2. \A j \in DOMAIN new : ~(i < j)
      BY <3>1, <3>3, <3>4
    <3> QED BY <1>3, <1>9, <2>1, <3>2
  <2>2. CASE i \in DOMAIN old /\ i < Len(new) /\ new[i] = old[i]
    <3>1. new[i].serial \in N
      BY <1>4, <1>5, <2>2
    <3>2. ASSUME NEW j \in DOMAIN new, i < j PROVE new[i].serial < new[j].serial
      <4>1. CASE j = Len(new)
        BY <1>3, <1>10, <2>2, <4>1, Zenon
      <4>2. CASE j \in DOMAIN old /\ new[j] = old[j]
        BY <1>4, <1>5, <2>2, <3>2, <4>2
      <4> QED BY <1>8, <4>1, <4>2
    <3>3. ASSUME NEW j \in DOMAIN mailbox', IsCall(mailbox'[j], c) PROVE new[i].serial < mailbox'[j].serial
      BY <1>2, <1>4, <1>5, <2>2, <3>3
    <3> QED BY <3>1, <3>2, <3>3
  <2> QED BY <1>8, <2>1, <2>2
<1>13. N = (handled'[c] + 1)..serial'[c] /\ handled'[c] <= serial'[c]
  BY <1>4 DEF N
<1>14. CallsOrdered(c)'
  BY <1>11, <1>12, <1>13 DEF CallsOrdered, new
<1>15. ASSUME NewestKept(c) PROVE NewestKept(c)'
  <2>1. CASE m.serial = serial[c]
    <3>1. \E i \in DOMAIN new : new[i].op # "detach" /\ new[i].serial = serial'[c]
      BY <1>3, <1>6, <1>8, <2>1, Zenon
    <3> QED BY <3>1 DEF NewestKept, new
  <2>2. CASE m.serial # serial[c]
    <3>1. m.serial < serial[c] /\ handled[c] < m.serial /\ m.serial \in Nat
      BY <1>1, <1>9, <2>2 DEF N
    <3>2. ~(\E i \in DOMAIN old : old[i].serial = serial[c])
      <4> SUFFICES ASSUME NEW i \in DOMAIN old, old[i].serial = serial[c] PROVE FALSE
        OBVIOUS
      <4>1. serial[c] < m.serial
        BY <1>10
      <4> QED BY <1>1, <3>1, <4>1
    <3>3. serial[c] # handled[c]
      BY <1>1, <3>1
    <3>4. PICK i \in DOMAIN mailbox : IsCall(mailbox[i], c) /\ mailbox[i].serial = serial[c]
      BY <1>15, <3>2, <3>3 DEF NewestKept, old
    <3>5. i - 1 \in DOMAIN mailbox' /\ mailbox'[i - 1] = mailbox[i]
      BY <1>2, <1>7, <2>2, <3>4
    <3> QED BY <3>4, <3>5 DEF NewestKept
  <2> QED BY <2>1, <2>2
<1> QED BY <1>14, <1>15

\* The first operation of a lane is taken
LEMMA OrderSelects ==
  ASSUME TypeInv, NEW c \in Client, CallsOrdered(c), UNCHANGED mailbox,
         lane[c].ops # <<>>, lane'[c].ops = Tail(lane[c].ops), job'.op = lane[c].ops[1],
         serial'[c] = serial[c], handled'[c] = handled[c], ~AtWork(c), AtWork(c)'
  PROVE  CallsOrdered(c)' /\ (NewestKept(c) => NewestKept(c)')
<1> DEFINE old == lane[c].ops
           new == lane'[c].ops
           N == (handled[c] + 1)..serial[c]
<1>1. /\ Len(mailbox) \in Nat /\ DOMAIN mailbox = 1..Len(mailbox)
      /\ DOMAIN old = 1..Len(old) /\ Len(old) \in Nat /\ old \in Seq(Operation)
  BY Numbers
<1>2. /\ handled[c] <= serial[c]
      /\ \A i \in DOMAIN mailbox : IsCall(mailbox[i], c) =>
           /\ mailbox[i].serial \in N
           /\ \A j \in DOMAIN mailbox :
                i < j /\ IsCall(mailbox[j], c) => mailbox[i].serial < mailbox[j].serial
      /\ \A i \in DOMAIN old : old[i].op # "detach" =>
           /\ old[i].serial \in N
           /\ \A j \in DOMAIN old : i < j /\ old[j].op # "detach" => old[i].serial < old[j].serial
           /\ \A j \in DOMAIN mailbox : IsCall(mailbox[j], c) => old[i].serial < mailbox[j].serial
  BY DEF CallsOrdered
<1>3. old # <<>> /\ new = Tail(old) /\ job'.op = old[1]
  OBVIOUS
<1> HIDE DEF old, new, N
<1>4. /\ Len(old) # 0 /\ new \in Seq(Operation) /\ DOMAIN new = 1..(Len(old) - 1)
      /\ \A i \in 1..(Len(old) - 1) : new[i] = old[i + 1]
  BY <1>1, <1>3, EmptySeq
<1>5. /\ 1 \in DOMAIN old
      /\ \A i \in DOMAIN new : i + 1 \in DOMAIN old /\ 1 < i + 1 /\ new[i] = old[i + 1]
      /\ \A i, j \in DOMAIN new : i < j => i + 1 < j + 1
      /\ \A i \in DOMAIN old : i # 1 => i - 1 \in DOMAIN new /\ (i - 1) + 1 = i
  BY <1>1, <1>4
<1>6. \A i \in DOMAIN new : new[i].op # "detach" =>
           /\ new[i].serial \in N
           /\ \A j \in DOMAIN new : i < j /\ new[j].op # "detach" => new[i].serial < new[j].serial
           /\ \A j \in DOMAIN mailbox : IsCall(mailbox[j], c) => new[i].serial < mailbox[j].serial
  BY <1>2, <1>5
<1>7. job'.op.op # "detach" =>
           /\ job'.op.serial \in N
           /\ \A j \in DOMAIN new : new[j].op # "detach" => job'.op.serial < new[j].serial
           /\ \A j \in DOMAIN mailbox : IsCall(mailbox[j], c) => job'.op.serial < mailbox[j].serial
  BY <1>2, <1>3, <1>5
<1>8. N = (handled'[c] + 1)..serial'[c] /\ handled'[c] <= serial'[c]
  BY <1>2 DEF N
<1>9. CallsOrdered(c)'
  BY <1>2, <1>6, <1>7, <1>8 DEF CallsOrdered, new
<1>10. ASSUME NewestKept(c) PROVE NewestKept(c)'
  <2>1. CASE serial[c] = handled[c]
    BY <2>1 DEF NewestKept
  <2>2. CASE \E i \in DOMAIN mailbox : IsCall(mailbox[i], c) /\ mailbox[i].serial = serial[c]
    BY <2>2 DEF NewestKept
  <2>3. CASE \E i \in DOMAIN old : old[i].op # "detach" /\ old[i].serial = serial[c]
    <3>1. PICK i \in DOMAIN old : old[i].op # "detach" /\ old[i].serial = serial[c]
      BY <2>3
    <3>2. CASE i = 1
      BY <1>3, <3>1, <3>2 DEF NewestKept
    <3>3. CASE i # 1
      <4>1. i - 1 \in DOMAIN new /\ new[i - 1] = old[i]
        BY <1>5, <3>3
      <4> QED BY <3>1, <4>1 DEF NewestKept, new
    <3> QED BY <3>2, <3>3
  <2> QED BY <1>10, <2>1, <2>2, <2>3 DEF NewestKept, old
<1> QED BY <1>9, <1>10

\* The call at work is executed
LEMMA OrderExecutes ==
  ASSUME TypeInv, NEW c \in Client, CallsOrdered(c), UNCHANGED mailbox,
         lane'[c].ops = lane[c].ops, serial'[c] = serial[c], handled'[c] = job.op.serial,
         AtWork(c), job.op.op # "detach", ~AtWork(c)'
  PROVE  CallsOrdered(c)' /\ (NewestKept(c) => NewestKept(c)')
<1> DEFINE ops == lane[c].ops
           n == job.op.serial
<1>1. serial[c] \in Nat /\ handled[c] \in Nat
  BY Numbers
<1>2. /\ \A i \in DOMAIN mailbox : IsCall(mailbox[i], c) =>
           /\ mailbox[i].serial \in (handled[c] + 1)..serial[c]
           /\ \A j \in DOMAIN mailbox :
                i < j /\ IsCall(mailbox[j], c) => mailbox[i].serial < mailbox[j].serial
      /\ \A i \in DOMAIN ops : ops[i].op # "detach" =>
           /\ ops[i].serial \in (handled[c] + 1)..serial[c]
           /\ \A j \in DOMAIN ops : i < j /\ ops[j].op # "detach" => ops[i].serial < ops[j].serial
           /\ \A j \in DOMAIN mailbox : IsCall(mailbox[j], c) => ops[i].serial < mailbox[j].serial
      /\ n \in (handled[c] + 1)..serial[c]
      /\ \A j \in DOMAIN ops : ops[j].op # "detach" => n < ops[j].serial
      /\ \A j \in DOMAIN mailbox : IsCall(mailbox[j], c) => n < mailbox[j].serial
  BY DEF CallsOrdered
<1> HIDE DEF ops, n
<1>3. /\ n \in Nat /\ n <= serial[c] /\ handled[c] < n
      /\ \A x \in (handled[c] + 1)..serial[c] : n < x => x \in (n + 1)..serial[c]
  BY <1>1, <1>2
<1>4. /\ \A i \in DOMAIN mailbox : IsCall(mailbox[i], c) => mailbox[i].serial \in (n + 1)..serial[c]
      /\ \A i \in DOMAIN ops : ops[i].op # "detach" => ops[i].serial \in (n + 1)..serial[c]
  BY <1>2, <1>3
<1>5. n = handled'[c] /\ ops = lane'[c].ops
  BY DEF n, ops
<1>6. CallsOrdered(c)'
  BY <1>2, <1>3, <1>4, <1>5 DEF CallsOrdered
<1>7. ASSUME NewestKept(c) PROVE NewestKept(c)'
  <2>1. serial[c] # handled[c]
    BY <1>1, <1>3
  <2> QED BY <1>5, <1>7, <2>1 DEF NewestKept, ops, n
<1> QED BY <1>6, <1>7

\* A lane that is left alone, or gets a Detach, keeps its calls
LEMMA DetachStays ==
  ASSUME TypeInv, NEW c \in Client,
         lane'[c].ops = lane[c].ops \/ lane'[c].ops = Append(lane[c].ops, Detach)
  PROVE  CallsStay(c)
<1>1. CASE lane'[c].ops = lane[c].ops
  BY <1>1 DEF CallsStay
<1>2. CASE lane'[c].ops = Append(lane[c].ops, Detach)
  <2> DEFINE s == lane[c].ops
             t == lane'[c].ops
  <2>1. s \in Seq(Operation)
    BY LaneFields DEF TypeInv
  <2>2. /\ Len(s) \in Nat /\ DOMAIN s = 1..Len(s)
        /\ DOMAIN t = 1..(Len(s) + 1)
        /\ \A i \in 1..Len(s) : t[i] = s[i]
        /\ t[Len(s) + 1] = Detach
    BY <1>2, <2>1, Appended, DetachIn
  <2> HIDE DEF s, t
  <2>3. /\ \A i \in DOMAIN t : i \in DOMAIN s \/ i = Len(s) + 1
        /\ \A i \in DOMAIN s : i \in DOMAIN t
    BY <2>2
  <2> QED BY <2>2, <2>3, DetachIn DEF CallsStay, s, t
<1> QED BY <1>1, <1>2

\* The mailbox after its first message is taken, and without a change
LEMMA ShiftedTail ==
  ASSUME TypeInv
  PROVE  /\ UNCHANGED mailbox => Shifted(0)
         /\ mailbox # <<>> /\ mailbox' = Tail(mailbox) => Shifted(1)
<1>1. Len(mailbox) \in Nat /\ DOMAIN mailbox = 1..Len(mailbox)
  BY LenProperties DEF TypeInv
<1>2. ASSUME UNCHANGED mailbox PROVE Shifted(0)
  BY <1>1, <1>2 DEF Shifted
<1>3. ASSUME mailbox # <<>>, mailbox' = Tail(mailbox) PROVE Shifted(1)
  BY <1>3, Taking DEF Shifted, TypeInv
<1> QED BY <1>2, <1>3

\* What an action of the actor has to show for every client
Orders(c) == CallsOrdered(c)' /\ (client[c] = "live" => NewestKept(c)')

\* A call moves from the mailbox to its lane behind the older ones; a save it replaces is older
LEMMA OrderCall ==
  ASSUME TypeInv, ClientInv, LaneInv, LiveInv, ShutdownInv, OrderInv, IngestLoad \/ IngestSave,
         NEW c \in Client
  PROVE  Orders(c)
<1>1. PICK d \in Client, m \in Operation :
      /\ m = Head(mailbox) /\ pc = "drain" /\ mailbox # <<>> /\ mailbox' = Tail(mailbox)
      /\ IsCall(m, d)
      /\ UNCHANGED <<clientVars, pc, job, handled>>
      /\ Open(d) => \E ops \in Seq(Operation) : /\ Extends(ops, lane[d].ops, m)
                                                /\ Schedule({d}, [lane EXCEPT ![d].ops = ops])
      /\ ~Open(d) => UNCHANGED <<lane, ready, readySet>>
  BY Calling
<1>2. m = mailbox[1] /\ 1 \in DOMAIN mailbox /\ Shifted(1)
  <2>1. /\ mailbox \in Seq(Message) /\ Head(mailbox) = mailbox[1] /\ Len(mailbox) \in Nat \ {0}
        /\ DOMAIN mailbox = 1..Len(mailbox)
    BY <1>1, Taking DEF TypeInv
  <2>2. 1 \in DOMAIN mailbox
    BY <2>1
  <2>3. Shifted(1)
    BY <1>1, ShiftedTail
  <2> QED BY <1>1, <2>1, <2>2, <2>3
<1>3. /\ serial'[c] = serial[c] /\ handled'[c] = handled[c] /\ ~AtWork(c) /\ ~AtWork(c)'
      /\ CallsOrdered(c) /\ (client[c] = "live" => NewestKept(c))
  BY <1>1 DEF clientVars, AtWork, OrderInv
<1>4. CASE Open(d)
  <2>1. PICK ops \in Seq(Operation) : /\ Extends(ops, lane[d].ops, m)
                                      /\ Schedule({d}, [lane EXCEPT ![d].ops = ops])
    BY <1>1, <1>4
  <2> DEFINE L == [lane EXCEPT ![d].ops = ops]
  <2>2. lane \in [Client -> Lane] /\ ready \in Seq(Client) /\ readySet \in SUBSET Client
        /\ {d} \in SUBSET Client
    BY DEF TypeInv
  <2>3. L \in [Client -> Lane] /\ L[d].ops = ops /\ \A b \in Client \ {d} : L[b] = lane[b]
    BY <2>2, NewOps, Zenon
  <2>4. Schedule({d}, L)
    BY <2>1
  <2> HIDE DEF L
  <2>5. \A b \in Client : /\ lane'[b].ops = L[b].ops /\ lane'[b].closing = L[b].closing
                          /\ lane'[b].scheduled = (L[b].scheduled \/ b \in Unscheduled({d}, L))
                          /\ b \notin {d} => lane'[b] = L[b]
    BY <2>2, <2>3, <2>4, Scheduling, Zenon
  <2>6. CASE c = d
    <3>1. lane'[c].ops \in Seq(Operation) /\ Extends(lane'[c].ops, lane[c].ops, mailbox[1])
          /\ IsCall(mailbox[1], c)
      BY <1>1, <1>2, <2>1, <2>3, <2>5, <2>6
    <3>2. \A i \in DOMAIN lane[c].ops : lane[c].ops[i].op # "detach"
      BY <1>4, <2>6 DEF LaneInv, LaneClosing, Open
    <3> QED BY <1>2, <1>3, <3>1, <3>2, OrderCalls DEF Orders
  <2>7. CASE c # d
    <3>1. lane'[c].ops = lane[c].ops
      BY <2>3, <2>5, <2>7
    <3>2. CallsStay(c)
      BY <3>1, DetachStays
    <3>3. \A i \in DOMAIN mailbox : i <= 1 => ~IsCall(mailbox[i], c)
      BY <1>1, <1>2, <2>7, Numbers DEF IsCall
    <3> QED BY <1>2, <1>3, <3>2, <3>3, OrderKeeps DEF Orders
  <2> QED BY <2>6, <2>7
<1>5. CASE ~Open(d)
  <2>1. CallsStay(c)
    BY <1>1, <1>5, DetachStays
  <2>2. CallsOrdered(c)'
    BY <1>2, <1>3, <2>1, OrderKeeps
  <2>3. CASE c = d /\ client[c] = "live"
    <3>1. Names(mailbox[1], c) /\ ~IsAttach(mailbox[1], c)
      BY <1>1, <1>2, <2>3 DEF Names, IsCall, IsAttach
    <3>2. ~Fresh(c)
      <4> SUFFICES ASSUME NEW i \in DOMAIN mailbox, IsAttach(mailbox[i], c) PROVE FALSE
        BY <2>3 DEF Fresh
      <4>1. i <= 1
        BY <1>2, <3>1 DEF ClientInv
      <4>2. i = 1
        BY <4>1, Numbers
      <4> QED BY <3>1, <4>2
    <3>3. ~shuttingDown
      BY <1>1 DEF ShutdownInv
    <3> QED BY <1>5, <2>3, <3>2, <3>3 DEF LiveInv, Open
  <2>4. CASE c # d
    <3>1. \A i \in DOMAIN mailbox : i <= 1 => ~IsCall(mailbox[i], c)
      BY <1>1, <1>2, <2>4, Numbers DEF IsCall
    <3> QED BY <1>2, <1>3, <2>1, <3>1, OrderKeeps DEF Orders
  <2> QED BY <2>2, <2>3, <2>4 DEF Orders
<1> QED BY <1>4, <1>5

\* A step of the actor's loop keeps the calls of every client in order
LEMMA OrderActor ==
  TypeInv /\ ClientInv /\ LaneInv /\ LiveInv /\ ShutdownInv /\ OrderInv /\ ActorStep => OrderInv'
<1> SUFFICES ASSUME TypeInv, ClientInv, LaneInv, LiveInv, ShutdownInv, OrderInv, ActorStep,
                    NEW c \in Client
             PROVE  Orders(c)
  BY Inside DEF OrderInv, Orders, clientVars
<1>1. /\ serial'[c] = serial[c] /\ CallsOrdered(c) /\ (client[c] = "live" => NewestKept(c))
      /\ documents \in SUBSET Client
  BY Inside DEF OrderInv, clientVars, TypeInv
<1>2. ASSUME UNCHANGED mailbox, handled'[c] = handled[c], CallsStay(c),
             AtWork(c)' => AtWork(c) /\ job' = job,
             AtWork(c) /\ job.op.op # "detach" => AtWork(c)'
      PROVE  Orders(c)
  <2>1. Shifted(0) /\ \A i \in DOMAIN mailbox : i <= 0 => ~IsCall(mailbox[i], c)
    BY <1>2, ShiftedTail, Numbers
  <2> QED BY <1>1, <1>2, <2>1, OrderKeeps DEF Orders
<1>3. ASSUME mailbox # <<>>, mailbox' = Tail(mailbox), handled'[c] = handled[c], CallsStay(c),
             pc # "store", pc' # "store", Head(mailbox).op \notin {"load", "save"}
      PROVE  Orders(c)
  <2>1. Shifted(1) /\ Head(mailbox) = mailbox[1]
    BY <1>3, ShiftedTail, Taking, Zenon DEF TypeInv
  <2>2. \A i \in DOMAIN mailbox : i <= 1 => ~IsCall(mailbox[i], c)
    BY <1>3, <2>1, Numbers DEF IsCall
  <2> QED BY <1>1, <1>3, <2>1, <2>2, OrderKeeps DEF Orders, AtWork
<1>4. CASE Top \/ DrainEmpty \/ ReapDone \/ Reply \/ Wait
  <2>1. UNCHANGED <<mailbox, handled, lane>> /\ pc # "store" /\ pc' # "store"
    BY <1>4 DEF Top, DrainEmpty, ReapDone, Reply, Wait, channelVars, laneVars
  <2>2. CallsStay(c)
    BY <2>1, DetachStays
  <2> QED BY <1>2, <2>1, <2>2 DEF AtWork
<1>5. CASE IngestAttach \/ IngestInspect \/ IngestWake
  <2>1. /\ UNCHANGED <<handled, lane>> /\ pc # "store" /\ pc' # "store" /\ mailbox # <<>>
        /\ mailbox' = Tail(mailbox) /\ Head(mailbox).op \notin {"load", "save"}
    BY <1>5, Attaching DEF IngestAttach, IngestInspect, IngestWake, Ingest, laneVars
  <2>2. CallsStay(c)
    BY <2>1, DetachStays
  <2> QED BY <1>3, <2>1, <2>2
<1>6. CASE IngestShutdown
  <2>1. PICK S \in SUBSET documents :
          /\ S = {d \in documents : ~lane[d].closing} /\ Schedule(S, Closed(S))
          /\ pc # "store" /\ pc' # "store" /\ UNCHANGED documents
    BY <1>6 DEF IngestShutdown, Ingest
  <2>2. /\ \A d \in S : lane'[d].ops = Append(lane[d].ops, Detach)
        /\ \A d \in Client \ S : lane'[d] = lane[d]
    BY <2>1, ClosesLanes
  <2>3. CallsStay(c)
    BY <2>2, DetachStays
  <2>4. /\ UNCHANGED handled /\ mailbox # <<>>
        /\ mailbox' = Tail(mailbox) /\ Head(mailbox).op \notin {"load", "save"}
    BY <1>6 DEF IngestShutdown, Ingest
  <2> QED BY <1>3, <2>1, <2>3, <2>4
<1>7. ASSUME NEW d \in Client, Reap(d) PROVE Orders(c)
  <2>1. UNCHANGED <<mailbox, handled>> /\ pc # "store" /\ pc' # "store"
    BY <1>7 DEF Reap, channelVars
  <2>2. lane'[c].ops = lane[c].ops \/ lane'[c].ops = Append(lane[c].ops, Detach)
    <3>1. CASE client[d] \in {"dropping", "dropped"} /\ ~lane[d].closing
      <4>1. /\ {d} \in SUBSET documents /\ Schedule({d}, Closed({d}))
            /\ pc # "store" /\ pc' # "store" /\ UNCHANGED documents
        BY <1>7, <3>1 DEF Reap, LaneInv
      <4>2. /\ \A b \in {d} : lane'[b].ops = Append(lane[b].ops, Detach)
            /\ \A b \in Client \ {d} : lane'[b] = lane[b]
        BY <4>1, ClosesLanes
      <4> QED BY <4>2
    <3>2. CASE ~(client[d] \in {"dropping", "dropped"} /\ ~lane[d].closing)
      BY <1>7, <3>2 DEF Reap
    <3> QED BY <3>1, <3>2
  <2>3. CallsStay(c)
    BY <2>2, DetachStays
  <2> QED BY <1>2, <2>1, <2>3 DEF AtWork
<1>8. CASE Select
  <2>1. PICK d \in documents :
           /\ pc = "select" /\ pc' = "store" /\ d \in Client /\ lane[d].ops # <<>>
           /\ lane'[d].ops = Tail(lane[d].ops)
           /\ job'.client = d /\ job'.op = lane[d].ops[1]
           /\ UNCHANGED <<mailbox, handled>>
           /\ \A b \in Client \ {d} : lane'[b] = lane[b]
    BY <1>8, Selecting
  <2>2. CASE c = d
    <3>1. ~AtWork(c) /\ AtWork(c)'
      BY <2>1, <2>2 DEF AtWork
    <3> QED BY <1>1, <2>1, <2>2, <3>1, OrderSelects DEF Orders
  <2>3. CASE c # d
    <3>1. ~AtWork(c) /\ ~AtWork(c)' /\ lane'[c] = lane[c]
      BY <2>1, <2>3 DEF AtWork
    <3>2. CallsStay(c)
      BY <3>1, DetachStays
    <3> QED BY <1>2, <2>1, <3>1, <3>2
  <2> QED BY <2>2, <2>3
<1>9. CASE Execute
  <2>1. PICK d \in Client :
           /\ d = job.client /\ pc = "store" /\ pc' = "top" /\ job.op.op # "detach"
           /\ lane'[d].ops = lane[d].ops
           /\ handled' = [handled EXCEPT ![d] = job.op.serial]
           /\ UNCHANGED mailbox
           /\ \A b \in Client \ {d} : lane'[b] = lane[b]
    BY <1>9, Executing
  <2>2. handled'[d] = job.op.serial /\ \A b \in Client \ {d} : handled'[b] = handled[b]
    BY <2>1 DEF TypeInv
  <2>3. CASE c = d
    <3>1. AtWork(c) /\ ~AtWork(c)'
      BY <2>1, <2>3 DEF AtWork
    <3> QED BY <1>1, <2>1, <2>2, <2>3, <3>1, OrderExecutes DEF Orders
  <2>4. CASE c # d
    <3>1. ~AtWork(c) /\ ~AtWork(c)' /\ lane'[c] = lane[c] /\ handled'[c] = handled[c]
      BY <2>1, <2>2, <2>4 DEF AtWork
    <3>2. CallsStay(c)
      BY <3>1, DetachStays
    <3> QED BY <1>2, <2>1, <3>1, <3>2
  <2> QED BY <2>3, <2>4
<1>10. CASE DetachLane
  <2>1. PICK d \in Client :
          /\ d = job.client /\ pc = "store" /\ pc' = "top" /\ job.op.op = "detach"
          /\ lane' = [lane EXCEPT ![d] = NewLane] /\ UNCHANGED <<mailbox, handled>>
    BY <1>10, JobFields DEF DetachLane, TypeInv, channelVars
  <2>2. lane[d].ops = <<>>
    BY <2>1 DEF LaneInv, LaneClosing, AtWork
  <2>3. lane'[c].ops = lane[c].ops
    BY <2>1, <2>2, NewLaneIn DEF TypeInv
  <2>4. CallsStay(c)
    BY <2>3, DetachStays
  <2>5. ~AtWork(c)' /\ job.op.op = "detach"
    BY <2>1 DEF AtWork
  <2> QED BY <1>2, <2>1, <2>4, <2>5
<1> QED BY <1>4, <1>5, <1>6, <1>7, <1>8, <1>9, <1>10, OrderCall
        DEF ActorStep, IngestStep, StoreStep, Execute

\* Every step keeps the calls of every client in order
LEMMA OrderNext ==
  /\ TypeInv /\ ClientInv /\ LaneInv /\ LiveInv /\ ShutdownInv /\ OrderInv
  /\ [AnyNext]_vars
  => OrderInv'
<1> SUFFICES ASSUME TypeInv, ClientInv, LaneInv, LiveInv, ShutdownInv, OrderInv, [AnyNext]_vars
             PROVE  OrderInv'
  OBVIOUS
<1>1. CASE Stopped \/ UNCHANGED vars
  BY <1>1 DEF Stopped, vars, clientVars, channelVars, actorVars, laneVars, OrderInv, CallsOrdered,
              NewestKept, AtWork
<1> QED BY <1>1, OrderOutside, OrderActor DEF AnyNext

-----------------------------------------------------------------------------
(* No answer is lost or overtaken *)

\* The client takes the first answer
LEMMA InStepTail ==
  ASSUME NEW a \in Seq(EventRecord), a # <<>>, NEW from, NEW to, InStep(a, from, to)
  PROVE  InStep(Tail(a), a[1].serial, to)
<1> DEFINE t == Tail(a)
<1>1. Len(a) \in Nat /\ Len(a) # 0 /\ DOMAIN a = 1..Len(a)
  BY EmptySeq
<1>2. /\ Len(t) = Len(a) - 1 /\ DOMAIN t = 1..(Len(a) - 1) /\ t \in Seq(EventRecord)
      /\ \A i \in 1..(Len(a) - 1) : t[i] = a[i + 1]
  OBVIOUS
<1> HIDE DEF t
<1>3. /\ 1 \in DOMAIN a
      /\ \A i \in DOMAIN t : i + 1 \in DOMAIN a /\ 1 < i + 1 /\ t[i] = a[i + 1]
      /\ \A i, j \in DOMAIN t : i < j => i + 1 < j + 1
  BY <1>1, <1>2
<1>4. /\ \A i, j \in DOMAIN a : i < j => a[i].serial < a[j].serial
      /\ a[Len(a)].serial = to
  BY DEF InStep
<1>5. IF t = <<>> THEN a[1].serial = to ELSE t[Len(t)].serial = to
  <2>1. CASE Len(a) = 1
    <3>1. t = <<>>
      BY <1>2, <2>1, EmptySeq
    <3> QED BY <1>4, <2>1, <3>1
  <2>2. CASE Len(a) # 1
    <3>1. /\ Len(t) \in 1..(Len(a) - 1) /\ Len(t) + 1 = Len(a)
      BY <1>1, <1>2, <2>2
    <3>2. t # <<>> /\ t[Len(t)] = a[Len(a)]
      BY <1>2, <3>1, EmptySeq
    <3> QED BY <1>4, <3>2
  <2> QED BY <2>1, <2>2
<1>6. (\A i \in DOMAIN t : a[1].serial < t[i].serial)
      /\ \A i, j \in DOMAIN t : i < j => t[i].serial < t[j].serial
  BY <1>3, <1>4
<1> QED BY <1>5, <1>6 DEF InStep, t

\* The answer to a later call goes behind the others
LEMMA InStepAppend ==
  ASSUME NEW a \in Seq(EventRecord), NEW from \in Nat, NEW to \in Nat, InStep(a, from, to),
         NEW e \in EventRecord, to < e.serial
  PROVE  InStep(Append(a, e), from, e.serial)
<1> DEFINE b == Append(a, e)
           n == Len(a)
<1>1. n \in Nat /\ DOMAIN a = 1..n /\ MaxCalls \in Nat
  BY CallAssumption
<1>2. /\ b # <<>> /\ Len(b) = n + 1 /\ DOMAIN b = 1..(n + 1)
      /\ \A i \in 1..n : b[i] = a[i]
      /\ b[n + 1] = e
  OBVIOUS
<1>3. e.serial \in Nat /\ \A i \in 1..n : a[i].serial \in Nat
  <2>1. \A x \in EventRecord : x.serial \in Nat
    BY <1>1 DEF EventRecord
  <2>2. \A i \in 1..n : a[i] \in EventRecord
    OBVIOUS
  <2> QED BY <2>1, <2>2
<1>4. /\ \A i \in 1..n : from < a[i].serial
      /\ \A i, j \in 1..n : i < j => a[i].serial < a[j].serial
      /\ IF a = <<>> THEN from = to ELSE a[n].serial = to
  BY <1>1 DEF InStep
<1> HIDE DEF b, n
<1>5. \A i \in 1..n : a[i].serial < e.serial
  <2> SUFFICES ASSUME NEW i \in 1..n PROVE a[i].serial < e.serial
    OBVIOUS
  <2>1. a # <<>> /\ n \in 1..n
    BY <1>1, EmptySeq DEF n
  <2>2. i = n \/ i < n
    BY <1>1
  <2>3. a[i].serial <= a[n].serial
    BY <1>3, <1>4, <2>1, <2>2
  <2> QED BY <1>3, <1>4, <2>1, <2>3
<1>6. from < e.serial
  <2>1. CASE a = <<>>
    BY <1>4, <2>1
  <2>2. CASE a # <<>>
    <3>1. n # 0
      BY <2>2, EmptySeq DEF n
    <3>2. n \in 1..n
      BY <1>1, <3>1
    <3>3. from < a[n].serial /\ a[n].serial \in Nat /\ a[n].serial < e.serial
      BY <1>3, <1>4, <1>5, <3>2
    <3> QED BY <1>3, <3>3
  <2> QED BY <2>1, <2>2
<1>7. \A i \in DOMAIN b : i \in 1..n \/ i = n + 1
  BY <1>1, <1>2
<1>8. \A i \in DOMAIN b : from < b[i].serial
  BY <1>2, <1>4, <1>6, <1>7
<1>9. ASSUME NEW i \in DOMAIN b, NEW j \in DOMAIN b, i < j PROVE b[i].serial < b[j].serial
  <2>1. CASE i \in 1..n /\ j \in 1..n
    BY <1>2, <1>4, <1>9, <2>1
  <2>2. CASE i \in 1..n /\ j = n + 1
    BY <1>2, <1>5, <2>2
  <2>3. CASE i = n + 1
    BY <1>1, <1>7, <1>9, <2>3
  <2> QED BY <1>7, <2>1, <2>2, <2>3
<1>10. b[Len(b)].serial = e.serial
  BY <1>2
<1> QED BY <1>2, <1>8, <1>9, <1>10 DEF InStep, b

\* The first of two sequences one behind the other, and what remains
LEMMA TailOfConcat ==
  ASSUME NEW e \in Seq(EventRecord), NEW p \in Seq(EventRecord), e # <<>>
  PROVE  /\ e \o p \in Seq(EventRecord) /\ e \o p # <<>> /\ (e \o p)[1] = Head(e)
         /\ Tail(e \o p) = Tail(e) \o p
<1> DEFINE u == e \o p
           t == Tail(e)
           v == t \o p
<1>1. /\ Len(e) \in Nat \ {0} /\ Len(p) \in Nat /\ Head(e) = e[1]
      /\ t \in Seq(EventRecord) /\ Len(t) = Len(e) - 1
      /\ \A i \in 1..(Len(e) - 1) : t[i] = e[i + 1]
  OBVIOUS
<1> HIDE DEF t
<1>2. /\ u \in Seq(EventRecord) /\ Len(u) = Len(e) + Len(p)
      /\ \A i \in 1..(Len(e) + Len(p)) : u[i] = IF i <= Len(e) THEN e[i] ELSE p[i - Len(e)]
  BY <1>1, ConcatProperties
<1>3. /\ v \in Seq(EventRecord) /\ Len(v) = Len(t) + Len(p)
      /\ \A i \in 1..(Len(t) + Len(p)) : v[i] = IF i <= Len(t) THEN t[i] ELSE p[i - Len(t)]
  BY <1>1, ConcatProperties
<1> HIDE DEF u, v
<1>4. u # <<>> /\ u[1] = e[1]
  BY <1>1, <1>2, EmptySeq
<1>5. /\ Tail(u) \in Seq(EventRecord) /\ Len(Tail(u)) = Len(u) - 1
      /\ \A i \in 1..(Len(u) - 1) : Tail(u)[i] = u[i + 1]
  BY <1>2, <1>4
<1>6. Len(Tail(u)) = Len(v) /\ Len(v) = Len(e) + Len(p) - 1
  BY <1>1, <1>2, <1>3, <1>5
<1>7. ASSUME NEW i \in 1..(Len(e) + Len(p) - 1) PROVE Tail(u)[i] = v[i]
  <2>1. Tail(u)[i] = u[i + 1] /\ i + 1 \in 1..(Len(e) + Len(p))
    BY <1>1, <1>2, <1>5
  <2>2. CASE i <= Len(t)
    BY <1>1, <1>2, <1>3, <2>1, <2>2
  <2>3. CASE ~(i <= Len(t))
    <3>1. u[i + 1] = p[i + 1 - Len(e)] /\ v[i] = p[i - Len(t)] /\ i + 1 - Len(e) = i - Len(t)
      BY <1>1, <1>2, <1>3, <2>1, <2>3
    <3> QED BY <2>1, <3>1
  <2> QED BY <2>2, <2>3
<1>8. Tail(u) = v
  BY <1>3, <1>5, <1>6, <1>7, SeqEqual, Zenon
<1> QED BY <1>1, <1>2, <1>4, <1>8 DEF u, v, t

\* AnswerInv for one client
AnswerOf(c) ==
  /\ Len(pending[c]) <= PendingCapacity
  /\ AtWork(c) /\ c \in sinks => Len(pending[c]) < PendingCapacity
  /\ c \in sinks /\ listening[c] => InStep(Answers(c), answered[c], handled[c])

\* The types of what is on its way to a client
LEMMA AnswerTypes ==
  ASSUME TypeInv, NEW c \in Client
  PROVE  /\ events[c] \in Seq(EventRecord) /\ pending[c] \in Seq(EventRecord)
         /\ Len(pending[c]) \in Nat /\ Answers(c) \in Seq(EventRecord)
         /\ answered[c] \in Nat /\ handled[c] \in Nat
         /\ PendingCapacity \in Nat \ {0} /\ Len(<<>>) = 0
<1>1. events[c] \in Seq(EventRecord) /\ pending[c] \in Seq(EventRecord)
      /\ answered[c] \in Nat /\ handled[c] \in Nat
  BY CallAssumption DEF TypeInv
<1> QED BY <1>1, ConcatProperties, CapacityAssumption, EmptySeq DEF Answers

\* No answer is on its way at the start
LEMMA AnswerInit == Init => AnswerInv
<1> SUFFICES ASSUME Init PROVE AnswerInv
  OBVIOUS
<1>1. pending = [c \in Client |-> <<>>] /\ pc = "top" /\ sinks = {} /\ Len(<<>>) = 0
      /\ PendingCapacity \in Nat
  BY EmptySeq, CapacityAssumption DEF Init
<1> QED BY <1>1 DEF AnswerInv, AtWork

\* A client that takes its first answer leaves the others as they were
LEMMA AnswerOutside == TypeInv /\ AnswerInv /\ (Environment \/ AnyClientStep) => AnswerInv'
<1> SUFFICES ASSUME TypeInv, AnswerInv, Environment \/ AnyClientStep PROVE AnswerInv'
  OBVIOUS
<1>1. UNCHANGED <<pc, job, sinks, pending, handled>>
  BY Outside DEF actorVars, laneVars
<1>2. ASSUME UNCHANGED <<events, answered, listening>> PROVE AnswerInv'
  BY <1>1, <1>2 DEF AnswerInv, AtWork, Answers
<1>3. ASSUME NEW c \in Client, Receive(c) PROVE AnswerInv'
  <2>1. /\ listening[c] /\ events[c] # <<>> /\ UNCHANGED listening
        /\ events'[c] = Tail(events[c]) /\ answered'[c] = Head(events[c]).serial
        /\ \A d \in Client \ {c} : events'[d] = events[d] /\ answered'[d] = answered[d]
    BY <1>3 DEF Receive, TypeInv
  <2> DEFINE e == events[c]
             p == pending[c]
  <2>2. e \in Seq(EventRecord) /\ p \in Seq(EventRecord) /\ e # <<>>
    BY <2>1, AnswerTypes
  <2>3. events'[c] = Tail(e) /\ answered'[c] = Head(e).serial /\ pending'[c] = p /\ Answers(c) = e \o p
    BY <1>1, <2>1 DEF Answers
  <2> HIDE DEF e, p
  <2>4. /\ e \o p \in Seq(EventRecord) /\ e \o p # <<>> /\ (e \o p)[1] = Head(e)
        /\ Tail(e \o p) = Tail(e) \o p
    BY <2>2, TailOfConcat
  <2>5. InStep(e \o p, answered[c], handled[c]) => InStep(Tail(e) \o p, answered'[c], handled[c])
    BY <2>3, <2>4, InStepTail
  <2>6. AnswerOf(c)'
    BY <1>1, <2>1, <2>3, <2>5 DEF AnswerInv, AnswerOf, Answers, AtWork
  <2>7. \A d \in Client \ {c} : AnswerOf(d)'
    BY <1>1, <2>1 DEF AnswerInv, AnswerOf, Answers, AtWork
  <2> QED BY <2>6, <2>7 DEF AnswerInv, AnswerOf
<1>4. ASSUME NEW c \in Client, StopListening(c) PROVE AnswerInv'
  <2>1. /\ listening'[c] = FALSE /\ UNCHANGED answered
        /\ \A d \in Client \ {c} : events'[d] = events[d] /\ listening'[d] = listening[d]
    BY <1>4 DEF StopListening, TypeInv, clientVars
  <2>2. AnswerOf(c)'
    BY <1>1, <2>1 DEF AnswerInv, AnswerOf, AtWork
  <2>3. \A d \in Client \ {c} : AnswerOf(d)'
    BY <1>1, <2>1 DEF AnswerInv, AnswerOf, Answers, AtWork
  <2> QED BY <2>2, <2>3 DEF AnswerInv, AnswerOf
<1>5. (\E c \in Client : Receive(c) \/ StopListening(c)) \/ UNCHANGED <<events, answered, listening>>
  BY DEF Environment, AnyClientStep, Attach, SendWake, Inspect, ReleaseHandle, SendShutdown, ForeignSave,
         DropClient, Submit, clientVars, channelVars
<1> QED BY <1>2, <1>3, <1>4, <1>5

\* The actor adds an answer behind those on their way, and delivers them in their order
LEMMA AnswerActor ==
  TypeInv /\ ClientInv /\ LaneInv /\ OrderInv /\ AnswerInv /\ ActorStep => AnswerInv'
<1> SUFFICES ASSUME TypeInv, ClientInv, LaneInv, OrderInv, AnswerInv, ActorStep, NEW c \in Client
             PROVE  AnswerOf(c)'
  BY DEF AnswerInv, AnswerOf
<1>1. /\ listening'[c] = listening[c] /\ answered'[c] = answered[c] /\ AnswerOf(c)
      /\ documents \in SUBSET Client
  BY Inside DEF clientVars, AnswerInv, AnswerOf, TypeInv
<1>2. ASSUME events'[c] = events[c], pending'[c] = pending[c], handled'[c] = handled[c],
             c \in sinks' => c \in sinks, ~AtWork(c)'
      PROVE  AnswerOf(c)'
  BY <1>1, <1>2 DEF AnswerOf, Answers
<1>3. ASSUME c \notin sinks', pending'[c] = <<>> PROVE AnswerOf(c)'
  BY <1>3, AnswerTypes DEF AnswerOf
<1>4. CASE Top \/ DrainEmpty \/ ReapDone \/ Reply \/ IngestInspect \/ IngestWake
  <2>1. UNCHANGED <<events, pending, handled, sinks>> /\ pc' # "store"
    BY <1>4 DEF Top, DrainEmpty, ReapDone, Reply, IngestInspect, IngestWake, Ingest, laneVars,
                channelVars
  <2> QED BY <1>2, <2>1 DEF AtWork
<1>5. CASE IngestLoad \/ IngestSave
  <2>1. UNCHANGED <<events, pending, handled, sinks, pc>> /\ pc = "drain"
    BY <1>5, Calling
  <2> QED BY <1>2, <2>1 DEF AtWork
<1>6. CASE IngestAttach
  <2>1. PICK d \in Client :
          /\ IsAttach(mailbox[1], d) /\ 1 \in DOMAIN mailbox /\ d \notin documents
          /\ sinks' = sinks \cup {d} /\ UNCHANGED <<events, pending, handled>> /\ pc' = "drain"
    BY <1>6, Attaching
  <2>2. CASE c = d
    <3>1. /\ Fresh(c) /\ c \notin sinks /\ pending[c] = <<>>
      BY <2>1, <2>2 DEF Fresh, LaneInv
    <3>2. events[c] = <<>> /\ answered[c] = 0 /\ handled[c] = 0
      BY <3>1 DEF ClientInv
    <3>3. <<>> \o <<>> = <<>> /\ DOMAIN <<>> = {}
      OBVIOUS
    <3>4. InStep(Answers(c)', answered'[c], handled'[c])
      BY <1>1, <2>1, <3>1, <3>2, <3>3 DEF Answers, InStep
    <3> QED BY <2>1, <3>1, <3>4, AnswerTypes DEF AnswerOf, AtWork
  <2>3. CASE c # d
    BY <1>2, <2>1, <2>3 DEF AtWork
  <2> QED BY <2>2, <2>3
<1>7. CASE IngestShutdown
  BY <1>3, <1>7 DEF IngestShutdown
<1>8. ASSUME NEW d \in Client, Reap(d) PROVE AnswerOf(c)'
  <2>1. UNCHANGED <<events, handled>> /\ pc' = "reap"
    BY <1>8 DEF Reap, channelVars
  <2>2. \/ sinks' = sinks \ {d} /\ pending' = [pending EXCEPT ![d] = <<>>]
        \/ UNCHANGED <<sinks, pending>>
    BY <1>8 DEF Reap
  <2>3. CASE c = d /\ sinks' = sinks \ {d} /\ pending' = [pending EXCEPT ![d] = <<>>]
    BY <1>3, <2>3 DEF TypeInv
  <2>4. CASE c # d \/ UNCHANGED <<sinks, pending>>
    <3>1. pending'[c] = pending[c] /\ (c \in sinks' => c \in sinks)
      BY <2>2, <2>4 DEF TypeInv
    <3> QED BY <1>2, <2>1, <3>1 DEF AtWork
  <2> QED BY <2>2, <2>3, <2>4
<1>9. CASE Select \/ Wait
  <2>1. FlushAll /\ UNCHANGED handled
    BY <1>9 DEF Select, Wait
  <2>2. /\ sinks' = sinks \ Disconnected
        /\ pending'[c] = Unsent(c) /\ Len(pending'[c]) <= Len(pending[c])
        /\ c \notin Disconnected => events'[c] \o pending'[c] = events[c] \o pending[c]
        /\ pending' \in [Client -> Seq(EventRecord)]
    BY <2>1, Flushing
  <2>3. Len(pending'[c]) <= PendingCapacity
    <3>1. Len(pending'[c]) \in Nat /\ Len(pending[c]) \in Nat /\ PendingCapacity \in Nat
      BY <2>2, AnswerTypes
    <3> QED BY <1>1, <2>2, <3>1 DEF AnswerOf
  <2>4. c \in sinks' /\ listening'[c] => InStep(Answers(c)', answered'[c], handled'[c])
    BY <1>1, <2>1, <2>2 DEF AnswerOf, Answers
  <2>5. AtWork(c)' /\ c \in sinks' => Len(pending'[c]) < PendingCapacity
    <3>1. CASE Wait
      BY <3>1 DEF Wait, AtWork
    <3>2. CASE Select
      <4>1. PICK d \in documents : d \in Client /\ Eligible(d) /\ job'.client = d /\ pc = "select"
        BY <3>2, Selecting
      <4> SUFFICES ASSUME c = d, c \in sinks' PROVE Len(pending'[c]) < PendingCapacity
        BY <4>1 DEF AtWork
      <4>2. ~lane[c].closing
        BY <2>2 DEF LaneInv, LaneClosing
      <4> QED BY <2>2, <4>1, <4>2 DEF Eligible
    <3> QED BY <1>9, <3>1, <3>2
  <2> QED BY <2>3, <2>4, <2>5 DEF AnswerOf
<1>10. CASE Execute
  <2>1. PICK d \in Client, e \in EventRecord :
           /\ d = job.client /\ pc = "store" /\ pc' = "top" /\ job \in Job /\ job.op.op # "detach"
           /\ handled' = [handled EXCEPT ![d] = job.op.serial]
           /\ e.serial = job.op.serial /\ SendEvent(e)
    BY <1>10, Executing
  <2>2. /\ sinks' \subseteq sinks
        /\ c # d \/ c \notin sinks => events'[c] = events[c] /\ pending'[c] = pending[c]
        /\ Len(pending'[c]) <= Len(pending[c]) + 1
        /\ c \in sinks \ sinks' => pending'[c] = <<>>
        /\ c = d /\ c \in sinks /\ listening[c] =>
             events'[c] \o pending'[c] = Append(events[c] \o pending[c], e)
        /\ pending' \in [Client -> Seq(EventRecord)]
    BY <2>1, Sending
  <2>3. ~AtWork(c)'
    BY <2>1 DEF AtWork
  <2>4. handled'[d] = job.op.serial /\ (c # d => handled'[c] = handled[c])
    BY <2>1 DEF TypeInv
  <2>5. CASE c # d
    BY <1>2, <2>2, <2>3, <2>4, <2>5
  <2>6. CASE c = d
    <3>1. AtWork(c)
      BY <2>1, <2>6 DEF AtWork
    <3>2. Len(pending'[c]) <= PendingCapacity
      <4>1. Len(pending'[c]) \in Nat /\ Len(pending[c]) \in Nat /\ PendingCapacity \in Nat
        BY <2>2, AnswerTypes
      <4>2. CASE c \in sinks
        BY <1>1, <2>2, <3>1, <4>1, <4>2 DEF AnswerOf
      <4>3. CASE c \notin sinks
        BY <1>1, <2>2, <4>3 DEF AnswerOf
      <4> QED BY <4>2, <4>3
    <3>3. c \in sinks' /\ listening'[c] => InStep(Answers(c)', answered'[c], handled'[c])
      <4> SUFFICES ASSUME c \in sinks', listening'[c]
                   PROVE  InStep(Answers(c)', answered'[c], handled'[c])
        OBVIOUS
      <4>1. c \in sinks /\ listening[c]
        BY <1>1, <2>2
      <4>2. InStep(Answers(c), answered[c], handled[c])
        BY <1>1, <4>1 DEF AnswerOf
      <4>3. Answers(c)' = Append(Answers(c), e)
        BY <2>2, <2>6, <4>1 DEF Answers
      <4>4. handled[c] < e.serial
        <5>1. job.op.serial \in (handled[c] + 1)..serial[c]
          BY <2>1, <3>1 DEF OrderInv, CallsOrdered
        <5>2. handled[c] \in Nat /\ serial[c] \in Nat
          BY Numbers
        <5> QED BY <2>1, <5>1, <5>2
      <4>5. InStep(Append(Answers(c), e), answered[c], e.serial)
        <5>1. Answers(c) \in Seq(EventRecord) /\ answered[c] \in Nat /\ handled[c] \in Nat
          BY AnswerTypes
        <5> QED BY <4>2, <4>4, <5>1, InStepAppend
      <4> QED BY <1>1, <2>1, <2>4, <2>6, <4>3, <4>5
    <3> QED BY <2>3, <3>2, <3>3 DEF AnswerOf
  <2> QED BY <2>5, <2>6
<1>11. CASE DetachLane
  <2>1. PICK d \in Client : /\ sinks' = sinks \ {d} /\ pending' = [pending EXCEPT ![d] = <<>>]
                            /\ UNCHANGED <<events, handled>> /\ pc' = "top"
    BY <1>11, JobFields DEF DetachLane, TypeInv, channelVars
  <2>2. CASE c = d
    BY <1>3, <2>1, <2>2 DEF TypeInv
  <2>3. CASE c # d
    <3>1. pending'[c] = pending[c] /\ (c \in sinks' => c \in sinks)
      BY <2>1, <2>3 DEF TypeInv
    <3> QED BY <1>2, <2>1, <3>1 DEF AtWork
  <2> QED BY <2>2, <2>3
<1> QED BY <1>4, <1>5, <1>6, <1>7, <1>8, <1>9, <1>10, <1>11
        DEF ActorStep, IngestStep, StoreStep, Execute

\* Every step keeps AnswerInv
LEMMA AnswerNext ==
  TypeInv /\ ClientInv /\ LaneInv /\ OrderInv /\ AnswerInv /\ [AnyNext]_vars => AnswerInv'
<1> SUFFICES ASSUME TypeInv, ClientInv, LaneInv, OrderInv, AnswerInv, [AnyNext]_vars PROVE AnswerInv'
  OBVIOUS
<1>1. CASE Stopped \/ UNCHANGED vars
  BY <1>1 DEF Stopped, vars, clientVars, channelVars, actorVars, laneVars, AnswerInv, AtWork, Answers
<1> QED BY <1>1, AnswerOutside, AnswerActor DEF AnyNext

-----------------------------------------------------------------------------
(* The theorems *)

\* The invariant holds at the start
LEMMA ServiceInit == Init => ServiceInv
BY TypeInit, ClientInit, ShutdownInit, LaneInit, LiveInit, GoneInit, OrderInit, AnswerInit
   DEF ServiceInv

\* Nothing the actor, a client or the environment does breaks the invariant
LEMMA ServiceNext == ServiceInv /\ [AnyNext]_vars => ServiceInv'
<1> SUFFICES ASSUME ServiceInv, [AnyNext]_vars PROVE ServiceInv'
  OBVIOUS
<1>1. TypeInv /\ ClientInv /\ ShutdownInv /\ LaneInv /\ LiveInv /\ GoneInv /\ OrderInv /\ AnswerInv
  BY DEF ServiceInv
<1>2. TypeInv'
  BY <1>1, TypeNext
<1> QED BY <1>1, <1>2, ClientNext, ShutdownNext, LaneNext, LiveNext, GoneNext, OrderNext, AnswerNext
        DEF ServiceInv

\* The calls of the model are calls
LEMMA NextIsAny == [Next]_vars => [AnyNext]_vars
BY CallAssumption DEF Next, AnyNext, ClientStep, AnyClientStep, Request

\* The invariant holds in every state of the service
THEOREM ServiceInvariant == Spec => []ServiceInv
BY ServiceInit, ServiceNext, NextIsAny, PTL DEF Spec

\* ready, ready_set, the scheduled flags and the queued operations of run_service agree
THEOREM ReadinessAgrees == Spec => []ReadyAgrees
<1>1. ServiceInv => ReadyAgrees
  BY DEF ServiceInv, LaneInv
<1> QED BY <1>1, ServiceInvariant, PTL

\* The reply to diagnostics comes after the cleanup of every lane it asks about, and
\* when nothing is queued
THEOREM DiagnosticsComeAfterCleanup == Spec => DiagnosticsAfterCleanup
<1> DEFINE Answered == \A request \in inspections \ inspections' :
                         /\ request.gone \cap documents = {}
                         /\ \A c \in documents : lane[c].ops = <<>> /\ job = NoJob
<1>1. ServiceInv /\ [AnyNext]_vars => [Answered]_vars
  <2> SUFFICES ASSUME ServiceInv, [AnyNext]_vars, NEW r \in inspections, r \notin inspections'
               PROVE  /\ r.gone \cap documents = {}
                      /\ \A c \in documents : lane[c].ops = <<>> /\ job = NoJob
    OBVIOUS
  <2>1. Reply
    <3>1. ~(Environment \/ AnyClientStep \/ Stopped \/ UNCHANGED vars)
      BY Outside DEF Stopped, vars, actorVars
    <3>2. ~(Top \/ DrainEmpty \/ ReapDone \/ IngestStep \/ Select \/ Wait \/ StoreStep)
      BY Executing DEF Top, DrainEmpty, ReapDone, IngestStep, IngestAttach, IngestLoad, IngestSave,
             IngestInspect, IngestWake, IngestShutdown, Ingest, Select, Wait, StoreStep, Execute,
             DetachLane, ServiceInv
    <3>3. ~(\E c \in Client : Reap(c))
      BY DEF Reap
    <3> QED BY <3>1, <3>2, <3>3 DEF AnyNext, ActorStep
  <2>2. pc = "reply" /\ ready = <<>> /\ job = NoJob
    BY <2>1 DEF Reply, ServiceInv, ShutdownInv, TypeInv
  <2>3. readySet = {}
    BY <2>2 DEF ServiceInv, LaneInv, ReadyAgrees, ToSet
  <2>4. \A c \in documents : lane[c].ops = <<>>
    BY <2>2, <2>3 DEF ServiceInv, LaneInv, ReadyAgrees
  <2>5. ASSUME NEW c \in r.gone \cap documents PROVE FALSE
    <3>1. lane[c].closing /\ c \in Client
      BY <2>2 DEF ServiceInv, GoneInv, TypeInv
    <3>2. lane[c].ops # <<>>
      BY <2>2, <3>1 DEF ServiceInv, LaneInv, LaneClosing, AtWork
    <3> QED BY <2>4, <3>2
  <2> QED BY <2>2, <2>4, <2>5
<1>2. Spec => [][Answered]_vars
  <2> HIDE DEF Answered
  <2> QED BY <1>1, NextIsAny, ServiceInvariant, PTL DEF Spec
<1> QED BY <1>2 DEF DiagnosticsAfterCleanup

\* Once run_service has returned, every accepted call of a client that is not dropped
\* has been executed
THEOREM ShutdownDrainsCalls == Spec => []ShutdownDrains
<1>1. ServiceInv => ShutdownDrains
  <2> SUFFICES ASSUME ServiceInv, pc = "stopped", NEW c \in Client, client[c] = "live"
               PROVE  handled[c] = serial[c]
    BY DEF ShutdownDrains
  <2>1. mailbox = <<>> /\ ready = <<>> /\ shuttingDown
    BY DEF ServiceInv, ShutdownInv
  <2>2. readySet = {} /\ job = NoJob
    BY <2>1 DEF ServiceInv, LaneInv, ReadyAgrees, TypeInv, ToSet
  <2>3. lane[c].ops = <<>>
    <3>1. CASE c \in documents
      BY <2>2, <3>1 DEF ServiceInv, LaneInv, ReadyAgrees
    <3>2. CASE c \notin documents
      BY <3>2, NewLaneIn DEF ServiceInv, LaneInv
    <3> QED BY <3>1, <3>2
  <2>4. NewestKept(c) /\ ~AtWork(c)
    BY DEF ServiceInv, OrderInv, AtWork
  <2>5. DOMAIN <<>> = {}
    OBVIOUS
  <2> QED BY <2>1, <2>3, <2>4, <2>5 DEF NewestKept
<1> QED BY <1>1, ServiceInvariant, PTL

\* One sequence behind another, and the serials of the answers behind a number
LEMMA Behind ==
  ASSUME NEW S, NEW s \in Seq(S), NEW t \in Seq(S)
  PROVE  /\ s \o t \in Seq(S) /\ DOMAIN (s \o t) = 1..(Len(s) + Len(t))
         /\ Len(s) \in Nat /\ Len(t) \in Nat /\ DOMAIN s = 1..Len(s) /\ DOMAIN t = 1..Len(t)
         /\ Len(s \o t) = Len(s) + Len(t)
         /\ \A i \in 1..Len(s) : (s \o t)[i] = s[i]
         /\ \A i \in 1..Len(t) : (s \o t)[Len(s) + i] = t[i]
         /\ \A i \in 1..(Len(s) + Len(t)) : i \in 1..Len(s) \/ i - Len(s) \in 1..Len(t)
<1>1. /\ Len(s) \in Nat /\ Len(t) \in Nat /\ s \o t \in Seq(S)
      /\ Len(s \o t) = Len(s) + Len(t)
      /\ \A i \in 1..(Len(s) + Len(t)) : (s \o t)[i] = IF i <= Len(s) THEN s[i] ELSE t[i - Len(s)]
  BY ConcatProperties, LenProperties
<1>2. \A i \in 1..Len(s) : (s \o t)[i] = s[i]
  BY <1>1
<1>3. ASSUME NEW i \in 1..Len(t) PROVE (s \o t)[Len(s) + i] = t[i]
  <2>1. Len(s) + i \in 1..(Len(s) + Len(t)) /\ ~(Len(s) + i <= Len(s)) /\ (Len(s) + i) - Len(s) = i
    BY <1>1
  <2> QED BY <1>1, <2>1
<1>4. \A i \in 1..(Len(s) + Len(t)) : i \in 1..Len(s) \/ i - Len(s) \in 1..Len(t)
  BY <1>1
<1> QED BY <1>1, <1>2, <1>3, <1>4, LenProperties

\* Answers in step give increasing serials that end with the one executed last
LEMMA SerialsBehind ==
  ASSUME NEW a \in Seq(EventRecord), NEW from \in Nat, NEW to, InStep(a, from, to)
  PROVE  LET s == <<from>> \o Serials(a) IN Increasing(s) /\ s[Len(s)] = to
<1> DEFINE f == Serials(a)
           s == <<from>> \o f
<1>1. Len(a) \in Nat /\ DOMAIN a = 1..Len(a) /\ \A i \in DOMAIN a : a[i].serial \in Nat
  <2>1. \A x \in EventRecord : x.serial \in Nat
    BY CallAssumption DEF EventRecord
  <2> QED BY <2>1
<1>2. f = [i \in 1..Len(a) |-> a[i].serial]
  BY <1>1 DEF Serials
<1>3. f \in Seq(Nat) /\ Len(f) = Len(a)
  BY <1>1, <1>2
<1>4. <<from>> \in Seq(Nat) /\ Len(<<from>>) = 1 /\ <<from>>[1] = from
  OBVIOUS
<1> DEFINE h == <<from>>
<1> HIDE DEF f, h
<1>5. /\ s = h \o f /\ h \in Seq(Nat) /\ Len(h) = 1 /\ h[1] = from
  BY <1>4 DEF h
<1> HIDE DEF s
<1>6. /\ DOMAIN s = 1..(1 + Len(a)) /\ Len(s) = 1 + Len(a) /\ s[1] = from
      /\ \A i \in 1..Len(a) : s[1 + i] = f[i]
      /\ \A i \in 1..(1 + Len(a)) : i \in 1..1 \/ i - 1 \in 1..Len(a)
  <2>1. h \in Seq(Nat) /\ f \in Seq(Nat)
    BY <1>3, <1>5
  <2>2. /\ h \o f \in Seq(Nat) /\ DOMAIN (h \o f) = 1..(Len(h) + Len(f))
        /\ Len(h) \in Nat /\ Len(f) \in Nat /\ DOMAIN h = 1..Len(h) /\ DOMAIN f = 1..Len(f)
        /\ Len(h \o f) = Len(h) + Len(f)
        /\ \A i \in 1..Len(h) : (h \o f)[i] = h[i]
        /\ \A i \in 1..Len(f) : (h \o f)[Len(h) + i] = f[i]
        /\ \A i \in 1..(Len(h) + Len(f)) : i \in 1..Len(h) \/ i - Len(h) \in 1..Len(f)
    BY <2>1, Behind, Zenon
  <2>3. /\ DOMAIN s = 1..(1 + Len(a)) /\ Len(s) = 1 + Len(a)
        /\ \A i \in 1..Len(a) : s[1 + i] = f[i]
        /\ \A i \in 1..(1 + Len(a)) : i \in 1..1 \/ i - 1 \in 1..Len(a)
    BY <1>3, <1>5, <2>2, Zenon
  <2>4. \A i \in 1..1 : s[i] = h[i]
    BY <1>5, <2>2, Zenon
  <2>5. s[1] = from
    <3>1. 1 \in 1..1 /\ h[1] = from
      BY <1>5
    <3> QED BY <2>4, <3>1, Zenon
  <2> QED BY <2>3, <2>5
<1>7. \A i \in 1..Len(a) : s[1 + i] = a[i].serial
  BY <1>2, <1>6
<1>8. \A i \in DOMAIN s : i = 1 \/ (i - 1 \in 1..Len(a) /\ s[i] = a[i - 1].serial)
  BY <1>1, <1>6, <1>7
<1>9. /\ \A i \in 1..Len(a) : from < a[i].serial
      /\ \A i, j \in 1..Len(a) : i < j => a[i].serial < a[j].serial
      /\ IF a = <<>> THEN from = to ELSE a[Len(a)].serial = to
  BY <1>1 DEF InStep
<1>10. Increasing(s)
  <2> SUFFICES ASSUME NEW i \in DOMAIN s, NEW j \in DOMAIN s, i < j PROVE s[i] < s[j]
    BY DEF Increasing
  <2>1. j # 1
    BY <1>1, <1>6
  <2>2. j - 1 \in 1..Len(a) /\ s[j] = a[j - 1].serial
    BY <1>8, <2>1
  <2>3. CASE i = 1
    BY <1>6, <1>9, <2>2, <2>3
  <2>4. CASE i # 1
    <3>1. i - 1 \in 1..Len(a) /\ s[i] = a[i - 1].serial /\ i - 1 < j - 1
      BY <1>1, <1>6, <1>8, <2>4
    <3> QED BY <1>9, <2>2, <3>1
  <2> QED BY <2>3, <2>4
<1>11. s[Len(s)] = to
  <2>1. CASE a = <<>>
    BY <1>6, <1>9, <2>1, EmptySeq
  <2>2. CASE a # <<>>
    <3>1. Len(a) # 0
      BY <2>2, EmptySeq
    <3>2. Len(a) \in 1..Len(a)
      BY <1>1, <3>1
    <3> QED BY <1>6, <1>7, <1>9, <2>2, <3>2
  <2> QED BY <2>1, <2>2
<1> QED BY <1>10, <1>11 DEF s, f

\* While a client listens, the answers on their way to it are in the order of its calls
\* and end with the answer to the last one executed; what is held back is bounded
THEOREM AnswersAreComplete == Spec => []AnswersComplete
<1>1. ServiceInv => AnswersComplete
  <2> SUFFICES ASSUME ServiceInv PROVE AnswersComplete
    OBVIOUS
  <2>1. TypeInv /\ AnswerInv /\ sinks \in SUBSET Client
    BY DEF ServiceInv, TypeInv
  <2>2. PendingBounded
    BY <2>1 DEF AnswerInv, PendingBounded
  <2>3. ASSUME NEW c \in sinks, listening[c]
        PROVE  LET s == <<answered[c]>> \o Stream(c) IN Increasing(s) /\ s[Len(s)] = handled[c]
    <3>1. InStep(Answers(c), answered[c], handled[c])
      BY <2>1, <2>3 DEF AnswerInv
    <3>2. Answers(c) \in Seq(EventRecord) /\ answered[c] \in Nat
      BY <2>1, AnswerTypes
    <3>3. Stream(c) = Serials(Answers(c))
      BY DEF Stream, Answers
    <3> QED BY <3>1, <3>2, <3>3, SerialsBehind
  <2> QED BY <2>2, <2>3 DEF AnswersComplete
<1> QED BY <1>1, ServiceInvariant, PTL

\* The line of a client: the call at work, its lane and its messages
LEMMA InTheLine ==
  ASSUME TypeInv, NEW c \in Client
  PROVE  LET t == Len(Taken(c))
             n == Len(lane[c].ops)
         IN /\ t \in Nat /\ n \in Nat /\ Len(mailbox) \in Nat
            /\ t = (IF AtWork(c) THEN 1 ELSE 0)
            /\ DOMAIN Line(c) = 1..(t + n + Len(mailbox))
            /\ AtWork(c) => Line(c)[1] = job.op
            /\ \A i \in 1..n : Line(c)[t + i] = lane[c].ops[i]
            /\ \A i \in 1..Len(mailbox) : Line(c)[t + n + i] = mailbox[i]
<1> DEFINE S == Operation \cup Message
           w == Taken(c)
           ops == lane[c].ops
           box == mailbox
<1>1. AtWork(c) <=> job # NoJob /\ job.client = c
  BY JobFields DEF TypeInv, AtWork
<1>2. w = (IF AtWork(c) THEN <<job.op>> ELSE <<>>)
  BY <1>1 DEF Taken
<1>3. AtWork(c) => job.op \in S
  BY JobFields DEF TypeInv, AtWork
<1>4. box \in Seq(Message) /\ ops \in Seq(Operation)
  BY LaneFields DEF TypeInv
<1>5. Line(c) = (w \o ops) \o box
  BY DEF Line
<1> HIDE DEF S, w, ops, box
<1>6. box \in Seq(S) /\ ops \in Seq(S)
  <2>1. Message \subseteq S /\ Operation \subseteq S
    BY DEF S
  <2> QED BY <1>4, <2>1, SeqMonotonic
<1>7. /\ w \in Seq(S) /\ Len(w) = IF AtWork(c) THEN 1 ELSE 0
      /\ AtWork(c) => w[1] = job.op
  BY <1>2, <1>3, EmptySeq
<1> DEFINE v == w \o ops
<1>8. /\ v \in Seq(S) /\ Len(v) = Len(w) + Len(ops) /\ Len(w) \in Nat /\ Len(ops) \in Nat
      /\ \A i \in 1..Len(w) : v[i] = w[i]
      /\ \A i \in 1..Len(ops) : v[Len(w) + i] = ops[i]
  <2>1. w \in Seq(S) /\ ops \in Seq(S)
    BY <1>6, <1>7
  <2>2. /\ w \o ops \in Seq(S) /\ DOMAIN (w \o ops) = 1..(Len(w) + Len(ops))
        /\ Len(w) \in Nat /\ Len(ops) \in Nat /\ DOMAIN w = 1..Len(w) /\ DOMAIN ops = 1..Len(ops)
        /\ Len(w \o ops) = Len(w) + Len(ops)
        /\ \A i \in 1..Len(w) : (w \o ops)[i] = w[i]
        /\ \A i \in 1..Len(ops) : (w \o ops)[Len(w) + i] = ops[i]
        /\ \A i \in 1..(Len(w) + Len(ops)) : i \in 1..Len(w) \/ i - Len(w) \in 1..Len(ops)
    BY <2>1, Behind, Zenon
  <2> QED BY <2>2
<1> HIDE DEF v
<1>9. Line(c) = v \o box
  BY <1>5 DEF v
<1>10. /\ DOMAIN (v \o box) = 1..(Len(v) + Len(box)) /\ Len(v) \in Nat /\ Len(box) \in Nat
       /\ \A i \in 1..Len(v) : (v \o box)[i] = v[i]
       /\ \A i \in 1..Len(box) : (v \o box)[Len(v) + i] = box[i]
  BY <1>6, <1>8, Behind
<1>11. AtWork(c) => Line(c)[1] = job.op
  BY <1>7, <1>8, <1>9, <1>10
<1>12. \A i \in 1..Len(ops) : Line(c)[Len(w) + i] = ops[i]
  <2> SUFFICES ASSUME NEW i \in 1..Len(ops) PROVE Line(c)[Len(w) + i] = ops[i]
    OBVIOUS
  <2>1. Len(w) + i \in 1..Len(v)
    BY <1>8
  <2> QED BY <1>8, <1>9, <1>10, <2>1
<1> QED BY <1>7, <1>8, <1>9, <1>10, <1>11, <1>12 DEF w, ops, box

\* No accepted call of a client that is not dropped is forgotten or overtaken
THEOREM NothingIsForgotten == Spec => []NothingForgotten
<1>1. ServiceInv => NothingForgotten
  <2> SUFFICES ASSUME ServiceInv, NEW c \in Client, client[c] = "live"
               PROVE  /\ \A i \in Places(c) : Line(c)[i].serial \in (handled[c] + 1)..serial[c]
                      /\ \A i, j \in Places(c) : i < j => Line(c)[i].serial < Line(c)[j].serial
                      /\ serial[c] = handled[c] \/ InLine(c, serial[c])
    BY DEF NothingForgotten
  <2> DEFINE ops == lane[c].ops
             t == Len(Taken(c))
             n == Len(ops)
             k == Len(mailbox)
             L == Line(c)
             N == (handled[c] + 1)..serial[c]
             IsJob(i) == AtWork(c) /\ job.op.op # "detach" /\ i = 1 /\ L[i] = job.op
             IsOp(i) == /\ i - t \in 1..n /\ L[i] = ops[i - t] /\ L[i].op # "detach"
             IsLetter(i) == i - t - n \in 1..k /\ L[i] = mailbox[i - t - n] /\ IsCall(L[i], c)
  <2>1. TypeInv /\ CallsOrdered(c) /\ NewestKept(c) /\ LaneClosing(c)
    BY DEF ServiceInv, OrderInv, LaneInv
  <2>2. /\ t \in Nat /\ n \in Nat /\ k \in Nat /\ t = (IF AtWork(c) THEN 1 ELSE 0)
        /\ DOMAIN L = 1..(t + n + k)
        /\ AtWork(c) => L[1] = job.op
        /\ \A i \in 1..n : L[t + i] = ops[i]
        /\ \A i \in 1..k : L[t + n + i] = mailbox[i]
    BY <2>1, InTheLine
  <2>3. DOMAIN ops = 1..n /\ DOMAIN mailbox = 1..k /\ serial[c] \in Nat /\ handled[c] \in Nat
    BY <2>1, Numbers
  <2>4. /\ \A i \in 1..k : IsCall(mailbox[i], c) =>
             /\ mailbox[i].serial \in N
             /\ \A j \in 1..k :
                  i < j /\ IsCall(mailbox[j], c) => mailbox[i].serial < mailbox[j].serial
        /\ \A i \in 1..n : ops[i].op # "detach" =>
             /\ ops[i].serial \in N
             /\ \A j \in 1..n : i < j /\ ops[j].op # "detach" => ops[i].serial < ops[j].serial
             /\ \A j \in 1..k : IsCall(mailbox[j], c) => ops[i].serial < mailbox[j].serial
        /\ AtWork(c) /\ job.op.op # "detach" =>
             /\ job.op.serial \in N
             /\ \A j \in 1..n : ops[j].op # "detach" => job.op.serial < ops[j].serial
             /\ \A j \in 1..k : IsCall(mailbox[j], c) => job.op.serial < mailbox[j].serial
    BY <2>1, <2>3 DEF CallsOrdered
  <2>5. Places(c) = {i \in 1..(t + n + k) : L[i].op \in {"load", "save"} /\ L[i].client = c}
    BY <2>2 DEF Places
  <2>6. /\ \A i \in 1..n : ops[i].op # "detach" =>
             ops[i].op \in {"load", "save"} /\ ops[i].client = c
        /\ AtWork(c) /\ job.op.op # "detach" => job.op.op \in {"load", "save"} /\ job.op.client = c
    <3>1. \A i \in 1..n : ops[i] \in Operation
      BY <2>1, <2>3, Numbers
    <3>2. \A i \in 1..n : ops[i].op # "detach" => ops[i].op \in {"load", "save"} /\ ops[i].client = c
      BY <2>1, <2>3, <3>1, OperationFields DEF LaneClosing
    <3>3. AtWork(c) => job.op \in Operation
      BY <2>1, JobFields DEF TypeInv, AtWork
    <3>4. AtWork(c) /\ job.op.op # "detach" => job.op.op \in {"load", "save"} /\ job.op.client = c
      BY <2>1, <3>3, OperationFields DEF LaneClosing
    <3> QED BY <3>2, <3>4
  <2> HIDE DEF ops, t, n, k, L, N
  <2>7. ASSUME NEW i \in Places(c) PROVE i \in Int /\ (IsJob(i) \/ IsOp(i) \/ IsLetter(i))
    <3>1. i \in 1..(t + n + k) /\ L[i].op \in {"load", "save"} /\ L[i].client = c
      BY <2>5
    <3>2. i \in 1..t \/ i - t \in 1..n \/ i - t - n \in 1..k
      BY <2>2, <3>1
    <3>3. CASE i \in 1..t
      <4>1. AtWork(c) /\ i = 1
        BY <2>2, <3>3
      <4> QED BY <2>2, <3>1, <4>1
    <3>4. CASE i - t \in 1..n
      <4>1. t + (i - t) = i
        BY <2>2, <3>1
      <4>2. L[i] = ops[i - t]
        BY <2>2, <3>4, <4>1
      <4> QED BY <3>1, <3>4, <4>2
    <3>5. CASE i - t - n \in 1..k
      <4>1. t + n + (i - t - n) = i
        BY <2>2, <3>1
      <4>2. L[i] = mailbox[i - t - n]
        BY <2>2, <3>5, <4>1
      <4> QED BY <3>1, <3>5, <4>2 DEF IsCall
    <3> QED BY <3>2, <3>3, <3>4, <3>5
  <2>8. \A i \in Places(c) : L[i].serial \in N
    BY <2>4, <2>7
  <2>9. ASSUME NEW i \in Places(c), NEW j \in Places(c), i < j PROVE L[i].serial < L[j].serial
    <3>1. i \in Int /\ j \in Int
      BY <2>7
    <3>2. CASE IsJob(i)
      <4>1. ~IsJob(j)
        BY <2>9, <3>2
      <4> QED BY <2>4, <2>7, <3>2, <4>1
    <3>3. CASE IsOp(i)
      <4>1. ~IsJob(j)
        BY <2>2, <2>9, <3>1, <3>3
      <4>2. CASE IsOp(j)
        <5>1. i - t < j - t
          BY <2>2, <2>9, <3>1
        <5> QED BY <2>4, <3>3, <4>2, <5>1
      <4>3. CASE IsLetter(j)
        BY <2>4, <3>3, <4>3
      <4> QED BY <2>7, <4>1, <4>2, <4>3
    <3>4. CASE IsLetter(i)
      <4>1. ~IsJob(j) /\ ~IsOp(j)
        BY <2>2, <2>9, <3>1, <3>4
      <4>2. IsLetter(j) /\ i - t - n < j - t - n
        BY <2>2, <2>7, <2>9, <3>1, <4>1
      <4> QED BY <2>4, <3>4, <4>2
    <3> QED BY <2>7, <3>2, <3>3, <3>4
  <2>10. ASSUME serial[c] # handled[c] PROVE InLine(c, serial[c])
    <3>1. CASE \E i \in DOMAIN mailbox : IsCall(mailbox[i], c) /\ mailbox[i].serial = serial[c]
      <4>1. PICK i \in 1..k : IsCall(mailbox[i], c) /\ mailbox[i].serial = serial[c]
        BY <2>3, <3>1
      <4>2. t + n + i \in 1..(t + n + k) /\ L[t + n + i] = mailbox[i]
        BY <2>2, <4>1
      <4>3. t + n + i \in Places(c) /\ L[t + n + i].serial = serial[c]
        BY <2>5, <4>1, <4>2 DEF IsCall
      <4> QED BY <4>3 DEF InLine, L
    <3>2. CASE \E i \in 1..n : ops[i].op # "detach" /\ ops[i].serial = serial[c]
      <4>1. PICK i \in 1..n : ops[i].op # "detach" /\ ops[i].serial = serial[c]
        BY <3>2
      <4>2. t + i \in 1..(t + n + k) /\ L[t + i] = ops[i]
        BY <2>2, <4>1
      <4>3. t + i \in Places(c) /\ L[t + i].serial = serial[c]
        BY <2>5, <2>6, <4>1, <4>2
      <4> QED BY <4>3 DEF InLine, L
    <3>3. CASE AtWork(c) /\ job.op.op # "detach" /\ job.op.serial = serial[c]
      <4>1. 1 \in 1..(t + n + k) /\ L[1] = job.op
        BY <2>2, <3>3
      <4>2. 1 \in Places(c) /\ L[1].serial = serial[c]
        BY <2>5, <2>6, <3>3, <4>1
      <4> QED BY <4>2 DEF InLine, L
    <3>4. \/ \E i \in DOMAIN mailbox : IsCall(mailbox[i], c) /\ mailbox[i].serial = serial[c]
          \/ \E i \in 1..n : ops[i].op # "detach" /\ ops[i].serial = serial[c]
          \/ AtWork(c) /\ job.op.op # "detach" /\ job.op.serial = serial[c]
      BY <2>1, <2>3, <2>10 DEF NewestKept, ops
    <3> QED BY <3>1, <3>2, <3>3, <3>4
  <2> QED BY <2>8, <2>9, <2>10 DEF L, N
<1> QED BY <1>1, ServiceInvariant, PTL
=============================================================================

---------------------- MODULE AnnotationSessionProofs ----------------------
(****************************************************************************)
(* Proofs about AnnotationSession: what the reader takes for saved is saved, *)
(* and no edit is lost, for every set of readers, paths and edits and every  *)
(* capacity.  SessionInv adds to the invariant of the service, for each      *)
(* reader c, what holds of its calls and of their answers:                   *)
(*   ReaderInv  annotations exist only where they can be edited              *)
(*   CallsInv   CallOk: a save is made for the lane it waits in, with all    *)
(*              that the lane has seen on disk, from an earlier state of     *)
(*              the annotations; a load is the last call of its document     *)
(*   EventsInv  EventOk: an answer of the document shown tells what is on    *)
(*              disk                                                         *)
(*   StreamInv  answers come in the order of the calls, some of them lost    *)
(*   ReadyInv   clean annotations are on disk, and what a document shows     *)
(*              includes all that its lane has seen there                    *)
(* That a save never takes an edit from the disk rests on Covers: while the  *)
(* sidecar has the revision the lane observed, the snapshot to be written    *)
(* has all its marks; with another revision save_sidecar_if refuses.         *)
(*                                                                           *)
(* First come the steps of the service, lemma by lemma up to Aside, then the *)
(* steps of the reader, then both together.                                  *)
(****************************************************************************)
EXTENDS AnnotationSession, AnnotationServiceProofs

-----------------------------------------------------------------------------
(* The reader *)

\* The types of the reader's variables
ReaderTypes ==
  /\ generation \in [Client -> Nat]
  /\ path \in [Client -> Path \cup {NoPath}]
  /\ phase \in [Client -> {"none", "opening", "loading", "ready", "blocked"}]
  /\ annotations \in [Client -> Snapshot]
  /\ savedRev \in [Client -> Nat]
  /\ pendingOpen \in [Client -> Path \cup {NoPath}]

\* Annotations exist only where they can be edited
ReaderInv(c) ==
  /\ client[c] \in {"unattached", "live"}
  /\ phase[c] # "none" => path[c] \in Path
  /\ phase[c] # "ready" => annotations[c] = Empty
  /\ phase[c] = "ready" => savedRev[c] <= annotations[c].revision

\* The loads and saves of c that are to be executed
Calls(c) ==
  LET ops == lane[c].ops IN
  {mailbox[i] : i \in {j \in DOMAIN mailbox : IsCall(mailbox[j], c)}}
    \cup {ops[i] : i \in {j \in DOMAIN ops : ops[j].op # "detach"}}
    \cup (IF AtWork(c) /\ job.op.op # "detach" THEN {job.op} ELSE {})

\* The events on their way to c
Coming(c) == {Answers(c)[i] : i \in DOMAIN Answers(c)}

\* While the sidecar has the revision r, M has all its marks
Covered(r, s, M) ==
  r # NoRevision /\ r <= s.revision /\ (r = s.revision => s.marks \subseteq M)

\* M has all that the lane of c knows to be on disk
Covers(c, M) ==
  lane[c].path \in Path /\ Covered(lane[c].observed, store[lane[c].path], M)

\* The same of the document that the reader shows
Follows(c, M) ==
  lane[c].gen = generation[c] /\ lane[c].path = path[c] /\ Covers(c, M)

\* s is an earlier state of the annotations of c
Earlier(s, c) ==
  /\ s.revision <= annotations[c].revision
  /\ s.marks \subseteq annotations[c].marks
  /\ s.revision = annotations[c].revision => s.marks = annotations[c].marks

-----------------------------------------------------------------------------
(* The invariant *)

\* A save is of the document its lane has seen, a load of the one the reader waits for
CallOk(c, m) ==
  /\ m.gen <= generation[c]
  /\ m.op = "load" =>
       /\ phase[c] # "ready"
       /\ m.gen = generation[c] =>
            phase[c] = "loading" /\ m.path = path[c] /\ m.serial = serial[c]
  /\ m.op = "save" =>
       /\ m.gen = lane[c].gen /\ m.path = lane[c].path /\ Covers(c, m.snap.marks)
       /\ m.gen = generation[c] =>
            phase[c] = "ready" /\ m.path = path[c] /\ Earlier(m.snap, c)

\* Saves come before every load, and later saves have the marks of earlier ones
InOrder(m, n) ==
  /\ m.op = "load" /\ n.op = "save" => n.serial < m.serial
  /\ m.op = "save" /\ n.op = "save" /\ m.serial < n.serial => m.snap.marks \subseteq n.snap.marks

\* The calls of c, one by one and in pairs
CallsInv(c) == \A m \in Calls(c) : CallOk(c, m) /\ \A n \in Calls(c) : InOrder(m, n)

\* An event of the document shown says what is on disk
EventOk(c, e) ==
  /\ e.gen <= generation[c]
  /\ e.gen = generation[c] =>
       /\ e.kind \in {"loaded", "loadfailed"} => phase[c] = "loading" /\ e.serial = serial[c]
       /\ e.kind = "loaded" =>
            /\ e.snap.marks \subseteq store[path[c]].marks
            /\ ~shuttingDown => Follows(c, e.snap.marks)
       /\ e.kind = "saved" =>
            /\ phase[c] = "ready" /\ Earlier(e.snap, c)
            /\ e.snap.marks \subseteq store[path[c]].marks

\* The events on their way to c
EventsInv(c) == \A e \in Coming(c) : EventOk(c, e)

\* Events come in the order of the calls, also when some are lost
StreamInv(c) ==
  LET a == Answers(c) IN
  /\ \A i, j \in DOMAIN a : i < j => a[i].serial < a[j].serial
  /\ \A i \in DOMAIN a : a[i].serial <= handled[c]

\* What the reader takes for saved is on disk, and what it saves next covers the disk
ReadyInv(c) ==
  phase[c] = "ready" =>
    /\ ~shuttingDown => Follows(c, annotations[c].marks)
    /\ ~Dirty(c) => annotations[c].marks \subseteq store[path[c]].marks

\* The invariant of the reader c
SessionPart(c) ==
  ReaderInv(c) /\ CallsInv(c) /\ EventsInv(c) /\ StreamInv(c) /\ ReadyInv(c)

\* The inductive invariant
SessionInv == ServiceInv /\ ReaderTypes /\ \A c \in Client : SessionPart(c)

-----------------------------------------------------------------------------
(* What a step does to the events on their way *)

\* b is a stretch of a
Piece(b, a) == \E k \in Nat : \A i \in DOMAIN b : i + k \in DOMAIN a /\ b[i] = a[i + k]

\* Nothing, the start and the rest of a sequence are stretches of it
LEMMA Pieces ==
  ASSUME NEW S, NEW s \in Seq(S), NEW t \in Seq(S)
  PROVE  /\ Piece(s \o t, s \o t) /\ Piece(s \o <<>>, s \o t) /\ Piece(<<>> \o t, s \o t)
         /\ s # <<>> => Piece(Tail(s) \o t, s \o t)
<1> DEFINE a == s \o t
<1>1. /\ a \in Seq(S) /\ DOMAIN a = 1..(Len(s) + Len(t))
      /\ Len(s) \in Nat /\ Len(t) \in Nat /\ DOMAIN s = 1..Len(s) /\ DOMAIN t = 1..Len(t)
      /\ Len(a) = Len(s) + Len(t)
      /\ \A i \in 1..Len(s) : a[i] = s[i]
      /\ \A i \in 1..Len(t) : a[Len(s) + i] = t[i]
      /\ \A i \in 1..(Len(s) + Len(t)) : i \in 1..Len(s) \/ i - Len(s) \in 1..Len(t)
  BY Behind, Zenon
<1> HIDE DEF a
<1>2. Piece(a, a)
  <2>1. \A i \in DOMAIN a : i + 0 \in DOMAIN a /\ a[i] = a[i + 0]
    BY <1>1
  <2> QED BY <2>1 DEF Piece
<1>3. Piece(s \o <<>>, a)
  <2>1. s \o <<>> = s
    OBVIOUS
  <2>2. \A i \in DOMAIN s : i + 0 \in DOMAIN a /\ s[i] = a[i + 0]
    BY <1>1
  <2>3. Piece(s, a)
    BY <2>2 DEF Piece
  <2> QED BY <2>1, <2>3
<1>4. Piece(<<>> \o t, a)
  <2>1. <<>> \o t = t
    OBVIOUS
  <2>2. \A i \in DOMAIN t : i + Len(s) \in DOMAIN a /\ t[i] = a[i + Len(s)]
    <3> SUFFICES ASSUME NEW i \in 1..Len(t) PROVE i + Len(s) \in DOMAIN a /\ t[i] = a[i + Len(s)]
      BY <1>1
    <3>1. i + Len(s) = Len(s) + i /\ i + Len(s) \in 1..(Len(s) + Len(t))
      BY <1>1
    <3> QED BY <1>1, <3>1
  <2>3. Piece(t, a)
    BY <1>1, <2>2 DEF Piece
  <2> QED BY <2>1, <2>3
<1>5. ASSUME s # <<>> PROVE Piece(Tail(s) \o t, a)
  <2>1. Tail(s) \o t = Tail(a)
    <3> DEFINE v == Tail(s)
    <3>1. /\ v \in Seq(S) /\ Len(v) = Len(s) - 1 /\ Len(s) \in Nat \ {0}
          /\ \A i \in 1..(Len(s) - 1) : v[i] = s[i + 1]
      BY <1>5
    <3> HIDE DEF v
    <3>2. /\ v \o t \in Seq(S) /\ DOMAIN (v \o t) = 1..(Len(v) + Len(t))
          /\ Len(v) \in Nat /\ Len(t) \in Nat /\ DOMAIN v = 1..Len(v) /\ DOMAIN t = 1..Len(t)
          /\ Len(v \o t) = Len(v) + Len(t)
          /\ \A i \in 1..Len(v) : (v \o t)[i] = v[i]
          /\ \A i \in 1..Len(t) : (v \o t)[Len(v) + i] = t[i]
          /\ \A i \in 1..(Len(v) + Len(t)) : i \in 1..Len(v) \/ i - Len(v) \in 1..Len(t)
      BY <3>1, Behind, Zenon
    <3>3. Len(a) # 0 /\ a # <<>>
      BY <1>1, <3>1
    <3>4. /\ Tail(a) \in Seq(S) /\ Len(Tail(a)) = Len(a) - 1
          /\ \A i \in 1..(Len(a) - 1) : Tail(a)[i] = a[i + 1]
      BY <1>1, <3>3
    <3>5. Len(v \o t) = Len(Tail(a)) /\ Len(v) + Len(t) = Len(a) - 1
      BY <1>1, <3>1, <3>2, <3>4
    <3>6. ASSUME NEW i \in 1..(Len(v) + Len(t)) PROVE (v \o t)[i] = Tail(a)[i]
      <4>1. Tail(a)[i] = a[i + 1]
        BY <3>4, <3>5, <3>6
      <4>2. CASE i \in 1..Len(v)
        <5>1. i + 1 \in 1..Len(s) /\ i \in 1..(Len(s) - 1)
          BY <3>1, <4>2
        <5> QED BY <1>1, <3>1, <3>2, <4>1, <4>2, <5>1
      <4>3. CASE i - Len(v) \in 1..Len(t)
        <5>1. Len(v) + (i - Len(v)) = i /\ Len(s) + (i - Len(v)) = i + 1
          BY <3>1, <3>2
        <5>2. (v \o t)[i] = t[i - Len(v)] /\ a[i + 1] = t[i - Len(v)]
          BY <1>1, <3>2, <4>3, <5>1
        <5> QED BY <4>1, <5>2
      <4> QED BY <3>2, <4>2, <4>3
    <3>7. v \o t = Tail(a)
      BY <3>2, <3>4, <3>5, <3>6, SeqEqual
    <3> QED BY <3>7 DEF v
  <2>2. Len(a) # 0 /\ a # <<>>
    BY <1>1, <1>5, EmptySeq
  <2>3. \A i \in DOMAIN Tail(a) : i + 1 \in DOMAIN a /\ Tail(a)[i] = a[i + 1]
    BY <1>1, <2>2
  <2>4. Piece(Tail(a), a)
    BY <2>3 DEF Piece
  <2> QED BY <2>1, <2>4
<1> QED BY <1>2, <1>3, <1>4, <1>5 DEF a

\* send_event puts an event behind those on their way, or nowhere
LEMMA Sends ==
  ASSUME TypeInv, NEW e \in EventRecord, job \in Job, SendEvent(e), NEW c \in Client
  PROVE  \/ Answers(c)' = Answers(c)
         \/ c = job.client /\ Answers(c)' = Append(Answers(c), e)
<1>1. /\ events \in [Client -> Seq(EventRecord)] /\ pending \in [Client -> Seq(EventRecord)]
      /\ job.client \in Client
  BY JobFields DEF TypeInv
<1>2. events[c] \in Seq(EventRecord) /\ pending[c] \in Seq(EventRecord)
  BY <1>1
<1>3. CASE c # job.client
  BY <1>1, <1>3 DEF SendEvent, Answers
<1>4. CASE c = job.client /\ events'[c] = events[c] /\ pending'[c] = pending[c]
  BY <1>4 DEF Answers
<1>5. CASE c = job.client /\ events'[c] = Append(events[c], e) /\ pending'[c] = pending[c]
           /\ pending[c] = <<>>
  <2>1. Append(events[c], e) \in Seq(EventRecord)
    BY <1>2
  <2>2. Answers(c) = events[c] /\ Answers(c)' = Append(events[c], e)
    BY <1>2, <1>5, <2>1, ConcatEmptySeq DEF Answers
  <2> QED BY <1>5, <2>2
<1>6. CASE c = job.client /\ events'[c] = events[c] /\ pending'[c] = Append(pending[c], e)
  <2> DEFINE ev == events[c]
             p == pending[c]
  <2>1. ev \in Seq(EventRecord) /\ p \in Seq(EventRecord)
    BY <1>2
  <2> HIDE DEF ev, p
  <2>2. Append(p, e) = p \o <<e>> /\ <<e>> \in Seq(EventRecord) /\ ev \o p \in Seq(EventRecord)
    BY <2>1
  <2>3. Append(ev \o p, e) = (ev \o p) \o <<e>>
    BY <2>2
  <2>4. (ev \o p) \o <<e>> = ev \o (p \o <<e>>)
    BY <2>1, <2>2, ConcatAssociative
  <2>5. events[c] \o Append(pending[c], e) = Append(events[c] \o pending[c], e)
    BY <2>2, <2>3, <2>4 DEF ev, p
  <2> QED BY <1>6, <2>5 DEF Answers
<1>7. c = job.client =>
        \/ events'[c] = events[c] /\ pending'[c] = pending[c]
        \/ events'[c] = Append(events[c], e) /\ pending'[c] = pending[c] /\ pending[c] = <<>>
        \/ events'[c] = events[c] /\ pending'[c] = Append(pending[c], e)
  BY <1>1 DEF SendEvent
<1> QED BY <1>3, <1>4, <1>5, <1>6, <1>7

\* Flushing moves events to the channel or, with nobody listening, drops those held back
LEMMA Flushes ==
  ASSUME TypeInv, FlushAll, NEW c \in Client
  PROVE  Piece(Answers(c)', Answers(c))
<1>1. events[c] \in Seq(EventRecord) /\ pending[c] \in Seq(EventRecord)
  BY AnswerTypes
<1>2. /\ Piece(events[c] \o pending[c], events[c] \o pending[c])
      /\ Piece(events[c] \o <<>>, events[c] \o pending[c])
  BY <1>1, Pieces
<1>3. CASE c \in Disconnected
  <2>1. pending'[c] = <<>>
    BY <1>3, Flushing
  <2>2. events'[c] = events[c]
    BY <1>3 DEF FlushAll, Sent
  <2> QED BY <1>2, <2>1, <2>2 DEF Answers
<1>4. CASE c \notin Disconnected
  <2>1. events'[c] \o pending'[c] = events[c] \o pending[c]
    BY <1>4, Flushing
  <2> QED BY <1>2, <2>1 DEF Answers
<1> QED BY <1>3, <1>4

\* Except for the event of an operation executed, events only go
LEMMA AnswersGo ==
  ASSUME TypeInv, [AnyNext]_vars, ~Execute, NEW c \in Client
  PROVE  Piece(Answers(c)', Answers(c))
<1>1. events[c] \in Seq(EventRecord) /\ pending[c] \in Seq(EventRecord)
  BY AnswerTypes
<1>2. /\ Piece(events[c] \o pending[c], events[c] \o pending[c])
      /\ Piece(events[c] \o <<>>, events[c] \o pending[c])
      /\ Piece(<<>> \o pending[c], events[c] \o pending[c])
      /\ events[c] # <<>> => Piece(Tail(events[c]) \o pending[c], events[c] \o pending[c])
  BY <1>1, Pieces
<1>3. events \in [Client -> Seq(EventRecord)] /\ pending \in [Client -> Seq(EventRecord)]
  BY DEF TypeInv
<1>4. CASE events'[c] = events[c] /\ pending'[c] \in {pending[c], <<>>}
  BY <1>2, <1>4 DEF Answers
<1>5. CASE events'[c] = <<>> /\ pending'[c] = pending[c]
  BY <1>2, <1>5 DEF Answers
<1>6. CASE events[c] # <<>> /\ events'[c] = Tail(events[c]) /\ pending'[c] = pending[c]
  BY <1>2, <1>6 DEF Answers
<1>7. CASE FlushAll
  BY <1>7, Flushes
<1> DEFINE Goes == \/ events'[c] = events[c] /\ pending'[c] \in {pending[c], <<>>}
                   \/ events'[c] = <<>> /\ pending'[c] = pending[c]
                   \/ events[c] # <<>> /\ events'[c] = Tail(events[c]) /\ pending'[c] = pending[c]
                   \/ FlushAll
<1>8. ASSUME Environment PROVE Goes
  <2>1. ASSUME NEW d \in Client, Attach(d) PROVE Goes
    BY <2>1 DEF Attach, actorVars, laneVars
  <2>2. ASSUME NEW d \in Client, SendWake(d) PROVE Goes
    BY <2>2 DEF SendWake, actorVars, laneVars
  <2>3. ASSUME NEW d \in Client, StopListening(d) PROVE Goes
    BY <1>3, <2>3 DEF StopListening, actorVars, laneVars
  <2>4. Inspect \/ ReleaseHandle \/ SendShutdown => Goes
    BY DEF Inspect, ReleaseHandle, SendShutdown, actorVars, laneVars, channelVars
  <2>5. ASSUME NEW p \in Path, NEW m \in Foreign, ForeignSave(p, m) PROVE Goes
    BY <2>5 DEF ForeignSave, actorVars, laneVars, channelVars
  <2> HIDE DEF Goes
  <2> QED BY <1>8, <2>1, <2>2, <2>3, <2>4, <2>5 DEF Environment
<1>9. ASSUME AnyClientStep PROVE Goes
  <2>1. ASSUME NEW d \in Client, DropClient(d) PROVE Goes
    BY <2>1 DEF DropClient, actorVars, laneVars, channelVars
  <2>2. ASSUME NEW d \in Client, Receive(d) PROVE Goes
    BY <1>3, <2>2 DEF Receive, actorVars, laneVars
  <2>3. ASSUME NEW d \in Client, NEW request \in Request, Submit(d, request) PROVE Goes
    BY <2>3 DEF Submit, actorVars, laneVars
  <2> HIDE DEF Goes
  <2> QED BY <1>9, <2>1, <2>2, <2>3 DEF AnyClientStep
<1>10. ASSUME ActorStep PROVE Goes
  <2>1. Top \/ DrainEmpty \/ ReapDone \/ Reply => Goes
    BY DEF Top, DrainEmpty, ReapDone, Reply, laneVars, channelVars
  <2>2. IngestStep => Goes
    BY DEF IngestStep, IngestAttach, IngestLoad, IngestSave, IngestInspect, IngestWake,
           IngestShutdown, Ingest, laneVars
  <2>3. ASSUME NEW d \in Client, Reap(d) PROVE Goes
    BY <1>3, <2>3 DEF Reap, channelVars
  <2>4. Select \/ Wait => Goes
    BY DEF Select, Wait
  <2>5. DetachLane => Goes
    BY <1>3 DEF DetachLane, channelVars
  <2>6. StoreStep => DetachLane
    BY DEF StoreStep, Execute
  <2> HIDE DEF Goes
  <2> QED BY <1>10, <2>1, <2>2, <2>3, <2>4, <2>5, <2>6 DEF ActorStep
<1>11. Stopped \/ UNCHANGED vars => Goes
  BY DEF Stopped, vars, channelVars, actorVars, laneVars
<1>12. Goes
  <2> HIDE DEF Goes
  <2> QED BY <1>8, <1>9, <1>10, <1>11 DEF AnyNext
<1> QED BY <1>4, <1>5, <1>6, <1>7, <1>12

\* The events on their way form a sequence
LEMMA AnswerLists == TypeInv => \A d \in Client : Answers(d) \in Seq(EventRecord)
BY AnswerTypes

\* What remains of the events of a client is in order
LEMMA StreamGoes ==
  ASSUME TypeInv, TypeInv', NEW c \in Client, StreamInv(c), Piece(Answers(c)', Answers(c)),
         handled'[c] = handled[c]
  PROVE  StreamInv(c)' /\ Coming(c)' \subseteq Coming(c)
<1> DEFINE a == Answers(c)
           b == Answers(c)'
<1>1. Answers(c) \in Seq(EventRecord)
  BY AnswerTypes
<1>2. PICK k \in Nat : \A i \in DOMAIN b : i + k \in DOMAIN a /\ b[i] = a[i + k]
  BY DEF Piece
<1>3. \A i, j \in DOMAIN a : i < j => a[i].serial < a[j].serial
  BY DEF StreamInv
<1>4. \A i \in DOMAIN a : a[i].serial <= handled[c]
  BY DEF StreamInv
<1>5. DOMAIN a = 1..Len(a) /\ Len(a) \in Nat
  BY <1>1
<1>6. Coming(c) = {a[i] : i \in DOMAIN a} /\ Coming(c)' = {b[i] : i \in DOMAIN b}
  BY DEF Coming
<1>7. StreamInv(c)' <=> /\ \A i, j \in DOMAIN b : i < j => b[i].serial < b[j].serial
                        /\ \A i \in DOMAIN b : b[i].serial <= handled'[c]
  BY DEF StreamInv
<1>10. DOMAIN b \subseteq Int
  <2>1. (TypeInv => \A d \in Client : Answers(d) \in Seq(EventRecord))'
    BY AnswerLists, PTL
  <2>2. Answers(c)' \in Seq(EventRecord)
    BY <2>1
  <2> QED BY <2>2
<1> HIDE DEF a, b
<1>8. \A i, j \in DOMAIN b : i < j => b[i].serial < b[j].serial
  <2> SUFFICES ASSUME NEW i \in DOMAIN b, NEW j \in DOMAIN b, i < j PROVE b[i].serial < b[j].serial
    OBVIOUS
  <2>1. i + k < j + k
    BY <1>10
  <2> QED BY <1>2, <1>3, <2>1
<1>9. \A i \in DOMAIN b : b[i].serial <= handled'[c]
  BY <1>2, <1>4
<1> QED BY <1>2, <1>6, <1>7, <1>8, <1>9

\* The event of an operation executed is behind the others
LEMMA StreamGrows ==
  ASSUME TypeInv, NEW c \in Client, StreamInv(c), NEW e \in EventRecord,
         Answers(c)' = Answers(c) \/ Answers(c)' = Append(Answers(c), e),
         e.serial > handled[c], handled'[c] = e.serial
  PROVE  StreamInv(c)' /\ Coming(c)' \subseteq Coming(c) \cup {e}
<1> DEFINE a == Answers(c)
           b == Answers(c)'
           n == Len(Answers(c))
<1>1. a \in Seq(EventRecord) /\ handled[c] \in Nat /\ e.serial \in Nat
  <2>1. Answers(c) \in Seq(EventRecord) /\ handled[c] \in Nat
    BY AnswerTypes
  <2>2. e.serial \in 1..MaxCalls /\ MaxCalls \in Nat
    BY CallAssumption DEF EventRecord
  <2> QED BY <2>1, <2>2
<1>2. /\ \A i, j \in DOMAIN a : i < j => a[i].serial < a[j].serial
      /\ \A i \in DOMAIN a : a[i].serial <= handled[c]
  BY DEF StreamInv
<1>3. DOMAIN a = 1..n /\ n \in Nat
  BY <1>1
<1>4. Coming(c) = {a[i] : i \in DOMAIN a} /\ Coming(c)' = {b[i] : i \in DOMAIN b}
  BY DEF Coming
<1>5. StreamInv(c)' <=> /\ \A i, j \in DOMAIN b : i < j => b[i].serial < b[j].serial
                        /\ \A i \in DOMAIN b : b[i].serial <= e.serial
  BY DEF StreamInv
<1>6. b = a \/ b = Append(a, e)
  OBVIOUS
<1>7. /\ DOMAIN Append(a, e) = 1..(n + 1) /\ \A i \in 1..n : Append(a, e)[i] = a[i]
      /\ Append(a, e)[n + 1] = e
  BY <1>1
<1>8. \A i \in DOMAIN a : a[i].serial \in Nat
  <2>1. \A x \in EventRecord : x.serial \in Nat
    BY CallAssumption DEF EventRecord
  <2> QED BY <1>1, <2>1
<1> HIDE DEF a, b, n
<1>9. \A i \in DOMAIN b : (i \in 1..n /\ b[i] = a[i]) \/ (i = n + 1 /\ b[i] = e)
  BY <1>3, <1>6, <1>7
<1>10. ASSUME NEW i \in DOMAIN b, NEW j \in DOMAIN b, i < j PROVE b[i].serial < b[j].serial
  <2>1. CASE i \in 1..n /\ b[i] = a[i] /\ j \in 1..n /\ b[j] = a[j]
    BY <1>2, <1>3, <1>10, <2>1
  <2>2. CASE i \in 1..n /\ b[i] = a[i] /\ j = n + 1 /\ b[j] = e
    <3>1. a[i].serial <= handled[c] /\ a[i].serial \in Nat
      BY <1>2, <1>3, <1>8, <2>2
    <3> QED BY <1>1, <2>2, <3>1
  <2>3. ~(i = n + 1)
    BY <1>3, <1>9, <1>10
  <2> QED BY <1>9, <2>1, <2>2, <2>3
<1>11. ASSUME NEW i \in DOMAIN b PROVE b[i].serial <= e.serial
  <2>1. CASE i \in 1..n /\ b[i] = a[i]
    <3>1. a[i].serial <= handled[c] /\ a[i].serial \in Nat
      BY <1>2, <1>3, <1>8, <2>1
    <3> QED BY <1>1, <2>1, <3>1
  <2>2. CASE b[i] = e
    BY <1>1, <2>2
  <2> QED BY <1>9, <2>1, <2>2
<1> QED BY <1>3, <1>4, <1>5, <1>9, <1>10, <1>11

\* The first event of a client is the oldest
LEMMA StreamHead ==
  ASSUME TypeInv, TypeInv', NEW c \in Client, StreamInv(c), Receive(c)
  PROVE  LET e == Head(events[c])
         IN /\ e \in Coming(c) /\ e \in EventRecord /\ StreamInv(c)'
            /\ \A d \in Coming(c)' : d \in Coming(c) /\ e.serial < d.serial
            /\ \A d \in Coming(c) : d \in EventRecord /\ d.serial <= handled[c]
<1> DEFINE e == Head(events[c])
           a == Answers(c)
<1>1. events[c] \in Seq(EventRecord) /\ pending[c] \in Seq(EventRecord) /\ events[c] # <<>>
  BY AnswerTypes DEF Receive
<1>2. events'[c] = Tail(events[c]) /\ pending'[c] = pending[c] /\ handled' = handled
  BY DEF Receive, TypeInv, actorVars, laneVars
<1>3. a \in Seq(EventRecord) /\ a # <<>> /\ a[1] = e /\ Answers(c)' = Tail(a)
  <2> DEFINE s == events[c]
             p == pending[c]
  <2>1. s \in Seq(EventRecord) /\ p \in Seq(EventRecord) /\ s # <<>>
    BY <1>1
  <2>2. a = s \o p /\ Answers(c)' = Tail(s) \o p /\ e = Head(s)
    BY <1>2 DEF Answers
  <2> HIDE DEF s, p, a, e
  <2>3. /\ s \o p \in Seq(EventRecord) /\ s \o p # <<>> /\ (s \o p)[1] = Head(s)
        /\ Tail(s \o p) = Tail(s) \o p
    BY <2>1, TailOfConcat, Zenon
  <2> QED BY <2>2, <2>3
<1> HIDE DEF e, a
<1>4. /\ Len(a) \in Nat \ {0} /\ DOMAIN a = 1..Len(a) /\ 1 \in DOMAIN a
      /\ DOMAIN Tail(a) = 1..(Len(a) - 1)
      /\ \A i \in 1..(Len(a) - 1) : Tail(a)[i] = a[i + 1] /\ i + 1 \in DOMAIN a /\ 1 < i + 1
      /\ \A i \in DOMAIN a : a[i] \in EventRecord
  BY <1>3
<1>5. \A i \in DOMAIN Tail(a) : i + 1 \in DOMAIN a /\ Tail(a)[i] = a[i + 1]
  BY <1>4
<1>6. Piece(Answers(c)', Answers(c))
  BY <1>3, <1>5 DEF Piece, a
<1>7. StreamInv(c)' /\ Coming(c)' \subseteq Coming(c)
  BY <1>2, <1>6, StreamGoes
<1>8. Coming(c) = {a[i] : i \in DOMAIN a}
  BY DEF Coming, a
<1>9. Coming(c)' = {Tail(a)[i] : i \in DOMAIN Tail(a)}
  BY <1>3 DEF Coming
<1>10. /\ \A i, j \in DOMAIN a : i < j => a[i].serial < a[j].serial
       /\ \A i \in DOMAIN a : a[i].serial <= handled[c]
  BY DEF StreamInv, a
<1>11. \A d \in Coming(c)' : e.serial < d.serial
  BY <1>3, <1>4, <1>9, <1>10
<1>12. e \in Coming(c) /\ e \in EventRecord
  BY <1>3, <1>4, <1>8
<1>13. \A d \in Coming(c) : d \in EventRecord /\ d.serial <= handled[c]
  BY <1>4, <1>8, <1>10
<1> QED BY <1>7, <1>11, <1>12, <1>13 DEF e

-----------------------------------------------------------------------------
(* What a step does to the calls of a client *)

\* Where a call may be
LEMMA CallIn ==
  ASSUME NEW c \in Client, NEW m
  PROVE  m \in Calls(c) <=>
           \/ \E i \in DOMAIN mailbox : IsCall(mailbox[i], c) /\ m = mailbox[i]
           \/ \E i \in DOMAIN lane[c].ops : lane[c].ops[i].op # "detach" /\ m = lane[c].ops[i]
           \/ AtWork(c) /\ job.op.op # "detach" /\ m = job.op
BY DEF Calls

\* Every call that is left is one that was there
CallsKept(c) == \A m \in Calls(c)' : \E n \in Calls(c) : SameCall(m, n)

\* Where a call may be after a step
LEMMA CallThen ==
  ASSUME NEW c \in Client, NEW m \in Calls(c)'
  PROVE  \/ \E i \in DOMAIN mailbox' : IsCall(mailbox'[i], c) /\ m = mailbox'[i]
         \/ \E i \in DOMAIN lane'[c].ops : lane'[c].ops[i].op # "detach" /\ m = lane'[c].ops[i]
         \/ AtWork(c)' /\ job'.op.op # "detach" /\ m = job'.op
BY DEF Calls

\* A step that moves the mailbox on and leaves the lane its calls keeps them
LEMMA KeptWhereTheyAre ==
  ASSUME TypeInv, NEW c \in Client, NEW k \in {0, 1}, Shifted(k), CallsStay(c),
         AtWork(c)' => AtWork(c) /\ job' = job
  PROVE  CallsKept(c)
<1> SUFFICES ASSUME NEW m \in Calls(c)' PROVE m \in Calls(c)
  BY DEF CallsKept, SameCall
<1>1. CASE \E i \in DOMAIN mailbox' : IsCall(mailbox'[i], c) /\ m = mailbox'[i]
  <2>1. PICK i \in DOMAIN mailbox' : IsCall(mailbox'[i], c) /\ m = mailbox'[i]
    BY <1>1
  <2>2. i + k \in DOMAIN mailbox /\ mailbox[i + k] = m /\ IsCall(mailbox[i + k], c)
    BY <2>1 DEF Shifted, IsCall
  <2> QED BY <2>2, CallIn
<1>2. CASE \E i \in DOMAIN lane'[c].ops : lane'[c].ops[i].op # "detach" /\ m = lane'[c].ops[i]
  <2>1. \E i \in DOMAIN lane[c].ops : lane[c].ops[i].op # "detach" /\ m = lane[c].ops[i]
    BY <1>2 DEF CallsStay
  <2> QED BY <2>1, CallIn
<1>3. CASE AtWork(c)' /\ job'.op.op # "detach" /\ m = job'.op
  BY <1>3, CallIn
<1> QED BY <1>1, <1>2, <1>3, CallThen

\* A message that is no call of the client
LEMMA KeptBehind ==
  ASSUME TypeInv, NEW c \in Client, NEW x \in Message,
         mailbox' = mailbox \/ (mailbox' = Append(mailbox, x) /\ ~IsCall(x, c)), UNCHANGED actorVars
  PROVE  CallsKept(c)
<1>1. UNCHANGED <<lane, job, pc>>
  BY DEF actorVars, laneVars
<1>2. AtWork(c)' = AtWork(c)
  BY <1>1 DEF AtWork
<1> SUFFICES ASSUME NEW m \in Calls(c)' PROVE m \in Calls(c)
  BY DEF CallsKept, SameCall
<1>3. CASE \E i \in DOMAIN mailbox' : IsCall(mailbox'[i], c) /\ m = mailbox'[i]
  <2>1. PICK i \in DOMAIN mailbox' : IsCall(mailbox'[i], c) /\ m = mailbox'[i]
    BY <1>3
  <2>2. i \in DOMAIN mailbox /\ mailbox[i] = mailbox'[i]
    <3>1. CASE mailbox' = mailbox
      BY <2>1, <3>1
    <3>2. CASE mailbox' = Append(mailbox, x) /\ ~IsCall(x, c)
      <4>1. /\ Len(mailbox) \in Nat
            /\ DOMAIN mailbox = 1..Len(mailbox) /\ DOMAIN mailbox' = 1..(Len(mailbox) + 1)
            /\ \A j \in DOMAIN mailbox : mailbox'[j] = mailbox[j]
            /\ mailbox'[Len(mailbox) + 1] = x
        BY <3>2, Posting DEF TypeInv
      <4>2. i # Len(mailbox) + 1
        BY <2>1, <3>2, <4>1
      <4>3. i \in DOMAIN mailbox
        BY <2>1, <4>1, <4>2
      <4> QED BY <4>1, <4>3
    <3> QED BY <3>1, <3>2
  <2> QED BY <2>1, <2>2, CallIn
<1>4. CASE \E i \in DOMAIN lane'[c].ops : lane'[c].ops[i].op # "detach" /\ m = lane'[c].ops[i]
  BY <1>1, <1>4, CallIn
<1>5. CASE AtWork(c)' /\ job'.op.op # "detach" /\ m = job'.op
  BY <1>1, <1>2, <1>5, CallIn
<1> QED BY <1>3, <1>4, <1>5, CallThen

\* A call moves from the mailbox to its lane, as itself or for the save it replaces
LEMMA KeptIntoLane ==
  ASSUME TypeInv, NEW c \in Client, Shifted(1), 1 \in DOMAIN mailbox,
         IsCall(mailbox[1], c), lane'[c].ops \in Seq(Operation),
         Extends(lane'[c].ops, lane[c].ops, mailbox[1]),
         \A i \in DOMAIN lane[c].ops : lane[c].ops[i].op # "detach", ~AtWork(c)'
  PROVE  CallsKept(c)
<1> SUFFICES ASSUME NEW m \in Calls(c)' PROVE \E n \in Calls(c) : SameCall(m, n)
  BY DEF CallsKept
<1>1. SameCall(m, m)
  BY DEF SameCall
<1>2. CASE \E i \in DOMAIN mailbox' : IsCall(mailbox'[i], c) /\ m = mailbox'[i]
  <2>1. PICK i \in DOMAIN mailbox' : IsCall(mailbox'[i], c) /\ m = mailbox'[i]
    BY <1>2
  <2>2. i + 1 \in DOMAIN mailbox /\ mailbox[i + 1] = m /\ IsCall(mailbox[i + 1], c)
    BY <2>1 DEF Shifted, IsCall
  <2> QED BY <1>1, <2>2, CallIn
<1>3. CASE \E i \in DOMAIN lane'[c].ops : lane'[c].ops[i].op # "detach" /\ m = lane'[c].ops[i]
  <2> DEFINE old == lane[c].ops
             new == lane'[c].ops
  <2>1. PICK i \in DOMAIN new : m = new[i]
    BY <1>3
  <2>2. /\ old \in Seq(Operation) /\ Len(old) \in Nat /\ DOMAIN old = 1..Len(old)
    BY Numbers
  <2>3. /\ new # <<>> /\ Len(new) \in {Len(old), Len(old) + 1}
        /\ \A j \in 1..(Len(new) - 1) : new[j] = old[j]
        /\ SameCall(new[Len(new)], mailbox[1])
        /\ Len(new) \in Nat /\ DOMAIN new = 1..Len(new)
    BY DEF Extends
  <2>4. \A j \in DOMAIN old : old[j].op # "detach"
    OBVIOUS
  <2>5. old = lane[c].ops
    OBVIOUS
  <2> HIDE DEF old, new
  <2>6. CASE i = Len(new)
    <3>1. mailbox[1] \in Calls(c)
      BY CallIn
    <3> QED BY <2>1, <2>3, <2>6, <3>1
  <2>7. CASE i # Len(new)
    <3>1. i \in 1..(Len(new) - 1) /\ i \in DOMAIN old
      <4>1. i \in 1..Len(new) /\ Len(new) \in Nat /\ Len(old) \in Nat
            /\ (Len(new) = Len(old) \/ Len(new) = Len(old) + 1)
        BY <2>1, <2>2, <2>3
      <4>2. i \in 1..(Len(new) - 1) /\ i \in 1..Len(old)
        BY <4>1, <2>7
      <4> QED BY <2>2, <4>2
    <3>2. m = old[i] /\ old[i].op # "detach"
      BY <2>1, <2>3, <2>4, <3>1
    <3>3. m \in Calls(c)
      BY <2>5, <3>1, <3>2, CallIn
    <3> QED BY <1>1, <3>3
  <2> QED BY <2>6, <2>7
<1> QED BY <1>2, <1>3, CallThen

\* The first operation of a lane is taken
LEMMA KeptAtWork ==
  ASSUME TypeInv, NEW c \in Client, UNCHANGED mailbox,
         lane[c].ops # <<>>, lane'[c].ops = Tail(lane[c].ops), job'.op = lane[c].ops[1]
  PROVE  CallsKept(c)
<1> SUFFICES ASSUME NEW m \in Calls(c)' PROVE m \in Calls(c)
  BY DEF CallsKept, SameCall
<1>1. CASE \E i \in DOMAIN mailbox' : IsCall(mailbox'[i], c) /\ m = mailbox'[i]
  <2>1. \E i \in DOMAIN mailbox : IsCall(mailbox[i], c) /\ m = mailbox[i]
    BY <1>1
  <2> QED BY <2>1, CallIn
<1> DEFINE old == lane[c].ops
<1>2. /\ old \in Seq(Operation) /\ old # <<>>
  BY Numbers
<1>3. lane'[c].ops = Tail(old) /\ job'.op = old[1]
  OBVIOUS
<1>4. \A n : (\E i \in DOMAIN old : old[i].op # "detach" /\ n = old[i]) => n \in Calls(c)
  BY CallIn
<1> HIDE DEF old
<1>5. /\ 1 \in DOMAIN old
      /\ \A i \in DOMAIN Tail(old) : i + 1 \in DOMAIN old /\ Tail(old)[i] = old[i + 1]
  BY <1>2
<1>6. CASE \E i \in DOMAIN lane'[c].ops : lane'[c].ops[i].op # "detach" /\ m = lane'[c].ops[i]
  BY <1>3, <1>4, <1>5, <1>6
<1>7. CASE AtWork(c)' /\ job'.op.op # "detach" /\ m = job'.op
  BY <1>3, <1>4, <1>5, <1>7
<1> QED BY <1>1, <1>6, <1>7, CallThen

\* What a step of the clients or the environment does to the calls of c
LEMMA KeptOutside ==
  ASSUME TypeInv, Environment \/ AnyClientStep, NEW c \in Client
  PROVE  CallsKept(c) \/ \E request \in Request : Submit(c, request)
<1>1. UNCHANGED actorVars
  BY Outside
<1> DEFINE Kept == \E x \in Message : \/ mailbox' = mailbox
                                      \/ mailbox' = Append(mailbox, x) /\ ~IsCall(x, c)
<1>2. Kept => CallsKept(c)
  BY <1>1, KeptBehind
<1>3. \E x : x \in Message
  BY Posts
<1>4. ASSUME NEW d \in Client, Attach(d) PROVE Kept
  <2>1. mailbox' = Append(mailbox, [op |-> "attach", client |-> d])
    BY <1>4 DEF Attach, Post
  <2> QED BY <2>1, Posts DEF IsCall
<1>5. ASSUME NEW d \in Client, SendWake(d) PROVE Kept
  <2>1. mailbox' \in {Append(mailbox, [op |-> "wake"]), mailbox}
    BY <1>5 DEF SendWake
  <2> QED BY <2>1, Posts DEF IsCall
<1>6. ASSUME Inspect PROVE Kept
  <2> DEFINE S == {d \in Client : client[d] \in {"dropping", "dropped"}}
  <2>1. mailbox' = Append(mailbox, [op |-> "inspect", gone |-> S]) /\ S \in SUBSET Client
    BY <1>6 DEF Inspect, Post
  <2> HIDE DEF S
  <2> QED BY <2>1, Posts DEF IsCall
<1>7. ASSUME SendShutdown PROVE Kept
  <2>1. mailbox' = Append(mailbox, [op |-> "shutdown"])
    BY <1>7 DEF SendShutdown, Post
  <2> QED BY <2>1, Posts DEF IsCall
<1>8. ASSUME NEW d \in Client, NEW request \in Request, Submit(d, request), d # c PROVE Kept
  <2> DEFINE m == Numbered(d, request)
  <2>1. m \in Message /\ m.client = d /\ mailbox' = Append(mailbox, m)
    BY <1>8, SubmitPosts DEF Submit, Post
  <2> HIDE DEF m
  <2> QED BY <1>8, <2>1 DEF IsCall
<1>9. ASSUME NEW d \in Client, DropClient(d) \/ StopListening(d) \/ Receive(d) PROVE Kept
  BY <1>3, <1>9 DEF DropClient, StopListening, Receive, channelVars
<1>10. ASSUME ReleaseHandle \/ \E p \in Path, m \in Foreign : ForeignSave(p, m) PROVE Kept
  BY <1>3, <1>10 DEF ReleaseHandle, ForeignSave, channelVars
<1> HIDE DEF Kept
<1> QED BY <1>2, <1>4, <1>5, <1>6, <1>7, <1>8, <1>9, <1>10 DEF Environment, AnyClientStep

\* What a call taken from the mailbox does to the calls of c
LEMMA KeptCalling ==
  ASSUME TypeInv, LaneInv, IngestLoad \/ IngestSave, NEW c \in Client
  PROVE  CallsKept(c)
<1>1. PICK d \in Client, m \in Operation :
      /\ m = Head(mailbox) /\ pc = "drain" /\ mailbox # <<>> /\ mailbox' = Tail(mailbox)
      /\ IsCall(m, d)
      /\ UNCHANGED <<clientVars, pc, job, handled>>
      /\ Open(d) => \E ops \in Seq(Operation) : /\ Extends(ops, lane[d].ops, m)
                                                /\ Schedule({d}, [lane EXCEPT ![d].ops = ops])
      /\ ~Open(d) => UNCHANGED <<lane, ready, readySet>>
  BY Calling
<1>2. m = mailbox[1] /\ 1 \in DOMAIN mailbox /\ Shifted(1)
  <2>1. /\ mailbox \in Seq(Message) /\ Head(mailbox) = mailbox[1] /\ Len(mailbox) \in Nat \ {0}
        /\ DOMAIN mailbox = 1..Len(mailbox)
    BY <1>1, Taking DEF TypeInv
  <2>2. 1 \in DOMAIN mailbox
    BY <2>1
  <2>3. Shifted(1)
    BY <1>1, ShiftedTail
  <2> QED BY <1>1, <2>1, <2>2, <2>3
<1>3. ~AtWork(c) /\ ~AtWork(c)'
  BY <1>1 DEF AtWork
<1>4. CASE Open(d)
  <2>1. PICK ops \in Seq(Operation) : /\ Extends(ops, lane[d].ops, m)
                                      /\ Schedule({d}, [lane EXCEPT ![d].ops = ops])
    BY <1>1, <1>4
  <2> DEFINE L == [lane EXCEPT ![d].ops = ops]
  <2>2. lane \in [Client -> Lane] /\ ready \in Seq(Client) /\ readySet \in SUBSET Client
        /\ {d} \in SUBSET Client
    BY DEF TypeInv
  <2>3. L \in [Client -> Lane] /\ L[d].ops = ops /\ \A b \in Client \ {d} : L[b] = lane[b]
    BY <2>2, NewOps, Zenon
  <2>4. Schedule({d}, L)
    BY <2>1
  <2> HIDE DEF L
  <2>5. \A b \in Client : /\ lane'[b].ops = L[b].ops /\ lane'[b].closing = L[b].closing
                          /\ lane'[b].scheduled = (L[b].scheduled \/ b \in Unscheduled({d}, L))
                          /\ b \notin {d} => lane'[b] = L[b]
    BY <2>2, <2>3, <2>4, Scheduling, Zenon
  <2>6. CASE c = d
    <3>1. lane'[c].ops \in Seq(Operation) /\ Extends(lane'[c].ops, lane[c].ops, mailbox[1])
          /\ IsCall(mailbox[1], c)
      BY <1>1, <1>2, <2>1, <2>3, <2>5, <2>6
    <3>2. \A i \in DOMAIN lane[c].ops : lane[c].ops[i].op # "detach"
      BY <1>4, <2>6 DEF LaneInv, LaneClosing, Open
    <3> QED BY <1>2, <1>3, <3>1, <3>2, KeptIntoLane
  <2>7. CASE c # d
    <3>1. lane'[c].ops = lane[c].ops
      BY <2>3, <2>5, <2>7
    <3>2. CallsStay(c)
      BY <3>1, DetachStays
    <3> QED BY <1>2, <1>3, <3>2, KeptWhereTheyAre
  <2> QED BY <2>6, <2>7
<1>5. CASE ~Open(d)
  <2>1. CallsStay(c)
    BY <1>1, <1>5, DetachStays
  <2> QED BY <1>2, <1>3, <2>1, KeptWhereTheyAre
<1> QED BY <1>4, <1>5

\* A step of the actor's loop adds no call
LEMMA KeptInside ==
  ASSUME TypeInv, ClientInv, LaneInv, ActorStep, NEW c \in Client
  PROVE  CallsKept(c)
<1>1. ASSUME UNCHANGED mailbox, CallsStay(c), AtWork(c)' => AtWork(c) /\ job' = job
      PROVE  CallsKept(c)
  <2>1. Shifted(0)
    BY <1>1, ShiftedTail
  <2> QED BY <1>1, <2>1, KeptWhereTheyAre
<1>2. ASSUME mailbox # <<>>, mailbox' = Tail(mailbox), CallsStay(c), pc # "store", pc' # "store"
      PROVE  CallsKept(c)
  <2>1. Shifted(1)
    BY <1>2, ShiftedTail
  <2>2. ~AtWork(c)'
    BY <1>2 DEF AtWork
  <2> QED BY <1>2, <2>1, <2>2, KeptWhereTheyAre
<1>3. CASE Top \/ DrainEmpty \/ ReapDone \/ Reply \/ Wait
  <2>1. UNCHANGED <<mailbox, lane>> /\ pc # "store" /\ pc' # "store"
    BY <1>3 DEF Top, DrainEmpty, ReapDone, Reply, Wait, channelVars, laneVars
  <2>2. CallsStay(c)
    BY <2>1, DetachStays
  <2> QED BY <1>1, <2>1, <2>2 DEF AtWork
<1>4. CASE IngestAttach \/ IngestInspect \/ IngestWake
  <2>1. /\ UNCHANGED lane /\ pc # "store" /\ pc' # "store" /\ mailbox # <<>>
        /\ mailbox' = Tail(mailbox)
    BY <1>4, Attaching DEF IngestAttach, IngestInspect, IngestWake, Ingest, laneVars
  <2>2. CallsStay(c)
    BY <2>1, DetachStays
  <2> QED BY <1>2, <2>1, <2>2
<1>5. CASE IngestShutdown
  <2>1. PICK S \in SUBSET documents :
          /\ S = {d \in documents : ~lane[d].closing} /\ Schedule(S, Closed(S))
          /\ pc # "store" /\ pc' # "store" /\ UNCHANGED documents
    BY <1>5 DEF IngestShutdown, Ingest
  <2>2. /\ \A d \in S : lane'[d].ops = Append(lane[d].ops, Detach)
        /\ \A d \in Client \ S : lane'[d] = lane[d]
    BY <2>1, ClosesLanes
  <2>3. CallsStay(c)
    BY <2>2, DetachStays
  <2>4. mailbox # <<>> /\ mailbox' = Tail(mailbox)
    BY <1>5 DEF IngestShutdown, Ingest
  <2> QED BY <1>2, <2>1, <2>3, <2>4
<1>6. ASSUME NEW d \in Client, Reap(d) PROVE CallsKept(c)
  <2>1. UNCHANGED mailbox /\ pc # "store" /\ pc' # "store"
    BY <1>6 DEF Reap, channelVars
  <2>2. lane'[c].ops = lane[c].ops \/ lane'[c].ops = Append(lane[c].ops, Detach)
    <3>1. CASE client[d] \in {"dropping", "dropped"} /\ ~lane[d].closing
      <4>1. /\ {d} \in SUBSET documents /\ Schedule({d}, Closed({d}))
            /\ pc # "store" /\ pc' # "store" /\ UNCHANGED documents
        BY <1>6, <3>1 DEF Reap, LaneInv
      <4>2. /\ \A b \in {d} : lane'[b].ops = Append(lane[b].ops, Detach)
            /\ \A b \in Client \ {d} : lane'[b] = lane[b]
        BY <4>1, ClosesLanes
      <4> QED BY <4>2
    <3>2. CASE ~(client[d] \in {"dropping", "dropped"} /\ ~lane[d].closing)
      BY <1>6, <3>2 DEF Reap
    <3> QED BY <3>1, <3>2
  <2>3. CallsStay(c)
    BY <2>2, DetachStays
  <2> QED BY <1>1, <2>1, <2>3 DEF AtWork
<1>7. CASE Select
  <2>1. PICK d \in documents :
           /\ pc = "select" /\ pc' = "store" /\ d \in Client /\ lane[d].ops # <<>>
           /\ lane'[d].ops = Tail(lane[d].ops)
           /\ job'.client = d /\ job'.op = lane[d].ops[1]
           /\ UNCHANGED mailbox
           /\ \A b \in Client \ {d} : lane'[b] = lane[b]
    BY <1>7, Selecting
  <2>2. CASE c = d
    BY <2>1, <2>2, KeptAtWork
  <2>3. CASE c # d
    <3>1. ~AtWork(c)' /\ lane'[c] = lane[c]
      BY <2>1, <2>3 DEF AtWork
    <3>2. CallsStay(c)
      BY <3>1, DetachStays
    <3> QED BY <1>1, <2>1, <3>1, <3>2
  <2> QED BY <2>2, <2>3
<1>8. CASE Execute
  <2>1. PICK d \in Client :
           /\ pc' = "top" /\ lane'[d].ops = lane[d].ops
           /\ UNCHANGED mailbox
           /\ \A b \in Client \ {d} : lane'[b] = lane[b]
    BY <1>8, Executing
  <2>2. lane'[c].ops = lane[c].ops /\ ~AtWork(c)'
    BY <2>1 DEF AtWork
  <2>3. CallsStay(c)
    BY <2>2, DetachStays
  <2> QED BY <1>1, <2>1, <2>2, <2>3
<1>9. CASE DetachLane
  <2>1. PICK d \in Client :
          /\ d = job.client /\ pc = "store" /\ pc' = "top" /\ job.op.op = "detach"
          /\ lane' = [lane EXCEPT ![d] = NewLane] /\ UNCHANGED mailbox
    BY <1>9, JobFields DEF DetachLane, TypeInv, channelVars
  <2>2. lane[d].ops = <<>>
    BY <2>1 DEF LaneInv, LaneClosing, AtWork
  <2>3. lane'[c].ops = lane[c].ops
    BY <2>1, <2>2, NewLaneIn DEF TypeInv
  <2>4. CallsStay(c)
    BY <2>3, DetachStays
  <2>5. ~AtWork(c)'
    BY <2>1 DEF AtWork
  <2> QED BY <1>1, <2>1, <2>4, <2>5
<1> QED BY <1>3, <1>4, <1>5, <1>6, <1>7, <1>8, <1>9, KeptCalling
        DEF ActorStep, IngestStep, StoreStep, Execute

\* A step adds a call only where one is submitted
LEMMA KeptNext ==
  ASSUME ServiceInv, [AnyNext]_vars, NEW c \in Client
  PROVE  CallsKept(c) \/ \E request \in Request : Submit(c, request)
<1>1. TypeInv /\ ClientInv /\ LaneInv
  BY DEF ServiceInv
<1>2. ASSUME UNCHANGED vars PROVE CallsKept(c)
  <2>1. UNCHANGED <<mailbox, lane, pc, job>>
    BY <1>2 DEF vars, channelVars, actorVars, laneVars
  <2>2. Calls(c)' = Calls(c)
    BY <2>1 DEF Calls, AtWork
  <2> QED BY <2>2 DEF CallsKept, SameCall
<1>3. Stopped => UNCHANGED vars
  BY DEF Stopped
<1> QED BY <1>1, <1>2, <1>3, KeptOutside, KeptInside DEF AnyNext

-----------------------------------------------------------------------------
(* What a step does to the document of a lane and to the disk *)

\* The lane of c knows what it knew
LaneKept(c) ==
  lane'[c].gen = lane[c].gen /\ lane'[c].path = lane[c].path /\ lane'[c].observed = lane[c].observed

\* What the lanes L know is in the lanes scheduled
LEMMA ScheduleKnows ==
  ASSUME NEW S, NEW L \in [Client -> Lane], Schedule(S, L), NEW c \in Client,
         L[c].gen = lane[c].gen, L[c].path = lane[c].path, L[c].observed = lane[c].observed
  PROVE  LaneKept(c)
<1>1. lane'[c] \in {[L[c] EXCEPT !.scheduled = TRUE], L[c]}
  BY DEF Schedule
<1>2. L[c] \in Lane
  OBVIOUS
<1>3. /\ [L[c] EXCEPT !.scheduled = TRUE].gen = L[c].gen
      /\ [L[c] EXCEPT !.scheduled = TRUE].path = L[c].path
      /\ [L[c] EXCEPT !.scheduled = TRUE].observed = L[c].observed
  BY <1>2 DEF Lane
<1> QED BY <1>1, <1>3 DEF LaneKept

\* A lane that starts to close knows what it knew
LEMMA ClosedKnows ==
  ASSUME TypeInv, NEW S \in SUBSET Client, Schedule(S, Closed(S)), NEW c \in Client
  PROVE  LaneKept(c)
<1>1. lane[c] \in Lane /\ lane \in [Client -> Lane]
  BY DEF TypeInv
<1>2. Closed(S) \in [Client -> Lane]
  BY <1>1, Closing
<1>3. Closed(S)[c] \in {[lane[c] EXCEPT !.closing = TRUE, !.ops = Append(@, Detach)], lane[c]}
  BY DEF Closed
<1>4. /\ Closed(S)[c].gen = lane[c].gen /\ Closed(S)[c].path = lane[c].path
      /\ Closed(S)[c].observed = lane[c].observed
  <2> DEFINE k == [lane[c] EXCEPT !.closing = TRUE, !.ops = Append(@, Detach)]
  <2>1. k.gen = lane[c].gen /\ k.path = lane[c].path /\ k.observed = lane[c].observed
    BY <1>1 DEF Lane
  <2>2. Closed(S)[c] \in {k, lane[c]}
    BY <1>3
  <2> HIDE DEF k
  <2> QED BY <2>1, <2>2
<1> QED BY <1>2, <1>4, ScheduleKnows, Zenon

\* Only executing an operation changes what its lane knows
LEMMA LaneKnows ==
  ASSUME TypeInv, ClientInv, LaneInv, [AnyNext]_vars, NEW c \in Client
  PROVE  LaneKept(c) \/ (c = job.client /\ (Execute \/ DetachLane))
<1>1. UNCHANGED lane => LaneKept(c)
  BY DEF LaneKept
<1>2. Environment \/ AnyClientStep \/ Stopped \/ UNCHANGED vars => UNCHANGED lane
  BY Outside DEF Stopped, vars, actorVars, laneVars
<1>3. Top \/ DrainEmpty \/ ReapDone \/ Reply \/ Wait \/ IngestInspect \/ IngestWake => UNCHANGED lane
  BY DEF Top, DrainEmpty, ReapDone, Reply, Wait, IngestInspect, IngestWake, laneVars
<1>4. IngestAttach => UNCHANGED lane
  BY Attaching
<1>5. ASSUME IngestLoad \/ IngestSave PROVE LaneKept(c)
  <2>1. PICK d \in Client, m \in Operation :
        /\ Open(d) => \E ops \in Seq(Operation) : Schedule({d}, [lane EXCEPT ![d].ops = ops])
        /\ ~Open(d) => UNCHANGED <<lane, ready, readySet>>
    BY <1>5, Calling
  <2>2. CASE Open(d)
    <3>1. PICK ops \in Seq(Operation) : Schedule({d}, [lane EXCEPT ![d].ops = ops])
      BY <2>1, <2>2
    <3> DEFINE L == [lane EXCEPT ![d].ops = ops]
    <3>2. lane \in [Client -> Lane] /\ lane[d] \in Lane
      BY DEF TypeInv
    <3>3. L \in [Client -> Lane] /\ \A b \in Client \ {d} : L[b] = lane[b]
      BY <3>2, NewOps, Zenon
    <3>4. L[d].gen = lane[d].gen /\ L[d].path = lane[d].path /\ L[d].observed = lane[d].observed
      BY <3>2 DEF Lane
    <3>5. Schedule({d}, L)
      BY <3>1
    <3> HIDE DEF L
    <3>6. L[c].gen = lane[c].gen /\ L[c].path = lane[c].path /\ L[c].observed = lane[c].observed
      BY <3>3, <3>4
    <3> QED BY <3>3, <3>5, <3>6, ScheduleKnows, Zenon
  <2> QED BY <1>1, <2>1, <2>2
<1>6. ASSUME IngestShutdown PROVE LaneKept(c)
  <2>1. {d \in documents : ~lane[d].closing} \in SUBSET Client
    BY DEF TypeInv
  <2> QED BY <1>6, <2>1, ClosedKnows DEF IngestShutdown
<1>7. ASSUME NEW d \in Client, Reap(d) PROVE LaneKept(c)
  <2>1. Schedule({d}, Closed({d})) \/ UNCHANGED lane
    BY <1>7 DEF Reap
  <2> QED BY <1>1, <2>1, ClosedKnows
<1>8. ASSUME Select PROVE LaneKept(c)
  <2>1. PICK d : lane' = [lane EXCEPT ![d].scheduled = FALSE, ![d].ops = Tail(@)]
    BY <1>8 DEF Select
  <2>2. lane \in [Client -> Lane] /\ lane[c] \in Lane
    BY DEF TypeInv
  <2>3. lane'[c] \in {[lane[c] EXCEPT !.scheduled = FALSE, !.ops = Tail(@)], lane[c]}
    BY <2>1, <2>2
  <2> DEFINE k == [lane[c] EXCEPT !.scheduled = FALSE, !.ops = Tail(@)]
  <2>4. k.gen = lane[c].gen /\ k.path = lane[c].path /\ k.observed = lane[c].observed
    BY <2>2 DEF Lane
  <2> HIDE DEF k
  <2> QED BY <2>3, <2>4 DEF LaneKept, k
<1>9. ASSUME Execute, c # job.client PROVE LaneKept(c)
  BY <1>9, Executing DEF LaneKept
<1>10. ASSUME DetachLane, c # job.client PROVE LaneKept(c)
  BY <1>10 DEF DetachLane, TypeInv, LaneKept
<1> QED BY <1>1, <1>2, <1>3, <1>4, <1>5, <1>6, <1>7, <1>8, <1>9, <1>10
        DEF AnyNext, ActorStep, IngestStep, StoreStep, Execute

\* What is on disk stays there, and what is written has a newer revision
DiskGrows ==
  \A p \in Path :
    store'[p] = store[p] \/ (/\ store[p].revision < store'[p].revision
                             /\ store[p].marks \subseteq store'[p].marks)

\* The part of the invariant about the client c
LEMMA Parts ==
  ASSUME SessionInv, NEW c \in Client
  PROVE  /\ TypeInv /\ ClientInv /\ ShutdownInv /\ LaneInv /\ LiveInv /\ OrderInv /\ AnswerInv
         /\ ReaderTypes
         /\ ReaderInv(c) /\ CallsInv(c) /\ EventsInv(c) /\ StreamInv(c) /\ ReadyInv(c)
BY DEF SessionInv, ServiceInv, SessionPart

\* The fields of what a call saves
LEMMA CallFields ==
  ASSUME TypeInv, OrderInv, LaneInv, NEW c \in Client, NEW m \in Calls(c)
  PROVE  /\ m \in Operation /\ m.op \in {"load", "save"}
         /\ m.serial \in Nat /\ handled[c] < m.serial /\ m.serial <= serial[c]
         /\ m.gen \in Nat /\ m.path \in Path
         /\ m.op = "save" => m.snap \in Snapshot /\ m.snap.revision \in Nat
<1>1. /\ handled[c] \in Nat /\ serial[c] \in Nat /\ lane[c].ops \in Seq(Operation)
      /\ mailbox \in Seq(Message) /\ CallsOrdered(c)
  BY Numbers DEF OrderInv, TypeInv
<1>2. m \in Operation /\ m.op # "detach" /\ m.serial \in (handled[c] + 1)..serial[c]
  <2>1. CASE \E i \in DOMAIN mailbox : IsCall(mailbox[i], c) /\ m = mailbox[i]
    <3>1. PICK i \in DOMAIN mailbox : IsCall(mailbox[i], c) /\ m = mailbox[i]
      BY <2>1
    <3>2. m \in Message /\ m.op \in {"load", "save"}
      BY <1>1, <3>1, Messages DEF IsCall
    <3>3. m \in Operation
      BY <3>2, MessageFields
    <3> QED BY <1>1, <3>1, <3>2, <3>3 DEF CallsOrdered
  <2>2. CASE \E i \in DOMAIN lane[c].ops : lane[c].ops[i].op # "detach" /\ m = lane[c].ops[i]
    <3>1. PICK i \in DOMAIN lane[c].ops : lane[c].ops[i].op # "detach" /\ m = lane[c].ops[i]
      BY <2>2
    <3>2. m \in Operation
      BY <1>1, <3>1
    <3> QED BY <1>1, <3>1, <3>2 DEF CallsOrdered
  <2>3. CASE AtWork(c) /\ job.op.op # "detach" /\ m = job.op
    <3>1. m \in Operation
      BY <2>3, JobFields DEF AtWork, TypeInv
    <3> QED BY <1>1, <2>3, <3>1 DEF CallsOrdered
  <2> QED BY <2>1, <2>2, <2>3, CallIn
<1>3. m.serial \in Nat /\ handled[c] < m.serial /\ m.serial <= serial[c]
  BY <1>1, <1>2
<1>4. m.op = "save" => m.snap \in Snapshot
  BY <1>2, OperationFields
<1>5. \A s \in Snapshot : s.revision \in Nat
  BY DEF Snapshot
<1> QED BY <1>2, <1>3, <1>4, <1>5, OperationFields

\* The save at work is of the document its lane has seen
LEMMA SaveAtWork ==
  ASSUME SessionInv, job.op.op = "save", pc = "store"
  PROVE  LET c == job.client
         IN /\ c \in Client /\ job.op \in Calls(c) /\ job.op \in Operation
            /\ job.op.gen = lane[c].gen /\ job.op.path = lane[c].path
            /\ Covers(c, job.op.snap.marks)
            /\ ~Stale
<1>1. TypeInv /\ LaneInv
  BY DEF SessionInv, ServiceInv
<1>2. job \in Job
  BY <1>1 DEF TypeInv
<1>3. job.client \in Client /\ job.op \in Operation
  BY <1>2, JobFields
<1> DEFINE c == job.client
<1>4. AtWork(c) /\ job.op \in Calls(c)
  BY <1>3, CallIn DEF AtWork
<1>5. CallsInv(c)
  BY <1>3, Parts
<1>6. job.op.gen = lane[c].gen /\ job.op.path = lane[c].path /\ Covers(c, job.op.snap.marks)
  BY <1>4, <1>5 DEF CallsInv, CallOk
<1>7. ~Stale
  BY <1>6 DEF Stale, JobLane
<1> QED BY <1>3, <1>4, <1>6, <1>7

\* A write adds to what is on disk
LEMMA Writing ==
  ASSUME SessionInv, SaveWritten
  PROVE  LET p == job.op.path
             s == job.op.snap
         IN /\ p \in Path /\ s \in Snapshot /\ store'[p] = s
            /\ \A q \in Path \ {p} : store'[q] = store[q]
            /\ store'[p] = store[p] \/ (/\ store[p].revision < store'[p].revision
                                        /\ store[p].marks \subseteq store'[p].marks)
<1>1. TypeInv /\ LaneInv
  BY DEF SessionInv, ServiceInv
<1>2. /\ pc = "store" /\ job.op.op = "save" /\ Writable(job.op.path, job.op.snap)
      /\ store' = [store EXCEPT ![job.op.path] = job.op.snap]
  BY DEF SaveWritten, Finish
<1> DEFINE p == job.op.path
           s == job.op.snap
           c == job.client
<1>3. c \in Client /\ job.op \in Operation /\ p = lane[c].path /\ Covers(c, s.marks)
  BY <1>2, SaveAtWork
<1>4. p \in Path /\ s \in Snapshot
  BY <1>2, <1>3, OperationFields
<1>5. store[p] \in Snapshot /\ store \in [Path -> Snapshot]
  BY <1>1, <1>4 DEF TypeInv
<1>6. store[p].revision \in Nat /\ s.revision \in Nat
  BY <1>4, <1>5 DEF Snapshot
<1>7. /\ lane[c].observed # NoRevision
      /\ lane[c].observed = store[p].revision => store[p].marks \subseteq s.marks
  BY <1>3 DEF Covers, Covered
<1>8. /\ store[p].revision = Expected /\ s.revision >= store[p].revision
      /\ s.revision = store[p].revision => s = store[p]
  BY <1>2 DEF Writable
<1>9. store[p].marks \subseteq s.marks
  BY <1>7, <1>8 DEF Expected, JobLane
<1>10. store'[p] = s /\ \A q \in Path \ {p} : store'[q] = store[q]
  BY <1>2, <1>4, <1>5
<1> HIDE DEF p, s, c
<1>11. s = store[p] \/ store[p].revision < s.revision
  BY <1>6, <1>8
<1> QED BY <1>4, <1>9, <1>10, <1>11 DEF p, s

\* Every step only adds to what is on disk
LEMMA DiskNext ==
  ASSUME SessionInv, [AnyNext]_vars
  PROVE  DiskGrows
<1>1. TypeInv
  BY DEF SessionInv, ServiceInv
<1>2. UNCHANGED store => DiskGrows
  BY DEF DiskGrows
<1>3. ASSUME NEW p \in Path, NEW m \in Foreign, ForeignSave(p, m) PROVE DiskGrows
  <2> SUFFICES ASSUME NEW q \in Path
               PROVE  store'[q] = store[q] \/ (/\ store[q].revision < store'[q].revision
                                               /\ store[q].marks \subseteq store'[q].marks)
    BY DEF DiskGrows
  <2>1. store' = [store EXCEPT ![p] = [revision |-> @.revision + 1, marks |-> @.marks \cup {m}]]
    BY <1>3 DEF ForeignSave
  <2>2. store \in [Path -> Snapshot] /\ store[p].revision \in Nat
    BY <1>1 DEF TypeInv, Snapshot
  <2> QED BY <2>1, <2>2
<1>4. ASSUME SaveWritten PROVE DiskGrows
  <2> DEFINE p == job.op.path
  <2>1. /\ \A q \in Path \ {p} : store'[q] = store[q]
        /\ store'[p] = store[p] \/ (/\ store[p].revision < store'[p].revision
                                    /\ store[p].marks \subseteq store'[p].marks)
    BY <1>4, Writing
  <2> QED BY <2>1 DEF DiskGrows
<1>5. ASSUME NEW d \in Client,
             Attach(d) \/ SendWake(d) \/ StopListening(d) \/ DropClient(d) \/ Receive(d) \/ Reap(d)
      PROVE  UNCHANGED store
  BY <1>5 DEF Attach, SendWake, StopListening, DropClient, Receive, Reap
<1>6. ASSUME NEW d \in Client, NEW request \in Request, Submit(d, request) PROVE UNCHANGED store
  BY <1>6 DEF Submit
<1>7. Inspect \/ ReleaseHandle \/ SendShutdown => UNCHANGED store
  BY DEF Inspect, ReleaseHandle, SendShutdown
<1>8. Top \/ DrainEmpty \/ ReapDone \/ Reply \/ Select \/ Wait => UNCHANGED store
  BY DEF Top, DrainEmpty, ReapDone, Reply, Select, Wait
<1>9. IngestStep => UNCHANGED store
  BY DEF IngestStep, IngestAttach, IngestLoad, IngestSave, IngestInspect, IngestWake,
         IngestShutdown, Ingest
<1>10. LoadSucceeded \/ LoadFailed \/ SaveStale \/ SaveFailed \/ DetachLane => UNCHANGED store
  BY DEF LoadSucceeded, LoadFailed, SaveStale, SaveFailed, DetachLane
<1>11. Stopped \/ UNCHANGED vars => UNCHANGED store
  BY DEF Stopped, vars
<1> QED BY <1>2, <1>3, <1>4, <1>5, <1>6, <1>7, <1>8, <1>9, <1>10, <1>11
        DEF AnyNext, Environment, AnyClientStep, ActorStep, StoreStep

-----------------------------------------------------------------------------
(* What stays true of the calls and events of a reader *)

\* The reader of c is where it was, with the same annotations
SameReader(c) ==
  /\ generation'[c] = generation[c] /\ path'[c] = path[c] /\ phase'[c] = phase[c]
  /\ annotations'[c] = annotations[c]

\* What covers the disk covers it still
LEMMA StillCovers ==
  ASSUME TypeInv, TypeInv', NEW c \in Client, NEW M, Covers(c, M), LaneKept(c), DiskGrows
  PROVE  Covers(c, M)'
<1> DEFINE p == lane[c].path
           r == lane[c].observed
<1>1. p \in Path /\ Covered(r, store[p], M)
  BY DEF Covers
<1>2. store[p].revision \in Nat /\ store'[p].revision \in Nat
  BY <1>1 DEF TypeInv, Snapshot
<1>3. r \in Nat \cup {NoRevision}
  BY LaneFields DEF TypeInv
<1>4. r \in Nat /\ r <= store[p].revision /\ (r = store[p].revision => store[p].marks \subseteq M)
  BY <1>1, <1>3 DEF Covered
<1>5. \/ store'[p] = store[p]
      \/ store[p].revision < store'[p].revision /\ store'[p].revision \in Nat
  BY <1>1, <1>2 DEF DiskGrows
<1>6. r # NoRevision
  BY <1>1 DEF Covered
<1>7. lane'[c].path = p /\ lane'[c].observed = r
  BY DEF LaneKept
<1>8. Covers(c, M)' <=> lane'[c].path \in Path /\ Covered(lane'[c].observed, store'[lane'[c].path], M)
  BY DEF Covers, Covered
<1> HIDE DEF p, r
<1>9. CASE store'[p] = store[p]
  BY <1>1, <1>7, <1>8, <1>9
<1>10. CASE store[p].revision < store'[p].revision /\ store'[p].revision \in Nat
  <2>1. r <= store'[p].revision /\ r # store'[p].revision
    BY <1>2, <1>4, <1>10
  <2> QED BY <1>1, <1>6, <1>7, <1>8, <2>1 DEF Covered
<1> QED BY <1>5, <1>9, <1>10

\* A call stays as it is, if what its save knows of the disk does
LEMMA CallStill ==
  ASSUME NEW c \in Client, NEW m, NEW n, CallOk(c, n), SameCall(m, n), SameReader(c),
         serial'[c] = serial[c],
         m.op = "save" => /\ lane'[c].gen = lane[c].gen /\ lane'[c].path = lane[c].path
                          /\ Covers(c, n.snap.marks)'
  PROVE  CallOk(c, m)'
<1>1. /\ m.op = n.op /\ m.serial = n.serial /\ m.gen = n.gen /\ m.path = n.path
      /\ m.op = "save" => m.snap = n.snap
  BY DEF SameCall
<1>2. Earlier(m.snap, c)' <=> Earlier(m.snap, c)
  BY DEF Earlier, SameReader
<1>3. ASSUME m.op = "save" PROVE Covers(c, m.snap.marks)' /\ m.snap = n.snap
  <2>1. m.snap = n.snap /\ Covers(c, n.snap.marks)'
    BY <1>1, <1>3
  <2> QED BY <2>1 DEF Covers, Covered
<1>4. ASSUME m.op = "save"
      PROVE  /\ m.gen = lane'[c].gen /\ m.path = lane'[c].path /\ Covers(c, m.snap.marks)'
             /\ m.gen = generation'[c] =>
                  phase'[c] = "ready" /\ m.path = path'[c] /\ Earlier(m.snap, c)'
  BY <1>1, <1>2, <1>3, <1>4 DEF CallOk, SameReader
<1>5. ASSUME m.op = "load"
      PROVE  /\ phase'[c] # "ready"
             /\ m.gen = generation'[c] =>
                  phase'[c] = "loading" /\ m.path = path'[c] /\ m.serial = serial'[c]
  BY <1>1, <1>5 DEF CallOk, SameReader
<1>6. m.gen <= generation'[c]
  BY <1>1 DEF CallOk, SameReader
<1> QED BY <1>4, <1>5, <1>6 DEF CallOk

\* The order of two calls is that of their equals
LEMMA SameOrder ==
  ASSUME NEW m, NEW n, NEW a, NEW b, SameCall(a, m), SameCall(b, n), InOrder(m, n)
  PROVE  InOrder(a, b)
BY DEF SameCall, InOrder

\* An event stays as it is, if what was loaded still covers the disk
LEMMA EventStill ==
  ASSUME NEW c \in Client, NEW e, EventOk(c, e), ReaderInv(c), SameReader(c),
         serial'[c] = serial[c], DiskGrows, shuttingDown => shuttingDown',
         ~shuttingDown' /\ e.kind = "loaded" /\ e.gen = generation[c]
           => Follows(c, e.snap.marks)'
  PROVE  EventOk(c, e)'
<1>1. Earlier(e.snap, c)' <=> Earlier(e.snap, c)
  BY DEF Earlier, SameReader
<1>2. \A q \in Path : store[q].marks \subseteq store'[q].marks
  BY DEF DiskGrows
<1>3. phase[c] # "none" => path[c] \in Path
  BY DEF ReaderInv
<1>4. e.gen <= generation'[c]
  BY DEF EventOk, SameReader
<1>5. ASSUME e.gen = generation[c], e.kind \in {"loaded", "loadfailed"}
      PROVE  phase'[c] = "loading" /\ e.serial = serial'[c]
  BY <1>5 DEF EventOk, SameReader
<1>6. ASSUME e.gen = generation[c], e.kind = "loaded"
      PROVE  /\ e.snap.marks \subseteq store'[path'[c]].marks
             /\ ~shuttingDown' => Follows(c, e.snap.marks)'
  <2>1. path[c] \in Path /\ e.snap.marks \subseteq store[path[c]].marks
    BY <1>3, <1>6 DEF EventOk
  <2>2. path'[c] = path[c] /\ store[path[c]].marks \subseteq store'[path[c]].marks
    BY <1>2, <2>1 DEF SameReader
  <2>3. ~shuttingDown' => Follows(c, e.snap.marks)'
    BY <1>6
  <2> QED BY <2>1, <2>2, <2>3
<1>7. ASSUME e.gen = generation[c], e.kind = "saved"
      PROVE  /\ phase'[c] = "ready" /\ Earlier(e.snap, c)'
             /\ e.snap.marks \subseteq store'[path'[c]].marks
  <2>1. /\ phase[c] = "ready" /\ Earlier(e.snap, c) /\ path[c] \in Path
        /\ e.snap.marks \subseteq store[path[c]].marks
    BY <1>3, <1>7 DEF EventOk
  <2>2. path'[c] = path[c] /\ phase'[c] = phase[c] /\ store[path[c]].marks \subseteq store'[path[c]].marks
    BY <1>2, <2>1 DEF SameReader
  <2> QED BY <1>1, <2>1, <2>2
<1>8. generation'[c] = generation[c]
  BY DEF SameReader
<1> QED BY <1>4, <1>5, <1>6, <1>7, <1>8 DEF EventOk

\* What the reader shows stays as it is, if it still covers the disk
LEMMA ReadyStill ==
  ASSUME NEW c \in Client, ReadyInv(c), ReaderInv(c), SameReader(c), savedRev'[c] = savedRev[c],
         DiskGrows,
         phase[c] = "ready" /\ ~shuttingDown' => Follows(c, annotations[c].marks)'
  PROVE  ReadyInv(c)'
<1>1. SUFFICES ASSUME phase'[c] = "ready"
               PROVE  /\ ~shuttingDown' => Follows(c, annotations[c].marks)'
                      /\ ~Dirty(c)' => annotations'[c].marks \subseteq store'[path'[c]].marks
  BY DEF ReadyInv
<1>2. phase[c] = "ready" /\ path'[c] = path[c] /\ annotations'[c] = annotations[c]
  BY <1>1 DEF SameReader
<1>3. path[c] \in Path
  BY <1>2 DEF ReaderInv
<1>4. Dirty(c)' <=> Dirty(c)
  BY <1>2 DEF Dirty
<1>5. store[path[c]].marks \subseteq store'[path[c]].marks
  BY <1>3 DEF DiskGrows
<1>6. ~Dirty(c) => annotations[c].marks \subseteq store[path[c]].marks
  BY <1>2 DEF ReadyInv
<1> QED BY <1>2, <1>4, <1>5, <1>6

\* What the document shown covers it covers still
LEMMA StillFollows ==
  ASSUME TypeInv, TypeInv', NEW c \in Client, NEW M, Follows(c, M), SameReader(c), LaneKept(c),
         DiskGrows
  PROVE  Follows(c, M)'
<1>1. Covers(c, M)'
  BY StillCovers DEF Follows
<1>2. /\ lane'[c].gen = lane[c].gen /\ lane'[c].path = lane[c].path
      /\ generation'[c] = generation[c] /\ path'[c] = path[c]
  BY DEF LaneKept, SameReader
<1> QED BY <1>1, <1>2 DEF Follows

\* A step that concerns neither the reader of c nor the operation of its lane
LEMMA Quiet ==
  ASSUME SessionInv, TypeInv', DiskGrows, NEW c \in Client, SameReader(c),
         savedRev'[c] = savedRev[c], client'[c] \in {"unattached", "live"},
         serial'[c] = serial[c], handled'[c] = handled[c],
         CallsKept(c), StreamInv(c)', Coming(c)' \subseteq Coming(c),
         LaneKept(c) \/ (shuttingDown' /\ Calls(c)' = {}), shuttingDown => shuttingDown'
  PROVE  SessionPart(c)'
<1>1. /\ TypeInv /\ ReaderInv(c) /\ CallsInv(c) /\ EventsInv(c) /\ StreamInv(c) /\ ReadyInv(c)
  BY Parts
<1>2. ReaderInv(c)'
  BY <1>1 DEF ReaderInv, SameReader
<1>3. CallsInv(c)'
  <2>1. ASSUME NEW m \in Calls(c)' PROVE CallOk(c, m)'
    <3>1. PICK n \in Calls(c) : SameCall(m, n)
      BY <2>1 DEF CallsKept
    <3>2. CallOk(c, n) /\ LaneKept(c)
      BY <1>1, <2>1, <3>1 DEF CallsInv
    <3>3. ASSUME m.op = "save"
          PROVE  /\ lane'[c].gen = lane[c].gen /\ lane'[c].path = lane[c].path
                 /\ Covers(c, n.snap.marks)'
      <4>1. Covers(c, n.snap.marks)
        BY <3>1, <3>2, <3>3 DEF CallOk, SameCall
      <4>2. Covers(c, n.snap.marks)'
        BY <1>1, <3>2, <4>1, StillCovers
      <4> QED BY <3>2, <4>2 DEF LaneKept
    <3> QED BY <3>1, <3>2, <3>3, CallStill
  <2>2. ASSUME NEW a \in Calls(c)', NEW b \in Calls(c)' PROVE InOrder(a, b)
    <3>1. PICK m \in Calls(c) : SameCall(a, m)
      BY <2>2 DEF CallsKept
    <3>2. PICK n \in Calls(c) : SameCall(b, n)
      BY <2>2 DEF CallsKept
    <3>3. InOrder(m, n)
      BY <1>1 DEF CallsInv
    <3> QED BY <3>1, <3>2, <3>3, SameOrder
  <2> QED BY <2>1, <2>2 DEF CallsInv
<1>4. ASSUME NEW M, ~shuttingDown', Follows(c, M) PROVE Follows(c, M)'
  BY <1>1, <1>4, StillFollows
<1>5. EventsInv(c)'
  <2>1. ASSUME NEW e \in Coming(c)' PROVE EventOk(c, e)'
    <3>1. EventOk(c, e)
      BY <1>1, <2>1 DEF EventsInv
    <3>2. ASSUME ~shuttingDown', e.kind = "loaded", e.gen = generation[c]
          PROVE  Follows(c, e.snap.marks)'
      <4>1. Follows(c, e.snap.marks)
        BY <3>1, <3>2 DEF EventOk
      <4> QED BY <1>4, <3>2, <4>1
    <3> QED BY <1>1, <3>1, <3>2, EventStill
  <2> QED BY <2>1 DEF EventsInv
<1>6. ReadyInv(c)'
  <2>1. ASSUME phase[c] = "ready", ~shuttingDown' PROVE Follows(c, annotations[c].marks)'
    <3>1. PICK M : M = annotations[c].marks
      OBVIOUS
    <3>2. Follows(c, M)
      BY <1>1, <2>1, <3>1 DEF ReadyInv
    <3>3. Follows(c, M)'
      BY <1>4, <2>1, <3>2
    <3>4. annotations'[c].marks = M
      BY <3>1 DEF SameReader
    <3> QED BY <3>3, <3>4 DEF Follows, Covers, Covered
  <2> QED BY <1>1, <2>1, ReadyStill
<1> QED BY <1>2, <1>3, <1>5, <1>6 DEF SessionPart

-----------------------------------------------------------------------------
(* Executing the operation of a lane *)

\* The lane of c is of the document of the call at work, and has seen its revision r
Activates(r) ==
  LET l == lane'[job.client] IN
  l.gen = job.op.gen /\ l.path = job.op.path /\ l.observed = r

\* What became of the call at work, as its event e says
Outcome(e) ==
  \/ /\ job.op.op = "load" /\ UNCHANGED store
     /\ \/ /\ e.kind = "loaded" /\ e.snap = store[job.op.path]
           /\ Activates(store[job.op.path].revision)
        \/ e.kind = "loadfailed" /\ Activates(NoRevision)
  \/ /\ job.op.op = "save" /\ UNCHANGED store
     /\ e.kind = "savefailed"
     /\ Stale \/ Activates(lane[job.client].observed)
  \/ /\ SaveWritten /\ job.op.op = "save"
     /\ e.kind = "saved" /\ e.snap = job.op.snap
     /\ Activates(job.op.snap.revision)

\* An operation executed gives one event
LEMMA Results ==
  ASSUME TypeInv, Execute
  PROVE  \E e \in EventRecord :
           /\ SendEvent(e) /\ e.serial = job.op.serial /\ e.gen = job.op.gen /\ Outcome(e)
<1> DEFINE c == job.client
           p == job.op.path
<1>1. pc = "store" /\ job.op.op \in {"load", "save"}
  BY DEF Execute, LoadSucceeded, LoadFailed, SaveStale, SaveWritten, SaveFailed, Finish
<1>2. job \in Job /\ c \in Client /\ job.op \in Operation
  BY <1>1 DEF TypeInv, Job
<1>3. /\ job.op.serial \in 1..MaxCalls /\ job.op.gen \in Nat /\ p \in Path
      /\ job.op.op = "save" => job.op.snap \in Snapshot
  BY <1>1, <1>2, OperationFields
<1>4. lane[c] \in Lane /\ JobLane = lane[c] /\ lane \in [Client -> Lane]
  BY <1>2 DEF TypeInv, JobLane
<1>5. store[p] \in Snapshot /\ Empty \in Snapshot /\ store[p].revision \in Nat
  BY <1>3 DEF TypeInv, Snapshot, Empty
<1>6. ASSUME NEW kind \in {"loaded", "loadfailed", "saved", "savefailed"}, NEW s \in Snapshot
      PROVE  /\ Event(kind, s) \in EventRecord /\ Event(kind, s).serial = job.op.serial
             /\ Event(kind, s).gen = job.op.gen /\ Event(kind, s).kind = kind
             /\ Event(kind, s).snap = s
  BY <1>3 DEF Event, EventRecord
<1>7. ASSUME NEW op, NEW r, Finish(op, Activated(r))
      PROVE  Activates(r)
  <2> DEFINE l == Activated(r)
  <2>1. l.gen = job.op.gen /\ l.path = job.op.path /\ l.observed = r
    BY <1>4 DEF Activated, Lane
  <2>2. \E again \in BOOLEAN : lane'[c] = [l EXCEPT !.scheduled = again]
    <3>1. lane' = [lane EXCEPT ![c] = [l EXCEPT !.scheduled = l.ops # <<>>]]
      BY <1>7 DEF Finish
    <3> HIDE DEF l
    <3>2. lane'[c] = [l EXCEPT !.scheduled = l.ops # <<>>]
      BY <1>2, <1>4, <3>1
    <3>3. (l.ops # <<>>) \in BOOLEAN
      OBVIOUS
    <3> QED BY <3>2, <3>3
  <2>3. lane'[c].gen = l.gen /\ lane'[c].path = l.path /\ lane'[c].observed = l.observed
    <3>1. DOMAIN l = {"ops", "scheduled", "closing", "gen", "path", "observed"}
      BY <1>4 DEF Activated, Lane
    <3> HIDE DEF l
    <3>2. PICK again \in BOOLEAN : lane'[c] = [l EXCEPT !.scheduled = again]
      BY <2>2
    <3> QED BY <3>1, <3>2
  <2> QED BY <2>1, <2>3 DEF Activates
<1>8. CASE LoadSucceeded
  <2>1. /\ job.op.op = "load" /\ Activates(store[p].revision) /\ UNCHANGED store
        /\ SendEvent(Event("loaded", store[p]))
    BY <1>7, <1>8 DEF LoadSucceeded
  <2> DEFINE e == Event("loaded", store[p])
  <2>2. e \in EventRecord /\ e.serial = job.op.serial /\ e.gen = job.op.gen /\ e.kind = "loaded"
        /\ e.snap = store[p]
    BY <1>5, <1>6
  <2>3. SendEvent(e)
    BY <2>1
  <2> HIDE DEF e
  <2> QED BY <2>1, <2>2, <2>3 DEF Outcome
<1>9. CASE LoadFailed
  <2>1. /\ job.op.op = "load" /\ Activates(NoRevision) /\ UNCHANGED store
        /\ SendEvent(Event("loadfailed", Empty))
    BY <1>7, <1>9 DEF LoadFailed
  <2> DEFINE e == Event("loadfailed", Empty)
  <2>2. e \in EventRecord /\ e.serial = job.op.serial /\ e.gen = job.op.gen /\ e.kind = "loadfailed"
    BY <1>5, <1>6
  <2>3. SendEvent(e)
    BY <2>1
  <2> HIDE DEF e
  <2> QED BY <2>1, <2>2, <2>3 DEF Outcome
<1>10. CASE SaveStale \/ SaveFailed
  <2>1. /\ job.op.op = "save" /\ UNCHANGED store /\ SendEvent(Event("savefailed", job.op.snap))
        /\ Stale \/ Activates(lane[c].observed)
    BY <1>4, <1>7, <1>10 DEF SaveStale, SaveFailed
  <2> DEFINE e == Event("savefailed", job.op.snap)
  <2>2. e \in EventRecord /\ e.serial = job.op.serial /\ e.gen = job.op.gen /\ e.kind = "savefailed"
    BY <1>3, <1>6, <2>1
  <2>3. SendEvent(e)
    BY <2>1
  <2> HIDE DEF e
  <2> QED BY <2>1, <2>2, <2>3 DEF Outcome
<1>11. CASE SaveWritten
  <2>1. /\ job.op.op = "save" /\ Activates(job.op.snap.revision)
        /\ SendEvent(Event("saved", job.op.snap))
    BY <1>7, <1>11 DEF SaveWritten
  <2> DEFINE e == Event("saved", job.op.snap)
  <2>2. e \in EventRecord /\ e.serial = job.op.serial /\ e.gen = job.op.gen /\ e.kind = "saved"
        /\ e.snap = job.op.snap
    BY <1>3, <1>6, <2>1
  <2>3. SendEvent(e)
    BY <2>1
  <2> HIDE DEF e
  <2> QED BY <1>11, <2>1, <2>2, <2>3 DEF Outcome
<1> QED BY <1>8, <1>9, <1>10, <1>11 DEF Execute

\* The calls left when the one of c is executed were there, and are newer
LEMMA CallsAfter ==
  ASSUME TypeInv, OrderInv, Execute, NEW c \in Client, c = job.client, NEW m \in Calls(c)'
  PROVE  m \in Calls(c) /\ job.op.serial < m.serial
<1>1. /\ pc = "store" /\ pc' = "top" /\ job.op.op # "detach" /\ lane'[c].ops = lane[c].ops
      /\ UNCHANGED mailbox
  BY Executing
<1>2. AtWork(c) /\ ~AtWork(c)'
  BY <1>1 DEF AtWork
<1>3. CallsOrdered(c)
  BY DEF OrderInv
<1>4. CASE \E i \in DOMAIN mailbox' : IsCall(mailbox'[i], c) /\ m = mailbox'[i]
  <2>1. PICK i \in DOMAIN mailbox : IsCall(mailbox[i], c) /\ m = mailbox[i]
    BY <1>1, <1>4
  <2> QED BY <1>1, <1>2, <1>3, <2>1, CallIn DEF CallsOrdered
<1>5. CASE \E i \in DOMAIN lane'[c].ops : lane'[c].ops[i].op # "detach" /\ m = lane'[c].ops[i]
  <2>1. PICK i \in DOMAIN lane[c].ops : lane[c].ops[i].op # "detach" /\ m = lane[c].ops[i]
    BY <1>1, <1>5
  <2> QED BY <1>1, <1>2, <1>3, <2>1, CallIn DEF CallsOrdered
<1> QED BY <1>2, <1>4, <1>5, CallThen

\* The event of the call at work is behind the others, and new to them
LEMMA EventBehind ==
  ASSUME SessionInv, Execute, NEW c \in Client, c = job.client,
         NEW e \in EventRecord, SendEvent(e), e.serial = job.op.serial
  PROVE  /\ StreamInv(c)' /\ Coming(c)' \subseteq Coming(c) \cup {e}
         /\ \A x \in Coming(c) : x.serial # serial[c]
<1>1. TypeInv /\ OrderInv /\ LaneInv /\ StreamInv(c)
  BY Parts
<1>2. /\ pc = "store" /\ job \in Job /\ job.op.op # "detach"
      /\ handled' = [handled EXCEPT ![c] = job.op.serial]
  BY <1>1, Executing
<1>3. handled'[c] = e.serial
  BY <1>1, <1>2 DEF TypeInv
<1>4. job.op \in Calls(c)
  BY <1>2, CallIn DEF AtWork
<1>5. e.serial \in Nat /\ handled[c] < e.serial /\ e.serial <= serial[c]
  BY <1>1, <1>4, CallFields
<1>6. handled[c] \in Nat /\ serial[c] \in Nat
  BY <1>1, Numbers
<1>7. Answers(c)' = Answers(c) \/ Answers(c)' = Append(Answers(c), e)
  BY <1>1, <1>2, Sends
<1>8. e.serial > handled[c]
  BY <1>5, <1>6
<1>9. StreamInv(c)' /\ Coming(c)' \subseteq Coming(c) \cup {e}
  BY <1>1, <1>3, <1>7, <1>8, StreamGrows
<1>10. ASSUME NEW x \in Coming(c) PROVE x.serial # serial[c]
  <2>1. Answers(c) \in Seq(EventRecord)
    BY <1>1, AnswerTypes
  <2>2. PICK i \in DOMAIN Answers(c) : x = Answers(c)[i]
    BY <1>10 DEF Coming
  <2>3. x \in EventRecord /\ x.serial <= handled[c]
    BY <1>1, <2>1, <2>2 DEF StreamInv
  <2>4. x.serial \in Nat
    BY <2>3, CallAssumption DEF EventRecord
  <2> QED BY <1>5, <1>6, <2>3, <2>4
<1> QED BY <1>9, <1>10

\* A load of c is executed
LEMMA LoadExecuted ==
  ASSUME SessionInv, TypeInv', DiskGrows, Execute, NEW c \in Client, c = job.client,
         SameReader(c), savedRev'[c] = savedRev[c], job.op.op = "load"
  PROVE  SessionPart(c)'
<1>1. /\ TypeInv /\ LaneInv /\ OrderInv
      /\ ReaderInv(c) /\ CallsInv(c) /\ EventsInv(c) /\ StreamInv(c) /\ ReadyInv(c)
  BY Parts
<1>2. PICK e \in EventRecord :
        SendEvent(e) /\ e.serial = job.op.serial /\ e.gen = job.op.gen /\ Outcome(e)
  BY <1>1, Results
<1>3. /\ pc = "store" /\ UNCHANGED <<clientVars, shuttingDown>>
  BY <1>1, Executing
<1>4. client'[c] = client[c] /\ serial'[c] = serial[c] /\ shuttingDown' = shuttingDown
  BY <1>3 DEF clientVars
<1>5. ReaderInv(c)'
  BY <1>1, <1>4 DEF ReaderInv, SameReader
<1>6. StreamInv(c)' /\ Coming(c)' \subseteq Coming(c) \cup {e} /\ \A x \in Coming(c) : x.serial # serial[c]
  BY <1>2, EventBehind
<1>7. PICK J : J = job.op
  OBVIOUS
<1>8. J \in Calls(c) /\ J.op = "load" /\ J.path \in Path
  <2>1. J \in Calls(c)
    BY <1>3, <1>7, CallIn DEF AtWork
  <2> QED BY <1>1, <1>7, <2>1, CallFields
<1>9. CallOk(c, J) /\ \A n \in Calls(c) : InOrder(J, n)
  BY <1>1, <1>8 DEF CallsInv
<1>10. ASSUME NEW m \in Calls(c)'
       PROVE  m \in Calls(c) /\ m.op # "save"
  <2>1. m \in Calls(c) /\ J.serial < m.serial
    BY <1>1, <1>7, <1>10, CallsAfter
  <2>2. m.serial \in Nat /\ J.serial \in Nat
    BY <1>1, <1>8, <2>1, CallFields
  <2>3. m.op = "save" => m.serial < J.serial
    BY <1>8, <1>9, <2>1 DEF InOrder
  <2> QED BY <2>1, <2>2, <2>3
<1>11. CallsInv(c)'
  <2>1. ASSUME NEW m \in Calls(c)' PROVE CallOk(c, m)'
    <3>1. m \in Calls(c) /\ m.op # "save" /\ SameCall(m, m)
      BY <1>10, <2>1 DEF SameCall
    <3>2. CallOk(c, m)
      BY <1>1, <3>1 DEF CallsInv
    <3> QED BY <1>4, <3>1, <3>2, CallStill
  <2>2. ASSUME NEW a \in Calls(c)', NEW b \in Calls(c)' PROVE InOrder(a, b)
    <3>1. a \in Calls(c) /\ b \in Calls(c)
      BY <1>10, <2>2
    <3> QED BY <1>1, <3>1 DEF CallsInv
  <2> QED BY <2>1, <2>2 DEF CallsInv
<1>12. EventOk(c, e)'
  <2>1. generation'[c] = generation[c] /\ path'[c] = path[c] /\ phase'[c] = phase[c]
    BY DEF SameReader
  <2>2. e.gen = J.gen /\ e.serial = J.serial /\ e.kind \in {"loaded", "loadfailed"}
        /\ store' = store
    BY <1>2, <1>7, <1>8 DEF Outcome
  <2>3. ASSUME e.kind = "loaded"
        PROVE  /\ e.snap = store[J.path] /\ lane'[c].gen = J.gen /\ lane'[c].path = J.path
               /\ lane'[c].observed = store[J.path].revision
    BY <1>2, <1>7, <1>8, <2>3 DEF Outcome, Activates
  <2>4. /\ J.gen <= generation[c]
        /\ J.gen = generation[c] => phase[c] = "loading" /\ J.path = path[c] /\ J.serial = serial[c]
    BY <1>8, <1>9 DEF CallOk
  <2>5. ASSUME e.gen = generation[c], e.kind = "loaded"
        PROVE  e.snap.marks \subseteq store'[path'[c]].marks /\ Follows(c, e.snap.marks)'
    <3>1. J.path = path[c] /\ J.gen = generation[c] /\ path[c] \in Path
      BY <1>8, <2>2, <2>4, <2>5
    <3>2. /\ lane'[c].gen = generation'[c] /\ lane'[c].path = path'[c]
          /\ lane'[c].observed = store'[path'[c]].revision /\ e.snap = store'[path'[c]]
          /\ path'[c] \in Path
      BY <2>1, <2>2, <2>3, <2>5, <3>1
    <3>3. store'[path'[c]].revision \in Nat
      BY <3>2 DEF TypeInv, Snapshot
    <3>4. Covered(lane'[c].observed, store'[path'[c]], e.snap.marks)
      BY <3>2, <3>3 DEF Covered, NoRevision
    <3>5. Covered(lane'[c].observed, store'[lane'[c].path], e.snap.marks)
      BY <3>2, <3>4
    <3>6. Covers(c, e.snap.marks)' <=>
            lane'[c].path \in Path /\ Covered(lane'[c].observed, store'[lane'[c].path], e.snap.marks)
      BY DEF Covers, Covered
    <3>7. Follows(c, e.snap.marks)'
      BY <3>2, <3>5, <3>6 DEF Follows
    <3> QED BY <3>2, <3>7
  <2>6. e.gen <= generation'[c]
    BY <2>1, <2>2, <2>4
  <2>7. e.gen = generation'[c] => phase'[c] = "loading" /\ e.serial = serial'[c]
    BY <1>4, <2>1, <2>2, <2>4
  <2>8. e.gen = generation'[c] /\ e.kind = "loaded" =>
          e.snap.marks \subseteq store'[path'[c]].marks /\ Follows(c, e.snap.marks)'
    BY <2>1, <2>5
  <2>9. e.kind # "saved"
    BY <2>2
  <2> QED BY <2>6, <2>7, <2>8, <2>9 DEF EventOk
<1>13. EventsInv(c)'
  <2>1. ASSUME NEW x \in Coming(c) PROVE EventOk(c, x)'
    <3>1. EventOk(c, x) /\ x.serial # serial[c]
      BY <1>1, <1>6, <2>1 DEF EventsInv
    <3>2. ~(x.kind = "loaded" /\ x.gen = generation[c])
      BY <3>1 DEF EventOk
    <3> QED BY <1>1, <1>4, <3>1, <3>2, EventStill
  <2> QED BY <1>6, <1>12, <2>1 DEF EventsInv
<1>14. ReadyInv(c)'
  BY <1>8, <1>9 DEF CallOk, ReadyInv, SameReader
<1> QED BY <1>5, <1>6, <1>11, <1>13, <1>14 DEF SessionPart

\* A save of c is executed
LEMMA SaveExecuted ==
  ASSUME SessionInv, TypeInv', DiskGrows, Execute, NEW c \in Client, c = job.client,
         SameReader(c), savedRev'[c] = savedRev[c], job.op.op = "save"
  PROVE  SessionPart(c)'
<1>1. /\ TypeInv /\ LaneInv /\ OrderInv
      /\ ReaderInv(c) /\ CallsInv(c) /\ EventsInv(c) /\ StreamInv(c) /\ ReadyInv(c)
  BY Parts
<1>2. PICK e \in EventRecord :
        SendEvent(e) /\ e.serial = job.op.serial /\ e.gen = job.op.gen /\ Outcome(e)
  BY <1>1, Results
<1>3. /\ pc = "store" /\ UNCHANGED <<clientVars, shuttingDown>>
  BY <1>1, Executing
<1>4. client'[c] = client[c] /\ serial'[c] = serial[c] /\ shuttingDown' = shuttingDown
  BY <1>3 DEF clientVars
<1>5. ReaderInv(c)'
  BY <1>1, <1>4 DEF ReaderInv, SameReader
<1>6. StreamInv(c)' /\ Coming(c)' \subseteq Coming(c) \cup {e} /\ \A x \in Coming(c) : x.serial # serial[c]
  BY <1>2, EventBehind
<1>7. PICK J : J = job.op
  OBVIOUS
<1>8. J \in Calls(c) /\ J.op = "save" /\ J.path \in Path /\ J.snap \in Snapshot
  <2>1. J \in Calls(c)
    BY <1>3, <1>7, CallIn DEF AtWork
  <2> QED BY <1>1, <1>7, <2>1, CallFields
<1>9. CallOk(c, J) /\ \A n \in Calls(c) : InOrder(J, n)
  BY <1>1, <1>8 DEF CallsInv
<1>10. ~Stale
  BY <1>3, SaveAtWork
<1>11. /\ J.gen <= generation[c] /\ J.gen = lane[c].gen /\ J.path = lane[c].path
       /\ Covers(c, J.snap.marks)
       /\ J.gen = generation[c] => phase[c] = "ready" /\ J.path = path[c] /\ Earlier(J.snap, c)
  BY <1>8, <1>9 DEF CallOk
\* The event, and what the lane and the disk have become
<1>12. /\ e.gen = J.gen /\ e.kind \in {"saved", "savefailed"}
       /\ lane'[c].gen = J.gen /\ lane'[c].path = J.path
  BY <1>2, <1>7, <1>8, <1>10 DEF Outcome, Activates
<1>13. ASSUME e.kind = "saved"
       PROVE  e.snap = J.snap /\ store'[J.path] = J.snap /\ lane'[c].observed = J.snap.revision
  <2>1. SaveWritten /\ e.snap = J.snap /\ lane'[c].observed = J.snap.revision
    BY <1>2, <1>7, <1>8, <1>13 DEF Outcome, Activates
  <2>2. store'[J.path] = J.snap
    BY <1>7, <2>1, Writing
  <2> QED BY <2>1, <2>2
<1>14. ASSUME e.kind = "savefailed"
       PROVE  LaneKept(c)
  BY <1>2, <1>7, <1>10, <1>11, <1>12, <1>14 DEF Outcome, Activates, LaneKept
<1>15. ASSUME NEW M, Covers(c, M), J.snap.marks \subseteq M PROVE Covers(c, M)'
  <2>1. CASE e.kind = "savefailed"
    BY <1>1, <1>14, <1>15, <2>1, StillCovers
  <2>2. CASE e.kind = "saved"
    <3>1. lane'[c].path = J.path /\ lane'[c].observed = J.snap.revision /\ store'[J.path] = J.snap
      BY <1>12, <1>13, <2>2
    <3>2. J.snap.revision \in Nat
      BY <1>8 DEF Snapshot
    <3>3. Covered(J.snap.revision, J.snap, M)
      BY <1>15, <3>2 DEF Covered, NoRevision
    <3>4. Covers(c, M)' <=> lane'[c].path \in Path /\ Covered(lane'[c].observed, store'[lane'[c].path], M)
      BY DEF Covers, Covered
    <3> QED BY <1>8, <3>1, <3>3, <3>4
  <2> QED BY <1>12, <2>1, <2>2
<1>16. ASSUME NEW m \in Calls(c)'
       PROVE  m \in Calls(c) /\ (m.op = "save" => J.snap.marks \subseteq m.snap.marks)
  <2>1. m \in Calls(c) /\ J.serial < m.serial
    BY <1>1, <1>7, <1>16, CallsAfter
  <2> QED BY <1>8, <1>9, <2>1 DEF InOrder
<1>17. CallsInv(c)'
  <2>1. ASSUME NEW m \in Calls(c)' PROVE CallOk(c, m)'
    <3>1. m \in Calls(c) /\ SameCall(m, m)
      BY <1>16, <2>1 DEF SameCall
    <3>2. CallOk(c, m)
      BY <1>1, <3>1 DEF CallsInv
    <3>3. ASSUME m.op = "save"
          PROVE  /\ lane'[c].gen = lane[c].gen /\ lane'[c].path = lane[c].path
                 /\ Covers(c, m.snap.marks)'
      <4>1. Covers(c, m.snap.marks)
        BY <3>2, <3>3 DEF CallOk
      <4>2. J.snap.marks \subseteq m.snap.marks
        BY <1>16, <2>1, <3>3
      <4>3. Covers(c, m.snap.marks)'
        BY <1>15, <4>1, <4>2
      <4> QED BY <1>11, <1>12, <4>3
    <3> QED BY <1>4, <3>1, <3>2, <3>3, CallStill
  <2>2. ASSUME NEW a \in Calls(c)', NEW b \in Calls(c)' PROVE InOrder(a, b)
    <3>1. a \in Calls(c) /\ b \in Calls(c)
      BY <1>16, <2>2
    <3> QED BY <1>1, <3>1 DEF CallsInv
  <2> QED BY <2>1, <2>2 DEF CallsInv
<1>18. EventOk(c, e)'
  <2>1. generation'[c] = generation[c] /\ path'[c] = path[c] /\ phase'[c] = phase[c]
        /\ annotations'[c] = annotations[c]
    BY DEF SameReader
  <2>2. e.gen <= generation'[c]
    BY <1>11, <1>12, <2>1
  <2>3. e.kind \notin {"loaded", "loadfailed"}
    BY <1>12
  <2>4. ASSUME e.gen = generation'[c], e.kind = "saved"
        PROVE  /\ phase'[c] = "ready" /\ Earlier(e.snap, c)'
               /\ e.snap.marks \subseteq store'[path'[c]].marks
    <3>1. J.gen = generation[c] /\ e.snap = J.snap /\ store'[J.path] = J.snap
      BY <1>12, <1>13, <2>1, <2>4
    <3>2. phase[c] = "ready" /\ J.path = path[c] /\ Earlier(J.snap, c)
      BY <1>11, <3>1
    <3>3. Earlier(e.snap, c)'
      BY <2>1, <3>1, <3>2 DEF Earlier
    <3> QED BY <2>1, <3>1, <3>2, <3>3
  <2> QED BY <2>2, <2>3, <2>4 DEF EventOk
<1>19. EventsInv(c)'
  <2>1. ASSUME NEW x \in Coming(c) PROVE EventOk(c, x)'
    <3>1. EventOk(c, x) /\ x.serial # serial[c]
      BY <1>1, <1>6, <2>1 DEF EventsInv
    <3>2. ~(x.kind = "loaded" /\ x.gen = generation[c])
      BY <3>1 DEF EventOk
    <3> QED BY <1>1, <1>4, <3>1, <3>2, EventStill
  <2> QED BY <1>6, <1>18, <2>1 DEF EventsInv
<1>20. ReadyInv(c)'
  <2>1. ASSUME phase[c] = "ready", ~shuttingDown' PROVE Follows(c, annotations[c].marks)'
    <3>1. PICK M : M = annotations[c].marks
      OBVIOUS
    <3>2. Follows(c, M)
      BY <1>1, <1>4, <2>1, <3>1 DEF ReadyInv
    <3>3. J.gen = generation[c] /\ J.path = path[c] /\ Covers(c, M)
      BY <1>11, <3>2 DEF Follows
    <3>4. J.snap.marks \subseteq M
      BY <1>11, <3>1, <3>3 DEF Earlier
    <3>5. Covers(c, M)'
      BY <1>15, <3>3, <3>4
    <3>6. /\ annotations'[c].marks = M
          /\ lane'[c].gen = generation'[c] /\ lane'[c].path = path'[c]
      BY <1>12, <3>1, <3>3 DEF SameReader
    <3> QED BY <3>5, <3>6 DEF Follows, Covers, Covered
  <2> QED BY <1>1, <2>1, ReadyStill
<1> QED BY <1>5, <1>6, <1>17, <1>19, <1>20 DEF SessionPart

-----------------------------------------------------------------------------
(* Steps that are not the reader's own *)

\* Only a call of c has a serial of c
LEMMA SerialStays ==
  ASSUME TypeInv, [AnyNext]_vars, NEW c \in Client,
         ~\E request \in Request : Submit(c, request)
  PROVE  serial'[c] = serial[c]
<1>1. ASSUME NEW d \in Client, NEW request \in Request, Submit(d, request) PROVE serial'[c] = serial[c]
  <2>1. d # c
    BY <1>1
  <2> QED BY <1>1, <2>1 DEF Submit, TypeInv
<1>2. ASSUME NEW d \in Client,
             Attach(d) \/ SendWake(d) \/ StopListening(d) \/ DropClient(d) \/ Receive(d)
      PROVE  UNCHANGED serial
  BY <1>2 DEF Attach, SendWake, StopListening, DropClient, Receive, clientVars
<1>3. Inspect \/ ReleaseHandle \/ SendShutdown => UNCHANGED serial
  BY DEF Inspect, ReleaseHandle, SendShutdown
<1>4. ASSUME NEW p \in Path, NEW m \in Foreign, ForeignSave(p, m) PROVE UNCHANGED serial
  BY <1>4 DEF ForeignSave, clientVars
<1>5. ActorStep => UNCHANGED serial
  BY Inside DEF clientVars
<1>6. Stopped \/ UNCHANGED vars => UNCHANGED serial
  BY DEF Stopped, vars, clientVars
<1> QED BY <1>1, <1>2, <1>3, <1>4, <1>5, <1>6 DEF AnyNext, Environment, AnyClientStep

\* Only executing an operation of c counts as handling one
LEMMA HandledStays ==
  ASSUME TypeInv, [AnyNext]_vars, NEW c \in Client, ~(Execute /\ c = job.client)
  PROVE  handled'[c] = handled[c]
<1>1. Environment \/ AnyClientStep \/ Stopped \/ UNCHANGED vars => UNCHANGED handled
  BY Outside DEF Stopped, vars, actorVars
<1>2. Top \/ DrainEmpty \/ ReapDone \/ Reply \/ Select \/ Wait \/ DetachLane => UNCHANGED handled
  BY DEF Top, DrainEmpty, ReapDone, Reply, Select, Wait, DetachLane
<1>3. IngestStep => UNCHANGED handled
  BY DEF IngestStep, IngestAttach, IngestLoad, IngestSave, IngestInspect, IngestWake,
         IngestShutdown, Ingest
<1>4. ASSUME NEW d \in Client, Reap(d) PROVE UNCHANGED handled
  BY <1>4 DEF Reap
<1>5. ASSUME Execute PROVE handled'[c] = handled[c]
  <2>1. handled' = [handled EXCEPT ![job.client] = job.op.serial] /\ c # job.client
    BY <1>5, Executing
  <2> QED BY <2>1 DEF TypeInv
<1> QED BY <1>1, <1>2, <1>3, <1>4, <1>5 DEF AnyNext, ActorStep, StoreStep, Execute

\* A service that shuts down goes on shutting down
LEMMA ShuttingStays == [AnyNext]_vars => (shuttingDown => shuttingDown')
<1> SUFFICES ASSUME [AnyNext]_vars, shuttingDown PROVE shuttingDown'
  OBVIOUS
<1>1. Environment \/ AnyClientStep \/ Stopped \/ UNCHANGED vars => UNCHANGED shuttingDown
  BY Outside DEF Stopped, vars, actorVars
<1>2. Top \/ DrainEmpty \/ ReapDone \/ Reply \/ Select \/ Wait => UNCHANGED shuttingDown
  BY DEF Top, DrainEmpty, ReapDone, Reply, Select, Wait
<1>3. StoreStep => UNCHANGED shuttingDown
  BY DEF StoreStep, LoadSucceeded, LoadFailed, SaveStale, SaveWritten, SaveFailed, Finish, DetachLane
<1>4. IngestStep => UNCHANGED shuttingDown \/ shuttingDown'
  BY DEF IngestStep, IngestAttach, IngestLoad, IngestSave, IngestInspect, IngestWake, IngestShutdown
<1>5. ASSUME NEW d \in Client, Reap(d) PROVE UNCHANGED shuttingDown
  BY <1>5 DEF Reap
<1> QED BY <1>1, <1>2, <1>3, <1>4, <1>5 DEF AnyNext, ActorStep

\* The lane of a reader is detached only when the service shuts down, with all its calls executed
LEMMA DetachedLast ==
  ASSUME SessionInv, [AnyNext]_vars, DetachLane, NEW c \in Client, c = job.client
  PROVE  shuttingDown' /\ Calls(c)' = {}
<1>1. TypeInv /\ ClientInv /\ ShutdownInv /\ LaneInv /\ LiveInv /\ ReaderInv(c)
  BY Parts
<1>2. /\ pc = "store" /\ job.op.op = "detach" /\ pc' = "top" /\ UNCHANGED mailbox
      /\ lane' = [lane EXCEPT ![c] = NewLane]
  BY DEF DetachLane, channelVars
<1>3. AtWork(c) /\ c \in documents
  BY <1>1, <1>2 DEF AtWork, LaneInv, ReadyAgrees
<1>4. lane[c].closing
  BY <1>1, <1>2, <1>3 DEF LaneInv, LaneClosing
<1>5. ~Fresh(c)
  BY <1>1, <1>3 DEF ClientInv
<1>6. client[c] = "live"
  BY <1>1, <1>5 DEF ReaderInv, Fresh
<1>7. shuttingDown
  BY <1>1, <1>4, <1>5, <1>6 DEF LiveInv
<1>8. shuttingDown'
  BY <1>7, ShuttingStays
<1>9. DOMAIN mailbox' = {}
  <2>1. mailbox' = <<>>
    BY <1>1, <1>2, <1>7 DEF ShutdownInv
  <2> QED BY <2>1
<1>10. DOMAIN lane'[c].ops = {}
  <2>1. lane'[c] = NewLane
    BY <1>1, <1>2 DEF TypeInv
  <2>2. lane'[c].ops = <<>>
    BY <2>1, NewLaneIn
  <2> QED BY <2>2
<1>11. ~AtWork(c)'
  BY <1>2 DEF AtWork
<1>12. ASSUME NEW m \in Calls(c)' PROVE FALSE
  BY <1>9, <1>10, <1>11, <1>12, CallThen
<1> QED BY <1>8, <1>12

\* A step that the reader of c takes no part in
LEMMA Aside ==
  ASSUME SessionInv, TypeInv', [AnyNext]_vars, NEW c \in Client, SameReader(c),
         savedRev'[c] = savedRev[c], client'[c] \in {"unattached", "live"},
         ~\E request \in Request : Submit(c, request)
  PROVE  SessionPart(c)'
<1>1. /\ ServiceInv /\ TypeInv /\ ClientInv /\ LaneInv /\ StreamInv(c)
  BY Parts DEF SessionInv
<1>2. DiskGrows
  BY DiskNext
<1>3. CASE Execute /\ c = job.client
  <2>1. job.op.op \in {"load", "save"}
    BY <1>3 DEF Execute, LoadSucceeded, LoadFailed, SaveStale, SaveWritten, SaveFailed
  <2> QED BY <1>2, <1>3, <2>1, LoadExecuted, SaveExecuted
<1>4. CASE ~(Execute /\ c = job.client)
  <2>1. serial'[c] = serial[c] /\ handled'[c] = handled[c] /\ (shuttingDown => shuttingDown')
    BY <1>1, <1>4, SerialStays, HandledStays, ShuttingStays
  <2>2. CallsKept(c)
    BY <1>1, KeptNext
  <2>3. LaneKept(c) \/ (shuttingDown' /\ Calls(c)' = {})
    BY <1>1, <1>4, LaneKnows, DetachedLast
  <2>4. StreamInv(c)' /\ Coming(c)' \subseteq Coming(c)
    <3>1. CASE Execute
      <4>1. /\ job \in Job /\ \E e \in EventRecord : SendEvent(e)
        BY <1>1, <3>1, Executing
      <4>2. Answers(c)' = Answers(c)
        BY <1>1, <1>4, <3>1, <4>1, Sends
      <4> QED BY <1>1, <2>1, <4>2 DEF StreamInv, Coming
    <3>2. CASE ~Execute
      <4>1. Piece(Answers(c)', Answers(c))
        BY <1>1, <3>2, AnswersGo
      <4> QED BY <1>1, <2>1, <4>1, StreamGoes
    <3> QED BY <3>1, <3>2
  <2> QED BY <1>2, <2>1, <2>2, <2>3, <2>4, Quiet
<1> QED BY <1>3, <1>4

-----------------------------------------------------------------------------
(* Opening a document *)

\* The fields of an event on its way
LEMMA ComingFields ==
  ASSUME TypeInv, NEW c \in Client, StreamInv(c), NEW e \in Coming(c)
  PROVE  /\ e \in EventRecord /\ e.serial \in Nat /\ e.serial <= handled[c]
         /\ e.gen \in Nat /\ e.snap \in Snapshot /\ e.snap.revision \in Nat
<1>1. Answers(c) \in Seq(EventRecord)
  BY AnswerTypes
<1>2. PICK i \in DOMAIN Answers(c) : e = Answers(c)[i]
  BY DEF Coming
<1>3. e \in EventRecord /\ e.serial <= handled[c]
  BY <1>1, <1>2 DEF StreamInv
<1>4. e.serial \in Nat /\ e.gen \in Nat /\ e.snap \in Snapshot
  BY <1>3, CallAssumption DEF EventRecord
<1>5. \A s \in Snapshot : s.revision \in Nat
  BY DEF Snapshot
<1> QED BY <1>3, <1>4, <1>5

\* Taking an event leaves everything else as it is
LEMMA Listens ==
  ASSUME SessionInv, TypeInv', NEW c \in Client, Receive(c) \/ UNCHANGED vars
  PROVE  /\ UNCHANGED <<client, lane, store, serial, shuttingDown, handled>>
         /\ Calls(c)' = Calls(c) /\ StreamInv(c)' /\ Coming(c)' \subseteq Coming(c)
         /\ DiskGrows /\ LaneKept(c)
<1>1. UNCHANGED <<client, lane, store, serial, shuttingDown, handled, mailbox, pc, job>>
  BY DEF Receive, vars, clientVars, channelVars, actorVars, laneVars
<1>2. Calls(c)' = Calls(c)
  BY <1>1 DEF Calls, AtWork
<1>3. TypeInv /\ StreamInv(c)
  BY Parts
<1>4. ASSUME Receive(c) PROVE StreamInv(c)' /\ Coming(c)' \subseteq Coming(c)
  BY <1>3, <1>4, StreamHead
<1>5. ASSUME UNCHANGED vars PROVE StreamInv(c)' /\ Coming(c)' \subseteq Coming(c)
  <2>1. Answers(c)' = Answers(c) /\ handled' = handled
    BY <1>5 DEF vars, channelVars, actorVars, laneVars, Answers
  <2> QED BY <1>3, <2>1 DEF StreamInv, Coming
<1>6. DiskGrows /\ LaneKept(c)
  BY <1>1 DEF DiskGrows, LaneKept
<1> QED BY <1>1, <1>2, <1>4, <1>5, <1>6

\* A new document: all calls and events are of an older one
LEMMA Opens ==
  ASSUME SessionInv, TypeInv', NEW c \in Client, NEW p \in Path, BeginOpen(c, p),
         Receive(c) \/ UNCHANGED vars
  PROVE  SessionPart(c)'
<1>1. /\ TypeInv /\ LaneInv /\ OrderInv /\ ReaderTypes
      /\ ReaderInv(c) /\ CallsInv(c) /\ EventsInv(c) /\ StreamInv(c)
  BY Parts
<1>2. /\ generation'[c] = generation[c] + 1 /\ path'[c] = p /\ phase'[c] = "opening"
      /\ annotations'[c] = Empty
  BY <1>1 DEF BeginOpen, ReaderTypes
<1>3. generation[c] \in Nat
  BY <1>1 DEF ReaderTypes
<1>4. /\ client' = client /\ lane' = lane /\ store' = store
      /\ Calls(c)' = Calls(c) /\ StreamInv(c)' /\ Coming(c)' \subseteq Coming(c)
  BY Listens
<1>5. ReaderInv(c)'
  BY <1>1, <1>2, <1>4 DEF ReaderInv
<1>6. CallsInv(c)'
  <2>1. ASSUME NEW m \in Calls(c) PROVE CallOk(c, m)'
    <3>1. CallOk(c, m) /\ m.gen \in Nat
      BY <1>1, <2>1, CallFields DEF CallsInv
    <3>2. m.gen <= generation[c]
      BY <3>1 DEF CallOk
    <3>3. m.gen <= generation'[c] /\ m.gen # generation'[c]
      BY <1>2, <1>3, <3>1, <3>2
    <3>4. m.op = "save" => m.gen = lane'[c].gen /\ m.path = lane'[c].path /\ Covers(c, m.snap.marks)'
      BY <1>4, <3>1 DEF CallOk, Covers, Covered
    <3> QED BY <1>2, <3>3, <3>4 DEF CallOk
  <2>2. \A m, n \in Calls(c) : InOrder(m, n)
    BY <1>1 DEF CallsInv
  <2> QED BY <1>4, <2>1, <2>2 DEF CallsInv
<1>7. EventsInv(c)'
  <2>1. ASSUME NEW e \in Coming(c) PROVE EventOk(c, e)'
    <3>1. EventOk(c, e) /\ e.gen \in Nat
      BY <1>1, <2>1, ComingFields DEF EventsInv
    <3>2. e.gen <= generation[c]
      BY <3>1 DEF EventOk
    <3>3. e.gen <= generation'[c] /\ e.gen # generation'[c]
      BY <1>2, <1>3, <3>1, <3>2
    <3> QED BY <3>3 DEF EventOk
  <2> QED BY <1>4, <2>1 DEF EventsInv
<1>8. ReadyInv(c)'
  BY <1>2 DEF ReadyInv
<1> QED BY <1>4, <1>5, <1>6, <1>7, <1>8 DEF SessionPart

\* A call submitted is the newest, and the only change to what c waits for
LEMMA Submits ==
  ASSUME SessionInv, TypeInv', NEW c \in Client, NEW request \in Request, Submit(c, request)
  PROVE  /\ client[c] = "live" /\ UNCHANGED <<client, lane, store, shuttingDown, handled>>
         /\ ~shuttingDown /\ serial'[c] = serial[c] + 1 /\ serial[c] \in Nat
         /\ Calls(c)' \subseteq Calls(c) \cup {Numbered(c, request)}
         /\ StreamInv(c)' /\ Coming(c)' = Coming(c)
         /\ DiskGrows /\ LaneKept(c)
<1>1. TypeInv /\ ShutdownInv /\ StreamInv(c)
  BY Parts
<1> DEFINE x == Numbered(c, request)
<1>2. /\ UNCHANGED <<client, lane, store, shuttingDown, handled, pc, job, events, pending>>
      /\ mailbox' = Append(mailbox, x) /\ serial' = [serial EXCEPT ![c] = @ + 1]
      /\ serial[c] < MaxCalls /\ CanSubmit(c)
  BY DEF Submit, Post, actorVars, laneVars
<1>3. x \in Message
  BY <1>1, <1>2, SubmitPosts
<1>4. client[c] = "live" /\ ~shuttingDown
  BY <1>1, <1>2 DEF CanSubmit, ShutdownInv
<1>5. serial'[c] = serial[c] + 1 /\ serial[c] \in Nat
  BY <1>1, <1>2, Numbers DEF TypeInv
<1> HIDE DEF x
<1>6. ASSUME NEW m \in Calls(c)' PROVE m \in Calls(c) \cup {x}
  <2>1. CASE \E i \in DOMAIN mailbox' : IsCall(mailbox'[i], c) /\ m = mailbox'[i]
    <3>1. PICK i \in DOMAIN mailbox' : IsCall(mailbox'[i], c) /\ m = mailbox'[i]
      BY <2>1
    <3>2. /\ Len(mailbox) \in Nat
          /\ DOMAIN mailbox = 1..Len(mailbox) /\ DOMAIN mailbox' = 1..(Len(mailbox) + 1)
          /\ \A j \in DOMAIN mailbox : mailbox'[j] = mailbox[j]
          /\ mailbox'[Len(mailbox) + 1] = x
      BY <1>1, <1>2, <1>3, Posting DEF TypeInv
    <3>3. CASE i \in DOMAIN mailbox
      <4>1. IsCall(mailbox[i], c) /\ m = mailbox[i]
        BY <3>1, <3>2, <3>3
      <4> QED BY <3>3, <4>1, CallIn
    <3>4. CASE i = Len(mailbox) + 1
      BY <3>1, <3>2, <3>4
    <3> QED BY <3>2, <3>3, <3>4
  <2>2. CASE \E i \in DOMAIN lane'[c].ops : lane'[c].ops[i].op # "detach" /\ m = lane'[c].ops[i]
    BY <1>2, <2>2, CallIn
  <2>3. CASE AtWork(c)' /\ job'.op.op # "detach" /\ m = job'.op
    BY <1>2, <2>3, CallIn DEF AtWork
  <2> QED BY <2>1, <2>2, <2>3, CallThen
<1>7. Answers(c)' = Answers(c) /\ handled' = handled
  BY <1>2 DEF Answers
<1>8. StreamInv(c)' /\ Coming(c)' = Coming(c)
  BY <1>1, <1>7 DEF StreamInv, Coming
<1>9. DiskGrows /\ LaneKept(c)
  BY <1>2 DEF DiskGrows, LaneKept
<1> QED BY <1>2, <1>4, <1>5, <1>6, <1>8, <1>9 DEF x

\* The annotations of a document are loaded once it is open
LEMMA Loads ==
  ASSUME SessionInv, TypeInv', NEW c \in Client, Opened(c)
  PROVE  SessionPart(c)'
<1>1. /\ TypeInv /\ LaneInv /\ OrderInv /\ ReaderTypes
      /\ ReaderInv(c) /\ CallsInv(c) /\ EventsInv(c) /\ StreamInv(c)
  BY Parts
<1>2. /\ phase[c] = "opening" /\ UNCHANGED <<generation, path, annotations, savedRev>>
      /\ phase'[c] \in {"loading", "blocked"}
  BY <1>1 DEF Opened, ReaderTypes
<1>3. path[c] \in Path /\ generation[c] \in Nat
  BY <1>1, <1>2 DEF ReaderInv, ReaderTypes
\* Nothing of the document is on its way yet
<1>4. ASSUME NEW m \in Calls(c)
      PROVE  m.gen <= generation[c] /\ m.gen # generation[c]
  <2>1. CallOk(c, m) /\ m.op \in {"load", "save"}
    BY <1>1, <1>4, CallFields DEF CallsInv
  <2> QED BY <1>2, <2>1 DEF CallOk
<1>5. ASSUME NEW e \in Coming(c)
      PROVE  e.gen <= generation[c] /\ (e.gen = generation[c] => e.kind = "savefailed")
  <2>1. EventOk(c, e) /\ e.kind \in {"loaded", "loadfailed", "saved", "savefailed"}
    BY <1>1, <1>5, ComingFields DEF EventsInv, EventRecord
  <2> QED BY <1>2, <2>1 DEF EventOk
<1>6. ASSUME NEW e \in Coming(c) PROVE EventOk(c, e)'
  <2>1. e.gen <= generation'[c] /\ (e.gen = generation'[c] => e.kind = "savefailed")
    BY <1>2, <1>5, <1>6
  <2> QED BY <2>1 DEF EventOk
<1>7. ASSUME client' = client PROVE ReaderInv(c)'
  BY <1>1, <1>2, <1>3, <1>7 DEF ReaderInv
<1>8. ReadyInv(c)'
  BY <1>2 DEF ReadyInv
<1>9. ASSUME NEW m \in Calls(c), lane' = lane, store' = store PROVE CallOk(c, m)'
  <2>1. CallOk(c, m) /\ m.gen <= generation'[c] /\ m.gen # generation'[c] /\ phase'[c] # "ready"
    BY <1>1, <1>2, <1>4, <1>9 DEF CallsInv
  <2>2. m.op = "save" => m.gen = lane'[c].gen /\ m.path = lane'[c].path /\ Covers(c, m.snap.marks)'
    BY <1>9, <2>1 DEF CallOk, Covers, Covered
  <2> QED BY <2>1, <2>2 DEF CallOk
<1>10. \A m, n \in Calls(c) : InOrder(m, n)
  BY <1>1 DEF CallsInv
<1> DEFINE request == [op |-> "load", gen |-> generation[c], path |-> path[c]]
<1>11. ASSUME Submit(c, request), phase' = [phase EXCEPT ![c] = "loading"]
       PROVE  SessionPart(c)'
  <2>1. request \in Request /\ request.op = "load" /\ request.gen = generation[c]
        /\ request.path = path[c]
    BY <1>3 DEF Request, LoadRequest
  <2>2. PICK x :
          /\ x = Numbered(c, request) /\ x.op = "load" /\ x.gen = generation[c]
          /\ x.path = path[c] /\ x.serial = serial[c] + 1
    <3> DEFINE y == Numbered(c, request)
    <3>1. y.op = "load" /\ y.gen = generation[c] /\ y.path = path[c] /\ y.serial = serial[c] + 1
      BY <2>1 DEF Numbered
    <3> QED BY <3>1
  <2> HIDE DEF request
  <2>3. /\ UNCHANGED <<client, lane, store, shuttingDown, handled>>
        /\ serial'[c] = serial[c] + 1 /\ serial[c] \in Nat
        /\ Calls(c)' \subseteq Calls(c) \cup {Numbered(c, request)}
        /\ StreamInv(c)' /\ Coming(c)' = Coming(c)
    BY <1>11, <2>1, Submits
  <2>4. phase'[c] = "loading"
    BY <1>1, <1>11 DEF ReaderTypes
  <2>5. Calls(c)' \subseteq Calls(c) \cup {x}
    BY <2>2, <2>3
  <2>6. CallOk(c, x)'
    <3>1. x.gen <= generation'[c] /\ x.path = path'[c] /\ x.serial = serial'[c]
      BY <1>2, <1>3, <2>2, <2>3
    <3> QED BY <2>2, <2>4, <3>1 DEF CallOk
  <2>7. ASSUME NEW m \in Calls(c) PROVE InOrder(m, x) /\ InOrder(x, m)
    <3>1. m.serial \in Nat /\ m.serial <= serial[c]
      BY <1>1, <2>7, CallFields
    <3>2. m.serial < x.serial
      BY <2>2, <2>3, <3>1
    <3> QED BY <2>2, <3>2 DEF InOrder
  <2>8. InOrder(x, x)
    BY <2>2 DEF InOrder
  <2>9. ASSUME NEW m \in Calls(c) PROVE CallOk(c, m)'
    BY <1>9, <2>3, <2>9
  <2>10. CallsInv(c)'
    BY <1>10, <2>5, <2>6, <2>7, <2>8, <2>9 DEF CallsInv
  <2>11. EventsInv(c)'
    BY <1>6, <2>3 DEF EventsInv
  <2> QED BY <1>7, <1>8, <2>3, <2>10, <2>11 DEF SessionPart
<1>12. ASSUME UNCHANGED vars PROVE SessionPart(c)'
  <2>1. /\ client' = client /\ lane' = lane /\ store' = store
        /\ Calls(c)' = Calls(c) /\ StreamInv(c)' /\ Coming(c)' \subseteq Coming(c)
    BY <1>12, Listens
  <2>2. ASSUME NEW m \in Calls(c) PROVE CallOk(c, m)'
    BY <1>9, <2>1, <2>2
  <2>3. CallsInv(c)'
    BY <1>10, <2>1, <2>2 DEF CallsInv
  <2>4. EventsInv(c)'
    BY <1>6, <2>1 DEF EventsInv
  <2> QED BY <1>7, <1>8, <2>1, <2>3, <2>4 DEF SessionPart
<1> QED BY <1>11, <1>12 DEF Opened

-----------------------------------------------------------------------------
(* Editing and saving *)

\* The annotations of c are s, which has all the marks they had
Edited(c, s) ==
  \/ s = annotations[c]
  \/ s.revision = annotations[c].revision + 1 /\ annotations[c].marks \subseteq s.marks

\* The call that saves s
SaveOf(c, s) ==
  [op |-> "save", gen |-> generation[c], path |-> path[c], expected |-> savedRev[c], snap |-> s]

\* What was earlier is earlier than an edit
LEMMA EarlierStill ==
  ASSUME ReaderTypes, NEW c \in Client, NEW s \in Snapshot, Edited(c, s), annotations'[c] = s,
         NEW t \in Snapshot, Earlier(t, c)
  PROVE  Earlier(t, c)'
<1>1. annotations[c] \in Snapshot
  BY DEF ReaderTypes
<1>2. annotations[c].revision \in Nat /\ t.revision \in Nat /\ s.revision \in Nat
  BY <1>1 DEF Snapshot
<1>3. /\ t.revision <= annotations[c].revision
      /\ t.marks \subseteq annotations[c].marks
      /\ t.revision = annotations[c].revision => t.marks = annotations[c].marks
  BY DEF Earlier
<1>4. CASE s = annotations[c]
  BY <1>3, <1>4 DEF Earlier
<1>5. CASE s.revision = annotations[c].revision + 1 /\ annotations[c].marks \subseteq s.marks
  <2>1. t.revision <= s.revision /\ t.revision # s.revision
    BY <1>2, <1>3, <1>5
  <2>2. t.marks \subseteq s.marks
    BY <1>3, <1>5
  <2> QED BY <2>1, <2>2 DEF Earlier
<1> QED BY <1>4, <1>5 DEF Edited

\* An edit, its save or a save repeated; the service may refuse the save
LEMMA Edits ==
  ASSUME SessionInv, TypeInv', NEW c \in Client, phase[c] = "ready",
         NEW s \in Snapshot, Edited(c, s), annotations'[c] = s,
         generation'[c] = generation[c], path'[c] = path[c], phase'[c] = phase[c],
         savedRev'[c] = savedRev[c],
         UNCHANGED vars \/ Submit(c, SaveOf(c, s))
  PROVE  SessionPart(c)'
<1>1. /\ TypeInv /\ LaneInv /\ OrderInv /\ ReaderTypes
      /\ ReaderInv(c) /\ CallsInv(c) /\ EventsInv(c) /\ StreamInv(c) /\ ReadyInv(c)
  BY Parts
<1>2. /\ path[c] \in Path /\ generation[c] \in Nat /\ savedRev[c] \in Nat
      /\ annotations[c] \in Snapshot /\ savedRev[c] <= annotations[c].revision
  BY <1>1 DEF ReaderInv, ReaderTypes
<1>3. annotations[c].revision \in Nat /\ s.revision \in Nat
  BY <1>2 DEF Snapshot
<1>4. /\ annotations[c].marks \subseteq s.marks /\ annotations[c].revision <= s.revision
      /\ s = annotations[c] \/ savedRev[c] < s.revision
  BY <1>2, <1>3 DEF Edited
<1>5. ASSUME client' = client PROVE ReaderInv(c)'
  <2>1. savedRev[c] <= s.revision
    BY <1>2, <1>3, <1>4
  <2> QED BY <1>1, <1>5, <2>1 DEF ReaderInv
<1>6. ASSUME NEW m \in Calls(c)
      PROVE  /\ CallOk(c, m) /\ m.op = "save" /\ m.gen \in Nat /\ m.snap \in Snapshot
             /\ m.serial \in Nat /\ m.serial <= serial[c]
  <2>1. /\ CallOk(c, m) /\ m.op \in {"load", "save"} /\ m.gen \in Nat
        /\ m.serial \in Nat /\ m.serial <= serial[c]
        /\ m.op = "save" => m.snap \in Snapshot
    BY <1>1, <1>6, CallFields DEF CallsInv
  <2>2. m.op # "load"
    BY <2>1 DEF CallOk
  <2> QED BY <2>1, <2>2
<1>7. ASSUME NEW m \in Calls(c), lane' = lane, store' = store PROVE CallOk(c, m)'
  <2>1. CallOk(c, m) /\ m.op = "save" /\ m.snap \in Snapshot
    BY <1>6, <1>7
  <2>2. /\ m.gen <= generation[c] /\ m.gen = lane[c].gen /\ m.path = lane[c].path
        /\ Covers(c, m.snap.marks)
        /\ m.gen = generation[c] => m.path = path[c] /\ Earlier(m.snap, c)
    BY <2>1 DEF CallOk
  <2>3. Covers(c, m.snap.marks)'
    BY <1>7, <2>2 DEF Covers, Covered
  <2>4. m.gen = generation[c] => Earlier(m.snap, c)'
    BY <1>1, <2>1, <2>2, EarlierStill
  <2>5. m.gen = lane'[c].gen /\ m.path = lane'[c].path
    BY <1>7, <2>2
  <2> QED BY <2>1, <2>2, <2>3, <2>4, <2>5 DEF CallOk
<1>8. ASSUME NEW e \in Coming(c), store' = store PROVE EventOk(c, e)'
  <2>1. EventOk(c, e) /\ e.snap \in Snapshot
    BY <1>1, <1>8, ComingFields DEF EventsInv
  <2>2. e.gen <= generation[c] /\ (e.gen = generation[c] => e.kind \notin {"loaded", "loadfailed"})
    BY <2>1 DEF EventOk
  <2>3. ASSUME e.gen = generation[c], e.kind = "saved"
        PROVE  Earlier(e.snap, c)' /\ e.snap.marks \subseteq store'[path'[c]].marks
    <3>1. Earlier(e.snap, c) /\ e.snap.marks \subseteq store[path[c]].marks
      BY <2>1, <2>3 DEF EventOk
    <3>2. Earlier(e.snap, c)'
      BY <1>1, <2>1, <3>1, EarlierStill
    <3> QED BY <1>8, <3>1, <3>2
  <2>4. generation'[c] = generation[c] /\ phase'[c] = "ready"
    OBVIOUS
  <2> QED BY <2>2, <2>3, <2>4 DEF EventOk
<1>9. ASSUME NEW m \in Calls(c), ~shuttingDown
      PROVE  m.snap.marks \subseteq s.marks
  <2>1. m.gen = lane[c].gen /\ (m.gen = generation[c] => Earlier(m.snap, c))
    BY <1>6, <1>9 DEF CallOk
  <2>2. lane[c].gen = generation[c]
    BY <1>1, <1>9 DEF ReadyInv, Follows
  <2> QED BY <1>4, <2>1, <2>2 DEF Earlier
<1>10. ASSUME ~shuttingDown
       PROVE  lane[c].gen = generation[c] /\ lane[c].path = path[c] /\ Covers(c, s.marks)
  BY <1>1, <1>4, <1>10 DEF ReadyInv, Follows, Covers, Covered
<1>11. ASSUME lane' = lane, store' = store, shuttingDown' = shuttingDown PROVE ReadyInv(c)'
  <2>1. ~shuttingDown' => Follows(c, s.marks)'
    BY <1>10, <1>11 DEF Follows, Covers, Covered
  <2>2. ~shuttingDown' => Follows(c, annotations[c].marks)'
    BY <2>1 DEF Follows, Covers, Covered
  <2>3. ASSUME ~Dirty(c)' PROVE annotations'[c].marks \subseteq store'[path'[c]].marks
    <3>1. ~(savedRev[c] < s.revision)
      BY <1>2, <1>3, <2>3 DEF Dirty
    <3>2. s = annotations[c]
      BY <1>4, <3>1
    <3>3. ~Dirty(c)
      BY <2>3, <3>2 DEF Dirty
    <3>4. annotations[c].marks \subseteq store[path[c]].marks
      BY <1>1, <3>3 DEF ReadyInv
    <3> QED BY <1>11, <3>2, <3>4
  <2> QED BY <2>2, <2>3 DEF ReadyInv
<1>12. \A m, n \in Calls(c) : InOrder(m, n)
  BY <1>1 DEF CallsInv
<1>13. CASE UNCHANGED vars
  <2>1. /\ client' = client /\ lane' = lane /\ store' = store /\ shuttingDown' = shuttingDown
        /\ Calls(c)' = Calls(c) /\ StreamInv(c)' /\ Coming(c)' \subseteq Coming(c)
    BY <1>13, Listens
  <2>2. ASSUME NEW m \in Calls(c) PROVE CallOk(c, m)'
    BY <1>7, <2>1, <2>2
  <2>3. CallsInv(c)'
    BY <1>12, <2>1, <2>2 DEF CallsInv
  <2>4. EventsInv(c)'
    BY <1>8, <2>1 DEF EventsInv
  <2> QED BY <1>5, <1>11, <2>1, <2>3, <2>4 DEF SessionPart
<1>14. CASE Submit(c, SaveOf(c, s))
  <2>1. SaveOf(c, s) \in Request
    BY <1>2 DEF SaveOf, Request, SaveRequest
  <2>2. PICK x :
          /\ x = Numbered(c, SaveOf(c, s)) /\ x.op = "save" /\ x.gen = generation[c]
          /\ x.path = path[c] /\ x.snap = s /\ x.serial = serial[c] + 1
    <3> DEFINE r == SaveOf(c, s)
               y == Numbered(c, r)
    <3>1. r.op = "save" /\ r.gen = generation[c] /\ r.path = path[c] /\ r.snap = s
      BY DEF SaveOf
    <3>2. y.op = r.op /\ y.gen = r.gen /\ y.path = r.path /\ y.snap = r.snap /\ y.serial = serial[c] + 1
      BY DEF SaveOf, Numbered
    <3> QED BY <3>1, <3>2
  <2>3. /\ UNCHANGED <<client, lane, store, shuttingDown, handled>> /\ ~shuttingDown
        /\ serial'[c] = serial[c] + 1 /\ serial[c] \in Nat
        /\ Calls(c)' \subseteq Calls(c) \cup {Numbered(c, SaveOf(c, s))}
        /\ StreamInv(c)' /\ Coming(c)' = Coming(c)
    BY <1>14, <2>1, Submits
  <2>4. Calls(c)' \subseteq Calls(c) \cup {x}
    BY <2>2, <2>3
  <2>5. CallOk(c, x)'
    <3>1. lane[c].gen = generation[c] /\ lane[c].path = path[c] /\ Covers(c, s.marks)
      BY <1>10, <2>3
    <3>2. Covers(c, x.snap.marks)'
      BY <2>2, <2>3, <3>1 DEF Covers, Covered
    <3>3. Earlier(x.snap, c)'
      BY <1>3, <2>2 DEF Earlier
    <3>4. x.gen <= generation'[c] /\ x.gen = lane'[c].gen /\ x.path = lane'[c].path
          /\ phase'[c] = "ready" /\ x.path = path'[c] /\ x.op = "save"
      BY <1>2, <2>2, <2>3, <3>1
    <3> QED BY <3>2, <3>3, <3>4 DEF CallOk
  <2>6. ASSUME NEW m \in Calls(c) PROVE InOrder(m, x) /\ InOrder(x, m)
    <3>1. m.op = "save" /\ m.serial \in Nat /\ m.serial <= serial[c] /\ m.snap.marks \subseteq s.marks
      BY <1>6, <1>9, <2>3, <2>6
    <3>2. ~(x.serial < m.serial)
      BY <2>2, <2>3, <3>1
    <3> QED BY <2>2, <3>1, <3>2 DEF InOrder
  <2>7. InOrder(x, x)
    BY <2>2 DEF InOrder
  <2>8. ASSUME NEW m \in Calls(c) PROVE CallOk(c, m)'
    BY <1>7, <2>3, <2>8
  <2>9. CallsInv(c)'
    BY <1>12, <2>4, <2>5, <2>6, <2>7, <2>8 DEF CallsInv
  <2>10. EventsInv(c)'
    BY <1>8, <2>3 DEF EventsInv
  <2> QED BY <1>5, <1>11, <2>3, <2>9, <2>10 DEF SessionPart
<1> QED BY <1>13, <1>14

-----------------------------------------------------------------------------
(* Handling the events *)

\* Behind the answer to the last call there is nothing
LEMMA LastAnswer ==
  ASSUME SessionInv, TypeInv', NEW c \in Client, Receive(c), Head(events[c]).serial = serial[c]
  PROVE  Calls(c)' = {} /\ Coming(c)' = {}
<1> DEFINE e == Head(events[c])
<1>1. TypeInv /\ LaneInv /\ OrderInv /\ StreamInv(c)
  BY Parts
<1>2. /\ e \in Coming(c)
      /\ \A d \in Coming(c)' : d \in Coming(c) /\ e.serial < d.serial
  BY <1>1, StreamHead
<1>3. e.serial = serial[c]
  OBVIOUS
<1> HIDE DEF e
<1>4. e.serial \in Nat /\ e.serial <= handled[c]
  BY <1>1, <1>2, ComingFields
<1>5. handled[c] \in Nat
  BY <1>1, Numbers DEF TypeInv
<1>6. ASSUME NEW m \in Calls(c) PROVE FALSE
  <2>1. m.serial \in Nat /\ handled[c] < m.serial /\ m.serial <= serial[c]
    BY <1>1, <1>6, CallFields
  <2> QED BY <1>3, <1>4, <1>5, <2>1
<1>7. ASSUME NEW d \in Coming(c)' PROVE FALSE
  <2>1. d \in Coming(c) /\ e.serial < d.serial
    BY <1>2, <1>7
  <2>2. d.serial \in Nat /\ d.serial <= handled[c]
    BY <1>1, <2>1, ComingFields
  <2>3. handled[c] <= serial[c]
    BY <1>1 DEF OrderInv, CallsOrdered
  <2> QED BY <1>3, <1>4, <1>5, <2>1, <2>2, <2>3
<1>8. Calls(c)' = Calls(c)
  BY Listens
<1> QED BY <1>6, <1>7, <1>8

\* The event at the head is one on its way
LEMMA Heads ==
  ASSUME SessionInv, TypeInv', NEW c \in Client, NEW kind, EventFor(c, kind)
  PROVE  LET e == Head(events[c])
         IN /\ e \in Coming(c) /\ EventOk(c, e) /\ e.kind = kind /\ e.gen = generation[c]
            /\ e.snap \in Snapshot /\ e.snap.revision \in Nat /\ Receive(c)
<1> DEFINE e == Head(events[c])
<1>1. TypeInv /\ StreamInv(c) /\ EventsInv(c)
  BY Parts
<1>2. Receive(c) /\ e.kind = kind /\ e.gen = generation[c]
  BY DEF EventFor
<1>3. e \in Coming(c)
  BY <1>1, <1>2, StreamHead
<1> HIDE DEF e
<1>4. e.snap \in Snapshot /\ e.snap.revision \in Nat
  BY <1>1, <1>3, ComingFields
<1>5. EventOk(c, e)
  BY <1>1, <1>3 DEF EventsInv
<1> QED BY <1>2, <1>3, <1>4, <1>5 DEF e

\* The annotations are those of the disk, and nothing else is on its way
LEMMA LoadHandled ==
  ASSUME SessionInv, TypeInv', NEW c \in Client, HandleLoaded(c)
  PROVE  SessionPart(c)'
<1>1. PICK e : e = Head(events[c])
  OBVIOUS
<1>2. TypeInv /\ ReaderTypes /\ ReaderInv(c)
  BY Parts
<1>3. /\ EventFor(c, "loaded") /\ UNCHANGED <<generation, path, pendingOpen, made>>
      /\ annotations'[c] = e.snap /\ savedRev'[c] = e.snap.revision /\ phase'[c] = "ready"
  BY <1>1, <1>2 DEF HandleLoaded, ReaderTypes
<1>4. /\ EventOk(c, e) /\ e.kind = "loaded" /\ e.gen = generation[c]
      /\ e.snap \in Snapshot /\ e.snap.revision \in Nat /\ Receive(c)
  BY <1>1, <1>3, Heads
<1>5. /\ phase[c] = "loading" /\ e.serial = serial[c]
      /\ e.snap.marks \subseteq store[path[c]].marks
      /\ ~shuttingDown => Follows(c, e.snap.marks)
  BY <1>4 DEF EventOk
<1>6. Calls(c)' = {} /\ Coming(c)' = {}
  BY <1>1, <1>4, <1>5, LastAnswer
<1>7. UNCHANGED <<client, lane, store, shuttingDown>> /\ StreamInv(c)'
  BY <1>4, Listens
<1>8. ReaderInv(c)'
  <2>1. client'[c] \in {"unattached", "live"} /\ path'[c] \in Path
    BY <1>2, <1>3, <1>5, <1>7 DEF ReaderInv
  <2>2. savedRev'[c] <= annotations'[c].revision
    BY <1>3, <1>4
  <2> QED BY <1>3, <2>1, <2>2 DEF ReaderInv
<1>9. ReadyInv(c)'
  <2>1. ~shuttingDown' => Follows(c, e.snap.marks)'
    BY <1>3, <1>5, <1>7 DEF Follows, Covers, Covered
  <2>2. ~shuttingDown' => Follows(c, annotations[c].marks)'
    BY <1>3, <2>1 DEF Follows, Covers, Covered
  <2>3. annotations'[c].marks \subseteq store'[path'[c]].marks
    BY <1>3, <1>5, <1>7
  <2> QED BY <2>2, <2>3 DEF ReadyInv
<1>10. CallsInv(c)' /\ EventsInv(c)'
  BY <1>6 DEF CallsInv, EventsInv
<1> QED BY <1>7, <1>8, <1>9, <1>10 DEF SessionPart

\* Editing is blocked, and nothing else is on its way
LEMMA LoadFailureHandled ==
  ASSUME SessionInv, TypeInv', NEW c \in Client, HandleLoadFailed(c)
  PROVE  SessionPart(c)'
<1>1. PICK e : e = Head(events[c])
  OBVIOUS
<1>2. TypeInv /\ ReaderTypes /\ ReaderInv(c)
  BY Parts
<1>3. /\ EventFor(c, "loadfailed") /\ UNCHANGED <<generation, path>>
      /\ annotations'[c] = Empty /\ phase'[c] = "blocked"
  BY <1>1, <1>2 DEF HandleLoadFailed, ReaderTypes
<1>4. EventOk(c, e) /\ e.kind = "loadfailed" /\ e.gen = generation[c] /\ Receive(c)
  BY <1>1, <1>3, Heads
<1>5. phase[c] = "loading" /\ e.serial = serial[c]
  BY <1>4 DEF EventOk
<1>6. Calls(c)' = {} /\ Coming(c)' = {}
  BY <1>1, <1>4, <1>5, LastAnswer
<1>7. UNCHANGED <<client, lane, store, shuttingDown>> /\ StreamInv(c)'
  BY <1>4, Listens
<1>8. ReaderInv(c)'
  BY <1>2, <1>3, <1>5, <1>7 DEF ReaderInv
<1>9. ReadyInv(c)'
  BY <1>3 DEF ReadyInv
<1>10. CallsInv(c)' /\ EventsInv(c)'
  BY <1>6 DEF CallsInv, EventsInv
<1> QED BY <1>7, <1>8, <1>9, <1>10 DEF SessionPart

\* What is saved up to the revision of the annotations is all of them
LEMMA SavedOnDisk ==
  ASSUME SessionInv, TypeInv', NEW c \in Client, EventFor(c, "saved")
  PROVE  /\ phase[c] = "ready" /\ SavedNow(c) \in Nat /\ SavedNow(c) <= annotations[c].revision
         /\ annotations[c].revision <= SavedNow(c) =>
              annotations[c].marks \subseteq store[path[c]].marks
<1>1. PICK e : e = Head(events[c])
  OBVIOUS
<1>2. /\ EventOk(c, e) /\ e.kind = "saved" /\ e.gen = generation[c]
      /\ e.snap \in Snapshot /\ e.snap.revision \in Nat
  BY <1>1, Heads
<1>3. phase[c] = "ready" /\ Earlier(e.snap, c) /\ e.snap.marks \subseteq store[path[c]].marks
  BY <1>2 DEF EventOk
<1>4. ReaderTypes /\ ReaderInv(c) /\ ReadyInv(c)
  BY Parts
<1>5. /\ savedRev[c] \in Nat /\ annotations[c].revision \in Nat
      /\ savedRev[c] <= annotations[c].revision
  <2>1. annotations[c] \in Snapshot /\ savedRev[c] \in Nat
    BY <1>4 DEF ReaderTypes
  <2> QED BY <1>3, <1>4, <2>1 DEF ReaderInv, Snapshot
<1>6. SavedNow(c) = IF savedRev[c] < e.snap.revision THEN e.snap.revision ELSE savedRev[c]
  BY <1>1 DEF SavedNow, AtLeast
<1>7. e.snap.revision <= annotations[c].revision
  BY <1>3 DEF Earlier
<1>8. SavedNow(c) \in Nat /\ SavedNow(c) <= annotations[c].revision
  BY <1>2, <1>5, <1>6, <1>7
<1>9. ASSUME annotations[c].revision <= SavedNow(c)
      PROVE  annotations[c].marks \subseteq store[path[c]].marks
  <2>1. CASE savedRev[c] < e.snap.revision
    <3>1. e.snap.revision = annotations[c].revision
      BY <1>2, <1>5, <1>6, <1>7, <1>9, <2>1
    <3> QED BY <1>3, <3>1 DEF Earlier
  <2>2. CASE ~(savedRev[c] < e.snap.revision)
    <3>1. ~Dirty(c)
      BY <1>5, <1>6, <1>9, <2>2 DEF Dirty
    <3> QED BY <1>3, <1>4, <3>1 DEF ReadyInv
  <2> QED BY <2>1, <2>2
<1> QED BY <1>3, <1>8, <1>9

\* A save that has been answered, and the opening that waited for it
LEMMA SaveHandled ==
  ASSUME SessionInv, TypeInv', NEW c \in Client, HandleSaved(c)
  PROVE  SessionPart(c)'
<1>1. /\ ReaderTypes /\ ReaderInv(c) /\ CallsInv(c) /\ EventsInv(c) /\ ReadyInv(c)
  BY Parts
<1>2. EventFor(c, "saved") /\ Receive(c)
  BY DEF HandleSaved, EventFor
<1>3. /\ phase[c] = "ready" /\ SavedNow(c) \in Nat /\ SavedNow(c) <= annotations[c].revision
      /\ annotations[c].revision <= SavedNow(c) =>
           annotations[c].marks \subseteq store[path[c]].marks
  BY <1>2, SavedOnDisk
<1>4. CASE MayOpenNow(c)
  <2>1. pendingOpen[c] \in Path
    BY <1>1, <1>4 DEF MayOpenNow, ReaderTypes
  <2>2. BeginOpen(c, pendingOpen[c])
    BY <1>4 DEF HandleSaved
  <2> QED BY <1>2, <2>1, <2>2, Opens
<1>5. CASE ~MayOpenNow(c)
  <2>1. UNCHANGED <<generation, path, phase, annotations>> /\ savedRev'[c] = SavedNow(c)
    BY <1>1, <1>5 DEF HandleSaved, ReaderTypes
  <2>2. /\ UNCHANGED <<client, lane, store, serial, shuttingDown>>
        /\ Calls(c)' = Calls(c) /\ StreamInv(c)' /\ Coming(c)' \subseteq Coming(c)
    BY <1>2, Listens
  <2>3. ReaderInv(c)'
    BY <1>1, <1>3, <2>1, <2>2 DEF ReaderInv
  <2>4. ReadyInv(c)'
    <3>1. ~shuttingDown' => Follows(c, annotations[c].marks)'
      BY <1>1, <1>3, <2>1, <2>2 DEF ReadyInv, Follows, Covers, Covered
    <3>2. ASSUME ~Dirty(c)' PROVE annotations'[c].marks \subseteq store'[path'[c]].marks
      <4>1. annotations[c] \in Snapshot
        BY <1>1 DEF ReaderTypes
      <4>2. annotations[c].revision \in Nat
        BY <4>1 DEF Snapshot
      <4>3. annotations[c].revision <= SavedNow(c)
        BY <1>3, <2>1, <3>2, <4>2 DEF Dirty
      <4> QED BY <1>3, <2>1, <2>2, <4>3
    <3> QED BY <3>1, <3>2 DEF ReadyInv
  <2>5. ASSUME NEW m \in Calls(c) PROVE CallOk(c, m)' /\ \A n \in Calls(c) : InOrder(m, n)
    <3>1. CallOk(c, m) /\ \A n \in Calls(c) : InOrder(m, n)
      BY <1>1, <2>5 DEF CallsInv
    <3>2. CallOk(c, m)'
      BY <2>1, <2>2, <3>1 DEF CallOk, Covers, Covered, Earlier
    <3> QED BY <3>1, <3>2
  <2>6. CallsInv(c)'
    BY <2>2, <2>5 DEF CallsInv
  <2>7. ASSUME NEW e \in Coming(c) PROVE EventOk(c, e)'
    <3>1. EventOk(c, e)
      BY <1>1, <2>7 DEF EventsInv
    <3> QED BY <2>1, <2>2, <3>1 DEF EventOk, Follows, Covers, Covered, Earlier
  <2>8. EventsInv(c)'
    BY <2>2, <2>7 DEF EventsInv
  <2> QED BY <2>2, <2>3, <2>4, <2>6, <2>8 DEF SessionPart
<1> QED BY <1>4, <1>5

-----------------------------------------------------------------------------
(* The steps of the readers and of the service *)

\* Only at c does a reader change
OnlyAt(c) == \A d \in Client \ {c} : SameReader(d) /\ savedRev'[d] = savedRev[d]

\* What the reader of c may ask of the service
Asks(c) ==
  Receive(c) \/ UNCHANGED vars \/ \E request \in Request : Submit(c, request)

\* What is dirty can be edited
LEMMA DirtyIsReady ==
  ASSUME SessionInv, NEW c \in Client, Dirty(c)
  PROVE  phase[c] = "ready"
<1>1. ReaderTypes /\ ReaderInv(c)
  BY Parts
<1>2. savedRev[c] \in Nat /\ annotations[c].revision > savedRev[c]
  BY <1>1 DEF ReaderTypes, Dirty
<1>3. Empty.revision = 0
  BY DEF Empty
<1>4. annotations[c] # Empty
  BY <1>2, <1>3
<1> QED BY <1>1, <1>4 DEF ReaderInv

\* Where annotations are edited there is a document
LEMMA SaveIsRequest ==
  ASSUME SessionInv, NEW c \in Client, phase[c] = "ready", NEW s \in Snapshot
  PROVE  SaveOf(c, s) \in Request
<1>1. ReaderTypes /\ ReaderInv(c)
  BY Parts
<1>2. path[c] \in Path /\ generation[c] \in Nat /\ savedRev[c] \in Nat
  BY <1>1 DEF ReaderInv, ReaderTypes
<1> QED BY <1>2 DEF SaveOf, Request, SaveRequest

\* What is saved is an edit, or what there was already
LEMMA Saving ==
  ASSUME SessionInv, NEW c \in Client, NEW s, SaveAccepted(c, s) \/ SaveRefused(c, s)
  PROVE  UNCHANGED vars \/ Submit(c, SaveOf(c, s))
BY DEF SaveAccepted, SaveRefused, SaveOf

\* The annotations that an edit makes
LEMMA EditMakes ==
  ASSUME SessionInv, NEW c \in Client, NEW m \in Mark \ Foreign, Edit(c, m)
  PROVE  \E s \in Snapshot :
           /\ Edited(c, s) /\ annotations' = [annotations EXCEPT ![c] = s] /\ annotations'[c] = s
           /\ phase[c] = "ready" /\ UNCHANGED <<generation, path, phase, savedRev, pendingOpen>>
           /\ UNCHANGED vars \/ Submit(c, SaveOf(c, s))
<1> DEFINE s == [revision |-> annotations[c].revision + 1, marks |-> annotations[c].marks \cup {m}]
<1>1. ReaderTypes
  BY Parts
<1>2. annotations[c] \in Snapshot
  BY <1>1 DEF ReaderTypes
<1>3. annotations[c].revision \in Nat /\ annotations[c].marks \subseteq Mark
  BY <1>2 DEF Snapshot
<1>4. s \in Snapshot
  BY <1>3 DEF Snapshot
<1>5. s.revision = annotations[c].revision + 1 /\ annotations[c].marks \subseteq s.marks
  OBVIOUS
<1>6. /\ annotations' = [annotations EXCEPT ![c] = s] /\ phase[c] = "ready"
      /\ SaveAccepted(c, s) \/ SaveRefused(c, s)
      /\ UNCHANGED <<generation, path, phase, savedRev, pendingOpen>>
  BY DEF Edit
<1> HIDE DEF s
<1>7. Edited(c, s)
  BY <1>5 DEF Edited
<1>8. annotations'[c] = s
  BY <1>1, <1>6 DEF ReaderTypes
<1>9. UNCHANGED vars \/ Submit(c, SaveOf(c, s))
  BY <1>6, Saving
<1> QED BY <1>4, <1>6, <1>7, <1>8, <1>9

\* Saving once more what is not saved, to open another document or not
LEMMA SavesAgain ==
  ASSUME SessionInv, NEW c \in Client, SaveAgain(c) \/ \E p \in Path : OpenDirty(c, p)
  PROVE  /\ phase[c] = "ready" /\ UNCHANGED <<generation, path, phase, annotations, savedRev>>
         /\ annotations[c] \in Snapshot /\ Edited(c, annotations[c])
         /\ pendingOpen' = pendingOpen
              \/ \E p \in Path \cup {NoPath} : pendingOpen' = [pendingOpen EXCEPT ![c] = p]
         /\ UNCHANGED vars \/ Submit(c, SaveOf(c, annotations[c]))
<1>1. Dirty(c)
  BY DEF SaveAgain, OpenDirty
<1>2. phase[c] = "ready"
  BY <1>1, DirtyIsReady
<1>3. UNCHANGED <<generation, path, phase, annotations, savedRev>>
  BY DEF SaveAgain, OpenDirty
<1>4. annotations[c] \in Snapshot
  BY Parts DEF ReaderTypes
<1>5. Edited(c, annotations[c])
  BY DEF Edited
<1>6. UNCHANGED vars \/ SaveAccepted(c, annotations[c]) \/ SaveRefused(c, annotations[c])
  BY DEF SaveAgain, OpenDirty
<1>7. UNCHANGED vars \/ Submit(c, SaveOf(c, annotations[c]))
  BY <1>6, Saving
<1>8. ASSUME SaveAgain(c) PROVE pendingOpen' = pendingOpen
  BY <1>8 DEF SaveAgain
<1>9. ASSUME NEW p \in Path, OpenDirty(c, p)
      PROVE  \E q \in Path \cup {NoPath} : pendingOpen' = [pendingOpen EXCEPT ![c] = q]
  BY <1>9 DEF OpenDirty
<1> QED BY <1>2, <1>3, <1>4, <1>5, <1>7, <1>8, <1>9

\* The reader asks for loads and saves, takes events or leaves the service alone
LEMMA ReaderAsks ==
  ASSUME SessionInv, NEW c \in Client, ReaderStep(c)
  PROVE  Asks(c)
<1>1. ReaderTypes /\ ReaderInv(c)
  BY Parts
<1>2. ASSUME NEW p \in Path, OpenClean(c, p) PROVE Asks(c)
  BY <1>2 DEF OpenClean, Asks
<1>3. ASSUME NEW p \in Path, OpenDirty(c, p) PROVE Asks(c)
  BY <1>3, SavesAgain, SaveIsRequest DEF Asks
<1>4. ASSUME SaveAgain(c) PROVE Asks(c)
  BY <1>4, SavesAgain, SaveIsRequest DEF Asks
<1>5. ASSUME NEW m \in Mark \ Foreign, Edit(c, m) PROVE Asks(c)
  BY <1>5, EditMakes, SaveIsRequest DEF Asks
<1>6. ASSUME Opened(c) PROVE Asks(c)
  <2> DEFINE request == [op |-> "load", gen |-> generation[c], path |-> path[c]]
  <2>1. path[c] \in Path /\ generation[c] \in Nat
    BY <1>1, <1>6 DEF Opened, ReaderInv, ReaderTypes
  <2>2. request \in Request
    BY <2>1 DEF Request, LoadRequest
  <2>3. Submit(c, request) \/ UNCHANGED vars
    BY <1>6 DEF Opened
  <2> QED BY <2>2, <2>3 DEF Asks
<1>7. ASSUME ReceiveStep(c) PROVE Asks(c)
  BY <1>7 DEF ReceiveStep, HandleLoaded, HandleLoadFailed, HandleSaved, HandleSaveFailed, HandleOld,
              EventFor, Asks
<1> QED BY <1>2, <1>3, <1>4, <1>5, <1>6, <1>7 DEF ReaderStep

\* What a reader does changes it, and no other reader
LEMMA ReaderChanges ==
  ASSUME SessionInv, TypeInv', NEW c \in Client, ReaderStep(c)
  PROVE  ReaderTypes' /\ OnlyAt(c)
<1>1. ReaderTypes
  BY Parts
<1> DEFINE Changes ==
      /\ \E g \in Nat : generation' = [generation EXCEPT ![c] = g]
      /\ \E p \in Path \cup {NoPath} : path' = [path EXCEPT ![c] = p]
      /\ \E s \in {"none", "opening", "loading", "ready", "blocked"} : phase' = [phase EXCEPT ![c] = s]
      /\ \E a \in Snapshot : annotations' = [annotations EXCEPT ![c] = a]
      /\ \E r \in Nat : savedRev' = [savedRev EXCEPT ![c] = r]
      /\ \E p \in Path \cup {NoPath} : pendingOpen' = [pendingOpen EXCEPT ![c] = p]
<1>2. /\ generation = [generation EXCEPT ![c] = generation[c]]
      /\ path = [path EXCEPT ![c] = path[c]]
      /\ phase = [phase EXCEPT ![c] = phase[c]]
      /\ annotations = [annotations EXCEPT ![c] = annotations[c]]
      /\ savedRev = [savedRev EXCEPT ![c] = savedRev[c]]
      /\ pendingOpen = [pendingOpen EXCEPT ![c] = pendingOpen[c]]
  BY <1>1 DEF ReaderTypes
<1>3. /\ generation[c] \in Nat /\ path[c] \in Path \cup {NoPath}
      /\ phase[c] \in {"none", "opening", "loading", "ready", "blocked"}
      /\ annotations[c] \in Snapshot /\ savedRev[c] \in Nat /\ pendingOpen[c] \in Path \cup {NoPath}
  BY <1>1 DEF ReaderTypes
<1>4. Empty \in Snapshot
  BY DEF Empty, Snapshot
<1>5. ASSUME NEW p \in Path \cup {NoPath}, pendingOpen' = [pendingOpen EXCEPT ![c] = p],
             UNCHANGED <<generation, path, phase, annotations, savedRev>>
      PROVE  Changes
  BY <1>2, <1>3, <1>5
<1>6. ASSUME NEW p \in Path, BeginOpen(c, p) PROVE Changes
  <2>1. generation[c] + 1 \in Nat /\ 0 \in Nat
    BY <1>3
  <2> QED BY <1>4, <1>6, <2>1 DEF BeginOpen
<1>7. ASSUME NEW p \in Path, OpenClean(c, p) PROVE Changes
  <2>1. BeginOpen(c, p)
    BY <1>7 DEF OpenClean
  <2> HIDE DEF Changes
  <2> QED BY <1>6, <2>1
<1>8. ASSUME SaveAgain(c) \/ \E p \in Path : OpenDirty(c, p) PROVE Changes
  <2>1. /\ UNCHANGED <<generation, path, phase, annotations, savedRev>>
        /\ pendingOpen' = pendingOpen
             \/ \E p \in Path \cup {NoPath} : pendingOpen' = [pendingOpen EXCEPT ![c] = p]
    BY <1>8, SavesAgain
  <2>2. \E p \in Path \cup {NoPath} : pendingOpen' = [pendingOpen EXCEPT ![c] = p]
    BY <1>2, <1>3, <2>1
  <2> HIDE DEF Changes
  <2> QED BY <1>5, <2>1, <2>2
<1>9. ASSUME NEW m \in Mark \ Foreign, Edit(c, m) PROVE Changes
  <2>1. PICK s \in Snapshot : /\ annotations' = [annotations EXCEPT ![c] = s]
                              /\ UNCHANGED <<generation, path, phase, savedRev, pendingOpen>>
    BY <1>9, EditMakes
  <2> QED BY <1>2, <1>3, <2>1
<1>10. ASSUME Opened(c) PROVE Changes
  <2>1. /\ UNCHANGED <<generation, path, annotations, savedRev, pendingOpen>>
        /\ phase' = [phase EXCEPT ![c] = "loading"] \/ phase' = [phase EXCEPT ![c] = "blocked"]
    BY <1>10 DEF Opened
  <2> QED BY <1>2, <1>3, <2>1
<1>11. ASSUME HandleLoaded(c) PROVE Changes
  <2>1. PICK e : e = Head(events[c])
    OBVIOUS
  <2>2. EventFor(c, "loaded")
    BY <1>11 DEF HandleLoaded
  <2>3. e.snap \in Snapshot /\ e.snap.revision \in Nat
    BY <2>1, <2>2, Heads
  <2>4. /\ annotations' = [annotations EXCEPT ![c] = e.snap]
        /\ savedRev' = [savedRev EXCEPT ![c] = e.snap.revision]
        /\ phase' = [phase EXCEPT ![c] = "ready"]
        /\ UNCHANGED <<generation, path, pendingOpen>>
    BY <1>11, <2>1 DEF HandleLoaded
  <2> QED BY <1>2, <1>3, <2>3, <2>4
<1>12. ASSUME HandleLoadFailed(c) PROVE Changes
  <2>1. /\ annotations' = [annotations EXCEPT ![c] = Empty]
        /\ phase' = [phase EXCEPT ![c] = "blocked"]
        /\ UNCHANGED <<generation, path, savedRev, pendingOpen>>
    BY <1>12 DEF HandleLoadFailed
  <2> QED BY <1>2, <1>3, <1>4, <2>1
<1>13. ASSUME HandleSaved(c) PROVE Changes
  <2>1. SavedNow(c) \in Nat
    BY <1>13, SavedOnDisk DEF HandleSaved
  <2>2. CASE MayOpenNow(c)
    <3>1. pendingOpen[c] \in Path
      BY <1>3, <2>2 DEF MayOpenNow
    <3>2. BeginOpen(c, pendingOpen[c])
      BY <1>13, <2>2 DEF HandleSaved
    <3> HIDE DEF Changes
    <3> QED BY <1>6, <3>1, <3>2
  <2>3. CASE ~MayOpenNow(c)
    <3>1. /\ savedRev' = [savedRev EXCEPT ![c] = SavedNow(c)]
          /\ UNCHANGED <<generation, path, phase, annotations, pendingOpen>>
      BY <1>13, <2>3 DEF HandleSaved
    <3> QED BY <1>2, <1>3, <2>1, <3>1
  <2> QED BY <2>2, <2>3
<1>14. ASSUME HandleSaveFailed(c) PROVE Changes
  <2>1. /\ pendingOpen' = [pendingOpen EXCEPT ![c] = NoPath]
        /\ UNCHANGED <<generation, path, phase, annotations, savedRev>>
    BY <1>14 DEF HandleSaveFailed
  <2> HIDE DEF Changes
  <2> QED BY <1>5, <2>1
<1>15. ASSUME HandleOld(c) PROVE Changes
  <2>1. UNCHANGED <<generation, path, phase, annotations, savedRev, pendingOpen>>
    BY <1>15 DEF HandleOld, readerVars
  <2> QED BY <1>2, <1>3, <2>1
<1>16. Changes
  <2> HIDE DEF Changes
  <2> QED BY <1>7, <1>8, <1>9, <1>10, <1>11, <1>12, <1>13, <1>14, <1>15 DEF ReaderStep, ReceiveStep
<1>17. ReaderTypes'
  BY <1>1, <1>16 DEF ReaderTypes
<1>18. OnlyAt(c)
  BY <1>1, <1>16 DEF OnlyAt, SameReader, ReaderTypes
<1> QED BY <1>17, <1>18

\* Each step of a reader keeps its part of the invariant
LEMMA ReaderKeeps ==
  ASSUME SessionInv, TypeInv', [AnyNext]_vars, NEW c \in Client, ReaderStep(c)
  PROVE  SessionPart(c)'
<1>1. TypeInv /\ ReaderTypes /\ ReaderInv(c)
  BY Parts
<1>2. ASSUME NEW p \in Path, OpenClean(c, p) PROVE SessionPart(c)'
  BY <1>2, Opens DEF OpenClean
<1>3. ASSUME SaveAgain(c) \/ \E p \in Path : OpenDirty(c, p) PROVE SessionPart(c)'
  <2>1. /\ phase[c] = "ready" /\ UNCHANGED <<generation, path, phase, annotations, savedRev>>
        /\ annotations[c] \in Snapshot /\ Edited(c, annotations[c])
        /\ UNCHANGED vars \/ Submit(c, SaveOf(c, annotations[c]))
    BY <1>3, SavesAgain
  <2>2. PICK s \in Snapshot : s = annotations[c]
    BY <2>1
  <2>3. /\ Edited(c, s) /\ annotations'[c] = s
        /\ UNCHANGED vars \/ Submit(c, SaveOf(c, s))
        /\ generation'[c] = generation[c] /\ path'[c] = path[c] /\ phase'[c] = phase[c]
        /\ savedRev'[c] = savedRev[c]
    BY <2>1, <2>2
  <2> QED BY <2>1, <2>3, Edits
<1>4. ASSUME NEW m \in Mark \ Foreign, Edit(c, m) PROVE SessionPart(c)'
  <2>1. PICK s \in Snapshot :
          /\ Edited(c, s) /\ annotations'[c] = s
          /\ phase[c] = "ready" /\ UNCHANGED <<generation, path, phase, savedRev, pendingOpen>>
          /\ UNCHANGED vars \/ Submit(c, SaveOf(c, s))
    BY <1>4, EditMakes
  <2>2. /\ generation'[c] = generation[c] /\ path'[c] = path[c] /\ phase'[c] = phase[c]
        /\ savedRev'[c] = savedRev[c]
    BY <2>1
  <2> QED BY <2>1, <2>2, Edits
<1>5. ASSUME HandleSaveFailed(c) \/ HandleOld(c) PROVE SessionPart(c)'
  <2>1. Receive(c) /\ UNCHANGED <<generation, path, phase, annotations, savedRev>>
    BY <1>5 DEF HandleSaveFailed, HandleOld, EventFor, readerVars
  <2>2. SameReader(c) /\ savedRev'[c] = savedRev[c]
    BY <2>1 DEF SameReader
  <2>3. client'[c] \in {"unattached", "live"} /\ UNCHANGED serial
    BY <1>1, <2>1 DEF Receive, ReaderInv
  <2>4. ~\E request \in Request : Submit(c, request)
    <3> SUFFICES ASSUME NEW request \in Request, Submit(c, request) PROVE FALSE
      OBVIOUS
    <3>1. serial[c] \in Nat /\ serial \in [Client -> 0..MaxCalls]
      BY <1>1, Numbers DEF TypeInv
    <3>2. serial' = [serial EXCEPT ![c] = @ + 1]
      BY DEF Submit
    <3>3. serial'[c] = serial[c] + 1
      BY <3>1, <3>2
    <3> QED BY <2>3, <3>1, <3>3
  <2> QED BY <2>2, <2>3, <2>4, Aside
<1> QED BY <1>2, <1>3, <1>4, <1>5, Loads, LoadHandled, LoadFailureHandled, SaveHandled
        DEF ReaderStep, ReceiveStep

\* No serial of c is used up by a step in which c submits nothing
LEMMA NoCall ==
  ASSUME TypeInv, NEW c \in Client, serial'[c] = serial[c]
  PROVE  ~\E request \in Request : Submit(c, request)
<1> SUFFICES ASSUME NEW request \in Request, Submit(c, request) PROVE FALSE
  OBVIOUS
<1>1. serial[c] \in Nat /\ serial \in [Client -> 0..MaxCalls]
  BY Numbers DEF TypeInv
<1>2. serial' = [serial EXCEPT ![c] = @ + 1]
  BY DEF Submit
<1>3. serial'[c] = serial[c] + 1
  BY <1>1, <1>2
<1> QED BY <1>1, <1>3

\* A reader that is attached stays so
LEMMA Attached ==
  ASSUME TypeInv, Environment \/ ActorStep \/ Stopped \/ UNCHANGED vars,
         NEW c \in Client, client[c] \in {"unattached", "live"}
  PROVE  client'[c] \in {"unattached", "live"} /\ serial'[c] = serial[c]
<1>1. client \in [Client -> {"unattached", "live", "dropping", "dropped"}]
  BY DEF TypeInv
<1>2. ASSUME NEW d \in Client, Attach(d)
      PROVE  client'[c] \in {"unattached", "live"} /\ serial'[c] = serial[c]
  BY <1>1, <1>2 DEF Attach
<1>3. ASSUME NEW d \in Client, SendWake(d)
      PROVE  client'[c] \in {"unattached", "live"} /\ serial'[c] = serial[c]
  <2>1. c # d
    BY <1>3 DEF SendWake
  <2> QED BY <1>1, <1>3, <2>1 DEF SendWake
<1>4. ASSUME NEW d \in Client, StopListening(d)
      PROVE  client'[c] \in {"unattached", "live"} /\ serial'[c] = serial[c]
  BY <1>4 DEF StopListening, clientVars
<1>5. Inspect \/ ReleaseHandle \/ SendShutdown => UNCHANGED <<client, serial>>
  BY DEF Inspect, ReleaseHandle, SendShutdown
<1>6. ASSUME NEW p \in Path, NEW m \in Foreign, ForeignSave(p, m) PROVE UNCHANGED <<client, serial>>
  BY <1>6 DEF ForeignSave, clientVars
<1>7. ActorStep \/ Stopped \/ UNCHANGED vars => UNCHANGED <<client, serial>>
  BY Inside DEF Stopped, vars, clientVars
<1> QED BY <1>2, <1>3, <1>4, <1>5, <1>6, <1>7 DEF Environment

\* Nothing is known, saved or shown at the start
LEMMA SessionStart == SessionInit => SessionInv
<1> SUFFICES ASSUME SessionInit PROVE SessionInv
  OBVIOUS
<1>1. Init
  BY DEF SessionInit
<1>2. ServiceInv
  BY <1>1, ServiceInit
<1>3. Empty \in Snapshot
  BY DEF Empty, Snapshot
<1>4. ReaderTypes
  BY <1>3 DEF SessionInit, ReaderTypes
<1>5. ASSUME NEW c \in Client PROVE SessionPart(c)
  <2>1. /\ client[c] = "unattached" /\ phase[c] = "none" /\ annotations[c] = Empty
        /\ lane[c] = NewLane /\ mailbox = <<>> /\ pc = "top"
        /\ events[c] = <<>> /\ pending[c] = <<>>
    BY <1>1 DEF SessionInit, Init
  <2>2. DOMAIN mailbox = {} /\ DOMAIN lane[c].ops = {} /\ ~AtWork(c)
    BY <2>1, NewLaneIn DEF AtWork
  <2>3. Calls(c) = {}
    BY <2>2, CallIn
  <2>4. Answers(c) = <<>>
    BY <2>1 DEF Answers
  <2>5. DOMAIN Answers(c) = {}
    BY <2>4
  <2>6. Coming(c) = {} /\ StreamInv(c)
    BY <2>5 DEF Coming, StreamInv
  <2>7. ReaderInv(c) /\ ReadyInv(c)
    BY <2>1 DEF ReaderInv, ReadyInv
  <2>8. CallsInv(c) /\ EventsInv(c)
    BY <2>3, <2>6 DEF CallsInv, EventsInv
  <2> QED BY <2>6, <2>7, <2>8 DEF SessionPart
<1> QED BY <1>2, <1>4, <1>5 DEF SessionInv

\* A step of the session is one of the service
LEMMA SessionIsAny ==
  ASSUME SessionInv, [SessionNext]_sessionVars
  PROVE  [AnyNext]_vars
<1>1. ASSUME NEW c \in Client, ReaderStep(c) PROVE [AnyNext]_vars
  <2>1. Receive(c) \/ UNCHANGED vars \/ \E request \in Request : Submit(c, request)
    BY <1>1, ReaderAsks DEF Asks
  <2>2. UNCHANGED vars => vars' = vars
    BY DEF vars
  <2> QED BY <2>1, <2>2 DEF AnyNext, AnyClientStep
<1>2. UNCHANGED sessionVars => UNCHANGED vars
  BY DEF sessionVars
<1> QED BY <1>1, <1>2 DEF SessionNext, AnyNext

\* No step of a reader, of the service or of its environment breaks the invariant
LEMMA SessionStep == SessionInv /\ [SessionNext]_sessionVars => SessionInv'
<1> SUFFICES ASSUME SessionInv, [SessionNext]_sessionVars PROVE SessionInv'
  OBVIOUS
<1>1. ServiceInv /\ TypeInv /\ ReaderTypes /\ \A c \in Client : ReaderInv(c)
  BY DEF SessionInv, ServiceInv, SessionPart
<1>2. [AnyNext]_vars
  BY SessionIsAny
<1>3. ServiceInv' /\ TypeInv'
  <2>1. ServiceInv'
    BY <1>1, <1>2, ServiceNext
  <2> QED BY <2>1 DEF ServiceInv
<1>4. CASE \E c \in Client : ReaderStep(c)
  <2>1. PICK c \in Client : ReaderStep(c)
    BY <1>4
  <2>2. ReaderTypes' /\ OnlyAt(c)
    BY <1>3, <2>1, ReaderChanges
  <2>3. SessionPart(c)'
    BY <1>2, <1>3, <2>1, ReaderKeeps
  <2>4. ASSUME NEW d \in Client, d # c PROVE SessionPart(d)'
    <3>1. SameReader(d) /\ savedRev'[d] = savedRev[d]
      BY <2>2, <2>4 DEF OnlyAt
    <3>2. Receive(c) \/ UNCHANGED vars \/ \E request \in Request : Submit(c, request)
      BY <2>1, ReaderAsks DEF Asks
    <3>3. client' = client /\ serial'[d] = serial[d]
      BY <1>1, <2>4, <3>2 DEF Receive, Submit, vars, clientVars, TypeInv
    <3>4. client'[d] \in {"unattached", "live"}
      BY <1>1, <3>3 DEF ReaderInv
    <3>5. ~\E request \in Request : Submit(d, request)
      BY <1>1, <3>3, NoCall
    <3> QED BY <1>2, <1>3, <3>1, <3>4, <3>5, Aside
  <2> QED BY <1>3, <2>2, <2>3, <2>4 DEF SessionInv
<1>5. CASE UNCHANGED readerVars /\ (Environment \/ ActorStep \/ Stopped \/ UNCHANGED vars)
  <2>1. UNCHANGED <<generation, path, phase, annotations, savedRev, pendingOpen>>
    BY <1>5 DEF readerVars
  <2>2. ReaderTypes'
    BY <1>1, <2>1 DEF ReaderTypes
  <2>3. ASSUME NEW c \in Client PROVE SessionPart(c)'
    <3>1. SameReader(c) /\ savedRev'[c] = savedRev[c]
      BY <2>1 DEF SameReader
    <3>2. client'[c] \in {"unattached", "live"} /\ serial'[c] = serial[c]
      BY <1>1, <1>5, Attached DEF ReaderInv
    <3>3. ~\E request \in Request : Submit(c, request)
      BY <1>1, <3>2, NoCall
    <3> QED BY <1>2, <1>3, <3>1, <3>2, <3>3, Aside
  <2> QED BY <1>3, <2>2, <2>3 DEF SessionInv
<1>6. UNCHANGED sessionVars => UNCHANGED readerVars /\ UNCHANGED vars
  BY DEF sessionVars
<1> QED BY <1>4, <1>5, <1>6 DEF SessionNext

\* The invariant holds in every state of the service and its readers
THEOREM SessionInvariant == SessionSpec => []SessionInv
BY SessionStart, SessionStep, PTL DEF SessionSpec

\* CleanMeansStored, of handle_annotation_event and the saves of comments.rs: in a document with
\* annotation_saved_revision at the revision of its annotations all of them are in its sidecar
THEOREM CleanIsStored == SessionSpec => []CleanMeansStored
<1>1. SessionInv => CleanMeansStored
  BY DEF SessionInv, SessionPart, ReadyInv, CleanMeansStored
<1> QED BY <1>1, SessionInvariant, PTL

\* EditsAreKept, of save_sidecar_if and open_path_after_comment_guard: no sidecar loses an edit
\* it has, and a document is left for another only with all edits made to it in its sidecar
THEOREM EditsStay == SessionSpec => EditsAreKept
<1> DEFINE Kept ==
      /\ \A p \in Path : store[p].marks \subseteq store'[p].marks
      /\ \A c \in Client :
           generation'[c] # generation[c] /\ phase[c] = "ready" =>
             annotations[c].marks \subseteq store[path[c]].marks
<1>1. SessionInv /\ SessionInv' /\ [SessionNext]_sessionVars => [Kept]_sessionVars
  <2> SUFFICES ASSUME SessionInv, SessionInv', [SessionNext]_sessionVars PROVE Kept
    OBVIOUS
  <2>1. TypeInv' /\ [AnyNext]_vars
    BY SessionIsAny DEF SessionInv, ServiceInv
  <2>2. DiskGrows
    BY <2>1, DiskNext
  <2>3. \A p \in Path : store[p].marks \subseteq store'[p].marks
    BY <2>2 DEF DiskGrows
  <2>4. ASSUME NEW c \in Client, generation'[c] # generation[c], phase[c] = "ready"
        PROVE  annotations[c].marks \subseteq store[path[c]].marks
    <3>1. ReadyInv(c)
      BY Parts
    <3>2. PICK d \in Client : ReaderStep(d)
      BY <2>4 DEF SessionNext, sessionVars, readerVars
    <3>3. d = c
      BY <2>1, <2>4, <3>2, ReaderChanges DEF OnlyAt, SameReader
    <3>4. CASE \E p \in Path : OpenClean(c, p)
      BY <2>4, <3>1, <3>4 DEF OpenClean, ReadyInv
    <3>5. CASE HandleSaved(c)
      <4>1. EventFor(c, "saved") /\ MayOpenNow(c)
        BY <2>4, <3>5 DEF HandleSaved
      <4> QED BY <2>1, <4>1, SavedOnDisk DEF MayOpenNow
    <3>6. SaveAgain(c) \/ (\E p \in Path : OpenDirty(c, p)) => UNCHANGED generation
      BY DEF SaveAgain, OpenDirty
    <3>7. Opened(c) \/ (\E m \in Mark \ Foreign : Edit(c, m)) => UNCHANGED generation
      BY DEF Opened, Edit
    <3>8. HandleLoaded(c) \/ HandleLoadFailed(c) \/ HandleSaveFailed(c) \/ HandleOld(c)
            => UNCHANGED generation
      BY DEF HandleLoaded, HandleLoadFailed, HandleSaveFailed, HandleOld, readerVars
    <3> QED BY <2>4, <3>2, <3>3, <3>4, <3>5, <3>6, <3>7, <3>8 DEF ReaderStep, ReceiveStep
  <2> QED BY <2>3, <2>4
<1> QED BY <1>1, SessionInvariant, PTL DEF SessionSpec, EditsAreKept
=============================================================================

---------------------- MODULE EngineSupervisorProofs ----------------------
(* Proofs about EngineSupervisor, for any finite number of documents, any threads,
   classes and batches, any capacities and any number of calls.

   What the runs check of the supervisor is not inductive.  A result in a route is
   in order because of the session its demand was made of, the demand because the
   client had received that session when it made it, and both stay so while
   commands wait, pieces of a replacement are inserted and events are held back.
   SupervisorInv follows tokens and sessions through all of these places; FairInv
   relates how often a document was passed over to its place in the rotation. *)
EXTENDS EngineSupervisor, SequenceTheorems, FiniteSetTheorems, WellFoundedInduction, TLAPS

-----------------------------------------------------------------------------
(* Types *)

Item == [page : Nat, priority : 0..Interactive]
InsertJob == [doc : Doc, class : Class, work : Seq(Item), token : 1..MaxCalls,
              gen : Nat \ {0}, rejected : Nat]
RunJob == [doc : Doc, work : Work]

\* TypeOK, with sequences where it looks at their entries, and the job
TypeInv ==
  /\ client \in [Doc -> {"unattached", "live", "dropping", "dropped"}]
  /\ openToken \in [Doc -> 0..MaxCalls]
  /\ classToken \in [Doc -> [Class -> 0..MaxCalls]]
  /\ call \in [Doc -> [Thread -> {Idle} \cup Command]]
  /\ calls \in [Doc -> 0..MaxCalls]
  /\ session \in [Doc -> Nat]
  /\ told \in [Doc -> Nat]
  /\ handle \in {"held", "released", "shutdown"}
  /\ cancelled \in [Doc -> SUBSET (1..MaxCalls)]
  /\ commands \in Seq(Command)
  /\ route \in [Doc -> Seq(EventType)]
  /\ listening \in [Doc -> BOOLEAN]
  /\ pc \in {"drain", "insert", "flush", "start", "engine", "idle", "stopped"}
  /\ documents \in SUBSET Doc
  /\ rotation \in Seq(Doc)
  /\ active \in [Doc -> Nat]
  /\ nextGeneration \in [Doc -> Nat \ {0}]
  /\ opened \in [Doc -> BOOLEAN]
  /\ pending \in [Doc -> SUBSET Work]
  /\ nextSequence \in [Doc -> Nat \ {0}]
  /\ pendingEvents \in [Doc -> Seq(EventType)]
  /\ flushing \in SUBSET documents
  /\ pc # "flush" => flushing = {}
  /\ pc = "insert" => job \in InsertJob
  /\ pc \in {"start", "engine"} => job \in RunJob

-----------------------------------------------------------------------------
(* The rotation *)

\* A call is about its document
CallsAddressed ==
  \A d \in Doc, t \in Thread :
    call[d][t] # Idle => /\ call[d][t].doc = d
                         /\ call[d][t].op \in {"open", "close", "replace", "cancel"}

\* A document is attached once: one command says so, and before it is accepted the
\* owner does not know the document
AttachedOnce ==
  /\ \A d \in Doc : client[d] = "unattached" => d \notin documents
  /\ \A i \in DOMAIN commands : commands[i].op = "attach" =>
       /\ client[commands[i].doc] # "unattached" /\ commands[i].doc \notin documents
       /\ \A j \in DOMAIN commands :
            commands[j].op = "attach" /\ commands[j].doc = commands[i].doc => j = i

RotationInv == RotationComplete /\ AttachedOnce

-----------------------------------------------------------------------------
(* Tokens *)

\* A token is known as long as it is registered or cancelled
Known(d, token) == token \in cancelled[d] \cup Registered(d)

TokenInv ==
  /\ \A d \in Doc, t \in Thread :
       call[d][t].op \in {"open", "replace"} => Known(d, call[d][t].token)
  /\ \A i \in DOMAIN commands :
       commands[i].op \in {"open", "replace"} => Known(commands[i].doc, commands[i].token)
  /\ \A d \in Doc : \A w \in pending[d] : Known(d, w.token)
  /\ pc = "insert" => Known(job.doc, job.token)
  /\ pc \in {"start", "engine"} => Known(job.doc, job.work.token)

-----------------------------------------------------------------------------
(* The queue of a document *)

QueueInv ==
  \A d \in Doc :
    /\ IsFiniteSet(pending[d]) /\ Cardinality(pending[d]) <= MaxPending
    /\ \A v, w \in pending[d] : v.key = w.key => v = w
    /\ \A w \in pending[d] : w.key = OpenKey => w.priority = Interactive

-----------------------------------------------------------------------------
(* The stream of events of a document *)

\* The owner is between the beginning of a session and its announcement
MidOpen(d) == pc = "engine" /\ job.doc = d /\ job.work.key = OpenKey

NoChange(d) ==
  /\ \A i \in DOMAIN route[d] : route[d][i].kind \notin Changes
  /\ \A i \in DOMAIN pendingEvents[d] : pendingEvents[d][i].kind \notin Changes

\* A client has received the session g: as long as the owner has it, too, the
\* client has been told of no other, and will not be before the owner changes it
Served(d, g) ==
  /\ g \in Nat \ {0} /\ g <= session[d]
  /\ g = active[d] => opened[d] /\ told[d] = g /\ NoChange(d) /\ ~MidOpen(d)

\* What is demanded, is demanded of a session that the client has received
Demands ==
  /\ \A d \in Doc, t \in Thread :
       call[d][t].op = "replace" => Served(d, call[d][t].gen)
  /\ \A i \in DOMAIN commands :
       commands[i].op = "replace" => Served(commands[i].doc, commands[i].gen)
  /\ \A d \in Doc : \A w \in pending[d] : w.key # OpenKey => Served(d, w.gen)
  /\ pc = "insert" => Served(job.doc, job.gen)
  /\ pc \in {"start", "engine"} /\ job.work.key # OpenKey => Served(job.doc, job.work.gen)

\* The document whose work runs has no events waiting, and the engine is called for
\* the session that the owner has
JobInv ==
  /\ pc \in {"start", "engine"} => pendingEvents[job.doc] = <<>>
  /\ pc = "engine" /\ job.work.key # OpenKey => active[job.doc] = job.work.gen

\* Generations are numbered upwards
Generations(d) ==
  /\ active[d] < nextGeneration[d] /\ session[d] < nextGeneration[d]
  /\ \A i \in DOMAIN route[d] : route[d][i].gen < nextGeneration[d]
  /\ \A i \in DOMAIN pendingEvents[d] : pendingEvents[d][i].gen < nextGeneration[d]
  /\ MidOpen(d) =>
       /\ session[d] < active[d] /\ active[d] # 0
       /\ \A i \in DOMAIN route[d] : route[d][i].gen < active[d]

\* Of the events held back only the first is a raster or an Opened
FirstHeld(d) ==
  \A i \in DOMAIN pendingEvents[d] :
    pendingEvents[d][i].kind \in Results \cup {"discarded", "opened"} => i = 1

\* What an Opened on its way says: a session that the client does not have yet; and
\* as long as it is the owner's, no change follows it
Announces(d, e) ==
  /\ e.gen > session[d]
  /\ e.gen = active[d] => opened[d] /\ ~MidOpen(d)

RouteOpenings(d) ==
  \A j \in DOMAIN route[d] : route[d][j].kind = "opened" =>
    /\ Announces(d, route[d][j])
    /\ \A i \in DOMAIN route[d] : i < j => route[d][i].gen < route[d][j].gen
    /\ route[d][j].gen = active[d] =>
         /\ \A i \in DOMAIN route[d] : i > j => route[d][i].kind \notin Changes
         /\ \A i \in DOMAIN pendingEvents[d] : pendingEvents[d][i].kind \notin Changes

HeldOpenings(d) ==
  \A j \in DOMAIN pendingEvents[d] : pendingEvents[d][j].kind = "opened" =>
    /\ Announces(d, pendingEvents[d][j])
    /\ \A i \in DOMAIN route[d] : route[d][i].gen < pendingEvents[d][j].gen
    /\ pendingEvents[d][j].gen = active[d] =>
         \A i \in DOMAIN pendingEvents[d] : i > j => pendingEvents[d][i].kind \notin Changes

\* A result on its way is of the session the client was told of last, and no change
\* comes before it
RouteResults(d) ==
  \A j \in DOMAIN route[d] : route[d][j].kind \in Results =>
    /\ route[d][j].gen = told[d] /\ route[d][j].kind # "nodocument"
    /\ \A i \in DOMAIN route[d] : i < j => route[d][i].kind \notin Changes

HeldResults(d) ==
  \A j \in DOMAIN pendingEvents[d] : pendingEvents[d][j].kind \in Results =>
    /\ pendingEvents[d][j].gen = told[d] /\ pendingEvents[d][j].kind # "nodocument"
    /\ \A i \in DOMAIN route[d] : route[d][i].kind \notin Changes

DocStream(d) ==
  /\ session[d] # 0 => Served(d, session[d])
  /\ Generations(d) /\ FirstHeld(d) /\ RouteOpenings(d) /\ HeldOpenings(d)
  /\ RouteResults(d) /\ HeldResults(d)

StreamInv == Demands /\ JobInv /\ \A d \in Doc : DocStream(d)

SupervisorInv == TypeInv /\ CallsAddressed /\ RotationInv /\ TokenInv /\ QueueInv /\ StreamInv

-----------------------------------------------------------------------------
(* How often a document is passed over *)

\* The owner has yet to attach the document
Unattached(d) ==
  \/ client[d] = "unattached"
  \/ \E i \in DOMAIN commands : commands[i].op = "attach" /\ commands[i].doc = d

\* The work run for others since a document has had work, and the documents in front
\* of it in the rotation, are together fewer than the documents
FairInv ==
  /\ overtaken \in [Doc -> Nat]
  /\ \A d \in Doc : overtaken[d] < Cardinality(Doc)
  /\ \A i \in DOMAIN rotation : overtaken[rotation[i]] + i <= Cardinality(Doc)
  /\ \A d \in Doc : Unattached(d) => overtaken[d] = 0

-----------------------------------------------------------------------------
(* Facts about commands, work and events *)

\* The fields a command has, by its operation
LEMMA CommandFields ==
  ASSUME NEW c \in Command
  PROVE  /\ c.op \in {"attach", "close", "detach", "open", "cancel", "replace", "shutdown"}
         /\ c.op # "shutdown" => c.doc \in Doc
         /\ c.op \in {"open", "replace"} => c.token \in 1..MaxCalls
         /\ c.op \in {"cancel", "replace"} => c.class \in Class
         /\ c.op = "replace" => c.work \in Batch /\ c.gen \in Nat \ {0}
<1>1. CASE c \in [op : {"attach", "close", "detach"}, doc : Doc]
  BY <1>1
<1>2. CASE c \in [op : {"open"}, doc : Doc, token : 1..MaxCalls]
  BY <1>2
<1>3. CASE c \in [op : {"cancel"}, doc : Doc, class : Class]
  BY <1>3
<1>4. CASE c \in [op : {"replace"}, doc : Doc, class : Class, work : Batch,
                  token : 1..MaxCalls, gen : Nat \ {0}]
  BY <1>4
<1>5. CASE c \in [op : {"shutdown"}]
  BY <1>5
<1> QED BY <1>1, <1>2, <1>3, <1>4, <1>5 DEF Command

\* The commands that are sent
LEMMA CommandIn ==
  /\ \A d \in Doc : /\ [op |-> "attach", doc |-> d] \in Command
                    /\ [op |-> "close", doc |-> d] \in Command
                    /\ [op |-> "detach", doc |-> d] \in Command
  /\ \A d \in Doc, k \in 1..MaxCalls : [op |-> "open", doc |-> d, token |-> k] \in Command
  /\ \A d \in Doc, c \in Class : [op |-> "cancel", doc |-> d, class |-> c] \in Command
  /\ \A d \in Doc, c \in Class, b \in Batch, k \in 1..MaxCalls, g \in Nat \ {0} :
       [op |-> "replace", doc |-> d, class |-> c, work |-> b, token |-> k, gen |-> g]
         \in Command
  /\ [op |-> "shutdown"] \in Command
  BY DEF Command

\* What a piece of work consists of
LEMMA WorkFields ==
  ASSUME NEW w \in Work
  PROVE  /\ w.key \in {OpenKey} \cup (Class \X Nat) /\ w.sequence \in Nat
         /\ w.priority \in 0..Interactive /\ w.token \in 1..MaxCalls /\ w.gen \in Nat
  BY DEF Work

\* What is reported is an event
LEMMA EventIn ==
  ASSUME NEW g \in Nat, NEW k \in 0..MaxCalls,
         NEW kind \in Results \cup Changes \cup {"attached", "rejected", "discarded"}
  PROVE  /\ Event(kind, g, k) \in EventType
         /\ Event(kind, g, k).kind = kind /\ Event(kind, g, k).gen = g
         /\ Event(kind, g, k).token = k
  BY DEF Event, EventType

\* What an event consists of
LEMMA EventFields ==
  ASSUME NEW e \in EventType
  PROVE  /\ e.kind \in Results \cup Changes \cup {"attached", "rejected", "discarded"}
         /\ e.gen \in Nat /\ e.token \in 0..MaxCalls
  BY DEF EventType

\* The front of the commands is a command, and what is left are the others
LEMMA TakeCommand ==
  ASSUME TypeInv, commands # <<>>, commands' = Tail(commands)
  PROVE  /\ Head(commands) \in Command /\ Head(commands) = commands[1]
         /\ 1 \in DOMAIN commands
         /\ commands' \in Seq(Command)
         /\ \A i \in DOMAIN commands' : i + 1 \in DOMAIN commands
                                        /\ commands'[i] = commands[i + 1]
  BY HeadTailProperties DEF TypeInv

\* What is queued are commands
LEMMA QueuedCommands ==
  ASSUME TypeInv
  PROVE  \A i \in DOMAIN commands : commands[i] \in Command
  BY ElementOfSeq DEF TypeInv

\* What is sent goes to the end
LEMMA SendCommand ==
  ASSUME TypeInv, NEW c \in Command, Send(c)
  PROVE  /\ commands' \in Seq(Command) /\ DOMAIN commands' = 1..(Len(commands) + 1)
         /\ DOMAIN commands = 1..Len(commands) /\ Len(commands) \in Nat
         /\ commands'[Len(commands) + 1] = c
         /\ \A i \in DOMAIN commands : commands'[i] = commands[i]
  BY AppendProperties DEF TypeInv, Send

\* What is reported goes to the end of the pending events of its document
LEMMA PushEvent ==
  ASSUME TypeInv, NEW d \in Doc, NEW e \in EventType, Push(d, e)
  PROVE  /\ pendingEvents' \in [Doc -> Seq(EventType)]
         /\ \A x \in Doc \ {d} : pendingEvents'[x] = pendingEvents[x]
         /\ DOMAIN pendingEvents[d] = 1..Len(pendingEvents[d]) /\ Len(pendingEvents[d]) \in Nat
         /\ DOMAIN pendingEvents'[d] = 1..(Len(pendingEvents[d]) + 1)
         /\ Len(pendingEvents'[d]) = Len(pendingEvents[d]) + 1
         /\ pendingEvents'[d][Len(pendingEvents[d]) + 1] = e
         /\ \A i \in DOMAIN pendingEvents[d] : pendingEvents'[d][i] = pendingEvents[d][i]
<1>1. pendingEvents[d] \in Seq(EventType)
  BY DEF TypeInv
<1>2. pendingEvents' = [pendingEvents EXCEPT ![d] = Append(pendingEvents[d], e)]
  BY DEF Push
<1>3. pendingEvents'[d] = Append(pendingEvents[d], e) /\ \A x \in Doc \ {d} : pendingEvents'[x] = pendingEvents[x]
  BY <1>2 DEF TypeInv
<1>4. Append(pendingEvents[d], e) \in Seq(EventType)
  BY <1>1, AppendProperties
<1>5. pendingEvents' \in [Doc -> Seq(EventType)]
  BY <1>2, <1>4 DEF TypeInv
<1> QED BY <1>1, <1>3, <1>5, AppendProperties

-----------------------------------------------------------------------------
(* Types are kept *)

\* The types hold at the beginning
LEMMA TypeInit == Init => TypeInv
  BY PolicyAssumption, BoundAssumption, EmptySeq DEF Init, TypeInv

\* The tokens a client has registered are tokens
LEMMA RegisteredTokens ==
  ASSUME TypeInv, NEW d \in Doc
  PROVE  Registered(d) \in SUBSET (1..MaxCalls)
  BY BoundAssumption DEF TypeInv, Registered

\* cancel_all, and the registration of a call
LEMMA TokenTypes ==
  ASSUME TypeInv, NEW d \in Doc
  PROVE  /\ [cancelled EXCEPT ![d] = @ \cup Registered(d)] \in [Doc -> SUBSET (1..MaxCalls)]
         /\ [classToken EXCEPT ![d] = [c \in Class |-> 0]] \in [Doc -> [Class -> 0..MaxCalls]]
         /\ \A k \in 0..MaxCalls :
              [openToken EXCEPT ![d] = k] \in [Doc -> 0..MaxCalls]
         /\ 0 \in 0..MaxCalls
         /\ \A c \in Class, k \in 0..MaxCalls :
              /\ [classToken EXCEPT ![d][c] = k] \in [Doc -> [Class -> 0..MaxCalls]]
              /\ [cancelled EXCEPT ![d] = @ \cup ({classToken[d][c]} \ {0})]
                    \in [Doc -> SUBSET (1..MaxCalls)]
         /\ \A t \in Thread, x \in {Idle} \cup Command :
              [call EXCEPT ![d][t] = x] \in [Doc -> [Thread -> {Idle} \cup Command]]
<1> USE BoundAssumption
<1>1. [cancelled EXCEPT ![d] = @ \cup Registered(d)] \in [Doc -> SUBSET (1..MaxCalls)]
  BY RegisteredTokens DEF TypeInv
<1>2. [classToken EXCEPT ![d] = [c \in Class |-> 0]] \in [Doc -> [Class -> 0..MaxCalls]]
  BY DEF TypeInv
<1>3. \A k \in 0..MaxCalls : [openToken EXCEPT ![d] = k] \in [Doc -> 0..MaxCalls]
  BY DEF TypeInv
<1>4. ASSUME NEW c \in Class, NEW k \in 0..MaxCalls
      PROVE  [classToken EXCEPT ![d][c] = k] \in [Doc -> [Class -> 0..MaxCalls]]
  BY DEF TypeInv
<1>5. ASSUME NEW c \in Class
      PROVE  [cancelled EXCEPT ![d] = @ \cup ({classToken[d][c]} \ {0})]
               \in [Doc -> SUBSET (1..MaxCalls)]
  <2>1. classToken[d][c] \in 0..MaxCalls
    BY DEF TypeInv
  <2>2. {classToken[d][c]} \ {0} \in SUBSET (1..MaxCalls)
    BY <2>1
  <2> QED BY <2>2 DEF TypeInv
<1>6. ASSUME NEW t \in Thread, NEW x \in {Idle} \cup Command
      PROVE  [call EXCEPT ![d][t] = x] \in [Doc -> [Thread -> {Idle} \cup Command]]
  BY DEF TypeInv
<1>7. 0 \in 0..MaxCalls
  OBVIOUS
<1> QED BY <1>1, <1>2, <1>3, <1>4, <1>5, <1>6, <1>7

\* A client changes nothing of the owner
LEMMA ClientFrame == ClientStep => UNCHANGED ownerVars
<1> SUFFICES ASSUME ClientStep PROVE UNCHANGED ownerVars
  OBVIOUS
<1>1. ASSUME NEW d \in Doc, Attach(d) \/ DropClient(d) \/ SendDetach(d) \/ Receive(d)
                            \/ StopListening(d)
      PROVE  UNCHANGED ownerVars
  BY <1>1 DEF Attach, DropClient, SendDetach, Receive, StopListening
<1>2. ASSUME NEW d \in Doc, NEW t \in Thread,
             EnterOpen(d, t) \/ EnterClose(d, t) \/ SendCall(d, t)
      PROVE  UNCHANGED ownerVars
  BY <1>2 DEF EnterOpen, EnterClose, SendCall, Enter
<1>3. ASSUME NEW d \in Doc, NEW t \in Thread, NEW c \in Class, EnterCancel(d, t, c)
      PROVE  UNCHANGED ownerVars
  BY <1>3 DEF EnterCancel, Enter
<1>4. ASSUME NEW d \in Doc, NEW t \in Thread, NEW c \in Class, NEW b \in Batch,
             EnterReplace(d, t, c, b)
      PROVE  UNCHANGED ownerVars
  BY <1>4 DEF EnterReplace, Enter
<1>5. DropHandle \/ SendShutdown => UNCHANGED ownerVars
  BY DEF DropHandle, SendShutdown
<1> QED BY <1>1, <1>2, <1>3, <1>4, <1>5 DEF ClientStep

\* A client's step keeps them
LEMMA TypeClient == TypeInv /\ ClientStep => TypeInv'
<1> SUFFICES ASSUME TypeInv, ClientStep PROVE TypeInv'
  OBVIOUS
<1>1. ASSUME NEW d \in Doc, Attach(d) PROVE TypeInv'
  <2>1. commands' \in Seq(Command)
    BY <1>1, CommandIn, SendCommand DEF Attach
  <2> QED BY <1>1, <2>1 DEF Attach, TypeInv, ownerVars, docVars
<1>2. ASSUME NEW d \in Doc, DropClient(d) PROVE TypeInv'
  BY <1>2, TokenTypes DEF DropClient, TypeInv, ownerVars, docVars
<1>3. ASSUME NEW d \in Doc, SendDetach(d) PROVE TypeInv'
  <2>1. commands' \in Seq(Command)
    BY <1>3, CommandIn, SendCommand DEF SendDetach
  <2> QED BY <1>3, <2>1 DEF SendDetach, TypeInv, ownerVars, docVars
<1>4. ASSUME NEW d \in Doc, Receive(d) PROVE TypeInv'
  <2>1. route[d] \in Seq(EventType) /\ route[d] # <<>>
    BY <1>4 DEF Receive, TypeInv
  <2>2. Head(route[d]) \in EventType /\ Tail(route[d]) \in Seq(EventType)
    BY <2>1, HeadTailProperties
  <2>3. Head(route[d]).gen \in Nat /\ Announced(Head(route[d])) \in Nat
    BY <2>2, EventFields DEF Announced
  <2> QED BY <1>4, <2>2, <2>3 DEF Receive, TypeInv, ownerVars, docVars
<1>5. ASSUME NEW d \in Doc, StopListening(d) PROVE TypeInv'
  BY <1>5, EmptySeq DEF StopListening, TypeInv, clientVars, ownerVars, docVars
<1>6. ASSUME NEW d \in Doc, NEW t \in Thread, EnterOpen(d, t) PROVE TypeInv'
  <2>1. calls[d] + 1 \in 1..MaxCalls
    BY <1>6, BoundAssumption DEF EnterOpen, Enter, TypeInv
  <2>2. [op |-> "open", doc |-> d, token |-> calls[d] + 1] \in Command
    BY <2>1, CommandIn
  <2>3. calls' \in [Doc -> 0..MaxCalls]
    BY <1>6, <2>1 DEF EnterOpen, Enter, TypeInv
  <2> QED BY <1>6, <2>1, <2>2, <2>3, TokenTypes
          DEF EnterOpen, Enter, TypeInv, ownerVars, docVars
<1>7. ASSUME NEW d \in Doc, NEW t \in Thread, EnterClose(d, t) PROVE TypeInv'
  <2>1. calls[d] + 1 \in 1..MaxCalls
    BY <1>7, BoundAssumption DEF EnterClose, Enter, TypeInv
  <2>2. [op |-> "close", doc |-> d] \in Command
    BY CommandIn
  <2>3. calls' \in [Doc -> 0..MaxCalls]
    BY <1>7, <2>1 DEF EnterClose, Enter, TypeInv
  <2> QED BY <1>7, <2>1, <2>2, <2>3, TokenTypes
          DEF EnterClose, Enter, TypeInv, ownerVars, docVars
<1>8. ASSUME NEW d \in Doc, NEW t \in Thread, SendCall(d, t) PROVE TypeInv'
  <2>1. call[d][t] \in Command
    BY <1>8 DEF SendCall, TypeInv
  <2>2. commands' \in Seq(Command)
    BY <1>8, <2>1, SendCommand DEF SendCall
  <2> QED BY <1>8, <2>2 DEF SendCall, TypeInv, ownerVars, docVars
<1>9. ASSUME NEW d \in Doc, NEW t \in Thread, NEW c \in Class, EnterCancel(d, t, c)
      PROVE  TypeInv'
  <2>1. calls[d] + 1 \in 1..MaxCalls /\ classToken[d][c] \in 0..MaxCalls
    BY <1>9, BoundAssumption DEF EnterCancel, Enter, TypeInv
  <2>2. [op |-> "cancel", doc |-> d, class |-> c] \in Command
    BY CommandIn
  <2>3. calls' \in [Doc -> 0..MaxCalls]
    BY <1>9, <2>1 DEF EnterCancel, Enter, TypeInv
  <2> QED BY <1>9, <2>1, <2>2, <2>3, TokenTypes
          DEF EnterCancel, Enter, TypeInv, ownerVars, docVars
<1>10. ASSUME NEW d \in Doc, NEW t \in Thread, NEW c \in Class, NEW b \in Batch,
              EnterReplace(d, t, c, b)
       PROVE  TypeInv'
  <2>1. calls[d] + 1 \in 1..MaxCalls /\ classToken[d][c] \in 0..MaxCalls
        /\ session[d] \in Nat \ {0}
    BY <1>10, BoundAssumption DEF EnterReplace, Enter, TypeInv
  <2>2. [op |-> "replace", doc |-> d, class |-> c, work |-> b, token |-> calls[d] + 1,
         gen |-> session[d]] \in Command
    BY <2>1, CommandIn
  <2>3. calls' \in [Doc -> 0..MaxCalls]
    BY <1>10, <2>1 DEF EnterReplace, Enter, TypeInv
  <2> QED BY <1>10, <2>1, <2>2, <2>3, TokenTypes
          DEF EnterReplace, Enter, TypeInv, ownerVars, docVars
<1>11. CASE DropHandle
  BY <1>11 DEF DropHandle, TypeInv, sharedVars, ownerVars, docVars
<1>12. CASE SendShutdown
  <2>1. commands' \in Seq(Command)
    BY <1>12, CommandIn, SendCommand DEF SendShutdown
  <2> QED BY <1>12, <2>1 DEF SendShutdown, TypeInv, ownerVars, docVars
<1> QED BY <1>1, <1>2, <1>3, <1>4, <1>5, <1>6, <1>7, <1>8, <1>9, <1>10, <1>11, <1>12
        DEF ClientStep


\* What the owner cancels are tokens
LEMMA CancelTypes ==
  ASSUME TypeInv, NEW d \in Doc, NEW S \in SUBSET Work
  PROVE  /\ Tokens(S) \in SUBSET (1..MaxCalls)
         /\ [cancelled EXCEPT ![d] = @ \cup Tokens(S)] \in [Doc -> SUBSET (1..MaxCalls)]
         /\ [pending EXCEPT ![d] = S] \in [Doc -> SUBSET Work]
<1>1. Tokens(S) \in SUBSET (1..MaxCalls)
  BY WorkFields DEF Tokens
<1> QED BY <1>1 DEF TypeInv

\* cancel_and_clear
LEMMA ClearTypes ==
  ASSUME TypeInv, NEW d \in Doc, NEW S \in SUBSET Work, CancelAndClear(d, S)
  PROVE  /\ cancelled' \in [Doc -> SUBSET (1..MaxCalls)] /\ pending' \in [Doc -> SUBSET Work]
         /\ active' \in [Doc -> Nat] /\ opened' \in [Doc -> BOOLEAN]
<1>1. pending[d] \in SUBSET Work
  BY DEF TypeInv
<1>2. cancelled' \in [Doc -> SUBSET (1..MaxCalls)]
  BY <1>1, CancelTypes DEF CancelAndClear
<1> QED BY <1>2, CancelTypes DEF CancelAndClear, TypeInv

\* Removing a document from the rotation leaves the others
LEMMA RetainedEntry ==
  ASSUME NEW s \in Seq(Doc), NEW d \in Doc
  PROVE  Retained(s, d) \in Seq(Doc)
<1> DEFINE at == {i \in DOMAIN s : s[i] = d}
           n  == CHOOSE i \in at : TRUE
<1>1. CASE at = {}
  BY <1>1 DEF Retained
<1>2. CASE at # {}
  <2>1. n \in 1..Len(s)
    BY <1>2
  <2>2. Retained(s, d) = SubSeq(s, 1, n - 1) \o SubSeq(s, n + 1, Len(s))
    BY <1>2 DEF Retained
  <2> HIDE DEF n
  <2>3. SubSeq(s, 1, n - 1) \in Seq(Doc) /\ SubSeq(s, n + 1, Len(s)) \in Seq(Doc)
    BY <2>1, SubSeqProperties, LenProperties
  <2> QED BY <2>2, <2>3, ConcatProperties
<1> QED BY <1>1, <1>2

\* remove_document keeps them
LEMMA RemoveTypes ==
  ASSUME TypeInv, NEW d \in Doc, RemoveDocument(d)
  PROVE  /\ cancelled' \in [Doc -> SUBSET (1..MaxCalls)] /\ pending' \in [Doc -> SUBSET Work]
         /\ active' \in [Doc -> Nat] /\ opened' \in [Doc -> BOOLEAN]
         /\ documents' \in SUBSET Doc /\ rotation' \in Seq(Doc)
         /\ pendingEvents' \in [Doc -> Seq(EventType)]
         /\ nextGeneration' = nextGeneration /\ nextSequence' = nextSequence
<1>1. /\ cancelled' \in [Doc -> SUBSET (1..MaxCalls)] /\ pending' \in [Doc -> SUBSET Work]
      /\ active' \in [Doc -> Nat] /\ opened' \in [Doc -> BOOLEAN]
  BY ClearTypes DEF RemoveDocument
<1>2. documents' \in SUBSET Doc /\ rotation' \in Seq(Doc)
  BY RetainedEntry DEF RemoveDocument, TypeInv
<1>3. pendingEvents' \in [Doc -> Seq(EventType)]
  BY EmptySeq DEF RemoveDocument, TypeInv
<1> QED BY <1>1, <1>2, <1>3 DEF RemoveDocument

\* The front of the commands while one of an operation is accepted
LEMMA Accepted ==
  ASSUME TypeInv, NEW op, Accept(op)
  PROVE  /\ Head(commands) \in Command /\ Head(commands).op = op /\ Head(commands) = commands[1]
         /\ 1 \in DOMAIN commands /\ commands' \in Seq(Command)
         /\ \A i \in DOMAIN commands' : i + 1 \in DOMAIN commands
                                        /\ commands'[i] = commands[i + 1]
         /\ pc \in {"drain", "idle"} /\ UNCHANGED <<clientVars, route, listening, overtaken>>
         /\ flushing = {} /\ flushing' = {}
<1>1. flushing = {} /\ flushing' = {}
  BY DEF Accept, TypeInv
<1> QED BY <1>1, TakeCommand DEF Accept

\* Accepting a command keeps them
LEMMA TypeAccept == TypeInv /\ AcceptStep => TypeInv'
<1> SUFFICES ASSUME TypeInv, AcceptStep PROVE TypeInv'
  OBVIOUS
<1> DEFINE c == Head(commands)
<1>1. CASE AcceptAttach
  <2>1. c \in Command /\ c.op = "attach" /\ commands' \in Seq(Command)
        /\ UNCHANGED <<clientVars, route, listening>> /\ flushing' = {}
    BY <1>1, Accepted DEF AcceptAttach
  <2>2. c.doc \in Doc
    BY <2>1, CommandFields
  <2>3. pendingEvents' \in [Doc -> Seq(EventType)]
    <3> DEFINE e == Event("attached", 0, 0)
    <3>1. /\ "attached" \in Results \cup Changes \cup {"attached", "rejected", "discarded"}
          /\ 0 \in Nat /\ 0 \in 0..MaxCalls
      BY BoundAssumption
    <3>2. e \in EventType
      BY <3>1, EventIn, Zenon
    <3>3. Push(c.doc, e)
      BY <1>1 DEF AcceptAttach
    <3> HIDE DEF e
    <3> QED BY <2>2, <3>2, <3>3, PushEvent
  <2>4. rotation' \in Seq(Doc)
    BY <1>1, <2>2, AppendProperties DEF AcceptAttach, TypeInv
  <2> QED BY <1>1, <2>1, <2>2, <2>3, <2>4 DEF AcceptAttach, TypeInv, clientVars
<1>2. CASE AcceptOpen
  <2>1. c \in Command /\ c.op = "open" /\ commands' \in Seq(Command)
        /\ UNCHANGED <<clientVars, route, listening>> /\ flushing' = {}
    BY <1>2, Accepted DEF AcceptOpen
  <2>2. c.doc \in Doc /\ c.token \in 1..MaxCalls
    BY <2>1, CommandFields
  <2>3. [key |-> OpenKey, sequence |-> nextSequence[c.doc], priority |-> Interactive,
         token |-> c.token, gen |-> 0] \in Work
    BY <2>2, WorkAssumption DEF Work, TypeInv
  <2>4. /\ cancelled' \in [Doc -> SUBSET (1..MaxCalls)] /\ pending' \in [Doc -> SUBSET Work]
        /\ active' \in [Doc -> Nat] /\ opened' \in [Doc -> BOOLEAN]
        /\ nextSequence' \in [Doc -> Nat \ {0}]
    <3>1. CASE c.doc \in documents
      <4>1. CancelAndClear(c.doc, {[key |-> OpenKey, sequence |-> nextSequence[c.doc],
                                    priority |-> Interactive, token |-> c.token, gen |-> 0]})
            /\ nextSequence' = [nextSequence EXCEPT ![c.doc] = @ + 1]
        BY <1>2, <3>1 DEF AcceptOpen
      <4>2. nextSequence' \in [Doc -> Nat \ {0}]
        BY <2>2, <4>1, SMTT(30) DEF TypeInv
      <4>3. {[key |-> OpenKey, sequence |-> nextSequence[c.doc], priority |-> Interactive,
              token |-> c.token, gen |-> 0]} \in SUBSET Work
        BY <2>3
      <4> QED BY <2>2, <4>1, <4>2, <4>3, ClearTypes
    <3>2. CASE c.doc \notin documents
      BY <1>2, <3>2 DEF AcceptOpen, TypeInv
    <3> QED BY <3>1, <3>2
  <2> QED BY <1>2, <2>1, <2>4 DEF AcceptOpen, TypeInv, clientVars
<1>3. CASE AcceptClose
  <2>1. c \in Command /\ c.op = "close" /\ commands' \in Seq(Command)
        /\ UNCHANGED <<clientVars, route, listening>> /\ flushing' = {}
    BY <1>3, Accepted DEF AcceptClose
  <2>2. c.doc \in Doc
    BY <2>1, CommandFields
  <2>3. Event("closed", active[c.doc], 0) \in EventType
    <3>1. active[c.doc] \in Nat /\ 0 \in 0..MaxCalls /\ "closed" \in Changes
      BY <2>2, BoundAssumption DEF TypeInv, Changes
    <3> QED BY <3>1, EventIn
  <2>4. /\ cancelled' \in [Doc -> SUBSET (1..MaxCalls)] /\ pending' \in [Doc -> SUBSET Work]
        /\ active' \in [Doc -> Nat] /\ opened' \in [Doc -> BOOLEAN]
        /\ pendingEvents' \in [Doc -> Seq(EventType)]
    <3>1. CASE c.doc \in documents
      BY <1>3, <2>2, <2>3, <3>1, ClearTypes, PushEvent DEF AcceptClose
    <3>2. CASE c.doc \notin documents
      BY <1>3, <3>2 DEF AcceptClose, TypeInv
    <3> QED BY <3>1, <3>2
  <2> QED BY <1>3, <2>1, <2>4 DEF AcceptClose, TypeInv, clientVars
<1>4. CASE AcceptReplace
  <2>1. c \in Command /\ c.op = "replace" /\ commands' \in Seq(Command)
        /\ UNCHANGED <<clientVars, route, listening>> /\ flushing' = {}
    BY <1>4, Accepted DEF AcceptReplace
  <2>2. /\ c.doc \in Doc /\ c.class \in Class /\ c.token \in 1..MaxCalls
        /\ c.work \in Seq(Item) /\ c.gen \in Nat \ {0}
    BY <2>1, CommandFields, WorkAssumption DEF Item
  <2>3. [doc |-> c.doc, class |-> c.class, work |-> c.work, token |-> c.token,
         gen |-> c.gen, rejected |-> 0] \in InsertJob
    BY <2>2 DEF InsertJob
  <2>4. OfClass(c.doc, c.class) \in SUBSET Work
        /\ pending[c.doc] \ OfClass(c.doc, c.class) \in SUBSET Work
    BY <2>2 DEF OfClass, TypeInv
  <2>5. /\ cancelled' \in [Doc -> SUBSET (1..MaxCalls)] /\ pending' \in [Doc -> SUBSET Work]
        /\ pc' \in {"drain", "insert"} /\ (pc' = "insert" => job' \in InsertJob)
    <3>1. CASE c.doc \in documents
      <4>1. /\ pending' = [pending EXCEPT ![c.doc] = pending[c.doc] \ OfClass(c.doc, c.class)]
            /\ cancelled' = [cancelled EXCEPT ![c.doc] = @ \cup Tokens(OfClass(c.doc, c.class))]
            /\ pc' = "insert"
            /\ job' = [doc |-> c.doc, class |-> c.class, work |-> c.work, token |-> c.token,
                       gen |-> c.gen, rejected |-> 0]
        BY <1>4, <3>1 DEF AcceptReplace
      <4> QED BY <2>2, <2>3, <2>4, <4>1, CancelTypes
    <3>2. CASE c.doc \notin documents
      BY <1>4, <3>2 DEF AcceptReplace, TypeInv
    <3> QED BY <3>1, <3>2
  <2> QED BY <1>4, <2>1, <2>5 DEF AcceptReplace, TypeInv, clientVars
<1>5. CASE AcceptCancelClass
  <2>1. c \in Command /\ c.op = "cancel" /\ commands' \in Seq(Command)
        /\ UNCHANGED <<clientVars, route, listening>> /\ flushing' = {}
    BY <1>5, Accepted DEF AcceptCancelClass
  <2>2. c.doc \in Doc
    BY <2>1, CommandFields
  <2>3. OfClass(c.doc, c.class) \in SUBSET Work
        /\ pending[c.doc] \ OfClass(c.doc, c.class) \in SUBSET Work
    BY <2>2 DEF OfClass, TypeInv
  <2>4. cancelled' \in [Doc -> SUBSET (1..MaxCalls)] /\ pending' \in [Doc -> SUBSET Work]
    <3>1. CASE c.doc \in documents
      <4>1. /\ pending' = [pending EXCEPT ![c.doc] = pending[c.doc] \ OfClass(c.doc, c.class)]
            /\ cancelled' = [cancelled EXCEPT ![c.doc] = @ \cup Tokens(OfClass(c.doc, c.class))]
        BY <1>5, <3>1 DEF AcceptCancelClass
      <4> QED BY <2>2, <2>3, <4>1, CancelTypes
    <3>2. CASE c.doc \notin documents
      BY <1>5, <3>2 DEF AcceptCancelClass, TypeInv
    <3> QED BY <3>1, <3>2
  <2> QED BY <1>5, <2>1, <2>4 DEF AcceptCancelClass, TypeInv, clientVars
<1>6. CASE AcceptDetach
  <2>1. c \in Command /\ c.op = "detach" /\ commands' \in Seq(Command)
        /\ UNCHANGED <<clientVars, route, listening>> /\ flushing' = {}
    BY <1>6, Accepted DEF AcceptDetach
  <2>2. c.doc \in Doc /\ RemoveDocument(c.doc)
    BY <1>6, <2>1, CommandFields DEF AcceptDetach
  <2>3. flushing' \in SUBSET documents' /\ pc' = "drain"
    BY <1>6, <2>1 DEF AcceptDetach
  <2> QED BY <2>1, <2>2, <2>3, RemoveTypes DEF TypeInv, clientVars
<1>7. CASE AcceptShutdown
  <2>1. commands' \in Seq(Command)
        /\ UNCHANGED <<clientVars, route, listening>> /\ flushing' = {}
    BY <1>7, Accepted DEF AcceptShutdown
  <2>2. \A d \in Doc : Tokens(pending[d]) \in SUBSET (1..MaxCalls)
    BY CancelTypes DEF TypeInv
  <2>3. cancelled' \in [Doc -> SUBSET (1..MaxCalls)]
    BY <1>7, <2>2 DEF AcceptShutdown, TypeInv
  <2>4. <<>> \in Seq(EventType) /\ <<>> \in Seq(Doc)
    BY EmptySeq
  <2> QED BY <1>7, <2>1, <2>3, <2>4 DEF AcceptShutdown, TypeInv, clientVars
<1> QED BY <1>1, <1>2, <1>3, <1>4, <1>5, <1>6, <1>7 DEF AcceptStep

\* The work a turn of replace_class inserts
Inserted(d) ==
  [key |-> <<job.class, Head(job.work).page>>, sequence |-> nextSequence[d],
   priority |-> Head(job.work).priority, token |-> job.token, gen |-> job.gen]

Displaced(d) == {v \in pending[d] : v.key = Inserted(d).key}
Grown(d) == (pending[d] \ Displaced(d)) \cup {Inserted(d)}

\* One turn, in these terms
LEMMA InsertMoves ==
  ASSUME TypeInv, InsertWork
  PROVE  LET d == job.doc IN
         /\ d \in Doc /\ job \in InsertJob /\ job.class \in Class
         /\ Inserted(d) \in Work /\ Inserted(d).key \in Class \X Nat
         /\ Inserted(d).key[1] = job.class
         /\ Inserted(d).token = job.token /\ Inserted(d).gen = job.gen
         /\ Grown(d) \in SUBSET Work /\ Displaced(d) \in SUBSET Work
         /\ Evicted(Grown(d)) \in SUBSET Grown(d)
         /\ pending' = [pending EXCEPT ![d] = Grown(d) \ Evicted(Grown(d))]
         /\ cancelled' = [cancelled EXCEPT ![d] =
                            @ \cup Tokens(Displaced(d) \cup Evicted(Grown(d)))]
         /\ nextSequence' = [nextSequence EXCEPT ![d] = @ + 1]
         /\ job' = [job EXCEPT !.work = Tail(@),
                               !.rejected = @ + Cardinality(Evicted(Grown(d)))]
         /\ Tail(job.work) \in Seq(Item)
<1> DEFINE d == job.doc
<1>1. job \in InsertJob /\ job.work # <<>> /\ job.work \in Seq(Item) /\ d \in Doc
      /\ job.class \in Class /\ job.token \in 1..MaxCalls /\ job.gen \in Nat
  BY DEF InsertWork, TypeInv, InsertJob
<1>2. Head(job.work) \in Item /\ Tail(job.work) \in Seq(Item)
  BY <1>1, HeadTailProperties
<1>3. Head(job.work).page \in Nat /\ Head(job.work).priority \in 0..Interactive
  BY <1>2 DEF Item
<1>4. nextSequence[d] \in Nat
  BY <1>1 DEF TypeInv
<1>5. /\ Inserted(d).key = <<job.class, Head(job.work).page>>
      /\ Inserted(d).token = job.token /\ Inserted(d).gen = job.gen
  BY DEF Inserted
<1>6. Inserted(d) \in Work
  BY <1>1, <1>3, <1>4 DEF Inserted, Work
<1>7. Grown(d) \in SUBSET Work /\ Displaced(d) \in SUBSET Work
  BY <1>1, <1>6 DEF Grown, Displaced, TypeInv
<1>8. Evicted(Grown(d)) \in SUBSET Grown(d)
  BY DEF Evicted, Least
<1>9. /\ pending' = [pending EXCEPT ![d] = Grown(d) \ Evicted(Grown(d))]
      /\ cancelled' = [cancelled EXCEPT ![d] =
                         @ \cup Tokens(Displaced(d) \cup Evicted(Grown(d)))]
      /\ nextSequence' = [nextSequence EXCEPT ![d] = @ + 1]
      /\ job' = [job EXCEPT !.work = Tail(@),
                            !.rejected = @ + Cardinality(Evicted(Grown(d)))]
  BY DEF InsertWork, Grown, Displaced, Inserted
<1> QED BY <1>1, <1>2, <1>3, <1>5, <1>6, <1>7, <1>8, <1>9

\* So does every step of the owner; the queues matter because the evicted are counted
LEMMA TypeOwner == TypeInv /\ QueueInv /\ OwnerStep => TypeInv'
<1> SUFFICES ASSUME TypeInv, QueueInv, OwnerStep PROVE TypeInv'
  OBVIOUS
<1>1. CASE AcceptStep
  BY <1>1, TypeAccept, Zenon
<1>2. CASE InsertWork
  <2> DEFINE d == job.doc
             lost == Evicted(Grown(d))
  <2>1. /\ d \in Doc /\ job \in InsertJob /\ Grown(d) \in SUBSET Work
        /\ Displaced(d) \in SUBSET Work /\ lost \in SUBSET Grown(d)
        /\ pending' = [pending EXCEPT ![d] = Grown(d) \ lost]
        /\ cancelled' = [cancelled EXCEPT ![d] = @ \cup Tokens(Displaced(d) \cup lost)]
        /\ nextSequence' = [nextSequence EXCEPT ![d] = @ + 1]
        /\ job' = [job EXCEPT !.work = Tail(@), !.rejected = @ + Cardinality(lost)]
        /\ Tail(job.work) \in Seq(Item)
    BY <1>2, InsertMoves
  <2>2. IsFiniteSet(Grown(d))
    <3>1. IsFiniteSet(pending[d])
      BY <2>1 DEF QueueInv
    <3>2. IsFiniteSet(pending[d] \ Displaced(d))
      BY <3>1, FS_Subset
    <3> QED BY <3>2, FS_AddElement DEF Grown
  <2>3. Cardinality(lost) \in Nat
    BY <2>1, <2>2, FS_Subset, FS_CardinalityType
  <2> HIDE DEF d, lost
  <2>4. job' \in InsertJob
    <3>1. job.rejected + Cardinality(lost) \in Nat
      BY <2>1, <2>3 DEF InsertJob
    <3>2. job' = [job EXCEPT !.work = Tail(job.work), !.rejected = job.rejected + Cardinality(lost)]
      BY <2>1
    <3> QED BY <2>1, <3>1, <3>2 DEF InsertJob
  <2>5. cancelled' \in [Doc -> SUBSET (1..MaxCalls)]
    BY <2>1, CancelTypes
  <2>6. pending' \in [Doc -> SUBSET Work]
    BY <2>1, CancelTypes
  <2>7. nextSequence' \in [Doc -> Nat \ {0}]
    <3>1. nextSequence \in [Doc -> Nat \ {0}]
      BY DEF TypeInv
    <3>2. nextSequence[d] + 1 \in Nat \ {0}
      BY <2>1, <3>1
    <3>3. nextSequence' = [nextSequence EXCEPT ![d] = nextSequence[d] + 1]
      BY <2>1
    <3> QED BY <3>1, <3>2, <3>3
  <2> QED BY <1>2, <2>4, <2>5, <2>6, <2>7 DEF InsertWork, TypeInv, clientVars
<1>3. CASE InsertDone
  <2>1. pendingEvents' \in [Doc -> Seq(EventType)]
    <3>1. job.doc \in Doc /\ job.token \in 0..MaxCalls
      BY <1>3 DEF InsertDone, TypeInv, InsertJob
    <3>2. Event("rejected", 0, job.token) \in EventType
      BY <3>1, EventIn
    <3>3. CASE job.rejected > 0
      BY <1>3, <3>1, <3>2, <3>3, PushEvent DEF InsertDone
    <3>4. CASE ~(job.rejected > 0)
      BY <1>3, <3>4 DEF InsertDone, TypeInv
    <3> QED BY <3>3, <3>4
  <2> QED BY <1>3, <2>1 DEF InsertDone, TypeInv, clientVars, sharedVars
<1>4. CASE DrainEmpty
  BY <1>4 DEF DrainEmpty, TypeInv, clientVars, sharedVars, docVars
<1>5. ASSUME NEW d \in Doc, FlushSent(d) PROVE TypeInv'
  <2>1. pendingEvents[d] \in Seq(EventType) /\ pendingEvents[d] # <<>>
        /\ route[d] \in Seq(EventType)
    BY <1>5 DEF FlushSent, TypeInv
  <2>2. /\ Tail(pendingEvents[d]) \in Seq(EventType)
        /\ Append(route[d], Head(pendingEvents[d])) \in Seq(EventType)
    BY <2>1, HeadTailProperties, AppendProperties
  <2> QED BY <1>5, <2>2 DEF FlushSent, FlushStep, TypeInv, clientVars
<1>6. ASSUME NEW d \in Doc, FlushLeave(d) PROVE TypeInv'
  BY <1>6 DEF FlushLeave, FlushStep, TypeInv, clientVars, docVars
<1>7. ASSUME NEW d \in Doc, FlushDisconnected(d) PROVE TypeInv'
  <2>1. RemoveDocument(d) /\ flushing' = flushing \ {d} /\ documents' = documents \ {d}
        /\ pc = "flush" /\ UNCHANGED <<clientVars, commands, listening, pc, job, route>>
    BY <1>7 DEF FlushDisconnected, FlushStep, RemoveDocument
  <2>2. flushing' \in SUBSET documents'
    BY <2>1 DEF TypeInv
  <2> QED BY <2>1, <2>2, RemoveTypes DEF TypeInv, clientVars
<1>8. ASSUME NEW n \in 1..Len(rotation), PickWork(n) PROVE TypeInv'
  <2> DEFINE d == rotation[n]
  <2>1. d \in Doc
    BY ElementOfSeq DEF TypeInv
  <2>2. PICK w \in Greatest(pending[d]) :
          /\ pending' = [pending EXCEPT ![d] = @ \ {w}]
          /\ job' = [doc |-> d, work |-> w]
    BY <1>8 DEF PickWork
  <2>3. w \in Work
    BY <2>1, <2>2 DEF Greatest, TypeInv
  <2>4. job' \in RunJob /\ pending' \in [Doc -> SUBSET Work]
    BY <2>1, <2>2, <2>3 DEF RunJob, TypeInv
  <2>5. rotation' \in Seq(Doc)
    <3>1. SubSeq(rotation, n + 1, Len(rotation)) \in Seq(Doc)
          /\ SubSeq(rotation, 1, n) \in Seq(Doc)
      <4>1. rotation \in Seq(Doc) /\ Len(rotation) \in Nat
        BY LenProperties DEF TypeInv
      <4> QED BY <4>1
    <3> QED BY <1>8, <3>1, ConcatProperties DEF PickWork, Rotated
  <2> QED BY <1>8, <2>4, <2>5 DEF PickWork, TypeInv, clientVars, sharedVars
<1>9. CASE NothingRunnable
  BY <1>9 DEF NothingRunnable, TypeInv, clientVars, sharedVars, docVars
<1>10. CASE IdleTimeout
  BY <1>10 DEF IdleTimeout, TypeInv, clientVars, sharedVars, docVars
<1>11. CASE StartOpen
  <2>1. job \in RunJob /\ job.doc \in Doc
    BY <1>11 DEF StartOpen, TypeInv, RunJob
  <2>2. nextGeneration[job.doc] \in Nat \ {0}
    BY <2>1 DEF TypeInv
  <2>3. /\ opened' \in [Doc -> BOOLEAN] /\ active' \in [Doc -> Nat]
        /\ nextGeneration' \in [Doc -> Nat \ {0}]
    <3>1. opened' \in [Doc -> BOOLEAN]
      BY <1>11, <2>1 DEF StartOpen, TypeInv
    <3>2. active' \in [Doc -> Nat]
      BY <1>11, <2>1, <2>2 DEF StartOpen, TypeInv
    <3>3. nextGeneration' \in [Doc -> Nat \ {0}]
      <4>1. nextGeneration' = [nextGeneration EXCEPT ![job.doc] = nextGeneration[job.doc] + 1]
        BY <1>11 DEF StartOpen
      <4>2. nextGeneration \in [Doc -> Nat \ {0}]
        BY DEF TypeInv
      <4>3. nextGeneration[job.doc] + 1 \in Nat \ {0}
        BY <2>2
      <4> QED BY <4>1, <4>2, <4>3
    <3> QED BY <3>1, <3>2, <3>3
  <2> QED BY <1>11, <2>1, <2>3 DEF StartOpen, TypeInv, clientVars, sharedVars
<1>12. ASSUME NEW kind \in Results \cup Changes \cup {"attached", "rejected", "discarded"},
              pc \in {"start", "engine"}, EndJob(kind), opened' \in [Doc -> BOOLEAN]
       PROVE  TypeInv'
  <2> DEFINE g == IF IsOpen THEN active[job.doc] ELSE job.work.gen
  <2>1. job.doc \in Doc /\ job.work \in Work
    BY <1>12 DEF TypeInv, RunJob
  <2>2. job.work.token \in 0..MaxCalls /\ g \in Nat
    <3>1. job.work.gen \in Nat /\ job.work.token \in 0..MaxCalls
      BY <2>1, WorkFields
    <3>2. active[job.doc] \in Nat
      BY <2>1 DEF TypeInv
    <3> QED BY <3>1, <3>2
  <2>3. Push(job.doc, Event(kind, g, job.work.token))
    BY <1>12 DEF EndJob
  <2> HIDE DEF g
  <2>4. pendingEvents' \in [Doc -> Seq(EventType)]
    BY <2>1, <2>2, <2>3, EventIn, PushEvent
  <2> QED BY <1>12, <2>4 DEF EndJob, TypeInv, clientVars, sharedVars
<1>13. CASE OpenCancelled \/ OpenSucceeded \/ OpenFailed \/ WorkDiscarded \/ WorkCancelled
            \/ WorkReady \/ WorkFailed
  <2>1. \E kind \in Results \cup Changes \cup {"discarded"} : EndJob(kind)
    BY <1>13 DEF OpenCancelled, OpenSucceeded, OpenFailed, WorkDiscarded, WorkCancelled,
                 WorkReady, WorkFailed, Results, Changes
  <2>2. pc \in {"start", "engine"}
    BY <1>13 DEF OpenCancelled, OpenSucceeded, OpenFailed, WorkDiscarded, WorkCancelled,
                 WorkReady, WorkFailed
  <2>3. opened' \in [Doc -> BOOLEAN]
    BY <1>13 DEF OpenCancelled, OpenSucceeded, OpenFailed, WorkDiscarded, WorkCancelled,
                 WorkReady, WorkFailed, TypeInv
  <2> QED BY <1>12, <2>1, <2>2, <2>3
<1>14. CASE StartWork
  BY <1>14 DEF StartWork, TypeInv, clientVars, sharedVars, docVars
<1> QED BY <1>1, <1>2, <1>3, <1>4, <1>5, <1>6, <1>7, <1>8, <1>9, <1>10, <1>11, <1>13, <1>14
        DEF OwnerStep

\* So does every step
LEMMA TypeNext == TypeInv /\ QueueInv /\ [Next]_vars => TypeInv'
<1>1. TypeInv /\ UNCHANGED vars => TypeInv'
  BY DEF TypeInv, vars, clientVars, sharedVars, ownerVars, docVars
<1> QED BY <1>1, TypeClient, TypeOwner DEF Next, Stopped

\* The module's own type invariant follows
LEMMA TypeInvTypeOK == TypeInv => TypeOK
<1> SUFFICES ASSUME TypeInv PROVE TypeOK
  OBVIOUS
<1>1. \A d \in Doc, t \in Thread : call[d][t] = Idle \/ call[d][t] \in Command
  BY DEF TypeInv
<1>2. \A i \in DOMAIN commands : commands[i] \in Command
  BY ElementOfSeq DEF TypeInv
<1>3. \A d \in Doc : \A i \in DOMAIN route[d] : route[d][i] \in EventType
  BY DEF TypeInv
<1>4. \A d \in Doc : \A i \in DOMAIN pendingEvents[d] : pendingEvents[d][i] \in EventType
  BY DEF TypeInv
<1>5. \A d \in Doc : \A w \in pending[d] : w \in Work
  BY DEF TypeInv
<1> QED BY <1>1, <1>2, <1>3, <1>4, <1>5 DEF TypeInv, TypeOK

-----------------------------------------------------------------------------
(* The queue is kept *)

\* A set of numbers that is not empty has a least one
LEMMA LeastNumber ==
  ASSUME NEW T \in SUBSET Nat, T # {}
  PROVE  \E m \in T : \A n \in T : m <= n
<1>1. \E x \in T : \A y \in T : ~(<<y, x>> \in OpToRel(<, Nat))
  BY NatLessThanWellFounded, WFMin
<1>2. \A x, y \in Nat : x < y => <<x, y>> \in OpToRel(<, Nat)
  BY Zenon DEF OpToRel
<1>3. \E x \in T : \A y \in T : ~(y < x)
  BY <1>1, <1>2, Zenon
<1> QED BY <1>3

\* Comparing by a first number, then by a second
LEMMA Lexicographic ==
  \A a, b, x, y \in Nat : a <= b /\ (b = a => x <= y) => a < b \/ (a = b /\ x <= y)
<1> TAKE a, b, x, y \in Nat
<1>1. CASE a = b
  BY <1>1
<1>2. CASE a # b
  BY <1>2
<1> QED BY <1>1, <1>2

\* Some work is the least by priority, then by sequence
LEMMA LeastExists ==
  ASSUME NEW S \in SUBSET Work, S # {}
  PROVE  Least(S) # {}
<1>1. {w.priority : w \in S} \in SUBSET Nat /\ {w.priority : w \in S} # {}
  BY WorkFields, WorkAssumption
<1>2. PICK p \in {w.priority : w \in S} : \A q \in {w.priority : w \in S} : p <= q
  BY <1>1, LeastNumber
<1> DEFINE L == {w \in S : w.priority = p}
<1>3. {w.sequence : w \in L} \in SUBSET Nat /\ {w.sequence : w \in L} # {}
  BY <1>2, WorkFields
<1>4. PICK q \in {w.sequence : w \in L} : \A r \in {w.sequence : w \in L} : q <= r
  BY <1>3, LeastNumber
<1>5. PICK w \in L : w.sequence = q
  BY <1>4
<1> HIDE DEF L
<1>6. ASSUME NEW v \in S
      PROVE  w.priority < v.priority \/ (w.priority = v.priority /\ w.sequence <= v.sequence)
  <2>1. /\ w.priority = p /\ p \in Nat /\ v.priority \in Nat /\ w.sequence \in Nat
        /\ v.sequence \in Nat /\ w \in S
    BY <1>1, <1>2, <1>5, WorkFields DEF L
  <2>2. p <= v.priority
    BY <1>2
  <2>3. v.priority = p => w.sequence <= v.sequence
    BY <1>4, <1>5 DEF L
  <2>4. \A a, b, x, y \in Nat : a <= b /\ (b = a => x <= y) => a < b \/ (a = b /\ x <= y)
    BY Lexicographic
  <2>5. w.priority <= v.priority /\ (v.priority = w.priority => w.sequence <= v.sequence)
    BY <2>1, <2>2, <2>3
  <2>6. w.priority \in Nat
    BY <2>1
  <2> HIDE DEF L
  <2> QED BY <2>1, <2>4, <2>5, <2>6, Zenon
<1>7. w \in Least(S)
  BY <1>5, <1>6 DEF Least, L
<1> QED BY <1>7

\* A queue that only loses work stays in order
LEMMA QueueShrinks ==
  ASSUME QueueInv, \A d \in Doc : pending'[d] \subseteq pending[d]
  PROVE  QueueInv'
<1> SUFFICES ASSUME NEW d \in Doc
             PROVE  /\ IsFiniteSet(pending'[d]) /\ Cardinality(pending'[d]) <= MaxPending
                    /\ \A v, w \in pending'[d] : v.key = w.key => v = w
                    /\ \A w \in pending'[d] : w.key = OpenKey => w.priority = Interactive
  BY DEF QueueInv
<1>1. /\ IsFiniteSet(pending[d]) /\ Cardinality(pending[d]) <= MaxPending
      /\ pending'[d] \subseteq pending[d]
  BY DEF QueueInv
<1>2. IsFiniteSet(pending'[d]) /\ Cardinality(pending'[d]) <= Cardinality(pending[d])
  BY <1>1, FS_Subset
<1>3. Cardinality(pending'[d]) \in Nat /\ Cardinality(pending[d]) \in Nat
  BY <1>1, <1>2, FS_CardinalityType
<1>4. Cardinality(pending'[d]) <= MaxPending
  BY <1>1, <1>2, <1>3, PolicyAssumption
<1> QED BY <1>1, <1>2, <1>4 DEF QueueInv

\* One turn of replace_class keeps the queue within its limit, and what it gives up
\* is least
LEMMA InsertKeepsQueue ==
  ASSUME TypeInv, QueueInv, InsertWork
  PROVE  /\ QueueInv'
         /\ \A w \in pending[job.doc] \ pending'[job.doc] :
              /\ w.key # OpenKey
              /\ (\E v \in pending'[job.doc] : v.key = w.key)
                 \/ \A v \in pending'[job.doc] : w.priority <= v.priority
<1> DEFINE d == job.doc
           S == Grown(d)
           lost == Evicted(S)
           new == Inserted(d)
<1>1. /\ d \in Doc /\ new \in Work /\ new.key \in Class \X Nat /\ S \in SUBSET Work
      /\ lost \in SUBSET S
      /\ pending' = [pending EXCEPT ![d] = S \ lost]
  BY InsertMoves
<1>2. S = (pending[d] \ Displaced(d)) \cup {new} /\ Displaced(d) = {v \in pending[d] : v.key = new.key}
  BY DEF Grown, Displaced
<1>3. pending'[d] = S \ lost /\ \A x \in Doc \ {d} : pending'[x] = pending[x]
  BY <1>1 DEF TypeInv
<1>4. new.key # OpenKey /\ new \in {w \in S : w.key # OpenKey}
  BY <1>1, <1>2, WorkAssumption DEF OpenKey
<1>5. lost = IF Cardinality(S) > MaxPending THEN Least({w \in S : w.key # OpenKey}) ELSE {}
  BY DEF Evicted
<1>6. pending[d] \in SUBSET Work /\ IsFiniteSet(pending[d]) /\ Cardinality(pending[d]) <= MaxPending
      /\ (\A v, w \in pending[d] : v.key = w.key => v = w)
      /\ (\A w \in pending[d] : w.key = OpenKey => w.priority = Interactive)
  BY <1>1 DEF QueueInv, TypeInv
<1> HIDE DEF d, S, lost, new
\* The sizes
<1>7. /\ IsFiniteSet(S) /\ Cardinality(S) \in Nat
      /\ Cardinality(S) <= Cardinality(pending[d]) + 1
      /\ Displaced(d) # {} => Cardinality(S) <= Cardinality(pending[d])
      /\ Cardinality(pending[d]) \in Nat
  <2> DEFINE rest == pending[d] \ Displaced(d)
  <2>1. IsFiniteSet(rest) /\ Cardinality(rest) <= Cardinality(pending[d])
        /\ Cardinality(pending[d]) \in Nat
    BY <1>6, FS_Subset, FS_CardinalityType
  <2>2. Cardinality(rest) \in Nat
    BY <2>1, FS_CardinalityType
  <2>3. IsFiniteSet(S) /\ Cardinality(S) \in Nat /\ Cardinality(S) <= Cardinality(rest) + 1
    <3>1. S = rest \cup {new}
      BY <1>2
    <3>2. IsFiniteSet(rest \cup {new})
          /\ Cardinality(rest \cup {new}) = IF new \in rest THEN Cardinality(rest)
                                            ELSE Cardinality(rest) + 1
      BY <2>1, FS_AddElement
    <3> HIDE DEF rest
    <3> QED BY <2>2, <3>1, <3>2
  <2>4. ASSUME Displaced(d) # {}
        PROVE  Cardinality(rest) <= Cardinality(pending[d]) - 1
    <3>1. PICK x \in Displaced(d) : TRUE
      BY <2>4
    <3>2. x \in pending[d] /\ rest \subseteq pending[d] \ {x}
      BY <1>2, <3>1
    <3>3. IsFiniteSet(pending[d] \ {x})
          /\ Cardinality(pending[d] \ {x}) = Cardinality(pending[d]) - 1
      BY <1>6, <3>2, FS_RemoveElement
    <3>4. Cardinality(rest) <= Cardinality(pending[d] \ {x})
      BY <3>2, <3>3, FS_Subset
    <3> HIDE DEF rest
    <3> QED BY <3>3, <3>4
  <2> HIDE DEF rest
  <2> QED BY <2>1, <2>2, <2>3, <2>4
<1>8. Cardinality(S) > MaxPending => lost # {}
  BY <1>1, <1>4, <1>5, LeastExists
<1>9. IsFiniteSet(S \ lost) /\ Cardinality(S \ lost) <= MaxPending
  <2>1. CASE ~(Cardinality(S) > MaxPending)
    <3>1. S \ lost = S
      BY <1>5, <2>1
    <3> QED BY <1>7, <2>1, <3>1, PolicyAssumption
  <2>2. CASE Cardinality(S) > MaxPending
    <3>1. PICK x \in lost : TRUE
      BY <1>8, <2>2
    <3>2. x \in S /\ S \ lost \subseteq S \ {x}
      BY <1>1, <3>1
    <3>3. IsFiniteSet(S \ {x}) /\ Cardinality(S \ {x}) = Cardinality(S) - 1
      BY <1>7, <3>2, FS_RemoveElement
    <3>4. IsFiniteSet(S \ lost) /\ Cardinality(S \ lost) <= Cardinality(S \ {x})
      BY <3>2, <3>3, FS_Subset
    <3>5. Cardinality(S \ lost) \in Nat
      BY <3>4, FS_CardinalityType
    <3> QED BY <1>6, <1>7, <3>3, <3>4, <3>5, PolicyAssumption
  <2> QED BY <2>1, <2>2
<1>10. \A v, w \in S : v.key = w.key => v = w
  BY <1>2, <1>6
<1>11. \A w \in S : w.key = OpenKey => w.priority = Interactive
  BY <1>2, <1>4, <1>6
<1>12. QueueInv'
  <2> SUFFICES ASSUME NEW x \in Doc
               PROVE  /\ IsFiniteSet(pending'[x]) /\ Cardinality(pending'[x]) <= MaxPending
                      /\ \A v, w \in pending'[x] : v.key = w.key => v = w
                      /\ \A w \in pending'[x] : w.key = OpenKey => w.priority = Interactive
    BY DEF QueueInv
  <2>1. CASE x = d
    BY <1>3, <1>9, <1>10, <1>11, <2>1
  <2>2. CASE x # d
    BY <1>3, <2>2 DEF QueueInv
  <2> QED BY <2>1, <2>2
<1>13. ASSUME NEW w \in pending[d] \ pending'[d]
       PROVE  /\ w.key # OpenKey
              /\ (\E v \in pending'[d] : v.key = w.key)
                 \/ \A v \in pending'[d] : w.priority <= v.priority
  <2>1. CASE w \in Displaced(d)
    <3>1. lost = {}
      BY <1>5, <1>6, <1>7, <2>1, PolicyAssumption
    <3>2. new \in pending'[d] /\ new.key = w.key
      BY <1>2, <1>3, <2>1, <3>1
    <3> QED BY <1>4, <3>2
  <2>2. CASE w \notin Displaced(d)
    <3>1. w \in lost /\ Cardinality(S) > MaxPending
      BY <1>2, <1>3, <1>5, <2>2
    <3>2. w \in Least({v \in S : v.key # OpenKey})
      BY <1>5, <3>1
    <3>3. w.key # OpenKey /\ w \in Work
      BY <3>2, <1>6 DEF Least
    <3>4. ASSUME NEW v \in pending'[d] PROVE w.priority <= v.priority
      <4>1. v \in S /\ v \in Work /\ v.priority \in Nat /\ w.priority \in 0..Interactive
        BY <1>1, <1>3, <3>3, WorkFields, WorkAssumption
      <4>2. CASE v.key = OpenKey
        BY <1>11, <4>1, <4>2, WorkAssumption
      <4>3. CASE v.key # OpenKey
        BY <3>2, <4>1, <4>3, WorkAssumption DEF Least
      <4> QED BY <4>2, <4>3
    <3> QED BY <3>3, <3>4
  <2> QED BY <2>1, <2>2
<1> QED BY <1>12, <1>13 DEF d


\* No queue has an entry at the beginning
LEMMA QueueInit == Init => QueueInv
  BY FS_EmptySet, PolicyAssumption DEF Init, QueueInv

\* Every step keeps the queues: only replace_class and an open add to them
LEMMA QueueNext == TypeInv /\ QueueInv /\ [Next]_vars => QueueInv'
<1> SUFFICES ASSUME TypeInv, QueueInv, [Next]_vars PROVE QueueInv'
  OBVIOUS
<1> DEFINE c == Head(commands)
<1>1. CASE pending' = pending
  BY <1>1, QueueShrinks
<1>2. CASE AcceptOpen
  <2>1. c.doc \in Doc
    BY <1>2, Accepted, CommandFields DEF AcceptOpen
  <2>2. CASE c.doc \in documents
    <3> DEFINE new == [key |-> OpenKey, sequence |-> nextSequence[c.doc],
                       priority |-> Interactive, token |-> c.token, gen |-> 0]
    <3>1. pending' = [pending EXCEPT ![c.doc] = {new}]
      BY <1>2, <2>2 DEF AcceptOpen, CancelAndClear
    <3>2. pending'[c.doc] = {new} /\ \A x \in Doc \ {c.doc} : pending'[x] = pending[x]
      BY <2>1, <3>1 DEF TypeInv
    <3>3. new.key = OpenKey /\ new.priority = Interactive
      OBVIOUS
    <3> HIDE DEF new
    <3>4. IsFiniteSet({new}) /\ Cardinality({new}) = 1
      BY FS_Singleton
    <3>5. Cardinality({new}) <= MaxPending
      BY <3>4, PolicyAssumption
    <3>6. ASSUME NEW x \in Doc
          PROVE  /\ IsFiniteSet(pending'[x]) /\ Cardinality(pending'[x]) <= MaxPending
                 /\ \A v, w \in pending'[x] : v.key = w.key => v = w
                 /\ \A w \in pending'[x] : w.key = OpenKey => w.priority = Interactive
      <4>1. CASE x = c.doc
        BY <3>2, <3>3, <3>4, <3>5, <4>1
      <4>2. CASE x # c.doc
        BY <3>2, <4>2 DEF QueueInv
      <4> QED BY <4>1, <4>2
    <3> QED BY <3>6 DEF QueueInv
  <2>3. CASE c.doc \notin documents
    BY <1>1, <1>2, <2>3 DEF AcceptOpen
  <2> QED BY <2>2, <2>3
<1>3. CASE AcceptClose \/ AcceptReplace \/ AcceptCancelClass \/ AcceptDetach
  <2>1. c.doc \in Doc
    BY <1>3, Accepted, CommandFields
       DEF AcceptClose, AcceptReplace, AcceptCancelClass, AcceptDetach
  <2>2. \/ pending' = pending
        \/ \E S \in SUBSET pending[c.doc] : pending' = [pending EXCEPT ![c.doc] = S]
    BY <1>3 DEF AcceptClose, AcceptReplace, AcceptCancelClass, AcceptDetach,
                RemoveDocument, CancelAndClear
  <2>3. \A d \in Doc : pending'[d] \subseteq pending[d]
    BY <2>1, <2>2 DEF TypeInv
  <2> QED BY <2>3, QueueShrinks
<1>4. CASE AcceptShutdown
  <2>1. \A d \in Doc : pending'[d] \subseteq pending[d]
    BY <1>4 DEF AcceptShutdown
  <2> QED BY <2>1, QueueShrinks
<1>5. CASE InsertWork
  BY <1>5, InsertKeepsQueue
<1>6. ASSUME NEW d \in Doc, FlushDisconnected(d) PROVE QueueInv'
  <2>1. \A x \in Doc : pending'[x] \subseteq pending[x]
    BY <1>6 DEF FlushDisconnected, RemoveDocument, CancelAndClear, TypeInv
  <2> QED BY <2>1, QueueShrinks
<1>7. ASSUME NEW n \in 1..Len(rotation), PickWork(n) PROVE QueueInv'
  <2>1. rotation[n] \in Doc
    BY ElementOfSeq DEF TypeInv
  <2>2. \E w : pending' = [pending EXCEPT ![rotation[n]] = @ \ {w}]
    BY <1>7 DEF PickWork
  <2>3. PICK w : pending' = [pending EXCEPT ![rotation[n]] = pending[rotation[n]] \ {w}]
    BY <2>2
  <2>4. pending \in [Doc -> SUBSET Work]
    BY DEF TypeInv
  <2>5. \A x \in Doc : pending'[x] \subseteq pending[x]
    BY <2>1, <2>3, <2>4
  <2> QED BY <2>5, QueueShrinks
<1>8. CASE ClientStep
  <2>1. pending' = pending
    BY <1>8, ClientFrame DEF ownerVars, docVars
  <2> QED BY <1>1, <2>1
<1>9. CASE UNCHANGED vars
  BY <1>1, <1>9 DEF vars, ownerVars, docVars
<1>10. CASE \/ AcceptAttach \/ InsertDone \/ DrainEmpty
            \/ (\E d \in Doc : FlushSent(d) \/ FlushLeave(d))
            \/ NothingRunnable \/ IdleTimeout
            \/ StartOpen \/ OpenCancelled \/ OpenSucceeded \/ OpenFailed
            \/ WorkDiscarded \/ WorkCancelled \/ StartWork \/ WorkReady \/ WorkFailed
  <2>1. pending' = pending
    BY <1>10 DEF AcceptAttach, InsertDone, DrainEmpty, FlushSent, FlushLeave,
         NothingRunnable, IdleTimeout, StartOpen, OpenCancelled, OpenSucceeded, OpenFailed,
         WorkDiscarded, WorkCancelled, StartWork, WorkReady, WorkFailed, EndJob, docVars
  <2> QED BY <1>1, <2>1
<1> QED BY <1>2, <1>3, <1>4, <1>5, <1>6, <1>7, <1>8, <1>9, <1>10
        DEF Next, OwnerStep, AcceptStep, Stopped


-----------------------------------------------------------------------------
(* The rotation is kept *)

Entries(s) == {s[i] : i \in DOMAIN s}
Distinct(s) == \A i, j \in DOMAIN s : s[i] = s[j] => i = j

\* The entries of two sequences one after the other
LEMMA JoinedEntries ==
  ASSUME NEW s \in Seq(Doc), NEW m \in 0..Len(s), NEW k \in 1..(Len(s) + 1), m < k
  PROVE  LET a == SubSeq(s, 1, m)
             b == SubSeq(s, k, Len(s))
         IN /\ a \in Seq(Doc) /\ b \in Seq(Doc) /\ Len(a) = m /\ Len(b) = Len(s) - k + 1
            /\ \A i \in 1..m : a[i] = s[i]
            /\ \A i \in 1..(Len(s) - k + 1) : b[i] = s[k + i - 1]
<1> DEFINE a == SubSeq(s, 1, m)
           b == SubSeq(s, k, Len(s))
<1>1. Len(s) \in Nat /\ DOMAIN s = 1..Len(s)
  BY LenProperties
<1>2. a \in Seq(Doc) /\ Len(a) = m /\ \A i \in 1..m : a[i] = s[i]
  BY <1>1
<1>3. b \in Seq(Doc) /\ Len(b) = Len(s) - k + 1
      /\ \A i \in 1..(Len(s) - k + 1) : b[i] = s[k + i - 1]
  BY <1>1
<1> QED BY <1>2, <1>3

\* Removing a document that is listed once leaves the others, listed once
LEMMA RetainedEntries ==
  ASSUME NEW s \in Seq(Doc), NEW d \in Doc, Distinct(s)
  PROVE  /\ Entries(Retained(s, d)) = Entries(s) \ {d} /\ Distinct(Retained(s, d))
         /\ \A i \in DOMAIN Retained(s, d) :
              i \in Nat /\ \E k \in DOMAIN s : i <= k /\ Retained(s, d)[i] = s[k]
<1> DEFINE at == {i \in DOMAIN s : s[i] = d}
           n  == CHOOSE i \in at : TRUE
<1>1. CASE at = {}
  <2>1. Retained(s, d) = s
    BY <1>1 DEF Retained
  <2>2. \A i \in DOMAIN s : i \in Nat /\ i <= i
    BY LenProperties
  <2> QED BY <1>1, <2>1, <2>2 DEF Entries
<1>2. CASE at # {}
  <2>1. n \in 1..Len(s) /\ s[n] = d
    BY <1>2
  <2>2. Retained(s, d) = SubSeq(s, 1, n - 1) \o SubSeq(s, n + 1, Len(s))
    BY <1>2 DEF Retained
  <2> HIDE DEF n
  <2> DEFINE a == SubSeq(s, 1, n - 1)
             b == SubSeq(s, n + 1, Len(s))
             t == a \o b
  <2>3. Len(s) \in Nat /\ DOMAIN s = 1..Len(s) /\ n - 1 \in 0..Len(s) /\ n + 1 \in 1..(Len(s) + 1)
        /\ n - 1 < n + 1
    BY <2>1, LenProperties
  <2>4. /\ a \in Seq(Doc) /\ b \in Seq(Doc) /\ Len(a) = n - 1 /\ Len(b) = Len(s) - (n + 1) + 1
        /\ \A i \in 1..(n - 1) : a[i] = s[i]
        /\ \A i \in 1..(Len(s) - (n + 1) + 1) : b[i] = s[(n + 1) + i - 1]
    BY <2>3, JoinedEntries
  <2> HIDE DEF a, b
  <2>5. t \in Seq(Doc) /\ Len(t) = Len(a) + Len(b)
        /\ \A i \in 1..(Len(a) + Len(b)) : t[i] = IF i <= Len(a) THEN a[i] ELSE b[i - Len(a)]
    BY <2>4, ConcatProperties, Zenon
  <2>6. DOMAIN t = 1..(Len(s) - 1) /\ \A i \in DOMAIN t : t[i] = IF i < n THEN s[i] ELSE s[i + 1]
    <3> HIDE DEF t
    <3>1. DOMAIN t = 1..(Len(s) - 1) /\ Len(a) + Len(b) = Len(s) - 1
      BY <2>1, <2>3, <2>4, <2>5, LenProperties
    <3>2. ASSUME NEW i \in DOMAIN t PROVE t[i] = IF i < n THEN s[i] ELSE s[i + 1]
      <4>1. t[i] = IF i <= Len(a) THEN a[i] ELSE b[i - Len(a)]
        BY <2>5, <3>1
      <4>2. CASE i < n
        BY <2>1, <2>3, <2>4, <3>1, <4>1, <4>2
      <4>3. CASE ~(i < n)
        <5>1. t[i] = b[i - Len(a)] /\ i - Len(a) \in 1..(Len(s) - (n + 1) + 1)
          <6>1. i \in 1..(Len(s) - 1) /\ Len(a) = n - 1
            BY <2>4, <3>1
          <6>2. ~(i <= Len(a)) /\ i - Len(a) \in 1..(Len(s) - (n + 1) + 1)
            BY <2>1, <2>3, <4>3, <6>1
          <6> QED BY <4>1, <6>2, Zenon
        <5>2. b[i - Len(a)] = s[(n + 1) + (i - Len(a)) - 1]
          BY <2>4, <5>1
        <5>3. (n + 1) + (i - Len(a)) - 1 = i + 1
          BY <2>1, <2>3, <2>4, <3>1
        <5> QED BY <4>3, <5>1, <5>2, <5>3
      <4> QED BY <4>2, <4>3
    <3> QED BY <3>1, <3>2
  <2> HIDE DEF t
  <2>7. Distinct(t)
    BY <2>1, <2>3, <2>6 DEF Distinct
  <2>8. \A i \in DOMAIN t : t[i] \in Entries(s) \ {d}
    BY <2>1, <2>3, <2>6 DEF Distinct, Entries
  <2>9. ASSUME NEW k \in DOMAIN s, s[k] # d PROVE s[k] \in Entries(t)
    <3>1. CASE k < n
      BY <2>1, <2>3, <2>6, <3>1 DEF Entries
    <3>2. CASE k > n
      <4>1. k - 1 \in DOMAIN t /\ t[k - 1] = s[k]
        BY <2>1, <2>3, <2>6, <3>2
      <4> QED BY <4>1 DEF Entries
    <3> QED BY <2>1, <2>3, <2>9, <3>1, <3>2
  <2>10. Entries(t) = Entries(s) \ {d}
    BY <2>8, <2>9 DEF Entries
  <2>11. ASSUME NEW i \in DOMAIN t
         PROVE  i \in Nat /\ \E k \in DOMAIN s : i <= k /\ t[i] = s[k]
    <3>1. CASE i < n
      BY <2>1, <2>3, <2>6, <3>1
    <3>2. CASE ~(i < n)
      <4>1. i + 1 \in DOMAIN s /\ i <= i + 1 /\ t[i] = s[i + 1] /\ i \in Nat
        BY <2>1, <2>3, <2>6, <3>2
      <4> QED BY <4>1
    <3> QED BY <3>1, <3>2
  <2> QED BY <2>2, <2>7, <2>10, <2>11 DEF t, a, b
<1> QED BY <1>1, <1>2

\* Moving the first n entries to the back moves nothing else
LEMMA RotatedEntries ==
  ASSUME rotation \in Seq(Doc), Distinct(rotation), NEW n \in 1..Len(rotation)
  PROVE  LET k == Len(rotation) - n IN
         /\ Entries(Rotated(n)) = Entries(rotation) /\ Distinct(Rotated(n))
         /\ DOMAIN Rotated(n) = 1..Len(rotation)
         /\ \A i \in DOMAIN Rotated(n) :
              Rotated(n)[i] = IF i <= k THEN rotation[i + n] ELSE rotation[i - k]
<1> DEFINE s == rotation
           a == SubSeq(s, 1, n)
           b == SubSeq(s, n + 1, Len(s))
           t == b \o a
<1>1. Len(s) \in Nat /\ DOMAIN s = 1..Len(s) /\ n \in 0..Len(s) /\ n + 1 \in 1..(Len(s) + 1)
      /\ n < n + 1
  BY LenProperties
<1>2. /\ a \in Seq(Doc) /\ b \in Seq(Doc) /\ Len(a) = n /\ Len(b) = Len(s) - (n + 1) + 1
      /\ \A i \in 1..n : a[i] = s[i]
      /\ \A i \in 1..(Len(s) - (n + 1) + 1) : b[i] = s[(n + 1) + i - 1]
  BY <1>1, JoinedEntries
<1>3. Rotated(n) = t
  BY DEF Rotated
<1> HIDE DEF a, b, s
<1>4. t \in Seq(Doc) /\ Len(t) = Len(b) + Len(a)
      /\ \A i \in 1..(Len(b) + Len(a)) : t[i] = IF i <= Len(b) THEN b[i] ELSE a[i - Len(b)]
  BY <1>2, ConcatProperties, Zenon
<1> DEFINE k == Len(s) - n
<1>5. DOMAIN t = 1..Len(s) /\ \A i \in DOMAIN t : t[i] = IF i <= k THEN s[i + n] ELSE s[i - k]
  <2> HIDE DEF t
  <2>1. DOMAIN t = 1..Len(s) /\ Len(b) + Len(a) = Len(s) /\ Len(b) = k
    BY <1>1, <1>2, <1>4, LenProperties
  <2>2. ASSUME NEW i \in DOMAIN t PROVE t[i] = IF i <= k THEN s[i + n] ELSE s[i - k]
    <3>1. t[i] = IF i <= Len(b) THEN b[i] ELSE a[i - Len(b)]
      BY <1>4, <2>1
    <3>2. CASE i <= k
      <4>1. t[i] = b[i] /\ i \in 1..(Len(s) - (n + 1) + 1)
        BY <1>1, <2>1, <3>1, <3>2
      <4>2. (n + 1) + i - 1 = i + n
        BY <1>1, <4>1
      <4>3. b[i] = s[(n + 1) + i - 1]
        BY <1>2, <4>1
      <4> QED BY <3>2, <4>1, <4>2, <4>3
    <3>3. CASE ~(i <= k)
      <4>1. t[i] = a[i - k] /\ i - k \in 1..n
        <5>1. i \in 1..Len(s) /\ Len(b) = k
          BY <2>1
        <5>2. ~(i <= Len(b)) /\ i - k \in 1..n
          BY <1>1, <3>3, <5>1
        <5>3. t[i] = a[i - Len(b)]
          BY <3>1, <5>2, Zenon
        <5> QED BY <5>1, <5>2, <5>3, Zenon
      <4> QED BY <1>2, <3>3, <4>1
    <3> QED BY <3>2, <3>3
  <2> QED BY <2>1, <2>2
<1> HIDE DEF t
<1>6. Distinct(s)
  BY DEF s
<1>7. Distinct(t)
  <2> SUFFICES ASSUME NEW i \in DOMAIN t, NEW j \in DOMAIN t, t[i] = t[j] PROVE i = j
    BY DEF Distinct
  <2> DEFINE from(x) == IF x <= k THEN x + n ELSE x - k
  <2>1. t[i] = s[from(i)] /\ t[j] = s[from(j)] /\ from(i) \in DOMAIN s /\ from(j) \in DOMAIN s
    BY <1>1, <1>5
  <2>2. from(i) = from(j)
    BY <1>6, <2>1 DEF Distinct
  <2> QED BY <1>1, <1>5, <2>2
<1>8. \A i \in DOMAIN t : t[i] \in Entries(s)
  BY <1>1, <1>5 DEF Entries
<1>9. ASSUME NEW i \in DOMAIN s PROVE s[i] \in Entries(t)
  <2>1. CASE i <= n
    <3>1. i + k \in DOMAIN t /\ t[i + k] = s[i]
      BY <1>1, <1>5, <2>1
    <3> QED BY <3>1 DEF Entries
  <2>2. CASE i > n
    <3>1. i - n \in DOMAIN t /\ t[i - n] = s[i]
      BY <1>1, <1>5, <2>2
    <3> QED BY <3>1 DEF Entries
  <2> QED BY <1>1, <2>1, <2>2
<1>10. Entries(t) = Entries(s)
  BY <1>8, <1>9 DEF Entries
<1> QED BY <1>3, <1>5, <1>7, <1>10 DEF s

\* The owner changes nothing of a client
LEMMA OwnerFrame == OwnerStep => UNCHANGED <<clientVars, listening>>
<1> SUFFICES ASSUME OwnerStep PROVE UNCHANGED <<clientVars, listening>>
  OBVIOUS
<1>1. AcceptStep => UNCHANGED <<clientVars, listening>>
  BY DEF AcceptStep, AcceptAttach, AcceptOpen, AcceptClose, AcceptReplace, AcceptCancelClass,
         AcceptDetach, AcceptShutdown, Accept
<1>2. InsertWork \/ InsertDone \/ DrainEmpty => UNCHANGED <<clientVars, listening>>
  BY DEF InsertWork, InsertDone, DrainEmpty, sharedVars
<1>3. ASSUME NEW d \in Doc, FlushSent(d) \/ FlushLeave(d) \/ FlushDisconnected(d)
      PROVE  UNCHANGED <<clientVars, listening>>
  BY <1>3 DEF FlushSent, FlushLeave, FlushDisconnected, FlushStep
<1>4. ASSUME NEW n \in 1..Len(rotation), PickWork(n)
      PROVE  UNCHANGED <<clientVars, listening>>
  BY <1>4 DEF PickWork, sharedVars
<1>5. NothingRunnable \/ IdleTimeout \/ StartOpen \/ StartWork => UNCHANGED <<clientVars, listening>>
  BY DEF NothingRunnable, IdleTimeout, StartOpen, StartWork, sharedVars
<1>6. OpenCancelled \/ OpenSucceeded \/ OpenFailed \/ WorkDiscarded \/ WorkCancelled
      \/ WorkReady \/ WorkFailed => UNCHANGED <<clientVars, listening>>
  BY DEF OpenCancelled, OpenSucceeded, OpenFailed, WorkDiscarded, WorkCancelled,
         WorkReady, WorkFailed, EndJob, sharedVars
<1> QED BY <1>1, <1>2, <1>3, <1>4, <1>5, <1>6 DEF OwnerStep

\* No call is under way at the beginning
LEMMA CallsInit == Init => CallsAddressed
  BY DEF Init, CallsAddressed

\* What a client is about to send is about its document
LEMMA CallsNext == TypeInv /\ CallsAddressed /\ [Next]_vars => CallsAddressed'
<1> SUFFICES ASSUME TypeInv, CallsAddressed, [Next]_vars PROVE CallsAddressed'
  OBVIOUS
<1>1. CASE call' = call
  BY <1>1 DEF CallsAddressed
<1>2. ASSUME NEW d \in Doc, NEW t \in Thread, NEW x,
             call' = [call EXCEPT ![d][t] = x],
             x = Idle \/ (x.doc = d /\ x.op \in {"open", "close", "replace", "cancel"})
      PROVE  CallsAddressed'
  <2>1. call \in [Doc -> [Thread -> {Idle} \cup Command]]
    BY DEF TypeInv
  <2>2. \A e \in Doc, u \in Thread :
          call'[e][u] = IF e = d /\ u = t THEN x ELSE call[e][u]
    BY <1>2, <2>1
  <2> QED BY <1>2, <2>2 DEF CallsAddressed
<1>3. ASSUME NEW d \in Doc, Attach(d) \/ DropClient(d) \/ SendDetach(d) \/ Receive(d)
                            \/ StopListening(d)
      PROVE  CallsAddressed'
  BY <1>1, <1>3 DEF Attach, DropClient, SendDetach, Receive, StopListening, clientVars
<1>4. ASSUME NEW d \in Doc, NEW t \in Thread, EnterOpen(d, t) PROVE CallsAddressed'
  <2> DEFINE x == [op |-> "open", doc |-> d, token |-> calls[d] + 1]
  <2>1. call' = [call EXCEPT ![d][t] = x] /\ x.doc = d /\ x.op = "open"
    BY <1>4 DEF EnterOpen, Enter
  <2> HIDE DEF x
  <2> QED BY <1>2, <2>1
<1>5. ASSUME NEW d \in Doc, NEW t \in Thread, EnterClose(d, t) PROVE CallsAddressed'
  <2> DEFINE x == [op |-> "close", doc |-> d]
  <2>1. call' = [call EXCEPT ![d][t] = x] /\ x.doc = d /\ x.op = "close"
    BY <1>5 DEF EnterClose, Enter
  <2> HIDE DEF x
  <2> QED BY <1>2, <2>1
<1>6. ASSUME NEW d \in Doc, NEW t \in Thread, SendCall(d, t) PROVE CallsAddressed'
  <2>1. call' = [call EXCEPT ![d][t] = Idle]
    BY <1>6 DEF SendCall
  <2> QED BY <1>2, <2>1
<1>7. ASSUME NEW d \in Doc, NEW t \in Thread, NEW c \in Class, EnterCancel(d, t, c)
      PROVE  CallsAddressed'
  <2> DEFINE x == [op |-> "cancel", doc |-> d, class |-> c]
  <2>1. call' = [call EXCEPT ![d][t] = x] /\ x.doc = d /\ x.op = "cancel"
    BY <1>7 DEF EnterCancel, Enter
  <2> HIDE DEF x
  <2> QED BY <1>2, <2>1
<1>8. ASSUME NEW d \in Doc, NEW t \in Thread, NEW c \in Class, NEW b \in Batch,
             EnterReplace(d, t, c, b)
      PROVE  CallsAddressed'
  <2> DEFINE x == [op |-> "replace", doc |-> d, class |-> c, work |-> b,
                   token |-> calls[d] + 1, gen |-> session[d]]
  <2>1. call' = [call EXCEPT ![d][t] = x] /\ x.doc = d /\ x.op = "replace"
    BY <1>8 DEF EnterReplace, Enter
  <2> HIDE DEF x
  <2> QED BY <1>2, <2>1
<1>9. CASE DropHandle \/ SendShutdown
  BY <1>1, <1>9 DEF DropHandle, SendShutdown
<1>10. CASE OwnerStep
  BY <1>1, <1>10, OwnerFrame DEF clientVars
<1>11. CASE UNCHANGED vars
  BY <1>1, <1>11 DEF vars, clientVars
<1> QED BY <1>3, <1>4, <1>5, <1>6, <1>7, <1>8, <1>9, <1>10, <1>11
        DEF Next, ClientStep, Stopped

\* Nobody is attached when commands are only taken and documents only go
LEMMA AttachedShrinks ==
  ASSUME TypeInv, TypeInv', AttachedOnce, documents' \subseteq documents,
         \A d \in Doc : client'[d] = "unattached" => client[d] = "unattached",
         \/ commands' = commands
         \/ \A i \in DOMAIN commands' : i + 1 \in DOMAIN commands
                                        /\ commands'[i] = commands[i + 1]
  PROVE  AttachedOnce'
<1>1. /\ DOMAIN commands' = 1..Len(commands') /\ DOMAIN commands = 1..Len(commands)
      /\ \A i \in DOMAIN commands : commands[i] \in Command
      /\ \A i \in DOMAIN commands' : commands'[i] \in Command
  BY ElementOfSeq, LenProperties DEF TypeInv
<1>2. PICK k \in {0, 1} : \A i \in DOMAIN commands' : i + k \in DOMAIN commands
                                                      /\ commands'[i] = commands[i + k]
  <2>1. CASE commands' = commands
    BY <1>1, <2>1
  <2>2. CASE commands' # commands
    BY <2>2
  <2> QED BY <2>1, <2>2
<1>3. \A i \in DOMAIN commands : commands[i].op = "attach" => commands[i].doc \in Doc
  BY <1>1, CommandFields
<1>4. \A d \in Doc : client'[d] = "unattached" => d \notin documents'
  BY DEF AttachedOnce
<1>5. ASSUME NEW i \in DOMAIN commands', commands'[i].op = "attach"
      PROVE  /\ client'[commands'[i].doc] # "unattached" /\ commands'[i].doc \notin documents'
             /\ \A j \in DOMAIN commands' :
                  commands'[j].op = "attach" /\ commands'[j].doc = commands'[i].doc => j = i
  <2>1. i + k \in DOMAIN commands /\ commands'[i] = commands[i + k]
    BY <1>2
  <2>2. /\ client[commands[i + k].doc] # "unattached" /\ commands[i + k].doc \notin documents
        /\ \A j \in DOMAIN commands :
             commands[j].op = "attach" /\ commands[j].doc = commands[i + k].doc => j = i + k
    BY <1>5, <2>1 DEF AttachedOnce
  <2>3. commands[i + k].doc \in Doc
    BY <1>3, <1>5, <2>1
  <2>4. ASSUME NEW j \in DOMAIN commands', commands'[j].op = "attach",
               commands'[j].doc = commands'[i].doc
        PROVE  j = i
    <3>1. j + k \in DOMAIN commands /\ commands'[j] = commands[j + k]
      BY <1>2
    <3>2. j + k = i + k
      BY <2>1, <2>2, <2>4, <3>1
    <3> QED BY <1>1, <3>2
  <2> QED BY <2>1, <2>2, <2>3, <2>4
<1> QED BY <1>4, <1>5 DEF AttachedOnce

\* Nor is anybody by a command that is not an attach
LEMMA AttachedSend ==
  ASSUME TypeInv, TypeInv', AttachedOnce, documents' = documents, NEW c \in Command, Send(c),
         \A d \in Doc : client'[d] = "unattached" => client[d] = "unattached",
         c.op # "attach"
  PROVE  AttachedOnce'
<1>1. /\ DOMAIN commands' = 1..(Len(commands) + 1) /\ DOMAIN commands = 1..Len(commands)
      /\ Len(commands) \in Nat /\ commands'[Len(commands) + 1] = c
      /\ \A i \in DOMAIN commands : commands'[i] = commands[i]
  BY SendCommand
<1>2. \A i \in DOMAIN commands' : commands'[i].op = "attach" =>
        i \in DOMAIN commands /\ commands'[i] = commands[i]
  BY <1>1
<1>3. \A i \in DOMAIN commands : commands[i].op = "attach" => commands[i].doc \in Doc
  BY CommandFields, ElementOfSeq DEF TypeInv
<1>4. \A d \in Doc : client'[d] = "unattached" => d \notin documents'
  BY DEF AttachedOnce
<1>5. ASSUME NEW i \in DOMAIN commands', commands'[i].op = "attach"
      PROVE  /\ client'[commands'[i].doc] # "unattached" /\ commands'[i].doc \notin documents'
             /\ \A j \in DOMAIN commands' :
                  commands'[j].op = "attach" /\ commands'[j].doc = commands'[i].doc => j = i
  BY <1>2, <1>3, <1>5 DEF AttachedOnce
<1> QED BY <1>4, <1>5 DEF AttachedOnce

\* Nothing is attached at the beginning
LEMMA RotationInit == Init => RotationInv
<1>1. DOMAIN <<>> = {}
  OBVIOUS
<1> QED BY <1>1 DEF Init, RotationInv, RotationComplete, AttachedOnce

\* A client's step keeps the rotation and says attach once
LEMMA RotationClient ==
  TypeInv /\ TypeInv' /\ CallsAddressed /\ RotationInv /\ ClientStep => RotationInv'
<1> SUFFICES ASSUME TypeInv, TypeInv', CallsAddressed, RotationInv, ClientStep PROVE RotationInv'
  OBVIOUS
<1>1. UNCHANGED <<documents, rotation>>
  BY ClientFrame DEF ownerVars, docVars
<1>2. RotationComplete'
  BY <1>1 DEF RotationInv, RotationComplete
<1>3. AttachedOnce
  BY DEF RotationInv
<1> SUFFICES AttachedOnce'
  BY <1>2 DEF RotationInv
<1>4. ASSUME NEW d \in Doc, Attach(d) PROVE AttachedOnce'
  <2> DEFINE c == [op |-> "attach", doc |-> d]
  <2>1. c \in Command /\ Send(c) /\ c.op = "attach" /\ c.doc = d
    BY <1>4, CommandIn DEF Attach
  <2> HIDE DEF c
  <2>2. client[d] = "unattached" /\ client' = [client EXCEPT ![d] = "live"]
    BY <1>4 DEF Attach
  <2>3. client'[d] = "live" /\ \A x \in Doc \ {d} : client'[x] = client[x]
    BY <2>2 DEF TypeInv
  <2>4. /\ DOMAIN commands' = 1..(Len(commands) + 1) /\ DOMAIN commands = 1..Len(commands)
        /\ Len(commands) \in Nat /\ commands'[Len(commands) + 1] = c
        /\ \A i \in DOMAIN commands : commands'[i] = commands[i]
    BY <2>1, SendCommand
  <2>5. \A i \in DOMAIN commands : commands[i].op = "attach" =>
          commands[i].doc \in Doc /\ commands[i].doc # d
    <3>1. \A i \in DOMAIN commands : commands[i].op = "attach" => commands[i].doc \in Doc
      <4>1. \A i \in DOMAIN commands : commands[i] \in Command
        BY QueuedCommands
      <4> QED BY <4>1, CommandFields
    <3> QED BY <1>3, <2>2, <3>1 DEF AttachedOnce
  <2>6. d \notin documents
    BY <1>3, <2>2 DEF AttachedOnce
  <2>7. \A x \in Doc : client'[x] = "unattached" => x \notin documents'
    BY <1>1, <1>3, <2>3 DEF AttachedOnce
  <2>8. ASSUME NEW i \in DOMAIN commands', commands'[i].op = "attach"
        PROVE  /\ client'[commands'[i].doc] # "unattached" /\ commands'[i].doc \notin documents'
               /\ \A j \in DOMAIN commands' :
                    commands'[j].op = "attach" /\ commands'[j].doc = commands'[i].doc => j = i
    <3>1. CASE i = Len(commands) + 1
      <4>1. commands'[i] = c /\ c.doc = d
        BY <2>1, <2>4, <3>1
      <4>2. ASSUME NEW j \in DOMAIN commands', commands'[j].op = "attach",
                   commands'[j].doc = commands'[i].doc
            PROVE  j = i
        <5>1. CASE j \in DOMAIN commands
          BY <2>4, <2>5, <4>1, <4>2, <5>1
        <5>2. CASE j \notin DOMAIN commands
          BY <2>4, <3>1, <5>2
        <5> QED BY <5>1, <5>2
      <4> QED BY <1>1, <2>3, <2>6, <4>1, <4>2
    <3>2. CASE i # Len(commands) + 1
      <4>1. i \in DOMAIN commands /\ commands'[i] = commands[i]
        BY <2>4, <3>2
      <4>2. /\ client[commands[i].doc] # "unattached" /\ commands[i].doc \notin documents
            /\ \A j \in DOMAIN commands :
                 commands[j].op = "attach" /\ commands[j].doc = commands[i].doc => j = i
        BY <1>3, <2>8, <4>1 DEF AttachedOnce
      <4>3. commands[i].doc \in Doc /\ commands[i].doc # d
        BY <2>5, <2>8, <4>1
      <4>4. ASSUME NEW j \in DOMAIN commands', commands'[j].op = "attach",
                   commands'[j].doc = commands'[i].doc
            PROVE  j = i
        <5>1. CASE j \in DOMAIN commands
          BY <2>4, <4>1, <4>2, <4>4, <5>1
        <5>2. CASE j \notin DOMAIN commands
          <6>1. j = Len(commands) + 1
            BY <2>4, <5>2
          <6> QED BY <2>1, <2>4, <4>1, <4>3, <4>4, <6>1
        <5> QED BY <5>1, <5>2
      <4> QED BY <1>1, <2>3, <4>1, <4>2, <4>3, <4>4
    <3> QED BY <3>1, <3>2
  <2> QED BY <2>7, <2>8 DEF AttachedOnce
<1>5. ASSUME commands' = commands,
             \A d \in Doc : client'[d] = "unattached" => client[d] = "unattached"
      PROVE  AttachedOnce'
  BY <1>1, <1>3, <1>5, AttachedShrinks
<1>6. ASSUME NEW d \in Doc, DropClient(d) \/ Receive(d) \/ StopListening(d)
      PROVE  AttachedOnce'
  BY <1>5, <1>6 DEF DropClient, Receive, StopListening, clientVars, TypeInv
<1>7. ASSUME NEW d \in Doc, SendDetach(d) PROVE AttachedOnce'
  <2> DEFINE c == [op |-> "detach", doc |-> d]
  <2>1. c \in Command /\ Send(c) /\ c.op # "attach"
    BY <1>7, CommandIn DEF SendDetach
  <2> HIDE DEF c
  <2>2. \A x \in Doc : client'[x] = "unattached" => client[x] = "unattached"
    BY <1>7 DEF SendDetach, TypeInv
  <2> QED BY <1>1, <1>3, <2>1, <2>2, AttachedSend
<1>8. ASSUME NEW d \in Doc, NEW t \in Thread, EnterOpen(d, t) \/ EnterClose(d, t)
      PROVE  AttachedOnce'
  BY <1>5, <1>8 DEF EnterOpen, EnterClose, Enter
<1>9. ASSUME NEW d \in Doc, NEW t \in Thread, SendCall(d, t) PROVE AttachedOnce'
  <2>1. call[d][t] \in Command /\ Send(call[d][t]) /\ call[d][t].op # "attach"
    <3>1. call[d][t] # Idle /\ Send(call[d][t])
      BY <1>9 DEF SendCall
    <3>2. call[d][t] \in Command
      BY <3>1 DEF TypeInv
    <3>3. call[d][t].op # "attach"
      BY <3>1 DEF CallsAddressed
    <3> QED BY <3>1, <3>2, <3>3
  <2>2. \A x \in Doc : client'[x] = "unattached" => client[x] = "unattached"
    BY <1>9 DEF SendCall
  <2> QED BY <1>1, <1>3, <2>1, <2>2, AttachedSend
<1>10. ASSUME NEW d \in Doc, NEW t \in Thread, NEW c \in Class, EnterCancel(d, t, c)
       PROVE  AttachedOnce'
  BY <1>5, <1>10 DEF EnterCancel, Enter
<1>11. ASSUME NEW d \in Doc, NEW t \in Thread, NEW c \in Class, NEW b \in Batch,
              EnterReplace(d, t, c, b)
       PROVE  AttachedOnce'
  BY <1>5, <1>11 DEF EnterReplace, Enter
<1>12. CASE DropHandle
  BY <1>5, <1>12 DEF DropHandle, sharedVars
<1>13. CASE SendShutdown
  <2> DEFINE c == [op |-> "shutdown"]
  <2>1. c \in Command /\ Send(c) /\ c.op # "attach"
    BY <1>13, CommandIn DEF SendShutdown
  <2> HIDE DEF c
  <2> QED BY <1>1, <1>3, <1>13, <2>1, AttachedSend DEF SendShutdown
<1> QED BY <1>4, <1>6, <1>7, <1>8, <1>9, <1>10, <1>11, <1>12, <1>13 DEF ClientStep

\* The owner lists every attached document once
LEMMA RotationOwner == TypeInv /\ TypeInv' /\ RotationInv /\ OwnerStep => RotationInv'
<1> SUFFICES ASSUME TypeInv, TypeInv', RotationInv, OwnerStep PROVE RotationInv'
  OBVIOUS
<1>1. AttachedOnce /\ Entries(rotation) = documents /\ Distinct(rotation)
      /\ rotation \in Seq(Doc)
  BY DEF RotationInv, RotationComplete, Entries, Distinct, TypeInv
<1>2. client' = client
  BY OwnerFrame DEF clientVars
<1>3. ASSUME Entries(rotation') = documents', Distinct(rotation'), AttachedOnce'
      PROVE  RotationInv'
  BY <1>3 DEF RotationInv, RotationComplete, Entries, Distinct
<1>4. ASSUME UNCHANGED <<documents, rotation>>,
             \/ commands' = commands
             \/ \A i \in DOMAIN commands' : i + 1 \in DOMAIN commands
                                            /\ commands'[i] = commands[i + 1]
      PROVE  RotationInv'
  BY <1>1, <1>2, <1>3, <1>4, AttachedShrinks
<1>5. ASSUME NEW d \in Doc, RemoveDocument(d),
             \/ commands' = commands
             \/ \A i \in DOMAIN commands' : i + 1 \in DOMAIN commands
                                            /\ commands'[i] = commands[i + 1]
      PROVE  RotationInv'
  <2>1. documents' = documents \ {d} /\ rotation' = Retained(rotation, d)
    BY <1>5 DEF RemoveDocument
  <2>2. AttachedOnce'
    BY <1>1, <1>2, <1>5, <2>1, AttachedShrinks
  <2> QED BY <1>1, <1>3, <2>1, <2>2, RetainedEntries
<1>6. CASE AcceptAttach
  <2> DEFINE d == Head(commands).doc
  <2>1. /\ Head(commands) = commands[1] /\ 1 \in DOMAIN commands
        /\ commands[1] \in Command /\ commands[1].op = "attach"
        /\ \A i \in DOMAIN commands' : i + 1 \in DOMAIN commands
                                       /\ commands'[i] = commands[i + 1]
    BY <1>6, Accepted DEF AcceptAttach
  <2>2. d \in Doc /\ d = commands[1].doc
    BY <2>1, CommandFields
  <2>3. documents' = documents \cup {d} /\ rotation' = Append(rotation, d)
    BY <1>6 DEF AcceptAttach
  <2>4. /\ client[d] # "unattached" /\ d \notin documents
        /\ \A j \in DOMAIN commands : commands[j].op = "attach" /\ commands[j].doc = d => j = 1
    BY <1>1, <2>1, <2>2 DEF AttachedOnce
  <2> HIDE DEF d
  <2>5. /\ DOMAIN rotation = 1..Len(rotation) /\ Len(rotation) \in Nat
        /\ DOMAIN rotation' = 1..(Len(rotation) + 1)
        /\ rotation'[Len(rotation) + 1] = d
        /\ \A i \in DOMAIN rotation : rotation'[i] = rotation[i]
    BY <1>1, <2>2, <2>3, AppendProperties
  <2>6. \A i \in DOMAIN rotation : rotation[i] # d
    BY <1>1, <2>4 DEF Entries
  <2>7. Distinct(rotation')
    BY <1>1, <2>5, <2>6 DEF Distinct
  <2>8. Entries(rotation') = documents'
    <3>1. \A i \in DOMAIN rotation' : rotation'[i] \in documents'
      BY <1>1, <2>3, <2>5 DEF Entries
    <3>2. ASSUME NEW e \in documents' PROVE e \in Entries(rotation')
      <4>1. CASE e = d
        BY <2>5, <4>1 DEF Entries
      <4>2. CASE e \in documents
        <5>1. PICK i \in DOMAIN rotation : e = rotation[i]
          BY <1>1, <4>2 DEF Entries
        <5>2. i \in DOMAIN rotation' /\ rotation'[i] = e
          BY <2>5, <5>1
        <5> QED BY <5>2 DEF Entries
      <4> QED BY <2>3, <4>1, <4>2
    <3> QED BY <3>1, <3>2 DEF Entries
  <2>9. AttachedOnce'
    <3>1. /\ DOMAIN commands' = 1..Len(commands') /\ DOMAIN commands = 1..Len(commands)
      BY LenProperties DEF TypeInv
    <3>2. \A x \in Doc : client'[x] = "unattached" => x \notin documents'
      BY <1>1, <1>2, <2>3, <2>4 DEF AttachedOnce
    <3>3. ASSUME NEW i \in DOMAIN commands', commands'[i].op = "attach"
          PROVE  /\ client'[commands'[i].doc] # "unattached"
                 /\ commands'[i].doc \notin documents'
                 /\ \A j \in DOMAIN commands' :
                      commands'[j].op = "attach" /\ commands'[j].doc = commands'[i].doc => j = i
      <4>1. i + 1 \in DOMAIN commands /\ commands'[i] = commands[i + 1] /\ i + 1 # 1
        BY <2>1, <3>1
      <4>2. /\ client[commands[i + 1].doc] # "unattached"
            /\ commands[i + 1].doc \notin documents
            /\ \A j \in DOMAIN commands :
                 commands[j].op = "attach" /\ commands[j].doc = commands[i + 1].doc => j = i + 1
        BY <1>1, <3>3, <4>1 DEF AttachedOnce
      <4>3. commands[i + 1].doc # d
        BY <2>4, <3>3, <4>1
      <4>4. ASSUME NEW j \in DOMAIN commands', commands'[j].op = "attach",
                   commands'[j].doc = commands'[i].doc
            PROVE  j = i
        <5>1. j + 1 \in DOMAIN commands /\ commands'[j] = commands[j + 1]
          BY <2>1
        <5>2. j + 1 = i + 1
          BY <4>1, <4>2, <4>4, <5>1
        <5> QED BY <3>1, <5>2
      <4> QED BY <1>2, <2>3, <4>1, <4>2, <4>3, <4>4
    <3> QED BY <3>2, <3>3 DEF AttachedOnce
  <2> QED BY <1>3, <2>7, <2>8, <2>9
<1>7. CASE AcceptOpen \/ AcceptClose \/ AcceptReplace \/ AcceptCancelClass
  <2>1. UNCHANGED <<documents, rotation>>
    BY <1>7 DEF AcceptOpen, AcceptClose, AcceptReplace, AcceptCancelClass
  <2>2. \A i \in DOMAIN commands' : i + 1 \in DOMAIN commands /\ commands'[i] = commands[i + 1]
    BY <1>7, Accepted DEF AcceptOpen, AcceptClose, AcceptReplace, AcceptCancelClass
  <2> QED BY <1>4, <2>1, <2>2
<1>8. CASE AcceptDetach
  <2>1. /\ \A i \in DOMAIN commands' : i + 1 \in DOMAIN commands
                                       /\ commands'[i] = commands[i + 1]
        /\ Head(commands).doc \in Doc /\ RemoveDocument(Head(commands).doc)
    BY <1>8, Accepted, CommandFields DEF AcceptDetach
  <2> QED BY <1>5, <2>1
<1>9. CASE AcceptShutdown
  <2>1. \A i \in DOMAIN commands' : i + 1 \in DOMAIN commands /\ commands'[i] = commands[i + 1]
    BY <1>9, Accepted DEF AcceptShutdown
  <2>2. documents' = {} /\ rotation' = <<>>
    BY <1>9 DEF AcceptShutdown
  <2>3. AttachedOnce'
    BY <1>1, <1>2, <2>1, <2>2, AttachedShrinks
  <2>4. DOMAIN rotation' = {}
    BY <2>2
  <2> QED BY <1>3, <2>2, <2>3, <2>4 DEF Entries, Distinct
<1>10. ASSUME NEW d \in Doc, FlushDisconnected(d) PROVE RotationInv'
  BY <1>5, <1>10 DEF FlushDisconnected, FlushStep
<1>11. ASSUME NEW n \in 1..Len(rotation), PickWork(n) PROVE RotationInv'
  <2>1. documents' = documents /\ rotation' = Rotated(n) /\ commands' = commands
    BY <1>11 DEF PickWork, sharedVars
  <2>2. AttachedOnce'
    BY <1>1, <1>2, <2>1, AttachedShrinks
  <2> QED BY <1>1, <1>3, <2>1, <2>2, RotatedEntries
<1>12. CASE \/ InsertWork \/ InsertDone \/ DrainEmpty
            \/ (\E d \in Doc : FlushSent(d) \/ FlushLeave(d))
            \/ NothingRunnable \/ IdleTimeout \/ StartOpen \/ OpenCancelled \/ OpenSucceeded
            \/ OpenFailed \/ WorkDiscarded \/ WorkCancelled \/ StartWork \/ WorkReady
            \/ WorkFailed
  <2>1. UNCHANGED <<documents, rotation, commands>>
    BY <1>12 DEF InsertWork, InsertDone, DrainEmpty, FlushSent, FlushLeave, FlushStep,
         NothingRunnable, IdleTimeout, StartOpen, OpenCancelled, OpenSucceeded, OpenFailed,
         WorkDiscarded, WorkCancelled, StartWork, WorkReady, WorkFailed, EndJob, docVars,
         sharedVars
  <2> QED BY <1>4, <2>1
<1> QED BY <1>6, <1>7, <1>8, <1>9, <1>10, <1>11, <1>12 DEF OwnerStep, AcceptStep

\* Every step keeps the rotation
LEMMA RotationNext ==
  TypeInv /\ TypeInv' /\ CallsAddressed /\ RotationInv /\ [Next]_vars => RotationInv'
<1>1. RotationInv /\ UNCHANGED vars => RotationInv'
  BY DEF RotationInv, RotationComplete, AttachedOnce, vars, clientVars, sharedVars, ownerVars,
         docVars
<1> QED BY <1>1, RotationClient, RotationOwner DEF Next, Stopped

-----------------------------------------------------------------------------
(* What calls, commands, work and jobs carry *)

\* A command or a piece of work carries a token, and a demand a generation: K and G
\* are sets of pairs of a document and a token, of a document and a generation
Carries(x, K, G) ==
  /\ x.op \in {"open", "replace"} => <<x.doc, x.token>> \in K
  /\ x.op = "replace" => <<x.doc, x.gen>> \in G
WorkCarries(d, w, K, G) ==
  /\ <<d, w.token>> \in K
  /\ w.key # OpenKey => <<d, w.gen>> \in G

CallsCarry(K, G) == \A d \in Doc, t \in Thread : Carries(call[d][t], K, G)
CommandsCarry(K, G) == \A i \in DOMAIN commands : Carries(commands[i], K, G)
QueuesCarry(K, G) == \A d \in Doc : \A w \in pending[d] : WorkCarries(d, w, K, G)
JobCarries(K, G) ==
  /\ pc = "insert" => <<job.doc, job.token>> \in K /\ <<job.doc, job.gen>> \in G
  /\ pc \in {"start", "engine"} => WorkCarries(job.doc, job.work, K, G)
Carried(K, G) == CallsCarry(K, G) /\ CommandsCarry(K, G) /\ QueuesCarry(K, G) /\ JobCarries(K, G)

\* The pairs of the calls that a client enters
Entered(K, G) ==
  /\ \A d \in Doc, t \in Thread : EnterOpen(d, t) => <<d, calls[d] + 1>> \in K
  /\ \A d \in Doc, t \in Thread, c \in Class, b \in Batch :
       EnterReplace(d, t, c, b) => <<d, calls[d] + 1>> \in K /\ <<d, session[d]>> \in G

\* A call carries what it carried, or has just been entered
LEMMA CallsCarryNext ==
  ASSUME TypeInv, [Next]_vars, NEW K, NEW G, CallsCarry(K, G), Entered(K, G)
  PROVE  CallsCarry(K, G)'
<1>1. CASE call' = call
  BY <1>1 DEF CallsCarry, Carries
<1>2. ASSUME NEW d \in Doc, NEW t \in Thread, NEW x,
             call' = [call EXCEPT ![d][t] = x], Carries(x, K, G)
      PROVE  CallsCarry(K, G)'
  <2>1. call \in [Doc -> [Thread -> {Idle} \cup Command]]
    BY DEF TypeInv
  <2>2. \A e \in Doc, u \in Thread :
          call'[e][u] = IF e = d /\ u = t THEN x ELSE call[e][u]
    BY <1>2, <2>1
  <2> QED BY <1>2, <2>2 DEF CallsCarry, Carries
<1>3. ASSUME NEW d \in Doc, Attach(d) \/ DropClient(d) \/ SendDetach(d) \/ Receive(d)
                            \/ StopListening(d)
      PROVE  CallsCarry(K, G)'
  BY <1>1, <1>3 DEF Attach, DropClient, SendDetach, Receive, StopListening, clientVars
<1>4. ASSUME NEW d \in Doc, NEW t \in Thread, EnterOpen(d, t) PROVE CallsCarry(K, G)'
  <2> DEFINE x == [op |-> "open", doc |-> d, token |-> calls[d] + 1]
  <2>1. call' = [call EXCEPT ![d][t] = x]
        /\ x.doc = d /\ x.op = "open" /\ x.token = calls[d] + 1
    BY <1>4 DEF EnterOpen, Enter
  <2> HIDE DEF x
  <2>2. Carries(x, K, G)
    BY <1>4, <2>1 DEF Carries, Entered
  <2> QED BY <1>2, <2>1, <2>2
<1>5. ASSUME NEW d \in Doc, NEW t \in Thread, EnterClose(d, t) PROVE CallsCarry(K, G)'
  <2> DEFINE x == [op |-> "close", doc |-> d]
  <2>1. call' = [call EXCEPT ![d][t] = x] /\ x.op = "close"
    BY <1>5 DEF EnterClose, Enter
  <2> HIDE DEF x
  <2>2. Carries(x, K, G)
    BY <2>1 DEF Carries
  <2> QED BY <1>2, <2>1, <2>2
<1>6. ASSUME NEW d \in Doc, NEW t \in Thread, SendCall(d, t) PROVE CallsCarry(K, G)'
  <2>1. call' = [call EXCEPT ![d][t] = Idle] /\ Carries(Idle, K, G)
    BY <1>6 DEF SendCall, Carries, Idle
  <2> QED BY <1>2, <2>1
<1>7. ASSUME NEW d \in Doc, NEW t \in Thread, NEW c \in Class, EnterCancel(d, t, c)
      PROVE  CallsCarry(K, G)'
  <2> DEFINE x == [op |-> "cancel", doc |-> d, class |-> c]
  <2>1. call' = [call EXCEPT ![d][t] = x] /\ x.op = "cancel"
    BY <1>7 DEF EnterCancel, Enter
  <2> HIDE DEF x
  <2>2. Carries(x, K, G)
    BY <2>1 DEF Carries
  <2> QED BY <1>2, <2>1, <2>2
<1>8. ASSUME NEW d \in Doc, NEW t \in Thread, NEW c \in Class, NEW b \in Batch,
             EnterReplace(d, t, c, b)
      PROVE  CallsCarry(K, G)'
  <2> DEFINE x == [op |-> "replace", doc |-> d, class |-> c, work |-> b,
                   token |-> calls[d] + 1, gen |-> session[d]]
  <2>1. call' = [call EXCEPT ![d][t] = x] /\ x.doc = d /\ x.op = "replace"
        /\ x.token = calls[d] + 1 /\ x.gen = session[d]
    BY <1>8 DEF EnterReplace, Enter
  <2> HIDE DEF x
  <2>2. Carries(x, K, G)
    BY <1>8, <2>1 DEF Carries, Entered
  <2> QED BY <1>2, <2>1, <2>2
<1>9. CASE DropHandle \/ SendShutdown
  BY <1>1, <1>9 DEF DropHandle, SendShutdown
<1>10. CASE OwnerStep
  BY <1>1, <1>10, OwnerFrame DEF clientVars
<1>11. CASE UNCHANGED vars
  BY <1>1, <1>11 DEF vars, clientVars
<1> QED BY <1>3, <1>4, <1>5, <1>6, <1>7, <1>8, <1>9, <1>10, <1>11
        DEF Next, ClientStep, Stopped

\* How the commands change in a step
LEMMA CommandsMove ==
  ASSUME TypeInv, [Next]_vars
  PROVE  \/ commands' = commands
         \/ \A i \in DOMAIN commands' : i + 1 \in DOMAIN commands
                                        /\ commands'[i] = commands[i + 1]
         \/ \E c \in Command : Send(c) /\ c.op \in {"attach", "detach", "shutdown"}
         \/ \E d \in Doc, t \in Thread : call[d][t] \in Command /\ Send(call[d][t])
<1>1. ASSUME NEW d \in Doc, Attach(d)
      PROVE  \E c \in Command : Send(c) /\ c.op \in {"attach", "detach", "shutdown"}
  <2>1. [op |-> "attach", doc |-> d] \in Command /\ Send([op |-> "attach", doc |-> d])
    BY <1>1, CommandIn DEF Attach
  <2> QED BY <2>1
<1>2. ASSUME NEW d \in Doc, SendDetach(d)
      PROVE  \E c \in Command : Send(c) /\ c.op \in {"attach", "detach", "shutdown"}
  <2>1. [op |-> "detach", doc |-> d] \in Command /\ Send([op |-> "detach", doc |-> d])
    BY <1>2, CommandIn DEF SendDetach
  <2> QED BY <2>1
<1>3. CASE SendShutdown
  <2>1. [op |-> "shutdown"] \in Command /\ Send([op |-> "shutdown"])
    BY <1>3, CommandIn DEF SendShutdown
  <2> QED BY <2>1
<1>4. ASSUME NEW d \in Doc, NEW t \in Thread, SendCall(d, t)
      PROVE  call[d][t] \in Command /\ Send(call[d][t])
  <2>1. call[d][t] # Idle /\ Send(call[d][t])
    BY <1>4 DEF SendCall
  <2>2. call[d][t] \in Command
    BY <2>1 DEF TypeInv
  <2> QED BY <2>1, <2>2
<1>5. ASSUME NEW d \in Doc, DropClient(d) \/ Receive(d) \/ StopListening(d)
      PROVE  commands' = commands
  BY <1>5 DEF DropClient, Receive, StopListening
<1>6. ASSUME NEW d \in Doc, NEW t \in Thread, EnterOpen(d, t) \/ EnterClose(d, t)
      PROVE  commands' = commands
  BY <1>6 DEF EnterOpen, EnterClose, Enter
<1>7. ASSUME NEW d \in Doc, NEW t \in Thread, NEW c \in Class, EnterCancel(d, t, c)
      PROVE  commands' = commands
  BY <1>7 DEF EnterCancel, Enter
<1>8. ASSUME NEW d \in Doc, NEW t \in Thread, NEW c \in Class, NEW b \in Batch,
             EnterReplace(d, t, c, b)
      PROVE  commands' = commands
  BY <1>8 DEF EnterReplace, Enter
<1>9. DropHandle \/ UNCHANGED vars => commands' = commands
  BY DEF DropHandle, vars, sharedVars
<1>10. CASE AcceptStep
  BY <1>10, Accepted, SMTT(30) DEF AcceptStep, AcceptAttach, AcceptOpen, AcceptClose, AcceptReplace,
                         AcceptCancelClass, AcceptDetach, AcceptShutdown
<1>11. OwnerStep /\ ~AcceptStep => commands' = commands
  BY DEF OwnerStep, InsertWork, InsertDone, DrainEmpty, FlushSent, FlushLeave,
         FlushDisconnected, FlushStep, PickWork,
         NothingRunnable, IdleTimeout, StartOpen, OpenCancelled, OpenSucceeded, OpenFailed,
         WorkDiscarded, WorkCancelled, StartWork, WorkReady, WorkFailed, EndJob, docVars,
         sharedVars
<1> QED BY <1>1, <1>2, <1>3, <1>4, <1>5, <1>6, <1>7, <1>8, <1>9, <1>10, <1>11
        DEF Next, ClientStep, Stopped

\* A command carries what it carried, or what the call carried that sent it
LEMMA CommandsCarryNext ==
  ASSUME TypeInv, [Next]_vars, NEW K, NEW G, CallsCarry(K, G), CommandsCarry(K, G)
  PROVE  CommandsCarry(K, G)'
<1>1. CASE \/ commands' = commands
           \/ \A i \in DOMAIN commands' : i + 1 \in DOMAIN commands
                                          /\ commands'[i] = commands[i + 1]
  BY <1>1 DEF CommandsCarry, Carries
<1>2. ASSUME NEW c \in Command, Send(c), Carries(c, K, G) PROVE CommandsCarry(K, G)'
  <2>1. /\ DOMAIN commands' = 1..(Len(commands) + 1) /\ DOMAIN commands = 1..Len(commands)
        /\ Len(commands) \in Nat /\ commands'[Len(commands) + 1] = c
        /\ \A i \in DOMAIN commands : commands'[i] = commands[i]
    BY <1>2, SendCommand
  <2>2. ASSUME NEW i \in DOMAIN commands' PROVE Carries(commands'[i], K, G)
    <3>1. CASE i = Len(commands) + 1
      BY <1>2, <2>1, <3>1
    <3>2. CASE i # Len(commands) + 1
      <4>1. i \in DOMAIN commands /\ commands'[i] = commands[i]
        BY <2>1, <3>2
      <4> QED BY <4>1 DEF CommandsCarry
    <3> QED BY <3>1, <3>2
  <2> QED BY <2>2 DEF CommandsCarry, Carries
<1>3. ASSUME NEW c \in Command, c.op \in {"attach", "detach", "shutdown"}
      PROVE  Carries(c, K, G)
  BY <1>3 DEF Carries
<1>4. \A d \in Doc, t \in Thread : Carries(call[d][t], K, G)
  BY DEF CallsCarry
<1> QED BY <1>1, <1>2, <1>3, <1>4, CommandsMove

\* Work carries what it carried, or what the command or the job carried it came from
LEMMA QueuesCarryNext ==
  ASSUME TypeInv, [Next]_vars, NEW K, NEW G,
         CommandsCarry(K, G), QueuesCarry(K, G), JobCarries(K, G)
  PROVE  QueuesCarry(K, G)'
<1> DEFINE c == Head(commands)
<1>1. ASSUME \A d \in Doc : pending'[d] \subseteq pending[d] PROVE QueuesCarry(K, G)'
  BY <1>1 DEF QueuesCarry, WorkCarries
<1>2. CASE AcceptOpen
  <2>1. c \in Command /\ c = commands[1] /\ 1 \in DOMAIN commands /\ c.op = "open"
    BY <1>2, Accepted DEF AcceptOpen
  <2>2. c.doc \in Doc /\ <<c.doc, c.token>> \in K
    BY <2>1, CommandFields DEF CommandsCarry, Carries
  <2>3. CASE c.doc \in documents
    <3> DEFINE new == [key |-> OpenKey, sequence |-> nextSequence[c.doc],
                       priority |-> Interactive, token |-> c.token, gen |-> 0]
    <3>1. pending' = [pending EXCEPT ![c.doc] = {new}]
      BY <1>2, <2>3 DEF AcceptOpen, CancelAndClear
    <3>2. pending'[c.doc] = {new} /\ \A x \in Doc \ {c.doc} : pending'[x] = pending[x]
      BY <2>2, <3>1 DEF TypeInv
    <3>3. new.key = OpenKey /\ new.token = c.token
      OBVIOUS
    <3> HIDE DEF new
    <3>4. WorkCarries(c.doc, new, K, G)
      BY <2>2, <3>3 DEF WorkCarries
    <3>5. \A d \in Doc : \A w \in pending'[d] : WorkCarries(d, w, K, G)
      BY <3>2, <3>4 DEF QueuesCarry
    <3> QED BY <3>5 DEF QueuesCarry, WorkCarries
  <2>4. CASE c.doc \notin documents
    BY <1>1, <1>2, <2>4 DEF AcceptOpen
  <2> QED BY <2>3, <2>4
<1>3. CASE AcceptClose \/ AcceptReplace \/ AcceptCancelClass \/ AcceptDetach
  <2>1. c.doc \in Doc
    BY <1>3, Accepted, CommandFields
       DEF AcceptClose, AcceptReplace, AcceptCancelClass, AcceptDetach
  <2>2. \/ pending' = pending
        \/ \E S \in SUBSET pending[c.doc] : pending' = [pending EXCEPT ![c.doc] = S]
    BY <1>3 DEF AcceptClose, AcceptReplace, AcceptCancelClass, AcceptDetach,
                RemoveDocument, CancelAndClear
  <2>3. \A d \in Doc : pending'[d] \subseteq pending[d]
    BY <2>1, <2>2 DEF TypeInv
  <2> QED BY <1>1, <2>3
<1>4. CASE AcceptShutdown
  <2>1. \A d \in Doc : pending'[d] \subseteq pending[d]
    BY <1>4 DEF AcceptShutdown
  <2> QED BY <1>1, <2>1
<1>5. CASE InsertWork
  <2> DEFINE d == job.doc
             new == Inserted(d)
             rest == Evicted(Grown(d))
  <2>1. /\ d \in Doc /\ new.token = job.token /\ new.gen = job.gen
        /\ pending' = [pending EXCEPT ![d] = Grown(d) \ rest]
    BY <1>5, InsertMoves
  <2>2. Grown(d) \subseteq pending[d] \cup {new}
    BY DEF Grown
  <2>3. <<d, job.token>> \in K /\ <<d, job.gen>> \in G
    BY <1>5 DEF InsertWork, JobCarries
  <2> HIDE DEF d, new, rest
  <2>4. WorkCarries(d, new, K, G)
    BY <2>1, <2>3 DEF WorkCarries
  <2>5. pending'[d] \subseteq pending[d] \cup {new}
        /\ \A x \in Doc \ {d} : pending'[x] = pending[x]
    BY <2>1, <2>2 DEF TypeInv
  <2>6. \A x \in Doc : \A w \in pending'[x] : WorkCarries(x, w, K, G)
    BY <2>4, <2>5 DEF QueuesCarry
  <2> QED BY <2>6 DEF QueuesCarry, WorkCarries
<1>6. ASSUME NEW d \in Doc, FlushDisconnected(d) PROVE QueuesCarry(K, G)'
  <2>1. \A x \in Doc : pending'[x] \subseteq pending[x]
    BY <1>6 DEF FlushDisconnected, RemoveDocument, CancelAndClear, TypeInv
  <2> QED BY <1>1, <2>1
<1>7. ASSUME NEW n \in 1..Len(rotation), PickWork(n) PROVE QueuesCarry(K, G)'
  <2>1. rotation[n] \in Doc
    BY ElementOfSeq DEF TypeInv
  <2>2. \E w : pending' = [pending EXCEPT ![rotation[n]] = @ \ {w}]
    BY <1>7 DEF PickWork
  <2>3. PICK w : pending' = [pending EXCEPT ![rotation[n]] = pending[rotation[n]] \ {w}]
    BY <2>2
  <2>4. pending \in [Doc -> SUBSET Work]
    BY DEF TypeInv
  <2>5. \A x \in Doc : pending'[x] \subseteq pending[x]
    BY <2>1, <2>3, <2>4
  <2> QED BY <1>1, <2>5
<1>8. CASE ClientStep \/ UNCHANGED vars
  <2>1. pending' = pending
    BY <1>8, ClientFrame DEF vars, ownerVars, docVars
  <2> QED BY <1>1, <2>1
<1>9. CASE \/ AcceptAttach \/ InsertDone \/ DrainEmpty
           \/ (\E d \in Doc : FlushSent(d) \/ FlushLeave(d))
           \/ NothingRunnable \/ IdleTimeout
           \/ StartOpen \/ OpenCancelled \/ OpenSucceeded \/ OpenFailed
           \/ WorkDiscarded \/ WorkCancelled \/ StartWork \/ WorkReady \/ WorkFailed
  <2>1. pending' = pending
    BY <1>9 DEF AcceptAttach, InsertDone, DrainEmpty, FlushSent, FlushLeave,
         NothingRunnable, IdleTimeout, StartOpen, OpenCancelled, OpenSucceeded, OpenFailed,
         WorkDiscarded, WorkCancelled, StartWork, WorkReady, WorkFailed, EndJob, docVars
  <2> QED BY <1>1, <2>1
<1> QED BY <1>2, <1>3, <1>4, <1>5, <1>6, <1>7, <1>8, <1>9
        DEF Next, OwnerStep, AcceptStep, Stopped

\* The job carries what the command or the work carried that it was made of
LEMMA JobCarriesNext ==
  ASSUME TypeInv, [Next]_vars, NEW K, NEW G,
         CommandsCarry(K, G), QueuesCarry(K, G), JobCarries(K, G)
  PROVE  JobCarries(K, G)'
<1> DEFINE c == Head(commands)
<1>1. ASSUME pc' \notin {"insert", "start", "engine"} PROVE JobCarries(K, G)'
  BY <1>1 DEF JobCarries
<1>2. ASSUME UNCHANGED <<pc, job>> PROVE JobCarries(K, G)'
  BY <1>2 DEF JobCarries, WorkCarries
<1>3. CASE AcceptReplace
  <2>1. c \in Command /\ c = commands[1] /\ 1 \in DOMAIN commands /\ c.op = "replace"
    BY <1>3, Accepted DEF AcceptReplace
  <2>2. <<c.doc, c.token>> \in K /\ <<c.doc, c.gen>> \in G
    BY <2>1 DEF CommandsCarry, Carries
  <2>3. CASE c.doc \in documents
    <3>1. pc' = "insert" /\ job'.doc = c.doc /\ job'.token = c.token /\ job'.gen = c.gen
      BY <1>3, <2>3 DEF AcceptReplace
    <3> QED BY <2>2, <3>1 DEF JobCarries
  <2>4. CASE c.doc \notin documents
    BY <1>1, <1>3, <2>4 DEF AcceptReplace
  <2> QED BY <2>3, <2>4
<1>4. CASE InsertWork
  <2>1. pc = "insert" /\ pc' = pc /\ job \in InsertJob
    BY <1>4 DEF InsertWork, TypeInv
  <2>2. job'.doc = job.doc /\ job'.token = job.token /\ job'.gen = job.gen
    BY <1>4, <2>1 DEF InsertWork, InsertJob
  <2> QED BY <2>1, <2>2 DEF JobCarries
<1>5. ASSUME NEW n \in 1..Len(rotation), PickWork(n) PROVE JobCarries(K, G)'
  <2> DEFINE d == rotation[n]
  <2>1. d \in Doc
    BY ElementOfSeq DEF TypeInv
  <2>2. PICK w \in Greatest(pending[d]) : job' = [doc |-> d, work |-> w]
    BY <1>5 DEF PickWork
  <2>3. WorkCarries(d, w, K, G)
    BY <2>1, <2>2 DEF Greatest, QueuesCarry
  <2>4. pc' = "start" /\ job'.doc = d /\ job'.work = w
    BY <1>5, <2>2 DEF PickWork
  <2> QED BY <2>3, <2>4 DEF JobCarries, WorkCarries
<1>6. CASE StartOpen \/ StartWork
  <2>1. pc = "start" /\ pc' = "engine" /\ job' = job
    BY <1>6 DEF StartOpen, StartWork
  <2> QED BY <2>1 DEF JobCarries, WorkCarries
<1>7. CASE ClientStep \/ UNCHANGED vars
  BY <1>2, <1>7, ClientFrame DEF vars, ownerVars
<1>8. ASSUME NEW d \in Doc, FlushSent(d) \/ FlushLeave(d) \/ FlushDisconnected(d)
      PROVE  JobCarries(K, G)'
  BY <1>2, <1>8 DEF FlushSent, FlushLeave, FlushDisconnected, FlushStep
<1>9. CASE AcceptAttach \/ AcceptOpen \/ AcceptClose \/ AcceptCancelClass \/ AcceptDetach
           \/ AcceptShutdown
  BY <1>1, <1>9 DEF AcceptAttach, AcceptOpen, AcceptClose, AcceptCancelClass, AcceptDetach,
                    AcceptShutdown
<1>10. CASE InsertDone \/ DrainEmpty \/ NothingRunnable \/ IdleTimeout \/ OpenCancelled
            \/ OpenSucceeded \/ OpenFailed \/ WorkDiscarded \/ WorkCancelled \/ WorkReady
            \/ WorkFailed
  BY <1>1, <1>10 DEF InsertDone, DrainEmpty, NothingRunnable, IdleTimeout, OpenCancelled,
                     OpenSucceeded, OpenFailed, WorkDiscarded, WorkCancelled, WorkReady,
                     WorkFailed, EndJob
<1> QED BY <1>3, <1>4, <1>5, <1>6, <1>7, <1>8, <1>9, <1>10
        DEF Next, OwnerStep, AcceptStep, Stopped

\* A step carries on what was carried, and takes up what the calls bring
LEMMA CarriedNext ==
  ASSUME TypeInv, [Next]_vars, NEW K, NEW G, Carried(K, G), Entered(K, G)
  PROVE  Carried(K, G)'
<1>1. CallsCarry(K, G) /\ CommandsCarry(K, G) /\ QueuesCarry(K, G) /\ JobCarries(K, G)
  BY DEF Carried
<1>2. CallsCarry(K, G)' /\ CommandsCarry(K, G)' /\ QueuesCarry(K, G)' /\ JobCarries(K, G)'
  BY <1>1, CallsCarryNext, CommandsCarryNext, QueuesCarryNext, JobCarriesNext
<1> QED BY <1>2 DEF Carried

-----------------------------------------------------------------------------
(* Tokens are known as long as somebody carries them *)

\* The owner cancels and never takes back
LEMMA OwnerCancels ==
  ASSUME TypeInv, OwnerStep
  PROVE  \A d \in Doc : cancelled[d] \subseteq cancelled'[d]
<1>1. ASSUME cancelled' = cancelled PROVE \A d \in Doc : cancelled[d] \subseteq cancelled'[d]
  BY <1>1
<1>2. ASSUME NEW e \in Doc, NEW S, cancelled' = [cancelled EXCEPT ![e] = @ \cup S]
      PROVE  \A d \in Doc : cancelled[d] \subseteq cancelled'[d]
  BY <1>2 DEF TypeInv
<1>3. CASE AcceptStep
  <2>1. AcceptShutdown \/ AcceptAttach => \A d \in Doc : cancelled[d] \subseteq cancelled'[d]
    BY <1>1 DEF AcceptShutdown, AcceptAttach
  <2>2. ASSUME AcceptOpen \/ AcceptClose \/ AcceptReplace \/ AcceptCancelClass \/ AcceptDetach
        PROVE  \A d \in Doc : cancelled[d] \subseteq cancelled'[d]
    <3> DEFINE e == Head(commands).doc
    <3>1. e \in Doc
      BY <2>2, Accepted, CommandFields
         DEF AcceptOpen, AcceptClose, AcceptReplace, AcceptCancelClass, AcceptDetach
    <3>2. \/ cancelled' = cancelled
          \/ \E S : cancelled' = [cancelled EXCEPT ![e] = @ \cup S]
      BY <2>2 DEF AcceptOpen, AcceptClose, AcceptReplace, AcceptCancelClass, AcceptDetach,
                  RemoveDocument, CancelAndClear
    <3> HIDE DEF e
    <3> QED BY <1>1, <1>2, <3>1, <3>2
  <2> QED BY <1>3, <2>1, <2>2 DEF AcceptStep
<1>4. CASE InsertWork
  BY <1>2, <1>4, InsertMoves
<1>5. ASSUME NEW d \in Doc, FlushSent(d) \/ FlushLeave(d) \/ FlushDisconnected(d)
      PROVE  \A x \in Doc : cancelled[x] \subseteq cancelled'[x]
  <2>1. \/ cancelled' = cancelled
        \/ \E S : cancelled' = [cancelled EXCEPT ![d] = @ \cup S]
    BY <1>5 DEF FlushSent, FlushLeave, FlushDisconnected, RemoveDocument, CancelAndClear
  <2> QED BY <1>1, <1>2, <2>1
<1>6. ASSUME NEW n \in 1..Len(rotation), PickWork(n) PROVE cancelled' = cancelled
  BY <1>6 DEF PickWork, sharedVars
<1>7. InsertDone \/ DrainEmpty \/ NothingRunnable \/ IdleTimeout \/ StartOpen \/ OpenCancelled
      \/ OpenSucceeded \/ OpenFailed \/ WorkDiscarded \/ WorkCancelled \/ StartWork \/ WorkReady
      \/ WorkFailed => cancelled' = cancelled
  BY DEF InsertDone, DrainEmpty, NothingRunnable, IdleTimeout, StartOpen, OpenCancelled,
         OpenSucceeded, OpenFailed, WorkDiscarded, WorkCancelled, StartWork, WorkReady,
         WorkFailed, EndJob, sharedVars
<1> QED BY <1>1, <1>3, <1>4, <1>5, <1>6, <1>7 DEF OwnerStep

\* A client forgets only the tokens that it cancels
LEMMA KnownGrows ==
  ASSUME TypeInv, [Next]_vars, NEW x \in Doc, NEW k, Known(x, k)
  PROVE  Known(x, k)'
<1>1. ASSUME cancelled[x] \subseteq cancelled'[x], UNCHANGED <<openToken, classToken>>
      PROVE  Known(x, k)'
  BY <1>1 DEF Known, Registered
<1>2. ASSUME NEW d \in Doc, cancelled' = [cancelled EXCEPT ![d] = @ \cup Registered(d)],
             \A y \in Doc \ {d} : openToken'[y] = openToken[y] /\ classToken'[y] = classToken[y]
      PROVE  Known(x, k)'
  <2>1. CASE x = d
    <3>1. cancelled'[d] = cancelled[d] \cup Registered(d)
      BY <1>2 DEF TypeInv
    <3> QED BY <2>1, <3>1 DEF Known
  <2>2. CASE x # d
    <3>1. cancelled'[x] = cancelled[x]
      BY <1>2, <2>2 DEF TypeInv
    <3> QED BY <1>2, <2>2, <3>1 DEF Known, Registered
  <2> QED BY <2>1, <2>2
<1>3. ASSUME NEW d \in Doc, NEW c \in Class, NEW n, openToken' = openToken,
             cancelled' = [cancelled EXCEPT ![d] = @ \cup ({classToken[d][c]} \ {0})],
             classToken' = [classToken EXCEPT ![d][c] = n]
      PROVE  Known(x, k)'
  <2>1. CASE x = d
    <3>1. cancelled'[d] = cancelled[d] \cup ({classToken[d][c]} \ {0})
      BY <1>3 DEF TypeInv
    <3>2. \A e \in Class \ {c} : classToken'[d][e] = classToken[d][e]
      BY <1>3 DEF TypeInv
    <3>3. CASE k \in cancelled[d]
      BY <2>1, <3>1, <3>3 DEF Known
    <3>4. CASE k \in Registered(d)
      <4>1. k # 0 /\ (k = openToken[d] \/ \E e \in Class : k = classToken[d][e])
        BY <3>4 DEF Registered
      <4>2. CASE k = openToken[d]
        BY <1>3, <2>1, <4>1, <4>2 DEF Known, Registered
      <4>3. ASSUME NEW e \in Class, k = classToken[d][e] PROVE Known(x, k)'
        <5>1. CASE e = c
          BY <2>1, <3>1, <4>1, <4>3, <5>1 DEF Known
        <5>2. CASE e # c
          <6>1. k = classToken'[d][e]
            BY <3>2, <4>3, <5>2
          <6> QED BY <2>1, <4>1, <6>1 DEF Known, Registered
        <5> QED BY <5>1, <5>2
      <4> QED BY <4>1, <4>2, <4>3
    <3> QED BY <2>1, <3>3, <3>4 DEF Known
  <2>2. CASE x # d
    <3>1. cancelled'[x] = cancelled[x] /\ classToken'[x] = classToken[x]
      BY <1>3, <2>2 DEF TypeInv
    <3> QED BY <1>3, <3>1 DEF Known, Registered
  <2> QED BY <2>1, <2>2
<1>4. CASE OwnerStep
  <2>1. UNCHANGED <<openToken, classToken>>
    BY <1>4, OwnerFrame DEF clientVars
  <2> QED BY <1>1, <1>4, <2>1, OwnerCancels
<1>5. ASSUME NEW d \in Doc, Attach(d) \/ SendDetach(d) \/ Receive(d) \/ StopListening(d)
      PROVE  Known(x, k)'
  BY <1>1, <1>5 DEF Attach, SendDetach, Receive, StopListening, clientVars
<1>6. ASSUME NEW d \in Doc, DropClient(d) PROVE Known(x, k)'
  BY <1>2, <1>6 DEF DropClient, TypeInv
<1>7. ASSUME NEW d \in Doc, NEW t \in Thread, EnterOpen(d, t) PROVE Known(x, k)'
  <2>1. \A y \in Doc \ {d} : openToken'[y] = openToken[y] /\ classToken'[y] = classToken[y]
    BY <1>7 DEF EnterOpen, TypeInv
  <2> QED BY <1>2, <1>7, <2>1 DEF EnterOpen
<1>8. ASSUME NEW d \in Doc, NEW t \in Thread, EnterClose(d, t) PROVE Known(x, k)'
  <2>1. \A y \in Doc \ {d} : openToken'[y] = openToken[y] /\ classToken'[y] = classToken[y]
    BY <1>8 DEF EnterClose, TypeInv
  <2> QED BY <1>2, <1>8, <2>1 DEF EnterClose
<1>9. ASSUME NEW d \in Doc, NEW t \in Thread, SendCall(d, t) PROVE Known(x, k)'
  BY <1>1, <1>9 DEF SendCall
<1>10. ASSUME NEW d \in Doc, NEW t \in Thread, NEW c \in Class, EnterCancel(d, t, c)
       PROVE  Known(x, k)'
  BY <1>3, <1>10 DEF EnterCancel
<1>11. ASSUME NEW d \in Doc, NEW t \in Thread, NEW c \in Class, NEW b \in Batch,
              EnterReplace(d, t, c, b)
       PROVE  Known(x, k)'
  BY <1>3, <1>11 DEF EnterReplace
<1>12. CASE DropHandle \/ SendShutdown \/ UNCHANGED vars
  BY <1>1, <1>12 DEF DropHandle, SendShutdown, vars, clientVars, sharedVars
<1> QED BY <1>4, <1>5, <1>6, <1>7, <1>8, <1>9, <1>10, <1>11, <1>12
        DEF Next, ClientStep, Stopped

\* The token of a call is registered as it is made
LEMMA EnteredKnown ==
  ASSUME TypeInv, NEW d \in Doc, NEW t \in Thread,
         NEW k, k = calls[d] + 1,
         EnterOpen(d, t) \/ \E c \in Class, b \in Batch : EnterReplace(d, t, c, b)
  PROVE  Known(d, k)'
<1>1. k # 0
  BY BoundAssumption DEF TypeInv
<1>2. CASE EnterOpen(d, t)
  <2>1. openToken'[d] = k
    BY <1>2 DEF EnterOpen, TypeInv
  <2>2. k \in Registered(d)'
    BY <1>1, <2>1 DEF Registered
  <2> QED BY <2>2 DEF Known
<1>3. ASSUME NEW c \in Class, NEW b \in Batch, EnterReplace(d, t, c, b)
      PROVE  Known(d, k)'
  <2>1. classToken'[d][c] = k
    BY <1>3 DEF EnterReplace, TypeInv
  <2>2. k \in Registered(d)'
    BY <1>1, <2>1 DEF Registered
  <2> QED BY <2>2 DEF Known
<1> QED BY <1>2, <1>3

\* After a step, too, TokenInv says that the tokens carried are known
LEMMA TokensCarried ==
  ASSUME TypeInv', CallsAddressed', NEW K, NEW G, Carried(K, G)',
         \A d \in Doc, k \in 1..MaxCalls : <<d, k>> \in K => Known(d, k)'
  PROVE  TokenInv'
<1> USE DEF Known, Registered
<1>1. ASSUME NEW d \in Doc, NEW t \in Thread, call'[d][t].op \in {"open", "replace"}
      PROVE  Known(d, call[d][t].token)'
  <2>1. call'[d][t] \in {Idle} \cup Command /\ call'[d][t] # Idle
    BY <1>1 DEF TypeInv, Idle
  <2>2. call'[d][t].doc = d /\ call'[d][t].token \in 1..MaxCalls
    BY <1>1, <2>1, CommandFields DEF CallsAddressed
  <2>3. <<d, call'[d][t].token>> \in K
    BY <1>1, <2>2 DEF Carried, CallsCarry, Carries
  <2> QED BY <2>2, <2>3
<1>2. ASSUME NEW i \in DOMAIN commands', commands'[i].op \in {"open", "replace"}
      PROVE  Known(commands[i].doc, commands[i].token)'
  <2>1. commands'[i] \in Command
    BY ElementOfSeq DEF TypeInv
  <2>2. commands'[i].doc \in Doc /\ commands'[i].token \in 1..MaxCalls
    BY <1>2, <2>1, CommandFields
  <2>3. <<commands'[i].doc, commands'[i].token>> \in K
    BY <1>2 DEF Carried, CommandsCarry, Carries
  <2> QED BY <2>2, <2>3
<1>3. ASSUME NEW d \in Doc, NEW w \in pending'[d] PROVE Known(d, w.token)'
  <2>1. w.token \in 1..MaxCalls
    BY WorkFields DEF TypeInv
  <2>2. <<d, w.token>> \in K
    BY DEF Carried, QueuesCarry, WorkCarries
  <2> QED BY <2>1, <2>2
<1>4. ASSUME pc' = "insert" PROVE Known(job.doc, job.token)'
  <2>1. job'.doc \in Doc /\ job'.token \in 1..MaxCalls
    BY <1>4 DEF TypeInv, InsertJob
  <2>2. <<job'.doc, job'.token>> \in K
    BY <1>4 DEF Carried, JobCarries
  <2> QED BY <2>1, <2>2
<1>5. ASSUME pc' \in {"start", "engine"} PROVE Known(job.doc, job.work.token)'
  <2>1. job'.doc \in Doc /\ job'.work \in Work
    BY <1>5 DEF TypeInv, RunJob
  <2>2. job'.work.token \in 1..MaxCalls
    BY <2>1, WorkFields
  <2>3. <<job'.doc, job'.work.token>> \in K
    BY <1>5 DEF Carried, JobCarries, WorkCarries
  <2> QED BY <2>1, <2>2, <2>3
<1> QED BY <1>1, <1>2, <1>3, <1>4, <1>5 DEF TokenInv

\* No token is in use at the beginning
LEMMA TokenInit == Init => TokenInv
<1>1. DOMAIN <<>> = {}
  OBVIOUS
<1> QED BY <1>1 DEF Init, TokenInv, Idle

-----------------------------------------------------------------------------
(* What a step does to the stream of one document *)

\* The parts of a document's stream that most steps leave
Kept(d) == UNCHANGED <<session[d], told[d], nextGeneration[d]>>

Quiet(d) ==
  /\ Kept(d) /\ UNCHANGED <<route[d], pendingEvents[d], active[d], opened[d]>>
  /\ MidOpen(d)' => MidOpen(d)

\* pendingEvents[d] has one more event
Pushed(d, e) ==
  /\ DOMAIN pendingEvents[d] = 1..Len(pendingEvents[d]) /\ Len(pendingEvents[d]) \in Nat
  /\ DOMAIN pendingEvents'[d] = 1..(Len(pendingEvents[d]) + 1)
  /\ pendingEvents'[d][Len(pendingEvents[d]) + 1] = e
  /\ \A i \in DOMAIN pendingEvents[d] : pendingEvents'[d][i] = pendingEvents[d][i]

\* attached or rejected
Noted(d, e) ==
  /\ Kept(d) /\ UNCHANGED <<route[d], active[d], opened[d]>> /\ ~MidOpen(d)'
  /\ e.kind \in {"attached", "rejected"} /\ e.gen = 0
  /\ Pushed(d, e)

\* cancel_and_clear, by an open, a close or the end of the document
Cleared(d, e) ==
  /\ Kept(d) /\ route'[d] = route[d] /\ active'[d] = 0 /\ ~MidOpen(d)'
  /\ \/ pendingEvents'[d] = <<>> \/ pendingEvents'[d] = pendingEvents[d]
     \/ Pushed(d, e) /\ e.kind = "closed" /\ e.gen = active[d]

\* The first pending event moves to the end of the route
Flushed(d) ==
  /\ Kept(d) /\ UNCHANGED <<active[d], opened[d]>> /\ ~MidOpen(d)'
  /\ 1 \in DOMAIN pendingEvents[d]
  /\ DOMAIN pendingEvents[d] = 1..Len(pendingEvents[d])
  /\ DOMAIN pendingEvents'[d] = 1..Len(pendingEvents'[d])
  /\ \A i \in DOMAIN pendingEvents'[d] : i + 1 \in DOMAIN pendingEvents[d]
                                         /\ pendingEvents'[d][i] = pendingEvents[d][i + 1]
  /\ DOMAIN route[d] = 1..Len(route[d]) /\ Len(route[d]) \in Nat
  /\ DOMAIN route'[d] = 1..(Len(route[d]) + 1)
  /\ route'[d][Len(route[d]) + 1] = pendingEvents[d][1]
  /\ \A i \in DOMAIN route[d] : route'[d][i] = route[d][i]

\* The receiver takes the first event of the route
Received(d) ==
  /\ UNCHANGED <<nextGeneration[d], active[d], opened[d], pendingEvents[d]>>
  /\ MidOpen(d)' => MidOpen(d)
  /\ 1 \in DOMAIN route[d]
  /\ DOMAIN route[d] = 1..Len(route[d]) /\ DOMAIN route'[d] = 1..Len(route'[d])
  /\ \A i \in DOMAIN route'[d] : i + 1 \in DOMAIN route[d] /\ route'[d][i] = route[d][i + 1]
  /\ session'[d] = IF route[d][1].kind = "opened" THEN route[d][1].gen ELSE session[d]
  /\ told'[d] = IF route[d][1].kind = "opened" THEN route[d][1].gen
                ELSE IF route[d][1].kind \in Changes THEN 0 ELSE told[d]

\* The receiver goes
Deaf(d) ==
  /\ Kept(d) /\ UNCHANGED <<active[d], opened[d], pendingEvents[d]>> /\ route'[d] = <<>>
  /\ MidOpen(d)' => MidOpen(d)

\* process_open begins a session
Begun(d) ==
  /\ UNCHANGED <<session[d], told[d], route[d], pendingEvents[d]>>
  /\ pendingEvents[d] = <<>>
  /\ active'[d] = nextGeneration[d] /\ nextGeneration'[d] = nextGeneration[d] + 1

\* A job ends with the event e, the only one pending: of an open, or of a demand
Ended(d, e) ==
  /\ Kept(d) /\ UNCHANGED <<route[d], active[d]>> /\ ~MidOpen(d)'
  /\ pendingEvents[d] = <<>> /\ DOMAIN pendingEvents'[d] = {1} /\ pendingEvents'[d][1] = e
  /\ \/ /\ MidOpen(d) /\ e.gen = active[d]
        /\ e.kind \in {"opened", "openfailed", "opencancelled"}
        /\ e.kind = "opened" => opened'[d]
     \/ /\ ~MidOpen(d) /\ Served(d, e.gen) /\ opened'[d] = opened[d]
        /\ \/ e.kind = "discarded"
           \/ /\ e.kind \in {"ready", "failed", "cancelled", "nodocument"}
              /\ e.gen = active[d] /\ (e.kind = "nodocument" => ~opened[d])

Moves(d) ==
  \/ Quiet(d) \/ Flushed(d) \/ Received(d) \/ Deaf(d) \/ Begun(d)
  \/ \E e \in EventType : Noted(d, e) \/ Cleared(d, e) \/ Ended(d, e)

\* The types of one document's stream
LEMMA DocTypes ==
  ASSUME TypeInv, NEW d \in Doc
  PROVE  /\ session[d] \in Nat /\ told[d] \in Nat /\ active[d] \in Nat
         /\ nextGeneration[d] \in Nat \ {0} /\ opened[d] \in BOOLEAN
         /\ \A i \in DOMAIN route[d] : i \in Nat /\ route[d][i].gen \in Nat
         /\ \A i \in DOMAIN pendingEvents[d] : i \in Nat /\ pendingEvents[d][i].gen \in Nat
<1>1. route[d] \in Seq(EventType) /\ pendingEvents[d] \in Seq(EventType)
  BY DEF TypeInv
<1>2. \A i \in DOMAIN route[d] : i \in Nat /\ route[d][i] \in EventType
  BY <1>1
<1>3. \A i \in DOMAIN pendingEvents[d] : i \in Nat /\ pendingEvents[d][i] \in EventType
  BY <1>1
<1> QED BY <1>2, <1>3, EventFields DEF TypeInv

\* A session that the client has received stays one
LEMMA ServedStays ==
  ASSUME TypeInv, TypeInv', NEW d \in Doc, DocStream(d), Moves(d), NEW g, Served(d, g)
  PROVE  Served(d, g)'
<1> USE DocTypes
<1>1. g \in Nat \ {0} /\ g <= session[d] /\ session[d] < nextGeneration[d]
      /\ session[d] \in Nat /\ nextGeneration[d] \in Nat
  BY DEF Served, DocStream, Generations
<1>2. CASE Quiet(d)
  BY <1>2 DEF Quiet, Kept, Served, NoChange
<1>3. CASE Deaf(d)
  BY <1>3 DEF Deaf, Kept, Served, NoChange
<1>4. CASE Begun(d)
  BY <1>1, <1>4 DEF Begun, Served
<1>5. CASE Flushed(d)
  <2>1. ASSUME NoChange(d) PROVE NoChange(d)'
    <3>1. \A i \in DOMAIN route'[d] : route'[d][i].kind \notin Changes
      <4> SUFFICES ASSUME NEW i \in DOMAIN route'[d] PROVE route'[d][i].kind \notin Changes
        OBVIOUS
      <4>1. CASE i \in DOMAIN route[d]
        BY <1>5, <2>1, <4>1 DEF Flushed, NoChange
      <4>2. CASE i \notin DOMAIN route[d]
        <5>1. i = Len(route[d]) + 1
          BY <1>5, <4>2 DEF Flushed
        <5> QED BY <1>5, <2>1, <5>1 DEF Flushed, NoChange
      <4> QED BY <4>1, <4>2
    <3>2. \A i \in DOMAIN pendingEvents'[d] : pendingEvents'[d][i].kind \notin Changes
      BY <1>5, <2>1 DEF Flushed, NoChange
    <3> QED BY <3>1, <3>2 DEF NoChange
  <2> QED BY <1>1, <1>5, <2>1 DEF Flushed, Kept, Served
<1>6. CASE Received(d)
  <2>1. CASE g # active[d]
    <3>1. g <= session'[d]
      <4>1. CASE route[d][1].kind = "opened"
        <5>1. route[d][1].gen > session[d] /\ route[d][1].gen \in Nat
          BY <1>6, <4>1 DEF Received, DocStream, RouteOpenings, Announces
        <5> QED BY <1>1, <1>6, <4>1, <5>1 DEF Received
      <4>2. CASE route[d][1].kind # "opened"
        BY <1>1, <1>6, <4>2 DEF Received
      <4> QED BY <4>1, <4>2
    <3> QED BY <1>1, <1>6, <2>1, <3>1 DEF Received, Served
  <2>2. CASE g = active[d]
    <3>1. opened[d] /\ told[d] = g /\ NoChange(d) /\ ~MidOpen(d)
      BY <2>2 DEF Served
    <3>2. route[d][1].kind \notin Changes /\ route[d][1].kind # "opened"
      BY <1>6, <3>1 DEF Received, NoChange, Changes
    <3>3. session'[d] = session[d] /\ told'[d] = told[d]
      BY <1>6, <3>2 DEF Received
    <3>4. NoChange(d)'
      BY <1>6, <3>1 DEF Received, NoChange
    <3> QED BY <1>1, <1>6, <2>2, <3>1, <3>3, <3>4 DEF Received, Served
  <2> QED BY <2>1, <2>2
<1>7. ASSUME NEW e \in EventType, Noted(d, e) PROVE Served(d, g)'
  <2>1. NoChange(d) => NoChange(d)'
    BY <1>7 DEF Noted, Pushed, NoChange, Changes
  <2> QED BY <1>1, <1>7, <2>1 DEF Noted, Kept, Served
<1>8. ASSUME NEW e \in EventType, Cleared(d, e) PROVE Served(d, g)'
  BY <1>1, <1>8 DEF Cleared, Kept, Served
<1>9. ASSUME NEW e \in EventType, Ended(d, e) PROVE Served(d, g)'
  <2>1. CASE MidOpen(d)
    BY <1>1, <1>9, <2>1 DEF Ended, Kept, Served
  <2>2. CASE ~MidOpen(d)
    <3>1. opened'[d] = opened[d] /\ e.kind \in {"discarded", "ready", "failed", "cancelled", "nodocument"}
      BY <1>9, <2>2 DEF Ended
    <3>2. NoChange(d) => NoChange(d)'
      BY <1>9, <3>1 DEF Ended, NoChange, Changes
    <3> QED BY <1>1, <1>9, <3>1, <3>2 DEF Ended, Kept, Served
  <2> QED BY <2>1, <2>2
<1> QED BY <1>2, <1>3, <1>4, <1>5, <1>6, <1>7, <1>8, <1>9 DEF Moves

\* The stream of a document stays in order
LEMMA StreamKept ==
  ASSUME TypeInv, TypeInv', NEW d \in Doc, DocStream(d), Moves(d)
  PROVE  DocStream(d)'
<1> USE DocTypes
<1>1. /\ Generations(d) /\ FirstHeld(d) /\ RouteOpenings(d) /\ HeldOpenings(d)
      /\ RouteResults(d) /\ HeldResults(d)
  BY DEF DocStream
<1>2. ASSUME session'[d] = session[d] PROVE session'[d] # 0 => Served(d, session[d])'
  BY <1>2, ServedStays DEF DocStream, Served
<1>3. CASE Quiet(d)
  <2>1. session'[d] # 0 => Served(d, session[d])'
    BY <1>2, <1>3 DEF Quiet, Kept
  <2>2. Generations(d)'
    BY <1>1, <1>3 DEF Quiet, Kept, Generations
  <2>3. FirstHeld(d)'
    BY <1>1, <1>3 DEF Quiet, Kept, FirstHeld
  <2>4. RouteOpenings(d)'
    BY <1>1, <1>3 DEF Quiet, Kept, RouteOpenings, Announces
  <2>5. HeldOpenings(d)'
    BY <1>1, <1>3 DEF Quiet, Kept, HeldOpenings, Announces
  <2>6. RouteResults(d)'
    BY <1>1, <1>3 DEF Quiet, Kept, RouteResults
  <2>7. HeldResults(d)'
    BY <1>1, <1>3 DEF Quiet, Kept, HeldResults
  <2> QED BY <2>1, <2>2, <2>3, <2>4, <2>5, <2>6, <2>7 DEF DocStream
<1>4. CASE Deaf(d)
  <2>1. session'[d] # 0 => Served(d, session[d])'
    BY <1>2, <1>4 DEF Deaf, Kept
  <2>2. Generations(d)'
    BY <1>1, <1>4 DEF Deaf, Kept, Generations
  <2>3. FirstHeld(d)'
    BY <1>1, <1>4 DEF Deaf, Kept, FirstHeld
  <2>4. RouteOpenings(d)'
    BY <1>1, <1>4 DEF Deaf, Kept, RouteOpenings, Announces
  <2>5. HeldOpenings(d)'
    BY <1>1, <1>4 DEF Deaf, Kept, HeldOpenings, Announces
  <2>6. RouteResults(d)'
    BY <1>1, <1>4 DEF Deaf, Kept, RouteResults
  <2>7. HeldResults(d)'
    BY <1>1, <1>4 DEF Deaf, Kept, HeldResults
  <2> QED BY <2>1, <2>2, <2>3, <2>4, <2>5, <2>6, <2>7 DEF DocStream
<1>5. CASE Begun(d)
  <2>1. session'[d] # 0 => Served(d, session[d])'
    BY <1>2, <1>5 DEF Begun
  <2>2. Generations(d)'
    BY <1>1, <1>5 DEF Begun, Generations
  <2>3. FirstHeld(d)'
    BY <1>1, <1>5 DEF Begun, FirstHeld
  <2>4. RouteOpenings(d)'
    <3> SUFFICES ASSUME NEW j \in DOMAIN route[d], route[d][j].kind = "opened"
                 PROVE  /\ route[d][j].gen > session[d] /\ route[d][j].gen # active'[d]
                        /\ \A i \in DOMAIN route[d] : i < j => route[d][i].gen < route[d][j].gen
      BY <1>5 DEF Begun, RouteOpenings, Announces
    <3>1. route[d][j].gen # active'[d]
      BY <1>1, <1>5 DEF Begun, Generations
    <3> QED BY <1>1, <3>1 DEF RouteOpenings, Announces
  <2>5. HeldOpenings(d)'
    BY <1>1, <1>5 DEF Begun, HeldOpenings, Announces
  <2>6. RouteResults(d)'
    BY <1>1, <1>5 DEF Begun, RouteResults
  <2>7. HeldResults(d)'
    BY <1>1, <1>5 DEF Begun, HeldResults
  <2> QED BY <2>1, <2>2, <2>3, <2>4, <2>5, <2>6, <2>7 DEF DocStream
<1>6. CASE Flushed(d)
  <2> DEFINE n == Len(route[d])
  <2>10. /\ ~MidOpen(d)' /\ session'[d] = session[d] /\ told'[d] = told[d]
         /\ nextGeneration'[d] = nextGeneration[d] /\ active'[d] = active[d]
         /\ opened'[d] = opened[d]
    BY <1>6 DEF Flushed, Kept
  <2>11. \A i \in DOMAIN pendingEvents'[d] :
           /\ i + 1 \in DOMAIN pendingEvents[d] /\ i + 1 # 1 /\ i + 1 > 1
           /\ pendingEvents'[d][i] = pendingEvents[d][i + 1]
    BY <1>6 DEF Flushed
  <2>12. \A i \in DOMAIN route'[d] :
           \/ i \in DOMAIN route[d] /\ i < n + 1 /\ route'[d][i] = route[d][i]
           \/ i \notin DOMAIN route[d] /\ i = n + 1 /\ route'[d][i] = pendingEvents[d][1]
    BY <1>6 DEF Flushed
  <2>13. 1 \in DOMAIN pendingEvents[d]
    BY <1>6 DEF Flushed
  <2>14. n \in Nat /\ \A i \in DOMAIN route'[d] : i \in Nat
    BY <1>6 DEF Flushed
  <2> HIDE DEF n
  <2>1. session'[d] # 0 => Served(d, session[d])'
    BY <1>2, <1>6 DEF Flushed, Kept
  <2>2. Generations(d)'
    BY <1>1, <2>10, <2>11, <2>12, <2>13 DEF Generations
  <2>3. FirstHeld(d)'
    BY <1>1, <2>11 DEF FirstHeld
  <2>4. RouteOpenings(d)'
    <3> SUFFICES ASSUME NEW j \in DOMAIN route'[d], route'[d][j].kind = "opened"
                 PROVE  /\ Announces(d, route'[d][j])
                        /\ \A i \in DOMAIN route'[d] : i < j => route'[d][i].gen < route'[d][j].gen
                        /\ route'[d][j].gen = active[d] =>
                             /\ \A i \in DOMAIN route'[d] : i > j => route'[d][i].kind \notin Changes
                             /\ \A i \in DOMAIN pendingEvents'[d] :
                                  pendingEvents'[d][i].kind \notin Changes
      BY <2>10 DEF RouteOpenings, Announces
    <3>1. CASE j \in DOMAIN route[d]
      <4>1. j < n + 1 /\ route'[d][j] = route[d][j]
        BY <2>12, <3>1
      <4>2. /\ Announces(d, route[d][j])
            /\ \A i \in DOMAIN route[d] : i < j => route[d][i].gen < route[d][j].gen
            /\ route[d][j].gen = active[d] =>
                 /\ \A i \in DOMAIN route[d] : i > j => route[d][i].kind \notin Changes
                 /\ \A i \in DOMAIN pendingEvents[d] : pendingEvents[d][i].kind \notin Changes
        BY <1>1, <3>1, <4>1 DEF RouteOpenings
      <4>3. \A i \in DOMAIN route'[d] : i < j => i \in DOMAIN route[d] /\ route'[d][i] = route[d][i]
        BY <2>12, <2>14, <3>1, <4>1
      <4> QED BY <2>11, <2>12, <2>13, <4>1, <4>2, <4>3
    <3>2. CASE j \notin DOMAIN route[d]
      <4>1. j = n + 1 /\ route'[d][j] = pendingEvents[d][1]
        BY <2>12, <3>2
      <4>2. /\ Announces(d, pendingEvents[d][1])
            /\ \A i \in DOMAIN route[d] : route[d][i].gen < pendingEvents[d][1].gen
            /\ pendingEvents[d][1].gen = active[d] =>
                 \A i \in DOMAIN pendingEvents[d] : i > 1 => pendingEvents[d][i].kind \notin Changes
        BY <1>1, <2>13, <4>1 DEF HeldOpenings
      <4>3. \A i \in DOMAIN route'[d] : i < j => i \in DOMAIN route[d] /\ route'[d][i] = route[d][i]
        BY <2>12, <2>14, <4>1
      <4>4. \A i \in DOMAIN route'[d] : ~(i > j)
        BY <2>12, <2>14, <4>1
      <4> QED BY <2>11, <4>1, <4>2, <4>3, <4>4
    <3> QED BY <3>1, <3>2
  <2>5. HeldOpenings(d)'
    <3>1. \A j \in DOMAIN pendingEvents'[d] : pendingEvents'[d][j].kind # "opened"
      BY <1>1, <2>11 DEF FirstHeld
    <3> QED BY <3>1 DEF HeldOpenings
  <2>6. RouteResults(d)'
    <3> SUFFICES ASSUME NEW j \in DOMAIN route'[d], route'[d][j].kind \in Results
                 PROVE  /\ route'[d][j].gen = told[d] /\ route'[d][j].kind # "nodocument"
                        /\ \A i \in DOMAIN route'[d] : i < j => route'[d][i].kind \notin Changes
      BY <2>10 DEF RouteResults
    <3>1. CASE j \in DOMAIN route[d]
      <4>1. j < n + 1 /\ route'[d][j] = route[d][j]
        BY <2>12, <3>1
      <4>2. \A i \in DOMAIN route'[d] : i < j => i \in DOMAIN route[d] /\ route'[d][i] = route[d][i]
        BY <2>12, <2>14, <3>1, <4>1
      <4> QED BY <1>1, <3>1, <4>1, <4>2 DEF RouteResults
    <3>2. CASE j \notin DOMAIN route[d]
      <4>1. j = n + 1 /\ route'[d][j] = pendingEvents[d][1]
        BY <2>12, <3>2
      <4>2. \A i \in DOMAIN route'[d] : i < j => i \in DOMAIN route[d] /\ route'[d][i] = route[d][i]
        BY <2>12, <2>14, <4>1
      <4> QED BY <1>1, <2>13, <4>1, <4>2 DEF HeldResults
    <3> QED BY <3>1, <3>2
  <2>7. HeldResults(d)'
    <3>1. \A j \in DOMAIN pendingEvents'[d] : pendingEvents'[d][j].kind \notin Results
      BY <1>1, <2>11 DEF FirstHeld
    <3> QED BY <3>1 DEF HeldResults
  <2> QED BY <2>1, <2>2, <2>3, <2>4, <2>5, <2>6, <2>7 DEF DocStream
<1>7. CASE Received(d)
  <2> DEFINE h == route[d][1]
  <2>10. /\ nextGeneration'[d] = nextGeneration[d] /\ active'[d] = active[d]
         /\ opened'[d] = opened[d] /\ pendingEvents'[d] = pendingEvents[d]
         /\ MidOpen(d)' => MidOpen(d)
         /\ session'[d] = IF h.kind = "opened" THEN h.gen ELSE session[d]
         /\ h.kind = "opened" => told'[d] = h.gen
         /\ h.kind \notin Changes => told'[d] = told[d]
         /\ 1 \in DOMAIN route[d] /\ h.gen \in Nat /\ h = route[d][1]
    BY <1>7 DEF Received, Changes
  <2>11. \A i \in DOMAIN route'[d] :
           /\ i \in Nat /\ i + 1 \in DOMAIN route[d] /\ i + 1 > 1 /\ 1 < i + 1
           /\ route'[d][i] = route[d][i + 1]
    BY <1>7 DEF Received
  <2> HIDE DEF h
  <2>1. session'[d] # 0 => Served(d, session[d])'
    <3>1. CASE h.kind # "opened"
      BY <1>2, <2>10, <3>1
    <3>2. CASE h.kind = "opened"
      <4>1. session'[d] = h.gen /\ told'[d] = h.gen
        BY <2>10, <3>2
      <4>2. /\ Announces(d, h)
            /\ h.gen = active[d] =>
                 /\ \A i \in DOMAIN route[d] : i > 1 => route[d][i].kind \notin Changes
                 /\ \A i \in DOMAIN pendingEvents[d] : pendingEvents[d][i].kind \notin Changes
        BY <1>1, <2>10, <3>2 DEF RouteOpenings
      <4>3. h.gen = active[d] => NoChange(d)'
        BY <2>10, <2>11, <4>2 DEF NoChange
      <4>4. h.gen \in Nat /\ session'[d] <= session'[d]
        BY <2>10, <4>1
      <4> QED BY <2>10, <4>1, <4>2, <4>3, <4>4 DEF Served, Announces
    <3> QED BY <3>1, <3>2
  <2>2. Generations(d)'
    BY <1>1, <1>7 DEF Received, Generations
  <2>3. FirstHeld(d)'
    BY <1>1, <1>7 DEF Received, FirstHeld
  <2>4. RouteOpenings(d)'
    <3> SUFFICES ASSUME NEW j \in DOMAIN route'[d], route'[d][j].kind = "opened"
                 PROVE  /\ route'[d][j].gen > session'[d]
                        /\ route'[d][j].gen = active[d] => opened'[d] /\ ~MidOpen(d)'
                        /\ \A i \in DOMAIN route'[d] : i < j => route'[d][i].gen < route'[d][j].gen
                        /\ route'[d][j].gen = active[d] =>
                             /\ \A i \in DOMAIN route'[d] : i > j => route'[d][i].kind \notin Changes
                             /\ \A i \in DOMAIN pendingEvents[d] :
                                  pendingEvents[d][i].kind \notin Changes
      BY <2>10 DEF RouteOpenings, Announces
    <3>1. j + 1 \in DOMAIN route[d] /\ j + 1 > 1 /\ route'[d][j] = route[d][j + 1]
      BY <2>11
    <3>2. /\ Announces(d, route[d][j + 1])
          /\ \A i \in DOMAIN route[d] : i < j + 1 => route[d][i].gen < route[d][j + 1].gen
          /\ route[d][j + 1].gen = active[d] =>
               /\ \A i \in DOMAIN route[d] : i > j + 1 => route[d][i].kind \notin Changes
               /\ \A i \in DOMAIN pendingEvents[d] : pendingEvents[d][i].kind \notin Changes
      BY <1>1, <3>1 DEF RouteOpenings
    <3>3. h.gen < route[d][j + 1].gen /\ session[d] < route[d][j + 1].gen
      BY <2>10, <3>1, <3>2 DEF Announces
    <3>4. session'[d] < route'[d][j].gen
      BY <2>10, <3>1, <3>3
    <3>5. /\ route'[d][j].gen > session'[d]
          /\ route'[d][j].gen = active[d] => opened'[d] /\ ~MidOpen(d)'
      BY <2>10, <3>1, <3>2, <3>4 DEF Announces
    <3>6. \A i \in DOMAIN route'[d] : /\ i < j => i + 1 < j + 1
                                      /\ i > j => i + 1 > j + 1
      BY <2>11
    <3> QED BY <2>11, <3>1, <3>2, <3>5, <3>6
  <2>5. HeldOpenings(d)'
    <3> SUFFICES ASSUME NEW j \in DOMAIN pendingEvents[d], pendingEvents[d][j].kind = "opened"
                 PROVE  /\ session'[d] < pendingEvents[d][j].gen
                        /\ pendingEvents[d][j].gen = active[d] => opened'[d] /\ ~MidOpen(d)'
                        /\ \A i \in DOMAIN route'[d] : route'[d][i].gen < pendingEvents[d][j].gen
                        /\ pendingEvents[d][j].gen = active[d] =>
                             \A i \in DOMAIN pendingEvents[d] :
                               i > j => pendingEvents[d][i].kind \notin Changes
      BY <2>10 DEF HeldOpenings, Announces
    <3>1. /\ Announces(d, pendingEvents[d][j])
          /\ \A i \in DOMAIN route[d] : route[d][i].gen < pendingEvents[d][j].gen
          /\ pendingEvents[d][j].gen = active[d] =>
               \A i \in DOMAIN pendingEvents[d] : i > j => pendingEvents[d][i].kind \notin Changes
      BY <1>1 DEF HeldOpenings
    <3> QED BY <2>10, <2>11, <3>1 DEF Announces
  <2>6. RouteResults(d)'
    <3> SUFFICES ASSUME NEW j \in DOMAIN route'[d], route'[d][j].kind \in Results
                 PROVE  /\ route'[d][j].gen = told'[d] /\ route'[d][j].kind # "nodocument"
                        /\ \A i \in DOMAIN route'[d] : i < j => route'[d][i].kind \notin Changes
      BY DEF RouteResults
    <3>1. j + 1 \in DOMAIN route[d] /\ 1 < j + 1 /\ route'[d][j] = route[d][j + 1]
      BY <2>11
    <3>2. /\ route[d][j + 1].gen = told[d] /\ route[d][j + 1].kind # "nodocument"
          /\ \A i \in DOMAIN route[d] : i < j + 1 => route[d][i].kind \notin Changes
      BY <1>1, <3>1 DEF RouteResults
    <3>3. told'[d] = told[d]
      BY <2>10, <3>1, <3>2
    <3>4. \A i \in DOMAIN route'[d] : i < j => i + 1 < j + 1
      BY <2>11
    <3> QED BY <2>11, <3>1, <3>2, <3>3, <3>4
  <2>7. HeldResults(d)'
    <3> SUFFICES ASSUME NEW j \in DOMAIN pendingEvents[d], pendingEvents[d][j].kind \in Results
                 PROVE  /\ pendingEvents[d][j].gen = told'[d]
                        /\ pendingEvents[d][j].kind # "nodocument"
                        /\ \A i \in DOMAIN route'[d] : route'[d][i].kind \notin Changes
      BY <2>10 DEF HeldResults
    <3>1. /\ pendingEvents[d][j].gen = told[d] /\ pendingEvents[d][j].kind # "nodocument"
          /\ \A i \in DOMAIN route[d] : route[d][i].kind \notin Changes
      BY <1>1 DEF HeldResults
    <3>2. told'[d] = told[d]
      BY <2>10, <3>1
    <3> QED BY <2>11, <3>1, <3>2
  <2> QED BY <2>1, <2>2, <2>3, <2>4, <2>5, <2>6, <2>7 DEF DocStream
<1>8. ASSUME NEW e \in EventType, Noted(d, e) PROVE DocStream(d)'
  <2> DEFINE n == Len(pendingEvents[d])
  <2>10. \A i \in DOMAIN pendingEvents'[d] :
           \/ i \in DOMAIN pendingEvents[d] /\ pendingEvents'[d][i] = pendingEvents[d][i]
           \/ i \notin DOMAIN pendingEvents[d] /\ pendingEvents'[d][i] = e
    BY <1>8 DEF Noted, Pushed
  <2>11. /\ session'[d] = session[d] /\ route'[d] = route[d] /\ active'[d] = active[d]
         /\ opened'[d] = opened[d] /\ ~MidOpen(d)' /\ e.kind \notin Changes /\ e.kind # "opened"
         /\ e.kind \notin Results /\ told'[d] = told[d]
    BY <1>8 DEF Noted, Kept, Changes, Results
  <2>1. session'[d] # 0 => Served(d, session[d])'
    BY <1>2, <1>8 DEF Noted, Kept, Pushed, Changes, Results
  <2>2. Generations(d)'
    BY <1>1, <1>8, SMTT(30) DEF Noted, Kept, Pushed, Changes, Results, Generations
  <2>3. FirstHeld(d)'
    BY <1>1, <1>8, SMTT(30) DEF Noted, Kept, Pushed, Changes, Results, FirstHeld
  <2>4. RouteOpenings(d)'
    <3>1. \A i \in DOMAIN pendingEvents'[d] : pendingEvents'[d][i].kind \in Changes =>
            i \in DOMAIN pendingEvents[d] /\ pendingEvents[d][i].kind \in Changes
      BY <2>10, <2>11
    <3> QED BY <1>1, <2>11, <3>1 DEF RouteOpenings, Announces
  <2>5. HeldOpenings(d)'
    <3>1. \A i \in DOMAIN pendingEvents'[d] :
            pendingEvents'[d][i].kind \in Changes \/ pendingEvents'[d][i].kind = "opened" =>
            i \in DOMAIN pendingEvents[d] /\ pendingEvents'[d][i] = pendingEvents[d][i]
      BY <2>10, <2>11
    <3> QED BY <1>1, <2>11, <3>1 DEF HeldOpenings, Announces
  <2>6. RouteResults(d)'
    BY <1>1, <1>8 DEF Noted, Kept, Pushed, Changes, Results, RouteResults
  <2>7. HeldResults(d)'
    <3>1. \A i \in DOMAIN pendingEvents'[d] : pendingEvents'[d][i].kind \in Results =>
            i \in DOMAIN pendingEvents[d] /\ pendingEvents'[d][i] = pendingEvents[d][i]
      BY <2>10, <2>11
    <3> QED BY <1>1, <2>11, <3>1 DEF HeldResults
  <2> QED BY <2>1, <2>2, <2>3, <2>4, <2>5, <2>6, <2>7 DEF DocStream
<1>9. ASSUME NEW e \in EventType, Cleared(d, e) PROVE DocStream(d)'
  <2> DEFINE n == Len(pendingEvents[d])
  <2>10. \A i \in DOMAIN pendingEvents'[d] :
           \/ i \in DOMAIN pendingEvents[d] /\ pendingEvents'[d][i] = pendingEvents[d][i]
           \/ i \notin DOMAIN pendingEvents[d] /\ pendingEvents'[d][i] = e
    BY <1>9 DEF Cleared, Pushed
  <2>11. /\ session'[d] = session[d] /\ route'[d] = route[d] /\ active'[d] = 0
         /\ nextGeneration'[d] = nextGeneration[d] /\ ~MidOpen(d)'
         /\ (\E i \in DOMAIN pendingEvents'[d] : i \notin DOMAIN pendingEvents[d]) =>
              e.kind = "closed" /\ e.gen = active[d]
    BY <1>9 DEF Cleared, Kept, Pushed
  <2>1. session'[d] # 0 => Served(d, session[d])'
    BY <1>2, <1>9 DEF Cleared, Kept, Pushed, Changes, Results
  <2>2. Generations(d)'
    BY <1>1, <2>10, <2>11 DEF Generations
  <2>3. FirstHeld(d)'
    BY <1>1, <1>9 DEF Cleared, Kept, Pushed, Changes, Results, FirstHeld
  <2>4. RouteOpenings(d)'
    BY <1>1, <1>9 DEF Cleared, Kept, Pushed, Changes, Results, RouteOpenings, Announces
  <2>5. HeldOpenings(d)'
    <3>1. \A i \in DOMAIN pendingEvents'[d] : pendingEvents'[d][i].kind = "opened" =>
            i \in DOMAIN pendingEvents[d] /\ pendingEvents'[d][i] = pendingEvents[d][i]
      BY <2>10, <2>11
    <3> SUFFICES ASSUME NEW j \in DOMAIN pendingEvents'[d], pendingEvents'[d][j].kind = "opened"
                 PROVE  /\ pendingEvents'[d][j].gen > session[d] /\ pendingEvents'[d][j].gen # 0
                        /\ \A i \in DOMAIN route[d] : route[d][i].gen < pendingEvents'[d][j].gen
      BY <2>11 DEF HeldOpenings, Announces
    <3>2. j \in DOMAIN pendingEvents[d] /\ pendingEvents'[d][j] = pendingEvents[d][j]
      BY <3>1
    <3>3. /\ pendingEvents[d][j].gen > session[d]
          /\ \A i \in DOMAIN route[d] : route[d][i].gen < pendingEvents[d][j].gen
      BY <1>1, <3>2 DEF HeldOpenings, Announces
    <3>4. session[d] \in Nat /\ pendingEvents[d][j].gen \in Nat
      BY <3>2
    <3> QED BY <3>2, <3>3, <3>4
  <2>6. RouteResults(d)'
    BY <1>1, <1>9 DEF Cleared, Kept, Pushed, Changes, Results, RouteResults
  <2>7. HeldResults(d)'
    BY <1>1, <1>9, SMTT(30) DEF Cleared, Kept, Pushed, Changes, Results, HeldResults
  <2> QED BY <2>1, <2>2, <2>3, <2>4, <2>5, <2>6, <2>7 DEF DocStream
<1>10. ASSUME NEW e \in EventType, Ended(d, e) PROVE DocStream(d)'
  <2>1. session'[d] # 0 => Served(d, session[d])'
    BY <1>2, <1>10 DEF Ended, Kept, Served, Changes, Results, NoChange
  <2>2. Generations(d)'
    BY <1>1, <1>10 DEF Ended, Kept, Served, Changes, Results, NoChange, Generations
  <2>3. FirstHeld(d)'
    BY <1>1, <1>10 DEF Ended, Kept, Served, Changes, Results, NoChange, FirstHeld
  <2>4. RouteOpenings(d)'
    BY <1>1, <1>10 DEF Ended, Kept, Served, Changes, Results, NoChange, RouteOpenings, Announces
  <2>5. HeldOpenings(d)'
    <3> SUFFICES ASSUME e.kind = "opened"
                 PROVE  /\ e.gen > session[d] /\ opened'[d]
                        /\ \A i \in DOMAIN route[d] : route[d][i].gen < e.gen
      BY <1>10 DEF Ended, Kept, HeldOpenings, Announces
    <3>1. MidOpen(d) /\ e.gen = active[d] /\ opened'[d]
      BY <1>10 DEF Ended
    <3>2. session[d] < active[d] /\ \A i \in DOMAIN route[d] : route[d][i].gen < active[d]
      BY <1>1, <3>1 DEF Generations
    <3> QED BY <3>1, <3>2
  <2>6. RouteResults(d)'
    BY <1>1, <1>10 DEF Ended, Kept, Served, Changes, Results, NoChange, RouteResults
  <2>7. HeldResults(d)'
    BY <1>1, <1>10 DEF Ended, Kept, Served, Changes, Results, NoChange, HeldResults
  <2> QED BY <2>1, <2>2, <2>3, <2>4, <2>5, <2>6, <2>7 DEF DocStream
<1> QED BY <1>3, <1>4, <1>5, <1>6, <1>7, <1>8, <1>9, <1>10 DEF Moves

\* Taking the first entry of a sequence of events, and adding one at its end
LEMMA EventSeqs ==
  ASSUME NEW s \in Seq(EventType)
  PROVE  /\ DOMAIN s = 1..Len(s) /\ Len(s) \in Nat
         /\ s # <<>> => /\ 1 \in DOMAIN s /\ Head(s) = s[1] /\ Tail(s) \in Seq(EventType)
                        /\ DOMAIN Tail(s) = 1..Len(Tail(s))
                        /\ \A i \in DOMAIN Tail(s) : i + 1 \in DOMAIN s /\ Tail(s)[i] = s[i + 1]
         /\ \A e \in EventType :
              /\ DOMAIN Append(s, e) = 1..(Len(s) + 1) /\ Append(s, e)[Len(s) + 1] = e
              /\ \A i \in DOMAIN s : Append(s, e)[i] = s[i]
<1>1. DOMAIN s = 1..Len(s) /\ Len(s) \in Nat
  BY LenProperties
<1>2. ASSUME s # <<>>
      PROVE  /\ 1 \in DOMAIN s /\ Head(s) = s[1] /\ Tail(s) \in Seq(EventType)
             /\ DOMAIN Tail(s) = 1..Len(Tail(s))
             /\ \A i \in DOMAIN Tail(s) : i + 1 \in DOMAIN s /\ Tail(s)[i] = s[i + 1]
  BY <1>1, <1>2, HeadTailProperties
<1>3. ASSUME NEW e \in EventType
      PROVE  /\ DOMAIN Append(s, e) = 1..(Len(s) + 1) /\ Append(s, e)[Len(s) + 1] = e
             /\ \A i \in DOMAIN s : Append(s, e)[i] = s[i]
  BY <1>1, AppendProperties
<1> QED BY <1>1, <1>2, <1>3

\* What the steps of the clients do to the streams
LEMMA ClientMoves ==
  ASSUME TypeInv, ClientStep, NEW x \in Doc
  PROVE  Moves(x)
<1>1. UNCHANGED ownerVars
  BY ClientFrame
<1>2. /\ UNCHANGED <<pc, job, pendingEvents, active, opened, nextGeneration>>
      /\ MidOpen(x)' = MidOpen(x)
  BY <1>1 DEF ownerVars, docVars, MidOpen
<1>3. ASSUME UNCHANGED <<session, told>>, route'[x] = route[x] PROVE Moves(x)
  BY <1>2, <1>3 DEF Moves, Quiet, Kept
<1>4. ASSUME NEW d \in Doc, Receive(d) PROVE Moves(x)
  <2>1. /\ route[d] \in Seq(EventType) /\ route[d] # <<>>
        /\ route \in [Doc -> Seq(EventType)] /\ session \in [Doc -> Nat] /\ told \in [Doc -> Nat]
    BY <1>4 DEF Receive, TypeInv
  <2>2. /\ 1 \in DOMAIN route[d] /\ Head(route[d]) = route[d][1]
        /\ DOMAIN route[d] = 1..Len(route[d])
        /\ DOMAIN Tail(route[d]) = 1..Len(Tail(route[d]))
        /\ \A i \in DOMAIN Tail(route[d]) : i + 1 \in DOMAIN route[d]
                                            /\ Tail(route[d])[i] = route[d][i + 1]
    BY <2>1, EventSeqs
  <2>3. /\ route' = [route EXCEPT ![d] = Tail(route[d])]
        /\ session' = [session EXCEPT ![d] = IF Head(route[d]).kind = "opened"
                                             THEN Head(route[d]).gen ELSE session[d]]
        /\ told' = [told EXCEPT ![d] = IF Head(route[d]).kind \in Changes
                                       THEN Announced(Head(route[d])) ELSE told[d]]
    BY <1>4 DEF Receive
  <2>4. CASE x = d
    <3>1. /\ route'[d] = Tail(route[d])
          /\ session'[d] = IF route[d][1].kind = "opened" THEN route[d][1].gen ELSE session[d]
          /\ told'[d] = IF route[d][1].kind \in Changes THEN Announced(route[d][1]) ELSE told[d]
      BY <2>1, <2>2, <2>3
    <3>2. told'[d] = IF route[d][1].kind = "opened" THEN route[d][1].gen
                     ELSE IF route[d][1].kind \in Changes THEN 0 ELSE told[d]
      BY <3>1 DEF Announced, Changes
    <3> QED BY <1>2, <2>2, <2>4, <3>1, <3>2 DEF Moves, Received
  <2>5. CASE x # d
    <3>1. route'[x] = route[x] /\ session'[x] = session[x] /\ told'[x] = told[x]
      BY <2>1, <2>3, <2>5
    <3> QED BY <1>2, <3>1 DEF Moves, Quiet, Kept
  <2> QED BY <2>4, <2>5
<1>5. ASSUME NEW d \in Doc, StopListening(d) PROVE Moves(x)
  <2>1. route' = [route EXCEPT ![d] = <<>>] /\ UNCHANGED <<session, told>>
    BY <1>5 DEF StopListening, clientVars
  <2>2. CASE x = d
    BY <1>2, <2>1, <2>2 DEF Moves, Deaf, Kept, TypeInv
  <2>3. CASE x # d
    BY <1>3, <2>1, <2>3 DEF TypeInv
  <2> QED BY <2>2, <2>3
<1>6. ASSUME NEW d \in Doc, Attach(d) \/ DropClient(d) \/ SendDetach(d) PROVE Moves(x)
  BY <1>3, <1>6 DEF Attach, DropClient, SendDetach
<1>7. ASSUME NEW d \in Doc, NEW t \in Thread,
             EnterOpen(d, t) \/ EnterClose(d, t) \/ SendCall(d, t)
      PROVE  Moves(x)
  BY <1>3, <1>7 DEF EnterOpen, EnterClose, SendCall, Enter
<1>8. ASSUME NEW d \in Doc, NEW t \in Thread, NEW c \in Class, EnterCancel(d, t, c)
      PROVE  Moves(x)
  BY <1>3, <1>8 DEF EnterCancel, Enter
<1>9. ASSUME NEW d \in Doc, NEW t \in Thread, NEW c \in Class, NEW b \in Batch,
             EnterReplace(d, t, c, b)
      PROVE  Moves(x)
  BY <1>3, <1>9 DEF EnterReplace, Enter
<1>10. CASE DropHandle \/ SendShutdown
  BY <1>3, <1>10 DEF DropHandle, SendShutdown, sharedVars
<1> QED BY <1>4, <1>5, <1>6, <1>7, <1>8, <1>9, <1>10 DEF ClientStep

\* What the steps of the owner do to the streams
LEMMA OwnerMoves ==
  ASSUME TypeInv, Demands, JobInv, OwnerStep, NEW x \in Doc
  PROVE  Moves(x)
<1> DEFINE c == Head(commands)
<1>1. UNCHANGED <<session, told>>
  BY OwnerFrame DEF clientVars
<1>2. pc' # "engine" => ~MidOpen(x)'
  BY DEF MidOpen
<1>3. ASSUME route'[x] = route[x], pendingEvents'[x] = pendingEvents[x],
             active'[x] = active[x], opened'[x] = opened[x],
             nextGeneration'[x] = nextGeneration[x], MidOpen(x)' => MidOpen(x)
      PROVE  Moves(x)
  BY <1>1, <1>3 DEF Moves, Quiet, Kept
<1>4. ASSUME NEW e \in EventType, Push(x, e), e.kind \in {"attached", "rejected"}, e.gen = 0,
             route'[x] = route[x], active'[x] = active[x], opened'[x] = opened[x],
             nextGeneration'[x] = nextGeneration[x], pc' # "engine"
      PROVE  Moves(x)
  <2>1. Pushed(x, e)
    BY <1>4, PushEvent DEF Pushed
  <2> QED BY <1>1, <1>2, <1>4, <2>1 DEF Moves, Noted, Kept
<1>5. ASSUME route'[x] = route[x], active'[x] = 0, nextGeneration'[x] = nextGeneration[x],
             pc' # "engine",
             pendingEvents'[x] = <<>> \/ pendingEvents'[x] = pendingEvents[x]
      PROVE  Moves(x)
  <2>1. Event("closed", 0, 0) \in EventType
    BY EventIn, BoundAssumption DEF Changes
  <2> QED BY <1>1, <1>2, <1>5, <2>1 DEF Moves, Cleared, Kept
<1>6. CASE AcceptAttach
  <2>1. c.doc \in Doc /\ route' = route
    BY <1>6, Accepted, CommandFields DEF AcceptAttach
  <2>2. /\ Push(c.doc, Event("attached", 0, 0)) /\ pc' = "drain"
        /\ UNCHANGED <<active, opened, nextGeneration>>
    BY <1>6 DEF AcceptAttach
  <2>3. /\ Event("attached", 0, 0) \in EventType /\ Event("attached", 0, 0).kind = "attached"
        /\ Event("attached", 0, 0).gen = 0
    BY EventIn, BoundAssumption
  <2>4. CASE x = c.doc
    BY <1>4, <2>1, <2>2, <2>3, <2>4
  <2>5. CASE x # c.doc
    <3>1. pendingEvents'[x] = pendingEvents[x]
      BY <2>1, <2>2, <2>3, <2>5, PushEvent
    <3> QED BY <1>2, <1>3, <2>1, <2>2, <3>1
  <2> QED BY <2>4, <2>5
<1>7. CASE AcceptOpen
  <2>1. c.doc \in Doc /\ route' = route
    BY <1>7, Accepted, CommandFields DEF AcceptOpen
  <2>2. pc' = "drain" /\ UNCHANGED <<nextGeneration, pendingEvents>>
    BY <1>7 DEF AcceptOpen
  <2>3. \/ UNCHANGED <<active, opened>>
        \/ active' = [active EXCEPT ![c.doc] = 0] /\ opened' = [opened EXCEPT ![c.doc] = FALSE]
    BY <1>7 DEF AcceptOpen, CancelAndClear
  <2>4. \/ active'[x] = active[x] /\ opened'[x] = opened[x]
        \/ active'[x] = 0
    BY <2>1, <2>3 DEF TypeInv
  <2> QED BY <1>2, <1>3, <1>5, <2>1, <2>2, <2>4
<1>8. CASE AcceptClose
  <2>1. c.doc \in Doc /\ route' = route
    BY <1>8, Accepted, CommandFields DEF AcceptClose
  <2>2. pc' = "drain" /\ UNCHANGED nextGeneration
    BY <1>8 DEF AcceptClose
  <2> DEFINE e == Event("closed", active[c.doc], 0)
  <2>3. e \in EventType /\ e.kind = "closed" /\ e.gen = active[c.doc]
    <3>1. active[c.doc] \in Nat /\ 0 \in 0..MaxCalls /\ "closed" \in Changes
      BY <2>1, BoundAssumption DEF TypeInv, Changes
    <3> QED BY <3>1, EventIn
  <2>4. \/ UNCHANGED <<active, opened, pendingEvents>>
        \/ active' = [active EXCEPT ![c.doc] = 0] /\ opened' = [opened EXCEPT ![c.doc] = FALSE]
           /\ Push(c.doc, e)
    BY <1>8 DEF AcceptClose, CancelAndClear
  <2> HIDE DEF e
  <2>5. CASE UNCHANGED <<active, opened, pendingEvents>>
    BY <1>2, <1>3, <2>1, <2>2, <2>5
  <2>6. CASE active' = [active EXCEPT ![c.doc] = 0] /\ opened' = [opened EXCEPT ![c.doc] = FALSE]
             /\ Push(c.doc, e)
    <3>1. CASE x = c.doc
      <4>1. active'[x] = 0
        BY <2>6, <3>1 DEF TypeInv
      <4>2. Pushed(x, e)
        BY <2>3, <2>6, <3>1, PushEvent DEF Pushed
      <4> QED BY <1>1, <1>2, <2>1, <2>2, <2>3, <3>1, <4>1, <4>2 DEF Moves, Cleared, Kept
    <3>2. CASE x # c.doc
      <4>1. active'[x] = active[x] /\ opened'[x] = opened[x]
        BY <2>1, <2>6, <3>2 DEF TypeInv
      <4>2. pendingEvents'[x] = pendingEvents[x]
        BY <2>1, <2>3, <2>6, <3>2, PushEvent
      <4> QED BY <1>2, <1>3, <2>1, <2>2, <4>1, <4>2
    <3> QED BY <3>1, <3>2
  <2> QED BY <2>4, <2>5, <2>6
<1>9. CASE AcceptReplace \/ AcceptCancelClass
  <2>1. UNCHANGED <<route, pendingEvents, active, opened, nextGeneration>> /\ pc' # "engine"
    BY <1>9 DEF AcceptReplace, AcceptCancelClass, Accept
  <2> QED BY <1>2, <1>3, <2>1
<1>10. ASSUME NEW d \in Doc, RemoveDocument(d), route' = route, pc' # "engine" PROVE Moves(x)
  <2>1. /\ active' = [active EXCEPT ![d] = 0] /\ opened' = [opened EXCEPT ![d] = FALSE]
        /\ pendingEvents' = [pendingEvents EXCEPT ![d] = <<>>]
        /\ nextGeneration' = nextGeneration
    BY <1>10 DEF RemoveDocument, CancelAndClear
  <2>2. CASE x = d
    <3>1. active'[x] = 0 /\ pendingEvents'[x] = <<>>
      BY <2>1, <2>2 DEF TypeInv
    <3> QED BY <1>5, <1>10, <2>1, <3>1
  <2>3. CASE x # d
    <3>1. active'[x] = active[x] /\ opened'[x] = opened[x] /\ pendingEvents'[x] = pendingEvents[x]
      BY <2>1, <2>3 DEF TypeInv
    <3> QED BY <1>2, <1>3, <1>10, <2>1, <3>1
  <2> QED BY <2>2, <2>3
<1>11. CASE AcceptDetach
  <2>1. c.doc \in Doc /\ route' = route
    BY <1>11, Accepted, CommandFields DEF AcceptDetach
  <2> QED BY <1>10, <1>11, <2>1 DEF AcceptDetach
<1>12. CASE AcceptShutdown
  <2>1. /\ route' = route /\ active'[x] = 0 /\ pendingEvents'[x] = <<>>
        /\ nextGeneration' = nextGeneration /\ pc' = "stopped"
    BY <1>12 DEF AcceptShutdown, Accept
  <2> QED BY <1>5, <2>1
<1>13. CASE InsertDone
  <2>1. job.doc \in Doc /\ job.token \in 0..MaxCalls
    BY <1>13 DEF InsertDone, TypeInv, InsertJob
  <2>2. UNCHANGED <<route, active, opened, nextGeneration>> /\ pc' = "drain"
    BY <1>13 DEF InsertDone, sharedVars
  <2> DEFINE e == Event("rejected", 0, job.token)
  <2>3. e \in EventType /\ e.kind = "rejected" /\ e.gen = 0
    BY <2>1, EventIn
  <2>4. Push(job.doc, e) \/ UNCHANGED pendingEvents
    BY <1>13 DEF InsertDone
  <2> HIDE DEF e
  <2>5. CASE UNCHANGED pendingEvents
    BY <1>2, <1>3, <2>2, <2>5
  <2>6. CASE Push(job.doc, e) /\ x = job.doc
    BY <1>4, <2>2, <2>3, <2>6
  <2>7. CASE Push(job.doc, e) /\ x # job.doc
    <3>1. pendingEvents'[x] = pendingEvents[x]
      BY <2>1, <2>3, <2>7, PushEvent
    <3> QED BY <1>2, <1>3, <2>2, <3>1
  <2> QED BY <2>4, <2>5, <2>6, <2>7
<1>14. CASE InsertWork \/ DrainEmpty \/ NothingRunnable \/ IdleTimeout
            \/ (\E d \in Doc : FlushLeave(d)) \/ (\E n \in 1..Len(rotation) : PickWork(n))
  <2>1. UNCHANGED <<route, pendingEvents, active, opened, nextGeneration>>
    BY <1>14 DEF InsertWork, DrainEmpty, NothingRunnable, IdleTimeout, FlushLeave, PickWork,
                 sharedVars, docVars
  <2>2. pc' # "engine"
    BY <1>14 DEF InsertWork, DrainEmpty, NothingRunnable, IdleTimeout, FlushLeave, FlushStep,
                 PickWork
  <2> QED BY <1>2, <1>3, <2>1, <2>2
<1>15. ASSUME NEW d \in Doc, FlushSent(d) PROVE Moves(x)
  <2>1. /\ route[d] \in Seq(EventType) /\ pendingEvents[d] \in Seq(EventType)
        /\ pendingEvents[d] # <<>>
        /\ route \in [Doc -> Seq(EventType)] /\ pendingEvents \in [Doc -> Seq(EventType)]
    BY <1>15 DEF FlushSent, TypeInv
  <2>2. /\ route' = [route EXCEPT ![d] = Append(route[d], Head(pendingEvents[d]))]
        /\ pendingEvents' = [pendingEvents EXCEPT ![d] = Tail(pendingEvents[d])]
        /\ UNCHANGED <<active, opened, nextGeneration>> /\ pc' # "engine"
    BY <1>15 DEF FlushSent, FlushStep
  <2>3. /\ 1 \in DOMAIN pendingEvents[d] /\ Head(pendingEvents[d]) = pendingEvents[d][1]
        /\ DOMAIN pendingEvents[d] = 1..Len(pendingEvents[d])
        /\ DOMAIN Tail(pendingEvents[d]) = 1..Len(Tail(pendingEvents[d]))
        /\ \A i \in DOMAIN Tail(pendingEvents[d]) :
             i + 1 \in DOMAIN pendingEvents[d]
             /\ Tail(pendingEvents[d])[i] = pendingEvents[d][i + 1]
    BY <2>1, EventSeqs
  <2>4. pendingEvents[d][1] \in EventType
    BY <2>1, <2>3
  <2>5. /\ DOMAIN route[d] = 1..Len(route[d]) /\ Len(route[d]) \in Nat
        /\ DOMAIN Append(route[d], pendingEvents[d][1]) = 1..(Len(route[d]) + 1)
        /\ Append(route[d], pendingEvents[d][1])[Len(route[d]) + 1] = pendingEvents[d][1]
        /\ \A i \in DOMAIN route[d] : Append(route[d], pendingEvents[d][1])[i] = route[d][i]
    BY <2>1, <2>4, EventSeqs
  <2>6. CASE x = d
    <3>1. /\ route'[d] = Append(route[d], pendingEvents[d][1])
          /\ pendingEvents'[d] = Tail(pendingEvents[d])
      BY <2>1, <2>2, <2>3
    <3>2. Kept(d) /\ UNCHANGED <<active[d], opened[d]>> /\ ~MidOpen(d)'
      BY <1>1, <1>2, <2>2, <2>6 DEF Kept
    <3>3. Flushed(d)
      BY <2>3, <2>5, <3>1, <3>2, Zenon DEF Flushed
    <3> QED BY <2>6, <3>3 DEF Moves
  <2>7. CASE x # d
    <3>1. route'[x] = route[x] /\ pendingEvents'[x] = pendingEvents[x]
      BY <2>1, <2>2, <2>7
    <3> QED BY <1>2, <1>3, <2>2, <3>1
  <2> QED BY <2>6, <2>7
<1>16. ASSUME NEW d \in Doc, FlushDisconnected(d) PROVE Moves(x)
  BY <1>10, <1>16 DEF FlushDisconnected, FlushStep
<1>17. CASE StartOpen
  <2>1. job.doc \in Doc /\ pendingEvents[job.doc] = <<>> /\ pc = "start"
    BY <1>17 DEF StartOpen, TypeInv, RunJob, JobInv
  <2>2. /\ opened' = [opened EXCEPT ![job.doc] = FALSE]
        /\ active' = [active EXCEPT ![job.doc] = nextGeneration[job.doc]]
        /\ nextGeneration' = [nextGeneration EXCEPT ![job.doc] = nextGeneration[job.doc] + 1]
        /\ UNCHANGED <<route, pendingEvents, job>>
    BY <1>17 DEF StartOpen, sharedVars
  <2>3. CASE x = job.doc
    <3>1. active'[x] = nextGeneration[x] /\ nextGeneration'[x] = nextGeneration[x] + 1
      BY <2>1, <2>2, <2>3 DEF TypeInv
    <3> QED BY <1>1, <2>1, <2>2, <2>3, <3>1 DEF Moves, Begun
  <2>4. CASE x # job.doc
    <3>1. active'[x] = active[x] /\ opened'[x] = opened[x]
          /\ nextGeneration'[x] = nextGeneration[x]
      BY <2>1, <2>2, <2>4 DEF TypeInv
    <3>2. ~MidOpen(x)'
      BY <2>2, <2>4 DEF MidOpen
    <3> QED BY <1>3, <2>2, <3>1, <3>2
  <2> QED BY <2>3, <2>4
<1>18. CASE StartWork
  <2>1. UNCHANGED <<route, pendingEvents, active, opened, nextGeneration>> /\ ~MidOpen(x)'
    BY <1>18 DEF StartWork, IsOpen, MidOpen, sharedVars, docVars
  <2> QED BY <1>3, <2>1
\* How a job ends
<1>19. ASSUME NEW kind \in Results \cup Changes \cup {"discarded"}, pc \in {"start", "engine"},
              EndJob(kind), \A y \in Doc \ {job.doc} : opened'[y] = opened[y],
              \/ /\ pc = "engine" /\ IsOpen /\ kind \in {"opened", "openfailed", "opencancelled"}
                 /\ kind = "opened" => opened'[job.doc]
              \/ /\ ~IsOpen /\ opened'[job.doc] = opened[job.doc]
                 /\ \/ kind = "discarded"
                    \/ /\ kind \in {"ready", "failed", "cancelled", "nodocument"}
                       /\ Current /\ (kind = "nodocument" => ~opened[job.doc])
       PROVE  Moves(x)
  <2> DEFINE g == IF IsOpen THEN active[job.doc] ELSE job.work.gen
             e == Event(kind, g, job.work.token)
  <2>1. job.doc \in Doc /\ job.work \in Work /\ pendingEvents[job.doc] = <<>>
    BY <1>19 DEF TypeInv, RunJob, JobInv
  <2>2. g \in Nat /\ job.work.token \in 0..MaxCalls
    <3>1. job.work.gen \in Nat /\ job.work.token \in 0..MaxCalls
      BY <2>1, WorkFields
    <3>2. active[job.doc] \in Nat
      BY <2>1 DEF TypeInv
    <3> QED BY <3>1, <3>2
  <2>3. /\ IsOpen => g = active[job.doc]
        /\ ~IsOpen => g = job.work.gen
    OBVIOUS
  <2>4. Push(job.doc, e) /\ pc' = "drain"
        /\ UNCHANGED <<route, active, nextGeneration>>
    BY <1>19 DEF EndJob, sharedVars
  <2> HIDE DEF g
  <2>5. e \in EventType /\ e.kind = kind /\ e.gen = g
    <3>1. kind \in Results \cup Changes \cup {"attached", "rejected", "discarded"}
      OBVIOUS
    <3>2. e \in EventType
      BY <2>2, <3>1, EventIn, Zenon
    <3>3. e.kind = kind /\ e.gen = g
      BY DEF Event
    <3> QED BY <3>2, <3>3
  <2> HIDE DEF e
  <2>6. CASE x # job.doc
    <3>1. pendingEvents'[x] = pendingEvents[x]
      BY <2>1, <2>4, <2>5, <2>6, PushEvent
    <3> QED BY <1>2, <1>3, <1>19, <2>4, <2>6, <3>1
  <2>7. CASE x = job.doc
    <3>1. Pushed(x, e) /\ Len(pendingEvents[x]) = 0
      BY <2>1, <2>4, <2>5, <2>7, PushEvent DEF Pushed
    <3>2. DOMAIN pendingEvents'[x] = {1} /\ pendingEvents'[x][1] = e
      BY <3>1 DEF Pushed
    <3>3. MidOpen(x) <=> pc = "engine" /\ IsOpen
      BY <2>7 DEF MidOpen, IsOpen
    <3>4. ~IsOpen => Served(x, g)
      BY <1>19, <2>3, <2>7 DEF Demands, IsOpen
    <3>5. Kept(x) /\ UNCHANGED <<route[x], active[x]>> /\ ~MidOpen(x)'
      BY <1>1, <1>2, <2>4 DEF Kept
    <3>6. \/ /\ MidOpen(x) /\ e.gen = active[x]
             /\ e.kind \in {"opened", "openfailed", "opencancelled"}
             /\ e.kind = "opened" => opened'[x]
          \/ /\ ~MidOpen(x) /\ Served(x, e.gen) /\ opened'[x] = opened[x]
             /\ \/ e.kind = "discarded"
                \/ /\ e.kind \in {"ready", "failed", "cancelled", "nodocument"}
                   /\ e.gen = active[x] /\ (e.kind = "nodocument" => ~opened[x])
      <4>1. CASE IsOpen
        BY <1>19, <2>3, <2>5, <2>7, <3>3, <4>1
      <4>2. CASE ~IsOpen
        <5>1. ~MidOpen(x) /\ Served(x, e.gen) /\ opened'[x] = opened[x]
          BY <1>19, <2>5, <2>7, <3>3, <3>4, <4>2
        <5>2. Current => e.gen = active[x]
          BY <2>3, <2>5, <2>7, <4>2 DEF Current
        <5> QED BY <1>19, <2>5, <2>7, <4>2, <5>1, <5>2
      <4> QED BY <4>1, <4>2
    <3>7. Ended(x, e)
      BY <2>1, <2>7, <3>2, <3>5, <3>6 DEF Ended
    <3> QED BY <2>5, <3>7 DEF Moves
  <2> QED BY <2>6, <2>7
<1>20. CASE OpenCancelled \/ OpenFailed
  BY <1>19, <1>20 DEF OpenCancelled, OpenFailed, Changes
<1>21. CASE OpenSucceeded
  <2>1. job.doc \in Doc
    BY <1>21 DEF OpenSucceeded, TypeInv, RunJob
  <2>2. opened'[job.doc] /\ \A y \in Doc \ {job.doc} : opened'[y] = opened[y]
    BY <1>21, <2>1 DEF OpenSucceeded, TypeInv
  <2> QED BY <1>19, <1>21, <2>2 DEF OpenSucceeded, Changes
<1>22. CASE WorkDiscarded
  BY <1>19, <1>22 DEF WorkDiscarded
<1>23. ASSUME pc = "engine", ~IsOpen PROVE Current
  BY <1>23 DEF JobInv, IsOpen, Current
<1>24. CASE WorkCancelled
  <2>1. pc \in {"start", "engine"} /\ ~IsOpen /\ Current /\ EndJob("cancelled") /\ opened' = opened
    BY <1>23, <1>24 DEF WorkCancelled
  <2> QED BY <1>19, <2>1 DEF Results
<1>25. CASE WorkReady
  <2>1. pc \in {"start", "engine"} /\ ~IsOpen /\ Current /\ EndJob("ready") /\ opened' = opened
    BY <1>23, <1>25 DEF WorkReady
  <2> QED BY <1>19, <2>1 DEF Results
<1>26. CASE WorkFailed
  <2>1. /\ pc \in {"start", "engine"} /\ ~IsOpen /\ Current /\ opened' = opened
        /\ EndJob(IF opened[job.doc] THEN "failed" ELSE "nodocument")
    BY <1>23, <1>26 DEF WorkFailed
  <2>2. CASE opened[job.doc]
    <3>1. EndJob("failed")
      BY <2>1, <2>2
    <3> QED BY <1>19, <2>1, <3>1 DEF Results
  <2>3. CASE ~opened[job.doc]
    <3>1. EndJob("nodocument")
      BY <2>1, <2>3
    <3> QED BY <1>19, <2>1, <2>3, <3>1 DEF Results
  <2> QED BY <2>2, <2>3
<1> QED BY <1>6, <1>7, <1>8, <1>9, <1>11, <1>12, <1>13, <1>14, <1>15, <1>16, <1>17, <1>18,
           <1>20, <1>21, <1>22, <1>24, <1>25, <1>26
        DEF OwnerStep, AcceptStep

-----------------------------------------------------------------------------
(* The invariant is kept *)

\* What is carried, while the invariant holds
LEMMA CarriedHolds ==
  ASSUME TypeInv, CallsAddressed, TokenInv, Demands, NEW K, NEW G,
         \A d \in Doc, k \in 1..MaxCalls : Known(d, k) => <<d, k>> \in K,
         \A d \in Doc, g \in Nat \ {0} : Served(d, g) => <<d, g>> \in G
  PROVE  Carried(K, G)
<1>1. ASSUME NEW d \in Doc, NEW t \in Thread PROVE Carries(call[d][t], K, G)
  <2>1. CASE call[d][t] = Idle
    BY <2>1 DEF Carries, Idle
  <2>2. CASE call[d][t] # Idle
    <3> DEFINE x == call[d][t]
    <3>1. x \in Command /\ x.doc = d
      BY <2>2 DEF TypeInv, CallsAddressed
    <3>2. ASSUME x.op \in {"open", "replace"} PROVE <<x.doc, x.token>> \in K
      <4>1. x.token \in 1..MaxCalls
        BY <3>1, <3>2, CommandFields
      <4> QED BY <3>1, <3>2, <4>1 DEF TokenInv
    <3>3. ASSUME x.op = "replace" PROVE <<x.doc, x.gen>> \in G
      <4>1. Served(d, x.gen)
        BY <3>3 DEF Demands
      <4>2. x.gen \in Nat \ {0}
        BY <4>1 DEF Served
      <4> QED BY <3>1, <4>1, <4>2
    <3> QED BY <3>2, <3>3 DEF Carries
  <2> QED BY <2>1, <2>2
<1>2. ASSUME NEW i \in DOMAIN commands PROVE Carries(commands[i], K, G)
  <2> DEFINE x == commands[i]
  <2>1. x \in Command
    BY QueuedCommands
  <2>2. ASSUME x.op \in {"open", "replace"} PROVE <<x.doc, x.token>> \in K
    <3>1. x.token \in 1..MaxCalls /\ x.doc \in Doc
      BY <2>1, <2>2, CommandFields
    <3> QED BY <2>2, <3>1 DEF TokenInv
  <2>3. ASSUME x.op = "replace" PROVE <<x.doc, x.gen>> \in G
    <3>1. Served(x.doc, x.gen) /\ x.doc \in Doc
      BY <2>1, <2>3, CommandFields DEF Demands
    <3>2. x.gen \in Nat \ {0}
      BY <3>1 DEF Served
    <3> QED BY <3>1, <3>2
  <2> QED BY <2>2, <2>3 DEF Carries
<1>3. ASSUME NEW d \in Doc, NEW w \in Work, Known(d, w.token),
             w.key # OpenKey => Served(d, w.gen)
      PROVE  WorkCarries(d, w, K, G)
  <2>1. <<d, w.token>> \in K
    BY <1>3, WorkFields
  <2>2. ASSUME w.key # OpenKey PROVE <<d, w.gen>> \in G
    <3>1. w.gen \in Nat \ {0}
      BY <1>3, <2>2 DEF Served
    <3> QED BY <1>3, <2>2, <3>1
  <2> QED BY <2>1, <2>2 DEF WorkCarries
<1>4. ASSUME NEW d \in Doc, NEW w \in pending[d] PROVE WorkCarries(d, w, K, G)
  <2>1. w \in Work
    BY DEF TypeInv
  <2> QED BY <1>3, <2>1 DEF TokenInv, Demands
<1>5. ASSUME pc = "insert" PROVE <<job.doc, job.token>> \in K /\ <<job.doc, job.gen>> \in G
  <2>1. job.doc \in Doc /\ job.token \in 1..MaxCalls /\ job.gen \in Nat \ {0}
    BY <1>5 DEF TypeInv, InsertJob
  <2> QED BY <1>5, <2>1 DEF TokenInv, Demands
<1>6. ASSUME pc \in {"start", "engine"} PROVE WorkCarries(job.doc, job.work, K, G)
  <2>1. job.doc \in Doc /\ job.work \in Work
    BY <1>6 DEF TypeInv, RunJob
  <2>2. Known(job.doc, job.work.token)
        /\ (job.work.key # OpenKey => Served(job.doc, job.work.gen))
    BY <1>6 DEF TokenInv, Demands
  <2> QED BY <1>3, <2>1, <2>2
<1> QED BY <1>1, <1>2, <1>4, <1>5, <1>6
        DEF Carried, CallsCarry, CommandsCarry, QueuesCarry, JobCarries

\* After a step, too, Demands says that the generations carried are served
LEMMA DemandsCarried ==
  ASSUME TypeInv', CallsAddressed', NEW K, NEW G, Carried(K, G)',
         \A d \in Doc, g \in Nat \ {0} : <<d, g>> \in G => Served(d, g)',
         \A d \in Doc : \A g : <<d, g>> \in G => g \in Nat \ {0}
  PROVE  Demands'
<1> USE DEF Served, NoChange, MidOpen
<1>1. ASSUME NEW d \in Doc, NEW t \in Thread, call'[d][t].op = "replace"
      PROVE  Served(d, call[d][t].gen)'
  <2>1. call'[d][t] # Idle
    BY <1>1 DEF Idle
  <2>2. call'[d][t].doc = d
    BY <2>1 DEF CallsAddressed
  <2>3. <<d, call'[d][t].gen>> \in G
    BY <1>1, <2>2 DEF Carried, CallsCarry, Carries
  <2> QED BY <2>3
<1>2. ASSUME NEW i \in DOMAIN commands', commands'[i].op = "replace"
      PROVE  Served(commands[i].doc, commands[i].gen)'
  <2>1. commands'[i] \in Command
    BY ElementOfSeq DEF TypeInv
  <2>2. commands'[i].doc \in Doc
    BY <1>2, <2>1, CommandFields
  <2>3. <<commands'[i].doc, commands'[i].gen>> \in G
    BY <1>2 DEF Carried, CommandsCarry, Carries
  <2> QED BY <2>2, <2>3
<1>3. ASSUME NEW d \in Doc, NEW w \in pending'[d], w.key # OpenKey PROVE Served(d, w.gen)'
  <2>1. <<d, w.gen>> \in G
    BY <1>3 DEF Carried, QueuesCarry, WorkCarries
  <2> QED BY <2>1
<1>4. ASSUME pc' = "insert" PROVE Served(job.doc, job.gen)'
  <2>1. job'.doc \in Doc
    BY <1>4 DEF TypeInv, InsertJob
  <2>2. <<job'.doc, job'.gen>> \in G
    BY <1>4 DEF Carried, JobCarries
  <2> QED BY <2>1, <2>2
<1>5. ASSUME pc' \in {"start", "engine"}, job'.work.key # OpenKey
      PROVE  Served(job.doc, job.work.gen)'
  <2>1. job'.doc \in Doc
    BY <1>5 DEF TypeInv, RunJob
  <2>2. <<job'.doc, job'.work.gen>> \in G
    BY <1>5 DEF Carried, JobCarries, WorkCarries
  <2> QED BY <2>1, <2>2
<1> QED BY <1>1, <1>2, <1>3, <1>4, <1>5 DEF Demands

\* Nothing is waiting for the document whose work runs
LEMMA JobNext == TypeInv /\ JobInv /\ [Next]_vars => JobInv'
<1> SUFFICES ASSUME TypeInv, JobInv, [Next]_vars PROVE JobInv'
  OBVIOUS
<1>1. ASSUME pc' \notin {"start", "engine"} PROVE JobInv'
  BY <1>1 DEF JobInv
<1>2. ASSUME UNCHANGED <<pc, job, pendingEvents, active>> PROVE JobInv'
  BY <1>2 DEF JobInv
<1>3. CASE ClientStep \/ UNCHANGED vars
  BY <1>2, <1>3, ClientFrame DEF vars, ownerVars, docVars
<1>4. CASE AcceptStep
  BY <1>1, <1>4 DEF AcceptStep, AcceptAttach, AcceptOpen, AcceptClose, AcceptReplace,
                    AcceptCancelClass, AcceptDetach, AcceptShutdown
<1>5. CASE InsertWork \/ InsertDone \/ DrainEmpty \/ NothingRunnable \/ IdleTimeout
           \/ OpenCancelled \/ OpenSucceeded \/ OpenFailed \/ WorkDiscarded \/ WorkCancelled
           \/ WorkReady \/ WorkFailed
  BY <1>1, <1>5 DEF InsertWork, InsertDone, DrainEmpty, NothingRunnable, IdleTimeout,
                    OpenCancelled, OpenSucceeded, OpenFailed, WorkDiscarded, WorkCancelled,
                    WorkReady, WorkFailed, EndJob
<1>6. ASSUME NEW d \in Doc, FlushSent(d) \/ FlushLeave(d) \/ FlushDisconnected(d) PROVE JobInv'
  BY <1>1, <1>6 DEF FlushSent, FlushLeave, FlushDisconnected, FlushStep
<1>7. ASSUME NEW n \in 1..Len(rotation), PickWork(n) PROVE JobInv'
  <2>1. /\ pc' = "start" /\ pendingEvents' = pendingEvents /\ rotation[n] \in Urgent
        /\ \E w : job' = [doc |-> rotation[n], work |-> w]
    BY <1>7 DEF PickWork
  <2>2. pendingEvents[rotation[n]] = <<>> /\ job'.doc = rotation[n]
    BY <2>1 DEF Urgent, Runnable
  <2> QED BY <2>1, <2>2 DEF JobInv
<1>8. CASE StartOpen
  <2>1. pc = "start" /\ job.work.key = OpenKey /\ UNCHANGED <<pendingEvents, job>>
    BY <1>8 DEF StartOpen, IsOpen
  <2> QED BY <2>1 DEF JobInv
<1>9. CASE StartWork
  <2>1. pc = "start" /\ active[job.doc] = job.work.gen /\ UNCHANGED <<pendingEvents, job, active>>
    BY <1>9 DEF StartWork, Current, docVars
  <2> QED BY <2>1 DEF JobInv
<1> QED BY <1>3, <1>4, <1>5, <1>6, <1>7, <1>8, <1>9 DEF Next, OwnerStep, Stopped

\* Nothing is on its way at the beginning
LEMMA StreamInit == Init => StreamInv
<1> SUFFICES ASSUME Init PROVE StreamInv
  OBVIOUS
<1>1. /\ \A d \in Doc : /\ session[d] = 0 /\ active[d] = 0 /\ nextGeneration[d] = 1
                        /\ DOMAIN route[d] = {} /\ DOMAIN pendingEvents[d] = {}
                        /\ ~MidOpen(d) /\ pending[d] = {}
      /\ pc = "drain" /\ DOMAIN commands = {}
      /\ \A d \in Doc, t \in Thread : call[d][t].op = "idle"
  BY DEF Init, MidOpen, Idle
<1>2. Demands /\ JobInv
  BY <1>1 DEF Demands, JobInv
<1>3. ASSUME NEW d \in Doc PROVE DocStream(d)
  BY <1>1 DEF DocStream, Generations, FirstHeld, RouteOpenings, HeldOpenings, RouteResults,
              HeldResults
<1> QED BY <1>2, <1>3 DEF StreamInv

\* Tokens and streams are kept together: what a step carries, it carries for both
LEMMA StreamNext ==
  ASSUME TypeInv, TypeInv', CallsAddressed, CallsAddressed', TokenInv, StreamInv, [Next]_vars
  PROVE  TokenInv' /\ StreamInv'
<1>1. Demands /\ JobInv /\ \A d \in Doc : DocStream(d)
  BY DEF StreamInv
<1>2. \A d \in Doc : Moves(d)
  <2>1. ASSUME UNCHANGED vars, NEW d \in Doc PROVE Moves(d)
    BY <2>1 DEF vars, clientVars, sharedVars, ownerVars, docVars, Moves, Quiet, Kept, MidOpen
  <2> QED BY <1>1, <2>1, ClientMoves, OwnerMoves DEF Next, Stopped
<1>3. \A d \in Doc : DocStream(d)'
  BY <1>1, <1>2, StreamKept
<1>4. \A d \in Doc, g \in Nat \ {0} : Served(d, g) => Served(d, g)'
  BY <1>1, <1>2, ServedStays
<1>5. PICK K : K = {p \in Doc \X (1..MaxCalls) : p[2] \in cancelled'[p[1]] \cup Registered(p[1])'}
  OBVIOUS
<1>6. PICK G : G = {p \in Doc \X (Nat \ {0}) : Served(p[1], p[2])'}
  OBVIOUS
<1>7. \A d \in Doc, k \in 1..MaxCalls : <<d, k>> \in K <=> Known(d, k)'
  BY <1>5 DEF Known
<1>8. /\ \A d \in Doc, g \in Nat \ {0} : <<d, g>> \in G <=> Served(d, g)'
      /\ \A d \in Doc : \A g : <<d, g>> \in G => g \in Nat \ {0}
  BY <1>6
<1>9. \A d \in Doc, k \in 1..MaxCalls : Known(d, k) => <<d, k>> \in K
  BY <1>7, KnownGrows
<1>10. \A d \in Doc, g \in Nat \ {0} : Served(d, g) => <<d, g>> \in G
  BY <1>4, <1>8
<1>11. Carried(K, G)
  BY <1>1, <1>9, <1>10, CarriedHolds
<1>12. Entered(K, G)
  <2>1. ASSUME NEW d \in Doc, NEW t \in Thread, EnterOpen(d, t) PROVE <<d, calls[d] + 1>> \in K
    <3>1. PICK k : k = calls[d] + 1
      OBVIOUS
    <3>2. k \in 1..MaxCalls
      <4>1. calls[d] \in 0..MaxCalls /\ calls[d] < MaxCalls
        BY <2>1 DEF EnterOpen, Enter, TypeInv
      <4> QED BY <3>1, <4>1, BoundAssumption
    <3>3. Known(d, k)'
      BY <2>1, <3>1, EnteredKnown
    <3> QED BY <1>7, <3>1, <3>2, <3>3
  <2>2. ASSUME NEW d \in Doc, NEW t \in Thread, NEW c \in Class, NEW b \in Batch,
               EnterReplace(d, t, c, b)
        PROVE  <<d, calls[d] + 1>> \in K /\ <<d, session[d]>> \in G
    <3>1. PICK k : k = calls[d] + 1
      OBVIOUS
    <3>2. k \in 1..MaxCalls
      <4>1. calls[d] \in 0..MaxCalls /\ calls[d] < MaxCalls
        BY <2>2 DEF EnterReplace, Enter, TypeInv
      <4> QED BY <3>1, <4>1, BoundAssumption
    <3>3. Known(d, k)'
      BY <2>2, <3>1, EnteredKnown
    <3>4. session[d] \in Nat \ {0}
      BY <2>2 DEF EnterReplace, TypeInv
    <3>5. Served(d, session[d])
      BY <1>1, <3>4 DEF DocStream
    <3> QED BY <1>7, <1>10, <3>1, <3>2, <3>3, <3>4, <3>5
  <2> QED BY <2>1, <2>2 DEF Entered
<1>13. Carried(K, G)'
  BY <1>11, <1>12, CarriedNext
<1>14. TokenInv'
  BY <1>7, <1>13, TokensCarried
<1>15. Demands'
  BY <1>8, <1>13, DemandsCarried
<1>16. JobInv'
  BY <1>1, JobNext
<1> QED BY <1>3, <1>14, <1>15, <1>16 DEF StreamInv

\* The invariant holds at the beginning
LEMMA SupervisorInit == Init => SupervisorInv
  BY TypeInit, CallsInit, RotationInit, TokenInit, QueueInit, StreamInit DEF SupervisorInv

\* Every step keeps it: the types need the queues, the rotation the types, the
\* tokens and the streams all of them
LEMMA SupervisorNext == SupervisorInv /\ [Next]_vars => SupervisorInv'
<1> SUFFICES ASSUME SupervisorInv, [Next]_vars PROVE SupervisorInv'
  OBVIOUS
<1>1. TypeInv /\ CallsAddressed /\ RotationInv /\ TokenInv /\ QueueInv /\ StreamInv
  BY DEF SupervisorInv
<1>2. TypeInv' /\ CallsAddressed' /\ QueueInv'
  BY <1>1, TypeNext, CallsNext, QueueNext
<1>3. RotationInv'
  BY <1>1, <1>2, RotationNext
<1>4. TokenInv' /\ StreamInv'
  BY <1>1, <1>2, StreamNext
<1> QED BY <1>2, <1>3, <1>4 DEF SupervisorInv

-----------------------------------------------------------------------------
(* What the invariant says *)

\* An entry of a stream is one of the route or one of the pending events
LEMMA StreamEntry ==
  ASSUME TypeInv, NEW d \in Doc
  PROVE  LET n == Len(route[d]) IN
         /\ n \in Nat /\ DOMAIN route[d] = 1..n
         /\ DOMAIN Stream(d) = 1..(n + Len(pendingEvents[d])) /\ Len(pendingEvents[d]) \in Nat
         /\ DOMAIN pendingEvents[d] = 1..Len(pendingEvents[d])
         /\ \A j \in DOMAIN Stream(d) :
              \/ j \in DOMAIN route[d] /\ Stream(d)[j] = route[d][j]
              \/ j - n \in DOMAIN pendingEvents[d] /\ Stream(d)[j] = pendingEvents[d][j - n]
                 /\ j > n
<1> DEFINE r == route[d]
           p == pendingEvents[d]
           s == r \o p
<1>1. r \in Seq(EventType) /\ p \in Seq(EventType) /\ Stream(d) = s
  BY DEF TypeInv, Stream
<1> HIDE DEF r, p
<1>2. /\ Len(r) \in Nat /\ DOMAIN r = 1..Len(r) /\ Len(p) \in Nat /\ DOMAIN p = 1..Len(p)
  BY <1>1, LenProperties
<1>3. s \in Seq(EventType) /\ Len(s) = Len(r) + Len(p)
      /\ \A i \in 1..(Len(r) + Len(p)) : s[i] = IF i <= Len(r) THEN r[i] ELSE p[i - Len(r)]
  BY <1>1, ConcatProperties, Zenon
<1> HIDE DEF s
<1>4. DOMAIN s = 1..(Len(r) + Len(p))
  BY <1>3, LenProperties
<1>5. ASSUME NEW j \in DOMAIN s
      PROVE  \/ j \in DOMAIN r /\ s[j] = r[j]
             \/ j - Len(r) \in DOMAIN p /\ s[j] = p[j - Len(r)] /\ j > Len(r)
  <2>1. s[j] = IF j <= Len(r) THEN r[j] ELSE p[j - Len(r)]
    BY <1>3, <1>4
  <2>2. CASE j <= Len(r)
    BY <1>2, <1>4, <2>1, <2>2
  <2>3. CASE ~(j <= Len(r))
    <3>1. s[j] = p[j - Len(r)]
      BY <2>1, <2>3, Zenon
    <3>2. j - Len(r) \in DOMAIN p /\ j > Len(r)
      BY <1>2, <1>4, <2>3
    <3> QED BY <3>1, <3>2
  <2> QED BY <2>2, <2>3
<1> QED BY <1>1, <1>2, <1>4, <1>5 DEF r, p

\* The owner's tables agree
LEMMA InvOwnerConsistent == SupervisorInv => OwnerConsistent
<1> SUFFICES ASSUME SupervisorInv PROVE OwnerConsistent
  OBVIOUS
<1>1. TypeInv /\ RotationInv /\ \A d \in Doc : DocStream(d)
  BY DEF SupervisorInv, StreamInv
<1>2. TypeOK
  BY <1>1, TypeInvTypeOK
<1>3. OneRasterHeld
  BY <1>1 DEF OneRasterHeld, DocStream, FirstHeld
<1>4. NeverWithoutDocument
  <2> SUFFICES ASSUME NEW d \in Doc, NEW j \in DOMAIN Stream(d)
               PROVE  Stream(d)[j].kind # "nodocument"
    BY DEF NeverWithoutDocument
  <2>1. \/ j \in DOMAIN route[d] /\ Stream(d)[j] = route[d][j]
        \/ j - Len(route[d]) \in DOMAIN pendingEvents[d]
           /\ Stream(d)[j] = pendingEvents[d][j - Len(route[d])]
    BY <1>1, StreamEntry
  <2> QED BY <1>1, <2>1 DEF DocStream, RouteResults, HeldResults, Results
<1> QED BY <1>1, <1>2, <1>3, <1>4 DEF OwnerConsistent, RotationInv

\* Before a result there is no change on its way, so the session in force is the one
\* the client was told of last
LEMMA InvStreamInOrder == SupervisorInv => StreamInOrder
<1> SUFFICES ASSUME SupervisorInv, NEW d \in Doc, NEW j \in DOMAIN Stream(d)
             PROVE  LET s == Stream(d)
                        Before == {i \in 1..(j - 1) : s[i].kind \in Changes}
                        InForce == IF Before = {} THEN told[d]
                                   ELSE Announced(s[CHOOSE i \in Before : \A h \in Before : h <= i])
                    IN /\ s[j].kind \in Results => s[j].gen = InForce
                       /\ s[j].kind = "opened" =>
                            \A i \in 1..(j - 1) : s[i].gen < s[j].gen /\ session[d] < s[j].gen
  BY DEF StreamInOrder
<1> DEFINE s == Stream(d)
           n == Len(route[d])
<1>1. TypeInv /\ DocStream(d)
  BY DEF SupervisorInv, StreamInv
<1>2. /\ n \in Nat /\ DOMAIN route[d] = 1..n
      /\ DOMAIN s = 1..(n + Len(pendingEvents[d])) /\ Len(pendingEvents[d]) \in Nat
      /\ DOMAIN pendingEvents[d] = 1..Len(pendingEvents[d])
  BY <1>1, StreamEntry
<1>3. \A i \in DOMAIN s : \/ i \in DOMAIN route[d] /\ s[i] = route[d][i]
                          \/ i - n \in DOMAIN pendingEvents[d] /\ s[i] = pendingEvents[d][i - n]
                             /\ i > n
  BY <1>1, StreamEntry
<1>0. j \in DOMAIN s
  OBVIOUS
<1> HIDE DEF s, n
<1>4. \A i \in 1..(j - 1) : i \in DOMAIN s /\ i < j
  BY <1>2, <1>0
<1>5. CASE j \in DOMAIN route[d]
  <2>1. \A i \in 1..(j - 1) : i \in DOMAIN route[d] /\ s[i] = route[d][i] /\ i < j
    BY <1>2, <1>3, <1>4, <1>5
  <2>2. s[j] = route[d][j]
    BY <1>2, <1>3, <1>5
  <2>3. ASSUME s[j].kind \in Results
        PROVE  s[j].gen = told[d] /\ {i \in 1..(j - 1) : s[i].kind \in Changes} = {}
    BY <1>1, <1>5, <2>1, <2>2, <2>3 DEF DocStream, RouteResults
  <2>4. ASSUME s[j].kind = "opened"
        PROVE  \A i \in 1..(j - 1) : s[i].gen < s[j].gen /\ session[d] < s[j].gen
    <3>1. /\ route[d][j].gen > session[d]
          /\ \A i \in DOMAIN route[d] : i < j => route[d][i].gen < route[d][j].gen
      BY <1>1, <1>5, <2>2, <2>4 DEF DocStream, RouteOpenings, Announces
    <3>2. route[d][j].gen \in Nat /\ session[d] \in Nat
      BY <1>1, <1>5, DocTypes
    <3> QED BY <2>1, <2>2, <3>1, <3>2
  <2> QED BY <2>3, <2>4 DEF s
<1>6. CASE j \notin DOMAIN route[d]
  <2>1. j - n \in DOMAIN pendingEvents[d] /\ s[j] = pendingEvents[d][j - n]
    BY <1>3, <1>6 DEF s
  <2>2. ASSUME s[j].kind \in Results \cup {"opened"}
        PROVE  j = n + 1 /\ \A i \in 1..(j - 1) : i \in DOMAIN route[d] /\ s[i] = route[d][i]
    <3>1. j - n = 1
      BY <1>1, <2>1, <2>2 DEF DocStream, FirstHeld
    <3>2. j = n + 1
      BY <1>2, <3>1 DEF s
    <3> QED BY <1>2, <1>3, <1>4, <3>2
  <2>3. ASSUME s[j].kind \in Results
        PROVE  s[j].gen = told[d] /\ {i \in 1..(j - 1) : s[i].kind \in Changes} = {}
    BY <1>1, <2>1, <2>2, <2>3 DEF DocStream, HeldResults
  <2>4. ASSUME s[j].kind = "opened"
        PROVE  \A i \in 1..(j - 1) : s[i].gen < s[j].gen /\ session[d] < s[j].gen
    <3>1. /\ s[j].gen > session[d]
          /\ \A i \in DOMAIN route[d] : route[d][i].gen < s[j].gen
      BY <1>1, <2>1, <2>4 DEF DocStream, HeldOpenings, Announces
    <3>2. s[j].gen \in Nat /\ session[d] \in Nat
      BY <1>1, <2>1, DocTypes
    <3> QED BY <2>2, <2>4, <3>1, <3>2
  <2> QED BY <2>3, <2>4 DEF s
<1> QED BY <1>5, <1>6

-----------------------------------------------------------------------------
(* Theorems *)

(* The invariant holds in every state. *)
THEOREM SupervisorInvariant == Spec => []SupervisorInv
  BY SupervisorInit, SupervisorNext, PTL DEF Spec

(* run_owner's tables agree for any number of documents, threads, classes and  *)
(* calls and any capacities: the rotation lists every attached document once, *)
(* a full route holds back one raster, and no demand runs without a document. *)
THEOREM OwnerAlwaysConsistent == Spec => []OwnerConsistent
  BY SupervisorInvariant, InvOwnerConsistent, PTL

(* What a client of the supervisor reads is the history of one document at a  *)
(* time: every result belongs to the generation announced last before it, and *)
(* generations only grow, whatever order commands, engine calls, cancellation *)
(* and deliveries come in.                                                    *)
THEOREM StreamAlwaysInOrder == Spec => []StreamInOrder
  BY SupervisorInvariant, InvStreamInOrder, PTL

(* replace_class keeps every queue within max_pending_per_document, evicts     *)
(* nothing that is more urgent than what it leaves, and never a waiting open. *)
THEOREM EvictionAlwaysSpares == Spec => EvictionSparesTheUrgent
<1>1. ASSUME SupervisorInv, [Next]_vars
      PROVE  /\ PendingBounded'
             /\ pc = "insert" =>
               \A w \in pending[job.doc] \ pending'[job.doc] :
                 /\ w.key # OpenKey
                 /\ (\E v \in pending'[job.doc] : v.key = w.key)
                    \/ \A v \in pending'[job.doc] : w.priority <= v.priority
  <2>1. TypeInv /\ QueueInv
    BY <1>1 DEF SupervisorInv
  <2>2. PendingBounded'
    BY <1>1, <2>1, QueueNext DEF QueueInv, PendingBounded
  <2>3. pc = "insert" => InsertWork \/ pending' = pending
    <3>1. ClientStep \/ UNCHANGED vars => pending' = pending
      BY ClientFrame DEF vars, ownerVars, docVars
    <3>2. ASSUME pc = "insert", OwnerStep PROVE InsertWork \/ pending' = pending
      BY <3>2 DEF OwnerStep, AcceptStep, AcceptAttach, AcceptOpen, AcceptClose, AcceptReplace,
           AcceptCancelClass, AcceptDetach, AcceptShutdown, Accept, InsertDone, DrainEmpty,
           FlushSent, FlushLeave, FlushDisconnected, FlushStep, PickWork, NothingRunnable,
           IdleTimeout, StartOpen, OpenCancelled, OpenSucceeded, OpenFailed, WorkDiscarded,
           WorkCancelled, StartWork, WorkReady, WorkFailed
    <3> QED BY <1>1, <3>1, <3>2 DEF Next, Stopped
  <2> QED BY <2>1, <2>2, <2>3, InsertKeepsQueue
<1> QED BY <1>1, SupervisorInvariant, PTL DEF Spec, EvictionSparesTheUrgent

(* The owner reports a success or a failure only of what its client still has *)
(* registered, although tokens are cancelled under the client's mutex and the *)
(* commands that say so are sent later.                                       *)
THEOREM ReportsAlwaysWanted == Spec => ReportsAreWanted
<1>1. ASSUME SupervisorInv, [Next]_vars
      PROVE  \A d \in Doc :
               Len(pendingEvents'[d]) > Len(pendingEvents[d]) =>
                 LET event == pendingEvents'[d][Len(pendingEvents'[d])]
                 IN event.kind \in {"opened", "openfailed", "ready", "failed"} =>
                      event.token \in Registered(d)
  <2> SUFFICES ASSUME NEW d \in Doc, Len(pendingEvents'[d]) > Len(pendingEvents[d]),
                      pendingEvents'[d][Len(pendingEvents'[d])].kind
                        \in {"opened", "openfailed", "ready", "failed"}
               PROVE  pendingEvents'[d][Len(pendingEvents'[d])].token \in Registered(d)
    OBVIOUS
  <2>1. TypeInv /\ TokenInv
    BY <1>1 DEF SupervisorInv
  <2>2. Len(pendingEvents[d]) \in Nat
    BY <2>1, LenProperties DEF TypeInv
  <2>3. ASSUME pendingEvents'[d] = pendingEvents[d] \/ pendingEvents'[d] = <<>> PROVE FALSE
    BY <2>2, <2>3
  \* An event of another kind
  <2>4. ASSUME NEW x \in Doc, NEW e \in EventType, Push(x, e),
               e.kind \notin {"opened", "openfailed", "ready", "failed"}
        PROVE  FALSE
    <3>1. CASE x = d
      <4>1. pendingEvents'[d][Len(pendingEvents'[d])] = e
        BY <2>1, <2>4, <3>1, PushEvent
      <4> QED BY <2>4, <4>1
    <3>2. CASE x # d
      <4>1. pendingEvents'[d] = pendingEvents[d]
        BY <2>1, <2>4, <3>2, PushEvent
      <4> QED BY <2>3, <4>1
    <3> QED BY <3>1, <3>2
  <2>5. CASE ClientStep \/ UNCHANGED vars
    BY <2>3, <2>5, ClientFrame DEF vars, ownerVars, docVars
  <2>6. CASE AcceptAttach
    <3>1. /\ Event("attached", 0, 0) \in EventType /\ Event("attached", 0, 0).kind = "attached"
          /\ Head(commands).doc \in Doc /\ Push(Head(commands).doc, Event("attached", 0, 0))
      BY <2>1, <2>6, Accepted, CommandFields, EventIn, BoundAssumption DEF AcceptAttach
    <3> QED BY <2>4, <3>1
  <2>7. CASE AcceptClose
    <3> DEFINE x == Head(commands).doc
               e == Event("closed", active[x], 0)
    <3>1. x \in Doc
      BY <2>1, <2>7, Accepted, CommandFields DEF AcceptClose
    <3>2. active[x] \in Nat /\ 0 \in 0..MaxCalls /\ "closed" \in Changes
      BY <2>1, <3>1, BoundAssumption DEF TypeInv, Changes
    <3>3. e \in EventType /\ e.kind = "closed"
      BY <3>2, EventIn
    <3>4. Push(x, e) \/ pendingEvents' = pendingEvents
      BY <2>7 DEF AcceptClose
    <3> HIDE DEF x, e
    <3> QED BY <2>3, <2>4, <3>1, <3>3, <3>4
  <2>8. CASE InsertDone
    <3> DEFINE e == Event("rejected", 0, job.token)
    <3>1. job.doc \in Doc /\ job.token \in 0..MaxCalls
      BY <2>1, <2>8 DEF InsertDone, TypeInv, InsertJob
    <3>2. e \in EventType /\ e.kind = "rejected"
      <4>1. /\ "rejected" \in Results \cup Changes \cup {"attached", "rejected", "discarded"}
            /\ 0 \in Nat
        OBVIOUS
      <4>2. e \in EventType
        BY <3>1, <4>1, EventIn, Zenon
      <4>3. e.kind = "rejected"
        BY DEF Event
      <4> QED BY <4>2, <4>3
    <3>3. Push(job.doc, e) \/ pendingEvents' = pendingEvents
      BY <2>8 DEF InsertDone
    <3> HIDE DEF e
    <3> QED BY <2>3, <2>4, <3>1, <3>2, <3>3
  <2>9. ASSUME NEW x \in Doc, RemoveDocument(x) PROVE FALSE
    <3>1. pendingEvents'[d] = pendingEvents[d] \/ pendingEvents'[d] = <<>>
      BY <2>1, <2>9 DEF RemoveDocument, TypeInv
    <3> QED BY <2>3, <3>1
  <2>10. CASE AcceptDetach \/ AcceptShutdown \/ (\E x \in Doc : FlushDisconnected(x))
    <3>1. AcceptShutdown => pendingEvents'[d] = <<>>
      BY DEF AcceptShutdown
    <3>2. AcceptDetach => Head(commands).doc \in Doc /\ RemoveDocument(Head(commands).doc)
      BY <2>1, Accepted, CommandFields DEF AcceptDetach
    <3> QED BY <2>3, <2>9, <2>10, <3>1, <3>2 DEF FlushDisconnected
  <2>11. ASSUME NEW x \in Doc, FlushSent(x) PROVE FALSE
    <3>1. pendingEvents[x] \in Seq(EventType) /\ pendingEvents[x] # <<>>
          /\ pendingEvents' = [pendingEvents EXCEPT ![x] = Tail(pendingEvents[x])]
      BY <2>1, <2>11 DEF FlushSent, TypeInv
    <3>2. Len(Tail(pendingEvents[x])) = Len(pendingEvents[x]) - 1
      BY <3>1, HeadTailProperties
    <3>3. CASE x = d
      <4>1. pendingEvents'[d] = Tail(pendingEvents[d])
        BY <2>1, <3>1, <3>3 DEF TypeInv
      <4> QED BY <2>2, <3>2, <3>3, <4>1
    <3>4. CASE x # d
      BY <2>1, <2>3, <3>1, <3>4 DEF TypeInv
    <3> QED BY <3>3, <3>4
  <2>12. CASE \/ AcceptOpen \/ AcceptReplace \/ AcceptCancelClass \/ InsertWork \/ DrainEmpty
              \/ (\E x \in Doc : FlushLeave(x)) \/ (\E n \in 1..Len(rotation) : PickWork(n))
              \/ NothingRunnable \/ IdleTimeout \/ StartOpen \/ StartWork
    <3>1. pendingEvents' = pendingEvents
      BY <2>12, SMTT(30)
               DEF AcceptOpen, AcceptReplace, AcceptCancelClass, InsertWork, DrainEmpty,
                   FlushLeave, PickWork, NothingRunnable, IdleTimeout, StartOpen, StartWork,
                   docVars
    <3> QED BY <2>3, <3>1
  \* A job that ends
  <2>13. ASSUME NEW kind \in Results \cup Changes \cup {"discarded"}, EndJob(kind),
                pc \in {"start", "engine"},
                kind \in {"opened", "openfailed", "ready", "failed"} => ~TokenCancelled
         PROVE  pendingEvents'[d][Len(pendingEvents'[d])].token \in Registered(d)
    <3> DEFINE g == IF IsOpen THEN active[job.doc] ELSE job.work.gen
               e == Event(kind, g, job.work.token)
    <3>1. job.doc \in Doc /\ job.work \in Work
      BY <2>1, <2>13 DEF TypeInv, RunJob
    <3>2. job.work.gen \in Nat /\ job.work.token \in 0..MaxCalls
      BY <3>1, WorkFields
    <3>3. active[job.doc] \in Nat
      BY <2>1, <3>1 DEF TypeInv
    <3>4. g \in Nat
      BY <3>2, <3>3
    <3>5. Push(job.doc, e)
      BY <2>13 DEF EndJob
    <3> HIDE DEF g
    <3>6. e \in EventType /\ e.kind = kind /\ e.token = job.work.token
      <4>1. kind \in Results \cup Changes \cup {"attached", "rejected", "discarded"}
        OBVIOUS
      <4> QED BY <3>2, <3>4, <4>1, EventIn
    <3> HIDE DEF e
    <3>7. kind \in {"opened", "openfailed", "ready", "failed"}
      BY <2>4, <3>1, <3>5, <3>6
    <3>8. job.doc = d
      <4>1. job.doc # d => pendingEvents'[d] = pendingEvents[d]
        BY <2>1, <3>1, <3>5, <3>6, PushEvent
      <4> QED BY <2>3, <4>1
    <3>9. pendingEvents'[d][Len(pendingEvents'[d])] = e
      BY <2>1, <3>5, <3>6, <3>8, PushEvent
    <3>10. job.work.token \notin cancelled[d] /\ Known(d, job.work.token)
      BY <2>1, <2>13, <3>7, <3>8 DEF TokenCancelled, TokenInv
    <3> QED BY <3>6, <3>9, <3>10 DEF Known
  <2>14. CASE OpenCancelled
    BY <2>13, <2>14 DEF OpenCancelled, Changes
  <2>15. CASE OpenSucceeded
    BY <2>13, <2>15 DEF OpenSucceeded, Changes
  <2>16. CASE OpenFailed
    BY <2>13, <2>16 DEF OpenFailed, Changes
  <2>17. CASE WorkDiscarded
    BY <2>13, <2>17 DEF WorkDiscarded
  <2>18. CASE WorkCancelled
    BY <2>13, <2>18 DEF WorkCancelled, Results
  <2>19. CASE WorkReady
    BY <2>13, <2>19 DEF WorkReady, Results
  <2>20. CASE WorkFailed
    <3>1. EndJob("failed") \/ EndJob("nodocument")
      BY <2>20 DEF WorkFailed
    <3> QED BY <2>13, <2>20, <3>1 DEF WorkFailed, Results
  <2> QED BY <1>1, <2>5, <2>6, <2>7, <2>8, <2>10, <2>11, <2>12, <2>14, <2>15, <2>16, <2>17,
             <2>18, <2>19, <2>20
          DEF Next, OwnerStep, AcceptStep, Stopped
<1> QED BY <1>1, SupervisorInvariant, PTL DEF Spec, ReportsAreWanted

-----------------------------------------------------------------------------
(* Nobody is passed over for long *)

\* The rotation has no more entries than there are documents
LEMMA RotationFits ==
  ASSUME NEW s \in Seq(Doc), Distinct(s)
  PROVE  Len(s) \in Nat /\ Len(s) <= Cardinality(Doc) /\ Cardinality(Doc) \in Nat
<1>1. Len(s) \in Nat /\ DOMAIN s = 1..Len(s) /\ s \in [1..Len(s) -> Doc]
  BY LenProperties
<1>2. s \in Injection(1..Len(s), Doc)
  BY <1>1 DEF Injection, IsInjective, Distinct
<1>3. Cardinality(1..Len(s)) <= Cardinality(Doc)
  BY <1>2, DocAssumption, FS_Injection
<1>4. Cardinality(1..Len(s)) = Len(s)
  BY <1>1, FS_Interval
<1> QED BY <1>1, <1>3, <1>4, DocAssumption, FS_CardinalityType

\* Nothing is attached out of turn
LEMMA UnattachedShrinks ==
  ASSUME TypeInv, CallsAddressed, [Next]_vars, NEW d \in Doc, Unattached(d)'
  PROVE  Unattached(d)
<1>1. ASSUME commands' = commands, client' = client PROVE Unattached(d)
  BY <1>1 DEF Unattached
<1>2. ASSUME commands # <<>>, commands' = Tail(commands), client' = client PROVE Unattached(d)
  <2>1. \A i \in DOMAIN commands' : i + 1 \in DOMAIN commands /\ commands'[i] = commands[i + 1]
    BY <1>2, TakeCommand
  <2> QED BY <1>2, <2>1 DEF Unattached
<1>3. ASSUME NEW c \in Command, Send(c), c.op = "attach" => client[c.doc] = "unattached",
             client'[d] = "unattached" => client[d] = "unattached"
      PROVE  Unattached(d)
  <2>1. /\ DOMAIN commands' = 1..(Len(commands) + 1) /\ DOMAIN commands = 1..Len(commands)
        /\ Len(commands) \in Nat /\ commands'[Len(commands) + 1] = c
        /\ \A i \in DOMAIN commands : commands'[i] = commands[i]
    BY <1>3, SendCommand
  <2>2. \A i \in DOMAIN commands' : i = Len(commands) + 1 \/ i \in DOMAIN commands
    BY <2>1
  <2> QED BY <1>3, <2>1, <2>2 DEF Unattached
<1>4. CASE OwnerStep
  <2>1. client' = client
    BY <1>4, OwnerFrame DEF clientVars
  <2>2. CASE AcceptStep
    <3>1. commands # <<>> /\ commands' = Tail(commands)
      BY <2>2 DEF AcceptStep, AcceptAttach, AcceptOpen, AcceptClose, AcceptReplace,
                  AcceptCancelClass, AcceptDetach, AcceptShutdown, Accept
    <3> QED BY <1>2, <2>1, <3>1
  <2>3. CASE ~AcceptStep
    <3>1. commands' = commands
      BY <1>4, <2>3 DEF OwnerStep, InsertWork, InsertDone, DrainEmpty, FlushSent, FlushLeave,
           FlushDisconnected, FlushStep, PickWork, NothingRunnable, IdleTimeout, StartOpen,
           OpenCancelled, OpenSucceeded, OpenFailed, WorkDiscarded, WorkCancelled, StartWork,
           WorkReady, WorkFailed, EndJob, sharedVars
    <3> QED BY <1>1, <2>1, <3>1
  <2> QED BY <2>2, <2>3
<1>5. ASSUME NEW x \in Doc, Attach(x) PROVE Unattached(d)
  <2> DEFINE c == [op |-> "attach", doc |-> x]
  <2>1. c \in Command /\ Send(c) /\ c.doc = x
    BY <1>5, CommandIn DEF Attach
  <2>2. client[x] = "unattached" /\ client' = [client EXCEPT ![x] = "live"]
    BY <1>5 DEF Attach
  <2>3. client'[d] = "unattached" => client[d] = "unattached"
    BY <2>2 DEF TypeInv
  <2> HIDE DEF c
  <2> QED BY <1>3, <2>1, <2>2, <2>3
<1>6. ASSUME NEW x \in Doc, DropClient(x) PROVE Unattached(d)
  <2>1. commands' = commands /\ client' = [client EXCEPT ![x] = "dropping"]
    BY <1>6 DEF DropClient, sharedVars
  <2>2. client'[d] = "unattached" => client[d] = "unattached"
    BY <2>1 DEF TypeInv
  <2> QED BY <2>1, <2>2 DEF Unattached
<1>7. ASSUME NEW x \in Doc, SendDetach(x) PROVE Unattached(d)
  <2> DEFINE c == [op |-> "detach", doc |-> x]
  <2>1. c \in Command /\ Send(c) /\ c.op = "detach"
    BY <1>7, CommandIn DEF SendDetach
  <2>2. client' = [client EXCEPT ![x] = "dropped"]
    BY <1>7 DEF SendDetach
  <2>3. client'[d] = "unattached" => client[d] = "unattached"
    BY <2>2 DEF TypeInv
  <2> HIDE DEF c
  <2> QED BY <1>3, <2>1, <2>3
<1>8. ASSUME NEW x \in Doc, NEW t \in Thread, SendCall(x, t) PROVE Unattached(d)
  <2>1. call[x][t] # Idle /\ Send(call[x][t]) /\ client' = client
    BY <1>8 DEF SendCall
  <2>2. call[x][t] \in Command /\ call[x][t].op # "attach"
    <3>1. call[x][t] \in Command
      BY <2>1 DEF TypeInv
    <3>2. call[x][t].op # "attach"
      BY <2>1 DEF CallsAddressed
    <3> QED BY <3>1, <3>2
  <2> QED BY <1>3, <2>1, <2>2
<1>9. CASE SendShutdown
  <2> DEFINE c == [op |-> "shutdown"]
  <2>1. c \in Command /\ Send(c) /\ c.op = "shutdown" /\ client' = client
    BY <1>9, CommandIn DEF SendShutdown
  <2> HIDE DEF c
  <2> QED BY <1>3, <2>1
<1>10. CASE \/ \E x \in Doc : \/ Receive(x) \/ StopListening(x)
                              \/ \E t \in Thread :
                                   \/ EnterOpen(x, t) \/ EnterClose(x, t)
                                   \/ \E c \in Class : \/ EnterCancel(x, t, c)
                                                       \/ \E b \in Batch : EnterReplace(x, t, c, b)
            \/ DropHandle \/ UNCHANGED vars
  <2>1. client' = client /\ commands' = commands
    BY <1>10 DEF Receive, StopListening, EnterOpen, EnterClose, EnterCancel, EnterReplace,
                 Enter, DropHandle, vars, clientVars, sharedVars
  <2> QED BY <1>1, <2>1
<1> QED BY <1>4, <1>5, <1>6, <1>7, <1>8, <1>9, <1>10 DEF Next, ClientStep, Stopped

\* The invariant holds at the beginning
LEMMA FairInit == Init => FairInv
<1> SUFFICES ASSUME Init PROVE FairInv
  OBVIOUS
<1>1. DOMAIN rotation = {} /\ overtaken = [d \in Doc |-> 0]
  BY DEF Init
<1>2. \A d \in Doc : 0 < Cardinality(Doc)
  BY DocAssumption, FS_CardinalityType, FS_EmptySet
<1> QED BY <1>1, <1>2 DEF FairInv

\* When the owner picks work, the documents it passes over are behind the one it
\* picks, and come forward by its place
LEMMA FairPick ==
  ASSUME TypeInv, RotationInv, RotationInv', FairInv, NEW n \in 1..Len(rotation), PickWork(n),
         \A d \in Doc : Unattached(d)' => Unattached(d)
  PROVE  FairInv'
<1> DEFINE N == Cardinality(Doc)
           L == Len(rotation)
           k == L - n
<1>1. rotation \in Seq(Doc) /\ Distinct(rotation) /\ Entries(rotation) = documents
  BY DEF TypeInv, RotationInv, RotationComplete, Distinct, Entries
<1>2. L \in Nat /\ L <= N /\ N \in Nat /\ DOMAIN rotation = 1..L
  BY <1>1, RotationFits, LenProperties
<1>3. /\ \A d \in Doc : overtaken[d] \in Nat /\ overtaken[d] < N
      /\ \A i \in DOMAIN rotation : overtaken[rotation[i]] + i <= N
      /\ \A d \in Doc : Unattached(d) => overtaken[d] = 0
  BY DEF FairInv
<1>4. /\ overtaken' = [e \in Doc |-> IF e \in Urgent \ {rotation[n]} THEN overtaken[e] + 1 ELSE 0]
      /\ rotation' = Rotated(n)
      /\ \A i \in 1..(n - 1) : rotation[i] \notin Urgent
  BY DEF PickWork
<1>5. /\ DOMAIN Rotated(n) = 1..L
      /\ \A i \in DOMAIN Rotated(n) :
           Rotated(n)[i] = IF i <= k THEN rotation[i + n] ELSE rotation[i - k]
  BY <1>1, RotatedEntries
<1>6. Urgent \subseteq documents
  BY DEF Urgent, Runnable
<1> HIDE DEF N
\* What is passed over stands behind the nth
<1>7. ASSUME NEW e \in Urgent \ {rotation[n]}
      PROVE  \E j \in (n + 1)..L : e = rotation[j]
  <2>1. PICK j \in DOMAIN rotation : e = rotation[j]
    BY <1>1, <1>6 DEF Entries
  <2>2. j \notin 1..(n - 1) /\ j # n
    BY <1>4, <2>1
  <2> QED BY <1>2, <2>1, <2>2
<1>8. overtaken' \in [Doc -> Nat]
  BY <1>3, <1>4
<1>9. ASSUME NEW d \in Doc PROVE overtaken'[d] < N
  <2>1. CASE d \in Urgent \ {rotation[n]}
    <3>1. PICK j \in (n + 1)..L : d = rotation[j]
      BY <1>7, <2>1
    <3>2. overtaken[d] + j <= N /\ overtaken[d] \in Nat /\ j > 1
      BY <1>2, <1>3, <3>1
    <3>3. overtaken'[d] = overtaken[d] + 1
      BY <1>4, <2>1
    <3> QED BY <1>2, <3>2, <3>3
  <2>2. CASE d \notin Urgent \ {rotation[n]}
    <3>1. overtaken'[d] = 0
      BY <1>4, <2>2
    <3>2. 0 < N
      BY <1>2, <1>3
    <3> QED BY <3>1, <3>2
  <2> QED BY <2>1, <2>2
<1>10. ASSUME NEW i \in DOMAIN rotation' PROVE overtaken'[rotation'[i]] + i <= N
  <2> DEFINE d == rotation'[i]
  <2>1. i \in 1..L /\ d = IF i <= k THEN rotation[i + n] ELSE rotation[i - k]
    BY <1>4, <1>5
  <2>2. d \in Doc
    <3>1. CASE i <= k
      <4>1. i + n \in 1..L /\ d = rotation[i + n]
        BY <1>2, <2>1, <3>1
      <4> QED BY <1>1, <1>2, <4>1, ElementOfSeq
    <3>2. CASE ~(i <= k)
      <4>1. i - k \in 1..L /\ d = rotation[i - k]
        BY <1>2, <2>1, <3>2
      <4> QED BY <1>1, <1>2, <4>1, ElementOfSeq
    <3> QED BY <3>1, <3>2
  <2> HIDE DEF d
  <2>3. CASE d \in Urgent \ {rotation[n]}
    <3>1. PICK j \in (n + 1)..L : d = rotation[j]
      BY <1>7, <2>3
    <3>2. i <= k /\ d = rotation[i + n] /\ i + n \in 1..L
      <4>1. CASE ~(i <= k)
        <5>1. d = rotation[i - k] /\ i - k \in 1..n
          BY <1>2, <2>1, <4>1
        <5>2. i - k \in DOMAIN rotation /\ j \in DOMAIN rotation
          BY <1>2, <3>1, <5>1
        <5>3. i - k = j
          BY <1>1, <3>1, <5>1, <5>2 DEF Distinct
        <5> QED BY <1>2, <3>1, <5>1, <5>3
      <4>2. CASE i <= k
        BY <1>2, <2>1, <4>2
      <4> QED BY <4>1, <4>2
    <3>3. overtaken[d] + (i + n) <= N
      BY <1>2, <1>3, <3>2
    <3>4. overtaken'[d] = overtaken[d] + 1 /\ overtaken[d] \in Nat
      BY <1>3, <1>4, <2>2, <2>3
    <3> QED BY <1>2, <2>1, <3>3, <3>4 DEF d
  <2>4. CASE d \notin Urgent \ {rotation[n]}
    <3>1. overtaken'[d] = 0
      BY <1>4, <2>2, <2>4
    <3> QED BY <1>2, <2>1, <3>1 DEF d
  <2> QED BY <2>3, <2>4
<1>11. ASSUME NEW d \in Doc, Unattached(d)' PROVE overtaken'[d] = 0
  <2>1. Unattached(d)
    BY <1>11
  <2>2. d \notin documents
    BY <2>1 DEF Unattached, RotationInv, AttachedOnce
  <2> QED BY <1>4, <1>6, <2>2
<1> QED BY <1>8, <1>9, <1>10, <1>11 DEF FairInv, N

\* Every step keeps it
LEMMA FairNext ==
  SupervisorInv /\ SupervisorInv' /\ FairInv /\ [Next]_vars => FairInv'
<1> SUFFICES ASSUME SupervisorInv, SupervisorInv', FairInv, [Next]_vars PROVE FairInv'
  OBVIOUS
<1> DEFINE N == Cardinality(Doc)
<1>1. TypeInv /\ TypeInv' /\ CallsAddressed /\ RotationInv /\ RotationInv'
  BY DEF SupervisorInv
<1>2. /\ rotation \in Seq(Doc) /\ Distinct(rotation) /\ rotation' \in Seq(Doc)
      /\ Distinct(rotation')
  BY <1>1 DEF TypeInv, RotationInv, RotationComplete, Distinct
<1>3. N \in Nat /\ Len(rotation') <= N /\ Len(rotation) \in Nat
      /\ DOMAIN rotation = 1..Len(rotation)
  BY <1>2, RotationFits, LenProperties
<1>4. \A d \in Doc : Unattached(d)' => Unattached(d)
  BY <1>1, UnattachedShrinks
<1>5. /\ overtaken \in [Doc -> Nat] /\ \A d \in Doc : overtaken[d] < N
      /\ \A i \in DOMAIN rotation : overtaken[rotation[i]] + i <= N
      /\ \A d \in Doc : Unattached(d) => overtaken[d] = 0
  BY DEF FairInv
<1>6. \A i \in DOMAIN rotation : i \in Nat /\ rotation[i] \in Doc
      /\ overtaken[rotation[i]] \in Nat
  BY <1>2, <1>3, <1>5, ElementOfSeq
<1> HIDE DEF N
\* Documents that move forward
<1>7. ASSUME overtaken' = overtaken,
             \A i \in DOMAIN rotation' :
               i \in Nat /\ \E k \in DOMAIN rotation : i <= k /\ rotation'[i] = rotation[k]
      PROVE  FairInv'
  <2>1. ASSUME NEW i \in DOMAIN rotation' PROVE overtaken'[rotation'[i]] + i <= N
    <3>1. PICK k \in DOMAIN rotation : i <= k /\ rotation'[i] = rotation[k] /\ i \in Nat
      BY <1>7
    <3>2. overtaken[rotation[k]] + k <= N
      BY <1>5
    <3>3. overtaken[rotation[k]] \in Nat /\ k \in Nat
      BY <1>6
    <3>4. overtaken[rotation[k]] + i <= N
      BY <1>3, <3>1, <3>2, <3>3
    <3> QED BY <1>7, <3>1, <3>4
  <2>2. \A d \in Doc : Unattached(d)' => overtaken'[d] = 0
    BY <1>4, <1>5, <1>7
  <2> QED BY <1>5, <1>7, <2>1, <2>2 DEF FairInv, N
<1>8. ASSUME overtaken' = overtaken, rotation' = rotation PROVE FairInv'
  <2>1. \A i \in DOMAIN rotation' :
          i \in Nat /\ \E k \in DOMAIN rotation : i <= k /\ rotation'[i] = rotation[k]
    BY <1>6, <1>8
  <2> QED BY <1>7, <1>8, <2>1
<1>9. ASSUME NEW d \in Doc, RemoveDocument(d), overtaken' = overtaken PROVE FairInv'
  <2>1. rotation' = Retained(rotation, d)
    BY <1>9 DEF RemoveDocument
  <2>2. \A i \in DOMAIN rotation' :
          i \in Nat /\ \E k \in DOMAIN rotation : i <= k /\ rotation'[i] = rotation[k]
    BY <1>2, <2>1, RetainedEntries
  <2> QED BY <1>7, <1>9, <2>2
<1>10. CASE ClientStep \/ UNCHANGED vars
  BY <1>8, <1>10, ClientFrame DEF vars, ownerVars, docVars
<1>11. CASE AcceptAttach
  <2> DEFINE d == Head(commands).doc
  <2>1. d \in Doc /\ d = commands[1].doc /\ 1 \in DOMAIN commands /\ commands[1].op = "attach"
    BY <1>1, <1>11, Accepted, CommandFields DEF AcceptAttach
  <2>2. overtaken[d] = 0
    BY <1>5, <2>1 DEF Unattached
  <2>3. rotation' = Append(rotation, d) /\ overtaken' = overtaken
    BY <1>11 DEF AcceptAttach, Accept
  <2> HIDE DEF d
  <2>4. /\ DOMAIN rotation' = 1..(Len(rotation) + 1) /\ Len(rotation') = Len(rotation) + 1
        /\ rotation'[Len(rotation) + 1] = d
        /\ \A i \in DOMAIN rotation : rotation'[i] = rotation[i]
    BY <1>2, <2>1, <2>3, AppendProperties
  <2>5. ASSUME NEW i \in DOMAIN rotation' PROVE overtaken'[rotation'[i]] + i <= N
    <3>1. CASE i = Len(rotation) + 1
      BY <1>3, <2>2, <2>3, <2>4, <3>1
    <3>2. CASE i # Len(rotation) + 1
      BY <1>3, <1>5, <2>3, <2>4, <3>2
    <3> QED BY <3>1, <3>2
  <2>6. \A x \in Doc : Unattached(x)' => overtaken'[x] = 0
    BY <1>4, <1>5, <2>3
  <2> QED BY <1>5, <2>3, <2>5, <2>6 DEF FairInv, N
<1>12. CASE AcceptDetach
  <2>1. Head(commands).doc \in Doc /\ RemoveDocument(Head(commands).doc)
        /\ overtaken' = overtaken
    BY <1>1, <1>12, Accepted, CommandFields DEF AcceptDetach, Accept
  <2> QED BY <1>9, <2>1
<1>13. CASE AcceptShutdown
  <2>1. DOMAIN rotation' = {} /\ overtaken' = overtaken
    BY <1>13 DEF AcceptShutdown, Accept
  <2> QED BY <1>7, <2>1
<1>14. ASSUME NEW d \in Doc, FlushDisconnected(d) PROVE FairInv'
  BY <1>9, <1>14 DEF FlushDisconnected, FlushStep
<1>15. ASSUME NEW n \in 1..Len(rotation), PickWork(n) PROVE FairInv'
  BY <1>1, <1>4, <1>15, FairPick
<1>16. CASE \/ AcceptOpen \/ AcceptClose \/ AcceptReplace \/ AcceptCancelClass
            \/ InsertWork \/ InsertDone \/ DrainEmpty
            \/ (\E d \in Doc : FlushSent(d) \/ FlushLeave(d))
  <2>1. UNCHANGED <<rotation, overtaken>>
    BY <1>16 DEF AcceptOpen, AcceptClose, AcceptReplace, AcceptCancelClass, Accept,
         InsertWork, InsertDone, DrainEmpty, FlushSent, FlushLeave, FlushStep, docVars
  <2> QED BY <1>8, <2>1, Zenon
<1>17. CASE \/ NothingRunnable \/ IdleTimeout \/ StartOpen \/ OpenCancelled \/ OpenSucceeded
            \/ OpenFailed \/ WorkDiscarded \/ WorkCancelled \/ StartWork \/ WorkReady
            \/ WorkFailed
  <2>1. UNCHANGED <<rotation, overtaken>>
    BY <1>17 DEF NothingRunnable, IdleTimeout, StartOpen, OpenCancelled, OpenSucceeded,
         OpenFailed, WorkDiscarded, WorkCancelled, StartWork, WorkReady, WorkFailed, EndJob,
         docVars
  <2> QED BY <1>8, <2>1, Zenon
<1> QED BY <1>10, <1>11, <1>12, <1>13, <1>14, <1>15, <1>16, <1>17
        DEF Next, OwnerStep, AcceptStep, Stopped

(* A document is not starved by those as urgent as it: for any number of  *)
(* documents, a document with runnable work of the greatest priority is       *)
(* passed over fewer times than there are documents before the rotation of    *)
(* next_work reaches it.                                                      *)
THEOREM RotationAlwaysFair == Spec => []RotationIsFair
<1>1. FairInv => RotationIsFair
  BY DEF FairInv, RotationIsFair
<1>2. Init => FairInv
  BY FairInit
<1>3. SupervisorInv /\ SupervisorInv' /\ FairInv /\ [Next]_vars => FairInv'
  BY FairNext
<1> QED BY <1>1, <1>2, <1>3, SupervisorInvariant, PTL DEF Spec
=============================================================================

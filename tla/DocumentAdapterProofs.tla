----------------------- MODULE DocumentAdapterProofs -----------------------
(****************************************************************************)
(* Proofs about DocumentAdapter: nothing of one document is shown, searched,  *)
(* analysed or cached under another's generation, and one event of the engine *)
(* at most is in the mailbox, for every scenario, every capacity and every    *)
(* number of pages and cached pages.  AdapterInv says                         *)
(*   StateOk    what the adapter holds is of its document                     *)
(*   EngineOk   so is what the engine serves, opens and works on for it       *)
(*   MessageOk  an answer under way that a demand still waits for is, too     *)
(*   IsOwn      so is what has been sent to the reader                        *)
(*   RoutedInv  the flag of the route and the events in the mailbox agree     *)
(*                                                                          *)
(* A demand and its answer find each other by a key.  That an answer is of the *)
(* document is known only while the demand waits: the request numbers grow for *)
(* ever, and a new document forgets all demands, so an answer to an earlier    *)
(* one matches nothing (Successor, Restart).                                  *)
(****************************************************************************)
EXTENDS DocumentAdapter, FiniteSetTheorems, TLAPS

\* A sequence of whatever
IsSeq(s) == \E S : s \in Seq(S)

\* What the reader is sent is of the document it is sent for.
IsOwn(e) ==
  /\ e.event \in {"raster", "text", "results"} => e.doc = e.gen
  /\ e.event = "analysis" => e.docs \subseteq {e.gen}

OwnSeq(s) == IsSeq(s) /\ \A i \in DOMAIN s : IsOwn(s[i])

\* A key of a demand made so far
KeyOk(k, requests) == /\ k.gen \in Nat \ {0}
                      /\ k.id \in Nat
                      /\ k.id <= requests

StateFields ==
  {"gen", "session", "cache", "latest", "search", "analysis", "visible", "due",
   "pending", "requests", "background", "hibernated", "resuming", "hasOpened"}

DemandOk(d, s) == /\ d.gen = s.gen
                  /\ d.page \in Page
                  /\ KeyOk(d.key, s.requests)

SearchOk(search, g) == /\ search = NoSearch \/ search.gen = g
                       /\ DOMAIN search = DOMAIN NoSearch
                       /\ search.next \in Nat

AnalysisOk(analysis, g) == /\ analysis = NoAnalysis \/ analysis.gen = g
                           /\ DOMAIN analysis = DOMAIN NoAnalysis
                           /\ analysis.docs \subseteq {g}
                           /\ analysis.next \in Nat

StateOk(s) ==
  /\ DOMAIN s = StateFields
  /\ s.gen \in Nat
  /\ s.requests \in Nat
  /\ s.session = NoSession \/ s.session.gen \in Nat \ {0}
  /\ \A p \in Page : s.cache[p] \in {0, s.gen}
  /\ SearchOk(s.search, s.gen)
  /\ AnalysisOk(s.analysis, s.gen)
  /\ s.visible \subseteq Page
  /\ \A d \in s.pending : DemandOk(d, s)

\* Work the engine has for the document
WorkOk(w, requests) == w.class # "open" /\ KeyOk(w.key, requests)

OpeningOk(o, e, g) ==
  /\ o.class = "open"
  /\ o.token \in Nat
  /\ o.token <= e.token
  /\ <<"open", o.token>> \in e.live => o.doc = g

EngineOk(e, g, requests) ==
  /\ DOMAIN e = DOMAIN NewEngine
  /\ e.token \in Nat
  /\ e.opens \in Nat
  /\ e.gen \in Nat
  /\ e.gen # 0 => e.doc = g
  /\ \A o \in e.opening : OpeningOk(o, e, g)
  /\ \A w \in e.work : WorkOk(w, requests)
  /\ \A w \in e.running : OpeningOk(w, e, g) \/ WorkOk(w, requests)

\* A call the adapter may make
CallOk(call, g, requests) ==
  /\ call.op \in {"none", "close", "open", "replace"}
  /\ call.op = "open" => call.doc = g
  /\ call.op = "replace" => /\ call.class # "open"
                            /\ \A k \in call.demands : KeyOk(k, requests)

\* An event of the engine; what a demand still waits for is of the document.
EventOk(e, s) ==
  /\ "command" \notin DOMAIN e
  /\ e.event = "opened" => e.gen \in Nat \ {0}
  /\ e.event \in {"ready", "failed"} =>
       /\ KeyOk(e.key, s.requests)
       /\ \A d \in s.pending : d.key = e.key => e.doc = s.gen

IsEvent(m) == "event" \in DOMAIN m

CommandOk(c) ==
  /\ c.command = "open" => c.gen \in Nat \ {0}
  /\ c.command \in {"viewport", "preview", "copy"} => c.pages \subseteq Page

MessageOk(m, s) == IF IsEvent(m) THEN EventOk(m, s) ELSE CommandOk(m)

\* Where the events of the engine are in the mailbox
EventsIn(box) == {i \in DOMAIN box : IsEvent(box[i])}

RoutedInv == /\ routed \in BOOLEAN
             /\ ~routed => EventsIn(mailbox) = {}
             /\ routed => \E k \in DOMAIN mailbox : EventsIn(mailbox) = {k}

QueuesInv ==
  /\ IsSeq(mailbox)
  /\ \A i \in DOMAIN mailbox : MessageOk(mailbox[i], st)
  /\ IsSeq(engineOut)
  /\ \A i \in DOMAIN engineOut : IsEvent(engineOut[i]) /\ EventOk(engineOut[i], st)

ReportsInv == OwnSeq(outgoing) /\ OwnSeq(uiEvents)

\* What is to be called once the events have been sent
DeferredInv ==
  /\ DOMAIN deferred = {"cancel", "call"}
  /\ deferred.call.op # "open"
  /\ CallOk(deferred.call, st.gen, st.requests)

ReaderOk == "gen" \in DOMAIN reader /\ reader.gen \in Nat

AdapterInv ==
  /\ uses \in Scenario
  /\ ReaderOk
  /\ StateOk(st)
  /\ adapterPc = "analyse" => st.session # NoSession
  /\ EngineOk(engine, st.gen, st.requests)
  /\ QueuesInv
  /\ ReportsInv
  /\ DeferredInv
  /\ RoutedInv

-----------------------------------------------------------------------------
(* Sequences *)

LEMMA SeqOfNothing ==
  ASSUME NEW s, s = <<>>
  PROVE  IsSeq(s) /\ Len(s) = 0
<1>1. s \in Seq({})
  OBVIOUS
<1>2. Len(s) = 0
  OBVIOUS
<1>3. IsSeq(s)
  BY <1>1 DEF IsSeq
<1> QED BY <1>2, <1>3

LEMMA SingleSeq ==
  ASSUME NEW a
  PROVE  IsSeq(<<a>>) /\ DOMAIN <<a>> = {1} /\ <<a>>[1] = a /\ <<a>> # <<>>
<1>1. PICK s : s = <<a>>
  OBVIOUS
<1>2. s \in Seq({a}) /\ Len(s) = 1 /\ s[1] = a
  BY <1>1
<1>3. DOMAIN s = {1} /\ s # <<>>
  BY <1>2
<1>4. IsSeq(s)
  BY <1>2 DEF IsSeq
<1> QED BY <1>1, <1>2, <1>3, <1>4

LEMMA SeqDomain ==
  ASSUME NEW s, IsSeq(s)
  PROVE  Len(s) \in Nat /\ DOMAIN s = 1..Len(s)
<1>1. PICK S : s \in Seq(S)
  BY DEF IsSeq
<1> QED BY <1>1

LEMMA SeqHead ==
  ASSUME NEW s, IsSeq(s), s # <<>>
  PROVE  Len(s) > 0 /\ Len(s) \in Nat /\ 1 \in DOMAIN s /\ Head(s) = s[1]
<1>1. PICK S : s \in Seq(S)
  BY DEF IsSeq
<1> QED BY <1>1

LEMMA SeqTail ==
  ASSUME NEW s, IsSeq(s), s # <<>>
  PROVE  /\ IsSeq(Tail(s))
         /\ DOMAIN Tail(s) = 1..(Len(s) - 1)
         /\ \A i \in DOMAIN Tail(s) : i + 1 \in DOMAIN s /\ Tail(s)[i] = s[i + 1]
<1>1. PICK S : s \in Seq(S)
  BY DEF IsSeq
<1>2. Tail(s) \in Seq(S) /\ DOMAIN Tail(s) = 1..(Len(s) - 1)
  BY <1>1
<1>3. IsSeq(Tail(s))
  BY <1>2 DEF IsSeq
<1>4. ASSUME NEW i \in DOMAIN Tail(s)
      PROVE  i + 1 \in DOMAIN s /\ Tail(s)[i] = s[i + 1]
  BY <1>1, <1>2
<1> QED BY <1>2, <1>3, <1>4

LEMMA SeqAppend ==
  ASSUME NEW s, NEW a, IsSeq(s)
  PROVE  /\ IsSeq(Append(s, a))
         /\ DOMAIN Append(s, a) = 1..(Len(s) + 1)
         /\ \A i \in DOMAIN s : Append(s, a)[i] = s[i]
         /\ Append(s, a)[Len(s) + 1] = a
<1>1. PICK S : s \in Seq(S)
  BY DEF IsSeq
<1>2. s \in Seq(S \cup {a})
  BY <1>1
<1>3. Append(s, a) \in Seq(S \cup {a})
  BY <1>2
<1>4. IsSeq(Append(s, a))
  BY <1>3 DEF IsSeq
<1> QED BY <1>2, <1>4

LEMMA OwnTail ==
  ASSUME NEW s, OwnSeq(s), s # <<>>
  PROVE  OwnSeq(Tail(s)) /\ OwnSeq(<<Head(s)>>)
<1>1. \A i \in DOMAIN Tail(s) : IsOwn(Tail(s)[i])
  BY SeqTail DEF OwnSeq
<1>2. IsOwn(Head(s))
  BY SeqHead DEF OwnSeq
<1> QED BY <1>1, <1>2, SeqTail, SingleSeq DEF OwnSeq

LEMMA OwnSingle ==
  ASSUME NEW e, IsOwn(e)
  PROVE  OwnSeq(<<e>>) /\ <<e>> # <<>>
BY SingleSeq DEF OwnSeq

LEMMA OwnEmpty ==
  ASSUME NEW s, s = <<>>
  PROVE  OwnSeq(s)
<1>1. IsSeq(s) /\ Len(s) = 0
  BY SeqOfNothing
<1>2. DOMAIN s = 1..0
  BY <1>1, SeqDomain
<1> QED BY <1>1, <1>2 DEF OwnSeq

-----------------------------------------------------------------------------
(* The engine *)

LEMMA KeysGrow ==
  ASSUME NEW k, NEW m \in Nat, NEW n \in Nat, m <= n, KeyOk(k, m)
  PROVE  KeyOk(k, n)
BY DEF KeyOk

\* With more requests everything stays as it should be.
LEMMA EngineGrows ==
  ASSUME NEW e, NEW g, NEW m \in Nat, NEW n \in Nat, m <= n, EngineOk(e, g, m)
  PROVE  EngineOk(e, g, n)
<1>1. \A w : WorkOk(w, m) => WorkOk(w, n)
  BY KeysGrow DEF WorkOk
<1> QED BY <1>1 DEF EngineOk

LEMMA CallsGrow ==
  ASSUME NEW call, NEW g, NEW m \in Nat, NEW n \in Nat, m <= n, CallOk(call, g, m)
  PROVE  CallOk(call, g, n)
BY KeysGrow DEF CallOk

\* cancel
LEMMA CancelledOk ==
  ASSUME NEW e, NEW g, NEW r, NEW classes, NEW new, EngineOk(e, g, r),
         new = Cancelled(e, classes)
  PROVE  /\ EngineOk(new, g, r)
         /\ new.live \subseteq e.live /\ new.token = e.token
         /\ \A w \in new.work : w \in e.work
<1>1. /\ DOMAIN new = DOMAIN NewEngine
      /\ new.live = {t \in e.live : t[1] \notin classes}
      /\ new.work = {w \in e.work : w.class \notin classes}
      /\ new.token = e.token /\ new.opens = e.opens /\ new.gen = e.gen /\ new.doc = e.doc
      /\ new.opening = e.opening /\ new.running = e.running
  BY DEF Cancelled, EngineOk, NewEngine
<1>2. new.live \subseteq e.live /\ \A w \in new.work : w \in e.work
  BY <1>1
<1>3. \A o : OpeningOk(o, e, g) => OpeningOk(o, new, g)
  BY <1>1, <1>2 DEF OpeningOk
<1>4. EngineOk(new, g, r)
  BY <1>1, <1>2, <1>3 DEF EngineOk
<1> QED BY <1>1, <1>2, <1>4

\* open: what was opened before is not live any more, whatever document it is of.
LEMMA OpenCallOk ==
  ASSUME NEW e, NEW g, NEW old, NEW r, NEW new, EngineOk(e, old, r),
         new = Called(e, Open(g))
  PROVE  EngineOk(new, g, r)
<1>1. PICK fresh : fresh = e.token + 1
  OBVIOUS
<1>2. PICK opening : opening = [class |-> "open", doc |-> g, token |-> fresh]
  OBVIOUS
<1>3. new = [e EXCEPT !.doc = 0, !.gen = 0, !.work = {}, !.opening = {opening},
                      !.live = {<<"open", fresh>>}, !.token = fresh]
  BY <1>1, <1>2 DEF Called, Open, EngineOk, NewEngine
<1>4. /\ DOMAIN new = DOMAIN NewEngine
      /\ new.doc = 0 /\ new.gen = 0 /\ new.work = {} /\ new.opening = {opening}
      /\ new.live = {<<"open", fresh>>} /\ new.token = fresh
      /\ new.opens = e.opens /\ new.running = e.running
  BY <1>3 DEF EngineOk, NewEngine
<1>5. e.token \in Nat /\ fresh \in Nat /\ e.token < fresh
  BY <1>1 DEF EngineOk
<1>6. OpeningOk(opening, new, g)
  BY <1>2, <1>4, <1>5 DEF OpeningOk
<1>7. ASSUME NEW o, OpeningOk(o, e, old)
      PROVE  OpeningOk(o, new, g)
  <2>1. o.class = "open" /\ o.token \in Nat /\ o.token <= e.token
    BY <1>7 DEF OpeningOk
  <2>2. o.token # fresh
    BY <1>5, <2>1
  <2>3. <<"open", o.token>> \notin new.live
    BY <1>4, <2>2
  <2> QED BY <1>4, <1>5, <2>1, <2>3 DEF OpeningOk
<1>8. \A w \in new.running : OpeningOk(w, new, g) \/ WorkOk(w, r)
  BY <1>4, <1>7 DEF EngineOk
<1> QED BY <1>4, <1>5, <1>6, <1>8 DEF EngineOk

\* close
LEMMA CloseCallOk ==
  ASSUME NEW e, NEW g, NEW r, NEW new, EngineOk(e, g, r), NEW call, call.op = "close",
         new = Called(e, call)
  PROVE  EngineOk(new, g, r)
<1>1. new = [e EXCEPT !.doc = 0, !.gen = 0, !.work = {}, !.opening = {}, !.live = {}]
  BY DEF Called
<1>2. /\ DOMAIN new = DOMAIN NewEngine
      /\ new.doc = 0 /\ new.gen = 0 /\ new.work = {} /\ new.opening = {} /\ new.live = {}
      /\ new.token = e.token /\ new.opens = e.opens /\ new.running = e.running
  BY <1>1 DEF EngineOk, NewEngine
<1>3. \A o : OpeningOk(o, e, g) => OpeningOk(o, new, g)
  BY <1>2 DEF OpeningOk
<1> QED BY <1>2, <1>3 DEF EngineOk

\* replace_*
LEMMA ReplaceCallOk ==
  ASSUME NEW e, NEW g, NEW r, NEW new, EngineOk(e, g, r), NEW call, call.op = "replace",
         CallOk(call, g, r), new = Called(e, call)
  PROVE  EngineOk(new, g, r)
<1>1. PICK class : class = call.class
  OBVIOUS
<1>2. PICK fresh : fresh = e.token + 1
  OBVIOUS
<1>3. PICK mid : mid = Cancelled(e, {class})
  OBVIOUS
<1>4. PICK work : work = {[class |-> class, key |-> k, token |-> fresh] : k \in call.demands}
  OBVIOUS
<1>5. EngineOk(mid, g, r) /\ mid.live \subseteq e.live /\ mid.token = e.token
  BY <1>3, CancelledOk
<1>6. new = [mid EXCEPT !.live = @ \cup {<<class, fresh>>}, !.work = @ \cup work,
                        !.token = fresh]
  BY <1>1, <1>2, <1>3, <1>4 DEF Called
<1>7. /\ DOMAIN new = DOMAIN NewEngine
      /\ new.live = mid.live \cup {<<class, fresh>>} /\ new.work = mid.work \cup work
      /\ new.token = fresh
      /\ new.doc = mid.doc /\ new.gen = mid.gen /\ new.opening = mid.opening
      /\ new.opens = mid.opens /\ new.running = mid.running
  BY <1>5, <1>6 DEF EngineOk, NewEngine
<1>8. mid.token \in Nat /\ fresh \in Nat /\ mid.token <= fresh
  BY <1>2, <1>5 DEF EngineOk
<1>9. class # "open" /\ \A k \in call.demands : KeyOk(k, r)
  BY <1>1 DEF CallOk
<1>10. ASSUME NEW o, OpeningOk(o, mid, g)
       PROVE  OpeningOk(o, new, g)
  <2>1. o.class = "open" /\ o.token \in Nat /\ o.token <= mid.token
        /\ (<<"open", o.token>> \in mid.live => o.doc = g)
    BY <1>10 DEF OpeningOk
  <2>2. <<"open", o.token>> \in new.live => <<"open", o.token>> \in mid.live
    BY <1>7, <1>9
  <2>3. o.token <= new.token
    BY <1>7, <1>8, <2>1
  <2> QED BY <2>1, <2>2, <2>3 DEF OpeningOk
<1>11. \A w \in work : WorkOk(w, r)
  BY <1>4, <1>9 DEF WorkOk
<1> QED BY <1>5, <1>7, <1>8, <1>10, <1>11 DEF EngineOk

\* Any call the adapter or the reader may make
LEMMA CalledOk ==
  ASSUME NEW e, NEW g, NEW r, NEW new, EngineOk(e, g, r), NEW call, CallOk(call, g, r),
         new = Called(e, call)
  PROVE  EngineOk(new, g, r)
<1>1. CASE call.op = "none"
  <2>1. new = e
    BY <1>1 DEF Called
  <2> QED BY <2>1
<1>2. CASE call.op = "close"
  BY <1>2, CloseCallOk
<1>3. CASE call.op = "replace"
  BY <1>3, ReplaceCallOk
<1>4. CASE call.op = "open"
  <2>1. Called(e, call) = Called(e, Open(g))
    BY <1>4 DEF CallOk, Called, Open
  <2> QED BY <2>1, OpenCallOk
<1> QED BY <1>1, <1>2, <1>3, <1>4 DEF CallOk

-----------------------------------------------------------------------------
(* The adapter's state *)

\* What a handler makes of the state s0 while the document stays
Follows(s0, s) ==
  /\ StateOk(s)
  /\ s.gen = s0.gen
  /\ s0.requests <= s.requests
  /\ \A d \in s.pending : d \in s0.pending \/ ~(d.key.id <= s0.requests)

LEMMA FollowsItself ==
  ASSUME NEW s, StateOk(s)
  PROVE  Follows(s, s)
BY DEF Follows, StateOk

LEMMA FollowsTwice ==
  ASSUME NEW s0, NEW s1, NEW s, StateOk(s0), Follows(s0, s1), Follows(s1, s)
  PROVE  Follows(s0, s)
<1>1. /\ s0.requests \in Nat /\ s1.requests \in Nat /\ s.requests \in Nat
      /\ s0.requests <= s1.requests /\ s1.requests <= s.requests
      /\ s1.gen = s0.gen /\ s.gen = s1.gen /\ StateOk(s)
  BY DEF Follows, StateOk
<1>2. ASSUME NEW d \in s.pending
      PROVE  d \in s0.pending \/ ~(d.key.id <= s0.requests)
  <2>1. d.key.id \in Nat
    BY <1>1 DEF StateOk, DemandOk, KeyOk
  <2>2. d \in s1.pending \/ ~(d.key.id <= s1.requests)
    BY DEF Follows
  <2>3. d \in s1.pending => d \in s0.pending \/ ~(d.key.id <= s0.requests)
    BY DEF Follows
  <2> QED BY <1>1, <2>1, <2>2, <2>3
<1> QED BY <1>1, <1>2 DEF Follows

\* A state of the same document with no new demands, part by part
LEMMA Adjusted ==
  ASSUME NEW s0, NEW s, StateOk(s0), DOMAIN s = StateFields,
         s.gen = s0.gen, s.requests = s0.requests, s.pending \subseteq s0.pending,
         s.session = NoSession \/ s.session.gen \in Nat \ {0},
         \A p \in Page : s.cache[p] \in {0, s0.gen},
         SearchOk(s.search, s0.gen), AnalysisOk(s.analysis, s0.gen),
         s.visible \subseteq Page
  PROVE  Follows(s0, s)
<1>1. \A d \in s.pending : DemandOk(d, s)
  BY DEF StateOk, DemandOk
<1>2. s.gen \in Nat /\ s.requests \in Nat /\ s0.requests <= s.requests
  BY DEF StateOk
<1>3. StateOk(s)
  BY <1>1, <1>2 DEF StateOk
<1> QED BY <1>2, <1>3 DEF Follows

\* An answer under way stays what it is: a demand it matches was there before.
LEMMA EventFollows ==
  ASSUME NEW s0, NEW s, NEW e, StateOk(s0), Follows(s0, s), EventOk(e, s0)
  PROVE  EventOk(e, s)
<1>1. s0.requests \in Nat /\ s.requests \in Nat /\ s0.requests <= s.requests /\ s.gen = s0.gen
  BY DEF Follows, StateOk
<1>2. ASSUME e.event \in {"ready", "failed"}
      PROVE  /\ KeyOk(e.key, s.requests)
             /\ \A d \in s.pending : d.key = e.key => e.doc = s.gen
  <2>1. /\ KeyOk(e.key, s0.requests)
        /\ \A d \in s0.pending : d.key = e.key => e.doc = s0.gen
    BY <1>2 DEF EventOk
  <2>2. KeyOk(e.key, s.requests)
    BY <1>1, <2>1, KeysGrow
  <2>3. ASSUME NEW d \in s.pending, d.key = e.key
        PROVE  e.doc = s.gen
    <3>1. d.key.id <= s0.requests
      BY <2>1, <2>3 DEF KeyOk
    <3>2. d \in s0.pending
      BY <3>1 DEF Follows
    <3> QED BY <1>1, <2>1, <2>3, <3>2
  <2> QED BY <2>2, <2>3
<1> QED BY <1>2 DEF EventOk

\* A new document has no demands, so every answer under way is as it should be.
LEMMA EventForgotten ==
  ASSUME NEW s0, NEW s, NEW e, s.pending = {}, s.requests = s0.requests, EventOk(e, s0)
  PROVE  EventOk(e, s)
BY DEF EventOk

LEMMA NoSearchOk == ASSUME NEW g PROVE SearchOk(NoSearch, g)
BY DEF SearchOk, NoSearch

LEMMA NoAnalysisOk == ASSUME NEW g PROVE AnalysisOk(NoAnalysis, g)
BY DEF AnalysisOk, NoAnalysis

\* WorkerState::reset_for_open
LEMMA ResetOk ==
  ASSUME StateOk(st), NEW g \in Nat, NEW s, s = ResetForOpen(g)
  PROVE  /\ StateOk(s) /\ s.gen = g /\ s.requests = st.requests /\ s.pending = {}
         /\ s.session = NoSession
<1>1. /\ DOMAIN s = StateFields
      /\ s.gen = g /\ s.requests = st.requests /\ s.pending = {} /\ s.session = NoSession
      /\ s.cache = [p \in Page |-> 0] /\ s.search = NoSearch /\ s.analysis = NoAnalysis
      /\ s.visible = {}
  BY DEF ResetForOpen, NewState, StateFields
<1>2. \A p \in Page : s.cache[p] = 0
  BY <1>1
<1>3. SearchOk(s.search, s.gen) /\ AnalysisOk(s.analysis, s.gen)
  BY <1>1, NoSearchOk, NoAnalysisOk
<1>4. s.requests \in Nat
  BY <1>1 DEF StateOk
<1> QED BY <1>1, <1>2, <1>3, <1>4 DEF StateOk

LEMMA DroppingOk ==
  ASSUME NEW s0, StateOk(s0), NEW classes, NEW s, s = Dropping(s0, classes)
  PROVE  /\ Follows(s0, s)
         /\ s.session = s0.session /\ s.cache = s0.cache /\ s.search = s0.search
         /\ s.analysis = s0.analysis /\ s.requests = s0.requests
<1>1. /\ DOMAIN s = StateFields
      /\ s.gen = s0.gen /\ s.requests = s0.requests /\ s.session = s0.session
      /\ s.cache = s0.cache /\ s.search = s0.search /\ s.analysis = s0.analysis
      /\ s.visible = s0.visible
      /\ s.pending = {d \in s0.pending : d.class \notin classes}
  BY DEF Dropping, StateOk, StateFields
<1>2. s.pending \subseteq s0.pending
  BY <1>1
<1>3. Follows(s0, s)
  BY <1>1, <1>2, Adjusted DEF StateOk
<1> QED BY <1>1, <1>3

\* A search or an analysis that does not wait
LEMMA WaitingOk ==
  ASSUME NEW g, NEW flag \in BOOLEAN
  PROVE  /\ \A j : SearchOk(j, g) /\ (flag => j.gen = g) => SearchOk([j EXCEPT !.waiting = flag], g)
         /\ \A j : AnalysisOk(j, g) /\ (flag => j.gen = g) => AnalysisOk([j EXCEPT !.waiting = flag], g)
<1>1. ASSUME NEW j, SearchOk(j, g), flag => j.gen = g
      PROVE  SearchOk([j EXCEPT !.waiting = flag], g)
  <2>1. PICK k : k = [j EXCEPT !.waiting = flag]
    OBVIOUS
  <2>2. DOMAIN k = DOMAIN NoSearch /\ k.next = j.next /\ k.gen = j.gen
    BY <1>1, <2>1 DEF SearchOk, NoSearch
  <2>3. CASE j.gen = g
    BY <1>1, <2>1, <2>2, <2>3 DEF SearchOk
  <2>4. CASE j = NoSearch /\ ~flag
    <3>1. k = NoSearch
      BY <2>1, <2>4 DEF NoSearch
    <3> QED BY <2>1, <3>1, NoSearchOk
  <2> QED BY <1>1, <2>3, <2>4 DEF SearchOk
<1>2. ASSUME NEW j, AnalysisOk(j, g), flag => j.gen = g
      PROVE  AnalysisOk([j EXCEPT !.waiting = flag], g)
  <2>1. PICK k : k = [j EXCEPT !.waiting = flag]
    OBVIOUS
  <2>2. DOMAIN k = DOMAIN NoAnalysis /\ k.next = j.next /\ k.gen = j.gen /\ k.docs = j.docs
    BY <1>2, <2>1 DEF AnalysisOk, NoAnalysis
  <2>3. CASE j.gen = g
    BY <1>2, <2>1, <2>2, <2>3 DEF AnalysisOk
  <2>4. CASE j = NoAnalysis /\ ~flag
    <3>1. k = NoAnalysis
      BY <2>1, <2>4 DEF NoAnalysis
    <3> QED BY <2>1, <3>1, NoAnalysisOk
  <2> QED BY <1>2, <2>3, <2>4 DEF AnalysisOk
<1> QED BY <1>1, <1>2

\* WorkerState::pause_background
LEMMA PausedOk ==
  ASSUME StateOk(st), NEW s, s = Paused(st)
  PROVE  Follows(st, s)
<1>1. PICK s1 : s1 = Dropping(st, {"search", "analysis"})
  OBVIOUS
<1>2. Follows(st, s1) /\ StateOk(s1)
  BY <1>1, DroppingOk DEF Follows
<1>3. PICK search : search = [s1.search EXCEPT !.waiting = FALSE]
  OBVIOUS
<1>4. PICK analysis : analysis = [s1.analysis EXCEPT !.waiting = FALSE]
  OBVIOUS
<1>5. SearchOk(search, s1.gen) /\ AnalysisOk(analysis, s1.gen)
  BY <1>2, <1>3, <1>4, WaitingOk DEF StateOk
<1>6. s = [s1 EXCEPT !.background = FALSE, !.visible = {}, !.due = FALSE,
                     !.search.waiting = FALSE, !.analysis.waiting = FALSE]
  BY <1>1 DEF Paused
<1>7. /\ DOMAIN s = StateFields
      /\ s.gen = s1.gen /\ s.requests = s1.requests /\ s.session = s1.session
      /\ s.cache = s1.cache /\ s.search = search /\ s.analysis = analysis
      /\ s.visible = {} /\ s.pending = s1.pending
  BY <1>2, <1>3, <1>4, <1>6 DEF StateOk, StateFields
<1>8. Follows(s1, s)
  BY <1>2, <1>5, <1>7, Adjusted DEF StateOk
<1> QED BY <1>2, <1>8, FollowsTwice

\* The demands of the pages get numbers nobody had.
LEMMA NumbersAreNew ==
  ASSUME uses \in Scenario, NEW pages \in SUBSET Page, NEW p \in pages
  PROVE  LET upto == Cardinality({q \in pages : q <= p}) IN
         /\ upto \in Nat /\ upto > 0
         /\ Cardinality(pages) \in Nat /\ upto <= Cardinality(pages)
<1>1. uses.pages \in Nat
  BY AdapterAssumption
<1>2. IsFiniteSet(Page) /\ p \in Int
  BY <1>1, FS_Interval DEF Page, PageCount
<1>3. IsFiniteSet(pages) /\ Cardinality(pages) \in Nat
  BY <1>2, FS_Subset, FS_CardinalityType
<1>4. PICK T : T = {q \in pages : q <= p}
  OBVIOUS
<1>5. T \subseteq pages /\ p \in T
  BY <1>2, <1>4
<1>6. IsFiniteSet(T) /\ Cardinality(T) <= Cardinality(pages)
  BY <1>3, <1>5, FS_Subset
<1>7. Cardinality(T) \in Nat /\ Cardinality(T) # 0
  BY <1>5, <1>6, FS_CardinalityType, FS_EmptySet
<1>8. Cardinality(T) > 0
  BY <1>7
<1> QED BY <1>3, <1>4, <1>6, <1>7, <1>8

LEMMA PagesCounted ==
  ASSUME uses \in Scenario, NEW pages \in SUBSET Page
  PROVE  Cardinality(pages) \in Nat
<1>1. uses.pages \in Nat
  BY AdapterAssumption
<1>2. IsFiniteSet(Page)
  BY <1>1, FS_Interval DEF Page, PageCount
<1> QED BY <1>2, FS_Subset, FS_CardinalityType

\* session.*_demand: the demands are of the document and have new keys.
LEMMA DemandedOk ==
  ASSUME uses \in Scenario, NEW s0, StateOk(s0), s0.session # NoSession,
         NEW class, NEW pages \in SUBSET Page, NEW rev, NEW s,
         s = Demanded(s0, class, pages, rev)
  PROVE  /\ Follows(s0, s)
         /\ s.session = s0.session /\ s.cache = s0.cache /\ s.search = s0.search
         /\ s.analysis = s0.analysis /\ s.visible = s0.visible
<1>1. PICK Id : Id = [p \in pages |-> s0.requests + Cardinality({q \in pages : q <= p})]
  OBVIOUS
<1>2. PICK new :
        new = {[class |-> class, key |-> [gen |-> s0.session.gen, id |-> Id[p]],
                gen |-> s0.gen, page |-> p, rev |-> rev] : p \in pages}
  OBVIOUS
<1>3. s = [s0 EXCEPT !.pending = @ \cup new, !.requests = @ + Cardinality(pages)]
  <2>1. new = {[class |-> class,
                key |-> [gen |-> s0.session.gen,
                         id |-> s0.requests + Cardinality({q \in pages : q <= p})],
                gen |-> s0.gen, page |-> p, rev |-> rev] : p \in pages}
    BY <1>1, <1>2
  <2> QED BY <2>1 DEF Demanded
<1>4. /\ DOMAIN s = StateFields
      /\ s.gen = s0.gen /\ s.session = s0.session /\ s.cache = s0.cache
      /\ s.search = s0.search /\ s.analysis = s0.analysis /\ s.visible = s0.visible
      /\ s.requests = s0.requests + Cardinality(pages)
      /\ s.pending = s0.pending \cup new
  BY <1>3 DEF StateOk, StateFields
<1>5. /\ s0.requests \in Nat /\ s0.session.gen \in Nat \ {0} /\ s0.gen \in Nat
      /\ Cardinality(pages) \in Nat
  BY PagesCounted DEF StateOk
<1>6. s.requests \in Nat /\ s0.requests <= s.requests
  BY <1>4, <1>5
<1>7. ASSUME NEW d \in new
      PROVE  DemandOk(d, s) /\ ~(d.key.id <= s0.requests)
  <2>1. PICK p \in pages :
          d = [class |-> class, key |-> [gen |-> s0.session.gen, id |-> Id[p]],
               gen |-> s0.gen, page |-> p, rev |-> rev]
    BY <1>2
  <2>2. d.gen = s0.gen /\ d.page = p /\ d.key.gen = s0.session.gen /\ d.key.id = Id[p]
    BY <2>1
  <2>3. PICK upto : upto = Cardinality({q \in pages : q <= p})
    OBVIOUS
  <2>4. upto \in Nat /\ upto > 0 /\ upto <= Cardinality(pages)
    BY <2>3, NumbersAreNew
  <2>5. d.key.id = s0.requests + upto
    BY <1>1, <2>2, <2>3
  <2>6. d.key.id \in Nat /\ d.key.id <= s.requests /\ ~(d.key.id <= s0.requests)
    BY <1>4, <1>5, <2>4, <2>5
  <2>7. KeyOk(d.key, s.requests)
    BY <1>5, <2>2, <2>6 DEF KeyOk
  <2> QED BY <1>4, <2>2, <2>6, <2>7 DEF DemandOk
<1>8. ASSUME NEW d \in s0.pending
      PROVE  DemandOk(d, s)
  <2>1. DemandOk(d, s0)
    BY DEF StateOk
  <2> QED BY <1>4, <1>5, <1>6, <2>1, KeysGrow DEF DemandOk
<1>9. \A d \in s.pending : DemandOk(d, s)
  BY <1>4, <1>7, <1>8
<1>10. StateOk(s)
  BY <1>4, <1>6, <1>9 DEF StateOk
<1>11. \A d \in s.pending : d \in s0.pending \/ ~(d.key.id <= s0.requests)
  BY <1>4, <1>7
<1> QED BY <1>4, <1>6, <1>10, <1>11 DEF Follows

\* The keys given to the engine are those of demands.
LEMMA KeysDemanded ==
  ASSUME NEW s, StateOk(s), NEW class, class # "open", NEW call,
         call = Replace(class, DemandKeys(s, class))
  PROVE  CallOk(call, s.gen, s.requests) /\ call.op = "replace"
<1>1. PICK keys : keys = DemandKeys(s, class)
  OBVIOUS
<1>2. call.op = "replace" /\ call.class = class /\ call.demands = keys
  BY <1>1 DEF Replace
<1>3. \A k \in keys : KeyOk(k, s.requests)
  BY <1>1 DEF DemandKeys, StateOk, DemandOk
<1> QED BY <1>2, <1>3 DEF CallOk

\* Cancellations, close and open
LEMMA OtherCalls ==
  ASSUME NEW g, NEW r
  PROVE  /\ CallOk(NoCall, g, r) /\ NoCall.op = "none"
         /\ CallOk(Close, g, r) /\ Close.op = "close"
         /\ CallOk(Open(g), g, r)
BY DEF CallOk, NoCall, Close, Open

LEMMA CallsFields ==
  ASSUME NEW classes, NEW call, NEW calls, calls = Calls(classes, call)
  PROVE  DOMAIN calls = {"cancel", "call"} /\ calls.call = call
BY DEF Calls

\* cache_completed_text: text of the document goes into its cache, and the page has
\* text then.
LEMMA CachedOk ==
  ASSUME NEW s0, StateOk(s0), NEW page \in Page, NEW doc, doc = s0.gen,
         NEW s \in Cached(s0, page, doc)
  PROVE  /\ Follows(s0, s)
         /\ s.cache[page] = s0.gen
         /\ s.session = s0.session /\ s.search = s0.search /\ s.analysis = s0.analysis
<1>1. CASE s0.cache[page] # 0
  <2>1. s = s0
    BY <1>1 DEF Cached
  <2> QED BY <1>1, <2>1, FollowsItself DEF StateOk
<1>2. CASE s0.cache[page] = 0
  <2>1. PICK k : s = [s0 EXCEPT !.cache = [p \in Page |->
                        IF p = page THEN doc ELSE IF p \in k THEN s0.cache[p] ELSE 0]]
    BY <1>2 DEF Cached
  <2>2. PICK cache : cache = [p \in Page |->
                        IF p = page THEN doc ELSE IF p \in k THEN s0.cache[p] ELSE 0]
    OBVIOUS
  <2>3. /\ DOMAIN s = StateFields
        /\ s.gen = s0.gen /\ s.requests = s0.requests /\ s.session = s0.session
        /\ s.search = s0.search /\ s.analysis = s0.analysis /\ s.visible = s0.visible
        /\ s.pending = s0.pending /\ s.cache = cache
    BY <2>1, <2>2 DEF StateOk, StateFields
  <2>4. cache[page] = doc /\ \A p \in Page : cache[p] \in {0, s0.gen}
    BY <2>2 DEF StateOk
  <2>5. Follows(s0, s)
    BY <2>3, <2>4, Adjusted DEF StateOk
  <2> QED BY <2>3, <2>4, <2>5
<1> QED BY <1>1, <1>2

\* ingest_scientific_page
LEMMA IngestedOk ==
  ASSUME NEW s0, StateOk(s0), NEW page \in Nat, NEW doc, doc = s0.gen,
         NEW s, s = Ingested(s0, page, doc)
  PROVE  Follows(s0, s)
<1>1. CASE s0.analysis = NoAnalysis \/ s0.analysis.next # page
  <2>1. s = s0
    BY <1>1 DEF Ingested
  <2> QED BY <2>1, FollowsItself
<1>2. CASE ~(s0.analysis = NoAnalysis \/ s0.analysis.next # page)
  <2>1. PICK analysis : analysis = [s0.analysis EXCEPT !.next = page + 1, !.docs = @ \cup {doc}]
    OBVIOUS
  <2>2. AnalysisOk(s0.analysis, s0.gen)
    BY DEF StateOk
  <2>3. /\ DOMAIN analysis = DOMAIN NoAnalysis /\ analysis.gen = s0.gen
        /\ analysis.next = page + 1 /\ analysis.docs = s0.analysis.docs \cup {doc}
    BY <1>2, <2>1, <2>2 DEF AnalysisOk, NoAnalysis
  <2>4. AnalysisOk(analysis, s0.gen)
    BY <2>2, <2>3 DEF AnalysisOk
  <2>5. s = [s0 EXCEPT !.analysis.next = page + 1, !.analysis.docs = @ \cup {doc}]
    BY <1>2 DEF Ingested
  <2>6. /\ DOMAIN s = StateFields
        /\ s.gen = s0.gen /\ s.requests = s0.requests /\ s.session = s0.session
        /\ s.search = s0.search /\ s.analysis = analysis /\ s.visible = s0.visible
        /\ s.pending = s0.pending /\ s.cache = s0.cache
    BY <2>1, <2>2, <2>5 DEF StateOk, StateFields, AnalysisOk, NoAnalysis
  <2> QED BY <2>4, <2>6, Adjusted DEF StateOk
<1> QED BY <1>1, <1>2

\* process_search_page: results are of the document searched.
LEMMA SearchPageOk ==
  ASSUME NEW s0, StateOk(s0), NEW page \in Nat, NEW doc, doc = s0.gen,
         NEW r \in SearchPage(s0, page, doc)
  PROVE  Follows(s0, r.state) /\ OwnSeq(r.events)
<1> DEFINE job == s0.search
<1>1. CASE job = NoSearch \/ job.next # page \/ ~Live("search", job.token)
  <2>1. r = [state |-> s0, events |-> <<>>]
    BY <1>1 DEF SearchPage
  <2>2. r.state = s0 /\ r.events = <<>>
    BY <2>1
  <2> QED BY <2>2, FollowsItself, OwnEmpty
<1>2. CASE ~(job = NoSearch \/ job.next # page \/ ~Live("search", job.token))
  <2>1. PICK results : results = [event |-> "results", gen |-> job.gen, rev |-> job.rev, doc |-> doc]
    OBVIOUS
  <2>2. PICK finished : finished = [event |-> "finished", gen |-> job.gen, rev |-> job.rev]
    OBVIOUS
  <2>3. PICK over \in BOOLEAN, hits \in BOOLEAN :
          r = [state |-> [s0 EXCEPT !.search = IF over THEN NoSearch ELSE [job EXCEPT !.next = page + 1]],
               events |-> (IF hits THEN <<results>> ELSE <<>>)
                          \o (IF over THEN <<finished>> ELSE <<>>)]
    <3>1. PICK stop \in BOOLEAN, hits \in BOOLEAN :
            LET over == stop \/ page + 1 >= PageCount IN
            r = [state |-> [s0 EXCEPT !.search = IF over THEN NoSearch ELSE [job EXCEPT !.next = page + 1]],
                 events |-> (IF hits THEN <<results>> ELSE <<>>)
                            \o (IF over THEN <<finished>> ELSE <<>>)]
      BY <1>2, <2>1, <2>2 DEF SearchPage
    <3>2. PICK over \in BOOLEAN : over = (stop \/ page + 1 >= PageCount)
      OBVIOUS
    <3> QED BY <3>1, <3>2
  <2>4. PICK search : search = IF over THEN NoSearch ELSE [job EXCEPT !.next = page + 1]
    OBVIOUS
  <2>5. SearchOk(job, s0.gen) /\ job.gen = s0.gen
    BY <1>2 DEF StateOk, SearchOk
  <2>6. SearchOk(search, s0.gen)
    <3>1. CASE over
      BY <2>4, <3>1, NoSearchOk
    <3>2. CASE ~over
      <4>1. /\ DOMAIN search = DOMAIN NoSearch
            /\ search.gen = s0.gen /\ search.next = page + 1
        BY <2>4, <2>5, <3>2 DEF SearchOk, NoSearch
      <4> QED BY <4>1 DEF SearchOk
    <3> QED BY <3>1, <3>2
  <2>7. PICK s : s = r.state
    OBVIOUS
  <2>8. s = [s0 EXCEPT !.search = search]
    BY <2>3, <2>4, <2>7
  <2>9. /\ DOMAIN s = StateFields
        /\ s.gen = s0.gen /\ s.requests = s0.requests /\ s.session = s0.session
        /\ s.search = search /\ s.analysis = s0.analysis /\ s.visible = s0.visible
        /\ s.pending = s0.pending /\ s.cache = s0.cache
    BY <2>8 DEF StateOk, StateFields
  <2>10. Follows(s0, s)
    BY <2>6, <2>9, Adjusted DEF StateOk
  <2>11. IsOwn(results) /\ IsOwn(finished)
    BY <2>1, <2>2, <2>5 DEF IsOwn
  <2>12. PICK first : first = IF hits THEN <<results>> ELSE <<>>
    OBVIOUS
  <2>13. PICK last : last = IF over THEN <<finished>> ELSE <<>>
    OBVIOUS
  <2>14. PICK S : S = {results, finished}
    OBVIOUS
  <2>15. results \in S /\ finished \in S /\ \A e \in S : IsOwn(e)
    BY <2>11, <2>14
  <2>16. first \in Seq(S)
    BY <2>12, <2>15
  <2>17. last \in Seq(S)
    BY <2>13, <2>15
  <2>18. PICK events : events = first \o last
    OBVIOUS
  <2>19. events \in Seq(S)
    BY <2>16, <2>17, <2>18
  <2>20. OwnSeq(events)
    <3>1. IsSeq(events)
      BY <2>19 DEF IsSeq
    <3>2. \A i \in DOMAIN events : IsOwn(events[i])
      BY <2>19, <2>15
    <3> QED BY <3>1, <3>2 DEF OwnSeq
  <2>21. r.events = events
    BY <2>3, <2>12, <2>13, <2>18
  <2> QED BY <2>7, <2>10, <2>20, <2>21
<1> QED BY <1>1, <1>2

-----------------------------------------------------------------------------
(* The end of a handler *)

\* The mailbox after the adapter has taken what is at its head, or left it alone
BoxTaken ==
  /\ IsSeq(mailbox')
  /\ \A i \in DOMAIN mailbox' : \E j \in DOMAIN mailbox : mailbox'[i] = mailbox[j]
  /\ RoutedInv'

LEMMA BoxLeft ==
  ASSUME AdapterInv, mailbox' = mailbox, routed' = routed
  PROVE  BoxTaken
BY DEF BoxTaken, AdapterInv, QueuesInv, RoutedInv, EventsIn

\* When the event is taken none is left.
LEMMA BoxTakes ==
  ASSUME AdapterInv, Take(Head(mailbox))
  PROVE  /\ BoxTaken
         /\ \E j \in DOMAIN mailbox : Head(mailbox) = mailbox[j]
<1>1. /\ mailbox # <<>> /\ mailbox' = Tail(mailbox)
      /\ routed' = (routed /\ "event" \notin DOMAIN Head(mailbox))
  BY DEF Take
<1>2. IsSeq(mailbox)
  BY DEF AdapterInv, QueuesInv
<1>3. /\ Len(mailbox) > 0 /\ Len(mailbox) \in Nat
      /\ 1 \in DOMAIN mailbox /\ Head(mailbox) = mailbox[1]
      /\ DOMAIN mailbox = 1..Len(mailbox)
  BY <1>1, <1>2, SeqHead, SeqDomain
<1>4. PICK rest : rest = Tail(mailbox)
  OBVIOUS
<1>5. /\ IsSeq(rest) /\ DOMAIN rest = 1..(Len(mailbox) - 1)
      /\ \A i \in DOMAIN rest : i + 1 \in DOMAIN mailbox /\ rest[i] = mailbox[i + 1]
  BY <1>1, <1>2, <1>4, SeqTail
<1>6. ASSUME NEW i \in EventsIn(rest)
      PROVE  i + 1 \in EventsIn(mailbox) /\ i + 1 # 1 /\ i \in Nat
  BY <1>3, <1>5 DEF EventsIn
<1>7. RoutedInv
  BY DEF AdapterInv
<1>8. CASE IsEvent(Head(mailbox))
  <2>1. 1 \in EventsIn(mailbox)
    BY <1>3, <1>8 DEF EventsIn
  <2>2. PICK k : EventsIn(mailbox) = {k}
    BY <1>7, <2>1 DEF RoutedInv
  <2>3. EventsIn(rest) = {}
    BY <1>6, <2>1, <2>2
  <2>4. ~routed'
    BY <1>1, <1>8 DEF IsEvent
  <2>5. RoutedInv'
    BY <1>1, <1>4, <2>3, <2>4 DEF RoutedInv, EventsIn
  <2> QED BY <1>1, <1>3, <1>4, <1>5, <2>5 DEF BoxTaken
<1>9. CASE ~IsEvent(Head(mailbox))
  <2>1. routed' = routed
    BY <1>1, <1>7, <1>9 DEF IsEvent, RoutedInv
  <2>2. 1 \notin EventsIn(mailbox)
    BY <1>3, <1>9 DEF EventsIn
  <2>3. CASE ~routed
    <3>1. EventsIn(rest) = {}
      BY <1>6, <1>7, <2>3 DEF RoutedInv
    <3>2. RoutedInv'
      BY <1>1, <1>4, <2>1, <2>3, <3>1 DEF RoutedInv, EventsIn
    <3> QED BY <1>1, <1>3, <1>4, <1>5, <3>2 DEF BoxTaken
  <2>4. CASE routed
    <3>1. PICK k \in DOMAIN mailbox : EventsIn(mailbox) = {k}
      BY <1>7, <2>4 DEF RoutedInv
    <3>2. k # 1 /\ k \in 1..Len(mailbox)
      BY <1>3, <2>2, <3>1
    <3>3. PICK m : m = k - 1
      OBVIOUS
    <3>4. m \in DOMAIN rest /\ rest[m] = mailbox[k]
      BY <1>3, <1>5, <3>2, <3>3
    <3>5. m \in EventsIn(rest)
      BY <3>1, <3>4 DEF EventsIn
    <3>6. ASSUME NEW i \in EventsIn(rest)
          PROVE  i = m
      BY <1>6, <3>1, <3>2, <3>3
    <3>7. EventsIn(rest) = {m}
      BY <3>5, <3>6
    <3>8. RoutedInv'
      BY <1>1, <1>4, <2>1, <2>4, <3>4, <3>7 DEF RoutedInv, EventsIn
    <3> QED BY <1>1, <1>3, <1>4, <1>5, <3>8 DEF BoxTaken
  <2> QED BY <1>7, <2>3, <2>4 DEF RoutedInv
<1> QED BY <1>8, <1>9

\* The calls after the events, or at once
LEMMA CallAllOk ==
  ASSUME NEW g, NEW r, NEW calls, EngineOk(engine, g, r), CallOk(calls.call, g, r),
         CallAll(calls)
  PROVE  EngineOk(engine', g, r)
<1>1. PICK mid : mid = Cancelled(engine, calls.cancel)
  OBVIOUS
<1>2. EngineOk(mid, g, r)
  BY <1>1, CancelledOk
<1>3. engine' = Called(mid, calls.call)
  BY <1>1 DEF CallAll
<1> QED BY <1>2, <1>3, CalledOk

\* What the engine has to report after calls: what it had, and perhaps a confirmation
OutGrows ==
  /\ IsSeq(engineOut')
  /\ \A i \in DOMAIN engineOut' :
       \/ \E j \in DOMAIN engineOut : engineOut'[i] = engineOut[j]
       \/ IsEvent(engineOut'[i]) /\ \A s : EventOk(engineOut'[i], s)

LEMMA OutSame ==
  ASSUME IsSeq(engineOut), engineOut' = engineOut
  PROVE  OutGrows
BY DEF OutGrows

LEMMA OutAppended ==
  ASSUME IsSeq(engineOut), NEW e, IsEvent(e), \A s : EventOk(e, s),
         engineOut' = Append(engineOut, e)
  PROVE  OutGrows
<1>1. PICK out : out = Append(engineOut, e)
  OBVIOUS
<1>2. /\ IsSeq(out) /\ DOMAIN out = 1..(Len(engineOut) + 1)
      /\ \A i \in DOMAIN engineOut : out[i] = engineOut[i]
      /\ out[Len(engineOut) + 1] = e
  BY <1>1, SeqAppend
<1>3. Len(engineOut) \in Nat /\ DOMAIN engineOut = 1..Len(engineOut)
  BY SeqDomain
<1>4. ASSUME NEW i \in DOMAIN out
      PROVE  out[i] = e \/ (i \in DOMAIN engineOut /\ out[i] = engineOut[i])
  BY <1>2, <1>3
<1> QED BY <1>1, <1>2, <1>4 DEF OutGrows

LEMMA CallAllOut ==
  ASSUME IsSeq(engineOut), NEW calls, CallAll(calls)
  PROVE  OutGrows
<1>1. PICK closed : closed = [event |-> "closed"]
  OBVIOUS
<1>2. IsEvent(closed) /\ \A s : EventOk(closed, s)
  BY <1>1 DEF IsEvent, EventOk
<1>3. engineOut' = engineOut \/ engineOut' = Append(engineOut, closed)
  BY <1>1 DEF CallAll
<1> QED BY <1>2, <1>3, OutSame, OutAppended

\* The queues, when answers that were as they should be still are
LEMMA QueuesKept ==
  ASSUME AdapterInv, BoxTaken, OutGrows, uses' = uses,
         \A e : EventOk(e, st) => EventOk(e, st')
  PROVE  QueuesInv'
<1>0. Page' = Page
  BY DEF Page, PageCount
<1>1. \A i \in DOMAIN mailbox' : MessageOk(mailbox'[i], st')
  <2>1. \A m : MessageOk(m, st) => MessageOk(m, st')
    BY DEF MessageOk
  <2>2. \A i \in DOMAIN mailbox : MessageOk(mailbox[i], st)
    BY DEF AdapterInv, QueuesInv
  <2> QED BY <2>1, <2>2 DEF BoxTaken
<1>2. \A i \in DOMAIN engineOut' : IsEvent(engineOut'[i]) /\ EventOk(engineOut'[i], st')
  <2>1. \A i \in DOMAIN engineOut : IsEvent(engineOut[i]) /\ EventOk(engineOut[i], st)
    BY DEF AdapterInv, QueuesInv
  <2> QED BY <2>1 DEF OutGrows
<1>3. IsSeq(mailbox') /\ IsSeq(engineOut')
  BY DEF BoxTaken, OutGrows
<1>4. \A i \in DOMAIN mailbox' : MessageOk(mailbox[i], st)'
  BY <1>0, <1>1 DEF MessageOk, CommandOk, EventOk, IsEvent
<1> QED BY <1>2, <1>3, <1>4 DEF QueuesInv

\* With the pages of the scenario, what is said of the next state
LEMMA NextState ==
  ASSUME uses' = uses, NEW s, s = st', StateOk(s)
  PROVE  StateOk(st)'
<1>1. Page' = Page
  BY DEF Page, PageCount
<1> QED BY <1>1 DEF StateOk, DemandOk, SearchOk, AnalysisOk, KeyOk

\* What Continue leaves behind, whatever the document is
LEMMA Continued ==
  ASSUME AdapterInv, NEW s, NEW events, NEW calls, NEW pc, Continue(s, events, calls, pc),
         StateOk(s), OwnSeq(events), DOMAIN calls = {"cancel", "call"},
         calls.call.op = "open" => events = <<>>, CallOk(calls.call, s.gen, s.requests),
         pc = "analyse" => s.session # NoSession,
         IF events = <<>> THEN EngineOk(engine', s.gen, s.requests)
                          ELSE EngineOk(engine, s.gen, s.requests),
         QueuesInv', RoutedInv'
  PROVE  AdapterInv'
<1>1. /\ st' = s /\ outgoing' = events /\ uses' = uses /\ reader' = reader
      /\ uiEvents' = uiEvents
      /\ adapterPc' = IF events = <<>> THEN GoOn(pc) ELSE pc
      /\ events = <<>> => deferred' = NoCalls
      /\ events # <<>> => deferred' = calls /\ engine' = engine
  BY DEF Continue, readerVars, engineVars
<1>2. uses' \in Scenario /\ ReaderOk'
  BY <1>1 DEF AdapterInv, ReaderOk
<1>3. StateOk(st)'
  BY <1>1, NextState
<1>4. adapterPc' = "analyse" => s.session # NoSession
  BY <1>1 DEF GoOn
<1>5. EngineOk(engine', s.gen, s.requests)
  BY <1>1
<1>6. EngineOk(engine, st.gen, st.requests)'
  BY <1>1, <1>5 DEF EngineOk, OpeningOk, WorkOk, KeyOk, NewEngine
<1>7. ReportsInv'
  <2>1. OwnSeq(outgoing') /\ OwnSeq(uiEvents')
    BY <1>1 DEF AdapterInv, ReportsInv
  <2> QED BY <2>1 DEF ReportsInv, OwnSeq, IsOwn, IsSeq
<1>8. DeferredInv'
  <2>1. CASE events = <<>>
    <3>1. deferred' = NoCalls
      BY <1>1, <2>1
    <3> QED BY <3>1 DEF DeferredInv, NoCalls, Cancel, Calls, NoCall, CallOk
  <2>2. CASE events # <<>>
    <3>1. deferred' = calls /\ st' = s
      BY <1>1, <2>2
    <3>2. CallOk(calls.call, s.gen, s.requests) /\ calls.call.op # "open"
      BY <2>2
    <3> QED BY <3>1, <3>2 DEF DeferredInv, CallOk, KeyOk
  <2> QED BY <2>1, <2>2
<1>9. (adapterPc = "analyse" => st.session # NoSession)'
  BY <1>1, <1>4 DEF NoSession
<1> QED BY <1>2, <1>3, <1>6, <1>7, <1>8, <1>9 DEF AdapterInv

\* The handlers but that of an Open: the document stays.
LEMMA Handled ==
  ASSUME AdapterInv, NEW s, NEW events, NEW calls, NEW pc, Continue(s, events, calls, pc),
         Follows(st, s), OwnSeq(events), DOMAIN calls = {"cancel", "call"},
         calls.call.op = "open" => events = <<>>, CallOk(calls.call, s.gen, s.requests),
         pc = "analyse" => s.session # NoSession, BoxTaken
  PROVE  AdapterInv'
<1>1. /\ st' = s /\ uses' = uses
      /\ events = <<>> => CallAll(calls)
      /\ events # <<>> => engine' = engine /\ engineOut' = engineOut
  BY DEF Continue, engineVars
<1>2. StateOk(st) /\ EngineOk(engine, st.gen, st.requests) /\ QueuesInv
  BY DEF AdapterInv
<1>3. StateOk(s) /\ s.gen = st.gen /\ st.requests <= s.requests
  BY DEF Follows
<1>4. EngineOk(engine, s.gen, s.requests)
  BY <1>2, <1>3, EngineGrows DEF StateOk
<1>5. IF events = <<>> THEN EngineOk(engine', s.gen, s.requests)
                       ELSE EngineOk(engine, s.gen, s.requests)
  BY <1>1, <1>4, CallAllOk
<1>6. OutGrows
  BY <1>1, <1>2, CallAllOut, OutSame DEF QueuesInv
<1>7. \A e : EventOk(e, st) => EventOk(e, st')
  BY <1>1, <1>2, EventFollows
<1>8. QueuesInv'
  BY <1>1, <1>6, <1>7, QueuesKept
<1>9. RoutedInv'
  BY DEF BoxTaken
<1> QED BY <1>3, <1>5, <1>8, <1>9, Continued

\* A handler that sends nothing
LEMMA HandledQuietly ==
  ASSUME AdapterInv, NEW s, NEW calls, NEW pc, Continue(s, <<>>, calls, pc), Follows(st, s),
         DOMAIN calls = {"cancel", "call"}, CallOk(calls.call, s.gen, s.requests),
         pc = "analyse" => s.session # NoSession, BoxTaken
  PROVE  AdapterInv'
<1>1. PICK events : events = <<>>
  OBVIOUS
<1>2. OwnSeq(events)
  BY <1>1, OwnEmpty
<1>3. Continue(s, events, calls, pc)
  BY <1>1
<1> QED BY <1>1, <1>2, <1>3, Handled

\* A handler that makes no call or cancels
LEMMA HandledAlone ==
  ASSUME AdapterInv, NEW s, NEW events, NEW classes, NEW pc,
         Continue(s, events, Cancel(classes), pc), Follows(st, s), OwnSeq(events),
         pc # "analyse", BoxTaken
  PROVE  AdapterInv'
<1>1. PICK calls : calls = Cancel(classes)
  OBVIOUS
<1>2. PICK none : none = NoCall
  OBVIOUS
<1>3. DOMAIN calls = {"cancel", "call"} /\ calls.call = none
  BY <1>1, <1>2, CallsFields DEF Cancel
<1>4. none.op = "none" /\ CallOk(none, s.gen, s.requests)
  BY <1>2, OtherCalls
<1>5. Continue(s, events, calls, pc)
  BY <1>1
<1> QED BY <1>3, <1>4, <1>5, Handled

LEMMA HandledIgnored ==
  ASSUME AdapterInv, NEW classes, NEW s, NEW pc, Continue(s, <<>>, Cancel(classes), pc),
         Follows(st, s), pc # "analyse", BoxTaken
  PROVE  AdapterInv'
<1>1. PICK events : events = <<>>
  OBVIOUS
<1>2. OwnSeq(events)
  BY <1>1, OwnEmpty
<1>3. Continue(s, events, Cancel(classes), pc)
  BY <1>1
<1> QED BY <1>2, <1>3, HandledAlone

\* Nothing happens.
LEMMA Ignored ==
  ASSUME AdapterInv, BoxTaken, Ignore
  PROVE  AdapterInv'
<1>1. Follows(st, st)
  BY FollowsItself DEF AdapterInv
<1>2. PICK s : s = st
  OBVIOUS
<1>3. Continue(s, <<>>, Cancel({}), "drain")
  BY <1>2 DEF Ignore, NoCalls
<1> QED BY <1>1, <1>2, <1>3, HandledIgnored

-----------------------------------------------------------------------------
(* accept_command *)

\* What a handler takes
LEMMA TakenCommand ==
  ASSUME AdapterInv, NEW name, TakeCommand(name)
  PROVE  /\ BoxTaken
         /\ CommandOk(Command)
         /\ Command.command = name
<1>1. /\ Take(Head(mailbox)) /\ Head(mailbox).command = name
      /\ "command" \in DOMAIN Head(mailbox)
  BY DEF TakeCommand
<1>2. BoxTaken /\ \E j \in DOMAIN mailbox : Head(mailbox) = mailbox[j]
  BY <1>1, BoxTakes
<1>3. MessageOk(Head(mailbox), st)
  BY <1>2 DEF AdapterInv, QueuesInv
<1> QED BY <1>1, <1>2, <1>3 DEF MessageOk, EventOk, Command

LEMMA StepShutdown ==
  ASSUME AdapterInv, AcceptShutdown
  PROVE  AdapterInv'
<1>1. BoxTaken
  BY TakenCommand DEF AcceptShutdown
<1>2. /\ adapterPc' = "stopped" /\ uses' = uses /\ reader' = reader /\ uiEvents' = uiEvents
      /\ st' = st /\ outgoing' = outgoing /\ deferred' = deferred
      /\ engine' = engine /\ engineOut' = engineOut
  BY DEF AcceptShutdown, readerVars, engineVars
<1>3. StateOk(st)' /\ ReaderOk'
  BY <1>2, NextState DEF AdapterInv, ReaderOk
<1>4. QueuesInv'
  BY <1>1, <1>2, OutSame, QueuesKept DEF AdapterInv, QueuesInv
<1>5. EngineOk(engine, st.gen, st.requests)'
  BY <1>2 DEF AdapterInv, EngineOk, OpeningOk, WorkOk, KeyOk, NewEngine
<1>6. ReportsInv'
  BY <1>2 DEF AdapterInv, ReportsInv, OwnSeq, IsOwn, IsSeq
<1>7. DeferredInv'
  BY <1>2 DEF AdapterInv, DeferredInv, CallOk, KeyOk
<1> QED BY <1>1, <1>2, <1>3, <1>4, <1>5, <1>6, <1>7 DEF AdapterInv, BoxTaken

LEMMA StepBackground ==
  ASSUME AdapterInv, AcceptBackground
  PROVE  AdapterInv'
<1>1. BoxTaken
  BY TakenCommand DEF AcceptBackground
<1>2. StateOk(st)
  BY DEF AdapterInv
<1>3. CASE Ignore
  BY <1>1, <1>3, Ignored
<1>4. CASE Continue([st EXCEPT !.background = TRUE], <<>>, NoCalls, "drain")
  <2>1. PICK s : s = [st EXCEPT !.background = TRUE]
    OBVIOUS
  <2>2. /\ DOMAIN s = StateFields
        /\ s.gen = st.gen /\ s.requests = st.requests /\ s.session = st.session
        /\ s.search = st.search /\ s.analysis = st.analysis /\ s.visible = st.visible
        /\ s.pending = st.pending /\ s.cache = st.cache
    BY <1>2, <2>1 DEF StateOk, StateFields
  <2>3. Follows(st, s)
    BY <1>2, <2>2, Adjusted DEF StateOk
  <2>4. Continue(s, <<>>, Cancel({}), "drain")
    BY <1>4, <2>1 DEF NoCalls
  <2> QED BY <1>1, <2>3, <2>4, HandledIgnored
<1>5. CASE Continue(Paused(st), <<>>, Cancel(PauseClasses), "drain")
  <2>1. PICK s : s = Paused(st)
    OBVIOUS
  <2>2. Follows(st, s)
    BY <1>2, <2>1, PausedOk
  <2>3. Continue(s, <<>>, Cancel(PauseClasses), "drain")
    BY <1>5, <2>1
  <2> QED BY <1>1, <2>2, <2>3, HandledIgnored
<1> QED BY <1>3, <1>4, <1>5 DEF AcceptBackground

LEMMA StepHibernate ==
  ASSUME AdapterInv, AcceptHibernate
  PROVE  AdapterInv'
<1>1. BoxTaken
  BY TakenCommand DEF AcceptHibernate
<1>2. StateOk(st)
  BY DEF AdapterInv
<1>3. CASE Ignore
  BY <1>1, <1>3, Ignored
<1>4. CASE ~Ignore
  <2>1. PICK s1 : s1 = Paused(st)
    OBVIOUS
  <2>2. Follows(st, s1) /\ StateOk(s1)
    BY <1>2, <2>1, PausedOk DEF Follows
  <2>3. PICK s : s = [s1 EXCEPT !.session = NoSession, !.cache = NewState.cache,
                                !.pending = {}, !.hibernated = TRUE, !.resuming = FALSE]
    OBVIOUS
  <2>4. PICK calls : calls = Calls(PauseClasses, Close)
    OBVIOUS
  <2>5. Continue(s, <<>>, calls, "drain")
    BY <1>4, <2>1, <2>3, <2>4 DEF AcceptHibernate
  <2>6. /\ DOMAIN s = StateFields
        /\ s.gen = s1.gen /\ s.requests = s1.requests /\ s.session = NoSession
        /\ s.search = s1.search /\ s.analysis = s1.analysis /\ s.visible = s1.visible
        /\ s.pending = {} /\ s.cache = NewState.cache
    BY <2>2, <2>3 DEF StateOk, StateFields
  <2>7. \A p \in Page : NewState.cache[p] \in {0, s1.gen}
    BY DEF NewState
  <2>8. Follows(s1, s)
    BY <2>2, <2>6, <2>7, Adjusted DEF StateOk
  <2>9. Follows(st, s)
    BY <1>2, <2>2, <2>8, FollowsTwice
  <2>10. PICK close : close = Close
    OBVIOUS
  <2>11. DOMAIN calls = {"cancel", "call"} /\ calls.call = close
    BY <2>4, <2>10, CallsFields
  <2>12. CallOk(close, s.gen, s.requests)
    BY <2>10, OtherCalls
  <2> QED BY <1>1, <2>5, <2>9, <2>11, <2>12, HandledQuietly
<1> QED BY <1>3, <1>4

LEMMA StepResume ==
  ASSUME AdapterInv, AcceptResume
  PROVE  AdapterInv'
<1>1. BoxTaken
  BY TakenCommand DEF AcceptResume
<1>2. StateOk(st)
  BY DEF AdapterInv
<1>3. CASE Ignore
  BY <1>1, <1>3, Ignored
<1>4. CASE ~Ignore
  <2>1. PICK s : s = [st EXCEPT !.resuming = st.hasOpened, !.hibernated = FALSE]
    OBVIOUS
  <2>2. PICK calls : calls = Calls({}, Open(st.gen))
    OBVIOUS
  <2>3. Continue(s, <<>>, calls, "drain")
    BY <1>4, <2>1, <2>2 DEF AcceptResume
  <2>4. /\ DOMAIN s = StateFields
        /\ s.gen = st.gen /\ s.requests = st.requests /\ s.session = st.session
        /\ s.search = st.search /\ s.analysis = st.analysis /\ s.visible = st.visible
        /\ s.pending = st.pending /\ s.cache = st.cache
    BY <1>2, <2>1 DEF StateOk, StateFields
  <2>5. Follows(st, s)
    BY <1>2, <2>4, Adjusted DEF StateOk
  <2>6. PICK open : open = Open(s.gen)
    OBVIOUS
  <2>7. DOMAIN calls = {"cancel", "call"} /\ calls.call = open
    BY <2>2, <2>4, <2>6, CallsFields
  <2>8. CallOk(open, s.gen, s.requests)
    BY <2>6, OtherCalls
  <2> QED BY <1>1, <2>3, <2>5, <2>7, <2>8, HandledQuietly
<1> QED BY <1>3, <1>4

LEMMA StepOpen ==
  ASSUME AdapterInv, AcceptOpen
  PROVE  AdapterInv'
<1>1. BoxTaken
  BY TakenCommand DEF AcceptOpen
<1>2. StateOk(st) /\ EngineOk(engine, st.gen, st.requests) /\ reader.gen \in Nat
  BY DEF AdapterInv, ReaderOk
<1>3. CASE Ignore
  BY <1>1, <1>3, Ignored
<1>4. CASE ~Ignore
  <2>1. PICK g : g = reader.gen
    OBVIOUS
  <2>2. PICK s : s = ResetForOpen(g)
    OBVIOUS
  <2>3. /\ StateOk(s) /\ s.gen = g /\ s.requests = st.requests /\ s.pending = {}
        /\ s.session = NoSession
    BY <1>2, <2>1, <2>2, ResetOk
  <2>4. PICK calls : calls = Calls({}, Open(g))
    OBVIOUS
  <2>5. PICK events : events = <<>>
    OBVIOUS
  <2>6. Continue(s, events, calls, "drain")
    BY <1>4, <2>1, <2>2, <2>4, <2>5 DEF AcceptOpen
  <2>7. PICK open : open = Open(g)
    OBVIOUS
  <2>8. DOMAIN calls = {"cancel", "call"} /\ calls.call = open /\ calls.cancel = {}
    BY <2>4, <2>7, CallsFields DEF Calls
  <2>9. CallOk(open, s.gen, s.requests)
    BY <2>3, <2>7, OtherCalls
  <2>10. st' = s /\ uses' = uses /\ CallAll(calls)
    BY <2>5, <2>6 DEF Continue
  <2>11. PICK mid : mid = Cancelled(engine, {})
    OBVIOUS
  <2>12. EngineOk(mid, st.gen, st.requests)
    BY <1>2, <2>11, CancelledOk
  <2>13. engine' = Called(mid, Open(g))
    BY <2>7, <2>8, <2>10, <2>11 DEF CallAll
  <2>14. EngineOk(engine', s.gen, s.requests)
    BY <2>3, <2>12, <2>13, OpenCallOk
  <2>15. OutGrows
    BY <2>10, CallAllOut DEF AdapterInv, QueuesInv
  <2>16. \A e : EventOk(e, st) => EventOk(e, st')
    BY <2>3, <2>10, EventForgotten
  <2>17. QueuesInv'
    BY <1>1, <2>10, <2>15, <2>16, QueuesKept
  <2>18. OwnSeq(events)
    BY <2>5, OwnEmpty
  <2>19. RoutedInv'
    BY <1>1 DEF BoxTaken
  <2> QED BY <2>3, <2>5, <2>6, <2>8, <2>9, <2>14, <2>17, <2>18, <2>19, Continued
<1> QED BY <1>3, <1>4

\* schedule_text_pages: what is published is of the document.
LEMMA TextScheduled ==
  ASSUME AdapterInv, BoxTaken, NEW s0, Follows(st, s0), NEW class, class # "open",
         NEW pages \in SUBSET Page, NEW pc, pc # "analyse",
         ScheduleTextPages(s0, class, pages, pc)
  PROVE  AdapterInv'
<1>1. PICK s1 : s1 = Dropping(s0, {class})
  OBVIOUS
<1>2. StateOk(st) /\ StateOk(s0) /\ uses \in Scenario
  BY DEF AdapterInv, Follows
<1>3. Follows(s0, s1) /\ StateOk(s1) /\ s1.session = s0.session /\ s1.cache = s0.cache
  BY <1>1, <1>2, DroppingOk DEF Follows
<1>4. Follows(st, s1)
  BY <1>2, <1>3, FollowsTwice
<1>5. CASE s0.session = NoSession
  <2>1. Continue(s1, <<>>, Cancel({}), pc)
    BY <1>1, <1>5 DEF ScheduleTextPages, NoCalls
  <2> QED BY <1>4, <2>1, HandledIgnored
<1>6. CASE s0.session # NoSession
  <2>1. PICK cached : cached = {p \in pages : s0.cache[p] # 0}
    OBVIOUS
  <2>2. PICK s : s = Demanded(s1, class, pages \ cached, 0)
    OBVIOUS
  <2>3. PICK calls : calls = Calls({}, Replace(class, DemandKeys(s, class)))
    OBVIOUS
  <2>4. PICK order \in [1..Cardinality(cached) -> cached] :
          Continue(s, [n \in DOMAIN order |->
                         [event |-> "text", gen |-> s0.gen, doc |-> s0.cache[order[n]]]],
                   calls, pc)
    BY <1>1, <1>6, <2>1, <2>2, <2>3 DEF ScheduleTextPages
  <2>5. PICK events : events = [n \in DOMAIN order |->
                         [event |-> "text", gen |-> s0.gen, doc |-> s0.cache[order[n]]]]
    OBVIOUS
  <2>6. pages \ cached \in SUBSET Page /\ cached \in SUBSET Page
    BY <2>1
  <2>7. Follows(s1, s) /\ StateOk(s)
    <3>1. PICK rest : rest = pages \ cached
      OBVIOUS
    <3>2. rest \in SUBSET Page /\ s = Demanded(s1, class, rest, 0) /\ s1.session # NoSession
      BY <1>3, <1>6, <2>2, <2>6, <3>1
    <3>3. Follows(s1, s)
      BY <1>2, <1>3, <3>2, DemandedOk
    <3> QED BY <3>3 DEF Follows
  <2>8. Follows(st, s)
    BY <1>2, <1>4, <2>7, FollowsTwice
  <2>9. PICK call : call = Replace(class, DemandKeys(s, class))
    OBVIOUS
  <2>10. DOMAIN calls = {"cancel", "call"} /\ calls.call = call
    BY <2>3, <2>9, CallsFields
  <2>11. CallOk(call, s.gen, s.requests) /\ call.op = "replace"
    BY <2>7, <2>9, KeysDemanded
  <2>12. PICK n : n = Cardinality(cached)
    OBVIOUS
  <2>13. n \in Nat /\ DOMAIN order = 1..n
    BY <1>2, <2>4, <2>6, <2>12, PagesCounted
  <2>14. PICK S : S = {[event |-> "text", gen |-> s0.gen, doc |-> s0.cache[p]] : p \in cached}
    OBVIOUS
  <2>15. ASSUME NEW e \in S
         PROVE  IsOwn(e)
    <3>1. PICK p \in cached : e = [event |-> "text", gen |-> s0.gen, doc |-> s0.cache[p]]
      BY <2>14
    <3>2. s0.cache[p] = s0.gen
      BY <1>2, <2>1, <2>6 DEF StateOk
    <3> QED BY <3>1, <3>2 DEF IsOwn
  <2>16. DOMAIN events = 1..n /\ \A i \in 1..n : events[i] \in S
    BY <2>4, <2>5, <2>12, <2>13, <2>14
  <2>17. events \in [1..n -> S]
    BY <2>5, <2>13, <2>16
  <2>18. events \in Seq(S)
    BY <2>13, <2>17
  <2>19. OwnSeq(events)
    BY <2>15, <2>16, <2>18 DEF OwnSeq, IsSeq
  <2>20. Continue(s, events, calls, pc)
    BY <2>4, <2>5
  <2> QED BY <2>8, <2>10, <2>11, <2>19, <2>20, Handled
<1> QED BY <1>5, <1>6

LEMMA StepCopy ==
  ASSUME AdapterInv, AcceptCopy
  PROVE  AdapterInv'
<1>1. BoxTaken /\ CommandOk(Command) /\ Command.command = "copy"
  BY TakenCommand DEF AcceptCopy
<1>2. CASE Ignore
  BY <1>1, <1>2, Ignored
<1>3. CASE ~Ignore
  <2>1. PICK pages : pages = Command.pages
    OBVIOUS
  <2>2. pages \in SUBSET Page
    BY <1>1, <2>1 DEF CommandOk
  <2>3. PICK s : s = st
    OBVIOUS
  <2>4. Follows(st, s)
    BY <2>3, FollowsItself DEF AdapterInv
  <2>5. ScheduleTextPages(s, "copy", pages, "drain")
    BY <1>3, <2>1, <2>3 DEF AcceptCopy
  <2> QED BY <1>1, <2>2, <2>4, <2>5, TextScheduled
<1> QED BY <1>2, <1>3

LEMMA StepCancelCopy ==
  ASSUME AdapterInv, AcceptCancelCopy
  PROVE  AdapterInv'
<1>1. BoxTaken
  BY TakenCommand DEF AcceptCancelCopy
<1>2. CASE Ignore
  BY <1>1, <1>2, Ignored
<1>3. CASE ~Ignore
  <2>1. PICK s : s = Dropping(st, {"copy"})
    OBVIOUS
  <2>2. Follows(st, s)
    BY <2>1, DroppingOk DEF AdapterInv
  <2>3. Continue(s, <<>>, Cancel({"copy"}), "drain")
    BY <1>3, <2>1 DEF AcceptCancelCopy
  <2> QED BY <1>1, <2>2, <2>3, HandledIgnored
<1> QED BY <1>2, <1>3

\* The state a demand leaves, and the call for it
LEMMA DemandMade ==
  ASSUME AdapterInv, st.session # NoSession, NEW classes, NEW class, class # "open",
         NEW pages \in SUBSET Page, NEW s,
         s = Demanded(Dropping(st, classes), class, pages, 0),
         NEW call, call = Replace(class, DemandKeys(s, class))
  PROVE  /\ Follows(st, s)
         /\ CallOk(call, s.gen, s.requests) /\ call.op = "replace"
<1>1. PICK s1 : s1 = Dropping(st, classes)
  OBVIOUS
<1>2. StateOk(st) /\ uses \in Scenario
  BY DEF AdapterInv
<1>3. Follows(st, s1) /\ StateOk(s1) /\ s1.session = st.session
  BY <1>1, <1>2, DroppingOk DEF Follows
<1>4. Follows(s1, s) /\ StateOk(s)
  BY <1>1, <1>2, <1>3, DemandedOk DEF Follows
<1>5. Follows(st, s)
  BY <1>2, <1>3, <1>4, FollowsTwice
<1> QED BY <1>4, <1>5, KeysDemanded

LEMMA StepPreview ==
  ASSUME AdapterInv, AcceptPreview
  PROVE  AdapterInv'
<1>1. BoxTaken /\ CommandOk(Command) /\ Command.command = "preview"
  BY TakenCommand DEF AcceptPreview
<1>2. CASE Ignore
  BY <1>1, <1>2, Ignored
<1>3. CASE ~Ignore /\ st.session = NoSession
  <2>1. PICK s : s = Dropping(st, {"preview"})
    OBVIOUS
  <2>2. Follows(st, s)
    BY <2>1, DroppingOk DEF AdapterInv
  <2>3. PICK event : event = [event |-> "previewfailed", gen |-> st.gen, doc |-> st.gen]
    OBVIOUS
  <2>4. IsOwn(event)
    BY <2>3 DEF IsOwn
  <2>5. PICK events : events = <<event>>
    OBVIOUS
  <2>6. OwnSeq(events)
    BY <2>4, <2>5, OwnSingle
  <2>7. Continue(s, events, Cancel({}), "drain")
    BY <1>3, <2>1, <2>3, <2>5 DEF AcceptPreview, NoCalls
  <2> QED BY <1>1, <2>2, <2>6, <2>7, HandledAlone
<1>4. CASE ~Ignore /\ st.session # NoSession
  <2>1. PICK pages : pages = Command.pages
    OBVIOUS
  <2>2. pages \in SUBSET Page
    BY <1>1, <2>1 DEF CommandOk
  <2>3. PICK s : s = Demanded(Dropping(st, {"preview"}), "preview", pages, 0)
    OBVIOUS
  <2>4. PICK call : call = Replace("preview", DemandKeys(s, "preview"))
    OBVIOUS
  <2>5. Follows(st, s) /\ CallOk(call, s.gen, s.requests) /\ call.op = "replace"
    BY <1>4, <2>2, <2>3, <2>4, DemandMade
  <2>6. PICK calls : calls = Calls({}, call)
    OBVIOUS
  <2>7. DOMAIN calls = {"cancel", "call"} /\ calls.call = call
    BY <2>6, CallsFields
  <2>8. Continue(s, <<>>, calls, "drain")
    BY <1>4, <2>1, <2>3, <2>4, <2>6 DEF AcceptPreview
  <2> QED BY <1>1, <2>5, <2>7, <2>8, HandledQuietly
<1> QED BY <1>2, <1>3, <1>4

LEMMA StepViewport ==
  ASSUME AdapterInv, AcceptViewport
  PROVE  AdapterInv'
<1>1. BoxTaken /\ CommandOk(Command) /\ Command.command = "viewport"
  BY TakenCommand DEF AcceptViewport
<1>2. StateOk(st)
  BY DEF AdapterInv
<1>3. CASE Ignore
  BY <1>1, <1>3, Ignored
<1>4. CASE ~Ignore
  <2> DEFINE classes == {"render", "visible"}
  <2>1. PICK pages : pages = Command.pages
    OBVIOUS
  <2>2. pages \in SUBSET Page
    BY <1>1, <2>1 DEF CommandOk
  <2>3. PICK demanded : demanded = Demanded(Dropping(st, classes), "render", pages, 0)
    OBVIOUS
  <2>4. PICK replace : replace = Replace("render", DemandKeys(demanded, "render"))
    OBVIOUS
  <2>5. PICK next : next = IF st.session # NoSession THEN demanded ELSE Dropping(st, classes)
    OBVIOUS
  <2>6. PICK call : call = IF st.session # NoSession THEN replace ELSE NoCall
    OBVIOUS
  <2>7. /\ Follows(st, next)
        /\ CallOk(call, next.gen, next.requests)
    <3>1. CASE st.session # NoSession
      <4>1. Follows(st, demanded) /\ CallOk(replace, demanded.gen, demanded.requests)
        BY <2>2, <2>3, <2>4, <3>1, DemandMade
      <4> QED BY <2>5, <2>6, <3>1, <4>1
    <3>2. CASE ~(st.session # NoSession)
      <4>1. call = NoCall /\ next = Dropping(st, classes)
        BY <2>5, <2>6, <3>2
      <4> QED BY <1>2, <4>1, DroppingOk, OtherCalls
    <3> QED BY <3>1, <3>2
  <2>8. PICK s : s = [next EXCEPT !.visible = pages, !.due = FALSE]
    OBVIOUS
  <2>9. StateOk(next)
    BY <2>7 DEF Follows
  <2>10. /\ DOMAIN s = StateFields
         /\ s.gen = next.gen /\ s.requests = next.requests /\ s.session = next.session
         /\ s.search = next.search /\ s.analysis = next.analysis /\ s.visible = pages
         /\ s.pending = next.pending /\ s.cache = next.cache
    BY <2>8, <2>9 DEF StateOk, StateFields
  <2>11. Follows(next, s)
    BY <2>2, <2>9, <2>10, Adjusted DEF StateOk
  <2>12. Follows(st, s)
    BY <1>2, <2>7, <2>11, FollowsTwice
  <2>13. CallOk(call, s.gen, s.requests)
    BY <2>7, <2>10
  <2>14. PICK calls : calls = Calls({"visible"}, call)
    OBVIOUS
  <2>15. DOMAIN calls = {"cancel", "call"} /\ calls.call = call
    BY <2>14, CallsFields
  <2>16. Continue(s, <<>>, calls, "drain")
    BY <1>4, <2>1, <2>3, <2>4, <2>5, <2>6, <2>8, <2>14 DEF AcceptViewport
  <2> QED BY <1>1, <2>12, <2>13, <2>15, <2>16, HandledQuietly
<1> QED BY <1>3, <1>4

LEMMA StepSearch ==
  ASSUME AdapterInv, AcceptSearch
  PROVE  AdapterInv'
<1>1. BoxTaken
  BY TakenCommand DEF AcceptSearch
<1>2. StateOk(st)
  BY DEF AdapterInv
<1>3. CASE Ignore
  BY <1>1, <1>3, Ignored
<1>4. CASE Continue(st, <<[event |-> "searchfailed", gen |-> Command.gen, rev |-> Command.rev]>>,
                    NoCalls, "drain")
  <2>1. PICK event : event = [event |-> "searchfailed", gen |-> Command.gen, rev |-> Command.rev]
    OBVIOUS
  <2>2. PICK events : events = <<event>>
    OBVIOUS
  <2>3. OwnSeq(events)
    BY <2>1, <2>2, OwnSingle DEF IsOwn
  <2>4. PICK s : s = st
    OBVIOUS
  <2>5. Follows(st, s)
    BY <1>2, <2>4, FollowsItself
  <2>6. Continue(s, events, Cancel({}), "drain")
    BY <1>4, <2>1, <2>2, <2>4 DEF NoCalls
  <2> QED BY <1>1, <2>3, <2>5, <2>6, HandledAlone
<1>5. CASE /\ ~Ignore
           /\ ~Continue(st, <<[event |-> "searchfailed", gen |-> Command.gen, rev |-> Command.rev]>>,
                        NoCalls, "drain")
  <2>1. PICK job : job = [gen |-> Command.gen, rev |-> Command.rev, next |-> 0,
                          token |-> Command.token, waiting |-> FALSE]
    OBVIOUS
  <2>2. PICK s1 : s1 = Dropping(st, {"search"})
    OBVIOUS
  <2>3. PICK s : s = [s1 EXCEPT !.latest = Command.rev, !.search = job]
    OBVIOUS
  <2>4. /\ Command.gen = st.gen
        /\ Continue(s, <<>>, Cancel({"search"}), "drain")
    BY <1>5, <2>1, <2>2, <2>3 DEF AcceptSearch, ForMe
  <2>5. Follows(st, s1) /\ StateOk(s1) /\ s1.gen = st.gen
    BY <1>2, <2>2, DroppingOk DEF Follows
  <2>6. /\ DOMAIN s = StateFields
        /\ s.gen = s1.gen /\ s.requests = s1.requests /\ s.session = s1.session
        /\ s.search = job /\ s.analysis = s1.analysis /\ s.visible = s1.visible
        /\ s.pending = s1.pending /\ s.cache = s1.cache
    BY <2>3, <2>5 DEF StateOk, StateFields
  <2>7. SearchOk(job, s1.gen)
    BY <2>1, <2>4, <2>5 DEF SearchOk, NoSearch
  <2>8. Follows(s1, s)
    BY <2>5, <2>6, <2>7, Adjusted DEF StateOk
  <2>9. Follows(st, s)
    BY <1>2, <2>5, <2>8, FollowsTwice
  <2> QED BY <1>1, <2>4, <2>9, HandledIgnored
<1> QED BY <1>3, <1>4, <1>5

LEMMA StepCancelSearch ==
  ASSUME AdapterInv, AcceptCancelSearch
  PROVE  AdapterInv'
<1>1. BoxTaken
  BY TakenCommand DEF AcceptCancelSearch
<1>2. StateOk(st)
  BY DEF AdapterInv
<1>3. PICK s1 : s1 = Dropping(st, {"search"})
  OBVIOUS
<1>4. Follows(st, s1) /\ StateOk(s1) /\ s1.gen = st.gen
  BY <1>2, <1>3, DroppingOk DEF Follows
<1>5. PICK s2 : s2 = [s1 EXCEPT !.latest = Command.rev - 1,
                                !.search = IF @.rev < Command.rev THEN NoSearch ELSE @]
  OBVIOUS
<1>6. Follows(st, s2)
  <2>1. PICK search : search = IF s1.search.rev < Command.rev THEN NoSearch ELSE s1.search
    OBVIOUS
  <2>2. SearchOk(search, s1.gen)
    BY <1>4, <2>1, NoSearchOk DEF StateOk
  <2>3. /\ DOMAIN s2 = StateFields
        /\ s2.gen = s1.gen /\ s2.requests = s1.requests /\ s2.session = s1.session
        /\ s2.search = search /\ s2.analysis = s1.analysis /\ s2.visible = s1.visible
        /\ s2.pending = s1.pending /\ s2.cache = s1.cache
    BY <1>4, <1>5, <2>1 DEF StateOk, StateFields
  <2>4. Follows(s1, s2)
    BY <1>4, <2>2, <2>3, Adjusted DEF StateOk
  <2> QED BY <1>2, <1>4, <2>4, FollowsTwice
<1>7. \/ Continue(s1, <<>>, Cancel({"search"}), "drain")
      \/ Continue(s2, <<>>, Cancel({"search"}), "drain")
  BY <1>3, <1>5 DEF AcceptCancelSearch
<1> QED BY <1>1, <1>4, <1>6, <1>7, HandledIgnored

-----------------------------------------------------------------------------
(* accept_supervisor_event *)

LEMMA TakenEvent ==
  ASSUME AdapterInv, NEW events, TakeEvent(events)
  PROVE  BoxTaken /\ EventOk(Event, st) /\ Event.event \in events
<1>1. /\ Take(Head(mailbox)) /\ Head(mailbox).event \in events
      /\ "event" \in DOMAIN Head(mailbox)
  BY DEF TakeEvent
<1>2. BoxTaken /\ \E j \in DOMAIN mailbox : Head(mailbox) = mailbox[j]
  BY <1>1, BoxTakes
<1>3. MessageOk(Head(mailbox), st)
  BY <1>2 DEF AdapterInv, QueuesInv
<1> QED BY <1>1, <1>2, <1>3 DEF MessageOk, IsEvent, Event

\* A handler that only reports
LEMMA Reported ==
  ASSUME AdapterInv, BoxTaken, NEW s, Follows(st, s), NEW event, IsOwn(event),
         Continue(s, <<event>>, NoCalls, "drain")
  PROVE  AdapterInv'
<1>1. PICK events : events = <<event>>
  OBVIOUS
<1>2. OwnSeq(events)
  BY <1>1, OwnSingle
<1>3. Continue(s, events, Cancel({}), "drain")
  BY <1>1 DEF NoCalls
<1> QED BY <1>2, <1>3, HandledAlone

LEMMA StepAttached ==
  ASSUME AdapterInv, AcceptAttached
  PROVE  AdapterInv'
<1>1. BoxTaken
  BY TakenEvent DEF AcceptAttached
<1>2. PICK event : event = [event |-> "ready"]
  OBVIOUS
<1>3. IsOwn(event)
  BY <1>2 DEF IsOwn
<1>4. PICK s : s = st
  OBVIOUS
<1>5. Follows(st, s)
  BY <1>4, FollowsItself DEF AdapterInv
<1>6. Continue(s, <<event>>, NoCalls, "drain")
  BY <1>2, <1>4 DEF AcceptAttached
<1> QED BY <1>1, <1>3, <1>5, <1>6, Reported

LEMMA StepOpenFailed ==
  ASSUME AdapterInv, AcceptOpenFailed
  PROVE  AdapterInv'
<1>1. BoxTaken
  BY TakenEvent DEF AcceptOpenFailed
<1>2. PICK event : event = [event |-> "error", gen |-> st.gen, doc |-> Event.doc]
  OBVIOUS
<1>3. IsOwn(event)
  BY <1>2 DEF IsOwn
<1>4. PICK s : s = st
  OBVIOUS
<1>5. Follows(st, s)
  BY <1>4, FollowsItself DEF AdapterInv
<1>6. Continue(s, <<event>>, NoCalls, "drain")
  BY <1>2, <1>4 DEF AcceptOpenFailed
<1> QED BY <1>1, <1>3, <1>5, <1>6, Reported

LEMMA StepSilent ==
  ASSUME AdapterInv, AcceptSilent
  PROVE  AdapterInv'
<1>1. BoxTaken /\ Ignore
  BY TakenEvent DEF AcceptSilent
<1> QED BY <1>1, Ignored

LEMMA StepOpened ==
  ASSUME AdapterInv, AcceptOpened
  PROVE  AdapterInv'
<1>1. BoxTaken /\ EventOk(Event, st) /\ Event.event = "opened"
  BY TakenEvent DEF AcceptOpened
<1>2. StateOk(st)
  BY DEF AdapterInv
<1>3. CASE Ignore
  BY <1>1, <1>3, Ignored
<1>4. CASE ~Ignore
  <2>1. PICK session : session = [doc |-> Event.doc, gen |-> Event.gen]
    OBVIOUS
  <2>2. session.gen \in Nat \ {0}
    BY <1>1, <2>1 DEF EventOk
  <2>3. PICK opened : opened = [st EXCEPT !.session = session, !.hasOpened = TRUE]
    OBVIOUS
  <2>4. /\ DOMAIN opened = StateFields
        /\ opened.gen = st.gen /\ opened.requests = st.requests /\ opened.session = session
        /\ opened.search = st.search /\ opened.analysis = st.analysis
        /\ opened.visible = st.visible /\ opened.pending = st.pending
        /\ opened.cache = st.cache
    BY <1>2, <2>3 DEF StateOk, StateFields
  <2>5. PICK event : /\ event.event \in {"opened", "resumed"}
                     /\ \/ Continue([opened EXCEPT !.resuming = FALSE], <<event>>,
                                    NoCalls, "drain")
                        \/ Continue([opened EXCEPT !.analysis = [NoAnalysis EXCEPT !.gen = st.gen]],
                                    <<event>>, NoCalls, "drain")
    <3>1. CASE Continue([opened EXCEPT !.resuming = FALSE],
                        <<[event |-> "resumed", gen |-> st.gen, doc |-> Event.doc]>>,
                        NoCalls, "drain")
      BY <3>1
    <3>2. CASE Continue([opened EXCEPT !.analysis = [NoAnalysis EXCEPT !.gen = st.gen]],
                        <<[event |-> "opened", gen |-> st.gen, doc |-> Event.doc]>>,
                        NoCalls, "drain")
      BY <3>2
    <3> QED BY <1>4, <2>1, <2>3, <3>1, <3>2 DEF AcceptOpened
  <2>6. IsOwn(event)
    BY <2>5 DEF IsOwn
  <2>7. CASE Continue([opened EXCEPT !.resuming = FALSE], <<event>>, NoCalls, "drain")
    <3>1. PICK s : s = [opened EXCEPT !.resuming = FALSE]
      OBVIOUS
    <3>2. /\ DOMAIN s = StateFields
          /\ s.gen = st.gen /\ s.requests = st.requests /\ s.session = session
          /\ s.search = st.search /\ s.analysis = st.analysis /\ s.visible = st.visible
          /\ s.pending = st.pending /\ s.cache = st.cache
      BY <2>4, <3>1 DEF StateFields
    <3>3. Follows(st, s)
      BY <1>2, <2>2, <3>2, Adjusted DEF StateOk
    <3>4. Continue(s, <<event>>, NoCalls, "drain")
      BY <2>7, <3>1
    <3> QED BY <1>1, <2>6, <3>3, <3>4, Reported
  <2>8. CASE Continue([opened EXCEPT !.analysis = [NoAnalysis EXCEPT !.gen = st.gen]],
                      <<event>>, NoCalls, "drain")
    <3>1. PICK analysis : analysis = [NoAnalysis EXCEPT !.gen = st.gen]
      OBVIOUS
    <3>2. PICK s : s = [opened EXCEPT !.analysis = analysis]
      OBVIOUS
    <3>3. /\ DOMAIN s = StateFields
          /\ s.gen = st.gen /\ s.requests = st.requests /\ s.session = session
          /\ s.search = st.search /\ s.analysis = analysis /\ s.visible = st.visible
          /\ s.pending = st.pending /\ s.cache = st.cache
      BY <2>4, <3>2 DEF StateFields
    <3>4. /\ DOMAIN analysis = DOMAIN NoAnalysis /\ analysis.gen = st.gen
          /\ analysis.docs = {} /\ analysis.next = 0
      BY <3>1 DEF NoAnalysis
    <3>5. AnalysisOk(analysis, st.gen)
      BY <3>4 DEF AnalysisOk
    <3>6. Follows(st, s)
      BY <1>2, <2>2, <3>3, <3>5, Adjusted DEF StateOk
    <3>7. Continue(s, <<event>>, NoCalls, "drain")
      BY <2>8, <3>1, <3>2
    <3> QED BY <1>1, <2>6, <3>6, <3>7, Reported
  <2> QED BY <2>5, <2>7, <2>8
<1> QED BY <1>3, <1>4

LEMMA SettledOk ==
  ASSUME StateOk(st), NEW s, s = Settled
  PROVE  /\ Follows(st, s) /\ StateOk(s) /\ s.gen = st.gen
         /\ s.search = st.search /\ s.analysis = st.analysis
<1>1. /\ DOMAIN s = StateFields
      /\ s.gen = st.gen /\ s.requests = st.requests /\ s.session = st.session
      /\ s.search = st.search /\ s.analysis = st.analysis /\ s.visible = st.visible
      /\ s.pending = st.pending \ Matching /\ s.cache = st.cache
  BY DEF Settled, StateOk, StateFields
<1>2. s.pending \subseteq st.pending
  BY <1>1
<1>3. Follows(st, s)
  BY <1>1, <1>2, Adjusted DEF StateOk
<1> QED BY <1>1, <1>3 DEF Follows

\* The demand of an answer: it waits, so the answer is of the document.
LEMMA Matched ==
  ASSUME StateOk(st), EventOk(Event, st), Event.event \in {"ready", "failed"}, Matching # {}
  PROVE  /\ Event.doc = st.gen
         /\ Demand.gen = st.gen
         /\ Demand.page \in Page
<1>1. PICK d : d \in st.pending /\ d.key = Event.key
  BY DEF Matching
<1>2. Demand \in st.pending /\ Demand.key = Event.key
  BY <1>1 DEF Demand
<1>3. DemandOk(Demand, st)
  BY <1>2 DEF StateOk
<1>4. Event.doc = st.gen
  BY <1>1 DEF EventOk
<1> QED BY <1>3, <1>4 DEF DemandOk

LEMMA StepUnknown ==
  ASSUME AdapterInv, AcceptUnknown
  PROVE  AdapterInv'
<1>1. BoxTaken
  BY TakenEvent DEF AcceptUnknown
<1>2. PICK s : s = Settled
  OBVIOUS
<1>3. Follows(st, s)
  BY <1>2, SettledOk DEF AdapterInv
<1>4. Continue(s, <<>>, Cancel({}), "drain")
  BY <1>2 DEF AcceptUnknown, NoCalls
<1> QED BY <1>1, <1>3, <1>4, HandledIgnored

LEMMA StepRaster ==
  ASSUME AdapterInv, AcceptRaster
  PROVE  AdapterInv'
<1>1. /\ BoxTaken /\ EventOk(Event, st) /\ Event.event \in {"ready", "failed"}
      /\ Matching # {}
  BY TakenEvent DEF AcceptRaster, ForClass
<1>2. StateOk(st)
  BY DEF AdapterInv
<1>3. PICK s : s = Settled
  OBVIOUS
<1>4. Follows(st, s)
  BY <1>2, <1>3, SettledOk
<1>5. PICK event :
        event = [event |-> IF Event.event = "ready" THEN "raster" ELSE "rasterfailed",
                 gen |-> Demand.gen, doc |-> Event.doc]
  OBVIOUS
<1>6. event.doc = event.gen /\ event.event # "analysis"
  BY <1>1, <1>2, <1>5, Matched
<1>7. IsOwn(event)
  BY <1>6 DEF IsOwn
<1>8. Continue(s, <<event>>, NoCalls, "drain")
  BY <1>3, <1>5 DEF AcceptRaster
<1> QED BY <1>1, <1>4, <1>7, <1>8, Reported

\* An answer with text: the text is cached and the demand forgotten.
LEMMA TextTaken ==
  ASSUME StateOk(st), uses \in Scenario, EventOk(Event, st), Event.event \in {"ready", "failed"},
         Matching # {}, NEW s \in Cached(Settled, Demand.page, Event.doc)
  PROVE  /\ Follows(st, s) /\ StateOk(s) /\ s.gen = st.gen
         /\ s.cache[Demand.page] = s.gen
         /\ s.search = st.search /\ s.analysis = st.analysis
         /\ Demand.gen = st.gen /\ Demand.page \in Page /\ Demand.page \in Nat
         /\ Event.doc = st.gen
<1>1. Event.doc = st.gen /\ Demand.gen = st.gen /\ Demand.page \in Page
  BY Matched
<1>2. PICK s0 : s0 = Settled
  OBVIOUS
<1>3. /\ Follows(st, s0) /\ StateOk(s0) /\ s0.gen = st.gen
      /\ s0.search = st.search /\ s0.analysis = st.analysis
  BY <1>2, SettledOk
<1>4. PICK page : page = Demand.page
  OBVIOUS
<1>5. PICK doc : doc = Event.doc
  OBVIOUS
<1>6. page \in Page /\ doc = s0.gen /\ s \in Cached(s0, page, doc)
  BY <1>1, <1>2, <1>3, <1>4, <1>5
<1>7. /\ Follows(s0, s) /\ s.cache[page] = s0.gen
      /\ s.search = s0.search /\ s.analysis = s0.analysis
  BY <1>3, <1>6, CachedOk
<1>8. Follows(st, s)
  BY <1>3, <1>7, FollowsTwice
<1>9. StateOk(s) /\ s.gen = s0.gen
  BY <1>7 DEF Follows
<1>10. page \in Nat
  BY <1>6, AdapterAssumption DEF Page, PageCount
<1> QED BY <1>1, <1>3, <1>4, <1>7, <1>8, <1>9, <1>10

LEMMA StepText ==
  ASSUME AdapterInv, AcceptText
  PROVE  AdapterInv'
<1>1. /\ BoxTaken /\ EventOk(Event, st) /\ Event.event \in {"ready", "failed"}
      /\ Matching # {}
  BY TakenEvent DEF AcceptText, ForClass
<1>2. StateOk(st) /\ uses \in Scenario
  BY DEF AdapterInv
<1>3. PICK event :
        event = [event |-> IF Event.event = "ready" THEN "text" ELSE "textfailed",
                 gen |-> Demand.gen, doc |-> Event.doc]
  OBVIOUS
<1>4. PICK s \in Cached(Settled, Demand.page, Event.doc) :
        Continue(s, <<event>>, NoCalls, "drain")
  BY <1>3 DEF AcceptText
<1>5. Follows(st, s) /\ Demand.gen = st.gen /\ Event.doc = st.gen
  BY <1>1, <1>2, TextTaken
<1>6. event.doc = event.gen /\ event.event # "analysis"
  BY <1>3, <1>5
<1>7. IsOwn(event)
  BY <1>6 DEF IsOwn
<1> QED BY <1>1, <1>4, <1>5, <1>7, Reported

\* The search goes on with the page.
LEMMA SearchGoesOn ==
  ASSUME NEW s0, StateOk(s0), NEW s, s = [s0 EXCEPT !.search.waiting = FALSE]
  PROVE  Follows(s0, s) /\ StateOk(s) /\ s.gen = s0.gen
<1>1. PICK search : search = [s0.search EXCEPT !.waiting = FALSE]
  OBVIOUS
<1>2. /\ DOMAIN s = StateFields
      /\ s.gen = s0.gen /\ s.requests = s0.requests /\ s.session = s0.session
      /\ s.search = search /\ s.analysis = s0.analysis /\ s.visible = s0.visible
      /\ s.pending = s0.pending /\ s.cache = s0.cache
  BY <1>1 DEF StateOk, StateFields
<1>3. SearchOk(search, s0.gen)
  BY <1>1, WaitingOk DEF StateOk
<1>4. Follows(s0, s)
  BY <1>2, <1>3, Adjusted DEF StateOk
<1> QED BY <1>2, <1>4 DEF Follows

LEMMA StepSearchText ==
  ASSUME AdapterInv, AcceptSearchText
  PROVE  AdapterInv'
<1>1. /\ BoxTaken /\ EventOk(Event, st) /\ Event.event \in {"ready", "failed"}
      /\ Matching # {}
  BY TakenEvent DEF AcceptSearchText, ForClass
<1>2. StateOk(st) /\ uses \in Scenario
  BY DEF AdapterInv
<1>3. PICK s \in Cached(Settled, Demand.page, Event.doc) :
        IF ~Awaited THEN Continue(s, <<>>, NoCalls, "drain")
        ELSE \E r \in SearchPage([s EXCEPT !.search.waiting = FALSE], Demand.page,
                                 s.cache[Demand.page]) :
               Continue(r.state, r.events, NoCalls, "drain")
  BY DEF AcceptSearchText
<1>4. /\ Follows(st, s) /\ StateOk(s) /\ s.gen = st.gen /\ s.cache[Demand.page] = s.gen
      /\ Demand.page \in Nat
  BY <1>1, <1>2, TextTaken
<1>5. CASE ~Awaited
  <2>1. Continue(s, <<>>, Cancel({}), "drain")
    BY <1>3, <1>5 DEF NoCalls
  <2> QED BY <1>1, <1>4, <2>1, HandledIgnored
<1>6. CASE Awaited
  <2>1. PICK s1 : s1 = [s EXCEPT !.search.waiting = FALSE]
    OBVIOUS
  <2>2. PICK page : page = Demand.page
    OBVIOUS
  <2>3. PICK doc : doc = s.cache[page]
    OBVIOUS
  <2>4. PICK r \in SearchPage(s1, page, doc) : Continue(r.state, r.events, NoCalls, "drain")
    BY <1>3, <1>6, <2>1, <2>2, <2>3
  <2>5. Follows(s, s1) /\ StateOk(s1) /\ s1.gen = s.gen
    BY <1>4, <2>1, SearchGoesOn
  <2>6. page \in Nat /\ doc = s1.gen
    BY <1>4, <2>2, <2>3, <2>5
  <2>7. Follows(s1, r.state) /\ OwnSeq(r.events)
    BY <2>4, <2>5, <2>6, SearchPageOk
  <2>8. Follows(st, s1)
    BY <1>2, <1>4, <2>5, FollowsTwice
  <2>9. Follows(st, r.state)
    BY <1>2, <2>7, <2>8, FollowsTwice
  <2>10. Continue(r.state, r.events, Cancel({}), "drain")
    BY <2>4 DEF NoCalls
  <2> QED BY <1>1, <2>7, <2>9, <2>10, HandledAlone
<1> QED BY <1>5, <1>6

LEMMA StepSearchFailure ==
  ASSUME AdapterInv, AcceptSearchFailure
  PROVE  AdapterInv'
<1>1. /\ BoxTaken /\ EventOk(Event, st) /\ Event.event \in {"ready", "failed"}
      /\ Matching # {}
  BY TakenEvent DEF AcceptSearchFailure, ForClass
<1>2. StateOk(st) /\ uses \in Scenario
  BY DEF AdapterInv
<1>3. PICK event : event = [event |-> "warning", gen |-> Demand.gen, rev |-> Demand.rev]
  OBVIOUS
<1>4. IsOwn(event)
  BY <1>3 DEF IsOwn
<1>5. PICK page : page = Demand.page
  OBVIOUS
<1>6. PICK s \in Cached(Settled, Demand.page, Event.doc) :
        IF ~Awaited THEN Continue(s, <<>>, NoCalls, "drain")
        ELSE Continue([s EXCEPT !.search.waiting = FALSE,
                                !.search.next = IF @ > page + 1 THEN @ ELSE page + 1],
                      <<event>>, NoCalls, "drain")
  BY <1>3, <1>5 DEF AcceptSearchFailure
<1>7. /\ Follows(st, s) /\ StateOk(s) /\ s.gen = st.gen /\ s.search = st.search
      /\ Demand.gen = st.gen /\ page \in Nat
  BY <1>1, <1>2, <1>5, TextTaken
<1>8. CASE ~Awaited
  <2>1. Continue(s, <<>>, Cancel({}), "drain")
    BY <1>6, <1>8 DEF NoCalls
  <2> QED BY <1>1, <1>7, <2>1, HandledIgnored
<1>9. CASE Awaited
  <2>1. s.search.gen = s.gen
    BY <1>7, <1>9 DEF Awaited
  <2>2. PICK search :
          search = [s.search EXCEPT !.waiting = FALSE,
                                    !.next = IF @ > page + 1 THEN @ ELSE page + 1]
    OBVIOUS
  <2>3. SearchOk(s.search, s.gen)
    BY <1>7 DEF StateOk
  <2>4. DOMAIN search = DOMAIN NoSearch /\ search.gen = s.gen /\ search.next \in Nat
    BY <1>7, <2>1, <2>2, <2>3 DEF SearchOk, NoSearch
  <2>5. SearchOk(search, s.gen)
    BY <2>4 DEF SearchOk
  <2>6. PICK s1 : s1 = [s EXCEPT !.search.waiting = FALSE,
                                 !.search.next = IF @ > page + 1 THEN @ ELSE page + 1]
    OBVIOUS
  <2>7. /\ DOMAIN s1 = StateFields
        /\ s1.gen = s.gen /\ s1.requests = s.requests /\ s1.session = s.session
        /\ s1.search = search /\ s1.analysis = s.analysis /\ s1.visible = s.visible
        /\ s1.pending = s.pending /\ s1.cache = s.cache
    BY <1>7, <2>2, <2>3, <2>6 DEF StateOk, StateFields, SearchOk, NoSearch
  <2>8. Follows(s, s1)
    BY <1>7, <2>5, <2>7, Adjusted DEF StateOk
  <2>9. Follows(st, s1)
    BY <1>2, <1>7, <2>8, FollowsTwice
  <2>10. Continue(s1, <<event>>, NoCalls, "drain")
    BY <1>6, <1>9, <2>6
  <2> QED BY <1>1, <1>4, <2>9, <2>10, Reported
<1> QED BY <1>8, <1>9

LEMMA StepAnalysisText ==
  ASSUME AdapterInv, AcceptAnalysisText
  PROVE  AdapterInv'
<1>1. /\ BoxTaken /\ EventOk(Event, st) /\ Event.event \in {"ready", "failed"}
      /\ Matching # {}
  BY TakenEvent DEF AcceptAnalysisText, ForClass
<1>2. StateOk(st) /\ uses \in Scenario
  BY DEF AdapterInv
<1>3. PICK page : page = Demand.page
  OBVIOUS
<1>4. PICK s \in Cached(Settled, Demand.page, Event.doc) :
        Continue(IF Event.event = "ready" /\ s.analysis.gen # Demand.gen THEN s
                 ELSE Ingested([s EXCEPT !.analysis.waiting = FALSE], page, s.cache[page]),
                 <<>>, NoCalls, "drain")
  BY <1>3 DEF AcceptAnalysisText
<1>5. /\ Follows(st, s) /\ StateOk(s) /\ s.gen = st.gen /\ s.cache[page] = s.gen
      /\ page \in Nat
  BY <1>1, <1>2, <1>3, TextTaken
<1>6. PICK s1 : s1 = [s EXCEPT !.analysis.waiting = FALSE]
  OBVIOUS
<1>7. PICK analysis : analysis = [s.analysis EXCEPT !.waiting = FALSE]
  OBVIOUS
<1>8. /\ DOMAIN s1 = StateFields
      /\ s1.gen = s.gen /\ s1.requests = s.requests /\ s1.session = s.session
      /\ s1.search = s.search /\ s1.analysis = analysis /\ s1.visible = s.visible
      /\ s1.pending = s.pending /\ s1.cache = s.cache
  BY <1>5, <1>6, <1>7 DEF StateOk, StateFields
<1>9. AnalysisOk(analysis, s.gen)
  BY <1>5, <1>7, WaitingOk DEF StateOk
<1>10. Follows(s, s1)
  BY <1>5, <1>8, <1>9, Adjusted DEF StateOk
<1>11. StateOk(s1)
  BY <1>10 DEF Follows
<1>12. PICK s2 : s2 = Ingested(s1, page, s.cache[page])
  OBVIOUS
<1>13. PICK doc : doc = s.cache[page]
  OBVIOUS
<1>14. doc = s1.gen /\ s2 = Ingested(s1, page, doc)
  BY <1>5, <1>8, <1>12, <1>13
<1>15. Follows(s1, s2)
  BY <1>5, <1>11, <1>14, IngestedOk
<1>16. Follows(st, s1)
  BY <1>2, <1>5, <1>10, FollowsTwice
<1>17. Follows(st, s2)
  BY <1>2, <1>15, <1>16, FollowsTwice
<1>18. \/ Continue(s, <<>>, Cancel({}), "drain")
       \/ Continue(s2, <<>>, Cancel({}), "drain")
  BY <1>4, <1>6, <1>12 DEF NoCalls
<1> QED BY <1>1, <1>5, <1>17, <1>18, HandledIgnored

-----------------------------------------------------------------------------
(* The rest of the loop *)

\* Steps of the loop that change nothing but where it is
LEMMA StepPassOn ==
  ASSUME AdapterInv, DrainEmpty \/ VisibleTextNotDue \/ NothingToDrive
  PROVE  AdapterInv'
<1>1. BoxTaken
  BY BoxLeft DEF DrainEmpty, VisibleTextNotDue, NothingToDrive
<1>2. PICK s : s = st
  OBVIOUS
<1>3. Follows(st, s)
  BY <1>2, FollowsItself DEF AdapterInv
<1>4. PICK pc \in {"visible", "drive", "wait"} : Continue(s, <<>>, Cancel({}), pc)
  BY <1>2 DEF DrainEmpty, VisibleTextNotDue, NothingToDrive, NoCalls
<1> QED BY <1>1, <1>3, <1>4, HandledIgnored

LEMMA StepVisibleTextDue ==
  ASSUME AdapterInv, VisibleTextDue
  PROVE  AdapterInv'
<1>1. BoxTaken
  BY BoxLeft DEF VisibleTextDue
<1>2. StateOk(st)
  BY DEF AdapterInv
<1>3. PICK s : s = [st EXCEPT !.visible = {}, !.due = FALSE]
  OBVIOUS
<1>4. /\ DOMAIN s = StateFields
      /\ s.gen = st.gen /\ s.requests = st.requests /\ s.session = st.session
      /\ s.search = st.search /\ s.analysis = st.analysis /\ s.visible = {}
      /\ s.pending = st.pending /\ s.cache = st.cache
  BY <1>2, <1>3 DEF StateOk, StateFields
<1>5. Follows(st, s)
  BY <1>2, <1>4, Adjusted DEF StateOk
<1>6. PICK pages \in SUBSET Page : pages = st.visible
  BY <1>2 DEF StateOk
<1>7. ScheduleTextPages(s, "visible", pages, "drive")
  BY <1>3, <1>6 DEF VisibleTextDue
<1> QED BY <1>1, <1>5, <1>7, TextScheduled

LEMMA StepWaitTimeout ==
  ASSUME AdapterInv, WaitTimeout
  PROVE  AdapterInv'
<1>1. BoxTaken
  BY BoxLeft DEF WaitTimeout
<1>2. StateOk(st)
  BY DEF AdapterInv
<1>3. PICK s : s = [st EXCEPT !.due = TRUE]
  OBVIOUS
<1>4. /\ DOMAIN s = StateFields
      /\ s.gen = st.gen /\ s.requests = st.requests /\ s.session = st.session
      /\ s.search = st.search /\ s.analysis = st.analysis /\ s.visible = st.visible
      /\ s.pending = st.pending /\ s.cache = st.cache
  BY <1>2, <1>3 DEF StateOk, StateFields
<1>5. Follows(st, s)
  BY <1>2, <1>4, Adjusted DEF StateOk
<1>6. Continue(s, <<>>, Cancel({}), "drain")
  BY <1>3 DEF WaitTimeout, NoCalls
<1> QED BY <1>1, <1>5, <1>6, HandledIgnored

\* The search is over.
LEMMA SearchDropped ==
  ASSUME StateOk(st), NEW s, s = [st EXCEPT !.search = NoSearch]
  PROVE  Follows(st, s)
<1>1. /\ DOMAIN s = StateFields
      /\ s.gen = st.gen /\ s.requests = st.requests /\ s.session = st.session
      /\ s.search = NoSearch /\ s.analysis = st.analysis /\ s.visible = st.visible
      /\ s.pending = st.pending /\ s.cache = st.cache
  BY DEF StateOk, StateFields
<1> QED BY <1>1, Adjusted, NoSearchOk DEF StateOk

LEMMA AnalysisDropped ==
  ASSUME StateOk(st), NEW s, s = [st EXCEPT !.analysis = NoAnalysis]
  PROVE  Follows(st, s)
<1>1. /\ DOMAIN s = StateFields
      /\ s.gen = st.gen /\ s.requests = st.requests /\ s.session = st.session
      /\ s.search = st.search /\ s.analysis = NoAnalysis /\ s.visible = st.visible
      /\ s.pending = st.pending /\ s.cache = st.cache
  BY DEF StateOk, StateFields
<1> QED BY <1>1, Adjusted, NoAnalysisOk DEF StateOk

\* A page of the cache
LEMMA PageHeld ==
  ASSUME StateOk(st), uses \in Scenario, NEW page \in Nat, page < PageCount
  PROVE  page \in Page /\ (st.cache[page] # 0 => st.cache[page] = st.gen)
<1>1. page \in Page
  BY AdapterAssumption DEF Page, PageCount
<1> QED BY <1>1 DEF StateOk

\* The search or the analysis waits for a page it demands.
LEMMA PageDemanded ==
  ASSUME AdapterInv, st.session # NoSession, NEW page \in Page, NEW rev,
         NEW class \in {"search", "analysis"},
         class = "search" => st.search.gen = st.gen,
         class = "analysis" => st.analysis.gen = st.gen,
         NEW s, s = IF class = "search"
                    THEN [Demanded(st, class, {page}, rev) EXCEPT !.search.waiting = TRUE]
                    ELSE [Demanded(st, class, {page}, rev) EXCEPT !.analysis.waiting = TRUE],
         NEW call, call = Replace(class, DemandKeys(s, class))
  PROVE  /\ Follows(st, s) /\ s.session # NoSession
         /\ CallOk(call, s.gen, s.requests) /\ call.op = "replace"
<1>1. StateOk(st) /\ uses \in Scenario
  BY DEF AdapterInv
<1>2. PICK pages \in SUBSET Page : pages = {page}
  OBVIOUS
<1>3. PICK s1 : s1 = Demanded(st, class, pages, rev)
  OBVIOUS
<1>4. /\ Follows(st, s1) /\ s1.session = st.session /\ s1.cache = st.cache
      /\ s1.search = st.search /\ s1.analysis = st.analysis /\ s1.visible = st.visible
  BY <1>1, <1>3, DemandedOk
<1>5. StateOk(s1) /\ s1.gen = st.gen
  BY <1>4 DEF Follows
<1>6. s = IF class = "search" THEN [s1 EXCEPT !.search.waiting = TRUE]
                              ELSE [s1 EXCEPT !.analysis.waiting = TRUE]
  BY <1>2, <1>3
<1>7. PICK search : search = [s1.search EXCEPT !.waiting = TRUE]
  OBVIOUS
<1>8. PICK analysis : analysis = [s1.analysis EXCEPT !.waiting = TRUE]
  OBVIOUS
<1>9. /\ DOMAIN s = StateFields
      /\ s.gen = s1.gen /\ s.requests = s1.requests /\ s.session = s1.session
      /\ s.search = IF class = "search" THEN search ELSE s1.search
      /\ s.analysis = IF class = "search" THEN s1.analysis ELSE analysis
      /\ s.visible = s1.visible /\ s.pending = s1.pending /\ s.cache = s1.cache
  BY <1>5, <1>6, <1>7, <1>8 DEF StateOk, StateFields
<1>10. SearchOk(s.search, s1.gen)
  <2>1. SearchOk(s1.search, s1.gen)
    BY <1>5 DEF StateOk
  <2>2. class = "search" => SearchOk(search, s1.gen)
    BY <1>4, <1>5, <1>7, <2>1, WaitingOk
  <2> QED BY <1>9, <2>1, <2>2
<1>11. AnalysisOk(s.analysis, s1.gen)
  <2>1. AnalysisOk(s1.analysis, s1.gen)
    BY <1>5 DEF StateOk
  <2>2. class = "analysis" => AnalysisOk(analysis, s1.gen)
    BY <1>4, <1>5, <1>8, <2>1, WaitingOk
  <2> QED BY <1>9, <2>1, <2>2
<1>12. Follows(s1, s)
  <2>1. PICK t : t = s
    OBVIOUS
  <2>2. /\ DOMAIN t = StateFields
        /\ t.gen = s1.gen /\ t.requests = s1.requests /\ t.session = s1.session
        /\ t.visible = s1.visible /\ t.pending = s1.pending /\ t.cache = s1.cache
        /\ SearchOk(t.search, s1.gen) /\ AnalysisOk(t.analysis, s1.gen)
    BY <1>9, <1>10, <1>11, <2>1
  <2>3. /\ t.session = NoSession \/ t.session.gen \in Nat \ {0}
        /\ \A p \in Page : t.cache[p] \in {0, s1.gen}
        /\ t.visible \subseteq Page
    BY <1>5, <2>2 DEF StateOk
  <2>4. Follows(s1, t)
    BY <1>5, <2>2, <2>3, Adjusted
  <2> QED BY <2>1, <2>4
<1>13. Follows(st, s) /\ StateOk(s)
  <2>1. PICK t : t = s
    OBVIOUS
  <2>2. Follows(st, t)
    BY <1>1, <1>4, <1>12, <2>1, FollowsTwice
  <2> QED BY <2>1, <2>2 DEF Follows
<1>14. s.session # NoSession
  BY <1>4, <1>9
<1>15. CallOk(call, s.gen, s.requests) /\ call.op = "replace"
  BY <1>13, KeysDemanded
<1> QED BY <1>13, <1>14, <1>15

LEMMA StepDriveSearch ==
  ASSUME AdapterInv, DriveSearch
  PROVE  AdapterInv'
<1>1. BoxTaken
  BY BoxLeft DEF DriveSearch
<1>2. StateOk(st) /\ uses \in Scenario
  BY DEF AdapterInv
<1>3. st.session # NoSession /\ st.search # NoSearch
  BY DEF DriveSearch, CanDrive, Searching
<1>4. SearchOk(st.search, st.gen)
  BY <1>2 DEF StateOk
<1>5. PICK page \in Nat : page = st.search.next
  BY <1>4 DEF SearchOk
<1>6. st.search.gen = st.gen
  BY <1>3, <1>4 DEF SearchOk
<1>7. CASE Continue([st EXCEPT !.search = NoSearch], <<>>, NoCalls, "drain")
  <2>1. PICK s : s = [st EXCEPT !.search = NoSearch]
    OBVIOUS
  <2>2. Continue(s, <<>>, Cancel({}), "drain")
    BY <1>7, <2>1 DEF NoCalls
  <2>3. Follows(st, s)
    BY <1>2, <2>1, SearchDropped
  <2> QED BY <1>1, <2>2, <2>3, HandledIgnored
<1>8. CASE Continue([st EXCEPT !.search = NoSearch],
                    <<[event |-> "finished", gen |-> st.search.gen, rev |-> st.search.rev]>>,
                    NoCalls, "drain")
  <2>1. PICK s : s = [st EXCEPT !.search = NoSearch]
    OBVIOUS
  <2>2. PICK event : event = [event |-> "finished", gen |-> st.search.gen, rev |-> st.search.rev]
    OBVIOUS
  <2>3. Continue(s, <<event>>, NoCalls, "drain")
    BY <1>8, <2>1, <2>2
  <2>4. Follows(st, s)
    BY <1>2, <2>1, SearchDropped
  <2>5. IsOwn(event)
    BY <2>2 DEF IsOwn
  <2> QED BY <1>1, <2>3, <2>4, <2>5, Reported
<1>9. CASE /\ page < PageCount /\ st.cache[page] # 0
           /\ \E r \in SearchPage(st, page, st.cache[page]) :
                Continue(r.state, r.events, NoCalls, "drain")
  <2>1. PICK doc : doc = st.cache[page]
    OBVIOUS
  <2>2. PICK r \in SearchPage(st, page, doc) : Continue(r.state, r.events, NoCalls, "drain")
    BY <1>9, <2>1
  <2>3. doc = st.gen
    BY <1>2, <1>9, <2>1, PageHeld
  <2>4. Follows(st, r.state) /\ OwnSeq(r.events)
    BY <1>2, <2>2, <2>3, SearchPageOk
  <2>5. Continue(r.state, r.events, Cancel({}), "drain")
    BY <2>2 DEF NoCalls
  <2> QED BY <1>1, <2>4, <2>5, HandledAlone
<1>10. CASE page < PageCount /\ ~(st.cache[page] # 0) /\ Live("search", st.search.token)
  <2>1. PICK s : s = [Demanded(st, "search", {page}, st.search.rev) EXCEPT !.search.waiting = TRUE]
    OBVIOUS
  <2>2. PICK call : call = Replace("search", DemandKeys(s, "search"))
    OBVIOUS
  <2>3. PICK calls : calls = Calls({}, call)
    OBVIOUS
  <2>4. Continue(s, <<>>, calls, "analyse")
    <3>1. page < PageCount /\ st.cache[page] = 0 /\ ~(page >= PageCount)
      BY <1>2, <1>10, AdapterAssumption DEF PageCount
    <3> QED BY <1>5, <1>10, <2>1, <2>2, <2>3, <3>1 DEF DriveSearch
  <2>5. page \in Page
    BY <1>2, <1>10, PageHeld
  <2>6. PICK class \in {"search", "analysis"} : class = "search"
    OBVIOUS
  <2>7. /\ s = IF class = "search"
               THEN [Demanded(st, class, {page}, st.search.rev) EXCEPT !.search.waiting = TRUE]
               ELSE [Demanded(st, class, {page}, st.search.rev) EXCEPT !.analysis.waiting = TRUE]
        /\ call = Replace(class, DemandKeys(s, class))
    BY <2>1, <2>2, <2>6
  <2>8. /\ Follows(st, s) /\ s.session # NoSession
        /\ CallOk(call, s.gen, s.requests)
    BY <1>3, <1>6, <2>5, <2>6, <2>7, PageDemanded
  <2>9. DOMAIN calls = {"cancel", "call"} /\ calls.call = call
    BY <2>3, CallsFields
  <2> QED BY <1>1, <2>4, <2>8, <2>9, HandledQuietly
<1> QED BY <1>5, <1>7, <1>8, <1>9, <1>10 DEF DriveSearch

LEMMA StepDriveAnalysis ==
  ASSUME AdapterInv, DriveAnalysis
  PROVE  AdapterInv'
<1>1. BoxTaken
  BY BoxLeft DEF DriveAnalysis
<1>2. StateOk(st) /\ uses \in Scenario
  BY DEF AdapterInv
<1>3. st.session # NoSession /\ st.analysis # NoAnalysis
  BY DEF DriveAnalysis, CanDrive, Between, AdapterInv
<1>4. AnalysisOk(st.analysis, st.gen)
  BY <1>2 DEF StateOk
<1>5. PICK page \in Nat : page = st.analysis.next
  BY <1>4 DEF AnalysisOk
<1>6. st.analysis.gen = st.gen /\ st.analysis.docs \subseteq {st.gen}
  BY <1>3, <1>4 DEF AnalysisOk
<1>7. CASE Continue([st EXCEPT !.analysis = NoAnalysis],
                    <<[event |-> "analysis", gen |-> st.analysis.gen, docs |-> st.analysis.docs]>>,
                    NoCalls, "drain")
  <2>1. PICK s : s = [st EXCEPT !.analysis = NoAnalysis]
    OBVIOUS
  <2>2. PICK event : event = [event |-> "analysis", gen |-> st.analysis.gen,
                              docs |-> st.analysis.docs]
    OBVIOUS
  <2>3. Continue(s, <<event>>, NoCalls, "drain")
    BY <1>7, <2>1, <2>2
  <2>4. Follows(st, s)
    BY <1>2, <2>1, AnalysisDropped
  <2>5. IsOwn(event)
    BY <1>6, <2>2 DEF IsOwn
  <2> QED BY <1>1, <2>3, <2>4, <2>5, Reported
<1>8. CASE /\ page < PageCount /\ st.cache[page] # 0
           /\ Continue(Ingested(st, page, st.cache[page]), <<>>, NoCalls, "drain")
  <2>1. PICK doc : doc = st.cache[page]
    OBVIOUS
  <2>2. PICK s : s = Ingested(st, page, doc)
    OBVIOUS
  <2>3. doc = st.gen
    BY <1>2, <1>8, <2>1, PageHeld
  <2>4. Follows(st, s)
    BY <1>2, <2>2, <2>3, IngestedOk
  <2>5. Continue(s, <<>>, Cancel({}), "drain")
    BY <1>8, <2>1, <2>2 DEF NoCalls
  <2> QED BY <1>1, <2>4, <2>5, HandledIgnored
<1>9. CASE page < PageCount /\ ~(st.cache[page] # 0)
  <2>1. PICK s : s = [Demanded(st, "analysis", {page}, 0) EXCEPT !.analysis.waiting = TRUE]
    OBVIOUS
  <2>2. PICK call : call = Replace("analysis", DemandKeys(s, "analysis"))
    OBVIOUS
  <2>3. PICK calls : calls = Calls({}, call)
    OBVIOUS
  <2>4. Continue(s, <<>>, calls, "wait")
    <3>1. page < PageCount /\ st.cache[page] = 0 /\ ~(page >= PageCount)
      BY <1>2, <1>9, AdapterAssumption DEF PageCount
    <3> QED BY <1>5, <2>1, <2>2, <2>3, <3>1 DEF DriveAnalysis
  <2>5. page \in Page
    BY <1>2, <1>9, PageHeld
  <2>6. PICK class \in {"search", "analysis"} : class = "analysis"
    OBVIOUS
  <2>7. /\ s = IF class = "search"
               THEN [Demanded(st, class, {page}, 0) EXCEPT !.search.waiting = TRUE]
               ELSE [Demanded(st, class, {page}, 0) EXCEPT !.analysis.waiting = TRUE]
        /\ call = Replace(class, DemandKeys(s, class))
    BY <2>1, <2>2, <2>6
  <2>8. /\ Follows(st, s) /\ s.session # NoSession
        /\ CallOk(call, s.gen, s.requests)
    BY <1>3, <1>6, <2>5, <2>6, <2>7, PageDemanded
  <2>9. DOMAIN calls = {"cancel", "call"} /\ calls.call = call
    BY <2>3, CallsFields
  <2> QED BY <1>1, <2>4, <2>8, <2>9, HandledQuietly
<1> QED BY <1>5, <1>7, <1>8, <1>9 DEF DriveAnalysis

-----------------------------------------------------------------------------
(* Steps that leave the adapter's state alone *)

LEMMA Stays ==
  ASSUME AdapterInv, st' = st, uses' = uses, ReaderOk', adapterPc' = "analyse" => adapterPc = "analyse",
         EngineOk(engine', st.gen, st.requests), QueuesInv', RoutedInv',
         OwnSeq(outgoing'), OwnSeq(uiEvents'), deferred' = deferred \/ deferred' = NoCalls
  PROVE  AdapterInv'
<1>1. uses' \in Scenario /\ StateOk(st)'
  BY NextState DEF AdapterInv
<1>2. EngineOk(engine, st.gen, st.requests)'
  BY DEF EngineOk, OpeningOk, WorkOk, KeyOk, NewEngine
<1>3. ReportsInv'
  BY DEF ReportsInv, OwnSeq, IsOwn, IsSeq
<1>4. DeferredInv'
  <2>1. CASE deferred' = deferred
    BY <2>1 DEF AdapterInv, DeferredInv, CallOk, KeyOk
  <2>2. CASE deferred' = NoCalls
    BY <2>2 DEF DeferredInv, NoCalls, Cancel, Calls, NoCall, CallOk
  <2> QED BY <2>1, <2>2
<1>5. (adapterPc = "analyse" => st.session # NoSession)'
  BY DEF AdapterInv, NoSession
<1> QED BY <1>1, <1>2, <1>3, <1>4, <1>5 DEF AdapterInv

LEMMA QueuesStay ==
  ASSUME AdapterInv, st' = st, uses' = uses, BoxTaken, OutGrows
  PROVE  QueuesInv' /\ RoutedInv'
<1>1. QueuesInv'
  BY QueuesKept
<1> QED BY <1>1 DEF BoxTaken

LEMMA StepSendEvent ==
  ASSUME AdapterInv, SendEvent
  PROVE  AdapterInv'
<1>1. /\ outgoing # <<>> /\ uiEvents' = <<Head(outgoing)>> /\ outgoing' = Tail(outgoing)
      /\ uses' = uses /\ reader' = reader /\ mailbox' = mailbox /\ routed' = routed /\ st' = st
  BY DEF SendEvent, readerVars
<1>2. OwnSeq(outgoing') /\ OwnSeq(uiEvents')
  BY <1>1, OwnTail DEF AdapterInv, ReportsInv
<1>3. BoxTaken
  BY <1>1, BoxLeft
<1>4. ReaderOk'
  BY <1>1 DEF AdapterInv, ReaderOk
<1>5. IsSeq(engineOut) /\ EngineOk(engine, st.gen, st.requests)
  BY DEF AdapterInv, QueuesInv
<1>6. CASE Tail(outgoing) = <<>>
  <2>1. CallAll(deferred) /\ deferred' = NoCalls /\ adapterPc' = GoOn(adapterPc)
    BY <1>6 DEF SendEvent
  <2>2. EngineOk(engine', st.gen, st.requests)
    BY <1>5, <2>1, CallAllOk DEF AdapterInv, DeferredInv
  <2>3. OutGrows
    BY <1>5, <2>1, CallAllOut
  <2>4. adapterPc' = "analyse" => adapterPc = "analyse"
    BY <2>1 DEF GoOn
  <2> QED BY <1>1, <1>2, <1>3, <1>4, <2>1, <2>2, <2>3, <2>4, QueuesStay, Stays
<1>7. CASE Tail(outgoing) # <<>>
  <2>1. engine' = engine /\ engineOut' = engineOut /\ deferred' = deferred /\ adapterPc' = adapterPc
    BY <1>7 DEF SendEvent, engineVars
  <2>2. OutGrows
    BY <1>5, <2>1, OutSame
  <2> QED BY <1>1, <1>2, <1>3, <1>4, <1>5, <2>1, <2>2, QueuesStay, Stays
<1> QED BY <1>6, <1>7

\* Steps that change neither the queues nor the engine
LEMMA StepQuiet ==
  ASSUME AdapterInv, SendFails \/ DropReceiver \/ UNCHANGED docVars
  PROVE  AdapterInv'
<1>1. /\ uses' = uses /\ reader' = reader /\ mailbox' = mailbox /\ routed' = routed /\ st' = st
      /\ uiEvents' = uiEvents /\ engine' = engine /\ engineOut' = engineOut
      /\ outgoing' = outgoing \/ outgoing' = <<>>
      /\ deferred' = deferred \/ deferred' = NoCalls
      /\ adapterPc' = "analyse" => adapterPc = "analyse"
  BY DEF SendFails, DropReceiver, docVars, readerVars, adapterVars, engineVars
<1>2. OwnSeq(outgoing') /\ OwnSeq(uiEvents')
  BY <1>1, OwnEmpty DEF AdapterInv, ReportsInv
<1>3. BoxTaken
  BY <1>1, BoxLeft
<1>4. ReaderOk'
  BY <1>1 DEF AdapterInv, ReaderOk
<1>5. OutGrows /\ EngineOk(engine', st.gen, st.requests)
  BY <1>1, OutSame DEF AdapterInv, QueuesInv
<1> QED BY <1>1, <1>2, <1>3, <1>4, <1>5, QueuesStay, Stays

-----------------------------------------------------------------------------
(* The reader *)

\* handle_worker_event
LEMMA StepReceive ==
  ASSUME AdapterInv, Receive
  PROVE  AdapterInv'
<1>1. /\ uiEvents # <<>> /\ uiEvents' = Tail(uiEvents)
      /\ uses' = uses /\ mailbox' = mailbox /\ routed' = routed /\ st' = st
      /\ engine' = engine /\ engineOut' = engineOut
      /\ outgoing' = outgoing /\ deferred' = deferred /\ adapterPc' = adapterPc
  BY DEF Receive, adapterVars, engineVars
<1>2. OwnSeq(outgoing') /\ OwnSeq(uiEvents')
  BY <1>1, OwnTail DEF AdapterInv, ReportsInv
<1>3. BoxTaken
  BY <1>1, BoxLeft
<1>4. ReaderOk'
  BY DEF Receive, AdapterInv, ReaderOk
<1>5. OutGrows /\ EngineOk(engine', st.gen, st.requests)
  BY <1>1, OutSame DEF AdapterInv, QueuesInv
<1> QED BY <1>1, <1>2, <1>3, <1>4, <1>5, QueuesStay, Stays

\* A command goes to the end of the mailbox or is refused.
LEMMA Offered ==
  ASSUME AdapterInv, st' = st, uses' = uses, routed' = routed, OutGrows,
         NEW command, Offer(command), ~IsEvent(command), CommandOk(command)
  PROVE  QueuesInv' /\ RoutedInv'
<1>1. CASE mailbox' = mailbox
  BY <1>1, BoxLeft, QueuesStay
<1>2. CASE mailbox' # mailbox
  <2>1. PICK box : box = Append(mailbox, command)
    OBVIOUS
  <2>2. mailbox' = box
    BY <1>2, <2>1 DEF Offer
  <2>3. IsSeq(mailbox) /\ \A i \in DOMAIN mailbox : MessageOk(mailbox[i], st)
    BY DEF AdapterInv, QueuesInv
  <2>4. /\ IsSeq(box) /\ DOMAIN box = 1..(Len(mailbox) + 1)
        /\ \A i \in DOMAIN mailbox : box[i] = mailbox[i]
        /\ box[Len(mailbox) + 1] = command
    BY <2>1, <2>3, SeqAppend
  <2>5. Len(mailbox) \in Nat /\ DOMAIN mailbox = 1..Len(mailbox)
    BY <2>3, SeqDomain
  <2>6. ASSUME NEW i \in DOMAIN box
        PROVE  \/ i \in DOMAIN mailbox /\ box[i] = mailbox[i]
               \/ box[i] = command /\ ~IsEvent(box[i])
    BY <2>4, <2>5
  <2>7. \A i \in DOMAIN box : MessageOk(box[i], st)
    BY <2>3, <2>6 DEF MessageOk
  <2>8. EventsIn(box) = EventsIn(mailbox)
    <3>1. EventsIn(box) \subseteq EventsIn(mailbox)
      BY <2>6 DEF EventsIn
    <3>2. EventsIn(mailbox) \subseteq EventsIn(box)
      BY <2>4, <2>5 DEF EventsIn
    <3> QED BY <3>1, <3>2
  <2>9. DOMAIN mailbox \subseteq DOMAIN box
    BY <2>4, <2>5
  <2>10. RoutedInv'
    <3>1. RoutedInv
      BY DEF AdapterInv
    <3> QED BY <2>2, <2>8, <2>9, <3>1 DEF RoutedInv, EventsIn
  <2>11. /\ \A i \in DOMAIN engineOut' : IsEvent(engineOut'[i]) /\ EventOk(engineOut'[i], st)
         /\ IsSeq(engineOut')
    BY DEF OutGrows, AdapterInv, QueuesInv
  <2>12. Page' = Page
    BY DEF Page, PageCount
  <2>13. \A i \in DOMAIN mailbox' : MessageOk(mailbox[i], st)'
    BY <2>2, <2>7, <2>12 DEF MessageOk, CommandOk, EventOk, IsEvent
  <2>14. \A i \in DOMAIN engineOut' : (IsEvent(engineOut[i]) /\ EventOk(engineOut[i], st))'
    BY <2>11 DEF EventOk, IsEvent
  <2> QED BY <2>2, <2>4, <2>10, <2>11, <2>13, <2>14 DEF QueuesInv, IsSeq
<1> QED BY <1>1, <1>2

\* A step of the reader that makes calls
LEMMA Asked ==
  ASSUME AdapterInv, NEW calls, calls.call \in {NoCall, Close}, CallAll(calls), ReaderOk',
         NEW command, Offer(command), ~IsEvent(command), CommandOk(command),
         UNCHANGED <<uses, routed, uiEvents, adapterVars>>
  PROVE  AdapterInv'
<1>1. /\ uses' = uses /\ routed' = routed /\ uiEvents' = uiEvents /\ st' = st
      /\ outgoing' = outgoing /\ deferred' = deferred /\ adapterPc' = adapterPc
  BY DEF adapterVars
<1>2. OwnSeq(outgoing') /\ OwnSeq(uiEvents')
  BY <1>1 DEF AdapterInv, ReportsInv
<1>3. IsSeq(engineOut) /\ EngineOk(engine, st.gen, st.requests)
  BY DEF AdapterInv, QueuesInv
<1>4. CallOk(calls.call, st.gen, st.requests)
  BY OtherCalls
<1>5. EngineOk(engine', st.gen, st.requests)
  BY <1>3, <1>4, CallAllOk
<1>6. OutGrows
  BY <1>3, CallAllOut
<1>7. QueuesInv' /\ RoutedInv'
  BY <1>1, <1>6, Offered
<1> QED BY <1>1, <1>2, <1>5, <1>7, Stays

LEMMA StepReaderOpen ==
  ASSUME AdapterInv, ReaderOpen
  PROVE  AdapterInv'
<1>1. PICK g : g = reader.gen + 1
  OBVIOUS
<1>2. g \in Nat \ {0}
  BY <1>1 DEF AdapterInv, ReaderOk
<1>3. PICK command : command = [command |-> "open", gen |-> g]
  OBVIOUS
<1>4. ~IsEvent(command) /\ CommandOk(command)
  BY <1>2, <1>3 DEF IsEvent, CommandOk
<1>5. ReaderOk'
  BY <1>1, <1>2 DEF ReaderOpen, AdapterInv, ReaderOk
<1>6. PICK calls : calls = Calls({}, Close)
  OBVIOUS
<1>7. calls.call \in {NoCall, Close}
  BY <1>6, CallsFields
<1>8. CallAll(calls) /\ Offer(command) /\ UNCHANGED <<uses, routed, uiEvents, adapterVars>>
  BY <1>1, <1>3, <1>6 DEF ReaderOpen
<1> QED BY <1>4, <1>5, <1>7, <1>8, Asked

\* Any other call
LEMMA CallMade ==
  ASSUME AdapterInv, NEW name, NEW newSlot, NEW classes, NEW command, NEW newReader,
         ReaderCall(name, newSlot, Cancel(classes), command, newReader),
         "gen" \in DOMAIN newReader, newReader.gen = reader.gen,
         ~IsEvent(command), CommandOk(command)
  PROVE  AdapterInv'
<1>1. PICK calls : calls = Cancel(classes)
  OBVIOUS
<1>2. calls.call \in {NoCall, Close}
  BY <1>1, CallsFields DEF Cancel
<1>3. /\ CallAll(calls) /\ Offer(command) /\ UNCHANGED <<uses, routed, uiEvents, adapterVars>>
      /\ reader' = [newReader EXCEPT !.calls = @ + 1]
  BY <1>1 DEF ReaderCall
<1>4. ReaderOk'
  BY <1>3 DEF AdapterInv, ReaderOk
<1> QED BY <1>2, <1>3, <1>4, Asked

LEMMA StepReaderCall ==
  ASSUME AdapterInv,
         \/ SetBackgroundEnabled \/ Hibernate \/ Resume \/ RenderViewport \/ RenderPreview
         \/ ExtractText \/ EnsureTextPages \/ CancelExplicitText \/ Search \/ CancelSearch
  PROVE  AdapterInv'
<1>1. "gen" \in DOMAIN reader
  BY DEF AdapterInv, ReaderOk
<1>2. 0 \in Page
  BY AdapterAssumption DEF AdapterInv, Page, PageCount
<1>3. CASE SetBackgroundEnabled
  <2>1. PICK enabled \in BOOLEAN :
          ReaderCall("background", slot, Cancel({}),
            [command |-> "background", gen |-> reader.gen, enabled |-> enabled],
            [reader EXCEPT !.background = IF Accepted THEN enabled ELSE @])
    BY <1>3 DEF SetBackgroundEnabled, NoCalls
  <2>2. PICK command : command = [command |-> "background", gen |-> reader.gen,
                                  enabled |-> enabled]
    OBVIOUS
  <2>3. PICK new : new = [reader EXCEPT !.background = IF Accepted THEN enabled ELSE @]
    OBVIOUS
  <2>4. ~IsEvent(command) /\ CommandOk(command)
    BY <2>2 DEF IsEvent, CommandOk
  <2>5. "gen" \in DOMAIN new /\ new.gen = reader.gen
    BY <1>1, <2>3
  <2>6. ReaderCall("background", slot, Cancel({}), command, new)
    BY <2>1, <2>2, <2>3
  <2> QED BY <2>4, <2>5, <2>6, CallMade
<1>4. CASE Hibernate
  <2>1. PICK command : command = [command |-> "hibernate", gen |-> reader.gen]
    OBVIOUS
  <2>2. PICK new : new = [reader EXCEPT !.asleep = Accepted, !.background = @ /\ ~Accepted,
                                        !.shown = 0, !.searching = 0, !.loading = FALSE]
    OBVIOUS
  <2>3. ~IsEvent(command) /\ CommandOk(command)
    BY <2>1 DEF IsEvent, CommandOk
  <2>4. "gen" \in DOMAIN new /\ new.gen = reader.gen
    BY <1>1, <2>2
  <2>5. ReaderCall("hibernate", [slot EXCEPT !["copy"] = 0, !["search"] = 0],
                   Cancel(WorkClasses), command, new)
    BY <1>4, <2>1, <2>2 DEF Hibernate
  <2> QED BY <2>3, <2>4, <2>5, CallMade
<1>5. CASE Resume
  <2>1. PICK command : command = [command |-> "resume", gen |-> reader.gen]
    OBVIOUS
  <2>2. PICK new : new = [reader EXCEPT !.asleep = ~Accepted]
    OBVIOUS
  <2>3. ~IsEvent(command) /\ CommandOk(command)
    BY <2>1 DEF IsEvent, CommandOk
  <2>4. "gen" \in DOMAIN new /\ new.gen = reader.gen
    BY <1>1, <2>2
  <2>5. ReaderCall("resume", slot, Cancel({}), command, new)
    BY <1>5, <2>1, <2>2 DEF Resume, NoCalls
  <2> QED BY <2>3, <2>4, <2>5, CallMade
<1>6. CASE RenderViewport
  <2>1. PICK call \in {"viewport", "blank"} :
          ReaderCall(call, Fresh("render"), Cancel({"render", "visible"}),
            [command |-> "viewport", gen |-> reader.gen,
             pages |-> IF call = "blank" THEN {} ELSE {0}, token |-> Token], reader)
    BY <1>6 DEF RenderViewport
  <2>2. PICK command : command = [command |-> "viewport", gen |-> reader.gen,
                                  pages |-> IF call = "blank" THEN {} ELSE {0}, token |-> Token]
    OBVIOUS
  <2>3. ~IsEvent(command) /\ CommandOk(command)
    BY <1>2, <2>2 DEF IsEvent, CommandOk
  <2>4. ReaderCall(call, Fresh("render"), Cancel({"render", "visible"}), command, reader)
    BY <2>1, <2>2
  <2> QED BY <1>1, <2>3, <2>4, CallMade
<1>7. CASE RenderPreview
  <2>1. PICK command : command = [command |-> "preview", gen |-> reader.gen, pages |-> {0},
                                  token |-> Token]
    OBVIOUS
  <2>2. ~IsEvent(command) /\ CommandOk(command)
    BY <1>2, <2>1 DEF IsEvent, CommandOk
  <2>3. ReaderCall("preview", Fresh("preview"), Cancel({"preview"}), command, reader)
    BY <1>7, <2>1 DEF RenderPreview
  <2> QED BY <1>1, <2>2, <2>3, CallMade
<1>8. CASE ExtractText
  <2>1. PICK command : command = [command |-> "copy", gen |-> reader.gen, pages |-> {0},
                                  token |-> Token]
    OBVIOUS
  <2>2. ~IsEvent(command) /\ CommandOk(command)
    BY <1>2, <2>1 DEF IsEvent, CommandOk
  <2>3. ReaderCall("copy", Fresh("copy"), Cancel({"copy"}), command, reader)
    BY <1>8, <2>1 DEF ExtractText
  <2> QED BY <1>1, <2>2, <2>3, CallMade
<1>9. CASE EnsureTextPages
  <2>1. PICK token : token = IF slot["copy"] = 0 THEN Token ELSE slot["copy"]
    OBVIOUS
  <2>2. PICK command : command = [command |-> "copy", gen |-> reader.gen, pages |-> Page,
                                  token |-> token]
    OBVIOUS
  <2>3. ~IsEvent(command) /\ CommandOk(command)
    BY <2>2 DEF IsEvent, CommandOk
  <2>4. ReaderCall("ensure", [slot EXCEPT !["copy"] = token], Cancel({}), command, reader)
    BY <1>9, <2>1, <2>2 DEF EnsureTextPages, NoCalls
  <2> QED BY <1>1, <2>3, <2>4, CallMade
<1>10. CASE CancelExplicitText
  <2>1. PICK command : command = [command |-> "cancelcopy", gen |-> reader.gen]
    OBVIOUS
  <2>2. ~IsEvent(command) /\ CommandOk(command)
    BY <2>1 DEF IsEvent, CommandOk
  <2>3. ReaderCall("cancelcopy", [slot EXCEPT !["copy"] = 0], Cancel({"copy"}), command, reader)
    BY <1>10, <2>1 DEF CancelExplicitText
  <2> QED BY <1>1, <2>2, <2>3, CallMade
<1>11. CASE Search
  <2>1. PICK command : command = [command |-> "search", gen |-> reader.gen, rev |-> reader.rev,
                                  token |-> Token]
    OBVIOUS
  <2>2. PICK new : new = [reader EXCEPT !.debounce = FALSE,
                                        !.searching = IF Accepted /\ reader.shown = reader.gen
                                                      THEN reader.rev ELSE 0]
    OBVIOUS
  <2>3. ~IsEvent(command) /\ CommandOk(command)
    BY <2>1 DEF IsEvent, CommandOk
  <2>4. "gen" \in DOMAIN new /\ new.gen = reader.gen
    BY <1>1, <2>2
  <2>5. ReaderCall("search", Fresh("search"), Cancel({"search"}), command, new)
    BY <1>11, <2>1, <2>2 DEF Search
  <2> QED BY <2>3, <2>4, <2>5, CallMade
<1>12. CASE CancelSearch
  <2>1. PICK follows \in BOOLEAN :
          ReaderCall("cancelsearch", [slot EXCEPT !["search"] = 0], Cancel({"search"}),
            [command |-> "cancelsearch", gen |-> reader.gen, rev |-> reader.rev + 1],
            [reader EXCEPT !.rev = @ + 1, !.searching = 0, !.debounce = follows])
    BY <1>12 DEF CancelSearch
  <2>2. PICK command : command = [command |-> "cancelsearch", gen |-> reader.gen,
                                  rev |-> reader.rev + 1]
    OBVIOUS
  <2>3. PICK new : new = [reader EXCEPT !.rev = @ + 1, !.searching = 0, !.debounce = follows]
    OBVIOUS
  <2>4. ~IsEvent(command) /\ CommandOk(command)
    BY <2>2 DEF IsEvent, CommandOk
  <2>5. "gen" \in DOMAIN new /\ new.gen = reader.gen
    BY <1>1, <2>3
  <2>6. ReaderCall("cancelsearch", [slot EXCEPT !["search"] = 0], Cancel({"search"}), command, new)
    BY <2>1, <2>2, <2>3
  <2> QED BY <2>4, <2>5, <2>6, CallMade
<1> QED BY <1>3, <1>4, <1>5, <1>6, <1>7, <1>8, <1>9, <1>10, <1>11, <1>12

LEMMA StepDropWorker ==
  ASSUME AdapterInv, DropWorker
  PROVE  AdapterInv'
<1>1. PICK command : command = [command |-> "shutdown"]
  OBVIOUS
<1>2. ~IsEvent(command) /\ CommandOk(command)
  BY <1>1 DEF IsEvent, CommandOk
<1>3. /\ uses' = uses /\ reader' = reader /\ routed' = routed /\ st' = st
      /\ uiEvents' = uiEvents /\ engine' = engine /\ engineOut' = engineOut
      /\ outgoing' = outgoing /\ deferred' = deferred /\ adapterPc' = adapterPc
      /\ Offer(command)
  BY <1>1 DEF DropWorker, readerVars, adapterVars, engineVars
<1>4. OwnSeq(outgoing') /\ OwnSeq(uiEvents')
  BY <1>3 DEF AdapterInv, ReportsInv
<1>5. ReaderOk'
  BY <1>3 DEF AdapterInv, ReaderOk
<1>6. OutGrows /\ EngineOk(engine', st.gen, st.requests)
  BY <1>3, OutSame DEF AdapterInv, QueuesInv
<1>7. QueuesInv' /\ RoutedInv'
  BY <1>2, <1>3, <1>6, Offered
<1> QED BY <1>3, <1>4, <1>5, <1>6, <1>7, Stays

-----------------------------------------------------------------------------
(* The engine's steps *)

\* A step of the engine that touches nothing but the engine and what it reports
LEMMA EngineSteps ==
  ASSUME AdapterInv, EngineOk(engine', st.gen, st.requests), OutGrows,
         UNCHANGED <<uses, readerVars, mailbox, routed, uiEvents, adapterVars>>
  PROVE  AdapterInv'
<1>1. /\ uses' = uses /\ reader' = reader /\ mailbox' = mailbox /\ routed' = routed /\ st' = st
      /\ uiEvents' = uiEvents /\ outgoing' = outgoing /\ deferred' = deferred
      /\ adapterPc' = adapterPc
  BY DEF readerVars, adapterVars
<1>2. OwnSeq(outgoing') /\ OwnSeq(uiEvents')
  BY <1>1 DEF AdapterInv, ReportsInv
<1>3. BoxTaken
  BY <1>1, BoxLeft
<1>4. ReaderOk'
  BY <1>1 DEF AdapterInv, ReaderOk
<1> QED BY <1>1, <1>2, <1>3, <1>4, QueuesStay, Stays

LEMMA StepStartWork ==
  ASSUME AdapterInv, StartWork
  PROVE  AdapterInv'
<1>1. PICK w \in engine.opening \cup engine.work :
        engine' = [engine EXCEPT !.running = {w}, !.work = @ \ {w}, !.opening = @ \ {w}]
  BY DEF StartWork
<1>2. EngineOk(engine, st.gen, st.requests) /\ IsSeq(engineOut)
  BY DEF AdapterInv, QueuesInv
<1>3. PICK new : new = [engine EXCEPT !.running = {w}, !.work = @ \ {w}, !.opening = @ \ {w}]
  OBVIOUS
<1>4. /\ DOMAIN new = DOMAIN NewEngine
      /\ new.running = {w} /\ new.work = engine.work \ {w} /\ new.opening = engine.opening \ {w}
      /\ new.live = engine.live /\ new.token = engine.token /\ new.opens = engine.opens
      /\ new.gen = engine.gen /\ new.doc = engine.doc
  BY <1>2, <1>3 DEF EngineOk, NewEngine
<1>5. \A o : OpeningOk(o, engine, st.gen) => OpeningOk(o, new, st.gen)
  BY <1>4 DEF OpeningOk
<1>6. OpeningOk(w, engine, st.gen) \/ WorkOk(w, st.requests)
  BY <1>2 DEF EngineOk
<1>7. EngineOk(new, st.gen, st.requests)
  BY <1>2, <1>4, <1>5, <1>6 DEF EngineOk
<1>8. OutGrows /\ EngineOk(engine', st.gen, st.requests)
  BY <1>1, <1>2, <1>3, <1>7, OutSame DEF StartWork
<1>9. UNCHANGED <<uses, readerVars, mailbox, routed, uiEvents, adapterVars>>
  BY DEF StartWork
<1> QED BY <1>8, <1>9, EngineSteps

\* The end of a piece of work: what it reports has to be as it should be.
LEMMA WorkEnded ==
  ASSUME AdapterInv, NEW next, EngineOk(next, st.gen, st.requests), NEW event,
         IsEvent(event), EventOk(event, st), EndWork(next, event)
  PROVE  AdapterInv'
<1>1. PICK new : new = [next EXCEPT !.running = {}]
  OBVIOUS
<1>2. /\ DOMAIN new = DOMAIN NewEngine
      /\ new.running = {} /\ new.work = next.work /\ new.opening = next.opening
      /\ new.live = next.live /\ new.token = next.token /\ new.opens = next.opens
      /\ new.gen = next.gen /\ new.doc = next.doc
  BY <1>1 DEF EngineOk, NewEngine
<1>3. \A o : OpeningOk(o, next, st.gen) => OpeningOk(o, new, st.gen)
  BY <1>2 DEF OpeningOk
<1>4. EngineOk(new, st.gen, st.requests)
  BY <1>2, <1>3 DEF EngineOk
<1>5. engine' = new /\ engineOut' = Append(engineOut, event)
  BY <1>1 DEF EndWork
<1>6. /\ uses' = uses /\ reader' = reader /\ mailbox' = mailbox /\ routed' = routed /\ st' = st
      /\ uiEvents' = uiEvents /\ outgoing' = outgoing /\ deferred' = deferred
      /\ adapterPc' = adapterPc
  BY DEF EndWork, readerVars, adapterVars
<1>7. OwnSeq(outgoing') /\ OwnSeq(uiEvents')
  BY <1>6 DEF AdapterInv, ReportsInv
<1>8. ReaderOk' /\ RoutedInv'
  BY <1>6 DEF AdapterInv, ReaderOk, RoutedInv, EventsIn
<1>9. PICK out : out = Append(engineOut, event)
  OBVIOUS
<1>10. /\ IsSeq(engineOut) /\ IsSeq(mailbox)
       /\ \A i \in DOMAIN engineOut : IsEvent(engineOut[i]) /\ EventOk(engineOut[i], st)
       /\ \A i \in DOMAIN mailbox : MessageOk(mailbox[i], st)
  BY DEF AdapterInv, QueuesInv
<1>11. /\ IsSeq(out) /\ DOMAIN out = 1..(Len(engineOut) + 1)
       /\ \A i \in DOMAIN engineOut : out[i] = engineOut[i]
       /\ out[Len(engineOut) + 1] = event
  BY <1>9, <1>10, SeqAppend
<1>12. Len(engineOut) \in Nat /\ DOMAIN engineOut = 1..Len(engineOut)
  BY <1>10, SeqDomain
<1>13. ASSUME NEW i \in DOMAIN out
       PROVE  out[i] = event \/ (i \in DOMAIN engineOut /\ out[i] = engineOut[i])
  BY <1>11, <1>12
<1>14. \A i \in DOMAIN out : IsEvent(out[i]) /\ EventOk(out[i], st)
  BY <1>10, <1>13
<1>15. Page' = Page
  BY <1>6 DEF Page, PageCount
<1>16. \A i \in DOMAIN engineOut' : (IsEvent(engineOut[i]) /\ EventOk(engineOut[i], st))'
  BY <1>5, <1>6, <1>9, <1>14 DEF EventOk, IsEvent
<1>17. \A i \in DOMAIN mailbox' : MessageOk(mailbox[i], st)'
  BY <1>6, <1>10, <1>15 DEF MessageOk, CommandOk, EventOk, IsEvent
<1>18. QueuesInv'
  BY <1>5, <1>6, <1>9, <1>10, <1>11, <1>16, <1>17 DEF QueuesInv, IsSeq
<1> QED BY <1>4, <1>5, <1>6, <1>7, <1>8, <1>18, Stays

\* process_open: what is opened with a live token is the document.
LEMMA StepFinishOpen ==
  ASSUME AdapterInv, FinishOpen
  PROVE  AdapterInv'
<1>1. EngineOk(engine, st.gen, st.requests)
  BY DEF AdapterInv
<1>2. PICK g : g = engine.opens + 1
  OBVIOUS
<1>3. g \in Nat \ {0}
  BY <1>1, <1>2 DEF EngineOk
<1>4. PICK begun : begun = [engine EXCEPT !.opens = g]
  OBVIOUS
<1>5. /\ DOMAIN begun = DOMAIN NewEngine
      /\ begun.running = engine.running /\ begun.work = engine.work
      /\ begun.opening = engine.opening
      /\ begun.live = engine.live /\ begun.token = engine.token /\ begun.opens = g
      /\ begun.gen = engine.gen /\ begun.doc = engine.doc
  BY <1>1, <1>4 DEF EngineOk, NewEngine
<1>6. \A o : OpeningOk(o, engine, st.gen) => OpeningOk(o, begun, st.gen)
  BY <1>5 DEF OpeningOk
<1>7. EngineOk(begun, st.gen, st.requests)
  BY <1>1, <1>3, <1>5, <1>6 DEF EngineOk
<1>8. PICK w \in engine.running :
        /\ w.class = "open"
        /\ \/ /\ IsLive(w)
              /\ EndWork([begun EXCEPT !.doc = w.doc, !.gen = g],
                         [event |-> "opened", doc |-> w.doc, gen |-> g])
           \/ EndWork(begun, [event |-> "openfailed", doc |-> w.doc, gen |-> g])
           \/ EndWork(begun, [event |-> "opencancelled", doc |-> w.doc, gen |-> g])
  BY <1>2, <1>4 DEF FinishOpen
<1>9. CASE /\ IsLive(w)
           /\ EndWork([begun EXCEPT !.doc = w.doc, !.gen = g],
                      [event |-> "opened", doc |-> w.doc, gen |-> g])
  <2>1. OpeningOk(w, engine, st.gen)
    BY <1>1, <1>8 DEF EngineOk, WorkOk
  <2>2. w.doc = st.gen
    BY <1>8, <1>9, <2>1 DEF OpeningOk, IsLive
  <2>3. PICK next : next = [begun EXCEPT !.doc = w.doc, !.gen = g]
    OBVIOUS
  <2>4. /\ DOMAIN next = DOMAIN NewEngine
        /\ next.running = begun.running /\ next.work = begun.work
        /\ next.opening = begun.opening
        /\ next.live = begun.live /\ next.token = begun.token /\ next.opens = g
        /\ next.gen = g /\ next.doc = st.gen
    BY <1>5, <2>2, <2>3 DEF NewEngine
  <2>5. \A o : OpeningOk(o, begun, st.gen) => OpeningOk(o, next, st.gen)
    BY <2>4 DEF OpeningOk
  <2>6. EngineOk(next, st.gen, st.requests)
    BY <1>3, <1>7, <2>4, <2>5 DEF EngineOk
  <2>7. PICK event : event = [event |-> "opened", doc |-> w.doc, gen |-> g]
    OBVIOUS
  <2>8. IsEvent(event) /\ EventOk(event, st)
    BY <1>3, <2>7 DEF IsEvent, EventOk
  <2>9. EndWork(next, event)
    BY <1>9, <2>3, <2>7
  <2> QED BY <2>6, <2>8, <2>9, WorkEnded
<1>10. CASE EndWork(begun, [event |-> "openfailed", doc |-> w.doc, gen |-> g])
  <2>1. PICK event : event = [event |-> "openfailed", doc |-> w.doc, gen |-> g]
    OBVIOUS
  <2>2. IsEvent(event) /\ EventOk(event, st)
    BY <2>1 DEF IsEvent, EventOk
  <2>3. EndWork(begun, event)
    BY <1>10, <2>1
  <2> QED BY <1>7, <2>2, <2>3, WorkEnded
<1>11. CASE EndWork(begun, [event |-> "opencancelled", doc |-> w.doc, gen |-> g])
  <2>1. PICK event : event = [event |-> "opencancelled", doc |-> w.doc, gen |-> g]
    OBVIOUS
  <2>2. IsEvent(event) /\ EventOk(event, st)
    BY <2>1 DEF IsEvent, EventOk
  <2>3. EndWork(begun, event)
    BY <1>11, <2>1
  <2> QED BY <1>7, <2>2, <2>3, WorkEnded
<1> QED BY <1>8, <1>9, <1>10, <1>11

\* An answer other than a cancellation is of the generation that is open, which is
\* the document's.
LEMMA StepFinishWork ==
  ASSUME AdapterInv, FinishWork
  PROVE  AdapterInv'
<1>1. EngineOk(engine, st.gen, st.requests)
  BY DEF AdapterInv
<1>2. PICK w \in engine.running :
        /\ w.class # "open"
        /\ \E outcome \in IF IsLive(w) /\ w.key.gen = engine.gen
                          THEN {"ready", "failed"} ELSE {"cancelled"} :
             EndWork(engine, [event |-> outcome, class |-> w.class, key |-> w.key,
                              doc |-> engine.doc])
  BY DEF FinishWork
<1>3. PICK outcome :
        /\ outcome \in {"ready", "failed"} => w.key.gen = engine.gen
        /\ outcome \in {"ready", "failed", "cancelled"}
        /\ EndWork(engine, [event |-> outcome, class |-> w.class, key |-> w.key,
                            doc |-> engine.doc])
  BY <1>2
<1>4. KeyOk(w.key, st.requests)
  BY <1>1, <1>2 DEF EngineOk, OpeningOk, WorkOk
<1>5. PICK event : event = [event |-> outcome, class |-> w.class, key |-> w.key,
                            doc |-> engine.doc]
  OBVIOUS
<1>6. outcome \in {"ready", "failed"} => engine.doc = st.gen
  BY <1>1, <1>3, <1>4 DEF EngineOk, KeyOk
<1>7. IsEvent(event) /\ EventOk(event, st)
  BY <1>3, <1>4, <1>5, <1>6 DEF IsEvent, EventOk
<1>8. EndWork(engine, event)
  BY <1>3, <1>5
<1> QED BY <1>1, <1>7, <1>8, WorkEnded

\* The closure of attach_routed
LEMMA StepRoute ==
  ASSUME AdapterInv, Route
  PROVE  AdapterInv'
<1>1. /\ engineOut # <<>> /\ ~routed /\ routed' = TRUE
      /\ mailbox' = Append(mailbox, Head(engineOut)) /\ engineOut' = Tail(engineOut)
      /\ uses' = uses /\ reader' = reader /\ st' = st
      /\ uiEvents' = uiEvents /\ outgoing' = outgoing /\ deferred' = deferred
      /\ adapterPc' = adapterPc /\ engine' = engine
  BY DEF Route, readerVars, adapterVars
<1>2. OwnSeq(outgoing') /\ OwnSeq(uiEvents')
  BY <1>1 DEF AdapterInv, ReportsInv
<1>3. ReaderOk'
  BY <1>1 DEF AdapterInv, ReaderOk
<1>4. EngineOk(engine', st.gen, st.requests)
  BY <1>1 DEF AdapterInv
<1>5. /\ IsSeq(engineOut) /\ IsSeq(mailbox)
      /\ \A i \in DOMAIN engineOut : IsEvent(engineOut[i]) /\ EventOk(engineOut[i], st)
      /\ \A i \in DOMAIN mailbox : MessageOk(mailbox[i], st)
  BY DEF AdapterInv, QueuesInv
<1>6. PICK event : event = Head(engineOut)
  OBVIOUS
<1>7. IsEvent(event) /\ EventOk(event, st)
  BY <1>1, <1>5, <1>6, SeqHead
<1>8. PICK rest : rest = Tail(engineOut)
  OBVIOUS
<1>9. /\ IsSeq(rest)
      /\ \A i \in DOMAIN rest : i + 1 \in DOMAIN engineOut /\ rest[i] = engineOut[i + 1]
  BY <1>1, <1>5, <1>8, SeqTail
<1>10. \A i \in DOMAIN rest : IsEvent(rest[i]) /\ EventOk(rest[i], st)
  BY <1>5, <1>9
<1>11. PICK box : box = Append(mailbox, event)
  OBVIOUS
<1>12. /\ IsSeq(box) /\ DOMAIN box = 1..(Len(mailbox) + 1)
       /\ \A i \in DOMAIN mailbox : box[i] = mailbox[i]
       /\ box[Len(mailbox) + 1] = event
  BY <1>5, <1>11, SeqAppend
<1>13. Len(mailbox) \in Nat /\ DOMAIN mailbox = 1..Len(mailbox)
  BY <1>5, SeqDomain
<1>14. ASSUME NEW i \in DOMAIN box
       PROVE  \/ i \in DOMAIN mailbox /\ box[i] = mailbox[i]
              \/ i = Len(mailbox) + 1 /\ box[i] = event
  BY <1>12, <1>13
<1>15. \A i \in DOMAIN box : MessageOk(box[i], st)
  BY <1>5, <1>7, <1>14 DEF MessageOk
<1>16. EventsIn(mailbox) = {}
  BY <1>1 DEF AdapterInv, RoutedInv
<1>17. PICK k : k = Len(mailbox) + 1
  OBVIOUS
<1>18. EventsIn(box) = {k} /\ k \in DOMAIN box
  <2>1. k \in DOMAIN box /\ box[k] = event
    BY <1>12, <1>13, <1>17
  <2>2. k \in EventsIn(box)
    BY <1>7, <2>1 DEF EventsIn
  <2>3. ASSUME NEW i \in EventsIn(box)
        PROVE  i = k
    <3>1. i \in DOMAIN box /\ IsEvent(box[i])
      BY DEF EventsIn
    <3>2. CASE i \in DOMAIN mailbox /\ box[i] = mailbox[i]
      BY <1>16, <3>1, <3>2 DEF EventsIn
    <3> QED BY <1>14, <1>17, <3>1, <3>2
  <2> QED BY <2>1, <2>2, <2>3
<1>19. mailbox' = box /\ engineOut' = rest
  BY <1>1, <1>6, <1>8, <1>11
<1>20. RoutedInv'
  BY <1>1, <1>18, <1>19 DEF RoutedInv, EventsIn
<1>21. Page' = Page
  BY <1>1 DEF Page, PageCount
<1>22. \A i \in DOMAIN engineOut' : (IsEvent(engineOut[i]) /\ EventOk(engineOut[i], st))'
  BY <1>1, <1>10, <1>19 DEF EventOk, IsEvent
<1>23. \A i \in DOMAIN mailbox' : MessageOk(mailbox[i], st)'
  BY <1>1, <1>15, <1>19, <1>21 DEF MessageOk, CommandOk, EventOk, IsEvent
<1>24. QueuesInv'
  BY <1>9, <1>12, <1>19, <1>22, <1>23 DEF QueuesInv, IsSeq
<1> QED BY <1>1, <1>2, <1>3, <1>4, <1>20, <1>24, Stays

-----------------------------------------------------------------------------
(* The theorems *)

LEMMA InitInv ==
  ASSUME DocInit
  PROVE  AdapterInv
<1>1. /\ uses \in Scenario /\ reader.gen = 0 /\ "gen" \in DOMAIN reader
      /\ mailbox = <<>> /\ routed = FALSE /\ uiEvents = <<>>
      /\ adapterPc = "drain" /\ st = NewState /\ outgoing = <<>> /\ deferred = NoCalls
      /\ engine = NewEngine
      /\ engineOut = IF uses.fresh THEN <<[event |-> "attached"]>> ELSE <<>>
  BY DEF DocInit
<1>2. ReaderOk
  BY <1>1 DEF ReaderOk
<1>3. StateOk(st)
  <2>1. /\ DOMAIN st = StateFields /\ st.gen = 0 /\ st.requests = 0 /\ st.session = NoSession
        /\ st.cache = [p \in Page |-> 0] /\ st.search = NoSearch /\ st.analysis = NoAnalysis
        /\ st.visible = {} /\ st.pending = {}
    BY <1>1 DEF NewState, StateFields
  <2>2. SearchOk(st.search, st.gen) /\ AnalysisOk(st.analysis, st.gen)
    BY <2>1, NoSearchOk, NoAnalysisOk
  <2> QED BY <2>1, <2>2 DEF StateOk
<1>4. EngineOk(engine, st.gen, st.requests)
  BY <1>1 DEF EngineOk, NewEngine
<1>5. IsSeq(mailbox) /\ DOMAIN mailbox = {}
  BY <1>1, SeqOfNothing, SeqDomain
<1>6. OwnSeq(outgoing) /\ OwnSeq(uiEvents)
  BY <1>1, OwnEmpty
<1>7. IsSeq(engineOut) /\ \A i \in DOMAIN engineOut : IsEvent(engineOut[i]) /\ EventOk(engineOut[i], st)
  <2>1. CASE engineOut = <<>>
    BY <2>1, SeqOfNothing, SeqDomain
  <2>2. CASE engineOut = <<[event |-> "attached"]>>
    <3>1. PICK event : event = [event |-> "attached"]
      OBVIOUS
    <3>2. IsEvent(event) /\ EventOk(event, st)
      BY <3>1 DEF IsEvent, EventOk
    <3>3. engineOut = <<event>>
      BY <2>2, <3>1
    <3>4. IsSeq(engineOut) /\ DOMAIN engineOut = {1} /\ engineOut[1] = event
      BY <3>3, SingleSeq
    <3> QED BY <3>2, <3>4
  <2> QED BY <1>1, <2>1, <2>2
<1>8. RoutedInv
  BY <1>1, <1>5 DEF RoutedInv, EventsIn
<1>9. DeferredInv
  BY <1>1 DEF DeferredInv, NoCalls, Cancel, Calls, NoCall, CallOk
<1> QED BY <1>1, <1>2, <1>3, <1>4, <1>5, <1>6, <1>7, <1>8, <1>9 DEF AdapterInv, QueuesInv, ReportsInv

LEMMA StepInv ==
  ASSUME AdapterInv, [DocNext]_docVars
  PROVE  AdapterInv'
<1>1. CASE ReaderStep
  BY <1>1, StepReaderOpen, StepReaderCall, StepDropWorker, StepQuiet DEF ReaderStep
<1>2. CASE Receive
  BY <1>2, StepReceive
<1>3. CASE AcceptCommand
  BY <1>3, StepShutdown, StepOpen, StepBackground, StepHibernate, StepResume, StepViewport,
     StepPreview, StepCopy, StepCancelCopy, StepSearch, StepCancelSearch DEF AcceptCommand
<1>4. CASE AcceptSupervisorEvent
  BY <1>4, StepAttached, StepOpened, StepOpenFailed, StepSilent, StepUnknown, StepRaster,
     StepText, StepSearchText, StepSearchFailure, StepAnalysisText DEF AcceptSupervisorEvent
<1>5. CASE AdapterStep
  BY <1>3, <1>4, <1>5, StepSendEvent, StepQuiet, StepPassOn, StepVisibleTextDue,
     StepDriveSearch, StepDriveAnalysis, StepWaitTimeout DEF AdapterStep
<1>6. CASE EngineStep
  BY <1>6, StepStartWork, StepFinishOpen, StepFinishWork, StepRoute DEF EngineStep
<1>7. CASE UNCHANGED docVars
  BY <1>7, StepQuiet
<1> QED BY <1>1, <1>2, <1>5, <1>6, <1>7 DEF DocNext

(* AdapterInv holds of every reachable state: the inductive invariant of the    *)
(* adapter between the reader and the engine (backend/worker.rs).               *)
THEOREM AdapterInvariant == DocSpec => []AdapterInv
<1>1. DocInit => AdapterInv
  BY InitInv
<1>2. AdapterInv /\ [DocNext]_docVars => AdapterInv'
  BY StepInv
<1> QED BY <1>1, <1>2, PTL DEF DocSpec

(* Tiles, text, search results and analyses that reach the reader, and what the *)
(* text cache holds, are of the document of their generation, for any number of *)
(* documents, pages and calls: reset_for_open, the request numbers and the      *)
(* engine's tokens and generations together keep the answers apart.             *)
THEOREM ContentIsOwn == DocSpec => []NoForeignContent
<1>1. AdapterInv => NoForeignContent
  <2> SUFFICES ASSUME AdapterInv PROVE NoForeignContent
    OBVIOUS
  <2>1. ASSUME NEW e \in ToReader
        PROVE  IsOwn(e)
    BY DEF ToReader, ToSet, AdapterInv, ReportsInv, OwnSeq
  <2>2. \A p \in Page : st.cache[p] \in {0, st.gen}
    BY DEF AdapterInv, StateOk
  <2> QED BY <2>1, <2>2 DEF NoForeignContent, IsOwn
<1> QED BY <1>1, AdapterInvariant, PTL

(* One event of the engine at most is in the mailbox, and the flag of the       *)
(* closure given to attach_routed says whether: the back-pressure holds for     *)
(* every capacity of the mailbox.                                               *)
THEOREM OneEventIsRouted == DocSpec => []OneEventRouted
<1>1. AdapterInv => OneEventRouted
  <2> SUFFICES ASSUME AdapterInv PROVE OneEventRouted
    OBVIOUS
  <2>1. RoutedInv
    BY DEF AdapterInv
  <2>2. CASE ~routed
    <3>1. EventsIn(mailbox) = {}
      BY <2>1, <2>2 DEF RoutedInv
    <3> QED BY <2>2, <3>1, FS_EmptySet DEF OneEventRouted, EventsIn, IsEvent
  <2>3. CASE routed
    <3>1. PICK k : EventsIn(mailbox) = {k}
      BY <2>1, <2>3 DEF RoutedInv
    <3>2. Cardinality({k}) = 1
      BY FS_Singleton
    <3> QED BY <2>3, <3>1, <3>2 DEF OneEventRouted, EventsIn, IsEvent
  <2> QED BY <2>2, <2>3
<1> QED BY <1>1, AdapterInvariant, PTL
=============================================================================

----------------------- MODULE CapabilityBridgeProofs -----------------------
(****************************************************************************)
(* Proofs about CapabilityBridge: what an extension reads with a handle is of *)
(* the one document the handle was issued for, and a revision names one       *)
(* content, for every set of files and every limit.  BridgeInv adds to         *)
(* BridgeFaithful that a document has a generation of its own, and that a      *)
(* reading an extension remembers is of a revision the bridge will not give    *)
(* to another snapshot of that document.                                      *)
(*                                                                          *)
(* First come what publishing does to a document, page after page, then the   *)
(* steps.                                                                     *)
(****************************************************************************)
EXTENDS CapabilityBridge, FiniteSetTheorems, TLAPS

\* The fields of ActiveDocument
DocumentFields ==
  {"gen", "pages", "nextRevision", "nextViewport", "overlays", "jump", "shelf"}

\* A snapshot of f that has been given its revision
Given(doc, f, item) ==
  /\ doc.shelf[item].content.file = f
  /\ doc.shelf[item].rev \in Nat
  /\ doc.shelf[item].rev < doc.nextRevision

ShelfOk(doc, f) ==
  \A item \in DOMAIN doc.shelf : doc.shelf[item] # Missing => Given(doc, f, item)

JumpOk(doc) ==
  doc.jump # NoJump => doc.jump.gen = doc.gen /\ doc.jump.title = ""

\* A document described from f
DocOk(doc, f) ==
  /\ DOMAIN doc = DocumentFields
  /\ doc.gen \in Nat
  /\ doc.nextRevision \in Nat
  /\ ShelfOk(doc, f)
  /\ JumpOk(doc)

\* The snapshots of the revision that s has are what s has
Agrees(doc, s) ==
  \A item \in DOMAIN doc.shelf :
    doc.shelf[item] # Missing /\ item = s.item /\ doc.shelf[item].rev = s.rev
      => doc.shelf[item].content = s.content

\* The reading s, if it is of the document, is of a revision given to one snapshot
SeenOk(doc, f, s) ==
  s.gen = doc.gen => /\ s.rev < doc.nextRevision
                     /\ s.content.file = f
                     /\ Agrees(doc, s)

\* What publishing and navigation do to a document of f: it stays one, of the same
\* generation, and its revisions go on meaning what they meant
Grown(doc, new, f) ==
  /\ DocOk(new, f)
  /\ new.gen = doc.gen
  /\ \A s : s.rev \in Nat /\ SeenOk(doc, f, s) => SeenOk(new, f, s)

LiveInv ==
  Live => /\ view.file \in DOMAIN Files
          /\ document.gen < liveGeneration
          /\ DocOk(document, view.file)

SeenInv ==
  seen # Missing => /\ seen.gen \in Nat
                    /\ seen.rev \in Nat
                    /\ seen.gen < liveGeneration
                    /\ Live => SeenOk(document, view.file, seen)

BridgeInv ==
  /\ liveGeneration \in Nat
  /\ liveGeneration > 0
  /\ "file" \in DOMAIN view
  /\ LiveInv
  /\ SeenInv

-----------------------------------------------------------------------------
(* What publishing does *)

\* The three ends of publish_live_snapshot_if_changed
PublishedFrom(doc, item, content, new) ==
  \/ new = doc
  \/ new = [doc EXCEPT !.nextRevision = @ + 1]
  \/ \E shown : new = [doc EXCEPT !.nextRevision = @ + 1,
                                  !.shelf[item] = [rev |-> doc.nextRevision,
                                                   content |-> content],
                                  !.nextViewport = shown]

LEMMA PublishedEnds ==
  ASSUME NEW doc, NEW item, NEW content, NEW valid \in BOOLEAN, DOMAIN doc = DocumentFields
  PROVE  PublishedFrom(doc, item, content, Published(doc, item, content, valid))
<1>1. CASE Fresh(doc, item, content) # Missing
  BY <1>1 DEF Published, PublishedFrom
<1>2. CASE Fresh(doc, item, content) = Missing /\ ~valid
  BY <1>2 DEF Published, PublishedFrom
<1>3. CASE Fresh(doc, item, content) = Missing /\ valid
  <2>1. PICK shown : shown = IF item[1] = "viewport" /\ doc.nextViewport < doc.nextRevision
                             THEN doc.nextRevision ELSE doc.nextViewport
    OBVIOUS
  <2>2. Published(doc, item, content, valid)
          = [doc EXCEPT !.nextRevision = @ + 1,
                        !.shelf[item] = [rev |-> doc.nextRevision, content |-> content],
                        !.nextViewport = shown]
    BY <1>3, <2>1 DEF Published, DocumentFields
  <2> QED BY <2>2 DEF PublishedFrom
<1> QED BY <1>1, <1>2, <1>3

\* A document grows when each of its snapshots is the one it had or one of a revision
\* that no snapshot had before.
LEMMA ShelfGrown ==
  ASSUME NEW doc, NEW f, NEW new, DocOk(doc, f), DOMAIN new = DocumentFields,
         new.gen = doc.gen, JumpOk(new),
         new.nextRevision \in Nat, doc.nextRevision <= new.nextRevision,
         DOMAIN new.shelf = DOMAIN doc.shelf,
         \A i \in DOMAIN new.shelf :
           \/ new.shelf[i] = doc.shelf[i]
           \/ Given(new, f, i) /\ doc.nextRevision <= new.shelf[i].rev
  PROVE  Grown(doc, new, f)
<1>1. doc.nextRevision \in Nat /\ ShelfOk(doc, f) /\ doc.gen \in Nat
  BY DEF DocOk
<1>2. ShelfOk(new, f)
  <2>1. ASSUME NEW i \in DOMAIN new.shelf, new.shelf[i] # Missing
        PROVE  Given(new, f, i)
    <3>1. CASE new.shelf[i] = doc.shelf[i]
      <4>1. Given(doc, f, i)
        BY <1>1, <2>1, <3>1 DEF ShelfOk
      <4> QED BY <1>1, <3>1, <4>1 DEF Given
    <3>2. CASE new.shelf[i] # doc.shelf[i]
      BY <3>2
    <3> QED BY <3>1, <3>2
  <2> QED BY <2>1 DEF ShelfOk
<1>3. DocOk(new, f)
  BY <1>1, <1>2 DEF DocOk
<1>4. ASSUME NEW s, s.rev \in Nat, SeenOk(doc, f, s)
      PROVE  SeenOk(new, f, s)
  <2>1. CASE s.gen # doc.gen
    BY <2>1 DEF SeenOk
  <2>2. CASE s.gen = doc.gen
    <3>1. s.rev < doc.nextRevision /\ s.content.file = f /\ Agrees(doc, s)
      BY <1>4, <2>2 DEF SeenOk
    <3>2. ASSUME NEW i \in DOMAIN new.shelf, new.shelf[i] # Missing, i = s.item,
                 new.shelf[i].rev = s.rev
          PROVE  new.shelf[i].content = s.content
      <4>1. new.shelf[i] = doc.shelf[i]
        BY <1>1, <1>4, <3>1, <3>2 DEF Given
      <4> QED BY <3>1, <3>2, <4>1 DEF Agrees
    <3>3. s.rev < new.nextRevision
      BY <1>1, <1>4, <3>1
    <3> QED BY <3>1, <3>2, <3>3 DEF SeenOk, Agrees
  <2> QED BY <2>1, <2>2
<1> QED BY <1>3, <1>4 DEF Grown

\* A snapshot published is of the reader's file and has a revision of its own; the
\* document keeps its generation and its jump (publish_live_snapshot_if_changed).
LEMMA PublishedOk ==
  ASSUME NEW doc, NEW f, NEW item, NEW content, NEW new,
         DocOk(doc, f), content.file = f,
         PublishedFrom(doc, item, content, new)
  PROVE  Grown(doc, new, f)
<1>0. doc.nextRevision \in Nat /\ JumpOk(doc)
  BY DEF DocOk
<1>1. CASE new = doc
  BY <1>1 DEF Grown
<1>2. CASE new = [doc EXCEPT !.nextRevision = @ + 1]
  <2>1. /\ DOMAIN new = DocumentFields
        /\ new.gen = doc.gen /\ new.jump = doc.jump /\ new.shelf = doc.shelf
        /\ new.nextRevision = doc.nextRevision + 1
    BY <1>2 DEF DocOk, DocumentFields
  <2>2. JumpOk(new)
    BY <1>0, <2>1 DEF JumpOk
  <2>3. new.nextRevision \in Nat /\ doc.nextRevision <= new.nextRevision
    BY <1>0, <2>1
  <2> QED BY <2>1, <2>2, <2>3, ShelfGrown
<1>3. ASSUME NEW shown,
             new = [doc EXCEPT !.nextRevision = @ + 1,
                               !.shelf[item] = [rev |-> doc.nextRevision, content |-> content],
                               !.nextViewport = shown]
      PROVE  Grown(doc, new, f)
  <2>1. PICK snapshot : snapshot = [rev |-> doc.nextRevision, content |-> content]
    OBVIOUS
  <2>2. /\ DOMAIN new = DocumentFields
        /\ new.gen = doc.gen /\ new.jump = doc.jump
        /\ new.shelf = [doc.shelf EXCEPT ![item] = snapshot]
        /\ new.nextRevision = doc.nextRevision + 1
    BY <1>3, <2>1 DEF DocOk, DocumentFields
  <2>3. /\ DOMAIN new.shelf = DOMAIN doc.shelf
        /\ \A i \in DOMAIN new.shelf : i # item => new.shelf[i] = doc.shelf[i]
        /\ item \in DOMAIN new.shelf => new.shelf[item] = snapshot
    BY <2>2
  <2>4. snapshot.rev = doc.nextRevision /\ snapshot.content.file = f
    BY <2>1
  <2>5. new.nextRevision \in Nat /\ doc.nextRevision <= new.nextRevision
    BY <1>0, <2>2
  <2>6. item \in DOMAIN new.shelf => Given(new, f, item)
    BY <1>0, <2>2, <2>3, <2>4 DEF Given
  <2>7. \A i \in DOMAIN new.shelf :
          \/ new.shelf[i] = doc.shelf[i]
          \/ Given(new, f, i) /\ doc.nextRevision <= new.shelf[i].rev
    BY <1>0, <2>3, <2>4, <2>6
  <2>8. JumpOk(new)
    BY <1>0, <2>2 DEF JumpOk
  <2> QED BY <2>2, <2>3, <2>5, <2>7, <2>8, ShelfGrown
<1> QED BY <1>1, <1>2, <1>3 DEF PublishedFrom

\* The pages of a document are finitely many.
LEMMA PagesFinite ==
  ASSUME NEW f \in DOMAIN Files, NEW C \in SUBSET PagesOf(f)
  PROVE  IsFiniteSet(C) /\ Cardinality(C) \in Nat
<1>1. IsFiniteSet(PagesOf(f))
  BY BridgeAssumption, FS_Interval DEF PagesOf
<1> QED BY <1>1, FS_Subset, FS_CardinalityType

\* The revisions of the pages that change lie between the old next revision and
\* the new one.
LEMMA RevisionsFit ==
  ASSUME NEW f \in DOMAIN Files, NEW C \in SUBSET PagesOf(f), NEW p \in C
  PROVE  LET before == {q \in C : q < p} IN
         Cardinality(before) \in Nat /\ Cardinality(before) < Cardinality(C)
<1> DEFINE before == {q \in C : q < p}
<1>1. IsFiniteSet(C) /\ Cardinality(C) \in Nat
  BY PagesFinite
<1>2. p \in Int
  BY BridgeAssumption DEF PagesOf
<1>3. before \subseteq C \ {p}
  BY <1>2
<1>4. IsFiniteSet(C \ {p}) /\ Cardinality(C \ {p}) = Cardinality(C) - 1
  BY <1>1, FS_RemoveElement
<1>5. /\ IsFiniteSet(before) /\ Cardinality(before) <= Cardinality(C \ {p})
  BY <1>3, <1>4, FS_Subset
<1>6. Cardinality(before) \in Nat
  BY <1>5, FS_CardinalityType
<1> HIDE DEF before
<1>7. Cardinality(before) < Cardinality(C)
  BY <1>1, <1>4, <1>5, <1>6
<1> QED BY <1>6, <1>7 DEF before

\* Publishing twice
LEMMA GrownTwice ==
  ASSUME NEW doc, NEW mid, NEW new, NEW f, Grown(doc, mid, f), Grown(mid, new, f)
  PROVE  Grown(doc, new, f)
BY DEF Grown

\* Fields other than the generation, the shelf, the revisions and the jump do not matter.
LEMMA SameShelf ==
  ASSUME NEW doc, NEW new, NEW f, DocOk(doc, f), DOMAIN new = DocumentFields,
         new.gen = doc.gen, new.nextRevision = doc.nextRevision, new.shelf = doc.shelf,
         JumpOk(new)
  PROVE  Grown(doc, new, f)
<1>1. new.nextRevision \in Nat /\ doc.nextRevision <= new.nextRevision
  BY DEF DocOk
<1> QED BY <1>1, ShelfGrown

\* Links published page after page: each page that changed has a revision of its own,
\* between the old next revision and the new one.
LEMMA LinksOk ==
  ASSUME NEW doc, NEW f \in DOMAIN Files, NEW C \in SUBSET PagesOf(f), NEW content,
         NEW new, DocOk(doc, f),
         \A p \in C : content[p].file = f,
         new = [doc EXCEPT
                  !.nextRevision = @ + Cardinality(C),
                  !.shelf = [item \in DOMAIN @ |->
                               IF \E p \in C : item = <<"links", p>>
                               THEN [rev |-> doc.nextRevision
                                             + Cardinality({q \in C : q < item[2]}),
                                     content |-> content[item[2]]]
                               ELSE @[item]]]
  PROVE  Grown(doc, new, f)
<1> DEFINE Rev(p) == doc.nextRevision + Cardinality({q \in C : q < p})
<1>0. doc.nextRevision \in Nat
  BY DEF DocOk
<1>1. Cardinality(C) \in Nat
  BY PagesFinite
<1>2. ASSUME NEW p \in C
      PROVE  /\ Rev(p) \in Nat
             /\ doc.nextRevision <= Rev(p)
             /\ Rev(p) < doc.nextRevision + Cardinality(C)
  <2>1. PICK n : n = Cardinality({q \in C : q < p})
    OBVIOUS
  <2>2. n \in Nat /\ n < Cardinality(C)
    BY <2>1, RevisionsFit
  <2>3. Rev(p) = doc.nextRevision + n
    BY <2>1
  <2> HIDE DEF Rev
  <2> QED BY <1>0, <1>1, <2>2, <2>3
<1>3. /\ DOMAIN new = DocumentFields
      /\ new.gen = doc.gen /\ new.jump = doc.jump
      /\ new.nextRevision = doc.nextRevision + Cardinality(C)
      /\ DOMAIN new.shelf = DOMAIN doc.shelf
  BY DEF DocOk, DocumentFields
<1>a. \A i \in DOMAIN new.shelf :
        new.shelf[i] = IF \E p \in C : i = <<"links", p>>
                       THEN [rev |-> Rev(i[2]), content |-> content[i[2]]]
                       ELSE doc.shelf[i]
  BY DEF DocOk, DocumentFields
<1> HIDE DEF Rev
<1>4. ASSUME NEW i \in DOMAIN new.shelf
      PROVE  \/ new.shelf[i] = doc.shelf[i]
             \/ \E p \in C : new.shelf[i] = [rev |-> Rev(p), content |-> content[p]]
  <2>1. CASE \E p \in C : i = <<"links", p>>
    <3>1. PICK p \in C : i = <<"links", p>>
      BY <2>1
    <3>2. i[2] = p
      BY <3>1
    <3>3. new.shelf[i] = [rev |-> Rev(p), content |-> content[p]]
      BY <1>a, <2>1, <3>2
    <3> QED BY <3>3
  <2>2. CASE ~ \E p \in C : i = <<"links", p>>
    BY <1>a, <2>2
  <2> QED BY <2>1, <2>2
<1>5. JumpOk(doc) /\ JumpOk(new)
  BY <1>3 DEF DocOk, JumpOk
<1>6. new.nextRevision \in Nat /\ doc.nextRevision <= new.nextRevision
  BY <1>0, <1>1, <1>3
<1>7. ASSUME NEW i \in DOMAIN new.shelf
      PROVE  \/ new.shelf[i] = doc.shelf[i]
             \/ Given(new, f, i) /\ doc.nextRevision <= new.shelf[i].rev
  <2>1. CASE new.shelf[i] = doc.shelf[i]
    BY <2>1
  <2>2. CASE \E p \in C : new.shelf[i] = [rev |-> Rev(p), content |-> content[p]]
    <3>1. PICK p \in C : new.shelf[i] = [rev |-> Rev(p), content |-> content[p]]
      BY <2>2
    <3>2. new.shelf[i].rev = Rev(p) /\ new.shelf[i].content = content[p]
      BY <3>1
    <3>3. content[p].file = f
      OBVIOUS
    <3> QED BY <1>2, <1>3, <3>2, <3>3 DEF Given
  <2> QED BY <1>4, <2>1, <2>2
<1> QED BY <1>3, <1>5, <1>6, <1>7, ShelfGrown

-----------------------------------------------------------------------------
(* The steps *)

\* A live document is not NoDocument, and the reader has its file.
LEMMA LiveFile ==
  ASSUME BridgeInv, Live
  PROVE  /\ view.file \in DOMAIN Files /\ view.file # "none"
         /\ DocOk(document, view.file) /\ document.gen < liveGeneration
BY BridgeAssumption DEF BridgeInv, LiveInv

\* A step in which the document at most grows and the reader keeps its file
LEMMA GrowingStep ==
  ASSUME BridgeInv,
         liveGeneration' = liveGeneration,
         seen' = seen,
         "file" \in DOMAIN view', view'.file = view.file,
         Live => Grown(document, document', view.file),
         ~Live => document' = document
  PROVE  BridgeInv'
<1>1. Live' => Live
  BY DEF Live
<1>2. Live' => DocOk(document', view.file) /\ document'.gen = document.gen
  BY <1>1 DEF Grown
<1>3. LiveInv'
  BY <1>1, <1>2, LiveFile DEF LiveInv
<1>4. ASSUME seen # Missing, Live'
      PROVE  SeenOk(document', view.file, seen)
  <2>1. seen.rev \in Nat /\ SeenOk(document, view.file, seen)
    BY <1>1, <1>4 DEF BridgeInv, SeenInv
  <2> QED BY <1>1, <1>4, <2>1 DEF Grown
<1>5. SeenInv'
  BY <1>4 DEF BridgeInv, SeenInv
<1> QED BY <1>3, <1>5 DEF BridgeInv

\* begin_open_path, close
LEMMA CloseDocumentStep ==
  ASSUME BridgeInv, CloseDocument
  PROVE  BridgeInv'
<1>1. ~Live' /\ "file" \in DOMAIN view'
  BY DEF CloseDocument, Live, NewReading
<1>2. liveGeneration' = liveGeneration /\ seen' = seen
  BY DEF CloseDocument
<1> QED BY <1>1, <1>2 DEF BridgeInv, LiveInv, SeenInv

\* The snapshots of a new document are all of its file.
LEMMA SeedOk ==
  ASSUME NEW f, NEW item, Seed(f, item) # Missing
  PROVE  Seed(f, item).content.file = f /\ Seed(f, item).rev = 1
<1>1. PICK outline : outline = Outline(f)
  OBVIOUS
<1>2. PICK links : links = LinksOn(f, Files[f].links, item[2])
  OBVIOUS
<1>3. CASE item[1] = "outline"
  <2>1. Seed(f, item) = [rev |-> 1, content |-> [file |-> f, value |-> outline]]
    BY <1>1, <1>3 DEF Seed
  <2> QED BY <2>1
<1>4. CASE item[1] = "links"
  <2>1. Seed(f, item) = [rev |-> 1, content |-> [file |-> f, value |-> links]]
    BY <1>2, <1>4 DEF Seed
  <2> QED BY <2>1
<1>5. CASE item[1] \in {"document", "page"}
  <2>1. Seed(f, item) = [rev |-> 1, content |-> [file |-> f, value |-> f]]
    BY <1>5 DEF Seed
  <2> QED BY <2>1
<1>6. CASE item[1] \notin {"outline", "links", "document", "page"}
  <2>1. Seed(f, item) = Missing
    BY <1>6 DEF Seed
  <2> QED BY <2>1
<1> QED BY <1>3, <1>4, <1>5, <1>6

LEMMA NewDocumentOk ==
  ASSUME NEW f, NEW gen \in Nat, NEW new, new = NewDocument(f, gen)
  PROVE  DocOk(new, f) /\ new.gen = gen
<1>1. PICK shelf : shelf = [item \in ItemsOf(Files[f].pages) |-> Seed(f, item)]
  OBVIOUS
<1>2. new = [gen |-> gen, pages |-> Files[f].pages, nextRevision |-> 2, nextViewport |-> 0,
             overlays |-> 0, jump |-> NoJump, shelf |-> shelf]
  BY <1>1 DEF NewDocument
<1>3. /\ DOMAIN new = DocumentFields
      /\ new.gen = gen /\ new.jump = NoJump /\ new.nextRevision = 2 /\ new.shelf = shelf
  BY <1>2 DEF DocumentFields
<1>4. ASSUME NEW item \in DOMAIN new.shelf, new.shelf[item] # Missing
      PROVE  Given(new, f, item)
  <2>1. new.shelf[item] = Seed(f, item)
    BY <1>1, <1>3
  <2>2. new.shelf[item].content.file = f /\ new.shelf[item].rev = 1
    BY <1>4, <2>1, SeedOk
  <2> QED BY <1>3, <2>2 DEF Given
<1>5. ShelfOk(new, f)
  BY <1>4 DEF ShelfOk
<1>6. JumpOk(new)
  BY <1>3 DEF JumpOk
<1> QED BY <1>3, <1>5, <1>6 DEF DocOk

\* Opened: the document begun has a generation no handle was issued for.
LEMMA BeginLiveStep ==
  ASSUME BridgeInv, BeginLive
  PROVE  BridgeInv'
<1>1. ~Live /\ liveGeneration \in Nat
  BY LiveFile DEF BeginLive, BridgeInv
<1>2. liveGeneration' = liveGeneration + 1 /\ seen' = seen
  BY DEF BeginLive
<1>3. PICK f \in DOMAIN Files :
        /\ view' = [NewReading EXCEPT !.file = f, !.links = Files[f].links]
        /\ document' = IF Files[f].sound THEN NewDocument(f, liveGeneration) ELSE document
  BY DEF BeginLive
<1>4. "file" \in DOMAIN view' /\ view'.file = f
  BY <1>3 DEF NewReading
<1>5. CASE ~Live'
  BY <1>1, <1>2, <1>4, <1>5 DEF BridgeInv, LiveInv, SeenInv
<1>6. CASE Live'
  <2>1. document' = NewDocument(f, liveGeneration)
    BY <1>1, <1>3, <1>6 DEF Live
  <2>2. DocOk(document', f) /\ document'.gen = liveGeneration
    BY <1>1, <2>1, NewDocumentOk
  <2>3. LiveInv'
    BY <1>1, <1>2, <1>4, <2>2 DEF LiveInv
  <2>4. seen # Missing => seen.gen # document'.gen
    BY <1>1, <2>2 DEF BridgeInv, SeenInv
  <2>5. SeenInv'
    BY <1>1, <1>2, <2>4 DEF BridgeInv, SeenInv, SeenOk
  <2> QED BY <1>1, <1>2, <1>4, <2>3, <2>5 DEF BridgeInv
<1> QED BY <1>5, <1>6

\* One snapshot published
LEMMA PublishOk ==
  ASSUME NEW doc, NEW item, NEW value, NEW valid \in BOOLEAN, NEW new,
         DocOk(doc, view.file),
         new = Published(doc, item, Content(value), valid)
  PROVE  Grown(doc, new, view.file)
<1>1. PICK content : content = Content(value)
  OBVIOUS
<1>2. content.file = view.file
  BY <1>1 DEF Content
<1>3. DOMAIN doc = DocumentFields
  BY DEF DocOk
<1>4. PublishedFrom(doc, item, content, new)
  BY <1>1, <1>3, PublishedEnds
<1> QED BY <1>2, <1>4, PublishedOk

LEMMA PublishStep ==
  ASSUME BridgeInv, NEW item, NEW value, NEW valid \in BOOLEAN,
         Publish(item, value, valid),
         "file" \in DOMAIN view', view'.file = view.file
  PROVE  BridgeInv'
<1>1. Live => document' = Published(document, item, Content(value), valid)
  BY DEF Publish
<1>2. Live => Grown(document, document', view.file)
  BY <1>1, LiveFile, PublishOk
<1>3. /\ ~Live => document' = document
      /\ liveGeneration' = liveGeneration /\ seen' = seen
  BY DEF Publish
<1> QED BY <1>2, <1>3, GrowingStep

\* TextExtracted: the text of the page, then the selection
LEMMA PublishTextStep ==
  ASSUME BridgeInv, PublishText
  PROVE  BridgeInv'
<1>1. PICK p \in PagesOf(view.file), fits \in BOOLEAN :
        LET known == [view EXCEPT !.text = @ \cup {p}]
            text == IF Live /\ fits
                    THEN Published(document, <<"text", p>>,
                                   Content(Files[view.file].found[p]), TRUE)
                    ELSE document
        IN /\ view' = known
           /\ document' = IF Live
                        THEN Published(text, <<"selection", 0>>,
                                       Content(SelectionContent(known)), TRUE)
                        ELSE document
  BY DEF PublishText
<1>2. PICK known : known = [view EXCEPT !.text = @ \cup {p}]
  OBVIOUS
<1>3. PICK text : text = IF Live /\ fits
                         THEN Published(document, <<"text", p>>,
                                        Content(Files[view.file].found[p]), TRUE)
                         ELSE document
  OBVIOUS
<1>4. view' = known /\ (~Live => document' = document)
  BY <1>1, <1>2
<1>5. Live => document' = Published(text, <<"selection", 0>>,
                                    Content(SelectionContent(known)), TRUE)
  BY <1>1, <1>2, <1>3
<1>6. "file" \in DOMAIN view' /\ view'.file = view.file
  BY <1>2, <1>4 DEF BridgeInv
<1>7. Live => Grown(document, text, view.file)
  <2>1. CASE fits
    <3>1. Live => text = Published(document, <<"text", p>>,
                                   Content(Files[view.file].found[p]), TRUE)
      BY <1>3, <2>1
    <3> QED BY <3>1, LiveFile, PublishOk
  <2>2. CASE ~fits
    <3>1. text = document
      BY <1>3, <2>2
    <3> QED BY <3>1, LiveFile DEF Grown
  <2> QED BY <2>1, <2>2
<1>8. Live => Grown(text, document', view.file)
  <2>1. Live => DocOk(text, view.file)
    BY <1>7 DEF Grown
  <2> QED BY <1>5, <2>1, PublishOk
<1>9. Live => Grown(document, document', view.file)
  BY <1>7, <1>8, GrownTwice
<1>10. liveGeneration' = liveGeneration /\ seen' = seen
  BY DEF PublishText
<1> QED BY <1>4, <1>6, <1>9, <1>10, GrowingStep

\* evict_distant_text
LEMMA EvictTextStep ==
  ASSUME BridgeInv, EvictText
  PROVE  BridgeInv'
<1>1. PICK p \in view.text : view' = [view EXCEPT !.text = @ \ {p}]
  BY DEF EvictText
<1>2. "file" \in DOMAIN view' /\ view'.file = view.file
  BY <1>1 DEF BridgeInv
<1>3. Live => Grown(document, document, view.file)
  BY LiveFile DEF Grown
<1>4. liveGeneration' = liveGeneration /\ document' = document /\ seen' = seen
  BY DEF EvictText
<1> QED BY <1>2, <1>3, <1>4, GrowingStep

\* publish_live_selection
LEMMA PublishSelectionStep ==
  ASSUME BridgeInv, PublishSelection
  PROVE  BridgeInv'
<1>1. PICK r \in Ranges \cup {NoRange} :
        /\ view' = [view EXCEPT !.selection = r]
        /\ Publish(<<"selection", 0>>, SelectionContent([view EXCEPT !.selection = r]), TRUE)
  BY DEF PublishSelection
<1>2. "file" \in DOMAIN view' /\ view'.file = view.file
  BY <1>1 DEF BridgeInv
<1> QED BY <1>1, <1>2, PublishStep

\* publish_live_viewport
LEMMA PublishViewportStep ==
  ASSUME BridgeInv, PublishViewport
  PROVE  BridgeInv'
<1>1. PICK a \in Anchors, valid \in BOOLEAN :
        /\ view' = [view EXCEPT !.anchor = a]
        /\ Publish(<<"viewport", 0>>, a, valid)
  BY DEF PublishViewport
<1>2. "file" \in DOMAIN view' /\ view'.file = view.file
  BY <1>1 DEF BridgeInv
<1> QED BY <1>1, <1>2, PublishStep

\* publish_live_links
LEMMA PublishLinksStep ==
  ASSUME BridgeInv, PublishLinks
  PROVE  BridgeInv'
<1>1. PICK more : more = view.links \o <<[page |-> 1, target |-> 1]>>
  OBVIOUS
<1>2. PICK changed :
        changed = {p \in PagesOf(view.file) :
                     Fresh(document, <<"links", p>>, Content(LinksOn(view.file, more, p)))
                       = Missing}
  OBVIOUS
<1>3. PICK content :
        content = [p \in changed |-> Content(LinksOn(view.file, more, p))]
  OBVIOUS
<1>4. /\ view' = [view EXCEPT !.links = more]
      /\ ~Live => document' = document
      /\ liveGeneration' = liveGeneration /\ seen' = seen
  BY <1>1 DEF PublishLinks
<1>5. "file" \in DOMAIN view' /\ view'.file = view.file
  BY <1>4 DEF BridgeInv
<1>6. ASSUME Live
      PROVE  document' =
               [document EXCEPT
                  !.nextRevision = @ + Cardinality(changed),
                  !.shelf = [item \in DOMAIN @ |->
                               IF \E p \in changed : item = <<"links", p>>
                               THEN [rev |-> document.nextRevision
                                             + Cardinality({q \in changed : q < item[2]}),
                                     content |-> content[item[2]]]
                               ELSE @[item]]]
  <2>1. document' =
          [document EXCEPT
             !.nextRevision = @ + Cardinality(changed),
             !.shelf = [item \in DOMAIN @ |->
                          IF \E p \in changed : item = <<"links", p>>
                          THEN [rev |-> document.nextRevision
                                        + Cardinality({q \in changed : q < item[2]}),
                                content |-> Content(LinksOn(view.file, more, item[2]))]
                          ELSE @[item]]]
    BY <1>1, <1>2, <1>6 DEF PublishLinks
  <2>2. \A item : (\E p \in changed : item = <<"links", p>>)
          => content[item[2]] = Content(LinksOn(view.file, more, item[2]))
    BY <1>3
  <2> QED BY <2>1, <2>2
<1>7. \A p \in changed : content[p].file = view.file
  BY <1>3 DEF Content
<1>8. changed \subseteq PagesOf(view.file)
  BY <1>2
<1>9. ASSUME Live
      PROVE  Grown(document, document', view.file)
  <2>1. PICK new : new = document'
    OBVIOUS
  <2>2. PICK doc : doc = document
    OBVIOUS
  <2>3. PICK f \in DOMAIN Files : f = view.file
    BY <1>9, LiveFile
  <2>4. DocOk(doc, f) /\ changed \in SUBSET PagesOf(f)
    BY <1>8, <1>9, <2>2, <2>3, LiveFile
  <2>5. \A p \in changed : content[p].file = f
    BY <1>7, <2>3
  <2>6. new = [doc EXCEPT
                 !.nextRevision = @ + Cardinality(changed),
                 !.shelf = [item \in DOMAIN @ |->
                              IF \E p \in changed : item = <<"links", p>>
                              THEN [rev |-> doc.nextRevision
                                            + Cardinality({q \in changed : q < item[2]}),
                                    content |-> content[item[2]]]
                              ELSE @[item]]]
    BY <1>6, <1>9, <2>1, <2>2
  <2>7. Grown(doc, new, f)
    BY <2>4, <2>5, <2>6, LinksOk
  <2> QED BY <2>1, <2>2, <2>3, <2>7
<1> QED BY <1>4, <1>5, <1>9, GrowingStep

\* An extension reads a snapshot of the live document.
LEMMA ReadStep ==
  ASSUME BridgeInv, Read
  PROVE  BridgeInv'
<1>1. PICK gen \in Handles : \E reading \in Readings(gen) : seen' = reading
  BY DEF Read
<1>2. liveGeneration' = liveGeneration /\ document' = document /\ view' = view
  BY DEF Read
<1>3. Live /\ document.gen = gen
  BY <1>1 DEF Readings, Accepts
<1>4. PICK item \in DOMAIN document.shelf :
        /\ document.shelf[item] # Missing
        /\ seen' = [gen |-> gen, item |-> item, rev |-> document.shelf[item].rev,
                    content |-> document.shelf[item].content]
  BY <1>1 DEF Readings
<1>5. /\ seen'.gen = document.gen /\ seen'.item = item
      /\ seen'.rev = document.shelf[item].rev
      /\ seen'.content = document.shelf[item].content
  BY <1>3, <1>4
<1>6. DocOk(document, view.file) /\ document.gen < liveGeneration
  BY <1>3, LiveFile
<1>7. Given(document, view.file, item) /\ document.gen \in Nat
  BY <1>4, <1>6 DEF DocOk, ShelfOk
<1>8. Agrees(document, seen')
  BY <1>5 DEF Agrees
<1>9. SeenOk(document, view.file, seen')
  BY <1>5, <1>7, <1>8 DEF SeenOk, Given
<1>10. SeenInv'
  BY <1>2, <1>5, <1>6, <1>7, <1>9 DEF SeenInv, Given
<1>11. LiveInv'
  BY <1>2 DEF BridgeInv, LiveInv, Live
<1> QED BY <1>2, <1>10, <1>11 DEF BridgeInv

\* navigate: the jump is of the document.
LEMMA NavigatedOk ==
  ASSUME NEW doc, NEW f, NEW page, NEW title, NEW new, DocOk(doc, f),
         new = Navigated(doc, page, title)
  PROVE  /\ DOMAIN new = DocumentFields
         /\ new.gen = doc.gen /\ new.nextRevision = doc.nextRevision
         /\ new.shelf = doc.shelf
         /\ new.jump.gen = doc.gen /\ new.jump.title = title
<1>1. PICK jump : jump = [gen |-> doc.gen, page |-> page, title |-> title,
                          exact |-> Refined(doc, page, title)]
  OBVIOUS
<1>2. new = [doc EXCEPT !.nextViewport = @ + 1, !.jump = jump]
  BY <1>1 DEF Navigated
<1>3. jump.gen = doc.gen /\ jump.title = title
  BY <1>1
<1> QED BY <1>2, <1>3 DEF DocOk, DocumentFields

LEMMA NavigateStep ==
  ASSUME BridgeInv, Navigate
  PROVE  BridgeInv'
<1>1. PICK gen \in Handles : Accepts(gen)
  BY DEF Navigate
<1>2. PICK page : document' = Navigated(document, page, "")
  BY DEF Navigate
<1>3. liveGeneration' = liveGeneration /\ view' = view /\ seen' = seen
  BY DEF Navigate
<1>4. Live /\ DocOk(document, view.file)
  BY <1>1, LiveFile DEF Accepts
<1>5. /\ DOMAIN document' = DocumentFields
      /\ document'.gen = document.gen /\ document'.nextRevision = document.nextRevision
      /\ document'.shelf = document.shelf
      /\ document'.jump.gen = document.gen /\ document'.jump.title = ""
  <2>1. PICK title : title = ""
    OBVIOUS
  <2>2. PICK asked : asked = Navigated(document, page, title)
    OBVIOUS
  <2>3. document' = asked
    BY <1>2, <2>1, <2>2
  <2>4. /\ DOMAIN asked = DocumentFields
        /\ asked.gen = document.gen /\ asked.nextRevision = document.nextRevision
        /\ asked.shelf = document.shelf
        /\ asked.jump.gen = document.gen /\ asked.jump.title = title
    BY <1>4, <2>2, NavigatedOk
  <2> QED BY <2>1, <2>3, <2>4
<1>6. JumpOk(document')
  BY <1>5 DEF JumpOk
<1>7. Grown(document, document', view.file)
  BY <1>4, <1>5, <1>6, SameShelf
<1> QED BY <1>3, <1>4, <1>7, GrowingStep DEF BridgeInv

\* replace_overlays
LEMMA ReplaceOverlaysStep ==
  ASSUME BridgeInv, ReplaceOverlays
  PROVE  BridgeInv'
<1>1. PICK gen \in Handles, rev \in 1..OverlayLimit :
        Accepts(gen) /\ document' = [document EXCEPT !.overlays = rev]
  BY DEF ReplaceOverlays
<1>2. liveGeneration' = liveGeneration /\ view' = view /\ seen' = seen
  BY DEF ReplaceOverlays
<1>3. Live /\ DocOk(document, view.file)
  BY <1>1, LiveFile DEF Accepts
<1>4. /\ DOMAIN document' = DocumentFields
      /\ document'.gen = document.gen /\ document'.nextRevision = document.nextRevision
      /\ document'.shelf = document.shelf /\ document'.jump = document.jump
  BY <1>1, <1>3 DEF DocOk, DocumentFields
<1>5. JumpOk(document')
  BY <1>3, <1>4 DEF DocOk, JumpOk
<1>6. Grown(document, document', view.file)
  BY <1>3, <1>4, <1>5, SameShelf
<1> QED BY <1>2, <1>3, <1>6, GrowingStep DEF BridgeInv

\* A document whose jump has been taken
LEMMA TakenOk ==
  ASSUME NEW doc, NEW f, NEW mid, NEW new, DocOk(doc, f),
         DOMAIN mid = DocumentFields, mid.gen = doc.gen,
         mid.nextRevision = doc.nextRevision, mid.shelf = doc.shelf,
         new = [mid EXCEPT !.jump = NoJump]
  PROVE  Grown(doc, new, f)
<1>1. /\ DOMAIN new = DocumentFields
      /\ new.gen = doc.gen /\ new.nextRevision = doc.nextRevision
      /\ new.shelf = doc.shelf /\ new.jump = NoJump
  BY DEF DocumentFields
<1>2. JumpOk(new)
  BY <1>1 DEF JumpOk
<1> QED BY <1>1, <1>2, SameShelf

\* consume_pdf_extension_outputs
LEMMA ConsumeOutputsStep ==
  ASSUME BridgeInv, ConsumeOutputs
  PROVE  BridgeInv'
<1>1. Live /\ document' = [document EXCEPT !.jump = NoJump]
  BY DEF ConsumeOutputs, Consumed
<1>2. liveGeneration' = liveGeneration /\ view' = view /\ seen' = seen
  BY DEF ConsumeOutputs
<1>3. DocOk(document, view.file) /\ DOMAIN document = DocumentFields
  BY <1>1, LiveFile DEF DocOk
<1>4. Grown(document, document', view.file)
  BY <1>1, <1>3, TakenOk
<1> QED BY <1>1, <1>2, <1>4, GrowingStep DEF BridgeInv

\* navigate_toc, activate_live_outline: the jump is taken or dropped.
LEMMA ActivateOutlineStep ==
  ASSUME BridgeInv, ActivateOutline
  PROVE  BridgeInv'
<1>1. PICK e \in Range(Files[view.file].outline) :
        LET known == Live /\ \E k \in Range(document.shelf[<<"outline", 0>>].content.value.entries) :
                               k = e
            asked == Navigated(document, e.page, e.title)
        IN document' = IF ~known THEN document
                       ELSE IF asked.jump.exact THEN Consumed(asked) ELSE TakeUnrefined(asked)
  BY DEF ActivateOutline
<1>2. PICK asked : asked = Navigated(document, e.page, e.title)
  OBVIOUS
<1>3. \/ document' = document
      \/ Live /\ document' = [asked EXCEPT !.jump = NoJump]
  BY <1>1, <1>2 DEF Consumed, TakeUnrefined
<1>4. liveGeneration' = liveGeneration /\ view' = view /\ seen' = seen
  BY DEF ActivateOutline
<1>5. CASE document' = document
  <2>1. Live => Grown(document, document, view.file)
    BY LiveFile DEF Grown
  <2> QED BY <1>4, <1>5, <2>1, GrowingStep DEF BridgeInv
<1>6. CASE Live /\ document' = [asked EXCEPT !.jump = NoJump]
  <2>1. DocOk(document, view.file)
    BY <1>6, LiveFile
  <2>2. /\ DOMAIN asked = DocumentFields
        /\ asked.gen = document.gen /\ asked.nextRevision = document.nextRevision
        /\ asked.shelf = document.shelf
    BY <1>2, <2>1, NavigatedOk
  <2>3. Grown(document, document', view.file)
    BY <1>6, <2>1, <2>2, TakenOk
  <2> QED BY <1>4, <1>6, <2>3, GrowingStep DEF BridgeInv
<1> QED BY <1>3, <1>5, <1>6

-----------------------------------------------------------------------------
(* The invariant *)

\* A bridge without a document
LEMMA BridgeInitInv == BridgeInit => BridgeInv
BY DEF BridgeInit, BridgeInv, LiveInv, SeenInv, Live, NewReading

\* Every step keeps BridgeInv.
LEMMA BridgeStep == BridgeInv /\ [BridgeNext]_bridgeVars => BridgeInv'
<1> SUFFICES ASSUME BridgeInv, [BridgeNext]_bridgeVars
             PROVE  BridgeInv'
  OBVIOUS
<1>1. CASE UNCHANGED bridgeVars
  BY <1>1 DEF bridgeVars, BridgeInv, LiveInv, SeenInv, Live
<1>2. CASE CloseDocument
  BY <1>2, CloseDocumentStep
<1>3. CASE BeginLive
  BY <1>3, BeginLiveStep
<1>4. CASE PublishText
  BY <1>4, PublishTextStep
<1>5. CASE EvictText
  BY <1>5, EvictTextStep
<1>6. CASE PublishSelection
  BY <1>6, PublishSelectionStep
<1>7. CASE PublishViewport
  BY <1>7, PublishViewportStep
<1>8. CASE PublishLinks
  BY <1>8, PublishLinksStep
<1>9. CASE ConsumeOutputs
  BY <1>9, ConsumeOutputsStep
<1>10. CASE ActivateOutline
  BY <1>10, ActivateOutlineStep
<1>11. CASE Read
  BY <1>11, ReadStep
<1>12. CASE Navigate
  BY <1>12, NavigateStep
<1>13. CASE ReplaceOverlays
  BY <1>13, ReplaceOverlaysStep
<1> QED BY <1>1, <1>2, <1>3, <1>4, <1>5, <1>6, <1>7, <1>8, <1>9, <1>10, <1>11, <1>12, <1>13
        DEF BridgeNext

\* What is read is what BridgeFaithful says.
LEMMA FaithfulReadings ==
  ASSUME BridgeInv
  PROVE  BridgeFaithful
<1>1. ASSUME seen # Missing, NEW r \in Readings(seen.gen)
      PROVE  /\ r.content.file = seen.content.file
             /\ (r.item = seen.item /\ r.rev = seen.rev) => r.content = seen.content
  <2>1. Live /\ document.gen = seen.gen
    BY <1>1 DEF Readings, Accepts
  <2>2. PICK item \in DOMAIN document.shelf :
          /\ document.shelf[item] # Missing
          /\ r = [gen |-> seen.gen, item |-> item, rev |-> document.shelf[item].rev,
                  content |-> document.shelf[item].content]
    BY <1>1 DEF Readings
  <2>3. /\ r.item = item /\ r.rev = document.shelf[item].rev
        /\ r.content = document.shelf[item].content
    BY <2>2
  <2>4. document.shelf[item].content.file = view.file
    BY <2>1, <2>2, LiveFile DEF DocOk, ShelfOk, Given
  <2>5. seen.content.file = view.file /\ Agrees(document, seen)
    BY <1>1, <2>1 DEF BridgeInv, SeenInv, SeenOk
  <2> QED BY <2>2, <2>3, <2>4, <2>5 DEF Agrees
<1>2. ASSUME Live
      PROVE  ShelfOk(document, view.file) /\ JumpOk(document)
  BY <1>2, LiveFile DEF DocOk
<1> QED BY <1>1, <1>2 DEF BridgeFaithful, ShelfOk, Given, JumpOk

\* BridgeInv holds of every reachable state of the bridge.
THEOREM BridgeInvariant == BridgeSpec => []BridgeInv
<1>1. BridgeInit => BridgeInv
  BY BridgeInitInv
<1>2. BridgeInv /\ [BridgeNext]_bridgeVars => BridgeInv'
  BY BridgeStep
<1> QED BY <1>1, <1>2, PTL DEF BridgeSpec

\* A handle only ever shows the document it was issued for, and a revision of it names
\* one content (pdf_capability_bridge.rs: begin_live_document, require_active,
\* publish_live_snapshot_if_changed).
THEOREM HandlesShowOneDocument == BridgeSpec => []BridgeFaithful
<1>1. BridgeInv => BridgeFaithful
  BY FaithfulReadings
<1> QED BY <1>1, BridgeInvariant, PTL
=============================================================================

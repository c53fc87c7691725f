--------------------------- MODULE CapabilityBridge ---------------------------
(***************************************************************************)
(* The bridge between a reader and the PDF capabilities of extensions        *)
(* (apps/gpui-pdf-reader/src/pdf_capability_bridge.rs).  The reader           *)
(* publishes immutable snapshots of its document; extensions read them        *)
(* through handles, ask for jumps and replace overlays.                       *)
(*                                                                         *)
(* Every method holds the lock of the state while it matters, so a call is   *)
(* one step.  A handle is the generation it was issued for: the bridge has    *)
(* one document at a time, and a page handle adds the page.  A snapshot is     *)
(* [rev, content]; contents name the PDF they were made from, as a history.   *)
(***************************************************************************)
EXTENDS Integers, Sequences, SequencesExt, FiniteSets

CONSTANTS
  Files,            \* Files[f] = [pages, outline, links, found, sound]: outline is a
                    \*   sequence of [title, page], links of [page, target], found[p]
                    \*   the titles in the text of p, sound that every page is valid
  Ranges,           \* selections: [first, last]
  Anchors,          \* positions of the viewport
  OutlineLimit,     \* maximum_outline_entries
  LinkLimit,        \* maximum_links_per_page
  GenerationLimit,  \* bound: documents begun
  PublishLimit,     \* bound: snapshots published and jumps of a document
  OverlayLimit      \* bound: revisions of a document's overlays

\* "none" is no file
ASSUME BridgeAssumption ==
  /\ "none" \notin DOMAIN Files
  /\ \A f \in DOMAIN Files : Files[f].pages \in Nat

VARIABLES
  liveGeneration,   \* BridgeState::next_generation
  document,           \* BridgeState::active: ActiveDocument, or NoDocument
  view,           \* [file, text, selection, links, anchor]: what the reader has,
                    \*   file "none" without a document
  seen              \* history: one reading an extension remembers, or Missing:
                    \*   [gen, item, rev, content]

bridgeVars == <<liveGeneration, document, view, seen>>

NoDocument == [gen |-> 0]
NoJump == [gen |-> 0]
Missing == [rev |-> 0]
NoRange == [first |-> 0, last |-> -1]

PageItems == {"page", "links", "text"}
DocumentItems == {"document", "outline", "selection", "viewport"}
ItemsOf(n) == {<<kind, 0>> : kind \in DocumentItems}
              \cup {<<kind, p>> : kind \in PageItems, p \in 1..n}

PagesOf(f) == 1..Files[f].pages

NewReading == [file |-> "none", text |-> {}, selection |-> NoRange,
               links |-> <<>>, anchor |-> CHOOSE a \in Anchors : TRUE]

BridgeInit ==
  /\ liveGeneration = 1
  /\ document = NoDocument
  /\ view = NewReading
  /\ seen = Missing

-----------------------------------------------------------------------------
(* Snapshots *)

\* build_live_document_snapshots: entries beyond the limit, of pages the document
\* does not have or without a title are left out
Outline(f) ==
  LET all == Files[f].outline
      first == SubSeq(all, 1, IF Len(all) < OutlineLimit THEN Len(all) ELSE OutlineLimit)
      kept == SelectSeq(first, LAMBDA e : e.page \in PagesOf(f) /\ e.title # "")
  IN [entries |-> kept, truncated |-> kept # all]

\* build_live_link_snapshots
LinksOn(f, links, p) ==
  LET here == SelectSeq(links, LAMBDA l : l.page = p)
      valid == SelectSeq(here, LAMBDA l : l.target \in PagesOf(f))
      kept == SubSeq(valid, 1, IF Len(valid) < LinkLimit THEN Len(valid) ELSE LinkLimit)
  IN [entries |-> kept, truncated |-> kept # here]

Content(value) == [file |-> view.file, value |-> value]

\* live_snapshot_matches: the snapshot the bridge has already
Fresh(doc, item, content) ==
  IF doc.shelf[item] # Missing /\ doc.shelf[item].content = content
  THEN doc.shelf[item] ELSE Missing

\* publish_live_snapshot_if_changed: the revision is taken before the snapshot is
\* validated, and lost if it is refused.
Published(doc, item, content, valid) ==
  IF Fresh(doc, item, content) # Missing THEN doc
  ELSE IF ~valid THEN [doc EXCEPT !.nextRevision = @ + 1]
  ELSE [doc EXCEPT !.nextRevision = @ + 1,
                   !.shelf[item] = [rev |-> doc.nextRevision, content |-> content],
                   !.nextViewport = IF item[1] = "viewport" /\ @ < doc.nextRevision
                                    THEN doc.nextRevision ELSE @]

Live == document # NoDocument
Room == Live => document.nextRevision < PublishLimit

\* The snapshots begin_live_document seeds, all of revision 1
Seed(f, item) ==
  LET content(value) == [rev |-> 1, content |-> [file |-> f, value |-> value]]
  IN CASE item[1] = "outline" -> content(Outline(f))
       [] item[1] = "links" -> content(LinksOn(f, Files[f].links, item[2]))
       [] item[1] \in {"document", "page"} -> content(f)
       [] OTHER -> Missing

NewDocument(f, gen) ==
  [gen |-> gen, pages |-> Files[f].pages, nextRevision |-> 2, nextViewport |-> 0,
   overlays |-> 0, jump |-> NoJump,
   shelf |-> [item \in ItemsOf(Files[f].pages) |-> Seed(f, item)]]

-----------------------------------------------------------------------------
(* The reader *)

\* begin_open_path closes the generation and forgets its text; a reader that
\* closes does the same.
CloseDocument ==
  /\ document' = NoDocument
  /\ view' = NewReading
  /\ UNCHANGED <<liveGeneration, seen>>

\* Opened: begin_live_document; a document that cannot be described uses up its
\* generation and the reader shows it without capabilities.
BeginLive ==
  /\ liveGeneration <= GenerationLimit
  /\ view.file = "none"
  /\ \E f \in DOMAIN Files :
       /\ view' = [NewReading EXCEPT !.file = f, !.links = Files[f].links]
       /\ document' = IF Files[f].sound THEN NewDocument(f, liveGeneration) ELSE document
  /\ liveGeneration' = liveGeneration + 1
  /\ UNCHANGED seen

Publish(item, value, valid) ==
  /\ document' = IF Live THEN Published(document, item, Content(value), valid) ELSE document
  /\ UNCHANGED <<liveGeneration, seen>>

\* publish_live_selection: with text missing from the reader's cache the
\* selection is published without its text.
SelectionContent(r) ==
  [range |-> r.selection,
   complete |-> r.selection # NoRange
                  /\ r.selection.first..r.selection.last \subseteq r.text]

\* TextExtracted: the text of the page, then the selection; a page beyond the
\* limits of the contract is refused before a revision is taken.
PublishText ==
  /\ view.file # "none"
  /\ Room
  /\ \E p \in PagesOf(view.file), fits \in BOOLEAN :
       LET known == [view EXCEPT !.text = @ \cup {p}]
           text == IF Live /\ fits
                   THEN Published(document, <<"text", p>>,
                                  Content(Files[view.file].found[p]), TRUE)
                   ELSE document
       IN /\ view' = known
          /\ document' = IF Live
                       THEN Published(text, <<"selection", 0>>,
                                      Content(SelectionContent(known)), TRUE)
                       ELSE document
  /\ UNCHANGED <<liveGeneration, seen>>

\* evict_distant_text tells the bridge nothing.
EvictText ==
  /\ \E p \in view.text : view' = [view EXCEPT !.text = @ \ {p}]
  /\ UNCHANGED <<liveGeneration, document, seen>>

PublishSelection ==
  /\ view.file # "none"
  /\ Room
  /\ \E r \in Ranges \cup {NoRange} :
       /\ r # view.selection
       /\ r = NoRange \/ r.last \in PagesOf(view.file)
       /\ view' = [view EXCEPT !.selection = r]
       /\ Publish(<<"selection", 0>>,
                  SelectionContent([view EXCEPT !.selection = r]), TRUE)

\* publish_live_viewport, with a geometry the contract refuses or accepts
PublishViewport ==
  /\ view.file # "none"
  /\ Room
  /\ \E a \in Anchors, valid \in BOOLEAN :
       /\ view' = [view EXCEPT !.anchor = a]
       /\ Publish(<<"viewport", 0>>, a, valid)

\* publish_live_links with the links of the analysis: page after page, each page whose
\* links have changed with a revision of its own
PublishLinks ==
  /\ view.file # "none"
  /\ Room
  /\ view.links = Files[view.file].links
  /\ LET more == view.links \o <<[page |-> 1, target |-> 1]>>
         content(p) == Content(LinksOn(view.file, more, p))
         changed == {p \in PagesOf(view.file) :
                       Fresh(document, <<"links", p>>, content(p)) = Missing}
         Revision(p) == document.nextRevision + Cardinality({q \in changed : q < p})
     IN /\ view' = [view EXCEPT !.links = more]
        /\ document' = IF ~Live THEN document
             ELSE [document EXCEPT
                     !.nextRevision = @ + Cardinality(changed),
                     !.shelf = [item \in DOMAIN @ |->
                                  IF \E p \in changed : item = <<"links", p>>
                                  THEN [rev |-> Revision(item[2]), content |-> content(item[2])]
                                  ELSE @[item]]]
  /\ UNCHANGED <<liveGeneration, seen>>

-----------------------------------------------------------------------------
(* Extensions.  Handles of every generation issued so far are still around.  *)

Handles == 1..(liveGeneration - 1)

MutAccepts(gen) == Live

\* require_active, require_document, page_index
Accepts(gen) == Live /\ document.gen = gen

\* DocumentMetadataService, OutlineService, LinkService, TextService and the rest:
\* Busy until the snapshot has been published
Readings(gen) ==
  IF ~Accepts(gen) THEN {}
  ELSE {[gen |-> gen, item |-> item, rev |-> document.shelf[item].rev,
         content |-> document.shelf[item].content] :
           item \in {i \in DOMAIN document.shelf : document.shelf[i] # Missing}}
Read ==
  \E gen \in Handles :
    /\ seen = Missing
    /\ \E reading \in Readings(gen) : seen' = reading
    /\ UNCHANGED <<liveGeneration, document, view>>

\* refine_navigation: with the text of the page a title found in it is the target
Refined(doc, page, title) ==
  LET text == doc.shelf[<<"text", page>>]
  IN text # Missing /\ title \in text.content.value

\* navigate: a newer request replaces one that is not delivered yet.
Navigated(doc, page, title) ==
  [doc EXCEPT !.nextViewport = @ + 1,
              !.jump = [gen |-> doc.gen, page |-> page, title |-> title,
                        exact |-> Refined(doc, page, title)]]
Navigate ==
  \E gen \in Handles :
    /\ Accepts(gen)
    /\ document.nextViewport < PublishLimit
    /\ \E page \in 1..document.pages :
         document' = Navigated(document, page, "")
    /\ UNCHANGED <<liveGeneration, view, seen>>

\* replace_overlays: the revision is the extension's and must grow.
ReplaceOverlays ==
  \E gen \in Handles, rev \in 1..OverlayLimit :
    /\ Accepts(gen)
    /\ rev > document.overlays
    /\ document' = [document EXCEPT !.overlays = rev]
    /\ UNCHANGED <<liveGeneration, view, seen>>

-----------------------------------------------------------------------------
(* The reader takes what extensions want *)

\* consume_pdf_extension_outputs
Consumed(doc) == [doc EXCEPT !.jump = NoJump]
ConsumeOutputs ==
  /\ Live
  /\ document.jump # NoJump
  /\ document' = Consumed(document)
  /\ UNCHANGED <<liveGeneration, view, seen>>

\* navigate_toc drops what activate_live_outline asked for without a text target
TakeUnrefined(doc) == [doc EXCEPT !.jump = NoJump]

\* navigate_toc of an entry whose page has its text, when no extension takes the
\* command: activate_live_outline finds the entry by title and page among those the
\* outline kept, and its jump counts if the title was found; otherwise the reader
\* resolves the entry itself.
ActivateOutline ==
  /\ view.file # "none"
  /\ Live => document.nextViewport < PublishLimit
  /\ \E e \in Range(Files[view.file].outline) :
       LET known == Live /\ \E k \in Range(document.shelf[<<"outline", 0>>].content.value.entries) :
                              k = e
           asked == Navigated(document, e.page, e.title)
       IN /\ e.page \in view.text
          /\ document' = IF ~known THEN document
                       ELSE IF asked.jump.exact THEN Consumed(asked) ELSE TakeUnrefined(asked)
  /\ UNCHANGED <<liveGeneration, view, seen>>

-----------------------------------------------------------------------------
BridgeNext ==
  \/ CloseDocument \/ BeginLive \/ PublishText \/ EvictText \/ PublishSelection
  \/ PublishViewport \/ PublishLinks \/ ConsumeOutputs \/ ActivateOutline
  \/ Read \/ Navigate \/ ReplaceOverlays

BridgeSpec == BridgeInit /\ [][BridgeNext]_bridgeVars

-----------------------------------------------------------------------------
(* Properties *)

(* An extension may trust what it reads: a handle only ever shows the one      *)
(* document it was issued for, however often documents are opened, fail to     *)
(* be described and are closed, and a revision names one content, so that a     *)
(* reading may be cached by it.  A jump that waits is one an extension asked for *)
(* in this document, and nothing is left of a jump the reader resolved itself.  *)
BridgeFaithful ==
  /\ seen # Missing =>
       \A r \in Readings(seen.gen) :
         /\ r.content.file = seen.content.file
         /\ (r.item = seen.item /\ r.rev = seen.rev) => r.content = seen.content
  /\ Live =>
       /\ \A item \in DOMAIN document.shelf :
            document.shelf[item] # Missing =>
              /\ document.shelf[item].content.file = view.file
              /\ document.shelf[item].rev < document.nextRevision
       /\ document.jump # NoJump => document.jump.gen = document.gen /\ document.jump.title = ""
=============================================================================

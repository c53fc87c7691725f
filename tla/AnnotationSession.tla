-------------------------- MODULE AnnotationSession --------------------------
(***************************************************************************)
(* The reader of the application (apps/gpui-pdf-reader/src/reader.rs and    *)
(* reader/comments.rs) as a client of the annotation service: it loads the  *)
(* annotations of a PDF once that is open, saves every edit at once, and     *)
(* opens another PDF only when its annotations are saved.                   *)
(*                                                                         *)
(* The generation of the reader distinguishes the documents it shows one    *)
(* after the other; answers carry the generation of their call.  A reader   *)
(* that is closed drops its client, which AnnotationService treats.         *)
(***************************************************************************)
EXTENDS AnnotationService

CONSTANT MaxGeneration   \* bound: documents a reader opens

VARIABLES
  generation,   \* generation[c]
  path,         \* path[c]: the document being opened or shown, or NoPath
  phase,        \* phase[c]: "none", "opening", "loading" (annotations_loading),
                \*   "ready", "blocked" (annotation_persistence_blocked)
  annotations,  \* annotations[c]: AnnotationSet; Empty stands for None too
  savedRev,     \* annotation_saved_revision
  enqueuedRev,  \* annotation_enqueued_revision
  failedRev,    \* annotation_failed_revision, NoRevision for None
  pendingOpen,  \* pending_open, NoPath for None
  made          \* history: the edits made so far

readerVars == <<generation, path, phase, annotations, savedRev, enqueuedRev,
                failedRev, pendingOpen, made>>
sessionVars == <<vars, readerVars>>

SessionInit ==
  /\ Init
  /\ generation = [c \in Client |-> 0]
  /\ path = [c \in Client |-> NoPath]
  /\ phase = [c \in Client |-> "none"]
  /\ annotations = [c \in Client |-> Empty]
  /\ savedRev = [c \in Client |-> 0]
  /\ enqueuedRev = [c \in Client |-> 0]
  /\ failedRev = [c \in Client |-> NoRevision]
  /\ pendingOpen = [c \in Client |-> NoPath]
  /\ made = {}

AtLeast(a, b) == IF a < b THEN b ELSE a

\* unsaved_annotation_revision is Some.
Dirty(c) == annotations[c].revision > savedRev[c]

-----------------------------------------------------------------------------
(* Opening a document *)

\* begin_open_path
BeginOpen(c, p) ==
  /\ generation' = [generation EXCEPT ![c] = @ + 1]
  /\ path' = [path EXCEPT ![c] = p]
  /\ phase' = [phase EXCEPT ![c] = "opening"]
  /\ annotations' = [annotations EXCEPT ![c] = Empty]
  /\ savedRev' = [savedRev EXCEPT ![c] = 0]
  /\ enqueuedRev' = [enqueuedRev EXCEPT ![c] = 0]
  /\ failedRev' = [failedRev EXCEPT ![c] = NoRevision]
  /\ pendingOpen' = [pendingOpen EXCEPT ![c] = NoPath]
  /\ UNCHANGED made

\* persist_annotations of the set s: accepted, or refused by the service.
SaveAccepted(c, s) ==
  /\ Submit(c, [op |-> "save", gen |-> generation[c], path |-> path[c],
                expected |-> savedRev[c], snap |-> s])
  /\ enqueuedRev' = [enqueuedRev EXCEPT ![c] = AtLeast(@, s.revision)]
  /\ UNCHANGED failedRev
SaveRefused(c, s) ==
  /\ ~CanSubmit(c)
  /\ failedRev' = [failedRev EXCEPT ![c] = s.revision]
  /\ UNCHANGED <<vars, enqueuedRev>>

\* open_path_after_comment_guard: with everything saved the reader begins to
\* open, otherwise the path waits for the save, which is queued if need be.
MutOpenClean(c, p) ==
  /\ client[c] = "live" /\ generation[c] < MaxGeneration
  /\ BeginOpen(c, p)
  /\ UNCHANGED vars

OpenClean(c, p) ==
  /\ client[c] = "live" /\ generation[c] < MaxGeneration
  /\ ~Dirty(c)
  /\ BeginOpen(c, p)
  /\ UNCHANGED vars

NeedsQueueing(c) ==
  enqueuedRev[c] < annotations[c].revision \/ failedRev[c] # NoRevision

OpenDirty(c, p) ==
  /\ client[c] = "live" /\ generation[c] < MaxGeneration
  /\ Dirty(c)
  /\ \/ /\ ~NeedsQueueing(c)
        /\ pendingOpen' = [pendingOpen EXCEPT ![c] = p]
        /\ UNCHANGED <<vars, enqueuedRev, failedRev>>
     \/ /\ NeedsQueueing(c)
        /\ SaveAccepted(c, annotations[c])
        /\ pendingOpen' = [pendingOpen EXCEPT ![c] = p]
     \/ /\ NeedsQueueing(c)
        /\ SaveRefused(c, annotations[c])
        /\ pendingOpen' = [pendingOpen EXCEPT ![c] = NoPath]
  /\ UNCHANGED <<generation, path, phase, annotations, savedRev, made>>

\* WorkerEvent::Opened: the annotations are loaded, or editing is blocked when
\* the service refuses.
Opened(c) ==
  /\ phase[c] = "opening"
  /\ \/ /\ Submit(c, [op |-> "load", gen |-> generation[c], path |-> path[c]])
        /\ phase' = [phase EXCEPT ![c] = "loading"]
     \/ /\ ~CanSubmit(c)
        /\ phase' = [phase EXCEPT ![c] = "blocked"]
        /\ UNCHANGED vars
  /\ UNCHANGED <<generation, path, annotations, savedRev, enqueuedRev, failedRev,
                 pendingOpen, made>>

-----------------------------------------------------------------------------
(* Editing *)

\* add_highlight and save_comment: a change is saved at once.
Edit(c, m) ==
  LET s == [revision |-> annotations[c].revision + 1,
            marks |-> annotations[c].marks \cup {m}]
  IN
  /\ client[c] = "live"
  /\ phase[c] = "ready"
  /\ m \notin made
  /\ made' = made \cup {m}
  /\ annotations' = [annotations EXCEPT ![c] = s]
  /\ SaveAccepted(c, s) \/ SaveRefused(c, s)
  /\ UNCHANGED <<generation, path, phase, savedRev, pendingOpen>>

\* The same calls without a change queue what is not saved yet once more.
SaveAgain(c) ==
  /\ client[c] = "live"
  /\ phase[c] = "ready"
  /\ Dirty(c)
  /\ SaveAccepted(c, annotations[c]) \/ SaveRefused(c, annotations[c])
  /\ UNCHANGED <<generation, path, phase, annotations, savedRev, pendingOpen, made>>

-----------------------------------------------------------------------------
(* handle_annotation_event *)

MutEventFor(c, kind) ==
  /\ Receive(c)
  /\ Head(events[c]).kind = kind

\* An event of the current generation.
EventFor(c, kind) ==
  /\ Receive(c)
  /\ Head(events[c]).kind = kind
  /\ Head(events[c]).gen = generation[c]

HandleLoaded(c) ==
  LET s == Head(events[c]).snap IN
  /\ EventFor(c, "loaded")
  /\ annotations' = [annotations EXCEPT ![c] = s]
  /\ savedRev' = [savedRev EXCEPT ![c] = s.revision]
  /\ enqueuedRev' = [enqueuedRev EXCEPT ![c] = s.revision]
  /\ failedRev' = [failedRev EXCEPT ![c] = NoRevision]
  /\ phase' = [phase EXCEPT ![c] = "ready"]
  /\ UNCHANGED <<generation, path, pendingOpen, made>>

HandleLoadFailed(c) ==
  /\ EventFor(c, "loadfailed")
  /\ annotations' = [annotations EXCEPT ![c] = Empty]
  /\ phase' = [phase EXCEPT ![c] = "blocked"]
  /\ UNCHANGED <<generation, path, savedRev, enqueuedRev, failedRev, pendingOpen, made>>

\* transition_pending_open: the path that waits is opened when all is saved.
SavedNow(c) == AtLeast(savedRev[c], Head(events[c]).snap.revision)
MayOpenNow(c) == pendingOpen[c] # NoPath /\ annotations[c].revision <= SavedNow(c)

MutHandleSaved(c) ==
  /\ EventFor(c, "saved")
  /\ savedRev' = [savedRev EXCEPT ![c] = SavedNow(c)]
  /\ UNCHANGED <<generation, path, phase, annotations, enqueuedRev, failedRev,
                 pendingOpen, made>>

HandleSaved(c) ==
  /\ EventFor(c, "saved")
  /\ \/ /\ MayOpenNow(c)
        /\ BeginOpen(c, pendingOpen[c])
     \/ /\ ~MayOpenNow(c)
        /\ savedRev' = [savedRev EXCEPT ![c] = SavedNow(c)]
        /\ failedRev' = [failedRev EXCEPT ![c] =
             IF Head(events[c]).snap.revision >= @ THEN NoRevision ELSE @]
        /\ UNCHANGED <<generation, path, phase, annotations, enqueuedRev,
                       pendingOpen, made>>

\* A failed save is remembered and withdraws the path that waits.
HandleSaveFailed(c) ==
  /\ EventFor(c, "savefailed")
  /\ failedRev' = [failedRev EXCEPT ![c] = AtLeast(@, Head(events[c]).snap.revision)]
  /\ pendingOpen' = [pendingOpen EXCEPT ![c] = NoPath]
  /\ UNCHANGED <<generation, path, phase, annotations, savedRev, enqueuedRev, made>>

\* Events of an older generation are dropped.
HandleOld(c) ==
  /\ Receive(c)
  /\ Head(events[c]).gen # generation[c]
  /\ UNCHANGED readerVars

ReceiveStep(c) ==
  \/ HandleLoaded(c) \/ HandleLoadFailed(c) \/ HandleSaved(c) \/ HandleSaveFailed(c)
  \/ HandleOld(c)

-----------------------------------------------------------------------------
ReaderStep(c) ==
  \/ \E p \in Path : OpenClean(c, p) \/ OpenDirty(c, p)
  \/ Opened(c)
  \/ \E m \in Mark \ Foreign : Edit(c, m)
  \/ SaveAgain(c)
  \/ ReceiveStep(c)

SessionNext ==
  \/ \E c \in Client : ReaderStep(c)
  \/ (Environment \/ ActorStep \/ Stopped) /\ UNCHANGED readerVars
SessionSpec == SessionInit /\ [][SessionNext]_sessionVars

\* As in AnnotationService; a Steady reader handles its events.
SessionFairness ==
  /\ WF_sessionVars(ActorStep /\ UNCHANGED readerVars)
  /\ \A c \in Steady : WF_sessionVars(ReceiveStep(c))
FairSessionSpec == SessionSpec /\ SessionFairness

-----------------------------------------------------------------------------
(* Properties *)

(* What the reader takes for saved is saved: answers of an older document,   *)
(* repeated saves and saves of other readers never make it believe so of     *)
(* edits that are not on disk.                                               *)
CleanMeansStored ==
  \A c \in Client :
    phase[c] = "ready" /\ ~Dirty(c) => annotations[c].marks \subseteq store[path[c]].marks

(* No edit is lost: what is on disk stays there, whatever other readers of    *)
(* the same PDF and other processes save from older snapshots, and a reader    *)
(* leaves a document only with all its edits on disk.                         *)
EditsAreKept ==
  [][/\ \A p \in Path : store[p].marks \subseteq store'[p].marks
     /\ \A c \in Client :
          generation'[c] # generation[c] /\ phase[c] = "ready" =>
            annotations[c].marks \subseteq store[path[c]].marks]_sessionVars

(* A document that waits for the annotations to be saved is opened, or the   *)
(* wait ends with an error the user sees; it is never forgotten silently,    *)
(* with saves coalesced, refused and failing.                                *)
WaitingOpenSettles ==
  \A c \in Steady :
    (pendingOpen[c] # NoPath)
      ~> (pendingOpen[c] = NoPath \/ failedRev[c] # NoRevision \/ handle # "held")
=============================================================================

----------------------------- MODULE SidecarStore -----------------------------
(***************************************************************************)
(* JsonSidecarStore (crates/key-sidecar-store/src/json.rs): the annotations   *)
(* of a PDF in a JSON file beside it.  Windows and processes that have the      *)
(* PDF open save through an advisory lock on the PDF itself, checks of what       *)
(* lies at the path before and after, and a temporary file renamed over the        *)
(* old one; processes and the machine may fail at every step.                     *)
(*                                                                         *)
(* A PDF is a file (inode) with a content; its identity (length and SHA-256)     *)
(* is the content.  An annotation set is [rev, marks]; a writer edits by         *)
(* putting in or taking out its own mark.                                       *)
(***************************************************************************)
EXTENDS Integers, Sequences

CONSTANTS
  Writer,         \* windows or processes with the PDF open: numbers
  Version,        \* contents of PDFs: numbers from 1
  RevisionLimit,  \* bound: revisions of an annotation set
  FailureLimit,   \* bound: failures of a process or of the machine
  SwapLimit,      \* bound: changes of the PDF
  Swaps           \* what may happen to the PDF while it is locked: "late" puts
                  \*   another PDF in its place after the last check, "copy" an
                  \*   identical one

VARIABLES
  files,      \* files[i]: content of the i-th file put at the path; the last is there
  lock,       \* lock[i]: the writer with the advisory lock of file i, or NoWriter
  sidecar,    \* the sidecar: [doc, set], or NoSidecar
  durable,    \* what the disk has of it
  writer,     \* writer[w], see NewWriter
  failures,   \* failures so far
  swaps       \* changes of the PDF so far

sidecarVars == <<files, lock, sidecar, durable, writer, failures, swaps>>

NoWriter == 0
Empty == [rev |-> 0, marks |-> {}]
NoSidecar == [doc |-> 0, set |-> Empty]
AnnotationSets == [rev : 0..RevisionLimit, marks : SUBSET Writer]

ASSUME SidecarAssumption ==
  /\ Writer \subseteq Nat \ {NoWriter}
  /\ Version \subseteq Nat \ {NoSidecar.doc} /\ 1 \in Version
  /\ RevisionLimit \in Nat

\* pc: the next step of compare_and_save; key: DocumentKey, 0 while nothing is
\* loaded; base: the set whose
\* revision is expected_revision; have: the annotation set; told: the answer
NewWriter == [pc |-> "idle", file |-> 0, key |-> 0, base |-> Empty, have |-> Empty,
              told |-> "none"]

SidecarInit ==
  /\ files = <<1>>
  /\ lock = <<NoWriter>>
  /\ sidecar = NoSidecar
  /\ durable = NoSidecar
  /\ writer = [w \in Writer |-> NewWriter]
  /\ failures = 0
  /\ swaps = 0

There == Len(files)

Goto(w, pc) == writer' = [writer EXCEPT ![w].pc = pc]
At(w, pc) == writer[w].pc = pc

-----------------------------------------------------------------------------
(* Callers *)

\* load: refused if the sidecar is of another PDF
Load(w) ==
  /\ At(w, "idle")
  /\ sidecar = NoSidecar \/ sidecar.doc = files[There]
  /\ writer' = [writer EXCEPT ![w] =
                  [NewWriter EXCEPT !.key = files[There], !.base = sidecar.set,
                                    !.have = sidecar.set]]
  /\ UNCHANGED <<files, lock, sidecar, durable, failures, swaps>>

\* AnnotationSet: an edit advances the revision
Edit(w) ==
  /\ At(w, "idle")
  /\ writer[w].key # 0
  /\ writer[w].have.rev < RevisionLimit
  /\ LET marks == writer[w].have.marks
         toggled == IF w \in marks THEN marks \ {w} ELSE marks \cup {w}
     IN writer' = [writer EXCEPT ![w].have = [rev |-> @.rev + 1, marks |-> toggled]]
  /\ UNCHANGED <<files, lock, sidecar, durable, failures, swaps>>

-----------------------------------------------------------------------------
(* compare_and_save *)

\* File::open of the PDF
OpenPdf(w) ==
  /\ At(w, "idle")
  /\ writer[w].key # 0
  /\ writer' = [writer EXCEPT ![w].pc = "lock", ![w].file = There, ![w].told = "none"]
  /\ UNCHANGED <<files, lock, sidecar, durable, failures, swaps>>

\* pdf.lock() waits for the lock of the file that was opened.
LockPdf(w) ==
  /\ At(w, "lock")
  /\ lock[writer[w].file] = NoWriter
  /\ lock' = [lock EXCEPT ![writer[w].file] = w]
  /\ Goto(w, "check")
  /\ UNCHANGED <<files, sidecar, durable, failures, swaps>>

\* revalidate_locked_document: the locked file, and the one at the path.  A file whose
\* length, time of modification and pages are those of the key is not read again:
\* here such a file has the content of the key
Unchanged(w) == files[writer[w].file] = writer[w].key /\ files[There] = writer[w].key

CheckPdf(w) ==
  /\ At(w, "check")
  /\ Unchanged(w)
  /\ Goto(w, "compare")
  /\ UNCHANGED <<files, lock, sidecar, durable, failures, swaps>>

MutMatches(w) ==
  LET mine == writer[w]
  IN /\ sidecar = NoSidecar \/ sidecar.doc = mine.key
     /\ mine.have.rev >= sidecar.set.rev

\* load_or_empty and the three comparisons of revisions
Matches(w) ==
  LET mine == writer[w]
  IN /\ sidecar = NoSidecar \/ sidecar.doc = mine.key
     /\ sidecar.set.rev = mine.base.rev
     /\ mine.have.rev >= sidecar.set.rev
     /\ mine.have.rev = sidecar.set.rev => mine.have = sidecar.set

Compare(w) ==
  /\ At(w, "compare")
  /\ Matches(w)
  /\ Goto(w, "recheck")
  /\ UNCHANGED <<files, lock, sidecar, durable, failures, swaps>>

Recheck(w) ==
  /\ At(w, "recheck")
  /\ Unchanged(w)
  /\ Goto(w, "write")
  /\ UNCHANGED <<files, lock, sidecar, durable, failures, swaps>>

\* atomic_write up to the rename: a temporary file of its own name, synced
WriteTemporary(w) ==
  /\ At(w, "write")
  /\ Goto(w, "rename")
  /\ UNCHANGED <<files, lock, sidecar, durable, failures, swaps>>

Rename(w) ==
  /\ At(w, "rename")
  /\ sidecar' = [doc |-> writer[w].key, set |-> writer[w].have]
  /\ Goto(w, "sync")
  /\ UNCHANGED <<files, lock, durable, failures, swaps>>

Unlocked(w) == [i \in DOMAIN lock |-> IF lock[i] = w THEN NoWriter ELSE lock[i]]

\* The directory is synced if that works; the lock goes with its guard.
Answer(w) ==
  /\ At(w, "sync")
  /\ durable' \in {durable, sidecar}
  /\ lock' = Unlocked(w)
  /\ writer' = [writer EXCEPT ![w].pc = "idle", ![w].told = "saved",
                              ![w].base = writer[w].have]
  /\ UNCHANGED <<files, sidecar, failures, swaps>>

\* A check does not hold, a call of the system fails, or the set is too large to be
\* encoded; the temporary file is removed by its guard.
Refuse(w) ==
  /\ writer[w].pc \in {"lock", "check", "compare", "recheck", "write", "rename"}
  /\ lock' = Unlocked(w)
  /\ writer' = [writer EXCEPT ![w].pc = "idle", ![w].told = "refused"]
  /\ UNCHANGED <<files, sidecar, durable, failures, swaps>>

-----------------------------------------------------------------------------
(* Failures, and others that touch the PDF *)

\* A process ends anywhere: the lock goes with the descriptor, the temporary file
\* stays and nobody reads it.
Crash(w) ==
  /\ writer[w] # NewWriter
  /\ failures < FailureLimit
  /\ failures' = failures + 1
  /\ lock' = Unlocked(w)
  /\ writer' = [writer EXCEPT ![w] = NewWriter]
  /\ UNCHANGED <<files, sidecar, durable, swaps>>

PowerFailure ==
  /\ failures < FailureLimit
  /\ failures' = failures + 1
  /\ lock' = [i \in DOMAIN lock |-> NoWriter]
  /\ writer' = [w \in Writer |-> NewWriter]
  /\ sidecar' = durable
  /\ UNCHANGED <<files, durable, swaps>>

\* The system writes the directory when it likes.
Flush == durable # sidecar /\ durable' = sidecar
           /\ UNCHANGED <<files, lock, sidecar, writer, failures, swaps>>

Busy == {w \in Writer : ~At(w, "idle")}

\* Another program edits the PDF in place: same file, same lock.
EditPdf ==
  /\ swaps < SwapLimit
  /\ \E v \in Version \ {files[There]} :
       /\ (\E w \in Busy : writer[w].file # There /\ files[writer[w].file] = v)
            => "copy" \in Swaps
       /\ files' = [files EXCEPT ![There] = v]
  /\ swaps' = swaps + 1
  /\ UNCHANGED <<lock, sidecar, durable, writer, failures>>

\* Another file takes its place: the lock does not go with the path.
ReplacePdf ==
  /\ swaps < SwapLimit
  /\ \E v \in Version :
       /\ (\E w \in Busy : files[writer[w].file] = v) => "copy" \in Swaps
       /\ (\E w \in Busy : writer[w].pc \in {"write", "rename"}) => "late" \in Swaps
       /\ files' = Append(files, v)
  /\ lock' = Append(lock, NoWriter)
  /\ swaps' = swaps + 1
  /\ UNCHANGED <<sidecar, durable, writer, failures>>

-----------------------------------------------------------------------------
SidecarNext ==
  \/ \E w \in Writer :
       \/ Load(w) \/ Edit(w) \/ OpenPdf(w) \/ LockPdf(w) \/ CheckPdf(w) \/ Compare(w)
       \/ Recheck(w) \/ WriteTemporary(w) \/ Rename(w) \/ Answer(w) \/ Refuse(w) \/ Crash(w)
  \/ PowerFailure \/ Flush \/ EditPdf \/ ReplacePdf

SidecarSpec == SidecarInit /\ [][SidecarNext]_sidecarVars

-----------------------------------------------------------------------------
(* Properties *)

\* Answered: the caller's call has taken effect once the file is renamed.
Answered ==
  [w \in Writer |-> IF At(w, "sync") THEN "saved" ELSE writer[w].told]

Seen ==
  [w \in Writer |-> IF At(w, "sync") THEN writer[w].have ELSE writer[w].base]

Promised == INSTANCE AnnotationStore
  WITH Annotations <- AnnotationSets, entry <- sidecar, settled <- durable,
       seen <- Seen, told <- Answered

(* "Atomically writes annotations only if the document identity and on-disk    *)
(* annotation revision still match the caller's observations": the lock, the    *)
(* checks and the rename amount to one step of the store in memory, whatever      *)
(* other writers do between them, with processes and the machine failing          *)
(* anywhere: a set is only ever replaced by a caller that has seen it, an         *)
(* answer "saved" is a set that was stored, a refused or                        *)
(* interrupted call leaves the old set or the new one, and only a failure of       *)
(* the machine takes back what the disk did not have.                            *)
SavesAreAtomic == Promised!Spec
=============================================================================

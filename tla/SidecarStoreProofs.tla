-------------------------- MODULE SidecarStoreProofs --------------------------
(***************************************************************************)
(* Proofs about SidecarStore, for any number of writers, PDFs, revisions,      *)
(* failures and changes of the PDF: compare_and_save is one step of the store    *)
(* in memory (SavesAreAtomic), provided nobody puts an identical PDF in the        *)
(* place of a locked one, or any PDF after the last check.                       *)
(***************************************************************************)
EXTENDS SidecarStore, SequenceTheorems, TLAPS

Entries == [doc : Version \cup {0}, set : AnnotationSets]

Writers ==
  [pc : {"idle", "lock", "check", "compare", "recheck", "write", "rename", "sync"},
   file : Nat, key : Version \cup {0}, base : AnnotationSets, have : AnnotationSets,
   told : {"none", "saved", "refused"}]

\* A writer that runs compare_and_save has loaded, and has opened a file that is or
\* was at the path.
SidecarTypeOK ==
  /\ files \in Seq(Version) /\ files # <<>>
  /\ lock \in Seq(Writer \cup {NoWriter}) /\ Len(lock) = Len(files)
  /\ sidecar \in Entries /\ durable \in Entries
  /\ writer \in [Writer -> Writers]
  /\ \A w \in Busy : writer[w].key \in Version /\ writer[w].file \in 1..Len(files)

\* The lock is held from the first check to the answer.
LocksHeld ==
  \A w \in Writer :
    writer[w].pc \in {"check", "compare", "recheck", "write", "rename", "sync"}
      => lock[writer[w].file] = w

\* The file at the path differs from every other file that is being saved for.
FilesApart ==
  \A w \in Busy : writer[w].file # There => files[writer[w].file] # files[There]

\* What was compared still holds for the writer whose file is at the path, and after
\* the last check that is every writer.
ComparisonStands ==
  \A w \in Writer :
    /\ writer[w].pc \in {"recheck", "write", "rename"} /\ writer[w].file = There => Matches(w)
    /\ writer[w].pc \in {"write", "rename"} => writer[w].file = There

\* A revision names one set of annotations: what a writer has seen is older than the
\* sidecar or the same.
RevisionsNameSets ==
  \A w \in Writer :
    writer[w].key # 0 =>
      /\ Seen[w].rev <= sidecar.set.rev
      /\ Seen[w].rev = sidecar.set.rev => Seen[w] = sidecar.set

SidecarInv == SidecarTypeOK /\ LocksHeld /\ FilesApart /\ ComparisonStands /\ RevisionsNameSets

-----------------------------------------------------------------------------
(* What a step does to its writer, field by field *)

\* The types of what a writer holds
LEMMA Fields ==
  ASSUME SidecarTypeOK, NEW w \in Writer
  PROVE  /\ writer[w] \in Writers
         /\ writer[w].file \in Nat /\ writer[w].key \in Version \cup {0}
         /\ writer[w].base \in AnnotationSets /\ writer[w].have \in AnnotationSets
         /\ writer[w].base.rev \in Nat /\ writer[w].have.rev \in Nat
         /\ sidecar.set \in AnnotationSets /\ sidecar.set.rev \in Nat
<1>1. writer[w] \in Writers /\ sidecar \in Entries
  BY DEF SidecarTypeOK
<1>2. /\ writer[w].file \in Nat /\ writer[w].key \in Version \cup {0}
      /\ writer[w].base \in AnnotationSets /\ writer[w].have \in AnnotationSets
  BY <1>1 DEF Writers
<1>3. sidecar.set \in AnnotationSets
  BY <1>1 DEF Entries
<1>4. \A s \in AnnotationSets : s.rev \in Nat
  BY SidecarAssumption DEF AnnotationSets
<1> QED BY <1>1, <1>2, <1>3, <1>4

\* A record put at w is found there, and the others stay
LEMMA Others ==
  ASSUME SidecarTypeOK, NEW w \in Writer, NEW r \in Writers,
         writer' = [writer EXCEPT ![w] = r]
  PROVE  /\ writer' \in [Writer -> Writers] /\ writer'[w] = r
         /\ \A x \in Writer \ {w} : writer'[x] = writer[x]
BY DEF SidecarTypeOK

\* The sets and records that stand for nothing have their types
LEMMA EmptyIsTyped == Empty \in AnnotationSets /\ NoSidecar \in Entries /\ NewWriter \in Writers
<1>1. Empty \in AnnotationSets
  BY SidecarAssumption DEF Empty, AnnotationSets
<1> QED BY <1>1 DEF NoSidecar, Entries, NewWriter, Writers

\* Goto changes the step and nothing else.
LEMMA GotoMoves ==
  ASSUME SidecarTypeOK, NEW w \in Writer, NEW pc, Goto(w, pc),
         pc \in {"check", "compare", "recheck", "write", "rename", "sync"}
  PROVE  /\ writer' \in [Writer -> Writers]
         /\ \A x \in Writer \ {w} : writer'[x] = writer[x]
         /\ writer'[w].pc = pc /\ writer'[w].file = writer[w].file
         /\ writer'[w].key = writer[w].key /\ writer'[w].base = writer[w].base
         /\ writer'[w].have = writer[w].have /\ writer'[w].told = writer[w].told
<1> DEFINE r == [writer[w] EXCEPT !.pc = pc]
<1>1. r \in Writers
  BY Fields DEF Writers
<1>2. writer' = [writer EXCEPT ![w] = r]
  BY DEF Goto
<1>3. writer'[w] = r
  BY <1>1, <1>2, Others
<1> QED BY <1>1, <1>2, <1>3, Others, Fields DEF Writers

-----------------------------------------------------------------------------
(* The locks and the files *)

Locks == Seq(Writer \cup {NoWriter})

\* A writer that takes a lock takes that one
LEMMA TakeLock ==
  ASSUME SidecarTypeOK, NEW w \in Writer, NEW i \in 1..Len(files),
         lock' = [lock EXCEPT ![i] = w]
  PROVE  /\ lock' \in Locks /\ Len(lock') = Len(files) /\ lock'[i] = w
         /\ \A j \in 1..Len(files) : j # i => lock'[j] = lock[j]
BY ExceptSeq DEF SidecarTypeOK, Locks

\* Others keep their locks when a writer's guard is dropped.
LEMMA DropLock ==
  ASSUME SidecarTypeOK, NEW w \in Writer, lock' = Unlocked(w)
  PROVE  /\ lock' \in Locks /\ Len(lock') = Len(files)
         /\ \A j \in 1..Len(files) : lock[j] # w => lock'[j] = lock[j]
<1>1. lock \in Locks /\ Len(lock) = Len(files) /\ Len(files) \in Nat
  BY DEF SidecarTypeOK, Locks
<1>2. DOMAIN lock = 1..Len(files)
  BY <1>1 DEF Locks
<1>3. lock' = [i \in 1..Len(files) |-> IF lock[i] = w THEN NoWriter ELSE lock[i]]
  BY <1>2 DEF Unlocked
<1>4. \A i \in 1..Len(files) : lock[i] \in Writer \cup {NoWriter}
  BY <1>1 DEF Locks
<1> QED BY <1>1, <1>3, <1>4 DEF Locks

\* A PDF edited in place stays the same file
LEMMA EditedFile ==
  ASSUME SidecarTypeOK, NEW v \in Version, files' = [files EXCEPT ![There] = v]
  PROVE  /\ files' \in Seq(Version) /\ files' # <<>> /\ Len(files') = Len(files)
         /\ files'[There] = v
         /\ \A i \in 1..Len(files) : i # There => files'[i] = files[i]
<1>1. There \in 1..Len(files)
  BY DEF SidecarTypeOK, There
<1>2. files \in Seq(Version) /\ files # <<>>
  BY DEF SidecarTypeOK
<1>3. /\ files' \in Seq(Version) /\ Len(files') = Len(files) /\ files'[There] = v
      /\ \A i \in 1..Len(files) : i # There => files'[i] = files[i]
  BY <1>1, <1>2, ExceptSeq
<1> QED BY <1>1, <1>3

\* A PDF that is replaced is a new file, which nobody has locked
LEMMA ReplacedFile ==
  ASSUME SidecarTypeOK, NEW v \in Version, files' = Append(files, v),
         lock' = Append(lock, NoWriter)
  PROVE  /\ files' \in Seq(Version) /\ files' # <<>> /\ Len(files') = Len(files) + 1
         /\ files'[Len(files) + 1] = v
         /\ lock' \in Locks /\ Len(lock') = Len(files')
         /\ \A i \in 1..Len(files) : files'[i] = files[i] /\ lock'[i] = lock[i]
<1>1. /\ files \in Seq(Version) /\ lock \in Locks /\ Len(lock) = Len(files)
      /\ Len(files) \in Nat
  BY DEF SidecarTypeOK, Locks
<1> QED BY <1>1 DEF Locks

-----------------------------------------------------------------------------
(* The invariant *)

\* A step of w leaves the other writers as they are.
Alone(w) == /\ writer' \in [Writer -> Writers]
            /\ \A x \in Writer \ {w} : writer'[x] = writer[x]

\* What each operation makes of its writer, in the fields that matter
LEMMA LoadMoves ==
  ASSUME SidecarTypeOK, NEW w \in Writer, Load(w)
  PROVE  /\ Alone(w) /\ writer'[w].pc = "idle"
         /\ writer'[w].base = sidecar.set /\ writer'[w].told = "none"
<1> DEFINE r == [NewWriter EXCEPT !.key = files[There], !.base = sidecar.set,
                                  !.have = sidecar.set]
<1>1. files[There] \in Version
  BY DEF SidecarTypeOK, There
<1>2. r \in Writers /\ r.pc = "idle" /\ r.base = sidecar.set /\ r.told = "none"
  BY <1>1, Fields, EmptyIsTyped DEF NewWriter, Writers
<1>3. writer' = [writer EXCEPT ![w] = r]
  BY DEF Load
<1> QED BY <1>2, <1>3, Others DEF Alone

\* An edit adds to what the writer has, and to nothing it compares
LEMMA EditMoves ==
  ASSUME SidecarTypeOK, NEW w \in Writer, Edit(w)
  PROVE  /\ Alone(w) /\ writer'[w].pc = "idle" /\ writer'[w].key = writer[w].key
         /\ writer'[w].base = writer[w].base /\ writer'[w].told = writer[w].told
<1> DEFINE marks == writer[w].have.marks
           toggled == IF w \in marks THEN marks \ {w} ELSE marks \cup {w}
           have == [rev |-> writer[w].have.rev + 1, marks |-> toggled]
           r == [writer[w] EXCEPT !.have = have]
<1>1. writer[w] \in Writers /\ writer[w].have \in AnnotationSets
  BY Fields
<1>2. marks \in SUBSET Writer /\ writer[w].have.rev + 1 \in 0..RevisionLimit
  BY <1>1, SidecarAssumption DEF Edit, AnnotationSets
<1>3. toggled \in SUBSET Writer
  BY <1>2
<1>4. have \in AnnotationSets
  BY <1>2, <1>3 DEF AnnotationSets
<1> HIDE DEF have
<1>5. /\ r \in Writers /\ r.pc = writer[w].pc /\ r.key = writer[w].key
      /\ r.base = writer[w].base /\ r.told = writer[w].told
  BY <1>1, <1>4 DEF Writers
<1>6. writer' = [writer EXCEPT ![w] = r]
  BY DEF Edit, have
<1> QED BY <1>5, <1>6, Others DEF Alone, Edit, At

\* A save begins with the file that has the name now
LEMMA OpenMoves ==
  ASSUME SidecarTypeOK, NEW w \in Writer, OpenPdf(w)
  PROVE  /\ Alone(w) /\ writer'[w].pc = "lock" /\ writer'[w].file = There
         /\ writer'[w].key = writer[w].key /\ writer'[w].base = writer[w].base
         /\ writer'[w].told = "none"
<1> DEFINE r == [writer[w] EXCEPT !.pc = "lock", !.file = There, !.told = "none"]
<1>1. There \in Nat
  BY DEF SidecarTypeOK, There
<1>2. /\ r \in Writers /\ r.pc = "lock" /\ r.file = There /\ r.key = writer[w].key
      /\ r.base = writer[w].base /\ r.told = "none"
  BY <1>1, Fields DEF Writers
<1>3. writer' = [writer EXCEPT ![w] = r]
  BY DEF OpenPdf
<1> QED BY <1>2, <1>3, Others DEF Alone

\* A save that went well leaves its writer with what it saved
LEMMA AnswerMoves ==
  ASSUME SidecarTypeOK, NEW w \in Writer, Answer(w)
  PROVE  /\ Alone(w) /\ writer'[w].pc = "idle" /\ writer'[w].key = writer[w].key
         /\ writer'[w].base = writer[w].have /\ writer'[w].told = "saved"
<1> DEFINE r == [writer[w] EXCEPT !.pc = "idle", !.told = "saved", !.base = writer[w].have]
<1>1. /\ r \in Writers /\ r.pc = "idle" /\ r.key = writer[w].key
      /\ r.base = writer[w].have /\ r.told = "saved"
  BY Fields DEF Writers
<1>2. writer' = [writer EXCEPT ![w] = r]
  BY DEF Answer
<1> QED BY <1>1, <1>2, Others DEF Alone

\* A save that was refused leaves it with what it had
LEMMA RefuseMoves ==
  ASSUME SidecarTypeOK, NEW w \in Writer, Refuse(w)
  PROVE  /\ Alone(w) /\ writer'[w].pc = "idle" /\ writer'[w].key = writer[w].key
         /\ writer'[w].base = writer[w].base /\ writer'[w].told = "refused"
<1> DEFINE r == [writer[w] EXCEPT !.pc = "idle", !.told = "refused"]
<1>1. /\ r \in Writers /\ r.pc = "idle" /\ r.key = writer[w].key
      /\ r.base = writer[w].base /\ r.told = "refused"
  BY Fields DEF Writers
<1>2. writer' = [writer EXCEPT ![w] = r]
  BY DEF Refuse
<1> QED BY <1>1, <1>2, Others DEF Alone

\* A crash leaves nothing of the writer
LEMMA CrashMoves ==
  ASSUME SidecarTypeOK, NEW w \in Writer, Crash(w)
  PROVE  /\ Alone(w) /\ writer'[w] = NewWriter
BY EmptyIsTyped, Others DEF Crash, Alone

\* Every operation of a writer keeps the invariant
LEMMA WriterKeeps ==
  ASSUME SidecarInv, NEW w \in Writer,
         \/ Load(w) \/ Edit(w) \/ OpenPdf(w) \/ LockPdf(w) \/ CheckPdf(w) \/ Compare(w)
         \/ Recheck(w) \/ WriteTemporary(w) \/ Rename(w) \/ Answer(w) \/ Refuse(w) \/ Crash(w)
  PROVE  SidecarInv'
<1>0. /\ sidecar.set.rev \in Nat /\ sidecar \in Entries /\ There \in 1..Len(files)
      /\ \A x \in Writer : /\ writer[x].file \in Nat /\ writer[x].key \in Version \cup {0}
                          /\ writer[x].base.rev \in Nat /\ writer[x].have.rev \in Nat
                          /\ writer[x].have \in AnnotationSets
  BY Fields DEF SidecarInv, SidecarTypeOK, There
<1> USE SidecarAssumption DEF SidecarInv, SidecarTypeOK, LocksHeld, FilesApart,
      ComparisonStands, RevisionsNameSets, Busy, At, There, Seen, Matches, NoWriter, Locks
<1>1. CASE Load(w)
  <2>1. Alone(w) /\ writer'[w].pc = "idle" /\ writer'[w].base = sidecar.set
    BY <1>1, LoadMoves
  <2>2. SidecarTypeOK'
    BY <1>1, <2>1, <1>0 DEF Load, Alone
  <2>3. LocksHeld'
    BY <1>1, <2>1, <1>0 DEF Load, Alone
  <2>4. FilesApart'
    BY <1>1, <2>1, <1>0 DEF Load, Alone
  <2>5. ComparisonStands'
    BY <1>1, <2>1, <1>0 DEF Load, Alone
  <2>6. RevisionsNameSets'
    BY <1>1, <2>1, <1>0 DEF Load, Alone
  <2> QED BY <2>2, <2>3, <2>4, <2>5, <2>6
<1>2. CASE Edit(w)
  <2>1. Alone(w) /\ writer'[w].pc = "idle" /\ writer'[w].key = writer[w].key
        /\ writer'[w].base = writer[w].base
    BY <1>2, EditMoves
  <2>2. SidecarTypeOK'
    BY <1>2, <2>1, <1>0 DEF Edit, Alone
  <2>3. LocksHeld'
    BY <1>2, <2>1, <1>0 DEF Edit, Alone
  <2>4. FilesApart'
    BY <1>2, <2>1, <1>0 DEF Edit, Alone
  <2>5. ComparisonStands'
    BY <1>2, <2>1, <1>0 DEF Edit, Alone
  <2>6. RevisionsNameSets'
    BY <1>2, <2>1, <1>0 DEF Edit, Alone
  <2> QED BY <2>2, <2>3, <2>4, <2>5, <2>6
<1>3. CASE OpenPdf(w)
  <2>1. Alone(w) /\ writer'[w].pc = "lock" /\ writer'[w].file = There
        /\ writer'[w].key = writer[w].key /\ writer'[w].base = writer[w].base
    BY <1>3, OpenMoves
  <2>2. SidecarTypeOK'
    BY <1>3, <2>1, <1>0 DEF OpenPdf, Alone
  <2>3. LocksHeld'
    BY <1>3, <2>1, <1>0 DEF OpenPdf, Alone
  <2>4. FilesApart'
    BY <1>3, <2>1, <1>0 DEF OpenPdf, Alone
  <2>5. ComparisonStands'
    BY <1>3, <2>1, <1>0 DEF OpenPdf, Alone
  <2>6. RevisionsNameSets'
    BY <1>3, <2>1, <1>0 DEF OpenPdf, Alone
  <2> QED BY <2>2, <2>3, <2>4, <2>5, <2>6
<1>4. CASE LockPdf(w)
  <2>1. Alone(w) /\ writer'[w].pc = "check" /\ writer'[w].file = writer[w].file
        /\ writer'[w].key = writer[w].key /\ writer'[w].base = writer[w].base
        /\ writer'[w].have = writer[w].have
    BY <1>4, GotoMoves DEF LockPdf, Alone
  <2>2. /\ lock' \in Locks /\ Len(lock') = Len(files) /\ lock'[writer[w].file] = w
        /\ \A j \in 1..Len(files) : j # writer[w].file => lock'[j] = lock[j]
    BY <1>4, TakeLock DEF LockPdf
  <2>3. SidecarTypeOK'
    BY <1>4, <2>1, <2>2, <1>0 DEF LockPdf, Alone
  <2>4. LocksHeld'
    BY <1>4, <2>1, <2>2, <1>0 DEF LockPdf, Alone
  <2>5. FilesApart'
    BY <1>4, <2>1, <2>2, <1>0 DEF LockPdf, Alone
  <2>6. ComparisonStands'
    BY <1>4, <2>1, <2>2, <1>0 DEF LockPdf, Alone
  <2>7. RevisionsNameSets'
    BY <1>4, <2>1, <2>2, <1>0 DEF LockPdf, Alone
  <2> QED BY <2>3, <2>4, <2>5, <2>6, <2>7
<1>5. CASE CheckPdf(w)
  <2>1. Alone(w) /\ writer'[w].pc = "compare" /\ writer'[w].file = writer[w].file
        /\ writer'[w].key = writer[w].key /\ writer'[w].base = writer[w].base
        /\ writer'[w].have = writer[w].have
    BY <1>5, GotoMoves DEF CheckPdf, Alone
  <2>2. SidecarTypeOK'
    BY <1>5, <2>1, <1>0 DEF CheckPdf, Alone
  <2>3. LocksHeld'
    BY <1>5, <2>1, <1>0 DEF CheckPdf, Alone
  <2>4. FilesApart'
    BY <1>5, <2>1, <1>0 DEF CheckPdf, Alone
  <2>5. ComparisonStands'
    BY <1>5, <2>1, <1>0 DEF CheckPdf, Alone
  <2>6. RevisionsNameSets'
    BY <1>5, <2>1, <1>0 DEF CheckPdf, Alone
  <2> QED BY <2>2, <2>3, <2>4, <2>5, <2>6
<1>6. CASE Compare(w)
  <2>1. Alone(w) /\ writer'[w].pc = "recheck" /\ writer'[w].file = writer[w].file
        /\ writer'[w].key = writer[w].key /\ writer'[w].base = writer[w].base
        /\ writer'[w].have = writer[w].have
    BY <1>6, GotoMoves DEF Compare, Alone
  <2>2. SidecarTypeOK'
    BY <1>6, <2>1, <1>0 DEF Compare, Alone
  <2>3. LocksHeld'
    BY <1>6, <2>1, <1>0 DEF Compare, Alone
  <2>4. FilesApart'
    BY <1>6, <2>1, <1>0 DEF Compare, Alone
  <2>5. ComparisonStands'
    BY <1>6, <2>1, <1>0 DEF Compare, Alone
  <2>6. RevisionsNameSets'
    BY <1>6, <2>1, <1>0 DEF Compare, Alone
  <2> QED BY <2>2, <2>3, <2>4, <2>5, <2>6
<1>7. CASE Recheck(w)
  <2>1. Alone(w) /\ writer'[w].pc = "write" /\ writer'[w].file = writer[w].file
        /\ writer'[w].key = writer[w].key /\ writer'[w].base = writer[w].base
        /\ writer'[w].have = writer[w].have
    BY <1>7, GotoMoves DEF Recheck, Alone
  <2>2. SidecarTypeOK'
    BY <1>7, <2>1, <1>0 DEF Recheck, Unchanged, Alone
  <2>3. LocksHeld'
    BY <1>7, <2>1, <1>0 DEF Recheck, Unchanged, Alone
  <2>4. FilesApart'
    BY <1>7, <2>1, <1>0 DEF Recheck, Unchanged, Alone
  <2>5. ComparisonStands'
    BY <1>7, <2>1, <1>0 DEF Recheck, Unchanged, Alone
  <2>6. RevisionsNameSets'
    BY <1>7, <2>1, <1>0 DEF Recheck, Unchanged, Alone
  <2> QED BY <2>2, <2>3, <2>4, <2>5, <2>6
<1>8. CASE WriteTemporary(w)
  <2>1. Alone(w) /\ writer'[w].pc = "rename" /\ writer'[w].file = writer[w].file
        /\ writer'[w].key = writer[w].key /\ writer'[w].base = writer[w].base
        /\ writer'[w].have = writer[w].have
    BY <1>8, GotoMoves DEF WriteTemporary, Alone
  <2>2. SidecarTypeOK'
    BY <1>8, <2>1, <1>0 DEF WriteTemporary, Alone
  <2>3. LocksHeld'
    BY <1>8, <2>1, <1>0 DEF WriteTemporary, Alone
  <2>4. FilesApart'
    BY <1>8, <2>1, <1>0 DEF WriteTemporary, Alone
  <2>5. ComparisonStands'
    BY <1>8, <2>1, <1>0 DEF WriteTemporary, Alone
  <2>6. RevisionsNameSets'
    BY <1>8, <2>1, <1>0 DEF WriteTemporary, Alone
  <2> QED BY <2>2, <2>3, <2>4, <2>5, <2>6
<1>9. CASE Rename(w)
  <2>1. Alone(w) /\ writer'[w].pc = "sync" /\ writer'[w].file = writer[w].file
        /\ writer'[w].key = writer[w].key /\ writer'[w].base = writer[w].base
        /\ writer'[w].have = writer[w].have
    BY <1>9, GotoMoves DEF Rename, Alone
  <2>2. SidecarTypeOK'
    BY <1>9, <2>1, <1>0 DEF Rename, Entries, Alone
  <2>3. LocksHeld'
    BY <1>9, <2>1, <1>0 DEF Rename, Entries, Alone
  <2>4. FilesApart'
    BY <1>9, <2>1, <1>0 DEF Rename, Entries, Alone
  <2>5. ComparisonStands'
    BY <1>9, <2>1, <1>0 DEF Rename, Entries, Alone
  <2>6. RevisionsNameSets'
    BY <1>9, <2>1, <1>0 DEF Rename, Entries, Alone
  <2> QED BY <2>2, <2>3, <2>4, <2>5, <2>6
<1>10. CASE Answer(w)
  <2>1. Alone(w) /\ writer'[w].pc = "idle" /\ writer'[w].key = writer[w].key
        /\ writer'[w].base = writer[w].have
    BY <1>10, AnswerMoves
  <2>2. /\ lock' \in Locks /\ Len(lock') = Len(files)
        /\ \A j \in 1..Len(files) : lock[j] # w => lock'[j] = lock[j]
    BY <1>10, DropLock DEF Answer
  <2>3. SidecarTypeOK'
    BY <1>10, <2>1, <2>2, <1>0 DEF Answer, Alone
  <2>4. LocksHeld'
    BY <1>10, <2>1, <2>2, <1>0 DEF Answer, Alone
  <2>5. FilesApart'
    BY <1>10, <2>1, <2>2, <1>0 DEF Answer, Alone
  <2>6. ComparisonStands'
    BY <1>10, <2>1, <2>2, <1>0 DEF Answer, Alone
  <2>7. RevisionsNameSets'
    BY <1>10, <2>1, <2>2, <1>0 DEF Answer, Alone
  <2> QED BY <2>3, <2>4, <2>5, <2>6, <2>7
<1>11. CASE Refuse(w)
  <2>1. Alone(w) /\ writer'[w].pc = "idle" /\ writer'[w].key = writer[w].key
        /\ writer'[w].base = writer[w].base
    BY <1>11, RefuseMoves
  <2>2. /\ lock' \in Locks /\ Len(lock') = Len(files)
        /\ \A j \in 1..Len(files) : lock[j] # w => lock'[j] = lock[j]
    BY <1>11, DropLock DEF Refuse
  <2>3. SidecarTypeOK'
    BY <1>11, <2>1, <2>2, <1>0 DEF Refuse, Alone
  <2>4. LocksHeld'
    BY <1>11, <2>1, <2>2, <1>0 DEF Refuse, Alone
  <2>5. FilesApart'
    BY <1>11, <2>1, <2>2, <1>0 DEF Refuse, Alone
  <2>6. ComparisonStands'
    BY <1>11, <2>1, <2>2, <1>0 DEF Refuse, Alone
  <2>7. RevisionsNameSets'
    BY <1>11, <2>1, <2>2, <1>0 DEF Refuse, Alone
  <2> QED BY <2>3, <2>4, <2>5, <2>6, <2>7
<1>12. CASE Crash(w)
  <2>1. Alone(w) /\ writer'[w] = NewWriter
    BY <1>12, CrashMoves
  <2>2. /\ lock' \in Locks /\ Len(lock') = Len(files)
        /\ \A j \in 1..Len(files) : lock[j] # w => lock'[j] = lock[j]
    BY <1>12, DropLock DEF Crash
  <2>3. SidecarTypeOK'
    BY <1>12, <2>1, <2>2, <1>0 DEF Crash, NewWriter, Alone
  <2>4. LocksHeld'
    BY <1>12, <2>1, <2>2, <1>0 DEF Crash, NewWriter, Alone
  <2>5. FilesApart'
    BY <1>12, <2>1, <2>2, <1>0 DEF Crash, NewWriter, Alone
  <2>6. ComparisonStands'
    BY <1>12, <2>1, <2>2, <1>0 DEF Crash, NewWriter, Alone
  <2>7. RevisionsNameSets'
    BY <1>12, <2>1, <2>2, <1>0 DEF Crash, NewWriter, Alone
  <2> QED BY <2>3, <2>4, <2>5, <2>6, <2>7
<1> QED BY <1>1, <1>2, <1>3, <1>4, <1>5, <1>6, <1>7, <1>8, <1>9, <1>10, <1>11, <1>12

\* So do the failures of the machine and the changes of the PDF that are noticed
LEMMA EnvironmentKeeps ==
  ASSUME Swaps = {}, SidecarInv,
         PowerFailure \/ Flush \/ EditPdf \/ ReplacePdf \/ UNCHANGED sidecarVars
  PROVE  SidecarInv'
<1>0. There \in 1..Len(files) /\ \A x \in Writer : writer[x].file \in Nat
  <2>1. There \in 1..Len(files)
    BY DEF SidecarInv, SidecarTypeOK, There
  <2> QED BY <2>1, Fields DEF SidecarInv
<1>6. Len(files) \in Nat /\ \A w \in Busy : writer[w].file \in 1..Len(files)
  BY DEF SidecarInv, SidecarTypeOK
<1> USE SidecarAssumption DEF SidecarInv, SidecarTypeOK, LocksHeld, FilesApart,
      ComparisonStands, RevisionsNameSets, Busy, At, There, Seen, Matches, NoWriter, Locks
<1>1. CASE PowerFailure
  <2>1. lock' \in Locks /\ Len(lock') = Len(files)
    <3>1. DOMAIN lock = 1..Len(files) /\ Len(files) \in Nat
      OBVIOUS
    <3>2. lock' = [i \in 1..Len(files) |-> NoWriter]
      BY <1>1, <3>1 DEF PowerFailure
    <3> QED BY <3>1, <3>2
  <2>2. writer' \in [Writer -> Writers] /\ \A x \in Writer : writer'[x] = NewWriter
    BY <1>1, EmptyIsTyped DEF PowerFailure
  <2>3. Busy' = {}
    <3>1. \A x \in Writer : writer'[x].pc = "idle"
      BY <2>2 DEF NewWriter
    <3> QED BY <3>1
  <2>4. SidecarTypeOK'
    BY <1>1, <2>1, <2>2, <2>3 DEF PowerFailure
  <2>5. (LocksHeld /\ FilesApart /\ ComparisonStands /\ RevisionsNameSets)'
    BY <2>2, <2>3 DEF NewWriter
  <2> QED BY <2>4, <2>5
<1>2. CASE Flush
  BY <1>2 DEF Flush
<1>3. CASE EditPdf
  <2>1. PICK v \in Version :
          /\ files' = [files EXCEPT ![There] = v]
          /\ \A w \in Busy : writer[w].file # There => files[writer[w].file] # v
    BY <1>3 DEF EditPdf
  <2>2. /\ files' \in Seq(Version) /\ files' # <<>> /\ Len(files') = Len(files)
        /\ files'[There] = v
        /\ \A i \in 1..Len(files) : i # There => files'[i] = files[i]
    BY <2>1, EditedFile
  <2>3. UNCHANGED <<lock, sidecar, durable, writer>>
    BY <1>3 DEF EditPdf
  <2> QED BY <1>0, <2>1, <2>2, <2>3
<1>4. CASE ReplacePdf
  <2>1. PICK v \in Version :
          /\ files' = Append(files, v)
          /\ \A w \in Busy : files[writer[w].file] # v
    BY <1>4 DEF ReplacePdf
  <2>2. /\ files' \in Seq(Version) /\ files' # <<>> /\ Len(files') = Len(files) + 1
        /\ files'[Len(files) + 1] = v
        /\ lock' \in Locks /\ Len(lock') = Len(files')
        /\ \A i \in 1..Len(files) : files'[i] = files[i] /\ lock'[i] = lock[i]
    BY <1>4, <2>1, ReplacedFile DEF ReplacePdf
  <2>3. UNCHANGED <<sidecar, durable, writer>>
    BY <1>4 DEF ReplacePdf
  <2>4. \A w \in Busy : writer[w].pc \notin {"write", "rename"}
    BY <1>4 DEF ReplacePdf
  <2>5. \A w \in Busy : writer[w].file \in 1..Len(files) /\ writer[w].file # Len(files')
    BY <1>6, <2>2
  <2>6. SidecarTypeOK'
    BY <1>0, <2>2, <2>3
  <2>7. LocksHeld'
    BY <2>2, <2>3, <2>5
  <2>8. FilesApart'
    BY <2>1, <2>2, <2>3, <2>5
  <2>9. ComparisonStands' /\ RevisionsNameSets'
    BY <2>2, <2>3, <2>4, <2>5
  <2> QED BY <2>6, <2>7, <2>8, <2>9
<1>5. CASE UNCHANGED sidecarVars
  BY <1>5 DEF sidecarVars
<1> QED BY <1>1, <1>2, <1>3, <1>4, <1>5

\* The invariant holds at the beginning
LEMMA InvInit == SidecarInit => SidecarInv
<1> SUFFICES ASSUME SidecarInit PROVE SidecarInv
  OBVIOUS
<1>1. \A w \in Writer : writer[w] = NewWriter
  BY DEF SidecarInit
<1>2. Busy = {}
  BY <1>1 DEF Busy, At, NewWriter
<1>3. SidecarTypeOK
  BY <1>2, EmptyIsTyped, SidecarAssumption DEF SidecarInit, SidecarTypeOK
<1> QED BY <1>1, <1>2, <1>3
        DEF SidecarInv, LocksHeld, FilesApart, ComparisonStands, RevisionsNameSets, NewWriter

\* Every step keeps it
LEMMA InvNext ==
  Swaps = {} /\ SidecarInv /\ [SidecarNext]_sidecarVars => SidecarInv'
BY WriterKeeps, EnvironmentKeeps DEF SidecarNext

-----------------------------------------------------------------------------
(* The refinement *)

\* Only Rename, Load and the answers are seen from outside.
LEMMA StepRefines ==
  ASSUME Swaps = {}, SidecarInv, SidecarNext
  PROVE  Promised!Next \/ UNCHANGED <<sidecar, durable, Seen, Answered>>
<1>0. ASSUME NEW w \in Writer, Alone(w)
      PROVE  /\ Seen' = [Seen EXCEPT ![w] = IF writer'[w].pc = "sync" THEN writer'[w].have
                                            ELSE writer'[w].base]
             /\ Answered' = [Answered EXCEPT ![w] = IF writer'[w].pc = "sync" THEN "saved"
                                                    ELSE writer'[w].told]
  BY <1>0 DEF Alone, Seen, Answered, At
<1>1. ASSUME NEW w \in Writer, Load(w) PROVE Promised!Next
  <2>1. Seen' = [Seen EXCEPT ![w] = sidecar.set] /\ Answered' = [Answered EXCEPT ![w] = "none"]
    BY <1>0, <1>1, LoadMoves DEF SidecarInv
  <2>2. Promised!Load(w)
    BY <1>1, <2>1 DEF Load, Promised!Load
  <2> QED BY <2>2 DEF Promised!Next
<1>2. ASSUME NEW w \in Writer, Edit(w)
      PROVE  UNCHANGED <<sidecar, durable, Seen, Answered>>
  <2>1. /\ Alone(w) /\ writer'[w].pc = "idle" /\ writer[w].pc = "idle"
        /\ writer'[w].base = writer[w].base /\ writer'[w].told = writer[w].told
    BY <1>2, EditMoves DEF SidecarInv, Edit, At
  <2>2. \A x \in Writer : Seen[x]' = Seen[x] /\ Answered[x]' = Answered[x]
    BY <2>1 DEF Seen, Answered, At, Alone
  <2> QED BY <1>2, <2>2 DEF Edit, Seen, Answered
<1>3. ASSUME NEW w \in Writer, OpenPdf(w) PROVE Promised!Next
  <2>1. /\ Alone(w) /\ writer'[w].pc = "lock" /\ writer[w].pc = "idle"
        /\ writer'[w].base = writer[w].base /\ writer'[w].told = "none"
    BY <1>3, OpenMoves DEF SidecarInv, OpenPdf, At
  <2>2. Seen' = Seen
    BY <2>1 DEF Seen, At, Alone
  <2>3. Answered' = [Answered EXCEPT ![w] = "none"]
    BY <1>0, <2>1
  <2>4. Promised!Call(w)
    BY <1>3, <2>2, <2>3 DEF OpenPdf, Promised!Call
  <2> QED BY <2>4 DEF Promised!Next
<1>4. ASSUME NEW w \in Writer, NEW pc \in {"check", "compare", "recheck", "write", "rename"},
             Goto(w, pc), writer[w].pc \in {"lock", "check", "compare", "recheck", "write"}
      PROVE  UNCHANGED <<Seen, Answered>>
  <2>1. /\ Alone(w) /\ writer'[w].pc = pc /\ writer'[w].base = writer[w].base
        /\ writer'[w].told = writer[w].told
    BY <1>4, GotoMoves DEF SidecarInv, Alone
  <2> QED BY <1>4, <2>1 DEF Seen, Answered, At, Alone
<1>5. ASSUME NEW w \in Writer,
             LockPdf(w) \/ CheckPdf(w) \/ Compare(w) \/ Recheck(w) \/ WriteTemporary(w)
      PROVE  UNCHANGED <<sidecar, durable, Seen, Answered>>
  BY <1>4, <1>5 DEF LockPdf, CheckPdf, Compare, Recheck, WriteTemporary, At
<1>6. ASSUME NEW w \in Writer, Rename(w) PROVE Promised!Next
  <2>1. /\ Alone(w) /\ writer'[w].pc = "sync" /\ writer'[w].have = writer[w].have
    BY <1>6, GotoMoves DEF SidecarInv, Rename, Alone
  <2>2. /\ Seen' = [Seen EXCEPT ![w] = writer[w].have]
        /\ Answered' = [Answered EXCEPT ![w] = "saved"]
    BY <1>0, <2>1
  <2>3. writer[w].key \in Version /\ Matches(w) /\ writer[w].pc = "rename"
    BY <1>6 DEF SidecarInv, SidecarTypeOK, ComparisonStands, Busy, Rename, At
  <2>4. Seen[w] = writer[w].base
    BY <2>3 DEF Seen, At
  <2>5. sidecar.set = Seen[w]
    BY <2>3, <2>4, SidecarAssumption DEF SidecarInv, RevisionsNameSets, Matches, NoSidecar
  <2>6. Promised!Save(w, writer[w].key, writer[w].have)
    BY <1>6, <2>2, <2>3, <2>5
       DEF Rename, Matches, Promised!Save, NoSidecar, Empty, Promised!NoEntry, Promised!Nothing
  <2>7. writer[w].have \in AnnotationSets
    BY Fields DEF SidecarInv
  <2> QED BY <2>3, <2>6, <2>7 DEF Promised!Next
<1>7. ASSUME NEW w \in Writer, Answer(w)
      PROVE  Promised!Next \/ UNCHANGED <<sidecar, durable, Seen, Answered>>
  <2>1. /\ Alone(w) /\ writer'[w].pc = "idle" /\ writer[w].pc = "sync"
        /\ writer'[w].base = writer[w].have /\ writer'[w].told = "saved"
    BY <1>7, AnswerMoves DEF SidecarInv, Answer, At
  <2>2. UNCHANGED <<Seen, Answered>>
    BY <2>1 DEF Seen, Answered, At, Alone
  <2>3. sidecar' = sidecar /\ durable' \in {durable, sidecar}
    BY <1>7 DEF Answer
  <2>4. CASE durable' = sidecar
    BY <2>2, <2>3, <2>4 DEF Promised!Next, Promised!Settle
  <2> QED BY <2>2, <2>3, <2>4
<1>8. ASSUME NEW w \in Writer, Refuse(w) PROVE Promised!Next
  <2>1. /\ Alone(w) /\ writer'[w].pc = "idle" /\ writer[w].pc # "sync"
        /\ writer'[w].base = writer[w].base /\ writer'[w].told = "refused"
    BY <1>8, RefuseMoves DEF SidecarInv, Refuse
  <2>2. Seen' = Seen
    BY <2>1 DEF Seen, At, Alone
  <2>3. Answered' = [Answered EXCEPT ![w] = "refused"]
    BY <1>0, <2>1
  <2>4. Promised!Refuse(w)
    BY <1>8, <2>2, <2>3 DEF Refuse, Promised!Refuse
  <2> QED BY <2>4 DEF Promised!Next
<1>9. ASSUME NEW w \in Writer, Crash(w) PROVE Promised!Next
  <2>1. Alone(w) /\ writer'[w] = NewWriter
    BY <1>9, CrashMoves DEF SidecarInv
  <2>2. /\ Seen' = [Seen EXCEPT ![w] = Empty]
        /\ Answered' = [Answered EXCEPT ![w] = "none"]
    BY <1>0, <2>1 DEF NewWriter
  <2>3. Promised!Leave(w)
    BY <1>9, <2>2 DEF Crash, Promised!Leave, Promised!Nothing, Empty
  <2> QED BY <2>3 DEF Promised!Next
<1>10. ASSUME PowerFailure PROVE Promised!Next
  <2>1. \A w \in Writer : writer'[w] = NewWriter
    BY <1>10 DEF PowerFailure
  <2>2. /\ Seen' = [w \in Writer |-> Empty]
        /\ Answered' = [w \in Writer |-> "none"]
    BY <2>1 DEF Seen, Answered, At, NewWriter
  <2>3. Promised!Fail
    BY <1>10, <2>2 DEF PowerFailure, Promised!Fail, Promised!Nothing, Empty
  <2> QED BY <2>3 DEF Promised!Next
<1>11. ASSUME Flush PROVE Promised!Next
  BY <1>11 DEF Flush, Promised!Next, Promised!Settle, Seen, Answered, At
<1>12. ASSUME EditPdf \/ ReplacePdf
       PROVE  UNCHANGED <<sidecar, durable, Seen, Answered>>
  BY <1>12 DEF EditPdf, ReplacePdf, Seen, Answered, At
<1> QED BY <1>1, <1>2, <1>3, <1>5, <1>6, <1>7, <1>8, <1>9, <1>10, <1>11, <1>12 DEF SidecarNext

\* The initial states are initial states of the store in memory
LEMMA InitRefines == SidecarInit => Promised!Init
BY DEF SidecarInit, Promised!Init, Promised!NoEntry, Promised!Nothing, NoSidecar, Empty, Seen,
       Answered, At, NewWriter

(* JsonSidecarStore keeps the promise of the store in memory, for any number of   *)
(* writers, failures and changes of the PDF: a save is one step, and replaces      *)
(* only a set its caller has seen (SavesAreAtomic).  The hypothesis excludes        *)
(* the two changes of the PDF that the locks and checks do not see.                *)
THEOREM StoreRefines == Swaps = {} => (SidecarSpec => SavesAreAtomic)
<1> SUFFICES ASSUME Swaps = {} PROVE SidecarSpec => SavesAreAtomic
  OBVIOUS
<1>1. SidecarInv /\ [SidecarNext]_sidecarVars => SidecarInv'
  BY InvNext
<1>2. SidecarSpec => []SidecarInv
  BY <1>1, InvInit, PTL DEF SidecarSpec
<1>3. SidecarInv /\ [SidecarNext]_sidecarVars
        => [Promised!Next]_<<sidecar, durable, Seen, Answered>>
  <2>1. ASSUME UNCHANGED sidecarVars PROVE UNCHANGED <<sidecar, durable, Seen, Answered>>
    BY <2>1 DEF sidecarVars, Seen, Answered, At
  <2> QED BY <2>1, StepRefines
<1> QED BY <1>2, <1>3, InitRefines, PTL DEF SidecarSpec, SavesAreAtomic, Promised!Spec
=============================================================================

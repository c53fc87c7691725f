--------------------------- MODULE AnnotationStore ---------------------------
(***************************************************************************)
(* What a store of annotations promises its callers (the trait                *)
(* AnnotationStore, as MemoryAnnotationStore keeps it under one mutex,         *)
(* crates/key-sidecar-store/src/memory.rs): for the document at one path there   *)
(* is one entry, and compare_and_save replaces it in one step, only from the      *)
(* revision the caller has seen and only for the same revision of the PDF.       *)
(* A machine that fails may lose entries that had not reached the disk.          *)
(***************************************************************************)
EXTENDS Naturals

CONSTANTS
  Writer,     \* callers
  Version,    \* the PDFs the path can hold, as their identity
  Annotations \* annotation sets: [rev, marks]

VARIABLES
  entry,      \* [doc, set], or NoEntry
  settled,    \* the entry a failure of the machine brings back
  seen,       \* seen[w]: the annotations w has loaded or saved last
  told        \* told[w]: the answer to w's last call, "none" while it runs

Nothing == [rev |-> 0, marks |-> {}]
NoEntry == [doc |-> 0, set |-> Nothing]

Init ==
  /\ entry = NoEntry
  /\ settled = NoEntry
  /\ seen = [w \in Writer |-> Nothing]
  /\ told = [w \in Writer |-> "none"]

Load(w) ==
  /\ seen' = [seen EXCEPT ![w] = entry.set]
  /\ told' = [told EXCEPT ![w] = "none"]
  /\ UNCHANGED <<entry, settled>>

Call(w) == told' = [told EXCEPT ![w] = "none"] /\ UNCHANGED <<entry, settled, seen>>

\* compare_and_save: the caller names what it has seen by its revision, and a
\* revision is one set of annotations
Save(w, doc, set) ==
  /\ entry = NoEntry \/ entry.doc = doc
  /\ entry.set = seen[w]
  /\ set.rev >= entry.set.rev
  /\ set.rev = entry.set.rev => set = entry.set
  /\ entry' = [doc |-> doc, set |-> set]
  /\ seen' = [seen EXCEPT ![w] = set]
  /\ told' = [told EXCEPT ![w] = "saved"]
  /\ UNCHANGED settled

Refuse(w) == told' = [told EXCEPT ![w] = "refused"] /\ UNCHANGED <<entry, settled, seen>>

\* A caller ends and forgets what it has seen.
Leave(w) ==
  /\ seen' = [seen EXCEPT ![w] = Nothing]
  /\ told' = [told EXCEPT ![w] = "none"]
  /\ UNCHANGED <<entry, settled>>

Settle == settled' = entry /\ UNCHANGED <<entry, seen, told>>

Fail ==
  /\ entry' = settled
  /\ seen' = [w \in Writer |-> Nothing]
  /\ told' = [w \in Writer |-> "none"]
  /\ UNCHANGED settled

Next ==
  \/ \E w \in Writer :
       \/ Load(w) \/ Call(w) \/ Refuse(w) \/ Leave(w)
       \/ \E doc \in Version, set \in Annotations : Save(w, doc, set)
  \/ Settle \/ Fail

Spec == Init /\ [][Next]_<<entry, settled, seen, told>>
=============================================================================

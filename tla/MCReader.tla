------------------------------- MODULE MCReader -------------------------------
(* A reader: its annotations and the switch of documents, or what it shows; a
   behaviour is about one of the two, which share the generation of the document
   and nothing else. *)
EXTENDS AnnotationSession, ReaderView

VARIABLE focus   \* the part this behaviour is about

-----------------------------------------------------------------------------
(* Two pages, two zooms, a link each way and one to the web *)

SpanOf == [spot \in {0, 1} |-> [visible |-> {spot}, near |-> {1 - spot}]]
LinkTable ==
  [l \in {"in", "cite", "web"} |->
     CASE l = "in" -> [external |-> FALSE, source |-> 0, target |-> 1, cites |-> FALSE]
       [] l = "cite" -> [external |-> FALSE, source |-> 1, target |-> 0, cites |-> TRUE]
       [] l = "web" -> [external |-> TRUE, source |-> 0, target |-> 0, cites |-> FALSE]]
Found == [q \in {"x", "y"} |-> IF q = "x" THEN {0, 1} ELSE {1}]

Interactive == Allocation("ForegroundInteractive", TRUE, 2, 2)
Beside == Allocation("ForegroundVisible", TRUE, 1, 1)
Warm == Allocation("BackgroundWarm", FALSE, 1, 1)
Cold == Allocation("BackgroundCold", FALSE, 0, 0)
Parked == Allocation("Suspended", FALSE, 0, 0)

Habit(kinds, calls, outcomes, allocations) ==
  [kinds |-> kinds, calls |-> calls, outcomes |-> outcomes, allocations |-> allocations]

\* What the user does in a behaviour
Habits ==
  {Habit({"open", "scroll", "zoom", "theme"}, 3, {"good"}, {}),
   Habit({"open", "allocate", "theme"}, 3, {"good"},
         {Interactive, Beside, Warm, Cold, Parked}),
   Habit({"open", "copy", "allocate"}, 3, {"good"}, {Interactive, Parked}),
   Habit({"open", "copy", "link", "entry"}, 3, {"good"}, {}),
   Habit({"open", "point", "theme"}, 3, {"good"}, {}),
   Habit({"open", "query", "match"}, 3, {"good"}, {}),
   Habit({"open", "query", "allocate"}, 3, {"good"}, {Parked}),
   Habit({"open", "scroll", "link", "copy", "end"}, 2,
         {"good", "failed", "invalid"}, {})}

-----------------------------------------------------------------------------
MCInit ==
  /\ SessionInit
  /\ ViewInit
  /\ focus \in {"annotations", "view"}
  /\ focus = "annotations" => habits = CHOOSE h \in ReadingUses : TRUE

MCNext ==
  \/ focus = "annotations" /\ SessionNext /\ UNCHANGED <<viewVars, focus>>
  \/ focus = "view" /\ ViewNext /\ UNCHANGED <<sessionVars, focus>>

MCFairness ==
  /\ WF_sessionVars(focus = "annotations" /\ ActorStep /\ UNCHANGED readerVars)
  /\ \A c \in Steady : WF_sessionVars(focus = "annotations" /\ ReceiveStep(c))

MCSpec == MCInit /\ [][MCNext]_<<sessionVars, viewVars, focus>> /\ MCFairness
=============================================================================

---------------------------- MODULE MCApplication ----------------------------
(* The parts of the application that meet only through their callers, on small
   instances: a behaviour is a behaviour of one of them, the others stay in an
   initial state.  One run then covers the workspace, the resource allocator, the
   extension host, the package manager, the reference executor and the capability
   bridge; and the engine supervisor with a full table
   of pending work. *)
EXTENDS MCEngineSupervisor, Workspace, ExtensionHost, PackageManager, ReferenceExecutor, CapabilityBridge

VARIABLE focus   \* the part this behaviour is about

Parts == {"workspace", "allocator", "host", "packages", "executor", "bridge",
          "supervisor"}

-----------------------------------------------------------------------------
(* Workspace *)

Opening(paths, separate, opens, views, tabs, drafts) ==
  [paths |-> paths, separate |-> separate, opens |-> opens, views |-> views,
   tabs |-> tabs, drafts |-> drafts]

\* An empty window; two documents in tabs, one named twice; three tabs; two windows,
\* with a draft; two windows, the first document named again
Commands ==
  {Opening(<<NoFile>>, FALSE, {"a", "b"}, 3, 3, 0),
   Opening(<<"a", "b", "a">>, FALSE, {"b"}, 3, 4, 1),
   Opening(<<"a", "b", "c">>, FALSE, {}, 3, 3, 1),
   Opening(<<"a", "b">>, TRUE, {}, 3, 3, 1),
   Opening(<<"a", "b", "a">>, TRUE, {}, 3, 3, 0)}

Laptop == [lowPower |-> FALSE, memory |-> 16 * GiB, cpus |-> 8]

-----------------------------------------------------------------------------
(* Resource allocator: every crowd of up to three *)

Asking ==
  [activity : {"Suspended", "BackgroundWarm", "ForegroundInteractive"}, minimum : 0..1,
   target : {0, 3}, weight : {1}, suspendable : BOOLEAN]

SmallCrowds == UNION {[1..n -> Asking] : n \in 1..2}
                 \cup [1..3 -> {a \in Asking : a.suspendable /\ a.target = 3}]

-----------------------------------------------------------------------------
(* Extension host *)

\* A chain of providers: u needs what p provides, w needs what u provides
Chain == <<"p", "u", "w">>

Manifests ==
  [e \in {"p", "u", "w"} |->
     CASE e = "p" -> [requires |-> {}, optional |-> {}, provides |-> {"text"},
                      needs |-> {}, bundled |-> TRUE, deferred |-> FALSE]
       [] e = "u" -> [requires |-> {"text"}, optional |-> {}, provides |-> {"links"},
                      needs |-> {"p"}, bundled |-> FALSE, deferred |-> FALSE]
       [] e = "w" -> [requires |-> {"links"}, optional |-> {"theme"}, provides |-> {},
                      needs |-> {}, bundled |-> FALSE, deferred |-> TRUE]]

Says(effects) == [error |-> FALSE, effects |-> effects]
Fails == [error |-> TRUE, effects |-> <<>>]

Scenario(n, kinds, answers, most) ==
  [calls |-> n, kinds |-> kinds, answers |-> answers, ticks |-> most,
   start |-> {"p", "u", "w"}]

\* What the user does in a behaviour, how extensions answer, and the number of
\* ticks one call may set off at most
HostRuns ==
  {Scenario(3, {"install", "activate", "suspend", "resume", "unload", "remove",
                "safe", "offer"}, {Silent, Fails}, 7),
   Scenario(1, {"command"}, {Silent, Fails, Says(<<"note", "note">>),
            Says(<<"call", "bad">>), Says(<<"note", "note", "note">>)}, 11),
   Scenario(2, {"snapshot", "document", "permission"}, {Silent, Says(<<"note">>)}, 13),
   Scenario(3, {"command", "unload"}, {Silent, Says(<<"note">>)}, 11)}

-----------------------------------------------------------------------------
(* Package manager: the second content asks for more *)

Needs == [c \in {1, 2} |-> IF c = 1 THEN {} ELSE {"net"}]
May == [c \in {1, 2} |-> IF c = 1 THEN {"net"} ELSE {"files"}]

-----------------------------------------------------------------------------
(* Reference executor *)

Reading(opens, a, b, closes, answers) ==
  [opens |-> [d \in Docs |-> IF d = "a" THEN opens ELSE IF b = {} THEN 0 ELSE 1],
   mentions |-> [d \in Docs |-> IF d = "a" THEN a ELSE b],
   closes |-> closes, answers |-> answers]

\* A change of document with the lookups of two readers; readers that close; one
\* document with more files than fit; more lookups than the queue takes
ReadingPlans ==
  {Reading(2, {"w1"}, {"w1"}, FALSE, {"failed", "image"}),
   Reading(1, {"p"}, {"w1"}, TRUE, {"ready", "panic"}),
   Reading(1, {"w1", "w2"}, {}, FALSE, {"failed", "ready", "image"}),
   Reading(1, {"p", "w1"}, {"p"}, FALSE, {"ready"})}

-----------------------------------------------------------------------------
(* Capability bridge: an outline with an entry without a title and one beyond the
   limit, a link out of the document; and a document that cannot be described *)

Entry(title, page) == [title |-> title, page |-> page]
Link(page, target) == [page |-> page, target |-> target]

Pdfs == [f \in {"a", "c"} |->
  IF f = "a"
  THEN [pages |-> 2, outline |-> <<Entry("One", 1), Entry("", 2), Entry("Two", 2)>>,
        links |-> <<Link(1, 2), Link(2, 3)>>, found |-> <<{"One"}, {}>>, sound |-> TRUE]
  ELSE [pages |-> 1, outline |-> <<>>, links |-> <<>>, found |-> <<{}>>, sound |-> FALSE]]

BothPages == {[first |-> 1, last |-> 2]}

-----------------------------------------------------------------------------
(* One at a time *)

Still(part) ==
  CASE part = "workspace" -> WorkInit /\ todo = CHOOSE c \in Startups : TRUE
    [] part = "allocator" -> division = [budget |-> 0, crowd |-> <<>>, shares |-> <<>>]
    [] part = "host" -> HostInit /\ uses = CHOOSE u \in HostUses : TRUE
    [] part = "packages" -> PkgInit
    [] part = "executor" -> ExecInit /\ plan = CHOOSE p \in Plans : TRUE
    [] part = "bridge" -> BridgeInit
    [] part = "supervisor" -> Init

Begin(part) ==
  CASE part = "workspace" -> WorkInit
    [] part = "allocator" -> AllocInit
    [] part = "host" -> HostInit
    [] part = "packages" -> PkgInit
    [] part = "executor" -> ExecInit
    [] part = "bridge" -> BridgeInit
    [] part = "supervisor" -> Init

AppInit == /\ focus \in Parts
           /\ Begin(focus)
           /\ \A part \in Parts \ {focus} : Still(part)

AppNext ==
  \/ /\ focus = "workspace" /\ WorkNext
     /\ UNCHANGED <<focus, division, hostVars, pkgVars, execVars, bridgeVars,
                    vars>>
  \/ /\ focus = "allocator" /\ Divide
     /\ UNCHANGED <<focus, workVars, hostVars, pkgVars, execVars, bridgeVars,
                    vars>>
  \/ /\ focus = "host" /\ HostNext
     /\ UNCHANGED <<focus, workVars, division, pkgVars, execVars, bridgeVars,
                    vars>>
  \/ /\ focus = "packages" /\ PkgNext
     /\ UNCHANGED <<focus, workVars, division, hostVars, execVars, bridgeVars,
                    vars>>
  \/ /\ focus = "executor" /\ ExecNext
     /\ UNCHANGED <<focus, workVars, division, hostVars, pkgVars, bridgeVars,
                    vars>>
  \/ /\ focus = "supervisor" /\ Next
     /\ UNCHANGED <<focus, workVars, division, hostVars, pkgVars, execVars,
                    bridgeVars>>
  \/ /\ focus = "bridge" /\ BridgeNext
     /\ UNCHANGED <<focus, workVars, division, hostVars, pkgVars, execVars, vars>>

appVars == <<focus, workVars, division, hostVars, pkgVars, execVars,
             bridgeVars, vars>>

AppFairness ==
  WF_execVars(focus = "executor" /\ Machine)

AppSpec == AppInit /\ [][AppNext]_appVars /\ AppFairness
=============================================================================

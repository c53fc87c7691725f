------------------------- MODULE MCDocumentAdapter --------------------------
(* Instances of DocumentAdapter: each behaviour uses the calls of one        *)
(* scenario.                                                                 *)
EXTENDS DocumentAdapter

Use(calls, opens, limit, pages) ==
  [calls |-> calls, opens |-> opens, limit |-> limit, pages |-> pages, fresh |-> FALSE]
Starting(calls, opens, limit) == [Use(calls, opens, limit, 1) EXCEPT !.fresh = TRUE]
Uses ==
  {Use({"search", "cancelsearch"}, 1, 2, 2), Use({"search", "cancelsearch"}, 2, 2, 1),
   Use({"search", "cancelsearch", "background"}, 1, 2, 1),
   Use({"hibernate", "resume"}, 1, 4, 1), Use({"hibernate", "background"}, 1, 2, 2),
   Use({"viewport", "blank"}, 1, 1, 1),
   Use({"preview", "copy"}, 2, 1, 1), Use({"preview", "copy", "ensure"}, 1, 2, 1),
   Use({"ensure"}, 1, 1, 2), Use({"ensure", "cancelcopy"}, 1, 2, 1),
   Starting({"preview", "drop"}, 1, 1)}
OpenOnly == {Starting({}, 2, 0)}
=============================================================================

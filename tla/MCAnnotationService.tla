------------------------ MODULE MCAnnotationService -------------------------
(* Instances of AnnotationService.                                          *)
EXTENDS AnnotationService

LoadCall(g, p) == [op |-> "load", gen |-> g, path |-> p]
SaveCall(g, p, r) == [op |-> "save", gen |-> g, path |-> p, expected |-> 0,
                      snap |-> [revision |-> r, marks |-> {}]]

\* A load, two revisions to save, and a save of an older generation.
SafetyCalls ==
  LET p == CHOOSE p \in Path : TRUE
  IN {LoadCall(2, p), SaveCall(2, p, 1), SaveCall(1, p, 1)}
SaveCalls == LET p == CHOOSE p \in Path : TRUE IN {SaveCall(1, p, 1)}
=============================================================================

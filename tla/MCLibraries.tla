----------------------------- MODULE MCLibraries ------------------------------
(* Libraries that know nothing of each other: the scheduler's queue, the sidecar
   store and the text of a comment.  A behaviour is about one of them. *)
EXTENDS LatestWinsQueue, SidecarStore, RichText

VARIABLE focus   \* the library this behaviour is about

\* A heading and an empty list item, to be edited
Note == [text |-> Styled(<<"x", "\n", " ">>, Plain), blocks |-> <<"Heading1", "Bulleted">>]
Blank == [text |-> <<>>, blocks |-> <<"Paragraph">>]
Clips == {<<Tick, "\n">>}

\* Short lines in every mixture of styles, and all that looks like a prefix, to be
\* written and read back
Styles == {Plain, {"bold"}, {"italic"}, {"code"}, {"bold", "italic"}}
Mixtures == UNION {[1..n -> [ch : {"x", Tick, "*", "\\"}, style : Styles]] : n \in 0..2}
Signs == UNION {[1..n -> {"#", " ", "-", "1", ".", ">"}] : n \in 1..3}
Lines ==
  {[text |-> t, blocks |-> <<k>>] : t \in Mixtures, k \in {"Paragraph", "Heading1"}} \cup
  {[text |-> Styled(chars, Plain) \o rest, blocks |-> <<k>>] :
     chars \in Signs, rest \in {<<>>, Styled(<<"x">>, {"code"})},
     k \in {"Paragraph", "Numbered", "Quote"}}
AllDrafts == {Note} \cup Lines

MCInit ==
  /\ Init
  /\ SidecarInit
  /\ focus \in {"queue", "sidecar", "text", "reading"}
  /\ TextInit
  /\ focus = "text" => buffer = Buffer(Note)
  /\ focus \in {"queue", "sidecar"} => buffer = Buffer(Blank)

MCNext ==
  \/ focus = "queue" /\ Next /\ UNCHANGED <<sidecarVars, textVars, focus>>
  \/ focus = "sidecar" /\ SidecarNext /\ UNCHANGED <<vars, textVars, focus>>
  \/ focus = "text" /\ TextNext /\ UNCHANGED <<vars, sidecarVars, focus>>

MCSpec ==
  /\ MCInit /\ [][MCNext]_<<vars, sidecarVars, textVars, focus>>
  /\ WF_vars(focus = "queue" /\ Work)
=============================================================================

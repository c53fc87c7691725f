------------------------------- MODULE RichText -------------------------------
(***************************************************************************)
(* RichTextBuffer (crates/key-editor-core/src/lib.rs): the text of a comment    *)
(* with inline styles and a block kind per line, edited by the keyboard, by      *)
(* the input method and by formatting commands, and stored as Markdown.          *)
(*                                                                         *)
(* Text is a sequence of [ch, style]; an offset is the number of characters      *)
(* before it.  Style runs are the maximal stretches of one style.  A digit is    *)
(* "1", a backtick "tick"; Markdown is a sequence of characters.                *)
(***************************************************************************)
EXTENDS Integers, Sequences, SequencesExt, FiniteSetsExt

CONSTANTS
  Drafts,         \* texts a buffer starts with: [text, blocks]
  Pieces,         \* what is typed or pasted
  Flags,          \* inline formats the user toggles
  Kinds,          \* block kinds the user chooses
  SizeLimit,      \* max_markdown_bytes
  EditLimit       \* bound: commands

VARIABLES
  buffer,         \* the RichTextBuffer, see Buffer
  edits           \* commands so far

textVars == <<buffer, edits>>

NoMark == <<0, 0>>      \* a marked range is not empty
NoStyle == {"none"}
Plain == {}
Tick == "tick"

\* [text, blocks, from, to, reversed, marked, pending]
Buffer(draft) ==
  [text |-> draft.text, blocks |-> draft.blocks, from |-> Len(draft.text),
   to |-> Len(draft.text), reversed |-> FALSE, marked |-> NoMark, pending |-> NoStyle]

TextInit == edits = 0 /\ \E draft \in Drafts : buffer = Buffer(draft)

\* with_flag: code excludes the others
WithFlag(style, flag, on) ==
  IF ~on THEN style \ {flag}
  ELSE IF flag = "code" THEN {"code"} ELSE (style \ {"code"}) \cup {flag}

-----------------------------------------------------------------------------
(* Lines *)

Styled(chars, style) == [i \in 1..Len(chars) |-> [ch |-> chars[i], style |-> style]]
Chars(text) == [i \in 1..Len(text) |-> text[i].ch]
Newlines(chars) == Len(SelectSeq(chars, LAMBDA c : c = "\n"))

\* line_at_offset, counted from 1
LineAt(text, offset) == Newlines(Chars(SubSeq(text, 1, offset))) + 1

\* line_ranges: the offsets before and after each line
Breaks(text) == SetToSortSeq({i \in 1..Len(text) : text[i].ch = "\n"}, <)
LineRanges(text) ==
  LET at == <<0>> \o Breaks(text)
      last == Breaks(text) \o <<Len(text) + 1>>
  IN [l \in 1..Len(at) |-> <<at[l], last[l] - 1>>]
Line(text, l) == LET r == LineRanges(text)[l] IN SubSeq(text, r[1] + 1, r[2])

-----------------------------------------------------------------------------
(* Markdown *)

Prefix == [Paragraph |-> <<>>, Heading1 |-> <<"#", " ">>, Heading2 |-> <<"#", "#", " ">>,
           Heading3 |-> <<"#", "#", "#", " ">>, Bulleted |-> <<"-", " ">>,
           Numbered |-> <<"1", ".", " ">>, Quote |-> <<">", " ">>]

Starts(chars, p) == Len(chars) >= Len(p) /\ SubSeq(chars, 1, Len(p)) = p

\* The character i begins, and ends, a run of the line.
Opens(line, i) == i = 1 \/ line[i - 1].style # line[i].style
Closes(line, i) == i = Len(line) \/ line[i + 1].style # line[i].style
RunOf(line, i) ==
  LET first == Max({j \in 1..i : Opens(line, j)})
      last == Min({j \in i..Len(line) : Closes(line, j)})
  IN Chars(SubSeq(line, first, last))

\* longest_backtick_run
LongestTicks(chars) ==
  Max({0} \cup {n \in 1..Len(chars) :
                  \E i \in 0..(Len(chars) - n) : \A j \in 1..n : chars[i + j] = Tick})

Times(n, c) == [i \in 1..n |-> c]

Marker(style, run) ==
  CASE "code" \in style -> Times(LongestTicks(run) + 1, Tick)
    [] style = {"bold", "italic"} -> Times(3, "*")
    [] style = {"bold"} -> Times(2, "*")
    [] style = {"italic"} -> Times(1, "*")
    [] OTHER -> <<>>

MustEscape == {"\\", "*", Tick}

\* paragraph_prefix_needs_escape: only the plain text before the first other style
NumberedPrefix(chars) ==
  \E n \in 1..(Len(chars) - 2) :
    /\ \A i \in 1..n : chars[i] = "1"
    /\ chars[n + 1] = "." /\ chars[n + 2] = " "
NumberedLength(chars) ==
  2 + Max({n \in 1..Len(chars) : \A i \in 1..n : chars[i] = "1"})

MutNeedsEscape(line, kind) ==
  /\ kind = "Paragraph" /\ line # <<>>
  /\ line[1].style = Plain
  /\ Starts(RunOf(line, 1), <<"-", " ">>)
NeedsEscape(line, kind) ==
  /\ kind = "Paragraph" /\ line # <<>>
  /\ line[1].style = Plain
  /\ Starts(RunOf(line, 1), <<"-", " ">>) \/ NumberedPrefix(RunOf(line, 1))

\* encode_inline, escape_inline
Encoded(line) ==
  FlattenSeq([i \in 1..Len(line) |->
    LET c == line[i]
        marker == Marker(c.style, RunOf(line, i))
    IN (IF Opens(line, i) THEN marker ELSE <<>>)
         \o (IF c.ch \in MustEscape /\ "code" \notin c.style THEN <<"\\">> ELSE <<>>)
         \o <<c.ch>>
         \o (IF Closes(line, i) THEN marker ELSE <<>>)])

\* markdown
Markdown(b) ==
  FlattenSeq([l \in 1..Len(b.blocks) |->
    LET line == Line(b.text, l)
    IN (IF l > 1 THEN <<"\n">> ELSE <<>>) \o Prefix[b.blocks[l]]
         \o (IF NeedsEscape(line, b.blocks[l]) THEN <<"\\">> ELSE <<>>)
         \o Encoded(line)])

\* markdown_fits_with_limit: the size is added up without encoding
EncodedLength(run, style) ==
  IF "code" \in style THEN Len(run) + 2 * (LongestTicks(run) + 1)
  ELSE Len(run) + Len(SelectSeq(run, LAMBDA c : c \in MustEscape))
         + 2 * (IF "bold" \in style THEN 2 ELSE 0) + 2 * (IF "italic" \in style THEN 1 ELSE 0)
Size(b) ==
  LET OfLine(l) ==
        LET line == Line(b.text, l)
        IN (IF l > 1 THEN 1 ELSE 0) + Len(Prefix[b.blocks[l]])
             + (IF NeedsEscape(line, b.blocks[l]) THEN 1 ELSE 0)
             + FoldSet(LAMBDA i, sum : sum + EncodedLength(RunOf(line, i), line[i].style),
                       0, {i \in 1..Len(line) : Opens(line, i)})
  IN FoldSet(LAMBDA l, sum : sum + OfLine(l), 0, 1..Len(b.blocks))
Fits(b) == Size(b) <= SizeLimit

-----------------------------------------------------------------------------
(* Reading it back *)

\* parse_block_prefix: the first that matches
PrefixOrder == <<"Heading3", "Heading2", "Heading1", "Bulleted", "Numbered", "Quote">>
Matching(chars, kind) ==
  IF kind = "Numbered" THEN NumberedPrefix(chars) ELSE Starts(chars, Prefix[kind])
KindOf(chars) ==
  LET kinds == SelectSeq(PrefixOrder, LAMBDA k : Matching(chars, k))
  IN IF kinds = <<>> THEN "Paragraph" ELSE Head(kinds)
Contents(chars) ==
  LET kind == KindOf(chars)
      n == IF kind = "Numbered" THEN NumberedLength(chars) ELSE Len(Prefix[kind])
  IN SubSeq(chars, n + 1, Len(chars))

\* BacktickRunIndex: where the maximal runs of n backticks begin, escapes or not
TicksFrom(s, i) ==
  Max({n \in 1..(Len(s) - i + 1) : \A j \in 0..(n - 1) : s[i + j] = Tick})
TickRuns(s, n) ==
  {i \in 1..Len(s) : s[i] = Tick /\ (i = 1 \/ s[i - 1] # Tick) /\ TicksFrom(s, i) = n}

\* find_unescaped_marker, 0 if there is none
Unescaped(s, marker, start) ==
  LET skip[i \in start..(Len(s) + 2)] ==
        IF i > Len(s) THEN 0
        ELSE IF s[i] = "\\" THEN skip[i + 2]
        ELSE IF Starts(SubSeq(s, i, Len(s)), marker) THEN i ELSE skip[i + 1]
  IN skip[start]

\* unescape_inline
Literal(s) ==
  LET from[i \in 1..(Len(s) + 2)] ==
        IF i > Len(s) THEN <<>>
        ELSE IF s[i] = "\\" /\ i < Len(s) THEN <<s[i + 1]>> \o from[i + 2]
        ELSE <<s[i]>> \o from[i + 1]
  IN from[1]

\* The longest of three, two and one star at i
StarsAt(s, i) ==
  LET n == Max({0} \cup {k \in 1..3 : i + k - 1 <= Len(s) /\ \A j \in 0..(k - 1) : s[i + j] = "*"})
  IN Times(n, "*")
StarStyle(stars) == CASE Len(stars) = 3 -> {"bold", "italic"}
                      [] Len(stars) = 2 -> {"bold"}
                      [] Len(stars) = 1 -> {"italic"}

\* parse_inline
Parsed(s) ==
  LET n == Len(s)
      at[i \in 1..(n + 2)] ==
        IF i > n THEN <<>>
        ELSE IF s[i] = "\\"
        THEN IF i < n THEN Styled(<<s[i + 1]>>, Plain) \o at[i + 2] ELSE Styled(<<s[i]>>, Plain)
        ELSE IF s[i] = Tick
        THEN LET k == TicksFrom(s, i)
                 ends == {j \in TickRuns(s, k) : j >= i + k}
             IN IF ends = {} THEN Styled(Times(k, Tick), Plain) \o at[i + k]
                ELSE Styled(SubSeq(s, i + k, Min(ends) - 1), {"code"}) \o at[Min(ends) + k]
        ELSE LET stars == StarsAt(s, i)
                 end == IF stars = <<>> THEN 0 ELSE Unescaped(s, stars, i + Len(stars))
             IN IF end = 0 THEN Styled(<<s[i]>>, Plain) \o at[i + 1]
                ELSE Styled(Literal(SubSeq(s, i + Len(stars), end - 1)), StarStyle(stars))
                       \o at[end + Len(stars)]
  IN at[1]

\* parse_markdown
SourceLines(s) ==
  LET at == <<0>> \o SetToSortSeq({i \in 1..Len(s) : s[i] = "\n"}, <) \o <<Len(s) + 1>>
  IN [l \in 1..(Len(at) - 1) |-> SubSeq(s, at[l] + 1, at[l + 1] - 1)]
Read(s) ==
  LET lines == SourceLines(s)
  IN [blocks |-> [l \in 1..Len(lines) |-> KindOf(lines[l])],
      text |-> FlattenSeq([l \in 1..Len(lines) |->
                 (IF l > 1 THEN Styled(<<"\n">>, Plain) ELSE <<>>) \o Parsed(Contents(lines[l]))])]

-----------------------------------------------------------------------------
(* Editing *)

CursorOffset(b) == IF b.reversed THEN b.from ELSE b.to
HasSelection(b) == b.from < b.to

\* style_for_insertion: of the character after the offset, or of the last one
InsertionStyle(b, offset) ==
  IF b.pending # NoStyle THEN b.pending
  ELSE IF b.text = <<>> THEN Plain
  ELSE b.text[IF offset = Len(b.text) THEN offset ELSE offset + 1].style

\* The lines that are touched become lines of the kind of the first.
Spliced(b, from, to, new) ==
  LET first == LineAt(b.text, from)
      last == LineAt(b.text, to)
  IN SubSeq(b.blocks, 1, first - 1)
       \o [i \in 1..(Newlines(new) + 1) |-> b.blocks[first]]
       \o SubSeq(b.blocks, last + 1, Len(b.blocks))

\* replace_range, before its size is looked at; its callers clear the marked range
Replaced(b, from, to, new) ==
  LET style == InsertionStyle(b, from)
      end == from + Len(new)
  IN [b EXCEPT !.text = SubSeq(b.text, 1, from) \o Styled(new, style)
                          \o SubSeq(b.text, to + 1, Len(b.text)),
               !.blocks = Spliced(b, from, to, new),
               !.from = end, !.to = end, !.reversed = FALSE,
               !.marked = NoMark, !.pending = style]

\* A command whose result does not fit changes nothing.
Commit(b) ==
  /\ buffer' = IF Fits(b) THEN b ELSE buffer
  /\ edits' = edits + 1

May == edits < EditLimit

\* set_selection, move_to, select_to, select_all
Select ==
  /\ May
  /\ \E from \in 0..Len(buffer.text) : \E to \in from..Len(buffer.text), back \in BOOLEAN :
       buffer' = [buffer EXCEPT !.from = from, !.to = to,
                                !.reversed = back /\ from < to, !.pending = NoStyle]
  /\ edits' = edits + 1

\* replace_selection, replace_text_utf16: the selection, where the input method is
\* composing, or any range it names
Targets(b) == {<<from, to>> \in (0..Len(b.text)) \X (0..Len(b.text)) : from <= to}

Type ==
  /\ May
  /\ \E piece \in Pieces, target \in Targets(buffer) :
       Commit(Replaced(buffer, target[1], target[2], piece))

\* replace_and_mark_utf16, with a selection inside the new text
Compose ==
  /\ May
  /\ \E piece \in Pieces, target \in Targets(buffer) :
       LET new == Replaced(buffer, target[1], target[2], piece)
       IN \E from \in 0..Len(piece) : \E to \in from..Len(piece) :
            Commit([new EXCEPT !.marked = IF piece = <<>> THEN NoMark
                                          ELSE <<target[1], target[1] + Len(piece)>>,
                               !.from = target[1] + from, !.to = target[1] + to])

ClearMarked ==
  /\ May /\ buffer.marked # NoMark
  /\ Commit([buffer EXCEPT !.marked = NoMark])

\* backspace, delete_forward: a character next to the cursor, or the selection
Delete ==
  /\ May
  /\ \E step \in {-1, 1} :
       LET at == CursorOffset(buffer)
           other == Max({0, Min({Len(buffer.text), at + step})})
           range == IF HasSelection(buffer) THEN <<buffer.from, buffer.to>>
                    ELSE <<Min({at, other}), Max({at, other})>>
       IN Commit(Replaced(buffer, range[1], range[2], <<>>))

\* insert_newline: an empty list item ends its list; at the end of a heading the
\* next line is a paragraph, by the number of the cursor's line before the change.
NewLine ==
  /\ May
  /\ LET at == CursorOffset(buffer)
         l == LineAt(buffer.text, at)
         kind == buffer.blocks[l]
         new == Replaced(buffer, buffer.from, buffer.to, <<"\n">>)
         ends == /\ kind \in {"Heading1", "Heading2", "Heading3"}
                 /\ at = LineRanges(buffer.text)[l][2]
                 /\ l < Len(new.blocks)
     IN IF /\ ~HasSelection(buffer)
           /\ kind \in {"Bulleted", "Numbered"}
           /\ \A i \in 1..Len(Line(buffer.text, l)) : Line(buffer.text, l)[i].ch = " "
        THEN Commit([buffer EXCEPT !.blocks[l] = "Paragraph", !.pending = Plain])
        ELSE IF Fits(new) /\ ends THEN Commit([new EXCEPT !.blocks[l + 1] = "Paragraph"])
        ELSE Commit(new)

\* toggle_inline: without a selection for what is typed next
Selected(b) == (b.from + 1)..b.to
ToggleInline ==
  /\ May
  /\ \E flag \in Flags :
       IF HasSelection(buffer)
       THEN LET on == \E i \in Selected(buffer) : flag \notin buffer.text[i].style
                text == [i \in 1..Len(buffer.text) |->
                           IF i \in Selected(buffer)
                           THEN [buffer.text[i] EXCEPT !.style = WithFlag(@, flag, on)]
                           ELSE buffer.text[i]]
            IN Commit([buffer EXCEPT !.text = text, !.pending = NoStyle])
       ELSE LET style == InsertionStyle(buffer, CursorOffset(buffer))
            IN Commit([buffer EXCEPT !.pending = WithFlag(style, flag, flag \notin style)])

\* selected_lines: a selection that ends behind a line break does not touch the next
SelectedLines(b) ==
  LineAt(b.text, b.from)..LineAt(b.text, IF HasSelection(b) THEN b.to - 1 ELSE b.to)

\* set_block, toggle_block
SetBlock ==
  /\ May
  /\ \E kind \in Kinds, toggles \in BOOLEAN :
       LET off == toggles /\ \A l \in SelectedLines(buffer) : buffer.blocks[l] = kind
           blocks == [l \in 1..Len(buffer.blocks) |->
                        IF l \notin SelectedLines(buffer) THEN buffer.blocks[l]
                        ELSE IF off THEN "Paragraph" ELSE kind]
       IN Commit([buffer EXCEPT !.blocks = blocks])

TextNext == \/ Select \/ Type \/ Compose \/ ClearMarked \/ Delete \/ NewLine
            \/ ToggleInline \/ SetBlock

TextSpec == TextInit /\ [][TextNext]_textVars

-----------------------------------------------------------------------------
(* Properties *)

\* A paragraph that begins like a heading or a quotation is read back as one.
Ambiguous(line, kind) ==
  /\ kind = "Paragraph" /\ line # <<>> /\ line[1].style = Plain
  /\ \E k \in {"Heading1", "Heading2", "Heading3", "Quote"} :
       Starts(RunOf(line, 1), Prefix[k])

\* Code that begins or ends with a backtick runs into its own fence.
Fenced(line) ==
  \E i \in 1..Len(line) :
    /\ "code" \in line[i].style /\ line[i].ch = Tick
    /\ Opens(line, i) \/ Closes(line, i)

Portable(b) ==
  \A l \in 1..Len(b.blocks) :
    ~Ambiguous(Line(b.text, l), b.blocks[l]) /\ ~Fenced(Line(b.text, l))

\* What was written, with line breaks without a style
Written(b) ==
  [blocks |-> b.blocks,
   text |-> [i \in 1..Len(b.text) |->
               IF b.text[i].ch = "\n" THEN [ch |-> "\n", style |-> Plain] ELSE b.text[i]]]

(* Whatever the order of edits, compositions of the input method, formats and    *)
(* refusals: there is a block kind for every line, selection and composition lie  *)
(* in the text, the size that is checked is the size of the Markdown, so that      *)
(* what can be typed can be stored, and a comment is read back as it was           *)
(* written, exactly if no paragraph begins with the sign of a heading or a         *)
(* quotation and no code begins or ends with a backtick.                          *)
TextSound ==
  /\ Len(buffer.blocks) = Newlines(Chars(buffer.text)) + 1
  /\ 0 <= buffer.from /\ buffer.from <= buffer.to /\ buffer.to <= Len(buffer.text)
  /\ buffer.marked # NoMark =>
       buffer.marked[1] < buffer.marked[2] /\ buffer.marked[2] <= Len(buffer.text)
  /\ Size(buffer) = Len(Markdown(buffer)) /\ Fits(buffer)
  /\ Portable(buffer) <=> Read(Markdown(buffer)) = Written(buffer)
=============================================================================

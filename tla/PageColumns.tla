---------------------------- MODULE PageColumns -----------------------------
(***************************************************************************)
(* convert.py: one PDF page as Markdown lines, two-column bands read one   *)
(* column after the other (services/ingestion/convert.py).                 *)
(*                                                                         *)
(* A word is [x0, x1, top], a table [x0, x1, top, bottom, rows], no two of *)
(* a page with one top.  A Markdown line is [kind, words], from left to    *)
(* right.                                                                  *)
(***************************************************************************)
EXTENDS Lists, SequencesExt

CONSTANTS
    MinGutter,       \* _MIN_GUTTER_PT
    LineTolerance,   \* _LINE_TOLERANCE_PT
    MinColumnLines,  \* _MIN_COLUMN_LINES
    NoGutter         \* None

ASSUME GeometryAssumption ==
    /\ {MinGutter, MinColumnLines} \subseteq Nat \ {0}
    /\ LineTolerance \in Nat

LeftToRight(S) == Ordered(S, [w \in S |-> w.x0])

-----------------------------------------------------------------------------
(* _group_words_into_lines: the first word of a line anchors its tolerance *)

PageWidth(S) == Max({w.x1 : w \in S}) + 1

\* _group_words_into_lines takes the words from the top, each line from the left.
JoinLine(ls, w) ==
    IF ls # <<>> /\ w.top <= Last(ls).top + LineTolerance
    THEN Append(Front(ls), [Last(ls) EXCEPT !.words = @ \cup {w}])
    ELSE Append(ls, [top |-> w.top, words |-> {w}])

Lines(S) ==
    LET down == Ordered(S, [w \in S |-> w.top * PageWidth(S) + w.x0])
        joined[n \in 0..Len(down)] == IF n = 0 THEN <<>> ELSE JoinLine(joined[n - 1], down[n])
        found == joined[Len(down)]
    IN  [i \in DOMAIN found |-> LeftToRight(found[i].words)]

LeftEnd(line) == line[1].x0
RightEnd(line) == Max({line[i].x1 : i \in DOMAIN line})

-----------------------------------------------------------------------------
(* Gutters: <<left, right>> *)

\* _line_gutters
Gutters(line) ==
    {<<line[i].x1, line[i + 1].x0>> :
       i \in {j \in 1..Len(line) - 1 : line[j + 1].x0 >= line[j].x1 + MinGutter}}

\* _widest: the leftmost of the widest, as max returns the first.
Widest(gs) ==
    IF gs = {} THEN NoGutter
    ELSE CHOOSE g \in gs :
           \A h \in gs : \/ g[2] - g[1] > h[2] - h[1]
                         \/ g[2] - g[1] = h[2] - h[1] /\ g[1] <= h[1]

\* Faulty: A line with a gutter of its own leaves the band's as wide as it was.
NarrowNot(gutter, gs) ==
    IF \E h \in gs : Max({gutter[1], h[1]}) < Min({gutter[2], h[2]}) THEN gutter ELSE NoGutter

\* _narrow
Narrow(gutter, gs) ==
    Widest({g \in {<<Max({gutter[1], h[1]}), Min({gutter[2], h[2]})>> : h \in gs} :
              g[1] < g[2]})

-----------------------------------------------------------------------------
(* _column_segments: bands of lines, and how each is written *)

Body(words) == [kind |-> "body", words |-> words]
BlankLine == [kind |-> "blank", words |-> <<>>]

\* "\n\n".join of parts that are not empty.
Apart(parts) ==
    LET solid == Picked(parts, {i \in DOMAIN parts : parts[i] # <<>>})
    IN  FlattenSeq([i \in DOMAIN solid |->
                      (IF i = 1 THEN <<>> ELSE <<BlankLine>>) \o solid[i]])

\* Faulty form: a band needs a third line before it is written as columns.
RenderedLate(b) ==
    IF b.gutter = NoGutter \/ b.agreed <= MinColumnLines
    THEN [i \in DOMAIN b.lines |-> Body(b.lines[i])]
    ELSE LET Side(left) ==
               LET Mine(line) == {j \in DOMAIN line : (line[j].x0 < b.gutter[2]) = left}
                   lines == Picked(b.lines, {i \in DOMAIN b.lines : Mine(b.lines[i]) # {}})
               IN  [i \in DOMAIN lines |-> Body(Picked(lines[i], Mine(lines[i])))]
         IN  Apart(<<Side(TRUE), Side(FALSE)>>)

\* _render_band
Rendered(b) ==
    IF b.gutter = NoGutter \/ b.agreed < MinColumnLines
    THEN [i \in DOMAIN b.lines |-> Body(b.lines[i])]
    ELSE LET Side(line, left) ==
               {j \in DOMAIN line : IF left THEN line[j].x0 < b.gutter[2]
                                    ELSE line[j].x0 >= b.gutter[2]}
             Column(left) ==
               LET lines == Picked(b.lines, {i \in DOMAIN b.lines : Side(b.lines[i], left) # {}})
               IN  [i \in DOMAIN lines |-> Body(Picked(lines[i], Side(lines[i], left)))]
         IN  Apart(<<Column(TRUE), Column(FALSE)>>)

NoBand == [lines |-> <<>>, gutter |-> NoGutter, agreed |-> 0]

NewBand(line) == [lines |-> <<line>>, gutter |-> Widest(Gutters(line)),
                  agreed |-> IF Gutters(line) = {} THEN 0 ELSE 1]

\* A line joins the open band or closes it: s is <<closed bands, open band>>.
JoinBand(s, line) ==
    LET b == s[2]
        narrowed == Narrow(b.gutter, Gutters(line))
        longer == [b EXCEPT !.lines = Append(@, line)]
        closed == <<IF b.lines = <<>> THEN s[1] ELSE Append(s[1], b), NewBand(line)>>
    IN  CASE b.gutter = NoGutter ->
               IF Gutters(line) = {} THEN <<s[1], longer>> ELSE closed
          [] b.gutter # NoGutter /\ narrowed # NoGutter ->
               <<s[1], [longer EXCEPT !.gutter = narrowed, !.agreed = @ + 1]>>
          [] b.gutter # NoGutter /\ narrowed = NoGutter ->
               IF RightEnd(line) <= b.gutter[1] \/ LeftEnd(line) >= b.gutter[2]
               THEN <<s[1], longer>> ELSE closed

Segments(S) ==
    LET lines == Lines(S)
        joined[n \in 0..Len(lines)] ==
            IF n = 0 THEN <<<<>>, NoBand>> ELSE JoinBand(joined[n - 1], lines[n])
        s == joined[Len(lines)]
        bands == IF s[2].lines = <<>> THEN s[1] ELSE Append(s[1], s[2])
    IN  [i \in DOMAIN bands |-> Rendered(bands[i])]

-----------------------------------------------------------------------------
(* _page_markdown *)

\* _table_markdown: the separator follows the first row, if there is one.
TableLines(t) ==
    [i \in 1..(IF t.rows = 0 THEN 0 ELSE t.rows + 1) |->
       [kind |-> IF i = 2 THEN "rule" ELSE "row", words |-> <<>>]]

\* s is <<parts so far, consumed_to>>.
TakeTableDown(S, s, t) ==
    LET above == IF t.top < s[2] THEN {} ELSE {w \in S : s[2] <= w.top /\ w.top < t.top}
    IN  <<s[1] \o Segments(above) \o <<TableLines(t)>>, Max({s[2], t.bottom})>>

PageMarkdown(S, tables) ==
    LET down == Ordered(tables, [t \in tables |-> t.top])
        taken[n \in 0..Len(down)] ==
            IF n = 0 THEN <<<<>>, 0>> ELSE TakeTableDown(S, taken[n - 1], down[n])
        s == taken[Len(down)]
    IN  Apart(s[1] \o Segments({w \in S : w.top >= s[2]}))
=============================================================================

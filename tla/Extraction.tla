----------------------------- MODULE Extraction -----------------------------
(***************************************************************************)
(* extract.py: the lines of one converted document are read into blocks,   *)
(* or the pages of a PDF are (services/ingestion/extract.py).              *)
(*                                                                         *)
(* A line is [kind, name, text].  Kinds: "page" (the page marker), "row"   *)
(* and "rule" (pipe lines; the rule is the |---| separator), "head" (##),  *)
(* "article", "appendix", "section" (what chunk.py recognises), "body" and *)
(* "blank".  The name of a row is the section number its first cell opens  *)
(* with, NoName otherwise.  Whitespace around a line is not modelled.      *)
(***************************************************************************)
EXTENDS Lists, SequencesExt

VARIABLES
    doc,      \* the document's lines
    pos,      \* the line the reader is at
    page,     \* current_page
    text,     \* pending_text, as line numbers
    rows,     \* pending_table, as line numbers
    blocks    \* doc.blocks

extractVars == <<doc, pos, page, text, rows, blocks>>

Pipe(l) == doc[l].kind \in {"row", "rule"}
InTable == rows # <<>>
AtLine == pos <= Len(doc)
Extracted == pos > Len(doc) + 1

\* A finite set of line numbers, from the top.
InOrder(S) == Ordered(S, [l \in S |-> l])

\* The number a page marker carries: converters number the pages in order.
PageNumber(l) == Cardinality({k \in 1..l : doc[k].kind = "page"})

Block(isTable, ls) == [table |-> isTable, lines |-> ls, page |-> page]

\* Only the first separator goes; without one the run is not a table.
ParsePipeTable(ls) ==
    LET rules == {i \in DOMAIN ls : doc[ls[i]].kind = "rule"} IN
    IF Len(ls) < 2 \/ rules = {} THEN Block(FALSE, ls)
    ELSE Block(TRUE, Picked(ls, DOMAIN ls \ {Min(rules)}))

\* "\n".join(pending).strip(): a block of blank lines is none.
TextBlocks(ls) == IF \E i \in DOMAIN ls : doc[ls[i]].kind # "blank"
                  THEN <<Block(FALSE, ls)>> ELSE <<>>

\* _flush_table or _flush_text, whichever is pending.
Flushed == blocks \o IF InTable THEN <<ParsePipeTable(rows)>> ELSE TextBlocks(text)

-----------------------------------------------------------------------------
(* extract_markdown: one action per kind of line *)

ReadPage ==
    /\ AtLine /\ doc[pos].kind = "page"
    /\ blocks' = Flushed
    /\ page' = PageNumber(pos)
    /\ text' = <<>> /\ rows' = <<>>
    /\ pos' = pos + 1
    /\ UNCHANGED doc

ReadPipe ==
    /\ AtLine /\ Pipe(pos)
    /\ blocks' = IF InTable THEN blocks ELSE Flushed
    /\ rows' = Append(rows, pos)
    /\ text' = <<>>
    /\ pos' = pos + 1
    /\ UNCHANGED <<doc, page>>

ReadHeading ==
    /\ AtLine /\ doc[pos].kind = "head"
    /\ blocks' = Flushed
    /\ text' = <<pos>> /\ rows' = <<>>
    /\ pos' = pos + 1
    /\ UNCHANGED <<doc, page>>

\* Faulty: A blank line does not end a table.
ReadTextThroughBlank ==
    /\ AtLine /\ ~Pipe(pos) /\ doc[pos].kind \notin {"page", "head"}
    /\ LET inside == InTable /\ doc[pos].kind = "blank"
       IN  /\ blocks' = IF InTable /\ ~inside THEN Flushed ELSE blocks
           /\ text' = IF inside THEN text ELSE Append(text, pos)
           /\ rows' = IF inside THEN rows ELSE <<>>
    /\ pos' = pos + 1
    /\ UNCHANGED <<doc, page>>

ReadText ==
    /\ AtLine /\ ~Pipe(pos) /\ doc[pos].kind \notin {"page", "head"}
    /\ blocks' = IF InTable THEN Flushed ELSE blocks
    /\ text' = Append(text, pos)
    /\ rows' = <<>>
    /\ pos' = pos + 1
    /\ UNCHANGED <<doc, page>>

EndOfFile ==
    /\ pos = Len(doc) + 1
    /\ blocks' = Flushed
    /\ text' = <<>> /\ rows' = <<>>
    /\ pos' = pos + 1
    /\ UNCHANGED <<doc, page>>

ExtractMarkdown == ReadPage \/ ReadPipe \/ ReadHeading \/ ReadText \/ EndOfFile

-----------------------------------------------------------------------------
(* extract_pdf *)

\* The lines of the page that starts at marker l.
LinesOfPage(l) ==
    LET later == {k \in l + 1..Len(doc) : doc[k].kind = "page"}
    IN  (l + 1)..(IF later = {} THEN Len(doc) ELSE Min(later) - 1)

\* page.extract_tables: the ruled tables of the page, from the top.  A run of
\* pipe lines with a rule in it stands for one; the rule is drawn, not printed.
TablesOfPage(l) ==
    LET lines == LinesOfPage(l)
        From(k) == {m \in lines : m >= k /\ \A n \in k..m : Pipe(n)}
        starts == {k \in lines : /\ Pipe(k)
                                 /\ k - 1 \in lines => ~Pipe(k - 1)
                                 /\ \E m, n \in From(k) : /\ doc[m].kind = "rule"
                                                          /\ doc[n].kind = "row"}
        Table(k) == [table |-> TRUE, page |-> PageNumber(l),
                     lines |-> InOrder({m \in From(k) : doc[m].kind = "row"})]
    IN  [i \in DOMAIN InOrder(starts) |-> Table(InOrder(starts)[i])]

\* One page: its tables first, then all its text, the tables' words included.
ExtractPage ==
    /\ AtLine /\ doc[pos].kind = "page"
    /\ LET number == PageNumber(pos)
           printed == {k \in LinesOfPage(pos) : doc[k].kind \notin {"rule", "blank"}}
           words == [table |-> FALSE, page |-> number, lines |-> InOrder(printed)]
       IN  /\ blocks' = blocks \o TablesOfPage(pos)
                               \o (IF printed = {} THEN <<>> ELSE <<words>>)
           /\ page' = number
           /\ pos' = pos + 1 + Cardinality(LinesOfPage(pos))
    /\ UNCHANGED <<doc, text, rows>>

EndOfPdf ==
    /\ pos = Len(doc) + 1
    /\ pos' = pos + 1
    /\ UNCHANGED <<doc, page, text, rows, blocks>>

ExtractPdf == ExtractPage \/ EndOfPdf
=============================================================================

------------------------------ MODULE Chunking ------------------------------
(***************************************************************************)
(* chunk.py: the blocks of one document are cut into chunks               *)
(* (services/ingestion/chunk.py).  Text is a sequence of characters        *)
(* <<class, line, column>>, so that a chunk shows where each of its        *)
(* characters comes from; classes are "x" (a letter), "." (a sentence      *)
(* end), "sp" and "nl".                                                    *)
(***************************************************************************)
EXTENDS Extraction

CONSTANTS
    MaxTokens, OverlapTokens,   \* MAX_CHUNK_TOKENS, OVERLAP_TOKENS
    CharsPerToken,
    Search,                     \* how far back a sentence end is looked for
    LeadChars,                  \* _TABLE_LEAD_IN_CHARS
    NoName                      \* None

ASSUME LimitsAssumption ==
    /\ {MaxTokens, OverlapTokens, CharsPerToken, Search, LeadChars} \subseteq Nat \ {0}
    /\ OverlapTokens < MaxTokens
    /\ Search < MaxTokens * CharsPerToken

VARIABLES
    docType,  \* metadata.document_type: "wage_schedule" or "agreement"
    engine,   \* conversion_engine: "none", "pymupdf4llm", "pdfplumber_columns"
    blockNo, lineNo,   \* where the chunker reads
    context,  \* the article, its title's line and the section it stands under
    buffer,   \* article_lines, current_lines: [line, page]
    queue,    \* what a flush hands over, before it is cut
    out       \* the chunks

chunkVars == <<docType, engine, blockNo, lineNo, context, buffer, queue, out>>

MaxChars == MaxTokens * CharsPerToken
Overlap == OverlapTokens * CharsPerToken

Blank(ch) == ch[1] \in {"sp", "nl"}
Larger(a, b) == IF a < b THEN b ELSE a
Smaller(a, b) == IF a < b THEN a ELSE b

CharsOf(l) == [c \in 1..Len(doc[l].text) |-> <<doc[l].text[c], l, c>>]

\* "\n".join of the lines ls.
Joined(ls) ==
    FlattenSeq([i \in DOMAIN ls |->
                  (IF i = 1 THEN <<>> ELSE <<<<"nl", ls[i], 0>>>>) \o CharsOf(ls[i])])

LStrip(t) == LET solid == {i \in DOMAIN t : ~Blank(t[i])} IN
             IF solid = {} THEN <<>> ELSE SubSeq(t, Min(solid), Len(t))
Strip(t) == LET solid == {i \in DOMAIN t : ~Blank(t[i])} IN
            IF solid = {} THEN <<>> ELSE SubSeq(t, Min(solid), Max(solid))

Tokens(t) == Len(t) \div CharsPerToken
Fits(t) == Tokens(t) <= MaxTokens

-----------------------------------------------------------------------------
(* What a line says *)

Heading(l) == doc[l].kind \in {"article", "appendix"}

\* _match_section.  Printed text (extract_pdf) has lost the pipes of a row.
SectionOf(l) == IF doc[l].kind = "section" \/ (doc[l].kind = "row" /\ engine = "none")
                THEN doc[l].name ELSE NoName

NoContext == [article |-> NoName, title |-> 0, section |-> NoName]

\* Faulty: A heading leaves the section of the article before it in force.
TurnKeepingSection(c, l) ==
    IF Heading(l) THEN [c EXCEPT !.article = doc[l].name, !.title = l]
    ELSE IF SectionOf(l) # NoName THEN [c EXCEPT !.section = SectionOf(l)]
    ELSE c

\* The running article and section after line l.
Turn(c, l) ==
    IF Heading(l) THEN [article |-> doc[l].name, title |-> l, section |-> NoName]
    ELSE IF SectionOf(l) # NoName THEN [c EXCEPT !.section = SectionOf(l)]
    ELSE c

Solid(ls) == Picked(ls, {i \in DOMAIN ls : doc[ls[i]].kind # "blank"})

\* _build_section_narrative: the lines under one section of one article, from
\* every text block of the document.
Narrative(article, section) ==
    LET ls == FlattenSeq([b \in DOMAIN blocks |->
                            IF blocks[b].table THEN <<>> ELSE Solid(blocks[b].lines)])
        under[i \in 0..Len(ls)] == IF i = 0 THEN NoContext ELSE Turn(under[i - 1], ls[i])
    IN  Picked(ls, {i \in DOMAIN ls : /\ ~Heading(ls[i])
                                      /\ under[i].article = article
                                      /\ under[i].section = section})

\* _table_section_key
TableSection(b) ==
    LET first == doc[b.lines[1]] IN
    IF first.kind = "row" /\ first.name # NoName THEN first.name ELSE context.section

LeadIn(section) ==
    IF section = NoName THEN <<>>
    ELSE LET t == Joined(Narrative(context.article, section))
         IN  Strip(SubSeq(t, 1, Smaller(LeadChars, Len(t))))

-----------------------------------------------------------------------------
(* What a flush hands over: pieces, cut on their way out if too long *)

Piece(t, p, c) == [text |-> Strip(t), page |-> p, table |-> FALSE, lead |-> <<>>,
                   article |-> c.article, title |-> c.title, section |-> c.section,
                   cutting |-> FALSE]

TextOf(part) == Joined([i \in DOMAIN part |-> part[i].line])

\* _split_into_sections
Sections(ls) ==
    LET starts == InOrder({1} \cup {i \in DOMAIN ls : SectionOf(ls[i].line) # NoName})
        end(k) == IF k = Len(starts) THEN Len(ls) ELSE starts[k + 1] - 1
    IN  [k \in DOMAIN starts |-> SubSeq(ls, starts[k], end(k))]

\* _process_article: one piece if it fits, else one for each section.
ArticlePieces ==
    IF buffer = <<>> THEN <<>>
    ELSE IF Fits(TextOf(buffer))
    THEN <<Piece(TextOf(buffer), buffer[1].page, [context EXCEPT !.section = NoName])>>
    ELSE LET parts == Sections(buffer)
         IN  [k \in DOMAIN parts |->
                Piece(TextOf(parts[k]), parts[k][1].page,
                      [context EXCEPT !.section = SectionOf(parts[k][1].line)])]

\* _flush_section of a wage schedule
HeadedPieces ==
    IF buffer = <<>> THEN <<>> ELSE <<Piece(TextOf(buffer), buffer[1].page, context)>>

TablePiece(b, section, lead) ==
    [text |-> Joined(b.lines), page |-> b.page, table |-> TRUE, lead |-> lead,
     article |-> context.article, title |-> context.title, section |-> section,
     cutting |-> FALSE]

Reading == queue = <<>> /\ blockNo \in DOMAIN blocks
LinesHere == Solid(blocks[blockNo].lines)
Here == LinesHere[lineNo]

NextLine == IF lineNo < Len(LinesHere)
            THEN lineNo' = lineNo + 1 /\ UNCHANGED blockNo
            ELSE lineNo' = 1 /\ blockNo' = blockNo + 1

Keep == [line |-> Here, page |-> blocks[blockNo].page]

-----------------------------------------------------------------------------
(* chunk_document: an agreement *)

TakeTable ==
    /\ docType = "agreement" /\ Reading /\ blocks[blockNo].table
    /\ LET b == blocks[blockNo]
       IN  queue' = Append(ArticlePieces,
                           TablePiece(b, TableSection(b), LeadIn(TableSection(b))))
    /\ buffer' = <<>>
    /\ blockNo' = blockNo + 1 /\ lineNo' = 1
    /\ UNCHANGED <<docType, engine, context, out>>

TakeHeading ==
    /\ docType = "agreement" /\ Reading /\ ~blocks[blockNo].table /\ Heading(Here)
    /\ queue' = ArticlePieces
    /\ context' = Turn(context, Here)
    /\ buffer' = <<Keep>>
    /\ NextLine
    /\ UNCHANGED <<docType, engine, out>>

TakeLine ==
    /\ docType = "agreement" /\ Reading /\ ~blocks[blockNo].table /\ ~Heading(Here)
    /\ context' = Turn(context, Here)
    /\ buffer' = Append(buffer, Keep)
    /\ NextLine
    /\ UNCHANGED <<docType, engine, queue, out>>

-----------------------------------------------------------------------------
(* _process_wage_schedule: a wage schedule that took the legacy path *)

TakeHeadedTable ==
    /\ docType = "wage_schedule" /\ Reading /\ blocks[blockNo].table
    /\ queue' = Append(HeadedPieces, TablePiece(blocks[blockNo], NoName, <<>>))
    /\ buffer' = <<>>
    /\ blockNo' = blockNo + 1 /\ lineNo' = 1
    /\ UNCHANGED <<docType, engine, context, out>>

TakeMarkdownHeader ==
    /\ docType = "wage_schedule" /\ Reading /\ ~blocks[blockNo].table
    /\ doc[Here].kind = "head"
    /\ queue' = HeadedPieces
    /\ context' = [NoContext EXCEPT !.title = Here]
    /\ buffer' = <<>>
    /\ NextLine
    /\ UNCHANGED <<docType, engine, out>>

TakeHeadedLine ==
    /\ docType = "wage_schedule" /\ Reading /\ ~blocks[blockNo].table
    /\ doc[Here].kind # "head"
    /\ buffer' = Append(buffer, Keep)
    /\ NextLine
    /\ UNCHANGED <<docType, engine, context, queue, out>>

\* The flush after the last block.
FlushLast ==
    /\ queue = <<>> /\ blockNo = Len(blocks) + 1
    /\ queue' = IF docType = "agreement" THEN ArticlePieces ELSE HeadedPieces
    /\ buffer' = <<>>
    /\ blockNo' = blockNo + 1
    /\ UNCHANGED <<docType, engine, lineNo, context, out>>

-----------------------------------------------------------------------------
(* _split_with_overlap, one turn of its loop at a time *)

\* Faulty: The next sentence end after the limit, instead of the last before it.
SentenceBoundaryAhead(t, near) ==
    LET ends == {i \in near..Len(t) : t[i][1] = "."}
    IN  IF ends = {} THEN near ELSE Min(ends)

\* _find_sentence_boundary: $ also matches where the segment was cut off.
SentenceBoundary(t, near) ==
    LET from == IF near > Search THEN near - Search ELSE 0
        ends == {i \in from + 1..near :
                   t[i][1] = "." /\ (i = near \/ Blank(t[i + 1]))}
        spaces == {i \in from + 1..near : t[i][1] = "sp"}
    IN  IF ends # {} THEN Max(ends) ELSE IF spaces # {} THEN Max(spaces) ELSE near

\* Faulty: A walk that ran into the split point steps over one character more.
OverlapStartPast(t, split) ==
    LET back == IF split > Overlap THEN split - Overlap ELSE 0
        breaks == {o \in back..split - 1 : Blank(t[o + 1])}
    IN  (IF breaks = {} THEN split ELSE Min(breaks)) + 1

\* How much of t the next chunk leaves out, when this one ends at split.
OverlapStart(t, split) ==
    LET back == IF split > Overlap THEN split - Overlap ELSE 0
        breaks == {o \in back..split - 1 : Blank(t[o + 1])}
    IN  Smaller((IF breaks = {} THEN split ELSE Min(breaks)) + 1, split)

\* Faulty: An overlap as long as a chunk, taken without the safety check.
RemainderWhole(t, split) ==
    LStrip(SubSeq(t, (IF split > MaxChars THEN split - MaxChars ELSE 0) + 1, Len(t)))

Remainder(t, split) ==
    LET next == LStrip(SubSeq(t, OverlapStart(t, split) + 1, Len(t)))
    IN  IF Len(next) >= Len(t) THEN LStrip(SubSeq(t, split + 1, Len(t))) ELSE next

TooLong(piece) == /\ ~piece.table
                  /\ IF piece.cutting THEN Len(piece.text) > MaxChars ELSE ~Fits(piece.text)

Cut ==
    /\ queue # <<>> /\ TooLong(Head(queue))
    /\ LET t == Head(queue).text
           split == SentenceBoundary(t, MaxChars)
           cut == Strip(SubSeq(t, 1, split))
       IN  /\ out' = IF cut = <<>> THEN out
                     ELSE Append(out, [Head(queue) EXCEPT !.text = cut])
           /\ queue' = <<[Head(queue) EXCEPT !.text = Remainder(t, split),
                                             !.cutting = TRUE]>> \o Tail(queue)
    /\ UNCHANGED <<docType, engine, blockNo, lineNo, context, buffer>>

Emit ==
    /\ queue # <<>> /\ ~TooLong(Head(queue))
    /\ out' = IF Strip(Head(queue).text) = <<>> THEN out
              ELSE Append(out, [Head(queue) EXCEPT !.text = Strip(Head(queue).text)])
    /\ queue' = Tail(queue)
    /\ UNCHANGED <<docType, engine, blockNo, lineNo, context, buffer>>

ChunkDocument ==
    \/ TakeTable \/ TakeHeading \/ TakeLine
    \/ TakeHeadedTable \/ TakeMarkdownHeader \/ TakeHeadedLine
    \/ FlushLast \/ Cut \/ Emit

Chunked == blockNo > Len(blocks) + 1 /\ queue = <<>>
=============================================================================

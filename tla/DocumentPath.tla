---------------------------- MODULE DocumentPath ----------------------------
(***************************************************************************)
(* One manifest entry from its file to its chunks, by the path that        *)
(* run_pipeline.py takes for it: the wage form parser with its fallback,   *)
(* or conversion, extraction and chunking                                  *)
(* (services/ingestion/run_pipeline.py, wage_tables.py).                   *)
(***************************************************************************)
EXTENDS WageForm, PageColumns

CONSTANT Corpus   \* the manifest entries with their files, by family

\* A line is a string; a pipe line, a label and a line of rates have something in
\* them, and amounts are cents.
IsDocument(d) ==
    /\ d \in Seq(Range(d))
    /\ \A l \in DOMAIN d :
         /\ d[l].text \in Seq({"x", ".", "sp"})
         /\ d[l].kind \in {"row", "rule", "label", "rates"} =>
              \E c \in DOMAIN d[l].text : d[l].text[c] # "sp"
         /\ d[l].kind = "rates" => d[l].values \in Seq(Nat)

\* No two words of a printed page are set over each other, and no two tables begin at
\* one height.
IsPage(p) ==
    /\ IsFiniteSet(p.words) /\ p.words \subseteq [x0 : Nat, x1 : Nat, top : Nat]
    /\ \A u, v \in p.words :
         /\ u.x0 <= u.x1
         /\ u.x0 = v.x0 /\ Distance(u.top, v.top) <= LineTolerance => u = v
    /\ IsFiniteSet(p.tables)
    /\ p.tables \subseteq [x0 : Nat, x1 : Nat, top : Nat, bottom : Nat, rows : Nat]
    /\ \A t, u \in p.tables : t.top <= t.bottom /\ (t.top = u.top => t = u)

\* The plain text of a page has a whole form wherever its layout text has one.
IsFormPage(f) == f \in FormType /\ (f.layout = "whole" => f.plain # "header")

IsEntry(e) ==
    /\ e.docType \in {"agreement", "wage_schedule"}
    /\ e.engine \in {"none", "pymupdf4llm", "pdfplumber_columns"}
    /\ e.wageEntry \in BOOLEAN
    /\ IsDocument(e.doc)
    /\ \A n \in 1..Cardinality({l \in DOMAIN e.doc : e.doc[l].kind = "page"}) : IsFormPage(e.form[n])
    /\ e.pages \in Seq(Range(e.pages)) /\ \A p \in Range(e.pages) : IsPage(p)

ASSUME CorpusAssumption == \A family \in DOMAIN Corpus : \A e \in Corpus[family] : IsEntry(e)

VARIABLES
    entry,   \* the manifest entry and its file
    path     \* "wage", "convert", "legacy"

vars == <<extractVars, chunkVars, formVars, entry, path>>

LegacyPath(e) == IF e.engine = "pdfplumber_columns" THEN "convert" ELSE "legacy"

\* is_wage_schedule_entry: by its type, or by its name, which then is chunked
\* as the agreement its type says it is.
Init ==
    \E family \in DOMAIN Corpus : \E e \in Corpus[family] :
      /\ entry = e
      /\ path = IF e.wageEntry THEN "wage" ELSE LegacyPath(e)
      /\ docType = e.docType /\ engine = e.engine
      /\ doc = e.doc /\ form = e.form
      /\ pos = 1 /\ page = 1 /\ text = <<>> /\ rows = <<>> /\ blocks = <<>>
      /\ parsed = <<>>
      /\ blockNo = 1 /\ lineNo = 1
      /\ context = NoContext
      /\ buffer = <<>> /\ queue = <<>> /\ out = <<>>

-----------------------------------------------------------------------------
(* _run_epsca_wage_path *)

WagePage == path = "wage" /\ ParsePage /\ UNCHANGED <<entry, path>>

WageChunks == path = "wage" /\ BuildWageChunks /\ UNCHANGED <<entry, path>>

\* No page is a form, or no page has rates: the parser raises and the entry
\* takes the legacy path from the beginning.
FallBack ==
    /\ path = "wage" /\ AllParsed /\ NoRates
    /\ path' = LegacyPath(entry)
    /\ pos' = 1
    /\ parsed' = <<>>
    /\ UNCHANGED <<doc, page, text, rows, blocks, chunkVars, form, entry>>

-----------------------------------------------------------------------------
(* _run_legacy_path *)

\* One printed page as document lines: a word is one letter.
Printed(l) ==
    [kind |-> l.kind, name |-> NoName, words |-> l.words,
     text |-> IF l.kind \in {"row", "rule"} THEN <<"x">>
              ELSE [c \in 1..2 * Len(l.words) - 1 |-> IF c % 2 = 1 THEN "x" ELSE "sp"]]

\* _convert_with_columns
ConvertColumns ==
    /\ path = "convert"
    /\ LET Marker == [kind |-> "page", name |-> NoName, words |-> <<>>, text |-> <<>>]
           lines(p) == PageMarkdown(p.words, p.tables)
       IN  doc' = FlattenSeq([i \in DOMAIN entry.pages |->
                    <<Marker>> \o [k \in DOMAIN lines(entry.pages[i]) |->
                                     Printed(lines(entry.pages[i])[k])]])
    /\ path' = "legacy"
    /\ UNCHANGED <<pos, page, text, rows, blocks, chunkVars, formVars, entry>>

Extract ==
    /\ path = "legacy"
    /\ IF engine = "none" THEN ExtractPdf ELSE ExtractMarkdown
    /\ UNCHANGED <<chunkVars, formVars, entry, path>>

Chunk ==
    /\ path = "legacy" /\ Extracted /\ ChunkDocument
    /\ UNCHANGED <<extractVars, formVars, entry, path>>

Finished == Extracted /\ (path = "wage" \/ (path = "legacy" /\ Chunked))

\* A document that has its chunks is left alone; any other is worked on.
Rest == Finished /\ UNCHANGED vars

Next == WagePage \/ WageChunks \/ FallBack \/ ConvertColumns \/ Extract \/ Chunk \/ Rest

Spec == Init /\ [][Next]_vars

-----------------------------------------------------------------------------
(* Properties *)

Solids(c) == {ch \in Range(c.text) : ~Blank(ch)}
LinesIn(c) == {ch[2] : ch \in Range(c.text)}
Chunks == Range(out)
PageOf(l) == Max({k \in 1..l : doc[k].kind = "page"})

\* A page of a form whose body the parser gets to see.  A page of notes whose
\* layout text is blank is not read again, so what it says is left out.
BodyRead(p) ==
    LET f == form[PageNumber(p)]
    IN  \/ f.layout = "whole"
        \/ f.plain = "whole" /\ (f.layout = "none" \/ f.part = 1)
RatesPage(p) == form[PageNumber(p)].part = 1
Before(l, Test(_)) == {k \in PageOf(l) + 1..l - 1 : Test(k)}

\* What a document says, besides its markers and rules, and besides what the
\* chunks carry as their title.
Content ==
    {l \in DOMAIN doc :
       /\ doc[l].kind \notin {"page", "rule", "blank", "band"}
       /\ path = "legacy" => ~(docType = "wage_schedule" /\ doc[l].kind = "head")
       /\ path = "wage" => /\ BodyRead(PageOf(l))
                           /\ RatesPage(PageOf(l)) => doc[l].kind = "body"}

\* No character of the text is lost between a document and its chunks, however
\* it was read, split and overlapped; a parsed form keeps all its notes.
NothingLost ==
    Finished => \A l \in Content :
                  \A ch \in {x \in Range(CharsOf(l)) : ~Blank(x)} :
                    \E c \in Chunks : ch \in Solids(c)

\* A chunk of text stays within the budget of the embedding, and a chunk of
\* notes within its own unless it is one line.
WithinLimit ==
    \A c \in Chunks :
      ~c.table => IF path = "wage"
                  THEN Len(c.text) <= MaxNotesChars \/ Cardinality(LinesIn(c)) = 1
                  ELSE Len(c.text) < MaxChars + CharsPerToken

\* The pipe tables of the document: runs of pipe lines with a separator.
TableRuns ==
    LET From(k) == {m \in k..Len(doc) : \A n \in k..m : Pipe(n)}
    IN  {From(k) : k \in {j \in DOMAIN doc :
                            /\ Pipe(j) /\ (j = 1 \/ ~Pipe(j - 1))
                            /\ Cardinality(From(j)) > 1
                            /\ \E n \in From(j) : doc[n].kind = "rule"}}

\* A table of a converted document is one chunk of its own, whatever its size,
\* and no chunk of text holds a row of it.
TablesWhole ==
    Finished /\ path = "legacy" /\ engine # "none" =>
      \A run \in TableRuns :
        LET kept == run \ {Min({k \in run : doc[k].kind = "rule"})}
            touching == {i \in DOMAIN out : LinesIn(out[i]) \cap run # {}}
        IN  /\ Cardinality(touching) = 1
            /\ \A i \in touching : out[i].table /\ LinesIn(out[i]) = kept

\* What line l stands under, read off the document.
LastOf(S) == IF S = {} THEN 0 ELSE Max(S)
HeadingOf(l) == LastOf({k \in 1..l : Heading(k)})
ArticleOf(l) == IF HeadingOf(l) = 0 THEN NoName ELSE doc[HeadingOf(l)].name
SectionUnder(l) ==
    LET k == LastOf({m \in HeadingOf(l) + 1..l : SectionOf(m) # NoName})
    IN  IF k = 0 THEN NoName ELSE doc[k].name
HeaderOf(l) == LastOf({k \in 1..l : doc[k].kind = "head"})

TextCited(c) ==
    \A l \in {ch[2] : ch \in Solids(c)} :
      IF docType = "wage_schedule" THEN c.title = HeaderOf(l)
      ELSE /\ c.title = HeadingOf(l) /\ c.article = ArticleOf(l)
           /\ c.section \in {NoName, SectionUnder(l)}

TableCited(c) ==
    LET l == Head(c.text)[2] IN
    IF docType = "wage_schedule" THEN c.title = HeaderOf(l)
    ELSE /\ c.title = HeadingOf(l) /\ c.article = ArticleOf(l)
         /\ c.section = IF doc[l].kind = "row" /\ doc[l].name # NoName
                        THEN doc[l].name ELSE SectionUnder(l)

LeadCited(c) ==
    \A l \in {ch[2] : ch \in Range(c.lead)} :
      ArticleOf(l) = c.article /\ SectionUnder(l) = c.section

\* An answer cites the chunk: its article, title and section are those its
\* lines stand under, and the text put before a table is about its section.
\* (Tables of an unconverted PDF come before the text of their page.)
CitationsTrue ==
    path = "legacy" =>
      \A c \in Chunks : /\ IF c.table THEN engine = "none" \/ TableCited(c)
                           ELSE TextCited(c)
                        /\ LeadCited(c)

\* On a page of rates, the labels line r belongs to: the last ones printed
\* before it with no rates among them, and the apprentice label that heads them
\* if they are periods.
LabelsOf(r) ==
    LET labels == Before(r, LAMBDA k : doc[k].kind = "label")
        last == LastOf(labels)
        own == {k \in labels : \A m \in k..last : doc[m].kind # "rates"}
        trades == {k \in labels : doc[k].apprentice}
    IN  IF own # {} /\ trades # {} /\ \A k \in own : doc[k].period
        THEN own \cup {Max(trades)} ELSE own

\* Every dated rate is in one chunk with the labels it is printed under and
\* with no other; a rate printed before any label is in none.
RatesUnderLabels ==
    Finished /\ path = "wage" =>
      \A r \in {l \in DOMAIN doc : /\ doc[l].kind = "rates"
                                   /\ BodyRead(PageOf(l)) /\ RatesPage(PageOf(l))} :
        LET holding == {i \in DOMAIN out : r \in LinesIn(out[i])}
        IN  /\ Cardinality(holding) = IF LabelsOf(r) = {} THEN 0 ELSE 1
            /\ \A i \in holding :
                 /\ {l \in LinesIn(out[i]) : doc[l].kind = "label"} = LabelsOf(r)
                 /\ \A l \in LinesIn(out[i]) :
                      doc[l].kind = "rates" => LabelsOf(l) = LabelsOf(r)

\* The columns of a stored rate are as many as its amounts and all different,
\* and a row said to add up does so at the column called the total.
RatesNamed ==
    \A i \in DOMAIN parsed : \A g \in Range(parsed[i].read.groups) :
      \A row \in Range(g.rates) :
        LET values == doc[row.line].values
            total == {k \in DOMAIN row.columns : row.columns[k] = <<"total", 0>>}
        IN  /\ Len(row.columns) = Len(values)
            /\ \A j, k \in DOMAIN row.columns : row.columns[j] = row.columns[k] => j = k
            /\ row.valid => \E k \in total :
                              Distance(Total(values, k - 1), values[k]) <= SumTolerance

\* A rate that is read is never another's: it keeps its labels and its names.
RatesTrue == RatesUnderLabels /\ RatesNamed

\* Where the words of a converted page went.
Places(n, w) ==
    UNION {{l} \X {k \in DOMAIN doc[l].words : doc[l].words[k] = w} :
             l \in {m \in DOMAIN doc : PageNumber(m) = n}}
Converted == Finished /\ path = "legacy" /\ engine = "pdfplumber_columns"
AtTableHeight(p, w) == \E t \in p.tables : t.top <= w.top /\ w.top < t.bottom
InATable(p, w) ==
    \E t \in p.tables : /\ t.top <= w.top /\ w.top < t.bottom
                        /\ t.x0 <= w.x0 /\ w.x1 <= t.x1

\* A word above and below every table is written once, a word of a table is left to it.
EachWordOnce ==
    Converted => \A n \in DOMAIN entry.pages : \A w \in entry.pages[n].words :
      /\ ~AtTableHeight(entry.pages[n], w) => Cardinality(Places(n, w)) = 1
      /\ InATable(entry.pages[n], w) => Places(n, w) = {}

\* v is the next word of u's line, and nearer than another column would be.
Follows(p, u, v) ==
    /\ u # v /\ u.top = v.top /\ u.x1 <= v.x0 /\ v.x0 < u.x1 + MinGutter
    /\ \A w \in p.words \ {u, v} :
         u.x0 <= w.x0 /\ w.x0 <= v.x0 => Distance(w.top, u.top) > LineTolerance

\* Two words of one line come apart only across a gap as wide as a gutter.
PhraseKept ==
    Converted => \A n \in DOMAIN entry.pages : \A u, v \in entry.pages[n].words :
      Follows(entry.pages[n], u, v) /\ ~AtTableHeight(entry.pages[n], u)
      => \E at \in Places(n, u) : <<at[1], at[2] + 1>> \in Places(n, v)

\* However tables nest and bands open, narrow and close, the words of a page that is
\* converted in columns are all there, none of them twice, and its phrases whole.
WordsKept == EachWordOnce /\ PhraseKept

\* What a reader sees on a page whose lines are level: rows, and the blanks in a row
\* that are as wide as a gutter.
Level(p) ==
    \A u, v \in p.words : u.top # v.top => Distance(u.top, v.top) > LineTolerance
Row(p, t) == {w \in p.words : w.top = t}
RowTops(p, low, high) == {t \in low..high : Row(p, t) # {}}
Blanks(p, t) ==
    {<<uv[1].x1, uv[2].x0>> : uv \in
       {uv \in Row(p, t) \X Row(p, t) :
          /\ uv[1].x1 + MinGutter <= uv[2].x0
          /\ ~\E w \in Row(p, t) : uv[1].x0 < w.x0 /\ w.x0 < uv[2].x0}}

\* A row as wide as the page, without a blank.
Crossing(p, t) ==
    /\ Row(p, t) # {} /\ Blanks(p, t) = {}
    /\ \E u \in Row(p, t) : \A w \in p.words : u.x0 <= w.x0
    /\ \E u \in Row(p, t) : \A w \in p.words : w.x1 <= u.x1

\* The rows from low to high that have a blank, and what their blanks have in common.
Split(p, low, high) == {t \in RowTops(p, low, high) : Blanks(p, t) # {}}
Corridor(p, low, high) ==
    LET blanks == UNION {Blanks(p, t) : t \in Split(p, low, high)}
    IN  <<Max({b[1] : b \in blanks}), Min({b[2] : b \in blanks})>>

\* Cards side by side from row low to row high: enough of the rows have a blank where
\* the others have one, and every other row belongs to one card.  Between them and any
\* column layout further up there is a table or a line across the page.
Cards(p, low, high) ==
    LET taken == RowTops(p, low, high)
        split == Split(p, low, high)
        corridor == Corridor(p, low, high)
    IN  /\ low \in split /\ Cardinality(split) >= MinColumnLines
        /\ corridor[1] < corridor[2]
        /\ \A t \in taken : \A w \in Row(p, t) : w.x1 <= corridor[1] \/ w.x0 >= corridor[2]
        /\ \A t \in taken \ split : \E s \in split : \E b \in Blanks(p, s) :
             s < t /\ (\/ \A w \in Row(p, t) : w.x1 <= b[1]
                       \/ \A w \in Row(p, t) : w.x0 >= b[2])
        /\ \A t \in p.tables : t.bottom <= low \/ t.top > high
        /\ \A w \in p.words :
             w.top < low /\ Blanks(p, w.top) # {} =>
               \/ \E t \in p.tables : w.top < t.bottom /\ t.bottom <= low
               \/ \E t \in w.top + 1..low - 1 : Crossing(p, t)

\* The columns of a page are not interleaved (convert.py:37-49): where cards stand side
\* by side, all of the left one is read before any of the right one, whatever stands
\* above and below them.
ColumnsApart ==
    Converted => \A n \in DOMAIN entry.pages :
      LET p == entry.pages[n]
          tops == {w.top : w \in p.words}
      IN  Level(p) => \A low, high \in tops : Cards(p, low, high) =>
            \A u, v \in p.words :
              /\ {u.top, v.top} \subseteq low..high
              /\ u.x1 <= Corridor(p, low, high)[1] /\ Corridor(p, low, high)[2] <= v.x0
              => \A at \in Places(n, u), by \in Places(n, v) : at[1] < by[1]

\* The splitter always gets on: a step that finds text waiting to be cut hands the
\* first piece of it over whole, or leaves less of that piece, however long the words
\* and wherever the overlap begins.  With no deadlock, every document ends in its chunks.
Shortened(q, r) == /\ r # <<>> /\ Tail(r) = Tail(q)
                   /\ Len(Head(r).text) < Len(Head(q).text)
SplitShortens == [][queue # <<>> => queue' = Tail(queue) \/ Shortened(queue, queue')]_vars
=============================================================================

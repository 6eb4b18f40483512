--------------------------- MODULE MCDocumentPath ---------------------------
EXTENDS DocumentPath


\* The text of a line of each kind.
Wording(kind) ==
    CASE kind \in {"page", "blank"} -> <<>>
      [] kind = "section" -> <<"x", "sp", "x">>
      [] kind = "row"     -> <<"x", "sp", "x">>
      [] kind = "rule"    -> <<"x">>
      [] kind = "rates"   -> <<"x">>
      [] kind = "body"    -> <<"x", "x", ".">>
      [] OTHER            -> <<"x", "x">>

L(kind, name) == [kind |-> kind, name |-> name, text |-> Wording(kind)]
PageMark == L("page", NoName)

UpTo(S, n) == UNION {[1..k -> S] : k \in 0..n}
NoForm == [p \in 1..5 |-> [layout |-> "none", plain |-> "none", part |-> 1]]
NoPage == [words |-> {}, tables |-> {}]

Document(e, t, ls) ==
    [doc |-> <<PageMark>> \o ls, engine |-> e, docType |-> t, wageEntry |-> FALSE,
     form |-> NoForm, pages |-> <<NoPage>>]

\* Agreements, converted and not: articles, an appendix, numbered sections and
\* tables with and without a section number, on several pages.
AgreementLines ==
    {PageMark, L("rule", NoName), L("body", NoName), L("blank", NoName),
     L("article", "A1"), L("article", "A2"), L("appendix", "B")}
    \cup {L("section", s) : s \in {"S1", "S2"}}
    \cup {L("row", s) : s \in {NoName, "S2"}}

Agreements == {Document("pymupdf4llm", "agreement", ls) : ls \in UpTo(AgreementLines, 4)}
PrintedAgreements == {Document("none", "agreement", ls) : ls \in UpTo(AgreementLines, 3)}

\* One line of nine characters, every way of placing stops and blanks.
LongLines ==
    {t \in [1..9 -> {"x", ".", "sp"}] : t[1] # "sp" /\ t[9] # "sp"}
LongTexts == {Document("pymupdf4llm", "agreement",
                       <<[L("section", "S1") EXCEPT !.text = t]>>) : t \in LongLines}

\* Wage schedules that take the legacy path: ## headings and tables.
HeadedLines == {PageMark, L("rule", NoName), L("row", NoName), L("body", NoName),
                L("blank", NoName), L("head", NoName)}
Headed == {Document("pymupdf4llm", "wage_schedule", ls) : ls \in UpTo(HeadedLines, 4)}

\* Pages in columns: words are the runs of a grid of six places.
WordsAt(cells, top) ==
    {[x0 |-> a, x1 |-> b + 1, top |-> top] :
       <<a, b>> \in {r \in (0..5) \X (0..5) :
                       /\ r[1] <= r[2] /\ r[1]..r[2] \subseteq cells
                       /\ r[1] - 1 \notin cells /\ r[2] + 1 \notin cells}}
InColumns(words, tables) ==
    [Document("pdfplumber_columns", "agreement", <<>>) EXCEPT
       !.doc = <<>>, !.pages = <<[words |-> words, tables |-> tables]>>]
LastLines == {{}, {0, 5}, {2, 3}, {0, 2, 3, 5}}
ColumnPages ==
    {InColumns(WordsAt(a, 0) \cup WordsAt(b, 3) \cup WordsAt(c, 6), {}) :
       a, b \in SUBSET (0..5) \ {{}}, c \in LastLines}
\* Columns under other columns, with or without a line across the page between them.
StackedPages ==
    {InColumns(UNION {WordsAt(cells[i], 3 * (i - 1)) : i \in 1..4}, {}) :
       cells \in [1..4 -> {{0, 3}, {0, 5}, {2, 5}, {0, 1, 4, 5}, {0, 2, 5}, 0..5, {0}, {1, 2, 3}}]}
SlantedPages ==
    {InColumns({[x0 |-> 2 * i, x1 |-> 2 * i + 1, top |-> tops[i]] : i \in 0..2}, {}) :
       tops \in [0..2 -> 0..4]}
TablePages ==
    {InColumns(WordsAt({0, 4}, 2) \cup WordsAt({0, 4}, 4) \cup WordsAt({1, 2}, 6),
               {[x0 |-> 0, x1 |-> IF t % 2 = 0 THEN 6 ELSE 3, top |-> t, bottom |-> b[t],
                 rows |-> t % 3] : t \in DOMAIN b}) :
       b \in UNION {[ts -> 3..8] : ts \in {s \in SUBSET (1..6) : Cardinality(s) <= 2}}}
OrderedTables == {e \in TablePages : \A t \in e.pages[1].tables : t.top < t.bottom}

\* Sheets of two pages with the same words, or some of them.
CardWords == {WordsAt(c, 0) \cup WordsAt(c, 3) : c \in {{0}, {0, 1}, {0, 3}, {0, 2, 5}}}
Sheets == {[InColumns({}, {}) EXCEPT !.pages = <<[words |-> a, tables |-> {}],
                                                 [words |-> b, tables |-> {}]>>] :
             a, b \in CardWords}

\* Wage forms.
Label(p, a) == [kind |-> "label", name |-> NoName, text |-> <<"x", "x">>,
                period |-> p, apprentice |-> a]
Rates(v) == [kind |-> "rates", name |-> NoName, text |-> <<"x">>, values |-> v]
Band(ks) == [kind |-> "band", name |-> NoName, text |-> <<"x">>, keywords |-> ks]
FormLines == {Label(p, a) : p, a \in BOOLEAN}
             \cup {Rates(<<1, 1, 2>>), Band({"UNION"}), L("body", NoName)}

Form(ls, f) == [Document("pymupdf4llm", "wage_schedule", ls) EXCEPT
                  !.wageEntry = TRUE, !.form = f]
Whole == [p \in 1..5 |-> [layout |-> "whole", plain |-> "whole", part |-> 1]]
Forms == {Form(ls, Whole) : ls \in UpTo(FormLines, 4)}

\* Forms whose manifest entry asks for columns, should the parser give up.
FormSheets == {[Form(ls, Whole) EXCEPT !.engine = "pdfplumber_columns",
                                       !.pages = <<[words |-> a, tables |-> {}]>>] :
                 ls \in UpTo(FormLines, 2), a \in CardWords}

\* Two pages, every reading of them that two text layers of one page can give.
Layers == {f \in FormType : f.layout = "whole" => f.plain # "header"}
TwoPages ==
    {Form(<<Label(FALSE, FALSE), Rates(<<1, 1, 2>>), PageMark, first, second>>,
          [p \in 1..5 |-> IF p = 1 THEN f ELSE g]) :
       f, g \in Layers, first, second \in {Label(FALSE, FALSE), Rates(<<1, 1, 2>>),
                                           L("body", NoName)}}

\* One line of rates under every heading.
Headings ==
    {Form(<<Label(FALSE, FALSE), Band(ks), Rates(v)>>, Whole) :
       ks \in SUBSET {"WELFARE", "UNION", "ADMIN", "TRAINING"},
       v \in UNION {[1..n -> {1, 2, 4}] : n \in 2..5}}

MCCorpus ==
    [agreements |-> Agreements, printed |-> PrintedAgreements, long |-> LongTexts,
     headed |-> Headed, columns |-> ColumnPages, stacked |-> StackedPages, slanted |-> SlantedPages,
     tables |-> OrderedTables, sheets |-> Sheets, formSheets |-> FormSheets, forms |-> Forms, twoPages |-> TwoPages, named |-> Headings]
=============================================================================

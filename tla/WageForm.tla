------------------------------ MODULE WageForm ------------------------------
(***************************************************************************)
(* epsca_wage_parser.py: the pages of a wage schedule's printed form are   *)
(* read into classification groups and notes, and those into chunks        *)
(* (services/ingestion/epsca_wage_parser.py).                              *)
(*                                                                         *)
(* The lines of a form are lines of the document: "band" (a line of the    *)
(* column headings, with its keywords), "rates" (a dated line, with its    *)
(* values), "label" (a classification, period or apprentice or both), and  *)
(* anything else.                                                          *)
(***************************************************************************)
EXTENDS Chunking

CONSTANTS
    MaxNotesChars,   \* _MAX_NOTES_CHARS
    SumTolerance     \* _SUM_TOLERANCE

ASSUME NotesAssumption == MaxNotesChars \in Nat \ {0} /\ SumTolerance \in Nat

VARIABLES
    form,    \* by page number: [layout, plain, part], see FormType
    parsed   \* the pages read so far

formVars == <<form, parsed>>

\* What a text layer of a page shows: the whole form, its header block alone,
\* or nothing the parser takes for a form.
Readings == {"whole", "header", "none"}
FormType == [layout : Readings, plain : Readings, part : 1..2]

-----------------------------------------------------------------------------
(* Column names of one dated line *)

\* The amounts summed up to each place; sums[1] = 0.
Total(values, n) == FoldLeft(LAMBDA a, v : a + v, 0, SubSeq(values, 1, n))

Distance(a, b) == IF a < b THEN b - a ELSE a - b

\* _find_total_index, 0 for None: the first of these places that adds up.
TotalIndex(values) ==
    LET order == <<5, 6, 4, 3, 7, 2>>
        fits == {i \in DOMAIN order :
                   /\ order[i] < Len(values)
                   /\ Distance(Total(values, order[i]), values[order[i] + 1]) <= SumTolerance}
    IN  IF fits = {} THEN 0 ELSE order[Min(fits)]

\* _trailing_columns
Trailing(band) ==
    LET all == <<"BILL", "EDUCATION", "ADMIN", "TRAINING", "STABILIZ", "EPSCA">>
        Shown(n) == \/ n = "EPSCA"
                    \/ n \in band /\ ~(n = "TRAINING" /\ "ADMIN" \in band)
    IN  Picked(all, {i \in DOMAIN all : Shown(all[i])})

\* _COMPONENT_NAMES; pension and retirement are one name here.
Components(k) ==
    CASE k = 2 -> <<"base", "vacation">>
      [] k = 3 -> <<"base", "vacation", "UNION">>
      [] k = 4 -> <<"base", "vacation", "WELFARE", "UNION">>
      [] k = 5 -> <<"base", "vacation", "WELFARE", "PENSION", "UNION">>
      [] k = 6 -> <<"base", "vacation", "WELFARE", "PENSION", "RRSP", "UNION">>
      [] k = 7 -> <<"base", "vacation", "WELFARE", "PENSION", "RRSP", "UNION", "other">>

\* _header_positional_names, before its length is compared.
Positional(band) ==
    LET all == <<"base", "vacation", "WELFARE", "PENSION", "RRSP", "UNION">>
    IN  Picked(all, {i \in DOMAIN all : all[i] \in {"base", "vacation"} \cup band})
        \o <<"total">> \o Trailing(band)

\* A column is named, or only numbered.
Named(names) == [i \in DOMAIN names |-> <<names[i], 0>>]
Numbered(n) == [i \in 1..n |-> <<"column", i>>]

\* The extra amounts a heading does not explain.
Extras(band, n) == IF Len(Trailing(band)) = n THEN Named(Trailing(band)) ELSE Numbered(n)

\* _column_names: <<names, sum_valid>>
ColumnNames(values, band) ==
    LET k == TotalIndex(values) IN
    IF k # 0
    THEN <<Named(Components(k) \o <<"total">>) \o Extras(band, Len(values) - k - 1), TRUE>>
    ELSE IF Len(Positional(band)) = Len(values) THEN <<Named(Positional(band)), FALSE>>
    ELSE <<Numbered(Len(values)), FALSE>>

-----------------------------------------------------------------------------
(* parse_wage_schedule_text: one page, line by line *)

NoLabel == 0
EmptyPage == [labels |-> <<>>, rates |-> <<>>, parent |-> NoLabel, band |-> {},
              groups |-> <<>>, notes |-> <<>>]

\* _flush_group: groups of periods alone are headed by their apprentice label.
FlushGroup(a) ==
    IF a.labels = <<>> \/ a.rates = <<>> THEN a.groups
    ELSE LET periods == \A i \in DOMAIN a.labels : doc[a.labels[i]].period
             heads == IF a.parent # NoLabel /\ periods THEN <<a.parent>> ELSE <<>>
             others == {i \in DOMAIN a.labels : a.labels[i] \notin Range(heads)}
         IN  Append(a.groups, [labels |-> heads \o Picked(a.labels, others),
                               rates |-> a.rates])

RateRow(l, band) == [line |-> l, columns |-> ColumnNames(doc[l].values, band)[1],
                     valid |-> ColumnNames(doc[l].values, band)[2]]

\* Faulty: The new label is the parent already when the group before it closes.
TakeLabelParentFirst(a, l) ==
    LET headed == [a EXCEPT !.parent = IF doc[l].apprentice THEN l ELSE @]
        flushed == IF a.rates = <<>> THEN headed
                   ELSE [headed EXCEPT !.groups = FlushGroup(headed),
                                       !.labels = <<>>, !.rates = <<>>]
    IN  [flushed EXCEPT !.labels = Append(@, l)]

TakeLabel(a, l) ==
    LET flushed == IF a.rates = <<>> THEN a
                   ELSE [a EXCEPT !.groups = FlushGroup(a), !.labels = <<>>, !.rates = <<>>]
    IN  [flushed EXCEPT !.labels = Append(@, l),
                        !.parent = IF doc[l].apprentice THEN l ELSE @]

ParseLine(a, l) ==
    CASE doc[l].kind = "band"  -> [a EXCEPT !.band = @ \cup doc[l].keywords]
      [] doc[l].kind = "rates" -> [a EXCEPT !.rates = Append(@, RateRow(l, a.band))]
      [] doc[l].kind = "label" -> TakeLabel(a, l)
      [] OTHER                 -> [a EXCEPT !.notes = Append(@, l)]

\* The page at marker p as one of its text layers shows it.
ParseText(p, reading) ==
    LET lines == IF reading = "whole" THEN InOrder(LinesOfPage(p)) ELSE <<>>
        read[n \in 0..Len(lines)] == IF n = 0 THEN EmptyPage ELSE ParseLine(read[n - 1], lines[n])
        last == read[Len(lines)]
    IN  IF form[PageNumber(p)].part > 1 THEN [groups |-> <<>>, notes |-> lines]
        ELSE [groups |-> FlushGroup(last), notes |-> last.notes]

-----------------------------------------------------------------------------
(* parse_wage_schedule_pdf and build_wage_chunks *)

\* A page without a form, or a first part without rates, is read once more in
\* its plain text; a page neither reading takes is skipped.
ParsePage ==
    /\ AtLine /\ doc[pos].kind = "page"
    /\ LET f == form[PageNumber(pos)]
           bare == f.part = 1 /\ ParseText(pos, f.layout).groups = <<>>
           reading == IF (f.layout = "none" \/ bare) /\ f.plain # "none"
                      THEN f.plain ELSE f.layout
       IN  parsed' = IF reading = "none" THEN parsed
                     ELSE Append(parsed, [number |-> PageNumber(pos),
                                          read |-> ParseText(pos, reading)])
    /\ pos' = pos + 1 + Cardinality(LinesOfPage(pos))
    /\ UNCHANGED <<doc, page, text, rows, blocks, chunkVars, form>>

AllParsed == pos = Len(doc) + 1
NoRates == \A i \in DOMAIN parsed : parsed[i].read.groups = <<>>

WageChunk(ls, number, isTable) ==
    [text |-> Joined(ls), page |-> number, table |-> isTable, lead |-> <<>>,
     article |-> NoName, title |-> ls[1], section |-> NoName, cutting |-> FALSE]

GroupChunk(g, number) ==
    WageChunk(g.labels \o [i \in DOMAIN g.rates |-> g.rates[i].line], number, TRUE)

\* _notes_chunks: a new chunk when the next line would exceed the budget.
NotesParts(ls) ==
    LET Size(part) == Len(Joined(part)) + 1
        Add(parts, l) ==
          IF parts = <<>> \/ Size(Last(parts)) + Len(doc[l].text) > MaxNotesChars
          THEN Append(parts, <<l>>)
          ELSE Append(Front(parts), Append(Last(parts), l))
        added[n \in 0..Len(ls)] == IF n = 0 THEN <<>> ELSE Add(added[n - 1], ls[n])
    IN  added[Len(ls)]

PageChunks(p) ==
    [i \in DOMAIN p.read.groups |-> GroupChunk(p.read.groups[i], p.number)]
    \o [i \in DOMAIN NotesParts(p.read.notes) |->
          WageChunk(NotesParts(p.read.notes)[i], p.number, FALSE)]

BuildWageChunks ==
    /\ AllParsed /\ ~NoRates
    /\ out' = FlattenSeq([i \in DOMAIN parsed |-> PageChunks(parsed[i])])
    /\ pos' = pos + 1
    /\ UNCHANGED <<doc, page, text, rows, blocks, docType, engine, blockNo, lineNo,
                   context, buffer, queue, form, parsed>>
=============================================================================

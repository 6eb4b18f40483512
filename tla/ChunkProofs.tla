----------------------------- MODULE ChunkProofs -----------------------------
(***************************************************************************)
(* What the chunks of a document say of it, for every corpus: its tables   *)
(* are whole, its headings are cited where they stand, and the amounts of  *)
(* a wage form are called what the page calls them.                        *)
(***************************************************************************)
EXTENDS DocumentPathProofs

-----------------------------------------------------------------------------
(* Tables                                                                  *)

\* What the pipe lines of a table come to: its rows, without the first separator.
RowsOf(run) == run \ {Min({k \in run : doc[k].kind = "rule"})}

Meets(c, run) == LinesIn(c) \cap run # {}
Free(s, run) == \A i \in 1..Len(s) : ~Meets(s[i], run)

\* A table of its own that is the run; no other piece of s has a line of it.
Whole(c, run) ==
    /\ c.table /\ LinesIn(c) = RowsOf(run)
    /\ \A l \in RowsOf(run) : \E ch \in SolidIn(c.text) : ch[2] = l

Sole(s, run) == \E i \in 1..Len(s) :
                  /\ Whole(s[i], run)
                  /\ \A j \in 1..Len(s) : Meets(s[j], run) => j = i

\* Block t of bs is the table, and no other has a line of it.
BlockOf(bs, t, run) ==
    /\ bs[t].table /\ Range(bs[t].lines) = RowsOf(run)
    /\ \A b \in 1..Len(bs) : Range(bs[b].lines) \cap run # {} => b = t

\* The first line that is pending or still to be read.
Begin == pos - Len(rows)

\* The blocks bs are those of the lines before n, and the tables begun there are whole.
ReadUpTo(bs, n) ==
    /\ \A b \in 1..Len(bs) : \A l \in Range(bs[b].lines) : l < n
    /\ \A run \in TableRuns : (\E l \in run : l < n) => \E t \in 1..Len(bs) : BlockOf(bs, t, run)

\* The pending rows are the pipe lines just read, from the first one of their run.
RowsPending ==
    /\ Len(rows) < pos
    /\ \A i \in 1..Len(rows) : rows[i] = Begin + i - 1
    /\ Begin \in 2..Len(doc) + 1 => ~Pipe(Begin - 1)
    /\ \A i \in 1..Len(text) : text[i] < pos /\ ~Pipe(text[i])
    /\ ReadUpTo(blocks, Begin)

\* A table is before the chunker, in the queue or among the chunks, and nowhere twice.
Placed(t, run) ==
    IF blockNo <= t THEN Free(queue, run) /\ Free(out, run)
    ELSE \/ Sole(queue, run) /\ Free(out, run)
         \/ Free(queue, run) /\ Sole(out, run)

TableAt(run) == \E t \in 1..Len(blocks) : BlockOf(blocks, t, run) /\ Placed(t, run)

Clear(run) == \A i \in 1..Len(buffer) : buffer[i].line \notin run

TablesKept ==
    path = "legacy" /\ engine # "none" =>
      /\ RowsPending
      /\ Extracted => \A run \in TableRuns :
           TableAt(run) /\ Clear(run)

\* A table is a run of pipe lines between lines that are none, a separator among them.
LEMMA RunIs ==
    ASSUME IsDocument(doc), NEW run \in TableRuns
    PROVE  \E j, e \in DocLine :
             /\ j < e /\ run = j..e /\ \A n \in j..e : Pipe(n)
             /\ j = 1 \/ ~Pipe(j - 1)
             /\ e = Len(doc) \/ ~Pipe(e + 1)
             /\ \E r \in j..e : doc[r].kind = "rule"
<1> DEFINE From(k) == {m \in k..Len(doc) : \A n \in k..m : Pipe(n)}
<1>1. Len(doc) \in Nat /\ DOMAIN doc = DocLine /\ DocLine = 1..Len(doc)
  BY DocumentLines DEF DocLine
<1>2. PICK j \in DocLine : /\ run = From(j) /\ Pipe(j) /\ (j = 1 \/ ~Pipe(j - 1))
                           /\ Cardinality(From(j)) > 1
                           /\ \E n \in From(j) : doc[n].kind = "rule"
  BY <1>1 DEF TableRuns
<1>3. run = {m \in j..Len(doc) : \A n \in j..m : Pipe(n)}
  BY <1>2
<1> HIDE DEF From
<1>4. run \in SUBSET (1..Len(doc)) /\ j \in run /\ j \in Nat /\ j >= 1
  BY <1>1, <1>2, <1>3
<1>5. IsFiniteSet(run) /\ run \subseteq Int /\ run # {}
  BY <1>1, <1>4, SomePlaces
<1>6. PICK e \in run : \A m \in run : m <= e
  BY <1>5, GreatestNumber
<1>7. e \in DocLine /\ e \in Int /\ j <= e /\ \A n \in j..e : Pipe(n)
  BY <1>1, <1>3, <1>4, <1>6
<1>8. run = j..e
  <2>1. \A m \in run : m \in j..e
    BY <1>3, <1>4, <1>6
  <2>2. ASSUME NEW m \in j..e PROVE m \in run
    <3>1. m \in j..Len(doc)
      BY <1>1, <1>4, <1>7
    <3>2. \A n \in j..m : n \in j..e
      BY <1>4, <1>7
    <3> QED
      BY <1>3, <1>7, <3>1, <3>2
  <2> QED
    BY <2>1, <2>2
<1>9. e = Len(doc) \/ ~Pipe(e + 1)
  <2>0. SUFFICES ASSUME ~(e = Len(doc) \/ ~Pipe(e + 1)) PROVE FALSE
    OBVIOUS
  <2>1. e # Len(doc) /\ Pipe(e + 1)
    BY <2>0 DEF Pipe
  <2>2. e + 1 \in j..Len(doc)
    <3>1. Len(doc) \in Nat /\ e \in 1..Len(doc) /\ j \in Nat /\ j <= e /\ e # Len(doc)
      BY <1>1, <1>4, <1>7, <2>1
    <3> QED
      BY <3>1
  <2>3. \A n \in j..e + 1 : n \in j..e \/ n = e + 1
    BY <1>4, <1>7
  <2>4. e + 1 \in run
    BY <1>3, <1>7, <2>1, <2>2, <2>3
  <2> QED
    BY <1>6, <1>7, <2>4
<1>10. j < e
  <2>1. SUFFICES ASSUME ~(j < e) PROVE FALSE
    OBVIOUS
  <2>2. run = {j}
    BY <1>4, <1>7, <1>8, <2>1
  <2>3. Cardinality(run) = 1
    BY <2>2, FS_Singleton
  <2> QED
    BY <1>2, <2>3
<1> QED
  BY <1>2, <1>7, <1>8, <1>9, <1>10

\* What is left of a table: a line of it at least.
LEMMA RowsOfRun ==
    ASSUME IsDocument(doc), NEW run \in TableRuns
    PROVE  RowsOf(run) \subseteq run /\ RowsOf(run) # {}
<1>1. PICK j, e \in DocLine : j < e /\ run = j..e
  BY RunIs
<1>2. j \in run /\ e \in run /\ j # e
  BY <1>1, DocumentLines
<1> QED
  BY <1>2 DEF RowsOf

\* Pipe lines between lines that are none: a table is before them, after them or is them.
LEMMA RunBetween ==
    ASSUME IsDocument(doc), NEW run \in TableRuns, NEW b \in Nat \ {0}, NEW z \in b..Len(doc) + 1,
           \A n \in b..z - 1 : Pipe(n), b = 1 \/ ~Pipe(b - 1), z = Len(doc) + 1 \/ ~Pipe(z)
    PROVE  \/ \A l \in run : l < b
           \/ \A l \in run : l >= z
           \/ run = b..z - 1
<1>1. Len(doc) \in Nat /\ DocLine = 1..Len(doc)
  BY DocumentLines DEF DocLine
<1>2. PICK j, e \in DocLine :
        /\ j < e /\ run = j..e /\ \A n \in j..e : Pipe(n)
        /\ j = 1 \/ ~Pipe(j - 1)
        /\ e = Len(doc) \/ ~Pipe(e + 1)
  BY RunIs
<1>3. j \in 1..Len(doc) /\ e \in 1..Len(doc)
  BY <1>1, <1>2
<1>4. ASSUME j < b PROVE e < b
  <2>1. b # 1 /\ ~Pipe(b - 1) /\ b - 1 >= j
    BY <1>3, <1>4
  <2>2. b - 1 \notin j..e
    BY <1>2, <2>1
  <2> QED
    BY <1>3, <2>1, <2>2
<1>5. ASSUME b <= j, j < z PROVE j = b /\ e = z - 1
  <2>1. j = b
    <3>1. SUFFICES ASSUME j # b PROVE FALSE
      OBVIOUS
    <3>2. j - 1 \in b..z - 1 /\ j # 1
      BY <1>3, <1>5, <3>1
    <3> QED
      BY <1>2, <3>2
  <2>2. e < z
    <3>1. SUFFICES ASSUME ~(e < z) PROVE FALSE
      OBVIOUS
    <3>2. z \in j..e /\ z # Len(doc) + 1
      BY <1>1, <1>3, <1>5, <3>1
    <3> QED
      BY <1>2, <3>2
  <2>3. e >= z - 1
    <3>1. SUFFICES ASSUME ~(e >= z - 1) PROVE FALSE
      OBVIOUS
    <3>2. e + 1 \in b..z - 1 /\ e # Len(doc)
      BY <1>1, <1>2, <1>3, <1>5, <3>1
    <3> QED
      BY <1>2, <3>2
  <2> QED
    BY <1>3, <2>1, <2>2, <2>3
<1>6. \A l \in run : l \in Int /\ j <= l /\ l <= e
  BY <1>2, <1>3
<1>7. CASE j < b
  BY <1>3, <1>4, <1>6, <1>7
<1>8. CASE ~(j < b) /\ j < z
  BY <1>2, <1>3, <1>5, <1>8
<1>9. CASE ~(j < z)
  BY <1>3, <1>6, <1>9
<1> QED
  BY <1>7, <1>8, <1>9

\* One more block: the tables begun before are not in it, and it is the one begun since.
LEMMA PlusBlock ==
    ASSUME NEW bs \in Seq(Blocks), NEW b \in Blocks, NEW n \in Nat, NEW m \in Nat, n <= m,
           ReadUpTo(bs, n), \A l \in Range(b.lines) : l < m,
           \A run \in TableRuns :
             IF \E l \in run : l < n THEN Range(b.lines) \cap run = {}
             ELSE (\E l \in run : l < m) => b.table /\ Range(b.lines) = RowsOf(run)
    PROVE  ReadUpTo(Append(bs, b), m)
<1> DEFINE all == Append(bs, b)
           k == Len(bs)
<1>1. /\ k \in Nat /\ Len(all) = k + 1 /\ all[k + 1] = b /\ \A i \in 1..k : all[i] = bs[i]
  <2> HIDE DEF Blocks
  <2> QED
    BY AppendProperties, LenProperties
<1> HIDE DEF all, k
<1>2. \A i \in 1..Len(all) : (i \in 1..k /\ all[i] = bs[i]) \/ (i = k + 1 /\ all[i] = b)
  BY <1>1
<1>3. /\ \A i \in 1..k : \A l \in Range(bs[i].lines) : l < n
      /\ \A run \in TableRuns : (\E l \in run : l < n) => \E t \in 1..k : BlockOf(bs, t, run)
  BY DEF ReadUpTo, k
<1>4. ASSUME NEW i \in 1..Len(all), NEW l \in Range(all[i].lines) PROVE l < m
  <2>1. CASE i \in 1..k /\ all[i] = bs[i]
    <3>1. i \in 1..k /\ l \in Range(bs[i].lines)
      BY <1>4, <2>1
    <3>2. bs[i] \in Blocks
      <4> HIDE DEF Blocks
      <4> QED
        BY <3>1 DEF k
    <3>3. l \in DocLine
      <4>1. bs[i].lines \in Seq(DocLine)
        BY <3>2 DEF Blocks
      <4> QED
        BY <3>1, <4>1, Places1
    <3>4. l \in Int /\ l < n
      BY <1>3, <3>1, <3>3 DEF DocLine
    <3> QED
      BY <3>4
  <2>2. CASE all[i] = b
    BY <1>4, <2>2
  <2> QED
    BY <1>2, <2>1, <2>2
<1>5. ASSUME NEW run \in TableRuns, \E l \in run : l < m PROVE \E t \in 1..Len(all) : BlockOf(all, t, run)
  <2>1. CASE \E l \in run : l < n
    <3>1. PICK t \in 1..k : BlockOf(bs, t, run)
      BY <1>3, <2>1
    <3>2. Range(b.lines) \cap run = {}
      BY <2>1
    <3>3. t \in 1..Len(all) /\ all[t] = bs[t]
      BY <1>1
    <3>4. ASSUME NEW i \in 1..Len(all), Range(all[i].lines) \cap run # {} PROVE i = t
      <4>1. i \in 1..k /\ all[i] = bs[i]
        BY <1>2, <3>2, <3>4
      <4>2. Range(bs[i].lines) \cap run # {} /\ i \in 1..Len(bs)
        BY <3>4, <4>1 DEF k
      <4> QED
        BY <3>1, <4>2 DEF BlockOf
    <3> QED
      BY <3>1, <3>3, <3>4 DEF BlockOf
  <2>2. CASE ~\E l \in run : l < n
    <3>1. b.table /\ Range(b.lines) = RowsOf(run)
      BY <1>5, <2>2
    <3>2. k + 1 \in 1..Len(all) /\ all[k + 1] = b
      BY <1>1
    <3>3. \A i \in 1..Len(all) : Range(all[i].lines) \cap run # {} => i = k + 1
      BY <1>2, <1>3, <2>2
    <3> QED
      BY <3>1, <3>2, <3>3 DEF BlockOf
  <2> QED
    BY <2>1, <2>2
<1>6. ReadUpTo(all, m)
  BY <1>4, <1>5 DEF ReadUpTo
<1> QED
  BY <1>6 DEF all

\* Pending rows that are a table become its block; whatever they are, they are all of it.
LEMMA RowsTable ==
    ASSUME IsDocument(doc), rows \in Seq(DocLine), NEW b \in Nat \ {0}, NEW z \in Nat, b < z,
           Len(rows) = z - b, \A i \in 1..Len(rows) : rows[i] = b + i - 1
    PROVE  /\ Range(rows) = b..z - 1
           /\ Range(ParsePipeTable(rows).lines) \subseteq b..z - 1
           /\ \A run \in TableRuns : run = b..z - 1 =>
                /\ ParsePipeTable(rows).table
                /\ Range(ParsePipeTable(rows).lines) = RowsOf(run)
<1> DEFINE n == Len(rows)
           at == {i \in DOMAIN rows : doc[rows[i]].kind = "rule"}
           first == Min(at)
           block == ParsePipeTable(rows)
<1>1. n \in Nat /\ n = z - b /\ DOMAIN rows = 1..n /\ Range(rows) = {rows[i] : i \in 1..n}
  BY Places1
<1>2. \A i \in 1..n : rows[i] = b + i - 1
  OBVIOUS
<1>3. block = IF n < 2 \/ at = {} THEN Block(FALSE, rows)
              ELSE Block(TRUE, Picked(rows, DOMAIN rows \ {first}))
  BY DEF ParsePipeTable
<1> HIDE DEF n, block
<1>4. Range(rows) = b..z - 1
  <2>1. \A i \in 1..n : b + i - 1 \in b..z - 1
    BY <1>1
  <2>2. ASSUME NEW l \in b..z - 1 PROVE l \in Range(rows)
    <3>1. l - b + 1 \in 1..n /\ b + (l - b + 1) - 1 = l
      BY <1>1
    <3> QED
      BY <1>1, <1>2, <3>1
  <2> QED
    BY SMTT(30), <1>1, <1>2, <2>1, <2>2
<1>5. at \in SUBSET (1..n)
  BY <1>1
<1>6. IsFiniteSet(at) /\ at \subseteq Int
  BY <1>1, <1>5, SomePlaces
<1> DEFINE rest == DOMAIN rows \ {first}
<1>7. Range(Picked(rows, rest)) = {rows[i] : i \in rest}
  BY PickedFrom
<1>8. Range(block.lines) \subseteq b..z - 1
  <2>1. block.lines = rows \/ block.lines = Picked(rows, rest)
    BY <1>3 DEF Block
  <2>2. {rows[i] : i \in rest} \subseteq Range(rows)
    BY <1>1
  <2> QED
    BY <1>4, <1>7, <2>1, <2>2
<1>9. ASSUME NEW run \in TableRuns, run = b..z - 1
      PROVE  block.table /\ Range(block.lines) = RowsOf(run)
  <2>1. PICK j, e \in DocLine : j < e /\ run = j..e /\ \E r \in j..e : doc[r].kind = "rule"
    BY RunIs
  <2>2. PICK r \in run : doc[r].kind = "rule"
    BY <2>1
  <2>3. j \in run /\ e \in run /\ j \in Nat /\ e \in Nat
    BY <2>1, DocumentLines
  <2>4. ~(n < 2)
    BY <1>1, <1>9, <2>1, <2>3
  <2>5. at # {} /\ first \in at /\ \A i \in at : first <= i
    <3>1. PICK i \in 1..n : rows[i] = r
      BY <1>1, <1>4, <1>9
    <3>2. i \in at
      BY <1>1, <2>2, <3>1
    <3> HIDE DEF at
    <3> QED
      BY <1>6, <3>2, LeastOf
  <2>6. block.table /\ Range(block.lines) = {rows[i] : i \in rest}
    <3>1. block = Block(TRUE, Picked(rows, rest))
      BY <1>3, <2>4, <2>5
    <3>2. block.table = TRUE /\ block.lines = Picked(rows, rest)
      BY <3>1 DEF Block
    <3> QED
      BY <1>7, <3>2
  <2> DEFINE rules == {k \in run : doc[k].kind = "rule"}
  <2>7. rows[first] \in rules /\ first \in 1..n /\ first \in Nat /\ rows[first] = b + first - 1
    <3>1. first \in 1..n /\ rows[first] \in Range(rows) /\ doc[rows[first]].kind = "rule"
      BY <1>1, <1>5, <2>5
    <3> QED
      BY <1>1, <1>2, <1>4, <1>9, <3>1
  <2>8. \A k \in rules : rows[first] <= k
    <3> SUFFICES ASSUME NEW k \in rules PROVE rows[first] <= k
      OBVIOUS
    <3>1. PICK i \in 1..n : rows[i] = k
      BY <1>1, <1>4, <1>9
    <3>2. i \in at
      BY <1>1, <3>1
    <3>3. first <= i /\ k = b + i - 1
      BY <1>2, <2>5, <3>1, <3>2
    <3> QED
      BY <2>7, <3>3
  <2>9. Min(rules) = rows[first]
    <3>1. IsFiniteSet(rules) /\ rules \subseteq Int
      <4>1. IsFiniteSet(run) /\ run \subseteq Int
        BY <1>9, FS_Interval
      <4> QED
        BY <4>1, FS_Subset
    <3> HIDE DEF rules
    <3>2. Min(rules) \in rules /\ \A k \in rules : Min(rules) <= k
      BY <2>7, <3>1, LeastOf
    <3>3. rows[first] <= Min(rules) /\ Min(rules) <= rows[first] /\ rows[first] \in Int /\ Min(rules) \in Int
      BY <2>7, <2>8, <3>1, <3>2
    <3> HIDE DEF first
    <3> QED
      BY <3>3
  <2>10. RowsOf(run) = run \ {rows[first]}
    BY <2>9 DEF RowsOf
  <2>11. {rows[i] : i \in rest} = run \ {rows[first]}
    <3>1. \A i \in rest : i \in 1..n /\ i # first
      BY <1>1
    <3>2. \A i \in 1..n : i # first => rows[i] # rows[first]
      BY <1>2, <2>7
    <3>3. \A i \in 1..n : i # first => i \in rest
      BY <1>1
    <3> HIDE DEF rest, first
    <3>4. \A i \in rest : rows[i] \in Range(rows) /\ rows[i] # rows[first]
      BY <1>1, <3>1, <3>2
    <3>5. ASSUME NEW l \in run, l # rows[first] PROVE \E i \in rest : rows[i] = l
      <4>1. PICK i \in 1..n : rows[i] = l
        BY <1>1, <1>4, <1>9
      <4>2. i # first
        BY <3>5, <4>1
      <4> QED
        BY <3>3, <4>1, <4>2
    <3> QED
      BY <1>4, <1>9, <3>4, <3>5
  <2> QED
    BY <2>6, <2>10, <2>11
<1> QED
  BY <1>4, <1>8, <1>9 DEF block

LEMMA TablePipes ==
    ASSUME IsDocument(doc), NEW run \in TableRuns, NEW l \in run
    PROVE  l \in DocLine /\ l \in Nat /\ Pipe(l)
<1>1. PICK j, e \in DocLine : j < e /\ run = j..e /\ \A n \in j..e : Pipe(n)
  BY RunIs
<1>2. DocLine = 1..Len(doc) /\ Len(doc) \in Nat
  BY DocumentLines DEF DocLine
<1> QED
  BY <1>1, <1>2

\* A line of no table changes nothing when it is read.
LEMMA PastText ==
    ASSUME IsDocument(doc), NEW bs \in Seq(Blocks), NEW n \in Nat, ReadUpTo(bs, n),
           \A run \in TableRuns : n \notin run
    PROVE  ReadUpTo(bs, n + 1)
<1>1. ASSUME NEW b \in 1..Len(bs), NEW l \in Range(bs[b].lines) PROVE l < n + 1
  <2>1. bs[b] \in Blocks
    <3> HIDE DEF Blocks
    <3> QED
      OBVIOUS
  <2>2. bs[b].lines \in Seq(DocLine)
    BY <2>1 DEF Blocks
  <2>3. l \in DocLine
    BY <2>2, Places1
  <2>4. l < n /\ l \in Int
    BY <2>3 DEF ReadUpTo, DocLine
  <2> QED
    BY <2>4
<1>2. ASSUME NEW run \in TableRuns, NEW l \in run, l < n + 1 PROVE l < n
  <2>1. l \in Nat
    BY TablePipes
  <2>2. n \notin run
    OBVIOUS
  <2>3. l # n
    BY <2>2
  <2> QED
    BY <1>2, <2>1, <2>3
<1> QED
  BY <1>1, <1>2 DEF ReadUpTo

\* A flush before a line that is no pipe, or at the end, makes whole what was pending.
LEMMA FlushReads ==
    ASSUME TypeInv, RowsPending, pos \in 1..Len(doc) + 1, InTable => pos = Len(doc) + 1 \/ ~Pipe(pos)
    PROVE  ReadUpTo(Flushed, pos)
<1>1. /\ IsDocument(doc) /\ page \in Nat /\ text \in Seq(DocLine) /\ rows \in Seq(DocLine)
      /\ blocks \in Seq(Blocks) /\ (\A i \in 1..Len(rows) : Pipe(rows[i]))
  BY DEF TypeInv, Entered, Typed, Pending
<1>2. Len(doc) \in Nat /\ Len(rows) \in Nat /\ pos \in Nat
  BY <1>1, DocumentLines, LenProperties
<1>3. /\ Len(rows) < pos /\ \A i \in 1..Len(rows) : rows[i] = Begin + i - 1
      /\ Begin \in 2..Len(doc) + 1 => ~Pipe(Begin - 1)
      /\ ReadUpTo(blocks, Begin) /\ Begin = pos - Len(rows)
  BY DEF RowsPending, Begin
<1> DEFINE b == Begin
<1>4. b \in Nat \ {0} /\ b <= pos /\ Len(rows) = pos - b /\ pos \in b..Len(doc) + 1
  BY <1>2, <1>3
<1>5. CASE InTable
  <2> DEFINE c == ParsePipeTable(rows)
  <2>1. c \in Blocks /\ Flushed = blocks \o <<c>> /\ rows # <<>>
    BY <1>1, <1>5, PipeTable DEF InTable, Flushed
  <2>2. b < pos
    <3>1. Len(rows) # 0
      BY <1>1, <2>1, EmptySeq
    <3> QED
      BY <1>2, <1>4, <3>1
  <2>3. /\ Range(rows) = b..pos - 1
        /\ Range(c.lines) \subseteq b..pos - 1
        /\ \A run \in TableRuns : run = b..pos - 1 => c.table /\ Range(c.lines) = RowsOf(run)
    <3>1. \A i \in 1..Len(rows) : rows[i] = b + i - 1
      BY <1>3
    <3> HIDE DEF b
    <3> QED
      BY <1>1, <1>2, <1>4, <2>2, <3>1, RowsTable
  <2>4. Flushed = Append(blocks, c)
    <3> HIDE DEF c, Blocks
    <3> QED
      BY <1>1, <2>1
  <2> HIDE DEF b, c
  <2>5. \A n \in b..pos - 1 : Pipe(n)
    <3>1. Range(rows) = {rows[i] : i \in 1..Len(rows)}
      BY <1>1, Places1
    <3> QED
      BY <1>1, <2>3, <3>1
  <2>6. b = 1 \/ ~Pipe(b - 1)
    <3>1. b # 1 => b \in 2..Len(doc) + 1
      BY <1>2, <1>4
    <3> QED
      BY <1>3, <3>1 DEF b
  <2>7. \A l \in Range(c.lines) : l < pos /\ l >= b /\ l \in Nat
    BY <1>2, <1>4, <2>3
  <2>8. ASSUME NEW run \in TableRuns
        PROVE  IF \E l \in run : l < b THEN Range(c.lines) \cap run = {}
               ELSE (\E l \in run : l < pos) => c.table /\ Range(c.lines) = RowsOf(run)
    <3>1. \/ \A l \in run : l < b
          \/ \A l \in run : l >= pos
          \/ run = b..pos - 1
      BY <1>1, <1>4, <1>5, <2>5, <2>6, RunBetween
    <3>2. \A l \in run : l \in Int
      BY <1>1, TablePipes
    <3>3. CASE \E l \in run : l < b
      <4>1. PICK l \in run : l < b
        BY <3>3
      <4>2. ~(l >= pos) /\ l \notin b..pos - 1
        BY <1>4, <3>2, <4>1
      <4>3. \A k \in run : k < b
        BY <3>1, <4>1, <4>2
      <4>4. \A k \in run : k \notin Range(c.lines)
        BY <1>4, <2>7, <3>2, <4>3
      <4> QED
        BY <3>3, <4>4
    <3>4. CASE ~\E l \in run : l < b
      <4>1. ASSUME NEW l \in run, l < pos PROVE run = b..pos - 1
        BY <1>2, <3>1, <3>2, <3>4, <4>1
      <4> QED
        BY <2>3, <3>4, <4>1
    <3> QED
      BY <3>3, <3>4
  <2>9. ReadUpTo(blocks, b)
    BY <1>3 DEF b
  <2> QED
    BY <1>1, <1>2, <1>4, <2>1, <2>4, <2>7, <2>8, <2>9, PlusBlock
<1>6. CASE ~InTable
  <2>1. Len(rows) = 0 /\ Begin = pos /\ ReadUpTo(blocks, pos)
    BY <1>2, <1>3, <1>6 DEF InTable
  <2>2. CASE \E i \in DOMAIN text : doc[text[i]].kind # "blank"
    <3> DEFINE c == Block(FALSE, text)
    <3>1. Flushed = Append(blocks, c)
      <4>1. Flushed = blocks \o <<c>>
        BY <1>6, <2>2 DEF Flushed, TextBlocks
      <4> HIDE DEF c, Blocks
      <4> QED
        BY <1>1, <4>1
    <3>2. DOMAIN text = 1..Len(text) /\ Range(text) = {text[i] : i \in 1..Len(text)}
      BY <1>1, Places1
    <3>3. c.lines = text /\ c \in Blocks
      BY <1>1, <2>2, <3>2 DEF Block, Blocks, Silent
    <3> HIDE DEF c
    <3>4. \A l \in Range(c.lines) : l < pos /\ ~Pipe(l)
      BY <3>2, <3>3 DEF RowsPending
    <3>5. \A run \in TableRuns : Range(c.lines) \cap run = {}
      <4>1. \A run \in TableRuns : \A l \in run : Pipe(l)
        BY <1>1, TablePipes
      <4> QED
        BY <3>4, <4>1
    <3> QED
      BY <1>1, <1>2, <2>1, <3>1, <3>3, <3>4, <3>5, PlusBlock
  <2>3. CASE ~\E i \in DOMAIN text : doc[text[i]].kind # "blank"
    <3>1. Flushed = blocks
      <4>1. Flushed = blocks \o <<>>
        BY <1>6, <2>3 DEF Flushed, TextBlocks
      <4> HIDE DEF Blocks
      <4> QED
        BY <1>1, <4>1
    <3> QED
      BY <2>1, <3>1
  <2> QED
    BY <2>2, <2>3
<1> QED
  BY <1>5, <1>6

LEMMA SameRuns ==
    ASSUME doc' = doc
    PROVE  /\ TableRuns' = TableRuns /\ (\A run : RowsOf(run)' = RowsOf(run))
           /\ ReadUpTo(blocks, Begin)' = ReadUpTo(blocks', Begin')
           /\ \A l : Pipe(l)' = Pipe(l)
<1>1. \A l : Pipe(l)' = Pipe(l)
  BY DEF Pipe
<1>2. TableRuns' = TableRuns
  BY <1>1 DEF TableRuns, Pipe
<1>3. \A run : RowsOf(run)' = RowsOf(run)
  BY DEF RowsOf
<1>4. \A t, run : BlockOf(blocks, t, run)' = BlockOf(blocks', t, run)
  BY <1>3 DEF BlockOf
<1>5. ReadUpTo(blocks, Begin)' = ReadUpTo(blocks', Begin')
  BY <1>2, <1>4 DEF ReadUpTo
<1> QED
  BY <1>1, <1>2, <1>3, <1>5

LEMMA AllReadNow ==
    TypeInv /\ RowsPending /\ Extracted /\ Unchunked /\ out = <<>>
      => \A run \in TableRuns : TableAt(run) /\ Clear(run)
<1> SUFFICES ASSUME TypeInv, RowsPending, Extracted, Unchunked, out = <<>>, NEW run \in TableRuns
             PROVE  TableAt(run) /\ Clear(run)
  OBVIOUS
<1>1. IsDocument(doc) /\ pos \in 1..Len(doc) + 2 /\ rows = <<>>
  BY DEF TypeInv, Entered, Typed, Pending
<1>2. Begin = Len(doc) + 2 /\ Len(doc) \in Nat
  BY <1>1, DocumentLines DEF Begin, Extracted
<1>3. PICK l \in run : TRUE
  BY <1>1, RowsOfRun
<1>4. l < Begin
  BY <1>1, <1>2, <1>3, TablePipes DEF DocLine
<1>5. PICK t \in 1..Len(blocks) : BlockOf(blocks, t, run)
  BY <1>3, <1>4 DEF RowsPending, ReadUpTo
<1>6. Free(queue, run) /\ Free(out, run) /\ blockNo <= t
  <2>1. Len(queue) = 0 /\ Len(out) = 0
    BY DEF Unchunked
  <2>2. blockNo = 1
    BY DEF Unchunked
  <2> QED
    BY <2>1, <2>2 DEF Free
<1>7. Len(buffer) = 0
  BY DEF Unchunked
<1> QED
  BY <1>5, <1>6, <1>7 DEF TableAt, Placed, Clear

\* When the last line is read every table is a block, and none is chunked.
LEMMA AllRead ==
    (TypeInv /\ RowsPending /\ Extracted /\ Unchunked /\ out = <<>>)'
      => (\A run \in TableRuns : TableAt(run) /\ Clear(run))'
BY AllReadNow, PTL

\* Each line the reader takes leaves the tables before it whole.
LEMMA ReadPending ==
    ASSUME TypeInv, RowsPending, ExtractMarkdown, TypeInv'
    PROVE  RowsPending'
<1>1. /\ IsDocument(doc) /\ text \in Seq(DocLine) /\ rows \in Seq(DocLine) /\ blocks \in Seq(Blocks)
      /\ pos \in 1..Len(doc) + 2 /\ page \in Nat /\ (rows # <<>> => text = <<>>)
      /\ \A i \in 1..Len(rows) : Pipe(rows[i])
  BY DEF TypeInv, Entered, Typed, Pending
<1>2. Len(doc) \in Nat /\ Len(rows) \in Nat /\ Len(text) \in Nat /\ DocLine = 1..Len(doc)
  BY <1>1, DocumentLines, LenProperties DEF DocLine
<1>3. /\ Len(rows) < pos /\ (\A i \in 1..Len(rows) : rows[i] = Begin + i - 1)
      /\ Begin \in 2..Len(doc) + 1 => ~Pipe(Begin - 1)
      /\ \A i \in 1..Len(text) : text[i] < pos /\ ~Pipe(text[i])
      /\ ReadUpTo(blocks, Begin)
  BY DEF RowsPending
<1>4. doc' = doc /\ pos' = pos + 1 /\ pos \in 1..Len(doc) + 1 /\ (AtLine => pos \in DocLine)
  BY <1>1, <1>2 DEF ExtractMarkdown, ReadPage, ReadPipe, ReadHeading, ReadText, EndOfFile, AtLine
<1>5. /\ TableRuns' = TableRuns /\ ReadUpTo(blocks, Begin)' = ReadUpTo(blocks', Begin')
      /\ \A l : Pipe(l)' = Pipe(l)
  BY <1>4, SameRuns
<1>6. blocks' \in Seq(Blocks)
  <2>1. Blocks' = Blocks
    BY <1>4, SameDocument
  <2> QED
    BY <2>1 DEF TypeInv, Typed
<1>7. InTable \/ (rows = <<>> /\ Len(rows) = 0 /\ Begin = pos)
  BY <1>2, <1>4 DEF InTable, Begin
\* The line read is no pipe: what was pending is flushed, or it was text.
<1>8. ASSUME \/ pos = Len(doc) + 1
             \/ ~Pipe(pos), rows' = <<>>, blocks' = Flushed \/ (~InTable /\ blocks' = blocks),
             \A i \in 1..Len(text') : text'[i] < pos + 1 /\ ~Pipe(text'[i])
      PROVE  RowsPending'
  <2>1. ReadUpTo(blocks', pos)
    BY <1>1, <1>3, <1>4, <1>7, <1>8, FlushReads
  <2>2. \A run \in TableRuns : pos \notin run
    <3>1. \A run \in TableRuns : \A l \in run : l \in 1..Len(doc) /\ Pipe(l)
      BY <1>1, <1>2, TablePipes
    <3> QED
      BY <1>2, <1>8, <3>1
  <2>3. ReadUpTo(blocks', pos + 1)
    BY <1>1, <1>2, <1>4, <1>6, <2>1, <2>2, PastText
  <2>4. Len(rows') = 0 /\ Begin' = pos + 1
    <3>1. Len(rows') = 0
      BY <1>8
    <3>2. Begin' = pos' - Len(rows')
      BY DEF Begin
    <3> QED
      BY <1>2, <1>4, <3>1, <3>2
  <2>5. Begin' \in 2..Len(doc) + 1 => ~Pipe(Begin' - 1)
    BY <1>2, <1>4, <1>8, <2>4
  <2>6. Len(rows') < pos'
    BY <1>4, <2>4
  <2>7. /\ \A i \in 1..Len(rows') : rows'[i] = Begin' + i - 1
        /\ ReadUpTo(blocks', Begin')
    BY <2>3, <2>4
  <2> QED
    BY <1>4, <1>5, <1>8, <2>5, <2>6, <2>7 DEF RowsPending
<1>9. CASE ReadPage
  <2>1. rows' = <<>> /\ text' = <<>> /\ blocks' = Flushed /\ ~Pipe(pos)
    BY <1>9 DEF ReadPage, Pipe
  <2> QED
    BY <1>8, <2>1
<1>10. CASE ReadHeading
  <2>1. rows' = <<>> /\ text' = <<pos>> /\ blocks' = Flushed /\ ~Pipe(pos)
    BY <1>10 DEF ReadHeading, Pipe
  <2>2. \A i \in 1..Len(text') : text'[i] = pos
    BY <2>1
  <2> QED
    BY <1>4, <1>8, <2>1, <2>2
<1>11. CASE ReadText
  <2>1. /\ rows' = <<>> /\ text' = Append(text, pos) /\ ~Pipe(pos) /\ AtLine
        /\ blocks' = (IF InTable THEN Flushed ELSE blocks)
    BY <1>11 DEF ReadText
  <2>2. \A i \in 1..Len(text') : (i \in 1..Len(text) /\ text'[i] = text[i]) \/ text'[i] = pos
    BY <1>1, <1>4, <2>1, AppendSays
  <2>3. ASSUME NEW i \in 1..Len(text') PROVE text'[i] < pos + 1 /\ ~Pipe(text'[i])
    <3>1. CASE i \in 1..Len(text) /\ text'[i] = text[i]
      <4>1. text[i] \in DocLine /\ text[i] < pos /\ ~Pipe(text[i])
        BY <1>1, <1>3, <3>1
      <4>2. text[i] \in Int
        BY <1>2, <4>1
      <4> QED
        BY <1>4, <3>1, <4>1, <4>2
    <3>2. CASE text'[i] = pos
      BY <1>4, <2>1, <3>2
    <3> QED
      BY <2>2, <3>1, <3>2
  <2> QED
    BY <1>8, <2>1, <2>3
<1>12. CASE EndOfFile
  <2>1. rows' = <<>> /\ text' = <<>> /\ blocks' = Flushed /\ pos = Len(doc) + 1
    BY <1>12 DEF EndOfFile
  <2> QED
    BY <1>8, <2>1
<1>13. CASE ReadPipe
  <2>1. /\ Pipe(pos) /\ text' = <<>> /\ rows' = Append(rows, pos) /\ AtLine
        /\ blocks' = (IF InTable THEN blocks ELSE Flushed)
    BY <1>13 DEF ReadPipe
  <2>2. /\ Len(rows') = Len(rows) + 1
        /\ \A i \in 1..Len(rows') : (i \in 1..Len(rows) /\ rows'[i] = rows[i])
                                    \/ (i = Len(rows) + 1 /\ rows'[i] = pos)
    BY <1>1, <1>4, <2>1, AppendSays
  <2>3. Begin' = Begin /\ Begin = pos - Len(rows)
    <3>1. Begin' = pos' - Len(rows') /\ Begin = pos - Len(rows)
      BY DEF Begin
    <3> QED
      BY <1>2, <1>4, <2>2, <3>1
  <2>4. ASSUME NEW i \in 1..Len(rows') PROVE rows'[i] = Begin + i - 1
    <3>1. CASE i \in 1..Len(rows) /\ rows'[i] = rows[i]
      BY <1>3, <3>1
    <3>2. CASE i = Len(rows) + 1 /\ rows'[i] = pos
      <4>1. pos = Begin + (Len(rows) + 1) - 1
        BY <1>2, <1>4, <2>3
      <4> QED
        BY <3>2, <4>1
    <3> QED
      BY <2>2, <3>1, <3>2
  <2>5. ReadUpTo(blocks', Begin)
    <3>1. CASE InTable
      BY <1>3, <2>1, <3>1
    <3>2. CASE ~InTable
      BY <1>4, <1>7, <2>1, <3>2, FlushReads
    <3> QED
      BY <3>1, <3>2
  <2>6. Len(rows') < pos'
    BY <1>2, <1>3, <1>4, <2>2
  <2>7. Begin' \in 2..Len(doc) + 1 => ~Pipe(Begin' - 1)
    BY <1>3, <2>3
  <2>8. \A i \in 1..Len(text') : FALSE
    BY <2>1
  <2> QED
    BY <1>4, <1>5, <2>3, <2>4, <2>5, <2>6, <2>7, <2>8 DEF RowsPending
<1> QED
  BY <1>9, <1>10, <1>11, <1>12, <1>13 DEF ExtractMarkdown

LEMMA ReadTables ==
    ASSUME TypeInv, TablesKept, Extract
    PROVE  TablesKept'
<1>1. /\ path = "legacy" /\ UNCHANGED <<chunkVars, formVars, entry, path>> /\ TypeInv' /\ Reads
      /\ engine = "none" \/ ExtractMarkdown
  BY ReadTypes DEF Extract
<1>2. /\ engine' = engine /\ path' = path /\ blockNo' = blockNo /\ lineNo' = lineNo
      /\ context' = context /\ buffer' = buffer /\ queue' = queue /\ out' = out
  BY <1>1 DEF chunkVars
<1>3. ~Extracted /\ Unchunked /\ out = <<>>
  BY <1>1 DEF Reads, TypeInv, InTurn
<1>4. CASE engine = "none"
  BY <1>2, <1>4 DEF TablesKept
<1>5. CASE engine # "none"
  <2>1. RowsPending
    BY <1>1, <1>5 DEF TablesKept
  <2>2. RowsPending'
    BY <1>1, <1>5, <2>1, ReadPending
  <2>3. Unchunked' /\ out' = <<>>
    BY <1>2, <1>3 DEF Unchunked
  <2>4. Extracted' => (\A run \in TableRuns : TableAt(run) /\ Clear(run))'
    BY <1>1, <2>2, <2>3, AllRead
  <2> QED
    BY <2>2, <2>4 DEF TablesKept
<1> QED
  BY <1>4, <1>5

-----------------------------------------------------------------------------
(* Tables on their way through the chunker                                 *)

LEMMA WholeMeets ==
    ASSUME IsDocument(doc), NEW run \in TableRuns, NEW c, Whole(c, run)
    PROVE  Meets(c, run) /\ c.table
BY RowsOfRun DEF Whole, Meets

\* One piece more.
LEMMA OneMore ==
    ASSUME IsDocument(doc), NEW run \in TableRuns, NEW s \in Seq(Pieces), NEW q \in Pieces
    PROVE  /\ Free(s, run) /\ ~Meets(q, run) => Free(Append(s, q), run)
           /\ Sole(s, run) /\ ~Meets(q, run) => Sole(Append(s, q), run)
           /\ Free(s, run) /\ Whole(q, run) => Sole(Append(s, q), run)
<1> DEFINE t == Append(s, q)
           n == Len(s)
<1>1. /\ n \in Nat /\ Len(t) = n + 1 /\ t[n + 1] = q /\ \A i \in 1..n : t[i] = s[i]
  <2> HIDE DEF Pieces
  <2> QED
    BY AppendProperties, LenProperties
<1> HIDE DEF t
<1>2. /\ \A i \in 1..Len(t) : (i \in 1..n /\ t[i] = s[i]) \/ (i = n + 1 /\ t[i] = q)
      /\ \A i \in 1..n : i \in 1..Len(t) /\ n + 1 \in 1..Len(t)
  BY <1>1
<1>3. n + 1 \in 1..Len(t)
  BY <1>1
<1>4. Free(s, run) /\ ~Meets(q, run) => Free(t, run)
  BY <1>2 DEF Free
<1>5. ASSUME Sole(s, run), ~Meets(q, run) PROVE Sole(t, run)
  <2>1. PICK i \in 1..n : Whole(s[i], run) /\ \A j \in 1..n : Meets(s[j], run) => j = i
    BY <1>5 DEF Sole
  <2>2. i \in 1..Len(t) /\ t[i] = s[i]
    BY <1>1, <1>2
  <2>3. \A j \in 1..Len(t) : Meets(t[j], run) => j = i
    BY <1>2, <1>5, <2>1
  <2> QED
    BY <2>1, <2>2, <2>3 DEF Sole
<1>6. ASSUME Free(s, run), Whole(q, run) PROVE Sole(t, run)
  <2>1. \A j \in 1..Len(t) : Meets(t[j], run) => j = n + 1
    BY <1>2, <1>6 DEF Free
  <2> QED
    BY <1>1, <1>3, <1>6, <2>1 DEF Sole
<1> QED
  BY <1>4, <1>5, <1>6 DEF t

\* The first piece taken, or replaced by one that says no more.
LEMMA FirstGone ==
    ASSUME AtWork, NEW run \in TableRuns, queue # <<>>
    PROVE  /\ Free(queue, run) => ~Meets(Head(queue), run) /\ Free(Tail(queue), run)
           /\ Sole(queue, run) => \/ Whole(Head(queue), run) /\ Free(Tail(queue), run)
                                  \/ ~Meets(Head(queue), run) /\ Sole(Tail(queue), run)
<1> DEFINE n == Len(queue)
<1>1. /\ Head(queue) = queue[1] /\ n \in Nat \ {0} /\ Len(Tail(queue)) = n - 1
      /\ \A i \in 1..n - 1 : Tail(queue)[i] = queue[i + 1]
  BY FirstPiece
<1>2. IsDocument(doc)
  BY DEF AtWork
<1>3. /\ \A i \in 1..n - 1 : i + 1 \in 1..n /\ i + 1 # 1
      /\ \A i \in 1..n : i # 1 => i - 1 \in 1..n - 1 /\ (i - 1) + 1 = i
      /\ 1 \in 1..n
  BY <1>1
<1>4. ASSUME Free(queue, run) PROVE ~Meets(Head(queue), run) /\ Free(Tail(queue), run)
  BY <1>1, <1>3, <1>4 DEF Free
<1>5. ASSUME Sole(queue, run)
      PROVE  \/ Whole(Head(queue), run) /\ Free(Tail(queue), run)
             \/ ~Meets(Head(queue), run) /\ Sole(Tail(queue), run)
  <2>1. PICK i \in 1..n : Whole(queue[i], run) /\ \A j \in 1..n : Meets(queue[j], run) => j = i
    BY <1>5 DEF Sole
  <2>2. CASE i = 1
    <3>1. \A j \in 1..n - 1 : ~Meets(Tail(queue)[j], run)
      BY <1>1, <1>3, <2>1, <2>2
    <3> QED
      BY <1>1, <2>1, <2>2, <3>1 DEF Free
  <2>3. CASE i # 1
    <3>1. ~Meets(Head(queue), run)
      BY <1>1, <1>3, <2>1, <2>3
    <3>2. i - 1 \in 1..n - 1 /\ Tail(queue)[i - 1] = queue[i]
      BY <1>1, <1>3, <2>3
    <3>3. ASSUME NEW j \in 1..n - 1, Meets(Tail(queue)[j], run) PROVE j = i - 1
      <4>1. j + 1 = i
        BY <1>1, <1>3, <2>1, <3>3
      <4> QED
        BY <4>1
    <3> QED
      BY <1>1, <2>1, <3>1, <3>2, <3>3 DEF Sole
  <2> QED
    BY <2>2, <2>3
<1> QED
  BY <1>4, <1>5

LEMMA FirstPut ==
    ASSUME NEW run \in TableRuns, NEW s \in Seq(Pieces), NEW q \in Pieces, ~Meets(q, run)
    PROVE  /\ Free(s, run) => Free(<<q>> \o s, run)
           /\ Sole(s, run) => Sole(<<q>> \o s, run)
<1> DEFINE t == <<q>> \o s
           n == Len(s)
<1>1. /\ n \in Nat /\ Len(t) = n + 1 /\ t[1] = q /\ \A i \in 1..n : t[i + 1] = s[i]
  <2> HIDE DEF Pieces
  <2>1. <<q>> \in Seq(Pieces) /\ Len(<<q>>) = 1 /\ <<q>>[1] = q
    OBVIOUS
  <2>2. /\ n \in Nat /\ Len(t) = 1 + n /\ t[1] = q /\ \A i \in 1..n : t[1 + i] = s[i]
    <3>1. Len(t) = Len(<<q>>) + Len(s)
          /\ \A i \in 1..Len(<<q>>) + Len(s) : t[i] = IF i <= Len(<<q>>) THEN <<q>>[i] ELSE s[i - Len(<<q>>)]
      BY <2>1, ConcatProperties
    <3>2. n \in Nat
      BY LenProperties
    <3>3. Len(t) = 1 + n /\ \A i \in 1..1 + n : t[i] = IF i <= 1 THEN <<q>>[i] ELSE s[i - 1]
      BY <2>1, <3>1
    <3> HIDE DEF t, n
    <3>4. 1 \in 1..1 + n /\ \A i \in 1..n : 1 + i \in 1..1 + n /\ ~(1 + i <= 1) /\ (1 + i) - 1 = i
      BY <3>2
    <3>5. t[1] = <<q>>[1]
      BY <3>3, <3>4
    <3>6. ASSUME NEW i \in 1..n PROVE t[1 + i] = s[i]
      <4>1. t[1 + i] = s[(1 + i) - 1]
        BY <3>3, <3>4
      <4> QED
        BY <3>4, <4>1
    <3> QED
      BY <2>1, <3>2, <3>3, <3>5, <3>6
  <2> QED
    BY <2>2
<1> HIDE DEF t
<1>2. ASSUME NEW j \in 1..Len(t), Meets(t[j], run) PROVE j - 1 \in 1..n /\ Meets(s[j - 1], run)
  <2>1. j # 1
    BY <1>1, <1>2
  <2>2. j - 1 \in 1..n /\ (j - 1) + 1 = j
    BY <1>1, <2>1
  <2> QED
    BY <1>1, <1>2, <2>2
<1>3. Free(s, run) => Free(t, run)
  BY <1>2 DEF Free
<1>4. ASSUME Sole(s, run) PROVE Sole(t, run)
  <2>1. PICK i \in 1..n : Whole(s[i], run) /\ \A j \in 1..n : Meets(s[j], run) => j = i
    BY <1>4 DEF Sole
  <2>2. i + 1 \in 1..Len(t) /\ t[i + 1] = s[i]
    BY <1>1
  <2>3. ASSUME NEW j \in 1..Len(t), Meets(t[j], run) PROVE j = i + 1
    <3>1. j - 1 = i
      BY <1>2, <2>1, <2>3
    <3> QED
      BY <1>1, <3>1
  <2> QED
    BY <2>1, <2>2, <2>3 DEF Sole
<1> QED
  BY <1>3, <1>4 DEF t

\* What a flush hands over has no line of a table if the buffer has none.
LEMMA HandsFree ==
    ASSUME NEW run, NEW pieces, Hands(pieces), Clear(run)
    PROVE  pieces \in Seq(Pieces) /\ Free(pieces, run)
BY DEF Hands, Clear, Free, Meets, LinesIn

\* The chunk of a table says what its block does.
LEMMA TableWhole ==
    ASSUME IsDocument(doc), context \in Contexts, NEW run \in TableRuns, NEW b \in Blocks,
           NEW section \in Names, NEW lead \in Seq(Char)
    PROVE  LET q == TablePiece(b, section, lead)
           IN  /\ q \in Pieces
               /\ Range(b.lines) = RowsOf(run) => Whole(q, run)
               /\ Range(b.lines) \cap run = {} => ~Meets(q, run)
<1> DEFINE q == TablePiece(b, section, lead)
<1>1. /\ q \in Pieces /\ q.table /\ q.text = Joined(b.lines)
      /\ SolidIn(q.text) = UNION {SolidIn(CharsOf(l)) : l \in Range(b.lines)}
  BY TablePieceSays
<1> HIDE DEF q
<1>2. \A ch \in Range(q.text) : ch[2] \in Range(b.lines)
  <2>1. b.lines \in Seq(DocLine)
    BY BlockLines
  <2> QED
    BY <1>1, <2>1, JoinedSays
<1>3. ASSUME Range(b.lines) = RowsOf(run), NEW l \in RowsOf(run)
      PROVE  \E ch \in SolidIn(q.text) : ch[2] = l
  <2>1. l \in DocLine /\ Pipe(l)
    BY RowsOfRun, TablePipes
  <2>2. PICK c \in DOMAIN doc[l].text : doc[l].text[c] # "sp"
    BY <2>1, DocumentLines DEF IsDocument, Pipe
  <2> DEFINE n == Len(doc[l].text)
  <2>3. n \in Nat /\ DOMAIN doc[l].text = 1..n /\ doc[l].text[c] \in {"x", ".", "sp"}
    <3>1. doc[l].text \in Seq({"x", ".", "sp"})
      BY <2>1, DocumentLines
    <3> QED
      BY <2>2, <3>1, Places1
  <2> HIDE DEF n
  <2>4. CharsOf(l) = [k \in 1..n |-> <<doc[l].text[k], l, k>>]
    BY DEF CharsOf, n
  <2> DEFINE ch == <<doc[l].text[c], l, c>>
  <2>5. ch \in Range(CharsOf(l)) /\ ch[2] = l
    BY <2>2, <2>3, <2>4 DEF Range
  <2>6. ~Blank(ch)
    BY <2>2, <2>3 DEF Blank
  <2> HIDE DEF ch
  <2>7. ch \in SolidIn(CharsOf(l))
    BY <2>5, <2>6 DEF SolidIn
  <2> QED
    BY <1>1, <1>3, <2>5, <2>7
<1>4. ASSUME Range(b.lines) = RowsOf(run) PROVE Whole(q, run)
  <2>1. LinesIn(q) \subseteq RowsOf(run)
    BY <1>2, <1>4 DEF LinesIn
  <2>2. RowsOf(run) \subseteq LinesIn(q)
    BY <1>3, <1>4 DEF LinesIn, SolidIn
  <2> QED
    BY <1>1, <1>3, <1>4, <2>1, <2>2 DEF Whole
<1>5. Range(b.lines) \cap run = {} => ~Meets(q, run)
  BY <1>2 DEF Meets, LinesIn
<1> QED
  BY <1>1, <1>4, <1>5 DEF q

\* A piece that lost blanks is as whole as before, and no longer.
LEMMA StrippedWhole ==
    ASSUME IsDocument(doc), NEW run \in TableRuns, NEW c, NEW t \in Seq(Char),
           Whole(c, run), SolidIn(t) = SolidIn(c.text), Range(t) \subseteq Range(c.text), NEW d,
           d.text = t, d.table = c.table
    PROVE  Whole(d, run) /\ t # <<>>
<1>1. \A l \in RowsOf(run) : \E ch \in SolidIn(d.text) : ch[2] = l
  BY DEF Whole
<1>2. LinesIn(d) \subseteq RowsOf(run)
  BY DEF Whole, LinesIn
<1>3. RowsOf(run) \subseteq LinesIn(d)
  BY <1>1 DEF LinesIn, SolidIn
<1>4. SolidIn(t) # {}
  BY <1>1, RowsOfRun
<1>5. t # <<>>
  BY <1>4 DEF SolidIn, Range
<1> QED
  BY <1>1, <1>2, <1>3, <1>5 DEF Whole

LEMMA SamePlaced ==
    ASSUME doc' = doc
    PROVE  \A t, run : Placed(t, run)' <=>
             IF blockNo' <= t THEN Free(queue', run) /\ Free(out', run)
             ELSE \/ Sole(queue', run) /\ Free(out', run)
                  \/ Free(queue', run) /\ Sole(out', run)
<1>1. \A run : RowsOf(run)' = RowsOf(run)
  BY SameRuns
<1>2. \A run : (Free(queue, run)' <=> Free(queue', run)) /\ (Free(out, run)' <=> Free(out', run))
  BY DEF Free, Meets, LinesIn
<1>3. \A run : (Sole(queue, run)' <=> Sole(queue', run)) /\ (Sole(out, run)' <=> Sole(out', run))
  BY <1>1 DEF Sole, Whole, Meets, LinesIn, SolidIn
<1> QED
  BY <1>2, <1>3 DEF Placed

\* Nothing in the queue: nothing of a table, and no table.
LEMMA EmptyQueue ==
    ASSUME NEW run, queue = <<>>
    PROVE  Free(queue, run) /\ ~Sole(queue, run)
<1>1. Len(queue) = 0
  OBVIOUS
<1> QED
  BY <1>1 DEF Free, Sole

\* A table comes to the queue when the chunker comes to its block, and no other time.
LEMMA TableThrough ==
    ASSUME AtWork, doc' = doc, Reading, blocks[blockNo].table, NEW pieces, Hands(pieces),
           NEW section \in Names, NEW lead \in Seq(Char),
           queue' = Append(pieces, TablePiece(blocks[blockNo], section, lead)),
           buffer' = <<>>, blockNo' = blockNo + 1, out' = out,
           NEW run \in TableRuns, NEW t \in 1..Len(blocks), BlockOf(blocks, t, run),
           Placed(t, run), Clear(run)
    PROVE  Placed(t, run)' /\ Clear(run)'
<1> DEFINE b == blocks[blockNo]
           q == TablePiece(b, section, lead)
<1>1. IsDocument(doc) /\ context \in Contexts /\ blocks \in Seq(Blocks) /\ queue = <<>>
  BY DEF AtWork, Reading
<1>2. Len(blocks) \in Nat /\ blockNo \in 1..Len(blocks) /\ b \in Blocks
  BY <1>1, Places1 DEF Reading
<1>3. /\ q \in Pieces
      /\ Range(b.lines) = RowsOf(run) => Whole(q, run)
      /\ Range(b.lines) \cap run = {} => ~Meets(q, run)
  BY <1>1, <1>2, TableWhole
<1> HIDE DEF q
<1>4. queue' = Append(pieces, q) /\ pieces \in Seq(Pieces) /\ Free(pieces, run)
  BY HandsFree DEF q
<1>5. /\ ~Meets(q, run) => Free(queue', run)
      /\ Whole(q, run) => Sole(queue', run)
  BY <1>1, <1>3, <1>4, OneMore
<1>6. blockNo = t => Whole(q, run)
  BY <1>3 DEF BlockOf
<1>7. blockNo # t => ~Meets(q, run)
  BY <1>2, <1>3 DEF BlockOf
<1>8. ~Sole(queue, run)
  BY <1>1, EmptyQueue
<1>9. Placed(t, run)'
  <2>1. CASE blockNo < t
    <3>1. blockNo <= t /\ blockNo # t /\ blockNo' <= t
      BY <1>2, <2>1
    <3> QED
      BY <1>5, <1>7, <3>1, SamePlaced DEF Placed
  <2>2. CASE blockNo = t
    <3>1. blockNo <= t /\ ~(blockNo' <= t)
      BY <1>2, <2>2
    <3> QED
      BY <1>5, <1>6, <2>2, <3>1, SamePlaced DEF Placed
  <2>3. CASE blockNo > t
    <3>1. ~(blockNo <= t) /\ blockNo # t /\ ~(blockNo' <= t)
      BY <1>2, <2>3
    <3> QED
      BY <1>5, <1>7, <1>8, <3>1, SamePlaced DEF Placed
  <2> QED
    BY <1>2, <2>1, <2>2, <2>3
<1>10. Clear(run)'
  BY DEF Clear
<1> QED
  BY <1>9, <1>10

\* A line of a text block is in no table.
LEMMA LineThrough ==
    ASSUME AtWork, doc' = doc, Reading, ~blocks[blockNo].table, NextLine, out' = out,
           \/ Hands(queue') /\ buffer' \in {<<>>, <<Keep>>}
           \/ queue' = queue /\ buffer' = Append(buffer, Keep),
           NEW run \in TableRuns, NEW t \in 1..Len(blocks), BlockOf(blocks, t, run),
           Placed(t, run), Clear(run)
    PROVE  Placed(t, run)' /\ Clear(run)'
<1>1. IsDocument(doc) /\ blocks \in Seq(Blocks) /\ buffer \in Seq(Kept) /\ queue = <<>>
  BY DEF AtWork, Reading
<1>2. /\ Here \in DocLine /\ Keep \in Kept /\ Keep.line = Here
      /\ lineNo <= Len(Solid(blocks[blockNo].lines)) /\ blockNo \in 1..Len(blocks)
      /\ Len(blocks) \in Nat
  BY <1>1, HereIs, LenProperties
<1>3. blockNo # t
  BY DEF BlockOf
<1>4. Here \notin run
  <2>1. lineNo \in Nat \ {0} /\ blocks[blockNo] \in Blocks
    BY <1>1, <1>2, Places1 DEF AtWork
  <2> DEFINE ls == Solid(blocks[blockNo].lines)
  <2>2. ls \in Seq(DocLine) /\ Len(ls) \in Nat /\ Range(ls) \subseteq Range(blocks[blockNo].lines)
    BY <1>1, <2>1, BlockLines
  <2>3. lineNo \in 1..Len(ls) /\ Here = ls[lineNo]
    BY <1>2, <2>1, <2>2 DEF Here, LinesHere
  <2> HIDE DEF ls
  <2>4. Here \in Range(blocks[blockNo].lines)
    BY <2>2, <2>3, Places1
  <2> QED
    BY <1>2, <1>3, <2>4 DEF BlockOf
<1>5. blockNo' = blockNo \/ blockNo' = blockNo + 1
  BY DEF NextLine
<1>6. Free(queue', run)
  <2>1. Hands(queue') => Free(queue', run)
    BY HandsFree
  <2>2. Free(queue, run)
    BY <1>1, EmptyQueue
  <2> QED
    BY <2>1, <2>2
<1>7. ~Sole(queue, run)
  BY <1>1, EmptyQueue
<1>8. Placed(t, run)'
  <2>1. CASE blockNo < t
    <3>1. blockNo <= t /\ blockNo' <= t
      BY <1>2, <1>5, <2>1
    <3> QED
      BY <1>6, <3>1, SamePlaced DEF Placed
  <2>2. CASE blockNo > t
    <3>1. ~(blockNo <= t) /\ ~(blockNo' <= t)
      BY <1>2, <1>5, <2>2
    <3> QED
      BY <1>6, <1>7, <3>1, SamePlaced DEF Placed
  <2> QED
    BY <1>2, <1>3, <2>1, <2>2
<1>9. Clear(run)'
  <2>1. CASE buffer' = <<>> \/ buffer' = <<Keep>>
    <3>1. \A i \in 1..Len(buffer') : buffer'[i] = Keep
      BY <2>1
    <3> QED
      BY <1>2, <1>4, <3>1 DEF Clear
  <2>2. CASE buffer' = Append(buffer, Keep)
    <3>1. \A i \in 1..Len(buffer') : (i \in 1..Len(buffer) /\ buffer'[i] = buffer[i]) \/ buffer'[i] = Keep
      <4> HIDE DEF Kept
      <4> QED
        BY <1>1, <1>2, <2>2, AppendSays
    <3> QED
      BY <1>2, <1>4, <3>1 DEF Clear
  <2> QED
    BY <2>1, <2>2
<1> QED
  BY <1>8, <1>9

LEMMA LastThrough ==
    ASSUME AtWork, doc' = doc, FlushLast, NEW run \in TableRuns, NEW t \in 1..Len(blocks),
           BlockOf(blocks, t, run), Placed(t, run), Clear(run)
    PROVE  Placed(t, run)' /\ Clear(run)'
<1> DEFINE pieces == IF docType = "agreement" THEN ArticlePieces ELSE HeadedPieces
<1>1. /\ queue = <<>> /\ blockNo = Len(blocks) + 1 /\ queue' = pieces /\ buffer' = <<>>
      /\ blockNo' = blockNo + 1 /\ out' = out
  BY DEF FlushLast
<1>2. IsDocument(doc) /\ buffer \in Seq(Kept) /\ context \in Contexts /\ blocks \in Seq(Blocks)
  BY DEF AtWork
<1>3. Hands(pieces)
  BY <1>2, ArticleHands, HeadedHands
<1> HIDE DEF pieces
<1>4. Free(queue', run) /\ ~Sole(queue, run)
  BY <1>1, <1>3, HandsFree, EmptyQueue
<1>5. Len(blocks) \in Nat
  BY <1>2, LenProperties
<1>6. ~(blockNo <= t) /\ ~(blockNo' <= t)
  BY <1>1, <1>5
<1>7. Placed(t, run)'
  BY <1>1, <1>4, <1>6, SamePlaced DEF Placed
<1>8. Clear(run)'
  BY <1>1 DEF Clear
<1> QED
  BY <1>7, <1>8

\* What is cut is text, so it is of no table, and neither are its parts.
LEMMA CutThrough ==
    ASSUME AtWork, doc' = doc, Cut, NEW run \in TableRuns, NEW t \in 1..Len(blocks), Placed(t, run)
    PROVE  Placed(t, run)'
<1> DEFINE u == Head(queue).text
           split == SentenceBoundary(u, MaxChars)
           cut == Strip(SubSeq(u, 1, split))
           rest == Remainder(u, split)
           chunk == [Head(queue) EXCEPT !.text = cut]
           left == [Head(queue) EXCEPT !.text = rest, !.cutting = TRUE]
<1>1. /\ queue # <<>> /\ TooLong(Head(queue)) /\ blockNo' = blockNo
      /\ out' = IF cut = <<>> THEN out ELSE Append(out, chunk)
      /\ queue' = <<left>> \o Tail(queue)
  BY DEF Cut
<1>2. /\ Head(queue) \in Pieces /\ Tail(queue) \in Seq(Pieces) /\ u \in Seq(Char)
  BY <1>1, FirstPiece
<1>3. split \in 1..Len(u)
  BY <1>1, CutInside
<1>4. IsDocument(doc) /\ out \in Seq(Pieces) /\ ~Head(queue).table
  BY <1>1 DEF AtWork, TooLong
<1> HIDE DEF split
<1>5. /\ rest \in Seq(Char) /\ cut \in Seq(Char)
      /\ Range(cut) \subseteq Range(u) /\ Range(rest) \subseteq Range(u)
  BY <1>2, <1>3, Remains
<1> HIDE DEF cut, rest
<1>6. chunk \in Pieces /\ chunk.text = cut /\ left \in Pieces /\ left.text = rest
  BY <1>2, <1>5 DEF Pieces
<1> HIDE DEF chunk, left
<1>7. ~Meets(Head(queue), run) => ~Meets(chunk, run) /\ ~Meets(left, run)
  BY <1>5, <1>6 DEF Meets, LinesIn
<1>8. /\ Free(queue, run) => ~Meets(Head(queue), run) /\ Free(Tail(queue), run)
      /\ Sole(queue, run) => ~Meets(Head(queue), run) /\ Sole(Tail(queue), run)
  BY <1>1, <1>4, FirstGone DEF Whole
<1>9. ~Meets(Head(queue), run)
  BY <1>8 DEF Placed
<1>10. /\ Free(Tail(queue), run) => Free(queue', run)
       /\ Sole(Tail(queue), run) => Sole(queue', run)
  BY <1>1, <1>2, <1>6, <1>7, <1>9, FirstPut
<1>11. /\ Free(out, run) => Free(out', run)
       /\ Sole(out, run) => Sole(out', run)
  <2>1. CASE out' = out
    BY <2>1
  <2>2. CASE out' = Append(out, chunk)
    BY <1>4, <1>6, <1>7, <1>9, <2>2, OneMore
  <2> QED
    BY <1>1, <2>1, <2>2
<1> QED
  BY <1>1, <1>8, <1>10, <1>11, SamePlaced DEF Placed

\* A table handed over is a chunk of its own.
LEMMA EmitThrough ==
    ASSUME AtWork, doc' = doc, Emit, NEW run \in TableRuns, NEW t \in 1..Len(blocks), Placed(t, run)
    PROVE  Placed(t, run)'
<1> DEFINE u == Head(queue).text
           whole == Strip(u)
           chunk == [Head(queue) EXCEPT !.text = whole]
<1>1. /\ queue # <<>> /\ queue' = Tail(queue) /\ blockNo' = blockNo
      /\ out' = IF whole = <<>> THEN out ELSE Append(out, chunk)
  BY DEF Emit
<1>2. /\ Head(queue) \in Pieces /\ u \in Seq(Char)
  BY <1>1, FirstPiece
<1>3. IsDocument(doc) /\ out \in Seq(Pieces)
  BY DEF AtWork
<1>4. /\ whole \in Seq(Char) /\ Range(whole) \subseteq Range(u) /\ SolidIn(whole) = SolidIn(u)
  BY <1>2, Stripped
<1> HIDE DEF whole
<1>5. chunk \in Pieces /\ chunk.text = whole /\ chunk.table = Head(queue).table
  BY <1>2, <1>4 DEF Pieces
<1> HIDE DEF chunk
<1>6. ~Meets(Head(queue), run) => ~Meets(chunk, run)
  BY <1>4, <1>5 DEF Meets, LinesIn
<1>7. Whole(Head(queue), run) => Whole(chunk, run) /\ whole # <<>>
  BY <1>3, <1>4, <1>5, StrippedWhole
<1>8. /\ Free(queue, run) => ~Meets(Head(queue), run) /\ Free(Tail(queue), run)
      /\ Sole(queue, run) => \/ Whole(Head(queue), run) /\ Free(Tail(queue), run)
                             \/ ~Meets(Head(queue), run) /\ Sole(Tail(queue), run)
  BY <1>1, FirstGone
<1>9. ASSUME ~Meets(Head(queue), run)
      PROVE  (Free(out, run) => Free(out', run)) /\ (Sole(out, run) => Sole(out', run))
  <2>1. CASE out' = out
    BY <2>1
  <2>2. CASE out' = Append(out, chunk)
    BY <1>3, <1>5, <1>6, <1>9, <2>2, OneMore
  <2> QED
    BY <1>1, <2>1, <2>2
<1>10. ASSUME Whole(Head(queue), run), Free(out, run) PROVE Sole(out', run)
  <2>1. out' = Append(out, chunk)
    BY <1>1, <1>7, <1>10
  <2> QED
    BY <1>3, <1>5, <1>7, <1>10, <2>1, OneMore
<1>11. CASE Free(queue, run)
  <2>1. Free(queue', run) /\ (Free(out, run) => Free(out', run)) /\ (Sole(out, run) => Sole(out', run))
    BY <1>1, <1>8, <1>9, <1>11
  <2>2. ~Sole(queue, run)
    <3>1. Sole(queue, run) => \E i \in 1..Len(queue) : Meets(queue[i], run)
      BY <1>3, WholeMeets DEF Sole
    <3> QED
      BY <1>11, <3>1 DEF Free
  <2> QED
    BY <1>1, <2>1, <2>2, SamePlaced DEF Placed
<1>12. CASE ~Free(queue, run)
  <2>1. Sole(queue, run) /\ Free(out, run) /\ ~(blockNo <= t)
    BY <1>12 DEF Placed
  <2>2. CASE Whole(Head(queue), run) /\ Free(Tail(queue), run)
    BY <1>1, <1>10, <2>1, <2>2, SamePlaced
  <2>3. CASE ~Meets(Head(queue), run) /\ Sole(Tail(queue), run)
    BY <1>1, <1>9, <2>1, <2>3, SamePlaced
  <2> QED
    BY <1>8, <2>1, <2>2, <2>3
<1> QED
  BY <1>11, <1>12

LEMMA StepThrough ==
    ASSUME AtWork, doc' = doc, ChunkDocument, NEW run \in TableRuns, NEW t \in 1..Len(blocks),
           BlockOf(blocks, t, run), Placed(t, run), Clear(run)
    PROVE  Placed(t, run)' /\ Clear(run)'
<1>0. IsDocument(doc) /\ buffer \in Seq(Kept) /\ context \in Contexts /\ blocks \in Seq(Blocks)
  BY DEF AtWork
<1>1. Hands(ArticlePieces) /\ Hands(HeadedPieces)
  BY <1>0, ArticleHands, HeadedHands
<1>2. Reading => blocks[blockNo] \in Blocks
  BY <1>0, Places1 DEF Reading
<1>3. CASE TakeTable
  <2>1. /\ Reading /\ blocks[blockNo].table /\ buffer' = <<>> /\ blockNo' = blockNo + 1 /\ out' = out
        /\ queue' = Append(ArticlePieces, TablePiece(blocks[blockNo], TableSection(blocks[blockNo]),
                                                     LeadIn(TableSection(blocks[blockNo]))))
    BY <1>3 DEF TakeTable
  <2>2. TableSection(blocks[blockNo]) \in Names
    BY <1>0, <1>2, <2>1, TableSectionType
  <2>3. LeadIn(TableSection(blocks[blockNo])) \in Seq(Char)
    BY <1>0, LeadInType
  <2> QED
    BY <1>1, <2>1, <2>2, <2>3, TableThrough
<1>4. CASE TakeHeading
  <2>1. /\ Reading /\ ~blocks[blockNo].table /\ queue' = ArticlePieces
        /\ buffer' = <<Keep>> /\ NextLine /\ out' = out
    BY <1>4 DEF TakeHeading
  <2>2. Hands(queue') /\ buffer' \in {<<>>, <<Keep>>}
    BY <1>1, <2>1
  <2> QED
    BY <2>1, <2>2, LineThrough
<1>5. CASE TakeLine
  <2>1. /\ Reading /\ ~blocks[blockNo].table
        /\ buffer' = Append(buffer, Keep) /\ NextLine /\ out' = out /\ queue' = queue
    BY <1>5 DEF TakeLine
  <2> QED
    BY <2>1, LineThrough
<1>6. CASE TakeHeadedTable
  <2>1. /\ Reading /\ blocks[blockNo].table /\ buffer' = <<>> /\ blockNo' = blockNo + 1 /\ out' = out
        /\ queue' = Append(HeadedPieces, TablePiece(blocks[blockNo], NoName, <<>>))
    BY <1>6 DEF TakeHeadedTable
  <2>2. NoName \in Names /\ <<>> \in Seq(Char)
    BY EmptySeq DEF Names
  <2> QED
    BY <1>1, <2>1, <2>2, TableThrough
<1>7. CASE TakeMarkdownHeader
  <2>1. /\ Reading /\ ~blocks[blockNo].table /\ queue' = HeadedPieces
        /\ buffer' = <<>> /\ NextLine /\ out' = out
    BY <1>7 DEF TakeMarkdownHeader
  <2>2. Hands(queue') /\ buffer' \in {<<>>, <<Keep>>}
    BY <1>1, <2>1
  <2> QED
    BY <2>1, <2>2, LineThrough
<1>8. CASE TakeHeadedLine
  <2>1. /\ Reading /\ ~blocks[blockNo].table
        /\ buffer' = Append(buffer, Keep) /\ NextLine /\ out' = out /\ queue' = queue
    BY <1>8 DEF TakeHeadedLine
  <2> QED
    BY <2>1, LineThrough
<1>9. CASE FlushLast
  BY <1>9, LastThrough
<1>10. CASE Cut
  <2>1. buffer' = buffer
    BY <1>10 DEF Cut
  <2> QED
    BY <1>10, <2>1, CutThrough DEF Clear
<1>11. CASE Emit
  <2>1. buffer' = buffer
    BY <1>11 DEF Emit
  <2> QED
    BY <1>11, <2>1, EmitThrough DEF Clear
<1> QED
  BY <1>3, <1>4, <1>5, <1>6, <1>7, <1>8, <1>9, <1>10, <1>11 DEF ChunkDocument

LEMMA ChunkTables ==
    ASSUME TypeInv, TablesKept, Chunk
    PROVE  TablesKept'
<1>1. path = "legacy" /\ Extracted /\ ChunkDocument /\ AtWork
  BY AtWorkIs DEF Chunk
<1>2. /\ doc' = doc /\ pos' = pos /\ text' = text /\ rows' = rows /\ blocks' = blocks /\ path' = path
  BY DEF Chunk, extractVars
<1>3. engine' = engine
  BY <1>1 DEF ChunkDocument, TakeTable, TakeHeading, TakeLine, TakeHeadedTable, TakeMarkdownHeader,
              TakeHeadedLine, FlushLast, Cut, Emit
<1>4. CASE engine = "none"
  BY <1>3, <1>4 DEF TablesKept
<1>5. CASE engine # "none"
  <2>1. RowsPending /\ \A run \in TableRuns : TableAt(run) /\ Clear(run)
    BY <1>1, <1>5 DEF TablesKept
  <2>2. /\ TableRuns' = TableRuns /\ (\A run : RowsOf(run)' = RowsOf(run))
        /\ ReadUpTo(blocks, Begin)' = ReadUpTo(blocks', Begin')
        /\ \A l : Pipe(l)' = Pipe(l)
    BY <1>2, SameRuns
  <2>3. RowsPending'
    <3>1. Begin' = Begin
      BY <1>2 DEF Begin
    <3> QED
      BY <1>2, <2>1, <2>2, <3>1 DEF RowsPending
  <2>4. ASSUME NEW run \in TableRuns PROVE TableAt(run)' /\ Clear(run)'
    <3>1. PICK t \in 1..Len(blocks) : BlockOf(blocks, t, run) /\ Placed(t, run)
      BY <2>1 DEF TableAt
    <3>2. Placed(t, run)' /\ Clear(run)'
      BY <1>1, <1>2, <2>1, <3>1, StepThrough
    <3>3. BlockOf(blocks, t, run)'
      BY <1>2, <2>2, <3>1 DEF BlockOf
    <3>4. t \in 1..Len(blocks')
      BY <1>2
    <3> QED
      BY <3>2, <3>3, <3>4 DEF TableAt
  <2> QED
    BY <2>2, <2>3, <2>4 DEF TablesKept
<1> QED
  BY <1>4, <1>5

\* Before the first line there is nothing to keep.
LEMMA NothingReadNow ==
    IsDocument(doc) /\ Unread /\ pos = 1 => TablesKept
<1> SUFFICES ASSUME IsDocument(doc), Unread, pos = 1 PROVE TablesKept
  OBVIOUS
<1>1. Len(doc) \in Nat /\ Len(rows) = 0 /\ Len(text) = 0 /\ Len(blocks) = 0 /\ Begin = 1
  BY DocumentLines DEF Unread, Begin
<1>2. ~Extracted
  BY <1>1 DEF Extracted
<1>3. \A run \in TableRuns : \A l \in run : ~(l < 1)
  <2>1. ASSUME NEW run \in TableRuns, NEW l \in run PROVE ~(l < 1)
    <3>1. l \in 1..Len(doc)
      BY TablePipes DEF DocLine
    <3> QED
      BY <1>1, <3>1
  <2> QED
    BY <2>1
<1>4. ReadUpTo(blocks, Begin)
  BY <1>1, <1>3 DEF ReadUpTo
<1>5. RowsPending
  BY <1>1, <1>4 DEF RowsPending
<1> QED
  BY <1>2, <1>5 DEF TablesKept

LEMMA NothingRead == (IsDocument(doc) /\ Unread /\ pos = 1)' => TablesKept'
BY NothingReadNow, PTL

LEMMA RestTables ==
    ASSUME TablesKept, UNCHANGED vars
    PROVE  TablesKept'
<1>1. /\ doc' = doc /\ pos' = pos /\ text' = text /\ rows' = rows /\ blocks' = blocks
      /\ engine' = engine /\ blockNo' = blockNo /\ buffer' = buffer /\ queue' = queue /\ out' = out
      /\ path' = path
  BY DEF vars, extractVars, chunkVars
<1>2. /\ TableRuns' = TableRuns /\ (\A run : RowsOf(run)' = RowsOf(run))
      /\ ReadUpTo(blocks, Begin)' = ReadUpTo(blocks', Begin')
      /\ \A l : Pipe(l)' = Pipe(l)
  BY <1>1, SameRuns
<1>3. RowsPending => RowsPending'
  <2>1. Begin' = Begin
    BY <1>1 DEF Begin
  <2> QED
    BY <1>1, <1>2, <2>1 DEF RowsPending
<1>4. ASSUME NEW run, TableAt(run) PROVE TableAt(run)'
  <2>1. PICK t \in 1..Len(blocks) : BlockOf(blocks, t, run) /\ Placed(t, run)
    BY <1>4 DEF TableAt
  <2>2. BlockOf(blocks, t, run)' /\ t \in 1..Len(blocks')
    BY <1>1, <1>2, <2>1 DEF BlockOf
  <2>3. Placed(t, run)'
    BY <1>1, <2>1, SamePlaced DEF Placed
  <2> QED
    BY <2>2, <2>3 DEF TableAt
<1>5. \A run : Clear(run) => Clear(run)'
  BY <1>1 DEF Clear
<1> QED
  BY <1>1, <1>2, <1>3, <1>4, <1>5 DEF TablesKept, Extracted

LEMMA TablesStep ==
    ASSUME IInv, TablesKept, [Next]_vars
    PROVE  TablesKept'
<1>1. TypeInv /\ IInv'
  BY StepKeeps DEF IInv
<1>2. TypeInv' /\ IsDocument(doc')
  BY <1>1 DEF IInv, TypeInv, Entered
<1>3. CASE WagePage \/ WageChunks
  <2>1. path' = "wage"
    BY <1>3 DEF WagePage, WageChunks
  <2> QED
    BY <2>1 DEF TablesKept
<1>4. CASE FallBack
  <2>1. path = "wage" /\ pos' = 1 /\ text' = text /\ rows' = rows /\ blocks' = blocks
    BY <1>4 DEF FallBack
  <2>2. Unread'
    BY <1>1, <2>1 DEF TypeInv, InTurn, Unread
  <2> QED
    BY <1>2, <2>1, <2>2, NothingRead
<1>5. CASE ConvertColumns
  <2>1. path = "convert" /\ pos' = pos /\ text' = text /\ rows' = rows /\ blocks' = blocks
    BY <1>5 DEF ConvertColumns
  <2>2. Unread' /\ pos' = 1
    BY <1>1, <2>1 DEF TypeInv, InTurn, Unread
  <2> QED
    BY <1>2, <2>2, NothingRead
<1>6. CASE Extract
  BY <1>1, <1>6, ReadTables
<1>7. CASE Chunk
  BY <1>1, <1>7, ChunkTables
<1>8. CASE Rest \/ UNCHANGED vars
  BY <1>8, RestTables DEF Rest
<1> QED
  BY <1>3, <1>4, <1>5, <1>6, <1>7, <1>8 DEF Next

LEMMA TablesInOne ==
    ASSUME IInv, TablesKept
    PROVE  TablesWhole
<1> SUFFICES ASSUME Finished, path = "legacy", engine # "none", NEW run \in TableRuns
             PROVE  LET kept == run \ {Min({k \in run : doc[k].kind = "rule"})}
                        touching == {i \in DOMAIN out : LinesIn(out[i]) \cap run # {}}
                    IN  /\ Cardinality(touching) = 1
                        /\ \A i \in touching : out[i].table /\ LinesIn(out[i]) = kept
  BY DEF TablesWhole
<1> DEFINE touching == {i \in DOMAIN out : LinesIn(out[i]) \cap run # {}}
<1>1. /\ IsDocument(doc) /\ out \in Seq(Pieces) /\ blocks \in Seq(Blocks) /\ blockNo \in Nat
  BY DEF IInv, TypeInv, Entered, Typed
<1>2. Extracted /\ blockNo > Len(blocks) + 1 /\ queue = <<>>
  BY DEF Finished, Chunked
<1>3. PICK t \in 1..Len(blocks) : Placed(t, run)
  BY <1>2 DEF TablesKept, TableAt
<1>4. DOMAIN out = 1..Len(out) /\ Len(blocks) \in Nat
  <2> HIDE DEF Pieces, Blocks
  <2> QED
    BY <1>1, LenProperties
<1>5. Sole(out, run)
  <2>1. ~(blockNo <= t)
    BY <1>1, <1>2, <1>4
  <2> QED
    BY <1>2, <1>3, <2>1, EmptyQueue DEF Placed
<1>6. PICK i \in 1..Len(out) : Whole(out[i], run) /\ \A j \in 1..Len(out) : Meets(out[j], run) => j = i
  BY <1>5 DEF Sole
<1>7. touching = {i}
  <2>1. Meets(out[i], run)
    BY <1>1, <1>6, WholeMeets
  <2> QED
    BY <1>4, <1>6, <2>1 DEF Meets
<1>8. Cardinality(touching) = 1
  BY <1>7, FS_Singleton
<1>9. out[i].table /\ LinesIn(out[i]) = RowsOf(run)
  BY <1>6 DEF Whole
<1> QED
  BY <1>7, <1>8, <1>9 DEF RowsOf

\* A table of a converted document is one chunk of its own (extract_markdown,
\* chunk_document): whatever stands around it and whatever its size, its rows come out
\* together, without the first separator, and no chunk of text holds one of them.
THEOREM TablesWholeAlways == Spec => []TablesWhole
<1>1. Init => IInv /\ TablesKept
  <2>1. Init => IInv
    BY InitKeeps DEF IInv
  <2>2. Init => Unread /\ pos = 1
    BY DEF Init, Unread
  <2>3. IInv => IsDocument(doc)
    BY DEF IInv, TypeInv, Entered
  <2> QED
    BY <2>1, <2>2, <2>3, NothingReadNow
<1>2. IInv /\ TablesKept /\ [Next]_vars => (IInv /\ TablesKept)'
  BY StepKeeps, TablesStep
<1>3. IInv /\ TablesKept => TablesWhole
  BY TablesInOne
<1> QED
  BY <1>1, <1>2, <1>3, PTL DEF Spec

-----------------------------------------------------------------------------
(* What a line stands under                                                *)

TypeOfDocument == docType \in {"agreement", "wage_schedule"}

\* A line that changes what the lines after it stand under.
Mark(l) == IF docType = "agreement" THEN Heading(l) \/ SectionOf(l) # NoName
           ELSE doc[l].kind = "head"

\* The context a reader of the document has at line l.
Stands(l) == IF docType = "agreement"
             THEN [article |-> ArticleOf(l), title |-> HeadingOf(l), section |-> SectionUnder(l)]
             ELSE [NoContext EXCEPT !.title = HeaderOf(l)]

LEMMA MarkIs ==
    ASSUME NEW l, Mark(l)
    PROVE  /\ ~Silent(l) /\ doc[l].kind \notin {"page", "rule"}
           /\ engine # "none" => ~Pipe(l)
BY DEF Mark, Heading, SectionOf, Silent, Pipe

LEMMA LastIs ==
    ASSUME NEW n \in Nat, NEW S \in SUBSET (1..n)
    PROVE  /\ LastOf(S) \in 0..n /\ \A k \in S : k <= LastOf(S)
           /\ S # {} => LastOf(S) \in S
<1>1. CASE S = {}
  BY <1>1 DEF LastOf
<1>2. CASE S # {}
  <2>1. IsFiniteSet(S) /\ S \subseteq Int
    BY SomePlaces
  <2>2. Max(S) \in S /\ \A k \in S : k <= Max(S)
    BY <1>2, <2>1, GreatestOf
  <2>3. LastOf(S) = Max(S)
    BY <1>2 DEF LastOf
  <2>4. \A k \in S : k \in 0..n
    OBVIOUS
  <2> QED
    BY <2>2, <2>3, <2>4
<1> QED
  BY <1>1, <1>2

LEMMA HeadingIs ==
    ASSUME IsDocument(doc), NEW n \in 0..Len(doc)
    PROVE  HeadingOf(n) \in 0..n
<1>1. n \in Nat
  BY DocumentLines
<1> QED
  BY <1>1, LastIs DEF HeadingOf

\* Lines with no mark among them stand under the same.
LEMMA SameStanding ==
    ASSUME IsDocument(doc), TypeOfDocument, NEW m \in 0..Len(doc), NEW n \in 0..Len(doc), m <= n,
           \A l \in DocLine : Mark(l) /\ l <= n => l <= m
    PROVE  Stands(n) = Stands(m)
<1>1. Len(doc) \in Nat /\ DocLine = 1..Len(doc) /\ m \in Nat /\ n \in Nat
  BY DocumentLines DEF DocLine
<1>2. CASE docType = "agreement"
  <2>1. \A l \in 1..n : Heading(l) \/ SectionOf(l) # NoName => l <= m
    BY <1>1, <1>2 DEF Mark
  <2>2. {k \in 1..n : Heading(k)} = {k \in 1..m : Heading(k)}
    BY <1>1, <2>1
  <2>3. HeadingOf(n) = HeadingOf(m)
    BY <2>2 DEF HeadingOf
  <2>4. HeadingOf(m) \in 0..m
    BY HeadingIs
  <2>5. {k \in HeadingOf(m) + 1..n : SectionOf(k) # NoName} = {k \in HeadingOf(m) + 1..m : SectionOf(k) # NoName}
    BY <1>1, <2>1, <2>4
  <2>6. SectionUnder(n) = SectionUnder(m) /\ ArticleOf(n) = ArticleOf(m)
    BY <2>3, <2>5 DEF SectionUnder, ArticleOf
  <2> QED
    BY <1>2, <2>3, <2>6 DEF Stands
<1>3. CASE docType # "agreement"
  <2>1. {k \in 1..n : doc[k].kind = "head"} = {k \in 1..m : doc[k].kind = "head"}
    BY <1>1, <1>3 DEF Mark
  <2> QED
    BY <1>3, <2>1 DEF Stands, HeaderOf
<1> QED
  BY <1>2, <1>3

LEMMA StandsAtTop ==
    ASSUME IsDocument(doc)
    PROVE  Stands(0) = NoContext
<1>1. HeadingOf(0) = 0 /\ HeaderOf(0) = 0
  BY DEF HeadingOf, HeaderOf, LastOf
<1>2. SectionUnder(0) = NoName
  BY <1>1 DEF SectionUnder, LastOf
<1> QED
  BY <1>1, <1>2 DEF Stands, NoContext, ArticleOf

\* What the chunker makes of a line is what the document says of it.
LEMMA Turning ==
    ASSUME IsDocument(doc), docType = "agreement", NEW l \in DocLine
    PROVE  Stands(l) = Turn(Stands(l - 1), l)
<1>1. Len(doc) \in Nat /\ l \in 1..Len(doc) /\ l \in Nat /\ l - 1 \in 0..Len(doc) /\ l - 1 \in Nat
  BY DocumentLines DEF DocLine
<1>2. CASE Heading(l)
  <2>1. {k \in 1..l : Heading(k)} \in SUBSET (1..l) /\ l \in {k \in 1..l : Heading(k)}
    BY <1>1, <1>2
  <2>2. HeadingOf(l) = l
    BY <1>1, <2>1, LastIs DEF HeadingOf
  <2>3. {k \in l + 1..l : SectionOf(k) # NoName} = {}
    BY <1>1
  <2>4. ArticleOf(l) = doc[l].name /\ SectionUnder(l) = NoName
    BY <1>1, <2>2, <2>3 DEF ArticleOf, SectionUnder, LastOf
  <2> QED
    BY <1>2, <2>2, <2>4 DEF Stands, Turn
<1>3. CASE ~Heading(l)
  <2>1. {k \in 1..l : Heading(k)} = {k \in 1..l - 1 : Heading(k)}
    BY <1>1, <1>3
  <2>2. HeadingOf(l) = HeadingOf(l - 1) /\ ArticleOf(l) = ArticleOf(l - 1)
    BY <2>1 DEF HeadingOf, ArticleOf
  <2>3. HeadingOf(l) \in 0..l - 1
    BY <1>1, <2>2, HeadingIs
  <2> DEFINE sections == {k \in HeadingOf(l) + 1..l : SectionOf(k) # NoName}
  <2>4. CASE SectionOf(l) # NoName
    <3>1. sections \in SUBSET (1..l) /\ l \in sections
      BY <1>1, <2>3, <2>4
    <3>2. LastOf(sections) = l
      BY <1>1, <3>1, LastIs
    <3>3. SectionUnder(l) = doc[l].name /\ doc[l].name = SectionOf(l)
      BY <1>1, <2>4, <3>2 DEF SectionUnder, SectionOf
    <3> QED
      BY <1>3, <2>2, <2>4, <3>3 DEF Stands, Turn
  <2>5. CASE SectionOf(l) = NoName
    <3>1. sections = {k \in HeadingOf(l - 1) + 1..l - 1 : SectionOf(k) # NoName}
      BY <1>1, <2>2, <2>3, <2>5
    <3>2. SectionUnder(l) = SectionUnder(l - 1)
      BY <3>1 DEF SectionUnder
    <3> QED
      BY <1>3, <2>2, <2>5, <3>2 DEF Stands, Turn
  <2> QED
    BY <2>4, <2>5
<1> QED
  BY <1>2, <1>3

LEMMA HeadTurns ==
    ASSUME IsDocument(doc), docType # "agreement", NEW l \in DocLine, doc[l].kind = "head"
    PROVE  Stands(l) = [NoContext EXCEPT !.title = l]
<1>1. l \in Nat /\ l \in 1..Len(doc)
  BY DocumentLines DEF DocLine
<1>2. {k \in 1..l : doc[k].kind = "head"} \in SUBSET (1..l) /\ l \in {k \in 1..l : doc[k].kind = "head"}
  BY <1>1
<1>3. HeaderOf(l) = l
  BY <1>1, <1>2, LastIs DEF HeaderOf
<1> QED
  BY <1>3 DEF Stands

-----------------------------------------------------------------------------
(* Lines that rise                                                         *)

Rises(s) == \A i, j \in 1..Len(s) : i < j => s[i] < s[j]

LEMMA PickedRises ==
    ASSUME NEW A \in SUBSET Int, NEW s \in Seq(A), Rises(s), NEW I \in SUBSET DOMAIN s
    PROVE  Rises(Picked(s, I))
<1> DEFINE key == [i \in I |-> i]
           at == Ordered(I, key)
           n == Cardinality(I)
<1>1. DOMAIN s = 1..Len(s) /\ Len(s) \in Nat /\ IsFiniteSet(DOMAIN s)
  BY Places1
<1>2. Keyed(I, key)
  <2>1. IsFiniteSet(I)
    BY <1>1, FS_Subset
  <2> QED
    BY <1>1, <2>1 DEF Keyed
<1>3. n \in Nat /\ Len(Picked(s, I)) = n /\ \A k \in 1..n : Picked(s, I)[k] = s[at[k]]
  <2>1. n \in Nat
    BY <1>2, OrderedLists
  <2>2. Picked(s, I) = [k \in 1..n |-> s[at[k]]]
    BY DEF Picked
  <2> HIDE DEF n, at
  <2> QED
    BY <2>1, <2>2, PickedFrom DEF n
<1> SUFFICES ASSUME NEW i \in 1..n, NEW j \in 1..n, i < j PROVE s[at[i]] < s[at[j]]
  BY ZenonT(40), <1>3 DEF Rises
<1>4. at[i] \in I /\ at[j] \in I
  BY <1>2, OrderedLists
<1>5. key[at[i]] < key[at[j]]
  BY <1>2, OrderedRises
<1> HIDE DEF at
<1> QED
  BY <1>1, <1>4, <1>5 DEF Rises

LEMMA InOrderRises ==
    ASSUME IsDocument(doc), NEW S \in SUBSET DocLine
    PROVE  Rises(InOrder(S))
<1> DEFINE key == [l \in S |-> l]
           s == Ordered(S, key)
<1>1. Keyed(S, key)
  <2>1. IsFiniteSet(S) /\ S \subseteq Int
    BY DocumentLines, FS_Subset
  <2> QED
    BY <2>1 DEF Keyed
<1>2. InOrder(S) = s /\ Len(s) = Cardinality(S)
  BY <1>1, OrderedLists DEF InOrder
<1>3. \A i, j \in 1..Cardinality(S) : i < j => key[s[i]] < key[s[j]]
  BY <1>1, OrderedRises
<1>4. \A i \in 1..Cardinality(S) : s[i] \in S
  BY <1>1, OrderedLists
<1> HIDE DEF s
<1> QED
  BY <1>2, <1>3, <1>4 DEF Rises

LEMMA JoinRises ==
    ASSUME NEW A \in SUBSET Int, NEW s \in Seq(A), NEW t \in Seq(A), Rises(s), Rises(t),
           \A a \in Range(s), b \in Range(t) : a < b
    PROVE  Rises(s \o t)
<1>1. /\ Len(s) \in Nat /\ Len(t) \in Nat /\ Len(s \o t) = Len(s) + Len(t)
      /\ \A i \in 1..Len(s \o t) : \/ i \in 1..Len(s) /\ (s \o t)[i] = s[i]
                                   \/ i - Len(s) \in 1..Len(t) /\ (s \o t)[i] = t[i - Len(s)]
  BY ConcatProperties, LenProperties
<1>2. Range(s) = {s[i] : i \in 1..Len(s)} /\ Range(t) = {t[i] : i \in 1..Len(t)}
  BY Places1
<1> SUFFICES ASSUME NEW i \in 1..Len(s \o t), NEW j \in 1..Len(s \o t), i < j
             PROVE  (s \o t)[i] < (s \o t)[j]
  BY DEF Rises
<1>3. CASE i \in 1..Len(s) /\ (s \o t)[i] = s[i]
  <2>1. CASE j \in 1..Len(s) /\ (s \o t)[j] = s[j]
    BY <1>3, <2>1 DEF Rises
  <2>2. CASE j - Len(s) \in 1..Len(t) /\ (s \o t)[j] = t[j - Len(s)]
    <3>1. s[i] \in Range(s) /\ t[j - Len(s)] \in Range(t)
      BY <1>2, <1>3, <2>2
    <3> QED
      BY <1>3, <2>2, <3>1
  <2> QED
    BY <1>1, <2>1, <2>2
<1>4. CASE i - Len(s) \in 1..Len(t) /\ (s \o t)[i] = t[i - Len(s)]
  <2>1. j - Len(s) \in 1..Len(t) /\ (s \o t)[j] = t[j - Len(s)]
    BY <1>1, <1>4
  <2>2. i - Len(s) < j - Len(s)
    BY <1>1
  <2> QED
    BY <1>4, <2>1, <2>2 DEF Rises
<1> QED
  BY <1>1, <1>3, <1>4

\* Lists that rise, one above the other, rise when they are joined.
LEMMA FlattenRises ==
    ASSUME NEW A \in SUBSET Int, NEW ss \in Seq(Seq(A)), \A i \in 1..Len(ss) : Rises(ss[i]),
           \A i, j \in 1..Len(ss) : i < j => \A a \in Range(ss[i]), b \in Range(ss[j]) : a < b
    PROVE  Rises(FlattenSeq(ss))
<1> DEFINE n == Len(ss)
           upTo(k) == SubSeq(ss, 1, k)
           P == {k \in 0..n : Rises(FlattenSeq(upTo(k)))}
<1>0. \A s, t \in Seq(Seq(A)) : Len(s) = Len(t) /\ (\A i \in 1..Len(s) : s[i] = t[i]) => s = t
  BY SeqEqual
<1>1. n \in Nat /\ \A i \in 1..n : ss[i] \in Seq(A)
  BY LenProperties
<1>2. \A k \in 0..n : /\ upTo(k) \in Seq(Seq(A)) /\ Len(upTo(k)) = k
                      /\ \A i \in 1..k : upTo(k)[i] = ss[i]
  <2> SUFFICES ASSUME NEW k \in 0..n
               PROVE  /\ upTo(k) \in Seq(Seq(A)) /\ Len(upTo(k)) = k
                      /\ \A i \in 1..k : upTo(k)[i] = ss[i]
    OBVIOUS
  <2>1. k \in 1 - 1..Len(ss) /\ 1 \in 1..Len(ss) + 1
    BY <1>1
  <2>2. upTo(k) \in Seq(Seq(A)) /\ Len(upTo(k)) = k - 1 + 1
    BY <2>1, PieceOf
  <2>3. \A i \in 1..k : upTo(k)[i] = ss[i]
    BY <1>1, SubSeqProperties
  <2> QED
    BY <1>1, <2>2, <2>3
<1>3. 0 \in P
  <2>1. upTo(0) = <<>>
    BY <1>1, <1>2, EmptySeq
  <2>2. FlattenSeq(<<>>) = <<>> /\ Len(<<>>) = 0
    BY EmptySeq DEF FlattenSeq
  <2>5. 0 \in 0..n
    BY <1>1
  <2>3. Rises(<<>>)
    BY <2>2 DEF Rises
  <2>4. FlattenSeq(upTo(0)) = <<>>
    BY <2>1, <2>2
  <2> HIDE DEF upTo
  <2> QED
    BY <2>3, <2>4, <2>5
<1>4. ASSUME NEW k \in 1..n, k - 1 \in P PROVE k \in P
  <2>1. k - 1 \in 0..n /\ k \in 0..n /\ k \in Nat
    BY <1>1
  <2>2. upTo(k) = Append(upTo(k - 1), ss[k])
    <3>1. Len(Append(upTo(k - 1), ss[k])) = k /\ Append(upTo(k - 1), ss[k]) \in Seq(Seq(A))
      BY <1>1, <1>2, <2>1, AppendProperties
    <3>2. \A i \in 1..k : Append(upTo(k - 1), ss[k])[i] = ss[i]
      BY <1>1, <1>2, <2>1, AppendProperties
    <3>3. \A i \in 1..k : Append(upTo(k - 1), ss[k])[i] = upTo(k)[i]
      BY <1>2, <2>1, <3>2
    <3> HIDE DEF upTo
    <3> QED
      BY <1>0, <1>2, <2>1, <3>1, <3>3
  <2> DEFINE s == FlattenSeq(upTo(k - 1))
  <2>3. s \in Seq(A) /\ Range(s) = UNION {Range(upTo(k - 1)[i]) : i \in 1..Len(upTo(k - 1))}
    BY <1>2, <2>1, FlattenOf
  <2>4. FlattenSeq(upTo(k)) = s \o ss[k]
    BY <1>1, <1>2, <2>1, <2>2, FlattenAppend
  <2>5. \A a \in Range(s), b \in Range(ss[k]) : a < b
    <3> SUFFICES ASSUME NEW a \in Range(s), NEW b \in Range(ss[k]) PROVE a < b
      OBVIOUS
    <3>1. PICK i \in 1..k - 1 : a \in Range(upTo(k - 1)[i])
      BY <1>2, <2>1, <2>3
    <3>2. i \in 1..n /\ i < k /\ upTo(k - 1)[i] = ss[i]
      BY <1>1, <1>2, <2>1
    <3> QED
      BY <3>1, <3>2
  <2>6. Rises(s)
    BY <1>4
  <2> HIDE DEF s
  <2>7. Rises(s \o ss[k])
    BY <1>1, <2>3, <2>5, <2>6, JoinRises
  <2> QED
    BY <2>1, <2>4, <2>7
<1>5. \A k \in 0..n : k \in P
  <2> HIDE DEF P, n
  <2> QED
    BY <1>1, <1>3, <1>4, Induction
<1>6. upTo(n) = ss
  <2>1. n \in 0..n
    BY <1>1
  <2> DEFINE ts == upTo(n)
  <2>2. ts \in Seq(Seq(A)) /\ Len(ts) = Len(ss) /\ \A i \in 1..Len(ts) : ts[i] = ss[i]
    BY <1>2, <2>1
  <2> HIDE DEF ts
  <2>3. ts = ss
    BY <1>0, <2>2
  <2> QED
    BY <2>3 DEF ts
<1>7. n \in P
  BY <1>1, <1>5
<1> QED
  BY <1>6, <1>7

-----------------------------------------------------------------------------
(* The lines of the blocks, from the top                                   *)

\* The tables of a printed page come before its text; all other blocks are in order.
InPlace(b) == ~b.table \/ engine # "none"

\* The blocks bs are those of the lines before n, from the top, with every mark in the text.
Upright(bs, n) ==
    /\ \A b \in 1..Len(bs) : InPlace(bs[b]) =>
         /\ \A l \in Range(bs[b].lines) : l < n /\ (bs[b].table => Pipe(l))
         /\ Rises(bs[b].lines)
    /\ \A b, c \in 1..Len(bs) : b < c /\ InPlace(bs[b]) /\ InPlace(bs[c]) =>
         \A l \in Range(bs[b].lines), m \in Range(bs[c].lines) : l < m
    /\ \A l \in DocLine : l < n /\ Mark(l) =>
         \E b \in 1..Len(bs) : ~bs[b].table /\ l \in Range(bs[b].lines)

\* The first line that is pending or still to be read.
Start == pos - Len(rows) - Len(text)

InSequence ==
    /\ Start \in Nat \ {0}
    /\ \A i \in 1..Len(rows) : rows[i] = Start + i - 1
    /\ \A i \in 1..Len(text) : text[i] = Start + i - 1
    /\ Upright(blocks, Start)

LEMMA BlockNumbers ==
    ASSUME IsDocument(doc), NEW bs \in Seq(Blocks), NEW b \in 1..Len(bs)
    PROVE  bs[b] \in Blocks /\ \A l \in Range(bs[b].lines) : l \in DocLine /\ l \in Nat
<1>1. bs[b] \in Blocks
  <2> HIDE DEF Blocks
  <2> QED
    OBVIOUS
<1>2. bs[b].lines \in Seq(DocLine) /\ DocLine \subseteq Nat
  BY <1>1, BlockLines, DocumentLines
<1> QED
  BY <1>1, <1>2, Places1

\* Lines without a mark may be left out.
LEMMA UprightFurther ==
    ASSUME IsDocument(doc), NEW bs \in Seq(Blocks), NEW n \in Nat, NEW m \in Nat, n <= m,
           Upright(bs, n), \A l \in DocLine : n <= l /\ l < m => ~Mark(l)
    PROVE  Upright(bs, m)
<1>1. ASSUME NEW b \in 1..Len(bs), InPlace(bs[b]), NEW l \in Range(bs[b].lines)
      PROVE  l < m /\ (bs[b].table => Pipe(l))
  <2>1. l \in Nat
    BY BlockNumbers
  <2> QED
    BY <1>1, <2>1 DEF Upright
<1>2. ASSUME NEW l \in DocLine, l < m, Mark(l) PROVE l < n
  BY <1>2 DEF DocLine
<1> QED
  BY <1>1, <1>2 DEF Upright

LEMMA PlusUpright ==
    ASSUME IsDocument(doc), NEW bs \in Seq(Blocks), NEW b \in Blocks, NEW n \in Nat, NEW m \in Nat,
           n <= m, Upright(bs, n),
           InPlace(b) => /\ \A l \in Range(b.lines) : n <= l /\ l < m /\ (b.table => Pipe(l))
                         /\ Rises(b.lines),
           \A l \in DocLine : n <= l /\ l < m /\ Mark(l) => ~b.table /\ l \in Range(b.lines)
    PROVE  Upright(Append(bs, b), m)
<1> DEFINE all == Append(bs, b)
           k == Len(bs)
<1>1. /\ k \in Nat /\ Len(all) = k + 1 /\ all[k + 1] = b /\ (\A i \in 1..k : all[i] = bs[i])
      /\ all \in Seq(Blocks)
  <2> HIDE DEF Blocks
  <2> QED
    BY AppendProperties, LenProperties
<1> HIDE DEF all
<1>2. \A i \in 1..Len(all) : (i \in 1..k /\ all[i] = bs[i]) \/ (i = k + 1 /\ all[i] = b)
  BY <1>1
<1>3. \A i \in 1..Len(all) : \A l \in Range(all[i].lines) : l \in Nat /\ l \in DocLine
  BY <1>1, BlockNumbers
<1>4. ASSUME NEW i \in 1..Len(all), InPlace(all[i])
      PROVE  /\ \A l \in Range(all[i].lines) : l < m /\ (all[i].table => Pipe(l))
             /\ Rises(all[i].lines)
  <2>1. CASE i \in 1..k /\ all[i] = bs[i]
    <3>1. /\ \A l \in Range(bs[i].lines) : l < n /\ (bs[i].table => Pipe(l))
          /\ Rises(bs[i].lines)
      BY <1>4, <2>1 DEF Upright
    <3>2. \A l \in Range(bs[i].lines) : l \in Nat
      BY <1>3, <2>1
    <3>3. \A l \in Range(bs[i].lines) : l < m
      BY <3>1, <3>2
    <3> QED
      BY <2>1, <3>1, <3>3
  <2>2. CASE all[i] = b
    BY <1>4, <2>2
  <2> QED
    BY <1>2, <2>1, <2>2
<1>5. ASSUME NEW i \in 1..Len(all), NEW j \in 1..Len(all), i < j, InPlace(all[i]), InPlace(all[j]),
             NEW l \in Range(all[i].lines), NEW p \in Range(all[j].lines)
      PROVE  l < p
  <2>0. i \in 1..k /\ all[i] = bs[i]
    BY <1>1, <1>2, <1>5
  <2>1. CASE j \in 1..k /\ all[j] = bs[j]
    BY <1>5, <2>0, <2>1 DEF Upright
  <2>2. CASE all[j] = b
    <3>1. l < n /\ n <= p /\ l \in Nat /\ p \in Nat
      BY <1>3, <1>5, <2>0, <2>2 DEF Upright
    <3> QED
      BY <3>1
  <2> QED
    BY <1>2, <2>1, <2>2
<1>6. ASSUME NEW l \in DocLine, l < m, Mark(l)
      PROVE  \E i \in 1..Len(all) : ~all[i].table /\ l \in Range(all[i].lines)
  <2>1. CASE l < n
    <3>1. PICK i \in 1..k : ~bs[i].table /\ l \in Range(bs[i].lines)
      BY <1>6, <2>1 DEF Upright
    <3>2. i \in 1..Len(all) /\ all[i] = bs[i]
      BY <1>1
    <3> QED
      BY <3>1, <3>2
  <2>2. CASE ~(l < n)
    <3>1. ~b.table /\ l \in Range(b.lines)
      BY <1>6, <2>2 DEF DocLine
    <3>2. k + 1 \in 1..Len(all)
      BY <1>1
    <3> QED
      BY <1>1, <3>1, <3>2
  <2> QED
    BY <2>1, <2>2
<1>7. Upright(all, m)
  BY <1>4, <1>5, <1>6 DEF Upright
<1> QED
  BY <1>7 DEF all

\* A flush leaves the blocks of all lines read.
LEMMA FlushUpright ==
    ASSUME TypeInv, InSequence
    PROVE  Upright(Flushed, pos)
<1>1. /\ IsDocument(doc) /\ page \in Nat /\ text \in Seq(DocLine) /\ rows \in Seq(DocLine)
      /\ blocks \in Seq(Blocks) /\ (\A i \in 1..Len(rows) : Pipe(rows[i])) /\ pos \in Nat
      /\ (rows # <<>> => text = <<>> /\ engine # "none")
  BY DEF TypeInv, Entered, Typed, Pending
<1>2. Len(rows) \in Nat /\ Len(text) \in Nat /\ DocLine \subseteq Nat
  BY <1>1, DocumentLines, LenProperties
<1> DEFINE b == Start
<1>3. /\ b \in Nat \ {0} /\ b = pos - Len(rows) - Len(text) /\ Upright(blocks, b)
      /\ \A i \in 1..Len(rows) : rows[i] = b + i - 1
      /\ \A i \in 1..Len(text) : text[i] = b + i - 1
  BY DEF InSequence, Start
<1> HIDE DEF b
<1>4. b <= pos
  BY <1>1, <1>2, <1>3
<1>5. CASE InTable
  <2> DEFINE c == ParsePipeTable(rows)
             at == {i \in DOMAIN rows : doc[rows[i]].kind = "rule"}
             rest == DOMAIN rows \ {Min(at)}
  <2>1. c \in Blocks /\ Flushed = blocks \o <<c>> /\ rows # <<>> /\ text = <<>> /\ engine # "none"
    BY <1>1, <1>5, PipeTable DEF InTable, Flushed
  <2>2. Len(rows) = pos - b /\ b < pos
    <3>1. Len(rows) # 0 /\ Len(text) = 0
      BY <1>1, <2>1, EmptySeq
    <3> QED
      BY <1>1, <1>2, <1>3, <3>1
  <2>3. Range(rows) = b..pos - 1 /\ Range(c.lines) \subseteq b..pos - 1
    BY <1>1, <1>3, <2>2, RowsTable
  <2>4. Flushed = Append(blocks, c)
    <3> HIDE DEF c, Blocks
    <3> QED
      BY <1>1, <2>1
  <2>5. Rises(c.lines)
    <3>1. Rises(rows)
      BY <1>3, <2>2 DEF Rises
    <3>2. DocLine \in SUBSET Int /\ rest \in SUBSET DOMAIN rows
      BY <1>2
    <3>3. Rises(Picked(rows, rest))
      <4> HIDE DEF rest
      <4> QED
        BY <1>1, <3>1, <3>2, PickedRises
    <3>4. c.lines = rows \/ c.lines = Picked(rows, rest)
      BY DEF ParsePipeTable, Block
    <3> QED
      BY <3>1, <3>3, <3>4
  <2> HIDE DEF c
  <2>6. \A l \in b..pos - 1 : Pipe(l) /\ ~Mark(l)
    <3>1. Range(rows) = {rows[i] : i \in 1..Len(rows)}
      BY <1>1, Places1
    <3>2. \A l \in b..pos - 1 : Pipe(l)
      BY <1>1, <2>3, <3>1
    <3> QED
      BY <2>1, <3>2, MarkIs
  <2>7. \A l \in Range(c.lines) : b <= l /\ l < pos /\ Pipe(l)
    BY <1>1, <1>3, <2>3, <2>6
  <2>8. \A l \in DocLine : b <= l /\ l < pos => ~Mark(l)
    BY <1>1, <1>2, <1>3, <2>6
  <2>9. InPlace(c) => /\ \A l \in Range(c.lines) : b <= l /\ l < pos /\ (c.table => Pipe(l))
                      /\ Rises(c.lines)
    BY <2>5, <2>7
  <2>10. \A l \in DocLine : b <= l /\ l < pos /\ Mark(l) => ~c.table /\ l \in Range(c.lines)
    BY <2>8
  <2>11. Upright(Append(blocks, c), pos)
    BY <1>1, <1>3, <1>4, <2>1, <2>9, <2>10, PlusUpright
  <2> QED
    BY <2>4, <2>11
<1>6. CASE ~InTable
  <2>1. Len(text) = pos - b
    <3>1. Len(rows) = 0
      BY <1>6, EmptySeq DEF InTable
    <3> QED
      BY <1>1, <1>2, <1>3, <3>1
  <2>2. DOMAIN text = 1..Len(text) /\ Range(text) = {text[i] : i \in 1..Len(text)}
    BY <1>1, Places1
  <2>3. \A l \in Range(text) : b <= l /\ l < pos
    BY <1>1, <1>3, <2>1, <2>2
  <2>4. \A l \in DocLine : b <= l /\ l < pos => l \in Range(text)
    <3> SUFFICES ASSUME NEW l \in DocLine, b <= l, l < pos PROVE l \in Range(text)
      OBVIOUS
    <3>1. l - b + 1 \in 1..Len(text) /\ b + (l - b + 1) - 1 = l
      BY <1>1, <1>2, <1>3, <2>1
    <3> QED
      BY <1>3, <2>2, <3>1
  <2>5. CASE \E i \in DOMAIN text : doc[text[i]].kind # "blank"
    <3> DEFINE c == Block(FALSE, text)
    <3>1. Flushed = Append(blocks, c)
      <4>1. Flushed = blocks \o <<c>>
        BY <1>6, <2>5 DEF Flushed, TextBlocks
      <4> HIDE DEF c, Blocks
      <4> QED
        BY <1>1, <4>1
    <3>2. c.lines = text /\ c \in Blocks /\ ~c.table
      BY <1>1, <2>2, <2>5 DEF Block, Blocks, Silent
    <3>3. Rises(text)
      BY <1>3, <2>1 DEF Rises
    <3> HIDE DEF c
    <3> QED
      BY <1>1, <1>3, <1>4, <2>3, <2>4, <3>1, <3>2, <3>3, PlusUpright
  <2>6. CASE ~\E i \in DOMAIN text : doc[text[i]].kind # "blank"
    <3>1. Flushed = blocks
      <4>1. Flushed = blocks \o <<>>
        BY <1>6, <2>6 DEF Flushed, TextBlocks
      <4> HIDE DEF Blocks
      <4> QED
        BY <1>1, <4>1
    <3>2. \A l \in Range(text) : ~Mark(l)
      BY <2>2, <2>6, MarkIs DEF Silent
    <3> QED
      BY <1>1, <1>3, <1>4, <2>4, <3>1, <3>2, UprightFurther
  <2> QED
    BY <2>5, <2>6
<1> QED
  BY <1>5, <1>6

\* The tables of a printed page change nothing for the lines in order.
LEMMA PlusTables ==
    ASSUME IsDocument(doc), engine = "none", NEW bs \in Seq(Blocks), NEW ts \in Seq(Blocks),
           \A i \in 1..Len(ts) : ts[i].table, NEW n, Upright(bs, n)
    PROVE  Upright(bs \o ts, n)
<1> DEFINE all == bs \o ts
           k == Len(bs)
<1>1. /\ k \in Nat /\ Len(ts) \in Nat /\ Len(all) = k + Len(ts)
      /\ \A i \in 1..Len(all) : \/ i \in 1..k /\ all[i] = bs[i]
                                \/ i - k \in 1..Len(ts) /\ all[i] = ts[i - k]
  <2> HIDE DEF Blocks
  <2> QED
    BY ConcatProperties, LenProperties
<1> HIDE DEF all, k
<1>2. \A i \in 1..Len(all) : InPlace(all[i]) => i \in 1..k /\ all[i] = bs[i]
  BY <1>1 DEF InPlace
<1>3. \A i \in 1..k : i \in 1..Len(all) /\ all[i] = bs[i]
  BY <1>1
<1>4. k = Len(bs)
  BY DEF k
<1>5. Upright(all, n)
  BY <1>2, <1>3, <1>4 DEF Upright
<1> QED
  BY <1>5 DEF all

LEMMA SameStands ==
    ASSUME doc' = doc, docType' = docType, engine' = engine
    PROVE  /\ \A l : Mark(l)' = Mark(l) /\ Stands(l)' = Stands(l) /\ SectionOf(l)' = SectionOf(l)
           /\ Upright(blocks, Start)' = Upright(blocks', Start')
<1>1. \A l : Heading(l)' = Heading(l) /\ SectionOf(l)' = SectionOf(l) /\ Pipe(l)' = Pipe(l)
  BY DEF Heading, SectionOf, Pipe
<1>2. \A l : Mark(l)' = Mark(l)
  BY <1>1 DEF Mark
<1>3. \A l : HeadingOf(l)' = HeadingOf(l) /\ HeaderOf(l)' = HeaderOf(l)
  BY <1>1 DEF HeadingOf, HeaderOf
<1>4. \A l : ArticleOf(l)' = ArticleOf(l) /\ SectionUnder(l)' = SectionUnder(l)
  BY <1>1, <1>3 DEF ArticleOf, SectionUnder
<1>5. \A l : Stands(l)' = Stands(l)
  BY <1>3, <1>4 DEF Stands
<1>6. Upright(blocks, Start)' = Upright(blocks', Start')
  BY <1>1, <1>2 DEF Upright, InPlace, DocLine
<1> QED
  BY <1>1, <1>2, <1>5, <1>6

\* The reader leaves the blocks in order, and what is pending after them.
LEMMA ReadInSequence ==
    ASSUME TypeInv, InSequence, ExtractMarkdown, docType' = docType, engine' = engine, TypeInv'
    PROVE  InSequence'
<1>1. /\ IsDocument(doc) /\ text \in Seq(DocLine) /\ rows \in Seq(DocLine) /\ blocks \in Seq(Blocks)
      /\ pos \in 1..Len(doc) + 2 /\ (rows # <<>> => text = <<>>)
  BY DEF TypeInv, Entered, Typed, Pending
<1>2. Len(doc) \in Nat /\ Len(rows) \in Nat /\ Len(text) \in Nat /\ DocLine = 1..Len(doc) /\ pos \in Nat
  BY <1>1, DocumentLines, LenProperties DEF DocLine
<1>3. /\ Start \in Nat \ {0} /\ Start = pos - Len(rows) - Len(text) /\ Upright(blocks, Start)
      /\ \A i \in 1..Len(rows) : rows[i] = Start + i - 1
      /\ \A i \in 1..Len(text) : text[i] = Start + i - 1
  BY DEF InSequence, Start
<1>4. doc' = doc /\ pos' = pos + 1 /\ pos \in 1..Len(doc) + 1 /\ (AtLine => pos \in DocLine)
  BY <1>1, <1>2 DEF ExtractMarkdown, ReadPage, ReadPipe, ReadHeading, ReadText, EndOfFile, AtLine
<1>5. Upright(Flushed, pos)
  BY FlushUpright
<1>6. Upright(blocks, Start)' = Upright(blocks', Start')
  BY <1>4, SameStands
<1>7. Start' = pos + 1 - Len(rows') - Len(text')
  BY <1>4 DEF Start
<1>8. blocks' \in Seq(Blocks)
  <2>1. Blocks' = Blocks
    BY <1>4, SameDocument
  <2> QED
    BY <2>1 DEF TypeInv, Typed
\* Everything is flushed, up to the line read or including it.
<1>9. ASSUME blocks' = Flushed, text' = <<>>, rows' = <<>>, pos \in DocLine => ~Mark(pos)
      PROVE  InSequence'
  <2>1. Len(text') = 0 /\ Len(rows') = 0
    BY <1>9
  <2>2. Start' = pos + 1
    BY <1>2, <1>7, <2>1
  <2>3. \A l \in DocLine : pos <= l /\ l < pos + 1 => ~Mark(l)
    BY <1>2, <1>9
  <2>4. Upright(blocks', pos + 1)
    BY <1>1, <1>2, <1>5, <1>8, <1>9, <2>3, UprightFurther
  <2> QED
    BY <1>2, <1>6, <2>1, <2>2, <2>4 DEF InSequence
<1>10. ASSUME blocks' = Flushed, \/ text' = <<pos>> /\ rows' = <<>>
                                 \/ text' = <<>> /\ rows' = <<pos>>
       PROVE  InSequence'
  <2>1. /\ \A i \in 1..Len(text') : text'[i] = pos /\ i = 1
        /\ \A i \in 1..Len(rows') : rows'[i] = pos /\ i = 1
        /\ Len(text') + Len(rows') = 1 /\ Len(text') \in Nat /\ Len(rows') \in Nat
    <3>1. Len(<<pos>>) = 1 /\ Len(<<>>) = 0 /\ <<pos>>[1] = pos
      OBVIOUS
    <3>2. \A i \in 1..Len(<<pos>>) : <<pos>>[i] = pos /\ i = 1
      BY <3>1
    <3>3. \A i \in 1..Len(<<>>) : FALSE
      BY <3>1
    <3>4. CASE text' = <<pos>> /\ rows' = <<>>
      BY <3>1, <3>2, <3>3, <3>4
    <3>5. CASE text' = <<>> /\ rows' = <<pos>>
      BY <3>1, <3>2, <3>3, <3>5
    <3> QED
      BY <1>10, <3>4, <3>5
  <2>2. Start' = pos
    BY <1>2, <1>7, <2>1
  <2>3. pos \in Nat \ {0} /\ pos = pos + 1 - 1
    BY <1>1
  <2>4. /\ \A i \in 1..Len(text') : text'[i] = Start' + i - 1
        /\ \A i \in 1..Len(rows') : rows'[i] = Start' + i - 1
    BY <2>1, <2>2, <2>3
  <2>5. Upright(blocks', Start')
    BY <1>5, <1>10, <2>2
  <2> QED
    BY <1>6, <2>2, <2>3, <2>4, <2>5 DEF InSequence
\* The line read is pending with those before it.
<1>11. ASSUME blocks' = blocks, AtLine, \/ text' = Append(text, pos) /\ rows' = rows /\ Len(rows) = 0
                                        \/ rows' = Append(rows, pos) /\ text' = text /\ Len(text) = 0
       PROVE  InSequence'
  <2>1. pos \in DocLine
    BY <1>4, <1>11
  <2>2. CASE text' = Append(text, pos) /\ rows' = rows /\ Len(rows) = 0
    <3>1. /\ Len(text') = Len(text) + 1
          /\ \A i \in 1..Len(text') : (i \in 1..Len(text) /\ text'[i] = text[i])
                                      \/ (i = Len(text) + 1 /\ text'[i] = pos)
      BY <1>1, <2>1, <2>2, AppendSays
    <3>2. Start' = Start
      BY <1>2, <1>3, <1>7, <2>2, <3>1
    <3>3. pos = Start + (Len(text) + 1) - 1
      BY <1>2, <1>3, <2>2
    <3>4. \A i \in 1..Len(text') : text'[i] = Start + i - 1
      BY <1>3, <3>1, <3>3
    <3> QED
      BY <1>3, <1>6, <1>11, <2>2, <3>2, <3>4 DEF InSequence
  <2>3. CASE rows' = Append(rows, pos) /\ text' = text /\ Len(text) = 0
    <3>1. /\ Len(rows') = Len(rows) + 1
          /\ \A i \in 1..Len(rows') : (i \in 1..Len(rows) /\ rows'[i] = rows[i])
                                      \/ (i = Len(rows) + 1 /\ rows'[i] = pos)
      BY <1>1, <2>1, <2>3, AppendSays
    <3>2. Start' = Start
      BY <1>2, <1>3, <1>7, <2>3, <3>1
    <3>3. pos = Start + (Len(rows) + 1) - 1
      BY <1>2, <1>3, <2>3
    <3>4. \A i \in 1..Len(rows') : rows'[i] = Start + i - 1
      BY <1>3, <3>1, <3>3
    <3> QED
      BY <1>3, <1>6, <1>11, <2>3, <3>2, <3>4 DEF InSequence
  <2> QED
    BY <1>11, <2>2, <2>3
<1>12. /\ InTable => text = <<>> /\ Len(text) = 0
       /\ ~InTable => rows = <<>> /\ Len(rows) = 0
  BY <1>1 DEF InTable
<1>13. Append(<<>>, pos) = <<pos>>
  OBVIOUS
<1>14. CASE ReadPage
  <2>1. rows' = <<>> /\ text' = <<>> /\ blocks' = Flushed /\ ~Mark(pos)
    BY <1>14, MarkIs DEF ReadPage
  <2> QED
    BY <1>9, <2>1
<1>15. CASE ReadHeading
  BY <1>10, <1>15 DEF ReadHeading
<1>16. CASE ReadText
  <2>1. /\ rows' = <<>> /\ text' = Append(text, pos) /\ AtLine
        /\ blocks' = (IF InTable THEN Flushed ELSE blocks)
    BY <1>16 DEF ReadText
  <2>2. CASE InTable
    <3>1. text' = <<pos>> /\ rows' = <<>> /\ blocks' = Flushed
      BY <1>12, <1>13, <2>1, <2>2
    <3> QED
      BY <1>10, <3>1
  <2>3. CASE ~InTable
    <3>1. blocks' = blocks /\ rows' = rows /\ Len(rows) = 0
      BY <1>12, <2>1, <2>3
    <3> QED
      BY <1>11, <2>1, <3>1
  <2> QED
    BY <2>2, <2>3
<1>17. CASE EndOfFile
  <2>1. rows' = <<>> /\ text' = <<>> /\ blocks' = Flushed /\ pos \notin DocLine
    BY <1>2, <1>17 DEF EndOfFile
  <2> QED
    BY <1>9, <2>1
<1>18. CASE ReadPipe
  <2>1. /\ text' = <<>> /\ rows' = Append(rows, pos) /\ AtLine
        /\ blocks' = (IF InTable THEN blocks ELSE Flushed)
    BY <1>18 DEF ReadPipe
  <2>2. CASE InTable
    <3>1. blocks' = blocks /\ text' = text /\ Len(text) = 0
      BY <1>12, <2>1, <2>2
    <3> QED
      BY <1>11, <2>1, <3>1
  <2>3. CASE ~InTable
    <3>1. rows' = <<pos>> /\ text' = <<>> /\ blocks' = Flushed
      BY <1>12, <1>13, <2>1, <2>3
    <3> QED
      BY <1>10, <3>1
  <2> QED
    BY <2>2, <2>3
<1> QED
  BY <1>14, <1>15, <1>16, <1>17, <1>18 DEF ExtractMarkdown

\* So does the reader of a PDF, a page at a time.
LEMMA PagesInSequence ==
    ASSUME TypeInv, InSequence, ExtractPdf, engine = "none", docType' = docType, engine' = engine, TypeInv'
    PROVE  InSequence'
<1>1. /\ IsDocument(doc) /\ pos \in 1..Len(doc) + 2 /\ blocks \in Seq(Blocks) /\ text = <<>> /\ rows = <<>>
  BY DEF TypeInv, Entered, Typed, Pending
<1>2. Len(doc) \in Nat /\ DocLine = 1..Len(doc) /\ DocLine \subseteq Nat /\ Len(<<>>) = 0 /\ pos \in Nat
  BY <1>1, DocumentLines DEF DocLine
<1>3. Start = pos /\ Upright(blocks, pos)
  <2>1. Start = pos
    BY <1>1, <1>2 DEF Start
  <2> QED
    BY <2>1 DEF InSequence
<1>4. /\ doc' = doc /\ text' = <<>> /\ rows' = <<>>
  BY <1>1 DEF ExtractPdf, ExtractPage, EndOfPdf
<1>5. Upright(blocks, Start)' = Upright(blocks', Start')
  BY <1>4, SameStands
<1>6. pos' \in Nat \ {0} /\ Start' = pos'
  <2>1. pos' \in 1..Len(doc') + 2
    BY DEF TypeInv, Typed
  <2>2. Start' = pos' - Len(rows') - Len(text')
    BY DEF Start
  <2>3. Len(rows') = 0 /\ Len(text') = 0
    BY <1>2, <1>4
  <2>4. pos' \in 1..Len(doc) + 2
    BY <1>4, <2>1
  <2>5. pos' \in Nat \ {0}
    BY <1>2, <2>4
  <2>6. \A p, r, t, n : p \in Nat /\ r = 0 /\ t = 0 /\ n = p - r - t => n = p
    OBVIOUS
  <2>7. Start' = pos'
    BY <2>2, <2>3, <2>5, <2>6
  <2> QED
    BY <2>5, <2>7
<1>7. SUFFICES Upright(blocks', pos')
  <2>1. \A i \in 1..Len(text') : FALSE
    BY <1>2, <1>4
  <2>2. \A i \in 1..Len(rows') : FALSE
    BY <1>2, <1>4
  <2> QED
    BY <1>5, <1>6, <2>1, <2>2 DEF InSequence
<1>8. CASE ExtractPage
  <2> DEFINE number == PageNumber(pos)
             printed == {k \in LinesOfPage(pos) : doc[k].kind \notin {"rule", "blank"}}
             words == [table |-> FALSE, page |-> number, lines |-> InOrder(printed)]
             tables == TablesOfPage(pos)
             read == blocks \o tables
  <2>1. /\ AtLine /\ doc[pos].kind = "page"
        /\ blocks' = read \o (IF printed = {} THEN <<>> ELSE <<words>>)
        /\ pos' = pos + 1 + Cardinality(LinesOfPage(pos))
    BY <1>8 DEF ExtractPage
  <2>2. pos \in DocLine
    BY <1>1, <1>2, <2>1 DEF AtLine
  <2>3. PICK e \in pos..Len(doc) : LinesOfPage(pos) = pos + 1..e /\ Cardinality(LinesOfPage(pos)) = e - pos
    BY <1>1, <2>2, PageRuns
  <2>4. pos' = e + 1 /\ e \in Nat /\ pos <= e
    BY <1>2, <2>1, <2>3
  <2>5. number \in Nat
    BY <1>1, <2>2, PageNumberType
  <2>6. tables \in Seq(Blocks) /\ \A i \in 1..Len(tables) : tables[i].table
    BY <1>1, <2>2, TablesType
  <2>7. printed \in SUBSET DocLine
    BY <1>1, <1>2, <2>3
  <2> HIDE DEF number, tables
  <2>8. read \in Seq(Blocks) /\ Upright(read, pos)
    <3>1. read \in Seq(Blocks)
      BY <1>1, <2>6, ConcatProperties
    <3> QED
      BY <1>1, <1>3, <2>6, <3>1, PlusTables
  <2> HIDE DEF read
  <2>9. Upright(read, pos + 1)
    <3>1. \A l \in DocLine : pos <= l /\ l < pos + 1 => ~Mark(l)
      BY <1>2, <2>1, MarkIs
    <3> QED
      BY <1>1, <1>2, <2>8, <3>1, UprightFurther
  <2>10. \A l \in DocLine : pos + 1 <= l /\ l < pos' /\ Mark(l) => l \in printed
    <3> SUFFICES ASSUME NEW l \in DocLine, pos + 1 <= l, l < pos', Mark(l) PROVE l \in printed
      OBVIOUS
    <3>1. l \in pos + 1..e
      BY <1>2, <2>4
    <3> QED
      BY <2>3, <3>1, MarkIs DEF Silent
  <2>11. CASE printed = {}
    <3>1. blocks' = read \o <<>>
      BY <2>1, <2>11
    <3>2. blocks' = read
      <4> HIDE DEF Blocks
      <4> QED
        BY <2>8, <3>1
    <3>3. \A l \in DocLine : pos + 1 <= l /\ l < pos' => ~Mark(l)
      BY <2>10, <2>11
    <3>4. Upright(read, pos')
      <4>1. pos' \in Nat /\ pos + 1 \in Nat /\ pos + 1 <= pos'
        BY <1>2, <2>4
      <4> QED
        BY <1>1, <2>8, <2>9, <3>3, <4>1, UprightFurther
    <3> QED
      BY <3>2, <3>4
  <2>12. CASE printed # {}
    <3> DEFINE ls == InOrder(printed)
    <3>1. ls \in Seq(DocLine) /\ Range(ls) = printed /\ Rises(ls)
      <4> HIDE DEF printed
      <4>1. ls \in Seq(DocLine) /\ Range(ls) = printed
        BY <1>1, <2>7, InOrderLists
      <4>2. Rises(ls)
        BY <1>1, <2>7, InOrderRises
      <4> QED
        BY <4>1, <4>2
    <3> HIDE DEF ls
    <3>2. Range(ls) = {ls[i] : i \in 1..Len(ls)}
      BY <3>1, Places1
    <3>3. \E i \in 1..Len(ls) : ~Silent(ls[i])
      BY <2>12, <3>1, <3>2 DEF Silent
    <3>4. words = [table |-> FALSE, page |-> number, lines |-> ls]
      BY DEF ls
    <3>5. words \in Blocks /\ words.lines = ls /\ ~words.table
      BY <2>5, <3>1, <3>3, <3>4 DEF Blocks
    <3> HIDE DEF words
    <3>6. blocks' = Append(read, words)
      <4>1. blocks' = read \o <<words>>
        BY <2>1, <2>12
      <4> HIDE DEF Blocks
      <4> QED
        BY <2>8, <4>1
    <3>7. \A l \in Range(ls) : pos + 1 <= l /\ l < pos'
      BY <1>2, <2>3, <2>4, <3>1
    <3>8. pos' \in Nat /\ pos + 1 \in Nat /\ pos + 1 <= pos'
      BY <1>2, <2>4
    <3>9. \A l \in DocLine : pos + 1 <= l /\ l < pos' /\ Mark(l) => ~words.table /\ l \in Range(words.lines)
      BY <2>10, <3>1, <3>5
    <3>10. InPlace(words) => /\ \A l \in Range(words.lines) :
                                  pos + 1 <= l /\ l < pos' /\ (words.table => Pipe(l))
                             /\ Rises(words.lines)
      BY <3>1, <3>5, <3>7
    <3>11. Upright(Append(read, words), pos')
      BY <1>1, <2>8, <2>9, <3>5, <3>8, <3>9, <3>10, PlusUpright
    <3> QED
      BY <3>6, <3>11
  <2> QED
    BY <2>11, <2>12
<1>9. CASE EndOfPdf
  <2>1. pos = Len(doc) + 1 /\ pos' = pos + 1 /\ blocks' = blocks
    BY <1>9 DEF EndOfPdf
  <2>2. \A l \in DocLine : pos <= l /\ l < pos + 1 => ~Mark(l)
    BY <1>2, <2>1
  <2> QED
    BY <1>1, <1>2, <1>3, <2>1, <2>2, UprightFurther
<1> QED
  BY <1>8, <1>9 DEF ExtractPdf

-----------------------------------------------------------------------------
(* The context of the chunker                                              *)

Texts == {b \in 1..Len(blocks) : ~blocks[b].table}
TextLines(b) == 1..Len(Solid(blocks[b].lines))
TextLine(b, j) == Solid(blocks[b].lines)[j]

\* The lines of text come in order, with every mark among them and the tables between them.
TextRead ==
    /\ \A b \in Texts : \A i \in TextLines(b) : TextLine(b, i) \in DocLine
    /\ \A b, c \in Texts : \A i \in TextLines(b), j \in TextLines(c) :
         b < c \/ (b = c /\ i < j) => TextLine(b, i) < TextLine(c, j)
    /\ \A l \in DocLine : Mark(l) => \E b \in Texts : \E i \in TextLines(b) : TextLine(b, i) = l
    /\ engine # "none" =>
         \A t \in (1..Len(blocks)) \ Texts : \A l \in Range(blocks[t].lines) :
           /\ Pipe(l)
           /\ \A b \in Texts : \A i \in TextLines(b) :
                (b < t => TextLine(b, i) < l) /\ (t < b => l < TextLine(b, i))

LEMMA AllInOrder ==
    ASSUME TypeInv, InSequence, Extracted
    PROVE  TextRead
<1>1. /\ IsDocument(doc) /\ blocks \in Seq(Blocks) /\ text = <<>> /\ rows = <<>> /\ pos \in 1..Len(doc) + 2
  BY DEF TypeInv, Entered, Typed, Pending
<1>2. Len(doc) \in Nat /\ DocLine = 1..Len(doc) /\ DocLine \in SUBSET Int /\ Len(blocks) \in Nat
  BY <1>1, DocumentLines, LenProperties DEF DocLine
<1>3. Upright(blocks, pos) /\ \A l \in DocLine : l < pos
  <2>1. Len(text) = 0 /\ Len(rows) = 0
    BY <1>1, EmptySeq
  <2>2. Start = pos
    BY <1>1, <1>2, <2>1 DEF Start
  <2> QED
    BY <1>1, <1>2, <2>2 DEF InSequence, Extracted
<1>4. ASSUME NEW b \in Texts
      PROVE  /\ Solid(blocks[b].lines) \in Seq(DocLine) /\ Rises(Solid(blocks[b].lines))
             /\ \A i \in TextLines(b) : /\ TextLine(b, i) \in DocLine
                                        /\ TextLine(b, i) \in Range(blocks[b].lines)
             /\ \A l \in Range(blocks[b].lines) :
                  ~Silent(l) => \E i \in TextLines(b) : TextLine(b, i) = l
  <2>1. b \in 1..Len(blocks) /\ InPlace(blocks[b]) /\ blocks[b] \in Blocks
    BY <1>1, BlockNumbers DEF Texts, InPlace
  <2> DEFINE ls == blocks[b].lines
             ts == Solid(ls)
  <2>2. /\ ls \in Seq(DocLine) /\ ts \in Seq(DocLine)
        /\ Range(ts) = {l \in Range(ls) : ~Silent(l)} /\ Rises(ls)
    BY <1>1, <1>3, <2>1, BlockLines DEF Upright
  <2>3. Rises(ts)
    <3> HIDE DEF ls
    <3>1. {i \in DOMAIN ls : doc[ls[i]].kind # "blank"} \in SUBSET DOMAIN ls
      OBVIOUS
    <3> QED
      BY <1>2, <2>2, <3>1, PickedRises DEF Solid
  <2>4. Range(ts) = {ts[i] : i \in 1..Len(ts)}
    BY <2>2, Places1
  <2> QED
    BY <2>2, <2>3, <2>4 DEF TextLines, TextLine
<1>5. ASSUME NEW b \in Texts, NEW c \in Texts, NEW i \in TextLines(b), NEW j \in TextLines(c),
             b < c \/ (b = c /\ i < j)
      PROVE  TextLine(b, i) < TextLine(c, j)
  <2>1. CASE b < c
    <3>1. TextLine(b, i) \in Range(blocks[b].lines) /\ TextLine(c, j) \in Range(blocks[c].lines)
      BY <1>4
    <3> QED
      BY <1>3, <2>1, <3>1 DEF Upright, Texts, InPlace
  <2>2. CASE b = c /\ i < j
    BY <1>4, <2>2 DEF Rises, TextLine, TextLines
  <2> QED
    BY <1>5, <2>1, <2>2
<1>6. ASSUME NEW l \in DocLine, Mark(l)
      PROVE  \E b \in Texts : \E i \in TextLines(b) : TextLine(b, i) = l
  <2>1. PICK b \in 1..Len(blocks) : ~blocks[b].table /\ l \in Range(blocks[b].lines)
    BY <1>3, <1>6 DEF Upright
  <2>2. b \in Texts /\ ~Silent(l)
    BY <1>6, <2>1, MarkIs DEF Texts
  <2> QED
    BY <1>4, <2>1, <2>2
<1>7. ASSUME engine # "none", NEW t \in (1..Len(blocks)) \ Texts, NEW l \in Range(blocks[t].lines)
      PROVE  /\ Pipe(l)
             /\ \A b \in Texts : \A i \in TextLines(b) :
                  (b < t => TextLine(b, i) < l) /\ (t < b => l < TextLine(b, i))
  <2>1. t \in 1..Len(blocks) /\ InPlace(blocks[t]) /\ blocks[t].table /\ \A b \in Texts : InPlace(blocks[b])
    BY <1>7 DEF InPlace, Texts
  <2>2. \A b \in Texts : b \in 1..Len(blocks) /\ \A i \in TextLines(b) : TextLine(b, i) \in Range(blocks[b].lines)
    BY <1>4 DEF Texts
  <2> QED
    BY <1>3, <2>1, <2>2 DEF Upright
<1> QED
  BY <1>4, <1>5, <1>6, <1>7 DEF TextRead

\* Line m stands between the text the chunker has taken and the text before it.
Reached(n, k, m) ==
    \A b \in Texts : \A i \in TextLines(b) :
      TextLine(b, i) <= m <=> b < n \/ (b = n /\ i < k)

\* The chunker's context is what the document says of such a line.
ContextTrue == \A m \in 0..Len(doc) : Reached(blockNo, lineNo, m) => context = Stands(m)

LEMMA HereInText ==
    ASSUME AtWork, Reading, ~blocks[blockNo].table
    PROVE  /\ blockNo \in Texts /\ lineNo \in TextLines(blockNo) /\ Here = TextLine(blockNo, lineNo)
           /\ Here \in DocLine /\ Here \in Nat /\ Here - 1 \in 0..Len(doc) /\ Here \in 0..Len(doc)
           /\ lineNo \in Nat /\ blockNo \in Nat /\ Len(Solid(blocks[blockNo].lines)) \in Nat
           /\ Len(blocks) \in Nat /\ Len(doc) \in Nat
<1>1. /\ IsDocument(doc) /\ lineNo \in Nat \ {0} /\ blockNo \in Nat /\ blocks \in Seq(Blocks)
  BY DEF AtWork
<1>2. /\ Here \in DocLine /\ lineNo <= Len(Solid(blocks[blockNo].lines)) /\ blockNo \in 1..Len(blocks)
  BY HereIs
<1>3. blocks[blockNo] \in Blocks /\ Len(blocks) \in Nat
  BY <1>1, <1>2, BlockNumbers, LenProperties
<1>4. Len(Solid(blocks[blockNo].lines)) \in Nat
  BY <1>1, <1>3, BlockLines
<1>5. DocLine = 1..Len(doc) /\ Len(doc) \in Nat
  BY <1>1, DocumentLines DEF DocLine
<1>6. Here = TextLine(blockNo, lineNo)
  BY DEF Here, LinesHere, TextLine
<1>7. lineNo \in TextLines(blockNo) /\ blockNo \in Texts
  BY <1>1, <1>2, <1>4 DEF TextLines, Texts
<1>8. Here \in Nat /\ Here - 1 \in 0..Len(doc) /\ Here \in 0..Len(doc)
  BY <1>2, <1>5
<1> QED
  BY <1>1, <1>2, <1>3, <1>4, <1>5, <1>6, <1>7, <1>8

\* Before a line the context is that of the line above it.
LEMMA ContextHere ==
    ASSUME AtWork, TextRead, ContextTrue, Reading, ~blocks[blockNo].table
    PROVE  context = Stands(Here - 1)
<1>1. /\ blockNo \in Texts /\ lineNo \in TextLines(blockNo) /\ Here = TextLine(blockNo, lineNo)
      /\ Here \in Nat /\ Here - 1 \in 0..Len(doc) /\ Texts \subseteq Nat
      /\ \A b \in Texts : TextLines(b) \subseteq Nat
  BY HereInText DEF Texts, TextLines
<1>2. ASSUME NEW b \in Texts, NEW i \in TextLines(b)
      PROVE  TextLine(b, i) <= Here - 1 <=> b < blockNo \/ (b = blockNo /\ i < lineNo)
  <2>1. TextLine(b, i) \in Nat
    BY DocumentLines DEF TextRead, AtWork
  <2>2. b < blockNo \/ (b = blockNo /\ i < lineNo) => TextLine(b, i) < Here
    BY <1>1 DEF TextRead
  <2>3. blockNo < b \/ (b = blockNo /\ lineNo < i) => Here < TextLine(b, i)
    BY <1>1 DEF TextRead
  <2>4. b = blockNo /\ i = lineNo => TextLine(b, i) = Here
    BY <1>1
  <2>5. /\ b < blockNo \/ b = blockNo \/ blockNo < b
        /\ i < lineNo \/ i = lineNo \/ lineNo < i
        /\ b \in Nat /\ i \in Nat /\ blockNo \in Nat /\ lineNo \in Nat
    BY <1>1
  <2> QED
    BY <1>1, <2>1, <2>2, <2>3, <2>4, <2>5
<1>3. Reached(blockNo, lineNo, Here - 1)
  BY <1>2 DEF Reached
<1> QED
  BY <1>1, <1>3 DEF ContextTrue

\* After it the context has to be that of the line.
LEMMA ContextNext ==
    ASSUME AtWork, TypeOfDocument, TextRead, Reading, ~blocks[blockNo].table, NextLine, NEW m \in 0..Len(doc),
           Reached(blockNo', lineNo', m)
    PROVE  Stands(m) = Stands(Here)
<1>1. /\ blockNo \in Texts /\ lineNo \in TextLines(blockNo) /\ Here = TextLine(blockNo, lineNo)
      /\ Here \in Nat /\ Here \in 0..Len(doc) /\ Texts \subseteq Nat /\ Len(doc) \in Nat
      /\ \A b \in Texts : TextLines(b) \subseteq Nat
      /\ lineNo \in Nat /\ blockNo \in Nat /\ Len(LinesHere) \in Nat
      /\ TextLines(blockNo) = 1..Len(LinesHere)
  BY HereInText DEF Texts, TextLines, LinesHere
<1>2. \/ lineNo' = lineNo + 1 /\ blockNo' = blockNo
      \/ lineNo' = 1 /\ blockNo' = blockNo + 1 /\ lineNo = Len(LinesHere)
  BY <1>1 DEF NextLine
<1>3. ASSUME NEW b \in Texts, NEW i \in TextLines(b)
      PROVE  TextLine(b, i) <= m <=> b < blockNo \/ (b = blockNo /\ i <= lineNo)
  <2>1. TextLine(b, i) <= m <=> b < blockNo' \/ (b = blockNo' /\ i < lineNo')
    BY DEF Reached
  <2>2. b \in Nat /\ i \in Nat /\ i >= 1 /\ (b = blockNo => i <= Len(LinesHere))
    BY <1>1 DEF TextLines
  <2> QED
    BY <1>1, <1>2, <2>1, <2>2
<1>4. Here <= m
  BY <1>1, <1>3
<1>5. ASSUME NEW l \in DocLine, Mark(l), l <= m PROVE l <= Here
  <2>1. PICK b \in Texts : \E i \in TextLines(b) : TextLine(b, i) = l
    BY <1>5 DEF TextRead
  <2>2. PICK i \in TextLines(b) : TextLine(b, i) = l
    BY <2>1
  <2>3. b < blockNo \/ (b = blockNo /\ i < lineNo) \/ (b = blockNo /\ i = lineNo)
    BY <1>1, <1>3, <1>5, <2>2
  <2>4. b < blockNo \/ (b = blockNo /\ i < lineNo) => l < Here
    BY <1>1, <2>2 DEF TextRead
  <2>5. l \in Nat
    BY DocumentLines DEF AtWork
  <2> QED
    BY <1>1, <2>2, <2>3, <2>4, <2>5
<1>6. IsDocument(doc)
  BY DEF AtWork
<1> QED
  BY <1>1, <1>4, <1>5, <1>6, SameStanding

LEMMA ContextTurns ==
    ASSUME AtWork, TypeOfDocument, TextRead, ContextTrue, Reading, ~blocks[blockNo].table
    PROVE  /\ docType = "agreement" => Turn(context, Here) = Stands(Here)
           /\ docType = "wage_schedule" /\ doc[Here].kind = "head" =>
                [NoContext EXCEPT !.title = Here] = Stands(Here)
           /\ docType = "wage_schedule" /\ doc[Here].kind # "head" => context = Stands(Here)
<1>1. /\ IsDocument(doc) /\ context = Stands(Here - 1) /\ Here \in DocLine /\ Here \in Nat
      /\ Here - 1 \in 0..Len(doc) /\ Here \in 0..Len(doc)
  BY ContextHere, HereInText DEF AtWork
<1>2. docType = "agreement" => Turn(context, Here) = Stands(Here)
  BY <1>1, Turning
<1>3. docType = "wage_schedule" /\ doc[Here].kind = "head" => [NoContext EXCEPT !.title = Here] = Stands(Here)
  BY <1>1, HeadTurns
<1>4. ASSUME docType = "wage_schedule", doc[Here].kind # "head" PROVE context = Stands(Here)
  <2>1. ASSUME NEW l \in DocLine, Mark(l), l <= Here PROVE l <= Here - 1
    <3>1. l # Here /\ l \in Nat
      BY <1>1, <1>4, <2>1, DocumentLines DEF Mark
    <3> QED
      BY <1>1, <2>1, <3>1
  <2>2. Here - 1 <= Here
    BY <1>1
  <2> QED
    BY <1>1, <2>1, <2>2, SameStanding
<1> QED
  BY <1>2, <1>3, <1>4

\* A table moves the chunker past no line of text.
LEMMA ContextPast ==
    ASSUME NEW n \in Nat, n \notin Texts, NEW m, Reached(n + 1, 1, m), NEW k
    PROVE  Reached(n, k, m)
<1>1. \A b \in Texts : b \in Nat /\ b # n /\ \A i \in TextLines(b) : i \in Nat /\ i >= 1
  BY DEF Texts, TextLines
<1>2. ASSUME NEW b \in Texts, NEW i \in TextLines(b)
      PROVE  TextLine(b, i) <= m <=> b < n \/ (b = n /\ i < k)
  <2>1. TextLine(b, i) <= m <=> b < n + 1 \/ (b = n + 1 /\ i < 1)
    BY DEF Reached
  <2>2. b \in Nat /\ b # n /\ i \in Nat /\ i >= 1
    BY <1>1
  <2>3. (b < n + 1 \/ (b = n + 1 /\ i < 1)) <=> b < n
    BY <2>2
  <2> QED
    BY <2>1, <2>2, <2>3
<1> QED
  BY <1>2 DEF Reached

\* Before a table the context is that of its first row.
LEMMA ContextTable ==
    ASSUME AtWork, TextRead, ContextTrue, Reading, blocks[blockNo].table, engine # "none"
    PROVE  /\ context = Stands(blocks[blockNo].lines[1])
           /\ blocks[blockNo].lines[1] \in DocLine /\ Pipe(blocks[blockNo].lines[1])
<1>1. /\ IsDocument(doc) /\ blocks \in Seq(Blocks) /\ blockNo \in Nat
  BY DEF AtWork
<1>2. blockNo \in 1..Len(blocks) /\ Len(blocks) \in Nat
  BY <1>1, Places1 DEF Reading
<1>3. blocks[blockNo] \in Blocks /\ blockNo \in (1..Len(blocks)) \ Texts
  BY <1>1, <1>2, BlockNumbers DEF Texts
<1> DEFINE l == blocks[blockNo].lines[1]
<1>4. l \in DocLine /\ l \in Range(blocks[blockNo].lines)
  <2>1. /\ l \in DocLine /\ blocks[blockNo].lines \in Seq(DocLine) /\ blocks[blockNo].lines # <<>>
    BY <1>1, <1>3, BlockLines
  <2>2. Len(blocks[blockNo].lines) \in Nat \ {0}
    BY <2>1, EmptySeq
  <2>3. 1 \in 1..Len(blocks[blockNo].lines)
    BY <2>2
  <2>4. Range(blocks[blockNo].lines) = {blocks[blockNo].lines[i] : i \in 1..Len(blocks[blockNo].lines)}
    BY <2>1, Places1
  <2> QED
    BY <2>1, <2>3, <2>4
<1> HIDE DEF l
<1>5. l \in Nat /\ l \in 0..Len(doc)
  BY <1>1, <1>4, DocumentLines DEF DocLine
<1>6. Reached(blockNo, lineNo, l)
  <2> SUFFICES ASSUME NEW b \in Texts, NEW i \in TextLines(b)
               PROVE  TextLine(b, i) <= l <=> b < blockNo \/ (b = blockNo /\ i < lineNo)
    BY DEF Reached
  <2>1. b \in Nat /\ b # blockNo
    BY <1>3 DEF Texts
  <2>2. TextLine(b, i) \in Nat
    BY <1>1, DocumentLines DEF TextRead
  <2>3. (b < blockNo => TextLine(b, i) < l) /\ (blockNo < b => l < TextLine(b, i))
    BY <1>3, <1>4 DEF TextRead
  <2> QED
    BY <1>1, <1>5, <2>1, <2>2, <2>3
<1>7. context = Stands(l) /\ Pipe(l)
  BY <1>3, <1>4, <1>5, <1>6 DEF ContextTrue, TextRead
<1> QED
  BY <1>4, <1>7 DEF l

-----------------------------------------------------------------------------
(* What a piece of text is cited for                                       *)

LEMMA StandsIs ==
    ASSUME NEW l
    PROVE  /\ docType = "agreement" =>
                /\ Stands(l).article = ArticleOf(l) /\ Stands(l).title = HeadingOf(l)
                /\ Stands(l).section = SectionUnder(l)
           /\ docType = "wage_schedule" =>
                /\ Stands(l).title = HeaderOf(l) /\ Stands(l).article = NoName
                /\ Stands(l).section = NoName
BY DEF Stands, NoContext

LEMMA SectionStands ==
    ASSUME IsDocument(doc), docType = "agreement", NEW l \in DocLine
    PROVE  /\ SectionOf(l) # NoName => Stands(l).section = SectionOf(l)
           /\ ~Heading(l) /\ SectionOf(l) = NoName => Stands(l) = Stands(l - 1)
<1>1. Stands(l) = Turn(Stands(l - 1), l)
  BY Turning
<1>2. SectionOf(l) # NoName => ~Heading(l)
  BY DEF SectionOf, Heading
<1>3. /\ Stands(l - 1) = [article |-> Stands(l - 1).article, title |-> Stands(l - 1).title,
                          section |-> Stands(l - 1).section]
  BY DEF Stands
<1>4. SectionOf(l) # NoName => Stands(l) = [Stands(l - 1) EXCEPT !.section = SectionOf(l)]
  BY <1>1, <1>2 DEF Turn
<1>5. ~Heading(l) /\ SectionOf(l) = NoName => Stands(l) = Stands(l - 1)
  BY <1>1 DEF Turn
<1> QED
  BY <1>3, <1>4, <1>5

\* What line l of a table stands under, but for the section the row itself opens.
TableStands(c, l) ==
    IF docType = "wage_schedule" THEN c.title = HeaderOf(l)
    ELSE /\ c.title = HeadingOf(l) /\ c.article = ArticleOf(l)
         /\ c.section = IF doc[l].kind = "row" /\ doc[l].name # NoName
                        THEN doc[l].name ELSE SectionUnder(l)

\* A piece that is cited for what it says, and so is the chunk it becomes.
PieceCited(c) ==
    /\ IF c.table
       THEN engine # "none" /\ Strip(c.text) # <<>> => TableStands(c, Strip(c.text)[1][2])
       ELSE TextCited(c)
    /\ LeadCited(c)

ChunkCited(c) ==
    /\ IF c.table THEN engine # "none" => c.text # <<>> /\ TableStands(c, c.text[1][2])
       ELSE TextCited(c)
    /\ LeadCited(c)

\* The lines of the buffer bf stand under the context c, section after section.
Gathered(bf, c) ==
    /\ \A i \in 1..Len(bf) : /\ Stands(bf[i].line).title = c.title
                             /\ Stands(bf[i].line).article = c.article
    /\ docType = "agreement" =>
         /\ \A i, j \in 1..Len(bf) :
              i <= j /\ (\A k \in i + 1..j : SectionOf(bf[k].line) = NoName)
                => Stands(bf[j].line).section = Stands(bf[i].line).section
         /\ Len(bf) # 0 => Stands(bf[Len(bf)].line).section = c.section

LEMMA PieceStands ==
    ASSUME IsDocument(doc), TypeOfDocument, NEW part \in Seq(Kept), NEW p \in Nat, NEW c \in Contexts,
           \A i \in 1..Len(part) : /\ Stands(part[i].line).title = c.title
                                   /\ Stands(part[i].line).article = c.article,
           docType = "agreement" =>
             c.section = NoName \/ \A i \in 1..Len(part) : Stands(part[i].line).section = c.section
    PROVE  PieceCited(Piece(TextOf(part), p, c))
<1> DEFINE q == Piece(TextOf(part), p, c)
<1>1. ~q.table /\ \A ch \in Range(q.text) : \E i \in 1..Len(part) : ch[2] = part[i].line
  BY PieceSays
<1>2. /\ q.lead = <<>> /\ q.article = c.article /\ q.title = c.title /\ q.section = c.section
  BY DEF Piece
<1> HIDE DEF q
<1>3. LeadCited(q)
  <2>1. Range(<<>>) = {}
    BY DEF Range
  <2> QED
    BY <1>2, <2>1 DEF LeadCited
<1>4. ASSUME NEW ch \in Solids(q)
      PROVE  IF docType = "wage_schedule" THEN q.title = HeaderOf(ch[2])
             ELSE /\ q.title = HeadingOf(ch[2]) /\ q.article = ArticleOf(ch[2])
                  /\ q.section \in {NoName, SectionUnder(ch[2])}
  <2>1. PICK i \in 1..Len(part) : ch[2] = part[i].line
    BY <1>1 DEF Solids
  <2>2. /\ Stands(ch[2]).title = q.title /\ Stands(ch[2]).article = q.article
        /\ docType = "agreement" => q.section = NoName \/ Stands(ch[2]).section = q.section
    BY <1>2, <2>1
  <2> QED
    BY <2>2, StandsIs DEF TypeOfDocument
<1>5. TextCited(q)
  BY <1>4 DEF TextCited
<1> QED
  BY <1>1, <1>3, <1>5 DEF PieceCited, q

AllPieces(s) == \A i \in 1..Len(s) : PieceCited(s[i])
AllChunks(s) == \A i \in 1..Len(s) : ChunkCited(s[i])

\* One piece for the whole buffer, under no section or under the one section it has.
LEMMA OneCited ==
    ASSUME IsDocument(doc), TypeOfDocument, buffer \in Seq(Kept), buffer # <<>>, NEW c \in Contexts,
           Gathered(buffer, context), c.title = context.title, c.article = context.article,
           docType = "agreement" => c.section = NoName
    PROVE  AllPieces(<<Piece(TextOf(buffer), buffer[1].page, c)>>)
<1>1. buffer[1].page \in Nat
  <2>1. buffer[1] \in Kept
    BY EmptySeq
  <2> QED
    BY <2>1 DEF Kept
<1>2. PieceCited(Piece(TextOf(buffer), buffer[1].page, c))
  BY <1>1, PieceStands DEF Gathered
<1> QED
  BY <1>2 DEF AllPieces

LEMMA NoneCited == AllPieces(<<>>) /\ AllChunks(<<>>)
<1>1. Len(<<>>) = 0
  OBVIOUS
<1> QED
  BY <1>1 DEF AllPieces, AllChunks

\* An article in one piece is cited without a section, one in parts each with its own.
LEMMA ArticleCited ==
    ASSUME IsDocument(doc), docType = "agreement", buffer \in Seq(Kept), context \in Contexts,
           Gathered(buffer, context)
    PROVE  AllPieces(ArticlePieces)
<1> DEFINE parts == Sections(buffer)
           In(section) == [context EXCEPT !.section = section]
           piece(k) == Piece(TextOf(parts[k]), parts[k][1].page, In(SectionOf(parts[k][1].line)))
           cut == [k \in DOMAIN parts |-> piece(k)]
<1>1. ASSUME NEW section \in Names
      PROVE  /\ In(section) \in Contexts /\ In(section).title = context.title
             /\ In(section).article = context.article /\ In(section).section = section
  BY DEF Contexts
<1>2. CASE buffer = <<>>
  <2>1. ArticlePieces = <<>>
    BY <1>2 DEF ArticlePieces
  <2> QED
    BY <2>1, NoneCited
<1>3. CASE buffer # <<>> /\ Fits(TextOf(buffer))
  <2>1. /\ In(NoName) \in Contexts /\ In(NoName).title = context.title
        /\ In(NoName).article = context.article /\ In(NoName).section = NoName
    BY <1>1 DEF Names
  <2>2. ArticlePieces = <<Piece(TextOf(buffer), buffer[1].page, In(NoName))>>
    BY <1>3 DEF ArticlePieces
  <2> HIDE DEF In
  <2>3. AllPieces(<<Piece(TextOf(buffer), buffer[1].page, In(NoName))>>)
    BY <1>3, <2>1, OneCited DEF TypeOfDocument
  <2> QED
    BY <2>2, <2>3
<1>4. CASE buffer # <<>> /\ ~Fits(TextOf(buffer))
  <2>1. ArticlePieces = cut
    BY <1>4 DEF ArticlePieces
  <2>2. /\ parts \in Seq(Seq(Kept))
        /\ \A k \in 1..Len(parts) : parts[k] # <<>> /\ Len(parts[k]) \in Nat
        /\ \A k \in 1..Len(parts) : \E a, z \in 1..Len(buffer) :
             /\ a <= z /\ Len(parts[k]) = z - a + 1
             /\ \A j \in 1..z - a + 1 : parts[k][j] = buffer[a + j - 1]
             /\ \A x \in a + 1..z : SectionOf(buffer[x].line) = NoName
    BY <1>4, SectionsCover
  <2> HIDE DEF parts
  <2>3. /\ Len(parts) \in Nat /\ DOMAIN parts = 1..Len(parts)
        /\ \A k \in 1..Len(parts) : parts[k] \in Seq(Kept)
    BY <2>2, Places1
  <2>4. Len(buffer) \in Nat /\ \A i \in 1..Len(buffer) : buffer[i] \in Kept
    BY Places1
  <2>5. ASSUME NEW k \in 1..Len(parts)
        PROVE  PieceCited(piece(k))
    <3> DEFINE part == parts[k]
               section == SectionOf(part[1].line)
    <3>1. PICK a \in 1..Len(buffer), z \in 1..Len(buffer) :
            /\ a <= z /\ Len(part) = z - a + 1
            /\ \A j \in 1..z - a + 1 : part[j] = buffer[a + j - 1]
            /\ \A x \in a + 1..z : SectionOf(buffer[x].line) = NoName
      BY <2>2
    <3>2. part \in Seq(Kept)
      BY <2>3
    <3> HIDE DEF part
    <3>3. ASSUME NEW j \in 1..Len(part)
          PROVE  /\ a + j - 1 \in 1..Len(buffer) /\ a + j - 1 <= z /\ a <= a + j - 1
                 /\ part[j] = buffer[a + j - 1]
      BY <2>4, <3>1
    <3>4. 1 \in 1..Len(part) /\ part[1] = buffer[a]
      <4>1. 1 \in 1..Len(part) /\ a + 1 - 1 = a
        BY <2>4, <3>1
      <4> QED
        BY <3>3, <4>1
    <3>5. part[1].page \in Nat /\ part[1].line \in DocLine
      <4>1. part[1] \in Kept
        BY <2>4, <3>4
      <4> QED
        BY <4>1 DEF Kept
    <3>6. section \in Names
      BY <3>5, TurnType
    <3>7. \A j \in 1..Len(part) : /\ Stands(part[j].line).title = context.title
                                  /\ Stands(part[j].line).article = context.article
      BY <3>3 DEF Gathered
    <3>8. ASSUME section # NoName, NEW j \in 1..Len(part)
          PROVE  Stands(part[j].line).section = section
      <4>1. Stands(buffer[a].line).section = section
        BY <3>4, <3>5, <3>8, SectionStands
      <4>2. \A x \in a + 1..a + j - 1 : x \in a + 1..z
        BY <2>4, <3>3
      <4>3. \A x \in a + 1..a + j - 1 : SectionOf(buffer[x].line) = NoName
        BY <3>1, <4>2
      <4>4. Stands(buffer[a + j - 1].line).section = Stands(buffer[a].line).section
        BY <3>3, <4>3 DEF Gathered
      <4> QED
        BY <3>3, <4>1, <4>4
    <3>9. /\ In(section) \in Contexts /\ In(section).title = context.title
          /\ In(section).article = context.article /\ In(section).section = section
      BY <1>1, <3>6
    <3> HIDE DEF In, section
    <3>10. PieceCited(Piece(TextOf(part), part[1].page, In(section)))
      BY <3>2, <3>5, <3>7, <3>8, <3>9, PieceStands DEF TypeOfDocument
    <3> QED
      BY <3>10 DEF part, section
  <2> HIDE DEF piece
  <2>6. cut = [k \in 1..Len(parts) |-> piece(k)]
    BY <2>3
  <2>7. Len(cut) = Len(parts) /\ \A k \in 1..Len(parts) : cut[k] = piece(k)
    BY <2>3, <2>6
  <2>8. AllPieces(cut)
    BY <2>5, <2>7 DEF AllPieces
  <2> QED
    BY <2>1, <2>8
<1> QED
  BY <1>2, <1>3, <1>4

LEMMA HeadedCited ==
    ASSUME IsDocument(doc), docType = "wage_schedule", buffer \in Seq(Kept), context \in Contexts,
           Gathered(buffer, context)
    PROVE  AllPieces(HeadedPieces)
<1>1. buffer = <<>> => HeadedPieces = <<>>
  BY DEF HeadedPieces
<1>2. buffer # <<>> => HeadedPieces = <<Piece(TextOf(buffer), buffer[1].page, context)>>
  BY DEF HeadedPieces
<1>3. buffer # <<>> => AllPieces(<<Piece(TextOf(buffer), buffer[1].page, context)>>)
  BY OneCited DEF TypeOfDocument
<1> QED
  BY <1>1, <1>2, <1>3, NoneCited

-----------------------------------------------------------------------------
(* The text before a table                                                 *)

LinesOf(b) == IF blocks[b].table THEN <<>> ELSE Solid(blocks[b].lines)
AllText == FlattenSeq([b \in DOMAIN blocks |-> LinesOf(b)])

LEMMA TextRises ==
    ASSUME IsDocument(doc), blocks \in Seq(Blocks), TextRead
    PROVE  /\ AllText \in Seq(DocLine) /\ Rises(AllText)
           /\ \A l \in DocLine : Mark(l) => l \in Range(AllText)
<1> DEFINE all == [b \in DOMAIN blocks |-> LinesOf(b)]
           n == Len(blocks)
<1>1. n \in Nat /\ DOMAIN blocks = 1..n /\ \A b \in 1..n : blocks[b] \in Blocks
  BY Places1
<1>2. DocLine \in SUBSET Int
  BY DocumentLines
<1>3. ASSUME NEW b \in 1..n
      PROVE  /\ LinesOf(b) \in Seq(DocLine)
             /\ \A i \in 1..Len(LinesOf(b)) : b \in Texts /\ i \in TextLines(b) /\ LinesOf(b)[i] = TextLine(b, i)
             /\ b \in Texts => LinesOf(b) = Solid(blocks[b].lines)
  <2>1. CASE blocks[b].table
    <3>1. LinesOf(b) = <<>> /\ b \notin Texts
      BY <2>1 DEF LinesOf, Texts
    <3>2. Len(<<>>) = 0
      OBVIOUS
    <3> QED
      BY <3>1, <3>2, EmptySeq
  <2>2. CASE ~blocks[b].table
    <3>1. LinesOf(b) = Solid(blocks[b].lines) /\ b \in Texts
      BY <2>2 DEF LinesOf, Texts
    <3>2. Solid(blocks[b].lines) \in Seq(DocLine)
      BY <1>1, BlockLines
    <3> QED
      BY <3>1, <3>2 DEF TextLines, TextLine
  <2> QED
    BY <2>1, <2>2
<1>4. all = [b \in 1..n |-> LinesOf(b)]
  BY <1>1
<1>5. all \in [1..n -> Seq(DocLine)] /\ \A b \in 1..n : all[b] = LinesOf(b)
  <2> HIDE DEF LinesOf
  <2> QED
    BY <1>3, <1>4
<1> HIDE DEF all
<1>6. all \in Seq(Seq(DocLine)) /\ Len(all) = n
  BY <1>1, <1>5
<1>7. ASSUME NEW b \in 1..n PROVE Rises(LinesOf(b))
  BY <1>3 DEF Rises, TextRead
<1>8. ASSUME NEW b \in 1..n, NEW c \in 1..n, b < c, NEW x \in Range(LinesOf(b)), NEW y \in Range(LinesOf(c))
      PROVE  x < y
  <2>1. PICK i \in 1..Len(LinesOf(b)) : LinesOf(b)[i] = x
    BY <1>3, Places1
  <2>2. PICK j \in 1..Len(LinesOf(c)) : LinesOf(c)[j] = y
    BY SMTT(30), <1>3, Places1
  <2> QED
    BY <1>3, <1>8, <2>1, <2>2 DEF TextRead
<1>9. AllText = FlattenSeq(all)
  BY DEF AllText, all
<1>10. Rises(FlattenSeq(all))
  <2>1. \A b \in 1..Len(all) : Rises(all[b])
    BY <1>5, <1>6, <1>7
  <2>2. \A b, c \in 1..Len(all) : b < c => \A x \in Range(all[b]), y \in Range(all[c]) : x < y
    BY <1>5, <1>6, <1>8
  <2> QED
    BY <1>2, <1>6, <2>1, <2>2, FlattenRises
<1>11. FlattenSeq(all) \in Seq(DocLine) /\ Range(FlattenSeq(all)) = UNION {Range(all[b]) : b \in 1..n}
  BY <1>6, FlattenOf
<1>12. ASSUME NEW l \in DocLine, Mark(l) PROVE l \in Range(FlattenSeq(all))
  <2>1. PICK b \in Texts : \E i \in TextLines(b) : TextLine(b, i) = l
    BY <1>12 DEF TextRead
  <2>2. PICK i \in TextLines(b) : TextLine(b, i) = l
    BY <2>1
  <2>3. b \in 1..n /\ LinesOf(b) = Solid(blocks[b].lines) /\ LinesOf(b) \in Seq(DocLine)
    BY <1>3 DEF Texts
  <2>4. i \in 1..Len(LinesOf(b)) /\ LinesOf(b)[i] = l
    BY <2>2, <2>3 DEF TextLines, TextLine
  <2>5. l \in Range(LinesOf(b))
    BY <2>3, <2>4, Places1
  <2>6. l \in Range(all[b])
    BY <1>5, <2>3, <2>5
  <2> QED
    BY <1>11, <2>3, <2>6
<1> QED
  BY <1>9, <1>10, <1>11, <1>12

\* The narrative is the lines under one section of one article, and no others.
LEMMA NarrativeIs ==
    ASSUME IsDocument(doc), blocks \in Seq(Blocks), docType = "agreement", TextRead,
           NEW article, NEW section
    PROVE  /\ Narrative(article, section) \in Seq(DocLine)
           /\ \A l \in Range(Narrative(article, section)) :
                ArticleOf(l) = article /\ SectionUnder(l) = section
<1> DEFINE ls == AllText
           n == Len(ls)
           Under(f) == f = [i \in 0..n |-> IF i = 0 THEN NoContext ELSE Turn(f[i - 1], ls[i])]
           under == CHOOSE f : Under(f)
           I == {i \in DOMAIN ls : ~Heading(ls[i]) /\ under[i].article = article /\ under[i].section = section}
           stands == [i \in 0..n |-> IF i = 0 THEN NoContext ELSE Stands(ls[i])]
<1>1. Narrative(article, section) = Picked(ls, I)
  BY DEF Narrative, AllText, LinesOf
<1>2. /\ ls \in Seq(DocLine) /\ Rises(ls) /\ \A l \in DocLine : Mark(l) => l \in Range(ls)
  BY TextRises
<1> HIDE DEF ls
<1>3. /\ n \in Nat /\ DOMAIN ls = 1..n /\ \A i \in 1..n : ls[i] \in DocLine
      /\ Range(ls) = {ls[i] : i \in 1..n}
  BY <1>2, Places1
<1>4. Len(doc) \in Nat /\ DocLine = 1..Len(doc)
  BY DocumentLines DEF DocLine
<1>5. ASSUME NEW i \in 1..n
      PROVE  Stands(ls[i]) = Turn(IF i = 1 THEN NoContext ELSE Stands(ls[i - 1]), ls[i])
  <2> DEFINE before == IF i = 1 THEN 0 ELSE ls[i - 1]
             l == ls[i]
  <2>1. l \in DocLine /\ l \in Nat /\ l - 1 \in 0..Len(doc)
    BY <1>3, <1>4
  <2>2. before \in 0..Len(doc) /\ before <= l - 1
    <3>1. CASE i = 1
      BY <1>4, <2>1, <3>1
    <3>2. CASE i # 1
      <4>1. i - 1 \in 1..n /\ i - 1 < i
        BY <1>3, <3>2
      <4>2. ls[i - 1] < ls[i] /\ ls[i - 1] \in DocLine
        BY <1>2, <1>3, <4>1 DEF Rises
      <4> QED
        BY <1>4, <2>1, <3>2, <4>2
    <3> QED
      BY <3>1, <3>2
  <2>3. ASSUME NEW m \in DocLine, Mark(m), m <= l - 1 PROVE m <= before
    <3>1. PICK j \in 1..n : ls[j] = m
      BY <1>2, <1>3, <2>3
    <3>2. m \in Nat /\ m < l
      BY <1>4, <2>1, <2>3
    <3>3. ~(i < j) /\ i # j
      BY <1>2, <1>3, <1>4, <2>1, <3>1, <3>2 DEF Rises
    <3>4. i # 1 /\ i - 1 \in 1..n /\ (j = i - 1 \/ j < i - 1)
      BY <1>3, <3>3
    <3>5. ls[j] <= ls[i - 1]
      BY <1>2, <1>3, <1>4, <3>4 DEF Rises
    <3> QED
      BY <3>1, <3>4, <3>5
  <2> HIDE DEF before, l
  <2>4. Stands(l - 1) = Stands(before)
    BY <2>1, <2>2, <2>3, SameStanding DEF TypeOfDocument
  <2>5. Stands(l) = Turn(Stands(before), l)
    BY <2>1, <2>4, Turning
  <2>6. Stands(before) = IF i = 1 THEN NoContext ELSE Stands(ls[i - 1])
    BY StandsAtTop DEF before
  <2> QED
    BY <2>5, <2>6 DEF l
<1>6. Under(stands)
  <2>1. ASSUME NEW i \in 0..n
        PROVE  stands[i] = IF i = 0 THEN NoContext ELSE Turn(stands[i - 1], ls[i])
    <3>1. CASE i = 0
      BY <3>1
    <3>2. CASE i # 0
      <4>1. i \in 1..n /\ i - 1 \in 0..n
        BY <1>3, <3>2
      <4>2. stands[i - 1] = IF i = 1 THEN NoContext ELSE Stands(ls[i - 1])
        BY <4>1
      <4>3. stands[i] = Stands(ls[i])
        BY <4>1
      <4> QED
        BY <1>5, <3>2, <4>1, <4>2, <4>3
    <3> QED
      BY <3>1, <3>2
  <2>2. stands = [i \in 0..n |-> stands[i]]
    OBVIOUS
  <2> HIDE DEF stands
  <2> QED
    BY <2>1, <2>2
<1> HIDE DEF stands
<1>7. Under(under)
  BY <1>6
<1> HIDE DEF under
<1>8. \A i \in 1..n : under[i] = Stands(ls[i])
  <2> DEFINE P == {i \in 0..n : under[i] = IF i = 0 THEN NoContext ELSE Stands(ls[i])}
  <2>0. \A i \in 0..n : under[i] = IF i = 0 THEN NoContext ELSE Turn(under[i - 1], ls[i])
    BY <1>7
  <2>1. 0 \in P
    BY <1>3, <2>0
  <2>2. ASSUME NEW i \in 1..n, i - 1 \in P PROVE i \in P
    <3>1. i \in 0..n /\ i # 0 /\ (i - 1 = 0 <=> i = 1)
      BY <1>3
    <3>2. under[i] = Turn(under[i - 1], ls[i])
      BY <2>0, <3>1
    <3>3. under[i - 1] = IF i = 1 THEN NoContext ELSE Stands(ls[i - 1])
      BY <2>2, <3>1
    <3>4. under[i] = Stands(ls[i])
      BY <1>5, <3>2, <3>3
    <3> QED
      BY <3>1, <3>4
  <2> HIDE DEF P
  <2>3. \A i \in 0..n : i \in P
    BY <1>3, <2>1, <2>2, Induction
  <2>4. \A i \in 1..n : i \in 0..n /\ i # 0
    BY <1>3
  <2> QED
    BY <2>3, <2>4 DEF P
<1>9. I \in SUBSET DOMAIN ls
  OBVIOUS
<1>10. \A i \in I : ArticleOf(ls[i]) = article /\ SectionUnder(ls[i]) = section
  BY <1>3, <1>8, StandsIs
<1> HIDE DEF I
<1>11. Picked(ls, I) \in Seq(DocLine) /\ Range(Picked(ls, I)) = {ls[i] : i \in I}
  BY <1>2, <1>9, PickedFrom
<1> QED
  BY <1>1, <1>10, <1>11

\* The text put before a table is about the section the table is cited for.
LEMMA LeadSays ==
    ASSUME IsDocument(doc), blocks \in Seq(Blocks), docType = "agreement", TextRead,
           NEW section, NEW ch \in Range(LeadIn(section))
    PROVE  ArticleOf(ch[2]) = context.article /\ SectionUnder(ch[2]) = section
<1> DEFINE ls == Narrative(context.article, section)
           t == Joined(ls)
           cut == SubSeq(t, 1, Smaller(LeadChars, Len(t)))
<1>1. CASE section = NoName
  <2>1. LeadIn(section) = <<>> /\ Range(<<>>) = {}
    BY <1>1 DEF LeadIn, Range
  <2> QED
    BY <2>1
<1>2. CASE section # NoName
  <2>1. LeadIn(section) = Strip(cut)
    BY <1>2 DEF LeadIn
  <2>2. /\ ls \in Seq(DocLine)
        /\ \A l \in Range(ls) : ArticleOf(l) = context.article /\ SectionUnder(l) = section
    BY NarrativeIs
  <2> HIDE DEF ls
  <2>3. t \in Seq(Char) /\ \A c \in Range(t) : c[2] \in Range(ls)
    BY <2>2, JoinedSays
  <2> HIDE DEF t
  <2>4. Len(t) \in Nat /\ LeadChars \in Nat /\ Range(t) = {t[i] : i \in 1..Len(t)}
    BY <2>3, Places1, LimitsAssumption
  <2>5. Smaller(LeadChars, Len(t)) \in 1 - 1..Len(t) /\ 1 \in 1..Len(t) + 1
    BY <2>4 DEF Smaller
  <2>6. cut \in Seq(Char) /\ Range(cut) = {t[i] : i \in 1..Smaller(LeadChars, Len(t))}
    BY <2>3, <2>5, PieceOf
  <2>7. Range(cut) \subseteq Range(t)
    <3>1. 1..Smaller(LeadChars, Len(t)) \subseteq 1..Len(t)
      BY <2>4, <2>5
    <3> QED
      BY <2>4, <2>6, <3>1
  <2> HIDE DEF cut
  <2>8. Range(Strip(cut)) \subseteq Range(cut)
    BY <2>6, Stripped
  <2> QED
    BY <2>1, <2>2, <2>3, <2>7, <2>8
<1> QED
  BY <1>1, <1>2

-----------------------------------------------------------------------------
(* What a table is cited for                                               *)

\* Whatever blanks go, the first character of a table is of its first row.
LEMMA TableHead ==
    ASSUME IsDocument(doc), NEW ls \in Seq(DocLine), ls # <<>>, Pipe(ls[1])
    PROVE  Strip(Joined(ls))[1][2] = ls[1]
<1> DEFINE l == ls[1]
           t == Joined(ls)
           line == CharsOf(l)
           solid == {i \in DOMAIN t : ~Blank(t[i])}
<1>1. Len(ls) \in Nat \ {0} /\ 1 \in 1..Len(ls) /\ DOMAIN ls = 1..Len(ls) /\ l \in DocLine
  <2>1. Len(ls) \in Nat \ {0} /\ DOMAIN ls = 1..Len(ls) /\ \A i \in 1..Len(ls) : ls[i] \in DocLine
    BY Places1, EmptySeq
  <2> QED
    BY <2>1
<1>2. line \in Seq(Char) /\ Len(line) = Len(doc[l].text) /\ \A ch \in Range(line) : ch[2] = l
  BY <1>1, LineChars
<1>3. t = FlattenSeq(JoinedParts(ls)) /\ JoinedParts(ls) \in Seq(Seq(Char)) /\ Len(JoinedParts(ls)) = Len(ls)
  BY PartsJoined
<1>4. JoinedParts(ls)[1] = line
  <2>1. JoinedParts(ls)[1] = <<>> \o line
    BY <1>1 DEF JoinedParts
  <2> HIDE DEF line
  <2> QED
    BY <1>2, <2>1, ConcatEmptySeq
<1>5. PICK c \in 1..Len(line) : ~Blank(line[c])
  <2>1. \E c \in DOMAIN doc[l].text : doc[l].text[c] # "sp"
    BY <1>1, DocumentLines DEF IsDocument, Pipe
  <2>2. PICK c \in 1..Len(doc[l].text) : doc[l].text[c] \in {"x", ".", "sp"} /\ doc[l].text[c] # "sp"
    BY <1>1, <2>1, DocumentLines, LenProperties
  <2>3. line[c][1] = doc[l].text[c]
    BY <2>2 DEF CharsOf
  <2> QED
    BY <1>2, <2>2, <2>3 DEF Blank
<1> HIDE DEF t, line
<1>6. \A i \in 1..Len(line) : i \in 1..Len(t) /\ t[i] = line[i]
  <2>1. JoinedParts(ls) # <<>>
    BY <1>1, <1>3, EmptySeq
  <2> QED
    BY <1>3, <1>4, <2>1, FlattenBegins
<1>7. t \in Seq(Char) /\ Len(t) \in Nat /\ DOMAIN t = 1..Len(t) /\ Len(line) \in Nat
  <2>1. t \in Seq(Char)
    BY JoinedSays DEF t
  <2> QED
    BY <1>2, <2>1, Places1
<1>8. solid \in SUBSET (1..Len(t)) /\ c \in solid
  BY <1>5, <1>6, <1>7
<1>9. Strip(t) = SubSeq(t, Min(solid), Max(solid))
  BY <1>8 DEF Strip
<1> HIDE DEF solid
<1>10. IsFiniteSet(solid) /\ solid \subseteq Int
  BY <1>7, <1>8, SomePlaces
<1> DEFINE m == Min(solid)
           n == Max(solid)
<1>11. m \in solid /\ n \in solid /\ m <= c /\ m <= n
  BY <1>8, <1>10, LeastOf, GreatestOf
<1> HIDE DEF m, n
<1>12. m \in 1..Len(t) + 1 /\ n \in m - 1..Len(t) /\ m \in 1..Len(line) /\ 1 \in 1..n - m + 1 /\ m + 1 - 1 = m
  BY <1>7, <1>8, <1>11
<1>13. SubSeq(t, m, n)[1] = t[m]
  <2>1. SubSeq(t, m, n)[1] = t[m + 1 - 1]
    BY <1>7, <1>12, PieceOf
  <2> QED
    BY <1>12, <2>1
<1>14. line[m] \in Range(line)
  BY <1>2, <1>12, Places1
<1> QED
  BY <1>2, <1>6, <1>9, <1>12, <1>13, <1>14 DEF l, t, m, n

\* A table is cited for what its first row stands under, and so is the text before it.
LEMMA TablePieceCited ==
    ASSUME AtWork, TypeOfDocument, TextRead, ContextTrue, Reading, blocks[blockNo].table,
           NEW section, NEW lead,
           docType = "agreement" => section = TableSection(blocks[blockNo]) /\ lead = LeadIn(section),
           docType = "wage_schedule" => lead = <<>>
    PROVE  PieceCited(TablePiece(blocks[blockNo], section, lead))
<1> DEFINE b == blocks[blockNo]
           l == b.lines[1]
           q == TablePiece(b, section, lead)
<1>1. IsDocument(doc) /\ blocks \in Seq(Blocks)
  BY DEF AtWork
<1>2. b \in Blocks
  BY <1>1, Places1 DEF Reading
<1>3. b.lines \in Seq(DocLine) /\ b.lines # <<>>
  BY <1>1, <1>2, BlockLines
<1>4. /\ q.table /\ q.text = Joined(b.lines) /\ q.lead = lead /\ q.section = section
      /\ q.article = context.article /\ q.title = context.title
  BY DEF TablePiece
<1> HIDE DEF q
<1>5. LeadCited(q)
  <2>1. CASE docType = "agreement"
    <3>1. \A ch \in Range(lead) : ArticleOf(ch[2]) = context.article /\ SectionUnder(ch[2]) = section
      BY <1>1, <2>1, LeadSays
    <3> QED
      BY <1>4, <3>1 DEF LeadCited
  <2>2. CASE docType = "wage_schedule"
    <3>1. Range(<<>>) = {}
      BY DEF Range
    <3> QED
      BY <1>4, <2>2, <3>1 DEF LeadCited
  <2> QED
    BY <2>1, <2>2 DEF TypeOfDocument
<1>6. ASSUME engine # "none" PROVE TableStands(q, Strip(q.text)[1][2])
  <2>1. context = Stands(l) /\ l \in DocLine /\ Pipe(l)
    BY <1>6, ContextTable
  <2>2. Strip(q.text)[1][2] = l
    BY <1>1, <1>3, <1>4, <2>1, TableHead
  <2>3. CASE docType = "agreement"
    <3>1. /\ context.title = HeadingOf(l) /\ context.article = ArticleOf(l)
          /\ context.section = SectionUnder(l)
      BY <2>1, <2>3, StandsIs
    <3>2. section = IF doc[l].kind = "row" /\ doc[l].name # NoName THEN doc[l].name ELSE context.section
      BY <2>3 DEF TableSection
    <3> HIDE DEF l
    <3> QED
      BY <1>4, <2>2, <2>3, <3>1, <3>2 DEF TableStands
  <2>4. CASE docType = "wage_schedule"
    <3>1. context.title = HeaderOf(l)
      BY <2>1, <2>4, StandsIs
    <3> QED
      BY <1>4, <2>2, <2>4, <3>1 DEF TableStands
  <2> QED
    BY <2>3, <2>4 DEF TypeOfDocument
<1> QED
  BY <1>4, <1>5, <1>6 DEF PieceCited, q

-----------------------------------------------------------------------------
(* Citations on their way through the chunker                              *)

ContextAt(n, k, c) == \A m \in 0..Len(doc) : Reached(n, k, m) => c = Stands(m)

\* What a step of the chunker leaves: its context, buffer, queue and chunks.
NextCited ==
    /\ ContextAt(blockNo', lineNo', context')
    /\ Gathered(buffer', context')
    /\ AllPieces(queue') /\ AllChunks(out')

CitedSoFar ==
    ContextTrue /\ Gathered(buffer, context) /\ AllPieces(queue) /\ AllChunks(out)

LEMMA OneMoreCited ==
    ASSUME NEW A, NEW s \in Seq(A), NEW q \in A
    PROVE  /\ AllPieces(s) /\ PieceCited(q) => AllPieces(Append(s, q))
           /\ AllChunks(s) /\ ChunkCited(q) => AllChunks(Append(s, q))
<1> DEFINE t == Append(s, q)
<1>1. Len(s) \in Nat /\ Len(t) = Len(s) + 1 /\ t[Len(s) + 1] = q /\ \A i \in 1..Len(s) : t[i] = s[i]
  BY AppendProperties, LenProperties
<1> HIDE DEF t
<1>2. \A i \in 1..Len(t) : (i \in 1..Len(s) /\ t[i] = s[i]) \/ t[i] = q
  <2> SUFFICES ASSUME NEW i \in 1..Len(t) PROVE (i \in 1..Len(s) /\ t[i] = s[i]) \/ t[i] = q
    OBVIOUS
  <2>1. i \in 1..Len(s) \/ i = Len(s) + 1
    BY <1>1
  <2> QED
    BY <1>1, <2>1
<1>3. AllPieces(s) /\ PieceCited(q) => AllPieces(t)
  BY <1>2 DEF AllPieces
<1>4. AllChunks(s) /\ ChunkCited(q) => AllChunks(t)
  BY <1>2 DEF AllChunks
<1> QED
  BY <1>3, <1>4 DEF t

LEMMA NoneGathered == ASSUME NEW c PROVE Gathered(<<>>, c)
<1>1. Len(<<>>) = 0 /\ 1..Len(<<>>) = {}
  OBVIOUS
<1> QED
  BY <1>1 DEF Gathered

\* A table: the context stays, and the buffer goes before it.
LEMMA TableCitedStep ==
    ASSUME AtWork, TypeOfDocument, TextRead, CitedSoFar, Reading, blocks[blockNo].table,
           NEW pieces \in Seq(Pieces), AllPieces(pieces), NEW section \in Names, NEW lead \in Seq(Char),
           docType = "agreement" => section = TableSection(blocks[blockNo]) /\ lead = LeadIn(section),
           docType = "wage_schedule" => lead = <<>>,
           queue' = Append(pieces, TablePiece(blocks[blockNo], section, lead)),
           buffer' = <<>>, blockNo' = blockNo + 1, lineNo' = 1, context' = context, out' = out
    PROVE  NextCited
<1> DEFINE q == TablePiece(blocks[blockNo], section, lead)
<1>1. /\ IsDocument(doc) /\ blocks \in Seq(Blocks) /\ context \in Contexts /\ blockNo \in Nat
      /\ ContextTrue /\ AllChunks(out)
  BY DEF AtWork, CitedSoFar
<1>2. blockNo \in 1..Len(blocks) /\ blocks[blockNo] \in Blocks
  BY <1>1, Places1 DEF Reading
<1>3. q \in Pieces
  BY <1>1, <1>2, TablePieceSays
<1>4. PieceCited(q)
  BY <1>1, TablePieceCited
<1> HIDE DEF q
<1>5. AllPieces(queue')
  <2>1. queue' = Append(pieces, q)
    BY DEF q
  <2> HIDE DEF Pieces
  <2> QED
    BY <1>3, <1>4, <2>1, OneMoreCited
<1>6. ContextAt(blockNo', lineNo', context')
  <2> SUFFICES ASSUME NEW m \in 0..Len(doc), Reached(blockNo + 1, 1, m) PROVE context = Stands(m)
    BY DEF ContextAt
  <2>1. blockNo \notin Texts
    BY DEF Texts
  <2>2. Reached(blockNo, lineNo, m)
    BY <1>1, <2>1, ContextPast
  <2> QED
    BY <1>1, <2>2 DEF ContextTrue
<1>7. Gathered(buffer', context')
  BY NoneGathered
<1> QED
  BY <1>1, <1>5, <1>6, <1>7 DEF NextCited

\* A line of text: the context is now what the line stands under.
LEMMA LineContext ==
    ASSUME AtWork, TypeOfDocument, TextRead, Reading, ~blocks[blockNo].table, NextLine,
           context' = Stands(Here)
    PROVE  ContextAt(blockNo', lineNo', context')
BY ContextNext DEF ContextAt

LEMMA FirstKept ==
    ASSUME AtWork, Reading, ~blocks[blockNo].table
    PROVE  Gathered(<<Keep>>, Stands(Here))
<1>1. Keep.line = Here
  BY HereIs
<1> DEFINE k == Keep
<1> HIDE DEF k
<1>2. Len(<<k>>) = 1 /\ <<k>>[1] = k /\ \A i \in 1..1 : i = 1
  OBVIOUS
<1>3. Gathered(<<k>>, Stands(k.line))
  BY <1>2 DEF Gathered
<1> QED
  BY <1>1, <1>3 DEF k

\* One line more in the buffer stands under the same article or header.
LEMMA MoreKept ==
    ASSUME AtWork, TypeOfDocument, TextRead, ContextTrue, Reading, ~blocks[blockNo].table,
           Gathered(buffer, context),
           docType = "agreement" => ~Heading(Here), docType = "wage_schedule" => doc[Here].kind # "head"
    PROVE  Gathered(Append(buffer, Keep), Stands(Here))
<1> DEFINE bf == Append(buffer, Keep)
           n == Len(buffer)
           c == Stands(Here)
<1>1. /\ IsDocument(doc) /\ buffer \in Seq(Kept) /\ Keep \in Kept /\ Keep.line = Here /\ Here \in DocLine
      /\ context = Stands(Here - 1)
  BY HereIs, ContextHere DEF AtWork
<1>2. n \in Nat /\ Len(bf) = n + 1 /\ bf[n + 1].line = Here /\ \A i \in 1..n : bf[i] = buffer[i]
  BY <1>1, AppendProperties, LenProperties
<1> HIDE DEF bf, n
<1>3. /\ \A i \in 1..n : /\ Stands(buffer[i].line).title = context.title
                         /\ Stands(buffer[i].line).article = context.article
      /\ docType = "agreement" =>
           /\ \A i, j \in 1..n : i <= j /\ (\A k \in i + 1..j : SectionOf(buffer[k].line) = NoName)
                                   => Stands(buffer[j].line).section = Stands(buffer[i].line).section
           /\ n # 0 => Stands(buffer[n].line).section = context.section
  BY DEF Gathered, n
<1>4. /\ c.title = context.title /\ c.article = context.article
      /\ docType = "agreement" /\ SectionOf(Here) = NoName => c.section = context.section
  <2>1. CASE docType = "agreement"
    <3>1. c = Turn(context, Here)
      BY <2>1, ContextTurns
    <3>2. ~Heading(Here)
      BY <2>1
    <3>3. context = [article |-> context.article, title |-> context.title, section |-> context.section]
      BY <1>1, <2>1 DEF Stands
    <3> HIDE DEF c
    <3>4. SectionOf(Here) = NoName => c = context
      BY <3>1, <3>2 DEF Turn
    <3>5. SectionOf(Here) # NoName => c = [context EXCEPT !.section = SectionOf(Here)]
      BY <3>1, <3>2 DEF Turn
    <3> QED
      BY <3>3, <3>4, <3>5
  <2>2. CASE docType = "wage_schedule"
    BY <2>2, ContextTurns
  <2> QED
    BY <2>1, <2>2 DEF TypeOfDocument
<1> HIDE DEF c
<1>5. ASSUME NEW i \in 1..n + 1
      PROVE  Stands(bf[i].line).title = c.title /\ Stands(bf[i].line).article = c.article
  <2>1. CASE i \in 1..n
    BY <1>2, <1>3, <1>4, <2>1
  <2>2. CASE i = n + 1
    BY <1>2, <2>2 DEF c
  <2> QED
    BY <1>2, <2>1, <2>2
<1>6. ASSUME docType = "agreement", NEW i \in 1..n + 1, NEW j \in 1..n + 1, i <= j,
             \A k \in i + 1..j : SectionOf(bf[k].line) = NoName
      PROVE  Stands(bf[j].line).section = Stands(bf[i].line).section
  <2>1. CASE j \in 1..n
    <3>1. i \in 1..n /\ \A k \in i + 1..j : k \in 1..n
      BY <1>2, <1>6, <2>1
    <3>2. \A k \in i + 1..j : SectionOf(buffer[k].line) = NoName
      BY <1>2, <1>6, <3>1
    <3> QED
      BY <1>2, <1>3, <1>6, <2>1, <3>1, <3>2
  <2>2. CASE i \in 1..n /\ j = n + 1
    <3>1. /\ n \in 1..n /\ n # 0 /\ i <= n /\ n + 1 \in i + 1..j
          /\ \A k \in i + 1..n : k \in 1..n /\ k \in i + 1..j
      BY <1>2, <2>2
    <3>2. \A k \in i + 1..n : SectionOf(buffer[k].line) = NoName
      BY <1>2, <1>6, <3>1
    <3>3. Stands(buffer[n].line).section = Stands(buffer[i].line).section
      BY <1>3, <1>6, <2>2, <3>1, <3>2
    <3>4. SectionOf(Here) = NoName
      BY <1>2, <1>6, <3>1
    <3>5. c.section = Stands(buffer[i].line).section
      BY <1>3, <1>4, <1>6, <3>1, <3>3, <3>4
    <3> QED
      BY <1>2, <2>2, <3>5 DEF c
  <2>3. CASE i = n + 1 /\ j = n + 1
    BY <2>3
  <2> QED
    BY <1>2, <1>6, <2>1, <2>2, <2>3
<1>7. Gathered(bf, c)
  BY <1>2, <1>5, <1>6 DEF Gathered, c
<1> QED
  BY <1>7 DEF bf, c

\* A piece of text that lost some of it is cited as before.
LEMMA LessCited ==
    ASSUME NEW c, ~c.table, PieceCited(c), NEW d, ~d.table, SolidIn(d.text) \subseteq SolidIn(c.text),
           d.lead = c.lead, d.article = c.article, d.title = c.title, d.section = c.section
    PROVE  PieceCited(d) /\ ChunkCited(d)
<1>1. Solids(d) \subseteq Solids(c)
  BY DEF Solids, SolidIn
<1>2. TextCited(c) /\ LeadCited(c)
  BY DEF PieceCited
<1>3. TextCited(d)
  BY <1>1, <1>2 DEF TextCited
<1>4. LeadCited(d)
  BY <1>2 DEF LeadCited
<1> QED
  BY <1>3, <1>4 DEF PieceCited, ChunkCited

LEMMA FirstCited ==
    ASSUME AtWork, queue # <<>>, AllPieces(queue)
    PROVE  PieceCited(Head(queue)) /\ AllPieces(Tail(queue))
<1>1. /\ Head(queue) = queue[1] /\ Len(queue) \in Nat \ {0} /\ Len(Tail(queue)) = Len(queue) - 1
      /\ \A i \in 1..Len(queue) - 1 : Tail(queue)[i] = queue[i + 1]
  BY FirstPiece
<1>2. 1 \in 1..Len(queue) /\ \A i \in 1..Len(queue) - 1 : i + 1 \in 1..Len(queue)
  BY <1>1
<1> QED
  BY <1>1, <1>2 DEF AllPieces

LEMMA PutCited ==
    ASSUME NEW A, NEW s \in Seq(A), NEW q \in A, AllPieces(s), PieceCited(q)
    PROVE  AllPieces(<<q>> \o s)
<1> DEFINE t == <<q>> \o s
<1>1. <<q>> \in Seq(A) /\ Len(<<q>>) = 1 /\ <<q>>[1] = q /\ Len(s) \in Nat
  BY LenProperties
<1>2. /\ Len(t) = 1 + Len(s)
      /\ \A i \in 1..1 + Len(s) : t[i] = IF i <= 1 THEN <<q>>[i] ELSE s[i - 1]
  BY <1>1, ConcatProperties
<1> HIDE DEF t
<1>3. ASSUME NEW i \in 1..Len(t) PROVE t[i] = q \/ (i - 1 \in 1..Len(s) /\ t[i] = s[i - 1])
  <2>1. i \in 1..1 + Len(s) /\ (i = 1 \/ (~(i <= 1) /\ i - 1 \in 1..Len(s)))
    BY <1>1, <1>2
  <2> QED
    BY <1>1, <1>2, <2>1
<1>4. AllPieces(t)
  BY <1>3 DEF AllPieces
<1> QED
  BY <1>4 DEF t

LEMMA CutCited ==
    ASSUME AtWork, CitedSoFar, Cut
    PROVE  NextCited
<1> DEFINE t == Head(queue).text
           split == SentenceBoundary(t, MaxChars)
           cut == Strip(SubSeq(t, 1, split))
           rest == Remainder(t, split)
           first == Head(queue)
           chunk == [first EXCEPT !.text = cut]
           left == [first EXCEPT !.text = rest, !.cutting = TRUE]
<1>1. /\ queue # <<>> /\ TooLong(first)
      /\ out' = IF cut = <<>> THEN out ELSE Append(out, chunk)
      /\ queue' = <<left>> \o Tail(queue)
      /\ blockNo' = blockNo /\ lineNo' = lineNo /\ context' = context /\ buffer' = buffer
  BY DEF Cut
<1>2. first \in Pieces /\ Tail(queue) \in Seq(Pieces) /\ t \in Seq(Char) /\ out \in Seq(Pieces)
  BY <1>1, FirstPiece DEF AtWork
<1>3. PieceCited(first) /\ AllPieces(Tail(queue)) /\ ~first.table
  BY <1>1, FirstCited DEF CitedSoFar, TooLong
<1>4. split \in 1..Len(t)
  BY <1>1, CutInside
<1> HIDE DEF split
<1>5. /\ rest \in Seq(Char) /\ cut \in Seq(Char)
      /\ SolidIn(cut) \subseteq SolidIn(first.text) /\ SolidIn(rest) \subseteq SolidIn(first.text)
  <2>1. /\ rest \in Seq(Char) /\ cut \in Seq(Char)
        /\ SolidIn(t) = SolidIn(cut) \cup SolidIn(rest)
    BY <1>2, <1>4, Remains
  <2> HIDE DEF rest, cut
  <2> QED
    BY <2>1
<1> HIDE DEF t, rest, cut, first
<1>6. /\ chunk \in Pieces /\ chunk.text = cut /\ ~chunk.table /\ chunk.lead = first.lead
      /\ chunk.article = first.article /\ chunk.title = first.title /\ chunk.section = first.section
      /\ left \in Pieces /\ left.text = rest /\ ~left.table /\ left.lead = first.lead
      /\ left.article = first.article /\ left.title = first.title /\ left.section = first.section
  BY <1>2, <1>3, <1>5 DEF Pieces
<1> HIDE DEF chunk, left, Pieces
<1>7. PieceCited(left) /\ ChunkCited(chunk)
  BY <1>3, <1>5, <1>6, LessCited
<1>8. AllPieces(queue')
  BY <1>1, <1>2, <1>3, <1>6, <1>7, PutCited
<1>9. AllChunks(out')
  BY <1>1, <1>2, <1>6, <1>7, OneMoreCited DEF CitedSoFar
<1> QED
  BY <1>1, <1>8, <1>9 DEF NextCited, CitedSoFar, ContextTrue, ContextAt

LEMMA EmitCited ==
    ASSUME AtWork, CitedSoFar, Emit
    PROVE  NextCited
<1> DEFINE first == Head(queue)
           whole == Strip(first.text)
           chunk == [first EXCEPT !.text = whole]
<1>1. /\ queue # <<>> /\ queue' = Tail(queue)
      /\ out' = IF whole = <<>> THEN out ELSE Append(out, chunk)
      /\ blockNo' = blockNo /\ lineNo' = lineNo /\ context' = context /\ buffer' = buffer
  BY DEF Emit
<1>2. first \in Pieces /\ first.text \in Seq(Char) /\ out \in Seq(Pieces)
  BY <1>1, FirstPiece DEF AtWork
<1>3. PieceCited(first) /\ AllPieces(Tail(queue))
  BY <1>1, FirstCited DEF CitedSoFar
<1> HIDE DEF first
<1>4. whole \in Seq(Char) /\ SolidIn(whole) = SolidIn(first.text)
  BY <1>2, Stripped
<1>5. /\ chunk \in Pieces /\ chunk.text = whole /\ chunk.table = first.table /\ chunk.lead = first.lead
      /\ chunk.article = first.article /\ chunk.title = first.title /\ chunk.section = first.section
  <2> HIDE DEF whole
  <2> QED
    BY <1>2, <1>4 DEF Pieces
<1> HIDE DEF chunk, Pieces
<1>6. ASSUME whole # <<>> PROVE ChunkCited(chunk)
  <2>1. CASE first.table
    <3>1. /\ engine # "none" => TableStands(first, whole[1][2])
          /\ LeadCited(first)
      BY <1>3, <1>6, <2>1 DEF PieceCited
    <3> HIDE DEF whole
    <3>2. engine # "none" => TableStands(chunk, chunk.text[1][2])
      BY <1>5, <3>1 DEF TableStands
    <3>3. LeadCited(chunk)
      BY <1>5, <3>1 DEF LeadCited
    <3> QED
      BY <1>5, <1>6, <2>1, <3>2, <3>3 DEF ChunkCited
  <2>2. CASE ~first.table
    <3> HIDE DEF whole
    <3> QED
      BY <1>3, <1>4, <1>5, <2>2, LessCited
  <2> QED
    BY <2>1, <2>2
<1> HIDE DEF whole
<1>7. AllChunks(out')
  BY <1>1, <1>2, <1>5, <1>6, OneMoreCited DEF CitedSoFar
<1> QED
  BY <1>1, <1>3, <1>7 DEF NextCited, CitedSoFar, ContextTrue, ContextAt

LEMMA ChunkCitedStep ==
    ASSUME AtWork, TypeOfDocument, TextRead, CitedSoFar, ChunkDocument
    PROVE  NextCited
<1>0. /\ IsDocument(doc) /\ buffer \in Seq(Kept) /\ context \in Contexts /\ blocks \in Seq(Blocks)
      /\ ContextTrue /\ Gathered(buffer, context) /\ AllPieces(queue) /\ AllChunks(out)
  BY DEF AtWork, CitedSoFar
<1>1. /\ docType = "agreement" => AllPieces(ArticlePieces) /\ ArticlePieces \in Seq(Pieces)
      /\ docType = "wage_schedule" => AllPieces(HeadedPieces) /\ HeadedPieces \in Seq(Pieces)
  BY <1>0, ArticleCited, HeadedCited, ArticleHands, HeadedHands DEF Hands
<1>2. Reading => blocks[blockNo] \in Blocks
  BY <1>0, Places1 DEF Reading
<1>3. CASE TakeTable
  <2>1. /\ docType = "agreement" /\ Reading /\ blocks[blockNo].table
        /\ buffer' = <<>> /\ blockNo' = blockNo + 1 /\ lineNo' = 1
        /\ context' = context /\ out' = out
        /\ queue' = Append(ArticlePieces, TablePiece(blocks[blockNo], TableSection(blocks[blockNo]),
                                                     LeadIn(TableSection(blocks[blockNo]))))
    BY <1>3 DEF TakeTable
  <2>2. TableSection(blocks[blockNo]) \in Names
    BY <1>0, <1>2, <2>1, TableSectionType
  <2>3. LeadIn(TableSection(blocks[blockNo])) \in Seq(Char)
    BY <1>0, LeadInType
  <2> HIDE DEF Pieces, CitedSoFar
  <2> QED
    BY <1>1, <2>1, <2>2, <2>3, TableCitedStep
<1>4. CASE TakeHeading
  <2>1. /\ docType = "agreement" /\ Reading /\ ~blocks[blockNo].table /\ queue' = ArticlePieces
        /\ context' = Turn(context, Here) /\ buffer' = <<Keep>> /\ NextLine /\ out' = out
    BY <1>4 DEF TakeHeading
  <2>2. context' = Stands(Here)
    BY <1>0, <2>1, ContextTurns
  <2>3. ContextAt(blockNo', lineNo', context')
    BY <2>1, <2>2, LineContext
  <2>4. Gathered(buffer', context')
    BY <2>1, <2>2, FirstKept
  <2> QED
    BY <1>0, <1>1, <2>1, <2>3, <2>4 DEF NextCited
<1>5. CASE TakeLine
  <2>1. /\ docType = "agreement" /\ Reading /\ ~blocks[blockNo].table /\ ~Heading(Here)
        /\ context' = Turn(context, Here)
        /\ buffer' = Append(buffer, Keep) /\ NextLine /\ out' = out /\ queue' = queue
    BY <1>5 DEF TakeLine
  <2>2. context' = Stands(Here)
    BY <1>0, <2>1, ContextTurns
  <2>3. ContextAt(blockNo', lineNo', context')
    BY <2>1, <2>2, LineContext
  <2>4. Gathered(buffer', context')
    BY <1>0, <2>1, <2>2, MoreKept
  <2> QED
    BY <1>0, <2>1, <2>3, <2>4 DEF NextCited
<1>6. CASE TakeHeadedTable
  <2>1. /\ docType = "wage_schedule" /\ Reading /\ blocks[blockNo].table
        /\ buffer' = <<>> /\ blockNo' = blockNo + 1 /\ lineNo' = 1
        /\ context' = context /\ out' = out
        /\ queue' = Append(HeadedPieces, TablePiece(blocks[blockNo], NoName, <<>>))
    BY <1>6 DEF TakeHeadedTable
  <2>2. NoName \in Names /\ <<>> \in Seq(Char)
    BY EmptySeq DEF Names
  <2> HIDE DEF Pieces, CitedSoFar
  <2> QED
    BY <1>1, <2>1, <2>2, TableCitedStep
<1>7. CASE TakeMarkdownHeader
  <2>1. /\ docType = "wage_schedule" /\ Reading /\ ~blocks[blockNo].table /\ doc[Here].kind = "head"
        /\ queue' = HeadedPieces /\ context' = [NoContext EXCEPT !.title = Here]
        /\ buffer' = <<>> /\ NextLine /\ out' = out
    BY <1>7 DEF TakeMarkdownHeader
  <2>2. context' = Stands(Here)
    BY <1>0, <2>1, ContextTurns
  <2>3. ContextAt(blockNo', lineNo', context')
    BY <2>1, <2>2, LineContext
  <2> QED
    BY <1>0, <1>1, <2>1, <2>3, NoneGathered DEF NextCited
<1>8. CASE TakeHeadedLine
  <2>1. /\ docType = "wage_schedule" /\ Reading /\ ~blocks[blockNo].table /\ doc[Here].kind # "head"
        /\ context' = context
        /\ buffer' = Append(buffer, Keep) /\ NextLine /\ out' = out /\ queue' = queue
    BY <1>8 DEF TakeHeadedLine
  <2>2. context' = Stands(Here)
    BY <1>0, <2>1, ContextTurns
  <2>3. ContextAt(blockNo', lineNo', context')
    BY <2>1, <2>2, LineContext
  <2>4. Gathered(buffer', context')
    BY <1>0, <2>1, <2>2, MoreKept
  <2> QED
    BY <1>0, <2>1, <2>3, <2>4 DEF NextCited
<1>9. CASE FlushLast
  <2>1. /\ blockNo = Len(blocks) + 1 /\ blockNo' = blockNo + 1 /\ lineNo' = lineNo
        /\ context' = context /\ buffer' = <<>> /\ out' = out
        /\ queue' = IF docType = "agreement" THEN ArticlePieces ELSE HeadedPieces
    BY <1>9 DEF FlushLast
  <2>2. AllPieces(queue')
    BY <1>1, <2>1 DEF TypeOfDocument
  <2>3. Len(blocks) \in Nat
    BY <1>0, LenProperties
  <2>4. ASSUME NEW m \in 0..Len(doc), Reached(blockNo', lineNo', m) PROVE context = Stands(m)
    <3>1. \A b \in Texts : b < blockNo /\ b < blockNo'
      BY <2>1, <2>3 DEF Texts
    <3>2. Reached(blockNo, lineNo, m)
      BY <2>4, <3>1 DEF Reached
    <3> QED
      BY <1>0, <3>2 DEF ContextTrue
  <2> QED
    BY <1>0, <2>1, <2>2, <2>4, NoneGathered DEF NextCited, ContextAt
<1>10. CASE Cut
  BY <1>10, CutCited
<1>11. CASE Emit
  BY <1>11, EmitCited
<1> QED
  BY <1>3, <1>4, <1>5, <1>6, <1>7, <1>8, <1>9, <1>10, <1>11 DEF ChunkDocument

-----------------------------------------------------------------------------
(* Citations, from the first line to the last chunk                        *)

\* The blocks are in order, the context is that of where the chunker is, the buffer stands
\* under it, and what is handed over is cited for what it says.
CitationsKept ==
    path = "legacy" =>
      /\ InSequence
      /\ Extracted => ContextTrue /\ Gathered(buffer, context)
      /\ AllPieces(queue) /\ AllChunks(out)

\* The chunker starts at the top, where a line stands under nothing.
LEMMA TopContext ==
    TypeInv /\ InSequence /\ Extracted /\ Unchunked => ContextTrue /\ Gathered(buffer, context)
<1> SUFFICES ASSUME TypeInv, InSequence, Extracted, Unchunked
             PROVE  ContextTrue /\ Gathered(buffer, context)
  OBVIOUS
<1>1. IsDocument(doc) /\ TypeOfDocument
  BY DEF TypeInv, Entered, IsEntry, TypeOfDocument
<1>2. TextRead
  BY AllInOrder
<1>3. ASSUME NEW m \in 0..Len(doc), Reached(1, 1, m) PROVE Stands(m) = NoContext
  <2>1. ASSUME NEW l \in DocLine, Mark(l), l <= m PROVE FALSE
    <3>1. PICK b \in Texts : \E i \in TextLines(b) : TextLine(b, i) = l
      BY <1>2, <2>1 DEF TextRead
    <3>2. PICK i \in TextLines(b) : TextLine(b, i) = l
      BY <3>1
    <3>3. b < 1 \/ (b = 1 /\ i < 1)
      BY <1>3, <2>1, <3>2 DEF Reached
    <3> QED
      BY <3>3 DEF Texts, TextLines
  <2>2. 0 \in 0..Len(doc) /\ 0 <= m
    BY <1>1, DocumentLines
  <2>3. Stands(m) = Stands(0)
    BY <1>1, <2>1, <2>2, SameStanding
  <2> QED
    BY <1>1, <2>3, StandsAtTop
<1>4. ContextTrue
  BY <1>3 DEF ContextTrue, Unchunked
<1>5. Gathered(buffer, context)
  BY NoneGathered DEF Unchunked
<1> QED
  BY <1>4, <1>5

LEMMA NothingCitedNow ==
    TypeInv /\ Unread /\ pos = 1 => CitationsKept
<1> SUFFICES ASSUME TypeInv, Unread, pos = 1 PROVE CitationsKept
  OBVIOUS
<1>1. IsDocument(doc) /\ Len(doc) \in Nat /\ Len(<<>>) = 0
  BY DocumentLines DEF TypeInv, Entered
<1>2. ~Extracted
  BY <1>1 DEF Extracted
<1>3. queue = <<>> /\ out = <<>>
  BY <1>2 DEF TypeInv, InTurn, Unchunked
<1>4. Start = 1 /\ Len(blocks) = 0 /\ Len(rows) = 0 /\ Len(text) = 0
  BY <1>1 DEF Unread, Start
<1>5. \A l \in DocLine : ~(l < 1)
  BY <1>1 DEF DocLine
<1>6. Upright(blocks, Start)
  BY <1>4, <1>5 DEF Upright
<1>7. InSequence
  BY <1>4, <1>6 DEF InSequence
<1> QED
  BY <1>2, <1>3, <1>7, NoneCited DEF CitationsKept

LEMMA NothingCited == (TypeInv /\ Unread /\ pos = 1)' => CitationsKept'
BY NothingCitedNow, PTL

\* With the document as it was, a piece is cited for the same.
LEMMA SameCited ==
    ASSUME doc' = doc, docType' = docType, engine' = engine
    PROVE  /\ Gathered(buffer, context)' <=> Gathered(buffer', context')
           /\ AllPieces(queue)' <=> AllPieces(queue')
           /\ AllChunks(out)' <=> AllChunks(out')
<1>1. \A l : Heading(l)' = Heading(l)
  BY DEF Heading
<1>2. \A l : HeadingOf(l)' = HeadingOf(l) /\ HeaderOf(l)' = HeaderOf(l)
  BY <1>1 DEF HeadingOf, HeaderOf
<1>3. \A l : SectionOf(l)' = SectionOf(l)
  BY SameStands
<1>4. \A l : ArticleOf(l)' = ArticleOf(l) /\ SectionUnder(l)' = SectionUnder(l)
  BY <1>2, <1>3 DEF ArticleOf, SectionUnder
<1>5. \A l : Stands(l)' = Stands(l)
  BY SameStands
<1>6. Gathered(buffer, context)' <=> Gathered(buffer', context')
  BY <1>3, <1>5 DEF Gathered
<1>7. \A c : TextCited(c)' <=> TextCited(c)
  BY <1>2, <1>4 DEF TextCited, Solids
<1>8. \A c : LeadCited(c)' <=> LeadCited(c)
  BY <1>4 DEF LeadCited
<1>9. \A c, l : TableStands(c, l)' <=> TableStands(c, l)
  BY <1>2, <1>4 DEF TableStands
<1>10. \A c : (PieceCited(c)' <=> PieceCited(c)) /\ (ChunkCited(c)' <=> ChunkCited(c))
  BY <1>7, <1>8, <1>9 DEF PieceCited, ChunkCited
<1>11. AllPieces(queue)' <=> AllPieces(queue')
  BY <1>10 DEF AllPieces
<1>12. AllChunks(out)' <=> AllChunks(out')
  BY <1>10 DEF AllChunks
<1> QED
  BY <1>6, <1>11, <1>12

\* Reading keeps the blocks in order, and leaves the chunker at the top.
LEMMA ReadCited ==
    ASSUME TypeInv, CitationsKept, Extract
    PROVE  CitationsKept'
<1>1. /\ path = "legacy" /\ UNCHANGED <<chunkVars, formVars, entry, path>> /\ TypeInv' /\ Reads
      /\ (engine = "none" /\ ExtractPdf) \/ (engine # "none" /\ ExtractMarkdown)
  BY ReadTypes DEF Extract
<1>2. /\ docType' = docType /\ engine' = engine /\ path' = path /\ blockNo' = blockNo
      /\ lineNo' = lineNo /\ context' = context /\ buffer' = buffer /\ queue' = queue /\ out' = out
  BY <1>1 DEF chunkVars
<1>3. ~Extracted /\ Unchunked /\ out = <<>> /\ doc' = doc
  BY <1>1 DEF Reads, TypeInv, InTurn
<1>4. InSequence'
  BY <1>1, <1>2, ReadInSequence, PagesInSequence DEF CitationsKept
<1>5. Unchunked'
  BY <1>2, <1>3 DEF Unchunked
<1>6. Extracted' => (ContextTrue /\ Gathered(buffer, context))'
  BY <1>1, <1>4, <1>5, TopContext, PTL
<1>7. (AllPieces(queue) /\ AllChunks(out))'
  <2>1. queue' = <<>> /\ out' = <<>>
    BY <1>2, <1>3 DEF Unchunked
  <2> QED
    BY <1>2, <1>3, <2>1, NoneCited, SameCited
<1> QED
  BY <1>4, <1>6, <1>7 DEF CitationsKept

LEMMA SameContext ==
    ASSUME doc' = doc, docType' = docType, engine' = engine, blocks' = blocks, pos' = pos,
           text' = text, rows' = rows
    PROVE  /\ ContextTrue' <=> ContextAt(blockNo', lineNo', context')
           /\ InSequence => InSequence'
<1>1. \A l : Stands(l)' = Stands(l)
  BY SameStands
<1>2. /\ Texts' = Texts /\ (\A b : TextLines(b)' = TextLines(b))
      /\ \A b, j : TextLine(b, j)' = TextLine(b, j)
  BY DEF Texts, TextLines, TextLine, Solid
<1>3. \A n, k, m : Reached(n, k, m)' <=> Reached(n, k, m)
  BY <1>2 DEF Reached
<1>4. ContextTrue' <=> ContextAt(blockNo', lineNo', context')
  BY <1>1, <1>3 DEF ContextTrue, ContextAt
<1>5. Start' = Start
  BY DEF Start
<1>6. Upright(blocks, Start)' <=> Upright(blocks, Start)
  BY <1>5, SameStands
<1>7. InSequence => InSequence'
  BY <1>5, <1>6 DEF InSequence
<1> QED
  BY <1>4, <1>7

LEMMA ChunkKeepsCited ==
    ASSUME TypeInv, CitationsKept, Chunk
    PROVE  CitationsKept'
<1>1. path = "legacy" /\ Extracted /\ ChunkDocument /\ AtWork
  BY AtWorkIs DEF Chunk
<1>2. /\ doc' = doc /\ pos' = pos /\ text' = text /\ rows' = rows /\ blocks' = blocks /\ path' = path
  BY DEF Chunk, extractVars
<1>3. engine' = engine /\ docType' = docType
  BY <1>1 DEF ChunkDocument, TakeTable, TakeHeading, TakeLine, TakeHeadedTable, TakeMarkdownHeader,
              TakeHeadedLine, FlushLast, Cut, Emit
<1>4. TypeOfDocument
  BY DEF TypeInv, Entered, IsEntry, TypeOfDocument
<1>5. InSequence /\ CitedSoFar
  BY <1>1 DEF CitationsKept, CitedSoFar
<1>6. TextRead
  BY <1>1, <1>5, AllInOrder
<1>7. NextCited
  BY <1>1, <1>4, <1>5, <1>6, ChunkCitedStep
<1>8. InSequence' /\ ContextTrue'
  BY <1>2, <1>3, <1>5, <1>7, SameContext DEF NextCited
<1>9. (Gathered(buffer, context) /\ AllPieces(queue) /\ AllChunks(out))'
  BY <1>2, <1>3, <1>7, SameCited DEF NextCited
<1> QED
  BY <1>8, <1>9 DEF CitationsKept

LEMMA RestCited ==
    ASSUME CitationsKept, UNCHANGED vars
    PROVE  CitationsKept'
<1>1. /\ doc' = doc /\ pos' = pos /\ text' = text /\ rows' = rows /\ blocks' = blocks
      /\ engine' = engine /\ docType' = docType /\ blockNo' = blockNo /\ lineNo' = lineNo
      /\ context' = context /\ buffer' = buffer /\ queue' = queue /\ out' = out /\ path' = path
  BY DEF vars, extractVars, chunkVars
<1>2. (InSequence => InSequence') /\ (ContextTrue => ContextTrue')
  BY <1>1, SameContext DEF ContextTrue, ContextAt
<1>3. /\ Gathered(buffer, context) => Gathered(buffer, context)'
      /\ AllPieces(queue) => AllPieces(queue)'
      /\ AllChunks(out) => AllChunks(out)'
  BY <1>1, SameCited
<1>4. Extracted' <=> Extracted
  BY <1>1 DEF Extracted
<1> QED
  BY <1>1, <1>2, <1>3, <1>4 DEF CitationsKept

LEMMA CitationsStep ==
    ASSUME IInv, CitationsKept, [Next]_vars
    PROVE  CitationsKept'
<1>1. TypeInv /\ IInv'
  BY StepKeeps DEF IInv
<1>2. TypeInv'
  BY <1>1 DEF IInv
<1>3. CASE WagePage \/ WageChunks
  <2>1. path' = "wage"
    BY <1>3 DEF WagePage, WageChunks
  <2> QED
    BY <2>1 DEF CitationsKept
<1>4. CASE FallBack
  <2>1. path = "wage" /\ pos' = 1 /\ text' = text /\ rows' = rows /\ blocks' = blocks
    BY <1>4 DEF FallBack
  <2>2. Unread'
    BY <1>1, <2>1 DEF TypeInv, InTurn, Unread
  <2> QED
    BY <1>2, <2>1, <2>2, NothingCited
<1>5. CASE ConvertColumns
  <2>1. path = "convert" /\ pos' = pos /\ text' = text /\ rows' = rows /\ blocks' = blocks
    BY <1>5 DEF ConvertColumns
  <2>2. Unread' /\ pos' = 1
    BY <1>1, <2>1 DEF TypeInv, InTurn, Unread
  <2> QED
    BY <1>2, <2>2, NothingCited
<1>6. CASE Extract
  BY <1>1, <1>6, ReadCited
<1>7. CASE Chunk
  BY <1>1, <1>7, ChunkKeepsCited
<1>8. CASE Rest \/ UNCHANGED vars
  BY <1>8, RestCited DEF Rest
<1> QED
  BY <1>3, <1>4, <1>5, <1>6, <1>7, <1>8 DEF Next

LEMMA CitedAreTrue ==
    ASSUME IInv, CitationsKept
    PROVE  CitationsTrue
<1>1. out \in Seq(Pieces)
  BY DEF IInv, TypeInv, Typed
<1>2. Chunks = {out[i] : i \in 1..Len(out)}
  <2> HIDE DEF Pieces
  <2> QED
    BY <1>1, Places1 DEF Chunks
<1> SUFFICES ASSUME path = "legacy", NEW c \in Chunks
             PROVE  /\ IF c.table THEN engine = "none" \/ TableCited(c) ELSE TextCited(c)
                    /\ LeadCited(c)
  BY DEF CitationsTrue
<1>3. ChunkCited(c)
  BY <1>2 DEF CitationsKept, AllChunks
<1>4. CASE c.table /\ engine # "none"
  <2>1. TableStands(c, c.text[1][2])
    BY <1>3, <1>4 DEF ChunkCited
  <2>2. Head(c.text) = c.text[1]
    OBVIOUS
  <2>3. TableCited(c)
    BY <2>1, <2>2 DEF TableCited, TableStands
  <2> QED
    BY <1>3, <1>4, <2>3 DEF ChunkCited
<1>5. CASE ~(c.table /\ engine # "none")
  BY <1>3, <1>5 DEF ChunkCited
<1> QED
  BY <1>4, <1>5

\* An answer cites the chunk it was found in (chunk_document, _process_article,
\* _process_wage_schedule): whatever the pages, tables and section numbers between a
\* heading and a line, a chunk of text carries the article and the title all its lines
\* stand under, with no section or theirs; a table of a converted document carries those
\* of its first row; and the text put before a table is about the section it is cited for.
THEOREM CitationsTrueAlways == Spec => []CitationsTrue
<1>1. Init => IInv /\ CitationsKept
  <2>1. Init => IInv
    BY InitKeeps DEF IInv
  <2>2. Init => Unread /\ pos = 1
    BY DEF Init, Unread
  <2>3. IInv => TypeInv
    BY DEF IInv
  <2> QED
    BY <2>1, <2>2, <2>3, NothingCitedNow
<1>2. IInv /\ CitationsKept /\ [Next]_vars => (IInv /\ CitationsKept)'
  BY StepKeeps, CitationsStep
<1>3. IInv /\ CitationsKept => CitationsTrue
  BY CitedAreTrue
<1> QED
  BY <1>1, <1>2, <1>3, PTL DEF Spec

-----------------------------------------------------------------------------
(* What the amounts of a rate are called                                   *)

LeadNames == {"base", "vacation", "WELFARE", "PENSION", "RRSP", "UNION", "other"}
TrailNames == {"BILL", "EDUCATION", "ADMIN", "TRAINING", "STABILIZ", "EPSCA"}
ColumnNameSet == LeadNames \cup TrailNames \cup {"total"}
Column == (ColumnNameSet \cup {"column"}) \X Nat

LEMMA JoinInjective ==
    ASSUME NEW A, NEW s \in Seq(A), NEW t \in Seq(A), IsInjective(s), IsInjective(t),
           Range(s) \cap Range(t) = {}
    PROVE  /\ s \o t \in Seq(A) /\ Len(s \o t) = Len(s) + Len(t) /\ IsInjective(s \o t)
           /\ Range(s \o t) = Range(s) \cup Range(t)
<1> DEFINE m == Len(s)
           n == Len(t)
           u == s \o t
<1>1. /\ m \in Nat /\ DOMAIN s = 1..m /\ Range(s) = {s[i] : i \in 1..m}
      /\ n \in Nat /\ DOMAIN t = 1..n /\ Range(t) = {t[i] : i \in 1..n}
  BY Places1
<1>2. /\ u \in Seq(A) /\ Len(u) = m + n
      /\ \A i \in 1..m + n : u[i] = IF i <= m THEN s[i] ELSE t[i - m]
  BY ConcatProperties
<1>3. Range(u) = Range(s) \cup Range(t) /\ DOMAIN u = 1..Len(u)
  BY <1>2, RangeConcatenation, Places1
<1> HIDE DEF m, n, u
<1>4. \A i \in 1..m + n : \/ i \in 1..m /\ u[i] = s[i]
                          \/ i - m \in 1..n /\ ~(i <= m) /\ u[i] = t[i - m]
  BY <1>1, <1>2
<1>5. ASSUME NEW i \in 1..m + n, NEW j \in 1..m + n, u[i] = u[j] PROVE i = j
  <2>1. \A a \in 1..m : \A b \in 1..n : s[a] # t[b]
    BY <1>1
  <2>2. CASE i \in 1..m /\ j \in 1..m
    <3>1. s[i] = s[j]
      BY <1>1, <1>2, <1>5, <2>2
    <3> QED
      BY <1>1, <2>2, <3>1 DEF IsInjective
  <2>3. CASE ~(i <= m) /\ ~(j <= m)
    <3>1. i - m \in 1..n /\ j - m \in 1..n /\ t[i - m] = t[j - m]
      BY <1>1, <1>2, <1>5, <2>3
    <3>2. i - m = j - m
      BY <1>1, <3>1 DEF IsInjective
    <3> QED
      BY <1>1, <3>2
  <2> QED
    BY <1>1, <1>4, <1>5, <2>1, <2>2, <2>3
<1> QED
  BY <1>2, <1>3, <1>5 DEF IsInjective, m, n, u

LEMMA TrailingIs ==
    ASSUME NEW band
    PROVE  /\ Trailing(band) \in Seq(TrailNames) /\ IsInjective(Trailing(band))
           /\ Range(Trailing(band)) \subseteq TrailNames
<1> DEFINE all == <<"BILL", "EDUCATION", "ADMIN", "TRAINING", "STABILIZ", "EPSCA">>
           shown == {i \in DOMAIN all : \/ all[i] = "EPSCA"
                                        \/ all[i] \in band /\ ~(all[i] = "TRAINING" /\ "ADMIN" \in band)}
<1>1. all \in Seq(TrailNames) /\ DOMAIN all = 1..6
  BY DEF TrailNames
<1>2. \A i, j \in 1..6 : all[i] = all[j] => i = j
  OBVIOUS
<1>3. shown \in SUBSET DOMAIN all /\ Trailing(band) = Picked(all, shown)
  BY DEF Trailing
<1> HIDE DEF all, shown, TrailNames
<1>4. Picked(all, shown) \in Seq(TrailNames) /\ IsInjective(Picked(all, shown))
  BY <1>1, <1>2, <1>3, PickedFrom
<1> QED
  BY <1>3, <1>4, Places1

LEMMA PositionalIs ==
    ASSUME NEW band
    PROVE  Positional(band) \in Seq(ColumnNameSet) /\ IsInjective(Positional(band))
<1> DEFINE all == <<"base", "vacation", "WELFARE", "PENSION", "RRSP", "UNION">>
           named == {i \in DOMAIN all : all[i] \in {"base", "vacation"} \cup band}
           lead == Picked(all, named)
           total == <<"total">>
           trail == Trailing(band)
<1>1. all \in Seq(LeadNames) /\ DOMAIN all = 1..6
  BY DEF LeadNames
<1>2. \A i, j \in 1..6 : all[i] = all[j] => i = j
  OBVIOUS
<1>3. named \in SUBSET DOMAIN all
  OBVIOUS
<1>4. Positional(band) = lead \o total \o trail
  BY DEF Positional
<1>5. total \in Seq(ColumnNameSet) /\ Range(total) = {"total"} /\ IsInjective(total)
  BY DEF ColumnNameSet, Range, IsInjective
<1> HIDE DEF all, named, total, trail
<1>6. lead \in Seq(LeadNames) /\ IsInjective(lead) /\ Range(lead) \subseteq LeadNames
  <2>1. lead \in Seq(LeadNames) /\ IsInjective(lead)
    BY <1>1, <1>2, <1>3, PickedFrom
  <2> QED
    BY <2>1, Places1
<1> HIDE DEF lead
<1>7. trail \in Seq(TrailNames) /\ IsInjective(trail) /\ Range(trail) \subseteq TrailNames
  BY TrailingIs DEF trail
<1>8. LeadNames \cap {"total"} = {} /\ (LeadNames \cup {"total"}) \cap TrailNames = {}
  BY DEF LeadNames, TrailNames
<1>9. LeadNames \subseteq ColumnNameSet /\ TrailNames \subseteq ColumnNameSet
  BY DEF ColumnNameSet
<1> HIDE DEF ColumnNameSet
<1>10. lead \in Seq(ColumnNameSet) /\ trail \in Seq(ColumnNameSet)
  BY <1>6, <1>7, <1>9
<1>11. /\ lead \o total \in Seq(ColumnNameSet) /\ IsInjective(lead \o total)
       /\ Range(lead \o total) = Range(lead) \cup {"total"}
  BY <1>5, <1>6, <1>8, <1>10, JoinInjective
<1>12. lead \o total \o trail \in Seq(ColumnNameSet) /\ IsInjective(lead \o total \o trail)
  <2>1. Range(lead \o total) \cap Range(trail) = {}
    BY <1>6, <1>7, <1>8, <1>11
  <2> QED
    BY <1>7, <1>10, <1>11, <2>1, JoinInjective
<1> QED
  BY <1>4, <1>12

LEMMA ComponentsAre ==
    ASSUME NEW k \in 2..7
    PROVE  /\ Components(k) \in Seq(LeadNames) /\ Len(Components(k)) = k
           /\ IsInjective(Components(k)) /\ Range(Components(k)) \subseteq LeadNames
<1> DEFINE c == Components(k)
<1>1. c \in Seq(LeadNames) /\ Len(c) = k /\ DOMAIN c = 1..k
  <2>1. CASE k = 2
    BY <2>1 DEF Components, LeadNames
  <2>2. CASE k = 3
    BY <2>2 DEF Components, LeadNames
  <2>3. CASE k = 4
    BY <2>3 DEF Components, LeadNames
  <2>4. CASE k = 5
    BY <2>4 DEF Components, LeadNames
  <2>5. CASE k = 6
    BY <2>5 DEF Components, LeadNames
  <2>6. CASE k = 7
    BY <2>6 DEF Components, LeadNames
  <2> QED
    BY <2>1, <2>2, <2>3, <2>4, <2>5, <2>6
<1>2. \A i, j \in 1..k : c[i] = c[j] => i = j
  <2>1. CASE k = 2
    BY <2>1 DEF Components
  <2>2. CASE k = 3
    BY <2>2 DEF Components
  <2>3. CASE k = 4
    BY <2>3 DEF Components
  <2>4. CASE k = 5
    BY <2>4 DEF Components
  <2>5. CASE k = 6
    BY <2>5 DEF Components
  <2>6. CASE k = 7
    BY <2>6 DEF Components
  <2> QED
    BY <2>1, <2>2, <2>3, <2>4, <2>5, <2>6
<1> HIDE DEF c, LeadNames
<1> QED
  BY <1>1, <1>2, Places1 DEF IsInjective, c

LEMMA TotalIndexIs ==
    ASSUME NEW values \in Seq(Nat), NEW k, k = TotalIndex(values), k # 0
    PROVE  /\ k \in 2..7 /\ k < Len(values)
           /\ Distance(Total(values, k), values[k + 1]) <= SumTolerance
<1> DEFINE order == <<5, 6, 4, 3, 7, 2>>
           fits == {i \in DOMAIN order :
                      /\ order[i] < Len(values)
                      /\ Distance(Total(values, order[i]), values[order[i] + 1]) <= SumTolerance}
<1>1. DOMAIN order = 1..6 /\ \A i \in 1..6 : order[i] \in 2..7
  OBVIOUS
<1>2. k = IF fits = {} THEN 0 ELSE order[Min(fits)]
  BY DEF TotalIndex
<1>3. fits \in SUBSET (1..6)
  BY <1>1
<1>4. IsFiniteSet(fits) /\ fits \subseteq Int
  BY <1>3, SomePlaces
<1>5. fits # {} => Min(fits) \in fits
  BY <1>4, LeastOf
<1>6. fits # {}
  BY <1>2
<1>7. PICK i \in fits : k = order[i]
  BY <1>2, <1>5, <1>6
<1> HIDE DEF order
<1> QED
  BY <1>1, <1>7

\* Named or numbered, no two columns are called the same.
LEMMA CalledApart ==
    ASSUME NEW names \in Seq(ColumnNameSet), IsInjective(names), NEW n \in Nat
    PROVE  /\ Named(names) \in Seq(Column) /\ Len(Named(names)) = Len(names)
           /\ IsInjective(Named(names)) /\ Range(Named(names)) \subseteq ColumnNameSet \X {0}
           /\ \A i \in 1..Len(names) : Named(names)[i] = <<names[i], 0>>
           /\ Numbered(n) \in Seq(Column) /\ Len(Numbered(n)) = n
           /\ IsInjective(Numbered(n)) /\ Range(Numbered(n)) \subseteq {"column"} \X Nat
<1> DEFINE m == Len(names)
           s == Named(names)
           t == Numbered(n)
<1>1. m \in Nat /\ DOMAIN names = 1..m /\ \A i \in 1..m : names[i] \in ColumnNameSet
  BY Places1
<1>2. s = [i \in 1..m |-> <<names[i], 0>>]
  BY <1>1 DEF Named
<1>3. t = [i \in 1..n |-> <<"column", i>>]
  BY DEF Numbered
<1> HIDE DEF m, s, t
<1>4. \A i \in 1..m : <<names[i], 0>> \in Column /\ <<names[i], 0>> \in ColumnNameSet \X {0}
  BY <1>1 DEF Column
<1>5. \A i \in 1..n : <<"column", i>> \in Column /\ <<"column", i>> \in {"column"} \X Nat
  BY DEF Column
<1>6. s \in [1..m -> Column] /\ t \in [1..n -> Column]
  BY <1>2, <1>3, <1>4, <1>5
<1>7. IsInjective(s)
  <2> SUFFICES ASSUME NEW i \in 1..m, NEW j \in 1..m, s[i] = s[j] PROVE i = j
    BY <1>6 DEF IsInjective
  <2>1. names[i] = names[j]
    BY <1>2
  <2> QED
    BY <1>1, <2>1 DEF IsInjective
<1>8. IsInjective(t)
  BY <1>3 DEF IsInjective
<1>9. Range(s) \subseteq ColumnNameSet \X {0} /\ Range(t) \subseteq {"column"} \X Nat
  BY <1>2, <1>3, <1>4, <1>5 DEF Range
<1> HIDE DEF Column
<1>10. s \in Seq(Column) /\ Len(s) = m /\ t \in Seq(Column) /\ Len(t) = n
  BY <1>1, <1>6
<1> QED
  BY <1>2, <1>7, <1>8, <1>9, <1>10 DEF m, s, t

\* As many names as amounts, all different, and the total where the amounts add up.
Called(columns, values, valid) ==
    /\ Len(columns) = Len(values)
    /\ \A j, k \in DOMAIN columns : columns[j] = columns[k] => j = k
    /\ valid => \E k \in {i \in DOMAIN columns : columns[i] = <<"total", 0>>} :
                  Distance(Total(values, k - 1), values[k]) <= SumTolerance

LEMMA PairIn == \A A, B : \A a \in A, b \in B : <<a, b>> \in A \X B
OBVIOUS

LEMMA ColumnsCalled ==
    ASSUME NEW values \in Seq(Nat), NEW band
    PROVE  Called(ColumnNames(values, band)[1], values, ColumnNames(values, band)[2])
<1> DEFINE k == TotalIndex(values)
           N == Len(values)
           names == ColumnNames(values, band)
<1>1. N \in Nat
  BY LenProperties
<1>2. CASE k = 0
  <2>1. CASE Len(Positional(band)) = N
    <3>1. names[1] = Named(Positional(band)) /\ names[2] = FALSE
      BY <1>2, <2>1 DEF ColumnNames
    <3>2. Len(names[1]) = N /\ IsInjective(names[1])
      BY <1>1, <2>1, <3>1, PositionalIs, CalledApart
    <3> HIDE DEF names
    <3> QED
      BY <3>1, <3>2 DEF Called, IsInjective, names
  <2>2. CASE Len(Positional(band)) # N
    <3>1. names[1] = Numbered(N) /\ names[2] = FALSE
      BY <1>2, <2>2 DEF ColumnNames
    <3>2. Len(names[1]) = N /\ IsInjective(names[1])
      BY <1>1, <3>1, PositionalIs, CalledApart
    <3> HIDE DEF names
    <3> QED
      BY <3>1, <3>2 DEF Called, IsInjective, names
  <2> QED
    BY <2>1, <2>2
<1>3. CASE k # 0
  <2> DEFINE total == <<"total">>
             lead == Components(k) \o total
             rest == Extras(band, N - k - 1)
  <2>1. k \in 2..7 /\ k < N /\ Distance(Total(values, k), values[k + 1]) <= SumTolerance
    <3> HIDE DEF k
    <3> QED
      BY <1>3, TotalIndexIs DEF k
  <2>2. names[1] = Named(lead) \o rest /\ names[2] = TRUE
    BY <1>3 DEF ColumnNames
  <2> HIDE DEF k, names
  <2>3. /\ Components(k) \in Seq(LeadNames) /\ Len(Components(k)) = k
        /\ IsInjective(Components(k)) /\ Range(Components(k)) \subseteq LeadNames
    BY <2>1, ComponentsAre
  <2>4. /\ total \in Seq(ColumnNameSet) /\ Range(total) = {"total"} /\ IsInjective(total)
        /\ Len(total) = 1 /\ total[1] = "total"
    BY DEF ColumnNameSet, Range, IsInjective
  <2> HIDE DEF total
  <2>0. lead = Components(k) \o total
    OBVIOUS
  <2>5. LeadNames \subseteq ColumnNameSet /\ TrailNames \subseteq ColumnNameSet /\ "total" \notin LeadNames
        /\ TrailNames \cap (LeadNames \cup {"total"}) = {} /\ "column" \notin ColumnNameSet
    BY DEF ColumnNameSet, LeadNames, TrailNames
  <2> HIDE DEF rest, lead, LeadNames, TrailNames, ColumnNameSet
  <2>6. /\ lead \in Seq(ColumnNameSet) /\ Len(lead) = k + 1 /\ IsInjective(lead) /\ lead[k + 1] = "total"
        /\ Range(lead) \subseteq LeadNames \cup {"total"}
    <3>1. Components(k) \in Seq(ColumnNameSet)
      BY <2>3, <2>5
    <3>2. Range(Components(k)) \cap Range(total) = {}
      BY <2>3, <2>4, <2>5
    <3>3. /\ lead \in Seq(ColumnNameSet) /\ Len(lead) = k + 1 /\ IsInjective(lead)
          /\ Range(lead) = Range(Components(k)) \cup {"total"}
      <4> DEFINE c == Components(k)
      <4>1. /\ c \in Seq(ColumnNameSet) /\ total \in Seq(ColumnNameSet) /\ IsInjective(c)
            /\ IsInjective(total) /\ Range(c) \cap Range(total) = {}
        BY <2>3, <2>4, <3>1, <3>2
      <4> HIDE DEF c
      <4>2. /\ c \o total \in Seq(ColumnNameSet) /\ Len(c \o total) = Len(c) + Len(total)
            /\ IsInjective(c \o total) /\ Range(c \o total) = Range(c) \cup Range(total)
        BY <4>1, JoinInjective
      <4>3. lead = c \o total /\ Len(c) = k
        BY <2>0, <2>3 DEF c
      <4> QED
        BY <2>4, <4>2, <4>3 DEF c
    <3>4. lead[k + 1] = "total"
      <4>0. k + 1 \in 1..Len(Components(k)) + Len(total) /\ ~(k + 1 <= k) /\ k + 1 - k = 1
        BY <2>1, <2>3, <2>4
      <4>1. lead[k + 1] = total[k + 1 - k]
        <5> DEFINE c == Components(k)
        <5>1. c \in Seq(ColumnNameSet) /\ Len(c) = k /\ lead = c \o total
          BY <2>0, <2>3, <3>1
        <5> HIDE DEF c
        <5>2. \A i \in 1..Len(c) + Len(total) :
                (c \o total)[i] = IF i <= Len(c) THEN c[i] ELSE total[i - Len(c)]
          BY <2>4, <5>1, ConcatProperties
        <5> QED
          BY <4>0, <5>1, <5>2 DEF c
      <4> QED
        BY <2>4, <4>0, <4>1
    <3> QED
      BY <2>3, <3>3, <3>4
  <2>7. N - k - 1 \in Nat
    BY <1>1, <2>1
  <2>8. /\ Named(lead) \in Seq(Column) /\ Len(Named(lead)) = k + 1 /\ IsInjective(Named(lead))
        /\ Named(lead)[k + 1] = <<"total", 0>>
        /\ \A i \in 1..k + 1 : Named(lead)[i] = <<lead[i], 0>>
    <3>1. k + 1 \in 1..Len(lead)
      BY <2>1, <2>6
    <3> QED
      BY <2>6, <2>7, <3>1, CalledApart
  <2>9. \A x \in Range(Named(lead)) : x \in (LeadNames \cup {"total"}) \X {0}
    <3>1. Range(Named(lead)) = {Named(lead)[i] : i \in 1..k + 1}
      BY <2>8, Places1
    <3>2. Range(lead) = {lead[i] : i \in 1..k + 1}
      BY <2>6, Places1
    <3>3. \A i \in 1..k + 1 : lead[i] \in LeadNames \cup {"total"}
      BY <2>6, <3>2
    <3>4. ASSUME NEW i \in 1..k + 1 PROVE Named(lead)[i] \in (LeadNames \cup {"total"}) \X {0}
      <4>1. Named(lead)[i] = <<lead[i], 0>>
        BY <2>8
      <4>2. lead[i] \in LeadNames \cup {"total"} /\ 0 \in {0}
        BY <3>3
      <4> QED
        BY <4>1, <4>2, PairIn
    <3> QED
      BY <3>1, <3>4
  <2>10. /\ rest \in Seq(Column) /\ Len(rest) = N - k - 1 /\ IsInjective(rest)
         /\ Range(rest) \cap Range(Named(lead)) = {}
    <3>1. Trailing(band) \in Seq(ColumnNameSet) /\ IsInjective(Trailing(band))
          /\ Range(Trailing(band)) \subseteq TrailNames
      BY <2>5, TrailingIs
    <3>2. CASE Len(Trailing(band)) = N - k - 1
      <4>1. rest = Named(Trailing(band))
        BY <3>2 DEF rest, Extras
      <4>2. rest \in Seq(Column) /\ Len(rest) = N - k - 1 /\ IsInjective(rest)
            /\ \A i \in 1..Len(rest) : rest[i] = <<Trailing(band)[i], 0>>
        BY <2>7, <3>1, <3>2, <4>1, CalledApart
      <4>3. Range(rest) = {rest[i] : i \in 1..Len(rest)}
        BY <4>2, Places1
      <4>4. \A i \in 1..Len(rest) : Trailing(band)[i] \in TrailNames
        BY <3>1, <3>2, <4>2, Places1
      <4> QED
        BY <2>5, <2>9, <4>2, <4>3, <4>4
    <3>3. CASE Len(Trailing(band)) # N - k - 1
      <4>1. rest = Numbered(N - k - 1)
        BY <3>3 DEF rest, Extras
      <4>2. rest \in Seq(Column) /\ Len(rest) = N - k - 1 /\ IsInjective(rest)
            /\ Range(rest) \subseteq {"column"} \X Nat
        BY <2>7, <3>1, <4>1, CalledApart
      <4>3. "column" \notin LeadNames \cup {"total"}
        BY DEF LeadNames
      <4> QED
        BY <2>9, <4>2, <4>3
    <3> QED
      BY <3>2, <3>3
  <2>11. /\ Len(names[1]) = N /\ IsInjective(names[1]) /\ DOMAIN names[1] = 1..N
         /\ names[1][k + 1] = <<"total", 0>> /\ k + 1 \in 1..N
    <3> DEFINE s == Named(lead)
               u == s \o rest
    <3>0. s \in Seq(Column) /\ Len(s) = k + 1 /\ IsInjective(s) /\ s[k + 1] = <<"total", 0>>
          /\ Range(s) \cap Range(rest) = {}
      BY <2>8, <2>10
    <3>1. u \in Seq(Column) /\ Len(u) = k + 1 + (N - k - 1) /\ IsInjective(u)
      <4> HIDE DEF s, Column
      <4>1. IsInjective(rest) /\ rest \in Seq(Column) /\ Range(s) \cap Range(rest) = {}
        BY <2>10, <3>0
      <4>2. /\ s \o rest \in Seq(Column) /\ Len(s \o rest) = Len(s) + Len(rest)
            /\ IsInjective(s \o rest)
        BY <3>0, <4>1, JoinInjective
      <4> QED
        BY <2>10, <3>0, <4>2
    <3>2. u[k + 1] = s[k + 1]
      <4> HIDE DEF s, Column
      <4>1. k + 1 \in 1..Len(s) + Len(rest) /\ k + 1 <= Len(s)
        BY <1>1, <2>1, <2>10, <3>0
      <4> QED
        BY <2>10, <3>0, <4>1, ConcatProperties
    <3>3. k + 1 + (N - k - 1) = N /\ k + 1 \in 1..N
      BY <1>1, <2>1
    <3>4. names[1] = u
      BY <2>2
    <3> HIDE DEF u, s, Column
    <3>5. DOMAIN u = 1..Len(u)
      BY <3>1, Places1
    <3> QED
      BY <3>0, <3>1, <3>2, <3>3, <3>4, <3>5
  <2>12. PICK m : m = k + 1
    OBVIOUS
  <2>13. Distance(Total(values, m - 1), values[m]) <= SumTolerance
    <3>1. m - 1 = k
      BY <2>1, <2>12
    <3> QED
      BY <2>1, <2>12, <3>1
  <2>14. Len(names[1]) = N /\ \A i, j \in DOMAIN names[1] : names[1][i] = names[1][j] => i = j
    BY <2>11 DEF IsInjective
  <2>15. m \in {i \in DOMAIN names[1] : names[1][i] = <<"total", 0>>}
    BY <2>11, <2>12
  <2> HIDE DEF names
  <2>16. Called(names[1], values, names[2])
    BY <2>13, <2>14, <2>15, Zenon DEF Called
  <2> QED
    BY <2>16 DEF names
<1> QED
  BY <1>2, <1>3

\* Every rate that was read has its names.
LEMMA RatesAreNamed ==
    ASSUME TypeInv
    PROVE  RatesNamed
<1>1. IsDocument(doc) /\ parsed \in Seq(FormPages)
  BY DEF TypeInv, Entered, FormRead
<1> SUFFICES ASSUME NEW i \in DOMAIN parsed, NEW g \in Range(parsed[i].read.groups), NEW row \in Range(g.rates)
             PROVE  Called(row.columns, doc[row.line].values, row.valid)
  BY DEF RatesNamed, Called
<1>2. parsed[i] \in FormPages
  <2> HIDE DEF FormPages
  <2> QED
    BY <1>1, Places1
<1>3. parsed[i].read.groups \in Seq(Groups)
  BY <1>2 DEF FormPages
<1>4. g \in Groups
  <2> HIDE DEF Groups
  <2> QED
    BY <1>3, Places1
<1>5. g.rates \in Seq(RateRows)
  BY <1>4 DEF Groups
<1>6. row \in RateRows
  <2> HIDE DEF RateRows
  <2> QED
    BY <1>5, Places1
<1>7. PICK l \in Dated, band \in SUBSET Keywords : row = RateRow(l, band)
  BY <1>6 DEF RateRows
<1>8. doc[l].values \in Seq(Nat)
  BY <1>1, DocumentLines DEF IsDocument, Dated
<1>9. /\ row.line = l /\ row.columns = ColumnNames(doc[l].values, band)[1]
      /\ row.valid = ColumnNames(doc[l].values, band)[2]
  BY <1>7 DEF RateRow
<1> QED
  BY <1>8, <1>9, ColumnsCalled

-----------------------------------------------------------------------------
(* The labels of the rates of a page                                       *)

\* The lines of the page at marker p, up to line x.
LabelsAt(p, x) == {k \in p + 1..x : doc[k].kind = "label"}
TradesAt(p, x) == {k \in LabelsAt(p, x) : doc[k].apprentice}
OwnAt(p, x) == {k \in LabelsAt(p, x) : \A m \in k..LastOf(LabelsAt(p, x)) : doc[m].kind # "rates"}
RatesAt(p, x) == {r \in p + 1..x : doc[r].kind = "rates"}

\* The labels a line of rates after line x would have.
UnderAt(p, x) ==
    IF OwnAt(p, x) # {} /\ TradesAt(p, x) # {} /\ \A k \in OwnAt(p, x) : doc[k].period
    THEN OwnAt(p, x) \cup {Max(TradesAt(p, x))} ELSE OwnAt(p, x)

LEMMA LabelsAre ==
    ASSUME NEW l
    PROVE  LabelsOf(l) = UnderAt(PageOf(l), l - 1)
<1>1. Before(l, LAMBDA k : doc[k].kind = "label") = LabelsAt(PageOf(l), l - 1)
  BY DEF Before, LabelsAt
<1> QED
  BY <1>1 DEF LabelsOf, UnderAt, OwnAt, TradesAt

\* The lines of some rows of rates.
LinesOfRows(rs) == {rs[i].line : i \in 1..Len(rs)}
RatesOf(g) == LinesOfRows(g.rates)

\* The labels of a group are those of each of its lines of rates.
GroupTrue(g) ==
    /\ \A l \in Range(g.labels) : doc[l].kind = "label"
    /\ \A r \in RatesOf(g) : doc[r].kind = "rates" /\ LabelsOf(r) = Range(g.labels)

\* Line r is in one of the groups, or in none.
InOne(r, gs) == \E i \in 1..Len(gs) : \A j \in 1..Len(gs) : r \in RatesOf(gs[j]) <=> j = i
InNone(r, gs) == \A j \in 1..Len(gs) : r \notin RatesOf(gs[j])

\* Where line r of rates should be.
Settled(r, gs) == IF LabelsOf(r) = {} THEN InNone(r, gs) ELSE InOne(r, gs)

GroupsWithin(gs, S) ==
    \A i \in 1..Len(gs) : Range(gs[i].labels) \subseteq S /\ RatesOf(gs[i]) \subseteq S

\* What the parser knows of a page of rates at line x of it.
SheetAt(a, p, x) ==
    /\ a \in Sheets
    /\ Range(a.labels) = OwnAt(p, x)
    /\ a.parent = LastOf(TradesAt(p, x))
    /\ LinesOfRows(a.rates) = {r \in RatesAt(p, x) : LastOf(LabelsAt(p, x)) < r}
    /\ GroupsWithin(a.groups, p + 1..x)
    /\ \A i \in 1..Len(a.groups) : GroupTrue(a.groups[i])
    /\ \A r \in RatesAt(p, x) : IF LastOf(LabelsAt(p, x)) < r THEN InNone(r, a.groups)
                                ELSE Settled(r, a.groups)
    /\ \A l \in Range(a.notes) : l \in p + 1..x /\ doc[l].kind \notin {"rates", "label"}

LEMMA RowsAre ==
    ASSUME NEW rs \in Seq(RateRows)
    PROVE  /\ LinesOfRows(rs) = {} <=> rs = <<>>
           /\ \A row \in RateRows : LinesOfRows(Append(rs, row)) = LinesOfRows(rs) \cup {row.line}
<1> HIDE DEF RateRows
<1>1. Len(rs) \in Nat /\ (Len(rs) = 0 <=> rs = <<>>)
  BY EmptySeq, Places1
<1>2. LinesOfRows(rs) = {} <=> rs = <<>>
  <2>1. CASE Len(rs) = 0
    BY <1>1, <2>1 DEF LinesOfRows
  <2>2. CASE Len(rs) # 0
    <3>1. 1 \in 1..Len(rs)
      BY <1>1, <2>2
    <3> QED
      BY <1>1, <2>2, <3>1 DEF LinesOfRows
  <2> QED
    BY <2>1, <2>2
<1>3. ASSUME NEW row \in RateRows PROVE LinesOfRows(Append(rs, row)) = LinesOfRows(rs) \cup {row.line}
  <2> DEFINE t == Append(rs, row)
  <2>1. /\ Len(t) = Len(rs) + 1
        /\ \A i \in 1..Len(t) : (i \in 1..Len(rs) /\ t[i] = rs[i]) \/ (i = Len(rs) + 1 /\ t[i] = row)
    BY AppendSays
  <2> HIDE DEF t
  <2>2. Len(rs) + 1 \in 1..Len(t) /\ t[Len(rs) + 1] = row /\ \A i \in 1..Len(rs) : i \in 1..Len(t) /\ t[i] = rs[i]
    BY <1>1, <2>1
  <2>3. LinesOfRows(t) = LinesOfRows(rs) \cup {row.line}
    BY <2>1, <2>2 DEF LinesOfRows
  <2> QED
    BY <2>3 DEF t
<1> QED
  BY <1>2, <1>3

\* The last label and the last apprentice label, if there are any.
LEMMA LastLabels ==
    ASSUME NEW p \in Nat, NEW x \in Nat
    PROVE  /\ LastOf(LabelsAt(p, x)) \in 0..x /\ \A k \in LabelsAt(p, x) : k <= LastOf(LabelsAt(p, x))
           /\ LabelsAt(p, x) # {} => LastOf(LabelsAt(p, x)) \in OwnAt(p, x)
           /\ OwnAt(p, x) # {} <=> LabelsAt(p, x) # {}
           /\ LastOf(TradesAt(p, x)) \in 0..x /\ \A k \in TradesAt(p, x) : k <= LastOf(TradesAt(p, x))
           /\ TradesAt(p, x) # {} => LastOf(TradesAt(p, x)) \in TradesAt(p, x)
           /\ TradesAt(p, x) = {} <=> LastOf(TradesAt(p, x)) = NoLabel
<1> DEFINE last == LastOf(LabelsAt(p, x))
           trade == LastOf(TradesAt(p, x))
<1>1. LabelsAt(p, x) \in SUBSET (1..x) /\ TradesAt(p, x) \in SUBSET (1..x)
  BY DEF LabelsAt, TradesAt
<1>2. last \in 0..x /\ (\A k \in LabelsAt(p, x) : k <= last) /\ (LabelsAt(p, x) # {} => last \in LabelsAt(p, x))
  BY <1>1, LastIs
<1>3. trade \in 0..x /\ (\A k \in TradesAt(p, x) : k <= trade) /\ (TradesAt(p, x) # {} => trade \in TradesAt(p, x))
  BY <1>1, LastIs
<1>4. TradesAt(p, x) = {} => trade = 0
  BY DEF LastOf
<1> HIDE DEF trade
<1>5. TradesAt(p, x) = {} <=> trade = NoLabel
  BY <1>1, <1>3, <1>4 DEF NoLabel
<1>6. LabelsAt(p, x) # {} => last \in OwnAt(p, x)
  <2> SUFFICES ASSUME LabelsAt(p, x) # {} PROVE last \in OwnAt(p, x)
    OBVIOUS
  <2>1. last \in LabelsAt(p, x) /\ doc[last].kind = "label"
    BY <1>2 DEF LabelsAt
  <2> HIDE DEF last
  <2>2. \A m \in last..last : m = last
    BY <1>2
  <2> QED
    BY <2>1, <2>2 DEF OwnAt, last
<1>7. OwnAt(p, x) \subseteq LabelsAt(p, x)
  BY DEF OwnAt
<1> QED
  BY <1>2, <1>3, <1>5, <1>6, <1>7 DEF trade

LEMMA SameLabels ==
    ASSUME NEW p, NEW x, NEW y, LabelsAt(p, x) = LabelsAt(p, y)
    PROVE  OwnAt(p, x) = OwnAt(p, y) /\ TradesAt(p, x) = TradesAt(p, y) /\ UnderAt(p, x) = UnderAt(p, y)
<1>1. OwnAt(p, x) = OwnAt(p, y) /\ TradesAt(p, x) = TradesAt(p, y)
  BY DEF OwnAt, TradesAt
<1> QED
  BY <1>1 DEF UnderAt

\* Rates printed after the last label stand under it.
LEMMA UnderLast ==
    ASSUME IsDocument(doc), NEW p \in DocLine, doc[p].kind = "page", NEW x \in DocLine,
           p + 1..x \subseteq LinesOfPage(p), NEW r \in RatesAt(p, x), LastOf(LabelsAt(p, x)) < r
    PROVE  LabelsOf(r) = UnderAt(p, x)
<1>1. p \in Nat /\ x \in Nat /\ r \in p + 1..x /\ doc[r].kind = "rates"
  BY DocumentLines DEF RatesAt
<1>2. PageOf(r) = p
  BY <1>1, OnPage
<1>3. \A k \in LabelsAt(p, x) : k <= LastOf(LabelsAt(p, x))
  BY <1>1, LastLabels
<1>4. LastOf(LabelsAt(p, x)) \in Nat
  BY <1>1, LastLabels
<1>5. LabelsAt(p, r - 1) = LabelsAt(p, x)
  BY <1>1, <1>3, <1>4 DEF LabelsAt
<1>6. UnderAt(p, r - 1) = UnderAt(p, x)
  BY <1>5, SameLabels
<1> QED
  BY <1>2, <1>6, LabelsAre

\* A group is closed under the labels that its rates have.
LEMMA GroupMade ==
    ASSUME IsDocument(doc), NEW p \in DocLine, NEW x \in DocLine \cup {p}, NEW a, SheetAt(a, p, x)
    PROVE  /\ a.labels = <<>> <=> UnderAt(p, x) = {}
           /\ \/ (a.labels = <<>> \/ a.rates = <<>>) /\ FlushGroup(a) = a.groups
              \/ /\ a.labels # <<>> /\ a.rates # <<>>
                 /\ \E g \in Groups : /\ FlushGroup(a) = Append(a.groups, g)
                                      /\ Range(g.labels) = UnderAt(p, x) /\ g.rates = a.rates
<1> DEFINE own == OwnAt(p, x)
           trades == TradesAt(p, x)
<1>1. /\ a.labels \in Seq(DocLine) /\ a.rates \in Seq(RateRows) /\ a.groups \in Seq(Groups)
      /\ a.parent \in DocLine \cup {NoLabel} /\ Range(a.labels) = own /\ a.parent = LastOf(trades)
  BY DEF SheetAt, Sheets
<1>2. p \in Nat /\ x \in Nat
  BY DocumentLines
<1>3. trades = {} <=> a.parent = NoLabel
  BY <1>1, <1>2, LastLabels
<1>4. trades # {} => a.parent = Max(trades)
  BY <1>1 DEF LastOf
<1>5. DOMAIN a.labels = 1..Len(a.labels) /\ own = {a.labels[i] : i \in DOMAIN a.labels}
  BY <1>1, Places1
<1>6. a.labels = <<>> <=> own = {}
  <2>1. Len(a.labels) \in Nat /\ (Len(a.labels) = 0 <=> a.labels = <<>>)
    BY <1>1, EmptySeq, Places1
  <2>2. Len(a.labels) # 0 => 1 \in DOMAIN a.labels
    BY <1>5, <2>1
  <2>3. Len(a.labels) = 0 => DOMAIN a.labels = {}
    BY <1>5
  <2> HIDE DEF own
  <2> QED
    BY <1>5, <2>1, <2>2, <2>3
<1>7. a.labels = <<>> <=> UnderAt(p, x) = {}
  BY <1>6 DEF UnderAt
<1>8. CASE a.labels = <<>> \/ a.rates = <<>>
  BY <1>7, <1>8 DEF FlushGroup
<1>9. CASE ~(a.labels = <<>> \/ a.rates = <<>>)
  <2> DEFINE periods == \A i \in DOMAIN a.labels : doc[a.labels[i]].period
             heads == IF a.parent # NoLabel /\ periods THEN <<a.parent>> ELSE <<>>
             others == {i \in DOMAIN a.labels : a.labels[i] \notin Range(heads)}
             g == [labels |-> heads \o Picked(a.labels, others), rates |-> a.rates]
  <2>1. FlushGroup(a) = Append(a.groups, g)
    BY <1>9 DEF FlushGroup
  <2>2. periods <=> \A k \in own : doc[k].period
    BY <1>5
  <2>3. heads \in Seq(DocLine) /\ Range(heads) = IF a.parent # NoLabel /\ periods THEN {a.parent} ELSE {}
    <3>1. CASE a.parent # NoLabel /\ periods
      <4>1. a.parent \in DocLine
        BY <1>1, <3>1
      <4>2. heads = <<a.parent>>
        BY <3>1
      <4> HIDE DEF heads
      <4>3. heads \in Seq(DocLine) /\ Len(heads) = 1 /\ heads[1] = a.parent
        BY <4>1, <4>2
      <4>4. Range(heads) = {heads[i] : i \in 1..1}
        BY <4>3, Places1
      <4> QED
        BY <3>1, <4>3, <4>4
    <3>2. CASE ~(a.parent # NoLabel /\ periods)
      <4>1. heads = <<>>
        BY <3>2
      <4>2. Range(<<>>) = {} /\ <<>> \in Seq(DocLine)
        BY EmptySeq DEF Range
      <4> QED
        BY <3>2, <4>1, <4>2
    <3> QED
      BY <3>1, <3>2
  <2>4. others \in SUBSET DOMAIN a.labels
    OBVIOUS
  <2>5. {a.labels[i] : i \in others} = own \ Range(heads)
    BY <1>5
  <2> HIDE DEF heads, others, periods
  <2>6. Picked(a.labels, others) \in Seq(DocLine) /\ Range(Picked(a.labels, others)) = own \ Range(heads)
    BY <1>1, <2>4, <2>5, PickedFrom
  <2>7. /\ heads \o Picked(a.labels, others) \in Seq(DocLine)
        /\ Range(heads \o Picked(a.labels, others)) = Range(heads) \cup own
    BY <2>3, <2>6, ConcatProperties, RangeConcatenation
  <2>8. Range(g.labels) = UnderAt(p, x) /\ g.rates = a.rates
    <3>1. own # {}
      BY <1>6, <1>9
    <3>2. Range(heads) \cup own = UnderAt(p, x)
      BY <1>3, <1>4, <2>2, <2>3, <3>1 DEF UnderAt
    <3> QED
      BY <2>7, <3>2
  <2>9. g \in Groups
    BY <1>1, <1>9, <2>7 DEF Groups
  <2> HIDE DEF g
  <2> QED
    BY <1>7, <1>9, <2>1, <2>8, <2>9
<1> QED
  BY <1>8, <1>9

\* The rates read so far are settled when the group before them is closed.
LEMMA FlushSettles ==
    ASSUME IsDocument(doc), NEW p \in DocLine, doc[p].kind = "page", NEW x \in DocLine \cup {p},
           p + 1..x \subseteq LinesOfPage(p), NEW a, SheetAt(a, p, x)
    PROVE  /\ FlushGroup(a) \in Seq(Groups) /\ GroupsWithin(FlushGroup(a), p + 1..x)
           /\ \A i \in 1..Len(FlushGroup(a)) : GroupTrue(FlushGroup(a)[i])
           /\ \A r \in RatesAt(p, x) : Settled(r, FlushGroup(a))
<1> DEFINE gs == FlushGroup(a)
           old == a.groups
           pending == LinesOfRows(a.rates)
           last == LastOf(LabelsAt(p, x))
<1>1. /\ a \in Sheets /\ old \in Seq(Groups) /\ a.rates \in Seq(RateRows)
      /\ Range(a.labels) = OwnAt(p, x) /\ pending = {r \in RatesAt(p, x) : last < r}
      /\ GroupsWithin(old, p + 1..x) /\ (\A i \in 1..Len(old) : GroupTrue(old[i]))
      /\ \A r \in RatesAt(p, x) : IF last < r THEN InNone(r, old) ELSE Settled(r, old)
  BY DEF SheetAt, Sheets
<1>2. p \in Nat /\ x \in Nat /\ p + 1..x \subseteq DocLine
  BY DocumentLines, PageRuns DEF DocLine
<1>3. UnderAt(p, x) \subseteq LabelsAt(p, x)
  <2>1. OwnAt(p, x) \subseteq LabelsAt(p, x) /\ TradesAt(p, x) \subseteq LabelsAt(p, x)
    BY DEF OwnAt, TradesAt
  <2>2. TradesAt(p, x) # {} => Max(TradesAt(p, x)) \in TradesAt(p, x)
    BY <1>2, LastLabels DEF LastOf
  <2> QED
    BY <2>1, <2>2 DEF UnderAt
<1>4. \A r \in pending : r \in RatesAt(p, x) /\ LabelsOf(r) = UnderAt(p, x)
  <2> SUFFICES ASSUME NEW r \in pending PROVE r \in RatesAt(p, x) /\ LabelsOf(r) = UnderAt(p, x)
    OBVIOUS
  <2>1. r \in RatesAt(p, x) /\ last < r
    BY <1>1
  <2>2. x \in DocLine
    BY <1>2, <2>1 DEF RatesAt
  <2> QED
    BY <2>1, <2>2, UnderLast
<1>5. pending = {} <=> a.rates = <<>>
  BY <1>1, RowsAre
<1>6. gs \in Seq(Groups)
  BY <1>1, FlushGroupType
<1>7. CASE (a.labels = <<>> \/ a.rates = <<>>) /\ gs = old
  <2>1. ASSUME NEW r \in RatesAt(p, x) PROVE Settled(r, old)
    <3>1. CASE last < r
      <4>1. r \in pending
        BY <1>1, <3>1
      <4>2. LabelsOf(r) = {}
        BY <1>4, <1>5, <1>7, <4>1, GroupMade
      <4> QED
        BY <1>1, <3>1, <4>2 DEF Settled
    <3>2. CASE ~(last < r)
      BY <1>1, <3>2
    <3> QED
      BY <3>1, <3>2
  <2> QED
    BY <1>1, <1>6, <1>7, <2>1
<1>8. CASE ~(a.labels = <<>> \/ a.rates = <<>>)
  <2>1. PICK g \in Groups : gs = Append(old, g) /\ Range(g.labels) = UnderAt(p, x) /\ g.rates = a.rates
    BY <1>8, GroupMade
  <2>2. UnderAt(p, x) # {}
    BY <1>8, GroupMade
  <2> DEFINE n == Len(old)
  <2>3. /\ n \in Nat /\ Len(gs) = n + 1 /\ gs[n + 1] = g /\ n + 1 \in 1..Len(gs)
        /\ \A i \in 1..n : i \in 1..Len(gs) /\ gs[i] = old[i] /\ i # n + 1
        /\ \A i \in 1..Len(gs) : i \in 1..n \/ i = n + 1
    <3> HIDE DEF gs, old, Groups
    <3>1. n \in Nat /\ Len(gs) = n + 1 /\ gs[n + 1] = g /\ \A i \in 1..n : gs[i] = old[i]
      BY <1>1, <2>1, AppendProperties, LenProperties
    <3> QED
      BY <3>1
  <2>4. RatesOf(g) = pending
    BY <2>1 DEF RatesOf
  <2> HIDE DEF gs, old, pending, n
  <2>5. GroupTrue(g) /\ Range(g.labels) \subseteq p + 1..x /\ RatesOf(g) \subseteq p + 1..x
    <3>1. \A l \in UnderAt(p, x) : doc[l].kind = "label" /\ l \in p + 1..x
      BY <1>3 DEF LabelsAt
    <3>2. \A r \in pending : doc[r].kind = "rates" /\ LabelsOf(r) = UnderAt(p, x) /\ r \in p + 1..x
      BY <1>4 DEF RatesAt
    <3> QED
      BY <2>1, <2>4, <3>1, <3>2 DEF GroupTrue
  <2>6. GroupsWithin(gs, p + 1..x) /\ \A i \in 1..Len(gs) : GroupTrue(gs[i])
    BY <1>1, <2>3, <2>5 DEF GroupsWithin, n
  <2>7. ASSUME NEW r \in RatesAt(p, x) PROVE Settled(r, gs)
    <3>1. CASE last < r
      <4>1. r \in pending /\ LabelsOf(r) # {} /\ InNone(r, old)
        BY <1>1, <1>4, <2>2, <3>1
      <4>2. \A j \in 1..Len(gs) : r \in RatesOf(gs[j]) <=> j = n + 1
        BY <2>3, <2>4, <4>1 DEF InNone, n
      <4>3. InOne(r, gs)
        BY <2>3, <4>2 DEF InOne
      <4> QED
        BY <4>1, <4>3 DEF Settled
    <3>2. CASE ~(last < r)
      <4>1. r \notin RatesOf(g) /\ Settled(r, old)
        BY <1>1, <2>4, <3>2
      <4>2. InNone(r, old) => InNone(r, gs)
        BY <2>3, <4>1 DEF InNone, n
      <4>3. ASSUME InOne(r, old) PROVE InOne(r, gs)
        <5>1. PICK i \in 1..n : \A j \in 1..n : r \in RatesOf(old[j]) <=> j = i
          BY <4>3 DEF InOne, n
        <5>2. \A j \in 1..Len(gs) : r \in RatesOf(gs[j]) <=> j = i
          BY <2>3, <4>1, <5>1
        <5> QED
          BY <2>3, <5>1, <5>2 DEF InOne
      <4> QED
        BY <4>1, <4>2, <4>3 DEF Settled
    <3> QED
      BY <3>1, <3>2
  <2> QED
    BY <1>6, <2>6, <2>7 DEF gs
<1> QED
  BY <1>7, <1>8, GroupMade

LEMMA MoreWithin ==
    ASSUME NEW gs, NEW S, NEW T, S \subseteq T, GroupsWithin(gs, S)
    PROVE  GroupsWithin(gs, T)
BY DEF GroupsWithin

\* A line that is no label.
LEMMA SheetPast ==
    ASSUME NEW p \in Nat, NEW x \in Nat, p < x, doc[x].kind # "label", NEW a, SheetAt(a, p, x - 1),
           NEW b \in Sheets, b.labels = a.labels, b.parent = a.parent, b.groups = a.groups,
           LinesOfRows(b.rates) = LinesOfRows(a.rates) \cup (IF doc[x].kind = "rates" THEN {x} ELSE {}),
           \A l \in Range(b.notes) : l \in Range(a.notes) \/ (l = x /\ doc[x].kind # "rates")
    PROVE  SheetAt(b, p, x)
<1> DEFINE y == x - 1
           last == LastOf(LabelsAt(p, x))
<1>1. /\ Range(a.labels) = OwnAt(p, y) /\ a.parent = LastOf(TradesAt(p, y))
      /\ LinesOfRows(a.rates) = {r \in RatesAt(p, y) : LastOf(LabelsAt(p, y)) < r}
      /\ GroupsWithin(a.groups, p + 1..y)
      /\ (\A i \in 1..Len(a.groups) : GroupTrue(a.groups[i]))
      /\ (\A r \in RatesAt(p, y) : IF LastOf(LabelsAt(p, y)) < r THEN InNone(r, a.groups)
                                   ELSE Settled(r, a.groups))
      /\ (\A l \in Range(a.notes) : l \in p + 1..y /\ doc[l].kind \notin {"rates", "label"})
  BY DEF SheetAt
<1>2. p + 1..y \subseteq p + 1..x /\ x \in p + 1..x /\ x \notin p + 1..y
      /\ \A k \in p + 1..x : k \in p + 1..y \/ k = x
  OBVIOUS
<1> HIDE DEF y
<1>3. LabelsAt(p, x) = LabelsAt(p, y)
  BY <1>2 DEF LabelsAt
<1>4. OwnAt(p, x) = OwnAt(p, y) /\ TradesAt(p, x) = TradesAt(p, y)
  BY <1>3, SameLabels
<1>5. RatesAt(p, x) = RatesAt(p, y) \cup (IF doc[x].kind = "rates" THEN {x} ELSE {})
  BY <1>2 DEF RatesAt
<1>6. last < x
  <2>1. last \in 0..x /\ (LabelsAt(p, x) # {} => last \in OwnAt(p, x))
    BY LastLabels
  <2>2. last \in OwnAt(p, x) => last \in p + 1..x /\ doc[last].kind = "label"
    BY DEF OwnAt, LabelsAt
  <2>3. LabelsAt(p, x) = {} => last = 0
    BY DEF LastOf
  <2> QED
    BY <2>1, <2>2, <2>3
<1>7. LinesOfRows(b.rates) = {r \in RatesAt(p, x) : last < r}
  BY <1>1, <1>3, <1>5, <1>6
<1>8. GroupsWithin(b.groups, p + 1..x)
  BY <1>1, <1>2, MoreWithin
<1>9. doc[x].kind = "rates" => InNone(x, a.groups)
  BY <1>1, <1>2 DEF GroupsWithin, InNone
<1>10. \A r \in RatesAt(p, x) : IF last < r THEN InNone(r, b.groups) ELSE Settled(r, b.groups)
  <2> SUFFICES ASSUME NEW r \in RatesAt(p, x)
               PROVE  IF last < r THEN InNone(r, b.groups) ELSE Settled(r, b.groups)
    OBVIOUS
  <2>1. CASE r \in RatesAt(p, y)
    BY <1>1, <1>3, <2>1
  <2>2. CASE r = x /\ doc[x].kind = "rates"
    BY <1>6, <1>9, <2>2
  <2> QED
    BY <1>5, <2>1, <2>2
<1>11. \A l \in Range(b.notes) : l \in p + 1..x /\ doc[l].kind \notin {"rates", "label"}
  BY <1>1, <1>2
<1> QED
  BY <1>1, <1>4, <1>7, <1>8, <1>10, <1>11 DEF SheetAt

\* A label closes the group before it.
LEMMA SheetLabel ==
    ASSUME IsDocument(doc), NEW p \in DocLine, doc[p].kind = "page", NEW x \in LinesOfPage(p),
           x - 1 \in DocLine \cup {p}, p + 1..x - 1 \subseteq LinesOfPage(p),
           doc[x].kind = "label", NEW a, SheetAt(a, p, x - 1)
    PROVE  SheetAt(TakeLabel(a, x), p, x)
<1> DEFINE y == x - 1
           old == LastOf(LabelsAt(p, y))
           kept == IF a.rates = <<>> THEN a.labels ELSE <<>>
           b == TakeLabel(a, x)
<1>1. /\ a \in Sheets /\ Range(a.labels) = OwnAt(p, y) /\ a.parent = LastOf(TradesAt(p, y))
      /\ LinesOfRows(a.rates) = {r \in RatesAt(p, y) : old < r}
      /\ a.labels \in Seq(DocLine) /\ a.rates \in Seq(RateRows)
      /\ (\A l \in Range(a.notes) : l \in p + 1..y /\ doc[l].kind \notin {"rates", "label"})
  BY DEF SheetAt, Sheets
<1>2. x \in DocLine /\ p \in Nat /\ x \in Nat /\ p < x /\ y \in Nat /\ p + 1..y \subseteq DocLine
  <2>1. x \in DocLine /\ p < x /\ p \in Nat /\ x \in Nat
    BY OnPage, DocumentLines
  <2> QED
    BY <2>1, DocumentLines DEF DocLine
<1>3. /\ p + 1..y \subseteq p + 1..x /\ x \in p + 1..x /\ x \notin p + 1..y
      /\ \A k \in p + 1..x : k \in p + 1..y \/ k = x
  BY <1>2
<1>4. /\ FlushGroup(a) \in Seq(Groups) /\ GroupsWithin(FlushGroup(a), p + 1..y)
      /\ (\A i \in 1..Len(FlushGroup(a)) : GroupTrue(FlushGroup(a)[i]))
      /\ \A r \in RatesAt(p, y) : Settled(r, FlushGroup(a))
  BY FlushSettles
<1>5. /\ b.labels = Append(kept, x) /\ b.rates = <<>> /\ b.groups = FlushGroup(a)
      /\ b.parent = IF doc[x].apprentice THEN x ELSE a.parent
      /\ b.notes = a.notes
  <2>1. a.rates = <<>> => FlushGroup(a) = a.groups
    BY DEF FlushGroup
  <2>2. DOMAIN a = {"labels", "rates", "parent", "band", "groups", "notes"}
    BY <1>1 DEF Sheets
  <2>3. CASE a.rates = <<>>
    BY <2>1, <2>2, <2>3 DEF TakeLabel
  <2>4. CASE a.rates # <<>>
    BY <2>2, <2>4 DEF TakeLabel
  <2> QED
    BY <2>3, <2>4
<1>6. b \in Sheets
  <2>1. ParseLine(a, x) = b
    BY DEF ParseLine
  <2> QED
    BY <1>1, <1>2, <2>1, ParseLineType
<1> HIDE DEF b, y
<1>7. LabelsAt(p, x) = LabelsAt(p, y) \cup {x}
  BY <1>3 DEF LabelsAt
<1>8. LastOf(LabelsAt(p, x)) = x
  <2> DEFINE new == LastOf(LabelsAt(p, x))
  <2>1. new \in 0..x /\ \A k \in LabelsAt(p, x) : k <= new
    BY <1>2, LastLabels
  <2>2. x \in LabelsAt(p, x)
    BY <1>7
  <2> HIDE DEF new
  <2>3. new = x
    BY <1>2, <2>1, <2>2
  <2> QED
    BY <2>3 DEF new
<1>9. Range(b.labels) = OwnAt(p, x)
  <2>1. kept \in Seq(DocLine) /\ Range(kept) = IF a.rates = <<>> THEN OwnAt(p, y) ELSE {}
    <3>1. <<>> \in Seq(DocLine) /\ Range(<<>>) = {}
      BY EmptySeq DEF Range
    <3>2. CASE a.rates = <<>>
      BY <1>1, <3>2
    <3>3. CASE a.rates # <<>>
      BY <3>1, <3>3
    <3> QED
      BY <3>2, <3>3
  <2>2. Range(b.labels) = Range(kept) \cup {x}
    <3> HIDE DEF kept
    <3>1. Range(Append(kept, x)) = Range(kept) \cup {x}
      BY <1>2, <2>1, AppendSays
    <3> QED
      BY <1>5, <3>1
  <2>3. OwnAt(p, x) = {k \in LabelsAt(p, y) \cup {x} : \A m \in k..x : doc[m].kind # "rates"}
    BY <1>7, <1>8 DEF OwnAt
  <2>4. x \in OwnAt(p, x)
    BY <1>2, <2>3
  <2>5. old \in 0..y /\ \A k \in LabelsAt(p, y) : k \in p + 1..y /\ k <= old
    BY <1>2, LastLabels DEF LabelsAt
  <2>6. LinesOfRows(a.rates) = {} <=> a.rates = <<>>
    BY <1>1, RowsAre
  <2>7. CASE a.rates = <<>>
    <3>1. \A r \in RatesAt(p, y) : ~(old < r)
      BY <1>1, <2>6, <2>7
    <3>2. ASSUME NEW k \in LabelsAt(p, y)
          PROVE  (\A m \in k..x : doc[m].kind # "rates") <=> (\A m \in k..old : doc[m].kind # "rates")
      <4>1. \A m \in k..x : m \in k..old \/ m = x \/ (m \in p + 1..y /\ old < m)
        BY <1>2, <2>5 DEF y
      <4>2. \A m \in k..old : m \in k..x
        BY <1>2, <2>5 DEF y
      <4>3. \A m \in p + 1..y : old < m => doc[m].kind # "rates"
        BY <3>1 DEF RatesAt
      <4> QED
        BY <4>1, <4>2, <4>3
    <3>3. OwnAt(p, x) = OwnAt(p, y) \cup {x}
      BY <2>3, <2>4, <3>2 DEF OwnAt
    <3> QED
      BY <2>1, <2>2, <2>7, <3>3
  <2>8. CASE a.rates # <<>>
    <3>1. PICK r \in RatesAt(p, y) : old < r
      BY <1>1, <2>6, <2>8
    <3>2. r \in p + 1..y /\ doc[r].kind = "rates"
      BY <3>1 DEF RatesAt
    <3>3. \A k \in LabelsAt(p, y) : r \in k..x
      BY <1>2, <2>5, <3>1, <3>2 DEF y
    <3>4. OwnAt(p, x) = {x}
      BY <2>3, <2>4, <3>2, <3>3
    <3> QED
      BY <2>1, <2>2, <2>8, <3>4
  <2> QED
    BY <2>7, <2>8
<1>10. b.parent = LastOf(TradesAt(p, x))
  <2>1. TradesAt(p, x) = TradesAt(p, y) \cup (IF doc[x].apprentice THEN {x} ELSE {})
    BY <1>7 DEF TradesAt
  <2>2. CASE doc[x].apprentice
    <3>1. x \in TradesAt(p, x)
      BY <2>1, <2>2
    <3>2. LastOf(TradesAt(p, x)) \in 0..x /\ \A k \in TradesAt(p, x) : k <= LastOf(TradesAt(p, x))
      BY <1>2, LastLabels
    <3> QED
      BY <1>2, <1>5, <2>2, <3>1, <3>2
  <2>3. CASE ~doc[x].apprentice
    BY <1>1, <1>5, <2>1, <2>3
  <2> QED
    BY <2>2, <2>3
<1>11. LinesOfRows(b.rates) = {} /\ \A r \in RatesAt(p, x) : ~(x < r)
  <2>1. <<>> \in Seq(RateRows)
    BY EmptySeq
  <2>2. LinesOfRows(<<>>) = {}
    BY <2>1, RowsAre
  <2> QED
    BY <1>2, <1>5, <2>2 DEF RatesAt
<1>12. GroupsWithin(b.groups, p + 1..x)
  BY <1>3, <1>4, <1>5, MoreWithin
<1>13. \A r \in RatesAt(p, x) : r \in RatesAt(p, y)
  BY <1>3 DEF RatesAt
<1> QED
  BY <1>1, <1>3, <1>4, <1>5, <1>6, <1>8, <1>9, <1>10, <1>11, <1>12, <1>13 DEF SheetAt, b

LEMMA SheetStep ==
    ASSUME IsDocument(doc), NEW p \in DocLine, doc[p].kind = "page", NEW x \in LinesOfPage(p),
           x - 1 \in DocLine \cup {p}, p + 1..x - 1 \subseteq LinesOfPage(p), NEW a, SheetAt(a, p, x - 1)
    PROVE  SheetAt(ParseLine(a, x), p, x)
<1> DEFINE b == ParseLine(a, x)
<1>1. x \in DocLine /\ p \in Nat /\ x \in Nat /\ p < x
  BY OnPage, DocumentLines
<1>2. a \in Sheets /\ a.notes \in Seq(DocLine) /\ a.rates \in Seq(RateRows) /\ a.band \in SUBSET Keywords
  BY DEF SheetAt, Sheets
<1>3. b \in Sheets
  BY <1>1, <1>2, ParseLineType
<1>4. DOMAIN a = {"labels", "rates", "parent", "band", "groups", "notes"}
  BY <1>2 DEF Sheets
<1>5. CASE doc[x].kind = "label"
  <2>1. b = TakeLabel(a, x)
    BY <1>5 DEF ParseLine
  <2> QED
    BY <1>5, <2>1, SheetLabel
<1>6. CASE doc[x].kind = "rates"
  <2> DEFINE row == RateRow(x, a.band)
  <2>1. b = [a EXCEPT !.rates = Append(@, row)]
    BY <1>6 DEF ParseLine
  <2>2. row \in RateRows /\ row.line = x
    <3>1. x \in Dated
      BY <1>1, <1>6 DEF Dated
    <3>2. row \in RateRows
      BY <1>2, <3>1 DEF RateRows
    <3> QED
      BY <3>2 DEF RateRow
  <2> HIDE DEF row, b
  <2>3. /\ b.labels = a.labels /\ b.parent = a.parent /\ b.groups = a.groups /\ b.notes = a.notes
        /\ b.rates = Append(a.rates, row)
    BY <1>4, <2>1
  <2>4. LinesOfRows(Append(a.rates, row)) = LinesOfRows(a.rates) \cup {x}
    BY <1>2, <2>2, RowsAre
  <2>5. SheetAt(b, p, x)
    BY <1>1, <1>3, <1>6, <2>3, <2>4, SheetPast
  <2> QED
    BY <2>5 DEF b
<1>7. CASE doc[x].kind = "band"
  <2>1. b = [a EXCEPT !.band = @ \cup doc[x].keywords]
    BY <1>7 DEF ParseLine
  <2> HIDE DEF b
  <2>2. /\ b.labels = a.labels /\ b.parent = a.parent /\ b.groups = a.groups /\ b.notes = a.notes
        /\ b.rates = a.rates
    BY <1>4, <2>1
  <2>3. SheetAt(b, p, x)
    BY <1>1, <1>3, <1>7, <2>2, SheetPast
  <2> QED
    BY <2>3 DEF b
<1>8. CASE doc[x].kind \notin {"band", "rates", "label"}
  <2>1. b = [a EXCEPT !.notes = Append(@, x)]
    BY <1>8 DEF ParseLine
  <2> HIDE DEF b
  <2>2. /\ b.labels = a.labels /\ b.parent = a.parent /\ b.groups = a.groups
        /\ b.rates = a.rates /\ b.notes = Append(a.notes, x)
    BY <1>4, <2>1
  <2>3. Range(b.notes) = Range(a.notes) \cup {x}
    BY <1>1, <1>2, <2>2, AppendSays
  <2>4. SheetAt(b, p, x)
    BY <1>1, <1>3, <1>8, <2>2, <2>3, SheetPast
  <2> QED
    BY <2>4 DEF b
<1> QED
  BY <1>5, <1>6, <1>7, <1>8

\* The lines of a page, one after the other.
LEMMA PageInOrder ==
    ASSUME IsDocument(doc), NEW p \in DocLine, NEW e \in p..Len(doc), LinesOfPage(p) = p + 1..e
    PROVE  /\ InOrder(LinesOfPage(p)) \in Seq(DocLine) /\ Len(InOrder(LinesOfPage(p))) = e - p
           /\ \A n \in 1..e - p : InOrder(LinesOfPage(p))[n] = p + n
<1> DEFINE S == p + 1..e
           key == [l \in S |-> l]
<1>1. p \in Nat /\ e \in Nat /\ Len(doc) \in Nat /\ S \in SUBSET DocLine
  BY DocumentLines DEF DocLine
<1>2. Keyed(S, key)
  <2>1. IsFiniteSet(S) /\ S \subseteq Int
    BY <1>1, FS_Interval
  <2> QED
    BY <2>1 DEF Keyed
<1>0. \A m \in p..e : Cardinality(p + 1..m) = m - p
  <2> SUFFICES ASSUME NEW m \in p..e PROVE Cardinality(p + 1..m) = m - p
    OBVIOUS
  <2>1. PICK l : l = p + 1
    OBVIOUS
  <2>2. l \in Int /\ m \in Int
    BY <1>1, <2>1
  <2>3. Cardinality(l..m) = IF l > m THEN 0 ELSE m - l + 1
    BY <2>2, FS_Interval
  <2>4. Cardinality(l..m) = m - p
    BY <1>1, <2>1, <2>3
  <2> QED
    BY <2>1, <2>4
<1>3. Cardinality(S) = e - p
  BY <1>0, <1>1
<1>4. InOrder(S) \in Seq(DocLine) /\ Len(InOrder(S)) = e - p
  <2> HIDE DEF S
  <2> QED
    BY <1>1, <1>3, InOrderLists
<1>5. ASSUME NEW n \in 1..e - p PROVE InOrder(S)[n] = p + n
  <2>1. p + n \in S /\ p + n \in Int /\ p + 1 \in Int
    BY <1>1
  <2>2. UpTo(S, key, p + n) = p + 1..p + n
    BY <1>1, <2>1 DEF UpTo
  <2>3. Cardinality(p + 1..p + n) = p + n - p
    BY <1>0, <1>1, <2>1
  <2>4. Cardinality(UpTo(S, key, p + n)) = n
    BY <1>1, <2>2, <2>3
  <2>5. Ordered(S, key)[Cardinality(UpTo(S, key, p + n))] = p + n
    BY <1>2, <2>1, OrderedLists
  <2> QED
    BY <2>4, <2>5 DEF InOrder
<1> QED
  BY <1>4, <1>5

\* The page at marker p as it was read: its own lines, and if it is one of rates each
\* rate with its labels, once.
OfPage(p, q) == GroupsWithin(q.groups, LinesOfPage(p)) /\ Range(q.notes) \subseteq LinesOfPage(p)

RatesRead(p, q) ==
    /\ \A l \in Range(q.notes) : doc[l].kind \notin {"rates", "label"}
    /\ \A i \in 1..Len(q.groups) : GroupTrue(q.groups[i])
    /\ \A r \in LinesOfPage(p) : doc[r].kind = "rates" => Settled(r, q.groups)

LEMMA EmptySheet ==
    ASSUME NEW p \in DocLine, EmptyPage \in Sheets
    PROVE  SheetAt(EmptyPage, p, p)
<1>1. p \in Nat /\ p + 1..p = {}
  BY DEF DocLine
<1>2. LabelsAt(p, p) = {} /\ TradesAt(p, p) = {} /\ OwnAt(p, p) = {} /\ RatesAt(p, p) = {}
  BY <1>1 DEF LabelsAt, TradesAt, OwnAt, RatesAt
<1>3. Range(<<>>) = {} /\ LinesOfRows(<<>>) = {} /\ LastOf({}) = 0 /\ Len(<<>>) = 0
  BY DEF Range, LinesOfRows, LastOf
<1>4. /\ EmptyPage.labels = <<>> /\ EmptyPage.rates = <<>> /\ EmptyPage.parent = 0
      /\ EmptyPage.groups = <<>> /\ EmptyPage.notes = <<>>
  BY DEF EmptyPage, NoLabel
<1> HIDE DEF EmptyPage
<1> QED
  BY <1>2, <1>3, <1>4 DEF SheetAt, GroupsWithin

LEMMA PageRead ==
    ASSUME IsDocument(doc), NEW p \in DocLine, doc[p].kind = "page", NEW reading
    PROVE  /\ OfPage(p, ParseText(p, reading))
           /\ reading = "whole" /\ ~(form[PageNumber(p)].part > 1) => RatesRead(p, ParseText(p, reading))
<1> DEFINE lines == LinesShown(p, reading)
           N == Len(lines)
           further == form[PageNumber(p)].part > 1
           q == ParseText(p, reading)
<1>2. PICK e \in p..Len(doc) : LinesOfPage(p) = p + 1..e
  BY PageRuns
<1>3. /\ p \in Nat /\ e \in Nat /\ N \in 0..e - p /\ (reading = "whole" => N = e - p)
      /\ lines \in Seq(DocLine) /\ \A n \in 1..N : lines[n] = p + n
  <2>1. p \in Nat /\ e \in Nat
    BY DocumentLines
  <2>2. lines \in Seq(DocLine)
    BY LineByLine
  <2>3. CASE reading = "whole"
    <3>1. lines = InOrder(LinesOfPage(p))
      BY <2>3 DEF LinesShown
    <3> HIDE DEF lines
    <3>2. N = e - p /\ \A n \in 1..e - p : lines[n] = p + n
      BY <1>2, <3>1, PageInOrder
    <3> QED
      BY <2>1, <2>2, <2>3, <3>2
  <2>4. CASE reading # "whole"
    <3>1. N = 0
      BY <2>4 DEF LinesShown
    <3> QED
      BY <2>1, <2>2, <2>4, <3>1
  <2> QED
    BY <2>3, <2>4
<1>4. PICK read \in [0..N -> Sheets] : ReadBy(read, p, lines, q)
  BY LineByLine
<1>5. EmptyPage \in Sheets
  BY LineByLine
<1>16. /\ read[0] = EmptyPage /\ \A n \in 1..N : read[n] = ParseLine(read[n - 1], lines[n])
       /\ q = IF further THEN [groups |-> <<>>, notes |-> lines]
              ELSE [groups |-> FlushGroup(read[N]), notes |-> read[N].notes]
  BY <1>4 DEF ReadBy
<1> HIDE DEF N, further, q, lines
<1> DEFINE P == {n \in 0..N : SheetAt(read[n], p, p + n)}
<1>6. 0 \in P
  <2>1. p + 0 = p /\ 0 \in 0..N
    BY <1>3
  <2> QED
    BY <1>5, <1>16, <2>1, EmptySheet
<1>7. ASSUME NEW n \in 1..N, n - 1 \in P PROVE n \in P
  <2>1. PICK x : x = p + n
    OBVIOUS
  <2>2. /\ n \in 0..N /\ x - 1 = p + (n - 1) /\ x \in p + 1..e /\ lines[n] = x /\ x - 1 \in p..e
        /\ p + 1..x - 1 \subseteq p + 1..e
    BY <1>3, <2>1
  <2>3. x - 1 \in DocLine \cup {p}
    BY <1>3, <2>2 DEF DocLine
  <2>4. SheetAt(read[n - 1], p, x - 1)
    BY <1>7, <2>2
  <2>5. SheetAt(ParseLine(read[n - 1], x), p, x)
    BY <1>2, <2>2, <2>3, <2>4, SheetStep
  <2> QED
    BY <1>16, <2>1, <2>2, <2>5
<1>8. N \in P
  <2> HIDE DEF P
  <2>1. \A n \in 0..N : n \in P
    <3>1. N \in Nat /\ \A n \in 1..N : n - 1 \in P => n \in P
      BY <1>3, <1>7
    <3> QED
      BY <1>6, <3>1, Induction
  <2> QED
    BY <1>3, <2>1
<1>9. PICK last, x : last = read[N] /\ x = p + N
  OBVIOUS
<1>10. SheetAt(last, p, x)
  BY <1>8, <1>9
<1>11. p + 1..x \subseteq p + 1..e /\ (reading = "whole" => x = e) /\ x \in DocLine \cup {p}
  <2>1. x \in p..e
    BY <1>3, <1>9
  <2> QED
    BY <1>3, <1>9, <2>1 DEF DocLine
<1>12. /\ GroupsWithin(FlushGroup(last), p + 1..x)
       /\ (\A i \in 1..Len(FlushGroup(last)) : GroupTrue(FlushGroup(last)[i]))
       /\ \A r \in RatesAt(p, x) : Settled(r, FlushGroup(last))
  BY <1>2, <1>10, <1>11, FlushSettles
<1>13. \A l \in Range(last.notes) : l \in p + 1..x /\ doc[l].kind \notin {"rates", "label"}
  BY <1>10 DEF SheetAt
<1>14. CASE further
  <2>1. q.groups = <<>> /\ q.notes = lines
    BY <1>14, <1>16
  <2>2. Range(lines) = {lines[n] : n \in 1..N}
    BY <1>3, Places1 DEF N
  <2>3. Range(lines) \subseteq p + 1..e
    BY <1>3, <2>2
  <2>4. GroupsWithin(<<>>, LinesOfPage(p))
    BY DEF GroupsWithin
  <2> QED
    BY <1>2, <1>14, <2>1, <2>3, <2>4 DEF OfPage, further, q
<1>15. CASE ~further
  <2>1. q.groups = FlushGroup(last) /\ q.notes = last.notes
    BY <1>9, <1>15, <1>16
  <2>2. OfPage(p, q)
    <3>1. GroupsWithin(FlushGroup(last), p + 1..e)
      BY <1>11, <1>12, MoreWithin
    <3>2. \A l \in Range(last.notes) : l \in p + 1..e
      BY <1>11, <1>13
    <3> QED
      BY <1>2, <2>1, <3>1, <3>2 DEF OfPage
  <2>3. reading = "whole" => RatesRead(p, q)
    BY <1>2, <1>11, <1>12, <1>13, <2>1 DEF RatesRead, RatesAt
  <2> QED
    BY <2>2, <2>3 DEF q, further
<1> QED
  BY <1>14, <1>15

-----------------------------------------------------------------------------
(* The pages of a form                                                     *)

ReadAt(p, q) == OfPage(p, q) /\ (BodyRead(p) /\ RatesPage(p) => RatesRead(p, q))

\* The pages in ps are pages of the document before line n, each once, and no page
\* whose body the parser sees is missing.
ReadFrom(f, ps, n) ==
    /\ \A i, j \in 1..Len(ps) : f[i] = f[j] => i = j
    /\ \A i \in 1..Len(ps) : f[i] < n /\ doc[f[i]].kind = "page" /\ ReadAt(f[i], ps[i].read)
    /\ \A p \in DocLine : p < n /\ doc[p].kind = "page" /\ BodyRead(p) =>
                            \E i \in 1..Len(ps) : f[i] = p

\* A form begins with a page, and its pages were read as they should be.
FormKept ==
    path = "wage" =>
      /\ 1 < pos /\ doc # <<>> => doc[1].kind = "page"
      /\ \E f \in [1..Len(parsed) -> DocLine] : ReadFrom(f, parsed, pos)

LEMMA SameReading ==
    ASSUME doc' = doc, form' = form
    PROVE  \A f : ReadFrom(f, parsed, pos)' = ReadFrom(f, parsed', pos')
<1>1. DocLine' = DocLine /\ \A p : LinesOfPage(p)' = LinesOfPage(p)
  BY SameDocument DEF LinesOfPage
<1>2. \A p : BodyRead(p)' = BodyRead(p) /\ RatesPage(p)' = RatesPage(p)
  BY DEF BodyRead, RatesPage, PageNumber
<1>3. \A l : PageOf(l)' = PageOf(l)
  BY DEF PageOf
<1>4. \A p, x : LabelsAt(p, x)' = LabelsAt(p, x) /\ TradesAt(p, x)' = TradesAt(p, x) /\ OwnAt(p, x)' = OwnAt(p, x)
  BY DEF LabelsAt, TradesAt, OwnAt
<1>5. \A p, x : UnderAt(p, x)' = UnderAt(p, x)
  BY <1>4 DEF UnderAt
<1>6. \A l : LabelsOf(l)' = LabelsOf(l)
  <2> SUFFICES ASSUME NEW l PROVE LabelsOf(l)' = LabelsOf(l)
    OBVIOUS
  <2>1. LabelsOf(l) = UnderAt(PageOf(l), l - 1)
    BY LabelsAre
  <2>2. LabelsOf(l)' = UnderAt(PageOf(l), l - 1)'
    <3>1. Before(l, LAMBDA k : doc[k].kind = "label")' = LabelsAt(PageOf(l), l - 1)'
      BY DEF Before, LabelsAt
    <3> QED
      BY <3>1 DEF LabelsOf, UnderAt, OwnAt, TradesAt
  <2>3. UnderAt(PageOf(l), l - 1)' = UnderAt(PageOf(l), l - 1)
    BY <1>3, <1>5
  <2> QED
    BY <2>1, <2>2, <2>3
<1>7. \A g : GroupTrue(g)' = GroupTrue(g)
  BY <1>6 DEF GroupTrue
<1>8. \A r, gs : Settled(r, gs)' = Settled(r, gs)
  BY <1>6 DEF Settled
<1>9. \A p, q : ReadAt(p, q)' = ReadAt(p, q)
  BY <1>1, <1>2, <1>7, <1>8 DEF ReadAt, OfPage, RatesRead
<1> QED
  BY <1>1, <1>2, <1>9 DEF ReadFrom

\* A page read as it should be is one more; a page left out is one the parser does not see.
LEMMA OnePageMore ==
    ASSUME IsDocument(doc), NEW ps \in Seq(FormPages), NEW f \in [1..Len(ps) -> DocLine],
           NEW n \in DocLine, doc[n].kind = "page", ReadFrom(f, ps, n),
           NEW m \in Nat, n < m, \A p \in DocLine : n < p /\ p < m => doc[p].kind # "page"
    PROVE  /\ ~BodyRead(n) => ReadFrom(f, ps, m)
           /\ \A page1 \in FormPages :
                ReadAt(n, page1.read) =>
                  \E g \in [1..Len(Append(ps, page1)) -> DocLine] : ReadFrom(g, Append(ps, page1), m)
<1> DEFINE k == Len(ps)
<1>1. k \in Nat /\ n \in Nat /\ DocLine \subseteq Nat
  <2> HIDE DEF FormPages
  <2> QED
    BY LenProperties, DocumentLines
<1> HIDE DEF k
<1>2. \A i \in 1..k : f[i] \in DocLine /\ f[i] \in Nat
  BY <1>1 DEF k
<1>3. /\ \A i, j \in 1..k : f[i] = f[j] => i = j
      /\ \A i \in 1..k : f[i] < n /\ doc[f[i]].kind = "page" /\ ReadAt(f[i], ps[i].read)
      /\ \A p \in DocLine : p < n /\ doc[p].kind = "page" /\ BodyRead(p) => \E i \in 1..k : f[i] = p
  BY DEF ReadFrom, k
<1>4. \A i \in 1..k : f[i] < m /\ f[i] # n
  BY <1>1, <1>2, <1>3
<1>5. \A p \in DocLine : p < m /\ doc[p].kind = "page" => p < n \/ p = n
  BY <1>1
<1>6. ~BodyRead(n) => ReadFrom(f, ps, m)
  BY <1>3, <1>4, <1>5 DEF ReadFrom, k
<1>7. ASSUME NEW page1 \in FormPages, ReadAt(n, page1.read)
      PROVE  \E g \in [1..Len(Append(ps, page1)) -> DocLine] : ReadFrom(g, Append(ps, page1), m)
  <2> DEFINE qs == Append(ps, page1)
             g == [i \in 1..k + 1 |-> IF i \in 1..k THEN f[i] ELSE n]
  <2>1. Len(qs) = k + 1 /\ qs[k + 1] = page1 /\ \A i \in 1..k : qs[i] = ps[i]
    <3> HIDE DEF FormPages
    <3> QED
      BY AppendProperties, LenProperties DEF k
  <2> HIDE DEF qs
  <2>2. g \in [1..k + 1 -> DocLine] /\ g[k + 1] = n /\ \A i \in 1..k : g[i] = f[i] /\ i \in 1..k + 1
    BY <1>1, <1>2
  <2> HIDE DEF g
  <2>3. (\A i \in 1..k + 1 : i \in 1..k \/ i = k + 1) /\ k + 1 \in 1..k + 1
    BY <1>1
  <2>4. \A i, j \in 1..k + 1 : g[i] = g[j] => i = j
    BY <1>3, <1>4, <2>2, <2>3
  <2>5. \A i \in 1..k + 1 : g[i] < m /\ doc[g[i]].kind = "page" /\ ReadAt(g[i], qs[i].read)
    BY <1>3, <1>4, <1>7, <2>1, <2>2, <2>3
  <2>6. \A p \in DocLine : p < m /\ doc[p].kind = "page" /\ BodyRead(p) => \E i \in 1..k + 1 : g[i] = p
    BY <1>3, <1>5, <2>2, <2>3
  <2>7. ReadFrom(g, qs, m)
    BY <2>1, <2>4, <2>5, <2>6 DEF ReadFrom
  <2> QED
    BY <2>1, <2>2, <2>7 DEF qs
<1> QED
  BY <1>6, <1>7

LEMMA WagePageForm ==
    ASSUME TypeInv, FormKept, WagePage
    PROVE  FormKept'
<1>1. path = "wage" /\ ParsePage /\ path' = path
  BY DEF WagePage
<1>2. /\ doc' = doc /\ form' = form /\ pos' = pos + 1 + Cardinality(LinesOfPage(pos)) /\ AtLine
      /\ doc[pos].kind = "page"
  BY <1>1 DEF ParsePage
<1>3. IsDocument(doc) /\ pos \in 1..Len(doc) + 2 /\ parsed \in Seq(FormPages)
  BY DEF TypeInv, Entered, Typed, FormRead
<1>4. Len(doc) \in Nat /\ pos \in DocLine /\ pos \in Nat
  BY <1>2, <1>3, DocumentLines DEF AtLine, DocLine
<1> DEFINE r == form[PageNumber(pos)]
           bare == r.part = 1 /\ ParseText(pos, r.layout).groups = <<>>
           reading == IF (r.layout = "none" \/ bare) /\ r.plain # "none" THEN r.plain ELSE r.layout
           new == [number |-> PageNumber(pos), read |-> ParseText(pos, reading)]
<1>5. parsed' = IF reading = "none" THEN parsed ELSE Append(parsed, new)
  BY <1>1 DEF ParsePage
<1>6. BodyRead(pos) => reading = "whole"
  BY <1>1, <1>2, <1>4, BodyIsRead
<1>7. new \in FormPages /\ new.read = ParseText(pos, reading)
  BY <1>3, <1>4, ParseTextType, PageNumberType DEF FormPages
<1> HIDE DEF reading
<1>8. ReadAt(pos, new.read)
  <2>1. OfPage(pos, ParseText(pos, reading))
    BY <1>2, <1>3, <1>4, PageRead
  <2>2. BodyRead(pos) /\ RatesPage(pos) => RatesRead(pos, ParseText(pos, reading))
    <3>1. RatesPage(pos) => ~(form[PageNumber(pos)].part > 1)
      BY DEF RatesPage
    <3> QED
      BY <1>2, <1>3, <1>4, <1>6, <3>1, PageRead
  <2> QED
    BY <1>7, <2>1, <2>2 DEF ReadAt
<1> HIDE DEF new
<1>9. pos' \in Nat /\ pos < pos' /\ \A p \in DocLine : pos < p /\ p < pos' => doc[p].kind # "page"
  <2>1. PICK e \in pos..Len(doc) : /\ Cardinality(LinesOfPage(pos)) = e - pos
                                   /\ \A k \in pos + 1..e : doc[k].kind # "page"
    BY <1>3, <1>4, PageRuns
  <2>2. pos' = e + 1
    BY <1>2, <1>4, <2>1
  <2> QED
    BY <1>4, <2>1, <2>2 DEF DocLine
<1>10. PICK f \in [1..Len(parsed) -> DocLine] : ReadFrom(f, parsed, pos)
  BY <1>1 DEF FormKept
<1>11. \E g \in [1..Len(parsed') -> DocLine] : ReadFrom(g, parsed', pos')
  <2>1. CASE reading = "none"
    <3>1. ReadFrom(f, parsed, pos')
      BY <1>2, <1>3, <1>4, <1>6, <1>9, <1>10, <2>1, OnePageMore
    <3> QED
      BY <1>5, <2>1, <3>1
  <2>2. CASE reading # "none"
    <3>1. \E g \in [1..Len(Append(parsed, new)) -> DocLine] : ReadFrom(g, Append(parsed, new), pos')
      BY <1>2, <1>3, <1>4, <1>7, <1>8, <1>9, <1>10, OnePageMore
    <3> QED
      BY <1>5, <2>2, <3>1
  <2> QED
    BY <2>1, <2>2
<1>12. doc # <<>> => doc[1].kind = "page"
  <2>1. CASE pos = 1
    BY <1>2, <2>1
  <2>2. CASE pos # 1
    <3>1. 1 < pos
      BY <1>3, <1>4, <2>2
    <3> QED
      BY <1>1, <3>1 DEF FormKept
  <2> QED
    BY <2>1, <2>2
<1>13. DocLine' = DocLine
  BY <1>2, SameDocument
<1>14. \A g : ReadFrom(g, parsed, pos)' = ReadFrom(g, parsed', pos')
  BY <1>2, SameReading
<1> QED
  BY <1>2, <1>11, <1>12, <1>13, <1>14 DEF FormKept

LEMMA SameForm ==
    ASSUME FormKept, path' = path, doc' = doc, form' = form, parsed' = parsed,
           pos' = pos \/ (TypeInv /\ pos = Len(doc) + 1 /\ pos' = pos + 1)
    PROVE  FormKept'
<1>1. DocLine' = DocLine
  BY SameDocument
<1>2. \A f : ReadFrom(f, parsed, pos)' = ReadFrom(f, parsed', pos')
  BY SameReading
<1>3. CASE pos' = pos
  BY <1>1, <1>2, <1>3 DEF FormKept
<1>4. CASE TypeInv /\ pos = Len(doc) + 1 /\ pos' = pos + 1
  <2> SUFFICES ASSUME path = "wage" PROVE FormKept'
    BY DEF FormKept
  <2>1. IsDocument(doc) /\ Len(doc) \in Nat /\ DocLine = 1..Len(doc)
    BY <1>4, DocumentLines DEF TypeInv, Entered, DocLine
  <2>2. PICK f \in [1..Len(parsed) -> DocLine] : ReadFrom(f, parsed, pos)
    BY DEF FormKept
  <2>3. \A p \in DocLine : p < pos /\ p < pos'
    BY <1>4, <2>1
  <2>4. \A i \in 1..Len(parsed) : f[i] \in DocLine
    OBVIOUS
  <2>5. ReadFrom(f, parsed, pos')
    BY <2>2, <2>3, <2>4 DEF ReadFrom
  <2>6. doc # <<>> => doc[1].kind = "page"
    <3>1. CASE Len(doc) = 0
      <4>1. doc \in Seq(Range(doc))
        BY <2>1 DEF IsDocument
      <4> QED
        BY <3>1, <4>1, EmptySeq
    <3>2. CASE Len(doc) # 0
      BY <1>4, <2>1, <3>2 DEF FormKept
    <3> QED
      BY <3>1, <3>2
  <2> QED
    BY <1>1, <1>2, <2>5, <2>6 DEF FormKept
<1> QED
  BY <1>3, <1>4

LEMMA FormInit ==
    ASSUME IsDocument(doc), pos = 1, parsed = <<>>
    PROVE  FormKept
<1>1. Len(parsed) = 0 /\ 1..0 = {}
  BY EmptySeq
<1> DEFINE f == [i \in 1..0 |-> 1]
<1>2. f \in [1..Len(parsed) -> DocLine]
  BY <1>1
<1>3. \A p \in DocLine : ~(p < pos)
  BY DocumentLines DEF DocLine
<1>4. ReadFrom(f, parsed, pos)
  BY <1>1, <1>3 DEF ReadFrom
<1> HIDE DEF f
<1>5. \E g \in [1..Len(parsed) -> DocLine] : ReadFrom(g, parsed, pos)
  BY <1>2, <1>4
<1>6. ~(1 < pos)
  OBVIOUS
<1> QED
  BY <1>5, <1>6 DEF FormKept

LEMMA FormStep ==
    ASSUME TypeInv, FormKept, [Next]_vars
    PROVE  FormKept'
<1>1. CASE WagePage
  BY <1>1, WagePageForm
<1>2. CASE WageChunks
  <2>1. /\ path' = path /\ doc' = doc /\ form' = form /\ parsed' = parsed
        /\ pos = Len(doc) + 1 /\ pos' = pos + 1
    BY <1>2 DEF WageChunks, BuildWageChunks, AllParsed
  <2> QED
    BY <2>1, SameForm
<1>3. CASE FallBack \/ ConvertColumns \/ Extract \/ Chunk
  <2>1. path' # "wage"
    BY <1>3 DEF FallBack, LegacyPath, ConvertColumns, Extract, Chunk
  <2> QED
    BY <2>1 DEF FormKept
<1>4. CASE Rest \/ UNCHANGED vars
  <2>1. path' = path /\ doc' = doc /\ form' = form /\ parsed' = parsed /\ pos' = pos
    BY <1>4 DEF Rest, vars, extractVars, formVars
  <2> QED
    BY <2>1, SameForm
<1> QED
  BY <1>1, <1>2, <1>3, <1>4 DEF Next

-----------------------------------------------------------------------------
(* One in a sequence of sequences                                          *)

NeverIn(s, H) == \A i \in 1..Len(s) : s[i] \notin H
OnceIn(s, H) == \E i \in 1..Len(s) : s[i] \in H /\ \A j \in 1..Len(s) : s[j] \in H => j = i

LEMMA JoinOnce ==
    ASSUME NEW A, NEW s \in Seq(A), NEW t \in Seq(A), NEW H
    PROVE  /\ NeverIn(s, H) /\ NeverIn(t, H) => NeverIn(s \o t, H)
           /\ OnceIn(s, H) /\ NeverIn(t, H) => OnceIn(s \o t, H)
           /\ NeverIn(s, H) /\ OnceIn(t, H) => OnceIn(s \o t, H)
<1> DEFINE m == Len(s)
           n == Len(t)
           u == s \o t
<1>1. /\ m \in Nat /\ n \in Nat /\ Len(u) = m + n
      /\ (\A i \in 1..m : u[i] = s[i]) /\ \A j \in 1..n : u[m + j] = t[j]
  BY ConcatProperties, LenProperties
<1> HIDE DEF m, n, u
<1>2. /\ \A i \in 1..Len(u) : i \in 1..m \/ (i - m \in 1..n /\ u[i] = t[i - m])
      /\ (\A i \in 1..m : i \in 1..Len(u)) /\ \A j \in 1..n : m + j \in 1..Len(u)
  <2>1. ASSUME NEW i \in 1..Len(u), i \notin 1..m PROVE i - m \in 1..n /\ u[i] = t[i - m]
    <3>1. PICK j : j = i - m
      OBVIOUS
    <3>2. j \in 1..n /\ i = m + j
      BY <1>1, <2>1, <3>1
    <3> QED
      BY <1>1, <3>1, <3>2
  <2> QED
    BY <1>1, <2>1
<1>3. NeverIn(s, H) /\ NeverIn(t, H) => NeverIn(u, H)
  BY <1>1, <1>2 DEF NeverIn, m, n
<1>4. ASSUME OnceIn(s, H), NeverIn(t, H) PROVE OnceIn(u, H)
  <2>1. PICK i \in 1..m : s[i] \in H /\ \A j \in 1..m : s[j] \in H => j = i
    BY <1>4 DEF OnceIn, m
  <2>2. \A j \in 1..Len(u) : u[j] \in H => j = i
    BY <1>1, <1>2, <1>4, <2>1 DEF NeverIn, n
  <2> QED
    BY <1>1, <1>2, <2>1, <2>2 DEF OnceIn
<1>5. ASSUME NeverIn(s, H), OnceIn(t, H) PROVE OnceIn(u, H)
  <2>1. PICK i \in 1..n : t[i] \in H /\ \A j \in 1..n : t[j] \in H => j = i
    BY <1>5 DEF OnceIn, n
  <2>2. PICK k : k = m + i
    OBVIOUS
  <2>3. ASSUME NEW j \in 1..Len(u), u[j] \in H PROVE j = k
    <3>1. j \notin 1..m
      BY <1>1, <1>5, <2>3 DEF NeverIn, m
    <3>2. j - m = i
      BY <1>2, <2>1, <2>3, <3>1
    <3> QED
      BY <1>1, <2>1, <2>2, <3>2
  <2>4. k \in 1..Len(u) /\ u[k] \in H
    BY <1>1, <1>2, <2>1, <2>2
  <2> QED
    BY <2>3, <2>4 DEF OnceIn
<1> QED
  BY <1>3, <1>4, <1>5 DEF u

LEMMA FlattenOnce ==
    ASSUME NEW A, NEW ss \in Seq(Seq(A)), NEW H
    PROVE  /\ (\A j \in 1..Len(ss) : NeverIn(ss[j], H)) => NeverIn(FlattenSeq(ss), H)
           /\ \A k \in 1..Len(ss) :
                OnceIn(ss[k], H) /\ (\A j \in 1..Len(ss) : j # k => NeverIn(ss[j], H))
                => OnceIn(FlattenSeq(ss), H)
<1> DEFINE n == Len(ss)
<1>1. n \in Nat /\ \A i \in 1..n : ss[i] \in Seq(A)
  BY LenProperties
<1>2. CASE ss = <<>>
  <2>1. FlattenSeq(ss) = <<>> /\ Len(ss) = 0 /\ Len(<<>>) = 0
    BY <1>2, EmptySeq DEF FlattenSeq
  <2> QED
    BY <2>1 DEF NeverIn
<1>3. CASE ss # <<>>
  <2>1. PICK f \in [1..n -> Seq(A)] : Joins(ss, f) /\ FlattenSeq(ss) = f[n]
    BY <1>3, JoinsOf
  <2>2. n # 0
    BY <1>3, EmptySeq
  <2> HIDE DEF n
  <2>3. n \in 1..n /\ 1 \in 1..n /\ f[1] = ss[1]
        /\ \A i \in 2..n : f[i] = f[i - 1] \o ss[i] /\ f[i - 1] \in Seq(A)
    <3>1. n \in 1..n /\ 1 \in 1..n /\ \A i \in 2..n : i \in 1..n /\ i # 1 /\ i - 1 \in 1..n
      BY <1>1, <2>2
    <3>2. f[1] = ss[1] /\ \A i \in 1..n : i # 1 => f[i] = f[i - 1] \o ss[i]
      BY <2>1, <3>1 DEF Joins, n
    <3> QED
      BY <2>1, <3>1, <3>2
  <2>4. ASSUME NEW k \in 0..n, k # 0 => OnceIn(ss[k], H),
               \A j \in 1..n : j # k => NeverIn(ss[j], H)
        PROVE  IF k = 0 THEN NeverIn(f[n], H) ELSE OnceIn(f[n], H)
    <3> DEFINE Good(i) == IF k = 0 \/ i < k THEN NeverIn(f[i], H) ELSE OnceIn(f[i], H)
               P == {i \in 0..n : i # 0 => Good(i)}
    <3>1. 0 \in P
      BY <1>1
    <3>2. ASSUME NEW i \in 1..n, i - 1 \in P PROVE i \in P
      <4>1. CASE i = 1
        <5>1. k = 0 \/ 1 < k => NeverIn(ss[1], H)
          BY <1>1, <2>3, <2>4
        <5>2. ~(k = 0 \/ 1 < k) => k = 1
          BY <1>1
        <5> QED
          BY <1>1, <2>3, <2>4, <4>1, <5>1, <5>2
      <4>2. CASE i # 1
        <5>1. i \in 2..n /\ i - 1 # 0 /\ Good(i - 1)
          BY <1>1, <3>2, <4>2
        <5>2. f[i] = f[i - 1] \o ss[i] /\ f[i - 1] \in Seq(A) /\ ss[i] \in Seq(A)
          BY <1>1, <2>3, <5>1
        <5>3. CASE k = 0 \/ i < k
          <6>1. NeverIn(f[i - 1], H) /\ NeverIn(ss[i], H)
            BY <1>1, <2>4, <5>1, <5>3
          <6>2. NeverIn(f[i], H)
            BY <5>2, <6>1, JoinOnce
          <6> QED
            BY <1>1, <5>3, <6>2
        <5>4. CASE k # 0 /\ i = k
          <6>1. NeverIn(f[i - 1], H) /\ OnceIn(ss[i], H)
            BY <1>1, <2>4, <5>1, <5>4
          <6>2. OnceIn(f[i], H)
            BY <5>2, <6>1, JoinOnce
          <6> QED
            BY <1>1, <5>4, <6>2
        <5>5. CASE k # 0 /\ k < i
          <6>1. OnceIn(f[i - 1], H) /\ NeverIn(ss[i], H)
            BY <1>1, <2>4, <5>1, <5>5
          <6>2. OnceIn(f[i], H)
            BY <5>2, <6>1, JoinOnce
          <6> QED
            BY <1>1, <5>5, <6>2
        <5> QED
          BY <1>1, <5>3, <5>4, <5>5
      <4> QED
        BY <4>1, <4>2
    <3> HIDE DEF P
    <3>3. \A i \in 0..n : i \in P
      BY <1>1, <3>1, <3>2, Induction
    <3>4. Good(n)
      BY <1>1, <2>2, <3>3 DEF P
    <3> QED
      BY <1>1, <3>4
  <2>5. (\A j \in 1..n : NeverIn(ss[j], H)) => NeverIn(f[n], H)
    <3> SUFFICES ASSUME \A j \in 1..n : NeverIn(ss[j], H) PROVE NeverIn(f[n], H)
      OBVIOUS
    <3>1. 0 \in 0..n
      BY <1>1
    <3> QED
      BY <2>4, <3>1
  <2>6. ASSUME NEW k \in 1..n, OnceIn(ss[k], H), \A j \in 1..n : j # k => NeverIn(ss[j], H)
        PROVE  OnceIn(f[n], H)
    <3>1. k \in 0..n /\ k # 0
      BY <1>1
    <3> QED
      BY <2>4, <2>6, <3>1
  <2> QED
    BY <2>1, <2>5, <2>6 DEF n
<1> QED
  BY <1>2, <1>3

-----------------------------------------------------------------------------
(* The chunks a line of rates is in                                        *)

\* The lines of a chunk are those it joins; a label or a line of rates has something
\* in it, so none of these is left out.
LEMMA LinesJoined ==
    ASSUME IsDocument(doc), NEW ls \in Seq(DocLine), NEW c, c.text = Joined(ls)
    PROVE  /\ LinesIn(c) \subseteq Range(ls)
           /\ \A l \in Range(ls) : doc[l].kind \in {"label", "rates"} => l \in LinesIn(c)
<1>1. /\ SolidIn(Joined(ls)) = UNION {SolidIn(CharsOf(l)) : l \in Range(ls)}
      /\ \A ch \in Range(Joined(ls)) : ch[2] \in Range(ls)
  BY JoinedSays
<1>2. LinesIn(c) \subseteq Range(ls)
  BY <1>1 DEF LinesIn
<1>3. ASSUME NEW l \in Range(ls), doc[l].kind \in {"label", "rates"} PROVE l \in LinesIn(c)
  <2>1. l \in DocLine /\ DOMAIN doc = DocLine
    BY Places1, DocumentLines
  <2>2. PICK i \in DOMAIN doc[l].text : doc[l].text[i] # "sp"
    BY <1>3, <2>1 DEF IsDocument
  <2>3. /\ doc[l].text \in Seq({"x", ".", "sp"}) /\ Len(doc[l].text) \in Nat
        /\ \A k \in 1..Len(doc[l].text) : doc[l].text[k] \in {"x", ".", "sp"}
    BY <2>1, DocumentLines
  <2>4. i \in 1..Len(doc[l].text)
    BY <2>2, <2>3
  <2>5. PICK ch : ch = <<doc[l].text[i], l, i>>
    OBVIOUS
  <2>6. ch \in Range(CharsOf(l))
    BY <2>4, <2>5 DEF CharsOf, Range
  <2>7. ~Blank(ch) /\ ch[2] = l
    BY <2>2, <2>3, <2>4, <2>5 DEF Blank
  <2>8. ch \in SolidIn(CharsOf(l))
    BY <2>6, <2>7 DEF SolidIn
  <2>9. ch \in SolidIn(Joined(ls))
    BY <1>1, <1>3, <2>8
  <2>10. ch \in Range(c.text)
    BY <2>9 DEF SolidIn
  <2> QED
    BY <2>7, <2>10 DEF LinesIn
<1> QED
  BY <1>2, <1>3

\* The chunk of a group: its labels and its lines of rates.
LEMMA GroupLines ==
    ASSUME IsDocument(doc), NEW g \in Groups, NEW number \in Nat
    PROVE  /\ LinesIn(GroupChunk(g, number)) \subseteq Range(g.labels) \cup RatesOf(g)
           /\ GroupTrue(g) => LinesIn(GroupChunk(g, number)) = Range(g.labels) \cup RatesOf(g)
<1> DEFINE dated == [i \in DOMAIN g.rates |-> g.rates[i].line]
           ls == g.labels \o dated
           c == GroupChunk(g, number)
<1>1. g.labels \in Seq(DocLine) /\ g.rates \in Seq(RateRows) /\ g.rates # <<>>
  BY DEF Groups
<1>2. /\ Len(g.rates) \in Nat \ {0} /\ DOMAIN g.rates = 1..Len(g.rates)
      /\ \A i \in 1..Len(g.rates) : g.rates[i] \in RateRows
  <2> HIDE DEF RateRows
  <2> QED
    BY <1>1, EmptySeq, Places1
<1>3. \A row \in RateRows : row.line \in DocLine
  BY DEF RateRows, RateRow, Dated
<1>4. dated \in Seq(DocLine) /\ Len(dated) = Len(g.rates) /\ Range(dated) = RatesOf(g)
  <2>1. dated \in Seq(DocLine) /\ Len(dated) = Len(g.rates)
    BY <1>2, <1>3
  <2>2. Range(dated) = RatesOf(g)
    BY <1>2 DEF Range, RatesOf, LinesOfRows
  <2> QED
    BY <2>1, <2>2
<1>5. GroupChunk(g, number) = WageChunk(ls, number, TRUE)
  BY DEF GroupChunk
<1> HIDE DEF dated
<1>6. /\ ls \in Seq(DocLine) /\ Len(ls) = Len(g.labels) + Len(dated) /\ Len(g.labels) \in Nat
      /\ Range(ls) = Range(g.labels) \cup RatesOf(g)
  <2>1. ls \in Seq(DocLine) /\ Len(ls) = Len(g.labels) + Len(dated) /\ Len(g.labels) \in Nat
    BY <1>1, <1>4, ConcatProperties, LenProperties
  <2>2. Range(ls) = Range(g.labels) \cup Range(dated)
    BY <1>1, <1>4, RangeConcatenation
  <2> QED
    BY <1>4, <2>1, <2>2
<1>7. ls # <<>>
  BY <1>2, <1>4, <1>6, EmptySeq
<1> HIDE DEF ls
<1>8. WageChunk(ls, number, TRUE).text = Joined(ls)
  BY <1>6, <1>7, WageChunkType
<1>9. c.text = Joined(ls)
  BY <1>5, <1>8
<1> HIDE DEF c
<1>10. /\ LinesIn(c) \subseteq Range(ls)
       /\ \A l \in Range(ls) : doc[l].kind \in {"label", "rates"} => l \in LinesIn(c)
  BY <1>6, <1>9, LinesJoined
<1>11. GroupTrue(g) => \A l \in Range(ls) : doc[l].kind \in {"label", "rates"}
  BY <1>6 DEF GroupTrue
<1> QED
  BY <1>6, <1>10, <1>11 DEF c

\* The chunk of a part of the notes: some of their lines.
LEMMA NoteLines ==
    ASSUME IsDocument(doc), NEW ls \in Seq(DocLine), NEW k \in 1..Len(NotesParts(ls)), NEW number \in Nat
    PROVE  LinesIn(WageChunk(NotesParts(ls)[k], number, FALSE)) \subseteq Range(ls)
<1> DEFINE ps == NotesParts(ls)
           part == ps[k]
           c == WageChunk(part, number, FALSE)
<1>1. ps \in NoteParts /\ \A l : InPart(l, ps) <=> l \in Range(ls)
  BY NotesPartsType
<1>2. Range(part) \subseteq Range(ls)
  BY <1>1 DEF InPart
<1>3. part \in Seq(DocLine) /\ part # <<>>
  <2>1. ps \in Seq(Seq(DocLine))
    BY <1>1 DEF NoteParts
  <2> HIDE DEF ps
  <2>2. ps[k] \in Seq(DocLine)
    BY <2>1, Places1 DEF ps
  <2>3. ps[k] # <<>>
    BY <1>1 DEF NoteParts, ps
  <2> QED
    BY <2>2, <2>3
<1> HIDE DEF part
<1>4. c.text = Joined(part)
  BY <1>3, WageChunkType
<1> HIDE DEF c
<1>5. LinesIn(c) \subseteq Range(part)
  BY <1>3, <1>4, LinesJoined
<1> QED
  BY <1>2, <1>5 DEF c, part

Holding(r) == {c \in Pieces : r \in LinesIn(c)}

\* A chunk that holds line r of rates: its labels, and rates with the same labels.
Held(c, r) ==
    /\ {l \in LinesIn(c) : doc[l].kind = "label"} = LabelsOf(r)
    /\ \A l \in LinesIn(c) : doc[l].kind = "rates" => LabelsOf(l) = LabelsOf(r)

LEMMA GroupHolds ==
    ASSUME IsDocument(doc), NEW g \in Groups, GroupTrue(g), NEW number \in Nat, NEW r \in DocLine,
           doc[r].kind = "rates"
    PROVE  /\ GroupChunk(g, number) \in Holding(r) <=> r \in RatesOf(g)
           /\ r \in RatesOf(g) => Held(GroupChunk(g, number), r)
<1> DEFINE c == GroupChunk(g, number)
<1>1. c \in Pieces
  BY GroupChunkType DEF FormPieces
<1>2. LinesIn(c) = Range(g.labels) \cup RatesOf(g)
  BY GroupLines
<1>3. /\ \A l \in Range(g.labels) : doc[l].kind = "label"
      /\ \A l \in RatesOf(g) : doc[l].kind = "rates" /\ LabelsOf(l) = Range(g.labels)
  BY DEF GroupTrue
<1> HIDE DEF c
<1>4. c \in Holding(r) <=> r \in RatesOf(g)
  BY <1>1, <1>2, <1>3 DEF Holding
<1>5. ASSUME r \in RatesOf(g) PROVE Held(c, r)
  <2>1. {l \in LinesIn(c) : doc[l].kind = "label"} = Range(g.labels)
    BY <1>2, <1>3
  <2> QED
    BY <1>2, <1>3, <1>5, <2>1 DEF Held
<1> QED
  BY <1>4, <1>5 DEF c

\* The chunks of a page hold no line of another, and each of its lines of rates once,
\* or not at all if it has no labels.
LEMMA PageHolds ==
    ASSUME IsDocument(doc), NEW q \in FormPages, NEW p
    PROVE  /\ OfPage(p, q.read) => \A r : r \notin LinesOfPage(p) => NeverIn(PageChunks(q), Holding(r))
           /\ RatesRead(p, q.read) =>
                \A r \in LinesOfPage(p) :
                  r \in DocLine /\ doc[r].kind = "rates" =>
                    /\ IF LabelsOf(r) = {} THEN NeverIn(PageChunks(q), Holding(r))
                       ELSE OnceIn(PageChunks(q), Holding(r))
                    /\ \A c \in Range(PageChunks(q)) : r \in LinesIn(c) => Held(c, r)
<1> DEFINE gs == q.read.groups
           ls == q.read.notes
           ps == NotesParts(ls)
           tables == [i \in DOMAIN gs |-> GroupChunk(gs[i], q.number)]
           notes == [i \in DOMAIN ps |-> WageChunk(ps[i], q.number, FALSE)]
<1>1. q.number \in Nat /\ gs \in Seq(Groups) /\ ls \in Seq(DocLine)
  BY DEF FormPages
<1>2. ps \in NoteParts
  BY <1>1, NotesPartsType
<1>3. ps \in Seq(Seq(DocLine))
  BY <1>2 DEF NoteParts
<1>4. PageChunks(q) = tables \o notes
  BY DEF PageChunks
<1> HIDE DEF ps, gs
<1>5. Len(gs) \in Nat /\ DOMAIN gs = 1..Len(gs) /\ \A i \in 1..Len(gs) : gs[i] \in Groups
  <2> HIDE DEF Groups
  <2> QED
    BY <1>1, Places1
<1>6. Len(ps) \in Nat /\ DOMAIN ps = 1..Len(ps)
  BY <1>3, Places1
<1>7. /\ tables \in Seq(Pieces) /\ Len(tables) = Len(gs)
      /\ \A i \in 1..Len(gs) : tables[i] = GroupChunk(gs[i], q.number)
  <2>1. \A i \in 1..Len(gs) : GroupChunk(gs[i], q.number) \in Pieces
    BY <1>1, <1>5, GroupChunkType DEF FormPieces
  <2> HIDE DEF Pieces
  <2> QED
    BY <1>5, <2>1
<1>8. /\ notes \in Seq(Pieces) /\ Len(notes) = Len(ps)
      /\ \A i \in 1..Len(ps) : notes[i] = WageChunk(ps[i], q.number, FALSE)
  <2> DEFINE Chunk1(i) == WageChunk(ps[i], q.number, FALSE)
  <2>1. \A i \in 1..Len(ps) : Chunk1(i) \in Pieces
    BY <1>1, <1>2, NoteChunkType DEF FormPieces
  <2>2. notes = [i \in DOMAIN ps |-> Chunk1(i)]
    OBVIOUS
  <2> HIDE DEF Chunk1, notes, Pieces
  <2>3. notes \in Seq(Pieces) /\ Len(notes) = Len(ps) /\ \A i \in 1..Len(ps) : notes[i] = Chunk1(i)
    BY <1>6, <2>1, <2>2
  <2> QED
    BY <2>3 DEF Chunk1
<1> HIDE DEF tables, notes, Pieces
<1>9. Range(PageChunks(q)) = Range(tables) \cup Range(notes)
  BY <1>4, <1>7, <1>8, RangeConcatenation
<1>10. \A i \in 1..Len(ps) : LinesIn(notes[i]) \subseteq Range(ls)
  BY <1>1, <1>8, NoteLines DEF ps
<1>11. \A r : r \notin Range(ls) => NeverIn(notes, Holding(r))
  BY <1>8, <1>10 DEF NeverIn, Holding
<1>12. ASSUME OfPage(p, q.read), NEW r, r \notin LinesOfPage(p)
       PROVE  NeverIn(PageChunks(q), Holding(r))
  <2>1. NeverIn(notes, Holding(r))
    BY <1>11, <1>12 DEF OfPage
  <2>2. ASSUME NEW i \in 1..Len(gs) PROVE r \notin LinesIn(tables[i])
    <3>1. Range(gs[i].labels) \subseteq LinesOfPage(p) /\ RatesOf(gs[i]) \subseteq LinesOfPage(p)
      BY <1>12 DEF OfPage, GroupsWithin, gs
    <3>2. LinesIn(tables[i]) \subseteq Range(gs[i].labels) \cup RatesOf(gs[i])
      BY <1>1, <1>5, <1>7, GroupLines
    <3> QED
      BY <1>12, <3>1, <3>2
  <2>3. NeverIn(tables, Holding(r))
    BY <1>7, <2>2 DEF NeverIn, Holding
  <2> QED
    BY <1>4, <1>7, <1>8, <2>1, <2>3, JoinOnce
<1>13. ASSUME RatesRead(p, q.read), NEW r \in LinesOfPage(p), r \in DocLine, doc[r].kind = "rates"
       PROVE  /\ IF LabelsOf(r) = {} THEN NeverIn(PageChunks(q), Holding(r))
                 ELSE OnceIn(PageChunks(q), Holding(r))
              /\ \A c \in Range(PageChunks(q)) : r \in LinesIn(c) => Held(c, r)
  <2>1. /\ r \notin Range(ls) /\ Settled(r, gs) /\ \A i \in 1..Len(gs) : GroupTrue(gs[i])
    BY <1>13 DEF RatesRead, gs
  <2>2. NeverIn(notes, Holding(r))
    BY <1>11, <2>1
  <2>3. \A i \in 1..Len(gs) : /\ tables[i] \in Holding(r) <=> r \in RatesOf(gs[i])
                              /\ r \in RatesOf(gs[i]) => Held(tables[i], r)
    BY <1>1, <1>5, <1>7, <1>13, <2>1, GroupHolds
  <2>4. ASSUME LabelsOf(r) = {} PROVE NeverIn(PageChunks(q), Holding(r))
    <3>1. NeverIn(tables, Holding(r))
      BY <1>7, <2>1, <2>3, <2>4 DEF Settled, InNone, NeverIn
    <3> QED
      BY <1>4, <1>7, <1>8, <2>2, <3>1, JoinOnce
  <2>5. ASSUME LabelsOf(r) # {} PROVE OnceIn(PageChunks(q), Holding(r))
    <3>1. PICK i \in 1..Len(gs) : \A j \in 1..Len(gs) : r \in RatesOf(gs[j]) <=> j = i
      BY <2>1, <2>5 DEF Settled, InOne
    <3>2. OnceIn(tables, Holding(r))
      BY <1>7, <2>3, <3>1 DEF OnceIn
    <3> QED
      BY <1>4, <1>7, <1>8, <2>2, <3>2, JoinOnce
  <2>6. ASSUME NEW c \in Range(PageChunks(q)), r \in LinesIn(c) PROVE Held(c, r)
    <3>1. c \in Range(tables) \/ c \in Range(notes)
      BY <1>9
    <3>2. CASE c \in Range(notes)
      <4>1. PICK i \in 1..Len(notes) : c = notes[i]
        BY <1>8, <3>2, Places1
      <4> QED
        BY <1>8, <1>10, <2>1, <2>6, <4>1
    <3>3. CASE c \in Range(tables)
      <4>1. PICK i \in 1..Len(tables) : c = tables[i]
        BY <1>7, <3>3, Places1
      <4>2. c \in Pieces
        BY <1>7, <4>1, Places1
      <4> QED
        BY <1>7, <2>3, <2>6, <4>1, <4>2 DEF Holding
    <3> QED
      BY <3>1, <3>2, <3>3
  <2> QED
    BY <2>4, <2>5, <2>6
<1> QED
  BY <1>12, <1>13

\* In a document that begins with a page every line that is not a marker is on its page.
LEMMA LineOnPage ==
    ASSUME IsDocument(doc), NEW r \in DocLine, doc[r].kind # "page", doc[1].kind = "page"
    PROVE  PageOf(r) \in DocLine /\ doc[PageOf(r)].kind = "page" /\ r \in LinesOfPage(PageOf(r))
<1> DEFINE marks == {k \in 1..r : doc[k].kind = "page"}
           p == PageOf(r)
<1>1. Len(doc) \in Nat /\ r \in 1..Len(doc) /\ r \in Nat
  BY DocumentLines DEF DocLine
<1>2. marks \in SUBSET (1..r) /\ 1 \in marks
  BY <1>1
<1>3. IsFiniteSet(marks) /\ marks \subseteq Int
  BY <1>1, <1>2, SomePlaces
<1>4. p = Max(marks)
  BY DEF PageOf
<1>5. p \in marks /\ \A k \in marks : k <= p
  <2> HIDE DEF marks, p
  <2> QED
    BY <1>2, <1>3, <1>4, GreatestOf
<1>6. p \in 1..r /\ doc[p].kind = "page" /\ \A k \in 1..r : doc[k].kind = "page" => k <= p
  BY <1>5
<1> HIDE DEF p, marks
<1>7. p \in DocLine /\ p < r
  <2>1. p # r
    BY <1>6
  <2> QED
    BY <1>1, <1>6, <2>1 DEF DocLine
<1>8. PICK e \in p..Len(doc) : /\ LinesOfPage(p) = p + 1..e
                               /\ e < Len(doc) => doc[e + 1].kind = "page"
  BY <1>7, PageRuns
<1>9. r <= e
  <2> SUFFICES ASSUME ~(r <= e) PROVE FALSE
    OBVIOUS
  <2>1. PICK n : n = e + 1
    OBVIOUS
  <2>2. n \in 1..r /\ e < Len(doc) /\ p < n
    BY <1>1, <1>6, <1>8, <2>1
  <2>3. doc[n].kind = "page"
    BY <1>8, <2>1, <2>2
  <2> QED
    BY <1>6, <2>2, <2>3
<1>10. r \in LinesOfPage(p)
  BY <1>1, <1>6, <1>7, <1>8, <1>9
<1> QED
  BY <1>6, <1>7, <1>10 DEF p

\* A line held by one chunk, or by none, is in so many.
LEMMA HowMany ==
    ASSUME NEW s \in Seq(Pieces), NEW r
    PROVE  /\ NeverIn(s, Holding(r)) => Cardinality({i \in DOMAIN s : r \in LinesIn(s[i])}) = 0
           /\ OnceIn(s, Holding(r)) => Cardinality({i \in DOMAIN s : r \in LinesIn(s[i])}) = 1
<1> DEFINE holding == {i \in DOMAIN s : r \in LinesIn(s[i])}
<1>1. DOMAIN s = 1..Len(s) /\ \A i \in 1..Len(s) : s[i] \in Pieces
  <2> HIDE DEF Pieces
  <2> QED
    BY Places1
<1>2. holding = {i \in 1..Len(s) : s[i] \in Holding(r)}
  BY <1>1 DEF Holding
<1> HIDE DEF holding
<1>3. NeverIn(s, Holding(r)) => Cardinality(holding) = 0
  <2>1. NeverIn(s, Holding(r)) => holding = {}
    BY <1>2 DEF NeverIn
  <2> QED
    BY <2>1, FS_EmptySet
<1>4. OnceIn(s, Holding(r)) => Cardinality(holding) = 1
  <2> SUFFICES ASSUME OnceIn(s, Holding(r)) PROVE Cardinality(holding) = 1
    OBVIOUS
  <2>1. PICK i \in 1..Len(s) : holding = {i}
    BY <1>2 DEF OnceIn
  <2> QED
    BY <2>1, FS_Singleton
<1> QED
  BY <1>3, <1>4 DEF holding

LEMMA RatesStand ==
    ASSUME TypeInv, FormKept
    PROVE  RatesUnderLabels
<1>1. /\ IsDocument(doc) /\ Len(doc) \in Nat /\ DOMAIN doc = DocLine /\ DocLine = 1..Len(doc)
      /\ parsed \in Seq(FormPages) /\ out \in Seq(Pieces) /\ pos \in Nat
  BY DocumentLines DEF TypeInv, Entered, Typed, FormRead, DocLine
<1> SUFFICES ASSUME Finished, path = "wage", NEW r \in DocLine, doc[r].kind = "rates",
                    BodyRead(PageOf(r)), RatesPage(PageOf(r))
             PROVE  /\ Cardinality({i \in DOMAIN out : r \in LinesIn(out[i])})
                         = IF LabelsOf(r) = {} THEN 0 ELSE 1
                    /\ \A i \in DOMAIN out : r \in LinesIn(out[i]) => Held(out[i], r)
  BY <1>1 DEF RatesUnderLabels, Held
<1>2. Extracted /\ out = FormChunks
  BY DEF Finished, TypeInv, FormRead
<1>3. Len(doc) + 1 < pos /\ 1 < pos /\ r \in 1..Len(doc) /\ doc # <<>>
  <2>1. Len(doc) + 1 < pos /\ r \in 1..Len(doc)
    BY <1>1, <1>2 DEF Extracted
  <2>2. doc # <<>>
    BY <1>1, <2>1, EmptySeq
  <2> QED
    BY <1>1, <2>1, <2>2
<1>4. doc[1].kind = "page"
  BY <1>3 DEF FormKept
<1> DEFINE n == Len(parsed)
           p == PageOf(r)
<1>5. PICK f \in [1..n -> DocLine] : ReadFrom(f, parsed, pos)
  BY DEF FormKept
<1>6. p \in DocLine /\ doc[p].kind = "page" /\ r \in LinesOfPage(p)
  BY <1>1, <1>4, LineOnPage
<1>7. /\ n \in Nat /\ DOMAIN parsed = 1..n /\ \A i \in 1..n : parsed[i] \in FormPages
  <2> HIDE DEF FormPages
  <2> QED
    BY <1>1, Places1
<1> HIDE DEF n, p
<1>8. /\ \A i, j \in 1..n : f[i] = f[j] => i = j
      /\ \A i \in 1..n : doc[f[i]].kind = "page" /\ ReadAt(f[i], parsed[i].read)
      /\ \A m \in DocLine : m < pos /\ doc[m].kind = "page" /\ BodyRead(m) => \E i \in 1..n : f[i] = m
  BY <1>5 DEF ReadFrom, n
<1>9. PICK k \in 1..n : f[k] = p
  <2>1. p < pos
    BY <1>1, <1>3, <1>6
  <2>2. BodyRead(p)
    BY DEF p
  <2> QED
    BY <1>6, <1>8, <2>1, <2>2
<1>10. RatesRead(p, parsed[k].read)
  <2>1. BodyRead(p) /\ RatesPage(p)
    BY DEF p
  <2> QED
    BY <1>8, <1>9, <2>1 DEF ReadAt
<1>11. ASSUME NEW j \in 1..n, j # k PROVE r \notin LinesOfPage(f[j]) /\ OfPage(f[j], parsed[j].read)
  <2>1. f[j] # p /\ f[j] \in DocLine /\ doc[f[j]].kind = "page" /\ OfPage(f[j], parsed[j].read)
    BY <1>5, <1>8, <1>9, <1>11 DEF ReadAt
  <2>2. r \in LinesOfPage(f[j]) => PageOf(r) = f[j]
    BY <1>1, <2>1, OnPage
  <2> QED
    BY <2>1, <2>2 DEF p
<1> DEFINE cs == [i \in DOMAIN parsed |-> PageChunks(parsed[i])]
           s == FlattenSeq(cs)
           H == Holding(r)
<1>12. out = s
  BY <1>2 DEF FormChunks
<1>13. cs \in Seq(Seq(Pieces)) /\ Len(cs) = n /\ \A i \in 1..n : cs[i] = PageChunks(parsed[i])
  <2>1. \A i \in 1..n : PageChunks(parsed[i]) \in Seq(FormPieces)
    BY <1>1, <1>7, PageChunksType
  <2>2. FormPieces \subseteq Pieces
    BY DEF FormPieces
  <2> HIDE DEF FormPieces, Pieces, FormPages
  <2>3. \A i \in 1..n : PageChunks(parsed[i]) \in Seq(Pieces)
    BY <2>1, <2>2
  <2> DEFINE part(i) == PageChunks(parsed[i])
  <2>4. cs = [i \in 1..n |-> part(i)]
    BY <1>7
  <2>5. \A i \in 1..n : part(i) \in Seq(Pieces)
    BY <2>3
  <2> HIDE DEF part, cs
  <2>6. cs \in Seq(Seq(Pieces)) /\ Len(cs) = n /\ \A i \in 1..n : cs[i] = part(i)
    BY <1>7, <2>4, <2>5
  <2> QED
    BY <2>6 DEF part
<1> HIDE DEF cs, Pieces, FormPages, H, s
<1>14. \A j \in 1..n : j # k => NeverIn(cs[j], H)
  BY <1>1, <1>7, <1>11, <1>13, PageHolds DEF H
<1>15. /\ IF LabelsOf(r) = {} THEN NeverIn(cs[k], H) ELSE OnceIn(cs[k], H)
       /\ \A c \in Range(cs[k]) : r \in LinesIn(c) => Held(c, r)
  BY <1>1, <1>6, <1>7, <1>10, <1>13, PageHolds DEF H
<1>16. Cardinality({i \in DOMAIN out : r \in LinesIn(out[i])}) = IF LabelsOf(r) = {} THEN 0 ELSE 1
  <2>1. ASSUME LabelsOf(r) = {} PROVE NeverIn(s, H)
    <3>1. \A j \in 1..Len(cs) : NeverIn(cs[j], H)
      BY <1>13, <1>14, <1>15, <2>1
    <3> QED
      BY <1>13, <3>1, FlattenOnce DEF s
  <2>2. ASSUME LabelsOf(r) # {} PROVE OnceIn(s, H)
    <3>1. OnceIn(cs[k], H) /\ k \in 1..Len(cs) /\ \A j \in 1..Len(cs) : j # k => NeverIn(cs[j], H)
      BY <1>13, <1>14, <1>15, <2>2
    <3> QED
      BY <1>13, <3>1, FlattenOnce DEF s
  <2> QED
    BY <1>1, <1>12, <2>1, <2>2, HowMany DEF H
<1>17. ASSUME NEW i \in DOMAIN out, r \in LinesIn(out[i]) PROVE Held(out[i], r)
  <2>1. Range(out) = UNION {Range(cs[j]) : j \in 1..n} /\ out[i] \in Range(out) /\ out[i] \in Pieces
    <3>1. Range(s) = UNION {Range(cs[j]) : j \in 1..Len(cs)}
      BY <1>13, FlattenOf DEF s
    <3>2. out[i] \in Range(out) /\ out[i] \in Pieces
      BY <1>1, Places1
    <3> QED
      BY <1>12, <1>13, <3>1, <3>2
  <2>2. PICK j \in 1..n : out[i] \in Range(cs[j])
    BY <2>1
  <2>3. CASE j = k
    BY <1>15, <1>17, <2>2, <2>3
  <2>4. CASE j # k
    <3>1. cs[j] \in Seq(Pieces) /\ NeverIn(cs[j], H)
      BY <1>13, <1>14, <2>4, Places1
    <3>2. PICK m \in 1..Len(cs[j]) : out[i] = cs[j][m]
      BY <2>2, <3>1, Places1
    <3>3. out[i] \notin H
      BY <3>1, <3>2 DEF NeverIn
    <3> QED
      BY <1>17, <2>1, <3>3 DEF H, Holding
  <2> QED
    BY <2>3, <2>4
<1> QED
  BY <1>16, <1>17

\* A rate that is read is never another's (parse_wage_schedule_text, _flush_group,
\* _column_names, build_wage_chunks): on every page of rates the parser sees, whatever
\* its labels, trades, periods and rates and the order they are printed in, a dated line
\* is in the one chunk that carries the labels it is printed under and no rates of
\* others, and in none if no label stands before it; its columns are as many as its
\* amounts and all different, and amounts said to add up do so at the total.
THEOREM RatesTrueAlways == Spec => []RatesTrue
<1>1. Init => IInv /\ FormKept
  <2>1. Init => IInv
    BY InitKeeps DEF IInv
  <2>2. Init => pos = 1 /\ parsed = <<>>
    BY DEF Init
  <2>3. IInv => IsDocument(doc)
    BY DEF IInv, TypeInv, Entered
  <2> QED
    BY <2>1, <2>2, <2>3, FormInit
<1>2. IInv /\ FormKept /\ [Next]_vars => (IInv /\ FormKept)'
  <2>1. IInv => TypeInv
    BY DEF IInv
  <2> QED
    BY <2>1, StepKeeps, FormStep
<1>3. IInv /\ FormKept => RatesTrue
  <2>1. IInv => TypeInv
    BY DEF IInv
  <2> QED
    BY <2>1, RatesStand, RatesAreNamed DEF RatesTrue
<1> QED
  BY <1>1, <1>2, <1>3, PTL DEF Spec
=============================================================================

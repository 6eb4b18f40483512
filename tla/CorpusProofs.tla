---------------------------- MODULE CorpusProofs ----------------------------
(***************************************************************************)
(* The corpus behind the answers: what is in the two stores whatever runs  *)
(* overlap or die, and that working off a drift report makes it what the   *)
(* publisher shows.                                                        *)
(*                                                                         *)
(* What CorpusStore keeps true of rows and points, for every number of     *)
(* files, contents, chunks and overlapping runs.  The history raced says   *)
(* which runs of a file have overlapped; as long as none has, a run has    *)
(* its file for itself, and each property needs to say only what that run  *)
(* is in the middle of: a row it is about to insert (Inserting), a row it  *)
(* relies on (Relied), the points it has just deleted (Cleared), the rows  *)
(* it has still to delete (Listed), what it has written (Written).         *)
(*                                                                         *)
(* Why, in CorpusDrift, a report accounts for every difference once, and   *)
(* the store is what the page shows when it is worked off, for any number  *)
(* of files, dates of a schedule and pages.  The manifest keeps one entry  *)
(* for a link and one for a local name (Linked, Named); an item still open *)
(* speaks of files that no other item speaks of (Open), so that working it *)
(* off settles exactly the difference it stands for (Accounted).           *)
(***************************************************************************)
EXTENDS CorpusStore, CorpusDrift, FiniteSetTheorems, SequenceTheorems, TLAPS

-----------------------------------------------------------------------------
(* The two stores                                                          *)

\* What a process has at hand at each step.
AtHand(p) ==
    /\ pc[p] \in StoreSteps =>
         /\ ver[p] \in Version
         /\ \E n \in Name : names[p] = {n}
         /\ doc[p] # 0 => doc[p] \in DOMAIN born /\ born[doc[p]] \in names[p]
    /\ pc[p] \in {"idle", "select"} => doc[p] = 0
    /\ pc[p] \in {"delete", "upsert", "stored"} => doc[p] # 0
    /\ pc[p] = "idle" => pending[p] = {}
    /\ pc[p] = "row" => doc[p] \in pending[p]
    /\ pc[p] \in PurgeSteps => \A d \in pending[p] : d \in DOMAIN born /\ born[d] \in names[p]

\* Rows keep the name they were inserted under, and points belong to an id ever given.
Tied ==
    /\ \A r \in rows : r.id \in DOMAIN born /\ born[r.id] = r.name
    /\ \A r, s \in rows : r.id = s.id => r = s
    /\ \A d \in Id : points[d] # {} => d \in DOMAIN born
    /\ \A p \in Proc : AtHand(p)

Storing(p, n) == pc[p] \in StoreSteps /\ n \in names[p]
Purging(p, n) == pc[p] \in PurgeSteps /\ n \in names[p]

\* Runs that have not overlapped do not.
Apart ==
    \A n \in Name :
        /\ "store and store" \notin raced[n] =>
             \A p, q \in Proc : Storing(p, n) /\ Storing(q, n) => p = q
        /\ "store and purge" \notin raced[n] =>
             \A p, q \in Proc : ~(Storing(p, n) /\ Purging(q, n))

\* A store that found no row of its file is right to insert one.
Inserting ==
    \A n \in Name : "store and store" \notin raced[n] =>
        \A p \in Proc : Storing(p, n) /\ pc[p] = "write" /\ doc[p] = 0 => RowsOf({n}) = {}

\* A store's row is there until it has written the points; a purge has none left.
Relied ==
    \A n \in Name : "store and purge" \notin raced[n] =>
        \A p \in Proc :
            /\ Storing(p, n) /\ pc[p] \in {"write", "delete", "upsert"} /\ doc[p] # 0 => HasRow(doc[p])
            /\ Purging(p, n) /\ pc[p] = "row" /\ born[doc[p]] = n => points[doc[p]] = {}

\* A store is about to write into nothing.
Cleared ==
    \A n \in Name : "store and store" \notin raced[n] =>
        \A p \in Proc : Storing(p, n) /\ pc[p] = "upsert" => points[doc[p]] = {}

\* A purge has listed every row of its files that is left.
Listed ==
    /\ \A p \in Proc : pc[p] = "purged" => pending[p] = {}
    /\ \A n \in Name : "store and purge" \notin raced[n] =>
         \A p \in Proc : Purging(p, n) /\ pc[p] # "resolve" =>
             \A r \in rows : r.name = n => r.id \in pending[p]

\* A store alone with its file finds there what it has written.
Written ==
    \A n \in Name : raced[n] = {} =>
        \A p \in Proc : Storing(p, n) /\ pc[p] \in {"delete", "upsert", "stored"} =>
            /\ [id |-> doc[p], name |-> n, ver |-> ver[p]] \in rows
            /\ pc[p] = "stored" /\ Chunks[ver[p]] > 0 => points[doc[p]] = Full(ver[p])

\* What a run has achieved is undone by later runs only.
Quiet ==
    \A n \in Name : raced[n] = {} =>
        /\ outcome[n] # "cut short" => \A p \in Proc : ~Storing(p, n)
        /\ outcome[n] \in Version => \A p \in Proc : ~Purging(p, n)

Frame == TypeOK /\ Tied /\ Apart
Kept == Inserting /\ OneRowPerFile /\ Relied /\ NothingOrphaned /\ Cleared /\ WholeOrNothing
Achieved == Listed /\ Written /\ Quiet /\ CleanRunsStand
IInv == Frame /\ Kept /\ Achieved

-----------------------------------------------------------------------------
(* The chunks of a content                                                 *)

LEMMA IdPositive == \A d \in Id : d # 0
BY CorpusAssumption DEF Id

LEMMA FullTyped ==
    ASSUME NEW v \in Version
    PROVE  /\ Full(v) \in SUBSET Point
           /\ \A a, b \in Full(v) : a.i = b.i => a = b
BY CorpusAssumption DEF Full, Point

LEMMA ChunksOf ==
    ASSUME NEW v \in Version, Full(v) # {}
    PROVE  Chunks[v] > 0
<1>1. \A k \in Nat : 1..k # {} => k > 0
  OBVIOUS
<1>2. Chunks[v] \in Nat /\ 1..Chunks[v] # {}
  BY CorpusAssumption DEF Full
<1> QED
  BY <1>1, <1>2

\* An upsert leaves one point for each place.
LEMMA OverwriteTyped ==
    ASSUME NEW v \in Version, NEW old \in SUBSET Point,
           \A a, b \in old : a.i = b.i => a = b
    PROVE  /\ Overwrite(old, v) \in SUBSET Point
           /\ \A a, b \in Overwrite(old, v) : a.i = b.i => a = b
<1>1. Overwrite(old, v) \in SUBSET Point
  BY FullTyped DEF Overwrite
<1>2. \A a \in Full(v) : a.i <= Chunks[v]
  BY CorpusAssumption DEF Full
<1>3. \A a, b \in Overwrite(old, v) : a.i = b.i => a = b
  BY <1>2, FullTyped, CorpusAssumption DEF Overwrite, Point
<1> QED
  BY <1>1, <1>3

\* Into nothing it writes the content.
LEMMA OverwriteNothing ==
    ASSUME NEW v \in Version
    PROVE  Overwrite({}, v) = Full(v)
BY DEF Overwrite

-----------------------------------------------------------------------------
LEMMA InitInv == Init => IInv
<1> SUFFICES ASSUME Init PROVE IInv
  OBVIOUS
<1>1. TypeOK
  <2>1. born \in Seq(Name) /\ Len(born) <= MaxIds
    BY CorpusAssumption DEF Init
  <2>2. rows \in SUBSET Row /\ points \in [Id -> SUBSET Point] /\ pending \in [Proc -> SUBSET Id]
    BY DEF Init
  <2>3. raced \in [Name -> SUBSET {"store and store", "store and purge"}]
    BY DEF Init
  <2> QED
    BY <2>1, <2>2, <2>3 DEF Init, TypeOK
<1>2. Tied /\ Apart
  BY DEF Init, Tied, AtHand, Apart, Storing, Purging, StoreSteps, PurgeSteps
<1>3. Inserting /\ Relied /\ Cleared
  BY DEF Init, Inserting, Relied, Cleared, Storing, Purging, StoreSteps, PurgeSteps
<1>4. OneRowPerFile /\ NothingOrphaned /\ WholeOrNothing
  BY DEF Init, OneRowPerFile, NothingOrphaned, WholeOrNothing, RowsOf, IdsOf
<1>5. Listed /\ Written /\ Quiet
  BY DEF Init, Listed, Written, Quiet, Storing, Purging, StoreSteps, PurgeSteps
<1>6. CleanRunsStand
  <2>1. "absent" \notin Version
    BY OutcomeAssumption
  <2> QED
    BY <2>1 DEF Init, CleanRunsStand, RowsOf, IdsOf
<1> QED
  BY <1>1, <1>2, <1>3, <1>4, <1>5, <1>6 DEF IInv, Frame, Kept, Achieved

-----------------------------------------------------------------------------
(* Types                                                                   *)

LEMMA EndTyped ==
    ASSUME TypeOK, NEW p \in Proc, NEW result \in Version \cup {"absent", "cut short"}, End(p, result)
    PROVE  TypeOK'
BY DEF TypeOK, End, Goto

LEMMA BeginTyped ==
    ASSUME TypeOK, NEW p \in Proc, NEW N \in SUBSET Name, NEW kind, Begin(p, N, kind)
    PROVE  /\ names' \in [Proc -> SUBSET Name]
           /\ outcome' \in [Name -> Version \cup {"absent", "cut short"}]
           /\ raced' \in [Name -> SUBSET {"store and store", "store and purge"}]
<1>1. \A n \in Name : Meeting(n, kind) \in SUBSET {"store and store", "store and purge"}
  BY DEF Meeting
<1>2. raced' \in [Name -> SUBSET {"store and store", "store and purge"}]
  BY <1>1 DEF TypeOK, Begin
<1>3. names' \in [Proc -> SUBSET Name] /\ outcome' \in [Name -> Version \cup {"absent", "cut short"}]
  BY DEF TypeOK, Begin
<1> QED
  BY <1>2, <1>3

LEMMA TypeStep == TypeOK /\ Tied /\ [Next]_vars => TypeOK'
<1> SUFFICES ASSUME TypeOK, Tied, [Next]_vars PROVE TypeOK'
  OBVIOUS
<1>0. CASE UNCHANGED vars
  BY <1>0 DEF vars, TypeOK
<1>1. ASSUME NEW p \in Proc, NEW n \in Name, NEW v \in Version, BeginStore(p, n, v) PROVE TypeOK'
  <2>1. Begin(p, {n}, "store")
    BY <1>1 DEF BeginStore
  <2>2. /\ names' \in [Proc -> SUBSET Name]
        /\ outcome' \in [Name -> Version \cup {"absent", "cut short"}]
        /\ raced' \in [Name -> SUBSET {"store and store", "store and purge"}]
    BY <2>1, BeginTyped
  <2> QED
    BY <1>1, <2>2 DEF TypeOK, BeginStore, Goto, StoreSteps
<1>2. ASSUME NEW p \in Proc, Select(p) PROVE TypeOK'
  BY <1>2 DEF TypeOK, Select, Goto, RowsOf, Row, StoreSteps
<1>3. ASSUME NEW p \in Proc, WriteUpdate(p) PROVE TypeOK'
  <2>1. ver[p] \in Version
    BY <1>3 DEF WriteUpdate, Tied, AtHand, StoreSteps
  <2>2. \A r \in rows : [r EXCEPT !.ver = IF r.id = doc[p] THEN ver[p] ELSE @] \in Row
    BY <2>1 DEF TypeOK, Row
  <2>3. rows' \in SUBSET Row
    BY <1>3, <2>2 DEF WriteUpdate
  <2> QED
    BY <1>3, <2>3 DEF TypeOK, WriteUpdate, AfterWrite, Goto, StoreSteps
<1>4. ASSUME NEW p \in Proc, WriteInsert(p) PROVE TypeOK'
  <2>1. ver[p] \in Version
    BY <1>4 DEF WriteInsert, Tied, AtHand, StoreSteps
  <2>2. PICK n \in names[p] : /\ rows' = rows \cup {[id |-> Len(born) + 1, name |-> n, ver |-> ver[p]]}
                              /\ born' = Append(born, n)
    BY <1>4 DEF WriteInsert
  <2>3. n \in Name
    BY <2>2 DEF TypeOK
  <2>0. born \in Seq(Name) /\ Len(born) \in Nat
    BY LenProperties DEF TypeOK
  <2>4. Len(born) + 1 \in Id
    BY <1>4, <2>0, CorpusAssumption DEF WriteInsert, Id
  <2>5. born' \in Seq(Name) /\ Len(born') = Len(born) + 1
    BY <2>0, <2>2, <2>3, AppendProperties
  <2>6. [id |-> Len(born) + 1, name |-> n, ver |-> ver[p]] \in Row
    BY <2>1, <2>3, <2>4 DEF Row
  <2>7. doc' \in [Proc -> Id \cup {0}] /\ pc' \in [Proc -> {"idle"} \cup StoreSteps \cup PurgeSteps]
    BY <1>4, <2>4 DEF TypeOK, WriteInsert, AfterWrite, Goto, StoreSteps
  <2> QED
    <3>1. rows' \in SUBSET Row
      BY <2>2, <2>6 DEF TypeOK
    <3>2. Len(born') <= MaxIds
      BY <2>4, <2>5, CorpusAssumption DEF Id
    <3> QED
      BY <1>4, <2>5, <2>7, <3>1, <3>2 DEF TypeOK, WriteInsert
<1>5. ASSUME NEW p \in Proc, DeletePoints(p) PROVE TypeOK'
  BY <1>5 DEF TypeOK, DeletePoints, Goto, StoreSteps
<1>6. ASSUME NEW p \in Proc, Upsert(p) PROVE TypeOK'
  <2>1. ver[p] \in Version /\ doc[p] \in Id
    BY <1>6 DEF Upsert, Tied, AtHand, StoreSteps, TypeOK
  <2>2. /\ Overwrite(points[doc[p]], ver[p]) \in SUBSET Point
        /\ \A a, b \in Overwrite(points[doc[p]], ver[p]) : a.i = b.i => a = b
    <3>1. /\ points[doc[p]] \in SUBSET Point
          /\ \A a, b \in points[doc[p]] : a.i = b.i => a = b
      BY <2>1 DEF TypeOK
    <3> QED
      BY <2>1, <3>1, OverwriteTyped
  <2>3. points' = [points EXCEPT ![doc[p]] = Overwrite(points[doc[p]], ver[p])]
    BY <1>6 DEF Upsert
  <2>4. points' \in [Id -> SUBSET Point] /\ \A d \in Id : \A a, b \in points'[d] : a.i = b.i => a = b
    BY <2>1, <2>2, <2>3 DEF TypeOK
  <2> QED
    BY <1>6, <2>4 DEF TypeOK, Upsert, Goto, StoreSteps
<1>7. ASSUME NEW p \in Proc, FinishStore(p) PROVE TypeOK'
  <2>1. ver[p] \in Version
    BY <1>7 DEF FinishStore, Tied, AtHand, StoreSteps
  <2> QED
    BY <1>7, <2>1, EndTyped DEF FinishStore
<1>8. ASSUME NEW p \in Proc, NEW N \in SUBSET Name, BeginPurge(p, N) PROVE TypeOK'
  <2>1. Begin(p, N, "purge")
    BY <1>8 DEF BeginPurge
  <2>2. /\ names' \in [Proc -> SUBSET Name]
        /\ outcome' \in [Name -> Version \cup {"absent", "cut short"}]
        /\ raced' \in [Name -> SUBSET {"store and store", "store and purge"}]
    BY <2>1, BeginTyped
  <2> QED
    BY <1>8, <2>2 DEF TypeOK, BeginPurge, Goto, PurgeSteps
<1>9. ASSUME NEW p \in Proc, Resolve(p) PROVE TypeOK'
  <2>1. {r.id : r \in RowsOf(names[p])} \in SUBSET Id
    BY ZenonT(40) DEF TypeOK, RowsOf, Row
  <2>2. pending' \in [Proc -> SUBSET Id]
    BY <1>9, <2>1 DEF TypeOK, Resolve
  <2>3. pc' \in [Proc -> {"idle"} \cup StoreSteps \cup PurgeSteps]
    BY <1>9 DEF TypeOK, Resolve, Goto, PurgeSteps
  <2> QED
    BY <1>9, <2>2, <2>3 DEF TypeOK, Resolve
<1>10. ASSUME NEW p \in Proc, PurgePoints(p) PROVE TypeOK'
  <2>1. PICK d \in pending[p] : doc' = [doc EXCEPT ![p] = d] /\ points' = [points EXCEPT ![d] = {}]
    BY <1>10 DEF PurgePoints
  <2>2. d \in Id
    BY <2>1 DEF TypeOK
  <2>3. doc' \in [Proc -> Id \cup {0}] /\ points' \in [Id -> SUBSET Point]
    BY <2>1, <2>2 DEF TypeOK
  <2>4. \A e \in Id : \A a, b \in points'[e] : a.i = b.i => a = b
    BY <2>1, <2>2 DEF TypeOK
  <2> QED
    BY <1>10, <2>3, <2>4 DEF TypeOK, PurgePoints, Goto, PurgeSteps
<1>11. ASSUME NEW p \in Proc, PurgeRow(p) PROVE TypeOK'
  <2>1. pending' \in [Proc -> SUBSET Id] /\ doc' \in [Proc -> Id \cup {0}] /\ rows' \subseteq rows
    BY <1>11 DEF TypeOK, PurgeRow
  <2>2. pc' \in [Proc -> {"idle"} \cup StoreSteps \cup PurgeSteps]
    BY <1>11 DEF TypeOK, PurgeRow, Goto, PurgeSteps
  <2> QED
    BY <1>11, <2>1, <2>2 DEF TypeOK, PurgeRow
<1>12. ASSUME NEW p \in Proc, FinishPurge(p) \/ Crash(p) PROVE TypeOK'
  BY <1>12, EndTyped DEF FinishPurge, Crash
<1> QED
  BY <1>0, <1>1, <1>2, <1>3, <1>4, <1>5, <1>6, <1>7, <1>8, <1>9, <1>10, <1>11, <1>12
     DEF Next, StoreStep, PurgeStep

-----------------------------------------------------------------------------
(* What processes have at hand                                             *)

Others(p) ==
    \A q \in Proc \ {p} : /\ pc'[q] = pc[q] /\ names'[q] = names[q] /\ ver'[q] = ver[q]
                          /\ doc'[q] = doc[q] /\ pending'[q] = pending[q]
BornKept == DOMAIN born \subseteq DOMAIN born' /\ \A d \in DOMAIN born : born'[d] = born[d]

\* A step of one process leaves what the others have at hand.
LEMMA Aside ==
    ASSUME NEW p \in Proc, NEW q \in Proc \ {p}, AtHand(q), Others(p), BornKept
    PROVE  AtHand(q)'
<1>1. /\ pc'[q] = pc[q] /\ names'[q] = names[q] /\ ver'[q] = ver[q]
      /\ doc'[q] = doc[q] /\ pending'[q] = pending[q]
  BY DEF Others
<1>2. \A d \in DOMAIN born : d \in DOMAIN born' /\ born'[d] = born[d]
  BY DEF BornKept
<1> QED
  BY <1>1, <1>2 DEF AtHand

\* Every step is a step of one process.
LEMMA OneProcess ==
    ASSUME TypeOK, NEW p \in Proc, StoreStep(p) \/ PurgeStep(p) \/ Crash(p)
    PROVE  Others(p) /\ BornKept
<1>1. CASE StoreStep(p)
  <2>1. CASE \E n \in Name, v \in Version : BeginStore(p, n, v)
    BY <2>1 DEF TypeOK, BeginStore, Begin, Goto, Others, BornKept
  <2>2. CASE Select(p)
    BY <2>2 DEF TypeOK, Select, Goto, Others, BornKept
  <2>3. CASE WriteUpdate(p)
    BY <2>3 DEF TypeOK, WriteUpdate, AfterWrite, Goto, Others, BornKept
  <2>4. CASE WriteInsert(p)
    <3>1. PICK n \in names[p] : born' = Append(born, n)
      BY <2>4 DEF WriteInsert
    <3>2. n \in Name /\ born \in Seq(Name)
      BY <3>1 DEF TypeOK
    <3>3. BornKept
      BY <3>1, <3>2, AppendProperties DEF BornKept
    <3> QED
      BY <2>4, <3>3 DEF TypeOK, WriteInsert, AfterWrite, Goto, Others
  <2>5. CASE DeletePoints(p)
    BY <2>5 DEF TypeOK, DeletePoints, Goto, Others, BornKept
  <2>6. CASE Upsert(p)
    BY <2>6 DEF TypeOK, Upsert, Goto, Others, BornKept
  <2>7. CASE FinishStore(p)
    BY <2>7 DEF TypeOK, FinishStore, End, Goto, Others, BornKept
  <2> QED
    BY <1>1, <2>1, <2>2, <2>3, <2>4, <2>5, <2>6, <2>7 DEF StoreStep
<1>2. CASE PurgeStep(p)
  <2>1. CASE \E N \in SUBSET Name \ {{}} : BeginPurge(p, N)
    BY <2>1 DEF TypeOK, BeginPurge, Begin, Goto, Others, BornKept
  <2>2. CASE Resolve(p)
    BY <2>2 DEF TypeOK, Resolve, Goto, Others, BornKept
  <2>3. CASE PurgePoints(p)
    BY <2>3 DEF TypeOK, PurgePoints, Goto, Others, BornKept
  <2>4. CASE PurgeRow(p)
    BY <2>4 DEF TypeOK, PurgeRow, Goto, Others, BornKept
  <2>5. CASE FinishPurge(p)
    BY <2>5 DEF TypeOK, FinishPurge, End, Goto, Others, BornKept
  <2> QED
    BY <1>2, <2>1, <2>2, <2>3, <2>4, <2>5 DEF PurgeStep
<1>3. CASE Crash(p)
  BY <1>3 DEF TypeOK, Crash, End, Goto, Others, BornKept
<1> QED
  BY <1>1, <1>2, <1>3

\* The process that steps has at hand what its next step needs.
LEMMA Itself ==
    ASSUME TypeOK, Tied, NEW p \in Proc, StoreStep(p) \/ PurgeStep(p) \/ Crash(p)
    PROVE  AtHand(p)'
<1> USE DEF StoreSteps, PurgeSteps
<1>0. AtHand(p)
  BY DEF Tied
<1>1. CASE StoreStep(p)
  <2>1. ASSUME NEW n \in Name, NEW v \in Version, BeginStore(p, n, v) PROVE AtHand(p)'
    <3>1. pc[p] = "idle" /\ doc[p] = 0 /\ doc' = doc
      BY <1>0, <2>1 DEF BeginStore, Begin, AtHand
    <3>2. pc'[p] = "select" /\ ver'[p] = v /\ names'[p] = {n}
      BY <2>1 DEF TypeOK, BeginStore, Begin, Goto
    <3> QED
      BY <3>1, <3>2 DEF AtHand
  <2>2. ASSUME Select(p) PROVE AtHand(p)'
    <3>1. pc[p] = "select" /\ pc'[p] = "write" /\ doc[p] = 0
      BY <1>0, <2>2 DEF TypeOK, Select, Goto, AtHand
    <3>2. UNCHANGED <<names, ver, born>>
      BY <2>2 DEF Select
    <3>3. doc'[p] # 0 => doc'[p] \in DOMAIN born /\ born[doc'[p]] \in names[p]
      BY <2>2, <3>1 DEF TypeOK, Select, RowsOf, Tied
    <3> QED
      BY <1>0, <3>1, <3>2, <3>3 DEF AtHand
  <2>3. ASSUME WriteUpdate(p) PROVE AtHand(p)'
    <3>1. pc[p] = "write" /\ pc'[p] \in {"stored", "delete"} /\ doc[p] # 0
      BY <2>3 DEF TypeOK, WriteUpdate, AfterWrite, Goto
    <3> QED
      BY <1>0, <2>3, <3>1 DEF WriteUpdate, AtHand
  <2>4. ASSUME WriteInsert(p) PROVE AtHand(p)'
    <3>1. pc[p] = "write" /\ pc'[p] \in {"stored", "delete"}
      BY <2>4 DEF TypeOK, WriteInsert, AfterWrite, Goto
    <3>2. PICK n \in names[p] : born' = Append(born, n)
      BY <2>4 DEF WriteInsert
    <3>3. n \in Name /\ born \in Seq(Name)
      BY <3>2 DEF TypeOK
    <3>4. /\ Len(born) \in Nat /\ DOMAIN born' = 1..(Len(born) + 1)
          /\ born'[Len(born) + 1] = n
      BY <3>2, <3>3, AppendProperties, LenProperties
    <3>5. doc'[p] = Len(born) + 1
      BY <2>4 DEF TypeOK, WriteInsert
    <3>6. doc'[p] # 0 /\ doc'[p] \in DOMAIN born' /\ born'[doc'[p]] \in names[p]
      BY <3>2, <3>4, <3>5
    <3> QED
      BY <1>0, <2>4, <3>1, <3>6 DEF WriteInsert, AtHand
  <2>5. ASSUME DeletePoints(p) \/ Upsert(p) PROVE AtHand(p)'
    <3>1. pc[p] \in {"delete", "upsert"} /\ pc'[p] \in {"upsert", "stored"}
      BY <2>5 DEF TypeOK, DeletePoints, Upsert, Goto
    <3>2. UNCHANGED <<names, ver, doc, pending, born>>
      BY <2>5 DEF DeletePoints, Upsert
    <3> QED
      BY <1>0, <3>1, <3>2 DEF AtHand
  <2>6. ASSUME FinishStore(p) PROVE AtHand(p)'
    BY <2>6 DEF TypeOK, FinishStore, End, Goto, AtHand
  <2> QED
    BY <1>1, <2>1, <2>2, <2>3, <2>4, <2>5, <2>6 DEF StoreStep
<1>2. CASE PurgeStep(p)
  <2>1. ASSUME NEW N \in SUBSET Name, BeginPurge(p, N) PROVE AtHand(p)'
    <3>1. pc[p] = "idle" /\ pending[p] = {} /\ pc'[p] = "resolve"
      BY <1>0, <2>1 DEF TypeOK, BeginPurge, Begin, Goto, AtHand
    <3> QED
      BY <2>1, <3>1 DEF BeginPurge, AtHand
  <2>2. ASSUME Resolve(p) PROVE AtHand(p)'
    <3>1. pc'[p] \in {"points", "purged"} /\ pending'[p] = {r.id : r \in RowsOf(names[p])}
      BY <2>2 DEF TypeOK, Resolve, Goto
    <3>2. \A d \in pending'[p] : d \in DOMAIN born /\ born[d] \in names[p]
      BY <3>1 DEF RowsOf, Tied
    <3> QED
      BY <2>2, <3>1, <3>2 DEF Resolve, AtHand
  <2>3. ASSUME PurgePoints(p) PROVE AtHand(p)'
    <3>1. pc[p] = "points" /\ pc'[p] = "row" /\ doc'[p] \in pending[p]
      BY <2>3 DEF TypeOK, PurgePoints, Goto
    <3> QED
      BY <1>0, <2>3, <3>1 DEF PurgePoints, AtHand
  <2>4. ASSUME PurgeRow(p) PROVE AtHand(p)'
    <3>1. pc[p] = "row" /\ pc'[p] \in {"purged", "points"} /\ pending'[p] \subseteq pending[p]
      BY <2>4 DEF TypeOK, PurgeRow, Goto
    <3> QED
      BY <1>0, <2>4, <3>1 DEF PurgeRow, AtHand
  <2>5. ASSUME FinishPurge(p) PROVE AtHand(p)'
    BY <2>5 DEF TypeOK, FinishPurge, End, Goto, AtHand
  <2> QED
    BY <1>2, <2>1, <2>2, <2>3, <2>4, <2>5 DEF PurgeStep
<1>3. CASE Crash(p)
  BY <1>3 DEF TypeOK, Crash, End, Goto, AtHand
<1> QED
  BY <1>1, <1>2, <1>3

\* A step, by who takes it.
Step(p) == StoreStep(p) \/ PurgeStep(p) \/ Crash(p)

\* What a step does to the rows and their names.
LEMMA RowsTied ==
    ASSUME TypeOK, Tied, NEW p \in Proc, Step(p)
    PROVE  /\ \A r \in rows' : r.id \in DOMAIN born' /\ born'[r.id] = r.name
           /\ \A r, s \in rows' : r.id = s.id => r = s
<1>0. BornKept
  BY OneProcess DEF Step
<1>1. CASE WriteUpdate(p)
  <2> DEFINE Up(t) == [t EXCEPT !.ver = IF t.id = doc[p] THEN ver[p] ELSE t.ver]
  <2>1. ASSUME NEW t \in rows PROVE Up(t).id = t.id /\ Up(t).name = t.name
    BY DEF TypeOK, Row
  <2>2. rows' = {Up(t) : t \in rows}
    BY <1>1 DEF WriteUpdate
  <2> HIDE DEF Up
  <2>3. \A r \in rows' : r.id \in DOMAIN born' /\ born'[r.id] = r.name
    BY <1>0, <2>1, <2>2 DEF Tied, BornKept
  <2>4. ASSUME NEW r \in rows', NEW s \in rows', r.id = s.id PROVE r = s
    <3>1. PICK t \in rows : r = Up(t)
      BY <2>2
    <3>2. PICK u \in rows : s = Up(u)
      BY <2>2
    <3>3. t = u
      BY <2>1, <2>4, <3>1, <3>2 DEF Tied
    <3> QED
      BY <3>1, <3>2, <3>3
  <2> QED
    BY <2>3, <2>4
<1>2. CASE WriteInsert(p)
  <2>1. PICK n \in names[p] : /\ rows' = rows \cup {[id |-> Len(born) + 1, name |-> n, ver |-> ver[p]]}
                              /\ born' = Append(born, n)
    BY <1>2 DEF WriteInsert
  <2>2. n \in Name /\ born \in Seq(Name)
    BY <2>1 DEF TypeOK
  <2>3. /\ Len(born) \in Nat /\ DOMAIN born = 1..Len(born) /\ DOMAIN born' = 1..(Len(born) + 1)
        /\ born'[Len(born) + 1] = n
    BY <2>1, <2>2, AppendProperties, LenProperties
  <2>4. \A r \in rows : r.id # Len(born) + 1
    BY <2>3 DEF Tied
  <2> QED
    BY <1>0, <2>1, <2>3, <2>4 DEF Tied, BornKept
<1>3. CASE rows' \subseteq rows
  BY <1>0, <1>3 DEF Tied, BornKept
<1>4. WriteUpdate(p) \/ WriteInsert(p) \/ rows' \subseteq rows
  BY DEF Step, StoreStep, PurgeStep, Crash, BeginStore, Select, DeletePoints, Upsert, FinishStore,
         BeginPurge, Resolve, PurgePoints, PurgeRow, FinishPurge, End
<1> QED
  BY <1>1, <1>2, <1>3, <1>4

\* Points are written and deleted by the documents at hand only.
LEMMA PointsTied ==
    ASSUME TypeOK, Tied, NEW p \in Proc, Step(p)
    PROVE  \A d \in Id : points'[d] # {} => d \in DOMAIN born'
<1>0. BornKept
  BY OneProcess DEF Step
<1>1. CASE Upsert(p)
  <2>1. doc[p] \in DOMAIN born
    BY <1>1 DEF Tied, AtHand, Upsert, StoreSteps
  <2>2. \A d \in Id : points'[d] # {} => d = doc[p] \/ points[d] # {}
    BY <1>1 DEF Upsert, TypeOK
  <2> QED
    BY <1>0, <2>1, <2>2 DEF Tied, BornKept
<1>2. CASE \A d \in Id : points'[d] # {} => points[d] # {}
  BY <1>0, <1>2 DEF Tied, BornKept
<1>3. CASE DeletePoints(p)
  BY <1>2, <1>3 DEF DeletePoints, TypeOK
<1>4. CASE PurgePoints(p)
  BY <1>2, <1>4 DEF PurgePoints, TypeOK
<1>5. Upsert(p) \/ DeletePoints(p) \/ PurgePoints(p) \/ UNCHANGED points
  BY DEF Step, StoreStep, PurgeStep, Crash, BeginStore, Select, WriteUpdate, WriteInsert, FinishStore,
         BeginPurge, Resolve, PurgeRow, FinishPurge, End
<1> QED
  BY <1>1, <1>2, <1>3, <1>4, <1>5

LEMMA TiedStep ==
    ASSUME TypeOK, Tied, NEW p \in Proc, Step(p)
    PROVE  Tied'
<1>1. Others(p) /\ BornKept
  BY OneProcess DEF Step
<1>2. AtHand(p)'
  BY Itself DEF Step
<1>3. \A q \in Proc : AtHand(q)'
  BY <1>1, <1>2, Aside DEF Tied
<1> QED
  BY <1>3, RowsTied, PointsTied DEF Tied

-----------------------------------------------------------------------------
(* Runs that have not overlapped                                           *)

\* A step starts a run on some files, or goes on with the run of its process.
LEMMA Runs ==
    ASSUME TypeOK, NEW p \in Proc, Step(p)
    PROVE  \/ /\ raced' = raced
              /\ \A n \in Name : Storing(p, n)' => Storing(p, n)
              /\ \A n \in Name : Purging(p, n)' => Purging(p, n)
           \/ \E N \in SUBSET Name, kind \in {"store", "purge"} :
                /\ Begin(p, N, kind)
                /\ pc'[p] = IF kind = "store" THEN "select" ELSE "resolve"
<1> USE DEF StoreSteps, PurgeSteps, Storing, Purging
<1>1. CASE \E n \in Name, v \in Version : BeginStore(p, n, v)
  BY <1>1 DEF TypeOK, BeginStore, Goto
<1>2. CASE \E N \in SUBSET Name \ {{}} : BeginPurge(p, N)
  BY <1>2 DEF TypeOK, BeginPurge, Goto
<1>3. CASE Select(p) \/ WriteUpdate(p) \/ WriteInsert(p) \/ DeletePoints(p) \/ Upsert(p)
  BY <1>3 DEF TypeOK, Select, WriteUpdate, WriteInsert, AfterWrite, DeletePoints, Upsert, Goto
<1>4. CASE Resolve(p) \/ PurgePoints(p) \/ PurgeRow(p)
  BY <1>4 DEF TypeOK, Resolve, PurgePoints, PurgeRow, Goto
<1>5. CASE FinishStore(p) \/ FinishPurge(p) \/ Crash(p)
  BY <1>5 DEF TypeOK, FinishStore, FinishPurge, Crash, End, Goto
<1> QED
  BY <1>1, <1>2, <1>3, <1>4, <1>5 DEF Step, StoreStep, PurgeStep

LEMMA ApartStep ==
    ASSUME TypeOK, Apart, NEW p \in Proc, Step(p)
    PROVE  Apart'
<1>0. Others(p)
  BY OneProcess DEF Step
<1>1. \A q \in Proc \ {p}, n \in Name : /\ Storing(q, n)' => Storing(q, n)
                                        /\ Purging(q, n)' => Purging(q, n)
  BY <1>0 DEF Others, Storing, Purging
<1>2. CASE /\ raced' = raced
           /\ \A n \in Name : Storing(p, n)' => Storing(p, n)
           /\ \A n \in Name : Purging(p, n)' => Purging(p, n)
  <2>1. \A q \in Proc, n \in Name : /\ Storing(q, n)' => Storing(q, n)
                                    /\ Purging(q, n)' => Purging(q, n)
    BY <1>1, <1>2
  <2> QED
    BY <1>2, <2>1, Zenon DEF Apart
<1>3. ASSUME NEW N \in SUBSET Name, NEW kind \in {"store", "purge"}, Begin(p, N, kind),
             pc'[p] = IF kind = "store" THEN "select" ELSE "resolve"
      PROVE  Apart'
  <2>1. \A n \in Name : raced[n] \subseteq raced'[n]
    BY <1>3 DEF Begin
  <2>2. \A n \in N : raced'[n] = raced[n] \cup Meeting(n, kind)
    BY <1>3 DEF Begin
  <2>3. \A n \in Name : /\ Storing(p, n)' => kind = "store" /\ n \in N
                        /\ Purging(p, n)' => kind = "purge" /\ n \in N
    BY <1>3 DEF TypeOK, Begin, Storing, Purging, StoreSteps, PurgeSteps
  <2>4. \A n \in N, q \in Proc : kind = "store" /\ Storing(q, n) => "store and store" \in raced'[n]
    BY <2>2 DEF Meeting, Storing
  <2>5. \A n \in N, q \in Proc : kind = "store" /\ Purging(q, n) => "store and purge" \in raced'[n]
    BY <2>2 DEF Meeting, Purging
  <2>6. \A n \in N, q \in Proc : kind = "purge" /\ Storing(q, n) => "store and purge" \in raced'[n]
    BY <2>2 DEF Meeting, Storing
  <2>7. ASSUME NEW n \in Name, "store and store" \notin raced'[n],
               NEW q \in Proc, NEW r \in Proc, Storing(q, n)', Storing(r, n)'
        PROVE  q = r
    BY <1>1, <2>1, <2>3, <2>4, <2>7 DEF Apart
  <2>8. ASSUME NEW n \in Name, "store and purge" \notin raced'[n],
               NEW q \in Proc, NEW r \in Proc, Storing(q, n)', Purging(r, n)'
        PROVE  FALSE
    BY <1>1, <2>1, <2>3, <2>5, <2>6, <2>8 DEF Apart
  <2> QED
    BY <2>7, <2>8 DEF Apart
<1>4. CASE \E N \in SUBSET Name, kind \in {"store", "purge"} :
             /\ Begin(p, N, kind)
             /\ pc'[p] = IF kind = "store" THEN "select" ELSE "resolve"
  <2>1. PICK N \in SUBSET Name, kind \in {"store", "purge"} :
             /\ Begin(p, N, kind)
             /\ pc'[p] = IF kind = "store" THEN "select" ELSE "resolve"
    BY <1>4
  <2> QED
    BY <1>3, <2>1
<1> QED
  BY <1>2, <1>4, Runs

-----------------------------------------------------------------------------
(* What one step does to rows and points, seen from the files              *)

LEMMA RacedGrows ==
    ASSUME TypeOK, NEW p \in Proc, Step(p), NEW n \in Name
    PROVE  raced[n] \subseteq raced'[n]
<1>1. CASE raced' = raced
  BY <1>1
<1>2. CASE \E N, kind : Begin(p, N, kind)
  BY <1>2 DEF Begin
<1> QED
  BY <1>1, <1>2, Runs

\* A row keeps its name; only an insertion adds one.
LEMMA RowsFrom ==
    ASSUME TypeOK, NEW p \in Proc, Step(p), NEW r \in rows'
    PROVE  \/ \E t \in rows : t.id = r.id /\ t.name = r.name
           \/ WriteInsert(p) /\ r.name \in names[p] /\ r.id = Len(born) + 1
<1>1. CASE WriteUpdate(p)
  <2> DEFINE Up(t) == [t EXCEPT !.ver = IF t.id = doc[p] THEN ver[p] ELSE t.ver]
  <2>1. ASSUME NEW t \in rows PROVE Up(t).id = t.id /\ Up(t).name = t.name
    BY DEF TypeOK, Row
  <2>2. rows' = {Up(t) : t \in rows}
    BY <1>1 DEF WriteUpdate
  <2> HIDE DEF Up
  <2> QED
    BY <2>1, <2>2
<1>2. CASE WriteInsert(p)
  BY <1>2 DEF WriteInsert
<1>3. CASE rows' \subseteq rows
  BY <1>3
<1>4. WriteUpdate(p) \/ WriteInsert(p) \/ rows' \subseteq rows
  BY DEF Step, StoreStep, PurgeStep, Crash, BeginStore, Select, DeletePoints, Upsert, FinishStore,
         BeginPurge, Resolve, PurgePoints, PurgeRow, FinishPurge, End
<1> QED
  BY <1>1, <1>2, <1>3, <1>4

\* Only a purge takes a row away.
LEMMA RowsKept ==
    ASSUME TypeOK, NEW p \in Proc, Step(p), NEW d, HasRow(d)
    PROVE  HasRow(d)' \/ (PurgeRow(p) /\ d = doc[p])
<1>0. PICK r \in rows : r.id = d
  BY DEF HasRow
<1>1. CASE WriteUpdate(p)
  <2> DEFINE Up(t) == [t EXCEPT !.ver = IF t.id = doc[p] THEN ver[p] ELSE t.ver]
  <2>1. Up(r).id = d
    BY <1>0 DEF TypeOK, Row
  <2>2. rows' = {Up(t) : t \in rows}
    BY <1>1 DEF WriteUpdate
  <2> HIDE DEF Up
  <2> QED
    BY <1>0, <2>1, <2>2 DEF HasRow
<1>2. CASE PurgeRow(p)
  BY <1>0, <1>2 DEF PurgeRow, HasRow
<1>3. CASE rows \subseteq rows'
  BY <1>0, <1>3 DEF HasRow
<1>4. WriteUpdate(p) \/ PurgeRow(p) \/ rows \subseteq rows'
  BY DEF Step, StoreStep, PurgeStep, Crash, BeginStore, Select, WriteInsert, DeletePoints, Upsert,
         FinishStore, BeginPurge, Resolve, PurgePoints, FinishPurge, End
<1> QED
  BY <1>1, <1>2, <1>3, <1>4

\* Only an upsert writes points.
LEMMA PointsFrom ==
    ASSUME TypeOK, Tied, NEW p \in Proc, Step(p), NEW d \in Id, points'[d] # {}
    PROVE  \/ points'[d] = points[d]
           \/ Upsert(p) /\ d = doc[p]
<1>1. CASE Upsert(p)
  BY <1>1 DEF Upsert, TypeOK
<1>2. CASE DeletePoints(p)
  BY <1>2 DEF DeletePoints, TypeOK
<1>3. CASE PurgePoints(p)
  BY <1>3 DEF PurgePoints, TypeOK
<1>4. Upsert(p) \/ DeletePoints(p) \/ PurgePoints(p) \/ UNCHANGED points
  BY DEF Step, StoreStep, PurgeStep, Crash, BeginStore, Select, WriteUpdate, WriteInsert, FinishStore,
         BeginPurge, Resolve, PurgeRow, FinishPurge, End
<1> QED
  BY <1>1, <1>2, <1>3, <1>4

\* A document at hand is of the run's file.
LEMMA AtHandOf ==
    ASSUME Tied, NEW p \in Proc, NEW n \in Name
    PROVE  /\ Storing(p, n) => /\ names[p] = {n}
                               /\ doc[p] # 0 => doc[p] \in DOMAIN born /\ born[doc[p]] = n
           /\ pc[p] = "row" => doc[p] \in DOMAIN born /\ born[doc[p]] \in names[p]
BY DEF Tied, AtHand, Storing, StoreSteps, PurgeSteps

-----------------------------------------------------------------------------
(* One row per file                                                        *)

LEMMA InsertingStep ==
    ASSUME Frame, Frame', Inserting, NEW p \in Proc, Step(p)
    PROVE  Inserting'
<1> SUFFICES ASSUME NEW n \in Name, "store and store" \notin raced'[n], NEW q \in Proc,
                    Storing(q, n)', pc'[q] = "write", doc'[q] = 0,
                    NEW r \in rows', r.name = n
             PROVE  FALSE
  BY DEF Inserting, RowsOf
<1>1. "store and store" \notin raced[n]
  BY RacedGrows DEF Frame
<1>2. CASE q = p
  <2>1. Select(p)
    BY <1>2 DEF Frame, TypeOK, Step, StoreStep, PurgeStep, Crash, BeginStore, WriteUpdate, WriteInsert,
          AfterWrite, DeletePoints, Upsert, FinishStore, BeginPurge, Resolve, PurgePoints, PurgeRow,
          FinishPurge, End, Goto
  <2>2. names[p] = {n} /\ rows' = rows /\ doc[p] = 0
    BY <1>2, <2>1, AtHandOf DEF Frame, Select, Storing, StoreSteps, Tied, AtHand
  <2>3. RowsOf(names[p]) = {}
    <3>1. ASSUME NEW t \in RowsOf(names[p]), doc' = [doc EXCEPT ![p] = t.id] PROVE FALSE
      <4>1. doc'[p] = t.id
        BY <3>1 DEF Frame, TypeOK
      <4>2. t.id # 0
        <5>1. t \in Row
          BY DEF Frame, TypeOK, RowsOf
        <5>2. t.id \in Id
          BY <5>1 DEF Row
        <5> QED
          BY <5>2, IdPositive
      <4> QED
        BY <1>2, <4>1, <4>2
    <3> QED
      BY <2>1, <3>1 DEF Select
  <2> QED
    BY <2>2, <2>3 DEF RowsOf
<1>3. CASE q # p
  <2>1. Storing(q, n) /\ pc[q] = "write" /\ doc[q] = 0
    BY <1>3, OneProcess DEF Frame, Step, Others, Storing
  <2>2. RowsOf({n}) = {}
    BY <1>1, <2>1 DEF Inserting
  <2>3. WriteInsert(p) /\ n \in names[p]
    BY <2>2, RowsFrom DEF Frame, RowsOf
  <2>4. Storing(p, n)
    BY <2>3 DEF WriteInsert, Storing, StoreSteps
  <2> QED
    BY <1>1, <1>3, <2>1, <2>4 DEF Frame, Apart
<1> QED
  BY <1>2, <1>3

LEMMA OneRowStep ==
    ASSUME Frame, Frame', Inserting, OneRowPerFile, NEW p \in Proc, Step(p)
    PROVE  OneRowPerFile'
<1> SUFFICES ASSUME NEW n \in Name, "store and store" \notin raced'[n],
                    NEW r \in rows', NEW s \in rows', r.name = n, s.name = n
             PROVE  r = s
  BY DEF OneRowPerFile, RowsOf
<1>1. "store and store" \notin raced[n]
  BY RacedGrows DEF Frame
<1>2. \A t, u \in rows : t.name = n /\ u.name = n => t = u
  BY <1>1 DEF OneRowPerFile, RowsOf
<1>3. r.id = s.id => r = s
  BY DEF Frame, Tied
<1>4. CASE WriteInsert(p) /\ n \in names[p]
  <2>1. Storing(p, n) /\ pc[p] = "write" /\ doc[p] = 0
    BY <1>4 DEF WriteInsert, Storing, StoreSteps
  <2>2. \A t \in rows : t.name # n
    BY <1>1, <2>1 DEF Inserting, RowsOf
  <2> QED
    BY <1>3, <2>2, RowsFrom DEF Frame
<1>5. CASE ~(WriteInsert(p) /\ n \in names[p])
  <2>1. PICK t \in rows : t.id = r.id /\ t.name = n
    BY <1>5, RowsFrom DEF Frame
  <2>2. PICK u \in rows : u.id = s.id /\ u.name = n
    BY <1>5, RowsFrom DEF Frame
  <2> QED
    BY <1>2, <1>3, <2>1, <2>2
<1> QED
  BY <1>4, <1>5

-----------------------------------------------------------------------------
(* Nothing orphaned                                                        *)

LEMMA IdsGiven ==
    /\ TypeOK => DOMAIN born \subseteq Id
    /\ TypeOK' => DOMAIN born' \subseteq Id
<1>1. ASSUME TypeOK PROVE DOMAIN born \subseteq Id
  <2>1. DOMAIN born = 1..Len(born) /\ Len(born) \in Nat /\ Len(born) <= MaxIds
    BY <1>1, LenProperties DEF TypeOK
  <2> QED
    BY <2>1, CorpusAssumption DEF Id
<1>2. ASSUME TypeOK' PROVE DOMAIN born' \subseteq Id
  <2>1. DOMAIN born' = 1..Len(born') /\ Len(born') \in Nat /\ Len(born') <= MaxIds
    BY <1>2, LenProperties DEF TypeOK
  <2> QED
    BY <2>1, CorpusAssumption DEF Id
<1> QED
  BY <1>1, <1>2

\* The ids of a file that have points had its name before the step.
LEMMA NamedBefore ==
    ASSUME TypeOK, Tied, NEW p \in Proc, Step(p), NEW d \in Id, points[d] # {}
    PROVE  d \in DOMAIN born /\ born'[d] = born[d]
BY OneProcess DEF Step, BornKept, Tied

LEMMA OrphanStep ==
    ASSUME Frame, Frame', Relied, NothingOrphaned, NEW p \in Proc, Step(p)
    PROVE  NothingOrphaned'
<1> SUFFICES ASSUME NEW n \in Name, "store and purge" \notin raced'[n],
                    NEW d \in IdsOf(n)', points'[d] # {}
             PROVE  HasRow(d)'
  BY DEF NothingOrphaned
<1>1. "store and purge" \notin raced[n]
  BY RacedGrows DEF Frame
<1>2. d \in Id
  BY IdsGiven DEF IdsOf, Frame
<1>3. CASE points'[d] = points[d]
  <2>1. d \in DOMAIN born /\ born[d] = n
    BY <1>2, <1>3, NamedBefore DEF Frame, IdsOf
  <2>2. HasRow(d)
    BY <1>1, <1>3, <2>1 DEF NothingOrphaned, IdsOf
  <2>3. ~(PurgeRow(p) /\ d = doc[p])
    BY <1>1, <1>3, <2>1, AtHandOf DEF Frame, Relied, PurgeRow, Purging, PurgeSteps
  <2> QED
    BY <2>2, <2>3, RowsKept DEF Frame
<1>4. CASE Upsert(p) /\ d = doc[p]
  <2>1. doc[p] # 0 /\ doc[p] \in DOMAIN born
    BY <1>4 DEF Frame, Tied, AtHand, Upsert, StoreSteps
  <2>2. born[doc[p]] = n
    BY <1>4, <2>1, OneProcess DEF Frame, Step, BornKept, IdsOf
  <2>3. Storing(p, n)
    BY <1>4, <2>1, <2>2 DEF Frame, Tied, AtHand, Storing, Upsert, StoreSteps
  <2>4. HasRow(d)
    BY <1>1, <1>4, <2>1, <2>3 DEF Relied, Upsert
  <2> QED
    BY <1>4, <2>4, RowsKept DEF Frame, Upsert, PurgeRow
<1> QED
  BY <1>2, <1>3, <1>4, PointsFrom DEF Frame

LEMMA ReliedStep ==
    ASSUME Frame, Relied, NEW p \in Proc, Step(p)
    PROVE  Relied'
<1>0. Others(p) /\ BornKept
  BY OneProcess DEF Frame, Step
<1>1. ASSUME NEW n \in Name, "store and purge" \notin raced'[n], NEW q \in Proc,
             Storing(q, n)', pc'[q] \in {"write", "delete", "upsert"}, doc'[q] # 0
      PROVE  HasRow(doc[q])'
  <2>0. "store and purge" \notin raced[n]
    BY <1>1, RacedGrows DEF Frame
  <2>1. CASE q = p /\ Select(p)
    <3>1. doc[p] = 0 /\ rows' = rows
      BY <2>1 DEF Frame, Tied, AtHand, Select
    <3>2. PICK t \in rows : doc' = [doc EXCEPT ![p] = t.id]
      BY <1>1, <2>1, <3>1 DEF Select, RowsOf
    <3>3. doc'[p] = t.id
      BY <3>2 DEF Frame, TypeOK
    <3> QED
      BY <2>1, <3>1, <3>3 DEF HasRow
  <2>2. CASE q = p /\ WriteInsert(p)
    <3>1. doc'[p] = Len(born) + 1
      BY <2>2 DEF Frame, TypeOK, WriteInsert
    <3>2. PICK m \in names[p] : rows' = rows \cup {[id |-> Len(born) + 1, name |-> m, ver |-> ver[p]]}
      BY <2>2 DEF WriteInsert
    <3>3. [id |-> Len(born) + 1, name |-> m, ver |-> ver[p]].id = Len(born) + 1
      OBVIOUS
    <3> QED
      BY <2>2, <3>1, <3>2, <3>3 DEF HasRow
  <2>3. CASE q = p /\ (WriteUpdate(p) \/ DeletePoints(p))
    <3>1. Storing(p, n) /\ pc[p] \in {"write", "delete"} /\ doc'[q] = doc[p]
      BY <1>1, <2>3 DEF WriteUpdate, DeletePoints, Storing, StoreSteps
    <3>2. HasRow(doc[p])
      BY <1>1, <2>0, <2>3, <3>1 DEF Relied
    <3> QED
      BY <2>3, <3>1, <3>2, RowsKept DEF Frame, PurgeRow
  <2>4. CASE q # p
    <3>1. Storing(q, n) /\ pc[q] \in {"write", "delete", "upsert"} /\ doc'[q] = doc[q] /\ doc[q] # 0
      BY <1>0, <1>1, <2>4 DEF Others, Storing
    <3>2. HasRow(doc[q])
      BY <2>0, <3>1 DEF Relied
    <3>3. ~(PurgeRow(p) /\ doc[q] = doc[p])
      <4>1. born[doc[q]] = n
        BY <3>1, AtHandOf DEF Frame
      <4>2. PurgeRow(p) => Purging(p, born[doc[p]])
        BY AtHandOf DEF Frame, PurgeRow, Purging, PurgeSteps
      <4> QED
        BY <2>0, <3>1, <4>1, <4>2 DEF Frame, Apart
    <3> QED
      BY <3>1, <3>2, <3>3, RowsKept DEF Frame
  <2>5. q = p => \/ Select(p) \/ WriteInsert(p) \/ WriteUpdate(p) \/ DeletePoints(p)
    BY <1>1 DEF Frame, TypeOK, Step, StoreStep, PurgeStep, Crash, BeginStore, Upsert, FinishStore,
           BeginPurge, Resolve, PurgePoints, PurgeRow, FinishPurge, End, Goto
  <2> QED
    BY <2>1, <2>2, <2>3, <2>4, <2>5
<1>2. ASSUME NEW n \in Name, "store and purge" \notin raced'[n], NEW q \in Proc,
             Purging(q, n)', pc'[q] = "row", born'[doc'[q]] = n
      PROVE  points'[doc'[q]] = {}
  <2>0. "store and purge" \notin raced[n]
    BY <1>2, RacedGrows DEF Frame
  <2>1. CASE q = p /\ PurgePoints(p)
    BY <2>1 DEF Frame, PurgePoints, TypeOK
  <2>2. CASE q # p
    <3>1. Purging(q, n) /\ pc[q] = "row" /\ doc'[q] = doc[q]
      BY <1>0, <1>2, <2>2 DEF Others, Purging
    <3>2. doc[q] \in DOMAIN born /\ born[doc[q]] = n
      <4>1. doc[q] \in DOMAIN born
        BY <3>1, AtHandOf DEF Frame
      <4>2. born'[doc[q]] = n
        BY <1>2, <3>1
      <4> QED
        BY <1>0, <4>1, <4>2 DEF BornKept
    <3>3. points[doc[q]] = {} /\ doc[q] \in Id
      BY <2>0, <3>1, <3>2, IdsGiven DEF Frame, Relied
    <3>4. ~(Upsert(p) /\ doc[p] = doc[q])
      <4>1. ASSUME Upsert(p), doc[p] = doc[q] PROVE Storing(p, n)
        BY <3>2, <4>1 DEF Frame, Tied, AtHand, Storing, Upsert, StoreSteps
      <4> QED
        BY <2>0, <3>1, <4>1 DEF Frame, Apart
    <3> QED
      BY <3>1, <3>3, <3>4, PointsFrom DEF Frame
  <2>3. q = p => PurgePoints(p)
    BY <1>2 DEF Frame, TypeOK, Step, StoreStep, PurgeStep, Crash, BeginStore, Select, WriteUpdate,
           WriteInsert, AfterWrite, DeletePoints, Upsert, FinishStore, BeginPurge, Resolve, PurgeRow,
           FinishPurge, End, Goto
  <2> QED
    BY <2>1, <2>2, <2>3
<1> QED
  BY <1>1, <1>2 DEF Relied

-----------------------------------------------------------------------------
(* Whole or nothing                                                        *)

LEMMA ClearedStep ==
    ASSUME Frame, Cleared, NEW p \in Proc, Step(p)
    PROVE  Cleared'
<1> SUFFICES ASSUME NEW n \in Name, "store and store" \notin raced'[n], NEW q \in Proc,
                    Storing(q, n)', pc'[q] = "upsert"
             PROVE  points'[doc'[q]] = {}
  BY DEF Cleared
<1>1. "store and store" \notin raced[n]
  BY RacedGrows DEF Frame
<1>2. CASE q = p
  <2>1. DeletePoints(p)
    BY <1>2 DEF Frame, TypeOK, Step, StoreStep, PurgeStep, Crash, BeginStore, Select, WriteUpdate,
           WriteInsert, AfterWrite, Upsert, FinishStore, BeginPurge, Resolve, PurgePoints, PurgeRow,
           FinishPurge, End, Goto
  <2>2. doc[p] \in Id
    BY <2>1, IdsGiven DEF Frame, Tied, AtHand, DeletePoints, StoreSteps
  <2> QED
    BY <1>2, <2>1, <2>2 DEF Frame, TypeOK, DeletePoints
<1>3. CASE q # p
  <2>1. Storing(q, n) /\ pc[q] = "upsert" /\ doc'[q] = doc[q]
    BY <1>3, OneProcess DEF Frame, Step, Others, Storing
  <2>2. points[doc[q]] = {}
    BY <1>1, <2>1 DEF Cleared
  <2>3. doc[q] \in DOMAIN born /\ born[doc[q]] = n
    <3>1. AtHand(q)
      BY DEF Frame, Tied
    <3>2. doc[q] # 0
      BY <2>1, <3>1 DEF AtHand
    <3>3. doc[q] \in DOMAIN born /\ born[doc[q]] \in names[q]
      BY <2>1, <3>1, <3>2 DEF AtHand, Storing
    <3> QED
      BY <2>1, <3>2, <3>3, AtHandOf DEF Frame
  <2>4. ~(Upsert(p) /\ doc[p] = doc[q])
    <3>1. ASSUME Upsert(p), doc[p] = doc[q] PROVE Storing(p, n)
      BY <2>3, <3>1 DEF Frame, Tied, AtHand, Storing, Upsert, StoreSteps
    <3> QED
      BY <1>1, <1>3, <2>1, <3>1 DEF Frame, Apart
  <2> QED
    BY <2>1, <2>2, <2>3, <2>4, IdsGiven, PointsFrom DEF Frame
<1> QED
  BY <1>2, <1>3

LEMMA WholeStep ==
    ASSUME Frame, Frame', Cleared, WholeOrNothing, NEW p \in Proc, Step(p)
    PROVE  WholeOrNothing'
<1> SUFFICES ASSUME NEW n \in Name, "store and store" \notin raced'[n],
                    NEW d \in IdsOf(n)', points'[d] # {}
             PROVE  \E v \in Version : points'[d] = Full(v)
  BY DEF WholeOrNothing, Full, IdsOf
<1>1. "store and store" \notin raced[n]
  BY RacedGrows DEF Frame
<1>2. d \in Id
  BY IdsGiven DEF IdsOf, Frame
<1>3. CASE points'[d] = points[d]
  <2>1. d \in DOMAIN born /\ born[d] = n
    BY <1>2, <1>3, NamedBefore DEF Frame, IdsOf
  <2> QED
    BY <1>1, <1>3, <2>1 DEF WholeOrNothing, IdsOf
<1>4. CASE Upsert(p) /\ d = doc[p]
  <2>1. doc[p] \in DOMAIN born /\ ver[p] \in Version
    BY <1>4 DEF Frame, Tied, AtHand, Upsert, StoreSteps
  <2>2. born[doc[p]] = n
    BY <1>4, <2>1, OneProcess DEF Frame, Step, BornKept, IdsOf
  <2>3. Storing(p, n)
    BY <1>4, <2>1, <2>2 DEF Frame, Tied, AtHand, Storing, Upsert, StoreSteps
  <2>4. points[d] = {}
    BY <1>1, <1>4, <2>3 DEF Cleared, Upsert
  <2>5. points'[d] = Overwrite({}, ver[p])
    BY <1>2, <1>4, <2>4 DEF Frame, TypeOK, Upsert
  <2> QED
    BY <2>1, <2>5, OverwriteNothing
<1> QED
  BY <1>2, <1>3, <1>4, PointsFrom DEF Frame

-----------------------------------------------------------------------------
(* What runs have achieved                                                 *)

\* A row stays what it is unless its document is at hand.
LEMMA RowStays ==
    ASSUME TypeOK, NEW p \in Proc, Step(p), NEW r \in rows
    PROVE  r \in rows' \/ ((PurgeRow(p) \/ WriteUpdate(p)) /\ r.id = doc[p])
<1>1. CASE WriteUpdate(p)
  <2> DEFINE Up(t) == [t EXCEPT !.ver = IF t.id = doc[p] THEN ver[p] ELSE t.ver]
  <2>1. r.id # doc[p] => Up(r) = r
    BY DEF TypeOK, Row
  <2>2. rows' = {Up(t) : t \in rows}
    BY <1>1 DEF WriteUpdate
  <2> HIDE DEF Up
  <2> QED
    BY <1>1, <2>1, <2>2
<1>2. CASE PurgeRow(p)
  BY <1>2 DEF PurgeRow
<1>3. WriteUpdate(p) \/ PurgeRow(p) \/ rows \subseteq rows'
  BY DEF Step, StoreStep, PurgeStep, Crash, BeginStore, Select, WriteInsert, DeletePoints, Upsert,
         FinishStore, BeginPurge, Resolve, PurgePoints, FinishPurge, End
<1> QED
  BY <1>1, <1>2, <1>3

LEMMA RowSource ==
    ASSUME TypeOK, NEW p \in Proc, Step(p), NEW r \in rows'
    PROVE  \/ r \in rows
           \/ WriteUpdate(p) /\ r.id = doc[p]
           \/ WriteInsert(p) /\ r.name \in names[p]
<1>1. CASE WriteUpdate(p)
  <2> DEFINE Up(t) == [t EXCEPT !.ver = IF t.id = doc[p] THEN ver[p] ELSE t.ver]
  <2>1. ASSUME NEW t \in rows PROVE Up(t).id = t.id /\ (t.id # doc[p] => Up(t) = t)
    BY DEF TypeOK, Row
  <2>2. rows' = {Up(t) : t \in rows}
    BY <1>1 DEF WriteUpdate
  <2> HIDE DEF Up
  <2> QED
    BY <1>1, <2>1, <2>2
<1>2. CASE WriteInsert(p)
  BY <1>2 DEF WriteInsert
<1>3. WriteUpdate(p) \/ WriteInsert(p) \/ rows' \subseteq rows
  BY DEF Step, StoreStep, PurgeStep, Crash, BeginStore, Select, DeletePoints, Upsert, FinishStore,
         BeginPurge, Resolve, PurgePoints, PurgeRow, FinishPurge, End
<1> QED
  BY <1>1, <1>2, <1>3

LEMMA PointsStay ==
    ASSUME TypeOK, NEW p \in Proc, Step(p), NEW d \in Id
    PROVE  \/ points'[d] = points[d]
           \/ (DeletePoints(p) \/ Upsert(p)) /\ d = doc[p]
           \/ PurgePoints(p) /\ d \in pending[p]
<1>1. CASE Upsert(p)
  BY <1>1 DEF Upsert, TypeOK
<1>2. CASE DeletePoints(p)
  BY <1>2 DEF DeletePoints, TypeOK
<1>3. CASE PurgePoints(p)
  BY <1>3 DEF PurgePoints, TypeOK
<1>4. Upsert(p) \/ DeletePoints(p) \/ PurgePoints(p) \/ UNCHANGED points
  BY DEF Step, StoreStep, PurgeStep, Crash, BeginStore, Select, WriteUpdate, WriteInsert, FinishStore,
         BeginPurge, Resolve, PurgeRow, FinishPurge, End
<1> QED
  BY <1>1, <1>2, <1>3, <1>4

\* A run works on its own files.
LEMMA AtWork ==
    ASSUME Frame, NEW p \in Proc, NEW n \in Name
    PROVE  /\ WriteInsert(p) /\ n \in names[p] => Storing(p, n)
           /\ (WriteUpdate(p) \/ DeletePoints(p) \/ Upsert(p)) /\ born[doc[p]] = n => Storing(p, n)
           /\ PurgeRow(p) /\ born[doc[p]] = n => Purging(p, n)
           /\ \A d \in pending[p] : PurgePoints(p) /\ born[d] = n => Purging(p, n)
<1> USE DEF StoreSteps, PurgeSteps, Storing, Purging
<1>1. AtHand(p)
  BY DEF Frame, Tied
<1>2. WriteInsert(p) /\ n \in names[p] => Storing(p, n)
  BY DEF WriteInsert
<1>3. (WriteUpdate(p) \/ DeletePoints(p) \/ Upsert(p)) /\ born[doc[p]] = n => Storing(p, n)
  BY <1>1 DEF WriteUpdate, DeletePoints, Upsert, AtHand
<1>4. PurgeRow(p) /\ born[doc[p]] = n => Purging(p, n)
  BY <1>1 DEF PurgeRow, AtHand
<1>5. \A d \in pending[p] : PurgePoints(p) /\ born[d] = n => Purging(p, n)
  BY <1>1 DEF PurgePoints, AtHand
<1> QED
  BY <1>2, <1>3, <1>4, <1>5

\* A process that no run on file n occupies leaves its rows and its points.
LEMMA Elsewhere ==
    ASSUME Frame, Frame', NEW p \in Proc, Step(p), NEW n \in Name, ~Storing(p, n), ~Purging(p, n)
    PROVE  /\ \A r : r.name = n => (r \in rows' <=> r \in rows)
           /\ IdsOf(n)' = IdsOf(n)
           /\ \A d \in IdsOf(n) : points'[d] = points[d]
<1>0. BornKept /\ DOMAIN born \subseteq Id /\ DOMAIN born' \subseteq Id
  BY OneProcess, IdsGiven DEF Frame, Step
<1>1. \A r \in rows : r.id \in DOMAIN born /\ born[r.id] = r.name
  BY DEF Frame, Tied
<1>2. \A r \in rows' : r.id \in DOMAIN born' /\ born'[r.id] = r.name
  BY DEF Frame, Tied
<1>3. WriteUpdate(p) \/ DeletePoints(p) \/ Upsert(p) => doc[p] \in DOMAIN born /\ born[doc[p]] # n
  <2>1. AtHand(p)
    BY DEF Frame, Tied
  <2>2. WriteUpdate(p) \/ DeletePoints(p) \/ Upsert(p) => doc[p] \in DOMAIN born
    BY <2>1 DEF WriteUpdate, DeletePoints, Upsert, AtHand, StoreSteps
  <2> QED
    BY <2>2, AtWork
<1>4. ASSUME NEW r \in rows, r.name = n PROVE r \in rows'
  BY <1>1, <1>3, <1>4, RowStays, AtWork DEF Frame
<1>5. ASSUME NEW r \in rows', r.name = n PROVE r \in rows
  <2>1. WriteUpdate(p) /\ r.id = doc[p] => FALSE
    BY <1>0, <1>2, <1>3, <1>5 DEF BornKept
  <2> QED
    BY <1>5, <2>1, RowSource, AtWork DEF Frame
<1>6. ASSUME NEW d \in DOMAIN born', born'[d] = n PROVE d \in DOMAIN born
  <2>1. CASE WriteInsert(p)
    <3>1. PICK m \in names[p] : born' = Append(born, m)
      BY <2>1 DEF WriteInsert
    <3>2. m \in Name /\ born \in Seq(Name)
      BY <3>1 DEF Frame, TypeOK
    <3>3. m # n
      BY <2>1, <3>1, AtWork
    <3>4. /\ Len(born) \in Nat /\ DOMAIN born = 1..Len(born) /\ DOMAIN born' = 1..(Len(born) + 1)
          /\ born'[Len(born) + 1] = m
      BY <3>1, <3>2, AppendProperties, LenProperties
    <3> QED
      BY <1>6, <3>3, <3>4
  <2>2. CASE born' = born
    BY <2>2
  <2>3. WriteInsert(p) \/ born' = born
    BY DEF Step, StoreStep, PurgeStep, Crash, BeginStore, Select, WriteUpdate, DeletePoints, Upsert,
           FinishStore, BeginPurge, Resolve, PurgePoints, PurgeRow, FinishPurge, End
  <2> QED
    BY <2>1, <2>2, <2>3
<1>7. IdsOf(n)' = IdsOf(n)
  BY <1>0, <1>6 DEF IdsOf, BornKept
<1>8. ASSUME NEW d \in IdsOf(n) PROVE points'[d] = points[d]
  <2>1. d \in Id /\ born[d] = n
    BY <1>0 DEF IdsOf
  <2> QED
    BY <2>1, <1>3, PointsStay, AtWork DEF Frame
<1> QED
  BY <1>4, <1>5, <1>7, <1>8

\* What a step says of a file: nothing new, or that a run on it begins or ends.
LEMMA OutcomeFrom ==
    ASSUME TypeOK, NEW p \in Proc, Step(p), NEW n \in Name
    PROVE  \/ outcome'[n] = outcome[n]
           \/ outcome'[n] = "cut short"
           \/ FinishStore(p) /\ Storing(p, n) /\ outcome'[n] = ver[p]
           \/ FinishPurge(p) /\ Purging(p, n) /\ outcome'[n] = "absent"
<1>1. CASE \E m \in Name, v \in Version : BeginStore(p, m, v)
  BY <1>1 DEF BeginStore, Begin
<1>2. CASE \E N \in SUBSET Name \ {{}} : BeginPurge(p, N)
  BY <1>2 DEF BeginPurge, Begin
<1>3. CASE FinishStore(p)
  BY <1>3 DEF FinishStore, End, Storing, StoreSteps
<1>4. CASE FinishPurge(p)
  BY <1>4 DEF FinishPurge, End, Purging, PurgeSteps
<1>5. CASE Crash(p)
  BY <1>5 DEF Crash, End
<1>6. CASE UNCHANGED outcome
  BY <1>6
<1> QED
  BY <1>1, <1>2, <1>3, <1>4, <1>5, <1>6 DEF Step, StoreStep, PurgeStep, Select, WriteUpdate, WriteInsert,
     DeletePoints, Upsert, Resolve, PurgePoints, PurgeRow

LEMMA NotBegun ==
    ASSUME TypeOK, NEW p \in Proc, Step(p), NEW n \in Name, outcome'[n] # "cut short", NEW q \in Proc
    PROVE  (Storing(q, n)' => Storing(q, n)) /\ (Purging(q, n)' => Purging(q, n))
<1>1. CASE q # p
  BY <1>1, OneProcess DEF Step, Others, Storing, Purging
<1>2. CASE q = p
  <2>1. ASSUME NEW N \in SUBSET Name, NEW kind, Begin(p, N, kind) PROVE n \notin names'[p]
    BY <2>1 DEF Begin, TypeOK
  <2>2. (\E N \in SUBSET Name, kind \in {"store", "purge"} : Begin(p, N, kind)) => n \notin names'[p]
    BY <2>1
  <2> QED
    BY <1>2, <2>2, Runs DEF Storing, Purging
<1> QED
  BY <1>1, <1>2

LEMMA ListedStep ==
    ASSUME Frame, Frame', Listed, NEW p \in Proc, Step(p)
    PROVE  Listed'
<1>0. Others(p)
  BY OneProcess DEF Frame, Step
<1>1. ASSUME NEW q \in Proc, pc'[q] = "purged" PROVE pending'[q] = {}
  <2>1. CASE q # p
    BY <1>0, <1>1, <2>1 DEF Others, Listed
  <2>2. CASE q = p
    <3>1. Resolve(p) \/ PurgeRow(p)
      BY <1>1, <2>2 DEF Frame, TypeOK, Step, StoreStep, PurgeStep, Crash, BeginStore, Select, WriteUpdate,
             WriteInsert, AfterWrite, DeletePoints, Upsert, FinishStore, BeginPurge, PurgePoints,
             FinishPurge, End, Goto
    <3>2. CASE Resolve(p)
      BY <1>1, <2>2, <3>2 DEF Frame, TypeOK, Resolve, Goto
    <3>3. CASE PurgeRow(p)
      <4>1. pending[p] = {doc[p]}
        BY <1>1, <2>2, <3>3 DEF Frame, TypeOK, PurgeRow, Goto
      <4> QED
        BY <2>2, <3>3, <4>1 DEF Frame, TypeOK, PurgeRow
    <3> QED
      BY <3>1, <3>2, <3>3
  <2> QED
    BY <2>1, <2>2
<1>2. ASSUME NEW n \in Name, "store and purge" \notin raced'[n], NEW q \in Proc,
             Purging(q, n)', pc'[q] # "resolve", NEW r \in rows', r.name = n
      PROVE  r.id \in pending'[q]
  <2>0. "store and purge" \notin raced[n]
    BY <1>2, RacedGrows DEF Frame
  <2>1. CASE q # p
    <3>1. Purging(q, n) /\ pc[q] # "resolve" /\ pending'[q] = pending[q]
      BY <1>0, <1>2, <2>1 DEF Others, Purging
    <3>2. ~(WriteInsert(p) /\ n \in names[p])
      BY <2>0, <3>1, AtWork DEF Frame, Apart
    <3>3. PICK t \in rows : t.id = r.id /\ t.name = n
      BY <1>2, <3>2, RowsFrom DEF Frame
    <3> QED
      BY <2>0, <3>1, <3>3 DEF Listed
  <2>2. CASE q = p
    <3>1. Resolve(p) \/ PurgePoints(p) \/ PurgeRow(p)
      BY ZenonT(40), <1>2, <2>2 DEF Frame, TypeOK, Purging, PurgeSteps, Step, StoreStep, PurgeStep, Crash, BeginStore,
             Select, WriteUpdate, WriteInsert, AfterWrite, DeletePoints, Upsert, FinishStore, BeginPurge,
             FinishPurge, End, Goto
    <3>2. n \in names[p] /\ r \in rows
      BY <1>2, <2>2, <3>1 DEF Resolve, PurgePoints, PurgeRow, Purging
    <3>3. CASE Resolve(p)
      BY <1>2, <2>2, <3>2, <3>3 DEF Frame, TypeOK, Resolve, RowsOf
    <3>4. CASE PurgePoints(p) \/ PurgeRow(p)
      <4>1. Purging(p, n) /\ pc[p] # "resolve"
        BY <3>2, <3>4 DEF PurgePoints, PurgeRow, Purging, PurgeSteps
      <4>2. r.id \in pending[p]
        BY <1>2, <2>0, <3>2, <4>1 DEF Listed
      <4>3. CASE PurgePoints(p)
        BY <2>2, <4>2, <4>3 DEF PurgePoints
      <4>4. CASE PurgeRow(p)
        <5>1. r.id # doc[p]
          BY <1>2, <4>4 DEF PurgeRow
        <5>2. pending'[p] = pending[p] \ {doc[p]}
          BY <4>4 DEF Frame, TypeOK, PurgeRow
        <5> QED
          BY <2>2, <4>2, <5>1, <5>2
      <4> QED
        BY <3>4, <4>3, <4>4
    <3> QED
      BY <3>1, <3>3, <3>4
  <2> QED
    BY <2>1, <2>2
<1> QED
  BY <1>1, <1>2 DEF Listed

LEMMA WrittenStep ==
    ASSUME Frame, Frame', Relied, Cleared, Written, NEW p \in Proc, Step(p)
    PROVE  Written'
<1> SUFFICES ASSUME NEW n \in Name, raced'[n] = {}, NEW q \in Proc, Storing(q, n)',
                    pc'[q] \in {"delete", "upsert", "stored"}
             PROVE  /\ [id |-> doc'[q], name |-> n, ver |-> ver'[q]] \in rows'
                    /\ pc'[q] = "stored" /\ Chunks[ver'[q]] > 0 => points'[doc'[q]] = Full(ver'[q])
  BY DEF Written, Full
<1>0. raced[n] = {}
  BY RacedGrows DEF Frame
<1>1. CASE q # p
  <2>1. /\ Storing(q, n) /\ pc'[q] = pc[q] /\ doc'[q] = doc[q] /\ ver'[q] = ver[q]
    BY <1>1, OneProcess DEF Frame, Step, Others, Storing
  <2>2. ~Storing(p, n) /\ ~Purging(p, n)
    BY <1>0, <1>1, <2>1 DEF Frame, Apart
  <2>3. /\ [id |-> doc[q], name |-> n, ver |-> ver[q]] \in rows
        /\ pc[q] = "stored" /\ Chunks[ver[q]] > 0 => points[doc[q]] = Full(ver[q])
    BY <1>0, <2>1 DEF Written
  <2>4. doc[q] \in IdsOf(n)
    BY <2>3 DEF Frame, Tied, IdsOf
  <2>5. [id |-> doc[q], name |-> n, ver |-> ver[q]] \in rows' /\ points'[doc[q]] = points[doc[q]]
    BY <2>2, <2>3, <2>4, Elsewhere
  <2> QED
    BY <2>1, <2>3, <2>5
<1>2. CASE q = p
  <2>0. WriteUpdate(p) \/ WriteInsert(p) \/ DeletePoints(p) \/ Upsert(p)
    BY <1>2 DEF Frame, TypeOK, Step, StoreStep, PurgeStep, Crash, BeginStore, Select, FinishStore,
           BeginPurge, Resolve, PurgePoints, PurgeRow, FinishPurge, End, Goto
  <2>1. Storing(p, n) /\ ver'[p] = ver[p] /\ names[p] = {n}
    BY <1>2, <2>0, AtHandOf DEF Frame, WriteUpdate, WriteInsert, DeletePoints, Upsert, Storing, StoreSteps
  <2>2. CASE WriteUpdate(p)
    <3> DEFINE Up(t) == [t EXCEPT !.ver = IF t.id = doc[p] THEN ver[p] ELSE t.ver]
    <3>1. HasRow(doc[p]) /\ born[doc[p]] = n /\ doc' = doc
      BY <1>0, <2>1, <2>2, AtHandOf DEF Frame, Relied, WriteUpdate
    <3>2. PICK r \in rows : r.id = doc[p]
      BY <3>1 DEF HasRow
    <3>3. r \in Row /\ r.name = n
      BY <3>1, <3>2 DEF Frame, TypeOK, Tied
    <3>4. Up(r) = [id |-> doc[p], name |-> n, ver |-> ver[p]]
      BY <3>2, <3>3 DEF Row
    <3>5. rows' = {Up(t) : t \in rows}
      BY <2>2 DEF WriteUpdate
    <3>6. pc'[p] = "stored" => Chunks[ver[p]] = 0
      BY <2>2 DEF Frame, TypeOK, WriteUpdate, AfterWrite, Goto
    <3> HIDE DEF Up
    <3>7. [id |-> doc[p], name |-> n, ver |-> ver[p]] \in rows'
      BY <3>4, <3>5
    <3> QED
      BY <1>2, <2>1, <3>1, <3>6, <3>7
  <2>3. CASE WriteInsert(p)
    <3>1. doc'[p] = Len(born) + 1
      BY <2>3 DEF Frame, TypeOK, WriteInsert
    <3>2. rows' = rows \cup {[id |-> Len(born) + 1, name |-> n, ver |-> ver[p]]}
      BY <2>1, <2>3 DEF WriteInsert
    <3>3. pc'[p] = "stored" => Chunks[ver[p]] = 0
      BY <2>3 DEF Frame, TypeOK, WriteInsert, AfterWrite, Goto
    <3> QED
      BY <1>2, <2>1, <3>1, <3>2, <3>3
  <2>4. CASE DeletePoints(p) \/ Upsert(p)
    <3>1. pc[p] \in {"delete", "upsert"} /\ doc' = doc /\ rows' = rows
      BY <2>4 DEF DeletePoints, Upsert
    <3>2. [id |-> doc[p], name |-> n, ver |-> ver[p]] \in rows
      BY <1>0, <2>1, <3>1 DEF Written
    <3>3. pc'[p] = "stored" => points'[doc[p]] = Full(ver[p])
      <4>1. DeletePoints(p) => pc'[p] = "upsert"
        BY DEF Frame, TypeOK, DeletePoints, Goto
      <4>2. ASSUME Upsert(p) PROVE points'[doc[p]] = Full(ver[p])
        <5>1. points[doc[p]] = {}
          BY <1>0, <2>1, <4>2 DEF Cleared, Upsert
        <5>2. doc[p] \in Id /\ ver[p] \in Version
          <6>1. AtHand(p) /\ pc[p] = "upsert"
            BY <4>2 DEF Frame, Tied, Upsert
          <6>2. doc[p] # 0 /\ ver[p] \in Version
            BY <6>1 DEF AtHand, StoreSteps
          <6> QED
            BY <6>2 DEF Frame, TypeOK
        <5>3. points'[doc[p]] = Overwrite({}, ver[p])
          <6>1. points' = [points EXCEPT ![doc[p]] = Overwrite(points[doc[p]], ver[p])]
            BY <4>2 DEF Upsert
          <6>2. DOMAIN points = Id
            BY DEF Frame, TypeOK
          <6> QED
            BY <5>1, <5>2, <6>1, <6>2
        <5> QED
          BY <5>2, <5>3, OverwriteNothing
      <4> QED
        BY <2>4, <4>1, <4>2
    <3> QED
      BY <1>2, <2>1, <3>1, <3>2, <3>3
  <2> QED
    BY <2>0, <2>2, <2>3, <2>4
<1> QED
  BY <1>1, <1>2

LEMMA QuietStep ==
    ASSUME Frame, Quiet, NEW p \in Proc, Step(p)
    PROVE  Quiet'
<1> SUFFICES ASSUME NEW n \in Name, raced'[n] = {}, outcome'[n] # "cut short", NEW q \in Proc
             PROVE  ~Storing(q, n)' /\ (outcome'[n] \in Version => ~Purging(q, n)')
  BY OutcomeAssumption DEF Quiet
<1>0. raced[n] = {}
  BY RacedGrows DEF Frame
<1>1. (Storing(q, n)' => Storing(q, n)) /\ (Purging(q, n)' => Purging(q, n))
  BY NotBegun DEF Frame
<1>2. CASE outcome'[n] = outcome[n]
  BY <1>0, <1>1, <1>2 DEF Quiet
<1>3. CASE FinishStore(p) /\ Storing(p, n)
  <2>1. ~Purging(q, n) /\ (Storing(q, n) => q = p)
    BY <1>0, <1>3 DEF Frame, Apart
  <2>2. ~Storing(p, n)'
    BY <1>3 DEF Frame, TypeOK, FinishStore, End, Goto, Storing, StoreSteps
  <2> QED
    BY <1>1, <2>1, <2>2
<1>4. CASE FinishPurge(p) /\ Purging(p, n) /\ outcome'[n] = "absent"
  <2>1. ~Storing(q, n)
    BY <1>0, <1>4 DEF Frame, Apart
  <2> QED
    BY <1>1, <1>4, <2>1, OutcomeAssumption
<1> QED
  BY <1>2, <1>3, <1>4, OutcomeFrom DEF Frame

\* Without a row, queries find nothing.
LEMMA RowlessIsEmpty ==
    ASSUME NEW n \in Name
    PROVE  /\ Tied /\ NothingOrphaned /\ raced[n] = {} =>
                \A d \in IdsOf(n) : points[d] # {} => \E r \in rows : r.id = d /\ r.name = n
           /\ Tied' /\ NothingOrphaned' /\ raced'[n] = {} =>
                \A d \in IdsOf(n)' : points'[d] # {} => \E r \in rows' : r.id = d /\ r.name = n
<1>1. ASSUME Tied, NothingOrphaned, raced[n] = {}, NEW d \in IdsOf(n), points[d] # {}
      PROVE  \E r \in rows : r.id = d /\ r.name = n
  <2>1. HasRow(d)
    BY <1>1 DEF NothingOrphaned
  <2> QED
    BY <1>1, <2>1 DEF HasRow, IdsOf, Tied
<1>2. ASSUME Tied', NothingOrphaned', raced'[n] = {}, NEW d \in IdsOf(n)', points'[d] # {}
      PROVE  \E r \in rows' : r.id = d /\ r.name = n
  <2>1. HasRow(d)'
    BY <1>2 DEF NothingOrphaned
  <2> QED
    BY <1>2, <2>1 DEF HasRow, IdsOf, Tied
<1> QED
  BY <1>1, <1>2

LEMMA CleanStep ==
    ASSUME Frame, Frame', Kept, Kept', Listed, Written, Quiet, CleanRunsStand, NEW p \in Proc, Step(p)
    PROVE  CleanRunsStand'
<1> DEFINE Gone(n) == RowsOf({n}) = {} /\ \A d \in IdsOf(n) : points[d] = {}
           Stored(n, v) == \E d \in IdsOf(n) :
                             /\ RowsOf({n}) = {[id |-> d, name |-> n, ver |-> v]}
                             /\ Chunks[v] > 0 => points[d] = Full(v)
                             /\ \A e \in IdsOf(n) \ {d} : points[e] = {}
<1> SUFFICES ASSUME NEW n \in Name, raced'[n] = {}
             PROVE  /\ outcome'[n] = "absent" => Gone(n)'
                    /\ \A v \in Version : outcome'[n] = v => Stored(n, v)'
  BY DEF CleanRunsStand, Full
<1>0. raced[n] = {}
  BY RacedGrows DEF Frame
<1>1. CASE ~Storing(p, n) /\ ~Purging(p, n)
  <2>1. RowsOf({n})' = RowsOf({n}) /\ IdsOf(n)' = IdsOf(n) /\ \A d \in IdsOf(n) : points'[d] = points[d]
    BY <1>1, Elsewhere DEF RowsOf
  <2>2. outcome'[n] = outcome[n] \/ outcome'[n] = "cut short"
    BY <1>1, OutcomeFrom DEF Frame
  <2>3. Gone(n) => Gone(n)'
    BY <2>1
  <2>4. ASSUME NEW v \in Version, Stored(n, v) PROVE Stored(n, v)'
    <3>1. PICK d \in IdsOf(n) : /\ RowsOf({n}) = {[id |-> d, name |-> n, ver |-> v]}
                                /\ Chunks[v] > 0 => points[d] = Full(v)
                                /\ \A e \in IdsOf(n) \ {d} : points[e] = {}
      BY <2>4
    <3>2. /\ d \in IdsOf(n)' /\ RowsOf({n})' = {[id |-> d, name |-> n, ver |-> v]}
          /\ Chunks[v] > 0 => points'[d] = Full(v)
          /\ \A e \in IdsOf(n)' \ {d} : points'[e] = {}
      BY <2>1, <3>1
    <3> QED
      BY <3>2 DEF Full
  <2>5. outcome[n] = "absent" => Gone(n)
    BY <1>0 DEF CleanRunsStand
  <2>6. \A v \in Version : outcome[n] = v => Stored(n, v)
    BY <1>0 DEF CleanRunsStand
  <2> HIDE DEF Gone, Stored
  <2> QED
    BY <2>2, <2>3, <2>4, <2>5, <2>6, OutcomeAssumption
<1>2. CASE Storing(p, n)
  <2>1. outcome[n] = "cut short" /\ ~Purging(p, n)
    BY <1>0, <1>2 DEF Quiet, Frame, Apart
  <2>2. outcome'[n] = "cut short" \/ (FinishStore(p) /\ outcome'[n] = ver[p])
    BY <2>1, OutcomeFrom DEF Frame
  <2>3. ASSUME FinishStore(p) PROVE \E v \in Version : v = ver[p] /\ Stored(n, v)'
    <3> DEFINE row == [id |-> doc[p], name |-> n, ver |-> ver[p]]
    <3>1. ver[p] \in Version /\ pc[p] = "stored" /\ UNCHANGED <<rows, points, born>>
      BY <2>3 DEF Frame, Tied, AtHand, FinishStore, End, StoreSteps
    <3>2. row \in rows /\ (Chunks[ver[p]] > 0 => points[doc[p]] = Full(ver[p]))
      BY <1>0, <1>2, <3>1 DEF Written
    <3>3. row.id = doc[p] /\ row.name = n
      OBVIOUS
    <3> HIDE DEF row
    <3>4. \A r \in rows : r.name = n => r = row
      BY <1>0, <3>2, <3>3 DEF Kept, OneRowPerFile, RowsOf
    <3>5. doc[p] \in IdsOf(n)
      BY <3>2, <3>3 DEF Frame, Tied, IdsOf
    <3>6. \A e \in IdsOf(n) \ {doc[p]} : points[e] = {}
      BY <1>0, <3>3, <3>4, RowlessIsEmpty DEF Frame, Kept
    <3>7. RowsOf({n}) = {row}
      BY <3>2, <3>3, <3>4 DEF RowsOf
    <3>8. RowsOf({n})' = RowsOf({n}) /\ IdsOf(n)' = IdsOf(n) /\ points' = points
      BY <3>1 DEF RowsOf, IdsOf
    <3>9. PICK v \in Version, d \in IdsOf(n) : v = ver[p] /\ d = doc[p]
      BY <3>1, <3>5
    <3>10. /\ d \in IdsOf(n)' /\ RowsOf({n})' = {[id |-> d, name |-> n, ver |-> v]}
           /\ Chunks[v] > 0 => points'[d] = Full(v)
           /\ \A e \in IdsOf(n)' \ {d} : points'[e] = {}
      BY <3>2, <3>6, <3>7, <3>8, <3>9 DEF row
    <3>11. Stored(n, v)'
      BY <3>10 DEF Full
    <3> QED
      BY <3>9, <3>11
  <2> HIDE DEF Gone, Stored
  <2>4. outcome'[n] # "absent"
    BY <2>2, <2>3, OutcomeAssumption
  <2> QED
    BY <2>2, <2>3, <2>4, OutcomeAssumption
<1>3. CASE Purging(p, n)
  <2>1. outcome[n] \notin Version /\ ~Storing(p, n)
    BY <1>0, <1>3 DEF Quiet, Frame, Apart
  <2>2. \/ outcome'[n] = outcome[n]
        \/ outcome'[n] = "cut short"
        \/ FinishPurge(p) /\ outcome'[n] = "absent"
    BY <2>1, OutcomeFrom DEF Frame
  <2>3. outcome'[n] \notin Version
    BY <2>1, <2>2, OutcomeAssumption
  <2>4. ASSUME outcome'[n] = "absent" PROVE \A r \in rows' : r.name # n
    <3>1. \A r \in rows : r.name # n
      <4>1. CASE outcome[n] = "absent"
        BY <1>0, <4>1 DEF CleanRunsStand, RowsOf
      <4>2. CASE FinishPurge(p)
        BY <1>0, <1>3, <4>2 DEF Listed, FinishPurge
      <4> QED
        BY <2>2, <2>4, <4>1, <4>2
    <3>2. ~(WriteInsert(p) /\ n \in names[p])
      BY <2>1, AtWork DEF Frame
    <3> QED
      BY <3>1, <3>2, RowsFrom DEF Frame
  <2>5. ASSUME outcome'[n] = "absent" PROVE Gone(n)'
    <3>1. \A d \in IdsOf(n)' : points'[d] # {} => \E r \in rows' : r.id = d /\ r.name = n
      BY RowlessIsEmpty DEF Frame, Kept
    <3> QED
      BY <2>4, <2>5, <3>1 DEF RowsOf
  <2> QED
    BY <2>3, <2>5
<1> QED
  BY <1>1, <1>2, <1>3

-----------------------------------------------------------------------------
(* The theorems                                                            *)

LEMMA InvStep == IInv /\ [Next]_vars => IInv'
<1> SUFFICES ASSUME IInv, [Next]_vars PROVE IInv'
  OBVIOUS
<1>1. CASE UNCHANGED vars
  <2>1. Frame'
    BY <1>1 DEF vars, IInv, Frame, TypeOK, Tied, AtHand, Apart, Storing, Purging
  <2>2. Inserting' /\ Relied' /\ Cleared'
    BY <1>1 DEF vars, IInv, Kept, Inserting, Relied, Cleared, Storing, Purging, RowsOf, HasRow
  <2>3. OneRowPerFile' /\ NothingOrphaned' /\ WholeOrNothing'
    BY <1>1 DEF vars, IInv, Kept, OneRowPerFile, NothingOrphaned, WholeOrNothing, RowsOf, IdsOf, HasRow
  <2>4. Listed' /\ Quiet'
    BY <1>1 DEF vars, IInv, Achieved, Listed, Quiet, Storing, Purging
  <2>5. Written'
    BY <1>1 DEF vars, IInv, Achieved, Written, Full, Storing
  <2>6. CleanRunsStand'
    BY <1>1 DEF vars, IInv, Achieved, CleanRunsStand, Full, RowsOf, IdsOf
  <2> QED
    BY <2>1, <2>2, <2>3, <2>4, <2>5, <2>6 DEF IInv, Kept, Achieved
<1>2. ASSUME NEW p \in Proc, Step(p) PROVE IInv'
  <2>1. TypeOK'
    BY TypeStep DEF IInv, Frame
  <2>2. Tied' /\ Apart'
    BY <1>2, TiedStep, ApartStep DEF IInv, Frame
  <2>3. Frame /\ Frame'
    BY <2>1, <2>2 DEF IInv, Frame
  <2>4. Inserting' /\ OneRowPerFile'
    BY <1>2, <2>3, InsertingStep, OneRowStep DEF IInv, Kept
  <2>5. Relied' /\ NothingOrphaned'
    BY <1>2, <2>3, ReliedStep, OrphanStep DEF IInv, Kept
  <2>6. Cleared' /\ WholeOrNothing'
    BY <1>2, <2>3, ClearedStep, WholeStep DEF IInv, Kept
  <2>7. Listed' /\ Written' /\ Quiet'
    BY <1>2, <2>3, ListedStep, WrittenStep, QuietStep DEF IInv, Kept, Achieved
  <2>8. Kept' /\ Kept
    BY <2>4, <2>5, <2>6 DEF IInv, Kept
  <2>9. CleanRunsStand'
    BY <1>2, <2>3, <2>8, CleanStep DEF IInv, Achieved
  <2> QED
    BY <2>3, <2>7, <2>8, <2>9 DEF IInv, Achieved
<1> QED
  BY <1>1, <1>2 DEF Next, Step

\* The whole invariant holds of every reachable state.
THEOREM Reachable == Spec => []IInv
BY InitInv, InvStep, PTL DEF Spec

\* Rows, points and the state of every run have the shapes the code gives them; in
\* particular a document has one point per place.
THEOREM TypeCorrect == Spec => []TypeOK
<1>1. IInv => TypeOK
  BY DEF IInv, Frame
<1> QED
  BY <1>1, Reachable, PTL

\* store_document leaves a file one row, for every number of files and runs, crashes
\* and purges included, as long as no two stores of the file overlap: nothing in the
\* table itself forbids a second one.
THEOREM OneRow == Spec => []OneRowPerFile
<1>1. IInv => OneRowPerFile
  BY DEF IInv, Kept
<1> QED
  BY <1>1, Reachable, PTL

\* Whatever a query finds belongs to a row, so that a purge reaches it: the order of
\* the two stores' writes is enough, as long as no purge of the file overlaps a store.
THEOREM Unorphaned == Spec => []NothingOrphaned
<1>1. IInv => NothingOrphaned
  BY DEF IInv, Kept
<1> QED
  BY <1>1, Reachable, PTL

\* At every moment a query finds nothing of a document or one content of it in full,
\* whatever dies between the deletion and the upsert, as long as no two stores of the
\* file overlap.
THEOREM Whole == Spec => []WholeOrNothing
<1>1. IInv => WholeOrNothing
  BY DEF IInv, Kept
<1> QED
  BY <1>1, Reachable, PTL

\* Once a run on a file has gone through, alone with it, the file is as that run meant it to
\* be, whatever the runs before it had left behind when they died (store.py, purge_documents.py).
THEOREM CleanRuns == Spec => []CleanRunsStand
<1>1. IInv => CleanRunsStand
  BY DEF IInv, Achieved
<1> QED
  BY <1>1, Reachable, PTL

-----------------------------------------------------------------------------
(* Rows and points are a library                                           *)

Shared == {n \in Name : raced[n] # {}}

\* In a file whose runs have not overlapped, one document at most has points.
LEMMA FoundOne ==
    ASSUME IInv, NEW n \in Name, n \notin Shared, NEW d \in IdsOf(n), points[d] # {}
    PROVE  /\ \A e \in IdsOf(n) \ {d} : points[e] = {}
           /\ Found(n) = points[d] /\ outcome[n] # "absent"
<1>1. /\ NothingOrphaned /\ OneRowPerFile /\ CleanRunsStand
      /\ \A r \in rows : r.id \in DOMAIN born /\ born[r.id] = r.name
      /\ raced[n] = {}
  BY DEF IInv, Kept, Achieved, Frame, Tied, Shared
<1>2. ASSUME NEW e \in IdsOf(n), points[e] # {} PROVE e = d
  <2>1. HasRow(d) /\ HasRow(e)
    BY <1>1, <1>2 DEF NothingOrphaned
  <2>2. PICK r \in rows, s \in rows : r.id = d /\ s.id = e
    BY <2>1 DEF HasRow
  <2>3. r \in RowsOf({n}) /\ s \in RowsOf({n})
    BY <1>1, <2>2 DEF RowsOf, IdsOf
  <2> QED
    BY <1>1, <2>2, <2>3 DEF OneRowPerFile
<1>3. Found(n) = points[d]
  <2>1. \A e \in IdsOf(n) : points[e] = {} \/ points[e] = points[d]
    BY <1>2
  <2> QED
    BY <2>1 DEF Found
<1>4. outcome[n] # "absent"
  BY <1>1 DEF CleanRunsStand
<1> QED
  BY <1>2, <1>3, <1>4

\* What is found of a file changes with the points of its documents only.
LEMMA FoundKept ==
    ASSUME IInv, NEW p \in Proc, Step(p), NEW n \in Name, \A d \in IdsOf(n) : points'[d] = points[d]
    PROVE  Found(n)' = Found(n)
<1>0. TypeOK /\ Tied /\ IInv'
  <2>1. [Next]_vars
    BY DEF Next, Step
  <2> QED
    BY <2>1, InvStep DEF IInv, Frame
<1>1. BornKept /\ DOMAIN born' \subseteq Id
  BY <1>0, OneProcess, IdsGiven DEF Step, IInv, Frame
<1>2. IdsOf(n) \subseteq IdsOf(n)'
  BY <1>1 DEF IdsOf, BornKept
<1>3. ASSUME NEW d \in IdsOf(n)', d \notin IdsOf(n) PROVE points'[d] = {}
  <2>1. d \in Id /\ d \in DOMAIN born' /\ d \notin DOMAIN born
    BY <1>1, <1>3 DEF IdsOf, BornKept
  <2>2. points[d] = {}
    BY <1>0, <2>1 DEF Tied
  <2>3. Upsert(p) => born' = born
    BY DEF Upsert
  <2> QED
    BY <1>0, <2>1, <2>2, <2>3, PointsFrom
<1>4. Found(n)' = UNION {points'[d] : d \in IdsOf(n)'}
  BY DEF Found
<1> QED
  BY <1>2, <1>3, <1>4 DEF Found

\* A step that leaves all points leaves what is found.
LEMMA ShelfKept ==
    ASSUME IInv, NEW p \in Proc, Step(p), UNCHANGED points
    PROVE  [n \in Name |-> Found(n)]' = [n \in Name |-> Found(n)]
<1>1. \A n \in Name : Found(n)' = Found(n)
  BY FoundKept
<1> QED
  BY <1>1

\* A step that changes the points of one document changes what is found of its file.
LEMMA ShelfChanged ==
    ASSUME IInv, NEW p \in Proc, Step(p), NEW d \in DOMAIN born, NEW x,
           points' = [points EXCEPT ![d] = x], UNCHANGED born
    PROVE  /\ born[d] \in Name /\ d \in IdsOf(born[d])
           /\ [n \in Name |-> Found(n)]'
                = [[n \in Name |-> Found(n)] EXCEPT ![born[d]] = Found(born[d])']
           /\ (\A e \in IdsOf(born[d]) \ {d} : points[e] = {}) => Found(born[d])' = x
<1>1. TypeOK /\ DOMAIN born \subseteq Id
  BY IdsGiven DEF IInv, Frame
<1>2. /\ \A e \in DOMAIN born \ {d} : points'[e] = points[e]
      /\ points'[d] = x
  BY <1>1 DEF TypeOK
<1>3. born[d] \in Name /\ d \in IdsOf(born[d])
  <2>1. born \in [1..Len(born) -> Name]
    BY <1>1, LenProperties DEF TypeOK
  <2> QED
    BY <2>1 DEF IdsOf
<1>4. \A n \in Name \ {born[d]} : Found(n)' = Found(n)
  BY <1>2, FoundKept DEF IdsOf
<1>5. ASSUME \A e \in IdsOf(born[d]) \ {d} : points[e] = {} PROVE Found(born[d])' = x
  <2>1. Found(born[d])' = UNION {points'[e] : e \in IdsOf(born[d])}
    BY DEF Found, IdsOf
  <2>2. \A e \in IdsOf(born[d]) : points'[e] = IF e = d THEN x ELSE {}
    BY <1>2, <1>5 DEF IdsOf
  <2> QED
    BY <1>3, <2>1, <2>2
<1> QED
  BY <1>3, <1>4, <1>5

\* Taking the points of a document away takes its file out of the library.
LEMMA Removal ==
    ASSUME IInv, NEW p \in Proc, Step(p), NEW d \in DOMAIN born, points' = [points EXCEPT ![d] = {}],
           UNCHANGED <<born, outcome, raced>>,
           born[d] \notin Shared => outcome[born[d]] \in {"cut short", "absent"}
    PROVE  [Promise!Next]_(Promise!vars)
<1> DEFINE n == born[d]
<1>1. /\ n \in Name /\ d \in IdsOf(n)
      /\ [m \in Name |-> Found(m)]' = [[m \in Name |-> Found(m)] EXCEPT ![n] = Found(n)']
      /\ (\A e \in IdsOf(n) \ {d} : points[e] = {}) => Found(n)' = {}
  BY ShelfChanged
<1>2. CASE n \in Shared
  <2>1. Promise!Disturb(n)
    BY <1>1, <1>2 DEF Promise!Disturb, Shared
  <2> QED
    BY <1>1, <2>1 DEF Promise!Next
<1>3. CASE points[d] = {}
  <2>1. UNCHANGED points
    <3>1. points \in [Id -> SUBSET Point] /\ d \in Id
      BY IdsGiven DEF IInv, Frame, TypeOK
    <3> QED
      BY <1>3, <3>1
  <2> QED
    BY <2>1, ShelfKept DEF Promise!vars
<1>4. CASE n \notin Shared /\ points[d] # {}
  <2>1. /\ \A e \in IdsOf(n) \ {d} : points[e] = {}
        /\ outcome[n] = "cut short"
    BY <1>1, <1>4, FoundOne
  <2>2. Promise!Vanish(n)
    BY <1>1, <1>4, <2>1 DEF Promise!Vanish, Promise!UnderWay, Shared
  <2> QED
    BY <1>1, <2>2 DEF Promise!Next
<1> QED
  BY <1>2, <1>3, <1>4

LEMMA DeletePointsPromised ==
    ASSUME IInv, NEW p \in Proc, Step(p), DeletePoints(p)
    PROVE  [Promise!Next]_(Promise!vars)
<1>1. doc[p] \in DOMAIN born /\ Storing(p, born[doc[p]]) /\ born[doc[p]] \in Name
  <2>1. AtHand(p) /\ pc[p] = "delete"
    BY DEF IInv, Frame, Tied, DeletePoints
  <2>2. doc[p] \in DOMAIN born /\ born[doc[p]] \in names[p] /\ names[p] \in SUBSET Name
    BY <2>1 DEF AtHand, StoreSteps, IInv, Frame, TypeOK
  <2> QED
    BY <2>1, <2>2 DEF Storing, StoreSteps
<1>2. born[doc[p]] \notin Shared => outcome[born[doc[p]]] \in {"cut short", "absent"}
  BY <1>1 DEF IInv, Achieved, Quiet, Shared
<1>3. points' = [points EXCEPT ![doc[p]] = {}] /\ UNCHANGED <<born, outcome, raced>>
  BY DEF DeletePoints
<1> QED
  BY <1>1, <1>2, <1>3, Removal

LEMMA PurgePointsPromised ==
    ASSUME IInv, NEW p \in Proc, Step(p), PurgePoints(p)
    PROVE  [Promise!Next]_(Promise!vars)
<1>1. PICK d \in pending[p] : points' = [points EXCEPT ![d] = {}]
  BY DEF PurgePoints
<1>2. d \in DOMAIN born /\ Purging(p, born[d]) /\ born[d] \in Name
  <2>1. AtHand(p) /\ pc[p] = "points"
    BY DEF IInv, Frame, Tied, PurgePoints
  <2>2. d \in DOMAIN born /\ born[d] \in names[p] /\ names[p] \in SUBSET Name
    BY <2>1 DEF AtHand, PurgeSteps, IInv, Frame, TypeOK
  <2> QED
    BY <2>1, <2>2 DEF Purging, PurgeSteps
<1>3. born[d] \notin Shared => outcome[born[d]] \in {"cut short", "absent"}
  <2>1. outcome[born[d]] \in Version \cup {"absent", "cut short"}
    BY <1>2 DEF IInv, Frame, TypeOK
  <2> QED
    BY <1>2, <2>1 DEF IInv, Achieved, Quiet, Shared
<1>4. UNCHANGED <<born, outcome, raced>>
  BY DEF PurgePoints
<1> QED
  BY <1>1, <1>2, <1>3, <1>4, Removal

LEMMA UpsertPromised ==
    ASSUME IInv, NEW p \in Proc, Step(p), Upsert(p)
    PROVE  [Promise!Next]_(Promise!vars)
<1>1. PICK d \in DOMAIN born, n \in Name :
        d = doc[p] /\ n = born[d] /\ Storing(p, n) /\ pc[p] = "upsert" /\ ver[p] \in Version
  <2>1. AtHand(p) /\ pc[p] = "upsert"
    BY DEF IInv, Frame, Tied, Upsert
  <2>2. doc[p] \in DOMAIN born /\ born[doc[p]] \in names[p] /\ names[p] \in SUBSET Name
        /\ ver[p] \in Version
    BY <2>1 DEF AtHand, StoreSteps, IInv, Frame, TypeOK
  <2> QED
    BY <2>1, <2>2 DEF Storing, StoreSteps
<1>2. UNCHANGED <<born, outcome, raced>>
  BY DEF Upsert
<1>3. PICK x : x = Overwrite(points[d], ver[p]) /\ points' = [points EXCEPT ![d] = x]
  BY <1>1 DEF Upsert
<1>4. /\ d \in IdsOf(n)
      /\ [m \in Name |-> Found(m)]' = [[m \in Name |-> Found(m)] EXCEPT ![n] = Found(n)']
      /\ (\A e \in IdsOf(n) \ {d} : points[e] = {}) => Found(n)' = x
  <2>1. /\ d \in IdsOf(born[d])
        /\ [m \in Name |-> Found(m)]'
             = [[m \in Name |-> Found(m)] EXCEPT ![born[d]] = Found(born[d])']
        /\ (\A e \in IdsOf(born[d]) \ {d} : points[e] = {}) => Found(born[d])' = x
    BY <1>2, <1>3, ShelfChanged
  <2>2. born'[d] = n
    BY <1>1, <1>2
  <2> QED
    BY <1>1, <2>1, <2>2
<1>5. CASE n \in Shared
  <2>1. Promise!Disturb(n)
    BY <1>1, <1>2, <1>4, <1>5 DEF Promise!Disturb, Shared
  <2> QED
    BY <1>1, <2>1 DEF Promise!Next
<1>6. CASE n \notin Shared
  <2>1. raced[n] = {} /\ outcome[n] \in Version \cup {"absent", "cut short"}
    BY <1>1, <1>6 DEF Shared, IInv, Frame, TypeOK
  <2>2. outcome[n] = "cut short" /\ points[d] = {}
    BY <1>1, <2>1 DEF IInv, Kept, Achieved, Quiet, Cleared
  <2>3. PICK r \in rows : r.id = d /\ r.name = n
    BY <1>1, <2>1 DEF IInv, Achieved, Written
  <2>4. ASSUME NEW e \in IdsOf(n) PROVE points[e] = {}
    <3> SUFFICES ASSUME points[e] # {} PROVE FALSE
      OBVIOUS
    <3>1. PICK s \in rows : s.id = e
      BY <1>1, <2>1 DEF IInv, Kept, NothingOrphaned, HasRow
    <3>2. r \in RowsOf({n}) /\ s \in RowsOf({n})
      BY <2>3, <3>1 DEF IInv, Frame, Tied, RowsOf, IdsOf
    <3>3. r = s
      BY <1>1, <2>1, <3>2 DEF IInv, Kept, OneRowPerFile
    <3> QED
      BY <2>2, <2>3, <3>1, <3>3
  <2>5. Found(n) = {} /\ Found(n)' = Full(ver[p])
    <3>1. \A e \in IdsOf(n) \ {d} : points[e] = {}
      BY <2>4
    <3>2. Found(n)' = x /\ x = Full(ver[p])
      BY <1>1, <1>3, <1>4, <2>2, <3>1, OverwriteNothing
    <3> QED
      BY <2>4, <3>2 DEF Found
  <2>6. Promise!Appear(n, ver[p])
    BY <1>1, <1>2, <1>4, <1>6, <2>2, <2>5 DEF Promise!Appear, Promise!UnderWay, Shared
  <2> QED
    BY <1>1, <2>6 DEF Promise!Next
<1> QED
  BY <1>5, <1>6

LEMMA BeginPromised ==
    ASSUME IInv, NEW p \in Proc, Step(p), NEW N \in SUBSET Name, NEW kind, Begin(p, N, kind),
           UNCHANGED points
    PROVE  [Promise!Next]_(Promise!vars)
<1>0. PICK M \in SUBSET N : M = {n \in N : raced'[n] # {}}
  OBVIOUS
<1>1. [n \in Name |-> Found(n)]' = [n \in Name |-> Found(n)]
  BY ShelfKept
<1>2. Shared' = Shared \cup M
  <2>1. \A n \in Name : raced[n] \subseteq raced'[n] /\ (n \notin N => raced'[n] = raced[n])
    BY DEF Begin
  <2> QED
    BY <1>0, <2>1 DEF Shared
<1>3. outcome' = [n \in Name |-> IF n \in N THEN "cut short" ELSE outcome[n]]
  BY DEF Begin
<1>4. Promise!Begin(N, M)
  BY <1>1, <1>2, <1>3 DEF Promise!Begin, Promise!Tell, Shared
<1> QED
  BY <1>4 DEF Promise!Next

LEMMA EndPromised ==
    ASSUME IInv, NEW p \in Proc, Step(p), NEW result \in Version \cup {"absent", "cut short"},
           End(p, result)
    PROVE  [Promise!Next]_(Promise!vars)
<1> DEFINE N == names[p]
<1>1. /\ outcome' = [n \in Name |-> IF n \in N THEN result ELSE outcome[n]]
      /\ UNCHANGED <<rows, points, born, raced>> /\ N \in SUBSET Name
  BY DEF End, IInv, Frame, TypeOK
<1>2. [n \in Name |-> Found(n)]' = [n \in Name |-> Found(n)]
  BY <1>1, ShelfKept
<1>3. CleanRunsStand'
  <2>1. [Next]_vars
    BY DEF Next, Step
  <2> QED
    BY <2>1, InvStep DEF IInv, Achieved
<1>4. ASSUME NEW n \in N \ Shared
      PROVE  /\ result = "absent" => Found(n) = {}
             /\ result \in Version /\ Full(result) # {} => Found(n) = Full(result)
  <2>1. n \in Name /\ raced'[n] = {} /\ outcome'[n] = result /\ IdsOf(n)' = IdsOf(n)
    BY <1>1, <1>4 DEF Shared, IdsOf
  <2>2. ASSUME result = "absent" PROVE Found(n) = {}
    <3>1. \A d \in IdsOf(n) : points[d] = {}
      BY <1>1, <1>3, <2>1, <2>2 DEF CleanRunsStand
    <3> QED
      BY <3>1 DEF Found
  <2>3. ASSUME result \in Version, Full(result) # {} PROVE Found(n) = Full(result)
    <3>1. Chunks[result] > 0
      BY <2>3, ChunksOf
    <3>2. PICK d \in IdsOf(n) :
            points[d] = Full(result) /\ \A e \in IdsOf(n) \ {d} : points[e] = {}
      <4>1. \E d \in IdsOf(n)' : /\ Chunks[result] > 0 => points'[d] = Full(result)
                                 /\ \A e \in IdsOf(n)' \ {d} : points'[e] = {}
        BY <1>3, <2>1, <2>3 DEF CleanRunsStand, Full
      <4> QED
        BY <1>1, <2>1, <3>1, <4>1
    <3>3. \A e \in IdsOf(n) : points[e] = {} \/ points[e] = points[d]
      BY <3>2
    <3>4. Found(n) = points[d]
      BY <3>3 DEF Found
    <3> QED
      BY <3>2, <3>4
  <2> QED
    BY <2>2, <2>3
<1>5. Promise!End(N, result)
  BY <1>1, <1>2, <1>4 DEF Promise!End, Promise!Tell, Shared
<1> QED
  BY <1>1, <1>5 DEF Promise!Next

LEMMA Promised ==
    ASSUME IInv, NEW p \in Proc, Step(p)
    PROVE  [Promise!Next]_(Promise!vars)
<1>1. CASE \E n \in Name, v \in Version : BeginStore(p, n, v)
  BY <1>1, BeginPromised DEF BeginStore
<1>2. CASE \E N \in SUBSET Name \ {{}} : BeginPurge(p, N)
  BY <1>2, BeginPromised DEF BeginPurge
<1>3. CASE FinishStore(p)
  <2>1. ver[p] \in Version
    <3>1. AtHand(p)
      BY DEF IInv, Frame, Tied
    <3> QED
      BY <1>3, <3>1 DEF FinishStore, AtHand, StoreSteps
  <2> QED
    BY <1>3, <2>1, EndPromised DEF FinishStore
<1>4. CASE FinishPurge(p)
  BY <1>4, EndPromised DEF FinishPurge
<1>5. CASE Crash(p)
  BY <1>5, EndPromised DEF Crash
<1>6. CASE DeletePoints(p) \/ PurgePoints(p) \/ Upsert(p)
  BY <1>6, DeletePointsPromised, PurgePointsPromised, UpsertPromised
<1>7. CASE Select(p) \/ WriteUpdate(p) \/ WriteInsert(p) \/ Resolve(p) \/ PurgeRow(p)
  <2>1. UNCHANGED <<points, outcome, raced>>
    BY <1>7 DEF Select, WriteUpdate, WriteInsert, Resolve, PurgeRow
  <2>2. [n \in Name |-> Found(n)]' = [n \in Name |-> Found(n)]
    BY <2>1, ShelfKept
  <2> QED
    BY <2>1, <2>2 DEF Promise!vars
<1> QED
  BY <1>1, <1>2, <1>3, <1>4, <1>5, <1>6, <1>7 DEF Step, StoreStep, PurgeStep

\* Storing and purging implement a library, whose contents come and go in one piece each
\* and only while a run is on their file, and whose runs tell the truth, for every number of
\* files, runs and chunks.
THEOREM Refinement == Spec => ImplementsLibrary
<1>1. Init => Promise!Init
  <2> SUFFICES ASSUME Init PROVE Promise!Init
    OBVIOUS
  <2>1. \A n \in Name : Found(n) = {}
    BY DEF Init, Found, IdsOf
  <2> QED
    BY <2>1 DEF Init, Promise!Init
<1>2. IInv /\ [Next]_vars => [Promise!Next]_(Promise!vars)
  <2> SUFFICES ASSUME IInv, [Next]_vars PROVE [Promise!Next]_(Promise!vars)
    OBVIOUS
  <2>1. CASE UNCHANGED vars
    BY <2>1 DEF vars, Promise!vars, Found, IdsOf
  <2>2. CASE Next
    BY <2>2, Promised DEF Next, Step
  <2> QED
    BY <2>1, <2>2
<1> QED
  BY <1>1, <1>2, Reachable, PTL DEF Spec, ImplementsLibrary, Promise!Spec

-----------------------------------------------------------------------------
(* The drift report                                                        *)

\* An entry for a link.
Linked ==
    /\ \A e \in manifest : e.url \in File
    /\ \A d, e \in manifest : d.url = e.url => d = e

\* An entry for a local name, of which the files behind the entry say the same; none is to
\* be purged.
Named ==
    /\ \A e \in manifest : e.local \notin purge /\ Content[e.url] = Content[e.local[1]]
    /\ \A d, e \in manifest : d.local = e.local => d = e

\* Files on disk and rows say what the name they are kept under says.
Stocked ==
    /\ \A l \in DOMAIN corpus : corpus[l] = Content[l[1]]
    /\ \A l \in DOMAIN stored : stored[l] = Content[l[1]]

Shaped(item) ==
    \/ item.kind = "reissued" /\ item.old \in File /\ item.new \in File
    \/ item.kind \in {"new_wage", "new_other"} /\ item.old = NoFile /\ item.new \in File
    \/ item.kind \in {"removed_wage", "removed_other"} /\ item.old \in File /\ item.new = NoFile

\* Of an item, the new file has no entry yet, the old one still has, and neither is
\* another item's.
Open ==
    /\ \A a \in report : /\ Shaped(a)
                         /\ a.new \notin Tracked(Types)
                         /\ a.old # NoFile => a.old \in Tracked(Types)
    /\ \A a, b \in report : a # b => /\ a.new = b.new => a.new = NoFile
                                     /\ a.old = b.old => a.old = NoFile

\* What has to be ingested has an entry that no open item takes away.
ToIngest ==
    /\ \A l \in ingest : \E e \in manifest : e.local = l
    /\ \A e \in manifest, a \in report : e.local \in ingest => e.url # a.old

\* Every entry is stored or will be; what is stored has an entry or will be purged.
Held ==
    /\ \A e \in manifest : e.local \in ingest \/ e.local \in DOMAIN stored
    /\ \A l \in DOMAIN stored : l \in purge \/ \E e \in manifest : e.local = l

\* The open items are the differences that are left.
Accounted ==
    current => /\ Advertised \ Tracked(Types) = {a.new : a \in report} \ {NoFile}
               /\ Tracked(Types) \ Advertised = {a.old : a \in report} \ {NoFile}

DriftInv == Linked /\ Named /\ Stocked /\ Open /\ ToIngest /\ Held /\ Accounted
DriftIInv == DriftTypeOK /\ DriftInv

-----------------------------------------------------------------------------
(* Places in an order                                                      *)

Before(f, files) == {g \in files : Identity[g] = Identity[f] /\ Rank[g] < Rank[f]}

LEMMA BeforeFinite ==
    ASSUME NEW files \in SUBSET File, NEW f
    PROVE  IsFiniteSet(Before(f, files)) /\ Place(f, files) = Cardinality(Before(f, files))
           /\ Place(f, files) \in Nat
<1>1. IsFiniteSet(files)
  BY DriftAssumption, FS_Subset
<1>2. Before(f, files) \in SUBSET files
  BY DEF Before
<1>3. IsFiniteSet(Before(f, files))
  BY <1>1, <1>2, FS_Subset
<1> QED
  BY <1>3, FS_CardinalityType DEF Place, Before

\* Files of one identity have different places.
LEMMA PlacesDiffer ==
    ASSUME NEW files \in SUBSET File, NEW f \in files, NEW g \in files,
           Identity[f] = Identity[g], Place(f, files) = Place(g, files)
    PROVE  f = g
<1>1. ASSUME NEW d \in files, NEW e \in files, Identity[d] = Identity[e], Rank[d] < Rank[e]
      PROVE  Place(d, files) # Place(e, files)
  <2>0. d \in File /\ e \in File /\ Rank[d] \in Nat /\ Rank[e] \in Nat
    BY DriftAssumption
  <2>1. Before(d, files) \in SUBSET Before(e, files)
    <3> SUFFICES ASSUME NEW h \in Before(d, files) PROVE h \in Before(e, files)
      OBVIOUS
    <3>1. h \in files /\ Rank[h] \in Nat /\ Identity[h] = Identity[d] /\ Rank[h] < Rank[d]
      BY DriftAssumption DEF Before
    <3> QED
      BY <1>1, <2>0, <3>1 DEF Before
  <2>2. d \in Before(e, files) /\ d \notin Before(d, files)
    BY <1>1, <2>0 DEF Before
  <2>3. Cardinality(Before(d, files)) # Cardinality(Before(e, files))
    BY <2>1, <2>2, BeforeFinite, FS_Subset
  <2> QED
    BY <2>3, BeforeFinite
<1>2. Rank[f] \in Nat /\ Rank[g] \in Nat /\ (f # g => Rank[f] # Rank[g])
  BY DriftAssumption DEF IsInjective
<1> QED
  BY <1>1, <1>2

\* No place before a file's is left empty.
LEMMA PlacesFilled ==
    ASSUME NEW files \in SUBSET File, NEW f \in files, NEW k \in Nat, k <= Place(f, files)
    PROVE  \E g \in files : Identity[g] = Identity[f] /\ Place(g, files) = k
<1> DEFINE kin == {g \in files : Identity[g] = Identity[f]}
           n == Cardinality(kin)
           place == [g \in kin |-> Place(g, files)]
<1>1. IsFiniteSet(kin) /\ n \in Nat
  <2>1. IsFiniteSet(files) /\ kin \in SUBSET files
    BY DriftAssumption, FS_Subset
  <2>2. IsFiniteSet(kin)
    BY <2>1, FS_Subset
  <2> QED
    BY <2>2, FS_CardinalityType
<1>2. ASSUME NEW g \in kin PROVE Place(g, files) \in 0..(n - 1)
  <2>1. Before(g, files) \in SUBSET kin /\ g \notin Before(g, files)
    <3>1. Rank[g] \in Nat
      BY DriftAssumption
    <3> QED
      BY <3>1 DEF Before
  <2>2. Cardinality(Before(g, files)) <= n /\ Cardinality(Before(g, files)) # n
    BY <1>1, <1>2, <2>1, FS_Subset
  <2>3. Place(g, files) = Cardinality(Before(g, files)) /\ Place(g, files) \in Nat
    BY BeforeFinite
  <2> HIDE DEF n, kin
  <2> QED
    BY <1>1, <2>2, <2>3
<1>3. place \in [kin -> 0..(n - 1)]
  BY <1>2
<1>4. \A g, h \in kin : place[g] = place[h] => g = h
  BY PlacesDiffer
<1>5. place \in Injection(kin, 0..(n - 1))
  BY <1>3, <1>4 DEF Injection, IsInjective
<1>6. f \in kin /\ n # 0 /\ Place(f, files) \in Int
  <2>1. n # 0
    BY <1>1, FS_EmptySet
  <2> QED
    BY <2>1, BeforeFinite
<1>7. IsFiniteSet(0..(n - 1)) /\ Cardinality(0..(n - 1)) = n
  <2> HIDE DEF n
  <2>1. 0 \in Int /\ n - 1 \in Int /\ ~(0 > n - 1) /\ (n - 1) - 0 + 1 = n
    BY <1>1, <1>6
  <2> QED
    BY <2>1, FS_Interval
<1>8. place \in Surjection(kin, 0..(n - 1))
  BY <1>5, <1>7, FS_Injection
<1>9. k \in 0..(n - 1)
  <2>1. Place(f, files) \in 0..(n - 1)
    BY <1>2
  <2> HIDE DEF n
  <2> QED
    BY <1>1, <2>1
<1>10. PICK g \in kin : place[g] = k
  BY <1>8, <1>9 DEF Surjection
<1> QED
  BY <1>10

-----------------------------------------------------------------------------
(* What a report says                                                      *)

LEMMA NotAFile == NoFile \notin File
BY DriftAssumption

LEMMA RemoteFiles ==
    ASSUME page \in Pages
    PROVE  RemoteWage(page) \subseteq File /\ RemoteOther(page) \subseteq File
<1>1. /\ page.wage \subseteq [linked : BOOLEAN, param : File \cup {NoFile}, name : File \cup {NoFile}]
      /\ page.links \subseteq File
  BY DriftAssumption
<1>2. RemoteWage(page) \subseteq File
  BY <1>1 DEF RemoteWage, FilenameOf
<1> QED
  BY <1>1, <1>2 DEF RemoteOther

LEMMA TrackedFiles ==
    ASSUME Linked
    PROVE  \A types : Tracked(types) \subseteq File
BY DEF Linked, Tracked

\* A file is tracked as a schedule or as another document.
LEMMA TrackedOnce ==
    ASSUME DriftTypeOK, Linked
    PROVE  /\ Tracked(Types) = Tracked({"wage_schedule"}) \cup Tracked({"other"})
           /\ Tracked({"wage_schedule"}) \cap Tracked({"other"}) = {}
<1>1. Tracked(Types) = Tracked({"wage_schedule"}) \cup Tracked({"other"})
  BY DEF Tracked, Types
<1>2. Tracked({"wage_schedule"}) \cap Tracked({"other"}) = {}
  BY DEF Tracked, Linked
<1> QED
  BY <1>1, <1>2

LEMMA Sides ==
    ASSUME DriftTypeOK, Linked
    PROVE  /\ Added \in SUBSET File /\ Removed \in SUBSET File
           /\ Advertised \ Tracked(Types) = Added \cup (RemoteOther(page) \ Tracked(Types))
           /\ Added \cap RemoteOther(page) = {}
           /\ Tracked(Types) \ Advertised = Removed \cup (Tracked({"other"}) \ Advertised)
           /\ Removed \cap Tracked({"other"}) = {}
<1>1. page \in Pages
  BY DEF DriftTypeOK
<1>2. RemoteWage(page) \cap RemoteOther(page) = {}
  BY DEF RemoteOther
<1> QED
  BY <1>1, <1>2, RemoteFiles, TrackedFiles, TrackedOnce DEF Added, Removed, Advertised

PairedOld == {p[1] : p \in Pairs}
PairedNew == {p[2] : p \in Pairs}

LEMMA Paired ==
    ASSUME NEW f, NEW g
    PROVE  <<f, g>> \in Pairs <=> /\ f \in Removed /\ g \in Added
                                  /\ Identity[f] = Identity[g] /\ Place(f, Removed) = Place(g, Added)
BY DEF Pairs

\* A file is in one pair at most.
LEMMA PairedOnce ==
    ASSUME DriftTypeOK, Linked, NEW f, NEW g, NEW h
    PROVE  /\ <<f, g>> \in Pairs /\ <<f, h>> \in Pairs => g = h
           /\ <<f, h>> \in Pairs /\ <<g, h>> \in Pairs => f = g
<1>1. ASSUME <<f, g>> \in Pairs, <<f, h>> \in Pairs PROVE g = h
  <2>1. /\ g \in Added /\ h \in Added /\ Identity[g] = Identity[h]
        /\ Place(g, Added) = Place(h, Added)
    BY <1>1, Paired
  <2> QED
    BY <2>1, Sides, PlacesDiffer
<1>2. ASSUME <<f, h>> \in Pairs, <<g, h>> \in Pairs PROVE f = g
  <2>1. /\ f \in Removed /\ g \in Removed /\ Identity[f] = Identity[g]
        /\ Place(f, Removed) = Place(g, Removed)
    BY <1>2, Paired
  <2> QED
    BY <2>1, Sides, PlacesDiffer
<1> QED
  BY <1>1, <1>2

\* No schedule is left on either side if the other has one of its identity left.
LEMMA PairedEnough ==
    ASSUME DriftTypeOK, Linked, NEW f \in Removed \ PairedOld, NEW g \in Added \ PairedNew
    PROVE  Identity[f] # Identity[g]
<1> SUFFICES ASSUME Identity[f] = Identity[g] PROVE FALSE
  OBVIOUS
<1>1. Place(f, Removed) \in Nat /\ Place(g, Added) \in Nat
  BY Sides, BeforeFinite
<1>2. CASE Place(f, Removed) <= Place(g, Added)
  <2>1. PICK h \in Added : Identity[h] = Identity[g] /\ Place(h, Added) = Place(f, Removed)
    BY <1>1, <1>2, Sides, PlacesFilled
  <2>2. <<f, h>> \in Pairs
    BY <2>1, Paired
  <2>3. <<f, h>>[1] = f
    OBVIOUS
  <2> QED
    BY <2>2, <2>3 DEF PairedOld
<1>3. CASE Place(g, Added) <= Place(f, Removed)
  <2>1. PICK h \in Removed : Identity[h] = Identity[f] /\ Place(h, Removed) = Place(g, Added)
    BY <1>1, <1>3, Sides, PlacesFilled
  <2>2. <<h, g>> \in Pairs
    BY <2>1, Paired
  <2>3. <<h, g>>[2] = g
    OBVIOUS
  <2> QED
    BY <2>2, <2>3 DEF PairedNew
<1> QED
  BY <1>1, <1>2, <1>3

\* The items of a report, by their files.
Says(kind, old, new) ==
    \/ kind = "reissued" /\ <<old, new>> \in Pairs
    \/ kind = "new_wage" /\ old = NoFile /\ new \in Added \ PairedNew
    \/ kind = "removed_wage" /\ old \in Removed \ PairedOld /\ new = NoFile
    \/ kind = "new_other" /\ old = NoFile /\ new \in RemoteOther(page) \ Tracked(Types)
    \/ kind = "removed_other" /\ old \in Tracked({"other"}) \ Advertised /\ new = NoFile

LEMMA Reported ==
    /\ \A item \in Report : /\ Says(item.kind, item.old, item.new)
                            /\ item = [kind |-> item.kind, old |-> item.old, new |-> item.new]
    /\ \A kind, old, new : Says(kind, old, new) => [kind |-> kind, old |-> old, new |-> new] \in Report
<1> DEFINE reissued == {[kind |-> "reissued", old |-> p[1], new |-> p[2]] : p \in Pairs}
           newWage == Entries("new_wage", {NoFile}, Added \ PairedNew)
           removedWage == Entries("removed_wage", Removed \ PairedOld, {NoFile})
           newOther == Entries("new_other", {NoFile}, RemoteOther(page) \ Tracked(Types))
           removedOther == Entries("removed_other", Tracked({"other"}) \ Advertised, {NoFile})
<1>1. Report = reissued \cup newWage \cup removedWage \cup newOther \cup removedOther
  BY DEF Report, PairedOld, PairedNew, Advertised
<1>2. \A p \in Pairs : p = <<p[1], p[2]>>
  BY DEF Pairs
<1>3. \A item \in reissued : /\ Says(item.kind, item.old, item.new)
                             /\ item = [kind |-> item.kind, old |-> item.old, new |-> item.new]
  BY <1>2 DEF Says
<1>4. ASSUME NEW kind, NEW olds, NEW news, NEW item \in Entries(kind, olds, news)
      PROVE  /\ item.kind = kind /\ item.old \in olds /\ item.new \in news
             /\ item = [kind |-> item.kind, old |-> item.old, new |-> item.new]
  BY DEF Entries
<1>5. ASSUME NEW item \in newWage \cup removedWage \cup newOther \cup removedOther
      PROVE  /\ Says(item.kind, item.old, item.new)
             /\ item = [kind |-> item.kind, old |-> item.old, new |-> item.new]
  BY <1>4 DEF Says
<1>6. ASSUME NEW old, NEW new, <<old, new>> \in Pairs
      PROVE  [kind |-> "reissued", old |-> old, new |-> new] \in reissued
  BY <1>6
<1>7. ASSUME NEW kind, NEW olds, NEW news, NEW old \in olds, NEW new \in news
      PROVE  [kind |-> kind, old |-> old, new |-> new] \in Entries(kind, olds, news)
  BY DEF Entries
<1>8. ASSUME NEW kind, NEW old, NEW new, Says(kind, old, new)
      PROVE  [kind |-> kind, old |-> old, new |-> new] \in Report
  <2> HIDE DEF reissued
  <2> QED
    BY <1>1, <1>6, <1>7, <1>8 DEF Says
<1> QED
  <2> HIDE DEF reissued, newWage, removedWage, newOther, removedOther
  <2> QED
    BY <1>1, <1>3, <1>5, <1>8

\* What an item says of files that are on one side only.
LEMMA ItemShape ==
    ASSUME DriftTypeOK, Linked, NEW item \in Report
    PROVE  /\ item \in Item /\ Shaped(item)
           /\ item.new # NoFile => item.new \in Advertised \ Tracked(Types)
           /\ item.old # NoFile => item.old \in Tracked(Types) \ Advertised
<1>1. /\ Says(item.kind, item.old, item.new)
      /\ item = [kind |-> item.kind, old |-> item.old, new |-> item.new]
  BY Reported
<1>2. /\ Added \in SUBSET File /\ Removed \in SUBSET File
      /\ RemoteOther(page) \in SUBSET File /\ Tracked({"other"}) \in SUBSET File
  <2>1. page \in Pages
    BY DEF DriftTypeOK
  <2> QED
    BY <2>1, Sides, RemoteFiles, TrackedFiles
<1>3. \/ item.kind = "reissued" /\ item.old \in Removed /\ item.new \in Added
      \/ item.kind \in {"new_wage", "new_other"} /\ item.old = NoFile
         /\ item.new \in Added \cup (RemoteOther(page) \ Tracked(Types))
      \/ item.kind \in {"removed_wage", "removed_other"} /\ item.new = NoFile
         /\ item.old \in Removed \cup (Tracked({"other"}) \ Advertised)
  BY <1>1, Paired DEF Says
<1>4. item.kind \in Kinds /\ item.old \in File \cup {NoFile} /\ item.new \in File \cup {NoFile}
  BY <1>2, <1>3 DEF Kinds
<1>5. item \in Item
  BY <1>1, <1>4 DEF Item
<1>6. Shaped(item)
  BY <1>2, <1>3 DEF Shaped
<1> QED
  BY <1>3, <1>5, <1>6, Sides

\* A file is new in one item at most, and so is one that is gone.
LEMMA ItemOnce ==
    ASSUME DriftTypeOK, Linked, NEW a \in Report, NEW b \in Report
    PROVE  /\ a.new # NoFile /\ a.new = b.new => a = b
           /\ a.old # NoFile /\ a.old = b.old => a = b
<1>1. /\ Says(a.kind, a.old, a.new) /\ Says(b.kind, b.old, b.new)
      /\ a = [kind |-> a.kind, old |-> a.old, new |-> a.new]
      /\ b = [kind |-> b.kind, old |-> b.old, new |-> b.new]
  BY Reported
<1>2. ASSUME NEW f, NEW g, <<f, g>> \in Pairs
      PROVE  f \in PairedOld /\ g \in PairedNew /\ f \in Removed /\ g \in Added
  <2>1. <<f, g>>[1] = f /\ <<f, g>>[2] = g
    OBVIOUS
  <2> QED
    BY <1>2, <2>1, Paired DEF PairedOld, PairedNew
<1>3. /\ Added \cap RemoteOther(page) = {} /\ NoFile \notin Added /\ NoFile \notin RemoteOther(page)
      /\ Removed \cap Tracked({"other"}) = {} /\ NoFile \notin Removed /\ NoFile \notin Tracked({"other"})
  <2>1. page \in Pages
    BY DEF DriftTypeOK
  <2> QED
    BY <2>1, Sides, RemoteFiles, TrackedFiles, NotAFile
<1>4. a.new # NoFile /\ a.new = b.new => a.kind = b.kind /\ a.old = b.old
  BY <1>1, <1>2, <1>3, PairedOnce DEF Says
<1>5. a.old # NoFile /\ a.old = b.old => a.kind = b.kind /\ a.new = b.new
  BY <1>1, <1>2, <1>3, PairedOnce DEF Says
<1> QED
  BY <1>1, <1>4, <1>5

\* Every file on one side only is in an item.
LEMMA ItemForAll ==
    ASSUME DriftTypeOK, Linked
    PROVE  /\ \A g \in Advertised \ Tracked(Types) : \E item \in Report : item.new = g
           /\ \A f \in Tracked(Types) \ Advertised : \E item \in Report : item.old = f
<1>1. ASSUME NEW kind, NEW old, NEW new, Says(kind, old, new)
      PROVE  \E item \in Report : item.old = old /\ item.new = new
  <2>1. [kind |-> kind, old |-> old, new |-> new] \in Report
    BY <1>1, Reported
  <2> QED
    BY <2>1
<1>2. ASSUME NEW g \in Advertised \ Tracked(Types)
      PROVE  \E item \in Report : item.new = g
  <2>1. CASE g \in PairedNew
    <3>1. PICK p \in Pairs : p[2] = g
      BY <2>1 DEF PairedNew
    <3>2. <<p[1], g>> \in Pairs
      BY <3>1 DEF Pairs
    <3>3. Says("reissued", p[1], g)
      BY <3>2 DEF Says
    <3> QED
      BY <1>1, <3>3
  <2>2. CASE g \in Added \ PairedNew
    <3>1. Says("new_wage", NoFile, g)
      BY <2>2 DEF Says
    <3> QED
      BY <1>1, <3>1
  <2>3. CASE g \in RemoteOther(page) \ Tracked(Types)
    <3>1. Says("new_other", NoFile, g)
      BY <2>3 DEF Says
    <3> QED
      BY <1>1, <3>1
  <2> QED
    BY <2>1, <2>2, <2>3, Sides
<1>3. ASSUME NEW f \in Tracked(Types) \ Advertised
      PROVE  \E item \in Report : item.old = f
  <2>1. CASE f \in PairedOld
    <3>1. PICK p \in Pairs : p[1] = f
      BY <2>1 DEF PairedOld
    <3>2. <<f, p[2]>> \in Pairs
      BY <3>1 DEF Pairs
    <3>3. Says("reissued", f, p[2])
      BY <3>2 DEF Says
    <3> QED
      BY <1>1, <3>3
  <2>2. CASE f \in Removed \ PairedOld
    <3>1. Says("removed_wage", f, NoFile)
      BY <2>2 DEF Says
    <3> QED
      BY <1>1, <3>1
  <2>3. CASE f \in Tracked({"other"}) \ Advertised
    <3>1. Says("removed_other", f, NoFile)
      BY <2>3 DEF Says
    <3> QED
      BY <1>1, <3>1
  <2> QED
    BY <2>1, <2>2, <2>3, Sides
<1> QED
  BY <1>2, <1>3

\* A set whose members are all one has that one, or nothing.
LEMMA OneOrNone ==
    ASSUME NEW S, NEW P, \A a, b \in S : a = b, P \in BOOLEAN, P <=> S # {}
    PROVE  Cardinality(S) = IF P THEN 1 ELSE 0
<1>1. CASE P
  <2>1. PICK a : S = {a}
    BY <1>1
  <2> QED
    BY <1>1, <2>1, FS_Singleton
<1>2. CASE ~P
  <2>1. S = {}
    BY <1>2
  <2>2. Cardinality(S) = 0
    BY <2>1, FS_EmptySet
  <2> QED
    BY <1>2, <2>2
<1> QED
  BY <1>1, <1>2

LEMMA AccountsOnce ==
    ASSUME DriftTypeOK, Linked
    PROVE  DriftAccounted
<1> DEFINE With(f, end) == {item \in Report : item[end] = f}
           news == Advertised \ Tracked(Types)
           olds == Tracked(Types) \ Advertised
<1>1. ASSUME NEW f \in File PROVE Cardinality(With(f, "new")) = IF f \in news THEN 1 ELSE 0
  <2>1. \A a, b \in With(f, "new") : a = b
    BY ItemOnce, NotAFile
  <2>2. f \in news <=> With(f, "new") # {}
    BY ItemShape, ItemForAll, NotAFile
  <2>3. (f \in news) \in BOOLEAN
    OBVIOUS
  <2> HIDE DEF With, news
  <2> QED
    BY <2>1, <2>2, <2>3, OneOrNone
<1>2. ASSUME NEW f \in File PROVE Cardinality(With(f, "old")) = IF f \in olds THEN 1 ELSE 0
  <2>1. \A a, b \in With(f, "old") : a = b
    BY ItemOnce, NotAFile
  <2>2. f \in olds <=> With(f, "old") # {}
    BY ItemShape, ItemForAll, NotAFile
  <2>3. (f \in olds) \in BOOLEAN
    OBVIOUS
  <2> HIDE DEF With, olds
  <2> QED
    BY <2>1, <2>2, <2>3, OneOrNone
<1>3. ASSUME NEW a \in Report, NEW b \in Report
      PROVE  /\ a.kind = "reissued" => Identity[a.old] = Identity[a.new]
             /\ a.kind = "new_wage" /\ b.kind = "removed_wage" => Identity[a.new] # Identity[b.old]
  <2>1. Says(a.kind, a.old, a.new) /\ Says(b.kind, b.old, b.new)
    BY Reported
  <2>2. a.kind = "reissued" => Identity[a.old] = Identity[a.new]
    BY <2>1, Paired DEF Says
  <2>3. ASSUME a.kind = "new_wage", b.kind = "removed_wage" PROVE Identity[a.new] # Identity[b.old]
    <3>1. a.new \in Added \ PairedNew /\ b.old \in Removed \ PairedOld
      BY <2>1, <2>3 DEF Says
    <3> QED
      BY <3>1, PairedEnough
  <2> QED
    BY <2>2, <2>3
<1> HIDE DEF With
<1>4. \A f : With(f, "new") = {item \in Report : item["new"] = f} /\ With(f, "old") = {item \in Report : item["old"] = f}
  BY DEF With
<1> QED
  BY <1>1, <1>2, <1>3, <1>4 DEF DriftAccounted

-----------------------------------------------------------------------------
(* The invariant holds in every state                                      *)

LEMMA DriftInitInv ==
    ASSUME DriftInit
    PROVE  DriftIInv
<1>1. DriftTypeOK
  <2>1. DOMAIN <<>> = {} /\ Range(<<>>) = {}
    BY DEF Range
  <2>2. FALSE \in BOOLEAN
    OBVIOUS
  <2> QED
    BY <2>1, <2>2 DEF DriftInit, DriftTypeOK
<1>2. DriftInv
  BY DEF DriftInit, DriftInv, Linked, Named, Stocked, Open, ToIngest, Held, Accounted
<1> QED
  BY <1>1, <1>2 DEF DriftIInv

\* The files with an entry.
LEMMA Urls ==
    ASSUME manifest \subseteq Entry, Linked
    PROVE  Tracked(Types) = {e.url : e \in manifest}
BY NotAFile DEF Tracked, Linked, Entry

\* Working an item off settles the difference it stands for and no other.
LEMMA Settled ==
    ASSUME DriftIInv, NEW item \in report, report' = report \ {item}, UNCHANGED <<page, current>>,
           Tracked(Types)' = (Tracked(Types) \ {item.old}) \cup ({item.new} \ {NoFile})
    PROVE  Open' /\ Accounted'
<1>1. Open /\ Accounted /\ Shaped(item)
  BY DEF DriftIInv, DriftInv, Open
<1>2. ASSUME NEW a \in report', NEW b \in report'
      PROVE  /\ Shaped(a)
             /\ a.new \notin Tracked(Types)'
             /\ a.old # NoFile => a.old \in Tracked(Types)'
             /\ a # b => /\ a.new = b.new => a.new = NoFile
                         /\ a.old = b.old => a.old = NoFile
  <2>1. a \in report /\ b \in report /\ a # item
    OBVIOUS
  <2>2. /\ Shaped(a) /\ a.new \notin Tracked(Types)
        /\ a.old # NoFile => a.old \in Tracked(Types) /\ a.old # item.old
        /\ a.new # NoFile => a.new # item.new
    BY <1>1, <2>1 DEF Open
  <2>3. a # b => /\ a.new = b.new => a.new = NoFile
                 /\ a.old = b.old => a.old = NoFile
    BY <1>1, <2>1 DEF Open
  <2> QED
    BY <2>2, <2>3
<1>3. Open'
  BY <1>2 DEF Open, Shaped
<1>4. Advertised' = Advertised
  BY DEF Advertised, RemoteWage, RemoteOther, FilenameOf
<1>5. ASSUME current
      PROVE  /\ Advertised \ Tracked(Types)' = {a.new : a \in report'} \ {NoFile}
             /\ Tracked(Types)' \ Advertised = {a.old : a \in report'} \ {NoFile}
  <2> DEFINE news == {a.new : a \in report}
             olds == {a.old : a \in report}
  <2>1. /\ Advertised \ Tracked(Types) = news \ {NoFile}
        /\ Tracked(Types) \ Advertised = olds \ {NoFile}
    BY <1>1, <1>5 DEF Accounted
  <2>2. /\ {a.new : a \in report'} \ {NoFile} = news \ {NoFile, item.new}
        /\ {a.old : a \in report'} \ {NoFile} = olds \ {NoFile, item.old}
    BY <1>1 DEF Open
  <2>3. item.new \in news /\ item.old \in olds /\ item.new \notin Tracked(Types)
    BY <1>1 DEF Open
  <2>4. /\ item.new # NoFile => item.new \in Advertised
        /\ item.old # NoFile => item.old \notin Advertised
    BY <2>1, <2>3
  <2>5. NoFile \notin Tracked(Types) /\ NoFile \notin Advertised
    <3>1. page \in Pages /\ Linked
      BY DEF DriftIInv, DriftInv, DriftTypeOK
    <3> QED
      BY <3>1, RemoteFiles, TrackedFiles, NotAFile DEF Advertised
  <2> HIDE DEF news, olds
  <2> QED
    BY <2>1, <2>2, <2>3, <2>4, <2>5
<1>6. Accounted'
  BY <1>4, <1>5 DEF Accounted
<1> QED
  BY <1>3, <1>6

LEMMA PublishStep ==
    ASSUME DriftIInv, NEW p \in Pages, Publish(p)
    PROVE  DriftIInv'
<1>1. DriftTypeOK'
  BY DEF DriftIInv, DriftTypeOK, Publish
<1>2. Linked' /\ Named' /\ Stocked' /\ ToIngest' /\ Held'
  BY DEF DriftIInv, DriftInv, Publish, Linked, Named, Stocked, ToIngest, Held
<1>3. Open'
  BY DEF DriftIInv, DriftInv, Publish, Open, Shaped, Tracked
<1>4. Accounted'
  BY DEF Publish, Accounted
<1> QED
  BY <1>1, <1>2, <1>3, <1>4 DEF DriftIInv, DriftInv

LEMMA CheckStep ==
    ASSUME DriftIInv, Check
    PROVE  DriftIInv'
<1>1. DriftTypeOK /\ Linked
  BY DEF DriftIInv, DriftInv
<1>2. DriftTypeOK'
  <2>1. Report \subseteq Item
    BY <1>1, ItemShape
  <2> QED
    BY <1>1, <2>1 DEF DriftTypeOK, Check
<1>3. Linked' /\ Named' /\ Stocked' /\ ToIngest' /\ Held'
  BY DEF DriftIInv, DriftInv, Check, Linked, Named, Stocked, ToIngest, Held
<1>4. Tracked(Types)' = Tracked(Types) /\ Advertised' = Advertised /\ report' = Report
  BY DEF Check, Tracked, Advertised, RemoteWage, RemoteOther, FilenameOf
<1>5. Open'
  <2>1. ASSUME NEW a \in Report
        PROVE  /\ Shaped(a)
               /\ a.new \notin Tracked(Types)
               /\ a.old # NoFile => a.old \in Tracked(Types)
    BY <1>1, ItemShape, TrackedFiles, NotAFile
  <2>2. ASSUME NEW a \in Report, NEW b \in Report, a # b
        PROVE  /\ a.new = b.new => a.new = NoFile
               /\ a.old = b.old => a.old = NoFile
    BY <1>1, <2>2, ItemOnce
  <2> QED
    BY <1>4, <2>1, <2>2 DEF Open, Shaped
<1>6. /\ Advertised \ Tracked(Types) = {a.new : a \in Report} \ {NoFile}
      /\ Tracked(Types) \ Advertised = {a.old : a \in Report} \ {NoFile}
  <2>1. page \in Pages
    BY <1>1 DEF DriftTypeOK
  <2>2. NoFile \notin Tracked(Types) /\ NoFile \notin Advertised
    BY <1>1, <2>1, RemoteFiles, TrackedFiles, NotAFile DEF Advertised
  <2> QED
    BY <1>1, <2>2, ItemShape, ItemForAll
<1>7. Accounted'
  BY <1>4, <1>6 DEF Accounted
<1> QED
  BY <1>2, <1>3, <1>5, <1>7 DEF DriftIInv, DriftInv

\* A local name a curator finds is the file's, and has no entry.
LEMMA FreshName ==
    ASSUME NEW f \in File, Nameable(f)
    PROVE  /\ LocalFor(f) \in Local /\ LocalFor(f)[1] = f
           /\ LocalFor(f) \notin purge /\ \A e \in manifest : e.local # LocalFor(f)
BY DEF Nameable, Taken, LocalFor, Local

LEMMA ReissueStep ==
    ASSUME DriftIInv, NEW item \in report, Reissue(item)
    PROVE  DriftIInv'
<1> DEFINE new == LocalFor(item.new)
<1>1. /\ item.kind = "reissued" /\ Nameable(item.new) /\ report' = report \ {item}
      /\ UNCHANGED <<page, corpus, stored, current>>
  BY DEF Reissue
<1>2. PICK e \in manifest :
        /\ e.url = item.old
        /\ manifest' = (manifest \ {e}) \cup {[e EXCEPT !.url = item.new, !.local = new]}
        /\ ingest' = ingest \cup {new} /\ purge' = purge \cup {e.local}
  BY DEF Reissue, EntriesOf
<1>3. /\ item.old \in File /\ item.new \in File /\ item.new \notin Tracked(Types)
      /\ DriftTypeOK /\ Linked /\ Named /\ Stocked /\ Open /\ ToIngest /\ Held
  BY <1>1 DEF DriftIInv, DriftInv, Open, Shaped
<1>4. /\ new \in Local /\ new[1] = item.new
      /\ new \notin purge /\ \A d \in manifest : d.local # new
  BY <1>1, <1>3, FreshName
<1> HIDE DEF new
<1>5. PICK n : n = [e EXCEPT !.url = item.new, !.local = new]
  OBVIOUS
<1>6. /\ n \in Entry /\ n.url = item.new /\ n.local = new
      /\ manifest' = (manifest \ {e}) \cup {n} /\ manifest \subseteq Entry
  BY <1>2, <1>3, <1>4, <1>5 DEF DriftTypeOK, Entry
<1>7. DriftTypeOK'
  <2>1. manifest' \subseteq Entry /\ ingest' \subseteq Local /\ purge' \subseteq Local
    BY <1>2, <1>3, <1>4, <1>6 DEF DriftTypeOK, Entry
  <2> QED
    BY <1>1, <1>3, <2>1 DEF DriftTypeOK
<1>8. Tracked(Types) = {d.url : d \in manifest}
  BY <1>3, <1>6, Urls
<1>9. Linked'
  BY <1>3, <1>6, <1>8 DEF Linked
<1>10. Named'
  BY <1>2, <1>3, <1>4, <1>6 DEF Named
<1>11. Stocked'
  BY <1>1, <1>3 DEF Stocked
<1>12. Tracked(Types)' = (Tracked(Types) \ {item.old}) \cup ({item.new} \ {NoFile})
  <2>1. Tracked(Types)' = {d.url : d \in manifest'}
    BY <1>7, <1>9, NotAFile DEF Tracked, Linked, DriftTypeOK, Entry
  <2> QED
    BY <1>2, <1>3, <1>6, <1>8, <2>1, NotAFile DEF Linked
<1>13. Open' /\ Accounted'
  BY <1>1, <1>12, Settled
<1>14. ToIngest'
  <2>1. \A d \in manifest : d.local \in ingest => d # e
    BY <1>2, <1>3 DEF ToIngest
  <2>2. \A a \in report : a.old # item.new
    BY <1>3, NotAFile DEF Open
  <2> QED
    BY <1>1, <1>2, <1>3, <1>4, <1>6, <2>1, <2>2 DEF ToIngest
<1>15. Held'
  BY <1>1, <1>2, <1>3, <1>6 DEF Held
<1> QED
  BY <1>7, <1>9, <1>10, <1>11, <1>13, <1>14, <1>15 DEF DriftIInv, DriftInv

LEMMA RenameStep ==
    ASSUME DriftIInv, NEW item \in report, Rename(item)
    PROVE  DriftIInv'
<1>1. /\ item.kind = "reissued" /\ Content[item.old] = Content[item.new]
      /\ report' = report \ {item} /\ UNCHANGED <<page, corpus, stored, purge, current>>
  BY DEF Rename
<1>2. PICK e \in manifest :
        /\ e.url = item.old
        /\ manifest' = (manifest \ {e}) \cup {[e EXCEPT !.url = item.new]}
        /\ ingest' = ingest \cup {e.local}
  BY DEF Rename, EntriesOf
<1>3. /\ item.old \in File /\ item.new \in File /\ item.new \notin Tracked(Types)
      /\ DriftTypeOK /\ Linked /\ Named /\ Stocked /\ Open /\ ToIngest /\ Held
  BY <1>1 DEF DriftIInv, DriftInv, Open, Shaped
<1>4. PICK n : n = [e EXCEPT !.url = item.new]
  OBVIOUS
<1>5. /\ n \in Entry /\ n.url = item.new /\ n.local = e.local /\ e.local \in Local
      /\ manifest' = (manifest \ {e}) \cup {n} /\ manifest \subseteq Entry
  BY <1>2, <1>3, <1>4 DEF DriftTypeOK, Entry
<1>6. DriftTypeOK'
  <2>1. manifest' \subseteq Entry /\ ingest' \subseteq Local
    BY <1>2, <1>3, <1>5 DEF DriftTypeOK
  <2> QED
    BY <1>1, <1>3, <2>1 DEF DriftTypeOK
<1>7. Tracked(Types) = {d.url : d \in manifest}
  BY <1>3, <1>5, Urls
<1>8. Linked'
  BY <1>3, <1>5, <1>7 DEF Linked
<1>9. Named'
  BY <1>1, <1>2, <1>3, <1>5 DEF Named
<1>10. Stocked'
  BY <1>1, <1>3 DEF Stocked
<1>11. Tracked(Types)' = (Tracked(Types) \ {item.old}) \cup ({item.new} \ {NoFile})
  <2>1. Tracked(Types)' = {d.url : d \in manifest'}
    BY <1>6, <1>8, NotAFile DEF Tracked, Linked, DriftTypeOK, Entry
  <2> QED
    BY <1>2, <1>3, <1>5, <1>7, <2>1, NotAFile DEF Linked
<1>12. Open' /\ Accounted'
  BY <1>1, <1>11, Settled
<1>13. ToIngest'
  <2>1. \A d \in manifest \ {e} : d.local # e.local
    BY <1>3 DEF Named
  <2>2. \A a \in report : a.old # item.new
    BY <1>3, NotAFile DEF Open
  <2>3. e.local \notin ingest
    BY <1>2, <1>3 DEF ToIngest
  <2> QED
    BY <1>1, <1>2, <1>3, <1>5, <2>1, <2>2, <2>3 DEF ToIngest
<1>14. Held'
  BY <1>1, <1>2, <1>3, <1>5 DEF Held
<1> QED
  BY <1>6, <1>8, <1>9, <1>10, <1>12, <1>13, <1>14 DEF DriftIInv, DriftInv

LEMMA AddEntryStep ==
    ASSUME DriftIInv, NEW item \in report, AddEntry(item)
    PROVE  DriftIInv'
<1> DEFINE new == LocalFor(item.new)
           n == [url |-> item.new, local |-> new, type |-> Filed[item.new]]
<1>1. /\ item.kind \in {"new_wage", "new_other"} /\ Nameable(item.new)
      /\ manifest' = manifest \cup {n} /\ ingest' = ingest \cup {new}
      /\ report' = report \ {item} /\ UNCHANGED <<page, corpus, stored, purge, current>>
  BY DEF AddEntry
<1>2. /\ item.old = NoFile /\ item.new \in File /\ item.new \notin Tracked(Types)
      /\ DriftTypeOK /\ Linked /\ Named /\ Stocked /\ Open /\ ToIngest /\ Held
  BY <1>1 DEF DriftIInv, DriftInv, Open, Shaped
<1>3. /\ new \in Local /\ new[1] = item.new
      /\ new \notin purge /\ \A d \in manifest : d.local # new
  BY <1>1, <1>2, FreshName
<1> HIDE DEF new
<1>4. n \in Entry /\ n.url = item.new /\ n.local = new /\ manifest \subseteq Entry
  <2>1. Filed[item.new] \in Types
    BY <1>2, DriftAssumption DEF Types
  <2> QED
    BY <1>2, <1>3, <2>1 DEF DriftTypeOK, Entry
<1> HIDE DEF n
<1>5. DriftTypeOK'
  BY <1>1, <1>2, <1>3, <1>4 DEF DriftTypeOK
<1>6. Tracked(Types) = {d.url : d \in manifest}
  BY <1>2, <1>4, Urls
<1>7. Linked'
  BY <1>1, <1>2, <1>4, <1>6 DEF Linked
<1>8. Named'
  BY <1>1, <1>2, <1>3, <1>4 DEF Named
<1>9. Stocked'
  BY <1>1, <1>2 DEF Stocked
<1>10. Tracked(Types)' = (Tracked(Types) \ {item.old}) \cup ({item.new} \ {NoFile})
  <2>1. Tracked(Types)' = {d.url : d \in manifest'}
    BY <1>5, <1>7, NotAFile DEF Tracked, Linked, DriftTypeOK, Entry
  <2> QED
    BY <1>1, <1>2, <1>4, <1>6, <2>1, NotAFile DEF Linked
<1>11. Open' /\ Accounted'
  BY <1>1, <1>10, Settled
<1>12. ToIngest'
  <2>1. \A a \in report : a.old # item.new
    BY <1>2, NotAFile DEF Open
  <2> QED
    BY <1>1, <1>2, <1>3, <1>4, <2>1 DEF ToIngest
<1>13. Held'
  BY <1>1, <1>2, <1>4 DEF Held
<1> QED
  BY <1>5, <1>7, <1>8, <1>9, <1>11, <1>12, <1>13 DEF DriftIInv, DriftInv

LEMMA DropEntryStep ==
    ASSUME DriftIInv, NEW item \in report, DropEntry(item)
    PROVE  DriftIInv'
<1>1. /\ item.kind \in {"removed_wage", "removed_other"}
      /\ manifest' = manifest \ EntriesOf(item)
      /\ purge' = purge \cup {e.local : e \in EntriesOf(item)}
      /\ report' = report \ {item} /\ UNCHANGED <<page, corpus, stored, ingest, current>>
  BY DEF DropEntry
<1>2. /\ item.old \in File /\ item.new = NoFile
      /\ DriftTypeOK /\ Linked /\ Named /\ Stocked /\ Open /\ ToIngest /\ Held
  BY <1>1 DEF DriftIInv, DriftInv, Open, Shaped
<1>3. /\ manifest \subseteq Entry
      /\ \A e \in manifest : e \in EntriesOf(item) <=> e.url = item.old
      /\ EntriesOf(item) \subseteq manifest
  BY <1>2 DEF DriftTypeOK, EntriesOf
<1>4. DriftTypeOK'
  <2>1. manifest' \subseteq Entry /\ purge' \subseteq Local
    BY <1>1, <1>2, <1>3 DEF DriftTypeOK, Entry
  <2> QED
    BY <1>1, <1>2, <2>1 DEF DriftTypeOK
<1>5. Tracked(Types) = {d.url : d \in manifest}
  BY <1>2, <1>3, Urls
<1>6. Linked'
  BY <1>1, <1>2 DEF Linked
<1>7. Named'
  BY <1>1, <1>2, <1>3 DEF Named
<1>8. Stocked'
  BY <1>1, <1>2 DEF Stocked
<1>9. Tracked(Types)' = (Tracked(Types) \ {item.old}) \cup ({item.new} \ {NoFile})
  <2>1. Tracked(Types)' = {d.url : d \in manifest'}
    BY <1>4, <1>6, NotAFile DEF Tracked, Linked, DriftTypeOK, Entry
  <2> QED
    BY <1>1, <1>2, <1>3, <1>5, <2>1, NotAFile DEF Linked
<1>10. Open' /\ Accounted'
  BY <1>1, <1>9, Settled
<1>11. ToIngest'
  BY <1>1, <1>2, <1>3 DEF ToIngest
<1>12. Held'
  BY <1>1, <1>2, <1>3 DEF Held
<1> QED
  BY <1>4, <1>6, <1>7, <1>8, <1>10, <1>11, <1>12 DEF DriftIInv, DriftInv

\* A PDF that is downloaded is its entry's, and every entry has one.
LEMMA Downloads ==
    ASSUME DriftIInv
    PROVE  /\ DOMAIN Downloaded \subseteq Local
           /\ \A e \in manifest : e.local \in DOMAIN Downloaded
           /\ \A l \in DOMAIN Downloaded : Downloaded[l] = Content[l[1]]
<1> DEFINE missing == {e \in manifest : e.url # NoFile /\ e.local \notin DOMAIN corpus}
           places == DOMAIN corpus \cup {e.local : e \in missing}
           content(l) == IF l \in DOMAIN corpus THEN corpus[l]
                         ELSE Content[(CHOOSE e \in missing : e.local = l).url]
<1>1. Downloaded = [l \in places |-> content(l)]
  BY DEF Downloaded
<1>2. DOMAIN Downloaded = places /\ \A l \in places : Downloaded[l] = content(l)
  BY <1>1
<1>3. DriftTypeOK /\ Linked /\ Named /\ Stocked
  BY DEF DriftIInv, DriftInv
<1>4. places \subseteq Local
  BY <1>3 DEF DriftTypeOK, Entry
<1>5. \A e \in manifest : e.local \in places
  BY <1>3, NotAFile DEF Linked
<1>6. ASSUME NEW l \in places PROVE content(l) = Content[l[1]]
  <2>1. CASE l \in DOMAIN corpus
    BY <1>3, <2>1 DEF Stocked
  <2>2. CASE l \notin DOMAIN corpus
    <3>1. \E e \in missing : e.local = l
      BY <2>2
    <3>2. PICK e \in missing : e = CHOOSE d \in missing : d.local = l
      BY <3>1
    <3>3. e.local = l
      BY <3>1, <3>2
    <3>4. Content[e.url] = Content[l[1]]
      BY <1>3, <3>3 DEF Named
    <3> QED
      BY <2>2, <3>2, <3>4
  <2> QED
    BY <2>1, <2>2
<1> HIDE DEF places, content
<1> QED
  BY <1>2, <1>4, <1>5, <1>6

LEMMA ContentOf ==
    ASSUME NEW l \in Local
    PROVE  Content[l[1]] \in Contents
BY DEF Local, Contents

LEMMA IngestStep ==
    ASSUME DriftIInv, Ingest
    PROVE  DriftIInv'
<1>1. DriftTypeOK /\ Linked /\ Named /\ Stocked /\ ToIngest /\ Held
  BY DEF DriftIInv, DriftInv
<1>2. /\ corpus' = Downloaded /\ ingest' = {} /\ report = {}
      /\ stored' = [l \in DOMAIN stored \cup (ingest \cap DOMAIN Downloaded) |->
                    IF l \in ingest THEN Downloaded[l] ELSE stored[l]]
      /\ UNCHANGED <<page, manifest, report, purge, current>>
  BY DEF Ingest
<1>3. /\ DOMAIN Downloaded \subseteq Local
      /\ \A e \in manifest : e.local \in DOMAIN Downloaded
      /\ \A l \in DOMAIN Downloaded : Downloaded[l] = Content[l[1]]
  BY Downloads
<1>4. ingest \subseteq DOMAIN Downloaded
  BY <1>1, <1>3 DEF ToIngest
<1>5. /\ DOMAIN stored' = DOMAIN stored \cup ingest
      /\ \A l \in DOMAIN stored' : stored'[l] = Content[l[1]]
  <2>1. DOMAIN stored' = DOMAIN stored \cup ingest
    BY <1>2, <1>4
  <2>2. ASSUME NEW l \in DOMAIN stored \cup ingest
        PROVE  stored'[l] = IF l \in ingest THEN Downloaded[l] ELSE stored[l]
    BY <1>2, <1>4
  <2> QED
    BY <1>1, <1>3, <1>4, <2>1, <2>2 DEF Stocked
<1>6. DriftTypeOK'
  <2>1. DOMAIN corpus' \subseteq Local /\ DOMAIN stored' \subseteq Local
    BY <1>1, <1>2, <1>3, <1>5 DEF DriftTypeOK
  <2>2. Range(corpus') \subseteq Contents
    BY <1>2, <1>3, <2>1, ContentOf DEF Range
  <2>3. Range(stored') \subseteq Contents
    BY <1>5, <2>1, ContentOf DEF Range
  <2> QED
    BY <1>1, <1>2, <2>1, <2>2, <2>3 DEF DriftTypeOK
<1>7. Linked' /\ Named'
  BY <1>1, <1>2 DEF Linked, Named
<1>8. Stocked'
  BY <1>2, <1>3, <1>5 DEF Stocked
<1>9. ToIngest' /\ Held'
  <2>1. \A l \in ingest : \E e \in manifest : e.local = l
    BY <1>1 DEF ToIngest
  <2> QED
    BY <1>1, <1>2, <1>5, <2>1 DEF ToIngest, Held
<1>10. Open' /\ Accounted'
  <2>1. Open /\ Accounted
    BY DEF DriftIInv, DriftInv
  <2> QED
    BY <1>2, <2>1 DEF Open, Shaped, Accounted, Tracked, Advertised, RemoteWage, RemoteOther, FilenameOf
<1> QED
  BY <1>6, <1>7, <1>8, <1>9, <1>10 DEF DriftIInv, DriftInv

LEMMA DriftPurgeStep ==
    ASSUME DriftIInv, Purge
    PROVE  DriftIInv'
<1>1. DriftTypeOK /\ Linked /\ Named /\ Stocked /\ ToIngest /\ Held
  BY DEF DriftIInv, DriftInv
<1>2. /\ purge' = {} /\ UNCHANGED <<page, manifest, corpus, report, ingest, current>>
      /\ DOMAIN stored' = DOMAIN stored \ purge
      /\ \A l \in DOMAIN stored' : stored'[l] = stored[l]
  BY DEF Purge, Restrict
<1>3. DriftTypeOK'
  <2>1. DOMAIN stored' \subseteq Local /\ Range(stored') \subseteq Contents
    BY <1>1, <1>2 DEF DriftTypeOK, Range
  <2> QED
    BY <1>1, <1>2, <2>1 DEF DriftTypeOK
<1>4. Linked' /\ Named'
  BY <1>1, <1>2 DEF Linked, Named
<1>5. Stocked'
  BY <1>1, <1>2 DEF Stocked
<1>6. ToIngest'
  BY <1>1, <1>2 DEF ToIngest
<1>7. Held'
  BY <1>1, <1>2 DEF Held, Named
<1>8. Open' /\ Accounted'
  <2>1. Open /\ Accounted
    BY DEF DriftIInv, DriftInv
  <2> QED
    BY <1>2, <2>1 DEF Open, Shaped, Accounted, Tracked, Advertised, RemoteWage, RemoteOther, FilenameOf
<1> QED
  BY <1>3, <1>4, <1>5, <1>6, <1>7, <1>8 DEF DriftIInv, DriftInv

LEMMA DriftStep ==
    ASSUME DriftIInv, [DriftNext]_driftVars
    PROVE  DriftIInv'
<1>1. CASE \E p \in Pages : Publish(p)
  BY <1>1, PublishStep
<1>2. CASE Check
  BY <1>2, CheckStep
<1>3. CASE Ingest
  BY <1>3, IngestStep
<1>4. CASE Purge
  BY <1>4, DriftPurgeStep
<1>5. ASSUME NEW item \in report, Reissue(item) \/ Rename(item) \/ AddEntry(item) \/ DropEntry(item)
      PROVE  DriftIInv'
  BY <1>5, ReissueStep, RenameStep, AddEntryStep, DropEntryStep
<1>6. CASE UNCHANGED driftVars
  <2>1. DriftTypeOK /\ DriftInv
    BY DEF DriftIInv
  <2>2. DriftTypeOK' /\ Linked' /\ Named' /\ Stocked' /\ ToIngest' /\ Held'
    BY <1>6, <2>1 DEF driftVars, DriftTypeOK, DriftInv, Linked, Named, Stocked, ToIngest, Held
  <2>3. Open' /\ Accounted'
    BY <1>6, <2>1 DEF driftVars, DriftInv, Open, Shaped, Accounted, Tracked, Advertised, RemoteWage,
                      RemoteOther, FilenameOf
  <2> QED
    BY <2>2, <2>3 DEF DriftIInv, DriftInv
<1> QED
  BY <1>1, <1>2, <1>3, <1>4, <1>5, <1>6 DEF DriftNext

-----------------------------------------------------------------------------
(* Theorems                                                                *)

\* The invariant holds of every history of pages, checks and edits.
THEOREM DriftReachable == DriftSpec => []DriftIInv
<1>1. DriftInit => DriftIInv
  BY DriftInitInv
<1>2. DriftIInv /\ [DriftNext]_driftVars => DriftIInv'
  BY DriftStep
<1> QED
  BY <1>1, <1>2, PTL DEF DriftSpec

\* The manifest, the files, the rows and the report keep their types; above all, a report
\* has only items of known kinds, and the store only contents the publisher has.
THEOREM DriftTypeCorrect == DriftSpec => []DriftTypeOK
<1>1. DriftIInv => DriftTypeOK
  BY DEF DriftIInv
<1> QED
  BY <1>1, DriftReachable, PTL

\* Whatever the page shows and however the manifest came about, build_drift_report puts
\* every difference in exactly one item and pairs all that one identity has on both sides.
THEOREM Accounts == DriftSpec => []DriftAccounted
<1>1. DriftIInv => DriftAccounted
  BY AccountsOnce DEF DriftIInv, DriftInv
<1> QED
  BY <1>1, DriftReachable, PTL

\* A report worked off along the runbook leaves a clean check, and a store that is what
\* the page shows.
THEOREM WorkedOff == DriftSpec => []WorkedOffIsCurrent
<1>1. ASSUME DriftIInv, current, report = {}, ingest = {}, purge = {}
      PROVE  ~HasDrift /\ Range(stored) = {Content[f] : f \in Advertised}
  <2>1. DriftTypeOK /\ Linked /\ Named /\ Stocked /\ Held /\ Accounted
    BY <1>1 DEF DriftIInv, DriftInv
  <2>2. Advertised = Tracked(Types)
    <3>1. NoFile \notin Advertised /\ NoFile \notin Tracked(Types)
      BY <2>1, RemoteFiles, TrackedFiles, NotAFile DEF Advertised, DriftTypeOK
    <3> QED
      BY <1>1, <2>1, <3>1 DEF Accounted
  <2>3. Report = {}
    <3> SUFFICES ASSUME NEW item \in Report PROVE FALSE
      OBVIOUS
    <3>1. Shaped(item) /\ item.new = NoFile /\ item.old = NoFile
      BY <2>1, <2>2, ItemShape
    <3> QED
      BY <3>1, NotAFile DEF Shaped
  <2>4. Tracked(Types) = {e.url : e \in manifest}
    BY <2>1, Urls DEF DriftTypeOK
  <2>5. DOMAIN stored = {e.local : e \in manifest}
    BY <1>1, <2>1 DEF Held
  <2>6. \A e \in manifest : stored[e.local] = Content[e.url]
    BY <2>1, <2>5 DEF Stocked, Named
  <2>7. Range(stored) = {Content[e.url] : e \in manifest}
    BY <2>5, <2>6 DEF Range
  <2> QED
    BY <2>2, <2>3, <2>4, <2>7 DEF HasDrift
<1>2. DriftIInv => WorkedOffIsCurrent
  BY <1>1 DEF WorkedOffIsCurrent
<1> QED
  BY <1>2, DriftReachable, PTL
=============================================================================

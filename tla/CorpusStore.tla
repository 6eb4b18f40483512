---------------------------- MODULE CorpusStore ----------------------------
(***************************************************************************)
(* The two stores of the corpus and the operator runs that write them:     *)
(* store_document (services/ingestion/store.py) and purge_documents        *)
(* (services/ingestion/purge_documents.py).  A document is a row of the    *)
(* PostgreSQL table documents plus its points in the Qdrant collection;    *)
(* no transaction spans both, and queries read the points at any moment.   *)
(* Runs are started by hand, may overlap, and may die between two calls.   *)
(***************************************************************************)
EXTENDS Integers, Sequences, FiniteSets

CONSTANTS Proc,     \* processes that may be running
          Name,     \* source_filenames
          Version,  \* contents a file may have
          Chunks,   \* chunks the pipeline cuts a content into, none perhaps
          MaxIds,   \* bound of the model: rows ever inserted
          None      \* no version

ASSUME CorpusAssumption ==
    /\ Chunks \in [Version -> Nat]
    /\ MaxIds \in Nat
    /\ None \notin Version

ASSUME OutcomeAssumption == Version \cap {"absent", "cut short"} = {}

Id == 1..MaxIds
Row == [id : Id, name : Name, ver : Version]
StoreSteps == {"select", "write", "delete", "upsert", "stored"}
PurgeSteps == {"resolve", "points", "row", "purged"}

VARIABLES
    rows,     \* table documents: the file_hash is the version
    points,   \* points of each document_id
    pc,       \* next step of each process
    names,    \* files a run is about: one of a store, several of a purge
    ver,      \* content a store is about
    doc,      \* document_id at hand, 0 if none; a store at "write" has it locked
    pending,  \* matches a purge has still to delete
    born,     \* history: name each document_id was inserted under
    outcome,  \* history: what the last run on each file achieved
    raced     \* history: kinds of runs that overlapped on each file

vars == <<rows, points, pc, names, ver, doc, pending, born, outcome, raced>>

Point == [i : Nat \ {0}, v : Version]

TypeOK ==
    /\ rows \in SUBSET Row
    /\ points \in [Id -> SUBSET Point]
    /\ \A d \in Id : \A a, b \in points[d] : a.i = b.i => a = b
    /\ pc \in [Proc -> {"idle"} \cup StoreSteps \cup PurgeSteps]
    /\ names \in [Proc -> SUBSET Name]
    /\ ver \in [Proc -> Version \cup {None}]
    /\ doc \in [Proc -> Id \cup {0}]
    /\ pending \in [Proc -> SUBSET Id]
    /\ born \in Seq(Name) /\ Len(born) <= MaxIds
    /\ outcome \in [Name -> Version \cup {"absent", "cut short"}]
    /\ raced \in [Name -> SUBSET {"store and store", "store and purge"}]

Init ==
    /\ rows = {}
    /\ points = [d \in Id |-> {}]
    /\ pc = [p \in Proc |-> "idle"]
    /\ names = [p \in Proc |-> {}]
    /\ ver = [p \in Proc |-> None]
    /\ doc = [p \in Proc |-> 0]
    /\ pending = [p \in Proc |-> {}]
    /\ born = <<>>
    /\ outcome = [n \in Name |-> "absent"]
    /\ raced = [n \in Name |-> {}]

-----------------------------------------------------------------------------
Goto(p, step) == pc' = [pc EXCEPT ![p] = step]

RowsOf(N) == {r \in rows : r.name \in N}

\* A SELECT ... FOR UPDATE holds the row until its transaction ends.
Locked(d) == \E p \in Proc : pc[p] = "write" /\ doc[p] = d

\* _build_points: ids are derived from document_id and chunk_index, so a point is
\* overwritten in place.
Full(v) == {[i |-> k, v |-> v] : k \in 1..Chunks[v]}
Overwrite(old, v) == {a \in old : a.i > Chunks[v]} \cup Full(v)

\* History: a run of a kind starts on the files N beside those that are active.
Meeting(n, kind) ==
    LET Active(steps) == \E p \in Proc : pc[p] \in steps /\ n \in names[p]
    IN  {m \in {"store and store", "store and purge"} :
            \/ kind = "store" /\ m = "store and store" /\ Active(StoreSteps)
            \/ kind = "store" /\ m = "store and purge" /\ Active(PurgeSteps)
            \/ kind = "purge" /\ m = "store and purge" /\ Active(StoreSteps)}

Begin(p, N, kind) ==
    /\ pc[p] = "idle"
    /\ names' = [names EXCEPT ![p] = N]
    /\ outcome' = [n \in Name |-> IF n \in N THEN "cut short" ELSE outcome[n]]
    /\ raced' = [n \in Name |->
                    IF n \in N THEN raced[n] \cup Meeting(n, kind) ELSE raced[n]]

\* The process ends: its run has done what it was for, or not.
End(p, result) ==
    /\ Goto(p, "idle")
    /\ names' = [names EXCEPT ![p] = {}]
    /\ ver' = [ver EXCEPT ![p] = None]
    /\ doc' = [doc EXCEPT ![p] = 0]
    /\ pending' = [pending EXCEPT ![p] = {}]
    /\ outcome' = [n \in Name |-> IF n \in names[p] THEN result ELSE outcome[n]]
    /\ UNCHANGED <<rows, points, born, raced>>

-----------------------------------------------------------------------------
(* store_document                                                          *)

BeginStore(p, n, v) ==
    /\ Begin(p, {n}, "store")
    /\ Goto(p, "select")
    /\ ver' = [ver EXCEPT ![p] = v]
    /\ UNCHANGED <<rows, points, doc, pending, born>>

\* Faulty form: the row is not looked up.
SelectNothing(p) ==
    /\ pc[p] = "select"
    /\ Goto(p, "write")
    /\ UNCHANGED <<rows, points, names, ver, doc, pending, born, outcome, raced>>

\* SELECT id ... FOR UPDATE, first row only: it waits while another run has that row.
Select(p) ==
    /\ pc[p] = "select"
    /\ \/ RowsOf(names[p]) = {} /\ doc' = doc
       \/ \E r \in RowsOf(names[p]) : ~Locked(r.id) /\ doc' = [doc EXCEPT ![p] = r.id]
    /\ Goto(p, "write")
    /\ UNCHANGED <<rows, points, names, ver, pending, born, outcome, raced>>

\* Faulty form: a content whose hash the row already has is not stored again.
AfterWriteUnchanged(p) ==
    LET known == \E r \in rows : r.id = doc[p] /\ r.ver = ver[p]
    IN  Goto(p, IF known \/ Chunks[ver[p]] = 0 THEN "stored" ELSE "delete")

\* After the commit: without chunks the points are left as they are.
AfterWrite(p) == Goto(p, IF Chunks[ver[p]] = 0 THEN "stored" ELSE "delete")

\* UPDATE the row that was found, and commit.
WriteUpdate(p) ==
    /\ pc[p] = "write" /\ doc[p] # 0
    /\ rows' = {[r EXCEPT !.ver = IF r.id = doc[p] THEN ver[p] ELSE @] : r \in rows}
    /\ AfterWrite(p)
    /\ UNCHANGED <<points, names, ver, doc, pending, born, outcome, raced>>

\* INSERT a row, and commit: nothing but the id is unique.
WriteInsert(p) ==
    /\ pc[p] = "write" /\ doc[p] = 0
    /\ Len(born) < MaxIds
    /\ \E n \in names[p] :
         /\ rows' = rows \cup {[id |-> Len(born) + 1, name |-> n, ver |-> ver[p]]}
         /\ born' = Append(born, n)
    /\ doc' = [doc EXCEPT ![p] = Len(born) + 1]
    /\ AfterWrite(p)
    /\ UNCHANGED <<points, names, ver, pending, outcome, raced>>

\* Faulty form: the old points are left for the upsert to overwrite.
DeleteNothing(p) ==
    /\ pc[p] = "delete"
    /\ Goto(p, "upsert")
    /\ UNCHANGED <<rows, points, names, ver, doc, pending, born, outcome, raced>>

\* qdrant.delete by document_id
DeletePoints(p) ==
    /\ pc[p] = "delete"
    /\ points' = [points EXCEPT ![doc[p]] = {}]
    /\ Goto(p, "upsert")
    /\ UNCHANGED <<rows, names, ver, doc, pending, born, outcome, raced>>

\* qdrant.upsert of all points
Upsert(p) ==
    /\ pc[p] = "upsert"
    /\ points' = [points EXCEPT ![doc[p]] = Overwrite(@, ver[p])]
    /\ Goto(p, "stored")
    /\ UNCHANGED <<rows, names, ver, doc, pending, born, outcome, raced>>

FinishStore(p) == pc[p] = "stored" /\ End(p, ver[p])

-----------------------------------------------------------------------------
(* purge_documents                                                         *)

BeginPurge(p, N) ==
    /\ Begin(p, N, "purge")
    /\ Goto(p, "resolve")
    /\ UNCHANGED <<rows, points, ver, doc, pending, born>>

\* _resolve_document_ids
Resolve(p) ==
    LET matches == {r.id : r \in RowsOf(names[p])}
    IN  /\ pc[p] = "resolve"
        /\ pending' = [pending EXCEPT ![p] = matches]
        /\ Goto(p, IF matches = {} THEN "purged" ELSE "points")
        /\ UNCHANGED <<rows, points, names, ver, doc, born, outcome, raced>>

\* Faulty form: the points are expected to go with the row.
PurgeNoPoints(p) ==
    /\ pc[p] = "points"
    /\ \E d \in pending[p] : doc' = [doc EXCEPT ![p] = d]
    /\ Goto(p, "row")
    /\ UNCHANGED <<rows, points, names, ver, pending, born, outcome, raced>>

\* qdrant.delete of the next match
PurgePoints(p) ==
    /\ pc[p] = "points"
    /\ \E d \in pending[p] :
         /\ doc' = [doc EXCEPT ![p] = d]
         /\ points' = [points EXCEPT ![d] = {}]
    /\ Goto(p, "row")
    /\ UNCHANGED <<rows, names, ver, pending, born, outcome, raced>>

\* DELETE FROM documents: waits for the row's lock, and does nothing if the row is gone.
PurgeRow(p) ==
    /\ pc[p] = "row"
    /\ ~Locked(doc[p])
    /\ rows' = {r \in rows : r.id # doc[p]}
    /\ pending' = [pending EXCEPT ![p] = @ \ {doc[p]}]
    /\ doc' = [doc EXCEPT ![p] = 0]
    /\ Goto(p, IF pending[p] = {doc[p]} THEN "purged" ELSE "points")
    /\ UNCHANGED <<points, names, ver, born, outcome, raced>>

FinishPurge(p) == pc[p] = "purged" /\ End(p, "absent")

-----------------------------------------------------------------------------
\* The process dies or a call fails: an open transaction is rolled back, a call that
\* was answered has had its effect.  Nothing is undone; the operator may run it again.
Crash(p) == pc[p] # "idle" /\ End(p, "cut short")

StoreStep(p) ==
    \/ \E n \in Name, v \in Version : BeginStore(p, n, v)
    \/ Select(p) \/ WriteUpdate(p) \/ WriteInsert(p)
    \/ DeletePoints(p) \/ Upsert(p) \/ FinishStore(p)

PurgeStep(p) ==
    \/ \E N \in SUBSET Name \ {{}} : BeginPurge(p, N)
    \/ Resolve(p) \/ PurgePoints(p) \/ PurgeRow(p) \/ FinishPurge(p)

Next == \E p \in Proc : StoreStep(p) \/ PurgeStep(p) \/ Crash(p)

Spec == Init /\ [][Next]_vars

-----------------------------------------------------------------------------
(* Properties                                                              *)

IdsOf(n) == {d \in DOMAIN born : born[d] = n}
HasRow(d) == \E r \in rows : r.id = d

\* A file has one row, whatever crashes and whatever is purged, as long as no two
\* stores of it overlap (store.py:116-161).
OneRowPerFile ==
    \A n \in Name : "store and store" \notin raced[n] =>
        \A r, s \in RowsOf({n}) : r = s

\* What queries can find of a document belongs to a row, so that a purge can still
\* reach it, as long as no purge of the file overlaps a store of it: the row goes in
\* first and comes out last (store.py:255-289, purge_documents.py:84-86).
NothingOrphaned ==
    \A n \in Name : "store and purge" \notin raced[n] =>
        \A d \in IdsOf(n) : points[d] # {} => HasRow(d)

\* Queries find either nothing of a document or all the chunks of one content of it,
\* never a mixture of two ingests (store.py:279-282), as long as no two stores of the
\* file overlap.
WholeOrNothing ==
    \A n \in Name : "store and store" \notin raced[n] =>
        \A d \in IdsOf(n) : points[d] # {} => \E v \in Version : points[d] = Full(v)

\* Once a run on a file has gone through, the file is as that run meant it to be, from
\* whatever state earlier crashes had left: stored, in one row and exactly its chunks,
\* or gone without a trace; as long as runs on it do not overlap.  A content without
\* chunks is excepted: it leaves the points of the previous one (store.py:273-274).
CleanRunsStand ==
    \A n \in Name : raced[n] = {} =>
        /\ outcome[n] = "absent" =>
             RowsOf({n}) = {} /\ \A d \in IdsOf(n) : points[d] = {}
        /\ \A v \in Version : outcome[n] = v =>
             \E d \in IdsOf(n) :
                /\ RowsOf({n}) = {[id |-> d, name |-> n, ver |-> v]}
                /\ Chunks[v] > 0 => points[d] = Full(v)
                /\ \A e \in IdsOf(n) \ {d} : points[e] = {}

\* What a search can find of a file.
Found(n) == UNION {points[d] : d \in IdsOf(n)}

\* Storing and purging amount to taking files out of a library and putting them in, one
\* indivisible step each, and telling the truth about it (store.py:255-289,
\* purge_documents.py:80-94), as long as runs on a file do not overlap.
Promise == INSTANCE Library WITH Text <- [v \in Version |-> Full(v)],
                                 found <- [n \in Name |-> Found(n)],
                                 told <- outcome,
                                 shared <- {n \in Name : raced[n] # {}}
ImplementsLibrary == Promise!Spec
=============================================================================

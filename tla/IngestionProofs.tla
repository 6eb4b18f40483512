-------------------------- MODULE IngestionProofs --------------------------
(***************************************************************************)
(* What Ingestion keeps true of the files on disk, for every manifest,     *)
(* number of runs and number of editions.  The history marred says which   *)
(* runs have been at a file at once; as long as none have, a file's .tmp   *)
(* is its writer's, and the cache can only move forward: the edition the   *)
(* sidecar records is never later than the one the Markdown was converted  *)
(* from, and that one never later than the newest there has been.          *)
(***************************************************************************)
EXTENDS Ingestion, TLAPS

Edition == 1..Editions

\* TypeOK but for the queue of a run, which is cut from the manifest recursively.
Typed ==
    /\ served \in [Name -> Edition]
    /\ pdf \in [Name -> File] /\ part \in [Name -> File]
    /\ md \in [Name -> File] /\ mdTmp \in [Name -> File]
    /\ sidecar \in [Name -> File] /\ sideTmp \in [Name -> File]
    /\ row \in [Name -> [hash : File, text : File]]
    /\ pc \in [Proc -> Steps]
    /\ DOMAIN todo = Proc
    /\ selected \in [Proc -> SUBSET Name]
    /\ dry \in [Proc -> BOOLEAN]
    /\ hash \in [Proc -> File] /\ held \in [Proc -> File]
    /\ newest \in [Name -> 0..Editions]
    /\ marred \in [Name -> SUBSET {"two downloads", "two conversions", "back"}]

\* Runs that have not met at a file do not.
Apart ==
    \A n \in Name :
        /\ "two downloads" \notin marred[n] =>
             \A p, q \in Proc : Within(p, Saving, n) /\ Within(q, Saving, n) => p = q
        /\ "two conversions" \notin marred[n] =>
             \A p, q \in Proc : Within(p, Conversion, n) /\ Within(q, Conversion, n) => p = q

\* A response is whole, and so is the .tmp that is about to be renamed.
Saved ==
    /\ \A p \in Proc : pc[p] \in Saving => held[p] \in Edition
    /\ \A n \in Name : "two downloads" \notin marred[n] =>
         \A p \in Proc : At(p, "rename", n) => part[n] = held[p]

\* A file that has never gone back is the newest, if it is whole.
Forward == \A n \in Name : "back" \notin marred[n] /\ Whole(n) => pdf[n] = newest[n]

\* The cache of a sound file: sidecar, Markdown and file, each no later than the next.
Cached ==
    \A n \in Converted : Sound(n) =>
        /\ md[n] # Torn /\ md[n] <= newest[n]
        /\ sidecar[n] # Torn => sidecar[n] <= md[n]

\* Edition e is not later than f; of the hash of a torn file nothing is said.
Upto(e, f) == e # Torn => e <= f

\* What a run holds of a sound file at each step of its conversion.
AtHand(p, n) ==
    /\ Within(p, {"look"} \cup Conversion, n) => Upto(hash[p], newest[n])
    /\ Within(p, {"write md", "rename md", "store"}, n) =>
         held[p] \in Edition /\ held[p] <= newest[n] /\ Upto(hash[p], held[p])
    /\ Within(p, {"write md", "rename md"}, n) => md[n] <= held[p]
    /\ At(p, "rename md", n) => mdTmp[n] = held[p]
    /\ Within(p, {"write sidecar", "rename sidecar", "reread"}, n) =>
         md[n] \in Edition /\ Upto(hash[p], md[n])
    /\ At(p, "rename sidecar", n) => sideTmp[n] = hash[p]

Carried == \A n \in Converted : Sound(n) => \A p \in Proc : AtHand(p, n)

IInv == Typed /\ Apart /\ Saved /\ NothingTorn /\ Forward /\ Cached /\ Carried

Step(p) == Download(p) \/ Cache(p) \/ Drive(p)
World(n) == Publish(n) \/ PlacePdf(n) \/ RemovePdf(n)

LEMMA Steppers ==
    Next => (\E p \in Proc : Step(p)) \/ (\E n \in Name : World(n))
BY DEF Next, Step, World

LEMMA Bounds == /\ Editions \in Nat /\ Editions >= 1
                /\ Gone = 0 /\ Torn = Editions + 1 /\ File = 0..(Editions + 1)
BY IngestionAssumption DEF Gone, Torn, File

LEMMA Contents ==
    /\ Gone \in File /\ Torn \in File /\ Gone # Torn
    /\ \A e \in Edition : e \in File /\ e \in 0..Editions /\ e # Gone /\ e # Torn
    /\ \A f \in File : f = Gone \/ f = Torn \/ f \in Edition
<1>1. \A f \in 0..(Editions + 1) : f = 0 \/ f = Editions + 1 \/ f \in 1..Editions
  BY Bounds
<1> QED
  BY <1>1, Bounds DEF Edition

LEMMA Numbers ==
    /\ \A e \in File : e \in Int
    /\ \A e \in Edition : e \in Int
    /\ \A e \in 0..Editions : e \in Int
BY Bounds DEF Edition

LEMMA Names == Linked \subseteq Name /\ Converted \subseteq Name
BY IngestionAssumption

LEMMA StepNames ==
    /\ "idle" \in Steps /\ "probe" \in Steps /\ "open" \in Steps
    /\ "look" \in Steps /\ "reread" \in Steps /\ "store" \in Steps
    /\ Saving \subseteq Steps /\ Conversion \subseteq Steps
BY DEF Steps

-----------------------------------------------------------------------------
LEMMA InitInv == Init => IInv
<1> SUFFICES ASSUME Init PROVE IInv
  OBVIOUS
<1>1. Typed
  BY Bounds DEF Init, Typed, Steps, NoRow, Edition
<1>2. Apart /\ Saved
  BY DEF Init, Apart, Saved, At, Within, Saving, Conversion
<1>3. NothingTorn /\ Forward
  BY Bounds DEF Init, NothingTorn, Forward, Whole
<1>4. Cached
  BY Bounds, IngestionAssumption DEF Init, Cached
<1>5. Carried
  BY DEF Init, Carried, AtHand, At, Within, Conversion
<1> QED
  BY <1>1, <1>2, <1>3, <1>4, <1>5 DEF IInv

-----------------------------------------------------------------------------
(* Types                                                                   *)

\* The state of a run keeps its types when the run ends or goes on.
LEMMA RunTyped ==
    ASSUME Typed, NEW p \in Proc, NEW step \in Steps, NEW content \in File,
           End(p) \/ NextEntry(p, step) \/ Continue(p, step, content)
    PROVE  /\ pc' \in [Proc -> Steps] /\ DOMAIN todo' = Proc
           /\ selected' \in [Proc -> SUBSET Name] /\ dry' \in [Proc -> BOOLEAN]
           /\ hash' \in [Proc -> File] /\ held' \in [Proc -> File]
<1>1. pc' \in [Proc -> Steps]
  BY StepNames DEF Typed, End, NextEntry, Continue, Goto
<1>4. DOMAIN todo' = Proc
  BY DEF Typed, End, NextEntry, Continue
<1>2. selected' \in [Proc -> SUBSET Name] /\ dry' \in [Proc -> BOOLEAN]
  BY Zenon DEF Typed, End, NextEntry, Continue
<1>3. hash' \in [Proc -> File]
  BY Contents DEF Typed, End, NextEntry, Continue
<1>5. held' \in [Proc -> File]
  BY Contents DEF Typed, End, NextEntry, Continue
<1> QED
  BY <1>1, <1>2, <1>3, <1>4, <1>5

LEMMA PutTyped ==
    ASSUME Typed, NEW n \in Name, NEW content \in File, PutPdf(n, content)
    PROVE  /\ pdf' \in [Name -> File] /\ newest' \in [Name -> 0..Editions]
           /\ marred' \in [Name -> SUBSET {"two downloads", "two conversions", "back"}]
<1>1. pdf' \in [Name -> File]
  BY DEF Typed, PutPdf
<1>2. newest' \in [Name -> 0..Editions]
  <2>1. \A e \in 1..Editions : e \in 0..Editions
    BY Bounds
  <2> QED
    BY <2>1 DEF Typed, PutPdf
<1>3. marred' \in [Name -> SUBSET {"two downloads", "two conversions", "back"}]
  BY DEF Typed, PutPdf
<1> QED
  BY <1>1, <1>2, <1>3

LEMMA DownloadTyped == ASSUME Typed, NEW p \in Proc, Download(p) PROVE Typed'
<1>1. CASE SkipDownload(p)
  BY <1>1, RunTyped, Contents, StepNames DEF Typed, SkipDownload, disk
<1>2. CASE Fetch(p)
  <2>1. PICK n \in Linked : Fetch(p)!(n)
    BY <1>2 DEF Fetch
  <2>2. n \in Name /\ served[n] \in File
    BY Names, Contents DEF Typed
  <2>3. "save" \in Steps
    BY StepNames DEF Saving
  <2>4. marred' \in [Name -> SUBSET {"two downloads", "two conversions", "back"}]
    BY <2>1, <2>2 DEF Typed
  <2> QED
    BY <2>1, <2>2, <2>3, <2>4, RunTyped DEF Typed
<1>3. CASE SavePdf(p)
  <2>1. PICK n \in Name, whole \in BOOLEAN : SavePdf(p)!(n, whole)
    BY <1>3 DEF SavePdf
  <2>2. "rename" \in Steps /\ held[p] \in File /\ Torn \in File
    BY StepNames, Contents DEF Saving, Typed
  <2> QED
    BY <2>1, <2>2, RunTyped DEF Typed
<1>4. CASE RenamePdf(p)
  <2>1. PICK n \in Name : RenamePdf(p)!(n)
    BY <1>4 DEF RenamePdf
  <2>2. "unlink" \in Steps /\ held[p] \in File /\ part[n] \in File /\ Gone \in File
    BY StepNames, Contents DEF Saving, Typed
  <2> QED
    BY <2>1, <2>2, RunTyped, PutTyped DEF Typed
<1>5. CASE UnlinkPart(p)
  BY ZenonT(40), <1>5, Contents, StepNames, RunTyped DEF Typed, UnlinkPart
<1> QED
  BY <1>1, <1>2, <1>3, <1>4, <1>5 DEF Download

LEMMA CacheTyped == ASSUME Typed, NEW p \in Proc, Cache(p) PROVE Typed'
<1> USE Names, Contents
<1>1. CASE TakeHash(p)
  <2>1. PICK n \in Converted : TakeHash(p)!(n)
    BY <1>1 DEF TakeHash
  <2>2. hash' \in [Proc -> File]
    BY <2>1 DEF Typed
  <2>3. pc' \in [Proc -> Steps]
    BY <2>1, StepNames DEF Typed, Goto
  <2> QED
    BY <2>1, <2>2, <2>3 DEF Typed, disk
<1>2. CASE Look(p)
  <2>1. PICK n \in Converted : Look(p)!(n)
    BY <1>2 DEF Look
  <2>2. marred' \in [Name -> SUBSET {"two downloads", "two conversions", "back"}]
    BY <2>1 DEF Typed
  <2>3. pc' \in [Proc -> Steps]
    BY <2>1, StepNames DEF Typed, Goto, Conversion
  <2> QED
    BY <2>1, <2>2, <2>3 DEF Typed
<1>3. CASE Convert(p)
  BY <1>3, StepNames, RunTyped DEF Typed, Convert, disk, Conversion
<1>4. CASE WriteMd(p)
  <2>1. PICK n \in Converted, whole \in BOOLEAN : WriteMd(p)!(n, whole)
    BY <1>4 DEF WriteMd
  <2>2. "rename md" \in Steps /\ held[p] \in File
    BY StepNames DEF Conversion, Typed
  <2> QED
    BY <2>1, <2>2, RunTyped DEF Typed
<1>5. CASE RenameMd(p)
  <2>1. PICK n \in Converted : RenameMd(p)!(n)
    BY <1>5 DEF RenameMd
  <2>2. "write sidecar" \in Steps /\ held[p] \in File /\ mdTmp[n] \in File
    BY StepNames DEF Conversion, Typed
  <2> QED
    BY <2>1, <2>2, RunTyped DEF Typed
<1>6. CASE WriteSidecar(p)
  <2>1. PICK n \in Converted, whole \in BOOLEAN : WriteSidecar(p)!(n, whole)
    BY <1>6 DEF WriteSidecar
  <2>2. "rename sidecar" \in Steps /\ held[p] \in File /\ hash[p] \in File
    BY StepNames DEF Conversion, Typed
  <2> QED
    BY <2>1, <2>2, RunTyped DEF Typed
<1>7. CASE RenameSidecar(p)
  <2>1. PICK n \in Converted : RenameSidecar(p)!(n)
    BY <1>7 DEF RenameSidecar
  <2>2. "reread" \in Steps /\ held[p] \in File /\ sideTmp[n] \in File
    BY StepNames DEF Typed
  <2> QED
    BY <2>1, <2>2, RunTyped DEF Typed
<1>8. CASE Reread(p)
  <2>1. PICK n \in Converted : Reread(p)!(n)
    BY <1>8 DEF Reread
  <2>2. "store" \in Steps /\ md[n] \in File
    BY StepNames DEF Typed
  <2> QED
    BY <2>1, <2>2, RunTyped DEF Typed, disk
<1> QED
  BY <1>1, <1>2, <1>3, <1>4, <1>5, <1>6, <1>7, <1>8 DEF Cache

LEMMA DriveTyped == ASSUME Typed, NEW p \in Proc, Drive(p) PROVE Typed'
<1> USE Contents, StepNames
<1>1. CASE \E cmd \in Command : StartRun(p, cmd)
  <2>1. PICK cmd \in Command : StartRun(p, cmd)
    BY <1>1
  <2>2. cmd.chosen \in SUBSET Name /\ cmd.dry \in BOOLEAN
    BY IngestionAssumption
  <2>3. pc' \in [Proc -> Steps] /\ DOMAIN todo' = Proc
    BY <2>1 DEF Typed, StartRun, Goto
  <2>4. selected' \in [Proc -> SUBSET Name]
    BY <2>1, <2>2 DEF Typed, StartRun
  <2>5. dry' \in [Proc -> BOOLEAN]
    BY <2>1, <2>2, Zenon DEF Typed, StartRun
  <2> QED
    BY <2>1, <2>3, <2>4, <2>5 DEF Typed, StartRun, disk
<1>2. CASE StartPipeline(p)
  BY <1>2 DEF Typed, StartPipeline, Goto, disk
<1>3. CASE SkipMissing(p)
  BY <1>3, RunTyped DEF Typed, SkipMissing, disk
<1>4. CASE ReadPdf(p)
  <2>1. PICK n \in Name \ Converted : ReadPdf(p)!(n)
    BY <1>4 DEF ReadPdf
  <2>2. pdf[n] \in File
    BY DEF Typed
  <2> QED
    BY <2>1, <2>2, RunTyped DEF Typed, disk
<1>5. CASE Store(p)
  <2>1. PICK n \in Name : Store(p)!(n)
    BY <1>5 DEF Store
  <2>2. [hash |-> pdf[n], text |-> held[p]] \in [hash : File, text : File]
    BY DEF Typed
  <2>3. row' \in [Name -> [hash : File, text : File]]
    BY <2>1, <2>2 DEF Typed
  <2> QED
    BY <2>1, <2>3, RunTyped DEF Typed
<1>6. CASE SkipStore(p)
  BY <1>6, RunTyped DEF Typed, SkipStore, disk
<1>7. CASE Complete(p) \/ Crash(p)
  BY <1>7, RunTyped DEF Typed, Complete, Crash, disk
<1> QED
  BY <1>1, <1>2, <1>3, <1>4, <1>5, <1>6, <1>7 DEF Drive

LEMMA TypeStep == Typed /\ [Next]_vars => Typed'
<1> SUFFICES ASSUME Typed, [Next]_vars PROVE Typed'
  OBVIOUS
<1>1. ASSUME NEW n \in Name, World(n) PROVE Typed'
  <2>1. CASE Publish(n)
    <3>1. \A e \in Edition : e < Editions => e + 1 \in Edition
      BY Bounds DEF Edition
    <3>2. served' \in [Name -> Edition]
      BY <2>1, <3>1 DEF Typed, Publish
    <3> QED
      BY <2>1, <3>2 DEF Typed, Publish
  <2>2. CASE PlacePdf(n)
    <3>1. served[n] \in File
      BY Contents DEF Typed
    <3> QED
      BY <2>2, <3>1, PutTyped DEF Typed, PlacePdf
  <2>3. CASE RemovePdf(n)
    BY <2>3, Contents DEF Typed, RemovePdf
  <2> QED
    BY <1>1, <2>1, <2>2, <2>3 DEF World
<1>2. CASE UNCHANGED vars
  BY <1>2 DEF Typed, vars
<1> QED
  BY <1>1, <1>2, DownloadTyped, CacheTyped, DriveTyped, Steppers DEF Step

-----------------------------------------------------------------------------
(* What a step does, seen from a run and from a file                       *)

OnlySelf(p) ==
    \A q \in Proc \ {p} :
        pc'[q] = pc[q] /\ todo'[q] = todo[q] /\ hash'[q] = hash[q] /\ held'[q] = held[q]

LEMMA OthersStay == ASSUME Typed, NEW p \in Proc, Step(p) PROVE OnlySelf(p)
<1>1. ASSUME NEW step, NEW content, End(p) \/ NextEntry(p, step) \/ Continue(p, step, content)
      PROVE  OnlySelf(p)
  BY <1>1 DEF OnlySelf, Typed, End, NextEntry, Continue, Goto
<1>2. CASE Download(p)
  BY <1>1, <1>2 DEF Download, SkipDownload, Fetch, SavePdf, RenamePdf, UnlinkPart
<1>3. CASE Cache(p)
  <2>1. CASE TakeHash(p)
    BY <2>1 DEF OnlySelf, Typed, TakeHash, Goto
  <2>2. CASE Look(p)
    BY <2>2 DEF OnlySelf, Typed, Look, Goto
  <2> QED
    BY <1>1, <1>3, <2>1, <2>2
    DEF Cache, Convert, WriteMd, RenameMd, WriteSidecar, RenameSidecar, Reread
<1>4. CASE Drive(p)
  <2>1. ASSUME NEW cmd \in Command, StartRun(p, cmd) PROVE OnlySelf(p)
    BY <2>1 DEF OnlySelf, Typed, StartRun, Goto
  <2>2. CASE StartPipeline(p)
    BY <2>2 DEF OnlySelf, Typed, StartPipeline, Goto
  <2> QED
    BY <1>1, <1>4, <2>1, <2>2
    DEF Drive, SkipMissing, ReadPdf, Store, SkipStore, Complete, Crash
<1> QED
  BY <1>2, <1>3, <1>4 DEF Step

\* Where a step can leave a run, and from where.
Arrives(p) ==
    /\ pc'[p] \notin {"idle", "probe", "open"} => todo'[p] = todo[p]
    /\ pc'[p] \in Saving => pc[p] \in Saving \/ Fetch(p)
    /\ pc'[p] = "save" => Fetch(p)
    /\ pc'[p] = "rename" => SavePdf(p)
    /\ pc'[p] = "unlink" => RenamePdf(p)
    /\ pc'[p] \in Conversion => pc[p] \in Conversion \/ Look(p)
    /\ pc'[p] = "look" => TakeHash(p)
    /\ pc'[p] = "convert" => Look(p)
    /\ pc'[p] = "write md" => Convert(p)
    /\ pc'[p] = "rename md" => WriteMd(p)
    /\ pc'[p] = "write sidecar" => RenameMd(p)
    /\ pc'[p] = "rename sidecar" => WriteSidecar(p)
    /\ pc'[p] = "reread" => RenameSidecar(p) \/ Look(p)
    /\ pc'[p] = "store" => Reread(p) \/ ReadPdf(p)

LEMMA StepArrives == ASSUME Typed, NEW p \in Proc, Step(p) PROVE Arrives(p)
<1>1. ASSUME NEW step, Goto(p, step) PROVE pc'[p] = step
  BY <1>1 DEF Typed, Goto
<1>2. ASSUME End(p) PROVE pc'[p] = "idle"
  BY <1>2, <1>1 DEF End
<1>3. ASSUME NEW step, NextEntry(p, step) PROVE pc'[p] = step
  BY <1>3, <1>1 DEF NextEntry
<1>4. ASSUME NEW step, NEW content, Continue(p, step, content)
      PROVE  pc'[p] = step /\ todo'[p] = todo[p]
  BY <1>4, <1>1 DEF Continue
<1>5. CASE Download(p)
  <2>1. CASE SkipDownload(p)
    <3>1. pc[p] = "probe" /\ (pc'[p] = "probe")
      BY <2>1, <1>1, <1>2, <1>3, <1>4 DEF SkipDownload, At, Within
    <3> QED
      BY <2>1, <3>1 DEF Arrives, Saving, Conversion
  <2>2. CASE Fetch(p)
    <3>1. pc[p] = "probe" /\ ((pc'[p] = "save" /\ todo'[p] = todo[p]))
      BY <2>2, <1>1, <1>2, <1>3, <1>4 DEF Fetch, At, Within
    <3> QED
      BY <2>2, <3>1 DEF Arrives, Saving, Conversion
  <2>3. CASE SavePdf(p)
    <3>1. pc[p] = "save" /\ (pc'[p] = "idle" \/ (pc'[p] = "rename" /\ todo'[p] = todo[p]))
      BY <2>3, <1>1, <1>2, <1>3, <1>4 DEF SavePdf, At, Within
    <3> QED
      BY <2>3, <3>1 DEF Arrives, Saving, Conversion
  <2>4. CASE RenamePdf(p)
    <3>1. pc[p] = "rename" /\ (pc'[p] = "idle" \/ (pc'[p] = "unlink" /\ todo'[p] = todo[p]))
      BY <2>4, <1>1, <1>2, <1>3, <1>4 DEF RenamePdf, At, Within
    <3> QED
      BY <2>4, <3>1 DEF Arrives, Saving, Conversion
  <2>5. CASE UnlinkPart(p)
    <3>1. pc[p] = "unlink" /\ (pc'[p] = "probe")
      BY <2>5, <1>1, <1>2, <1>3, <1>4 DEF UnlinkPart, At, Within
    <3> QED
      BY <2>5, <3>1 DEF Arrives, Saving, Conversion
  <2> QED
    BY <1>5, <2>1, <2>2, <2>3, <2>4, <2>5 DEF Download
<1>6. CASE Cache(p)
  <2>1. CASE TakeHash(p)
    <3>1. pc[p] = "open" /\ ((pc'[p] = "look" /\ todo'[p] = todo[p]))
      BY <2>1, <1>1, <1>2, <1>3, <1>4 DEF TakeHash, At, Within
    <3> QED
      BY <2>1, <3>1 DEF Arrives, Saving, Conversion
  <2>2. CASE Look(p)
    <3>1. pc[p] = "look" /\ (pc'[p] \in {"reread", "convert"} /\ todo'[p] = todo[p])
      BY <2>2, <1>1, <1>2, <1>3, <1>4 DEF Look, At, Within
    <3> QED
      BY <2>2, <3>1 DEF Arrives, Saving, Conversion
  <2>3. CASE Convert(p)
    <3>1. pc[p] = "convert" /\ (pc'[p] = "idle" \/ (pc'[p] = "write md" /\ todo'[p] = todo[p]))
      BY <2>3, <1>1, <1>2, <1>3, <1>4 DEF Convert, At, Within
    <3> QED
      BY <2>3, <3>1 DEF Arrives, Saving, Conversion
  <2>4. CASE WriteMd(p)
    <3>1. pc[p] = "write md" /\ (pc'[p] = "idle" \/ (pc'[p] = "rename md" /\ todo'[p] = todo[p]))
      BY <2>4, <1>1, <1>2, <1>3, <1>4 DEF WriteMd, At, Within
    <3> QED
      BY <2>4, <3>1 DEF Arrives, Saving, Conversion
  <2>5. CASE RenameMd(p)
    <3>1. pc[p] = "rename md" /\ (pc'[p] = "idle" \/ (pc'[p] = "write sidecar" /\ todo'[p] = todo[p]))
      BY <2>5, <1>1, <1>2, <1>3, <1>4 DEF RenameMd, At, Within
    <3> QED
      BY <2>5, <3>1 DEF Arrives, Saving, Conversion
  <2>6. CASE WriteSidecar(p)
    <3>1. pc[p] = "write sidecar" /\ (pc'[p] = "idle" \/ (pc'[p] = "rename sidecar" /\ todo'[p] = todo[p]))
      BY <2>6, <1>1, <1>2, <1>3, <1>4 DEF WriteSidecar, At, Within
    <3> QED
      BY <2>6, <3>1 DEF Arrives, Saving, Conversion
  <2>7. CASE RenameSidecar(p)
    <3>1. pc[p] = "rename sidecar" /\ (pc'[p] = "idle" \/ (pc'[p] = "reread" /\ todo'[p] = todo[p]))
      BY <2>7, <1>1, <1>2, <1>3, <1>4 DEF RenameSidecar, At, Within
    <3> QED
      BY <2>7, <3>1 DEF Arrives, Saving, Conversion
  <2>8. CASE Reread(p)
    <3>1. pc[p] = "reread" /\ (pc'[p] = "idle" \/ (pc'[p] = "store" /\ todo'[p] = todo[p]))
      BY <2>8, <1>1, <1>2, <1>3, <1>4 DEF Reread, At, Within
    <3> QED
      BY <2>8, <3>1 DEF Arrives, Saving, Conversion
  <2> QED
    BY <1>6, <2>1, <2>2, <2>3, <2>4, <2>5, <2>6, <2>7, <2>8 DEF Cache
<1>7. CASE Drive(p)
  <2>1. CASE ReadPdf(p)
    <3>1. pc'[p] = "idle" \/ (pc'[p] = "store" /\ todo'[p] = todo[p])
      BY <2>1, <1>2, <1>4 DEF ReadPdf
    <3> QED
      BY <2>1, <3>1 DEF Arrives, Saving, Conversion
  <2>2. CASE ~ReadPdf(p)
    <3>1. pc'[p] \in {"idle", "probe", "open"}
      BY <1>1, <1>2, <1>3, <1>7, <2>2
      DEF Drive, StartRun, StartPipeline, SkipMissing, Store, SkipStore, Complete, Crash
    <3> QED
      BY <3>1 DEF Arrives, Saving, Conversion
  <2> QED
    BY <2>1, <2>2
<1> QED
  BY <1>5, <1>6, <1>7 DEF Step

\* History only grows.
Grows == \A n \in Name : marred[n] \subseteq marred'[n] /\ newest[n] <= newest'[n]

LEMMA PutGrows ==
    ASSUME Typed, NEW n \in Name, NEW content \in File, PutPdf(n, content)
    PROVE  Grows
<1>1. \A m \in Name : marred[m] \subseteq marred'[m]
  BY DEF Typed, PutPdf
<1>2. \A m \in Name : newest[m] <= newest'[m]
  <2>1. \A m \in Name : newest[m] \in Int
    BY Numbers DEF Typed
  <2>2. \A m \in Name : newest'[m] = newest[m] \/ (newest'[m] = content /\ content > newest[m])
    BY DEF Typed, PutPdf
  <2>3. content \in Int
    BY Bounds
  <2> QED
    BY <2>1, <2>2, <2>3
<1> QED
  BY <1>1, <1>2 DEF Grows

LEMMA StepGrows == Typed /\ [Next]_vars => Grows
<1> SUFFICES ASSUME Typed, [Next]_vars PROVE Grows
  OBVIOUS
<1> DEFINE NewestGrows == \A n \in Name : newest[n] <= newest'[n]
<1>5. ASSUME UNCHANGED newest PROVE NewestGrows
  <2>1. \A m \in Name : newest[m] \in Int
    BY Numbers DEF Typed
  <2> QED
    BY <1>5, <2>1
<1>1. ASSUME UNCHANGED <<newest, marred>> PROVE Grows
  BY <1>1, <1>5 DEF Grows
<1>2. ASSUME NEW p \in Proc, Step(p) PROVE Grows
  <2>1. CASE Fetch(p)
    <3>1. PICK n \in Linked : Fetch(p)!(n)
      BY <2>1 DEF Fetch
    <3>2. \A m \in Name : marred[m] \subseteq marred'[m]
      BY <3>1 DEF Typed
    <3> QED
      BY <3>1, <3>2, <1>5 DEF Grows
  <2>2. CASE RenamePdf(p)
    <3>1. PICK n \in Name : RenamePdf(p)!(n)
      BY <2>2 DEF RenamePdf
    <3>2. part[n] \in File
      BY DEF Typed
    <3> QED
      BY <3>1, <3>2, <1>1, PutGrows
  <2>3. CASE Look(p)
    <3>1. PICK n \in Converted : Look(p)!(n)
      BY <2>3 DEF Look
    <3>2. \A m \in Name : marred[m] \subseteq marred'[m]
      BY <3>1 DEF Typed
    <3> QED
      BY <3>1, <3>2, <1>5 DEF Grows
  <2>4. CASE SkipDownload(p) \/ SavePdf(p) \/ UnlinkPart(p)
    BY <2>4, <1>1 DEF SkipDownload, SavePdf, UnlinkPart, disk
  <2>5. CASE Cache(p) /\ ~Look(p)
    BY <2>5, <1>1 DEF Cache, TakeHash, Convert, WriteMd, RenameMd, WriteSidecar, RenameSidecar,
                      Reread, disk
  <2>6. CASE Drive(p)
    BY <2>6, <1>1 DEF Drive, StartRun, StartPipeline, SkipMissing, ReadPdf, Store, SkipStore,
                      Complete, Crash, disk
  <2> QED
    BY <1>2, <2>1, <2>2, <2>3, <2>4, <2>5, <2>6 DEF Step, Download
<1>3. ASSUME NEW n \in Name, World(n) PROVE Grows
  <2>1. served[n] \in File
    BY Contents DEF Typed
  <2> QED
    BY <1>1, <1>3, <2>1, PutGrows DEF World, Publish, PlacePdf, RemovePdf
<1>4. CASE UNCHANGED vars
  BY <1>1, <1>4 DEF vars
<1> QED
  BY <1>2, <1>3, <1>4, Steppers

LEMMA SoundBefore == ASSUME Grows, NEW n \in Name, Sound(n)' PROVE Sound(n)
BY DEF Grows, Sound

\* The .tmp of a file and its place in the cache are left alone by who is not at them.
LEMMA Untouched ==
    ASSUME Typed, NEW p \in Proc, Step(p), NEW n \in Name
    PROVE  /\ ~Within(p, Saving, n) => part'[n] = part[n]
           /\ ~Within(p, Conversion, n) =>
                /\ md'[n] = md[n] /\ mdTmp'[n] = mdTmp[n]
                /\ sidecar'[n] = sidecar[n] /\ sideTmp'[n] = sideTmp[n]
           /\ ~RenameMd(p) => md'[n] = md[n]
           /\ ~RenameSidecar(p) => sidecar'[n] = sidecar[n]
           /\ ~RenamePdf(p) => pdf'[n] = pdf[n] /\ newest'[n] = newest[n]
<1> USE DEF Typed
<1>1. CASE SkipDownload(p) \/ Fetch(p)
  BY <1>1 DEF SkipDownload, Fetch, disk
<1>2. CASE SavePdf(p)
  <2>1. PICK m \in Name, whole \in BOOLEAN : SavePdf(p)!(m, whole)
    BY <1>2 DEF SavePdf
  <2>2. Within(p, Saving, m)
    BY <2>1 DEF At, Within, Saving
  <2> QED
    BY <2>1, <2>2
<1>3. CASE RenamePdf(p)
  <2>1. PICK m \in Name : RenamePdf(p)!(m)
    BY <1>3 DEF RenamePdf
  <2>2. Within(p, Saving, m)
    BY <2>1 DEF At, Within, Saving
  <2> QED
    BY <1>3, <2>1, <2>2
<1>4. CASE UnlinkPart(p)
  <2>1. PICK m \in Name : UnlinkPart(p)!(m)
    BY <1>4 DEF UnlinkPart
  <2>2. Within(p, Saving, m)
    BY <2>1 DEF At, Within, Saving
  <2> QED
    BY <2>1, <2>2
<1>5. CASE TakeHash(p) \/ Look(p) \/ Convert(p) \/ Reread(p)
  BY <1>5 DEF TakeHash, Look, Convert, Reread, disk
<1>6. CASE WriteMd(p)
  <2>1. PICK m \in Converted, whole \in BOOLEAN : WriteMd(p)!(m, whole)
    BY <1>6 DEF WriteMd
  <2>2. Within(p, Conversion, m)
    BY <2>1 DEF At, Within, Conversion
  <2> QED
    BY <2>1, <2>2
<1>7. CASE RenameMd(p)
  <2>1. PICK m \in Converted : RenameMd(p)!(m)
    BY <1>7 DEF RenameMd
  <2>2. Within(p, Conversion, m)
    BY <2>1 DEF At, Within, Conversion
  <2> QED
    BY <1>7, <2>1, <2>2
<1>8. CASE WriteSidecar(p)
  <2>1. PICK m \in Converted, whole \in BOOLEAN : WriteSidecar(p)!(m, whole)
    BY <1>8 DEF WriteSidecar
  <2>2. Within(p, Conversion, m)
    BY <2>1 DEF At, Within, Conversion
  <2> QED
    BY <2>1, <2>2
<1>9. CASE RenameSidecar(p)
  <2>1. PICK m \in Converted : RenameSidecar(p)!(m)
    BY <1>9 DEF RenameSidecar
  <2>2. Within(p, Conversion, m)
    BY <2>1 DEF At, Within, Conversion
  <2> QED
    BY <1>9, <2>1, <2>2
<1>10. CASE Drive(p)
  BY <1>10 DEF Drive, StartRun, StartPipeline, SkipMissing, ReadPdf, Store, SkipStore,
               Complete, Crash, disk
<1> QED
  BY <1>1, <1>2, <1>3, <1>4, <1>5, <1>6, <1>7, <1>8, <1>9, <1>10 DEF Step, Download, Cache

\* The publisher and the operator move the served edition and the PDF, nothing else.
LEMMA WorldOutside ==
    ASSUME NEW n \in Name, World(n)
    PROVE  UNCHANGED <<part, md, mdTmp, sidecar, sideTmp, row, pc, todo, selected, dry, hash, held>>
BY DEF World, Publish, PlacePdf, RemovePdf

-----------------------------------------------------------------------------
(* Runs that have not met                                                  *)

LEMMA ApartStep == Typed /\ Apart /\ [Next]_vars => Apart'
<1> SUFFICES ASSUME Typed, Apart, [Next]_vars PROVE Apart'
  OBVIOUS
<1>1. Grows
  BY StepGrows
<1>2. ASSUME NEW p \in Proc, Step(p) PROVE Apart'
  <2> USE <1>1, <1>2
  <2>1. OnlySelf(p) /\ Arrives(p)
    BY OthersStay, StepArrives
  <2>2. ASSUME NEW n \in Name, NEW S, NEW q \in Proc \ {p}, Within(q, S, n)'
        PROVE  Within(q, S, n)
    BY <2>1, <2>2 DEF OnlySelf, Within
  <2>3. ASSUME NEW n \in Name, Within(p, Saving, n)', ~Within(p, Saving, n),
               NEW q \in Proc \ {p}, Within(q, Saving, n)'
        PROVE  "two downloads" \in marred'[n]
    <3>1. Fetch(p) /\ todo'[p] = todo[p]
      BY <2>1, <2>3 DEF Arrives, Within, Saving
    <3>2. PICK m \in Linked : Fetch(p)!(m)
      BY <3>1 DEF Fetch
    <3>3. m = n
      BY <2>3, <3>1, <3>2 DEF At, Within
    <3>4. Within(q, Saving, n)
      BY <2>2, <2>3
    <3> QED
      BY <3>2, <3>3, <3>4 DEF Typed
  <2>4. ASSUME NEW n \in Name, Within(p, Conversion, n)', ~Within(p, Conversion, n),
               NEW q \in Proc \ {p}, Within(q, Conversion, n)'
        PROVE  "two conversions" \in marred'[n]
    <3>1. Look(p) /\ pc'[p] = "convert" /\ todo'[p] = todo[p]
      <4>1. Look(p) /\ pc'[p] \in Conversion /\ todo'[p] = todo[p]
        BY <2>1, <2>4 DEF Arrives, Within, Conversion
      <4>2. pc'[p] \in {"reread", "convert"}
        BY <4>1 DEF Look, Goto, Typed
      <4> QED
        BY <4>1, <4>2 DEF Conversion
    <3>2. PICK m \in Converted : Look(p)!(m)
      BY <3>1 DEF Look
    <3>3. m = n
      BY <2>4, <3>1, <3>2 DEF At, Within
    <3>4. Within(q, Conversion, n)
      BY <2>2, <2>4
    <3>5. ~Hit(n, hash[p])
      BY <3>1, <3>2, <3>3 DEF Goto, Typed
    <3> QED
      BY <3>2, <3>3, <3>4, <3>5 DEF Typed
  <2>5. ASSUME NEW n \in Name, "two downloads" \notin marred'[n],
               NEW q \in Proc, NEW r \in Proc, Within(q, Saving, n)', Within(r, Saving, n)'
        PROVE  q = r
    <3>1. "two downloads" \notin marred[n]
      BY <2>5 DEF Grows
    <3> QED
      BY <2>2, <2>3, <2>5, <3>1 DEF Apart
  <2>6. ASSUME NEW n \in Name, "two conversions" \notin marred'[n],
               NEW q \in Proc, NEW r \in Proc, Within(q, Conversion, n)', Within(r, Conversion, n)'
        PROVE  q = r
    <3>1. "two conversions" \notin marred[n]
      BY <2>6 DEF Grows
    <3> QED
      BY <2>2, <2>4, <2>6, <3>1 DEF Apart
  <2> QED
    BY <2>5, <2>6 DEF Apart
<1>3. ASSUME UNCHANGED <<pc, todo>> PROVE Apart'
  BY <1>1, <1>3 DEF Apart, Grows, Within
<1>4. CASE UNCHANGED vars
  BY <1>3, <1>4 DEF vars
<1> QED
  BY <1>2, <1>3, <1>4, Steppers, WorldOutside

-----------------------------------------------------------------------------
(* Downloads                                                               *)

LEMMA SavedStep == Typed /\ Apart /\ Saved /\ [Next]_vars => Saved'
<1> SUFFICES ASSUME Typed, Apart, Saved, [Next]_vars PROVE Saved'
  OBVIOUS
<1>1. Grows
  BY StepGrows
<1>2. ASSUME NEW p \in Proc, Step(p) PROVE Saved'
  <2>1. OnlySelf(p) /\ Arrives(p)
    BY <1>2, OthersStay, StepArrives
  <2>2. ASSUME pc'[p] = "save" PROVE held'[p] \in Edition
    <3>1. PICK m \in Linked : Fetch(p)!(m)
      BY <2>1, <2>2 DEF Arrives, Fetch
    <3> QED
      BY <3>1, Names DEF Continue, Typed
  <2>3. ASSUME pc'[p] = "rename"
        PROVE  /\ held'[p] = held[p] /\ held[p] \in Edition
               /\ \A n \in Name : At(p, "rename", n)' => part'[n] = held[p]
    <3>1. PICK m \in Name, whole \in BOOLEAN : SavePdf(p)!(m, whole)
      BY <2>1, <2>3 DEF Arrives, SavePdf
    <3>2. whole
      BY <2>3, <3>1 DEF End, Goto, Typed
    <3>3. held'[p] = held[p] /\ todo'[p] = todo[p] /\ part'[m] = held[p]
      BY <3>1, <3>2 DEF Continue, Typed
    <3>4. pc[p] \in Saving /\ m = Head(todo[p])
      BY <3>1 DEF At, Within, Saving
    <3> QED
      BY <3>3, <3>4 DEF Saved, At, Within
  <2>4. ASSUME pc'[p] = "unlink" PROVE held'[p] \in Edition
    <3>1. PICK m \in Name : RenamePdf(p)!(m)
      BY <2>1, <2>4 DEF Arrives, RenamePdf
    <3>2. part[m] # Gone
      BY <2>4, <3>1 DEF End, Goto, Typed
    <3>3. held'[p] = held[p] /\ pc[p] \in Saving
      BY <3>1, <3>2 DEF Continue, Typed, At, Within, Saving
    <3> QED
      BY <3>3 DEF Saved
  <2>5. ASSUME NEW q \in Proc, pc'[q] \in Saving PROVE held'[q] \in Edition
    <3>1. CASE q = p
      BY <2>2, <2>3, <2>4, <2>5, <3>1 DEF Saving
    <3>2. CASE q # p
      BY <2>1, <2>5, <3>2 DEF OnlySelf, Saved
    <3> QED
      BY <3>1, <3>2
  <2>6. ASSUME NEW n \in Name, "two downloads" \notin marred'[n],
               NEW q \in Proc, At(q, "rename", n)'
        PROVE  part'[n] = held'[q]
    <3>1. CASE q = p
      BY <2>3, <2>6, <3>1 DEF At, Within
    <3>2. CASE q # p
      <4>1. "two downloads" \notin marred[n]
        BY <1>1, <2>6 DEF Grows
      <4>2. At(q, "rename", n) /\ held'[q] = held[q]
        BY <2>1, <2>6, <3>2 DEF OnlySelf, At, Within
      <4>3. Within(q, Saving, n)
        BY <4>2 DEF At, Within, Saving
      <4>4. ~Within(p, Saving, n)
        BY <3>2, <4>1, <4>3 DEF Apart
      <4> QED
        BY <1>2, <4>1, <4>2, <4>4, Untouched DEF Saved
    <3> QED
      BY <3>1, <3>2
  <2> QED
    BY <2>5, <2>6 DEF Saved
<1>3. ASSUME UNCHANGED <<pc, todo, held, part>> PROVE Saved'
  BY <1>1, <1>3 DEF Saved, Grows, At, Within
<1>4. CASE UNCHANGED vars
  BY <1>3, <1>4 DEF vars
<1> QED
  BY <1>2, <1>3, <1>4, Steppers, WorldOutside

\* Who puts a PDF in its place: a run that renames its .tmp, or the operator.
LEMMA WhoPuts ==
    ASSUME Typed, [Next]_vars, NEW n \in Name, pdf'[n] # pdf[n] \/ newest'[n] # newest[n]
    PROVE  \/ \E p \in Proc : /\ At(p, "rename", n) /\ part[n] # Gone
                              /\ PutPdf(n, part[n])
           \/ PutPdf(n, served[n])
           \/ pdf'[n] = Gone
<1>1. ASSUME NEW p \in Proc, Step(p)
      PROVE \E q \in Proc : At(q, "rename", n) /\ part[n] # Gone /\ PutPdf(n, part[n])
  <2>1. RenamePdf(p)
    BY <1>1, Untouched
  <2>2. PICK m \in Name : RenamePdf(p)!(m)
    BY <2>1 DEF RenamePdf
  <2>3. part[m] # Gone /\ PutPdf(m, part[m])
    BY <2>2
  <2>4. m = n
    BY <2>3 DEF PutPdf, Typed
  <2> QED
    BY <2>2, <2>3, <2>4
<1>2. ASSUME NEW m \in Name, World(m) PROVE PutPdf(n, served[n]) \/ pdf'[n] = Gone
  BY <1>2 DEF World, Publish, PlacePdf, RemovePdf, PutPdf, Typed
<1>3. ~UNCHANGED vars
  BY DEF vars
<1> QED
  BY <1>1, <1>2, <1>3, Steppers

LEMMA TornStep == Typed /\ Apart /\ Saved /\ NothingTorn /\ [Next]_vars => NothingTorn'
<1> SUFFICES ASSUME Typed, Saved, NothingTorn, [Next]_vars,
                    NEW n \in Name, "two downloads" \notin marred'[n], pdf'[n] # pdf[n]
             PROVE  pdf'[n] # Torn
  BY StepGrows DEF NothingTorn, Grows
<1>1. "two downloads" \notin marred[n]
  BY StepGrows DEF Grows
<1>2. ASSUME NEW p \in Proc, At(p, "rename", n), PutPdf(n, part[n]) PROVE pdf'[n] # Torn
  <2>1. part[n] = held[p]
    BY <1>1, <1>2 DEF Saved
  <2>2. held[p] \in Edition
    BY <1>2 DEF Saved, At, Within, Saving
  <2> QED
    BY <1>2, <2>1, <2>2, Contents DEF PutPdf, Typed
<1>3. ASSUME PutPdf(n, served[n]) PROVE pdf'[n] # Torn
  BY <1>3, Contents DEF PutPdf, Typed
<1> QED
  BY <1>2, <1>3, WhoPuts, Contents

LEMMA ForwardStep == Typed /\ Forward /\ [Next]_vars => Forward'
<1> SUFFICES ASSUME Typed, Forward, [Next]_vars,
                    NEW n \in Name, "back" \notin marred'[n], Whole(n)'
             PROVE  pdf'[n] = newest'[n]
  BY DEF Forward
<1>1. ASSUME NEW content \in File, PutPdf(n, content) PROVE pdf'[n] = newest'[n]
  <2>1. pdf'[n] = content /\ content \in 1..Editions
    BY <1>1 DEF PutPdf, Typed, Whole
  <2>2. ~(content < newest[n])
    BY <1>1 DEF PutPdf, Typed
  <2>3. newest'[n] = IF content > newest[n] THEN content ELSE newest[n]
    BY <1>1, <2>1 DEF PutPdf, Typed
  <2>4. content \in Int /\ newest[n] \in Int
    BY Numbers DEF Typed
  <2> QED
    BY <2>1, <2>2, <2>3, <2>4
<1>2. CASE pdf'[n] = pdf[n] /\ newest'[n] = newest[n]
  <2>1. "back" \notin marred[n]
    BY StepGrows DEF Grows
  <2> QED
    BY <1>2, <2>1 DEF Forward, Whole
<1>3. ~(pdf'[n] = Gone)
  BY Bounds DEF Whole
<1>4. part[n] \in File /\ served[n] \in File
  BY Contents DEF Typed
<1> QED
  BY <1>1, <1>2, <1>3, <1>4, WhoPuts

-----------------------------------------------------------------------------
(* The cache                                                               *)

Frame == Typed /\ Apart /\ Forward /\ Cached /\ Carried

\* Of a sound file the Markdown and the sidecar change when a run that has it for
\* itself renames what it holds.
LEMMA Renames ==
    ASSUME Frame, NEW p \in Proc, Step(p), NEW n \in Converted, Sound(n)
    PROVE  /\ md'[n] = md[n] \/ (At(p, "rename md", n) /\ md'[n] = held[p])
           /\ sidecar'[n] = sidecar[n] \/ (At(p, "rename sidecar", n) /\ sidecar'[n] = hash[p])
<1>1. n \in Name /\ Typed /\ AtHand(p, n)
  BY Names DEF Frame, Carried
<1>2. ASSUME md'[n] # md[n] PROVE At(p, "rename md", n) /\ md'[n] = held[p]
  <2>1. RenameMd(p)
    BY <1>1, <1>2, Untouched
  <2>2. PICK m \in Converted : RenameMd(p)!(m)
    BY <2>1 DEF RenameMd
  <2>3. m = n /\ md'[n] = mdTmp[n]
    BY <1>1, <1>2, <2>2 DEF Typed
  <2> QED
    BY <1>1, <2>2, <2>3 DEF AtHand
<1>3. ASSUME sidecar'[n] # sidecar[n] PROVE At(p, "rename sidecar", n) /\ sidecar'[n] = hash[p]
  <2>1. RenameSidecar(p)
    BY <1>1, <1>3, Untouched
  <2>2. PICK m \in Converted : RenameSidecar(p)!(m)
    BY <2>1 DEF RenameSidecar
  <2>3. m = n /\ sidecar'[n] = sideTmp[n]
    BY <1>1, <1>3, <2>2 DEF Typed
  <2> QED
    BY <1>1, <2>2, <2>3 DEF AtHand
<1> QED
  BY <1>2, <1>3

\* The Markdown of a sound file only moves forward.
LEMMA MdForward ==
    ASSUME Frame, NEW p \in Proc, Step(p), NEW n \in Converted, Sound(n)
    PROVE  md'[n] # Torn /\ md'[n] <= newest[n] /\ md[n] <= md'[n]
<1>1. n \in Name /\ md[n] \in Int /\ AtHand(p, n) /\ md[n] # Torn /\ md[n] <= newest[n]
  BY Names, Numbers DEF Frame, Typed, Carried, Cached
<1>2. CASE md'[n] = md[n]
  BY <1>1, <1>2
<1>3. CASE At(p, "rename md", n) /\ md'[n] = held[p]
  BY <1>1, <1>3, Contents DEF AtHand, At, Within
<1> QED
  BY <1>2, <1>3, Renames

LEMMA CachedStep == Frame /\ [Next]_vars => Cached'
<1> SUFFICES ASSUME Frame, [Next]_vars, NEW n \in Converted, Sound(n)'
             PROVE  /\ md'[n] # Torn /\ md'[n] <= newest'[n]
                    /\ sidecar'[n] # Torn => sidecar'[n] <= md'[n]
  BY DEF Cached
<1>1. n \in Name /\ Typed /\ Grows
  BY Names, StepGrows DEF Frame
<1>2. /\ Sound(n) /\ newest[n] <= newest'[n]
      /\ newest[n] \in Int /\ newest'[n] \in Int /\ md[n] \in Int /\ md'[n] \in Int
      /\ sidecar[n] \in Int /\ sidecar'[n] \in Int
  BY <1>1, SoundBefore, TypeStep, Numbers DEF Grows, Typed
<1>3. ASSUME NEW p \in Proc, Step(p)
      PROVE  /\ md'[n] # Torn /\ md'[n] <= newest'[n]
             /\ sidecar'[n] # Torn => sidecar'[n] <= md'[n]
  <2>1. md'[n] # Torn /\ md'[n] <= newest[n] /\ md[n] <= md'[n]
    BY <1>2, <1>3, MdForward
  <2>2. CASE sidecar'[n] = sidecar[n]
    <3>1. sidecar'[n] # Torn => sidecar'[n] <= md[n]
      BY <1>2, <2>2 DEF Frame, Cached
    <3> QED
      BY <1>2, <2>1, <3>1
  <2>3. CASE At(p, "rename sidecar", n) /\ sidecar'[n] = hash[p]
    <3>1. Upto(sidecar'[n], md[n])
      BY <1>2, <2>3 DEF Frame, Carried, AtHand, At, Within
    <3>2. sidecar'[n] # Torn => sidecar'[n] <= md'[n]
      BY <1>2, <2>1, <3>1 DEF Upto
    <3> QED
      BY <1>2, <2>1, <3>2
  <2> QED
    BY <1>2, <1>3, <2>1, <2>2, <2>3, Renames
<1>4. ASSUME UNCHANGED <<md, sidecar>>
      PROVE  /\ md'[n] # Torn /\ md'[n] <= newest'[n]
             /\ sidecar'[n] # Torn => sidecar'[n] <= md'[n]
  BY <1>2, <1>4 DEF Frame, Cached
<1>5. CASE UNCHANGED vars
  BY <1>4, <1>5 DEF vars
<1> QED
  BY <1>3, <1>4, <1>5, Steppers, WorldOutside

\* What a run holds of a file is as good as before when the run stands still, the
\* cache moves forward and nobody touches what the run is converting.
LEMMA StillAtHand ==
    ASSUME NEW q \in Proc, NEW n \in Name, Typed, Typed', AtHand(q, n),
           pc'[q] = pc[q], todo'[q] = todo[q], hash'[q] = hash[q], held'[q] = held[q],
           newest[n] <= newest'[n], md'[n] # Torn, md[n] <= md'[n],
           Within(q, Conversion, n) =>
             md'[n] = md[n] /\ mdTmp'[n] = mdTmp[n] /\ sideTmp'[n] = sideTmp[n]
    PROVE  AtHand(q, n)'
<1>1. \A S : Within(q, S, n)' <=> Within(q, S, n)
  BY DEF Within
<1>2. /\ newest[n] \in Int /\ newest'[n] \in Int /\ md[n] \in Int /\ md'[n] \in Int
      /\ hash[q] \in Int /\ held[q] \in Int
  BY Numbers DEF Typed
<1>3. \A e : /\ e \in Int /\ Upto(e, newest[n]) => Upto(e, newest'[n])
             /\ e \in Int /\ Upto(e, md[n]) => Upto(e, md'[n])
  BY <1>2 DEF Upto
<1>4. md[n] \in Edition => md'[n] \in Edition
  <2>1. ASSUME NEW e \in Edition, NEW f \in File, e <= f, f # Torn PROVE f \in Edition
    BY <2>1, Bounds DEF Edition
  <2>2. md'[n] \in File
    BY DEF Typed
  <2> QED
    BY <2>1, <2>2
<1>5. Within(q, {"look"} \cup Conversion, n)' => Upto(hash'[q], newest'[n])
  BY <1>1, <1>2, <1>3 DEF AtHand
<1>6. Within(q, {"write md", "rename md", "store"}, n)' =>
        held'[q] \in Edition /\ held'[q] <= newest'[n] /\ Upto(hash'[q], held'[q])
  <2>1. Within(q, {"write md", "rename md", "store"}, n)' =>
          held[q] \in Edition /\ held[q] <= newest[n] /\ Upto(hash[q], held[q])
    BY <1>1 DEF AtHand
  <2>2. held[q] <= newest[n] => held[q] <= newest'[n]
    BY <1>2
  <2> QED
    BY <2>1, <2>2
<1>7. Within(q, {"write md", "rename md"}, n)' => md'[n] <= held'[q]
  BY <1>1 DEF AtHand, Within, Conversion
<1>8. /\ At(q, "rename md", n)' => mdTmp'[n] = held'[q]
      /\ At(q, "rename sidecar", n)' => sideTmp'[n] = hash'[q]
  BY <1>1 DEF AtHand, At, Within, Conversion
<1>9. Within(q, {"write sidecar", "rename sidecar", "reread"}, n)' =>
        md'[n] \in Edition /\ Upto(hash'[q], md'[n])
  BY <1>1, <1>2, <1>3, <1>4 DEF AtHand
<1> QED
  BY <1>5, <1>6, <1>7, <1>8, <1>9 DEF AtHand

\* What a run takes in hand by a step of its own.
LEMMA TakenInHand ==
    ASSUME Frame, NEW p \in Proc, Step(p), NEW n \in Converted, Sound(n)
    PROVE  AtHand(p, n)'
<1> USE DEF Frame
<1>1. n \in Name /\ Typed' /\ AtHand(p, n) /\ Arrives(p)
  BY Names, StepArrives, TypeStep DEF Carried, Next, Step
<1>2. SUFFICES ASSUME todo'[p] # <<>>, n = Head(todo'[p]),
                      pc'[p] \in {"look", "reread", "store"} \cup Conversion
               PROVE  AtHand(p, n)'
  BY DEF AtHand, At, Within, Conversion
<1>3. todo'[p] = todo[p] /\ todo[p] # <<>> /\ n = Head(todo[p])
  BY <1>1, <1>2 DEF Arrives, Conversion
<1>4. pdf[n] \in File /\ (pdf[n] \in Edition => pdf[n] = newest[n])
  <2>1. "back" \notin marred[n]
    BY DEF Sound
  <2> QED
    BY <1>1, <2>1 DEF Forward, Whole, Edition, Typed
<1>5. md[n] # Torn /\ md[n] <= newest[n] /\ (sidecar[n] # Torn => sidecar[n] <= md[n])
  BY DEF Cached
<1>6. md[n] \in File /\ hash[p] \in File /\ held[p] \in File
  BY <1>1 DEF Typed
<1>7. CASE pc'[p] = "look"
  <2>1. PICK m \in Converted : TakeHash(p)!(m)
    BY <1>1, <1>7 DEF Arrives, TakeHash
  <2>2. m = n /\ hash'[p] = pdf[n] /\ newest'[n] = newest[n] /\ pdf[n] # Gone
    BY <1>3, <2>1 DEF At, Within, Typed, disk
  <2>3. Upto(pdf[n], newest[n])
    <3>1. pdf[n] # Torn => pdf[n] = newest[n]
      BY <1>4, <2>2, Contents
    <3> QED
      BY <1>4, <3>1, Numbers DEF Upto
  <2> QED
    BY <1>7, <2>2, <2>3 DEF AtHand, At, Within, Conversion
<1>8. CASE pc'[p] = "convert"
  <2>1. PICK m \in Converted : Look(p)!(m)
    BY <1>1, <1>8 DEF Arrives, Look
  <2>2. Upto(hash[p], newest[n])
    BY <1>1, <1>3, <2>1 DEF AtHand, At, Within
  <2> QED
    BY <1>8, <2>1, <2>2 DEF AtHand, At, Within
<1>9. CASE pc'[p] = "write md"
  <2>1. PICK m \in Converted : Convert(p)!(m)
    BY <1>1, <1>9 DEF Arrives, Convert
  <2>2. m = n /\ UNCHANGED disk
    BY <1>3, <2>1 DEF At, Within
  <2>3. ~End(p)
    BY <1>1, <1>9 DEF End, Goto, Typed
  <2>4. pdf[n] \notin {Gone, Torn} /\ Continue(p, "write md", pdf[n])
    BY <2>1, <2>2, <2>3
  <2>5. pdf[n] \notin {Gone, Torn} /\ held'[p] = pdf[n] /\ hash'[p] = hash[p]
    BY <1>1, <2>4 DEF Continue, Typed
  <2>6. pdf[n] \in Edition /\ pdf[n] = newest[n] /\ pdf[n] <= newest[n]
    BY <1>4, <2>5, Contents, Numbers
  <2>7. Upto(hash[p], newest[n])
    BY <1>1, <1>3, <2>1 DEF AtHand, At, Within, Conversion
  <2> QED
    BY <1>5, <1>9, <2>2, <2>5, <2>6, <2>7 DEF AtHand, At, Within, disk
<1>10. CASE pc'[p] = "rename md"
  <2>1. PICK m \in Converted, whole \in BOOLEAN : WriteMd(p)!(m, whole)
    BY <1>1, <1>10 DEF Arrives, WriteMd
  <2>2. m = n /\ whole
    BY <1>1, <1>3, <1>10, <2>1 DEF At, Within, End, Goto, Typed
  <2>3. /\ mdTmp'[n] = held[p] /\ held'[p] = held[p] /\ hash'[p] = hash[p]
        /\ md'[n] = md[n] /\ newest'[n] = newest[n]
    BY <1>1, <2>1, <2>2 DEF Continue, Typed
  <2>4. /\ held[p] \in Edition /\ held[p] <= newest[n] /\ Upto(hash[p], held[p])
        /\ md[n] <= held[p] /\ Upto(hash[p], newest[n])
    BY <1>1, <1>3, <2>1 DEF AtHand, At, Within, Conversion
  <2> QED
    BY <1>10, <2>3, <2>4 DEF AtHand, At, Within
<1>11. CASE pc'[p] = "write sidecar"
  <2>1. PICK m \in Converted : RenameMd(p)!(m)
    BY <1>1, <1>11 DEF Arrives, RenameMd
  <2>2. m = n /\ mdTmp[n] # Gone
    BY <1>1, <1>3, <1>11, <2>1 DEF At, Within, End, Goto, Typed
  <2>3. md'[n] = mdTmp[n] /\ hash'[p] = hash[p] /\ newest'[n] = newest[n]
    BY ZenonT(40), <1>1, <2>1, <2>2 DEF Continue, Typed
  <2>4. /\ held[p] \in Edition /\ Upto(hash[p], held[p])
        /\ mdTmp[n] = held[p] /\ Upto(hash[p], newest[n])
    BY <1>1, <1>3, <2>1 DEF AtHand, At, Within, Conversion
  <2> QED
    BY <1>11, <2>3, <2>4 DEF AtHand, At, Within
<1>12. CASE pc'[p] = "rename sidecar"
  <2>1. PICK m \in Converted, whole \in BOOLEAN : WriteSidecar(p)!(m, whole)
    BY <1>1, <1>12 DEF Arrives, WriteSidecar
  <2>2. m = n /\ whole
    BY <1>1, <1>3, <1>12, <2>1 DEF At, Within, End, Goto, Typed
  <2>3. /\ sideTmp'[n] = hash[p] /\ hash'[p] = hash[p]
        /\ md'[n] = md[n] /\ newest'[n] = newest[n]
    BY <1>1, <2>1, <2>2 DEF Continue, Typed
  <2>4. md[n] \in Edition /\ Upto(hash[p], md[n]) /\ Upto(hash[p], newest[n])
    BY <1>1, <1>3, <2>1 DEF AtHand, At, Within, Conversion
  <2> QED
    BY <1>12, <2>3, <2>4 DEF AtHand, At, Within
<1>13. CASE pc'[p] = "reread" /\ RenameSidecar(p)
  <2>1. PICK m \in Converted : RenameSidecar(p)!(m)
    BY <1>13 DEF RenameSidecar
  <2>2. md'[n] = md[n] /\ hash'[p] = hash[p]
    BY <1>13, <2>1 DEF Continue, End, Goto, Typed
  <2>3. md[n] \in Edition /\ Upto(hash[p], md[n])
    BY <1>1, <1>3, <2>1 DEF AtHand, At, Within
  <2> QED
    BY <1>13, <2>2, <2>3 DEF AtHand, At, Within, Conversion
<1>14. CASE pc'[p] = "reread" /\ Look(p)
  <2>1. PICK m \in Converted : Look(p)!(m)
    BY <1>14 DEF Look
  <2>2. m = n /\ Hit(n, hash[p])
    BY <1>1, <1>3, <1>14, <2>1 DEF At, Within, Goto, Typed
  <2>3. md[n] \in Edition /\ Upto(hash[p], md[n])
    BY <1>5, <1>6, <2>2, Contents DEF Hit, Upto
  <2> QED
    BY <1>14, <2>1, <2>3 DEF AtHand, At, Within, Conversion
<1>15. CASE pc'[p] = "store"
  <2>1. ~ReadPdf(p)
    BY <1>3 DEF ReadPdf, At, Within
  <2>2. PICK m \in Converted : Reread(p)!(m)
    BY <1>1, <1>15, <2>1 DEF Arrives, Reread
  <2>3. m = n /\ held'[p] = md[n] /\ hash'[p] = hash[p] /\ newest'[n] = newest[n]
    BY <1>1, <1>3, <2>2 DEF At, Within, Continue, Typed, disk
  <2>4. md[n] \in Edition /\ Upto(hash[p], md[n])
    BY <1>1, <1>3, <2>2 DEF AtHand, At, Within
  <2> QED
    BY <1>5, <1>15, <2>3, <2>4 DEF AtHand, At, Within, Conversion
<1> QED
  BY <1>1, <1>2, <1>7, <1>8, <1>9, <1>10, <1>11, <1>12, <1>13, <1>14, <1>15
  DEF Conversion, Arrives

LEMMA CarriedStep == Frame /\ [Next]_vars => Carried'
<1> SUFFICES ASSUME Frame, [Next]_vars, NEW n \in Converted, Sound(n)', NEW q \in Proc
             PROVE  AtHand(q, n)'
  BY DEF Carried
<1>1. n \in Name /\ Typed /\ Typed' /\ Sound(n) /\ newest[n] <= newest'[n] /\ AtHand(q, n)
  BY Names, StepGrows, SoundBefore, TypeStep DEF Frame, Grows, Carried
<1>2. ASSUME NEW p \in Proc, Step(p) PROVE AtHand(q, n)'
  <2>1. CASE q = p
    BY <1>1, <1>2, <2>1, TakenInHand
  <2>2. CASE q # p
    <3>1. md'[n] # Torn /\ md[n] <= md'[n]
      BY <1>1, <1>2, MdForward
    <3>2. pc'[q] = pc[q] /\ todo'[q] = todo[q] /\ hash'[q] = hash[q] /\ held'[q] = held[q]
      BY <1>1, <1>2, <2>2, OthersStay DEF OnlySelf
    <3>3. Within(q, Conversion, n) => ~Within(p, Conversion, n)
      BY <1>1, <2>2 DEF Frame, Apart, Sound
    <3>4. Within(q, Conversion, n) =>
            md'[n] = md[n] /\ mdTmp'[n] = mdTmp[n] /\ sideTmp'[n] = sideTmp[n]
      BY <1>1, <1>2, <3>3, Untouched
    <3> QED
      BY <1>1, <3>1, <3>2, <3>4, StillAtHand
  <2> QED
    BY <2>1, <2>2
<1>3. ASSUME UNCHANGED <<pc, todo, hash, held, md, mdTmp, sideTmp>> PROVE AtHand(q, n)'
  <2>1. md'[n] # Torn /\ md[n] <= md'[n]
    <3>1. md[n] \in Int /\ md[n] # Torn
      BY <1>1, Numbers DEF Frame, Cached, Typed
    <3> QED
      BY <1>3, <3>1
  <2> QED
    BY <1>1, <1>3, <2>1, StillAtHand
<1>4. CASE UNCHANGED vars
  BY <1>3, <1>4 DEF vars
<1> QED
  BY <1>2, <1>3, <1>4, Steppers, WorldOutside

-----------------------------------------------------------------------------
LEMMA InvStep == IInv /\ [Next]_vars => IInv'
BY TypeStep, ApartStep, SavedStep, TornStep, ForwardStep, CachedStep, CarriedStep DEF IInv, Frame

\* Every state of every execution satisfies the inductive invariant.
THEOREM Reachable == Spec => []IInv
BY InitInv, InvStep, PTL DEF Spec

\* The files on disk and what the runs hold keep their types.
THEOREM TypeCorrect == Spec => []Typed
<1>1. IInv => Typed
  BY DEF IInv
<1> QED
  BY <1>1, Reachable, PTL

\* No download leaves a part of a file that later runs would take for the whole, unless
\* two runs wrote its .tmp at once (download.py:106-113).
THEOREM WholeDownloads == Spec => []NothingTorn
<1>1. IInv => NothingTorn
  BY DEF IInv
<1> QED
  BY <1>1, Reachable, PTL

\* A cache hit on a whole file is its conversion, unless two runs converted it at once or
\* an earlier edition came back (convert.py:366, 402-415).
THEOREM FreshHits == Spec => []HitIsFresh
<1>1. IInv => HitIsFresh
  <2> SUFFICES ASSUME IInv, NEW n \in Converted, Sound(n), Whole(n), Hit(n, pdf[n])
               PROVE  md[n] = pdf[n]
    BY DEF HitIsFresh
  <2>1. n \in Name /\ pdf[n] = newest[n] /\ pdf[n] # Torn
    BY Names, Contents DEF IInv, Forward, Whole, Sound, Edition
  <2>2. md[n] <= newest[n] /\ sidecar[n] <= md[n] /\ sidecar[n] = pdf[n]
    BY <2>1 DEF IInv, Cached, Hit
  <2>3. md[n] \in Int /\ pdf[n] \in Int
    BY <2>1, Numbers DEF IInv, Typed
  <2> QED
    BY <2>1, <2>2, <2>3
<1> QED
  BY <1>1, Reachable, PTL

\* A run whose file stays what it was stores the text of that very file under its hash,
\* whatever earlier runs have left on disk (run_pipeline.py:141-152, convert.py:366).
THEOREM Repaired == Spec => RunRepairs
<1> DEFINE Repairs(p, n) ==
      /\ Store(p) /\ At(p, "store", n)
      /\ Sound(n) /\ Whole(n)
      /\ pdf[n] = IF n \in Converted THEN hash[p] ELSE held[p]
      => row'[n] = [hash |-> pdf[n], text |-> pdf[n]]
<1>1. ASSUME IInv, NEW p \in Proc, NEW n \in Name PROVE Repairs(p, n)
  <2> SUFFICES ASSUME Store(p), At(p, "store", n), Sound(n), Whole(n),
                      pdf[n] = IF n \in Converted THEN hash[p] ELSE held[p]
               PROVE  row'[n] = [hash |-> pdf[n], text |-> pdf[n]]
    OBVIOUS
  <2>1. PICK m \in Name : Store(p)!(m)
    BY DEF Store
  <2>2. m = n /\ pdf[n] \in Edition /\ pdf[n] # Gone /\ pdf[n] # Torn
    BY <2>1, Contents DEF At, Within, Whole, Edition
  <2>3. row'[n] = [hash |-> pdf[n], text |-> held[p]]
    BY <1>1, <2>1, <2>2 DEF IInv, Typed
  <2>4. held[p] = pdf[n]
    <3>1. CASE n \in Converted
      <4>1. AtHand(p, n) /\ pdf[n] = newest[n] /\ hash[p] = pdf[n]
        BY <1>1, <3>1 DEF IInv, Carried, Forward, Sound
      <4>2. held[p] <= newest[n] /\ hash[p] <= held[p]
        BY <2>2, <4>1 DEF AtHand, At, Within, Upto
      <4>3. held[p] \in Int /\ pdf[n] \in Int
        BY <1>1, Numbers DEF IInv, Typed
      <4> QED
        BY <4>1, <4>2, <4>3
    <3>2. CASE n \notin Converted
      BY <3>2
    <3> QED
      BY <3>1, <3>2
  <2> QED
    BY <2>3, <2>4
<1>2. IInv => \A p \in Proc, n \in Name : Repairs(p, n)
  BY <1>1
<1> HIDE DEF Repairs
<1>3. (\A p \in Proc, n \in Name : Repairs(p, n)) =>
        [\A p \in Proc, n \in Name : Repairs(p, n)]_vars
  OBVIOUS
<1>4. Spec => [][\A p \in Proc, n \in Name : Repairs(p, n)]_vars
  BY <1>2, <1>3, Reachable, PTL
<1> QED
  BY <1>4 DEF RunRepairs, Repairs
=============================================================================

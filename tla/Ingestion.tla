------------------------------ MODULE Ingestion -----------------------------
(***************************************************************************)
(* The runs of the ingestion pipeline (services/ingestion): the download   *)
(* of the manifest's files (download.py), the driver that takes the        *)
(* selected ones to the store (run_pipeline.py) and the conversion cache   *)
(* in between (convert.py), which keeps a Markdown file and a sidecar per  *)
(* document.  Runs are started by hand, may overlap, and die anywhere; the *)
(* publisher replaces files and so does the operator.  A file is known by  *)
(* its edition.  Storing a document is one step here, CorpusStore has the  *)
(* calls it is made of.                                                    *)
(***************************************************************************)
EXTENDS Integers, Sequences, FiniteSets

LOCAL INSTANCE SequencesExt

CONSTANTS Proc,      \* processes that may be running
          Manifest,  \* the entries of corpus_manifest.yaml, by source_filename
          Linked,    \* those with a source_url
          Converted, \* those with a conversion_engine
          Command,   \* command lines in use: what is chosen by filters, and --dry-run
          Editions,  \* bound of the model: editions ever published of a file
          Reissued   \* bound of the model: files with more than one

Name == ToSet(Manifest)

ASSUME IngestionAssumption ==
    /\ Manifest \in Seq(Name)
    /\ IsInjective(Manifest)
    /\ Linked \subseteq Name
    /\ Converted \subseteq Name
    /\ Command \subseteq [chosen : SUBSET Name, dry : BOOLEAN]
    /\ Editions \in Nat \ {0}
    /\ Reissued \subseteq Name

\* What a file on disk can hold: nothing, an edition, or the part of one that was
\* written before a run died.
Gone == 0
Torn == Editions + 1
File == 0..Torn
NoRow == [hash |-> Gone, text |-> Gone]

VARIABLES
    served,    \* edition the publisher offers
    pdf,       \* corpus/: the PDF, by edition
    part,      \* corpus/: its .tmp
    md,        \* corpus_md/: the Markdown, by the edition it was converted from
    mdTmp,     \* corpus_md/: its .tmp
    sidecar,   \* corpus_md/: the edition whose sha256 the sidecar records
    sideTmp,   \* corpus_md/: its .tmp
    row,       \* the stored document: its file_hash, and the edition of its chunks
    pc,        \* next step of each process
    todo,      \* manifest entries it has still to go through, the current one first
    selected,  \* entries its filters select
    dry,       \* whether it was started with --dry-run
    hash,      \* sha256 taken by convert_pdf
    held,      \* content in memory: a response, a conversion, the text to be stored
    newest,    \* history: latest edition there has been in corpus/
    marred     \* history: what has happened to a file that the cache cannot stand

vars == <<served, pdf, part, md, mdTmp, sidecar, sideTmp, row, pc, todo, selected,
          dry, hash, held, newest, marred>>
disk == <<served, pdf, part, md, mdTmp, sidecar, sideTmp, row, newest, marred>>

Saving == {"save", "rename", "unlink"}
Conversion == {"convert", "write md", "rename md", "write sidecar", "rename sidecar"}
Steps == {"idle", "probe", "open", "look", "reread", "store"} \cup Saving \cup Conversion

TypeOK ==
    /\ served \in [Name -> 0..Editions]
    /\ \A files \in {pdf, part, md, mdTmp, sidecar, sideTmp} : files \in [Name -> File]
    /\ row \in [Name -> [hash : File, text : File]]
    /\ pc \in [Proc -> Steps]
    /\ \A p \in Proc : IsSuffix(todo[p], Manifest) \/ todo[p] \in Seq(selected[p])
    /\ selected \in [Proc -> SUBSET Name]
    /\ dry \in [Proc -> BOOLEAN]
    /\ hash \in [Proc -> File] /\ held \in [Proc -> File]
    /\ newest \in [Name -> 0..Editions]
    /\ marred \in [Name -> SUBSET {"two downloads", "two conversions", "back"}]

Init ==
    /\ served = [n \in Name |-> 1]
    /\ pdf = [n \in Name |-> Gone] /\ part = pdf
    /\ md = pdf /\ mdTmp = pdf /\ sidecar = pdf /\ sideTmp = pdf
    /\ row = [n \in Name |-> NoRow]
    /\ pc = [p \in Proc |-> "idle"]
    /\ todo = [p \in Proc |-> <<>>]
    /\ selected = [p \in Proc |-> {}]
    /\ dry = [p \in Proc |-> FALSE]
    /\ hash = [p \in Proc |-> Gone] /\ held = hash
    /\ newest = [n \in Name |-> Gone]
    /\ marred = [n \in Name |-> {}]

-----------------------------------------------------------------------------
Goto(p, step) == pc' = [pc EXCEPT ![p] = step]
Within(p, steps, n) == pc[p] \in steps /\ todo[p] # <<>> /\ n = Head(todo[p])
At(p, step, n) == Within(p, {step}, n)

\* The run ends, dies, or a call raises: nothing on disk is undone.
End(p) ==
    /\ Goto(p, "idle")
    /\ todo' = [todo EXCEPT ![p] = <<>>]
    /\ selected' = [selected EXCEPT ![p] = {}]
    /\ dry' = [dry EXCEPT ![p] = FALSE]
    /\ hash' = [hash EXCEPT ![p] = Gone]
    /\ held' = [held EXCEPT ![p] = Gone]

\* On to the next entry of the loop the process is in.
NextEntry(p, step) ==
    /\ Goto(p, step)
    /\ todo' = [todo EXCEPT ![p] = Tail(@)]
    /\ hash' = [hash EXCEPT ![p] = Gone]
    /\ held' = [held EXCEPT ![p] = Gone]
    /\ UNCHANGED <<selected, dry>>

\* The process goes on with what it holds.
Continue(p, step, content) ==
    /\ Goto(p, step)
    /\ held' = [held EXCEPT ![p] = content]
    /\ UNCHANGED <<todo, selected, dry, hash>>

\* A PDF is put in its place.  History: a file goes back when it was newer before.
PutPdf(n, content) ==
    /\ pdf' = [pdf EXCEPT ![n] = content]
    /\ newest' = [newest EXCEPT ![n] =
           IF content \in 1..Editions /\ content > @ THEN content ELSE @]
    /\ marred' = [marred EXCEPT ![n] =
           IF content < newest[n] THEN @ \cup {"back"} ELSE @]

-----------------------------------------------------------------------------
(* The publisher and the operator                                          *)

Publish(n) ==
    /\ n \in Reissued /\ served[n] < Editions
    /\ served' = [served EXCEPT ![n] = @ + 1]
    /\ UNCHANGED <<pdf, part, md, mdTmp, sidecar, sideTmp, row, newest, marred,
                   pc, todo, selected, dry, hash, held>>

\* Manual placement, of a file without a URL or over one that is there.
PlacePdf(n) ==
    /\ pdf[n] # served[n]
    /\ PutPdf(n, served[n])
    /\ UNCHANGED <<served, part, md, mdTmp, sidecar, sideTmp, row,
                   pc, todo, selected, dry, hash, held>>

\* A file is removed, so that the next run downloads it again.
RemovePdf(n) ==
    /\ pdf[n] # Gone
    /\ pdf' = [pdf EXCEPT ![n] = Gone]
    /\ UNCHANGED <<served, part, md, mdTmp, sidecar, sideTmp, row, newest, marred,
                   pc, todo, selected, dry, hash, held>>

-----------------------------------------------------------------------------
(* run_pipeline: main, with its filters                                    *)

\* No filter selects everything.  The download is not narrowed.
StartRun(p, cmd) ==
    /\ pc[p] = "idle"
    /\ Goto(p, "probe")
    /\ todo' = [todo EXCEPT ![p] = Manifest]
    /\ selected' = [selected EXCEPT ![p] = IF cmd.chosen = {} THEN Name ELSE cmd.chosen]
    /\ dry' = [dry EXCEPT ![p] = cmd.dry]
    /\ UNCHANGED <<disk, hash, held>>

-----------------------------------------------------------------------------
(* download_document                                                       *)

\* Without a URL, already there, or the request fails: on to the next.
SkipDownload(p) ==
    /\ pc[p] = "probe" /\ todo[p] # <<>>
    /\ NextEntry(p, "probe")
    /\ UNCHANGED disk

\* GET.  History: a second download of the file begins.
Fetch(p) ==
    \E n \in Linked :
        /\ At(p, "probe", n)
        /\ pdf[n] = Gone
        /\ Continue(p, "save", served[n])
        /\ marred' = [marred EXCEPT ![n] =
               IF \E q \in Proc \ {p} : Within(q, Saving, n) THEN @ \cup {"two downloads"} ELSE @]
        /\ UNCHANGED <<served, pdf, part, md, mdTmp, sidecar, sideTmp, row, newest>>

\* Faulty form: the response is written to the target itself, a part of it first.
SavePdfInPlace(p) ==
    \E n \in Name, whole \in BOOLEAN :
        /\ At(p, "save", n)
        /\ PutPdf(n, IF whole THEN held[p] ELSE Torn)
        /\ IF whole THEN Continue(p, "unlink", held[p]) ELSE End(p)
        /\ UNCHANGED <<served, part, md, mdTmp, sidecar, sideTmp, row>>

\* A write that is cut short leaves a part, and ends the run.
SavePdf(p) ==
    \E n \in Name, whole \in BOOLEAN :
        /\ At(p, "save", n)
        /\ part' = [part EXCEPT ![n] = IF whole THEN held[p] ELSE Torn]
        /\ IF whole THEN Continue(p, "rename", held[p]) ELSE End(p)
        /\ UNCHANGED <<served, pdf, md, mdTmp, sidecar, sideTmp, row, newest, marred>>

\* The rename raises if another run has taken the .tmp.
RenamePdf(p) ==
    \E n \in Name :
        /\ At(p, "rename", n)
        /\ IF part[n] = Gone
           THEN End(p) /\ UNCHANGED <<pdf, part, newest, marred>>
           ELSE /\ PutPdf(n, part[n])
                /\ part' = [part EXCEPT ![n] = Gone]
                /\ Continue(p, "unlink", held[p])
        /\ UNCHANGED <<served, md, mdTmp, sidecar, sideTmp, row>>

UnlinkPart(p) ==
    \E n \in Name :
        /\ At(p, "unlink", n)
        /\ part' = [part EXCEPT ![n] = Gone]
        /\ NextEntry(p, "probe")
        /\ UNCHANGED <<served, pdf, md, mdTmp, sidecar, sideTmp, row, newest, marred>>

\* The manifest is read again, and the filters are applied.
StartPipeline(p) ==
    /\ pc[p] = "probe" /\ todo[p] = <<>>
    /\ Goto(p, "open")
    /\ todo' = [todo EXCEPT ![p] = SelectSeq(Manifest, LAMBDA n : n \in selected[p])]
    /\ UNCHANGED <<disk, selected, dry, hash, held>>

-----------------------------------------------------------------------------
(* _run_full_pipeline, with convert_pdf                                    *)

\* PDF not found, skipping.
SkipMissing(p) ==
    \E n \in Name :
        /\ At(p, "open", n)
        /\ pdf[n] = Gone
        /\ NextEntry(p, "open")
        /\ UNCHANGED disk

\* The path that reads the PDF itself.  What is left of a PDF does not open.
ReadPdf(p) ==
    \E n \in Name \ Converted :
        /\ At(p, "open", n)
        /\ pdf[n] # Gone
        /\ IF pdf[n] = Torn THEN End(p) ELSE Continue(p, "store", pdf[n])
        /\ UNCHANGED disk

TakeHash(p) ==
    \E n \in Converted :
        /\ At(p, "open", n)
        /\ pdf[n] # Gone
        /\ hash' = [hash EXCEPT ![p] = pdf[n]]
        /\ Goto(p, "look")
        /\ UNCHANGED <<disk, todo, selected, dry, held>>

\* Faulty form: both files being there is enough.
HitAnything(n, sha) == md[n] # Gone /\ sidecar[n] # Gone

Hit(n, sha) == md[n] # Gone /\ sidecar[n] = sha

\* The cache is looked up.  History: a second conversion of the file begins.
Look(p) ==
    \E n \in Converted :
        /\ At(p, "look", n)
        /\ Goto(p, IF Hit(n, hash[p]) THEN "reread" ELSE "convert")
        /\ marred' = [marred EXCEPT ![n] =
               IF ~Hit(n, hash[p]) /\ \E q \in Proc \ {p} : Within(q, Conversion, n)
               THEN @ \cup {"two conversions"} ELSE @]
        /\ UNCHANGED <<served, pdf, part, md, mdTmp, sidecar, sideTmp, row, newest,
                       todo, selected, dry, hash, held>>

\* The PDF is read a second time.
Convert(p) ==
    \E n \in Converted :
        /\ At(p, "convert", n)
        /\ IF pdf[n] \in {Gone, Torn} THEN End(p) ELSE Continue(p, "write md", pdf[n])
        /\ UNCHANGED disk

WriteMd(p) ==
    \E n \in Converted, whole \in BOOLEAN :
        /\ At(p, "write md", n)
        /\ mdTmp' = [mdTmp EXCEPT ![n] = IF whole THEN held[p] ELSE Torn]
        /\ IF whole THEN Continue(p, "rename md", held[p]) ELSE End(p)
        /\ UNCHANGED <<served, pdf, part, md, sidecar, sideTmp, row, newest, marred>>

RenameMd(p) ==
    \E n \in Converted :
        /\ At(p, "rename md", n)
        /\ IF mdTmp[n] = Gone
           THEN End(p) /\ UNCHANGED <<md, mdTmp>>
           ELSE /\ md' = [md EXCEPT ![n] = mdTmp[n]]
                /\ mdTmp' = [mdTmp EXCEPT ![n] = Gone]
                /\ Continue(p, "write sidecar", held[p])
        /\ UNCHANGED <<served, pdf, part, sidecar, sideTmp, row, newest, marred>>

\* Faulty form: the hash is taken after the conversion.
WriteSidecarAfter(p) ==
    \E n \in Converted, whole \in BOOLEAN :
        /\ At(p, "write sidecar", n)
        /\ sideTmp' = [sideTmp EXCEPT ![n] = IF whole THEN pdf[n] ELSE Torn]
        /\ IF whole THEN Continue(p, "rename sidecar", held[p]) ELSE End(p)
        /\ UNCHANGED <<served, pdf, part, md, mdTmp, sidecar, row, newest, marred>>

\* The hash is the one taken before the conversion.
WriteSidecar(p) ==
    \E n \in Converted, whole \in BOOLEAN :
        /\ At(p, "write sidecar", n)
        /\ sideTmp' = [sideTmp EXCEPT ![n] = IF whole THEN hash[p] ELSE Torn]
        /\ IF whole THEN Continue(p, "rename sidecar", held[p]) ELSE End(p)
        /\ UNCHANGED <<served, pdf, part, md, mdTmp, sidecar, row, newest, marred>>

RenameSidecar(p) ==
    \E n \in Converted :
        /\ At(p, "rename sidecar", n)
        /\ IF sideTmp[n] = Gone
           THEN End(p) /\ UNCHANGED <<sidecar, sideTmp>>
           ELSE /\ sidecar' = [sidecar EXCEPT ![n] = sideTmp[n]]
                /\ sideTmp' = [sideTmp EXCEPT ![n] = Gone]
                /\ Continue(p, "reread", held[p])
        /\ UNCHANGED <<served, pdf, part, md, mdTmp, row, newest, marred>>

\* extract_markdown reads the cached file from disk, after a hit and after a conversion.
Reread(p) ==
    \E n \in Converted :
        /\ At(p, "reread", n)
        /\ Continue(p, "store", md[n])
        /\ UNCHANGED disk

\* store_document takes the file's hash anew, and cannot without the file.
Store(p) ==
    \E n \in Name :
        /\ At(p, "store", n) /\ ~dry[p]
        /\ IF pdf[n] = Gone
           THEN End(p) /\ UNCHANGED row
           ELSE /\ row' = [row EXCEPT ![n] = [hash |-> pdf[n], text |-> held[p]]]
                /\ NextEntry(p, "open")
        /\ UNCHANGED <<served, pdf, part, md, mdTmp, sidecar, sideTmp, newest, marred>>

SkipStore(p) ==
    /\ pc[p] = "store" /\ dry[p]
    /\ NextEntry(p, "open")
    /\ UNCHANGED disk

Complete(p) ==
    /\ pc[p] = "open" /\ todo[p] = <<>>
    /\ End(p)
    /\ UNCHANGED disk

\* The process dies, or embedding, converting or storing raises: nothing catches it.
Crash(p) ==
    /\ pc[p] # "idle"
    /\ End(p)
    /\ UNCHANGED disk

-----------------------------------------------------------------------------
Download(p) == SkipDownload(p) \/ Fetch(p) \/ SavePdf(p) \/ RenamePdf(p) \/ UnlinkPart(p)
Cache(p) == TakeHash(p) \/ Look(p) \/ Convert(p) \/ WriteMd(p) \/ RenameMd(p)
            \/ WriteSidecar(p) \/ RenameSidecar(p) \/ Reread(p)
Drive(p) ==
    \/ \E cmd \in Command : StartRun(p, cmd)
    \/ StartPipeline(p) \/ SkipMissing(p) \/ ReadPdf(p)
    \/ Store(p) \/ SkipStore(p) \/ Complete(p) \/ Crash(p)

Next ==
    \/ \E p \in Proc : Download(p) \/ Cache(p) \/ Drive(p)
    \/ \E n \in Name : Publish(n) \/ PlacePdf(n) \/ RemovePdf(n)

Spec == Init /\ [][Next]_vars

-----------------------------------------------------------------------------
(* Properties                                                              *)

Sound(n) == marred[n] \cap {"two conversions", "back"} = {}
Whole(n) == pdf[n] \in 1..Editions

\* What the next run would take from the cache is the conversion of the file that is
\* there, whatever died between the two renames and however often the file was
\* replaced (convert.py:366, 402-415); as long as it is a whole file, no two runs
\* converted it at once and no earlier edition of it came back.
HitIsFresh ==
    \A n \in Converted :
        Sound(n) /\ Whole(n) /\ Hit(n, pdf[n]) => md[n] = pdf[n]

\* A run whose file stays what it was stores the text of that very file under its
\* hash, from whatever earlier runs have left on disk: so a second run repairs every
\* crash (run_pipeline.py:141-152, convert.py:366).
RunRepairs ==
    [][\A p \in Proc, n \in Name :
         /\ Store(p) /\ At(p, "store", n)
         /\ Sound(n) /\ Whole(n)
         /\ pdf[n] = IF n \in Converted THEN hash[p] ELSE held[p]
         => row'[n] = [hash |-> pdf[n], text |-> pdf[n]]]_vars

\* A download that is cut short never leaves a part of a file that later runs would
\* take for the whole (download.py:106-113), unless two runs wrote its .tmp at once.
NothingTorn == \A n \in Name : "two downloads" \notin marred[n] => pdf[n] # Torn
=============================================================================

-------------------------- MODULE MCCorpusStore ----------------------------
(* Constants of the TLC instances of CorpusStore.                          *)
EXTENDS CorpusStore, TLC
CONSTANTS blank, short, long
\* A scan without text, an amended agreement, and a longer one.
MCChunks == (blank :> 0) @@ (short :> 1) @@ (long :> 2)
\* Where runs of both kinds have overlapped on every file no invariant says anything of
\* any file, nor ever will: overlaps are never forgotten.
Telling == \E n \in Name : raced[n] # {"store and store", "store and purge"}
Symmetry == Permutations(Proc) \cup Permutations(Name)
=============================================================================

---------------------------- MODULE MCIngestion -----------------------------
(* Constants of the TLC instance of Ingestion.                             *)
EXTENDS Ingestion, TLC
CONSTANTS agreement, schedule
\* An agreement that is converted and has a link, and a schedule placed by hand.
MCManifest == <<agreement, schedule>>
\* Everything, and a targeted run that stores nothing.
MCCommand == {[chosen |-> {}, dry |-> FALSE], [chosen |-> {agreement}, dry |-> TRUE]}
\* Once the agreement is marred nothing is said of it, nor ever will be.
Telling == marred[agreement] = {}
Symmetry == Permutations(Proc)
=============================================================================

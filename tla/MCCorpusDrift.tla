--------------------------- MODULE MCCorpusDrift ----------------------------
(* Constants of the TLC instance of CorpusDrift.                           *)
EXTENDS CorpusDrift, TLC
CONSTANTS early, early2, late, form, deal
\* Three dates of one schedule, the second of them a rename of the first; a form that
\* the publisher files among the schedules; an agreement.
MCFile == {early, early2, late, form, deal}
MCRank == (early :> 1) @@ (early2 :> 2) @@ (late :> 3) @@ (form :> 4) @@ (deal :> 5)
MCIdentity == [f \in MCFile |-> IF f \in {early, early2, late} THEN early ELSE f]
MCContent == [f \in MCFile |-> IF f = early2 THEN early ELSE f]
MCFiled == [f \in MCFile |-> IF f \in {form, deal} THEN "other" ELSE "wage_schedule"]
MCAgreement == {deal}
\* One schedule is known by its name only, one entry has no link.
Shown(f) == [linked |-> TRUE, param |-> IF f = late THEN NoFile ELSE f, name |-> f]
Dead == [linked |-> FALSE, param |-> NoFile, name |-> early]
\* The form and the agreement are there together; early is linked as a document, too.
MCPages ==
    {[wage |-> {Shown(f) : f \in W} \cup {Dead}, links |-> {}] : W \in SUBSET {early, early2, late}}
    \cup {[wage |-> {Shown(f) : f \in W \cup {form}}, links |-> {deal, form, early}]
             : W \in SUBSET {early, early2, late}}
=============================================================================

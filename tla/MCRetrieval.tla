---------------------------- MODULE MCRetrieval ----------------------------
(* A small corpus and scaled limits for the TLC instance of Retrieval.     *)
EXTENDS Retrieval

Text(union, kind, scope, dates) ==
    [union |-> union, kind |-> kind, scope |-> scope, dates |-> dates, class |-> None,
     place |-> None, table |-> FALSE, rated |-> FALSE]
Rates(union, scope, dates, class, place, rated) ==
    [union |-> union, kind |-> "wage", scope |-> scope, dates |-> dates, class |-> class,
     place |-> place, table |-> TRUE, rated |-> rated]

Corpus == <<
    Text("A", "ca", None, "current"),
    Text("A", "ca", "generation", "current"),
    Text("A", "ca", None, "current"),
    Text("A", "ca", None, "expired"),
    Text("A", "npa", None, "current"),
    Text("A", "npa", None, "expired"),
    Text("B", "ca", None, "current"),
    Text("B", "npa", None, "current"),
    Text("C", "ca", "transmission", "current"),
    Rates("A", "generation", "current", "foreman", "here", TRUE),
    Rates("A", "transmission", "current", "foreman", "here", TRUE),
    Rates("A", None, "expired", "foreman", "there", TRUE),
    Rates("A", None, "future", "journeyman", "there", TRUE),
    Rates("B", None, "current", "foreman", "there", FALSE)>>

Unions == <<"A", "B", "C">>

Scaled == [topK |-> 6, minPrimary |-> 2, maxTerms |-> 2, perTerm |-> 2, termPerUnion |-> 1,
           provisionMerged |-> 2, npaSlots |-> 2, npaPerUnion |-> 1, npaMerged |-> 2,
           wageSlots |-> 3, wagePerUnion |-> 2, wageMerged |-> 3, baseline |-> 1,
           enumPerUnion |-> 1, enumMaxUnions |-> 3, enumPrimary |-> 4, enumReserve |-> 1,
           page |-> 2, scanCap |-> 6]

Asked(named, all, nuclear, scope, wage, premium, classes, places, terms) ==
    [named |-> named, all |-> all, nuclear |-> nuclear, scope |-> scope, wage |-> wage,
     compare |-> FALSE, premium |-> premium, classes |-> classes, places |-> places,
     terms |-> terms]

\* About agreements: every union filter, scope and combination of passes.
Broad == {Asked(union[1], union[2], nuclear, scope, wage, FALSE, {}, {}, terms) :
             union \in {<<<<>>, FALSE>>, <<<<>>, TRUE>>, <<<<"A">>, FALSE>>,
                        <<<<"A", "C">>, TRUE>>, <<<<"C", "A", "B">>, FALSE>>},
             nuclear \in BOOLEAN, scope \in {None, "generation"}, wage \in BOOLEAN,
             terms \in {0, 3}}

\* About rates: one classification, with or without a location, of one union or of any.
Rate == {Asked(named, FALSE, nuclear, scope, TRUE, premium, {"foreman"}, places, terms) :
             named \in {<<>>, <<"A">>}, nuclear \in BOOLEAN, scope \in {None, "generation"},
             premium \in BOOLEAN, places \in {{"here"}, {"there"}}, terms \in {0, 3}}

Questions == Broad \cup Rate

Rising == [k \in 1..Len(Corpus) |-> k]
Falling == [k \in 1..Len(Corpus) |-> Len(Corpus) + 1 - k]
Orders == {Rising, Falling}

\* The agreement of union A, and the file of its rate tables.
Documents == {{1, 2, 3}, {10, 11, 12, 13}}
=============================================================================

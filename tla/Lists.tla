------------------------------- MODULE Lists -------------------------------
(***************************************************************************)
(* Sequences made from sets: what Python's sorted and its filtering        *)
(* comprehensions return.                                                  *)
(***************************************************************************)
EXTENDS Naturals, Sequences, FiniteSets, Functions

\* The members of a finite set by rising key; no two share one.
Ordered(S, key) ==
    [k \in 1..Cardinality(S) |-> CHOOSE x \in S : Cardinality({y \in S : key[y] <= key[x]}) = k]

\* The entries of s at the places in I, in the order of s.
Picked(s, I) ==
    LET at == Ordered(I, [i \in I |-> i]) IN [k \in 1..Cardinality(I) |-> s[at[k]]]
=============================================================================

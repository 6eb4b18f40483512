---------------------------- MODULE MCTierQuota ----------------------------
(* Constants of the TLC instances of TierQuota.                            *)
EXTENDS TierQuota, TLC

Symmetry == Permutations(Query)

\* Bound of the model: one query over several subscriptions of any status, or several
\* over one that is paid or dunned.
FewOfEach ==
    \/ Cardinality({q \in Query : pc[q] # "new"}) <= 1
    \/ Len(subs) <= 1 /\ \A i \in DOMAIN subs : subs[i].stripe \in {"active", "past_due"}
=============================================================================

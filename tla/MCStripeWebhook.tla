-------------------------- MODULE MCStripeWebhook --------------------------
(* Constants of the TLC instances of StripeWebhook.                        *)
EXTENDS StripeWebhook, TLC
\* Every subscription belongs to one customer.
OneCustomer == [s \in Sub |-> CHOOSE c \in Customer : TRUE]
Symmetry == Permutations(Sub) \cup Permutations(Worker)
=============================================================================

--------------------------- MODULE MCRateLimiter ---------------------------
(* Constants of the TLC instance of RateLimiter.                           *)
EXTENDS RateLimiter, TLC
Symmetry == Permutations(Key)
=============================================================================

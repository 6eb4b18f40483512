-------------------------- MODULE MCRefreshTokens --------------------------
(* Constants of the TLC instances of RefreshTokens.                        *)
EXTENDS RefreshTokens, TLC
Symmetry == Permutations(Token) \cup Permutations(Request)
=============================================================================

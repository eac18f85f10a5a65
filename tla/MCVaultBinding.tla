--------------------------- MODULE MCVaultBinding ---------------------------
(***************************************************************************)
(* Instances of VaultBinding for TLC.                                      *)
(***************************************************************************)
EXTENDS VaultBinding, TLC

CONSTANTS k1, k2, d1, s1, r1, r2

\* Requests are interchangeable.
Symmetric == Permutations(Requests)
=============================================================================

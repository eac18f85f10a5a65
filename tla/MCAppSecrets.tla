---------------------------- MODULE MCAppSecrets ----------------------------
(***************************************************************************)
(* Instances of AppSecrets for TLC.                                        *)
(***************************************************************************)
EXTENDS AppSecrets, TLC

CONSTANTS a1, s1, s2, r1, r2, r3

\* Requests and names are interchangeable.
Symmetric == Permutations({s1, s2}) \cup Permutations(Requests)
=============================================================================

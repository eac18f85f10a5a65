--------------------------- MODULE MCProjectPorts ---------------------------
(***************************************************************************)
(* Instances of ProjectPorts for TLC.                                      *)
(***************************************************************************)
EXTENDS ProjectPorts, TLC

CONSTANTS s1, r1, r2, r3

\* Requests are interchangeable.
Symmetric == Permutations(Requests)
=============================================================================

------------------------ MODULE MCProjectLifecycle -------------------------
(***************************************************************************)
(* Instances of ProjectLifecycle for TLC.                                  *)
(***************************************************************************)
EXTENDS ProjectLifecycle, TLC

CONSTANTS p1, r1, r2, r3

\* Requests are interchangeable.
Symmetric == Permutations(Requests)
=============================================================================

------------------------- MODULE MCResourceManagers -------------------------
(***************************************************************************)
(* Instances of ResourceManagers for TLC.                                  *)
(***************************************************************************)
EXTENDS ResourceManagers, TLC

CONSTANTS r1, r2, k1, k2, v1, v2, m1, m2

\* Nothing, one key, and both with another value.
SomePayloads == {Empty, [Empty EXCEPT ![k1] = v1], [Empty EXCEPT ![k2] = v1],
                 [Empty EXCEPT ![k1] = v2, ![k2] = v2]}

\* Requests are interchangeable.
Symmetric == Permutations(Requests)
=============================================================================

------------------------ MODULE MCKubernetesClient -------------------------
(***************************************************************************)
(* Instances of KubernetesClient for TLC.                                  *)
(***************************************************************************)
EXTENDS KubernetesClient, TLC

CONSTANTS r1, r2, r3

\* Requests are interchangeable.
Symmetric == Permutations(Requests)
=============================================================================

-------------------------- MODULE ProjectContract --------------------------
(***************************************************************************)
(* What the project service promises to its callers, with no API call in   *)
(* sight: a project whose creation was answered stays usable until its     *)
(* deletion is requested, and only a requested deletion takes one down.    *)
(***************************************************************************)
CONSTANT Projects

VARIABLES
  usable,       \* projects in which apps can be deployed
  standing      \* what the last answer or request said of every project

vars == <<usable, standing>>

Standings == {"none", "promised", "condemned"}

Init ==
  /\ usable = {}
  /\ standing = [p \in Projects |-> "none"]

Stand(p, s) == standing' = [standing EXCEPT ![p] = s]

\* A creation completes the project, and is answered now or never.
Provision(p) ==
  /\ usable' = usable \cup {p}
  /\ Stand(p, "promised") \/ UNCHANGED standing

\* A deletion is requested.
Condemn(p) == Stand(p, "condemned") /\ UNCHANGED usable

\* A requested deletion takes effect.
Withdraw(p) ==
  /\ standing[p] = "condemned"
  /\ usable' = usable \ {p}
  /\ UNCHANGED standing

\* Nothing is left of the project.
Forget(p) ==
  /\ p \notin usable
  /\ Stand(p, "none")
  /\ UNCHANGED usable

Next == \E p \in Projects : Provision(p) \/ Condemn(p) \/ Withdraw(p) \/ Forget(p)

Spec == Init /\ [][Next]_vars

\* What a caller relies on: it deploys to the projects it was promised.
PromisesKept == \A p \in Projects : standing[p] = "promised" => p \in usable
=============================================================================

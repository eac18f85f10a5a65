--------------------------- MODULE MCAppLifecycle ---------------------------
(***************************************************************************)
(* Instances of AppLifecycle for TLC: the names and the workloads of the   *)
(* runs.                                                                   *)
(***************************************************************************)
EXTENDS AppLifecycle

CONSTANTS a1, c1, c2, i1

\* "<app>-<container>-pvc" of pairs that yield different strings.
MCClaims == Apps \X Containers
MCPvcName == [x \in Apps \X Containers |-> x]

Create(a, cs, i, size, n) ==
  [op |-> "create", app |-> a,
   image |-> [c \in Containers |-> IF c \in cs THEN i ELSE NoImage],
   disk |-> [c \in Containers |-> IF c \in cs THEN size ELSE 0],
   replicas |-> n]
CreateDiskless(a, cs, i, n) == Create(a, cs, i, 0, n)
Delete(a) == [op |-> "delete", app |-> a]
Revise(a, c, resources, size, n) ==
  [op |-> "revise", app |-> a, container |-> c,
   resources |-> resources, disk |-> size, replicas |-> n]
AutoScale(a, lo, hi) == [op |-> "autoscale", app |-> a, range |-> lo..hi]
FixedScale(a, n) == [op |-> "fixedscale", app |-> a, replicas |-> n]

\* Creations with one disk or two, deletions and revisions of one app.
LifecycleWork ==
  {Create(a1, {c1}, i1, 1, 1), Create(a1, Containers, i1, 1, 1), Delete(a1),
   Revise(a1, c1, TRUE, 2, 0), Revise(a1, c2, TRUE, 1, 2)}

\* Everything that rescales one app.
ScalingWork ==
  {CreateDiskless(a1, {c1}, i1, 1), Delete(a1), Revise(a1, c1, FALSE, 0, 2),
   AutoScale(a1, 1, 2), FixedScale(a1, 1), FixedScale(a1, 2)}

\* One request of every kind, for clients that keep nothing apart.
OverlapWork ==
  {Create(a1, {c1}, i1, 1, 1), Delete(a1), Revise(a1, c1, FALSE, 0, 2),
   AutoScale(a1, 1, 2), FixedScale(a1, 1)}

\* Every creation of the app asks for the same disks.
UniformWork ==
  {Create(a1, Containers, i1, 1, 1), Delete(a1), Revise(a1, c1, TRUE, 2, 0)}
=============================================================================

---------------------------- MODULE MCMonitoring ----------------------------
(***************************************************************************)
(* Instances of Monitoring for TLC.                                        *)
(***************************************************************************)
EXTENDS Monitoring, TLC

CONSTANTS n1, n2, s1, s2, a1, a2

\* Quantities as the cluster writes them; "k" is legal, and unknown to the code.
\* There are nodes without storage, limits of zero, and 55 of 100 to allocate.
MCAmounts ==
  [cpu |-> {[n |-> 1, unit |-> "one"], [n |-> 550, unit |-> "m"]},
   memory |-> {[n |-> 1, unit |-> "Ki"], [n |-> 1, unit |-> "k"]},
   storage |-> {[n |-> 1, unit |-> "Ki"], [n |-> 563, unit |-> "one"], [n |-> 0, unit |-> "one"]}]

\* The keys that the service gives a quota, and others.
MCQuotaKeys ==
  [cpu |-> {{"requests", "limits"}, {"requests"}, {"limits"}, {"limits", "plain"}},
   memory |-> {{"requests", "limits"}, {"plain"}},
   storage |-> {{"requests"}, {"ephemeral"}, {"plain"}}]

\* A rolling app of two pods, and one that is scaled to zero.
MCShapes == {[replicas |-> 2, ready |-> 1], [replicas |-> 0, ready |-> 0]}

\* What is read of a Deployment differs by resource only in the unit.
MCFollow == Resources \X {"cluster", "project"} \cup {<<"cpu", "apps">>}

\* Nodes and apps are interchangeable.
Symmetric == Permutations(Nodes) \cup Permutations(Apps)
=============================================================================

----------------------------- MODULE Monitoring -----------------------------
(***************************************************************************)
(* The status queries: how much of the cluster is allocated and whether    *)
(* that passes the threshold, how much of its quota a project uses, and    *)
(* how much of their limits the apps use.  A query reads the cluster in    *)
(* one call or in several, while nodes, quotas and apps change.  It        *)
(* converts what it reads to one unit, adds it up and compares.            *)
(*                                                                         *)
(* Queries change nothing, so one of them is followed at a time, for one   *)
(* resource, in the part of the cluster that it reads: every namespace, a  *)
(* project's namespace, or the Deployments of some apps.                   *)
(***************************************************************************)
EXTENDS Naturals, FiniteSets, Functions

CONSTANTS
  Nodes, Namespaces, Apps,
  Project,        \* the namespace of the project that is asked about
  Follow,         \* the queries that are followed: resources and views
  Amounts,        \* the quantities of each resource, as numbers with a unit
  QuotaKeys,      \* the sets of keys that quotas have for each resource
  LimitsStated,   \* TRUE: no pod of a project requests more than the limits it states
  Threshold,      \* percent of the cluster that may be allocated
  Precise,        \* totals below it are small enough for exact percentages
  Shapes,         \* how many pods an app wants, and how many are ready
  Absent          \* no object, no value, no answer

Resources == {"cpu", "memory", "storage"}
Views == {"cluster", "project", "apps"}

ASSUME ProjectAssumption == Project \in Namespaces
ASSUME FollowAssumption == Follow \subseteq Resources \X Views
ASSUME LimitsAssumption == LimitsStated \in BOOLEAN
ASSUME ThresholdAssumption == Threshold \in 0..100 /\ Precise \in Nat
ASSUME ShapesAssumption == Shapes \subseteq [replicas : Nat, ready : Nat]
ASSUME FiniteAssumption == IsFiniteSet(Nodes) /\ IsFiniteSet(Namespaces)

\* The units that are looked at; the code does not know all of them.  A number
\* without a unit counts ones.
Quantities == [n : Nat, unit : {"one", "m", "k", "Ki", "Mi", "Gi", "M", "G"}]

ASSUME AmountsAssumption == Amounts \in [Resources -> SUBSET Quantities]

\* The keys of a quota for one resource: requests.x, limits.x, x, requests.ephemeral-x.
Keys == {"requests", "limits", "plain", "ephemeral"}

ASSUME KeysAssumption == QuotaKeys \in [Resources -> SUBSET (SUBSET Keys)]

VARIABLES
  resource, view, \* what is followed
  listed, node,   \* the nodes there are, and what each says it can allocate
  quota, used,    \* what a namespace may use, and uses by the controller's last count
  usage,          \* what its pods use, as requests and as limits
  app,            \* an app's pods, wanted and ready, and the amounts of each of them
  pc,             \* the call the query awaits next, or how it ended
  pending,        \* apps whose Deployment is still to be read
  found,          \* what the query has learnt of the nodes
  answer,
  calm,           \* history: nothing that the query reads changed since it arrived
  steady, seen    \* history: apps it can see all the time since then, or at some time

followed == <<resource, view>>
objects == <<listed, node, quota, used, usage, app>>
query == <<pc, pending, found, answer>>
histories == <<calm, steady, seen>>
vars == <<followed, objects, query, histories>>

Sizes == Amounts[resource]
Sized == Sizes \cup {Absent}
Zero == [n |-> 0, unit |-> "one"]
Counts == Sizes \cup {Zero}
AppSpecs == [pods : Shapes, requests : Sized, limits : Sized]
Metrics == [limit : Nat, used : Nat]

\* The absent value is none of the others.
ASSUME AbsentAssumption ==
  /\ Absent \notin Quantities
  /\ Absent \notin [Keys -> Quantities \cup {Absent}]
  /\ Absent \notin [total : Nat, count : 0..Cardinality(Nodes)]
  /\ \A known \in SUBSET Apps : Absent \notin [known -> Metrics]

TypeOK ==
  /\ <<resource, view>> \in Follow
  /\ listed \subseteq Nodes /\ node \in [Nodes -> Sized]
  /\ quota \in [Namespaces -> [Keys -> Sized] \cup {Absent}]
  /\ used \in [Namespaces -> [Keys -> Counts \cup {Absent}]]
  /\ usage \in [Namespaces -> [requests : Counts, limits : Counts]]
  /\ app \in [Apps -> AppSpecs \cup {Absent}]
  /\ pc \in {"idle", "nodes", "count", "quotas", "quota", "apps", "answered", "failed"}
  /\ pending \subseteq Apps
  /\ found = Absent \/ found \in [total : Nat, count : 0..Cardinality(Nodes)]
  /\ calm \in BOOLEAN
  /\ steady \subseteq Apps /\ seen \subseteq Apps

-----------------------------------------------------------------------------
(* Quantities: a number and a unit. *)

\* Mutant: decimal and binary units are taken for each other.
FactorDecimal(unit) ==
  CASE unit \in {"Ki", "K"} -> 1000
    [] unit \in {"Mi", "M"} -> 1000 * 1000
    [] unit \in {"Gi", "G"} -> 1000 * 1000 * 1000
    [] OTHER -> 1

\* Units beyond these go on in the same way; unknown ones count as bytes.
Factor(unit) ==
  CASE unit = "Ki" -> 1024
    [] unit = "Mi" -> 1024 * 1024
    [] unit = "Gi" -> 1024 * 1024 * 1024
    [] unit = "K" -> 1000
    [] unit = "M" -> 1000 * 1000
    [] unit = "G" -> 1000 * 1000 * 1000
    [] OTHER -> 1

StorageBytes(q) == q.n * Factor(q.unit)

\* Other units count nothing.
CpuFactor(unit) ==
  CASE unit = "m" -> 1
    [] unit = "one" -> 1000
    [] OTHER -> 0

CpuMillicores(q) == q.n * CpuFactor(q.unit)

\* What is absent counts nothing.
Parsed(q) ==
  CASE q = Absent -> 0
    [] q # Absent /\ resource = "cpu" -> CpuMillicores(q)
    [] OTHER -> StorageBytes(q)

\* What a quantity is worth, in thousandths, and whether the code knows its unit.
Worth(unit) ==
  CASE unit = "m" -> 1
    [] unit = "one" -> 1000
    [] unit = "k" -> 1000 * 1000
    [] unit = "Ki" -> 1024 * 1000
    [] unit = "Mi" -> 1024 * 1024 * 1000
    [] unit = "Gi" -> 1024 * 1024 * 1024 * 1000
    [] unit = "M" -> 1000 * 1000 * 1000
    [] unit = "G" -> 1000 * 1000 * 1000 * 1000
Thousandths(q) == IF q = Absent THEN 0 ELSE q.n * Worth(q.unit)
Known(q) ==
  q # Absent => q.unit \in (IF resource = "cpu" THEN {"one", "m"}
                            ELSE {"one", "Ki", "Mi", "Gi", "M", "G"})

-----------------------------------------------------------------------------
Init ==
  /\ \E f \in Follow : resource = f[1] /\ view = f[2]
  /\ listed = {} /\ node = [n \in Nodes |-> Absent]
  /\ quota = [s \in Namespaces |-> Absent]
  /\ used = [s \in Namespaces |-> [k \in Keys |-> Absent]]
  /\ usage = [s \in Namespaces |-> [requests |-> Zero, limits |-> Zero]]
  /\ app = [a \in Apps |-> Absent]
  /\ pc = "idle"
  /\ pending = {} /\ found = Absent /\ answer = Absent
  /\ calm = TRUE /\ steady = {} /\ seen = {}

Present == {a \in Apps : app[a] # Absent}
Ended == pc \in {"answered", "failed"}

\* A query arrives; one for apps names some.
Ask(step, asked) ==
  /\ pc = "idle"
  /\ pc' = step
  /\ pending' = asked
  /\ steady' = asked \cap Present /\ seen' = asked \cap Present
  /\ UNCHANGED <<followed, objects, found, answer, calm>>

AskCluster == view = "cluster" /\ Ask("nodes", {})
AskProject == view = "project" /\ Ask("quota", {})
AskApps == view = "apps" /\ \E asked \in SUBSET Apps \ {{}} : Ask("apps", asked)

\* The answer is sent and the query forgotten.
Respond ==
  /\ Ended
  /\ pc' = "idle"
  /\ pending' = {} /\ found' = Absent /\ answer' = Absent
  /\ calm' = TRUE /\ steady' = {} /\ seen' = {}
  /\ UNCHANGED <<followed, objects>>

\* A call that fails ends the query.
CallFails ==
  /\ pc \in {"nodes", "count", "quotas", "quota"}
  /\ pc' = "failed"
  /\ UNCHANGED <<followed, objects, pending, found, answer, histories>>

-----------------------------------------------------------------------------
(* The cluster: two listings of nodes, and one of quotas. *)

\* Mutant: the number of nodes has no value before they are counted.
ListNodesUncounted ==
  /\ pc = "nodes"
  /\ found' = [total |-> SumFunction([n \in Nodes |-> Parsed(node[n])]), count |-> Absent]
  /\ pc' = "count"
  /\ UNCHANGED <<followed, objects, pending, answer, histories>>

\* The allocatable amounts of all nodes; one that states none counts nothing.
ListNodes ==
  /\ pc = "nodes"
  /\ found' = [total |-> SumFunction([n \in Nodes |-> Parsed(node[n])]), count |-> 0]
  /\ pc' = "count"
  /\ UNCHANGED <<followed, objects, pending, answer, histories>>

CountNodes ==
  /\ pc = "count"
  /\ found' = [found EXCEPT !.count = Cardinality(listed)]
  /\ pc' = "quotas"
  /\ UNCHANGED <<followed, objects, pending, answer, histories>>

\* Requests count before limits, and those before the bare name; of storage,
\* claims count before what pods use.
HardOf(h) ==
  CASE h["requests"] # Absent -> h["requests"]
    [] h["requests"] = Absent /\ resource = "storage" -> h["ephemeral"]
    [] h["requests"] = Absent /\ resource # "storage" /\ h["limits"] # Absent -> h["limits"]
    [] OTHER -> h["plain"]

Limited == {s \in Namespaces : quota[s] # Absent}

Allocated == SumFunction([s \in Limited |-> Parsed(HardOf(quota[s]))])

\* Thresholds that the ratio just meets exceeds: as floats, T/100 * 100 is above T.
RoundsUp == {7, 14, 28, 55, 56}

\* What the alarm may say: a cluster without capacity has nothing allocated, and the
\* ratio of others is a float.  Its error decides at the threshold, and may decide near
\* it where the total is not Precise; there the alarm is left open.
Alarms(allocated, total) ==
  IF total = 0 THEN {FALSE}
  ELSE IF allocated * 100 = Threshold * total THEN {Threshold \in RoundsUp}
  ELSE IF total < Precise THEN {allocated * 100 > Threshold * total}
  ELSE BOOLEAN

ListQuotas ==
  /\ pc = "quotas"
  /\ \E alarm \in Alarms(Allocated, found.total) :
       answer' = [total |-> found.total, allocated |-> Allocated, nodes |-> found.count,
                  alarm |-> alarm, namespaces |-> Cardinality(Limited)]
  /\ pc' = "answered"
  /\ UNCHANGED <<followed, objects, pending, found, histories>>

-----------------------------------------------------------------------------
(* A project: its quota, and what is counted against it. *)

\* Mutant: what is used is looked up as the cluster's query looks up limits.
FirstUsed(h) ==
  IF resource # "storage" /\ Parsed(h["requests"]) # 0 THEN Parsed(h["requests"])
  ELSE IF resource # "storage" /\ Parsed(h["limits"]) # 0 THEN Parsed(h["limits"])
  ELSE Parsed(h["plain"])

\* The first amount that is not zero: limits, requests, the bare name.
First(h) ==
  IF resource # "storage" /\ Parsed(h["limits"]) # 0 THEN Parsed(h["limits"])
  ELSE IF Parsed(h["requests"]) # 0 THEN Parsed(h["requests"])
  ELSE Parsed(h["plain"])

Used(h) == First(h)

\* An answer without a limit says that there is none.
ReadQuota ==
  /\ pc = "quota"
  /\ answer' = IF quota[Project] = Absent THEN [limit |-> 0, used |-> 0]
                ELSE [limit |-> First(quota[Project]), used |-> Used(used[Project])]
  /\ pc' = "answered"
  /\ UNCHANGED <<followed, objects, pending, found, histories>>

-----------------------------------------------------------------------------
(* Apps: the Deployments are read side by side. *)

AtLeastOne(n) == IF n = 0 THEN 1 ELSE n
MetricOf(d) == [limit |-> Parsed(d.limits) * AtLeastOne(d.pods.replicas),
                used |-> Parsed(d.requests) * d.pods.ready]

Reported == IF answer = Absent THEN <<>> ELSE answer

\* The report with this app in it.
Reporting(a) ==
  [b \in DOMAIN Reported \cup {a} |-> IF b = a THEN MetricOf(app[a]) ELSE Reported[b]]

\* The query is answered when the last app was read.
Collect(a) ==
  /\ pending' = pending \ {a}
  /\ pc' = IF pending' = {} THEN "answered" ELSE pc

\* Mutant: the first app that is not found ends the query.
ReadAppStrict(a) ==
  /\ pc = "apps" /\ a \in pending
  /\ IF app[a] # Absent
     THEN answer' = Reporting(a) /\ Collect(a)
     ELSE pc' = "answered" /\ pending' = {} /\ answer' = Reported
  /\ UNCHANGED <<followed, objects, found, histories>>

\* An app that does not exist is left out.
ReadApp(a) ==
  /\ pc = "apps" /\ a \in pending
  /\ answer' = IF app[a] # Absent THEN Reporting(a) ELSE Reported
  /\ Collect(a)
  /\ UNCHANGED <<followed, objects, found, histories>>

\* So is one whose read fails.
ReadFails(a) ==
  /\ pc = "apps" /\ a \in pending
  /\ answer' = Reported
  /\ Collect(a)
  /\ steady' = steady \ {a}
  /\ UNCHANGED <<followed, objects, found, calm, seen>>

-----------------------------------------------------------------------------
(* The cluster changes.  What changes after a query has its answer concerns only *)
(* the next one, and waits until the answer is sent.                             *)

Disturbs ==
  /\ ~Ended
  /\ calm' = (pc = "idle")
  /\ UNCHANGED <<followed, query, steady, seen>>

\* A node joins, or changes what it can allocate; it may not state the resource.
NodeChanges(n) ==
  /\ view = "cluster"
  /\ \E q \in Sized : node' = [node EXCEPT ![n] = q]
  /\ listed' = listed \cup {n}
  /\ UNCHANGED <<quota, used, usage, app>>
  /\ Disturbs

NodeGone(n) ==
  /\ view = "cluster" /\ n \in listed
  /\ listed' = listed \ {n} /\ node' = [node EXCEPT ![n] = Absent]
  /\ UNCHANGED <<quota, used, usage, app>>
  /\ Disturbs

\* What a quota may allow.
Hard(ks) == {[k \in Keys |-> IF k \in ks THEN h[k] ELSE Absent] : h \in [ks -> Sizes]}
Hards == UNION {Hard(ks) : ks \in QuotaKeys[resource]}

\* The query reads this namespace's quota.
Covers(s) == view = "cluster" \/ (view = "project" /\ s = Project)

QuotaMade(s) ==
  /\ Covers(s) /\ quota[s] = Absent
  /\ \E h \in Hards : quota' = [quota EXCEPT ![s] = h]
  /\ UNCHANGED <<listed, node, used, usage, app>>
  /\ Disturbs

\* Amounts change, or keys come and go: those that are counted lag behind.
QuotaChanges(s) ==
  /\ Covers(s) /\ quota[s] # Absent
  /\ \E h \in Hards : quota' = [quota EXCEPT ![s] = h]
  /\ UNCHANGED <<listed, node, used, usage, app>>
  /\ Disturbs

QuotaGone(s) ==
  /\ Covers(s) /\ quota[s] # Absent
  /\ quota' = [quota EXCEPT ![s] = Absent]
  /\ used' = [used EXCEPT ![s] = [k \in Keys |-> Absent]]
  /\ UNCHANGED <<listed, node, usage, app>>
  /\ Disturbs

\* Pods come and go.  Those that state a limit request no more; under LimitsStated,
\* all that request something do.
PodsChange(s) ==
  /\ view = "project" /\ s = Project
  /\ \E req, lim \in Counts :
       /\ LimitsStated => Thousandths(req) <= Thousandths(lim)
       /\ usage' = [usage EXCEPT ![s] = [requests |-> req, limits |-> lim]]
  /\ UNCHANGED <<listed, node, quota, used, app>>
  /\ Disturbs

\* The quota's controller counts what the pods use, for the keys of the quota.
Recount(s) ==
  /\ view = "project" /\ s = Project /\ quota[s] # Absent
  /\ used' = [used EXCEPT ![s] =
       [k \in Keys |-> CASE quota[s][k] = Absent -> Absent
                         [] quota[s][k] # Absent /\ k = "limits" -> usage[s].limits
                         [] OTHER -> usage[s].requests]]
  /\ UNCHANGED <<listed, node, quota, usage, app>>
  /\ Disturbs

\* An app is deployed, rescaled, or its pods become ready or fail.
AppChanges(a) ==
  /\ view = "apps" /\ ~Ended
  /\ \E d \in AppSpecs : app' = [app EXCEPT ![a] = d]
  /\ steady' = steady \ {a}
  /\ seen' = seen \cup (pending \cap {a})
  /\ UNCHANGED <<followed, listed, node, quota, used, usage, query, calm>>

AppGone(a) ==
  /\ view = "apps" /\ ~Ended
  /\ app' = [app EXCEPT ![a] = Absent]
  /\ steady' = steady \ {a}
  /\ UNCHANGED <<followed, listed, node, quota, used, usage, query, calm, seen>>

-----------------------------------------------------------------------------
Next ==
  \/ AskCluster \/ AskProject \/ AskApps \/ CallFails \/ Respond
  \/ ListNodes \/ CountNodes \/ ListQuotas
  \/ ReadQuota
  \/ \E a \in Apps : ReadApp(a) \/ ReadFails(a) \/ AppChanges(a) \/ AppGone(a)
  \/ \E n \in Nodes : NodeChanges(n) \/ NodeGone(n)
  \/ \E s \in Namespaces : \/ QuotaMade(s) \/ QuotaChanges(s) \/ QuotaGone(s)
                           \/ PodsChange(s) \/ Recount(s)

Spec == Init /\ [][Next]_vars

-----------------------------------------------------------------------------
(* Properties. *)

Answers(v) == view = v /\ ~Ended /\ pc' = "answered"

\* What is allocated, and what there is, in thousandths.
ExactAllocated == SumFunction([s \in Limited |-> Thousandths(HardOf(quota[s]))])
ExactTotal == SumFunction([n \in Nodes |-> Thousandths(node[n])])

\* Of a cluster that has capacity, does not change under the query and whose units are
\* all known to the code, all nodes are counted, and the alarm is what exact arithmetic
\* says, although amounts are converted, added up and divided as floats: unless exactly
\* the threshold is allocated, or the cluster is too large for an exact percentage.
CalmAlarmIsExact ==
  [][(/\ Answers("cluster") /\ calm /\ ExactTotal > 0
      /\ \A n \in Nodes : Known(node[n])
      /\ \A s \in Limited : Known(HardOf(quota[s]))) =>
     /\ answer'.nodes = Cardinality(listed)
     /\ (answer'.total < Precise /\ ExactAllocated * 100 # Threshold * ExactTotal) =>
          (answer'.alarm <=> ExactAllocated * 100 > Threshold * ExactTotal)]_vars

\* The controller has counted since the quota got its keys.
Counted(s) == \A k \in Keys : used[s][k] = Absent <=> quota[s][k] = Absent

\* A project's usage is compared with the limit of the same kind, although limit and
\* usage are looked up separately, each by its own first amount that is not zero: some
\* key of the quota explains both figures.  That takes a controller that has counted
\* for the keys the quota has now, though not for its amounts; pods that state limits
\* (LimitsStated); no limit of zero, and no amount that the code takes for nothing.
UsageMeetsItsLimit ==
  [][(/\ Answers("project") /\ answer'.limit # 0 /\ Counted(Project)
      /\ \A k \in Keys :
           /\ quota[Project][k] # Absent => Parsed(quota[Project][k]) # 0
           /\ Thousandths(used[Project][k]) > 0 => Parsed(used[Project][k]) # 0) =>
     \E k \in Keys : /\ quota[Project][k] # Absent
                     /\ answer'.limit = Parsed(quota[Project][k])
                     /\ answer'.used = Parsed(used[Project][k])]_vars

\* Whatever other apps do, an app that is there all the time is reported, with the
\* exact figures if it is not scaled to zero, and none that never was there is.
AppsReported ==
  [][Answers("apps") =>
     /\ DOMAIN answer' \subseteq seen
     /\ \A a \in steady' :
          /\ a \in DOMAIN answer'
          /\ app[a].pods.replicas # 0 =>
               answer'[a] = [limit |-> Parsed(app[a].limits) * app[a].pods.replicas,
                             used |-> Parsed(app[a].requests) * app[a].pods.ready]]_vars

-----------------------------------------------------------------------------
(* What the proofs need to know of every state. *)

\* A query is at a step of its view, with what that step relies on.
QueryInv ==
  /\ pc \in {"nodes", "count", "quotas"} => view = "cluster"
  /\ pc = "quota" => view = "project"
  /\ pc = "apps" => view = "apps"
  /\ pc \in {"count", "quotas"} => found # Absent
  /\ pc \notin {"apps", "answered"} => answer = Absent

\* What a calm query found is still so.
CalmInv ==
  calm =>
    /\ pc \in {"count", "quotas"} =>
         found.total = SumFunction([n \in Nodes |-> Parsed(node[n])])
    /\ pc = "quotas" => found.count = Cardinality(listed)

\* Under LimitsStated no pod, and so no count, is above that of the limits; requests
\* are counted alike under both of their names.
UsageInv ==
  \A s \in Namespaces :
    /\ LimitsStated => Thousandths(usage[s].requests) <= Thousandths(usage[s].limits)
    /\ (LimitsStated /\ used[s]["limits"] # Absent) =>
         \A k \in Keys : Thousandths(used[s][k]) <= Thousandths(used[s]["limits"])
    /\ (used[s]["requests"] # Absent /\ used[s]["plain"] # Absent) =>
         used[s]["requests"] = used[s]["plain"]

\* An app that is there is seen, and has been reported when it was there all the
\* time and is no longer pending.
ReportInv ==
  pc = "apps" =>
    /\ Reported \in [DOMAIN Reported -> Metrics]
    /\ DOMAIN Reported \subseteq seen
    /\ \A a \in pending : app[a] # Absent => a \in seen
    /\ \A a \in steady :
         /\ app[a] # Absent
         /\ a \notin pending => /\ a \in DOMAIN Reported
                                /\ Reported[a] = MetricOf(app[a])
=============================================================================

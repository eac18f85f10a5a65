-------------------------- MODULE ProjectLifecycle --------------------------
(***************************************************************************)
(* The requests that create and delete projects and change their resource  *)
(* limits, run against the Kubernetes API.                                 *)
(*                                                                         *)
(* A project is a namespace with a ResourceQuota, the pull secret of the   *)
(* registry and the RoleBinding that lets the service provision claims.    *)
(* Each request reads and creates them one call at a time, interleaved     *)
(* with other requests and with the cluster, which empties a namespace     *)
(* that is being deleted at its own pace and refuses to create in it.      *)
(***************************************************************************)
EXTENDS Naturals, FiniteSets

CONSTANTS
  Projects,     \* project ids, one namespace "project-<id>" each
  Levels,       \* quantities of a resource
  Requests,     \* slots for requests that are served at the same time
  Operations,   \* the operations clients use
  Serial,       \* TRUE: a creation overlaps no deletion of its project
  Drained,      \* TRUE: a project is not created while its namespace is leaving
  MaxFaults,    \* bound on failed calls and crashes
  NoQuota, NoJob

ASSUME LevelsAssumption == Levels \subseteq Nat \ {0}
ASSUME OperationsAssumption == Operations \subseteq {"create", "delete", "resize"}
ASSUME CourtesyAssumption == Serial \in BOOLEAN /\ Drained \in BOOLEAN
ASSUME FaultsAssumption == MaxFaults \in Nat

\* The hard limits: cpu and memory together, and disk.
Limits == [compute : Levels, disk : Levels]
ASSUME NoQuotaAssumption == NoQuota \notin Limits

\* A level of 0 in a change of limits is one the payload leaves out.
Wishes == [compute : Levels \cup {0}, disk : Levels \cup {0}]

Jobs == { j \in [op : Operations, project : Projects, limits : Wishes] :
            j.op = "create" => j.limits \in Limits }

VARIABLES
  namespace,    \* "absent", "active" or "terminating", of every project
  quota,        \* hard limits of every project's ResourceQuota, or NoQuota
  pull,         \* projects whose docker-registry secret exists
  binding,      \* projects whose RoleBinding exists
  pc,           \* the call a request awaits next, or its answer
  job,          \* what the request asks for
  want,         \* the limits the request saves
  faults,       \* failed calls and crashes so far
  standing      \* history: whether a project's creation was answered, or its
                \* deletion requested, last

cluster == <<namespace, quota, pull, binding>>
vars == <<cluster, pc, job, want, faults, standing>>

QuotaSteps == {"rq_read", "rq_post", "rq_reread"}
CreateSteps == {"ns_read", "ns_post", "ns_reread", "ps_read", "ps_post",
                "rb_read", "rb_post", "rb_reread"} \cup QuotaSteps
DeleteSteps == {"find", "rq_exists", "rq_get", "rq_delete", "ns_exists", "ns_delete"}
ResizeSteps == {"rq_list"} \cup QuotaSteps
Steps == CreateSteps \cup DeleteSteps \cup ResizeSteps
Answers == {"created", "deleted", "resized", "rejected", "failed"}

Active(r) == pc[r] \in Steps
Serving(op, p) ==
  \E r \in Requests : Active(r) /\ job[r].op = op /\ job[r].project = p

TypeOK ==
  /\ namespace \in [Projects -> {"absent", "active", "terminating"}]
  /\ quota \in [Projects -> Limits \cup {NoQuota}]
  /\ pull \subseteq Projects
  /\ binding \subseteq Projects
  /\ pc \in [Requests -> Steps \cup Answers \cup {"idle"}]
  /\ job \in [Requests -> Jobs \cup {NoJob}]
  /\ want \in [Requests -> Limits \cup {NoQuota}]
  /\ faults \in 0..MaxFaults
  /\ standing \in [Projects -> {"none", "promised", "condemned"}]

Init ==
  /\ namespace = [p \in Projects |-> "absent"]
  /\ quota = [p \in Projects |-> NoQuota]
  /\ pull = {}
  /\ binding = {}
  /\ pc = [r \in Requests |-> "idle"]
  /\ job = [r \in Requests |-> NoJob]
  /\ want = [r \in Requests |-> NoQuota]
  /\ faults = 0
  /\ standing = [p \in Projects |-> "none"]

-----------------------------------------------------------------------------
Await(r, step) == pc' = [pc EXCEPT ![r] = step]

\* A call that took effect is answered, or its answer is lost.
Answered(r, step) ==
  \/ Await(r, step) /\ UNCHANGED faults
  \/ /\ faults < MaxFaults
     /\ faults' = faults + 1
     /\ Await(r, "failed")

\* A creation answered while no deletion is under way is a promise.
Promise(r) ==
  LET p == job[r].project IN
  standing' = IF pc'[r] = "created" /\ ~Serving("delete", p)
              THEN [standing EXCEPT ![p] = "promised"] ELSE standing

\* What the clients keep apart: nothing in the code does.
Admitted(j) ==
  /\ Serial => /\ j.op = "create" => ~Serving("delete", j.project)
               /\ j.op = "delete" => ~Serving("create", j.project)
  /\ Drained => (j.op = "create" => namespace[j.project] # "terminating")

FirstStep(op) ==
  CASE op = "create" -> "ns_read" [] op = "delete" -> "find" [] op = "resize" -> "rq_list"

Arrive(r, j) ==
  /\ ~Active(r)
  /\ Admitted(j)
  /\ job' = [job EXCEPT ![r] = j]
  /\ want' = [want EXCEPT ![r] = IF j.op = "create" THEN j.limits ELSE NoQuota]
  /\ Await(r, FirstStep(j.op))
  /\ standing' = IF j.op = "delete"
                 THEN [standing EXCEPT ![j.project] = "condemned"] ELSE standing
  /\ UNCHANGED <<cluster, faults>>

-----------------------------------------------------------------------------
(* Creating: every object is read, created when it is missing, and read    *)
(* again when another request created it in between.                       *)

\* A call that only reads: the request goes on according to what it saw.
Read(r, at, seen, present, missing) ==
  /\ pc[r] = at
  /\ Await(r, IF seen THEN present ELSE missing)
  /\ UNCHANGED <<cluster, job, want, faults, standing>>

HasNamespace(r) == namespace[job[r].project] # "absent"
HasQuota(r) == quota[job[r].project] # NoQuota

ReadNamespace(r) == Read(r, "ns_read", HasNamespace(r), "rq_read", "ns_post")

\* Mutant: a conflict is an error.
PostNamespaceOnce(r) ==
  LET p == job[r].project IN
  /\ pc[r] = "ns_post"
  /\ IF namespace[p] = "absent"
     THEN /\ namespace' = [namespace EXCEPT ![p] = "active"]
          /\ Answered(r, "rq_read")
     ELSE Await(r, "failed") /\ UNCHANGED <<namespace, faults>>
  /\ UNCHANGED <<quota, pull, binding, job, want, standing>>

PostNamespace(r) ==
  LET p == job[r].project IN
  /\ pc[r] = "ns_post"
  /\ IF namespace[p] = "absent"
     THEN /\ namespace' = [namespace EXCEPT ![p] = "active"]
          /\ Answered(r, "rq_read")
     ELSE Await(r, "ns_reread") /\ UNCHANGED <<namespace, faults>>
  /\ UNCHANGED <<quota, pull, binding, job, want, standing>>

\* A namespace that vanished since the conflict has no metadata to convert.
RereadNamespace(r) == Read(r, "ns_reread", HasNamespace(r), "rq_read", "failed")

AfterQuota(r) == IF job[r].op = "create" THEN "ps_read" ELSE "resized"

\* An existing quota is left as it is, whatever the limits of the request.
ReadQuota(r) == Read(r, "rq_read", HasQuota(r), AfterQuota(r), "rq_post")

\* Mutant: a creation that failed is taken for done.
PostQuotaSwallowed(r) ==
  /\ pc[r] = "rq_post"
  /\ Await(r, AfterQuota(r))
  /\ quota' = [quota EXCEPT ![job[r].project] = want[r]] \/ UNCHANGED quota
  /\ UNCHANGED <<namespace, pull, binding, job, want, faults, standing>>

PostQuota(r) ==
  LET p == job[r].project IN
  /\ pc[r] = "rq_post"
  /\ CASE namespace[p] # "active" -> Await(r, "failed") /\ UNCHANGED <<quota, faults>>
       [] namespace[p] = "active" /\ HasQuota(r) ->
            Await(r, "rq_reread") /\ UNCHANGED <<quota, faults>>
       [] OTHER -> /\ quota' = [quota EXCEPT ![p] = want[r]]
                   /\ Answered(r, AfterQuota(r))
  /\ UNCHANGED <<namespace, pull, binding, job, want, standing>>

RereadQuota(r) == Read(r, "rq_reread", HasQuota(r), AfterQuota(r), "failed")

\* Mutant: the pull secret is never created.
ReadPullSecretOnly(r) == Read(r, "ps_read", TRUE, "rb_read", "ps_post")

ReadPullSecret(r) ==
  Read(r, "ps_read", job[r].project \in pull, "rb_read", "ps_post")

\* Mutant: a failed creation is only logged.
PostPullSecretSwallowed(r) ==
  /\ pc[r] = "ps_post"
  /\ Await(r, "rb_read")
  /\ pull' = pull \cup {job[r].project} \/ UNCHANGED pull
  /\ UNCHANGED <<namespace, quota, binding, job, want, faults, standing>>

\* Unlike the other creations, a conflict is not handled.
PostPullSecret(r) ==
  LET p == job[r].project IN
  /\ pc[r] = "ps_post"
  /\ IF namespace[p] = "active" /\ p \notin pull
     THEN pull' = pull \cup {p} /\ Answered(r, "rb_read")
     ELSE Await(r, "failed") /\ UNCHANGED <<pull, faults>>
  /\ UNCHANGED <<namespace, quota, binding, job, want, standing>>

\* The creation is answered when the binding is there.
Bound(r, at, present, missing) ==
  /\ pc[r] = at
  /\ Await(r, IF job[r].project \in binding THEN present ELSE missing)
  /\ Promise(r)
  /\ UNCHANGED <<cluster, job, want, faults>>

ReadBinding(r) == Bound(r, "rb_read", "created", "rb_post")

PostBinding(r) ==
  LET p == job[r].project IN
  /\ pc[r] = "rb_post"
  /\ IF namespace[p] = "active" /\ p \notin binding
     THEN binding' = binding \cup {p} /\ Answered(r, "created")
     ELSE /\ Await(r, IF namespace[p] = "active" THEN "rb_reread" ELSE "failed")
          /\ UNCHANGED <<binding, faults>>
  /\ Promise(r)
  /\ UNCHANGED <<namespace, quota, pull, job, want>>

RereadBinding(r) == Bound(r, "rb_reread", "created", "failed")

-----------------------------------------------------------------------------
(* Deleting: the quota first, then the namespace. *)

FindProject(r) == Read(r, "find", HasNamespace(r), "rq_exists", "rejected")

QuotaExists(r) == Read(r, "rq_exists", HasQuota(r), "rq_get", "ns_exists")

\* A quota that is gone by now is an error of the deletion.
GetQuota(r) == Read(r, "rq_get", HasQuota(r), "rq_delete", "failed")

DeleteQuota(r) ==
  /\ pc[r] = "rq_delete"
  /\ quota' = [quota EXCEPT ![job[r].project] = NoQuota]
  /\ Answered(r, "ns_exists")
  /\ UNCHANGED <<namespace, pull, binding, job, want, standing>>

NamespaceExists(r) == Read(r, "ns_exists", HasNamespace(r), "ns_delete", "deleted")

\* Clusters differ in what they answer when the namespace is leaving already.
DeleteNamespace(r) ==
  LET p == job[r].project IN
  /\ pc[r] = "ns_delete"
  /\ CASE namespace[p] = "active" ->
            /\ namespace' = [namespace EXCEPT ![p] = "terminating"]
            /\ Answered(r, "deleted")
       [] namespace[p] = "terminating" ->
            /\ Await(r, "deleted") \/ Await(r, "failed")
            /\ UNCHANGED <<namespace, faults>>
       [] namespace[p] = "absent" -> Await(r, "deleted") /\ UNCHANGED <<namespace, faults>>
  /\ UNCHANGED <<quota, pull, binding, job, want, standing>>

-----------------------------------------------------------------------------
(* Changing the limits. *)

\* Mutant: what the payload leaves out is reset.
MergedReset(q, w) == w

\* The limits of quota q with those the payload w names replaced.
Merged(q, w) ==
  [f \in {"compute", "disk"} |-> IF w[f] = 0 THEN q[f] ELSE w[f]]

\* No quota, or less disk than the quota has, is an error of the caller.
ListQuotas(r) ==
  LET q == quota[job[r].project]
      w == job[r].limits IN
  /\ pc[r] = "rq_list"
  /\ IF q # NoQuota /\ (w.disk # 0 => w.disk >= q.disk)
     THEN want' = [want EXCEPT ![r] = Merged(q, w)] /\ Await(r, "rq_read")
     ELSE Await(r, "rejected") /\ UNCHANGED want
  /\ UNCHANGED <<cluster, job, faults, standing>>

-----------------------------------------------------------------------------
(* Failures, and the cluster. *)

\* A call fails without effect.
CallFails(r) ==
  /\ Active(r)
  /\ faults < MaxFaults
  /\ faults' = faults + 1
  /\ Await(r, "failed")
  /\ UNCHANGED <<cluster, job, want, standing>>

\* The process dies: every request in flight is dropped.
Crash ==
  /\ faults < MaxFaults
  /\ \E r \in Requests : Active(r)
  /\ faults' = faults + 1
  /\ pc' = [r \in Requests |-> IF Active(r) THEN "idle" ELSE pc[r]]
  /\ UNCHANGED <<cluster, job, want, standing>>

\* An object of a namespace that is leaving is removed.
Collect(p) ==
  /\ namespace[p] = "terminating"
  /\ \/ /\ quota[p] # NoQuota
        /\ quota' = [quota EXCEPT ![p] = NoQuota]
        /\ UNCHANGED <<pull, binding>>
     \/ p \in pull /\ pull' = pull \ {p} /\ UNCHANGED <<quota, binding>>
     \/ p \in binding /\ binding' = binding \ {p} /\ UNCHANGED <<quota, pull>>
  /\ UNCHANGED <<namespace, pc, job, want, faults, standing>>

\* The namespace goes when it is empty.
Vanish(p) ==
  /\ namespace[p] = "terminating"
  /\ quota[p] = NoQuota
  /\ p \notin pull \cup binding
  /\ namespace' = [namespace EXCEPT ![p] = "absent"]
  /\ standing' = [standing EXCEPT ![p] = "none"]
  /\ UNCHANGED <<quota, pull, binding, pc, job, want, faults>>

-----------------------------------------------------------------------------
QuotaStep(r) == ReadQuota(r) \/ PostQuota(r) \/ RereadQuota(r)
CreateStep(r) ==
  \/ ReadNamespace(r) \/ PostNamespace(r) \/ RereadNamespace(r)
  \/ ReadPullSecret(r) \/ PostPullSecret(r)
  \/ ReadBinding(r) \/ PostBinding(r) \/ RereadBinding(r)
DeleteStep(r) ==
  \/ FindProject(r) \/ QuotaExists(r) \/ GetQuota(r) \/ DeleteQuota(r)
  \/ NamespaceExists(r) \/ DeleteNamespace(r)
Step(r) == QuotaStep(r) \/ CreateStep(r) \/ DeleteStep(r) \/ ListQuotas(r)

Next ==
  \/ \E r \in Requests : Step(r) \/ CallFails(r) \/ \E j \in Jobs : Arrive(r, j)
  \/ Crash
  \/ \E p \in Projects : Collect(p) \/ Vanish(p)

Spec == Init /\ [][Next]_vars

-----------------------------------------------------------------------------
(* Properties. *)

\* Projects in which apps can be deployed, within limits.
Complete == { p \in Projects : /\ namespace[p] = "active"
                               /\ quota[p] # NoQuota
                               /\ p \in pull \cap binding }

\* What callers are promised, of the API calls below.
Contract == INSTANCE ProjectContract WITH usable <- Complete

\* The service keeps the contract: an answered creation stands, through other
\* creations, changes of limits, failures and crashes, until a deletion is asked for.
ContractKept == Contract!Spec

\* A project whose creation was answered has its namespace, its limits, its pull
\* secret and its binding until its deletion is requested.
PromisedProjectsAreUsable == Contract!PromisesKept

\* The service can provision in a project only within limits: a creation that
\* stops half-way leaves no binding without a quota.
LimitedBeforeUsable ==
  \A p \in binding :
    namespace[p] = "active" /\ standing[p] # "condemned" => quota[p] # NoQuota

\* Creating a project that exists, that a failed creation left half-done, or that
\* another request creates too, fails only when a call does, or when the other
\* request has just created the pull secret: every other conflict is resolved.
ConflictsResolved ==
  [][\A r \in Requests :
       Active(r) /\ job[r].op = "create" /\ pc'[r] = "failed" =>
         faults' > faults \/ (pc[r] = "ps_post" /\ job[r].project \in pull)]_vars

\* A change of limits that is answered is in force: the use case "changes the
\* project's quota" (app/project/project_resource_update_use_case.py:26) and
\* saving is "create or update" (core/project/repository.py:48).
ResizeApplies ==
  [][\A r \in Requests :
       Active(r) /\ pc'[r] = "resized" => quota'[job[r].project] = want[r]]_vars

-----------------------------------------------------------------------------
(* What the proofs of ProjectProofs need to know of every state. *)

\* A request in flight is at a step of its operation, with limits to save.
WellFormed(r) ==
  Active(r) =>
    /\ job[r] \in Jobs
    /\ pc[r] \in CreateSteps \ QuotaSteps => job[r].op = "create"
    /\ pc[r] \in DeleteSteps => job[r].op = "delete"
    /\ pc[r] = "rq_list" => job[r].op = "resize"
    /\ pc[r] \in QuotaSteps => job[r].op \in {"create", "resize"}
    /\ job[r].op = "create" \/ pc[r] \in QuotaSteps => want[r] \in Limits

\* Creations and deletions of a project keep apart, and deletions are asked for.
Apart ==
  /\ \A r, q \in Requests :
       (Active(r) /\ Active(q) /\ job[r].project = job[q].project) =>
         ~(job[r].op = "create" /\ job[q].op = "delete")
  /\ \A r \in Requests : Active(r) =>
       LET p == job[r].project IN
       /\ job[r].op = "delete" => standing[p] = "condemned" \/ namespace[p] = "absent"
       /\ job[r].op = "create" => namespace[p] # "terminating"

\* What is left of a project that is leaving, and of one that is gone.
Leaving ==
  \A p \in Projects :
    /\ namespace[p] = "terminating" => standing[p] = "condemned"
    /\ namespace[p] = "absent" => quota[p] = NoQuota /\ p \notin pull \cup binding

\* What a creation has set up so far, or met in a conflict, is still there.
Progress(r) ==
  LET p == job[r].project IN
  Active(r) /\ job[r].op = "create" =>
    /\ pc[r] \notin {"ns_read", "ns_post"} => namespace[p] = "active"
    /\ pc[r] \in {"rq_reread", "ps_read", "ps_post", "rb_read", "rb_post",
                  "rb_reread"} => quota[p] # NoQuota
    /\ pc[r] \in {"rb_read", "rb_post", "rb_reread"} => p \in pull
    /\ pc[r] = "rb_reread" => p \in binding

ContractInv ==
  /\ PromisedProjectsAreUsable
  /\ LimitedBeforeUsable
  /\ Apart
  /\ Leaving
  /\ \A r \in Requests : WellFormed(r) /\ Progress(r)

=============================================================================

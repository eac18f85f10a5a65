---------------------------- MODULE AppLifecycle ----------------------------
(***************************************************************************)
(* The requests that create, delete, revise and scale the apps of one      *)
(* project, run against the Kubernetes API.                                *)
(*                                                                         *)
(* The service keeps no state of its own: what an app is lives in the      *)
(* cluster, as a ServiceAccount, one PersistentVolumeClaim per disk, a     *)
(* Deployment and, when it is autoscaled, a HorizontalPodAutoscaler.  Each *)
(* HTTP request is a coroutine, and it may be interrupted by any other at  *)
(* every awaited API call.  An action of this module is one such call with *)
(* the code that runs, without suspension, until the next one.             *)
(*                                                                         *)
(* A call may fail before or after it took effect, and the process may     *)
(* crash between any two calls; both consume the budget MaxFaults.         *)
(***************************************************************************)
EXTENDS Naturals, FiniteSets

CONSTANTS
  Apps,          \* names of apps in the project's namespace
  Containers,    \* container names
  Claims,        \* names of PersistentVolumeClaims
  PvcName,       \* PvcName[a, c]: the claim named "<a>-<c>-pvc"
  Images,        \* container images
  Requests,      \* slots for requests that are served at the same time
  Workload,      \* the requests clients may send
  Serial,        \* TRUE: creating and deleting one app never overlap
  Drained,       \* TRUE: an app is created when no claim of it is leaving
  MaxFaults,     \* bound on failed calls and crashes
  NoImage, NoContainer, NoDeployment, NoJob   \* absent values

Positive == Nat \ {0}

(***************************************************************************)
(* The validated payloads.  A disk of 0 is a container without a disk and, *)
(* in a revision, an unchanged disk; replicas of 0 in a revision are       *)
(* unchanged replicas.  A revision that names no container is the one that *)
(* names the deployment's first container.  CPU and memory quantities are  *)
(* left out: resources tells whether the revision changes them.            *)
(***************************************************************************)
CreateJobs == [op : {"create"}, app : Apps,
               image : [Containers -> Images \cup {NoImage}],
               disk : [Containers -> Nat], replicas : Positive]
DeleteJobs == [op : {"delete"}, app : Apps]
ReviseJobs == [op : {"revise"}, app : Apps, container : Containers,
               resources : BOOLEAN, disk : Nat, replicas : Nat]
AutoScaleJobs == [op : {"autoscale"}, app : Apps, range : SUBSET Positive]
FixedScaleJobs == [op : {"fixedscale"}, app : Apps, replicas : Positive]

Jobs == CreateJobs \cup DeleteJobs \cup ReviseJobs
          \cup AutoScaleJobs \cup FixedScaleJobs

ASSUME NamesAssumption == PvcName \in [Apps \X Containers -> Claims]
ASSUME WorkloadAssumption == Workload \subseteq Jobs
ASSUME FiniteAssumption == IsFiniteSet(Containers)
ASSUME FaultsAssumption == MaxFaults \in Nat
ASSUME CourtesyAssumption == Serial \in BOOLEAN /\ Drained \in BOOLEAN

VARIABLES
  identity,      \* apps whose ServiceAccount "<app>-sa" exists
  deployment,    \* the Deployment of every app
  claim,         \* requested size of every claim, 0 when it does not exist
  leaving,       \* claims that are deleted and still finalised
  scaler,        \* replica counts the app's autoscaler may choose, {}: none
  pc,            \* the call a request awaits next, or its answer
  job,           \* what the request asks for
  todo,          \* containers whose claim it still has to visit
  cur,           \* container whose claim it is visiting
  faults,        \* faults so far
  alone,         \* history: rescaling requests that met no other of their app
  pinned         \* history: replicas a lone fixed-scale request has set

cluster == <<identity, deployment, claim, leaving, scaler>>
history == <<alone, pinned>>
vars == <<cluster, pc, job, todo, cur, faults, history>>

Deployments == [image : [Containers -> Images \cup {NoImage}],
                volumes : SUBSET Containers, replicas : Positive]

ASSUME AbsentAssumption == /\ NoContainer \notin Containers
                           /\ NoImage \notin Images
                           /\ NoDeployment \notin Deployments

Answers == {"ok", "rejected", "failed"}
CreateSteps == {"sa_read", "sa_post", "sa_reread", "pvc_read", "pvc_post",
                "pvc_reread", "dep_read", "dep_patch", "dep_reread",
                "dep_post", "dep_conflict"}
DeleteSteps == {"find", "undeploy_read", "undeploy", "unbind",
                "unmount_read", "unmount"}
ReviseSteps == {"find", "resize_read", "resize", "pvc_find", "expand_read",
                "expand", "scale_read", "scale"}
AutoScaleSteps == {"find", "hpa_read", "hpa_post", "hpa_replace"}
FixedScaleSteps == {"find", "hpa_delete", "scale_read", "scale"}
Steps == CreateSteps \cup DeleteSteps \cup ReviseSteps
           \cup AutoScaleSteps \cup FixedScaleSteps

Active(r) == pc[r] \in Steps
Deployed(a) == deployment[a] # NoDeployment
Live(p) == claim[p] > 0 /\ p \notin leaving
ClaimsOf(a) == {PvcName[a, c] : c \in Containers}
CurrentClaim(r) == PvcName[job[r].app, cur[r]]
Disks(j) == {c \in Containers : j.disk[c] > 0}

ClusterTypeOK ==
  /\ identity \subseteq Apps
  /\ deployment \in [Apps -> Deployments \cup {NoDeployment}]
  /\ claim \in [Claims -> Nat]
  /\ leaving \subseteq Claims
  /\ scaler \in [Apps -> SUBSET Positive]
RequestTypeOK ==
  /\ pc \in [Requests -> Steps \cup Answers \cup {"idle"}]
  /\ job \in [Requests -> Jobs \cup {NoJob}]
  /\ todo \in [Requests -> SUBSET Containers]
  /\ cur \in [Requests -> Containers \cup {NoContainer}]
HistoryTypeOK ==
  /\ faults \in 0..MaxFaults
  /\ alone \subseteq Requests
  /\ pinned \in [Apps -> Nat]
TypeOK == ClusterTypeOK /\ RequestTypeOK /\ HistoryTypeOK

Init ==
  /\ identity = {}
  /\ deployment = [a \in Apps |-> NoDeployment]
  /\ claim = [p \in Claims |-> 0]
  /\ leaving = {}
  /\ scaler = [a \in Apps |-> {}]
  /\ pc = [r \in Requests |-> "idle"]
  /\ job = [r \in Requests |-> NoJob]
  /\ todo = [r \in Requests |-> {}]
  /\ cur = [r \in Requests |-> NoContainer]
  /\ faults = 0
  /\ alone = {}
  /\ pinned = [a \in Apps |-> 0]

-----------------------------------------------------------------------------
(* How a request moves on. *)

Await(r, step) == pc' = [pc EXCEPT ![r] = step]

\* The loops over containers: the next claim to visit, or what follows.
NextClaim(left, step, after) == IF left = {} THEN after ELSE step

\* Mutant: the exception of the deployment's creation is swallowed as well.
AfterExceptionSwallowed(r) ==
  CASE pc[r] = "unbind" -> NextClaim(todo[r], "unmount_read", "ok")
    [] pc[r] = "unmount" -> NextClaim(todo[r] \ {cur[r]}, "unmount_read", "ok")
    [] pc[r] = "dep_post" -> "ok"
    [] OTHER -> "failed"

\* An exception ends the request, except in the two clean-up stages of a
\* deletion, whose exceptions are swallowed.
AfterException(r) ==
  CASE pc[r] = "unbind" -> NextClaim(todo[r], "unmount_read", "ok")
    [] pc[r] = "unmount" -> NextClaim(todo[r] \ {cur[r]}, "unmount_read", "ok")
    [] OTHER -> "failed"

\* A call that changed the cluster is answered, or its answer is lost.
Answered(r, step) ==
  \/ Await(r, step) /\ UNCHANGED faults
  \/ /\ faults < MaxFaults
     /\ faults' = faults + 1
     /\ Await(r, AfterException(r))

\* The steps of a revision that its payload asks for, in the code's order.
AfterStorage(j) == IF j.replicas > 0 THEN "scale_read" ELSE "ok"
AfterResize(j) == IF j.disk > 0 THEN "pvc_find" ELSE AfterStorage(j)

\* Mutants: a deletion gives up the identity first; a fixed scale forgets the
\* autoscaler.
AfterFindUnbinds(j) ==
  CASE j.op = "delete" -> "unbind"
    [] j.op = "revise" /\ j.resources -> "resize_read"
    [] j.op = "revise" /\ ~j.resources -> AfterResize(j)
    [] j.op = "autoscale" -> "hpa_read"
    [] OTHER -> "hpa_delete"
AfterFindScales(j) ==
  CASE j.op = "delete" -> "undeploy_read"
    [] j.op = "revise" /\ j.resources -> "resize_read"
    [] j.op = "revise" /\ ~j.resources -> AfterResize(j)
    [] j.op = "autoscale" -> "hpa_read"
    [] OTHER -> "scale_read"

AfterFind(j) ==
  CASE j.op = "delete" -> "undeploy_read"
    [] j.op = "revise" /\ j.resources -> "resize_read"
    [] j.op = "revise" /\ ~j.resources -> AfterResize(j)
    [] j.op = "autoscale" -> "hpa_read"
    [] OTHER -> "hpa_delete"

Unlooped == UNCHANGED <<job, todo, cur>>

-----------------------------------------------------------------------------
(* A request arrives. *)

Rescales(j) == \/ j.op \in {"delete", "autoscale", "fixedscale"}
               \/ j.op = "revise" /\ j.replicas > 0
Rivals(j) == {r \in Requests :
                Active(r) /\ job[r].app = j.app /\ Rescales(job[r])}
Serving(op, a) == \E r \in Requests :
                    Active(r) /\ job[r].app = a /\ job[r].op = op

\* What the clients keep apart, under Serial and Drained: nothing in the code
\* does.
Admitted(j) ==
  /\ (Serial /\ j.op = "create") => ~Serving("delete", j.app)
  /\ (Serial /\ j.op = "delete") => ~Serving("create", j.app)
  /\ (Drained /\ j.op = "create") => ClaimsOf(j.app) \cap leaving = {}

Arrive(r, j) ==
  /\ ~Active(r)
  /\ Admitted(j)
  /\ job' = [job EXCEPT ![r] = j]
  /\ Await(r, IF j.op = "create" THEN "sa_read" ELSE "find")
  /\ todo' = [todo EXCEPT ![r] = IF j.op = "create" THEN Disks(j) ELSE {}]
  /\ cur' = [cur EXCEPT ![r] = NoContainer]
  /\ alone' = IF Rescales(j) /\ Rivals(j) = {}
              THEN alone \cup {r}
              ELSE alone \ ({r} \cup IF Rescales(j) THEN Rivals(j) ELSE {})
  /\ pinned' = IF Rescales(j) THEN [pinned EXCEPT ![j.app] = 0] ELSE pinned
  /\ UNCHANGED <<cluster, faults>>

-----------------------------------------------------------------------------
(* Creation: identity, one claim per disk, deployment. *)

SaRead(r) ==
  /\ pc[r] = "sa_read"
  /\ Await(r, IF job[r].app \in identity
              THEN NextClaim(todo[r], "pvc_read", "dep_read")
              ELSE "sa_post")
  /\ Unlooped /\ UNCHANGED <<cluster, faults, history>>

SaPost(r) ==
  /\ pc[r] = "sa_post"
  /\ \/ /\ job[r].app \notin identity
        /\ identity' = identity \cup {job[r].app}
        /\ Answered(r, NextClaim(todo[r], "pvc_read", "dep_read"))
     \/ /\ job[r].app \in identity
        /\ Await(r, "sa_reread")
        /\ UNCHANGED <<identity, faults>>
  /\ Unlooped /\ UNCHANGED <<deployment, claim, leaving, scaler, history>>

\* When the account is gone again, converting it to a domain object raises.
SaReread(r) ==
  /\ pc[r] = "sa_reread"
  /\ Await(r, IF job[r].app \in identity
              THEN NextClaim(todo[r], "pvc_read", "dep_read")
              ELSE "failed")
  /\ Unlooped /\ UNCHANGED <<cluster, faults, history>>

\* The claim of container c is settled: go on with the next one.
Provisioned(r, c) ==
  /\ todo' = [todo EXCEPT ![r] = @ \ {c}]
  /\ Await(r, NextClaim(todo[r] \ {c}, "pvc_read", "dep_read"))

PvcRead(r, c) ==
  /\ pc[r] = "pvc_read"
  /\ c \in todo[r]
  /\ cur' = [cur EXCEPT ![r] = c]
  /\ \/ /\ claim[PvcName[job[r].app, c]] > 0
        /\ Provisioned(r, c)
     \/ /\ claim[PvcName[job[r].app, c]] = 0
        /\ Await(r, "pvc_post")
        /\ UNCHANGED todo
  /\ UNCHANGED <<cluster, job, faults, history>>

PvcPost(r) ==
  /\ pc[r] = "pvc_post"
  /\ \/ /\ claim[CurrentClaim(r)] = 0
        /\ claim' = [claim EXCEPT ![CurrentClaim(r)] = job[r].disk[cur[r]]]
        /\ todo' = [todo EXCEPT ![r] = @ \ {cur[r]}]
        /\ Answered(r, NextClaim(todo[r] \ {cur[r]}, "pvc_read", "dep_read"))
     \/ /\ claim[CurrentClaim(r)] > 0
        /\ Await(r, "pvc_reread")
        /\ UNCHANGED <<claim, todo, faults>>
  /\ UNCHANGED <<identity, deployment, leaving, scaler, job, cur, history>>

PvcReread(r) ==
  /\ pc[r] = "pvc_reread"
  /\ \/ /\ claim[CurrentClaim(r)] > 0
        /\ Provisioned(r, cur[r])
     \/ /\ claim[CurrentClaim(r)] = 0
        /\ Await(r, "failed")
        /\ UNCHANGED todo
  /\ UNCHANGED <<cluster, job, cur, faults, history>>

DepRead(r) ==
  /\ pc[r] = "dep_read"
  /\ Await(r, IF Deployed(job[r].app) THEN "dep_patch" ELSE "dep_reread")
  /\ Unlooped /\ UNCHANGED <<cluster, faults, history>>

\* A strategic merge patch: the payload's containers get its images, and
\* those the deployment does not have are added.  Nothing else changes.
Patched(d, j) ==
  [d EXCEPT !.image = [c \in Containers |-> IF j.image[c] # NoImage
                                            THEN j.image[c] ELSE d.image[c]]]

DepPatch(r) ==
  LET a == job[r].app IN
  /\ pc[r] = "dep_patch"
  /\ \/ /\ Deployed(a)
        /\ deployment' = [deployment EXCEPT ![a] = Patched(@, job[r])]
        /\ Answered(r, "ok")
     \/ /\ ~Deployed(a)
        /\ Await(r, "failed")
        /\ UNCHANGED <<deployment, faults>>
  /\ Unlooped /\ UNCHANGED <<identity, claim, leaving, scaler, history>>

\* The manager looks again, and returns a deployment it finds as it is.
DepReread(r) ==
  /\ pc[r] = "dep_reread"
  /\ Await(r, IF Deployed(job[r].app) THEN "ok" ELSE "dep_post")
  /\ Unlooped /\ UNCHANGED <<cluster, faults, history>>

\* Mutant: a deployment that is gone again is created again.
DepConflictRetried(r) ==
  /\ pc[r] = "dep_conflict"
  /\ Await(r, IF Deployed(job[r].app) THEN "ok" ELSE "dep_post")
  /\ Unlooped /\ UNCHANGED <<cluster, faults, history>>

\* Mutant: the payload's replica count is lost.
NewDeploymentUnscaled(j) ==
  [image |-> j.image, volumes |-> Disks(j), replicas |-> 0]

NewDeployment(j) ==
  [image |-> j.image, volumes |-> Disks(j), replicas |-> j.replicas]

DepPost(r) ==
  LET a == job[r].app IN
  /\ pc[r] = "dep_post"
  /\ \/ /\ ~Deployed(a)
        /\ deployment' = [deployment EXCEPT ![a] = NewDeployment(job[r])]
        /\ Answered(r, "ok")
     \/ /\ Deployed(a)
        /\ Await(r, "dep_conflict")
        /\ UNCHANGED <<deployment, faults>>
  /\ Unlooped /\ UNCHANGED <<identity, claim, leaving, scaler, history>>

DepConflict(r) ==
  /\ pc[r] = "dep_conflict"
  /\ Await(r, IF Deployed(job[r].app) THEN "ok" ELSE "failed")
  /\ Unlooped /\ UNCHANGED <<cluster, faults, history>>

-----------------------------------------------------------------------------
(* The deployment is looked up first by every other request. *)

\* Mutant: only the first volume is looked at.
FindOneVolume(r) ==
  LET a == job[r].app
      vs == deployment[a].volumes IN
  /\ pc[r] = "find"
  /\ Await(r, IF Deployed(a) THEN AfterFind(job[r]) ELSE "rejected")
  /\ todo' = [todo EXCEPT ![r] =
                IF Deployed(a) /\ job[r].op = "delete" /\ vs # {}
                THEN {CHOOSE c \in vs : TRUE} ELSE {}]
  /\ UNCHANGED <<cluster, job, cur, faults, history>>

Find(r) ==
  LET a == job[r].app IN
  /\ pc[r] = "find"
  /\ Await(r, IF Deployed(a) THEN AfterFind(job[r]) ELSE "rejected")
  /\ todo' = [todo EXCEPT ![r] = IF Deployed(a) /\ job[r].op = "delete"
                                 THEN deployment[a].volumes ELSE {}]
  /\ UNCHANGED <<cluster, job, cur, faults, history>>

-----------------------------------------------------------------------------
(* Deletion: deployment, identity, the claims it mounted. *)

UndeployRead(r) ==
  /\ pc[r] = "undeploy_read"
  /\ Await(r, IF Deployed(job[r].app) THEN "undeploy" ELSE "failed")
  /\ Unlooped /\ UNCHANGED <<cluster, faults, history>>

Undeploy(r) ==
  /\ pc[r] = "undeploy"
  /\ deployment' = [deployment EXCEPT ![job[r].app] = NoDeployment]
  /\ Answered(r, "unbind")
  /\ Unlooped /\ UNCHANGED <<identity, claim, leaving, scaler, history>>

\* Mutant: the ServiceAccount stays.
UnbindNothing(r) ==
  /\ pc[r] = "unbind"
  /\ Answered(r, NextClaim(todo[r], "unmount_read", "ok"))
  /\ Unlooped /\ UNCHANGED <<cluster, history>>

Unbind(r) ==
  /\ pc[r] = "unbind"
  /\ identity' = identity \ {job[r].app}
  /\ Answered(r, NextClaim(todo[r], "unmount_read", "ok"))
  /\ Unlooped /\ UNCHANGED <<deployment, claim, leaving, scaler, history>>

UnmountRead(r, c) ==
  /\ pc[r] = "unmount_read"
  /\ c \in todo[r]
  /\ cur' = [cur EXCEPT ![r] = c]
  /\ \/ /\ claim[PvcName[job[r].app, c]] > 0
        /\ Await(r, "unmount")
        /\ UNCHANGED todo
     \/ /\ claim[PvcName[job[r].app, c]] = 0
        /\ Await(r, NextClaim(todo[r] \ {c}, "unmount_read", "ok"))
        /\ todo' = [todo EXCEPT ![r] = @ \ {c}]
  /\ UNCHANGED <<cluster, job, faults, history>>

\* Mutant: a claim is visited again until it has gone.
UnmountAgain(r) ==
  /\ pc[r] = "unmount"
  /\ leaving' = IF claim[CurrentClaim(r)] > 0
                THEN leaving \cup {CurrentClaim(r)} ELSE leaving
  /\ Answered(r, "unmount_read")
  /\ UNCHANGED <<identity, deployment, claim, scaler, job, todo, cur, history>>

\* A deleted claim stays, and is read as an existing one, until the pods that
\* mount it have gone.
Unmount(r) ==
  /\ pc[r] = "unmount"
  /\ leaving' = IF claim[CurrentClaim(r)] > 0
                THEN leaving \cup {CurrentClaim(r)} ELSE leaving
  /\ todo' = [todo EXCEPT ![r] = @ \ {cur[r]}]
  /\ Answered(r, NextClaim(todo[r] \ {cur[r]}, "unmount_read", "ok"))
  /\ UNCHANGED <<identity, deployment, claim, scaler, job, cur, history>>

-----------------------------------------------------------------------------
(* Revision: container resources, then the disk, then the replicas. *)

HasContainer(a, c) == Deployed(a) /\ deployment[a].image[c] # NoImage

ResizeRead(r) ==
  /\ pc[r] = "resize_read"
  /\ Await(r, IF HasContainer(job[r].app, job[r].container)
              THEN "resize" ELSE "failed")
  /\ Unlooped /\ UNCHANGED <<cluster, faults, history>>

\* The patch names a container; the API refuses one it would have to add.
Resize(r) ==
  /\ pc[r] = "resize"
  /\ \/ /\ HasContainer(job[r].app, job[r].container)
        /\ Answered(r, AfterResize(job[r]))
     \/ /\ ~HasContainer(job[r].app, job[r].container)
        /\ Await(r, "failed")
        /\ UNCHANGED faults
  /\ Unlooped /\ UNCHANGED <<cluster, history>>

RevisedClaim(r) == PvcName[job[r].app, job[r].container]

\* A missing claim is a 404 and a smaller disk a 400.
PvcFind(r) ==
  LET size == claim[RevisedClaim(r)] IN
  /\ pc[r] = "pvc_find"
  /\ Await(r, CASE size = 0 \/ job[r].disk < size -> "rejected"
                [] size > 0 /\ job[r].disk > size -> "expand_read"
                [] OTHER -> AfterStorage(job[r]))
  /\ Unlooped /\ UNCHANGED <<cluster, faults, history>>

ExpandRead(r) ==
  /\ pc[r] = "expand_read"
  /\ Await(r, IF claim[RevisedClaim(r)] > 0 THEN "expand" ELSE "failed")
  /\ Unlooped /\ UNCHANGED <<cluster, faults, history>>

\* The API refuses to shrink a claim, whatever the size that was read.
Expand(r) ==
  LET p == RevisedClaim(r) IN
  /\ pc[r] = "expand"
  /\ \/ /\ claim[p] > 0
        /\ job[r].disk >= claim[p]
        /\ claim' = [claim EXCEPT ![p] = job[r].disk]
        /\ Answered(r, AfterStorage(job[r]))
     \/ /\ claim[p] = 0 \/ job[r].disk < claim[p]
        /\ Await(r, "failed")
        /\ UNCHANGED <<claim, faults>>
  /\ Unlooped /\ UNCHANGED <<identity, deployment, leaving, scaler, history>>

-----------------------------------------------------------------------------
(* Scaling. *)

ScaleRead(r) ==
  /\ pc[r] = "scale_read"
  /\ Await(r, IF Deployed(job[r].app) THEN "scale" ELSE "failed")
  /\ Unlooped /\ UNCHANGED <<cluster, faults, history>>

\* pinned records a fixed scale that took effect and that nothing disturbed.
Scale(r) ==
  LET a == job[r].app IN
  /\ pc[r] = "scale"
  /\ \/ /\ Deployed(a)
        /\ deployment' = [deployment EXCEPT ![a].replicas = job[r].replicas]
        /\ Answered(r, "ok")
        /\ pinned' = IF job[r].op = "fixedscale" /\ r \in alone
                     THEN [pinned EXCEPT ![a] = job[r].replicas] ELSE pinned
     \/ /\ ~Deployed(a)
        /\ Await(r, "failed")
        /\ UNCHANGED <<deployment, faults, pinned>>
  /\ Unlooped /\ UNCHANGED <<identity, claim, leaving, scaler, alone>>

HpaRead(r) ==
  /\ pc[r] = "hpa_read"
  /\ Await(r, IF scaler[job[r].app] # {} THEN "hpa_replace" ELSE "hpa_post")
  /\ Unlooped /\ UNCHANGED <<cluster, faults, history>>

HpaPost(r) ==
  LET a == job[r].app IN
  /\ pc[r] = "hpa_post"
  /\ \/ /\ scaler[a] = {}
        /\ scaler' = [scaler EXCEPT ![a] = job[r].range]
        /\ Answered(r, "ok")
     \/ /\ scaler[a] # {}
        /\ Await(r, "hpa_replace")
        /\ UNCHANGED <<scaler, faults>>
  /\ Unlooped /\ UNCHANGED <<identity, deployment, claim, leaving, history>>

HpaReplace(r) ==
  LET a == job[r].app IN
  /\ pc[r] = "hpa_replace"
  /\ \/ /\ scaler[a] # {}
        /\ scaler' = [scaler EXCEPT ![a] = job[r].range]
        /\ Answered(r, "ok")
     \/ /\ scaler[a] = {}
        /\ Await(r, "failed")
        /\ UNCHANGED <<scaler, faults>>
  /\ Unlooped /\ UNCHANGED <<identity, deployment, claim, leaving, history>>

HpaDelete(r) ==
  /\ pc[r] = "hpa_delete"
  /\ scaler' = [scaler EXCEPT ![job[r].app] = {}]
  /\ Answered(r, "scale_read")
  /\ Unlooped /\ UNCHANGED <<identity, deployment, claim, leaving, history>>

-----------------------------------------------------------------------------
(* Failures, and the cluster's own controllers. *)

\* A call fails without effect.  A loop that swallows the exception has picked
\* its claim when it looks it up.
CallFails(r) ==
  /\ Active(r)
  /\ faults < MaxFaults
  /\ faults' = faults + 1
  /\ \/ /\ pc[r] = "unmount_read"
        /\ \E c \in todo[r] :
             /\ Await(r, NextClaim(todo[r] \ {c}, "unmount_read", "ok"))
             /\ todo' = [todo EXCEPT ![r] = @ \ {c}]
     \/ /\ pc[r] = "unmount"
        /\ Await(r, AfterException(r))
        /\ todo' = [todo EXCEPT ![r] = @ \ {cur[r]}]
     \/ /\ pc[r] \notin {"unmount_read", "unmount"}
        /\ Await(r, AfterException(r))
        /\ UNCHANGED todo
  /\ UNCHANGED <<cluster, job, cur, history>>

\* The process dies: every request in flight is dropped.
Crash ==
  /\ faults < MaxFaults
  /\ \E r \in Requests : Active(r)
  /\ faults' = faults + 1
  /\ pc' = [r \in Requests |-> IF Active(r) THEN "idle" ELSE pc[r]]
  /\ Unlooped /\ UNCHANGED <<cluster, history>>

\* The volume controller finishes the removal of a deleted claim.
ClaimGone(p) ==
  /\ p \in leaving
  /\ leaving' = leaving \ {p}
  /\ claim' = [claim EXCEPT ![p] = 0]
  /\ Unlooped /\ UNCHANGED <<identity, deployment, scaler, pc, faults, history>>

\* The autoscaler of an app sets the replicas of the deployment of that name.
AutoScaled(a) ==
  /\ Deployed(a)
  /\ \E n \in scaler[a] \ {deployment[a].replicas} :
       deployment' = [deployment EXCEPT ![a].replicas = n]
  /\ Unlooped
  /\ UNCHANGED <<identity, claim, leaving, scaler, pc, faults, history>>

-----------------------------------------------------------------------------
CreateStep(r) ==
  \/ SaRead(r) \/ SaPost(r) \/ SaReread(r)
  \/ \E c \in Containers : PvcRead(r, c)
  \/ PvcPost(r) \/ PvcReread(r)
  \/ DepRead(r) \/ DepPatch(r) \/ DepReread(r) \/ DepPost(r) \/ DepConflict(r)
DeleteStep(r) ==
  \/ UndeployRead(r) \/ Undeploy(r) \/ Unbind(r)
  \/ \E c \in Containers : UnmountRead(r, c)
  \/ Unmount(r)
ReviseStep(r) ==
  \/ ResizeRead(r) \/ Resize(r) \/ PvcFind(r) \/ ExpandRead(r) \/ Expand(r)
ScaleStep(r) ==
  \/ ScaleRead(r) \/ Scale(r)
  \/ HpaRead(r) \/ HpaPost(r) \/ HpaReplace(r) \/ HpaDelete(r)
Step(r) == Find(r) \/ CreateStep(r) \/ DeleteStep(r) \/ ReviseStep(r) \/ ScaleStep(r)

Next ==
  \/ \E r \in Requests : Step(r) \/ CallFails(r) \/ \E j \in Workload : Arrive(r, j)
  \/ Crash
  \/ \E p \in Claims : ClaimGone(p)
  \/ \E a \in Apps : AutoScaled(a)

Spec == Init /\ [][Next]_vars

\* The event loop resumes every coroutine whose call has returned.
FairSpec == Spec /\ \A r \in Requests : WF_vars(Step(r))

-----------------------------------------------------------------------------
(* Properties. *)

\* An app that is deployed has the ServiceAccount its pods run as and, for
\* each volume its pods mount, a claim that exists and is not being removed.
\* The four objects are created and deleted by separate calls, in opposite
\* orders, by requests that interleave, fail and crash.
DeployedHasIdentityAndStorage ==
  \A a \in Apps : Deployed(a) =>
    /\ a \in identity
    /\ \A c \in deployment[a].volumes : Live(PvcName[a, c])

\* Once a fixed scale that no other rescaling request overlapped took effect,
\* the app keeps that number of replicas and has no autoscaler, until another
\* request rescales it: the autoscaler is removed before the replicas are set.
FixedScaleSticks ==
  \A a \in Apps : pinned[a] > 0 =>
    /\ Deployed(a)
    /\ deployment[a].replicas = pinned[a]
    /\ scaler[a] = {}

\* A creation answered with success leaves the app deployed, bound to its
\* ServiceAccount and with a live claim for every disk of the payload, also
\* when the deployment or some of the claims existed before or were created
\* by a concurrent request.
CreateDelivers ==
  [][\A r \in Requests :
       (Active(r) /\ pc'[r] = "ok" /\ job[r].op = "create") =>
         /\ Deployed(job[r].app)'
         /\ job[r].app \in identity'
         /\ \A c \in Disks(job[r]) : Live(PvcName[job[r].app, c])']_vars

\* As long as nothing failed, an app that is not deployed and that no request is
\* working on has left neither its ServiceAccount nor a claim behind, whatever
\* deletions, creations and revisions of it ran at the same time.
NothingLeftBehind ==
  faults = 0 => \A a \in Apps :
    (~Deployed(a) /\ \A r \in Requests : Active(r) => job[r].app # a) =>
      /\ a \notin identity
      /\ \A p \in ClaimsOf(a) : ~Live(p)

\* As long as nothing failed, a deletion answered with success has removed the
\* app's ServiceAccount and released every claim of the app ("App(Deployment) deletion and clean-up of
\* the associated resources (PVC, SA)", app_deployment_delete_use_case.py:27).
DeletionCleansUp ==
  [][\A r \in Requests :
       (Active(r) /\ pc'[r] = "ok" /\ job[r].op = "delete" /\ faults' = 0) =>
         /\ job[r].app \notin identity'
         /\ \A p \in ClaimsOf(job[r].app) : ~Live(p)']_vars

\* Every request is answered, although the loops over claims swallow exceptions
\* and other requests change the claims under them.
EveryRequestAnswered == \A r \in Requests : Active(r) ~> ~Active(r)

\* How many calls a request may still make: those of the stages ahead of it, and
\* those for each claim that it has yet to visit.
CallsAhead(step) ==
  CASE step = "find" -> 8
    [] step \in {"sa_read", "resize_read"} -> 7
    [] step \in {"sa_post", "resize"} -> 6
    [] step \in {"sa_reread", "pvc_find"} -> 5
    [] step \in {"pvc_read", "dep_read", "expand_read", "undeploy_read"} -> 4
    [] step \in {"pvc_post", "dep_reread", "expand", "hpa_read", "hpa_delete", "undeploy"} -> 3
    [] step \in {"pvc_reread", "dep_post", "hpa_post", "scale_read", "unbind"} -> 2
    [] step \in {"dep_patch", "dep_conflict", "scale", "hpa_replace", "unmount_read"} -> 1
    [] OTHER -> 0
CallsPerClaim(step) ==
  CASE step \in CreateSteps -> 3
    [] step \in DeleteSteps -> 2
    [] OTHER -> 0
CallsLeft(r) ==
  CallsAhead(pc[r])
    + CallsPerClaim(pc[r]) * Cardinality(IF pc[r] = "find" THEN Containers ELSE todo[r])

\* Whatever a request meets, what other requests changed under it and whichever call
\* failed, it never has as many calls ahead as before: no call is repeated without
\* bound, and no claim is visited twice.
EveryCallAdvances ==
  [][\A r \in Requests : ((Step(r) \/ CallFails(r)) /\ Active(r)') =>
       CallsLeft(r)' < CallsLeft(r)]_vars

-----------------------------------------------------------------------------
(* What the proofs need to know of every state. *)

DistinctClaimNames ==
  \A x, y \in Apps \X Containers : PvcName[x] = PvcName[y] => x = y

DeployStage == {"dep_read", "dep_patch", "dep_reread", "dep_post", "dep_conflict"}
ClaimStage == {"pvc_read", "pvc_post", "pvc_reread"}
CleanUpStage == {"unbind", "unmount_read", "unmount"}

\* A request in flight is at a step of its operation, with the loop variables
\* that step relies on.
WellFormed(r) ==
  Active(r) =>
    /\ \/ /\ pc[r] \in CreateSteps /\ job[r] \in CreateJobs
          /\ todo[r] \subseteq Disks(job[r])
       \/ pc[r] \in DeleteSteps /\ job[r] \in DeleteJobs
       \/ /\ pc[r] \in ReviseSteps /\ job[r] \in ReviseJobs
          /\ pc[r] \in {"scale_read", "scale"} => job[r].replicas > 0
       \/ pc[r] \in AutoScaleSteps /\ job[r] \in AutoScaleJobs
       \/ pc[r] \in FixedScaleSteps /\ job[r] \in FixedScaleJobs
    /\ pc[r] \in {"pvc_post", "pvc_reread", "unmount"} => cur[r] \in todo[r]
    /\ pc[r] \in DeployStage => todo[r] = {}
RequestInv == \A r \in Requests : WellFormed(r)

\* What a creation has secured so far is there and stays; a deletion that
\* cleans up has no deployment any more.
CreationHolds(r) ==
  pc[r] \in CreateSteps =>
    /\ pc[r] \in ClaimStage \cup DeployStage => job[r].app \in identity
    /\ \A c \in Disks(job[r]) \ todo[r] : Live(PvcName[job[r].app, c])
    /\ ClaimsOf(job[r].app) \cap leaving = {}
    /\ \A q \in Requests :
         (Active(q) /\ job[q].op = "delete") => job[q].app # job[r].app

StorageInv ==
  /\ DeployedHasIdentityAndStorage
  /\ \A r \in Requests : CreationHolds(r)
  /\ \A r \in Requests : pc[r] \in CleanUpStage => ~Deployed(job[r].app)

\* A request that is alone has no rival, a lone fixed scale has removed the
\* autoscaler before it scales, and a pinned app is not being rescaled.
ScaleInv ==
  /\ FixedScaleSticks
  /\ \A r \in Requests : (r \in alone /\ Active(r)) =>
       /\ Rescales(job[r])
       /\ Rivals(job[r]) \subseteq {r}
       /\ (job[r].op = "fixedscale" /\ pc[r] \in {"scale_read", "scale"}) =>
            scaler[job[r].app] = {}
  /\ \A r \in Requests :
       (Active(r) /\ Rescales(job[r])) => pinned[job[r].app] = 0

\* Every creation of an app asks for the same disks, which are the only ones it
\* can have.
UniformDisks ==
  \A i, j \in Workload :
    (i.op = "create" /\ j.op = "create" /\ i.app = j.app) => Disks(i) = Disks(j)
DisksOf(a) ==
  UNION {Disks(j) : j \in {i \in Workload : i.op = "create" /\ i.app = a}}

Creating(a) == \E r \in Requests : pc[r] \in CreateSteps /\ job[r].app = a
CleaningUp(a) == \E r \in Requests : pc[r] \in CleanUpStage /\ job[r].app = a

\* An app mounts all the disks it may have a claim for, ...
Owned(a) ==
  /\ Deployed(a) => deployment[a].volumes = DisksOf(a)
  /\ \A c \in Containers : Live(PvcName[a, c]) => c \in DisksOf(a)

\* ... and what is there of one that is not deployed is being completed or cleaned up.
Accounted(a) ==
  (~Deployed(a) /\ ~Creating(a) /\ ~CleaningUp(a)) =>
    /\ a \notin identity
    /\ \A c \in Containers : ~Live(PvcName[a, c])

\* A creation finds again what it met, so that it does not fail, ...
CreationMeets(r) ==
  /\ pc[r] = "sa_reread" => job[r].app \in identity
  /\ pc[r] = "pvc_reread" => claim[CurrentClaim(r)] > 0
  /\ pc[r] \in {"dep_patch", "dep_conflict"} => Deployed(job[r].app)

\* ... and a deletion has yet to visit every claim that it has not released.
DeletionHolds(r) ==
  pc[r] \in DeleteSteps \ {"find"} /\ job[r].op = "delete" =>
    /\ \A c \in Containers : Live(PvcName[job[r].app, c]) => c \in todo[r]
    /\ pc[r] \in {"unmount_read", "unmount"} => job[r].app \notin identity

CleanUpInv ==
  faults = 0 =>
    /\ \A a \in Apps : Owned(a) /\ Accounted(a)
    /\ \A r \in Requests :
         /\ Active(r) => job[r] \in Workload
         /\ CreationMeets(r)
         /\ DeletionHolds(r)

=============================================================================

-------------------------- MODULE ResourceManagers --------------------------
(***************************************************************************)
(* The managers of the Kubernetes kinds, and the requests for an app's     *)
(* environment variables, which go through the one of ConfigMaps.          *)
(*                                                                         *)
(* A manager serves one kind, and all of them follow one protocol: look,   *)
(* then write; a conflict is looked at again; a change of a field is a     *)
(* merge patch made from what was looked up.  What differs from kind to    *)
(* kind stands in the actions by which their methods are entered.          *)
(*                                                                         *)
(* One object of one kind is followed through one of its fields (target):  *)
(* methods touch one object, and a patch one field.  A field is a map, and *)
(* a scalar is a map of one key; the lists of subjects and pull secrets    *)
(* are sets.                                                               *)
(***************************************************************************)
EXTENDS Naturals, FiniteSets

CONSTANTS
  Requests,     \* slots for calls that are served at the same time
  Keys, Values, \* of maps
  ScalarKey,    \* the key that stands for a scalar
  NameKey, NameValue,  \* the label that names an object created without labels
  Payloads,     \* the maps clients send
  Members,      \* subjects, or names of pull secrets
  MaxFaults,    \* bound on failed calls, lost answers and crashes
  Unset, NoObject, NoJob

ASSUME FaultsAssumption == MaxFaults \in Nat

\* The fields of each kind that a method of its manager changes.
FieldsOf ==
  [statefulset |-> {"labels", "annotations", "replicas"},
   cronjob |-> {"labels", "annotations", "suspend", "schedule"},
   replicaset |-> {"labels", "replicas"},
   job |-> {"labels"}, daemonset |-> {"labels"}, pod |-> {"labels"},
   configmap |-> {"labels", "data"},
   limitrange |-> {"labels", "limits"}, resourcequota |-> {"labels", "hard"},
   role |-> {"labels"}, rolebinding |-> {"labels", "subjects"},
   serviceaccount |-> {"labels", "annotations", "imagePullSecrets"},
   service |-> {"labels", "annotations", "selector"},
   deployment |-> {"labels"}, persistentvolumeclaim |-> {"labels"},
   namespace |-> {"labels"},
   gateway |-> {"labels"}, vpa |-> {"labels"}, storage_class |-> {"labels"}]

Kinds == DOMAIN FieldsOf
Fields == UNION {FieldsOf[k] : k \in Kinds}
Targets == {t \in [kind : Kinds, field : Fields] : t.field \in FieldsOf[t.kind]}
Lists == {"subjects", "imagePullSecrets"}
Scalars == {"replicas", "suspend", "schedule", "limits"}

\* Kinds whose deleted objects may stay until their finalizers or processes are done:
\* a Job by its propagation policy, a Service by the balancer it was given.  An object
\* that goes at once is one that vanishes next.
Graceful == {"pod", "persistentvolumeclaim", "namespace", "job", "service"}

Maps == [Keys -> Values \cup {Unset}]
Empty == [k \in Keys |-> Unset]
NameLabel == [Empty EXCEPT ![NameKey] = NameValue]
Objects == [map : Maps, members : SUBSET Members, leaving : BOOLEAN]
Bodies == [map : Maps, members : SUBSET Members]
NoBody == [map |-> Empty, members |-> {}]

\* gone tells whether it is a success that there is nothing to hand out or to delete.
Ops == {"create", "delete", "update", "add", "set", "replace", "clear"}
Jobs == [op : Ops, given : Bodies, merge : BOOLEAN, gone : BOOLEAN]

ASSUME MapsAssumption ==
  /\ Payloads \subseteq Maps
  /\ ScalarKey \in Keys
  /\ NameKey \in Keys /\ NameValue \in Values

ASSUME AbsentAssumption ==
  /\ Unset \notin Values
  /\ NoObject \notin Objects
  /\ NoJob \notin Jobs

VARIABLES
  target,       \* the kind and the field that are followed
  object,       \* the object of the cluster, or NoObject
  deployed,     \* whether the app of an environment is deployed
  pc,           \* the call a request awaits next; idle before and after it
  job,          \* what the request asks for, or NoJob
  body,         \* the patch it is about to send
  current,      \* requests since whose look-up nothing was written
  faults,       \* failed calls, lost answers and crashes so far
  promised,     \* history: a creation was answered, no deletion asked for since
  standing      \* history: members whose addition was answered since the last deletion
                \* or outdated addition

cluster == <<target, object, deployed>>
vars == <<cluster, pc, job, body, current, faults, promised, standing>>

EnvSteps == {"env_find", "env_get", "env_check"}
WriteSteps == {"create_get", "post", "reread", "update_get", "add_get", "patch",
               "delete_get", "remove"}
Steps == EnvSteps \cup WriteSteps

Active(r) == pc[r] # "idle"
Exists == object # NoObject
DeleteOps == {"delete", "clear"}
Deleting == \E r \in Requests : Active(r) /\ job[r].op \in DeleteOps

TypeOK ==
  /\ target \in Targets
  /\ object \in Objects \cup {NoObject}
  /\ deployed \in BOOLEAN
  /\ pc \in [Requests -> Steps \cup {"idle"}]
  /\ job \in [Requests -> Jobs \cup {NoJob}]
  /\ body \in [Requests -> Bodies]
  /\ current \subseteq Requests
  /\ faults \in 0..MaxFaults
  /\ promised \in BOOLEAN
  /\ standing \subseteq Members

Init ==
  /\ target \in Targets
  /\ object = NoObject
  /\ deployed = TRUE
  /\ pc = [r \in Requests |-> "idle"]
  /\ job = [r \in Requests |-> NoJob]
  /\ body = [r \in Requests |-> NoBody]
  /\ current = {}
  /\ faults = 0
  /\ promised = FALSE
  /\ standing = {}

-----------------------------------------------------------------------------
(* How a request moves on. *)

\* The requests q are over, and nothing of them is left in the process.
End(q) ==
  /\ pc' = [r \in Requests |-> IF r \in q THEN "idle" ELSE pc[r]]
  /\ job' = [r \in Requests |-> IF r \in q THEN NoJob ELSE job[r]]
  /\ body' = [r \in Requests |-> IF r \in q THEN NoBody ELSE body[r]]

Historyless == UNCHANGED <<promised, standing>>

\* A list that was read before another write takes back what it did not have.
Kept(r) == IF pc[r] = "patch" /\ r \notin current THEN {} ELSE standing

\* What no deletion is racing with is promised.
Answer(r) ==
  /\ End({r})
  /\ promised' = (promised \/ (job[r].op = "create" /\ ~Deleting))
  /\ standing' = IF job[r].op = "add" /\ ~Deleting
                 THEN Kept(r) \cup job[r].given.members ELSE Kept(r)
  /\ UNCHANGED faults

Fails(r) == End({r}) /\ UNCHANGED faults /\ Historyless

\* The requests q end without an answer, through a failed call or a crash.
Dropped(q) ==
  /\ faults < MaxFaults
  /\ faults' = faults + 1
  /\ End(q) /\ Historyless

Lost(r) ==
  /\ faults < MaxFaults
  /\ faults' = faults + 1
  /\ End({r})
  /\ standing' = Kept(r)
  /\ UNCHANGED promised

\* A call that took effect is answered, or its answer is lost.
Effective(r) == Answer(r) \/ Lost(r)

Goes(r, step) ==
  /\ pc' = [pc EXCEPT ![r] = step]
  /\ UNCHANGED <<job, body, faults>> /\ Historyless

Sends(r, b) ==
  /\ pc' = [pc EXCEPT ![r] = "patch"]
  /\ body' = [body EXCEPT ![r] = b]
  /\ UNCHANGED <<job, faults>> /\ Historyless

Writes(o) == object' = o /\ current' = {} /\ UNCHANGED <<target, deployed>>
Looks(r) == current' = current \cup {r} /\ UNCHANGED cluster
Leaves(q) == current' = current \ q /\ UNCHANGED cluster

-----------------------------------------------------------------------------
(* How a method is entered. *)

Ask(r, step, j) ==
  /\ ~Active(r)
  /\ pc' = [pc EXCEPT ![r] = step]
  /\ job' = [job EXCEPT ![r] = j]
  /\ promised' = (promised /\ j.op \notin DeleteOps)
  /\ standing' = IF j.op \in DeleteOps THEN {} ELSE standing
  /\ UNCHANGED <<cluster, body, current, faults>>

Request(op, given, merge, gone) ==
  [op |-> op, given |-> given, merge |-> merge, gone |-> gone]

\* What is sent for the field that is followed.
Given ==
  [map : CASE target.field \in Lists -> {Empty}
           [] target.field \in Scalars -> {[Empty EXCEPT ![ScalarKey] = v] : v \in Values}
           [] OTHER -> Payloads,
   members : IF target.field \in Lists THEN SUBSET Members ELSE {{}}]

\* An object is created with the labels sent, or with those of its kind.
Labelled(b, labels) ==
  [b EXCEPT !.map = IF target.field = "labels" /\ @ = Empty THEN labels ELSE @]

Creates(r, kind, labels, gone) ==
  /\ target.kind = kind
  /\ \E b \in Given :
       Ask(r, "create_get", Request("create", Labelled(b, labels), FALSE, gone))

\* A manager deletes what it has looked up, or without a look.
Deletes(r, kind, step, gone) ==
  /\ target.kind = kind
  /\ Ask(r, step, Request("delete", NoBody, FALSE, gone))

Updates(r, kind, field, merges) ==
  /\ target = [kind |-> kind, field |-> field]
  /\ \E b \in Given, merge \in merges :
       Ask(r, "update_get", Request("update", b, merge, FALSE))

Adds(r, kind, field) ==
  /\ target = [kind |-> kind, field |-> field]
  /\ \E m \in Members :
       Ask(r, "add_get", Request("add", [NoBody EXCEPT !.members = {m}], FALSE, FALSE))

Merging == BOOLEAN   \* callers choose between merging and replacing
Plain == {FALSE}     \* the method sends what it is given

-----------------------------------------------------------------------------
(* Workloads. *)

CreateStatefulSet(r) == Creates(r, "statefulset", Empty, FALSE)
DeleteStatefulSet(r) == Deletes(r, "statefulset", "delete_get", TRUE)
LabelStatefulSet(r) == Updates(r, "statefulset", "labels", Merging)
AnnotateStatefulSet(r) == Updates(r, "statefulset", "annotations", Merging)
ScaleStatefulSet(r) == Updates(r, "statefulset", "replicas", Plain)

CreateCronJob(r) == Creates(r, "cronjob", NameLabel, FALSE)
DeleteCronJob(r) == Deletes(r, "cronjob", "delete_get", TRUE)
LabelCronJob(r) == Updates(r, "cronjob", "labels", Merging)
AnnotateCronJob(r) == Updates(r, "cronjob", "annotations", Merging)
SuspendCronJob(r) == Updates(r, "cronjob", "suspend", Plain)
ScheduleCronJob(r) == Updates(r, "cronjob", "schedule", Plain)

CreateReplicaSet(r) == Creates(r, "replicaset", NameLabel, FALSE)
DeleteReplicaSet(r) == Deletes(r, "replicaset", "delete_get", FALSE)
LabelReplicaSet(r) == Updates(r, "replicaset", "labels", Merging)
ScaleReplicaSet(r) == Updates(r, "replicaset", "replicas", Plain)

CreateJob(r) == Creates(r, "job", NameLabel, FALSE)
DeleteJob(r) == Deletes(r, "job", "delete_get", FALSE)
LabelJob(r) == Updates(r, "job", "labels", Merging)

CreateDaemonSet(r) == Creates(r, "daemonset", NameLabel, FALSE)
DeleteDaemonSet(r) == Deletes(r, "daemonset", "delete_get", FALSE)
LabelDaemonSet(r) == Updates(r, "daemonset", "labels", Merging)

CreatePod(r) == Creates(r, "pod", NameLabel, FALSE)
DeletePod(r) == Deletes(r, "pod", "delete_get", FALSE)

CreateDeployment(r) == Creates(r, "deployment", NameLabel, FALSE)
DeleteDeployment(r) == Deletes(r, "deployment", "delete_get", FALSE)
LabelDeployment(r) == Updates(r, "deployment", "labels", Merging)

WorkloadCall(r) ==
  \/ CreateStatefulSet(r) \/ DeleteStatefulSet(r) \/ LabelStatefulSet(r) \/ AnnotateStatefulSet(r) \/ ScaleStatefulSet(r)
  \/ CreateCronJob(r) \/ DeleteCronJob(r) \/ LabelCronJob(r) \/ AnnotateCronJob(r) \/ SuspendCronJob(r) \/ ScheduleCronJob(r)
  \/ CreateReplicaSet(r) \/ DeleteReplicaSet(r) \/ LabelReplicaSet(r) \/ ScaleReplicaSet(r)
  \/ CreateJob(r) \/ DeleteJob(r) \/ LabelJob(r)
  \/ CreateDaemonSet(r) \/ DeleteDaemonSet(r) \/ LabelDaemonSet(r)
  \/ CreatePod(r) \/ DeletePod(r)
  \/ CreateDeployment(r) \/ DeleteDeployment(r) \/ LabelDeployment(r)

-----------------------------------------------------------------------------
(* Configuration and limits. *)

CreateConfigMap(r) == Creates(r, "configmap", Empty, FALSE)
DeleteConfigMap(r) == Deletes(r, "configmap", "delete_get", FALSE)
LabelConfigMap(r) == Updates(r, "configmap", "labels", Merging)
UpdateConfigMapData(r) == Updates(r, "configmap", "data", Merging)

CreateLimitRange(r) == Creates(r, "limitrange", Empty, FALSE)
DeleteLimitRange(r) == Deletes(r, "limitrange", "delete_get", FALSE)
LabelLimitRange(r) == Updates(r, "limitrange", "labels", Merging)
UpdateLimitRange(r) == Updates(r, "limitrange", "limits", Plain)

CreateResourceQuota(r) == Creates(r, "resourcequota", Empty, FALSE)
DeleteResourceQuota(r) == Deletes(r, "resourcequota", "delete_get", FALSE)
LabelResourceQuota(r) == Updates(r, "resourcequota", "labels", Merging)
UpdateResourceQuota(r) == Updates(r, "resourcequota", "hard", Plain)

SettingCall(r) ==
  \/ CreateConfigMap(r) \/ DeleteConfigMap(r) \/ LabelConfigMap(r) \/ UpdateConfigMapData(r)
  \/ CreateLimitRange(r) \/ DeleteLimitRange(r) \/ LabelLimitRange(r) \/ UpdateLimitRange(r)
  \/ CreateResourceQuota(r) \/ DeleteResourceQuota(r) \/ LabelResourceQuota(r) \/ UpdateResourceQuota(r)

-----------------------------------------------------------------------------
(* Identities and rights. *)

CreateRole(r) == Creates(r, "role", Empty, FALSE)
DeleteRole(r) == Deletes(r, "role", "delete_get", FALSE)
LabelRole(r) == Updates(r, "role", "labels", Merging)

CreateRoleBinding(r) == Creates(r, "rolebinding", Empty, FALSE)
DeleteRoleBinding(r) == Deletes(r, "rolebinding", "delete_get", FALSE)
LabelRoleBinding(r) == Updates(r, "rolebinding", "labels", Merging)
AddSubject(r) == Adds(r, "rolebinding", "subjects")

CreateServiceAccount(r) == Creates(r, "serviceaccount", Empty, FALSE)
DeleteServiceAccount(r) == Deletes(r, "serviceaccount", "delete_get", FALSE)
LabelServiceAccount(r) == Updates(r, "serviceaccount", "labels", Merging)
AnnotateServiceAccount(r) == Updates(r, "serviceaccount", "annotations", Merging)
AddImagePullSecret(r) == Adds(r, "serviceaccount", "imagePullSecrets")

IdentityCall(r) ==
  \/ CreateRole(r) \/ DeleteRole(r) \/ LabelRole(r)
  \/ CreateRoleBinding(r) \/ DeleteRoleBinding(r) \/ LabelRoleBinding(r) \/ AddSubject(r)
  \/ CreateServiceAccount(r) \/ DeleteServiceAccount(r) \/ LabelServiceAccount(r) \/ AnnotateServiceAccount(r) \/ AddImagePullSecret(r)

-----------------------------------------------------------------------------
(* Networks, volumes and the rest. *)

CreateService(r) == Creates(r, "service", Empty, FALSE)
DeleteService(r) == Deletes(r, "service", "delete_get", TRUE)
LabelService(r) == Updates(r, "service", "labels", Merging)
AnnotateService(r) == Updates(r, "service", "annotations", Merging)
SelectForService(r) == Updates(r, "service", "selector", Plain)

CreatePersistentVolumeClaim(r) == Creates(r, "persistentvolumeclaim", NameLabel, FALSE)
DeletePersistentVolumeClaim(r) == Deletes(r, "persistentvolumeclaim", "delete_get", FALSE)
LabelPersistentVolumeClaim(r) == Updates(r, "persistentvolumeclaim", "labels", Merging)

CreateNamespace(r) == Creates(r, "namespace", Empty, TRUE)
DeleteNamespace(r) == Deletes(r, "namespace", "delete_get", TRUE)
LabelNamespace(r) == Updates(r, "namespace", "labels", Merging)

CreateGateway(r) == Creates(r, "gateway", Empty, FALSE)
DeleteGateway(r) == Deletes(r, "gateway", "delete_get", TRUE)

CreateVpa(r) == Creates(r, "vpa", Empty, TRUE)
DeleteVpa(r) == Deletes(r, "vpa", "remove", TRUE)

CreateStorageClass(r) == Creates(r, "storage_class", Empty, FALSE)
DeleteStorageClass(r) == Deletes(r, "storage_class", "remove", TRUE)

OtherCall(r) ==
  \/ CreateService(r) \/ DeleteService(r) \/ LabelService(r) \/ AnnotateService(r) \/ SelectForService(r)
  \/ CreatePersistentVolumeClaim(r) \/ DeletePersistentVolumeClaim(r) \/ LabelPersistentVolumeClaim(r)
  \/ CreateNamespace(r) \/ DeleteNamespace(r) \/ LabelNamespace(r)
  \/ CreateGateway(r) \/ DeleteGateway(r)
  \/ CreateVpa(r) \/ DeleteVpa(r)
  \/ CreateStorageClass(r) \/ DeleteStorageClass(r)

-----------------------------------------------------------------------------
(* The environment variables of an app, in the ConfigMap of its name. *)

EnvTarget == [kind |-> "configmap", field |-> "data"]

SetEnv(r) ==
  /\ target = EnvTarget
  /\ \E b \in Given : Ask(r, "env_find", Request("set", b, TRUE, FALSE))

ReplaceEnv(r) ==
  /\ target = EnvTarget
  /\ \E b \in Given : Ask(r, "env_find", Request("replace", b, FALSE, FALSE))

ClearEnv(r) ==
  /\ target = EnvTarget
  /\ Ask(r, "env_find", Request("clear", NoBody, FALSE, FALSE))

EnvCall(r) == SetEnv(r) \/ ReplaceEnv(r) \/ ClearEnv(r)

EnvFind(r) ==
  /\ pc[r] = "env_find"
  /\ IF deployed THEN Goes(r, IF job[r].op = "set" THEN "env_get" ELSE "env_check")
                 ELSE Fails(r)
  /\ Leaves({r})

\* Mutant: variables are set as if there were none.
EnvGetCreates(r) ==
  /\ pc[r] = "env_get"
  /\ Goes(r, "create_get")
  /\ Looks(r)

\* Setting decides here between a creation and an update, and both look again.
EnvGet(r) ==
  /\ pc[r] = "env_get"
  /\ Goes(r, IF Exists THEN "update_get" ELSE "create_get")
  /\ Looks(r)

EnvCheck(r) ==
  /\ pc[r] = "env_check"
  /\ IF Exists THEN Goes(r, IF job[r].op = "replace" THEN "update_get" ELSE "delete_get")
               ELSE Fails(r)
  /\ Leaves({r})

-----------------------------------------------------------------------------
(* Creating. *)

\* What is already there is handed out as it is.
CreateGet(r) ==
  /\ pc[r] = "create_get"
  /\ IF Exists THEN Answer(r) /\ Leaves({r}) ELSE Goes(r, "post") /\ Looks(r)

\* Mutant: what was sent is stored without the state of its own.
CreatedRaw(b) == b

Created(b) == [map |-> b.map, members |-> b.members, leaving |-> FALSE]

Post(r) ==
  /\ pc[r] = "post"
  /\ IF Exists THEN Goes(r, "reread") /\ Leaves({r})
               ELSE Effective(r) /\ Writes(Created(job[r].given))

\* Mutant: a conflict is taken for success.
RereadBlindly(r) ==
  /\ pc[r] = "reread"
  /\ Answer(r)
  /\ Leaves({r})

Reread(r) ==
  /\ pc[r] = "reread"
  /\ IF Exists \/ job[r].gone THEN Answer(r) ELSE Fails(r)
  /\ Leaves({r})

-----------------------------------------------------------------------------
(* Changing a field. *)

\* The keys of b get its values, the others stay.
Overlay(a, b) == [k \in Keys |-> IF b[k] # Unset THEN b[k] ELSE a[k]]

Merged(j) == IF j.merge THEN Overlay(object.map, j.given.map) ELSE j.given.map

UpdateGet(r) ==
  /\ pc[r] = "update_get"
  /\ IF Exists
     THEN Sends(r, [job[r].given EXCEPT !.map = Merged(job[r])]) /\ Looks(r)
     ELSE Fails(r) /\ Leaves({r})

\* Mutant: what is added is sent without the list that was read.
AddGetBare(r) ==
  LET added == job[r].given.members IN
  /\ pc[r] = "add_get"
  /\ CASE ~Exists -> Fails(r) /\ Leaves({r})
       [] Exists /\ added \subseteq object.members -> Answer(r) /\ Leaves({r})
       [] OTHER -> Sends(r, [NoBody EXCEPT !.members = added]) /\ Looks(r)

AddGet(r) ==
  LET added == job[r].given.members IN
  /\ pc[r] = "add_get"
  /\ CASE ~Exists -> Fails(r) /\ Leaves({r})
       [] Exists /\ added \subseteq object.members -> Answer(r) /\ Leaves({r})
       [] OTHER -> /\ Sends(r, [NoBody EXCEPT !.members = object.members \cup added])
                   /\ Looks(r)

\* A map is merged key by key; the lists of subjects and of a ServiceAccount's pull
\* secrets have no merge key, and are replaced.
Patched(o, b) ==
  [o EXCEPT !.map = Overlay(@, b.map),
            !.members = IF target.field \in Lists THEN b.members ELSE @]

\* Mutant: a namespace is patched without the version that was read.
PatchUnlocked(r) ==
  /\ pc[r] = "patch"
  /\ IF Exists THEN Effective(r) /\ Writes(Patched(object, body[r]))
               ELSE Fails(r) /\ Leaves({r})

\* Only the patch of a namespace holds the version that was read.
Patch(r) ==
  /\ pc[r] = "patch"
  /\ IF Exists /\ (target.kind = "namespace" => r \in current)
     THEN Effective(r) /\ Writes(Patched(object, body[r]))
     ELSE Fails(r) /\ Leaves({r})

-----------------------------------------------------------------------------
(* Deleting. *)

DeleteGet(r) ==
  /\ pc[r] = "delete_get"
  /\ CASE Exists -> Goes(r, "remove")
       [] ~Exists /\ job[r].gone -> Answer(r)
       [] OTHER -> Fails(r)
  /\ Leaves({r})

\* A call that finds nothing to delete is a success.
Remove(r) ==
  /\ pc[r] = "remove"
  /\ IF Exists
     THEN /\ Effective(r)
          /\ Writes(IF target.kind \in Graceful THEN [object EXCEPT !.leaving = TRUE]
                                                ELSE NoObject)
     ELSE Answer(r) /\ Leaves({r})

-----------------------------------------------------------------------------
(* The cluster, and failures. *)

Vanish ==
  /\ Exists /\ object.leaving
  /\ Writes(NoObject)
  /\ UNCHANGED <<pc, job, body, faults>> /\ Historyless

\* A Job may have been created with a time to live, after which the cluster deletes it.
Expire ==
  /\ target.kind = "job"
  /\ Exists /\ ~object.leaving
  /\ Writes([object EXCEPT !.leaving = TRUE])
  /\ UNCHANGED <<pc, job, body, faults>> /\ Historyless

\* The app of an environment comes and goes; the ConfigMap stays.
Deploys ==
  /\ target = EnvTarget
  /\ deployed' = ~deployed
  /\ UNCHANGED <<target, object, pc, job, body, current, faults>> /\ Historyless

\* A call fails without effect.
CallFails(r) == Active(r) /\ Dropped({r}) /\ Leaves({r})

\* The process dies: every request in flight is dropped.
Crash ==
  /\ \E r \in Requests : Active(r)
  /\ Dropped(Requests)
  /\ Leaves(Requests)

Call(r) == \/ WorkloadCall(r) \/ SettingCall(r) \/ IdentityCall(r) \/ OtherCall(r)
           \/ EnvCall(r)
EnvStep(r) == EnvFind(r) \/ EnvGet(r) \/ EnvCheck(r)
WriteStep(r) == \/ CreateGet(r) \/ Post(r) \/ Reread(r)
                \/ UpdateGet(r) \/ AddGet(r) \/ Patch(r)
                \/ DeleteGet(r) \/ Remove(r)

Step(r) == EnvStep(r) \/ WriteStep(r)

\* What happens without a request.
ClusterStep == Vanish \/ Expire \/ Deploys

Next ==
  \/ \E r \in Requests : Call(r) \/ Step(r) \/ CallFails(r)
  \/ Crash \/ ClusterStep

Spec == Init /\ [][Next]_vars

-----------------------------------------------------------------------------
(* Properties. *)

\* What a manager has answered to have created is there until a deletion is asked
\* for, whoever else creates it.  Namespaces and vertical autoscalers are left out:
\* their managers answer with nothing when the object of a conflict is gone.  So are
\* the kinds whose deleted objects may stay for a while, Jobs and their time to live
\* among them: their managers hand out an object that is on its way out.
CreationsStand == (promised /\ target.kind \notin Graceful \cup {"vpa"}) => Exists

\* A subject or a pull secret whose addition was answered stays in its RoleBinding or
\* ServiceAccount until a deletion is asked for or an addition takes effect whose list
\* was read before another write: each addition sends the whole list that it read, and
\* nothing but an outdated one takes back what another has added.
AdditionsStand == standing \subseteq (IF Exists THEN object.members ELSE {})

\* What r sends takes effect in this step.
PatchBy(r) == pc[r] = "patch" /\ pc'[r] = "idle" /\ object' # object

\* A merging update does not take back another's change of a key that it did not name:
\* it leaves the key as it is, that of a namespace whoever else writes.  For the other
\* kinds this is said of updates since whose look-up nobody wrote: the patch of an
\* outdated one holds the whole map that it read, and may write back what it read.  An
\* update that does not merge is meant to replace the map; ReplaceReplaces is about those.
UnnamedKeysSurvive ==
  [][\A r \in Requests, k \in Keys :
       (PatchBy(r) /\ job[r].merge /\ job[r].given.map[k] = Unset) =>
         \/ object'.map[k] = object.map[k]
         \/ /\ target.kind # "namespace" /\ r \notin current
            /\ body[r].map[k] # Unset /\ object'.map[k] = body[r].map[k]]_vars

\* A request is over, and not for a failed or lost call.
Over(r) == Active(r) /\ pc'[r] = "idle" /\ faults' = faults

\* Variables that were set are in the ConfigMap when the answer is given, whether it
\* was there or not, unless another request wrote since the decision.
SetsDeliver ==
  [][\A r \in Requests :
       (Over(r) /\ job[r].op = "set" /\ r \in current) =>
         /\ object' # NoObject
         /\ Overlay(object'.map, job[r].given.map) = object'.map]_vars

\* A replacement that nothing interfered with leaves no other variables.
ReplaceReplaces ==
  [][\A r \in Requests :
       (Over(r) /\ job[r].op = "replace" /\ r \in current) =>
         object'.map = job[r].given.map]_vars

-----------------------------------------------------------------------------
(* What the proofs of ResourceManagersProofs need to know of every state. *)

\* A request in flight is at a step of its operation.
Fit(step, j) ==
  /\ step \in {"create_get", "post", "reread"} => j.op \in {"create", "set"}
  /\ step = "update_get" => j.op \in {"update", "set", "replace"}
  /\ step = "add_get" => j.op = "add"
  /\ step = "patch" => j.op \in {"update", "set", "replace", "add"}
  /\ step \in {"delete_get", "remove"} => j.op \in DeleteOps
  /\ step = "env_find" => j.op \in {"set", "replace", "clear"}
  /\ step = "env_get" => j.op = "set"
  /\ step = "env_check" => j.op \in {"replace", "clear"}
  /\ (j.op = "create" /\ j.gone) => target.kind \in {"namespace", "vpa"}
  /\ j.op = "set" => j.merge
  /\ j.op = "add" => ~j.merge /\ j.given.map = Empty /\ target.field \in Lists
  /\ j.op \in {"update", "set", "replace"} => target.field \notin Lists

WellFormed(r) == Active(r) => job[r] \in Jobs /\ Fit(pc[r], job[r])

\* Nothing is promised while a deletion is in flight, and only objects of graceful
\* kinds go by themselves.
PromiseInv ==
  /\ CreationsStand
  /\ Deleting => ~promised
  /\ (Exists /\ object.leaving) => target.kind \in Graceful

\* A patch that adds a member sends it, beside every member of the object that it read.
StandingInv ==
  /\ AdditionsStand
  /\ Deleting => standing = {}
  /\ (Exists /\ object.leaving) => target.kind \in Graceful
  /\ standing # {} => target.field \in Lists
  /\ \A r \in Requests :
       (pc[r] = "patch" /\ job[r].op = "add") =>
         /\ job[r].given.members \subseteq body[r].members
         /\ r \in current => Exists /\ object.members \subseteq body[r].members

\* What a request in flight knows of the object, as long as nobody writes, and the
\* patch it has made from that.
VersionInv ==
  \A r \in Requests :
    /\ r \in current =>
         /\ pc[r] \in {"create_get", "post", "update_get", "patch"}
         /\ pc[r] \in {"create_get", "post"} => ~Exists
         /\ pc[r] \in {"update_get", "patch"} => Exists
         /\ (pc[r] = "patch" /\ job[r].merge) =>
              body[r].map = Overlay(object.map, job[r].given.map)
    /\ (pc[r] = "patch" /\ ~job[r].merge) => body[r].map = job[r].given.map
=============================================================================

----------------------- MODULE ResourceManagersProofs -----------------------
(***************************************************************************)
(* Theorems about ResourceManagers, for every kind and field, any maps,    *)
(* concurrent requests, failures and crashes.                              *)
(***************************************************************************)
EXTENDS ResourceManagers, TLAPS

TypeInv == TypeOK /\ \A r \in Requests : WellFormed(r)

\* The request r takes a step: it ends or goes on with its job, and no other
\* request is touched.
Moves(r) ==
  /\ pc' = [pc EXCEPT ![r] = pc'[r]]
  /\ job' = [job EXCEPT ![r] = job'[r]]
  /\ body' = [body EXCEPT ![r] = body'[r]]
  /\ \/ pc'[r] = "idle" /\ job'[r] = NoJob /\ body'[r] = NoBody
     \/ /\ Active(r)' /\ job'[r] = job[r]
        /\ body'[r] = body[r] \/ pc'[r] = "patch"

\* A request is entered.
Enters(r) ==
  \E step \in Steps, j \in Jobs : Fit(step, j) /\ step # "patch" /\ Ask(r, step, j)

-----------------------------------------------------------------------------
(* How requests are entered. *)

LEMMA MapTypes ==
  /\ Empty \in Maps /\ NameLabel \in Maps /\ NoBody \in Bodies
  /\ Given \subseteq Bodies
  /\ \A a, b \in Maps : Overlay(a, b) \in Maps
<1>1. Empty \in Maps /\ NameLabel \in Maps /\ NoBody \in Bodies
  BY MapsAssumption DEF Empty, NameLabel, NoBody, Bodies, Maps
<1>2. \A v \in Values : [Empty EXCEPT ![ScalarKey] = v] \in Maps
  BY <1>1, MapsAssumption DEF Maps
<1>3. Given \subseteq Bodies
  BY <1>1, <1>2, MapsAssumption DEF Given, Bodies
<1>4. \A a, b \in Maps : Overlay(a, b) \in Maps
  BY DEF Overlay, Maps
<1> QED BY <1>1, <1>3, <1>4

\* Objects that may stay after their deletion have no lists.
LEMMA TargetFacts ==
  ASSUME target \in Targets, target.kind \in Graceful
  PROVE  target.field \notin Lists
<1>1. target.field \in FieldsOf[target.kind]
  BY DEF Targets
<1>2. /\ FieldsOf["pod"] = {"labels"} /\ FieldsOf["persistentvolumeclaim"] = {"labels"}
      /\ FieldsOf["namespace"] = {"labels"} /\ FieldsOf["job"] = {"labels"}
      /\ FieldsOf["service"] = {"labels", "annotations", "selector"}
  BY DEF FieldsOf
<1> QED BY <1>1, <1>2 DEF Lists, Graceful

LEMMA CreatesEnters ==
  ASSUME NEW r \in Requests, NEW kind, NEW labels \in Maps, NEW gone \in BOOLEAN,
         gone => kind \in {"namespace", "vpa"}, Creates(r, kind, labels, gone)
  PROVE  Enters(r)
<1>1. target.kind = kind
  BY DEF Creates
<1>2. PICK b \in Given :
        Ask(r, "create_get", Request("create", Labelled(b, labels), FALSE, gone))
  BY DEF Creates
<1> DEFINE j == Request("create", Labelled(b, labels), FALSE, gone)
<1>3. Labelled(b, labels) \in Bodies
  BY <1>2, MapTypes DEF Labelled, Bodies
<1>4. j \in Jobs /\ j.op = "create" /\ j.gone = gone
  BY <1>3 DEF Request, Jobs, Ops
<1>5. Fit("create_get", j) /\ "create_get" \in Steps
  BY <1>1, <1>4 DEF Fit, Steps, WriteSteps
<1> QED BY <1>2, <1>4, <1>5 DEF Enters

LEMMA DeletesEnters ==
  ASSUME NEW r \in Requests, NEW kind, NEW step \in {"delete_get", "remove"},
         NEW gone \in BOOLEAN, Deletes(r, kind, step, gone)
  PROVE  Enters(r)
<1> DEFINE j == Request("delete", NoBody, FALSE, gone)
<1>1. j \in Jobs /\ j.op = "delete"
  BY MapTypes DEF Request, Jobs, Ops
<1>2. Fit(step, j) /\ step \in Steps
  BY <1>1 DEF Fit, Steps, WriteSteps, DeleteOps
<1> QED BY <1>1, <1>2 DEF Enters, Deletes

LEMMA UpdatesEnters ==
  ASSUME NEW r \in Requests, NEW kind, NEW field, field \notin Lists,
         NEW merges \in SUBSET BOOLEAN, Updates(r, kind, field, merges)
  PROVE  Enters(r)
<1>1. PICK b \in Given, merge \in merges :
        Ask(r, "update_get", Request("update", b, merge, FALSE))
  BY DEF Updates
<1> DEFINE j == Request("update", b, merge, FALSE)
<1>2. j \in Jobs /\ j.op = "update"
  BY <1>1, MapTypes DEF Request, Jobs, Ops
<1>3. Fit("update_get", j) /\ "update_get" \in Steps
  BY <1>2 DEF Fit, Steps, WriteSteps, Updates
<1> QED BY <1>1, <1>2, <1>3 DEF Enters

LEMMA AddsEnters ==
  ASSUME NEW r \in Requests, NEW kind, NEW field \in Lists, Adds(r, kind, field)
  PROVE  Enters(r)
<1>1. PICK m \in Members :
        Ask(r, "add_get", Request("add", [NoBody EXCEPT !.members = {m}], FALSE, FALSE))
  BY DEF Adds
<1> DEFINE b == [NoBody EXCEPT !.members = {m}]
           j == Request("add", b, FALSE, FALSE)
<1>2. b \in Bodies /\ b.map = Empty
  BY MapTypes DEF NoBody, Bodies
<1>3. j \in Jobs /\ j.op = "add" /\ j.given.map = Empty /\ ~j.merge
  BY <1>2 DEF Request, Jobs, Ops
<1>4. target.field \in Lists
  BY DEF Adds
<1>5. Fit("add_get", j) /\ "add_get" \in Steps
  BY <1>3, <1>4 DEF Fit, Steps, WriteSteps
<1> QED BY <1>1, <1>3, <1>5 DEF Enters

LEMMA EnvEnters ==
  ASSUME NEW r \in Requests, EnvCall(r)
  PROVE  Enters(r)
<1>0. target = EnvTarget
  BY DEF EnvCall, SetEnv, ReplaceEnv, ClearEnv
<1>1. ASSUME NEW op \in {"set", "replace", "clear"}, NEW b \in Bodies,
             NEW merge \in BOOLEAN, op = "set" => merge,
             Ask(r, "env_find", Request(op, b, merge, FALSE))
      PROVE  Enters(r)
  <2> DEFINE j == Request(op, b, merge, FALSE)
  <2>1. j \in Jobs /\ j.op = op /\ j.merge = merge
    BY DEF Request, Jobs, Ops
  <2>2. target.field \notin Lists
    BY <1>0 DEF EnvTarget, Lists
  <2>3. Fit("env_find", j) /\ "env_find" \in Steps
    BY <1>1, <2>1, <2>2 DEF Fit, Steps, EnvSteps
  <2> QED BY <1>1, <2>1, <2>3 DEF Enters
<1> QED BY <1>1, MapTypes DEF EnvCall, SetEnv, ReplaceEnv, ClearEnv

LEMMA CallEnters ==
  ASSUME NEW r \in Requests, Call(r)
  PROVE  Enters(r)
<1>1. Merging \in SUBSET BOOLEAN /\ Plain \in SUBSET BOOLEAN
  BY DEF Merging, Plain
<1>0. /\ "labels" \notin Lists /\ "annotations" \notin Lists /\ "replicas" \notin Lists
      /\ "suspend" \notin Lists /\ "schedule" \notin Lists /\ "data" \notin Lists
      /\ "limits" \notin Lists /\ "hard" \notin Lists /\ "selector" \notin Lists
  BY DEF Lists
<1>2. CASE WorkloadCall(r)
  BY <1>0, <1>1, <1>2, MapTypes, CreatesEnters, DeletesEnters, UpdatesEnters
  DEF WorkloadCall, CreateStatefulSet, DeleteStatefulSet, LabelStatefulSet,
      AnnotateStatefulSet, ScaleStatefulSet, CreateCronJob, DeleteCronJob, LabelCronJob,
      AnnotateCronJob, SuspendCronJob, ScheduleCronJob, CreateReplicaSet, DeleteReplicaSet,
      LabelReplicaSet, ScaleReplicaSet, CreateJob, DeleteJob, LabelJob, CreateDaemonSet,
      DeleteDaemonSet, LabelDaemonSet, CreatePod, DeletePod, CreateDeployment,
      DeleteDeployment, LabelDeployment
<1>3. CASE SettingCall(r)
  BY <1>0, <1>1, <1>3, MapTypes, CreatesEnters, DeletesEnters, UpdatesEnters
  DEF SettingCall, CreateConfigMap, DeleteConfigMap, LabelConfigMap, UpdateConfigMapData,
      CreateLimitRange, DeleteLimitRange, LabelLimitRange, UpdateLimitRange,
      CreateResourceQuota, DeleteResourceQuota, LabelResourceQuota, UpdateResourceQuota
<1>4. CASE IdentityCall(r)
  BY <1>0, <1>1, <1>4, MapTypes, CreatesEnters, DeletesEnters, UpdatesEnters, AddsEnters
  DEF IdentityCall, CreateRole, DeleteRole, LabelRole, CreateRoleBinding,
      DeleteRoleBinding, LabelRoleBinding, AddSubject, CreateServiceAccount,
      DeleteServiceAccount, LabelServiceAccount, AnnotateServiceAccount,
      AddImagePullSecret, Lists
<1>5. CASE OtherCall(r)
  BY <1>0, <1>1, <1>5, MapTypes, CreatesEnters, DeletesEnters, UpdatesEnters
  DEF OtherCall, CreateService, DeleteService, LabelService, AnnotateService,
      SelectForService, CreatePersistentVolumeClaim, DeletePersistentVolumeClaim,
      LabelPersistentVolumeClaim, CreateNamespace, DeleteNamespace, LabelNamespace,
      CreateGateway, DeleteGateway, CreateVpa, DeleteVpa, CreateStorageClass,
      DeleteStorageClass
<1> QED BY <1>2, <1>3, <1>4, <1>5, EnvEnters DEF Call

-----------------------------------------------------------------------------
(* Type correctness. *)

LEMMA InitTypeInv == Init => TypeInv
<1> SUFFICES ASSUME Init PROVE TypeInv
  OBVIOUS
<1>1. 0 \in 0..MaxFaults
  BY FaultsAssumption
<1>2. TypeOK
  BY <1>1, MapTypes DEF Init, TypeOK
<1>3. \A r \in Requests : WellFormed(r)
  BY DEF Init, WellFormed, Active
<1> QED BY <1>2, <1>3 DEF TypeInv

LEMMA EndMoves ==
  ASSUME TypeOK, NEW r \in Requests, End({r})
  PROVE  Moves(r) /\ pc'[r] = "idle"
BY DEF End, TypeOK, Moves

LEMMA EndTyped ==
  ASSUME TypeOK, NEW q \in SUBSET Requests, End(q)
  PROVE  /\ pc' \in [Requests -> Steps \cup {"idle"}]
         /\ job' \in [Requests -> Jobs \cup {NoJob}]
         /\ body' \in [Requests -> Bodies]
         /\ \A r \in q : pc'[r] = "idle"
         /\ \A r \in Requests \ q :
              pc'[r] = pc[r] /\ job'[r] = job[r] /\ body'[r] = body[r]
BY MapTypes DEF End, TypeOK

\* How a request can end or go on.
LEMMA Ends ==
  ASSUME TypeOK, NEW r \in Requests, Answer(r) \/ Fails(r) \/ Effective(r)
  PROVE  /\ Moves(r) /\ pc'[r] = "idle"
         /\ faults' \in 0..MaxFaults
<1>1. End({r}) /\ (faults' = faults \/ (faults' = faults + 1 /\ faults < MaxFaults))
  BY DEF Answer, Fails, Effective, Lost
<1>2. faults' \in 0..MaxFaults
  BY <1>1, FaultsAssumption DEF TypeOK
<1> QED BY <1>1, <1>2, EndMoves

LEMMA Continues ==
  ASSUME TypeInv, NEW r \in Requests, Active(r), NEW step \in Steps, Goes(r, step),
         Fit(step, job[r]), UNCHANGED target
  PROVE  /\ Moves(r) /\ pc'[r] = step /\ WellFormed(r)'
         /\ body'[r] = body[r] /\ faults' \in 0..MaxFaults
<1>1. /\ pc' = [pc EXCEPT ![r] = step] /\ job' = job /\ body' = body /\ faults' = faults
  BY DEF Goes
<1>2. pc'[r] = step /\ step # "idle"
  BY <1>1 DEF TypeInv, TypeOK, Steps, EnvSteps, WriteSteps
<1>3. Moves(r)
  BY <1>1, <1>2 DEF Moves, Active, TypeInv, TypeOK
<1>4. Fit(step, job[r])'
  BY <1>1 DEF Fit
<1> QED BY <1>1, <1>2, <1>3, <1>4 DEF WellFormed, TypeInv, TypeOK

LEMMA Sending ==
  ASSUME TypeInv, NEW r \in Requests, Active(r), NEW b \in Bodies, Sends(r, b),
         Fit("patch", job[r]), UNCHANGED target
  PROVE  /\ Moves(r) /\ pc'[r] = "patch" /\ WellFormed(r)'
         /\ body'[r] = b /\ faults' \in 0..MaxFaults
<1>1. /\ pc' = [pc EXCEPT ![r] = "patch"] /\ job' = job /\ body' = [body EXCEPT ![r] = b]
      /\ faults' = faults
  BY DEF Sends
<1>2. pc'[r] = "patch" /\ body'[r] = b
  BY <1>1 DEF TypeInv, TypeOK
<1>3. Moves(r)
  BY <1>1, <1>2 DEF Moves, Active, TypeInv, TypeOK
<1>4. Fit("patch", job[r])'
  BY <1>1 DEF Fit
<1> QED BY <1>1, <1>2, <1>3, <1>4 DEF WellFormed, TypeInv, TypeOK

\* What a step of a request does to itself.
LEMMA StepMoves ==
  ASSUME TypeInv, NEW r \in Requests, Step(r)
  PROVE  /\ Active(r) /\ Moves(r) /\ WellFormed(r)'
         /\ pc'[r] \in Steps \cup {"idle"}
         /\ body'[r] \in Bodies /\ faults' \in 0..MaxFaults
         /\ UNCHANGED <<target, deployed>>
<1> DEFINE Done == /\ Moves(r) /\ WellFormed(r)' /\ pc'[r] \in Steps \cup {"idle"}
                   /\ body'[r] \in Bodies /\ faults' \in 0..MaxFaults
<1>1. UNCHANGED <<target, deployed>>
  BY DEF Step, EnvStep, WriteStep, EnvFind, EnvGet, EnvCheck, CreateGet, Post, Reread,
     UpdateGet, AddGet, Patch, DeleteGet, Remove, Leaves, Looks, Writes, cluster
<1>2. /\ Active(r) /\ WellFormed(r) /\ job[r] \in Jobs /\ Fit(pc[r], job[r])
      /\ "idle" \notin Steps /\ body[r] \in Bodies /\ job[r].given \in Bodies
  BY DEF Step, EnvStep, WriteStep, EnvFind, EnvGet, EnvCheck, CreateGet, Post, Reread,
     UpdateGet, AddGet, Patch, DeleteGet, Remove, TypeInv, TypeOK, WellFormed, Active,
     Steps, EnvSteps, WriteSteps, Jobs
<1>3. ASSUME Answer(r) \/ Fails(r) \/ Effective(r) PROVE Done
  BY <1>2, <1>3, Ends, MapTypes DEF TypeInv, WellFormed, Active, Moves
<1>4. ASSUME NEW step \in Steps, Goes(r, step), Fit(step, job[r]) PROVE Done
  BY <1>1, <1>2, <1>4, Continues
<1>5. ASSUME NEW b \in Bodies, Sends(r, b), Fit("patch", job[r]) PROVE Done
  BY <1>1, <1>2, <1>5, Sending DEF Steps, WriteSteps
<1> SUFFICES Done
  BY <1>1, <1>2
<1> HIDE DEF Done
<1>6. ASSUME Exists PROVE object \in Objects
  BY <1>6 DEF Exists, TypeInv, TypeOK
<1>7. CASE EnvFind(r)
  <2>1. /\ job[r].op = "set" => Fit("env_get", job[r])
        /\ job[r].op # "set" => Fit("env_check", job[r])
    BY <1>2, <1>7 DEF EnvFind, Fit
  <2> QED BY <1>3, <1>4, <1>7, <2>1 DEF EnvFind, Steps, EnvSteps
<1>8. CASE EnvGet(r)
  <2>1. Fit("update_get", job[r]) /\ Fit("create_get", job[r])
    BY <1>2, <1>8 DEF EnvGet, Fit
  <2> QED BY <1>4, <1>8, <2>1 DEF EnvGet, Steps, WriteSteps
<1>9. CASE EnvCheck(r)
  <2>1. /\ job[r].op = "replace" => Fit("update_get", job[r])
        /\ job[r].op # "replace" => Fit("delete_get", job[r])
    BY <1>2, <1>9 DEF EnvCheck, Fit, DeleteOps
  <2> QED BY <1>3, <1>4, <1>9, <2>1 DEF EnvCheck, Steps, WriteSteps
<1>10. CASE CreateGet(r) \/ Post(r) \/ Reread(r)
  <2>1. Fit("post", job[r]) /\ Fit("reread", job[r])
    BY <1>2, <1>10 DEF CreateGet, Post, Reread, Fit
  <2> QED BY <1>3, <1>4, <1>10, <2>1 DEF CreateGet, Post, Reread, Steps, WriteSteps
<1>11. CASE UpdateGet(r)
  <2>1. Fit("patch", job[r])
    BY <1>2, <1>11 DEF UpdateGet, Fit
  <2>2. ASSUME Exists PROVE [job[r].given EXCEPT !.map = Merged(job[r])] \in Bodies
    <3>1. Merged(job[r]) \in Maps
      BY <1>2, <1>6, <2>2, MapTypes DEF Merged, Objects, Bodies
    <3> QED BY <1>2, <3>1 DEF Bodies
  <2> QED BY <1>3, <1>5, <1>11, <2>1, <2>2 DEF UpdateGet
<1>12. CASE AddGet(r)
  <2>1. Fit("patch", job[r])
    BY <1>2, <1>12 DEF AddGet, Fit
  <2>2. ASSUME Exists
        PROVE  [NoBody EXCEPT !.members = object.members \cup job[r].given.members] \in Bodies
    BY <1>2, <1>6, <2>2, MapTypes DEF Objects, Bodies
  <2> QED BY <1>3, <1>5, <1>12, <2>1, <2>2 DEF AddGet
<1>13. CASE DeleteGet(r)
  <2>1. Fit("remove", job[r])
    BY <1>2, <1>13 DEF DeleteGet, Fit
  <2> QED BY <1>3, <1>4, <1>13, <2>1 DEF DeleteGet, Steps, WriteSteps
<1>14. CASE Patch(r) \/ Remove(r)
  BY <1>3, <1>14 DEF Patch, Remove
<1> QED BY <1>1, <1>2, <1>7, <1>8, <1>9, <1>10, <1>11, <1>12, <1>13, <1>14
  DEF Step, EnvStep, WriteStep

\* What a removal leaves.
Removed == IF target.kind \in Graceful THEN [object EXCEPT !.leaving = TRUE] ELSE NoObject

\* What a step of a request does to the object.
LEMMA StepWrites ==
  ASSUME TypeInv, NEW r \in Requests, Step(r)
  PROVE  \/ /\ object' = object
            /\ \/ current' = current \ {r}
               \/ current' = current \cup {r} /\ pc[r] \in {"env_get", "create_get", "update_get", "add_get"}
         \/ /\ current' = {} /\ pc'[r] = "idle"
            /\ \/ ~Exists /\ pc[r] = "post" /\ object' = Created(job[r].given)
               \/ /\ Exists /\ pc[r] = "patch" /\ object' = Patched(object, body[r])
                  /\ target.kind = "namespace" => r \in current
               \/ Exists /\ pc[r] = "remove" /\ object' = Removed
<1>1. ASSUME Effective(r) PROVE pc'[r] = "idle"
  BY <1>1, Ends DEF TypeInv
<1> QED BY <1>1 DEF Step, EnvStep, WriteStep, EnvFind, EnvGet, EnvCheck, CreateGet, Post,
     Reread, UpdateGet, AddGet, Patch, DeleteGet, Remove, Leaves, Looks, Writes, cluster, Removed

\* What a step of a request promises.
LEMMA StepHistory ==
  ASSUME TypeInv, NEW r \in Requests, Step(r)
  PROVE  /\ \/ promised' = promised
            \/ /\ promised' = TRUE /\ job[r].op = "create" /\ ~Deleting
               /\ \/ Exists /\ object' = object
                  \/ pc[r] = "post" /\ object' = Created(job[r].given)
                  \/ job[r].gone
         /\ \/ standing' = standing /\ (pc[r] = "patch" => object' = object)
            \/ /\ standing' = Kept(r)
               /\ pc[r] = "patch" /\ Exists /\ object' = Patched(object, body[r])
            \/ /\ standing' = Kept(r) \cup job[r].given.members /\ job[r].op = "add"
               /\ ~Deleting /\ Exists
               /\ \/ /\ pc[r] # "patch" /\ object' = object
                     /\ job[r].given.members \subseteq object.members
                  \/ pc[r] = "patch" /\ object' = Patched(object, body[r])
<1> DEFINE Promise == promised' = promised \/ (promised' = TRUE /\ job[r].op = "create" /\ ~Deleting)
           Stand == \/ standing' = Kept(r)
                    \/ standing' = Kept(r) \cup job[r].given.members /\ job[r].op = "add" /\ ~Deleting
<1>1. ASSUME Answer(r) \/ Effective(r) PROVE Promise /\ Stand
  BY <1>1 DEF Answer, Effective, Lost, TypeInv, TypeOK
<1>0. pc[r] # "patch" => Kept(r) = standing
  BY DEF Kept
<1>2. ASSUME NEW step, Goes(r, step) PROVE UNCHANGED <<promised, standing>>
  BY <1>2 DEF Goes, Historyless
<1>3. ASSUME NEW b, Sends(r, b) PROVE UNCHANGED <<promised, standing>>
  BY <1>3 DEF Sends, Historyless
<1>4. ASSUME Fails(r) PROVE UNCHANGED <<promised, standing>>
  BY <1>4 DEF Fails, Historyless
<1>5. Active(r) /\ Fit(pc[r], job[r])
  BY StepMoves DEF TypeInv, WellFormed
<1>6. CASE EnvStep(r)
  BY <1>2, <1>4, <1>6 DEF EnvStep, EnvFind, EnvGet, EnvCheck
<1>7. CASE CreateGet(r)
  BY <1>0, <1>1, <1>2, <1>5, <1>7 DEF CreateGet, Leaves, cluster, Fit
<1>8. CASE Post(r)
  BY <1>0, <1>1, <1>2, <1>5, <1>8 DEF Post, Writes, Fit
<1>9. CASE Reread(r)
  BY <1>0, <1>1, <1>4, <1>5, <1>9 DEF Reread, Leaves, cluster, Fit
<1>10. CASE UpdateGet(r)
  BY <1>3, <1>4, <1>10 DEF UpdateGet
<1>11. CASE AddGet(r)
  BY <1>0, <1>1, <1>3, <1>4, <1>5, <1>11 DEF AddGet, Leaves, cluster, Fit
<1>12. CASE Patch(r)
  <2>1. CASE Fails(r) /\ Leaves({r})
    BY <1>4, <2>1 DEF Leaves, cluster
  <2>2. CASE Effective(r) /\ Writes(Patched(object, body[r])) /\ Exists
    <3>1. job[r].op # "create"
      BY <1>5, <1>12 DEF Patch, Fit
    <3>2. pc[r] = "patch" /\ object' = Patched(object, body[r])
      BY <1>12, <2>2 DEF Patch, Writes
    <3>3. Promise /\ Stand
      BY <1>1, <2>2
    <3> QED BY <2>2, <3>1, <3>2, <3>3
  <2> QED BY <1>12, <2>1, <2>2 DEF Patch
<1>13. CASE DeleteGet(r)
  BY <1>0, <1>1, <1>2, <1>4, <1>5, <1>13 DEF DeleteGet, Fit, DeleteOps
<1>14. CASE Remove(r)
  BY <1>0, <1>1, <1>5, <1>14 DEF Remove, Fit, DeleteOps
<1> QED BY <1>6, <1>7, <1>8, <1>9, <1>10, <1>11, <1>12, <1>13, <1>14 DEF Step, WriteStep

\* Objects and fields that StepWrites speaks of.
LEMMA ObjectTyped ==
  ASSUME TypeInv, NEW r \in Requests
  PROVE  /\ Exists => object \in Objects /\ Removed \in Objects \cup {NoObject}
         /\ job[r] \in Jobs => Created(job[r].given) \in Objects
         /\ Exists => Patched(object, body[r]) \in Objects
<1>1. Exists => object \in Objects
  BY DEF Exists, TypeInv, TypeOK
<1>2. ASSUME Exists PROVE Removed \in Objects \cup {NoObject}
  BY <1>1, <1>2 DEF Removed, Objects
<1>3. ASSUME job[r] \in Jobs PROVE Created(job[r].given) \in Objects
  BY <1>3 DEF Jobs, Bodies, Created, Objects
<1>4. ASSUME Exists PROVE Patched(object, body[r]) \in Objects
  <2>1. body[r].map \in Maps /\ body[r].members \subseteq Members
    BY DEF TypeInv, TypeOK, Bodies
  <2>2. Overlay(object.map, body[r].map) \in Maps
    BY <1>1, <1>4, <2>1, MapTypes DEF Objects
  <2> QED BY <1>1, <1>4, <2>1, <2>2 DEF Patched, Objects
<1> QED BY <1>1, <1>2, <1>3, <1>4

\* Steps that leave the target alone keep what is known of the requests they do not touch.
LEMMA OthersWellFormed ==
  ASSUME TypeInv, NEW q \in Requests, UNCHANGED target, pc'[q] = pc[q], job'[q] = job[q]
  PROVE  WellFormed(q)'
BY DEF TypeInv, WellFormed, Active, Fit

LEMMA MovesOthers ==
  ASSUME TypeInv, NEW r \in Requests, Moves(r), NEW q \in Requests, q # r
  PROVE  pc'[q] = pc[q] /\ job'[q] = job[q] /\ body'[q] = body[q]
BY DEF Moves, TypeInv, TypeOK

LEMMA StepType ==
  ASSUME TypeInv, NEW r \in Requests, Step(r)
  PROVE  TypeInv'
<1>1. /\ Active(r) /\ Moves(r) /\ WellFormed(r)'
      /\ pc'[r] \in Steps \cup {"idle"}
      /\ body'[r] \in Bodies /\ faults' \in 0..MaxFaults
      /\ UNCHANGED <<target, deployed>>
  BY StepMoves
<1>2. job[r] \in Jobs
  BY <1>1 DEF TypeInv, WellFormed
<1>3. object' \in Objects \cup {NoObject} /\ current' \subseteq Requests
  BY <1>2, StepWrites, ObjectTyped DEF TypeInv, TypeOK
<1>4. promised' \in BOOLEAN /\ standing' \subseteq Members
  <2>1. job[r].given.members \subseteq Members
    BY <1>2 DEF Jobs, Bodies
  <2>2. promised' = promised \/ promised' = TRUE
    BY StepHistory
  <2>3. standing' \subseteq standing \cup job[r].given.members
    BY StepHistory DEF Kept
  <2> QED BY <2>1, <2>2, <2>3 DEF TypeInv, TypeOK
<1>5. \A q \in Requests : WellFormed(q)'
  BY <1>1, MovesOthers, OthersWellFormed
<1>6. /\ pc' \in [Requests -> Steps \cup {"idle"}]
      /\ job' \in [Requests -> Jobs \cup {NoJob}]
      /\ body' \in [Requests -> Bodies]
  BY <1>1, <1>2 DEF Moves, TypeInv, TypeOK
<1> QED BY <1>1, <1>3, <1>4, <1>5, <1>6 DEF TypeInv, TypeOK

\* What entering a request changes.
LEMMA EntersFrame ==
  ASSUME TypeInv, NEW r \in Requests, Enters(r)
  PROVE  /\ TypeInv'
         /\ ~Active(r) /\ UNCHANGED <<cluster, body, current, faults>>
         /\ pc'[r] \in Steps \ {"patch"}
         /\ \A q \in Requests \ {r} : pc'[q] = pc[q] /\ job'[q] = job[q]
         /\ promised' = (promised /\ job'[r].op \notin DeleteOps)
         /\ standing' = IF job'[r].op \in DeleteOps THEN {} ELSE standing
<1>1. PICK step \in Steps, j \in Jobs : Fit(step, j) /\ step # "patch" /\ Ask(r, step, j)
  BY DEF Enters
<1>2. /\ ~Active(r) /\ UNCHANGED <<cluster, body, current, faults>>
      /\ pc' = [pc EXCEPT ![r] = step] /\ job' = [job EXCEPT ![r] = j]
      /\ promised' = (promised /\ j.op \notin DeleteOps)
      /\ standing' = IF j.op \in DeleteOps THEN {} ELSE standing
  BY <1>1 DEF Ask
<1>3. pc'[r] = step /\ job'[r] = j
  BY <1>2 DEF TypeInv, TypeOK
<1>4. \A q \in Requests \ {r} : pc'[q] = pc[q] /\ job'[q] = job[q]
  BY <1>2 DEF TypeInv, TypeOK
<1>5. WellFormed(r)'
  BY <1>1, <1>2, <1>3 DEF WellFormed, Fit, cluster
<1>6. \A q \in Requests : WellFormed(q)'
  BY <1>2, <1>4, <1>5, OthersWellFormed DEF cluster
<1>7. TypeOK'
  BY <1>1, <1>2 DEF TypeInv, TypeOK, cluster
<1> QED BY <1>1, <1>2, <1>3, <1>4, <1>6, <1>7 DEF TypeInv

\* Requests that are dropped leave the object as it is.
LEMMA DroppedFrame ==
  ASSUME TypeInv, NEW q \in SUBSET Requests, Dropped(q), Leaves(q)
  PROVE  /\ TypeInv'
         /\ UNCHANGED <<cluster, promised, standing>> /\ current' = current \ q
         /\ faults' # faults
         /\ \A r \in Requests :
              \/ pc'[r] = "idle"
              \/ r \notin q /\ pc'[r] = pc[r] /\ job'[r] = job[r] /\ body'[r] = body[r]
<1>1. /\ End(q) /\ UNCHANGED <<cluster, promised, standing>> /\ current' = current \ q
      /\ faults < MaxFaults /\ faults' = faults + 1
  BY DEF Dropped, Leaves, Historyless
<1>2. \A r \in Requests :
        \/ pc'[r] = "idle"
        \/ r \notin q /\ pc'[r] = pc[r] /\ job'[r] = job[r] /\ body'[r] = body[r]
  BY <1>1, EndTyped DEF TypeInv
<1>3. faults' \in 0..MaxFaults /\ faults' # faults
  BY <1>1, FaultsAssumption DEF TypeInv, TypeOK
<1>4. TypeOK'
  BY <1>1, <1>3, EndTyped DEF TypeInv, TypeOK, cluster
<1>5. \A r \in Requests : WellFormed(r)'
  BY <1>1, <1>2, OthersWellFormed DEF WellFormed, Active, cluster
<1> QED BY <1>1, <1>2, <1>3, <1>4, <1>5 DEF TypeInv

\* What the cluster does by itself.
LEMMA ClusterFrame ==
  ASSUME TypeInv, ClusterStep
  PROVE  /\ TypeInv'
         /\ UNCHANGED <<target, pc, job, body, faults, promised, standing>>
         /\ \/ object' = object /\ current' = current
            \/ Exists /\ object.leaving /\ object' = NoObject /\ current' = {}
            \/ /\ target.kind = "job" /\ Exists /\ current' = {}
               /\ object' = [object EXCEPT !.leaving = TRUE]
<1>1. /\ UNCHANGED <<target, pc, job, body, faults, promised, standing>>
      /\ deployed' \in BOOLEAN
      /\ \/ object' = object /\ current' = current
         \/ Exists /\ object.leaving /\ object' = NoObject /\ current' = {}
         \/ /\ target.kind = "job" /\ Exists /\ current' = {}
            /\ object' = [object EXCEPT !.leaving = TRUE]
  BY DEF ClusterStep, Vanish, Expire, Deploys, Writes, Historyless, TypeInv, TypeOK
<1>0. object' \in Objects \cup {NoObject}
  <2>1. Exists => object \in Objects
    BY DEF Exists, TypeInv, TypeOK
  <2> QED BY <1>1, <2>1 DEF Exists, Objects, TypeInv, TypeOK
<1>2. TypeOK'
  BY <1>0, <1>1 DEF TypeInv, TypeOK
<1>3. \A r \in Requests : WellFormed(r)'
  BY <1>1, OthersWellFormed
<1> QED BY <1>1, <1>2, <1>3 DEF TypeInv

LEMMA StutterType == TypeInv /\ UNCHANGED vars => TypeInv'
BY DEF vars, cluster, TypeInv, TypeOK, WellFormed, Active, Fit

\* The steps of the system, as the invariants need to know them.
LEMMA NextCases ==
  ASSUME TypeInv, [Next]_vars,
         NEW P,
         \A r \in Requests : Step(r) => P,
         \A r \in Requests : Enters(r) => P,
         \A q \in SUBSET Requests : Dropped(q) /\ Leaves(q) => P,
         ClusterStep => P,
         UNCHANGED vars => P
  PROVE  P
<1>1. ASSUME NEW r \in Requests, Call(r) PROVE P
  BY <1>1, CallEnters
<1>2. ASSUME NEW r \in Requests, CallFails(r) PROVE P
  BY <1>2 DEF CallFails
<1>3. CASE Crash
  BY <1>3 DEF Crash
<1> QED BY <1>1, <1>2, <1>3 DEF Next

LEMMA NextType == TypeInv /\ [Next]_vars => TypeInv'
BY NextCases, StepType, EntersFrame, DroppedFrame, ClusterFrame, StutterType

THEOREM TypeInvariance == Spec => []TypeInv
BY InitTypeInv, NextType, PTL DEF Spec

\* Every reachable state of ResourceManagers is well typed.
THEOREM TypeCorrect == Spec => []TypeOK
<1>1. TypeInv => TypeOK
  BY DEF TypeInv
<1> QED BY <1>1, TypeInvariance, PTL

-----------------------------------------------------------------------------
(* Creations. *)

\* A deletion that is in flight after a step of r was so before.
LEMMA StepDeleting ==
  ASSUME TypeInv, NEW r \in Requests, Step(r), Deleting'
  PROVE  Deleting
<1>1. PICK q \in Requests : Active(q)' /\ job'[q].op \in DeleteOps
  BY DEF Deleting
<1>2. Active(q) /\ job'[q] = job[q]
  BY <1>1, StepMoves, MovesOthers DEF Moves, Active
<1> QED BY <1>1, <1>2 DEF Deleting

\* A removal is made by a deletion in flight.
LEMMA RemovalDeletes ==
  ASSUME TypeInv, NEW r \in Requests, pc[r] = "remove"
  PROVE  Deleting
BY DEF TypeInv, WellFormed, Active, Fit, Deleting

LEMMA LeavingKept ==
  ASSUME TypeInv, NEW r \in Requests, Step(r),
         (Exists /\ object.leaving) => target.kind \in Graceful
  PROVE  (Exists' /\ object'.leaving) => target'.kind \in Graceful
<1>1. UNCHANGED target /\ job[r] \in Jobs
  BY StepMoves DEF TypeInv, WellFormed
<1>2. ~Created(job[r].given).leaving
  BY DEF Created
<1>3. Exists => Patched(object, body[r]).leaving = object.leaving
  BY DEF Patched, Exists, TypeInv, TypeOK, Objects
<1>4. Removed # NoObject => target.kind \in Graceful
  BY DEF Removed
<1> QED BY <1>1, <1>2, <1>3, <1>4, StepWrites DEF Exists

LEMMA StepPromise ==
  ASSUME TypeInv, PromiseInv, NEW r \in Requests, Step(r)
  PROVE  PromiseInv'
<1>1. /\ UNCHANGED target /\ Active(r) /\ job[r] \in Jobs
      /\ (job[r].op = "create" /\ job[r].gone) => target.kind \in {"namespace", "vpa"}
  BY StepMoves DEF TypeInv, WellFormed, Fit
<1>2. Deleting' => ~promised'
  BY StepDeleting, StepHistory DEF PromiseInv
<1>3. (Exists' /\ object'.leaving) => target'.kind \in Graceful
  BY LeavingKept DEF PromiseInv
<1>4. Created(job[r].given) # NoObject /\ (Exists => Patched(object, body[r]) # NoObject)
  BY <1>1, ObjectTyped, AbsentAssumption
<1>5. ASSUME promised', target.kind \notin Graceful \cup {"vpa"}
      PROVE  object' # NoObject
  <2>1. CASE promised
    <3>1. Exists /\ ~Deleting
      BY <1>5, <2>1 DEF PromiseInv, CreationsStand
    <3>2. pc[r] # "remove"
      BY <3>1, RemovalDeletes
    <3> QED BY <1>4, <3>1, <3>2, StepWrites DEF Exists
  <2>2. CASE ~promised
    <3>1. ~(job[r].op = "create" /\ job[r].gone)
      BY <1>1, <1>5 DEF Graceful
    <3> QED BY <1>4, <1>5, <2>2, <3>1, StepHistory DEF Exists
  <2> QED BY <2>1, <2>2
<1> QED BY <1>1, <1>2, <1>3, <1>5 DEF PromiseInv, CreationsStand, Exists

LEMMA NextPromise == TypeInv /\ PromiseInv /\ [Next]_vars => PromiseInv'
<1> SUFFICES ASSUME TypeInv, PromiseInv, [Next]_vars PROVE PromiseInv'
  OBVIOUS
<1>1. ASSUME NEW r \in Requests, Enters(r) PROVE PromiseInv'
  <2>1. /\ UNCHANGED <<target, object>>
        /\ promised' = (promised /\ job'[r].op \notin DeleteOps)
        /\ \A q \in Requests \ {r} : pc'[q] = pc[q] /\ job'[q] = job[q]
    BY <1>1, EntersFrame DEF cluster
  <2>2. Deleting' => ~promised'
    BY <2>1 DEF PromiseInv, Deleting, Active
  <2> QED BY <2>1, <2>2 DEF PromiseInv, CreationsStand, Exists
<1>2. ASSUME NEW q \in SUBSET Requests, Dropped(q), Leaves(q) PROVE PromiseInv'
  <2>1. UNCHANGED <<target, object, promised>>
    BY <1>2, DroppedFrame DEF cluster
  <2>2. Deleting' => Deleting
    BY <1>2, DroppedFrame DEF Deleting, Active
  <2> QED BY <2>1, <2>2 DEF PromiseInv, CreationsStand, Exists
<1>3. CASE ClusterStep
  <2>1. /\ UNCHANGED <<target, pc, job, promised>>
        /\ \/ object' = object
           \/ Exists /\ object.leaving /\ object' = NoObject
           \/ target.kind = "job" /\ Exists
    BY <1>3, ClusterFrame
  <2>2. Deleting' = Deleting
    BY <2>1 DEF Deleting, Active
  <2>3. "job" \in Graceful
    BY DEF Graceful
  <2> QED BY <2>1, <2>2, <2>3 DEF PromiseInv, CreationsStand, Exists
<1>4. CASE UNCHANGED vars
  BY <1>4 DEF vars, cluster, PromiseInv, CreationsStand, Exists, Deleting, Active
<1> QED BY <1>1, <1>2, <1>3, <1>4, StepPromise, NextCases

\* What a manager has answered to have created is there until a deletion is asked for.
THEOREM CreationsAreKept == Spec => []CreationsStand
<1>1. Init => PromiseInv
  BY DEF Init, PromiseInv, CreationsStand, Exists, Deleting, Active
<1>2. PromiseInv => CreationsStand
  BY DEF PromiseInv
<1> QED BY <1>1, <1>2, NextPromise, TypeInvariance, PTL DEF Spec

-----------------------------------------------------------------------------
(* Additions. *)

\* What a step of a request still knows of the object it has seen.
LEMMA StepCurrent ==
  ASSUME TypeInv, NEW r \in Requests, Step(r), NEW q \in Requests, q # r, q \in current'
  PROVE  q \in current /\ object' = object
BY StepWrites

\* What an addition sends.
LEMMA StepSends ==
  ASSUME TypeInv, NEW r \in Requests, Step(r), pc'[r] = "patch", job'[r].op = "add"
  PROVE  /\ Exists /\ object' = object
         /\ body'[r].members = object.members \cup job'[r].given.members
<1>1. /\ Active(r) /\ Fit(pc[r], job[r]) /\ Moves(r)
  BY StepMoves DEF TypeInv, WellFormed
<1>2. job'[r] = job[r] /\ job[r].op = "add"
  BY <1>1 DEF Moves
<1>3. pc[r] \in {"add_get", "patch"}
  BY <1>1, <1>2 DEF Fit, DeleteOps, Active, TypeInv, TypeOK, Steps, EnvSteps, WriteSteps
<1>4. ~Patch(r)
  BY Ends DEF Patch, TypeInv
<1>5. AddGet(r)
  BY <1>3, <1>4 DEF Step, EnvStep, WriteStep, EnvFind, EnvGet, EnvCheck, CreateGet,
     Post, Reread, UpdateGet, DeleteGet, Remove
<1>6. /\ Exists /\ Looks(r)
      /\ Sends(r, [NoBody EXCEPT !.members = object.members \cup job[r].given.members])
  BY <1>5, Ends DEF AddGet, TypeInv
<1>7. body'[r] = [NoBody EXCEPT !.members = object.members \cup job[r].given.members]
  BY <1>6 DEF Sends, TypeInv, TypeOK
<1> QED BY <1>2, <1>6, <1>7 DEF NoBody, Looks, cluster

LEMMA StepStanding ==
  ASSUME TypeInv, StandingInv, NEW r \in Requests, Step(r)
  PROVE  StandingInv'
<1>1. /\ UNCHANGED target /\ Active(r) /\ job[r] \in Jobs /\ body[r] \in Bodies
      /\ Fit(pc[r], job[r]) /\ Moves(r)
  BY StepMoves DEF TypeInv, TypeOK, WellFormed
<1>2. standing' \subseteq standing \/ (~Deleting /\ job[r].op = "add" /\ target.field \in Lists)
  BY <1>1, StepHistory DEF Kept, Fit
<1>3. Deleting' => standing' = {}
  BY <1>2, StepDeleting DEF StandingInv
<1>4. (Exists' /\ object'.leaving) => target'.kind \in Graceful
  BY LeavingKept DEF StandingInv
<1>5. standing' # {} => target'.field \in Lists
  BY <1>1, <1>2 DEF StandingInv
<1>6. ASSUME NEW q \in Requests, pc'[q] = "patch", job'[q].op = "add"
      PROVE  /\ job'[q].given.members \subseteq body'[q].members
             /\ q \in current' => Exists' /\ object'.members \subseteq body'[q].members
  <2>1. CASE q # r
    BY <1>1, <1>6, <2>1, MovesOthers, StepCurrent DEF StandingInv, Exists
  <2>2. CASE q = r
    BY <1>6, <2>2, StepSends DEF Exists
  <2> QED BY <2>1, <2>2
<1>7. ASSUME Exists
      PROVE  Patched(object, body[r]) # NoObject /\ Patched(object, body[r]).members =
               IF target.field \in Lists THEN body[r].members ELSE object.members
  <2>1. object \in Objects /\ Patched(object, body[r]) \in Objects
    BY <1>7, ObjectTyped
  <2> QED BY <2>1, AbsentAssumption DEF Patched, Objects
<1>8. ASSUME pc[r] = "patch", target.field \in Lists
      PROVE  /\ job[r].op = "add" /\ job[r].given.members \subseteq body[r].members
             /\ Kept(r) \subseteq body[r].members
  <2>1. job[r].op = "add"
    BY <1>1, <1>8 DEF Fit
  <2>2. /\ job[r].given.members \subseteq body[r].members
        /\ r \in current => Exists /\ object.members \subseteq body[r].members
    BY <1>8, <2>1 DEF StandingInv
  <2> QED BY <1>8, <2>1, <2>2 DEF Kept, StandingInv, AdditionsStand
<1>9. AdditionsStand'
  <2>1. CASE standing' = standing /\ (pc[r] = "patch" => object' = object)
    <3>1. CASE standing = {}
      BY <2>1, <3>1 DEF AdditionsStand
    <3>2. CASE standing # {}
      <4>1. Exists /\ pc[r] # "remove" /\ standing \subseteq object.members
        BY <3>2, RemovalDeletes DEF StandingInv, AdditionsStand
      <4>2. object' = object
        BY <2>1, <4>1, StepWrites
      <4> QED BY <2>1, <4>1, <4>2 DEF AdditionsStand, Exists
    <3> QED BY <3>1, <3>2
  <2>2. CASE pc[r] = "patch" /\ Exists /\ object' = Patched(object, body[r])
    <3>1. CASE target.field \in Lists
      <4>1. object' # NoObject /\ object'.members = body[r].members
        BY <1>7, <2>2, <3>1
      <4>2. standing' \subseteq body[r].members
        <5>1. \/ standing' = standing /\ object' = object
              \/ standing' \subseteq Kept(r) \cup job[r].given.members
          BY <2>2, StepHistory
        <5>2. object' = object => standing \subseteq body[r].members
          BY <2>2, <4>1 DEF StandingInv, AdditionsStand
        <5> QED BY <1>8, <2>2, <3>1, <5>1, <5>2
      <4> QED BY <4>1, <4>2 DEF AdditionsStand, Exists
    <3>2. CASE target.field \notin Lists
      BY <1>1, <1>5, <3>2 DEF AdditionsStand
    <3> QED BY <3>1, <3>2
  <2>3. CASE /\ standing' = Kept(r) \cup job[r].given.members /\ Exists
             /\ pc[r] # "patch" /\ object' = object
             /\ job[r].given.members \subseteq object.members
    <3>1. Kept(r) \subseteq object.members
      BY <2>3 DEF Kept, StandingInv, AdditionsStand
    <3> QED BY <2>3, <3>1 DEF AdditionsStand, Exists
  <2> QED BY <2>1, <2>2, <2>3, StepHistory
<1> QED BY <1>3, <1>4, <1>5, <1>6, <1>9 DEF StandingInv

LEMMA NextStanding == TypeInv /\ StandingInv /\ [Next]_vars => StandingInv'
<1> SUFFICES ASSUME TypeInv, StandingInv, [Next]_vars PROVE StandingInv'
  OBVIOUS
<1>1. ASSUME NEW r \in Requests, Enters(r) PROVE StandingInv'
  <2>1. /\ UNCHANGED <<target, object, body, current>>
        /\ standing' = IF job'[r].op \in DeleteOps THEN {} ELSE standing
        /\ pc'[r] # "patch"
        /\ \A q \in Requests \ {r} : pc'[q] = pc[q] /\ job'[q] = job[q]
    BY <1>1, EntersFrame DEF cluster
  <2>2. Deleting' => standing' = {}
    BY <2>1 DEF StandingInv, Deleting, Active
  <2> QED BY <2>1, <2>2 DEF StandingInv, AdditionsStand, Exists
<1>2. ASSUME NEW q \in SUBSET Requests, Dropped(q), Leaves(q) PROVE StandingInv'
  <2>1. UNCHANGED <<target, object, standing>> /\ current' = current \ q
    BY <1>2, DroppedFrame DEF cluster
  <2>2. Deleting' => Deleting
    BY <1>2, DroppedFrame DEF Deleting, Active
  <2>3. \A r \in Requests :
          pc'[r] = "patch" => pc[r] = "patch" /\ job'[r] = job[r] /\ body'[r] = body[r]
    BY <1>2, DroppedFrame
  <2> QED BY <2>1, <2>2, <2>3 DEF StandingInv, AdditionsStand, Exists
<1>3. CASE ClusterStep
  <2>1. /\ UNCHANGED <<target, pc, job, body, standing>>
        /\ \/ object' = object /\ current' = current
           \/ Exists /\ object.leaving /\ object' = NoObject /\ current' = {}
           \/ /\ target.kind = "job" /\ Exists /\ current' = {}
              /\ object' = [object EXCEPT !.leaving = TRUE]
    BY <1>3, ClusterFrame
  <2>2. Deleting' = Deleting
    BY <2>1 DEF Deleting, Active
  <2>3. target.kind \in Graceful => standing = {}
    BY TargetFacts DEF StandingInv, TypeInv, TypeOK
  <2>4. "job" \in Graceful
    BY DEF Graceful
  <2> QED BY <2>1, <2>2, <2>3, <2>4 DEF StandingInv, AdditionsStand, Exists
<1>4. CASE UNCHANGED vars
  BY <1>4 DEF vars, cluster, StandingInv, AdditionsStand, Exists, Deleting, Active
<1> QED BY <1>1, <1>2, <1>3, <1>4, StepStanding, NextCases

\* A subject or a pull secret whose addition was answered stays until a deletion is
\* asked for or an addition made from an outdated list takes effect.
THEOREM AdditionsAreKept == Spec => []AdditionsStand
<1>1. Init => StandingInv
  BY DEF Init, StandingInv, AdditionsStand, Exists, Deleting, Active
<1>2. StandingInv => AdditionsStand
  BY DEF StandingInv
<1> QED BY <1>1, <1>2, NextStanding, TypeInvariance, PTL DEF Spec

-----------------------------------------------------------------------------
(* Patches. *)

LEMMA OverlayKeeps ==
  ASSUME NEW a \in Maps, NEW b \in Maps
  PROVE  /\ Overlay(a, Overlay(a, b)) = Overlay(a, b)
         /\ Overlay(Overlay(a, b), b) = Overlay(a, b)
         /\ Overlay(b, b) = b
         /\ \A k \in Keys : b[k] = Unset => Overlay(a, b)[k] = a[k]
BY DEF Overlay, Maps

LEMMA StepVersion ==
  ASSUME TypeInv, VersionInv, NEW r \in Requests, Step(r)
  PROVE  VersionInv'
<1>1. /\ Active(r) /\ Moves(r) /\ UNCHANGED target
      /\ Fit(pc[r], job[r]) /\ job[r] \in Jobs
  BY StepMoves DEF TypeInv, WellFormed
<1>2. ASSUME NEW q \in Requests, q # r
      PROVE  /\ q \in current' => q \in current /\ object' = object
             /\ pc'[q] = pc[q] /\ job'[q] = job[q] /\ body'[q] = body[q]
  BY <1>1, <1>2, StepCurrent, MovesOthers
<1>3. ASSUME Answer(r) \/ Fails(r) \/ Effective(r) PROVE pc'[r] = "idle"
  BY <1>3, Ends DEF TypeInv
<1>4. ASSUME NEW step \in Steps, Goes(r, step)
      PROVE  pc'[r] = step /\ job'[r] = job[r] /\ body'[r] = body[r]
  BY <1>4 DEF Goes, TypeInv, TypeOK
<1>5. ASSUME NEW b, Sends(r, b)
      PROVE  pc'[r] = "patch" /\ job'[r] = job[r] /\ body'[r] = b
  BY <1>5 DEF Sends, TypeInv, TypeOK
<1> DEFINE Known ==
      /\ r \in current' =>
           /\ pc'[r] \in {"create_get", "post", "update_get", "patch"}
           /\ pc'[r] \in {"create_get", "post"} => ~Exists'
           /\ pc'[r] \in {"update_get", "patch"} => Exists'
           /\ (pc'[r] = "patch" /\ job'[r].merge) =>
                body'[r].map = Overlay(object'.map, job'[r].given.map)
      /\ (pc'[r] = "patch" /\ ~job'[r].merge) => body'[r].map = job'[r].given.map
<1>6. {"env_get", "env_check", "create_get", "post", "reread", "update_get", "patch",
       "delete_get", "remove"} \subseteq Steps
  BY DEF Steps, EnvSteps, WriteSteps
<1>7. Known
  <2>1. ASSUME Leaves({r}), pc'[r] # "patch" PROVE Known
    BY <2>1 DEF Leaves
  <2>2. ASSUME Writes(object'), pc'[r] = "idle" PROVE Known
    BY <2>2 DEF Writes
  <2>3. CASE EnvStep(r)
    <3>1. CASE EnvGet(r)
      BY <1>4, <1>6, <3>1 DEF EnvGet, Looks, cluster, Exists
    <3>2. CASE EnvFind(r) \/ EnvCheck(r)
      BY <1>3, <1>4, <1>6, <2>1, <3>2 DEF EnvFind, EnvCheck
    <3> QED BY <2>3, <3>1, <3>2 DEF EnvStep
  <2>4. CASE CreateGet(r)
    BY <1>3, <1>4, <1>6, <2>1, <2>4 DEF CreateGet, Looks, cluster, Exists
  <2>5. CASE Post(r)
    BY <1>3, <1>4, <1>6, <2>1, <2>2, <2>5 DEF Post, Writes
  <2>6. CASE Reread(r) \/ DeleteGet(r)
    BY <1>3, <1>4, <1>6, <2>1, <2>6 DEF Reread, DeleteGet
  <2>7. CASE Patch(r) \/ Remove(r)
    BY <1>3, <2>1, <2>2, <2>7 DEF Patch, Remove, Writes
  <2>8. CASE UpdateGet(r)
    <3>1. CASE Exists
      <4>1. Sends(r, [job[r].given EXCEPT !.map = Merged(job[r])]) /\ Looks(r)
        BY <2>8, <3>1 DEF UpdateGet
      <4>2. /\ pc'[r] = "patch" /\ job'[r] = job[r]
            /\ body'[r] = [job[r].given EXCEPT !.map = Merged(job[r])]
        BY <1>5, <4>1
      <4>3. body'[r].map = Merged(job[r])
        BY <1>1, <4>2 DEF Jobs, Bodies
      <4> QED BY <3>1, <4>1, <4>2, <4>3 DEF Merged, Looks, cluster, Exists
    <3>2. CASE ~Exists
      BY <1>3, <2>1, <2>8, <3>2 DEF UpdateGet
    <3> QED BY <3>1, <3>2
  <2>9. CASE AddGet(r)
    <3>1. job[r].op = "add" /\ ~job[r].merge /\ job[r].given.map = Empty
      BY <1>1, <2>9 DEF AddGet, Fit
    <3>2. CASE Answer(r) \/ Fails(r)
      <4>1. pc'[r] = "idle"
        BY <1>3, <3>2
      <4>2. Leaves({r})
        BY <1>5, <2>9, <4>1 DEF AddGet
      <4> QED BY <2>1, <4>1, <4>2
    <3>3. CASE ~(Answer(r) \/ Fails(r))
      <4>1. /\ Sends(r, [NoBody EXCEPT !.members = object.members \cup job[r].given.members])
            /\ Looks(r) /\ Exists
        BY <2>9, <3>3 DEF AddGet
      <4>2. /\ pc'[r] = "patch" /\ job'[r] = job[r]
            /\ body'[r] = [NoBody EXCEPT !.members = object.members \cup job[r].given.members]
        BY <1>5, <4>1
      <4>3. body'[r].map = Empty
        BY <4>2 DEF NoBody
      <4> QED BY <3>1, <4>1, <4>2, <4>3 DEF Looks, cluster, Exists
    <3> QED BY <3>2, <3>3
  <2> QED BY <2>3, <2>4, <2>5, <2>6, <2>7, <2>8, <2>9 DEF Step, WriteStep
<1> QED BY <1>2, <1>7 DEF VersionInv, Exists

LEMMA NextVersion == TypeInv /\ VersionInv /\ [Next]_vars => VersionInv'
<1> SUFFICES ASSUME TypeInv, VersionInv, [Next]_vars PROVE VersionInv'
  OBVIOUS
<1>1. ASSUME NEW r \in Requests, Enters(r) PROVE VersionInv'
  <2>1. /\ UNCHANGED <<object, body, current>> /\ ~Active(r) /\ pc'[r] # "patch"
        /\ \A q \in Requests \ {r} : pc'[q] = pc[q] /\ job'[q] = job[q]
    BY <1>1, EntersFrame DEF cluster
  <2>2. r \notin current
    BY <2>1 DEF VersionInv, Active
  <2> QED BY <2>1, <2>2 DEF VersionInv, Exists
<1>2. ASSUME NEW q \in SUBSET Requests, Dropped(q), Leaves(q) PROVE VersionInv'
  <2>1. UNCHANGED object /\ current' = current \ q
    BY <1>2, DroppedFrame DEF cluster
  <2>2. \A r \in Requests \ q : pc'[r] = pc[r] /\ job'[r] = job[r] /\ body'[r] = body[r]
    BY <1>2, EndTyped DEF Dropped, TypeInv
  <2>3. \A r \in q : pc'[r] = "idle"
    BY <1>2, EndTyped DEF Dropped, TypeInv
  <2> QED BY <2>1, <2>2, <2>3 DEF VersionInv, Exists
<1>3. CASE ClusterStep
  BY <1>3, ClusterFrame DEF VersionInv, Exists
<1>4. CASE UNCHANGED vars
  BY <1>4 DEF vars, cluster, VersionInv, Exists
<1> QED BY <1>1, <1>2, <1>3, <1>4, StepVersion, NextCases

THEOREM VersionInvariance == Spec => []VersionInv
<1>1. Init => VersionInv
  BY DEF Init, VersionInv
<1> QED BY <1>1, NextVersion, TypeInvariance, PTL DEF Spec

\* What a patch makes of the map.
LEMMA PatchedMap ==
  ASSUME TypeInv, VersionInv, NEW r \in Requests, Exists, pc[r] = "patch"
  PROVE  LET given == job[r].given.map
             patched == Patched(object, body[r]) IN
    /\ patched # NoObject /\ given \in Maps /\ object.map \in Maps
    /\ patched.map = Overlay(object.map, body[r].map)
    /\ (r \in current \/ ~job[r].merge) => patched.map = Overlay(object.map, given)
<1>1. job[r] \in Jobs /\ job[r].given.map \in Maps
  BY DEF TypeInv, WellFormed, Active, Jobs, Bodies
<1>2. object \in Objects /\ Patched(object, body[r]) \in Objects
  BY ObjectTyped
<1>3. Patched(object, body[r]).map = Overlay(object.map, body[r].map)
  BY <1>2 DEF Patched, Objects
<1>4. ASSUME r \in current \/ ~job[r].merge
      PROVE  Overlay(object.map, body[r].map) = Overlay(object.map, job[r].given.map)
  <2>1. CASE job[r].merge
    <3>1. body[r].map = Overlay(object.map, job[r].given.map)
      BY <1>4, <2>1 DEF VersionInv
    <3> QED BY <1>1, <1>2, <3>1, OverlayKeeps DEF Objects
  <2>2. CASE ~job[r].merge
    BY <2>2 DEF VersionInv
  <2> QED BY <2>1, <2>2
<1>5. Patched(object, body[r]) # NoObject /\ object.map \in Maps
  BY <1>2, AbsentAssumption DEF Objects
<1> QED BY <1>1, <1>3, <1>4, <1>5

\* A merging update leaves keys its request did not name, unless it writes back what it
\* read of a map that is out of date; that of a namespace even then.
THEOREM UnnamedKeysAreKept == Spec => UnnamedKeysSurvive
<1> DEFINE Spared(r, k) ==
      (PatchBy(r) /\ job[r].merge /\ job[r].given.map[k] = Unset) =>
        \/ object'.map[k] = object.map[k]
        \/ /\ target.kind # "namespace" /\ r \notin current
           /\ body[r].map[k] # Unset /\ object'.map[k] = body[r].map[k]
<1>1. TypeInv /\ VersionInv /\ [Next]_vars => [\A r \in Requests, k \in Keys : Spared(r, k)]_vars
  <2> SUFFICES ASSUME TypeInv, VersionInv, [Next]_vars, NEW r \in Requests, NEW k \in Keys
               PROVE  Spared(r, k)
    OBVIOUS
  <2>1. ASSUME NEW q \in Requests, Step(q) PROVE Spared(r, k)
    <3>1. CASE q # r
      BY <2>1, <3>1, StepMoves, MovesOthers DEF PatchBy
    <3>2. CASE q = r
      <4> SUFFICES ASSUME PatchBy(r), job[r].merge, job[r].given.map[k] = Unset
                   PROVE  \/ object'.map[k] = object.map[k]
                          \/ /\ target.kind # "namespace" /\ r \notin current
                             /\ body[r].map[k] # Unset /\ object'.map[k] = body[r].map[k]
        OBVIOUS
      <4>1. /\ pc[r] = "patch" /\ Exists /\ object' = Patched(object, body[r])
            /\ target.kind = "namespace" => r \in current
        BY <2>1, <3>2, StepWrites DEF PatchBy
      <4>2. CASE r \in current
        BY <4>1, <4>2, PatchedMap, OverlayKeeps
      <4>3. CASE r \notin current
        <5>1. object'.map = Overlay(object.map, body[r].map)
          BY <4>1, PatchedMap
        <5>2. object'.map[k] = IF body[r].map[k] # Unset THEN body[r].map[k] ELSE object.map[k]
          BY <5>1 DEF Overlay
        <5> QED BY <4>1, <4>3, <5>2
      <4> QED BY <4>2, <4>3
    <3> QED BY <3>1, <3>2
  <2>2. ASSUME object' = object \/ pc'[r] = pc[r] PROVE Spared(r, k)
    BY <2>2 DEF PatchBy
  <2>3. ASSUME NEW q \in Requests, Enters(q) PROVE Spared(r, k)
    BY <2>2, <2>3, EntersFrame DEF cluster
  <2>4. ASSUME NEW q \in SUBSET Requests, Dropped(q), Leaves(q) PROVE Spared(r, k)
    BY <2>2, <2>4, DroppedFrame DEF cluster
  <2>5. CASE ClusterStep
    BY <2>2, <2>5, ClusterFrame
  <2>6. CASE UNCHANGED vars
    BY <2>2, <2>6 DEF vars, cluster
  <2> HIDE DEF Spared
  <2> QED BY <2>1, <2>3, <2>4, <2>5, <2>6, NextCases
<1> QED BY <1>1, VersionInvariance, TypeInvariance, PTL DEF Spec, UnnamedKeysSurvive

\* Variables that were set are in the ConfigMap when the answer is given, unless
\* another request wrote since the decision.
THEOREM SetsAreDelivered == Spec => SetsDeliver
<1> DEFINE Delivered(r) == (Over(r) /\ job[r].op = "set" /\ r \in current) =>
                             /\ object' # NoObject
                             /\ Overlay(object'.map, job[r].given.map) = object'.map
<1>1. TypeInv /\ VersionInv /\ [Next]_vars => [\A r \in Requests : Delivered(r)]_vars
  <2> SUFFICES ASSUME TypeInv, VersionInv, [Next]_vars, NEW r \in Requests PROVE Delivered(r)
    OBVIOUS
  <2>1. ASSUME NEW q \in Requests, Step(q) PROVE Delivered(r)
    <3>1. CASE q # r
      BY <2>1, <3>1, StepMoves, MovesOthers DEF Over, Active
    <3>2. CASE q = r
      <4> SUFFICES ASSUME Over(r), job[r].op = "set", r \in current
                   PROVE  /\ object' # NoObject
                          /\ Overlay(object'.map, job[r].given.map) = object'.map
        OBVIOUS
      <4>1. /\ pc[r] \in {"create_get", "post", "update_get", "patch"}
            /\ pc[r] \in {"create_get", "post"} => ~Exists
            /\ pc[r] \in {"update_get", "patch"} => Exists
            /\ job[r] \in Jobs /\ job[r].merge /\ job[r].given.map \in Maps
        BY DEF VersionInv, TypeInv, WellFormed, Over, Fit, Jobs, Bodies
      <4>2. ASSUME NEW step \in Steps, Goes(r, step) PROVE FALSE
        <5>1. pc'[r] = step /\ "idle" \notin Steps
          BY <4>2 DEF Goes, TypeInv, TypeOK, Steps, EnvSteps, WriteSteps
        <5> QED BY <4>2, <5>1 DEF Over
      <4>3. ASSUME NEW b, Sends(r, b) PROVE FALSE
        <5>1. pc'[r] = "patch"
          BY <4>3 DEF Sends, TypeInv, TypeOK
        <5> QED BY <5>1 DEF Over
      <4>4. pc[r] \notin {"create_get", "update_get"}
        BY <2>1, <3>2, <4>1, <4>2, <4>3 DEF Step, EnvStep, WriteStep, EnvFind, EnvGet, EnvCheck,
           CreateGet, Post, Reread, UpdateGet, AddGet, Patch, DeleteGet, Remove, Steps, WriteSteps
      <4>5. CASE pc[r] = "post"
        <5>1. object' = Created(job[r].given)
          BY <2>1, <3>2, <4>1, <4>5 DEF Step, EnvStep, WriteStep, EnvFind, EnvGet, EnvCheck,
             CreateGet, Post, Reread, UpdateGet, AddGet, Patch, DeleteGet, Remove, Writes
        <5>2. object' # NoObject /\ object'.map = job[r].given.map
          BY <4>1, <5>1, ObjectTyped, AbsentAssumption DEF Created
        <5> QED BY <4>1, <5>2, OverlayKeeps
      <4>6. CASE pc[r] = "patch"
        <5>1. Exists /\ object' = Patched(object, body[r])
          BY <2>1, <3>2, <4>1, <4>6 DEF Step, EnvStep, WriteStep, EnvFind, EnvGet, EnvCheck,
             CreateGet, Post, Reread, UpdateGet, AddGet, Patch, DeleteGet, Remove, Writes
        <5> QED BY <4>6, <5>1, PatchedMap, OverlayKeeps
      <4> QED BY <4>1, <4>4, <4>5, <4>6
    <3> QED BY <3>1, <3>2
  <2>2. ASSUME faults' # faults \/ pc'[r] = pc[r] \/ ~Active(r) PROVE Delivered(r)
    BY <2>2 DEF Over, Active
  <2>3. ASSUME NEW q \in Requests, Enters(q) PROVE Delivered(r)
    BY <2>2, <2>3, EntersFrame
  <2>4. ASSUME NEW q \in SUBSET Requests, Dropped(q), Leaves(q) PROVE Delivered(r)
    BY <2>2, <2>4, DroppedFrame
  <2>5. CASE ClusterStep
    BY <2>2, <2>5, ClusterFrame
  <2>6. CASE UNCHANGED vars
    BY <2>2, <2>6 DEF vars
  <2> HIDE DEF Delivered
  <2> QED BY <2>1, <2>3, <2>4, <2>5, <2>6, NextCases
<1> QED BY <1>1, VersionInvariance, TypeInvariance, PTL DEF Spec, SetsDeliver
=============================================================================

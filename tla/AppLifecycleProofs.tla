------------------------- MODULE AppLifecycleProofs -------------------------
(***************************************************************************)
(* Theorems about AppLifecycle, for any number of apps, containers and     *)
(* concurrent requests, any workload and any number of faults: types; the  *)
(* number of calls of a request; scaling; what a deployed app runs on and  *)
(* a creation delivers; what a deletion leaves behind.  The last two need  *)
(* the clients' courtesy Serial and Drained, and claim names that are      *)
(* distinct; the last one also that the creations of an app ask for the    *)
(* same disks.                                                             *)
(***************************************************************************)
EXTENDS AppLifecycle, FiniteSetTheorems, TLAPS

TypeInv == TypeOK /\ RequestInv

\* The request r takes a step: no other request is touched.
Moves(r) ==
  /\ job' = job
  /\ pc' = [pc EXCEPT ![r] = pc'[r]]
  /\ todo' = [todo EXCEPT ![r] = todo'[r]]
  /\ cur' = [cur EXCEPT ![r] = cur'[r]]

-----------------------------------------------------------------------------
(* What the step a request is at says of its job. *)

LEMMA InitTypeInv == Init => TypeInv
BY FaultsAssumption
DEF Init, TypeInv, TypeOK, ClusterTypeOK, RequestTypeOK, HistoryTypeOK,
    RequestInv, WellFormed, Active, Steps, CreateSteps, DeleteSteps,
    ReviseSteps, AutoScaleSteps, FixedScaleSteps

LEMMA CreateJob ==
  ASSUME RequestInv, NEW r \in Requests, pc[r] \in CreateSteps
  PROVE  /\ job[r] \in CreateJobs
         /\ todo[r] \subseteq Disks(job[r])
         /\ pc[r] \in {"pvc_post", "pvc_reread"} => cur[r] \in todo[r]
         /\ pc[r] \in DeployStage => todo[r] = {}
BY DEF RequestInv, WellFormed, Active, Steps, CreateSteps, DeleteSteps,
       ReviseSteps, AutoScaleSteps, FixedScaleSteps

LEMMA DeleteJob ==
  ASSUME RequestInv, NEW r \in Requests, pc[r] \in DeleteSteps \ {"find"}
  PROVE  /\ job[r] \in DeleteJobs
         /\ pc[r] = "unmount" => cur[r] \in todo[r]
BY DEF RequestInv, WellFormed, Active, Steps, CreateSteps, DeleteSteps,
       ReviseSteps, AutoScaleSteps, FixedScaleSteps

LEMMA ReviseJob ==
  ASSUME RequestInv, NEW r \in Requests,
         pc[r] \in {"resize_read", "resize", "pvc_find", "expand_read", "expand"}
  PROVE  job[r] \in ReviseJobs
BY DEF RequestInv, WellFormed, Active, Steps, CreateSteps, DeleteSteps,
       ReviseSteps, AutoScaleSteps, FixedScaleSteps

LEMMA ScaleJob ==
  ASSUME RequestInv, NEW r \in Requests, pc[r] \in {"scale_read", "scale"}
  PROVE  /\ job[r] \in ReviseJobs \cup FixedScaleJobs
         /\ job[r].replicas \in Positive
BY DEF RequestInv, WellFormed, Active, Steps, CreateSteps, DeleteSteps,
       ReviseSteps, AutoScaleSteps, FixedScaleSteps, ReviseJobs,
       FixedScaleJobs, Positive

LEMMA HpaJob ==
  ASSUME RequestInv, NEW r \in Requests
  PROVE  /\ pc[r] \in {"hpa_read", "hpa_post", "hpa_replace"} =>
              job[r] \in AutoScaleJobs
         /\ pc[r] = "hpa_delete" => job[r] \in FixedScaleJobs
BY DEF RequestInv, WellFormed, Active, Steps, CreateSteps, DeleteSteps,
       ReviseSteps, AutoScaleSteps, FixedScaleSteps

LEMMA FindJob ==
  ASSUME RequestInv, NEW r \in Requests, pc[r] = "find"
  PROVE  job[r] \in DeleteJobs \cup ReviseJobs \cup AutoScaleJobs
                      \cup FixedScaleJobs
BY DEF RequestInv, WellFormed, Active, Steps, CreateSteps, DeleteSteps,
       ReviseSteps, AutoScaleSteps, FixedScaleSteps

LEMMA AnyJob ==
  ASSUME RequestInv, NEW r \in Requests, Active(r)
  PROVE  job[r] \in Jobs /\ job[r].app \in Apps
BY DEF RequestInv, WellFormed, Jobs, CreateJobs, DeleteJobs, ReviseJobs,
       AutoScaleJobs, FixedScaleJobs

LEMMA AnswersInactive ==
  ASSUME NEW r \in Requests, pc[r] \in Answers \cup {"idle"}
  PROVE  ~Active(r)
BY DEF Active, Answers, Steps, CreateSteps, DeleteSteps, ReviseSteps,
       AutoScaleSteps, FixedScaleSteps

-----------------------------------------------------------------------------
(* A step of one request keeps every request well formed. *)

LEMMA MovesTyped ==
  ASSUME RequestTypeOK, NEW r \in Requests, Moves(r),
         pc'[r] \in Steps \cup Answers, todo'[r] \subseteq Containers,
         cur'[r] \in Containers \cup {NoContainer}
  PROVE  RequestTypeOK'
BY DEF RequestTypeOK, Moves

LEMMA OthersWellFormed ==
  ASSUME RequestTypeOK, RequestInv, NEW r \in Requests, Moves(r), WellFormed(r)'
  PROVE  RequestInv'
BY DEF RequestTypeOK, RequestInv, WellFormed, Active, Moves, Disks

LEMMA AnsweredMoves ==
  ASSUME RequestTypeOK, RequestInv, NEW r \in Requests, Moves(r),
         pc'[r] \in Answers
  PROVE  RequestInv'
BY OthersWellFormed
DEF WellFormed, Active, Answers, Steps, CreateSteps, DeleteSteps, ReviseSteps,
    AutoScaleSteps, FixedScaleSteps

LEMMA CreateMoves ==
  ASSUME RequestTypeOK, RequestInv, NEW r \in Requests, Moves(r),
         pc[r] \in CreateSteps, pc'[r] \in CreateSteps \cup Answers,
         todo'[r] \subseteq todo[r],
         pc'[r] \in {"pvc_post", "pvc_reread"} => cur'[r] \in todo'[r],
         pc'[r] \in DeployStage => todo'[r] = {}
  PROVE  RequestInv'
<1>1. CASE pc'[r] \in Answers
  BY <1>1, AnsweredMoves
<1>2. CASE pc'[r] \in CreateSteps
  <2>1. job[r] \in CreateJobs /\ todo[r] \subseteq Disks(job[r])
    BY CreateJob
  <2>2. WellFormed(r)'
    BY <1>2, <2>1 DEF WellFormed, Active, CreateSteps, Moves, Disks
  <2> QED BY <2>2, OthersWellFormed
<1> QED BY <1>1, <1>2

LEMMA DeleteMoves ==
  ASSUME RequestTypeOK, RequestInv, NEW r \in Requests, Moves(r),
         job[r] \in DeleteJobs, pc'[r] \in DeleteSteps \cup Answers,
         pc'[r] = "unmount" => cur'[r] \in todo'[r]
  PROVE  RequestInv'
<1>1. CASE pc'[r] \in Answers
  BY <1>1, AnsweredMoves
<1>2. CASE pc'[r] \in DeleteSteps
  <2>1. WellFormed(r)'
    BY <1>2 DEF WellFormed, Active, DeleteSteps, Moves, DeployStage
  <2> QED BY <2>1, OthersWellFormed
<1> QED BY <1>1, <1>2

LEMMA ReviseMoves ==
  ASSUME RequestTypeOK, RequestInv, NEW r \in Requests, Moves(r),
         job[r] \in ReviseJobs, pc'[r] \in ReviseSteps \cup Answers,
         pc'[r] \in {"scale_read", "scale"} => job[r].replicas > 0
  PROVE  RequestInv'
<1>1. CASE pc'[r] \in Answers
  BY <1>1, AnsweredMoves
<1>2. CASE pc'[r] \in ReviseSteps
  <2>1. WellFormed(r)'
    BY <1>2 DEF WellFormed, Active, ReviseSteps, Moves, DeployStage
  <2> QED BY <2>1, OthersWellFormed
<1> QED BY <1>1, <1>2

LEMMA AutoScaleMoves ==
  ASSUME RequestTypeOK, RequestInv, NEW r \in Requests, Moves(r),
         job[r] \in AutoScaleJobs, pc'[r] \in AutoScaleSteps \cup Answers
  PROVE  RequestInv'
<1>1. CASE pc'[r] \in Answers
  BY <1>1, AnsweredMoves
<1>2. CASE pc'[r] \in AutoScaleSteps
  <2>1. WellFormed(r)'
    BY <1>2 DEF WellFormed, Active, AutoScaleSteps, Moves, DeployStage
  <2> QED BY <2>1, OthersWellFormed
<1> QED BY <1>1, <1>2

LEMMA FixedScaleMoves ==
  ASSUME RequestTypeOK, RequestInv, NEW r \in Requests, Moves(r),
         job[r] \in FixedScaleJobs, pc'[r] \in FixedScaleSteps \cup Answers
  PROVE  RequestInv'
<1>1. CASE pc'[r] \in Answers
  BY <1>1, AnsweredMoves
<1>2. CASE pc'[r] \in FixedScaleSteps
  <2>1. WellFormed(r)'
    BY <1>2 DEF WellFormed, Active, FixedScaleSteps, Moves, DeployStage
  <2> QED BY <2>1, OthersWellFormed
<1> QED BY <1>1, <1>2

-----------------------------------------------------------------------------
(* Type correctness, one lemma per operation. *)

LEMMA ReadOnlyTyped ==
  ASSUME TypeOK, UNCHANGED <<cluster, faults, history>>
  PROVE  ClusterTypeOK' /\ HistoryTypeOK'
BY DEF TypeOK, ClusterTypeOK, HistoryTypeOK, cluster, history

LEMMA AnsweredTyped ==
  ASSUME TypeOK, NEW r \in Requests, NEW s, Answered(r, s)
  PROVE  /\ faults' \in 0..MaxFaults
         /\ pc' = [pc EXCEPT ![r] = pc'[r]]
         /\ pc'[r] \in {s, AfterException(r)}
BY FaultsAssumption DEF TypeOK, HistoryTypeOK, RequestTypeOK, Answered, Await

LEMMA UnloopedMoves ==
  ASSUME RequestTypeOK, NEW r \in Requests, Unlooped,
         pc' = [pc EXCEPT ![r] = pc'[r]]
  PROVE  /\ Moves(r)
         /\ todo'[r] = todo[r] /\ todo[r] \subseteq Containers
         /\ cur'[r] = cur[r] /\ cur[r] \in Containers \cup {NoContainer}
BY DEF RequestTypeOK, Unlooped, Moves

\* The create steps that only choose the next step.
CreateRead(r) ==
  SaRead(r) \/ SaReread(r) \/ DepRead(r) \/ DepReread(r) \/ DepConflict(r)

LEMMA CreateReadType ==
  ASSUME TypeInv, NEW r \in Requests, CreateRead(r)
  PROVE  TypeInv'
<1> USE DEF TypeInv, TypeOK
<1>1. pc[r] \in CreateSteps /\ (pc[r] \in DeployStage => todo[r] = {})
  BY CreateJob DEF CreateRead, SaRead, SaReread, DepRead, DepReread,
     DepConflict, CreateSteps
<1>2. Unlooped /\ UNCHANGED <<cluster, faults, history>>
  BY DEF CreateRead, SaRead, SaReread, DepRead, DepReread, DepConflict
<1>3. /\ pc' = [pc EXCEPT ![r] = pc'[r]]
      /\ pc'[r] \in (CreateSteps \ ClaimStage) \cup {"pvc_read"} \cup Answers
      /\ pc'[r] \in DeployStage => todo[r] = {}
  BY <1>1 DEF CreateRead, SaRead, SaReread, DepRead, DepReread, DepConflict,
     Await, NextClaim, RequestTypeOK, CreateSteps, ClaimStage, DeployStage,
     Answers
<1>4. Moves(r) /\ todo'[r] = todo[r] /\ todo[r] \subseteq Containers
      /\ cur'[r] = cur[r] /\ cur[r] \in Containers \cup {NoContainer}
  BY <1>2, <1>3, UnloopedMoves
<1>5. pc'[r] \in CreateSteps \cup Answers
      /\ pc'[r] \notin {"pvc_post", "pvc_reread"}
  BY <1>3 DEF CreateSteps, ClaimStage, Answers
<1>6. RequestInv'
  BY <1>1, <1>3, <1>4, <1>5, CreateMoves
<1>7. RequestTypeOK'
  BY <1>4, <1>5, MovesTyped DEF Steps
<1> QED BY <1>2, <1>6, <1>7, ReadOnlyTyped

LEMMA SaPostType ==
  ASSUME TypeInv, NEW r \in Requests, SaPost(r)
  PROVE  TypeInv'
<1> USE DEF TypeInv, TypeOK
<1>1. pc[r] = "sa_post" /\ job[r] \in CreateJobs
  BY CreateJob DEF SaPost, CreateSteps
<1>2. /\ faults' \in 0..MaxFaults /\ pc' = [pc EXCEPT ![r] = pc'[r]]
      /\ pc'[r] \in {"sa_reread", "pvc_read", "dep_read", "failed"}
      /\ pc'[r] \in DeployStage => todo[r] = {}
  BY <1>1, AnsweredTyped DEF SaPost, Await, NextClaim, AfterException,
     RequestTypeOK, HistoryTypeOK, DeployStage
<1>3. Moves(r) /\ todo'[r] = todo[r] /\ todo[r] \subseteq Containers
      /\ cur'[r] = cur[r] /\ cur[r] \in Containers \cup {NoContainer}
  BY <1>2, UnloopedMoves DEF SaPost
<1>4. RequestInv' /\ RequestTypeOK'
  BY <1>1, <1>2, <1>3, CreateMoves, MovesTyped
  DEF CreateSteps, Answers, Steps
<1>5. ClusterTypeOK'
  BY <1>1 DEF SaPost, ClusterTypeOK, CreateJobs
<1>6. HistoryTypeOK'
  BY <1>2 DEF SaPost, HistoryTypeOK, history
<1> QED BY <1>4, <1>5, <1>6

LEMMA PvcReadType ==
  ASSUME TypeInv, NEW r \in Requests, NEW c \in Containers, PvcRead(r, c)
  PROVE  TypeInv'
<1> USE DEF TypeInv, TypeOK
<1>1. pc[r] = "pvc_read"
  BY DEF PvcRead
<1>2. /\ Moves(r)
      /\ pc'[r] \in {"pvc_read", "pvc_post", "dep_read"}
      /\ todo'[r] \subseteq todo[r] /\ todo[r] \subseteq Containers
      /\ cur'[r] = c
      /\ pc'[r] = "pvc_post" => cur'[r] \in todo'[r]
      /\ pc'[r] = "dep_read" => todo'[r] = {}
  BY <1>1 DEF PvcRead, Provisioned, Moves, Await, NextClaim, RequestTypeOK
<1>3. RequestInv' /\ RequestTypeOK'
  BY <1>1, <1>2, CreateMoves, MovesTyped
  DEF CreateSteps, Answers, Steps, DeployStage
<1> QED BY <1>3, ReadOnlyTyped DEF PvcRead

LEMMA PvcPostType ==
  ASSUME TypeInv, NEW r \in Requests, PvcPost(r)
  PROVE  TypeInv'
<1> USE DEF TypeInv, TypeOK
<1>1. /\ pc[r] = "pvc_post" /\ job[r] \in CreateJobs
      /\ cur[r] \in todo[r] /\ todo[r] \subseteq Containers
      /\ cur[r] \in Containers
  BY CreateJob DEF PvcPost, CreateSteps, RequestTypeOK
<1>2. /\ faults' \in 0..MaxFaults /\ pc' = [pc EXCEPT ![r] = pc'[r]]
      /\ pc'[r] \in {"pvc_reread", "pvc_read", "dep_read", "failed"}
      /\ pc'[r] = "dep_read" => todo'[r] = {}
      /\ pc'[r] = "pvc_reread" => todo' = todo
  BY <1>1, AnsweredTyped DEF PvcPost, Await, NextClaim, AfterException,
     RequestTypeOK, HistoryTypeOK
<1>3. /\ Moves(r) /\ todo'[r] \subseteq todo[r] /\ cur'[r] = cur[r]
  BY <1>2 DEF PvcPost, Moves, RequestTypeOK
<1>4. RequestInv' /\ RequestTypeOK'
  BY <1>1, <1>2, <1>3, CreateMoves, MovesTyped
  DEF CreateSteps, Answers, Steps, DeployStage
<1>5. ClusterTypeOK'
  BY <1>1 DEF PvcPost, ClusterTypeOK, CreateJobs
<1>6. HistoryTypeOK'
  BY <1>2 DEF PvcPost, HistoryTypeOK, history
<1> QED BY <1>4, <1>5, <1>6

LEMMA PvcRereadType ==
  ASSUME TypeInv, NEW r \in Requests, PvcReread(r)
  PROVE  TypeInv'
<1> USE DEF TypeInv, TypeOK
<1>1. /\ pc[r] = "pvc_reread" /\ todo[r] \subseteq Containers
      /\ cur[r] \in Containers \cup {NoContainer}
  BY DEF PvcReread, RequestTypeOK
<1>2. /\ Moves(r)
      /\ pc'[r] \in {"pvc_read", "failed", "dep_read"}
      /\ todo'[r] \subseteq todo[r] /\ cur'[r] = cur[r]
      /\ pc'[r] = "dep_read" => todo'[r] = {}
  BY <1>1 DEF PvcReread, Provisioned, Moves, Await, NextClaim, RequestTypeOK
<1>3. RequestInv' /\ RequestTypeOK'
  BY <1>1, <1>2, CreateMoves, MovesTyped
  DEF CreateSteps, Answers, Steps, DeployStage
<1> QED BY <1>3, ReadOnlyTyped DEF PvcReread

LEMMA DepWriteType ==
  ASSUME TypeInv, NEW r \in Requests, DepPatch(r) \/ DepPost(r)
  PROVE  TypeInv'
<1> USE DEF TypeInv, TypeOK
<1>1. /\ pc[r] \in {"dep_patch", "dep_post"} /\ todo[r] = {}
      /\ job[r] \in CreateJobs
  BY CreateJob DEF DepPatch, DepPost, CreateSteps, DeployStage
<1>2. /\ faults' \in 0..MaxFaults /\ pc' = [pc EXCEPT ![r] = pc'[r]]
      /\ pc'[r] \in {"ok", "failed", "dep_conflict"}
  BY <1>1, AnsweredTyped DEF DepPatch, DepPost, Await, NextClaim,
     AfterException, RequestTypeOK, HistoryTypeOK
<1>3. Moves(r) /\ todo'[r] = todo[r] /\ todo[r] \subseteq Containers
      /\ cur'[r] = cur[r] /\ cur[r] \in Containers \cup {NoContainer}
  BY <1>2, UnloopedMoves DEF DepPatch, DepPost
<1>4. RequestInv' /\ RequestTypeOK'
  BY <1>1, <1>2, <1>3, CreateMoves, MovesTyped
  DEF CreateSteps, Answers, Steps, DeployStage
<1>5. NewDeployment(job[r]) \in Deployments
  BY <1>1 DEF NewDeployment, Deployments, CreateJobs, Disks
<1>6. ASSUME NEW d \in Deployments PROVE Patched(d, job[r]) \in Deployments
  BY <1>1 DEF Patched, Deployments, CreateJobs
<1>7. ClusterTypeOK'
  <2>1. CASE DepPatch(r)
    BY <1>1, <1>6, <2>1 DEF DepPatch, ClusterTypeOK, CreateJobs, Deployed
  <2>2. CASE DepPost(r)
    BY <1>1, <1>5, <2>2 DEF DepPost, ClusterTypeOK, CreateJobs
  <2> QED BY <2>1, <2>2
<1>8. HistoryTypeOK'
  BY <1>2 DEF DepPatch, DepPost, HistoryTypeOK, history
<1> QED BY <1>4, <1>7, <1>8

LEMMA CreateType ==
  ASSUME TypeInv, NEW r \in Requests, CreateStep(r)
  PROVE  TypeInv'
BY CreateReadType, SaPostType, PvcReadType, PvcPostType, PvcRereadType,
   DepWriteType DEF CreateStep, CreateRead

LEMMA FindType ==
  ASSUME TypeInv, NEW r \in Requests, Find(r)
  PROVE  TypeInv'
<1> USE DEF TypeInv, TypeOK
<1>1. /\ pc[r] = "find" /\ job[r].app \in Apps
      /\ job[r] \in DeleteJobs \cup ReviseJobs \cup AutoScaleJobs
                      \cup FixedScaleJobs
  BY FindJob, AnyJob DEF Find, Active, Steps, DeleteSteps
<1>2. /\ Moves(r)
      /\ cur'[r] = cur[r] /\ cur[r] \in Containers \cup {NoContainer}
      /\ pc'[r] \in {"rejected", AfterFind(job[r])}
  BY <1>1 DEF Find, Moves, Await, RequestTypeOK
<1>3. todo'[r] \subseteq Containers
  BY <1>1 DEF Find, RequestTypeOK, ClusterTypeOK, Deployments, Deployed
<1>4. CASE job[r] \in DeleteJobs
  <2>1. pc'[r] \in {"rejected", "undeploy_read"}
    BY <1>2, <1>4 DEF AfterFind, DeleteJobs
  <2> QED BY <1>2, <1>3, <1>4, <2>1, DeleteMoves, MovesTyped, ReadOnlyTyped
          DEF Find, DeleteSteps, Answers, Steps
<1>5. CASE job[r] \in ReviseJobs
  <2>1. /\ pc'[r] \in {"rejected", "resize_read", "pvc_find", "scale_read", "ok"}
        /\ pc'[r] = "scale_read" => job[r].replicas > 0
    BY <1>2, <1>5 DEF AfterFind, AfterResize, AfterStorage, ReviseJobs
  <2> QED BY <1>2, <1>3, <1>5, <2>1, ReviseMoves, MovesTyped, ReadOnlyTyped
          DEF Find, ReviseSteps, Answers, Steps
<1>6. CASE job[r] \in AutoScaleJobs
  <2>1. pc'[r] \in {"rejected", "hpa_read"}
    BY <1>2, <1>6 DEF AfterFind, AutoScaleJobs
  <2> QED BY <1>2, <1>3, <1>6, <2>1, AutoScaleMoves, MovesTyped, ReadOnlyTyped
          DEF Find, AutoScaleSteps, Answers, Steps
<1>7. CASE job[r] \in FixedScaleJobs
  <2>1. pc'[r] \in {"rejected", "hpa_delete"}
    BY <1>2, <1>7 DEF AfterFind, FixedScaleJobs
  <2> QED BY <1>2, <1>3, <1>7, <2>1, FixedScaleMoves, MovesTyped, ReadOnlyTyped
          DEF Find, FixedScaleSteps, Answers, Steps
<1> QED BY <1>1, <1>4, <1>5, <1>6, <1>7

-----------------------------------------------------------------------------
(* Deletion. *)

LEMMA UndeployType ==
  ASSUME TypeInv, NEW r \in Requests, UndeployRead(r) \/ Undeploy(r) \/ Unbind(r)
  PROVE  TypeInv'
<1> USE DEF TypeInv, TypeOK
<1>1. /\ pc[r] \in {"undeploy_read", "undeploy", "unbind"}
      /\ job[r] \in DeleteJobs /\ job[r].app \in Apps
  BY DeleteJob DEF UndeployRead, Undeploy, Unbind, DeleteSteps, DeleteJobs
<1>2. /\ faults' \in 0..MaxFaults /\ pc' = [pc EXCEPT ![r] = pc'[r]]
      /\ pc'[r] \in {"undeploy", "unbind", "unmount_read", "ok", "failed"}
  <2>1. CASE UndeployRead(r)
    BY <2>1 DEF UndeployRead, Await, RequestTypeOK, HistoryTypeOK
  <2>2. CASE Undeploy(r)
    BY <2>2, AnsweredTyped DEF Undeploy, AfterException
  <2>3. CASE Unbind(r)
    BY <2>3, AnsweredTyped DEF Unbind, AfterException, NextClaim
  <2> QED BY <2>1, <2>2, <2>3
<1>3. Moves(r) /\ todo'[r] = todo[r] /\ todo[r] \subseteq Containers
      /\ cur'[r] = cur[r] /\ cur[r] \in Containers \cup {NoContainer}
  BY <1>2, UnloopedMoves DEF UndeployRead, Undeploy, Unbind
<1>4. RequestInv' /\ RequestTypeOK'
  BY <1>1, <1>2, <1>3, DeleteMoves, MovesTyped DEF DeleteSteps, Answers, Steps
<1>5. ClusterTypeOK'
  BY <1>1 DEF UndeployRead, Undeploy, Unbind, ClusterTypeOK, cluster
<1>6. HistoryTypeOK'
  BY <1>2 DEF UndeployRead, Undeploy, Unbind, HistoryTypeOK, history
<1> QED BY <1>4, <1>5, <1>6

LEMMA UnmountReadType ==
  ASSUME TypeInv, NEW r \in Requests, NEW c \in Containers, UnmountRead(r, c)
  PROVE  TypeInv'
<1> USE DEF TypeInv, TypeOK
<1>1. pc[r] = "unmount_read" /\ job[r] \in DeleteJobs
  BY DeleteJob DEF UnmountRead, DeleteSteps
<1>2. /\ Moves(r)
      /\ pc'[r] \in {"unmount_read", "unmount", "ok"}
      /\ todo'[r] \subseteq Containers /\ cur'[r] = c
      /\ pc'[r] = "unmount" => cur'[r] \in todo'[r]
  <2>1. /\ c \in todo[r] /\ todo[r] \subseteq Containers
        /\ job' = job /\ cur' = [cur EXCEPT ![r] = c]
    BY DEF UnmountRead, RequestTypeOK
  <2>2. CASE Await(r, "unmount") /\ UNCHANGED todo
    BY <2>1, <2>2 DEF Moves, Await, RequestTypeOK
  <2>3. CASE /\ Await(r, NextClaim(todo[r] \ {c}, "unmount_read", "ok"))
             /\ todo' = [todo EXCEPT ![r] = @ \ {c}]
    BY <2>1, <2>3 DEF Moves, Await, NextClaim, RequestTypeOK
  <2> QED BY <2>2, <2>3 DEF UnmountRead
<1>3. RequestInv' /\ RequestTypeOK'
  BY <1>1, <1>2, DeleteMoves, MovesTyped DEF DeleteSteps, Answers, Steps
<1> QED BY <1>3, ReadOnlyTyped DEF UnmountRead

LEMMA UnmountType ==
  ASSUME TypeInv, NEW r \in Requests, Unmount(r)
  PROVE  TypeInv'
<1> USE DEF TypeInv, TypeOK
<1>1. /\ pc[r] = "unmount" /\ job[r] \in DeleteJobs /\ job[r].app \in Apps
      /\ cur[r] \in todo[r] /\ todo[r] \subseteq Containers
      /\ cur[r] \in Containers
  BY DeleteJob DEF Unmount, DeleteSteps, RequestTypeOK, DeleteJobs
<1>2. /\ faults' \in 0..MaxFaults /\ pc' = [pc EXCEPT ![r] = pc'[r]]
      /\ pc'[r] \in {"unmount_read", "ok"}
  BY <1>1, AnsweredTyped DEF Unmount, AfterException, NextClaim
<1>3. Moves(r) /\ todo'[r] \subseteq todo[r] /\ cur'[r] = cur[r]
  BY <1>2 DEF Unmount, Moves, RequestTypeOK
<1>4. RequestInv' /\ RequestTypeOK'
  BY <1>1, <1>2, <1>3, DeleteMoves, MovesTyped DEF DeleteSteps, Answers, Steps
<1>5. PvcName[job[r].app, cur[r]] \in Claims
  BY <1>1, NamesAssumption
<1>6. ClusterTypeOK'
  BY <1>5 DEF Unmount, ClusterTypeOK, CurrentClaim
<1>7. HistoryTypeOK'
  BY <1>2 DEF Unmount, HistoryTypeOK, history
<1> QED BY <1>4, <1>6, <1>7

-----------------------------------------------------------------------------
(* Revision. *)

LEMMA ReviseType ==
  ASSUME TypeInv, NEW r \in Requests, ReviseStep(r)
  PROVE  TypeInv'
<1> USE DEF TypeInv, TypeOK
<1>1. /\ pc[r] \in {"resize_read", "resize", "pvc_find", "expand_read", "expand"}
      /\ job[r] \in ReviseJobs /\ job[r].disk \in Nat
  BY ReviseJob DEF ReviseStep, ResizeRead, Resize, PvcFind, ExpandRead, Expand,
     ReviseJobs
<1>2. AfterStorage(job[r]) \in {"scale_read", "ok"}
      /\ (AfterStorage(job[r]) = "scale_read" => job[r].replicas > 0)
  BY DEF AfterStorage
<1>3. AfterResize(job[r]) \in {"pvc_find", AfterStorage(job[r])}
  BY DEF AfterResize
<1>4. /\ faults' \in 0..MaxFaults /\ pc' = [pc EXCEPT ![r] = pc'[r]]
      /\ pc'[r] \in {"resize", "pvc_find", "expand_read", "expand",
                     AfterStorage(job[r]), "failed", "rejected"}
  <2>1. CASE ResizeRead(r)
    BY <2>1 DEF ResizeRead, Await, RequestTypeOK, HistoryTypeOK
  <2>2. CASE Resize(r)
    <3>1. CASE Answered(r, AfterResize(job[r]))
      BY <1>3, <2>2, <3>1, AnsweredTyped DEF Resize, AfterException
    <3>2. CASE Await(r, "failed") /\ UNCHANGED faults
      BY <3>2 DEF Await, RequestTypeOK, HistoryTypeOK
    <3> QED BY <2>2, <3>1, <3>2 DEF Resize
  <2>3. CASE PvcFind(r)
    BY <2>3 DEF PvcFind, Await, RequestTypeOK, HistoryTypeOK
  <2>4. CASE ExpandRead(r)
    BY <2>4 DEF ExpandRead, Await, RequestTypeOK, HistoryTypeOK
  <2>5. CASE Expand(r)
    <3>1. CASE Answered(r, AfterStorage(job[r]))
      BY <2>5, <3>1, AnsweredTyped DEF Expand, AfterException
    <3>2. CASE Await(r, "failed") /\ UNCHANGED faults
      BY <3>2 DEF Await, RequestTypeOK, HistoryTypeOK
    <3> QED BY <2>5, <3>1, <3>2 DEF Expand
  <2> QED BY <2>1, <2>2, <2>3, <2>4, <2>5 DEF ReviseStep
<1>5. Moves(r) /\ todo'[r] = todo[r] /\ todo[r] \subseteq Containers
      /\ cur'[r] = cur[r] /\ cur[r] \in Containers \cup {NoContainer}
  BY <1>4, UnloopedMoves
  DEF ReviseStep, ResizeRead, Resize, PvcFind, ExpandRead, Expand
<1>6. RequestInv' /\ RequestTypeOK'
  BY <1>1, <1>2, <1>4, <1>5, ReviseMoves, MovesTyped
  DEF ReviseSteps, Answers, Steps
<1>7. ClusterTypeOK'
  BY <1>1 DEF ReviseStep, ResizeRead, Resize, PvcFind, ExpandRead, Expand,
     ClusterTypeOK, cluster
<1>8. HistoryTypeOK'
  BY <1>4 DEF ReviseStep, ResizeRead, Resize, PvcFind, ExpandRead, Expand,
     HistoryTypeOK, history
<1> QED BY <1>6, <1>7, <1>8

-----------------------------------------------------------------------------
(* Scaling. *)

\* The steps that revisions and fixed scales share.
LEMMA ScaleReplicasType ==
  ASSUME TypeInv, NEW r \in Requests, ScaleRead(r) \/ Scale(r)
  PROVE  TypeInv'
<1> USE DEF TypeInv, TypeOK
<1>1. /\ pc[r] \in {"scale_read", "scale"}
      /\ job[r] \in ReviseJobs \cup FixedScaleJobs
      /\ job[r].replicas \in Positive /\ job[r].app \in Apps
  BY ScaleJob DEF ScaleRead, Scale, ReviseJobs, FixedScaleJobs
<1>2. /\ faults' \in 0..MaxFaults /\ pc' = [pc EXCEPT ![r] = pc'[r]]
      /\ pc'[r] \in {"scale", "ok", "failed"}
  BY AnsweredTyped DEF ScaleRead, Scale, Await, AfterException,
     RequestTypeOK, HistoryTypeOK
<1>3. Moves(r) /\ todo'[r] = todo[r] /\ todo[r] \subseteq Containers
      /\ cur'[r] = cur[r] /\ cur[r] \in Containers \cup {NoContainer}
  BY <1>2, UnloopedMoves DEF ScaleRead, Scale
<1>4. RequestInv'
  <2>1. CASE job[r] \in ReviseJobs
    BY <1>1, <1>2, <1>3, <2>1, ReviseMoves DEF ReviseSteps, Answers, Positive
  <2>2. CASE job[r] \in FixedScaleJobs
    BY <1>2, <1>3, <2>2, FixedScaleMoves DEF FixedScaleSteps, Answers
  <2> QED BY <1>1, <2>1, <2>2
<1>5. RequestTypeOK'
  BY <1>2, <1>3, MovesTyped DEF FixedScaleSteps, Answers, Steps
<1>6. ClusterTypeOK'
  <2>1. CASE UNCHANGED deployment
    BY <2>1 DEF ScaleRead, Scale, ClusterTypeOK, cluster
  <2>2. CASE /\ Deployed(job[r].app)
             /\ deployment' = [deployment EXCEPT ![job[r].app].replicas =
                                                   job[r].replicas]
             /\ UNCHANGED <<identity, claim, leaving, scaler>>
    BY <1>1, <2>2 DEF ClusterTypeOK, Deployed, Deployments
  <2> QED BY <2>1, <2>2 DEF ScaleRead, Scale, cluster
<1>7. HistoryTypeOK'
  BY <1>1, <1>2 DEF ScaleRead, Scale, HistoryTypeOK, history, Positive
<1> QED BY <1>4, <1>5, <1>6, <1>7

LEMMA HpaType ==
  ASSUME TypeInv, NEW r \in Requests,
         HpaRead(r) \/ HpaPost(r) \/ HpaReplace(r) \/ HpaDelete(r)
  PROVE  TypeInv'
<1> USE DEF TypeInv, TypeOK
<1>1. /\ pc[r] \in {"hpa_read", "hpa_post", "hpa_replace", "hpa_delete"}
      /\ pc[r] \in {"hpa_read", "hpa_post", "hpa_replace"} =>
           job[r] \in AutoScaleJobs
      /\ pc[r] = "hpa_delete" => job[r] \in FixedScaleJobs
      /\ job[r].app \in Apps
  BY HpaJob DEF HpaRead, HpaPost, HpaReplace, HpaDelete, AutoScaleJobs,
     FixedScaleJobs
<1>2. /\ faults' \in 0..MaxFaults /\ pc' = [pc EXCEPT ![r] = pc'[r]]
      /\ pc[r] # "hpa_delete" => pc'[r] \in {"hpa_post", "hpa_replace", "ok", "failed"}
      /\ pc[r] = "hpa_delete" => pc'[r] \in {"scale_read", "failed"}
  BY AnsweredTyped DEF HpaRead, HpaPost, HpaReplace, HpaDelete, Await,
     AfterException, RequestTypeOK, HistoryTypeOK
<1>3. Moves(r) /\ todo'[r] = todo[r] /\ todo[r] \subseteq Containers
      /\ cur'[r] = cur[r] /\ cur[r] \in Containers \cup {NoContainer}
  BY <1>2, UnloopedMoves DEF HpaRead, HpaPost, HpaReplace, HpaDelete
<1>4. RequestInv' /\ RequestTypeOK'
  <2>1. CASE pc[r] = "hpa_delete"
    BY <1>1, <1>2, <1>3, <2>1, FixedScaleMoves, MovesTyped
    DEF FixedScaleSteps, Answers, Steps
  <2>2. CASE pc[r] # "hpa_delete"
    BY <1>1, <1>2, <1>3, <2>2, AutoScaleMoves, MovesTyped
    DEF AutoScaleSteps, Answers, Steps
  <2> QED BY <2>1, <2>2
<1>5. ClusterTypeOK'
  BY <1>1 DEF HpaRead, HpaPost, HpaReplace, HpaDelete, ClusterTypeOK, cluster,
     AutoScaleJobs
<1>6. HistoryTypeOK'
  BY <1>2 DEF HpaRead, HpaPost, HpaReplace, HpaDelete, HistoryTypeOK, history
<1> QED BY <1>4, <1>5, <1>6

LEMMA StepType ==
  ASSUME TypeInv, NEW r \in Requests, Step(r)
  PROVE  TypeInv'
BY FindType, CreateType, UndeployType, UnmountReadType, UnmountType,
   ReviseType, ScaleReplicasType, HpaType DEF Step, DeleteStep, ScaleStep

-----------------------------------------------------------------------------
(* Arrivals, failures and the cluster's controllers. *)

LEMMA ArriveType ==
  ASSUME TypeInv, NEW r \in Requests, NEW j \in Workload, Arrive(r, j)
  PROVE  TypeInv'
<1> USE DEF TypeInv, TypeOK
<1>1. j \in Jobs
  BY WorkloadAssumption
<1>2. /\ job' = [job EXCEPT ![r] = j] /\ job'[r] = j
      /\ pc' = [pc EXCEPT ![r] = pc'[r]]
      /\ pc'[r] = IF j.op = "create" THEN "sa_read" ELSE "find"
      /\ todo' = [todo EXCEPT ![r] = todo'[r]]
      /\ todo'[r] = IF j.op = "create" THEN Disks(j) ELSE {}
      /\ cur' = [cur EXCEPT ![r] = NoContainer]
  BY DEF Arrive, Await, RequestTypeOK
<1>3. /\ j.op = "create" => j \in CreateJobs
      /\ j.op # "create" => j \in DeleteJobs \cup ReviseJobs \cup AutoScaleJobs
                                     \cup FixedScaleJobs
  BY <1>1 DEF Jobs, CreateJobs, DeleteJobs, ReviseJobs, AutoScaleJobs,
     FixedScaleJobs
<1>4. RequestTypeOK'
  BY <1>1, <1>2 DEF RequestTypeOK, Steps, CreateSteps, DeleteSteps, Disks
<1>5. WellFormed(r)'
  <2>1. CASE j.op = "create"
    BY <1>2, <1>3, <2>1 DEF WellFormed, CreateSteps, DeployStage, Disks
  <2>2. CASE j.op # "create"
    BY <1>2, <1>3, <2>2 DEF WellFormed, DeleteSteps, ReviseSteps,
       AutoScaleSteps, FixedScaleSteps, DeployStage
  <2> QED BY <2>1, <2>2
<1>6. ASSUME NEW q \in Requests, q # r PROVE WellFormed(q)'
  BY <1>2, <1>6 DEF RequestTypeOK, RequestInv, WellFormed, Active, Disks
<1>7. RequestInv'
  BY <1>5, <1>6 DEF RequestInv
<1>8. ClusterTypeOK'
  BY DEF Arrive, ClusterTypeOK, cluster
<1>9. HistoryTypeOK'
  BY DEF Arrive, HistoryTypeOK, Rivals
<1> QED BY <1>4, <1>7, <1>8, <1>9

LEMMA CallFailsType ==
  ASSUME TypeInv, NEW r \in Requests, CallFails(r)
  PROVE  TypeInv'
<1> USE DEF TypeInv, TypeOK
<1>1. /\ Active(r) /\ faults' \in 0..MaxFaults
      /\ UNCHANGED <<cluster, job, cur, history>>
  BY FaultsAssumption DEF CallFails, HistoryTypeOK
<1>2. /\ Moves(r)
      /\ cur'[r] = cur[r] /\ cur[r] \in Containers \cup {NoContainer}
      /\ todo'[r] \subseteq Containers
      /\ \/ pc'[r] = "failed"
         \/ /\ pc[r] \in {"unbind", "unmount_read", "unmount"}
            /\ pc'[r] \in {"unmount_read", "ok"}
  <2>1. todo[r] \subseteq Containers /\ cur[r] \in Containers \cup {NoContainer}
    BY DEF RequestTypeOK
  <2>2. ASSUME NEW c \in todo[r],
               Await(r, NextClaim(todo[r] \ {c}, "unmount_read", "ok")),
               todo' = [todo EXCEPT ![r] = @ \ {c}], pc[r] = "unmount_read"
        PROVE  /\ Moves(r) /\ todo'[r] \subseteq Containers
               /\ pc'[r] \in {"unmount_read", "ok"}
    BY <1>1, <2>1, <2>2 DEF Moves, Await, NextClaim, RequestTypeOK
  <2> QED BY <1>1, <2>1, <2>2
          DEF CallFails, Moves, Await, NextClaim, AfterException, RequestTypeOK
<1>3. RequestInv'
  <2>1. CASE pc'[r] = "failed"
    BY <1>2, <2>1, AnsweredMoves DEF Answers
  <2>2. CASE pc[r] \in {"unbind", "unmount_read", "unmount"}
             /\ pc'[r] \in {"unmount_read", "ok"}
    BY <1>2, <2>2, DeleteJob, DeleteMoves DEF DeleteSteps, Answers
  <2> QED BY <1>2, <2>1, <2>2
<1>4. RequestTypeOK'
  BY <1>2, MovesTyped DEF Answers, Steps, DeleteSteps
<1> QED BY <1>1, <1>3, <1>4 DEF ClusterTypeOK, HistoryTypeOK, cluster, history

LEMMA CrashType ==
  ASSUME TypeInv, Crash
  PROVE  TypeInv'
<1> USE DEF TypeInv, TypeOK
<1>1. RequestTypeOK'
  BY DEF Crash, Unlooped, RequestTypeOK
<1>2. \A r \in Requests : ~Active(r)'
  BY AnswersInactive DEF Crash, Active, Steps, CreateSteps, DeleteSteps,
     ReviseSteps, AutoScaleSteps, FixedScaleSteps
<1>3. RequestInv'
  BY <1>2 DEF RequestInv, WellFormed
<1>4. ClusterTypeOK' /\ HistoryTypeOK'
  BY FaultsAssumption DEF Crash, ClusterTypeOK, HistoryTypeOK, cluster, history
<1> QED BY <1>1, <1>3, <1>4

LEMMA ControllerType ==
  ASSUME TypeInv, \/ \E p \in Claims : ClaimGone(p)
                  \/ \E a \in Apps : AutoScaled(a)
  PROVE  TypeInv'
<1> USE DEF TypeInv, TypeOK
<1>1. UNCHANGED <<pc, job, todo, cur, faults, history>>
  BY DEF ClaimGone, AutoScaled, Unlooped
<1>2. RequestTypeOK' /\ HistoryTypeOK' /\ RequestInv'
  BY <1>1 DEF RequestTypeOK, HistoryTypeOK, RequestInv, WellFormed, Active,
     Disks, history
<1>3. ASSUME NEW p \in Claims, ClaimGone(p) PROVE ClusterTypeOK'
  BY <1>3 DEF ClaimGone, ClusterTypeOK
<1>4. ASSUME NEW a \in Apps, AutoScaled(a) PROVE ClusterTypeOK'
  BY <1>4 DEF AutoScaled, ClusterTypeOK, Deployed, Deployments
<1> QED BY <1>2, <1>3, <1>4

LEMMA NextType ==
  ASSUME TypeInv, [Next]_vars
  PROVE  TypeInv'
<1>1. CASE UNCHANGED vars
  BY <1>1 DEF TypeInv, TypeOK, ClusterTypeOK, RequestTypeOK, HistoryTypeOK,
     RequestInv, WellFormed, Active, Disks, vars, cluster, history
<1>2. CASE Next
  BY <1>2, StepType, ArriveType, CallFailsType, CrashType, ControllerType
  DEF Next
<1> QED BY <1>1, <1>2

\* Every object of the cluster and every request in flight is well typed in
\* every reachable state, and a request is at a step of its own operation.
THEOREM TypeInvariance == Spec => []TypeInv
<1>1. TypeInv /\ [Next]_vars => TypeInv'
  BY NextType
<1> QED BY <1>1, InitTypeInv, PTL DEF Spec

THEOREM TypeCorrect == Spec => []TypeOK
<1>1. TypeInv => TypeOK
  BY DEF TypeInv
<1> QED BY <1>1, TypeInvariance, PTL

-----------------------------------------------------------------------------
(* A request makes a bounded number of calls. *)

Spent(step, n) == CallsAhead(step) + CallsPerClaim(step) * n
MostCalls == 8 + 3 * Cardinality(Containers)

\* What is ahead of a request at each of its steps, with n claims to visit.
LEMMA CreateCalls ==
  ASSUME NEW n \in Nat
  PROVE  /\ Spent("sa_read", n) = 7 + 3 * n
         /\ Spent("sa_post", n) = 6 + 3 * n
         /\ Spent("sa_reread", n) = 5 + 3 * n
         /\ Spent("pvc_read", n) = 4 + 3 * n
         /\ Spent("pvc_post", n) = 3 + 3 * n
         /\ Spent("pvc_reread", n) = 2 + 3 * n
         /\ Spent("dep_read", n) = 4 + 3 * n
         /\ Spent("dep_reread", n) = 3 + 3 * n
         /\ Spent("dep_post", n) = 2 + 3 * n
         /\ Spent("dep_patch", n) = 1 + 3 * n
         /\ Spent("dep_conflict", n) = 1 + 3 * n
BY DEF Spent, CallsAhead, CallsPerClaim, CreateSteps, DeleteSteps

LEMMA DeleteCalls ==
  ASSUME NEW n \in Nat
  PROVE  /\ Spent("find", n) = 8 + 2 * n
         /\ Spent("undeploy_read", n) = 4 + 2 * n
         /\ Spent("undeploy", n) = 3 + 2 * n
         /\ Spent("unbind", n) = 2 + 2 * n
         /\ Spent("unmount_read", n) = 1 + 2 * n
         /\ Spent("unmount", n) = 2 * n
BY DEF Spent, CallsAhead, CallsPerClaim, CreateSteps, DeleteSteps

LEMMA OtherCalls ==
  ASSUME NEW n \in Nat
  PROVE  /\ Spent("resize_read", n) = 7
         /\ Spent("resize", n) = 6
         /\ Spent("pvc_find", n) = 5
         /\ Spent("expand_read", n) = 4
         /\ Spent("expand", n) = 3
         /\ Spent("hpa_read", n) = 3
         /\ Spent("hpa_delete", n) = 3
         /\ Spent("hpa_post", n) = 2
         /\ Spent("scale_read", n) = 2
         /\ Spent("scale", n) = 1
         /\ Spent("hpa_replace", n) = 1
BY DEF Spent, CallsAhead, CallsPerClaim, CreateSteps, DeleteSteps

\* Claims are counted in natural numbers, and a visit takes one of them off.
LEMMA ToVisit ==
  ASSUME TypeInv, NEW r \in Requests
  PROVE  /\ Cardinality(todo[r]) \in Nat
         /\ Cardinality(Containers) \in Nat
         /\ \A vs \in SUBSET Containers : /\ Cardinality(vs) \in Nat
                                          /\ Cardinality(vs) <= Cardinality(Containers)
         /\ \A c \in todo[r] : /\ Cardinality(todo[r] \ {c}) \in Nat
                               /\ Cardinality(todo[r]) = Cardinality(todo[r] \ {c}) + 1
<1>1. todo[r] \subseteq Containers
  BY DEF TypeInv, TypeOK, RequestTypeOK
<1>2. IsFiniteSet(todo[r]) /\ IsFiniteSet(Containers)
  BY <1>1, FiniteAssumption, FS_Subset
<1>3. Cardinality(todo[r]) \in Nat /\ Cardinality(Containers) \in Nat
  BY <1>2, FS_CardinalityType
<1>4. \A vs \in SUBSET Containers : /\ Cardinality(vs) \in Nat
                                    /\ Cardinality(vs) <= Cardinality(Containers)
  BY <1>2, FS_Subset, FS_CardinalityType
<1>5. \A c \in todo[r] : /\ Cardinality(todo[r] \ {c}) \in Nat
                         /\ Cardinality(todo[r]) = Cardinality(todo[r] \ {c}) + 1
  <2> TAKE c \in todo[r]
  <2>1. Cardinality(todo[r] \ {c}) = Cardinality(todo[r]) - 1
    BY <1>2, FS_RemoveElement
  <2>2. Cardinality(todo[r] \ {c}) \in Nat
    BY <1>1, <1>4
  <2> QED BY <1>3, <2>1, <2>2
<1> QED BY <1>3, <1>4, <1>5

Advances(r) == Active(r)' => CallsLeft(r)' < CallsLeft(r)

\* An answer ends it.
LEMMA AnswersAdvance ==
  ASSUME NEW r \in Requests, pc'[r] \in Answers
  PROVE  Advances(r)
BY DEF Advances, Active, Answers, Steps, CreateSteps, DeleteSteps, ReviseSteps,
       AutoScaleSteps, FixedScaleSteps

\* Past the look-up, what is left depends on the step and the claims to visit.
LEMMA SpentAdvances ==
  ASSUME NEW r \in Requests, pc[r] # "find", pc'[r] # "find",
         Spent(pc'[r], Cardinality(todo'[r])) < Spent(pc[r], Cardinality(todo[r]))
  PROVE  Advances(r)
BY DEF Advances, CallsLeft, Spent

LEMMA CreateAdvances ==
  ASSUME TypeInv, NEW r \in Requests, CreateStep(r)
  PROVE  Advances(r)
<1> DEFINE n == Cardinality(todo[r])
<1> USE DEF Await, NextClaim, Unlooped, TypeInv, TypeOK, RequestTypeOK
<1>1. n \in Nat
  BY ToVisit
<1>2. CASE SaRead(r) \/ SaPost(r) \/ SaReread(r)
  <2>1. /\ pc[r] \in {"sa_read", "sa_post", "sa_reread"} /\ todo'[r] = todo[r]
        /\ \/ pc'[r] \in {"failed", "pvc_read", "dep_read"}
           \/ pc[r] = "sa_read" /\ pc'[r] = "sa_post"
           \/ pc[r] = "sa_post" /\ pc'[r] = "sa_reread"
    BY <1>2 DEF SaRead, SaPost, SaReread, Answered, AfterException
  <2> HIDE DEF n
  <2>2. pc'[r] = "failed" \/ Spent(pc'[r], n) < Spent(pc[r], n)
    <3>1. CASE pc'[r] \in {"pvc_read", "dep_read"}
      <4>1. Spent(pc'[r], n) = 4 + 3 * n
        BY <1>1, <3>1, CreateCalls
      <4>2. Spent(pc[r], n) \in {7 + 3 * n, 6 + 3 * n, 5 + 3 * n}
        BY <1>1, <2>1, CreateCalls
      <4> QED BY <1>1, <4>1, <4>2
    <3>2. CASE \/ pc[r] = "sa_read" /\ pc'[r] = "sa_post"
               \/ pc[r] = "sa_post" /\ pc'[r] = "sa_reread"
      <4>1. \/ Spent(pc[r], n) = 7 + 3 * n /\ Spent(pc'[r], n) = 6 + 3 * n
            \/ Spent(pc[r], n) = 6 + 3 * n /\ Spent(pc'[r], n) = 5 + 3 * n
        BY <1>1, <3>2, CreateCalls
      <4> QED BY <1>1, <4>1
    <3> QED BY <2>1, <3>1, <3>2
  <2> QED BY <2>1, <2>2, AnswersAdvance, SpentAdvances DEF Answers, n
<1>3. CASE \/ \E c \in Containers : PvcRead(r, c)
           \/ PvcPost(r) \/ PvcReread(r)
  <2>1. /\ pc[r] \in {"pvc_read", "pvc_post", "pvc_reread"}
        /\ \/ pc'[r] = "failed"
           \/ todo'[r] = todo[r] /\ pc[r] = "pvc_read" /\ pc'[r] = "pvc_post"
           \/ todo'[r] = todo[r] /\ pc[r] = "pvc_post" /\ pc'[r] = "pvc_reread"
           \/ /\ pc'[r] \in {"pvc_read", "dep_read"}
              /\ \E c \in todo[r] : todo'[r] = todo[r] \ {c}
    <3>1. pc[r] \in {"pvc_post", "pvc_reread"} => cur[r] \in todo[r]
      BY CreateJob DEF CreateSteps
    <3>2. ASSUME NEW c \in Containers, PvcRead(r, c)
          PROVE  /\ pc[r] = "pvc_read"
                 /\ \/ todo'[r] = todo[r] /\ pc'[r] = "pvc_post"
                    \/ /\ pc'[r] \in {"pvc_read", "dep_read"}
                       /\ c \in todo[r] /\ todo'[r] = todo[r] \ {c}
      BY <3>2 DEF PvcRead, Provisioned
    <3>3. CASE PvcPost(r) \/ PvcReread(r)
      BY <3>1, <3>3 DEF PvcPost, PvcReread, Provisioned, Answered, AfterException
    <3> QED BY <1>3, <3>2, <3>3
  <2>2. CASE pc'[r] = "failed"
    BY <2>2, AnswersAdvance DEF Answers
  <2>3. CASE todo'[r] = todo[r] /\ \/ pc[r] = "pvc_read" /\ pc'[r] = "pvc_post"
                                   \/ pc[r] = "pvc_post" /\ pc'[r] = "pvc_reread"
    <3> HIDE DEF n
    <3>1. \/ Spent(pc[r], n) = 4 + 3 * n /\ Spent(pc'[r], n) = 3 + 3 * n
          \/ Spent(pc[r], n) = 3 + 3 * n /\ Spent(pc'[r], n) = 2 + 3 * n
      BY <1>1, <2>3, CreateCalls
    <3>2. Spent(pc'[r], n) < Spent(pc[r], n)
      BY <1>1, <3>1
    <3> QED BY <2>3, <3>2, SpentAdvances DEF n
  <2>4. CASE /\ pc'[r] \in {"pvc_read", "dep_read"}
             /\ \E c \in todo[r] : todo'[r] = todo[r] \ {c}
    <3> DEFINE m == Cardinality(todo'[r])
    <3>1. m \in Nat /\ n = m + 1
      BY <2>4, ToVisit
    <3> HIDE DEF n, m
    <3>2. Spent(pc'[r], m) = 4 + 3 * m
      BY <2>4, <3>1, CreateCalls
    <3>3. Spent(pc[r], n) \in {4 + 3 * n, 3 + 3 * n, 2 + 3 * n}
      BY <1>1, <2>1, CreateCalls
    <3>4. Spent(pc'[r], m) < Spent(pc[r], n)
      BY <1>1, <3>1, <3>2, <3>3
    <3> QED BY <2>1, <2>4, <3>4, SpentAdvances DEF n, m
  <2> QED BY <2>1, <2>2, <2>3, <2>4
<1>4. CASE DepRead(r) \/ DepPatch(r) \/ DepReread(r) \/ DepPost(r) \/ DepConflict(r)
  <2>1. /\ todo'[r] = todo[r]
        /\ \/ pc'[r] \in {"ok", "failed"}
           \/ pc[r] = "dep_read" /\ pc'[r] \in {"dep_patch", "dep_reread"}
           \/ pc[r] = "dep_reread" /\ pc'[r] = "dep_post"
           \/ pc[r] = "dep_post" /\ pc'[r] = "dep_conflict"
    BY <1>4 DEF DepRead, DepPatch, DepReread, DepPost, DepConflict, Answered, AfterException
  <2> HIDE DEF n
  <2>2. pc'[r] \in {"ok", "failed"} \/ Spent(pc'[r], n) < Spent(pc[r], n)
    <3>1. CASE pc[r] = "dep_read" /\ pc'[r] \in {"dep_patch", "dep_reread"}
      <4>1. Spent(pc'[r], n) \in {1 + 3 * n, 3 + 3 * n} /\ Spent(pc[r], n) = 4 + 3 * n
        BY <1>1, <3>1, CreateCalls
      <4> QED BY <1>1, <4>1
    <3>2. CASE \/ pc[r] = "dep_reread" /\ pc'[r] = "dep_post"
               \/ pc[r] = "dep_post" /\ pc'[r] = "dep_conflict"
      <4>1. \/ Spent(pc[r], n) = 3 + 3 * n /\ Spent(pc'[r], n) = 2 + 3 * n
            \/ Spent(pc[r], n) = 2 + 3 * n /\ Spent(pc'[r], n) = 1 + 3 * n
        BY <1>1, <3>2, CreateCalls
      <4> QED BY <1>1, <4>1
    <3> QED BY <2>1, <3>1, <3>2
  <2> QED BY <2>1, <2>2, AnswersAdvance, SpentAdvances DEF Answers, n
<1> QED BY <1>2, <1>3, <1>4 DEF CreateStep

\* Of a deletion every claim is visited once, also when the visit fails.
LEMMA DeleteAdvances ==
  ASSUME TypeInv, NEW r \in Requests,
         DeleteStep(r) \/ (CallFails(r) /\ pc[r] \in DeleteSteps \ {"find"})
  PROVE  Advances(r)
<1> DEFINE n == Cardinality(todo[r])
<1> USE DEF TypeInv, TypeOK, RequestTypeOK
<1>1. n \in Nat
  BY ToVisit
<1>2. \/ pc'[r] \in {"ok", "failed"}
      \/ /\ todo'[r] = todo[r]
         /\ \/ pc[r] = "undeploy_read" /\ pc'[r] = "undeploy"
            \/ pc[r] = "undeploy" /\ pc'[r] = "unbind"
            \/ pc[r] = "unbind" /\ pc'[r] = "unmount_read"
            \/ pc[r] = "unmount_read" /\ pc'[r] = "unmount"
      \/ /\ pc[r] \in {"unmount_read", "unmount"} /\ pc'[r] = "unmount_read"
         /\ \E c \in todo[r] : todo'[r] = todo[r] \ {c}
  <2> USE DEF Await, NextClaim, Unlooped
  <2>1. pc[r] = "unmount" => cur[r] \in todo[r]
    BY DeleteJob DEF DeleteSteps, TypeInv
  <2>2. CASE UndeployRead(r) \/ Undeploy(r) \/ Unbind(r)
    BY <2>2 DEF UndeployRead, Undeploy, Unbind, Answered, AfterException
  <2>3. ASSUME NEW c \in Containers, UnmountRead(r, c)
        PROVE  \/ pc'[r] = "ok"
               \/ todo'[r] = todo[r] /\ pc[r] = "unmount_read" /\ pc'[r] = "unmount"
               \/ /\ pc[r] = "unmount_read" /\ pc'[r] = "unmount_read"
                  /\ c \in todo[r] /\ todo'[r] = todo[r] \ {c}
    BY <2>3 DEF UnmountRead
  <2>4. CASE Unmount(r)
    BY <2>1, <2>4 DEF Unmount, Answered, AfterException
  <2>5. CASE CallFails(r) /\ pc[r] = "unmount_read"
    BY <2>5 DEF CallFails
  <2>6. CASE CallFails(r) /\ pc[r] = "unmount"
    BY <2>1, <2>6 DEF CallFails, AfterException
  <2>7. CASE CallFails(r) /\ pc[r] \in {"undeploy_read", "undeploy", "unbind"}
    BY <2>7 DEF CallFails, AfterException
  <2> QED BY <2>2, <2>3, <2>4, <2>5, <2>6, <2>7 DEF DeleteStep, DeleteSteps
<1>3. CASE pc'[r] \in {"ok", "failed"}
  BY <1>3, AnswersAdvance DEF Answers
<1>4. CASE /\ todo'[r] = todo[r]
           /\ \/ pc[r] = "undeploy_read" /\ pc'[r] = "undeploy"
              \/ pc[r] = "undeploy" /\ pc'[r] = "unbind"
              \/ pc[r] = "unbind" /\ pc'[r] = "unmount_read"
              \/ pc[r] = "unmount_read" /\ pc'[r] = "unmount"
  <2> HIDE DEF n
  <2>1. Spent(pc'[r], n) < Spent(pc[r], n)
    BY <1>1, <1>4, DeleteCalls
  <2> QED BY <1>4, <2>1, SpentAdvances DEF n
<1>5. CASE /\ pc[r] \in {"unmount_read", "unmount"} /\ pc'[r] = "unmount_read"
           /\ \E c \in todo[r] : todo'[r] = todo[r] \ {c}
  <2> DEFINE m == Cardinality(todo'[r])
  <2>1. m \in Nat /\ n = m + 1
    BY <1>5, ToVisit
  <2> HIDE DEF n, m
  <2>2. Spent(pc'[r], m) = 1 + 2 * m
    BY <1>5, <2>1, DeleteCalls
  <2>3. Spent(pc[r], n) \in {1 + 2 * n, 2 * n}
    BY <1>1, <1>5, DeleteCalls
  <2>4. Spent(pc'[r], m) < Spent(pc[r], n)
    BY <1>1, <2>1, <2>2, <2>3
  <2> QED BY <1>5, <2>4, SpentAdvances DEF n, m
<1> QED BY <1>2, <1>3, <1>4, <1>5

\* What a revision skips is not left.
LEMMA OtherAdvances ==
  ASSUME TypeInv, NEW r \in Requests, ReviseStep(r) \/ ScaleStep(r)
  PROVE  Advances(r)
<1> DEFINE n == Cardinality(todo[r])
<1>1. n \in Nat
  BY ToVisit
<1>2. /\ todo'[r] = todo[r]
      /\ \/ pc'[r] \in {"ok", "failed", "rejected"}
         \/ pc[r] = "resize_read" /\ pc'[r] = "resize"
         \/ pc[r] = "resize" /\ pc'[r] \in {"pvc_find", "scale_read"}
         \/ pc[r] = "pvc_find" /\ pc'[r] \in {"expand_read", "scale_read"}
         \/ pc[r] = "expand_read" /\ pc'[r] = "expand"
         \/ pc[r] = "expand" /\ pc'[r] = "scale_read"
         \/ pc[r] = "scale_read" /\ pc'[r] = "scale"
         \/ pc[r] = "hpa_read" /\ pc'[r] \in {"hpa_replace", "hpa_post"}
         \/ pc[r] = "hpa_post" /\ pc'[r] = "hpa_replace"
         \/ pc[r] = "hpa_delete" /\ pc'[r] = "scale_read"
  <2> USE DEF TypeInv, TypeOK, RequestTypeOK, Await, Unlooped, Answered, AfterException
  <2>1. CASE ReviseStep(r)
    BY <2>1 DEF ReviseStep, ResizeRead, Resize, PvcFind, ExpandRead, Expand, AfterResize, AfterStorage
  <2>2. CASE ScaleStep(r)
    BY <2>2 DEF ScaleStep, ScaleRead, Scale, HpaRead, HpaPost, HpaReplace, HpaDelete
  <2> QED BY <2>1, <2>2
<1> HIDE DEF n
<1>3. pc'[r] \in {"ok", "failed", "rejected"} \/ Spent(pc'[r], n) < Spent(pc[r], n)
  BY <1>1, <1>2, OtherCalls
<1> QED BY <1>2, <1>3, AnswersAdvance, SpentAdvances DEF Answers, n

LEMMA FindAdvances ==
  ASSUME TypeInv, NEW r \in Requests, Find(r)
  PROVE  Advances(r)
<1> DEFINE all == Cardinality(Containers)
           m == Cardinality(todo'[r])
<1> USE DEF TypeInv, TypeOK
<1>1. /\ pc[r] = "find" /\ job[r].app \in Apps
      /\ job[r] \in DeleteJobs \cup ReviseJobs \cup AutoScaleJobs
                      \cup FixedScaleJobs
  BY FindJob, AnyJob DEF Find, Active, Steps, DeleteSteps
<1>2. todo'[r] \in SUBSET Containers
  BY <1>1 DEF Find, RequestTypeOK, ClusterTypeOK, Deployments, Deployed
<1>3. all \in Nat /\ m \in Nat /\ m <= all
  BY <1>2, ToVisit
<1>4. pc'[r] \in {"rejected", "ok", "undeploy_read", "resize_read", "pvc_find",
                  "scale_read", "hpa_read", "hpa_delete"}
  <2>1. pc'[r] \in {"rejected", AfterFind(job[r])}
    BY DEF Find, Await, RequestTypeOK
  <2> QED BY <1>1, <2>1 DEF AfterFind, AfterResize, AfterStorage
<1>5. CallsLeft(r) = Spent("find", all)
  BY <1>1 DEF CallsLeft, Spent
<1>6. pc'[r] # "find" => CallsLeft(r)' = Spent(pc'[r], m)
  BY DEF CallsLeft, Spent
<1> HIDE DEF all, m
<1>7. Spent("find", all) = 8 + 2 * all
  BY <1>3, DeleteCalls
<1>8. pc'[r] \in {"rejected", "ok"} \/ Spent(pc'[r], m) \in {4 + 2 * m, 7, 5, 2, 3}
  BY <1>3, <1>4, DeleteCalls, OtherCalls
<1>9. CASE pc'[r] \in {"rejected", "ok"}
  BY <1>9, AnswersAdvance DEF Answers
<1>10. CASE Spent(pc'[r], m) \in {4 + 2 * m, 7, 5, 2, 3}
  <2>1. Spent(pc'[r], m) < Spent("find", all)
    BY <1>3, <1>7, <1>10
  <2> QED BY <1>4, <1>5, <1>6, <2>1 DEF Advances
<1> QED BY <1>8, <1>9, <1>10

\* A request in flight has a call ahead of it, and not more than it arrived with.
LEMMA CallsInRange ==
  ASSUME TypeInv, NEW r \in Requests, Active(r)
  PROVE  CallsLeft(r) \in 1..MostCalls
<1> DEFINE n == Cardinality(IF pc[r] = "find" THEN Containers ELSE todo[r])
           all == Cardinality(Containers)
<1>1. n \in Nat /\ all \in Nat /\ n <= all
  BY ToVisit DEF TypeInv, TypeOK, RequestTypeOK
<1>2. pc[r] = "unmount" => n > 0
  <2>1. pc[r] = "unmount" => cur[r] \in todo[r]
    BY DeleteJob DEF DeleteSteps, TypeInv
  <2>2. pc[r] = "unmount" => \E m \in Nat : n = m + 1
    BY <2>1, ToVisit
  <2> QED BY <2>2
<1>3. CallsLeft(r) = Spent(pc[r], n)
  BY DEF CallsLeft, Spent
<1> HIDE DEF n, all
<1>4. CASE pc[r] \in CreateSteps
  <2>1. Spent(pc[r], n) \in {7 + 3 * n, 6 + 3 * n, 5 + 3 * n, 4 + 3 * n, 3 + 3 * n,
                           2 + 3 * n, 1 + 3 * n}
    BY <1>1, <1>4, CreateCalls DEF CreateSteps
  <2> QED BY <1>1, <1>3, <2>1 DEF MostCalls, all
<1>5. CASE pc[r] \in DeleteSteps
  <2>1. \/ Spent(pc[r], n) \in {k + 2 * n : k \in 1..8}
        \/ n > 0 /\ Spent(pc[r], n) = 2 * n
    BY <1>1, <1>2, <1>5, DeleteCalls DEF DeleteSteps
  <2> QED BY <1>1, <1>3, <2>1 DEF MostCalls, all
<1>6. CASE pc[r] \notin CreateSteps \cup DeleteSteps
  <2>1. Spent(pc[r], n) \in 1..7
    BY <1>1, <1>6, OtherCalls
       DEF Active, Steps, DeleteSteps, ReviseSteps, AutoScaleSteps, FixedScaleSteps
  <2> QED BY <1>1, <1>3, <2>1 DEF MostCalls, all
<1> QED BY <1>4, <1>5, <1>6

\* No step of a request leaves it with as many calls ahead as before, whatever others
\* do to its app and its claims and whichever of its calls fail.  As it has between
\* one and eight calls ahead, and three for each container, it makes no more.
THEOREM CallsAreBounded ==
  Spec => /\ EveryCallAdvances
          /\ [](\A r \in Requests : Active(r) => CallsLeft(r) \in 1..MostCalls)
<1>1. ASSUME TypeInv, NEW r \in Requests, Step(r) \/ CallFails(r)
      PROVE  Advances(r)
  <2>1. CASE Step(r)
    BY <1>1, <2>1, FindAdvances, CreateAdvances, DeleteAdvances, OtherAdvances DEF Step
  <2>2. CASE CallFails(r) /\ pc[r] \in DeleteSteps \ {"find"}
    BY <1>1, <2>2, DeleteAdvances
  <2>3. CASE CallFails(r) /\ pc[r] \notin DeleteSteps \ {"find"}
    <3>1. pc[r] \notin {"unbind", "unmount_read", "unmount"}
      BY <2>3 DEF DeleteSteps
    <3>2. AfterException(r) = "failed"
      BY <3>1 DEF AfterException
    <3>3. pc'[r] = "failed"
      BY <1>1, <2>3, <3>1, <3>2 DEF CallFails, Await, TypeInv, TypeOK, RequestTypeOK
    <3> QED BY <1>1, <3>3, AnswersAdvance DEF Answers
  <2> QED BY <1>1, <2>1, <2>2, <2>3
<1>2. TypeInv => \A r \in Requests : ((Step(r) \/ CallFails(r)) /\ Active(r)') =>
                   CallsLeft(r)' < CallsLeft(r)
  BY <1>1 DEF Advances
<1>3. TypeInv => \A r \in Requests : Active(r) => CallsLeft(r) \in 1..MostCalls
  BY CallsInRange
<1> QED BY <1>2, <1>3, TypeInvariance, PTL DEF Spec, EveryCallAdvances

-----------------------------------------------------------------------------
(* A fixed scale that no other rescaling request overlapped sticks, for    *)
(* clients that keep nothing apart.                                        *)

\* A step leaves the replicas and the autoscaler of an app alone.
Scaled(a) ==
  /\ scaler'[a] = scaler[a]
  /\ Deployed(a) => Deployed(a)' /\ deployment'[a].replicas = deployment[a].replicas

LoneScale(r) ==
  /\ Rescales(job[r])
  /\ Rivals(job[r]) \subseteq {r}
  /\ (job[r].op = "fixedscale" /\ pc[r] \in {"scale_read", "scale"}) =>
       scaler[job[r].app] = {}

LEMMA ScaleInvParts ==
  ScaleInv <=> /\ FixedScaleSticks
               /\ \A r \in Requests : r \in alone /\ Active(r) => LoneScale(r)
               /\ \A r \in Requests :
                    (Active(r) /\ Rescales(job[r])) => pinned[job[r].app] = 0
BY DEF ScaleInv, LoneScale

\* A request may only rescale the app it was sent to rescale.
LEMMA ScaleFrame ==
  ASSUME TypeInv, ScaleInv, NEW r \in Requests, Active(r), Moves(r),
         UNCHANGED history,
         \A a \in Apps : Scaled(a) \/ (a = job[r].app /\ Rescales(job[r])),
         (r \in alone /\ job[r].op = "fixedscale" /\ pc'[r] \in {"scale_read", "scale"}) =>
           scaler'[job[r].app] = {}
  PROVE  ScaleInv'
<1>1. /\ job' = job /\ alone' = alone /\ pinned' = pinned
      /\ \A q \in Requests \ {r} : pc'[q] = pc[q]
      /\ \A q \in Requests : Active(q)' => Active(q)
  BY DEF Moves, history, TypeInv, TypeOK, RequestTypeOK, Active
<1>2. FixedScaleSticks'
  <2> SUFFICES ASSUME NEW a \in Apps, pinned[a] > 0
               PROVE  /\ Deployed(a)' /\ deployment'[a].replicas = pinned[a]
                      /\ scaler'[a] = {}
    BY <1>1 DEF FixedScaleSticks
  <2>1. pinned[a] # 0
    BY DEF TypeInv, TypeOK, HistoryTypeOK
  <2>2. Scaled(a)
    BY <2>1 DEF ScaleInv
  <2> QED BY <2>2 DEF Scaled, ScaleInv, FixedScaleSticks
<1>3. ASSUME NEW q \in Requests, q \in alone, Active(q)'
      PROVE  LoneScale(q)'
  <2>1. LoneScale(q) /\ Active(q) /\ job[q].app \in Apps
    BY <1>1, <1>3, ScaleInvParts, AnyJob DEF TypeInv
  <2>2. Rivals(job[q])' \subseteq {q}
    BY <1>1, <2>1 DEF LoneScale, Rivals
  <2>3. CASE q = r
    BY <1>1, <1>3, <2>1, <2>2, <2>3 DEF LoneScale, Rescales
  <2>4. CASE q # r
    <3>1. ~(job[q].app = job[r].app /\ Rescales(job[r]))
      BY <2>1, <2>4 DEF LoneScale, Rivals
    <3>2. Scaled(job[q].app)
      BY <2>1, <3>1
    <3> QED BY <1>1, <2>1, <2>2, <2>4, <3>2 DEF LoneScale, Scaled, Rescales
  <2> QED BY <2>3, <2>4
<1>4. ASSUME NEW q \in Requests, Active(q)', Rescales(job[q])'
      PROVE  pinned'[job'[q].app] = 0
  BY <1>1, <1>4 DEF ScaleInv, Rescales
<1> QED BY <1>1, <1>2, <1>3, <1>4 DEF ScaleInv, LoneScale

\* The steps of creations and deletions, the lookups and the failed calls.
LEMMA QuietScale ==
  ASSUME TypeInv, ScaleInv, NEW r \in Requests, Active(r), Moves(r),
         UNCHANGED <<deployment, scaler, history>>,
         pc'[r] \in {"scale_read", "scale"} => pc[r] \in {"scale_read", "scale"}
                                                 \/ job[r].op # "fixedscale"
  PROVE  ScaleInv'
<1>1. \A a \in Apps : Scaled(a)
  BY DEF Scaled, Deployed
<1>2. (r \in alone /\ job[r].op = "fixedscale" /\ pc'[r] \in {"scale_read", "scale"})
        => scaler'[job[r].app] = {}
  BY DEF ScaleInv
<1> QED BY <1>1, <1>2, ScaleFrame DEF history

LEMMA CreateScale ==
  ASSUME TypeInv, ScaleInv, NEW r \in Requests, CreateStep(r)
  PROVE  ScaleInv'
<1>1. /\ pc[r] \in CreateSteps /\ Active(r) /\ job[r] \in CreateJobs
      /\ job[r].op = "create" /\ job[r].app \in Apps
  BY CreateJob DEF CreateStep, SaRead, SaPost, SaReread, PvcRead, PvcPost,
     PvcReread, DepRead, DepPatch, DepReread, DepPost, DepConflict, CreateSteps,
     CreateJobs, Active, Steps, TypeInv
<1>2. Moves(r) /\ UNCHANGED <<scaler, history>>
  <2>1. \E s : Await(r, s)
    BY DEF CreateStep, SaRead, SaPost, SaReread, PvcRead, PvcPost, PvcReread,
       DepRead, DepPatch, DepReread, DepPost, DepConflict, Provisioned, Answered
  <2>2. pc' = [pc EXCEPT ![r] = pc'[r]]
    BY <2>1 DEF Await, TypeInv, TypeOK, RequestTypeOK
  <2>3. /\ job' = job /\ cur' = [cur EXCEPT ![r] = cur'[r]]
        /\ UNCHANGED <<scaler, history>>
    BY DEF CreateStep, SaRead, SaPost, SaReread, PvcRead, PvcPost, PvcReread,
       DepRead, DepPatch, DepReread, DepPost, DepConflict, Provisioned,
       Unlooped, cluster, TypeInv, TypeOK, RequestTypeOK
  <2>4. todo' = [todo EXCEPT ![r] = todo'[r]]
    BY DEF CreateStep, SaRead, SaPost, SaReread, PvcRead, PvcPost, PvcReread,
       DepRead, DepPatch, DepReread, DepPost, DepConflict, Provisioned,
       Unlooped, cluster, TypeInv, TypeOK, RequestTypeOK
  <2> QED BY <2>2, <2>3, <2>4 DEF Moves
<1>3. CASE UNCHANGED deployment
  BY <1>1, <1>2, <1>3, QuietScale
<1>4. CASE DepPatch(r)
  <2>1. \A a \in Apps : Scaled(a)
    BY <1>1, <1>2, <1>4, AbsentAssumption
    DEF DepPatch, Scaled, Deployed, Patched, Deployments, CreateJobs, TypeInv,
        TypeOK, ClusterTypeOK
  <2> QED BY <1>1, <1>2, <2>1, ScaleFrame
<1>5. CASE DepPost(r)
  <2>1. \A a \in Apps : Scaled(a)
    BY <1>1, <1>2, <1>5 DEF DepPost, Scaled, Deployed, TypeInv, TypeOK,
       ClusterTypeOK
  <2> QED BY <1>1, <1>2, <2>1, ScaleFrame
<1> QED BY <1>3, <1>4, <1>5 DEF CreateStep, SaRead, SaPost, SaReread, PvcRead,
           PvcPost, PvcReread, DepRead, DepReread, DepConflict, cluster

\* Undeploying rescales the app, and a deletion counts as a rescaling request.
LEMMA DeleteScale ==
  ASSUME TypeInv, ScaleInv, NEW r \in Requests, DeleteStep(r)
  PROVE  ScaleInv'
<1>1. /\ pc[r] \in DeleteSteps \ {"find"} /\ Active(r) /\ job[r] \in DeleteJobs
      /\ job[r].op = "delete" /\ job[r].app \in Apps
  BY DeleteJob DEF DeleteStep, UndeployRead, Undeploy, Unbind, UnmountRead,
     Unmount, DeleteSteps, DeleteJobs, Active, Steps, TypeInv
<1>2. Moves(r) /\ UNCHANGED <<scaler, history>>
  <2>1. \E s : Await(r, s)
    BY DEF DeleteStep, UndeployRead, Undeploy, Unbind, UnmountRead, Unmount,
       Answered
  <2>2. pc' = [pc EXCEPT ![r] = pc'[r]]
    BY <2>1 DEF Await, TypeInv, TypeOK, RequestTypeOK
  <2>3. /\ job' = job /\ cur' = [cur EXCEPT ![r] = cur'[r]]
        /\ todo' = [todo EXCEPT ![r] = todo'[r]]
        /\ UNCHANGED <<scaler, history>>
    BY DEF DeleteStep, UndeployRead, Undeploy, Unbind, UnmountRead, Unmount,
       Unlooped, cluster, TypeInv, TypeOK, RequestTypeOK
  <2> QED BY <2>2, <2>3 DEF Moves
<1>3. \A a \in Apps : Scaled(a) \/ (a = job[r].app /\ Rescales(job[r]))
  BY <1>1, <1>2 DEF DeleteStep, UndeployRead, Undeploy, Unbind, UnmountRead,
     Unmount, Scaled, Deployed, Rescales, cluster, TypeInv, TypeOK, ClusterTypeOK
<1> QED BY <1>1, <1>2, <1>3, ScaleFrame

LEMMA LookUpScale ==
  ASSUME TypeInv, ScaleInv, NEW r \in Requests,
         Find(r) \/ ReviseStep(r) \/ ScaleRead(r) \/ HpaRead(r)
  PROVE  ScaleInv'
<1>1. Active(r)
  BY DEF Find, ReviseStep, ResizeRead, Resize, PvcFind, ExpandRead, Expand,
     ScaleRead, HpaRead, Active, Steps, DeleteSteps, ReviseSteps, AutoScaleSteps
<1>2. \E s : Await(r, s)
  BY DEF Find, ReviseStep, ResizeRead, Resize, PvcFind, ExpandRead, Expand,
     ScaleRead, HpaRead, Answered
<1>3. pc' = [pc EXCEPT ![r] = pc'[r]]
  BY <1>2 DEF Await, TypeInv, TypeOK, RequestTypeOK
<1>4. Moves(r) /\ UNCHANGED <<deployment, scaler, history>>
  BY <1>3 DEF Moves, Find, ReviseStep, ResizeRead, Resize, PvcFind, ExpandRead,
     Expand, ScaleRead, HpaRead, Unlooped, cluster, TypeInv, TypeOK, RequestTypeOK
<1>5. pc'[r] \in {"scale_read", "scale"} =>
        pc[r] \in {"scale_read", "scale"} \/ job[r].op # "fixedscale"
  <2>1. CASE Find(r)
    BY <2>1 DEF Find, AfterFind, AfterResize, AfterStorage, Await, TypeInv,
       TypeOK, RequestTypeOK
  <2>2. CASE ReviseStep(r)
    BY <2>2, ReviseJob DEF ReviseStep, ResizeRead, Resize, PvcFind, ExpandRead,
       Expand, ReviseJobs, TypeInv
  <2>3. CASE ScaleRead(r)
    BY <2>3 DEF ScaleRead
  <2>4. CASE HpaRead(r)
    BY <2>4 DEF HpaRead, Await, TypeInv, TypeOK, RequestTypeOK
  <2> QED BY <2>1, <2>2, <2>3, <2>4
<1> QED BY <1>1, <1>4, <1>5, QuietScale

LEMMA HpaWriteScale ==
  ASSUME TypeInv, ScaleInv, NEW r \in Requests,
         HpaPost(r) \/ HpaReplace(r) \/ HpaDelete(r)
  PROVE  ScaleInv'
<1>1. /\ pc[r] \in {"hpa_post", "hpa_replace", "hpa_delete"} /\ Active(r)
      /\ job[r].op \in {"autoscale", "fixedscale"} /\ job[r].app \in Apps
      /\ job[r].op = "fixedscale" => pc[r] = "hpa_delete"
  BY HpaJob DEF HpaPost, HpaReplace, HpaDelete, Active, Steps, AutoScaleSteps,
     FixedScaleSteps, AutoScaleJobs, FixedScaleJobs, TypeInv
<1>2. \E s : Await(r, s)
  BY DEF HpaPost, HpaReplace, HpaDelete, Answered
<1>3. pc' = [pc EXCEPT ![r] = pc'[r]]
  BY <1>2 DEF Await, TypeInv, TypeOK, RequestTypeOK
<1>4. Moves(r) /\ UNCHANGED <<deployment, history>>
  BY <1>3, UnloopedMoves DEF HpaPost, HpaReplace, HpaDelete, TypeInv, TypeOK
<1>5. \A a \in Apps : Scaled(a) \/ (a = job[r].app /\ Rescales(job[r]))
  BY <1>1, <1>4 DEF HpaPost, HpaReplace, HpaDelete, Scaled, Deployed, Rescales,
     TypeInv, TypeOK, ClusterTypeOK
<1>6. job[r].op = "fixedscale" => scaler'[job[r].app] = {}
  BY <1>1 DEF HpaPost, HpaReplace, HpaDelete, TypeInv, TypeOK, ClusterTypeOK
<1> QED BY <1>1, <1>4, <1>5, <1>6, ScaleFrame

\* The step that pins the app of a lone fixed scale.
LEMMA ScaleScale ==
  ASSUME TypeInv, ScaleInv, NEW r \in Requests, Scale(r)
  PROVE  ScaleInv'
<1> DEFINE a == job[r].app
<1>1. /\ pc[r] = "scale" /\ Active(r) /\ a \in Apps
      /\ job[r].replicas \in Positive /\ Rescales(job[r])
      /\ job[r] \in ReviseJobs \cup FixedScaleJobs
  BY ScaleJob DEF Scale, Active, Steps, ReviseSteps, ReviseJobs, FixedScaleJobs,
     Rescales, Positive, TypeInv
<1>2. /\ pc' = [pc EXCEPT ![r] = pc'[r]] /\ pc'[r] \in {"ok", "failed"}
  BY <1>1, AnsweredTyped DEF Scale, Await, AfterException, TypeInv, TypeOK,
     RequestTypeOK
<1>3. Moves(r) /\ UNCHANGED <<scaler, alone>>
  BY <1>2, UnloopedMoves DEF Scale, TypeInv, TypeOK
<1>4. ASSUME NEW b \in Apps, b # a PROVE Scaled(b)
  BY <1>1, <1>3, <1>4 DEF Scale, Scaled, Deployed, TypeInv, TypeOK, ClusterTypeOK
<1>5. CASE UNCHANGED pinned
  BY <1>1, <1>2, <1>3, <1>4, <1>5, ScaleFrame DEF history
<1>6. CASE /\ job[r].op = "fixedscale" /\ r \in alone /\ Deployed(a)
           /\ deployment' = [deployment EXCEPT ![a].replicas = job[r].replicas]
           /\ pinned' = [pinned EXCEPT ![a] = job[r].replicas]
  <2>1. /\ scaler[a] = {}
        /\ \A q \in Requests \ {r} : Active(q) /\ Rescales(job[q]) => job[q].app # a
    BY <1>1, <1>6 DEF ScaleInv, Rivals
  <2>2. /\ job' = job /\ \A q \in Requests \ {r} : pc'[q] = pc[q]
        /\ ~Active(r)'
    BY <1>2, <1>3 DEF Moves, TypeInv, TypeOK, RequestTypeOK, Active, Steps,
       CreateSteps, DeleteSteps, ReviseSteps, AutoScaleSteps, FixedScaleSteps
  <2>3. FixedScaleSticks'
    <3> SUFFICES ASSUME NEW b \in Apps, pinned'[b] > 0
                 PROVE  /\ Deployed(b)' /\ deployment'[b].replicas = pinned'[b]
                        /\ scaler'[b] = {}
      BY DEF FixedScaleSticks
    <3>1. CASE b = a
      <4>1. deployment[a] \in Deployments
        BY <1>1, <1>6 DEF Deployed, TypeInv, TypeOK, ClusterTypeOK
      <4>2. /\ deployment'[a] = [deployment[a] EXCEPT !.replicas = job[r].replicas]
            /\ pinned'[a] = job[r].replicas
        BY <1>1, <1>6 DEF TypeInv, TypeOK, ClusterTypeOK, HistoryTypeOK
      <4>3. deployment'[a] \in Deployments /\ deployment'[a].replicas = job[r].replicas
        BY <1>1, <4>1, <4>2 DEF Deployments
      <4> QED BY <1>3, <2>1, <3>1, <4>2, <4>3, AbsentAssumption DEF Deployed
    <3>2. CASE b # a
      <4>1. pinned[b] = pinned'[b]
        BY <1>1, <1>6, <3>2 DEF TypeInv, TypeOK, HistoryTypeOK
      <4> QED BY <1>4, <3>2, <4>1 DEF Scaled, ScaleInv, FixedScaleSticks
    <3> QED BY <3>1, <3>2
  <2>4. ASSUME NEW q \in Requests, q \in alone, Active(q)' PROVE LoneScale(q)'
    <3>1. q # r /\ LoneScale(q) /\ Active(q)
      BY <2>2, <2>4, ScaleInvParts DEF Active
    <3>2. Rivals(job[q])' \subseteq {q}
      BY <2>2, <3>1 DEF LoneScale, Rivals, Active
    <3> QED BY <1>3, <2>2, <3>1, <3>2 DEF LoneScale, Rescales
  <2>5. ASSUME NEW q \in Requests, Active(q)', Rescales(job[q])'
        PROVE  pinned'[job'[q].app] = 0
    <3>1. q # r /\ Active(q) /\ Rescales(job[q])
      BY <2>2, <2>5 DEF Active, Rescales
    <3>2. pinned[job[q].app] = 0 /\ job[q].app # a /\ job[q].app \in Apps
      BY <2>1, <3>1, AnyJob DEF ScaleInv, TypeInv
    <3> QED BY <1>6, <2>2, <3>2 DEF TypeInv, TypeOK, HistoryTypeOK
  <2>6. \A q \in Requests : q \in alone' /\ Active(q)' => LoneScale(q)'
    BY <1>3, <2>4
  <2> QED BY <2>3, <2>5, <2>6 DEF ScaleInv, LoneScale
<1> QED BY <1>5, <1>6 DEF Scale

LEMMA StepScale ==
  ASSUME TypeInv, ScaleInv, NEW r \in Requests, Step(r)
  PROVE  ScaleInv'
BY CreateScale, DeleteScale, LookUpScale, HpaWriteScale, ScaleScale
DEF Step, ScaleStep

-----------------------------------------------------------------------------
(* Arrivals, failures and the cluster's controllers. *)

\* A rescaling request that arrives ends the solitude of its rivals.
LEMMA ArriveScale ==
  ASSUME TypeInv, ScaleInv, NEW r \in Requests, NEW j \in Workload, Arrive(r, j)
  PROVE  ScaleInv'
<1>1. /\ ~Active(r) /\ UNCHANGED cluster
      /\ job'[r] = j /\ pc'[r] \in {"sa_read", "find"}
      /\ \A q \in Requests \ {r} : pc'[q] = pc[q] /\ job'[q] = job[q]
      /\ alone' = IF Rescales(j) /\ Rivals(j) = {}
                  THEN alone \cup {r}
                  ELSE alone \ ({r} \cup IF Rescales(j) THEN Rivals(j) ELSE {})
      /\ pinned' = IF Rescales(j) THEN [pinned EXCEPT ![j.app] = 0] ELSE pinned
  BY DEF Arrive, Await, TypeInv, TypeOK, RequestTypeOK
<1>2. j \in Jobs /\ j.app \in Apps
  BY WorkloadAssumption DEF Jobs, CreateJobs, DeleteJobs, ReviseJobs,
     AutoScaleJobs, FixedScaleJobs
<1>3. FixedScaleSticks'
  <2> SUFFICES ASSUME NEW b \in Apps, pinned'[b] > 0
               PROVE  /\ Deployed(b)' /\ deployment'[b].replicas = pinned'[b]
                      /\ scaler'[b] = {}
    BY DEF FixedScaleSticks
  <2>1. pinned'[b] = pinned[b]
    BY <1>1, <1>2 DEF TypeInv, TypeOK, HistoryTypeOK
  <2> QED BY <1>1, <2>1 DEF ScaleInv, FixedScaleSticks, Deployed, cluster
<1>4. ASSUME NEW q \in Requests, q \in alone', Active(q)' PROVE LoneScale(q)'
  <2>1. CASE q = r
    <3>1. Rescales(j) /\ Rivals(j) = {}
      BY <1>1, <1>4, <2>1
    <3>2. Rivals(job[q])' \subseteq {q}
      BY <1>1, <2>1, <3>1 DEF Rivals, Active
    <3>3. Rescales(job[q])'
      BY <1>1, <2>1, <3>1 DEF Rescales
    <3> QED BY <1>1, <2>1, <3>2, <3>3 DEF LoneScale
  <2>2. CASE q # r
    <3>1. /\ q \in alone /\ Active(q) /\ LoneScale(q)
          /\ ~(Rescales(j) /\ q \in Rivals(j))
      BY <1>1, <1>4, <2>2, ScaleInvParts DEF Active
    <3>2. ~(Rescales(j) /\ job[q].app = j.app)
      BY <3>1 DEF Rivals, LoneScale
    <3>3. Rivals(job[q])' \subseteq {q}
      BY <1>1, <2>2, <3>1, <3>2 DEF Rivals, Active, LoneScale
    <3>4. Rescales(job[q])'
      BY <1>1, <2>2, <3>1 DEF Rescales, LoneScale
    <3> QED BY <1>1, <2>2, <3>1, <3>3, <3>4 DEF LoneScale, cluster
  <2> QED BY <2>1, <2>2
<1>5. ASSUME NEW q \in Requests, Active(q)', Rescales(job[q])'
      PROVE  pinned'[job'[q].app] = 0
  <2>1. CASE q = r
    BY <1>1, <1>2, <1>5, <2>1 DEF Rescales, TypeInv, TypeOK, HistoryTypeOK
  <2>2. CASE q # r
    <3>1. Active(q) /\ Rescales(job[q])
      BY <1>1, <1>5, <2>2 DEF Active, Rescales
    <3>2. pinned[job[q].app] = 0 /\ job[q].app \in Apps
      BY <3>1, AnyJob DEF ScaleInv, TypeInv
    <3> QED BY <1>1, <1>2, <2>2, <3>2 DEF TypeInv, TypeOK, HistoryTypeOK
  <2> QED BY <2>1, <2>2
<1>6. \A q \in Requests : q \in alone' /\ Active(q)' => LoneScale(q)'
  BY <1>4
<1> QED BY <1>3, <1>5, <1>6 DEF ScaleInv, LoneScale

LEMMA CallFailsScale ==
  ASSUME TypeInv, ScaleInv, NEW r \in Requests, CallFails(r)
  PROVE  ScaleInv'
<1>1. Active(r) /\ UNCHANGED <<cluster, job, cur, history>>
  BY DEF CallFails
<1>2. Moves(r) /\ pc'[r] \in {"failed", "unmount_read", "ok"}
  BY <1>1 DEF CallFails, Moves, Await, NextClaim, AfterException,
     TypeInv, TypeOK, RequestTypeOK
<1> QED BY <1>1, <1>2, QuietScale DEF cluster

LEMMA CrashScale ==
  ASSUME TypeInv, ScaleInv, Crash
  PROVE  ScaleInv'
<1>1. UNCHANGED <<cluster, history>> /\ \A r \in Requests : ~Active(r)'
  BY DEF Crash, Active, Steps, CreateSteps, DeleteSteps, ReviseSteps,
     AutoScaleSteps, FixedScaleSteps
<1>2. FixedScaleSticks'
  BY <1>1 DEF ScaleInv, FixedScaleSticks, Deployed, cluster, history
<1> QED BY <1>1, <1>2 DEF ScaleInv

\* The autoscaler of an app that is pinned has gone.
LEMMA ControllerScale ==
  ASSUME TypeInv, ScaleInv, \/ \E p \in Claims : ClaimGone(p)
                            \/ \E a \in Apps : AutoScaled(a)
  PROVE  ScaleInv'
<1>1. UNCHANGED <<scaler, pc, job, alone, pinned>>
  BY DEF ClaimGone, AutoScaled, Unlooped, history
<1>2. FixedScaleSticks'
  <2>1. CASE \E p \in Claims : ClaimGone(p)
    BY <1>1, <2>1 DEF ClaimGone, ScaleInv, FixedScaleSticks, Deployed
  <2>2. ASSUME NEW a \in Apps, AutoScaled(a) PROVE FixedScaleSticks'
    <3>1. PICK n \in scaler[a] \ {deployment[a].replicas} :
            deployment' = [deployment EXCEPT ![a].replicas = n]
      BY <2>2 DEF AutoScaled
    <3>2. ~(pinned[a] > 0)
      BY <3>1 DEF ScaleInv, FixedScaleSticks
    <3> QED BY <1>1, <3>1, <3>2
            DEF ScaleInv, FixedScaleSticks, Deployed, TypeInv, TypeOK, ClusterTypeOK
  <2> QED BY <2>1, <2>2
<1> QED BY <1>1, <1>2 DEF ScaleInv, Active, Rescales, Rivals

LEMMA NextScale ==
  ASSUME TypeInv, ScaleInv, [Next]_vars
  PROVE  ScaleInv'
<1>1. CASE UNCHANGED vars
  BY <1>1 DEF ScaleInv, FixedScaleSticks, Deployed, Active, Rescales, Rivals,
     vars, cluster, history
<1>2. CASE Next
  BY <1>2, StepScale, ArriveScale, CallFailsScale, CrashScale, ControllerScale
  DEF Next
<1> QED BY <1>1, <1>2

LEMMA InitScale == Init => ScaleInv
BY DEF Init, ScaleInv, FixedScaleSticks, Active, Steps, CreateSteps, DeleteSteps,
   ReviseSteps, AutoScaleSteps, FixedScaleSteps

THEOREM ScaleInvariance == Spec => []ScaleInv
<1>1. TypeInv /\ ScaleInv /\ [Next]_vars => ScaleInv'
  BY NextScale
<1> QED BY <1>1, InitScale, TypeInvariance, PTL DEF Spec

\* An app whose fixed scale nothing disturbed keeps its replicas and has no
\* autoscaler, however many requests, faults and crashes there are.
THEOREM FixedScalesStick == Spec => []FixedScaleSticks
<1>1. ScaleInv => FixedScaleSticks
  BY DEF ScaleInv
<1> QED BY <1>1, ScaleInvariance, PTL

-----------------------------------------------------------------------------
(* What a deployed app runs on, and what a creation delivers.              *)

\* A step takes neither the identity nor a claim from an app.
Preserves(a) ==
  /\ a \in identity => a \in identity'
  /\ \A c \in Containers :
       /\ Live(PvcName[a, c]) => Live(PvcName[a, c])'
       /\ PvcName[a, c] \notin leaving => PvcName[a, c] \notin leaving'

\* Every app that is deployed after the step was deployed before it, with the
\* same volumes.
KeepsDeployments ==
  \A a \in Apps : Deployed(a)' =>
    Deployed(a) /\ deployment'[a].volumes = deployment[a].volumes

-----------------------------------------------------------------------------
(* Frames. *)

LEMMA Untouched ==
  ASSUME UNCHANGED cluster
  PROVE  KeepsDeployments /\ \A a \in Apps : Preserves(a)
BY DEF cluster, KeepsDeployments, Preserves, Live, Deployed

LEMMA OthersHold ==
  ASSUME TypeInv, StorageInv, NEW r \in Requests, Active(r), Moves(r),
         \A a \in Apps : \/ Preserves(a)
                         \/ job[r].op = "delete" /\ job[r].app = a,
         NEW q \in Requests, q # r
  PROVE  CreationHolds(q)'
<1> SUFFICES ASSUME pc[q] \in CreateSteps
             PROVE  CreationHolds(q)'
  BY DEF CreationHolds, Moves, TypeInv, TypeOK, RequestTypeOK
<1>1. /\ CreationHolds(q) /\ Active(q) /\ job[q].app \in Apps
      /\ pc'[q] = pc[q] /\ todo'[q] = todo[q] /\ job' = job
  BY AnyJob DEF StorageInv, Active, Steps, Moves, TypeInv, TypeOK, RequestTypeOK
<1>2. Preserves(job[q].app)
  BY <1>1 DEF CreationHolds
<1>3. \A s \in Requests : Active(s)' => Active(s)
  BY DEF Active, Moves, TypeInv, TypeOK, RequestTypeOK
<1>4. Disks(job[q]) \subseteq Containers
  BY DEF Disks
<1>5. /\ pc'[q] \in ClaimStage \cup DeployStage => job[q].app \in identity'
      /\ \A c \in Disks(job[q]) \ todo'[q] : Live(PvcName[job[q].app, c])'
  BY <1>1, <1>2, <1>4 DEF CreationHolds, Preserves
<1>6. ClaimsOf(job[q].app) \cap leaving' = {}
  BY <1>1, <1>2 DEF CreationHolds, Preserves, ClaimsOf
<1> QED BY <1>1, <1>3, <1>5, <1>6 DEF CreationHolds, Disks, ClaimsOf

LEMMA StorageStep ==
  ASSUME TypeInv, StorageInv, NEW r \in Requests, Active(r), Moves(r),
         KeepsDeployments,
         \A a \in Apps : \/ Preserves(a)
                         \/ /\ job[r].op = "delete" /\ job[r].app = a
                            /\ ~Deployed(a)',
         CreationHolds(r)',
         pc'[r] \in CleanUpStage => ~Deployed(job[r].app)'
  PROVE  StorageInv'
<1>1. DeployedHasIdentityAndStorage'
  <2> SUFFICES ASSUME NEW a \in Apps, Deployed(a)'
               PROVE  /\ a \in identity'
                      /\ \A c \in deployment'[a].volumes : Live(PvcName[a, c])'
    BY DEF DeployedHasIdentityAndStorage
  <2>1. /\ Preserves(a) /\ Deployed(a)
        /\ deployment'[a].volumes = deployment[a].volumes
    BY DEF KeepsDeployments
  <2>2. /\ a \in identity
        /\ \A c \in deployment[a].volumes : Live(PvcName[a, c])
    BY <2>1 DEF StorageInv, DeployedHasIdentityAndStorage
  <2>3. deployment[a].volumes \subseteq Containers
    BY <2>1 DEF Deployed, TypeInv, TypeOK, ClusterTypeOK, Deployments
  <2> QED BY <2>1, <2>2, <2>3 DEF Preserves
<1>2. \A q \in Requests : CreationHolds(q)'
  BY OthersHold
<1>3. ASSUME NEW q \in Requests, pc'[q] \in CleanUpStage
      PROVE  ~Deployed(job[q].app)'
  <2>1. CASE q = r
    BY <1>3, <2>1 DEF Moves
  <2>2. CASE q # r
    <3>1. pc[q] \in CleanUpStage /\ ~Deployed(job[q].app)
      BY <1>3, <2>2 DEF Moves, StorageInv, TypeInv, TypeOK, RequestTypeOK
    <3>2. job[q].app \in Apps /\ job' = job
      BY <3>1, AnyJob DEF Active, Steps, CleanUpStage, DeleteSteps, Moves, TypeInv
    <3> QED BY <3>1, <3>2 DEF KeepsDeployments, Deployed
  <2> QED BY <2>1, <2>2
<1> QED BY <1>1, <1>2, <1>3 DEF StorageInv

\* A request that creates nothing owes nothing.
LEMMA NotCreating ==
  ASSUME NEW r \in Requests, pc'[r] \notin CreateSteps
  PROVE  CreationHolds(r)'
BY DEF CreationHolds

\* What a creation has to add to what it held before.
LEMMA CreationStep ==
  ASSUME TypeInv, StorageInv, NEW r \in Requests, pc[r] \in CreateSteps, Moves(r),
         Preserves(job[r].app),
         pc'[r] \in (ClaimStage \cup DeployStage) =>
           (pc[r] \in ClaimStage \cup DeployStage \/ job[r].app \in identity'),
         \A c \in todo[r] \ todo'[r] : Live(PvcName[job[r].app, c])'
  PROVE  CreationHolds(r)'
<1>1. /\ CreationHolds(r) /\ job' = job
      /\ job[r] \in CreateJobs /\ todo[r] \subseteq Disks(job[r])
  BY CreateJob DEF StorageInv, Moves, TypeInv
<1>2. \A s \in Requests : s # r => (Active(s)' => Active(s))
  BY DEF Active, Moves, TypeInv, TypeOK, RequestTypeOK
<1>3. job[r].op # "delete"
  BY <1>1 DEF CreateJobs
<1>4. Disks(job[r]) \subseteq Containers
  BY DEF Disks
<1>5. /\ pc'[r] \in ClaimStage \cup DeployStage => job[r].app \in identity'
      /\ \A c \in Disks(job[r]) \ todo'[r] : Live(PvcName[job[r].app, c])'
  BY <1>1, <1>4 DEF CreationHolds, Preserves
<1>6. ClaimsOf(job[r].app) \cap leaving' = {}
  BY <1>1 DEF CreationHolds, Preserves, ClaimsOf
<1> QED BY <1>1, <1>2, <1>3, <1>5, <1>6 DEF CreationHolds, Disks, ClaimsOf

-----------------------------------------------------------------------------
(* Creation. *)

LEMMA CreateReadStorage ==
  ASSUME TypeInv, StorageInv, NEW r \in Requests, CreateRead(r)
  PROVE  StorageInv'
<1>1. /\ pc[r] \in CreateSteps /\ Active(r) /\ job[r] \in CreateJobs
      /\ Unlooped /\ UNCHANGED cluster
  BY CreateJob DEF CreateRead, SaRead, SaReread, DepRead, DepReread,
     DepConflict, CreateSteps, Active, Steps, TypeInv
<1>2. /\ pc' = [pc EXCEPT ![r] = pc'[r]]
      /\ pc'[r] \in CreateSteps \cup Answers
      /\ pc'[r] \in (ClaimStage \cup DeployStage) =>
           (pc[r] \in ClaimStage \cup DeployStage \/ job[r].app \in identity)
  BY DEF CreateRead, SaRead, SaReread, DepRead, DepReread, DepConflict,
     Await, NextClaim, TypeInv, TypeOK, RequestTypeOK, CreateSteps,
     ClaimStage, DeployStage, Answers
<1>3. Moves(r) /\ todo'[r] = todo[r]
  BY <1>1, <1>2, UnloopedMoves DEF TypeInv, TypeOK
<1>4. KeepsDeployments /\ \A a \in Apps : Preserves(a)
  BY <1>1, Untouched
<1>5. job[r].app \in Apps /\ identity' = identity
  BY <1>1 DEF CreateJobs, cluster
<1>6. CreationHolds(r)'
  BY <1>1, <1>2, <1>3, <1>4, <1>5, CreationStep
<1>7. pc'[r] \notin CleanUpStage
  BY <1>2 DEF CreateSteps, Answers, CleanUpStage
<1> QED BY <1>1, <1>3, <1>4, <1>6, <1>7, StorageStep

LEMMA SaPostStorage ==
  ASSUME TypeInv, StorageInv, NEW r \in Requests, SaPost(r)
  PROVE  StorageInv'
<1>1. /\ pc[r] \in CreateSteps /\ Active(r) /\ job[r] \in CreateJobs
      /\ job[r].app \in Apps /\ pc[r] = "sa_post"
  BY CreateJob DEF SaPost, CreateSteps, Active, Steps, TypeInv, CreateJobs
<1>2. /\ pc' = [pc EXCEPT ![r] = pc'[r]]
      /\ pc'[r] \in {"sa_reread", "pvc_read", "dep_read", "failed"}
      /\ pc'[r] \in {"pvc_read", "dep_read"} => job[r].app \in identity'
  <2>1. CASE /\ identity' = identity \cup {job[r].app}
             /\ Answered(r, NextClaim(todo[r], "pvc_read", "dep_read"))
    BY <1>1, <2>1, AnsweredTyped DEF NextClaim, AfterException, TypeInv
  <2>2. CASE Await(r, "sa_reread")
    BY <2>2 DEF Await, TypeInv, TypeOK, RequestTypeOK
  <2> QED BY <2>1, <2>2 DEF SaPost
<1>3. Moves(r) /\ todo'[r] = todo[r]
  BY <1>2, UnloopedMoves DEF SaPost, TypeInv, TypeOK
<1>4. KeepsDeployments /\ \A a \in Apps : Preserves(a)
  BY DEF SaPost, KeepsDeployments, Preserves, Live, Deployed
<1>5. CreationHolds(r)'
  BY <1>1, <1>2, <1>3, <1>4, CreationStep DEF ClaimStage, DeployStage
<1>6. pc'[r] \notin CleanUpStage
  BY <1>2 DEF CleanUpStage
<1> QED BY <1>1, <1>3, <1>4, <1>5, <1>6, StorageStep

LEMMA PvcReadStorage ==
  ASSUME TypeInv, StorageInv, NEW r \in Requests, NEW c \in Containers,
         PvcRead(r, c)
  PROVE  StorageInv'
<1>1. /\ pc[r] \in CreateSteps /\ Active(r) /\ job[r] \in CreateJobs
      /\ job[r].app \in Apps /\ pc[r] = "pvc_read"
  BY CreateJob DEF PvcRead, CreateSteps, Active, Steps, TypeInv, CreateJobs
<1>2. /\ Moves(r) /\ UNCHANGED cluster
      /\ pc'[r] \in {"pvc_read", "pvc_post", "dep_read"}
      /\ \/ claim[PvcName[job[r].app, c]] > 0 /\ todo'[r] = todo[r] \ {c}
         \/ todo'[r] = todo[r]
  BY <1>1 DEF PvcRead, Provisioned, Moves, Await, NextClaim, TypeInv, TypeOK,
     RequestTypeOK
<1>3. KeepsDeployments /\ \A a \in Apps : Preserves(a)
  BY <1>2, Untouched
<1>4. PvcName[job[r].app, c] \notin leaving
  BY <1>1 DEF StorageInv, CreationHolds, ClaimsOf
<1>5. \A d \in todo[r] \ todo'[r] : Live(PvcName[job[r].app, d])'
  <2> SUFFICES ASSUME NEW d \in todo[r] \ todo'[r]
               PROVE  Live(PvcName[job[r].app, d])'
    OBVIOUS
  <2>1. d = c /\ claim[PvcName[job[r].app, c]] > 0
    BY <1>2
  <2> QED BY <1>2, <1>4, <2>1 DEF Live, cluster, Moves
<1>6. CreationHolds(r)'
  BY <1>1, <1>2, <1>3, <1>5, CreationStep DEF ClaimStage
<1>7. pc'[r] \notin CleanUpStage
  BY <1>2 DEF CleanUpStage
<1> QED BY <1>1, <1>2, <1>3, <1>6, <1>7, StorageStep

LEMMA PvcPostStorage ==
  ASSUME TypeInv, StorageInv, NEW r \in Requests, PvcPost(r)
  PROVE  StorageInv'
<1>1. /\ pc[r] \in CreateSteps /\ Active(r) /\ job[r] \in CreateJobs
      /\ job[r].app \in Apps /\ pc[r] = "pvc_post"
      /\ cur[r] \in todo[r] /\ todo[r] \subseteq Disks(job[r])
  BY CreateJob DEF PvcPost, CreateSteps, Active, Steps, TypeInv, CreateJobs
<1>2. CurrentClaim(r) \in Claims /\ cur[r] \in Containers
      /\ job[r].disk[cur[r]] \in Nat /\ job[r].disk[cur[r]] > 0
  BY <1>1, NamesAssumption DEF CurrentClaim, Disks, CreateJobs
<1>3. CurrentClaim(r) \notin leaving
  BY <1>1, <1>2 DEF StorageInv, CreationHolds, ClaimsOf, CurrentClaim
<1>4. /\ pc' = [pc EXCEPT ![r] = pc'[r]]
      /\ pc'[r] \in {"pvc_reread", "pvc_read", "dep_read", "failed"}
  <2>1. CASE Answered(r, NextClaim(todo[r] \ {cur[r]}, "pvc_read", "dep_read"))
    BY <1>1, <2>1, AnsweredTyped DEF NextClaim, AfterException, TypeInv
  <2>2. CASE Await(r, "pvc_reread")
    BY <2>2 DEF Await, TypeInv, TypeOK, RequestTypeOK
  <2> QED BY <2>1, <2>2 DEF PvcPost
<1>5. Moves(r)
  BY <1>4 DEF PvcPost, Moves, TypeInv, TypeOK, RequestTypeOK
<1>6. \/ /\ claim[CurrentClaim(r)] = 0
         /\ claim' = [claim EXCEPT ![CurrentClaim(r)] = job[r].disk[cur[r]]]
         /\ todo'[r] = todo[r] \ {cur[r]}
      \/ todo' = todo /\ claim' = claim
  BY DEF PvcPost, TypeInv, TypeOK, RequestTypeOK
<1>7. UNCHANGED <<identity, deployment, leaving>>
  BY DEF PvcPost
<1>8. KeepsDeployments
  BY <1>7 DEF KeepsDeployments, Deployed
<1>9. \A a \in Apps : Preserves(a)
  <2>1. ASSUME NEW p \in Claims, Live(p) PROVE Live(p)'
    BY <1>2, <1>6, <1>7, <2>1 DEF Live, TypeInv, TypeOK, ClusterTypeOK
  <2> QED BY <1>7, <2>1, NamesAssumption DEF Preserves
<1>10. \A d \in todo[r] \ todo'[r] : Live(PvcName[job[r].app, d])'
  <2> SUFFICES ASSUME NEW d \in todo[r] \ todo'[r]
               PROVE  Live(PvcName[job[r].app, d])'
    OBVIOUS
  <2>1. /\ d = cur[r]
        /\ claim' = [claim EXCEPT ![CurrentClaim(r)] = job[r].disk[cur[r]]]
    BY <1>6
  <2>2. claim'[CurrentClaim(r)] = job[r].disk[cur[r]]
    BY <1>2, <2>1 DEF TypeInv, TypeOK, ClusterTypeOK
  <2>3. PvcName[job[r].app, d] = CurrentClaim(r)
    BY <2>1 DEF CurrentClaim
  <2>4. Live(CurrentClaim(r))'
    BY <1>1, <1>2, <1>3, <1>7, <2>2, <2>3 DEF Live, CurrentClaim, PvcPost
  <2> QED BY <2>3, <2>4 DEF CurrentClaim, PvcPost
<1>11. CreationHolds(r)'
  BY <1>1, <1>4, <1>5, <1>9, <1>10, CreationStep DEF ClaimStage
<1>12. pc'[r] \notin CleanUpStage
  BY <1>4 DEF CleanUpStage
<1> QED BY <1>1, <1>5, <1>8, <1>9, <1>11, <1>12, StorageStep

LEMMA PvcRereadStorage ==
  ASSUME TypeInv, StorageInv, NEW r \in Requests, PvcReread(r)
  PROVE  StorageInv'
<1>1. /\ pc[r] \in CreateSteps /\ Active(r) /\ job[r] \in CreateJobs
      /\ job[r].app \in Apps /\ pc[r] = "pvc_reread"
      /\ cur[r] \in Containers
  BY CreateJob DEF PvcReread, CreateSteps, Active, Steps, TypeInv, CreateJobs,
     Disks
<1>2. /\ Moves(r) /\ UNCHANGED cluster
      /\ pc'[r] \in {"pvc_read", "failed", "dep_read"}
      /\ \/ claim[CurrentClaim(r)] > 0 /\ todo'[r] = todo[r] \ {cur[r]}
         \/ todo'[r] = todo[r]
  BY <1>1 DEF PvcReread, Provisioned, Moves, Await, NextClaim, TypeInv, TypeOK,
     RequestTypeOK
<1>3. KeepsDeployments /\ \A a \in Apps : Preserves(a)
  BY <1>2, Untouched
<1>4. PvcName[job[r].app, cur[r]] \notin leaving
  BY <1>1 DEF StorageInv, CreationHolds, ClaimsOf
<1>5. \A d \in todo[r] \ todo'[r] : Live(PvcName[job[r].app, d])'
  <2> SUFFICES ASSUME NEW d \in todo[r] \ todo'[r]
               PROVE  Live(PvcName[job[r].app, d])'
    OBVIOUS
  <2>1. d = cur[r] /\ claim[CurrentClaim(r)] > 0
    BY <1>2
  <2> QED BY <1>2, <1>4, <2>1 DEF Live, cluster, CurrentClaim, Moves
<1>6. CreationHolds(r)'
  BY <1>1, <1>2, <1>3, <1>5, CreationStep DEF ClaimStage
<1>7. pc'[r] \notin CleanUpStage
  BY <1>2 DEF CleanUpStage
<1> QED BY <1>1, <1>2, <1>3, <1>6, <1>7, StorageStep

LEMMA DepPatchStorage ==
  ASSUME TypeInv, StorageInv, NEW r \in Requests, DepPatch(r)
  PROVE  StorageInv'
<1>1. /\ pc[r] \in CreateSteps /\ Active(r) /\ job[r] \in CreateJobs
      /\ job[r].app \in Apps /\ pc[r] = "dep_patch"
  BY CreateJob DEF DepPatch, CreateSteps, Active, Steps, TypeInv, CreateJobs
<1>2. /\ pc' = [pc EXCEPT ![r] = pc'[r]] /\ pc'[r] \in {"ok", "failed"}
  BY <1>1, AnsweredTyped
  DEF DepPatch, Await, AfterException, TypeInv, TypeOK, RequestTypeOK
<1>3. Moves(r)
  BY <1>2, UnloopedMoves DEF DepPatch, TypeInv, TypeOK
<1>4. KeepsDeployments
  BY DEF DepPatch, KeepsDeployments, Deployed, Patched, TypeInv, TypeOK,
     ClusterTypeOK, Deployments
<1>5. \A a \in Apps : Preserves(a)
  BY DEF DepPatch, Preserves, Live
<1>6. CreationHolds(r)'
  BY <1>2, NotCreating DEF CreateSteps
<1> QED BY <1>1, <1>2, <1>3, <1>4, <1>5, <1>6, StorageStep DEF CleanUpStage

\* The one step that adds a deployment: its identity and its claims are there.
LEMMA DepPostStorage ==
  ASSUME TypeInv, StorageInv, NEW r \in Requests, DepPost(r)
  PROVE  StorageInv'
<1>1. /\ pc[r] \in CreateSteps /\ Active(r) /\ job[r] \in CreateJobs
      /\ job[r].app \in Apps /\ pc[r] = "dep_post" /\ todo[r] = {}
  BY CreateJob DEF DepPost, CreateSteps, Active, Steps, TypeInv, CreateJobs,
     DeployStage
<1>2. /\ pc' = [pc EXCEPT ![r] = pc'[r]]
      /\ pc'[r] \in {"ok", "failed", "dep_conflict"}
  BY <1>1, AnsweredTyped
  DEF DepPost, Await, AfterException, TypeInv, TypeOK, RequestTypeOK
<1>3. Moves(r) /\ todo'[r] = todo[r]
  BY <1>2, UnloopedMoves DEF DepPost, TypeInv, TypeOK
<1>4. \A a \in Apps : Preserves(a)
  BY DEF DepPost, Preserves, Live
<1>5. CreationHolds(r)'
  BY <1>1, <1>2, <1>3, <1>4, CreationStep DEF DeployStage
<1>6. CASE UNCHANGED deployment
  <2>1. KeepsDeployments
    BY <1>6 DEF KeepsDeployments, Deployed
  <2> QED BY <1>1, <1>2, <1>3, <1>4, <1>5, <2>1, StorageStep DEF CleanUpStage
<1>7. CASE deployment' = [deployment EXCEPT ![job[r].app] = NewDeployment(job[r])]
  <2>1. UNCHANGED <<identity, claim, leaving>>
    BY DEF DepPost
  <2>2. job[r].app \in identity
        /\ \A c \in Disks(job[r]) : Live(PvcName[job[r].app, c])
    BY <1>1 DEF StorageInv, CreationHolds, DeployStage
  <2>3. DeployedHasIdentityAndStorage'
    BY <1>1, <1>7, <2>1, <2>2
    DEF StorageInv, DeployedHasIdentityAndStorage, NewDeployment, Deployed,
        Live, TypeInv, TypeOK, ClusterTypeOK
  <2>4. \A q \in Requests : CreationHolds(q)'
    BY <1>1, <1>3, <1>4, <1>5, OthersHold
  <2>5. ASSUME NEW q \in Requests, pc'[q] \in CleanUpStage
        PROVE  ~Deployed(job[q].app)'
    <3>1. q # r
      BY <1>2, <2>5 DEF CleanUpStage
    <3>2. pc[q] \in CleanUpStage /\ pc[q] \in DeleteSteps \ {"find"} /\ job' = job
      BY <1>2, <1>3, <2>5, <3>1
      DEF TypeInv, TypeOK, RequestTypeOK, Moves, CleanUpStage, DeleteSteps
    <3>3. Active(q) /\ job[q].op = "delete" /\ job[q].app \in Apps
      BY <3>2, DeleteJob DEF TypeInv, DeleteJobs, Active, Steps
    <3>4. job[q].app # job[r].app
      BY <1>1, <3>3 DEF StorageInv, CreationHolds
    <3>5. ~Deployed(job[q].app)
      BY <3>2 DEF StorageInv
    <3> QED BY <1>1, <1>7, <3>2, <3>3, <3>4, <3>5
            DEF Deployed, TypeInv, TypeOK, ClusterTypeOK
  <2> QED BY <2>3, <2>4, <2>5 DEF StorageInv
<1> QED BY <1>6, <1>7 DEF DepPost

LEMMA CreateStorage ==
  ASSUME TypeInv, StorageInv, NEW r \in Requests, CreateStep(r)
  PROVE  StorageInv'
BY CreateReadStorage, SaPostStorage, PvcReadStorage, PvcPostStorage,
   PvcRereadStorage, DepPatchStorage, DepPostStorage DEF CreateStep, CreateRead

-----------------------------------------------------------------------------
(* Deletion. *)

LEMMA UndeployStorage ==
  ASSUME TypeInv, StorageInv, NEW r \in Requests,
         UndeployRead(r) \/ Undeploy(r) \/ Unbind(r)
  PROVE  StorageInv'
<1>1. /\ pc[r] \in {"undeploy_read", "undeploy", "unbind"} /\ Active(r)
      /\ job[r].op = "delete" /\ job[r].app \in Apps
  BY DeleteJob DEF UndeployRead, Undeploy, Unbind, DeleteSteps, DeleteJobs,
     Active, Steps, TypeInv
<1>2. /\ pc' = [pc EXCEPT ![r] = pc'[r]]
      /\ pc'[r] \in {"undeploy", "unbind", "unmount_read", "ok", "failed"}
      /\ pc'[r] \in CleanUpStage =>
           deployment' = [deployment EXCEPT ![job[r].app] = NoDeployment]
             \/ (pc[r] = "unbind" /\ deployment' = deployment)
  <2>1. CASE UndeployRead(r)
    BY <2>1 DEF UndeployRead, Await, TypeInv, TypeOK, RequestTypeOK, CleanUpStage
  <2>2. CASE Undeploy(r)
    BY <2>2, AnsweredTyped DEF Undeploy, AfterException, TypeInv
  <2>3. CASE Unbind(r)
    BY <2>3, AnsweredTyped DEF Unbind, AfterException, NextClaim, TypeInv
  <2> QED BY <2>1, <2>2, <2>3
<1>3. Moves(r)
  BY <1>2, UnloopedMoves DEF UndeployRead, Undeploy, Unbind, TypeInv, TypeOK
<1>4. ~Deployed(job[r].app)' \/ UndeployRead(r)
  BY <1>1 DEF StorageInv, CleanUpStage, UndeployRead, Undeploy, Unbind,
     Deployed, TypeInv, TypeOK, ClusterTypeOK, Unlooped
<1>5. KeepsDeployments
  BY <1>1 DEF UndeployRead, Undeploy, Unbind, cluster, KeepsDeployments,
     Deployed, TypeInv, TypeOK, ClusterTypeOK
<1>6. ASSUME NEW a \in Apps
      PROVE  Preserves(a) \/ (job[r].app = a /\ ~Deployed(a)')
  <2>1. CASE UndeployRead(r)
    BY <2>1, Untouched DEF UndeployRead
  <2>2. CASE Undeploy(r)
    BY <2>2 DEF Undeploy, Preserves, Live
  <2>3. CASE Unbind(r) /\ job[r].app = a
    BY <1>3, <1>4, <2>3 DEF Moves, Unbind, UndeployRead
  <2>4. CASE Unbind(r) /\ job[r].app # a
    BY <2>4 DEF Unbind, Preserves, Live
  <2> QED BY <2>1, <2>2, <2>3, <2>4
<1>7. CreationHolds(r)'
  BY <1>2, NotCreating DEF CreateSteps
<1>8. pc'[r] \in CleanUpStage => ~Deployed(job[r].app)'
  BY <1>2, <1>4 DEF CleanUpStage, UndeployRead, Await, TypeInv, TypeOK,
     RequestTypeOK
<1> QED BY <1>1, <1>3, <1>5, <1>6, <1>7, <1>8, StorageStep

LEMMA UnmountReadStorage ==
  ASSUME TypeInv, StorageInv, NEW r \in Requests, NEW c \in Containers,
         UnmountRead(r, c)
  PROVE  StorageInv'
<1>1. pc[r] = "unmount_read" /\ Active(r)
  BY DEF UnmountRead, Active, Steps, DeleteSteps
<1>2. /\ Moves(r) /\ UNCHANGED cluster
      /\ pc'[r] \in {"unmount_read", "unmount", "ok"}
  BY <1>1 DEF UnmountRead, Moves, Await, NextClaim, TypeInv, TypeOK,
     RequestTypeOK
<1>3. KeepsDeployments /\ \A a \in Apps : Preserves(a)
  BY <1>2, Untouched
<1>4. CreationHolds(r)'
  BY <1>2, NotCreating DEF CreateSteps
<1>5. ~Deployed(job[r].app)'
  BY <1>1, <1>2 DEF StorageInv, CleanUpStage, Deployed, cluster, Moves
<1> QED BY <1>1, <1>2, <1>3, <1>4, <1>5, StorageStep

\* A deletion releases claims of its own app only: the names are distinct.
LEMMA UnmountStorage ==
  ASSUME DistinctClaimNames, TypeInv, StorageInv, NEW r \in Requests, Unmount(r)
  PROVE  StorageInv'
<1>1. /\ pc[r] = "unmount" /\ Active(r) /\ cur[r] \in Containers
      /\ job[r].op = "delete" /\ job[r].app \in Apps
  BY DeleteJob DEF Unmount, DeleteSteps, DeleteJobs, Active, Steps, TypeInv,
     TypeOK, RequestTypeOK
<1>2. /\ pc' = [pc EXCEPT ![r] = pc'[r]] /\ pc'[r] \in {"unmount_read", "ok"}
  BY <1>1, AnsweredTyped DEF Unmount, AfterException, NextClaim, TypeInv
<1>3. Moves(r)
  BY <1>2 DEF Unmount, Moves, TypeInv, TypeOK, RequestTypeOK
<1>4. UNCHANGED <<identity, deployment, claim>>
      /\ leaving' \subseteq leaving \cup {CurrentClaim(r)}
  BY DEF Unmount
<1>5. KeepsDeployments
  BY <1>4 DEF KeepsDeployments, Deployed
<1>6. ~Deployed(job[r].app)' /\ ~Deployed(job[r].app)
  BY <1>1, <1>3, <1>4 DEF StorageInv, CleanUpStage, Deployed, Moves
<1>7. ASSUME NEW a \in Apps, job[r].app # a
      PROVE  Preserves(a)
  <2>1. ASSUME NEW c \in Containers PROVE PvcName[a, c] # CurrentClaim(r)
    <3>1. /\ <<a, c>> \in Apps \X Containers
          /\ <<job[r].app, cur[r]>> \in Apps \X Containers
      BY <1>1
    <3>2. <<a, c>> # <<job[r].app, cur[r]>>
      BY <1>7
    <3> QED BY <3>1, <3>2 DEF CurrentClaim, DistinctClaimNames
  <2> QED BY <1>4, <2>1 DEF Preserves, Live
<1>8. \A a \in Apps : Preserves(a) \/ (job[r].app = a /\ ~Deployed(a)')
  BY <1>3, <1>6, <1>7 DEF Moves
<1>9. CreationHolds(r)'
  BY <1>2, NotCreating DEF CreateSteps
<1> QED BY <1>1, <1>3, <1>5, <1>6, <1>8, <1>9, StorageStep

-----------------------------------------------------------------------------
(* The other operations. *)

LEMMA FindStorage ==
  ASSUME TypeInv, StorageInv, NEW r \in Requests, Find(r)
  PROVE  StorageInv'
<1>1. pc[r] = "find" /\ Active(r)
  BY DEF Find, Active, Steps, DeleteSteps
<1>2. /\ Moves(r) /\ UNCHANGED cluster
      /\ pc'[r] \in {"rejected", AfterFind(job[r])}
  BY <1>1 DEF Find, Moves, Await, TypeInv, TypeOK, RequestTypeOK
<1>3. pc'[r] \notin CreateSteps \cup CleanUpStage
  BY <1>2 DEF AfterFind, AfterResize, AfterStorage, CreateSteps, CleanUpStage
<1>4. KeepsDeployments /\ \A a \in Apps : Preserves(a)
  BY <1>2, Untouched
<1> QED BY <1>1, <1>2, <1>3, <1>4, NotCreating, StorageStep

LEMMA ReviseStorage ==
  ASSUME TypeInv, StorageInv, NEW r \in Requests, ReviseStep(r)
  PROVE  StorageInv'
<1>1. /\ pc[r] \in {"resize_read", "resize", "pvc_find", "expand_read", "expand"}
      /\ Active(r) /\ job[r].disk \in Nat /\ Unlooped
      /\ job[r].app \in Apps /\ job[r].container \in Containers
  BY ReviseJob DEF ReviseStep, ResizeRead, Resize, PvcFind, ExpandRead, Expand,
     ReviseJobs, Active, Steps, ReviseSteps, TypeInv
<1>2. \E s \in {"resize", "pvc_find", "expand_read", "expand", "scale_read", "ok",
                "rejected", "failed"} : Await(r, s)
  BY <1>1 DEF ReviseStep, ResizeRead, Resize, PvcFind, ExpandRead, Expand,
     Answered, AfterException, AfterResize, AfterStorage
<1>3. /\ pc' = [pc EXCEPT ![r] = pc'[r]]
      /\ pc'[r] \notin CreateSteps \cup CleanUpStage
  BY <1>2 DEF Await, TypeInv, TypeOK, RequestTypeOK, CreateSteps, CleanUpStage
<1>4. Moves(r)
  BY <1>1, <1>3, UnloopedMoves DEF TypeInv, TypeOK
<1>5. UNCHANGED <<identity, deployment, leaving>>
  BY DEF ReviseStep, ResizeRead, Resize, PvcFind, ExpandRead, Expand, cluster
<1>6. \/ UNCHANGED claim
      \/ /\ claim[RevisedClaim(r)] > 0 /\ job[r].disk >= claim[RevisedClaim(r)]
         /\ claim' = [claim EXCEPT ![RevisedClaim(r)] = job[r].disk]
  BY DEF ReviseStep, ResizeRead, Resize, PvcFind, ExpandRead, Expand, cluster
<1>7. ASSUME NEW p \in Claims, Live(p) PROVE Live(p)'
  BY <1>1, <1>5, <1>6, <1>7 DEF Live, TypeInv, TypeOK, ClusterTypeOK
<1>8. KeepsDeployments /\ \A a \in Apps : Preserves(a)
  BY <1>5, <1>7, NamesAssumption DEF KeepsDeployments, Preserves, Deployed
<1> QED BY <1>1, <1>3, <1>4, <1>8, NotCreating, StorageStep

LEMMA ScaleStorage ==
  ASSUME TypeInv, StorageInv, NEW r \in Requests, ScaleStep(r)
  PROVE  StorageInv'
<1>1. /\ pc[r] \in {"scale_read", "scale", "hpa_read", "hpa_post",
                    "hpa_replace", "hpa_delete"}
      /\ Active(r) /\ Unlooped
  BY DEF ScaleStep, ScaleRead, Scale, HpaRead, HpaPost, HpaReplace, HpaDelete,
     Active, Steps, FixedScaleSteps, AutoScaleSteps
<1>2. \E s \in {"scale", "scale_read", "hpa_post", "hpa_replace", "ok", "failed"} :
        Await(r, s)
  BY <1>1 DEF ScaleStep, ScaleRead, Scale, HpaRead, HpaPost, HpaReplace,
     HpaDelete, Answered, AfterException
<1>3. /\ pc' = [pc EXCEPT ![r] = pc'[r]]
      /\ pc'[r] \notin CreateSteps \cup CleanUpStage
  BY <1>2 DEF Await, TypeInv, TypeOK, RequestTypeOK, CreateSteps, CleanUpStage
<1>4. Moves(r)
  BY <1>1, <1>3, UnloopedMoves DEF TypeInv, TypeOK
<1>5. \A a \in Apps : Preserves(a)
  BY DEF ScaleStep, ScaleRead, Scale, HpaRead, HpaPost, HpaReplace, HpaDelete,
     Preserves, Live, cluster
<1>6. \/ UNCHANGED deployment
      \/ deployment' = [deployment EXCEPT ![job[r].app].replicas =
                                            job[r].replicas]
         /\ Deployed(job[r].app)
  BY DEF ScaleStep, ScaleRead, Scale, HpaRead, HpaPost, HpaReplace, HpaDelete,
     cluster
<1>7. KeepsDeployments
  BY <1>6 DEF KeepsDeployments, Deployed, TypeInv, TypeOK, ClusterTypeOK,
     Deployments
<1> QED BY <1>1, <1>3, <1>4, <1>5, <1>7, NotCreating, StorageStep

LEMMA CallFailsStorage ==
  ASSUME TypeInv, StorageInv, NEW r \in Requests, CallFails(r)
  PROVE  StorageInv'
<1>1. Active(r) /\ UNCHANGED <<cluster, job, cur>>
  BY DEF CallFails
<1>2. /\ Moves(r)
      /\ \/ pc'[r] = "failed"
         \/ pc[r] \in CleanUpStage /\ pc'[r] \in {"unmount_read", "ok"}
  BY <1>1 DEF CallFails, Moves, Await, NextClaim, AfterException, CleanUpStage,
     TypeInv, TypeOK, RequestTypeOK
<1>3. KeepsDeployments /\ \A a \in Apps : Preserves(a)
  BY <1>1, Untouched
<1>4. CreationHolds(r)'
  BY <1>2, NotCreating DEF CreateSteps
<1>5. pc'[r] \in CleanUpStage => ~Deployed(job[r].app)'
  BY <1>1, <1>2 DEF StorageInv, CleanUpStage, Deployed, cluster
<1> QED BY <1>1, <1>2, <1>3, <1>4, <1>5, StorageStep

LEMMA StepStorage ==
  ASSUME DistinctClaimNames, TypeInv, StorageInv, NEW r \in Requests, Step(r)
  PROVE  StorageInv'
BY FindStorage, CreateStorage, UndeployStorage, UnmountReadStorage,
   UnmountStorage, ReviseStorage, ScaleStorage DEF Step, DeleteStep

-----------------------------------------------------------------------------
(* Arrivals, crashes and the cluster's controllers. *)

LEMMA ArriveStorage ==
  ASSUME Serial, Drained, TypeInv, StorageInv, NEW r \in Requests,
         NEW j \in Workload, Arrive(r, j)
  PROVE  StorageInv'
<1>1. /\ ~Active(r) /\ Admitted(j) /\ UNCHANGED cluster
      /\ job'[r] = j /\ todo'[r] = IF j.op = "create" THEN Disks(j) ELSE {}
      /\ pc'[r] = IF j.op = "create" THEN "sa_read" ELSE "find"
      /\ \A q \in Requests \ {r} :
           pc'[q] = pc[q] /\ job'[q] = job[q] /\ todo'[q] = todo[q]
  BY DEF Arrive, Await, TypeInv, TypeOK, RequestTypeOK
<1>2. DeployedHasIdentityAndStorage'
  BY <1>1 DEF StorageInv, DeployedHasIdentityAndStorage, Deployed, Live, cluster
<1>3. CreationHolds(r)'
  <2> SUFFICES ASSUME j.op = "create" PROVE CreationHolds(r)'
    BY <1>1, NotCreating DEF CreateSteps
  <2>1. ClaimsOf(j.app) \cap leaving = {}
    BY <1>1 DEF Admitted
  <2>2. ASSUME NEW q \in Requests, Active(q)', job'[q].op = "delete"
        PROVE  job'[q].app # j.app
    <3>1. q # r /\ Active(q) /\ job[q].op = "delete"
      BY <1>1, <2>2 DEF Active
    <3> QED BY <1>1, <3>1 DEF Admitted, Serving
  <2> QED BY <1>1, <2>1, <2>2
          DEF CreationHolds, ClaimStage, DeployStage, ClaimsOf, Disks, cluster
<1>4. ASSUME NEW q \in Requests, q # r PROVE CreationHolds(q)'
  <2> SUFFICES ASSUME pc[q] \in CreateSteps PROVE CreationHolds(q)'
    BY <1>1, <1>4, NotCreating
  <2>1. Active(q) /\ CreationHolds(q) /\ job[q] \in CreateJobs
    BY CreateJob DEF Active, Steps, StorageInv, TypeInv
  <2>2. ASSUME NEW s \in Requests, Active(s)', job'[s].op = "delete"
        PROVE  job'[s].app # job[q].app
    <3>1. CASE s = r
      BY <1>1, <2>1, <2>2, <3>1 DEF Admitted, Serving, CreateJobs
    <3>2. CASE s # r
      BY <1>1, <2>1, <2>2, <3>2 DEF Active, CreationHolds
    <3> QED BY <3>1, <3>2
  <2>3. /\ pc'[q] = pc[q] /\ job'[q] = job[q] /\ todo'[q] = todo[q]
        /\ identity' = identity /\ claim' = claim /\ leaving' = leaving
    BY <1>1, <1>4 DEF cluster
  <2> QED BY <2>1, <2>2, <2>3 DEF CreationHolds, Live, Disks, ClaimsOf
<1>5. ASSUME NEW q \in Requests, pc'[q] \in CleanUpStage
      PROVE  ~Deployed(job[q].app)'
  BY <1>1, <1>5 DEF CleanUpStage, StorageInv, Deployed, cluster
<1> QED BY <1>2, <1>3, <1>4, <1>5 DEF StorageInv

LEMMA CrashStorage ==
  ASSUME TypeInv, StorageInv, Crash
  PROVE  StorageInv'
<1>1. UNCHANGED cluster
      /\ \A r \in Requests : pc'[r] \notin CreateSteps \cup CleanUpStage
  BY DEF Crash, Active, Steps, CreateSteps, DeleteSteps, CleanUpStage
<1>2. DeployedHasIdentityAndStorage'
  BY <1>1 DEF StorageInv, DeployedHasIdentityAndStorage, Deployed, Live, cluster
<1> QED BY <1>1, <1>2, NotCreating DEF StorageInv

\* A claim that goes was leaving, so that no app relied on it.
LEMMA ControllerStorage ==
  ASSUME TypeInv, StorageInv, \/ \E p \in Claims : ClaimGone(p)
                              \/ \E a \in Apps : AutoScaled(a)
  PROVE  StorageInv'
<1>1. UNCHANGED <<pc, job, todo, identity>>
  BY DEF ClaimGone, AutoScaled, Unlooped
<1>2. leaving' \subseteq leaving
  BY DEF ClaimGone, AutoScaled
<1>3. ASSUME NEW p \in Claims, Live(p) PROVE Live(p)'
  BY <1>3 DEF ClaimGone, AutoScaled, Live, TypeInv, TypeOK, ClusterTypeOK
<1>4. KeepsDeployments /\ \A a \in Apps : Deployed(a)' => Deployed(a)
  BY DEF ClaimGone, AutoScaled, KeepsDeployments, Deployed, TypeInv, TypeOK,
     ClusterTypeOK, Deployments
<1>5. \A a \in Apps : Preserves(a)
  BY <1>1, <1>2, <1>3, NamesAssumption DEF Preserves
<1>6. DeployedHasIdentityAndStorage'
  <2> SUFFICES ASSUME NEW a \in Apps, Deployed(a)'
               PROVE  /\ a \in identity'
                      /\ \A c \in deployment'[a].volumes : Live(PvcName[a, c])'
    BY DEF DeployedHasIdentityAndStorage
  <2>1. Deployed(a) /\ deployment'[a].volumes = deployment[a].volumes
        /\ deployment[a].volumes \subseteq Containers
    BY <1>4 DEF KeepsDeployments, Deployed, TypeInv, TypeOK, ClusterTypeOK,
       Deployments
  <2> QED BY <1>5, <2>1 DEF Preserves, StorageInv, DeployedHasIdentityAndStorage
<1>7. ASSUME NEW q \in Requests PROVE CreationHolds(q)'
  <2> SUFFICES ASSUME pc[q] \in CreateSteps PROVE CreationHolds(q)'
    BY <1>1, NotCreating
  <2>1. CreationHolds(q) /\ Preserves(job[q].app) /\ Disks(job[q]) \subseteq Containers
    BY <1>5, AnyJob DEF StorageInv, Active, Steps, TypeInv, Disks
  <2> QED BY <1>1, <1>2, <2>1
          DEF CreationHolds, Preserves, Disks, ClaimsOf, Active
<1>8. ASSUME NEW q \in Requests, pc'[q] \in CleanUpStage
      PROVE  ~Deployed(job[q].app)'
  <2>1. pc[q] \in CleanUpStage /\ Active(q)
    BY <1>1, <1>8 DEF CleanUpStage, Active, Steps, DeleteSteps
  <2> QED BY <1>1, <1>4, <2>1, AnyJob DEF StorageInv, TypeInv
<1> QED BY <1>6, <1>7, <1>8 DEF StorageInv

LEMMA NextStorage ==
  ASSUME Serial, Drained, DistinctClaimNames, TypeInv, StorageInv, [Next]_vars
  PROVE  StorageInv'
<1>1. CASE UNCHANGED vars
  BY <1>1 DEF StorageInv, DeployedHasIdentityAndStorage, CreationHolds, Deployed,
     Live, Active, Disks, ClaimsOf, vars, cluster
<1>2. CASE Next
  BY <1>2, StepStorage, ArriveStorage, CallFailsStorage, CrashStorage,
     ControllerStorage DEF Next
<1> QED BY <1>1, <1>2

LEMMA InitStorage == Init => StorageInv
BY DEF Init, StorageInv, DeployedHasIdentityAndStorage, Deployed, CreationHolds,
   CreateSteps, CleanUpStage

-----------------------------------------------------------------------------

THEOREM StorageInvariance ==
  ASSUME Serial, Drained, DistinctClaimNames
  PROVE  Spec => []StorageInv
<1>1. TypeInv /\ StorageInv /\ [Next]_vars => StorageInv'
  BY NextStorage
<1> QED BY <1>1, InitStorage, TypeInvariance, PTL DEF Spec

\* Whatever interleaves, fails or crashes, a deployed app has its
\* ServiceAccount and the claims its pods mount.
THEOREM DeployedAppsAreComplete ==
  ASSUME Serial, Drained, DistinctClaimNames
  PROVE  Spec => []DeployedHasIdentityAndStorage
<1>1. StorageInv => DeployedHasIdentityAndStorage
  BY DEF StorageInv
<1> QED BY <1>1, StorageInvariance, PTL

LEMMA OnlyItsOwnStepAnswers ==
  ASSUME TypeInv, NEW r \in Requests, Active(r), pc'[r] = "ok", [Next]_vars,
         job[r].op = "create"
  PROVE  /\ pc[r] \in DeployStage
         /\ DepPatch(r) \/ DepReread(r) \/ DepPost(r) \/ DepConflict(r)
<1>1. pc[r] \in CreateSteps
  BY DEF TypeInv, RequestInv, WellFormed, DeleteJobs, ReviseJobs, AutoScaleJobs,
     FixedScaleJobs
<1>2. pc[r] # "ok"
  BY DEF Active, Steps, CreateSteps, DeleteSteps, ReviseSteps, AutoScaleSteps,
     FixedScaleSteps
<1>3. ~Crash
  BY <1>1, <1>2 DEF Crash
<1>4. pc' # pc
  BY <1>2
<1>5. Next
  BY <1>4 DEF vars
<1>6. ~(\E p \in Claims : ClaimGone(p)) /\ ~(\E a \in Apps : AutoScaled(a))
  BY <1>4 DEF ClaimGone, AutoScaled
<1>7. PICK q \in Requests : Step(q) \/ CallFails(q) \/ \E j \in Workload : Arrive(q, j)
  BY <1>3, <1>5, <1>6 DEF Next
<1>8. \E s : Await(q, s)
  BY <1>7 DEF Step, Find, CreateStep, SaRead, SaPost, SaReread, PvcRead,
     Provisioned, PvcPost, PvcReread, DepRead, DepPatch, DepReread, DepPost,
     DepConflict, DeleteStep, UndeployRead, Undeploy, Unbind, UnmountRead,
     Unmount, ReviseStep, ResizeRead, Resize, PvcFind, ExpandRead, Expand,
     ScaleStep, ScaleRead, Scale, HpaRead, HpaPost, HpaReplace, HpaDelete,
     CallFails, Arrive, Answered
<1>9. q = r
  BY <1>2, <1>8 DEF Await, TypeInv, TypeOK, RequestTypeOK
<1>10. ~(\E j \in Workload : Arrive(r, j))
  BY DEF Arrive
<1>11. ~CallFails(r)
  BY <1>1 DEF CallFails, Await, AfterException, CreateSteps, TypeInv, TypeOK,
     RequestTypeOK
<1>12. CreateStep(r)
  BY <1>1, <1>7, <1>9, <1>10, <1>11 DEF Step, Find, DeleteStep, UndeployRead,
     Undeploy, Unbind, UnmountRead, Unmount, ReviseStep, ResizeRead, Resize,
     PvcFind, ExpandRead, Expand, ScaleStep, ScaleRead, Scale, HpaRead, HpaPost,
     HpaReplace, HpaDelete, CreateSteps
<1>13. pc \in [Requests -> Steps \cup Answers \cup {"idle"}]
  BY DEF TypeInv, TypeOK, RequestTypeOK
<1>14. /\ ~SaRead(r) /\ ~SaReread(r) /\ ~PvcReread(r) /\ ~DepRead(r)
       /\ \A c \in Containers : ~PvcRead(r, c)
  BY <1>13 DEF SaRead, SaReread, PvcRead, PvcReread, Provisioned, DepRead,
     Await, NextClaim
<1>15. ~SaPost(r) /\ ~PvcPost(r)
  BY <1>13 DEF SaPost, PvcPost, Answered, Await, NextClaim, AfterException
<1> QED BY <1>12, <1>14, <1>15
        DEF CreateStep, DeployStage, DepPatch, DepReread, DepPost, DepConflict

\* A creation answered with success has delivered what it promises.
THEOREM CreationsDeliver ==
  ASSUME Serial, Drained, DistinctClaimNames
  PROVE  Spec => CreateDelivers
<1>1. ASSUME TypeInv, StorageInv, [Next]_vars, NEW r \in Requests, Active(r),
             pc'[r] = "ok", job[r].op = "create"
      PROVE  /\ Deployed(job[r].app)'
             /\ job[r].app \in identity'
             /\ \A c \in Disks(job[r]) : Live(PvcName[job[r].app, c])'
  <2>1. /\ pc[r] \in DeployStage /\ pc[r] \in CreateSteps
        /\ DepPatch(r) \/ DepReread(r) \/ DepPost(r) \/ DepConflict(r)
    BY <1>1, OnlyItsOwnStepAnswers DEF DeployStage, CreateSteps
  <2>2. job[r] \in CreateJobs /\ job[r].app \in Apps /\ todo[r] = {}
    BY <1>1, <2>1, CreateJob DEF TypeInv, CreateJobs
  <2>3. /\ job[r].app \in identity
        /\ \A c \in Disks(job[r]) : Live(PvcName[job[r].app, c])
    BY <1>1, <2>1, <2>2 DEF StorageInv, CreationHolds
  <2>4. UNCHANGED <<identity, claim, leaving, job>>
    BY <2>1 DEF DepPatch, DepReread, DepPost, DepConflict, Unlooped, cluster
  <2>5. NewDeployment(job[r]) \in Deployments
        /\ \A d \in Deployments : Patched(d, job[r]) \in Deployments
    BY <2>2 DEF NewDeployment, Patched, Deployments, CreateJobs, Disks
  <2>6. Deployed(job[r].app)'
    <3>1. CASE DepPatch(r)
      <4>1. /\ Deployed(job[r].app)
            /\ deployment'[job[r].app] = Patched(deployment[job[r].app], job[r])
        BY <1>1, <2>2, <3>1 DEF DepPatch, Await, TypeInv, TypeOK, ClusterTypeOK,
           RequestTypeOK
      <4>2. deployment[job[r].app] \in Deployments
        BY <1>1, <2>2, <4>1 DEF Deployed, TypeInv, TypeOK, ClusterTypeOK
      <4> QED BY <2>4, <2>5, <4>1, <4>2, AbsentAssumption DEF Deployed
    <3>2. CASE DepPost(r)
      <4>1. deployment'[job[r].app] = NewDeployment(job[r])
        BY <1>1, <2>2, <3>2 DEF DepPost, Await, TypeInv, TypeOK, ClusterTypeOK,
           RequestTypeOK
      <4> QED BY <2>4, <2>5, <4>1, AbsentAssumption DEF Deployed
    <3>3. CASE DepReread(r) \/ DepConflict(r)
      BY <1>1, <3>3 DEF DepReread, DepConflict, Await, Deployed, cluster, Unlooped,
         TypeInv, TypeOK, RequestTypeOK
    <3> QED BY <2>1, <3>1, <3>2, <3>3
  <2> QED BY <2>3, <2>4, <2>6 DEF Live, Disks
<1>2. TypeInv /\ StorageInv /\ [Next]_vars =>
        [\A r \in Requests :
           (Active(r) /\ pc'[r] = "ok" /\ job[r].op = "create") =>
             /\ Deployed(job[r].app)'
             /\ job[r].app \in identity'
             /\ \A c \in Disks(job[r]) : Live(PvcName[job[r].app, c])']_vars
  BY <1>1
<1> QED BY <1>2, StorageInvariance, TypeInvariance, PTL DEF Spec, CreateDelivers

-----------------------------------------------------------------------------
(* What a deletion leaves behind, as long as nothing failed.               *)

\* A step adds nothing to what there is of an app, ...
Quiet(a) ==
  /\ Deployed(a)' => Deployed(a) /\ deployment'[a].volumes = deployment[a].volumes
  /\ a \in identity' => a \in identity
  /\ \A c \in Containers : Live(PvcName[a, c])' => Live(PvcName[a, c])

\* ... and takes nothing away from it.
Stays(a) == Preserves(a) /\ (Deployed(a) => Deployed(a)')

LEMMA UntouchedStays ==
  ASSUME UNCHANGED cluster
  PROVE  \A a \in Apps : Quiet(a) /\ Stays(a)
BY DEF cluster, Quiet, Stays, Preserves, Live, Deployed

\* All creations of an app ask for the disks it can have.
LEMMA WorkloadDisks ==
  ASSUME UniformDisks, NEW j \in Workload, j.op = "create"
  PROVE  Disks(j) = DisksOf(j.app)
BY DEF UniformDisks, DisksOf

LEMMA NotLost ==
  ASSUME TypeInv, NEW r \in Requests, NEW s, Answered(r, s), faults = 0, faults' = 0
  PROVE  Await(r, s) /\ pc' = [pc EXCEPT ![r] = pc'[r]] /\ pc'[r] = s
BY DEF Answered, Await, TypeInv, TypeOK, RequestTypeOK

LEMMA Awaited ==
  ASSUME TypeInv, NEW r \in Requests, NEW s, Await(r, s)
  PROVE  pc' = [pc EXCEPT ![r] = pc'[r]] /\ pc'[r] = s
BY DEF Await, TypeInv, TypeOK, RequestTypeOK

LEMMA FaultsGrow ==
  ASSUME TypeInv, [Next]_vars, faults' = 0
  PROVE  faults = 0
<1>1. faults \in Nat
  BY FaultsAssumption DEF TypeInv, TypeOK, HistoryTypeOK
<1>2. ASSUME NEW r \in Requests, Step(r)
      PROVE  faults' = faults \/ faults' = faults + 1
  <2>1. CASE Find(r) \/ DeleteStep(r)
    BY <2>1 DEF Find, DeleteStep, UndeployRead, Undeploy, Unbind, UnmountRead,
       Unmount, Answered
  <2>2. CASE CreateStep(r)
    BY <2>2 DEF CreateStep, SaRead, SaPost, SaReread, PvcRead, PvcPost, PvcReread,
       DepRead, DepPatch, DepReread, DepPost, DepConflict, Answered
  <2>3. CASE ReviseStep(r) \/ ScaleStep(r)
    BY <2>3 DEF ReviseStep, ResizeRead, Resize, PvcFind, ExpandRead, Expand,
       ScaleStep, ScaleRead, Scale, HpaRead, HpaPost, HpaReplace, HpaDelete,
       Answered
  <2> QED BY <1>2, <2>1, <2>2, <2>3 DEF Step
<1>3. ASSUME NEW r \in Requests, CallFails(r) \/ \E j \in Workload : Arrive(r, j)
      PROVE  faults' = faults \/ faults' = faults + 1
  BY <1>3 DEF CallFails, Arrive
<1>4. ASSUME Crash \/ (\E p \in Claims : ClaimGone(p)) \/ (\E a \in Apps : AutoScaled(a))
      PROVE  faults' = faults \/ faults' = faults + 1
  BY <1>4 DEF Crash, ClaimGone, AutoScaled
<1>5. CASE UNCHANGED vars
  BY <1>5 DEF vars
<1>6. faults' = faults \/ faults' = faults + 1
  BY <1>2, <1>3, <1>4, <1>5 DEF Next
<1> QED BY <1>1, <1>6

\* The operation of a request tells its steps.
LEMMA StepsOfOperation ==
  ASSUME TypeInv, NEW r \in Requests, Active(r)
  PROVE  /\ job[r].op = "create" <=> pc[r] \in CreateSteps
         /\ pc[r] \in CleanUpStage => job[r].op = "delete"
         /\ job[r].app \in Apps
<1>1. job[r].app \in Apps
  BY AnyJob DEF TypeInv
<1> QED BY <1>1 DEF TypeInv, RequestInv, WellFormed, CreateJobs, DeleteJobs,
     ReviseJobs, AutoScaleJobs, FixedScaleJobs, CreateSteps, DeleteSteps,
     ReviseSteps, AutoScaleSteps, FixedScaleSteps, CleanUpStage

\* A step of one request leaves what is owed for other apps and by other requests.
LEMMA CleanUpFrame ==
  ASSUME TypeInv, StorageInv, CleanUpInv, faults = 0,
         NEW r \in Requests, Active(r), Moves(r),
         NEW a \in Apps, job[r].app = a,
         \A b \in Apps : Quiet(b) \/ (b = a /\ job[r].op = "create" /\ Owned(b)'),
         \A b \in Apps : Stays(b) \/ (b = a /\ job[r].op = "delete"),
         Accounted(a)', CreationMeets(r)', DeletionHolds(r)'
  PROVE  CleanUpInv'
<1>1. /\ job' = job
      /\ \A q \in Requests \ {r} : /\ pc'[q] = pc[q] /\ todo'[q] = todo[q]
                                   /\ cur'[q] = cur[q]
      /\ \A q \in Requests : Active(q)' => Active(q)
  BY DEF Moves, Active, TypeInv, TypeOK, RequestTypeOK
<1>2. /\ \A b \in Apps : Owned(b) /\ Accounted(b)
      /\ \A q \in Requests : /\ Active(q) => job[q] \in Workload
                             /\ CreationMeets(q) /\ DeletionHolds(q)
  BY DEF CleanUpInv
<1>3. ASSUME NEW b \in Apps PROVE Owned(b)'
  BY <1>2 DEF Owned, Quiet
<1>4. ASSUME NEW b \in Apps, b # a PROVE Accounted(b)'
  <2>1. Creating(b) => Creating(b)'
    BY <1>1, <1>4 DEF Creating
  <2>2. CleaningUp(b) => CleaningUp(b)'
    BY <1>1, <1>4 DEF CleaningUp
  <2>3. Quiet(b) /\ Stays(b)
    BY <1>4
  <2> QED BY <1>2, <2>1, <2>2, <2>3 DEF Accounted, Quiet, Stays
<1>5. ASSUME NEW q \in Requests, q # r PROVE CreationMeets(q)'
  <2> SUFFICES ASSUME pc[q] \in {"sa_reread", "pvc_reread", "dep_patch", "dep_conflict"}
               PROVE  CreationMeets(q)'
    BY <1>1, <1>5 DEF CreationMeets
  <2>1. Active(q) /\ pc[q] \in CreateSteps /\ CreationHolds(q)
    BY DEF Active, Steps, CreateSteps, StorageInv
  <2>2. /\ job[q].app \in Apps
        /\ pc[q] = "pvc_reread" => cur[q] \in Containers
    BY <2>1, CreateJob, StepsOfOperation DEF TypeInv, Disks
  <2>3. Stays(job[q].app)
    BY <2>1, <2>2 DEF CreationHolds
  <2>4. pc[q] = "pvc_reread" => Live(CurrentClaim(q))
    BY <1>2, <2>1, <2>2 DEF CreationMeets, CreationHolds, ClaimsOf, CurrentClaim, Live
  <2>5. pc[q] = "pvc_reread" => claim'[CurrentClaim(q)] > 0
    BY <1>1, <2>2, <2>3, <2>4 DEF Stays, Preserves, CurrentClaim, Live
  <2> QED BY <1>1, <1>2, <1>5, <2>3, <2>5
          DEF CreationMeets, CurrentClaim, Stays, Preserves
<1>6. ASSUME NEW q \in Requests, q # r PROVE DeletionHolds(q)'
  <2> SUFFICES ASSUME pc[q] \in DeleteSteps \ {"find"}, job[q].op = "delete"
               PROVE  DeletionHolds(q)'
    BY <1>1, <1>6 DEF DeletionHolds
  <2>1. Active(q) /\ job[q].app \in Apps
    BY StepsOfOperation DEF Active, Steps
  <2>2. job[q].app = a => job[r].op # "create"
    BY <2>1, StepsOfOperation DEF StorageInv, CreationHolds
  <2>3. Quiet(job[q].app)
    BY <2>1, <2>2
  <2> QED BY <1>1, <1>2, <1>6, <2>3 DEF DeletionHolds, Quiet
<1>7. \A q \in Requests : Active(q)' => job'[q] \in Workload
  BY <1>1, <1>2
<1> QED BY <1>3, <1>4, <1>5, <1>6, <1>7 DEF CleanUpInv

\* A request that neither creates nor cleans up has nothing to account for.
LEMMA NeutralAccounted ==
  ASSUME TypeInv, CleanUpInv, faults = 0, NEW r \in Requests, Moves(r),
         pc[r] \notin CreateSteps \cup CleanUpStage,
         NEW a \in Apps, Quiet(a), Stays(a)
  PROVE  Accounted(a)'
<1>1. /\ job' = job /\ \A q \in Requests \ {r} : pc'[q] = pc[q]
      /\ Accounted(a)
  BY DEF Moves, CleanUpInv, TypeInv, TypeOK, RequestTypeOK
<1>2. Creating(a) => Creating(a)'
  BY <1>1 DEF Creating
<1>3. CleaningUp(a) => CleaningUp(a)'
  BY <1>1 DEF CleaningUp
<1> QED BY <1>1, <1>2, <1>3 DEF Accounted, Quiet, Stays

\* A creation accounts for what there is until the app is deployed.
LEMMA CreationAccounted ==
  ASSUME NEW r \in Requests, Moves(r), NEW a \in Apps, job[r].app = a,
         pc'[r] \in CreateSteps \/ Deployed(a)'
  PROVE  Accounted(a)'
BY DEF Accounted, Creating, Moves

LEMMA CreationFacts ==
  ASSUME TypeInv, CleanUpInv, faults = 0, NEW r \in Requests, pc[r] \in CreateSteps,
         UniformDisks
  PROVE  /\ Active(r) /\ job[r].op = "create" /\ job[r] \in CreateJobs
         /\ job[r].app \in Apps /\ Disks(job[r]) = DisksOf(job[r].app)
         /\ CreationMeets(r) /\ Owned(job[r].app)
         /\ Moves(r) => DeletionHolds(r)'
<1>1. Active(r) /\ job[r] \in CreateJobs /\ job[r].op = "create" /\ job[r].app \in Apps
  BY CreateJob DEF Active, Steps, TypeInv, CreateJobs
<1>2. job[r] \in Workload /\ CreationMeets(r) /\ Owned(job[r].app)
  BY <1>1 DEF CleanUpInv
<1>3. Moves(r) => DeletionHolds(r)'
  BY <1>1 DEF Moves, DeletionHolds
<1> QED BY <1>1, <1>2, <1>3, WorkloadDisks

LEMMA CreateReadCleanUp ==
  ASSUME UniformDisks, TypeInv, StorageInv, CleanUpInv, faults = 0,
         NEW r \in Requests, CreateRead(r)
  PROVE  CleanUpInv'
<1>1. pc[r] \in CreateSteps /\ Unlooped /\ UNCHANGED cluster
  BY DEF CreateRead, SaRead, SaReread, DepRead, DepReread, DepConflict, CreateSteps
<1>2. /\ Active(r) /\ job[r].op = "create" /\ job[r].app \in Apps
      /\ CreationMeets(r)
      /\ Moves(r) => DeletionHolds(r)'
  BY <1>1, CreationFacts
<1>3. PICK a \in Apps : job[r].app = a
  BY <1>2
<1>4. /\ pc' = [pc EXCEPT ![r] = pc'[r]]
      /\ \/ pc'[r] \in CreateSteps \ {"sa_reread", "pvc_reread", "dep_conflict"}
         \/ pc'[r] = "ok" /\ Deployed(a)
      /\ pc'[r] = "dep_patch" => Deployed(a)
  <2>1. CASE SaRead(r) \/ SaReread(r)
    BY <1>2, <1>3, <2>1, Awaited DEF SaRead, SaReread, CreationMeets, NextClaim,
       CreateSteps
  <2>2. CASE DepRead(r)
    BY <1>3, <2>2, Awaited DEF DepRead, CreateSteps
  <2>3. CASE DepReread(r)
    BY <1>3, <2>3, Awaited DEF DepReread, CreateSteps
  <2>4. CASE DepConflict(r)
    BY <1>2, <1>3, <2>4, Awaited DEF DepConflict, CreationMeets
  <2> QED BY <2>1, <2>2, <2>3, <2>4 DEF CreateRead
<1>5. Moves(r)
  BY <1>1, <1>4, UnloopedMoves DEF TypeInv, TypeOK
<1>6. \A b \in Apps : Quiet(b) /\ Stays(b)
  BY <1>1, UntouchedStays
<1>7. CreationMeets(r)' /\ Accounted(a)'
  BY <1>3, <1>4, <1>5, <1>6, CreationAccounted
  DEF CreationMeets, Stays, Moves
<1> QED BY <1>2, <1>3, <1>5, <1>6, <1>7, CleanUpFrame

LEMMA SaPostCleanUp ==
  ASSUME UniformDisks, TypeInv, StorageInv, CleanUpInv, faults = 0, faults' = 0,
         NEW r \in Requests, SaPost(r)
  PROVE  CleanUpInv'
<1>1. pc[r] \in CreateSteps
  BY DEF SaPost, CreateSteps
<1>2. /\ Active(r) /\ job[r].op = "create" /\ job[r].app \in Apps
      /\ Owned(job[r].app)
      /\ Moves(r) => DeletionHolds(r)'
  BY <1>1, CreationFacts
<1>3. PICK a \in Apps : job[r].app = a
  BY <1>2
<1>4. /\ pc' = [pc EXCEPT ![r] = pc'[r]]
      /\ pc'[r] \in {"sa_reread", "pvc_read", "dep_read"}
      /\ pc'[r] = "sa_reread" => a \in identity'
      /\ identity' \in {identity, identity \cup {a}}
      /\ UNCHANGED <<deployment, claim, leaving>>
  BY <1>3, NotLost, Awaited DEF SaPost, NextClaim
<1>5. Moves(r)
  BY <1>4, UnloopedMoves DEF SaPost, TypeInv, TypeOK
<1>6. \A b \in Apps : (b # a => Quiet(b)) /\ Stays(b)
  BY <1>4 DEF Quiet, Stays, Preserves, Live, Deployed
<1>7. Owned(a)'
  BY <1>2, <1>3, <1>4 DEF Owned, Live, Deployed
<1>8. CreationMeets(r)' /\ Accounted(a)'
  BY <1>3, <1>4, <1>5, CreationAccounted DEF CreationMeets, CreateSteps, Moves
<1> QED BY <1>2, <1>3, <1>5, <1>6, <1>7, <1>8, CleanUpFrame

LEMMA CurrentClaimSize ==
  ASSUME TypeInv, NEW r \in Requests, pc[r] \in {"pvc_post", "pvc_reread"}
  PROVE  /\ CurrentClaim(r) \in Claims /\ claim[CurrentClaim(r)] \in Nat
         /\ cur[r] \in Disks(job[r]) /\ cur[r] \in Containers
         /\ job[r].disk[cur[r]] \in Nat /\ job[r].disk[cur[r]] > 0
<1>1. /\ pc[r] \in CreateSteps /\ job[r] \in CreateJobs
      /\ cur[r] \in Disks(job[r])
  BY CreateJob DEF TypeInv, CreateSteps
<1>2. /\ cur[r] \in Containers /\ job[r].app \in Apps
      /\ job[r].disk[cur[r]] \in Nat /\ job[r].disk[cur[r]] > 0
  BY <1>1 DEF CreateJobs, Disks
<1>3. CurrentClaim(r) \in Claims
  BY <1>2, NamesAssumption DEF CurrentClaim
<1> QED BY <1>1, <1>2, <1>3 DEF TypeInv, TypeOK, ClusterTypeOK

LEMMA PvcReadCleanUp ==
  ASSUME UniformDisks, TypeInv, StorageInv, CleanUpInv, faults = 0,
         NEW r \in Requests, (\E c \in Containers : PvcRead(r, c)) \/ PvcReread(r)
  PROVE  CleanUpInv'
<1>1. pc[r] \in CreateSteps /\ UNCHANGED cluster
  BY DEF PvcRead, PvcReread, CreateSteps
<1>2. /\ Active(r) /\ job[r].op = "create" /\ job[r].app \in Apps
      /\ CreationMeets(r)
      /\ Moves(r) => DeletionHolds(r)'
  BY <1>1, CreationFacts
<1>3. PICK a \in Apps : job[r].app = a
  BY <1>2
<1>4. Moves(r) /\ pc'[r] \in {"pvc_read", "pvc_post", "dep_read"}
  <2>1. CASE \E c \in Containers : PvcRead(r, c)
    BY <2>1 DEF PvcRead, Provisioned, Moves, Await, NextClaim, TypeInv, TypeOK,
       RequestTypeOK
  <2>2. CASE PvcReread(r)
    <3>1. claim[CurrentClaim(r)] > 0 /\ Provisioned(r, cur[r])
      BY <1>2, <2>2, CurrentClaimSize DEF PvcReread, CreationMeets
    <3> QED BY <2>2, <3>1 DEF PvcReread, Provisioned, Moves, Await, NextClaim,
            TypeInv, TypeOK, RequestTypeOK
  <2> QED BY <2>1, <2>2
<1>5. \A b \in Apps : Quiet(b) /\ Stays(b)
  BY <1>1, UntouchedStays
<1>6. CreationMeets(r)' /\ Accounted(a)'
  BY <1>3, <1>4, CreationAccounted DEF CreationMeets, CreateSteps
<1> QED BY <1>2, <1>3, <1>4, <1>5, <1>6, CleanUpFrame

LEMMA PvcPostCleanUp ==
  ASSUME DistinctClaimNames, UniformDisks, TypeInv, StorageInv, CleanUpInv,
         faults = 0, faults' = 0, NEW r \in Requests, PvcPost(r)
  PROVE  CleanUpInv'
<1>1. pc[r] = "pvc_post" /\ pc[r] \in CreateSteps
  BY DEF PvcPost, CreateSteps
<1>2. /\ Active(r) /\ job[r].op = "create" /\ job[r].app \in Apps
      /\ Disks(job[r]) = DisksOf(job[r].app)
      /\ Owned(job[r].app)
      /\ Moves(r) => DeletionHolds(r)'
  BY <1>1, CreationFacts
<1>3. /\ cur[r] \in Disks(job[r]) /\ cur[r] \in Containers
      /\ job[r].disk[cur[r]] \in Nat /\ job[r].disk[cur[r]] > 0
  BY <1>1, CurrentClaimSize
<1>4. PICK a \in Apps : job[r].app = a
  BY <1>2
<1>5. PICK d \in Containers : cur[r] = d
  BY <1>3
<1>6. PvcName[a, d] \in Claims /\ CurrentClaim(r) = PvcName[a, d]
  BY <1>4, <1>5, NamesAssumption DEF CurrentClaim
<1>7. /\ pc' = [pc EXCEPT ![r] = pc'[r]]
      /\ pc'[r] \in {"pvc_reread", "pvc_read", "dep_read"}
      /\ pc'[r] = "pvc_reread" => claim'[PvcName[a, d]] > 0
      /\ UNCHANGED <<identity, deployment, leaving, job, cur>>
      /\ \/ UNCHANGED claim
         \/ /\ claim[PvcName[a, d]] = 0
            /\ claim' = [claim EXCEPT ![PvcName[a, d]] = job[r].disk[cur[r]]]
  <2>1. claim[CurrentClaim(r)] = 0 \/ claim[CurrentClaim(r)] > 0
    BY <1>1, CurrentClaimSize
  <2>2. CASE claim[CurrentClaim(r)] = 0
    <3>1. /\ claim' = [claim EXCEPT ![CurrentClaim(r)] = job[r].disk[cur[r]]]
          /\ Answered(r, NextClaim(todo[r] \ {cur[r]}, "pvc_read", "dep_read"))
      BY <2>2 DEF PvcPost
    <3>2. /\ pc' = [pc EXCEPT ![r] = pc'[r]]
          /\ pc'[r] \in {"pvc_read", "dep_read"}
      BY <3>1, NotLost DEF NextClaim
    <3> QED BY <1>6, <2>2, <3>1, <3>2 DEF PvcPost
  <2>3. CASE claim[CurrentClaim(r)] > 0
    <3>1. /\ Await(r, "pvc_reread")
          /\ UNCHANGED <<claim, identity, deployment, leaving, job, cur>>
      BY <2>3 DEF PvcPost
    <3>2. /\ pc' = [pc EXCEPT ![r] = pc'[r]] /\ pc'[r] = "pvc_reread"
      BY <3>1, Awaited
    <3> QED BY <1>6, <2>3, <3>1, <3>2
  <2> QED BY <2>1, <2>2, <2>3
<1>8. Moves(r)
  BY <1>7 DEF PvcPost, Moves, TypeInv, TypeOK, RequestTypeOK
<1>9. \A p \in Claims :
        /\ Live(p) => Live(p)'
        /\ (p # PvcName[a, d] /\ Live(p)') => Live(p)
  BY <1>3, <1>6, <1>7 DEF Live, TypeInv, TypeOK, ClusterTypeOK
<1>10. \A b \in Apps, c \in Containers :
         /\ PvcName[b, c] \in Claims
         /\ PvcName[b, c] = PvcName[a, d] => b = a /\ c = d
  <2> SUFFICES ASSUME NEW b \in Apps, NEW c \in Containers
               PROVE  /\ PvcName[b, c] \in Claims
                      /\ PvcName[b, c] = PvcName[a, d] => b = a /\ c = d
    OBVIOUS
  <2>1. <<b, c>> \in Apps \X Containers /\ <<a, d>> \in Apps \X Containers
    OBVIOUS
  <2> QED BY <2>1, NamesAssumption DEF DistinctClaimNames
<1>11. \A b \in Apps : (b # a => Quiet(b)) /\ Stays(b)
  BY <1>7, <1>9, <1>10 DEF Quiet, Stays, Preserves, Deployed
<1>12. Owned(a)'
  BY <1>2, <1>3, <1>4, <1>5, <1>7, <1>9, <1>10 DEF Owned, Deployed
<1>13. CreationMeets(r)' /\ Accounted(a)'
  BY <1>4, <1>6, <1>7, <1>8, CreationAccounted
  DEF CreationMeets, CreateSteps, CurrentClaim
<1> QED BY <1>2, <1>4, <1>8, <1>11, <1>12, <1>13, CleanUpFrame

LEMMA DepWriteCleanUp ==
  ASSUME UniformDisks, TypeInv, StorageInv, CleanUpInv, faults = 0, faults' = 0,
         NEW r \in Requests, DepPatch(r) \/ DepPost(r)
  PROVE  CleanUpInv'
<1>1. pc[r] \in CreateSteps
  BY DEF DepPatch, DepPost, CreateSteps
<1>2. /\ Active(r) /\ job[r].op = "create" /\ job[r] \in CreateJobs
      /\ job[r].app \in Apps /\ Disks(job[r]) = DisksOf(job[r].app)
      /\ CreationMeets(r) /\ Owned(job[r].app)
      /\ Moves(r) => DeletionHolds(r)'
  BY <1>1, CreationFacts
<1>3. PICK a \in Apps : job[r].app = a
  BY <1>2
<1>4. /\ NewDeployment(job[r]) \in Deployments
      /\ \A d \in Deployments : /\ Patched(d, job[r]) \in Deployments
                                /\ Patched(d, job[r]).volumes = d.volumes
  BY <1>2 DEF NewDeployment, Patched, Deployments, CreateJobs, Disks
<1>5. /\ pc' = [pc EXCEPT ![r] = pc'[r]]
      /\ pc'[r] \in {"ok", "dep_conflict"} /\ Deployed(a)'
      /\ Deployed(a) => deployment'[a].volumes = deployment[a].volumes
      /\ ~Deployed(a) => deployment'[a].volumes = DisksOf(a)
      /\ \A b \in Apps \ {a} : deployment'[b] = deployment[b]
      /\ UNCHANGED <<identity, claim, leaving>>
  <2>1. CASE DepPatch(r)
    <3>1. Deployed(a) /\ deployment[a] \in Deployments
      BY <1>2, <1>3, <2>1 DEF DepPatch, CreationMeets, Deployed, TypeInv, TypeOK,
         ClusterTypeOK
    <3>2. deployment' = [deployment EXCEPT ![a] = Patched(deployment[a], job[r])]
      BY <1>3, <2>1, <3>1 DEF DepPatch
    <3> QED BY <1>3, <1>4, <2>1, <3>1, <3>2, NotLost, AbsentAssumption
            DEF DepPatch, Deployed, TypeInv, TypeOK, ClusterTypeOK
  <2>2. CASE DepPost(r)
    <3>1. NewDeployment(job[r]).volumes = DisksOf(a)
      BY <1>2, <1>3 DEF NewDeployment
    <3>2. CASE Deployed(a)
      BY <1>3, <2>2, <3>2, Awaited DEF DepPost, Deployed
    <3>3. CASE ~Deployed(a)
      BY <1>3, <1>4, <2>2, <3>1, <3>3, NotLost, AbsentAssumption
      DEF DepPost, Deployed, TypeInv, TypeOK, ClusterTypeOK
    <3> QED BY <3>2, <3>3
  <2> QED BY <2>1, <2>2
<1>6. Moves(r)
  BY <1>5, UnloopedMoves DEF DepPatch, DepPost, TypeInv, TypeOK
<1>7. \A b \in Apps : (b # a => Quiet(b)) /\ Stays(b)
  BY <1>5 DEF Quiet, Stays, Preserves, Live, Deployed
<1>8. Owned(a)'
  BY <1>2, <1>3, <1>5 DEF Owned, Live
<1>9. CreationMeets(r)' /\ Accounted(a)'
  BY <1>3, <1>5, <1>6, CreationAccounted DEF CreationMeets, Moves
<1> QED BY <1>2, <1>3, <1>6, <1>7, <1>8, <1>9, CleanUpFrame

LEMMA CreateCleanUp ==
  ASSUME DistinctClaimNames, UniformDisks, TypeInv, StorageInv, CleanUpInv,
         faults = 0, faults' = 0, NEW r \in Requests, CreateStep(r)
  PROVE  CleanUpInv'
BY CreateReadCleanUp, SaPostCleanUp, PvcReadCleanUp, PvcPostCleanUp, DepWriteCleanUp
   DEF CreateStep, CreateRead

\* A deletion that cleans up has yet to visit every claim that it leaves, and
\* it is answered when there is none.
Cleared(r) ==
  /\ \A c \in Containers : Live(PvcName[job[r].app, c])' => c \in todo'[r]
  /\ pc'[r] # "unbind" => job[r].app \notin identity'
  /\ pc'[r] = "ok" => todo'[r] = {}

Clears(r) ==
  /\ Moves(r) /\ pc'[r] \in CleanUpStage \cup {"ok"} /\ Cleared(r)
  /\ \A b \in Apps : Quiet(b) /\ (b # job[r].app => Stays(b))

LEMMA DeletionFacts ==
  ASSUME TypeInv, CleanUpInv, faults = 0, NEW r \in Requests,
         pc[r] \in DeleteSteps \ {"find"}
  PROVE  /\ Active(r) /\ job[r].op = "delete" /\ job[r].app \in Apps
         /\ \A c \in Containers : Live(PvcName[job[r].app, c]) => c \in todo[r]
         /\ pc[r] \in {"unmount_read", "unmount"} => job[r].app \notin identity
<1>1. Active(r) /\ job[r].op = "delete" /\ job[r].app \in Apps
  BY DeleteJob DEF TypeInv, DeleteJobs, Active, Steps
<1> QED BY <1>1 DEF CleanUpInv, DeletionHolds

LEMMA UndeployClears ==
  ASSUME TypeInv, CleanUpInv, faults = 0, faults' = 0, NEW r \in Requests,
         Undeploy(r) \/ Unbind(r)
  PROVE  Clears(r)
<1>1. pc[r] \in DeleteSteps \ {"find"}
  BY DEF Undeploy, Unbind, DeleteSteps
<1>2. /\ job[r].app \in Apps
      /\ \A c \in Containers : Live(PvcName[job[r].app, c]) => c \in todo[r]
  BY <1>1, DeletionFacts
<1>3. PICK a \in Apps : job[r].app = a
  BY <1>2
<1>4. /\ pc' = [pc EXCEPT ![r] = pc'[r]]
      /\ pc'[r] \in CleanUpStage \cup {"ok"}
      /\ pc'[r] # "unbind" => Unbind(r)
      /\ pc'[r] = "ok" => todo[r] = {}
  <2>1. CASE Undeploy(r)
    BY <2>1, NotLost DEF Undeploy, CleanUpStage
  <2>2. CASE Unbind(r)
    BY <2>2, NotLost DEF Unbind, NextClaim, CleanUpStage
  <2> QED BY <2>1, <2>2
<1>5. Moves(r) /\ todo' = todo /\ job' = job
  BY <1>4, UnloopedMoves DEF Undeploy, Unbind, Unlooped, TypeInv, TypeOK
<1>6. /\ UNCHANGED <<claim, leaving>>
      /\ \/ /\ deployment' = [deployment EXCEPT ![a] = NoDeployment]
            /\ identity' = identity
         \/ deployment' = deployment /\ identity' = identity \ {a}
      /\ Unbind(r) => identity' = identity \ {a}
  BY <1>3 DEF Undeploy, Unbind
<1>7. \A b \in Apps : Quiet(b) /\ (b # a => Stays(b))
  BY <1>6 DEF Quiet, Stays, Preserves, Live, Deployed, TypeInv, TypeOK, ClusterTypeOK
<1>8. Cleared(r)
  BY <1>2, <1>3, <1>4, <1>5, <1>6 DEF Cleared, Live
<1> QED BY <1>3, <1>4, <1>5, <1>7, <1>8 DEF Clears

LEMMA UnmountReadClears ==
  ASSUME TypeInv, CleanUpInv, faults = 0, NEW r \in Requests, NEW c \in Containers,
         UnmountRead(r, c)
  PROVE  Clears(r)
<1>1. pc[r] \in DeleteSteps \ {"find"} /\ pc[r] \in {"unmount_read", "unmount"}
  BY DEF UnmountRead, DeleteSteps
<1>2. /\ job[r].app \in Apps /\ job[r].app \notin identity
      /\ \A d \in Containers : Live(PvcName[job[r].app, d]) => d \in todo[r]
  BY <1>1, DeletionFacts
<1>3. PICK a \in Apps : job[r].app = a
  BY <1>2
<1>4. /\ Moves(r) /\ UNCHANGED cluster
      /\ pc'[r] \in CleanUpStage \cup {"ok"}
      /\ pc'[r] # "unbind"
      /\ pc'[r] = "ok" => todo'[r] = {}
      /\ \/ todo'[r] = todo[r]
         \/ todo'[r] = todo[r] \ {c} /\ ~Live(PvcName[a, c])
  <2>1. PvcName[a, c] = PvcName[job[r].app, c] /\ todo[r] \in SUBSET Containers
    BY <1>3 DEF TypeInv, TypeOK, RequestTypeOK
  <2>2. CASE /\ claim[PvcName[job[r].app, c]] > 0
             /\ Await(r, "unmount") /\ UNCHANGED todo
    <3>1. pc' = [pc EXCEPT ![r] = pc'[r]] /\ pc'[r] = "unmount" /\ todo'[r] = todo[r]
      BY <2>2, Awaited
    <3> QED BY <2>2, <3>1 DEF UnmountRead, Moves, CleanUpStage, TypeInv, TypeOK,
            RequestTypeOK
  <2>3. CASE /\ claim[PvcName[job[r].app, c]] = 0
             /\ Await(r, NextClaim(todo[r] \ {c}, "unmount_read", "ok"))
             /\ todo' = [todo EXCEPT ![r] = @ \ {c}]
    <3>1. /\ pc' = [pc EXCEPT ![r] = pc'[r]]
          /\ pc'[r] = NextClaim(todo[r] \ {c}, "unmount_read", "ok")
      BY <2>3, Awaited
    <3>2. todo'[r] = todo[r] \ {c}
      BY <2>3 DEF TypeInv, TypeOK, RequestTypeOK
    <3>3. ~Live(PvcName[a, c])
      <4>1. claim[PvcName[a, c]] = 0
        BY <2>1, <2>3
      <4>2. ~(0 > 0)
        OBVIOUS
      <4> QED BY <4>1, <4>2, Zenon DEF Live
    <3>4. Moves(r)
      BY <2>3, <3>1 DEF UnmountRead, Moves, TypeInv, TypeOK, RequestTypeOK
    <3> QED BY <3>1, <3>2, <3>3, <3>4 DEF UnmountRead, NextClaim, CleanUpStage
  <2> QED BY <2>2, <2>3 DEF UnmountRead
<1>5. \A b \in Apps : Quiet(b) /\ Stays(b)
  BY <1>4, UntouchedStays
<1>6. Cleared(r)
  BY <1>2, <1>3, <1>4, <1>5 DEF Cleared, Quiet, Moves
<1> QED BY <1>4, <1>5, <1>6 DEF Clears

LEMMA UnmountClears ==
  ASSUME DistinctClaimNames, TypeInv, CleanUpInv, faults = 0, faults' = 0,
         NEW r \in Requests, Unmount(r)
  PROVE  Clears(r)
<1>1. /\ pc[r] \in DeleteSteps \ {"find"} /\ pc[r] \in {"unmount_read", "unmount"}
      /\ cur[r] \in todo[r] /\ cur[r] \in Containers
  <2>1. pc[r] = "unmount" /\ pc[r] \in DeleteSteps \ {"find"}
    BY DEF Unmount, DeleteSteps
  <2> QED BY <2>1, DeleteJob DEF TypeInv, TypeOK, RequestTypeOK
<1>2. /\ job[r].app \in Apps /\ job[r].app \notin identity
      /\ \A c \in Containers : Live(PvcName[job[r].app, c]) => c \in todo[r]
  BY <1>1, DeletionFacts
<1>3. PICK a \in Apps : job[r].app = a
  BY <1>2
<1>4. PICK d \in Containers : cur[r] = d
  BY <1>1
<1>5. PvcName[a, d] \in Claims /\ CurrentClaim(r) = PvcName[a, d]
  BY <1>3, <1>4, NamesAssumption DEF CurrentClaim
<1>6. /\ pc' = [pc EXCEPT ![r] = pc'[r]]
      /\ pc'[r] \in {"unmount_read", "ok"}
      /\ pc'[r] = "ok" => todo[r] \ {d} = {}
  BY <1>4, NotLost DEF Unmount, NextClaim
<1>7. Moves(r) /\ todo'[r] = todo[r] \ {d}
  BY <1>4, <1>6 DEF Unmount, Moves, TypeInv, TypeOK, RequestTypeOK
<1>8. /\ UNCHANGED <<identity, deployment, claim>>
      /\ leaving \subseteq leaving' /\ leaving' \subseteq leaving \cup {PvcName[a, d]}
      /\ ~Live(PvcName[a, d])'
  BY <1>5 DEF Unmount, Live
<1>9. \A c \in Containers : Live(PvcName[a, c])' => Live(PvcName[a, c]) /\ c # d
  BY <1>8 DEF Live
<1>10. ASSUME NEW b \in Apps
       PROVE  Quiet(b) /\ (b # a => Stays(b))
  <2>1. Quiet(b)
    BY <1>8 DEF Quiet, Live, Deployed
  <2>2. ASSUME b # a PROVE Stays(b)
    <3>1. ASSUME NEW c \in Containers PROVE PvcName[b, c] # PvcName[a, d]
      <4>1. /\ <<b, c>> \in Apps \X Containers /\ <<a, d>> \in Apps \X Containers
            /\ <<b, c>> # <<a, d>>
        BY <2>2
      <4> QED BY <4>1 DEF DistinctClaimNames
    <3> QED BY <1>8, <3>1 DEF Stays, Preserves, Live, Deployed
  <2> QED BY <2>1, <2>2
<1>11. Cleared(r)
  BY <1>2, <1>3, <1>6, <1>7, <1>8, <1>9 DEF Cleared, Moves
<1> QED BY <1>3, <1>6, <1>7, <1>10, <1>11 DEF Clears, CleanUpStage

LEMMA ClearsCleanUp ==
  ASSUME TypeInv, StorageInv, CleanUpInv, faults = 0, NEW r \in Requests,
         pc[r] \in DeleteSteps \ {"find"}, Clears(r)
  PROVE  CleanUpInv'
<1>1. Active(r) /\ job[r].op = "delete" /\ job[r].app \in Apps
  BY DeletionFacts
<1>2. PICK a \in Apps : job[r].app = a
  BY <1>1
<1>3. /\ Moves(r) /\ job' = job /\ pc'[r] \in CleanUpStage \cup {"ok"}
      /\ \A b \in Apps : Quiet(b) /\ (b # a => Stays(b))
      /\ \A c \in Containers : Live(PvcName[a, c])' => c \in todo'[r]
      /\ pc'[r] # "unbind" => a \notin identity'
      /\ pc'[r] = "ok" => todo'[r] = {}
  BY <1>2 DEF Clears, Cleared, Moves
<1>4. CreationMeets(r)'
  BY <1>3 DEF CreationMeets, CleanUpStage
<1>5. DeletionHolds(r)'
  BY <1>2, <1>3 DEF DeletionHolds
<1>6. Accounted(a)'
  BY <1>2, <1>3 DEF Accounted, CleaningUp
<1> QED BY <1>1, <1>2, <1>3, <1>4, <1>5, <1>6, CleanUpFrame

LEMMA UndeployReadCleanUp ==
  ASSUME TypeInv, StorageInv, CleanUpInv, faults = 0, NEW r \in Requests,
         UndeployRead(r)
  PROVE  CleanUpInv'
<1>1. /\ pc[r] \in DeleteSteps \ {"find"} /\ pc[r] \notin CreateSteps \cup CleanUpStage
      /\ UNCHANGED cluster /\ Unlooped
  BY DEF UndeployRead, DeleteSteps, CreateSteps, CleanUpStage
<1>2. /\ Active(r) /\ job[r].op = "delete" /\ job[r].app \in Apps
      /\ \A c \in Containers : Live(PvcName[job[r].app, c]) => c \in todo[r]
  BY <1>1, DeletionFacts
<1>3. PICK a \in Apps : job[r].app = a
  BY <1>2
<1>4. pc' = [pc EXCEPT ![r] = pc'[r]] /\ pc'[r] \in {"undeploy", "failed"}
  BY Awaited DEF UndeployRead
<1>5. Moves(r) /\ todo' = todo /\ job' = job
  BY <1>1, <1>4, UnloopedMoves DEF Unlooped, TypeInv, TypeOK
<1>6. \A b \in Apps : Quiet(b) /\ Stays(b)
  BY <1>1, UntouchedStays
<1>7. Accounted(a)'
  BY <1>1, <1>5, <1>6, NeutralAccounted
<1>8. CreationMeets(r)'
  BY <1>4 DEF CreationMeets
<1>9. DeletionHolds(r)'
  BY <1>2, <1>3, <1>4, <1>5, <1>6 DEF DeletionHolds, Quiet
<1> QED BY <1>2, <1>3, <1>5, <1>6, <1>7, <1>8, <1>9, CleanUpFrame

LEMMA DeleteClears ==
  ASSUME DistinctClaimNames, TypeInv, CleanUpInv, faults = 0, faults' = 0,
         NEW r \in Requests, DeleteStep(r)
  PROVE  UndeployRead(r) \/ (pc[r] \in DeleteSteps \ {"find"} /\ Clears(r))
<1>1. CASE Undeploy(r) \/ Unbind(r)
  BY <1>1, UndeployClears DEF Undeploy, Unbind, DeleteSteps
<1>2. CASE \E c \in Containers : UnmountRead(r, c)
  BY <1>2, UnmountReadClears DEF UnmountRead, DeleteSteps
<1>3. CASE Unmount(r)
  BY <1>3, UnmountClears DEF Unmount, DeleteSteps
<1> QED BY <1>1, <1>2, <1>3 DEF DeleteStep

LEMMA DeleteCleanUp ==
  ASSUME DistinctClaimNames, TypeInv, StorageInv, CleanUpInv, faults = 0, faults' = 0,
         NEW r \in Requests, DeleteStep(r)
  PROVE  CleanUpInv'
BY DeleteClears, ClearsCleanUp, UndeployReadCleanUp

LEMMA NeutralCleanUp ==
  ASSUME TypeInv, StorageInv, CleanUpInv, faults = 0, NEW r \in Requests,
         Active(r), Moves(r), pc[r] \notin CreateSteps \cup CleanUpStage,
         pc'[r] \notin CreateSteps, DeletionHolds(r)',
         \A b \in Apps : Quiet(b) /\ Stays(b)
  PROVE  CleanUpInv'
<1>1. PICK a \in Apps : job[r].app = a
  BY AnyJob DEF TypeInv
<1>2. Accounted(a)'
  BY NeutralAccounted
<1>3. CreationMeets(r)'
  BY DEF CreationMeets, CreateSteps
<1> QED BY <1>1, <1>2, <1>3, CleanUpFrame

LEMMA FindCleanUp ==
  ASSUME TypeInv, StorageInv, CleanUpInv, faults = 0, NEW r \in Requests, Find(r)
  PROVE  CleanUpInv'
<1>1. /\ Active(r) /\ pc[r] \notin CreateSteps \cup CleanUpStage
      /\ pc[r] = "find" /\ UNCHANGED cluster
  BY DEF Find, Active, Steps, DeleteSteps, CreateSteps, CleanUpStage
<1>2. PICK a \in Apps : job[r].app = a
  BY <1>1, AnyJob DEF TypeInv
<1>3. /\ pc' = [pc EXCEPT ![r] = pc'[r]]
      /\ pc'[r] = IF Deployed(a) THEN AfterFind(job[r]) ELSE "rejected"
  BY <1>2, Awaited DEF Find
<1>4. /\ Moves(r) /\ job' = job
      /\ (Deployed(a) /\ job[r].op = "delete") => todo'[r] = deployment[a].volumes
  BY <1>2, <1>3 DEF Find, Moves, TypeInv, TypeOK, RequestTypeOK
<1>5. \A b \in Apps : Quiet(b) /\ Stays(b)
  BY <1>1, UntouchedStays
<1>6. pc'[r] \notin CreateSteps
  BY <1>3 DEF AfterFind, AfterResize, AfterStorage, CreateSteps
<1>7. DeletionHolds(r)'
  <2>1. CASE Deployed(a) /\ job[r].op = "delete"
    <3>1. /\ todo'[r] = DisksOf(a) /\ pc'[r] = "undeploy_read"
          /\ \A c \in Containers : Live(PvcName[a, c]) => c \in DisksOf(a)
      BY <1>3, <1>4, <2>1 DEF CleanUpInv, Owned, AfterFind
    <3> QED BY <1>2, <1>4, <1>5, <3>1 DEF DeletionHolds, Quiet
  <2>2. CASE ~Deployed(a) \/ job[r].op # "delete"
    BY <1>3, <1>4, <2>2 DEF DeletionHolds, DeleteSteps
  <2> QED BY <2>1, <2>2
<1> QED BY <1>1, <1>4, <1>5, <1>6, <1>7, NeutralCleanUp

LEMMA ReviseCleanUp ==
  ASSUME TypeInv, StorageInv, CleanUpInv, faults = 0, NEW r \in Requests, ReviseStep(r)
  PROVE  CleanUpInv'
<1>1. /\ pc[r] \in {"resize_read", "resize", "pvc_find", "expand_read", "expand"}
      /\ Active(r) /\ job[r].disk \in Nat /\ job[r].op = "revise" /\ Unlooped
      /\ RevisedClaim(r) \in Claims
  <2>1. pc[r] \in {"resize_read", "resize", "pvc_find", "expand_read", "expand"}
        /\ Unlooped
    BY DEF ReviseStep, ResizeRead, Resize, PvcFind, ExpandRead, Expand
  <2>2. job[r] \in ReviseJobs
    BY <2>1, ReviseJob DEF TypeInv
  <2> QED BY <2>1, <2>2, NamesAssumption
          DEF ReviseJobs, Active, Steps, ReviseSteps, RevisedClaim
<1>2. \E t \in {"resize", "pvc_find", "expand_read", "expand", "scale_read", "ok",
                "rejected", "failed"} : Await(r, t)
  BY <1>1 DEF ReviseStep, ResizeRead, Resize, PvcFind, ExpandRead, Expand,
     Answered, AfterException, AfterResize, AfterStorage
<1>3. pc' = [pc EXCEPT ![r] = pc'[r]] /\ pc'[r] \notin CreateSteps
  BY <1>2, Awaited DEF CreateSteps
<1>4. Moves(r)
  BY <1>1, <1>3, UnloopedMoves DEF TypeInv, TypeOK
<1>5. UNCHANGED <<identity, deployment, leaving>>
  BY DEF ReviseStep, ResizeRead, Resize, PvcFind, ExpandRead, Expand, cluster
<1>6. \/ UNCHANGED claim
      \/ /\ claim[RevisedClaim(r)] > 0 /\ job[r].disk >= claim[RevisedClaim(r)]
         /\ claim' = [claim EXCEPT ![RevisedClaim(r)] = job[r].disk]
  BY DEF ReviseStep, ResizeRead, Resize, PvcFind, ExpandRead, Expand, cluster
<1>7. \A p \in Claims : Live(p)' <=> Live(p)
  BY <1>1, <1>5, <1>6 DEF Live, TypeInv, TypeOK, ClusterTypeOK
<1>8. \A b \in Apps, c \in Containers : PvcName[b, c] \in Claims
  BY NamesAssumption
<1>9. \A b \in Apps : Quiet(b) /\ Stays(b)
  BY <1>5, <1>7, <1>8 DEF Quiet, Stays, Preserves, Deployed
<1>10. DeletionHolds(r)'
  BY <1>1, <1>4 DEF DeletionHolds, Moves
<1> QED BY <1>1, <1>3, <1>4, <1>9, <1>10, NeutralCleanUp DEF CreateSteps, CleanUpStage

LEMMA ScaleCleanUp ==
  ASSUME TypeInv, StorageInv, CleanUpInv, faults = 0, NEW r \in Requests, ScaleStep(r)
  PROVE  CleanUpInv'
<1>1. /\ pc[r] \in {"scale_read", "scale", "hpa_read", "hpa_post",
                    "hpa_replace", "hpa_delete"}
      /\ Active(r) /\ Unlooped
  BY DEF ScaleStep, ScaleRead, Scale, HpaRead, HpaPost, HpaReplace, HpaDelete,
     Active, Steps, FixedScaleSteps, AutoScaleSteps
<1>2. job[r].op # "delete"
  BY <1>1, ScaleJob, HpaJob
  DEF TypeInv, ReviseJobs, FixedScaleJobs, AutoScaleJobs
<1>3. \E t \in {"scale", "scale_read", "hpa_post", "hpa_replace", "ok", "failed"} :
        Await(r, t)
  BY <1>1 DEF ScaleStep, ScaleRead, Scale, HpaRead, HpaPost, HpaReplace,
     HpaDelete, Answered, AfterException
<1>4. pc' = [pc EXCEPT ![r] = pc'[r]] /\ pc'[r] \notin CreateSteps
  BY <1>3, Awaited DEF CreateSteps
<1>5. Moves(r)
  BY <1>1, <1>4, UnloopedMoves DEF TypeInv, TypeOK
<1>6. UNCHANGED <<identity, claim, leaving>>
  BY DEF ScaleStep, ScaleRead, Scale, HpaRead, HpaPost, HpaReplace, HpaDelete, cluster
<1>7. \/ UNCHANGED deployment
      \/ /\ deployment' = [deployment EXCEPT ![job[r].app].replicas =
                                               job[r].replicas]
         /\ Deployed(job[r].app) /\ pc[r] = "scale"
  BY DEF ScaleStep, ScaleRead, Scale, HpaRead, HpaPost, HpaReplace, HpaDelete,
     cluster
<1>8. \A b \in Apps : /\ Deployed(b)' <=> Deployed(b)
                      /\ Deployed(b) => deployment'[b].volumes = deployment[b].volumes
  <2>1. CASE UNCHANGED deployment
    BY <2>1 DEF Deployed
  <2>2. CASE /\ deployment' = [deployment EXCEPT ![job[r].app].replicas =
                                                   job[r].replicas]
             /\ Deployed(job[r].app) /\ pc[r] = "scale"
    <3>1. job[r].replicas \in Positive /\ job[r].app \in Apps
      BY <1>1, <2>2, ScaleJob, AnyJob DEF TypeInv
    <3>2. deployment[job[r].app] \in Deployments
      BY <2>2, <3>1 DEF Deployed, TypeInv, TypeOK, ClusterTypeOK
    <3>3. [deployment[job[r].app] EXCEPT !.replicas = job[r].replicas] \in Deployments
      BY <3>1, <3>2 DEF Deployments
    <3>4. deployment'[job[r].app] =
            [deployment[job[r].app] EXCEPT !.replicas = job[r].replicas]
      BY <2>2, <3>1 DEF TypeInv, TypeOK, ClusterTypeOK
    <3>5. deployment'[job[r].app].volumes = deployment[job[r].app].volumes
      BY <3>2, <3>4 DEF Deployments
    <3>6. \A b \in Apps \ {job[r].app} : deployment'[b] = deployment[b]
      BY <2>2 DEF TypeInv, TypeOK, ClusterTypeOK
    <3>7. PICK a \in Apps : job[r].app = a
      BY <3>1
    <3>8. deployment'[a] \in Deployments
      BY <3>3, <3>4, <3>7
    <3> QED BY <2>2, <3>5, <3>6, <3>7, <3>8, AbsentAssumption DEF Deployed
  <2> QED BY <1>7, <2>1, <2>2
<1>9. \A b \in Apps : Quiet(b) /\ Stays(b)
  BY <1>6, <1>8 DEF Quiet, Stays, Preserves, Live
<1>10. DeletionHolds(r)'
  BY <1>2, <1>5 DEF DeletionHolds, Moves
<1> QED BY <1>1, <1>4, <1>5, <1>9, <1>10, NeutralCleanUp DEF CreateSteps, CleanUpStage

LEMMA ArriveCleanUp ==
  ASSUME TypeInv, CleanUpInv, faults = 0, NEW r \in Requests, NEW j \in Workload,
         Arrive(r, j)
  PROVE  CleanUpInv'
<1>1. /\ ~Active(r) /\ UNCHANGED cluster /\ job'[r] = j
      /\ pc'[r] \in {"sa_read", "find"}
      /\ \A q \in Requests \ {r} : /\ pc'[q] = pc[q] /\ job'[q] = job[q]
                                   /\ todo'[q] = todo[q] /\ cur'[q] = cur[q]
  BY DEF Arrive, Await, TypeInv, TypeOK, RequestTypeOK
<1>2. /\ \A b \in Apps : Owned(b) /\ Accounted(b)
      /\ \A q \in Requests : /\ Active(q) => job[q] \in Workload
                             /\ CreationMeets(q) /\ DeletionHolds(q)
  BY DEF CleanUpInv
<1>3. /\ identity' = identity /\ deployment' = deployment /\ claim' = claim
      /\ leaving' = leaving
  BY <1>1 DEF cluster
<1>4. pc[r] \notin CreateSteps \cup CleanUpStage
  BY <1>1 DEF Active, Steps, DeleteSteps, CleanUpStage
<1>5. ASSUME NEW b \in Apps PROVE Owned(b)' /\ Accounted(b)'
  <2>1. Creating(b) => Creating(b)'
    BY <1>1, <1>4 DEF Creating
  <2>2. CleaningUp(b) => CleaningUp(b)'
    BY <1>1, <1>4 DEF CleaningUp
  <2> QED BY <1>2, <1>3, <2>1, <2>2 DEF Owned, Accounted, Live, Deployed
<1>6. ASSUME NEW q \in Requests
      PROVE  /\ Active(q)' => job'[q] \in Workload
             /\ CreationMeets(q)' /\ DeletionHolds(q)'
  <2>1. CASE q = r
    BY <1>1, <2>1 DEF CreationMeets, DeletionHolds, DeleteSteps
  <2>2. CASE q # r
    BY <1>1, <1>2, <1>3, <2>2
    DEF Active, CreationMeets, DeletionHolds, CurrentClaim, Live, Deployed
  <2> QED BY <2>1, <2>2
<1> QED BY <1>5, <1>6 DEF CleanUpInv

\* The controllers remove only what no creation relies on.
LEMMA ControllerCleanUp ==
  ASSUME TypeInv, StorageInv, CleanUpInv, faults = 0,
         (\E p \in Claims : ClaimGone(p)) \/ (\E a \in Apps : AutoScaled(a))
  PROVE  CleanUpInv'
<1>1. UNCHANGED <<pc, job, todo, cur, identity>>
  BY DEF ClaimGone, AutoScaled, Unlooped
<1>2. \A p \in Claims : /\ Live(p)' => Live(p)
                        /\ p \notin leaving => claim'[p] = claim[p]
  BY DEF ClaimGone, AutoScaled, Live, TypeInv, TypeOK, ClusterTypeOK
<1>3. \A b \in Apps : /\ Deployed(b)' <=> Deployed(b)
                      /\ Deployed(b) => deployment'[b].volumes = deployment[b].volumes
  <2>1. CASE \E p \in Claims : ClaimGone(p)
    BY <2>1 DEF ClaimGone, Deployed
  <2>2. CASE \E a \in Apps : AutoScaled(a)
    <3>1. PICK a \in Apps : AutoScaled(a)
      BY <2>2
    <3>2. PICK n \in Positive : deployment' = [deployment EXCEPT ![a].replicas = n]
      BY <3>1 DEF AutoScaled, TypeInv, TypeOK, ClusterTypeOK
    <3> QED BY <3>1, <3>2, AbsentAssumption
            DEF AutoScaled, Deployed, TypeInv, TypeOK, ClusterTypeOK, Deployments
  <2> QED BY <2>1, <2>2
<1>4. \A b \in Apps, c \in Containers : PvcName[b, c] \in Claims
  BY NamesAssumption
<1>5. \A b \in Apps : Quiet(b)
  BY <1>1, <1>2, <1>3, <1>4 DEF Quiet
<1>6. /\ \A b \in Apps : Owned(b) /\ Accounted(b)
      /\ \A q \in Requests : /\ Active(q) => job[q] \in Workload
                             /\ CreationMeets(q) /\ DeletionHolds(q)
  BY DEF CleanUpInv
<1>7. ASSUME NEW b \in Apps PROVE Owned(b)' /\ Accounted(b)'
  BY <1>1, <1>3, <1>5, <1>6 DEF Owned, Accounted, Quiet, Creating, CleaningUp
<1>8. ASSUME NEW q \in Requests PROVE CreationMeets(q)'
  <2>1. ASSUME pc[q] = "pvc_reread" PROVE claim'[CurrentClaim(q)] > 0
    <3>1. CurrentClaim(q) \in Claims /\ CurrentClaim(q) \notin leaving
      <4>1. /\ CurrentClaim(q) \in Claims /\ cur[q] \in Containers
            /\ ClaimsOf(job[q].app) \cap leaving = {}
        BY <2>1, CurrentClaimSize DEF StorageInv, CreationHolds, CreateSteps
      <4> QED BY <4>1 DEF ClaimsOf, CurrentClaim
    <3> QED BY <1>2, <1>6, <2>1, <3>1 DEF CreationMeets
  <2>2. pc[q] \in {"dep_patch", "dep_conflict"} => Deployed(job[q].app)'
    <3> SUFFICES ASSUME pc[q] \in {"dep_patch", "dep_conflict"}
                 PROVE  Deployed(job[q].app)'
      OBVIOUS
    <3>1. Deployed(job[q].app) /\ job[q].app \in Apps
      BY <1>6, StepsOfOperation DEF CreationMeets, Active, Steps, CreateSteps
    <3> QED BY <1>1, <1>3, <3>1
  <2> QED BY <1>1, <1>6, <2>1, <2>2 DEF CreationMeets, CurrentClaim
<1>9. ASSUME NEW q \in Requests PROVE DeletionHolds(q)'
  <2> SUFFICES ASSUME pc[q] \in DeleteSteps \ {"find"}, job[q].op = "delete"
               PROVE  DeletionHolds(q)'
    BY <1>1 DEF DeletionHolds
  <2>1. job[q].app \in Apps
    BY StepsOfOperation DEF Active, Steps
  <2> QED BY <1>1, <1>5, <1>6, <2>1 DEF DeletionHolds, Quiet
<1> QED BY <1>1, <1>6, <1>7, <1>8, <1>9 DEF CleanUpInv, Active

LEMMA NextCleanUp ==
  ASSUME Serial, Drained, DistinctClaimNames, UniformDisks,
         TypeInv, StorageInv, CleanUpInv, [Next]_vars
  PROVE  CleanUpInv'
<1> SUFFICES ASSUME faults' = 0 PROVE CleanUpInv'
  BY DEF CleanUpInv
<1>1. faults = 0
  BY FaultsGrow
<1>2. CASE UNCHANGED vars
  BY <1>2 DEF CleanUpInv, Owned, Accounted, CreationMeets, DeletionHolds, Creating,
     CleaningUp, Active, Live, Deployed, CurrentClaim, vars, cluster
<1>3. ASSUME NEW r \in Requests, Step(r) PROVE CleanUpInv'
  BY <1>1, <1>3, FindCleanUp, CreateCleanUp, DeleteCleanUp, ReviseCleanUp,
     ScaleCleanUp DEF Step
<1>4. ASSUME NEW r \in Requests, NEW j \in Workload, Arrive(r, j) PROVE CleanUpInv'
  BY <1>1, <1>4, ArriveCleanUp
<1>5. ~Crash /\ \A r \in Requests : ~CallFails(r)
  BY <1>1 DEF Crash, CallFails
<1>6. CASE (\E p \in Claims : ClaimGone(p)) \/ (\E a \in Apps : AutoScaled(a))
  BY <1>1, <1>6, ControllerCleanUp
<1> QED BY <1>2, <1>3, <1>4, <1>5, <1>6 DEF Next

LEMMA InitCleanUp == Init => CleanUpInv
<1> SUFFICES ASSUME Init PROVE CleanUpInv
  OBVIOUS
<1>1. \A r \in Requests : pc[r] = "idle"
  BY DEF Init
<1>2. \A a \in Apps : ~Deployed(a) /\ a \notin identity
  BY DEF Init, Deployed
<1>3. ASSUME NEW a \in Apps, NEW c \in Containers PROVE ~Live(PvcName[a, c])
  <2>1. claim[PvcName[a, c]] = 0
    BY NamesAssumption DEF Init
  <2>2. ~(0 > 0)
    OBVIOUS
  <2> QED BY <2>1, <2>2, Zenon DEF Live
<1> QED BY <1>1, <1>2, <1>3 DEF CleanUpInv, Owned, Accounted, CreationMeets,
        DeletionHolds, Active, Steps, CreateSteps, DeleteSteps, ReviseSteps,
        AutoScaleSteps, FixedScaleSteps

THEOREM CleanUpInvariance ==
  ASSUME Serial, Drained, DistinctClaimNames, UniformDisks
  PROVE  Spec => []CleanUpInv
<1>1. TypeInv /\ StorageInv /\ CleanUpInv /\ [Next]_vars => CleanUpInv'
  BY NextCleanUp
<1> QED BY <1>1, InitCleanUp, TypeInvariance, StorageInvariance, PTL DEF Spec

\* As long as nothing failed, an app that is gone and that nobody is working on
\* has left neither its ServiceAccount nor a claim behind.
THEOREM NothingIsLeftBehind ==
  ASSUME Serial, Drained, DistinctClaimNames, UniformDisks
  PROVE  Spec => []NothingLeftBehind
<1>1. TypeInv /\ CleanUpInv => NothingLeftBehind
  <2> SUFFICES ASSUME TypeInv, CleanUpInv, faults = 0, NEW a \in Apps, ~Deployed(a),
                      \A r \in Requests : Active(r) => job[r].app # a
               PROVE  a \notin identity /\ \A p \in ClaimsOf(a) : ~Live(p)
    BY DEF NothingLeftBehind
  <2>1. ~Creating(a) /\ ~CleaningUp(a)
    BY DEF Creating, CleaningUp, Active, Steps, CleanUpStage, DeleteSteps
  <2> QED BY <2>1 DEF CleanUpInv, Accounted, ClaimsOf
<1> QED BY <1>1, TypeInvariance, CleanUpInvariance, PTL

LEMMA OnlyItsOwnStepCleansUp ==
  ASSUME TypeInv, NEW r \in Requests, Active(r), pc'[r] = "ok", [Next]_vars,
         job[r].op = "delete", faults' = 0
  PROVE  DeleteStep(r) /\ ~UndeployRead(r)
<1>1. pc[r] \in DeleteSteps /\ job[r] \in DeleteJobs
  BY DEF TypeInv, RequestInv, WellFormed, CreateJobs, ReviseJobs, AutoScaleJobs,
     FixedScaleJobs
<1>2. pc[r] # "ok"
  BY <1>1 DEF DeleteSteps
<1>3. faults = 0
  BY FaultsGrow
<1>4. ~Crash /\ \A q \in Requests : ~CallFails(q)
  BY <1>3 DEF Crash, CallFails
<1>5. pc' # pc
  BY <1>2
<1>6. ~(\E p \in Claims : ClaimGone(p)) /\ ~(\E a \in Apps : AutoScaled(a))
  BY <1>5 DEF ClaimGone, AutoScaled
<1>7. PICK q \in Requests : Step(q) \/ \E j \in Workload : Arrive(q, j)
  BY <1>4, <1>5, <1>6 DEF Next, vars
<1>8. \E t : Await(q, t)
  BY <1>7 DEF Step, Find, CreateStep, SaRead, SaPost, SaReread, PvcRead,
     Provisioned, PvcPost, PvcReread, DepRead, DepPatch, DepReread, DepPost,
     DepConflict, DeleteStep, UndeployRead, Undeploy, Unbind, UnmountRead,
     Unmount, ReviseStep, ResizeRead, Resize, PvcFind, ExpandRead, Expand,
     ScaleStep, ScaleRead, Scale, HpaRead, HpaPost, HpaReplace, HpaDelete,
     Arrive, Answered
<1>9. q = r
  BY <1>2, <1>8 DEF Await, TypeInv, TypeOK, RequestTypeOK
<1>10. ~(\E j \in Workload : Arrive(r, j))
  BY DEF Arrive
<1>11. ~Find(r) /\ ~UndeployRead(r)
  BY <1>1, Awaited DEF Find, UndeployRead, AfterFind, DeleteJobs
<1>12. ~CreateStep(r)
  BY <1>1 DEF CreateStep, SaRead, SaPost, SaReread, PvcRead, PvcPost, PvcReread,
     DepRead, DepPatch, DepReread, DepPost, DepConflict, DeleteSteps
<1>13. ~ReviseStep(r) /\ ~ScaleStep(r)
  BY <1>1 DEF ReviseStep, ResizeRead, Resize, PvcFind, ExpandRead, Expand,
     ScaleStep, ScaleRead, Scale, HpaRead, HpaPost, HpaReplace, HpaDelete, DeleteSteps
<1> QED BY <1>7, <1>9, <1>10, <1>11, <1>12, <1>13 DEF Step

\* As long as nothing failed, a deletion answered with success has removed the
\* ServiceAccount of its app and released all of its claims.
THEOREM DeletionsCleanUp ==
  ASSUME Serial, Drained, DistinctClaimNames, UniformDisks
  PROVE  Spec => DeletionCleansUp
<1>1. ASSUME TypeInv, StorageInv, CleanUpInv, [Next]_vars, NEW r \in Requests,
             Active(r), pc'[r] = "ok", job[r].op = "delete", faults' = 0
      PROVE  /\ job[r].app \notin identity'
             /\ \A p \in ClaimsOf(job[r].app) : ~Live(p)'
  <2>1. faults = 0
    BY <1>1, FaultsGrow
  <2>2. DeleteStep(r) /\ ~UndeployRead(r)
    BY <1>1, OnlyItsOwnStepCleansUp
  <2>3. Clears(r)
    BY <1>1, <2>1, <2>2, DeleteClears
  <2>4. /\ job[r].app \notin identity' /\ job' = job
        /\ \A c \in Containers : ~Live(PvcName[job[r].app, c])'
    BY <1>1, <2>3 DEF Clears, Cleared, Moves
  <2> QED BY <2>4 DEF ClaimsOf, Live
<1>2. TypeInv /\ StorageInv /\ CleanUpInv /\ [Next]_vars =>
        [\A r \in Requests :
           (Active(r) /\ pc'[r] = "ok" /\ job[r].op = "delete" /\ faults' = 0) =>
             /\ job[r].app \notin identity'
             /\ \A p \in ClaimsOf(job[r].app) : ~Live(p)']_vars
  BY <1>1
<1> QED BY <1>2, TypeInvariance, StorageInvariance, CleanUpInvariance, PTL
        DEF Spec, DeletionCleansUp

=============================================================================

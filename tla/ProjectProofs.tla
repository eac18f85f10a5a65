---------------------------- MODULE ProjectProofs ---------------------------
(***************************************************************************)
(* Theorems about ProjectLifecycle, for any number of projects, concurrent *)
(* requests, failures and crashes.  What a project's caller is promised is *)
(* proved under what its clients keep apart (Serial, Drained).             *)
(***************************************************************************)
EXTENDS ProjectLifecycle, TLAPS

TypeInv == TypeOK /\ \A r \in Requests : WellFormed(r)

\* The request r takes a step: no other request is touched.
Moves(r) == job' = job /\ pc' = [pc EXCEPT ![r] = pc'[r]]

-----------------------------------------------------------------------------
(* Type correctness. *)

LEMMA InitTypeInv == Init => TypeInv
BY FaultsAssumption
DEF Init, TypeInv, TypeOK, WellFormed, Active, Steps, CreateSteps, DeleteSteps,
    ResizeSteps, QuotaSteps

LEMMA AnsweredTyped ==
  ASSUME TypeInv, NEW r \in Requests, NEW s, Answered(r, s)
  PROVE  /\ faults' \in 0..MaxFaults
         /\ pc' = [pc EXCEPT ![r] = pc'[r]]
         /\ pc'[r] \in {s, "failed"}
BY FaultsAssumption DEF TypeInv, TypeOK, Answered, Await

LEMMA AwaitTyped ==
  ASSUME TypeInv, NEW r \in Requests, NEW s, Await(r, s)
  PROVE  pc' = [pc EXCEPT ![r] = s] /\ pc' = [pc EXCEPT ![r] = pc'[r]] /\ pc'[r] = s
BY DEF TypeInv, TypeOK, Await

LEMMA AnswersEnd == \A s \in Answers \cup {"idle"} : s \notin Steps
BY DEF Answers, Steps, CreateSteps, DeleteSteps, ResizeSteps, QuotaSteps

LEMMA MergedTyped ==
  ASSUME NEW q \in Limits, NEW w \in Wishes
  PROVE  Merged(q, w) \in Limits
BY DEF Merged, Limits, Wishes

\* Every step of a request is one of its operation, and leads to the next.
LEMMA StepMoves ==
  ASSUME TypeInv, NEW r \in Requests, Step(r)
  PROVE  /\ Active(r) /\ Moves(r) /\ faults' \in 0..MaxFaults /\ job[r] \in Jobs
         /\ pc[r] = "ns_read" => pc'[r] \in {"rq_read", "ns_post"}
         /\ pc[r] = "ns_post" => pc'[r] \in {"rq_read", "ns_reread", "failed"}
         /\ pc[r] = "ns_reread" => pc'[r] \in {"rq_read", "failed"}
         /\ pc[r] = "rq_read" => pc'[r] \in {AfterQuota(r), "rq_post"}
         /\ pc[r] = "rq_post" => pc'[r] \in {AfterQuota(r), "rq_reread", "failed"}
         /\ pc[r] = "rq_reread" => pc'[r] \in {AfterQuota(r), "failed"}
         /\ pc[r] = "ps_read" => pc'[r] \in {"rb_read", "ps_post"}
         /\ pc[r] = "ps_post" => pc'[r] \in {"rb_read", "failed"}
         /\ pc[r] = "rb_read" => pc'[r] \in {"created", "rb_post"}
         /\ pc[r] = "rb_post" => pc'[r] \in {"created", "rb_reread", "failed"}
         /\ pc[r] = "rb_reread" => pc'[r] \in {"created", "failed"}
         /\ pc[r] = "find" => pc'[r] \in {"rq_exists", "rejected"}
         /\ pc[r] = "rq_exists" => pc'[r] \in {"rq_get", "ns_exists"}
         /\ pc[r] = "rq_get" => pc'[r] \in {"rq_delete", "failed"}
         /\ pc[r] = "rq_delete" => pc'[r] \in {"ns_exists", "failed"}
         /\ pc[r] = "ns_exists" => pc'[r] \in {"ns_delete", "deleted"}
         /\ pc[r] = "ns_delete" => pc'[r] \in {"deleted", "failed"}
         /\ pc[r] = "rq_list" => pc'[r] \in {"rq_read", "rejected"}
<1>1. Active(r) /\ job[r] \in Jobs
  BY DEF Step, QuotaStep, CreateStep, DeleteStep, ListQuotas, ReadNamespace,
     PostNamespace, RereadNamespace, ReadQuota, PostQuota, RereadQuota,
     ReadPullSecret, PostPullSecret, ReadBinding, PostBinding, RereadBinding,
     FindProject, QuotaExists, GetQuota, DeleteQuota, NamespaceExists,
     DeleteNamespace, Read, Bound, Active, Steps, CreateSteps, DeleteSteps,
     ResizeSteps, QuotaSteps, TypeInv, WellFormed
<1>2. faults \in 0..MaxFaults
  BY DEF TypeInv, TypeOK
<1>3. CASE \/ ReadNamespace(r) \/ RereadNamespace(r) \/ ReadQuota(r)
           \/ RereadQuota(r) \/ ReadPullSecret(r) \/ FindProject(r)
           \/ QuotaExists(r) \/ GetQuota(r) \/ NamespaceExists(r)
  BY <1>1, <1>2, <1>3, AwaitTyped
  DEF ReadNamespace, RereadNamespace, ReadQuota, RereadQuota, ReadPullSecret,
      FindProject, QuotaExists, GetQuota, NamespaceExists, Read, Moves
<1>4. CASE ReadBinding(r) \/ RereadBinding(r) \/ ListQuotas(r)
  BY <1>1, <1>2, <1>4, AwaitTyped
  DEF ReadBinding, RereadBinding, Bound, ListQuotas, Moves
<1>5. CASE PostNamespace(r)
  BY <1>1, <1>2, <1>5, AwaitTyped, AnsweredTyped DEF PostNamespace, Moves
<1>6. CASE PostQuota(r)
  BY <1>1, <1>2, <1>6, AwaitTyped, AnsweredTyped DEF PostQuota, Moves
<1>7. CASE PostPullSecret(r)
  BY <1>1, <1>2, <1>7, AwaitTyped, AnsweredTyped DEF PostPullSecret, Moves
<1>8. CASE PostBinding(r)
  BY <1>1, <1>2, <1>8, AwaitTyped, AnsweredTyped DEF PostBinding, Moves
<1>9. CASE DeleteQuota(r)
  BY <1>1, <1>2, <1>9, AwaitTyped, AnsweredTyped DEF DeleteQuota, Moves
<1>10. CASE DeleteNamespace(r)
  <2>1. namespace[job[r].project] \in {"absent", "active", "terminating"}
    BY <1>1 DEF TypeInv, TypeOK, Jobs
  <2> QED BY <1>1, <1>2, <1>10, <2>1, AwaitTyped, AnsweredTyped
          DEF DeleteNamespace, Moves
<1> QED BY <1>3, <1>4, <1>5, <1>6, <1>7, <1>8, <1>9, <1>10
        DEF Step, QuotaStep, CreateStep, DeleteStep

\* A step keeps the limits it saves, but for the one that works them out.
LEMMA StepWant ==
  ASSUME TypeInv, NEW r \in Requests, Step(r)
  PROVE  /\ pc[r] # "rq_list" => want' = want
         /\ pc[r] = "rq_list" =>
              /\ want' \in [Requests -> Limits \cup {NoQuota}]
              /\ \A q \in Requests \ {r} : want'[q] = want[q]
              /\ pc'[r] = "rq_read" => want'[r] \in Limits
<1>1. CASE ListQuotas(r)
  <2>1. job[r] \in Jobs /\ job[r].project \in Projects /\ job[r].limits \in Wishes
    BY StepMoves DEF Jobs
  <2>2. quota[job[r].project] # NoQuota =>
          Merged(quota[job[r].project], job[r].limits) \in Limits
    BY <2>1, MergedTyped DEF TypeInv, TypeOK
  <2> QED BY <1>1, <2>1, <2>2 DEF ListQuotas, Await, TypeInv, TypeOK
<1>2. CASE ~ListQuotas(r)
  BY <1>2
  DEF Step, QuotaStep, CreateStep, DeleteStep, ReadNamespace, PostNamespace,
      RereadNamespace, ReadQuota, PostQuota, RereadQuota, ReadPullSecret,
      PostPullSecret, ReadBinding, PostBinding, RereadBinding, FindProject,
      QuotaExists, GetQuota, DeleteQuota, NamespaceExists, DeleteNamespace,
      Read, Bound
<1> QED BY <1>1, <1>2

LEMMA StepWellFormed ==
  ASSUME TypeInv, NEW r \in Requests, Step(r)
  PROVE  /\ \A q \in Requests : WellFormed(q)'
         /\ pc'[r] \in Steps \cup Answers
<1>1. /\ Active(r) /\ Moves(r) /\ job[r] \in Jobs /\ WellFormed(r)
      /\ pc'[r] \in Steps \cup Answers
  BY StepMoves DEF AfterQuota, Active, Steps, CreateSteps, DeleteSteps,
     ResizeSteps, QuotaSteps, Answers, TypeInv
<1>2. /\ job'[r] = job[r]
      /\ pc'[r] \in CreateSteps \ QuotaSteps => job[r].op = "create"
      /\ pc'[r] \in DeleteSteps => job[r].op = "delete"
      /\ pc'[r] # "rq_list"
      /\ pc'[r] \in QuotaSteps =>
           /\ job[r].op \in {"create", "resize"}
           /\ pc[r] \in QuotaSteps \cup {"ns_read", "ns_post", "ns_reread", "rq_list"}
      /\ pc[r] = "rq_list" /\ pc'[r] \in Steps => pc'[r] = "rq_read"
      /\ job[r].op = "create" => pc[r] # "rq_list"
  BY <1>1, StepMoves DEF AfterQuota, Moves, WellFormed, Steps, CreateSteps,
     DeleteSteps, ResizeSteps, QuotaSteps, Active
<1>3. WellFormed(r)'
  BY <1>1, <1>2, StepWant DEF WellFormed, Active, CreateSteps, QuotaSteps
<1>4. ASSUME NEW q \in Requests \ {r} PROVE WellFormed(q)'
  <2>1. pc'[q] = pc[q] /\ job'[q] = job[q] /\ want'[q] = want[q]
    BY <1>1, StepWant DEF Moves, TypeInv, TypeOK
  <2> QED BY <2>1 DEF WellFormed, Active, TypeInv
<1> QED BY <1>1, <1>3, <1>4

LEMMA StepType ==
  ASSUME TypeInv, NEW r \in Requests, Step(r)
  PROVE  TypeInv'
<1> USE DEF TypeInv, TypeOK
<1>1. /\ Active(r) /\ Moves(r) /\ job[r] \in Jobs /\ job[r].project \in Projects
      /\ WellFormed(r)
  BY StepMoves DEF Jobs
<1>2. /\ pc' \in [Requests -> Steps \cup Answers \cup {"idle"}]
      /\ job' \in [Requests -> Jobs \cup {NoJob}]
      /\ want' \in [Requests -> Limits \cup {NoQuota}]
  BY <1>1, StepWellFormed, StepWant DEF Moves
<1>3. /\ namespace' \in [Projects -> {"absent", "active", "terminating"}]
      /\ pull' \subseteq Projects /\ binding' \subseteq Projects
      /\ standing' \in [Projects -> {"none", "promised", "condemned"}]
  BY <1>1
  DEF Step, QuotaStep, CreateStep, DeleteStep, ListQuotas, ReadNamespace,
      PostNamespace, RereadNamespace, ReadQuota, PostQuota, RereadQuota,
      ReadPullSecret, PostPullSecret, ReadBinding, PostBinding, RereadBinding,
      FindProject, QuotaExists, GetQuota, DeleteQuota, NamespaceExists,
      DeleteNamespace, Read, Bound, Promise, cluster
<1>4. quota' \in [Projects -> Limits \cup {NoQuota}]
  <2>1. CASE PostQuota(r)
    <3>1. want[r] \in Limits
      BY <1>1, <2>1 DEF PostQuota, WellFormed, QuotaSteps
    <3> QED BY <1>1, <2>1, <3>1 DEF PostQuota
  <2>2. CASE DeleteQuota(r)
    BY <1>1, <2>2 DEF DeleteQuota
  <2>3. CASE ~PostQuota(r) /\ ~DeleteQuota(r)
    BY <2>3
    DEF Step, QuotaStep, CreateStep, DeleteStep, ListQuotas, ReadNamespace,
        PostNamespace, RereadNamespace, ReadQuota, RereadQuota, ReadPullSecret,
        PostPullSecret, ReadBinding, PostBinding, RereadBinding, FindProject,
        QuotaExists, GetQuota, NamespaceExists, DeleteNamespace, Read, Bound, cluster
  <2> QED BY <2>1, <2>2, <2>3
<1> QED BY <1>2, <1>3, <1>4, StepMoves, StepWellFormed

LEMMA ArriveType ==
  ASSUME TypeInv, NEW r \in Requests, NEW j \in Jobs, Arrive(r, j)
  PROVE  TypeInv'
<1> USE DEF TypeInv, TypeOK
<1>1. /\ j.op \in {"create", "delete", "resize"} /\ j.project \in Projects
      /\ j.op = "create" => j.limits \in Limits
  BY OperationsAssumption DEF Jobs
<1>2. /\ job' = [job EXCEPT ![r] = j] /\ pc' = [pc EXCEPT ![r] = FirstStep(j.op)]
      /\ want' = [want EXCEPT ![r] = IF j.op = "create" THEN j.limits ELSE NoQuota]
      /\ standing' \in [Projects -> {"none", "promised", "condemned"}]
      /\ UNCHANGED cluster /\ faults' = faults
  BY <1>1 DEF Arrive, Await
<1>3. /\ j.op = "create" => FirstStep(j.op) = "ns_read"
      /\ j.op = "delete" => FirstStep(j.op) = "find"
      /\ j.op = "resize" => FirstStep(j.op) = "rq_list"
  BY <1>1 DEF FirstStep
<1>4. WellFormed(r)'
  BY <1>1, <1>2, <1>3 DEF WellFormed, CreateSteps, DeleteSteps, QuotaSteps
<1>5. ASSUME NEW q \in Requests \ {r} PROVE WellFormed(q)'
  BY <1>2 DEF WellFormed, Active
<1>6. FirstStep(j.op) \in Steps
  BY <1>1, <1>3 DEF Steps, CreateSteps, DeleteSteps, ResizeSteps
<1>7. /\ pc' \in [Requests -> Steps \cup Answers \cup {"idle"}]
      /\ job' \in [Requests -> Jobs \cup {NoJob}]
      /\ want' \in [Requests -> Limits \cup {NoQuota}]
  BY <1>1, <1>2, <1>6
<1> QED BY <1>2, <1>4, <1>5, <1>7 DEF cluster

\* A request that ends is well formed.
LEMMA EndWellFormed ==
  ASSUME TypeInv, UNCHANGED <<job, want>>,
         \A q \in Requests : pc'[q] = pc[q] \/ pc'[q] \in {"failed", "idle"}
  PROVE  /\ \A q \in Requests : WellFormed(q)'
         /\ \A q \in Requests : Active(q)' => Active(q) /\ pc'[q] = pc[q]
<1>1. "failed" \notin Steps /\ "idle" \notin Steps
  BY DEF Steps, CreateSteps, DeleteSteps, ResizeSteps, QuotaSteps
<1> QED BY <1>1 DEF TypeInv, WellFormed, Active

LEMMA NextType ==
  ASSUME TypeInv, [Next]_vars
  PROVE  TypeInv'
<1> USE DEF TypeInv, TypeOK
<1>1. ASSUME NEW r \in Requests, CallFails(r) PROVE TypeInv'
  BY <1>1, EndWellFormed, FaultsAssumption DEF CallFails, Await, cluster, Answers
<1>2. CASE Crash
  BY <1>2, EndWellFormed, FaultsAssumption DEF Crash, cluster
<1>3. ASSUME NEW p \in Projects, Collect(p) \/ Vanish(p) PROVE TypeInv'
  BY <1>3, EndWellFormed DEF Collect, Vanish
<1>4. CASE UNCHANGED vars
  BY <1>4, EndWellFormed DEF vars, cluster
<1> QED BY <1>1, <1>2, <1>3, <1>4, StepType, ArriveType DEF Next

LEMMA TypeInvariance == Spec => []TypeInv
<1>1. TypeInv /\ [Next]_vars => TypeInv'
  BY NextType
<1> QED BY <1>1, InitTypeInv, PTL DEF Spec

\* Every reachable state is well typed.
THEOREM TypeCorrect == Spec => []TypeOK
<1>1. TypeInv => TypeOK
  BY DEF TypeInv
<1> QED BY <1>1, TypeInvariance, PTL

-----------------------------------------------------------------------------
(* What callers are promised. *)

\* What every step of a request leaves as it is.
LEMMA StepFrame ==
  ASSUME TypeInv, ContractInv, NEW r \in Requests, Step(r)
  PROVE  /\ Active(r) /\ job' = job /\ job[r].project \in Projects
         /\ \A q \in Requests \ {r} : pc'[q] = pc[q]
         /\ \A q \in Requests : Active(q)' => Active(q) /\ job[q].project \in Projects
         /\ \A q, s \in Requests :
              (Active(q)' /\ Active(s)' /\ job'[q].project = job'[s].project) =>
                ~(job'[q].op = "create" /\ job'[s].op = "delete")
<1>1. /\ Active(r) /\ job' = job /\ job[r] \in Jobs
      /\ \A q \in Requests \ {r} : pc'[q] = pc[q]
  BY StepMoves DEF Moves, TypeInv, TypeOK
<1>2. \A q \in Requests : Active(q)' => Active(q) /\ job[q].project \in Projects
  BY <1>1 DEF Active, TypeInv, WellFormed, Jobs
<1> QED BY <1>1, <1>2 DEF ContractInv, Apart, Jobs

\* A step that leaves the cluster alone and answers no creation breaks nothing,
\* when the creation it belongs to has found what it needs.
LEMMA QuietStep ==
  ASSUME TypeInv, ContractInv, NEW r \in Requests, Step(r),
         UNCHANGED <<cluster, standing>>, Progress(r)'
  PROVE  ContractInv'
<1>1. \A q \in Requests : Active(q)' => Active(q) /\ job' = job
  BY StepFrame
<1>2. PromisedProjectsAreUsable' /\ LimitedBeforeUsable' /\ Leaving'
  BY DEF ContractInv, PromisedProjectsAreUsable, Contract!PromisesKept, Complete,
     LimitedBeforeUsable, Leaving, cluster
<1>3. Apart'
  BY <1>1, StepFrame DEF ContractInv, Apart, cluster
<1>4. \A q \in Requests : Progress(q)'
  BY <1>1, StepFrame DEF ContractInv, Progress, cluster
<1> QED BY <1>2, <1>3, <1>4, StepWellFormed DEF ContractInv

\* The reads: a creation goes on past what it found.
LEMMA ReadContract ==
  ASSUME TypeInv, ContractInv, NEW r \in Requests, Step(r),
         \/ ReadNamespace(r) \/ RereadNamespace(r) \/ ReadQuota(r)
         \/ RereadQuota(r) \/ ReadPullSecret(r) \/ FindProject(r)
         \/ QuotaExists(r) \/ GetQuota(r) \/ NamespaceExists(r) \/ ListQuotas(r)
  PROVE  ContractInv'
<1> DEFINE p == job[r].project
<1>1. UNCHANGED <<cluster, standing>>
  BY DEF ReadNamespace, RereadNamespace, ReadQuota, RereadQuota, ReadPullSecret,
     FindProject, QuotaExists, GetQuota, NamespaceExists, ListQuotas, Read
<1>2. /\ Active(r) /\ WellFormed(r) /\ Progress(r) /\ job' = job /\ p \in Projects
      /\ namespace[p] \in {"absent", "active", "terminating"}
      /\ job[r].op = "create" => namespace[p] # "terminating"
  BY StepFrame DEF ContractInv, Apart, TypeInv, TypeOK
<1>3. Progress(r)'
  <2>1. SUFFICES ASSUME job[r].op = "create", pc'[r] \in Steps
                 PROVE  Progress(r)'
    BY <1>2 DEF Progress, Active
  <2>2. CASE ReadNamespace(r) \/ RereadNamespace(r)
    BY <1>1, <1>2, <2>1, <2>2, AwaitTyped, AnswersEnd
    DEF ReadNamespace, RereadNamespace, Read, HasNamespace, Progress, cluster, Answers
  <2>3. CASE ReadQuota(r) \/ RereadQuota(r)
    BY <1>1, <1>2, <2>1, <2>3, AwaitTyped, AnswersEnd
    DEF Answers, ReadQuota, RereadQuota, Read, HasQuota, AfterQuota, Progress, cluster
  <2>4. CASE ReadPullSecret(r)
    BY <1>1, <1>2, <2>1, <2>4, AwaitTyped DEF ReadPullSecret, Read, Progress, cluster
  <2>5. CASE \/ FindProject(r) \/ QuotaExists(r) \/ GetQuota(r)
             \/ NamespaceExists(r) \/ ListQuotas(r)
    BY <1>2, <2>1, <2>5
    DEF FindProject, QuotaExists, GetQuota, NamespaceExists, ListQuotas, Read,
        WellFormed, DeleteSteps
  <2> QED BY <2>2, <2>3, <2>4, <2>5
<1> QED BY <1>1, <1>3, QuietStep

LEMMA PostNamespaceContract ==
  ASSUME TypeInv, ContractInv, NEW r \in Requests, Step(r), PostNamespace(r)
  PROVE  ContractInv'
<1> DEFINE p == job[r].project
<1>1. /\ pc[r] = "ns_post" /\ WellFormed(r) /\ job[r].op = "create"
      /\ p \in Projects /\ Active(r) /\ job' = job
      /\ namespace \in [Projects -> {"absent", "active", "terminating"}]
      /\ UNCHANGED <<quota, pull, binding, standing>>
  BY StepFrame DEF PostNamespace, ContractInv, WellFormed, CreateSteps, QuotaSteps,
     TypeInv, TypeOK
<1>2. CASE namespace[p] = "absent"
  <2>1. /\ namespace' = [namespace EXCEPT ![p] = "active"]
        /\ pc'[r] \in {"rq_read", "failed"}
    BY <1>2, AnsweredTyped DEF PostNamespace
  <2>2. quota[p] = NoQuota /\ p \notin pull \cup binding
    BY <1>1, <1>2 DEF ContractInv, Leaving
  <2>3. PromisedProjectsAreUsable' /\ LimitedBeforeUsable' /\ Leaving'
    BY <1>1, <2>1, <2>2 DEF ContractInv, PromisedProjectsAreUsable,
       Contract!PromisesKept, Complete, LimitedBeforeUsable, Leaving, TypeInv, TypeOK
  <2>4. Apart'
    BY <1>1, <2>1, StepFrame DEF ContractInv, Apart
  <2>5. \A q \in Requests : Progress(q)'
    BY <1>1, <2>1, StepFrame DEF ContractInv, Progress
  <2> QED BY <2>3, <2>4, <2>5, StepWellFormed DEF ContractInv
<1>3. CASE namespace[p] # "absent"
  <2>1. UNCHANGED <<cluster, standing>> /\ pc'[r] = "ns_reread"
    BY <1>1, <1>3, AwaitTyped DEF PostNamespace, cluster
  <2>2. namespace[p] = "active"
    BY <1>1, <1>3 DEF ContractInv, Apart
  <2>3. Progress(r)'
    BY <1>1, <2>1, <2>2 DEF Progress, cluster
  <2> QED BY <2>1, <2>3, QuietStep
<1> QED BY <1>2, <1>3

LEMMA PostQuotaContract ==
  ASSUME TypeInv, ContractInv, NEW r \in Requests, Step(r), PostQuota(r)
  PROVE  ContractInv'
<1> DEFINE p == job[r].project
<1>1. /\ pc[r] = "rq_post" /\ WellFormed(r) /\ Progress(r) /\ want[r] \in Limits
      /\ p \in Projects /\ Active(r) /\ job' = job
      /\ UNCHANGED <<namespace, pull, binding, standing>>
  BY StepFrame DEF PostQuota, ContractInv, WellFormed, QuotaSteps
<1>2. CASE /\ namespace[p] = "active" /\ quota[p] = NoQuota
           /\ quota' = [quota EXCEPT ![p] = want[r]]
           /\ Answered(r, AfterQuota(r))
  <2>1. want[r] # NoQuota
    BY <1>1, NoQuotaAssumption
  <2>2. PromisedProjectsAreUsable' /\ LimitedBeforeUsable' /\ Leaving'
    BY <1>1, <1>2, <2>1 DEF ContractInv, PromisedProjectsAreUsable,
       Contract!PromisesKept, Complete, LimitedBeforeUsable, Leaving, TypeInv, TypeOK
  <2>3. Apart'
    BY <1>1, StepFrame DEF ContractInv, Apart
  <2>4. Progress(r)'
    BY <1>1, <1>2, <2>1, AnsweredTyped DEF Progress, AfterQuota, TypeInv, TypeOK
  <2>5. ASSUME NEW q \in Requests \ {r} PROVE Progress(q)'
    BY <1>1, <1>2, <2>1, StepFrame DEF ContractInv, Progress, TypeInv, TypeOK
  <2> QED BY <2>2, <2>3, <2>4, <2>5, StepWellFormed DEF ContractInv
<1>3. CASE /\ UNCHANGED quota
           /\ pc'[r] = "failed" \/ (pc'[r] = "rq_reread" /\ quota[p] # NoQuota)
  <2>1. Progress(r)'
    BY <1>1, <1>3, AnswersEnd DEF Progress, Active, Answers
  <2> QED BY <1>1, <1>3, <2>1, QuietStep DEF cluster
<1> QED BY <1>1, <1>2, <1>3, AwaitTyped DEF PostQuota, HasQuota

LEMMA PostPullSecretContract ==
  ASSUME TypeInv, ContractInv, NEW r \in Requests, Step(r), PostPullSecret(r)
  PROVE  ContractInv'
<1> DEFINE p == job[r].project
<1>1. /\ pc[r] = "ps_post" /\ Progress(r) /\ job[r].op = "create"
      /\ p \in Projects /\ Active(r) /\ job' = job
      /\ UNCHANGED <<namespace, quota, binding, standing>>
  BY StepFrame DEF PostPullSecret, ContractInv, WellFormed, CreateSteps, QuotaSteps
<1>2. CASE /\ namespace[p] = "active" /\ pull' = pull \cup {p}
           /\ Answered(r, "rb_read")
  <2>1. PromisedProjectsAreUsable' /\ LimitedBeforeUsable' /\ Leaving'
    BY <1>1, <1>2 DEF ContractInv, PromisedProjectsAreUsable,
       Contract!PromisesKept, Complete, LimitedBeforeUsable, Leaving
  <2>2. Apart'
    BY <1>1, StepFrame DEF ContractInv, Apart
  <2>3. Progress(r)'
    BY <1>1, <1>2, AnsweredTyped DEF Progress
  <2>4. ASSUME NEW q \in Requests \ {r} PROVE Progress(q)'
    BY <1>1, <1>2, StepFrame DEF ContractInv, Progress
  <2> QED BY <2>1, <2>2, <2>3, <2>4, StepWellFormed DEF ContractInv
<1>3. CASE UNCHANGED pull /\ pc'[r] = "failed"
  <2>1. Progress(r)'
    BY <1>1, <1>3, AnswersEnd DEF Progress, Active, Answers
  <2> QED BY <1>1, <1>3, <2>1, QuietStep DEF cluster
<1> QED BY <1>2, <1>3, AwaitTyped DEF PostPullSecret

\* A creation is answered when everything is there.
LEMMA AnswerContract ==
  ASSUME TypeInv, ContractInv, NEW r \in Requests, Step(r),
         pc[r] \in {"rb_read", "rb_post", "rb_reread"}, Promise(r),
         UNCHANGED <<namespace, quota, pull>>,
         \/ /\ UNCHANGED binding
            /\ pc'[r] \in {"created", "rb_reread"} => job[r].project \in binding
         \/ binding' = binding \cup {job[r].project}
  PROVE  ContractInv'
<1> DEFINE p == job[r].project
<1>1. /\ job[r].op = "create" /\ p \in Projects /\ Active(r) /\ job' = job
      /\ namespace[p] = "active" /\ quota[p] # NoQuota /\ p \in pull
  BY StepFrame DEF ContractInv, WellFormed, Progress, CreateSteps, QuotaSteps
<1>2. /\ \A b \in Projects \ {p} : standing'[b] = standing[b]
      /\ \/ standing' = standing
         \/ pc'[r] = "created" /\ standing'[p] = "promised"
  BY <1>1 DEF Promise, TypeInv, TypeOK
<1>3. PromisedProjectsAreUsable' /\ LimitedBeforeUsable' /\ Leaving'
  BY <1>1, <1>2 DEF ContractInv, PromisedProjectsAreUsable,
     Contract!PromisesKept, Complete, LimitedBeforeUsable, Leaving, TypeInv, TypeOK
<1>4. Apart'
  BY <1>1, <1>2, StepFrame DEF ContractInv, Apart
<1>5. Progress(r)'
  BY <1>1, StepMoves DEF Progress
<1>6. ASSUME NEW q \in Requests \ {r} PROVE Progress(q)'
  BY <1>1, StepFrame DEF ContractInv, Progress
<1> QED BY <1>3, <1>4, <1>5, <1>6, StepWellFormed DEF ContractInv

LEMMA BindingContract ==
  ASSUME TypeInv, ContractInv, NEW r \in Requests, Step(r),
         ReadBinding(r) \/ PostBinding(r) \/ RereadBinding(r)
  PROVE  ContractInv'
<1>1. CASE ReadBinding(r) \/ RereadBinding(r)
  BY <1>1, AnswerContract, AwaitTyped DEF ReadBinding, RereadBinding, Bound, cluster
<1>2. CASE PostBinding(r)
  BY <1>2, AnswerContract, AwaitTyped DEF PostBinding
<1> QED BY <1>1, <1>2

\* A deletion runs on a project that is condemned, or gone.
LEMMA DeleteQuotaContract ==
  ASSUME TypeInv, ContractInv, NEW r \in Requests, Step(r), DeleteQuota(r)
  PROVE  ContractInv'
<1> DEFINE p == job[r].project
<1>1. /\ job[r].op = "delete" /\ p \in Projects /\ Active(r) /\ job' = job
      /\ quota' = [quota EXCEPT ![p] = NoQuota]
      /\ UNCHANGED <<namespace, pull, binding, standing>>
      /\ standing[p] = "condemned" \/ namespace[p] = "absent"
  BY StepFrame DEF DeleteQuota, ContractInv, WellFormed, DeleteSteps, Apart
<1>2. PromisedProjectsAreUsable' /\ LimitedBeforeUsable' /\ Leaving'
  BY <1>1 DEF ContractInv, PromisedProjectsAreUsable,
     Contract!PromisesKept, Complete, LimitedBeforeUsable, Leaving, TypeInv, TypeOK
<1>3. Apart'
  BY <1>1, StepFrame DEF ContractInv, Apart
<1>4. ASSUME NEW q \in Requests PROVE Progress(q)'
  BY <1>1, StepFrame DEF ContractInv, Progress, Apart, TypeInv, TypeOK
<1> QED BY <1>2, <1>3, <1>4, StepWellFormed DEF ContractInv

LEMMA DeleteNamespaceContract ==
  ASSUME TypeInv, ContractInv, NEW r \in Requests, Step(r), DeleteNamespace(r)
  PROVE  ContractInv'
<1> DEFINE p == job[r].project
<1>1. /\ job[r].op = "delete" /\ p \in Projects /\ Active(r) /\ job' = job
      /\ UNCHANGED <<quota, pull, binding, standing>>
      /\ standing[p] = "condemned" \/ namespace[p] = "absent"
      /\ namespace[p] \in {"absent", "active", "terminating"}
  BY StepFrame DEF DeleteNamespace, ContractInv, WellFormed, DeleteSteps, Apart,
     TypeInv, TypeOK
<1>2. CASE /\ namespace[p] = "active"
           /\ namespace' = [namespace EXCEPT ![p] = "terminating"]
  <2>1. PromisedProjectsAreUsable' /\ LimitedBeforeUsable' /\ Leaving'
    BY <1>1, <1>2 DEF ContractInv, PromisedProjectsAreUsable,
       Contract!PromisesKept, Complete, LimitedBeforeUsable, Leaving, TypeInv, TypeOK
  <2>2. Apart'
    BY <1>1, <1>2, StepFrame DEF ContractInv, Apart, TypeInv, TypeOK
  <2>3. ASSUME NEW q \in Requests PROVE Progress(q)'
    BY <1>1, <1>2, StepFrame DEF ContractInv, Progress, Apart, TypeInv, TypeOK
  <2> QED BY <2>1, <2>2, <2>3, StepWellFormed DEF ContractInv
<1>3. CASE UNCHANGED namespace
  BY <1>1, <1>3, QuietStep DEF cluster, Progress
<1> QED BY <1>1, <1>2, <1>3 DEF DeleteNamespace

LEMMA StepContract ==
  ASSUME TypeInv, ContractInv, NEW r \in Requests, Step(r)
  PROVE  ContractInv'
BY ReadContract, PostNamespaceContract, PostQuotaContract, PostPullSecretContract,
   BindingContract, DeleteQuotaContract, DeleteNamespaceContract
DEF Step, QuotaStep, CreateStep, DeleteStep

LEMMA ArriveContract ==
  ASSUME Serial, Drained, TypeInv, ContractInv,
         NEW r \in Requests, NEW j \in Jobs, Arrive(r, j)
  PROVE  ContractInv'
<1> DEFINE p == j.project
<1>1. /\ p \in Projects /\ j.op \in {"create", "delete", "resize"}
      /\ ~Active(r) /\ Admitted(j) /\ UNCHANGED cluster
      /\ job'[r] = j /\ pc'[r] = FirstStep(j.op)
      /\ \A q \in Requests \ {r} : pc'[q] = pc[q] /\ job'[q] = job[q]
      /\ standing' = IF j.op = "delete" THEN [standing EXCEPT ![p] = "condemned"]
                     ELSE standing
  BY OperationsAssumption DEF Arrive, Await, Jobs, TypeInv, TypeOK
<1>2. \A b \in Projects :
        standing'[b] = standing[b] \/ standing'[b] = "condemned"
  BY <1>1 DEF TypeInv, TypeOK
<1>3. PromisedProjectsAreUsable' /\ LimitedBeforeUsable' /\ Leaving'
  BY <1>1, <1>2 DEF ContractInv, PromisedProjectsAreUsable,
     Contract!PromisesKept, Complete, LimitedBeforeUsable, Leaving, cluster,
     TypeInv, TypeOK
<1>4. \A q \in Requests \ {r} :
        Active(q) /\ job[q].project = p =>
          /\ j.op = "create" => job[q].op # "delete"
          /\ j.op = "delete" => job[q].op # "create"
  BY <1>1 DEF Admitted, Serving
<1>5. /\ j.op = "create" => namespace[p] # "terminating"
      /\ j.op = "delete" => standing'[p] = "condemned"
  BY <1>1 DEF Admitted, TypeInv, TypeOK
<1>6. ASSUME NEW q \in Requests, NEW s \in Requests, Active(q)', Active(s)',
             job'[q].project = job'[s].project
      PROVE  ~(job'[q].op = "create" /\ job'[s].op = "delete")
  BY <1>1, <1>4, <1>6 DEF ContractInv, Apart, Active
<1>7. ASSUME NEW q \in Requests, Active(q)'
      PROVE  LET b == job'[q].project IN
             /\ job'[q].op = "delete" =>
                  standing'[b] = "condemned" \/ namespace'[b] = "absent"
             /\ job'[q].op = "create" => namespace'[b] # "terminating"
  <2>1. CASE q = r
    BY <1>1, <1>5, <2>1 DEF cluster
  <2>2. CASE q # r
    <3>1. Active(q) /\ job'[q] = job[q] /\ job[q].project \in Projects
      BY <1>1, <1>7, <2>2 DEF Active, TypeInv, WellFormed, Jobs
    <3> QED BY <1>1, <1>2, <3>1 DEF ContractInv, Apart, cluster
  <2> QED BY <2>1, <2>2
<1>8. ASSUME NEW q \in Requests PROVE Progress(q)'
  <2>1. CASE q = r
    <3>1. job'[r].op = "create" => pc'[r] = "ns_read"
      BY <1>1 DEF FirstStep
    <3> QED BY <2>1, <3>1 DEF Progress
  <2>2. CASE q # r
    BY <1>1, <2>2 DEF ContractInv, Progress, Active, cluster
  <2> QED BY <2>1, <2>2
<1>9. \A q \in Requests : WellFormed(q)'
  BY ArriveType DEF TypeInv
<1> QED BY <1>3, <1>6, <1>7, <1>8, <1>9 DEF ContractInv, Apart

\* A request that ends owes nothing.
LEMMA EndContract ==
  ASSUME TypeInv, ContractInv, UNCHANGED <<cluster, job, want, standing>>,
         \A q \in Requests : pc'[q] = pc[q] \/ pc'[q] \in {"failed", "idle"}
  PROVE  ContractInv'
<1>1. /\ \A q \in Requests : WellFormed(q)'
      /\ \A q \in Requests : Active(q)' => Active(q) /\ pc'[q] = pc[q]
  BY EndWellFormed
<1>2. PromisedProjectsAreUsable' /\ LimitedBeforeUsable' /\ Leaving'
  BY DEF ContractInv, PromisedProjectsAreUsable, Contract!PromisesKept, Complete,
     LimitedBeforeUsable, Leaving, cluster
<1>3. Apart' /\ \A q \in Requests : Progress(q)'
  BY <1>1 DEF ContractInv, Apart, Progress, cluster
<1> QED BY <1>1, <1>2, <1>3 DEF ContractInv

\* The cluster empties and removes only what is leaving.
LEMMA ClusterContract ==
  ASSUME TypeInv, ContractInv, NEW p \in Projects, Collect(p) \/ Vanish(p)
  PROVE  ContractInv'
<1>1. /\ namespace[p] = "terminating" /\ UNCHANGED <<pc, job, want>>
      /\ \A b \in Projects \ {p} :
           /\ namespace'[b] = namespace[b] /\ quota'[b] = quota[b]
           /\ standing'[b] = standing[b]
           /\ b \in pull' <=> b \in pull
           /\ b \in binding' <=> b \in binding
      /\ pull' \subseteq pull /\ binding' \subseteq binding
      /\ \/ namespace'[p] = "terminating" /\ standing'[p] = standing[p]
         \/ /\ namespace'[p] = "absent" /\ standing'[p] = "none"
            /\ quota'[p] = NoQuota /\ p \notin pull' \cup binding'
  BY DEF Collect, Vanish, TypeInv, TypeOK
<1>2. standing[p] = "condemned"
  BY <1>1 DEF ContractInv, Leaving
<1>3. PromisedProjectsAreUsable' /\ LimitedBeforeUsable' /\ Leaving'
  BY <1>1, <1>2 DEF ContractInv, PromisedProjectsAreUsable,
     Contract!PromisesKept, Complete, LimitedBeforeUsable, Leaving, TypeInv, TypeOK
<1>4. \A q \in Requests : Active(q)' => Active(q) /\ job[q].project \in Projects
  BY <1>1 DEF Active, TypeInv, WellFormed, Jobs
<1>5. Apart'
  BY <1>1, <1>2, <1>4 DEF ContractInv, Apart, Active
<1>6. ASSUME NEW q \in Requests PROVE Progress(q)'
  BY <1>1, <1>4 DEF ContractInv, Apart, Progress, Active
<1>7. \A q \in Requests : WellFormed(q)'
  BY <1>1, EndWellFormed
<1> QED BY <1>3, <1>5, <1>6, <1>7 DEF ContractInv

LEMMA NextContract ==
  ASSUME Serial, Drained, TypeInv, ContractInv, [Next]_vars
  PROVE  ContractInv'
<1>1. ASSUME NEW r \in Requests, CallFails(r) PROVE ContractInv'
  BY <1>1, EndContract DEF CallFails, Await, TypeInv, TypeOK
<1>2. CASE Crash
  BY <1>2, EndContract DEF Crash
<1>3. CASE UNCHANGED vars
  BY <1>3, EndContract DEF vars
<1> QED BY <1>1, <1>2, <1>3, StepContract, ArriveContract, ClusterContract DEF Next

LEMMA InitContract == Init => ContractInv
<1>1. "idle" \notin Steps
  BY AnswersEnd
<1> QED BY <1>1 DEF Init, ContractInv, PromisedProjectsAreUsable,
     Contract!PromisesKept, Complete, LimitedBeforeUsable, Apart, Leaving,
     WellFormed, Progress, Active

THEOREM ContractInvariance ==
  ASSUME Serial, Drained
  PROVE  Spec => []ContractInv
<1>1. TypeInv /\ ContractInv /\ [Next]_vars => ContractInv'
  BY NextContract
<1> QED BY <1>1, InitContract, TypeInvariance, PTL DEF Spec

\* A project whose creation was answered stays usable until its deletion is asked for.
THEOREM PromisedProjectsStayUsable ==
  ASSUME Serial, Drained
  PROVE  Spec => []PromisedProjectsAreUsable
<1>1. ContractInv => PromisedProjectsAreUsable
  BY DEF ContractInv
<1> QED BY <1>1, ContractInvariance, PTL

\* The service never gets to provision in a project without limits.
THEOREM ProjectsAreLimited ==
  ASSUME Serial, Drained
  PROVE  Spec => []LimitedBeforeUsable
<1>1. ContractInv => LimitedBeforeUsable
  BY DEF ContractInv
<1> QED BY <1>1, ContractInvariance, PTL

-----------------------------------------------------------------------------
(* The requests and the cluster implement the contract. *)

LEMMA InitRefines == Init => Contract!Init
BY DEF Init, Contract!Init, Complete

\* A step on one project that leaves its standing alone changes what is complete
\* only as the contract allows.
LEMMA OneProjectRefines ==
  ASSUME NEW p \in Projects, UNCHANGED standing,
         \A b \in Projects \ {p} : b \in Complete' <=> b \in Complete,
         p \in Complete /\ p \notin Complete' => standing[p] = "condemned"
  PROVE  [Contract!Next]_Contract!vars
<1>1. Complete \subseteq Projects /\ Complete' \subseteq Projects
  BY DEF Complete
<1>2. CASE p \in Complete'
  <2>1. Complete' = Complete \cup {p}
    BY <1>1, <1>2
  <2> QED BY <2>1 DEF Contract!Next, Contract!Provision
<1>3. CASE p \notin Complete' /\ p \in Complete
  <2>1. Complete' = Complete \ {p}
    BY <1>1, <1>3
  <2> QED BY <1>3, <2>1 DEF Contract!Next, Contract!Withdraw
<1>4. CASE p \notin Complete' /\ p \notin Complete
  <2>1. Complete' = Complete
    BY <1>1, <1>4
  <2> QED BY <2>1 DEF Contract!vars
<1> QED BY <1>2, <1>3, <1>4

LEMMA StepRefines ==
  ASSUME TypeInv, ContractInv, NEW r \in Requests, Step(r)
  PROVE  [Contract!Next]_Contract!vars
<1> DEFINE p == job[r].project
<1>1. /\ p \in Projects /\ Active(r) /\ WellFormed(r) /\ Progress(r) /\ ContractInv'
  BY StepFrame, StepContract DEF ContractInv
<1>2. CASE UNCHANGED <<cluster, standing>>
  BY <1>2 DEF Complete, cluster, Contract!vars
<1>3. CASE \/ PostNamespace(r) \/ PostQuota(r) \/ PostPullSecret(r)
           \/ DeleteQuota(r) \/ DeleteNamespace(r)
  <2>1. UNCHANGED standing
    BY <1>3 DEF PostNamespace, PostQuota, PostPullSecret, DeleteQuota, DeleteNamespace
  <2>2. \A b \in Projects \ {p} : b \in Complete' <=> b \in Complete
    BY <1>1, <1>3 DEF PostNamespace, PostQuota, PostPullSecret, DeleteQuota,
       DeleteNamespace, Complete, TypeInv, TypeOK
  <2>3. ASSUME p \in Complete, p \notin Complete' PROVE standing[p] = "condemned"
    <3>1. CASE DeleteQuota(r) \/ DeleteNamespace(r)
      BY <1>1, <2>3, <3>1 DEF DeleteQuota, DeleteNamespace, WellFormed, DeleteSteps,
         ContractInv, Apart, Complete
    <3>2. CASE PostNamespace(r) \/ PostPullSecret(r)
      BY <1>1, <2>3, <3>2 DEF PostNamespace, PostPullSecret, Complete, TypeInv, TypeOK
    <3>3. CASE PostQuota(r)
      BY <1>1, <2>3, <3>3 DEF PostQuota, HasQuota, Complete, TypeInv, TypeOK
    <3> QED BY <1>3, <3>1, <3>2, <3>3
  <2> QED BY <1>1, <2>1, <2>2, <2>3, OneProjectRefines
<1>4. CASE ReadBinding(r) \/ PostBinding(r) \/ RereadBinding(r)
  <2>1. /\ pc[r] \in {"rb_read", "rb_post", "rb_reread"} /\ Promise(r)
        /\ UNCHANGED <<namespace, quota, pull>>
        /\ \/ UNCHANGED binding /\ (pc'[r] = "created" => p \in binding)
           \/ binding' = binding \cup {p}
    BY <1>4, AwaitTyped DEF ReadBinding, RereadBinding, Bound, PostBinding, cluster
  <2>2. namespace[p] = "active" /\ quota[p] # NoQuota /\ p \in pull
    BY <1>1, <2>1 DEF Progress, WellFormed, CreateSteps, QuotaSteps
  <2>3. CASE UNCHANGED <<binding, standing>>
    BY <1>2, <2>1, <2>3 DEF cluster
  <2>4. CASE p \in binding'
    <3>1. Complete' = Complete \cup {p}
      BY <1>1, <2>1, <2>2, <2>4 DEF Complete
    <3>2. Contract!Stand(p, "promised") \/ UNCHANGED standing
      BY <2>1 DEF Promise, Contract!Stand
    <3> QED BY <1>1, <3>1, <3>2 DEF Contract!Next, Contract!Provision
  <2> QED BY <2>1, <2>3, <2>4 DEF Promise
<1> QED BY <1>2, <1>3, <1>4
    DEF Step, QuotaStep, CreateStep, DeleteStep, ListQuotas, ReadNamespace,
        RereadNamespace, ReadQuota, RereadQuota, ReadPullSecret, FindProject,
        QuotaExists, GetQuota, NamespaceExists, Read

LEMMA NextRefines ==
  ASSUME TypeInv, ContractInv, [Next]_vars
  PROVE  [Contract!Next]_Contract!vars
<1>1. ASSUME NEW r \in Requests, NEW j \in Jobs, Arrive(r, j)
      PROVE  [Contract!Next]_Contract!vars
  <2>1. Complete' = Complete /\ j.project \in Projects
    BY <1>1 DEF Arrive, Complete, cluster, Jobs
  <2>2. CASE j.op = "delete"
    BY <1>1, <2>1, <2>2 DEF Arrive, Contract!Next, Contract!Condemn, Contract!Stand
  <2>3. CASE j.op # "delete"
    BY <1>1, <2>1, <2>3 DEF Arrive, Contract!vars
  <2> QED BY <2>2, <2>3
<1>2. ASSUME NEW r \in Requests, CallFails(r) PROVE [Contract!Next]_Contract!vars
  BY <1>2 DEF CallFails, Complete, cluster, Contract!vars
<1>3. CASE Crash
  BY <1>3 DEF Crash, Complete, cluster, Contract!vars
<1>4. ASSUME NEW p \in Projects, Collect(p) PROVE [Contract!Next]_Contract!vars
  <2>1. /\ UNCHANGED standing /\ p \notin Complete
        /\ \A b \in Projects \ {p} : b \in Complete' <=> b \in Complete
    BY <1>4 DEF Collect, Complete, TypeInv, TypeOK
  <2> QED BY <2>1, OneProjectRefines
<1>5. ASSUME NEW p \in Projects, Vanish(p) PROVE [Contract!Next]_Contract!vars
  <2>1. p \notin Complete /\ Complete' = Complete
    BY <1>5 DEF Vanish, Complete, TypeInv, TypeOK
  <2> QED BY <1>5, <2>1 DEF Vanish, Contract!Next, Contract!Forget, Contract!Stand
<1>6. CASE UNCHANGED vars
  BY <1>6 DEF vars, Complete, cluster, Contract!vars
<1> QED BY <1>1, <1>2, <1>3, <1>4, <1>5, <1>6, StepRefines DEF Next

\* What the requests do, one API call at a time, is what the contract says.
THEOREM ServiceKeepsContract ==
  ASSUME Serial, Drained
  PROVE  Spec => ContractKept
<1>1. TypeInv /\ ContractInv /\ [Next]_vars => [Contract!Next]_Contract!vars
  BY NextRefines
<1> QED BY <1>1, InitRefines, TypeInvariance, ContractInvariance, PTL
        DEF Spec, ContractKept, Contract!Spec

-----------------------------------------------------------------------------
(* Conflicts of creations. *)

\* A creation fails with a failed call, or on a pull secret that is there.
FailsForCause(r) ==
  Active(r) /\ job[r].op = "create" /\ pc'[r] = "failed" =>
    faults' > faults \/ (pc[r] = "ps_post" /\ job[r].project \in pull)

LEMMA LostAnswer ==
  ASSUME TypeInv, NEW r \in Requests, NEW s, s # "failed", Answered(r, s),
         pc'[r] = "failed"
  PROVE  faults' > faults
BY AwaitTyped, FaultsAssumption DEF Answered, TypeInv, TypeOK

LEMMA StepFailsForCause ==
  ASSUME TypeInv, ContractInv, NEW r \in Requests, Step(r)
  PROVE  FailsForCause(r)
<1> DEFINE p == job[r].project
<1> SUFFICES ASSUME job[r].op = "create", pc'[r] = "failed"
             PROVE  faults' > faults \/ (pc[r] = "ps_post" /\ p \in pull)
  BY DEF FailsForCause
<1>1. /\ Active(r) /\ WellFormed(r) /\ Progress(r) /\ AfterQuota(r) = "ps_read"
      /\ namespace[p] \in {"absent", "active"}
  BY StepFrame DEF ContractInv, Apart, AfterQuota, TypeInv, TypeOK
<1>2. pc[r] \in {"ns_post", "ns_reread", "rq_post", "rq_reread", "ps_post",
                 "rb_post", "rb_reread"}
  BY <1>1, StepMoves DEF WellFormed, Active, Steps, CreateSteps, DeleteSteps,
     ResizeSteps, QuotaSteps
\* What a conflict pointed at is there when it is read again.
<1>3. CASE RereadNamespace(r) \/ RereadQuota(r) \/ RereadBinding(r)
  BY <1>1, <1>3, AwaitTyped
  DEF RereadNamespace, RereadQuota, RereadBinding, Read, Bound, HasNamespace,
      HasQuota, Progress
\* The other creations fail without a failed call only in a namespace that is not
\* active, and there is none at this step.
<1>4. CASE PostNamespace(r)
  BY <1>1, <1>4, AwaitTyped, LostAnswer DEF PostNamespace
<1>5. CASE PostQuota(r)
  BY <1>1, <1>5, AwaitTyped, LostAnswer DEF PostQuota, Progress
<1>6. CASE PostPullSecret(r)
  BY <1>1, <1>6, AwaitTyped, LostAnswer DEF PostPullSecret, Progress
<1>7. CASE PostBinding(r)
  BY <1>1, <1>7, AwaitTyped, LostAnswer DEF PostBinding, Progress
<1> QED BY <1>2, <1>3, <1>4, <1>5, <1>6, <1>7
    DEF Step, QuotaStep, CreateStep, DeleteStep, ListQuotas, ReadNamespace,
        ReadQuota, ReadPullSecret, ReadBinding, FindProject, QuotaExists, GetQuota,
        DeleteQuota, NamespaceExists, DeleteNamespace, Read, Bound

LEMMA NextFailsForCause ==
  ASSUME TypeInv, ContractInv, [Next]_vars, NEW r \in Requests
  PROVE  FailsForCause(r)
<1>1. Active(r) => pc[r] # "failed"
  BY AnswersEnd DEF Active, Answers
<1>2. ASSUME NEW q \in Requests, Step(q) PROVE FailsForCause(r)
  BY <1>1, <1>2, StepFailsForCause, StepFrame DEF FailsForCause
<1>3. ASSUME NEW q \in Requests, NEW j \in Jobs, Arrive(q, j)
      PROVE  FailsForCause(r)
  BY <1>1, <1>3 DEF Arrive, Await, FailsForCause, TypeInv, TypeOK
<1>4. ASSUME NEW q \in Requests, CallFails(q) PROVE FailsForCause(r)
  BY <1>4, FaultsAssumption DEF CallFails, FailsForCause, TypeInv, TypeOK
<1>5. CASE Crash
  BY <1>1, <1>5 DEF Crash, FailsForCause
<1>6. ASSUME NEW b \in Projects, Collect(b) \/ Vanish(b) PROVE FailsForCause(r)
  BY <1>1, <1>6 DEF Collect, Vanish, FailsForCause
<1>7. CASE UNCHANGED vars
  BY <1>1, <1>7 DEF vars, FailsForCause
<1> QED BY <1>2, <1>3, <1>4, <1>5, <1>6, <1>7 DEF Next

\* A creation that meets what another request made goes on with it; only the
\* conflict on the pull secret, and a failed call, fail it.
THEOREM CreationsResolveConflicts ==
  ASSUME Serial, Drained
  PROVE  Spec => ConflictsResolved
<1>1. TypeInv /\ ContractInv /\ [Next]_vars =>
        [\A r \in Requests :
           Active(r) /\ job[r].op = "create" /\ pc'[r] = "failed" =>
             faults' > faults \/ (pc[r] = "ps_post" /\ job[r].project \in pull)]_vars
  BY NextFailsForCause DEF FailsForCause
<1> QED BY <1>1, TypeInvariance, ContractInvariance, PTL
        DEF Spec, ConflictsResolved
=============================================================================

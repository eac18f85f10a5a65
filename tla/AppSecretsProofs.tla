-------------------------- MODULE AppSecretsProofs --------------------------
(***************************************************************************)
(* Theorems about AppSecrets, for any number of apps, secrets and          *)
(* concurrent requests and any number of failures and crashes, when stores *)
(* and revocations of one app do not overlap.                              *)
(***************************************************************************)
EXTENDS AppSecrets, TLAPS

TypeInv == TypeOK /\ \A r \in Requests : WellFormed(r)

\* The request r takes a step: no other request is touched.
Moves(r) == job' = job /\ pc' = [pc EXCEPT ![r] = pc'[r]]

-----------------------------------------------------------------------------
(* Type correctness. *)

LEMMA InitTypeInv == Init => TypeInv
BY BoundsAssumption
DEF Init, TypeInv, TypeOK, WellFormed, Active, Steps, StoreSteps, RevokeSteps

LEMMA AnsweredTyped ==
  ASSUME TypeInv, NEW r \in Requests, NEW s, Answered(r, s)
  PROVE  /\ faults' \in 0..MaxFaults
         /\ pc' = [pc EXCEPT ![r] = pc'[r]]
         /\ pc'[r] \in {s, "failed"}
BY BoundsAssumption DEF TypeInv, TypeOK, Answered, Await

\* Every step of a request goes on with its operation or answers it.
LEMMA StepMoves ==
  ASSUME TypeInv, NEW r \in Requests, Step(r)
  PROVE  /\ Active(r) /\ Moves(r) /\ faults' \in 0..MaxFaults
         /\ deployed' = deployed /\ job[r] \in Jobs
         /\ pc[r] = "find" =>
              pc'[r] \in {"rejected", IF job[r].op = "store" THEN "put_secret"
                                                             ELSE "drop_secret"}
         /\ pc[r] = "put_secret" => pc'[r] \in {"put_policy", "failed"}
         /\ pc[r] = "put_policy" => pc'[r] \in {"put_role", "failed"}
         /\ pc[r] = "put_role" => pc'[r] \in {"stored", "failed"}
         /\ pc[r] = "drop_secret" => pc'[r] \in {"list", "failed"}
         /\ pc[r] = "list" => pc'[r] \in {"drop_role", "kept"}
         /\ pc[r] = "drop_role" => pc'[r] \in {"drop_policy", "failed"}
         /\ pc[r] = "drop_policy" => pc'[r] \in {"cleaned", "failed"}
<1>1. Active(r) /\ job[r] \in Jobs
  BY DEF Step, Find, StoreStep, PutSecret, PutPolicy, PutRole, RevokeStep,
     DropSecret, List, DropRole, DropPolicy, Active, Steps, StoreSteps,
     RevokeSteps, TypeInv, WellFormed
<1>2. CASE Find(r)
  BY <1>1, <1>2 DEF Find, Await, Moves, TypeInv, TypeOK
<1>3. CASE List(r)
  BY <1>1, <1>3 DEF List, Await, Moves, TypeInv, TypeOK
<1>4. CASE PutSecret(r) \/ PutPolicy(r) \/ PutRole(r)
  BY <1>1, <1>4, AnsweredTyped DEF PutSecret, PutPolicy, PutRole, Moves
<1>5. CASE DropSecret(r) \/ DropRole(r) \/ DropPolicy(r)
  BY <1>1, <1>5, AnsweredTyped DEF DropSecret, DropRole, DropPolicy, Moves
<1> QED BY <1>2, <1>3, <1>4, <1>5 DEF Step, StoreStep, RevokeStep

LEMMA StepType ==
  ASSUME TypeInv, NEW r \in Requests, Step(r)
  PROVE  TypeInv'
<1>1. /\ Active(r) /\ Moves(r) /\ job[r] \in Jobs
      /\ pc'[r] \in Steps \cup Answers
  BY StepMoves DEF Active, Steps, StoreSteps, RevokeSteps, Answers
<1>2. WellFormed(r)'
  BY <1>1, StepMoves DEF WellFormed, Active, Moves, Steps, StoreSteps,
     RevokeSteps, TypeInv, Jobs
<1>3. \A q \in Requests : WellFormed(q)'
  BY <1>1, <1>2 DEF WellFormed, Active, Moves, TypeInv, TypeOK
<1>4. /\ pc' \in [Requests -> Steps \cup Answers \cup {"idle"}]
      /\ job' \in [Requests -> Jobs \cup {NoJob}]
  BY <1>1 DEF Moves, TypeInv, TypeOK
<1>5. /\ secrets' \in [Apps -> SUBSET Names] /\ policies' \subseteq Apps
      /\ roles' \subseteq Apps /\ listErrors' \in 0..MaxListErrors
      /\ promised' \in [Apps -> SUBSET Names]
  BY <1>1, BoundsAssumption
  DEF Step, Find, StoreStep, PutSecret, PutPolicy, PutRole, RevokeStep,
      DropSecret, List, DropRole, DropPolicy, vault, TypeInv, TypeOK, Jobs
<1> QED BY <1>3, <1>4, <1>5, StepMoves DEF TypeInv, TypeOK

LEMMA NextType ==
  ASSUME TypeInv, [Next]_vars
  PROVE  TypeInv'
<1> USE DEF TypeInv, TypeOK
<1>1. ASSUME NEW r \in Requests, NEW j \in Jobs, Arrive(r, j) PROVE TypeInv'
  BY <1>1 DEF Arrive, Await, vault, WellFormed, Active, Steps, StoreSteps,
     RevokeSteps, Jobs
<1>2. ASSUME NEW r \in Requests, CallFails(r) PROVE TypeInv'
  BY <1>2, BoundsAssumption DEF CallFails, Await, vault, WellFormed, Active,
     Steps, StoreSteps, RevokeSteps, Answers
<1>3. CASE Crash
  BY <1>3, BoundsAssumption DEF Crash, vault, WellFormed, Active, Steps,
     StoreSteps, RevokeSteps
<1>4. ASSUME NEW a \in Apps, Deploy(a) \/ Undeploy(a) PROVE TypeInv'
  BY <1>4 DEF Deploy, Undeploy, vault, WellFormed, Active
<1>5. CASE UNCHANGED vars
  BY <1>5 DEF vars, vault, WellFormed, Active
<1> QED BY <1>1, <1>2, <1>3, <1>4, <1>5, StepType DEF Next

\* Every request is at a step of its operation, in every reachable state.
THEOREM TypeInvariance == Spec => []TypeInv
<1>1. TypeInv /\ [Next]_vars => TypeInv'
  BY NextType
<1> QED BY <1>1, InitTypeInv, PTL DEF Spec

\* Every reachable state is well typed.
THEOREM TypeCorrect == Spec => []TypeOK
<1>1. TypeInv => TypeOK
  BY DEF TypeInv
<1> QED BY <1>1, TypeInvariance, PTL

-----------------------------------------------------------------------------
(* Access. *)

LEMMA StepAccess ==
  ASSUME TypeInv, AccessInv, NEW r \in Requests, Step(r)
  PROVE  AccessInv'
<1> USE DEF TypeInv, TypeOK
<1> DEFINE a == job[r].app
           n == job[r].name
<1>1. /\ Active(r) /\ job' = job /\ pc' = [pc EXCEPT ![r] = pc'[r]]
      /\ job[r] \in Jobs /\ a \in Apps /\ n \in Names
      /\ \A q \in Requests \ {r} : pc'[q] = pc[q]
      /\ \A q \in Requests : Active(q)' => Active(q)
  BY StepMoves DEF Moves, Jobs, Active
<1>2. \A q \in Requests :
        /\ Active(q) => job[q].app \in Apps /\ job[q].name \in Names
        /\ pc[q] \in {"put_secret", "put_policy", "put_role"} =>
             Active(q) /\ job[q].op = "store"
        /\ pc[q] \in {"drop_secret", "list", "drop_role", "drop_policy"} =>
             Active(q) /\ job[q].op = "revoke"
  BY DEF WellFormed, Active, Steps, StoreSteps, RevokeSteps, Jobs
<1>3. \A q, s \in Requests :
        (Active(q)' /\ Active(s)' /\ job'[q].app = job'[s].app) =>
          job'[q].op = job'[s].op
  BY <1>1 DEF AccessInv
<1>4. CASE Find(r)
  BY <1>1, <1>3, <1>4, StepMoves
  DEF Find, AccessInv, StoredSecretsReadable, RoleHasItsPolicy, vault, Active
<1>5. CASE PutSecret(r)
  BY <1>1, <1>2, <1>3, <1>5, StepMoves
  DEF PutSecret, AccessInv, StoredSecretsReadable, RoleHasItsPolicy
<1>6. CASE PutPolicy(r)
  BY <1>1, <1>2, <1>3, <1>6, StepMoves
  DEF PutPolicy, AccessInv, StoredSecretsReadable, RoleHasItsPolicy
<1>7. CASE PutRole(r)
  BY <1>1, <1>2, <1>3, <1>7, StepMoves
  DEF PutRole, AccessInv, StoredSecretsReadable, RoleHasItsPolicy
<1>8. CASE DropSecret(r)
  BY <1>1, <1>2, <1>3, <1>8, StepMoves
  DEF DropSecret, AccessInv, StoredSecretsReadable, RoleHasItsPolicy
<1>9. CASE List(r)
  BY <1>1, <1>2, <1>3, <1>9, StepMoves
  DEF List, Await, AccessInv, StoredSecretsReadable, RoleHasItsPolicy, vault
<1>10. CASE DropRole(r)
  BY <1>1, <1>2, <1>3, <1>10, StepMoves
  DEF DropRole, AccessInv, StoredSecretsReadable, RoleHasItsPolicy
<1>11. CASE DropPolicy(r)
  BY <1>1, <1>2, <1>3, <1>11, StepMoves
  DEF DropPolicy, AccessInv, StoredSecretsReadable, RoleHasItsPolicy
<1> QED BY <1>4, <1>5, <1>6, <1>7, <1>8, <1>9, <1>10, <1>11
        DEF Step, StoreStep, RevokeStep

LEMMA ArriveAccess ==
  ASSUME Serial, TypeInv, AccessInv, NEW r \in Requests, NEW j \in Jobs, Arrive(r, j)
  PROVE  AccessInv'
<1>1. /\ ~Active(r) /\ Admitted(j) /\ UNCHANGED <<vault, listErrors>>
      /\ job'[r] = j /\ pc'[r] = "find"
      /\ \A q \in Requests \ {r} : pc'[q] = pc[q] /\ job'[q] = job[q]
      /\ j.app \in Apps /\ j.op \in {"store", "revoke"}
      /\ promised' = IF j.op = "revoke"
                     THEN [promised EXCEPT ![j.app] = @ \ {j.name}] ELSE promised
  BY DEF Arrive, Await, TypeInv, TypeOK, Jobs
<1>2. ASSUME NEW q \in Requests \ {r}, Active(q), job[q].app = j.app
      PROVE  job[q].op = j.op
  BY <1>1, <1>2 DEF Admitted, Serving, TypeInv, WellFormed, Jobs
<1>3. ASSUME NEW b \in Apps
      PROVE  /\ promised'[b] \subseteq promised[b]
             /\ (j.op = "revoke" /\ b = j.app) => j.name \notin promised'[b]
  BY <1>1 DEF TypeInv, TypeOK
<1>4. StoredSecretsReadable' /\ RoleHasItsPolicy'
  BY <1>1, <1>3 DEF AccessInv, StoredSecretsReadable, RoleHasItsPolicy, vault
<1>5. \A q, s \in Requests :
        (Active(q)' /\ Active(s)' /\ job'[q].app = job'[s].app) =>
          job'[q].op = job'[s].op
  BY <1>1, <1>2 DEF AccessInv, Active
<1>6. ASSUME NEW q \in Requests, Active(q)', job'[q].op = "revoke"
      PROVE  job'[q].name \notin promised'[job'[q].app]
  <2>1. CASE q = r
    BY <1>1, <1>3, <1>6, <2>1
  <2>2. CASE q # r
    BY <1>1, <1>3, <1>6, <2>2 DEF AccessInv, Active, TypeInv, WellFormed, Jobs
  <2> QED BY <2>1, <2>2
<1>7. ASSUME NEW q \in Requests
      PROVE  /\ pc'[q] \in {"put_policy", "put_role"} =>
                  job'[q].name \in secrets'[job'[q].app]
             /\ pc'[q] = "put_role" => job'[q].app \in policies'
             /\ (pc'[q] \in {"drop_role", "drop_policy"} /\ listErrors' = 0) =>
                  secrets'[job'[q].app] = {}
             /\ pc'[q] = "drop_policy" => job'[q].app \notin roles'
  BY <1>1 DEF AccessInv, vault
<1> QED BY <1>4, <1>5, <1>6, <1>7 DEF AccessInv

\* A request that ends owes nothing.
LEMMA EndAccess ==
  ASSUME TypeInv, AccessInv, UNCHANGED <<vault, job, promised, listErrors>>,
         \A q \in Requests : pc'[q] = pc[q] \/ pc'[q] \in {"failed", "idle"}
  PROVE  AccessInv'
<1>1. \A q \in Requests : Active(q)' => Active(q) /\ pc'[q] = pc[q]
  BY DEF Active, Steps, StoreSteps, RevokeSteps
<1> QED BY <1>1
    DEF AccessInv, StoredSecretsReadable, RoleHasItsPolicy, vault, Active

LEMMA NextAccess ==
  ASSUME Serial, TypeInv, AccessInv, [Next]_vars
  PROVE  AccessInv'
<1>1. ASSUME NEW r \in Requests, CallFails(r) PROVE AccessInv'
  BY <1>1, EndAccess DEF CallFails, Await, TypeInv, TypeOK
<1>2. CASE Crash
  BY <1>2, EndAccess DEF Crash
<1>3. ASSUME NEW a \in Apps, Deploy(a) \/ Undeploy(a) PROVE AccessInv'
  BY <1>3, EndAccess DEF Deploy, Undeploy
<1>4. CASE UNCHANGED vars
  BY <1>4, EndAccess DEF vars
<1> QED BY <1>1, <1>2, <1>3, <1>4, StepAccess, ArriveAccess DEF Next

LEMMA InitAccess == Init => AccessInv
BY DEF Init, AccessInv, StoredSecretsReadable, RoleHasItsPolicy, Active, Steps,
   StoreSteps, RevokeSteps

THEOREM AccessInvariance ==
  ASSUME Serial
  PROVE  Spec => []AccessInv
<1>1. TypeInv /\ AccessInv /\ [Next]_vars => AccessInv'
  BY NextAccess
<1> QED BY <1>1, InitAccess, TypeInvariance, PTL DEF Spec

\* A stored secret stays in Vault and readable for its app until it is revoked,
\* as long as Vault lists secrets without error.
THEOREM SecretsStayReadable ==
  ASSUME Serial
  PROVE  Spec => []StoredSecretsReadable
<1>1. AccessInv => StoredSecretsReadable
  BY DEF AccessInv
<1> QED BY <1>1, AccessInvariance, PTL

\* No role outlives or precedes the policy it grants.
THEOREM RolesHaveTheirPolicy ==
  ASSUME Serial
  PROVE  Spec => []RoleHasItsPolicy
<1>1. AccessInv => RoleHasItsPolicy
  BY DEF AccessInv
<1> QED BY <1>1, AccessInvariance, PTL

-----------------------------------------------------------------------------
(* Answers of revocations. *)

\* What a revocation answers is true of Vault in the state after its answer.
AnswersTruthfully(r) ==
  /\ pc'[r] = "cleaned" => job[r].app \notin policies' \cup roles'
  /\ (pc'[r] = "cleaned" /\ listErrors = 0) => secrets'[job[r].app] = {}
  /\ pc'[r] = "kept" => secrets'[job[r].app] # {}

LEMMA StepAnswersTruthfully ==
  ASSUME TypeInv, AccessInv, NEW r \in Requests, Step(r)
  PROVE  AnswersTruthfully(r)
<1>1. CASE DropPolicy(r)
  \* The role went before the policy, and the secrets before the role.
  <2>1. /\ job[r].app \notin roles
        /\ listErrors = 0 => secrets[job[r].app] = {}
    BY <1>1 DEF DropPolicy, AccessInv
  <2>2. pc'[r] # "kept"
    BY <1>1, AnsweredTyped DEF DropPolicy
  <2> QED BY <1>1, <2>1, <2>2 DEF DropPolicy, AnswersTruthfully
<1>2. CASE List(r)
  \* The listing and the answer are one step.
  BY <1>2 DEF List, Await, AnswersTruthfully, vault, TypeInv, TypeOK
<1>3. CASE pc[r] \in Steps \ {"list", "drop_policy"}
  BY <1>3, StepMoves DEF AnswersTruthfully, Steps, StoreSteps, RevokeSteps
<1>4. /\ pc[r] \in Steps
      /\ pc[r] = "list" => List(r)
      /\ pc[r] = "drop_policy" => DropPolicy(r)
  BY StepMoves DEF Active, Step, Find, StoreStep, PutSecret, PutPolicy, PutRole,
     RevokeStep, DropSecret, List, DropRole, DropPolicy
<1> QED BY <1>1, <1>2, <1>3, <1>4

LEMMA NextAnswersTruthfully ==
  ASSUME TypeInv, AccessInv, [Next]_vars, NEW r \in Requests, Active(r)
  PROVE  AnswersTruthfully(r)
<1>1. pc[r] \notin {"cleaned", "kept"}
  BY DEF Active, Steps, StoreSteps, RevokeSteps
<1>2. ASSUME NEW q \in Requests, Step(q) PROVE AnswersTruthfully(r)
  BY <1>1, <1>2, StepAnswersTruthfully, StepMoves
  DEF Moves, AnswersTruthfully, TypeInv, TypeOK
<1>3. ASSUME NEW q \in Requests, NEW j \in Jobs, Arrive(q, j)
      PROVE  AnswersTruthfully(r)
  BY <1>1, <1>3 DEF Arrive, Await, AnswersTruthfully, TypeInv, TypeOK
<1>4. ASSUME NEW q \in Requests, CallFails(q) PROVE AnswersTruthfully(r)
  BY <1>1, <1>4 DEF CallFails, Await, AnswersTruthfully, TypeInv, TypeOK
<1>5. CASE Crash
  BY <1>1, <1>5 DEF Crash, AnswersTruthfully
<1>6. ASSUME NEW a \in Apps, Deploy(a) \/ Undeploy(a)
      PROVE  AnswersTruthfully(r)
  BY <1>1, <1>6 DEF Deploy, Undeploy, AnswersTruthfully
<1>7. CASE UNCHANGED vars
  BY <1>1, <1>7 DEF vars, AnswersTruthfully
<1> QED BY <1>2, <1>3, <1>4, <1>5, <1>6, <1>7 DEF Next

\* "cleaned" is answered when the app has neither role nor policy, and no secret
\* unless a listing failed, and "kept" when it has a secret.
THEOREM RevocationsAnswerTruthfully ==
  ASSUME Serial
  PROVE  Spec => RevokeAnswersTruthfully
<1>1. TypeInv /\ AccessInv /\ [Next]_vars =>
        [\A r \in Requests : Active(r) =>
           /\ pc'[r] = "cleaned" => job[r].app \notin policies' \cup roles'
           /\ (pc'[r] = "cleaned" /\ listErrors = 0) => secrets'[job[r].app] = {}
           /\ pc'[r] = "kept" => secrets'[job[r].app] # {}]_vars
  BY NextAnswersTruthfully DEF AnswersTruthfully
<1> QED BY <1>1, TypeInvariance, AccessInvariance, PTL
        DEF Spec, RevokeAnswersTruthfully

=============================================================================

----------------------------- MODULE AppSecrets -----------------------------
(***************************************************************************)
(* The secrets of the apps: storing one writes it to Vault and then sets   *)
(* up the policy and the Kubernetes auth role through which the app's pods *)
(* read it; revoking the last one takes them down again.  Every request is *)
(* a sequence of Vault calls that other requests, failures and crashes     *)
(* interleave with.                                                        *)
(***************************************************************************)
EXTENDS Naturals, FiniteSets

CONSTANTS
  Apps,           \* names of apps in the project's namespace
  Names,          \* names of secrets
  Requests,       \* slots for requests that are served at the same time
  Serial,         \* TRUE: stores and revocations of one app never overlap
  MaxFaults,      \* bound on failed calls and crashes
  MaxListErrors,  \* bound on listings that Vault answers with an error
  NoJob

ASSUME BoundsAssumption == MaxFaults \in Nat /\ MaxListErrors \in Nat
ASSUME SerialAssumption == Serial \in BOOLEAN

VARIABLES
  deployed,       \* apps that have a Deployment
  secrets,        \* names of the secrets Vault keeps for every app
  policies,       \* apps whose Vault policy exists
  roles,          \* apps whose Kubernetes auth role exists
  pc,             \* the call a request awaits next, or its answer
  job,            \* what the request asks for
  faults,         \* failed calls and crashes so far
  listErrors,     \* listings answered with an error so far
  promised        \* history: secrets whose storing was answered, not revoked since

vault == <<secrets, policies, roles>>
vars == <<deployed, vault, pc, job, faults, listErrors, promised>>

Jobs == [op : {"store", "revoke"}, app : Apps, name : Names]

StoreSteps == {"find", "put_secret", "put_policy", "put_role"}
RevokeSteps == {"find", "drop_secret", "list", "drop_role", "drop_policy"}
Steps == StoreSteps \cup RevokeSteps
Answers == {"stored", "kept", "cleaned", "rejected", "failed"}

Active(r) == pc[r] \in Steps
Serving(op, a) ==
  \E r \in Requests : Active(r) /\ job[r].op = op /\ job[r].app = a
Revoking(a, n) ==
  \E r \in Requests : Active(r) /\ job[r] = [op |-> "revoke", app |-> a, name |-> n]

TypeOK ==
  /\ deployed \subseteq Apps
  /\ secrets \in [Apps -> SUBSET Names]
  /\ policies \subseteq Apps
  /\ roles \subseteq Apps
  /\ pc \in [Requests -> Steps \cup Answers \cup {"idle"}]
  /\ job \in [Requests -> Jobs \cup {NoJob}]
  /\ faults \in 0..MaxFaults
  /\ listErrors \in 0..MaxListErrors
  /\ promised \in [Apps -> SUBSET Names]

Init ==
  /\ deployed = {}
  /\ secrets = [a \in Apps |-> {}]
  /\ policies = {}
  /\ roles = {}
  /\ pc = [r \in Requests |-> "idle"]
  /\ job = [r \in Requests |-> NoJob]
  /\ faults = 0
  /\ listErrors = 0
  /\ promised = [a \in Apps |-> {}]

-----------------------------------------------------------------------------
Await(r, step) == pc' = [pc EXCEPT ![r] = step]

\* A call that changed Vault is answered, or its answer is lost.
Answered(r, step) ==
  \/ Await(r, step) /\ UNCHANGED faults
  \/ /\ faults < MaxFaults
     /\ faults' = faults + 1
     /\ Await(r, "failed")

\* What the clients keep apart, under Serial: nothing in the code does.
Admitted(j) ==
  Serial => ~Serving(IF j.op = "store" THEN "revoke" ELSE "store", j.app)

\* A secret that is being revoked is no longer promised.
Arrive(r, j) ==
  /\ ~Active(r)
  /\ Admitted(j)
  /\ job' = [job EXCEPT ![r] = j]
  /\ Await(r, "find")
  /\ promised' = IF j.op = "revoke"
                 THEN [promised EXCEPT ![j.app] = @ \ {j.name}] ELSE promised
  /\ UNCHANGED <<deployed, vault, faults, listErrors>>

Find(r) ==
  /\ pc[r] = "find"
  /\ Await(r, IF job[r].app \notin deployed THEN "rejected"
              ELSE IF job[r].op = "store" THEN "put_secret" ELSE "drop_secret")
  /\ UNCHANGED <<deployed, vault, job, faults, listErrors, promised>>

-----------------------------------------------------------------------------
(* Storing: the secret, the policy that reads it, the role that has it. *)

\* Mutant: the arguments of the secret's path are swapped.
PutSecretSwapped(r) ==
  /\ pc[r] = "put_secret"
  /\ secrets' = [secrets EXCEPT ![job[r].app] = @ \cup {job[r].app}]
  /\ Answered(r, "put_policy")
  /\ UNCHANGED <<deployed, policies, roles, job, listErrors, promised>>

PutSecret(r) ==
  /\ pc[r] = "put_secret"
  /\ secrets' = [secrets EXCEPT ![job[r].app] = @ \cup {job[r].name}]
  /\ Answered(r, "put_policy")
  /\ UNCHANGED <<deployed, policies, roles, job, listErrors, promised>>

PutPolicy(r) ==
  /\ pc[r] = "put_policy"
  /\ policies' = policies \cup {job[r].app}
  /\ Answered(r, "put_role")
  /\ UNCHANGED <<deployed, secrets, roles, job, listErrors, promised>>

PutRole(r) ==
  LET a == job[r].app
      n == job[r].name IN
  /\ pc[r] = "put_role"
  /\ roles' = roles \cup {a}
  /\ Answered(r, "stored")
  /\ promised' = IF pc'[r] = "stored" /\ ~Revoking(a, n)
                 THEN [promised EXCEPT ![a] = @ \cup {n}] ELSE promised
  /\ UNCHANGED <<deployed, secrets, policies, job, listErrors>>

-----------------------------------------------------------------------------
(* Revoking: the secret, then, when none is left, the role and the policy. *)

DropSecret(r) ==
  /\ pc[r] = "drop_secret"
  /\ secrets' = [secrets EXCEPT ![job[r].app] = @ \ {job[r].name}]
  /\ Answered(r, "list")
  /\ UNCHANGED <<deployed, policies, roles, job, listErrors, promised>>

\* Mutant: the access structure goes with any secret.
ListIgnored(r) ==
  /\ pc[r] = "list"
  /\ Await(r, "drop_role") /\ UNCHANGED listErrors
  /\ UNCHANGED <<deployed, vault, job, faults, promised>>

\* An error of Vault is returned as an empty listing.
List(r) ==
  /\ pc[r] = "list"
  /\ \/ /\ Await(r, IF secrets[job[r].app] = {} THEN "drop_role" ELSE "kept")
        /\ UNCHANGED listErrors
     \/ /\ listErrors < MaxListErrors
        /\ listErrors' = listErrors + 1
        /\ Await(r, "drop_role")
  /\ UNCHANGED <<deployed, vault, job, faults, promised>>

\* Mutant: the policy goes first.
DropRoleLast(r) ==
  /\ pc[r] = "drop_role"
  /\ policies' = policies \ {job[r].app}
  /\ Answered(r, "drop_policy")
  /\ UNCHANGED <<deployed, secrets, roles, job, listErrors, promised>>

DropRole(r) ==
  /\ pc[r] = "drop_role"
  /\ roles' = roles \ {job[r].app}
  /\ Answered(r, "drop_policy")
  /\ UNCHANGED <<deployed, secrets, policies, job, listErrors, promised>>

\* Mutant: the policy stays.
DropPolicyNot(r) ==
  /\ pc[r] = "drop_policy"
  /\ Answered(r, "cleaned")
  /\ UNCHANGED <<deployed, vault, job, listErrors, promised>>

DropPolicy(r) ==
  /\ pc[r] = "drop_policy"
  /\ policies' = policies \ {job[r].app}
  /\ Answered(r, "cleaned")
  /\ UNCHANGED <<deployed, secrets, roles, job, listErrors, promised>>

-----------------------------------------------------------------------------
(* Failures, and the requests of AppLifecycle that deploy and delete apps. *)

\* A call fails without effect.
CallFails(r) ==
  /\ Active(r)
  /\ faults < MaxFaults
  /\ faults' = faults + 1
  /\ Await(r, "failed")
  /\ UNCHANGED <<deployed, vault, job, listErrors, promised>>

\* The process dies: every request in flight is dropped.
Crash ==
  /\ faults < MaxFaults
  /\ \E r \in Requests : Active(r)
  /\ faults' = faults + 1
  /\ pc' = [r \in Requests |-> IF Active(r) THEN "idle" ELSE pc[r]]
  /\ UNCHANGED <<deployed, vault, job, listErrors, promised>>

\* Deleting an app leaves its secrets, its policy and its role alone.
Deploy(a) ==
  /\ a \notin deployed
  /\ deployed' = deployed \cup {a}
  /\ UNCHANGED <<vault, pc, job, faults, listErrors, promised>>
Undeploy(a) ==
  /\ a \in deployed
  /\ deployed' = deployed \ {a}
  /\ UNCHANGED <<vault, pc, job, faults, listErrors, promised>>

-----------------------------------------------------------------------------
StoreStep(r) == PutSecret(r) \/ PutPolicy(r) \/ PutRole(r)
RevokeStep(r) == DropSecret(r) \/ List(r) \/ DropRole(r) \/ DropPolicy(r)
Step(r) == Find(r) \/ StoreStep(r) \/ RevokeStep(r)

Next ==
  \/ \E r \in Requests : Step(r) \/ CallFails(r) \/ \E j \in Jobs : Arrive(r, j)
  \/ Crash
  \/ \E a \in Apps : Deploy(a) \/ Undeploy(a)

Spec == Init /\ [][Next]_vars

-----------------------------------------------------------------------------
(* Properties. *)

\* A secret whose storing was answered is in Vault, and the app's pods can read
\* it, until it is revoked itself: other stores and revocations of the app,
\* half-done ones included, neither lose it nor take the access away, as long as
\* Vault lists secrets without error.
StoredSecretsReadable ==
  \A a \in Apps : (promised[a] # {} /\ listErrors = 0) =>
    /\ promised[a] \subseteq secrets[a]
    /\ a \in policies
    /\ a \in roles

\* A role never grants a policy that does not exist: the policy is created
\* before the role and deleted after it, also when a request stops half-way.
RoleHasItsPolicy == roles \subseteq policies

\* A revocation answers "cleaned" when the last secret, the policy and the role
\* are gone (unless Vault failed to list), and "kept" when another secret is left
\* (core/app_deployment/repository.py:170).
RevokeAnswersTruthfully ==
  [][\A r \in Requests : Active(r) =>
       /\ pc'[r] = "cleaned" => job[r].app \notin policies' \cup roles'
       /\ (pc'[r] = "cleaned" /\ listErrors = 0) => secrets'[job[r].app] = {}
       /\ pc'[r] = "kept" => secrets'[job[r].app] # {}]_vars

-----------------------------------------------------------------------------
(* What the proofs of AppSecretsProofs need to know of every state. *)

\* A request in flight is at a step of its operation.
WellFormed(r) ==
  Active(r) =>
    /\ job[r] \in Jobs
    /\ pc[r] \in StoreSteps \ {"find"} => job[r].op = "store"
    /\ pc[r] \in RevokeSteps \ {"find"} => job[r].op = "revoke"

\* What a store has set up so far and what a revocation has taken down so far.
AccessInv ==
  /\ StoredSecretsReadable
  /\ RoleHasItsPolicy
  /\ \A r, q \in Requests : (Active(r) /\ Active(q) /\ job[r].app = job[q].app) =>
       job[r].op = job[q].op
  /\ \A r \in Requests : (Active(r) /\ job[r].op = "revoke") =>
       job[r].name \notin promised[job[r].app]
  /\ \A r \in Requests :
       /\ pc[r] \in {"put_policy", "put_role"} => job[r].name \in secrets[job[r].app]
       /\ pc[r] = "put_role" => job[r].app \in policies
       /\ (pc[r] \in {"drop_role", "drop_policy"} /\ listErrors = 0) =>
            secrets[job[r].app] = {}
       /\ pc[r] = "drop_policy" => job[r].app \notin roles

=============================================================================

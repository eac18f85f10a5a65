---------------------------- MODULE VaultBinding ----------------------------
(***************************************************************************)
(* The secret manager: binding a ServiceAccount to Vault creates a policy  *)
(* and a role there and then writes the role's name on the account; a      *)
(* setup goes on to write it on the pod template of a workload.  A         *)
(* teardown reads the name from the account, deletes the role and the      *)
(* policy, and takes the name off last, so that what it leaves half done   *)
(* can be found again.  One ServiceAccount; other requests, failures and   *)
(* crashes come between any two calls.                                     *)
(***************************************************************************)
EXTENDS Naturals

CONSTANTS
  Roles,          \* names of Vault roles a binding may ask for
  DefaultRole,    \* the name a setup derives from the account
  Deployments, StatefulSets,
  Requests,       \* slots for requests that are served at the same time
  Serial,         \* TRUE: bindings and unbindings never overlap
  MaxFaults,      \* bound on failed calls and crashes
  NoRole, NoAccount, NoWorkload, NoJob

Workloads == Deployments \cup StatefulSets

ASSUME RolesAssumption == DefaultRole \in Roles /\ {NoRole, NoAccount} \cap Roles = {}
ASSUME WorkloadsAssumption == NoWorkload \notin Workloads \cup Roles \cup {NoRole}
ASSUME SerialAssumption == Serial \in BOOLEAN
ASSUME BoundsAssumption == MaxFaults \in Nat

VARIABLES
  account,        \* the role the account names, NoRole, or NoAccount
  policy,         \* whether the account's policy exists
  roles,          \* the roles that exist
  template,       \* the role a workload's pods ask Vault for
  pc,             \* the call a request awaits next, or its answer
  job,            \* what the request asks for
  faults,         \* failed calls and crashes so far
  stray,          \* history: something was left that the account does not name
  served          \* history: workloads whose setup was answered and stands

vault == <<policy, roles>>
vars == <<account, vault, template, pc, job, faults, stray, served>>

Jobs ==
  [op : {"bind"}, role : Roles, workload : {NoWorkload}]
    \cup [op : {"setup"}, role : {DefaultRole}, workload : Workloads]
    \cup [op : {"unbind"}, role : Roles \cup {NoRole}, workload : {NoWorkload}]
    \cup [op : {"inject"}, role : Roles, workload : Workloads]

BindSteps == {"put_policy", "put_role", "annotate"}
UnbindSteps == {"read", "drop_role", "drop_policy", "unannotate"}
Steps == BindSteps \cup UnbindSteps \cup {"inject"}
Answers == {"bound", "unbound", "injected", "failed"}

Active(r) == pc[r] \in Steps
Binding(r) == pc[r] \in BindSteps
Serving(ops) == \E r \in Requests : Active(r) /\ job[r].op \in ops

TypeOK ==
  /\ account \in Roles \cup {NoRole, NoAccount}
  /\ policy \in BOOLEAN
  /\ roles \subseteq Roles
  /\ template \in [Workloads -> Roles \cup {NoRole, NoWorkload}]
  /\ pc \in [Requests -> Steps \cup Answers \cup {"idle"}]
  /\ job \in [Requests -> Jobs \cup {NoJob}]
  /\ faults \in 0..MaxFaults
  /\ stray \in BOOLEAN
  /\ served \subseteq Workloads

Init ==
  /\ account = NoAccount
  /\ policy = FALSE
  /\ roles = {}
  /\ template = [w \in Workloads |-> NoWorkload]
  /\ pc = [r \in Requests |-> "idle"]
  /\ job = [r \in Requests |-> NoJob]
  /\ faults = 0
  /\ stray = FALSE
  /\ served = {}

-----------------------------------------------------------------------------
Await(r, step) == pc' = [pc EXCEPT ![r] = step]

\* A call that took effect is answered, or its answer is lost.
Answered(r, step) ==
  \/ Await(r, step) /\ UNCHANGED faults
  \/ /\ faults < MaxFaults
     /\ faults' = faults + 1
     /\ Await(r, "failed")

\* A binding that ends before it wrote on the account leaves what it created.
Left(r) == stray' = (stray \/ (Binding(r) /\ pc'[r] = "failed"))

\* What the clients keep apart, under Serial: nothing in the code does.
Admitted(j) ==
  Serial => /\ j.op \in {"bind", "setup"} => ~Serving({"unbind"})
            /\ j.op = "unbind" => ~Serving({"bind", "setup"})

FirstStep(op) ==
  CASE op \in {"bind", "setup"} -> "put_policy"
    [] op = "unbind" -> "read"
    [] op = "inject" -> "inject"

\* A teardown, or injecting another role, takes back what setups promised.
Arrive(r, j) ==
  /\ ~Active(r)
  /\ Admitted(j)
  /\ j.op = "unbind" => j.role = NoRole
  /\ job' = [job EXCEPT ![r] = j]
  /\ Await(r, FirstStep(j.op))
  /\ served' = CASE j.op = "unbind" -> {}
                 [] j.op = "inject" -> served \ {j.workload}
                 [] OTHER -> served
  /\ UNCHANGED <<account, vault, template, faults, stray>>

-----------------------------------------------------------------------------
(* Binding: the policy, the role that has it, the role's name.             *)

PutPolicy(r) ==
  /\ pc[r] = "put_policy"
  /\ policy' = TRUE
  /\ Answered(r, "put_role")
  /\ Left(r)
  /\ UNCHANGED <<account, roles, template, job, served>>

PutRole(r) ==
  /\ pc[r] = "put_role"
  /\ roles' = roles \cup {job[r].role}
  /\ Answered(r, "annotate")
  /\ Left(r)
  /\ UNCHANGED <<account, policy, template, job, served>>

\* Mutant: the workload's name is written on the account.
AnnotateSwapped(r) ==
  /\ pc[r] = "annotate"
  /\ account # NoAccount
  /\ account' = job[r].workload
  /\ Answered(r, IF job[r].op = "setup" THEN "inject" ELSE "bound")
  /\ stray' = (stray \/ account \in roles \ {job[r].role})
  /\ UNCHANGED <<vault, template, job, served>>

\* The name of another binding's role is overwritten, and that role left behind.
Annotate(r) ==
  /\ pc[r] = "annotate"
  /\ account # NoAccount
  /\ account' = job[r].role
  /\ Answered(r, IF job[r].op = "setup" THEN "inject" ELSE "bound")
  /\ stray' = (stray \/ account \in roles \ {job[r].role})
  /\ UNCHANGED <<vault, template, job, served>>

\* No other request is about to write another role on the template.
Undisturbed(r, w) ==
  \A q \in Requests \ {r} :
    (Active(q) /\ job[q].op = "inject") => job[q].workload # w

\* Mutant: a role that the template names already is kept.
InjectKept(r, w) ==
  /\ pc[r] = "inject"
  /\ job[r].workload = w
  /\ template[w] # NoWorkload
  /\ template' = [template EXCEPT ![w] = IF @ = NoRole THEN job[r].role ELSE @]
  /\ Answered(r, IF job[r].op = "setup" THEN "bound" ELSE "injected")
  /\ served' = IF pc'[r] = "bound" /\ Undisturbed(r, w)
               THEN served \cup {w} ELSE served
  /\ UNCHANGED <<account, vault, job, stray>>

\* The patch of a Deployment's pod template, and the same of a StatefulSet's.
InjectInto(r, w) ==
  /\ pc[r] = "inject"
  /\ job[r].workload = w
  /\ template[w] # NoWorkload
  /\ template' = [template EXCEPT ![w] = job[r].role]
  /\ Answered(r, IF job[r].op = "setup" THEN "bound" ELSE "injected")
  /\ served' = IF pc'[r] = "bound" /\ Undisturbed(r, w)
               THEN served \cup {w} ELSE served
  /\ UNCHANGED <<account, vault, job, stray>>

InjectDeployment(r) == \E w \in Deployments : InjectInto(r, w)
InjectStatefulSet(r) == \E w \in StatefulSets : InjectInto(r, w)

-----------------------------------------------------------------------------
(* Unbinding: the name, the role, the policy, and the name goes last.      *)

\* Mutant: the name is taken off as soon as it is read.
ReadAndClear(r) ==
  /\ pc[r] = "read"
  /\ account # NoAccount
  /\ \/ /\ account = NoRole
        /\ Await(r, "unbound")
        /\ UNCHANGED job
     \/ /\ account # NoRole
        /\ Await(r, "drop_role")
        /\ job' = [job EXCEPT ![r].role = account]
  /\ account' = NoRole
  /\ UNCHANGED <<vault, template, faults, stray, served>>

\* Mutant: the test for a missing name is inverted.
ReadInverted(r) ==
  /\ pc[r] = "read"
  /\ account # NoAccount
  /\ \/ /\ account # NoRole
        /\ Await(r, "unbound")
        /\ UNCHANGED job
     \/ /\ account = NoRole
        /\ Await(r, "drop_role")
        /\ job' = [job EXCEPT ![r].role = account]
  /\ UNCHANGED <<account, vault, template, faults, stray, served>>

\* An account that names no role has nothing to unbind.
ReadAccount(r) ==
  /\ pc[r] = "read"
  /\ account # NoAccount
  /\ \/ /\ account = NoRole
        /\ Await(r, "unbound")
        /\ UNCHANGED job
     \/ /\ account # NoRole
        /\ Await(r, "drop_role")
        /\ job' = [job EXCEPT ![r].role = account]
  /\ UNCHANGED <<account, vault, template, faults, stray, served>>

\* Mutant: the policy goes first.
DropRoleLast(r) ==
  /\ pc[r] = "drop_role"
  /\ policy' = FALSE
  /\ Answered(r, "drop_policy")
  /\ UNCHANGED <<account, roles, template, job, stray, served>>

DropRole(r) ==
  /\ pc[r] = "drop_role"
  /\ roles' = roles \ {job[r].role}
  /\ Answered(r, "drop_policy")
  /\ UNCHANGED <<account, policy, template, job, stray, served>>

DropPolicy(r) ==
  /\ pc[r] = "drop_policy"
  /\ policy' = FALSE
  /\ Answered(r, "unannotate")
  /\ UNCHANGED <<account, roles, template, job, stray, served>>

Unannotate(r) ==
  /\ pc[r] = "unannotate"
  /\ account # NoAccount
  /\ account' = NoRole
  /\ Answered(r, "unbound")
  /\ UNCHANGED <<vault, template, job, stray, served>>

-----------------------------------------------------------------------------
(* Failures, and who else makes and deletes accounts and workloads.        *)

\* The account or the workload a call is about does not exist.
Missing(r) ==
  /\ \/ pc[r] \in {"annotate", "read", "unannotate"} /\ account = NoAccount
     \/ pc[r] = "inject" /\ template[job[r].workload] = NoWorkload
  /\ Await(r, "failed")
  /\ Left(r)
  /\ UNCHANGED <<account, vault, template, job, faults, served>>

\* A call fails without effect.
CallFails(r) ==
  /\ Active(r)
  /\ faults < MaxFaults
  /\ faults' = faults + 1
  /\ Await(r, "failed")
  /\ Left(r)
  /\ UNCHANGED <<account, vault, template, job, served>>

\* The process dies: every request in flight is dropped.
Crash ==
  /\ faults < MaxFaults
  /\ \E r \in Requests : Active(r)
  /\ faults' = faults + 1
  /\ pc' = [r \in Requests |-> IF Active(r) THEN "idle" ELSE pc[r]]
  /\ stray' = (stray \/ \E r \in Requests : Binding(r))
  /\ UNCHANGED <<account, vault, template, job, served>>

AccountMade ==
  /\ account = NoAccount
  /\ account' = NoRole
  /\ UNCHANGED <<vault, template, pc, job, faults, stray, served>>

\* The role's name goes with the account.
AccountGone ==
  /\ account # NoAccount
  /\ account' = NoAccount
  /\ stray' = (stray \/ account # NoRole)
  /\ UNCHANGED <<vault, template, pc, job, faults, served>>

WorkloadMade(w) ==
  /\ template[w] = NoWorkload
  /\ template' = [template EXCEPT ![w] = NoRole]
  /\ UNCHANGED <<account, vault, pc, job, faults, stray, served>>

WorkloadGone(w) ==
  /\ template[w] # NoWorkload
  /\ template' = [template EXCEPT ![w] = NoWorkload]
  /\ served' = served \ {w}
  /\ UNCHANGED <<account, vault, pc, job, faults, stray>>

-----------------------------------------------------------------------------
BindStep(r) ==
  PutPolicy(r) \/ PutRole(r) \/ Annotate(r) \/ InjectDeployment(r) \/ InjectStatefulSet(r)
UnbindStep(r) == ReadAccount(r) \/ DropRole(r) \/ DropPolicy(r) \/ Unannotate(r)
Step(r) == BindStep(r) \/ UnbindStep(r) \/ Missing(r) \/ CallFails(r)

Next ==
  \/ \E r \in Requests : Step(r) \/ \E j \in Jobs : Arrive(r, j)
  \/ Crash
  \/ AccountMade \/ AccountGone
  \/ \E w \in Workloads : WorkloadMade(w) \/ WorkloadGone(w)

Spec == Init /\ [][Next]_vars

-----------------------------------------------------------------------------
(* Properties. *)

\* A setup that was answered stands until a teardown is asked for: the
\* workload's pods ask for a role that exists and whose policy exists, whatever
\* other bindings, half-done ones and injections into other workloads do.
SetupsStand ==
  Serial => \A w \in served :
    template[w] = DefaultRole /\ DefaultRole \in roles /\ policy

\* A teardown can be repeated: whatever it left when it failed half-way is found
\* again through the account, which names its role until nothing else is left.
\* Only a binding that failed, was overwritten by another or lost its account
\* leaves a role or a policy that no teardown finds.
TeardownsResume ==
  Serial => ((policy \/ roles # {}) =>
    stray \/ account \in Roles \/ \E r \in Requests : Binding(r))

\* A role of the account never outlives its policy.
RolesHavePolicy == (Serial /\ ~stray /\ roles # {}) => policy

\* Where nothing is stray, a teardown that answers success has left neither role nor
\* policy.  The docstring of teardown_secret_access (secret/manager.py:547) promises it
\* always; but when a binding has stopped half-way, or was overwritten by another, the
\* account does not name what is left: the teardown reads no role, or another one, and
\* answers success all the same, with a role, and maybe the policy, still in Vault.
TeardownsDeliver ==
  [][\A r \in Requests :
       (Serial /\ Active(r) /\ pc'[r] = "unbound" /\ ~stray') =>
         ~policy' /\ roles' = {}]_vars

-----------------------------------------------------------------------------
(* What the proofs of VaultBindingProofs need to know of every state. *)

\* A request in flight is at a step of its operation.
WellFormed(r) ==
  Active(r) =>
    /\ job[r] \in Jobs
    /\ pc[r] \in BindSteps => job[r].op \in {"bind", "setup"}
    /\ pc[r] \in UnbindSteps => job[r].op = "unbind"
    /\ pc[r] \in UnbindSteps \ {"read"} => job[r].role \in Roles
    /\ pc[r] = "inject" => job[r].op \in {"setup", "inject"}

\* What Serial keeps apart stays apart.
ApartInv ==
  \A r, q \in Requests :
    (Active(r) /\ Active(q) /\ job[r].op \in {"bind", "setup"}) =>
      job[q].op # "unbind"

\* What a binding in flight has set up, and what answered setups rely on.
SetupInv ==
  /\ \A r \in Requests : (Active(r) /\ job[r].op \in {"bind", "setup"}) =>
       /\ pc[r] # "put_policy" => policy
       /\ pc[r] \in {"annotate", "inject"} => job[r].role \in roles
  /\ served # {} => ~Serving({"unbind"})
  /\ \A r \in Requests : (Active(r) /\ job[r].op = "inject") =>
       job[r].workload \notin served
  /\ \A w \in served :
       template[w] = DefaultRole /\ DefaultRole \in roles /\ policy

\* Unless something is stray, the account or a binding in flight accounts for
\* every role and for the policy, and a teardown for what it has removed.
TeardownInv ==
  ~stray =>
    /\ \A k \in roles : k = account \/ \E r \in Requests : pc[r] = "annotate" /\ job[r].role = k
    /\ policy => account \in Roles \/ \E r \in Requests : Binding(r)
    /\ roles # {} => policy
    /\ \A r \in Requests :
         /\ pc[r] \in {"drop_role", "drop_policy", "unannotate"} =>
              account \in {job[r].role, NoRole, NoAccount}
         /\ pc[r] \in {"drop_policy", "unannotate"} => roles = {}
         /\ pc[r] = "unannotate" => ~policy

BindingInv == Serial => ApartInv /\ SetupInv /\ TeardownInv
=============================================================================

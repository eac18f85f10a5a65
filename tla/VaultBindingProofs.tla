------------------------- MODULE VaultBindingProofs -------------------------
(***************************************************************************)
(* Theorems about VaultBinding, for any number of roles, workloads and     *)
(* concurrent requests and any number of failures and crashes, when        *)
(* bindings and unbindings of the account do not overlap.                  *)
(***************************************************************************)
EXTENDS VaultBinding, TLAPS

TypeInv == TypeOK /\ \A r \in Requests : WellFormed(r)

\* The request r takes a step: it keeps what it asks for, except for the role
\* that an unbinding reads, and no other request is touched.
Moves(r) ==
  /\ pc' = [pc EXCEPT ![r] = pc'[r]]
  /\ job' = [job EXCEPT ![r] = job'[r]]
  /\ job'[r].op = job[r].op /\ job'[r].workload = job[r].workload
  /\ pc[r] # "read" => job'[r] = job[r]

-----------------------------------------------------------------------------
(* Type correctness. *)

LEMMA InitTypeInv == Init => TypeInv
<1>1. Init => TypeOK
  <2> SUFFICES ASSUME Init PROVE TypeOK
    OBVIOUS
  <2>1. pc \in [Requests -> Steps \cup Answers \cup {"idle"}]
    BY DEF Init
  <2>2. job \in [Requests -> Jobs \cup {NoJob}] /\ faults \in 0..MaxFaults
    BY BoundsAssumption DEF Init
  <2>3. template \in [Workloads -> Roles \cup {NoRole, NoWorkload}]
    BY DEF Init
  <2>4. served \subseteq Workloads
    BY DEF Init
  <2>5. /\ account \in Roles \cup {NoRole, NoAccount}
        /\ policy \in BOOLEAN /\ roles \subseteq Roles /\ stray \in BOOLEAN
    BY DEF Init
  <2> QED BY <2>1, <2>2, <2>3, <2>4, <2>5 DEF TypeOK
<1>2. Init => \A r \in Requests : WellFormed(r)
  BY DEF Init, WellFormed, Active, Steps, BindSteps, UnbindSteps
<1> QED BY <1>1, <1>2 DEF TypeInv

LEMMA AnsweredTyped ==
  ASSUME TypeInv, NEW r \in Requests, NEW s, Answered(r, s)
  PROVE  /\ faults' \in 0..MaxFaults
         /\ pc' = [pc EXCEPT ![r] = pc'[r]]
         /\ pc'[r] \in {s, "failed"}
BY BoundsAssumption DEF TypeInv, TypeOK, Answered, Await

LEMMA StepActive ==
  ASSUME TypeInv, NEW r \in Requests, Step(r)
  PROVE  /\ Active(r) /\ job[r] \in Jobs
         /\ pc[r] \in BindSteps => job[r].op \in {"bind", "setup"}
         /\ pc[r] \in UnbindSteps => job[r].op = "unbind"
         /\ pc[r] = "inject" => job[r].op \in {"setup", "inject"}
BY DEF Step, BindStep, UnbindStep, PutPolicy, PutRole, Annotate,
   InjectDeployment, InjectStatefulSet, InjectInto, ReadAccount, DropRole,
   DropPolicy, Unannotate, Missing, CallFails, Active, Steps, BindSteps,
   UnbindSteps, TypeInv, WellFormed

LEMMA JobParts ==
  ASSUME NEW j \in Jobs
  PROVE  /\ j.op \in {"bind", "setup", "unbind", "inject"}
         /\ j.op # "unbind" => j.role \in Roles
         /\ j.op \in {"setup", "inject"} => j.workload \in Workloads
         /\ j.op = "setup" => j.role = DefaultRole
<1>1. CASE j \in [op : {"bind"}, role : Roles, workload : {NoWorkload}]
  BY <1>1
<1>2. CASE j \in [op : {"setup"}, role : {DefaultRole}, workload : Workloads]
  BY <1>2, RolesAssumption
<1>3. CASE j \in [op : {"unbind"}, role : Roles \cup {NoRole}, workload : {NoWorkload}]
  BY <1>3
<1>4. CASE j \in [op : {"inject"}, role : Roles, workload : Workloads]
  BY <1>4
<1> QED BY <1>1, <1>2, <1>3, <1>4 DEF Jobs

\* Every step of a request goes on with its operation or answers it.
LEMMA StepMoves ==
  ASSUME TypeInv, NEW r \in Requests, Step(r)
  PROVE  /\ Moves(r) /\ faults' \in 0..MaxFaults
         /\ pc'[r] # "failed" =>
              /\ pc[r] = "put_policy" => pc'[r] = "put_role"
              /\ pc[r] = "put_role" => pc'[r] = "annotate"
              /\ pc[r] = "annotate" =>
                   pc'[r] = IF job[r].op = "setup" THEN "inject" ELSE "bound"
              /\ pc[r] = "inject" =>
                   pc'[r] = IF job[r].op = "setup" THEN "bound" ELSE "injected"
              /\ pc[r] = "read" => pc'[r] \in {"unbound", "drop_role"}
              /\ pc[r] = "drop_role" => pc'[r] = "drop_policy"
              /\ pc[r] = "drop_policy" => pc'[r] = "unannotate"
              /\ pc[r] = "unannotate" => pc'[r] = "unbound"
         /\ pc'[r] = "drop_role" =>
              job'[r] = [job[r] EXCEPT !.role = account] /\ account \in Roles
<1>1. CASE PutPolicy(r) \/ PutRole(r) \/ DropRole(r) \/ DropPolicy(r)
  BY <1>1, AnsweredTyped
  DEF PutPolicy, PutRole, DropRole, DropPolicy, Moves, TypeInv, TypeOK
<1>2. CASE Annotate(r)
  BY <1>2, AnsweredTyped DEF Annotate, Moves, TypeInv, TypeOK
<1>3. CASE Unannotate(r)
  BY <1>3, AnsweredTyped DEF Unannotate, Moves, TypeInv, TypeOK
<1>4. ASSUME NEW w \in Workloads, InjectInto(r, w)
      PROVE  /\ Moves(r) /\ faults' \in 0..MaxFaults /\ pc[r] = "inject"
             /\ pc'[r] \in {IF job[r].op = "setup" THEN "bound" ELSE "injected", "failed"}
  BY <1>4, AnsweredTyped DEF InjectInto, Moves, TypeInv, TypeOK
<1>5. CASE InjectDeployment(r) \/ InjectStatefulSet(r)
  <2>1. PICK w \in Workloads : InjectInto(r, w)
    BY <1>5 DEF InjectDeployment, InjectStatefulSet, Workloads
  <2> QED BY <2>1, <1>4
<1>6. CASE ReadAccount(r)
  <2>1. job[r] \in Jobs /\ job[r].op = "unbind"
    BY <1>6, StepActive DEF ReadAccount, UnbindSteps
  <2>2. [job[r] EXCEPT !.role = account].op = job[r].op
        /\ [job[r] EXCEPT !.role = account].workload = job[r].workload
    BY <2>1 DEF Jobs
  <2> QED BY <1>6, <2>1, <2>2 DEF ReadAccount, Await, Moves, TypeInv, TypeOK
<1>7. CASE Missing(r) \/ CallFails(r)
  BY <1>7, BoundsAssumption
  DEF Missing, CallFails, Await, Moves, TypeInv, TypeOK
<1> QED BY <1>1, <1>2, <1>3, <1>5, <1>6, <1>7 DEF Step, BindStep, UnbindStep

\* What a step of a request leaves is well typed.
LEMMA StepWrites ==
  ASSUME TypeInv, NEW r \in Requests, Step(r)
  PROVE  /\ account' \in Roles \cup {NoRole, NoAccount}
         /\ policy' \in BOOLEAN /\ roles' \subseteq Roles
         /\ template' \in [Workloads -> Roles \cup {NoRole, NoWorkload}]
         /\ stray' \in BOOLEAN /\ served' \subseteq Workloads
<1>1. /\ job[r] \in Jobs
      /\ pc[r] \in BindSteps \cup {"inject"} => job[r].role \in Roles
  BY StepActive, JobParts
<1> USE DEF TypeInv, TypeOK
<1>2. CASE PutPolicy(r)
  BY <1>2 DEF PutPolicy, Left
<1>3. CASE PutRole(r)
  BY <1>1, <1>3 DEF PutRole, Left, BindSteps
<1>4. CASE Annotate(r)
  BY <1>1, <1>4 DEF Annotate, vault, BindSteps
<1>5. CASE InjectDeployment(r) \/ InjectStatefulSet(r)
  <2>1. PICK w \in Workloads : InjectInto(r, w)
    BY <1>5 DEF InjectDeployment, InjectStatefulSet, Workloads
  <2> QED BY <1>1, <2>1 DEF InjectInto, vault
<1>6. CASE UnbindStep(r)
  BY <1>6 DEF UnbindStep, ReadAccount, DropRole, DropPolicy, Unannotate, vault
<1>7. CASE Missing(r) \/ CallFails(r)
  BY <1>7 DEF Missing, CallFails, Left, vault
<1> QED BY <1>2, <1>3, <1>4, <1>5, <1>6, <1>7 DEF Step, BindStep

LEMMA StepType ==
  ASSUME TypeInv, NEW r \in Requests, Step(r)
  PROVE  TypeInv'
<1>1. /\ Moves(r) /\ job[r] \in Jobs
      /\ pc'[r] \in Steps \cup Answers
  BY StepMoves, StepActive
  DEF Active, Steps, BindSteps, UnbindSteps, Answers
<1>2. job'[r] \in Jobs
  <2>1. CASE pc[r] # "read"
    BY <1>1, <2>1 DEF Moves
  <2>2. CASE pc[r] = "read"
    <3>1. job[r] \in [op : {"unbind"}, role : Roles \cup {NoRole}, workload : {NoWorkload}]
      BY <2>2, StepActive DEF UnbindSteps, Jobs
    <3>2. job'[r] = job[r] \/ (account \in Roles /\ job'[r] = [job[r] EXCEPT !.role = account])
      BY <2>2, <1>1
      DEF Step, BindStep, PutPolicy, PutRole, Annotate, InjectDeployment,
          InjectStatefulSet, InjectInto, UnbindStep, ReadAccount, DropRole,
          DropPolicy, Unannotate, Missing, CallFails, TypeInv, TypeOK
    <3> QED BY <3>1, <3>2 DEF Jobs
  <2> QED BY <2>1, <2>2
<1>3. WellFormed(r)'
  <2>1. pc'[r] \in UnbindSteps \ {"read"} => job'[r].role \in Roles
    <3>1. CASE pc'[r] = "drop_role"
      BY <3>1, <1>2, StepMoves, StepActive, JobParts DEF UnbindSteps, Jobs
    <3>2. CASE pc'[r] # "drop_role"
      BY <3>2, <1>1, StepMoves, StepActive
      DEF WellFormed, Active, Moves, Steps, BindSteps, UnbindSteps, TypeInv
    <3> QED BY <3>1, <3>2
  <2> QED BY <2>1, <1>1, <1>2, StepMoves, StepActive
          DEF WellFormed, Active, Moves, Steps, BindSteps, UnbindSteps
<1>4. \A q \in Requests : WellFormed(q)'
  BY <1>1, <1>3 DEF WellFormed, Active, Moves, TypeInv, TypeOK
<1>5. /\ pc' \in [Requests -> Steps \cup Answers \cup {"idle"}]
      /\ job' \in [Requests -> Jobs \cup {NoJob}]
  BY <1>1, <1>2 DEF Moves, TypeInv, TypeOK
<1> QED BY <1>4, <1>5, StepMoves, StepWrites DEF TypeInv, TypeOK

LEMMA ArriveType ==
  ASSUME TypeInv, NEW r \in Requests, NEW j \in Jobs, Arrive(r, j)
  PROVE  TypeInv'
<1> USE DEF TypeInv, TypeOK
<1>1. /\ j.op \in {"bind", "setup"} => FirstStep(j.op) = "put_policy"
      /\ j.op = "unbind" => FirstStep(j.op) = "read"
      /\ j.op = "inject" => FirstStep(j.op) = "inject"
  BY DEF FirstStep
<1>2. /\ j.op \in {"bind", "setup", "unbind", "inject"}
      /\ pc' = [pc EXCEPT ![r] = FirstStep(j.op)]
      /\ job' = [job EXCEPT ![r] = j]
  BY JobParts DEF Arrive, Await
<1>3. WellFormed(r)'
  BY <1>1, <1>2 DEF WellFormed, Active, Steps, BindSteps, UnbindSteps
<1>4. \A q \in Requests : WellFormed(q)'
  BY <1>2, <1>3 DEF WellFormed, Active
<1>5. FirstStep(j.op) \in Steps
  BY <1>1, <1>2 DEF Steps, BindSteps, UnbindSteps
<1>6. served' \subseteq Workloads
  BY DEF Arrive
<1> QED BY <1>2, <1>4, <1>5, <1>6 DEF Arrive, vault

LEMMA NextType ==
  ASSUME TypeInv, [Next]_vars
  PROVE  TypeInv'
<1> USE DEF TypeInv, TypeOK
<1>1. CASE Crash
  BY <1>1, BoundsAssumption DEF Crash, vault, WellFormed, Active, Steps,
     BindSteps, UnbindSteps
<1>2. CASE AccountMade \/ AccountGone
  BY <1>2 DEF AccountMade, AccountGone, vault, WellFormed, Active
<1>3. ASSUME NEW w \in Workloads, WorkloadMade(w) \/ WorkloadGone(w) PROVE TypeInv'
  BY <1>3 DEF WorkloadMade, WorkloadGone, vault, WellFormed, Active
<1>4. CASE UNCHANGED vars
  BY <1>4 DEF vars, vault, WellFormed, Active
<1> QED BY <1>1, <1>2, <1>3, <1>4, StepType, ArriveType DEF Next

\* Every request is at a step of its operation, in every reachable state.
THEOREM TypeInvariance == Spec => []TypeInv
<1>1. TypeInv /\ [Next]_vars => TypeInv'
  BY NextType
<1> QED BY <1>1, InitTypeInv, PTL DEF Spec

\* Every reachable state is well typed.
THEOREM TypeCorrect == Spec => []TypeOK
<1>1. TypeInv => TypeOK
  BY DEF TypeInv
<1> QED BY <1>1, TypeInvariance, PTL

-----------------------------------------------------------------------------
(* What a step of a request leaves of the other requests. *)

LEMMA StepFrame ==
  ASSUME TypeInv, NEW r \in Requests, Step(r)
  PROVE  /\ \A q \in Requests \ {r} : pc'[q] = pc[q] /\ job'[q] = job[q]
         /\ \A q \in Requests :
              /\ job'[q].op = job[q].op /\ job'[q].workload = job[q].workload
              /\ Active(q)' => Active(q)
              /\ pc[q] \notin {"read"} => job'[q] = job[q]
<1>1. Moves(r) /\ Active(r)
  BY StepMoves, StepActive
<1>2. ASSUME NEW q \in Requests \ {r} PROVE pc'[q] = pc[q] /\ job'[q] = job[q]
  BY <1>1 DEF Moves, TypeInv, TypeOK
<1> QED BY <1>1, <1>2 DEF Moves, Active

\* What the operation of a request tells of where it is.
LEMMA Places ==
  ASSUME TypeInv, NEW q \in Requests
  PROVE  /\ Binding(q) => Active(q) /\ job[q].op \in {"bind", "setup"} /\ job[q].role \in Roles
         /\ pc[q] \in UnbindSteps => Active(q) /\ job[q].op = "unbind"
         /\ (Active(q) /\ job[q].op \in {"bind", "setup"}) =>
              pc[q] \in BindSteps \cup {"inject"}
         /\ (Active(q) /\ job[q].op = "setup") =>
              job[q].role = DefaultRole /\ job[q].workload \in Workloads
         /\ (Active(q) /\ job[q].op = "inject") => pc[q] = "inject"
         /\ (Active(q) /\ job[q].op = "unbind") => pc[q] \in UnbindSteps
BY JobParts DEF TypeInv, WellFormed, Active, Binding, Steps, BindSteps, UnbindSteps

LEMMA StepApart ==
  ASSUME TypeInv, ApartInv, NEW r \in Requests, Step(r)
  PROVE  ApartInv'
BY StepFrame DEF ApartInv

-----------------------------------------------------------------------------
(* Setups. *)

\* No step of another request than an unbinding takes anything away, and no step
\* of an unbinding is taken while a binding is in flight.
LEMMA StepSetup ==
  ASSUME TypeInv, ApartInv, SetupInv, NEW r \in Requests, Step(r)
  PROVE  SetupInv'
<1> USE DEF TypeInv, TypeOK
<1>1. ~Serving({"unbind"}) => ~Serving({"unbind"})'
  BY StepFrame DEF Serving
<1>2. CASE PutPolicy(r)
  <2>1. served' = served /\ template' = template /\ roles' = roles /\ policy'
        /\ pc[r] = "put_policy" /\ pc'[r] \in {"put_role", "failed"}
    BY <1>2, StepMoves DEF PutPolicy
  <2> QED BY <1>1, <2>1, StepFrame DEF SetupInv, Active
<1>3. CASE PutRole(r)
  <2>1. served' = served /\ template' = template /\ policy' = policy
        /\ roles' = roles \cup {job[r].role}
        /\ pc[r] = "put_role" /\ pc'[r] \in {"annotate", "failed"} /\ job'[r] = job[r]
    BY <1>3, StepMoves, StepFrame DEF PutRole
  <2> QED BY <1>1, <2>1, StepFrame, StepActive DEF SetupInv, Active, BindSteps
<1>4. CASE Annotate(r)
  <2>1. served' = served /\ template' = template /\ policy' = policy
        /\ roles' = roles /\ pc[r] = "annotate" /\ job'[r] = job[r]
    BY <1>4, StepFrame DEF Annotate, vault
  <2> QED BY <1>1, <2>1, StepFrame, StepActive DEF SetupInv, Active, BindSteps
<1>5. ASSUME NEW w \in Workloads, InjectInto(r, w) PROVE SetupInv'
  <2>1. policy' = policy /\ roles' = roles /\ pc[r] = "inject" /\ job'[r] = job[r]
        /\ job[r].workload = w /\ template' = [template EXCEPT ![w] = job[r].role]
        /\ Active(r) /\ job[r].op \in {"setup", "inject"}
        /\ pc'[r] \in {IF job[r].op = "setup" THEN "bound" ELSE "injected", "failed"}
    BY <1>5, StepFrame, StepActive, StepMoves DEF InjectInto, vault
  <2>2. /\ served' \subseteq served \cup {w}
        /\ (w \in served' /\ w \notin served) =>
             /\ job[r].op = "setup"
             /\ \A q \in Requests \ {r} :
                  (Active(q) /\ job[q].op = "inject") => job[q].workload # w
    BY <1>5, <2>1 DEF InjectInto, Undisturbed
  <2>3. ~Active(r)'
    BY <2>1 DEF Active, Steps, BindSteps, UnbindSteps
  <2>4. \A q \in Requests : (Active(q)' /\ job'[q].op \in {"bind", "setup"}) =>
          /\ pc'[q] # "put_policy" => policy'
          /\ pc'[q] \in {"annotate", "inject"} => job'[q].role \in roles'
    BY <2>1, <2>3, StepFrame DEF SetupInv, Active
  <2>5. served' # {} => ~Serving({"unbind"})'
    BY <1>1, <2>1, <2>2 DEF SetupInv, ApartInv, Serving
  <2>6. \A q \in Requests : (Active(q)' /\ job'[q].op = "inject") =>
          job'[q].workload \notin served'
    BY <2>1, <2>2, <2>3, StepFrame DEF SetupInv, Active
  <2>7. job[r].op = "setup" => job[r].role = DefaultRole /\ DefaultRole \in roles /\ policy
    BY <2>1, Places DEF SetupInv
  <2>8. w \in served' => job[r].op = "setup"
    BY <2>1, <2>2 DEF SetupInv
  <2>9. \A x \in served' :
          template'[x] = DefaultRole /\ DefaultRole \in roles' /\ policy'
    BY <2>1, <2>2, <2>7, <2>8 DEF SetupInv
  <2> QED BY <2>4, <2>5, <2>6, <2>9 DEF SetupInv
<1>6. CASE UnbindStep(r)
  <2>1. /\ served' = served /\ template' = template
        /\ pc[r] \in UnbindSteps /\ Active(r) /\ job[r].op = "unbind"
    BY <1>6, StepActive
    DEF UnbindStep, ReadAccount, DropRole, DropPolicy, Unannotate, vault, UnbindSteps
  <2>2. /\ \A q \in Requests : Active(q) => job[q].op \notin {"bind", "setup"}
        /\ served = {}
    BY <2>1 DEF ApartInv, SetupInv, Serving
  <2> QED BY <2>1, <2>2, StepFrame DEF SetupInv
<1>7. CASE Missing(r) \/ CallFails(r)
  <2>1. /\ served' = served /\ template' = template /\ policy' = policy
        /\ roles' = roles /\ pc'[r] = "failed"
    BY <1>7 DEF Missing, CallFails, Await, vault
  <2>2. ~Active(r)'
    BY <2>1 DEF Active, Steps, BindSteps, UnbindSteps
  <2> QED BY <1>1, <2>1, <2>2, StepFrame DEF SetupInv, Active
<1>8. CASE InjectDeployment(r) \/ InjectStatefulSet(r)
  BY <1>5, <1>8 DEF InjectDeployment, InjectStatefulSet, Workloads
<1> QED BY <1>2, <1>3, <1>4, <1>6, <1>7, <1>8 DEF Step, BindStep

-----------------------------------------------------------------------------
(* Teardowns. *)

LEMMA StepTeardown ==
  ASSUME TypeInv, ApartInv, SetupInv, TeardownInv, NEW r \in Requests, Step(r)
  PROVE  TeardownInv'
<1> USE DEF TypeInv, TypeOK
<1> SUFFICES ASSUME ~stray' PROVE TeardownInv'
  BY DEF TeardownInv
<1>1. ~stray
  BY DEF Step, BindStep, PutPolicy, PutRole, Annotate, InjectDeployment,
     InjectStatefulSet, InjectInto, UnbindStep, ReadAccount, DropRole,
     DropPolicy, Unannotate, Missing, CallFails, Left
<1>2. /\ \A k \in roles : k = account \/ \E q \in Requests : pc[q] = "annotate" /\ job[q].role = k
      /\ policy => account \in Roles \/ \E q \in Requests : Binding(q)
      /\ roles # {} => policy
      /\ \A q \in Requests :
           /\ pc[q] \in {"drop_role", "drop_policy", "unannotate"} =>
                account \in {job[q].role, NoRole, NoAccount}
           /\ pc[q] \in {"drop_policy", "unannotate"} => roles = {}
           /\ pc[q] = "unannotate" => ~policy
  BY <1>1 DEF TeardownInv
<1>3. Binding(r) => \A q \in Requests : pc[q] \notin UnbindSteps
  BY Places DEF ApartInv
<1>4. pc[r] \in UnbindSteps => \A q \in Requests : ~Binding(q)
  BY Places DEF ApartInv
<1>5. /\ \A q \in Requests \ {r} : pc'[q] = pc[q] /\ job'[q] = job[q]
      /\ pc[r] # "read" => job'[r] = job[r]
  BY StepFrame
<1>6. CASE PutPolicy(r)
  <2>1. /\ roles' = roles /\ account' = account /\ policy'
        /\ pc[r] = "put_policy" /\ pc'[r] = "put_role"
    BY <1>6, StepMoves DEF PutPolicy, Left, Binding, BindSteps
  <2>2. Binding(r) /\ Binding(r)'
    BY <2>1 DEF Binding, BindSteps
  <2> QED BY <1>2, <1>3, <1>5, <2>1, <2>2 DEF TeardownInv, UnbindSteps
<1>7. CASE PutRole(r)
  <2>1. /\ roles' = roles \cup {job[r].role} /\ account' = account /\ policy' = policy
        /\ pc[r] = "put_role" /\ pc'[r] = "annotate" /\ job'[r] = job[r]
    BY <1>5, <1>7, StepMoves DEF PutRole, Left, Binding, BindSteps
  <2>2. Binding(r) /\ Binding(r)'
    BY <2>1 DEF Binding, BindSteps
  <2>3. policy
    BY <2>1, <2>2, Places DEF SetupInv
  <2>4. \A k \in roles' : k = account' \/ \E q \in Requests : pc'[q] = "annotate" /\ job'[q].role = k
    BY <1>2, <1>5, <2>1
  <2> QED BY <1>2, <1>3, <1>5, <2>1, <2>2, <2>3, <2>4 DEF TeardownInv, UnbindSteps
<1>8. CASE Annotate(r)
  <2>1. /\ roles' = roles /\ account' = job[r].role /\ policy' = policy
        /\ account \notin roles \ {job[r].role}
        /\ pc[r] = "annotate" /\ pc'[r] \in {"inject", "bound", "failed"}
        /\ job'[r] = job[r] /\ job[r].role \in Roles
    BY <1>5, <1>8, StepMoves, Places DEF Annotate, vault, Binding, BindSteps
  <2>2. Binding(r)
    BY <2>1 DEF Binding, BindSteps
  <2>3. \A k \in roles' : k = account' \/ \E q \in Requests : pc'[q] = "annotate" /\ job'[q].role = k
    BY <1>2, <1>5, <2>1
  <2> QED BY <1>2, <1>3, <1>5, <2>1, <2>2, <2>3 DEF TeardownInv, UnbindSteps
<1>9. CASE InjectDeployment(r) \/ InjectStatefulSet(r)
  <2>1. /\ roles' = roles /\ account' = account /\ policy' = policy
        /\ pc[r] = "inject" /\ pc'[r] \in {"bound", "injected", "failed"}
    BY <1>9, StepMoves DEF InjectDeployment, InjectStatefulSet, InjectInto, vault
  <2>2. \A q \in Requests : Binding(q)' <=> Binding(q)
    BY <1>5, <2>1 DEF Binding, BindSteps
  <2> QED BY <1>2, <1>5, <2>1, <2>2 DEF TeardownInv
<1>10. CASE ReadAccount(r)
  <2>1. /\ roles' = roles /\ account' = account /\ policy' = policy
        /\ pc[r] = "read" /\ pc'[r] \in {"unbound", "drop_role"}
        /\ pc'[r] = "drop_role" => job'[r].role = account
    BY <1>10, StepMoves, StepActive, StepType DEF ReadAccount, Await, vault, Jobs
  <2>2. \A q \in Requests : Binding(q)' <=> Binding(q)
    BY <1>5, <2>1 DEF Binding, BindSteps
  <2> QED BY <1>2, <1>5, <2>1, <2>2 DEF TeardownInv
<1>11. CASE DropRole(r)
  <2>1. /\ roles' = roles \ {job[r].role} /\ account' = account /\ policy' = policy
        /\ pc[r] = "drop_role" /\ pc'[r] \in {"drop_policy", "failed"}
        /\ job'[r] = job[r]
    BY <1>5, <1>11, StepMoves DEF DropRole
  <2>2. \A q \in Requests : ~Binding(q) /\ (Binding(q)' <=> Binding(q))
    BY <1>4, <1>5, <2>1 DEF Binding, BindSteps, UnbindSteps
  <2>3. roles' = {}
    BY <1>2, <2>1, <2>2, RolesAssumption DEF Binding, BindSteps
  <2> QED BY <1>2, <1>5, <2>1, <2>2, <2>3 DEF TeardownInv
<1>12. CASE DropPolicy(r)
  <2>1. /\ roles' = roles /\ account' = account /\ ~policy' /\ roles = {}
        /\ pc[r] = "drop_policy" /\ pc'[r] \in {"unannotate", "failed"}
        /\ job'[r] = job[r]
    BY <1>2, <1>5, <1>12, StepMoves DEF DropPolicy
  <2> QED BY <1>2, <1>5, <2>1 DEF TeardownInv
<1>13. CASE Unannotate(r)
  <2>1. /\ roles' = roles /\ account' = NoRole /\ policy' = policy
        /\ roles = {} /\ ~policy
        /\ pc[r] = "unannotate" /\ pc'[r] \in {"unbound", "failed"}
    BY <1>2, <1>13, StepMoves DEF Unannotate, vault
  <2> QED BY <1>2, <1>5, <2>1 DEF TeardownInv
<1>14. CASE Missing(r) \/ CallFails(r)
  <2>1. /\ roles' = roles /\ account' = account /\ policy' = policy
        /\ pc'[r] = "failed" /\ ~Binding(r)
    BY <1>14 DEF Missing, CallFails, Await, Left, vault
  <2>2. \A q \in Requests : Binding(q)' <=> Binding(q)
    BY <1>5, <2>1 DEF Binding, BindSteps
  <2> QED BY <1>2, <1>5, <2>1, <2>2 DEF TeardownInv, Binding, BindSteps
<1> QED BY <1>6, <1>7, <1>8, <1>9, <1>10, <1>11, <1>12, <1>13, <1>14
        DEF Step, BindStep, UnbindStep

-----------------------------------------------------------------------------
(* The whole of the invariant. *)

LEMMA InitBindingInv == Init => BindingInv
BY DEF Init, BindingInv, ApartInv, SetupInv, TeardownInv, Serving, Active,
   Binding, Steps, BindSteps, UnbindSteps

LEMMA ArriveBinding ==
  ASSUME TypeInv, Serial, ApartInv, SetupInv, TeardownInv,
         NEW r \in Requests, NEW j \in Jobs, Arrive(r, j)
  PROVE  ApartInv' /\ SetupInv' /\ TeardownInv'
<1> USE DEF TypeInv, TypeOK
<1>1. /\ \A q \in Requests \ {r} :
           pc'[q] = pc[q] /\ job'[q] = job[q] /\ (Active(q)' <=> Active(q))
      /\ ~Active(r) /\ job'[r] = j /\ pc'[r] = FirstStep(j.op)
      /\ account' = account /\ policy' = policy /\ roles' = roles
      /\ template' = template /\ stray' = stray /\ Admitted(j)
  BY DEF Arrive, Await, vault, Active
<1>2. /\ j.op \in {"bind", "setup", "unbind", "inject"}
      /\ j.op \in {"bind", "setup"} => pc'[r] = "put_policy"
      /\ j.op = "unbind" => pc'[r] = "read"
      /\ j.op = "inject" => pc'[r] = "inject"
  BY <1>1, JobParts DEF FirstStep
<1>3. ApartInv'
  BY <1>1, <1>2 DEF ApartInv, Admitted, Serving
<1>4. SetupInv'
  <2>1. /\ served' \subseteq served
        /\ j.op = "unbind" => served' = {}
        /\ j.op = "inject" => j.workload \notin served'
    BY <1>2 DEF Arrive
  <2>2. served' # {} => ~Serving({"unbind"})'
    BY <1>1, <1>2, <2>1 DEF SetupInv, Serving
  <2>3. \A q \in Requests : (Active(q)' /\ job'[q].op \in {"bind", "setup"}) =>
          /\ pc'[q] # "put_policy" => policy'
          /\ pc'[q] \in {"annotate", "inject"} => job'[q].role \in roles'
    BY <1>1, <1>2 DEF SetupInv
  <2>4. \A q \in Requests : (Active(q)' /\ job'[q].op = "inject") =>
          job'[q].workload \notin served'
    BY <1>1, <2>1 DEF SetupInv
  <2> QED BY <1>1, <2>1, <2>2, <2>3, <2>4 DEF SetupInv
<1>5. TeardownInv'
  <2>1. ~Binding(r) /\ \A q \in Requests \ {r} : Binding(q)' <=> Binding(q)
    BY <1>1, Places DEF Binding
  <2>2. pc[r] # "annotate" /\ pc'[r] \notin {"drop_role", "drop_policy", "unannotate"}
    BY <1>1, <1>2, <2>1 DEF Binding, BindSteps
  <2> QED BY <1>1, <2>1, <2>2 DEF TeardownInv
<1> QED BY <1>3, <1>4, <1>5

LEMMA WorldBinding ==
  ASSUME TypeInv, ApartInv, SetupInv, TeardownInv,
         Crash \/ AccountMade \/ AccountGone
           \/ \E w \in Workloads : WorkloadMade(w) \/ WorkloadGone(w)
  PROVE  ApartInv' /\ SetupInv' /\ TeardownInv'
<1> USE DEF TypeInv, TypeOK
<1>1. CASE Crash
  <2>1. /\ \A q \in Requests : ~Active(q)' /\ ~Binding(q)'
        /\ \A q \in Requests : pc'[q] \notin Steps
    BY <1>1 DEF Crash, Active, Binding, Steps, BindSteps, UnbindSteps
  <2>2. ApartInv'
    BY <2>1 DEF ApartInv
  <2>3. SetupInv'
    BY <1>1, <2>1 DEF Crash, SetupInv, Serving, vault
  <2>4. TeardownInv'
    <3> SUFFICES ASSUME ~stray' PROVE TeardownInv'
      BY DEF TeardownInv
    <3>1. ~stray /\ \A q \in Requests : ~Binding(q)
      BY <1>1 DEF Crash
    <3>2. \A q \in Requests : pc[q] # "annotate"
      BY <3>1 DEF Binding, BindSteps
    <3> QED BY <1>1, <2>1, <3>1, <3>2
            DEF Crash, TeardownInv, vault, Steps, BindSteps, UnbindSteps
  <2> QED BY <2>2, <2>3, <2>4
<1>2. CASE AccountMade \/ AccountGone
  <2>1. /\ pc' = pc /\ job' = job /\ served' = served /\ template' = template
        /\ policy' = policy /\ roles' = roles
        /\ \A q \in Requests : (Active(q)' <=> Active(q)) /\ (Binding(q)' <=> Binding(q))
    BY <1>2 DEF AccountMade, AccountGone, vault, Active, Binding
  <2>2. ApartInv' /\ SetupInv'
    BY <2>1 DEF ApartInv, SetupInv, Serving
  <2>3. TeardownInv'
    <3> SUFFICES ASSUME ~stray' PROVE TeardownInv'
      BY DEF TeardownInv
    <3>1. ~stray /\ account \notin Roles /\ account' \in {NoRole, NoAccount}
      BY <1>2, RolesAssumption DEF AccountMade, AccountGone
    <3> QED BY <2>1, <3>1 DEF TeardownInv
  <2> QED BY <2>2, <2>3
<1>3. ASSUME NEW w \in Workloads, WorkloadMade(w) \/ WorkloadGone(w)
      PROVE  ApartInv' /\ SetupInv' /\ TeardownInv'
  <2>1. /\ pc' = pc /\ job' = job /\ account' = account /\ stray' = stray
        /\ policy' = policy /\ roles' = roles
        /\ \A q \in Requests : (Active(q)' <=> Active(q)) /\ (Binding(q)' <=> Binding(q))
    BY <1>3 DEF WorkloadMade, WorkloadGone, vault, Active, Binding
  <2>2. /\ served' \subseteq served
        /\ \A x \in served' : template'[x] = template[x]
    <3>1. CASE WorkloadMade(w)
      BY <3>1, WorkloadsAssumption, RolesAssumption DEF WorkloadMade, SetupInv
    <3>2. CASE WorkloadGone(w)
      BY <3>2 DEF WorkloadGone
    <3> QED BY <1>3, <3>1, <3>2
  <2> QED BY <2>1, <2>2 DEF ApartInv, SetupInv, TeardownInv, Serving
<1> QED BY <1>1, <1>2, <1>3

LEMMA NextBinding ==
  ASSUME TypeInv, BindingInv, [Next]_vars
  PROVE  BindingInv'
<1> SUFFICES ASSUME Serial PROVE ApartInv' /\ SetupInv' /\ TeardownInv'
  BY DEF BindingInv
<1>1. ApartInv /\ SetupInv /\ TeardownInv
  BY DEF BindingInv
<1>2. CASE UNCHANGED vars
  BY <1>1, <1>2
  DEF vars, vault, ApartInv, SetupInv, TeardownInv, Serving, Active, Binding
<1> QED BY <1>1, <1>2, StepApart, StepSetup, StepTeardown, ArriveBinding,
           WorldBinding DEF Next

LEMMA BindingInvariance == Spec => [](TypeInv /\ BindingInv)
<1>1. TypeInv /\ BindingInv /\ [Next]_vars => TypeInv' /\ BindingInv'
  BY NextType, NextBinding
<1> QED BY <1>1, InitTypeInv, InitBindingInv, PTL DEF Spec

-----------------------------------------------------------------------------
(* Theorems. *)

\* A setup that was answered stands until a teardown is asked for
\* (setup_secret_access, secret/manager.py:470).
THEOREM SetupsAreKept == Spec => []SetupsStand
<1>1. TypeInv /\ BindingInv => SetupsStand
  BY DEF BindingInv, SetupInv, SetupsStand
<1> QED BY <1>1, BindingInvariance, PTL

\* What a teardown left half-way is found again by the next
\* (unbind_serviceaccount_from_vault, secret/manager.py:240).
THEOREM TeardownsAreResumed == Spec => []TeardownsResume
<1>1. ASSUME TypeInv, BindingInv PROVE TeardownsResume
  <2> SUFFICES ASSUME Serial, ~stray, policy \/ roles # {}
               PROVE  account \in Roles \/ \E r \in Requests : Binding(r)
    BY DEF TeardownsResume
  <2>1. \A r \in Requests : pc[r] = "annotate" => Binding(r)
    BY DEF Binding, BindSteps
  <2> QED BY <1>1, <2>1 DEF BindingInv, TeardownInv, TypeInv, TypeOK
<1> QED BY <1>1, BindingInvariance, PTL

\* A role of the account never outlives its policy.
THEOREM RolesKeepPolicy == Spec => []RolesHavePolicy
<1>1. TypeInv /\ BindingInv => RolesHavePolicy
  BY DEF BindingInv, TeardownInv, RolesHavePolicy
<1> QED BY <1>1, BindingInvariance, PTL

\* A teardown that answers success (teardown_secret_access, secret/manager.py:541) has
\* left neither role nor policy, unless something is stray: what a binding that stopped
\* half-way, or was overwritten, has left is not found by any teardown.
THEOREM TeardownsAreDelivered == Spec => TeardownsDeliver
<1> DEFINE Delivers ==
      \A r \in Requests :
        (Serial /\ Active(r) /\ pc'[r] = "unbound" /\ ~stray') => ~policy' /\ roles' = {}
<1>1. ASSUME TypeInv, BindingInv, [Next]_vars PROVE Delivers
  <2> SUFFICES ASSUME NEW r \in Requests, Serial, Active(r), pc'[r] = "unbound", ~stray'
               PROVE  ~policy' /\ roles' = {}
    OBVIOUS
  <2>1. /\ ApartInv /\ TeardownInv
        /\ pc[r] \in Steps /\ pc[r] # "unbound" /\ pc'[r] # pc[r]
    BY <1>1 DEF BindingInv, Active, Steps, BindSteps, UnbindSteps
  <2>2. PICK q \in Requests : Step(q)
    <3>1. ~Crash /\ ~UNCHANGED vars
      BY <2>1 DEF Crash, vars, Active
    <3>2. ~AccountMade /\ ~AccountGone /\ \A w \in Workloads : ~WorkloadMade(w) /\ ~WorkloadGone(w)
      BY <2>1 DEF AccountMade, AccountGone, WorkloadMade, WorkloadGone
    <3>3. \A q \in Requests, j \in Jobs : ~Arrive(q, j)
      BY <1>1, <2>1 DEF Arrive, Await, Active, TypeInv, TypeOK
    <3> QED BY <1>1, <3>1, <3>2, <3>3 DEF Next
  <2>3. q = r
    BY <1>1, <2>1, <2>2, StepFrame
  <2>4. pc[r] \in {"read", "unannotate"}
    BY <1>1, <2>1, <2>2, <2>3, StepMoves DEF Steps, BindSteps, UnbindSteps
  <2>5. \A s \in Requests : ~Binding(s)
    BY <1>1, <2>1, <2>4, Places DEF ApartInv, UnbindSteps
  <2>6. \A s \in Requests : pc[s] # "annotate"
    BY <2>5 DEF Binding, BindSteps
  <2>7. /\ policy' = policy /\ roles' = roles /\ stray' = stray
        /\ pc[r] = "read" => account = NoRole
    BY <1>1, <2>2, <2>3, <2>4
    DEF Step, BindStep, PutPolicy, PutRole, Annotate, InjectDeployment,
        InjectStatefulSet, InjectInto, UnbindStep, ReadAccount, DropRole,
        DropPolicy, Unannotate, Missing, CallFails, Left, Binding, BindSteps,
        Await, vault, TypeInv, TypeOK
  <2> QED BY <1>1, <2>1, <2>4, <2>5, <2>6, <2>7, RolesAssumption
          DEF TeardownInv, TypeInv, TypeOK
<1>2. TypeInv /\ BindingInv /\ [Next]_vars => [Delivers]_vars
  BY <1>1
<1> QED BY <1>2, BindingInvariance, PTL DEF Spec, TeardownsDeliver
=============================================================================

# M-ADP Resource Manager: models, model checks and proofs

The resource manager is a FastAPI service that creates, changes and deletes the
projects and apps of a platform. It keeps no state: what a project or an app *is*
lives in Kubernetes (and, for secrets, in Vault), and every HTTP request is a
coroutine that reads and writes those systems one awaited call at a time. Any
other request may run at each `await`; a call may fail, or take effect and lose
its answer; the process may die between two calls; and the cluster's own
controllers change the same objects. The code answers with conventions rather
than with locks or transactions: look before you create, treat "already there"
as success, create in one order and delete in the opposite one, swallow what
fails in a clean-up. This project says what these conventions achieve, what they
need from the clients, and where they fall short.

Paths below are relative to `src/src/` of the repository.

## 1. Inventory

| component | code | state it works on | operations | what makes it correct |
|---|---|---|---|---|
| App lifecycle and scaling | `app/app_deployment/*_{create,delete,revision,autoscale,fixed_scale}_use_case.py`, `infra/repository/app_deployment_repository.py`, managers `service_account`, `persistentvolumeclaim`, `deployment`, `hpa` | per app a ServiceAccount, a claim per disk, a Deployment, an autoscaler | create, delete, revise, autoscale, fixed scale | what is deployed is complete; an answered creation has delivered; a deletion leaves nothing; a fixed scale sticks; every request is answered |
| App secrets | `app_deployment_secret_*_use_case.py`, `infra/vault/client.py` | per app secrets, one policy, one auth role | store, revoke, list | a stored secret is readable until revoked; a role never lacks its policy; the answer of a revocation is true |
| Project lifecycle | `app/project/project_{create,delete,resource_update}_use_case.py`, `infra/repository/project_repository.py`, managers `namespace`, `resourcequota`, `rolebinding` | namespace, quota, pull secret, role binding | create, delete, resize | a promised project stays usable until its deletion is requested; the service can provision only within limits; conflicts are resolved; a resize applies |
| Project ports | `app/project/project_port_*_use_case.py`, manager `service` | a Service per port | open, update, close | an answered opening stands; published host names are not lost; replacements are locked by version |
| Kubernetes client | `dependencies/kubernetes.py`, `infra/kubernetes/client.py` | one global | initialise on first use | nobody is handed a client that is not initialised |
| App environment | `app_deployment_environment_*_use_case.py`, manager `configmap` | a ConfigMap per app | set, replace, clear | what was set arrives, whether the map was there or not; replace removes |
| Generic managers | `infra/kubernetes/managers/*`, 19 kinds | one object per name | create, label, annotate, change a field, add to a list, delete | an answered creation stands; a merging change does not take back another's; an addition is taken back by nothing but an outdated one |
| Secret manager | `infra/kubernetes/managers/secret/manager.py` | a Vault policy and role per ServiceAccount, its annotation, the annotations of workloads | bind, unbind, inject, setup, teardown | a setup stands; an interrupted teardown can be repeated; a teardown leaves nothing of a binding that was completed |
| Monitoring, unit conversion | `app/monitoring/`, manager `node`, `common/util/unit_converter.py` | none (read only) | status of the cluster, of a project, of apps | alarms agree with exact arithmetic but at the threshold; usage is compared with the limit of its kind; every app that is there is reported |
| Project DNS | `project_dns_*_use_case.py`, `infra/dns/external_dns_provider.py` | host name annotations | create, rename, delete, bind | a rename never loses both names |
| App logs and events | `*_logs_*`, `*_events_*` | none (read only) | queries | selection by label and name |
| Infrastructure API, HTTP API, schemas, domain objects | `api/`, `core/` | none | pass a request on | validation; the payloads' ranges |
| Configuration, logging, tests, build | `common/config`, `core/logger.py`, `tests/` | none | | |

How they interact. A request enters through `api/v1`, is validated by a schema,
and runs one use case. The use case calls a repository, and the repository calls
managers, each of which makes one or more Kubernetes calls; secrets go to Vault
through a thread pool. Components share state only through the cluster: the app
lifecycle deletes and recreates the deployment whose existence the secrets'
requests check; projects provide the namespace and the role binding in which apps
and their claims are created; ports select an app by label, without looking
whether it exists. The routers of the infrastructure API (`api/infra`) are all GET: they list and read through
the managers. Most of the managers' writing methods are therefore called by no request today; they are the
library that the repositories draw on, and are modelled as one, since each is documented as safe to be
called by anyone (idempotent creation, conflicts resolved).

What is hard here: a request is four to twelve calls long and can be interrupted
between any two of them; what a request read is not what is there when it writes;
deletions are asynchronous in the cluster (a claim or a namespace that is being
removed still "exists"); a failed request leaves what it made, and the next one
must pick it up; errors are swallowed in clean-ups and listings; an object is changed by a
patch made from an earlier read, mostly without its version; figures are put together
from calls made at different times. `PROJECT.json`
lists each hazard with its line and the properties that watch over it.

## 2. Modules

| module | models |
|---|---|
| `AppLifecycle` | the five requests that write apps, the volume and autoscaler controllers |
| `AppLifecycleProofs` | its theorems: types; bounded calls; scaling; completeness and delivery; clean-up |
| `AppSecrets`, `AppSecretsProofs` | storing and revoking secrets in Vault; its theorems |
| `ProjectContract` | abstract: what callers of the project service are promised |
| `ProjectLifecycle`, `ProjectProofs` | creation, deletion and resizing of projects, the namespace controller; its theorems and the refinement of `ProjectContract` |
| `ProjectPorts`, `ProjectPortsProofs` | opening, updating and closing of ports; its theorems |
| `KubernetesClient`, `KubernetesClientProofs` | the global client of the process; its theorems |
| `ResourceManagers`, `ResourceManagersProofs` | the methods of the managers of 19 kinds, and the app's environment; its theorems |
| `VaultBinding`, `VaultBindingProofs` | the secret manager; its theorems |
| `Monitoring`, `MonitoringProofs` | the three status queries and the conversion of units; its theorems |
| `MC...` | the names, workloads and symmetry sets of the TLC runs |

### Conventions of all modules

*Requests.* `Requests` is a set of slots for requests that are served at the same
time. `pc[r]` names the call that request `r` awaits next, or its answer; an answered
slot is free for a new request (`Arrive`; `Call` in `ResourceManagers`, where an answered
slot is idle). `job[r]` is the validated payload.

*One action is one awaited call* with all the code that runs from there, without
suspension, to the next `await`. asyncio does not preempt, so nothing can come in
between. Vault calls run in a thread pool, but the coroutine awaits each, and
each is one effect, so the same grain holds.

*Reads decide at the call.* `get_x` followed by `create_x` in a manager is two
actions (`PvcRead`, `PvcPost`): the second is taken on what the first saw, and a
conflict (HTTP 409) that arises in between is the third (`PvcReread`), as coded.

*Failures.* A call may fail without effect (`CallFails`), or take effect and have
its answer lost (a disjunct of `Answered`, and of `Effective` in `ProjectPorts` and `ResourceManagers`);
what follows is what the `except` clauses do, which is mostly to fail the request, and
in the clean-up of a deletion to carry on (`AfterException`). `Crash` drops all
requests in flight. All of them spend the budget `MaxFaults`, the bound on faults.

*Histories* (`promised`, `alone`, `pinned`, `standing`, `stray`, `served`, `calm`, `steady`,
`seen`) record what was answered to whom and what changed meanwhile. No guard reads them;
the properties do.

*Courtesies.* Several properties hold only when clients keep certain requests
apart; the code does not. Where so, a Boolean constant says it: `Serial` (a
creation does not overlap a deletion of the same thing; stores do not overlap
revocations of the same app) and `Drained` (nothing is created while its
predecessor is still leaving). In `Monitoring`, `LimitsStated` says that the pods of a project state limits
that cover their requests. With FALSE the clients are free. The runs marked
as violations, and section 6, say what happens then.

### AppLifecycle

`identity`, `deployment`, `claim`, `leaving` and `scaler` are the cluster's objects.
A deployment is its images per container, the containers with a mounted volume and its
replicas; a claim is its requested size. `todo` and `cur` are the loop over
containers in creation (`PvcRead`, `PvcPost`, `PvcReread`) and over volumes in
deletion (`UnmountRead`, `Unmount`). Creation runs `Sa*`, `Pvc*`, `Dep*`; deletion
`Find`, `Undeploy*`, `Unbind`, `Unmount*`; a revision `Resize*`, `PvcFind`, `Expand*`
and, when replicas are given, `Scale*`; autoscaling `Hpa*`; a fixed scale `HpaDelete`
and `Scale*`. `ClaimGone` finalises a deleted claim, `AutoScaled` is the autoscaler
controller, which acts on the deployment *of that name*. CPU and memory quantities are
left out; `PvcName` is a constant function, because whether two of the
concatenated names coincide is a question of its own (section 6).

### AppSecrets

`secrets`, `policies` and `roles` are Vault's. A store writes secret, policy, role, in
this order; a revocation deletes the secret, lists, and takes role and policy
down when the listing is empty. A listing that Vault answers with an error looks
empty (`List`, bounded by `MaxListErrors`). `Deploy` and `Undeploy` stand for
AppLifecycle.

### ProjectLifecycle and ProjectContract

Creation is four read-then-create pairs: namespace, quota, pull secret, binding. Deletion
deletes the quota, then the namespace; `Collect` and `Vanish` are the namespace
controller, which removes what is left in any order and refuses creations in a namespace
that is going (`PostQuota` etc. fail there). A resize lists, merges (`Merged`)
and saves through the same path as a creation. `ProjectContract` knows only which
projects are usable and what was last said of each; `ProjectLifecycle` implements it
with `usable <- Complete` (namespace active, quota, pull secret and binding there)
and `standing` as it is.

### ProjectPorts

A Service is its type, whether it carries allocated node ports, and under which
domain it is published; selector, protocol and numbers are left out, since an
update treats them as it treats the type. A save reads to decide between update and
creation, and either of them reads again; `current` holds the requests whose version
(`resource_version`) is still the Service's, which a replacement (`Put`) needs.

### KubernetesClient

`instance` is the global, `pc` where a request is in `get_kubernetes_client`. `suspends`
tells whether the load of the configuration awaits: from a kubeconfig it does,
from the pod's files it does not, and then no other coroutine runs (`Runs`).

### ResourceManagers

A manager serves one kind, and all of them follow one protocol: look up, then create, patch or
delete; look again after a conflict. The steps of the protocol (`CreateGet`, `Post`,
`Reread`, `UpdateGet`, `AddGet`, `Patch`, `DeleteGet`, `Remove`) are written once. Each of the
67 methods is an action of its own that enters it with what is particular to it: the field it
changes, whether its caller chooses between merging and replacing (`Merging`) or it sends
what it is given (`Plain`), the labels it gives an object created without any
(`NameLabel`), whether it deletes without a look, and whether nothing there counts as success
(`gone`). A method touches one object and one of its fields, so the state is one `object` and the
`target`, its kind and the field that is followed; `FieldsOf` lists those a manager changes. A field
is a map from keys to values (a scalar is a map of one key) or a set of members. `Patched` is what the
API server does with a patch: maps are merged key by key; the subjects of a role binding and the pull secrets of a
ServiceAccount are lists without a merge key, and are replaced. `current` holds the requests since whose look-up
nothing was written; only the patch of a namespace depends on it (it carries the version).

Kinds in `Graceful` may stay for a while when they are deleted, with a deletion timestamp that no manager looks at:
pods, claims and namespaces; Jobs, which `delete_job` deletes with the propagation policy of its caller; and Services of
a load balancer. `Vanish` ends them, at once or later. `Expire` is the cluster's controller that deletes a Job whose creation gave it
a time to live. `standing` holds the members whose addition was answered, until a deletion is asked for or an addition
takes effect whose list was read before another write.

`SetEnv`, `ReplaceEnv` and `ClearEnv` are the requests for an app's variables: they find the
Deployment, look at its ConfigMap, and go through the manager of ConfigMaps, which looks
again. `Deploys` stands for AppLifecycle.

### VaultBinding

One ServiceAccount: `account` is the role its annotation names, `policy` and `roles` are
Vault's, `template` the role that the pods of a workload ask for. A binding creates the
policy and the role and annotates the account, a setup goes on to inject the role into a
Deployment or a StatefulSet. A teardown reads the account, deletes the role and the
policy and takes the annotation off. `stray` records that something was left which the account does not
name: a binding that failed or died half-way, a role whose name another binding overwrote, an account
deleted with its annotation. Accounts and workloads come and go.

### Monitoring

Queries change nothing, so one is followed at a time (`view`), for one `resource`. The cluster's
query lists nodes twice and quotas once (`ListNodes`, `CountNodes`, `ListQuotas`), a project's
reads the quota with the controller's count (`ReadQuota`), that for apps reads the Deployments side by
side (`ReadApp`, in any order, each may fail). Between the calls nodes, quotas, pods and Deployments change
and the controller recounts. A quantity is a number and a unit (`"one"` is no suffix); `Factor`, `StorageBytes` and
`CpuMillicores` are the code's conversions, and `Thousandths` the exact value they are compared
with, from what each unit is `Worth`.

The alarm compares a float, `(allocated / total) * 100`, with the threshold, and `Alarms` says what may come of it. Exactly at
the threshold the float is above it for 7, 14, 28, 55 and 56 percent (`RoundsUp`), and not for the others. Elsewhere two
roundings, each with a relative error of at most 2^-53, cannot reach over the distance between a ratio and the threshold, which is at least
1 / (100 `total`) of it, as long as the total is below `Precise`: 2^45 will do for the code, 32 TiB in bytes.
Beyond it the alarm is left open. (`Precise` is a constant, and small in the run so that both sides occur.)

A namespace has one quota, with a set of keys from `QuotaKeys`; whoever changes it may change the keys as well, as `update_resource_quota` of its
manager can, and the controller's count then lacks the new ones until `Recount`. `listed` are the nodes there are; one may state no
amount of the resource, and is counted all the same. Left out: quantities with fractions, such as `0.5` or `1.5Gi`, units beyond giga, rounding for
display, several quotas in one namespace and several containers in one pod (both are added up).

## 3. Runs

Passing runs:

| run | instance | shows |
|---|---|---|
| `AppLifecycle` | one app, two containers, two requests, one fault; creations with one or two disks, deletions, revisions that grow disks or rescale; `Serial`, `Drained` | what is deployed is complete; answered creations have delivered |
| `AppCleanup` | one app, two containers, three requests, no fault; every creation asks for the same disks; `Serial`, `Drained` | as long as nothing failed (`faults = 0`), a deletion cleans up and what is gone leaves nothing |
| `AppOverlap` | one app, one container, two requests of every kind, one fault, nothing kept apart | a lone fixed scale sticks; every call leaves fewer ahead; every request is answered |
| `AppSecrets` | one app, two secrets, three requests, two faults, one failing listing; `Serial` | stored secrets stay readable; roles have their policy; answers are true |
| `ProjectLifecycle` | one project, two requests, two faults; `Serial`, `Drained` | the contract is kept; limits come before use; conflicts are resolved |
| `ProjectPorts` | one port, two requests, one fault | openings stand; host names stay |
| `KubernetesClient` | three requests, failing loads, restarts, both configurations | one initialisation; in the pod everyone is handed a ready client |
| `ResourceManagers` | one object, any of the 19 kinds and their fields, two requests, two keys, two values, two members, one fault | creations stand; additions are taken back only by outdated additions; merging updates leave other keys alone; variables that were set arrive |
| `VaultBinding` | one account, two roles, one Deployment, one StatefulSet, two requests, two faults; `Serial` | setups stand; unless a binding stopped half-way or was overwritten, teardowns can be repeated, leave nothing when they answer success, and a role never lacks its policy |
| `Monitoring` | each query for each resource; two nodes, two namespaces, two apps; quotas of two to four sets of keys; amounts in different units, one of them unknown to the code; threshold 55; `LimitsStated` | the alarm about a cluster with capacity, in units the code knows, is exact when nothing changed under the query and not exactly the threshold is allocated; usage meets its limit once the quota's keys are counted, unless the code takes an amount for zero; apps are reported |

Runs that TLC refutes, each against a sentence of the code's own documentation
(quoted under "findings" in `PROJECT.json`):

| run | property | trace |
|---|---|---|
| `ProjectResize` | `ResizeApplies` | a resize is answered with success and nothing changes, because saving a quota that exists returns it |
| `EnvReplace` | `ReplaceReplaces` | variables are set, then replaced by others: both are there, because the replacement is sent as a merge patch |

Why the bounds are enough to be telling. The objects of one app, project or Service
are named by it and touched by no request of another (under distinct claim
names), so one of each suffices for everything but names. Every rule of the code relates a
request to at most one rival at a time, so two requests meet all pairs of steps;
where a third could matter (a revocation that spans two stores, two creations
around a deletion) the run has three. Two containers make the loops take a
first, a middle and a last turn in either order. One fault stops any request at
any call; two allow a failed repair of a failed request, and are used where the
state space allows. Replica counts 1 and 2, and disk sizes 0, 1 and 2, distinguish
absent, unchanged and changed; two keys, of which a request names one, both or none,
distinguish merging from replacing; two nodes, two quotas and two apps let one change between the calls
that read the other. In `Monitoring` the amounts are chosen so that decimal and binary units give different
alarms, that exactly 55 percent may be allocated (550m of one CPU), which is a threshold that the float exceeds, and that the bytes of two
nodes are beyond `Precise` while those of one are not. The proofs of section 5 take over from there: they
have no bound.

Deadlock is checked in all runs: a free slot can always take a request, so a
deadlock would be an error of the model.

## 4. Fairness

Only `EveryRequestAnswered` needs fairness: `WF_vars(Step(r))` for each request slot,
`FairSpec`. It says that a coroutine whose call has returned is resumed, which the
asyncio event loop does, and that a call returns in the end, with an answer or an
error; how long that takes nothing in the code bounds. Nothing is assumed of arrivals, faults, crashes or controllers. The
property is about the loops over claims: the code leaves each by visiting every
claim once, whatever it meets, so that a rival cannot keep it busy. What does not depend
on fairness is the action property `EveryCallAdvances`: each step of a request, a failed call
included, lowers the number of calls it may still make (`CallsLeft`), whatever others do
to its app and its claims. Fairness only adds that the next step is taken.

## 5. Proofs

| theorem | module | under |
|---|---|---|
| `TypeCorrect`: `Spec => []TypeOK` | each of the eight proof modules | the constants' assumptions |
| `CallsAreBounded`: `EveryCallAdvances`, and `CallsLeft(r) \in 1..MostCalls` while `r` is in flight | `AppLifecycleProofs` | nothing |
| `FixedScalesStick`: `[]FixedScaleSticks` | `AppLifecycleProofs` | nothing |
| `DeployedAppsAreComplete`: `[]DeployedHasIdentityAndStorage` | `AppLifecycleProofs` | `Serial`, `Drained`, `DistinctClaimNames` |
| `CreationsDeliver`: `CreateDelivers` | `AppLifecycleProofs` | the same |
| `NothingIsLeftBehind`, `DeletionsCleanUp` | `AppLifecycleProofs` | the same and `UniformDisks` |
| `SecretsStayReadable`, `RolesHaveTheirPolicy`, `RevocationsAnswerTruthfully` | `AppSecretsProofs` | `Serial` |
| `PromisedProjectsStayUsable`, `ProjectsAreLimited`, `CreationsResolveConflicts` | `ProjectProofs` | `Serial`, `Drained` |
| `ServiceKeepsContract`: `ContractKept` (refinement) | `ProjectProofs` | `Serial`, `Drained` |
| `LoadBalancersHaveHosts`, `HostNamesAreKept`, `OpeningsStand` | `ProjectPortsProofs` | nothing |
| `ClientIsInitialisedOnce`, `PodClientsAreInitialised` | `KubernetesClientProofs` | nothing |
| `CreationsAreKept`, `AdditionsAreKept`, `UnnamedKeysAreKept`, `SetsAreDelivered` | `ResourceManagersProofs` | nothing |
| `SetupsAreKept`, `TeardownsAreResumed`, `RolesKeepPolicy`, `TeardownsAreDelivered` | `VaultBindingProofs` | `Serial` |
| `CalmAlarmsAreExact`, `AppsAreReported` | `MonitoringProofs` | nothing |
| `UsageMeetsLimits` | `MonitoringProofs` | `LimitsStated` |

"Nothing" is nothing but the named assumptions on constants, which TLC evaluates in every run. All
hold for any number of apps, containers, projects, ports, keys, members, roles, nodes, namespaces, workloads,
requests and faults, and for any workload. Containers, nodes and namespaces are finite sets.

*Types.* A request's step does not only have a type: it tells what its job is.
`TypeInv` adds `WellFormed` (a request at `unmount` is a deletion, one at `hpa_post`
an autoscaling, ...) so that fields of `job[r]` may be used at all. Each operation has a
lemma that a step keeps to its operation, and one that the step is typed.

*Calls.* `CallsLeft` is the ranking function of a request: the calls of the stages ahead of its step, and
for each claim in `todo` those of a visit. `CreateAdvances`, `DeleteAdvances`, `FindAdvances` and `OtherAdvances`
show that a step lowers it or answers; a visited claim leaves `todo`, which needs `cur[r] \in todo[r]` of
`WellFormed`, and takes more from the sum than starting over at the next claim puts back. `CallsInRange` bounds it. What
is missing from here to `EveryRequestAnswered` is that a step is always enabled, and fairness.

*Storage.* `StorageInv` is `DeployedHasIdentityAndStorage` strengthened by what a creation has
achieved at each step (after `sa_*` the account is there; the containers with a
disk not in `todo` have a live claim), by what a deletion has already taken (past
`undeploy` there is no deployment), and by the separation of the two that `Serial`
gives. Without the first part the step that creates the deployment could not be
proved; without the second a deletion that takes the account could not. `Untouched`
and `OthersHold` are the frame: a step of one app leaves the facts of another.
`CreationsDeliver` reads the action property off the same invariant.

*Scaling.* `ScaleInv` adds that a request in `alone` has no rival in flight and that,
once a fixed scale is past `hpa_delete`, there is no autoscaler, and that an app with a
rescaling request in flight is not pinned. It needs no courtesy, as it speaks
of lone requests only.

*Clean-up.* `CleanUpInv` holds as long as `faults = 0`, since the code gives up a clean-up that fails (section 6). It says that
what an app has claims for is what its deployment mounts, or a creation or a clean-up of it is in flight (`Owned`,
`Accounted`); that a creation meets again what it met, so that it does not fail and leave
half an app (`CreationMeets`); and that a deletion has yet to visit every claim that is not released
(`DeletionHolds`). `UniformDisks`, the same disks in all creations of an app, is a real restriction: without it the deletion
misses the claim of a disk that is added later (section 6). A deletion visits the volumes of the deployment:
`Owned` is needed when it begins, `DeletionHolds` while it runs, and `Accounted` is what is left of it when it ends.

*Secrets.* `AccessInv` adds what a store has set up so far, what a revocation has
taken down, that the two do not overlap and that a secret whose revocation is in flight is not
promised. `RevocationsAnswerTruthfully` is read off it at the revocation's last step, and at its listing.

*Projects.* `ContractInv` adds `Apart` (what `Serial` and `Drained` give), `Leaving` (what remains of a
namespace that goes) and `Progress` (what a creation has set up, from which `CreationsResolveConflicts` follows: what
a creation found taken is still there when it looks again). The refinement
maps a step of the service to `Provision`, `Condemn`, `Withdraw`, `Forget` or a
stutter; `OneProjectRefines` reduces it to a case distinction on one project.

*Ports.* Three invariants, one per property: `HostInv` carries the host name from the Service
that was found to the object that is saved; `VersionInv` says that a request whose version is
current has read the Service as it is, from which the action property follows at
`Put`; `PromiseInv` says that no close of a promised Service is in flight. `StepWrites`
states once what any step does to its Service, to versions and to promises.

*Managers.* The 67 entering actions have one lemma: they change nothing but the request they
start (`Ask`). `PromiseInv` says that no deletion of a promised object is in flight,
`StandingInv` that the patch of an addition carries what it adds and, while it is current, every member of the object, and
`VersionInv` that what a current request is about to send was made from the object as it
is. `UnnamedKeysSurvive` follows from it at `Patch`: the keys of an up-to-date merge that the
request did not name have the object's values. An outdated addition empties `standing`, as it does in the code: what is proved
is that only such an addition, or a deletion, takes a member back.

*Binding.* `SetupInv` is what a binding has set up at each of its steps; `TeardownInv` says that, unless
something is stray, the account or a binding in flight accounts for each role and for the
policy, and what a teardown has removed at each of its steps. Its conjunct `roles # {} => policy` is
`RolesHavePolicy`, and would not be inductive without the others: the step that deletes the policy
needs to know that the role is gone, and that no binding is in flight, which is `ApartInv`. `stray` is an exception in all three
theorems about teardowns, and a wide one: it says of no teardown after a binding that failed that it delivers (section 6).

*Client.* `LoadInv` says that at most one request loads the configuration, and that the published client is the one it makes;
`PodInv` that in the cluster, as long as no load failed, a client that is not ready is being loaded, during which nobody else runs.

*Monitoring.* `QueryInv` ties the step of a query to its view. `CalmInv` keeps, for a query under which nothing
changed, what it found equal to what is there; `ThresholdScales` takes the comparison from the code's units to thousandths, for
totals below `Precise` and off the threshold, and the rest are lemmas about sums over finite
sets (a sum over one more element, equal, scaled and ordered summands). They are proved by a
smallest set for which they fail, which needs no induction rule with an operator parameter. `UsageInv` bounds, under
`LimitsStated`, every count by that of the limits, which the controller keeps even when it lags behind, and so the two
look-ups of `UsageMeetsItsLimit` stop at the same key once the quota's keys are counted (`Counted`); `ReportInv` says which apps
have been read and with which figures.

Model-checked only: `EveryRequestAnswered`, which is a liveness property under fairness and needs `ENABLED`. Its safety part is
`CallsAreBounded`. The two refuted properties of section 3 have no theorem.

## 6. What the code does not do

Traces found with TLC while modelling, beside those of section 3. They are
consequences of the code as it is, and the reason for the assumptions above.

- *A failed clean-up is silent.* The deletion of an app swallows every exception of its
  clean-up (`app_deployment_delete_use_case.py:44,51`) and answers with success; the
  next deletion answers 404, so nobody retries. `AppCleanup` therefore has no fault.
- *A disk that is added later is never mounted*: an app is created without a disk and then
  created again with one. The claim is provisioned, the existing deployment only gets images, and the
  deletion, which looks at the deployment's volumes, does not find the claim
  (`app_deployment_repository.py:69`). Hence the uniform creations of `AppCleanup`.
- *The autoscaler outlives its app*: autoscale, delete, create again, and the new app of that name is
  scaled by the old one's autoscaler (`app_deployment_repository.py:110`).
- *A store and a revocation that overlap*: the revocation finds the listing empty, the store is answered,
  and the revocation deletes role and policy (`app_deployment_repository.py:343`). Hence `Serial`.
- *Creating an app again* changes images only (`app_deployment_repository.py:69`), though the
  contract speaks of "create or update".
- *Claim names may coincide*: app `web` with container `api-db` and app `web-api` with
  container `db` share `web-api-db-pvc` (`app_deployment_create_use_case.py:92`), and deleting one
  app takes the other's disk. Hence `DistinctClaimNames`.
- *A claim or a namespace that is leaving* is taken for one that is there
  (`persistentvolumeclaim/manager.py:73`, `namespace/manager.py:63`): the creation is answered, and the
  object disappears. Hence `Drained`.
- *Vault errors look like an empty listing* (`vault/client.py:516`): an outage during a
  revocation deletes role and policy under secrets in use. `StoredSecretsReadable` is stated for
  as long as no listing failed; `RoleHasItsPolicy` holds regardless.
- *Two creations of one project* may collide on the pull secret, whose 409 is the one
  that is not resolved (`service_account/manager.py:183`). `ConflictsResolved` says
  that it is the only one.
- *A client that is not ready is handed out*: with a kubeconfig, the second of two first requests is handed
  a client without an API, because it is published before its initialisation is awaited; and one whose
  initialisation failed is handed out until the next restart (`dependencies/kubernetes.py:54`).
- *Two openings of one port* both find it missing, and the later one overwrites
  the earlier (`project_port_open_use_case.py:28`); of two updates the later save merges into
  what it found first, since only its last read is locked; an update that found a Service before
  it was closed creates it again, unless it had node ports that its new type forbids; an update that omits the type
  resets it to ClusterIP (`api/v1/project/schmas/request.py:65`).
- *Two settings of an app's variables* that both find none: the one that loses the creation is answered with
  the other's map, and its own keys are lost (`app_deployment_repository.py:267`). `SetsDeliver` is about settings
  that nothing was written under. A change that merges into an outdated map writes back what
  another request changed, in every manager but that of namespaces (`UnnamedKeysSurvive`).
- *Two additions that overlap* to the subjects of a role binding (`rolebinding/manager.py:404`) or to the pull secrets of a
  ServiceAccount (`serviceaccount/manager.py:514`): each sends the list it read with its member, the list is replaced, and the later
  one takes the earlier one back. `AdditionsStand` says that nothing else does.
- *A Job, pod, claim, namespace or Service that is on its way out* is still found, and a creation hands it out: a Job deleted in
  the foreground (`job/manager.py:248`) or whose time to live is over (`:107`) is answered as created (`:81`) and then goes. `CreationsStand`
  leaves these kinds out.
- *Replacing does not replace* elsewhere either: labels and annotations with `merge=False`,
  `update_selector` and `update_resource_quota` are merge patches, too. `update_limits` sends the attribute names of
  the client library instead of those of the API (`limitrange/manager.py:346`).
- *Nothing is handed out* for a namespace or a vertical autoscaler whose creation met a conflict with an
  object that was gone when it looked again (`namespace/manager.py:88`); the other managers fail. Deleting what
  is not there is a success for some kinds and an error for others.
- *A setup that fails half-way* leaves a role and a policy in Vault; the teardown reads no role from the account,
  does nothing and answers with success (`secret/manager.py:269`), although its docstring (`:547`) speaks of removing
  all of the access. `TeardownsDeliver` leaves that out (`stray`). Binding an account under
  another name leaks the role of the first; a second setup with other paths overwrites the one
  policy; a teardown leaves the annotations of the workload. The manager is used by no request today.
- *Unknown units* (`k`, or `m` of bytes) are read as bytes, and CPU amounts with any suffix but `m` as zero
  (`unit_converter.py:49`). A limit of zero is reported as "Unlimited", an app that is scaled to zero with the limits of
  one replica, and a cluster without capacity raises no alarm. The storage alarm compares what claims may request with the
  nodes' ephemeral storage. A cluster of which exactly
  55 percent are allocated alarms at a threshold of 55, since `0.55 * 100` is more than 55 as a float; so at 7, 14, 28 and 56.
- *Limit and usage from different keys*: a quota limits `requests.cpu` and gets `limits.cpu` as well
  (`resourcequota/manager.py:323`); until the controller counts the new key, the new limit is compared with the usage by requests. So it
  is when no pod states a limit, as their count is zero and passed over (`project_resource_status_use_case.py:118`). With several quotas in a
  namespace a count that lags behind may come from another key than the limit.
- *A Job is never complete*: `is_complete` compares counters that Kubernetes leaves out when they are zero
  (`job/manager.py:480`).
- *DNS records cannot be managed as wired*: the provider is constructed with a `Depends` object for its manager
  (`dependencies/dns.py:12`), so that each call raises.
- *Logs and events*: pods are selected by a label no pod carries (`app_deployment_repository.py:213`), so that an app's logs are
  empty; events are matched by name prefix, so that those of `web-api` are reported for `web` (`:245`).

## 7. Not modelled, and what is left

Not modelled, and why:

- *Project DNS*: as wired, no call of the provider gets as far as the cluster.
- *Logs, events, listings and the status queries of the managers* (`get_*_status`, `is_ready`, `is_complete`, `is_bound`, ...):
  one read each and a comparison of what it returned. They have no state and combine nothing read at different times; what
  is wrong with some of them is in section 6.
- *Routing, serialisation, error texts and logging*: no state, no order. The infrastructure API passes each of its requests, all GET, to
  a listing or to one of the status queries; the latter are modelled.
- *Services that linger*: `ResourceManagers` lets a deleted Service stay for a while, but `ProjectPorts` removes it at once, as the API server does
  without a load balancer's finalizer. With one, an opening could be answered with a Service on its way out, and `OpenStands` would need the
  courtesy of `Drained`.
- *Configuration*: read once at start.
- *Requests to Kubernetes that take effect after their caller gave up or died*: a lost answer takes effect at
  once or not at all. The caches of the autoscaler and volume controllers beyond what their actions do.

Left:

1. Composition: apps within a project that is being deleted (the namespace controller takes
   apps down), ports that select apps.
2. Proofs: without `UniformDisks`, that a deletion releases the claims of the volumes that the deployment it
   found mounts; the composition's theorems.
3. Several quotas in a namespace, with the rule under which limit and usage still come from one key.

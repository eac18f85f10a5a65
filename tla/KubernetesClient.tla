-------------------------- MODULE KubernetesClient --------------------------
(***************************************************************************)
(* The one Kubernetes client of the process, created by the first request  *)
(* that needs it and shared by all later ones.  A request resolves it while *)
(* its dependencies are injected, and uses it at its first API call.       *)
(***************************************************************************)
EXTENDS Naturals, FiniteSets

CONSTANTS
  Requests,     \* slots for requests that are served at the same time
  Configs,      \* configurations the service may have: see suspends
  MaxFaults,    \* bound on loads that fail
  MaxRestarts   \* bound on restarts of the process

ASSUME ClientAssumption ==
  Configs \subseteq BOOLEAN /\ MaxFaults \in Nat /\ MaxRestarts \in Nat

VARIABLES
  suspends,     \* TRUE: the configuration is loaded from a kubeconfig, which
                \* awaits; FALSE: from the pod's files, which does not
  instance,     \* the global: "none", "created", or "ready" to make calls
  pc,           \* where every request is, or how it ended
  faults,       \* failed loads so far
  restarts      \* restarts so far

vars == <<suspends, instance, pc, faults, restarts>>

InFlight == {"loading", "injected"}
Answers == {"served", "broken", "failed"}

TypeOK ==
  /\ suspends \in Configs
  /\ instance \in {"none", "created", "ready"}
  /\ pc \in [Requests -> InFlight \cup Answers \cup {"idle"}]
  /\ faults \in 0..MaxFaults
  /\ restarts \in 0..MaxRestarts

Init ==
  /\ suspends \in Configs
  /\ instance = "none"
  /\ pc = [r \in Requests |-> "idle"]
  /\ faults = 0
  /\ restarts = 0

Enter(r, step) == pc' = [pc EXCEPT ![r] = step]

\* Mutant: the global is assigned once the client is initialised.
GetClientLate(r) ==
  /\ pc[r] \notin InFlight
  /\ Enter(r, IF instance = "none" THEN "loading" ELSE "injected")
  /\ UNCHANGED <<instance, faults, restarts>>

\* Mutant: the client is handed out uninitialised.
GetClientBare(r) ==
  /\ pc[r] \notin InFlight
  /\ instance' = IF instance = "none" THEN "created" ELSE instance
  /\ Enter(r, "injected")
  /\ UNCHANGED <<faults, restarts>>

\* The global is assigned before its initialisation is awaited, so that a later
\* request is handed it at once.
GetClient(r) ==
  /\ pc[r] \notin InFlight
  /\ IF instance = "none"
     THEN instance' = "created" /\ Enter(r, "loading")
     ELSE Enter(r, "injected") /\ UNCHANGED instance
  /\ UNCHANGED <<faults, restarts>>

\* No other request runs while a load that does not suspend is under way.
Loading == \E r \in Requests : pc[r] = "loading"
Runs(r) == Loading /\ ~suspends => pc[r] = "loading"

Initialize(r) ==
  /\ pc[r] = "loading"
  /\ instance' = "ready"
  /\ Enter(r, "injected")
  /\ UNCHANGED <<faults, restarts>>

\* Mutant: the client is closed in the global it stays in.
InitializeFailsClosed(r) ==
  /\ pc[r] = "loading"
  /\ faults < MaxFaults
  /\ faults' = faults + 1
  /\ instance' = "closed"
  /\ Enter(r, "failed")
  /\ UNCHANGED restarts

\* The exception ends the request; the global keeps the client.
InitializeFails(r) ==
  /\ pc[r] = "loading"
  /\ faults < MaxFaults
  /\ faults' = faults + 1
  /\ Enter(r, "failed")
  /\ UNCHANGED <<instance, restarts>>

\* A client that is not ready has no API to call.
Use(r) ==
  /\ pc[r] = "injected"
  /\ Enter(r, IF instance = "ready" THEN "served" ELSE "broken")
  /\ UNCHANGED <<instance, faults, restarts>>

\* The process is restarted.
Restart ==
  /\ restarts < MaxRestarts
  /\ restarts' = restarts + 1
  /\ instance' = "none"
  /\ pc' = [r \in Requests |-> "idle"]
  /\ UNCHANGED faults

Step(r) == GetClient(r) \/ Initialize(r) \/ InitializeFails(r) \/ Use(r)

Next ==
  /\ \/ \E r \in Requests : Runs(r) /\ Step(r)
     \/ Restart
  /\ UNCHANGED suspends

Spec == Init /\ [][Next]_vars

-----------------------------------------------------------------------------
(* Properties. *)

\* However many requests arrive while the client is being initialised, only
\* one of them initialises it, and a client in use is never initialised again.
InitialisedOnce ==
  /\ Cardinality({r \in Requests : pc[r] = "loading"}) <= 1
  /\ Loading => instance = "created"

\* In the cluster, where loading the configuration does not suspend, no request
\* is handed a client that is not initialised, through restarts, as long as no
\* load failed.
PodClientIsInitialised ==
  (~suspends /\ faults = 0) => \A r \in Requests : pc[r] # "broken"

-----------------------------------------------------------------------------
(* What the proofs of KubernetesClientProofs need to know of every state. *)

\* One request at most loads, and the global holds what it is loading.
LoadInv ==
  /\ \A r, q \in Requests : pc[r] = "loading" /\ pc[q] = "loading" => r = q
  /\ Loading => instance = "created"

\* In the cluster, a client that was not made ready is being loaded, so that
\* nobody runs who could be handed it.
PodInv ==
  (~suspends /\ faults = 0) =>
    /\ instance = "created" => Loading
    /\ \A r \in Requests :
         /\ pc[r] = "injected" => instance = "ready"
         /\ pc[r] # "broken"

=============================================================================

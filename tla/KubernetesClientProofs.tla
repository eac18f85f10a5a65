----------------------- MODULE KubernetesClientProofs -----------------------
(***************************************************************************)
(* Theorems about KubernetesClient, for any number of concurrent requests, *)
(* failed loads and restarts, and either configuration.                    *)
(***************************************************************************)
EXTENDS KubernetesClient, FiniteSetTheorems, TLAPS

-----------------------------------------------------------------------------
(* Type correctness. *)

LEMMA InitType == Init => TypeOK
BY ClientAssumption DEF Init, TypeOK

LEMMA StepType ==
  ASSUME TypeOK, NEW r \in Requests, Step(r), UNCHANGED suspends
  PROVE  TypeOK'
<1> USE DEF TypeOK, Enter, InFlight, Answers
<1>1. CASE GetClient(r)
  BY <1>1 DEF GetClient
<1>2. CASE Initialize(r)
  BY <1>2 DEF Initialize
<1>3. CASE InitializeFails(r)
  BY <1>3, ClientAssumption DEF InitializeFails
<1>4. CASE Use(r)
  BY <1>4 DEF Use
<1> QED BY <1>1, <1>2, <1>3, <1>4 DEF Step

LEMMA NextType ==
  ASSUME TypeOK, [Next]_vars
  PROVE  TypeOK'
<1>1. CASE Restart /\ UNCHANGED suspends
  BY <1>1, ClientAssumption DEF Restart, TypeOK
<1>2. CASE UNCHANGED vars
  BY <1>2 DEF vars, TypeOK
<1> QED BY <1>1, <1>2, StepType DEF Next

\* Every reachable state is well typed.
THEOREM TypeCorrect == Spec => []TypeOK
<1>1. TypeOK /\ [Next]_vars => TypeOK'
  BY NextType
<1> QED BY <1>1, InitType, PTL DEF Spec

-----------------------------------------------------------------------------
(* One initialisation. *)

LEMMA StepLoad ==
  ASSUME TypeOK, LoadInv, NEW r \in Requests, Step(r)
  PROVE  LoadInv'
<1>1. \A q \in Requests \ {r} : pc'[q] = pc[q]
  BY DEF Step, GetClient, Initialize, InitializeFails, Use, Enter, TypeOK
<1>2. CASE GetClient(r)
  \* A request that finds no client is the only one that loads.
  <2>1. CASE instance = "none"
    <3>1. ~Loading /\ instance' = "created"
      BY <1>2, <2>1 DEF GetClient, LoadInv
    <3> QED BY <1>1, <3>1 DEF LoadInv, Loading
  <2>2. CASE instance # "none"
    <3>1. pc'[r] = "injected" /\ instance' = instance
      BY <1>2, <2>2 DEF GetClient, Enter, TypeOK
    <3> QED BY <1>1, <3>1 DEF LoadInv, Loading
  <2> QED BY <2>1, <2>2
<1>3. CASE Initialize(r) \/ InitializeFails(r)
  <2>1. pc[r] = "loading" /\ pc'[r] # "loading"
    BY <1>3 DEF Initialize, InitializeFails, Enter, TypeOK
  <2>2. ~Loading'
    BY <1>1, <2>1 DEF LoadInv, Loading
  <2> QED BY <2>2 DEF LoadInv, Loading
<1>4. CASE Use(r)
  <2>1. pc'[r] # "loading" /\ instance' = instance
    BY <1>4 DEF Use, Enter, TypeOK
  <2> QED BY <1>1, <2>1 DEF LoadInv, Loading
<1> QED BY <1>2, <1>3, <1>4 DEF Step

LEMMA NextLoad ==
  ASSUME TypeOK, LoadInv, [Next]_vars
  PROVE  LoadInv'
<1>1. CASE Restart
  BY <1>1 DEF Restart, LoadInv, Loading
<1>2. CASE UNCHANGED vars
  BY <1>2 DEF vars, LoadInv, Loading
<1> QED BY <1>1, <1>2, StepLoad DEF Next

LEMMA LoadInvariance == Spec => []LoadInv
<1>1. Init => LoadInv
  BY DEF Init, LoadInv, Loading
<1>2. TypeOK /\ LoadInv /\ [Next]_vars => LoadInv'
  BY NextLoad
<1> QED BY <1>1, <1>2, TypeCorrect, PTL DEF Spec

\* However many requests there are, one at most initialises the client, and what
\* it initialises is the client all are handed.
THEOREM ClientIsInitialisedOnce == Spec => []InitialisedOnce
<1>1. ASSUME LoadInv PROVE InitialisedOnce
  <2> DEFINE L == {r \in Requests : pc[r] = "loading"}
  <2>1. CASE L = {}
    BY <1>1, <2>1, FS_EmptySet DEF LoadInv, InitialisedOnce
  <2>2. ASSUME NEW r \in L PROVE InitialisedOnce
    <3>1. L = {r}
      BY <1>1 DEF LoadInv
    <3>2. Cardinality(L) = 1
      BY <3>1, FS_Singleton
    <3> QED BY <1>1, <3>2 DEF LoadInv, InitialisedOnce
  <2> QED BY <2>1, <2>2
<1> QED BY <1>1, LoadInvariance, PTL

-----------------------------------------------------------------------------
(* In the cluster. *)

LEMMA StepPod ==
  ASSUME TypeOK, LoadInv, PodInv, NEW r \in Requests, Runs(r), Step(r),
         UNCHANGED suspends
  PROVE  PodInv'
<1> SUFFICES ASSUME ~suspends, faults' = 0
             PROVE  /\ instance' = "created" => Loading'
                    /\ \A q \in Requests : /\ pc'[q] = "injected" => instance' = "ready"
                                           /\ pc'[q] # "broken"
  BY DEF PodInv
<1>1. /\ \A q \in Requests \ {r} : pc'[q] = pc[q]
      /\ faults = 0 /\ ~InitializeFails(r)
      /\ Loading => pc[r] = "loading"
  BY ClientAssumption DEF Step, GetClient, Initialize, InitializeFails, Use, Enter,
     Runs, TypeOK
<1>2. /\ instance = "created" => Loading
      /\ \A q \in Requests : /\ pc[q] = "injected" => instance = "ready"
                             /\ pc[q] # "broken"
  BY <1>1 DEF PodInv
<1>3. CASE GetClient(r)
  \* Nobody loads: the client is there and ready, or r is to load it.
  <2>1. instance \in {"none", "ready"}
    BY <1>1, <1>2, <1>3 DEF GetClient, InFlight, TypeOK
  <2>2. CASE instance = "none"
    <3>1. instance' = "created" /\ pc'[r] = "loading"
      BY <1>3, <2>2 DEF GetClient, Enter, TypeOK
    <3> QED BY <1>1, <1>2, <2>2, <3>1 DEF Loading
  <2>3. CASE instance = "ready"
    <3>1. instance' = "ready" /\ pc'[r] = "injected"
      BY <1>3, <2>3 DEF GetClient, Enter, TypeOK
    <3> QED BY <1>1, <1>2, <3>1
  <2> QED BY <2>1, <2>2, <2>3
<1>4. CASE Initialize(r)
  BY <1>1, <1>2, <1>4 DEF Initialize, Enter, TypeOK
<1>5. CASE Use(r)
  <2>1. /\ instance = "ready" /\ instance' = "ready" /\ pc'[r] = "served"
    BY <1>2, <1>5 DEF Use, Enter, TypeOK
  <2> QED BY <1>1, <1>2, <2>1
<1> QED BY <1>1, <1>3, <1>4, <1>5 DEF Step

LEMMA NextPod ==
  ASSUME TypeOK, LoadInv, PodInv, [Next]_vars
  PROVE  PodInv'
<1>1. CASE Restart /\ UNCHANGED suspends
  BY <1>1 DEF Restart, PodInv
<1>2. CASE UNCHANGED vars
  BY <1>2 DEF vars, PodInv, Loading
<1> QED BY <1>1, <1>2, StepPod DEF Next

LEMMA PodInvariance == Spec => []PodInv
<1>1. Init => PodInv
  BY DEF Init, PodInv
<1>2. TypeOK /\ LoadInv /\ PodInv /\ [Next]_vars => PodInv'
  BY NextPod
<1> QED BY <1>1, <1>2, TypeCorrect, LoadInvariance, PTL DEF Spec

\* In the cluster nobody is handed a client that is not initialised, as long as
\* no load failed.
THEOREM PodClientsAreInitialised == Spec => []PodClientIsInitialised
<1>1. PodInv => PodClientIsInitialised
  BY DEF PodInv, PodClientIsInitialised
<1> QED BY <1>1, PodInvariance, PTL
=============================================================================

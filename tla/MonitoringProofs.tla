-------------------------- MODULE MonitoringProofs --------------------------
(***************************************************************************)
(* What holds of the status queries for every cluster: how the amounts of  *)
(* finitely many nodes and namespaces add up, and that the answers of the  *)
(* three queries are right.                                                *)
(*                                                                         *)
(* A sum is a fold over a finite set.  What it computes follows from its   *)
(* recursion by induction over the subsets of the set, which is done here  *)
(* with a smallest counterexample: inclusion of finite sets is             *)
(* well-founded.                                                           *)
(***************************************************************************)
EXTENDS Monitoring, FiniteSetTheorems, TLAPS

-----------------------------------------------------------------------------
(* Sums over finite sets. *)

\* Of finitely many counterexamples one has no smaller one.
LEMMA SmallestSubset ==
  ASSUME NEW S, IsFiniteSet(S), NEW Bad, Bad \subseteq SUBSET S, Bad # {}
  PROVE  \E t \in Bad : \A u \in SUBSET t : u # t => u \notin Bad
<1>1. IsWellFoundedOn(StrictSubsetOrdering(S), FiniteSubsetsOf(S))
  BY FS_StrictSubsetOrderingWellFounded
<1>2. FiniteSubsetsOf(S) = SUBSET S
  BY FS_FiniteSubsetsOfFinite
<1>3. \E t \in Bad : \A u \in Bad : ~ (<<u, t>> \in StrictSubsetOrdering(S))
  BY <1>1, <1>2, WFMin
<1> QED BY <1>3 DEF StrictSubsetOrdering

Pick(s) == CHOOSE x \in s : TRUE

\* The function that a sum takes its value from.
Folds(it, f, S) ==
  it = [s \in SUBSET S |-> IF s = {} THEN 0 ELSE f[Pick(s)] + it[s \ {Pick(s)}]]

LEMMA SumUnfolds ==
  ASSUME NEW f
  PROVE  SumFunction(f) = (CHOOSE it : Folds(it, f, DOMAIN f))[DOMAIN f]
BY DEF SumFunction, SumFunctionOnSet, FoldFunctionOnSet, MapThenFoldSet, Folds, Pick

LEMMA PickIsMember ==
  ASSUME NEW s, s # {}
  PROVE  Pick(s) \in s
BY DEF Pick

LEMMA FoldsEmpty ==
  ASSUME NEW S, NEW f, NEW it, Folds(it, f, S)
  PROVE  it[{}] = 0
<1>1. {} \in SUBSET S
  OBVIOUS
<1> QED BY <1>1 DEF Folds

LEMMA FoldsAt ==
  ASSUME NEW S, NEW f, NEW it, Folds(it, f, S)
  PROVE  \A s \in SUBSET S : s # {} => it[s] = f[Pick(s)] + it[s \ {Pick(s)}]
BY Zenon DEF Folds

\* Functions that fold over two sets agree where both are defined.
LEMMA FoldsAgree ==
  ASSUME NEW S, IsFiniteSet(S), NEW T, S \subseteq T, NEW f, NEW g, NEW h,
         Folds(g, f, S), Folds(h, f, T)
  PROVE  \A u \in SUBSET S : g[u] = h[u]
<1> DEFINE Bad == {u \in SUBSET S : g[u] # h[u]}
<1>1. SUFFICES ASSUME Bad # {} PROVE FALSE
  OBVIOUS
<1>2. PICK t \in Bad : \A u \in SUBSET t : u # t => u \notin Bad
  <2>1. Bad \subseteq SUBSET S
    OBVIOUS
  <2> HIDE DEF Bad
  <2> QED BY <2>1, <1>1, SmallestSubset
<1> DEFINE u == t \ {Pick(t)}
<1> HIDE DEF u
<1>3. t \in SUBSET S /\ t \in SUBSET T /\ g[t] # h[t]
  BY <1>2
<1>4. t # {}
  BY <1>3, FoldsEmpty
<1>5. u \in SUBSET t /\ u # t
  BY <1>4, PickIsMember DEF u
<1>6. g[u] = h[u]
  BY <1>2, <1>3, <1>5
<1>7. g[t] = f[Pick(t)] + g[u] /\ h[t] = f[Pick(t)] + h[u]
  BY <1>3, <1>4, FoldsAt DEF u
<1> QED BY <1>3, <1>6, <1>7

\* Over a finite set there is such a function.
LEMMA FoldsExist ==
  ASSUME NEW S, IsFiniteSet(S), NEW f
  PROVE  \E it : Folds(it, f, S)
<1> DEFINE Bad == {T \in SUBSET S : ~ \E it : Folds(it, f, T)}
<1>1. SUFFICES ASSUME Bad # {} PROVE FALSE
  <2>1. S \in SUBSET S
    OBVIOUS
  <2> QED BY <2>1
<1>2. PICK t \in Bad : \A u \in SUBSET t : u # t => u \notin Bad
  <2>1. Bad \subseteq SUBSET S
    OBVIOUS
  <2> HIDE DEF Bad
  <2> QED BY <2>1, <1>1, SmallestSubset
<1> DEFINE Its(u) == CHOOSE it : Folds(it, f, u)
           V(u) == Its(u)[u]
           it == [s \in SUBSET t |->
                    IF s = {} THEN 0 ELSE f[Pick(s)] + V(s \ {Pick(s)})]
<1>3. \A u \in SUBSET t : u # t => Folds(Its(u), f, u)
  <2> TAKE u \in SUBSET t
  <2> HAVE u # t
  <2>1. \E g : Folds(g, f, u)
    BY <1>2
  <2> QED BY <2>1
<1> HIDE DEF Its
<1>4. \A u \in SUBSET t : u # t => V(u) = it[u]
  <2> TAKE u \in SUBSET t
  <2> HAVE u # t
  <2>1. CASE u = {}
    <3>1. Its(u)[{}] = 0
      BY <1>3, FoldsEmpty
    <3> QED BY <2>1, <3>1
  <2>2. CASE u # {}
    <3> DEFINE w == u \ {Pick(u)}
    <3> HIDE DEF w
    <3>1. w \in SUBSET u /\ w \in SUBSET t /\ w # t
      BY <2>2, PickIsMember DEF w
    <3>2. Folds(Its(u), f, u) /\ Folds(Its(w), f, w)
      BY <1>3, <3>1
    <3>3. IsFiniteSet(w)
      BY <3>1, <1>2, FS_Subset
    <3>4. Its(w)[w] = Its(u)[w]
      <4>1. w \subseteq u /\ w \in SUBSET w
        BY <3>1
      <4> QED BY <4>1, <3>2, <3>3, FoldsAgree
    <3>5. V(u) = f[Pick(u)] + Its(u)[w]
      <4>1. u \in SUBSET u
        OBVIOUS
      <4> QED BY <4>1, <2>2, <3>2, FoldsAt DEF w
    <3> QED BY <3>4, <3>5, <2>2 DEF w
  <2> QED BY <2>1, <2>2
<1>5. \A s \in SUBSET t : s # {} => V(s \ {Pick(s)}) = it[s \ {Pick(s)}]
  <2> TAKE s \in SUBSET t
  <2> HAVE s # {}
  <2>1. s \ {Pick(s)} \in SUBSET t /\ s \ {Pick(s)} # t
    BY PickIsMember
  <2> QED BY <2>1, <1>4
<1>6. Folds(it, f, t)
  <2>1. it = [s \in SUBSET t |->
               IF s = {} THEN 0 ELSE f[Pick(s)] + it[s \ {Pick(s)}]]
    BY <1>5
  <2> HIDE DEF it
  <2> QED BY <2>1 DEF Folds
<1> QED BY <1>2, <1>6

LEMMA SumFolds ==
  ASSUME NEW f, IsFiniteSet(DOMAIN f)
  PROVE  \E it : Folds(it, f, DOMAIN f) /\ SumFunction(f) = it[DOMAIN f]
<1> DEFINE it == CHOOSE g : Folds(g, f, DOMAIN f)
<1>1. Folds(it, f, DOMAIN f)
  BY FoldsExist
<1>2. SumFunction(f) = it[DOMAIN f]
  BY SumUnfolds
<1> QED BY <1>1, <1>2

\* Natural numbers add up to one.
LEMMA SumType ==
  ASSUME NEW S, IsFiniteSet(S), NEW f \in [S -> Nat]
  PROVE  SumFunction(f) \in Nat
<1>1. PICK it : Folds(it, f, S) /\ SumFunction(f) = it[S]
  BY SumFolds
<1> DEFINE Bad == {u \in SUBSET S : it[u] \notin Nat}
<1>2. SUFFICES ASSUME Bad # {} PROVE FALSE
  <2>1. S \in SUBSET S
    OBVIOUS
  <2> QED BY <1>1, <2>1
<1>3. PICK t \in Bad : \A u \in SUBSET t : u # t => u \notin Bad
  <2>1. Bad \subseteq SUBSET S
    OBVIOUS
  <2> HIDE DEF Bad
  <2> QED BY <2>1, <1>2, SmallestSubset
<1> DEFINE u == t \ {Pick(t)}
<1> HIDE DEF u
<1>4. t \in SUBSET S /\ it[t] \notin Nat
  BY <1>3
<1>5. t # {}
  <2>1. it[{}] = 0
    BY <1>1, FoldsEmpty
  <2> QED BY <1>4, <2>1
<1>6. Pick(t) \in S /\ u \in SUBSET t /\ u # t
  BY <1>4, <1>5, PickIsMember DEF u
<1>7. it[u] \in Nat
  BY <1>3, <1>4, <1>6
<1>8. it[t] = f[Pick(t)] + it[u]
  BY <1>1, <1>4, <1>5, FoldsAt DEF u
<1> QED BY <1>4, <1>6, <1>7, <1>8

\* A thousandfold of all summands is a thousandfold of the sum.
LEMMA SumThousandfold ==
  ASSUME NEW S, IsFiniteSet(S), NEW f \in [S -> Nat], NEW g \in [S -> Nat],
         \A x \in S : g[x] = 1000 * f[x]
  PROVE  SumFunction(g) = 1000 * SumFunction(f)
<1>1. PICK it : Folds(it, f, S) /\ SumFunction(f) = it[S]
  BY SumFolds
<1>2. PICK jt : Folds(jt, g, S) /\ SumFunction(g) = jt[S]
  BY SumFolds
<1>3. \A u \in SUBSET S : it[u] \in Nat /\ jt[u] = 1000 * it[u]
  <2> DEFINE Bad == {u \in SUBSET S : ~ (it[u] \in Nat /\ jt[u] = 1000 * it[u])}
  <2>1. SUFFICES ASSUME Bad # {} PROVE FALSE
    OBVIOUS
  <2>2. PICK t \in Bad : \A u \in SUBSET t : u # t => u \notin Bad
    <3>1. Bad \subseteq SUBSET S
      OBVIOUS
    <3> HIDE DEF Bad
    <3> QED BY <3>1, <2>1, SmallestSubset
  <2> DEFINE u == t \ {Pick(t)}
  <2> HIDE DEF u
  <2>3. t \in SUBSET S /\ ~ (it[t] \in Nat /\ jt[t] = 1000 * it[t])
    BY <2>2
  <2>4. t # {}
    <3>1. it[{}] = 0
      BY <1>1, FoldsEmpty
    <3>2. jt[{}] = 0
      BY <1>2, FoldsEmpty
    <3>3. 0 \in Nat /\ 0 = 1000 * 0
      OBVIOUS
    <3>4. ASSUME t = {} PROVE FALSE
      <4>1. it[t] = 0 /\ jt[t] = 0
        BY <3>1, <3>2, <3>4
      <4> QED BY <2>3, <4>1, <3>3
    <3> QED BY <3>4
  <2>5. Pick(t) \in S /\ u \in SUBSET t /\ u # t
    BY <2>3, <2>4, PickIsMember DEF u
  <2>6. it[u] \in Nat /\ jt[u] = 1000 * it[u]
    BY <2>2, <2>3, <2>5
  <2>7. it[t] = f[Pick(t)] + it[u]
    BY <1>1, <2>3, <2>4, FoldsAt DEF u
  <2>8. jt[t] = g[Pick(t)] + jt[u]
    <3>1. \A s \in SUBSET S : s # {} => jt[s] = g[Pick(s)] + jt[s \ {Pick(s)}]
      BY <1>2, FoldsAt
    <3> QED BY <3>1, <2>3, <2>4 DEF u
  <2>9. f[Pick(t)] \in Nat /\ g[Pick(t)] = 1000 * f[Pick(t)]
    BY <2>5
  <2> QED BY <2>3, <2>6, <2>7, <2>8, <2>9
<1>4. S \in SUBSET S
  OBVIOUS
<1> QED BY <1>1, <1>2, <1>3, <1>4

-----------------------------------------------------------------------------
(* Quantities. *)

LEMMA SizedIsQuantity ==
  ASSUME resource \in Resources
  PROVE  /\ Sized \subseteq Quantities \cup {Absent}
         /\ Counts \subseteq Quantities
BY AmountsAssumption DEF Sized, Sizes, Counts, Zero, Quantities

\* Quotas have amounts under their keys.
LEMMA HardsType == Hards \subseteq [Keys -> Sized]
BY DEF Hards, Hard, Sized

Units == {"one", "m", "k", "Ki", "Mi", "Gi", "M", "G"}

\* What the units are worth, and what the code takes them for.
LEMMA UnitsType ==
  ASSUME NEW unit \in Units
  PROVE  /\ Worth(unit) \in Nat \ {0} /\ Factor(unit) \in Nat /\ CpuFactor(unit) \in Nat
         /\ unit \in {"one", "m"} => Worth(unit) = CpuFactor(unit)
         /\ unit \notin {"m", "k"} => Worth(unit) = 1000 * Factor(unit)
<1>1. CASE unit = "one"
  BY <1>1 DEF Worth, Factor, CpuFactor
<1>2. CASE unit = "m"
  BY <1>2 DEF Worth, Factor, CpuFactor
<1>3. CASE unit = "k"
  BY <1>3 DEF Worth, Factor, CpuFactor
<1>4. CASE unit = "Ki"
  BY <1>4 DEF Worth, Factor, CpuFactor
<1>5. CASE unit = "Mi"
  BY <1>5 DEF Worth, Factor, CpuFactor
<1>6. CASE unit = "Gi"
  BY <1>6 DEF Worth, Factor, CpuFactor
<1>7. CASE unit = "M"
  BY <1>7 DEF Worth, Factor, CpuFactor
<1>8. CASE unit = "G"
  BY <1>8 DEF Worth, Factor, CpuFactor
<1> QED BY <1>1, <1>2, <1>3, <1>4, <1>5, <1>6, <1>7, <1>8 DEF Units

LEMMA QuantityType ==
  ASSUME NEW q \in Quantities
  PROVE  /\ q.n \in Nat /\ q.unit \in Units
         /\ Worth(q.unit) \in Nat \ {0}
         /\ Factor(q.unit) \in Nat /\ CpuFactor(q.unit) \in Nat
<1>1. q.n \in Nat /\ q.unit \in Units
  BY DEF Quantities, Units
<1> QED BY <1>1, UnitsType

LEMMA ProductType ==
  ASSUME NEW m \in Nat, NEW n \in Nat
  PROVE  m * n \in Nat /\ (m * n = 0 => m = 0 \/ n = 0)
OBVIOUS

LEMMA ThousandthsType ==
  ASSUME NEW q \in Quantities \cup {Absent}
  PROVE  /\ Thousandths(q) \in Nat
         /\ q = Absent => Thousandths(q) = 0
<1>1. CASE q = Absent
  BY <1>1 DEF Thousandths
<1>2. CASE q # Absent
  <2>1. q.n \in Nat /\ Worth(q.unit) \in Nat
    BY <1>2, QuantityType
  <2> QED BY <1>2, <2>1, ProductType DEF Thousandths
<1> QED BY <1>1, <1>2

LEMMA ParsedType ==
  ASSUME NEW q \in Quantities \cup {Absent}
  PROVE  /\ Parsed(q) \in Nat
         /\ q = Absent => Parsed(q) = 0
<1>1. CASE q = Absent
  BY <1>1 DEF Parsed
<1>2. CASE q # Absent
  <2>1. q.n \in Nat /\ Factor(q.unit) \in Nat /\ CpuFactor(q.unit) \in Nat
    BY <1>2, QuantityType
  <2>2. StorageBytes(q) \in Nat
    BY <2>1, ProductType DEF StorageBytes
  <2>3. CpuMillicores(q) \in Nat
    BY <2>1, ProductType DEF CpuMillicores
  <2> QED BY <1>2, <2>2, <2>3 DEF Parsed
<1> QED BY <1>1, <1>2

\* The code takes no amount for something that is nothing.
LEMMA ParsedOfNothing ==
  ASSUME NEW q \in Quantities \cup {Absent}, Thousandths(q) = 0
  PROVE  Parsed(q) = 0
<1>1. CASE q = Absent
  BY <1>1, ParsedType
<1>2. CASE q # Absent
  <2>1. /\ q.n \in Nat /\ Worth(q.unit) \in Nat \ {0}
        /\ Factor(q.unit) \in Nat /\ CpuFactor(q.unit) \in Nat
    BY <1>2, QuantityType
  <2>2. q.n = 0
    BY <1>2, <2>1, ProductType DEF Thousandths
  <2>3. StorageBytes(q) = 0
    BY <2>1, <2>2 DEF StorageBytes
  <2>4. CpuMillicores(q) = 0
    BY <2>1, <2>2 DEF CpuMillicores
  <2> QED BY <1>2, <2>3, <2>4 DEF Parsed
<1> QED BY <1>1, <1>2

\* The code is exact where it knows the unit.
LEMMA KnownCpuIsExact ==
  ASSUME NEW q \in Quantities \cup {Absent}, resource = "cpu", Known(q)
  PROVE  Thousandths(q) = Parsed(q)
<1>1. CASE q = Absent
  BY <1>1, ParsedType, ThousandthsType
<1>2. CASE q # Absent
  <2>1. q.unit \in Units /\ q.unit \in {"one", "m"}
    BY <1>2, QuantityType DEF Known
  <2>2. Parsed(q) = q.n * CpuFactor(q.unit) /\ Thousandths(q) = q.n * Worth(q.unit)
    BY <1>2 DEF Parsed, Thousandths, CpuMillicores
  <2> QED BY <2>1, <2>2, UnitsType
<1> QED BY <1>1, <1>2

LEMMA KnownBytesAreExact ==
  ASSUME NEW q \in Quantities \cup {Absent}, resource # "cpu", Known(q)
  PROVE  Thousandths(q) = 1000 * Parsed(q)
<1>1. CASE q = Absent
  BY <1>1, ParsedType, ThousandthsType
<1>2. CASE q # Absent
  <2>1. q.n \in Nat /\ q.unit \in Units /\ q.unit \notin {"m", "k"}
    BY <1>2, QuantityType DEF Known
  <2>2. Parsed(q) = q.n * Factor(q.unit) /\ Thousandths(q) = q.n * Worth(q.unit)
    BY <1>2 DEF Parsed, StorageBytes, Thousandths
  <2>3. Factor(q.unit) \in Nat /\ Worth(q.unit) = 1000 * Factor(q.unit)
    <3>1. \A u \in Units : u \notin {"m", "k"} => Worth(u) = 1000 * Factor(u)
      BY UnitsType
    <3> QED BY <1>2, <2>1, <3>1, QuantityType
  <2>4. \A m, n \in Nat : m * (1000 * n) = 1000 * (m * n)
    OBVIOUS
  <2> QED BY <2>1, <2>2, <2>3, <2>4
<1> QED BY <1>1, <1>2

-----------------------------------------------------------------------------
(* Type correctness. *)

TypeInv == TypeOK /\ QueryInv

\* Nothing changes what is followed.
LEMMA NextFollowed ==
  ASSUME [Next]_vars
  PROVE  resource' = resource /\ view' = view
BY DEF Next, vars, followed, AskCluster, AskProject, AskApps, Ask, CallFails, Respond, ListNodes,
       CountNodes, ListQuotas, ReadQuota, ReadApp, ReadFails, AppChanges, AppGone,
       NodeChanges, NodeGone, QuotaMade, QuotaChanges, QuotaGone, PodsChange, Recount, Disturbs

LEMMA ResourceType ==
  ASSUME TypeOK
  PROVE  resource \in Resources /\ view \in Views
BY FollowAssumption DEF TypeOK

LEMMA SumsType ==
  ASSUME TypeOK
  PROVE  /\ [n \in Nodes |-> Parsed(node[n])] \in [Nodes -> Nat]
         /\ SumFunction([n \in Nodes |-> Parsed(node[n])]) \in Nat
         /\ Cardinality(listed) \in 0..Cardinality(Nodes)
<1>1. \A n \in Nodes : Parsed(node[n]) \in Nat
  BY ParsedType, ResourceType, SizedIsQuantity DEF TypeOK
<1>2. [n \in Nodes |-> Parsed(node[n])] \in [Nodes -> Nat]
  BY <1>1
<1>3. SumFunction([n \in Nodes |-> Parsed(node[n])]) \in Nat
  BY <1>2, SumType, FiniteAssumption
<1>4. Cardinality(listed) \in 0..Cardinality(Nodes)
  <2>1. /\ IsFiniteSet(listed) /\ Cardinality(listed) <= Cardinality(Nodes)
        /\ Cardinality(Nodes) \in Nat
    BY FiniteAssumption, FS_Subset, FS_CardinalityType DEF TypeOK
  <2>2. Cardinality(listed) \in Nat
    BY <2>1, FS_CardinalityType
  <2> QED BY <2>1, <2>2
<1> QED BY <1>2, <1>3, <1>4

LEMMA InitType == Init => TypeInv
<1> SUFFICES ASSUME Init PROVE TypeInv
  OBVIOUS
<1>1. <<resource, view>> \in Follow
  BY FollowAssumption DEF Init
<1> QED BY <1>1 DEF Init, TypeInv, TypeOK, QueryInv, Sized, Counts

Fixed == UNCHANGED <<resource, view>>

\* The steps of a query.
LEMMA QueryType ==
  ASSUME TypeInv, Fixed,
         \/ AskCluster \/ AskProject \/ AskApps \/ CallFails \/ Respond
         \/ ListNodes \/ CountNodes \/ ListQuotas \/ ReadQuota
         \/ \E a \in Apps : ReadApp(a) \/ ReadFails(a)
  PROVE  TypeInv'
<1> USE DEF TypeInv, TypeOK, QueryInv, Fixed, Sized, Sizes, Counts, AppSpecs, objects, histories
<1>1. CASE AskCluster
  BY <1>1 DEF AskCluster, Ask
<1>2. CASE AskProject
  BY <1>2 DEF AskProject, Ask
<1>3. CASE AskApps
  BY <1>3 DEF AskApps, Ask, Present
<1>4. CASE CallFails
  BY <1>4 DEF CallFails
<1>5. CASE Respond
  BY <1>5 DEF Respond
<1>6. CASE ListNodes
  <2>1. found' \in [total : Nat, count : 0..Cardinality(Nodes)]
    <3>1. found' = [total |-> SumFunction([n \in Nodes |-> Parsed(node[n])]), count |-> 0]
      BY <1>6 DEF ListNodes
    <3>2. 0 \in 0..Cardinality(Nodes)
      BY FiniteAssumption, FS_CardinalityType
    <3> QED BY <3>1, <3>2, SumsType
  <2>2. found' # Absent
    BY <2>1, AbsentAssumption
  <2> QED BY <1>6, <2>1, <2>2 DEF ListNodes
<1>7. CASE CountNodes
  <2>1. found \in [total : Nat, count : 0..Cardinality(Nodes)]
    BY <1>7 DEF CountNodes
  <2>2. found' \in [total : Nat, count : 0..Cardinality(Nodes)]
    BY <1>7, <2>1, SumsType DEF CountNodes
  <2>3. found' # Absent
    BY <2>2, AbsentAssumption
  <2> QED BY <1>7, <2>2, <2>3 DEF CountNodes
<1>8. CASE ListQuotas
  BY <1>8 DEF ListQuotas
<1>9. CASE ReadQuota
  BY <1>9 DEF ReadQuota
<1>10. CASE \E a \in Apps : ReadApp(a)
  BY <1>10 DEF ReadApp, Collect
<1>11. CASE \E a \in Apps : ReadFails(a)
  BY <1>11 DEF ReadFails, Collect
<1> QED BY <1>1, <1>2, <1>3, <1>4, <1>5, <1>6, <1>7, <1>8, <1>9, <1>10, <1>11

\* The changes of the cluster.
LEMMA ChangeType ==
  ASSUME TypeInv, Fixed,
         \/ \E a \in Apps : AppChanges(a) \/ AppGone(a)
         \/ \E n \in Nodes : NodeChanges(n) \/ NodeGone(n)
         \/ \E s \in Namespaces : \/ QuotaMade(s) \/ QuotaChanges(s) \/ QuotaGone(s)
                                  \/ PodsChange(s) \/ Recount(s)
  PROVE  TypeInv'
<1> USE DEF TypeInv, TypeOK, QueryInv, Fixed, Sized, Sizes, Counts, AppSpecs, query, Disturbs
<1>1. CASE \E a \in Apps : AppChanges(a)
  BY <1>1 DEF AppChanges
<1>2. CASE \E a \in Apps : AppGone(a)
  BY <1>2 DEF AppGone
<1>3. CASE \E n \in Nodes : NodeChanges(n) \/ NodeGone(n)
  BY <1>3 DEF NodeChanges, NodeGone
<1>4. CASE \E s \in Namespaces : QuotaMade(s)
  BY <1>4, HardsType DEF QuotaMade
<1>5. CASE \E s \in Namespaces : QuotaChanges(s)
  BY <1>5, HardsType DEF QuotaChanges
<1>6. CASE \E s \in Namespaces : QuotaGone(s)
  BY <1>6 DEF QuotaGone
<1>7. CASE \E s \in Namespaces : PodsChange(s)
  BY <1>7 DEF PodsChange
<1>8. CASE \E s \in Namespaces : Recount(s)
  BY <1>8 DEF Recount
<1> QED BY <1>1, <1>2, <1>3, <1>4, <1>5, <1>6, <1>7, <1>8

LEMMA NextType ==
  ASSUME TypeInv, [Next]_vars
  PROVE  TypeInv'
<1>1. CASE UNCHANGED vars
  BY <1>1 DEF vars, followed, objects, query, histories, TypeInv, TypeOK, QueryInv,
              Sized, Sizes, Counts, AppSpecs
<1>2. CASE Next
  BY <1>2, NextFollowed, QueryType, ChangeType DEF Next, Fixed
<1> QED BY <1>1, <1>2

\* A query is at a step of its view, with what that step relies on.
THEOREM TypeInvariance == Spec => []TypeInv
<1>1. TypeInv /\ [Next]_vars => TypeInv'
  BY NextType
<1> QED BY <1>1, InitType, PTL DEF Spec

\* Every reachable state is well typed.
THEOREM TypeCorrect == Spec => []TypeOK
<1>1. TypeInv => TypeOK
  BY DEF TypeInv
<1> QED BY <1>1, TypeInvariance, PTL

-----------------------------------------------------------------------------
(* Clusters: the alarm. *)

LEMMA NextCalm ==
  ASSUME TypeInv, CalmInv, [Next]_vars
  PROVE  CalmInv'
<1>1. resource' = resource
  BY NextFollowed
<1>2. ASSUME node' = node
      PROVE  SumFunction([n \in Nodes |-> Parsed(node[n])])'
               = SumFunction([n \in Nodes |-> Parsed(node[n])])
  BY <1>1, <1>2 DEF Parsed
<1>3. CASE ListNodes
  <2>1. /\ found'.total = SumFunction([n \in Nodes |-> Parsed(node[n])])
        /\ node' = node /\ listed' = listed /\ pc' = "count"
    BY <1>3 DEF ListNodes, objects
  <2> QED BY <1>2, <2>1 DEF CalmInv
<1>4. CASE CountNodes
  <2>1. pc = "count" /\ calm' = calm /\ node' = node /\ listed' = listed /\ pc' = "quotas"
    BY <1>4 DEF CountNodes, objects, histories
  <2>2. found \in [total : Nat, count : 0..Cardinality(Nodes)]
    BY <2>1 DEF TypeInv, TypeOK, QueryInv
  <2>3. found'.total = found.total /\ found'.count = Cardinality(listed)
    BY <1>4, <2>2 DEF CountNodes
  <2> QED BY <1>2, <2>1, <2>3 DEF CalmInv
<1>5. CASE \/ AskCluster \/ AskProject \/ AskApps \/ CallFails \/ Respond
           \/ ListQuotas \/ ReadQuota
  BY <1>5 DEF AskCluster, AskProject, AskApps, Ask, CallFails, Respond, ListQuotas, ReadQuota, CalmInv
<1>6. CASE \E a \in Apps : ReadApp(a) \/ ReadFails(a) \/ AppChanges(a) \/ AppGone(a)
  <2>1. /\ pc' \in {pc, "answered"} /\ calm' = calm /\ found' = found
        /\ node' = node /\ listed' = listed
    BY <1>6 DEF ReadApp, ReadFails, AppChanges, AppGone, Collect, objects, histories, query
  <2> QED BY <1>2, <2>1 DEF CalmInv
<1>7. CASE \/ \E n \in Nodes : NodeChanges(n) \/ NodeGone(n)
           \/ \E s \in Namespaces : \/ QuotaMade(s) \/ QuotaChanges(s) \/ QuotaGone(s)
                                    \/ PodsChange(s) \/ Recount(s)
  <2>1. calm' = (pc = "idle") /\ pc' = pc
    BY <1>7 DEF NodeChanges, NodeGone, QuotaMade, QuotaChanges, QuotaGone, PodsChange, Recount, Disturbs, query
  <2> QED BY <2>1 DEF CalmInv
<1>8. CASE UNCHANGED vars
  BY <1>2, <1>8 DEF vars, objects, query, histories, CalmInv
<1> QED BY <1>3, <1>4, <1>5, <1>6, <1>7, <1>8 DEF Next

LEMMA CalmInvariance == Spec => [](TypeInv /\ CalmInv)
<1>1. Init => CalmInv
  BY DEF Init, CalmInv
<1>2. TypeInv /\ CalmInv /\ [Next]_vars => CalmInv'
  BY NextCalm
<1> QED BY <1>1, <1>2, TypeInvariance, PTL DEF Spec

\* Amounts that are all known add up to the same, in thousandths or as the code has
\* them, up to a factor that the resource decides.
LEMMA KnownSum ==
  ASSUME resource \in Resources, NEW S, IsFiniteSet(S),
         NEW q \in [S -> Quantities \cup {Absent}], \A x \in S : Known(q[x])
  PROVE  /\ SumFunction([x \in S |-> Parsed(q[x])]) \in Nat
         /\ SumFunction([x \in S |-> Thousandths(q[x])])
              = (IF resource = "cpu" THEN 1 ELSE 1000)
                  * SumFunction([x \in S |-> Parsed(q[x])])
<1> DEFINE P == [x \in S |-> Parsed(q[x])]
           T == [x \in S |-> Thousandths(q[x])]
<1>1. P \in [S -> Nat] /\ T \in [S -> Nat]
  BY ParsedType, ThousandthsType
<1>2. SumFunction(P) \in Nat
  BY <1>1, SumType
<1>3. CASE resource = "cpu"
  <2>1. T = P
    BY <1>3, KnownCpuIsExact
  <2> SUFFICES SumFunction(T) = SumFunction(P)
    BY <1>2, <1>3
  <2> HIDE DEF T, P
  <2> QED BY <2>1
<1>4. CASE resource # "cpu"
  <2>1. \A x \in S : T[x] = 1000 * P[x]
    BY <1>4, KnownBytesAreExact
  <2> SUFFICES SumFunction(T) = 1000 * SumFunction(P)
    BY <1>2, <1>4
  <2> HIDE DEF T, P
  <2> QED BY <1>1, <2>1, SumThousandfold
<1> QED BY <1>2, <1>3, <1>4

\* The comparison does not depend on the unit.
LEMMA ThresholdScales ==
  ASSUME NEW factor \in {1, 1000}, NEW allocated \in Nat, NEW total \in Nat
  PROVE  /\ (factor * allocated) * 100 > Threshold * (factor * total)
              <=> allocated * 100 > Threshold * total
         /\ (factor * allocated) * 100 = Threshold * (factor * total)
              <=> allocated * 100 = Threshold * total
<1> DEFINE limit == Threshold * total
<1>1. Threshold \in Nat
  BY ThresholdAssumption
<1>2. limit \in Nat
  BY <1>1, ProductType
<1>3. CASE factor = 1
  BY <1>3
<1>4. CASE factor = 1000
  <2>1. Threshold * (1000 * total) = 1000 * limit
    BY <1>1
  <2> HIDE DEF limit
  <2>2. /\ (1000 * allocated) * 100 > 1000 * limit <=> allocated * 100 > limit
        /\ (1000 * allocated) * 100 = 1000 * limit <=> allocated * 100 = limit
    BY <1>2
  <2> QED BY <1>4, <2>1, <2>2 DEF limit
<1> QED BY <1>3, <1>4

\* An answer about a cluster, a project or apps comes from one action.
LEMMA AnswersCome ==
  ASSUME TypeInv, [Next]_vars, NEW v, Answers(v)
  PROVE  \/ v = "cluster" /\ ListQuotas
         \/ v = "project" /\ ReadQuota
         \/ v = "apps" /\ \E a \in Apps : ReadApp(a) \/ ReadFails(a)
<1>1. view = v /\ pc # "answered" /\ pc' = "answered"
  BY DEF Answers, Ended
<1>2. ListQuotas \/ ReadQuota \/ \E a \in Apps : ReadApp(a) \/ ReadFails(a)
  BY <1>1 DEF Next, vars, query, AskCluster, AskProject, AskApps, Ask, CallFails, Respond,
              ListNodes, CountNodes, AppChanges, AppGone, NodeChanges, NodeGone, QuotaMade,
              QuotaChanges, QuotaGone, PodsChange, Recount, Disturbs
<1>3. /\ ListQuotas => v = "cluster"
      /\ ReadQuota => v = "project"
      /\ (\E a \in Apps : ReadApp(a) \/ ReadFails(a)) => v = "apps"
  BY <1>1 DEF TypeInv, QueryInv, ListQuotas, ReadQuota, ReadApp, ReadFails
<1> QED BY <1>2, <1>3

LEMMA HardOfType ==
  ASSUME TypeOK, NEW s \in Limited
  PROVE  HardOf(quota[s]) \in Quantities \cup {Absent}
<1>1. quota[s] \in [Keys -> Sized]
  BY DEF TypeOK, Limited
<1>2. HardOf(quota[s]) \in Sized
  BY <1>1 DEF HardOf, Keys
<1> QED BY <1>2, ResourceType, SizedIsQuantity

LEMMA NextAlarm ==
  ASSUME TypeInv, CalmInv, [Next]_vars, Answers("cluster"), calm, ExactTotal > 0,
         \A n \in Nodes : Known(node[n]),
         \A s \in Limited : Known(HardOf(quota[s]))
  PROVE  /\ answer'.nodes = Cardinality(listed)
         /\ (answer'.total < Precise /\ ExactAllocated * 100 # Threshold * ExactTotal) =>
              (answer'.alarm <=> ExactAllocated * 100 > Threshold * ExactTotal)
<1> DEFINE total == SumFunction([n \in Nodes |-> Parsed(node[n])])
           factor == IF resource = "cpu" THEN 1 ELSE 1000
<1>1. ListQuotas
  BY AnswersCome
<1>2. /\ answer'.nodes = Cardinality(listed) /\ answer'.total = total
      /\ answer'.alarm \in Alarms(Allocated, total)
  BY <1>1 DEF ListQuotas, CalmInv
<1>3. resource \in Resources /\ TypeOK
  BY ResourceType DEF TypeInv
<1>4. total \in Nat /\ ExactTotal = factor * total
  <2>1. node \in [Nodes -> Quantities \cup {Absent}]
    BY <1>3, SizedIsQuantity DEF TypeOK
  <2> QED BY <1>3, <2>1, KnownSum, FiniteAssumption DEF ExactTotal
<1>5. Allocated \in Nat /\ ExactAllocated = factor * Allocated
  <2> DEFINE q == [s \in Limited |-> HardOf(quota[s])]
  <2>1. q \in [Limited -> Quantities \cup {Absent}]
    BY <1>3, HardOfType
  <2>2. IsFiniteSet(Limited)
    BY FiniteAssumption, FS_Subset DEF Limited
  <2>3. \A s \in Limited : Known(q[s])
    OBVIOUS
  <2>4. /\ [s \in Limited |-> Thousandths(q[s])]
             = [s \in Limited |-> Thousandths(HardOf(quota[s]))]
        /\ [s \in Limited |-> Parsed(q[s])]
             = [s \in Limited |-> Parsed(HardOf(quota[s]))]
    OBVIOUS
  <2> HIDE DEF q
  <2>5. /\ SumFunction([s \in Limited |-> Parsed(q[s])]) \in Nat
        /\ SumFunction([s \in Limited |-> Thousandths(q[s])])
             = factor * SumFunction([s \in Limited |-> Parsed(q[s])])
    BY <1>3, <2>1, <2>2, <2>3, KnownSum
  <2> QED BY <2>4, <2>5 DEF Allocated, ExactAllocated
<1>6. factor \in {1, 1000}
  OBVIOUS
<1> HIDE DEF total, factor
<1>7. /\ ExactAllocated * 100 > Threshold * ExactTotal <=> Allocated * 100 > Threshold * total
      /\ ExactAllocated * 100 = Threshold * ExactTotal <=> Allocated * 100 = Threshold * total
  BY <1>4, <1>5, <1>6, ThresholdScales
<1>8. total # 0
  BY <1>4, <1>6
<1>9. (total < Precise /\ Allocated * 100 # Threshold * total) =>
        (answer'.alarm <=> Allocated * 100 > Threshold * total)
  BY <1>2, <1>8 DEF Alarms
<1> QED BY <1>2, <1>7, <1>9

\* The alarm about a cluster that has capacity and does not change under the query is
\* what exact arithmetic on thousandths says, for any nodes, quotas and amounts whose
\* units the code knows, off the threshold itself and where the total is Precise.
THEOREM CalmAlarmsAreExact == Spec => CalmAlarmIsExact
<1>1. TypeInv /\ CalmInv /\ [Next]_vars =>
        ((/\ Answers("cluster") /\ calm /\ ExactTotal > 0
          /\ \A n \in Nodes : Known(node[n])
          /\ \A s \in Limited : Known(HardOf(quota[s]))) =>
         /\ answer'.nodes = Cardinality(listed)
         /\ (answer'.total < Precise /\ ExactAllocated * 100 # Threshold * ExactTotal) =>
              (answer'.alarm <=> ExactAllocated * 100 > Threshold * ExactTotal))
  BY NextAlarm
<1> QED BY <1>1, CalmInvariance, PTL DEF Spec, CalmAlarmIsExact

-----------------------------------------------------------------------------
(* Projects: limits and usage. *)

UsageOf(s) ==
  /\ LimitsStated => Thousandths(usage[s].requests) <= Thousandths(usage[s].limits)
  /\ (LimitsStated /\ used[s]["limits"] # Absent) =>
       \A k \in Keys : Thousandths(used[s][k]) <= Thousandths(used[s]["limits"])
  /\ (used[s]["requests"] # Absent /\ used[s]["plain"] # Absent) =>
       used[s]["requests"] = used[s]["plain"]

LEMMA UsageOfAll == UsageInv <=> \A s \in Namespaces : UsageOf(s)
BY DEF UsageInv, UsageOf

\* What is said of a namespace depends on what its pods use and what is counted.
LEMMA UsageStays ==
  ASSUME NEW s \in Namespaces, UsageOf(s), used'[s] = used[s], usage'[s] = usage[s]
  PROVE  UsageOf(s)'
BY DEF UsageOf, Thousandths

LEMMA AmountsOf ==
  ASSUME TypeOK, NEW s \in Namespaces
  PROVE  /\ usage[s].requests \in Quantities /\ usage[s].limits \in Quantities
         /\ \A k \in Keys : used[s][k] \in Quantities \cup {Absent}
         /\ quota[s] # Absent =>
              \A k \in Keys : quota[s][k] \in Quantities \cup {Absent}
BY ResourceType, SizedIsQuantity DEF TypeOK

LEMMA NextUsage ==
  ASSUME TypeInv, UsageInv, [Next]_vars
  PROVE  UsageInv'
<1> USE DEF TypeInv
<1>1. \A s \in Namespaces : UsageOf(s)
  BY UsageOfAll
<1>2. Thousandths(Absent) = 0
  BY DEF Thousandths
<1>3. {"limits", "requests", "plain"} \subseteq Keys
  BY DEF Keys
<1>4. SUFFICES ASSUME NEW t \in Namespaces PROVE UsageOf(t)'
  BY DEF UsageInv, UsageOf
<1>5. CASE used' = used /\ usage' = usage
  BY <1>1, <1>5, UsageStays
<1>6. ASSUME NEW s \in Namespaces, QuotaGone(s)
      PROVE  UsageOf(t)'
  <2>1. CASE s # t
    <3>1. used'[t] = used[t] /\ usage' = usage
      BY <1>6, <2>1 DEF QuotaGone, TypeOK
    <3> QED BY <1>1, <3>1, UsageStays
  <2>2. CASE s = t
    <3>1. usage' = usage /\ \A k \in Keys : used'[t][k] = Absent
      BY <1>6, <2>2 DEF QuotaGone, TypeOK
    <3> QED BY <1>1, <1>3, <3>1 DEF UsageOf, Thousandths
  <2> QED BY <2>1, <2>2
<1>7. ASSUME NEW s \in Namespaces, PodsChange(s)
      PROVE  UsageOf(t)'
  <2>1. CASE s # t
    <3>1. used' = used /\ usage'[t] = usage[t]
      BY <1>7, <2>1 DEF PodsChange, TypeOK
    <3> QED BY <1>1, <3>1, UsageStays
  <2>2. CASE s = t
    <3>1. /\ used' = used
          /\ LimitsStated => Thousandths(usage'[t].requests) <= Thousandths(usage'[t].limits)
      BY <1>7, <2>2 DEF PodsChange, TypeOK
    <3> QED BY <1>1, <3>1 DEF UsageOf, Thousandths
  <2> QED BY <2>1, <2>2
<1>8. ASSUME NEW s \in Namespaces, Recount(s)
      PROVE  UsageOf(t)'
  <2>1. CASE s # t
    <3>1. used'[t] = used[t] /\ usage' = usage
      BY <1>8, <2>1 DEF Recount, TypeOK
    <3> QED BY <1>1, <3>1, UsageStays
  <2>2. CASE s = t
    <3>1. /\ usage' = usage
          /\ used'[t] = [k \in Keys |->
               CASE quota[t][k] = Absent -> Absent
                 [] quota[t][k] # Absent /\ k = "limits" -> usage[t].limits
                 [] OTHER -> usage[t].requests]
      BY <1>8, <2>2 DEF Recount, TypeOK
    <3>2. ASSUME LimitsStated, used'[t]["limits"] # Absent
          PROVE  \A k \in Keys : Thousandths(used'[t][k]) <= Thousandths(used'[t]["limits"])
      <4>1. used'[t]["limits"] = usage[t].limits
        BY <1>3, <3>1, <3>2
      <4>2. \A k \in Keys : used'[t][k] \in {Absent, usage[t].limits, usage[t].requests}
        BY <3>1
      <4>3. /\ Thousandths(usage[t].limits) \in Nat
            /\ Thousandths(usage[t].requests) \in Nat
        BY AmountsOf, ThousandthsType
      <4>4. Thousandths(usage[t].requests) <= Thousandths(usage[t].limits)
        BY <1>1, <3>2 DEF UsageOf
      <4>5. \A q \in {Absent, usage[t].limits, usage[t].requests} :
              Thousandths(q) <= Thousandths(usage[t].limits)
        BY <1>2, <4>3, <4>4
      <4> QED BY <4>1, <4>2, <4>5
    <3>3. \A k \in {"requests", "plain"} : used'[t][k] \in {Absent, usage[t].requests}
      BY <1>3, <3>1
    <3> QED BY <1>1, <3>1, <3>2, <3>3 DEF UsageOf, Thousandths
  <2> QED BY <2>1, <2>2
<1>9. CASE \/ AskCluster \/ AskProject \/ AskApps \/ CallFails \/ Respond
           \/ ListNodes \/ CountNodes \/ ListQuotas \/ ReadQuota
           \/ \E a \in Apps : ReadApp(a) \/ ReadFails(a) \/ AppChanges(a) \/ AppGone(a)
           \/ \E n \in Nodes : NodeChanges(n) \/ NodeGone(n)
           \/ \E s \in Namespaces : QuotaMade(s) \/ QuotaChanges(s)
           \/ UNCHANGED vars
  BY <1>5, <1>9 DEF AskCluster, AskProject, AskApps, Ask, CallFails, Respond, ListNodes,
                    CountNodes, ListQuotas, ReadQuota, ReadApp, ReadFails, AppChanges, AppGone,
                    NodeChanges, NodeGone, QuotaMade, QuotaChanges, vars, objects
<1> QED BY <1>6, <1>7, <1>8, <1>9 DEF Next

LEMMA UsageInvariance == Spec => [](TypeInv /\ UsageInv)
<1>1. Init => UsageInv
  <2>1. \A q \in {Zero, Absent} : Thousandths(q) \in Nat
    BY ThousandthsType DEF Zero, Quantities
  <2> QED BY <2>1 DEF Init, UsageInv, Keys
<1>2. TypeInv /\ UsageInv /\ [Next]_vars => UsageInv'
  BY NextUsage
<1> QED BY <1>1, <1>2, TypeInvariance, PTL DEF Spec

\* The figures of a namespace whose keys are counted, whose limits are not zero and whose
\* usage is not taken for nothing are explained by one key.
LEMMA OneKeyExplains ==
  ASSUME TypeInv, UsageInv, LimitsStated, NEW s \in Namespaces, quota[s] # Absent, Counted(s),
         \A k \in Keys :
           /\ quota[s][k] # Absent => Parsed(quota[s][k]) # 0
           /\ Thousandths(used[s][k]) > 0 => Parsed(used[s][k]) # 0
  PROVE  \E k \in Keys : First(quota[s]) = Parsed(quota[s][k]) /\ Used(used[s]) = Parsed(used[s][k])
<1> USE DEF TypeInv
<1> DEFINE Q(k) == Parsed(quota[s][k])
           U(k) == Parsed(used[s][k])
           T(k) == Thousandths(used[s][k])
<1>1. UsageOf(s)
  BY UsageOfAll
<1>2. \A k \in Keys : U(k) \in Nat /\ T(k) \in Nat /\ Q(k) \in Nat
  BY AmountsOf, ParsedType, ThousandthsType
<1>3. \A k \in Keys : Q(k) = 0 <=> used[s][k] = Absent
  <2>1. Parsed(Absent) = 0
    BY DEF Parsed
  <2> QED BY <2>1 DEF Counted
<1>4. \A k \in Keys : /\ U(k) = 0 <=> T(k) = 0
                      /\ used[s][k] = Absent => U(k) = 0
  <2> TAKE k \in Keys
  <2>1. T(k) = 0 => U(k) = 0
    BY AmountsOf, ParsedOfNothing
  <2>2. T(k) # 0 => T(k) > 0
    BY <1>2
  <2>3. Parsed(Absent) = 0
    BY DEF Parsed
  <2> QED BY <2>1, <2>2, <2>3
<1>5. {"limits", "requests", "plain"} \subseteq Keys
  BY DEF Keys
<1>6. /\ First(quota[s]) = IF resource # "storage" /\ Q("limits") # 0 THEN Q("limits")
                           ELSE IF Q("requests") # 0 THEN Q("requests") ELSE Q("plain")
      /\ Used(used[s]) = IF resource # "storage" /\ U("limits") # 0 THEN U("limits")
                         ELSE IF U("requests") # 0 THEN U("requests") ELSE U("plain")
  BY DEF First, Used
<1>7. used[s]["limits"] # Absent => \A k \in Keys : T(k) <= T("limits")
  BY <1>1 DEF UsageOf
<1>8. (used[s]["requests"] # Absent /\ used[s]["plain"] # Absent) => U("requests") = U("plain")
  BY <1>1 DEF UsageOf
<1> SUFFICES \E k \in Keys : First(quota[s]) = Q(k) /\ Used(used[s]) = U(k)
  OBVIOUS
<1> HIDE DEF Q, U, T
<1>9. CASE resource # "storage" /\ Q("limits") # 0
  \* No other key counts more than the limits.
  <2>1. CASE U("limits") # 0
    BY <1>5, <1>6, <1>9, <2>1
  <2>2. CASE U("limits") = 0
    <3>1. T("limits") = 0 /\ used[s]["limits"] # Absent
      BY <1>3, <1>4, <1>5, <1>9, <2>2
    <3>2. \A k \in Keys : T(k) = 0
      BY <1>2, <1>5, <1>7, <3>1
    <3>3. \A k \in Keys : U(k) = 0
      BY <1>4, <3>2
    <3> QED BY <1>5, <1>6, <1>9, <3>3
  <2> QED BY <2>1, <2>2
<1>10. CASE ~ (resource # "storage" /\ Q("limits") # 0) /\ Q("requests") # 0
  \* Limits are not counted, and the bare name counts what the requests do.
  <2>1. resource = "storage" \/ U("limits") = 0
    BY <1>3, <1>4, <1>5, <1>10
  <2>2. U("requests") = 0 => U("plain") = 0
    BY <1>3, <1>4, <1>5, <1>8, <1>10
  <2>3. Used(used[s]) = U("requests")
    BY <1>6, <2>1, <2>2
  <2>4. First(quota[s]) = Q("requests")
    BY <1>6, <1>10
  <2> QED BY <1>5, <2>3, <2>4
<1>11. CASE ~ (resource # "storage" /\ Q("limits") # 0) /\ Q("requests") = 0
  <2>1. resource = "storage" \/ U("limits") = 0
    BY <1>3, <1>4, <1>5, <1>11
  <2>2. U("requests") = 0
    BY <1>3, <1>4, <1>5, <1>11
  <2>3. Used(used[s]) = U("plain")
    BY <1>6, <2>1, <2>2
  <2>4. First(quota[s]) = Q("plain")
    BY <1>6, <1>11
  <2> QED BY <1>5, <2>3, <2>4
<1> QED BY <1>9, <1>10, <1>11

\* Where pods state limits, a project's usage is compared with a limit of the same kind,
\* whatever keys its quota has, once they have been counted, and however far the count
\* lags behind the amounts.
THEOREM UsageMeetsLimits ==
  ASSUME LimitsStated
  PROVE  Spec => UsageMeetsItsLimit
<1>1. ASSUME TypeInv, UsageInv, [Next]_vars, Answers("project"), answer'.limit # 0,
             Counted(Project),
             \A k \in Keys :
               /\ quota[Project][k] # Absent => Parsed(quota[Project][k]) # 0
               /\ Thousandths(used[Project][k]) > 0 => Parsed(used[Project][k]) # 0
      PROVE  \E k \in Keys : /\ quota[Project][k] # Absent
                             /\ answer'.limit = Parsed(quota[Project][k])
                             /\ answer'.used = Parsed(used[Project][k])
  <2>1. ReadQuota
    BY <1>1, AnswersCome
  <2>2. quota[Project] # Absent
    BY <1>1, <2>1 DEF ReadQuota
  <2>3. answer' = [limit |-> First(quota[Project]), used |-> Used(used[Project])]
    BY <2>1, <2>2 DEF ReadQuota
  <2>4. PICK k \in Keys : /\ First(quota[Project]) = Parsed(quota[Project][k])
                          /\ Used(used[Project]) = Parsed(used[Project][k])
    BY <1>1, <2>2, OneKeyExplains, ProjectAssumption
  <2>5. Parsed(Absent) = 0
    BY DEF Parsed
  <2> QED BY <1>1, <2>3, <2>4, <2>5
<1>2. TypeInv /\ UsageInv /\ [Next]_vars =>
        ((/\ Answers("project") /\ answer'.limit # 0 /\ Counted(Project)
          /\ \A k \in Keys :
               /\ quota[Project][k] # Absent => Parsed(quota[Project][k]) # 0
               /\ Thousandths(used[Project][k]) > 0 => Parsed(used[Project][k]) # 0) =>
         \E k \in Keys : /\ quota[Project][k] # Absent
                         /\ answer'.limit = Parsed(quota[Project][k])
                         /\ answer'.used = Parsed(used[Project][k]))
  BY <1>1
<1> QED BY <1>2, UsageInvariance, PTL DEF Spec, UsageMeetsItsLimit

-----------------------------------------------------------------------------
(* Apps: the report. *)

LEMMA ReportedType ==
  ASSUME TypeInv, ReportInv, pc \in {"idle", "apps"}
  PROVE  /\ Reported \in [DOMAIN Reported -> Metrics]
         /\ DOMAIN Reported \subseteq seen /\ seen \subseteq Apps
<1>1. CASE pc = "apps"
  BY <1>1 DEF ReportInv, TypeInv, TypeOK
<1>2. CASE pc = "idle"
  <2>1. DOMAIN Reported = {}
    BY <1>2 DEF TypeInv, QueryInv, Reported
  <2>2. Reported = << >>
    BY <1>2 DEF TypeInv, QueryInv, Reported
  <2> QED BY <2>1, <2>2 DEF TypeInv, TypeOK
<1> QED BY <1>1, <1>2

LEMMA MetricType ==
  ASSUME TypeOK, NEW a \in Apps, app[a] # Absent
  PROVE  MetricOf(app[a]) \in Metrics
<1>1. app[a] \in AppSpecs
  BY DEF TypeOK
<1>2. /\ Parsed(app[a].limits) \in Nat /\ Parsed(app[a].requests) \in Nat
      /\ app[a].pods.replicas \in Nat /\ app[a].pods.ready \in Nat
  BY <1>1, ResourceType, SizedIsQuantity, ParsedType, ShapesAssumption DEF AppSpecs
<1>3. AtLeastOne(app[a].pods.replicas) \in Nat
  BY <1>2 DEF AtLeastOne
<1> QED BY <1>2, <1>3, ProductType DEF MetricOf, Metrics

\* A report is no absent one.
LEMMA ReportPresent ==
  ASSUME NEW known \in SUBSET Apps, NEW f \in [known -> Metrics]
  PROVE  f # Absent
BY AbsentAssumption

\* What a read does to the report: the app that was read is in it if it was there.
LEMMA ReadReports ==
  ASSUME TypeInv, ReportInv, NEW a \in Apps, ReadApp(a) \/ ReadFails(a)
  PROVE  /\ pc = "apps" /\ a \in pending /\ pending' = pending \ {a}
         /\ answer' # Absent /\ answer' \in [DOMAIN answer' -> Metrics]
         /\ DOMAIN answer' \subseteq seen /\ seen' = seen
         /\ app' = app /\ resource' = resource
         /\ \A b \in steady' : /\ b \in steady /\ app[b] # Absent
                               /\ b \notin pending' => /\ b \in DOMAIN answer'
                                                       /\ answer'[b] = MetricOf(app[b])
<1> USE DEF TypeInv
<1>1. /\ pc = "apps" /\ a \in pending /\ pending' = pending \ {a}
      /\ seen' = seen /\ app' = app /\ resource' = resource
  BY DEF ReadApp, ReadFails, Collect, objects, histories, followed
<1>2. /\ Reported \in [DOMAIN Reported -> Metrics]
      /\ DOMAIN Reported \subseteq seen /\ seen \subseteq Apps
  BY <1>1, ReportedType
<1>3. \A b \in steady : /\ app[b] # Absent
                        /\ b \notin pending => /\ b \in DOMAIN Reported
                                               /\ Reported[b] = MetricOf(app[b])
  BY <1>1 DEF ReportInv
<1>4. CASE ReadApp(a) /\ app[a] # Absent
  <2>1. answer' = Reporting(a) /\ steady' = steady
    BY <1>4 DEF ReadApp, histories
  <2>2. DOMAIN answer' = DOMAIN Reported \cup {a}
    BY <2>1 DEF Reporting
  <2>3. \A b \in DOMAIN answer' :
          answer'[b] = IF b = a THEN MetricOf(app[a]) ELSE Reported[b]
    BY <2>1 DEF Reporting
  <2>4. answer' \in [DOMAIN answer' -> Metrics]
    <3>1. MetricOf(app[a]) \in Metrics
      BY <1>4, MetricType
    <3>2. Reporting(a) \in [DOMAIN Reported \cup {a} -> Metrics]
      BY <1>2, <3>1 DEF Reporting
    <3> QED BY <2>1, <2>2, <3>2
  <2>5. a \in seen
    BY <1>1, <1>4 DEF ReportInv
  <2>6. answer' # Absent
    <3>1. DOMAIN answer' \in SUBSET Apps
      BY <1>2, <2>2
    <3> QED BY <2>4, <3>1, ReportPresent
  <2> QED BY <1>1, <1>2, <1>3, <2>1, <2>2, <2>3, <2>4, <2>5, <2>6
<1>5. CASE ReadFails(a) \/ app[a] = Absent
  <2>1. answer' = Reported /\ steady' \subseteq steady /\ a \notin steady'
    BY <1>3, <1>5 DEF ReadApp, ReadFails, histories
  <2>2. answer' # Absent
    <3>1. DOMAIN answer' \in SUBSET Apps /\ answer' \in [DOMAIN answer' -> Metrics]
      BY <1>2, <2>1
    <3> QED BY <3>1, ReportPresent
  <2> QED BY <1>1, <1>2, <1>3, <2>1, <2>2
<1> QED BY <1>4, <1>5

LEMMA NextReport ==
  ASSUME TypeInv, ReportInv, [Next]_vars
  PROVE  ReportInv'
<1>1. resource' = resource /\ view' = view
  BY NextFollowed
<1>2. ASSUME NEW a \in Apps, ReadApp(a) \/ ReadFails(a)
      PROVE  ReportInv'
  <2>1. Reported' = answer'
    BY <1>2, ReadReports DEF Reported
  <2>2. \A b \in Apps : MetricOf(app[b])' = MetricOf(app[b])
    BY <1>1, <1>2, ReadReports DEF MetricOf, Parsed
  <2>3. steady \subseteq Apps /\ steady' \subseteq steady
    BY <1>2, ReadReports DEF TypeInv, TypeOK
  <2>4. \A b \in pending : app[b] # Absent => b \in seen
    BY <1>2, ReadReports DEF ReportInv
  <2>5. /\ pending' \subseteq pending /\ seen' = seen /\ app' = app
        /\ answer' \in [DOMAIN answer' -> Metrics] /\ DOMAIN answer' \subseteq seen
        /\ \A b \in steady' : /\ app[b] # Absent
                              /\ b \notin pending' => /\ b \in DOMAIN answer'
                                                      /\ answer'[b] = MetricOf(app[b])
    BY <1>2, ReadReports
  <2> QED BY <2>1, <2>2, <2>3, <2>4, <2>5 DEF ReportInv
<1>3. CASE AskApps
  <2>1. PICK asked \in SUBSET Apps : /\ pc = "idle" /\ pending' = asked
                                   /\ steady' = asked \cap Present /\ seen' = asked \cap Present
                                   /\ answer' = answer /\ app' = app
    BY <1>3 DEF AskApps, Ask, objects
  <2>2. Reported' = << >> /\ DOMAIN Reported' = {}
    BY <2>1 DEF Reported, TypeInv, QueryInv
  <2>3. Reported' \in [DOMAIN Reported' -> Metrics]
    BY <2>2
  <2>4. \A a \in pending' : app'[a] # Absent => a \in seen'
    BY <2>1 DEF Present
  <2>5. \A a \in steady' : a \in pending' /\ app'[a] # Absent
    BY <2>1 DEF Present
  <2> QED BY <2>2, <2>3, <2>4, <2>5 DEF ReportInv
<1>4. ASSUME NEW a \in Apps, AppChanges(a) \/ AppGone(a)
      PROVE  ReportInv'
  <2>1. /\ pc' = pc /\ pending' = pending /\ answer' = answer
        /\ steady' = steady \ {a} /\ seen \subseteq seen'
        /\ \A b \in Apps \ {a} : app'[b] = app[b]
        /\ a \in pending /\ app'[a] # Absent => a \in seen'
    BY <1>4 DEF AppChanges, AppGone, query, TypeInv, TypeOK
  <2>2. Reported' = Reported
    BY <2>1 DEF Reported
  <2>3. \A b \in Apps \ {a} : MetricOf(app[b])' = MetricOf(app[b])
    BY <1>1, <2>1 DEF MetricOf, Parsed
  <2>4. steady \subseteq Apps /\ pending \subseteq Apps
    BY DEF TypeInv, TypeOK
  <2> QED BY <2>1, <2>2, <2>3, <2>4 DEF ReportInv
<1>5. CASE \/ AskCluster \/ AskProject \/ CallFails \/ Respond
           \/ ListNodes \/ CountNodes \/ ListQuotas \/ ReadQuota
  <2>1. pc' # "apps"
    BY <1>5 DEF AskCluster, AskProject, Ask, CallFails, Respond, ListNodes, CountNodes, ListQuotas,
                ReadQuota
  <2> QED BY <2>1 DEF ReportInv
<1>6. CASE \/ \E n \in Nodes : NodeChanges(n) \/ NodeGone(n)
           \/ \E s \in Namespaces : \/ QuotaMade(s) \/ QuotaChanges(s) \/ QuotaGone(s)
                                    \/ PodsChange(s) \/ Recount(s)
  \* These are followed for a query of another view.
  <2>1. app' = app /\ UNCHANGED query /\ steady' = steady /\ seen' = seen
    BY <1>6 DEF NodeChanges, NodeGone, QuotaMade, QuotaChanges, QuotaGone, PodsChange, Recount, Disturbs
  <2>2. \A a : MetricOf(app[a])' = MetricOf(app[a])
    BY <1>1, <2>1 DEF MetricOf, Parsed
  <2> QED BY <2>1, <2>2 DEF ReportInv, Reported, query
<1>7. CASE UNCHANGED vars
  <2>1. \A a : MetricOf(app[a])' = MetricOf(app[a])
    BY <1>1, <1>7 DEF MetricOf, Parsed, vars, objects
  <2> QED BY <1>7, <2>1 DEF ReportInv, Reported, vars, objects, query, histories
<1> QED BY <1>2, <1>3, <1>4, <1>5, <1>6, <1>7 DEF Next

LEMMA ReportInvariance == Spec => [](TypeInv /\ ReportInv)
<1>1. Init => ReportInv
  BY DEF Init, ReportInv
<1>2. TypeInv /\ ReportInv /\ [Next]_vars => ReportInv'
  BY NextReport
<1> QED BY <1>1, <1>2, TypeInvariance, PTL DEF Spec

\* However many apps are read side by side, and whichever of the reads fail, an app
\* that is there all the time is reported with its figures, and none that never was.
THEOREM AppsAreReported == Spec => AppsReported
<1>1. ASSUME TypeInv, ReportInv, [Next]_vars, Answers("apps")
      PROVE  /\ DOMAIN answer' \subseteq seen
             /\ \A a \in steady' :
                  /\ a \in DOMAIN answer'
                  /\ app[a].pods.replicas # 0 =>
                       answer'[a] = [limit |-> Parsed(app[a].limits) * app[a].pods.replicas,
                                     used |-> Parsed(app[a].requests) * app[a].pods.ready]
  <2>1. PICK a \in Apps : ReadApp(a) \/ ReadFails(a)
    BY <1>1, AnswersCome
  <2>2. pending' = {}
    BY <1>1, <2>1 DEF Answers, Ended, ReadApp, ReadFails, Collect
  <2>3. /\ DOMAIN answer' \subseteq seen
        /\ \A b \in steady' : b \in DOMAIN answer' /\ answer'[b] = MetricOf(app[b])
    BY <1>1, <2>1, <2>2, ReadReports
  <2> QED BY <2>3 DEF MetricOf, AtLeastOne
<1>2. TypeInv /\ ReportInv /\ [Next]_vars =>
        (Answers("apps") =>
         /\ DOMAIN answer' \subseteq seen
         /\ \A a \in steady' :
              /\ a \in DOMAIN answer'
              /\ app[a].pods.replicas # 0 =>
                   answer'[a] = [limit |-> Parsed(app[a].limits) * app[a].pods.replicas,
                                 used |-> Parsed(app[a].requests) * app[a].pods.ready])
  BY <1>1
<1> QED BY <1>2, ReportInvariance, PTL DEF Spec, AppsReported
=============================================================================

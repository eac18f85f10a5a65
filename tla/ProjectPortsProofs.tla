------------------------- MODULE ProjectPortsProofs -------------------------
(***************************************************************************)
(* Theorems about ProjectPorts, for any number of Services, concurrent     *)
(* requests, failures and crashes, whatever clients overlap.               *)
(***************************************************************************)
EXTENDS ProjectPorts, TLAPS

TypeInv == TypeOK /\ \A r \in Requests : WellFormed(r)

\* The request r takes a step: it ends or goes on with its job, and no other
\* request is touched.
Moves(r) ==
  /\ pc' = [pc EXCEPT ![r] = pc'[r]]
  /\ job' = [job EXCEPT ![r] = job'[r]]
  /\ want' = [want EXCEPT ![r] = want'[r]]
  /\ base' = [base EXCEPT ![r] = base'[r]]
  /\ \/ /\ pc'[r] = "idle" /\ job'[r] = NoJob
        /\ want'[r] = NoService /\ base'[r] = NoService
     \/ Active(r)' /\ job'[r] = job[r]

-----------------------------------------------------------------------------
(* Type correctness. *)

LEMMA InitTypeInv == Init => TypeInv
BY FaultsAssumption DEF Init, TypeInv, TypeOK, WellFormed, Active

LEMMA JobFields ==
  ASSUME NEW j \in Jobs
  PROVE  /\ j.op \in {"open", "update", "close"} /\ j.service \in Services
         /\ j.op = "open" => j.type \in Types
         /\ j.op = "update" => j.type \in Types \cup {Keep}
BY DEF Jobs, OpenJobs, UpdateJobs, CloseJobs

LEMMA EndTyped ==
  ASSUME TypeOK, NEW q \in SUBSET Requests, End(q)
  PROVE  /\ pc' \in [Requests -> Steps \cup {"idle"}]
         /\ job' \in [Requests -> Jobs \cup {NoJob}]
         /\ want' \in [Requests -> Objects \cup {NoService}]
         /\ base' \in [Requests -> Objects \cup {NoService}]
         /\ \A r \in q : pc'[r] = "idle"
         /\ \A r \in Requests \ q :
              /\ pc'[r] = pc[r] /\ job'[r] = job[r]
              /\ want'[r] = want[r] /\ base'[r] = base[r]
BY DEF End, TypeOK

LEMMA EndMoves ==
  ASSUME TypeOK, NEW r \in Requests, End({r})
  PROVE  Moves(r) /\ pc'[r] = "idle"
BY DEF End, TypeOK, Moves

LEMMA OpenedTyped ==
  ASSUME NEW j \in Jobs, j.op = "open"
  PROVE  /\ Opened(j) \in Objects
         /\ Opened(j).type = "LoadBalancer" => Opened(j).host # "none"
BY JobFields DEF Opened, Objects, Hosts, Types

LEMMA UpdatedTyped ==
  ASSUME NEW j \in Jobs, j.op = "update", NEW o \in Objects,
         o.type = "LoadBalancer" => o.host # "none"
  PROVE  /\ Updated(o, j) \in Objects
         /\ Updated(o, j).type = "LoadBalancer" => Updated(o, j).host # "none"
BY JobFields DEF Updated, Objects, Hosts, Types

LEMMA ReplacementTyped ==
  ASSUME NEW r \in Requests, want[r] \in Objects, base[r] \in Objects
  PROVE  /\ Replacement(r) \in Objects
         /\ Replacement(r).type = want[r].type
         /\ want[r].host # "none" => Replacement(r).host = want[r].host
         /\ base[r].host # "none" => Replacement(r).host # "none"
BY DEF Replacement, Objects, Hosts, Types

LEMMA MovesTyped ==
  ASSUME TypeInv, NEW r \in Requests, Moves(r), WellFormed(r)',
         pc'[r] \in Steps \cup {"idle"}, job'[r] \in Jobs \cup {NoJob},
         want'[r] \in Objects \cup {NoService}, base'[r] \in Objects \cup {NoService},
         service' \in [Services -> Objects \cup {NoService}],
         current' \subseteq Requests, faults' \in 0..MaxFaults,
         promised' \subseteq Services
  PROVE  TypeInv'
<1>1. \A q \in Requests \ {r} :
        pc'[q] = pc[q] /\ job'[q] = job[q] /\ want'[q] = want[q] /\ base'[q] = base[q]
  BY DEF Moves, TypeInv, TypeOK
<1>2. \A q \in Requests : WellFormed(q)'
  BY <1>1 DEF TypeInv, WellFormed, Active
<1> QED BY <1>2 DEF TypeInv, TypeOK, Moves

\* What a step of a request does to itself.
LEMMA StepMoves ==
  ASSUME TypeInv, NEW r \in Requests, Step(r)
  PROVE  /\ Active(r) /\ Moves(r) /\ WellFormed(r)'
         /\ pc'[r] \in Steps \cup {"idle"}
         /\ want'[r] \in Objects \cup {NoService}
         /\ base'[r] \in Objects \cup {NoService}
         /\ faults' \in 0..MaxFaults
<1> USE DEF TypeInv
<1>0. /\ Active(r) /\ WellFormed(r) /\ job[r] \in Jobs
      /\ job[r].service \in Services
      /\ pc[r] \in Steps /\ "idle" \notin Steps
  BY JobFields DEF Step, SaveStep, Find, SaveRead, UpdateRead, Put, CreateRead,
     Post, Reread, CloseRead, Delete, Active, WellFormed, Steps, SaveSteps, TypeOK
<1>1. ASSUME End({r}), faults' = faults \/ (faults' = faults + 1 /\ faults < MaxFaults)
      PROVE  /\ Moves(r) /\ WellFormed(r)' /\ pc'[r] = "idle"
             /\ want'[r] \in Objects \cup {NoService}
             /\ base'[r] \in Objects \cup {NoService}
             /\ faults' \in 0..MaxFaults
  <2>1. Moves(r) /\ pc'[r] = "idle"
    BY <1>1, EndMoves
  <2>2. faults' \in 0..MaxFaults
    BY <1>1, FaultsAssumption DEF TypeOK
  <2> QED BY <1>0, <2>1, <2>2 DEF Moves, WellFormed, Active
<1>2. ASSUME Answer(r) \/ Fails(r) \/ Dropped({r}) \/ Effective(r)
      PROVE  End({r}) /\ (faults' = faults \/ (faults' = faults + 1 /\ faults < MaxFaults))
  BY <1>2 DEF Answer, Fails, Dropped, Effective
<1>3. ASSUME NEW s \in Steps, Goes(r, s),
             want' = [want EXCEPT ![r] = want'[r]],
             base' = [base EXCEPT ![r] = base'[r]],
             want'[r] \in Objects \cup {NoService},
             base'[r] \in Objects \cup {NoService},
             s \in SaveSteps => job[r].op # "close" /\ want'[r] \in Objects,
             s \in {"close_read", "delete"} => job[r].op = "close",
             s = "find" => job[r].op # "close",
             s = "put" => base'[r] \in Objects
      PROVE  Moves(r) /\ WellFormed(r)' /\ pc'[r] \in Steps /\ faults' \in 0..MaxFaults
  BY <1>0, <1>3 DEF Goes, Moves, WellFormed, Active, TypeOK
<1>4. CASE Find(r)
  <2>1. CASE Fails(r)
    BY <1>0, <1>1, <1>2, <2>1
  <2>2. CASE ~Fails(r)
    <3>1. /\ Goes(r, "save_read") /\ UNCHANGED base
          /\ want' = [want EXCEPT ![r] = IF job[r].op = "open" THEN Opened(job[r])
                                         ELSE Updated(service[job[r].service], job[r])]
          /\ job[r].op # "open" => service[job[r].service] # NoService
      BY <1>4, <2>2 DEF Find, Exists
    <3>2. job[r].op \in {"open", "update"}
      BY <1>0, <1>4, JobFields DEF Find, WellFormed
    <3>3. want'[r] \in Objects
      <4>1. CASE job[r].op = "open"
        BY <1>0, <3>1, <4>1, OpenedTyped DEF TypeOK
      <4>2. CASE job[r].op = "update"
        <5>1. service[job[r].service] \in Objects
          BY <1>0, <3>1, <4>2 DEF TypeOK
        <5>2. Updated(service[job[r].service], job[r]) \in Objects
          BY <1>0, <4>2, <5>1, JobFields DEF Updated, Objects, Hosts, Types
        <5> QED BY <3>1, <4>2, <5>2 DEF TypeOK
      <4> QED BY <3>2, <4>1, <4>2
    <3>4. base'[r] \in Objects \cup {NoService} /\ base' = [base EXCEPT ![r] = base'[r]]
      BY <3>1 DEF TypeOK
    <3>5. want' = [want EXCEPT ![r] = want'[r]]
      BY <3>1 DEF TypeOK
    <3> HIDE DEF TypeInv
    <3>6. "save_read" \in Steps
      BY DEF Steps, SaveSteps
    <3> QED BY <1>0, <1>3, <3>1, <3>2, <3>3, <3>4, <3>5, <3>6
  <2> QED BY <2>1, <2>2
<1>5. ASSUME Keeps
      PROVE  /\ want' = [want EXCEPT ![r] = want'[r]] /\ base' = [base EXCEPT ![r] = base'[r]]
             /\ want'[r] = want[r] /\ base'[r] = base[r]
             /\ want'[r] \in Objects \cup {NoService}
             /\ base'[r] \in Objects \cup {NoService}
  BY <1>5 DEF Keeps, TypeOK
<1>6. pc[r] \in SaveSteps => job[r].op # "close" /\ want[r] \in Objects
  BY <1>0 DEF WellFormed
<1>7. {"update_read", "create_read", "put", "post", "reread"} \subseteq SaveSteps
  BY DEF SaveSteps
<1>8. SaveSteps \subseteq Steps /\ "delete" \in Steps /\ "delete" \notin SaveSteps
  BY DEF SaveSteps, Steps
<1>9. CASE SaveRead(r)
  BY <1>0, <1>3, <1>5, <1>6, <1>7, <1>8, <1>9 DEF SaveRead, SaveSteps
<1>10. CASE UpdateRead(r)
  <2>1. CASE Exists(r)
    <3>1. /\ Goes(r, "put") /\ UNCHANGED want
          /\ base' = [base EXCEPT ![r] = service[job[r].service]]
      BY <1>10, <2>1 DEF UpdateRead
    <3>2. base'[r] = service[job[r].service] /\ base'[r] \in Objects
      BY <1>0, <2>1, <3>1 DEF Exists, TypeOK
    <3>3. pc[r] \in SaveSteps
      BY <1>10 DEF UpdateRead, SaveSteps
    <3>4. want' = [want EXCEPT ![r] = want'[r]] /\ want'[r] = want[r]
      BY <3>1 DEF TypeOK
    <3> QED BY <1>0, <1>3, <1>6, <1>7, <1>8, <3>1, <3>2, <3>3, <3>4
  <2>2. CASE ~Exists(r)
    BY <1>0, <1>1, <1>2, <1>10, <2>2 DEF UpdateRead
  <2> QED BY <2>1, <2>2
<1>11. CASE Put(r) \/ Reread(r) \/ Delete(r)
  BY <1>0, <1>1, <1>2, <1>11 DEF Put, Reread, Delete
<1>12. CASE CreateRead(r)
  BY <1>0, <1>1, <1>2, <1>3, <1>5, <1>6, <1>7, <1>8, <1>12 DEF CreateRead
<1>13. CASE Post(r)
  BY <1>0, <1>1, <1>2, <1>3, <1>5, <1>6, <1>7, <1>8, <1>13 DEF Post
<1>14. CASE CloseRead(r)
  BY <1>0, <1>1, <1>2, <1>3, <1>5, <1>7, <1>8, <1>14 DEF CloseRead, WellFormed
<1> QED BY <1>4, <1>9, <1>10, <1>11, <1>12, <1>13, <1>14 DEF Step, SaveStep

\* What a step does to its Service, to the versions and to the promises.
LEMMA StepWrites ==
  ASSUME TypeInv, NEW r \in Requests, Step(r)
  PROVE  LET s == job[r].service IN
    /\ \/ /\ UNCHANGED service
          /\ ~(r \in current /\ pc[r] = "put")
          /\ \/ UNCHANGED current
             \/ /\ current' = current \cup {r}
                /\ pc'[r] = "put" /\ base'[r] = service[s] /\ service[s] # NoService
       \/ /\ job[r].op = "close"
          /\ service' = [service EXCEPT ![s] = NoService]
          /\ current' = current \ On(s)
       \/ \E o \in Objects :
            /\ job[r].op # "close" /\ pc[r] \in SaveSteps
            /\ service' = [service EXCEPT ![s] = o]
            /\ current' = current \ On(s)
            /\ o.type = want[r].type
            /\ want[r].host # "none" => o.host # "none"
            /\ \/ service[s] = NoService
               \/ pc[r] = "put" /\ r \in current /\ (base[r].host # "none" => o.host # "none")
    /\ \/ UNCHANGED promised
       \/ /\ promised' = promised \cup {s}
          /\ job[r].op = "open" /\ ~Closing(s) /\ service'[s] # NoService
<1> DEFINE s == job[r].service
<1> USE DEF TypeInv
<1>1. /\ Active(r) /\ WellFormed(r) /\ s \in Services
      /\ r \in On(s)
  BY StepMoves, JobFields DEF WellFormed, On
<1>2. ASSUME Answer(r)
      PROVE  UNCHANGED promised \/ (promised' = promised \cup {s} /\ job[r].op = "open"
                                      /\ ~Closing(s))
  BY <1>2 DEF Answer
<1>3. ASSUME Effective(r)
      PROVE  UNCHANGED promised \/ (promised' = promised \cup {s} /\ job[r].op = "open"
                                      /\ ~Closing(s))
  BY <1>2, <1>3 DEF Effective, Dropped
<1>4. ASSUME NEW o \in Objects \cup {NoService}, Write(r, o)
      PROVE  /\ service' = [service EXCEPT ![s] = o] /\ service'[s] = o
             /\ current' = current \ On(s)
  BY <1>1, <1>4 DEF Write, TypeOK
<1>5. ASSUME Find(r) \/ SaveRead(r)
      PROVE  UNCHANGED <<service, current, promised>> /\ pc[r] # "put"
  BY <1>5 DEF Find, SaveRead, Fails, Goes
<1>6. CASE UpdateRead(r)
  <2>1. UNCHANGED <<service, promised>> /\ pc[r] # "put"
    BY <1>6 DEF UpdateRead, Fails, Goes
  <2>2. CASE Exists(r)
    BY <1>6, <2>1, <2>2 DEF UpdateRead, Goes, Exists, TypeOK
  <2>3. CASE ~Exists(r)
    BY <1>6, <2>1, <2>3 DEF UpdateRead
  <2> QED BY <2>2, <2>3
<1>7. CASE Put(r)
  <2>1. CASE r \in current
    <3>1. /\ pc[r] = "put" /\ pc[r] \in SaveSteps
          /\ Effective(r) /\ Write(r, Replacement(r))
      BY <1>7, <2>1 DEF Put, SaveSteps
    <3>2. /\ Replacement(r) \in Objects
          /\ Replacement(r).type = want[r].type
          /\ want[r].host # "none" => Replacement(r).host # "none"
          /\ base[r].host # "none" => Replacement(r).host # "none"
      BY <1>1, <3>1, ReplacementTyped DEF WellFormed
    <3>3. Replacement(r) # NoService /\ job[r].op # "close"
      BY <1>1, <3>1, <3>2, AbsentAssumption DEF WellFormed
    <3> HIDE DEF TypeInv
    <3> QED BY <1>3, <1>4, <2>1, <3>1, <3>2, <3>3
  <2>2. CASE r \notin current
    BY <1>7, <2>2 DEF Put, Fails
  <2> QED BY <2>1, <2>2
<1>8. CASE CreateRead(r)
  <2>1. UNCHANGED <<service, current>> /\ pc[r] # "put"
    BY <1>8 DEF CreateRead
  <2>2. CASE Exists(r)
    BY <1>2, <1>8, <2>1, <2>2 DEF CreateRead, Exists
  <2>3. CASE ~Exists(r)
    BY <1>8, <2>1, <2>3 DEF CreateRead, Goes
  <2> QED BY <2>2, <2>3
<1>9. CASE Post(r)
  <2> DEFINE o == [want[r] EXCEPT !.ports = (want[r].type # "ClusterIP")]
  <2>1. pc[r] = "post" /\ pc[r] \in SaveSteps /\ want[r] \in Objects /\ job[r].op # "close"
    BY <1>1, <1>9 DEF Post, SaveSteps, WellFormed
  <2>2. o \in Objects /\ o.type = want[r].type /\ o.host = want[r].host /\ o # NoService
    BY <2>1, AbsentAssumption DEF Objects
  <2>3. \/ UNCHANGED <<service, current>> /\ UNCHANGED promised
        \/ ~Exists(r) /\ Effective(r) /\ Write(r, o)
    BY <1>9 DEF Post, Goes, Fails
  <2> HIDE DEF o, TypeInv
  <2> QED BY <1>3, <1>4, <2>1, <2>2, <2>3 DEF Exists
<1>10. CASE Reread(r)
  <2>1. UNCHANGED <<service, current>> /\ pc[r] # "put"
    BY <1>10 DEF Reread
  <2>2. CASE Exists(r)
    BY <1>2, <1>10, <2>1, <2>2 DEF Reread, Exists
  <2>3. CASE ~Exists(r)
    BY <1>10, <2>1, <2>3 DEF Reread, Fails
  <2> QED BY <2>2, <2>3
<1>11. ASSUME CloseRead(r) \/ Delete(r)
       PROVE  pc[r] # "put" /\ job[r].op = "close"
  BY <1>1, <1>11 DEF CloseRead, Delete, WellFormed
<1>12. CASE CloseRead(r)
  BY <1>2, <1>11, <1>12 DEF CloseRead, Goes
<1>13. CASE Delete(r)
  BY <1>3, <1>4, <1>11, <1>13 DEF Delete
<1> QED BY <1>5, <1>6, <1>7, <1>8, <1>9, <1>10, <1>12, <1>13 DEF Step, SaveStep

LEMMA StepType ==
  ASSUME TypeInv, NEW r \in Requests, Step(r)
  PROVE  TypeInv'
<1>1. /\ service' \in [Services -> Objects \cup {NoService}]
      /\ current' \subseteq Requests /\ promised' \subseteq Services
  BY StepWrites, StepMoves, JobFields DEF TypeInv, TypeOK, WellFormed
<1>2. job'[r] \in Jobs \cup {NoJob}
  BY StepMoves DEF Moves, TypeInv, TypeOK
<1> QED BY <1>1, <1>2, StepMoves, MovesTyped

LEMMA ArriveType ==
  ASSUME TypeInv, NEW r \in Requests, NEW j \in Jobs, Arrive(r, j)
  PROVE  TypeInv'
<1>1. /\ pc' = [pc EXCEPT ![r] = IF j.op = "close" THEN "close_read" ELSE "find"]
      /\ job' = [job EXCEPT ![r] = j]
      /\ UNCHANGED <<service, want, base, current, faults>>
      /\ promised' \subseteq Services
  BY DEF Arrive, TypeInv, TypeOK
<1>2. TypeOK'
  BY <1>1 DEF TypeInv, TypeOK, Steps
<1>3. \A q \in Requests : WellFormed(q)'
  BY <1>1 DEF TypeInv, TypeOK, WellFormed, Active, SaveSteps
<1> QED BY <1>2, <1>3 DEF TypeInv

\* Requests that are dropped leave the Services as they are.
LEMMA DroppedFrame ==
  ASSUME TypeInv, NEW q \in SUBSET Requests, Dropped(q), Unwritten(q)
  PROVE  /\ UNCHANGED <<service, promised>> /\ current' = current \ q
         /\ \A r \in Requests :
              \/ pc'[r] = "idle"
              \/ /\ r \notin q /\ pc'[r] = pc[r] /\ job'[r] = job[r]
                 /\ want'[r] = want[r] /\ base'[r] = base[r]
         /\ TypeInv'
<1>1. End(q) /\ UNCHANGED <<service, promised>> /\ current' = current \ q
  BY DEF Dropped, Unwritten
<1>2. \A r \in Requests :
        \/ pc'[r] = "idle"
        \/ /\ r \notin q /\ pc'[r] = pc[r] /\ job'[r] = job[r]
           /\ want'[r] = want[r] /\ base'[r] = base[r]
  BY <1>1, EndTyped DEF TypeInv
<1>3. faults' \in 0..MaxFaults
  BY FaultsAssumption DEF Dropped, TypeInv, TypeOK
<1>4. TypeOK'
  BY <1>1, <1>3, EndTyped DEF TypeInv, TypeOK
<1>5. \A r \in Requests : WellFormed(r)'
  BY <1>2 DEF TypeInv, WellFormed, Active
<1> QED BY <1>1, <1>2, <1>4, <1>5 DEF TypeInv

LEMMA NextType == TypeInv /\ [Next]_vars => TypeInv'
<1> SUFFICES ASSUME TypeInv, [Next]_vars PROVE TypeInv'
  OBVIOUS
<1>1. ASSUME NEW r \in Requests, CallFails(r) PROVE TypeInv'
  BY <1>1, DroppedFrame DEF CallFails
<1>2. CASE Crash
  BY <1>2, DroppedFrame DEF Crash
<1>3. CASE UNCHANGED vars
  BY <1>3 DEF vars, TypeInv, TypeOK, WellFormed, Active
<1> QED BY <1>1, <1>2, <1>3, StepType, ArriveType DEF Next

THEOREM TypeInvariance == Spec => []TypeInv
BY InitTypeInv, NextType, PTL DEF Spec

\* Every reachable state of ProjectPorts is well typed.
THEOREM TypeCorrect == Spec => []TypeOK
<1>1. TypeInv => TypeOK
  BY DEF TypeInv
<1> QED BY <1>1, TypeInvariance, PTL

-----------------------------------------------------------------------------
(* Host names. *)

\* What a request is about to save after its step: what it was about to save
\* before, or what it made of the Service it found.
LEMMA StepWant ==
  ASSUME TypeInv, LoadBalancerHasHost, NEW r \in Requests, Step(r),
         pc'[r] \in SaveSteps
  PROVE  \/ pc[r] \in SaveSteps /\ want'[r] = want[r]
         \/ want'[r].type = "LoadBalancer" => want'[r].host # "none"
<1> USE DEF TypeInv
<1>0. pc'[r] # "idle" /\ Active(r) /\ WellFormed(r) /\ job[r] \in Jobs
      /\ job[r].service \in Services
  BY StepMoves, JobFields DEF SaveSteps, WellFormed
<1>1. ~End({r})
  BY <1>0, EndMoves
<1>2. CASE Find(r)
  <2>1. /\ want' = [want EXCEPT ![r] = IF job[r].op = "open" THEN Opened(job[r])
                                       ELSE Updated(service[job[r].service], job[r])]
        /\ job[r].op # "open" => service[job[r].service] # NoService
        /\ job[r].op # "close"
    BY <1>0, <1>1, <1>2 DEF Find, Fails, Exists, WellFormed
  <2>2. CASE job[r].op = "open"
    BY <1>0, <2>1, <2>2, OpenedTyped DEF TypeOK
  <2>3. CASE job[r].op = "update"
    <3>1. LET o == service[job[r].service] IN
            o \in Objects /\ (o.type = "LoadBalancer" => o.host # "none")
      BY <1>0, <2>1, <2>3 DEF TypeOK, LoadBalancerHasHost
    <3>2. want'[r] = Updated(service[job[r].service], job[r])
      BY <2>1, <2>3 DEF TypeOK
    <3> QED BY <1>0, <2>3, <3>1, <3>2, UpdatedTyped
  <2> QED BY <1>0, <2>1, <2>2, <2>3, JobFields
<1>3. CASE SaveStep(r)
  <2>1. pc[r] \in SaveSteps
    BY <1>3 DEF SaveStep, SaveRead, UpdateRead, Put, CreateRead, Post, Reread, SaveSteps
  <2>2. UNCHANGED want
    BY <1>1, <1>3 DEF SaveStep, SaveRead, UpdateRead, Put, CreateRead, Post,
       Reread, Keeps, Fails, Answer, Effective, Dropped
  <2> QED BY <2>1, <2>2
<1>4. CASE CloseRead(r) \/ Delete(r)
  BY <1>0, <1>1, <1>4 DEF CloseRead, Delete, Answer, Effective, Dropped, Goes, SaveSteps, TypeOK
<1> QED BY <1>2, <1>3, <1>4 DEF Step

LEMMA StepHost ==
  ASSUME TypeInv, HostInv, NEW r \in Requests, Step(r)
  PROVE  HostInv'
<1>1. LoadBalancerHasHost'
  <2>1. job[r].service \in Services
    BY StepMoves, JobFields DEF TypeInv, WellFormed
  <2>2. pc[r] \in SaveSteps /\ want[r].type = "LoadBalancer" => want[r].host # "none"
    BY DEF HostInv
  <2> QED BY <2>1, <2>2, StepWrites DEF HostInv, LoadBalancerHasHost, TypeInv, TypeOK
<1>2. ASSUME NEW q \in Requests, pc'[q] \in SaveSteps, want'[q].type = "LoadBalancer"
      PROVE  want'[q].host # "none"
  <2>1. CASE q = r
    BY <1>2, <2>1, StepWant DEF HostInv
  <2>2. CASE q # r
    BY <1>2, <2>2, StepMoves DEF HostInv, Moves, TypeInv, TypeOK
  <2> QED BY <2>1, <2>2
<1> QED BY <1>1, <1>2 DEF HostInv

LEMMA NextHost == TypeInv /\ HostInv /\ [Next]_vars => HostInv'
<1> SUFFICES ASSUME TypeInv, HostInv, [Next]_vars PROVE HostInv'
  OBVIOUS
<1>1. ASSUME NEW q \in SUBSET Requests, Dropped(q), Unwritten(q) PROVE HostInv'
  BY <1>1, DroppedFrame DEF HostInv, LoadBalancerHasHost, SaveSteps
<1>2. ASSUME NEW r \in Requests, CallFails(r) PROVE HostInv'
  BY <1>1, <1>2 DEF CallFails
<1>3. CASE Crash
  BY <1>1, <1>3 DEF Crash
<1>4. ASSUME NEW r \in Requests, NEW j \in Jobs, Arrive(r, j) PROVE HostInv'
  BY <1>4 DEF Arrive, HostInv, LoadBalancerHasHost, SaveSteps, TypeInv, TypeOK
<1>5. CASE UNCHANGED vars
  BY <1>5 DEF vars, HostInv, LoadBalancerHasHost
<1> QED BY <1>2, <1>3, <1>4, <1>5, StepHost DEF Next

\* Every LoadBalancer has a host name, whatever requests overlap.
THEOREM LoadBalancersHaveHosts == Spec => []LoadBalancerHasHost
<1>1. Init => HostInv
  BY DEF Init, HostInv, LoadBalancerHasHost, SaveSteps
<1>2. HostInv => LoadBalancerHasHost
  BY DEF HostInv
<1> QED BY <1>1, <1>2, NextHost, TypeInvariance, PTL DEF Spec

-----------------------------------------------------------------------------
(* Versions. *)

LEMMA StepVersion ==
  ASSUME TypeInv, VersionInv, NEW r \in Requests, Step(r)
  PROVE  VersionInv'
<1> SUFFICES ASSUME NEW q \in current'
             PROVE  pc'[q] = "put" /\ base'[q] = service'[job'[q].service]
  BY DEF VersionInv
<1>1. q \in Requests /\ job[r].service \in Services
  BY StepMoves, StepType, JobFields DEF TypeInv, TypeOK, WellFormed
<1>2. CASE q = r
  <2>1. Active(r) /\ r \in On(job[r].service)
    BY StepMoves DEF On
  <2>2. /\ UNCHANGED service
        /\ pc'[r] = "put" /\ base'[r] = service[job[r].service]
    BY <1>2, <2>1, StepWrites DEF VersionInv
  <2>3. job'[r] = job[r]
    BY <2>2, StepMoves DEF Moves
  <2> QED BY <1>2, <2>2, <2>3
<1>3. CASE q # r
  <2>1. pc'[q] = pc[q] /\ job'[q] = job[q] /\ base'[q] = base[q]
    BY <1>1, <1>3, StepMoves DEF Moves, TypeInv, TypeOK
  <2>2. q \in current /\ pc[q] = "put" /\ base[q] = service[job[q].service]
    BY <1>3, StepWrites DEF VersionInv
  <2>3. Active(q) /\ job[q].service \in Services
    BY <1>1, <2>2, JobFields DEF Active, TypeInv, WellFormed
  <2>4. service'[job[q].service] = service[job[q].service]
    BY <1>1, <1>3, <2>3, StepWrites DEF On, TypeInv, TypeOK
  <2> QED BY <2>1, <2>2, <2>4
<1> QED BY <1>2, <1>3

LEMMA NextVersion == TypeInv /\ VersionInv /\ [Next]_vars => VersionInv'
<1> SUFFICES ASSUME TypeInv, VersionInv, [Next]_vars PROVE VersionInv'
  OBVIOUS
<1>1. ASSUME NEW q \in SUBSET Requests, Dropped(q), Unwritten(q) PROVE VersionInv'
  <2>1. \A r \in current' : r \in current /\ r \notin q /\ r \in Requests
    BY <1>1, DroppedFrame DEF TypeInv, TypeOK
  <2>2. \A r \in Requests \ q : pc'[r] = pc[r] /\ job'[r] = job[r] /\ base'[r] = base[r]
    BY <1>1, EndTyped DEF Dropped, TypeInv
  <2> QED BY <1>1, <2>1, <2>2, DroppedFrame DEF VersionInv
<1>2. ASSUME NEW r \in Requests, CallFails(r) PROVE VersionInv'
  BY <1>1, <1>2 DEF CallFails
<1>3. CASE Crash
  BY <1>1, <1>3 DEF Crash
<1>4. ASSUME NEW r \in Requests, NEW j \in Jobs, Arrive(r, j) PROVE VersionInv'
  BY <1>4 DEF Arrive, VersionInv, Active, TypeInv, TypeOK
<1>5. CASE UNCHANGED vars
  BY <1>5 DEF vars, VersionInv
<1> QED BY <1>2, <1>3, <1>4, <1>5, StepVersion DEF Next

\* No save takes a host name away from a Service.
THEOREM HostNamesAreKept == Spec => HostNamesStay
<1> DEFINE Kept == \A s \in Services :
                     (service[s] # NoService /\ service[s].host # "none") =>
                       (service'[s] = NoService \/ service'[s].host # "none")
<1>1. Init => VersionInv
  BY DEF Init, VersionInv
<1>2. TypeInv /\ VersionInv /\ [Next]_vars => [Kept]_vars
  <2> SUFFICES ASSUME TypeInv, VersionInv, [Next]_vars PROVE Kept \/ UNCHANGED vars
    OBVIOUS
  <2>1. ASSUME NEW r \in Requests, Step(r) PROVE Kept
    <3>1. job[r].service \in Services
      BY <2>1, StepMoves, JobFields DEF TypeInv, WellFormed
    <3>2. pc[r] = "put" /\ r \in current => base[r] = service[job[r].service]
      BY DEF VersionInv
    <3> QED BY <2>1, <3>1, <3>2, StepWrites DEF TypeInv, TypeOK
  <2>2. ASSUME UNCHANGED service PROVE Kept
    BY <2>2
  <2>3. ASSUME NEW r \in Requests, CallFails(r) PROVE Kept
    BY <2>2, <2>3 DEF CallFails, Unwritten
  <2>4. CASE Crash
    BY <2>2, <2>4 DEF Crash, Unwritten
  <2>5. ASSUME NEW r \in Requests, NEW j \in Jobs, Arrive(r, j) PROVE Kept
    BY <2>2, <2>5 DEF Arrive
  <2> QED BY <2>1, <2>3, <2>4, <2>5 DEF Next
<1> QED BY <1>1, <1>2, NextVersion, TypeInvariance, PTL DEF Spec, HostNamesStay

-----------------------------------------------------------------------------
(* Promises. *)

LEMMA StepPromise ==
  ASSUME TypeInv, PromiseInv, NEW r \in Requests, Step(r)
  PROVE  PromiseInv'
<1> DEFINE s == job[r].service
<1>1. Active(r) /\ s \in Services
  BY StepMoves, JobFields DEF TypeInv, WellFormed
<1>2. ASSUME NEW t \in Services, t \in promised' PROVE service'[t] # NoService
  BY <1>1, <1>2, StepWrites, AbsentAssumption DEF PromiseInv, OpenStands, TypeInv, TypeOK
<1>3. ASSUME NEW q \in Requests, Active(q)', job'[q].op = "close"
      PROVE  job'[q].service \notin promised'
  <2>1. Active(q) /\ job[q] = job'[q]
    BY <1>1, <1>3, StepMoves DEF Moves, Active, TypeInv, TypeOK
  <2>2. Closing(job[q].service)
    BY <1>3, <2>1 DEF Closing, On
  <2>3. job[q].service \notin promised
    BY <1>3, <2>1 DEF PromiseInv
  <2> QED BY <2>1, <2>2, <2>3, StepWrites
<1> QED BY <1>2, <1>3 DEF PromiseInv, OpenStands

LEMMA NextPromise == TypeInv /\ PromiseInv /\ [Next]_vars => PromiseInv'
<1> SUFFICES ASSUME TypeInv, PromiseInv, [Next]_vars PROVE PromiseInv'
  OBVIOUS
<1>1. ASSUME NEW q \in SUBSET Requests, Dropped(q), Unwritten(q) PROVE PromiseInv'
  BY <1>1, DroppedFrame DEF PromiseInv, OpenStands, Active
<1>2. ASSUME NEW r \in Requests, CallFails(r) PROVE PromiseInv'
  BY <1>1, <1>2 DEF CallFails
<1>3. CASE Crash
  BY <1>1, <1>3 DEF Crash
<1>4. ASSUME NEW r \in Requests, NEW j \in Jobs, Arrive(r, j) PROVE PromiseInv'
  BY <1>4 DEF Arrive, PromiseInv, OpenStands, Active, TypeInv, TypeOK
<1>5. CASE UNCHANGED vars
  BY <1>5 DEF vars, PromiseInv, OpenStands, Active
<1> QED BY <1>2, <1>3, <1>4, <1>5, StepPromise DEF Next

\* A port whose opening was answered stays open until a close is requested.
THEOREM OpeningsStand == Spec => []OpenStands
<1>1. Init => PromiseInv
  BY DEF Init, PromiseInv, OpenStands, Active
<1>2. PromiseInv => OpenStands
  BY DEF PromiseInv
<1> QED BY <1>1, <1>2, NextPromise, TypeInvariance, PTL DEF Spec
=============================================================================

---------------------------- MODULE ProjectPorts ----------------------------
(***************************************************************************)
(* The requests that open, update and close the ports of a project, each a *)
(* Kubernetes Service.                                                     *)
(*                                                                         *)
(* Saving is generic: it reads the Service to decide between creating and  *)
(* replacing it, and both read it again.  Only the last of the up to three *)
(* reads supplies the version that a replacement is locked with.           *)
(*                                                                         *)
(* Selector, protocol and port number are left out: an update treats them  *)
(* as it treats the type.  A Service that is deleted goes at once, as it   *)
(* does without a load balancer's finalizer.                               *)
(***************************************************************************)
EXTENDS Naturals, FiniteSets

CONSTANTS
  Services,     \* service ids of the project
  Requests,     \* slots for requests that are served at the same time
  MaxFaults,    \* bound on failed calls and crashes
  Keep,         \* a field an update leaves as it is
  NoService, NoJob

ASSUME FaultsAssumption == MaxFaults \in Nat

\* ports tells whether the object carries allocated node ports; host is the
\* external-dns annotation, under one of two domains.
Types == {"ClusterIP", "NodePort", "LoadBalancer"}
Hosts == {"none", "platform", "example"}
Objects == [type : Types, host : Hosts, ports : BOOLEAN]

\* A type that the payload of an update omits is ClusterIP; an explicit null keeps.
OpenJobs == [op : {"open"}, service : Services, type : Types]
UpdateJobs == [op : {"update"}, service : Services, type : Types \cup {Keep}]
CloseJobs == [op : {"close"}, service : Services]
Jobs == OpenJobs \cup UpdateJobs \cup CloseJobs

ASSUME AbsentAssumption ==
  /\ NoService \notin Objects
  /\ NoJob \notin Jobs \cup Objects
  /\ Keep \notin Types

VARIABLES
  service,      \* the Service of every id, or NoService
  pc,           \* the call a request awaits next; idle before and after it
  job,          \* what the request asks for, or NoJob
  want,         \* the object it saves, or NoService
  base,         \* the object whose version it locks its replacement with
  current,      \* requests whose version is still the Service's
  faults,       \* failed calls and crashes so far
  promised      \* history: services opened and not asked to be closed since

vars == <<service, pc, job, want, base, current, faults, promised>>

SaveSteps == {"save_read", "update_read", "put", "create_read", "post", "reread"}
Steps == SaveSteps \cup {"find", "close_read", "delete"}
Active(r) == pc[r] # "idle"
On(s) == {r \in Requests : Active(r) /\ job[r].service = s}
Closing(s) == \E r \in On(s) : job[r].op = "close"
Exists(r) == service[job[r].service] # NoService

TypeOK ==
  /\ service \in [Services -> Objects \cup {NoService}]
  /\ pc \in [Requests -> Steps \cup {"idle"}]
  /\ job \in [Requests -> Jobs \cup {NoJob}]
  /\ want \in [Requests -> Objects \cup {NoService}]
  /\ base \in [Requests -> Objects \cup {NoService}]
  /\ current \subseteq Requests
  /\ faults \in 0..MaxFaults
  /\ promised \subseteq Services

Init ==
  /\ service = [s \in Services |-> NoService]
  /\ pc = [r \in Requests |-> "idle"]
  /\ job = [r \in Requests |-> NoJob]
  /\ want = [r \in Requests |-> NoService]
  /\ base = [r \in Requests |-> NoService]
  /\ current = {}
  /\ faults = 0
  /\ promised = {}

-----------------------------------------------------------------------------
(* How a request moves on. *)

\* The requests q are over, and nothing of them is left in the process.
End(q) ==
  /\ pc' = [r \in Requests |-> IF r \in q THEN "idle" ELSE pc[r]]
  /\ job' = [r \in Requests |-> IF r \in q THEN NoJob ELSE job[r]]
  /\ want' = [r \in Requests |-> IF r \in q THEN NoService ELSE want[r]]
  /\ base' = [r \in Requests |-> IF r \in q THEN NoService ELSE base[r]]

\* An opening that no close is racing with promises its Service.
Answer(r) ==
  LET s == job[r].service IN
  /\ End({r})
  /\ promised' = IF job[r].op = "open" /\ ~Closing(s)
                 THEN promised \cup {s} ELSE promised
  /\ UNCHANGED faults

Fails(r) == End({r}) /\ UNCHANGED <<faults, promised>>

\* The requests q end without an answer, through a failed call or a crash.
Dropped(q) ==
  /\ faults < MaxFaults
  /\ faults' = faults + 1
  /\ End(q)
  /\ UNCHANGED promised

Goes(r, step) ==
  /\ pc' = [pc EXCEPT ![r] = step]
  /\ UNCHANGED <<job, faults, promised>>

Keeps == UNCHANGED <<want, base>>

\* A write gives the Service a new version.
Write(r, o) ==
  /\ service' = [service EXCEPT ![job[r].service] = o]
  /\ current' = current \ On(job[r].service)

Unwritten(q) == current' = current \ q /\ UNCHANGED service

Arrive(r, j) ==
  /\ ~Active(r)
  /\ pc' = [pc EXCEPT ![r] = IF j.op = "close" THEN "close_read" ELSE "find"]
  /\ job' = [job EXCEPT ![r] = j]
  /\ promised' = IF j.op = "close" THEN promised \ {j.service} ELSE promised
  /\ UNCHANGED <<service, want, base, current, faults>>

-----------------------------------------------------------------------------
(* Opening and updating. *)

Opened(j) ==
  [type |-> j.type, ports |-> FALSE,
   host |-> IF j.type = "LoadBalancer" THEN "platform" ELSE "none"]

\* Mutant: a type that is null is saved.
UpdatedRaw(o, j) ==
  [o EXCEPT !.type = j.type, !.host = IF j.type = "LoadBalancer" THEN "example" ELSE @]

\* Mutant: a type that becomes LoadBalancer is given no host name.
UpdatedBare(o, j) ==
  [o EXCEPT !.type = IF j.type = Keep THEN @ ELSE j.type]

Updated(o, j) ==
  [o EXCEPT !.type = IF j.type = Keep THEN @ ELSE j.type,
            !.host = IF j.type = "LoadBalancer" THEN "example" ELSE @]

Find(r) ==
  LET j == job[r] IN
  /\ pc[r] = "find"
  /\ IF (j.op = "open") = Exists(r)
     THEN Fails(r)
     ELSE /\ Goes(r, "save_read")
          /\ want' = [want EXCEPT ![r] = IF j.op = "open" THEN Opened(j)
                                         ELSE Updated(service[j.service], j)]
          /\ UNCHANGED base
  /\ UNCHANGED <<service, current>>

SaveRead(r) ==
  /\ pc[r] = "save_read"
  /\ Goes(r, IF Exists(r) THEN "update_read" ELSE "create_read") /\ Keeps
  /\ UNCHANGED <<service, current>>

UpdateRead(r) ==
  /\ pc[r] = "update_read"
  /\ IF Exists(r)
     THEN /\ Goes(r, "put")
          /\ base' = [base EXCEPT ![r] = service[job[r].service]]
          /\ current' = current \cup {r}
          /\ UNCHANGED want
     ELSE Fails(r) /\ UNCHANGED current
  /\ UNCHANGED service

\* What a save without annotations keeps, and what the API allocates.
Replacement(r) ==
  [want[r] EXCEPT !.host = IF @ = "none" THEN base[r].host ELSE @,
                  !.ports = (want[r].type # "ClusterIP")]

\* A call that took effect is answered, or its answer is lost.
Effective(r) == Answer(r) \/ Dropped({r})

\* Mutant: the version is not sent along.
PutUnlocked(r) ==
  /\ pc[r] = "put"
  /\ Effective(r) /\ Write(r, Replacement(r))

\* The API refuses a replacement of another version, or of nothing.
Put(r) ==
  /\ pc[r] = "put"
  /\ IF r \in current
     THEN Effective(r) /\ Write(r, Replacement(r))
     ELSE Fails(r) /\ UNCHANGED <<service, current>>

\* A Service that appeared since is returned as it is.
CreateRead(r) ==
  /\ pc[r] = "create_read"
  /\ IF Exists(r) THEN Answer(r) ELSE Goes(r, "post") /\ Keeps
  /\ UNCHANGED <<service, current>>

\* The API refuses node ports in a Service that has none.
Post(r) ==
  LET o == [want[r] EXCEPT !.ports = (want[r].type # "ClusterIP")] IN
  /\ pc[r] = "post"
  /\ CASE Exists(r) ->
            Goes(r, "reread") /\ Keeps /\ UNCHANGED <<service, current>>
       [] ~Exists(r) /\ want[r].ports /\ want[r].type = "ClusterIP" ->
            Fails(r) /\ UNCHANGED <<service, current>>
       [] OTHER -> Effective(r) /\ Write(r, o)

\* Mutant: the conflict is taken for success.
RereadBlindly(r) ==
  /\ pc[r] = "reread"
  /\ Answer(r)
  /\ UNCHANGED <<service, current>>

Reread(r) ==
  /\ pc[r] = "reread"
  /\ IF Exists(r) THEN Answer(r) ELSE Fails(r)
  /\ UNCHANGED <<service, current>>

-----------------------------------------------------------------------------
(* Closing: a Service that is not there is a success. *)

CloseRead(r) ==
  /\ pc[r] = "close_read"
  /\ IF Exists(r) THEN Goes(r, "delete") /\ Keeps ELSE Answer(r)
  /\ UNCHANGED <<service, current>>

Delete(r) ==
  /\ pc[r] = "delete"
  /\ Effective(r)
  /\ Write(r, NoService)

-----------------------------------------------------------------------------
(* Failures. *)

\* A call fails without effect.
CallFails(r) ==
  /\ Active(r)
  /\ Dropped({r})
  /\ Unwritten({r})

\* The process dies: every request in flight is dropped.
Crash ==
  /\ \E r \in Requests : Active(r)
  /\ Dropped(Requests)
  /\ Unwritten(Requests)

SaveStep(r) == \/ SaveRead(r) \/ UpdateRead(r) \/ Put(r)
               \/ CreateRead(r) \/ Post(r) \/ Reread(r)
Step(r) == Find(r) \/ SaveStep(r) \/ CloseRead(r) \/ Delete(r)

Next ==
  \/ \E r \in Requests : Step(r) \/ CallFails(r) \/ \E j \in Jobs : Arrive(r, j)
  \/ Crash

Spec == Init /\ [][Next]_vars

-----------------------------------------------------------------------------
(* Properties. *)

\* A Service of type LoadBalancer has the host name external-dns publishes, in
\* whichever order opens, updates and closes read, replace and create it.
LoadBalancerHasHost ==
  \A s \in Services :
    (service[s] # NoService /\ service[s].type = "LoadBalancer") =>
      service[s].host # "none"

\* A port whose opening was answered stays open until a close is requested.
OpenStands == \A s \in Services : s \in promised => service[s] # NoService

\* A Service keeps a host name until it is deleted: a save that read the Service
\* before another gave it one does not take it away.
HostNamesStay ==
  [][\A s \in Services :
       (service[s] # NoService /\ service[s].host # "none") =>
         (service'[s] = NoService \/ service'[s].host # "none")]_vars

-----------------------------------------------------------------------------
(* What the proofs of ProjectPortsProofs need to know of every state. *)

\* A request in flight is at a step of its operation, with an object to save.
WellFormed(r) ==
  Active(r) =>
    /\ job[r] \in Jobs
    /\ pc[r] \in SaveSteps \cup {"find"} => job[r].op # "close"
    /\ pc[r] \in {"close_read", "delete"} => job[r].op = "close"
    /\ pc[r] \in SaveSteps => want[r] \in Objects
    /\ pc[r] = "put" => base[r] \in Objects

\* A LoadBalancer has a host name, and so has one that is about to be saved.
HostInv ==
  /\ LoadBalancerHasHost
  /\ \A r \in Requests :
       (pc[r] \in SaveSteps /\ want[r].type = "LoadBalancer") => want[r].host # "none"

\* A request whose version is the Service's has read it as it is.
VersionInv ==
  \A r \in current : pc[r] = "put" /\ base[r] = service[job[r].service]

\* No close is in flight for a promised Service.
PromiseInv ==
  /\ OpenStands
  /\ \A r \in Requests :
       (Active(r) /\ job[r].op = "close") => job[r].service \notin promised
=============================================================================

SPECIFICATION Spec
CONSTANTS
  s1 = s1
  r1 = r1
  r2 = r2
  r3 = r3
  Services = {s1}
  Requests = {r1, r2}
  MaxFaults = 1
  Keep = Keep
  NoService = NoService
  NoJob = NoJob
SYMMETRY Symmetric
INVARIANTS
  TypeOK
  LoadBalancerHasHost
  OpenStands
PROPERTY HostNamesStay

SPECIFICATION Spec
CONSTANTS
  k1 = k1
  k2 = k2
  d1 = d1
  s1 = s1
  r1 = r1
  r2 = r2
  Roles = {k1, k2}
  DefaultRole = k1
  Deployments = {d1}
  StatefulSets = {s1}
  Requests = {r1, r2}
  Serial = TRUE
  MaxFaults = 2
  NoRole = NoRole
  NoAccount = NoAccount
  NoWorkload = NoWorkload
  NoJob = NoJob
SYMMETRY Symmetric
INVARIANTS
  TypeOK
  SetupsStand
  TeardownsResume
  RolesHavePolicy
PROPERTIES
  TeardownsDeliver

SPECIFICATION Spec
CONSTANTS
  p1 = p1
  r1 = r1
  r2 = r2
  r3 = r3
  Projects = {p1}
  Levels = {1}
  Requests = {r1, r2}
  Operations = {"create", "delete", "resize"}
  Serial = TRUE
  Drained = TRUE
  MaxFaults = 2
  NoQuota = NoQuota
  NoJob = NoJob
SYMMETRY Symmetric
INVARIANTS
  TypeOK
  PromisedProjectsAreUsable
  LimitedBeforeUsable
PROPERTIES
  ConflictsResolved
  ContractKept

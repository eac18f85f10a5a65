SPECIFICATION Spec
CONSTANTS
  p1 = p1
  r1 = r1
  r2 = r2
  r3 = r3
  Projects = {p1}
  Levels = {1, 2}
  Requests = {r1}
  Operations = {"create", "resize"}
  Serial = TRUE
  Drained = TRUE
  MaxFaults = 0
  NoQuota = NoQuota
  NoJob = NoJob
SYMMETRY Symmetric
PROPERTIES
  ResizeApplies

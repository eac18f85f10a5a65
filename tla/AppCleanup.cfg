SPECIFICATION Spec
CONSTANTS
  a1 = a1
  c1 = c1
  c2 = c2
  i1 = i1
  Apps = {a1}
  Containers = {c1, c2}
  Claims <- MCClaims
  PvcName <- MCPvcName
  Images = {i1}
  Requests = {1, 2, 3}
  Workload <- UniformWork
  Serial = TRUE
  Drained = TRUE
  MaxFaults = 0
  NoImage = NoImage
  NoContainer = NoContainer
  NoDeployment = NoDeployment
  NoJob = NoJob
INVARIANTS
  NothingLeftBehind
PROPERTIES
  DeletionCleansUp

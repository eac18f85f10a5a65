SPECIFICATION FairSpec
CONSTANTS
  a1 = a1
  c1 = c1
  c2 = c2
  i1 = i1
  Apps = {a1}
  Containers = {c1}
  Claims <- MCClaims
  PvcName <- MCPvcName
  Images = {i1}
  Requests = {1, 2}
  Workload <- OverlapWork
  Serial = FALSE
  Drained = FALSE
  MaxFaults = 1
  NoImage = NoImage
  NoContainer = NoContainer
  NoDeployment = NoDeployment
  NoJob = NoJob
INVARIANTS
  FixedScaleSticks
PROPERTIES
  EveryCallAdvances
  EveryRequestAnswered

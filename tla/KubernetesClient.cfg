SPECIFICATION Spec
CONSTANTS
  r1 = r1
  r2 = r2
  r3 = r3
  Requests = {r1, r2, r3}
  Configs = {TRUE, FALSE}
  MaxFaults = 2
  MaxRestarts = 2
SYMMETRY Symmetric
INVARIANTS
  TypeOK
  InitialisedOnce
  PodClientIsInitialised

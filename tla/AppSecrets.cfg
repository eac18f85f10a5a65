SPECIFICATION Spec
CONSTANTS
  a1 = a1
  s1 = s1
  s2 = s2
  r1 = r1
  r2 = r2
  r3 = r3
  Apps = {a1}
  Names = {s1, s2}
  Requests = {r1, r2, r3}
  Serial = TRUE
  MaxFaults = 2
  MaxListErrors = 1
  NoJob = NoJob
SYMMETRY Symmetric
INVARIANTS
  TypeOK
  StoredSecretsReadable
  RoleHasItsPolicy
PROPERTIES
  RevokeAnswersTruthfully

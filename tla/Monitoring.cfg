SPECIFICATION Spec
CONSTANTS
  n1 = n1
  n2 = n2
  s1 = s1
  s2 = s2
  a1 = a1
  a2 = a2
  Nodes = {n1, n2}
  Namespaces = {s1, s2}
  Apps = {a1, a2}
  Project = s1
  Follow <- MCFollow
  Amounts <- MCAmounts
  Shapes <- MCShapes
  QuotaKeys <- MCQuotaKeys
  LimitsStated = TRUE
  Threshold = 55
  Precise = 2048
  Absent = Absent
SYMMETRY Symmetric
INVARIANTS
  TypeOK
PROPERTIES
  CalmAlarmIsExact
  UsageMeetsItsLimit
  AppsReported

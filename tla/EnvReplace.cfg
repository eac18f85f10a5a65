SPECIFICATION Spec
CONSTANTS
  r1 = r1
  r2 = r2
  k1 = k1
  k2 = k2
  v1 = v1
  v2 = v2
  m1 = m1
  m2 = m2
  Requests = {r1, r2}
  Keys = {k1, k2}
  Values = {v1, v2}
  ScalarKey = k1
  NameKey = k1
  NameValue = v1
  Payloads <- SomePayloads
  Members = {m1, m2}
  MaxFaults = 1
  Unset = Unset
  NoObject = NoObject
  NoJob = NoJob
SYMMETRY Symmetric
PROPERTY ReplaceReplaces

SPECIFICATION Spec

CONSTANTS
  i1 = i1
  i2 = i2
  m1 = m1
  m2 = m2
  m3 = m3
  old = old
  new = new
  host1 = host1
  host2 = host2
  Ingestions = {i1, i2}
  Messages = {m1, m2, m3}
  JobOf <- MCJobOf
  Identities = {old, new}
  Assets = {host1, host2}
  AssetFor <- MCAssetFor
  Report <- MCReport
  Known = {old}
  Unparsable = {i2}
  Workers = {w1, w2}
  Idle = Idle
  DeliveryLimit = 1
  MaxFaults = 2
  MaxEdits = 1

SYMMETRY WorkerSymmetry

PROPERTY
  PlansAreFresh

CHECK_DEADLOCK FALSE

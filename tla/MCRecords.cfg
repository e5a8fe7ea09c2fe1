SPECIFICATION Spec
CONSTANTS
  t1 = t1
  t2 = t2
  t3 = t3
  o1 = o1
  o2 = o2
  i1 = i1
  i2 = i2
  Txns = {t1, t2, t3}
  None = None
  Calls <- MCCalls
  Worlds <- MCWorlds
SYMMETRY TxnSymmetry
INVARIANTS
  OutcomesChain
  StoredValuesAreAssigned
  ReplacementsAreWhole
  OrderedLocks
PROPERTIES
  ChangesAreTouched
CHECK_DEADLOCK FALSE

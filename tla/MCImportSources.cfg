SPECIFICATION Spec

CONSTANTS
  Requests = {r1, r2, r3}
  Deleters = {d1, d2}
  None = None
  MaxLate = 2

SYMMETRY RequestSymmetry

INVARIANTS
  OneWriter
  AvailableHasBytes
  ConfirmedStaysReadable
  LeftoversAreMarked

PROPERTIES
  DeletionIsFinal

CHECK_DEADLOCK FALSE

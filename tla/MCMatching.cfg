SPECIFICATION Spec
CONSTANTS
  NamespaceOrder <- MCNamespaceOrder
  Worlds <- MCWorlds
  Reports <- MCReports
  Edits <- MCEdits
  MaxImports = 1
  MaxRescans = 1
  MaxEdits = 1
INVARIANTS
  MovesKeepOrder
PROPERTIES
  NeverReassigned
  NoTwins
CHECK_DEADLOCK FALSE

CONSTANTS
  Order = {o1, o2}
  Worker = {w1, w2}
  NoWorker = NoWorker
  Role = {"admin", "worker"}
  RolePerms <- MCRolePerms
  MaxVersion = 1
  FirstVersion = 1
  Defs <- LeanDefs
  AutoRules <- Reviewing
  RedispatchLimit = 1
  Corrections = FALSE
SPECIFICATION Spec
SYMMETRY SymmetricOrders
INVARIANTS LoadMatches RedispatchBounded
PROPERTY ImplementsLedger

CONSTANTS
  Order = {o1}
  Worker = {w1, w2}
  NoWorker = NoWorker
  Role = {"admin", "operator", "worker"}
  RolePerms <- MCRolePerms
  MaxVersion = 2
  FirstVersion = 1
  Defs <- MixedVersions
  AutoRules <- Reviewing
  RedispatchLimit = 2
  Corrections = TRUE
SPECIFICATION Spec
SYMMETRY Symmetric
INVARIANTS TypeOK EveryCompletionLearned NoOrderOutOfSight
PROPERTIES FlowPinned

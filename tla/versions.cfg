CONSTANTS
  shipped = shipped
  wider = wider
  u1 = u1
  u2 = u2
  Def = {shipped, wider}
  NoDef = NoDef
  Default = shipped
  State = {"open", "check", "done"}
  NoState = NoState
  Initial <- MCInitial
  StatesOf <- MCStates
  EdgesOf <- MCEdges
  Demands <- MCDemands
  Tune <- MCTune
  User = {u1, u2}
  Operator = {u2}
  SoleAdmin = FALSE
  Unanchored = Unanchored
  Kinds <- AllKinds
  MaxVersion = 3
  MaxRev = 2
SPECIFICATION Spec
CONSTRAINTS RollbackAlone FirstDrafts
PROPERTY ImplementsLog
CHECK_DEADLOCK FALSE

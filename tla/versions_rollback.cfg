CONSTANTS
  shipped = shipped
  wider = wider
  u1 = u1
  u2 = u2
  Def = {shipped, wider}
  NoDef = NoDef
  Default = shipped
  State = {"open", "check", "done"}
  NoState = NoState
  Initial <- MCInitial
  StatesOf <- MCStates
  EdgesOf <- MCEdges
  Demands <- MCDemands
  Tune <- MCTune
  User = {u1, u2}
  Operator = {u2}
  SoleAdmin = FALSE
  Unanchored = Unanchored
  Kinds <- Overwriting
  MaxVersion = 4
  MaxRev = 0
SPECIFICATION Spec
INVARIANT NothingLost
CHECK_DEADLOCK FALSE

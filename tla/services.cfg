CONSTANTS
  a1 = a1
  x1 = x1
  x2 = x2
  y1 = y1
  y2 = y2
  r1 = r1
  r2 = r2
  w1 = w1
  w2 = w2
  Parts = {"transport", "flow", "inspection", "patrol", "alert", "volunteer", "energy", "number"}
  Worker = {w1, w2}
  NoWorker = NoWorker
  TOrder = {x1, x2}
  TReq = {r1, r2}
  MaxLoad = 2
  MaxStale = 1
  Task = {x1, x2}
  FReq = {r1, r2}
  FlowDef <- MCFlowDef
  Alert = {a1}
  Guide = {"fire"}
  NoGuide = "none"
  ITask = {x1}
  Item = {y1, y2}
  Inspector = {w1, w2}
  Nobody = Nobody
  IReq = {r1, r2}
  Found = {"ok"}
  Source = {x1, a1}
  Order = {y1, y2}
  Unlinked = "none"
  CReq = {r1, r2}
  Point = {y1, y2}
  PTask = {x1, x2}
  PReq = {r1, r2}
  Activity = {x1}
  Person = {w1, w2}
  VReq = {r1, r2}
  MaxSlots = 2
  Ref = {x1, x2}
  Row = {y1, y2}
  EReq = {r1, r2}
  OneDispatch = TRUE
  Creator = {r1, r2}
  RetryLimit = 3
  MaxNo = 5
  MaxDeleted = 3
SPECIFICATION Spec
SYMMETRY Sym
INVARIANT NeverOvercounted
INVARIANT DoneMeansAll
INVARIANT OneOrder
INVARIANT SlotsKept
INVARIANT RefusedForAReason
PROPERTY AlongEdges
PROPERTY OwnerKept
PROPERTY NeverTakenBack
CHECK_DEADLOCK FALSE

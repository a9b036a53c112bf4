CONSTANTS
  r1 = r1
  r2 = r2
  o1 = o1
  o2 = o2
  m1 = m1
  s1 = s1
  s2 = s2
  Order = {o1, o2}
  Material = {m1}
  Settlement = {s1}
  Request = {r1, r2}
  NoOrder = NoOrder
  NoSettlement = NoSettlement
  Service = Service
  Status <- MCStatus
  FirstStatus = "open"
  Eligible <- MCEligible
  Blocked <- MCBlocked
  Evaluated <- MCEvaluated
  Acceptable <- MCAcceptable
  Reworked = "open"
  Moves <- ToAny
  Kinds <- DeskKinds
  ServicePrice = 1
  ManualAmounts = {2}
  MaxStock = 3
  MaxQty = 2
SPECIFICATION Spec
SYMMETRY Small
INVARIANT DraftFollowsConsumption
CHECK_DEADLOCK FALSE

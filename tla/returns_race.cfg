CONSTANTS
  r1 = r1
  r2 = r2
  o1 = o1
  o2 = o2
  m1 = m1
  s1 = s1
  s2 = s2
  Order = {o1}
  Material = {m1}
  Settlement = {s1}
  Request = {r1, r2}
  NoOrder = NoOrder
  NoSettlement = NoSettlement
  Service = Service
  Status <- MCStatus
  FirstStatus = "open"
  Eligible <- MCEligible
  Blocked <- MCBlocked
  Evaluated <- MCEvaluated
  Acceptable <- MCAcceptable
  Reworked = "open"
  Moves <- ToArchive
  Kinds <- ReturnKinds
  ServicePrice = 1
  ManualAmounts = {2}
  MaxStock = 2
  MaxQty = 1
SPECIFICATION Spec
SYMMETRY Small
CHECK_DEADLOCK FALSE
INVARIANT NetNotNegative

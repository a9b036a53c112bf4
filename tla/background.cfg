CONSTANTS
  x1 = x1
  x2 = x2
  Parts = {"escalation", "outgoing"}
  Order = {x1, x2}
  Version = {1, 2}
  Live = 2
  Status = {"open", "held", "done", "claim_hall"}
  Finished <- MCFinished
  OnHold <- MCOnHold
  Cron = Cron
  Desk = {desk}
  Faults = 1
  Job = {j1, j2}
  Request = {j2}
  Sub = {u1, u2}
  MaxRestarts = 1
  MaxFailures = 1
SPECIFICATION Spec
INVARIANT NotEscalatedAgain
PROPERTY NoneOverlooked
PROPERTY HallNoticed
PROPERTY MessageAccountedFor
PROPERTY EverySubscriberLogged
CHECK_DEADLOCK FALSE

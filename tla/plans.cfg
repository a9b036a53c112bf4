CONSTANTS
  i1 = i1
  i2 = i2
  s1 = s1
  s2 = s2
  s3 = s3
  Process = {i1, i2}
  Session = {s1, s2, s3}
  Home <- MCHome
  NoOne = NoOne
  Plan = {p1}
  CatchUp = 1
  Interval <- MCInterval
  Ahead = {1, 2}
  Horizon = 3
  Starts = {0, 1}
  MaxFaults = 1
  Beside = FALSE
SPECIFICATION RecurrenceSpec
INVARIANT NoneTwice
PROPERTY CaughtUp
PROPERTY ImplementsCalendar
CHECK_DEADLOCK FALSE

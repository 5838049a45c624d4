SPECIFICATION FairSpec
CONSTANTS
  a = a  b = b
  Values = {a, b}
  None = None
  Absent = Absent
  Registered <- MCRegistered
  Prometheus = TRUE
  MaxChanges = 3
  MaxFailures = 1
PROPERTY ComesToRest
CHECK_DEADLOCK FALSE

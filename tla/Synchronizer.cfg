SPECIFICATION FairSpec
CONSTANTS
  Names = {n1}
  Workers = {w1, w2}
  NoName = NoName
  MaxChanges = 5
  MaxEdits = 1
  MaxFailures = 2
  MaxRestarts = 1
INVARIANTS TypeOK NothingForgotten
PROPERTY EventuallyMirrored
CHECK_DEADLOCK FALSE

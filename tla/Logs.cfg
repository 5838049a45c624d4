SPECIFICATION Spec
CONSTANTS
  None = None
  RowHeight = 2
  Overscan = 0
  StickThreshold = 1
  TopThreshold = 1
  ViewHeights = {3, 4}
  BodyHeights = {1}
  RetainedLines = 2
  PageLines = 1
  MaxBatch = 1
  MaxEarlier = 1
  MaxSeq = 2
  MaxOpen = 1
  MaxRestarts = 1
  x = x
  y = y
  NL = NL
  CR = CR
  Arriving <- MCArriving
  Earlier <- MCEarlier
  MaxLines = 2
  PageSize = 4
  Capacity = 2
  MaxText = 10
\* A log may end, and its reader may leave it.
CHECK_DEADLOCK FALSE
INVARIANTS  PagesCounted
PROPERTIES PlaceKept RefinesLines

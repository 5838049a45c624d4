SPECIFICATION Spec
CONSTANTS
  c1 = c1  c2 = c2  r1 = r1  r2 = r2  r3 = r3  h1 = h1  h2 = h2  h3 = h3
  Containers = {c1, c2}
  Requests = {r1, r2}
  Helpers = {h1, h2}
  MaxHelpers = 1
  Faults = {"containerExit", "pollError"}
  None = None
SYMMETRY MCSymmetry
INVARIANTS TypeOK InflightCountsCalls NoOrphanHelper  CapOvershootBounded
PROPERTY ReaperSparesCalls
CHECK_DEADLOCK FALSE

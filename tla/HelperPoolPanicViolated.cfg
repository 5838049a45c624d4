SPECIFICATION Spec
CONSTANTS
  c1 = c1  c2 = c2  r1 = r1  r2 = r2  r3 = r3  h1 = h1  h2 = h2  h3 = h3
  Containers = {c1}
  Requests = {r1, r2}
  Helpers = {h1, h2}
  MaxHelpers = 1
  Faults = {"containerExit"}
  None = None
SYMMETRY MCSymmetry
INVARIANT NeverClosedTwice
CHECK_DEADLOCK FALSE

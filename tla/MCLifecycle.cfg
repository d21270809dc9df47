SPECIFICATION Spec
CONSTANTS
  h1 = h1
  h2 = h2
  p1 = p1
  p2 = p2
  p3 = p3
  Hart = {h1, h2}
  Proc = {p1, p2, p3}
  Home <- MCHome
  MaxFails = 2
INVARIANTS
  StartsOnce
  LiveExact
  VerdictTrue
PROPERTIES
  AllStart
  AllEnd
CHECK_DEADLOCK FALSE

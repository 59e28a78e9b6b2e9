SPECIFICATION Spec
CONSTANTS
  p1 = p1  p2 = p2  p3 = p3  NoItem = NoItem
  Packages = {p1, p2}
  Copies <- MCCopies
  Holds = {0, 1, 2}
  MaxTime = 3
  Stoppers = {}
INVARIANT CopiesSent
CHECK_DEADLOCK FALSE

SPECIFICATION FairSpec
CONSTANTS
  p1 = p1  p2 = p2  p3 = p3  NoItem = NoItem
  Packages = {p1, p2, p3}
  Copies <- MCCopies
  Holds = {0, 1, 2}
  MaxTime = 2
  Stoppers = {"c1"}
INVARIANTS TypeOK NotEarly ExactlyOnce LostForAnother StoppedForGood
PROPERTIES InOrder Delivered StopReturns
CHECK_DEADLOCK FALSE

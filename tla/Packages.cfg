SPECIFICATION Spec
CONSTANTS
  l1 = l1
  l2 = l2
  p1 = p1
  p2 = p2
  p3 = p3
  star = star
  none = none
  AllLinks <- MCLinks
  LateLinks = {l2}
  MortalLinks = {l1, l2}
  Scheduled = {1, 2, 3}
  Reactive = {4}
  Time <- MCTime
  Target <- MCTarget
  Wildcard = star
  NoLink = none
  NoAction = none
  Packages = {p1, p2, p3}
  Size <- MCSize
  Route <- MCRoute
  MaxBytes = 17
  MaxEncodingTime = 2
  MaxTime = 7
  MaxFetches = 1
  MaxFaults = 1
  MaxFailures = 1
  Punctual = TRUE
  Spaced = TRUE
  InTurn = TRUE
  Careful = TRUE
INVARIANTS
  TypeOK
  
  ReportedOnce
  
  BlockedOnlyWhenFull
CHECK_DEADLOCK FALSE

SPECIFICATION Spec
CONSTANTS
  q0 = q0  qa = qa  qb = qb  w1 = w1  w2 = w2  w3 = w3
  NoQueue = NoQueue  NoWork = NoWork  DefaultQueue = q0
  Works = {w1, w2}
  Queues = {q0, qa}
  Targets <- MCAnyTarget
  Timed = {w1}
  MayBlock = {qa}
  Controllers = {"c1", "c2"}
  SerialStops = FALSE
  MarkBound = 1
  MaxQueueSize = 3  MaxTotalSize = 3  SizeMod = 7
  Patient = {w2}
  Priority <- MCPriority
  Size <- MCSize
INVARIANTS ListsOK SizesExact
CHECK_DEADLOCK FALSE

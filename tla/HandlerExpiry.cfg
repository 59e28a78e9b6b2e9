SPECIFICATION Spec
CONSTANTS
  q0 = q0  qa = qa  qb = qb  w1 = w1  w2 = w2  w3 = w3
  NoQueue = NoQueue  NoWork = NoWork  DefaultQueue = q0
  Works = {w1}
  Queues = {q0, qa}
  Targets <- MCAnyTarget
  Timed = {w1}
  MayBlock = {qa}
  Controllers = {}
  SerialStops = TRUE
  MarkBound = 0
  MaxQueueSize = 2  MaxTotalSize = 3  SizeMod = 8
  Patient = {}
  Priority <- MCPriority
  Size <- MCSize
INVARIANT UnblockedExact
CHECK_DEADLOCK FALSE

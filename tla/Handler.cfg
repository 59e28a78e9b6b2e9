SPECIFICATION Spec
CONSTANTS
  q0 = q0  qa = qa  qb = qb  w1 = w1  w2 = w2  w3 = w3
  NoQueue = NoQueue  NoWork = NoWork  DefaultQueue = q0
  Works = {w1, w2, w3}
  Queues = {q0, qb}
  Targets <- MCDisciplinedTarget
  Timed = {w1}
  MayBlock = {qb}
  Controllers = {"c1"}
  SerialStops = TRUE
  MarkBound = 0
  MaxQueueSize = 2  MaxTotalSize = 3  SizeMod = 8
  Patient = {w2}
  Priority <- MCPriority
  Size <- MCSize
INVARIANTS TypeOK CountersExact WorkerNotLost
           NoLostUnblock NoLostWakeUp NeverBoth ExpiryIsTold ClearedAfterWork
PROPERTY ContractHolds
CHECK_DEADLOCK FALSE

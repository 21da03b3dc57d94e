\* PumpIsNotStalled
CONSTANTS
  a = a
  p = p
  None = None
  Requests <- TwoRequests
  PumpRequests <- OnlyA
  PipeOutlives = FALSE
  EventCapacity = 1
  MaxEvents = 2
SPECIFICATION Spec
INVARIANTS
  PumpIsNotStalled
\* The transport comes to rest once pi is gone and every request ended.
CHECK_DEADLOCK FALSE

\* The pump's request and a task's, a channel of one event, two events.
CONSTANTS
  a = a
  p = p
  None = None
  Requests <- TwoRequests
  PumpRequests <- OnlyA
  PipeOutlives = FALSE
  EventCapacity = 1
  MaxEvents = 2
SPECIFICATION FairSpec
INVARIANTS
  NoHopelessWait
  EventsInOrder
PROPERTIES
  AnswersAreGenuine
  RequestsEnd
\* The transport comes to rest once pi is gone and every request ended.
CHECK_DEADLOCK FALSE

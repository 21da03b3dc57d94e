\* One ordinary prompt, cancelled while pi never settles it.
CONSTANTS
  p1 = p1
  p2 = p2
  x = x
  t1 = t1
  None = None
  Prompts <- OrdinaryPrompts
  ExtPrompts <- NoPrompts
  Tools <- NoTools
  SettleFallback = TRUE
  MaxCancels = 1
  MaxEvents = 2
SPECIFICATION Spec
PROPERTY StopReasonIsPublished
CHECK_DEADLOCK FALSE

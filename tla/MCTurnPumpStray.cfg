\* Two ordinary prompts and one cancel, while pi settles also for an abort that
\* finds nothing to stop.
CONSTANTS
  p1 = p1
  p2 = p2
  x = x
  t1 = t1
  None = None
  Prompts <- OrdinaryPrompts
  ExtPrompts <- NoPrompts
  Tools <- NoTools
  SettleFallback = TRUE
  MaxCancels = 1
  MaxEvents = 2
SPECIFICATION Spec
INVARIANT StaleSettleNeverCompletes
CHECK_DEADLOCK FALSE

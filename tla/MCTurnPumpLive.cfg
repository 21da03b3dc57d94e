\* An ordinary prompt and an extension command, one cancel, one tool.
CONSTANTS
  p1 = p1
  p2 = p2
  x = x
  t1 = t1
  None = None
  Prompts <- MixedPrompts
  ExtPrompts <- ExtOnly
  Tools <- OneTool
  SettleFallback = TRUE
  MaxCancels = 1
  MaxEvents = 2
SPECIFICATION FairSpec
PROPERTIES
  CancelSticks
  EveryPromptAnswered
\* The session may come to rest: nothing sent, or pi gone and all answered.
CHECK_DEADLOCK FALSE

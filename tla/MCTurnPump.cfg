\* Three prompts, one of them an extension command, two cancels, one tool.
CONSTANTS
  p1 = p1
  p2 = p2
  x = x
  t1 = t1
  None = None
  Prompts <- AllPrompts
  ExtPrompts <- ExtOnly
  Tools <- OneTool
  SettleFallback = TRUE
  MaxCancels = 2
  MaxEvents = 2
SPECIFICATION Spec
INVARIANTS
  EndTurnEarned
  TurnsAtPi
  RetiredIsQuiet
  NoStrandedPrompt
  NoPromptLost
PROPERTIES
  ServedOnceInOrder
\* The session may come to rest: nothing sent, or pi gone and all answered.
CHECK_DEADLOCK FALSE

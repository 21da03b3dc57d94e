\* Any two requests.
CONSTANTS
  c1 = c1
  c2 = c2
  s0 = s0
  s1 = s1
  m = m
  None = None
  NoMenu = NoMenu
  Calls <- TwoCalls
  Ids <- TwoIds
  Stored <- OneStored
  Menus <- OneMenu
  KindsOf <- AnyKinds
SPECIFICATION FairSpec
INVARIANTS
  NoOrphan
  NothingLeftBehind
PROPERTIES
  DeletionIsFinal
  RevivedOnlyByOverlap
  ImplementsDirectory
  CallsEnd
\* All calls may be answered.
CHECK_DEADLOCK FALSE

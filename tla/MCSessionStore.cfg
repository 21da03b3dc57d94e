\* Two stores of one process, two damages.
CONSTANTS
  p = p
  s1 = s1
  s2 = s2
  i1 = i1
  i2 = i2
  v1 = v1
  v2 = v2
  None = None
  Procs <- OneProc
  Stores <- TwoStores
  ProcOf <- Shared
  Ids <- TwoIds
  Values <- TwoValues
  MaxDamage = 2
  ReadErrors = FALSE
SPECIFICATION Spec
PROPERTIES
  ImplementsMap
  BytesKept

SPECIFICATION Spec
CONSTANTS
  Timers = {t1}
  NoTimer = none
  NearSize = 2
  LevelSize = 2
  Span <- TinySpan
  Intervals <- AllRings
  Loops <- MCLoops
  MaxJiffies = 36
CHECK_DEADLOCK FALSE
INVARIANTS
  ExactlyOnePlace
  

SPECIFICATION Spec
CONSTANTS
  Timers = {t1, t2}
  NoTimer = none
  NearSize = 4
  LevelSize = 2
  Span <- MCSpan
  Intervals <- MCIntervals
  Loops <- MCLoops
  MaxJiffies = 5
SYMMETRY TimerSymmetry
CHECK_DEADLOCK FALSE
INVARIANTS
  TypeOK
  ExactlyOnePlace
  LenAccurate
  
  AtMostOneLateFire
  RegistryComplete
PROPERTY MeetsContract

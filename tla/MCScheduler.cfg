SPECIFICATION Spec
CONSTANTS
  Keys = {k1, k2}
  NoKey = nokey
  Nodes = {n1, n2, n3}
  NoNode = nonode
  MaxFires = 2
  MaxOps = 4
  MaxCrashes = 1
  MaxFaults = 1
SYMMETRY MCSymmetry
CHECK_DEADLOCK FALSE
INVARIANTS
  TypeOK
  NoOrphan
  EnabledIsArmed
  OffStaysOff
  OnSurvives
  

SPECIFICATION Spec
CONSTANTS
  Msgs = {m1, m2}
  NoMsg = nomsg
  MaxOrder = 12
  MaxStops = 1
  MaxPauses = 1
  MaxResumes = 2
  MaxCrashes = 1
  MaxFaults = 1
SYMMETRY MCSymmetry
CHECK_DEADLOCK FALSE
INVARIANTS
  TypeOK
  RefIsLive
  
  
  
PROPERTY TerminalStays

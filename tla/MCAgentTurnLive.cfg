SPECIFICATION FairSpec
CONSTANTS
  Msgs = {m1, m2}
  NoMsg = nomsg
  MaxOrder = 12
  MaxStops = 1
  MaxPauses = 1
  MaxResumes = 1
  MaxCrashes = 0
  MaxFaults = 0
CHECK_DEADLOCK FALSE
PROPERTIES
  StopReturns
  

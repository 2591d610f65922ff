SPECIFICATION Spec
CONSTANTS
  Msgs = {m1, m2}
  NoMsg = nomsg
  MaxOrder = 12
  MaxStops = 0
  MaxPauses = 0
  MaxResumes = 0
  MaxCrashes = 0
  MaxFaults = 0
CHECK_DEADLOCK FALSE
INVARIANT NoMessageLost

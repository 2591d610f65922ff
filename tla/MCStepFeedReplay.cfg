SPECIFICATION Spec
CONSTANTS
  s1 = s1
  s2 = s2
  Steps = {s1, s2}
  NoFetch = NoFetch
  NoAnswer = NoAnswer
  MaxSeq = 4
  MaxLag = 2
  MaxAsks = 1
  MaxFaults = 1
CHECK_DEADLOCK FALSE
PROPERTY ReplayAddsNone

SPECIFICATION FairSpec
CONSTANTS
  Keys = {k1}
  NoKey = nokey
  Nodes = {n1, n2, n3}
  NoNode = nonode
  MaxFires = 1
  MaxOps = 3
  MaxCrashes = 1
  MaxFaults = 1
CHECK_DEADLOCK FALSE
PROPERTY KeepsFiring

SPECIFICATION FairSpec
CONSTANTS
  t1 = t1
  t2 = t2
  Past = {}
  NoTurn = NoTurn
  NoAnswer = NoAnswer
  Turns = {t1}
  Rich = {t1}
  Kinds = {"tool", "ask"}
  Rungs = 1
  MaxProbes = 1
  MaxRev = 2
  MaxFlights = 2
  MaxFaults = 1
  MaxAsks = 0
CHECK_DEADLOCK FALSE

PROPERTIES Unpinned

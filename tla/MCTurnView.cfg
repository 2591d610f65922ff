SPECIFICATION Spec
CONSTANTS
  t1 = t1
  t2 = t2
  Past = {t2}
  NoTurn = NoTurn
  NoAnswer = NoAnswer
  Turns = {t1, t2}
  Rich = {t2}
  Kinds = {}
  Rungs = 1
  MaxProbes = 1
  MaxRev = 3
  MaxFlights = 2
  MaxFaults = 1
  MaxAsks = 1
CHECK_DEADLOCK FALSE
INVARIANTS TypeOK  OneLadder ParkedIsCovered
PROPERTIES RevisionNeverFalls NewestAnswerWins OnlyNewsRevives SummarySettles

\* Two workers seat two employees while two handlers register numbers.
CONSTANTS
  w1 = w1  w2 = w2  ana = ana  ben = ben  h1 = h1  h2 = h2  k1 = k1  k2 = k2
  None = None
  Numbers = {1, 2}
  Employees = {ana, ben}
  Workers = {w1, w2}
  Handlers = {h1, h2}
  Keys = {k1, k2}
  Bodies <- Requests
  MaxRuns = 3
  MaxFaults = 1
SPECIFICATION Spec
INVARIANTS SeatMatchesStep WedgedOnlyByFaults
PROPERTIES SeatsFit AnsweredIsFinal
CHECK_DEADLOCK FALSE

SPECIFICATION Spec
CONSTANTS
  Runs = {r1}
  Program <- InARow
  Loops = {l1}
  MaxReplays = 1
  MaxTouches = 2
  SendDeadline = 2
  WakePoll = 1
  Overnight = 1
  Ceiling = 1
  MaxTime = 3
  MaxMishaps = 1
  MaxActs = 1
INVARIANTS  UnenrolledIsNotWoken
PROPERTIES EndedIsOver
CHECK_DEADLOCK FALSE

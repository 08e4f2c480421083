\* Two employees, two calls.
CONSTANTS
  e1 = e1  e2 = e2  t1 = t1  t2 = t2  c1 = c1  c2 = c2
  Nobody = Nobody
  Employees = {e1, e2}
  Teams = {t1, t2}
  FirstTeam <- Together
  Calls = {c1, c2}
  Amounts = {1, 2}
  PerTransaction = 2
  DailyTotal <- CapsApart
  DailyCount = 2
  TeamBudget <- BudgetsApart
  Suspendable = {e1}
  PolicyTransaction = 2
  PolicyDay = 2
  ApprovalAbove = 2
  MaxReservations = 2
  MaxApprovals = 1
  MaxMoves = 1
  MaxFailures = 1
SPECIFICATION Spec
INVARIANTS TypeOK LedgersAgree ApprovedOnce MovedIsVisible LocksComeFree
PROPERTIES RuledWithinDay
SYMMETRY CallSymmetry

\* One employee whose payment times out after it landed.
CONSTANTS
  e1 = e1  e2 = e2  t1 = t1  t2 = t2  c1 = c1  c2 = c2
  Nobody = Nobody
  Employees = {e1}
  Teams = {t1}
  FirstTeam <- Alone
  Calls = {c1}
  Amounts = {2}
  PerTransaction = 2
  DailyTotal <- CapAlone
  DailyCount = 2
  TeamBudget <- BudgetAlone
  Suspendable = {e1}
  PolicyTransaction = 2
  PolicyDay = 2
  ApprovalAbove = 2
  MaxReservations = 2
  MaxApprovals = 2
  MaxMoves = 0
  MaxFailures = 0
SPECIFICATION Spec
INVARIANTS MovedWithinDay

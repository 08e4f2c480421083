\* A call that dies on a retried step leaves no evidence, and is repeated.
CONSTANTS
  e1 = e1  r1 = r1  r2 = r2  w1 = w1  w2 = w2  w3 = w3
  Nobody = Nobody
  Employees = {e1}
  Resources = {r1}
  EmployeeOf <- OwnerOfOne
  DependsOn <- NoDependency
  Workers = {w1, w2}
  MaxAttempts = 2
  SweepLimit = 1
  Answers = {"ready", "retryable"}
  Terminable = {}
  Suspendable = {}
  Crowdable = {}
  MayStop = FALSE
  MaxBought = 1
  MaxAccords = 1
  MaxCrashes = 1
  MaxErrors = 0
SPECIFICATION Spec
PROPERTIES NoBlindRetry
SYMMETRY WorkerSymmetry
\* A fully provisioned tenant has nothing to do: the loop polls and finds no work.
CHECK_DEADLOCK FALSE

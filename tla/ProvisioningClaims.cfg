\* Two steps, the second depending on the first, three worker ids of which two
\* may die: claims, orphans, accords and the order of the waves.
CONSTANTS
  e1 = e1  r1 = r1  r2 = r2  w1 = w1  w2 = w2  w3 = w3
  Nobody = Nobody
  Employees = {e1}
  Resources = {r1, r2}
  EmployeeOf <- OwnerOfTwo
  DependsOn <- SecondOnFirst
  Workers = {w1, w2, w3}
  MaxAttempts = 2
  SweepLimit = 2
  Answers = {"ready", "waiting", "retryable"}
  Terminable = {}
  Suspendable = {}
  Crowdable = {}
  MayStop = FALSE
  MaxBought = 1
  MaxAccords = 1
  MaxCrashes = 2
  MaxErrors = 0
SPECIFICATION Spec
INVARIANTS DependenciesReady DeathLeavesEvidence AccordSpentOnce
PROPERTIES FirstDeathIsParked ReadyStays
SYMMETRY WorkerSymmetry
\* A fully provisioned tenant has nothing to do: the loop polls and finds no work.
CHECK_DEADLOCK FALSE

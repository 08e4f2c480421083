\* One step of an employee that may be suspended or terminated, in a company that
\* may be stopped: release, crash detection and their liveness.
CONSTANTS
  e1 = e1  r1 = r1  r2 = r2  w1 = w1  w2 = w2  w3 = w3
  Nobody = Nobody
  Employees = {e1}
  Resources = {r1}
  EmployeeOf <- OwnerOfOne
  DependsOn <- NoDependency
  Workers = {w1, w2}
  MaxAttempts = 1
  SweepLimit = 1
  Answers = {"ready", "retryable"}
  Terminable = {e1}
  Suspendable = {e1}
  Crowdable = {e1}
  MayStop = TRUE
  MaxBought = 2
  MaxAccords = 0
  MaxCrashes = 1
  MaxErrors = 1
SPECIFICATION FairSpec
PROPERTIES NothingForgotten BoundIsGivenBack UnknownReachesHuman
\* A fully provisioned tenant has nothing to do: the loop polls and finds no work.
CHECK_DEADLOCK FALSE

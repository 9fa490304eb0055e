SPECIFICATION FairSpec
CONSTANTS
  Driver = "postgres"
  j1 = j1
  j2 = j2
  Jobs = {j1, j2}
  NoJob = NoJob
  Ticks = {t1, t2}
  MaxAttemptsOf <- MCMaxAttempts
  CancelSets <- MCCancelSets
  MaxFaults = 1
INVARIANTS
  RetryBudget
  OneExecution
  ProcessingIsHeld
  SuccessIsBacked
PROPERTIES
  GivenUpIsNotDone
  JobsSettle
  FailuresReported
CHECK_DEADLOCK TRUE

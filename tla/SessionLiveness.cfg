CONSTANTS
  j1 = j1
  j2 = j2
  j3 = j3
  t1 = t1
  t2 = t2
  None = None
  JobIds <- MCJobIds2
  Threads <- MCThreads1
  Workers = 1
  Timeout = 2
  FinalStatuses = {None, "FAILED"}
  TestClasses = {"CancelableRuntimeJob", "FailedRanTooLongRuntimeJob", "TimedRuntimeJob"}
SPECIFICATION FairSpec
INVARIANT SessionTypeOK
PROPERTY CallsTerminate

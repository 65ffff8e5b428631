CONSTANTS
  j1 = j1
  j2 = j2
  j3 = j3
  None = None
  JobIds <- MCJobIds2
  Workers = 1
  FinalStatuses = {None, "COMPLETED", "FAILED"}
  TestClasses = {"BaseFakeRuntimeJob", "FailedRuntimeJob", "FailedRanTooLongRuntimeJob", "CancelableRuntimeJob", "CustomResultRuntimeJob", "TimedRuntimeJob"}
SPECIFICATION FakeSpec
INVARIANT TypeOK
INVARIANT ResultOnlyWhenTerminal
PROPERTY JobLifecycleSpec

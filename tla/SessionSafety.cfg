CONSTANTS
  j1 = j1
  j2 = j2
  j3 = j3
  t1 = t1
  t2 = t2
  None = None
  JobIds <- MCJobIds3
  Threads <- MCThreads2
  Workers = 1
  Timeout = None
  FinalStatuses = {None}
  TestClasses = {"CancelableRuntimeJob"}
SPECIFICATION Spec
SYMMETRY MCSymmetry
INVARIANT SessionGrouping

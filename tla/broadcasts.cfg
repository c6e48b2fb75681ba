CONSTANTS
  Users <- ThreeUsers
  Outsider = 2
  Batch = 2
  MaxJobs = 2
  MaxActs = 2
  MaxFailures = 1
SPECIFICATION Spec
INVARIANTS TypeOK RepeatsNeedFailure CompletedIsTrue OneAfterLeaving LastNewsTrue
PROPERTIES QueueEmpties
CHECK_DEADLOCK FALSE

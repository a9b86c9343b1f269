\* The host stops while the pump reads a run.
CONSTANTS
  wf = wf v1 = v1 v2 = v2 None = None
  r1 = r1 g1 = g1 s1 = s1
  Runs = {r1}
  Workflows = {wf}
  Registrations = {g1}
  WorkflowOf <- MCWorkflowOf
  VersionOf <- MCOneVersion
  Disposable = {}
  Slots = {s1}
  MaxConcurrentRuns = 1
  MaxTimerDelay = 1
  Schedules = {0}
  MaxTime = 0
  MaxBoots = 1
  MayStop = TRUE
  MayCrash = FALSE
  MayFail = {}
SPECIFICATION Spec
CHECK_DEADLOCK FALSE
INVARIANT StopDrains

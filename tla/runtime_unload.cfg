\* A plugin is unloaded while the pump holds its scheduled run.
CONSTANTS
  wf = wf v1 = v1 v2 = v2 None = None
  r1 = r1 g1 = g1 g2 = g2 s1 = s1
  Runs = {r1}
  Workflows = {wf}
  Registrations = {g1, g2}
  WorkflowOf <- MCWorkflowOf
  VersionOf <- MCOneVersion
  Disposable = {g1}
  Slots = {s1}
  MaxConcurrentRuns = 1
  MaxTimerDelay = 1
  Schedules = {1}
  MaxTime = 1
  MaxBoots = 1
  MayStop = FALSE
  MayCrash = FALSE
  MayFail = {}
SPECIFICATION Spec
CHECK_DEADLOCK FALSE
INVARIANT DisposalDrains

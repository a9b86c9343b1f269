\* A scheduled run of another version is cancelled while its recovery reads it.
CONSTANTS
  wf = wf v1 = v1 v2 = v2 None = None
  r1 = r1 g1 = g1 g2 = g2 s1 = s1
  Runs = {r1}
  Workflows = {wf}
  Registrations = {g1, g2}
  WorkflowOf <- MCWorkflowOf
  VersionOf <- MCTwoVersions
  Disposable = {}
  Slots = {s1}
  MaxConcurrentRuns = 1
  MaxTimerDelay = 1
  Schedules = {0, 1}
  MaxTime = 1
  MaxBoots = 2
  MayStop = FALSE
  MayCrash = TRUE
  MayFail = {}
SPECIFICATION Spec
CHECK_DEADLOCK FALSE
PROPERTY TerminalFinal

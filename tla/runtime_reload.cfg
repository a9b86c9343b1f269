\* A plugin is unloaded and another registers the same workflow, around an immediate or a
\* scheduled run; the host may stop and the disposer may fail to read; under fairness.
CONSTANTS
  wf = wf v1 = v1 v2 = v2 None = None
  r1 = r1 g1 = g1 g2 = g2 s1 = s1
  Runs = {r1}
  Workflows = {wf}
  Registrations = {g1, g2}
  WorkflowOf <- MCWorkflowOf
  VersionOf <- MCOneVersion
  Disposable = {g1}
  Slots = {s1}
  MaxConcurrentRuns = 1
  MaxTimerDelay = 1
  Schedules = {0, 1}
  MaxTime = 1
  MaxBoots = 1
  MayStop = TRUE
  MayCrash = FALSE
  MayFail = {"disposer"}
SPECIFICATION FairSpec
CHECK_DEADLOCK FALSE
INVARIANTS QueuedHasHolder ImmediateRunsDrained StopDecides
PROPERTY DisposerSettles

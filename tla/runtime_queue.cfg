\* Two runs for one slot and a spare activation, with a repository that
\* may reject any call; under fairness.
CONSTANTS
  wf = wf v1 = v1 v2 = v2 None = None
  r1 = r1 r2 = r2 g1 = g1 s1 = s1 s2 = s2
  Runs = {r1, r2}
  Workflows = {wf}
  Registrations = {g1}
  WorkflowOf <- MCWorkflowOf
  VersionOf <- MCOneVersion
  Disposable = {}
  Slots = {s1, s2}
  MaxConcurrentRuns = 1
  MaxTimerDelay = 1
  Schedules = {0}
  MaxTime = 0
  MaxBoots = 1
  MayStop = FALSE
  MayCrash = FALSE
  MayFail = {"update", "execution", "drain", "release", "recovery", "disposer"}
SPECIFICATION FairSpec
CHECK_DEADLOCK FALSE
INVARIANTS ConcurrencyBound CancelSavedBeforeAbort
PROPERTIES LegalTransitions RunLeavesQueue CancelledExecutionEnds

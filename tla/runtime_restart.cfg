\* One run scheduled over several timer segments; the host stops, crashes and starts again,
\* with the same workflow version or another, and the repository may reject any call.
CONSTANTS
  wf = wf v1 = v1 v2 = v2 None = None
  r1 = r1 g1 = g1 g2 = g2 s1 = s1 s2 = s2
  Runs = {r1}
  Workflows = {wf}
  Registrations = {g1, g2}
  WorkflowOf <- MCWorkflowOf
  VersionOf <- MCTwoVersions
  Disposable = {}
  Slots = {s1, s2}
  MaxConcurrentRuns = 2
  MaxTimerDelay = 1
  Schedules = {0, 3}
  MaxTime = 3
  MaxBoots = 3
  MayStop = TRUE
  MayCrash = TRUE
  MayFail = {"update", "execution", "drain", "release", "recovery", "disposer"}
SPECIFICATION FairSpec
CHECK_DEADLOCK FALSE
INVARIANTS
  TypeOK QueuedHeldOnce SingleDispatch NeverEarly NoStrandedSchedule
PROPERTY StopEnds

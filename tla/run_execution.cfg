\* Two nodes, three reports of which the last two are kept; failures of the repository, a stop, a crash.
CONSTANTS
  NodeCount = 2
  MaxFacts = 2
  MaxReports = 3
  MayFail = TRUE
  MayStop = TRUE
  MayCrash = TRUE
SPECIFICATION FairSpec
CHECK_DEADLOCK FALSE
INVARIANTS
  ReviewMeansComplete NothingLeftRunning LogAgrees NewestFactsKept EndedRunIsSettled
PROPERTIES FinishedNodesFrozen CancelledRunEnds

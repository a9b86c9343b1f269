\* Three runs in pages of one; a poll and a call of the user in flight, whose command
\* refreshes too, so that refreshes overtake each other and a page; one failure.
CONSTANTS
  MaxRuns = 3
  MaxVersion = 2
  MaxFailures = 1
  PageSize = 1
  Polls = {p1}
  Users = {u1}
  p1 = p1 u1 = u1
SPECIFICATION FairSpec
CHECK_DEADLOCK FALSE
INVARIANT LoadingMeansCall
PROPERTIES Converges PagesMeet FormFrees

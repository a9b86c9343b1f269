\* Two callers, two writes, runs created at the same time or not, every failure and crash.
CONSTANTS
  Runs = {1, 2, 3}
  NodeCount = 1
  None = None
  c1 = c1 c2 = c2
  Callers = {c1, c2}
  Files <- MCFiles
  Times = {1, 2}
  MaxFacts = 1
  MaxCalls = 2
  PageLimits = {1}
SPECIFICATION Spec
CHECK_DEADLOCK FALSE
INVARIANTS HeldIsStored OpenIsCurrent WalkComplete
PROPERTIES WritesAreAtomic SchemaStaysWhole
SYMMETRY MCCallers

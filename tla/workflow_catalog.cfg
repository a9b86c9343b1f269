\* A run of either workflow: up to two pieces of text, reported at once or apart, and a
\* third that is too much; notes of three lines, two of which count.
CONSTANTS
    OutputLimit = 2
    FlushSize = 2
    MaxReports = 3
    Keywords = {k1, k2}
    NoteLimit = 2
    Blank = Blank
    DemoEnabled = TRUE
    Inputs <- MCInputs
SPECIFICATION FairSpec
INVARIANTS TraceInOrder ResultIsReported NothingLeftBehind ChecklistFitsRisk
PROPERTY WorkflowEnds
CHECK_DEADLOCK FALSE

SPECIFICATION FairSpec
CONSTANTS
    cancel = cancel
    approve = approve
    start = start
    note = note
    None = None
    Updates <- MCUpdates
    Rejects <- MCRejects
INVARIANTS
    NoConflict
    MapHoldsLast
PROPERTIES
    UpdateSettles
    Atomic
CHECK_DEADLOCK FALSE

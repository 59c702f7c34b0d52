SPECIFICATION MCSpec
CHECK_DEADLOCK FALSE
CONSTANTS
    m1 = m1
    m2 = m2
    m3 = m3
    Modules <- ModulesValue
    Module <- ModuleValue
    Slot <- SlotValue
    Skipped <- SkippedValue
    Flags <- AllFlags
    FirstBatch = 1
    Restart = FALSE
    PinsMissing = {TRUE, FALSE}
    MayFail = TRUE
    MaxBegin = 2
INVARIANT StatusTellsResult
 
INVARIANT ResultsComplete
INVARIANT NothingLeftOpen
INVARIANT SavedIsWhole
PROPERTY IterationEnds

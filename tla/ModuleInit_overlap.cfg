CONSTANTS
    Threads = {t1, t2}
    Modules = {m1, m2}
    NoThread = NoThread
    External = {m2}
    Reentrant = {m1}
    Overlap = TRUE
    MaxCount = 6
    MaxFork = 1
CHECK_DEADLOCK FALSE
SYMMETRY ThreadSymmetry
SPECIFICATION Spec
INVARIANT CallsMatchModuleState
INVARIANT OneCallAtATime

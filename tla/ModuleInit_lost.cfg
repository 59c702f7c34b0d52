CONSTANTS
    Threads = {t1, t2}
    Modules = {m1}
    NoThread = NoThread
    External = {}
    Reentrant = {}
    Overlap = TRUE
    MaxCount = 9
    MaxFork = 0
SYMMETRY ThreadSymmetry
CHECK_DEADLOCK FALSE
SPECIFICATION Spec
INVARIANT InitializedStaysUp

CONSTANTS
    Threads = {t1, t2}
    Modules = {m1, m2}
    NoThread = NoThread
    External = {}
    Reentrant = {}
    Overlap = FALSE
    MaxCount = 9
    MaxFork = 1
SPECIFICATION FairSpec
INVARIANT TypeOK
INVARIANT CountsHold
PROPERTY ImplementsManagedModule
PROPERTY CallsReturn

SPECIFICATION MCSpec
CONSTANTS
    Parts = {"socket"}
    Threads = {t1, t2}
    Troubles = {{"hangup"}}
    NoThread = NoThread
    MaxCalls <- HangupOnly
    Procs = {p1}
INVARIANT WaitersHaveReader

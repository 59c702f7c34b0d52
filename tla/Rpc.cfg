SPECIFICATION MCSpec
CONSTANTS
    Parts = {"socket", "frame", "link"}
    Threads = {t1, t2, t3}
    Troubles = {{}, {"hangup", "finalize"}}
    NoThread = NoThread
    MaxCalls <- FourOrThree
    Procs = {p1, p2}
INVARIANT ResponsesMatch
INVARIANT FramesIntact
INVARIANT OwnConnection
PROPERTY CallsReturn
PROPERTY IdleExits

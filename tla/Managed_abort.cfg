CONSTANTS
    Parts = {"lists"}
    c1 = c1  c2 = c2  t1 = t1  t2 = t2  t3 = t3  m1 = m1  m2 = m2
    Closures = {c1, c2}
    Threads = {t1, t2, t3}
    ClosureOf <- SharedClosure
    Slots = {s1, s2}
    Handles = {h1, h2, h3}
    None = None
    Reuse = FALSE
    Worlds <- PlugOrFork
    MaxFork = 2
    Callers = {a1, a2}
    Pair = {b1, b2}
    Settings <- CriticalMissing
SYMMETRY CallerSymmetry
SPECIFICATION MCSpec
INVARIANT CriticalEnforced

\* A plain start of a task.
CONSTANTS
    Path = {p1, p2}
    Dir = {d1, d2}
    Task = {t1}
    Stream = {s1}
    None = None
    Settings <- TwoSettings
    Hazards = {}
    p1 = p1
    p2 = p2
    d1 = d1
    d2 = d2
    t1 = t1
    s1 = s1
SPECIFICATION Spec
INVARIANTS ClientReachesVm
CHECK_DEADLOCK FALSE

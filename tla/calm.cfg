\* No faults; two tasks whose calls overlap.
CONSTANTS
    Task = {t1,t2}
    Vm = {v1,v2}
    Call = {c1,c2,c3}
    Handle = {h1,h2}
    ExitStatus = {clean, signalled}
    None = None
    Hazards = {}
    JobConfigs <- FullOrBare
    t1 = t1
    t2 = t2
    v1 = v1
    v2 = v2
    c1 = c1
    c2 = c2
    c3 = c3
    h1 = h1
    h2 = h2
    clean = clean
    signalled = signalled
SPECIFICATION Spec
SYMMETRY Symmetry
INVARIANTS QuietInv HostResourcesOwned NetworkUp
PROPERTIES DestroyCleansUp
CHECK_DEADLOCK FALSE

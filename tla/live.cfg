\* StopTask and WaitTask against DestroyTask, forced or not, at any moment.
CONSTANTS
    Task = {t1}
    Vm = {v1}
    Call = {c1,c2,c3}
    Handle = {h1}
    ExitStatus = {clean}
    None = None
    Hazards = {"executorCrash", "destroyRunning", "waitCancel", "pidReuse"}
    JobConfigs <- FullOnly
    t1 = t1
    v1 = v1
    c1 = c1
    c2 = c2
    c3 = c3
    h1 = h1
    clean = clean
SPECIFICATION FairSpec
INVARIANTS NoOrphan NobodyStalls
PROPERTIES StopEndsTask WaiterAnswered
CHECK_DEADLOCK FALSE

\* RecoverTask with the executor gone.
CONSTANTS
    Task = {t1}
    Vm = {v1}
    Call = {c1,c2}
    Handle = {h1}
    ExitStatus = {clean}
    None = None
    Hazards = {"pluginCrash","executorCrash"}
    JobConfigs <- FullOnly
    t1 = t1
    v1 = v1
    c1 = c1
    c2 = c2
    h1 = h1
    clean = clean
SPECIFICATION Spec
INVARIANT MonitorAttached
CHECK_DEADLOCK FALSE

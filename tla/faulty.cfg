\* Two undisciplined callers for one ID, with crashes of the plugin and of
\* executors, and a kept task state that cannot be read.
CONSTANTS
    Task = {t1}
    Vm = {v1,v2}
    Call = {c1,c2}
    Handle = {h1,h2}
    ExitStatus = {clean}
    None = None
    Hazards = {"pluginCrash", "executorCrash", "duplicateCalls", "badState", "waitCancel", "pidReuse"}
    JobConfigs <- BareOnly
    t1 = t1
    v1 = v1
    v2 = v2
    clean = clean
    c1 = c1
    c2 = c2
    h1 = h1
    h2 = h2
SPECIFICATION Spec
SYMMETRY Symmetry
INVARIANTS ExitInv ReportIsReal
CHECK_DEADLOCK FALSE

\* Host commands fail, tags move, and the plugin crashes and is restarted at any moment.
CONSTANTS
    Task = {t1}
    Vm = {v1}
    Call = {c1,c2,c3}
    Handle = {h1,h2}
    ExitStatus = {clean, signalled}
    None = None
    Hazards = {"hostFails", "tagMoves", "pluginCrash", "destroyRunning", "waitCancel", "pidReuse"}
    JobConfigs <- FullOrImage
    t1 = t1
    v1 = v1
    c1 = c1
    c2 = c2
    c3 = c3
    h1 = h1
    h2 = h2
    clean = clean
    signalled = signalled
SPECIFICATION Spec
SYMMETRY Symmetry
INVARIANTS OwnInv OneMonitor ExitedVmIsDead
PROPERTIES NeverDropRunningVm LostOnlyByStart LeaksOnlyByFailure NetworkCutOnlyByDestroy KeepsContract
CHECK_DEADLOCK FALSE

\* The plugin is configured again and restarted, binaries come and go, streams are cancelled.
CONSTANTS
    Path = {p1, p2}
    Dir = {d1, d2}
    Task = {t1}
    Stream = {s1}
    None = None
    Settings <- TwoSettings
    Hazards = {"reconfigure", "upgrade", "cancel", "executorCrash", "pluginCrash"}
    p1 = p1
    p2 = p2
    d1 = d1
    d2 = d2
    t1 = t1
    s1 = s1
SPECIFICATION FairSpec
INVARIANTS StreamsInv VersionIsOfPath SentIsFinite SocketDirSurvives NeverHeldUp
PROPERTIES CatchesUp StreamEnds

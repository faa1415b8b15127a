\* Pulls that overlap, fail and crash; a tag moves when no call is between its two
\* resolutions of it.
CONSTANTS
    m1 = m1
    m2 = m2
    Puller = {p1, p2}
    Ref = {r1, r2}
    Manifest = {m1, m2}
    Name <- FileNames
    Files <- TwoImages
    Faults = {"registryFails", "crash", "tagMoves"}
    None = None
    p1 = p1
    p2 = p2
    r1 = r1
    r2 = r2
SPECIFICATION FairSpec
INVARIANTS CacheInv CompleteIsWhole OneWriter
PROPERTIES CompleteIsStable KeepsPromise LockIsFreed
CHECK_DEADLOCK FALSE

\* The tag moves between the two resolutions of one pull.
CONSTANTS
    m1 = m1
    m2 = m2
    Puller = {p1,p2}
    Ref = {r1}
    Manifest = {m1, m2}
    Name <- FileNames
    Files <- TwoImages
    Faults = {"tagMoves", "tagRaces"}
    None = None
    p1 = p1
    p2 = p2
    r1 = r1
SPECIFICATION Spec
INVARIANT CompleteIsWhole
CHECK_DEADLOCK FALSE

\* Jobs of every size, among them that of TestBuildCHArgs; the tag stays.
CONSTANTS
    Image <- MCImage
    Metadata <- MCMetadata
    Job <- MCJob
    Text <- MCText
    MaxDisk = 3
    TagMoves = FALSE
    None = None
    diskImage = diskImage
    seedImage = seedImage
    bareImage = bareImage
    noImage = noImage
SPECIFICATION Spec
INVARIANTS LaunchesAsTested

\* Jobs with and without an image whose tag moves; host commands fail.
CONSTANTS
    Image <- MCImage
    Metadata <- MCMetadata
    Job <- MCJob
    Text <- MCText
    MaxDisk = 3
    TagMoves = TRUE
    None = None
    diskImage = diskImage
    seedImage = seedImage
    bareImage = bareImage
    noImage = noImage
SPECIFICATION Spec
INVARIANTS PreparedInv JobWins PathsResolved OverlaysAgree BasesKept HostMatches SeedOfJob GuestFits
PROPERTIES FreshAtLaunch

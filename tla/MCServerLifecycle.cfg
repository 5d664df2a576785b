SPECIFICATION FairSpec
CONSTANTS
    Modes = {"cli", "fixture"}
    Files <- MCFiles
    Unreadable = {"broken"}
    Refused = {"reserved"}
    MaxTests = 3
INVARIANTS
    ServedOnlyWhenReady
    UrlOnlyWhileServing
    TestsStartClean
PROPERTY
    ServerEnds
CHECK_DEADLOCK FALSE

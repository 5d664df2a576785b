SPECIFICATION FairSpec
CONSTANTS
    Requests = {r1}
    HttpRequests <- TwoValues
    Mocks <- CollectionMocks
    Replies <- MixedReplies
    AllowedHosts <- BothHosts
    Exportable <- CollectionExports
    MaxStores = 2
    MaxRevision = 1
    NoMock = NoMock
    NoRecording = NoRecording
    NoHost = NoHost
    NoSnapshot = NoSnapshot
    NoAnswer = NoAnswer
    t1 = t1
    v1 = v1
    v2 = v2
    h = h
    near = near
    far = far
INVARIANTS
    WithinLimits
    RecordedFromUpstream
    NewestKept
    ExportRefusedOnlyForEntry
PROPERTIES
    EvictedOnlyToFit
    ImportRestores
    KeepsContract
    EveryRequestAnswered

SPECIFICATION Spec
CONSTANTS
    Requests = {r1, r2}
    HttpRequests <- OneTarget
    Mocks <- RacingMocks
    Replies <- ValidReplies
    AllowedHosts <- NearHost
    Exportable = {}
    MaxStores = 3
    MaxRevision = 1
    NoMock = NoMock
    NoRecording = NoRecording
    NoHost = NoHost
    NoSnapshot = NoSnapshot
    NoAnswer = NoAnswer
    t1 = t1
    v1 = v1
    v2 = v2
    h = h
    near = near
    far = far
SYMMETRY RequestSymmetry
INVARIANTS
    TypeOK
    OneLiveGeneration
PROPERTIES
    RetiredStoresFrozen
    KeepsContract

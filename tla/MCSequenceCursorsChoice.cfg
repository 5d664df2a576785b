SPECIFICATION FairSpec
CONSTANTS
    Requests = {r1}
    HttpRequests = {get, post}
    Mocks <- ChoiceMocks
    MaxCursors = 4
    NoMock = NoMock
    NoSequence = NoSequence
    NoResponse = NoResponse
    Unsequenced = Unsequenced
    Exhausted = Exhausted
    Cancelled = Cancelled
    get = get
    post = post
    ra = ra
    rb = rb
    rc = rc
INVARIANTS
    TypeOK
    SequencesMatchMock
PROPERTIES
    KeepsContract
    EveryRequestAnswered

SPECIFICATION Spec
CONSTANTS
    Requests = {r1, r2}
    HttpRequests = {get, post}
    Mocks <- RacingMocks
    MaxCursors = 4
    NoMock = NoMock
    NoSequence = NoSequence
    NoResponse = NoResponse
    Unsequenced = Unsequenced
    Exhausted = Exhausted
    Cancelled = Cancelled
    get = get
    post = post
    ra = ra
    rb = rb
    rc = rc
SYMMETRY RequestSymmetry
PROPERTY
    KeepsContract

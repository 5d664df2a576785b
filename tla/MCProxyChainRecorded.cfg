SPECIFICATION Spec
CONSTANTS
    a = a
    a2 = a2
    b = b
    p = p
    q = q
    Requests = {r1}
    Apps = {a, a2, b}
    Processes = {p, q}
    ProcessOf <- MCProcessOf
    Mocks <- MCMocks
    NoMock = NoMock
    NoHost = NoHost
    Unreachable = Unreachable
    AllowedHosts = {a, b, Unreachable}
    MaxRestarts <- MCMaxRestarts
INVARIANT
    LoopRejectionsNotRecorded

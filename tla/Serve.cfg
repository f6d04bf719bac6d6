SPECIFICATION Spec
CONSTANTS
    Workers = {w1, w2}
    Scenarios <- AllScenarios
    MaxRequests = 3
    Forbidden = Forbidden
    BadGateway = BadGateway
    BadRequest = BadRequest
    None = None
SYMMETRY WorkerSymmetry
INVARIANTS AccountsBalance CacheHoldsPublic OwnAnswer RightOrigin
           DeniedStopsHere FailClosed

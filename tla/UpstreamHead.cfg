SPECIFICATION Spec
CONSTANTS
    Responses <- HeadResponses
    MaxHeader = 2
    MaxBody = 17
    MaxChunk = 20
INVARIANTS TimeoutMeansIncomplete

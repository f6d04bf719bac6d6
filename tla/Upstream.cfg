SPECIFICATION Spec
CONSTANTS
    Responses <- FramedResponses
    MaxHeader = 2
    MaxBody = 17
    MaxChunk = 20
INVARIANTS OkIsFramed TimeoutMeansIncomplete
PROPERTIES FetchEnds

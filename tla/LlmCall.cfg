SPECIFICATION Spec
CONSTANTS
    Request = {r1, r2}
    N = 3
    MaxRetries = 1
    DegradeToMock = TRUE
    None = None
PROPERTIES KeepsThePromise EveryRequestEnds

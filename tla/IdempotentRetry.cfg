CONSTANTS
    w1 = w1
    w2 = w2
    key = key
    NoKey = NoKey
    body1 = body1
    body2 = body2
    small1 = small1
    small2 = small2
    large = large
    None = None
    Workers <- MCWorkers
    Keys <- MCKeys
    Bodies <- MCBodies
    Contents <- MCContents
    Large <- NoneLarge
    Lifetime = 2
    WorkerTimeout = 1
    ViewBound = 1
SPECIFICATION Spec
PROPERTY RetriesGetTheSameResponse

SPECIFICATION Spec
CONSTANTS
    Caller = {c1, c2}
    FailThreshold = 2
    Attempts = 2
PROPERTY RateLimitNeverTrips

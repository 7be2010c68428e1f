SPECIFICATION Spec
CONSTANTS
    Processes = {a, b, c}
    NoProcess = NoProcess
    MaxConcurrency = 1
    MaxCrashes = 1
    MaxSlow = 0
INVARIANT
    AtMostMaxConcurrency

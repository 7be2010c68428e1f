SPECIFICATION Spec
CONSTANTS
    o1 = o1
    o2 = o2
    Owners = {o1, o2}
    Fencers = {}
    Allowances = {primary}
    Attempts = {first}
    Results = {packet}
    NoResult = NoResult
    CallLimit = 1
    AssignmentLimit = 1
    MaxEpoch = 1
PROPERTY
    UnknownClosesOnFinding

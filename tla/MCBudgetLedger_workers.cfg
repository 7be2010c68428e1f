SPECIFICATION Spec
CONSTANTS
    o1 = o1
    o2 = o2
    Owners = {o1, o2}
    Fencers = {}
    Allowances = {primary, followup}
    Attempts = {first, second}
    Results = {packet}
    NoResult = NoResult
    CallLimit = 2
    AssignmentLimit = 3
    MaxEpoch = 1
SYMMETRY OwnerSymmetry
INVARIANTS
    TypeOK
    SingleDispatch
    CallNeverDisappears
    ExposureWithinLimit
PROPERTY
    PaysOnce

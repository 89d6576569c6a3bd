SPECIFICATION Spec
CONSTANTS
    Sessions = {s1, s2}
    Requests = {r1, r2}
    MaxEpoch = 3
INVARIANT TempMustBeChanged
CHECK_DEADLOCK FALSE

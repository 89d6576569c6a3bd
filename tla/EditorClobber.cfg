SPECIFICATION Spec
CONSTANTS
    Docs = {a, b}
    NoDoc = NoDoc
    Slots = {1, 2}
    MaxText = 2
    MaxVersion = 3
INVARIANT TextStays
CHECK_DEADLOCK FALSE

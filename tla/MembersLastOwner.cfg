SPECIFICATION MCSpec
CONSTANTS
    Users = {ann, bob, cy}
    Requests = {r1, r2}
    NoUser = NoUser
SYMMETRY Symmetry
PROPERTY LastOwnerStays

SPECIFICATION MCSpec
CONSTANTS
    Users = {ann, bob, cy}
    Requests = {r1, r2}
    NoUser = NoUser
    FirstAdmins = {ann}
    Ops = {"register"}
    Engine = "postgresql"
    Servers = {"empty sqlite"}
SYMMETRY Symmetry
INVARIANT FirstAccountIsAdmin
CHECK_DEADLOCK FALSE

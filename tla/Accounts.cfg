SPECIFICATION PeopleSpec
CONSTANTS
    Users = {ann, bob, cy}
    Requests = {r1, r2, r3}
    NoUser = NoUser
    FirstAdmins = {ann, bob}
    Ops = {"register", "demote", "deactivate", "reactivate"}
    Engine = "postgresql"
    Servers = {"postgresql", "sqlite", "empty postgresql"}
    Pair = {q1, q2}
    SessionRows = {s1, s2}
    Browsers = {b1, b2}
    Txns = {t1, t2}
    MaxEpoch = 2
    Ids = {1, 2, 3}
    Kids = {"a row"}
    Bases = {"short", "long"}
    Long = {"long"}
    Folders = {"outer", "inner"}
    Within <- MCWithin
    MaxCopies = 2
    Gone = Gone
    Database = "sqlite"
    Keys = {"a", "b"}
    Spare = "b"
    Limit = 1
    Window = 2
    Slots = 2
    MaxTracked = 1
    Life = 2
    MaxClock = 3
    MaxWait = 1
SYMMETRY PeopleSymmetry
INVARIANTS
    ServerHasAdmin
    OneBootstrapWhenEmpty
    SerialSessionsAreCurrent
    FlowsEndWhereTheyBegan
PROPERTIES
    SerialOwnersDecide
    ProjectsStaySound
    AccessIsBounded
CHECK_DEADLOCK FALSE

SPECIFICATION LiveSpec
CONSTANTS
    Requests = {r1, r2, r3}
    local = local
    twin1 = twin1
    twin2 = twin2
    tgt = tgt
    key = key
    Proposals = {local, twin1, twin2}
    Creates = {local}
    Preexisting = {local, twin1}
    Targets = {tgt}
    TargetOf <- MCTargetOf
    KeyOf <- MCKeyOf
    NoKey = NoKey
    NoProposal = NoProposal
    Engine = "postgresql"
    Serial = FALSE
    MaxVer = 1
    change1 = change1
    change2 = change2
    purge = purge
    other1 = other1
    other2 = other2
    sub1 = sub1
    sub2 = sub2
    Changes = {change1, change2, purge}
    Purges = {purge}
    Others = {other1, other2}
    Subs = {sub1, sub2}
    Wanted <- MCWanted
    Menu <- MCMenu
    Workers = {w1, w2}
    Threshold = 2
    MaxFaults = 1
CHECK_DEADLOCK FALSE
INVARIANTS OutboxIsTrueAndComplete DisabledAfterFailures
PROPERTIES NoEditOverwritten CallsEnd DeliveriesAreSettled

SPECIFICATION Spec
CONSTANTS
    Requests = {r1, r2, r3, r4}
    local = local
    twin1 = twin1
    twin2 = twin2
    tgt = tgt
    key = key
    Proposals = {local}
    Creates = {local}
    Preexisting = {local}
    Targets = {tgt}
    TargetOf <- MCTargetOf
    KeyOf <- MCKeyOf
    NoKey = NoKey
    NoProposal = NoProposal
    Engine = "sqlite"
    Serial = FALSE
    MaxVer = 0
CHECK_DEADLOCK FALSE
SYMMETRY Symmetry
INVARIANT AppliedExactlyOnce

SPECIFICATION GateSpec
CONSTANTS
    Requests = {r1, r2, r3, r4}
    local = local
    twin1 = twin1
    twin2 = twin2
    tgt = tgt
    key = key
    Proposals = {local, twin1, twin2}
    Creates = {twin1, twin2}
    Preexisting = {local, twin1}
    Targets = {tgt}
    TargetOf <- MCTargetOf
    KeyOf <- MCKeyOf
    NoKey = NoKey
    NoProposal = NoProposal
    Engine = "sqlite"
    Serial = FALSE
    MaxVer = 1
CHECK_DEADLOCK FALSE
SYMMETRY Symmetry
INVARIANTS TypeOK MutationsAreAudited AppliedOnlyIfApproved OneActivePerKey NoStrandedClaim UpdatesApplyAtMostOnce
PROPERTY SerialImplementation

SPECIFICATION OutsideSpec
CONSTANTS
    Requests = {r1, r2}
    Texts = {t1, t2}
    NoFile = NoFile
    Returns = {1}
    MaxData = 2
    Torn = Torn
    Missing = Missing
    Keep = 1
    MaxStamp = 3
    MaxVer = 3
    MaxId = 3
    Rules = 2
    Cap = 3
    MaxDay = 2
    MaxRow = 3
    MaxUid = 2
    MaxClock = 4
    TTL = 1
    Interval = 2
    MaxTime = 3
    MaxActs = 2
    Docs = {1, 2}
    Long = 2
    HardCap = 9
    MaxSize = 4
SYMMETRY Symmetry
INVARIANTS
    HandWrittenIsSpared
    CalmFileIsKept
    BackupsAreSound
    MailsAreCapped
    CalendarsAgree
    CockpitIsSafe
    PacksAreFair
PROPERTY PinsStay
CHECK_DEADLOCK FALSE

SPECIFICATION EditingSpec
CONSTANTS
    Docs = {d1, d2, d3}
    Requests = {r1, r2}
    Contents <- MCContents
    NoDoc = NoDoc
    Rank <- MCRank
    MaxMentions = 3
    Entities = {task}
    Ranked1 = d1
    Ranked2 = d2
    Ranked3 = d3
    Ranked4 = task
    MaxDepth = 2
    MaxVersion = 2
    Texts = {t1, t2}
    NoFile = NoFile
    Returns = {1}
    Saves = 2
    Ttl = 2
    MaxDocs = 1
    MaxUsers = 2
    MaxClock = 4
    MaxSeq = 3
    MaxWait = 1
    Slots = {1, 2}
    Typings = 3
    Versions = 4
SYMMETRY Symmetry
INVARIANTS MentionsFollowContent RepairConverges ExportsAreTrue
PROPERTIES NoLostSave SerialTreeIsKept EditorsAreSafe

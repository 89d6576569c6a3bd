SPECIFICATION MCSpec
CONSTANTS
    Docs = {d1, d2}
    Requests = {r1, r2}
    Contents <- MCContents
    NoDoc = NoDoc
    Rank <- MCRank
    MaxMentions = 3
    Entities = {task}
    Ranked1 = d1
    Ranked2 = d2
    Ranked3 = d3
    Ranked4 = task
    MaxDepth = 2
    MaxVersion = 2
INVARIANT NoParentCycle

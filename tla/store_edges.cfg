\* PATCHes at the edge of the schema, and the requests with the most statements.
CONSTANTS
    w1 = w1
    w2 = w2
    w3 = w3
    c1 = c1
    c2 = c2
    t1 = t1
    t2 = t2
    Null = Null
    Unset = Unset
    NoWorker = NoWorker
    Contents = {c1, c2}
    Tags = {t1, t2}
    MemoryTypes = {"fact", "preference", "identity"}
    Terms = {"needle"}
    Mentions <- McMentions
    Workers = {w1, w2}
    Processes <- PairOfProcesses
    Requests <- EdgeRequests
    Seeds <- TwoTypes
    MaxRequests = 2
SPECIFICATION FairSpec
INVARIANTS
    TypeOK
    PageMatchesTotal
PROPERTIES
    WholeBatch
    EveryRequestAnswered

SPECIFICATION FairSpec
CONSTANTS
    t = t  k = k  l = l  v = v
    Types = {t}
    Keys = {k, l}
    Values = {v}
    Requests <- MCRequests
    Conns = {c1, c2}
    MaxBatch = 2
    None = None
    Failed = Failed
    Refused = Refused
    Missing = Missing
    Ok = Ok
    TooLong <- MCTooLong
INVARIANTS
    TypeOK
    ReplyIsForCall
PROPERTIES
    ImplementsKvService
    CallEnds

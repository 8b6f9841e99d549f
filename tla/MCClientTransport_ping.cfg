\* bounds: 4 calls, 2 tags, 2 workers, 2 map entry addresses, responses without body
CONSTANTS
    None = None
    Requests = {r1, r2, r3, r4}
    MaxTags = 2
    Nodes = {n1, n2}
    Workers = 2
    RespLens = {0}
SPECIFICATION FairSpec
INVARIANTS
    TypeOK
    ReadExclusive
    WaiterPresent
    OwnResponse
    NoStrandedRequest
    EnoughWorkers
PROPERTIES
    CallsReturn
    ImplementsCalls

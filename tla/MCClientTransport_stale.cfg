\* bounds: 3 calls, 2 tags, 3 map entry addresses, body lengths 0, 1, the 16 workers of main.cpp:49
CONSTANTS
    None = None
    Requests = {r1, r2, r3}
    MaxTags = 2
    Nodes = {n1, n2, n3}
    Workers = 16
    RespLens = {0, 1}
SPECIFICATION Spec
INVARIANTS
    ReadExclusive

\* bounds: 3 requests, 2 tags, 3 map entry addresses, methods "Ping"
CONSTANTS
    None = None
    Requests = {r1, r2, r3}
    MaxTags = 2
    Nodes = {n1, n2, n3}
    Methods = {"Ping"}
    Large = {r1}
SPECIFICATION Spec
SYMMETRY Symmetry
INVARIANTS
    HandlersExited

\* bounds: three reads of 0 to 2 bytes, 4 bytes from the peer, two writes
CONSTANTS
    Sizes = {0, 1, 2}
    Lens = {1, 2}
    MaxReads = 3
    MaxWrites = 2
    MaxBytes = 4
SPECIFICATION FairSpec
INVARIANTS
    TypeOK
    ReadRequested
PROPERTIES
    ImplementsByteStream
    CallsReturn

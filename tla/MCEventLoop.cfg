\* bounds: 3 threads, each takes the lock once and main once more to stop the
\* loop; a pipe that holds every byte they write
CONSTANTS
    Threads = {main, t1, t2}
    Main = main
    LoopThread = loop
    None = None
    PipeCap = 4
    Turns = 1
SPECIFICATION FairSpec
INVARIANTS
    TypeOK
    HoldersExclusive
    OverlapBounded
PROPERTIES
    AcquireReturns
    StopReturns

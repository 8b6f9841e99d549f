\* bounds: three connections
CONSTANTS
    Connections = {c1, c2, c3}
    LoopThread = LoopThread
    Main = Main
    None = None
SPECIFICATION FairSpec
INVARIANTS
    TypeOK
    CheckedOnce
PROPERTIES
    DestructorReturns

\* bounds: 4 coroutines, the last suspends itself at most twice
CONSTANTS
    Depth = 3
    MaxSuspends = 2
    Catchers = {1}
    None = None
SPECIFICATION FairSpec
INVARIANTS
    TypeOK
    AwaitsAfterEnd
    ErrorKept
PROPERTIES
    ImplementsAwaitChain
    WaitReturns

\* bounds: 3 workers, 1 other thread, 2 resumptions
CONSTANTS
    Workers = {w1, w2, w3}
    Others = {e}
    Handles = {h1, h2}
    Null = Null
    Main = Main
    None = None
SPECIFICATION FairSpec
INVARIANTS
    TypeOK
    ScheduledOnce
    NoIdleWorker
    EnoughToStop
PROPERTIES
    StopReturns

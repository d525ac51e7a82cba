\* Two consumer threads, as the start scripts set (--sql-thread-num=2); no
\* symmetry, for the temporal properties.
CONSTANTS
    w1 = w1
    w2 = w2
    Workers <- TwoWorkers
    Main = Main
    NoThread = NoThread
    Capacity = 2
    PopEnds = {"oldest", "newest"}
    MaxSubmit = 3
SPECIFICATION Spec
INVARIANTS
    TypeOK
    LockHeld
    EachStatementOnce
    SyncBeforeLater
    BoundedShutdown
    TakenInOrder
PROPERTIES
    ImplementsSink
    ShutdownCompletes
    QueryAsyncReturns
    WorkedOff

\* One client more than they can hold.
SPECIFICATION FairSystemSpec
CONSTANTS
    Workers = {w1}
    Main = Main
    Conns = {1, 2, 3, 4, 5}
    PoolSize = 5
    Signals = {}
    SignalThreads = {w1, Main}
    QueueSize = 1
    Backlog = 1
    Timeouts = FALSE
    None = None
PROPERTY PoolServed
CHECK_DEADLOCK FALSE

\* A pool exactly as large as worker, ring, main and backlog can hold.
SPECIFICATION FairSystemSpec
CONSTANTS
    Workers = {w1}
    Main = Main
    Conns = {1, 2, 3, 4}
    PoolSize = 4
    Signals = {}
    SignalThreads = {w1, Main}
    QueueSize = 1
    Backlog = 1
    Timeouts = FALSE
    None = None
PROPERTY PoolServed
CHECK_DEADLOCK FALSE

\* Two clients, two workers and two signals, handled on main one after the other or nested,
\* that stop the server while connects time out.
SPECIFICATION SystemSpec
CONSTANTS
    Workers = {w1, w2}
    Main = Main
    Conns = {1, 2}
    PoolSize = 2
    Signals = {sigint, sigterm}
    SignalThreads = {Main}
    QueueSize = 1
    Backlog = 1
    Timeouts = TRUE
    None = None
SYMMETRY Symmetry
INVARIANTS AllConnectedFirst OneFailureStrandsPool NoReplyOnlyAtShutdown ReplyIsGenuine MutexInv ShutdownWakesAll
CHECK_DEADLOCK FALSE

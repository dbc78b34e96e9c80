\* Two connections, files of two buffers; the handler runs on main or on the thread that serves c1.
SPECIFICATION MCSpec
CONSTANTS
    c1 = c1
    c2 = c2
    Conns = {c1, c2}
    Main = Main
    SignalThreads = {c1, Main}
    Chunks = 2
    Requests = {"file", "missing"}
    Pools <- MCPools
    None = None
INVARIANTS SocketsAccounted WholeAnswerUnlessInterrupted PoolAnswered
PROPERTIES EveryConnClosed ProxyStops PoolReturns
CHECK_DEADLOCK FALSE

\* The same instance without the hypothesis that handlers never block themselves.
SPECIFICATION FairSpec
CONSTANTS
    Workers = {w1}
    Main = Main
    Conns = {c1, c2}
    Signals = {sigint}
    SignalThreads = {Main}
    QueueSize = 1
    Backlog = 2
    None = None
PROPERTY ShutdownCompletes
CHECK_DEADLOCK FALSE

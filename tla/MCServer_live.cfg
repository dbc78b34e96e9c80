\* One worker, one slot and two connections, so main waits for room; one signal
\* handled on the main thread, as Linux chooses.
SPECIFICATION FairSpec
CONSTANTS
    Workers = {w1}
    Main = Main
    Conns = {c1, c2}
    Signals = {sigint}
    SignalThreads = {Main}
    QueueSize = 1
    Backlog = 2
    None = None
PROPERTIES EveryConnServed ShutdownUnlessSelfBlocked
CHECK_DEADLOCK FALSE

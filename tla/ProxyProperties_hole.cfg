\* A client that stays; the handler runs on the thread that sends it a file of two buffers.
SPECIFICATION Spec
CONSTANTS
    Conns = {c1}
    Main = Main
    SignalThreads = {c1}
    Chunks = 2
    Requests = {"file"}
    None = None
INVARIANT SentMeansWhole
CHECK_DEADLOCK FALSE

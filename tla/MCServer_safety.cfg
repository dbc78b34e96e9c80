\* Two workers, a ring of two slots, three connections; one signal that any thread may handle.
SPECIFICATION Spec
CONSTANTS
    Workers = {w1, w2}
    Main = Main
    Conns = {c1, c2, c3}
    Signals = {sigint}
    SignalThreads = {w1, w2, Main}
    QueueSize = 2
    Backlog = 2
    None = None
SYMMETRY Symmetry
INVARIANTS TypeOK NoConnShared NoConnLost NoLostPop NoLostPush JoinWakeups
PROPERTY RefinesFifo
CHECK_DEADLOCK FALSE

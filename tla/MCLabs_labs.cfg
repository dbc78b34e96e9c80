SPECIFICATION LabSpec
CONSTANTS
    UdpClients = {c1, c2}
    UdpScripts <- MCUdpScripts
    MaxDups = 1
    TcpScripts <- MCTcpScripts
    AnswerSize = 2
    Clients = {c1, c2}
    Streams <- MCStreams
    MAX_MSG = 3
    MaxOpen = 2
    None = None
    Tasks <- MCTasks
    Characters = {"FLAG", "ESC", "A"}
    WordBits = 16
    Simulations <- MCSimulations
    BUCKET_CAPACITY = 5
    LEAK_RATE = 2
    Traces <- MCTraces
    Texts <- MCTexts
    Alphabet <- MCAlphabet
    NULL = NULL
    Files <- MCFiles
    Amounts <- MCAmounts
    MAX_RECORDS = 4
    NumRouters = 4
    INF = 6
    Networks <- MCNetworks
    Letters = 3
    Jobs <- MCJobs
INVARIANTS
    AnswersBelong
    InStep
    LinesExact
    OnlyFailuresLeak
    FramingSound
    OneErrorCaught
    TrafficAccounted
    RestoresPrefix
    CodesOptimal
    RainfallExact
    RoutesShortest
    CiphersInvert
    RsaInverts
PROPERTIES
    ProgramsEnd
    ArqSlides
CHECK_DEADLOCK FALSE

CONSTANTS
    NoIdentity = NoIdentity
    Identities = {editor, worker}
    MAX_EXECUTION_CONTEXTS = 1
    MAX_CONTEXT_MESSAGES = 2
    MAX_CONTEXT_EVENTS = 1
    Ceiling = 2
    LimitChoices <- SmallLimits
    Lengths = {0, 2}
    MaxId = 2
    Identifiers = {1}
    Intervals = {0, 1}
    MAX_WATCHES = 2
    MAX_READY_EVENTS = 2
    MaxTime = 3
    MaxReady = 3
    PAGE = 2
    INPUT_OFFSET = 8
    INPUT_UNITS = 2
    STACK_OFFSET = 12
    STACK_UNITS = 2
    MEMORY_UNITS = 16
    Headers <- SmallHeaders
    MaxHeaders = 2
    Inputs = {2, 3}
    Reply <- SmallReply
    MaxInFlight = 1
    RETRIES = 2
    MaxWrites = 2
    Capacities = {1, 2}
    RX_RING_SIZE = 64
    FrameLengths = {16, 22}
    TX_BUFFER_COUNT = 2
    MaxRuns = 2
    MaxFrames = 4
    MaxSends = 3
    Hosts = {1, 2}
    Local = {1}
    Gateway = 1
    DnsServer = 1
    DhcpServers = {1, 2}
    RETRIES_Q = 2
    MaxCalls = 2
    MaxInAir = 2
    MaxCount = 2
    Urls <- SmallUrls
    Allowed = {"a"}
    ServerAddresses = {"ip"}
    Bodies <- SmallBodies
    Manifests <- SmallManifests
    TRACK_CHUNKS = 2
    MaxBlocks = 5
    SAMPLE_RATE = 3
    SOURCE_RATES = {1, 2, 3, 5}
    OUTPUT_FRAMES = 24
    Files <- SmallFiles
    MAX_POINTER_BATCH = 2
    PREFETCH = 2
    MaxWaiting = 6
    MaxSent = 3
    Ports <- SmallPorts
    MAX_DEVICES = 2
    RING_LINK_INDEX = 5
    EVENT_TRBS = 4
    MaxReports = 7
    MaxFaults = 1
    COMPOSED_APPS = 2
    WIDTH = 4
    MAX_COALESCED_COMPOSITIONS = 1
    SCREEN_W = 3
    SCREEN_H = 2
    MAX_DAMAGE_REGIONS = 2
    GOP_RECONCILE_INTERVAL = 2
    GOP_READBACK_INTERVAL = 2
    PROMOTION_NUM = 3
    PROMOTION_DEN = 4
    RawDamage <- SmallDamage
    MaxSubmitted = 5
    DisplayModes = {1, 2, 3}
    LFB_APERTURE = 6
    PCI_BYTES = 5
    NoFirmware = NoFirmware
    FIRMWARE <- Gop
    COLS = 2
    ROWS = 2
    NewLine = "n"
    Rubout = "r"
    Bell = "g"
    Strings <- SmallStrings
    MaxLines = 4
SPECIFICATION KernelSpec
INVARIANTS
    
    ControlsExact
    
    
    WaveExact
    
    UsbAccounted
    
    
PROPERTIES
    WorkerConfined
    DriverSafe
    WebTrusted
    
CHECK_DEADLOCK FALSE

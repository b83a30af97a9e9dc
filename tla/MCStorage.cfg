CONSTANTS
    Requesters = {"zero", "app"}
    Targets = {"app"}
    Dimensions = {"stable"}
    ZERO = "zero"
    Cfcs = {"home", "other"}
    Cfc = "home"
    OperationBits = {"READ", "CONFIGURE"}
    Records <- SmallRecords
    MAX_HANDLES = 3
    MAX_SEALS = 1
    MaxId = 4
    MaxTick = 1
    Programs = {"prog"}
    BROKER_HANDLES = 4
    SHELL_HANDLES = 3
    MAX_RELATIONSHIPS = 1
    MaxHandleId = 6
    FormNames = {"note", "prog"}
    Texts <- SmallTexts
    Patches <- SmallPatches
    BLOB_CHUNK_BYTES = 2
    FORM_CONTENT_CAPACITY = 3
    CFC_CONTENT_CAPACITY = 5
    MAX_FORMS = 3
    MAX_BLOB_STREAMS = 1
    MaxStreamId = 1
    MaxSequence = 3
    FormBytesLimit = 3
    Space = " "
    Newline = "n"
    Tracks = {"imtq", "dash"}
    Junk = "junk"
    DATA_SLOT_COUNT = 3
    CHUNKS = 2
    MaxGeneration = 2
    Names = {"guest", "ann"}
    Passwords = {"p1"}
    MAX_ACCOUNTS = 2
    GENERATIONS = 4
    FIELD_CAPACITY = 3
    MaxFailures = 4
    Settings <- SmallSettings
    Ide = TRUE
    CAPACITY = 2
    NAME_CAPACITY = 1
    Letters = {"c"}
    Nl = "n"
    OtherTexts <- SmallOther
    Origins <- SmallOrigins
    Queues <- SmallQueues
    Answers <- SmallAnswers
    EntrySize = 1
    HeaderSize = 1
    MAX_STORAGE_ENTRIES = 3
    MAX_COOKIE_ENTRIES = 2
    WEB_STATE_CAPACITY = 2
    COOKIE_HEADER_CAPACITY = 1
    Cities = {"A", "B"}
    TASK_CAPACITY = 2
    DAYS = 2
    COOLDOWN = 2
    TSC_HZ = 2
    TIMER = 2
    MaxClock = 5
SPECIFICATION StorageSpec
INVARIANTS
    AuthorityFromParent
    HandlesKept
    MediaHolds
    AccountsSound
    
    ToolsHold
PROPERTIES
    SealedOnlyNarrows
    FormsSound
    EditorKeeps
CHECK_DEADLOCK FALSE

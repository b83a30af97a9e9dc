CONSTANTS
    NoIdentity = NoIdentity
    Identities = {editor, worker, third}
    MAX_EXECUTION_CONTEXTS = 3
    MAX_CONTEXT_MESSAGES = 0
    MAX_CONTEXT_EVENTS = 0
    Ceiling = 0
    LimitChoices = {}
    Lengths = {}
    MaxId = 3
    CPUS = 3
    Late = {2}
    Forms = {"editor", "worker"}
    NONE = "none"
    AP_WRAP = 4
    MaxTick = 6
    Rates = {2, 3}
    ClockRates = {5}
    MaxWait = 3
    MaxPolls = 2
    MaxDiscontinuities = 1
SPECIFICATION ExecutionSpec
INVARIANTS
    OneRunning
    SlicesAreOwn
    PacingHolds
PROPERTIES
    
    WorkCompletes

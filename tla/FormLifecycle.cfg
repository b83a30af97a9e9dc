CONSTANTS
    NoIdentity = NoIdentity
    Root = root
    Programs = {editor, worker}
    Documents = {note}
    Services = {resolver}
    Identities = {root, note, editor, worker}
    MAX_EXECUTION_CONTEXTS = 3
    MAX_NATIVE_SPACES = 2
    MAX_CONTEXT_MESSAGES = 1
    MAX_CONTEXT_EVENTS = 0
    TIMER_QUANTUM_TICKS = 2
    Ceiling = 2
    LimitChoices = {}
    Lengths = {0}
    MaxId = 4
SPECIFICATION ShellFair
INVARIANTS
    LaunchesHold
PROPERTIES
    ForegroundReturns
    ReadyFormsAdvance
CHECK_DEADLOCK FALSE

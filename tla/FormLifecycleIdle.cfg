CONSTANTS
    NoIdentity = NoIdentity
    Root = root
    Programs = {editor}
    Documents = {note}
    Services = {}
    Identities = {root, note, editor}
    MAX_EXECUTION_CONTEXTS = 3
    MAX_NATIVE_SPACES = 1
    MAX_CONTEXT_MESSAGES = 0
    MAX_CONTEXT_EVENTS = 0
    TIMER_QUANTUM_TICKS = 1
    Ceiling = 2
    LimitChoices = {}
    Lengths = {}
    MaxId = 3
SPECIFICATION ShellFair
PROPERTIES
    BackgroundAdvances

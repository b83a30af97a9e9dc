CONSTANTS
    NoIdentity = NoIdentity
    Identities = {editor, worker}
    MAX_EXECUTION_CONTEXTS = 2
    MAX_CONTEXT_MESSAGES = 1
    MAX_CONTEXT_EVENTS = 1
    Ceiling = 1
    LimitChoices = {}
    Lengths = {1}
    MaxId = 3
SPECIFICATION Spec
PROPERTIES
    EventWakes

CONSTANTS
    small = small
    big = big
    NoSnapshot = NoSnapshot
    Snapshots <- MCOneSnapshot
    SectorsOf <- MCOneSectorsOf
    SLOT_SECTORS = 2
    LEGACY_SLOT_SECTORS = 1
    CHECKPOINT_CAPACITY = 2
    GenerationModulus = 6
    MaxStateId = 3
    Encrypted = TRUE
    MediaFaults = TRUE
SPECIFICATION Spec
PROPERTIES
    BaselineKept

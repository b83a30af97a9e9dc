CONSTANTS
    small = small
    big = big
    NoSnapshot = NoSnapshot
    Snapshots <- MCSnapshots
    SectorsOf <- MCLegacySectorsOf
    SLOT_SECTORS = 7
    LEGACY_SLOT_SECTORS = 3
    CHECKPOINT_CAPACITY = 2
    GenerationModulus = 6
    MaxStateId = 3
    Encrypted = FALSE
    MediaFaults = FALSE
SPECIFICATION LegacySpec
PROPERTIES
    PreviousSurvives

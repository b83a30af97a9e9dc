CONSTANTS
    small = small
    big = big
    NoSnapshot = NoSnapshot
    Snapshots <- MCSnapshots
    SectorsOf <- MCSectorsOf
    SLOT_SECTORS = 3
    LEGACY_SLOT_SECTORS = 2
    CHECKPOINT_CAPACITY = 1
    GenerationModulus = 6
    MaxStateId = 0
    Encrypted = FALSE
    MediaFaults = TRUE
SPECIFICATION Spec
INVARIANTS
    ActiveIntact
PROPERTIES
    PreviousSurvives
    ImplementsSnapshotStore

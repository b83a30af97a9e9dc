SPECIFICATION ApFairSpec
CONSTANTS
    CPUS = 3
    Late = {1}
    Forms = {"editor"}
    NONE = "none"
    AP_WRAP = 4
PROPERTIES SliceReturns
CHECK_DEADLOCK FALSE

SPECIFICATION FairSpec
CONSTANTS
    MaxBytes = 2
PROPERTIES
    Exits
CHECK_DEADLOCK FALSE

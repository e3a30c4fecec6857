SPECIFICATION FairSpec
CONSTANTS
    MaxBytes = 2
INVARIANTS
    TypeOK
    NoUseAfterFree
PROPERTIES
    QuietExit
CHECK_DEADLOCK FALSE

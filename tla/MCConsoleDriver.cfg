SPECIFICATION FairSpec
CONSTANTS
    BUF_SIZE = 3
    Keys = {"RET", "a"}
    MaxTyped = 4
    Vector = v
    LINE_MAX = 2
INVARIANTS
    TypeOK
    CleanWaitSafe
    EndsOnEmptyLine
PROPERTIES
    KeysRead

CHECK_DEADLOCK FALSE

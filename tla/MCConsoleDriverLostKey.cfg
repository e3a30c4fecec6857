SPECIFICATION Spec
CONSTANTS
    BUF_SIZE = 3
    Keys = {"RET", "a"}
    MaxTyped = 3
    Vector = v
    LINE_MAX = 2
INVARIANTS
    NeverSleepsOnData

CHECK_DEADLOCK FALSE

SPECIFICATION Spec
CONSTANTS
    BUF_SIZE = 3
    Keys = {"DEL", "RET", "EOF"}
    MaxTyped = 4
INVARIANTS
    TypeOK
    NeverLeftStopped
    FullIsAnnounced
    ReadyStaysReady
PROPERTIES
    QueueSpec

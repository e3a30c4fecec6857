SPECIFICATION XmuSpec
CONSTANTS
    TLB_SIZE = 2
    Tags <- MCTags
    ZeroTag = 0
    Groups = {1, 2}
    Values <- MCValues
    Operands = {1, 2}
    PAGE = 2
    SEG = 4
    SPACE = 4
    Addresses <- MCAddresses
    Sizes = {1, 2}
    Bases <- MCBases
    Descriptors <- MCDescriptors
VIEW View
INVARIANTS
    XmuTypeOK
    HashIsIndex
    KeysUnique
    TranslationCorrect
    DirtyTellsStores
PROPERTIES
    AssocSpec
    HandlerRepairsFault

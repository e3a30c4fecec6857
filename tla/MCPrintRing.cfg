SPECIFICATION FairSpec
CONSTANTS
    PRT_BUF_SIZE = 3
    Chars = {a, b}
    MaxPrinted = 7
INVARIANTS
    TypeOK
    IndicesAgree
    SleepsOnlyWhenEmpty
    ReadyStaysReady
PROPERTIES
    ChannelSpec
    AllPrinted

SPECIFICATION FairSpec
CONSTANTS
    Lines <- MCLines
    Msgs = {m0, m1}
    Threads = {t1, t2}
INVARIANTS
    TypeOK
    OneTimerThread
    OneEntryPerInstruction
    TakingPending
PROPERTIES
    MailboxSpec
    ServedWhenPolled
    TimerStarts
CHECK_DEADLOCK FALSE

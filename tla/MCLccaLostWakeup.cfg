SPECIFICATION Spec
CONSTANTS
    Lines <- MCLines
    Msgs = {m0}
    Threads = {t1}
INVARIANT WaitEndsOnInterrupt
CHECK_DEADLOCK FALSE

SPECIFICATION Spec
CONSTANTS
    Lines <- MCLines
    Msgs = {m0}
    Threads = {t1}
INVARIANT WaitHasTimer
CHECK_DEADLOCK FALSE

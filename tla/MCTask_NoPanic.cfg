\* The boot programs until a task whose block is the last page exits.
\* Five task descriptors, eight pages, pids wrapping after 6.
CONSTANTS
    s1 = s1
    s2 = s2
    s3 = s3
    s4 = s4
    s5 = s5
    Slots <- MCSlots
    NPAGES = 8
    Layout <- MCLayout
    AllocSizes = {1}
    ReallocSizes = {1}
    HChoices = {"next"}
    MAX_PID = 6
    BootThreads <- MCBootThreads
    IDLE_DS_PAGES = 1
    BrkSizes = {2}
    StaleDsAddr = FALSE
SPECIFICATION TaskSpec
\* A panic or a hung alloc_pid halts the machine.
CHECK_DEADLOCK FALSE
INVARIANT NoPanic

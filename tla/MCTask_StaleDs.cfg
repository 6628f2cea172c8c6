\* sys_fork's error path frees the unassigned new_ds_addr: any stale value.
\* Five task descriptors, eight pages, pids wrapping after 6.
CONSTANTS
    s1 = s1
    s2 = s2
    s3 = s3
    s4 = s4
    s5 = s5
    Slots <- MCSlots
    NPAGES = 8
    Layout <- MCLayout
    AllocSizes = {1}
    ReallocSizes = {1}
    HChoices = {"next"}
    MAX_PID = 6
    BootThreads <- MCBootThreads
    IDLE_DS_PAGES = 1
    BrkSizes = {2}
    StaleDsAddr = TRUE
SPECIFICATION TaskSpec
\* A panic or a hung alloc_pid halts the machine.
CHECK_DEADLOCK FALSE
INVARIANT TasksOwnMemory

\* Two kernel threads reading and writing through one controller; the disk
\* may fail a command and the BSY wait may expire.  unsigned int is 3 bits.
CONSTANTS
    k1 = k1
    k2 = k2
    k3 = k3
    idle = idle
    mutex = mutex
    io_sema = io_sema
    TaskOrder <- MCTaskOrder2
    Idle = idle
    KernelThreads = {k1, k2}
    CpuBound = {}
    SleepMsecs = {}
    HZ = 1000
    SCHED_TICKS = 2
    INITIAL_TIMESLICE = 2
    TIMESLICE_INCREMENT = 1
    MAX_TIMESLICE = 2
    Sems = {mutex, io_sema}
    SEM_INIT <- MCSemInit
    UINT_BITS = 3
    Mutex = mutex
    IoSema = io_sema
    Ops = {"read", "write"}
    DevOutcomes = {"ok", "err"}
    BsyTimeouts = TRUE
SPECIFICATION IdeSpec
INVARIANT ReadOnlyWhenDone

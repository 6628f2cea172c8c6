\* Kernel threads that compute or sleep, a user task that sleeps through
\* sys_sleep.  The time-slice constants of consts.h (100, 30 and 150 ticks,
\* SCHED_TICKS = 10) are scaled down keeping INCREMENT < INITIAL < MAX.
CONSTANTS
    kprime = kprime
    kclock = kclock
    idle = idle
    user = user
    TaskOrder <- MCTaskOrder
    Idle = idle
    KernelThreads <- MCKernelThreads
    CpuBound <- MCCpuBound
    SleepMsecs = {1, 3}
    HZ = 1000
    SCHED_TICKS = 2
    INITIAL_TIMESLICE = 4
    TIMESLICE_INCREMENT = 2
    MAX_TIMESLICE = 6
SPECIFICATION Spec
INVARIANT TypeOK
INVARIANT CurrentRunnable
PROPERTY NoStarvation

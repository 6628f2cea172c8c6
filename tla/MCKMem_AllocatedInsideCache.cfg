\* Three caches of 64 bytes (the code's are 32 KiB) with the code's header
\* sizes and granularity: requests of 4 and 12 bytes fall in slabs 0 and 1.
CONSTANTS
    Caches = {1, 2, 3}
    CACHE_SIZE = 64
    CACHE_HDR = 20
    OBJ_HDR = 12
    GRANULARITY = 3
    ReqSizes = {4, 12}
SPECIFICATION Spec
\* All caches full and every object held: no call can change anything.
CHECK_DEADLOCK FALSE



INVARIANT AllocatedInsideCache

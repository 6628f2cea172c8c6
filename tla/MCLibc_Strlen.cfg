\* The heap: sizeof(Header) = 8, PAGE_SIZE = 4096 and NALLOC = 1024 units
\* (2 pages) scaled to 2 bytes, 8 bytes and 8 units (16 bytes = 2 pages).
\* A 3-byte request takes 3 units, a 15-byte one 9 units: more than NALLOC
\* and not a whole number of pages, like malloc(size * sizeof(long)) of
\* compute_pi_task.  The pure functions: the kernel's conversions in
\* formats of up to two pieces, buffers of 2, 5 and 256 bytes; every date
\* from 2000 to 2037; B = 10000 and MaxDiv = 450 as in main.c.
CONSTANTS
    HDR = 2
    PAGE_SIZE = 8
    NALLOC = 8
    CS_SIZE = 8
    MAX_DS = 48
    MallocSizes = {3, 15}
    Tokens <- MCTokens
    MaxTokens = 2
    Sizes = {2, 5, 256}
    UArgs = {0, 7, 42, 255, 48879, 123456}
    DArgs <- MCDArgs
    SArgs <- MCSArgs
    CArgs = {98}
    Strings <- MCStrings
    DescLen = 3
    RtcYears <- MCRtcYears
    RtcTimes <- MCRtcTimes
    B = 10000
    MaxDiv = 450
    N = 2
    Digit = {0, 1, 4999, 9999}
    Multipliers = {1, 4, 5, 12}
    Divisors = {3, 18, 239, 324, 57121}
    ArccotArgs = {2, 3, 18, 57, 239, 449, 450, 1000}
    PiSize = 3
SPECIFICATION Spec
VIEW HeapView
CHECK_DEADLOCK FALSE
INVARIANT StrlenOK
